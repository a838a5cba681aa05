------------------------------ MODULE Watchdog ------------------------------
(***************************************************************************)
(* The progress watchdog of a build: orchestration/watchdog.py, fed by the *)
(* agent's thread and run on a thread of its own. BuildJob says only that  *)
(* it may fire; this module says when. `clock` counts from the start of    *)
(* the run, and stops with it.                                             *)
(***************************************************************************)
EXTENDS Integers

CONSTANTS
    FloorS,     \* the least silence that is allowed
    Multiplier, \* the silence allowed, in gaps as long as the longest so far
    CeilingS,   \* the longest run
    TickS       \* the time between two checks

ASSUME WatchdogAssumption ==
    /\ FloorS \in Nat /\ Multiplier \in Nat /\ CeilingS \in Nat
    /\ TickS \in Nat \ {0}

VARIABLES
    clock,
    last_beat, largest_gap,
    reading,    \* the clock as `beat` has read it, before it takes the lock
    last_check,
    fired,      \* "no", or the reason of the stall
    over,       \* the run has ended by itself, and stopped the watchdog
    gaps        \* observer: every silence that a beat has ended

watchdogVars == <<clock, last_beat, largest_gap, reading, last_check, fired,
                  over, gaps>>

NoReading == -1

WatchdogTypeOK ==
    /\ {clock, last_beat, largest_gap, last_check} \subseteq Nat
    /\ reading \in Nat \cup {NoReading}
    /\ fired \in {"no", "silence", "ceiling"} /\ over \in BOOLEAN
    /\ gaps \subseteq Nat

WatchdogInit ==
    /\ clock = 0 /\ last_beat = 0 /\ largest_gap = 0 /\ last_check = 0
    /\ reading = NoReading /\ fired = "no" /\ over = FALSE /\ gaps = {}

-----------------------------------------------------------------------------
Under == fired = "no" /\ ~over

Larger(a, b) == IF b > a THEN b ELSE a

(* budget_s. *)
Budget(gap) == Larger(FloorS, Multiplier * gap)

(* Time passes; the watchdog's thread wakes when its tick is over. *)
TimePasses ==
    /\ Under /\ clock < last_check + TickS
    /\ clock' = clock + 1
    /\ UNCHANGED <<last_beat, largest_gap, reading, last_check, fired, over,
                   gaps>>

(* beat, on the agent's thread: the clock is read before the lock. *)
ReadClock ==
    /\ Under /\ reading = NoReading
    /\ reading' = clock
    /\ UNCHANGED <<clock, last_beat, largest_gap, last_check, fired, over, gaps>>

(* Mutant: the pace is that of the last event. *)
LearnLast(gap) == gap

Learn(gap) == Larger(largest_gap, gap)

Beat ==
    /\ Under /\ reading # NoReading
    /\ largest_gap' = Learn(reading - last_beat)
    /\ gaps' = gaps \cup {reading - last_beat}
    /\ last_beat' = reading /\ reading' = NoReading
    /\ UNCHANGED <<clock, last_check, fired, over>>

(* check, at a tick of _watch. *)
Reason ==
    IF clock - last_beat > Budget(largest_gap) THEN "silence"
    ELSE IF clock > CeilingS THEN "ceiling" ELSE "no"

Check ==
    /\ Under /\ clock = last_check + TickS
    /\ fired' = Reason /\ last_check' = clock
    /\ UNCHANGED <<clock, last_beat, largest_gap, reading, over, gaps>>

(* stop. *)
Finish ==
    /\ Under /\ over' = TRUE
    /\ UNCHANGED <<clock, last_beat, largest_gap, reading, last_check, fired,
                   gaps>>

WatchdogNext == TimePasses \/ ReadClock \/ Beat \/ Check \/ Finish

WatchdogSpec == WatchdogInit /\ [][WatchdogNext]_watchdogVars

-----------------------------------------------------------------------------
(* A run that goes on is younger than its ceiling, and has not been silent   *)
(* for longer than it may, but for the tick the watchdog sleeps.             *)
CutInTime ==
    Under => /\ clock <= CeilingS + TickS
             /\ clock - last_beat <= Budget(largest_gap) + TickS

(* "A slower model ... grows its own budget": what is cut for its silence    *)
(* has been silent for longer than the floor and than the multiple of every  *)
(* silence it has come back from.                                            *)
SlowIsSpared ==
    fired = "silence" =>
        /\ clock - last_beat > FloorS
        /\ \A g \in gaps : clock - last_beat > Multiplier * g

(* The watchdog ends what is stuck, in time, and spares what is only slow. *)
WatchdogIsJust == CutInTime /\ SlowIsSpared
=============================================================================
