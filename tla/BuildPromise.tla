---------------------------- MODULE BuildPromise ----------------------------
(***************************************************************************)
(* What start_build, build_status and stop_build promise the operator, for *)
(* each source, while one server runs and calls of start_build do not      *)
(* overlap: at most one job, that ends once, as one that ran or one that   *)
(* broke; a stop may still turn a job that ran into one that broke; a job  *)
(* is forgotten only when the next one replaces it.                        *)
(***************************************************************************)
CONSTANT Keys
VARIABLE job  \* of each source: the outcome of its latest build

TypeOK == job \in [Keys -> {"none", "running", "ran", "broke"}]

Init == job = [k \in Keys |-> "none"]

Becomes(k, from, to) ==
    job[k] \in from /\ job' = [job EXCEPT ![k] = to]

Accept(k) == Becomes(k, {"none", "ran", "broke"}, "running")

Finish(k) == \E outcome \in {"ran", "broke"} : Becomes(k, {"running"}, outcome)

Discard(k) == Becomes(k, {"ran"}, "broke")

Next == \E k \in Keys : Accept(k) \/ Finish(k) \/ Discard(k)

Spec == Init /\ [][Next]_job
=============================================================================
