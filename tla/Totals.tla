-------------------------------- MODULE Totals --------------------------------
(***************************************************************************)
(* The total of a sequence of numbers: of the sizes of what is in a        *)
(* transcript (AgentLoop), of the amounts of an account (BankPull).        *)
(***************************************************************************)
EXTENDS Integers, Sequences

(* By a recursive function, of the kind proofs can reason about. *)
Total(s) ==
    LET upTo[n \in 0..Len(s)] == IF n = 0 THEN 0 ELSE upTo[n - 1] + s[n]
    IN  upTo[Len(s)]
=============================================================================
