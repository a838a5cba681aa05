----------------------------- MODULE MCLiveCode -----------------------------
(* LiveCode on instances small enough for TLC. *)
EXTENDS LiveCode, TLC

(* Sources are interchangeable, and so are server threads. *)
Symmetry == Permutations(Keys) \cup Permutations(Pollers)
=============================================================================
