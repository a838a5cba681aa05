----------------------------- MODULE MCAgentLoop -----------------------------
(* AgentLoop on instances small enough for TLC: an edit has long arguments,  *)
(* a look a long result; a broken call, which has no id, and a mangled one,  *)
(* which is no JSON, have long arguments, too.                               *)
EXTENDS AgentLoop

MCArgSize == [c \in Calls |-> IF c = "look" THEN 1 ELSE 3]
MCResultSize == [c \in Calls |-> IF c = "look" THEN 5 ELSE 1]

(* Up to two calls, with which of two different ones comes first left out,   *)
(* and a reply of more calls than results stay verbatim after a refusal.     *)
MCPairs ==
    {<<>>} \cup {<<c>> : c \in Calls}
      \cup {<<"edit", "edit">>, <<"edit", "look">>, <<"look", "look">>,
             <<"broken", "edit">>, <<"mangled", "look">>,
             <<"look", "look", "look">>}

MCSingles == {<<c>> : c \in Calls}

MCUpToThree == UNION {[1..n -> Calls] : n \in 0..3}
=============================================================================
