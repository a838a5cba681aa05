---------------------------- MODULE MCCodegenGate ----------------------------
(* CodegenGate on three files: a parser, its test, and the test of another   *)
(* source, each with the contents that a judge could refuse.                 *)
EXTENDS CodegenGate

Version(text, tests, flaws) == [text |-> text, tests |-> tests, flaws |-> flaws]

MCContents ==
    [f \in Files |->
       CASE f = "parser" -> {Version(1, {}, {}), Version(1, {}, {"dead store"}),
                             Version(1, {}, {"hardcoded", "unreconciled"}), Version(2, {}, {})}
         [] f = "its test" -> {Version(1, {"rows"}, {}), Version(1, {}, {}),
                               Version(1, {}, {"unparsable"})}
         [] f = "a suite" -> {Version(1, {"totals"}, {}), Version(1, {}, {})}]

Disk(p, t) ==
    [f \in Files |-> CASE f = "parser" -> p [] f = "its test" -> t
                      [] f = "a suite" -> Version(1, {"totals"}, {})]

(* The parser and its test are there, or one of them, or none; or the parser *)
(* is there with a flaw.                                                     *)
MCStarts ==
    {Disk(p, t) : p \in {Absent, Version(1, {}, {})}, t \in {Absent, Version(1, {"rows"}, {})}}
      \cup {Disk(Version(1, {}, {"dead store"}), Version(1, {"rows"}, {}))}

=============================================================================
