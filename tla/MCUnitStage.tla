------------------------------ MODULE MCUnitStage ------------------------------
(* Instances of UnitStage for TLC. *)
EXTENDS UnitStage, TLC

CONSTANTS a, b, w1, w2, h1, h2

\* A unit of one file, and one that holds the rest of it and another file.
TwoFiles == <<{a}, {a, b}>>
\* The unit is examined or left out, with a context request that the last round
\* ignores; or not mentioned, its findings cut.
SomeAnswers ==
    {[cover |-> "examined", more |-> TRUE, in |-> b, cut |-> FALSE],
     [cover |-> "skipped", more |-> TRUE, in |-> a, cut |-> FALSE],
     [cover |-> "neither", more |-> FALSE, in |-> NoFile, cut |-> TRUE]}
===============================================================================
