---------------------------- MODULE MCDocumentReview ----------------------------
(* Instances of DocumentReview for TLC. *)
EXTENDS DocumentReview, TLC

CONSTANTS f1, f2, o1, o2
AskersMC == <<{o1}, {o1,o2}>>
=============================================================================
