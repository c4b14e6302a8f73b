-------------------------- MODULE MCReviewLifecycle --------------------------
(* Instances of ReviewLifecycle for TLC. *)
EXTENDS ReviewLifecycle, TLC

CONSTANTS e1, e2, e3, u1, h1, h2

OneAccount == [m \in Manuals |-> u1]
=============================================================================
