----------------------------- MODULE MCTokenBudget -----------------------------
(* An instance of TokenBudget for TLC. *)
EXTENDS TokenBudget, TLC

CONSTANTS c1, c2, c3, b1

\* Calls of one review that want different amounts, with room to retry.
OneReview == [c \in Calls |-> b1]
WantOf == [c \in Calls |-> IF c = c2 THEN 1 ELSE 2]
NeedOf == [c \in Calls |-> 1]
Five == [b \in Budgets |-> 5]
=============================================================================
