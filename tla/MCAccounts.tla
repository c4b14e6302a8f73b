------------------------------- MODULE MCAccounts -------------------------------
(* Instances of Accounts for TLC. *)
EXTENDS Accounts, TLC

\* Nothing tells one login from another.
Logins == Permutations(Users)
===============================================================================
