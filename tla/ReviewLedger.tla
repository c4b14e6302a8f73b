---------------------------- MODULE ReviewLedger ----------------------------
(***************************************************************************)
(* What the store promises of the reviews of one merge request or page:    *)
(* rows are opened in order, opening one closes the open one, a closed row *)
(* stays closed, and only closed rows are settled.                         *)
(***************************************************************************)
EXTENDS Naturals

CONSTANT MaxReviews  \* bound: review rows

VARIABLES
  phase,    \* none, open or closed, of each row
  settled   \* rows whose outcome was delivered

ledgerVars == <<phase, settled>>
Rows == 1..MaxReviews
OpenRows == {r \in Rows : phase[r] = "open"}

LedgerInit ==
    /\ phase = [r \in Rows |-> "none"]
    /\ settled = [r \in Rows |-> FALSE]

\* A row is opened once all before it have been; the open one gives way.
Open(r) ==
    /\ phase[r] = "none"
    /\ \A s \in Rows : s < r => phase[s] # "none"
    /\ phase' = [s \in Rows |-> IF s = r THEN "open"
                                ELSE IF phase[s] = "open" THEN "closed"
                                ELSE phase[s]]
    /\ UNCHANGED settled

Close(r) ==
    /\ phase[r] = "open"
    /\ phase' = [phase EXCEPT ![r] = "closed"]
    /\ UNCHANGED settled

Settle(r) ==
    /\ phase[r] = "closed"
    /\ settled' = [settled EXCEPT ![r] = TRUE]
    /\ UNCHANGED phase

LedgerNext == \E r \in Rows : Open(r) \/ Close(r) \/ Settle(r)

Spec == LedgerInit /\ [][LedgerNext]_ledgerVars

\* At most one row is open, closed rows stay closed and settled rows were
\* closed first.
AtMostOneOpen == \A r, s \in OpenRows : r = s
SettledClosed == \A r \in Rows : settled[r] => phase[r] = "closed"
=============================================================================
