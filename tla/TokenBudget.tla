------------------------------ MODULE TokenBudget ------------------------------
(***************************************************************************)
(* The calls of the reviews running in one worker process, from the shared *)
(* gateway slots (reviewer/services/llm/client.py) over the reservation of *)
(* tokens from the review's budget (reviewer/orchestrator/budget.py) to    *)
(* the audited answer (reviewer/store/audit.py), with retries, stage       *)
(* timeouts that cancel a call anywhere, deadlines, and crashes after      *)
(* which the budget is counted again from the audit table                  *)
(* (reviewer/orchestrator/pipeline.py).                                    *)
(*                                                                         *)
(* The condition's lock is never held across an await but wait()'s own, so *)
(* reserving and settling are each one step.                               *)
(***************************************************************************)
EXTENDS Integers, FiniteSets, Functions

CONSTANTS
  Budgets,       \* reviews in progress
  Calls,         \* logical calls of their stages
  BudgetOf,      \* the review each call belongs to
  Verification,  \* calls of the verification stage
  Want,          \* tokens each call asks for: its prompt and a bounded answer
  Need,          \* the least it takes: its prompt and one token
  Context,       \* context window, charged when nothing better is known
  Usages,        \* usage a response may report
  Ceiling,       \* token_ceiling of each review
  FinalReserve,  \* final_stage_token_reserve
  Slots,         \* gateway_concurrency
  MaxFaults      \* bound: cancelled calls, crashes and failing audits

ASSUME CallsAssumption ==
    /\ BudgetOf \in [Calls -> Budgets] /\ Verification \subseteq Calls
    /\ Want \in [Calls -> Nat] /\ Need \in [Calls -> Nat]
    /\ Context \in Nat /\ IsFiniteSet(Calls)
    /\ \A c \in Calls : 1 <= Need[c] /\ Need[c] <= Want[c] /\ Want[c] <= Context
ASSUME LimitsAssumption ==
    /\ Usages \subseteq Nat /\ Ceiling \in [Budgets -> Nat] /\ FinalReserve \in Nat
    /\ \A b \in Budgets : FinalReserve < Ceiling[b]
    /\ Slots \in Nat \ {0}
    /\ MaxFaults \in Nat

VARIABLES
  late,      \* reviews past their deadline for model work
  used,      \* tokens_used of each review, in memory
  reserved,  \* tokens reserved by calls in flight
  audited,   \* tokens of the LLMCall rows of each review, by kind of stage
  call,      \* progress of each call
  granted,   \* reservation each call holds
  \* history and bounds
  excess,    \* tokens settled beyond their reservation, by kind of stage
  faults

tracker == <<used, reserved>>
vars == <<late, tracker, audited, call, granted, excess, faults>>

Kinds == {"verification", "other"}
Kind(c) == IF c \in Verification THEN "verification" ELSE "other"
NoTokens == [b \in Budgets |-> [k \in Kinds |-> 0]]
Fresh == [pc |-> "idle", parse |-> 1, attempt |-> 1, outcome |-> "none",
          charge |-> 0]

Init ==
    /\ late = {}
    /\ used = [b \in Budgets |-> 0] /\ reserved = [b \in Budgets |-> 0]
    /\ audited = NoTokens
    /\ call = [c \in Calls |-> Fresh]
    /\ granted = [c \in Calls |-> 0]
    /\ excess = NoTokens
    /\ faults = 0

\* Calls of a review, those that hold a slot, and those with a reservation.
CallsOf(b) == {c \in Calls : BudgetOf[c] = b}
At(c, pcs) == call[c].pc \in pcs
Holding == {c \in Calls : At(c, {"reserve", "waiting", "woken", "post",
                                 "backoff", "audit"})}
InFlight(b) == {c \in CallsOf(b) : At(c, {"post", "backoff"})}

EndOf(outcome) == [Fresh EXCEPT !.pc = "done", !.outcome = outcome]
End(c, outcome) == call' = [call EXCEPT ![c] = EndOf(outcome)]
-----------------------------------------------------------------------------
(***************************************************************************)
(* Gateway slots                                                           *)
(***************************************************************************)

\* complete() queues for a slot, unless the deadline passed.
Begin(c) ==
    /\ At(c, {"idle"})
    /\ IF BudgetOf[c] \in late THEN End(c, "exhausted")
       ELSE call' = [call EXCEPT ![c].pc = "slot"]
    /\ UNCHANGED <<late, tracker, audited, granted, excess, faults>>

\* The slot is held to the end of the call, whatever ends it.
Acquire(c) ==
    /\ At(c, {"slot"})
    /\ Cardinality(Holding) < Slots
    /\ call' = [call EXCEPT ![c].pc = "reserve"]
    /\ UNCHANGED <<late, tracker, audited, granted, excess, faults>>

SlotTimeout(c) ==
    /\ At(c, {"slot"}) /\ BudgetOf[c] \in late
    /\ End(c, "exhausted")
    /\ UNCHANGED <<late, tracker, audited, granted, excess, faults>>

\* No model for the role, or a prompt beyond its window: a longer one is sent
\* after an unparsable answer.
Reject(c) ==
    /\ At(c, {"reserve"}) /\ call[c].attempt = 1
    /\ End(c, "failed")
    /\ UNCHANGED <<late, tracker, audited, granted, excess, faults>>
-----------------------------------------------------------------------------
(***************************************************************************)
(* The budget                                                              *)
(***************************************************************************)

\* Mutants of Available, Fits and Wake: every stage may draw on the protected
\* allowance, calls in flight are not counted, no waiter is woken.
AvailableToAll(c) == Ceiling[BudgetOf[c]] - used[BudgetOf[c]]
FitsAlone(c, tokens) == tokens <= Ceiling[BudgetOf[c]] - used[BudgetOf[c]]
WakeNone(b, calls) == calls

\* What is left for the call's stage: only verification draws on the
\* protected allowance.
Available(c) ==
    Ceiling[BudgetOf[c]] - (IF c \in Verification THEN 0 ELSE FinalReserve)
      - used[BudgetOf[c]]

\* Near the ceiling a call makes do with what is left, if its prompt fits.
Reservation(c) == IF Want[c] <= Available(c) THEN Want[c] ELSE Available(c)

Exhausted(c) == BudgetOf[c] \in late \/ Reservation(c) < Need[c]

Fits(c, tokens) == reserved[BudgetOf[c]] + tokens <= Available(c)

\* notify_all() wakes every waiter, to look again.
Wake(b, calls) ==
    [c \in Calls |-> IF BudgetOf[c] = b /\ calls[c].pc = "waiting"
                     THEN [calls[c] EXCEPT !.pc = "woken"] ELSE calls[c]]

\* reserve(): refuse, take or wait.
Reserve(c) ==
    /\ At(c, {"reserve", "woken"})
    /\ \/ /\ Exhausted(c)
          /\ End(c, "exhausted")
          /\ UNCHANGED <<reserved, granted>>
       \/ /\ ~Exhausted(c) /\ Fits(c, Reservation(c))
          /\ reserved' = [reserved EXCEPT ![BudgetOf[c]] = @ + Reservation(c)]
          /\ granted' = [granted EXCEPT ![c] = Reservation(c)]
          /\ call' = [call EXCEPT ![c].pc = "post"]
       \/ /\ ~Exhausted(c) /\ ~Fits(c, Reservation(c))
          /\ call' = [call EXCEPT ![c].pc = "waiting"]
          /\ UNCHANGED <<reserved, granted>>
    /\ UNCHANGED <<late, used, audited, excess, faults>>

WaitTimeout(c) ==
    /\ At(c, {"waiting"}) /\ BudgetOf[c] \in late
    /\ End(c, "exhausted")
    /\ UNCHANGED <<late, tracker, audited, granted, excess, faults>>

\* Mutant of Settle: a cancelled or failed attempt does not give its
\* reservation back.
SettleAnswered(c, outcome, charge) ==
    LET b == BudgetOf[c] IN
    /\ used' = [used EXCEPT ![b] = @ + charge]
    /\ reserved' = IF outcome \in {"cancelled", "transport"} THEN reserved
                   ELSE [reserved EXCEPT ![b] = @ - granted[c]]
    /\ granted' = [granted EXCEPT ![c] = 0]
    /\ excess' = [excess EXCEPT ![b][Kind(c)] =
          IF charge > granted[c] THEN @ + charge - granted[c] ELSE @]
    /\ call' = Wake(b, [call EXCEPT ![c].pc = "audit", ![c].outcome = outcome,
                                    ![c].charge = charge])

\* settle() in the finally clause of every attempt: the reservation is
\* returned and the charge made.
Settle(c, outcome, charge) ==
    LET b == BudgetOf[c] IN
    /\ used' = [used EXCEPT ![b] = @ + charge]
    /\ reserved' = [reserved EXCEPT ![b] = @ - granted[c]]
    /\ granted' = [granted EXCEPT ![c] = 0]
    /\ excess' = [excess EXCEPT ![b][Kind(c)] =
          IF charge > granted[c] THEN @ + charge - granted[c] ELSE @]
    /\ call' = Wake(b, [call EXCEPT ![c].pc = "audit", ![c].outcome = outcome,
                                    ![c].charge = charge])
-----------------------------------------------------------------------------
(***************************************************************************)
(* The attempt                                                             *)
(***************************************************************************)

\* The gateway answers, well or not, and says what it used.
Answer(c) ==
    /\ At(c, {"post"})
    /\ \E outcome \in {"value", "invalid"}, usage \in Usages :
          Settle(c, outcome, usage)
    /\ UNCHANGED <<late, audited, faults>>

\* It answers without usage or beyond understanding.
AnswerUnmeasured(c) ==
    /\ At(c, {"post"})
    /\ \E outcome \in {"value", "invalid"} : Settle(c, outcome, Context)
    /\ UNCHANGED <<late, audited, faults>>

\* It cannot be reached, refuses, or the attempt times out.  The retry's pause
\* comes before the settlement, the third failure is settled at once.
TransportFails(c) ==
    /\ At(c, {"post"})
    /\ IF call[c].attempt = 3
       THEN Settle(c, "transport", Context)
       ELSE /\ call' = [call EXCEPT ![c].pc = "backoff"]
            /\ UNCHANGED <<tracker, granted, excess>>
    /\ UNCHANGED <<late, audited, faults>>

Backoff(c) ==
    /\ At(c, {"backoff"})
    /\ Settle(c, "transport", Context)
    /\ UNCHANGED <<late, audited, faults>>

\* What an audited attempt leads to: an end, a reparse or a retry.
Continue(c) ==
    LET try == call[c] IN
    CASE try.outcome \in {"value", "cancelled"} -> EndOf(try.outcome)
      [] try.outcome = "invalid" ->
            IF try.parse = 2 THEN EndOf("failed")
            ELSE [Fresh EXCEPT !.pc = "reserve", !.parse = 2]
      [] try.outcome = "transport" ->
            IF try.attempt = 3 THEN EndOf("failed")
            ELSE [Fresh EXCEPT !.pc = "reserve", !.parse = try.parse,
                               !.attempt = try.attempt + 1]

\* The attempt is recorded, and charged for again after a crash.
WriteAudit(c) ==
    /\ At(c, {"audit"})
    /\ audited' = [audited EXCEPT ![BudgetOf[c]][Kind(c)] = @ + call[c].charge]
    /\ call' = [call EXCEPT ![c] = Continue(c)]
    /\ UNCHANGED <<late, tracker, granted, excess, faults>>

\* The audit store fails, and the call with it.
AuditFails(c) ==
    /\ At(c, {"audit"})
    /\ faults < MaxFaults
    /\ faults' = faults + 1
    /\ End(c, "failed")
    /\ UNCHANGED <<late, tracker, audited, granted, excess>>

\* A unit's, stage's or job's timeout, or an owner's stop, cancels the call: an
\* attempt in flight is settled and audited, an audit may or may not have been
\* committed.
Cancel(c) ==
    /\ faults < MaxFaults
    /\ faults' = faults + 1
    /\ \/ /\ At(c, {"slot", "reserve", "waiting", "woken"})
          /\ End(c, "cancelled")
          /\ UNCHANGED <<tracker, granted, excess, audited>>
       \/ /\ At(c, {"post", "backoff"})
          /\ Settle(c, "cancelled", Context)
          /\ UNCHANGED audited
       \/ /\ At(c, {"audit"})
          /\ End(c, "cancelled")
          /\ \E charge \in {0, call[c].charge} :
                audited' = [audited EXCEPT ![BudgetOf[c]][Kind(c)] = @ + charge]
          /\ UNCHANGED <<tracker, granted, excess>>
    /\ UNCHANGED late

Deadline(b) ==
    /\ b \notin late
    /\ late' = late \cup {b}
    /\ UNCHANGED <<tracker, audited, call, granted, excess, faults>>

AuditedTokens(b) == audited[b]["verification"] + audited[b]["other"]

\* The worker dies; its reviews are run again with what the audit table knows
\* of their spending.  Calls whose results were not saved are made again.
Crash ==
    /\ faults < MaxFaults
    /\ faults' = faults + 1
    /\ used' = [b \in Budgets |-> AuditedTokens(b)]
    /\ reserved' = [b \in Budgets |-> 0]
    /\ granted' = [c \in Calls |-> 0]
    /\ \E saved \in SUBSET {c \in Calls : At(c, {"done"})} :
          call' = [c \in Calls |-> IF c \in saved THEN call[c] ELSE Fresh]
    /\ UNCHANGED <<late, audited, excess>>
-----------------------------------------------------------------------------
\* What a call does unless somebody interferes.
Proceed(c) ==
    \/ Begin(c) \/ Acquire(c) \/ SlotTimeout(c) \/ Reject(c) \/ Reserve(c)
    \/ WaitTimeout(c) \/ Answer(c) \/ AnswerUnmeasured(c) \/ TransportFails(c)
    \/ Backoff(c) \/ WriteAudit(c)

Next ==
    \/ \E c \in Calls : Proceed(c) \/ Cancel(c) \/ AuditFails(c)
    \/ \E b \in Budgets : Deadline(b)
    \/ Crash

\* The event loop runs what can run: a request ends by its own timeout and the
\* audit store answers.  No deadline need ever pass.
Fairness == \A c \in Calls : WF_vars(Proceed(c))

Spec == Init /\ [][Next]_vars
FairSpec == Spec /\ Fairness
-----------------------------------------------------------------------------
CallType ==
    [pc : {"idle", "slot", "reserve", "waiting", "woken", "post", "backoff",
           "audit", "done"},
     parse : 1..2, attempt : 1..3,
     outcome : {"none", "value", "invalid", "transport", "cancelled",
                "failed", "exhausted"},
     charge : Nat]

\* Every variable has its type.  A reservation is counted with a sign: it
\* must not go below zero, but nothing in the code forbids it.
TypeOK ==
    /\ late \subseteq Budgets
    /\ used \in [Budgets -> Nat] /\ reserved \in [Budgets -> Int]
    /\ audited \in [Budgets -> [Kinds -> Nat]]
    /\ call \in [Calls -> CallType] /\ granted \in [Calls -> Nat]
    /\ excess \in [Budgets -> [Kinds -> Nat]]
    /\ faults \in 0..MaxFaults

\* A review never has more spent and promised than its ceiling, but for what
\* answers in flight used beyond their reservation.
CeilingKept ==
    \A b \in Budgets :
        used[b] + reserved[b]
            <= Ceiling[b] + excess[b]["verification"] + excess[b]["other"]

\* Other stages leave verification its protected allowance, but for their own
\* excess: neither their spending that is settled nor that in flight cuts into
\* it, also after the spending was counted again from the audit table.
OtherCalls(b) == CallsOf(b) \ Verification
Pending(b) ==
    SumFunctionOnSet([c \in Calls |-> call[c].charge],
                     {c \in OtherCalls(b) : At(c, {"audit"})})
ProtectedKept ==
    \A b \in Budgets :
        audited[b]["other"] + Pending(b)
          + SumFunctionOnSet(granted, InFlight(b) \cap OtherCalls(b))
            <= Ceiling[b] - FinalReserve + excess[b]["other"]

\* Every call ends, without waiting for a deadline: neither contention for
\* the slots, which calls waiting for tokens keep (complete() holds the slot
\* around reserve()), nor for tokens holds it up for ever, no reservation leaks
\* and no wakeup is lost.
EveryCallEnds == <>[](\A c \in Calls : At(c, {"done"}))
=============================================================================
