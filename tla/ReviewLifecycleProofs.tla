------------------------ MODULE ReviewLifecycleProofs ------------------------
(***************************************************************************)
(* Theorems about ReviewLifecycle for every number of reviews, events,     *)
(* accounts, heads and faults.                                             *)
(***************************************************************************)
EXTENDS ReviewLifecycle, TLAPS

-----------------------------------------------------------------------------
(***************************************************************************)
(* The inductive invariant                                                 *)
(***************************************************************************)

PathStates == {Path[i] : i \in 1..Len(Path)}

\* The rows are those numbered up to admitted, and one of them at most is
\* unfinished.
RowsInv ==
    /\ \A r \in Reviews : r \in Admitted <=> state[r] # "NONE"
    /\ OneActive

\* The run works on an admitted row, along the path; past finish() its row is
\* final.
RunInv ==
    /\ run.pc = "none" <=> run.id = 0
    /\ run.id \in 0..admitted
    /\ run.pc \in {"check", "move"} => run.target \in PathStates
    /\ run.pc \in {"readmit", "finish", "post", "mark"} => run.final \in TERMINAL
    /\ run.pc \in {"post", "mark"} => state[run.id] \in TERMINAL

\* Queued jobs and handlers name admitted rows.
QueueInv ==
    /\ jobs \subseteq Admitted
    /\ \A e \in Events :
          \/ event[e].pc = "admitted"
          \/ e \in Cancels /\ event[e].pc = "read"
          => event[e].review \in Admitted

\* Only final rows are settled.
SettledInv == \A r \in Reviews : delivered[r] => state[r] \in TERMINAL

IInv == TypeOK /\ RowsInv /\ RunInv /\ QueueInv /\ SettledInv

\* Rows are added and never taken away, and a final row stays as it is.
RowsAdvance ==
    /\ admitted <= admitted'
    /\ \A r \in Reviews : state[r] \in TERMINAL => state'[r] = state[r]
-----------------------------------------------------------------------------
(***************************************************************************)
(* The operators                                                           *)
(***************************************************************************)

\* The working states, by name.
LEMMA WorkingStates ==
    Working = {"INIT", "CONTEXT_COLLECTION", "STATIC_ANALYSIS",
               "DEFECT_REVIEW", "DOCUMENT_REVIEW", "PURPOSE_REVIEW",
               "DESIGN_REVIEW", "ANALYSIS_FAN_OUT", "SYSTEM_CONTEXT_REVIEW",
               "EVIDENCE_VALIDATION", "FINDING_VERIFICATION", "FINALIZATION",
               "DECISION"}
<1>1. Len(ORDER) = 13
  BY DEF ORDER
<1>2. 1..13 = {1, 2, 3, 4, 5, 6, 7, 8, 9, 10, 11, 12, 13}
  OBVIOUS
<1>. QED
  BY <1>1, <1>2 DEF Working, ORDER

\* Final, working and absent rows are told apart.
LEMMA StatesApart ==
    /\ Working \cap TERMINAL = {}
    /\ "NONE" \notin ReviewState
    /\ "INIT" \in Working /\ "DECISION" \in Working
    /\ {"CANCELLED", "SUPERSEDED", "FAILED_CONTEXT", "FAILED_INTERNAL",
        "PUBLISHED"} \subseteq TERMINAL
  BY WorkingStates DEF TERMINAL, ReviewState

\* The path of a run is a sequence of working states that ends in the decision.
LEMMA PathShape ==
    /\ Path \in Seq(Working)
    /\ Len(Path) >= 1
    /\ Path[Len(Path)] = "DECISION"
<1>1. CASE Level < 5
  BY <1>1, WorkingStates DEF Path
<1>2. CASE ~(Level < 5)
  BY <1>2, WorkingStates DEF Path
<1>. QED
  BY <1>1, <1>2

\* The path starts and ends on it, and every state but the last has a next.
LEMMA PathWalk ==
    /\ PathStates \subseteq Working
    /\ Path[1] \in PathStates /\ "DECISION" \in PathStates
    /\ \A s \in PathStates : s # "DECISION" => Following(s) \in PathStates
<1>1. PathStates \subseteq Working /\ Path[1] \in PathStates
      /\ "DECISION" \in PathStates
  BY PathShape DEF PathStates
<1>2. ASSUME NEW s \in PathStates, s # "DECISION"
      PROVE  Following(s) \in PathStates
  <2>. DEFINE i == CHOOSE j \in 1..Len(Path) : Path[j] = s
  <2>1. i \in 1..Len(Path) /\ Path[i] = s
    BY DEF PathStates
  <2>2. i + 1 \in 1..Len(Path)
    BY <2>1, <1>2, PathShape
  <2>. QED
    BY <2>2 DEF Following, PathStates
<1>. QED
  BY <1>1, <1>2

\* A run that goes on is a run of the same review.
LEMMA AfterType ==
    ASSUME NEW r \in RunType, NEW s \in PathStates
    PROVE  /\ After(r, s) \in RunType
           /\ After(r, s).id = r.id
           /\ After(r, s).pc \in {"publish", "finish", "decide", "check"}
           /\ After(r, s).pc = "check" => After(r, s).target \in PathStates
           /\ After(r, s).pc = "finish" => After(r, s).final = "PUBLISHED"
<1>1. CASE s = "DECISION"
  BY <1>1, StatesApart DEF After, RunType, RunPcs
<1>2. CASE s = "FINALIZATION" /\ Level >= 4
  BY <1>2, StatesApart DEF After, RunType, RunPcs
<1>3. CASE s # "DECISION" /\ ~(s = "FINALIZATION" /\ Level >= 4)
  <2>1. Following(s) \in PathStates /\ Following(s) \in Working
    BY <1>3, PathWalk
  <2>. QED
    BY <1>3, <2>1 DEF After, RunType, RunPcs
<1>. QED
  BY <1>1, <1>2, <1>3

\* The absence of a run is one of the values of run.
LEMMA NoRunType == NoRun \in RunType
  BY HeadsAssumption, BoundsAssumption, StatesApart
     DEF NoRun, RunType, RunPcs, Decisions
-----------------------------------------------------------------------------
(***************************************************************************)
(* The rows                                                                *)
(***************************************************************************)

\* What the rows may become in a step.
Kept == UNCHANGED <<admitted, state>>
Moved == /\ UNCHANGED admitted
         /\ \E r \in Admitted, s \in ReviewState : Transition(r, s)
Added == \E id, sha, who : Insert(id, sha, who)

StateType == state \in [Reviews -> {"NONE"} \cup ReviewState]

\* Each of them preserves the invariant of the rows.
LEMMA RowsPreserved ==
    ASSUME TypeOK, RowsInv, Kept \/ Moved \/ Added
    PROVE  StateType' /\ admitted' \in 0..MaxReviews /\ RowsInv' /\ RowsAdvance
<1>. USE BoundsAssumption DEF Reviews, Admitted
<1>0. StateType /\ admitted \in 0..MaxReviews
  BY DEF TypeOK, StateType
<1>1. CASE Kept
  BY <1>0, <1>1 DEF Kept, RowsInv, RowsAdvance, OneActive, Active, StateType
<1>2. CASE Moved
  <2>1. PICK r \in Admitted, s \in ReviewState : Transition(r, s)
    BY <1>2 DEF Moved
  <2>2. admitted' = admitted
    BY <1>2 DEF Moved
  <2>3. CASE state[r] \in TERMINAL
    BY <1>0, <2>1, <2>2, <2>3
       DEF Transition, RowsInv, RowsAdvance, OneActive, Active, StateType
  <2>4. CASE state[r] \notin TERMINAL
    <3>1. r \in Reviews /\ state' = [state EXCEPT ![r] = s]
      BY <1>0, <2>1, <2>4 DEF Transition
    <3>2. state[r] \in Working
      BY <1>0, <3>1, <2>4, StatesApart DEF RowsInv, StateType, ReviewState
    <3>3. \A q \in Reviews : q # r => state'[q] = state[q]
      BY <1>0, <3>1 DEF StateType
    <3>4. state'[r] = s /\ s # "NONE"
      BY <1>0, <3>1, StatesApart DEF StateType
    <3>5. OneActive'
      BY <3>2, <3>3 DEF RowsInv, OneActive, Active
    <3>. QED
      BY <1>0, <2>2, <2>4, <3>1, <3>3, <3>4, <3>5
         DEF RowsInv, RowsAdvance, StateType
  <2>. QED
    BY <2>3, <2>4
<1>3. CASE Added
  <2>. DEFINE new == admitted + 1
  <2>1. PICK id, sha, who : Insert(id, sha, who)
    BY <1>3 DEF Added
  <2>2. new \in Reviews /\ admitted' = new /\ state[new] = "NONE"
    BY <1>0, <2>1 DEF Insert, RowsInv
  <2>3. CASE ActiveReviews = {} /\ state' = [state EXCEPT ![new] = "INIT"]
    <3>1. \A q \in Reviews : ~Active(q)
      BY <1>0, <2>3, StatesApart DEF ActiveReviews, Active, RowsInv, ReviewState
    <3>2. \A q \in Reviews : state'[q] = IF q = new THEN "INIT" ELSE state[q]
      BY <1>0, <2>3 DEF StateType
    <3>. QED
      BY <1>0, <2>2, <2>3, <3>1, <3>2, StatesApart
         DEF RowsInv, RowsAdvance, OneActive, Active, StateType, ReviewState
  <2>4. CASE \E a \in ActiveReviews :
                state' = [state EXCEPT ![a] = "SUPERSEDED", ![new] = "INIT"]
    <3>1. PICK a \in ActiveReviews :
                 state' = [state EXCEPT ![a] = "SUPERSEDED", ![new] = "INIT"]
      BY <2>4
    <3>2. a \in Reviews /\ Active(a) /\ a # new
      BY <1>0, <2>2, <3>1 DEF ActiveReviews
    <3>3. \A q \in Reviews : state'[q] = IF q = new THEN "INIT"
                                         ELSE IF q = a THEN "SUPERSEDED"
                                         ELSE state[q]
      BY <1>0, <3>1, <3>2 DEF StateType
    <3>4. OneActive'
      BY <3>2, <3>3, StatesApart DEF RowsInv, OneActive, Active
    <3>. QED
      BY <1>0, <2>2, <3>1, <3>2, <3>3, <3>4, StatesApart
         DEF RowsInv, RowsAdvance, Active, StateType, ReviewState
  <2>. QED
    BY <2>1, <2>3, <2>4 DEF Insert
<1>. QED
  BY <1>1, <1>2, <1>3

\* Every step keeps the rows, moves one of them or adds one.
LEMMA RowsStep ==
    ASSUME IInv, [Next]_vars
    PROVE  Kept \/ Moved \/ Added
<1>. USE DEF rows, identity
<1>0. /\ run.pc # "none" => run.id \in Admitted
      /\ "CANCELLED" \in ReviewState /\ "FAILED_CONTEXT" \in ReviewState
      /\ "SUPERSEDED" \in ReviewState
      /\ TERMINAL \subseteq ReviewState
  BY StatesApart, BoundsAssumption
     DEF IInv, RunInv, TypeOK, RunType, Admitted, ReviewState
<1>1. ASSUME Environment PROVE Kept \/ Moved
  <2>1. ASSUME NEW r \in Reviews, Stop(r) PROVE Moved
    BY <1>0, <2>1 DEF Stop, Moved, Transition
  <2>2. CASE Push \/ Toggle
    BY <2>2 DEF Push, Toggle, Kept
  <2>3. ASSUME NEW e \in Events, Deliver(e) \/ Redeliver(e) \/ Request(e)
        PROVE  Kept
    BY <2>3 DEF Deliver, Redeliver, Request, Kept
  <2>4. ASSUME NEW u \in Users, Revoke(u) PROVE Kept
    BY <2>4 DEF Revoke, Kept
  <2>. QED
    BY <1>1, <2>1, <2>2, <2>3, <2>4 DEF Environment
<1>2. ASSUME NEW e \in Events, Handle(e) PROVE Kept \/ Moved \/ Added
  <2>1. CASE ReadHead(e) \/ Enqueue(e) \/ ReadActive(e)
    BY <2>1 DEF ReadHead, Enqueue, ReadActive, Kept
  <2>2. CASE Admit(e)
    BY <2>2 DEF Admit, Accept, Kept, Added
  <2>3. CASE CancelReview(e)
    <3>1. event[e].review \in Admitted
      BY <2>3 DEF CancelReview, IInv, QueueInv
    <3>. QED
      BY <1>0, <2>3, <3>1 DEF CancelReview, Moved
  <2>. QED
    BY <1>2, <2>1, <2>2, <2>3 DEF Handle
<1>3. ASSUME NEW r \in Reviews, StartRun(r) PROVE Kept \/ Moved
  <2>1. r \in Admitted
    BY <1>3 DEF StartRun, IInv, QueueInv
  <2>. QED
    BY <1>0, <1>3, <2>1 DEF StartRun, Kept, Moved
<1>4. ASSUME Advance PROVE Kept \/ Moved \/ Added
  <2>1. CASE Load \/ ReadMergeRequest \/ Check \/ Decide \/ HeadCheck
             \/ Publish \/ PostStatus \/ MarkStatus \/ ReadNewHead \/ Fail
    BY <2>1 DEF Load, ReadMergeRequest, Check, Decide, HeadCheck, Publish,
                PostStatus, MarkStatus, ReadNewHead, Fail, Kept
  <2>2. CASE Move
    <3>1. run.target \in ReviewState
      BY <2>2, PathWalk DEF Move, IInv, RunInv, ReviewState
    <3>. QED
      BY <1>0, <2>2, <3>1 DEF Move, Kept, Moved
  <2>3. CASE Finish
    <3>1. run.final \in ReviewState
      BY <1>0, <2>3 DEF Finish, IInv, RunInv
    <3>. QED
      BY <1>0, <2>3, <3>1 DEF Finish, TransitionWith, Kept, Moved
  <2>4. CASE SupersedeStale
    BY <1>0, <2>4 DEF SupersedeStale, Moved
  <2>5. CASE Readmit
    BY <2>5 DEF Readmit, Accept, Kept, Added
  <2>6. CASE Refused
    BY <1>0, <2>6 DEF Refused, ForgeCalls, Kept, Moved
  <2>. QED
    BY <1>4, <2>1, <2>2, <2>3, <2>4, <2>5, <2>6 DEF Advance
<1>5. ASSUME SeeStop \/ Recover \/ Fault PROVE Kept
  BY <1>5 DEF SeeStop, Recover, Fault, Raise, Crash, LoseEvent, Kept
<1>6. ASSUME UNCHANGED vars PROVE Kept
  BY <1>6 DEF vars, Kept
<1>. QED
  BY <1>1, <1>2, <1>3, <1>4, <1>5, <1>6 DEF Next

-----------------------------------------------------------------------------
(***************************************************************************)
(* Runs, queues and deliveries                                             *)
(***************************************************************************)

\* accept() answers with a row there is after it, or with none.
LEMMA AcceptedRow ==
    ASSUME TypeOK, NEW id, NEW sha, NEW who, NEW source,
           Accept(id, sha, who, source)
    PROVE  Accepted(id, sha, who, source) \in 0..admitted'
<1>0. admitted \in Nat /\ MaxReviews \in Nat
  BY BoundsAssumption DEF TypeOK
<1>1. CASE Existing(id) # {}
  <2>1. Accepted(id, sha, who, source) \in Existing(id)
    BY <1>1 DEF Accepted
  <2>. QED
    BY <1>0, <1>1, <2>1 DEF Accept, Existing, Admitted, rows
<1>2. CASE Existing(id) = {}
  BY <1>0, <1>2 DEF Accepted, Accept, Insert, rows
<1>. QED
  BY <1>1, <1>2

\* No step leaves the run without its row.
LEMMA RunStep ==
    ASSUME IInv, [Next]_vars, RowsAdvance, StateType', admitted' \in 0..MaxReviews
    PROVE  RunInv'
<1>. USE BoundsAssumption DEF Admitted, Reviews
<1>0. /\ admitted \in Nat /\ admitted' \in Nat /\ admitted <= admitted'
      /\ run \in RunType /\ run.id \in 0..admitted
      /\ run.id # 0 => run.id \in Reviews
  <2>1. admitted \in 0..MaxReviews /\ run \in RunType
    BY DEF IInv, TypeOK
  <2>2. run.id \in 0..admitted /\ admitted <= admitted'
    BY DEF IInv, RunInv, RowsAdvance
  <2>. QED
    BY <2>1, <2>2
<1>1. ASSUME UNCHANGED run PROVE RunInv'
  <2>1. run.pc \in {"post", "mark"} => state'[run.id] = state[run.id]
    BY <1>0 DEF IInv, RunInv, RowsAdvance
  <2>. QED
    BY <1>0, <1>1, <2>1 DEF IInv, RunInv
<1>2. ASSUME run' = NoRun PROVE RunInv'
  BY <1>0, <1>2 DEF RunInv, NoRun
<1>3. ASSUME run' = Raised, run.id # 0 PROVE RunInv'
  <2>1. CASE run' = [run EXCEPT !.pc = "except"]
    BY <1>0, <1>3, <2>1 DEF RunInv, RunType, IInv
  <2>. QED
    BY <1>2, <1>3, <2>1 DEF Raised
<1>4. ASSUME Environment PROVE RunInv'
  BY <1>1, <1>4 DEF Environment, Push, Toggle, Deliver, Redeliver, Request,
                    Stop, Revoke
<1>5. ASSUME NEW e \in Events, Handle(e) PROVE RunInv'
  BY <1>1, <1>5 DEF Handle, ReadHead, Admit, Enqueue, ReadActive, CancelReview
<1>6. ASSUME NEW r \in Reviews, StartRun(r) PROVE RunInv'
  <2>1. r \in Admitted
    BY <1>6 DEF StartRun, IInv, QueueInv
  <2>2. CASE run' = [NoRun EXCEPT !.id = r, !.pc = "load", !.watched = TRUE]
    BY <1>0, <2>1, <2>2, NoRunType DEF RunInv, NoRun
  <2>. QED
    BY <1>1, <1>6, <2>2 DEF StartRun
<1>7. ASSUME Advance PROVE RunInv'
  <2>1. CASE Load
    BY <1>0, <1>2, <2>1 DEF Load, RunInv, RunType, IInv, rows
  <2>2. CASE ReadMergeRequest
    BY <1>0, <2>2, PathWalk, StatesApart
       DEF ReadMergeRequest, RunInv, RunType, IInv
  <2>3. CASE Check
    BY <1>0, <2>3, AfterType, StatesApart DEF Check, RunInv, RunType, IInv
  <2>4. CASE Move
    BY <1>0, <2>4, AfterType, StatesApart DEF Move, RunInv, RunType, IInv
  <2>5. CASE Decide
    BY <1>0, <2>5 DEF Decide, RunInv, RunType, IInv
  <2>6. CASE HeadCheck
    BY <1>0, <2>6, PathWalk DEF HeadCheck, RunInv, RunType, IInv
  <2>7. CASE Publish
    <3>1. \/ run' = [run EXCEPT !.pc = "finish", !.final = "PUBLISHED"]
          \/ run' = [run EXCEPT !.pc = "stale"]
      BY <2>7 DEF Publish
    <3>2. /\ run'.id = run.id /\ run'.pc \in {"finish", "stale"}
          /\ run'.pc = "finish" => run'.final = "PUBLISHED"
      BY <1>0, <3>1 DEF RunType
    <3>. QED
      BY <1>0, <2>7, <3>2, StatesApart DEF Publish, RunInv, IInv
  <2>8. CASE Finish
    <3>1. run.id \in Reviews /\ run.final \in TERMINAL /\ StateType
      BY <1>0, <2>8 DEF Finish, RunInv, IInv, TypeOK, StateType
    <3>2. CASE MayMove(run.id, run.final)
      <4>1. run' = [run EXCEPT !.pc = "post"] /\ Transition(run.id, run.final)
        BY <2>8, <3>2 DEF Finish, TransitionWith
      <4>2. state'[run.id] \in TERMINAL
        BY <3>1, <4>1 DEF Transition, StateType
      <4>. QED
        BY <1>0, <2>8, <3>1, <4>1, <4>2 DEF Finish, RunInv, RunType, IInv
    <3>. QED
      BY <1>0, <1>3, <2>8, <3>1, <3>2 DEF Finish
  <2>9. CASE PostStatus
    BY <1>0, <1>2, <2>9 DEF PostStatus, RunInv, RunType, IInv, rows
  <2>10. CASE MarkStatus
    BY <1>2, <2>10 DEF MarkStatus
  <2>11. CASE ReadNewHead
    BY <1>0, <2>11 DEF ReadNewHead, RunInv, RunType, IInv
  <2>12. CASE SupersedeStale
    BY <1>0, <2>12, StatesApart DEF SupersedeStale, RunInv, RunType, IInv
  <2>13. CASE Readmit
    BY <1>0, <2>13 DEF Readmit, RunInv, RunType, IInv
  <2>14. CASE Fail
    <3>1. ASSUME NEW s \in {"FAILED_CONTEXT", "FAILED_INTERNAL"},
                 run' = [run EXCEPT !.pc = "finish", !.final = s,
                                    !.decision = "COMMENT_ONLY", !.tail = TRUE]
          PROVE  RunInv'
      <4>1. run'.pc = "finish" /\ run'.final = s /\ run'.id = run.id
        BY <1>0, <3>1 DEF RunType
      <4>. QED
        BY <1>0, <2>14, <4>1, StatesApart DEF Fail, RunInv, IInv
    <3>. QED
      BY <1>2, <2>14, <3>1 DEF Fail
  <2>15. CASE Refused
    BY <1>0, <1>3, <2>15 DEF Refused, ForgeCalls, IInv, RunInv
  <2>. QED
    BY <1>7, <2>1, <2>2, <2>3, <2>4, <2>5, <2>6, <2>7, <2>8, <2>9, <2>10,
       <2>11, <2>12, <2>13, <2>14, <2>15 DEF Advance
<1>8. ASSUME SeeStop PROVE RunInv'
  BY <1>0, <1>8, NoRunType DEF SeeStop, RunInv, NoRun
<1>9. ASSUME Recover \/ Fault PROVE RunInv'
  BY <1>1, <1>2, <1>3, <1>9 DEF Recover, Fault, Raise, Crash, LoseEvent
<1>10. ASSUME UNCHANGED vars PROVE RunInv'
  BY <1>1, <1>10 DEF vars
<1>. QED
  BY <1>4, <1>5, <1>6, <1>7, <1>8, <1>9, <1>10 DEF Next

\* Only the end of finish() settles a row.
LEMMA DeliveredStep ==
    ASSUME [Next]_vars
    PROVE  UNCHANGED delivered \/ MarkStatus
<1>. USE DEF rows
<1>1. ASSUME Environment PROVE UNCHANGED delivered
  BY <1>1 DEF Environment, Push, Toggle, Deliver, Redeliver, Request, Stop, Revoke
<1>2. ASSUME NEW e \in Events, Handle(e) PROVE UNCHANGED delivered
  BY <1>2 DEF Handle, ReadHead, Admit, Accept, Insert, Enqueue, ReadActive,
              CancelReview
<1>3. ASSUME NEW r \in Reviews, StartRun(r) PROVE UNCHANGED delivered
  BY <1>3 DEF StartRun
<1>4. ASSUME Advance PROVE UNCHANGED delivered \/ MarkStatus
  BY <1>4 DEF Advance, Load, ReadMergeRequest, Check, Move, Decide, HeadCheck,
              Publish, Finish, PostStatus, ReadNewHead, SupersedeStale, Readmit,
              Accept, Insert, Fail, Refused
<1>5. ASSUME SeeStop \/ Recover \/ Fault PROVE UNCHANGED delivered
  BY <1>5 DEF SeeStop, Recover, Fault, Raise, Crash, LoseEvent
<1>6. ASSUME UNCHANGED vars PROVE UNCHANGED delivered
  BY <1>6 DEF vars
<1>. QED
  BY <1>1, <1>2, <1>3, <1>4, <1>5, <1>6 DEF Next

\* Every step keeps what is known of settled rows.
LEMMA SettledStep ==
    ASSUME IInv, [Next]_vars, RowsAdvance
    PROVE  SettledInv'
<1>1. CASE UNCHANGED delivered
  BY <1>1 DEF SettledInv, IInv, RowsAdvance
<1>2. CASE MarkStatus
  <2>1. \A r \in Reviews : delivered'[r] => delivered[r] \/ r = run.id
    BY <1>2 DEF MarkStatus, IInv, TypeOK
  <2>2. state[run.id] \in TERMINAL
    BY <1>2 DEF MarkStatus, IInv, RunInv
  <2>. QED
    BY <2>1, <2>2 DEF SettledInv, IInv, RowsAdvance
<1>. QED
  BY <1>1, <1>2, DeliveredStep

\* Queued jobs and handlers keep naming admitted rows.
LEMMA QueueStep ==
    ASSUME IInv, [Next]_vars, RowsAdvance, admitted' \in 0..MaxReviews
    PROVE  QueueInv'
<1>. USE BoundsAssumption DEF Admitted, Reviews
<1>0. /\ admitted \in Nat /\ admitted' \in Nat /\ admitted <= admitted'
      /\ event \in [Events -> EventType]
      /\ run.id \in 0..admitted
      /\ Admitted \subseteq Admitted'
  <2>1. admitted \in Nat /\ admitted' \in Nat /\ event \in [Events -> EventType]
    BY DEF IInv, TypeOK
  <2>. QED
    BY <2>1 DEF IInv, RunInv, RowsAdvance
<1>1. ASSUME jobs' \subseteq Admitted', UNCHANGED event PROVE QueueInv'
  BY <1>0, <1>1 DEF QueueInv, IInv
<1>2. ASSUME UNCHANGED <<jobs, event>> PROVE QueueInv'
  BY <1>0, <1>1, <1>2 DEF QueueInv, IInv
<1>3. ASSUME NEW e \in Events, UNCHANGED jobs,
             \A x \in Events \ {e} : event'[x] = event[x],
             \/ event'[e].pc = "admitted"
             \/ e \in Cancels /\ event'[e].pc = "read"
             => event'[e].review \in Admitted'
      PROVE  QueueInv'
  BY <1>0, <1>3 DEF QueueInv, IInv
<1>4. ASSUME Environment PROVE QueueInv'
  <2>1. ASSUME NEW e \in Events, Deliver(e) \/ Redeliver(e) \/ Request(e)
        PROVE  QueueInv'
    <3>1. UNCHANGED jobs /\ event'[e].pc \in {"queued", "idle"}
          /\ \A x \in Events \ {e} : event'[x] = event[x]
      BY <1>0, <2>1 DEF Deliver, Redeliver, Request, IdleEvent, EventType
    <3>. QED
      BY <1>3, <3>1
  <2>. QED
    BY <1>2, <1>4, <2>1 DEF Environment, Push, Toggle, Stop, Revoke
<1>5. ASSUME NEW e \in Events, Handle(e) PROVE QueueInv'
  <2>1. CASE ReadHead(e)
    <3>1. UNCHANGED jobs /\ event'[e].pc \in {"done", "read"} /\ e \notin Cancels
          /\ \A x \in Events \ {e} : event'[x] = event[x]
      BY <1>0, <2>1, EventsAssumption DEF ReadHead, EventType
    <3>. QED
      BY <1>3, <3>1
  <2>2. CASE Admit(e)
    <3>. DEFINE id == Accepted(e, event[e].head, EventOwner(e), Source(e))
    <3>1. id \in 0..admitted'
      BY <2>2, AcceptedRow DEF Admit, IInv
    <3>2. /\ UNCHANGED jobs /\ e \notin Cancels
          /\ event'[e].pc = IF id = 0 THEN "done" ELSE "admitted"
          /\ event'[e].review = id
          /\ \A x \in Events \ {e} : event'[x] = event[x]
      BY <1>0, <2>2, EventsAssumption DEF Admit, EventType
    <3>. HIDE DEF id
    <3>. QED
      BY <1>0, <1>3, <3>1, <3>2
  <2>3. CASE Enqueue(e)
    <3>1. event[e].review \in Admitted
      BY <2>3 DEF Enqueue, IInv, QueueInv
    <3>2. jobs' \subseteq Admitted'
      BY <1>0, <2>3, <3>1 DEF Enqueue, IInv, QueueInv
    <3>3. /\ event'[e].pc = "done"
          /\ \A x \in Events \ {e} : event'[x] = event[x]
      BY <1>0, <2>3 DEF Enqueue, EventType
    <3>. QED
      BY <1>0, <3>2, <3>3 DEF QueueInv, IInv
  <2>4. CASE ReadActive(e)
    <3>1. UNCHANGED jobs /\ \A x \in Events \ {e} : event'[x] = event[x]
      BY <1>0, <2>4 DEF ReadActive, EventType
    <3>2. \/ event'[e].pc = "done"
          \/ event'[e].review \in ActiveReviews /\ event'[e].pc = "read"
      BY <1>0, <2>4 DEF ReadActive, EventType
    <3>. QED
      BY <1>0, <1>3, <3>1, <3>2 DEF ActiveReviews
  <2>5. CASE CancelReview(e)
    <3>1. UNCHANGED jobs /\ event'[e].pc = "done"
          /\ \A x \in Events \ {e} : event'[x] = event[x]
      BY <1>0, <2>5 DEF CancelReview, EventType
    <3>. QED
      BY <1>3, <3>1
  <2>. QED
    BY <1>5, <2>1, <2>2, <2>3, <2>4, <2>5 DEF Handle
<1>6. ASSUME NEW r \in Reviews, StartRun(r) PROVE QueueInv'
  BY <1>0, <1>1, <1>6 DEF StartRun, IInv, QueueInv
<1>7. ASSUME Advance PROVE QueueInv'
  BY <1>2, <1>7 DEF Advance, Load, ReadMergeRequest, Check, Move, Decide,
                    HeadCheck, Publish, Finish, PostStatus, MarkStatus,
                    ReadNewHead, SupersedeStale, Readmit, Fail, Refused
<1>8. ASSUME Recover PROVE QueueInv'
  <2>1. jobs' \subseteq Admitted'
    BY <1>0, <1>8 DEF Recover, Pending, IInv, QueueInv
  <2>2. \A x \in Events : event'[x] = event[x] \/ event'[x].pc = "queued"
    BY <1>8 DEF Recover, IdleEvent
  <2>. QED
    BY <1>0, <2>1, <2>2 DEF QueueInv, IInv
<1>9. ASSUME SeeStop \/ Raise \/ Crash PROVE QueueInv'
  <2>1. CASE Crash
    <3>1. jobs' \subseteq jobs \cup {run.id} /\ UNCHANGED event /\ run.id # 0
      BY <2>1 DEF Crash
    <3>. QED
      BY <1>0, <1>1, <3>1 DEF IInv, QueueInv
  <2>. QED
    BY <1>2, <1>9, <2>1 DEF SeeStop, Raise
<1>10. ASSUME NEW e \in Events, LoseEvent(e) PROVE QueueInv'
  <2>1. UNCHANGED jobs /\ event'[e].pc \in {"queued", "idle", "done"}
        /\ \A x \in Events \ {e} : event'[x] = event[x]
    BY <1>0, <1>10 DEF LoseEvent, IdleEvent
  <2>. QED
    BY <1>3, <2>1
<1>11. ASSUME UNCHANGED vars PROVE QueueInv'
  BY <1>2, <1>11 DEF vars
<1>. QED
  BY <1>4, <1>5, <1>6, <1>7, <1>8, <1>9, <1>10, <1>11 DEF Next, Fault
-----------------------------------------------------------------------------
(***************************************************************************)
(* Types                                                                   *)
(***************************************************************************)

\* The types of the rows' columns but the state.
RowTypes ==
    /\ headSha \in [Reviews -> Heads]
    /\ owner \in [Reviews -> Users \cup {NoOwner}]
    /\ eventId \in [Reviews -> {<<>>} \cup Events \cup (Reviews \X Heads)]
    /\ decision \in [Reviews -> {"none"} \cup Decisions]
    /\ delivered \in [Reviews -> BOOLEAN]
    /\ stopped \in [Reviews -> BOOLEAN]
    /\ supersededBy \in [Reviews -> 0..MaxReviews]

\* accept() writes values of the columns' types.
LEMMA AcceptTypes ==
    ASSUME TypeOK,
           NEW id \in {<<>>} \cup Events \cup (Reviews \X Heads),
           NEW sha \in Heads, NEW who \in Users \cup {NoOwner}, NEW source,
           Accept(id, sha, who, source)
    PROVE  RowTypes'
<1>1. RowTypes /\ admitted \in 0..MaxReviews
  BY DEF TypeOK, RowTypes
<1>2. CASE UNCHANGED rows
  BY <1>1, <1>2 DEF rows, RowTypes
<1>3. CASE Insert(id, sha, who)
  <2>1. admitted + 1 \in Reviews /\ Reviews \subseteq 0..MaxReviews
    BY <1>3, BoundsAssumption DEF Insert, Reviews
  <2>2. \/ UNCHANGED supersededBy
        \/ \E a \in ActiveReviews :
              supersededBy' = [supersededBy EXCEPT ![a] = admitted + 1]
    BY <1>3 DEF Insert
  <2>3. supersededBy' \in [Reviews -> 0..MaxReviews]
    BY <1>1, <2>1, <2>2 DEF RowTypes
  <2>. QED
    BY <1>1, <1>3, <2>1, <2>3 DEF Insert, RowTypes
<1>. QED
  BY <1>2, <1>3 DEF Accept

\* A handler that did nothing yet, or is done, is a handler.
LEMMA IdleType ==
    \A pc \in {"idle", "queued", "done"} : [IdleEvent EXCEPT !.pc = pc] \in EventType
  BY HeadsAssumption, BoundsAssumption DEF IdleEvent, EventType

\* Every step keeps the types, given those of the rows' states.
LEMMA TypeStep ==
    ASSUME IInv, [Next]_vars, StateType', admitted' \in 0..MaxReviews
    PROVE  TypeOK'
<1>. USE BoundsAssumption DEF StateType, forge, identity, rows, bounds
<1>0. TypeOK
  BY DEF IInv
<1>00. event \in [Events -> EventType] /\ head \in Heads
  BY <1>0 DEF TypeOK
<1>1. ASSUME Environment PROVE TypeOK'
  <2>1. CASE Push
    BY <1>0, <2>1 DEF Push, TypeOK
  <2>2. CASE Toggle
    BY <1>0, <2>2 DEF Toggle, TypeOK
  <2>3. ASSUME NEW e \in Events, Deliver(e) PROVE TypeOK'
    BY ZenonT(30), <1>0, <2>3 DEF Deliver, TypeOK, EventType
  <2>4. ASSUME NEW e \in Events, Redeliver(e) PROVE TypeOK'
    <3>1. event' \in [Events -> EventType]
      BY <1>00, <2>4, IdleType DEF Redeliver
    <3>. QED
      BY SMTT(30), <1>0, <2>4, <3>1 DEF Redeliver, TypeOK
  <2>5. ASSUME NEW e \in Events, Request(e) PROVE TypeOK'
    BY ZenonT(30), <1>0, <2>5 DEF Request, TypeOK, EventType
  <2>6. ASSUME NEW r \in Reviews, Stop(r) PROVE TypeOK'
    BY <1>0, <2>6 DEF Stop, TypeOK
  <2>7. ASSUME NEW u \in Users, Revoke(u) PROVE TypeOK'
    BY <1>0, <2>7 DEF Revoke, TypeOK
  <2>. QED
    BY <1>1, <2>1, <2>2, <2>3, <2>4, <2>5, <2>6, <2>7 DEF Environment
<1>2. ASSUME NEW e \in Events, Handle(e) PROVE TypeOK'
  <2>1. CASE ReadHead(e)
    <3>1. event' \in [Events -> EventType]
      <4>1. \/ event' = [event EXCEPT ![e].pc = "done"]
            \/ event' = [event EXCEPT ![e].pc = "read", ![e].head = head]
        BY <2>1 DEF ReadHead
      <4>. QED
        BY <1>00, <4>1 DEF EventType
    <3>2. trigger' \in [Manuals -> {"none", "QUEUED", "ADMITTED", "REJECTED",
                                    "CONFLICT"}]
      BY <1>0, <2>1 DEF ReadHead, TypeOK
    <3>. QED
      BY <1>0, <2>1, <3>1, <3>2 DEF ReadHead, TypeOK
  <2>2. CASE Admit(e)
    <3>. DEFINE id == Accepted(e, event[e].head, EventOwner(e), Source(e))
    <3>1. id \in 0..MaxReviews
      BY <1>0, <2>2, AcceptedRow DEF Admit
    <3>2. event[e] \in EventType /\ EventOwner(e) \in Users \cup {NoOwner}
      BY <1>0, OwnersAssumption DEF TypeOK, EventOwner
    <3>3. RowTypes'
      BY <1>0, <2>2, <3>2, AcceptTypes DEF Admit, EventType
    <3>4. event' \in [Events -> EventType]
      BY <1>0, <2>2, <3>1, <3>2 DEF Admit, TypeOK, EventType
    <3>5. trigger' \in [Manuals -> {"none", "QUEUED", "ADMITTED", "REJECTED",
                                    "CONFLICT"}]
      BY <1>0, <2>2 DEF Admit, TypeOK
    <3>. QED
      BY <1>0, <2>2, <3>3, <3>4, <3>5 DEF Admit, TypeOK, RowTypes
  <2>3. CASE Enqueue(e)
    <3>1. jobs' \subseteq Reviews
      BY <1>0, <2>3 DEF Enqueue, TypeOK, IInv, QueueInv, Admitted, Reviews
    <3>. QED
      BY <1>0, <2>3, <3>1 DEF Enqueue, TypeOK, EventType
  <2>4. CASE ReadActive(e)
    <3>1. ActiveReviews \subseteq 0..MaxReviews
      BY <1>0 DEF TypeOK, ActiveReviews, Admitted
    <3>2. event' \in [Events -> EventType]
      <4>1. \/ event' = [event EXCEPT ![e].pc = "done"]
            \/ \E r \in 0..MaxReviews :
                  event' = [event EXCEPT ![e].pc = "read", ![e].review = r]
        BY <2>4, <3>1 DEF ReadActive
      <4>. QED
        BY <1>00, <4>1 DEF EventType
    <3>. QED
      BY <1>0, <2>4, <3>2 DEF ReadActive, TypeOK
  <2>5. CASE CancelReview(e)
    BY ZenonT(30), <1>0, <2>5 DEF CancelReview, TypeOK, EventType
  <2>. QED
    BY <1>2, <2>1, <2>2, <2>3, <2>4, <2>5 DEF Handle
<1>3. ASSUME NEW r \in Reviews, StartRun(r) PROVE TypeOK'
  <2>1. run' \in RunType
    <3>1. \/ run' = [NoRun EXCEPT !.id = r, !.pc = "load", !.watched = TRUE]
          \/ run' = run
      BY <1>3 DEF StartRun
    <3>2. run \in RunType /\ r \in 0..MaxReviews
      BY <1>0, <1>3 DEF TypeOK, Reviews
    <3>3. [NoRun EXCEPT !.id = r, !.pc = "load", !.watched = TRUE] \in RunType
      BY <3>2, NoRunType DEF RunType, RunPcs
    <3>. QED
      BY <3>1, <3>2, <3>3
  <2>. QED
    BY <1>0, <1>3, <2>1 DEF StartRun, TypeOK
<1>4. ASSUME Advance PROVE TypeOK'
  <2>0. run \in RunType /\ (run.id # 0 => run.id \in Reviews)
    BY <1>0 DEF TypeOK, RunType, Reviews
  <2>00. run.pc # "none" => run.id \in Reviews
    BY <2>0 DEF IInv, RunInv
  <2>1. CASE Load
    <3>1. run' \in RunType
      <4>1. decision[run.id] \in {"none"} \cup Decisions
        BY <1>0, <2>00, <2>1 DEF Load, TypeOK
      <4>2. ASSUME NEW f \in TERMINAL, NEW d \in {"none"} \cup Decisions,
                   run' = [run EXCEPT !.pc = "post", !.final = f,
                                      !.decision = d, !.tail = TRUE]
            PROVE  run' \in RunType
        BY <2>0, <4>2 DEF RunType, RunPcs
      <4>3. ASSUME run' = [run EXCEPT !.pc = "mr"] PROVE run' \in RunType
        BY <2>0, <4>3 DEF RunType, RunPcs
      <4>. QED
        BY <2>1, <4>1, <4>2, <4>3, NoRunType DEF Load
    <3>. QED
      BY <1>0, <2>1, <3>1 DEF Load, TypeOK
  <2>2. CASE ReadMergeRequest
    <3>1. run' \in RunType
      BY <2>0, <2>2, PathWalk, StatesApart
         DEF ReadMergeRequest, RunType, RunPcs, Decisions
    <3>. QED
      BY <1>0, <2>2, <3>1 DEF ReadMergeRequest, TypeOK
  <2>3. CASE Check
    <3>1. run' \in RunType
      BY <2>0, <2>3, AfterType DEF Check, RunType, RunPcs, IInv, RunInv
    <3>. QED
      BY <1>0, <2>3, <3>1 DEF Check, TypeOK
  <2>4. CASE Move
    <3>1. run' \in RunType
      BY <2>0, <2>4, AfterType DEF Move, RunType, RunPcs, IInv, RunInv
    <3>. QED
      BY <1>0, <2>4, <3>1 DEF Move, TypeOK
  <2>5. CASE Decide
    <3>1. run' \in RunType
      BY ZenonT(30), <2>0, <2>5 DEF Decide, RunType, RunPcs, Decisions
    <3>. QED
      BY <1>0, <2>5, <3>1 DEF Decide, TypeOK
  <2>6. CASE HeadCheck
    <3>1. run' \in RunType
      BY <2>0, <2>6, StatesApart DEF HeadCheck, RunType, RunPcs
    <3>. QED
      BY <1>0, <2>6, <3>1 DEF HeadCheck, TypeOK
  <2>7. CASE Publish
    <3>1. run' \in RunType
      BY ZenonT(30), <2>0, <2>7, StatesApart DEF Publish, RunType, RunPcs
    <3>2. report' \subseteq Reviews
      BY <1>0, <2>00, <2>7 DEF Publish, TypeOK
    <3>. QED
      BY <1>0, <2>7, <3>1, <3>2 DEF Publish, TypeOK
  <2>8. CASE Finish
    <3>1. run' \in RunType
      BY <2>0, <2>8, NoRunType DEF Finish, Raised, RunType, RunPcs
    <3>2. decision' \in [Reviews -> {"none"} \cup Decisions]
      BY <1>0, <2>0, <2>8 DEF Finish, TransitionWith, TypeOK, RunType
    <3>. QED
      BY <1>0, <2>8, <3>1, <3>2 DEF Finish, TypeOK
  <2>9. CASE PostStatus
    <3>1. run' \in RunType
      BY <2>0, <2>9, NoRunType DEF PostStatus, RunType, RunPcs
    <3>2. /\ commitStatus' \in [Heads -> {"none", "success", "failed"}]
          /\ posted' \in [Reviews -> {"none", "success", "failed"}]
      BY <1>0, <2>9 DEF PostStatus, StatusCode, TypeOK
    <3>. QED
      BY <1>0, <2>9, <3>1, <3>2 DEF PostStatus, TypeOK
  <2>10. CASE MarkStatus
    BY <1>0, <2>10, NoRunType DEF MarkStatus, TypeOK
  <2>11. CASE ReadNewHead
    <3>1. run' \in RunType
      BY <1>0, <2>0, <2>11 DEF ReadNewHead, RunType, RunPcs, TypeOK
    <3>. QED
      BY <1>0, <2>11, <3>1 DEF ReadNewHead, TypeOK
  <2>12. CASE SupersedeStale
    <3>1. run' \in RunType
      BY <2>0, <2>12, StatesApart DEF SupersedeStale, RunType, RunPcs, Decisions
    <3>. QED
      BY <1>0, <2>12, <3>1 DEF SupersedeStale, TypeOK
  <2>13. CASE Readmit
    <3>1. run' \in RunType
      BY <2>0, <2>13 DEF Readmit, RunType, RunPcs
    <3>2. RowTypes'
      BY <1>0, <2>0, <2>00, <2>13, AcceptTypes DEF Readmit, RunType
    <3>. QED
      BY <1>0, <2>13, <3>1, <3>2 DEF Readmit, TypeOK, RowTypes
  <2>14. CASE Fail
    <3>1. run' \in RunType
      <4>1. ASSUME NEW s \in TERMINAL,
                   run' = [run EXCEPT !.pc = "finish", !.final = s,
                                      !.decision = "COMMENT_ONLY", !.tail = TRUE]
            PROVE  run' \in RunType
        BY <2>0, <4>1 DEF RunType, RunPcs, Decisions
      <4>. QED
        BY <2>14, <4>1, NoRunType, StatesApart DEF Fail
    <3>. QED
      BY <1>0, <2>14, <3>1 DEF Fail, TypeOK
  <2>15. CASE Refused
    <3>1. run' \in RunType
      BY <2>0, <2>15, NoRunType DEF Refused, Raised, RunType, RunPcs
    <3>. QED
      BY <1>0, <2>15, <3>1 DEF Refused, TypeOK
  <2>. QED
    BY <1>4, <2>1, <2>2, <2>3, <2>4, <2>5, <2>6, <2>7, <2>8, <2>9, <2>10,
       <2>11, <2>12, <2>13, <2>14, <2>15 DEF Advance
<1>5. ASSUME SeeStop PROVE TypeOK'
  <2>1. run' \in RunType
    BY <1>0, <1>5, NoRunType DEF SeeStop, RunType, RunPcs, TypeOK
  <2>. QED
    BY <1>0, <1>5, <2>1 DEF SeeStop, TypeOK
<1>6. ASSUME Recover PROVE TypeOK'
  <2>1. event' \in [Events -> EventType]
    BY <1>00, <1>6, IdleType DEF Recover
  <2>2. jobs' \subseteq Reviews
    BY <1>0, <1>6 DEF Recover, Pending, TypeOK, Admitted, Reviews
  <2>. QED
    BY <1>0, <1>6, <2>1, <2>2 DEF Recover, TypeOK
<1>7. ASSUME Raise \/ Crash PROVE TypeOK'
  <2>1. run' \in RunType /\ jobs' \subseteq Reviews
    <3>1. run' \in {NoRun, [run EXCEPT !.pc = "except"]}
      BY <1>7 DEF Raise, Crash, Raised
    <3>2. run \in RunType /\ jobs \subseteq Reviews
      BY <1>0 DEF TypeOK
    <3>3. run' \in RunType
      BY <3>1, <3>2, NoRunType DEF RunType, RunPcs
    <3>4. run.id # 0 => run.id \in Reviews
      BY <3>2 DEF RunType, Reviews
    <3>. QED
      BY <1>7, <3>2, <3>3, <3>4 DEF Raise, Crash
  <2>. QED
    BY <1>0, <1>7, <2>1 DEF Raise, Crash, TypeOK
<1>8. ASSUME NEW e \in Events, LoseEvent(e) PROVE TypeOK'
  <2>1. event' \in [Events -> EventType]
    BY <1>00, <1>8, IdleType DEF LoseEvent
  <2>. QED
    BY SMTT(30), <1>0, <1>8, <2>1 DEF LoseEvent, TypeOK
<1>9. ASSUME UNCHANGED vars PROVE TypeOK'
  BY <1>0, <1>9 DEF vars, TypeOK
<1>. QED
  BY <1>1, <1>2, <1>3, <1>4, <1>5, <1>6, <1>7, <1>8, <1>9 DEF Next, Fault
-----------------------------------------------------------------------------
(***************************************************************************)
(* Theorems                                                                *)
(***************************************************************************)

\* The invariant holds before any event.
LEMMA InitInv == Init => IInv
<1>. SUFFICES ASSUME Init PROVE IInv
  OBVIOUS
<1>. USE BoundsAssumption, HeadsAssumption
<1>1. event \in [Events -> EventType]
  BY IdleType DEF Init, IdleEvent, EventType
<1>2. run \in RunType
  BY NoRunType DEF Init
<1>3. TypeOK
  BY <1>1, <1>2 DEF Init, TypeOK, Reviews
<1>4. RowsInv
  BY StatesApart DEF Init, RowsInv, Admitted, Reviews, OneActive, Active, ReviewState
<1>5. RunInv
  BY StatesApart DEF Init, RunInv, NoRun
<1>6. QueueInv
  BY DEF Init, QueueInv, IdleEvent
<1>7. SettledInv
  BY DEF Init, SettledInv
<1>. QED
  BY <1>3, <1>4, <1>5, <1>6, <1>7 DEF IInv

\* Every step keeps the invariant, and only advances rows.
LEMMA StepInv == IInv /\ [Next]_vars => IInv' /\ RowsAdvance
<1>. SUFFICES ASSUME IInv, [Next]_vars PROVE IInv' /\ RowsAdvance
  OBVIOUS
<1>1. StateType' /\ admitted' \in 0..MaxReviews /\ RowsInv' /\ RowsAdvance
  BY RowsStep, RowsPreserved DEF IInv
<1>. QED
  BY <1>1, TypeStep, RunStep, QueueStep, SettledStep DEF IInv

\* The invariant holds in every reachable state.
LEMMA Invariance == Spec => []IInv
  BY InitInv, StepInv, PTL DEF Spec

\* Every variable keeps its type; in particular the rows never grow past the
\* bound and no conflict is ever queued (accept() and _receive_event()).
THEOREM TypeCorrect == Spec => []TypeOK
<1>1. IInv => TypeOK
  BY DEF IInv
<1>. QED
  BY <1>1, Invariance, PTL

\* However many webhooks, commands, triggers, cancellations, crashes and stale
\* runs interleave, at most one review of the merge request is unfinished.
THEOREM OneActiveAlways == Spec => []OneActive
<1>1. IInv => OneActive
  BY DEF IInv, RowsInv
<1>. QED
  BY <1>1, Invariance, PTL

\* A decision is written with a state, and never over a final one.
LEMMA DecisionStep ==
    ASSUME IInv, [Next]_vars
    PROVE  \A r \in Reviews : state[r] \in TERMINAL => decision'[r] = decision[r]
<1>. USE DEF rows
<1>1. ASSUME Finish PROVE UNCHANGED decision
                          \/ /\ state[run.id] \notin TERMINAL
                             /\ decision' = [decision EXCEPT ![run.id] = run.decision]
  BY <1>1 DEF Finish, TransitionWith
<1>2. ASSUME Environment PROVE UNCHANGED decision
  BY <1>2 DEF Environment, Push, Toggle, Deliver, Redeliver, Request, Stop, Revoke
<1>3. ASSUME NEW e \in Events, Handle(e) PROVE UNCHANGED decision
  BY <1>3 DEF Handle, ReadHead, Admit, Accept, Insert, Enqueue, ReadActive,
              CancelReview
<1>4. ASSUME NEW r \in Reviews, StartRun(r) PROVE UNCHANGED decision
  BY <1>4 DEF StartRun
<1>5. ASSUME Advance, ~Finish PROVE UNCHANGED decision
  BY <1>5 DEF Advance, Load, ReadMergeRequest, Check, Move, Decide, HeadCheck,
              Publish, PostStatus, MarkStatus, ReadNewHead, SupersedeStale,
              Readmit, Accept, Insert, Fail, Refused
<1>6. ASSUME SeeStop \/ Recover \/ Fault PROVE UNCHANGED decision
  BY <1>6 DEF SeeStop, Recover, Fault, Raise, Crash, LoseEvent
<1>7. ASSUME UNCHANGED vars PROVE UNCHANGED decision
  BY <1>7 DEF vars
<1>8. UNCHANGED decision \/ Finish
  BY <1>2, <1>3, <1>4, <1>5, <1>6, <1>7 DEF Next
<1>9. decision \in [Reviews -> {"none"} \cup Decisions]
  BY DEF IInv, TypeOK
<1>. QED
  BY <1>1, <1>8, <1>9

\* A final state is never left and its decision never rewritten, whoever else
\* writes the row; a delivery is never forgotten.
THEOREM FinalRowsStayAlways == Spec => FinalRowsStay
<1>1. ASSUME IInv, [Next]_vars
      PROVE  [\A r \in Reviews :
                 /\ state[r] \in TERMINAL =>
                       state'[r] = state[r] /\ decision'[r] = decision[r]
                 /\ delivered[r] => delivered'[r]]_<<state, decision, delivered>>
  <2>1. \A r \in Reviews : state[r] \in TERMINAL => state'[r] = state[r]
    BY <1>1, StepInv DEF RowsAdvance
  <2>2. \A r \in Reviews : delivered[r] => delivered'[r]
    BY <1>1, DeliveredStep DEF MarkStatus, IInv, TypeOK
  <2>. QED
    BY <1>1, <2>1, <2>2, DecisionStep
<1>. QED
  BY <1>1, Invariance, PTL DEF Spec, FinalRowsStay
-----------------------------------------------------------------------------
(***************************************************************************)
(* The ledger                                                              *)
(***************************************************************************)

\* The phase of a row in the ledger.
LEMMA PhaseOf ==
    ASSUME NEW r \in Reviews
    PROVE  Phase[r] = IF state[r] = "NONE" THEN "none"
                      ELSE IF state[r] \in TERMINAL THEN "closed" ELSE "open"
  BY DEF Phase

\* Keeping, moving and adding rows are stutters, closings and openings.
LEMMA LedgerRows ==
    ASSUME IInv, Kept \/ Moved \/ Added, UNCHANGED delivered
    PROVE  Ledger!LedgerNext \/ UNCHANGED Phase
<1>. USE BoundsAssumption DEF Reviews, Admitted, Ledger!Rows, Ledger!LedgerNext
<1>0. /\ StateType /\ admitted \in 0..MaxReviews
      /\ RowsInv
  BY DEF IInv, TypeOK, StateType
<1>1. CASE Kept
  BY <1>1 DEF Kept, Phase
<1>2. CASE Moved
  <2>1. PICK r \in Admitted, s \in ReviewState : Transition(r, s)
    BY <1>2 DEF Moved
  <2>2. r \in Reviews /\ state[r] # "NONE" /\ s # "NONE"
    BY <1>0, <2>1, StatesApart DEF RowsInv
  <2>3. CASE state[r] \in TERMINAL
    BY <2>1, <2>3 DEF Transition, Phase
  <2>4. CASE state[r] \notin TERMINAL /\ s \notin TERMINAL
    <3>1. \A q \in Reviews : state'[q] = IF q = r THEN s ELSE state[q]
      BY <1>0, <2>1, <2>4 DEF Transition, StateType
    <3>. QED
      BY <2>2, <2>4, <3>1 DEF Phase
  <2>5. CASE state[r] \notin TERMINAL /\ s \in TERMINAL
    <3>1. \A q \in Reviews : state'[q] = IF q = r THEN s ELSE state[q]
      BY <1>0, <2>1, <2>5 DEF Transition, StateType
    <3>2. Phase[r] = "open"
      BY <2>2, <2>5 DEF Phase
    <3>3. Phase' = [Phase EXCEPT ![r] = "closed"]
      BY <2>2, <2>5, <3>1 DEF Phase
    <3>. QED
      BY <2>2, <3>2, <3>3 DEF Ledger!Close
  <2>. QED
    BY <2>3, <2>4, <2>5
<1>3. CASE Added
  <2>. DEFINE new == admitted + 1
  <2>1. PICK id, sha, who : Insert(id, sha, who)
    BY <1>3 DEF Added
  <2>2. new \in Reviews /\ state[new] = "NONE"
    BY <1>0, <2>1 DEF Insert, RowsInv
  <2>3. \A q \in Reviews : state'[q] =
           IF q = new THEN "INIT"
           ELSE IF Active(q) THEN "SUPERSEDED" ELSE state[q]
    <3>1. \A q \in Reviews : Active(q) => q \in ActiveReviews
      BY <1>0, StatesApart DEF ActiveReviews, Active, RowsInv, ReviewState
    <3>2. CASE ActiveReviews = {} /\ state' = [state EXCEPT ![new] = "INIT"]
      BY <1>0, <2>2, <3>1, <3>2 DEF StateType
    <3>3. CASE \E a \in ActiveReviews :
                 state' = [state EXCEPT ![a] = "SUPERSEDED", ![new] = "INIT"]
      <4>1. PICK a \in ActiveReviews :
                   state' = [state EXCEPT ![a] = "SUPERSEDED", ![new] = "INIT"]
        BY <3>3
      <4>2. a \in Reviews /\ Active(a) /\ a # new
        BY <1>0, <2>2, <4>1 DEF ActiveReviews
      <4>3. \A q \in Reviews : Active(q) => q = a
        BY <1>0, <4>2 DEF RowsInv, OneActive
      <4>. QED
        BY <1>0, <2>2, <4>1, <4>2, <4>3 DEF StateType
    <3>. QED
      BY <2>1, <3>2, <3>3 DEF Insert
  <2>4. Phase[new] = "none"
    BY <2>2 DEF Phase
  <2>5. \A q \in Reviews : q < new => Phase[q] # "none"
    BY <1>0 DEF Phase, RowsInv
  <2>6. \A q \in Reviews : Phase[q] = "open" <=> Active(q)
    BY <1>0, StatesApart DEF Phase, Active, StateType, ReviewState
  <2>7. Phase' = [q \in Reviews |-> IF q = new THEN "open"
                                    ELSE IF Phase[q] = "open" THEN "closed"
                                    ELSE Phase[q]]
    <3>1. \A q \in Reviews : Phase'[q] = IF q = new THEN "open"
                                         ELSE IF Active(q) THEN "closed"
                                         ELSE Phase[q]
      BY <2>3, StatesApart DEF Phase
    <3>. QED
      BY <2>6, <3>1 DEF Phase
  <2>. QED
    BY <2>2, <2>4, <2>5, <2>7 DEF Ledger!Open
<1>. QED
  BY <1>1, <1>2, <1>3

\* Every step is one of the ledger or leaves it alone.
LEMMA LedgerStep ==
    ASSUME IInv, [Next]_vars
    PROVE  [Ledger!LedgerNext]_<<Phase, delivered>>
<1>1. CASE UNCHANGED delivered
  BY <1>1, RowsStep, LedgerRows
<1>2. CASE MarkStatus
  <2>1. run.id \in Reviews /\ state[run.id] \in TERMINAL
    BY <1>2, BoundsAssumption
       DEF MarkStatus, IInv, RunInv, TypeOK, RunType, Reviews
  <2>2. Phase[run.id] = "closed"
    BY <2>1, StatesApart DEF Phase, ReviewState
  <2>3. UNCHANGED Phase
    BY <1>2 DEF MarkStatus, Phase
  <2>. QED
    BY <1>2, <2>1, <2>2, <2>3
       DEF MarkStatus, Ledger!LedgerNext, Ledger!Settle, Ledger!Rows, Reviews
<1>. QED
  BY <1>1, <1>2, DeliveredStep

\* The store and the runs implement the ledger: rows are opened in order,
\* opening one closes the open one, closed rows stay closed, and a delivery is
\* recorded only for a closed row.
THEOREM LedgerImplemented == Spec => ImplementsLedger
<1>1. Init => Ledger!LedgerInit
  BY DEF Init, Phase, Ledger!LedgerInit, Ledger!Rows, Reviews
<1>2. IInv /\ [Next]_vars => [Ledger!LedgerNext]_(Ledger!ledgerVars)
  BY LedgerStep DEF Ledger!ledgerVars
<1>. QED
  BY <1>1, <1>2, Invariance, PTL DEF Spec, ImplementsLedger, Ledger!Spec

\* An event admits one review at most, over redeliveries, lost jobs, restarted
\* stale runs and recovered triggers.
THEOREM OneReviewPerEventAlways == Spec => []OneReviewPerEvent
<1>. DEFINE Inv == IInv /\ OneReviewPerEvent
<1>. USE DEF rows, identity
<1>1. Init => Inv
  BY InitInv DEF Init, OneReviewPerEvent, Admitted
<1>2. Inv /\ [Next]_vars => Inv'
  <2>. SUFFICES ASSUME IInv, OneReviewPerEvent, [Next]_vars
                PROVE  OneReviewPerEvent'
    BY StepInv
  <2>1. ASSUME UNCHANGED <<admitted, eventId>> PROVE OneReviewPerEvent'
    BY <2>1 DEF OneReviewPerEvent, Admitted
  <2>2. ASSUME NEW id, NEW sha, NEW who, NEW source, Accept(id, sha, who, source)
        PROVE  OneReviewPerEvent'
    <3>1. CASE UNCHANGED rows
      BY <2>1, <3>1
    <3>2. CASE Existing(id) = {} /\ Insert(id, sha, who)
      <4>. DEFINE new == admitted + 1
      <4>1. admitted \in 0..MaxReviews /\ eventId \in [Reviews ->
               {<<>>} \cup Events \cup (Reviews \X Heads)]
        BY DEF IInv, TypeOK
      <4>2. new \in Reviews /\ admitted' = new /\ eventId' = [eventId EXCEPT ![new] = id]
        BY <3>2 DEF Insert
      <4>3. \A r \in Admitted : eventId'[r] = eventId[r] /\ eventId[r] # id
        BY <3>2, <4>1, <4>2, BoundsAssumption DEF Existing, Admitted, Reviews
      <4>4. eventId'[new] = id
        BY <4>1, <4>2
      <4>5. Admitted' = Admitted \cup {new}
        BY <4>1, <4>2, BoundsAssumption DEF Admitted
      <4>. QED
        BY <4>3, <4>4, <4>5 DEF OneReviewPerEvent
    <3>. QED
      BY <2>2, <3>1, <3>2 DEF Accept
  <2>3. CASE Environment
    BY <2>1, <2>3 DEF Environment, Push, Toggle, Deliver, Redeliver, Request,
                      Stop, Revoke
  <2>4. ASSUME NEW e \in Events, Handle(e) PROVE OneReviewPerEvent'
    BY <2>1, <2>2, <2>4 DEF Handle, ReadHead, Admit, Enqueue, ReadActive,
                            CancelReview
  <2>5. ASSUME NEW r \in Reviews, StartRun(r) PROVE OneReviewPerEvent'
    BY <2>1, <2>5 DEF StartRun
  <2>6. CASE Advance
    BY <2>1, <2>2, <2>6
       DEF Advance, Load, ReadMergeRequest, Check, Move, Decide, HeadCheck,
           Publish, Finish, PostStatus, MarkStatus, ReadNewHead,
           SupersedeStale, Readmit, Fail, Refused
  <2>7. CASE SeeStop \/ Recover \/ Fault
    BY <2>1, <2>7 DEF SeeStop, Recover, Fault, Raise, Crash, LoseEvent
  <2>8. CASE UNCHANGED vars
    BY <2>1, <2>8 DEF vars
  <2>. QED
    BY <2>3, <2>4, <2>5, <2>6, <2>7, <2>8 DEF Next
<1>3. Inv => OneReviewPerEvent
  OBVIOUS
<1>. QED
  BY <1>1, <1>2, <1>3, PTL DEF Spec
-----------------------------------------------------------------------------
(***************************************************************************)
(* Commit statuses                                                         *)
(***************************************************************************)

Failed == {"FAILED_CONTEXT", "FAILED_INTERNAL"}

\* Where a run may be whose row failed: it records or recovers the failure, and
\* nothing it does from there starts over.
FailedRun ==
    run.id # 0 /\ state[run.id] \in Failed =>
        \/ run.pc = "load"
        \/ run.pc \in {"post", "mark"} /\ run.final \in Halted /\ run.tail

\* Where one may be whose row is published: on its way to deliver the recorded
\* decision, or, of a personal review, turned away and on its way to pass.
PublishedRun ==
    run.id # 0 /\ state[run.id] = "PUBLISHED" =>
        \/ run.pc \in {"load", "except"}
        \/ /\ run.pc \in {"post", "mark"} /\ run.final \notin Halted
           /\ run.decision = decision[run.id]
        \/ /\ ~System(run.id)
           /\ \/ run.pc \in {"stale", "stalemove"}
              \/ run.pc \in {"readmit", "finish", "post", "mark"} /\ run.final \in Halted

\* A failure is only recorded past the handlers; what is marked was posted; a row
\* settled already is not run again.
OutcomeRun ==
    /\ run.pc \in {"readmit", "finish"} /\ run.final \in Failed => run.tail
    /\ run.pc = "mark" =>
          posted[run.id] = StatusCode(run.decision, Mode, run.final \in Halted)
    /\ run.id # 0 /\ run.pc # "load" => ~delivered[run.id]

\* What was posted for a review: a failing status only for a final one that did
\* not fail, and of a published one only if its decision calls for it.
PostedInv ==
    \A r \in Reviews : posted[r] = "failed" =>
        /\ state[r] \in TERMINAL \ Failed
        /\ state[r] = "PUBLISHED" => StatusAgrees(r)

StatusInv == FailedRun /\ PublishedRun /\ OutcomeRun /\ PostedInv /\ PublishedStatusAgrees

RunParts == FailedRun /\ PublishedRun /\ OutcomeRun

\* How the states at which a run ends are related.
LEMMA Outcomes ==
    /\ Failed \subseteq Halted /\ Halted \subseteq TERMINAL
    /\ "PUBLISHED" \notin Halted /\ "PUBLISHED" \in TERMINAL
    /\ {"SUPERSEDED", "CANCELLED"} \subseteq Halted \ Failed
    /\ Working \cap (Failed \cup {"PUBLISHED"}) = {}
    /\ \A d : StatusCode(d, Mode, TRUE) = "success"
BY WorkingStates DEF Failed, Halted, TERMINAL, StatusCode

\* A row keeps its owner.
LEMMA OwnerStep ==
    ASSUME IInv, [Next]_vars
    PROVE  \A r \in Admitted : owner'[r] = owner[r]
<1>. USE DEF rows, identity
<1>1. ASSUME Environment PROVE UNCHANGED owner
  BY <1>1 DEF Environment, Push, Toggle, Deliver, Redeliver, Request, Stop, Revoke
<1>2. ASSUME NEW e \in Events, Handle(e) PROVE UNCHANGED owner \/ Added
  BY <1>2 DEF Handle, ReadHead, Admit, Accept, Added, Enqueue, ReadActive, CancelReview
<1>3. ASSUME NEW r \in Reviews, StartRun(r) PROVE UNCHANGED owner
  BY <1>3 DEF StartRun
<1>4. ASSUME Advance PROVE UNCHANGED owner \/ Added
  BY <1>4 DEF Advance, Load, ReadMergeRequest, Check, Move, Decide, HeadCheck,
              Publish, Finish, PostStatus, MarkStatus, ReadNewHead, SupersedeStale,
              Readmit, Accept, Added, Fail, Refused
<1>5. ASSUME SeeStop \/ Recover \/ Fault PROVE UNCHANGED owner
  BY <1>5 DEF SeeStop, Recover, Fault, Raise, Crash, LoseEvent
<1>6. ASSUME UNCHANGED vars PROVE UNCHANGED owner
  BY <1>6 DEF vars
<1>7. UNCHANGED owner \/ Added
  BY <1>1, <1>2, <1>3, <1>4, <1>5, <1>6 DEF Next
<1>8. ASSUME Added PROVE \A r \in Admitted : owner'[r] = owner[r]
  <2>1. PICK id, sha, who : Insert(id, sha, who)
    BY <1>8 DEF Added
  <2>2. owner' = [owner EXCEPT ![admitted + 1] = who] /\ admitted \in Nat
        /\ owner \in [Reviews -> Users \cup {NoOwner}] /\ Admitted \subseteq Reviews
    BY <2>1, BoundsAssumption DEF Insert, IInv, TypeOK, Admitted, Reviews
  <2>. QED
    BY <2>2 DEF Admitted
<1>. QED
  BY <1>7, <1>8

\* A row added, and the one it supersedes, are neither failed nor published.
LEMMA InsertedRow ==
    ASSUME TypeOK, NEW id, NEW sha, NEW who, Insert(id, sha, who)
    PROVE  \A r \in Reviews : state'[r] \in Failed \cup {"PUBLISHED"} => state'[r] = state[r]
<1>1. state \in [Reviews -> {"NONE"} \cup ReviewState]
  BY DEF TypeOK
<1>2. PICK new : new = admitted + 1
  OBVIOUS
<1>3. CASE state' = [state EXCEPT ![new] = "INIT"]
  <2>1. \A r \in Reviews : state'[r] = IF r = new THEN "INIT" ELSE state[r]
    BY <1>1, <1>3
  <2>. QED
    BY <2>1, Outcomes, StatesApart
<1>4. ASSUME NEW a \in ActiveReviews,
             state' = [state EXCEPT ![a] = "SUPERSEDED", ![new] = "INIT"]
      PROVE  \A r \in Reviews : state'[r] \in Failed \cup {"PUBLISHED"} => state'[r] = state[r]
  <2>1. \A r \in Reviews : state'[r] = IF r = new THEN "INIT"
                                       ELSE IF r = a THEN "SUPERSEDED" ELSE state[r]
    BY <1>1, <1>4
  <2>. QED
    BY <2>1, Outcomes, StatesApart
<1>. QED
  BY <1>2, <1>3, <1>4 DEF Insert

\* What happens outside of the run neither fails nor publishes a row.
LEMMA OutsideStep ==
    ASSUME IInv, \/ Environment \/ Recover
                 \/ \E e \in Events : Handle(e) \/ LoseEvent(e)
    PROVE  /\ UNCHANGED <<run, posted, decision, delivered>>
           /\ \A r \in Reviews : state'[r] \in Failed \cup {"PUBLISHED"} => state'[r] = state[r]
<1>. USE DEF rows, bounds
<1>1. UNCHANGED <<run, posted, decision, delivered>>
  <2>1. CASE Environment
    BY <2>1 DEF Environment, Push, Toggle, Deliver, Redeliver, Request, Stop, Revoke
  <2>2. ASSUME NEW e \in Events, Handle(e) PROVE UNCHANGED <<run, posted, decision, delivered>>
    BY <2>2 DEF Handle, ReadHead, Admit, Accept, Insert, Enqueue, ReadActive, CancelReview
  <2>3. CASE Recover \/ \E e \in Events : LoseEvent(e)
    BY <2>3 DEF Recover, LoseEvent
  <2>. QED
    BY <2>1, <2>2, <2>3
<1>2. state \in [Reviews -> {"NONE"} \cup ReviewState]
  BY DEF IInv, TypeOK
<1>3. ASSUME NEW q \in Reviews, state' = [state EXCEPT ![q] = "CANCELLED"]
      PROVE  \A r \in Reviews : state'[r] \in Failed \cup {"PUBLISHED"} => state'[r] = state[r]
  <2>1. \A r \in Reviews : state'[r] = IF r = q THEN "CANCELLED" ELSE state[r]
    BY <1>2, <1>3
  <2>. QED
    BY <2>1, Outcomes
<1>4. ASSUME NEW id, NEW sha, NEW who, Insert(id, sha, who)
      PROVE  \A r \in Reviews : state'[r] \in Failed \cup {"PUBLISHED"} => state'[r] = state[r]
  BY <1>4, InsertedRow DEF IInv
<1>5. CASE UNCHANGED state
  BY <1>1, <1>5
<1>6. ASSUME NEW r \in Reviews, Stop(r) PROVE state' = [state EXCEPT ![r] = "CANCELLED"]
  BY <1>6 DEF Stop
<1>7. CASE Environment
  BY <1>1, <1>3, <1>5, <1>6, <1>7
     DEF Environment, Push, Toggle, Deliver, Redeliver, Request, Revoke
<1>8. ASSUME NEW e \in Events, Handle(e)
      PROVE  \A r \in Reviews : state'[r] \in Failed \cup {"PUBLISHED"} => state'[r] = state[r]
  <2>1. CASE ReadHead(e) \/ Enqueue(e) \/ ReadActive(e)
    BY <1>5, <2>1 DEF ReadHead, Enqueue, ReadActive
  <2>2. CASE Admit(e)
    BY <1>4, <1>5, <2>2 DEF Admit, Accept
  <2>3. CASE CancelReview(e)
    <3>1. event[e].review \in Reviews
      BY <2>3, BoundsAssumption DEF CancelReview, IInv, QueueInv, TypeOK, Admitted, Reviews
    <3>. QED
      BY <1>3, <1>5, <2>3, <3>1 DEF CancelReview, Transition
  <2>. QED
    BY <1>8, <2>1, <2>2, <2>3 DEF Handle
<1>9. CASE Recover \/ \E e \in Events : LoseEvent(e)
  BY <1>5, <1>9 DEF Recover, LoseEvent
<1>. QED
  BY <1>1, <1>7, <1>8, <1>9

\* The run is over, or has only just begun.
LEMMA FreshRun ==
    ASSUME run'.pc \in {"none", "load"}, run'.pc = "none" => run'.id = 0
    PROVE  RunParts'
BY DEF RunParts, FailedRun, PublishedRun, OutcomeRun

\* It stays where it was while the row is not failed or published elsewhere.
LEMMA SameRun ==
    ASSUME IInv, RunParts, UNCHANGED <<run, posted, decision, delivered>>,
           run.id # 0 => /\ owner'[run.id] = owner[run.id]
                         /\ state'[run.id] \in Failed \cup {"PUBLISHED"}
                               => state'[run.id] = state[run.id]
    PROVE  RunParts'
BY DEF RunParts, FailedRun, PublishedRun, OutcomeRun, System

\* An exception in the pipeline is caught, or ends the run.
LEMMA RaisedRun ==
    ASSUME IInv, RunParts, run' = Raised, run.id # 0, UNCHANGED <<decision, delivered>>,
           run' # NoRun => UNCHANGED state
    PROVE  RunParts'
<1>1. CASE run' = NoRun
  <2>1. run'.pc = "none" /\ run'.id = 0
    BY <1>1 DEF NoRun
  <2>. QED
    BY <2>1, FreshRun
<1>2. CASE run' # NoRun
  <2>1. /\ run' = [run EXCEPT !.pc = "except"] /\ ~run.tail /\ run.pc \notin Handlers
        /\ UNCHANGED state
    BY <1>2 DEF Raised
  <2>2. run'.pc = "except" /\ run'.id = run.id
    BY <2>1 DEF IInv, TypeOK, RunType
  <2>. QED
    BY <2>1, <2>2 DEF RunParts, FailedRun, PublishedRun, OutcomeRun, Handlers
<1>. QED
  BY <1>1, <1>2

\* A step of the pipeline short of its end, after which the row is neither failed
\* nor published unless it was before.
LEMMA PlainRun ==
    ASSUME IInv, RunParts,
           run.pc \in {"mr", "check", "move", "decide", "headcheck", "publish"},
           run'.id = run.id, run'.pc \notin {"readmit", "mark"},
           run'.pc = "finish" => run'.final \notin Failed, UNCHANGED delivered,
           state'[run.id] \in Failed \cup {"PUBLISHED"} => state'[run.id] = state[run.id]
    PROVE  RunParts'
<1>1. run.id # 0 /\ state[run.id] \notin Failed /\ state[run.id] # "PUBLISHED"
  BY DEF IInv, RunInv, RunParts, FailedRun, PublishedRun
<1>. QED
  BY <1>1 DEF RunParts, FailedRun, PublishedRun, OutcomeRun

\* A posted status and a settled row answer for what they did when they were
\* neither posted nor settled just now.
LEMMA PostedKept ==
    ASSUME IInv, StatusInv, [Next]_vars, RowsAdvance, UNCHANGED <<posted, delivered>>
    PROVE  PostedInv' /\ PublishedStatusAgrees'
<1>1. ASSUME NEW r \in Reviews, state[r] \in TERMINAL
      PROVE  state'[r] = state[r] /\ decision'[r] = decision[r] /\ owner'[r] = owner[r]
  <2>1. r \in Admitted
    BY <1>1, StatesApart DEF IInv, RowsInv, TERMINAL
  <2>. QED
    BY <1>1, <2>1, DecisionStep, OwnerStep DEF RowsAdvance
<1>2. PostedInv'
  BY <1>1, Outcomes DEF StatusInv, PostedInv, StatusAgrees
<1>3. PublishedStatusAgrees'
  <2>. SUFFICES ASSUME NEW r \in Reviews, delivered[r], state'[r] = "PUBLISHED"
                PROVE  StatusAgrees(r)' \/ (~System(r)' /\ posted[r] = "success")
    BY DEF PublishedStatusAgrees
  <2>1. state[r] \in TERMINAL
    BY DEF IInv, SettledInv
  <2>. QED
    BY <1>1, <2>1 DEF StatusInv, PublishedStatusAgrees, StatusAgrees, System
<1>. QED
  BY <1>2, <1>3

\* Nothing was posted initially.
LEMMA StatusInit == Init => StatusInv
BY StatesApart, Outcomes
   DEF Init, NoRun, StatusInv, FailedRun, PublishedRun, OutcomeRun, PostedInv,
       PublishedStatusAgrees

\* The pipeline's steps up to the publication.
LEMMA PipelineStep ==
    ASSUME IInv, RunParts,
           \/ ReadMergeRequest \/ Check \/ Move \/ Decide \/ HeadCheck \/ Publish
    PROVE  RunParts'
<1>. USE DEF rows
<1>1. PICK r \in RunType : r = run
  BY DEF IInv, TypeOK
<1>2. \A s \in PathStates : /\ After(run, s).id = run.id
                            /\ After(run, s).pc \notin {"readmit", "mark"}
                            /\ After(run, s).pc = "finish" => After(run, s).final = "PUBLISHED"
  BY <1>1, AfterType
<1>3. run.pc \in {"mr", "check", "move", "decide", "headcheck", "publish"}
      /\ UNCHANGED delivered
  BY DEF ReadMergeRequest, Check, Move, Decide, HeadCheck, Publish
<1>4. run.id \in Reviews /\ state \in [Reviews -> {"NONE"} \cup ReviewState]
  BY <1>1, <1>3, BoundsAssumption DEF IInv, TypeOK, RunInv, RunType, Reviews
<1>5. CASE ReadMergeRequest
  <2>1. run'.id = run.id /\ run'.pc \notin {"readmit", "mark"}
        /\ (run'.pc = "finish" => run'.final = "CANCELLED")
    BY <1>1, <1>5 DEF ReadMergeRequest, RunType
  <2>. QED
    BY <1>3, <1>5, <2>1, Outcomes, PlainRun DEF ReadMergeRequest
<1>6. CASE Decide \/ HeadCheck \/ Publish
  <2>1. run'.id = run.id /\ run'.pc \notin {"readmit", "mark"}
        /\ (run'.pc = "finish" => run'.final = "PUBLISHED")
    BY <1>1, <1>6 DEF Decide, HeadCheck, Publish, RunType
  <2>2. state' = state
    BY <1>6 DEF Decide, HeadCheck, Publish
  <2>. QED
    BY <1>3, <2>1, <2>2, PlainRun DEF Failed
<1>7. CASE Check
  <2>1. run.target \in PathStates
    BY <1>7 DEF Check, IInv, RunInv
  <2>2. run' = [run EXCEPT !.pc = "stale"] \/ run' = [run EXCEPT !.pc = "move"]
        \/ run' = After(run, run.target)
    BY <1>7 DEF Check
  <2>3. run'.id = run.id /\ run'.pc \notin {"readmit", "mark"}
        /\ (run'.pc = "finish" => run'.final = "PUBLISHED")
    BY <1>1, <1>2, <2>1, <2>2 DEF RunType
  <2>. QED
    BY <1>3, <1>7, <2>3, PlainRun DEF Check, Failed
<1>8. CASE Move
  <2>1. run.target \in PathStates /\ run.target \in Working
    BY <1>8, PathWalk DEF Move, IInv, RunInv
  <2>2. run' = [run EXCEPT !.pc = "except"] \/ run' = After(run, run.target)
    BY <1>8 DEF Move
  <2>3. run'.id = run.id /\ run'.pc \notin {"readmit", "mark"}
        /\ (run'.pc = "finish" => run'.final = "PUBLISHED")
    BY <1>1, <1>2, <2>1, <2>2 DEF RunType
  <2>4. state'[run.id] = state[run.id] \/ state'[run.id] = run.target
    BY <1>4, <1>8 DEF Move, Transition
  <2>. QED
    BY <1>3, <2>1, <2>3, <2>4, Outcomes, PlainRun DEF Failed
<1>. QED
  BY <1>5, <1>6, <1>7, <1>8

\* The steps that take up a finished row, record an outcome and deliver it.
LEMMA ClosingStep ==
    ASSUME IInv, RunParts, Load \/ Finish \/ PostStatus \/ MarkStatus
    PROVE  RunParts'
<1>. USE DEF rows, RunParts
<1>1. /\ run \in RunType /\ run.id \in Reviews /\ run.id # 0
      /\ state \in [Reviews -> {"NONE"} \cup ReviewState]
      /\ decision \in [Reviews -> {"none"} \cup Decisions]
      /\ posted \in [Reviews -> {"none", "success", "failed"}]
  <2>1. run.pc # "none"
    BY DEF Load, Finish, PostStatus, MarkStatus
  <2>. QED
    BY <2>1, BoundsAssumption DEF IInv, TypeOK, RunInv, RunType, Reviews
<1>2. CASE Load
  <2>1. UNCHANGED <<state, decision, delivered, owner>>
    BY <1>2 DEF Load
  <2>2. CASE state[run.id] \notin TERMINAL
    <3>1. run'.id = run.id /\ run'.pc = "mr"
      BY <1>1, <1>2, <2>2 DEF Load, RunType
    <3>2. ~delivered[run.id]
      BY <1>1, <2>2 DEF IInv, SettledInv
    <3>. QED
      BY <2>1, <2>2, <3>1, <3>2, Outcomes DEF FailedRun, PublishedRun, OutcomeRun
  <2>3. CASE state[run.id] \in TERMINAL /\ delivered[run.id]
    <3>1. run'.pc = "none" /\ run'.id = 0
      BY <1>2, <2>3 DEF Load, NoRun
    <3>. QED
      BY <3>1, FreshRun
  <2>4. CASE state[run.id] \in TERMINAL /\ ~delivered[run.id]
    <3>1. run'.id = run.id /\ run'.pc = "post" /\ run'.final = state[run.id]
          /\ run'.decision = decision[run.id] /\ run'.tail
      BY <1>1, <1>2, <2>4 DEF Load, RunType
    <3>. QED
      BY <2>1, <2>4, <3>1, Outcomes DEF FailedRun, PublishedRun, OutcomeRun
  <2>. QED
    BY <2>2, <2>3, <2>4
<1>3. CASE Finish
  <2>1. run.pc = "finish" /\ UNCHANGED <<delivered, owner>> /\ run.final \in TERMINAL
    BY <1>3 DEF Finish, identity, IInv, RunInv
  <2>2. CASE MayMove(run.id, run.final)
    <3>1. run'.id = run.id /\ run'.pc = "post" /\ run'.final = run.final
          /\ run'.decision = run.decision /\ run'.tail = run.tail
      BY <1>1, <1>3, <2>2 DEF Finish, RunType
    <3>2. CASE state[run.id] \in TERMINAL
      <4>1. UNCHANGED <<state, decision>>
        BY <1>3, <2>2, <3>2 DEF Finish, TransitionWith, Transition
      <4>. QED
        BY <2>1, <3>1, <4>1 DEF FailedRun, PublishedRun, OutcomeRun, System
    <3>3. CASE state[run.id] \notin TERMINAL
      <4>1. state'[run.id] = run.final /\ decision'[run.id] = run.decision
        BY <1>1, <1>3, <2>2, <3>3 DEF Finish, TransitionWith, Transition
      <4>. QED
        BY <1>1, <2>1, <3>1, <4>1, Outcomes DEF FailedRun, PublishedRun, OutcomeRun
    <3>. QED
      BY <3>2, <3>3
  <2>3. CASE ~MayMove(run.id, run.final)
    <3>1. run' = Raised /\ UNCHANGED <<state, decision>>
      BY <1>3, <2>3 DEF Finish
    <3>. QED
      BY <1>1, <2>1, <3>1, RaisedRun
  <2>. QED
    BY <2>2, <2>3
<1>4. CASE PostStatus
  <2>1. run.pc = "post" /\ UNCHANGED <<state, decision, delivered, owner>>
    BY <1>4 DEF PostStatus
  <2>2. CASE Writable(run.id)
    <3>1. run'.id = run.id /\ run'.pc = "mark" /\ run'.final = run.final
          /\ run'.decision = run.decision /\ run'.tail = run.tail
      BY <1>1, <1>4, <2>2 DEF PostStatus, RunType
    <3>2. posted'[run.id] = StatusCode(run.decision, Mode, run.final \in Halted)
      BY <1>1, <1>4, <2>2 DEF PostStatus
    <3>. QED
      BY <2>1, <3>1, <3>2 DEF FailedRun, PublishedRun, OutcomeRun, System
  <2>3. CASE ~Writable(run.id) /\ run.tail
    <3>1. run'.pc = "none" /\ run'.id = 0
      BY <1>4, <2>3 DEF PostStatus, NoRun
    <3>. QED
      BY <3>1, FreshRun
  <2>4. CASE ~Writable(run.id) /\ ~run.tail
    <3>1. run'.id = run.id /\ run'.pc = "stale" /\ ~System(run.id)
      BY <1>1, <1>4, <2>4 DEF PostStatus, RunType, Writable
    <3>. QED
      BY <2>1, <2>4, <3>1 DEF FailedRun, PublishedRun, OutcomeRun, System
  <2>. QED
    BY <2>2, <2>3, <2>4
<1>5. CASE MarkStatus
  <2>1. run'.pc = "none" /\ run'.id = 0
    BY <1>5 DEF MarkStatus, NoRun
  <2>. QED
    BY <2>1, FreshRun
<1>. QED
  BY <1>2, <1>3, <1>4, <1>5

\* A stale run supersedes its row, admits another and closes; a failing one
\* records that; a refused one is stopped where it is.
LEMMA StaleStep ==
    ASSUME IInv, RunParts, [Next]_vars,
           ReadNewHead \/ SupersedeStale \/ Readmit \/ Fail \/ Refused
    PROVE  RunParts'
<1>. USE DEF rows
<1>1. /\ run \in RunType /\ run.id \in Admitted /\ run.id \in Reviews /\ run.id # 0
      /\ state \in [Reviews -> {"NONE"} \cup ReviewState]
  <2>1. run.pc # "none"
    BY DEF ReadNewHead, SupersedeStale, Readmit, Fail, Refused, ForgeCalls
  <2>. QED
    BY <2>1, BoundsAssumption DEF IInv, TypeOK, RunInv, RunType, Reviews, Admitted
<1>2. owner'[run.id] = owner[run.id]
  BY <1>1, OwnerStep
<1>3. CASE ReadNewHead
  <2>1. run'.id = run.id /\ run'.pc = "stalemove" /\ run.pc = "stale"
        /\ UNCHANGED <<state, decision, delivered>>
    BY <1>1, <1>3 DEF ReadNewHead, RunType
  <2>. QED
    BY <1>2, <2>1 DEF RunParts, FailedRun, PublishedRun, OutcomeRun, System
<1>4. CASE SupersedeStale
  <2>1. run'.id = run.id /\ run'.pc \in {"readmit", "finish"}
        /\ run'.final = "SUPERSEDED" /\ run.pc = "stalemove"
        /\ UNCHANGED <<decision, delivered>>
    BY <1>1, <1>4 DEF SupersedeStale, RunType
  <2>2. state'[run.id] = state[run.id] \/ state'[run.id] = "SUPERSEDED"
    BY <1>1, <1>4 DEF SupersedeStale, Transition
  <2>. QED
    BY <1>1, <1>2, <2>1, <2>2, Outcomes
       DEF RunParts, FailedRun, PublishedRun, OutcomeRun, System, Failed
<1>5. CASE Readmit
  <2>1. run'.id = run.id /\ run'.pc = "finish" /\ run'.final = run.final
        /\ run'.tail = run.tail /\ run.pc = "readmit"
        /\ UNCHANGED <<decision, delivered>>
    BY <1>1, <1>5 DEF Readmit, RunType, Accept, Insert
  <2>2. state'[run.id] \in Failed \cup {"PUBLISHED"} => state'[run.id] = state[run.id]
    BY <1>1, <1>5, InsertedRow DEF Readmit, Accept, IInv
  <2>. QED
    BY <1>1, <1>2, <2>1, <2>2
       DEF RunParts, FailedRun, PublishedRun, OutcomeRun, System
<1>6. CASE Fail
  <2>1. run.pc = "except" /\ UNCHANGED <<state, decision, delivered>>
    BY <1>6 DEF Fail
  <2>2. CASE state[run.id] \in TERMINAL
    <3>1. run'.pc = "none" /\ run'.id = 0
      BY <1>6, <2>2 DEF Fail, NoRun
    <3>. QED
      BY <3>1, FreshRun
  <2>3. CASE state[run.id] \notin TERMINAL
    <3>1. run'.id = run.id /\ run'.pc = "finish" /\ run'.tail
      BY <1>1, <1>6, <2>3 DEF Fail, RunType
    <3>. QED
      BY <1>1, <2>1, <2>3, <3>1, Outcomes
         DEF RunParts, FailedRun, PublishedRun, OutcomeRun
  <2>. QED
    BY <2>2, <2>3
<1>7. CASE Refused
  <2>1. run' = Raised /\ UNCHANGED <<decision, delivered>>
        /\ (run' # NoRun => UNCHANGED state)
    BY <1>7 DEF Refused
  <2>. QED
    BY <1>1, <2>1, RaisedRun
<1>. QED
  BY <1>3, <1>4, <1>5, <1>6, <1>7

\* Every step leaves the run where it may be.
LEMMA RunPartsStep ==
    ASSUME IInv, StatusInv, [Next]_vars
    PROVE  RunParts'
<1>. USE DEF rows
<1>1. RunParts
  BY DEF StatusInv, RunParts
<1>2. run.id # 0 => /\ owner'[run.id] = owner[run.id]
                    /\ run.id \in Reviews
  <2>1. run.id # 0 => run.id \in Admitted /\ run.id \in Reviews
    BY BoundsAssumption DEF IInv, RunInv, TypeOK, RunType, Admitted, Reviews
  <2>. QED
    BY <2>1, OwnerStep
<1>3. CASE \/ Environment \/ Recover
           \/ \E e \in Events : Handle(e) \/ LoseEvent(e)
  BY <1>1, <1>2, <1>3, OutsideStep, SameRun
<1>4. ASSUME NEW r \in Reviews, StartRun(r) PROVE RunParts'
  <2>1. run.id = 0
    BY <1>4 DEF StartRun, LockFree
  <2>2. CASE Guarded(r)
    <3>1. run'.pc = "load"
      BY <1>4, <2>2 DEF StartRun, NoRun
    <3>. QED
      BY <3>1, FreshRun
  <2>3. CASE ~Guarded(r)
    <3>1. run' = run /\ run.pc = "none"
      BY <1>4, <2>1, <2>3 DEF StartRun, IInv, RunInv
    <3>. QED
      BY <2>1, <3>1, FreshRun
  <2>. QED
    BY <2>2, <2>3
<1>5. CASE Advance
  BY <1>1, <1>5, PipelineStep, ClosingStep, StaleStep DEF Advance
<1>6. CASE Raise
  BY <1>1, <1>6, RaisedRun DEF Raise
<1>7. CASE Crash
  <2>1. run'.pc = "none" /\ run'.id = 0
    BY <1>7 DEF Crash, NoRun
  <2>. QED
    BY <2>1, FreshRun
<1>8. CASE SeeStop
  <2>1. run'.pc = "load"
    BY <1>8 DEF SeeStop, NoRun
  <2>. QED
    BY <2>1, FreshRun
<1>9. CASE UNCHANGED vars
  BY <1>1, <1>2, <1>9, SameRun DEF vars
<1>. QED
  BY <1>3, <1>4, <1>5, <1>6, <1>7, <1>8, <1>9 DEF Next, Fault

\* The status posted is the one of the outcome, and the row it is settled for
\* holds that outcome.
LEMMA PostedStep ==
    ASSUME IInv, StatusInv, [Next]_vars, RowsAdvance
    PROVE  PostedInv' /\ PublishedStatusAgrees'
<1>. USE DEF rows, identity
<1>0. /\ run \in RunType
      /\ run.id # 0 => run.id \in Reviews
      /\ posted \in [Reviews -> {"none", "success", "failed"}]
      /\ delivered \in [Reviews -> BOOLEAN]
  BY BoundsAssumption DEF IInv, TypeOK, RunType, Reviews
<1>1. ASSUME PostStatus, Writable(run.id) PROVE PostedInv' /\ PublishedStatusAgrees'
  <2>. DEFINE code == StatusCode(run.decision, Mode, run.final \in Halted)
  <2>1. /\ run.pc = "post" /\ run.id \in Reviews /\ run.id # 0
        /\ UNCHANGED <<state, decision, delivered, owner>>
        /\ posted' = [posted EXCEPT ![run.id] = code]
    BY <1>0, <1>1 DEF PostStatus, IInv, RunInv
  <2>2. \A r \in Reviews : posted'[r] = IF r = run.id THEN code ELSE posted[r]
    BY <1>0, <2>1
  <2>3. /\ state[run.id] \in TERMINAL /\ ~delivered[run.id]
        /\ state[run.id] \in Failed => run.final \in Halted
        /\ state[run.id] = "PUBLISHED" /\ run.final \notin Halted
               => run.decision = decision[run.id]
    BY <2>1 DEF IInv, RunInv, StatusInv, OutcomeRun, FailedRun, PublishedRun
  <2>4. code = "failed" => run.final \notin Halted
    BY DEF StatusCode
  <2>5. run.final \notin Halted => code = StatusCode(run.decision, Mode, FALSE)
    BY DEF StatusCode
  <2>. HIDE DEF code
  <2>6. PostedInv'
    BY <2>1, <2>2, <2>3, <2>4, <2>5 DEF StatusInv, PostedInv, StatusAgrees
  <2>7. PublishedStatusAgrees'
    BY <2>1, <2>2, <2>3 DEF StatusInv, PublishedStatusAgrees, StatusAgrees, System
  <2>. QED
    BY <2>6, <2>7
<1>2. ASSUME MarkStatus PROVE PostedInv' /\ PublishedStatusAgrees'
  <2>1. /\ run.pc = "mark" /\ run.id \in Reviews /\ run.id # 0
        /\ UNCHANGED <<state, decision, posted, owner>>
        /\ delivered' = [delivered EXCEPT ![run.id] = TRUE]
    BY <1>0, <1>2 DEF MarkStatus, IInv, RunInv
  <2>2. \A r \in Reviews : r # run.id => delivered'[r] = delivered[r]
    BY <1>0, <2>1
  <2>3. posted[run.id] = StatusCode(run.decision, Mode, run.final \in Halted)
    BY <2>1 DEF StatusInv, OutcomeRun
  <2>4. ASSUME state[run.id] = "PUBLISHED"
        PROVE  StatusAgrees(run.id) \/ (~System(run.id) /\ posted[run.id] = "success")
    <3>1. CASE run.final \in Halted
      BY <2>1, <2>3, <2>4, <3>1, Outcomes DEF StatusInv, PublishedRun
    <3>2. CASE run.final \notin Halted
      BY <2>1, <2>3, <2>4, <3>2 DEF StatusInv, PublishedRun, StatusAgrees, StatusCode
    <3>. QED
      BY <3>1, <3>2
  <2>5. PostedInv'
    BY <2>1 DEF StatusInv, PostedInv, StatusAgrees
  <2>6. PublishedStatusAgrees'
    BY <2>1, <2>2, <2>4 DEF StatusInv, PublishedStatusAgrees, StatusAgrees, System
  <2>. QED
    BY <2>5, <2>6
<1>3. CASE ~(PostStatus /\ Writable(run.id)) /\ ~MarkStatus
  <2>. SUFFICES UNCHANGED <<posted, delivered>>
    BY PostedKept
  <2>2. CASE Environment
    BY <2>2 DEF Environment, Push, Toggle, Deliver, Redeliver, Request, Stop, Revoke
  <2>3. ASSUME NEW e \in Events, Handle(e) PROVE UNCHANGED <<posted, delivered>>
    BY <2>3 DEF Handle, ReadHead, Admit, Accept, Insert, Enqueue, ReadActive, CancelReview
  <2>4. ASSUME NEW r \in Reviews, StartRun(r) PROVE UNCHANGED <<posted, delivered>>
    BY <2>4 DEF StartRun
  <2>5. CASE Advance
    BY <1>3, <2>5
       DEF Advance, Load, ReadMergeRequest, Check, Move, Decide, HeadCheck,
           Publish, Finish, PostStatus, ReadNewHead, SupersedeStale, Readmit,
           Accept, Insert, Fail, Refused
  <2>6. CASE SeeStop \/ Recover \/ Fault
    BY <2>6 DEF SeeStop, Recover, Fault, Raise, Crash, LoseEvent
  <2>7. CASE UNCHANGED vars
    BY <2>7 DEF vars
  <2>. QED
    BY <2>2, <2>3, <2>4, <2>5, <2>6, <2>7 DEF Next
<1>. QED
  BY <1>1, <1>2, <1>3

\* Both invariants hold in every reachable state.
LEMMA StatusInvariance == Spec => [](IInv /\ StatusInv)
<1>1. Init => IInv /\ StatusInv
  BY InitInv, StatusInit
<1>2. IInv /\ StatusInv /\ [Next]_vars => IInv' /\ StatusInv'
  <2>. SUFFICES ASSUME IInv, StatusInv, [Next]_vars PROVE IInv' /\ StatusInv'
    OBVIOUS
  <2>1. RowsAdvance
    BY RowsStep, RowsPreserved DEF IInv
  <2>. QED
    BY <2>1, StepInv, RunPartsStep, PostedStep DEF StatusInv, RunParts
<1>. QED
  BY <1>1, <1>2, PTL DEF Spec

\* A published review's delivered status is the one its recorded decision calls
\* for, whichever run or recovery delivered it; a personal one's may pass.
THEOREM PublishedStatusAgreesAlways == Spec => []PublishedStatusAgrees
<1>1. IInv /\ StatusInv => PublishedStatusAgrees
  BY DEF StatusInv
<1>. QED
  BY <1>1, StatusInvariance, PTL

\* The reviewer fails open: no run of a review that failed has set a failing
\* status.
THEOREM FailedReviewPassesAlways == Spec => []FailedReviewPasses
<1>1. IInv /\ StatusInv => FailedReviewPasses
  BY DEF StatusInv, PostedInv, FailedReviewPasses, Failed
<1>. QED
  BY <1>1, StatusInvariance, PTL
-----------------------------------------------------------------------------
(***************************************************************************)
(* Owners                                                                  *)
(***************************************************************************)

\* The displacements that are right: by the row's own owner, or, for a webhook or
\* a stale run, at another head.
Isolated(r) ==
    supersededBy'[r] # supersededBy[r] =>
        \/ owner'[supersededBy'[r]] = owner[r]
        \/ /\ eventId'[supersededBy'[r]] \notin Commands \cup Manuals
           /\ headSha'[supersededBy'[r]] # headSha[r]

\* accept() displaces no other way, when no command passes for a system event.
LEMMA AcceptIsolates ==
    ASSUME TypeOK, NEW id, NEW sha, NEW who, NEW source, Accept(id, sha, who, source),
           source = "system" => id \notin Commands \cup Manuals
    PROVE  \A r \in Reviews : Isolated(r)
<1>1. CASE UNCHANGED rows
  BY <1>1 DEF rows, Isolated
<1>2. CASE ~Conflicts(sha, who, source) /\ Insert(id, sha, who)
  <2>1. PICK new \in Reviews :
            /\ new = admitted + 1
            /\ headSha' = [headSha EXCEPT ![new] = sha]
            /\ owner' = [owner EXCEPT ![new] = who]
            /\ eventId' = [eventId EXCEPT ![new] = id]
    BY <1>2 DEF Insert
  <2>2. headSha'[new] = sha /\ owner'[new] = who /\ eventId'[new] = id
    BY <2>1 DEF TypeOK
  <2>3. CASE UNCHANGED supersededBy
    BY <2>3 DEF Isolated
  <2>4. ASSUME NEW a \in ActiveReviews, supersededBy' = [supersededBy EXCEPT ![a] = new]
        PROVE  \A r \in Reviews : Isolated(r)
    <3>1. \A r \in Reviews : supersededBy'[r] = IF r = a THEN new ELSE supersededBy[r]
      BY <2>4 DEF TypeOK
    <3>2. owner[a] = who \/ (source = "system" /\ headSha[a] # sha)
      BY <1>2 DEF Conflicts
    <3>. QED
      BY <2>2, <3>1, <3>2 DEF Isolated
  <2>. QED
    BY <1>2, <2>1, <2>3, <2>4 DEF Insert
<1>. QED
  BY <1>1, <1>2 DEF Accept

\* A personal review in flight is displaced only by its own account or by a system
\* event that found another head, never by a command or another account.
THEOREM OwnersIsolatedAlways == Spec => OwnersIsolated
<1>. USE DEF rows, identity
<1>1. ASSUME IInv, [Next]_vars PROVE \A r \in Reviews : Isolated(r)
  <2>1. ASSUME UNCHANGED supersededBy PROVE \A r \in Reviews : Isolated(r)
    BY <2>1 DEF Isolated
  <2>2. ASSUME NEW e \in Events, Admit(e) PROVE \A r \in Reviews : Isolated(r)
    <3>1. Source(e) = "system" => e \notin Commands \cup Manuals
      BY DEF Source
    <3>2. Accept(e, event[e].head, EventOwner(e), Source(e)) /\ TypeOK
      BY <1>1, <2>2 DEF Admit, IInv
    <3>. QED
      BY <3>1, <3>2, AcceptIsolates
  <2>3. ASSUME Readmit PROVE \A r \in Reviews : Isolated(r)
    <3>1. run.pc = "readmit" /\ Accept(<<run.id, run.head>>, run.head, NoOwner, "system")
      BY <2>3 DEF Readmit
    <3>2. run.id \in 0..MaxReviews /\ run.head \in Heads /\ run.id # 0 /\ TypeOK
      BY <1>1, <3>1 DEF IInv, TypeOK, RunInv, RunType
    <3>3. run.id \in Reviews
      BY <3>2, BoundsAssumption DEF Reviews
    <3>4. <<run.id, run.head>> \notin Commands \cup Manuals
      BY <3>2, <3>3, ReadmissionAssumption DEF Events
    <3>. QED
      BY <3>1, <3>2, <3>4, AcceptIsolates
  <2>4. CASE Environment
    BY <2>1, <2>4 DEF Environment, Push, Toggle, Deliver, Redeliver, Request,
                      Stop, Revoke
  <2>5. ASSUME NEW e \in Events, Handle(e) PROVE \A r \in Reviews : Isolated(r)
    BY <2>1, <2>2, <2>5 DEF Handle, ReadHead, Enqueue, ReadActive, CancelReview
  <2>6. ASSUME NEW r \in Reviews, StartRun(r) PROVE \A q \in Reviews : Isolated(q)
    BY <2>1, <2>6 DEF StartRun
  <2>7. CASE Advance
    BY <2>1, <2>3, <2>7
       DEF Advance, Load, ReadMergeRequest, Check, Move, Decide, HeadCheck,
           Publish, Finish, PostStatus, MarkStatus, ReadNewHead,
           SupersedeStale, Fail, Refused
  <2>8. CASE SeeStop \/ Recover \/ Fault
    BY <2>1, <2>8 DEF SeeStop, Recover, Fault, Raise, Crash, LoseEvent
  <2>9. CASE UNCHANGED vars
    BY <2>1, <2>9 DEF vars
  <2>. QED
    BY <1>1, <2>4, <2>5, <2>6, <2>7, <2>8, <2>9 DEF Next
<1>2. ASSUME IInv, [Next]_vars
      PROVE  [\A r \in Reviews :
                supersededBy'[r] # supersededBy[r] /\ owner[r] \in Users =>
                   LET new == supersededBy'[r] IN
                   \/ owner'[new] = owner[r]
                   \/ /\ eventId'[new] \notin Commands \cup Manuals
                      /\ headSha'[new] # headSha[r]]_<<supersededBy, owner>>
  BY <1>1, <1>2 DEF Isolated
<1>. QED
  BY <1>2, Invariance, PTL DEF Spec, OwnersIsolated
=============================================================================
