--------------------------- MODULE ReviewLifecycle ---------------------------
(***************************************************************************)
(* The life of the reviews of one merge request: events admitted by the    *)
(* worker (reviewer/worker.py), rows written by the store                  *)
(* (reviewer/store/repositories.py), and runs of the pipeline              *)
(* (reviewer/orchestrator/pipeline.py) that move a row from INIT to a      *)
(* final state and deliver its commit status, while heads are pushed, the  *)
(* merge request is closed, owners stop reviews or lose credentials, and   *)
(* workers crash.                                                          *)
(*                                                                         *)
(* The merge request's advisory lock admits one run at a time, so the run  *)
(* in progress is one record; a job waiting for the lock has done nothing  *)
(* and is the same as one still queued.  Each action ends at an await at   *)
(* which another task may run.                                             *)
(***************************************************************************)
EXTENDS ReviewStates, FiniteSets

CONSTANTS
  Hooks,            \* merge-request webhooks that ask for a review
  Commands,         \* "/ai review" notes
  Cancels,          \* merge and close webhooks
  Manuals,          \* manual triggers of dashboard accounts
  Users,            \* dashboard accounts
  NoOwner,          \* owner of system reviews
  OwnerOf,          \* the account behind each manual trigger
  Heads,            \* commits the source branch may point to
  InitHead,         \* the first of them
  Mode,             \* enforcement mode of the project
  Level,            \* milestone the pipeline runs at, at least 1
  MaxReviews,       \* bound: review rows
  MaxPushes,        \* bound: changes of the head
  MaxToggles,       \* bound: closings and reopenings
  MaxRedeliveries,  \* bound: webhook redeliveries
  MaxFaults         \* bound: crashes, lost jobs and failing calls

Events == Hooks \cup Commands \cup Cancels \cup Manuals
Reviews == 1..MaxReviews

ASSUME EventsAssumption ==
    /\ Hooks \cap Commands = {}   /\ Hooks \cap Cancels = {}
    /\ Hooks \cap Manuals = {}    /\ Commands \cap Cancels = {}
    /\ Commands \cap Manuals = {} /\ Cancels \cap Manuals = {}
\* A readmission is known by the row it follows and its head, as no webhook is.
ASSUME ReadmissionAssumption ==
    \A e \in Events, r \in Reviews, h \in Heads : e # <<r, h>>
ASSUME OwnersAssumption == NoOwner \notin Users /\ OwnerOf \in [Manuals -> Users]
ASSUME HeadsAssumption == InitHead \in Heads
ASSUME PolicyAssumption ==
    Mode \in {"silent", "advisory", "gating"} /\ Level \in Nat \ {0}
ASSUME BoundsAssumption ==
    /\ MaxReviews \in Nat /\ MaxPushes \in Nat /\ MaxToggles \in Nat
    /\ MaxRedeliveries \in Nat /\ MaxFaults \in Nat

VARIABLES
  \* GitLab
  head,          \* current head of the merge request
  open,          \* it is open and not a draft
  commitStatus,  \* last code set on each commit
  report,        \* reviews whose report was posted
  \* review rows
  admitted,      \* number of rows; rows are numbered in admission order
  state, headSha, owner, eventId, decision, delivered, stopped, supersededBy,
  \* triggers, jobs and runs
  trigger,       \* state of each manual trigger's durable row
  event,         \* progress of each event's handler
  jobs,          \* reviews with a queued run_review job
  run,           \* the run holding the merge request's lock
  credentials,   \* accounts whose pinned credentials still load
  \* history and bounds
  posted,        \* last status code each review's runs delivered
  pushes, toggles, redeliveries, faults

forge == <<head, open, commitStatus, report>>
identity == <<headSha, owner, eventId>>
rows == <<admitted, state, headSha, owner, eventId, decision, delivered,
          stopped, supersededBy>>
bounds == <<pushes, toggles, redeliveries, faults>>
vars == <<forge, rows, trigger, event, jobs, run, credentials, posted, bounds>>

NoRun == [id |-> 0, pc |-> "none", target |-> "INIT", final |-> "INIT",
          decision |-> "COMMENT_ONLY", head |-> InitHead, tail |-> FALSE,
          watched |-> FALSE]
IdleEvent == [pc |-> "idle", head |-> InitHead, review |-> 0]

Admitted == 1..admitted
Active(r) == state[r] \in Working
System(r) == owner[r] = NoOwner

Init ==
    /\ head = InitHead /\ open = TRUE
    /\ commitStatus = [h \in Heads |-> "none"] /\ report = {}
    /\ admitted = 0
    /\ state = [r \in Reviews |-> "NONE"]
    /\ headSha = [r \in Reviews |-> InitHead]
    /\ owner = [r \in Reviews |-> NoOwner]
    /\ eventId = [r \in Reviews |-> <<>>]
    /\ decision = [r \in Reviews |-> "none"]
    /\ delivered = [r \in Reviews |-> FALSE]
    /\ stopped = [r \in Reviews |-> FALSE]
    /\ supersededBy = [r \in Reviews |-> 0]
    /\ trigger = [e \in Manuals |-> "none"]
    /\ event = [e \in Events |-> IdleEvent]
    /\ jobs = {}
    /\ run = NoRun
    /\ credentials = Users
    /\ posted = [r \in Reviews |-> "none"]
    /\ pushes = 0 /\ toggles = 0 /\ redeliveries = 0 /\ faults = 0

-----------------------------------------------------------------------------
(***************************************************************************)
(* The store                                                               *)
(***************************************************************************)

\* Mutant of Transition: a final row is written like any other.
TransitionAnyRow(r, s) == state' = [state EXCEPT ![r] = s]

\* transition(): a final row is left alone, anything else goes where the
\* caller checked it may go.
Transition(r, s) ==
    state' = IF state[r] \in TERMINAL THEN state ELSE [state EXCEPT ![r] = s]

\* check_transition() raises for any other move of an unfinished row.
MayMove(r, s) == state[r] \in TERMINAL \/ s \in LEGAL(state[r])

\* The decision is written only with the state.
TransitionWith(r, s, d) ==
    /\ Transition(r, s)
    /\ decision' = IF state[r] \in TERMINAL THEN decision
                   ELSE [decision EXCEPT ![r] = d]

\* Mutants of Existing, ActiveReviews and Conflicts: event ids are not looked
\* up, a publishing review is not in the way, and a command that finds another
\* head is taken for a system event.
ExistingIgnored(id) == {}
ActiveUnlessPublishing == {r \in Admitted : Active(r) /\ state[r] \notin UNSTOPPABLE}
ConflictsAtHeadOnly(sha, who, source) ==
    \E r \in Admitted : Active(r) /\ owner[r] # who /\ headSha[r] = sha

Existing(id) == {r \in Admitted : eventId[r] = id}
ActiveReviews == {r \in Admitted : Active(r)}

\* A command or a personal rerun cannot displace another owner's review; a
\* webhook can, when the head really changed.
Conflicts(sha, who, source) ==
    \E a \in ActiveReviews :
        owner[a] # who /\ (source # "system" \/ headSha[a] = sha)

\* The row accept() adds, and the active row it supersedes, if there is one.
Insert(id, sha, who) ==
    LET new == admitted + 1 IN
    /\ new \in Reviews
    /\ admitted' = new
    /\ headSha' = [headSha EXCEPT ![new] = sha]
    /\ owner' = [owner EXCEPT ![new] = who]
    /\ eventId' = [eventId EXCEPT ![new] = id]
    /\ \/ /\ ActiveReviews = {}
          /\ state' = [state EXCEPT ![new] = "INIT"]
          /\ UNCHANGED supersededBy
       \/ \E a \in ActiveReviews :
              /\ state' = [state EXCEPT ![a] = "SUPERSEDED", ![new] = "INIT"]
              /\ supersededBy' = [supersededBy EXCEPT ![a] = new]
    /\ UNCHANGED <<decision, delivered, stopped>>

\* A redelivered event finds its row; a conflict adds nothing.
Accept(id, sha, who, source) ==
    IF Existing(id) # {} \/ Conflicts(sha, who, source)
    THEN UNCHANGED rows
    ELSE Insert(id, sha, who)

\* The row accept() returns, 0 for a conflict.
Accepted(id, sha, who, source) ==
    IF Existing(id) # {} THEN CHOOSE r \in Existing(id) : TRUE
    ELSE IF Conflicts(sha, who, source) THEN 0
    ELSE admitted + 1

\* Mutants of Pending: a sweep for deliveries only, and one for runs only.
PendingDeliveries == {r \in Admitted : ~delivered[r] /\ ~Active(r)}
PendingRuns == {r \in Admitted : Active(r)}

\* Rows recovery looks at: undelivered or unfinished.
Pending == {r \in Admitted : ~delivered[r] \/ Active(r)}
-----------------------------------------------------------------------------
(***************************************************************************)
(* GitLab, its users and the dashboard                                     *)
(***************************************************************************)

Push ==
    /\ pushes < MaxPushes
    /\ pushes' = pushes + 1
    /\ \E h \in Heads \ {head} : head' = h
    /\ UNCHANGED <<open, commitStatus, report, rows, trigger, event, jobs, run,
                   credentials, posted, toggles, redeliveries, faults>>

Toggle ==
    /\ toggles < MaxToggles
    /\ toggles' = toggles + 1
    /\ open' = ~open
    /\ UNCHANGED <<head, commitStatus, report, rows, trigger, event, jobs, run,
                   credentials, posted, pushes, redeliveries, faults>>

\* A webhook arrives, perhaps long after what it reports.
Deliver(e) ==
    /\ e \in Hooks \cup Commands \cup Cancels
    /\ event[e].pc = "idle"
    /\ event' = [event EXCEPT ![e].pc = "queued"]
    /\ UNCHANGED <<forge, rows, trigger, jobs, run, credentials, posted, bounds>>

\* GitLab sends a handled webhook again, under its own event id.
Redeliver(e) ==
    /\ redeliveries < MaxRedeliveries
    /\ redeliveries' = redeliveries + 1
    /\ e \in Hooks \cup Commands \cup Cancels
    /\ event[e].pc = "done"
    /\ event' = [event EXCEPT ![e] = [IdleEvent EXCEPT !.pc = "queued"]]
    /\ UNCHANGED <<forge, rows, trigger, jobs, run, credentials, posted, pushes,
                   toggles, faults>>

\* The manual trigger is durable before its job is queued, and stays so when
\* the queue cannot be reached.
Request(e) ==
    /\ e \in Manuals
    /\ trigger[e] = "none"
    /\ trigger' = [trigger EXCEPT ![e] = "QUEUED"]
    /\ \E pc \in {"queued", "idle"} : event' = [event EXCEPT ![e].pc = pc]
    /\ UNCHANGED <<forge, rows, jobs, run, credentials, posted, bounds>>

\* An owner stops a review in flight that is not publishing yet.
Stop(r) ==
    /\ r \in Admitted /\ owner[r] \in Users
    /\ state[r] \notin TERMINAL \cup UNSTOPPABLE
    /\ state' = [state EXCEPT ![r] = "CANCELLED"]
    /\ stopped' = [stopped EXCEPT ![r] = TRUE]
    /\ UNCHANGED <<forge, admitted, identity, decision, delivered, supersededBy,
                   trigger, event, jobs, run, credentials, posted, bounds>>

\* An account is disabled, or a credential it pinned is rotated or removed.
Revoke(u) ==
    /\ u \in credentials
    /\ credentials' = credentials \ {u}
    /\ UNCHANGED <<forge, rows, trigger, event, jobs, run, posted, bounds>>
-----------------------------------------------------------------------------
(***************************************************************************)
(* The worker's event handlers                                             *)
(***************************************************************************)

EventOwner(e) == IF e \in Manuals THEN OwnerOf[e] ELSE NoOwner
Source(e) == IF e \in Manuals THEN "manual"
             ELSE IF e \in Commands THEN "command" ELSE "system"

\* A command holds the merge request's lock until its review is queued.
LockFree ==
    /\ run.id = 0
    /\ \A c \in Commands : event[c].pc \notin {"read", "admitted"}

\* receive_event() reads the current head before admission.  A trigger whose
\* credentials are gone, or a merge request that is not open, ends here.
ReadHead(e) ==
    /\ e \in Hooks \cup Commands \cup Manuals
    /\ event[e].pc = "queued"
    /\ e \in Commands => LockFree
    /\ \/ /\ e \in Manuals /\ trigger[e] # "QUEUED"
          /\ event' = [event EXCEPT ![e].pc = "done"]
          /\ UNCHANGED trigger
       \/ /\ e \in Manuals => trigger[e] = "QUEUED"
          /\ \/ EventOwner(e) \notin credentials \cup {NoOwner}
             \/ ~open
          /\ event' = [event EXCEPT ![e].pc = "done"]
          /\ trigger' = [m \in Manuals |-> IF m = e THEN "REJECTED"
                                           ELSE trigger[m]]
       \/ /\ e \in Manuals => trigger[e] = "QUEUED"
          /\ EventOwner(e) \in credentials \cup {NoOwner}
          /\ open
          /\ event' = [event EXCEPT ![e].pc = "read", ![e].head = head]
          /\ UNCHANGED trigger
    /\ UNCHANGED <<forge, rows, jobs, run, credentials, posted, bounds>>

\* accept() with the head read before it, and the trigger's answer with it.
Admit(e) ==
    LET id == Accepted(e, event[e].head, EventOwner(e), Source(e)) IN
    /\ e \in Hooks \cup Commands \cup Manuals
    /\ event[e].pc = "read"
    /\ Accept(e, event[e].head, EventOwner(e), Source(e))
    /\ event' = [event EXCEPT
          ![e].pc = IF id = 0 THEN "done" ELSE "admitted",
          ![e].review = id]
    /\ trigger' = [m \in Manuals |->
          IF m # e \/ Existing(e) # {} THEN trigger[m]
          ELSE IF id = 0 THEN "CONFLICT" ELSE "ADMITTED"]
    /\ UNCHANGED <<forge, jobs, run, credentials, posted, bounds>>

\* The review's job is queued once the row is committed; a job already queued
\* or running is not queued twice.
Enqueue(e) ==
    /\ e \in Hooks \cup Commands \cup Manuals
    /\ event[e].pc = "admitted"
    /\ jobs' = jobs \cup ({event[e].review} \ {run.id})
    /\ event' = [event EXCEPT ![e].pc = "done"]
    /\ UNCHANGED <<forge, rows, trigger, run, credentials, posted, bounds>>

\* cancel() reads the unfinished rows, then moves each.
ReadActive(e) ==
    /\ e \in Cancels
    /\ event[e].pc = "queued"
    /\ \/ /\ ActiveReviews = {}
          /\ event' = [event EXCEPT ![e].pc = "done"]
       \/ \E r \in ActiveReviews :
              event' = [event EXCEPT ![e].pc = "read", ![e].review = r]
    /\ UNCHANGED <<forge, rows, trigger, jobs, run, credentials, posted, bounds>>

CancelReview(e) ==
    /\ e \in Cancels
    /\ event[e].pc = "read"
    /\ Transition(event[e].review, "CANCELLED")
    /\ event' = [event EXCEPT ![e].pc = "done"]
    /\ UNCHANGED <<forge, admitted, identity, decision, delivered, stopped,
                   supersededBy, trigger, jobs, run, credentials, posted,
                   bounds>>

\* The worker dies in a handler: the job is run again or, out of tries, lost.
LoseEvent(e) ==
    /\ faults < MaxFaults
    /\ faults' = faults + 1
    /\ event[e].pc \in {"queued", "read", "admitted"}
    /\ \E pc \in {"queued", IF e \in Manuals THEN "idle" ELSE "done"} :
          event' = [event EXCEPT ![e] = [IdleEvent EXCEPT !.pc = pc]]
    /\ UNCHANGED <<forge, rows, trigger, jobs, run, credentials, posted, pushes,
                   toggles, redeliveries>>

\* Mutant of Recover: the sweep forgets the durable triggers.
RecoverReviewsOnly ==
    /\ jobs' = jobs \cup (Pending \ {run.id})
    /\ UNCHANGED <<forge, rows, trigger, event, run, credentials, posted, bounds>>

\* The sweep, every 30 seconds and at startup: durable triggers and pending
\* reviews are queued again.
Recover ==
    /\ event' = [e \in Events |->
          IF e \in Manuals /\ trigger[e] = "QUEUED"
             /\ event[e].pc \in {"idle", "done"}
          THEN [IdleEvent EXCEPT !.pc = "queued"] ELSE event[e]]
    /\ jobs' = jobs \cup (Pending \ {run.id})
    /\ UNCHANGED <<forge, rows, trigger, run, credentials, posted, bounds>>
-----------------------------------------------------------------------------
(***************************************************************************)
(* A run                                                                   *)
(***************************************************************************)

\* States the pipeline advances through at this milestone, in order.
Path ==
    IF Level < 5
    THEN << "CONTEXT_COLLECTION", "STATIC_ANALYSIS", "FINALIZATION", "DECISION" >>
    ELSE << "CONTEXT_COLLECTION", "STATIC_ANALYSIS", "DEFECT_REVIEW",
            "EVIDENCE_VALIDATION", "FINDING_VERIFICATION", "FINALIZATION",
            "DECISION" >>

Following(s) ==
    Path[(CHOOSE i \in 1..Len(Path) : Path[i] = s) + 1]

\* What the run does once it has passed a state.
After(r, s) ==
    IF s = "DECISION"
    THEN IF Level >= 7 THEN [r EXCEPT !.pc = "publish"]
         ELSE [r EXCEPT !.pc = "finish", !.final = "PUBLISHED"]
    ELSE IF s = "FINALIZATION" /\ Level >= 4 THEN [r EXCEPT !.pc = "decide"]
    ELSE [r EXCEPT !.pc = "check", !.target = Following(s)]

\* A personal run's client checks the pinned credentials before each call, and
\* before each write that the merge request is open at the reviewed head.
Guarded(r) == System(r) \/ owner[r] \in credentials
Writable(r) == System(r) \/ (head = headSha[r] /\ open)

ForgeCalls == {"mr", "headcheck", "publish", "post", "stale"}
Handlers == {"load", "stale", "stalemove", "readmit", "except"}

\* Inside the pipeline's try block an exception leads to its handler; in the
\* handlers and in the closing finish() it ends the job.
Raised == IF run.tail \/ run.pc \in Handlers THEN NoRun
          ELSE [run EXCEPT !.pc = "except"]

\* The job of a queued review takes the lock and builds its machine; without
\* the owner's credentials the review fails there, and its job is over.
StartRun(r) ==
    /\ LockFree
    /\ r \in jobs
    /\ jobs' = jobs \ {r}
    /\ IF Guarded(r)
       THEN /\ run' = [NoRun EXCEPT !.id = r, !.pc = "load", !.watched = TRUE]
            /\ UNCHANGED state
       ELSE /\ Transition(r, "FAILED_CONTEXT")
            /\ UNCHANGED run
    /\ UNCHANGED <<forge, admitted, identity, decision, delivered, stopped,
                   supersededBy, trigger, event, credentials, posted, bounds>>

\* Mutant of Load: a recovered status forgets the recorded decision.
LoadPassing ==
    /\ run.pc = "load"
    /\ run' = IF state[run.id] \notin TERMINAL THEN [run EXCEPT !.pc = "mr"]
              ELSE IF delivered[run.id] THEN NoRun
              ELSE [run EXCEPT !.pc = "post", !.final = state[run.id],
                               !.decision = "COMMENT_ONLY", !.tail = TRUE]
    /\ UNCHANGED <<forge, rows, trigger, event, jobs, credentials, posted, bounds>>

\* A finished row only needs its status; run() then posts what the row says.
Load ==
    /\ run.pc = "load"
    /\ run' = IF state[run.id] \notin TERMINAL THEN [run EXCEPT !.pc = "mr"]
              ELSE IF delivered[run.id] THEN NoRun
              ELSE [run EXCEPT !.pc = "post", !.final = state[run.id],
                               !.decision = decision[run.id], !.tail = TRUE]
    /\ UNCHANGED <<forge, rows, trigger, event, jobs, credentials, posted, bounds>>

ReadMergeRequest ==
    /\ run.pc = "mr"
    /\ Guarded(run.id)
    /\ run' = IF head # headSha[run.id] THEN [run EXCEPT !.pc = "stale"]
              ELSE IF ~open THEN [run EXCEPT !.pc = "finish", !.final = "CANCELLED",
                                             !.decision = "COMMENT_ONLY"]
              ELSE [run EXCEPT !.pc = "check", !.target = Path[1]]
    /\ UNCHANGED <<forge, rows, trigger, event, jobs, credentials, posted, bounds>>

\* advance() looks at the row first ...
Check ==
    /\ run.pc = "check"
    /\ run' = IF state[run.id] \in TERMINAL THEN [run EXCEPT !.pc = "stale"]
              ELSE IF Position(state[run.id]) < Position(run.target)
                   THEN [run EXCEPT !.pc = "move"]
              ELSE After(run, run.target)
    /\ UNCHANGED <<forge, rows, trigger, event, jobs, credentials, posted, bounds>>

\* ... and moves it in another transaction, which leaves a row that became
\* final alone and tells the run nothing.
Move ==
    /\ run.pc = "move"
    /\ IF MayMove(run.id, run.target)
       THEN Transition(run.id, run.target) /\ run' = After(run, run.target)
       ELSE run' = [run EXCEPT !.pc = "except"] /\ UNCHANGED state
    /\ UNCHANGED <<forge, admitted, identity, decision, delivered, stopped,
                   supersededBy, trigger, event, jobs, credentials, posted,
                   bounds>>

\* What the analysis concluded; before milestone 7 it is always partial.
Decide ==
    /\ run.pc = "decide"
    /\ \E d \in IF Level < 7 THEN {"COMMENT_ONLY"} ELSE Decisions :
          run' = [run EXCEPT !.pc = "headcheck", !.decision = d]
    /\ UNCHANGED <<forge, rows, trigger, event, jobs, credentials, posted, bounds>>

\* The head is read again before the decision is recorded.
HeadCheck ==
    /\ run.pc = "headcheck"
    /\ Guarded(run.id)
    /\ run' = IF head # headSha[run.id] THEN [run EXCEPT !.pc = "stale"]
              ELSE [run EXCEPT !.pc = "check", !.target = "DECISION"]
    /\ UNCHANGED <<forge, rows, trigger, event, jobs, credentials, posted, bounds>>

\* Mutant of Publish: the status is posted before the outcome is recorded.
PublishThenPost ==
    /\ run.pc = "publish"
    /\ Guarded(run.id)
    /\ run' = [run EXCEPT !.pc = "post", !.final = "PUBLISHED"]
    /\ report' = report \cup {run.id}
    /\ UNCHANGED <<head, open, commitStatus, rows, trigger, event, jobs,
                   credentials, posted, bounds>>

\* Open threads are answered and the report posted, unless the head moved.
Publish ==
    /\ run.pc = "publish"
    /\ Guarded(run.id)
    /\ IF head = headSha[run.id] /\ Writable(run.id)
       THEN /\ report' = report \cup {run.id}
            /\ run' = [run EXCEPT !.pc = "finish", !.final = "PUBLISHED"]
       ELSE /\ run' = [run EXCEPT !.pc = "stale"]
            /\ UNCHANGED report
    /\ UNCHANGED <<head, open, commitStatus, rows, trigger, event, jobs,
                   credentials, posted, bounds>>

\* Mutant of Finish: the outcome is delivered and not recorded.
FinishUnrecorded ==
    /\ run.pc = "finish"
    /\ run' = [run EXCEPT !.pc = "post"]
    /\ UNCHANGED <<forge, rows, trigger, event, jobs, credentials, posted, bounds>>

\* finish() records the outcome, if the row still takes one ...
Finish ==
    /\ run.pc = "finish"
    /\ IF MayMove(run.id, run.final)
       THEN /\ TransitionWith(run.id, run.final, run.decision)
            /\ run' = [run EXCEPT !.pc = "post"]
       ELSE run' = Raised /\ UNCHANGED <<state, decision>>
    /\ UNCHANGED <<forge, admitted, identity, delivered, stopped, supersededBy,
                   trigger, event, jobs, credentials, posted, bounds>>

\* ... posts the status of its own outcome, not of the row's ...
PostStatus ==
    LET r == run.id
        code == StatusCode(run.decision, Mode, run.final \in Halted) IN
    /\ run.pc = "post"
    /\ Guarded(r)
    /\ IF Writable(r)
       THEN /\ commitStatus' = [commitStatus EXCEPT ![headSha[r]] = code]
            /\ posted' = [posted EXCEPT ![r] = code]
            /\ run' = [run EXCEPT !.pc = "mark"]
       ELSE /\ run' = IF run.tail THEN NoRun ELSE [run EXCEPT !.pc = "stale"]
            /\ UNCHANGED <<commitStatus, posted>>
    /\ UNCHANGED <<head, open, report, rows, trigger, event, jobs, credentials,
                   bounds>>

\* ... and records the delivery.
MarkStatus ==
    /\ run.pc = "mark"
    /\ delivered' = [delivered EXCEPT ![run.id] = TRUE]
    /\ run' = NoRun
    /\ UNCHANGED <<forge, admitted, state, identity, decision, stopped,
                   supersededBy, trigger, event, jobs, credentials, posted,
                   bounds>>

\* A stale run supersedes its own row and admits one for the new head.
ReadNewHead ==
    /\ run.pc = "stale"
    /\ Guarded(run.id)
    /\ run' = [run EXCEPT !.pc = "stalemove", !.head = head]
    /\ UNCHANGED <<forge, rows, trigger, event, jobs, credentials, posted, bounds>>

SupersedeStale ==
    /\ run.pc = "stalemove"
    /\ Transition(run.id, "SUPERSEDED")
    /\ run' = [run EXCEPT !.final = "SUPERSEDED", !.decision = "COMMENT_ONLY",
          !.tail = TRUE,
          !.pc = IF run.head # headSha[run.id] THEN "readmit" ELSE "finish"]
    /\ UNCHANGED <<forge, admitted, identity, decision, delivered, stopped,
                   supersededBy, trigger, event, jobs, credentials, posted,
                   bounds>>

Readmit ==
    /\ run.pc = "readmit"
    /\ Accept(<<run.id, run.head>>, run.head, NoOwner, "system")
    /\ run' = [run EXCEPT !.pc = "finish"]
    /\ UNCHANGED <<forge, trigger, event, jobs, credentials, posted, bounds>>

\* Any other failure: a row already final is recovery's to deliver.
Fail ==
    /\ run.pc = "except"
    /\ IF state[run.id] \in TERMINAL THEN run' = NoRun
       ELSE \E s \in {"FAILED_CONTEXT", "FAILED_INTERNAL"} :
              run' = [run EXCEPT !.pc = "finish", !.final = s,
                                 !.decision = "COMMENT_ONLY", !.tail = TRUE]
    /\ UNCHANGED <<forge, rows, trigger, event, jobs, credentials, posted, bounds>>

\* A call refused for want of credentials; out of the pipeline, run_review
\* fails the row.
Refused ==
    /\ run.pc \in ForgeCalls
    /\ ~Guarded(run.id)
    /\ run' = Raised
    /\ IF run' = NoRun THEN Transition(run.id, "FAILED_CONTEXT")
       ELSE UNCHANGED state
    /\ UNCHANGED <<forge, admitted, identity, decision, delivered, stopped,
                   supersededBy, trigger, event, jobs, credentials, posted,
                   bounds>>

\* A call of the run fails: Git, the store, the gateway or GitLab.
Raise ==
    /\ run.id # 0
    /\ faults < MaxFaults
    /\ faults' = faults + 1
    /\ run' = Raised
    /\ UNCHANGED <<forge, rows, trigger, event, jobs, credentials, posted,
                   pushes, toggles, redeliveries>>

\* The worker dies, is shut down or times out; its lock goes with it, and the
\* job is tried again or dropped.
Crash ==
    /\ run.id # 0
    /\ faults < MaxFaults
    /\ faults' = faults + 1
    /\ \E retried \in SUBSET {run.id} : jobs' = jobs \cup retried
    /\ run' = NoRun
    /\ UNCHANGED <<forge, rows, trigger, event, credentials, posted, pushes,
                   toggles, redeliveries>>

\* The poll sees the owner's stop, cancels the run and starts it once more on
\* the row it left.
SeeStop ==
    /\ run.id # 0 /\ run.watched
    /\ state[run.id] = "CANCELLED" /\ stopped[run.id]
    /\ run' = [NoRun EXCEPT !.id = run.id, !.pc = "load"]
    /\ UNCHANGED <<forge, rows, trigger, event, jobs, credentials, posted, bounds>>
-----------------------------------------------------------------------------
Environment ==
    \/ Push \/ Toggle
    \/ \E e \in Events : Deliver(e) \/ Redeliver(e) \/ Request(e)
    \/ \E r \in Reviews : Stop(r)
    \/ \E u \in Users : Revoke(u)

Handle(e) == ReadHead(e) \/ Admit(e) \/ Enqueue(e) \/ ReadActive(e) \/ CancelReview(e)

\* A step of the run in progress.
Advance ==
    \/ Load \/ ReadMergeRequest \/ Check \/ Move \/ Decide \/ HeadCheck
    \/ Publish \/ Finish \/ PostStatus \/ MarkStatus
    \/ ReadNewHead \/ SupersedeStale \/ Readmit \/ Fail \/ Refused

Fault == Raise \/ Crash \/ \E e \in Events : LoseEvent(e)

Next ==
    \/ Environment
    \/ \E e \in Events : Handle(e)
    \/ \E r \in Reviews : StartRun(r)
    \/ Advance \/ SeeStop \/ Recover \/ Fault

\* The worker keeps polling its queue and its cron keeps sweeping; waiters get
\* the advisory lock in turn.  Users, GitLab and faults owe nothing.
Fairness ==
    /\ WF_vars(Advance)
    /\ WF_vars(Recover)
    /\ \A r \in Reviews : SF_vars(StartRun(r))
    /\ \A e \in Events : SF_vars(Handle(e))

Spec == Init /\ [][Next]_vars
FairSpec == Spec /\ Fairness
-----------------------------------------------------------------------------
RunPcs == {"none", "load", "mr", "check", "move", "decide", "headcheck",
           "publish", "finish", "post", "mark", "stale", "stalemove",
           "readmit", "except"}
RunType ==
    [id : 0..MaxReviews, pc : RunPcs, target : Working,
     final : {"INIT"} \cup TERMINAL, decision : {"none"} \cup Decisions,
     head : Heads, tail : BOOLEAN, watched : BOOLEAN]
EventType ==
    [pc : {"idle", "queued", "read", "admitted", "done"}, head : Heads,
     review : 0..MaxReviews]

\* Every variable has its type; jobs and the run only name review rows, so a
\* conflict, which accept() answers with no row, is never queued.
TypeOK ==
    /\ head \in Heads /\ open \in BOOLEAN
    /\ commitStatus \in [Heads -> {"none", "success", "failed"}]
    /\ report \subseteq Reviews
    /\ admitted \in 0..MaxReviews
    /\ state \in [Reviews -> {"NONE"} \cup ReviewState]
    /\ headSha \in [Reviews -> Heads]
    /\ owner \in [Reviews -> Users \cup {NoOwner}]
    /\ eventId \in [Reviews -> {<<>>} \cup Events \cup (Reviews \X Heads)]
    /\ decision \in [Reviews -> {"none"} \cup Decisions]
    /\ delivered \in [Reviews -> BOOLEAN]
    /\ stopped \in [Reviews -> BOOLEAN]
    /\ supersededBy \in [Reviews -> 0..MaxReviews]
    /\ trigger \in [Manuals -> {"none", "QUEUED", "ADMITTED", "REJECTED",
                                "CONFLICT"}]
    /\ event \in [Events -> EventType]
    /\ jobs \subseteq Reviews
    /\ run \in RunType
    /\ credentials \subseteq Users
    /\ posted \in [Reviews -> {"none", "success", "failed"}]
    /\ pushes \in 0..MaxPushes /\ toggles \in 0..MaxToggles
    /\ redeliveries \in 0..MaxRedeliveries /\ faults \in 0..MaxFaults
-----------------------------------------------------------------------------
(***************************************************************************)
(* Safety                                                                  *)
(***************************************************************************)

\* At most one review of the merge request is unfinished, however admissions,
\* stale runs and cancellations interleave: accept() supersedes the active row
\* in the transaction that inserts the new one.
OneActive == \A r, s \in Reviews : Active(r) /\ Active(s) => r = s

\* An event admits at most one review, over redeliveries, lost jobs and
\* recovered triggers: accept() returns the row the event already has.
OneReviewPerEvent ==
    \A r, s \in Admitted : eventId[r] = eventId[s] => r = s

\* A published review's delivered status is the one its recorded decision
\* calls for, whether its run, or the recovery of a run that died between
\* recording the outcome and delivering it, posted it.  Of a personal review,
\* whose status is refused while the merge request is closed or moved on, it
\* may be a passing one.
StatusAgrees(r) == posted[r] = StatusCode(decision[r], Mode, FALSE)
PublishedStatusAgrees ==
    \A r \in Reviews :
        delivered[r] /\ state[r] = "PUBLISHED"
            => StatusAgrees(r) \/ (~System(r) /\ posted[r] = "success")

\* The reviewer fails open: a review that failed never set a failing status,
\* at no point of its runs.
FailedReviewPasses ==
    \A r \in Reviews :
        state[r] \in {"FAILED_CONTEXT", "FAILED_INTERNAL"}
            => posted[r] # "failed"

\* A final state is never left and its decision never rewritten, though stops,
\* cancellations, supersession and the run all write the row.
FinalRowsStay ==
    [][\A r \in Reviews :
          /\ state[r] \in TERMINAL =>
                state'[r] = state[r] /\ decision'[r] = decision[r]
          /\ delivered[r] => delivered'[r]]_<<state, decision, delivered>>

\* A personal review in flight is displaced only by its own account or by a
\* system event that found another head, never by a command or another account.
OwnersIsolated ==
    [][\A r \in Reviews :
          supersededBy'[r] # supersededBy[r] /\ owner[r] \in Users =>
             LET new == supersededBy'[r] IN
             \/ owner'[new] = owner[r]
             \/ /\ eventId'[new] \notin Commands \cup Manuals
                /\ headSha'[new] # headSha[r]]_<<supersededBy, owner>>
-----------------------------------------------------------------------------
(***************************************************************************)
(* Liveness, under FairSpec                                                *)
(***************************************************************************)

\* Every admitted review ends, across crashes, lost jobs and revoked
\* credentials: the sweep queues it again until its row is final.
EveryReviewEnds ==
    \A r \in Reviews : r \in Admitted ~> state[r] \in TERMINAL

\* A system review's status is eventually delivered, whatever ended it.
SystemStatusDelivered ==
    \A r \in Reviews : (r \in Admitted /\ System(r)) ~> delivered[r]

\* A durable manual trigger is eventually admitted, refused or in conflict,
\* even when its job never reached the queue.
TriggersAnswered ==
    \A e \in Manuals : trigger[e] = "QUEUED" ~> trigger[e] # "QUEUED"
-----------------------------------------------------------------------------
(***************************************************************************)
(* What the repository says and the code does not do                       *)
(***************************************************************************)

\* Reading the head before admission keeps a delayed hook from superseding a
\* newer run with an older commit (the comment in _receive_event): a review of
\* the current head is not superseded by one of another commit.
DelayedHooksHarmless ==
    [][\A r \in Reviews :
          supersededBy'[r] # supersededBy[r] /\ headSha[r] = head
             => headSha'[supersededBy'[r]] = head]_supersededBy

\* A stop that was accepted keeps the report from being posted: it is refused
\* from the point where it could no longer take the report back.
StopHoldsReport ==
    [][\A r \in report' \ report : ~stopped[r]]_report

\* Under gating a complete review with confirmed blocking findings sets a
\* failed commit status (README.md:271): what was published is delivered as it
\* was decided, for every owner.
BlockingSetsFailed ==
    \A r \in Reviews : delivered[r] /\ state[r] = "PUBLISHED" => StatusAgrees(r)

\* Under gating a complete review with blocking findings sets a failed commit
\* status: the last review of a commit has the last word on it.
LastReviewRules ==
    \A r \in Reviews :
        /\ delivered[r] /\ state[r] = "PUBLISHED"
        /\ \A s \in Admitted : s > r => headSha[s] # headSha[r]
        => commitStatus[headSha[r]] = StatusCode(decision[r], Mode, FALSE)
-----------------------------------------------------------------------------
\* The ledger of reviews this detail implements.
Phase ==
    [r \in Reviews |-> IF state[r] = "NONE" THEN "none"
                       ELSE IF state[r] \in TERMINAL THEN "closed" ELSE "open"]
Ledger == INSTANCE ReviewLedger WITH phase <- Phase, settled <- delivered

\* Every step of admission, runs and recovery is a step of the ledger.
ImplementsLedger == Ledger!Spec
=============================================================================
