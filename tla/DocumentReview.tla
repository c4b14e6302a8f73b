----------------------------- MODULE DocumentReview -----------------------------
(***************************************************************************)
(* Reviews of one Confluence page.  A request becomes a trigger            *)
(* (reviewer/api/document_reviews.py), a worker admits it as a review      *)
(* (receive_document, accept_document), runs it and posts or drafts its    *)
(* comments (reviewer/orchestrator/document_pipeline.py,                   *)
(* reviewer/publish/document_publisher.py), and the owner manages them     *)
(* (reviewer/publish/document_comments.py).  Runs and comment actions hold *)
(* the page's lock; admissions, stops and people in Confluence do not.     *)
(*                                                                         *)
(* A finding is its fingerprint and what the models report is a choice;    *)
(* bodies and their edits, inline anchors and the review's working states  *)
(* before DECISION are left out.  PersonalDocs' look at the page before a  *)
(* write and the write are one step.  What nobody's program decides is     *)
(* which comments a reading lists: docs.comments() asks for two hundred    *)
(* and for no more, and takes a page it may not read for an empty one.     *)
(***************************************************************************)
EXTENDS Integers, FiniteSets

CONSTANTS
  Owners,
  Findings,
  Summary,      \* key of the comment that sums a review up
  Modes,        \* report modes asked for; silent enforcement makes any "none"
  Cap,          \* document_review.max_comments
  MaxRequests,  \* bound: requests ever made
  Askers,       \* bound: who may make which of them
  MaxVersion,   \* bound: versions of the page
  MaxTroubles,  \* bound: workers that die, calls that fail, tokens that stop working,
                \* readings that list too little
  MaxHands      \* bound: what people do in Confluence and owners on the dashboard

ASSUME DocumentAssumption ==
    /\ Summary \notin Findings /\ IsFiniteSet(Findings) /\ Findings \cap Nat = {}
    /\ Modes \subseteq {"applied", "draft", "none"}
    /\ \A r \in 1..MaxRequests : Askers[r] \subseteq Owners
    /\ {Cap, MaxRequests, MaxVersion, MaxTroubles, MaxHands} \subseteq Nat /\ MaxVersion > 0

VARIABLES
  version,  \* of the page
  hidden,   \* whether it is restricted or trashed
  page,     \* comments on it, by the owner and the marker they carry
  trigger,  \* requests and what became of them
  review,   \* the review of a request
  rows,     \* ReviewComment rows of a review
  queue,    \* jobs waiting or at work
  job,      \* who holds the page's lock and what it does next
  missed,   \* history: comments on the page that a reading before a post did not list
  reopened, \* history: comments that people opened again
  troubles, hands

bounds == <<troubles, hands>>
comments == <<page, missed, reopened>>
vars == <<version, hidden, comments, trigger, review, rows, queue, job, bounds>>

Requests == 1..MaxRequests
Keys == Findings \cup {Summary}
Terminal == {"published", "failed", "superseded", "cancelled"}

\* A finding's marker is its fingerprint, a summary's names the page's version.
Markers == Findings \cup 1..MaxVersion
Marker(r, k) == IF k = Summary THEN review[r].version ELSE k

NoRow == [status |-> "none", intent |-> "none", eligible |-> TRUE, byOwner |-> FALSE]
Entry(status) == [NoRow EXCEPT !.status = status]

Idle == [pc |-> "idle"]
Owner(r) == trigger[r].owner
Active == {r \in Requests : review[r].state \in {"working", "decision"}}
Has(r, k) == page[Owner(r)][Marker(r, k)] # "none"

\* A reading of the page's comments lists those of any markers; one of two that
\* carry the same may be missing.
On(owner) == {m \in Markers : page[owner][m] # "none" /\ ~hidden}
Listing(owner, listed, single) ==
    [m \in Markers |-> IF m \notin listed THEN "none"
                       ELSE IF m \in single THEN "open" ELSE page[owner][m]]
Listings(owner) ==
    {Listing(owner, listed, single) : listed \in SUBSET On(owner),
         single \in SUBSET {m \in On(owner) : page[owner][m] = "twice"}}
Reads(owner, list) ==
    \/ list = Listing(owner, On(owner), {}) /\ UNCHANGED troubles
    \/ list \in Listings(owner) /\ troubles < MaxTroubles /\ troubles' = troubles + 1
Unlisted(owner, list) == {m \in Markers : list[m] = "none" /\ page[owner][m] # "none"}
Miss(owner, list) == missed' = [missed EXCEPT ![owner] = @ \cup Unlisted(owner, list)]

OpenIn(list) == {f \in Findings : list[f] \in {"open", "twice"}}
OpenOf(owner) == OpenIn(page[owner])

Init ==
    /\ version = 1 /\ hidden = FALSE
    /\ missed = [o \in Owners |-> {}] /\ reopened = [o \in Owners |-> {}]
    /\ page = [o \in Owners |-> [m \in Markers |-> "none"]]
    /\ trigger = [r \in Requests |-> [state |-> "unused"]]
    /\ review = [r \in Requests |-> [state |-> "none"]]
    /\ rows = [r \in Requests |-> [k \in Keys |-> NoRow]]
    /\ queue = {} /\ job = Idle
    /\ troubles = 0 /\ hands = 0
-----------------------------------------------------------------------------
(***************************************************************************)
(* Requests and admission                                                  *)
(***************************************************************************)

\* The trigger is committed before the queue is told, which may fail.
Ask(r, owner, mode) ==
    /\ owner \in Askers[r]
    /\ trigger[r].state = "unused" /\ (r > 1 => trigger[r - 1].state # "unused")
    /\ ~hidden
    /\ trigger' = [trigger EXCEPT ![r] =
                     [state |-> "queued", owner |-> owner, mode |-> mode]]
    /\ \/ queue' = queue \cup {<<"receive", r>>} /\ UNCHANGED troubles
       \/ troubles < MaxTroubles /\ troubles' = troubles + 1 /\ UNCHANGED queue
    /\ UNCHANGED <<version, hidden, comments, review, rows, job, hands>>

Overtaken(r) == \E s \in Requests : s > r /\ review[s].state # "none"

Retryable(r) == review[r].state = "failed" /\ ~Overtaken(r)

\* An owner runs a review again with what it was asked with, or retries one
\* that failed as long as neither the page nor anyone has moved on.
RunAgain(old, r, retry) ==
    /\ review[old].state # "none"
    /\ retry => Retryable(old) /\ version = review[old].version
    /\ Ask(r, Owner(old), trigger[old].mode)

Reject(r) ==
    /\ trigger' = [trigger EXCEPT ![r].state = "rejected"]
    /\ UNCHANGED review

\* accept_document(): one active review of a page, of one owner.  The run is
\* told of by a call that may be lost with the worker.
Conflict(r) ==
    /\ \E a \in Active : Owner(a) # Owner(r)
    /\ trigger' = [trigger EXCEPT ![r].state = "conflict"]
    /\ UNCHANGED review

Accept(r) ==
    /\ \A a \in Active : Owner(a) = Owner(r)
    /\ trigger' = [trigger EXCEPT ![r].state = "admitted"]
    /\ review' = [s \in Requests |->
          IF s = r THEN [state |-> "working", version |-> version,
                         delivered |-> FALSE, report |-> {}]
          ELSE IF s \in Active THEN [review[s] EXCEPT !.state = "superseded"]
          ELSE review[s]]

\* The owner's tokens no longer load or answer for somebody else.
TokensFail == troubles < MaxTroubles /\ troubles' = troubles + 1

Receive(r) ==
    /\ <<"receive", r>> \in queue
    /\ LET rest == queue \ {<<"receive", r>>} IN
       \/ /\ trigger[r].state # "queued"
          /\ queue' = rest /\ UNCHANGED <<trigger, review, troubles>>
       \/ /\ trigger[r].state = "queued" /\ hidden
          /\ Reject(r) /\ queue' = rest /\ UNCHANGED troubles
       \/ /\ trigger[r].state = "queued" /\ TokensFail
          /\ Reject(r) /\ queue' = rest
       \/ /\ trigger[r].state = "queued" /\ ~hidden
          /\ Conflict(r) /\ queue' = rest /\ UNCHANGED troubles
       \/ /\ trigger[r].state = "queued" /\ ~hidden
          /\ Accept(r)
          /\ \/ queue' = rest \cup {<<"run", r>>} /\ UNCHANGED troubles
             \/ queue' = rest /\ troubles < MaxTroubles /\ troubles' = troubles + 1
    /\ UNCHANGED <<version, hidden, comments, rows, job, hands>>

\* Mutant of Recover: reviews are left to the queue.
RecoverTriggers ==
    /\ queue' = queue \cup {<<"receive", r>> : r \in {s \in Requests : trigger[s].state = "queued"}}
    /\ queue' # queue
    /\ UNCHANGED <<version, hidden, comments, trigger, review, rows, job, bounds>>

\* recover(): triggers not taken up, and reviews not ended or not delivered.
Recover ==
    /\ queue' = queue
          \cup {<<"receive", r>> : r \in {s \in Requests : trigger[s].state = "queued"}}
          \cup {<<"run", r>> : r \in {s \in Requests :
                  /\ review[s].state # "none"
                  /\ review[s].state \notin Terminal \/ ~review[s].delivered}}
    /\ queue' # queue
    /\ UNCHANGED <<version, hidden, comments, trigger, review, rows, job, bounds>>

\* stop(): refused once the review publishes its report.
Stop(r) ==
    /\ review[r].state = "working"
    /\ hands < MaxHands /\ hands' = hands + 1
    /\ review' = [review EXCEPT ![r].state = "cancelled", ![r].delivered = TRUE]
    /\ UNCHANGED <<version, hidden, comments, trigger, rows, queue, job, troubles>>
-----------------------------------------------------------------------------
(***************************************************************************)
(* A run                                                                   *)
(***************************************************************************)

Ended(r) == review[r].state \in Terminal
Running == job # Idle /\ job.kind = "run"
Release(r) == job' = Idle /\ queue' = queue \ {<<"run", r>>}

\* transition() leaves a review that ended as it is.
Transition(r, state) ==
    review' = IF Ended(r) THEN review ELSE [review EXCEPT ![r].state = state]

\* An ended review has nothing to do; tokens that stopped working end one.
StartRun(r) ==
    /\ job = Idle /\ <<"run", r>> \in queue
    /\ \/ /\ Ended(r)
          /\ Release(r) /\ UNCHANGED <<review, troubles>>
       \/ /\ ~Ended(r) /\ TokensFail
          /\ Transition(r, "failed") /\ Release(r)
       \/ /\ ~Ended(r)
          /\ job' = [kind |-> "run", r |-> r, pc |-> "analysis"]
          /\ UNCHANGED <<review, queue, troubles>>
    /\ UNCHANGED <<version, hidden, comments, trigger, rows, hands>>

Fail == job' = [kind |-> "run", r |-> job.r, pc |-> "failing"]

\* select(): as many findings as may have comments of their own.
Selections == {found \in SUBSET Findings : Cardinality(found) <= Cap}

\* PersonalDocs writes only while the page is at the version reviewed.
Writable(r) == ~hidden /\ version = review[r].version

\* Everything up to the decision: each stage looks at the review, and the first
\* at the page.  What is selected for comments of its own is a choice.
Analyse ==
    /\ Running /\ job.pc = "analysis"
    /\ \/ /\ Ended(job.r) \/ ~Writable(job.r)
          /\ Fail
       \/ /\ ~Ended(job.r) /\ Writable(job.r)
          /\ \E found \in Selections :
                job' = [kind |-> "run", r |-> job.r, pc |-> "decision", found |-> found]
    /\ UNCHANGED <<version, hidden, comments, trigger, review, rows, queue, bounds>>

\* advance() has read the review when it moves it: one that ended in between
\* stays ended and the run goes on.
Decide ==
    /\ Running /\ job.pc = "decision"
    /\ Transition(job.r, "decision")
    /\ LET mode == trigger[job.r].mode IN
       job' = [kind |-> "run", r |-> job.r, found |-> job.found,
               pc |-> CASE mode = "none" -> "report"
                        [] mode = "draft" -> "items"
                        [] mode = "applied" -> "reading",
               todo |-> job.found \cup {Summary},
               posted |-> {}, slots |-> 0, key |-> Summary, gone |-> {}]
    /\ UNCHANGED <<version, hidden, comments, trigger, rows, queue, bounds>>

\* Mutants of Posted and Slots: comments people resolved are not looked at, or
\* go on taking room.
PostedOpen(list) == {m \in Markers : list[m] \in {"open", "twice"}}
SlotsAll(list) ==
    LET free == Cap - Cardinality({f \in Findings : list[f] # "none"})
    IN IF free < 0 THEN 0 ELSE free

\* ours(): what this owner's reviewer has on the page, and the room beside it.
Posted(list) == {m \in Markers : list[m] # "none"}
Slots(list) == LET free == Cap - Cardinality(OpenIn(list))
               IN IF free < 0 THEN 0 ELSE free

ReadPage ==
    /\ Running /\ job.pc = "reading"
    /\ \/ \E list \in Listings(Owner(job.r)) :
             /\ Reads(Owner(job.r), list)
             /\ job' = [job EXCEPT !.pc = "items", !.posted = Posted(list),
                                   !.slots = Slots(list), !.gone = {}]
             /\ Miss(Owner(job.r), list)
       \/ /\ troubles < MaxTroubles /\ troubles' = troubles + 1
          /\ Fail /\ UNCHANGED missed
    /\ UNCHANGED <<version, hidden, page, reopened, trigger, review, rows, queue, hands>>

Remember(r, k, row) == rows' = [rows EXCEPT ![r][k] = row]

\* The next comment, the summary last: drafted, found on the page, held back
\* for want of room, or announced and posted.
HeldBack(r, k) == Remember(r, k, [rows[r][k] EXCEPT !.status = "not_published", !.eligible = FALSE])
Announce(r, k) == Remember(r, k, [rows[r][k] EXCEPT !.status = "not_published", !.intent = "publish"])
Commit(r, k) == Remember(r, k, [rows[r][k] EXCEPT !.status = "committed", !.intent = "none"])

NextItem(k) ==
    /\ Running /\ job.pc = "items" /\ k \in job.todo
    /\ k = Summary => job.todo = {Summary}
    /\ LET r == job.r
           drafting == trigger[r].mode = "draft"
           done == [job EXCEPT !.todo = @ \ {k}]
       IN \/ /\ drafting
             /\ Remember(r, k, [rows[r][k] EXCEPT !.status = "drafted"])
             /\ job' = done
          \/ /\ ~drafting /\ Marker(r, k) \in job.posted
             /\ Remember(r, k, [rows[r][k] EXCEPT !.status = "committed"])
             /\ job' = done
          \/ /\ ~drafting /\ Marker(r, k) \notin job.posted
             /\ k # Summary /\ job.slots = 0
             /\ HeldBack(r, k)
             /\ job' = done
          \/ /\ ~drafting /\ Marker(r, k) \notin job.posted
             /\ k = Summary \/ job.slots > 0
             /\ Announce(r, k)
             /\ job' = [done EXCEPT !.pc = "post", !.key = k]
    /\ UNCHANGED <<version, hidden, comments, trigger, review, queue, bounds>>

\* A second comment under a marker shows for as long as the first is there.
PutOn(r, k) ==
    /\ page' = [page EXCEPT ![Owner(r)][Marker(r, k)] = IF Has(r, k) THEN "twice" ELSE "open"]
    /\ UNCHANGED <<missed, reopened>>

\* Writing is refused once the page moved on; a call that fails may have posted.
Post ==
    /\ Running /\ job.pc = "post"
    /\ \/ /\ ~Writable(job.r)
          /\ Fail /\ UNCHANGED <<comments, troubles>>
       \/ /\ Writable(job.r)
          /\ PutOn(job.r, job.key)
          /\ job' = [job EXCEPT !.pc = "posted"]
          /\ UNCHANGED troubles
       \/ /\ Writable(job.r)
          /\ troubles < MaxTroubles /\ troubles' = troubles + 1
          /\ PutOn(job.r, job.key) \/ UNCHANGED comments
          /\ Fail
    /\ UNCHANGED <<version, hidden, trigger, review, rows, queue, hands>>

RecordPost ==
    /\ Running /\ job.pc = "posted"
    /\ Commit(job.r, job.key)
    /\ job' = [job EXCEPT !.pc = "items",
                          !.slots = IF job.key = Summary THEN @ ELSE @ - 1]
    /\ UNCHANGED <<version, hidden, comments, trigger, review, queue, bounds>>

\* The report reaches the snapshot, and then the review its end.
Report ==
    /\ Running
    /\ job.pc = "report" \/ (job.pc = "items" /\ job.todo = {})
    /\ review' = [review EXCEPT ![job.r].report = job.found]
    /\ job' = [job EXCEPT !.pc = "publishing"]
    /\ UNCHANGED <<version, hidden, comments, trigger, rows, queue, bounds>>

Finish ==
    /\ Running /\ job.pc \in {"publishing", "failing"}
    /\ Transition(job.r, IF job.pc = "publishing" THEN "published" ELSE "failed")
    /\ job' = [kind |-> "run", r |-> job.r, pc |-> "delivering"]
    /\ UNCHANGED <<version, hidden, comments, trigger, rows, queue, bounds>>

Deliver ==
    /\ Running /\ job.pc = "delivering"
    /\ review' = [review EXCEPT ![job.r].delivered = TRUE]
    /\ Release(job.r)
    /\ UNCHANGED <<version, hidden, comments, trigger, rows, bounds>>

\* until_stopped() ends the run of a review its owner stopped.
StopSeen ==
    /\ Running /\ review[job.r].state = "cancelled"
    /\ Release(job.r)
    /\ UNCHANGED <<version, hidden, comments, trigger, review, rows, bounds>>

\* A worker dies.  The job stays in the queue; an owner's request is lost.
Crash ==
    /\ job # Idle
    /\ troubles < MaxTroubles /\ troubles' = troubles + 1
    /\ job' = Idle
    /\ UNCHANGED <<version, hidden, comments, trigger, review, rows, queue, hands>>
-----------------------------------------------------------------------------
(***************************************************************************)
(* The owner's dashboard                                                   *)
(***************************************************************************)

\* seed(): a report nobody posted still has its rows.
Seeded(r) ==
    [k \in Keys |->
       IF rows[r][k].status # "none" \/ k \notin review[r].report THEN rows[r][k]
       ELSE Entry(CASE trigger[r].mode = "draft" -> "drafted"
                    [] trigger[r].mode = "applied" -> "committed"
                    [] trigger[r].mode = "none" -> "not_published")]

\* sync(): a row says what the page shows, unless its owner removed it for good.
Kept(row) == row.status = "removed" /\ row.byOwner /\ row.intent = "none"
SyncedRow(r, k, row, list) ==
    LET shown == list[Marker(r, k)] IN
    CASE row.status = "none" \/ Kept(row) \/ shown = "twice" -> row
      [] row.status # "none" /\ ~Kept(row) /\ shown \in {"open", "resolved"} ->
           [row EXCEPT !.status = "committed", !.intent = "none"]
      [] row.status # "none" /\ ~Kept(row) /\ shown = "none" ->
           IF row.status \in {"committed", "removed"} \/ row.intent = "remove"
           THEN [row EXCEPT !.status = "removed", !.intent = "none"] ELSE row

Synced(r, list) == [k \in Keys |-> SyncedRow(r, k, Seeded(r)[k], list)]

\* A row that sync() could not settle is in conflict.
InConflict(r, k, row, list) ==
    ~Kept(row) /\ (list[Marker(r, k)] = "twice" \/ row.intent = "publish")

\* Opening the comments of a review brings them up to date, with a page nobody
\* can read, too.
Refresh(r) ==
    /\ job = Idle /\ review[r].state # "none"
    /\ hands < MaxHands /\ hands' = hands + 1
    /\ \E list \in Listings(Owner(r)) :
          Reads(Owner(r), list) /\ rows' = [rows EXCEPT ![r] = Synced(r, list)]
    /\ UNCHANGED <<version, hidden, comments, trigger, review, queue, job>>

Manageable(r) == review[r].state = "published" /\ Writable(r)
ActOn(r, k, pc) == [kind |-> "act", r |-> r, key |-> k, pc |-> pc]

\* Mutant of Publishable: the room on the page is not looked at.
PublishableAnyway(r, k, list) ==
    LET row == Synced(r, list)[k] IN
    /\ row.status \in {"drafted", "not_published"} /\ row.eligible
    /\ ~InConflict(r, k, row, list)

\* Comments are counted here, and markers where a run reads the page.
Publishable(r, k, list) ==
    LET row == Synced(r, list)[k] IN
    /\ row.status \in {"drafted", "not_published"} /\ row.eligible
    /\ ~InConflict(r, k, row, list)
    /\ k # Summary =>
          Cardinality(OpenIn(list)) + Cardinality({f \in Findings : list[f] = "twice"}) < Cap

StartPublish(r, k) ==
    /\ job = Idle /\ Manageable(r)
    /\ hands < MaxHands /\ hands' = hands + 1
    /\ \E list \in Listings(Owner(r)) :
          /\ Reads(Owner(r), list) /\ Publishable(r, k, list)
          /\ rows' = [rows EXCEPT ![r] = [Synced(r, list) EXCEPT ![k].intent = "publish"]]
          /\ Miss(Owner(r), list)
    /\ job' = ActOn(r, k, "publish")
    /\ UNCHANGED <<version, hidden, page, reopened, trigger, review, queue>>

\* A draft is removed at once, a comment by a call the row announces.
StartRemove(r, k) ==
    /\ job = Idle /\ Manageable(r)
    /\ hands < MaxHands /\ hands' = hands + 1
    /\ \E list \in Listings(Owner(r)) :
       LET row == Synced(r, list)[k] IN
       /\ Reads(Owner(r), list) /\ ~InConflict(r, k, row, list)
       /\ \/ /\ row.status = "drafted"
             /\ rows' = [rows EXCEPT ![r] = [Synced(r, list) EXCEPT
                           ![k] = [row EXCEPT !.status = "removed", !.byOwner = TRUE]]]
             /\ UNCHANGED job
          \/ /\ row.status = "committed"
             /\ rows' = [rows EXCEPT ![r] = [Synced(r, list) EXCEPT
                           ![k] = [row EXCEPT !.intent = "remove", !.byOwner = TRUE]]]
             /\ job' = ActOn(r, k, "remove")
    /\ UNCHANGED <<version, hidden, comments, trigger, review, queue>>

Acting(pc) == job # Idle /\ job.kind = "act" /\ job.pc = pc

\* The write of either may be refused, be lost, or go unanswered; what Confluence
\* definitely refused can be published again.
PublishNow ==
    /\ Acting("publish")
    /\ \/ /\ Writable(job.r)
          /\ PutOn(job.r, job.key)
          /\ job' = [job EXCEPT !.pc = "published"] /\ UNCHANGED <<rows, troubles>>
       \/ /\ ~Writable(job.r)
          /\ job' = Idle /\ UNCHANGED <<comments, rows, troubles>>
       \/ /\ troubles < MaxTroubles /\ troubles' = troubles + 1
          /\ Remember(job.r, job.key, [rows[job.r][job.key] EXCEPT !.intent = "none"])
          /\ job' = Idle /\ UNCHANGED comments
       \/ /\ Writable(job.r)
          /\ troubles < MaxTroubles /\ troubles' = troubles + 1
          /\ PutOn(job.r, job.key) \/ UNCHANGED comments
          /\ job' = Idle /\ UNCHANGED rows
    /\ UNCHANGED <<version, hidden, trigger, review, queue, hands>>

RecordPublish ==
    /\ Acting("published")
    /\ Commit(job.r, job.key)
    /\ job' = Idle
    /\ UNCHANGED <<version, hidden, comments, trigger, review, queue, bounds>>

\* What is left of a marker's comments.
Leave(owner, m, left) ==
    /\ page' = [page EXCEPT ![owner][m] = left]
    /\ missed' = IF left = "none" THEN [missed EXCEPT ![owner] = @ \ {m}] ELSE missed
    /\ reopened' = CASE left # "open" -> [reopened EXCEPT ![owner] = @ \ {m}]
                     [] left = "open" /\ page[owner][m] = "resolved" ->
                          [reopened EXCEPT ![owner] = @ \cup {m}]
                     [] OTHER -> reopened

\* PersonalDocs deletes only a comment it finds on the page.
RemoveNow ==
    /\ Acting("remove")
    /\ \/ /\ Writable(job.r) /\ Has(job.r, job.key)
          /\ Leave(Owner(job.r), Marker(job.r, job.key),
                   IF page[Owner(job.r)][Marker(job.r, job.key)] = "twice" THEN "open" ELSE "none")
          /\ job' = [job EXCEPT !.pc = "removed"] /\ UNCHANGED troubles
       \/ /\ ~Writable(job.r) \/ ~Has(job.r, job.key)
          /\ job' = Idle /\ UNCHANGED <<comments, troubles>>
       \/ /\ troubles < MaxTroubles /\ troubles' = troubles + 1
          /\ job' = Idle /\ UNCHANGED comments
    /\ UNCHANGED <<version, hidden, trigger, review, rows, queue, hands>>

RecordRemove ==
    /\ Acting("removed")
    /\ Remember(job.r, job.key, [rows[job.r][job.key] EXCEPT !.status = "removed", !.intent = "none"])
    /\ job' = Idle
    /\ UNCHANGED <<version, hidden, comments, trigger, review, queue, bounds>>
-----------------------------------------------------------------------------
(***************************************************************************)
(* People in Confluence                                                    *)
(***************************************************************************)

\* What is undone costs no hand: a page that comes back, a comment opened again or
\* left alone of two.
ByHand == hands < MaxHands /\ hands' = hands + 1

EditPage ==
    /\ version < MaxVersion /\ version' = version + 1
    /\ ByHand
    /\ UNCHANGED <<hidden, comments, trigger, review, rows, queue, job, troubles>>

\* The page is restricted or trashed, or comes back.
HidePage ==
    /\ hidden' = ~hidden
    /\ IF hidden THEN UNCHANGED hands ELSE ByHand
    /\ UNCHANGED <<version, comments, trigger, review, rows, queue, job, troubles>>

\* A run at work notes what is taken off the page of its owner's comments.
Gone(owner, m, left) ==
    job' = IF /\ left # "open" /\ Running /\ Owner(job.r) = owner
              /\ job.pc \in {"items", "post", "posted", "publishing"}
           THEN [job EXCEPT !.gone = @ \cup {m}] ELSE job

\* Somebody deletes a comment of the reviewer's, resolves its thread or opens it
\* again, or deletes one of two.
Touch(owner, m, left) ==
    /\ \/ page[owner][m] \in {"open", "resolved"} \ {left}
       \/ page[owner][m] = "twice" /\ left = "open"
    /\ IF left = "open" THEN UNCHANGED hands ELSE ByHand
    /\ Leave(owner, m, left)
    /\ Gone(owner, m, left)
    /\ UNCHANGED <<version, hidden, trigger, review, rows, queue, troubles>>
-----------------------------------------------------------------------------
Run == \/ Analyse \/ Decide \/ ReadPage \/ (\E k \in Keys : NextItem(k))
       \/ Post \/ RecordPost \/ Report \/ Finish \/ Deliver
Dashboard == PublishNow \/ RecordPublish \/ RemoveNow \/ RecordRemove

Next ==
    \/ \E r \in Requests, o \in Owners, mode \in Modes : Ask(r, o, mode)
    \/ \E old, r \in Requests, retry \in BOOLEAN : RunAgain(old, r, retry)
    \/ \E r \in Requests : Receive(r) \/ StartRun(r) \/ Stop(r) \/ Refresh(r)
    \/ Recover \/ Run \/ StopSeen \/ Crash \/ Dashboard
    \/ \E r \in Requests, k \in Keys : StartPublish(r, k) \/ StartRemove(r, k)
    \/ EditPage \/ HidePage
    \/ \E o \in Owners, m \in Markers, left \in {"none", "resolved", "open"} : Touch(o, m, left)

\* Workers and the sweep go on working; nobody has to ask for anything.
Fairness ==
    /\ WF_vars(\E r \in Requests : Receive(r)) /\ WF_vars(Recover)
    /\ \A r \in Requests : WF_vars(StartRun(r))
    /\ WF_vars(Run \/ StopSeen \/ Dashboard)

Spec == Init /\ [][Next]_vars
FairSpec == Spec /\ Fairness
-----------------------------------------------------------------------------
TriggerType ==
    [state : {"unused"}]
        \cup [state : {"queued", "rejected", "conflict", "admitted"}, owner : Owners,
              mode : Modes]
ReviewType ==
    [state : {"none"}]
        \cup [state : {"working", "decision"} \cup Terminal, version : 1..MaxVersion,
              delivered : BOOLEAN, report : SUBSET Findings]
RowType ==
    [status : {"none", "drafted", "not_published", "committed", "removed"},
     intent : {"none", "publish", "remove"}, eligible : BOOLEAN, byOwner : BOOLEAN]
Work == [kind : {"run"}, r : Requests, found : Selections, todo : SUBSET Keys,
         pc : {"reading", "items", "post", "posted", "report", "publishing"},
         posted : SUBSET Markers, slots : Nat, key : Keys, gone : SUBSET Markers]
JobType ==
    {Idle} \cup Work
      \cup [kind : {"run"}, r : Requests, pc : {"analysis", "failing", "delivering"}]
      \cup [kind : {"run"}, r : Requests, pc : {"decision"}, found : Selections]
      \cup [kind : {"act"}, r : Requests, key : Keys,
            pc : {"publish", "published", "remove", "removed"}]

\* Every variable has its type: no comment is under way without its run or request.
TypeOK ==
    /\ version \in 1..MaxVersion /\ hidden \in BOOLEAN
    /\ page \in [Owners -> [Markers -> {"none", "open", "resolved", "twice"}]]
    /\ missed \in [Owners -> SUBSET Markers] /\ reopened \in [Owners -> SUBSET Markers]
    /\ trigger \in [Requests -> TriggerType]
    /\ review \in [Requests -> ReviewType]
    /\ rows \in [Requests -> [Keys -> RowType]]
    /\ queue \subseteq {"receive", "run"} \X Requests
    /\ job \in JobType
    /\ troubles \in 0..MaxTroubles /\ hands \in 0..MaxHands
-----------------------------------------------------------------------------
\* document_publisher.py:7-8: "a rerun never posts the same finding twice".
NeverTwice == \A o \in Owners, f \in Findings : page[o][f] # "twice"

\* Reruns, retries, crashes, lost answers and the dashboard never put a second
\* comment on the page beside one with the same marker, unless the reading
\* before a post did not list that one (publish/document_publisher.py:7).
OnceOnPage == \A o \in Owners, m \in Markers : page[o][m] = "twice" => m \in missed[o]

\* However many reviews ran and drafts were published, an owner's reviewer has no
\* more open findings on the page than the operator allows, beside those people
\* opened again and those the reading before a post did not list.
CommentCap ==
    \A o \in Owners : Cardinality(OpenOf(o) \ (missed[o] \cup reopened[o])) <= Cap

\* A review that posts ends published only when each finding of its report is
\* on the page, was taken off it while the run was at work, or was held back
\* from a page that had no room left.
Reached(r, k) ==
    \/ Has(r, k) \/ Marker(r, k) \in job.gone
    \/ ~rows[r][k].eligible
       /\ Cardinality(OpenOf(Owner(r)) \cup (job.gone \cap Findings)) >= Cap
ReportReachesPage ==
    [][\A r \in Requests :
          (review[r].state = "decision" /\ review'[r].state = "published"
             /\ trigger[r].mode = "applied") =>
          \A k \in job.found \cup {Summary} : Reached(r, k)]_vars

\* Every request is rejected, loses to another owner's review, or gets a review that
\* comes to an end, whatever dies, fails or is lost on the way.
Answered(r) == \/ trigger[r].state \in {"rejected", "conflict"}
               \/ review[r].state \in Terminal
RequestSettles ==
    <>[](\A r \in Requests : trigger[r].state # "unused" => Answered(r))

\* Said by document_pipeline.py:380: once a document review has ended nothing is
\* left to deliver, and the recovery sweep no longer picks it up.
EndedIsDelivered ==
    \A r \in Requests :
       (review[r].state \in Terminal) ~> (review[r].state \in Terminal /\ review[r].delivered)
=============================================================================
