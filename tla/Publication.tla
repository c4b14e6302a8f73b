------------------------------ MODULE Publication ------------------------------
(***************************************************************************)
(* The comments of one personal review on its merge request: the worker    *)
(* posts them or leaves them as drafts (reviewer/publish/publisher.py),    *)
(* and once the review is published its owner manages them from the        *)
(* dashboard (reviewer/publish/comments.py, reviewer/api/comments.py).     *)
(* Both hold the merge request's lock for as long as they work, but users  *)
(* go on using GitLab under them, and either may die between any two calls *)
(* and be tried again.                                                     *)
(*                                                                         *)
(* A finding is its fingerprint, each in a file of its own, and always on  *)
(* a line of the diff; editing a message changes text alone and is left    *)
(* out, and a bulk request is its single ones in turn.  The personal       *)
(* client's look before a write and the write are one step                 *)
(* (reviewer/accounts/execution.py).                                       *)
(***************************************************************************)
EXTENDS Integers, FiniteSets

CONSTANTS
  Inline,       \* findings selected for inline comments
  Summary,      \* key of the overall message
  Modes,        \* report modes a run may have: "applied", "draft", "none"
  Cap,          \* review.max_inline
  LatePosts,    \* whose unanswered posts may appear later: "publish", "act"
  MaxNotes,     \* bound: notes ever created
  MaxHands,     \* bound: what users do in GitLab
  MaxRequests,  \* bound: what the owner asks for
  MaxCrashes    \* bound: crashes of a job

ASSUME PublicationAssumption ==
    /\ Summary \notin Inline /\ IsFiniteSet(Inline)
    /\ Modes \subseteq {"applied", "draft", "none"}
    /\ LatePosts \subseteq {"publish", "act"}
    /\ {Cap, MaxNotes, MaxHands, MaxRequests, MaxCrashes} \subseteq Nat

VARIABLES
  mode,      \* report mode of the run
  mr,        \* the merge request: still as reviewed, closed, or pushed to
  notes,     \* what GitLab holds, by identifier
  rows,      \* ReviewComment rows of the review
  review,    \* how far it is: running, published, or ended without
  job,       \* who holds the lock, what it read and what it does next
  drift,     \* history: what came to life, or to light, behind the job at work
  hands, requests, crashes

bounds == <<hands, requests, crashes>>
vars == <<mode, mr, notes, rows, review, job, drift, bounds>>

Keys == Inline \cup {Summary}
Ids == 1..MaxNotes

NoNote == [key |-> Summary, kind |-> "unused", late |-> FALSE]

\* entry(): a row nothing was published of.
NoRow ==
    [status |-> "none", intent |-> "none", note |-> 0, draft |-> 0,
     thread |-> "none", body |-> FALSE, position |-> FALSE, eligible |-> TRUE,
     byOwner |-> FALSE, conflict |-> FALSE]
Entry(body) == [NoRow EXCEPT !.status = "not_published", !.body = body]

Idle == [pc |-> "idle", by |-> "none", key |-> Summary, left |-> 0,
         todo |-> {}, seen |-> {}, drafts |-> {}, hidden |-> {},
         slots |-> 0, answer |-> "none"]

\* Notes on a finding, and those everybody or their author can see now.
Of(k) == {n \in Ids : notes[n].key = k}
Visible == {n \in Ids : notes[n].kind \notin {"unused", "gone"} /\ ~notes[n].late}
Drafts == {n \in Visible : notes[n].kind = "draft"}
KeysOf(ns) == {notes[n].key : n \in ns}

PublishedKind(k) == IF k = Summary THEN "plain" ELSE "open"
New == CHOOSE n \in Ids :
          /\ notes[n].kind = "unused"
          /\ \A m \in Ids : notes[m].kind = "unused" => n <= m
\* Bound: a note for the write under way, and one for a draft users publish.
HasRoom == Cardinality({n \in Ids : notes[n].kind = "unused"}) > 1
Created(k, kind, late) ==
    [notes EXCEPT ![New] = [key |-> k, kind |-> kind, late |-> late]]

\* What GitLab may hold after a post nobody had the answer of.
Unanswered(k, kind, by) ==
    {notes, Created(k, kind, FALSE)}
      \cup (IF by \in LatePosts THEN {Created(k, kind, TRUE)} ELSE {})

Init ==
    /\ mode \in Modes
    /\ mr = "current"
    \* An earlier review of the merge request may have left a thread.
    /\ notes \in {[n \in Ids |-> NoNote]} \cup
          {[n \in Ids |-> IF n = 1 THEN [key |-> k, kind |-> kind, late |-> FALSE]
                          ELSE NoNote] : k \in Inline, kind \in {"open", "resolved"}}
    /\ rows = [k \in Keys |-> NoRow]
    /\ review = "running"
    /\ job = Idle
    /\ drift = {}
    /\ hands = 0 /\ requests = 0 /\ crashes = 0
-----------------------------------------------------------------------------
(***************************************************************************)
(* The worker                                                              *)
(***************************************************************************)

\* StaleReview and every other exception end the review's run.
Abort ==
    /\ review' = "over"
    /\ job' = Idle
    /\ UNCHANGED <<mode, mr, drift, bounds>>

\* Mutant of Threads: threads already open are not counted.
ThreadsNone(ns) == {}

\* The open threads, of any run, among the notes read.
Threads(ns) == {n \in ns : notes[n].kind = "open" /\ notes[n].key \in Inline}

\* Room left for inline comments of so many, beside those drafted.
Slots(room, drafts) ==
    LET free == room - Cardinality(KeysOf(drafts) \cap Inline)
    IN IF free < 0 THEN 0 ELSE free

\* publish() looks at the head and the open discussions first.  A report for
\* the dashboard alone needs nothing of GitLab.
StartPublish ==
    /\ review = "running" /\ job.pc = "idle"
    /\ \/ /\ mode = "none"
          /\ job' = [Idle EXCEPT !.pc = "report", !.by = "publish"]
          /\ UNCHANGED review
       \/ /\ mode # "none" /\ mr = "moved"
          /\ review' = "over" /\ UNCHANGED job
       \/ /\ mode # "none" /\ mr # "moved"
          /\ LET seen == {n \in Visible : notes[n].kind \in {"open", "plain"}} IN
             job' = [Idle EXCEPT
                !.pc = IF mode = "draft" THEN "drafts" ELSE "comment",
                !.by = "publish", !.todo = Inline, !.seen = seen,
                !.slots = Slots(Cap - Cardinality(Threads(seen)), {})]
          /\ UNCHANGED review
    /\ drift' = {}
    /\ UNCHANGED <<mode, mr, notes, rows, bounds>>

\* pending(): a drafted run looks for its drafts after that.
ReadPending ==
    /\ job.pc = "drafts"
    /\ job' = [job EXCEPT !.pc = "comment", !.drafts = Drafts,
                          !.slots = Slots(job.slots, Drafts)]
    /\ UNCHANGED <<mode, mr, notes, rows, review, drift, bounds>>

\* Whether the merge request says it already.  A drafted run looks for the
\* overall message among its drafts alone.
Said(k) ==
    k \in KeysOf(IF k = Summary /\ mode = "draft" THEN job.drafts
                 ELSE job.seen \cup job.drafts)

\* Mutant of Unwanted: what was removed is published again.
UnwantedSaid(k) == Said(k)

\* A finding somebody removed, or that is said already.  Findings are ordered
\* by severity and confidence, which a run taken up again may judge otherwise:
\* they come in any order.
Unwanted(k) ==
    rows[k].status = "removed" \/ rows[k].intent = "remove" \/ Said(k)

Skip(k) ==
    /\ job.pc = "comment" /\ k \in job.todo
    /\ Unwanted(k) \/ job.slots = 0
    /\ job' = [job EXCEPT !.todo = @ \ {k}]
    /\ UNCHANGED <<mode, mr, notes, rows, review, drift, bounds>>

\* remember(): the row and its position are saved before the post.
Remembered(k) ==
    [(IF rows[k].status = "none" THEN Entry(TRUE) ELSE rows[k])
        EXCEPT !.position = (k # Summary)]

Prepare(k) ==
    /\ job.pc = "comment" /\ k \in job.todo
    /\ ~Unwanted(k) /\ job.slots > 0 /\ HasRoom
    /\ IF mode = "applied" /\ mr = "moved"
       THEN Abort /\ UNCHANGED <<notes, rows>>
       ELSE /\ rows' = [rows EXCEPT ![k] = Remembered(k)]
            /\ job' = [job EXCEPT !.pc = "post", !.key = k, !.todo = @ \ {k}]
            /\ UNCHANGED <<mode, mr, notes, review, drift, bounds>>

\* The overall message comes last, unless a message of this head is there.
PrepareSummary ==
    /\ job.pc = "comment" /\ job.todo = {} /\ HasRoom
    /\ rows' = [rows EXCEPT ![Summary] = Remembered(Summary)]
    /\ IF Unwanted(Summary)
       THEN /\ job' = [job EXCEPT !.pc = "report"]
            /\ UNCHANGED <<mode, mr, notes, review, drift, bounds>>
       ELSE IF mode = "applied" /\ mr = "moved"
       THEN Abort /\ UNCHANGED notes
       ELSE /\ job' = [job EXCEPT !.pc = "post", !.key = Summary]
            /\ UNCHANGED <<mode, mr, notes, review, drift, bounds>>

PostKind(k) == IF mode = "draft" THEN "draft" ELSE PublishedKind(k)

\* The post succeeds, and its receipt is saved.
Post ==
    /\ job.pc = "post" /\ job.by = "publish"
    /\ mr = "current"
    /\ LET k == job.key IN
       /\ notes' = Created(k, PostKind(k), FALSE)
       /\ rows' = [rows EXCEPT ![k] =
             IF mode = "draft"
             THEN [@ EXCEPT !.status = "drafted", !.draft = New]
             ELSE [@ EXCEPT !.status = "committed", !.note = New,
                            !.thread = IF k = Summary THEN rows[k].thread ELSE "open"]]
       /\ job' = IF k = Summary THEN [job EXCEPT !.pc = "report"]
                 ELSE [job EXCEPT !.pc = "comment", !.slots = @ - 1]
    /\ UNCHANGED <<mode, mr, review, drift, bounds>>

\* GitLab does not take the position; the summary will say it.
PostUnpositionable ==
    /\ job.pc = "post" /\ job.by = "publish" /\ job.key # Summary
    /\ mr = "current"
    /\ rows' = [rows EXCEPT ![job.key].eligible = FALSE]
    /\ job' = [job EXCEPT !.pc = "comment"]
    /\ UNCHANGED <<mode, mr, notes, review, drift, bounds>>

\* The merge request is not as reviewed, or the post fails, perhaps after
\* GitLab heard it.
PostFails ==
    /\ job.pc = "post" /\ job.by = "publish"
    /\ IF mr = "current"
       THEN notes' \in Unanswered(job.key, PostKind(job.key), "publish")
       ELSE UNCHANGED notes
    /\ Abort
    /\ UNCHANGED rows

\* The report is saved and the review published.
Finish ==
    /\ job.pc = "report"
    /\ review' = "published"
    /\ job' = Idle
    /\ UNCHANGED <<mode, mr, notes, rows, drift, bounds>>
-----------------------------------------------------------------------------
(***************************************************************************)
(* The dashboard: reconciliation                                           *)
(***************************************************************************)

\* Comments are refreshed, whatever became of the review.
Inspect ==
    /\ job.pc = "idle"
    /\ job' = [Idle EXCEPT !.pc = "sync", !.by = "inspect", !.left = 1]
    /\ drift' = {}
    /\ UNCHANGED <<mode, mr, notes, rows, review, bounds>>

\* The owner asks for something: the request reconciles, act() does again, and
\* once more after it.
Request(k, action) ==
    /\ job.pc = "idle" /\ review = "published" /\ mr = "current"
    /\ requests < MaxRequests
    /\ requests' = requests + 1
    /\ job' = [Idle EXCEPT !.pc = "sync", !.by = action, !.key = k, !.left = 3]
    /\ drift' = {}
    /\ UNCHANGED <<mode, mr, notes, rows, review, hands, crashes>>

\* sync() reads the drafts first, then the discussions.
SyncDrafts ==
    /\ job.pc = "sync"
    /\ job' = [job EXCEPT !.pc = "discussions", !.drafts = Drafts]
    /\ UNCHANGED <<mode, mr, notes, rows, review, drift, bounds>>

\* seed(): rows for findings without one; they cannot be published.  The
\* report brings the overall message with it.
Seeded(k) ==
    IF rows[k].status # "none" THEN rows[k]
    ELSE IF k # Summary THEN Entry(FALSE)
    ELSE IF review = "published" THEN Entry(TRUE) ELSE NoRow

\* Mutant of Matches: a note is only known by its receipt.
MatchesReceipt(k) ==
    {n \in Of(k) \cap Visible : notes[n].kind # "draft" /\ n = rows[k].note}

\* The posted notes a row may be about: its receipt tells, or else the only
\* open thread.
Matches(k) ==
    LET all  == {n \in Of(k) \cap Visible : notes[n].kind # "draft"}
        open == {n \in all : notes[n].kind = "open"}
    IN IF rows[k].note # 0 THEN all \cap {rows[k].note}
       ELSE IF Cardinality(all) > 1 /\ Cardinality(open) = 1 THEN open
       ELSE all

\* The one of a set of one.
Only(ns) == CHOOSE n \in ns : TRUE

\* What reconciliation makes of a row, given the drafts that were read.
Reconciled(k, drafts) ==
    LET row == Seeded(k)
        matches == Matches(k)
        own == Of(k) \cap drafts
    IN CASE row.status = "none" -> row
         [] row.byOwner /\ row.status = "removed" /\ row.intent = "none" -> row
         [] OTHER ->
            IF Cardinality(matches) > 1 \/ Cardinality(own) > 1
               \/ (matches # {} /\ own # {})
            THEN [row EXCEPT !.conflict = TRUE]
            ELSE IF matches # {}
            THEN [row EXCEPT
                    !.conflict = FALSE, !.status = "committed", !.body = TRUE,
                    !.intent = IF row.intent = "publish" THEN "none" ELSE row.intent,
                    !.note = Only(matches), !.draft = 0,
                    !.thread = IF k = Summary THEN "none"
                               ELSE notes[Only(matches)].kind]
            ELSE IF own # {}
            THEN [row EXCEPT
                    !.conflict = FALSE, !.status = "drafted", !.body = TRUE,
                    !.draft = Only(own), !.note = 0, !.thread = "none"]
            ELSE IF row.status \in {"drafted", "committed", "removed"}
                    \/ row.intent = "remove"
            THEN [row EXCEPT !.conflict = FALSE, !.status = "removed",
                             !.thread = "none", !.intent = "none"]
            ELSE [row EXCEPT !.conflict = (row.intent = "publish")]

\* History: the posted notes that another's receipt hides from a row.
HiddenFrom(k) ==
    {n \in Of(k) \cap Visible : notes[n].kind # "draft" /\ rows[k].note \notin {0, n}}

\* A refresh ends with reconciliation; a request goes through it three times,
\* and acts on what the second one read.
AfterSync ==
    IF job.left = 1 THEN Idle
    ELSE IF job.left = 2
    THEN [job EXCEPT !.pc = "act", !.left = 1, !.seen = Threads(Visible),
                     !.hidden = HiddenFrom(job.key)]
    ELSE [job EXCEPT !.pc = "sync", !.left = 2, !.drafts = {}]

SyncRows ==
    /\ job.pc = "discussions"
    /\ rows' = [k \in Keys |-> Reconciled(k, job.drafts)]
    /\ job' = AfterSync
    /\ UNCHANGED <<mode, mr, notes, review, drift, bounds>>
-----------------------------------------------------------------------------
(***************************************************************************)
(* The dashboard: actions                                                  *)
(***************************************************************************)

\* act() is over: the request reconciles once more, and reports.
Answered(answer) ==
    [job EXCEPT !.pc = "sync", !.answer = answer, !.seen = {}, !.drafts = {},
                !.hidden = {}]

\* What counts against the ceiling, as it was read: open threads, and inline
\* drafts others than the row's own.
Counted(k) ==
    Cardinality(job.seen)
      + Cardinality({n \in job.drafts : notes[n].key \in Inline /\ n # rows[k].draft})

Publishable(row, k) ==
    row.eligible /\ row.body /\ (k = Summary \/ row.status = "drafted" \/ row.position)

\* What act() does not try: the row is unknown, in conflict or being removed,
\* or has nothing to do.
Declined(k, action) ==
    LET row == rows[k] IN
    \/ row.status = "none" \/ row.conflict
    \/ row.intent = "remove" /\ action # "remove"
    \/ /\ action = "resolve"
       /\ row.status # "committed" \/ row.thread # "open"
    \/ action = "remove" /\ row.status \notin {"drafted", "committed"}
    \/ /\ action = "publish"
       /\ \/ row.status \in {"committed", "removed"}
          \/ ~Publishable(row, k)
          \/ k # Summary /\ Counted(k) >= Cap

Decline ==
    /\ job.pc = "act" /\ Declined(job.key, job.by)
    /\ job' = Answered("skipped")
    /\ UNCHANGED <<mode, mr, notes, rows, review, drift, bounds>>

\* Mutant of Intent: nothing is saved before a comment is posted.
IntentUnsaved(row, action) ==
    IF action = "remove"
    THEN [row EXCEPT !.intent = "remove", !.byOwner = TRUE] ELSE row

\* What is saved before GitLab is asked: removals and new comments.
Intent(row, action) ==
    CASE action = "remove" -> [row EXCEPT !.intent = "remove", !.byOwner = TRUE]
      [] action = "publish" /\ row.status # "drafted" ->
            [row EXCEPT !.intent = "publish"]
      [] OTHER -> row

Undertake ==
    /\ job.pc = "act" /\ ~Declined(job.key, job.by) /\ HasRoom
    /\ rows' = [rows EXCEPT ![job.key] = Intent(@, job.by)]
    /\ job' = [job EXCEPT !.pc = "send"]
    /\ UNCHANGED <<mode, mr, notes, review, drift, bounds>>

\* What a write asks of GitLab, and that it is there to be asked: the personal
\* client looks first.
Target(row) == IF row.status = "drafted" THEN row.draft ELSE row.note
Asked(k, action) ==
    LET row == rows[k] IN
    CASE action = "resolve" -> [notes EXCEPT ![row.note].kind = "resolved"]
      [] action = "remove"  -> [notes EXCEPT ![Target(row)].kind = "gone"]
      [] action = "publish" /\ row.status = "drafted" ->
            [Created(k, PublishedKind(k), FALSE) EXCEPT ![row.draft].kind = "gone"]
      [] OTHER -> Created(k, PublishedKind(k), FALSE)
Creates(k, action) == action = "publish" /\ rows[k].status # "drafted"
Possible(k, action) ==
    /\ mr = "current"
    /\ ~Creates(k, action) => Target(rows[k]) \in Visible

\* The row after the write, as saved.
Done(row, action, note) ==
    CASE action = "resolve" -> [row EXCEPT !.thread = "resolved"]
      [] action = "remove" -> [row EXCEPT !.status = "removed", !.thread = "none",
                                          !.intent = "none"]
      [] action = "publish" /\ row.status = "drafted" ->
            [row EXCEPT !.status = "committed"]
      [] OTHER -> [row EXCEPT !.status = "committed", !.note = note,
                              !.intent = "none"]

Send ==
    /\ job.pc = "send" /\ Possible(job.key, job.by)
    /\ notes' = Asked(job.key, job.by)
    /\ rows' = [rows EXCEPT ![job.key] =
                   Done(@, job.by, IF Creates(job.key, job.by) THEN New ELSE 0)]
    /\ job' = Answered("succeeded")
    /\ UNCHANGED <<mode, mr, review, drift, bounds>>

\* GitLab says no (a 4xx answer): an intent to publish is withdrawn.
SendRejected ==
    /\ job.pc = "send" /\ Possible(job.key, job.by)
    /\ rows' = [rows EXCEPT ![job.key].intent =
                   IF Creates(job.key, job.by) THEN "none" ELSE @]
    /\ job' = Answered("rejected")
    /\ UNCHANGED <<mode, mr, notes, review, drift, bounds>>

\* The personal client refuses, or GitLab does not take the position (400):
\* neither is an HTTPStatusError.
SendRefused ==
    /\ job.pc = "send"
    /\ \/ ~Possible(job.key, job.by)
       \/ Creates(job.key, job.by) /\ job.key # Summary
    /\ job' = Answered("rejected")
    /\ UNCHANGED <<mode, mr, notes, rows, review, drift, bounds>>

\* What GitLab may hold after a write nobody had the answer of.
Unheard(k, action) ==
    IF ~Possible(k, action) THEN {notes}
    ELSE IF Creates(k, action) THEN Unanswered(k, PublishedKind(k), "act")
    ELSE {notes, Asked(k, action)}

SendUnanswered ==
    /\ job.pc = "send"
    /\ notes' \in Unheard(job.key, job.by)
    /\ job' = Answered("unknown")
    /\ UNCHANGED <<mode, mr, rows, review, drift, bounds>>
-----------------------------------------------------------------------------
(***************************************************************************)
(* Crashes, and what users do in GitLab                                    *)
(***************************************************************************)

\* The worker or the API dies, perhaps with a write on its way.  The run is
\* taken up again, the request is not.
Crash ==
    /\ job.pc # "idle"
    /\ crashes < MaxCrashes
    /\ crashes' = crashes + 1
    /\ notes' \in CASE job.pc = "send" -> Unheard(job.key, job.by)
                    [] job.pc = "post" /\ mr = "current" ->
                          Unanswered(job.key, PostKind(job.key), "publish")
                    [] OTHER -> {notes}
    /\ job' = Idle
    /\ UNCHANGED <<mode, mr, rows, review, drift, hands, requests>>

\* A late post appears, or never will.
Land ==
    /\ \E n \in Ids :
          /\ notes[n].late
          /\ notes' \in {[notes EXCEPT ![n].late = FALSE],
                         [notes EXCEPT ![n] = [@ EXCEPT !.late = FALSE, !.kind = "gone"]]}
          /\ drift' = IF job.pc \in {"act", "send"} THEN drift \cup {n} ELSE drift
    /\ UNCHANGED <<mode, mr, rows, review, job, bounds>>

ByHand ==
    /\ hands < MaxHands
    /\ hands' = hands + 1
    /\ UNCHANGED <<mode, rows, review, job, requests, crashes>>

HandResolve(n) ==
    /\ n \in Visible /\ notes[n].kind = "open"
    /\ notes' = [notes EXCEPT ![n].kind = "resolved"]
    /\ ByHand
    /\ UNCHANGED <<mr, drift>>

HandReopen(n) ==
    /\ n \in Visible /\ notes[n].kind = "resolved"
    /\ notes' = [notes EXCEPT ![n].kind = "open"]
    /\ drift' = IF job.pc = "idle" THEN drift ELSE drift \cup {n}
    /\ ByHand
    /\ UNCHANGED mr

HandDelete(n) ==
    /\ n \in Visible
    /\ notes' = [notes EXCEPT ![n].kind = "gone"]
    /\ ByHand
    /\ UNCHANGED <<mr, drift>>

\* A draft is published from GitLab's own page: it becomes another note.
HandPublish(n) ==
    /\ n \in Drafts /\ HasRoom
    /\ notes' = [Created(notes[n].key, PublishedKind(notes[n].key), FALSE)
                    EXCEPT ![n].kind = "gone"]
    /\ drift' = IF job.pc = "drafts" THEN drift \cup {New} ELSE drift
    /\ ByHand
    /\ UNCHANGED mr

\* The merge request is closed or made a draft, reopened, or pushed to.
HandChange ==
    /\ mr # "moved"
    /\ mr' \in {"current", "closed", "moved"} \ {mr}
    /\ ByHand
    /\ UNCHANGED <<notes, drift>>
-----------------------------------------------------------------------------
Actions == {"resolve", "remove", "publish"}

Next ==
    \/ StartPublish \/ ReadPending \/ PrepareSummary \/ Post
    \/ PostUnpositionable \/ PostFails \/ Finish
    \/ \E k \in Inline : Skip(k) \/ Prepare(k)
    \/ Inspect \/ SyncDrafts \/ SyncRows
    \/ \E k \in Keys, action \in Actions : Request(k, action)
    \/ Decline \/ Undertake \/ Send \/ SendRejected \/ SendRefused
    \/ SendUnanswered
    \/ Crash \/ Land \/ HandChange
    \/ \E n \in Ids :
          HandResolve(n) \/ HandReopen(n) \/ HandDelete(n) \/ HandPublish(n)

Spec == Init /\ [][Next]_vars
-----------------------------------------------------------------------------
RowType ==
    [status : {"none", "not_published", "drafted", "committed", "removed"},
     intent : {"none", "publish", "remove"}, note : 0..MaxNotes,
     draft : 0..MaxNotes, thread : {"none", "open", "resolved"},
     body : BOOLEAN, position : BOOLEAN, eligible : BOOLEAN,
     byOwner : BOOLEAN, conflict : BOOLEAN]
JobType ==
    [pc : {"idle", "drafts", "comment", "post", "report", "sync",
           "discussions", "act", "send"},
     by : {"none", "publish", "inspect"} \cup Actions, key : Keys,
     left : 0..3, todo : SUBSET Inline, seen : SUBSET Ids,
     drafts : SUBSET Ids, hidden : SUBSET Ids, slots : 0..Cap,
     answer : {"none", "succeeded", "skipped", "rejected", "unknown"}]

\* Every variable has its type.
TypeOK ==
    /\ mode \in Modes /\ mr \in {"current", "closed", "moved"}
    /\ notes \in [Ids -> [key : Keys, late : BOOLEAN,
                          kind : {"unused", "draft", "open", "resolved",
                                  "plain", "gone"}]]
    /\ rows \in [Keys -> RowType]
    /\ review \in {"running", "published", "over"}
    /\ job \in JobType /\ drift \subseteq Ids
    /\ hands \in 0..MaxHands /\ requests \in 0..MaxRequests
    /\ crashes \in 0..MaxCrashes

\* The next three suppose that no post of a run that was given up appears later
\* (LatePosts without "publish"): the next run does not wait for one.

\* The notes a step of the worker or the dashboard makes or leaves to appear.
Working == job' # job
Makes(n) == notes[n].kind = "unused" /\ notes'[n].kind # "unused"
LiveThen(n) == notes'[n].kind \in {"draft", "open", "plain"}

\* Nothing is said twice: over crashes, reruns, retries and answers that never
\* came, a note is made only while no other that says the same is there or on
\* its way, but for what users brought to life under a run, what the receipt of
\* an earlier note hid from a request, and the overall message of a drafted run
\* once it was published.
NoDuplicate ==
    [][\A n \in Ids : Working /\ Makes(n)
          => \A m \in Ids \ {n} :
                /\ notes'[m].key = notes'[n].key
                /\ m \notin IF job.pc = "post" THEN drift ELSE job.hidden
                /\ mode = "draft" => notes'[m].kind # "plain"
                => ~LiveThen(m)]_<<notes, job>>

\* The ceiling for inline comments holds over reruns and beside threads of
\* earlier reviews, counting drafts: a note is made only below it, but for what
\* users brought to life, or GitLab let appear late, after it was counted.
CeilingKept ==
    [][(\E n \in Ids : Working /\ Makes(n) /\ notes'[n].key \in Inline)
          => Cardinality({m \in Ids \ drift :
                /\ notes'[m].kind \in {"draft", "open"} /\ ~notes'[m].late
                /\ notes'[m].key \in Inline}) <= Cap]_<<notes, job>>

\* A row is called removed only when what it stands for is gone: the note of
\* its receipt, or, without one, whatever says the finding and no earlier receipt
\* hid; also when its draft was published, under another identifier, while nobody
\* looked.
RemovedMeansGone ==
    [][\A k \in Keys :
          rows[k].status # "removed" /\ rows'[k].status = "removed"
             => \A n \in Ids :
                   /\ notes'[n].key = k /\ rows[k].note \in {0, n}
                   /\ n \notin job.hidden
                   => notes'[n].late \/ ~LiveThen(n)]_rows

\* What was removed, or is to be, is not published again.
RemovedStaysRemoved ==
    [][\A n \in Ids : Working /\ Makes(n)
          => /\ rows[notes'[n].key].status # "removed"
             /\ rows[notes'[n].key].intent # "remove"]_<<notes, job>>
-----------------------------------------------------------------------------
(***************************************************************************)
(* What the repository says and the code does not do                       *)
(***************************************************************************)

\* Running a review twice posts no duplicate comments (implementation PRD,
\* publication): nothing is said that a run found said in the discussions.
RepeatPostsNothing ==
    [][\A n \in Ids : Working /\ Makes(n)
          => notes'[n].key \notin KeysOf(job.seen)]_<<notes, job>>

\* A definitive rejection did not create a note, so that the intent to publish
\* is not kept (the comment in act()).
RejectionFreesIntent ==
    job.answer = "rejected" => rows[job.key].intent # "publish"
=============================================================================
