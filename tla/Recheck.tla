-------------------------------- MODULE Recheck --------------------------------
(***************************************************************************)
(* Answering the reviewer's open threads at a newer head                   *)
(* (reviewer/publish/recheck.py).  Every review does it before it posts    *)
(* its own report (Pipeline.recheck); a command or a dashboard request     *)
(* does it alone (Pipeline.recheck_now), and /ai dismiss closes a thread   *)
(* (reviewer/publish/commands.py).  All hold the merge request's lock;     *)
(* people push, settle threads and publish drafts under them, calls fail,  *)
(* a worker may die anywhere and have its job tried again, and a job may   *)
(* end, before the recheck begins or at its timeout, and leave no word.    *)
(*                                                                         *)
(* A thread is the fingerprint that opened it, numbered in the order       *)
(* GitLab lists them.  What the analysis of a review reports, and what a   *)
(* head did to the lines a thread cites, are choices made when they are    *)
(* looked at; rendering, activity rows and excerpts are left out.          *)
(***************************************************************************)
EXTENDS Integers, Sequences, FiniteSetsExt

CONSTANTS
  Threads,
  Review,        \* name of a review's own job
  Asks,          \* commands and dashboard requests for a recheck
  Commands,      \* those that are commands: they name no review
  Dismissals,    \* threads somebody may dismiss, each by one command of that name
  Modes,         \* report modes of a run
  Changes,       \* what pushes may have done to the lines a thread cites
  Judgements,    \* what a judge may say
  MaxHeads,      \* bound: heads ever pushed
  MaxJudgements, \* review.recheck_max_judgements
  MaxTroubles,   \* bound: workers that die, jobs cut off, and calls that fail
  MaxHands       \* bound: what people do in GitLab and ask for

ReportModes == {"applied", "draft", "none"}
Resolving == {"fixed", "obsolete"}
Verdicts == Resolving \cup {"partially_fixed", "not_fixed", "unverifiable"}

ASSUME RecheckAssumption ==
    /\ Threads \subseteq Nat /\ Dismissals \subseteq Threads /\ Asks \cap Threads = {}
    /\ Commands \subseteq Asks
    /\ Judgements \subseteq Verdicts
    /\ Modes \subseteq ReportModes
    /\ Changes \subseteq {"gone", "unreadable", "same", "changed"}
    /\ MaxHeads \in Nat \ {0}
    /\ {MaxJudgements, MaxTroubles, MaxHands} \subseteq Nat

VARIABLES
  mr,        \* the merge request: its state and its head
  open,      \* unresolved threads
  replies,   \* answers in the threads, in the order they appeared
  drafts,    \* answers waiting as draft notes
  outcomes,  \* recorded feedback on a thread's finding
  published, \* the latest published review: its mode and whether it found anything
  queue,     \* jobs
  job,       \* the job that holds the lock
  recorded,  \* requests whose result a snapshot holds
  dropped,   \* history: requests whose job ended and left none, unless made again
  troubles, hands

forge == <<mr, open, replies, drafts>>
bounds == <<troubles, hands>>
results == <<recorded, dropped>>
vars == <<forge, outcomes, published, queue, job, results, bounds>>

Jobs == {Review} \cup Asks \cup Dismissals

Idle == [pc |-> "idle"]
Standalone == job # Idle /\ job.name \in Asks
-------------------------------------------------------------------------------
(* GitLab and its people *)

\* A new head, and the review a webhook has admitted for it.
Push ==
    /\ mr.state = "opened" /\ mr.head < MaxHeads
    /\ mr' = [mr EXCEPT !.head = @ + 1]
    /\ queue' = queue \cup {Review}
    /\ UNCHANGED <<open, replies, drafts, outcomes, published, job, results, bounds>>

Close ==
    /\ mr.state = "opened" /\ hands < MaxHands /\ hands' = hands + 1
    /\ mr' = [mr EXCEPT !.state = "closed"]
    /\ queue' = queue \ {Review}
    /\ UNCHANGED <<open, replies, drafts, outcomes, published, job, results, troubles>>

\* A person resolves a thread, or opens it again while no job is at work.
Toggle(t) ==
    /\ t \in open \/ job = Idle
    /\ hands < MaxHands /\ hands' = hands + 1
    /\ open' = IF t \in open THEN open \ {t} ELSE open \cup {t}
    /\ UNCHANGED <<mr, replies, drafts, outcomes, published, queue, job, results, troubles>>

\* A drafted answer is published and brings its resolution with it.
PublishDraft(d) ==
    /\ hands < MaxHands /\ hands' = hands + 1
    /\ drafts' = drafts \ {d}
    /\ replies' = Append(replies, [d EXCEPT !.by = "person"])
    /\ open' = IF d.settles THEN open \ {d.thread} ELSE open
    /\ UNCHANGED <<mr, outcomes, published, queue, job, results, troubles>>

\* A command is a job of its own name; a request from the dashboard is another,
\* and may be made again when its job left nothing.
Ask(name) ==
    /\ name \notin queue \cup recorded \cup (dropped \cap Commands)
    /\ (job # Idle => job.name # name)
    /\ hands < MaxHands /\ hands' = hands + 1
    /\ queue' = queue \cup {name}
    /\ dropped' = dropped \ {name}
    /\ UNCHANGED <<forge, outcomes, published, job, recorded, troubles>>
-------------------------------------------------------------------------------
(* Reading *)

\* What a review says of files: whether it was complete and took up all of them.
Alone == [review |-> FALSE, complete |-> FALSE, full |-> TRUE]
Analyses == [review : {TRUE}, complete : BOOLEAN, full : BOOLEAN]

Begin(name, mode, analysis) ==
    [name |-> name, pc |-> "discussions", head |-> mr.head, mode |-> mode,
     analysis |-> analysis, seen |-> {}, answers |-> <<>>, judged |-> 0, found |-> FALSE]

\* A review rechecks what the review before it opened, if that found anything.
StartReview ==
    /\ job = Idle /\ Review \in queue
    /\ \E mode \in Modes, analysis \in Analyses :
          job' = [Begin(Review, mode, analysis) EXCEPT
                    !.pc = IF ~published.found \/ mode = "none" THEN "finish" ELSE @]
    /\ queue' = queue \ {Review}
    /\ UNCHANGED <<forge, outcomes, published, results, bounds>>

\* A recheck alone uses the mode and the findings of the review published last.
StartAlone(name) ==
    /\ job = Idle /\ name \in queue
    /\ job' = [Begin(name, published.mode, Alone) EXCEPT
                 !.pc = IF \/ published.mode = "none" \/ ~published.found
                           \/ mr.state # "opened"
                        THEN "finish" ELSE @]
    /\ queue' = queue \ {name}
    /\ UNCHANGED <<forge, outcomes, published, results, bounds>>

\* A dashboard request runs as the review's owner: without valid credentials, or
\* when the owner's name or the merge request cannot be read, it ends here.
TurnedAway(name) ==
    /\ job = Idle /\ name \in queue \ Commands
    /\ troubles < MaxTroubles /\ troubles' = troubles + 1
    /\ queue' = queue \ {name}
    /\ dropped' = dropped \cup {name}
    /\ UNCHANGED <<forge, outcomes, published, job, recorded, hands>>

Answered(t, head) == \E i \in DOMAIN replies : replies[i].thread = t /\ replies[i].head = head
Drafted(t, head) == \E d \in drafts : d.thread = t /\ d.head = head

\* Mutant: the marker is not looked for.
UnansweredOrNot == open

Unanswered == {t \in open : ~Answered(t, job.head)}

ReadDiscussions ==
    /\ job.pc = "discussions"
    /\ job' = [job EXCEPT !.seen = Unanswered,
                          !.pc = IF job.mode = "draft" THEN "drafts" ELSE "evaluate"]
    /\ UNCHANGED <<forge, outcomes, published, queue, results, bounds>>

ReadDrafts ==
    /\ job.pc = "drafts"
    /\ job' = [job EXCEPT !.seen = {t \in @ : ~Drafted(t, job.head)}, !.pc = "evaluate"]
    /\ UNCHANGED <<forge, outcomes, published, queue, results, bounds>>
-------------------------------------------------------------------------------
(* Verdicts *)

\* A complete review that took the file up and no longer reports the claim.
Absent(code, claimed) ==
    /\ job.analysis.complete /\ ~claimed
    /\ job.analysis.full \/ code \in {"changed", "gone"}

\* What the diff settles; "open" is left to a judge.
Triage(code, claimed) ==
    IF claimed THEN "not_fixed"
    ELSE IF Absent(code, claimed) THEN "fixed"
    ELSE IF code = "gone" THEN "obsolete"
    ELSE IF code = "unreadable" THEN "unverifiable"
    ELSE IF code = "same" /\ ~job.analysis.full THEN "not_fixed"
    ELSE "open"

Judgeable(triaged) == triaged \in {"open", "fixed"} /\ job.judged < MaxJudgements

Without(triaged) == IF triaged = "open" THEN "unverifiable" ELSE triaged
\* Mutant: what the diff settled stays settled.
MergedSettled(triaged, said) == IF triaged = "open" THEN said ELSE triaged

\* A judgement withdraws a resolution, and grants one only where the diff says nothing.
Merged(triaged, said) ==
    IF triaged = "open" \/ said \notin Resolving THEN said ELSE triaged

\* An answer is sound unless it settles what its reason, the judge's word or how
\* the diff settled it, leaves open, or what the review still claims.
Conclude(t, verdict, reason, claimed, judged) ==
    job' = [job EXCEPT
              !.answers = Append(@, [thread |-> t, head |-> job.head, by |-> "reviewer",
                                     settles |-> verdict \in Resolving,
                                     sound |-> verdict \in Resolving =>
                                               reason \in Resolving /\ ~claimed]),
              !.seen = @ \ {t}, !.judged = @ + judged, !.found = @ \/ claimed]

\* The next thread: the diff settles it, or the judge answers, is not there or fails.
Evaluate(code, claimed) ==
    LET t == Min(job.seen)
        triaged == Triage(code, claimed)
    IN /\ job.pc = "evaluate" /\ job.seen # {}
       /\ claimed => job.analysis.review
       /\ \/ ~Judgeable(triaged) /\ Conclude(t, Without(triaged), triaged, claimed, 0)
          \/ Judgeable(triaged) /\ Conclude(t, Without(triaged), triaged, claimed, 1)
          \/ /\ Judgeable(triaged)
             /\ \E said \in Judgements : Conclude(t, Merged(triaged, said), said, claimed, 1)
       /\ UNCHANGED <<forge, outcomes, published, queue, results, bounds>>

\* Answers that would be posted for a head that is gone are dropped.
CheckHead ==
    /\ job.pc = "evaluate" /\ job.seen = {}
    /\ job' = [job EXCEPT !.analysis = Alone, !.judged = 0,
                          !.pc = IF job.answers = <<>> THEN "finish"
                                 ELSE IF job.mode = "applied" /\ mr.head # job.head THEN "stale"
                                 ELSE "reply"]
    /\ UNCHANGED <<forge, outcomes, published, queue, results, bounds>>
-------------------------------------------------------------------------------
(* Answers *)

Answer == Head(job.answers)
NextAnswer ==
    [job EXCEPT !.answers = Tail(@), !.pc = IF Len(job.answers) = 1 THEN "answered" ELSE "reply"]

\* Mutant: the outcome of a resolving answer is recorded when it is drafted.
DraftAndRecord ==
    /\ job.pc = "reply" /\ job.mode = "draft"
    /\ drafts' = drafts \cup {Answer}
    /\ outcomes' = IF Answer.settles THEN outcomes \cup {<<Answer.thread, "actioned">>} ELSE outcomes
    /\ job' = NextAnswer
    /\ UNCHANGED <<mr, open, replies, published, queue, results, bounds>>

Draft ==
    /\ job.pc = "reply" /\ job.mode = "draft"
    /\ drafts' = drafts \cup {Answer}
    /\ job' = NextAnswer
    /\ UNCHANGED <<mr, open, replies, outcomes, published, queue, results, bounds>>

Reply ==
    /\ job.pc = "reply" /\ job.mode = "applied"
    /\ replies' = Append(replies, Answer)
    /\ job' = IF Answer.settles THEN [job EXCEPT !.pc = "resolve"] ELSE NextAnswer
    /\ UNCHANGED <<mr, open, drafts, outcomes, published, queue, results, bounds>>

Resolve ==
    /\ job.pc = "resolve"
    /\ open' = open \ {Answer.thread}
    /\ job' = [job EXCEPT !.pc = "outcome"]
    /\ UNCHANGED <<mr, replies, drafts, outcomes, published, queue, results, bounds>>

\* The comment's row and the outcome; feedback of one kind is counted once.
Record ==
    /\ job.pc = "outcome"
    /\ outcomes' = outcomes \cup {<<Answer.thread, "actioned">>}
    /\ job' = NextAnswer
    /\ UNCHANGED <<forge, published, queue, results, bounds>>

\* A call that fails may have reached GitLab all the same.
CallFails ==
    /\ troubles < MaxTroubles /\ troubles' = troubles + 1
    /\ \/ job.pc \in {"discussions", "drafts"} /\ UNCHANGED <<open, replies>>
       \/ job.pc = "reply" /\ job.mode = "applied"
          /\ replies' \in {replies, Append(replies, Answer)} /\ UNCHANGED open
       \/ job.pc = "resolve" /\ open' \in {open, open \ {Answer.thread}} /\ UNCHANGED replies
    /\ job' = [job EXCEPT !.pc = "failed"]
    /\ UNCHANGED <<mr, drafts, outcomes, published, queue, results, hands>>
-------------------------------------------------------------------------------
(* Ends *)

\* The review is published, whatever becomes of what it posts after this.
PublishReview ==
    /\ job.pc \in {"finish", "answered"} /\ job.name = Review
    /\ \E found \in BOOLEAN :
          /\ job.found => found
          /\ published' = [mode |-> job.mode, found |-> found]
    /\ job' = Idle
    /\ UNCHANGED <<forge, outcomes, queue, results, bounds>>

\* A stale or failed review publishes nothing; its successor is another job.
DropReview ==
    /\ job.pc \in {"stale", "failed"} /\ job.name = Review
    /\ job' = Idle
    /\ UNCHANGED <<forge, outcomes, published, queue, results, bounds>>

Over == Standalone /\ job.pc \in {"finish", "answered", "stale", "failed"}

\* Mutant: a recheck that fails leaves no word of it.
RecordAnswerUnlessFailed ==
    /\ Over
    /\ recorded' = IF job.pc \in {"finish", "answered"} THEN recorded \cup {job.name} ELSE recorded
    /\ job' = Idle
    /\ UNCHANGED <<forge, outcomes, published, queue, dropped, bounds>>

\* For a dashboard request recheck_now() saves what it answered, why it did not,
\* or that it failed; for a command only what it answered.
RecordAnswer ==
    /\ Over
    /\ IF job.name \in Commands /\ job.pc # "answered"
       THEN dropped' = dropped \cup {job.name} /\ UNCHANGED recorded
       ELSE recorded' = recorded \cup {job.name} /\ UNCHANGED dropped
    /\ job' = Idle
    /\ UNCHANGED <<forge, outcomes, published, queue, bounds>>

\* At its timeout the queue fails a job for good, and nothing records it.
TimeOut ==
    /\ Standalone /\ troubles < MaxTroubles /\ troubles' = troubles + 1
    /\ dropped' = dropped \cup {job.name}
    /\ job' = Idle
    /\ UNCHANGED <<forge, outcomes, published, queue, recorded, hands>>

\* The thread a dismissal names, if the reviewer still owns it open.
StartDismissal(t) ==
    /\ job = Idle /\ t \in queue /\ t \in open
    /\ open' = open \ {t}
    /\ job' = [Begin(t, "applied", Alone) EXCEPT !.pc = "dismiss"]
    /\ queue' = queue \ {t}
    /\ UNCHANGED <<mr, replies, drafts, outcomes, published, results, bounds>>

Dismissed ==
    /\ job.pc = "dismiss"
    /\ outcomes' = outcomes \cup {<<job.name, "dismissed">>}
    /\ recorded' = recorded \cup {job.name}
    /\ job' = Idle
    /\ UNCHANGED <<forge, published, queue, dropped, bounds>>

NotOurs(t) ==
    /\ job = Idle /\ t \in queue /\ t \notin open
    /\ queue' = queue \ {t}
    /\ recorded' = recorded \cup {t}
    /\ UNCHANGED <<forge, outcomes, published, job, dropped, bounds>>

\* The queue gives the job of a dead worker to another.
Crash ==
    /\ job # Idle /\ troubles < MaxTroubles /\ troubles' = troubles + 1
    /\ queue' = queue \cup {job.name}
    /\ job' = Idle
    /\ UNCHANGED <<forge, outcomes, published, results, hands>>
-------------------------------------------------------------------------------
AnswerType ==
    [thread : Threads, head : 1..MaxHeads, by : {"reviewer", "person"},
     settles : BOOLEAN, sound : BOOLEAN]
Steps == {"discussions", "drafts", "evaluate", "reply", "resolve", "outcome",
          "answered", "finish", "stale", "failed", "dismiss"}
RunType ==
    [name : Jobs, pc : Steps, head : 1..MaxHeads, mode : ReportModes,
     analysis : Analyses \cup {Alone}, seen : SUBSET Threads,
     answers : Seq(AnswerType), judged : 0..MaxJudgements, found : BOOLEAN]

TypeOK ==
    /\ mr \in [state : {"opened", "closed"}, head : 1..MaxHeads]
    /\ open \subseteq Threads
    /\ replies \in Seq(AnswerType) /\ drafts \subseteq AnswerType
    /\ outcomes \subseteq Threads \X {"actioned", "dismissed"}
    /\ published \in [mode : ReportModes, found : BOOLEAN]
    /\ queue \subseteq Jobs /\ recorded \subseteq Asks \cup Dismissals
    /\ dropped \subseteq Asks
    /\ job = Idle \/ job \in RunType
    /\ troubles \in 0..MaxTroubles /\ hands \in 0..MaxHands

\* A first review is published, and its threads are open.
Init ==
    /\ mr = [state |-> "opened", head |-> 1]
    /\ open = Threads /\ replies = <<>> /\ drafts = {} /\ outcomes = {}
    /\ published \in [mode : Modes, found : {TRUE}]
    /\ queue = {} /\ job = Idle /\ recorded = {} /\ dropped = {}
    /\ troubles = 0 /\ hands = 0

Hands ==
    \/ Push \/ Close
    \/ \E t \in Threads : Toggle(t)
    \/ \E d \in drafts : PublishDraft(d)
    \/ \E name \in Asks \cup Dismissals : Ask(name)
Work ==
    \/ StartReview \/ \E name \in Asks : StartAlone(name)
    \/ \E t \in Dismissals : StartDismissal(t) \/ NotOurs(t)
    \/ ReadDiscussions \/ ReadDrafts
    \/ \E code \in Changes, claimed \in BOOLEAN : Evaluate(code, claimed)
    \/ CheckHead \/ Draft \/ Reply \/ Resolve \/ Record
    \/ PublishReview \/ DropReview \/ RecordAnswer \/ Dismissed
Next == Hands \/ Work \/ CallFails \/ Crash \/ TimeOut \/ \E name \in Asks : TurnedAway(name)

Spec == Init /\ [][Next]_vars
\* The worker goes on while there is work.
FairSpec == Spec /\ WF_vars(Work)
-------------------------------------------------------------------------------
(* Properties *)

\* README:361: however often a recheck is asked for, redelivered, retried or cut
\* off, no thread gets two replies of the reviewer's own for one head.
AnsweredOnce ==
    \A i, j \in DOMAIN replies :
        /\ i < j /\ replies[i].by = "reviewer" /\ replies[j].by = "reviewer"
        /\ replies[i].thread = replies[j].thread
        => replies[i].head # replies[j].head

\* README:358: a thread is called settled because the diff or a judge says so; a
\* judge who finds otherwise keeps it open, in a draft as well, and a claim the
\* review itself still reports is never settled.
SettledForAReason ==
    \A a \in {replies[i] : i \in DOMAIN replies} \cup drafts : a.sound

\* README:348: an actioned outcome stands for an answer of the reviewer's own that
\* settles the thread, and for nothing a draft or a person said.
ActionedIsAnswered ==
    \A t \in Threads : <<t, "actioned">> \in outcomes =>
        \E i \in DOMAIN replies :
            replies[i].thread = t /\ replies[i].by = "reviewer" /\ replies[i].settles

\* pipeline.py:901-928: once a recheck asked for from the dashboard is under way,
\* whatever fails leaves its result: a request is recorded, or its job ended before
\* the recheck began or at its timeout.
RequestEnds ==
    \A name \in Asks \ Commands : name \in queue ~> name \in recorded \cup dropped
===============================================================================
