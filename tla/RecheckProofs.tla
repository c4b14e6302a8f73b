----------------------------- MODULE RecheckProofs -----------------------------
(***************************************************************************)
(* Theorems about Recheck for any threads, requests, modes and bounds.     *)
(***************************************************************************)
EXTENDS Recheck, SequenceTheorems, WellFoundedInduction, TLAPS

\* The reviewer's own reply to a thread for a head is there.
Told(t, head) ==
    \E i \in DOMAIN replies :
        replies[i].by = "reviewer" /\ replies[i].thread = t /\ replies[i].head = head

\* An answer that has been replied to its thread, and settles it.
Settling(a) ==
    /\ a.settles
    /\ \E i \in DOMAIN replies :
          replies[i].by = "reviewer" /\ replies[i].thread = a.thread /\ replies[i].settles

\* What the job under the lock is about to say: one sound answer of its own for
\* each of several threads, none of which has one for the job's head yet.  At the
\* resolution and the outcome the first has just been given.
Answering == {"evaluate", "reply", "resolve", "outcome"}
PlanInv ==
    /\ job.pc \in {"discussions", "drafts"} => job.answers = <<>>
    /\ job.pc \in {"drafts", "evaluate"} => \A t \in job.seen : ~Told(t, job.head)
    /\ job.pc \in Answering =>
          /\ \A k \in DOMAIN job.answers :
                /\ job.answers[k].by = "reviewer" /\ job.answers[k].head = job.head
                /\ job.answers[k].sound
                /\ job.answers[k].thread \notin job.seen
                /\ k > 1 \/ job.pc \in {"evaluate", "reply"}
                     => ~Told(job.answers[k].thread, job.head)
          /\ \A j, k \in DOMAIN job.answers :
                j # k => job.answers[j].thread # job.answers[k].thread
    /\ job.pc \in {"reply", "resolve", "outcome"} => job.answers # <<>>
    /\ job.pc \in {"resolve", "outcome"} => Settling(job.answers[1])
    /\ job.pc = "dismiss" => job.name \in Dismissals

IInv ==
    /\ TypeOK /\ PlanInv
    /\ AnsweredOnce /\ SettledForAReason /\ ActionedIsAnswered
-----------------------------------------------------------------------------
(***************************************************************************)
(* The operators                                                           *)
(***************************************************************************)

\* The first of a nonempty set of threads is one of them.
LEMMA MinIsIn ==
    ASSUME NEW S \in SUBSET Threads, S # {}
    PROVE  Min(S) \in S
<1>. DEFINE below == {ss \in Nat \X Nat : ss[1] < ss[2]}
<1>1. S \subseteq Nat
  BY RecheckAssumption
<1>2. IsWellFoundedOn(below, Nat)
  BY NatLessThanWellFounded, Zenon DEF OpToRel
<1>3. \E x \in S : \A y \in S : <<y, x>> \notin below
  <2>. HIDE DEF below
  <2>. QED
    BY <1>1, <1>2, WFMin
<1>4. PICK x \in S : \A y \in S : <<y, x>> \notin below
  BY <1>3
<1>5. ASSUME NEW y \in S PROVE x <= y
  <2>1. x \in Nat /\ y \in Nat /\ <<y, x>> \notin below
    BY <1>1, <1>4
  <2>2. y < x => <<y, x>> \in below
    BY <2>1
  <2>. QED
    BY <2>1, <2>2
<1>. QED
  BY <1>5 DEF Min

\* What is left of the answers once the first is given.
LEMMA Tails ==
    ASSUME NEW s \in Seq(AnswerType), s # <<>>
    PROVE  /\ Len(s) \in Nat \ {0} /\ DOMAIN s = 1..Len(s)
           /\ Head(s) = s[1] /\ s[1] \in AnswerType
           /\ Tail(s) \in Seq(AnswerType) /\ DOMAIN Tail(s) = 1..(Len(s) - 1)
           /\ \A i \in 1..(Len(s) - 1) : Tail(s)[i] = s[i + 1]
           /\ Len(s) # 1 => Tail(s) # <<>>
<1>1. Len(s) \in Nat \ {0} /\ DOMAIN s = 1..Len(s)
  BY EmptySeq, LenProperties
<1>2. Head(s) = s[1] /\ s[1] \in AnswerType
  BY <1>1, ElementOfSeq
<1>3. /\ Tail(s) \in Seq(AnswerType) /\ Len(Tail(s)) = Len(s) - 1
      /\ \A i \in 1..Len(Tail(s)) : Tail(s)[i] = s[i + 1]
  BY HeadTailProperties
<1>4. DOMAIN Tail(s) = 1..Len(Tail(s))
  BY <1>3, LenProperties
<1>. QED
  BY <1>1, <1>2, <1>3, <1>4, EmptySeq

\* One more answer at the end.
LEMMA Appends ==
    ASSUME NEW s \in Seq(AnswerType), NEW a \in AnswerType
    PROVE  /\ Len(s) \in Nat /\ DOMAIN s = 1..Len(s)
           /\ \A i \in DOMAIN s : s[i] \in AnswerType
           /\ Append(s, a) \in Seq(AnswerType)
           /\ DOMAIN Append(s, a) = 1..(Len(s) + 1)
           /\ \A i \in DOMAIN s : Append(s, a)[i] = s[i]
           /\ Append(s, a)[Len(s) + 1] = a
<1>1. Len(s) \in Nat /\ DOMAIN s = 1..Len(s) /\ \A i \in DOMAIN s : s[i] \in AnswerType
  BY LenProperties, ElementOfSeq
<1>2. /\ Append(s, a) \in Seq(AnswerType) /\ Len(Append(s, a)) = Len(s) + 1
      /\ \A i \in 1..Len(s) : Append(s, a)[i] = s[i]
      /\ Append(s, a)[Len(s) + 1] = a
  BY AppendProperties
<1>3. DOMAIN Append(s, a) = 1..Len(Append(s, a))
  BY <1>2, LenProperties
<1>. QED
  BY <1>1, <1>2, <1>3

\* A step that leaves the replies, the outcomes and the job alone.
LEMMA Untouched ==
    ASSUME IInv, UNCHANGED <<replies, outcomes, job>>, drafts' \subseteq drafts
    PROVE  PlanInv' /\ AnsweredOnce' /\ SettledForAReason' /\ ActionedIsAnswered'
BY DEF IInv, PlanInv, Told, Settling, Answering, AnsweredOnce, SettledForAReason,
       ActionedIsAnswered

\* A reply that says nothing twice and is sound keeps what holds of replies.
LEMMA Grown ==
    ASSUME IInv, NEW a \in AnswerType, replies' = Append(replies, a),
           a.by = "reviewer" => ~Told(a.thread, a.head), a.sound,
           drafts' \subseteq drafts, outcomes' = outcomes
    PROVE  /\ replies' \in Seq(AnswerType)
           /\ AnsweredOnce' /\ SettledForAReason' /\ ActionedIsAnswered'
           /\ \A t, h : Told(t, h)' <=>
                 Told(t, h) \/ (a.by = "reviewer" /\ a.thread = t /\ a.head = h)
           /\ \A b : Settling(b) => Settling(b)'
           /\ a.by = "reviewer" /\ a.settles => Settling(a)'
<1>1. /\ Len(replies) \in Nat /\ DOMAIN replies = 1..Len(replies)
      /\ replies' \in Seq(AnswerType) /\ DOMAIN replies' = 1..(Len(replies) + 1)
      /\ \A i \in DOMAIN replies : replies'[i] = replies[i]
      /\ replies'[Len(replies) + 1] = a
  BY Appends DEF IInv, TypeOK
<1>2. /\ \A i \in DOMAIN replies : i \in DOMAIN replies' /\ i < Len(replies) + 1
      /\ \A i \in DOMAIN replies' : i \in DOMAIN replies \/ i = Len(replies) + 1
      /\ Len(replies) + 1 \in DOMAIN replies'
  BY <1>1
<1>3. \A t, h : Told(t, h)' <=>
                 Told(t, h) \/ (a.by = "reviewer" /\ a.thread = t /\ a.head = h)
  BY <1>1, <1>2 DEF Told
<1>4. AnsweredOnce'
  <2>. SUFFICES ASSUME NEW i \in DOMAIN replies', NEW j \in DOMAIN replies', i < j,
                       replies'[i].by = "reviewer", replies'[j].by = "reviewer",
                       replies'[i].thread = replies'[j].thread
                PROVE  replies'[i].head # replies'[j].head
    BY DEF AnsweredOnce
  <2>1. i \in DOMAIN replies
    BY <1>1
  <2>2. CASE j \in DOMAIN replies
    BY <1>1, <2>1, <2>2 DEF IInv, AnsweredOnce
  <2>3. CASE j = Len(replies) + 1
    BY <1>1, <2>1, <2>3 DEF Told
  <2>. QED
    BY <1>2, <2>2, <2>3
<1>5. SettledForAReason'
  BY <1>1, <1>2 DEF IInv, SettledForAReason
<1>6. ActionedIsAnswered'
  BY <1>1, <1>2 DEF IInv, ActionedIsAnswered
<1>7. \A b : Settling(b) => Settling(b)'
  BY <1>1, <1>2 DEF Settling
<1>8. a.by = "reviewer" /\ a.settles => Settling(a)'
  BY <1>1, <1>2 DEF Settling
<1>. QED
  BY <1>1, <1>3, <1>4, <1>5, <1>6, <1>7, <1>8
-----------------------------------------------------------------------------
(***************************************************************************)
(* The steps                                                               *)
(***************************************************************************)

\* The invariant holds before any job.
LEMMA InitHolds == Init => IInv
<1>. SUFFICES ASSUME Init PROVE IInv
  OBVIOUS
<1>1. TypeOK
  <2>1. <<>> \in Seq(AnswerType)
    BY EmptySeq
  <2>2. 1 \in 1..MaxHeads /\ 0 \in 0..MaxTroubles /\ 0 \in 0..MaxHands
    BY RecheckAssumption
  <2>3. published \in [mode : ReportModes, found : BOOLEAN]
    BY RecheckAssumption DEF Init
  <2>. QED
    BY <2>1, <2>2, <2>3 DEF Init, TypeOK
<1>2. DOMAIN replies = {}
  BY EmptySeq, LenProperties DEF Init
<1>3. PlanInv
  BY DEF Init, PlanInv, Idle, Answering
<1>4. AnsweredOnce /\ SettledForAReason /\ ActionedIsAnswered
  BY <1>2 DEF Init, AnsweredOnce, SettledForAReason, ActionedIsAnswered
<1>. QED
  BY <1>1, <1>3, <1>4 DEF IInv

\* People.
LEMMA HandsHold == ASSUME IInv, Hands PROVE IInv'
<1>1. CASE Push
  <2>1. TypeOK'
    BY <1>1, RecheckAssumption DEF IInv, TypeOK, results, Push, Jobs, bounds
  <2>. QED
    BY <1>1, <2>1, Untouched DEF Push, IInv
<1>2. CASE Close
  <2>1. TypeOK'
    BY <1>2, RecheckAssumption DEF IInv, TypeOK, results, Close
  <2>. QED
    BY <1>2, <2>1, Untouched DEF Close, IInv
<1>3. CASE \E t \in Threads : Toggle(t)
  <2>1. TypeOK'
    BY <1>3, RecheckAssumption DEF IInv, TypeOK, results, Toggle
  <2>. QED
    BY <1>3, <2>1, Untouched DEF Toggle, IInv
<1>4. CASE \E d \in drafts : PublishDraft(d)
  <2>1. PICK d \in drafts : PublishDraft(d)
    BY <1>4
  <2>. DEFINE a == [d EXCEPT !.by = "person"]
  <2>2. d \in AnswerType /\ d.sound
    BY DEF IInv, TypeOK, SettledForAReason
  <2>3. a \in AnswerType /\ a.by = "person" /\ a.sound
    BY <2>2 DEF AnswerType
  <2>4. /\ replies' \in Seq(AnswerType)
        /\ AnsweredOnce' /\ SettledForAReason' /\ ActionedIsAnswered'
        /\ \A t, h : Told(t, h)' <=> Told(t, h)
        /\ \A b : Settling(b) => Settling(b)'
    <3>. HIDE DEF a
    <3>1. replies' = Append(replies, a) /\ drafts' \subseteq drafts /\ outcomes' = outcomes
      BY <2>1 DEF PublishDraft, a
    <3>. QED
      BY <2>3, <3>1, Grown
  <2>5. TypeOK'
    <3>1. hands' \in 0..MaxHands
      BY <2>1, RecheckAssumption DEF IInv, TypeOK, results, PublishDraft
    <3>2. open' \subseteq Threads /\ drafts' \subseteq AnswerType
      BY <2>1 DEF IInv, TypeOK, results, PublishDraft
    <3>. QED
      BY <2>1, <2>4, <3>1, <3>2 DEF IInv, TypeOK, results, PublishDraft
  <2>6. PlanInv'
    BY <2>1, <2>4 DEF IInv, PlanInv, PublishDraft
  <2>. QED
    BY <2>4, <2>5, <2>6 DEF IInv
<1>5. CASE \E name \in Asks \cup Dismissals : Ask(name)
  <2>1. hands' \in 0..MaxHands
    BY <1>5, RecheckAssumption DEF IInv, TypeOK, Ask
  <2>2. TypeOK'
    BY <1>5, <2>1 DEF IInv, TypeOK, results, Ask, forge, Jobs
  <2>. QED
    BY <1>5, <2>2, Untouched DEF Ask, forge, IInv
<1>. QED
  BY <1>1, <1>2, <1>3, <1>4, <1>5 DEF Hands

\* A job begins.
Begun(name, mode, analysis, pc) ==
    [name |-> name, pc |-> pc, head |-> mr.head, mode |-> mode, analysis |-> analysis,
     seen |-> {}, answers |-> <<>>, judged |-> 0, found |-> FALSE]

\* A job that begins has read nothing and has nothing to say.
LEMMA Begins ==
    ASSUME TypeOK, NEW name \in Jobs, NEW mode \in ReportModes,
           NEW analysis \in Analyses \cup {Alone},
           NEW pc \in {"discussions", "finish", "dismiss"},
           pc = "dismiss" => name \in Dismissals,
           job' = Begun(name, mode, analysis, pc)
    PROVE  job' \in RunType /\ PlanInv'
<1>1. mr.head \in 1..MaxHeads /\ <<>> \in Seq(AnswerType) /\ 0 \in 0..MaxJudgements
  BY EmptySeq, RecheckAssumption DEF TypeOK
<1>2. job' \in RunType
  BY <1>1 DEF Begun, RunType, Steps
<1>3. job'.pc = pc /\ job'.answers = <<>> /\ job'.name = name
  BY DEF Begun
<1>4. PlanInv'
  BY <1>3 DEF PlanInv, Answering
<1>. QED
  BY <1>2, <1>4

\* The three ways in keep the invariant.
LEMMA StartsHold ==
    ASSUME IInv,
           \/ StartReview \/ \E name \in Asks : StartAlone(name)
           \/ \E t \in Dismissals : StartDismissal(t) \/ NotOurs(t)
    PROVE  IInv'
<1>1. CASE StartReview
  <2>1. \E mode \in Modes, analysis \in Analyses, pc \in {"discussions", "finish"} :
          job' = Begun(Review, mode, analysis, pc)
    BY ZenonT(30), <1>1 DEF StartReview, Begin, Begun
  <2>2. PICK mode \in ReportModes, analysis \in Analyses \cup {Alone},
             pc \in {"discussions", "finish"} :
          job' = Begun(Review, mode, analysis, pc)
    BY <2>1, RecheckAssumption
  <2>3. job' \in RunType /\ PlanInv'
    BY <2>2, Begins DEF Jobs, IInv
  <2>4. TypeOK'
    BY <1>1, <2>3 DEF StartReview, IInv, TypeOK, results, forge, bounds
  <2>. QED
    BY <1>1, <2>3, <2>4 DEF StartReview, IInv, forge, AnsweredOnce, SettledForAReason,
       ActionedIsAnswered
<1>2. CASE \E name \in Asks : StartAlone(name)
  <2>1. PICK name \in Asks : StartAlone(name)
    BY <1>2
  <2>2. PICK pc \in {"discussions", "finish"} :
          job' = Begun(name, published.mode, Alone, pc)
    BY <2>1 DEF StartAlone, Begin, Begun
  <2>3. published.mode \in ReportModes /\ name \in Jobs
    BY RecheckAssumption DEF IInv, TypeOK, Jobs
  <2>4. job' \in RunType /\ PlanInv'
    BY <2>2, <2>3, Begins DEF IInv
  <2>5. TypeOK'
    BY <2>1, <2>4 DEF StartAlone, IInv, TypeOK, results, forge, bounds
  <2>. QED
    BY <2>1, <2>4, <2>5 DEF StartAlone, IInv, forge, AnsweredOnce, SettledForAReason,
       ActionedIsAnswered
<1>3. CASE \E t \in Dismissals : StartDismissal(t)
  <2>1. PICK t \in Dismissals : StartDismissal(t)
    BY <1>3
  <2>2. job' = Begun(t, "applied", Alone, "dismiss") /\ t \in Jobs /\ "applied" \in ReportModes
    BY <2>1 DEF StartDismissal, Begin, Begun, Jobs, ReportModes
  <2>3. job' \in RunType /\ PlanInv'
    BY <2>2, Begins DEF IInv
  <2>4. TypeOK'
    BY <2>1, <2>3 DEF StartDismissal, IInv, TypeOK, results, bounds
  <2>. QED
    BY <2>1, <2>3, <2>4 DEF StartDismissal, IInv, AnsweredOnce, SettledForAReason,
       ActionedIsAnswered
<1>4. CASE \E t \in Dismissals : NotOurs(t)
  <2>1. TypeOK'
    BY <1>4 DEF NotOurs, IInv, TypeOK, results, forge, bounds
  <2>. QED
    BY <1>4, <2>1, Untouched DEF NotOurs, IInv, forge
<1>. QED
  BY <1>1, <1>2, <1>3, <1>4

\* The job reads what is in the threads and, if it drafts, the drafts.
LEMMA ReadingHolds == ASSUME IInv, ReadDiscussions \/ ReadDrafts PROVE IInv'
<1>1. job \in RunType
  BY DEF IInv, TypeOK, results, ReadDiscussions, ReadDrafts, Idle
<1>2. PICK seen \in SUBSET Threads, pc \in {"drafts", "evaluate"} :
        /\ job' = [job EXCEPT !.seen = seen, !.pc = pc]
        /\ \A t \in seen : ~Told(t, job.head)
  <2>1. CASE ReadDiscussions
    <3>1. Unanswered \in SUBSET Threads /\ \A t \in Unanswered : ~Told(t, job.head)
      BY DEF Unanswered, Answered, Told, IInv, TypeOK
    <3>. QED
      BY <2>1, <3>1 DEF ReadDiscussions
  <2>2. CASE ReadDrafts
    <3>1. /\ {t \in job.seen : ~Drafted(t, job.head)} \in SUBSET Threads
          /\ \A t \in job.seen : ~Told(t, job.head)
      BY <1>1, <2>2 DEF ReadDrafts, RunType, IInv, PlanInv
    <3>. QED
      BY <2>2, <3>1 DEF ReadDrafts
  <2>. QED
    BY <2>1, <2>2
<1>3. job.answers = <<>>
  BY DEF IInv, PlanInv, ReadDiscussions, ReadDrafts
<1>4. /\ job' \in RunType /\ job'.pc = pc /\ job'.seen = seen
      /\ job'.head = job.head /\ job'.answers = <<>>
  BY <1>1, <1>2, <1>3 DEF RunType, Steps
<1>5. PlanInv'
  <2>1. DOMAIN <<>> = {}
    OBVIOUS
  <2>2. \A t \in seen : ~Told(t, job.head)'
    BY <1>2 DEF Told, ReadDiscussions, ReadDrafts, forge
  <2>. QED
    BY <1>4, <2>1, <2>2 DEF PlanInv
<1>6. TypeOK'
  BY <1>4 DEF IInv, TypeOK, results, ReadDiscussions, ReadDrafts, forge, bounds
<1>. QED
  BY <1>5, <1>6 DEF IInv, ReadDiscussions, ReadDrafts, forge, AnsweredOnce,
     SettledForAReason, ActionedIsAnswered

\* A thread gets its verdict.
LEMMA Concludes ==
    ASSUME IInv, job.pc = "evaluate", job.seen # {},
           NEW verdict, NEW reason, NEW claimed \in BOOLEAN, NEW judged \in {0, 1},
           judged = 1 => job.judged < MaxJudgements,
           verdict \in Resolving => reason \in Resolving /\ ~claimed,
           Conclude(Min(job.seen), verdict, reason, claimed, judged),
           UNCHANGED <<forge, outcomes, published, queue, results, bounds>>
    PROVE  IInv'
<1>. DEFINE t == Min(job.seen)
            x == verdict \in Resolving
            y == verdict \in Resolving => reason \in Resolving /\ ~claimed
            a == [thread |-> t, head |-> job.head, by |-> "reviewer", settles |-> x,
                  sound |-> y]
<1>1. job \in RunType
  BY DEF IInv, TypeOK, Idle
<1>2. t \in job.seen /\ t \in Threads
  BY <1>1, MinIsIn DEF RunType
<1>3. /\ a \in AnswerType /\ a.thread = t /\ a.head = job.head /\ a.by = "reviewer"
      /\ a.sound
  <2>1. x \in BOOLEAN /\ y \in BOOLEAN /\ y
    OBVIOUS
  <2>2. job.head \in 1..MaxHeads
    BY <1>1 DEF RunType
  <2>. HIDE DEF t, x, y
  <2>. QED
    BY <1>2, <2>1, <2>2 DEF AnswerType
<1>4. PICK seen \in SUBSET Threads, n \in 0..MaxJudgements, found \in BOOLEAN :
        /\ job' = [job EXCEPT !.answers = Append(job.answers, a), !.seen = seen,
                              !.judged = n, !.found = found]
        /\ seen = job.seen \ {t}
  <2>1. /\ job.seen \ {t} \in SUBSET Threads /\ (job.found \/ claimed) \in BOOLEAN
        /\ job.judged + judged \in 0..MaxJudgements
    BY <1>1, RecheckAssumption DEF RunType
  <2>. QED
    BY <2>1 DEF Conclude
<1>. HIDE DEF a, t, x, y
<1>5. /\ job.answers \in Seq(AnswerType) /\ Len(job.answers) \in Nat
      /\ DOMAIN job.answers = 1..Len(job.answers)
      /\ Append(job.answers, a) \in Seq(AnswerType)
      /\ DOMAIN Append(job.answers, a) = 1..(Len(job.answers) + 1)
      /\ \A i \in DOMAIN job.answers : Append(job.answers, a)[i] = job.answers[i]
      /\ Append(job.answers, a)[Len(job.answers) + 1] = a
  <2>1. job.answers \in Seq(AnswerType)
    BY <1>1 DEF RunType
  <2>. QED
    BY <1>3, <2>1, Appends
<1>6. /\ job' \in RunType /\ job'.answers = Append(job.answers, a) /\ job'.seen = seen
      /\ job'.pc = "evaluate" /\ job'.head = job.head
  BY <1>1, <1>4, <1>5 DEF RunType
<1>7. /\ ~Told(t, job.head)
      /\ \A u \in seen : ~Told(u, job.head)
      /\ \A k \in DOMAIN job.answers :
            /\ job.answers[k].by = "reviewer" /\ job.answers[k].head = job.head
            /\ job.answers[k].sound /\ job.answers[k].thread \notin job.seen
            /\ ~Told(job.answers[k].thread, job.head)
      /\ \A j, k \in DOMAIN job.answers :
            j # k => job.answers[j].thread # job.answers[k].thread
  BY <1>2, <1>4 DEF IInv, PlanInv, Answering
<1>8. \A u, h : Told(u, h)' <=> Told(u, h)
  BY DEF Told, forge
<1>9. PlanInv'
  <2>1. \A k \in DOMAIN job'.answers :
          k \in DOMAIN job.answers \/ (k = Len(job.answers) + 1 /\ job'.answers[k] = a)
    BY <1>5, <1>6
  <2>2. \A k \in DOMAIN job.answers : job'.answers[k] = job.answers[k]
    BY <1>5, <1>6
  <2>3. \A k \in DOMAIN job'.answers :
          /\ job'.answers[k].by = "reviewer" /\ job'.answers[k].head = job.head
          /\ job'.answers[k].sound /\ job'.answers[k].thread \notin seen
          /\ ~Told(job'.answers[k].thread, job.head)
    BY <1>2, <1>3, <1>4, <1>7, <2>1, <2>2
  <2>4. \A j, k \in DOMAIN job'.answers :
          j # k => job'.answers[j].thread # job'.answers[k].thread
    BY <1>2, <1>3, <1>7, <2>1, <2>2
  <2>. QED
    BY <1>6, <1>7, <1>8, <2>3, <2>4 DEF PlanInv
<1>10. TypeOK'
  BY <1>6 DEF IInv, TypeOK, results, forge, bounds
<1>. QED
  BY <1>9, <1>10 DEF IInv, forge, AnsweredOnce, SettledForAReason, ActionedIsAnswered

\* An evaluation adds one sound answer, of a thread not answered yet.
LEMMA EvaluateHolds ==
    ASSUME IInv, NEW code \in Changes, NEW claimed \in BOOLEAN, Evaluate(code, claimed)
    PROVE  IInv'
<1>. DEFINE triaged == Triage(code, claimed)
<1>1. /\ Without(triaged) \in Resolving => triaged \in Resolving /\ ~claimed
      /\ \A said : Merged(triaged, said) \in Resolving => said \in Resolving /\ ~claimed
  <2>1. triaged \in Resolving \/ triaged = "open" => ~claimed
    BY DEF Triage, Resolving
  <2>. HIDE DEF triaged
  <2>2. Without(triaged) \in Resolving => triaged \in Resolving /\ ~claimed
    BY <2>1 DEF Without, Resolving
  <2>3. ASSUME NEW said, Merged(triaged, said) \in Resolving
        PROVE  said \in Resolving /\ ~claimed
    BY <2>1, <2>3 DEF Merged
  <2>. QED
    BY <2>2, <2>3
<1>2. /\ job.pc = "evaluate" /\ job.seen # {}
      /\ UNCHANGED <<forge, outcomes, published, queue, results, bounds>>
      /\ Judgeable(triaged) => job.judged < MaxJudgements
  BY DEF Evaluate, Judgeable
<1>3. \/ ~Judgeable(triaged) /\ Conclude(Min(job.seen), Without(triaged), triaged, claimed, 0)
      \/ Judgeable(triaged) /\ Conclude(Min(job.seen), Without(triaged), triaged, claimed, 1)
      \/ /\ Judgeable(triaged)
         /\ \E said \in Judgements :
               Conclude(Min(job.seen), Merged(triaged, said), said, claimed, 1)
  BY DEF Evaluate
<1>. HIDE DEF triaged
<1>4. CASE Conclude(Min(job.seen), Without(triaged), triaged, claimed, 0)
  BY <1>1, <1>2, <1>4, Concludes
<1>5. CASE Judgeable(triaged) /\ Conclude(Min(job.seen), Without(triaged), triaged, claimed, 1)
  BY <1>1, <1>2, <1>5, Concludes
<1>6. ASSUME Judgeable(triaged), NEW said \in Judgements,
             Conclude(Min(job.seen), Merged(triaged, said), said, claimed, 1)
      PROVE  IInv'
  BY <1>1, <1>2, <1>6, Concludes
<1>. QED
  BY <1>3, <1>4, <1>5, <1>6

\* The verdicts are in.
LEMMA CheckHeadHolds == ASSUME IInv, CheckHead PROVE IInv'
<1>1. job \in RunType /\ job.pc = "evaluate"
  BY DEF IInv, TypeOK, CheckHead, Idle
<1>2. PICK pc \in {"finish", "stale", "reply"} :
        /\ job' = [job EXCEPT !.analysis = Alone, !.judged = 0, !.pc = pc]
        /\ pc # "finish" => job.answers # <<>>
  BY DEF CheckHead
<1>3. /\ job' \in RunType /\ job'.pc = pc /\ job'.head = job.head
      /\ job'.answers = job.answers /\ job'.seen = job.seen
  <2>1. 0 \in 0..MaxJudgements /\ Alone \in Analyses \cup {Alone}
    BY RecheckAssumption
  <2>. QED
    BY <1>1, <1>2, <2>1 DEF RunType, Steps
<1>4. PlanInv'
  <2>1. \A t, h : Told(t, h)' <=> Told(t, h)
    BY DEF CheckHead, forge, Told
  <2>. QED
    BY <1>1, <1>2, <1>3, <2>1 DEF IInv, PlanInv, Answering
<1>5. TypeOK'
  BY <1>3 DEF IInv, TypeOK, results, CheckHead, forge, bounds
<1>. QED
  BY <1>4, <1>5 DEF IInv, CheckHead, forge, AnsweredOnce, SettledForAReason, ActionedIsAnswered

\* The job turns to the next answer: the others are still to be told.
LEMMA MovesOn ==
    ASSUME IInv, job.pc \in {"reply", "outcome"}, job' = NextAnswer,
           \A k \in DOMAIN job.answers : \A t, h :
               k > 1 /\ t = job.answers[k].thread /\ h = job.head => ~Told(t, h)'
    PROVE  job' \in RunType /\ PlanInv'
<1>1. job \in RunType /\ job.answers # <<>> /\ job.answers \in Seq(AnswerType)
  BY DEF IInv, TypeOK, PlanInv, Idle, RunType
<1>2. /\ Len(job.answers) \in Nat \ {0} /\ DOMAIN job.answers = 1..Len(job.answers)
      /\ Tail(job.answers) \in Seq(AnswerType)
      /\ DOMAIN Tail(job.answers) = 1..(Len(job.answers) - 1)
      /\ \A i \in 1..(Len(job.answers) - 1) : Tail(job.answers)[i] = job.answers[i + 1]
      /\ Len(job.answers) # 1 => Tail(job.answers) # <<>>
  BY <1>1, Tails
<1>3. PICK pc \in {"answered", "reply"} :
        /\ job' = [job EXCEPT !.answers = Tail(job.answers), !.pc = pc]
        /\ pc = "reply" => Tail(job.answers) # <<>>
  BY <1>2 DEF NextAnswer
<1>4. /\ job' \in RunType /\ job'.pc = pc /\ job'.head = job.head /\ job'.seen = job.seen
      /\ job'.answers = Tail(job.answers)
  BY <1>1, <1>2, <1>3 DEF RunType, Steps
<1>5. /\ \A k \in DOMAIN job.answers :
            /\ job.answers[k].by = "reviewer" /\ job.answers[k].head = job.head
            /\ job.answers[k].sound /\ job.answers[k].thread \notin job.seen
      /\ \A j, k \in DOMAIN job.answers :
            j # k => job.answers[j].thread # job.answers[k].thread
  BY DEF IInv, PlanInv, Answering
<1>6. ASSUME NEW k \in DOMAIN job'.answers
      PROVE  /\ k + 1 \in DOMAIN job.answers /\ k + 1 > 1
             /\ job'.answers[k] = job.answers[k + 1]
  BY <1>2, <1>4
<1>7. \A j, k \in DOMAIN job'.answers : j # k => j + 1 # k + 1
  BY <1>2, <1>4
<1>8. PlanInv'
  <2>1. \A k \in DOMAIN job'.answers :
          /\ job'.answers[k].by = "reviewer" /\ job'.answers[k].head = job.head
          /\ job'.answers[k].sound /\ job'.answers[k].thread \notin job.seen
          /\ \A t, h : t = job'.answers[k].thread /\ h = job'.head => ~Told(t, h)'
    BY <1>4, <1>5, <1>6
  <2>2. \A j, k \in DOMAIN job'.answers :
          j # k => job'.answers[j].thread # job'.answers[k].thread
    BY <1>5, <1>6, <1>7
  <2>. QED
    BY <1>3, <1>4, <2>1, <2>2 DEF PlanInv
<1>. QED
  BY <1>4, <1>8

\* Drafting an answer, or replying with it, and what follows a resolution.
LEMMA AnswersHold ==
    ASSUME IInv, Draft \/ Reply \/ Resolve \/ Record PROVE IInv'
<1>1. job \in RunType /\ job.pc \in {"reply", "resolve", "outcome"}
  BY DEF IInv, TypeOK, Draft, Reply, Resolve, Record, Idle
<1>2. PICK a \in AnswerType :
        /\ job.answers \in Seq(AnswerType) /\ job.answers # <<>>
        /\ 1 \in DOMAIN job.answers /\ Answer = a /\ job.answers[1] = a
  <2>1. job.answers \in Seq(AnswerType) /\ job.answers # <<>>
    BY <1>1 DEF RunType, IInv, PlanInv
  <2>. QED
    BY <2>1, Tails DEF Answer
<1>3. /\ a.by = "reviewer" /\ a.head = job.head /\ a.sound
      /\ job.pc = "reply" => ~Told(a.thread, a.head)
      /\ job.pc \in {"resolve", "outcome"} => Settling(a)
      /\ \A k \in DOMAIN job.answers :
            k > 1 => /\ job.answers[k].thread # a.thread
                     /\ ~Told(job.answers[k].thread, job.head)
  BY <1>1, <1>2 DEF IInv, PlanInv, Answering
<1>4. CASE Draft
  <2>1. \A t, h : Told(t, h)' <=> Told(t, h)
    BY <1>4 DEF Draft, Told
  <2>2. job' \in RunType /\ PlanInv'
    BY <1>3, <1>4, <2>1, MovesOn DEF Draft
  <2>3. TypeOK'
    BY <1>2, <1>4, <2>2 DEF Draft, IInv, TypeOK, results, bounds
  <2>4. SettledForAReason'
    BY <1>2, <1>3, <1>4 DEF Draft, IInv, SettledForAReason
  <2>. QED
    BY <1>4, <2>2, <2>3, <2>4 DEF Draft, IInv, AnsweredOnce, ActionedIsAnswered
<1>5. CASE Reply
  <2>1. /\ replies' \in Seq(AnswerType)
        /\ AnsweredOnce' /\ SettledForAReason' /\ ActionedIsAnswered'
        /\ \A t, h : Told(t, h)' <=> Told(t, h) \/ (a.thread = t /\ a.head = h)
        /\ a.settles => Settling(a)'
    BY <1>2, <1>3, <1>5, Grown DEF Reply
  <2>2. job' \in RunType /\ PlanInv'
    <3>1. CASE ~a.settles
      BY <1>2, <1>3, <1>5, <2>1, <3>1, MovesOn DEF Reply
    <3>2. CASE a.settles
      <4>1. job' = [job EXCEPT !.pc = "resolve"]
        BY <1>2, <1>5, <3>2 DEF Reply
      <4>2. /\ job' \in RunType /\ job'.answers = job.answers /\ job'.head = job.head
            /\ job'.seen = job.seen /\ job'.pc = "resolve"
        BY <1>1, <4>1 DEF RunType, Steps
      <4>3. job'.answers[1] = a /\ Settling(a)'
        BY <1>2, <2>1, <3>2, <4>2
      <4>4. PlanInv'
        BY <1>2, <1>3, <1>5, <2>1, <4>2, <4>3
           DEF IInv, PlanInv, Answering, Reply, Settling
      <4>. QED
        BY <4>2, <4>4
    <3>. QED
      BY <3>1, <3>2
  <2>3. TypeOK'
    BY <1>5, <2>1, <2>2 DEF Reply, IInv, TypeOK, results, bounds
  <2>. QED
    BY <2>1, <2>2, <2>3 DEF IInv
<1>6. CASE Resolve
  <2>1. job' = [job EXCEPT !.pc = "outcome"]
    BY <1>6 DEF Resolve
  <2>2. /\ job' \in RunType /\ job'.answers = job.answers /\ job'.head = job.head
        /\ job'.seen = job.seen /\ job'.pc = "outcome"
    BY <1>1, <2>1 DEF RunType, Steps
  <2>3. /\ \A t, h : Told(t, h)' <=> Told(t, h)
        /\ \A b : Settling(b)' <=> Settling(b)
    BY <1>6 DEF Resolve, Told, Settling
  <2>4. PlanInv'
    BY <1>6, <2>2, <2>3 DEF IInv, PlanInv, Answering, Resolve
  <2>5. TypeOK'
    BY <1>6, <2>2 DEF Resolve, IInv, TypeOK, results, bounds
  <2>. QED
    BY <1>6, <2>4, <2>5 DEF Resolve, IInv, AnsweredOnce, SettledForAReason, ActionedIsAnswered
<1>7. CASE Record
  <2>1. \A t, h : Told(t, h)' <=> Told(t, h)
    BY <1>7 DEF Record, Told, forge
  <2>2. job' \in RunType /\ PlanInv'
    BY <1>3, <1>7, <2>1, MovesOn DEF Record
  <2>3. a.thread \in Threads
    BY <1>2 DEF AnswerType
  <2>4. TypeOK'
    BY <1>2, <1>7, <2>2, <2>3 DEF Record, IInv, TypeOK, results, forge, bounds
  <2>5. ActionedIsAnswered'
    BY <1>2, <1>3, <1>7 DEF Record, forge, IInv, ActionedIsAnswered, Settling
  <2>. QED
    BY <1>7, <2>2, <2>4, <2>5 DEF Record, forge, IInv, AnsweredOnce, SettledForAReason
<1>. QED
  BY <1>4, <1>5, <1>6, <1>7

\* The job ends, or its worker dies.
LEMMA EndsHold ==
    ASSUME IInv, PublishReview \/ DropReview \/ RecordAnswer \/ TimeOut \/ Dismissed \/ Crash
    PROVE  IInv'
<1>1. job' = Idle /\ UNCHANGED <<forge>>
  BY DEF PublishReview, DropReview, RecordAnswer, TimeOut, Dismissed, Crash
<1>2. PlanInv'
  BY <1>1 DEF PlanInv, Idle, Answering
<1>3. AnsweredOnce' /\ SettledForAReason'
  BY <1>1 DEF IInv, forge, AnsweredOnce, SettledForAReason
<1>4. job \in RunType
  BY DEF IInv, TypeOK, results, PublishReview, DropReview, RecordAnswer, Over, TimeOut, Standalone,
     Dismissed, Crash, Idle
<1>5. CASE PublishReview
  <2>1. published' \in [mode : ReportModes, found : BOOLEAN]
    BY <1>4, <1>5 DEF PublishReview, RunType
  <2>2. TypeOK'
    BY <1>1, <1>5, <2>1 DEF PublishReview, IInv, TypeOK, results, forge, bounds
  <2>. QED
    BY <1>2, <1>3, <1>5, <2>2 DEF PublishReview, IInv, forge, ActionedIsAnswered
<1>6. CASE DropReview
  <2>1. TypeOK'
    BY <1>1, <1>6 DEF DropReview, IInv, TypeOK, results, forge, bounds
  <2>. QED
    BY <1>2, <1>3, <1>6, <2>1 DEF DropReview, IInv, forge, ActionedIsAnswered
<1>7. CASE RecordAnswer
  <2>1. TypeOK'
    BY <1>1, <1>7 DEF RecordAnswer, Over, Standalone, IInv, TypeOK, results, forge, bounds
  <2>. QED
    BY <1>2, <1>3, <1>7, <2>1 DEF RecordAnswer, IInv, forge, ActionedIsAnswered
<1>8. CASE Dismissed
  <2>1. job.name \in Dismissals
    BY <1>8 DEF Dismissed, IInv, PlanInv
  <2>2. TypeOK'
    <3>1. <<job.name, "dismissed">> \in Threads \X {"actioned", "dismissed"}
      BY <2>1, RecheckAssumption
    <3>. QED
      BY <1>1, <1>8, <2>1, <3>1 DEF Dismissed, IInv, TypeOK, results, forge, bounds
  <2>. QED
    BY <1>2, <1>3, <1>8, <2>2 DEF Dismissed, IInv, forge, ActionedIsAnswered
<1>9. CASE Crash
  <2>1. TypeOK'
    BY <1>1, <1>4, <1>9, RecheckAssumption DEF Crash, IInv, TypeOK, results, forge, RunType
  <2>. QED
    BY <1>2, <1>3, <1>9, <2>1 DEF Crash, IInv, forge, ActionedIsAnswered
<1>10. CASE TimeOut
  <2>1. TypeOK'
    BY <1>1, <1>10, RecheckAssumption DEF TimeOut, Standalone, IInv, TypeOK, forge
  <2>. QED
    BY <1>2, <1>3, <1>10, <2>1 DEF TimeOut, IInv, forge, ActionedIsAnswered
<1>. QED
  BY <1>5, <1>6, <1>7, <1>8, <1>9, <1>10

\* A request is turned away before its recheck begins.
LEMMA TurnedAwayHolds == ASSUME IInv, NEW name \in Asks, TurnedAway(name) PROVE IInv'
<1>1. TypeOK'
  BY RecheckAssumption DEF TurnedAway, IInv, TypeOK, forge
<1>. QED
  BY <1>1, Untouched DEF TurnedAway, IInv, forge

\* A call fails, its reply posted or not.
LEMMA FailsHold == ASSUME IInv, CallFails PROVE IInv'
<1>1. job \in RunType
  BY DEF IInv, TypeOK, results, CallFails, Idle
<1>2. job' \in RunType /\ PlanInv'
  <2>1. job' \in RunType /\ job'.pc = "failed"
    BY <1>1 DEF CallFails, RunType, Steps
  <2>. QED
    BY <2>1 DEF PlanInv, Answering
<1>3. /\ replies' \in Seq(AnswerType)
      /\ AnsweredOnce' /\ SettledForAReason' /\ ActionedIsAnswered'
  <2>1. CASE replies' = replies
    BY <2>1 DEF CallFails, IInv, TypeOK, results, AnsweredOnce, SettledForAReason, ActionedIsAnswered
  <2>2. CASE job.pc = "reply" /\ replies' = Append(replies, Answer)
    <3>1. job.answers \in Seq(AnswerType) /\ job.answers # <<>>
      BY <1>1, <2>2 DEF RunType, IInv, PlanInv
    <3>2. /\ Answer = job.answers[1] /\ Answer \in AnswerType
          /\ 1 \in DOMAIN job.answers
      BY <3>1, Tails DEF Answer
    <3>3. ~Told(Answer.thread, Answer.head) /\ Answer.sound
      BY <2>2, <3>2 DEF IInv, PlanInv, Answering
    <3>. QED
      BY <2>2, <3>2, <3>3, Grown DEF CallFails
  <2>. QED
    BY <2>1, <2>2 DEF CallFails
<1>4. TypeOK'
  <2>1. open' \subseteq Threads
    BY DEF CallFails, IInv, TypeOK, results
  <2>2. troubles' \in 0..MaxTroubles
    BY RecheckAssumption DEF CallFails, IInv, TypeOK
  <2>. QED
    BY <1>2, <1>3, <2>1, <2>2 DEF CallFails, IInv, TypeOK, results
<1>. QED
  BY <1>2, <1>3, <1>4 DEF IInv

\* Every step keeps the invariant.
LEMMA StepHolds == ASSUME IInv, [Next]_vars PROVE IInv'
<1>1. CASE UNCHANGED vars
  <2>1. TypeOK'
    BY <1>1 DEF IInv, TypeOK, results, vars, forge, bounds
  <2>. QED
    BY <1>1, <2>1, Untouched DEF IInv, vars, forge, bounds
<1>2. CASE Hands
  BY <1>2, HandsHold
<1>3. CASE Work
  BY <1>3, StartsHold, ReadingHolds, EvaluateHolds, CheckHeadHolds, AnswersHold, EndsHold
     DEF Work
<1>4. CASE CallFails \/ Crash \/ TimeOut
  BY <1>4, FailsHold, EndsHold
<1>5. CASE \E name \in Asks : TurnedAway(name)
  BY <1>5, TurnedAwayHolds
<1>. QED
  BY <1>1, <1>2, <1>3, <1>4, <1>5 DEF Next

\* The invariant holds in every reachable state.
LEMMA Invariance == Spec => []IInv
BY InitHolds, StepHolds, PTL DEF Spec
-----------------------------------------------------------------------------
\* In every behaviour every variable has its type: the job under the lock knows
\* threads, answers and a judgement count within its bound.
THEOREM TypeCorrect == Spec => []TypeOK
BY Invariance, PTL DEF IInv

\* However often a recheck is asked for, retried, cut off or overtaken by a push,
\* no thread gets two replies of the reviewer's own for one head (README:361).
THEOREM AnsweredOnceAlways == Spec => []AnsweredOnce
BY Invariance, PTL DEF IInv

\* No answer or draft settles a thread without the diff or a judge saying so, or
\* one whose claim the review still reports (README:358).
THEOREM SettledForAReasonAlways == Spec => []SettledForAReason
BY Invariance, PTL DEF IInv

\* An actioned outcome rests on a settling reply of the reviewer's own
\* (README:348).
THEOREM ActionedIsAnsweredAlways == Spec => []ActionedIsAnswered
BY Invariance, PTL DEF IInv
=============================================================================
