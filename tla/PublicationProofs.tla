--------------------------- MODULE PublicationProofs ---------------------------
(***************************************************************************)
(* Theorems about Publication for any findings, ceiling, report modes and  *)
(* any number of notes, requests, crashes and things done by hand.         *)
(***************************************************************************)
EXTENDS Publication, FiniteSetTheorems, WellFoundedInduction, TLAPS

-----------------------------------------------------------------------------
(***************************************************************************)
(* The inductive invariant                                                 *)
(***************************************************************************)

\* What GitLab holds: a thread of a finding is never a plain note, and only
\* what was posted may appear late.
NotesInv ==
    \A n \in Ids :
       /\ notes[n].key \in Inline => notes[n].kind # "plain"
       /\ notes[n].kind = "unused" => ~notes[n].late

\* Who is at which step: a refresh goes through one reconciliation, and only a
\* request of the owner has anything to do between two.
StepInv ==
    /\ job.pc \in {"sync", "discussions"} =>
          \/ job.by \in Actions /\ job.left \in 1..3
          \/ job.by = "inspect" /\ job.left = 1
    /\ job.pc \in {"act", "send"} => job.by \in Actions /\ job.left = 1
    /\ job.pc \in {"drafts", "comment", "post", "report"} => job.by = "publish"
    /\ job.pc = "post" /\ job.key # Summary => job.slots > 0

\* There is an identifier for what is about to be posted.
RoomInv ==
    job.pc \in {"post", "send"} => \E n \in Ids : notes[n].kind = "unused"

\* Nobody removed, or wants removed, what is about to be posted; a thread that
\* is about to be resolved has its receipt.
WantedInv ==
    /\ job.pc \in {"post", "send"} /\ job.by = "publish" =>
          rows[job.key].status # "removed" /\ rows[job.key].intent # "remove"
    /\ job.pc = "send" /\ job.by = "resolve" =>
          rows[job.key].status = "committed"

IInv == TypeOK /\ NotesInv /\ StepInv /\ RoomInv /\ WantedInv

Kinds == {"unused", "draft", "open", "resolved", "plain", "gone"}
NoteType == [key : Keys, late : BOOLEAN, kind : Kinds]
NotesOK == notes \in [Ids -> NoteType] /\ NotesInv
RowsOK == rows \in [Keys -> RowType]
JobOK == job \in JobType /\ StepInv /\ RoomInv /\ WantedInv
RestOK ==
    /\ mode \in Modes /\ mr \in {"current", "closed", "moved"}
    /\ review \in {"running", "published", "over"}
    /\ drift \subseteq Ids
    /\ hands \in 0..MaxHands /\ requests \in 0..MaxRequests
    /\ crashes \in 0..MaxCrashes

\* What a write of the job may leave of the notes.
Written(after) ==
    /\ after \in [Ids -> NoteType]
    /\ \A n \in Ids :
          /\ after[n].key \in Inline => after[n].kind # "plain"
          /\ after[n].kind = "unused" => ~after[n].late
          /\ notes[n].kind = "unused" /\ after[n].kind # "unused"
                => after[n].key = job.key /\ job.by = "publish"

\* What a step may make: the comment under way, and that at its post.
MadeUnderWay ==
    \A n \in Ids : Working /\ Makes(n) =>
       /\ notes'[n].key = job.key
       /\ job.pc \in {"post", "send"} /\ job.by = "publish"

\* The body of RemovedStaysRemoved.
RemovedStep ==
    \A n \in Ids : Working /\ Makes(n)
       => /\ rows[notes'[n].key].status # "removed"
          /\ rows[notes'[n].key].intent # "remove"
-----------------------------------------------------------------------------
(***************************************************************************)
(* The operators                                                           *)
(***************************************************************************)

\* What the constants are, in the form the steps below use.
LEMMA Bounds ==
    /\ Cap \in Nat /\ MaxNotes \in Nat /\ MaxHands \in Nat
    /\ MaxRequests \in Nat /\ MaxCrashes \in Nat
    /\ Ids \subseteq Nat \ {0}
    /\ Ids \subseteq 0..MaxNotes /\ 0 \in 0..MaxNotes
    /\ Summary \in Keys /\ Inline \subseteq Keys
  BY PublicationAssumption DEF Ids, Keys

\* Sets of notes and of findings are finite.
LEMMA SetsAreFinite ==
    ASSUME NEW S, S \subseteq Ids \/ S \subseteq Inline
    PROVE  IsFiniteSet(S) /\ Cardinality(S) \in Nat
<1>1. IsFiniteSet(Ids)
  BY Bounds, FS_Interval DEF Ids
<1>2. IsFiniteSet(Inline)
  BY PublicationAssumption
<1>3. IsFiniteSet(S)
  BY <1>1, <1>2, FS_Subset
<1>. QED
  BY <1>3, FS_CardinalityType

\* An identifier that is not used is chosen.
LEMMA NewIsUnused ==
    ASSUME \E n \in Ids : notes[n].kind = "unused"
    PROVE  New \in Ids /\ notes[New].kind = "unused"
<1>. DEFINE free == {n \in Ids : notes[n].kind = "unused"}
            below == {ss \in Nat \X Nat : ss[1] < ss[2]}
<1>1. free \subseteq Nat /\ free # {}
  BY Bounds
<1>2. IsWellFoundedOn(below, Nat)
  BY NatLessThanWellFounded, Zenon DEF OpToRel
<1>3. \E n \in free : \A m \in free : <<m, n>> \notin below
  <2>. HIDE DEF free, below
  <2>. QED
    BY <1>1, <1>2, WFMin
<1>4. PICK n \in free : \A m \in free : <<m, n>> \notin below
  BY <1>3
<1>5. ASSUME NEW m \in free PROVE n <= m
  <2>1. m \in Nat /\ n \in Nat /\ <<m, n>> \notin below
    BY <1>1, <1>4
  <2>2. m < n => <<m, n>> \in below
    BY <2>1
  <2>. QED
    BY <2>1, <2>2
<1>. QED
  BY <1>5 DEF New

\* With room, one identifier can be used and another is left.
LEMMA RoomIsTwo ==
    ASSUME HasRoom, NEW n
    PROVE  \E m \in Ids : m # n /\ notes[m].kind = "unused"
<1>. DEFINE free == {m \in Ids : notes[m].kind = "unused"}
<1>1. SUFFICES ASSUME free \subseteq {n} PROVE FALSE
  OBVIOUS
<1>2. Cardinality(free) <= 1
  <2>1. IsFiniteSet({n}) /\ Cardinality({n}) = 1
    BY FS_Singleton
  <2>. QED
    BY <1>1, <2>1, FS_Subset
<1>3. Cardinality(free) \in Nat
  BY SetsAreFinite
<1>. QED
  BY <1>2, <1>3 DEF HasRoom

\* The room left is a number within the ceiling.
LEMMA SlotsType ==
    ASSUME NEW room \in Int, room <= Cap, NEW drafts
    PROVE  Slots(room, drafts) \in 0..Cap
<1>1. Cardinality(KeysOf(drafts) \cap Inline) \in Nat
  BY SetsAreFinite
<1>. QED
  BY <1>1, Bounds DEF Slots

\* A note that is made is the new one, and the others stay.
LEMMA CreatedNotes ==
    ASSUME NotesOK, NEW k \in Keys, NEW kind \in Kinds \ {"unused"},
           NEW late \in BOOLEAN, k \in Inline => kind # "plain"
    PROVE  /\ Created(k, kind, late) \in [Ids -> NoteType]
           /\ \A n \in Ids :
                 \/ Created(k, kind, late)[n] = notes[n]
                 \/ /\ n = New
                    /\ Created(k, kind, late)[n]
                          = [key |-> k, kind |-> kind, late |-> late]
<1>1. [key |-> k, kind |-> kind, late |-> late] \in NoteType
  BY DEF NoteType
<1>. QED
  BY <1>1 DEF Created, NotesOK
-----------------------------------------------------------------------------
(***************************************************************************)
(* The notes                                                               *)
(***************************************************************************)

\* A note the publisher creates is a write of one note.
LEMMA CreatedIsWritten ==
    ASSUME IInv, job.by = "publish", NEW kind \in Kinds \ {"unused"},
           NEW late \in BOOLEAN, job.key \in Inline => kind # "plain"
    PROVE  Written(Created(job.key, kind, late))
<1>1. NotesOK /\ job.key \in Keys
  BY DEF IInv, TypeOK, JobType, NotesOK, NoteType, Kinds
<1>. DEFINE after == Created(job.key, kind, late)
<1>2. /\ after \in [Ids -> NoteType]
      /\ \A n \in Ids :
            \/ after[n] = notes[n]
            \/ after[n] = [key |-> job.key, kind |-> kind, late |-> late]
  BY <1>1, CreatedNotes
<1>. QED
  BY <1>1, <1>2 DEF Written, NotesOK, NotesInv

\* Whatever is posted has a kind; what is posted of a finding is no plain note.
LEMMA NoteKinds ==
    ASSUME NEW k \in Keys
    PROVE  /\ PublishedKind(k) \in Kinds \ {"unused"}
           /\ PostKind(k) \in Kinds \ {"unused"}
           /\ k \in Inline => PublishedKind(k) # "plain" /\ PostKind(k) # "plain"
  BY PublicationAssumption DEF PublishedKind, PostKind, Kinds

\* So is a post of the publisher that is not answered.
LEMMA UnansweredIsWritten ==
    ASSUME IInv, job.by = "publish", NEW kind \in Kinds \ {"unused"},
           job.key \in Inline => kind # "plain", NEW by,
           NEW after \in Unanswered(job.key, kind, by)
    PROVE  Written(after)
<1>1. CASE after = notes
  BY <1>1 DEF IInv, TypeOK, NotesInv, Written, NoteType, Kinds
<1>2. CASE \E late \in BOOLEAN : after = Created(job.key, kind, late)
  BY <1>2, CreatedIsWritten
<1>. QED
  BY <1>1, <1>2 DEF Unanswered

\* A write asked by the owner changes a note that is there, or makes the new
\* comment.
LEMMA AskedIsWritten ==
    ASSUME IInv, job.pc = "send", Possible(job.key, job.by)
    PROVE  Written(Asked(job.key, job.by))
<1>. DEFINE k == job.key
            row == rows[k]
            after == Asked(k, job.by)
            changed(n, kind) == [notes EXCEPT ![n].kind = kind]
<1>1. /\ k \in Keys /\ job.by \in Actions
      /\ notes \in [Ids -> NoteType]
      /\ NotesInv
  BY DEF IInv, TypeOK, JobType, StepInv, NoteType, Kinds
<1>2. ASSUME NEW n \in Visible, NEW kind \in {"resolved", "gone"}
      PROVE  Written(changed(n, kind))
  <2>1. n \in Ids /\ notes[n].kind # "unused"
    BY <1>2 DEF Visible
  <2>2. changed(n, kind) \in [Ids -> NoteType]
    BY <1>1, <2>1 DEF NoteType, Kinds
  <2>3. \A m \in Ids :
           \/ changed(n, kind)[m] = notes[m]
           \/ m = n /\ changed(n, kind)[m].kind = kind
    BY <1>1, <2>1 DEF NoteType
  <2>. QED
    BY <1>1, <2>1, <2>2, <2>3 DEF Written, NotesInv
<1>3. CASE job.by = "resolve"
  <2>1. row.note \in Visible
    BY <1>3 DEF Possible, Creates, Target, IInv, WantedInv
  <2>2. after = changed(row.note, "resolved")
    BY <1>3 DEF Asked
  <2>3. Written(changed(row.note, "resolved"))
    BY <1>2, <2>1
  <2>. QED
    BY <2>2, <2>3, Zenon
<1>4. CASE job.by = "remove"
  <2>1. Target(row) \in Visible
    BY <1>4 DEF Possible, Creates
  <2>2. after = changed(Target(row), "gone")
    BY <1>4 DEF Asked
  <2>3. Written(changed(Target(row), "gone"))
    BY <1>2, <2>1
  <2>. QED
    BY <2>2, <2>3, Zenon
<1>5. CASE job.by = "publish" /\ row.status = "drafted"
  <2>. DEFINE made == Created(k, PublishedKind(k), FALSE)
  <2>1. row.draft \in Visible
    BY <1>5 DEF Possible, Creates, Target
  <2>2. row.draft \in Ids /\ notes[row.draft].kind # "unused"
    BY <2>1 DEF Visible
  <2>3. Written(made)
    BY <1>1, <1>5, NoteKinds, CreatedIsWritten
  <2>4. after = [made EXCEPT ![row.draft].kind = "gone"]
    BY <1>5 DEF Asked
  <2>. HIDE DEF made, after
  <2>5. after \in [Ids -> NoteType]
    BY <2>2, <2>3, <2>4 DEF Written, NoteType, Kinds
  <2>6. \A n \in Ids :
           \/ after[n] = made[n]
           \/ n = row.draft /\ after[n].kind = "gone"
    BY <2>2, <2>3, <2>4 DEF Written, NoteType
  <2>7. Written(after)
    BY <2>2, <2>3, <2>5, <2>6 DEF Written
  <2>. QED
    BY <2>7 DEF after
<1>6. CASE job.by = "publish" /\ row.status # "drafted"
  BY <1>1, <1>6, NoteKinds, CreatedIsWritten DEF Asked
<1>. QED
  BY <1>1, <1>3, <1>4, <1>5, <1>6 DEF Actions

\* So is one of a request.
LEMMA UnheardIsWritten ==
    ASSUME IInv, job.pc = "send", NEW after \in Unheard(job.key, job.by)
    PROVE  Written(after)
<1>1. job.key \in Keys
  BY DEF IInv, TypeOK, JobType
<1>2. CASE after = notes
  BY <1>2 DEF IInv, TypeOK, NotesInv, Written, NoteType, Kinds
<1>3. CASE /\ Creates(job.key, job.by)
           /\ after \in Unanswered(job.key, PublishedKind(job.key), "act")
  BY <1>1, <1>3, NoteKinds, UnansweredIsWritten DEF Creates
<1>4. CASE Possible(job.key, job.by) /\ after = Asked(job.key, job.by)
  BY <1>4, AskedIsWritten
<1>. QED
  BY <1>2, <1>3, <1>4 DEF Unheard

\* What users do in GitLab, and what appears late.
ByUsers ==
    \/ Land \/ HandChange
    \/ \E n \in Ids :
          HandResolve(n) \/ HandReopen(n) \/ HandDelete(n) \/ HandPublish(n)

\* A draft that users publish leaves the room the job counts on.
LEMMA HandPublishKeeps ==
    ASSUME IInv, NEW n \in Ids, HandPublish(n)
    PROVE  NotesOK' /\ \E m \in Ids : notes'[m].kind = "unused"
<1>. DEFINE k == notes[n].key
            made == Created(k, PublishedKind(k), FALSE)
<1>1. NotesOK /\ k \in Keys
  BY DEF IInv, TypeOK, NotesOK, NoteType, Kinds
<1>2. /\ made \in [Ids -> NoteType]
      /\ \A m \in Ids :
            \/ made[m] = notes[m]
            \/ /\ m = New
               /\ made[m] = [key |-> k, kind |-> PublishedKind(k), late |-> FALSE]
  BY <1>1, NoteKinds, CreatedNotes
<1>3. notes' = [made EXCEPT ![n].kind = "gone"] /\ notes[n].kind = "draft"
  BY DEF HandPublish, Drafts
<1>4. /\ notes' \in [Ids -> NoteType]
      /\ \A m \in Ids : \/ m # n /\ notes'[m] = made[m]
                        \/ m = n /\ notes'[m].kind = "gone"
  BY <1>2, <1>3 DEF NoteType, Kinds
<1>5. /\ k \in Inline => PublishedKind(k) # "plain"
      /\ PublishedKind(k) # "unused"
  BY <1>1, NoteKinds
<1>6. NotesInv'
  <2>. HIDE DEF made
  <2>1. ASSUME NEW m \in Ids
        PROVE  /\ made[m].key \in Inline => made[m].kind # "plain"
               /\ made[m].kind = "unused" => ~made[m].late
    BY <1>1, <1>2, <1>5 DEF NotesOK, NotesInv
  <2>. QED
    BY <1>4, <2>1 DEF NotesInv
<1>7. PICK m \in Ids : m # New /\ notes[m].kind = "unused"
  BY RoomIsTwo DEF HandPublish
<1>8. notes'[m].kind = "unused"
  BY <1>2, <1>3, <1>4, <1>7
<1>. QED
  BY <1>4, <1>6, <1>8 DEF NotesOK

\* Users in GitLab touch notes, the merge request and their own history only.
LEMMA UsersKeep ==
    ASSUME IInv, ByUsers
    PROVE  /\ NotesOK' /\ RoomInv'
           /\ UNCHANGED <<mode, rows, review, job, requests, crashes>>
           /\ drift' \subseteq Ids /\ mr' \in {"current", "closed", "moved"}
           /\ hands' \in 0..MaxHands
<1>. USE DEF Kinds
<1>1. /\ notes \in [Ids -> NoteType] /\ NotesInv /\ RoomInv
      /\ drift \subseteq Ids /\ mr \in {"current", "closed", "moved"}
      /\ hands \in 0..MaxHands
  BY DEF IInv, TypeOK, NoteType
<1>0. Land \/ ByHand
  BY DEF ByUsers, HandChange, HandResolve, HandReopen, HandDelete, HandPublish
<1>2. UNCHANGED <<mode, rows, review, job, requests, crashes>>
  BY <1>0 DEF Land, ByHand, bounds
<1>3. hands' \in 0..MaxHands
  <2>1. CASE Land
    BY <1>1, <2>1 DEF Land, bounds
  <2>2. CASE ByHand
    BY <1>1, <2>2, Bounds DEF ByHand
  <2>. QED
    BY <1>0, <2>1, <2>2
<1>4. mr' \in {"current", "closed", "moved"}
  <2>1. mr' = mr \/ HandChange
    BY DEF ByUsers, Land, HandResolve, HandReopen, HandDelete, HandPublish
  <2>. QED
    BY <1>1, <2>1 DEF HandChange
<1>5. drift' \subseteq Ids
  <2>1. ASSUME NEW n \in Ids, HandPublish(n) PROVE drift' \subseteq Ids
    <3>1. New \in Ids
      BY <2>1, RoomIsTwo, NewIsUnused DEF HandPublish
    <3>. QED
      BY <1>1, <2>1, <3>1 DEF HandPublish
  <2>. QED
    BY <1>1, <2>1 DEF ByUsers, Land, HandChange, HandResolve, HandReopen,
                      HandDelete
<1>6. NotesOK' /\ RoomInv'
  <2>1. CASE HandChange
    BY <1>1, <1>2, <2>1 DEF HandChange, NotesOK, NotesInv, RoomInv
  <2>2. ASSUME NEW n \in Ids, NEW note \in NoteType,
               notes' = [notes EXCEPT ![n] = note],
               notes[n].kind # "unused", note.kind # "unused",
               note.key \in Inline => note.kind # "plain"
        PROVE  NotesOK' /\ RoomInv'
    <3>1. notes' \in [Ids -> NoteType]
      BY <1>1, <2>2
    <3>2. \A m \in Ids : notes'[m] = IF m = n THEN note ELSE notes[m]
      BY <1>1, <2>2
    <3>. QED
      BY <1>1, <1>2, <2>2, <3>1, <3>2 DEF NotesOK, NotesInv, RoomInv
  <2>3. ASSUME NEW n \in Ids, HandResolve(n) \/ HandReopen(n) \/ HandDelete(n)
        PROVE  NotesOK' /\ RoomInv'
    <3>1. PICK kind \in {"resolved", "open", "gone"} :
             notes' = [notes EXCEPT ![n].kind = kind]
      BY <2>3 DEF HandResolve, HandReopen, HandDelete
    <3>2. notes[n].kind # "unused"
      BY <2>3 DEF HandResolve, HandReopen, HandDelete, Visible
    <3>3. [notes[n] EXCEPT !.kind = kind] \in NoteType
      BY <1>1, <3>1 DEF NoteType
    <3>4. [notes[n] EXCEPT !.kind = kind].kind = kind
      BY <1>1 DEF NoteType
    <3>. QED
      BY <2>2, <3>1, <3>2, <3>3, <3>4
  <2>4. ASSUME NEW n \in Ids, HandPublish(n) PROVE NotesOK' /\ RoomInv'
    BY <2>4, HandPublishKeeps DEF RoomInv
  <2>5. CASE Land
    <3>1. PICK n \in Ids :
             /\ notes[n].late
             /\ notes' \in {[notes EXCEPT ![n].late = FALSE],
                            [notes EXCEPT ![n] = [@ EXCEPT !.late = FALSE,
                                                           !.kind = "gone"]]}
      BY <2>5 DEF Land
    <3>2. notes[n].kind # "unused"
      BY <1>1, <3>1 DEF NotesInv
    <3>3. /\ [notes[n] EXCEPT !.late = FALSE] \in NoteType
          /\ [notes[n] EXCEPT !.late = FALSE].kind = notes[n].kind
          /\ [notes[n] EXCEPT !.late = FALSE].key = notes[n].key
          /\ [notes[n] EXCEPT !.late = FALSE, !.kind = "gone"] \in NoteType
          /\ [notes[n] EXCEPT !.late = FALSE, !.kind = "gone"].kind = "gone"
      BY <1>1 DEF NoteType
    <3>4. CASE notes' = [notes EXCEPT ![n].late = FALSE]
      BY <1>1, <2>2, <3>2, <3>3, <3>4 DEF NotesInv
    <3>5. CASE notes' = [notes EXCEPT ![n] = [@ EXCEPT !.late = FALSE,
                                                       !.kind = "gone"]]
      BY <2>2, <3>2, <3>3, <3>5
    <3>. QED
      BY <3>1, <3>4, <3>5
  <2>. QED
    BY <2>1, <2>3, <2>4, <2>5 DEF ByUsers
<1>. QED
  BY <1>2, <1>3, <1>4, <1>5, <1>6
-----------------------------------------------------------------------------
(***************************************************************************)
(* The steps of the worker                                                 *)
(***************************************************************************)

\* The invariant by the part of the state it speaks of,
LEMMA InFourParts == IInv <=> NotesOK /\ RowsOK /\ JobOK /\ RestOK
  BY DEF IInv, TypeOK, NotesOK, RowsOK, JobOK, RestOK, NoteType, Kinds

\* and of the next state from its parts.
LEMMA FromFourParts == NotesOK' /\ RowsOK' /\ JobOK' /\ RestOK' => IInv'
  BY DEF IInv, TypeOK, NotesOK, RowsOK, JobOK, RestOK, NoteType, Kinds

\* A step that leaves the notes keeps their part,
LEMMA NotesLeft ==
    ASSUME IInv, notes' = notes
    PROVE  NotesOK' /\ MadeUnderWay
  BY InFourParts DEF NotesOK, NotesInv, MadeUnderWay, Makes

\* and so does a write of one note.
LEMMA NotesWritten ==
    ASSUME IInv, job.pc \in {"post", "send"}, Written(notes')
    PROVE  NotesOK' /\ MadeUnderWay
  BY DEF Written, NotesOK, NotesInv, MadeUnderWay, Makes

\* The readings a request may have left to do.
LEMMA Lefts == /\ 1 \in 0..3 /\ 3 \in 0..3
               /\ 1 \in 1..3 /\ 3 \in 1..3
  OBVIOUS

\* The absence of a job is one of the values of job.
LEMMA IdleType == Idle \in JobType
  BY Bounds DEF Idle, JobType

\* An idle job, and one between two posts, owe nothing.
LEMMA IdleJob ==
    ASSUME IInv, job' = Idle
    PROVE  JobOK'
  BY Bounds DEF Idle, JobOK, JobType, StepInv, RoomInv, WantedInv

\* A run between two posts owes nothing.
LEMMA QuietJob ==
    ASSUME IInv, job' \in JobType, job'.by = "publish",
           job'.pc \in {"drafts", "comment", "report"}
    PROVE  JobOK'
  BY DEF JobOK, StepInv, RoomInv, WantedInv

\* The publisher's reading steps keep the invariant.
LEMMA WorkerReads ==
    ASSUME IInv, StartPublish \/ ReadPending \/ (\E k \in Inline : Skip(k)) \/ Finish
    PROVE  IInv' /\ MadeUnderWay
<1>0. NotesOK /\ RowsOK /\ JobOK /\ RestOK
  BY InFourParts
<1>1. notes' = notes /\ rows' = rows
  BY DEF StartPublish, ReadPending, Skip, Finish
<1>2. RestOK'
  BY <1>0 DEF RestOK, StartPublish, ReadPending, Skip, Finish, bounds
<1>3. JobOK'
  <2>1. CASE StartPublish
    <3>. DEFINE seen == {n \in Visible : notes[n].kind \in {"open", "plain"}}
                slots == Slots(Cap - Cardinality(Threads(seen)), {})
    <3>0. seen \in SUBSET Ids /\ Cardinality(Threads(seen)) \in Nat
      BY SetsAreFinite DEF Visible, Threads
    <3>1. seen \in SUBSET Ids /\ slots \in 0..Cap
      BY <3>0, SlotsType, Bounds
    <3>. HIDE DEF seen, slots
    <3>2. \/ job' = job /\ job.pc = "idle"
          \/ job' = [Idle EXCEPT !.pc = "report", !.by = "publish"]
          \/ \E pc \in {"drafts", "comment"} :
                job' = [Idle EXCEPT !.pc = pc, !.by = "publish", !.todo = Inline,
                                    !.seen = seen, !.slots = slots]
      BY <2>1 DEF StartPublish, seen, slots
    <3>3. CASE job' = job /\ job.pc = "idle"
      BY <1>0, <3>3 DEF JobOK, StepInv, RoomInv, WantedInv
    <3>4. CASE job' = [Idle EXCEPT !.pc = "report", !.by = "publish"]
      <4>1. job' \in JobType /\ job'.pc = "report" /\ job'.by = "publish"
        BY <3>4, IdleType DEF JobType
      <4>. QED
        BY <4>1, QuietJob
    <3>5. ASSUME NEW pc \in {"drafts", "comment"},
                 job' = [Idle EXCEPT !.pc = pc, !.by = "publish", !.todo = Inline,
                                     !.seen = seen, !.slots = slots]
          PROVE  JobOK'
      <4>1. job' \in JobType /\ job'.pc = pc /\ job'.by = "publish"
        BY <3>1, <3>5, IdleType DEF JobType
      <4>. QED
        BY <4>1, QuietJob
    <3>. QED
      BY <3>2, <3>3, <3>4, <3>5
  <2>2. CASE ReadPending
    <3>1. Slots(job.slots, Drafts) \in 0..Cap /\ Drafts \in SUBSET Ids
      BY <1>0, SlotsType, Bounds DEF JobOK, JobType, Drafts, Visible
    <3>2. job' \in JobType /\ job'.pc = "comment" /\ job'.by = "publish"
      BY <1>0, <2>2, <3>1 DEF ReadPending, JobOK, JobType, StepInv
    <3>. QED
      BY <3>2, QuietJob
  <2>3. ASSUME NEW k \in Inline, Skip(k) PROVE JobOK'
    <3>1. job' \in JobType /\ job'.pc = "comment" /\ job'.by = "publish"
      BY <1>0, <2>3 DEF Skip, JobOK, JobType, StepInv
    <3>. QED
      BY <3>1, QuietJob
  <2>4. CASE Finish
    BY <2>4, IdleJob DEF Finish
  <2>. QED
    BY <2>1, <2>2, <2>3, <2>4
<1>4. RowsOK'
  BY <1>0, <1>1 DEF RowsOK
<1>. QED
  BY <1>1, <1>2, <1>3, <1>4, NotesLeft, FromFourParts

\* A run given up leaves nothing behind but its rows.
LEMMA Aborted ==
    ASSUME IInv, Abort
    PROVE  JobOK' /\ RestOK'
  BY InFourParts, IdleJob DEF Abort, RestOK, bounds

\* A remembered row is a row, removed only if it was.
LEMMA RememberedType ==
    ASSUME RowsOK, NEW k \in Keys
    PROVE  /\ Remembered(k) \in RowType
           /\ rows[k].status # "removed" => Remembered(k).status # "removed"
           /\ Remembered(k).intent = rows[k].intent \/ Remembered(k).intent = "none"
<1>. DEFINE row == IF rows[k].status = "none" THEN Entry(TRUE) ELSE rows[k]
<1>1. /\ row \in RowType
      /\ rows[k].status # "removed" => row.status # "removed"
      /\ row.intent = rows[k].intent \/ row.intent = "none"
  <2>1. /\ NoRow \in RowType /\ NoRow.intent = "none"
        /\ Entry(TRUE) = [NoRow EXCEPT !.status = "not_published", !.body = TRUE]
    BY Bounds DEF RowType, NoRow, Entry
  <2>2. /\ Entry(TRUE) \in RowType
        /\ Entry(TRUE).status = "not_published" /\ Entry(TRUE).intent = "none"
    BY <2>1 DEF RowType
  <2>. QED
    BY <2>2 DEF RowsOK
<1>2. Remembered(k) = [row EXCEPT !.position = (k # Summary)]
  BY DEF Remembered
<1>. HIDE DEF row
<1>. QED
  BY <1>1, <1>2 DEF RowType

\* The row is saved before the post.
LEMMA Prepares ==
    ASSUME IInv, (\E k \in Inline : Prepare(k)) \/ PrepareSummary
    PROVE  IInv' /\ MadeUnderWay
<1>0. NotesOK /\ RowsOK /\ JobOK /\ RestOK
  BY InFourParts
<1>1. PICK k \in Keys : (k \in Inline /\ Prepare(k)) \/ (k = Summary /\ PrepareSummary)
  <2>1. CASE PrepareSummary
    BY <2>1, Bounds
  <2>2. ASSUME NEW k \in Inline, Prepare(k)
        PROVE  \E key \in Keys : key \in Inline /\ Prepare(key)
    BY <2>2, Bounds
  <2>. QED
    BY <2>1, <2>2
<1>2. notes' = notes
  BY <1>1 DEF Prepare, PrepareSummary
<1>3. rows' = rows \/ rows' = [rows EXCEPT ![k] = Remembered(k)]
  BY <1>1 DEF Prepare, PrepareSummary
<1>4. RowsOK'
  BY <1>0, <1>3, RememberedType DEF RowsOK
<1>5. CASE Abort
  BY <1>2, <1>4, <1>5, Aborted, NotesLeft, FromFourParts
<1>6. CASE /\ job.pc = "comment" /\ job' = [job EXCEPT !.pc = "report"]
           /\ UNCHANGED <<mode, mr, review, drift, bounds>>
  <2>1. job' \in JobType /\ job'.pc = "report" /\ job'.by = "publish"
    BY <1>0, <1>6 DEF JobOK, JobType, StepInv
  <2>2. JobOK'
    BY <2>1, QuietJob
  <2>3. RestOK'
    BY <1>0, <1>6 DEF RestOK, bounds
  <2>. QED
    BY <1>2, <1>4, <2>2, <2>3, NotesLeft, FromFourParts
<1>7. CASE /\ job.pc = "comment" /\ ~Unwanted(k) /\ HasRoom
           /\ k # Summary => job.slots > 0
           /\ rows' = [rows EXCEPT ![k] = Remembered(k)]
           /\ \E todo \in SUBSET job.todo :
                job' = [job EXCEPT !.pc = "post", !.key = k, !.todo = todo]
           /\ UNCHANGED <<mode, mr, review, drift, bounds>>
  <2>1. PICK todo \in SUBSET job.todo :
              job' = [job EXCEPT !.pc = "post", !.key = k, !.todo = todo]
    BY <1>7
  <2>2. /\ job' \in JobType /\ job'.pc = "post" /\ job'.key = k
        /\ job'.slots = job.slots /\ job'.by = job.by
    BY <1>0, <2>1 DEF JobOK, JobType
  <2>3. RoomInv'
    BY <1>2, <1>7, RoomIsTwo DEF RoomInv
  <2>4. rows[k].status # "removed" /\ rows[k].intent # "remove"
    BY <1>7 DEF Unwanted
  <2>5. rows'[k].status # "removed" /\ rows'[k].intent # "remove"
    BY <1>0, <1>7, <2>4, RememberedType DEF RowsOK
  <2>6. job.by = "publish"
    BY <1>0, <1>7 DEF JobOK, StepInv
  <2>7. JobOK'
    BY <1>7, <2>2, <2>3, <2>5, <2>6 DEF JobOK, StepInv, WantedInv
  <2>8. RestOK'
    BY <1>0, <1>7 DEF RestOK, bounds
  <2>. QED
    BY <1>2, <1>4, <2>7, <2>8, NotesLeft, FromFourParts
<1>8. CASE Prepare(k)
  BY <1>5, <1>7, <1>8 DEF Prepare
<1>9. CASE PrepareSummary /\ k = Summary
  <2>1. CASE Unwanted(Summary)
    BY <1>6, <1>9, <2>1 DEF PrepareSummary
  <2>2. CASE ~Unwanted(Summary) /\ mode = "applied" /\ mr = "moved"
    BY <1>5, <1>9, <2>2 DEF PrepareSummary
  <2>3. CASE ~Unwanted(Summary) /\ ~(mode = "applied" /\ mr = "moved")
    <3>1. job' = [job EXCEPT !.pc = "post", !.key = k]
      BY <1>9, <2>3 DEF PrepareSummary
    <3>2. job' = [job EXCEPT !.pc = "post", !.key = k, !.todo = job.todo]
      BY <1>0, <3>1 DEF JobOK, JobType
    <3>. QED
      BY <1>7, <1>9, <2>3, <3>2 DEF PrepareSummary
  <2>. QED
    BY <2>1, <2>2, <2>3
<1>. QED
  BY <1>1, <1>8, <1>9

\* The publisher's posts keep the invariant.
LEMMA Posts ==
    ASSUME IInv, Post \/ PostUnpositionable \/ PostFails
    PROVE  IInv' /\ MadeUnderWay
<1>0. NotesOK /\ RowsOK /\ JobOK /\ RestOK
  BY InFourParts
<1>. DEFINE k == job.key
<1>1. k \in Keys /\ job.by = "publish" /\ job.pc = "post"
  BY <1>0 DEF Post, PostUnpositionable, PostFails, JobOK, JobType
<1>2. CASE Post
  <2>1. Written(notes')
    BY <1>1, <1>2, NoteKinds, CreatedIsWritten DEF Post
  <2>2. New \in Ids
    BY <1>0, <1>1, NewIsUnused DEF JobOK, RoomInv
  <2>3. PICK row \in RowType : rows' = [rows EXCEPT ![k] = row]
    <3>1. rows[k] \in RowType /\ New \in 0..MaxNotes
      BY <1>0, <1>1, <2>2 DEF RowsOK, Ids
    <3>2. CASE mode = "draft"
      <4>1. [rows[k] EXCEPT !.status = "drafted", !.draft = New] \in RowType
        BY <3>1 DEF RowType
      <4>2. rows' = [rows EXCEPT ![k] =
                        [rows[k] EXCEPT !.status = "drafted", !.draft = New]]
        BY <1>2, <3>2 DEF Post
      <4>. QED
        BY <4>1, <4>2
    <3>3. CASE mode # "draft"
      <4>. DEFINE row == [rows[k] EXCEPT !.status = "committed", !.note = New,
                                         !.thread = IF k = Summary
                                                    THEN rows[k].thread ELSE "open"]
      <4>1. rows' = [rows EXCEPT ![k] = row]
        BY <1>2, <3>3 DEF Post
      <4>2. ASSUME k = Summary PROVE row \in RowType
        BY <3>1, <4>2 DEF RowType
      <4>3. ASSUME k # Summary PROVE row \in RowType
        BY <3>1, <4>3 DEF RowType
      <4>4. row \in RowType
        BY <4>2, <4>3
      <4>. QED
        BY <4>1, <4>4
    <3>. QED
      BY <3>2, <3>3
  <2>4. RowsOK'
    BY <1>0, <1>1, <2>3 DEF RowsOK
  <2>5. JobOK'
    <3>1. CASE k = Summary
      <4>1. job' = [job EXCEPT !.pc = "report"]
        BY <1>2, <3>1 DEF Post
      <4>2. job' \in JobType /\ job'.pc = "report" /\ job'.by = "publish"
        BY <1>0, <1>1, <4>1 DEF JobOK, JobType
      <4>. QED
        BY <4>2, QuietJob
    <3>2. CASE k # Summary
      <4>1. job' = [job EXCEPT !.pc = "comment", !.slots = @ - 1]
        BY <1>2, <3>2 DEF Post
      <4>2. job.slots \in 1..Cap
        BY <1>0, <1>1, <3>2, Bounds DEF JobOK, StepInv, JobType
      <4>. DEFINE next == [job EXCEPT !.pc = "comment"]
      <4>3. /\ next \in JobType /\ next.pc = "comment" /\ next.by = "publish"
            /\ next.slots = job.slots
        BY <1>0, <1>1 DEF JobOK, JobType
      <4>4. job' = [next EXCEPT !.slots = next.slots - 1]
        BY <4>1
      <4>5. next.slots - 1 \in 0..Cap
        BY <4>2, <4>3, Bounds
      <4>. HIDE DEF next
      <4>6. job' \in JobType /\ job'.pc = "comment" /\ job'.by = "publish"
        BY <4>3, <4>4, <4>5 DEF JobType
      <4>. QED
        BY <4>6, QuietJob
    <3>. QED
      BY <3>1, <3>2
  <2>6. RestOK'
    BY <1>0, <1>2 DEF Post, RestOK, bounds
  <2>. QED
    BY <1>1, <2>1, <2>4, <2>5, <2>6, NotesWritten, FromFourParts
<1>3. CASE PostUnpositionable
  <2>1. RowsOK'
    <3>1. rows' = [rows EXCEPT ![k] = [rows[k] EXCEPT !.eligible = FALSE]]
      BY <1>3 DEF PostUnpositionable
    <3>2. rows[k] \in RowType
      BY <1>0, <1>1 DEF RowsOK
    <3>3. [rows[k] EXCEPT !.eligible = FALSE] \in RowType
      BY <3>2 DEF RowType
    <3>. QED
      BY <1>0, <3>1, <3>3 DEF RowsOK
  <2>2. job' \in JobType /\ job'.pc = "comment" /\ job'.by = "publish"
    BY <1>0, <1>3 DEF PostUnpositionable, JobOK, JobType, StepInv
  <2>3. RestOK' /\ notes' = notes
    BY <1>0, <1>3 DEF PostUnpositionable, RestOK, bounds
  <2>. QED
    BY <2>1, <2>2, <2>3, QuietJob, NotesLeft, FromFourParts
<1>4. CASE PostFails
  <2>1. JobOK' /\ RestOK'
    BY <1>4, Aborted DEF PostFails
  <2>2. RowsOK'
    BY <1>0, <1>4 DEF PostFails, RowsOK
  <2>3. NotesOK' /\ MadeUnderWay
    <3>1. CASE mr = "current"
      <4>1. notes' \in Unanswered(k, PostKind(k), "publish")
        BY <1>4, <3>1 DEF PostFails
      <4>2. Written(notes')
        BY <1>1, <4>1, NoteKinds, UnansweredIsWritten
      <4>. QED
        BY <1>1, <4>2, NotesWritten
    <3>2. CASE mr # "current"
      BY <1>4, <3>2, NotesLeft DEF PostFails
    <3>. QED
      BY <3>1, <3>2
  <2>. QED
    BY <2>1, <2>2, <2>3, FromFourParts
<1>. QED
  BY <1>2, <1>3, <1>4
-----------------------------------------------------------------------------
(***************************************************************************)
(* The steps of the dashboard                                              *)
(***************************************************************************)

\* Fresh rows are rows.
LEMMA EntryType == NoRow \in RowType /\ \A body \in BOOLEAN : Entry(body) \in RowType
<1>1. NoRow \in RowType
  BY Bounds DEF NoRow, RowType
<1>. QED
  BY <1>1 DEF Entry, RowType

\* A row that a note is found for is a row,
LEMMA RowWithReceipt ==
    ASSUME NEW row \in RowType, NEW note \in 0..MaxNotes,
           NEW intent \in {"none", "publish", "remove"},
           NEW thread \in {"none", "open", "resolved"}
    PROVE  [row EXCEPT !.conflict = FALSE, !.status = "committed", !.body = TRUE,
                       !.intent = intent, !.note = note, !.draft = 0,
                       !.thread = thread] \in RowType
<1>. DEFINE first == [row EXCEPT !.conflict = FALSE, !.status = "committed",
                                 !.body = TRUE]
<1>1. first \in RowType /\ 0 \in 0..MaxNotes
  BY Bounds DEF RowType
<1>. HIDE DEF first
<1>2. [first EXCEPT !.intent = intent, !.note = note, !.draft = 0,
                    !.thread = thread] \in RowType
  BY <1>1 DEF RowType
<1>. QED
  BY <1>2 DEF first

\* and so is one that a draft is found for.
LEMMA RowWithDraft ==
    ASSUME NEW row \in RowType, NEW draft \in 0..MaxNotes
    PROVE  [row EXCEPT !.conflict = FALSE, !.status = "drafted", !.body = TRUE,
                       !.draft = draft, !.note = 0, !.thread = "none"] \in RowType
<1>. DEFINE first == [row EXCEPT !.conflict = FALSE, !.status = "drafted",
                                 !.body = TRUE]
<1>1. first \in RowType /\ 0 \in 0..MaxNotes
  BY Bounds DEF RowType
<1>. HIDE DEF first
<1>2. [first EXCEPT !.draft = draft, !.note = 0, !.thread = "none"] \in RowType
  BY <1>1 DEF RowType
<1>. QED
  BY <1>2 DEF first

\* What reconciliation makes of a row is a row.
LEMMA ReconciledType ==
    ASSUME NotesOK, RowsOK, NEW k \in Keys, NEW drafts \in SUBSET Ids
    PROVE  Reconciled(k, drafts) \in RowType
<1>. DEFINE row == Seeded(k)
            matches == Matches(k)
            own == Of(k) \cap drafts
            posted == [row EXCEPT
                !.conflict = FALSE, !.status = "committed", !.body = TRUE,
                !.intent = IF row.intent = "publish" THEN "none" ELSE row.intent,
                !.note = Only(matches), !.draft = 0,
                !.thread = IF k = Summary THEN "none" ELSE notes[Only(matches)].kind]
            drafted == [row EXCEPT
                !.conflict = FALSE, !.status = "drafted", !.body = TRUE,
                !.draft = Only(own), !.note = 0, !.thread = "none"]
            removed == [row EXCEPT !.conflict = FALSE, !.status = "removed",
                                   !.thread = "none", !.intent = "none"]
<1>1. row \in RowType
  BY EntryType DEF Seeded, RowsOK
<1>2. \A n \in matches :
         /\ n \in Ids /\ n \in 0..MaxNotes
         /\ k # Summary => notes[n].kind \in {"open", "resolved"}
  <2>1. \A n \in matches : /\ n \in Ids /\ notes[n].key = k
                           /\ notes[n].kind \notin {"draft", "unused", "gone"}
    BY DEF Matches, Of, Visible
  <2>2. \A n \in Ids : notes[n].kind \in Kinds
    BY DEF NotesOK, NoteType
  <2>3. k # Summary => k \in Inline
    BY DEF Keys
  <2>. QED
    BY <2>1, <2>2, <2>3, Bounds DEF NotesOK, NotesInv, Kinds, Ids
<1>3. ASSUME matches # {} PROVE posted \in RowType
  <2>1. Only(matches) \in matches
    BY <1>3 DEF Only
  <2>2. /\ Only(matches) \in 0..MaxNotes
        /\ k # Summary => notes[Only(matches)].kind \in {"open", "resolved"}
    BY <1>2, <2>1
  <2>. DEFINE thread == IF k = Summary THEN "none" ELSE notes[Only(matches)].kind
              intent == IF row.intent = "publish" THEN "none" ELSE row.intent
  <2>3. /\ thread \in {"none", "open", "resolved"}
        /\ intent \in {"none", "publish", "remove"}
    BY <1>1, <2>2 DEF RowType
  <2>. HIDE DEF row, matches
  <2>. QED
    BY <1>1, <2>2, <2>3, RowWithReceipt
<1>4. ASSUME own # {} PROVE drafted \in RowType
  <2>1. Only(own) \in own
    BY <1>4 DEF Only
  <2>2. Only(own) \in 0..MaxNotes
    BY <2>1, Bounds
  <2>. HIDE DEF row, own
  <2>. QED
    BY <1>1, <2>2, RowWithDraft
<1>5. removed \in RowType /\ \A b \in BOOLEAN : [row EXCEPT !.conflict = b] \in RowType
  <2>. HIDE DEF row
  <2>. QED
    BY <1>1 DEF RowType
<1>6. \/ Reconciled(k, drafts) \in {row, removed}
      \/ \E b \in BOOLEAN : Reconciled(k, drafts) = [row EXCEPT !.conflict = b]
      \/ matches # {} /\ Reconciled(k, drafts) = posted
      \/ own # {} /\ Reconciled(k, drafts) = drafted
  <2>. DEFINE none == row.status = "none"
              owner == row.byOwner /\ row.status = "removed" /\ row.intent = "none"
              many == \/ Cardinality(matches) > 1 \/ Cardinality(own) > 1
                      \/ (matches # {} /\ own # {})
              gone == \/ row.status \in {"drafted", "committed", "removed"}
                      \/ row.intent = "remove"
  <2>1. Reconciled(k, drafts) =
          CASE none -> row
            [] owner -> row
            [] OTHER ->
               IF many THEN [row EXCEPT !.conflict = TRUE]
               ELSE IF matches # {} THEN posted
               ELSE IF own # {} THEN drafted
               ELSE IF gone THEN removed
               ELSE [row EXCEPT !.conflict = (row.intent = "publish")]
    BY DEF Reconciled
  <2>. HIDE DEF row, matches, own, posted, drafted, removed, none, owner, many, gone
  <2>2. none \/ owner => Reconciled(k, drafts) = row
    BY <2>1
  <2>3. ~(none \/ owner) => Reconciled(k, drafts) =
          IF many THEN [row EXCEPT !.conflict = TRUE]
          ELSE IF matches # {} THEN posted
          ELSE IF own # {} THEN drafted
          ELSE IF gone THEN removed
          ELSE [row EXCEPT !.conflict = (row.intent = "publish")]
    BY <2>1
  <2>4. CASE ~(none \/ owner) /\ many
    <3>1. Reconciled(k, drafts) = [row EXCEPT !.conflict = TRUE]
      BY <2>3, <2>4
    <3>. QED
      BY <3>1
  <2>5. CASE /\ ~(none \/ owner) /\ ~many
             /\ matches = {} /\ own = {} /\ ~gone
    <3>1. Reconciled(k, drafts) = [row EXCEPT !.conflict = (row.intent = "publish")]
      BY <2>3, <2>5
    <3>. QED
      BY <3>1
  <2>6. CASE \/ none \/ owner
             \/ ~many /\ (matches # {} \/ own # {} \/ gone)
    BY <2>2, <2>3, <2>6
  <2>. QED
    BY <2>4, <2>5, <2>6
<1>. HIDE DEF row, matches, own, posted, drafted, removed
<1>. QED
  BY <1>1, <1>3, <1>4, <1>5, <1>6

\* The readings of a request keep the invariant.
LEMMA Reconciles ==
    ASSUME IInv,
           \/ Inspect \/ SyncDrafts \/ SyncRows
           \/ \E k \in Keys, action \in Actions : Request(k, action)
    PROVE  IInv' /\ MadeUnderWay
<1>0. NotesOK /\ RowsOK /\ JobOK /\ RestOK
  BY InFourParts
<1>1. CASE Inspect
  <2>1. /\ job' \in JobType /\ job'.pc = "sync" /\ job'.by = "inspect"
        /\ job'.left = 1
    BY <1>1, IdleType, Lefts DEF Inspect, JobType
  <2>2. JobOK'
    BY <2>1 DEF JobOK, StepInv, RoomInv, WantedInv
  <2>3. RestOK' /\ RowsOK' /\ notes' = notes
    BY <1>0, <1>1 DEF Inspect, RestOK, RowsOK, bounds
  <2>. QED
    BY <2>2, <2>3, NotesLeft, FromFourParts
<1>2. ASSUME NEW k \in Keys, NEW action \in Actions, Request(k, action)
      PROVE  IInv' /\ MadeUnderWay
  <2>1. /\ job' \in JobType /\ job'.pc = "sync" /\ job'.by = action
        /\ job'.left = 3
    BY <1>2, IdleType, Lefts DEF Request, JobType
  <2>2. JobOK'
    BY <2>1, Lefts DEF JobOK, StepInv, RoomInv, WantedInv
  <2>3. requests' \in 0..MaxRequests
    <3>1. requests < MaxRequests /\ requests' = requests + 1
      BY <1>2 DEF Request
    <3>2. requests \in 0..MaxRequests
      BY <1>0 DEF RestOK
    <3>. QED
      BY <3>1, <3>2, Bounds
  <2>4. RestOK' /\ RowsOK' /\ notes' = notes
    BY <1>0, <1>2, <2>3 DEF Request, RestOK, RowsOK
  <2>. QED
    BY <2>2, <2>4, NotesLeft, FromFourParts
<1>3. CASE SyncDrafts
  <2>1. Drafts \in SUBSET Ids
    BY DEF Drafts, Visible
  <2>2. /\ job' \in JobType /\ job'.pc = "discussions" /\ job'.by = job.by
        /\ job'.left = job.left
    BY <1>0, <1>3, <2>1 DEF SyncDrafts, JobOK, JobType
  <2>3. JobOK'
    BY <1>0, <1>3, <2>2 DEF SyncDrafts, JobOK, StepInv, RoomInv, WantedInv
  <2>4. RestOK' /\ RowsOK' /\ notes' = notes
    BY <1>0, <1>3 DEF SyncDrafts, RestOK, RowsOK, bounds
  <2>. QED
    BY <2>3, <2>4, NotesLeft, FromFourParts
<1>4. CASE SyncRows
  <2>1. job.drafts \in SUBSET Ids
    BY <1>0 DEF JobOK, JobType
  <2>2. RowsOK'
    BY <1>0, <1>4, <2>1, ReconciledType DEF SyncRows, RowsOK
  <2>3. JobOK'
    <3>1. job.pc = "discussions" /\ job' = AfterSync
      BY <1>4 DEF SyncRows
    <3>2. CASE job.left = 1
      BY <3>1, <3>2, IdleJob DEF AfterSync
    <3>3. CASE job.left # 1
      <4>1. job.by \in Actions /\ job.left \in {2, 3}
        BY <1>0, <3>1, <3>3 DEF JobOK, StepInv
      <4>2. Threads(Visible) \in SUBSET Ids
        BY DEF Threads, Visible
      <4>3. /\ job' \in JobType /\ job'.by = job.by /\ job'.left \in 1..3
            /\ job'.pc \in {"sync", "act"}
            /\ job'.pc = "act" => job'.left = 1
        <5>1. CASE job.left = 2
          <6>1. job' = [job EXCEPT !.pc = "act", !.left = 1, !.seen = Threads(Visible),
                                    !.hidden = HiddenFrom(job.key)]
            BY <3>1, <5>1 DEF AfterSync
          <6>2. HiddenFrom(job.key) \in SUBSET Ids
            BY DEF HiddenFrom, Of
          <6>. QED
            BY <1>0, <4>2, <6>1, <6>2, Lefts DEF JobOK, JobType
        <5>2. CASE job.left = 3
          <6>1. job' = [job EXCEPT !.pc = "sync", !.left = 2, !.drafts = {}]
            BY <3>1, <5>2 DEF AfterSync
          <6>2. 2 \in 0..3 /\ 2 \in 1..3 /\ job.pc = "discussions"
            BY <3>1
          <6>3. job' \in JobType
            BY <1>0, <6>1, <6>2 DEF JobOK, JobType
          <6>4. job'.pc = "sync" /\ job'.left = 2 /\ job'.by = job.by
            BY <1>0, <6>1 DEF JobOK, JobType
          <6>. QED
            BY <6>2, <6>3, <6>4
        <5>. QED
          BY <4>1, <5>1, <5>2
      <4>. QED
        BY <4>1, <4>3 DEF JobOK, StepInv, RoomInv, WantedInv
    <3>. QED
      BY <3>2, <3>3
  <2>4. RestOK' /\ notes' = notes
    BY <1>0, <1>4 DEF SyncRows, RestOK, bounds
  <2>. QED
    BY <2>2, <2>3, <2>4, NotesLeft, FromFourParts
<1>. QED
  BY <1>1, <1>2, <1>3, <1>4

\* act() is over: what remains is one reconciliation.
LEMMA AnsweredJob ==
    ASSUME IInv, job.pc \in {"act", "send"},
           NEW answer \in {"succeeded", "skipped", "rejected", "unknown"},
           job' = Answered(answer)
    PROVE  JobOK'
<1>1. job \in JobType /\ job.by \in Actions
  BY DEF IInv, TypeOK, StepInv
<1>2. job.left = 1
  BY DEF IInv, StepInv
<1>3. /\ job' \in JobType /\ job'.pc = "sync" /\ job'.by = job.by
      /\ job'.left = 1
  BY <1>1, <1>2 DEF Answered, JobType
<1>. QED
  BY <1>1, <1>3, Lefts DEF JobOK, StepInv, RoomInv, WantedInv

\* So does its decision what to do,
LEMMA Undertakes ==
    ASSUME IInv, Decline \/ Undertake
    PROVE  IInv' /\ MadeUnderWay
<1>0. NotesOK /\ RowsOK /\ JobOK /\ RestOK
  BY InFourParts
<1>1. /\ RestOK' /\ notes' = notes
  BY <1>0 DEF Decline, Undertake, RestOK, bounds
<1>2. CASE Decline
  BY <1>0, <1>1, <1>2, AnsweredJob, NotesLeft, FromFourParts DEF Decline, RowsOK
<1>3. CASE Undertake
  <2>. DEFINE k == job.key
              row == rows[k]
  <2>1. /\ k \in Keys /\ job.by \in Actions /\ row \in RowType
        /\ ~Declined(k, job.by)
    BY <1>0, <1>3 DEF Undertake, JobOK, JobType, StepInv, RowsOK
  <2>2. Intent(row, job.by) \in RowType
    BY <2>1 DEF Intent, RowType
  <2>3. rows' = [rows EXCEPT ![k] = Intent(row, job.by)]
    BY <1>3 DEF Undertake
  <2>4. RowsOK' /\ rows'[k] = Intent(row, job.by)
    BY <1>0, <2>1, <2>2, <2>3 DEF RowsOK
  <2>5. /\ job' \in JobType /\ job'.pc = "send"
        /\ job'.by = job.by /\ job'.key = k /\ job'.left = 1
    BY <1>0, <1>3 DEF Undertake, JobOK, JobType, StepInv
  <2>6. job.by = "publish" =>
          Intent(row, job.by).status # "removed" /\ Intent(row, job.by).intent # "remove"
    BY <2>1 DEF Intent, Declined, RowType
  <2>7. job.by = "resolve" => Intent(row, job.by).status = "committed"
    BY <2>1 DEF Intent, Declined, RowType
  <2>8. RoomInv'
    BY <1>1, <1>3, RoomIsTwo DEF Undertake, RoomInv
  <2>9. JobOK'
    BY <2>1, <2>4, <2>5, <2>6, <2>7, <2>8 DEF JobOK, StepInv, WantedInv
  <2>. QED
    BY <1>1, <2>4, <2>9, NotesLeft, FromFourParts
<1>. QED
  BY <1>2, <1>3

\* so do its writes,
LEMMA Sends ==
    ASSUME IInv, Send \/ SendRejected \/ SendRefused \/ SendUnanswered
    PROVE  IInv' /\ MadeUnderWay
<1>0. NotesOK /\ RowsOK /\ JobOK /\ RestOK
  BY InFourParts
<1>. DEFINE k == job.key
            row == rows[k]
<1>1. /\ job.pc = "send" /\ k \in Keys /\ job.by \in Actions
      /\ row \in RowType
  BY <1>0 DEF Send, SendRejected, SendRefused, SendUnanswered, JobOK, JobType,
              StepInv, RowsOK
<1>2. RestOK'
  BY <1>0 DEF Send, SendRejected, SendRefused, SendUnanswered, RestOK, bounds
<1>3. JobOK'
  BY <1>1, AnsweredJob DEF Send, SendRejected, SendRefused, SendUnanswered
<1>4. NotesOK' /\ MadeUnderWay
  <2>1. CASE SendRejected \/ SendRefused
    BY <2>1, NotesLeft DEF SendRejected, SendRefused
  <2>2. CASE Send
    BY <1>1, <2>2, AskedIsWritten, NotesWritten DEF Send
  <2>3. CASE SendUnanswered
    BY <1>1, <2>3, UnheardIsWritten, NotesWritten DEF SendUnanswered
  <2>. QED
    BY <2>1, <2>2, <2>3
<1>5. RowsOK'
  <2>1. CASE SendRefused \/ SendUnanswered
    BY <1>0, <2>1 DEF SendRefused, SendUnanswered, RowsOK
  <2>2. CASE SendRejected
    <3>. DEFINE intent == IF Creates(k, job.by) THEN "none" ELSE row.intent
    <3>1. rows' = [rows EXCEPT ![k] = [row EXCEPT !.intent = intent]]
      BY <2>2 DEF SendRejected
    <3>2. intent \in {"none", "publish", "remove"}
      BY <1>1 DEF RowType
    <3>. HIDE DEF row, intent
    <3>3. [row EXCEPT !.intent = intent] \in RowType
      BY <1>1, <3>2 DEF RowType
    <3>. QED
      BY <1>0, <3>1, <3>3 DEF RowsOK
  <2>3. CASE Send
    <3>. DEFINE note == IF Creates(k, job.by) THEN New ELSE 0
    <3>1. New \in Ids
      BY <1>0, <1>1, NewIsUnused DEF JobOK, RoomInv
    <3>2. note \in 0..MaxNotes
      BY <3>1, Bounds
    <3>3. rows' = [rows EXCEPT ![k] = Done(row, job.by, note)]
      BY <2>3 DEF Send
    <3>. HIDE DEF row, note
    <3>4. Done(row, job.by, note) \in RowType
      BY <1>1, <3>2 DEF Done, RowType
    <3>. QED
      BY <1>0, <3>3, <3>4 DEF RowsOK
  <2>. QED
    BY <2>1, <2>2, <2>3
<1>. QED
  BY <1>2, <1>3, <1>4, <1>5, FromFourParts

\* and so does the death of whoever is at work.
LEMMA Crashes ==
    ASSUME IInv, Crash
    PROVE  IInv' /\ MadeUnderWay
<1>0. NotesOK /\ RowsOK /\ JobOK /\ RestOK
  BY InFourParts
<1>1. crashes' \in 0..MaxCrashes
  BY <1>0, Bounds DEF Crash, RestOK
<1>2. RowsOK' /\ RestOK' /\ job' = Idle
  BY <1>0, <1>1 DEF Crash, RestOK, RowsOK
<1>3. NotesOK' /\ MadeUnderWay
  <2>1. CASE job.pc = "send"
    <3>1. notes' \in Unheard(job.key, job.by)
      BY <2>1 DEF Crash
    <3>. QED
      BY <2>1, <3>1, UnheardIsWritten, NotesWritten
  <2>2. CASE job.pc = "post" /\ mr = "current"
    <3>1. job.key \in Keys /\ job.by = "publish"
      BY <1>0, <2>2 DEF JobOK, JobType, StepInv
    <3>2. notes' \in Unanswered(job.key, PostKind(job.key), "publish")
      BY <2>2 DEF Crash
    <3>. QED
      BY <2>2, <3>1, <3>2, NoteKinds, UnansweredIsWritten, NotesWritten
  <2>3. CASE job.pc # "send" /\ ~(job.pc = "post" /\ mr = "current")
    BY <2>3, NotesLeft DEF Crash
  <2>. QED
    BY <2>1, <2>2, <2>3
<1>. QED
  BY <1>2, <1>3, IdleJob, FromFourParts
-----------------------------------------------------------------------------
(***************************************************************************)
(* The theorems                                                            *)
(***************************************************************************)

\* The invariant holds before the first run.
LEMMA InitHolds == Init => IInv
<1>. SUFFICES ASSUME Init PROVE IInv
  OBVIOUS
<1>1. NotesOK
  <2>1. NoNote \in NoteType
    BY Bounds DEF NoNote, NoteType, Kinds
  <2>2. \A k \in Inline, kind \in {"open", "resolved"} :
           [key |-> k, kind |-> kind, late |-> FALSE] \in NoteType
    BY Bounds DEF NoteType, Kinds
  <2>3. Summary \notin Inline
    BY PublicationAssumption
  <2>4. CASE notes = [n \in Ids |-> NoNote]
    BY <2>1, <2>3, <2>4 DEF NotesOK, NotesInv, NoNote
  <2>5. ASSUME NEW k \in Inline, NEW kind \in {"open", "resolved"},
               notes = [n \in Ids |->
                          IF n = 1 THEN [key |-> k, kind |-> kind, late |-> FALSE]
                          ELSE NoNote]
        PROVE  NotesOK
    <3>. DEFINE thread == [key |-> k, kind |-> kind, late |-> FALSE]
    <3>1. thread \in NoteType /\ thread.kind = kind
      BY <2>2
    <3>2. NoNote.key = Summary /\ ~NoNote.late
      BY DEF NoNote
    <3>3. \A n \in Ids : notes[n] = IF n = 1 THEN thread ELSE NoNote
      BY <2>5
    <3>4. notes \in [Ids -> NoteType]
      BY <2>1, <2>5, <3>1
    <3>. HIDE DEF thread
    <3>. QED
      BY <2>3, <3>1, <3>2, <3>3, <3>4 DEF NotesOK, NotesInv
  <2>. QED
    BY <2>4, <2>5 DEF Init
<1>2. RowsOK /\ job = Idle /\ job \in JobType
  BY EntryType, IdleType DEF Init, RowsOK
<1>3. JobOK
  BY <1>2 DEF JobOK, StepInv, RoomInv, WantedInv, Idle
<1>4. RestOK
  BY Bounds DEF Init, RestOK
<1>. QED
  BY <1>1, <1>2, <1>3, <1>4, InFourParts

\* Every step keeps the invariant.
LEMMA StepHolds ==
    ASSUME IInv, [Next]_vars
    PROVE  IInv' /\ MadeUnderWay
<1>1. CASE UNCHANGED vars
  <2>1. NotesOK /\ RowsOK /\ JobOK /\ RestOK
    BY InFourParts
  <2>2. NotesOK' /\ RowsOK' /\ JobOK' /\ RestOK' /\ notes' = notes
    BY <1>1, <2>1 DEF vars, bounds, NotesOK, NotesInv, RowsOK, JobOK, StepInv,
                      RoomInv, WantedInv, RestOK
  <2>. QED
    BY <2>2, NotesLeft, FromFourParts
<1>2. CASE ByUsers
  <2>1. RowsOK /\ JobOK /\ RestOK
    BY InFourParts
  <2>2. RowsOK' /\ JobOK' /\ RestOK' /\ NotesOK' /\ job' = job
    BY <1>2, <2>1, UsersKeep DEF RowsOK, JobOK, StepInv, WantedInv, RestOK
  <2>. QED
    BY <2>2, FromFourParts DEF MadeUnderWay, Working
<1>3. CASE Next
  BY <1>2, <1>3, WorkerReads, Prepares, Posts, Reconciles, Undertakes, Sends,
     Crashes DEF Next, ByUsers
<1>. QED
  BY <1>1, <1>3

\* In every behaviour every variable has its type: in particular the room
\* that publish() counts stays between none and the ceiling.
THEOREM TypeCorrect == Spec => []TypeOK
<1>1. IInv /\ [Next]_vars => IInv'
  BY StepHolds
<1>2. IInv => TypeOK
  BY DEF IInv
<1>. QED
  BY InitHolds, <1>1, <1>2, PTL DEF Spec

\* No comment is posted whose row says it was removed, or that somebody wants
\* removed, by the worker or from the dashboard, over crashes, reruns and
\* answers that never came.
THEOREM RemovedStaysRemovedAlways == Spec => RemovedStaysRemoved
<1>1. IInv /\ [Next]_vars => IInv'
  BY StepHolds
<1>2. IInv /\ [Next]_vars => [RemovedStep]_<<notes, job>>
  <2>1. SUFFICES ASSUME IInv, [Next]_vars PROVE RemovedStep
    OBVIOUS
  <2>. QED
    BY <2>1, StepHolds DEF MadeUnderWay, RemovedStep, IInv, WantedInv
<1>3. [][RemovedStep]_<<notes, job>> => RemovedStaysRemoved
  BY DEF RemovedStep, RemovedStaysRemoved
<1>. QED
  BY InitHolds, <1>1, <1>2, <1>3, PTL DEF Spec
-----------------------------------------------------------------------------
(***************************************************************************)
(* What is said once: a strengthening for the other action properties.     *)
(* None of this holds when a post of a run that was given up may still     *)
(* appear (LatePosts), for the next run does not wait for it.              *)
(***************************************************************************)

Void(n) == notes[n].kind \in {"unused", "gone"}
Live(n) == notes[n].kind \in {"draft", "open", "plain"}

\* Notes that count against the ceiling.
Taking(ns) ==
    {n \in ns : /\ notes[n].kind \in {"draft", "open"} /\ ~notes[n].late
                /\ notes[n].key \in Inline}

\* An overall message has no thread; drafts are those of drafted runs, one to a
\* finding, and none is what users brought to life.
KindsInv ==
    /\ \A n \in Ids :
          notes[n].key = Summary => notes[n].kind \notin {"open", "resolved"}
    /\ mode # "draft" => \A n \in Ids : notes[n].kind # "draft"
    /\ \A m, n \in Ids :
          notes[m].kind = "draft" /\ notes[n].kind = "draft"
          /\ notes[m].key = notes[n].key => m = n
    /\ \A n \in drift : notes[n].kind \notin {"unused", "draft"}

\* A row nothing was published of has no receipt, and a receipt is of a note on
\* the row's finding.
ReceiptsInv ==
    /\ rows[Summary].thread # "open"
    /\ \A k \in Keys :
          /\ rows[k].status \in {"none", "not_published"}
                => rows[k].note = 0 /\ rows[k].draft = 0
          /\ rows[k].note # 0 => /\ notes[rows[k].note].key = k
                                 /\ notes[rows[k].note].kind # "unused"

\* A run publishes before its owner may act; what was read was there, and no
\* draft appears while the discussions are read.
PhaseInv ==
    /\ job.pc \in {"drafts", "comment", "post", "report"} => review = "running"
    /\ job.pc \in {"sync", "discussions", "act", "send"} /\ job.by # "inspect"
          => review = "published"
    /\ \A n \in job.seen \cup job.drafts : notes[n].kind # "unused"
    /\ \A n \in job.hidden : notes[n].kind \notin {"unused", "draft"}
    /\ job.pc = "discussions" => Drafts \subseteq job.drafts

\* A note that may appear late is the only one on its finding, whose row keeps
\* the intent to publish it.
LateInv ==
    \A n \in Ids : notes[n].late =>
       /\ review = "published" /\ notes[n].kind \in {"open", "plain"}
       /\ rows[notes[n].key].status = "not_published"
       /\ rows[notes[n].key].intent = "publish"
       /\ \A m \in Ids \ {n} : notes[m].key = notes[n].key => Void(m)
       /\ \A m \in job.drafts : notes[m].key # notes[n].key

Posting == IF job.pc = "post" THEN {job.key} ELSE {}

\* What the worker read before it posts: what it did not find said is still its
\* own to say, and the room it counted is there.
DraftingInv ==
    job.pc = "drafts" =>
       /\ mode = "draft" /\ job.todo = Inline
       /\ \A n \in Ids \ drift : notes[n].kind = "open" => n \in job.seen
       /\ job.slots > 0 =>
             Cardinality(Taking({n \in Ids \ drift : notes[n].kind = "open"}))
                + job.slots <= Cap
PublishInv ==
    /\ job.pc \in {"comment", "post"} =>
          /\ \A n \in Ids \ drift :
                Live(n) /\ (mode = "draft" => notes[n].kind # "plain")
                   => \/ Said(notes[n].key)
                      \/ notes[n].key \in Inline \ (job.todo \cup Posting)
          /\ job.slots > 0 => Cardinality(Taking(Ids \ drift)) + job.slots <= Cap
    /\ job.pc = "post" => ~Said(job.key) /\ job.key \notin job.todo

\* What a request reconciled before it acts: of the row's finding GitLab holds
\* nothing but what the row says, and no more is counted against the ceiling
\* than was read.
DraftGone == notes[rows[job.key].draft].kind = "gone"
ActInv ==
    job.pc \in {"act", "send"} /\ ~rows[job.key].conflict =>
       /\ rows[job.key].status = "drafted" =>
             /\ rows[job.key].note = 0 /\ rows[job.key].draft \in Ids
             /\ notes[rows[job.key].draft].kind # "unused"
             /\ DraftGone \/ \A n \in Ids \ ({rows[job.key].draft} \cup job.hidden) :
                                notes[n].key = job.key => Void(n)
       /\ rows[job.key].status = "not_published" =>
             \A n \in Ids : notes[n].key = job.key => Void(n)
       /\ rows[job.key].status = "committed" => rows[job.key].note # 0
       /\ rows[job.key].status \in {"drafted", "not_published"} =>
             \/ rows[job.key].status = "drafted" /\ DraftGone
             \/ Cardinality(Taking((Ids \ drift) \ {rows[job.key].draft}))
                   <= Counted(job.key)

\* What act() looked at before it sends.
SendInv ==
    job.pc = "send" =>
       /\ ~rows[job.key].conflict
       /\ job.by = "publish" =>
             /\ rows[job.key].status \in {"drafted", "not_published"}
             /\ rows[job.key].status = "not_published" =>
                   rows[job.key].intent = "publish"
             /\ job.key \in Inline => Counted(job.key) < Cap
       /\ job.by = "remove" => rows[job.key].status \in {"drafted", "committed"}
       /\ job.by = "resolve" => rows[job.key].thread = "open"

OnceInv ==
    /\ KindsInv /\ ReceiptsInv /\ PhaseInv /\ LateInv
    /\ DraftingInv /\ PublishInv /\ ActInv /\ SendInv

\* The bodies of the three properties.
DuplicateStep ==
    \A n \in Ids : Working /\ Makes(n)
       => \A m \in Ids \ {n} :
             /\ notes'[m].key = notes'[n].key
             /\ m \notin IF job.pc = "post" THEN drift ELSE job.hidden
             /\ mode = "draft" => notes'[m].kind # "plain"
             => ~LiveThen(m)
CeilingStep ==
    (\E n \in Ids : Working /\ Makes(n) /\ notes'[n].key \in Inline)
       => Cardinality({m \in Ids \ drift :
             /\ notes'[m].kind \in {"draft", "open"} /\ ~notes'[m].late
             /\ notes'[m].key \in Inline}) <= Cap
GoneStep ==
    \A k \in Keys :
       rows[k].status # "removed" /\ rows'[k].status = "removed"
          => \A n \in Ids :
                /\ notes'[n].key = k /\ rows[k].note \in {0, n}
                /\ n \notin job.hidden
                => notes'[n].late \/ ~LiveThen(n)
StepsOK == DuplicateStep /\ CeilingStep /\ GoneStep

\* A step that makes no note, of the job or of users.
LEMMA MakesNone ==
    ASSUME \/ notes' = notes
           \/ job' = job
    PROVE  DuplicateStep /\ CeilingStep
  BY DEF DuplicateStep, CeilingStep, Makes, Working

\* A step that removes no row.
LEMMA RemovesNone ==
    ASSUME \A k \in Keys : rows'[k].status = "removed" => rows[k].status = "removed"
    PROVE  GoneStep
  BY DEF GoneStep
-----------------------------------------------------------------------------
(***************************************************************************)
(* Counting                                                                *)
(***************************************************************************)

\* A part of a set of notes is no larger,
LEMMA Fewer ==
    ASSUME NEW S \in SUBSET Ids, NEW T \in SUBSET S
    PROVE  /\ Cardinality(S) \in Nat /\ Cardinality(T) \in Nat
           /\ Cardinality(T) <= Cardinality(S)
<1>1. IsFiniteSet(S) /\ Cardinality(S) \in Nat /\ Cardinality(T) \in Nat
  BY SetsAreFinite
<1>. QED
  BY <1>1, FS_Subset

\* one more note is at most one more,
LEMMA OneMore ==
    ASSUME NEW S \in SUBSET Ids, NEW n \in Ids, NEW T \in SUBSET (S \cup {n})
    PROVE  Cardinality(T) <= Cardinality(S) + 1
<1>1. IsFiniteSet(S) /\ Cardinality(S) \in Nat
  BY SetsAreFinite
<1>2. Cardinality(S \cup {n}) <= Cardinality(S) + 1
  <2>1. Cardinality(S \cup {n}) =
           IF n \in S THEN Cardinality(S) ELSE Cardinality(S) + 1
    BY <1>1, FS_AddElement
  <2>. QED
    BY <1>1, <2>1
<1>3. S \cup {n} \in SUBSET Ids
  OBVIOUS
<1>4. /\ Cardinality(S \cup {n}) \in Nat /\ Cardinality(T) \in Nat
      /\ Cardinality(T) <= Cardinality(S \cup {n})
  BY <1>3, Fewer
<1>. QED
  BY <1>1, <1>2, <1>4

\* a note in place of another is none more,
LEMMA Swapped ==
    ASSUME NEW S \in SUBSET Ids, NEW d \in S, NEW n \in Ids,
           NEW T \in SUBSET ((S \ {d}) \cup {n})
    PROVE  Cardinality(T) <= Cardinality(S)
<1>1. IsFiniteSet(S) /\ Cardinality(S) \in Nat
  BY SetsAreFinite
<1>2. Cardinality(S \ {d}) = Cardinality(S) - 1
  BY <1>1, FS_RemoveElement
<1>3. S \ {d} \in SUBSET Ids
  OBVIOUS
<1>4. Cardinality(T) <= Cardinality(S \ {d}) + 1
  BY <1>3, OneMore
<1>5. Cardinality(T) \in Nat
  BY SetsAreFinite
<1>. QED
  BY <1>1, <1>2, <1>4, <1>5

\* and two sets are at most the sum of both.
LEMMA Joined ==
    ASSUME NEW S \in SUBSET Ids, NEW T \in SUBSET Ids, NEW U \in SUBSET (S \cup T)
    PROVE  Cardinality(U) <= Cardinality(S) + Cardinality(T)
<1>1. /\ IsFiniteSet(S) /\ Cardinality(S) \in Nat
      /\ IsFiniteSet(T) /\ Cardinality(T) \in Nat
      /\ Cardinality(S \cap T) \in Nat
  BY SetsAreFinite
<1>2. Cardinality(S \cup T) = Cardinality(S) + Cardinality(T) - Cardinality(S \cap T)
  BY <1>1, FS_Union
<1>3. S \cup T \in SUBSET Ids
  OBVIOUS
<1>4. Cardinality(U) <= Cardinality(S \cup T) /\ Cardinality(U) \in Nat
  BY <1>3, Fewer
<1>. QED
  BY <1>1, <1>2, <1>4

\* A set with no more than one note has one at most.
LEMMA AtMostOne ==
    ASSUME NEW S \in SUBSET Ids, ~(Cardinality(S) > 1), NEW m \in S, NEW n \in S
    PROVE  m = n
<1>. SUFFICES ASSUME m # n PROVE FALSE
  OBVIOUS
<1>1. IsFiniteSet(S) /\ Cardinality(S) \in Nat
  BY SetsAreFinite
<1>2. IsFiniteSet({m}) /\ Cardinality({m}) = 1
  BY FS_Singleton
<1>3. Cardinality({m} \cup {n}) = 2
  <2>1. Cardinality({m} \cup {n}) =
           IF n \in {m} THEN Cardinality({m}) ELSE Cardinality({m}) + 1
    BY <1>2, FS_AddElement
  <2>. QED
    BY <1>2, <2>1
<1>4. Cardinality({m} \cup {n}) <= Cardinality(S)
  BY <1>1, FS_Subset
<1>. QED
  BY <1>1, <1>3, <1>4

\* The notes that take room among some are some of them.
LEMMA TakingNotes ==
    \A ns \in SUBSET Ids : Taking(ns) \in SUBSET ns /\ Taking(ns) \in SUBSET Ids
  BY DEF Taking
-----------------------------------------------------------------------------
(***************************************************************************)
(* What a step does to the notes                                           *)
(***************************************************************************)

\* One is made, perhaps of another that is gone; or one is marked.
Made(n, k, kind, late, d) ==
    /\ n \in Ids /\ notes[n].kind = "unused" /\ n # d
    /\ notes'[n].key = k /\ notes'[n].kind = kind /\ notes'[n].late = late
    /\ \A m \in Ids \ {n, d} : notes'[m] = notes[m]
    /\ d \in Ids => notes'[d].key = notes[d].key /\ notes'[d].kind = "gone"
                    /\ notes'[d].late = notes[d].late
Marked(n, kind) ==
    /\ n \in Ids
    /\ \A m \in Ids \ {n} : notes'[m] = notes[m]
    /\ notes'[n].key = notes[n].key /\ notes'[n].kind = kind /\ ~notes'[n].late

\* A note in use stays on its finding, and becomes no draft.
UsedStay ==
    \A n \in Ids : notes[n].kind # "unused" =>
       /\ notes'[n].key = notes[n].key /\ notes'[n].kind # "unused"
       /\ notes'[n].kind = "draft" => notes[n].kind = "draft"

\* Creating a note makes one where none was.
LEMMA CreatedIsMade ==
    ASSUME NotesOK, \E n \in Ids : notes[n].kind = "unused",
           NEW k \in Keys, NEW kind \in Kinds \ {"unused"}, NEW late \in BOOLEAN,
           k \in Inline => kind # "plain",
           notes' = Created(k, kind, late)
    PROVE  \E n \in Ids : n = New /\ Made(n, k, kind, late, 0)
<1>1. New \in Ids /\ notes[New].kind = "unused"
  BY NewIsUnused
<1>2. notes \in [Ids -> NoteType] /\ 0 \notin Ids
  BY Bounds DEF NotesOK
<1>3. \A m \in Ids : notes'[m] = IF m = New
                                 THEN [key |-> k, kind |-> kind, late |-> late]
                                 ELSE notes[m]
  BY <1>2 DEF Created
<1>. QED
  BY <1>1, <1>2, <1>3 DEF Made

\* Publishing a draft makes one and takes the draft.
LEMMA PublishedIsMade ==
    ASSUME NotesOK, \E n \in Ids : notes[n].kind = "unused",
           NEW k \in Keys, NEW kind \in Kinds \ {"unused"},
           k \in Inline => kind # "plain",
           NEW d \in Visible,
           notes' = [Created(k, kind, FALSE) EXCEPT ![d].kind = "gone"]
    PROVE  \E n \in Ids : n = New /\ Made(n, k, kind, FALSE, d)
<1>. DEFINE made == Created(k, kind, FALSE)
<1>1. New \in Ids /\ notes[New].kind = "unused"
  BY NewIsUnused
<1>2. d \in Ids /\ d # New
  BY <1>1 DEF Visible
<1>3. notes \in [Ids -> NoteType]
  BY DEF NotesOK
<1>4. made \in [Ids -> NoteType]
  BY CreatedNotes
<1>5. \A m \in Ids : made[m] = IF m = New
                               THEN [key |-> k, kind |-> kind, late |-> FALSE]
                               ELSE notes[m]
  BY <1>3 DEF Created
<1>. HIDE DEF made
<1>6. notes' = [made EXCEPT ![d].kind = "gone"]
  BY DEF made
<1>7. /\ \A m \in Ids \ {d} : notes'[m] = made[m]
      /\ notes'[d] = [made[d] EXCEPT !.kind = "gone"]
  BY <1>2, <1>4, <1>6
<1>8. /\ notes'[d].key = notes[d].key /\ notes'[d].kind = "gone"
      /\ notes'[d].late = notes[d].late
  <2>1. notes[d] \in NoteType /\ notes'[d] = [notes[d] EXCEPT !.kind = "gone"]
    BY <1>2, <1>3, <1>5, <1>7
  <2>. QED
    BY ZenonT(30), <2>1 DEF NoteType
<1>9. /\ notes'[New].key = k /\ notes'[New].kind = kind /\ notes'[New].late = FALSE
      /\ \A m \in Ids \ {New, d} : notes'[m] = notes[m]
  <2>1. /\ notes'[New] = [key |-> k, kind |-> kind, late |-> FALSE]
        /\ \A m \in Ids \ {New, d} : notes'[m] = notes[m]
    BY <1>1, <1>2, <1>5, <1>7
  <2>2. \A x : x = [key |-> k, kind |-> kind, late |-> FALSE]
                => x.key = k /\ x.kind = kind /\ x.late = FALSE
    OBVIOUS
  <2>. QED
    BY <2>1, <2>2, Zenon
<1>. QED
  BY <1>1, <1>2, <1>8, <1>9 DEF Made

\* Resolving, reopening or removing changes the kind of one note.
LEMMA ChangedIsMarked ==
    ASSUME NotesOK, NEW n \in Visible, NEW kind \in Kinds,
           notes' = [notes EXCEPT ![n].kind = kind]
    PROVE  Marked(n, kind)
<1>1. n \in Ids /\ ~notes[n].late /\ notes \in [Ids -> NoteType]
  BY DEF Visible, NotesOK
<1>. QED
  BY <1>1 DEF Marked, NoteType

\* Notes once there stay, whatever is made,
LEMMA MadeStays ==
    ASSUME NEW n, NEW k, NEW kind, NEW late, NEW d, Made(n, k, kind, late, d)
    PROVE  UsedStay
  BY DEF Made, UsedStay

\* or marked.
LEMMA MarkedStays ==
    ASSUME NEW n, NEW kind, Marked(n, kind), kind # "unused",
           kind = "draft" => notes[n].kind = "draft"
    PROVE  UsedStay
  BY DEF Marked, UsedStay

\* What users and GitLab do.
UserStep(n) ==
    \/ /\ n \in Visible /\ notes[n].kind = "open" /\ Marked(n, "resolved")
       /\ drift' = drift
    \/ /\ n \in Visible /\ notes[n].kind = "resolved" /\ Marked(n, "open")
       /\ drift' = IF job.pc = "idle" THEN drift ELSE drift \cup {n}
    \/ n \in Visible /\ Marked(n, "gone") /\ drift' = drift
    \/ /\ n \in Drafts
       /\ \E m \in Ids :
             /\ Made(m, notes[n].key, PublishedKind(notes[n].key), FALSE, n)
             /\ drift' = IF job.pc = "drafts" THEN drift \cup {m} ELSE drift
    \/ /\ notes[n].late /\ (Marked(n, notes[n].kind) \/ Marked(n, "gone"))
       /\ drift' = IF job.pc \in {"act", "send"} THEN drift \cup {n} ELSE drift

\* What users do is to one note, or to none.
LEMMA UsersStep ==
    ASSUME IInv, ByUsers
    PROVE  \/ notes' = notes /\ drift' = drift
           \/ \E n \in Ids : UserStep(n)
<1>1. NotesOK /\ notes \in [Ids -> NoteType] /\ NotesInv
  BY InFourParts DEF NotesOK
<1>2. CASE HandChange
  BY <1>2 DEF HandChange
<1>3. ASSUME NEW n \in Ids, HandResolve(n) PROVE UserStep(n)
  <2>1. n \in Visible /\ notes' = [notes EXCEPT ![n].kind = "resolved"]
    BY <1>3 DEF HandResolve
  <2>2. Marked(n, "resolved")
    BY <1>1, <2>1, ChangedIsMarked DEF Kinds
  <2>. QED
    BY <1>3, <2>1, <2>2 DEF HandResolve, UserStep
<1>4. ASSUME NEW n \in Ids, HandReopen(n) PROVE UserStep(n)
  <2>1. n \in Visible /\ notes' = [notes EXCEPT ![n].kind = "open"]
    BY <1>4 DEF HandReopen
  <2>2. Marked(n, "open")
    BY <1>1, <2>1, ChangedIsMarked DEF Kinds
  <2>. QED
    BY <1>4, <2>1, <2>2 DEF HandReopen, UserStep
<1>5. ASSUME NEW n \in Ids, HandDelete(n) PROVE UserStep(n)
  <2>1. n \in Visible /\ notes' = [notes EXCEPT ![n].kind = "gone"]
    BY <1>5 DEF HandDelete
  <2>2. Marked(n, "gone")
    BY <1>1, <2>1, ChangedIsMarked DEF Kinds
  <2>. QED
    BY <1>5, <2>1, <2>2 DEF HandDelete, UserStep
<1>6. ASSUME NEW n \in Ids, HandPublish(n) PROVE UserStep(n)
  <2>1. PICK k : k = notes[n].key
    OBVIOUS
  <2>2. PICK kind : kind = PublishedKind(k)
    OBVIOUS
  <2>3. /\ n \in Drafts /\ n \in Visible
        /\ notes' = [Created(k, kind, FALSE) EXCEPT ![n].kind = "gone"]
    BY <1>6, <2>1, <2>2 DEF HandPublish, Drafts
  <2>4. k \in Keys /\ kind \in Kinds \ {"unused"} /\ (k \in Inline => kind # "plain")
    BY <1>1, <2>1, <2>2, NoteKinds DEF NoteType
  <2>5. \E m \in Ids : notes[m].kind = "unused"
    BY <1>6, RoomIsTwo DEF HandPublish
  <2>6. PICK m \in Ids : m = New /\ Made(m, k, kind, FALSE, n)
    BY <1>1, <2>3, <2>4, <2>5, PublishedIsMade
  <2>7. drift' = IF job.pc = "drafts" THEN drift \cup {m} ELSE drift
    BY <1>6, <2>6 DEF HandPublish
  <2>. QED
    BY <2>1, <2>2, <2>3, <2>6, <2>7 DEF UserStep
<1>7. CASE Land
  <2>1. PICK n \in Ids :
           /\ notes[n].late
           /\ notes' \in {[notes EXCEPT ![n].late = FALSE],
                          [notes EXCEPT ![n] = [@ EXCEPT !.late = FALSE,
                                                         !.kind = "gone"]]}
           /\ drift' = IF job.pc \in {"act", "send"} THEN drift \cup {n} ELSE drift
    BY <1>7 DEF Land
  <2>2. notes[n] \in NoteType /\ \A m \in Ids \ {n} : notes'[m] = notes[m]
    BY <1>1, <2>1
  <2>3. \/ notes'[n] = [notes[n] EXCEPT !.late = FALSE]
        \/ notes'[n] = [notes[n] EXCEPT !.late = FALSE, !.kind = "gone"]
    BY <1>1, <2>1
  <2>4. Marked(n, notes[n].kind) \/ Marked(n, "gone")
    BY <2>2, <2>3 DEF Marked, NoteType
  <2>. QED
    BY <2>1, <2>4 DEF UserStep
<1>. QED
  BY <1>2, <1>3, <1>4, <1>5, <1>6, <1>7 DEF ByUsers

\* The worker's post, heard of or not, when none appears late.
WorkerMakes ==
    \E n \in Ids : n = New /\ Made(n, job.key, PostKind(job.key), FALSE, 0)

\* A post of the publisher makes one note, or none.
LEMMA WorkerPosts ==
    ASSUME IInv, job.pc = "post", "publish" \notin LatePosts,
           \/ notes' = Created(job.key, PostKind(job.key), FALSE)
           \/ notes' \in Unanswered(job.key, PostKind(job.key), "publish")
    PROVE  notes' = notes \/ WorkerMakes
<1>1. NotesOK /\ job.key \in Keys /\ \E n \in Ids : notes[n].kind = "unused"
  BY InFourParts DEF JobOK, JobType, RoomInv
<1>2. PICK k \in Keys, kind \in Kinds : k = job.key /\ kind = PostKind(job.key)
  BY <1>1, NoteKinds
<1>3. kind \in Kinds \ {"unused"} /\ (k \in Inline => kind # "plain")
  BY <1>2, NoteKinds
<1>4. notes' = notes \/ notes' = Created(k, kind, FALSE)
  BY <1>2 DEF Unanswered
<1>5. CASE notes' = Created(k, kind, FALSE)
  <2>1. \E n \in Ids : n = New /\ Made(n, k, kind, FALSE, 0)
    BY <1>1, <1>3, <1>5, CreatedIsMade
  <2>. QED
    BY <1>2, <2>1 DEF WorkerMakes
<1>. QED
  BY <1>4, <1>5

\* What the owner's request does in GitLab.
OwnerMakes(late) ==
    /\ Creates(job.key, job.by)
    /\ \E n \in Ids : n = New /\ Made(n, job.key, PublishedKind(job.key), late, 0)
OwnerPublishes ==
    /\ job.by = "publish" /\ rows[job.key].status = "drafted"
    /\ rows[job.key].draft \in Visible
    /\ \E n \in Ids : Made(n, job.key, PublishedKind(job.key), FALSE,
                           rows[job.key].draft)
OwnerMarks ==
    \/ /\ job.by = "resolve" /\ rows[job.key].note \in Visible
       /\ Marked(rows[job.key].note, "resolved")
    \/ /\ job.by = "remove" /\ Target(rows[job.key]) \in Visible
       /\ Marked(Target(rows[job.key]), "gone")

\* A post of a request makes one,
LEMMA OwnerCreates ==
    ASSUME IInv, job.pc = "send", Creates(job.key, job.by), NEW late \in BOOLEAN,
           notes' = Created(job.key, PublishedKind(job.key), late)
    PROVE  OwnerMakes(late)
<1>1. NotesOK /\ job.key \in Keys /\ \E n \in Ids : notes[n].kind = "unused"
  BY InFourParts DEF JobOK, JobType, RoomInv
<1>2. PICK k \in Keys, kind \in Kinds : k = job.key /\ kind = PublishedKind(job.key)
  BY <1>1, NoteKinds
<1>3. kind \in Kinds \ {"unused"} /\ (k \in Inline => kind # "plain")
  BY <1>2, NoteKinds
<1>4. notes' = Created(k, kind, late)
  BY <1>2
<1>5. \E n \in Ids : n = New /\ Made(n, k, kind, late, 0)
  BY <1>1, <1>3, <1>4, CreatedIsMade
<1>. QED
  BY <1>2, <1>5 DEF OwnerMakes

\* and any write of a request makes, publishes or marks one;
LEMMA OwnerAsks ==
    ASSUME IInv, job.pc = "send", Possible(job.key, job.by),
           notes' = Asked(job.key, job.by)
    PROVE  OwnerMakes(FALSE) \/ OwnerPublishes \/ OwnerMarks
<1>1. /\ NotesOK /\ job.key \in Keys /\ \E n \in Ids : notes[n].kind = "unused"
      /\ job.by \in Actions
  BY InFourParts DEF JobOK, JobType, RoomInv, StepInv
<1>2. CASE job.by = "resolve"
  <2>1. PICK n : n = rows[job.key].note
    OBVIOUS
  <2>2. n \in Visible
    BY <1>2, <2>1 DEF Possible, Creates, Target, IInv, WantedInv
  <2>3. notes' = [notes EXCEPT ![n].kind = "resolved"]
    BY <1>2, <2>1 DEF Asked
  <2>4. Marked(n, "resolved")
    BY <1>1, <2>2, <2>3, ChangedIsMarked DEF Kinds
  <2>. QED
    BY <1>2, <2>1, <2>2, <2>4 DEF OwnerMarks
<1>3. CASE job.by = "remove"
  <2>1. PICK n : n = Target(rows[job.key])
    OBVIOUS
  <2>2. n \in Visible
    BY <1>3, <2>1 DEF Possible, Creates
  <2>3. notes' = [notes EXCEPT ![n].kind = "gone"]
    BY <1>3, <2>1 DEF Asked
  <2>4. Marked(n, "gone")
    BY <1>1, <2>2, <2>3, ChangedIsMarked DEF Kinds
  <2>. QED
    BY <1>3, <2>1, <2>2, <2>4 DEF OwnerMarks
<1>4. CASE job.by = "publish" /\ rows[job.key].status = "drafted"
  <2>1. PICK k \in Keys, kind \in Kinds, d \in 0..MaxNotes :
           k = job.key /\ kind = PublishedKind(job.key) /\ d = rows[job.key].draft
    BY <1>1, InFourParts, NoteKinds DEF RowsOK, RowType
  <2>2. kind \in Kinds \ {"unused"} /\ (k \in Inline => kind # "plain")
    BY <2>1, NoteKinds
  <2>3. d \in Visible
    BY <1>4, <2>1 DEF Possible, Creates, Target
  <2>4. notes' = [Created(k, kind, FALSE) EXCEPT ![d].kind = "gone"]
    BY <1>4, <2>1 DEF Asked
  <2>5. \E n \in Ids : n = New /\ Made(n, k, kind, FALSE, d)
    BY <1>1, <2>2, <2>3, <2>4, PublishedIsMade
  <2>. QED
    BY <1>4, <2>1, <2>3, <2>5 DEF OwnerPublishes
<1>5. CASE job.by = "publish" /\ rows[job.key].status # "drafted"
  <2>1. Creates(job.key, job.by)
    BY <1>5 DEF Creates
  <2>2. notes' = Created(job.key, PublishedKind(job.key), FALSE)
    BY <1>5 DEF Asked
  <2>. QED
    BY <2>1, <2>2, OwnerCreates
<1>. QED
  BY <1>1, <1>2, <1>3, <1>4, <1>5 DEF Actions

\* or does nothing, when it is not answered.
LEMMA OwnerUnheard ==
    ASSUME IInv, job.pc = "send", notes' \in Unheard(job.key, job.by)
    PROVE  \/ notes' = notes
           \/ \E late \in BOOLEAN : OwnerMakes(late)
           \/ OwnerPublishes \/ OwnerMarks
<1>1. CASE Possible(job.key, job.by) /\ notes' = Asked(job.key, job.by)
  BY <1>1, OwnerAsks
<1>2. ASSUME NEW late \in BOOLEAN, Creates(job.key, job.by),
             notes' = Created(job.key, PublishedKind(job.key), late)
      PROVE  OwnerMakes(late)
  BY <1>2, OwnerCreates
<1>. QED
  BY <1>1, <1>2 DEF Unheard, Unanswered
-----------------------------------------------------------------------------
(***************************************************************************)
(* What lasts while notes in use stay on their findings                    *)
(***************************************************************************)

\* Receipts stay receipts while notes only change their kind.
LEMMA ReceiptsStay ==
    ASSUME IInv, ReceiptsInv, UsedStay, rows' = rows
    PROVE  ReceiptsInv'
<1>1. \A k \in Keys : rows[k].note # 0 => rows[k].note \in Ids
  BY DEF IInv, TypeOK, RowType, Ids
<1>. QED
  BY <1>1 DEF ReceiptsInv, UsedStay

\* What was read stays of this review,
LEMMA PhaseStays ==
    ASSUME IInv, PhaseInv, UsedStay, job' = job, review' = review,
           job.pc = "discussions" => Drafts' \subseteq Drafts
    PROVE  PhaseInv'
<1>1. job.seen \subseteq Ids /\ job.drafts \subseteq Ids /\ job.hidden \subseteq Ids
  BY DEF IInv, TypeOK, JobType
<1>2. /\ \A n \in job'.seen \cup job'.drafts : notes'[n].kind # "unused"
      /\ \A n \in job'.hidden : notes'[n].kind \notin {"unused", "draft"}
  BY <1>1 DEF PhaseInv, UsedStay
<1>3. job'.pc = "discussions" => Drafts' \subseteq job'.drafts
  BY DEF PhaseInv
<1>. QED
  BY <1>2, <1>3 DEF PhaseInv

\* what was seen to be said stays seen,
LEMMA SaidStays ==
    ASSUME IInv, PhaseInv, UsedStay, mode' = mode,
           job'.seen = job.seen, job'.drafts = job.drafts, NEW k
    PROVE  Said(k)' <=> Said(k)
<1>1. \A n \in job.seen \cup job.drafts : notes'[n].key = notes[n].key
  BY DEF IInv, TypeOK, JobType, PhaseInv, UsedStay
<1>. QED
  BY <1>1 DEF Said, KeysOf

\* and what was counted stays counted.
LEMMA CountedStays ==
    ASSUME IInv, PhaseInv, UsedStay, NEW k,
           job'.seen = job.seen, job'.drafts = job.drafts,
           rows'[k].draft = rows[k].draft
    PROVE  Counted(k)' = Counted(k)
<1>1. \A n \in job.drafts : notes'[n].key = notes[n].key
  BY DEF IInv, TypeOK, JobType, PhaseInv, UsedStay
<1>2. {n \in job'.drafts : notes'[n].key \in Inline /\ n # rows'[k].draft}
         = {n \in job.drafts : notes[n].key \in Inline /\ n # rows[k].draft}
  BY <1>1
<1>. QED
  BY <1>2 DEF Counted

\* The count is a number.
LEMMA CountedType ==
    ASSUME IInv, NEW k
    PROVE  Counted(k) \in Nat
<1>. DEFINE drafts == {n \in job.drafts : notes[n].key \in Inline /\ n # rows[k].draft}
<1>1. job.seen \subseteq Ids /\ drafts \subseteq Ids
  BY DEF IInv, TypeOK, JobType
<1>2. Cardinality(job.seen) \in Nat /\ Cardinality(drafts) \in Nat
  BY <1>1, SetsAreFinite
<1>. QED
  BY <1>2 DEF Counted
-----------------------------------------------------------------------------
(***************************************************************************)
(* What users and GitLab do                                                *)
(***************************************************************************)

\* Users make no draft, and unmake no note.
LEMMA UserStepStays ==
    ASSUME IInv, KindsInv, LateInv, NEW n \in Ids, UserStep(n)
    PROVE  /\ UsedStay
           /\ \A m \in Ids : notes'[m].kind = "draft" => notes[m].kind = "draft"
           /\ Drafts' \subseteq Drafts
<1>1. PublishedKind(notes[n].key) \notin {"draft", "unused"}
  BY DEF PublishedKind
<1>2. notes[n].late => notes[n].kind \in {"open", "plain"}
  BY DEF LateInv
<1>3. UsedStay /\ \A m \in Ids : notes'[m].kind = "draft" => notes[m].kind = "draft"
  <2>1. CASE n \in Drafts /\ \E m \in Ids :
               Made(m, notes[n].key, PublishedKind(notes[n].key), FALSE, n)
    BY <1>1, <2>1 DEF Made, UsedStay
  <2>2. CASE Marked(n, "resolved") \/ Marked(n, "open") \/ Marked(n, "gone")
    BY <2>2 DEF Marked, UsedStay
  <2>3. CASE notes[n].late /\ Marked(n, notes[n].kind)
    BY <1>2, <2>3 DEF Marked, UsedStay
  <2>. QED
    BY <2>1, <2>2, <2>3 DEF UserStep
<1>4. ASSUME NEW m \in Drafts' PROVE m \in Drafts
  <2>1. m \in Ids /\ notes'[m].kind = "draft" /\ notes[m].kind = "draft"
    BY <1>3, <1>4 DEF Drafts, Visible
  <2>2. ~notes[m].late
    BY <2>1 DEF LateInv
  <2>. QED
    BY <2>1, <2>2 DEF Drafts, Visible
<1>. QED
  BY <1>3, <1>4

\* What users do keeps the kinds of notes,
LEMMA UserKinds ==
    ASSUME IInv, KindsInv, LateInv, NEW n \in Ids, UserStep(n), mode' = mode
    PROVE  KindsInv'
<1>1. \A m \in Ids : notes'[m].kind = "draft" => notes[m].kind = "draft"
  BY UserStepStays
<1>2. UsedStay /\ drift \subseteq Ids
  BY UserStepStays DEF IInv, TypeOK
<1>3. \A m \in Ids : notes'[m].key = Summary => notes'[m].kind \notin {"open", "resolved"}
  <2>1. ASSUME NEW m \in Ids,
               Made(m, notes[n].key, PublishedKind(notes[n].key), FALSE, n)
        PROVE  \A i \in Ids :
                  notes'[i].key = Summary => notes'[i].kind \notin {"open", "resolved"}
    BY <2>1 DEF Made, KindsInv, PublishedKind
  <2>2. CASE Marked(n, "gone") \/ Marked(n, notes[n].kind)
    BY <2>2 DEF Marked, KindsInv
  <2>3. CASE /\ notes[n].kind \in {"open", "resolved"}
             /\ Marked(n, "open") \/ Marked(n, "resolved")
    BY <2>3 DEF Marked, KindsInv
  <2>. QED
    BY <2>1, <2>2, <2>3 DEF UserStep
<1>4. mode' # "draft" => \A m \in Ids : notes'[m].kind # "draft"
  BY <1>1 DEF KindsInv
<1>5. \A i, m \in Ids :
         notes'[i].kind = "draft" /\ notes'[m].kind = "draft"
         /\ notes'[i].key = notes'[m].key => i = m
  <2>1. \A i \in Ids : notes'[i].kind = "draft"
           => notes[i].kind = "draft" /\ notes'[i].key = notes[i].key
    BY <1>1, <1>2 DEF UsedStay
  <2>. QED
    BY <2>1 DEF KindsInv
<1>6. \A m \in drift' : notes'[m].kind \notin {"unused", "draft"}
  <2>1. \A m \in drift : notes'[m].kind \notin {"unused", "draft"}
    BY <1>1, <1>2 DEF UsedStay, KindsInv
  <2>2. ASSUME NEW m \in drift', m \notin drift
        PROVE  notes'[m].kind \notin {"unused", "draft"}
    <3>1. CASE m = n /\ notes[n].kind = "resolved" /\ Marked(n, "open")
      BY <3>1 DEF Marked
    <3>2. CASE m = n /\ notes[n].late /\ (Marked(n, notes[n].kind) \/ Marked(n, "gone"))
      BY <3>2 DEF Marked, LateInv
    <3>3. CASE Made(m, notes[n].key, PublishedKind(notes[n].key), FALSE, n)
      BY <3>3 DEF Made, PublishedKind
    <3>. QED
      BY <2>2, <3>1, <3>2, <3>3 DEF UserStep
  <2>. QED
    BY <2>1, <2>2
<1>. QED
  BY <1>3, <1>4, <1>5, <1>6 DEF KindsInv

\* the posts on their way,
LEMMA UserLate ==
    ASSUME IInv, LateInv, PhaseInv, NEW n \in Ids, UserStep(n), UsedStay,
           rows' = rows, review' = review, job' = job
    PROVE  LateInv'
<1>1. job.drafts \subseteq Ids
  BY DEF IInv, TypeOK, JobType
<1>2. SUFFICES ASSUME NEW i \in Ids, notes'[i].late
               PROVE  /\ notes'[i] = notes[i]
                      /\ \A m \in Ids \ {i} : notes'[m].key = notes'[i].key => Void(m)'
  <2>1. \A i \in Ids : notes'[i].late => notes[i].late /\ notes'[i] = notes[i]
    BY <1>2
  <2>2. \A m \in job.drafts : notes'[m].key = notes[m].key
    BY <1>1 DEF PhaseInv, UsedStay
  <2>. QED
    BY <1>2, <2>1, <2>2 DEF LateInv
<1>3. notes'[i] = notes[i]
  BY <1>2 DEF UserStep, Made, Marked, Visible, Drafts
<1>4. \A m \in Ids \ {i} : notes[m].key = notes[i].key => Void(m)
  BY <1>2, <1>3 DEF LateInv
<1>5. i # n
  BY <1>2, <1>3 DEF UserStep, Made, Marked, Visible, Drafts
<1>6. ~Void(n)
  BY DEF UserStep, Void, Visible, Drafts, LateInv
<1>7. notes[n].key # notes[i].key
  BY <1>4, <1>5, <1>6
<1>8. CASE \E kind : Marked(n, kind)
  BY <1>3, <1>4, <1>7, <1>8 DEF Marked, Void
<1>9. ASSUME NEW m \in Ids,
             Made(m, notes[n].key, PublishedKind(notes[n].key), FALSE, n)
      PROVE  \A j \in Ids \ {i} : notes'[j].key = notes'[i].key => Void(j)'
  BY <1>3, <1>4, <1>7, <1>9 DEF Made, Void
<1>10. (\E kind : Marked(n, kind)) \/ \E m \in Ids :
           Made(m, notes[n].key, PublishedKind(notes[n].key), FALSE, n)
  BY DEF UserStep
<1>. QED
  BY <1>3, <1>8, <1>9, <1>10

\* and takes no room beyond what the drift accounts for, one note aside;
LEMMA UserTakes ==
    ASSUME IInv, KindsInv, LateInv, NEW n \in Ids, UserStep(n), NEW x,
           job.pc \notin {"idle", "drafts"},
           review = "running" \/ job.pc \in {"act", "send"}
    PROVE  \/ x = n /\ notes'[n].kind = "gone"
           \/ Cardinality(Taking((Ids \ drift) \ {x})')
                 <= Cardinality(Taking((Ids \ drift) \ {x}))
<1>. DEFINE before == Taking((Ids \ drift) \ {x})
            after == Taking((Ids \ drift) \ {x})'
<1>1. before \in SUBSET Ids /\ after \in SUBSET Ids
  BY DEF Taking
<1>2. CASE /\ drift' = drift
           /\ Marked(n, "resolved") \/ Marked(n, "gone")
  <2>1. after \subseteq before
    BY <1>2 DEF Taking, Marked
  <2>. QED
    BY <1>1, <2>1, Fewer
<1>3. CASE n \in drift' /\ drift \subseteq drift' /\ \E kind : Marked(n, kind)
  <2>1. after \subseteq before
    BY <1>3 DEF Taking, Marked
  <2>. QED
    BY <1>1, <2>1, Fewer
<1>4. CASE notes[n].late
  <2>1. job.pc \in {"act", "send"}
    BY <1>4 DEF LateInv
  <2>2. drift' = drift \cup {n} /\ \E kind : Marked(n, kind)
    BY <1>4, <2>1 DEF UserStep, Visible, Drafts
  <2>. QED
    BY <1>3, <2>2
<1>5. ASSUME NEW m \in Ids, n \in Drafts, drift' = drift, x # n,
             Made(m, notes[n].key, PublishedKind(notes[n].key), FALSE, n)
      PROVE  Cardinality(after) <= Cardinality(before)
  <2>1. /\ n \in Ids /\ notes[n].kind = "draft" /\ ~notes[n].late /\ n \notin drift
    BY <1>5 DEF Drafts, Visible, KindsInv
  <2>2. CASE notes[n].key \in Inline
    <3>1. n \in before
      BY <1>5, <2>1, <2>2 DEF Taking
    <3>2. after \subseteq (before \ {n}) \cup {m}
      BY <1>5 DEF Taking, Made
    <3>. QED
      BY <1>1, <3>1, <3>2, Swapped
  <2>3. CASE notes[n].key \notin Inline
    <3>1. after \subseteq before
      BY <1>5, <2>3 DEF Taking, Made
    <3>. QED
      BY <1>1, <3>1, Fewer
  <2>. QED
    BY <2>2, <2>3
<1>6. CASE n \in Drafts /\ drift' = drift /\ x = n /\ \E m \in Ids :
             Made(m, notes[n].key, PublishedKind(notes[n].key), FALSE, n)
  BY <1>6 DEF Made
<1>. QED
  BY <1>2, <1>3, <1>4, <1>5, <1>6 DEF UserStep

\* so it keeps what a run knows between its two readings,
LEMMA UserDrafting ==
    ASSUME IInv, KindsInv, LateInv, PhaseInv, DraftingInv,
           NEW n \in Ids, UserStep(n), job' = job, mode' = mode
    PROVE  DraftingInv'
<1>. SUFFICES ASSUME job.pc = "drafts" PROVE DraftingInv'
  BY DEF DraftingInv
<1>. DEFINE before == Taking({m \in Ids \ drift : notes[m].kind = "open"})
            after == Taking({m \in Ids \ drift : notes[m].kind = "open"})'
<1>1. ~notes[n].late
  BY DEF LateInv, PhaseInv
<1>2. drift \subseteq drift'
  BY DEF UserStep
<1>3. \A m \in Ids \ drift' :
         notes'[m].kind = "open" => notes[m].kind = "open" /\ notes'[m] = notes[m]
  <2>1. CASE Marked(n, "resolved") \/ Marked(n, "gone")
    BY <2>1 DEF Marked
  <2>2. CASE n \in drift' /\ Marked(n, "open")
    BY <2>2 DEF Marked
  <2>3. ASSUME NEW i \in Ids, i \in drift',
               Made(i, notes[n].key, PublishedKind(notes[n].key), FALSE, n)
        PROVE  \A m \in Ids \ drift' :
                  notes'[m].kind = "open" => notes[m].kind = "open" /\ notes'[m] = notes[m]
    BY <2>3 DEF Made
  <2>. QED
    BY <1>1, <2>1, <2>2, <2>3 DEF UserStep
<1>4. \A m \in Ids \ drift' : notes'[m].kind = "open" => m \in job.seen
  BY <1>2, <1>3 DEF DraftingInv
<1>5. after \subseteq before
  BY <1>2, <1>3 DEF Taking
<1>6. before \in SUBSET Ids
  BY DEF Taking
<1>7. /\ Cardinality(before) \in Nat /\ Cardinality(after) \in Nat
      /\ Cardinality(after) <= Cardinality(before)
  BY <1>5, <1>6, Fewer
<1>8. job.slots > 0 => Cardinality(after) + job.slots <= Cap
  <2>1. job.slots > 0 => Cardinality(before) + job.slots <= Cap
    BY DEF DraftingInv
  <2>2. job.slots \in Nat /\ Cap \in Nat
    BY Bounds DEF IInv, TypeOK, JobType
  <2>. QED
    BY <1>7, <2>1, <2>2
<1>. HIDE DEF before
<1>. QED
  BY <1>4, <1>8 DEF DraftingInv

\* what it knows before a post,
LEMMA UserPublish ==
    ASSUME IInv, KindsInv, LateInv, PhaseInv, PublishInv,
           NEW n \in Ids, UserStep(n), job' = job, mode' = mode
    PROVE  PublishInv'
<1>. SUFFICES ASSUME job.pc \in {"comment", "post"} PROVE PublishInv'
  BY DEF PublishInv
<1>1. ~notes[n].late /\ review = "running"
  BY DEF LateInv, PhaseInv
<1>2. UsedStay /\ drift \subseteq drift'
  BY UserStepStays DEF UserStep
<1>3. \A k \in Keys : Said(k)' <=> Said(k)
  BY <1>2, SaidStays
<1>4. \A i \in Ids : notes[i].key \in Keys
  BY DEF IInv, TypeOK
<1>5. ASSUME NEW i \in Ids \ drift', Live(i)', mode = "draft" => notes'[i].kind # "plain"
      PROVE  \/ Said(notes[i].key)'
             \/ notes'[i].key \in Inline \ (job.todo \cup Posting)
  <2>1. \E j \in Ids \ drift : /\ Live(j) /\ (mode = "draft" => notes[j].kind # "plain")
                               /\ notes[j].key = notes'[i].key
    <3>1. CASE Live(i) /\ notes'[i] = notes[i]
      BY <1>2, <1>5, <3>1
    <3>2. CASE Made(i, notes[n].key, PublishedKind(notes[n].key), FALSE, n) /\ n \in Drafts
      <4>1. Live(n) /\ n \notin drift /\ notes[n].kind = "draft"
        BY <3>2 DEF Drafts, Visible, KindsInv, Live
      <4>2. notes'[i].key = notes[n].key
        BY <3>2 DEF Made
      <4>. QED
        BY <4>1, <4>2
    <3>3. (Live(i) /\ notes'[i] = notes[i])
             \/ (Made(i, notes[n].key, PublishedKind(notes[n].key), FALSE, n)
                 /\ n \in Drafts)
      <4>1. CASE Marked(n, "resolved") \/ Marked(n, "gone")
        BY <1>5, <4>1 DEF Marked, Live
      <4>2. CASE n \in drift' /\ Marked(n, "open")
        BY <1>5, <4>2 DEF Marked, Live
      <4>3. ASSUME NEW m \in Ids, n \in Drafts,
                   Made(m, notes[n].key, PublishedKind(notes[n].key), FALSE, n)
            PROVE  (Live(i) /\ notes'[i] = notes[i])
                      \/ (Made(i, notes[n].key, PublishedKind(notes[n].key), FALSE, n)
                          /\ n \in Drafts)
        <5>1. CASE i = m
          BY <4>3, <5>1
        <5>2. CASE i # m
          BY <1>5, <4>3, <5>2 DEF Made, Live
        <5>. QED
          BY <5>1, <5>2
      <4>. QED
        BY <1>1, <4>1, <4>2, <4>3 DEF UserStep
    <3>. QED
      BY <3>1, <3>2, <3>3
  <2>2. PICK j \in Ids \ drift : /\ Live(j)
                                 /\ mode = "draft" => notes[j].kind # "plain"
                                 /\ notes[j].key = notes'[i].key
    BY <2>1
  <2>3. PICK k \in Keys : k = notes'[i].key
    BY <1>4, <2>2
  <2>4. Said(k) \/ k \in Inline \ (job.todo \cup Posting)
    BY <2>2, <2>3 DEF PublishInv
  <2>5. Said(k)' <=> Said(k)
    BY <1>3
  <2>6. Said(k)' => Said(notes[i].key)'
    BY <2>3 DEF Said
  <2>. QED
    BY <2>3, <2>4, <2>5, <2>6
<1>6. job.slots > 0 => Cardinality(Taking(Ids \ drift)') + job.slots <= Cap
  <2>1. 0 \notin Ids /\ 0 # n
    BY Bounds
  <2>2. (Ids \ drift) \ {0} = Ids \ drift /\ (Ids \ drift') \ {0} = Ids \ drift'
    BY <2>1
  <2>3. Cardinality(Taking((Ids \ drift) \ {0})')
           <= Cardinality(Taking((Ids \ drift) \ {0}))
    BY <1>1, <2>1, UserTakes
  <2>4. Taking((Ids \ drift) \ {0})' = Taking(Ids \ drift)'
        /\ Taking((Ids \ drift) \ {0}) = Taking(Ids \ drift)
    BY <2>2 DEF Taking
  <2>5. Cardinality(Taking(Ids \ drift)') <= Cardinality(Taking(Ids \ drift))
    BY <2>3, <2>4
  <2>6. Cardinality(Taking(Ids \ drift)') \in Nat /\ Cardinality(Taking(Ids \ drift)) \in Nat
    BY SetsAreFinite DEF Taking
  <2>7. job.slots > 0 => Cardinality(Taking(Ids \ drift)) + job.slots <= Cap
    BY DEF PublishInv
  <2>8. job.slots \in Nat /\ Cap \in Nat
    BY Bounds DEF IInv, TypeOK, JobType
  <2>. QED
    BY <2>5, <2>6, <2>7, <2>8
<1>7. job.pc = "post" => ~Said(job.key)' /\ job.key \notin job.todo
  <2>1. PICK k \in Keys : k = job.key
    BY DEF IInv, TypeOK, JobType
  <2>2. Said(job.key)' <=> Said(k)'
    BY <2>1 DEF Said
  <2>. QED
    BY <1>3, <2>1, <2>2 DEF PublishInv
<1>8. Posting' = Posting
  BY DEF Posting
<1>. QED
  BY <1>5, <1>6, <1>7, <1>8 DEF PublishInv

\* and what a request knows.
LEMMA UserAct ==
    ASSUME IInv, KindsInv, ReceiptsInv, LateInv, PhaseInv, ActInv, SendInv,
           NEW n \in Ids, UserStep(n), UNCHANGED <<job, rows>>
    PROVE  ActInv' /\ SendInv'
<1>. SUFFICES ASSUME job.pc \in {"act", "send"} PROVE ActInv' /\ SendInv'
  BY DEF ActInv, SendInv
<1>1. UsedStay
  BY UserStepStays
<1>2. PICK k \in Keys, row \in RowType :
         k = job.key /\ row = rows[job.key]
  BY DEF IInv, TypeOK, JobType
<1>3. k = job'.key /\ row = rows'[job'.key]
  BY <1>2
<1>4. Counted(job.key)' = Counted(job.key) /\ Counted(job.key) \in Nat
  <2>1. Counted(k)' = Counted(k) /\ Counted(k) \in Nat
    BY <1>1, CountedStays, CountedType
  <2>2. Counted(job.key)' = Counted(k)' /\ Counted(job.key) = Counted(k)
    BY <1>2, <1>3 DEF Counted
  <2>. QED
    BY <2>1, <2>2
<1>5. SendInv'
  BY <1>4 DEF SendInv
<1>6. ASSUME ~row.conflict PROVE ActInv'
  <2>1. ~Void(n)
    BY DEF UserStep, Void, Visible, Drafts, LateInv
  <2>2. ASSUME NEW ns \in SUBSET Ids, notes[n].key # k,
               \A m \in ns : notes[m].key = k => Void(m)
        PROVE  \A m \in ns : notes'[m].key = k => Void(m)'
    <3>1. ASSUME NEW kind, Marked(n, kind)
          PROVE  \A m \in ns : notes'[m].key = k => Void(m)'
      BY <2>2, <3>1 DEF Marked, Void
    <3>2. ASSUME NEW i \in Ids,
                 Made(i, notes[n].key, PublishedKind(notes[n].key), FALSE, n)
          PROVE  \A m \in ns : notes'[m].key = k => Void(m)'
      BY <2>2, <3>2 DEF Made, Void
    <3>. QED
      BY <3>1, <3>2 DEF UserStep
  <2>3. ASSUME row.status = "drafted"
        PROVE  /\ row.note = 0 /\ row.draft \in Ids
               /\ notes'[row.draft].kind # "unused"
               /\ \/ notes'[row.draft].kind = "gone"
                  \/ \A m \in Ids \ ({row.draft} \cup job.hidden) :
                        notes'[m].key = k => Void(m)'
               /\ notes[row.draft].kind = "gone" => notes'[row.draft].kind = "gone"
    <3>1. /\ row.note = 0 /\ row.draft \in Ids /\ notes[row.draft].kind # "unused"
          /\ \/ notes[row.draft].kind = "gone"
             \/ \A m \in Ids \ ({row.draft} \cup job.hidden) :
                   notes[m].key = k => Void(m)
      BY <1>2, <1>6, <2>3 DEF ActInv, DraftGone
    <3>2. notes'[row.draft].kind # "unused"
      BY <1>1, <3>1 DEF UsedStay
    <3>3. notes[row.draft].kind = "gone" => notes'[row.draft].kind = "gone"
      <4>. SUFFICES ASSUME notes[row.draft].kind = "gone"
                    PROVE  notes'[row.draft].kind = "gone"
        OBVIOUS
      <4>1. row.draft # n
        BY <2>1 DEF Void
      <4>. QED
        BY <3>1, <4>1 DEF UserStep, Marked, Made
    <3>4. CASE \A m \in Ids \ ({row.draft} \cup job.hidden) :
                  notes[m].key = k => Void(m)
      <4>1. CASE n \notin {row.draft} \cup job.hidden
        <5>1. notes[n].key # k
          BY <2>1, <3>4, <4>1
        <5>. QED
          BY <2>2, <3>1, <3>2, <3>3, <3>4, <5>1
      <4>2. CASE n \in {row.draft} \cup job.hidden /\ \E kind : Marked(n, kind)
        <5>1. \A m \in Ids \ ({row.draft} \cup job.hidden) :
                 notes'[m].key = k => Void(m)'
          BY <3>4, <4>2 DEF Marked, Void
        <5>. QED
          BY <3>1, <3>2, <3>3, <5>1
      <4>3. ASSUME n = row.draft, NEW i \in Ids,
                   Made(i, notes[n].key, PublishedKind(notes[n].key), FALSE, n)
            PROVE  notes'[row.draft].kind = "gone"
        BY <3>1, <4>3 DEF Made
      <4>4. n \in job.hidden => notes[n].kind # "draft"
        BY DEF PhaseInv
      <4>. QED
        BY <3>1, <3>2, <3>3, <4>1, <4>2, <4>3, <4>4 DEF UserStep, Drafts
    <3>. QED
      BY <3>1, <3>2, <3>3, <3>4
  <2>4. row.status = "not_published" => \A m \in Ids : notes'[m].key = k => Void(m)'
    <3>1. SUFFICES ASSUME row.status = "not_published"
                   PROVE  \A m \in Ids : notes'[m].key = k => Void(m)'
      OBVIOUS
    <3>2. \A m \in Ids : notes[m].key = k => Void(m)
      BY <1>2, <1>6, <3>1 DEF ActInv
    <3>. QED
      BY <2>1, <2>2, <3>2
  <2>5. row.status = "committed" => row.note # 0
    BY <1>2, <1>6 DEF ActInv
  <2>6. row.status \in {"drafted", "not_published"} =>
           \/ row.status = "drafted" /\ notes'[row.draft].kind = "gone"
           \/ Cardinality(Taking((Ids \ drift) \ {row.draft})') <= Counted(job.key)
    <3>1. SUFFICES ASSUME row.status \in {"drafted", "not_published"},
                          ~(row.status = "drafted" /\ notes'[row.draft].kind = "gone")
                   PROVE  Cardinality(Taking((Ids \ drift) \ {row.draft})')
                             <= Counted(job.key)
      OBVIOUS
    <3>2. Cardinality(Taking((Ids \ drift) \ {row.draft})) <= Counted(job.key)
      <4>1. \/ row.status = "drafted" /\ notes[row.draft].kind = "gone"
            \/ Cardinality(Taking((Ids \ drift) \ {row.draft})) <= Counted(job.key)
        BY <1>2, <1>6, <3>1 DEF ActInv, DraftGone
      <4>. QED
        BY <2>3, <3>1, <4>1
    <3>3. row.draft # n \/ notes'[n].kind # "gone"
      <4>1. CASE row.status = "drafted"
        BY <3>1, <4>1
      <4>2. CASE row.status = "not_published"
        <5>1. \A m \in Ids : notes[m].key = k => Void(m)
          BY <1>2, <1>6, <4>2 DEF ActInv
        <5>2. row.draft = 0
          BY <1>2, <4>2 DEF ReceiptsInv
        <5>. QED
          BY <5>2, Bounds
      <4>. QED
        BY <3>1, <4>1, <4>2
    <3>4. Cardinality(Taking((Ids \ drift) \ {row.draft})')
             <= Cardinality(Taking((Ids \ drift) \ {row.draft}))
      BY <3>3, UserTakes
    <3>5. /\ Cardinality(Taking((Ids \ drift) \ {row.draft})') \in Nat
          /\ Cardinality(Taking((Ids \ drift) \ {row.draft})) \in Nat
      BY SetsAreFinite DEF Taking
    <3>. QED
      BY <1>4, <3>2, <3>4, <3>5
  <2>7. /\ job'.hidden = job.hidden /\ job'.pc = job.pc
        /\ Taking((Ids \ drift) \ {rows[job.key].draft})'
              = Taking((Ids \ drift) \ {row.draft})'
    BY <1>2
  <2>8. DraftGone' <=> notes'[row.draft].kind = "gone"
    BY <1>3 DEF DraftGone
  <2>9. /\ rows'[job'.key] = row /\ job'.key = k
        /\ Counted(job.key)' = Counted(job.key)
    BY <1>3, <1>4
  <2>. QED
    BY <2>3, <2>4, <2>5, <2>6, <2>7, <2>8, <2>9 DEF ActInv
<1>. QED
  BY <1>2, <1>3, <1>5, <1>6 DEF ActInv

\* Steps that touch none of it keep the second invariant.
LEMMA OnceUnchanged ==
    ASSUME OnceInv, UNCHANGED <<mode, notes, rows, review, job, drift>>
    PROVE  OnceInv'
<1>1. KindsInv' /\ ReceiptsInv'
  BY DEF OnceInv, KindsInv, ReceiptsInv
<1>2. PhaseInv'
  BY DEF OnceInv, PhaseInv, Drafts, Visible
<1>3. LateInv'
  BY DEF OnceInv, LateInv, Void
<1>4. DraftingInv'
  BY DEF OnceInv, DraftingInv, Taking
<1>5. PublishInv'
  BY DEF OnceInv, PublishInv, Live, Said, KeysOf, Posting, Taking
<1>6. ActInv' /\ SendInv'
  BY DEF OnceInv, ActInv, SendInv, Void, DraftGone, Taking, Counted
<1>. QED
  BY <1>1, <1>2, <1>3, <1>4, <1>5, <1>6 DEF OnceInv

\* Users keep the second invariant.
LEMMA UsersOnce ==
    ASSUME IInv, OnceInv, ByUsers
    PROVE  OnceInv' /\ StepsOK
<1>0. UNCHANGED <<mode, rows, review, job>>
  BY UsersKeep
<1>1. StepsOK
  BY <1>0, MakesNone, RemovesNone DEF StepsOK
<1>2. CASE notes' = notes /\ drift' = drift
  BY <1>0, <1>1, <1>2, OnceUnchanged
<1>3. ASSUME NEW n \in Ids, UserStep(n) PROVE OnceInv'
  <2>0. /\ KindsInv /\ ReceiptsInv /\ PhaseInv /\ LateInv
        /\ DraftingInv /\ PublishInv /\ ActInv /\ SendInv
    BY DEF OnceInv
  <2>1. UsedStay /\ Drafts' \subseteq Drafts
    BY <1>3, <2>0, UserStepStays
  <2>2. KindsInv' /\ ReceiptsInv' /\ PhaseInv' /\ LateInv'
    BY <1>0, <1>3, <2>0, <2>1, UserKinds, ReceiptsStay, PhaseStays, UserLate
  <2>3. DraftingInv' /\ PublishInv' /\ ActInv' /\ SendInv'
    BY <1>0, <1>3, <2>0, UserDrafting, UserPublish, UserAct
  <2>. QED
    BY <2>2, <2>3 DEF OnceInv
<1>. QED
  BY <1>1, <1>2, <1>3, UsersStep
-----------------------------------------------------------------------------
(***************************************************************************)
(* The worker                                                              *)
(***************************************************************************)

\* A job that neither counts nor acts next.
LEMMA Quiet ==
    ASSUME job'.pc \notin {"drafts", "comment", "post", "act", "send"}
    PROVE  DraftingInv' /\ PublishInv' /\ ActInv' /\ SendInv'
  BY DEF DraftingInv, PublishInv, ActInv, SendInv

\* Steps that leave the notes.
LEMMA NotesStay ==
    ASSUME OnceInv, notes' = notes, mode' = mode, drift' \subseteq drift
    PROVE  UsedStay /\ KindsInv'
  BY DEF OnceInv, KindsInv, UsedStay

\* Nothing appears late under a run.
LEMMA NoneLate ==
    ASSUME OnceInv, review = "running"
    PROVE  \A n \in Ids : ~notes[n].late
  BY DEF OnceInv, LateInv

\* Where no post is late, none is to be accounted for.
LEMMA NoneLateThen ==
    ASSUME \A n \in Ids : ~notes'[n].late
    PROVE  LateInv'
  BY DEF LateInv

\* No two drafts are of one finding: they are as many as their findings.
LEMMA DraftsAreKeys ==
    ASSUME KindsInv
    PROVE  Cardinality({n \in Drafts : notes[n].key \in Inline})
              <= Cardinality(KeysOf(Drafts) \cap Inline)
<1>. DEFINE drafts == {n \in Drafts : notes[n].key \in Inline}
            keys == KeysOf(Drafts) \cap Inline
            f == [k \in keys |-> CHOOSE n \in drafts : notes[n].key = k]
            img == {f[k] : k \in keys}
<1>1. IsFiniteSet(keys)
  BY SetsAreFinite
<1>2. \A k \in keys : \E n \in drafts : notes[n].key = k
  BY DEF KeysOf
<1>3. \A k \in keys : f[k] \in drafts /\ notes[f[k]].key = k
  BY <1>2
<1>4. f \in [keys -> drafts]
  BY <1>3
<1>5. drafts \subseteq img
  <2>1. ASSUME NEW n \in drafts PROVE n \in img
    <3>1. notes[n].key \in keys
      BY DEF KeysOf
    <3>2. f[notes[n].key] \in drafts /\ notes[f[notes[n].key]].key = notes[n].key
      BY <1>3, <3>1
    <3>3. f[notes[n].key] = n
      BY <3>2 DEF KindsInv, Drafts, Visible
    <3>. QED
      BY <3>1, <3>3
  <2>. QED
    BY <2>1
<1>6. f \in Surjection(keys, img)
  BY <1>4 DEF Surjection
<1>7. IsFiniteSet(img) /\ Cardinality(img) <= Cardinality(keys)
  <2>. HIDE DEF drafts, keys, f
  <2>. QED
    BY <1>1, <1>6, FS_Surjection
<1>. HIDE DEF drafts, keys, f, img
<1>8. IsFiniteSet(drafts) /\ Cardinality(drafts) <= Cardinality(img)
  BY <1>5, <1>7, FS_Subset
<1>9. /\ Cardinality(drafts) \in Nat /\ Cardinality(img) \in Nat
      /\ Cardinality(keys) \in Nat
  BY <1>1, <1>7, <1>8, FS_CardinalityType
<1>. QED
  BY <1>7, <1>8, <1>9 DEF drafts, keys

\* The first reading establishes what a run knows.
LEMMA StartsOnce ==
    ASSUME IInv, OnceInv, StartPublish
    PROVE  OnceInv' /\ StepsOK
<1>. DEFINE seen == {n \in Visible : notes[n].kind \in {"open", "plain"}}
            room == Cap - Cardinality(Threads(seen))
<1>1. /\ UNCHANGED <<mode, notes, rows>> /\ drift' = {}
      /\ job.pc = "idle" /\ review = "running"
  BY DEF StartPublish
<1>2. StepsOK
  BY <1>1, MakesNone, RemovesNone DEF StepsOK
<1>3. UsedStay /\ KindsInv' /\ ReceiptsInv' /\ LateInv'
  <2>1. UsedStay /\ KindsInv'
    BY <1>1, NotesStay
  <2>. QED
    BY <1>1, <2>1, ReceiptsStay, NoneLate, NoneLateThen DEF OnceInv
<1>4. CASE /\ job' = [Idle EXCEPT !.pc = "report", !.by = "publish"]
           /\ review' = review
  <2>1. /\ job'.pc = "report" /\ job'.seen = {} /\ job'.drafts = {} /\ job'.hidden = {}
    BY <1>4 DEF Idle
  <2>2. PhaseInv'
    BY <1>1, <1>4, <2>1 DEF PhaseInv
  <2>. QED
    BY <1>2, <1>3, <2>1, <2>2, Quiet DEF OnceInv
<1>5. CASE job' = job /\ review' = "over"
  <2>1. PhaseInv'
    BY <1>1, <1>5 DEF OnceInv, PhaseInv
  <2>. QED
    BY <1>1, <1>2, <1>3, <1>5, <2>1, Quiet DEF OnceInv
<1>6. CASE /\ mode # "none" /\ review' = review
           /\ job' = [Idle EXCEPT
                !.pc = IF mode = "draft" THEN "drafts" ELSE "comment",
                !.by = "publish", !.todo = Inline, !.seen = seen,
                !.slots = Slots(room, {})]
  <2>. HIDE DEF seen
  <2>1. /\ job'.pc = IF mode = "draft" THEN "drafts" ELSE "comment"
        /\ job'.todo = Inline /\ job'.seen = seen /\ job'.drafts = {}
        /\ job'.hidden = {} /\ job'.slots = Slots(room, {})
    BY <1>6 DEF Idle
  <2>2. seen \subseteq Ids /\ \A n \in seen : notes[n].kind # "unused"
    BY DEF seen, Visible
  <2>3. PhaseInv'
    BY <1>1, <1>6, <2>1, <2>2 DEF PhaseInv
  <2>4. \A n \in Ids : notes[n].kind \in {"open", "plain"} => n \in seen
    BY <1>1, NoneLate DEF seen, Visible
  <2>5. Threads(seen) \in SUBSET Ids /\ Cardinality(Threads(seen)) \in Nat
    BY <2>2, SetsAreFinite DEF Threads
  <2>6. job'.slots > 0 => Cardinality(Threads(seen)) + job'.slots <= Cap
    <3>1. KeysOf({}) \cap Inline = {}
      BY DEF KeysOf
    <3>2. Cardinality(KeysOf({}) \cap Inline) = 0
      BY <3>1, FS_EmptySet
    <3>3. room \in Int /\ Cap \in Nat
      BY <2>5, Bounds
    <3>4. Slots(room, {}) = IF room < 0 THEN 0 ELSE room
      BY <3>2, <3>3 DEF Slots
    <3>. QED
      BY <2>1, <2>5, <3>3, <3>4
  <2>7. \A ns \in SUBSET Ids : (\A n \in ns : notes[n].kind # "draft")
           => Taking(ns) \subseteq Threads(seen)
    BY <2>4 DEF Taking, Threads
  <2>8. \A ns \in SUBSET Ids : (\A n \in ns : notes[n].kind # "draft") /\ job'.slots > 0
           => Cardinality(Taking(ns)) + job'.slots <= Cap
    <3>1. ASSUME NEW ns \in SUBSET Ids, \A n \in ns : notes[n].kind # "draft",
                 job'.slots > 0
          PROVE  Cardinality(Taking(ns)) + job'.slots <= Cap
      <4>1. /\ Cardinality(Taking(ns)) \in Nat
            /\ Cardinality(Taking(ns)) <= Cardinality(Threads(seen))
        BY <2>5, <2>7, <3>1, Fewer
      <4>2. job'.slots \in Nat /\ Cap \in Nat
        BY <2>1, <2>5, SlotsType, Bounds
      <4>. QED
        BY <2>5, <2>6, <3>1, <4>1, <4>2
    <3>. QED
      BY <3>1
  <2>9. Ids \ drift' = Ids
    BY <1>1
  <2>10. DraftingInv'
    <3>1. SUFFICES ASSUME job'.pc = "drafts" PROVE DraftingInv'
      BY DEF DraftingInv
    <3>2. mode = "draft"
      BY <2>1, <3>1
    <3>3. job'.slots > 0 =>
             Cardinality(Taking({n \in Ids : notes[n].kind = "open"})) + job'.slots <= Cap
      BY <2>8
    <3>4. Taking({n \in Ids \ drift : notes[n].kind = "open"})'
             = Taking({n \in Ids : notes[n].kind = "open"})
      BY <1>1, <2>9 DEF Taking
    <3>. QED
      BY <1>1, <2>1, <2>4, <2>9, <3>2, <3>3, <3>4 DEF DraftingInv
  <2>11. PublishInv'
    <3>1. SUFFICES ASSUME job'.pc = "comment" PROVE PublishInv'
      BY <2>1 DEF PublishInv
    <3>2. mode # "draft"
      BY <2>1, <3>1
    <3>3. \A n \in Ids : notes[n].kind # "draft"
      BY <3>2 DEF OnceInv, KindsInv
    <3>4. \A n \in Ids : Live(n) => n \in seen
      BY <2>4, <3>3 DEF Live
    <3>5. \A n \in Ids : Live(n)' => Said(notes[n].key)'
      BY <1>1, <2>1, <3>2, <3>4 DEF Said, KeysOf, Live
    <3>6. job'.slots > 0 => Cardinality(Taking(Ids)) + job'.slots <= Cap
      BY <2>8, <3>3
    <3>7. Taking(Ids \ drift)' = Taking(Ids)
      BY <1>1, <2>9 DEF Taking
    <3>. QED
      BY <2>1, <2>9, <3>1, <3>5, <3>6, <3>7 DEF PublishInv
  <2>12. ActInv' /\ SendInv'
    BY <2>1 DEF ActInv, SendInv
  <2>. QED
    BY <1>2, <1>3, <2>3, <2>10, <2>11, <2>12 DEF OnceInv
<1>. QED
  BY <1>1, <1>4, <1>5, <1>6 DEF StartPublish

\* What has to be shown of the steps that leave the notes.
LEMMA ReadsOnce ==
    ASSUME IInv, OnceInv, ReadPending
    PROVE  OnceInv' /\ StepsOK
<1>. DEFINE mine == {n \in Drafts : notes[n].key \in Inline}
            keys == KeysOf(Drafts) \cap Inline
            open == {n \in Ids \ drift : notes[n].kind = "open"}
<1>1. /\ UNCHANGED <<mode, notes, rows, review, drift>>
      /\ job.pc = "drafts" /\ mode = "draft" /\ review = "running"
      /\ job.todo = Inline
  BY DEF ReadPending, OnceInv, DraftingInv, PhaseInv
<1>2. /\ job'.pc = "comment" /\ job'.drafts = Drafts /\ job'.seen = job.seen
      /\ job'.hidden = job.hidden /\ job'.todo = job.todo
      /\ job'.slots = Slots(job.slots, Drafts)
  BY DEF ReadPending, IInv, TypeOK, JobType
<1>3. StepsOK
  BY <1>1, MakesNone, RemovesNone DEF StepsOK
<1>4. \A n \in Ids : ~notes[n].late
  BY <1>1, NoneLate
<1>5. UsedStay /\ KindsInv' /\ ReceiptsInv' /\ LateInv'
  <2>1. UsedStay /\ KindsInv'
    BY <1>1, NotesStay
  <2>. QED
    BY <1>1, <1>4, <2>1, ReceiptsStay, NoneLateThen DEF OnceInv
<1>6. PhaseInv'
  BY <1>1, <1>2 DEF OnceInv, PhaseInv, Drafts, Visible
<1>7. \A n \in Ids : notes[n].kind = "draft" => n \in Drafts
  BY <1>4 DEF Drafts, Visible
<1>8. ASSUME NEW n \in Ids \ drift, Live(n), notes[n].kind # "plain"
      PROVE  Said(notes[n].key)'
  <2>1. CASE notes[n].kind = "draft"
    BY <1>1, <1>2, <1>7, <2>1 DEF Said, KeysOf
  <2>2. CASE notes[n].kind = "open"
    <3>1. n \in job.seen /\ notes[n].key # Summary
      BY <1>1, <2>2 DEF OnceInv, DraftingInv, KindsInv
    <3>. QED
      BY <1>1, <1>2, <3>1 DEF Said, KeysOf
  <2>. QED
    BY <1>8, <2>1, <2>2 DEF Live
<1>9. job'.slots > 0 => Cardinality(Taking(Ids \ drift)) + job'.slots <= Cap
  <2>1. SUFFICES ASSUME job'.slots > 0
                 PROVE  Cardinality(Taking(Ids \ drift)) + job'.slots <= Cap
    OBVIOUS
  <2>2. mine \in SUBSET Ids /\ Taking(open) \in SUBSET Ids
    BY DEF Taking, Drafts, Visible
  <2>3. Taking(Ids \ drift) \in SUBSET (Taking(open) \cup mine)
    BY <1>7 DEF Taking
  <2>4. Cardinality(Taking(Ids \ drift)) <= Cardinality(Taking(open)) + Cardinality(mine)
    BY <2>2, <2>3, Joined
  <2>5. Cardinality(mine) <= Cardinality(keys)
    BY DraftsAreKeys DEF OnceInv
  <2>6. /\ Cardinality(Taking(Ids \ drift)) \in Nat /\ Cardinality(Taking(open)) \in Nat
        /\ Cardinality(mine) \in Nat /\ Cardinality(keys) \in Nat
        /\ job.slots \in Nat /\ Cap \in Nat
    BY <2>2, SetsAreFinite, Bounds DEF Taking, IInv, TypeOK, JobType
  <2>7. job'.slots = job.slots - Cardinality(keys) /\ job.slots > 0
    BY <1>2, <2>1, <2>6 DEF Slots
  <2>8. Cardinality(Taking(open)) + job.slots <= Cap
    BY <1>1, <2>7 DEF OnceInv, DraftingInv
  <2>. HIDE DEF mine, keys, open
  <2>. QED
    BY <2>4, <2>5, <2>6, <2>7, <2>8
<1>10. PublishInv'
  <2>1. Taking(Ids \ drift)' = Taking(Ids \ drift)
    BY <1>1 DEF Taking
  <2>2. \A n \in Ids \ drift :
           Live(n)' /\ notes'[n].kind # "plain" => Said(notes[n].key)'
    BY <1>1, <1>8 DEF Live
  <2>. QED
    BY <1>1, <1>2, <1>9, <2>1, <2>2 DEF PublishInv
<1>11. DraftingInv' /\ ActInv' /\ SendInv'
  BY <1>2 DEF DraftingInv, ActInv, SendInv
<1>. QED
  BY <1>3, <1>5, <1>6, <1>10, <1>11 DEF OnceInv

\* Going on to the next comment, or to the post of this one: the finding is
\* left behind because it is said already, or is now under way.
LEMMA GoesOn ==
    ASSUME IInv, OnceInv, job.pc \in {"comment", "post"}, NEW todo \in SUBSET job.todo,
           UNCHANGED <<mode, notes, review, drift>>,
           job'.seen = job.seen, job'.drafts = job.drafts, job'.hidden = job.hidden,
           job'.slots = job.slots, job'.todo = todo,
           job'.pc = "comment" \/ (job'.pc = "post" /\ job'.key \in Keys),
           job'.pc = "post" => /\ ~Said(job'.key) /\ job'.key \notin todo
                               /\ job'.key \in job.todo \cup {Summary},
           \A k \in Keys : rows'[k] = rows[k]
              \/ /\ rows'[k].status = rows[k].status \/ (/\ rows[k].status = "none"
                                                        /\ rows'[k].status = "not_published")
                 /\ rows'[k].note = rows[k].note /\ rows'[k].draft = rows[k].draft
                 /\ rows'[k].thread = rows[k].thread \/ rows'[k].thread = "none"
    PROVE  OnceInv' /\ StepsOK
<1>0. /\ KindsInv /\ ReceiptsInv /\ PhaseInv /\ LateInv
      /\ DraftingInv /\ PublishInv /\ ActInv /\ SendInv
  BY DEF OnceInv
<1>1. review = "running" /\ \A n \in Ids : ~notes[n].late
  BY <1>0, NoneLate DEF PhaseInv
<1>2. StepsOK
  <2>1. \A k \in Keys : rows'[k].status = "removed" => rows[k].status = "removed"
    OBVIOUS
  <2>. QED
    BY <2>1, MakesNone, RemovesNone DEF StepsOK
<1>3. UsedStay /\ KindsInv' /\ LateInv'
  BY <1>1, NotesStay, NoneLateThen
<1>4. ReceiptsInv'
  <2>1. rows'[Summary].thread # "open"
    BY <1>0, Bounds DEF ReceiptsInv
  <2>2. ASSUME NEW k \in Keys
        PROVE  /\ rows'[k].status \in {"none", "not_published"}
                     => rows'[k].note = 0 /\ rows'[k].draft = 0
               /\ rows'[k].note # 0 => /\ notes'[rows'[k].note].key = k
                                       /\ notes'[rows'[k].note].kind # "unused"
    BY <1>0 DEF ReceiptsInv
  <2>. QED
    BY <1>0, <2>1, <2>2 DEF ReceiptsInv
<1>5. PhaseInv'
  BY <1>0, <1>1 DEF PhaseInv
<1>6. \A k \in Keys : Said(k)' <=> Said(k)
  BY <1>0, <1>3, SaidStays
<1>7. PublishInv'
  <2>1. ASSUME NEW n \in Ids \ drift, Live(n), mode = "draft" => notes[n].kind # "plain"
        PROVE  Said(notes[n].key)' \/ notes[n].key \in Inline \ (todo \cup Posting')
    <3>1. PICK k \in Keys : k = notes[n].key
      BY DEF IInv, TypeOK
    <3>2. Said(k) \/ k \in Inline \ (job.todo \cup Posting)
      BY <1>0, <2>1, <3>1 DEF PublishInv
    <3>3. Said(k)' <=> Said(notes[n].key)'
      BY <3>1 DEF Said
    <3>4. k \in Inline \ job.todo => k \notin todo /\ k \notin Posting'
      BY PublicationAssumption DEF Posting
    <3>. QED
      BY <1>6, <3>1, <3>2, <3>3, <3>4
  <2>2. Taking(Ids \ drift)' = Taking(Ids \ drift)
    BY DEF Taking
  <2>3. job'.pc = "post" => ~Said(job.key)' /\ job'.key \notin job'.todo
    <3>1. SUFFICES ASSUME job'.pc = "post" PROVE ~Said(job.key)'
      OBVIOUS
    <3>2. PICK k \in Keys : k = job'.key
      BY <3>1
    <3>3. ~Said(k)'
      BY <1>6, <3>1, <3>2
    <3>. QED
      BY <3>2, <3>3 DEF Said
  <2>4. \A n \in Ids \ drift' : Live(n)' => Live(n)
    BY DEF Live
  <2>5. \A n \in Ids \ drift' :
           Live(n)' /\ (mode' = "draft" => notes'[n].kind # "plain")
              => \/ Said(notes[n].key)'
                 \/ notes'[n].key \in Inline \ (job'.todo \cup Posting')
    BY <2>1, <2>4
  <2>6. job'.slots > 0 => Cardinality(Taking(Ids \ drift)') + job'.slots <= Cap
    BY <1>0, <2>2 DEF PublishInv
  <2>. QED
    BY <2>3, <2>5, <2>6 DEF PublishInv
<1>8. DraftingInv' /\ ActInv' /\ SendInv'
  BY DEF DraftingInv, ActInv, SendInv
<1>. QED
  BY <1>2, <1>3, <1>4, <1>5, <1>7, <1>8 DEF OnceInv

\* Steps that post nothing keep it.
LEMMA LeavesOnce ==
    ASSUME IInv, OnceInv, \/ \E k \in Inline : Skip(k) \/ Prepare(k)
                          \/ PrepareSummary \/ PostUnpositionable
    PROVE  OnceInv' /\ StepsOK
<1>0. /\ KindsInv /\ ReceiptsInv /\ PhaseInv /\ LateInv
      /\ job \in JobType /\ rows \in [Keys -> RowType]
  BY DEF OnceInv, IInv, TypeOK
<1>1. /\ UNCHANGED <<mode, notes, drift>> /\ review = "running"
      /\ job.pc \in {"comment", "post"}
  BY <1>0 DEF Skip, Prepare, PrepareSummary, PostUnpositionable, Abort, PhaseInv
<1>2. ASSUME NEW k \in Keys
      PROVE  /\ \/ Remembered(k).status = rows[k].status
                \/ rows[k].status = "none" /\ Remembered(k).status = "not_published"
             /\ Remembered(k).note = rows[k].note /\ Remembered(k).draft = rows[k].draft
             /\ Remembered(k).thread = rows[k].thread
                  \/ Remembered(k).thread = "none"
  <2>1. CASE rows[k].status = "none"
    <3>1. rows[k].note = 0 /\ rows[k].draft = 0
      BY <1>0, <2>1 DEF ReceiptsInv
    <3>2. Remembered(k) = [Entry(TRUE) EXCEPT !.position = (k # Summary)]
      BY <2>1 DEF Remembered
    <3>3. /\ Remembered(k).status = "not_published" /\ Remembered(k).note = 0
          /\ Remembered(k).draft = 0 /\ Remembered(k).thread = "none"
      BY <3>2 DEF Entry, NoRow
    <3>. QED
      BY <2>1, <3>1, <3>3
  <2>2. CASE rows[k].status # "none"
    BY <1>0, <2>2 DEF Remembered, RowType
  <2>. QED
    BY <2>1, <2>2
<1>3. \A k \in Keys : rows'[k] = rows[k]
         \/ /\ rows'[k].status = rows[k].status \/ (/\ rows[k].status = "none"
                                                    /\ rows'[k].status = "not_published")
            /\ rows'[k].note = rows[k].note /\ rows'[k].draft = rows[k].draft
            /\ rows'[k].thread = rows[k].thread \/ rows'[k].thread = "none"
  <2>1. CASE rows' = rows
    BY <2>1
  <2>2. ASSUME NEW k \in Keys, rows' = [rows EXCEPT ![k] = Remembered(k)]
        PROVE  \A i \in Keys : rows'[i] = IF i = k THEN Remembered(k) ELSE rows[i]
    BY <1>0, <2>2
  <2>3. CASE PostUnpositionable
    <3>1. rows' = [rows EXCEPT ![job.key].eligible = FALSE] /\ job.key \in Keys
      BY <1>0, <2>3 DEF PostUnpositionable, JobType
    <3>. QED
      BY <1>0, <3>1 DEF RowType
  <2>4. CASE rows' = rows \/ \E k \in Keys : rows' = [rows EXCEPT ![k] = Remembered(k)]
    BY <1>2, <2>2, <2>4
  <2>5. ASSUME NEW k \in Inline, Prepare(k)
        PROVE  rows' = rows \/ rows' = [rows EXCEPT ![k] = Remembered(k)]
    BY <2>5 DEF Prepare
  <2>6. PrepareSummary => rows' = [rows EXCEPT ![Summary] = Remembered(Summary)]
    BY DEF PrepareSummary
  <2>. QED
    BY <2>3, <2>4, <2>5, <2>6, Bounds DEF Skip
<1>4. CASE Abort \/ (job' = [job EXCEPT !.pc = "report"] /\ review' = review)
  <2>1. /\ job'.pc \in {"idle", "report"}
        /\ job'.seen \cup job'.drafts \subseteq job.seen \cup job.drafts
        /\ job'.hidden \subseteq job.hidden
        /\ job'.pc = "report" => review' = review
    BY <1>0, <1>4 DEF Abort, Idle, JobType
  <2>2. PhaseInv'
    BY <1>0, <1>1, <2>1 DEF PhaseInv
  <2>3. KindsInv' /\ UsedStay /\ LateInv'
    BY <1>1, NotesStay, NoneLate, NoneLateThen
  <2>4. ReceiptsInv'
    BY <1>0, <1>1, <1>3, Bounds DEF ReceiptsInv
  <2>5. StepsOK
    <3>1. \A k \in Keys : rows'[k].status = "removed" => rows[k].status = "removed"
      BY <1>3
    <3>. QED
      BY <1>1, <3>1, MakesNone, RemovesNone DEF StepsOK
  <2>. QED
    BY <2>1, <2>2, <2>3, <2>4, <2>5, Quiet DEF OnceInv
<1>5. ASSUME ~Abort, ~(job' = [job EXCEPT !.pc = "report"] /\ review' = review)
      PROVE  \E todo \in SUBSET job.todo :
                /\ review' = review
                /\ job'.seen = job.seen /\ job'.drafts = job.drafts
                /\ job'.hidden = job.hidden /\ job'.slots = job.slots
                /\ job'.todo = todo
                /\ job'.pc = "comment" \/ (job'.pc = "post" /\ job'.key \in Keys)
                /\ job'.pc = "post" => /\ ~Said(job'.key) /\ job'.key \notin todo
                                       /\ job'.key \in job.todo \cup {Summary}
  <2>1. ASSUME NEW k \in Inline, Skip(k)
        PROVE  /\ review' = review /\ job'.pc = "comment"
               /\ job'.seen = job.seen /\ job'.drafts = job.drafts
               /\ job'.hidden = job.hidden /\ job'.slots = job.slots
               /\ job'.todo \in SUBSET job.todo
    BY <1>0, <2>1 DEF Skip, JobType
  <2>2. ASSUME NEW k \in Inline, Prepare(k)
        PROVE  /\ review' = review /\ job'.pc = "post" /\ job'.key = k
               /\ k \in job.todo /\ ~Said(k) /\ k \in Keys
               /\ job'.seen = job.seen /\ job'.drafts = job.drafts
               /\ job'.hidden = job.hidden /\ job'.slots = job.slots
               /\ job'.todo = job.todo \ {k}
    BY <1>0, <1>5, <2>2, Bounds DEF Prepare, JobType, Unwanted
  <2>3. ASSUME PrepareSummary
        PROVE  /\ review' = review /\ job'.pc = "post" /\ job'.key = Summary
               /\ job.todo = {} /\ ~Said(Summary) /\ Summary \in Keys
               /\ job'.seen = job.seen /\ job'.drafts = job.drafts
               /\ job'.hidden = job.hidden /\ job'.slots = job.slots
               /\ job'.todo = job.todo
    BY <1>0, <1>5, <2>3, Bounds DEF PrepareSummary, JobType, Unwanted
  <2>4. ASSUME PostUnpositionable
        PROVE  /\ review' = review /\ job'.pc = "comment"
               /\ job'.seen = job.seen /\ job'.drafts = job.drafts
               /\ job'.hidden = job.hidden /\ job'.slots = job.slots
               /\ job'.todo \in SUBSET job.todo
    BY <1>0, <2>4 DEF PostUnpositionable, JobType
  <2>. QED
    BY <2>1, <2>2, <2>3, <2>4
<1>6. ASSUME NEW todo \in SUBSET job.todo, review' = review,
             job'.seen = job.seen, job'.drafts = job.drafts,
             job'.hidden = job.hidden, job'.slots = job.slots, job'.todo = todo,
             job'.pc = "comment" \/ (job'.pc = "post" /\ job'.key \in Keys),
             job'.pc = "post" => /\ ~Said(job'.key) /\ job'.key \notin todo
                                 /\ job'.key \in job.todo \cup {Summary}
      PROVE  OnceInv' /\ StepsOK
  BY <1>1, <1>3, <1>6, GoesOn
<1>. QED
  BY <1>4, <1>5, <1>6

\* A post adds the one comment that the run did not find said, in the room that
\* it counted.
LEMMA WorkerOnce ==
    ASSUME IInv, OnceInv, job.pc = "post", WorkerMakes, UNCHANGED <<mode, drift>>
    PROVE  /\ UsedStay /\ KindsInv' /\ LateInv' /\ DuplicateStep /\ CeilingStep
           /\ \A n \in Ids \ drift : Live(n)' /\ ~Live(n) => notes'[n].key = job.key
           /\ \A n \in Ids \ drift : Live(n)' /\ Live(n) =>
                 notes'[n].key = notes[n].key /\ notes'[n].kind = notes[n].kind
           /\ job.slots > 0 =>
                 Cardinality(Taking(Ids \ drift)') + job.slots - 1 <= Cap
<1>0. /\ KindsInv /\ PhaseInv /\ LateInv /\ PublishInv
      /\ job.key \in Keys /\ drift \subseteq Ids
  BY DEF OnceInv, IInv, TypeOK, JobType
<1>a. PICK n : Made(n, job.key, PostKind(job.key), FALSE, 0)
  BY DEF WorkerMakes
<1>b. n \in Ids
  BY <1>a DEF Made
<1>c. PICK k \in Keys, kind \in Kinds : k = job.key /\ kind = PostKind(job.key)
  BY <1>0, NoteKinds
<1>1. /\ n \in Ids /\ k = job.key /\ kind = PostKind(job.key)
      /\ Made(n, k, kind, FALSE, 0)
  BY <1>a, <1>b, <1>c DEF Made
<1>2. /\ kind \in Kinds \ {"unused"} /\ kind \in {"draft", "open", "plain"}
      /\ kind = "draft" <=> mode = "draft"
      /\ k = Summary => kind # "open"
      /\ k \in Inline => kind # "plain"
  BY <1>1, NoteKinds DEF PostKind, PublishedKind
<1>3. \A i \in Ids \ {n} : notes'[i] = notes[i]
  BY <1>1, Bounds DEF Made
<1>4. /\ notes[n].kind = "unused" /\ notes'[n].key = k /\ notes'[n].kind = kind
      /\ notes'[n].late = FALSE
  BY <1>1 DEF Made
<1>5. UsedStay
  BY <1>1, MadeStays
<1>6. n \notin drift
  BY <1>0, <1>4 DEF KindsInv
<1>7. \A i \in Ids : ~notes'[i].late
  BY <1>0, <1>3, <1>4, NoneLate DEF PhaseInv
<1>8. \A i \in Ids \ drift : notes[i].key = k =>
         ~(Live(i) /\ (mode = "draft" => notes[i].kind # "plain"))
  <2>1. SUFFICES ASSUME NEW i \in Ids \ drift, notes[i].key = k, Live(i),
                        mode = "draft" => notes[i].kind # "plain"
                 PROVE  FALSE
    OBVIOUS
  <2>2. Said(notes[i].key) \/ notes[i].key \notin Posting
    BY <1>0, <2>1 DEF PublishInv
  <2>3. ~Said(job.key) /\ k \in Posting
    BY <1>0, <1>1 DEF PublishInv, Posting
  <2>4. Said(notes[i].key) <=> Said(job.key)
    BY <1>1, <2>1 DEF Said
  <2>. QED
    BY <2>1, <2>2, <2>3, <2>4
<1>9. KindsInv'
  <2>1. \A i \in Ids : notes'[i].key = Summary
           => notes'[i].kind \notin {"open", "resolved"}
    BY <1>0, <1>2, <1>3, <1>4 DEF KindsInv
  <2>2. mode # "draft" => \A i \in Ids : notes'[i].kind # "draft"
    BY <1>0, <1>2, <1>3, <1>4 DEF KindsInv
  <2>3. \A i \in Ids \ {n} : kind = "draft" /\ notes[i].kind = "draft"
           => notes[i].key # k
    BY <1>0, <1>2, <1>8 DEF KindsInv, Live
  <2>4. ASSUME NEW i \in Ids, NEW j \in Ids, notes'[i].kind = "draft",
               notes'[j].kind = "draft", notes'[i].key = notes'[j].key
        PROVE  i = j
    <3>1. CASE i # n /\ j # n
      BY <1>0, <1>3, <2>4, <3>1 DEF KindsInv
    <3>2. CASE i = n /\ j # n
      BY <1>3, <1>4, <2>3, <2>4, <3>2
    <3>3. CASE i # n /\ j = n
      BY <1>3, <1>4, <2>3, <2>4, <3>3
    <3>. QED
      BY <3>1, <3>2, <3>3
  <2>5. \A i \in drift : notes'[i].kind \notin {"unused", "draft"}
    BY <1>0, <1>3, <1>6 DEF KindsInv
  <2>. QED
    BY <2>1, <2>2, <2>4, <2>5 DEF KindsInv
<1>10. \A i \in Ids : Makes(i) => i = n
  BY <1>3 DEF Makes
<1>11. DuplicateStep
  <2>1. SUFFICES ASSUME NEW m \in Ids \ {n}, notes'[m].key = k, m \notin drift,
                        mode = "draft" => notes'[m].kind # "plain"
                 PROVE  ~LiveThen(m)
    BY <1>4, <1>10 DEF DuplicateStep
  <2>2. notes'[m] = notes[m]
    BY <1>3
  <2>. QED
    BY <1>8, <2>1, <2>2 DEF Live, LiveThen
<1>12. job.slots > 0 =>
          Cardinality(Taking(Ids \ drift)') + job.slots - 1 <= Cap
  <2>1. Taking(Ids \ drift) \in SUBSET Ids
    BY DEF Taking
  <2>2. Taking(Ids \ drift)' \in SUBSET (Taking(Ids \ drift) \cup {n})
    BY <1>3 DEF Taking
  <2>3. Cardinality(Taking(Ids \ drift)') <= Cardinality(Taking(Ids \ drift)) + 1
    BY <1>b, <2>1, <2>2, OneMore
  <2>4. /\ Cardinality(Taking(Ids \ drift)) \in Nat
        /\ Cardinality(Taking(Ids \ drift)') \in Nat
        /\ job.slots \in Nat /\ Cap \in Nat
    BY <2>1, SetsAreFinite, Bounds DEF Taking, IInv, TypeOK, JobType
  <2>5. job.slots > 0 => Cardinality(Taking(Ids \ drift)) + job.slots <= Cap
    BY <1>0 DEF PublishInv
  <2>. QED
    BY <2>3, <2>4, <2>5
<1>13. CeilingStep
  <2>1. SUFFICES ASSUME k \in Inline
                 PROVE  Cardinality({m \in Ids \ drift :
                           /\ notes'[m].kind \in {"draft", "open"} /\ ~notes'[m].late
                           /\ notes'[m].key \in Inline}) <= Cap
    BY <1>4, <1>10 DEF CeilingStep
  <2>2. job.slots > 0
    BY <1>1, <2>1, PublicationAssumption DEF IInv, StepInv
  <2>3. {m \in Ids \ drift :
           /\ notes'[m].kind \in {"draft", "open"} /\ ~notes'[m].late
           /\ notes'[m].key \in Inline} = Taking(Ids \ drift)'
    BY DEF Taking
  <2>4. /\ Cardinality(Taking(Ids \ drift)') \in Nat
        /\ job.slots \in Nat /\ Cap \in Nat
    BY SetsAreFinite, Bounds DEF Taking, IInv, TypeOK, JobType
  <2>5. Cardinality(Taking(Ids \ drift)') <= Cap
    BY <1>12, <2>2, <2>4
  <2>. QED
    BY <2>3, <2>5
<1>14. \A i \in Ids \ drift : Live(i)' /\ ~Live(i) => notes'[i].key = job.key
  BY <1>1, <1>3, <1>4 DEF Live
<1>15. \A i \in Ids \ drift : Live(i)' /\ Live(i) =>
          notes'[i].key = notes[i].key /\ notes'[i].kind = notes[i].kind
  BY <1>3, <1>4 DEF Live
<1>. QED
  BY <1>5, <1>7, <1>9, <1>11, <1>12, <1>13, <1>14, <1>15, NoneLateThen

\* A post keeps it, and passes neither the ceiling nor what was said.
LEMMA PostsOnce ==
    ASSUME IInv, OnceInv, "publish" \notin LatePosts, Post
    PROVE  OnceInv' /\ StepsOK
<1>0. /\ KindsInv /\ ReceiptsInv /\ PhaseInv /\ LateInv /\ PublishInv
      /\ job \in JobType /\ rows \in [Keys -> RowType] /\ job.key \in Keys
      /\ job.pc = "post" /\ review = "running"
  BY DEF OnceInv, IInv, TypeOK, JobType, Post, PhaseInv
<1>1. /\ UNCHANGED <<mode, review, drift>>
      /\ notes' = Created(job.key, PostKind(job.key), FALSE)
  BY DEF Post
<1>2. New \in Ids /\ notes[New].kind = "unused" /\ notes \in [Ids -> NoteType]
  BY <1>0, NewIsUnused, InFourParts DEF IInv, RoomInv, NotesOK
<1>3. WorkerMakes
  <2>1. notes' = notes \/ WorkerMakes
    BY <1>0, <1>1, WorkerPosts
  <2>2. notes' # notes
    <3>1. PICK kind : kind = PostKind(job.key)
      OBVIOUS
    <3>2. kind # "unused"
      BY <1>0, <3>1, NoteKinds
    <3>3. notes'[New] = [key |-> job.key, kind |-> kind, late |-> FALSE]
      BY <1>1, <1>2, <3>1 DEF Created
    <3>. QED
      BY <1>2, <3>2, <3>3
  <2>. QED
    BY <2>1, <2>2
<1>4. /\ UsedStay /\ KindsInv' /\ LateInv' /\ DuplicateStep /\ CeilingStep
  BY <1>0, <1>1, <1>3, WorkerOnce
<1>5. /\ notes'[New].key = job.key /\ notes'[New].kind # "unused"
  <2>1. PICK kind : kind = PostKind(job.key)
    OBVIOUS
  <2>2. kind # "unused"
    BY <1>0, <2>1, NoteKinds
  <2>3. notes'[New] = [key |-> job.key, kind |-> kind, late |-> FALSE]
    BY <1>1, <1>2, <2>1 DEF Created
  <2>. QED
    BY <2>2, <2>3
<1>6. /\ rows'[job.key].status \in {"drafted", "committed"}
      /\ rows'[job.key].note \in {rows[job.key].note, New}
      /\ rows'[job.key].thread = rows[job.key].thread \/ job.key # Summary
      /\ \A k \in Keys \ {job.key} : rows'[k] = rows[k]
  BY <1>0 DEF Post, RowType
<1>7. ReceiptsInv'
  <2>1. rows'[Summary].thread # "open"
    BY <1>0, <1>6, Bounds DEF ReceiptsInv
  <2>2. ASSUME NEW k \in Keys, rows[k].note # 0
        PROVE  notes'[rows[k].note].key = k /\ notes'[rows[k].note].kind # "unused"
    <3>1. rows[k].note \in Ids
      BY <1>0, <2>2 DEF RowType, Ids
    <3>. QED
      BY <1>0, <1>4, <2>2, <3>1 DEF ReceiptsInv, UsedStay
  <2>3. ASSUME NEW k \in Keys
        PROVE  /\ rows'[k].status \in {"none", "not_published"}
                     => rows'[k].note = 0 /\ rows'[k].draft = 0
               /\ rows'[k].note # 0 => /\ notes'[rows'[k].note].key = k
                                       /\ notes'[rows'[k].note].kind # "unused"
    <3>1. CASE k = job.key
      BY <1>5, <1>6, <2>2, <3>1
    <3>2. CASE k # job.key
      BY <1>0, <1>6, <2>2, <3>2 DEF ReceiptsInv
    <3>. QED
      BY <3>1, <3>2
  <2>. QED
    BY <2>1, <2>3 DEF ReceiptsInv
<1>8. GoneStep
  BY <1>6, RemovesNone
<1>9. /\ job'.seen = job.seen /\ job'.drafts = job.drafts /\ job'.hidden = job.hidden
      /\ job'.todo = job.todo
      /\ \/ job.key = Summary /\ job'.pc = "report"
         \/ job.key # Summary /\ job'.pc = "comment" /\ job'.slots = job.slots - 1
  BY <1>0 DEF Post, JobType
<1>10. PhaseInv'
  <2>1. job.seen \subseteq Ids /\ job.drafts \subseteq Ids /\ job.hidden \subseteq Ids
    BY <1>0 DEF JobType
  <2>. QED
    BY <1>0, <1>1, <1>4, <1>9, <2>1 DEF PhaseInv, UsedStay
<1>11. CASE job.key = Summary
  BY <1>4, <1>7, <1>8, <1>9, <1>10, <1>11, Quiet DEF OnceInv, StepsOK
<1>12. CASE job.key # Summary
  <2>1. job'.pc = "comment" /\ job'.slots = job.slots - 1 /\ job.key \in Inline
    BY <1>0, <1>9, <1>12 DEF Keys
  <2>2. job.slots > 0 /\ job.slots \in Nat
    BY <1>0, <1>12, Bounds DEF IInv, StepInv, JobType
  <2>3. \A k \in Keys : Said(k)' <=> Said(k)
    BY <1>0, <1>1, <1>4, <1>9, SaidStays
  <2>4. ASSUME NEW n \in Ids \ drift, Live(n)', mode = "draft" => notes'[n].kind # "plain"
        PROVE  Said(notes[n].key)' \/ notes'[n].key \in Inline \ job.todo
    <3>1. CASE ~Live(n)
      <4>1. notes'[n].key = job.key
        BY <1>0, <1>1, <1>3, <2>4, <3>1, WorkerOnce
      <4>. QED
        BY <1>0, <2>1, <4>1 DEF PublishInv
    <3>2. CASE Live(n)
      <4>1. notes'[n].key = notes[n].key /\ notes'[n].kind = notes[n].kind
        BY <1>0, <1>1, <1>3, <2>4, <3>2, WorkerOnce
      <4>2. PICK k \in Keys : k = notes[n].key
        BY <1>2 DEF NoteType
      <4>3. Said(k) \/ k \in Inline \ (job.todo \cup Posting)
        BY <1>0, <2>4, <3>2, <4>1, <4>2 DEF PublishInv
      <4>4. Said(k)' => Said(notes[n].key)'
        BY <4>1, <4>2 DEF Said
      <4>. QED
        BY <2>3, <4>1, <4>2, <4>3, <4>4
    <3>. QED
      BY <3>1, <3>2
  <2>5. Cardinality(Taking(Ids \ drift)') + job'.slots <= Cap
    <3>1. Cardinality(Taking(Ids \ drift)') + job.slots - 1 <= Cap
      BY <1>0, <1>1, <1>3, <2>2, WorkerOnce
    <3>2. Cardinality(Taking(Ids \ drift)') \in Nat
      BY SetsAreFinite DEF Taking
    <3>. QED
      BY <2>1, <2>2, <3>1, <3>2, Bounds
  <2>6. PublishInv'
    <3>1. Posting' = {}
      BY <2>1 DEF Posting
    <3>2. Ids \ drift' = Ids \ drift /\ job'.todo = job.todo /\ mode' = mode
      BY <1>1, <1>9
    <3>. QED
      BY <2>1, <2>4, <2>5, <3>1, <3>2 DEF PublishInv
  <2>7. DraftingInv' /\ ActInv' /\ SendInv'
    BY <2>1 DEF DraftingInv, ActInv, SendInv
  <2>. QED
    BY <1>4, <1>7, <1>8, <1>10, <2>6, <2>7 DEF OnceInv, StepsOK
<1>. QED
  BY <1>11, <1>12

\* A run that ends, of itself or by a crash.
LEMMA EndsOnce ==
    ASSUME IInv, OnceInv, UNCHANGED <<mode, rows, drift>>, job' = Idle,
           notes' = notes \/ (job.pc = "post" /\ WorkerMakes),
           review' = review \/ review = "running"
    PROVE  OnceInv' /\ StepsOK
<1>0. /\ KindsInv /\ ReceiptsInv /\ PhaseInv /\ LateInv
  BY DEF OnceInv
<1>1. /\ job'.pc = "idle" /\ job'.seen = {} /\ job'.drafts = {} /\ job'.hidden = {}
  BY DEF Idle
<1>2. GoneStep
  BY RemovesNone
<1>4. UsedStay /\ KindsInv' /\ DuplicateStep /\ CeilingStep
  BY WorkerOnce, NotesStay, MakesNone
<1>5. LateInv'
  <2>1. CASE notes' = notes /\ review' = review
    BY <1>0, <1>1, <2>1 DEF LateInv, Void
  <2>2. CASE notes' = notes /\ review = "running"
    BY <2>2, NoneLate, NoneLateThen
  <2>3. CASE job.pc = "post" /\ WorkerMakes
    BY <2>3, WorkerOnce
  <2>. QED
    BY <2>1, <2>2, <2>3
<1>6. ReceiptsInv'
  BY <1>0, <1>4, ReceiptsStay
<1>7. PhaseInv'
  BY <1>1 DEF PhaseInv
<1>. QED
  BY <1>1, <1>2, <1>4, <1>5, <1>6, <1>7, Quiet DEF OnceInv, StepsOK

\* The end of a run, or of a post that failed, keeps it.
LEMMA FinishesOnce ==
    ASSUME IInv, OnceInv, "publish" \notin LatePosts, Finish \/ PostFails
    PROVE  OnceInv' /\ StepsOK
<1>1. CASE Finish
  <2>1. review = "running"
    BY <1>1 DEF Finish, OnceInv, PhaseInv
  <2>. QED
    BY <1>1, <2>1, EndsOnce DEF Finish
<1>2. CASE PostFails
  <2>1. review = "running" /\ job.pc = "post"
    BY <1>2 DEF PostFails, OnceInv, PhaseInv
  <2>2. notes' = notes \/ WorkerMakes
    BY <1>2, <2>1, WorkerPosts DEF PostFails
  <2>. QED
    BY <1>2, <2>1, <2>2, EndsOnce DEF PostFails, Abort
<1>. QED
  BY <1>1, <1>2
-----------------------------------------------------------------------------
(***************************************************************************)
(* The dashboard: reconciliation                                           *)
(***************************************************************************)

\* Steps that leave notes and rows, and turn to reading.
LEMMA TurnsOnce ==
    ASSUME IInv, OnceInv, UNCHANGED <<mode, notes, rows, review>>, drift' \subseteq drift,
           job'.pc \in {"sync", "discussions"},
           job'.seen \subseteq job.seen, job'.hidden \subseteq job.hidden,
           job'.pc = "sync" => job'.drafts = {},
           job'.pc = "discussions" => job'.drafts = Drafts,
           job'.by = "inspect" \/ review = "published"
    PROVE  OnceInv' /\ StepsOK
<1>0. KindsInv /\ ReceiptsInv /\ PhaseInv /\ LateInv
  BY DEF OnceInv
<1>1. StepsOK
  BY MakesNone, RemovesNone DEF StepsOK
<1>2. UsedStay /\ KindsInv'
  BY NotesStay
<1>3. ReceiptsInv'
  BY <1>0, <1>2, ReceiptsStay
<1>4. \A n \in Drafts : n \in Ids /\ notes[n].kind = "draft"
  BY DEF Drafts, Visible
<1>5. PhaseInv'
  <2>1. Drafts' = Drafts
    BY DEF Drafts, Visible
  <2>2. \A n \in job'.seen \cup job'.drafts : notes'[n].kind # "unused"
    BY <1>0, <1>4 DEF PhaseInv
  <2>. QED
    BY <1>0, <2>1, <2>2 DEF PhaseInv
<1>6. LateInv'
  <2>1. ASSUME NEW n \in Ids, notes[n].late, NEW m \in job'.drafts
        PROVE  notes[m].key # notes[n].key
    <3>1. m \in Ids /\ notes[m].kind = "draft"
      BY <1>4, <2>1
    <3>2. ~Void(m) /\ m # n
      BY <1>0, <2>1, <3>1 DEF Void, LateInv
    <3>. QED
      BY <1>0, <2>1, <3>1, <3>2 DEF LateInv
  <2>. QED
    BY <1>0, <2>1 DEF LateInv, Void
<1>. QED
  BY <1>1, <1>2, <1>3, <1>5, <1>6, Quiet DEF OnceInv

\* What reconciliation makes of a row, case by case.
ReconciledWhat(k, drafts) ==
    LET row == Seeded(k)
        own == Of(k) \cap drafts
        after == Reconciled(k, drafts)
    IN \/ after = row /\ row.status \in {"none", "removed"}
       \/ /\ after.conflict /\ after.status = row.status
          /\ after.intent = row.intent /\ after.note = row.note
          /\ after.draft = row.draft /\ after.thread = row.thread
       \/ /\ Matches(k) # {} /\ own = {} /\ ~(Cardinality(Matches(k)) > 1)
          /\ ~after.conflict /\ after.status = "committed"
          /\ after.note = Only(Matches(k))
          /\ k = Summary => after.thread = "none"
       \/ /\ Matches(k) = {} /\ own # {} /\ ~(Cardinality(own) > 1)
          /\ ~after.conflict /\ after.status = "drafted"
          /\ after.note = 0 /\ after.draft = Only(own) /\ after.thread = "none"
       \/ /\ Matches(k) = {} /\ own = {}
          /\ ~after.conflict /\ after.status = "removed"
          /\ after.note = row.note /\ after.thread = "none"
          /\ \/ row.status \in {"drafted", "committed", "removed"}
             \/ row.intent = "remove"
       \/ /\ Matches(k) = {} /\ own = {}
          /\ row.status \notin {"drafted", "committed", "removed", "none"}
          /\ after.conflict = (row.intent = "publish")
          /\ after.status = row.status /\ after.intent = row.intent
          /\ after.note = row.note /\ after.draft = row.draft
          /\ after.thread = row.thread

\* A seeded row is a row, and only an absent one is new.
LEMMA SeededType ==
    ASSUME IInv, NEW k \in Keys
    PROVE  /\ Seeded(k) \in RowType
           /\ rows[k].status # "none" => Seeded(k) = rows[k]
           /\ rows[k].status = "none" =>
                 /\ Seeded(k).status \in {"none", "not_published"}
                 /\ Seeded(k).intent = "none" /\ Seeded(k).note = 0
                 /\ Seeded(k).draft = 0 /\ Seeded(k).thread = "none"
<1>1. rows[k] \in RowType
  BY DEF IInv, TypeOK
<1>2. ASSUME NEW b \in BOOLEAN
      PROVE  /\ Entry(b) \in RowType /\ Entry(b).status = "not_published"
             /\ Entry(b).intent = "none" /\ Entry(b).note = 0
             /\ Entry(b).draft = 0 /\ Entry(b).thread = "none"
  <2>1. /\ NoRow \in RowType /\ NoRow.intent = "none" /\ NoRow.note = 0
        /\ NoRow.draft = 0 /\ NoRow.thread = "none"
        /\ Entry(b) = [NoRow EXCEPT !.status = "not_published", !.body = b]
    BY Bounds DEF RowType, NoRow, Entry
  <2>. QED
    BY <2>1 DEF RowType
<1>3. /\ NoRow \in RowType /\ NoRow.status = "none"
      /\ NoRow.intent = "none" /\ NoRow.note = 0
      /\ NoRow.draft = 0 /\ NoRow.thread = "none"
  BY Bounds DEF RowType, NoRow
<1>4. Seeded(k) \in {rows[k], Entry(TRUE), Entry(FALSE), NoRow}
  BY DEF Seeded
<1>5. rows[k].status = "none" => Seeded(k) \in {Entry(TRUE), Entry(FALSE), NoRow}
  BY DEF Seeded
<1>6. rows[k].status # "none" => Seeded(k) = rows[k]
  BY DEF Seeded
<1>. QED
  BY <1>1, <1>2, <1>3, <1>4, <1>5, <1>6

\* What reconciliation makes of a row, case by case.
LEMMA ReconcilesSo ==
    ASSUME IInv, NEW k \in Keys, NEW drafts
    PROVE  ReconciledWhat(k, drafts)
<1>. DEFINE row == Seeded(k)
            matches == Matches(k)
            own == Of(k) \cap drafts
            after == Reconciled(k, drafts)
            none == row.status = "none"
            owner == row.byOwner /\ row.status = "removed" /\ row.intent = "none"
            many == \/ Cardinality(matches) > 1 \/ Cardinality(own) > 1
                    \/ (matches # {} /\ own # {})
            gone == \/ row.status \in {"drafted", "committed", "removed"}
                    \/ row.intent = "remove"
            posted == [row EXCEPT
                    !.conflict = FALSE, !.status = "committed", !.body = TRUE,
                    !.intent = IF row.intent = "publish" THEN "none" ELSE row.intent,
                    !.note = Only(matches), !.draft = 0,
                    !.thread = IF k = Summary THEN "none"
                               ELSE notes[Only(matches)].kind]
            drafted == [row EXCEPT
                    !.conflict = FALSE, !.status = "drafted", !.body = TRUE,
                    !.draft = Only(own), !.note = 0, !.thread = "none"]
            removed == [row EXCEPT !.conflict = FALSE, !.status = "removed",
                             !.thread = "none", !.intent = "none"]
<1>1. row \in RowType
  BY SeededType
<1>2. after =
          CASE none -> row
            [] owner -> row
            [] OTHER ->
               IF many THEN [row EXCEPT !.conflict = TRUE]
               ELSE IF matches # {} THEN posted
               ELSE IF own # {} THEN drafted
               ELSE IF gone THEN removed
               ELSE [row EXCEPT !.conflict = (row.intent = "publish")]
  BY DEF Reconciled
<1>. HIDE DEF row, matches, own, after
<1>3. CASE none \/ owner
  <2>1. after = row
    BY <1>2, <1>3
  <2>2. after = row /\ row.status \in {"none", "removed"}
    BY <1>3, <2>1
  <2>. QED
    BY <2>2 DEF ReconciledWhat, row, after
<1>4. CASE ~(none \/ owner)
  <2>0. after =
               IF many THEN [row EXCEPT !.conflict = TRUE]
               ELSE IF matches # {} THEN posted
               ELSE IF own # {} THEN drafted
               ELSE IF gone THEN removed
               ELSE [row EXCEPT !.conflict = (row.intent = "publish")]
    BY <1>2, <1>4
  <2>1. CASE many
    <3>1. after = [row EXCEPT !.conflict = TRUE]
      BY <2>0, <2>1
    <3>2. /\ after.conflict /\ after.status = row.status
          /\ after.intent = row.intent /\ after.note = row.note
          /\ after.draft = row.draft /\ after.thread = row.thread
      BY <1>1, <3>1 DEF RowType
    <3>. QED
      BY <3>2 DEF ReconciledWhat, row, after
  <2>2. CASE ~many /\ matches # {}
    <3>1. after = posted
      BY <2>0, <2>2
    <3>2. /\ ~after.conflict /\ after.status = "committed"
          /\ after.note = Only(matches)
          /\ k = Summary => after.thread = "none"
      BY <1>1, <3>1 DEF RowType
    <3>3. own = {} /\ ~(Cardinality(matches) > 1)
      BY <2>2
    <3>. QED
      BY <2>2, <3>2, <3>3 DEF ReconciledWhat, row, after, matches, own
  <2>3. CASE ~many /\ matches = {} /\ own # {}
    <3>1. after = drafted
      BY <2>0, <2>3
    <3>2. /\ ~after.conflict /\ after.status = "drafted"
          /\ after.note = 0 /\ after.draft = Only(own) /\ after.thread = "none"
      BY <1>1, <3>1 DEF RowType
    <3>3. ~(Cardinality(own) > 1)
      BY <2>3
    <3>. QED
      BY <2>3, <3>2, <3>3 DEF ReconciledWhat, row, after, matches, own
  <2>4. CASE ~many /\ matches = {} /\ own = {} /\ gone
    <3>1. after = removed
      BY <2>0, <2>4
    <3>2. /\ ~after.conflict /\ after.status = "removed"
          /\ after.note = row.note /\ after.thread = "none"
      BY <1>1, <3>1 DEF RowType
    <3>3. \/ row.status \in {"drafted", "committed", "removed"}
          \/ row.intent = "remove"
      BY <2>4
    <3>. QED
      BY <2>4, <3>2, <3>3 DEF ReconciledWhat, row, after, matches, own
  <2>5. CASE ~many /\ matches = {} /\ own = {} /\ ~gone
    <3>1. after = [row EXCEPT !.conflict = (row.intent = "publish")]
      BY <2>0, <2>5
    <3>2. /\ after.conflict = (row.intent = "publish")
          /\ after.status = row.status /\ after.intent = row.intent
          /\ after.note = row.note /\ after.draft = row.draft
          /\ after.thread = row.thread
      BY <1>1, <3>1 DEF RowType
    <3>3. row.status \notin {"drafted", "committed", "removed", "none"}
      BY <1>4, <2>5
    <3>. QED
      BY <2>5, <3>2, <3>3 DEF ReconciledWhat, row, after, matches, own
  <2>. QED
    BY <2>1, <2>2, <2>3, <2>4, <2>5
<1>. QED
  BY <1>3, <1>4

\* The notes a row may be reconciled with are visible and of its finding.
LEMMA MatchesSo ==
    ASSUME NEW k \in Keys
    PROVE  /\ Matches(k) \in SUBSET Ids
           /\ \A n \in Matches(k) :
                 n \in Visible /\ notes[n].key = k /\ notes[n].kind # "draft"
           /\ Matches(k) = {} =>
                 \A n \in Visible : notes[n].key = k /\ notes[n].kind # "draft"
                    => rows[k].note \notin {0, n}
<1>. DEFINE all == {n \in Of(k) \cap Visible : notes[n].kind # "draft"}
            open == {n \in all : notes[n].kind = "open"}
<1>1. Matches(k) = IF rows[k].note # 0 THEN all \cap {rows[k].note}
                   ELSE IF Cardinality(all) > 1 /\ Cardinality(open) = 1 THEN open
                   ELSE all
  BY DEF Matches
<1>2. Matches(k) \in SUBSET all
  <2>. HIDE DEF all
  <2>. QED
    BY <1>1
<1>3. all \subseteq Ids /\ \A n \in all :
         n \in Visible /\ notes[n].key = k /\ notes[n].kind # "draft"
  BY DEF Of
<1>4. ASSUME Matches(k) = {}, NEW n \in Visible, notes[n].key = k,
             notes[n].kind # "draft"
      PROVE  rows[k].note \notin {0, n}
  <2>1. n \in all
    BY <1>4 DEF Of, Visible
  <2>2. open # {} \/ Cardinality(open) = 0
    BY FS_EmptySet
  <2>. HIDE DEF all, open
  <2>. QED
    BY <1>1, <1>4, <2>1, <2>2
<1>. QED
  BY <1>2, <1>3, <1>4

\* The rows after a reconciliation.
SyncedRows == \A k \in Keys : ReconciledWhat(k, job.drafts)
                              /\ rows'[k] = Reconciled(k, job.drafts)

\* Reconciliation copies receipts of the row's own finding,
LEMMA SyncsReceipts ==
    ASSUME IInv, OnceInv, notes' = notes, SyncedRows
    PROVE  ReceiptsInv'
<1>0. ReceiptsInv
  BY DEF OnceInv
<1>1. ASSUME NEW k \in Keys
      PROVE  /\ rows'[k].status \in {"none", "not_published"}
                   => rows'[k].note = 0 /\ rows'[k].draft = 0
             /\ rows'[k].note # 0 => /\ notes[rows'[k].note].key = k
                                     /\ notes[rows'[k].note].kind # "unused"
             /\ k = Summary => rows'[k].thread # "open"
  <2>. DEFINE row == Seeded(k)
              own == Of(k) \cap job.drafts
  <2>1. /\ row.status \in {"none", "not_published"} => row.note = 0 /\ row.draft = 0
        /\ row.note # 0 => notes[row.note].key = k /\ notes[row.note].kind # "unused"
        /\ k = Summary => row.thread # "open"
    BY <1>0, SeededType DEF ReceiptsInv
  <2>2. Matches(k) # {} => /\ Only(Matches(k)) \in Ids
                           /\ notes[Only(Matches(k))].key = k
                           /\ notes[Only(Matches(k))].kind # "unused"
    <3>1. Matches(k) # {} => Only(Matches(k)) \in Matches(k)
      BY DEF Only
    <3>. QED
      BY <3>1, MatchesSo DEF Visible
  <2>3. /\ ReconciledWhat(k, job.drafts)
        /\ rows'[k] = Reconciled(k, job.drafts)
    BY DEF SyncedRows
  <2>. HIDE DEF row
  <2>4. CASE rows'[k] = row
    BY <2>1, <2>4
  <2>5. CASE /\ rows'[k].status = row.status /\ rows'[k].note = row.note
             /\ rows'[k].draft = row.draft /\ rows'[k].thread = row.thread
    BY <2>1, <2>5
  <2>6. CASE /\ Matches(k) # {} /\ rows'[k].status = "committed"
             /\ rows'[k].note = Only(Matches(k))
             /\ k = Summary => rows'[k].thread = "none"
    BY <2>2, <2>6
  <2>7. CASE /\ rows'[k].status = "drafted" /\ rows'[k].note = 0
             /\ rows'[k].thread = "none"
    BY <2>7
  <2>8. CASE /\ rows'[k].status = "removed" /\ rows'[k].note = row.note
             /\ rows'[k].thread = "none"
    BY <2>1, <2>8
  <2>. QED
    BY <2>3, <2>4, <2>5, <2>6, <2>7, <2>8 DEF ReconciledWhat, row
<1>. QED
  BY <1>1, Bounds DEF ReceiptsInv

\* A row whose post may appear late is in conflict, and keeps its intent.
LEMMA SyncsLate ==
    ASSUME IInv, OnceInv, SyncedRows, NEW n \in Ids, notes[n].late
    PROVE  LET k == notes[n].key IN
           /\ rows'[k].status = "not_published" /\ rows'[k].intent = "publish"
           /\ rows'[k].conflict
<1>. DEFINE own == Of(notes[n].key) \cap job.drafts
<1>1. PICK k \in Keys : k = notes[n].key
  BY DEF IInv, TypeOK
<1>2. /\ rows[k].status = "not_published" /\ rows[k].intent = "publish"
      /\ \A m \in Ids \ {n} : notes[m].key = k => Void(m)
      /\ \A m \in job.drafts : notes[m].key # k
  BY <1>1 DEF OnceInv, LateInv
<1>3. Seeded(k) = rows[k]
  BY <1>2, SeededType
<1>4. Matches(k) = {}
  <2>1. ASSUME NEW m \in Matches(k) PROVE FALSE
    <3>1. m \in Ids /\ m \in Visible /\ notes[m].key = k
      BY MatchesSo
    <3>. QED
      BY <1>2, <3>1 DEF Visible, Void
  <2>. QED
    BY <2>1
<1>5. Of(k) \cap job.drafts = {}
  BY <1>2 DEF Of
<1>6. ReconciledWhat(k, job.drafts) /\ rows'[k] = Reconciled(k, job.drafts)
  BY DEF SyncedRows
<1>7. /\ rows'[k].status = "not_published" /\ rows'[k].intent = "publish"
      /\ rows'[k].conflict
  <2>. DEFINE after == Reconciled(k, job.drafts)
  <2>1. \/ after = rows[k] /\ rows[k].status \in {"none", "removed"}
        \/ after.conflict /\ after.status = rows[k].status
           /\ after.intent = rows[k].intent
        \/ /\ after.conflict = (rows[k].intent = "publish")
           /\ after.status = rows[k].status /\ after.intent = rows[k].intent
        \/ rows[k].status # "not_published" \/ rows[k].intent = "remove"
    BY <1>3, <1>4, <1>5, <1>6 DEF ReconciledWhat
  <2>. HIDE DEF after
  <2>. QED
    BY <1>2, <1>6, <2>1 DEF after
<1>. QED
  BY <1>1, <1>7

\* calls removed only what is gone,
LEMMA SyncsGone ==
    ASSUME IInv, OnceInv, job.pc = "discussions", notes' = notes, SyncedRows
    PROVE  GoneStep
<1>1. ASSUME NEW k \in Keys, rows[k].status # "removed", rows'[k].status = "removed",
             NEW n \in Ids, notes[n].key = k, rows[k].note \in {0, n},
             ~notes[n].late, LiveThen(n)
      PROVE  FALSE
  <2>1. n \in Visible
    BY <1>1 DEF LiveThen, Visible
  <2>2. Seeded(k).status # "removed"
    BY <1>1, SeededType
  <2>3. Matches(k) = {} /\ Of(k) \cap job.drafts = {}
    <3>1. ReconciledWhat(k, job.drafts) /\ rows'[k] = Reconciled(k, job.drafts)
      BY DEF SyncedRows
    <3>. QED
      BY <1>1, <2>2, <3>1 DEF ReconciledWhat
  <2>4. CASE notes[n].kind # "draft"
    BY <1>1, <2>1, <2>3, <2>4, MatchesSo
  <2>5. CASE notes[n].kind = "draft"
    <3>1. n \in job.drafts
      BY <2>1, <2>5 DEF OnceInv, PhaseInv, Drafts
    <3>. QED
      BY <1>1, <2>3, <3>1 DEF Of
  <2>. QED
    BY <2>4, <2>5
<1>. QED
  BY <1>1 DEF GoneStep

\* What a request acts on: a row without conflict says all there is of its
\* finding, and no more takes room than was read.
LEMMA SyncsAct ==
    ASSUME IInv, OnceInv, job.pc = "discussions", UNCHANGED <<notes, drift>>, SyncedRows,
           job'.pc = "act", job'.key = job.key, job'.drafts = job.drafts,
           job'.seen = Threads(Visible), job'.hidden = HiddenFrom(job.key)
    PROVE  ActInv'
<1>0. ReceiptsInv /\ LateInv /\ PhaseInv /\ job.drafts \subseteq Ids
  BY DEF OnceInv, IInv, TypeOK, JobType
<1>1. PICK k \in Keys : k = job.key
  BY DEF IInv, TypeOK, JobType
<1>2. SUFFICES ASSUME ~rows'[k].conflict PROVE ActInv'
  BY <1>1 DEF ActInv
<1>. DEFINE own == Of(k) \cap job.drafts
            after == Reconciled(k, job.drafts)
            d == rows'[k].draft
<1>3. /\ rows'[k] = after
      /\ \/ after = Seeded(k) /\ Seeded(k).status \in {"none", "removed"}
         \/ /\ Matches(k) # {} /\ after.status = "committed"
            /\ after.note = Only(Matches(k))
         \/ /\ Matches(k) = {} /\ own # {} /\ ~(Cardinality(own) > 1)
            /\ after.status = "drafted" /\ after.note = 0 /\ after.draft = Only(own)
         \/ after.status = "removed"
         \/ /\ Matches(k) = {} /\ own = {}
            /\ Seeded(k).status = "not_published" /\ Seeded(k).intent # "publish"
            /\ after.status = "not_published"
  <2>1. rows'[k] = after /\ ReconciledWhat(k, job.drafts) /\ Seeded(k) \in RowType
    BY SeededType DEF SyncedRows
  <2>. QED
    BY <1>2, <2>1 DEF ReconciledWhat, RowType
<1>. HIDE DEF after
<1>4. own \in SUBSET Ids /\ \A n \in own : notes[n].key = k
  BY DEF Of
<1>5. \A n \in Drafts : n \in job.drafts
  BY <1>0 DEF PhaseInv
<1>6. \A n \in Ids : notes[n].key = k /\ notes[n].late => rows'[k].conflict
  BY SyncsLate
<1>7. ASSUME NEW n \in Ids, notes[n].key = k, ~Void(n)
      PROVE  n \in Visible /\ (notes[n].kind = "draft" => n \in own)
  <2>1. n \in Visible
    BY <1>2, <1>6, <1>7 DEF Void, Visible
  <2>. QED
    BY <1>5, <1>7, <2>1 DEF Drafts, Of
<1>8. ASSUME rows'[k].status = "drafted"
      PROVE  /\ rows'[k].note = 0 /\ d \in Ids /\ notes[d].kind # "unused" /\ d \in own
             /\ \A n \in Ids \ ({d} \cup HiddenFrom(k)) : notes[n].key = k => Void(n)
  <2>1. /\ Matches(k) = {} /\ own # {} /\ ~(Cardinality(own) > 1)
        /\ rows'[k].note = 0 /\ d = Only(own)
    BY <1>3, <1>8
  <2>2. d \in own
    BY <2>1 DEF Only
  <2>3. d \in Ids /\ notes[d].kind # "unused"
    BY <1>0, <2>2 DEF PhaseInv, Of
  <2>4. ASSUME NEW n \in Ids \ ({d} \cup HiddenFrom(k)), notes[n].key = k, ~Void(n)
        PROVE  FALSE
    <3>1. n \in Visible /\ (notes[n].kind = "draft" => n \in own)
      BY <1>7, <2>4
    <3>2. CASE notes[n].kind = "draft"
      <4>1. n = d
        BY <1>4, <2>1, <2>2, <3>1, <3>2, AtMostOne
      <4>. QED
        BY <2>4, <4>1
    <3>3. CASE notes[n].kind # "draft"
      <4>1. rows[k].note \notin {0, n}
        BY <2>1, <2>4, <3>1, <3>3, MatchesSo
      <4>2. n \in HiddenFrom(k)
        BY <2>4, <3>1, <3>3, <4>1 DEF HiddenFrom, Of
      <4>. QED
        BY <2>4, <4>2
    <3>. QED
      BY <3>2, <3>3
  <2>. QED
    BY <2>1, <2>2, <2>3, <2>4
<1>9. ASSUME rows'[k].status = "not_published"
      PROVE  \A n \in Ids : notes[n].key = k => Void(n)
  <2>1. /\ Matches(k) = {} /\ own = {}
        /\ Seeded(k).status = "not_published"
    BY <1>3, <1>9
  <2>2. rows[k].note = 0
    BY <1>0, <2>1, SeededType DEF ReceiptsInv
  <2>3. ASSUME NEW n \in Ids, notes[n].key = k, ~Void(n) PROVE FALSE
    <3>1. n \in Visible /\ notes[n].kind # "draft"
      BY <1>7, <2>1, <2>3
    <3>. QED
      BY <2>1, <2>2, <2>3, <3>1, MatchesSo
  <2>. QED
    BY <2>3
<1>10. rows'[k].status = "committed" => rows'[k].note # 0
  <2>1. Matches(k) # {} => Only(Matches(k)) \in Ids
    BY MatchesSo DEF Only
  <2>2. rows'[k].status = "committed" => Matches(k) # {} /\ rows'[k].note = Only(Matches(k))
    <3>1. Seeded(k).status \in {"none", "removed"} => Seeded(k).status # "committed"
      OBVIOUS
    <3>. QED
      BY <1>3, <3>1
  <2>. QED
    BY <2>1, <2>2, Bounds
<1>11. Cardinality(Taking((Ids \ drift) \ {d})) <= Counted(job.key)'
  <2>. DEFINE drafts == {n \in job.drafts : notes[n].key \in Inline /\ n # d}
              taking == Taking((Ids \ drift) \ {d})
  <2>1. Threads(Visible) \in SUBSET Ids /\ drafts \in SUBSET Ids
    BY <1>0 DEF Threads, Visible
  <2>2. taking \in SUBSET (Threads(Visible) \cup drafts)
    <3>1. ASSUME NEW n \in taking PROVE n \in Threads(Visible) \cup drafts
      <4>1. n \in Visible
        BY <3>1 DEF Taking, Visible
      <4>2. notes[n].kind = "draft" => n \in job.drafts
        BY <1>5, <4>1 DEF Drafts
      <4>. QED
        BY <3>1, <4>1, <4>2 DEF Taking, Threads
    <3>. QED
      BY <3>1
  <2>3. Cardinality(taking) <= Cardinality(Threads(Visible)) + Cardinality(drafts)
    BY <2>1, <2>2, Joined
  <2>4. Counted(job.key)' = Cardinality(Threads(Visible)) + Cardinality(drafts)
    <3>1. {n \in job'.drafts : notes'[n].key \in Inline /\ n # rows'[job'.key].draft}
             = drafts
      BY <1>1
    <3>. QED
      BY <3>1 DEF Counted
  <2>. QED
    BY <2>3, <2>4
<1>12. /\ rows'[job'.key] = rows'[k] /\ job'.hidden = HiddenFrom(k)
       /\ Taking((Ids \ drift) \ {rows[job.key].draft})' = Taking((Ids \ drift) \ {d})
       /\ \A n \in Ids : Void(n)' <=> Void(n)
  BY <1>1 DEF Taking, Void
<1>13. job'.key = k
  BY <1>1
<1>. HIDE DEF d, own
<1>14. /\ rows'[k].status = "drafted" =>
             /\ rows'[k].note = 0 /\ rows'[k].draft \in Ids
             /\ notes'[rows'[k].draft].kind # "unused"
             /\ \A n \in Ids \ ({rows'[k].draft} \cup job'.hidden) :
                                notes'[n].key = k => Void(n)'
       /\ rows'[k].status = "not_published" =>
             \A n \in Ids : notes'[n].key = k => Void(n)'
  BY <1>8, <1>9, <1>12 DEF d
<1>. QED
  BY <1>10, <1>11, <1>12, <1>13, <1>14 DEF ActInv, d

\* and establishes what a request knows.
LEMMA SyncsOnce ==
    ASSUME IInv, OnceInv, SyncRows
    PROVE  OnceInv' /\ StepsOK
<1>0. /\ KindsInv /\ ReceiptsInv /\ PhaseInv /\ LateInv /\ job \in JobType
      /\ job.pc = "discussions" /\ UNCHANGED <<mode, mr, notes, review, drift>>
      /\ job' = AfterSync
  BY DEF OnceInv, IInv, TypeOK, SyncRows
<1>1. SyncedRows
  <2>1. ASSUME NEW k \in Keys
        PROVE  ReconciledWhat(k, job.drafts) /\ rows'[k] = Reconciled(k, job.drafts)
    BY ReconcilesSo DEF SyncRows
  <2>. QED
    BY <2>1 DEF SyncedRows
<1>2. StepsOK
  BY <1>0, <1>1, MakesNone, SyncsGone DEF StepsOK
<1>3. UsedStay /\ KindsInv' /\ ReceiptsInv'
  BY <1>0, <1>1, NotesStay, SyncsReceipts
<1>4. \/ job' = Idle
      \/ /\ job.left # 1 /\ job'.pc = "act" /\ job'.key = job.key
         /\ job'.drafts = job.drafts /\ job'.by = job.by
         /\ job'.seen = Threads(Visible) /\ job'.hidden = HiddenFrom(job.key)
      \/ /\ job.left # 1 /\ job'.pc = "sync" /\ job'.by = job.by /\ job'.drafts = {}
         /\ job'.seen = job.seen /\ job'.hidden = job.hidden
  <2>1. CASE job.left = 1
    BY <1>0, <2>1 DEF AfterSync
  <2>2. CASE job.left = 2
    <3>1. job' = [job EXCEPT !.pc = "act", !.left = 1, !.seen = Threads(Visible),
                             !.hidden = HiddenFrom(job.key)]
      BY <1>0, <2>2 DEF AfterSync
    <3>. QED
      BY <1>0, <2>2, <3>1 DEF JobType
  <2>3. CASE job.left \notin {1, 2}
    <3>1. job' = [job EXCEPT !.pc = "sync", !.left = 2, !.drafts = {}]
      BY <1>0, <2>3 DEF AfterSync
    <3>. QED
      BY <1>0, <2>3, <3>1 DEF JobType
  <2>. QED
    BY <2>1, <2>2, <2>3
<1>5. PhaseInv'
  <2>1. CASE job' = Idle
    BY <2>1 DEF PhaseInv, Idle
  <2>2. ASSUME job.left # 1 PROVE review = "published"
    BY <1>0, <2>2 DEF PhaseInv, IInv, StepInv, Actions
  <2>3. \A n \in Threads(Visible) : notes[n].kind # "unused"
    BY DEF Threads, Visible
  <2>4. \A n \in HiddenFrom(job.key) : notes[n].kind \notin {"unused", "draft"}
    BY DEF HiddenFrom, Visible
  <2>. QED
    BY <1>0, <1>4, <2>1, <2>2, <2>3, <2>4 DEF PhaseInv
<1>6. LateInv'
  <2>1. job'.drafts \subseteq job.drafts
    BY <1>4 DEF Idle
  <2>2. ASSUME NEW n \in Ids, notes[n].late
        PROVE  /\ rows'[notes[n].key].status = "not_published"
               /\ rows'[notes[n].key].intent = "publish"
    BY <1>1, <2>2, SyncsLate
  <2>. QED
    BY <1>0, <2>1, <2>2 DEF LateInv, Void
<1>7. DraftingInv' /\ PublishInv' /\ SendInv'
  BY <1>4 DEF DraftingInv, PublishInv, SendInv, Idle
<1>8. ActInv'
  <2>1. CASE job'.pc = "act"
    BY <1>0, <1>1, <1>4, <2>1, SyncsAct DEF Idle
  <2>2. CASE job'.pc # "act"
    BY <1>4, <2>2 DEF ActInv, Idle
  <2>. QED
    BY <2>1, <2>2
<1>. QED
  BY <1>2, <1>3, <1>5, <1>6, <1>7, <1>8 DEF OnceInv

\* The readings before it keep the second invariant.
LEMMA TurnsToRead ==
    ASSUME IInv, OnceInv, \/ Inspect \/ SyncDrafts
                          \/ \E k \in Keys, action \in Actions : Request(k, action)
    PROVE  OnceInv' /\ StepsOK
<1>1. CASE Inspect
  <2>1. /\ UNCHANGED <<mode, notes, rows, review>> /\ drift' \subseteq drift
        /\ job'.pc = "sync" /\ job'.seen = {} /\ job'.hidden = {} /\ job'.drafts = {}
        /\ job'.by = "inspect"
    BY <1>1 DEF Inspect, Idle
  <2>. QED
    BY <2>1, TurnsOnce
<1>2. ASSUME NEW k \in Keys, NEW action \in Actions, Request(k, action)
      PROVE  OnceInv' /\ StepsOK
  <2>1. /\ UNCHANGED <<mode, notes, rows, review>> /\ drift' \subseteq drift
        /\ job'.pc = "sync" /\ job'.seen = {} /\ job'.hidden = {} /\ job'.drafts = {}
        /\ review = "published"
    BY <1>2 DEF Request, Idle
  <2>. QED
    BY <2>1, TurnsOnce
<1>3. CASE SyncDrafts
  <2>1. /\ UNCHANGED <<mode, notes, rows, review, drift>>
        /\ job.pc = "sync" /\ job'.pc = "discussions" /\ job'.drafts = Drafts
        /\ job'.seen = job.seen /\ job'.hidden = job.hidden /\ job'.by = job.by
    BY <1>3 DEF SyncDrafts, IInv, TypeOK, JobType
  <2>2. job'.by = "inspect" \/ review = "published"
    BY <2>1 DEF OnceInv, PhaseInv
  <2>. QED
    BY <2>1, <2>2, TurnsOnce
<1>. QED
  BY <1>1, <1>2, <1>3
-----------------------------------------------------------------------------
(***************************************************************************)
(* The dashboard: actions                                                  *)
(***************************************************************************)

\* What was read is forgotten when act() is over, or its process is.
LEMMA Finishes ==
    ASSUME IInv, job' = Idle \/ \E answer : job' = Answered(answer)
    PROVE  /\ job'.pc \in {"idle", "sync"} /\ job'.seen = {} /\ job'.drafts = {}
           /\ job'.hidden = {}
           /\ job'.pc = "sync" => job'.by = job.by
<1>1. CASE job' = Idle
  BY <1>1 DEF Idle
<1>2. ASSUME NEW answer, job' = Answered(answer)
      PROVE  /\ job'.pc = "sync" /\ job'.seen = {} /\ job'.drafts = {}
             /\ job'.hidden = {} /\ job'.by = job.by
  <2>1. job' = [job EXCEPT !.pc = "sync", !.answer = answer, !.seen = {},
                           !.drafts = {}, !.hidden = {}]
    BY <1>2 DEF Answered
  <2>. QED
    BY <2>1 DEF IInv, TypeOK, JobType
<1>. QED
  BY <1>1, <1>2

\* act() is over, or its process is: notes stay, and what is saved of a row
\* leaves its status.
LEMMA AnswersOnce ==
    ASSUME IInv, OnceInv, job.pc \in {"act", "send"},
           UNCHANGED <<mode, notes, review, drift>>,
           job' = Idle \/ \E answer : job' = Answered(answer),
           \/ rows' = rows
           \/ /\ \A k \in Keys : /\ rows'[k].status = rows[k].status
                                 /\ rows'[k].note = rows[k].note
                                 /\ rows'[k].draft = rows[k].draft
                                 /\ rows'[k].thread = rows[k].thread
              /\ \A k \in Keys \ {job.key} : rows'[k] = rows[k]
              /\ \A n \in Ids : notes[n].late => notes[n].key # job.key
    PROVE  OnceInv' /\ StepsOK
<1>0. KindsInv /\ ReceiptsInv /\ PhaseInv /\ LateInv
  BY DEF OnceInv
<1>1. /\ job'.pc \in {"idle", "sync"} /\ job'.seen = {} /\ job'.drafts = {}
      /\ job'.hidden = {}
      /\ job'.pc = "sync" => job'.by = job.by
  BY Finishes
<1>2. StepsOK
  BY MakesNone, RemovesNone DEF StepsOK
<1>3. UsedStay /\ KindsInv'
  BY NotesStay
<1>4. ReceiptsInv'
  BY <1>0, Bounds DEF ReceiptsInv
<1>5. PhaseInv'
  <2>1. job.by # "inspect" => review = "published"
    BY <1>0 DEF PhaseInv
  <2>2. job.by \in Actions
    BY DEF IInv, StepInv
  <2>. QED
    BY <1>1, <2>1, <2>2 DEF PhaseInv, Actions
<1>6. LateInv'
  <2>1. \A n \in Ids : notes[n].key \in Keys
    BY DEF IInv, TypeOK
  <2>2. \A n \in Ids : notes[n].late => rows'[notes[n].key] = rows[notes[n].key]
    BY <2>1
  <2>. QED
    BY <1>0, <1>1, <2>2 DEF LateInv, Void
<1>7. DraftingInv' /\ PublishInv' /\ ActInv' /\ SendInv'
  BY <1>1, Quiet
<1>. QED
  BY <1>2, <1>3, <1>4, <1>5, <1>6, <1>7 DEF OnceInv

\* Nothing may still appear of a finding that act() goes on with.
LEMMA NoneLateHere ==
    ASSUME IInv, OnceInv, job.pc \in {"act", "send"}, ~rows[job.key].conflict,
           NEW n \in Ids, notes[n].late
    PROVE  notes[n].key # job.key
<1>1. SUFFICES ASSUME notes[n].key = job.key PROVE FALSE
  OBVIOUS
<1>2. rows[job.key].status = "not_published" /\ notes[n].kind \in {"open", "plain"}
  BY <1>1 DEF OnceInv, LateInv
<1>3. Void(n)
  BY <1>1, <1>2 DEF OnceInv, ActInv
<1>. QED
  BY <1>2, <1>3 DEF Void

\* A request decides on what it knows,
LEMMA UndertakesOnce ==
    ASSUME IInv, OnceInv, Undertake
    PROVE  OnceInv' /\ StepsOK
<1>0. /\ KindsInv /\ ReceiptsInv /\ PhaseInv /\ LateInv /\ ActInv
      /\ job \in JobType /\ rows \in [Keys -> RowType]
      /\ job.pc = "act" /\ UNCHANGED <<mode, mr, notes, review, drift>>
      /\ job' = [job EXCEPT !.pc = "send"] /\ job.by \in Actions
      /\ ~Declined(job.key, job.by)
  BY DEF OnceInv, IInv, TypeOK, StepInv, Undertake
<1>1. PICK k \in Keys, row \in RowType : k = job.key /\ row = rows[job.key]
  BY <1>0 DEF JobType
<1>2. /\ rows' = [rows EXCEPT ![k] = Intent(row, job.by)]
  BY <1>1 DEF Undertake
<1>3. /\ rows'[k] = Intent(row, job.by)
      /\ \A i \in Keys \ {k} : rows'[i] = rows[i]
  BY <1>0, <1>1, <1>2
<1>4. /\ Intent(row, job.by).status = row.status /\ Intent(row, job.by).note = row.note
      /\ Intent(row, job.by).draft = row.draft /\ Intent(row, job.by).thread = row.thread
      /\ Intent(row, job.by).conflict = row.conflict
      /\ job.by = "publish" /\ row.status # "drafted"
            => Intent(row, job.by).intent = "publish"
  BY DEF Intent, RowType
<1>5. /\ job'.pc = "send" /\ job'.key = job.key /\ job'.by = job.by
      /\ job'.seen = job.seen /\ job'.drafts = job.drafts /\ job'.hidden = job.hidden
  BY <1>0 DEF JobType
<1>6. /\ ~row.conflict /\ row.status # "none"
      /\ job.by = "resolve" => row.thread = "open"
      /\ job.by = "remove" => row.status \in {"drafted", "committed"}
      /\ job.by = "publish" => row.status \notin {"committed", "removed"}
      /\ job.by = "publish" /\ k # Summary => ~(Counted(k) >= Cap)
  <2>1. ~Declined(k, job.by)
    BY <1>0, <1>1
  <2>. QED
    BY <1>1, <2>1 DEF Declined
<1>7. \A i \in Keys : /\ rows'[i].status = rows[i].status /\ rows'[i].note = rows[i].note
                      /\ rows'[i].draft = rows[i].draft
                      /\ rows'[i].thread = rows[i].thread
                      /\ rows'[i].conflict = rows[i].conflict
  BY <1>1, <1>3, <1>4
<1>8. StepsOK
  <2>1. \A i \in Keys : rows'[i].status = "removed" => rows[i].status = "removed"
    BY <1>7
  <2>. QED
    BY <1>0, <2>1, MakesNone, RemovesNone DEF StepsOK
<1>9. UsedStay /\ KindsInv'
  BY <1>0, NotesStay
<1>10. ReceiptsInv'
  BY <1>0, <1>7, Bounds DEF ReceiptsInv
<1>11. PhaseInv'
  BY <1>0, <1>5 DEF PhaseInv
<1>12. LateInv'
  <2>1. ASSUME NEW n \in Ids, notes[n].late
        PROVE  rows'[notes[n].key] = rows[notes[n].key]
    <3>1. notes[n].key # k /\ notes[n].key \in Keys
      BY <1>0, <1>1, <1>6, <2>1, NoneLateHere DEF IInv, TypeOK
    <3>. QED
      BY <1>3, <3>1
  <2>. QED
    BY <1>0, <1>5, <2>1 DEF LateInv, Void
<1>13. Counted(job.key)' = Counted(job.key) /\ Counted(k) \in Nat
       /\ Counted(job.key) = Counted(k)
  <2>1. Counted(k)' = Counted(k) /\ Counted(k) \in Nat
    BY <1>0, <1>5, <1>7, <1>9, CountedStays, CountedType
  <2>2. Counted(job.key)' = Counted(k)' /\ Counted(job.key) = Counted(k)
    BY <1>1, <1>5 DEF Counted
  <2>. QED
    BY <2>1, <2>2
<1>14. job'.key = k /\ rows'[job'.key] = rows'[k] /\ rows[job.key] = row
  BY <1>1, <1>5
<1>15. SendInv'
  <2>1. job.by = "publish" => row.status \in {"drafted", "not_published"}
    BY <1>6 DEF RowType
  <2>2. k \in Inline => k # Summary
    BY PublicationAssumption
  <2>3. Cap \in Nat
    BY Bounds
  <2>4. /\ ~rows'[k].conflict
        /\ job.by = "publish" => /\ rows'[k].status \in {"drafted", "not_published"}
                                 /\ rows'[k].status = "not_published"
                                       => rows'[k].intent = "publish"
        /\ job.by = "remove" => rows'[k].status \in {"drafted", "committed"}
        /\ job.by = "resolve" => rows'[k].thread = "open"
    BY <1>3, <1>4, <1>6, <2>1
  <2>5. job.by = "publish" /\ k \in Inline => Counted(job.key)' < Cap
    BY <1>6, <1>13, <2>2, <2>3
  <2>. QED
    BY <1>5, <1>14, <2>4, <2>5 DEF SendInv
<1>16. ActInv'
  <2>1. /\ rows'[k].status = row.status /\ rows'[k].note = row.note
        /\ rows'[k].draft = row.draft /\ rows'[k].conflict = row.conflict
    BY <1>1, <1>7
  <2>2. DraftGone' <=> DraftGone
    BY <1>0, <1>14, <2>1 DEF DraftGone
  <2>3. Taking((Ids \ drift) \ {rows[job.key].draft})'
           = Taking((Ids \ drift) \ {rows[job.key].draft})
    BY <1>0, <1>14, <2>1 DEF Taking
  <2>4. \A n \in Ids : Void(n)' <=> Void(n)
    BY <1>0 DEF Void
  <2>. QED
    BY <1>0, <1>1, <1>5, <1>13, <1>14, <2>1, <2>2, <2>3, <2>4 DEF ActInv
<1>17. DraftingInv' /\ PublishInv'
  BY <1>5 DEF DraftingInv, PublishInv
<1>. QED
  BY <1>8, <1>9, <1>10, <1>11, <1>12, <1>15, <1>16, <1>17 DEF OnceInv

\* What the owner's request leaves in GitLab, heard of or not.
OwnerStep(late) ==
    notes' = notes \/ OwnerMakes(late) \/ OwnerPublishes \/ OwnerMarks

\* What the send rests on: facts of the row it acts on.
LEMMA SendFacts ==
    ASSUME IInv, OnceInv, job.pc = "send", NEW k \in Keys, NEW row \in RowType,
           k = job.key, row = rows[job.key]
    PROVE  /\ job.by \in Actions /\ review = "published"
           /\ ~row.conflict
           /\ job.by = "publish" =>
                 /\ row.status \in {"drafted", "not_published"}
                 /\ row.status = "not_published" =>
                       row.intent = "publish" /\ row.draft = 0
                 /\ k \in Inline => Counted(k) < Cap
           /\ job.by = "remove" => row.status \in {"drafted", "committed"}
           /\ job.by = "resolve" => row.status = "committed" /\ k # Summary
           /\ row.status = "drafted" =>
                 /\ row.note = 0 /\ row.draft \in Ids
                 /\ row.draft \in Visible =>
                       \A n \in Ids \ ({row.draft} \cup job.hidden) :
                          notes[n].key = k => Void(n)
           /\ row.status = "not_published" =>
                 \A n \in Ids : notes[n].key = k => Void(n)
           /\ row.status = "committed" => row.note # 0
           /\ row.status \in {"drafted", "not_published"} =>
                 \/ row.status = "drafted" /\ row.draft \notin Visible
                 \/ Cardinality(Taking((Ids \ drift) \ {row.draft})) <= Counted(k)
           /\ row.note # 0 => row.note \in Ids /\ notes[row.note].key = k
<1>0. KindsInv /\ ReceiptsInv /\ PhaseInv /\ ActInv /\ SendInv
  BY DEF OnceInv
<1>1. job.by \in Actions /\ review = "published"
  <2>1. job.by \in Actions
    BY DEF IInv, StepInv
  <2>. QED
    BY <1>0, <2>1 DEF PhaseInv, Actions
<1>2. Counted(job.key) = Counted(k)
  BY DEF Counted
<1>3. /\ ~row.conflict
      /\ job.by = "publish" =>
            /\ row.status \in {"drafted", "not_published"}
            /\ row.status = "not_published" =>
                  row.intent = "publish" /\ row.draft = 0
            /\ k \in Inline => Counted(k) < Cap
      /\ job.by = "remove" => row.status \in {"drafted", "committed"}
  BY <1>0, <1>2 DEF SendInv, ReceiptsInv
<1>4. job.by = "resolve" => row.status = "committed" /\ k # Summary
  BY <1>0 DEF SendInv, ReceiptsInv, IInv, WantedInv
<1>5. DraftGone => row.draft \notin Visible
  BY DEF DraftGone, Visible
<1>6. /\ row.status = "drafted" =>
            /\ row.note = 0 /\ row.draft \in Ids
            /\ DraftGone \/ \A n \in Ids \ ({row.draft} \cup job.hidden) :
                               notes[n].key = k => Void(n)
      /\ row.status = "not_published" =>
            \A n \in Ids : notes[n].key = k => Void(n)
      /\ row.status = "committed" => row.note # 0
      /\ row.status \in {"drafted", "not_published"} =>
            \/ row.status = "drafted" /\ DraftGone
            \/ Cardinality(Taking((Ids \ drift) \ {row.draft})) <= Counted(k)
  BY <1>0, <1>2, <1>3 DEF ActInv
<1>7. row.note # 0 => row.note \in Ids /\ notes[row.note].key = k
  BY <1>0 DEF ReceiptsInv, RowType, Ids
<1>. QED
  BY <1>1, <1>3, <1>4, <1>5, <1>6, <1>7

\* The request adds the one comment that GitLab did not hold, below the
\* ceiling, or takes a draft's place.
LEMMA OwnerOnce ==
    ASSUME IInv, OnceInv, job.pc = "send", NEW late \in BOOLEAN, OwnerStep(late),
           UNCHANGED <<mode, drift>>
    PROVE  /\ UsedStay /\ KindsInv' /\ DuplicateStep /\ CeilingStep
           /\ \A i \in Ids : notes'[i].late =>
                 /\ notes'[i].kind \in {"open", "plain"}
                 /\ rows[notes'[i].key].status = "not_published"
                 /\ rows[notes'[i].key].intent = "publish"
                 /\ \A m \in Ids \ {i} : notes'[m].key = notes'[i].key => Void(m)'
                 /\ notes'[i].key # job.key \/ late
<1>0. /\ KindsInv /\ ReceiptsInv /\ PhaseInv /\ LateInv
      /\ drift \subseteq Ids /\ 0 \notin Ids
  BY Bounds DEF OnceInv, IInv, TypeOK
<1>1. PICK k \in Keys, row \in RowType, kind \in Kinds :
         k = job.key /\ row = rows[job.key] /\ kind = PublishedKind(job.key)
  BY NoteKinds DEF IInv, TypeOK, JobType
<1>2. /\ kind \in {"open", "plain"} /\ (k = Summary => kind = "plain")
  BY <1>1 DEF PublishedKind
<1>3. \A i \in Ids : notes[i].late =>
         /\ notes[i].kind \in {"open", "plain"}
         /\ rows[notes[i].key].status = "not_published"
         /\ rows[notes[i].key].intent = "publish"
         /\ \A m \in Ids \ {i} : notes[m].key = notes[i].key => Void(m)
         /\ notes[i].key # k
  <2>1. ~rows[job.key].conflict
    BY <1>1, SendFacts
  <2>. QED
    BY <1>0, <1>1, <2>1, NoneLateHere DEF LateInv
<1>4. CASE notes' = notes
  <2>1. UsedStay /\ KindsInv'
    BY <1>4, NotesStay
  <2>2. DuplicateStep /\ CeilingStep
    BY <1>4, MakesNone
  <2>3. \A i \in Ids : Void(i)' <=> Void(i)
    BY <1>4 DEF Void
  <2>. QED
    BY <1>1, <1>3, <1>4, <2>1, <2>2, <2>3
\* A comment is made, of a draft that goes or of none.
<1>5. ASSUME NEW n \in Ids, NEW d, NEW at \in BOOLEAN, Made(n, k, kind, at, d),
             at => late /\ row.status = "not_published" /\ row.intent = "publish",
             at => d = 0,
             d \notin Ids \/ (d \in Visible /\ row.status = "drafted"),
             \A m \in Ids \ ({d} \cup job.hidden) : notes[m].key = k => Void(m),
             at => \A m \in Ids : notes[m].key = k => Void(m),
             k \in Inline => /\ Counted(k) < Cap
                             /\ Cardinality(Taking((Ids \ drift) \ {d})) <= Counted(k)
      PROVE  /\ UsedStay /\ KindsInv' /\ DuplicateStep /\ CeilingStep
             /\ \A i \in Ids : notes'[i].late =>
                   /\ notes'[i].kind \in {"open", "plain"}
                   /\ rows[notes'[i].key].status = "not_published"
                   /\ rows[notes'[i].key].intent = "publish"
                   /\ \A m \in Ids \ {i} : notes'[m].key = notes'[i].key => Void(m)'
                   /\ notes'[i].key # job.key \/ late
  <2>1. /\ notes[n].kind = "unused" /\ n # d
        /\ notes'[n].key = k /\ notes'[n].kind = kind /\ notes'[n].late = at
        /\ \A m \in Ids \ {n, d} : notes'[m] = notes[m]
        /\ d \in Ids => notes'[d].key = notes[d].key /\ notes'[d].kind = "gone"
                        /\ ~notes'[d].late
    BY <1>5 DEF Made, Visible
  <2>2. UsedStay
    BY <1>5, MadeStays
  <2>3. \A i \in Ids : notes'[i].kind = "draft" => notes[i].kind = "draft"
    BY <1>2, <2>1
  <2>4. KindsInv'
    <3>1. \A i \in Ids : notes'[i].key = Summary
             => notes'[i].kind \notin {"open", "resolved"}
      <4>1. ASSUME NEW i \in Ids, notes'[i].key = Summary
            PROVE  notes'[i].kind \notin {"open", "resolved"}
        <5>1. CASE i = n
          BY <1>2, <2>1, <4>1, <5>1
        <5>2. CASE i # n /\ i = d
          BY <2>1, <5>2
        <5>3. CASE i # n /\ i # d
          BY <1>0, <2>1, <4>1, <5>3 DEF KindsInv
        <5>. QED
          BY <5>1, <5>2, <5>3
      <4>. QED
        BY <4>1
    <3>2. mode # "draft" => \A i \in Ids : notes'[i].kind # "draft"
      BY <1>0, <2>3 DEF KindsInv
    <3>3. \A i, j \in Ids :
             notes'[i].kind = "draft" /\ notes'[j].kind = "draft"
             /\ notes'[i].key = notes'[j].key => i = j
      <4>1. \A i \in Ids : notes'[i].kind = "draft"
               => notes[i].kind = "draft" /\ notes'[i].key = notes[i].key
        BY <2>2, <2>3 DEF UsedStay
      <4>. QED
        BY <1>0, <4>1 DEF KindsInv
    <3>4. \A i \in drift : notes'[i].kind \notin {"unused", "draft"}
      BY <1>0, <2>2 DEF KindsInv, UsedStay
    <3>. QED
      BY <3>1, <3>2, <3>3, <3>4 DEF KindsInv
  <2>5. \A i \in Ids : Makes(i) => i = n
    BY <1>5, <2>1 DEF Makes, Visible
  <2>6. DuplicateStep
    <3>1. SUFFICES ASSUME NEW m \in Ids \ {n}, notes'[m].key = k, m \notin job.hidden
                   PROVE  ~LiveThen(m)
      BY <2>1, <2>5 DEF DuplicateStep
    <3>2. CASE m = d
      BY <2>1, <3>1, <3>2 DEF LiveThen
    <3>3. CASE m # d
      <4>1. notes'[m] = notes[m]
        BY <2>1, <3>1, <3>3
      <4>2. Void(m)
        BY <1>5, <3>1, <3>3, <4>1
      <4>. QED
        BY <4>1, <4>2 DEF Void, LiveThen
    <3>. QED
      BY <3>2, <3>3
  <2>7. CeilingStep
    <3>. DEFINE before == Taking((Ids \ drift) \ {d})
                after == {m \in Ids \ drift :
                            /\ notes'[m].kind \in {"draft", "open"} /\ ~notes'[m].late
                            /\ notes'[m].key \in Inline}
    <3>1. SUFFICES ASSUME k \in Inline PROVE Cardinality(after) <= Cap
      BY <2>1, <2>5 DEF CeilingStep
    <3>2. before \in SUBSET Ids
      BY DEF Taking
    <3>3. after \in SUBSET (before \cup {n})
      BY <2>1 DEF Taking
    <3>4. Cardinality(after) <= Cardinality(before) + 1
      BY <3>2, <3>3, OneMore
    <3>5. /\ Cardinality(after) \in Nat /\ Cardinality(before) \in Nat
          /\ Counted(k) \in Nat /\ Cap \in Nat
      BY <3>2, SetsAreFinite, CountedType, Bounds
    <3>6. Counted(k) < Cap /\ Cardinality(before) <= Counted(k)
      BY <1>5, <3>1
    <3>. HIDE DEF before, after
    <3>. QED
      BY <3>4, <3>5, <3>6
  <2>8. ASSUME NEW i \in Ids, notes'[i].late
        PROVE  /\ notes'[i].kind \in {"open", "plain"}
               /\ rows[notes'[i].key].status = "not_published"
               /\ rows[notes'[i].key].intent = "publish"
               /\ \A m \in Ids \ {i} : notes'[m].key = notes'[i].key => Void(m)'
               /\ notes'[i].key # job.key \/ late
    <3>1. CASE i = n
      <4>1. at /\ late /\ row.status = "not_published" /\ row.intent = "publish" /\ d = 0
        BY <1>5, <2>1, <2>8, <3>1
      <4>2. \A m \in Ids \ {n} : notes'[m] = notes[m]
        BY <1>0, <2>1, <4>1
      <4>3. \A m \in Ids \ {n} : notes'[m].key = k => Void(m)'
        BY <1>5, <4>1, <4>2 DEF Void
      <4>. QED
        BY <1>1, <1>2, <2>1, <3>1, <4>1, <4>3
    <3>2. CASE i # n
      <4>1. notes'[i] = notes[i] /\ notes[i].late
        BY <2>1, <2>8, <3>2
      <4>2. ASSUME NEW m \in Ids \ {i}, notes'[m].key = notes[i].key PROVE Void(m)'
        <5>1. CASE m = n
          BY <1>3, <2>1, <4>1, <4>2, <5>1
        <5>2. CASE m # n /\ m = d
          BY <2>1, <5>2 DEF Void
        <5>3. CASE m # n /\ m # d
          BY <1>3, <2>1, <4>1, <4>2, <5>3 DEF Void
        <5>. QED
          BY <5>1, <5>2, <5>3
      <4>. QED
        BY <1>1, <1>3, <4>1, <4>2
    <3>. QED
      BY <3>1, <3>2
  <2>. QED
    BY <2>2, <2>4, <2>6, <2>7, <2>8
<1>6. CASE OwnerMakes(late)
  <2>1. PICK n : Made(n, job.key, PublishedKind(job.key), late, 0)
    BY <1>6 DEF OwnerMakes
  <2>2. n \in Ids /\ Made(n, k, kind, late, 0)
    BY <1>1, <2>1 DEF Made
  <2>3. job.by = "publish" /\ row.status # "drafted"
    BY <1>1, <1>6 DEF OwnerMakes, Creates
  <2>4. /\ row.status = "not_published" /\ row.intent = "publish" /\ row.draft = 0
        /\ \A m \in Ids : notes[m].key = k => Void(m)
        /\ k \in Inline => /\ Counted(k) < Cap
                           /\ Cardinality(Taking((Ids \ drift) \ {0})) <= Counted(k)
    BY <1>1, <2>3, SendFacts
  <2>. QED
    BY <1>0, <1>5, <2>2, <2>4
<1>7. CASE OwnerPublishes
  <2>1. PICK n \in Ids : Made(n, job.key, PublishedKind(job.key), FALSE,
                              rows[job.key].draft)
    BY <1>7 DEF OwnerPublishes
  <2>2. Made(n, k, kind, FALSE, row.draft)
    BY <1>1, <2>1 DEF Made
  <2>3. job.by = "publish" /\ row.status = "drafted" /\ row.draft \in Visible
    BY <1>1, <1>7 DEF OwnerPublishes
  <2>4. /\ \A m \in Ids \ ({row.draft} \cup job.hidden) : notes[m].key = k => Void(m)
        /\ k \in Inline => /\ Counted(k) < Cap
                           /\ Cardinality(Taking((Ids \ drift) \ {row.draft}))
                                 <= Counted(k)
    BY <1>1, <2>3, SendFacts
  <2>. QED
    BY <1>5, <2>2, <2>3, <2>4
<1>8. CASE OwnerMarks
  <2>1. PICK n \in Visible, marked \in {"resolved", "gone"} :
           /\ Marked(n, marked)
           /\ marked = "resolved" => n = row.note /\ job.by = "resolve"
    BY <1>1, <1>8 DEF OwnerMarks
  <2>2. n \in Ids /\ ~Void(n)
    BY <2>1 DEF Visible, Void
  <2>3. marked = "resolved" => notes[n].key # Summary
    <3>1. SUFFICES ASSUME marked = "resolved" PROVE notes[n].key # Summary
      OBVIOUS
    <3>2. job.by = "resolve" /\ n = row.note /\ n # 0
      BY <1>0, <2>1, <2>2, <3>1
    <3>3. job.by = "resolve" => k # Summary
      BY <1>1, SendFacts
    <3>4. row.note # 0 => notes[row.note].key = k
      BY <1>1, SendFacts
    <3>. QED
      BY <3>2, <3>3, <3>4
  <2>4. /\ \A m \in Ids \ {n} : notes'[m] = notes[m]
        /\ notes'[n].key = notes[n].key /\ notes'[n].kind = marked /\ ~notes'[n].late
    BY <2>1 DEF Marked
  <2>5. UsedStay
    BY <2>1, MarkedStays
  <2>6. KindsInv'
    <3>1. \A i \in Ids : notes'[i].key = Summary
             => notes'[i].kind \notin {"open", "resolved"}
      BY <1>0, <2>1, <2>3, <2>4 DEF KindsInv
    <3>2. \A i \in Ids : notes'[i].kind = "draft" => notes'[i] = notes[i]
      BY <2>1, <2>4
    <3>. QED
      BY <1>0, <2>5, <3>1, <3>2 DEF KindsInv, UsedStay
  <2>7. \A i \in Ids : ~Makes(i)
    BY <2>1, <2>4 DEF Makes, Visible
  <2>8. DuplicateStep /\ CeilingStep
    BY <2>7 DEF DuplicateStep, CeilingStep
  <2>9. ASSUME NEW i \in Ids, notes'[i].late
        PROVE  /\ notes'[i] = notes[i] /\ notes[i].late
               /\ \A m \in Ids \ {i} : notes'[m].key = notes[i].key => Void(m)'
    <3>1. i # n /\ notes'[i] = notes[i]
      BY <2>4, <2>9
    <3>2. notes[n].key # notes[i].key
      BY <1>3, <2>2, <2>9, <3>1
    <3>. QED
      BY <1>3, <2>4, <2>9, <3>1, <3>2 DEF Void
  <2>. QED
    BY <1>1, <1>3, <2>5, <2>6, <2>8, <2>9
<1>. QED
  BY <1>4, <1>6, <1>7, <1>8 DEF OwnerStep

\* The request is over, or its process is, whatever GitLab made of it.
LEMMA EndsSend ==
    ASSUME IInv, OnceInv, job.pc = "send", NEW late \in BOOLEAN, OwnerStep(late),
           UNCHANGED <<mode, review, drift>>, NotesOK', ReceiptsInv', GoneStep,
           job' = Idle \/ \E answer : job' = Answered(answer),
           rows' = rows \/ (~late /\ \A k \in Keys \ {job.key} : rows'[k] = rows[k])
    PROVE  OnceInv' /\ StepsOK
<1>1. /\ job'.pc \in {"idle", "sync"} /\ job'.seen = {} /\ job'.drafts = {}
      /\ job'.hidden = {}
      /\ job'.pc = "sync" => job'.by = job.by
  BY Finishes
<1>2. job.by \in Actions /\ review = "published"
  <2>1. PICK k \in Keys, row \in RowType : k = job.key /\ row = rows[job.key]
    BY DEF IInv, TypeOK, JobType
  <2>. QED
    BY <2>1, SendFacts
<1>3. /\ UsedStay /\ KindsInv' /\ DuplicateStep /\ CeilingStep
  BY OwnerOnce
<1>4. PhaseInv'
  BY <1>1, <1>2 DEF PhaseInv
<1>5. LateInv'
  <2>1. \A i \in Ids : notes'[i].late =>
                 /\ notes'[i].kind \in {"open", "plain"}
                 /\ rows[notes'[i].key].status = "not_published"
                 /\ rows[notes'[i].key].intent = "publish"
                 /\ \A m \in Ids \ {i} : notes'[m].key = notes'[i].key => Void(m)'
                 /\ notes'[i].key # job.key \/ late
    BY OwnerOnce
  <2>3. \A i \in Ids : notes'[i].key \in Keys
    BY DEF NotesOK, NoteType
  <2>4. \A i \in Ids : notes'[i].late => rows'[notes'[i].key] = rows[notes'[i].key]
    BY <2>1, <2>3
  <2>. QED
    BY <1>1, <1>2, <2>1, <2>4 DEF LateInv
<1>6. DraftingInv' /\ PublishInv' /\ ActInv' /\ SendInv'
  BY <1>1, Quiet
<1>. QED
  BY <1>3, <1>4, <1>5, <1>6 DEF OnceInv, StepsOK

\* writes what it decided,
LEMMA SentOnce ==
    ASSUME IInv, OnceInv, Send
    PROVE  OnceInv' /\ StepsOK
<1>0. /\ ReceiptsInv /\ job.pc = "send" /\ UNCHANGED <<mode, review, drift>>
      /\ job' = Answered("succeeded") /\ rows \in [Keys -> RowType]
      /\ NotesOK' /\ notes \in [Ids -> NoteType]
  <2>1. IInv'
    BY Sends
  <2>2. NotesOK /\ NotesOK'
    BY <2>1, InFourParts DEF IInv, TypeOK, NotesOK, NoteType, Kinds
  <2>. QED
    BY <2>2 DEF Send, OnceInv, IInv, TypeOK, NotesOK
<1>1. PICK k \in Keys, row \in RowType : k = job.key /\ row = rows[job.key]
  BY DEF IInv, TypeOK, JobType
<1>. DEFINE note == IF Creates(job.key, job.by) THEN New ELSE 0
<1>2. /\ rows'[k] = Done(row, job.by, note)
      /\ \A i \in Keys \ {k} : rows'[i] = rows[i]
  BY <1>0, <1>1 DEF Send
<1>3. OwnerMakes(FALSE) \/ OwnerPublishes \/ OwnerMarks
  BY <1>0, OwnerAsks DEF Send
<1>4. OwnerStep(FALSE)
  BY <1>3 DEF OwnerStep
<1>5. UsedStay
  BY <1>0, <1>4, OwnerOnce
<1>6. Creates(job.key, job.by) =>
         /\ note = New /\ notes'[New].key = k /\ notes'[New].kind # "unused"
  <2>1. SUFFICES ASSUME Creates(job.key, job.by)
                 PROVE  notes'[New].key = k /\ notes'[New].kind # "unused"
    OBVIOUS
  <2>2. PICK kind : kind = PublishedKind(k)
    OBVIOUS
  <2>3. New \in Ids
    BY <1>0, NewIsUnused DEF IInv, RoomInv
  <2>4. notes' = Created(k, kind, FALSE)
    BY <1>1, <2>1, <2>2 DEF Send, Asked, Creates
  <2>5. notes'[New] = [key |-> k, kind |-> kind, late |-> FALSE]
    BY <1>0, <2>3, <2>4 DEF Created
  <2>. QED
    BY <2>2, <2>5 DEF PublishedKind
<1>7. /\ job.by \in Actions
      /\ job.by = "publish" => row.status \in {"drafted", "not_published"}
      /\ job.by = "resolve" => row.status = "committed"
      /\ job.by = "remove" => row.status \in {"drafted", "committed"}
      /\ row.status = "committed" => row.note # 0
      /\ row.status = "drafted" =>
                 /\ row.note = 0 /\ row.draft \in Ids
                 /\ row.draft \in Visible =>
                       \A n \in Ids \ ({row.draft} \cup job.hidden) :
                          notes[n].key = k => Void(n)
  BY <1>0, <1>1, SendFacts
<1>8. /\ rows'[k].status \in {"committed", "removed"}
      /\ rows'[k].status = "removed" => job.by = "remove"
      /\ \/ rows'[k].note = row.note
         \/ Creates(job.key, job.by) /\ rows'[k].note = note
      /\ rows'[k].thread \in {row.thread, "none", "resolved"}
  <2>. HIDE DEF note
  <2>1. CASE job.by = "resolve"
    BY <1>2, <1>7, <2>1 DEF Done, RowType
  <2>2. CASE job.by = "remove"
    BY <1>2, <1>7, <2>2 DEF Done, RowType
  <2>3. CASE job.by = "publish" /\ row.status = "drafted"
    BY <1>2, <1>7, <2>3 DEF Done, RowType
  <2>4. CASE job.by = "publish" /\ row.status # "drafted"
    <3>1. Creates(job.key, job.by)
      BY <1>1, <2>4 DEF Creates
    <3>. QED
      BY <1>2, <1>7, <2>4, <3>1 DEF Done, RowType
  <2>. QED
    BY <1>7, <2>1, <2>2, <2>3, <2>4 DEF Actions
<1>9. ReceiptsInv'
  <2>1. ASSUME NEW i \in Keys, rows[i].note # 0
        PROVE  notes'[rows[i].note].key = i /\ notes'[rows[i].note].kind # "unused"
    <3>1. rows[i].note \in Ids
      BY <1>0, <2>1 DEF RowType, Ids
    <3>. QED
      BY <1>0, <1>5, <2>1, <3>1 DEF ReceiptsInv, UsedStay
  <2>2. ASSUME NEW i \in Keys
        PROVE  /\ rows'[i].status \in {"none", "not_published"}
                     => rows'[i].note = 0 /\ rows'[i].draft = 0
               /\ rows'[i].note # 0 => /\ notes'[rows'[i].note].key = i
                                       /\ notes'[rows'[i].note].kind # "unused"
               /\ i = Summary => rows'[i].thread # "open"
    <3>. HIDE DEF note
    <3>1. CASE i = k
      BY <1>0, <1>1, <1>6, <1>8, <2>1, <3>1 DEF ReceiptsInv
    <3>2. CASE i # k
      BY <1>0, <1>2, <2>1, <3>2 DEF ReceiptsInv
    <3>. QED
      BY <3>1, <3>2
  <2>. QED
    BY <2>2, Bounds DEF ReceiptsInv
<1>10. GoneStep
  <2>1. SUFFICES ASSUME row.status # "removed", rows'[k].status = "removed",
                        NEW n \in Ids, notes'[n].key = k, row.note \in {0, n},
                        n \notin job.hidden
                 PROVE  ~LiveThen(n)
    <3>1. \A i \in Keys : rows[i].status # "removed" /\ rows'[i].status = "removed"
             => i = k
      BY <1>2
    <3>. QED
      BY <1>1, <3>1 DEF GoneStep
  <2>2. job.by = "remove"
    BY <1>8, <2>1
  <2>3. Target(rows[job.key]) \in Visible /\ Marked(Target(rows[job.key]), "gone")
    BY <1>3, <2>2 DEF OwnerMakes, OwnerPublishes, OwnerMarks, Creates
  <2>4. PICK t \in Visible : t = Target(row) /\ Marked(t, "gone")
    BY <1>1, <2>3 DEF Marked
  <2>5. notes'[t].kind = "gone" /\ \A m \in Ids \ {t} : notes'[m] = notes[m]
    BY <2>4 DEF Marked
  <2>6. CASE row.status = "committed"
    <3>1. n = t
      BY <1>7, <2>1, <2>4, <2>6 DEF Target
    <3>. QED
      BY <2>5, <3>1 DEF LiveThen
  <2>7. CASE row.status = "drafted"
    <3>1. t = row.draft
      BY <2>4, <2>7 DEF Target
    <3>2. CASE n = t
      BY <2>5, <3>2 DEF LiveThen
    <3>3. CASE n # t
      <4>1. notes'[n] = notes[n]
        BY <2>5, <3>3
      <4>2. Void(n)
        BY <1>7, <2>1, <2>4, <2>7, <3>1, <3>3, <4>1
      <4>. QED
        BY <4>1, <4>2 DEF Void, LiveThen
    <3>. QED
      BY <3>2, <3>3
  <2>. QED
    BY <1>7, <2>2, <2>6, <2>7
<1>11. \A i \in Keys \ {job.key} : rows'[i] = rows[i]
  BY <1>1, <1>2
<1>. QED
  BY <1>0, <1>4, <1>9, <1>10, <1>11, EndsSend

\* Nobody heard what became of the write: the rows stay as they were saved.
LEMMA UnheardOnce ==
    ASSUME IInv, IInv', OnceInv, job.pc = "send", UNCHANGED <<mode, rows, review, drift>>,
           job' = Idle \/ \E answer : job' = Answered(answer),
           notes' \in Unheard(job.key, job.by)
    PROVE  OnceInv' /\ StepsOK
<1>1. PICK late \in BOOLEAN : OwnerStep(late)
  BY OwnerUnheard DEF OwnerStep
<1>2. UsedStay
  BY <1>1, OwnerOnce
<1>3. ReceiptsInv'
  BY <1>2, ReceiptsStay DEF OnceInv
<1>4. GoneStep
  BY RemovesNone
<1>5. NotesOK'
  BY DEF IInv, TypeOK, NotesOK, NoteType, Kinds
<1>. QED
  BY <1>1, <1>3, <1>4, <1>5, EndsSend

\* and leaves, when it dies, an intent behind.
LEMMA CrashesOnce ==
    ASSUME IInv, OnceInv, "publish" \notin LatePosts, Crash
    PROVE  OnceInv' /\ StepsOK
<1>0. /\ IInv' /\ job' = Idle /\ UNCHANGED <<mode, rows, review, drift>>
  BY Crashes DEF Crash
<1>1. CASE job.pc = "send"
  <2>1. notes' \in Unheard(job.key, job.by)
    BY <1>1 DEF Crash
  <2>. QED
    BY <1>0, <1>1, <2>1, UnheardOnce
<1>2. CASE job.pc = "post" /\ mr = "current"
  <2>1. notes' \in Unanswered(job.key, PostKind(job.key), "publish")
    BY <1>2 DEF Crash
  <2>2. notes' = notes \/ WorkerMakes
    BY <1>2, <2>1, WorkerPosts
  <2>. QED
    BY <1>0, <1>2, <2>2, EndsOnce
<1>3. CASE ~(job.pc = "send") /\ ~(job.pc = "post" /\ mr = "current")
  <2>1. notes' = notes
    BY <1>3 DEF Crash
  <2>. QED
    BY <1>0, <2>1, EndsOnce
<1>. QED
  BY <1>1, <1>2, <1>3

\* A refused or unanswered write keeps its intent.
LEMMA ActsOnce ==
    ASSUME IInv, OnceInv, Decline \/ SendRejected \/ SendRefused \/ SendUnanswered
    PROVE  OnceInv' /\ StepsOK
<1>1. CASE Decline \/ SendRefused
  <2>1. /\ job.pc \in {"act", "send"} /\ UNCHANGED <<mode, notes, rows, review, drift>>
        /\ \E answer : job' = Answered(answer)
    BY <1>1 DEF Decline, SendRefused
  <2>. QED
    BY <2>1, AnswersOnce
<1>2. CASE SendRejected
  <2>1. /\ job.pc = "send" /\ UNCHANGED <<mode, notes, review, drift>>
        /\ \E answer : job' = Answered(answer)
        /\ rows' = [rows EXCEPT ![job.key].intent =
                       IF Creates(job.key, job.by) THEN "none" ELSE @]
        /\ rows \in [Keys -> RowType] /\ job.key \in Keys
    BY <1>2 DEF SendRejected, IInv, TypeOK, JobType
  <2>2. \A k \in Keys : /\ rows'[k].status = rows[k].status
                        /\ rows'[k].note = rows[k].note
                        /\ rows'[k].draft = rows[k].draft
                        /\ rows'[k].thread = rows[k].thread
    BY <2>1 DEF RowType
  <2>3. \A k \in Keys \ {job.key} : rows'[k] = rows[k]
    BY <2>1
  <2>4. ~rows[job.key].conflict
    BY <2>1 DEF OnceInv, SendInv
  <2>5. \A n \in Ids : notes[n].late => notes[n].key # job.key
    BY <2>1, <2>4, NoneLateHere
  <2>. QED
    BY <2>1, <2>2, <2>3, <2>5, AnswersOnce
<1>3. CASE SendUnanswered
  <2>1. IInv'
    BY <1>3, Sends
  <2>2. /\ job.pc = "send" /\ UNCHANGED <<mode, rows, review, drift>>
        /\ \E answer : job' = Answered(answer)
        /\ notes' \in Unheard(job.key, job.by)
    BY <1>3 DEF SendUnanswered
  <2>. QED
    BY <2>1, <2>2, UnheardOnce
<1>. QED
  BY <1>1, <1>2, <1>3
-----------------------------------------------------------------------------
(***************************************************************************)
(* Every step, and the theorems                                            *)
(***************************************************************************)

\* The second invariant holds before the first run.
LEMMA InitOnce == Init => OnceInv
<1>. SUFFICES ASSUME Init PROVE OnceInv
  OBVIOUS
<1>1. /\ rows = [k \in Keys |-> NoRow] /\ job = Idle /\ drift = {}
      /\ review = "running"
  BY DEF Init
<1>2. /\ NoRow.note = 0 /\ NoRow.draft = 0 /\ NoRow.thread = "none"
      /\ Idle.pc = "idle" /\ Idle.seen = {} /\ Idle.drafts = {} /\ Idle.hidden = {}
  BY DEF NoRow, Idle
<1>3. ASSUME NEW n \in Ids
      PROVE  /\ notes[n].kind # "draft" /\ ~notes[n].late
             /\ notes[n].key = Summary => notes[n].kind = "unused"
  <2>1. /\ NoNote.kind = "unused" /\ ~NoNote.late
    BY DEF NoNote
  <2>2. CASE notes = [m \in Ids |-> NoNote]
    BY <2>1, <2>2
  <2>3. ASSUME NEW k \in Inline, NEW kind \in {"open", "resolved"},
               notes = [m \in Ids |->
                          IF m = 1 THEN [key |-> k, kind |-> kind, late |-> FALSE]
                          ELSE NoNote]
        PROVE  /\ notes[n].kind # "draft" /\ ~notes[n].late
               /\ notes[n].key = Summary => notes[n].kind = "unused"
    <3>1. notes[n] = NoNote \/ notes[n] = [key |-> k, kind |-> kind, late |-> FALSE]
      BY <2>3
    <3>. QED
      BY <2>1, <3>1, PublicationAssumption
  <2>. QED
    BY <2>2, <2>3 DEF Init
<1>4. KindsInv
  BY <1>1, <1>3 DEF KindsInv
<1>5. ReceiptsInv
  BY <1>1, <1>2, Bounds DEF ReceiptsInv
<1>6. PhaseInv
  BY <1>1, <1>2 DEF PhaseInv
<1>7. LateInv
  BY <1>3 DEF LateInv
<1>8. DraftingInv /\ PublishInv /\ ActInv /\ SendInv
  BY <1>1, <1>2 DEF DraftingInv, PublishInv, ActInv, SendInv
<1>. QED
  BY <1>4, <1>5, <1>6, <1>7, <1>8 DEF OnceInv

\* Every step keeps the second invariant.
LEMMA StepOnce ==
    ASSUME IInv, OnceInv, "publish" \notin LatePosts, [Next]_vars
    PROVE  OnceInv' /\ StepsOK
<1>1. CASE UNCHANGED vars
  <2>1. UNCHANGED <<mode, notes, rows, review, job, drift>>
    BY <1>1 DEF vars
  <2>2. OnceInv'
    BY <2>1, OnceUnchanged
  <2>. QED
    BY <2>1, <2>2, MakesNone, RemovesNone DEF StepsOK
<1>2. CASE Next
  BY <1>2, StartsOnce, ReadsOnce, LeavesOnce, PostsOnce, FinishesOnce, TurnsToRead,
     SyncsOnce, UndertakesOnce, SentOnce, ActsOnce, CrashesOnce, UsersOnce
     DEF Next, ByUsers
<1>. QED
  BY <1>1, <1>2

\* Nothing is said twice, whatever crashes, reruns, retries, and answers to the
\* owner's requests that never came: the worker and the dashboard make a note
\* only while no other that says the same is there or on its way, beside the
\* exceptions that NoDuplicate names.  The posts of a run that was given up are
\* supposed not to appear after it: the next run does not wait for them.
THEOREM NoDuplicateAlways ==
    ASSUME "publish" \notin LatePosts
    PROVE  Spec => NoDuplicate
<1>1. IInv /\ [Next]_vars => IInv'
  BY StepHolds
<1>2. IInv /\ OnceInv /\ [Next]_vars => OnceInv'
  BY StepOnce
<1>3. IInv /\ OnceInv /\ [Next]_vars => [DuplicateStep]_<<notes, job>>
  BY StepOnce DEF StepsOK
<1>4. [][DuplicateStep]_<<notes, job>> => NoDuplicate
  BY DEF DuplicateStep, NoDuplicate
<1>. QED
  BY InitHolds, InitOnce, <1>1, <1>2, <1>3, <1>4, PTL DEF Spec

\* The ceiling for inline comments holds whatever room a run or a request
\* counted on: when either makes an inline note, the open threads and the
\* drafts on the merge request are at most as many as the ceiling, but for what
\* came to life after they were counted.
THEOREM CeilingKeptAlways ==
    ASSUME "publish" \notin LatePosts
    PROVE  Spec => CeilingKept
<1>1. IInv /\ [Next]_vars => IInv'
  BY StepHolds
<1>2. IInv /\ OnceInv /\ [Next]_vars => OnceInv'
  BY StepOnce
<1>3. IInv /\ OnceInv /\ [Next]_vars => [CeilingStep]_<<notes, job>>
  BY StepOnce DEF StepsOK
<1>4. [][CeilingStep]_<<notes, job>> => CeilingKept
  BY DEF CeilingStep, CeilingKept
<1>. QED
  BY InitHolds, InitOnce, <1>1, <1>2, <1>3, <1>4, PTL DEF Spec

\* A row is called removed, by reconciliation or by the owner, only when what it
\* stands for is gone from the merge request.
THEOREM RemovedMeansGoneAlways ==
    ASSUME "publish" \notin LatePosts
    PROVE  Spec => RemovedMeansGone
<1>1. IInv /\ [Next]_vars => IInv'
  BY StepHolds
<1>2. IInv /\ OnceInv /\ [Next]_vars => OnceInv'
  BY StepOnce
<1>3. IInv /\ OnceInv /\ [Next]_vars => [GoneStep]_rows
  BY StepOnce DEF StepsOK
<1>4. [][GoneStep]_rows => RemovedMeansGone
  BY DEF GoneStep, RemovedMeansGone
<1>. QED
  BY InitHolds, InitOnce, <1>1, <1>2, <1>3, <1>4, PTL DEF Spec
=============================================================================
