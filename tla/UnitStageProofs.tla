---------------------------- MODULE UnitStageProofs ----------------------------
(***************************************************************************)
(* Theorems about UnitStage for any plan, workers, answers and bounds.     *)
(***************************************************************************)
EXTENDS UnitStage, SequenceTheorems, FiniteSetTheorems, TLAPS

\* A result that is finished: the unit is listed once, as examined if an answer
\* said so, or as skipped and the result is partial.
Whole(u, r) ==
    /\ r.examined + r.skipped = 1
    /\ r.examined = 1 => u \in covered
    /\ r.skipped = 1 => r.partial

\* What the database holds: finished results, and a merged stage that agrees
\* with the checkpoints of its identity, whose units nobody works on again.
StoredInv ==
    /\ \A u \in Units, h \in Hashes :
          checkpoint[u][h] # Fresh => Whole(u, checkpoint[u][h])
    /\ stage.there =>
          \A u \in Units :
             /\ Whole(u, stage.results[u])
             /\ checkpoint[u][stage.hash] # Fresh
                   => stage.results[u] = checkpoint[u][stage.hash]
    /\ step = "units" => ~(stage.there /\ stage.hash = hash)

\* Workers at work have different units, taken from the queue and without a
\* checkpoint; while one is asked about its result is open.
Busy(w) == worker[w].at \in {"asking", "saving"}
Open(u) == \E w \in Workers : worker[w].at = "asking" /\ worker[w].unit = u
WorkInv ==
    /\ \A w \in Workers : Busy(w) =>
          /\ step = "units"
          /\ worker[w].unit \in Units /\ worker[w].unit < queue
          /\ checkpoint[worker[w].unit][hash] = Fresh
    /\ \A v, w \in Workers : Busy(v) /\ Busy(w) /\ v # w => worker[v].unit # worker[w].unit
    /\ \A w \in Workers : worker[w].at = "asking" =>
          LET u == worker[w].unit IN
          /\ completed[u].examined = 0 /\ completed[u].skipped = 0
          /\ \A f \in Files : completed[u].found[f] < worker[w].attempt
          /\ \A i \in DOMAIN worker[w].observed :
                Examines(worker[w].observed[i]) => u \in covered

\* The results of the job: none of a unit still in the queue, finished ones of
\* the units nobody is asked about, and those checkpointed are the checkpoints.
Drawn(u) == step \in {"finish", "done"} \/ (step = "units" /\ u < queue)
ResultInv ==
    /\ step = "start" => queue = 1
    /\ \A u \in Units :
          /\ step = "start" \/ (step = "units" /\ queue <= u) => completed[u] = Fresh
          /\ Drawn(u) /\ ~Open(u) => Whole(u, completed[u])
          /\ Drawn(u) /\ checkpoint[u][hash] # Fresh => completed[u] = checkpoint[u][hash]

\* A file is settled once, in the end, from the results.
StreamInv ==
    /\ \A f \in Files :
          /\ outcome[f].task = "none" => outcome[f].from = [u \in Units |-> 0]
          /\ outcome[f].task # "none" => step \in {"finish", "done"} /\ outcome[f].from = Final(f)
    /\ StreamAgrees

\* The dashboard's counters.
Examined == {u \in Units : completed[u].examined = 1}
AskingNow == {w \in Workers : worker[w].at = "asking"}
CountInv ==
    /\ progress.idle + progress.running + progress.completed + progress.stopped = N
    /\ progress.running = Cardinality(AskingNow)
    /\ progress.completed = Cardinality(Examined)
    /\ step \in {"start", "units"} => progress.idle = N + 1 - queue

IInv == TypeOK /\ StoredInv /\ WorkInv /\ ResultInv /\ StreamInv /\ CountInv
-----------------------------------------------------------------------------
(***************************************************************************)
(* The operators                                                           *)
(***************************************************************************)

\* The starting values have their types.
LEMMA StartTypes ==
    /\ Fresh \in ResultType /\ Fresh.examined = 0 /\ Fresh.skipped = 0
    /\ \A f \in Files : Fresh.found[f] = 0
    /\ Skipped \in ResultType /\ Skipped.examined = 0 /\ Skipped.skipped = 1
    /\ Skipped.partial /\ Skipped # Fresh
    /\ Free \in WorkerType /\ NoEarly \in FileType
    /\ NoStage \in [hash : Hashes, there : BOOLEAN, results : [Units -> ResultType]]
    /\ NoStage.hash \in Hashes /\ ~NoStage.there
<1>1. Nothing \in [Files -> 0..Attempts] /\ 1 \in 1..Attempts /\ 0 \in 0..N
  BY UnitsAssumption, AnswersAssumption DEF Nothing
<1>2. Fresh \in ResultType /\ Skipped \in ResultType
  BY <1>1 DEF Fresh, Skipped, ResultType
<1>3. <<>> \in Seq(Answers)
  BY EmptySeq
<1>4. Free \in WorkerType
  BY <1>1, <1>3 DEF Free, WorkerType
<1>5. [u \in Units |-> 0] \in [Units -> 0..Attempts]
  BY AnswersAssumption
<1>6. NoEarly \in FileType
  BY <1>5 DEF NoEarly, FileType
<1>7. (CHOOSE h \in Hashes : TRUE) \in Hashes
  BY AnswersAssumption
<1>8. [u \in Units |-> Fresh] \in [Units -> ResultType]
  BY <1>2
<1>. QED
  BY <1>1, <1>2, <1>4, <1>6, <1>7, <1>8 DEF NoStage, Fresh, Skipped, Nothing

\* An envelope adds at most one finding to each file, and counts as coverage
\* exactly if it examined the unit.
LEMMA TakenAdds ==
    ASSUME NEW r \in ResultType, NEW a \in Answers, NEW k \in 1..Attempts,
           r.examined = 0, \A f \in Files : r.found[f] < k
    PROVE  /\ Taken(r, a) \in ResultType
           /\ Taken(r, a).skipped = r.skipped
           /\ Taken(r, a).examined = IF Examines(a) THEN 1 ELSE 0
           /\ \A f \in Files : Taken(r, a).found[f] \in 0..k
<1>. DEFINE found == [f \in Files |-> r.found[f] + IF f = a.in THEN 1 ELSE 0]
            partial == r.partial \/ a.cut
            examined == r.examined + IF Examines(a) THEN 1 ELSE 0
<1>1. \A f \in Files : r.found[f] \in Nat /\ r.found[f] < k
  BY AnswersAssumption DEF ResultType
<1>2. \A f \in Files : found[f] \in 0..k /\ found[f] \in 0..Attempts
  BY <1>1, AnswersAssumption
<1>3. found \in [Files -> 0..Attempts]
  BY <1>2
<1>4. partial \in BOOLEAN
  BY DEF ResultType
<1>5. examined \in 0..1 /\ examined = IF Examines(a) THEN 1 ELSE 0
  OBVIOUS
<1>6. Taken(r, a) = [found |-> found, examined |-> examined, skipped |-> r.skipped,
                     partial |-> partial, failed |-> r.failed]
  <2>1. r = [found |-> r.found, examined |-> r.examined, skipped |-> r.skipped,
             partial |-> r.partial, failed |-> r.failed]
    BY DEF ResultType
  <2>2. Taken(r, a) = [r EXCEPT !.found = found, !.partial = partial, !.examined = examined]
    BY Zenon DEF Taken
  <2>. QED
    <3>. HIDE DEF found, partial, examined
    <3>. QED
      BY <2>1, <2>2
<1>. HIDE DEF found, partial, examined
<1>7. [found |-> found, examined |-> examined, skipped |-> r.skipped,
       partial |-> partial, failed |-> r.failed] \in ResultType
  BY <1>3, <1>4, <1>5 DEF ResultType
<1>. QED
  BY <1>2, <1>5, <1>6, <1>7

\* A closed result is listed once, and examined only if it was.
LEMMA ClosedIsListed ==
    ASSUME NEW r \in ResultType, r.skipped = 0
    PROVE  /\ Closed(r) \in ResultType
           /\ Closed(r).examined = r.examined
           /\ Closed(r).examined + Closed(r).skipped = 1
           /\ Closed(r).skipped = 1 => Closed(r).partial
<1>1. CASE r.examined > 0
  BY <1>1 DEF Closed, ResultType
<1>2. CASE ~(r.examined > 0)
  <2>. DEFINE c(n, cut) == [r EXCEPT !.skipped = n, !.partial = cut]
  <2>1. \A n \in 0..1, cut \in BOOLEAN :
           /\ c(n, cut) \in ResultType /\ c(n, cut).examined = r.examined
           /\ c(n, cut).skipped = n /\ c(n, cut).partial = cut
    BY DEF ResultType
  <2>2. r.skipped + 1 = 1 /\ r.examined = 0 /\ 1 \in 0..1 /\ TRUE \in BOOLEAN
    BY <1>2 DEF ResultType
  <2>3. Closed(r) = c(1, TRUE)
    BY <1>2, <2>2, Zenon DEF Closed
  <2>4. /\ Closed(r) \in ResultType /\ Closed(r).examined = r.examined
        /\ Closed(r).skipped = 1 /\ Closed(r).partial = TRUE
    <3>. HIDE DEF c
    <3>. QED
      BY <2>1, <2>2, <2>3, Zenon
  <2>. QED
    BY <2>2, <2>4
<1>. QED
  BY <1>1, <1>2

\* The latest observed answer that examined the unit is one of them.
LEMMA LatestIsObserved ==
    ASSUME NEW n \in Nat, NEW S \in SUBSET (1..n), S # {}
    PROVE  Max(S) \in S
<1>. DEFINE below == {ss \in Nat \X Nat : ss[1] < ss[2]}
            Left == {n - i : i \in S}
<1>1. Left \subseteq Nat /\ Left # {}
  <2>1. \A i \in S : n - i \in Nat
    OBVIOUS
  <2>. QED
    BY <2>1
<1>2. IsWellFoundedOn(below, Nat)
  BY NatLessThanWellFounded, Zenon DEF OpToRel
<1>3. \E x \in Left : \A y \in Left : <<y, x>> \notin below
  <2>. HIDE DEF below, Left
  <2>. QED
    BY <1>1, <1>2, WFMin
<1>4. PICK x \in Left : \A y \in Left : <<y, x>> \notin below
  BY <1>3
<1>5. PICK i \in S : x = n - i
  OBVIOUS
<1>6. ASSUME NEW j \in S PROVE j <= i
  <2>1. i \in Nat /\ j \in Nat /\ n - i \in Nat /\ n - j \in Nat /\ n - j \in Left
    OBVIOUS
  <2>2. <<n - j, n - i>> \notin below
    BY <1>4, <1>5, <2>1
  <2>3. n - j < n - i => <<n - j, n - i>> \in below
    BY <2>1
  <2>. QED
    BY <2>1, <2>2, <2>3
<1>. QED
  BY <1>6 DEF Max

\* What a timeout keeps counts as coverage only by an observed answer.
LEMMA KeptIsObserved ==
    ASSUME NEW r \in ResultType, NEW observed \in Seq(Answers), NEW k \in 1..Attempts,
           r.examined = 0, r.skipped = 0, \A f \in Files : r.found[f] < k
    PROVE  /\ Kept(r, observed) \in ResultType
           /\ Kept(r, observed).skipped = 0
           /\ Kept(r, observed).examined = 1
                 => \E i \in DOMAIN observed : Examines(observed[i])
<1>. DEFINE covering == {i \in DOMAIN observed : Examines(observed[i])}
<1>1. CASE covering = {}
  BY <1>1 DEF Kept
<1>2. CASE covering # {}
  <2>1. Len(observed) \in Nat /\ covering \in SUBSET (1..Len(observed))
    BY LenProperties
  <2>2. Max(covering) \in covering
    BY <1>2, <2>1, LatestIsObserved
  <2>3. observed[Max(covering)] \in Answers
    BY <2>2, ElementOfSeq, LenProperties
  <2>4. Kept(r, observed) = Taken(r, observed[Max(covering)])
    BY <1>2 DEF Kept
  <2>5. /\ Taken(r, observed[Max(covering)]) \in ResultType
        /\ Taken(r, observed[Max(covering)]).skipped = r.skipped
    BY <2>3, TakenAdds
  <2>. QED
    BY <2>2, <2>4, <2>5
<1>. QED
  BY <1>1, <1>2

\* Findings by unit, of one file.
LEMMA InputsType ==
    ASSUME NEW f \in Files, NEW results \in [Units -> ResultType], NEW told
    PROVE  Inputs(f, results, told) \in [Units -> 0..Attempts]
<1>1. 0 \in 0..Attempts
  BY AnswersAssumption
<1>2. \A u \in Units : results[u].found[f] \in 0..Attempts
  BY DEF ResultType
<1>. QED
  BY <1>1, <1>2 DEF Inputs

\* The files of the stream keep their type when a unit ends.
LEMMA TellType ==
    ASSUME early \in [Files -> FileType], finished \subseteq Units,
           NEW u \in Units, NEW results \in [Units -> ResultType],
           Tell(u, results)
    PROVE  finished' \subseteq Units /\ early' \in [Files -> FileType]
<1>. DEFINE told == finished \cup {u}
<1>1. \A f \in Files :
        [task |-> "running", from |-> Inputs(f, results, told)] \in FileType
  BY InputsType DEF FileType
<1>2. Started(results, told) \in [Files -> FileType]
  <2>. HIDE DEF told
  <2>. QED
    BY <1>1 DEF Started
<1>. QED
  BY <1>2 DEF Tell

\* The sets that are counted are finite.
LEMMA Counted ==
    /\ \A S \in SUBSET Units : IsFiniteSet(S) /\ Cardinality(S) \in Nat
    /\ \A S \in SUBSET Workers : IsFiniteSet(S) /\ Cardinality(S) \in Nat
<1>1. IsFiniteSet(Units)
  BY FS_Interval, UnitsAssumption DEF Units
<1>. QED
  BY <1>1, UnitsAssumption, FS_Subset, FS_CardinalityType
-----------------------------------------------------------------------------
(***************************************************************************)
(* The steps                                                               *)
(***************************************************************************)

\* The invariant holds before the stage begins.
LEMMA InitHolds == Init => IInv
<1>. SUFFICES ASSUME Init PROVE IInv
  OBVIOUS
<1>. USE DEF Init
<1>1. TypeOK
  <2>1. /\ checkpoint \in [Units -> [Hashes -> ResultType]]
        /\ stage \in [hash : Hashes, there : BOOLEAN, results : [Units -> ResultType]]
        /\ hash \in Hashes /\ worker \in [Workers -> WorkerType]
        /\ completed \in [Units -> ResultType]
        /\ early \in [Files -> FileType] /\ outcome \in [Files -> FileType]
    BY StartTypes
  <2>2. /\ queue \in 1..(N + 1) /\ crashes \in 0..MaxCrashes
        /\ progress \in [idle : Nat, running : Nat, completed : Nat, stopped : Nat]
    BY UnitsAssumption, AnswersAssumption
  <2>. QED
    BY <2>1, <2>2 DEF TypeOK
<1>2. StoredInv
  BY StartTypes DEF StoredInv
<1>3. WorkInv
  BY DEF WorkInv, Busy, Free
<1>4. ResultInv
  BY DEF ResultInv, Drawn
<1>5. StreamInv
  BY DEF StreamInv, StreamAgrees, NoEarly
<1>6. CountInv
  <2>1. Examined = {} /\ AskingNow = {}
    BY StartTypes DEF Examined, AskingNow, Free
  <2>2. /\ progress.idle = N /\ progress.running = 0 /\ progress.completed = 0
        /\ progress.stopped = 0 /\ queue = 1 /\ Cardinality({}) = 0
    BY FS_EmptySet
  <2>. QED
    BY <2>1, <2>2, UnitsAssumption DEF CountInv
<1>. QED
  BY <1>1, <1>2, <1>3, <1>4, <1>5, <1>6 DEF IInv

\* A unit drawn from the queue that nobody asks about: its result is finished,
\* and its checkpoint's if it has one.
LEMMA PassHolds ==
    ASSUME IInv, step = "units", queue <= N, queue' = queue + 1,
           NEW r \in ResultType, Whole(queue, r),
           checkpoint[queue][hash] # Fresh => r = checkpoint[queue][hash],
           Pass(queue, r),
           UNCHANGED <<stored, step, hash, worker, outcome, exhausted, late, covered, crashes>>
    PROVE  IInv'
<1>. USE DEF IInv, stored
<1>1. /\ queue \in Units /\ queue \in 1..N /\ N \in Nat /\ completed \in [Units -> ResultType]
      /\ completed' = [completed EXCEPT ![queue] = r]
      /\ \A u \in Units : u # queue => completed'[u] = completed[u]
      /\ completed'[queue] = r /\ completed' \in [Units -> ResultType]
  BY UnitsAssumption DEF TypeOK, Units, Pass
<1>2. progress.idle = N + 1 - queue /\ progress.idle \in Nat /\ progress.idle > 0
  BY <1>1 DEF CountInv
<1>3. TypeOK'
  <2>1. finished' \subseteq Units /\ early' \in [Files -> FileType]
    BY <1>1, TellType DEF TypeOK, Pass
  <2>2. progress' \in [idle : Nat, running : Nat, completed : Nat, stopped : Nat]
    <3>. DEFINE T == [idle : Nat, running : Nat, completed : Nat, stopped : Nat]
    <3>1. progress \in T /\ progress.idle - 1 \in Nat
      BY <1>2 DEF TypeOK
    <3>2. progress.completed + 1 \in Nat /\ progress.stopped + 1 \in Nat
      BY <3>1
    <3>3. [progress EXCEPT !.idle = @ - 1, !.completed = @ + 1] \in T
      BY <3>1, <3>2
    <3>4. [progress EXCEPT !.idle = @ - 1, !.stopped = @ + 1] \in T
      BY <3>1, <3>2
    <3>. QED
      BY <3>3, <3>4 DEF Pass
  <2>3. queue' \in 1..(N + 1)
    BY <1>1
  <2>. QED
    BY <1>1, <2>1, <2>2, <2>3 DEF TypeOK
<1>4. StoredInv'
  BY DEF StoredInv, Whole
<1>5. WorkInv'
  <2>1. \A w \in Workers : Busy(w) => worker[w].unit \in Units /\ worker[w].unit < queue
    BY DEF WorkInv
  <2>2. \A w \in Workers : Busy(w) =>
           /\ worker[w].unit < queue'
           /\ completed'[worker[w].unit] = completed[worker[w].unit]
    <3>. SUFFICES ASSUME NEW w \in Workers, Busy(w)
                  PROVE  /\ worker[w].unit < queue'
                         /\ completed'[worker[w].unit] = completed[worker[w].unit]
      OBVIOUS
    <3>1. worker[w].unit \in 1..N /\ worker[w].unit < queue
      BY <2>1 DEF Units
    <3>. QED
      BY <1>1, <3>1 DEF Units
  <2>. QED
    BY <2>2 DEF WorkInv, Busy
<1>6. ResultInv'
  <2>1. ~Open(queue)
    BY <1>1 DEF Open, WorkInv, Busy, Units
  <2>. SUFFICES ASSUME NEW u \in Units
                PROVE  /\ queue' <= u => completed'[u] = Fresh
                       /\ Drawn(u)' /\ ~Open(u)' => Whole(u, completed[u])'
                       /\ Drawn(u)' /\ checkpoint[u][hash] # Fresh
                             => completed'[u] = checkpoint[u][hash]
    BY DEF ResultInv
  <2>2. CASE u = queue
    BY <1>1, <2>1, <2>2 DEF Whole
  <2>3. CASE u # queue
    <3>1. u \in 1..N /\ completed'[u] = completed[u]
      BY <1>1, <2>3 DEF Units
    <3>2. (queue' <= u => queue <= u) /\ (Drawn(u)' => Drawn(u)) /\ Open(u)' = Open(u)
      BY <1>1, <2>3, <3>1 DEF Drawn, Open
    <3>. QED
      BY <3>1, <3>2 DEF ResultInv, Whole
  <2>. QED
    BY <2>2, <2>3
<1>7. StreamInv'
  BY DEF StreamInv, StreamAgrees
<1>8. CountInv'
  <2>1. completed[queue] = Fresh /\ queue \notin Examined /\ Examined \subseteq Units
    BY <1>1, StartTypes DEF ResultInv, Examined
  <2>2. r.examined \in 0..1 /\ r.skipped \in 0..1
    BY DEF ResultType
  <2>3. AskingNow' = AskingNow
    BY DEF AskingNow
  <2>4. /\ progress.idle \in Nat /\ progress.running \in Nat /\ progress.completed \in Nat
        /\ progress.stopped \in Nat
        /\ progress = [idle |-> progress.idle, running |-> progress.running,
                       completed |-> progress.completed, stopped |-> progress.stopped]
    BY DEF TypeOK
  <2>5. CASE r.examined > 0
    <3>1. Examined' = Examined \cup {queue}
      BY <1>1, <2>2, <2>5 DEF Examined
    <3>2. Cardinality(Examined') = Cardinality(Examined) + 1
      BY <2>1, <3>1, Counted, FS_AddElement
    <3>3. progress' = [progress EXCEPT !.idle = @ - 1, !.completed = @ + 1]
      BY <2>5 DEF Pass
    <3>4. /\ progress'.idle = progress.idle - 1 /\ progress'.completed = progress.completed + 1
          /\ progress'.running = progress.running /\ progress'.stopped = progress.stopped
      BY <2>4, <3>3
    <3>. QED
      BY <1>1, <2>3, <2>4, <3>2, <3>4 DEF CountInv
  <2>6. CASE ~(r.examined > 0)
    <3>1. Examined' = Examined
      BY <1>1, <2>1, <2>2, <2>6 DEF Examined
    <3>3. progress' = [progress EXCEPT !.idle = @ - 1, !.stopped = @ + 1]
      BY <2>6 DEF Pass
    <3>4. /\ progress'.idle = progress.idle - 1 /\ progress'.completed = progress.completed
          /\ progress'.running = progress.running /\ progress'.stopped = progress.stopped + 1
      BY <2>4, <3>3
    <3>. QED
      BY <1>1, <2>3, <2>4, <3>1, <3>4 DEF CountInv
  <2>. QED
    BY <2>5, <2>6
<1>. QED
  BY <1>3, <1>4, <1>5, <1>6, <1>7, <1>8

\* A worker starts to ask about a unit without a checkpoint.
LEMMA AskHolds ==
    ASSUME IInv, step = "units", queue <= N, queue' = queue + 1,
           NEW w \in Workers, worker[w].at = "free", ~Cached(queue), Ask(w, queue),
           UNCHANGED <<stored, step, hash, streamed, exhausted, late, covered, crashes>>
    PROVE  IInv'
<1>. USE DEF IInv, stored, streamed
<1>1. /\ queue \in Units /\ queue \in 1..N /\ N \in Nat
      /\ completed' = completed /\ completed[queue] = Fresh /\ checkpoint[queue][hash] = Fresh
  BY UnitsAssumption DEF TypeOK, Units, Ask, ResultInv, Cached
<1>2. /\ worker'[w].at = "asking" /\ worker'[w].unit = queue /\ worker'[w].attempt = 1
      /\ worker'[w].observed = <<>> /\ worker' \in [Workers -> WorkerType]
      /\ \A v \in Workers : v # w => worker'[v] = worker[v]
  <2>1. worker \in [Workers -> WorkerType] /\ queue \in 0..N
    BY <1>1 DEF TypeOK
  <2>2. [Free EXCEPT !.unit = queue, !.at = "asking"] \in WorkerType
    BY <2>1, StartTypes DEF WorkerType
  <2>. QED
    BY <2>1, <2>2 DEF Ask, Free
<1>3. /\ progress.idle \in Nat /\ progress.running \in Nat /\ progress.completed \in Nat
      /\ progress.stopped \in Nat /\ progress.idle = N + 1 - queue /\ progress.idle - 1 \in Nat
      /\ progress = [idle |-> progress.idle, running |-> progress.running,
                     completed |-> progress.completed, stopped |-> progress.stopped]
  BY <1>1 DEF TypeOK, CountInv
<1>4. /\ progress' = [progress EXCEPT !.idle = @ - 1, !.running = @ + 1]
      /\ progress'.idle = progress.idle - 1 /\ progress'.running = progress.running + 1
      /\ progress'.completed = progress.completed /\ progress'.stopped = progress.stopped
  BY <1>3 DEF Ask
<1>5. TypeOK'
  <2>. DEFINE T == [idle : Nat, running : Nat, completed : Nat, stopped : Nat]
  <2>3. progress \in T /\ progress.running + 1 \in Nat
    BY <1>3
  <2>1. progress' \in T
    BY <1>3, <1>4, <2>3
  <2>2. queue' \in 1..(N + 1)
    BY <1>1
  <2>. QED
    BY <1>1, <1>2, <2>1, <2>2 DEF TypeOK
<1>6. StoredInv'
  BY DEF StoredInv, Whole
<1>7. WorkInv'
  <2>1. \A v \in Workers : Busy(v) => worker[v].unit \in 1..N /\ worker[v].unit < queue
    BY DEF WorkInv, Units
  <2>2. \A v \in Workers : Busy(v) => worker[v].unit < queue' /\ worker[v].unit # queue
    BY <1>1, <2>1
  <2>3. \A v \in Workers : v # w => Busy(v)' = Busy(v)
    BY <1>2 DEF Busy
  <2>4. \A v \in Workers : Busy(v)' =>
          /\ step' = "units"
          /\ worker'[v].unit \in Units /\ worker'[v].unit < queue'
          /\ checkpoint'[worker'[v].unit][hash'] = Fresh
    BY <1>1, <1>2, <2>2, <2>3 DEF WorkInv
  <2>5. \A v, x \in Workers : Busy(v)' /\ Busy(x)' /\ v # x => worker'[v].unit # worker'[x].unit
    BY <1>2, <2>2, <2>3 DEF WorkInv
  <2>6. \A v \in Workers : worker'[v].at = "asking" =>
          /\ completed'[worker'[v].unit].examined = 0 /\ completed'[worker'[v].unit].skipped = 0
          /\ \A f \in Files : completed'[worker'[v].unit].found[f] < worker'[v].attempt
          /\ \A i \in DOMAIN worker'[v].observed :
                Examines(worker'[v].observed[i]) => worker'[v].unit \in covered'
    BY <1>1, <1>2, StartTypes DEF WorkInv
  <2>. QED
    BY <2>4, <2>5, <2>6 DEF WorkInv
<1>8. ResultInv'
  <2>. SUFFICES ASSUME NEW u \in Units
                PROVE  /\ queue' <= u => completed'[u] = Fresh
                       /\ Drawn(u)' /\ ~Open(u)' => Whole(u, completed[u])'
                       /\ Drawn(u)' /\ checkpoint[u][hash] # Fresh
                             => completed'[u] = checkpoint[u][hash]
    BY DEF ResultInv
  <2>1. CASE u = queue
    BY <1>1, <1>2, <2>1 DEF Open
  <2>2. CASE u # queue
    <3>1. u \in 1..N
      BY DEF Units
    <3>2. (queue' <= u => queue <= u) /\ (Drawn(u)' => Drawn(u))
      BY <1>1, <2>2, <3>1 DEF Drawn
    <3>3. Open(u) => Open(u)'
      BY <1>2 DEF Open
    <3>. QED
      BY <1>1, <3>2, <3>3 DEF ResultInv, Whole
  <2>. QED
    BY <2>1, <2>2
<1>9. StreamInv'
  BY DEF StreamInv, StreamAgrees
<1>10. CountInv'
  <2>1. AskingNow' = AskingNow \cup {w} /\ w \notin AskingNow /\ AskingNow \subseteq Workers
    BY <1>2 DEF AskingNow
  <2>2. Cardinality(AskingNow') = Cardinality(AskingNow) + 1
    BY <2>1, Counted, FS_AddElement
  <2>3. Examined' = Examined
    BY <1>1 DEF Examined
  <2>. QED
    BY <1>1, <1>3, <1>4, <2>2, <2>3 DEF CountInv
<1>. QED
  BY <1>5, <1>6, <1>7, <1>8, <1>9, <1>10

\* What is known of a worker that asks.
LEMMA AskingFacts ==
    ASSUME IInv, NEW w \in Workers, Asking(w)
    PROVE  /\ worker[w].unit \in Units /\ worker[w].unit \in 1..N /\ worker[w].unit < queue
           /\ step = "units" /\ checkpoint[worker[w].unit][hash] = Fresh
           /\ completed[worker[w].unit] \in ResultType
           /\ completed[worker[w].unit].examined = 0 /\ completed[worker[w].unit].skipped = 0
           /\ \A f \in Files : completed[worker[w].unit].found[f] < worker[w].attempt
           /\ worker[w].attempt \in 1..Attempts /\ worker[w].observed \in Seq(Answers)
           /\ \A i \in DOMAIN worker[w].observed :
                 Examines(worker[w].observed[i]) => worker[w].unit \in covered
           /\ \A v \in Workers : v # w /\ Busy(v) => worker[v].unit # worker[w].unit
<1>1. Busy(w) /\ worker[w].at = "asking" /\ worker[w] \in WorkerType
  BY DEF Asking, Busy, IInv, TypeOK
<1>2. /\ worker[w].unit \in Units /\ worker[w].unit < queue /\ step = "units"
      /\ checkpoint[worker[w].unit][hash] = Fresh
  BY <1>1 DEF IInv, WorkInv
<1>3. worker[w].attempt \in 1..Attempts /\ worker[w].observed \in Seq(Answers)
  BY <1>1 DEF WorkerType
<1>4. completed[worker[w].unit] \in ResultType
  BY <1>2 DEF IInv, TypeOK
<1>. QED
  BY <1>1, <1>2, <1>3, <1>4 DEF IInv, WorkInv, Units

\* The end of a unit a worker asked about.
LEMMA EndHolds ==
    ASSUME IInv, NEW w \in Workers, Asking(w), NEW r \in ResultType, r.skipped = 0,
           r.examined = 1 => worker[w].unit \in covered', End(w, r),
           covered \subseteq covered', covered' \subseteq Units, exhausted' \in BOOLEAN,
           UNCHANGED <<stored, step, hash, queue, streamed, late, crashes>>
    PROVE  IInv'
<1>. USE DEF IInv, stored, streamed
<1>1. PICK u : u = worker[w].unit
  OBVIOUS
<1>2. /\ u \in Units /\ u \in 1..N /\ u < queue /\ step = "units"
      /\ checkpoint[u][hash] = Fresh /\ completed[u].examined = 0
      /\ \A v \in Workers : v # w /\ Busy(v) => worker[v].unit # u
  BY <1>1, AskingFacts
<1>3. /\ completed' = [completed EXCEPT ![u] = Closed(r)]
      /\ worker' = [worker EXCEPT ![w] = [Free EXCEPT !.unit = u, !.at = "saving"]]
      /\ progress' = IF r.examined > 0
                     THEN [progress EXCEPT !.running = @ - 1, !.completed = @ + 1]
                     ELSE [progress EXCEPT !.running = @ - 1, !.stopped = @ + 1]
  BY <1>1 DEF End
<1>4. /\ completed'[u] = Closed(r) /\ completed' \in [Units -> ResultType]
      /\ \A x \in Units : x # u => completed'[x] = completed[x]
  BY <1>2, <1>3, ClosedIsListed DEF TypeOK
<1>5. Whole(u, completed[u])'
  BY <1>1, <1>4, ClosedIsListed DEF Whole
<1>6. /\ worker'[w].at = "saving" /\ worker'[w].unit = u
      /\ worker' \in [Workers -> WorkerType]
      /\ \A v \in Workers : v # w => worker'[v] = worker[v]
  <2>1. worker \in [Workers -> WorkerType] /\ u \in 0..N
    BY <1>2 DEF TypeOK
  <2>2. [Free EXCEPT !.unit = u, !.at = "saving"] \in WorkerType
    BY <2>1, StartTypes DEF WorkerType
  <2>. QED
    BY <1>3, <2>1, <2>2 DEF Free
<1>7. AskingNow' = AskingNow \ {w} /\ w \in AskingNow /\ AskingNow \subseteq Workers
  BY <1>6 DEF AskingNow, Asking
<1>8. /\ Cardinality(AskingNow') = Cardinality(AskingNow) - 1
      /\ Cardinality(AskingNow) \in Nat /\ Cardinality(AskingNow') \in Nat
  BY <1>7, Counted, FS_RemoveElement
<1>9. /\ progress.idle \in Nat /\ progress.running \in Nat /\ progress.completed \in Nat
      /\ progress.stopped \in Nat /\ progress.running - 1 \in Nat
      /\ progress = [idle |-> progress.idle, running |-> progress.running,
                     completed |-> progress.completed, stopped |-> progress.stopped]
  BY <1>8 DEF TypeOK, CountInv
<1>10. TypeOK'
  <2>. DEFINE T == [idle : Nat, running : Nat, completed : Nat, stopped : Nat]
  <2>1. progress.completed + 1 \in Nat /\ progress.stopped + 1 \in Nat /\ progress \in T
    BY <1>9
  <2>2. /\ [progress EXCEPT !.running = @ - 1, !.completed = @ + 1] \in T
        /\ [progress EXCEPT !.running = @ - 1, !.stopped = @ + 1] \in T
    BY <1>9, <2>1
  <2>3. progress' \in T
    BY <1>3, <2>2
  <2>. QED
    BY <1>4, <1>6, <2>3 DEF TypeOK
<1>11. StoredInv'
  BY DEF StoredInv, Whole
<1>12. WorkInv'
  <2>1. \A v \in Workers : v # w => Busy(v)' = Busy(v)
    BY <1>6 DEF Busy
  <2>2. \A v \in Workers : Busy(v)' =>
          /\ step' = "units"
          /\ worker'[v].unit \in Units /\ worker'[v].unit < queue'
          /\ checkpoint'[worker'[v].unit][hash'] = Fresh
    BY <1>2, <1>6, <2>1 DEF WorkInv
  <2>3. \A v, x \in Workers : Busy(v)' /\ Busy(x)' /\ v # x => worker'[v].unit # worker'[x].unit
    BY <1>2, <1>6, <2>1 DEF WorkInv
  <2>4. \A v \in Workers : worker'[v].at = "asking" =>
          /\ v # w /\ worker'[v] = worker[v] /\ worker[v].at = "asking"
          /\ completed'[worker[v].unit] = completed[worker[v].unit]
    BY <1>2, <1>4, <1>6 DEF Busy, WorkInv
  <2>5. \A v \in Workers : worker'[v].at = "asking" =>
          /\ completed'[worker'[v].unit].examined = 0 /\ completed'[worker'[v].unit].skipped = 0
          /\ \A f \in Files : completed'[worker'[v].unit].found[f] < worker'[v].attempt
          /\ \A i \in DOMAIN worker'[v].observed :
                Examines(worker'[v].observed[i]) => worker'[v].unit \in covered'
    BY <2>4 DEF WorkInv
  <2>. QED
    BY <2>2, <2>3, <2>5 DEF WorkInv
<1>13. ResultInv'
  <2>. SUFFICES ASSUME NEW x \in Units
                PROVE  /\ queue' <= x => completed'[x] = Fresh
                       /\ Drawn(x)' /\ ~Open(x)' => Whole(x, completed[x])'
                       /\ Drawn(x)' /\ checkpoint[x][hash] # Fresh
                             => completed'[x] = checkpoint[x][hash]
    BY <1>2 DEF ResultInv
  <2>1. CASE x = u
    <3>1. ~(queue' <= u)
      BY <1>2 DEF TypeOK
    <3>. QED
      BY <1>2, <1>5, <2>1, <3>1
  <2>2. CASE x # u
    <3>1. completed'[x] = completed[x] /\ Drawn(x)' = Drawn(x)
      BY <1>4, <2>2 DEF Drawn
    <3>2. Open(x) => Open(x)'
      BY <1>1, <1>6, <2>2 DEF Open
    <3>. QED
      BY <1>2, <3>1, <3>2 DEF ResultInv, Whole
  <2>. QED
    BY <2>1, <2>2
<1>14. StreamInv'
  BY <1>2 DEF StreamInv, StreamAgrees
<1>15. CountInv'
  <2>1. u \notin Examined /\ Examined \subseteq Units
    BY <1>2 DEF Examined
  <2>2. r.examined \in 0..1 /\ Closed(r).examined = r.examined
    BY ClosedIsListed DEF ResultType
  <2>3. CASE r.examined > 0
    <3>1. Examined' = Examined \cup {u}
      BY <1>2, <1>4, <2>2, <2>3 DEF Examined
    <3>2. Cardinality(Examined') = Cardinality(Examined) + 1
      BY <2>1, <3>1, Counted, FS_AddElement
    <3>3. /\ progress'.running = progress.running - 1
          /\ progress'.completed = progress.completed + 1
          /\ progress'.idle = progress.idle /\ progress'.stopped = progress.stopped
      BY <1>3, <1>9, <2>3
    <3>. QED
      BY <1>8, <1>9, <3>2, <3>3 DEF CountInv
  <2>4. CASE ~(r.examined > 0)
    <3>1. Examined' = Examined
      BY <1>2, <1>4, <2>1, <2>2, <2>4 DEF Examined
    <3>2. /\ progress'.running = progress.running - 1
          /\ progress'.completed = progress.completed
          /\ progress'.idle = progress.idle /\ progress'.stopped = progress.stopped + 1
      BY <1>3, <1>9, <2>4
    <3>. QED
      BY <1>8, <1>9, <3>1, <3>2 DEF CountInv
  <2>. QED
    BY <2>3, <2>4
<1>. QED
  BY <1>10, <1>11, <1>12, <1>13, <1>14, <1>15

\* An envelope: one more context round, the retry, or the end.
LEMMA AnsweredHolds ==
    ASSUME IInv, NEW w \in Workers, NEW a \in Answers, Answered(w, a)
    PROVE  IInv'
<1>1. PICK u : u = worker[w].unit
  OBVIOUS
<1>2. PICK r : r = Taken(completed[u], a)
  OBVIOUS
<1>3. PICK observed : observed = Append(worker[w].observed, a)
  OBVIOUS
<1>4. Asking(w) /\ worker[w].at = "asking" /\ worker[w] \in WorkerType
  BY DEF Answered, Asking, IInv, TypeOK
<1>5. /\ u \in Units /\ u \in 1..N /\ u < queue /\ step = "units"
      /\ checkpoint[u][hash] = Fresh /\ completed[u] \in ResultType
      /\ completed[u].examined = 0 /\ completed[u].skipped = 0
      /\ \A f \in Files : completed[u].found[f] < worker[w].attempt
      /\ worker[w].attempt \in 1..Attempts /\ worker[w].observed \in Seq(Answers)
      /\ \A i \in DOMAIN worker[w].observed : Examines(worker[w].observed[i]) => u \in covered
      /\ \A v \in Workers : v # w /\ Busy(v) => worker[v].unit # u
  BY <1>1, <1>4, AskingFacts
<1>6. /\ r \in ResultType /\ r.skipped = 0
      /\ r.examined = IF Examines(a) THEN 1 ELSE 0
      /\ \A f \in Files : r.found[f] \in 0..worker[w].attempt
  BY <1>2, <1>5, TakenAdds
<1>7. /\ covered' = IF Examines(a) THEN covered \cup {u} ELSE covered
      /\ covered \subseteq covered' /\ covered' \subseteq Units
      /\ Examines(a) => u \in covered'
  BY <1>1, <1>5 DEF Answered, IInv, TypeOK
<1>8. UNCHANGED <<stored, step, hash, queue, streamed, exhausted, late, crashes>>
  BY DEF Answered
<1>9. CASE UNCHANGED <<completed, progress>> /\ worker' = [worker EXCEPT ![w].observed = observed]
  <2>. USE <1>8, <1>9 DEF IInv, stored, streamed
  <2>1. observed \in Seq(Answers)
    BY <1>3, <1>5, AppendProperties
  <2>2. /\ worker'[w].at = "asking" /\ worker'[w].unit = u
        /\ worker'[w].attempt = worker[w].attempt /\ worker'[w].observed = observed
        /\ worker' \in [Workers -> WorkerType]
        /\ \A v \in Workers : v # w => worker'[v] = worker[v]
    BY <1>1, <1>4, <2>1 DEF WorkerType, TypeOK
  <2>3. TypeOK'
    BY <1>7, <2>2 DEF TypeOK
  <2>4. StoredInv'
    BY <1>7 DEF StoredInv, Whole
  <2>5. WorkInv'
    <3>1. \A i \in DOMAIN observed : Examines(observed[i]) => u \in covered'
      <4>. SUFFICES ASSUME NEW i \in DOMAIN observed, Examines(observed[i])
                    PROVE  u \in covered'
        OBVIOUS
      <4>1. PICK old \in Seq(Answers) : old = worker[w].observed
        BY <1>5
      <4>2. Len(old) \in Nat /\ DOMAIN old = 1..Len(old)
        BY <4>1, LenProperties
      <4>3. /\ Len(observed) = Len(old) + 1 /\ observed[Len(old) + 1] = a
            /\ \A k \in 1..Len(old) : observed[k] = old[k]
        BY <1>3, <4>1, AppendProperties
      <4>4. i \in 1..Len(old) + 1
        BY <2>1, <4>3, LenProperties
      <4>5. CASE i = Len(old) + 1
        BY <1>7, <4>3, <4>5
      <4>6. CASE i \in DOMAIN old
        <5>1. Examines(old[i])
          BY <4>2, <4>3, <4>6
        <5>. QED
          BY <1>5, <1>7, <4>1, <4>6, <5>1
      <4>. QED
        BY <4>2, <4>4, <4>5, <4>6
    <3>2. \A v \in Workers : Busy(v)' = Busy(v) /\ worker'[v].unit = worker[v].unit
      BY <1>1, <1>4, <2>2 DEF Busy
    <3>3. \A v \in Workers : worker'[v].at = "asking" =>
            /\ completed'[worker'[v].unit].examined = 0 /\ completed'[worker'[v].unit].skipped = 0
            /\ \A f \in Files : completed'[worker'[v].unit].found[f] < worker'[v].attempt
            /\ \A i \in DOMAIN worker'[v].observed :
                  Examines(worker'[v].observed[i]) => worker'[v].unit \in covered'
      BY <1>5, <1>7, <2>2, <3>1 DEF WorkInv
    <3>. QED
      BY <3>2, <3>3 DEF WorkInv
  <2>6. ResultInv'
    <3>1. \A x \in Units : (Open(x) => Open(x)') /\ Drawn(x)' = Drawn(x)
      BY <1>1, <2>2 DEF Open, Drawn
    <3>. QED
      BY <1>7, <3>1 DEF ResultInv, Whole
  <2>7. StreamInv'
    BY <1>5 DEF StreamInv, StreamAgrees
  <2>8. CountInv'
    <3>1. AskingNow' = AskingNow /\ Examined' = Examined
      BY <1>4, <2>2 DEF AskingNow, Examined
    <3>. QED
      BY <3>1 DEF CountInv
  <2>. QED
    BY <2>3, <2>4, <2>5, <2>6, <2>7, <2>8
<1>10. CASE /\ a.cover = "neither" /\ worker[w].attempt < Attempts
            /\ completed' = [completed EXCEPT ![u] = r]
            /\ worker' = [worker EXCEPT ![w].attempt = @ + 1, ![w].observed = <<>>]
            /\ UNCHANGED progress
  <2>. USE <1>8, <1>10 DEF IInv, stored, streamed
  <2>1. r.examined = 0
    BY <1>6 DEF Examines
  <2>2. /\ worker'[w].at = "asking" /\ worker'[w].unit = u
        /\ worker'[w].attempt = worker[w].attempt + 1 /\ worker'[w].observed = <<>>
        /\ worker' \in [Workers -> WorkerType]
        /\ \A v \in Workers : v # w => worker'[v] = worker[v]
    <3>1. worker[w].attempt + 1 \in 1..Attempts /\ <<>> \in Seq(Answers)
      BY <1>5, AnswersAssumption, EmptySeq
    <3>2. worker'[w] = [worker[w] EXCEPT !.attempt = worker[w].attempt + 1, !.observed = <<>>]
      BY DEF TypeOK
    <3>. QED
      BY <1>1, <1>4, <3>1, <3>2 DEF WorkerType, TypeOK
  <2>3. /\ completed'[u] = r /\ completed' \in [Units -> ResultType]
        /\ \A x \in Units : x # u => completed'[x] = completed[x]
    BY <1>5, <1>6 DEF TypeOK
  <2>4. TypeOK'
    BY <1>7, <2>2, <2>3 DEF TypeOK
  <2>5. StoredInv'
    BY <1>7 DEF StoredInv, Whole
  <2>6. WorkInv'
    <3>1. \A f \in Files : r.found[f] < worker[w].attempt + 1
      BY <1>5, <1>6
    <3>2. \A v \in Workers : Busy(v)' = Busy(v) /\ worker'[v].unit = worker[v].unit
      BY <1>1, <1>4, <2>2 DEF Busy
    <3>3. \A v \in Workers : v # w /\ worker'[v].at = "asking" =>
            completed'[worker'[v].unit] = completed[worker[v].unit]
      BY <1>5, <2>2, <2>3 DEF Busy, WorkInv
    <3>4. \A v \in Workers : v # w /\ worker'[v].at = "asking" =>
            /\ completed'[worker'[v].unit].examined = 0 /\ completed'[worker'[v].unit].skipped = 0
            /\ \A f \in Files : completed'[worker'[v].unit].found[f] < worker'[v].attempt
            /\ \A i \in DOMAIN worker'[v].observed :
                  Examines(worker'[v].observed[i]) => worker'[v].unit \in covered'
      BY <1>7, <2>2, <3>3 DEF WorkInv
    <3>5. /\ completed'[worker'[w].unit].examined = 0 /\ completed'[worker'[w].unit].skipped = 0
          /\ \A f \in Files : completed'[worker'[w].unit].found[f] < worker'[w].attempt
          /\ \A i \in DOMAIN worker'[w].observed :
                Examines(worker'[w].observed[i]) => worker'[w].unit \in covered'
      <4>1. completed'[worker'[w].unit] = r /\ worker'[w].attempt = worker[w].attempt + 1
        BY <2>2, <2>3
      <4>2. DOMAIN worker'[w].observed = {}
        BY <2>2
      <4>3. r.skipped = 0 /\ \A f \in Files : r.found[f] < worker'[w].attempt
        BY <1>6, <3>1, <4>1
      <4>4. /\ completed'[worker'[w].unit].examined = 0
            /\ completed'[worker'[w].unit].skipped = 0
            /\ \A f \in Files : completed'[worker'[w].unit].found[f] < worker'[w].attempt
        BY <2>1, <4>1, <4>3
      <4>5. \A i \in DOMAIN worker'[w].observed :
                Examines(worker'[w].observed[i]) => worker'[w].unit \in covered'
        BY <4>2
      <4>. QED
        BY <4>4, <4>5
    <3>6. \A v \in Workers : Busy(v)' =>
            /\ step' = "units" /\ worker'[v].unit \in Units' /\ worker'[v].unit < queue'
            /\ checkpoint'[worker'[v].unit][hash'] = Fresh
      BY <3>2 DEF WorkInv, Units
    <3>7. \A v, x \in Workers : Busy(v)' /\ Busy(x)' /\ v # x => worker'[v].unit # worker'[x].unit
      BY <3>2 DEF WorkInv
    <3>8. \A v \in Workers : worker'[v].at = "asking" =>
            /\ completed'[worker'[v].unit].examined = 0 /\ completed'[worker'[v].unit].skipped = 0
            /\ \A f \in Files : completed'[worker'[v].unit].found[f] < worker'[v].attempt
            /\ \A i \in DOMAIN worker'[v].observed :
                  Examines(worker'[v].observed[i]) => worker'[v].unit \in covered'
      BY <3>4, <3>5
    <3>. QED
      BY <3>6, <3>7, <3>8 DEF WorkInv, Units
  <2>7. ResultInv'
    <3>. SUFFICES ASSUME NEW x \in Units
                  PROVE  /\ queue' <= x => completed'[x] = Fresh
                         /\ Drawn(x)' /\ ~Open(x)' => Whole(x, completed[x])'
                         /\ Drawn(x)' /\ checkpoint[x][hash] # Fresh
                               => completed'[x] = checkpoint[x][hash]
      BY <1>5 DEF ResultInv
    <3>1. CASE x = u
      <4>1. Open(u)' /\ ~(queue' <= u)
        BY <1>5, <2>2 DEF Open, TypeOK
      <4>. QED
        BY <1>5, <3>1, <4>1
    <3>2. CASE x # u
      <4>1. completed'[x] = completed[x] /\ Drawn(x)' = Drawn(x)
        BY <2>3, <3>2 DEF Drawn
      <4>2. Open(x) => Open(x)'
        BY <1>1, <2>2, <3>2 DEF Open
      <4>. QED
        BY <1>5, <1>7, <4>1, <4>2 DEF ResultInv, Whole
    <3>. QED
      BY <3>1, <3>2
  <2>8. StreamInv'
    BY <1>5 DEF StreamInv, StreamAgrees
  <2>9. CountInv'
    <3>1. AskingNow' = AskingNow /\ Examined' = Examined
      BY <1>4, <1>5, <2>1, <2>2, <2>3 DEF AskingNow, Examined
    <3>. QED
      BY <3>1 DEF CountInv
  <2>. QED
    BY <2>4, <2>5, <2>6, <2>7, <2>8, <2>9
<1>11. CASE End(w, r)
  BY <1>1, <1>4, <1>6, <1>7, <1>8, <1>11, EndHolds DEF IInv, TypeOK
<1>. QED
  BY <1>1, <1>2, <1>3, <1>9, <1>10, <1>11 DEF Answered

\* A refused call: the result so far is the unit's end.
LEMMA RefusedHolds ==
    ASSUME IInv, NEW w \in Workers, Refused(w)
    PROVE  IInv'
<1>1. Asking(w) /\ End(w, completed[worker[w].unit]) /\ exhausted' = TRUE
  BY DEF Refused
<1>2. UNCHANGED <<stored, step, hash, queue, streamed, late, covered, crashes>>
  BY DEF Refused
<1>3. /\ completed[worker[w].unit] \in ResultType /\ completed[worker[w].unit].examined = 0
      /\ completed[worker[w].unit].skipped = 0
  BY <1>1, AskingFacts
<1>. QED
  BY <1>1, <1>2, <1>3, EndHolds DEF IInv, TypeOK

\* A timeout: what an observed answer covered is kept.
LEMMA TimeOutHolds ==
    ASSUME IInv, NEW w \in Workers, TimeOut(w)
    PROVE  IInv'
<1>1. Asking(w) /\ End(w, Kept(completed[worker[w].unit], worker[w].observed))
  BY DEF TimeOut
<1>2. UNCHANGED <<stored, step, hash, queue, streamed, exhausted, late, covered, crashes>>
  BY DEF TimeOut
<1>3. /\ Kept(completed[worker[w].unit], worker[w].observed) \in ResultType
      /\ Kept(completed[worker[w].unit], worker[w].observed).skipped = 0
      /\ Kept(completed[worker[w].unit], worker[w].observed).examined = 1
           => worker[w].unit \in covered
  BY <1>1, AskingFacts, KeptIsObserved
<1>. QED
  BY <1>1, <1>2, <1>3, EndHolds DEF IInv, TypeOK

\* A failed call: the result so far is the unit's end, marked failed.
LEMMA BreakHolds ==
    ASSUME IInv, NEW w \in Workers, Break(w)
    PROVE  IInv'
<1>1. PICK r : r = [completed[worker[w].unit] EXCEPT !.failed = TRUE]
  OBVIOUS
<1>2. Asking(w) /\ End(w, r)
  BY <1>1, Zenon DEF Break
<1>3. UNCHANGED <<stored, step, hash, queue, streamed, exhausted, late, covered, crashes>>
  BY DEF Break
<1>4. /\ completed[worker[w].unit] \in ResultType /\ completed[worker[w].unit].examined = 0
      /\ completed[worker[w].unit].skipped = 0
  BY <1>2, AskingFacts
<1>5. r \in ResultType /\ r.examined = 0 /\ r.skipped = 0
  BY <1>1, <1>4 DEF ResultType
<1>. QED
  BY <1>2, <1>3, <1>5, EndHolds DEF IInv, TypeOK

\* A unit drawn: passed with its checkpoint, passed as skipped, or asked about.
LEMMA TakeHolds ==
    ASSUME IInv, NEW w \in Workers, Take(w)
    PROVE  IInv'
<1>1. /\ step = "units" /\ worker[w].at = "free" /\ queue <= N /\ queue' = queue + 1
      /\ UNCHANGED <<stored, step, hash, outcome, exhausted, late, covered, crashes>>
  BY DEF Take
<1>2. queue \in Units /\ hash \in Hashes /\ checkpoint[queue][hash] \in ResultType
  BY <1>1, UnitsAssumption DEF IInv, TypeOK, Units
<1>3. CASE Cached(queue) /\ Pass(queue, checkpoint[queue][hash]) /\ UNCHANGED worker
  <2>1. Whole(queue, checkpoint[queue][hash])
    BY <1>2, <1>3 DEF IInv, StoredInv, Cached
  <2>. QED
    BY <1>1, <1>2, <1>3, <2>1, PassHolds
<1>4. CASE ~Cached(queue) /\ Pass(queue, Skipped) /\ UNCHANGED worker
  <2>1. Whole(queue, Skipped) /\ Skipped \in ResultType
    BY StartTypes DEF Whole
  <2>. QED
    BY <1>1, <1>2, <1>4, <2>1, PassHolds DEF Cached
<1>5. CASE ~Cached(queue) /\ Ask(w, queue) /\ UNCHANGED <<finished, early>>
  BY <1>1, <1>5, AskHolds DEF streamed
<1>. QED
  BY <1>3, <1>4, <1>5 DEF Take

\* The checkpoint of an ended unit: its finished result, and not of the identity
\* of a merged stage.
LEMMA SaveHolds ==
    ASSUME IInv, NEW w \in Workers, Save(w)
    PROVE  IInv'
<1>. USE DEF IInv
<1>1. PICK u : u = worker[w].unit
  OBVIOUS
<1>2. /\ step = "units" /\ worker[w].at = "saving" /\ worker' = [worker EXCEPT ![w] = Free]
      /\ Tell(u, completed)
      /\ UNCHANGED <<stage, step, hash, queue, completed, outcome, exhausted, late,
                     progress, covered, crashes>>
  BY <1>1 DEF Save
<1>3. /\ u \in Units /\ u \in 1..N /\ u < queue /\ checkpoint[u][hash] = Fresh
      /\ \A v \in Workers : v # w /\ Busy(v) => worker[v].unit # u
  BY <1>1, <1>2 DEF WorkInv, Busy, Units
<1>4. checkpoint' = [checkpoint EXCEPT ![u][hash] = completed[u]]
  BY <1>1, <1>3 DEF Save, Cached
<1>5. completed[u] \in ResultType /\ Whole(u, completed[u])
  <2>1. ~Open(u) /\ Drawn(u)
    BY <1>2, <1>3 DEF Open, Drawn, Busy
  <2>. QED
    BY <1>3, <2>1 DEF ResultInv, TypeOK
<1>6. /\ checkpoint' \in [Units -> [Hashes -> ResultType]] /\ hash \in Hashes
      /\ checkpoint'[u][hash] = completed[u]
      /\ \A x \in Units, h \in Hashes :
            x # u \/ h # hash => checkpoint'[x][h] = checkpoint[x][h]
  BY <1>3, <1>4, <1>5 DEF TypeOK
<1>7. /\ worker' \in [Workers -> WorkerType] /\ worker'[w].at = "free"
      /\ \A v \in Workers : v # w => worker'[v] = worker[v]
  BY <1>2, StartTypes DEF TypeOK, Free
<1>8. TypeOK'
  BY <1>2, <1>3, <1>6, <1>7, TellType DEF TypeOK
<1>9. StoredInv'
  <2>1. \A x \in Units, h \in Hashes :
           checkpoint'[x][h] # Fresh => Whole(x, checkpoint'[x][h])
    BY <1>5, <1>6 DEF StoredInv
  <2>2. ~(stage.there /\ stage.hash = hash) /\ stage.hash \in Hashes
    BY <1>2 DEF StoredInv, TypeOK
  <2>3. stage.there =>
          \A x \in Units :
             /\ Whole(x, stage.results[x])
             /\ checkpoint'[x][stage.hash] # Fresh
                   => stage.results[x] = checkpoint'[x][stage.hash]
    BY <1>6, <2>2 DEF StoredInv
  <2>. QED
    BY <1>2, <2>1, <2>2, <2>3 DEF StoredInv, Whole
<1>10. WorkInv'
  <2>1. \A v \in Workers : Busy(v)' => v # w /\ Busy(v) /\ worker'[v] = worker[v]
    BY <1>7 DEF Busy
  <2>2. \A v \in Workers : Busy(v)' =>
          /\ step' = "units"
          /\ worker'[v].unit \in Units /\ worker'[v].unit < queue'
          /\ checkpoint'[worker'[v].unit][hash'] = Fresh
    BY <1>2, <1>3, <1>6, <2>1 DEF WorkInv
  <2>3. \A v, x \in Workers : Busy(v)' /\ Busy(x)' /\ v # x => worker'[v].unit # worker'[x].unit
    BY <2>1 DEF WorkInv
  <2>4. \A v \in Workers : worker'[v].at = "asking" =>
          /\ completed'[worker'[v].unit].examined = 0 /\ completed'[worker'[v].unit].skipped = 0
          /\ \A f \in Files : completed'[worker'[v].unit].found[f] < worker'[v].attempt
          /\ \A i \in DOMAIN worker'[v].observed :
                Examines(worker'[v].observed[i]) => worker'[v].unit \in covered'
    BY <1>2, <1>7 DEF WorkInv
  <2>. QED
    BY <2>2, <2>3, <2>4 DEF WorkInv
<1>11. ResultInv'
  <2>. SUFFICES ASSUME NEW x \in Units
                PROVE  /\ queue' <= x => completed'[x] = Fresh
                       /\ Drawn(x)' /\ ~Open(x)' => Whole(x, completed[x])'
                       /\ Drawn(x)' /\ checkpoint'[x][hash] # Fresh
                             => completed'[x] = checkpoint'[x][hash]
    BY <1>2 DEF ResultInv
  <2>1. (Open(x) => Open(x)') /\ Drawn(x)' = Drawn(x)
    BY <1>2, <1>7 DEF Open, Drawn
  <2>2. /\ queue' <= x => completed'[x] = Fresh
        /\ Drawn(x)' /\ ~Open(x)' => Whole(x, completed[x])'
    BY <1>2, <2>1 DEF ResultInv, Whole
  <2>3. Drawn(x)' /\ checkpoint'[x][hash] # Fresh => completed'[x] = checkpoint'[x][hash]
    BY <1>2, <1>6, <2>1 DEF ResultInv
  <2>. QED
    BY <2>2, <2>3
<1>12. StreamInv'
  BY <1>2 DEF StreamInv, StreamAgrees
<1>13. CountInv'
  <2>1. AskingNow' = AskingNow /\ Examined' = Examined
    BY <1>2, <1>7 DEF AskingNow, Examined
  <2>. QED
    BY <1>2, <2>1 DEF CountInv
<1>. QED
  BY <1>8, <1>9, <1>10, <1>11, <1>12, <1>13

\* The merge: no worker is left, so every result is finished.
LEMMA MergeHolds ==
    ASSUME IInv, Merge
    PROVE  IInv'
<1>. USE DEF IInv, streamed
<1>1. /\ step = "units" /\ queue > N /\ \A w \in Workers : worker[w].at = "free"
      /\ stage' = [hash |-> hash, there |-> TRUE, results |-> completed]
      /\ step' = "finish"
      /\ UNCHANGED <<checkpoint, hash, queue, worker, completed, streamed, exhausted,
                     late, progress, covered, crashes>>
  BY DEF Merge
<1>2. \A u \in Units : Drawn(u) /\ ~Open(u) /\ Whole(u, completed[u])
  <2>1. \A u \in Units : u < queue
    BY <1>1, UnitsAssumption DEF Units, TypeOK
  <2>. QED
    BY <1>1, <2>1 DEF Drawn, Open, ResultInv
<1>3. /\ stage'.hash = hash /\ stage'.there = TRUE /\ stage'.results = completed
      /\ stage' \in [hash : Hashes, there : BOOLEAN, results : [Units -> ResultType]]
  BY <1>1 DEF TypeOK
<1>4. TypeOK'
  BY <1>1, <1>3 DEF TypeOK
<1>5. StoredInv'
  BY <1>1, <1>2, <1>3 DEF StoredInv, Whole, ResultInv
<1>6. WorkInv'
  BY <1>1 DEF WorkInv, Busy
<1>7. ResultInv'
  BY <1>1, <1>2 DEF ResultInv, Whole
<1>8. StreamInv'
  BY <1>1 DEF StreamInv, StreamAgrees
<1>9. CountInv'
  <2>1. AskingNow' = AskingNow /\ Examined' = Examined
    BY <1>1 DEF AskingNow, Examined
  <2>. QED
    BY <1>1, <2>1 DEF CountInv
<1>. QED
  BY <1>4, <1>5, <1>6, <1>7, <1>8, <1>9

\* The stage begins: taken whole if it was merged under this identity.
LEMMA BeginHolds ==
    ASSUME IInv, NEW h \in Hashes, Begin(h)
    PROVE  IInv'
<1>. USE DEF IInv, stored, streamed
<1>1. /\ step = "start" /\ hash' = h
      /\ UNCHANGED <<stored, queue, worker, streamed, exhausted, late, covered, crashes>>
  BY DEF Begin
<1>2. /\ queue = 1 /\ \A w \in Workers : ~Busy(w)
      /\ \A u \in Units : completed[u] = Fresh
      /\ \A f \in Files : outcome[f].task = "none" /\ outcome[f].from = [u \in Units |-> 0]
  BY <1>1 DEF ResultInv, WorkInv, StreamInv
<1>3. WorkInv'
  BY <1>1, <1>2 DEF WorkInv, Busy
<1>4. AskingNow = {} /\ AskingNow' = {} /\ progress.running = 0
  <2>1. AskingNow = {} /\ AskingNow' = {}
    BY <1>1, <1>2 DEF AskingNow, Busy
  <2>. QED
    BY <2>1, FS_EmptySet DEF CountInv
<1>5. CASE stage.there /\ stage.hash = h
  <2>1. PICK n : n = Cardinality({u \in Units : stage.results[u].examined > 0})
    OBVIOUS
  <2>2. /\ step' = "finish" /\ completed' = stage.results
        /\ progress' = [idle |-> 0, running |-> 0, completed |-> n, stopped |-> N - n]
    BY <1>5, <2>1 DEF Begin
  <2>3. completed' \in [Units -> ResultType] /\ \A u \in Units : Whole(u, completed'[u])
    BY <1>5, <2>2 DEF TypeOK, StoredInv
  <2>4. Examined' = {u \in Units : stage.results[u].examined > 0}
    <3>1. \A u \in Units : completed'[u].examined \in 0..1
      BY <2>3 DEF ResultType
    <3>. QED
      BY <2>2, <3>1 DEF Examined
  <2>5. n \in Nat /\ n <= N /\ n = Cardinality(Examined') /\ N \in Nat
    <3>1. {u \in Units : stage.results[u].examined > 0} \subseteq Units
      OBVIOUS
    <3>2. Cardinality(Units) = N /\ IsFiniteSet(Units)
      BY FS_Interval, UnitsAssumption DEF Units
    <3>. QED
      BY <2>1, <2>4, <3>1, <3>2, Counted, FS_Subset, UnitsAssumption
  <2>6. TypeOK'
    BY <1>1, <2>2, <2>3, <2>5 DEF TypeOK
  <2>7. StoredInv'
    BY <1>1, <2>2 DEF StoredInv, Whole
  <2>8. ResultInv'
    BY <1>1, <1>5, <2>2, <2>3 DEF ResultInv, Whole, StoredInv
  <2>9. StreamInv'
    BY <1>1, <1>2, <2>2 DEF StreamInv, StreamAgrees
  <2>10. CountInv'
    <3>1. /\ progress'.idle = 0 /\ progress'.running = 0 /\ progress'.completed = n
          /\ progress'.stopped = N - n
      BY <2>2
    <3>. QED
      BY <1>4, <2>2, <2>5, <3>1, FS_EmptySet DEF CountInv
  <2>. QED
    BY <1>3, <2>6, <2>7, <2>8, <2>9, <2>10
<1>6. CASE ~(stage.there /\ stage.hash = h)
  <2>1. step' = "units" /\ completed' = [u \in Units |-> Fresh] /\ progress' = progress
    BY <1>6 DEF Begin
  <2>2. TypeOK'
    BY <1>1, <2>1, StartTypes DEF TypeOK
  <2>3. StoredInv'
    BY <1>1, <1>6, <2>1 DEF StoredInv, Whole
  <2>4. ResultInv'
    BY <1>1, <1>2, <2>1 DEF ResultInv, Drawn, Units
  <2>5. StreamInv'
    BY <1>1, <1>2, <2>1 DEF StreamInv, StreamAgrees
  <2>6. CountInv'
    <3>1. Examined' = Examined
      BY <1>2, <2>1 DEF Examined
    <3>. QED
      BY <1>1, <1>4, <2>1, <3>1 DEF CountInv
  <2>. QED
    BY <1>3, <2>2, <2>3, <2>4, <2>5, <2>6
<1>. QED
  BY <1>5, <1>6

\* Steps that leave the units, the workers and the counters alone: early work
\* ends, a file or the stage is settled, the deadline passes.
LEMMA FilesHold ==
    ASSUME IInv, \/ \E f \in Files : Prepared(f) \/ FinishFile(f)
                 \/ Settle \/ DeadlinePasses
    PROVE  IInv'
<1>. USE DEF IInv, stored, streamed
<1>1. ASSUME UNCHANGED <<stored, hash, queue, worker, completed, exhausted, progress,
                         covered, crashes, finished>>,
             \/ step' = step
             \/ step = "finish" /\ step' = "done",
             late' \in BOOLEAN, early' \in [Files -> FileType],
             outcome' \in [Files -> FileType], StreamInv'
      PROVE  IInv'
  <2>1. TypeOK'
    BY <1>1 DEF TypeOK
  <2>2. StoredInv'
    BY <1>1 DEF StoredInv, Whole
  <2>3. WorkInv'
    BY <1>1 DEF WorkInv, Busy
  <2>4. ResultInv'
    BY <1>1 DEF ResultInv, Whole, Drawn, Open
  <2>5. CountInv'
    <3>1. AskingNow' = AskingNow /\ Examined' = Examined
      BY <1>1 DEF AskingNow, Examined
    <3>. QED
      BY <1>1, <3>1 DEF CountInv
  <2>. QED
    BY <1>1, <2>1, <2>2, <2>3, <2>4, <2>5
<1>2. ASSUME NEW f \in Files, Prepared(f)
      PROVE  IInv'
  <2>1. /\ step \in {"units", "finish"}
        /\ early' = [early EXCEPT ![f].task = "done"]
        /\ UNCHANGED <<stored, step, hash, queue, worker, completed, finished, outcome,
                       exhausted, late, progress, covered, crashes>>
    BY <1>2 DEF Prepared
  <2>2. early' \in [Files -> FileType]
    <3>1. early \in [Files -> FileType] /\ early[f] \in FileType
      BY DEF TypeOK
    <3>2. [early[f] EXCEPT !.task = "done"] \in FileType
      BY <3>1 DEF FileType
    <3>. QED
      BY <2>1, <3>1, <3>2
  <2>3. StreamInv'
    BY <2>1 DEF StreamInv, StreamAgrees, Final
  <2>. QED
    BY <1>1, <2>1, <2>2, <2>3 DEF TypeOK
<1>3. ASSUME NEW f \in Files, FinishFile(f)
      PROVE  IInv'
  <2>1. /\ step = "finish" /\ Final(f) \in [Units -> 0..Attempts]
        /\ UNCHANGED <<stored, step, hash, queue, worker, completed, finished, early,
                       exhausted, late, progress, covered, crashes>>
    BY <1>3, InputsType DEF FinishFile, Final, TypeOK
  <2>2. outcome' = [outcome EXCEPT ![f] = [task |-> "done", from |-> Final(f)]]
    BY <1>3 DEF FinishFile, Match
  <2>3. outcome' \in [Files -> FileType]
    BY <2>1, <2>2 DEF TypeOK, FileType
  <2>4. \A g \in Files : Final(g)' = Final(g)
    BY <2>1 DEF Final, Inputs
  <2>5. StreamInv'
    BY <2>1, <2>2, <2>4 DEF StreamInv, StreamAgrees, TypeOK
  <2>. QED
    BY <1>1, <2>1, <2>3, <2>5 DEF TypeOK
<1>4. ASSUME Settle
      PROVE  IInv'
  <2>1. /\ step = "finish" /\ step' = "done"
        /\ \A f \in Files : /\ (\E u \in Units : Final(f)[u] > 0) => outcome[f].task = "done"
                            /\ early[f].task # "running"
        /\ UNCHANGED <<stored, hash, queue, worker, completed, streamed, exhausted,
                       late, progress, covered, crashes>>
    BY <1>4 DEF Settle
  <2>2. \A f \in Files : Final(f)' = Final(f)
    BY <2>1 DEF Final, Inputs
  <2>3. ASSUME NEW f \in Files PROVE outcome[f].from = Final(f)
    <3>1. CASE outcome[f].task = "none"
      <4>1. Final(f) \in [Units -> 0..Attempts]
        BY InputsType DEF Final, TypeOK
      <4>2. \A u \in Units : Final(f)[u] = 0
        BY <2>1, <3>1, <4>1, AnswersAssumption
      <4>3. Final(f) = [u \in Units |-> 0]
        BY <4>1, <4>2
      <4>. QED
        BY <3>1, <4>3 DEF StreamInv
    <3>2. CASE outcome[f].task # "none"
      BY <3>2 DEF StreamInv
    <3>. QED
      BY <3>1, <3>2
  <2>4. StreamInv'
    BY <2>1, <2>2, <2>3 DEF StreamInv, StreamAgrees
  <2>. QED
    BY <1>1, <2>1, <2>4 DEF TypeOK
<1>5. ASSUME DeadlinePasses
      PROVE  IInv'
  <2>1. /\ step = "units" /\ late' = TRUE
        /\ UNCHANGED <<stored, step, hash, queue, worker, completed, streamed, exhausted,
                       progress, covered, crashes>>
    BY <1>5 DEF DeadlinePasses
  <2>2. StreamInv'
    BY <2>1 DEF StreamInv, StreamAgrees, Final
  <2>. QED
    BY <1>1, <2>1, <2>2 DEF TypeOK
<1>. QED
  BY <1>2, <1>3, <1>4, <1>5

\* A write that fails, or a job that dies: no work is left, and what the next
\* job finds is what was stored.
LEMMA StopHolds ==
    ASSUME IInv, Raise \/ Crash
    PROVE  IInv'
<1>. USE DEF IInv, stored, streamed
<1>1. /\ UNCHANGED <<stored, hash, covered, late>> /\ worker' = [w \in Workers |-> Free]
      /\ step' \in {"failed", "start"}
  BY DEF Raise, Crash
<1>2. StoredInv'
  BY <1>1 DEF StoredInv, Whole
<1>3. WorkInv' /\ AskingNow' = {}
  BY <1>1 DEF WorkInv, Busy, Free, AskingNow
<1>4. worker' \in [Workers -> WorkerType] /\ \A u \in Units : ~Open(u)'
  BY <1>1, StartTypes DEF Open, Free
<1>5. /\ progress.idle \in Nat /\ progress.running \in Nat /\ progress.completed \in Nat
      /\ progress.stopped \in Nat
      /\ progress = [idle |-> progress.idle, running |-> progress.running,
                     completed |-> progress.completed, stopped |-> progress.stopped]
  BY DEF TypeOK
<1>6. CASE Raise
  <2>1. /\ step = "units" /\ step' = "failed"
        /\ early' = [f \in Files |-> IF early[f].task = "running" THEN NoEarly ELSE early[f]]
        /\ progress' = [progress EXCEPT !.running = 0, !.stopped = @ + progress.running]
        /\ UNCHANGED <<stored, hash, queue, completed, finished, outcome, exhausted, late,
                       covered, crashes>>
    BY <1>6 DEF Raise
  <2>2. /\ progress'.idle = progress.idle /\ progress'.running = 0
        /\ progress'.completed = progress.completed
        /\ progress'.stopped = progress.stopped + progress.running
        /\ progress.stopped + progress.running \in Nat
    BY <1>5, <2>1
  <2>3. TypeOK'
    <3>1. early' \in [Files -> FileType]
      BY <2>1, StartTypes DEF TypeOK
    <3>2. progress' = [idle |-> progress.idle, running |-> 0, completed |-> progress.completed,
                       stopped |-> progress.stopped + progress.running]
      BY <1>5, <2>1
    <3>3. progress' \in [idle : Nat, running : Nat, completed : Nat, stopped : Nat]
      BY <1>5, <2>2, <3>2
    <3>. QED
      BY <1>4, <2>1, <3>1, <3>3 DEF TypeOK
  <2>4. ResultInv'
    BY <2>1 DEF ResultInv, Drawn
  <2>5. StreamInv'
    BY <2>1 DEF StreamInv, StreamAgrees
  <2>6. CountInv'
    <3>1. Examined' = Examined
      BY <2>1 DEF Examined
    <3>. QED
      BY <1>3, <1>5, <2>1, <2>2, <3>1, FS_EmptySet DEF CountInv
  <2>. QED
    BY <1>2, <1>3, <2>3, <2>4, <2>5, <2>6
<1>7. CASE Crash
  <2>1. /\ crashes < MaxCrashes /\ crashes' = crashes + 1
        /\ step' = "start" /\ queue' = 1 /\ exhausted' = FALSE
        /\ completed' = [u \in Units |-> Fresh] /\ finished' = {}
        /\ early' = [f \in Files |-> NoEarly] /\ outcome' = [f \in Files |-> NoEarly]
        /\ progress' = [idle |-> N, running |-> 0, completed |-> 0, stopped |-> 0]
    BY <1>7 DEF Crash
  <2>2. TypeOK'
    <3>1. crashes' \in 0..MaxCrashes /\ queue' \in 1..(N + 1) /\ N \in Nat
      BY <2>1, UnitsAssumption, AnswersAssumption DEF TypeOK
    <3>2. progress' \in [idle : Nat, running : Nat, completed : Nat, stopped : Nat]
      BY <2>1, <3>1
    <3>3. /\ completed' \in [Units -> ResultType]
          /\ early' \in [Files -> FileType] /\ outcome' \in [Files -> FileType]
      BY <2>1, StartTypes
    <3>. QED
      BY <1>1, <1>4, <2>1, <3>1, <3>2, <3>3 DEF TypeOK
  <2>3. ResultInv'
    BY <2>1 DEF ResultInv, Drawn
  <2>4. StreamInv'
    BY <2>1 DEF StreamInv, StreamAgrees, NoEarly
  <2>5. CountInv'
    <3>1. Examined' = {}
      BY <2>1, StartTypes DEF Examined
    <3>2. /\ progress'.idle = N /\ progress'.running = 0 /\ progress'.completed = 0
          /\ progress'.stopped = 0
      BY <2>1
    <3>. QED
      BY <1>3, <2>1, <3>1, <3>2, FS_EmptySet, UnitsAssumption DEF CountInv
  <2>. QED
    BY <1>2, <1>3, <2>2, <2>3, <2>4, <2>5
<1>. QED
  BY <1>6, <1>7

\* Every step keeps the invariant.
LEMMA StepHolds == IInv /\ [Next]_vars => IInv'
<1>. SUFFICES ASSUME IInv, [Next]_vars PROVE IInv'
  OBVIOUS
<1>1. ASSUME NEW h \in Hashes, Begin(h) PROVE IInv'
  BY <1>1, BeginHolds
<1>2. ASSUME NEW w \in Workers, Work(w) PROVE IInv'
  BY <1>2, TakeHolds, SaveHolds, AnsweredHolds, RefusedHolds, TimeOutHolds, BreakHolds
     DEF Work
<1>3. CASE UNCHANGED vars
  BY <1>3 DEF vars, stored, streamed, IInv, TypeOK, StoredInv, Whole, WorkInv, Busy, ResultInv,
     Drawn, Open, StreamInv, StreamAgrees, Final, Inputs, CountInv, AskingNow, Examined
<1>. QED
  BY <1>1, <1>2, <1>3, MergeHolds, FilesHold, StopHolds DEF Next

\* stages.py, streaming.py: the inductive invariant holds in every reachable state.
THEOREM Invariant == Spec => []IInv
BY InitHolds, StepHolds, PTL DEF Spec
-----------------------------------------------------------------------------
(***************************************************************************)
(* The properties                                                          *)
(***************************************************************************)

\* Every variable keeps its type: no counter of the dashboard falls below zero
\* and no unit is listed twice (stages.py:187-360).
THEOREM TypeCorrect == Spec => []TypeOK
<1>1. IInv => TypeOK
  BY DEF IInv
<1>. QED
  BY <1>1, Invariant, PTL

\* Once merged, each unit is listed once, as examined only if an answer said so,
\* or as skipped and the review partial (stages.py:218-244).
THEOREM CoverageExactAlways == Spec => []CoverageExact
<1>1. IInv => CoverageExact
  <2>. SUFFICES ASSUME IInv, step \in {"finish", "done"}, NEW u \in Units
                PROVE  Whole(u, completed[u])
    BY DEF CoverageExact, Whole
  <2>1. ~Open(u) /\ Drawn(u)
    BY DEF IInv, WorkInv, Open, Busy, Drawn
  <2>. QED
    BY <2>1 DEF IInv, ResultInv
<1>. QED
  BY <1>1, Invariant, PTL

\* A checkpoint of the stage's identity is the unit's result, however many jobs
\* died since it was written (stages.py:283-307).
THEOREM CoverageSurvivesAlways == Spec => []CoverageSurvives
<1>1. IInv => CoverageSurvives
  BY DEF IInv, ResultInv, Drawn, CoverageSurvives
<1>. QED
  BY <1>1, Invariant, PTL

\* The counters add up to the plan and agree with the workers and the results
\* (stages.py and the progress listener).
THEOREM ProgressAddsAlways == Spec => []ProgressAdds
<1>1. IInv => ProgressAdds
  BY DEF IInv, CountInv, ProgressAdds, AskingNow, Examined
<1>. QED
  BY <1>1, Invariant, PTL

\* Whatever was prepared early, each file is settled from the findings of the
\* stage result (streaming.py:1-12).
THEOREM StreamAgreesAlways == Spec => []StreamAgrees
<1>1. IInv => StreamAgrees
  BY DEF IInv, StreamInv
<1>. QED
  BY <1>1, Invariant, PTL
=============================================================================
