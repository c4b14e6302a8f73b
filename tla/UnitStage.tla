------------------------------- MODULE UnitStage -------------------------------
(***************************************************************************)
(* The Defect Review of one review: its workers share one queue of units   *)
(* (reviewer/orchestrator/stages.py), ask the model about each in context  *)
(* rounds and at most one coverage retry (reviewer/agents/base.py),        *)
(* checkpoint every answer, and the files whose units are all done are     *)
(* prepared while others still run (reviewer/orchestrator/streaming.py).   *)
(* A job may die anywhere; the next one starts from the checkpoints        *)
(* (reviewer/orchestrator/pipeline.py).                                    *)
(*                                                                         *)
(* A finding is known by the unit that reported it and the file it is      *)
(* anchored in; how many of them there are is what matters.                *)
(***************************************************************************)
EXTENDS Integers, Sequences, FiniteSets, FiniteSetsExt, Functions

CONSTANTS
  N,           \* planned units, in the order of the plan
  Files,       \* files findings may be anchored in
  Paths,       \* files of each unit
  Omitted,     \* units with a source line beyond the chunk allowance
  Workers,     \* unit_concurrency
  Rounds,      \* context rounds of an attempt
  Attempts,    \* the first attempt and the coverage retry
  Answers,     \* answers the model may give
  Hashes,      \* identities a stage may have: prompts, models, configuration
  NoFile,      \* an answer without a finding
  MaxCrashes   \* bound: jobs that die

Units == 1..N
Covers == {"examined", "skipped", "neither"}
\* What an envelope says of its unit: whether it was examined, whether it asks
\* for context that can be found and is new, the file of its finding, and
\* whether further findings were cut off.
Answer == [cover : Covers, more : BOOLEAN, in : Files \cup {NoFile}, cut : BOOLEAN]

ASSUME UnitsAssumption ==
    /\ N \in Nat \ {0} /\ Omitted \subseteq Units
    /\ Paths \in [Units -> SUBSET Files \ {{}}] /\ NoFile \notin Files
    /\ IsFiniteSet(Files) /\ IsFiniteSet(Workers) /\ Workers # {}
ASSUME AnswersAssumption ==
    /\ Answers \subseteq Answer /\ Hashes # {}
    /\ Rounds \in Nat \ {0} /\ Attempts \in Nat \ {0} /\ MaxCrashes \in Nat

VARIABLES
  checkpoint,  \* review_units: what was saved of each unit under each identity
  stage,       \* review_stages: the merged result and its identity
  step,        \* where the job is
  hash,        \* identity of the job's stage
  queue,       \* the next unit of the shared iterator
  worker,      \* what each worker is doing
  completed,   \* results so far, by unit
  finished,    \* units whose result the file stream was told
  early,       \* files prepared ahead of the stage result, and from what
  outcome,     \* files settled in the end, and from what
  exhausted,   \* a unit was refused by the token budget
  late,        \* the analysis deadline has passed
  progress,    \* the counters of the dashboard
  covered,     \* history: units some answer examined
  crashes

stored == <<checkpoint, stage>>
streamed == <<finished, early, outcome>>
vars == <<stored, step, hash, queue, worker, completed, streamed, exhausted,
          late, progress, covered, crashes>>

Nothing == [f \in Files |-> 0]
\* A unit's StageResult: findings by file, and how often it is listed as
\* examined and as skipped. A checkpoint not written yet is as good as fresh.
Fresh == [found |-> Nothing, examined |-> 0, skipped |-> 0, partial |-> FALSE,
          failed |-> FALSE]
NoStage == [hash |-> CHOOSE h \in Hashes : TRUE, there |-> FALSE,
            results |-> [u \in Units |-> Fresh]]
NoEarly == [task |-> "none", from |-> [u \in Units |-> 0]]
Free == [unit |-> 0, at |-> "free", attempt |-> 1, observed |-> <<>>]

-------------------------------------------------------------------------------
(* One unit *)

Examines(a) == a.cover = "examined"

\* What a returned envelope adds to the unit's result.
Taken(r, a) ==
    [r EXCEPT !.found = [f \in Files |-> @[f] + IF f = a.in THEN 1 ELSE 0],
              !.partial = @ \/ a.cut,
              !.examined = @ + IF Examines(a) THEN 1 ELSE 0]

\* Without coverage the unit is listed as skipped and the stage is partial.
Closed(r) ==
    IF r.examined > 0 THEN r ELSE [r EXCEPT !.skipped = @ + 1, !.partial = TRUE]

\* Mutant: the last answer counts as coverage.
KeptLast(r, observed) ==
    IF observed = <<>> THEN r
    ELSE [Taken(r, observed[Len(observed)]) EXCEPT !.examined = 1]

\* The latest observed answer that examined the unit stands when the deadline
\* cuts a later context round short.
Kept(r, observed) ==
    LET covering == {i \in DOMAIN observed : Examines(observed[i])}
    IN IF covering = {}
       THEN r ELSE Taken(r, observed[Max(covering)])

-------------------------------------------------------------------------------
(* Files prepared ahead *)

\* Findings of a file the results of some units hold, by unit.
Inputs(f, results, told) ==
    [u \in Units |-> IF u \in told THEN results[u].found[f] ELSE 0]
Pending(f, told) == {u \in Units \ told : f \in Paths[u]}
Planned == UNION {Paths[u] : u \in Units}

\* finished(): a planned file with findings and no unit left is started, once.
Started(results, told) ==
    [f \in Files |->
        IF /\ f \in Planned /\ Pending(f, told) = {} /\ early[f].task = "none"
           /\ \E u \in told : results[u].found[f] > 0
        THEN [task |-> "running", from |-> Inputs(f, results, told)]
        ELSE early[f]]

Tell(u, results) ==
    /\ finished' = finished \cup {u}
    /\ early' = Started(results, finished \cup {u})

-------------------------------------------------------------------------------
ResultType ==
    [found : [Files -> 0..Attempts], examined : 0..1, skipped : 0..1,
     partial : BOOLEAN, failed : BOOLEAN]
WorkerType ==
    [unit : 0..N, at : {"free", "asking", "saving"}, attempt : 1..Attempts,
     observed : Seq(Answers)]
FileType == [task : {"none", "running", "done"}, from : [Units -> 0..Attempts]]

TypeOK ==
    /\ checkpoint \in [Units -> [Hashes -> ResultType]]
    /\ stage \in [hash : Hashes, there : BOOLEAN, results : [Units -> ResultType]]
    /\ step \in {"start", "units", "finish", "done", "failed"}
    /\ hash \in Hashes
    /\ queue \in 1..(N + 1)
    /\ worker \in [Workers -> WorkerType]
    /\ completed \in [Units -> ResultType]
    /\ finished \subseteq Units
    /\ early \in [Files -> FileType] /\ outcome \in [Files -> FileType]
    /\ exhausted \in BOOLEAN /\ late \in BOOLEAN
    /\ progress \in [idle : Nat, running : Nat, completed : Nat, stopped : Nat]
    /\ covered \subseteq Units
    /\ crashes \in 0..MaxCrashes

Init ==
    /\ checkpoint = [u \in Units |-> [h \in Hashes |-> Fresh]]
    /\ stage = NoStage
    /\ step = "start" /\ hash = NoStage.hash /\ queue = 1
    /\ worker = [w \in Workers |-> Free]
    /\ completed = [u \in Units |-> Fresh]
    /\ finished = {}
    /\ early = [f \in Files |-> NoEarly] /\ outcome = early
    /\ exhausted = FALSE /\ late = FALSE
    /\ progress = [idle |-> N, running |-> 0, completed |-> 0, stopped |-> 0]
    /\ covered = {} /\ crashes = 0

-------------------------------------------------------------------------------
(* The stage *)

\* A stage saved under the same identity is taken whole and the file stream
\* told nothing; otherwise every unit is planned.
Begin(h) ==
    /\ step = "start"
    /\ hash' = h
    /\ LET whole == stage.there /\ stage.hash = h
           n == Cardinality({u \in Units : stage.results[u].examined > 0})
       IN /\ step' = IF whole THEN "finish" ELSE "units"
          /\ completed' = IF whole THEN stage.results ELSE [u \in Units |-> Fresh]
          /\ progress' = IF whole
                         THEN [idle |-> 0, running |-> 0, completed |-> n, stopped |-> N - n]
                         ELSE progress
    /\ UNCHANGED <<stored, queue, worker, streamed, exhausted, late, covered, crashes>>

Cached(u) == checkpoint[u][hash] # Fresh

\* Mutant: a unit passed over stays counted as waiting.
PassWaiting(u, r) ==
    /\ completed' = [completed EXCEPT ![u] = r]
    /\ Tell(u, completed')
    /\ progress' = IF r.examined > 0 THEN [progress EXCEPT !.completed = @ + 1]
                   ELSE [progress EXCEPT !.stopped = @ + 1]

\* The end of a unit that no worker asks about.
Pass(u, r) ==
    /\ completed' = [completed EXCEPT ![u] = r]
    /\ Tell(u, completed')
    /\ progress' = IF r.examined > 0
                   THEN [progress EXCEPT !.idle = @ - 1, !.completed = @ + 1]
                   ELSE [progress EXCEPT !.idle = @ - 1, !.stopped = @ + 1]

Skipped == [found |-> Nothing, examined |-> 0, skipped |-> 1, partial |-> TRUE,
            failed |-> FALSE]

Ask(w, u) ==
    /\ worker' = [worker EXCEPT ![w] = [Free EXCEPT !.unit = u, !.at = "asking"]]
    /\ UNCHANGED completed
    /\ progress' = [progress EXCEPT !.idle = @ - 1, !.running = @ + 1]

\* Mutant: the deadline is looked at before the checkpoint.
TakeLate(w) ==
    /\ step = "units" /\ worker[w].at = "free" /\ queue <= N
    /\ queue' = queue + 1
    /\ \/ /\ Cached(queue) /\ ~late
          /\ Pass(queue, checkpoint[queue][hash])
          /\ UNCHANGED worker
       \/ /\ exhausted \/ late \/ queue \in Omitted
          /\ Pass(queue, Skipped)
          /\ UNCHANGED worker
       \/ /\ ~Cached(queue) /\ ~exhausted /\ ~late /\ queue \notin Omitted
          /\ Ask(w, queue)
          /\ UNCHANGED <<finished, early>>
    /\ UNCHANGED <<stored, step, hash, outcome, exhausted, late, covered, crashes>>

\* Mutant: once the budget is exhausted workers leave the queue as it is.
TakeNoMore(w) ==
    /\ step = "units" /\ worker[w].at = "free" /\ queue <= N
    /\ ~exhausted
    /\ queue' = queue + 1
    /\ \/ /\ Cached(queue)
          /\ Pass(queue, checkpoint[queue][hash])
          /\ UNCHANGED worker
       \/ /\ ~Cached(queue) /\ (late \/ queue \in Omitted)
          /\ Pass(queue, Skipped)
          /\ UNCHANGED worker
       \/ /\ ~Cached(queue) /\ ~late /\ queue \notin Omitted
          /\ Ask(w, queue)
          /\ UNCHANGED <<finished, early>>
    /\ UNCHANGED <<stored, step, hash, outcome, exhausted, late, covered, crashes>>

Take(w) ==
    /\ step = "units" /\ worker[w].at = "free" /\ queue <= N
    /\ queue' = queue + 1
    /\ \/ /\ Cached(queue)
          /\ Pass(queue, checkpoint[queue][hash])
          /\ UNCHANGED worker
       \/ /\ ~Cached(queue) /\ (exhausted \/ late \/ queue \in Omitted)
          /\ Pass(queue, Skipped)
          /\ UNCHANGED worker
       \/ /\ ~Cached(queue) /\ ~exhausted /\ ~late /\ queue \notin Omitted
          /\ Ask(w, queue)
          /\ UNCHANGED <<finished, early>>
    /\ UNCHANGED <<stored, step, hash, outcome, exhausted, late, covered, crashes>>

\* The unit's end, on its way to the checkpoint.
End(w, r) ==
    LET u == worker[w].unit IN
    /\ completed' = [completed EXCEPT ![u] = Closed(r)]
    /\ worker' = [worker EXCEPT ![w] = [Free EXCEPT !.unit = u, !.at = "saving"]]
    /\ progress' = IF r.examined > 0
                   THEN [progress EXCEPT !.running = @ - 1, !.completed = @ + 1]
                   ELSE [progress EXCEPT !.running = @ - 1, !.stopped = @ + 1]

Asking(w) == step = "units" /\ worker[w].at = "asking"

\* An envelope: another context round, the coverage retry, or the unit's end.
Answered(w, a) ==
    LET u == worker[w].unit
        observed == Append(worker[w].observed, a)
        r == Taken(completed[u], a)
    IN /\ Asking(w)
       /\ covered' = IF Examines(a) THEN covered \cup {u} ELSE covered
       /\ \/ /\ a.more /\ Len(observed) < Rounds
             /\ worker' = [worker EXCEPT ![w].observed = observed]
             /\ UNCHANGED <<completed, progress>>
          \/ /\ ~(a.more /\ Len(observed) < Rounds)
             /\ a.cover = "neither" /\ worker[w].attempt < Attempts
             /\ completed' = [completed EXCEPT ![u] = r]
             /\ worker' = [worker EXCEPT ![w].attempt = @ + 1, ![w].observed = <<>>]
             /\ UNCHANGED progress
          \/ /\ ~(a.more /\ Len(observed) < Rounds)
             /\ ~(a.cover = "neither" /\ worker[w].attempt < Attempts)
             /\ End(w, r)
       /\ UNCHANGED <<stored, step, hash, queue, streamed, exhausted, late, crashes>>

\* The budget refuses a call: no further unit starts.
Refused(w) ==
    /\ Asking(w)
    /\ exhausted' = TRUE
    /\ End(w, completed[worker[w].unit])
    /\ UNCHANGED <<stored, step, hash, queue, streamed, late, covered, crashes>>

\* The unit's allowance, or what remains of the stage's, is over.
TimeOut(w) ==
    /\ Asking(w)
    /\ End(w, Kept(completed[worker[w].unit], worker[w].observed))
    /\ UNCHANGED <<stored, step, hash, queue, streamed, exhausted, late, covered, crashes>>

\* Any other exception of the call or of the context provider.
Break(w) ==
    /\ Asking(w)
    /\ End(w, [completed[worker[w].unit] EXCEPT !.failed = TRUE])
    /\ UNCHANGED <<stored, step, hash, queue, streamed, exhausted, late, covered, crashes>>

\* The checkpoint is written before the worker takes another unit.
Save(w) ==
    LET u == worker[w].unit IN
    /\ step = "units" /\ worker[w].at = "saving"
    /\ checkpoint' = IF Cached(u) THEN checkpoint
                     ELSE [checkpoint EXCEPT ![u][hash] = completed[u]]
    /\ worker' = [worker EXCEPT ![w] = Free]
    /\ Tell(u, completed)
    /\ UNCHANGED <<stage, step, hash, queue, completed, outcome, exhausted, late,
                   progress, covered, crashes>>

\* The merged result is saved and the review moves on.
Merge ==
    /\ step = "units" /\ queue > N
    /\ \A w \in Workers : worker[w].at = "free"
    /\ stage' = [hash |-> hash, there |-> TRUE, results |-> completed]
    /\ step' = "finish"
    /\ UNCHANGED <<checkpoint, hash, queue, worker, completed, streamed, exhausted,
                   late, progress, covered, crashes>>

\* An early file's validation and verification end.
Prepared(f) ==
    /\ step \in {"units", "finish"} /\ early[f].task = "running"
    /\ early' = [early EXCEPT ![f].task = "done"]
    /\ UNCHANGED <<stored, step, hash, queue, worker, completed, finished, outcome,
                   exhausted, late, progress, covered, crashes>>

\* finish(): early work is awaited, and used only if its inputs are the stage's.
Final(f) == Inputs(f, completed, Units)

\* Mutant: whatever was prepared early is used.
MatchAny(f) == early[f].task = "done"

Match(f) == early[f].task = "done" /\ early[f].from = Final(f)

FinishFile(f) ==
    /\ step = "finish" /\ outcome[f].task = "none"
    /\ \E u \in Units : Final(f)[u] > 0
    /\ early[f].task # "running"
    /\ outcome' = [outcome EXCEPT ![f] =
                     [task |-> "done", from |-> IF Match(f) THEN early[f].from ELSE Final(f)]]
    /\ UNCHANGED <<stored, step, hash, queue, worker, completed, finished, early,
                   exhausted, late, progress, covered, crashes>>

Settle ==
    /\ step = "finish"
    /\ \A f \in Files : /\ (\E u \in Units : Final(f)[u] > 0) => outcome[f].task = "done"
                        /\ early[f].task # "running"
    /\ step' = "done"
    /\ UNCHANGED <<stored, hash, queue, worker, completed, streamed, exhausted,
                   late, progress, covered, crashes>>

-------------------------------------------------------------------------------
(* What goes wrong *)

DeadlinePasses ==
    /\ ~late /\ step = "units"
    /\ late' = TRUE
    /\ UNCHANGED <<stored, step, hash, queue, worker, completed, streamed, exhausted,
                   progress, covered, crashes>>

\* A checkpoint or a stage cannot be saved: the task group cancels the rest and
\* the review fails. A cancelled worker leaves its unit stopped.
Raise ==
    /\ \/ step = "units" /\ \E w \in Workers : worker[w].at = "saving"
       \/ step = "units" /\ queue > N /\ \A w \in Workers : worker[w].at = "free"
    /\ step' = "failed"
    /\ worker' = [w \in Workers |-> Free]
    /\ early' = [f \in Files |-> IF early[f].task = "running" THEN NoEarly ELSE early[f]]
    /\ progress' = [progress EXCEPT !.running = 0, !.stopped = @ + progress.running]
    /\ UNCHANGED <<stored, hash, queue, completed, finished, outcome, exhausted, late,
                   covered, crashes>>

\* The job dies; the next one knows only what was saved.
Crash ==
    /\ step \in {"units", "finish"} /\ crashes < MaxCrashes
    /\ crashes' = crashes + 1
    /\ step' = "start" /\ queue' = 1 /\ exhausted' = FALSE
    /\ worker' = [w \in Workers |-> Free]
    /\ completed' = [u \in Units |-> Fresh]
    /\ finished' = {}
    /\ early' = [f \in Files |-> NoEarly] /\ outcome' = [f \in Files |-> NoEarly]
    /\ progress' = [idle |-> N, running |-> 0, completed |-> 0, stopped |-> 0]
    /\ UNCHANGED <<stored, hash, late, covered>>

-------------------------------------------------------------------------------
Work(w) == \/ Take(w) \/ Save(w)
           \/ \E a \in Answers : Answered(w, a)
           \/ Refused(w) \/ TimeOut(w) \/ Break(w)

Next ==
    \/ \E h \in Hashes : Begin(h)
    \/ \E w \in Workers : Work(w)
    \/ Merge
    \/ \E f \in Files : Prepared(f) \/ FinishFile(f)
    \/ Settle
    \/ DeadlinePasses \/ Raise \/ Crash

Spec == Init /\ [][Next]_vars

\* Every call is answered, refused or cut off by its timeout; the event loop
\* runs what can run.
Fairness ==
    /\ WF_vars(\E h \in Hashes : Begin(h))
    /\ \A w \in Workers : WF_vars(Work(w))
    /\ WF_vars(Merge) /\ WF_vars(Settle)
    /\ \A f \in Files : WF_vars(Prepared(f)) /\ WF_vars(FinishFile(f))

FairSpec == Spec /\ Fairness

-------------------------------------------------------------------------------
(* Properties *)

\* stages.py:218-244: once merged, each unit is listed once, as examined or as
\* skipped; it is examined only if an answer said so, and a skipped unit makes
\* the review partial, hence never blocking.
CoverageExact ==
    step \in {"finish", "done"} =>
        \A u \in Units :
            /\ completed[u].examined + completed[u].skipped = 1
            /\ completed[u].examined = 1 => u \in covered
            /\ completed[u].skipped = 1 => completed[u].partial

\* README:235: coverage checkpointed under a stage's identity is in every later
\* result of that identity, whatever was cut short since.
CoverageSurvives ==
    step \in {"finish", "done"} =>
        \A u \in Units :
            checkpoint[u][hash] # Fresh => completed[u] = checkpoint[u][hash]

\* The counters the dashboard shows add up to the plan, and agree with what the
\* workers do and what became of the units, though six places move them.
ProgressAdds ==
    /\ progress.idle + progress.running + progress.completed + progress.stopped = N
    /\ progress.running = Cardinality({w \in Workers : worker[w].at = "asking"})
    /\ step \in {"finish", "done"} =>
         progress.completed = Cardinality({u \in Units : completed[u].examined = 1})

\* streaming.py:1-12: however the units ended and whatever was prepared early,
\* each file is settled from exactly the findings of the stage result, and no
\* early work outlives the stage.
StreamAgrees ==
    step = "done" =>
        \A f \in Files :
            /\ early[f].task # "running"
            /\ outcome[f].from = Final(f)

\* The stage ends, however the calls end and the job dies.
StageEnds == <>[](step \in {"done", "failed"})
===============================================================================
