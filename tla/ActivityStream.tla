----------------------------- MODULE ActivityStream -----------------------------
(***************************************************************************)
(* The live view of one review (reviewer/api/events.py) and the activity   *)
(* it shows (reviewer/telemetry/activity.py).  The worker's run and a      *)
(* recheck bracket their work with "run" events of the review, written     *)
(* best effort; the stream sends a picture, then the events after the      *)
(* client's cursor, batch by batch, and ends once the review is terminal   *)
(* and the newest bracket is closed or too old.  Connections break and     *)
(* resume; workers die, jobs are cut short, are taken again or swept, and  *)
(* an ended review whose status is owed gets another run.                  *)
(*                                                                         *)
(* An event's sequence number is its place in the log: append_event() and  *)
(* transition() number it under the lock of the review's row.  What a      *)
(* passing time does is to wear out a grace period, so the model has the   *)
(* set of those that have run out.  Events that neither open, close nor    *)
(* end anything are left out.                                              *)
(***************************************************************************)
EXTENDS Naturals, Sequences, FiniteSets

CONSTANTS
  Batch,       \* events one read returns (200)
  MaxTroubles  \* bound: workers that die, jobs cut short, connections that break,
               \* writes and calls that fail

ASSUME StreamAssumption ==
    Batch \in Nat \ {0} /\ MaxTroubles \in Nat

VARIABLES
  log,      \* the review's events
  terminal, \* whether its state is
  status,   \* of the merge request: "pending", "delivered" or, tried in vain, "failed"
  run,      \* where the worker is with the review
  asked,    \* where the recheck is
  ripe,     \* grace periods that have run out
  promised, \* history: the recheck was asked for and marked when nothing was left
            \* to run or deliver, and was not cut short since
  reader,   \* the connection of the dashboard
  troubles

recheck == <<asked, promised>>
vars == <<log, terminal, status, run, recheck, ripe, reader, troubles>>

\* The closing mark of a run that was cut short reads like any other: only the
\* properties tell "run_left" from "run_closed".
Marks == {"run_started", "run_left", "run_closed",
          "recheck_queued", "recheck_started", "recheck_closed"}
Events == Marks \cup {"terminal"}
\* CLOSING_GRACE since the review finished and since the recheck's last mark,
\* QUEUED_GRACE since it was asked for.
Graces == {"closing", "lease", "queue"}

\* Runs and rechecks hold the lock of the merge request.
Locked == run \in {"working", "settling"} \/ asked = "working"

Trouble == troubles < MaxTroubles /\ troubles' = troubles + 1
Written(event) == log' = Append(log, event)
\* The brackets never fail the work they are about.
WrittenOrLost(event) ==
    \/ Written(event) /\ UNCHANGED troubles
    \/ log' = log /\ Trouble
-------------------------------------------------------------------------------
(* The worker's run *)

\* The bracket opens before the lock is asked for.
OpenRun ==
    /\ run = "queued" /\ run' = "opened"
    /\ WrittenOrLost("run_started")
    /\ UNCHANGED <<terminal, status, recheck, ripe, reader>>

TakeLock ==
    /\ run = "opened" /\ ~Locked
    /\ run' = IF terminal THEN "settling" ELSE "working"
    /\ UNCHANGED <<log, terminal, status, recheck, ripe, reader, troubles>>

\* The run's last transition; or it finds the review stopped by its owner.
Finish ==
    /\ run = "working" /\ run' = "settling"
    /\ terminal' = TRUE
    /\ IF terminal THEN log' = log ELSE Written("terminal")
    /\ UNCHANGED <<status, recheck, ripe, reader, troubles>>

\* The commit status is delivered after it, and the lock let go.
Deliver ==
    /\ run = "settling" /\ run' = "closing"
    /\ \/ status' = "delivered" /\ UNCHANGED troubles
       \/ status # "delivered" /\ status' = "failed" /\ Trouble
    /\ UNCHANGED <<log, terminal, recheck, ripe, reader>>

CloseRun ==
    /\ run = "closing" /\ run' = "over"
    /\ WrittenOrLost("run_closed")
    /\ UNCHANGED <<terminal, status, recheck, ripe, reader>>

\* A shutdown, the job's timeout, an error or credentials that are gone end a
\* run anywhere, ...
CutShort ==
    /\ run \in {"opened", "working", "settling", "closing"}
    /\ Trouble /\ run' = "leaving"
    /\ UNCHANGED <<log, terminal, status, recheck, ripe, reader>>

\* ... but not without its closing mark; the queue may try the job again.
LeaveRun ==
    /\ run = "leaving" /\ run' \in {"queued", "over"}
    /\ WrittenOrLost("run_left")
    /\ UNCHANGED <<terminal, status, recheck, ripe, reader>>

\* A job that died with its worker is taken again, its mark written or not.
RunDies ==
    /\ run \in {"opened", "working", "settling", "closing"}
    /\ Trouble /\ run' = "queued"
    /\ \/ log' = log
       \/ run = "closing" /\ Written("run_closed")
    /\ UNCHANGED <<terminal, status, recheck, ripe, reader>>

\* Mutant: every review is swept.
SweepAll ==
    /\ run = "over" /\ run' = "queued"
    /\ UNCHANGED <<log, terminal, status, recheck, ripe, reader, troubles>>

\* Recovery queues a review that has no job and is not over, or owes its status.
Sweep ==
    /\ run = "over" /\ (~terminal \/ status # "delivered")
    /\ run' = "queued"
    /\ UNCHANGED <<log, terminal, status, recheck, ripe, reader, troubles>>

\* The owner stops the review, or a push supersedes it.
Stop ==
    /\ ~terminal /\ terminal' = TRUE
    /\ Written("terminal")
    /\ UNCHANGED <<status, run, recheck, ripe, reader, troubles>>
-------------------------------------------------------------------------------
(* A recheck *)

\* Nothing is left to run or deliver.
Settled == terminal /\ status = "delivered" /\ run = "over"

\* The request marks the stream before the job exists.
Request ==
    /\ asked = "none" /\ asked' = "marked"
    /\ WrittenOrLost("recheck_queued")
    /\ promised' = (Settled /\ log' # log)
    /\ UNCHANGED <<terminal, status, run, ripe, reader>>

Enqueue ==
    /\ asked = "marked"
    /\ \/ asked' = "queued" /\ UNCHANGED <<log, troubles>>
       \/ asked' = "over" /\ Trouble /\ (Written("recheck_closed") \/ log' = log)
    /\ UNCHANGED <<terminal, status, run, promised, ripe, reader>>

\* A mark written now has its lease before it.
Leased == ripe' = IF log' = log THEN ripe ELSE ripe \ {"lease"}

TakeRecheck ==
    /\ asked = "queued" /\ ~Locked /\ asked' = "working"
    /\ WrittenOrLost("recheck_started") /\ Leased
    /\ UNCHANGED <<terminal, status, run, promised, reader>>

EndRecheck ==
    /\ asked = "working" /\ asked' = "over"
    /\ WrittenOrLost("recheck_closed")
    /\ UNCHANGED <<terminal, status, run, promised, ripe, reader>>

\* The queue tries it again, if its worker died without a word or was shut down.
RecheckDies ==
    /\ asked = "working" /\ asked' = "queued" /\ Trouble
    /\ \/ UNCHANGED <<log, promised>>
       \/ Written("recheck_closed") /\ promised' = FALSE
    /\ UNCHANGED <<terminal, status, run, ripe, reader>>
-------------------------------------------------------------------------------
(* Time *)

Places == {i \in DOMAIN log : log[i] \in Marks}
\* The newest bracket of a run; "none" before there is one.
Marker ==
    IF Places = {} THEN "none" ELSE log[CHOOSE i \in Places : \A j \in Places : j <= i]

\* Every ten seconds, so the lease of a recheck at work never runs out; a beat
\* that follows its like within the lease is left out.
Beat ==
    /\ asked = "working" /\ (Marker = "recheck_started" => "lease" \in ripe)
    /\ Written("recheck_started") /\ Leased
    /\ UNCHANGED <<terminal, status, run, recheck, reader, troubles>>

\* A grace period runs out while the mark it is about is the newest.
GraceRunsOut(grace) ==
    /\ grace \notin ripe /\ ripe' = ripe \cup {grace}
    /\ CASE grace = "closing" -> Marker = "run_started" /\ terminal
         [] grace = "queue" -> Marker = "recheck_queued"
         [] OTHER -> Marker = "recheck_started" /\ asked # "working"
    /\ UNCHANGED <<log, terminal, status, run, recheck, reader, troubles>>
-------------------------------------------------------------------------------
(* The stream *)

\* The client resumes behind the last event it has.
Connect ==
    /\ reader.pc = "away"
    /\ reader' = [reader EXCEPT !.pc = "look"]
    /\ UNCHANGED <<log, terminal, status, run, recheck, ripe, troubles>>

\* Read terminal state first, ...
Look ==
    /\ reader.pc = "look"
    /\ reader' = [reader EXCEPT !.pc = "drain", !.ended = terminal]
    /\ UNCHANGED <<log, terminal, status, run, recheck, ripe, troubles>>

Upto == IF Len(log) < reader.sent + Batch THEN Len(log) ELSE reader.sent + Batch

\* ... then drain the events committed with it; a full batch is followed by another.
Drain ==
    /\ reader.pc = "drain"
    /\ reader' = [reader EXCEPT
                    !.sent = Upto,
                    !.pc = IF Upto = reader.sent + Batch THEN "look" ELSE "check"]
    /\ UNCHANGED <<log, terminal, status, run, recheck, ripe, troubles>>

\* Mutant: a queued recheck holds the stream for good.
ClosingUntilTaken ==
    CASE Marker = "recheck_queued" -> TRUE
      [] Marker = "recheck_started" -> "lease" \notin ripe
      [] Marker = "run_started" -> ~terminal \/ "closing" \notin ripe
      [] OTHER -> FALSE

Closing ==
    CASE Marker = "recheck_queued" -> "queue" \notin ripe
      [] Marker = "recheck_started" -> "lease" \notin ripe
      [] Marker = "run_started" -> ~terminal \/ "closing" \notin ripe
      [] OTHER -> FALSE

\* Mutant: the state is read again after the events.
CheckAfresh ==
    /\ reader.pc = "check"
    /\ reader' = [reader EXCEPT !.pc = IF terminal /\ ~Closing THEN "last" ELSE "look",
                                !.ended = FALSE]
    /\ UNCHANGED <<log, terminal, status, run, recheck, ripe, troubles>>

\* Sleep a second, or take the last picture, ...
Check ==
    /\ reader.pc = "check"
    /\ reader' = [reader EXCEPT !.pc = IF reader.ended /\ ~Closing THEN "last" ELSE "look",
                                !.ended = FALSE]
    /\ UNCHANGED <<log, terminal, status, run, recheck, ripe, troubles>>

\* ... which carries the status, and say that it was the last.
Complete ==
    /\ reader.pc = "last"
    /\ reader' = [reader EXCEPT !.pc = "complete", !.shows = status]
    /\ UNCHANGED <<log, terminal, status, run, recheck, ripe, troubles>>

\* What was on its way is lost; a batch at most.
Break ==
    /\ reader.pc \notin {"away", "complete"} /\ Trouble
    /\ \E lost \in 0..Batch :
          /\ lost <= reader.sent
          /\ reader' = [reader EXCEPT !.pc = "away", !.sent = @ - lost, !.ended = FALSE]
    /\ UNCHANGED <<log, terminal, status, run, recheck, ripe>>
-------------------------------------------------------------------------------
RunStates == {"queued", "opened", "working", "settling", "closing", "leaving", "over"}
RecheckStates == {"none", "marked", "queued", "working", "over"}
Statuses == {"pending", "delivered", "failed"}
ReaderType ==
    [pc : {"away", "look", "drain", "check", "last", "complete"}, sent : Nat,
     ended : BOOLEAN, shows : Statuses]

\* Every variable has its type, and a dashboard has no event the log does not.
TypeOK ==
    /\ log \in Seq(Events) /\ terminal \in BOOLEAN /\ status \in Statuses
    /\ run \in RunStates /\ asked \in RecheckStates /\ ripe \subseteq Graces
    /\ promised \in BOOLEAN
    /\ reader \in ReaderType /\ reader.sent <= Len(log)
    /\ troubles \in 0..MaxTroubles

\* The review waits for its worker, and a dashboard has just opened it.
Init ==
    /\ log = <<>> /\ terminal = FALSE /\ status = "pending"
    /\ run = "queued" /\ asked = "none" /\ promised = FALSE /\ ripe = {}
    /\ reader = [pc |-> "look", sent |-> 0, ended |-> FALSE, shows |-> "pending"]
    /\ troubles = 0

Running == OpenRun \/ TakeLock \/ Finish \/ Deliver \/ CloseRun \/ LeaveRun \/ Sweep
Rechecking == Enqueue \/ TakeRecheck \/ EndRecheck
Streaming == Connect \/ Look \/ Drain \/ Check \/ Complete
Surroundings == RunDies \/ CutShort \/ Stop \/ Request \/ Beat \/ RecheckDies \/ Break
\* What happens after "complete" nobody looks at.
Next ==
    /\ reader.pc # "complete"
    /\ Running \/ Rechecking \/ Streaming \/ Surroundings
       \/ \E grace \in Graces : GraceRunsOut(grace)

Spec == Init /\ [][Next]_vars
\* Rechecks end, the client comes back and time passes; no run needs to end.
FairSpec ==
    /\ Spec /\ WF_vars(Rechecking) /\ WF_vars(Streaming)
    /\ \A grace \in Graces : WF_vars(GraceRunsOut(grace))
-------------------------------------------------------------------------------
(* Properties *)

\* A run was open when the review ended, and none was cut short since.
EndedOpen ==
    \E i, j \in DOMAIN log :
        /\ i < j /\ log[i] = "run_started" /\ log[j] = "terminal"
        /\ \A k \in DOMAIN log : k > i => log[k] # "run_left"

\* A "complete" is true of its picture, whatever was written, broken or resumed
\* meanwhile: every event up to the one that ended the review was sent
\* (events.py:85), and of a review whose run was open when it ended and was not
\* cut short since, the commit status is settled, unless the grace has run out
\* (frontend/README.md:179).
CompleteIsTrue ==
    reader.pc = "complete" =>
        /\ \A i \in DOMAIN log : log[i] = "terminal" => i <= reader.sent
        /\ asked = "none" /\ EndedOpen
              => reader.shows # "pending" \/ "closing" \in ripe

\* The newest mark is the recheck's, and its grace has run out.
RecheckLate ==
    \/ Marker = "recheck_queued" /\ "queue" \in ripe
    \/ Marker = "recheck_started" /\ "lease" \in ripe

\* activity.py:206-211: a recheck of a review with nothing left to run or deliver
\* holds the stream from its request until it has ended or is cut short, as long
\* as its lease is good.
RecheckHolds ==
    reader.pc = "check" /\ reader'.pc = "last" /\ promised
        => asked \in {"none", "over"} \/ RecheckLate
RecheckIsSeen == [][RecheckHolds]_vars

\* The same of every recheck whose request was marked: a run that is still to end,
\* is taken again or is swept closes its own bracket over the recheck's.
LeaseHolds ==
    [][reader.pc = "check" /\ reader'.pc = "last"
        /\ "recheck_queued" \in {log[i] : i \in DOMAIN log}
        => asked \in {"none", "over"} \/ {"queue", "lease"} \cap ripe # {}]_vars

\* And the status of every review whose run was open when it ended: a run cut
\* short writes its closing mark with the status undelivered.
StatusIsSettled ==
    reader.pc = "complete" /\ asked = "none" /\ "run_started" \in {log[i] : i \in DOMAIN log}
        => reader.shows # "pending" \/ "closing" \in ripe

\* A dashboard is told in the end: no lost mark or dead worker holds a stream for ever.
StreamEnds == terminal ~> reader.pc = "complete"
===============================================================================
