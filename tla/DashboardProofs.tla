--------------------------- MODULE DashboardProofs ---------------------------
(***************************************************************************)
(* Theorems about what the dashboard's server promises a signed-in user:   *)
(* about ActivityStream, the live stream of a review, for every size of a  *)
(* batch and every number of troubles; and, below it, about Accounts, who  *)
(* may sign in and what is saved for them, for every set of users and      *)
(* every bound on passwords and requests.                                  *)
(***************************************************************************)
EXTENDS Accounts, ActivityStream, WellFoundedInduction, TLAPS

-------------------------------------------------------------------------------
(***************************************************************************)
(* The inductive invariant                                                 *)
(***************************************************************************)

\* What the log holds says where its writers are.
LogInv ==
    /\ run = "closing" => status # "pending"
    /\ \A i \in DOMAIN log :
          /\ log[i] = "terminal" => terminal
          /\ log[i] = "run_closed" => status # "pending"
          /\ log[i] \in {"recheck_queued", "recheck_started", "recheck_closed"} => asked # "none"

\* No bracket of a run is behind a promised recheck's, and only its end closed it.
Held(q) ==
    /\ log[q] = "recheck_queued"
    /\ \A j \in DOMAIN log : j > q =>
          /\ log[j] \notin {"run_started", "run_left", "run_closed"}
          /\ log[j] = "recheck_closed" => asked = "over"
PromiseInv == promised => Settled /\ asked # "none" /\ \E q \in DOMAIN log : Held(q)

AllSent == \A i \in DOMAIN log : log[i] = "terminal" => i <= reader.sent

\* A review whose run was open when it ended and was not cut short, and which
\* nobody asked to recheck.
Bracketed == asked = "none" /\ EndedOpen

\* A stream that saw the end has sent it once it stops draining, and takes its
\* last picture of a review whose status is settled.
StreamInv ==
    /\ reader.pc \in {"drain", "check"} /\ reader.ended => terminal
    /\ reader.pc = "check" /\ reader.ended => AllSent
    /\ reader.pc \in {"last", "complete"} => terminal /\ AllSent
    /\ reader.pc = "last" /\ Bracketed => status # "pending" \/ "closing" \in ripe
    /\ reader.pc = "complete" /\ Bracketed
          => reader.shows # "pending" \/ "closing" \in ripe

IInv == TypeOK /\ LogInv /\ PromiseInv /\ StreamInv
-------------------------------------------------------------------------------
(***************************************************************************)
(* What a step does                                                        *)
(***************************************************************************)

\* An event may be written, and who writes it moves on.
Grows(event) ==
    /\ log' = Append(log, event)
    /\ event = "terminal" => ~terminal /\ terminal'
    /\ event \in {"run_started", "run_left", "run_closed"} => run # "over"
    /\ event = "run_closed" => run = "closing"
    /\ event = "recheck_closed" => (asked' = "over" \/ ~promised')
    /\ event \in {"recheck_queued", "recheck_started", "recheck_closed"} => asked' # "none"
    /\ event = "recheck_queued" => ~promised

\* Nothing that has ended starts over, but the run of a review that owes its status.
Onwards ==
    /\ terminal => terminal'
    /\ status # "pending" => status' # "pending"
    /\ "closing" \in ripe => "closing" \in ripe'
    /\ asked # "none" => asked' # "none"
    /\ asked = "over" => asked' = "over"
    /\ run' = "closing" => run = "closing" \/ status' # "pending"
    /\ Settled => Settled'
    /\ promised' =>
          \/ promised
          \/ Settled /\ asked' # "none" /\ log' = Append(log, "recheck_queued")

\* Whoever writes moves on.
LEMMA StepGrows ==
    ASSUME LogInv, PromiseInv, [Next]_vars
    PROVE  log' = log \/ \E event \in Events : Grows(event)
<1>. USE DEF Grows, Written, WrittenOrLost
<1>0. {"terminal", "run_started", "run_left", "run_closed", "recheck_queued",
       "recheck_started", "recheck_closed"} \subseteq Events
  BY DEF Events, Marks
<1>1. OpenRun => log' = log \/ Grows("run_started")
  BY DEF OpenRun
<1>2. Finish \/ Stop => log' = log \/ Grows("terminal")
  BY DEF Finish, Stop
<1>3. Deliver => log' = log
  BY DEF Deliver
<1>4. CloseRun \/ RunDies => log' = log \/ Grows("run_closed")
  BY DEF CloseRun, RunDies
<1>5. LeaveRun => log' = log \/ Grows("run_left")
  BY DEF LeaveRun
<1>6. Request => log' = log \/ Grows("recheck_queued")
  BY DEF Request, PromiseInv
<1>7. Enqueue \/ EndRecheck \/ RecheckDies => log' = log \/ Grows("recheck_closed")
  BY DEF Enqueue, EndRecheck, RecheckDies
<1>8. TakeRecheck \/ Beat => log' = log \/ Grows("recheck_started")
  BY DEF TakeRecheck, Beat, recheck
<1>. HIDE DEF Grows
<1>. QED
  BY <1>0, <1>1, <1>2, <1>3, <1>4, <1>5, <1>6, <1>7, <1>8
     DEF Next, vars, Running, Rechecking, Streaming, Surroundings, TakeLock, CutShort, Sweep,
         Connect, Look, Drain, Check, Complete, Break, GraceRunsOut

\* No step takes the review back.
LEMMA StepOnwards ==
    ASSUME [Next]_vars
    PROVE  Onwards
<1>. USE DEF Onwards, Settled, recheck
<1>1. CASE Running
  BY <1>1 DEF Running, OpenRun, TakeLock, Finish, Deliver, CloseRun, LeaveRun, Sweep
<1>2. CASE Rechecking
  BY <1>2 DEF Rechecking, Enqueue, TakeRecheck, EndRecheck, Leased
<1>3. CASE Streaming
  BY <1>3 DEF Streaming, Connect, Look, Drain, Check, Complete
<1>4. CASE Surroundings
  <2>1. RunDies \/ CutShort \/ Stop => Onwards
    BY DEF RunDies, CutShort, Stop
  <2>2. Request => Onwards
    <3>1. Request => (promised' => Settled /\ log' = Append(log, "recheck_queued"))
      BY DEF Request, WrittenOrLost, Written
    <3>. QED
      BY <3>1 DEF Request
  <2>3. Beat \/ RecheckDies => Onwards
    BY DEF Beat, RecheckDies, Leased
  <2>4. Break => Onwards
    <3>1. Break => UNCHANGED <<terminal, status, run, recheck, ripe>>
      BY DEF Break
    <3>. QED
      BY <3>1
  <2>. QED
    BY <1>4, <2>1, <2>2, <2>3, <2>4 DEF Surroundings
<1>5. ASSUME NEW grace \in Graces, GraceRunsOut(grace)
      PROVE  Onwards
  BY <1>5 DEF GraceRunsOut
<1>6. CASE UNCHANGED vars
  BY <1>6 DEF vars
<1>. QED
  BY <1>1, <1>2, <1>3, <1>4, <1>5, <1>6 DEF Next

\* The log keeps what it holds.
LEMMA LogKept ==
    ASSUME TypeOK, LogInv, PromiseInv, [Next]_vars
    PROVE  /\ log' \in Seq(Events) /\ Len(log) <= Len(log')
           /\ DOMAIN log = 1..Len(log) /\ DOMAIN log' = 1..Len(log')
           /\ \A i \in DOMAIN log : i \in DOMAIN log' /\ log'[i] = log[i]
           /\ \A i \in DOMAIN log' \ DOMAIN log :
                 /\ \A j \in DOMAIN log' : j <= i
                 /\ Grows(log'[i])
<1>1. log \in Seq(Events) /\ DOMAIN log = 1..Len(log) /\ Len(log) \in Nat
  BY DEF TypeOK
<1>2. CASE log' = log
  BY <1>1, <1>2
<1>3. ASSUME NEW event \in Events, Grows(event)
      PROVE  /\ log' \in Seq(Events) /\ DOMAIN log' = 1..(Len(log) + 1)
             /\ \A i \in 1..Len(log) : log'[i] = log[i]
             /\ log'[Len(log) + 1] = event /\ Len(log') = Len(log) + 1
  BY <1>1, <1>3 DEF Grows
<1>4. log' = log \/ \E event \in Events : Grows(event)
  BY StepGrows
<1>5. ASSUME NEW event \in Events, Grows(event), NEW i \in DOMAIN log' \ DOMAIN log
      PROVE  i = Len(log) + 1 /\ log'[i] = event
  BY <1>1, <1>3, <1>5
<1>6. ASSUME NEW i \in DOMAIN log' \ DOMAIN log
      PROVE  (\A j \in DOMAIN log' : j <= i) /\ Grows(log'[i])
  <2>1. PICK event \in Events : Grows(event)
    BY <1>4, <1>6
  <2>2. i = Len(log) + 1 /\ log'[i] = event /\ DOMAIN log' = 1..(Len(log) + 1)
    BY <1>3, <1>5, <2>1
  <2>. QED
    BY <1>1, <2>1, <2>2
<1>. QED
  BY <1>1, <1>2, <1>3, <1>4, <1>6
-------------------------------------------------------------------------------
(***************************************************************************)
(* Its preservation                                                        *)
(***************************************************************************)

\* The invariant holds of an empty log and a dashboard that has not connected.
LEMMA InitInv == Init => IInv
<1>. SUFFICES ASSUME Init PROVE IInv
  OBVIOUS
<1>1. log \in Seq(Events) /\ DOMAIN log = {} /\ Len(log) = 0
  BY DEF Init
<1>2. reader \in ReaderType /\ reader.sent = 0 /\ reader.pc = "look"
  BY DEF Init, ReaderType, Statuses
<1>3. TypeOK
  <2>1. troubles \in 0..MaxTroubles /\ reader.sent <= Len(log)
    BY <1>1, <1>2, StreamAssumption DEF Init
  <2>2. /\ status \in Statuses /\ run \in RunStates /\ asked \in RecheckStates
        /\ terminal \in BOOLEAN /\ ripe \subseteq Graces /\ promised \in BOOLEAN
    BY DEF Init, RunStates, RecheckStates, Statuses
  <2>. QED
    BY <1>1, <1>2, <2>1, <2>2 DEF TypeOK
<1>4. LogInv
  BY <1>1 DEF Init, LogInv
<1>5. StreamInv
  BY <1>2 DEF StreamInv
<1>6. PromiseInv
  BY DEF Init, PromiseInv
<1>. QED
  BY <1>3, <1>4, <1>5, <1>6 DEF IInv

\* A reading of the log ends within it, and short of a whole batch at its end.
LEMMA UptoType ==
    ASSUME TypeOK
    PROVE  /\ Upto \in Nat /\ Upto <= Len(log)
           /\ Upto # reader.sent + Batch => Upto = Len(log)
<1>1. reader.sent \in Nat /\ Batch \in Nat /\ Len(log) \in Nat /\ reader.sent <= Len(log)
  BY StreamAssumption DEF TypeOK, ReaderType
<1>. QED
  BY <1>1 DEF Upto

\* Every step keeps the types.
LEMMA TypeStep == IInv /\ [Next]_vars => TypeOK'
<1>. SUFFICES ASSUME TypeOK, LogInv, PromiseInv, [Next]_vars PROVE TypeOK'
  BY DEF IInv
<1>. USE DEF TypeOK
<1>1. log' \in Seq(Events) /\ Len(log) <= Len(log') /\ Len(log') \in Nat /\ Len(log) \in Nat
  BY LogKept
<1>2. troubles' \in 0..MaxTroubles
  <2>1. troubles' = troubles \/ Trouble
    BY DEF Next, vars, Running, Rechecking, Streaming, Surroundings, OpenRun, TakeLock,
           Finish, Deliver, CloseRun, Enqueue, TakeRecheck, EndRecheck, Connect, Look,
           Drain, Check, Complete, RunDies, CutShort, LeaveRun, Sweep, Stop, Request, Beat,
           RecheckDies, Break, GraceRunsOut, WrittenOrLost
  <2>. QED
    BY <2>1, StreamAssumption DEF Trouble
<1>3. reader' \in ReaderType /\ reader'.sent <= Len(log')
  <2>1. CASE UNCHANGED reader
    BY <1>1, <2>1 DEF ReaderType
  <2>2. CASE Connect \/ Look \/ Check \/ Complete
    <3>1. reader' \in ReaderType /\ reader'.sent = reader.sent
      BY <2>2 DEF Connect, Look, Check, Complete, ReaderType, Statuses
    <3>. QED
      BY <1>1, <3>1 DEF ReaderType
  <2>3. CASE Drain
    <3>1. reader' \in ReaderType /\ reader'.sent = Upto
      BY <2>3, UptoType DEF Drain, ReaderType
    <3>. QED
      BY <1>1, <3>1, UptoType
  <2>4. CASE Break
    <3>1. PICK lost \in 0..Batch :
              /\ lost <= reader.sent
              /\ reader' = [reader EXCEPT !.pc = "away", !.sent = @ - lost, !.ended = FALSE]
      BY <2>4 DEF Break
    <3>2. reader.sent \in Nat /\ lost \in Nat
      BY StreamAssumption DEF ReaderType
    <3>3. reader.sent - lost \in Nat /\ reader.sent - lost <= Len(log)
      BY <1>1, <3>1, <3>2
    <3>4. reader' \in ReaderType /\ reader'.sent = reader.sent - lost
      BY <3>1, <3>3 DEF ReaderType
    <3>. QED
      BY <1>1, <3>3, <3>4
  <2>. QED
    BY <2>1, <2>2, <2>3, <2>4
       DEF Next, vars, Running, Rechecking, Streaming, Surroundings, OpenRun, TakeLock,
           Finish, Deliver, CloseRun, Enqueue, TakeRecheck, EndRecheck, RunDies, CutShort,
           LeaveRun, Sweep, Stop, Request, Beat, RecheckDies, GraceRunsOut
<1>4. /\ terminal' \in BOOLEAN /\ status' \in Statuses /\ run' \in RunStates
      /\ asked' \in RecheckStates /\ promised' \in BOOLEAN /\ ripe' \subseteq Graces
  <2>. USE DEF recheck, RunStates, RecheckStates, Statuses
  <2>1. CASE Running
    BY <2>1 DEF Running, OpenRun, TakeLock, Finish, Deliver, CloseRun, LeaveRun, Sweep
  <2>2. CASE Rechecking
    BY <2>2 DEF Rechecking, Enqueue, TakeRecheck, EndRecheck, Leased
  <2>3. CASE Streaming \/ Break
    BY <2>3 DEF Streaming, Connect, Look, Drain, Check, Complete, Break
  <2>4. CASE RunDies \/ CutShort \/ Stop \/ Beat \/ RecheckDies
    BY <2>4 DEF RunDies, CutShort, Stop, Beat, RecheckDies, Leased
  <2>5. CASE Request
    BY <2>5 DEF Request
  <2>6. ASSUME NEW grace \in Graces, GraceRunsOut(grace)
        PROVE  UNCHANGED <<terminal, status, run, recheck>> /\ ripe' \subseteq Graces
    BY <2>6 DEF GraceRunsOut
  <2>7. CASE UNCHANGED vars
    BY <2>7 DEF vars
  <2>. QED
    BY <2>1, <2>2, <2>3, <2>4, <2>5, <2>6, <2>7 DEF Next, Surroundings
<1>. QED
  BY <1>1, <1>2, <1>3, <1>4

\* Every step keeps what the log says of its writers.
LEMMA LogStep == IInv /\ [Next]_vars => LogInv'
<1>. SUFFICES ASSUME IInv, [Next]_vars PROVE LogInv'
  OBVIOUS
<1>1. TypeOK /\ LogInv /\ PromiseInv
  BY DEF IInv
<1>2. Onwards
  BY StepOnwards
<1>3. /\ \A i \in DOMAIN log : i \in DOMAIN log' /\ log'[i] = log[i]
      /\ \A i \in DOMAIN log' \ DOMAIN log : Grows(log'[i])
  BY <1>1, LogKept
<1>4. run' = "closing" => status' # "pending"
  BY <1>1, <1>2 DEF LogInv, Onwards
<1>5. ASSUME NEW i \in DOMAIN log'
      PROVE  /\ log'[i] = "terminal" => terminal'
             /\ log'[i] = "run_closed" => status' # "pending"
             /\ log'[i] \in {"recheck_queued", "recheck_started", "recheck_closed"}
                   => asked' # "none"
  BY <1>1, <1>2, <1>3 DEF LogInv, Onwards, Grows
<1>. QED
  BY <1>4, <1>5 DEF LogInv

\* Every step keeps the promise of a recheck, or takes it back.
LEMMA PromiseStep == IInv /\ [Next]_vars => PromiseInv'
<1>. SUFFICES ASSUME IInv, [Next]_vars, promised' PROVE PromiseInv'
  BY DEF PromiseInv
<1>1. TypeOK /\ LogInv /\ PromiseInv
  BY DEF IInv
<1>2. Onwards
  BY StepOnwards
<1>3. /\ \A i \in DOMAIN log : i \in DOMAIN log' /\ log'[i] = log[i]
      /\ \A i \in DOMAIN log' \ DOMAIN log :
            /\ \A j \in DOMAIN log' : j <= i
            /\ Grows(log'[i])
      /\ DOMAIN log = 1..Len(log) /\ DOMAIN log' = 1..Len(log') /\ Len(log) \in Nat
  BY <1>1, LogKept DEF TypeOK
<1>4. CASE promised
  <2>1. Settled' /\ asked' # "none" /\ run = "over"
    BY <1>1, <1>2, <1>4 DEF PromiseInv, Onwards, Settled
  <2>2. PICK q \in DOMAIN log : Held(q)
    BY <1>1, <1>4 DEF PromiseInv
  <2>3. q \in DOMAIN log' /\ log'[q] = "recheck_queued"
    BY <1>3, <2>2 DEF Held
  <2>4. ASSUME NEW j \in DOMAIN log', j > q
        PROVE  /\ log'[j] \notin {"run_started", "run_left", "run_closed"}
               /\ log'[j] = "recheck_closed" => asked' = "over"
    <3>1. CASE j \in DOMAIN log
      BY <1>2, <1>3, <2>2, <2>4, <3>1 DEF Held, Onwards
    <3>2. CASE j \notin DOMAIN log
      BY <1>3, <2>1, <3>2 DEF Grows
    <3>. QED
      BY <3>1, <3>2
  <2>5. Held(q)'
    BY <2>3, <2>4 DEF Held
  <2>. QED
    BY <2>1, <2>3, <2>5 DEF PromiseInv
<1>5. CASE ~promised
  <2>1. Settled' /\ asked' # "none" /\ log' = Append(log, "recheck_queued")
    BY <1>2, <1>5 DEF Onwards
  <2>2. PICK q \in DOMAIN log' :
            log'[q] = "recheck_queued" /\ \A j \in DOMAIN log' : j <= q
    <3>1. Len(log) + 1 \in DOMAIN log' /\ log'[Len(log) + 1] = "recheck_queued"
      BY <1>1, <1>3, <2>1 DEF TypeOK
    <3>2. \A j \in DOMAIN log' : j <= Len(log) + 1
      BY <1>1, <1>3, <2>1 DEF TypeOK
    <3>. QED
      BY <3>1, <3>2
  <2>3. \A j \in DOMAIN log' : ~(j > q)
    BY <1>3, <2>2
  <2>4. Held(q)'
    BY <2>2, <2>3 DEF Held
  <2>. QED
    BY <2>1, <2>2, <2>4 DEF PromiseInv
<1>. QED
  BY <1>4, <1>5

\* The newest mark, if there is one, is a mark no other follows.
LEMMA NewestMark ==
    ASSUME TypeOK
    PROVE  \/ Places = {} /\ Marker = "none"
           \/ \E i \in Places : Marker = log[i] /\ \A j \in Places : j <= i
<1>. DEFINE below == OpToRel(<, Nat)
<1>1. IsWellFoundedOn(below, Nat)
  BY NatLessThanWellFounded, Zenon DEF OpToRel
<1>2. \A x, y \in Nat : <<y, x>> \in below <=> y < x
  BY DEF OpToRel
<1>. HIDE DEF below
<1>3. Places \subseteq 1..Len(log) /\ Len(log) \in Nat
  BY DEF TypeOK, Places
<1>4. ASSUME Places # {} PROVE \E i \in Places : \A j \in Places : j <= i
  <2>. DEFINE gaps == {Len(log) - i : i \in Places}
  <2>1. gaps \subseteq Nat /\ gaps # {}
    <3>1. \A i \in Places : Len(log) - i \in Nat
      BY <1>3
    <3>. QED
      BY <1>4, <3>1
  <2>2. PICK gap \in gaps : \A other \in gaps : ~(<<other, gap>> \in below)
    BY <1>1, <2>1, WFMin
  <2>3. PICK i \in Places : gap = Len(log) - i
    OBVIOUS
  <2>4. ASSUME NEW j \in Places PROVE j <= i
    <3>1. Len(log) - j \in gaps
      OBVIOUS
    <3>2. ~(Len(log) - j < gap)
      BY <1>2, <2>1, <2>2, <3>1
    <3>. QED
      BY <1>3, <2>3, <3>2
  <2>. QED
    BY <2>4
<1>. QED
  BY <1>4 DEF Marker

\* The run's own end is what closes a stream nobody asked a recheck of.
LEMMA ClosedIsSettled ==
    ASSUME TypeOK, LogInv, terminal, ~Closing, Bracketed
    PROVE  status # "pending" \/ "closing" \in ripe
<1>1. PICK k \in DOMAIN log :
          log[k] = "run_started" /\ \A j \in DOMAIN log : j > k => log[j] # "run_left"
  BY DEF Bracketed, EndedOpen
<1>2. k \in Places
  BY <1>1 DEF Places, Marks
<1>3. PICK i \in Places : Marker = log[i] /\ \A j \in Places : j <= i
  BY <1>2, NewestMark
<1>4. i \in DOMAIN log /\ DOMAIN log \subseteq Int /\ log[i] # "run_left"
  BY <1>1, <1>2, <1>3 DEF Places, TypeOK
<1>5. log[i] \in {"run_started", "run_closed"}
  BY <1>4 DEF Places, Marks, LogInv, Bracketed
<1>. QED
  BY <1>3, <1>4, <1>5 DEF Closing, LogInv

\* Every step keeps what the stream knows of the review's end.
LEMMA StreamStep == IInv /\ [Next]_vars => StreamInv'
<1>. SUFFICES ASSUME IInv, [Next]_vars PROVE StreamInv'
  OBVIOUS
<1>1. TypeOK /\ LogInv /\ PromiseInv /\ StreamInv
  BY DEF IInv
<1>2. Onwards
  BY StepOnwards
<1>3. /\ \A i \in DOMAIN log : i \in DOMAIN log' /\ log'[i] = log[i]
      /\ \A i \in DOMAIN log' \ DOMAIN log :
            /\ \A j \in DOMAIN log' : j <= i
            /\ Grows(log'[i])
      /\ DOMAIN log' \subseteq Int
  BY <1>1, LogKept
\* Once the review has ended the log gets no second end.
<1>4. ASSUME terminal
      PROVE  \A i \in DOMAIN log' : log'[i] = "terminal" => i \in DOMAIN log /\ log[i] = "terminal"
  BY <1>3, <1>4 DEF Grows
<1>5. ASSUME terminal, Bracketed' PROVE Bracketed
  <2>1. asked = "none"
    BY <1>2, <1>5 DEF Onwards, Bracketed
  <2>2. PICK i, j \in DOMAIN log' :
            /\ i < j /\ log'[i] = "run_started" /\ log'[j] = "terminal"
            /\ \A k \in DOMAIN log' : k > i => log'[k] # "run_left"
    BY <1>5 DEF Bracketed, EndedOpen
  <2>3. j \in DOMAIN log /\ log[j] = "terminal"
    BY <1>4, <1>5, <2>2
  <2>4. i \in DOMAIN log /\ log[i] = "run_started"
    BY <1>3, <2>2, <2>3
  <2>5. \A k \in DOMAIN log : k > i => log[k] # "run_left"
    BY <1>3, <2>2
  <2>. QED
    BY <2>1, <2>2, <2>3, <2>4, <2>5 DEF Bracketed, EndedOpen
<1>6. ASSUME UNCHANGED reader PROVE StreamInv'
  BY <1>1, <1>2, <1>4, <1>5, <1>6 DEF StreamInv, AllSent, Onwards
<1>7. CASE Streaming
  <2>. USE DEF TypeOK, ReaderType
  <2>0. UNCHANGED <<log, terminal, status, asked, ripe>>
    BY <1>7 DEF recheck, Streaming, Connect, Look, Drain, Check, Complete
  <2>1. CASE Connect
    <3>1. reader'.pc = "look"
      BY <1>1, <2>1 DEF Connect
    <3>. QED
      BY <3>1 DEF StreamInv
  <2>2. CASE Look
    <3>1. reader'.pc = "drain" /\ reader'.ended = terminal
      BY <1>1, <2>2 DEF Look
    <3>. QED
      BY <2>0, <3>1 DEF StreamInv
  <2>3. CASE Drain
    <3>1. /\ reader.pc = "drain" /\ reader'.sent = Upto /\ reader'.ended = reader.ended
          /\ reader'.pc = IF Upto = reader.sent + Batch THEN "look" ELSE "check"
      BY <1>1, <2>3 DEF Drain
    <3>2. CASE Upto = reader.sent + Batch
      BY <3>1, <3>2 DEF StreamInv
    <3>3. CASE Upto # reader.sent + Batch
      <4>1. reader'.sent = Len(log)
        BY <1>1, <3>1, <3>3, UptoType
      <4>. QED
        BY <1>1, <2>0, <3>1, <3>3, <4>1 DEF StreamInv, AllSent
    <3>. QED
      BY <3>2, <3>3
  <2>4. CASE Check
    <3>1. /\ reader.pc = "check" /\ reader'.sent = reader.sent /\ ~reader'.ended
          /\ reader'.pc = IF reader.ended /\ ~Closing THEN "last" ELSE "look"
      BY <1>1, <2>4 DEF Check
    <3>2. CASE reader.ended /\ ~Closing
      <4>1. terminal /\ AllSent /\ AllSent'
        BY <1>1, <2>0, <3>1, <3>2 DEF StreamInv, AllSent
      <4>2. Bracketed' => status' # "pending" \/ "closing" \in ripe'
        BY <1>1, <1>5, <2>0, <3>2, <4>1, ClosedIsSettled
      <4>. QED
        BY <2>0, <3>1, <3>2, <4>1, <4>2 DEF StreamInv
    <3>3. CASE ~(reader.ended /\ ~Closing)
      BY <3>1, <3>3 DEF StreamInv
    <3>. QED
      BY <3>2, <3>3
  <2>5. CASE Complete
    <3>1. reader.pc = "last" /\ reader'.pc = "complete" /\ reader'.shows = status
          /\ reader'.sent = reader.sent
      BY <1>1, <2>5 DEF Complete
    <3>. QED
      BY <1>1, <1>5, <2>0, <3>1 DEF StreamInv, AllSent
  <2>. QED
    BY <1>7, <2>1, <2>2, <2>3, <2>4, <2>5 DEF Streaming
<1>8. CASE Break
  <2>1. reader'.pc = "away"
    BY <1>1, <1>8 DEF Break, TypeOK, ReaderType
  <2>. QED
    BY <2>1 DEF StreamInv
<1>. QED
  BY <1>6, <1>7, <1>8
     DEF Next, vars, Running, Rechecking, Surroundings, OpenRun, TakeLock, Finish,
         Deliver, CloseRun, Enqueue, TakeRecheck, EndRecheck, RunDies, CutShort,
         LeaveRun, Sweep, Stop, Request, Beat, RecheckDies, GraceRunsOut

\* The invariant holds in every reachable state.
LEMMA Invariance == Spec => []IInv
<1>1. IInv /\ [Next]_vars => IInv'
  BY TypeStep, LogStep, PromiseStep, StreamStep DEF IInv
<1>. QED
  BY <1>1, InitInv, PTL DEF Spec
-------------------------------------------------------------------------------
(***************************************************************************)
(* The theorems                                                            *)
(***************************************************************************)

\* Every variable keeps its type, and no dashboard is ahead of the log.
THEOREM TypeCorrect == Spec => []TypeOK
<1>1. IInv => TypeOK
  BY DEF IInv
<1>. QED
  BY <1>1, Invariance, PTL

\* A "complete" is true of its picture (events.py:85): every event up to the end
\* was sent, and the status of a review whose run was open when it ended and was
\* not cut short since is settled, unless the grace has run out.
THEOREM CompleteIsTrueAlways == Spec => []CompleteIsTrue
<1>1. IInv => CompleteIsTrue
  BY DEF IInv, StreamInv, AllSent, Bracketed, CompleteIsTrue
<1>. QED
  BY <1>1, Invariance, PTL

\* activity.py:206-211: a recheck of a review with nothing left to run or deliver
\* holds the stream from its request until it has ended or is cut short, as long as
\* its lease is good.
THEOREM RecheckIsSeenAlways == Spec => RecheckIsSeen
<1>1. ASSUME IInv, [Next]_vars PROVE [RecheckHolds]_vars
  <2>. SUFFICES ASSUME reader.pc = "check", reader'.pc = "last", promised,
                       asked \notin {"none", "over"}, ~RecheckLate
                PROVE  FALSE
    BY DEF RecheckHolds
  <2>1. TypeOK /\ LogInv /\ PromiseInv
    BY <1>1 DEF IInv
  <2>2. ~Closing
    <3>1. CASE Streaming
      BY <2>1, <3>1 DEF Streaming, Connect, Look, Drain, Check, Complete, TypeOK, ReaderType
    <3>2. CASE Break
      BY <2>1, <3>2 DEF Break, TypeOK, ReaderType
    <3>3. CASE UNCHANGED reader
      BY <3>3
    <3>. QED
      BY <1>1, <3>1, <3>2, <3>3
         DEF Next, vars, Running, Rechecking, Surroundings, OpenRun, TakeLock, Finish,
             Deliver, CloseRun, Enqueue, TakeRecheck, EndRecheck, RunDies, CutShort,
             LeaveRun, Sweep, Stop, Request, Beat, RecheckDies, GraceRunsOut
  <2>3. PICK q \in DOMAIN log : Held(q)
    BY <2>1 DEF PromiseInv
  <2>4. q \in Places
    BY <2>3 DEF Held, Places, Marks
  <2>5. PICK i \in Places : Marker = log[i] /\ \A j \in Places : j <= i
    BY <2>1, <2>4, NewestMark
  <2>6. i \in DOMAIN log /\ DOMAIN log \subseteq Int /\ q <= i
    BY <2>1, <2>4, <2>5 DEF Places, TypeOK
  \* The newest mark is not before the request's, so it is the recheck's own.
  <2>7. i = q \/ i > q
    BY <2>6
  <2>8. log[i] \in {"recheck_queued", "recheck_started"}
    BY <2>3, <2>5, <2>6, <2>7 DEF Held, Places, Marks
  <2>. QED
    BY <2>2, <2>5, <2>8 DEF Closing, RecheckLate
<1>. QED
  BY <1>1, Invariance, PTL DEF Spec, RecheckIsSeen
-------------------------------------------------------------------------------
(***************************************************************************)
(* Accounts: logins, sessions and saved credentials                        *)
(***************************************************************************)

\* What a management transaction saw when it began stays true until it commits:
\* it holds the lock, and nobody else changes a role or a state.
ManagedInv ==
    /\ \A m, n \in managing : m = n
    /\ \A m \in managing : Allowed(m)

\* The inductive invariant of Accounts.
AccountsInv ==
    /\ AccountsTypeOK
    /\ ManagedInv
    /\ LastAdmin
    /\ SessionsAreCurrent
    /\ CredentialsNeedOwner

\* The roles and states of accounts, which decide who is an admin.
SameStanding ==
    \A u \in Users : account'[u].state = account[u].state /\ account'[u].role = account[u].role

-------------------------------------------------------------------------------
\* Initially there is no account, hence no session and no credential.
LEMMA AccountsInitInv == AccountsInit => AccountsInv
  BY DEF AccountsInit, AccountsInv, AccountsTypeOK, ManagedInv, LastAdmin, SessionsAreCurrent,
         CredentialsNeedOwner, Exists, Accounts, Roles, Keys, Jobs

\* A step that leaves roles and states alone leaves the admins what they are.
LEMMA StandingKept ==
  ASSUME AccountsInv, SameStanding
  PROVE  LastAdmin' /\ \A r \in Jobs : Allowed(r)' <=> Allowed(r)
  BY DEF AccountsInv, LastAdmin, SameStanding, Allowed, Admin, Exists, Jobs

\* A password of an account is set: all its sessions end.
LEMMA PasswordSet ==
  ASSUME AccountsInv, NEW u \in Users, passwords' = passwords + 1,
         account' = [account EXCEPT ![u].password = passwords + 1],
         sessions' = {s \in sessions : s.user # u}, saved' = saved
  PROVE  /\ SameStanding /\ SessionsAreCurrent' /\ CredentialsNeedOwner'
         /\ account' \in [Users -> Accounts] /\ sessions' \subseteq Keys
         /\ passwords' \in Nat
  <1>1. account \in [Users -> Accounts] /\ passwords \in Nat /\ sessions \subseteq Keys
    BY DEF AccountsInv, AccountsTypeOK
  <1>2. \A v \in Users : v # u => account'[v] = account[v]
    BY <1>1
  <1>3. /\ account'[u] = [account[u] EXCEPT !.password = passwords + 1]
        /\ account[u] \in Accounts
    BY <1>1
  <1>4. account'[u] \in Accounts /\ account'[u].state = account[u].state
        /\ account'[u].role = account[u].role /\ account'[u].password = passwords + 1
    BY <1>1, <1>3 DEF Accounts
  <1>5. account' \in [Users -> Accounts]
    BY <1>1, <1>4
  <1>6. SameStanding
    BY <1>2, <1>4 DEF SameStanding
  <1>7. SessionsAreCurrent'
    BY <1>1, <1>2 DEF AccountsInv, SessionsAreCurrent, Current, Key, Keys
  <1>8. CredentialsNeedOwner'
    BY <1>1, <1>2, <1>4 DEF AccountsInv, AccountsTypeOK, CredentialsNeedOwner
  <1> QED BY <1>1, <1>5, <1>6, <1>7, <1>8

\* An account is opened.
LEMMA OpenInv ==
  ASSUME AccountsInv, NEW u \in Users, NEW role \in Roles, Open(u, role), ~Exists(u),
         Free(u), role = "admin" \/ \E v \in Users : Admin(v)
  PROVE  AccountsInv'
  <1>1. account \in [Users -> Accounts] BY DEF AccountsInv, AccountsTypeOK
  <1>2. account' = [account EXCEPT ![u] = [state |-> "active", role |-> role, password |-> 0]]
    BY DEF Open
  <1>3. account'[u] = [state |-> "active", role |-> role, password |-> 0]
        /\ \A v \in Users : v # u => account'[v] = account[v]
    BY <1>1, <1>2
  <1>4. AccountsTypeOK'
    <2>1. account' \in [Users -> Accounts]
      BY <1>1, <1>2 DEF Accounts, Roles
    <2> QED BY <2>1 DEF AccountsInv, AccountsTypeOK, Open, flights
  <1>5. ManagedInv'
    BY DEF Free, Open, ManagedInv
  <1>6. LastAdmin'
    <2>1. CASE role = "admin" BY <1>3, <2>1 DEF LastAdmin, Admin
    <2>2. CASE \E v \in Users : Admin(v)
      BY <1>3, <2>2 DEF LastAdmin, Admin, Exists
    <2> QED BY <2>1, <2>2
  <1>7. SessionsAreCurrent'
    BY <1>3 DEF AccountsInv, AccountsTypeOK, Open, Exists, SessionsAreCurrent, Current,
        Key, Keys
  <1>8. CredentialsNeedOwner'
    BY <1>3 DEF AccountsInv, AccountsTypeOK, Open, Exists, CredentialsNeedOwner
  <1> QED BY <1>4, <1>5, <1>6, <1>7, <1>8 DEF AccountsInv

\* A management transaction commits.
LEMMA CommitInv ==
  ASSUME AccountsInv, NEW m \in managing, CommitManage(m)
  PROVE  AccountsInv'
  <1> DEFINE a == account[m.user]
             b == account'[m.user]
  <1>1. /\ account \in [Users -> Accounts] /\ m \in Jobs /\ m.user \in Users
        /\ m.action \in Actions /\ a \in Accounts
    BY DEF AccountsInv, AccountsTypeOK, Jobs
  <1>2. b = Managed(a, m.action) /\ \A v \in Users : v # m.user => account'[v] = account[v]
    BY <1>1 DEF CommitManage
  <1>3. Allowed(m) /\ managing' = {}
    BY DEF AccountsInv, ManagedInv, CommitManage
  <1>4. /\ b \in Accounts /\ a.state \in {"active", "disabled"}
        /\ b.state # "none"
        /\ m.action \notin {"recovery", "remove"} =>
              b.state \in {"active", "disabled"} /\ b.password = a.password
        /\ m.action \notin Withdrawals /\ a.state = "active" /\ a.role = "admin" =>
              b.state = "active" /\ b.role = "admin"
    <2>1. a.state \in {"active", "disabled"}
      BY <1>3 DEF Allowed
    <2>2. CASE m.action = "promote"
      BY <1>1, <1>2, <2>1, <2>2 DEF Managed, Accounts, Roles, Withdrawals
    <2>3. CASE m.action = "demote"
      BY <1>1, <1>2, <2>1, <2>3 DEF Managed, Accounts, Roles, Withdrawals
    <2>4. CASE m.action = "enable"
      BY <1>1, <1>2, <2>1, <2>4 DEF Managed, Accounts, Roles, Withdrawals
    <2>5. CASE m.action = "disable"
      BY <1>1, <1>2, <2>1, <2>5 DEF Managed, Accounts, Roles, Withdrawals
    <2>6. CASE m.action = "recovery"
      BY <1>1, <1>2, <2>1, <2>6 DEF Managed, Accounts, Roles, Withdrawals
    <2>7. CASE m.action = "remove"
      BY <1>1, <1>2, <2>1, <2>7 DEF Managed, Accounts, Roles, Withdrawals
    <2>8. CASE m.action = "revoke_sessions"
      BY <1>1, <1>2, <2>1, <2>8 DEF Managed, Accounts, Roles, Withdrawals
    <2>9. m.action \in {"promote", "demote", "enable", "disable", "recovery", "remove",
                        "revoke_sessions"}
      BY <1>1 DEF Actions, Withdrawals
    <2> QED BY <2>2, <2>3, <2>4, <2>5, <2>6, <2>7, <2>8, <2>9 DEF Withdrawals
  <1>5. AccountsTypeOK'
    <2>1. account' \in [Users -> Accounts]
      BY <1>1, <1>4 DEF CommitManage
    <2>2. activating' \subseteq tokens'
      BY DEF AccountsInv, AccountsTypeOK, CommitManage
    <2> QED BY <1>1, <2>1, <2>2 DEF AccountsInv, AccountsTypeOK, CommitManage, flights
  <1>6. ManagedInv' BY <1>3 DEF ManagedInv
  <1>7. LastAdmin'
    <2>1. CASE m.action \in Withdrawals /\ Admin(m.user)
      <3>1. PICK v \in Users \ {m.user} : Admin(v)
        BY <1>3, <2>1 DEF Allowed
      <3> QED BY <1>2, <3>1 DEF LastAdmin, Admin
    <2>2. CASE ~(m.action \in Withdrawals /\ Admin(m.user))
      <3>1. Exists(m.user)
        BY <1>4 DEF Exists
      <3>2. PICK v \in Users : Admin(v)
        BY <1>1, <3>1 DEF AccountsInv, LastAdmin
      <3>3. Admin(v)'
        BY <1>2, <1>4, <2>2, <3>2 DEF Admin
      <3> QED BY <3>3 DEF LastAdmin
    <2> QED BY <2>1, <2>2
  <1>8. SessionsAreCurrent'
    BY <1>2 DEF AccountsInv, AccountsTypeOK, CommitManage, SessionsAreCurrent, Current,
        Key, Keys
  <1>9. CredentialsNeedOwner'
    <2> SUFFICES ASSUME NEW u \in saved'
                 PROVE  /\ account'[u].state \in {"active", "disabled"}
                        /\ account'[u].password # 0
      BY DEF CredentialsNeedOwner
    <2>1. u \in saved /\ u \in Users
      BY DEF AccountsInv, AccountsTypeOK, CommitManage
    <2>2. account[u].state \in {"active", "disabled"} /\ account[u].password # 0
      BY <2>1 DEF AccountsInv, CredentialsNeedOwner
    <2>3. CASE u = m.user
      <3>1. m.action \notin {"recovery", "remove"}
        BY <2>3 DEF CommitManage
      <3> QED BY <1>4, <2>2, <2>3, <3>1
    <2> QED BY <1>2, <2>1, <2>2, <2>3
  <1> QED BY <1>5, <1>6, <1>7, <1>8, <1>9 DEF AccountsInv
-------------------------------------------------------------------------------
\* Every step keeps the invariant.
LEMMA AccountsStepInv == AccountsInv /\ [AccountsNext]_accountsVars => AccountsInv'
  <1> SUFFICES ASSUME AccountsInv, [AccountsNext]_accountsVars PROVE AccountsInv' OBVIOUS
  <1>1. account \in [Users -> Accounts] BY DEF AccountsInv, AccountsTypeOK
  <1>2. ASSUME UNCHANGED <<account, sessions, saved>>, UNCHANGED managing, AccountsTypeOK'
        PROVE  AccountsInv'
    <2>1. SameStanding BY <1>2 DEF SameStanding
    <2>2. LastAdmin' /\ \A r \in Jobs : Allowed(r)' <=> Allowed(r)
      BY <2>1, StandingKept
    <2> QED BY <1>2, <2>2 DEF AccountsInv, AccountsTypeOK, ManagedInv, SessionsAreCurrent,
                               Current, Key, CredentialsNeedOwner
  <1>3. ASSUME NEW u \in Users, Bootstrap(u) PROVE AccountsInv'
    BY <1>3, OpenInv DEF Bootstrap, Roles
  <1>4. ASSUME NEW u \in Users, NEW role \in Roles, Create(u, role) PROVE AccountsInv'
    <2>1. \E v \in Users : Admin(v)
      <3>1. PICK s \in sessions : s.role = "admin"
        BY <1>4 DEF Create, AsAdmin
      <3>2. s.user \in Users /\ Current(s)
        BY <3>1 DEF AccountsInv, AccountsTypeOK, Keys, SessionsAreCurrent
      <3>3. Admin(s.user)
        BY <3>1, <3>2 DEF Current, Key, Admin
      <3> QED BY <3>2, <3>3
    <2> QED BY <1>4, <2>1, OpenInv DEF Create
  <1>5. ASSUME NEW u \in Users, StartActivation(u) \/ GiveUp(u) \/ ExpireToken(u)
        PROVE  AccountsInv'
    <2>1. AccountsTypeOK'
      BY <1>5 DEF StartActivation, GiveUp, ExpireToken, AccountsInv, AccountsTypeOK,
          people, flights
    <2>2. UNCHANGED <<account, sessions, saved>> /\ UNCHANGED managing
      BY <1>5 DEF StartActivation, GiveUp, ExpireToken, people
    <2> QED BY <1>2, <2>1, <2>2
  <1>6. ASSUME NEW u \in Users, Activate(u) PROVE AccountsInv'
    <2>1. CASE account[u].state = "active"
      <3>1. /\ SameStanding /\ SessionsAreCurrent' /\ CredentialsNeedOwner'
            /\ account' \in [Users -> Accounts] /\ sessions' \subseteq Keys
            /\ passwords' \in Nat
        BY <1>6, <2>1, PasswordSet DEF Activate
      <3>2. LastAdmin' /\ \A r \in Jobs : Allowed(r)' <=> Allowed(r)
        BY <3>1, StandingKept
      <3>3. AccountsTypeOK' BY <1>6, <2>1, <3>1 DEF AccountsInv, AccountsTypeOK, Activate, flights
      <3> QED BY <1>6, <3>1, <3>2, <3>3 DEF AccountsInv, AccountsTypeOK, ManagedInv, Activate
    <2>2. CASE account[u].state # "active"
      <3>1. AccountsTypeOK' BY <1>6, <2>2 DEF AccountsInv, AccountsTypeOK, Activate, flights
      <3> QED BY <1>2, <1>6, <2>2, <3>1 DEF Activate
    <2> QED BY <2>1, <2>2
  <1>7. ASSUME NEW u \in Users, VerifyLogin(u) \/ AskChange(u) \/ AskSave(u)
        PROVE  AccountsInv'
    <2>1. Key(u) \in Keys
      BY <1>1 DEF Key, Keys, Accounts
    <2>2. AccountsTypeOK'
      BY <1>7, <2>1 DEF VerifyLogin, AskChange, AskSave, AccountsInv, AccountsTypeOK,
          people, flights
    <2> QED BY <1>2, <1>7, <2>2 DEF VerifyLogin, AskChange, AskSave, people
  <1>8. ASSUME NEW u \in Users, Save(u) \/ Revoke(u) PROVE AccountsInv'
    <2>1. AccountsTypeOK'
      BY <1>8 DEF Save, Revoke, AccountsInv, AccountsTypeOK, flights
    <2>2. SameStanding /\ UNCHANGED <<account, sessions, managing>>
      BY <1>8 DEF Save, Revoke, SameStanding
    <2>3. LastAdmin' /\ \A r \in Jobs : Allowed(r)' <=> Allowed(r)
      BY <2>2, StandingKept
    <2>4. CredentialsNeedOwner'
      BY <1>8 DEF Save, Revoke, AccountsInv, CredentialsNeedOwner, Eligible
    <2>5. SessionsAreCurrent' /\ ManagedInv'
      BY <2>2, <2>3 DEF AccountsInv, AccountsTypeOK, SessionsAreCurrent, Current, Key,
          ManagedInv
    <2> QED BY <2>1, <2>3, <2>4, <2>5 DEF AccountsInv
  <1>9. ASSUME NEW r \in Jobs, Ask(r) PROVE AccountsInv'
    <2>1. AccountsTypeOK' BY <1>9 DEF Ask, AccountsInv, AccountsTypeOK, people, flights
    <2> QED BY <1>2, <1>9, <2>1 DEF Ask, people
  <1>10. ASSUME NEW r \in Jobs, BeginManage(r) PROVE AccountsInv'
    <2>1. AccountsTypeOK' BY <1>10 DEF BeginManage, AccountsInv, AccountsTypeOK, people, flights
    <2>2. UNCHANGED <<account, sessions, saved>>
      BY <1>10 DEF BeginManage, people
    <2>3. LastAdmin' /\ SessionsAreCurrent' /\ CredentialsNeedOwner'
      BY <2>2 DEF AccountsInv, LastAdmin, SessionsAreCurrent, CredentialsNeedOwner,
          Admin, Exists, Current, Key
    <2>4. ManagedInv'
      BY <1>10, <2>2 DEF BeginManage, Free, ManagedInv, Allowed, Admin
    <2> QED BY <2>1, <2>3, <2>4 DEF AccountsInv
  <1>11. ASSUME NEW m \in managing, CommitManage(m) PROVE AccountsInv'
    BY <1>11, CommitInv
  <1>12. ASSUME NEW k \in logins, Login(k) PROVE AccountsInv'
    <2>1. k \in Keys /\ UNCHANGED <<account, saved, managing>>
      BY <1>12 DEF Login, AccountsInv, AccountsTypeOK
    <2>2. sessions' \subseteq sessions \cup {k} /\ (k \in sessions' \ sessions => Current(k))
      BY <1>12 DEF Login
    <2>3. AccountsTypeOK' BY <1>12, <2>1, <2>2 DEF Login, AccountsInv, AccountsTypeOK
    <2>4. SessionsAreCurrent'
      BY <2>1, <2>2 DEF AccountsInv, SessionsAreCurrent, Current, Key
    <2>5. SameStanding BY <2>1 DEF SameStanding
    <2>6. LastAdmin' /\ \A r \in Jobs : Allowed(r)' <=> Allowed(r)
      BY <2>5, StandingKept
    <2> QED BY <2>1, <2>3, <2>4, <2>6 DEF AccountsInv, AccountsTypeOK, ManagedInv,
        CredentialsNeedOwner
  <1>13. ASSUME NEW s \in sessions, EndSession(s) PROVE AccountsInv'
    <2>1. UNCHANGED <<account, saved, managing>> /\ sessions' \subseteq sessions
      BY <1>13 DEF EndSession
    <2>2. AccountsTypeOK' BY <1>13 DEF EndSession, AccountsInv, AccountsTypeOK, flights
    <2>3. SessionsAreCurrent'
      BY <2>1 DEF AccountsInv, SessionsAreCurrent, Current, Key
    <2>4. SameStanding BY <2>1 DEF SameStanding
    <2>5. LastAdmin' /\ \A r \in Jobs : Allowed(r)' <=> Allowed(r)
      BY <2>4, StandingKept
    <2> QED BY <2>1, <2>2, <2>3, <2>5 DEF AccountsInv, AccountsTypeOK, ManagedInv,
        CredentialsNeedOwner
  <1>14. ASSUME NEW k \in changes, ChangePassword(k) PROVE AccountsInv'
    <2>0. k \in Keys /\ k.user \in Users BY <1>14 DEF AccountsInv, AccountsTypeOK, Keys
    <2>1. CASE account[k.user].state = "active" /\ account[k.user].password = k.password
      <3>1. /\ SameStanding /\ SessionsAreCurrent' /\ CredentialsNeedOwner'
            /\ account' \in [Users -> Accounts] /\ sessions' \subseteq Keys
            /\ passwords' \in Nat
        BY <1>14, <2>0, <2>1, PasswordSet DEF ChangePassword
      <3>2. LastAdmin' /\ \A r \in Jobs : Allowed(r)' <=> Allowed(r)
        BY <3>1, StandingKept
      <3>3. AccountsTypeOK' BY <1>14, <2>1, <3>1 DEF AccountsInv, AccountsTypeOK, ChangePassword
      <3> QED BY <1>14, <3>1, <3>2, <3>3 DEF AccountsInv, AccountsTypeOK, ManagedInv, ChangePassword
    <2>2. CASE ~(account[k.user].state = "active" /\ account[k.user].password = k.password)
      <3>1. AccountsTypeOK' BY <1>14, <2>2 DEF AccountsInv, AccountsTypeOK, ChangePassword
      <3> QED BY <1>2, <1>14, <2>2, <3>1 DEF ChangePassword
    <2> QED BY <2>1, <2>2
  <1>15. ASSUME UNCHANGED accountsVars PROVE AccountsInv'
    <2>1. AccountsTypeOK' BY <1>15 DEF accountsVars, AccountsInv, AccountsTypeOK
    <2> QED BY <1>2, <1>15, <2>1 DEF accountsVars
  <1> QED BY <1>3, <1>4, <1>5, <1>6, <1>7, <1>8, <1>9, <1>10, <1>11, <1>12, <1>13, <1>14, <1>15
          DEF AccountsNext

\* The invariant holds in every reachable state.
LEMMA AccountsInvariance == AccountsSpec => []AccountsInv
  BY AccountsInitInv, AccountsStepInv, PTL DEF AccountsSpec

-------------------------------------------------------------------------------
\* Every variable keeps its type.
THEOREM AccountsTypeCorrect == AccountsSpec => []AccountsTypeOK
  BY AccountsInvariance, PTL DEF AccountsInv

\* However many admins withdraw each other at once, one active admin remains.
THEOREM AdminRemains == AccountsSpec => []LastAdmin
  BY AccountsInvariance, PTL DEF AccountsInv

\* No session outlives the password, the role or the standing it was opened with.
THEOREM SessionsStayCurrent == AccountsSpec => []SessionsAreCurrent
  BY AccountsInvariance, PTL DEF AccountsInv

\* Recovery and removal leave no credential behind, whatever is under way.
THEOREM CredentialsStayOwned == AccountsSpec => []CredentialsNeedOwner
  BY AccountsInvariance, PTL DEF AccountsInv

===============================================================================
