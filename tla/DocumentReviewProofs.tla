------------------------- MODULE DocumentReviewProofs -------------------------
(***************************************************************************)
(* What DocumentReview promises of the page, for every set of findings,    *)
(* owners and requests and every bound: its types, what of the page stays  *)
(* single and under the cap however little a reading lists, and that a     *)
(* review which posts ends published only when each of its findings is     *)
(* accounted for.                                                          *)
(***************************************************************************)
EXTENDS DocumentReview, FiniteSetTheorems, TLAPS

\* Only an admitted request has a review, and only a review is run or acted on.
AdmittedInv ==
    /\ \A r \in Requests :
          /\ review[r].state # "none" => trigger[r].state = "admitted"
          /\ <<"run", r>> \in queue => review[r].state # "none"
    /\ job # Idle => review[job.r].state # "none"

\* What a run does next agrees with the mode it was asked for.
ModeInv ==
    Running =>
      LET mode == trigger[job.r].mode IN
      /\ job.pc = "reading" => mode = "applied" /\ job.todo = job.found \cup {Summary}
      /\ job.pc = "report" => mode = "none"
      /\ job.pc \in {"post", "posted"} => mode = "applied"
      /\ job.pc = "items" => mode \in {"draft", "applied"}

\* A run that puts its comments on the page, from its look at the page on.
Carrying == /\ Running /\ job.pc \in {"items", "post", "posted", "publishing"}
            /\ trigger[job.r].mode = "applied"

(***************************************************************************)
(* The run's picture of the page, against the page.  It is a relation of   *)
(* the job j, the owner's comments pg on the page, those of them ms that a *)
(* reading missed and those sp that the cap spares, the review's rows rw   *)
(* and the markers mk of its comments, so that what a step does to it is a *)
(* statement without primes.                                               *)
(***************************************************************************)
Names(r) == [k \in Keys |-> Marker(r, k)]
Naming(mk) == /\ \A k \in Keys : mk[k] \in Markers
              /\ \A k, l \in Keys : mk[k] = mk[l] => k = l
              /\ \A f \in Findings : mk[f] = f
              /\ mk[Summary] \notin Findings
Spared(o) == missed[o] \cup reopened[o]

\* The comments still to deal with, the finding posted but not yet taken off
\* the count of the room, the open findings that the cap is about, and the
\* findings on the page now or at some time while the run was at work.
WaitingOf(j) == j.todo \cup (IF j.pc = "post" THEN {j.key} ELSE {})
Pending(j) == IF j.pc = "posted" /\ j.key # Summary THEN 1 ELSE 0
Charged(pg, sp) == OpenIn(pg) \ sp
Seen(j, pg) == OpenIn(pg) \cup (j.gone \cap Findings)

\* What waits and was not listed is not on the page, or was missed.
Unposted(j, pg, ms, mk) ==
    \A k \in WaitingOf(j) : mk[k] \notin j.posted => pg[mk[k]] = "none" \/ mk[k] \in ms

\* What was listed is there, or was taken off since.
PostedSeen(j, pg) == \A m \in j.posted : pg[m] # "none" \/ m \in j.gone

\* What is dealt with reached the page, or found no room there.
Dealt(j, pg, rw, mk) ==
    \A k \in (j.found \cup {Summary}) \ WaitingOf(j) :
        \/ pg[mk[k]] # "none" \/ mk[k] \in j.gone
        \/ ~rw[k].eligible /\ Cardinality(Seen(j, pg)) >= Cap

UnderWay(j, mk) ==
    /\ j.pc = "post" => j.key \notin j.todo /\ mk[j.key] \notin j.posted
    /\ j.pc \in {"post", "posted"} => (j.key # Summary => j.slots > 0)
    /\ j.pc = "publishing" => j.todo = {}

\* The room it counts is no more than the cap leaves, and findings it listed as
\* open or posted take up the rest.
Fills(T, j, pg, mk) ==
    /\ T \subseteq Seen(j, pg) /\ Cardinality(T) + j.slots >= Cap + Pending(j)
    /\ \A k \in WaitingOf(j) : mk[k] \notin j.posted => mk[k] \notin T
Room(j, pg, sp, mk) ==
    j.pc # "publishing" =>
      /\ Cardinality(Charged(pg, sp)) + j.slots <= Cap + Pending(j)
      /\ \E T \in SUBSET Findings : Fills(T, j, pg, mk)

Agrees(j, pg, ms, sp, rw, mk) ==
    /\ Unposted(j, pg, ms, mk) /\ PostedSeen(j, pg) /\ Dealt(j, pg, rw, mk)
    /\ UnderWay(j, mk) /\ Room(j, pg, sp, mk)

PostInv ==
    Carrying => LET o == Owner(job.r) IN
                Agrees(job, page[o], missed[o], Spared(o), rows[job.r], Names(job.r))

\* A draft about to be published is not on the page or was missed there, and
\* has room.
ActInv ==
    Acting("publish") =>
      /\ Has(job.r, job.key) => Marker(job.r, job.key) \in missed[Owner(job.r)]
      /\ job.key # Summary =>
           Cardinality(Charged(page[Owner(job.r)], Spared(Owner(job.r)))) < Cap

IInv == /\ TypeOK /\ AdmittedInv /\ ModeInv
        /\ OnceOnPage /\ CommentCap /\ PostInv /\ ActInv
-----------------------------------------------------------------------------
(***************************************************************************)
(* Markers, reviews and the count of open findings                         *)
(***************************************************************************)

\* A marker names one comment of a review; only findings have theirs among findings.
LEMMA Marking ==
    ASSUME TypeOK, NEW r \in Requests, review[r].state # "none", NEW k \in Keys
    PROVE  /\ Marker(r, k) \in Markers
           /\ (k = Summary) => Marker(r, k) \notin Findings
           /\ (k # Summary) => Marker(r, k) = k /\ k \in Findings
           /\ \A j \in Keys : Marker(r, j) = Marker(r, k) => j = k
<1>1. review[r] \in ReviewType
  BY DEF TypeOK
<1>2. review[r].version \in 1..MaxVersion
  BY <1>1 DEF ReviewType, Terminal
<1>3. review[r].version \in Nat /\ review[r].version \notin Findings
  BY <1>2, DocumentAssumption
<1> QED
  BY <1>2, <1>3, DocumentAssumption DEF Marker, Markers, Keys

\* The comments of a review that started have an owner, and a mode asked for.
LEMMA Asked ==
    ASSUME TypeOK, AdmittedInv, NEW r \in Requests, review[r].state # "none"
    PROVE  Owner(r) \in Owners /\ trigger[r].mode \in Modes
<1>1. trigger[r].state = "admitted" /\ trigger[r] \in TriggerType
  BY DEF AdmittedInv, TypeOK
<1> QED
  BY <1>1 DEF TriggerType, Owner

\* Sets of findings are finite, and a subset has no more of them.
LEMMA Finite ==
    ASSUME NEW S \in SUBSET Findings, NEW T \in SUBSET S
    PROVE  /\ IsFiniteSet(S) /\ Cardinality(S) \in Nat
           /\ IsFiniteSet(T) /\ Cardinality(T) \in Nat
           /\ Cardinality(T) <= Cardinality(S)
<1>1. IsFiniteSet(S)
  BY FS_Subset, DocumentAssumption
<1> QED
  BY <1>1, FS_Subset, FS_CardinalityType

\* One more finding makes one more at most.
LEMMA OneMore ==
    ASSUME NEW S \in SUBSET Findings, NEW f \in Findings, NEW T, T \subseteq S \cup {f}
    PROVE  Cardinality(T) <= Cardinality(S) + 1
<1>1. IsFiniteSet(S) /\ Cardinality(S) \in Nat
  BY Finite
<1>2. /\ IsFiniteSet(S \cup {f})
      /\ Cardinality(S \cup {f}) = IF f \in S THEN Cardinality(S) ELSE Cardinality(S) + 1
  BY <1>1, FS_AddElement
<1>3. S \cup {f} \in SUBSET Findings /\ T \in SUBSET (S \cup {f})
  OBVIOUS
<1>4. /\ Cardinality(T) <= Cardinality(S \cup {f}) /\ Cardinality(T) \in Nat
      /\ Cardinality(S \cup {f}) \in Nat
  BY <1>3, Finite
<1> QED
  BY <1>1, <1>2, <1>4

\* A listing shows no comment that is not on the page, and of those it shows
\* which are open.
LEMMA ListingSound ==
    ASSUME TypeOK, NEW o \in Owners, NEW list \in Listings(o)
    PROVE  /\ list \in [Markers -> {"none", "open", "resolved", "twice"}]
           /\ \A m \in Markers :
                /\ list[m] # "none" => page[o][m] # "none"
                /\ list[m] \in {"open", "twice"} => page[o][m] \in {"open", "twice"}
                /\ page[o][m] \in {"open", "twice"} => list[m] \in {"none", "open", "twice"}
<1>1. page[o] \in [Markers -> {"none", "open", "resolved", "twice"}]
  BY DEF TypeOK
<1>2. PICK listed \in SUBSET On(o), single \in SUBSET {m \in On(o) : page[o][m] = "twice"} :
         list = Listing(o, listed, single)
  BY DEF Listings
<1>3. list = [m \in Markers |-> IF m \notin listed THEN "none"
                                ELSE IF m \in single THEN "open" ELSE page[o][m]]
  BY <1>2 DEF Listing
<1>4. ASSUME NEW m \in Markers
      PROVE  /\ list[m] \in {"none", "open", "resolved", "twice"}
             /\ list[m] # "none" => page[o][m] # "none"
             /\ list[m] \in {"open", "twice"} => page[o][m] \in {"open", "twice"}
             /\ page[o][m] \in {"open", "twice"} => list[m] \in {"none", "open", "twice"}
  BY <1>1, <1>2, <1>3 DEF On
<1> QED
  BY <1>3, <1>4

\* After a reading the cap is about listed findings only.
LEMMA ListingCounts ==
    ASSUME TypeOK, NEW o \in Owners, NEW list \in Listings(o), Miss(o, list),
           UNCHANGED <<page, reopened>>
    PROVE  /\ OpenIn(list) \subseteq OpenOf(o)
           /\ Charged(page[o], Spared(o)') \subseteq OpenIn(list)
           /\ \A m \in Markers : list[m] = "none" /\ page[o][m] # "none" => m \in missed'[o]
<1>1. Findings \subseteq Markers
  BY DEF Markers
<1>2. missed'[o] = missed[o] \cup Unlisted(o, list)
  BY DEF TypeOK, Miss
<1>3. \A m \in Markers : list[m] = "none" /\ page[o][m] # "none" => m \in missed'[o]
  BY <1>2 DEF Unlisted
<1>4. OpenIn(list) \subseteq OpenOf(o)
  BY <1>1, ListingSound DEF OpenIn, OpenOf
<1>5. Charged(page[o], Spared(o)') \subseteq OpenIn(list)
  BY <1>1, <1>3, ListingSound DEF OpenIn, Charged, Spared
<1> QED
  BY <1>3, <1>4, <1>5

\* The room of a listing is what the cap leaves beside its open findings.
LEMMA SlotsCounted ==
    ASSUME NEW list
    PROVE  /\ Slots(list) \in Nat /\ Cardinality(OpenIn(list)) \in Nat
           /\ Cardinality(OpenIn(list)) + Slots(list) >= Cap
           /\ Slots(list) > 0 => Cardinality(OpenIn(list)) + Slots(list) = Cap
<1>1. Cardinality(OpenIn(list)) \in Nat /\ Cap \in Nat
  BY Finite, DocumentAssumption DEF OpenIn
<1> QED
  BY <1>1 DEF Slots

\* A job is one of a review.
LEMMA JobOfReview ==
    ASSUME TypeOK, AdmittedInv, job # Idle
    PROVE  /\ job.r \in Requests /\ review[job.r].state # "none"
           /\ Owner(job.r) \in Owners /\ trigger[job.r].mode \in Modes
<1>1. job \in JobType
  BY DEF TypeOK
<1>2. job.r \in Requests
  BY <1>1 DEF JobType, Work
<1>3. review[job.r].state # "none"
  BY DEF AdmittedInv
<1> QED
  BY <1>2, <1>3, Asked

\* The fields of a run at its comments.
LEMMA AtWork ==
    ASSUME TypeOK, Running,
           job.pc \in {"reading", "items", "post", "posted", "report", "publishing"}
    PROVE  /\ job \in Work
           /\ job.r \in Requests /\ job.found \subseteq Findings /\ job.found \in Selections
           /\ job.todo \subseteq Keys /\ job.posted \subseteq Markers
           /\ job.slots \in Nat /\ job.key \in Keys /\ job.gone \subseteq Markers
<1>1. job \in JobType
  BY DEF TypeOK
<1>2. job \in Work
  BY <1>1 DEF JobType, Running, Work
<1> QED
  BY <1>2 DEF Work, Selections
-----------------------------------------------------------------------------
(***************************************************************************)
(* A review that started keeps its request and its version                 *)
(***************************************************************************)

Started(r) == review[r].state # "none"
Lasting(r) == /\ review'[r].state # "none" /\ trigger'[r] = trigger[r]
              /\ review'[r].version = review[r].version

\* Admission begins one review and leaves those already begun where they were.
LEMMA AcceptKeeps ==
    ASSUME IInv, NEW q \in Requests, trigger[q].state = "queued", Accept(q)
    PROVE  /\ \A r \in Requests : Started(r) => Lasting(r)
           /\ \A r \in Requests : Started(r)' => r = q \/ Started(r)
           /\ trigger'[q].state = "admitted" /\ Started(q)'
           /\ trigger' \in [Requests -> TriggerType] /\ review' \in [Requests -> ReviewType]
<1> USE DEF IInv
<1>1. trigger \in [Requests -> TriggerType] /\ review \in [Requests -> ReviewType]
  BY DEF TypeOK
<1>2. review[q].state = "none"
  BY DEF AdmittedInv
<1>3. trigger' = [trigger EXCEPT ![q].state = "admitted"]
  BY DEF Accept
<1>4. trigger[q] \in TriggerType /\ [trigger[q] EXCEPT !.state = "admitted"] \in TriggerType
      /\ [trigger[q] EXCEPT !.state = "admitted"].state = "admitted"
  BY <1>1 DEF TriggerType
<1>5. trigger' \in [Requests -> TriggerType] /\ trigger'[q].state = "admitted"
      /\ \A r \in Requests : r # q => trigger'[r] = trigger[r]
  BY <1>1, <1>3, <1>4
<1>6. version \in 1..MaxVersion
  BY DEF TypeOK
<1>7. ASSUME NEW r \in Requests
      PROVE  /\ review'[r] \in ReviewType
             /\ Started(r) => review'[r].state # "none" /\ review'[r].version = review[r].version
             /\ Started(r)' => r = q \/ Started(r)
             /\ r = q => Started(r)'
  <2>1. review[r] \in ReviewType
    BY <1>1
  <2>2. review'[r] = IF r = q THEN [state |-> "working", version |-> version,
                                    delivered |-> FALSE, report |-> {}]
                     ELSE IF r \in Active THEN [review[r] EXCEPT !.state = "superseded"]
                     ELSE review[r]
    BY DEF Accept
  <2>3. CASE r = q
    BY <2>2, <2>3, <1>6, <1>2 DEF ReviewType, Started
  <2>4. CASE r # q /\ r \in Active
    <3>1. review[r].state \in {"working", "decision"}
      BY <2>4 DEF Active
    <3>2. /\ [review[r] EXCEPT !.state = "superseded"] \in ReviewType
          /\ [review[r] EXCEPT !.state = "superseded"].state = "superseded"
          /\ [review[r] EXCEPT !.state = "superseded"].version = review[r].version
      BY <2>1, <3>1 DEF ReviewType, Terminal
    <3> QED
      BY <2>2, <2>4, <3>1, <3>2 DEF Started
  <2>5. CASE r # q /\ r \notin Active
    BY <2>1, <2>2, <2>5 DEF Started
  <2> QED
    BY <2>3, <2>4, <2>5
<1>8. review' \in [Requests -> ReviewType]
  BY <1>7 DEF Accept
<1> QED
  BY <1>2, <1>5, <1>7, <1>8 DEF Started, Lasting

\* A change of a review's own fields, and of nothing else of it.
LEMMA FieldKeeps ==
    ASSUME TypeOK, NEW q \in Requests, Started(q), UNCHANGED trigger,
           \/ \E state \in {"decision"} \cup Terminal : review' = [review EXCEPT ![q].state = state]
           \/ \E state \in Terminal :
                review' = [review EXCEPT ![q].state = state, ![q].delivered = TRUE]
           \/ review' = [review EXCEPT ![q].delivered = TRUE]
           \/ \E found \in SUBSET Findings : review' = [review EXCEPT ![q].report = found]
           \/ review' = review
    PROVE  /\ \A r \in Requests : Started(r) => Lasting(r)
           /\ \A r \in Requests : Started(r)' => Started(r)
           /\ review' \in [Requests -> ReviewType]
<1>1. review \in [Requests -> ReviewType] /\ review[q] \in ReviewType
  BY DEF TypeOK
<1>2. ASSUME NEW state \in {"decision"} \cup Terminal
      PROVE  LET new == [review[q] EXCEPT !.state = state]
             IN new \in ReviewType /\ new.state # "none" /\ new.version = review[q].version
  BY <1>1 DEF ReviewType, Terminal, Started
<1>3. ASSUME NEW state \in Terminal
      PROVE  LET new == [review[q] EXCEPT !.state = state, !.delivered = TRUE]
             IN new \in ReviewType /\ new.state # "none" /\ new.version = review[q].version
  BY <1>1 DEF ReviewType, Terminal, Started
<1>4. LET new == [review[q] EXCEPT !.delivered = TRUE]
      IN new \in ReviewType /\ new.state # "none" /\ new.version = review[q].version
  BY <1>1 DEF ReviewType, Started
<1>5. ASSUME NEW found \in SUBSET Findings
      PROVE  LET new == [review[q] EXCEPT !.report = found]
             IN new \in ReviewType /\ new.state # "none" /\ new.version = review[q].version
  BY <1>1 DEF ReviewType, Started
<1>6. CASE \E state \in {"decision"} \cup Terminal : review' = [review EXCEPT ![q].state = state]
  BY <1>1, <1>2, <1>6 DEF Started, Lasting
<1>7. CASE \E state \in Terminal :
             review' = [review EXCEPT ![q].state = state, ![q].delivered = TRUE]
  BY <1>1, <1>3, <1>7 DEF Started, Lasting
<1>8. CASE review' = [review EXCEPT ![q].delivered = TRUE]
  BY <1>1, <1>4, <1>8 DEF Started, Lasting
<1>9. CASE \E found \in SUBSET Findings : review' = [review EXCEPT ![q].report = found]
  BY <1>1, <1>5, <1>9 DEF Started, Lasting
<1>10. CASE review' = review
  BY <1>1, <1>10 DEF Started, Lasting
<1> QED
  BY <1>6, <1>7, <1>8, <1>9, <1>10

\* Whatever a step does, reviews that started keep what they are reviews of.
ReviewsKept ==
    /\ \A r \in Requests : Started(r) => Lasting(r)
    /\ \A r \in Requests : Started(r)' => trigger'[r].state = "admitted"
    /\ trigger' \in [Requests -> TriggerType] /\ review' \in [Requests -> ReviewType]

\* A step that touches neither triggers nor reviews keeps them.
LEMMA SameReviews ==
    ASSUME IInv, UNCHANGED <<trigger, review>>
    PROVE  ReviewsKept
BY DEF ReviewsKept, IInv, TypeOK, AdmittedInv, Started, Lasting

\* So does a job that moves, delivers or reports its own review.
LEMMA JobKeeps ==
    ASSUME IInv, job # Idle, UNCHANGED trigger,
           \/ \E state \in {"decision"} \cup Terminal : Transition(job.r, state)
           \/ review' = [review EXCEPT ![job.r].delivered = TRUE]
           \/ \E found \in SUBSET Findings : review' = [review EXCEPT ![job.r].report = found]
    PROVE  ReviewsKept
<1>1. job.r \in Requests /\ Started(job.r)
  BY JobOfReview DEF IInv, Started
<1>2. \/ \E state \in {"decision"} \cup Terminal : review' = [review EXCEPT ![job.r].state = state]
      \/ review' = [review EXCEPT ![job.r].delivered = TRUE]
      \/ \E found \in SUBSET Findings : review' = [review EXCEPT ![job.r].report = found]
      \/ review' = review
  BY DEF Transition
<1>3. TypeOK /\ AdmittedInv
  BY DEF IInv
<1>4. /\ \A r \in Requests : Started(r) => Lasting(r)
      /\ \A r \in Requests : Started(r)' => Started(r)
      /\ review' \in [Requests -> ReviewType]
  BY <1>1, <1>2, <1>3, FieldKeeps
<1> QED
  BY <1>3, <1>4 DEF ReviewsKept, TypeOK, AdmittedInv, Started

\* A request that changes hands had no review.
LEMMA TriggerKeeps ==
    ASSUME IInv, NEW q \in Requests, UNCHANGED review,
           trigger[q].state \in {"unused", "queued"}, trigger'[q] \in TriggerType,
           trigger' = [trigger EXCEPT ![q] = trigger'[q]]
    PROVE  ReviewsKept
<1>1. trigger \in [Requests -> TriggerType] /\ review \in [Requests -> ReviewType]
  BY DEF IInv, TypeOK
<1>2. ~Started(q)
  BY DEF IInv, AdmittedInv, Started
<1>3. \A r \in Requests : r # q => trigger'[r] = trigger[r]
  BY <1>1
<1>4. trigger' \in [Requests -> TriggerType]
  BY <1>1
<1> QED
  BY <1>1, <1>2, <1>3, <1>4 DEF ReviewsKept, IInv, AdmittedInv, Started, Lasting

\* So does a request.
LEMMA AskKeeps ==
    ASSUME IInv, NEW q \in Requests, NEW o \in Owners, NEW mode \in Modes, Ask(q, o, mode)
    PROVE  ReviewsKept
<1>1. trigger' = [trigger EXCEPT ![q] = [state |-> "queued", owner |-> o, mode |-> mode]]
  BY DEF Ask
<1>2. trigger \in [Requests -> TriggerType]
  BY DEF IInv, TypeOK
<1>3. trigger'[q] = [state |-> "queued", owner |-> o, mode |-> mode]
  BY <1>1, <1>2
<1>4. trigger'[q] \in TriggerType
  BY <1>3 DEF TriggerType
<1> QED
  BY <1>1, <1>3, <1>4, TriggerKeeps DEF Ask

\* Asking again asks for the same owner.
LEMMA RunAgainAsks ==
    ASSUME IInv, NEW old \in Requests, NEW q \in Requests, NEW retry \in BOOLEAN,
           RunAgain(old, q, retry)
    PROVE  \E o \in Owners, mode \in Modes : Ask(q, o, mode)
<1>1. TypeOK /\ AdmittedInv /\ review[old].state # "none"
  BY DEF IInv, RunAgain
<1>2. Owner(old) \in Owners /\ trigger[old].mode \in Modes
  BY <1>1, Asked
<1> QED
  BY <1>2 DEF RunAgain

\* So does a request that is received, admitted or turned away.
LEMMA ReceiveKeeps ==
    ASSUME IInv, NEW q \in Requests, Receive(q)
    PROVE  ReviewsKept
<1>1. CASE UNCHANGED <<trigger, review>>
  BY <1>1, SameReviews
<1>2. ASSUME trigger[q].state = "queued", UNCHANGED review,
             NEW state \in {"rejected", "conflict"},
             trigger' = [trigger EXCEPT ![q].state = state]
      PROVE  ReviewsKept
  <2>1. trigger \in [Requests -> TriggerType]
    BY DEF IInv, TypeOK
  <2>2. trigger[q] \in TriggerType
    BY <2>1
  <2>3. [trigger[q] EXCEPT !.state = state] \in TriggerType
    BY <2>2, <1>2 DEF TriggerType
  <2>4. trigger'[q] = [trigger[q] EXCEPT !.state = state]
    BY <1>2, <2>1
  <2> QED
    BY <1>2, <2>3, <2>4, TriggerKeeps
<1>3. CASE trigger[q].state = "queued" /\ Accept(q)
  <2>1. /\ \A r \in Requests : Started(r) => Lasting(r)
        /\ \A r \in Requests : Started(r)' => r = q \/ Started(r)
        /\ trigger'[q].state = "admitted" /\ Started(q)'
        /\ trigger' \in [Requests -> TriggerType] /\ review' \in [Requests -> ReviewType]
    BY <1>3, AcceptKeeps
  <2>2. \A r \in Requests : Started(r) => trigger'[r].state = "admitted"
    BY <2>1 DEF IInv, AdmittedInv, Started, Lasting
  <2> QED
    BY <2>1, <2>2 DEF ReviewsKept
<1>4. CASE trigger[q].state = "queued" /\ Reject(q)
  BY <1>2, <1>4 DEF Reject
<1>5. CASE trigger[q].state = "queued" /\ Conflict(q)
  BY <1>2, <1>5 DEF Conflict
<1> QED
  BY <1>1, <1>3, <1>4, <1>5 DEF Receive

\* So does every step.
LEMMA ReviewStep ==
    ASSUME IInv, [Next]_vars
    PROVE  ReviewsKept
<1>1. CASE UNCHANGED <<trigger, review>>
  BY <1>1, SameReviews
<1>2. ASSUME NEW q \in Requests, NEW o \in Owners, NEW mode \in Modes, Ask(q, o, mode)
      PROVE  ReviewsKept
  BY <1>2, AskKeeps
<1>3. ASSUME NEW old \in Requests, NEW q \in Requests, NEW retry \in BOOLEAN,
             RunAgain(old, q, retry)
      PROVE  ReviewsKept
  BY <1>3, RunAgainAsks, AskKeeps
<1>4. ASSUME NEW q \in Requests, Receive(q)
      PROVE  ReviewsKept
  BY <1>4, ReceiveKeeps
<1>5. ASSUME NEW q \in Requests, StartRun(q)
      PROVE  ReviewsKept
  <2>1. CASE UNCHANGED <<trigger, review>>
    BY <2>1, SameReviews
  <2>2. CASE ~Ended(q) /\ Transition(q, "failed") /\ UNCHANGED trigger
    <3>1. Started(q) /\ TypeOK /\ AdmittedInv
      BY <1>5 DEF StartRun, IInv, AdmittedInv, Started
    <3>2. review' = [review EXCEPT ![q].state = "failed"] /\ "failed" \in Terminal
      BY <2>2 DEF Transition, Terminal
    <3>3. /\ \A r \in Requests : Started(r) => Lasting(r)
          /\ \A r \in Requests : Started(r)' => Started(r)
          /\ review' \in [Requests -> ReviewType]
      BY <2>2, <3>1, <3>2, FieldKeeps
    <3> QED
      BY <2>2, <3>1, <3>3 DEF ReviewsKept, TypeOK, AdmittedInv, Started
  <2> QED
    BY <1>5, <2>1, <2>2 DEF StartRun
<1>6. ASSUME NEW q \in Requests, Stop(q)
      PROVE  ReviewsKept
  <2>1. Started(q) /\ TypeOK /\ AdmittedInv
    BY <1>6 DEF Stop, IInv, Started
  <2>2. review' = [review EXCEPT ![q].state = "cancelled", ![q].delivered = TRUE]
        /\ UNCHANGED trigger /\ "cancelled" \in Terminal
    BY <1>6 DEF Stop, Terminal
  <2>3. /\ \A r \in Requests : Started(r) => Lasting(r)
        /\ \A r \in Requests : Started(r)' => Started(r)
        /\ review' \in [Requests -> ReviewType]
    BY <2>1, <2>2, FieldKeeps
  <2> QED
    BY <2>1, <2>2, <2>3 DEF ReviewsKept, TypeOK, AdmittedInv, Started
<1>7. CASE Decide
  BY <1>7, JobKeeps DEF Decide, Running
<1>8. CASE Report
  <2>1. job.found \subseteq Findings
    BY <1>8, AtWork DEF Report, IInv
  <2> QED
    BY <1>8, <2>1, JobKeeps DEF Report, Running
<1>9. CASE Finish
  BY <1>9, JobKeeps DEF Finish, Running, Terminal
<1>10. CASE Deliver
  BY <1>10, JobKeeps DEF Deliver, Running
<1>11. CASE Analyse \/ ReadPage \/ Post \/ RecordPost \/ \E k \in Keys : NextItem(k)
  BY <1>1, <1>11 DEF Analyse, ReadPage, Post, RecordPost, NextItem
<1>12. CASE Recover \/ StopSeen \/ Crash \/ Dashboard \/ EditPage \/ HidePage
  BY <1>1, <1>12 DEF Recover, StopSeen, Crash, Dashboard, PublishNow, RecordPublish,
                     RemoveNow, RecordRemove, EditPage, HidePage
<1>13. CASE \E r \in Requests : Refresh(r) \/ \E k \in Keys : StartPublish(r, k) \/ StartRemove(r, k)
  BY <1>1, <1>13 DEF Refresh, StartPublish, StartRemove
<1>14. CASE \E o \in Owners, m \in Markers, left \in {"none", "resolved", "open"} : Touch(o, m, left)
  BY <1>1, <1>14 DEF Touch
<1>15. CASE UNCHANGED vars
  BY <1>1, <1>15 DEF vars
<1> QED
  BY <1>2, <1>3, <1>4, <1>5, <1>6, <1>7, <1>8, <1>9, <1>10, <1>11, <1>12, <1>13, <1>14, <1>15
     DEF Next, Run
-----------------------------------------------------------------------------
(***************************************************************************)
(* Types                                                                   *)
(***************************************************************************)

TakesOver == \E r \in Requests, k \in Keys : StartPublish(r, k) \/ StartRemove(r, k)
Touches == \E o \in Owners, m \in Markers, left \in {"none", "resolved", "open"} : Touch(o, m, left)
Asks == \E r \in Requests, o \in Owners, mode \in Modes : Ask(r, o, mode)

\* The steps that change the comments, the rows, the job and the queue.
LEMMA WhoChanges ==
    ASSUME IInv, [Next]_vars
    PROVE  /\ page' # page \/ reopened' # reopened => Post \/ PublishNow \/ RemoveNow \/ Touches
           /\ missed' # missed =>
                \/ Post \/ PublishNow \/ RemoveNow \/ Touches \/ ReadPage
                \/ \E r \in Requests, k \in Keys : StartPublish(r, k)
           /\ rows' # rows =>
                \/ \E k \in Keys : NextItem(k)
                \/ RecordPost \/ RecordPublish \/ RecordRemove \/ PublishNow
                \/ \E r \in Requests : Refresh(r)
                \/ TakesOver
           /\ job' # job =>
                \/ \E r \in Requests : StartRun(r)
                \/ Run \/ StopSeen \/ Crash \/ Dashboard \/ TakesOver \/ Touches
           /\ queue' # queue =>
                \/ Asks \/ Recover \/ Deliver \/ StopSeen
                \/ \E r \in Requests : Receive(r) \/ StartRun(r)
<1>1. CASE Asks
  BY <1>1 DEF Asks, Ask, comments
<1>2. CASE \E old, r \in Requests, retry \in BOOLEAN : RunAgain(old, r, retry)
  <2>1. Asks
    BY <1>2, RunAgainAsks DEF Asks
  <2> QED
    BY <2>1, <1>1
<1>3. CASE \E r \in Requests : Receive(r) \/ StartRun(r)
  BY <1>3 DEF Receive, StartRun, comments
<1>4. CASE \E r \in Requests : Stop(r) \/ Refresh(r)
  BY <1>4 DEF Stop, Refresh, comments
<1>5. CASE Recover \/ StopSeen \/ Crash \/ EditPage \/ HidePage
  BY <1>5 DEF Recover, StopSeen, Crash, EditPage, HidePage, comments
<1>6. CASE Run
  <2>1. CASE \E k \in Keys : NextItem(k)
    BY <2>1, <1>6 DEF NextItem, comments
  <2>2. CASE Analyse \/ Decide \/ ReadPage \/ Report \/ Finish \/ Deliver
    BY <2>2, <1>6 DEF Analyse, Decide, ReadPage, Report, Finish, Deliver, comments
  <2>3. CASE Post \/ RecordPost
    BY <2>3, <1>6 DEF Post, RecordPost, comments
  <2> QED
    BY <1>6, <2>1, <2>2, <2>3 DEF Run
<1>7. CASE Dashboard
  BY <1>7 DEF Dashboard, PublishNow, RecordPublish, RemoveNow, RecordRemove, comments
<1>8. CASE TakesOver
  <2>1. PICK r \in Requests, k \in Keys : StartPublish(r, k) \/ StartRemove(r, k)
    BY <1>8 DEF TakesOver
  <2> QED
    BY <1>8, <2>1 DEF StartPublish, StartRemove, comments
<1>9. CASE Touches
  BY <1>9 DEF Touches, Touch, comments
<1>10. CASE UNCHANGED vars
  BY <1>10 DEF vars, comments
<1> QED
  BY <1>1, <1>2, <1>3, <1>4, <1>5, <1>6, <1>7, <1>8, <1>9, <1>10
     DEF Next, TakesOver, Touches, Asks

\* A comment put on the page leaves a page.
LEMMA PutOnTyped ==
    ASSUME IInv, NEW r \in Requests, Started(r), NEW k \in Keys, PutOn(r, k)
    PROVE  page' \in [Owners -> [Markers -> {"none", "open", "resolved", "twice"}]]
<1>1. TypeOK /\ AdmittedInv
  BY DEF IInv
<1>2. Owner(r) \in Owners /\ Marker(r, k) \in Markers
  BY <1>1, Asked, Marking DEF Started
<1> QED
  BY <1>1, <1>2 DEF TypeOK, PutOn

\* The page keeps its type.
LEMMA PageTyped ==
    ASSUME IInv, [Next]_vars
    PROVE  page' \in [Owners -> [Markers -> {"none", "open", "resolved", "twice"}]]
<1>1. page \in [Owners -> [Markers -> {"none", "open", "resolved", "twice"}]]
  BY DEF IInv, TypeOK
<1>2. TypeOK /\ AdmittedInv
  BY DEF IInv
<1>3. CASE Post
  <2>1. job # Idle /\ job.key \in Keys
    BY <1>2, <1>3, AtWork DEF Post, Running
  <2>2. job.r \in Requests /\ Started(job.r)
    BY <1>2, <2>1, JobOfReview DEF Started
  <2>3. CASE PutOn(job.r, job.key)
    BY <2>1, <2>2, <2>3, PutOnTyped
  <2> QED
    BY <1>1, <1>3, <2>3 DEF Post, comments
<1>4. ASSUME job # Idle, job.kind = "act"
      PROVE  job.r \in Requests /\ Started(job.r) /\ job.key \in Keys
  <2>1. job \in JobType
    BY <1>2 DEF TypeOK
  <2>2. job.key \in Keys
    BY <1>4, <2>1 DEF JobType, Work
  <2> QED
    BY <1>2, <1>4, <2>2, JobOfReview DEF Started
<1>5. CASE PublishNow
  <2>1. CASE PutOn(job.r, job.key)
    BY <1>4, <1>5, <2>1, PutOnTyped DEF PublishNow, Acting
  <2> QED
    BY <1>1, <1>5, <2>1 DEF PublishNow, comments
<1>6. CASE RemoveNow
  <2>1. Owner(job.r) \in Owners /\ Marker(job.r, job.key) \in Markers
    BY <1>2, <1>4, <1>6, Asked, Marking DEF RemoveNow, Acting, Started
  <2> QED
    BY <1>1, <1>6, <2>1 DEF RemoveNow, Leave, comments
<1>7. CASE Touches
  BY <1>1, <1>7 DEF Touches, Touch, Leave
<1> QED
  BY <1>1, <1>3, <1>5, <1>6, <1>7, WhoChanges

\* So do the histories of its comments.
LEMMA HistoryTyped ==
    ASSUME IInv, [Next]_vars
    PROVE  /\ missed' \in [Owners -> SUBSET Markers] /\ reopened' \in [Owners -> SUBSET Markers]
<1>1. missed \in [Owners -> SUBSET Markers] /\ reopened \in [Owners -> SUBSET Markers]
  BY DEF IInv, TypeOK
<1>2. TypeOK /\ AdmittedInv
  BY DEF IInv
<1>3. ASSUME NEW o, NEW list, Miss(o, list)
      PROVE  missed' \in [Owners -> SUBSET Markers]
  BY <1>1, <1>3 DEF Miss, Unlisted
<1>4. ASSUME NEW o, NEW m \in Markers, NEW left, Leave(o, m, left)
      PROVE  missed' \in [Owners -> SUBSET Markers] /\ reopened' \in [Owners -> SUBSET Markers]
  BY <1>1, <1>4 DEF Leave
<1>5. CASE Post \/ PublishNow
  BY <1>1, <1>5 DEF Post, PublishNow, PutOn, comments
<1>6. CASE RemoveNow
  <2>1. job \in JobType /\ job # Idle
    BY <1>2, <1>6 DEF TypeOK, RemoveNow, Acting
  <2>2. job.r \in Requests /\ job.key \in Keys /\ Started(job.r)
    BY <1>2, <1>6, <2>1, JobOfReview DEF RemoveNow, Acting, JobType, Work, Started
  <2>3. Marker(job.r, job.key) \in Markers
    BY <1>2, <2>2, Marking DEF Started
  <2> QED
    BY <1>1, <1>4, <1>6, <2>3 DEF RemoveNow, comments
<1>7. CASE Touches
  BY <1>4, <1>7 DEF Touches, Touch
<1>8. CASE ReadPage
  BY <1>1, <1>3, <1>8 DEF ReadPage
<1>9. ASSUME NEW r \in Requests, NEW k \in Keys, StartPublish(r, k)
      PROVE  missed' \in [Owners -> SUBSET Markers] /\ reopened' \in [Owners -> SUBSET Markers]
  BY <1>1, <1>3, <1>9 DEF StartPublish
<1> QED
  BY <1>1, <1>5, <1>6, <1>7, <1>8, <1>9, WhoChanges

\* A report's rows are rows, and bringing them up to date keeps them so.
LEMMA SeededTyped ==
    ASSUME TypeOK, AdmittedInv, NEW r \in Requests, Started(r), NEW k \in Keys
    PROVE  Seeded(r)[k] \in RowType
<1>1. trigger[r].mode \in {"applied", "draft", "none"}
  BY Asked, DocumentAssumption DEF Started
<1>2. rows[r][k] \in RowType
  BY DEF TypeOK
<1>3. \A status \in {"drafted", "committed", "not_published"} : Entry(status) \in RowType
  BY DEF Entry, NoRow, RowType
<1> QED
  BY <1>1, <1>2, <1>3 DEF Seeded

\* Reconciled rows are rows.
LEMMA SyncedTyped ==
    ASSUME TypeOK, AdmittedInv, NEW r \in Requests, Started(r), NEW list \in Listings(Owner(r))
    PROVE  Synced(r, list) \in [Keys -> RowType]
<1>1. \A k \in Keys : Seeded(r)[k] \in RowType
  BY SeededTyped
<1>2. Owner(r) \in Owners
  BY Asked DEF Started
<1>3. ASSUME NEW k \in Keys, NEW row \in RowType
      PROVE  SyncedRow(r, k, row, list) \in RowType
  <2>1. \A s \in {"committed", "removed"} : [row EXCEPT !.status = s, !.intent = "none"] \in RowType
    BY DEF RowType
  <2>2. Marker(r, k) \in Markers
    BY Marking DEF Started
  <2>3. list[Marker(r, k)] \in {"none", "open", "resolved", "twice"}
    BY <1>2, <2>2, ListingSound
  <2> QED
    BY <2>1, <2>3 DEF SyncedRow
<1> QED
  BY <1>1, <1>3 DEF Synced

\* The rows keep their type.
LEMMA RowsTyped ==
    ASSUME IInv, [Next]_vars
    PROVE  rows' \in [Requests -> [Keys -> RowType]]
<1>1. TypeOK /\ AdmittedInv /\ rows \in [Requests -> [Keys -> RowType]]
  BY DEF IInv, TypeOK
<1>2. ASSUME NEW r \in Requests, NEW k \in Keys, NEW row \in RowType, Remember(r, k, row)
      PROVE  rows' \in [Requests -> [Keys -> RowType]]
  BY <1>1, <1>2 DEF Remember
<1>3. ASSUME NEW row \in RowType
      PROVE  /\ [row EXCEPT !.status = "drafted"] \in RowType
             /\ [row EXCEPT !.status = "committed"] \in RowType
             /\ [row EXCEPT !.status = "not_published", !.eligible = FALSE] \in RowType
             /\ [row EXCEPT !.status = "not_published", !.intent = "publish"] \in RowType
             /\ [row EXCEPT !.status = "committed", !.intent = "none"] \in RowType
             /\ [row EXCEPT !.status = "removed", !.intent = "none"] \in RowType
             /\ [row EXCEPT !.status = "removed", !.byOwner = TRUE] \in RowType
             /\ [row EXCEPT !.intent = "remove", !.byOwner = TRUE] \in RowType
             /\ [row EXCEPT !.intent = "publish"] \in RowType
             /\ [row EXCEPT !.intent = "none"] \in RowType
  BY DEF RowType
<1>4. ASSUME NEW k \in Keys, NextItem(k)
      PROVE  rows' \in [Requests -> [Keys -> RowType]]
  <2>1. job.r \in Requests
    BY <1>1, <1>4, AtWork DEF NextItem
  <2>2. rows[job.r][k] \in RowType
    BY <1>1, <2>1
  <2> QED
    BY <1>2, <1>3, <1>4, <2>1, <2>2 DEF NextItem, HeldBack, Announce
<1>5. CASE RecordPost \/ RecordPublish \/ RecordRemove \/ PublishNow
  <2>1. job \in JobType
    BY <1>1 DEF TypeOK
  <2>2. job.r \in Requests /\ job.key \in Keys
    BY <1>5, <2>1 DEF RecordPost, RecordPublish, RecordRemove, PublishNow, Acting, Running,
                      JobType, Work
  <2>3. rows[job.r][job.key] \in RowType
    BY <1>1, <2>2
  <2> QED
    BY <1>1, <1>2, <1>3, <1>5, <2>2, <2>3
       DEF RecordPost, RecordPublish, RecordRemove, PublishNow, Commit
<1>6. ASSUME NEW r \in Requests, Refresh(r)
      PROVE  rows' \in [Requests -> [Keys -> RowType]]
  BY <1>1, <1>6, SyncedTyped DEF Refresh, Started
<1>7. ASSUME NEW r \in Requests, NEW k \in Keys, StartPublish(r, k) \/ StartRemove(r, k)
      PROVE  rows' \in [Requests -> [Keys -> RowType]]
  <2>1. Started(r)
    BY <1>7 DEF StartPublish, StartRemove, Manageable, Started
  <2>2. PICK list \in Listings(Owner(r)) :
          \/ rows' = [rows EXCEPT ![r] = [Synced(r, list) EXCEPT ![k].intent = "publish"]]
          \/ \E row \in {[Synced(r, list)[k] EXCEPT !.status = "removed", !.byOwner = TRUE],
                         [Synced(r, list)[k] EXCEPT !.intent = "remove", !.byOwner = TRUE]} :
               rows' = [rows EXCEPT ![r] = [Synced(r, list) EXCEPT ![k] = row]]
    BY <1>7 DEF StartPublish, StartRemove
  <2>3. Synced(r, list) \in [Keys -> RowType] /\ Synced(r, list)[k] \in RowType
    BY <1>1, <2>1, SyncedTyped
  <2>4. ASSUME NEW row \in RowType
        PROVE  [rows EXCEPT ![r] = [Synced(r, list) EXCEPT ![k] = row]]
                 \in [Requests -> [Keys -> RowType]]
    BY <1>1, <2>3
  <2>5. CASE rows' = [rows EXCEPT ![r] = [Synced(r, list) EXCEPT ![k].intent = "publish"]]
    <3>1. rows' = [rows EXCEPT ![r] = [Synced(r, list) EXCEPT
                                         ![k] = [Synced(r, list)[k] EXCEPT !.intent = "publish"]]]
      BY <2>3, <2>5
    <3> QED
      BY <1>3, <2>3, <2>4, <3>1
  <2>6. ASSUME NEW row \in {[Synced(r, list)[k] EXCEPT !.status = "removed", !.byOwner = TRUE],
                            [Synced(r, list)[k] EXCEPT !.intent = "remove", !.byOwner = TRUE]},
               rows' = [rows EXCEPT ![r] = [Synced(r, list) EXCEPT ![k] = row]]
        PROVE  rows' \in [Requests -> [Keys -> RowType]]
    <3>1. row \in RowType
      BY <1>3, <2>3
    <3> QED
      BY <2>4, <2>6, <3>1
  <2> QED
    BY <2>2, <2>5, <2>6
<1> QED
  BY <1>1, <1>4, <1>5, <1>6, <1>7, WhoChanges DEF TakesOver

\* A step of a run or of an owner's request is one of the same review.
LEMMA JobTyped ==
    ASSUME IInv, [Next]_vars
    PROVE  /\ job' \in JobType
           /\ job' # Idle => Started(job'.r) /\ (job # Idle => job'.r = job.r)
<1>1. TypeOK /\ AdmittedInv /\ job \in JobType
  BY DEF IInv, TypeOK
<1>2. job # Idle => job.r \in Requests /\ Started(job.r)
  BY <1>1, JobOfReview DEF Started
<1> DEFINE Fine(j) == j \in JobType /\ (j # Idle => Started(j.r) /\ (job # Idle => j.r = job.r))
<1>3. Fine(job) /\ Fine(Idle)
  BY <1>1, <1>2 DEF JobType
<1>4. ASSUME NEW r \in Requests, StartRun(r)
      PROVE  Fine(job')
  <2>1. Started(r)
    BY <1>1, <1>4 DEF StartRun, AdmittedInv, Started
  <2>2. CASE job' = [kind |-> "run", r |-> r, pc |-> "analysis"]
    BY <1>4, <2>1, <2>2 DEF StartRun, JobType
  <2>3. CASE job' = Idle
    BY <1>3, <2>3
  <2> QED
    BY <1>4, <2>2, <2>3 DEF StartRun, Release
<1>5. ASSUME Running, Fail
      PROVE  Fine(job')
  BY <1>2, <1>5 DEF Fail, JobType, Running
<1>6. CASE Analyse
  <2>1. CASE Fail
    BY <1>5, <1>6, <2>1 DEF Analyse
  <2>2. CASE \E found \in Selections :
                job' = [kind |-> "run", r |-> job.r, pc |-> "decision", found |-> found]
    BY <1>2, <1>6, <2>2 DEF Analyse, Running, JobType
  <2> QED
    BY <1>6, <2>1, <2>2 DEF Analyse
<1>7. CASE Decide
  <2>1. job.found \in Selections /\ job # Idle
    BY <1>1, <1>7 DEF Decide, Running, JobType, Work
  <2>2. trigger[job.r].mode \in {"applied", "draft", "none"}
    BY <1>1, <2>1, JobOfReview, DocumentAssumption
  <2>3. PICK pc \in {"report", "items", "reading"} :
          job' = [kind |-> "run", r |-> job.r, found |-> job.found, pc |-> pc,
                  todo |-> job.found \cup {Summary},
                  posted |-> {}, slots |-> 0, key |-> Summary, gone |-> {}]
    BY <1>7, <2>2 DEF Decide
  <2>4. job.found \cup {Summary} \subseteq Keys /\ Summary \in Keys
    BY <2>1 DEF Selections, Keys
  <2>5. job' \in Work
    BY <1>2, <2>1, <2>3, <2>4 DEF Work
  <2> QED
    BY <1>2, <2>1, <2>3, <2>5 DEF JobType
<1>8. CASE ReadPage
  <2>1. job \in Work
    BY <1>1, <1>8, AtWork DEF ReadPage
  <2>2. ASSUME NEW list,
               job' = [job EXCEPT !.pc = "items", !.posted = Posted(list),
                                  !.slots = Slots(list), !.gone = {}]
        PROVE  Fine(job')
    <3>1. Posted(list) \subseteq Markers /\ Slots(list) \in Nat
      BY SlotsCounted DEF Posted
    <3>2. job' \in Work /\ job'.r = job.r
      BY <2>1, <2>2, <3>1 DEF Work
    <3> QED
      BY <1>2, <1>8, <3>2 DEF JobType, ReadPage, Running
  <2>3. CASE Fail
    BY <1>5, <1>8, <2>3 DEF ReadPage
  <2> QED
    BY <1>8, <2>2, <2>3 DEF ReadPage
<1>9. ASSUME NEW k \in Keys, NextItem(k)
       PROVE  Fine(job')
  <2>1. job \in Work /\ job.todo \ {k} \in SUBSET Keys
    BY <1>1, <1>9, AtWork DEF NextItem
  <2>2. CASE job' = [job EXCEPT !.todo = @ \ {k}]
    <3>1. job' \in Work /\ job'.r = job.r
      BY <2>1, <2>2 DEF Work
    <3> QED
      BY <1>2, <1>9, <3>1 DEF JobType, NextItem, Running
  <2>3. CASE job' = [[job EXCEPT !.todo = @ \ {k}] EXCEPT !.pc = "post", !.key = k]
    <3>1. job' \in Work /\ job'.r = job.r
      BY <2>1, <2>3 DEF Work
    <3> QED
      BY <1>2, <1>9, <3>1 DEF JobType, NextItem, Running
  <2> QED
    BY <1>9, <2>2, <2>3 DEF NextItem
<1>10. CASE Post
  <2>1. CASE Fail
    BY <1>5, <1>10, <2>1 DEF Post
  <2>2. CASE job' = [job EXCEPT !.pc = "posted"]
    <3>1. job \in Work
      BY <1>1, <1>10, AtWork DEF Post
    <3>2. job' \in Work /\ job'.r = job.r
      BY <2>2, <3>1 DEF Work
    <3> QED
      BY <1>2, <1>10, <3>2 DEF JobType, Post, Running
  <2> QED
    BY <1>10, <2>1, <2>2 DEF Post
<1>11. CASE RecordPost
  <2>1. job \in Work /\ job.slots \in Nat
    BY <1>1, <1>11, AtWork DEF RecordPost
  <2>2. trigger[job.r].mode = "applied"
    BY <1>11 DEF IInv, ModeInv, RecordPost
  <2>3. job.key # Summary => job.slots > 0
    BY <1>11, <2>2 DEF IInv, PostInv, Agrees, UnderWay, Carrying, RecordPost
  <2>4. PICK slots \in Nat : job' = [job EXCEPT !.pc = "items", !.slots = slots]
    <3>1. CASE job.key = Summary
      BY <1>11, <2>1, <3>1 DEF RecordPost
    <3>2. CASE job.key # Summary
      <4>1. job' = [job EXCEPT !.pc = "items", !.slots = job.slots - 1]
        BY <1>11, <3>2 DEF RecordPost
      <4>2. job.slots - 1 \in Nat
        BY <2>1, <2>3, <3>2
      <4> QED
        BY <4>1, <4>2
    <3> QED
      BY <3>1, <3>2
  <2>5. job' \in Work /\ job'.r = job.r
    BY <2>1, <2>4 DEF Work
  <2> QED
    BY <1>2, <1>11, <2>5 DEF JobType, RecordPost, Running
<1>12. CASE Report
  <2>1. job \in Work
    BY <1>1, <1>12, AtWork DEF Report
  <2>2. job' \in Work /\ job'.r = job.r
    BY <1>12, <2>1 DEF Work, Report
  <2> QED
    BY <1>2, <1>12, <2>2 DEF JobType, Report, Running
<1>13. CASE Finish
  BY <1>2, <1>13 DEF Finish, Running, JobType
<1>14. CASE Deliver \/ StopSeen \/ Crash
  BY <1>3, <1>14 DEF Deliver, StopSeen, Crash, Release
<1>15. CASE Dashboard
  <2>1. CASE job' = Idle
    BY <1>3, <2>1
  <2>2. ASSUME job # Idle, job.kind = "act", NEW pc \in {"published", "removed"},
               job' = [job EXCEPT !.pc = pc]
        PROVE  Fine(job')
    <3> DEFINE Act == [kind : {"act"}, r : Requests, key : Keys,
                       pc : {"publish", "published", "remove", "removed"}]
    <3>1. job \in Act
      BY <1>1, <2>2 DEF JobType, Work
    <3>2. job' \in Act /\ job'.r = job.r
      BY <2>2, <3>1
    <3>3. job' \in JobType
      BY <3>2 DEF JobType
    <3> QED
      BY <1>2, <2>2, <3>2, <3>3
  <2> QED
    BY <1>15, <2>1, <2>2 DEF Dashboard, PublishNow, RecordPublish, RemoveNow, RecordRemove, Acting
<1>16. ASSUME NEW r \in Requests, NEW k \in Keys, StartPublish(r, k) \/ StartRemove(r, k)
       PROVE  Fine(job')
  <2>1. Started(r) /\ job = Idle
    BY <1>16 DEF StartPublish, StartRemove, Manageable, Started
  <2>2. ASSUME NEW pc \in {"publish", "remove"}, job' = ActOn(r, k, pc)
        PROVE  Fine(job')
    BY <2>1, <2>2 DEF ActOn, JobType
  <2> QED
    BY <1>3, <1>16, <2>2 DEF StartPublish, StartRemove
<1>17. ASSUME NEW o \in Owners, NEW m \in Markers, NEW left \in {"none", "resolved", "open"},
             Touch(o, m, left)
       PROVE  Fine(job')
  <2>1. CASE job' = job
    BY <1>3, <2>1
  <2>2. CASE Running /\ job.pc \in {"items", "post", "posted", "publishing"}
             /\ job' = [job EXCEPT !.gone = @ \cup {m}]
    <3>1. job \in Work
      BY <1>1, <2>2, AtWork
    <3>2. job' \in Work /\ job'.r = job.r
      BY <2>2, <3>1 DEF Work
    <3> QED
      BY <1>2, <2>2, <3>2 DEF JobType, Running
  <2> QED
    BY <1>17, <2>1, <2>2 DEF Touch, Gone
<1>18. Fine(job')
  BY <1>3, <1>4, <1>6, <1>7, <1>8, <1>9, <1>10, <1>11, <1>12, <1>13, <1>14, <1>15, <1>16, <1>17,
     WhoChanges DEF Run, TakesOver, Touches
<1> QED
  BY <1>18

\* Only requests are queued, and runs only of reviews.
LEMMA QueueTyped ==
    ASSUME IInv, [Next]_vars
    PROVE  /\ queue' \subseteq {"receive", "run"} \X Requests
           /\ \A r \in Requests : <<"run", r>> \in queue' => Started(r)'
<1>1. queue \subseteq {"receive", "run"} \X Requests
      /\ \A r \in Requests : <<"run", r>> \in queue => Started(r)
  BY DEF IInv, TypeOK, AdmittedInv, Started
<1>2. ReviewsKept
  BY ReviewStep
<1>3. \A r \in Requests : Started(r) => Started(r)'
  BY <1>2 DEF ReviewsKept, Started, Lasting
<1>4. ASSUME queue' \subseteq queue
      PROVE  /\ queue' \subseteq {"receive", "run"} \X Requests
             /\ \A r \in Requests : <<"run", r>> \in queue' => Started(r)'
  BY <1>1, <1>3, <1>4
<1>5. CASE Asks
  BY <1>1, <1>3, <1>5 DEF Asks, Ask
<1>6. CASE Recover
  BY <1>1, <1>3, <1>6 DEF Recover, Started
<1>7. CASE Deliver \/ StopSeen
  BY <1>4, <1>7 DEF Deliver, StopSeen, Release
<1>8. ASSUME NEW r \in Requests, StartRun(r)
      PROVE  queue' \subseteq queue
  BY <1>8 DEF StartRun, Release
<1>9. ASSUME NEW r \in Requests, Receive(r)
      PROVE  /\ queue' \subseteq {"receive", "run"} \X Requests
             /\ \A s \in Requests : <<"run", s>> \in queue' => Started(s)'
  <2>1. CASE queue' = queue \ {<<"receive", r>>}
    BY <1>4, <2>1
  <2>2. CASE trigger[r].state = "queued" /\ Accept(r)
             /\ queue' = (queue \ {<<"receive", r>>}) \cup {<<"run", r>>}
    BY <1>1, <1>3, <2>2, AcceptKeeps
  <2> QED
    BY <1>9, <2>1, <2>2 DEF Receive
<1> QED
  BY <1>4, <1>5, <1>6, <1>7, <1>8, <1>9, WhoChanges

\* Versions, troubles and hands keep within their bounds, and a page is hidden or not.
LEMMA CountsTyped ==
    ASSUME IInv, [Next]_vars
    PROVE  /\ version' \in 1..MaxVersion /\ hidden' \in BOOLEAN
           /\ troubles' \in 0..MaxTroubles /\ hands' \in 0..MaxHands
<1>1. /\ version \in 1..MaxVersion /\ hidden \in BOOLEAN
      /\ troubles \in 0..MaxTroubles /\ hands \in 0..MaxHands
      /\ MaxVersion \in Nat /\ MaxTroubles \in Nat /\ MaxHands \in Nat
  BY DocumentAssumption DEF IInv, TypeOK
<1> DEFINE Count == version' = version /\ hidden' = hidden /\ hands' = hands
                    /\ troubles' \in {troubles, troubles + 1}
                    /\ (troubles' # troubles => troubles < MaxTroubles)
           Hand == version' = version /\ hidden' = hidden /\ hands < MaxHands /\ hands' = hands + 1
                   /\ troubles' \in {troubles, troubles + 1}
                   /\ (troubles' # troubles => troubles < MaxTroubles)
<1>2. Count \/ Hand => version' \in 1..MaxVersion /\ hidden' \in BOOLEAN
                       /\ troubles' \in 0..MaxTroubles
                       /\ hands' \in 0..MaxHands
  BY <1>1
<1>3. CASE Asks
  BY <1>2, <1>3 DEF Asks, Ask
<1>4. CASE \E old, r \in Requests, retry \in BOOLEAN : RunAgain(old, r, retry)
  BY <1>3, <1>4, RunAgainAsks DEF Asks
<1>5. CASE \E r \in Requests : Receive(r)
  BY <1>2, <1>5 DEF Receive, TokensFail
<1>6. CASE \E r \in Requests : StartRun(r)
  BY <1>2, <1>6 DEF StartRun, TokensFail
<1>7. CASE \E r \in Requests : Stop(r) \/ Refresh(r)
  BY <1>2, <1>7 DEF Stop, Refresh, Reads
<1>8. CASE Recover \/ StopSeen \/ Crash
  BY <1>2, <1>8 DEF Recover, StopSeen, Crash, bounds
<1>9. CASE EditPage \/ HidePage
  <2>1. hidden' \in BOOLEAN
    BY <1>1, <1>9 DEF EditPage, HidePage
  <2>2. version' \in 1..MaxVersion /\ troubles' = troubles /\ hands' \in 0..MaxHands
    BY <1>1, <1>9 DEF EditPage, HidePage, ByHand
  <2> QED
    BY <1>1, <2>1, <2>2
<1>10. CASE Run
  <2>1. CASE \E k \in Keys : NextItem(k)
    BY <1>2, <2>1 DEF NextItem, bounds
  <2>2. CASE Analyse \/ Decide \/ ReadPage \/ RecordPost \/ Report \/ Finish \/ Deliver
    BY <1>2, <2>2 DEF Analyse, Decide, ReadPage, RecordPost, Report, Finish, Deliver, Reads, bounds
  <2>3. CASE Post
    BY <1>2, <2>3 DEF Post
  <2> QED
    BY <1>10, <2>1, <2>2, <2>3 DEF Run
<1>11. CASE Dashboard
  BY <1>2, <1>11 DEF Dashboard, PublishNow, RecordPublish, RemoveNow, RecordRemove, bounds
<1>12. CASE TakesOver
  BY <1>2, <1>12 DEF TakesOver, StartPublish, StartRemove, Reads
<1>13. CASE Touches
  BY <1>2, <1>13 DEF Touches, Touch, ByHand
<1>14. CASE UNCHANGED vars
  BY <1>2, <1>14 DEF vars, bounds
<1> QED
  BY <1>3, <1>4, <1>5, <1>6, <1>7, <1>8, <1>9, <1>10, <1>11, <1>12, <1>13, <1>14
     DEF Next, Asks, TakesOver, Touches

\* Every step keeps the types and what is known of admitted reviews.
LEMMA TypeStep ==
    ASSUME IInv, [Next]_vars
    PROVE  TypeOK' /\ AdmittedInv'
<1>1. ReviewsKept
  BY ReviewStep
<1>2. TypeOK'
  <2>1. trigger' \in [Requests -> TriggerType] /\ review' \in [Requests -> ReviewType]
    BY <1>1 DEF ReviewsKept
  <2>2. /\ page' \in [Owners -> [Markers -> {"none", "open", "resolved", "twice"}]]
        /\ missed' \in [Owners -> SUBSET Markers] /\ reopened' \in [Owners -> SUBSET Markers]
    BY PageTyped, HistoryTyped
  <2>3. rows' \in [Requests -> [Keys -> RowType]]
    BY RowsTyped
  <2>4. job' \in JobType /\ queue' \subseteq {"receive", "run"} \X Requests
    BY JobTyped, QueueTyped
  <2>5. version' \in 1..MaxVersion /\ hidden' \in BOOLEAN /\ troubles' \in 0..MaxTroubles /\ hands' \in 0..MaxHands
    BY CountsTyped
  <2> QED
    BY <2>1, <2>2, <2>3, <2>4, <2>5 DEF TypeOK
<1>3. ASSUME job' # Idle
      PROVE  review'[job'.r].state # "none"
  <2>1. Started(job'.r) /\ job' \in JobType
    BY <1>3, JobTyped
  <2>2. job'.r \in Requests
    BY <1>3, <2>1 DEF JobType, Work
  <2> QED
    BY <1>1, <2>1, <2>2 DEF ReviewsKept, Lasting
<1>4. AdmittedInv'
  BY <1>1, <1>3, QueueTyped DEF AdmittedInv, ReviewsKept, Started
<1> QED
  BY <1>2, <1>4

\* A run goes on with the review it is of, and of the same owner.
LEMMA SameWork ==
    ASSUME IInv, [Next]_vars, job # Idle, job' # Idle
    PROVE  /\ job'.r = job.r /\ job.r \in Requests
           /\ trigger'[job.r] = trigger[job.r]
           /\ review[job.r].state # "none" /\ review'[job.r].state # "none"
           /\ review'[job.r].version = review[job.r].version
<1>1. job'.r = job.r
  BY JobTyped
<1>2. job.r \in Requests /\ Started(job.r)
  BY JobOfReview DEF IInv, Started
<1>3. ReviewsKept
  BY ReviewStep
<1> QED
  BY <1>1, <1>2, <1>3 DEF ReviewsKept, Lasting, Started

\* A reading ends in a picture of the page or in a failed run.
LEMMA ReadResult ==
    ASSUME ReadPage, TypeOK
    PROVE  /\ job'.kind = "run" /\ job'.pc \in {"items", "failing"}
           /\ job'.pc = "items" =>
                \E list \in Listings(Owner(job.r)) :
                   /\ job' = [job EXCEPT !.pc = "items", !.posted = Posted(list),
                                         !.slots = Slots(list), !.gone = {}]
                   /\ Miss(Owner(job.r), list)
<1>1. job \in Work
  BY AtWork DEF ReadPage
<1>2. CASE Fail
  <2>1. job'.kind = "run" /\ job'.pc = "failing"
    BY <1>2 DEF Fail
  <2> QED
    BY <2>1
<1>3. ASSUME NEW list \in Listings(Owner(job.r)),
             job' = [job EXCEPT !.pc = "items", !.posted = Posted(list),
                                !.slots = Slots(list), !.gone = {}],
             Miss(Owner(job.r), list)
      PROVE  job'.kind = "run" /\ job'.pc = "items"
  BY <1>1, <1>3 DEF Work
<1>4. CASE ~Fail
  <2>1. PICK list \in Listings(Owner(job.r)) :
           /\ job' = [job EXCEPT !.pc = "items", !.posted = Posted(list),
                                 !.slots = Slots(list), !.gone = {}]
           /\ Miss(Owner(job.r), list)
    BY <1>4, Zenon DEF ReadPage
  <2>2. job'.kind = "run" /\ job'.pc = "items"
    BY <1>3, <2>1
  <2> QED
    BY <2>1, <2>2
<1> QED
  BY <1>2, <1>4

\* Every step keeps what the mode of its review says of the job.
LEMMA ModeStep ==
    ASSUME IInv, [Next]_vars
    PROVE  ModeInv'
<1>1. SUFFICES ASSUME Running'
               PROVE  LET mode == trigger'[job'.r].mode IN
                      /\ job'.pc = "reading" => mode = "applied"
                                                /\ job'.todo = job'.found \cup {Summary}
                      /\ job'.pc = "report" => mode = "none"
                      /\ job'.pc \in {"post", "posted"} => mode = "applied"
                      /\ job'.pc = "items" => mode \in {"draft", "applied"}
  BY DEF ModeInv
<1>2. CASE job' = job
  BY <1>1, <1>2, SameWork DEF IInv, ModeInv, Running
<1>3. CASE job'.pc \in {"analysis", "decision", "failing", "delivering", "publishing"}
  BY <1>3
<1>4. CASE Decide
  <2>1. job # Idle /\ job' # Idle
    BY <1>1, <1>4 DEF Decide, Running
  <2>2. trigger'[job'.r] = trigger[job.r]
    BY <2>1, SameWork
  <2>3. trigger[job.r].mode \in {"applied", "draft", "none"}
    BY <2>1, JobOfReview, DocumentAssumption DEF IInv
  <2> QED
    BY <1>4, <2>2, <2>3 DEF Decide
<1>5. ASSUME Running, job.pc \in {"reading", "items", "post", "posted"},
             NEW pc \in {"items", "post", "posted"}, job'.pc = pc, trigger[job.r].mode = "applied"
      PROVE  ModeInv'
  BY <1>1, <1>5, SameWork DEF ModeInv, Running
<1>6. CASE ReadPage
  <2>1. job'.pc \in {"items", "failing"}
    BY <1>6, ReadResult DEF IInv
  <2>2. Running /\ job.pc = "reading" /\ trigger[job.r].mode = "applied"
    BY <1>6 DEF ReadPage, IInv, ModeInv
  <2>3. CASE job'.pc = "items"
    <3>1. ModeInv'
      BY <1>5, <2>2, <2>3
    <3> QED
      BY <1>1, <3>1 DEF ModeInv
  <2>4. CASE job'.pc = "failing"
    BY <1>3, <2>4
  <2> QED
    BY <2>1, <2>3, <2>4
<1>7. ASSUME NEW k \in Keys, NextItem(k)
      PROVE  ModeInv'
  <2>1. job \in Work /\ Running /\ job.pc = "items"
    BY <1>7, AtWork DEF NextItem, IInv
  <2>2. trigger[job.r].mode \in {"draft", "applied"}
    BY <2>1 DEF IInv, ModeInv
  <2>3. CASE job' = [job EXCEPT !.todo = @ \ {k}]
    <3>1. job'.pc = "items"
      BY <2>1, <2>3 DEF Work
    <3> QED
      BY <1>1, <2>1, <2>2, <3>1, SameWork DEF ModeInv, Running
  <2>4. CASE trigger[job.r].mode # "draft"
             /\ job' = [[job EXCEPT !.todo = @ \ {k}] EXCEPT !.pc = "post", !.key = k]
    <3>1. job'.pc = "post"
      BY <2>1, <2>4 DEF Work
    <3> QED
      BY <1>5, <2>1, <2>2, <2>4, <3>1
  <2> QED
    BY <1>7, <2>3, <2>4 DEF NextItem
<1>8. CASE Post
  <2>1. job \in Work /\ Running /\ job.pc = "post"
    BY <1>8, AtWork DEF Post, IInv
  <2>2. CASE job' = [job EXCEPT !.pc = "posted"]
    <3>1. job'.pc = "posted"
      BY <2>1, <2>2 DEF Work
    <3>2. trigger[job.r].mode = "applied"
      BY <2>1 DEF IInv, ModeInv
    <3> QED
      BY <1>1, <1>5, <2>1, <3>1, <3>2 DEF ModeInv
  <2>3. CASE Fail
    BY <1>3, <2>3 DEF Fail
  <2> QED
    BY <1>1, <1>8, <2>2, <2>3 DEF Post, ModeInv
<1>9. CASE RecordPost
  <2>1. job \in Work /\ Running /\ job.pc = "posted"
    BY <1>9, AtWork DEF RecordPost, IInv
  <2>2. job'.pc = "items"
    BY <1>9, <2>1 DEF RecordPost, Work
  <2>3. trigger[job.r].mode = "applied"
    BY <2>1 DEF IInv, ModeInv
  <2> QED
    BY <1>1, <1>5, <2>1, <2>2, <2>3 DEF ModeInv
<1>10. CASE Report
  <2>1. job \in Work
    BY <1>10, AtWork DEF Report, IInv
  <2> QED
    BY <1>3, <1>10, <2>1 DEF Report, Work
<1>11. CASE (\E r \in Requests : StartRun(r)) \/ Analyse \/ Finish
  <2>1. job' # Idle
    BY <1>1 DEF Running
  <2>2. CASE \E r \in Requests : StartRun(r)
    <3>1. job'.pc = "analysis"
      BY <2>1, <2>2 DEF StartRun, Release
    <3> QED
      BY <1>3, <3>1
  <2>3. CASE Analyse
    <3>1. job'.pc \in {"failing", "decision"}
      BY <2>3 DEF Analyse, Fail
    <3> QED
      BY <1>3, <3>1
  <2>4. CASE Finish
    <3>1. job'.pc = "delivering"
      BY <2>4 DEF Finish
    <3> QED
      BY <1>3, <3>1
  <2> QED
    BY <1>11, <2>2, <2>3, <2>4
<1>12. CASE Deliver \/ StopSeen \/ Crash
  BY <1>1, <1>12 DEF Deliver, StopSeen, Crash, Release, Running
<1>13. CASE Dashboard
  <2>1. job # Idle /\ job.kind = "act" /\ job \in JobType
    BY <1>13 DEF Dashboard, PublishNow, RecordPublish, RemoveNow, RecordRemove, Acting, IInv, TypeOK
  <2>2. job' = Idle \/ \E pc \in {"published", "removed"} : job' = [job EXCEPT !.pc = pc]
    BY <1>13 DEF Dashboard, PublishNow, RecordPublish, RemoveNow, RecordRemove
  <2>3. job' = Idle \/ job'.kind = "act"
    BY <2>1, <2>2 DEF JobType, Work
  <2> QED
    BY <1>1, <2>3 DEF Running
<1>14. CASE TakesOver
  <2>1. PICK r \in Requests, k \in Keys : StartPublish(r, k) \/ StartRemove(r, k)
    BY <1>14 DEF TakesOver
  <2>2. job' = job \/ job'.kind = "act"
    <3>1. CASE StartPublish(r, k)
      BY <3>1 DEF StartPublish, ActOn
    <3>2. CASE StartRemove(r, k)
      BY <3>2 DEF StartRemove, ActOn
    <3> QED
      BY <2>1, <3>1, <3>2
  <2> QED
    BY <1>1, <1>2, <2>2 DEF Running
<1>15. CASE Touches
  <2>1. PICK o \in Owners, m \in Markers, left \in {"none", "resolved", "open"} : Touch(o, m, left)
    BY <1>15 DEF Touches
  <2>2. CASE Running /\ job.pc \in {"items", "post", "posted", "publishing"}
             /\ job' = [job EXCEPT !.gone = @ \cup {m}]
    <3>1. job \in Work
      BY <2>2, AtWork DEF IInv
    <3>2. job'.pc = job.pc
      BY <2>2, <3>1 DEF Work
    <3> QED
      BY <1>1, <2>2, <3>2, SameWork DEF IInv, ModeInv, Running
  <2> QED
    BY <1>2, <2>1, <2>2 DEF Touch, Gone
<1> QED
  BY <1>1, <1>2, <1>4, <1>6, <1>7, <1>8, <1>9, <1>10, <1>11, <1>12, <1>13, <1>14, <1>15,
     WhoChanges DEF Run, ModeInv
-----------------------------------------------------------------------------
(***************************************************************************)
(* The page                                                                *)
(***************************************************************************)

\* A review's owner and markers last as long as it does.
LEMMA SameMarkers ==
    ASSUME IInv, [Next]_vars, NEW r \in Requests, Started(r)
    PROVE  /\ Owner(r)' = Owner(r) /\ \A k \in Keys : Marker(r, k)' = Marker(r, k)
           /\ \A k \in Keys : Marker(r, k) \in Markers
           /\ Owner(r) \in Owners /\ Started(r)'
<1>1. ReviewsKept
  BY ReviewStep
<1>2. trigger'[r] = trigger[r] /\ review'[r].version = review[r].version /\ Started(r)'
  BY <1>1 DEF ReviewsKept, Lasting, Started
<1>3. TypeOK /\ AdmittedInv /\ review[r].state # "none"
  BY DEF IInv, Started
<1> QED
  BY <1>2, <1>3, Asked, Marking DEF Owner, Marker

\* What is left on the page for the cap to be about after a step that exempts
\* whatever it opens.
LEMMA ChargedShrinks ==
    ASSUME NEW pg, NEW sp, NEW pg2, NEW sp2, Charged(pg2, sp2) \subseteq Charged(pg, sp)
    PROVE  /\ Cardinality(Charged(pg2, sp2)) \in Nat /\ Cardinality(Charged(pg, sp)) \in Nat
           /\ Cardinality(Charged(pg2, sp2)) <= Cardinality(Charged(pg, sp))
BY Finite DEF Charged, OpenIn

\* A comment that was not there, or was missed there, with room for it, is one
\* the reviewer knew of as the only one of its marker, and leaves no more open
\* findings than the cap.
LEMMA PutsOne ==
    ASSUME IInv, NEW r \in Requests, Started(r), NEW k \in Keys, PutOn(r, k),
           Has(r, k) => Marker(r, k) \in missed[Owner(r)],
           k # Summary => Cardinality(Charged(page[Owner(r)], Spared(Owner(r)))) < Cap
    PROVE  /\ OnceOnPage' /\ CommentCap'
           /\ \A o \in Owners : Spared(o)' = Spared(o)
           /\ \A m \in Markers :
                page'[Owner(r)][m] = IF m = Marker(r, k)
                                     THEN IF page[Owner(r)][m] = "none" THEN "open" ELSE "twice"
                                     ELSE page[Owner(r)][m]
<1>1. PICK o \in Owners, m \in Markers :
         /\ o = Owner(r) /\ m = Marker(r, k)
         /\ (k = Summary => m \notin Findings) /\ (k # Summary => m = k /\ k \in Findings)
  BY Asked, Marking DEF IInv, Started
<1>2. /\ page \in [Owners -> [Markers -> {"none", "open", "resolved", "twice"}]]
      /\ page' = [page EXCEPT ![o][m] = IF page[o][m] # "none" THEN "twice" ELSE "open"]
      /\ missed' = missed /\ reopened' = reopened
  BY <1>1 DEF PutOn, Has, IInv, TypeOK
<1>3. ASSUME NEW p \in Owners, NEW n \in Markers
      PROVE  page'[p][n] = IF p = o /\ n = m
                           THEN IF page[p][n] = "none" THEN "open" ELSE "twice"
                           ELSE page[p][n]
  BY <1>2
<1>4. page[o][m] # "none" => m \in missed[o]
  BY <1>1 DEF Has
<1>5. OnceOnPage'
  BY <1>2, <1>3, <1>4 DEF IInv, OnceOnPage
<1>6. Findings \subseteq Markers
  BY DEF Markers
<1>7. ASSUME NEW p \in Owners, p # o \/ k = Summary
      PROVE  Charged(page'[p], Spared(p)') \subseteq Charged(page[p], Spared(p))
  BY <1>1, <1>2, <1>3, <1>6, <1>7 DEF Charged, OpenIn, Spared
<1>8. ASSUME k # Summary
      PROVE  Charged(page'[o], Spared(o)') \subseteq Charged(page[o], Spared(o)) \cup {k}
  BY <1>1, <1>2, <1>3, <1>6, <1>8 DEF Charged, OpenIn, Spared
<1>9. ASSUME NEW p \in Owners
      PROVE  Cardinality(Charged(page'[p], Spared(p)')) <= Cap
  <2>1. Cardinality(Charged(page[p], Spared(p))) <= Cap /\ Cap \in Nat
    BY DocumentAssumption DEF IInv, CommentCap, Charged, OpenOf, Spared
  <2>2. CASE p # o \/ k = Summary
    BY <1>7, <2>1, <2>2, ChargedShrinks
  <2>3. CASE p = o /\ k # Summary
    <3>1. Charged(page[o], Spared(o)) \in SUBSET Findings
      BY DEF Charged, OpenIn
    <3>2. Cardinality(Charged(page[o], Spared(o))) < Cap
      BY <1>1, <2>3
    <3>3. Cardinality(Charged(page'[o], Spared(o)')) <= Cardinality(Charged(page[o], Spared(o))) + 1
      BY <1>1, <1>8, <2>3, <3>1, OneMore
    <3>4. /\ Cardinality(Charged(page[o], Spared(o))) \in Nat
          /\ Cardinality(Charged(page'[o], Spared(o)')) \in Nat
      BY <1>1, Finite DEF Charged, OpenIn
    <3> QED
      BY <2>1, <2>3, <3>2, <3>3, <3>4
  <2> QED
    BY <2>2, <2>3
<1>10. CommentCap'
  BY <1>9 DEF CommentCap, Charged, OpenOf, Spared
<1>11. \A p \in Owners : Spared(p)' = Spared(p)
  BY <1>2 DEF Spared
<1> QED
  BY <1>1, <1>3, <1>5, <1>10, <1>11

\* What people and owners leave of a comment: what is opened again is spared,
\* and only a comment that is gone is no longer missed.
LEMMA LeavesLess ==
    ASSUME IInv, NEW o \in Owners, NEW m \in Markers, NEW left \in {"none", "resolved", "open"},
           page[o][m] # "none", Leave(o, m, left)
    PROVE  /\ OnceOnPage' /\ CommentCap'
           /\ \A n \in Markers : page'[o][n] = IF n = m THEN left ELSE page[o][n]
           /\ \A p \in Owners :
                /\ p # o => page'[p] = page[p] /\ missed'[p] = missed[p] /\ Spared(p)' = Spared(p)
                /\ Charged(page'[p], Spared(p)') \subseteq Charged(page[p], Spared(p))
                /\ \A n \in Markers : n \in missed[p] => n \in missed'[p] \/ page'[p][n] = "none"
<1>1. /\ page \in [Owners -> [Markers -> {"none", "open", "resolved", "twice"}]]
      /\ missed \in [Owners -> SUBSET Markers] /\ reopened \in [Owners -> SUBSET Markers]
  BY DEF IInv, TypeOK
<1>2. ASSUME NEW p \in Owners, NEW n \in Markers
      PROVE  page'[p][n] = IF p = o /\ n = m THEN left ELSE page[p][n]
  BY <1>1 DEF Leave
<1>3. ASSUME NEW p \in Owners
      PROVE  /\ missed'[p] = IF p = o /\ left = "none" THEN missed[p] \ {m} ELSE missed[p]
             /\ p # o => reopened'[p] = reopened[p]
  BY <1>1 DEF Leave
<1>4. /\ left # "open" => reopened'[o] = reopened[o] \ {m}
      /\ left = "open" /\ page[o][m] = "resolved" => reopened'[o] = reopened[o] \cup {m}
      /\ left = "open" /\ page[o][m] # "resolved" => reopened' = reopened
  BY <1>1 DEF Leave
<1>5. ASSUME NEW p \in Owners, p # o
      PROVE  page'[p] = page[p]
  BY <1>1, <1>5 DEF Leave
<1>6. OnceOnPage'
  BY <1>2, <1>3 DEF IInv, OnceOnPage
<1>7. Findings \subseteq Markers
  BY DEF Markers
<1>8. ASSUME NEW p \in Owners
      PROVE  Charged(page'[p], Spared(p)') \subseteq Charged(page[p], Spared(p))
  <2>1. CASE p # o
    BY <1>3, <1>5, <2>1 DEF Charged, Spared
  <2>2. CASE p = o
    <3>1. ASSUME NEW f \in Findings, f \in Charged(page'[o], Spared(o)')
          PROVE  f \in Charged(page[o], Spared(o))
      <4>1. page'[o][f] = (IF f = m THEN left ELSE page[o][f]) /\ page'[o][f] \in {"open", "twice"}
            /\ f \notin missed'[o] /\ f \notin reopened'[o]
        BY <1>2, <1>7, <3>1 DEF Charged, OpenIn, Spared
      <4>2. CASE f # m
        BY <1>3, <1>4, <4>1, <4>2 DEF Charged, OpenIn, Spared
      <4>3. CASE f = m
        <5>1. left = "open" /\ page[o][m] # "resolved"
          BY <1>4, <4>1, <4>3
        <5>2. reopened' = reopened /\ missed'[o] = missed[o]
          BY <1>3, <1>4, <5>1
        <5>3. page[o][m] \in {"open", "twice"}
          BY <1>1, <5>1
        <5> QED
          BY <4>1, <4>3, <5>2, <5>3 DEF Charged, OpenIn, Spared
      <4> QED
        BY <4>2, <4>3
    <3>2. Charged(page'[o], Spared(o)') \subseteq Findings
      BY DEF Charged, OpenIn
    <3> QED
      BY <2>2, <3>1, <3>2
  <2> QED
    BY <2>1, <2>2
<1>9. ASSUME NEW p \in Owners
      PROVE  Cardinality(Charged(page'[p], Spared(p)')) <= Cap
  <2>1. Cardinality(Charged(page[p], Spared(p))) <= Cap
    BY DEF IInv, CommentCap, Charged, OpenOf, Spared
  <2> QED
    BY <1>8, <2>1, ChargedShrinks, DocumentAssumption
<1>10. CommentCap'
  BY <1>9 DEF CommentCap, Charged, OpenOf, Spared
<1> QED
  BY <1>2, <1>3, <1>5, <1>6, <1>8, <1>10 DEF Spared

\* A run that posts has found its comment neither on the page, unless its
\* reading missed it there, nor in want of room.
LEMMA PostFits ==
    ASSUME IInv, Running, job.pc = "post"
    PROVE  /\ Carrying /\ job.r \in Requests /\ Started(job.r) /\ job.key \in Keys
           /\ Has(job.r, job.key) => Marker(job.r, job.key) \in missed[Owner(job.r)]
           /\ job.key # Summary =>
                Cardinality(Charged(page[Owner(job.r)], Spared(Owner(job.r)))) < Cap
<1>1. TypeOK /\ AdmittedInv /\ job # Idle
  BY DEF IInv, Running
<1>2. job.r \in Requests /\ Started(job.r) /\ job.key \in Keys /\ job.slots \in Nat
  BY <1>1, AtWork, JobOfReview DEF Started
<1>3. Carrying
  BY DEF IInv, ModeInv, Carrying
<1>4. PICK o : o = Owner(job.r)
  OBVIOUS
<1>5. /\ Unposted(job, page[o], missed[o], Names(job.r)) /\ UnderWay(job, Names(job.r))
      /\ Room(job, page[o], Spared(o), Names(job.r))
  BY <1>3, <1>4 DEF IInv, PostInv, Agrees
<1>6. Has(job.r, job.key) => Marker(job.r, job.key) \in missed[o]
  BY <1>2, <1>4, <1>5 DEF Unposted, UnderWay, WaitingOf, Names, Has
<1>7. ASSUME job.key # Summary
      PROVE  Cardinality(Charged(page[o], Spared(o))) < Cap
  <2>1. job.slots > 0 /\ Cardinality(Charged(page[o], Spared(o))) + job.slots <= Cap
    BY <1>5, <1>7, DocumentAssumption DEF UnderWay, Room, Pending
  <2>2. Cardinality(Charged(page[o], Spared(o))) \in Nat
    BY Finite DEF Charged, OpenIn
  <2> QED
    BY <1>2, <2>1, <2>2, DocumentAssumption
<1> QED
  BY <1>2, <1>3, <1>4, <1>6, <1>7

\* The fields of an owner's request at work.
LEMMA ActAtWork ==
    ASSUME IInv, job # Idle, job.kind = "act"
    PROVE  job.r \in Requests /\ Started(job.r) /\ job.key \in Keys
<1>1. TypeOK /\ AdmittedInv /\ job \in JobType
  BY DEF IInv, TypeOK
<1>2. job.key \in Keys
  BY <1>1 DEF JobType, Work
<1> QED
  BY <1>1, <1>2, JobOfReview DEF Started

\* No step puts a second comment of a marker on the page or passes the cap,
\* beside what was missed or opened again.
LEMMA PageStep ==
    ASSUME IInv, [Next]_vars
    PROVE  OnceOnPage' /\ CommentCap'
<1>1. CASE page' = page /\ missed' = missed /\ reopened' = reopened
  BY <1>1 DEF IInv, OnceOnPage, CommentCap, OpenOf
<1>2. CASE Post
  <2>1. CASE PutOn(job.r, job.key)
    BY <1>2, <2>1, PostFits, PutsOne DEF Post
  <2> QED
    BY <1>1, <1>2, <2>1 DEF Post, comments
<1>3. CASE PublishNow
  <2>1. CASE PutOn(job.r, job.key)
    <3>1. /\ Has(job.r, job.key) => Marker(job.r, job.key) \in missed[Owner(job.r)]
          /\ job.key # Summary =>
               Cardinality(Charged(page[Owner(job.r)], Spared(Owner(job.r)))) < Cap
      BY <1>3 DEF PublishNow, IInv, ActInv
    <3> QED
      BY <1>3, <2>1, <3>1, ActAtWork, PutsOne DEF PublishNow, Acting
  <2> QED
    BY <1>1, <1>3, <2>1 DEF PublishNow, comments
<1>4. CASE RemoveNow
  <2>1. job.r \in Requests /\ Started(job.r) /\ job.key \in Keys
    BY <1>4, ActAtWork DEF RemoveNow, Acting
  <2>2. Owner(job.r) \in Owners /\ Marker(job.r, job.key) \in Markers
    BY <2>1, SameMarkers
  <2>3. CASE Has(job.r, job.key) /\ \E left \in {"none", "open"} :
               Leave(Owner(job.r), Marker(job.r, job.key), left)
    BY <2>2, <2>3, LeavesLess DEF Has
  <2> QED
    BY <1>1, <1>4, <2>3 DEF RemoveNow, comments
<1>5. CASE Touches
  <2>1. PICK o \in Owners, m \in Markers, left \in {"none", "resolved", "open"} : Touch(o, m, left)
    BY <1>5 DEF Touches
  <2> QED
    BY <2>1, LeavesLess DEF Touch
<1>6. ASSUME NEW o \in Owners, NEW list \in Listings(o), Miss(o, list), UNCHANGED <<page, reopened>>
      PROVE  OnceOnPage' /\ CommentCap'
  <2>1. /\ missed \in [Owners -> SUBSET Markers]
        /\ \A p \in Owners : missed[p] \subseteq missed'[p]
    BY <1>6 DEF IInv, TypeOK, Miss
  <2>2. OnceOnPage'
    BY <1>6, <2>1 DEF IInv, OnceOnPage
  <2>3. ASSUME NEW p \in Owners
        PROVE  Cardinality(Charged(page'[p], Spared(p)')) <= Cap
    <3>1. Charged(page'[p], Spared(p)') \subseteq Charged(page[p], Spared(p))
      BY <1>6, <2>1 DEF Charged, Spared
    <3>2. Cardinality(Charged(page[p], Spared(p))) <= Cap
      BY DEF IInv, CommentCap, Charged, OpenOf, Spared
    <3> QED
      BY <3>1, <3>2, ChargedShrinks, DocumentAssumption
  <2> QED
    BY <2>2, <2>3 DEF CommentCap, Charged, OpenOf, Spared
<1>7. CASE ReadPage
  <2>1. Owner(job.r) \in Owners
    BY <1>7, JobOfReview DEF IInv, ReadPage, Running
  <2> QED
    BY <1>1, <1>6, <1>7, <2>1 DEF ReadPage
<1>8. ASSUME NEW r \in Requests, NEW k \in Keys, StartPublish(r, k)
      PROVE  OnceOnPage' /\ CommentCap'
  <2>1. Owner(r) \in Owners
    BY <1>8, Asked DEF IInv, StartPublish, Manageable
  <2> QED
    BY <1>6, <1>8, <2>1 DEF StartPublish
<1> QED
  BY <1>1, <1>2, <1>3, <1>4, <1>5, <1>7, <1>8, WhoChanges
-----------------------------------------------------------------------------
(***************************************************************************)
(* A draft about to be published                                           *)
(***************************************************************************)

\* A draft that may be published is not listed: bringing the rows up to date
\* would have shown it.
LEMMA DraftIsAway ==
    ASSUME IInv, NEW r \in Requests, Started(r), NEW k \in Keys, NEW list \in Listings(Owner(r)),
           Publishable(r, k, list)
    PROVE  list[Marker(r, k)] = "none"
<1>1. TypeOK /\ AdmittedInv
  BY DEF IInv
<1>2. Owner(r) \in Owners /\ Marker(r, k) \in Markers
  BY <1>1, Asked, Marking DEF Started
<1>3. list[Marker(r, k)] \in {"none", "open", "resolved", "twice"}
  BY <1>1, <1>2, ListingSound
<1> DEFINE row == Seeded(r)[k]
<1>4. SyncedRow(r, k, row, list).status \in {"drafted", "not_published"}
      /\ ~InConflict(r, k, SyncedRow(r, k, row, list), list)
  BY DEF Publishable, Synced
<1>5. list[Marker(r, k)] # "twice"
  BY <1>4 DEF InConflict, Kept
<1>6. ASSUME list[Marker(r, k)] \in {"open", "resolved"}
      PROVE  FALSE
  <2>1. CASE row.status = "none" \/ Kept(row)
    BY <1>4, <1>6, <2>1 DEF SyncedRow, Kept
  <2>2. CASE row.status # "none" /\ ~Kept(row)
    <3>1. SyncedRow(r, k, row, list) = [row EXCEPT !.status = "committed", !.intent = "none"]
      BY <1>6, <2>2 DEF SyncedRow
    <3>2. [row EXCEPT !.status = "committed", !.intent = "none"].status = "committed"
      BY <1>1, SeededTyped DEF RowType
    <3> QED
      BY <1>4, <3>1, <3>2
  <2> QED
    BY <2>1, <2>2
<1> QED
  BY <1>3, <1>5, <1>6

\* Every step keeps what an owner's publication relies on.
LEMMA ActStep ==
    ASSUME IInv, [Next]_vars
    PROVE  ActInv'
<1>1. SUFFICES ASSUME Acting("publish")'
               PROVE  ActInv'
  BY DEF ActInv
<1>2. job' # Idle /\ job'.kind = "act" /\ job'.pc = "publish"
  BY <1>1 DEF Acting
<1>3. ASSUME NEW o, NEW m, NEW k, o = Owner(job.r)', m = Marker(job.r, job.key)', k = job'.key,
             page'[o][m] # "none" => m \in missed'[o],
             k # Summary => Cardinality(Charged(page'[o], Spared(o)')) < Cap
      PROVE  ActInv'
  BY <1>3 DEF ActInv, Has, Spared
<1>4. ASSUME job' = job
      PROVE  \E o \in Owners, m \in Markers, k \in Keys :
                /\ o = Owner(job.r)' /\ m = Marker(job.r, job.key)' /\ k = job'.key
                /\ page[o][m] # "none" => m \in missed[o]
                /\ k # Summary => Cardinality(Charged(page[o], Spared(o))) < Cap
                /\ Acting("publish") /\ job.key = k
  <2>1. Acting("publish") /\ job # Idle /\ job.kind = "act"
    BY <1>2, <1>4 DEF Acting
  <2>2. job.r \in Requests /\ Started(job.r) /\ job.key \in Keys
    BY <2>1, ActAtWork
  <2>3. PICK r \in Requests, k \in Keys : r = job.r /\ k = job.key /\ Started(r)
    BY <2>2
  <2>4. /\ Owner(r)' = Owner(r) /\ Marker(r, k)' = Marker(r, k)
        /\ Owner(r) \in Owners /\ Marker(r, k) \in Markers
    BY <2>3, SameMarkers
  <2>5. Owner(job.r)' = Owner(r) /\ Marker(job.r, job.key)' = Marker(r, k)
    BY <1>4, <2>3, <2>4 DEF Owner, Marker
  <2>6. /\ page[Owner(r)][Marker(r, k)] # "none" => Marker(r, k) \in missed[Owner(r)]
        /\ k # Summary => Cardinality(Charged(page[Owner(r)], Spared(Owner(r)))) < Cap
    BY <2>1, <2>3 DEF IInv, ActInv, Has
  <2> QED
    BY <1>4, <2>1, <2>3, <2>4, <2>5, <2>6
<1>5. CASE job' = job /\ UNCHANGED comments
  <2>1. \A o : Charged(page'[o], Spared(o)') = Charged(page[o], Spared(o))
    BY <1>5 DEF comments, Spared
  <2> QED
    BY <1>3, <1>4, <1>5, <2>1 DEF comments
<1>6. CASE Touches
  <2>1. PICK p \in Owners, n \in Markers, left \in {"none", "resolved", "open"} : Touch(p, n, left)
    BY <1>6 DEF Touches
  <2>2. job' = job \/ Running
    BY <2>1 DEF Touch, Gone
  <2>3. CASE job' = job
    <3>1. Leave(p, n, left) /\ page[p][n] # "none"
      BY <2>1 DEF Touch
    <3>2. PICK o \in Owners, m \in Markers, k \in Keys :
             /\ o = Owner(job.r)' /\ m = Marker(job.r, job.key)' /\ k = job'.key
             /\ page[o][m] # "none" => m \in missed[o]
             /\ k # Summary => Cardinality(Charged(page[o], Spared(o))) < Cap
      BY <1>4, <2>3
    <3>3. /\ Charged(page'[o], Spared(o)') \subseteq Charged(page[o], Spared(o))
          /\ m \in missed[o] => m \in missed'[o] \/ page'[o][m] = "none"
      BY <3>1, LeavesLess
    <3>4. page[o][m] = "none" => page'[o][m] = "none"
      BY <3>1, LeavesLess
    <3>5. k # Summary => Cardinality(Charged(page'[o], Spared(o)')) < Cap
      BY <3>2, <3>3, ChargedShrinks, DocumentAssumption
    <3> QED
      BY <1>3, <3>2, <3>3, <3>4, <3>5
  <2>4. CASE job' # job
    <3>1. Running /\ job.pc \in {"items", "post", "posted", "publishing"}
          /\ job' = [job EXCEPT !.gone = @ \cup {n}]
      BY <2>1, <2>4 DEF Touch, Gone
    <3>2. job \in Work
      BY <3>1, AtWork DEF IInv
    <3>3. job'.kind = "run"
      BY <3>1, <3>2 DEF Work
    <3> QED
      BY <1>2, <3>3
  <2> QED
    BY <2>3, <2>4
<1>7. ASSUME NEW r \in Requests, NEW k \in Keys, StartPublish(r, k)
      PROVE  ActInv'
  <2>1. /\ job' = ActOn(r, k, "publish") /\ UNCHANGED <<page, reopened>> /\ Started(r)
        /\ TypeOK /\ AdmittedInv
    BY <1>7 DEF StartPublish, Manageable, Started, IInv
  <2>2. PICK list \in Listings(Owner(r)) : Publishable(r, k, list) /\ Miss(Owner(r), list)
    BY <1>7 DEF StartPublish
  <2>3. PICK o \in Owners, m \in Markers :
           o = Owner(r) /\ m = Marker(r, k) /\ o = Owner(r)' /\ m = Marker(r, k)'
    BY <2>1, SameMarkers
  <2>4. /\ Charged(page[o], Spared(o)') \subseteq OpenIn(list)
        /\ list[m] = "none" /\ page[o][m] # "none" => m \in missed'[o]
    BY <2>1, <2>2, <2>3, ListingCounts
  <2>5. list[m] = "none"
    BY <2>1, <2>2, <2>3, DraftIsAway
  <2>6. ASSUME k # Summary
        PROVE  Cardinality(Charged(page'[o], Spared(o)')) < Cap
    <3>1. Cardinality(OpenIn(list)) + Cardinality({f \in Findings : list[f] = "twice"}) < Cap
      BY <2>2, <2>6 DEF Publishable
    <3>2. Cardinality({f \in Findings : list[f] = "twice"}) \in Nat
      BY Finite
    <3>3. /\ Cardinality(OpenIn(list)) \in Nat /\ Cardinality(Charged(page[o], Spared(o)')) \in Nat
          /\ Cardinality(Charged(page[o], Spared(o)')) <= Cardinality(OpenIn(list))
      BY <2>4, Finite DEF OpenIn
    <3> QED
      BY <2>1, <3>1, <3>2, <3>3, DocumentAssumption
  <2>7. job'.r = r /\ job'.key = k
    BY <2>1 DEF ActOn
  <2>8. o = Owner(job.r)' /\ m = Marker(job.r, job.key)'
    BY <2>3, <2>7 DEF Owner, Marker
  <2> QED
    BY <1>3, <2>1, <2>4, <2>5, <2>6, <2>7, <2>8
<1>8. ASSUME NEW r \in Requests, NEW k \in Keys, StartRemove(r, k)
      PROVE  ActInv'
  BY <1>2, <1>5, <1>8 DEF StartRemove, ActOn
<1>9. CASE Dashboard
  <2>1. job \in JobType /\ job # Idle /\ job.kind = "act"
    BY <1>9 DEF Dashboard, PublishNow, RecordPublish, RemoveNow, RecordRemove, Acting, IInv, TypeOK
  <2>2. \E pc \in {"published", "removed"} : job' = [job EXCEPT !.pc = pc]
    BY <1>2, <1>9 DEF Dashboard, PublishNow, RecordPublish, RemoveNow, RecordRemove
  <2>3. job'.pc \in {"published", "removed"}
    BY <2>1, <2>2 DEF JobType, Work
  <2> QED
    BY <1>2, <2>3
<1>10. CASE \E r \in Requests : StartRun(r)
  BY <1>2, <1>5, <1>10 DEF StartRun, Release
<1>11. CASE Run
  <2>1. CASE Analyse \/ Decide \/ Finish \/ Deliver
    BY <1>2, <2>1 DEF Analyse, Fail, Decide, Finish, Deliver, Release
  <2>2. CASE ReadPage \/ RecordPost \/ Report \/ Post \/ \E k \in Keys : NextItem(k)
    <3>1. Running /\ job \in Work
      BY <2>2, AtWork DEF ReadPage, RecordPost, Report, Post, NextItem, IInv
    <3>2. CASE ReadPage \/ RecordPost \/ Report
      <4>1. job'.kind = "run"
        BY <3>1, <3>2, ReadResult DEF RecordPost, Report, Work, IInv
      <4> QED
        BY <1>2, <4>1
    <3>3. CASE Post
      <4>1. job'.kind = "run"
        BY <3>1, <3>3 DEF Post, Fail, Work
      <4> QED
        BY <1>2, <4>1
    <3>4. CASE \E k \in Keys : NextItem(k)
      <4>1. job'.kind = "run"
        BY <3>1, <3>4 DEF NextItem, Work
      <4> QED
        BY <1>2, <4>1
    <3> QED
      BY <2>2, <3>2, <3>3, <3>4
  <2> QED
    BY <1>11, <2>1, <2>2 DEF Run
<1>12. CASE StopSeen \/ Crash
  BY <1>2, <1>12 DEF StopSeen, Crash, Release
<1>13. CASE job' = job /\ ~UNCHANGED comments
  <2>1. ~Post /\ ~ReadPage
    BY <1>2, <1>13 DEF Post, ReadPage, Running
  <2> QED
    BY <1>6, <1>9, <1>13, <1>7, <2>1, WhoChanges DEF Dashboard, comments
<1>14. \/ job' = job
       \/ \E r \in Requests, k \in Keys : StartPublish(r, k) \/ StartRemove(r, k)
       \/ (\E r \in Requests : StartRun(r)) \/ Run \/ StopSeen \/ Crash \/ Dashboard \/ Touches
  BY WhoChanges DEF TakesOver
<1> QED
  BY <1>5, <1>6, <1>8, <1>9, <1>10, <1>11, <1>12, <1>13, <1>14, <1>7
-----------------------------------------------------------------------------
(***************************************************************************)
(* The run's picture of the page, step by step                             *)
(***************************************************************************)

\* A step that leaves fewer findings to charge, more seen, and no more waiting
\* keeps the room.
LEMMA RoomKept ==
    ASSUME NEW j, NEW pg, NEW sp, NEW mk, NEW new, NEW pg2, NEW sp2,
           Room(j, pg, sp, mk), j.pc # "publishing",
           Charged(pg2, sp2) \subseteq Charged(pg, sp), Seen(j, pg) \subseteq Seen(new, pg2),
           WaitingOf(new) \subseteq WaitingOf(j), new.posted = j.posted,
           j.slots \in Nat, new.slots - Pending(new) = j.slots - Pending(j), new.slots \in Nat
    PROVE  Room(new, pg2, sp2, mk)
<1>1. Pending(j) \in Nat /\ Pending(new) \in Nat /\ Cap \in Nat
  BY DocumentAssumption DEF Pending
<1>2. /\ Cardinality(Charged(pg2, sp2)) \in Nat /\ Cardinality(Charged(pg, sp)) \in Nat
      /\ Cardinality(Charged(pg2, sp2)) <= Cardinality(Charged(pg, sp))
  BY ChargedShrinks
<1>3. Cardinality(Charged(pg, sp)) + j.slots <= Cap + Pending(j)
  BY DEF Room
<1>4. Cardinality(Charged(pg2, sp2)) + new.slots <= Cap + Pending(new)
  BY <1>1, <1>2, <1>3
<1>5. PICK T \in SUBSET Findings : Fills(T, j, pg, mk)
  BY DEF Room
<1>6. Cardinality(T) \in Nat
  BY Finite
<1>7. Cardinality(T) + new.slots >= Cap + Pending(new)
  BY <1>1, <1>5, <1>6 DEF Fills
<1>8. Fills(T, new, pg2, mk)
  BY <1>5, <1>7 DEF Fills
<1> QED
  BY <1>4, <1>8 DEF Room

\* A finding that found no room found a page that had none.
LEMMA NoRoom ==
    ASSUME NEW j, NEW pg, NEW sp, NEW mk, Room(j, pg, sp, mk), j.pc = "items", j.slots = 0
    PROVE  Cardinality(Seen(j, pg)) >= Cap
<1>1. PICK T \in SUBSET Findings : Fills(T, j, pg, mk)
  BY DEF Room
<1>2. T \in SUBSET Seen(j, pg) /\ Seen(j, pg) \in SUBSET Findings
  BY <1>1 DEF Fills, Seen, OpenIn
<1>3. /\ Cardinality(T) \in Nat /\ Cardinality(Seen(j, pg)) \in Nat
      /\ Cardinality(T) <= Cardinality(Seen(j, pg))
  BY <1>2, Finite
<1>4. Cardinality(T) >= Cap
  BY <1>1, <1>3, DocumentAssumption DEF Fills, Pending
<1> QED
  BY <1>3, <1>4, DocumentAssumption

\* What was seen once was seen.
LEMMA SeenMore ==
    ASSUME NEW j, NEW pg, NEW new, NEW pg2, Seen(j, pg) \subseteq Seen(new, pg2),
           Cardinality(Seen(j, pg)) >= Cap
    PROVE  Cardinality(Seen(new, pg2)) >= Cap
<1>1. Seen(new, pg2) \in SUBSET Findings /\ Seen(j, pg) \in SUBSET Seen(new, pg2)
  BY DEF Seen, OpenIn
<1> QED
  BY <1>1, Finite, DocumentAssumption

\* Its look at the page.
LEMMA PictureTaken ==
    ASSUME NEW j, NEW pg, NEW ms, NEW sp, NEW rw, NEW mk, NEW new, NEW list,
           Cardinality(Charged(pg, sp)) <= Cap, Charged(pg, sp) \subseteq OpenIn(list),
           OpenIn(list) \subseteq OpenIn(pg),
           \A m \in Markers : /\ list[m] # "none" => pg[m] # "none"
                              /\ list[m] = "none" /\ pg[m] # "none" => m \in ms,
           j.todo = j.found \cup {Summary},
           new.pc = "items", new.todo = j.todo, new.found = j.found, new.gone = {},
           new.posted = Posted(list), Naming(mk), new.slots = Slots(list),
           j.todo \subseteq Keys
    PROVE  Agrees(new, pg, ms, sp, rw, mk)
<1>1. WaitingOf(new) = new.found \cup {Summary}
  BY DEF WaitingOf
<1>2. Unposted(new, pg, ms, mk)
  BY <1>1 DEF Unposted, Naming, Posted
<1>3. PostedSeen(new, pg) /\ Dealt(new, pg, rw, mk) /\ UnderWay(new, mk)
  BY <1>1 DEF PostedSeen, Dealt, UnderWay, Posted
<1>4. Pending(new) = 0 /\ Cap \in Nat
  BY DocumentAssumption DEF Pending
<1>5. /\ Cardinality(Charged(pg, sp)) \in Nat /\ Cardinality(OpenIn(list)) \in Nat
      /\ Cardinality(Charged(pg, sp)) <= Cardinality(OpenIn(list))
  BY Finite DEF OpenIn
<1>6. Cardinality(Charged(pg, sp)) + new.slots <= Cap + Pending(new)
  BY <1>4, <1>5, SlotsCounted
<1>7. Fills(OpenIn(list), new, pg, mk)
  <2>1. OpenIn(list) \subseteq Seen(new, pg)
    BY DEF Seen
  <2>2. Cardinality(OpenIn(list)) + new.slots >= Cap + Pending(new)
    BY <1>4, <1>5, SlotsCounted
  <2>3. \A m \in OpenIn(list) : m \in Posted(list)
    BY DEF OpenIn, Posted, Markers
  <2> QED
    BY <2>1, <2>2, <2>3 DEF Fills
<1>8. Room(new, pg, sp, mk)
  BY <1>6, <1>7 DEF Room, OpenIn
<1> QED
  BY <1>2, <1>3, <1>8 DEF Agrees

\* A comment listed, or held back because there is no room.
LEMMA PictureOfDealt ==
    ASSUME NEW j, NEW pg, NEW ms, NEW sp, NEW rw, NEW mk, NEW new, NEW rw2, NEW k \in Keys,
           Agrees(j, pg, ms, sp, rw, mk), j.pc = "items", new.pc = "items",
           new.todo = j.todo \ {k}, new.found = j.found, new.gone = j.gone,
           new.posted = j.posted, new.slots = j.slots, j.found \subseteq Findings,
           j.slots \in Nat,
           \A l \in Keys : l # k => rw2[l].eligible = rw[l].eligible,
           mk[k] \in j.posted \/ (j.slots = 0 /\ ~rw2[k].eligible)
    PROVE  Agrees(new, pg, ms, sp, rw2, mk)
<1>1. WaitingOf(j) = j.todo /\ WaitingOf(new) = j.todo \ {k} /\ Seen(new, pg) = Seen(j, pg)
      /\ Pending(new) = 0 /\ Pending(j) = 0
  BY DEF WaitingOf, Seen, Pending
<1>2. Unposted(new, pg, ms, mk) /\ PostedSeen(new, pg) /\ UnderWay(new, mk)
  BY <1>1 DEF Agrees, Unposted, PostedSeen, UnderWay
<1>3. Room(new, pg, sp, mk)
  BY <1>1, RoomKept DEF Agrees
<1>4. pg[mk[k]] # "none" \/ mk[k] \in j.gone \/ (~rw2[k].eligible /\ Cardinality(Seen(j, pg)) >= Cap)
  BY NoRoom DEF Agrees, PostedSeen
<1>5. Dealt(new, pg, rw2, mk)
  BY <1>1, <1>4 DEF Agrees, Dealt, Keys
<1> QED
  BY <1>2, <1>3, <1>5 DEF Agrees

\* A comment announced: it waits still, now at the head.
LEMMA PictureOfAnnounced ==
    ASSUME NEW j, NEW pg, NEW ms, NEW sp, NEW rw, NEW mk, NEW new, NEW rw2, NEW k \in Keys,
           Agrees(j, pg, ms, sp, rw, mk), j.pc = "items", new.pc = "post", new.key = k,
           k \in j.todo, new.todo = j.todo \ {k}, new.found = j.found, new.gone = j.gone,
           new.posted = j.posted, new.slots = j.slots, j.found \subseteq Findings,
           j.slots \in Nat, k = Summary \/ j.slots > 0, mk[k] \notin j.posted,
           \A l \in Keys : rw2[l].eligible = rw[l].eligible
    PROVE  Agrees(new, pg, ms, sp, rw2, mk)
<1>1. WaitingOf(j) = j.todo /\ WaitingOf(new) = j.todo /\ Seen(new, pg) = Seen(j, pg)
      /\ Pending(new) = 0 /\ Pending(j) = 0
  BY DEF WaitingOf, Seen, Pending
<1>2. Unposted(new, pg, ms, mk) /\ PostedSeen(new, pg) /\ UnderWay(new, mk)
  BY <1>1 DEF Agrees, Unposted, PostedSeen, UnderWay
<1>3. Room(new, pg, sp, mk)
  BY <1>1, RoomKept DEF Agrees
<1>4. Dealt(new, pg, rw2, mk)
  BY <1>1 DEF Agrees, Dealt, Keys
<1> QED
  BY <1>2, <1>3, <1>4 DEF Agrees

\* A comment posted: it takes up room, and fills it.
LEMMA PictureOfPosted ==
    ASSUME NEW j, NEW pg, NEW ms, NEW sp, NEW rw, NEW mk, NEW new, NEW pg2,
           Agrees(j, pg, ms, sp, rw, mk), j.pc = "post", new.pc = "posted", new.key = j.key,
           new.todo = j.todo, new.found = j.found, new.gone = j.gone,
           new.posted = j.posted, new.slots = j.slots, j.found \subseteq Findings,
           j.slots \in Nat, j.key \in Keys, j.todo \subseteq Keys, j.posted \subseteq Markers,
           Naming(mk),
           \A m \in Markers : pg2[m] = IF m = mk[j.key]
                                       THEN IF pg[m] = "none" THEN "open" ELSE "twice"
                                       ELSE pg[m]
    PROVE  Agrees(new, pg2, ms, sp, rw, mk)
<1>1. WaitingOf(j) = j.todo \cup {j.key} /\ WaitingOf(new) = j.todo /\ Pending(j) = 0
      /\ Pending(new) = IF j.key # Summary THEN 1 ELSE 0
  BY DEF WaitingOf, Pending
<1>2. j.key \notin j.todo /\ mk[j.key] \notin j.posted
      /\ (j.key # Summary => j.slots > 0)
  BY DEF Agrees, UnderWay
<1>3. \A k \in Keys : k # j.key => pg2[mk[k]] = pg[mk[k]]
  BY DEF Naming
<1>4. pg2[mk[j.key]] \in {"open", "twice"} /\ Findings \subseteq Markers
  BY DEF Naming, Markers
<1>5. Unposted(new, pg2, ms, mk)
  BY <1>1, <1>2, <1>3 DEF Agrees, Unposted
<1>6. PostedSeen(new, pg2) /\ UnderWay(new, mk)
  BY <1>2 DEF Agrees, PostedSeen, UnderWay
<1>7. Seen(j, pg) \subseteq Seen(new, pg2)
  BY <1>4 DEF Seen, OpenIn
<1>8. Room(new, pg2, sp, mk)
  <2>1. CASE j.key = Summary
    <3>1. Charged(pg2, sp) \subseteq Charged(pg, sp)
      BY <1>4, <2>1 DEF Charged, OpenIn, Naming
    <3>2. new.slots - Pending(new) = j.slots - Pending(j)
      BY <1>1, <2>1
    <3> QED
      BY <1>1, <1>7, <3>1, <3>2, RoomKept DEF Agrees
  <2>2. CASE j.key # Summary
    <3>1. j.key \in Findings /\ mk[j.key] = j.key /\ Pending(new) = 1
      BY <1>1, <2>2 DEF Keys, Naming
    <3>2. Charged(pg2, sp) \subseteq Charged(pg, sp) \cup {j.key}
          /\ Charged(pg, sp) \in SUBSET Findings
      BY <1>4, <3>1 DEF Charged, OpenIn
    <3>3. Cardinality(Charged(pg2, sp)) <= Cardinality(Charged(pg, sp)) + 1
      BY <3>1, <3>2, OneMore
    <3>4. /\ Cardinality(Charged(pg, sp)) \in Nat /\ Cardinality(Charged(pg2, sp)) \in Nat
      BY Finite DEF Charged, OpenIn
    <3>5. Cardinality(Charged(pg, sp)) + j.slots <= Cap
      BY <1>1, DocumentAssumption DEF Agrees, Room
    <3>6. Cardinality(Charged(pg2, sp)) + new.slots <= Cap + Pending(new)
      BY <3>1, <3>3, <3>4, <3>5, DocumentAssumption
    <3>7. PICK T \in SUBSET Findings : Fills(T, j, pg, mk)
      BY DEF Agrees, Room
    <3>8. j.key \notin T /\ IsFiniteSet(T) /\ Cardinality(T) \in Nat
      BY <1>1, <1>2, <3>1, <3>7, Finite DEF Fills
    <3>9. Cardinality(T \cup {j.key}) = Cardinality(T) + 1
      BY <3>8, FS_AddElement
    <3>10. Cardinality(T \cup {j.key}) + new.slots >= Cap + Pending(new)
      BY <1>1, <3>1, <3>7, <3>8, <3>9, DocumentAssumption DEF Fills
    <3>11. T \cup {j.key} \subseteq Seen(new, pg2)
      BY <1>4, <1>7, <3>1, <3>7 DEF Fills, Seen, OpenIn
    <3>12. \A k \in WaitingOf(new) : mk[k] \notin new.posted => mk[k] \notin T \cup {j.key}
      BY <1>1, <1>2, <3>1, <3>7 DEF Fills, Naming
    <3>13. Fills(T \cup {j.key}, new, pg2, mk)
      BY <3>10, <3>11, <3>12 DEF Fills
    <3> QED
      BY <3>1, <3>6, <3>13 DEF Room
  <2> QED
    BY <2>1, <2>2
<1>9. Dealt(new, pg2, rw, mk)
  <2>1. Cardinality(Seen(j, pg)) >= Cap => Cardinality(Seen(new, pg2)) >= Cap
    BY <1>7, SeenMore
  <2>2. ASSUME NEW k \in (j.found \cup {Summary}) \ j.todo
        PROVE  \/ pg2[mk[k]] # "none" \/ mk[k] \in j.gone
               \/ ~rw[k].eligible /\ Cardinality(Seen(new, pg2)) >= Cap
    <3>1. CASE k = j.key
      BY <1>4, <3>1
    <3>2. CASE k # j.key
      <4>1. k \in Keys /\ pg2[mk[k]] = pg[mk[k]]
        BY <1>3, <3>2 DEF Keys
      <4>2. \/ pg[mk[k]] # "none" \/ mk[k] \in j.gone
            \/ ~rw[k].eligible /\ Cardinality(Seen(j, pg)) >= Cap
        BY <1>1, <3>2 DEF Agrees, Dealt
      <4> QED
        BY <2>1, <4>1, <4>2
    <3> QED
      BY <3>1, <3>2
  <2> QED
    BY <1>1, <2>2 DEF Dealt
<1> QED
  BY <1>5, <1>6, <1>8, <1>9 DEF Agrees

\* The row says it, and the room it took is off the count.
LEMMA PictureOfRecorded ==
    ASSUME NEW j, NEW pg, NEW ms, NEW sp, NEW rw, NEW mk, NEW new, NEW rw2,
           Agrees(j, pg, ms, sp, rw, mk), j.pc = "posted", new.pc = "items",
           new.todo = j.todo, new.found = j.found, new.gone = j.gone, new.posted = j.posted,
           new.slots = j.slots - Pending(j), j.slots \in Nat, j.found \subseteq Findings,
           \A l \in Keys : rw2[l].eligible = rw[l].eligible
    PROVE  Agrees(new, pg, ms, sp, rw2, mk)
<1>1. WaitingOf(j) = j.todo /\ WaitingOf(new) = j.todo /\ Seen(new, pg) = Seen(j, pg)
      /\ Pending(new) = 0
  BY DEF WaitingOf, Seen, Pending
<1>2. Unposted(new, pg, ms, mk) /\ PostedSeen(new, pg) /\ UnderWay(new, mk)
  BY <1>1 DEF Agrees, Unposted, PostedSeen, UnderWay
<1>3. Room(new, pg, sp, mk)
  <2>1. new.slots \in Nat /\ new.slots - Pending(new) = j.slots - Pending(j)
    BY <1>1 DEF Agrees, UnderWay, Pending
  <2> QED
    BY <1>1, <2>1, RoomKept DEF Agrees
<1>4. Dealt(new, pg, rw2, mk)
  BY <1>1 DEF Agrees, Dealt, Keys
<1> QED
  BY <1>2, <1>3, <1>4 DEF Agrees

\* Nothing is left to post.
LEMMA PictureOfReported ==
    ASSUME NEW j, NEW pg, NEW ms, NEW sp, NEW rw, NEW mk, NEW new,
           Agrees(j, pg, ms, sp, rw, mk), j.pc = "items", j.todo = {}, new.pc = "publishing",
           new.todo = j.todo, new.found = j.found, new.gone = j.gone, new.posted = j.posted
    PROVE  Agrees(new, pg, ms, sp, rw, mk)
<1>1. WaitingOf(j) = {} /\ WaitingOf(new) = {} /\ Seen(new, pg) = Seen(j, pg)
  BY DEF WaitingOf, Seen
<1> QED
  BY <1>1 DEF Agrees, Unposted, PostedSeen, Dealt, UnderWay, Room

\* Somebody takes a comment of the owner's off the page, resolves it or opens it
\* again.
LeavesOf(pg, ms, sp, pg2, ms2, sp2, m, left) ==
    /\ pg[m] # "none" /\ \A n \in Markers : pg2[n] = IF n = m THEN left ELSE pg[n]
    /\ \A n \in Markers : n \in ms => n \in ms2 \/ pg2[n] = "none"
    /\ Charged(pg2, sp2) \subseteq Charged(pg, sp)
LEMMA PictureOfTouched ==
    ASSUME NEW j, NEW pg, NEW ms, NEW sp, NEW rw, NEW mk, NEW new, NEW pg2, NEW ms2, NEW sp2,
           NEW m \in Markers, NEW left \in {"none", "resolved", "open"},
           Agrees(j, pg, ms, sp, rw, mk), Naming(mk),
           LeavesOf(pg, ms, sp, pg2, ms2, sp2, m, left),
           new.pc = j.pc, new.key = j.key, new.todo = j.todo, new.found = j.found,
           new.gone = IF left = "open" THEN j.gone ELSE j.gone \cup {m},
           new.posted = j.posted, new.slots = j.slots,
           j.found \subseteq Findings, j.todo \subseteq Keys, j.key \in Keys, j.slots \in Nat,
           j.posted \subseteq Markers
    PROVE  Agrees(new, pg2, ms2, sp2, rw, mk)
<1>1. /\ pg[m] # "none" /\ \A n \in Markers : pg2[n] = IF n = m THEN left ELSE pg[n]
      /\ \A n \in Markers : n \in ms => n \in ms2 \/ pg2[n] = "none"
      /\ Charged(pg2, sp2) \subseteq Charged(pg, sp)
  BY DEF LeavesOf
<1>2. WaitingOf(new) = WaitingOf(j) /\ WaitingOf(j) \subseteq Keys /\ Pending(new) = Pending(j)
      /\ Pending(j) \in Nat
  BY DEF WaitingOf, Pending
<1>3. Unposted(new, pg2, ms2, mk)
  <2>1. ASSUME NEW k \in WaitingOf(new), mk[k] \notin new.posted
        PROVE  pg2[mk[k]] = "none" \/ mk[k] \in ms2
    <3>1. mk[k] \in Markers
      BY <1>2 DEF Naming
    <3>2. pg[mk[k]] = "none" \/ mk[k] \in ms
      BY <1>2, <2>1 DEF Agrees, Unposted
    <3> QED
      BY <1>1, <3>1, <3>2
  <2> QED
    BY <2>1 DEF Unposted
<1>4. PostedSeen(new, pg2) /\ UnderWay(new, mk)
  BY <1>1 DEF Agrees, PostedSeen, UnderWay
<1>5. \A f \in Findings : pg2[f] = IF f = m THEN left ELSE pg[f]
  BY <1>1 DEF Markers
<1>6. Seen(j, pg) \subseteq Seen(new, pg2)
  BY <1>5 DEF OpenIn, Seen
<1>7. Room(new, pg2, sp2, mk)
  <2>1. CASE j.pc = "publishing"
    BY <2>1 DEF Room
  <2>2. CASE j.pc # "publishing"
    BY <1>1, <1>2, <1>6, <2>2, RoomKept DEF Agrees
  <2> QED
    BY <2>1, <2>2
<1>8. Dealt(new, pg2, rw, mk)
  <2>1. Cardinality(Seen(j, pg)) >= Cap => Cardinality(Seen(new, pg2)) >= Cap
    BY <1>6, SeenMore
  <2>2. ASSUME NEW k \in (j.found \cup {Summary}) \ WaitingOf(j)
        PROVE  \/ pg2[mk[k]] # "none" \/ mk[k] \in new.gone
               \/ ~rw[k].eligible /\ Cardinality(Seen(new, pg2)) >= Cap
    <3>1. mk[k] \in Markers
      BY DEF Keys, Naming
    <3>2. pg2[mk[k]] = pg[mk[k]] \/ mk[k] \in new.gone \/ pg2[mk[k]] = "open"
      BY <1>1, <3>1
    <3>3. \/ pg[mk[k]] # "none" \/ mk[k] \in new.gone
          \/ ~rw[k].eligible /\ Cardinality(Seen(j, pg)) >= Cap
      BY DEF Agrees, Dealt
    <3> QED
      BY <2>1, <3>2, <3>3
  <2> QED
    BY <1>2, <2>2 DEF Dealt
<1> QED
  BY <1>3, <1>4, <1>7, <1>8 DEF Agrees
-----------------------------------------------------------------------------
(***************************************************************************)
(* The invariant                                                           *)
(***************************************************************************)

\* The markers of a begun review's comments tell them apart.
LEMMA NamesName ==
    ASSUME TypeOK, NEW r \in Requests, Started(r)
    PROVE  Naming(Names(r))
<1>1. review[r].state # "none"
  BY DEF Started
<1>2. Summary \in Keys /\ Findings \subseteq Keys /\ Summary \notin Findings
  BY DocumentAssumption DEF Keys
<1>3. \A k \in Keys : Names(r)[k] = Marker(r, k)
  BY DEF Names
<1> QED
  BY <1>1, <1>2, <1>3, Marking DEF Naming

\* What a run at its comments goes on from.
LEMMA CarryingFrom ==
    ASSUME IInv, [Next]_vars, Running, Running',
           job.pc \in {"reading", "items", "post", "posted", "report", "publishing"}
    PROVE  /\ job \in Work /\ job.r \in Requests /\ Started(job.r)
           /\ job'.r = job.r /\ Owner(job.r)' = Owner(job.r) /\ Owner(job.r) \in Owners
           /\ Names(job.r)' = Names(job.r) /\ Naming(Names(job.r))
           /\ Carrying => Agrees(job, page[Owner(job.r)], missed[Owner(job.r)],
                                 Spared(Owner(job.r)), rows[job.r], Names(job.r))
           /\ trigger'[job.r] = trigger[job.r]
           /\ page[Owner(job.r)] \in [Markers -> {"none", "open", "resolved", "twice"}]
<1>1. TypeOK /\ AdmittedInv /\ job # Idle /\ job' # Idle
  BY DEF IInv, Running
<1>2. job \in Work /\ job.r \in Requests /\ Started(job.r)
  BY <1>1, AtWork, JobOfReview DEF Started
<1>3. job'.r = job.r /\ trigger'[job.r] = trigger[job.r]
      /\ review'[job.r].version = review[job.r].version
  BY <1>1, SameWork
<1>4. Owner(job.r)' = Owner(job.r) /\ Names(job.r)' = Names(job.r)
  BY <1>3 DEF Owner, Names, Marker
<1>5. Owner(job.r) \in Owners
  BY <1>2, SameMarkers
<1>6. Naming(Names(job.r))
  BY <1>1, <1>2, NamesName
<1>7. Carrying => Agrees(job, page[Owner(job.r)], missed[Owner(job.r)],
                         Spared(Owner(job.r)), rows[job.r], Names(job.r))
  BY DEF IInv, PostInv
<1>8. page[Owner(job.r)] \in [Markers -> {"none", "open", "resolved", "twice"}]
  BY <1>1, <1>5 DEF TypeOK
<1> QED
  BY <1>2, <1>3, <1>4, <1>5, <1>6, <1>7, <1>8

\* A row's status and intent say nothing of its eligibility.
LEMMA SameEligible ==
    ASSUME IInv, NEW r \in Requests, NEW k \in Keys, NEW row,
           row.eligible = rows[r][k].eligible, Remember(r, k, row)
    PROVE  \A l \in Keys : rows'[r][l].eligible = rows[r][l].eligible
<1>1. rows \in [Requests -> [Keys -> RowType]]
  BY DEF IInv, TypeOK
<1>2. \A l \in Keys : rows'[r][l] = IF l = k THEN row ELSE rows[r][l]
  BY <1>1 DEF Remember
<1> QED
  BY <1>2

\* Every step keeps the run's picture of the page.
LEMMA PostStep ==
    ASSUME IInv, [Next]_vars
    PROVE  PostInv'
<1>1. SUFFICES ASSUME Carrying'
               PROVE  PostInv'
  BY DEF PostInv
<1>2. /\ job' # Idle /\ Running'
      /\ job'.pc \in {"items", "post", "posted", "publishing"} /\ trigger'[job'.r].mode = "applied"
  BY <1>1 DEF Carrying, Running
<1>3. TypeOK /\ AdmittedInv
  BY DEF IInv
<1> DEFINE At == job.pc \in {"reading", "items", "post", "posted", "report", "publishing"}
<1>4. ASSUME Running, At
      PROVE  trigger[job.r].mode = "applied"
  BY <1>2, <1>4, CarryingFrom
<1>5. ASSUME Running, At,
             NEW o, o = Owner(job.r), NEW rw, rw = rows'[job.r],
             Agrees(job', page'[o], missed'[o], Spared(o)', rw, Names(job.r))
      PROVE  PostInv'
  <2>1. job'.r = job.r /\ Owner(job.r)' = Owner(job.r) /\ Names(job.r)' = Names(job.r)
    BY <1>2, <1>5, CarryingFrom
  <2>2. Owner(job.r)' = o /\ rows'[job'.r] = rw
    BY <1>5, <2>1
  <2>3. Names(job.r)' = Names(job.r)
    BY <2>1
  <2> QED
    BY <1>5, <2>2, <2>3 DEF PostInv, Spared
<1> DEFINE Now(rw) == Agrees(job', page[Owner(job.r)], missed[Owner(job.r)],
                             Spared(Owner(job.r)), rw, Names(job.r))
<1>6. ASSUME Running, At, UNCHANGED comments, NEW rw, rw = rows'[job.r], Now(rw)
       PROVE  PostInv'
  <2>1. PICK o : o = Owner(job.r)
    OBVIOUS
  <2>2. page'[o] = page[o] /\ missed'[o] = missed[o] /\ Spared(o)' = Spared(o)
    BY <1>6 DEF comments, Spared
  <2>3. Agrees(job', page'[o], missed'[o], Spared(o)', rw, Names(job.r))
    BY <1>6, <2>1, <2>2
  <2> QED
    BY <1>5, <1>6, <2>1, <2>3
<1>7. ASSUME job' = job, UNCHANGED comments, rows' = rows
      PROVE  PostInv'
  <2>1. Running /\ At /\ Carrying
    BY <1>2, <1>4, <1>7 DEF Running, Carrying
  <2>2. Now(rows[job.r])
    BY <1>2, <1>7, <2>1, CarryingFrom
  <2> QED
    BY <1>7, <1>6, <2>1, <2>2
<1>8. CASE ReadPage
  <2>1. Running /\ At /\ job.pc = "reading" /\ job \in Work /\ rows' = rows
        /\ UNCHANGED <<page, reopened>>
    BY <1>3, <1>8, AtWork DEF ReadPage
  <2>2. job.todo = job.found \cup {Summary} /\ job.todo \subseteq Keys
    BY <1>3, <2>1, AtWork DEF IInv, ModeInv
  <2>3. PICK o \in Owners : o = Owner(job.r) /\ Naming(Names(job.r))
    BY <1>2, <2>1, CarryingFrom
  <2>4. PICK list \in Listings(o) :
          /\ job' = [job EXCEPT !.pc = "items", !.posted = Posted(list),
                                !.slots = Slots(list), !.gone = {}]
          /\ Miss(o, list)
    <3>1. job'.pc = "items"
      BY <1>2, <1>3, <1>8, ReadResult
    <3> QED
      BY <1>3, <1>8, <2>3, <3>1, ReadResult
  <2>5. /\ OpenIn(list) \subseteq OpenIn(page[o])
        /\ Charged(page[o], Spared(o)') \subseteq OpenIn(list)
        /\ \A m \in Markers : /\ list[m] # "none" => page[o][m] # "none"
                              /\ list[m] = "none" /\ page[o][m] # "none" => m \in missed'[o]
    BY <1>3, <2>1, <2>4, ListingCounts, ListingSound DEF OpenOf
  <2>6. Cardinality(Charged(page[o], Spared(o)')) <= Cap
    <3>1. CommentCap'
      BY PageStep
    <3> QED
      BY <2>1, <3>1 DEF CommentCap, Charged, OpenOf, Spared
  <2>7. /\ job'.pc = "items" /\ job'.todo = job.todo /\ job'.found = job.found /\ job'.gone = {}
        /\ job'.posted = Posted(list) /\ job'.slots = Slots(list)
    BY <2>1, <2>4 DEF Work
  <2>8. Agrees(job', page[o], missed'[o], Spared(o)', rows[job.r], Names(job.r))
    BY <2>2, <2>3, <2>5, <2>6, <2>7, PictureTaken
  <2> QED
    BY <1>5, <2>1, <2>3, <2>8
<1>9. ASSUME NEW k \in Keys, NextItem(k)
      PROVE  PostInv'
  <2>1. Running /\ At /\ job.pc = "items" /\ k \in job.todo /\ UNCHANGED comments
        /\ job \in Work
        /\ job.found \subseteq Findings /\ job.slots \in Nat /\ job.r \in Requests
    BY <1>3, <1>9, AtWork DEF NextItem
  <2>2. trigger[job.r].mode = "applied" /\ Carrying
    BY <1>4, <2>1 DEF Carrying
  <2>3. /\ Agrees(job, page[Owner(job.r)], missed[Owner(job.r)], Spared(Owner(job.r)),
                  rows[job.r], Names(job.r))
        /\ Names(job.r)[k] = Marker(job.r, k)
    BY <1>2, <2>1, <2>2, CarryingFrom DEF Names
  <2>4. rows \in [Requests -> [Keys -> RowType]] /\ rows[job.r][k] \in RowType
    BY <1>3, <2>1 DEF TypeOK
  <2>5. ASSUME job' = [job EXCEPT !.todo = @ \ {k}]
        PROVE  /\ job'.pc = "items" /\ job'.todo = job.todo \ {k} /\ job'.found = job.found
               /\ job'.gone = job.gone /\ job'.posted = job.posted /\ job'.slots = job.slots
    BY <2>1, <2>5 DEF Work
  <2>6. CASE /\ Marker(job.r, k) \in job.posted
             /\ Remember(job.r, k, [rows[job.r][k] EXCEPT !.status = "committed"])
             /\ job' = [job EXCEPT !.todo = @ \ {k}]
    <3>1. \A l \in Keys : l # k => rows'[job.r][l].eligible = rows[job.r][l].eligible
      BY <2>1, <2>4, <2>6 DEF Remember
    <3>2. /\ job'.pc = "items" /\ job'.todo = job.todo \ {k} /\ job'.found = job.found
          /\ job'.gone = job.gone /\ job'.posted = job.posted /\ job'.slots = job.slots
      BY <2>5, <2>6
    <3>3. Names(job.r)[k] \in job.posted \/ (job.slots = 0 /\ ~rows'[job.r][k].eligible)
      BY <2>3, <2>6, <3>1
    <3>4. Now(rows'[job.r])
      BY <2>1, <2>3, <3>1, <3>2, <3>3, PictureOfDealt
    <3> QED
      BY <1>6, <2>1, <3>4
  <2>7. CASE /\ job.slots = 0 /\ HeldBack(job.r, k)
             /\ job' = [job EXCEPT !.todo = @ \ {k}]
    <3>1. /\ \A l \in Keys : l # k => rows'[job.r][l].eligible = rows[job.r][l].eligible
          /\ rows'[job.r][k].eligible = FALSE
      BY <2>1, <2>4, <2>7 DEF HeldBack, Remember, RowType
    <3>2. /\ job'.pc = "items" /\ job'.todo = job.todo \ {k} /\ job'.found = job.found
          /\ job'.gone = job.gone /\ job'.posted = job.posted /\ job'.slots = job.slots
      BY <2>5, <2>7
    <3>3. Names(job.r)[k] \in job.posted \/ (job.slots = 0 /\ ~rows'[job.r][k].eligible)
      BY <2>3, <2>7, <3>1
    <3>4. Now(rows'[job.r])
      BY <2>1, <2>3, <3>1, <3>2, <3>3, PictureOfDealt
    <3> QED
      BY <1>6, <2>1, <3>4
  <2>8. CASE /\ Marker(job.r, k) \notin job.posted /\ (k = Summary \/ job.slots > 0)
             /\ Announce(job.r, k)
             /\ job' = [[job EXCEPT !.todo = @ \ {k}] EXCEPT !.pc = "post", !.key = k]
    <3>1. [rows[job.r][k] EXCEPT !.status = "not_published", !.intent = "publish"].eligible
            = rows[job.r][k].eligible
      BY <2>4 DEF RowType
    <3>2. \A l \in Keys : rows'[job.r][l].eligible = rows[job.r][l].eligible
      BY <2>1, <2>8, <3>1, SameEligible DEF Announce
    <3>3. /\ job'.pc = "post" /\ job'.key = k /\ job'.todo = job.todo \ {k}
          /\ job'.found = job.found /\ job'.gone = job.gone /\ job'.posted = job.posted
          /\ job'.slots = job.slots
      BY <2>1, <2>8 DEF Work
    <3>4. Now(rows'[job.r])
      BY <2>1, <2>3, <2>8, <3>2, <3>3, PictureOfAnnounced
    <3> QED
      BY <1>6, <2>1, <3>4
  <2> QED
    BY <1>9, <2>2, <2>6, <2>7, <2>8 DEF NextItem
<1>10. CASE Post
  <2>1. Running /\ At /\ job.pc = "post" /\ job \in Work /\ rows' = rows
        /\ job.found \subseteq Findings /\ job.slots \in Nat /\ job.key \in Keys
        /\ job.todo \subseteq Keys /\ job.posted \subseteq Markers
    BY <1>3, <1>10, AtWork DEF Post
  <2>2. ~Fail
    BY <1>2 DEF Fail
  <2>3. PutOn(job.r, job.key) /\ job' = [job EXCEPT !.pc = "posted"]
    BY <1>10, <2>2 DEF Post
  <2>4. /\ Carrying /\ job.r \in Requests /\ Started(job.r)
        /\ Has(job.r, job.key) => Marker(job.r, job.key) \in missed[Owner(job.r)]
        /\ job.key # Summary =>
             Cardinality(Charged(page[Owner(job.r)], Spared(Owner(job.r)))) < Cap
    BY <2>1, PostFits
  <2>5. PICK o \in Owners :
          /\ o = Owner(job.r) /\ Naming(Names(job.r))
          /\ Agrees(job, page[o], missed[o], Spared(o), rows[job.r], Names(job.r))
    BY <1>2, <2>1, <2>4, CarryingFrom
  <2>6. /\ Spared(o)' = Spared(o) /\ missed' = missed
        /\ \A m \in Markers : page'[o][m]
             = IF m = Names(job.r)[job.key] THEN IF page[o][m] = "none" THEN "open" ELSE "twice"
               ELSE page[o][m]
    <3>1. /\ \A p \in Owners : Spared(p)' = Spared(p)
          /\ \A m \in Markers :
               page'[Owner(job.r)][m] = IF m = Marker(job.r, job.key)
                                        THEN IF page[Owner(job.r)][m] = "none" THEN "open" ELSE "twice"
                                        ELSE page[Owner(job.r)][m]
      BY <2>1, <2>3, <2>4, PutsOne
    <3>2. Names(job.r)[job.key] = Marker(job.r, job.key) /\ missed' = missed
      BY <2>1, <2>3 DEF Names, PutOn
    <3> QED
      BY <2>5, <3>1, <3>2
  <2>7. /\ job'.pc = "posted" /\ job'.key = job.key /\ job'.todo = job.todo
        /\ job'.found = job.found /\ job'.gone = job.gone /\ job'.posted = job.posted
        /\ job'.slots = job.slots
    BY <2>1, <2>3 DEF Work
  <2>8. Agrees(job', page'[o], missed[o], Spared(o), rows[job.r], Names(job.r))
    BY <2>1, <2>5, <2>6, <2>7, PictureOfPosted
  <2>9. Agrees(job', page'[o], missed'[o], Spared(o)', rows[job.r], Names(job.r))
    BY <2>6, <2>8
  <2> QED
    BY <1>5, <2>1, <2>5, <2>9
<1>11. CASE RecordPost
  <2>1. Running /\ At /\ job.pc = "posted" /\ job \in Work /\ UNCHANGED comments
        /\ job.found \subseteq Findings /\ job.slots \in Nat /\ job.key \in Keys /\ job.r \in Requests
    BY <1>3, <1>11, AtWork DEF RecordPost
  <2>2. Carrying
    BY <1>4, <2>1 DEF Carrying
  <2>3. Agrees(job, page[Owner(job.r)], missed[Owner(job.r)], Spared(Owner(job.r)),
               rows[job.r], Names(job.r))
    BY <1>2, <2>1, <2>2, CarryingFrom
  <2>4. rows[job.r][job.key] \in RowType
    BY <1>3, <2>1 DEF TypeOK
  <2>5. [rows[job.r][job.key] EXCEPT !.status = "committed", !.intent = "none"].eligible
          = rows[job.r][job.key].eligible
    BY <2>4 DEF RowType
  <2>6. \A l \in Keys : rows'[job.r][l].eligible = rows[job.r][l].eligible
    BY <1>11, <2>1, <2>5, SameEligible DEF RecordPost, Commit
  <2>7. /\ job'.pc = "items" /\ job'.todo = job.todo /\ job'.found = job.found
        /\ job'.gone = job.gone /\ job'.posted = job.posted
    BY <1>11, <2>1 DEF RecordPost, Work
  <2>8. job'.slots = job.slots - Pending(job)
    <3>1. CASE job.key = Summary
      BY <1>11, <2>1, <3>1 DEF RecordPost, Work, Pending
    <3>2. CASE job.key # Summary
      <4>1. Pending(job) = 1
        BY <2>1, <3>2 DEF Pending
      <4>2. job' = [job EXCEPT !.pc = "items", !.slots = job.slots - 1]
        BY <1>11, <3>2 DEF RecordPost
      <4>3. job'.slots = job.slots - 1
        BY <2>1, <4>2 DEF Work
      <4> QED
        BY <4>1, <4>3
    <3> QED
      BY <3>1, <3>2
  <2>9. Now(rows'[job.r])
    BY <2>1, <2>3, <2>6, <2>7, <2>8, PictureOfRecorded
  <2> QED
    BY <1>6, <2>1, <2>9
<1>12. CASE Report
  <2>1. Running /\ At /\ job \in Work /\ UNCHANGED comments /\ rows' = rows
    BY <1>3, <1>12, AtWork DEF Report
  <2>2. trigger[job.r].mode = "applied"
    BY <1>4, <2>1
  <2>3. job.pc = "items" /\ job.todo = {}
    BY <1>12, <2>1, <2>2 DEF Report, IInv, ModeInv
  <2>4. Carrying
    BY <2>1, <2>2, <2>3 DEF Carrying
  <2>5. Agrees(job, page[Owner(job.r)], missed[Owner(job.r)], Spared(Owner(job.r)),
               rows[job.r], Names(job.r))
    BY <1>2, <2>1, <2>4, CarryingFrom
  <2>6. /\ job'.pc = "publishing" /\ job'.todo = job.todo /\ job'.found = job.found
        /\ job'.gone = job.gone /\ job'.posted = job.posted
    BY <1>12, <2>1 DEF Report, Work
  <2>7. Now(rows[job.r])
    BY <2>3, <2>5, <2>6, PictureOfReported
  <2> QED
    BY <1>6, <2>1, <2>7
<1>13. CASE Touches
  <2>1. PICK o \in Owners, m \in Markers, left \in {"none", "resolved", "open"} : Touch(o, m, left)
    BY <1>13 DEF Touches
  <2>2. Leave(o, m, left) /\ page[o][m] # "none" /\ rows' = rows /\ Gone(o, m, left)
    BY <2>1 DEF Touch
  <2>3. Running /\ At
    <3>1. CASE job' = job
      BY <1>2, <3>1 DEF Running
    <3>2. CASE job' # job
      BY <2>2, <3>2 DEF Gone
    <3> QED
      BY <3>1, <3>2
  <2>4. job \in Work /\ Naming(Names(job.r)) /\ Owner(job.r) \in Owners
    BY <1>2, <2>3, CarryingFrom
  <2>5. PICK q \in Owners : q = Owner(job.r)
    BY <2>4
  <2>6. job' = IF left # "open" /\ q = o /\ job.pc \in {"items", "post", "posted", "publishing"}
               THEN [job EXCEPT !.gone = @ \cup {m}] ELSE job
    BY <2>2, <2>3, <2>5 DEF Gone
  <2>7. Carrying
    <3>1. job'.pc = job.pc
      BY <2>4, <2>6 DEF Work
    <3> QED
      BY <1>2, <1>4, <2>3, <3>1 DEF Carrying
  <2>8. Agrees(job, page[q], missed[q], Spared(q), rows[job.r], Names(job.r))
    BY <1>2, <2>3, <2>5, <2>7, CarryingFrom
  <2>9. CASE o # q
    <3>1. job' = job
      BY <2>6, <2>9
    <3>2. page'[q] = page[q] /\ missed'[q] = missed[q] /\ Spared(q)' = Spared(q)
      BY <2>2, <2>9, LeavesLess
    <3>3. Agrees(job', page'[q], missed'[q], Spared(q)', rows[job.r], Names(job.r))
      BY <2>8, <3>1, <3>2
    <3> QED
      BY <1>5, <2>2, <2>3, <2>5, <3>3
  <2>10. CASE o = q
    <3>1. job' = IF left = "open" THEN job ELSE [job EXCEPT !.gone = @ \cup {m}]
      BY <2>6, <2>7, <2>10 DEF Carrying
    <3>2. /\ job'.pc = job.pc /\ job'.key = job.key /\ job'.todo = job.todo
          /\ job'.found = job.found
          /\ job'.gone = IF left = "open" THEN job.gone ELSE job.gone \cup {m}
          /\ job'.posted = job.posted /\ job'.slots = job.slots
      BY <2>4, <3>1 DEF Work
    <3>3. /\ job.found \subseteq Findings /\ job.slots \in Nat /\ job.key \in Keys
          /\ job.todo \subseteq Keys /\ job.posted \subseteq Markers
      BY <1>3, <2>3, AtWork
    <3>4. /\ \A n \in Markers : page'[o][n] = IF n = m THEN left ELSE page[o][n]
          /\ Charged(page'[o], Spared(o)') \subseteq Charged(page[o], Spared(o))
          /\ \A n \in Markers : n \in missed[o] => n \in missed'[o] \/ page'[o][n] = "none"
      BY <2>2, LeavesLess
    <3>5. page[o][m] # "none" /\ Agrees(job, page[o], missed[o], Spared(o), rows[job.r], Names(job.r))
      BY <2>2, <2>8, <2>10
    <3>6. Agrees(job', page'[o], missed'[o], Spared(o)', rows[job.r], Names(job.r))
      <4>1. LeavesOf(page[o], missed[o], Spared(o), page'[o], missed'[o], Spared(o)', m, left)
        BY <3>4, <3>5 DEF LeavesOf
      <4> QED
        BY <2>4, <3>2, <3>3, <3>5, <4>1, PictureOfTouched
    <3> QED
      BY <1>5, <2>2, <2>3, <2>5, <2>10, <3>6
  <2> QED
    BY <2>9, <2>10
<1>14. CASE Decide
  <2>1. job'.r = job.r /\ job'.pc \in {"report", "items", "reading"} /\ job # Idle
        /\ (trigger[job.r].mode = "applied" => job'.pc = "reading")
    <3>1. job # Idle
      BY <1>14 DEF Decide, Running
    <3>2. trigger[job.r].mode \in {"applied", "draft", "none"}
      BY <1>3, <3>1, JobOfReview, DocumentAssumption
    <3> QED
      BY <1>14, <3>1, <3>2 DEF Decide
  <2>2. trigger'[job.r] = trigger[job.r]
    BY <1>2, <2>1, SameWork
  <2> QED
    BY <1>2, <2>1, <2>2
<1>15. CASE (\E r \in Requests : StartRun(r)) \/ Analyse \/ Finish \/ Deliver \/ StopSeen \/ Crash
  <2>1. job' # job => job' = Idle \/ job'.pc \in {"analysis", "failing", "decision", "delivering"}
    <3>1. ASSUME NEW r \in Requests, StartRun(r), job' # job
          PROVE  job' = Idle \/ job'.pc = "analysis"
      BY <3>1 DEF StartRun, Release
    <3>2. CASE Analyse
      BY <3>2 DEF Analyse, Fail
    <3>3. CASE Finish
      BY <3>3 DEF Finish
    <3>4. CASE Deliver \/ StopSeen \/ Crash
      BY <3>4 DEF Deliver, StopSeen, Crash, Release
    <3> QED
      BY <1>15, <3>1, <3>2, <3>3, <3>4
  <2>2. job' = job /\ UNCHANGED comments /\ rows' = rows
    BY <1>2, <1>15, <2>1 DEF StartRun, Analyse, Finish, Deliver, StopSeen, Crash
  <2> QED
    BY <1>7, <2>2
<1>16. CASE Dashboard
  <2>1. job # Idle /\ job.kind = "act" /\ job \in JobType
    BY <1>3, <1>16 DEF Dashboard, PublishNow, RecordPublish, RemoveNow, RecordRemove, Acting, TypeOK
  <2>2. job' = Idle \/ \E pc \in {"published", "removed"} : job' = [job EXCEPT !.pc = pc]
    BY <1>16 DEF Dashboard, PublishNow, RecordPublish, RemoveNow, RecordRemove
  <2>3. job' = Idle \/ job'.kind = "act"
    BY <2>1, <2>2 DEF JobType, Work
  <2> QED
    BY <1>2, <2>3 DEF Running
<1>17. CASE TakesOver \/ \E r \in Requests : Refresh(r)
  <2>1. job = Idle
    BY <1>17 DEF TakesOver, StartPublish, StartRemove, Refresh
  <2>2. job' = Idle \/ job'.kind = "act"
    <3>1. ASSUME NEW r \in Requests, NEW k \in Keys, StartPublish(r, k) \/ StartRemove(r, k)
          PROVE  job' = job \/ job'.kind = "act"
      <4>1. CASE StartPublish(r, k)
        BY <4>1 DEF StartPublish, ActOn
      <4>2. CASE StartRemove(r, k)
        BY <4>2 DEF StartRemove, ActOn
      <4> QED
        BY <3>1, <4>1, <4>2
    <3>2. CASE \E r \in Requests : Refresh(r)
      BY <3>2 DEF Refresh
    <3> QED
      BY <1>17, <2>1, <3>1, <3>2 DEF TakesOver
  <2> QED
    BY <1>2, <2>2 DEF Running
<1>18. CASE RecordPublish \/ RecordRemove \/ PublishNow \/ RemoveNow
  BY <1>16, <1>18 DEF Dashboard
<1> QED
  BY <1>7, <1>8, <1>9, <1>10, <1>11, <1>12, <1>13, <1>14, <1>15, <1>16, <1>17, <1>18, WhoChanges
     DEF Run, TakesOver, comments

\* The invariant holds before anybody asked.
LEMMA Initially == Init => IInv
<1> SUFFICES ASSUME Init
             PROVE  IInv
  OBVIOUS
<1>1. TypeOK
  <2>1. MaxVersion \in Nat /\ MaxVersion > 0 /\ MaxTroubles \in Nat /\ MaxHands \in Nat
    BY DocumentAssumption
  <2>2. NoRow \in RowType
    BY DEF NoRow, RowType
  <2>3. job \in JobType
    BY DEF Init, JobType
  <2>4. /\ trigger \in [Requests -> TriggerType] /\ review \in [Requests -> ReviewType]
        /\ rows \in [Requests -> [Keys -> RowType]]
    BY <2>2 DEF Init, TriggerType, ReviewType
  <2>5. /\ page \in [Owners -> [Markers -> {"none", "open", "resolved", "twice"}]]
        /\ missed \in [Owners -> SUBSET Markers] /\ reopened \in [Owners -> SUBSET Markers]
        /\ queue \subseteq {"receive", "run"} \X Requests
    BY DEF Init
  <2>6. hidden \in BOOLEAN
    BY DEF Init
  <2>7. version \in 1..MaxVersion /\ troubles \in 0..MaxTroubles /\ hands \in 0..MaxHands
    BY <2>1 DEF Init
  <2> QED
    BY <2>3, <2>4, <2>5, <2>6, <2>7 DEF TypeOK
<1>2. AdmittedInv /\ OnceOnPage
  BY DEF Init, AdmittedInv, OnceOnPage
<1>3. ModeInv /\ PostInv /\ ActInv
  BY DEF Init, ModeInv, PostInv, ActInv, Carrying, Running, Acting
<1>4. ASSUME NEW o \in Owners
      PROVE  Cardinality(OpenOf(o) \ (missed[o] \cup reopened[o])) <= Cap
  <2>1. Findings \subseteq Markers
    BY DEF Markers
  <2>2. OpenOf(o) \ (missed[o] \cup reopened[o]) = {}
    BY <2>1 DEF Init, OpenOf, OpenIn
  <2> QED
    BY <2>2, FS_EmptySet, DocumentAssumption
<1> QED
  BY <1>1, <1>2, <1>3, <1>4 DEF IInv, CommentCap

\* Every step keeps the invariant.
LEMMA Invariance == IInv /\ [Next]_vars => IInv'
<1> SUFFICES ASSUME IInv, [Next]_vars
             PROVE  IInv'
  OBVIOUS
<1>1. TypeOK' /\ AdmittedInv'
  BY TypeStep
<1>2. ModeInv' /\ PostInv' /\ ActInv'
  BY ModeStep, PostStep, ActStep
<1>3. OnceOnPage' /\ CommentCap'
  BY PageStep
<1> QED
  BY <1>1, <1>2, <1>3 DEF IInv

\* Every reachable state has the types of the model: no comment is under way
\* without its run or its owner's request, and every request, review, row and
\* job is one of the kinds the code tells apart.
THEOREM TypeCorrect == Spec => []TypeOK
<1>1. IInv => TypeOK
  BY DEF IInv
<1> QED
  BY Initially, Invariance, <1>1, PTL DEF Spec

\* No rerun, retry, crash, lost answer or dashboard action puts a second comment
\* on the page beside one of the same marker, unless the reading before the post
\* did not list that one, however little the readings before it listed and
\* whatever people did in between (document_publisher.py, ours() and the
\* announced post; document_comments.py, publish()).
THEOREM OnceOnPageAlways == Spec => []OnceOnPage
<1>1. IInv => OnceOnPage
  BY DEF IInv
<1> QED
  BY Initially, Invariance, <1>1, PTL DEF Spec

\* An owner's reviewer never has more open findings on the page than
\* document_review.max_comments, beside those that people opened again and those
\* that the reading before a post did not list: comments lost to one reading,
\* and shown by the next, take their room back (slots(); publish()).
THEOREM CommentCapAlways == Spec => []CommentCap
<1>1. IInv => CommentCap
  BY DEF IInv
<1> QED
  BY Initially, Invariance, <1>1, PTL DEF Spec

\* Only the end of a run publishes a review.
LEMMA PublishedByRun ==
    ASSUME IInv, [Next]_vars, NEW r \in Requests,
           review[r].state = "decision", review'[r].state = "published"
    PROVE  Finish /\ job.pc = "publishing" /\ r = job.r
<1>1. review \in [Requests -> ReviewType]
  BY DEF IInv, TypeOK
<1>2. ASSUME UNCHANGED review
      PROVE  FALSE
  BY <1>2
<1>3. ASSUME NEW q \in Requests, NEW state, state # "published",
             review' = [review EXCEPT ![q].state = state]
      PROVE  FALSE
  <2>1. CASE q = r
    BY <1>1, <1>3, <2>1 DEF ReviewType
  <2>2. CASE q # r
    BY <1>1, <1>3, <2>2
  <2> QED
    BY <2>1, <2>2
<1>4. CASE Asks
  BY <1>2, <1>4 DEF Asks, Ask
<1>5. CASE \E old, q \in Requests, retry \in BOOLEAN : RunAgain(old, q, retry)
  BY <1>4, <1>5, RunAgainAsks DEF Asks
<1>6. ASSUME NEW q \in Requests, Receive(q)
      PROVE  FALSE
  <2>1. CASE Accept(q)
    <3>1. review'[r].state \in {"working", "superseded", review[r].state}
      BY <1>1, <2>1 DEF Accept, ReviewType
    <3> QED
      BY <3>1
  <2> QED
    BY <1>2, <1>6, <2>1 DEF Receive, Reject, Conflict
<1>7. ASSUME NEW q \in Requests, StartRun(q)
      PROVE  FALSE
  BY <1>2, <1>3, <1>7 DEF StartRun, Transition
<1>8. ASSUME NEW q \in Requests, Stop(q)
      PROVE  FALSE
  <2>1. review' = [review EXCEPT ![q].state = "cancelled", ![q].delivered = TRUE]
    BY <1>8 DEF Stop
  <2>2. review'[r].state \in {"cancelled", review[r].state}
    BY <1>1, <2>1 DEF ReviewType
  <2> QED
    BY <2>2
<1>9. ~Decide
  <2>1. ASSUME Decide
        PROVE  FALSE
    <3>1. job.r \in Requests
      BY <2>1, JobOfReview DEF IInv, Decide, Running
    <3> QED
      BY <1>2, <1>3, <2>1, <3>1 DEF Decide, Transition
  <2> QED
    BY <2>1
<1>10. ~Report /\ ~Deliver
  <2>1. ASSUME Report \/ Deliver
        PROVE  FALSE
    <3>1. job.r \in Requests /\ review[job.r] \in ReviewType
      BY <1>1, <2>1, JobOfReview DEF IInv, Report, Deliver, Running
    <3>2. review'[r].state = review[r].state
      BY <1>1, <2>1, <3>1 DEF Report, Deliver, ReviewType
    <3> QED
      BY <3>2
  <2> QED
    BY <2>1
<1>11. CASE Finish
  <2>1. job.r \in Requests /\ job.pc \in {"publishing", "failing"}
    BY <1>11, JobOfReview DEF IInv, Finish, Running
  <2>2. ~Ended(job.r) /\ job.pc = "publishing"
    BY <1>2, <1>3, <1>11, <2>1 DEF Finish, Transition
  <2>3. review' = [review EXCEPT ![job.r].state = "published"]
    BY <1>11, <2>2 DEF Finish, Transition
  <2>4. r = job.r
    BY <1>1, <2>1, <2>3
  <2> QED
    BY <1>11, <2>2, <2>4
<1>12. CASE Analyse \/ ReadPage \/ Post \/ RecordPost \/ \E k \in Keys : NextItem(k)
  BY <1>2, <1>12 DEF Analyse, ReadPage, Post, RecordPost, NextItem
<1>13. CASE Recover \/ StopSeen \/ Crash \/ Dashboard \/ EditPage \/ HidePage
  BY <1>2, <1>13 DEF Recover, StopSeen, Crash, Dashboard, PublishNow, RecordPublish,
                     RemoveNow, RecordRemove, EditPage, HidePage
<1>14. CASE TakesOver \/ \E q \in Requests : Refresh(q)
  BY <1>2, <1>14 DEF TakesOver, Refresh, StartPublish, StartRemove
<1>15. CASE Touches
  BY <1>2, <1>15 DEF Touches, Touch
<1>16. CASE UNCHANGED vars
  BY <1>2, <1>16 DEF vars
<1> QED
  BY <1>4, <1>5, <1>6, <1>7, <1>8, <1>9, <1>10, <1>11, <1>12, <1>13, <1>14, <1>15, <1>16
     DEF Next, Run, Asks, TakesOver, Touches

\* A review that posts ends published only when each finding of its report and
\* its summary is on the page, was taken off while the run was at work, or was
\* held back from a page that had no room (DocumentPublisher.publish()).
THEOREM ReportReachesPageAlways == Spec => ReportReachesPage
<1> DEFINE Reaches ==
      \A r \in Requests :
          (review[r].state = "decision" /\ review'[r].state = "published"
             /\ trigger[r].mode = "applied") =>
          \A k \in job.found \cup {Summary} : Reached(r, k)
<1>1. ASSUME IInv, [Next]_vars
      PROVE  Reaches
  <2> SUFFICES ASSUME NEW r \in Requests, review[r].state = "decision",
                      review'[r].state = "published", trigger[r].mode = "applied",
                      NEW k \in job.found \cup {Summary}
               PROVE  Reached(r, k)
    OBVIOUS
  <2>1. Finish /\ job.pc = "publishing" /\ r = job.r
    BY <1>1, PublishedByRun
  <2>2. Carrying /\ Running
    BY <2>1 DEF Carrying, Finish
  <2>3. Agrees(job, page[Owner(r)], missed[Owner(r)], Spared(Owner(r)), rows[r], Names(r))
    BY <1>1, <2>1, <2>2 DEF IInv, PostInv
  <2>4. job.todo = {} /\ job.found \subseteq Findings
    BY <1>1, <2>1, <2>2, <2>3, AtWork DEF Agrees, UnderWay, IInv
  <2>5. k \in Keys /\ k \notin WaitingOf(job)
    BY <2>1, <2>4 DEF WaitingOf, Keys
  <2>6. \/ page[Owner(r)][Marker(r, k)] # "none" \/ Marker(r, k) \in job.gone
        \/ ~rows[r][k].eligible /\ Cardinality(Seen(job, page[Owner(r)])) >= Cap
    BY <2>3, <2>5 DEF Agrees, Dealt, Names
  <2>7. Seen(job, page[Owner(r)]) = OpenOf(Owner(r)) \cup (job.gone \cap Findings)
    BY DEF Seen, OpenOf
  <2> QED
    BY <2>6, <2>7 DEF Reached, Has
<1>2. IInv /\ [Next]_vars => [Reaches]_vars
  BY <1>1
<1> QED
  BY Initially, Invariance, <1>2, PTL DEF Spec, ReportReachesPage
===============================================================================
