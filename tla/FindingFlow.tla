------------------------------ MODULE FindingFlow ------------------------------
(***************************************************************************)
(* What becomes of the findings of one review                              *)
(* (reviewer/orchestrator/pipeline.py): the Defect Review's proposals and  *)
(* those of the build agent are validated, deduplicated and verified one   *)
(* by one, what a build's own output establishes joins them, severities    *)
(* are settled by policy and lowered by a triage model, earlier findings   *)
(* lend their identities, and the merged list decides the review and is    *)
(* cut to what may be shown (reviewer/findings/, reviewer/decision/). A    *)
(* required check that failed decides without any finding. What the secret *)
(* scanner found heads the merged list in the code and is left out here:   *)
(* it is graded SUGGESTION and never blocks.                               *)
(*                                                                         *)
(* A claim's text is the set of its words; where its lines are says what   *)
(* validation finds out about them.                                        *)
(***************************************************************************)
EXTENDS Integers, Sequences, FiniteSets, SequencesExt

CONSTANTS
  Claims,        \* what a unit may propose
  Diagnostics,   \* what a build's output may establish
  Attributed,    \* what the build agent may blame for a failure
  Earlier,       \* findings the previous review may have left, as they were saved
  MaxProposals,  \* bound: proposals of one review
  MaxOthers,     \* bound: diagnostics, attributed failures and earlier findings, each
  Judgements,    \* what the triage model may say of a finding
  StaticCats,    \* categories a static tool that ran covers
  Distance,      \* review.merge_distance
  Tolerance,     \* lines a re-reported claim may be off
  Existing,      \* EXISTING_FINDINGS
  MaxInline, MaxPerFile

\* Severities, the gravest first.
Rank == [BLOCKER |-> 1, REQUIRED |-> 2, SUGGESTION |-> 3, NIT |-> 4, QUESTION |-> 5,
         FYI |-> 6, PRAISE |-> 7]
Gone == {"discarded", "suppressed", "resolved"}
\* Where the cited lines are: added by the change, shown in its diff, elsewhere
\* in a changed file, in a file it does not touch, or not in the file at all.
Places == {"added", "context", "outside", "elsewhere", "nowhere"}

ASSUME LimitsAssumption ==
    /\ MaxProposals \in Nat /\ MaxOthers \in Nat
    /\ Distance \in Nat /\ Tolerance \in Nat
    /\ Judgements \subseteq {"keep", "SUGGESTION", "NIT", "FYI"}
    /\ Existing \in Nat /\ MaxInline \in Nat /\ MaxPerFile \in Nat
AllClaims == Claims \cup Diagnostics \cup Attributed \cup {e.claim : e \in Earlier}
ASSUME ClaimsAssumption ==
    \A c \in AllClaims :
        /\ c.where \in Places /\ c.first <= c.last
        /\ c.proposed \in DOMAIN Rank /\ c.evidence \in BOOLEAN

VARIABLES
  proposals,    \* the units' proposals, in the order of the plan
  diagnostics,  \* diagnostics of a failed build
  attributed,   \* failures the build agent attributes to the code
  earlier,      \* findings of the previous review, none if there is no review
  again,        \* those of them, in order, whose lines an incremental re-review finds again
  gating,       \* enforcement
  step,
  fresh,        \* findings of this review
  todo,         \* positions of fresh that await a verdict
  lost,         \* verdicts lost to budget or deadline
  scopes,       \* claims of absence nothing established were held back
  failed,       \* a required static check or build command failed
  findings,     \* the merged list
  decision,
  shown,        \* inline, summary and overflow, as positions of findings
  confirmed     \* history: claims a verifier or a build confirmed

input == <<proposals, diagnostics, attributed, earlier, again, gating>>
results == <<findings, decision, shown>>
vars == <<input, step, fresh, todo, lost, scopes, failed, results, confirmed>>

-------------------------------------------------------------------------------
(* Policy *)

Base(category) ==
    IF category \in {"security", "data_integrity", "prompt_injection"} THEN "BLOCKER"
    ELSE IF category \in {"correctness", "concurrency", "error_handling", "test_gap"}
    THEN "REQUIRED"
    ELSE IF category \in {"naming", "style"} THEN "NIT"
    ELSE "SUGGESTION"

Grave == {"BLOCKER", "REQUIRED"}
NeedsVerification(f) ==
    \/ f.claim.scope # "local"
    \/ Base(f.claim.category) \in Grave
    \/ f.proposed \in Grave

Verified(f) == f.verdict = "confirmed"
Introduced(f) == f.claim.where = "added"
InDiff(f) == f.claim.where \in {"added", "context"}
Touched(f) == f.claim.where # "elsewhere"
Unpublishable(f) == f.claim.category \in StaticCats \/ (~InDiff(f) /\ ~Touched(f))

\* Mutant: verdicts are ignored.
LoweredBlindly(f) ==
    IF ~Introduced(f) THEN "FYI"
    ELSE IF Base(f.claim.category) = "BLOCKER" THEN "SUGGESTION" ELSE Base(f.claim.category)

\* The severity policy gives a finding that is still standing.
Lowered(f) ==
    LET base == Base(f.claim.category)
        weak == \/ NeedsVerification(f) /\ ~Verified(f)
                \/ f.claim.confidence = "low"
                \/ ~f.claim.evidence
    IN IF ~Introduced(f) THEN "FYI"
       ELSE IF base = "BLOCKER" \/ (weak /\ base \in Grave) THEN "SUGGESTION"
       ELSE base

Normalize(f) ==
    IF f.status \in Gone THEN f
    ELSE IF f.claim.scope # "local" /\ ~Verified(f)
    THEN [f EXCEPT !.status = "suppressed", !.severity = "SUGGESTION"]
    ELSE [f EXCEPT !.severity = Lowered(f),
                   !.status = IF Unpublishable(f) THEN "suppressed" ELSE @]

-------------------------------------------------------------------------------
(* Identity *)

Fingerprint(c) == <<c.file, c.category, c.words>>

Similar(a, b) ==
    a # {} /\ b # {} /\ 2 * Cardinality(a \cap b) >= Cardinality(a \cup b)

Distant(m, n) == m - n > Distance \/ n - m > Distance

\* Nearby claims are one when their lines overlap or their words agree.
Related(f, g) ==
    /\ f.claim.file = g.claim.file /\ f.claim.category = g.claim.category
    /\ ~Distant(f.claim.first, g.claim.first)
    /\ \/ f.claim.first <= g.claim.last /\ g.claim.first <= f.claim.last
       \/ Similar(f.claim.words, g.claim.words)

SameFingerprint(f, g) == f.fp = g.fp

\* The first keeps everything of its own but a graver proposal.
Combine(f, g) ==
    IF Rank[g.proposed] < Rank[f.proposed] THEN [f EXCEPT !.proposed = g.proposed] ELSE f

\* g joins the first of the findings it matches, or the end of the list.
Absorb(list, g, hits) ==
    IF hits = {} THEN Append(list, g)
    ELSE [list EXCEPT ![Min(hits)] = Combine(@, g)]

\* Mutant: a finding is only compared with the last of the list.
DeduplicateLast(list) ==
    FoldLeft(LAMBDA acc, g : IF acc # <<>> /\ Related(acc[Len(acc)], g)
                             THEN [acc EXCEPT ![Len(acc)] = Combine(@, g)]
                             ELSE Append(acc, g), <<>>, list)

Deduplicate(list) ==
    LET exact == FoldLeft(LAMBDA acc, g :
            Absorb(acc, g, {i \in DOMAIN acc : SameFingerprint(acc[i], g)}), <<>>, list)
    IN FoldLeft(LAMBDA acc, g :
            Absorb(acc, g, {i \in DOMAIN acc : Related(acc[i], g)}), <<>>, exact)

-------------------------------------------------------------------------------
(* Validation *)

\* make() and validate(): a range outside the file discards the claim.
Validated(c) ==
    [claim |-> c, fp |-> Fingerprint(c), proposed |-> c.proposed,
     status |-> IF c.where = "nowhere" THEN "discarded"
                ELSE IF c.evidence THEN "proposed" ELSE "downgraded",
     verdict |-> "none", severity |-> "none", before |-> "none"]

Standing(claims) ==
    FoldLeft(LAMBDA acc, c : IF Validated(c).status = "discarded" THEN acc
                             ELSE Append(acc, Validated(c)), <<>>, claims)

\* Verification is spent where the verdict can matter.
Verifiable(f) == NeedsVerification(f) /\ f.claim.evidence

Ruled(f, verdict) ==
    [f EXCEPT !.verdict = verdict,
              !.status = IF verdict = "confirmed" THEN "verified"
                         ELSE IF verdict = "rejected" THEN "discarded"
                         ELSE "downgraded"]

-------------------------------------------------------------------------------
(* Earlier reviews *)

\* reanchor() and the carry-over of an incremental re-review.
Demoted(e) ==
    LET severity == IF e.severity = "BLOCKER" THEN "SUGGESTION" ELSE e.severity
    IN [e EXCEPT !.severity = severity, !.before = severity]
Carried == [k \in DOMAIN again |-> Demoted(earlier[again[k]])]

Near(f, e) ==
    /\ f.claim.file = e.claim.file /\ f.claim.category = e.claim.category
    /\ f.claim.first <= e.claim.last + Tolerance
    /\ e.claim.first <= f.claim.last + Tolerance

\* The first fresh finding with an unknown fingerprint near an earlier one that
\* was not reported again takes over its fingerprint.
Adopt(list) ==
    LET known == {earlier[i].fp : i \in DOMAIN earlier}
        Lend(acc, e) ==
            LET near == {i \in DOMAIN acc : acc[i].fp \notin known /\ Near(acc[i], e)}
            IN IF near = {} \/ \E i \in DOMAIN acc : acc[i].fp = e.fp THEN acc
               ELSE [acc EXCEPT ![Min(near)].fp = e.fp]
    IN FoldLeft(Lend, list, earlier)

-------------------------------------------------------------------------------
(* Decision and presentation *)

Live(f) == f.status \notin Gone
Blocks(f, severity) ==
    Live(f) /\ Verified(f) /\ (severity = "BLOCKER" \/ (severity = "REQUIRED" /\ Introduced(f)))

\* Mutant: a review that lost a verdict decides like any other.
DecideAnyway(list, which) ==
    IF scopes THEN "COMMENT_ONLY"
    ELSE IF failed \/ \E i \in DOMAIN list : Blocks(list[i], list[i][which])
    THEN "REQUEST_CHANGES" ELSE "APPROVE"

Decide(list, which) ==
    IF lost \/ scopes THEN "COMMENT_ONLY"
    ELSE IF failed \/ \E i \in DOMAIN list : Blocks(list[i], list[i][which])
    THEN "REQUEST_CHANGES" ELSE "APPROVE"

Confidence(f) == IF f.claim.confidence = "low" THEN 2 ELSE 0

Before(list, i, j) ==
    LET f == list[i]
        g == list[j]
        Key(h) == 10 * Rank[h.severity] + Confidence(h) + IF Introduced(h) THEN 0 ELSE 5
    IN Key(f) < Key(g) \/ (Key(f) = Key(g) /\ i < j)

NoRoom(list, inline, f) ==
    \/ Len(inline) >= MaxInline
    \/ Cardinality({k \in DOMAIN inline : list[inline[k]].claim.file = f.claim.file})
         >= MaxPerFile

Aside(f) == f.severity \in {"NIT", "FYI", "QUESTION", "PRAISE"} \/ ~InDiff(f)

Place(list, acc, i) ==
    LET f == list[i] IN
    IF ~Introduced(f) /\ acc.existing >= Existing
    THEN [acc EXCEPT !.overflow = Append(@, i)]
    ELSE LET counted == [acc EXCEPT !.existing = @ + IF Introduced(f) THEN 0 ELSE 1]
         IN IF Aside(f) THEN [counted EXCEPT !.summary = Append(@, i)]
            ELSE IF NoRoom(list, acc.inline, f)
            THEN [counted EXCEPT !.overflow = Append(@, i)]
            ELSE [counted EXCEPT !.inline = Append(@, i)]

NothingShown == [inline |-> <<>>, summary |-> <<>>, overflow |-> <<>>, existing |-> 0]

\* The findings still standing are placed one by one, in the order of Before.
Select(list) ==
    MapThenFoldSet(LAMBDA i, acc : Place(list, acc, i), NothingShown, LAMBDA i : i,
                   LAMBDA s : CHOOSE i \in s : \A j \in s \ {i} : Before(list, j, i),
                   {i \in DOMAIN list : Live(list[i])})

-------------------------------------------------------------------------------
Finding ==
    [claim : AllClaims, fp : {Fingerprint(c) : c \in AllClaims} \cup {e.fp : e \in Earlier},
     proposed : DOMAIN Rank,
     status : Gone \cup {"proposed", "downgraded", "verified"},
     verdict : {"none", "confirmed", "rejected", "uncertain"},
     severity : DOMAIN Rank \cup {"none"}, before : DOMAIN Rank \cup {"none"}]

\* What a review may leave standing: not refuted, graded, changes required only
\* on proof and of a category that is grave, absences only when established.
Sound(f) ==
    Live(f) =>
        /\ f.verdict # "rejected" /\ f.severity # "none"
        /\ f.severity = "REQUIRED" =>
              Verified(f) /\ Introduced(f) /\ Base(f.claim.category) \in Grave
        /\ f.claim.scope # "local" => Verified(f)

\* Earlier findings are what this program left.
ASSUME EarlierAssumption == \A e \in Earlier : e \in Finding /\ Sound(e)

TypeOK ==
    /\ proposals \in Seq(Claims) /\ diagnostics \in Seq(Diagnostics)
    /\ attributed \in Seq(Attributed) /\ earlier \in Seq(Earlier)
    /\ again \in Seq(DOMAIN earlier) /\ gating \in BOOLEAN
    /\ step \in {"prepare", "verify", "join", "settle", "triage", "done"}
    /\ fresh \in Seq(Finding) /\ todo \subseteq DOMAIN fresh
    /\ lost \in BOOLEAN /\ scopes \in BOOLEAN /\ failed \in BOOLEAN /\ findings \in Seq(Finding)
    /\ decision \in {"none", "COMMENT_ONLY", "REQUEST_CHANGES", "APPROVE"}
    /\ \A part \in {shown.inline, shown.summary, shown.overflow} :
          ToSet(part) \subseteq DOMAIN findings
    /\ confirmed \subseteq AllClaims

Init ==
    /\ proposals \in BoundedSeq(Claims, MaxProposals)
    /\ diagnostics \in BoundedSeq(Diagnostics, MaxOthers)
    /\ attributed \in BoundedSeq(Attributed, MaxOthers)
    /\ earlier \in BoundedSeq(Earlier, MaxOthers)
    \* None is found again by a full re-review.
    /\ again \in BoundedSeq(DOMAIN earlier, MaxOthers)
    /\ \A k, l \in DOMAIN again : k < l => again[k] < again[l]
    /\ gating \in BOOLEAN
    /\ step = "prepare" /\ fresh = <<>> /\ todo = {}
    /\ lost = FALSE /\ scopes = FALSE /\ failed = FALSE
    /\ findings = <<>> /\ decision = "none" /\ shown = NothingShown
    /\ confirmed = {}

\* prepare(): only findings of this change are verified before settling.
Prepared(claims) == Deduplicate(Standing(claims))
ToVerify(f) == ~Unpublishable(f) /\ Introduced(f) /\ Verifiable(f) /\ f.verdict = "none"

Prepare ==
    /\ step = "prepare"
    /\ fresh' = Prepared(proposals)
    /\ todo' = {i \in DOMAIN fresh' : ToVerify(fresh'[i])}
    /\ step' = "verify"
    /\ UNCHANGED <<input, lost, scopes, failed, results, confirmed>>

\* A verifier's answer, demoted when the excerpt it saw was not complete.
Judge(i, verdict) ==
    /\ step \in {"verify", "settle"} /\ i \in todo
    /\ fresh' = [fresh EXCEPT ![i] = Ruled(@, verdict)]
    /\ todo' = todo \ {i}
    /\ confirmed' = IF verdict = "confirmed" THEN confirmed \cup {fresh[i].claim}
                    ELSE confirmed
    /\ UNCHANGED <<input, step, lost, scopes, failed, results>>

\* No verdict: the scan of the evidence or the verifier failed, or, when spent,
\* ran out of tokens or time. The finding stays as it was, uncertain.
Unavailable(i, spent) ==
    /\ step \in {"verify", "settle"} /\ i \in todo
    /\ fresh' = [fresh EXCEPT ![i].verdict = "uncertain"]
    /\ todo' = todo \ {i}
    /\ lost' = (lost \/ spent)
    /\ UNCHANGED <<input, step, scopes, failed, results, confirmed>>

\* Pre-existing findings that may be shown, and those beyond the most confident.
Preexisting(list) == {i \in DOMAIN list : ~Unpublishable(list[i]) /\ ~Introduced(list[i])}
Surer(list, i, j) ==
    \/ Confidence(list[i]) < Confidence(list[j])
    \/ Confidence(list[i]) = Confidence(list[j]) /\ i < j
Beyond(list) ==
    {i \in Preexisting(list) :
        Cardinality({j \in Preexisting(list) : Surer(list, j, i)}) >= Existing}

\* What the build established joins, confirmed by its output alone, and what
\* its agent proposed; that is verified, and of the pre-existing findings those
\* that may be shown. How the required checks and commands went joins as well.
Join ==
    LET established == [i \in DOMAIN Standing(diagnostics) |->
                          [Standing(diagnostics)[i] EXCEPT !.verdict = "confirmed"]]
        list == fresh \o Deduplicate(established) \o Prepared(attributed)
        old == Preexisting(list) \ Beyond(list)
    IN /\ step = "verify" /\ todo = {}
       /\ fresh' = list
       /\ todo' = {i \in DOMAIN list : \/ i > Len(fresh) /\ ToVerify(list[i])
                                       \/ i \in old /\ Verifiable(list[i])
                                          /\ list[i].verdict = "none"}
       /\ confirmed' = confirmed \cup {established[i].claim : i \in DOMAIN established}
       /\ failed' \in BOOLEAN
       /\ step' = "settle"
       /\ UNCHANGED <<input, lost, scopes, results>>

Settle ==
    LET beyond == Beyond(fresh)
        held == [i \in DOMAIN fresh |->
                   IF i \in beyond THEN [fresh[i] EXCEPT !.status = "suppressed"] ELSE fresh[i]]
        settled == [i \in DOMAIN fresh |-> Normalize(held[i])]
    IN /\ step = "settle" /\ todo = {}
       /\ fresh' = [i \in DOMAIN settled |-> [settled[i] EXCEPT !.before = settled[i].severity]]
       /\ scopes' = \E i \in DOMAIN settled \ beyond :
                       /\ settled[i].claim.scope # "local" /\ ~Verified(settled[i])
                       /\ settled[i].status = "suppressed" /\ ~Unpublishable(settled[i])
       /\ step' = "triage"
       /\ UNCHANGED <<input, todo, lost, failed, results, confirmed>>

\* A judgement applies when it is lower and the finding does not gate.
Candidates(list) ==
    {i \in DOMAIN list : Live(list[i]) /\ list[i].severity \in {"REQUIRED", "SUGGESTION"}}
\* Mutant: confirmed findings may be lowered like any other.
GatesNever(f) == FALSE

Gates(f) == gating /\ Blocks(f, f.severity)

Triaged(f, judgement) ==
    IF judgement # "keep" /\ Rank[judgement] > Rank[f.severity] /\ ~Gates(f)
    THEN [f EXCEPT !.severity = judgement] ELSE f

\* The triage model judges what it will, or fails and leaves the rest; then
\* identities are adopted, everything is merged, and the review is decided.
Finish(judged) ==
    LET triaged == [i \in DOMAIN fresh |->
                      IF i \in Candidates(fresh) THEN Triaged(fresh[i], judged[i]) ELSE fresh[i]]
        list == Deduplicate(Carried \o Adopt(triaged))
    IN /\ step = "triage"
       /\ findings' = list
       /\ decision' = Decide(list, "severity")
       /\ shown' = Select(list)
       /\ fresh' = triaged
       /\ step' = "done"
       /\ UNCHANGED <<input, todo, lost, scopes, failed, confirmed>>

Next ==
    \/ Prepare
    \/ \E i \in todo : \/ \E verdict \in {"confirmed", "rejected", "uncertain"} : Judge(i, verdict)
                       \/ \E spent \in BOOLEAN : Unavailable(i, spent)
    \/ Join \/ Settle
    \/ \E judged \in [Candidates(fresh) -> Judgements] : Finish(judged)

Spec == Init /\ [][Next]_vars

-------------------------------------------------------------------------------
(* Properties *)

Done == step = "done"
Shown == ToSet(shown.inline) \cup ToSet(shown.summary)

\* dedup.py:54-60: whatever was merged and whoever lent an identity, no two
\* findings of the review say the same thing of the same place.
NoneTwice ==
    \A i, j \in DOMAIN findings :
        i < j => ~SameFingerprint(findings[i], findings[j]) /\ ~Related(findings[i], findings[j])

\* policy.py:34-52: what is shown was not refuted; a required change is confirmed
\* and of this change; an absence is claimed only when established.
ShownIsSound ==
    \A i \in Shown :
        LET f == findings[i] IN
        /\ f.verdict # "rejected"
        /\ f.severity = "REQUIRED" => Verified(f) /\ Introduced(f)
        /\ f.claim.scope # "local" => Verified(f)

\* implementation-prd.md:627: a review that lost a verdict to its budget or its
\* deadline, or that held back a claim of absence, never blocks; one that blocks
\* with no required check failed rests on a grave claim somebody confirmed, now
\* or in the review before.
BlocksOnProof ==
    decision = "REQUEST_CHANGES" =>
        /\ ~lost /\ ~scopes
        /\ \/ failed
           \/ \E c \in confirmed \cup {e.claim : e \in {x \in ToSet(earlier) : Verified(x)}} :
                 Base(c.category) \in Grave /\ c.where = "added"

\* README:328: in gating mode the triage model cannot turn a failing check into
\* a passing one, whatever it says of whichever findings.
TriageKeepsGate == Done /\ gating => decision = Decide(findings, "before")

\* pipeline.py:534-536: what a build's own output established outranks a judge;
\* nothing a verifier said of another claim makes it disappear.
EstablishedStands ==
    Done => \A i \in DOMAIN Standing(diagnostics) :
        LET f == Standing(diagnostics)[i] IN
        ~Unpublishable(f) /\ Introduced(f) =>
            \E j \in DOMAIN findings :
                Live(findings[j]) /\ (SameFingerprint(findings[j], f) \/ Related(findings[j], f))
===============================================================================
