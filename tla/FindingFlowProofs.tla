--------------------------- MODULE FindingFlowProofs ---------------------------
(***************************************************************************)
(* Theorems about FindingFlow for any claims, judgements, limits and       *)
(* earlier findings. The model folds over lists of any length: what a fold *)
(* keeps is shown by growing the set of positions it has taken, which is   *)
(* what the first section is for.                                          *)
(***************************************************************************)
EXTENDS FindingFlow, FiniteSetTheorems, SequenceTheorems, WellFoundedInduction, TLAPS

\* The positions of the findings that still stand, and the last of some of them
\* in the order of presentation.
Alive(list) == {i \in DOMAIN list : Live(list[i])}
Latest(list, s) == CHOOSE i \in s : \A j \in s \ {i} : Before(list, j, i)

\* Positions of S, each in one part.
Placed(S) ==
    [inline : Seq(S), summary : Seq(S), overflow : Seq(S), existing : Nat]

\* The claims that somebody confirmed, now or in the review before.
Proven == confirmed \cup {e.claim : e \in {x \in ToSet(earlier) : Verified(x)}}

\* What is refuted is gone, and what is verified is a known claim.
Honest(f, known) ==
    /\ f.verdict = "rejected" => ~Live(f)
    /\ Verified(f) => f.claim \in known

\* Settled by policy: sound, no blocker, and, if it gates, gating by its severity
\* exactly when it did before triage.
Graded(f, gates) ==
    /\ Sound(f) /\ (Live(f) => f.severity # "BLOCKER")
    /\ gates => (Blocks(f, f.severity) <=> Blocks(f, f.before))

FreshInv ==
    \A i \in DOMAIN fresh :
        /\ Honest(fresh[i], confirmed)
        /\ step \in {"triage", "done"} => Graded(fresh[i], gating)
        /\ step = "triage" => fresh[i].before = fresh[i].severity

\* Nothing is decided before the end; at the end the merged list is sound, its
\* blocking findings proven, and the decision and the selection are taken from it.
ResultInv ==
    /\ ~Done => findings = <<>> /\ decision = "none" /\ shown = NothingShown
    /\ Done => /\ \A i \in DOMAIN findings :
                     /\ Graded(findings[i], gating)
                     /\ Verified(findings[i]) => findings[i].claim \in Proven
               /\ decision = Decide(findings, "severity")
               /\ shown \in Placed(Alive(findings))

IInv == TypeOK /\ FreshInv /\ ResultInv /\ NoneTwice
-----------------------------------------------------------------------------
(***************************************************************************)
(* Folds over finite sets                                                  *)
(***************************************************************************)

\* A set of numbers with zero and the successor of each of its own is all.
LEMMA Counting ==
    ASSUME NEW Good \in SUBSET Nat, 0 \in Good, \A n \in Good : n + 1 \in Good
    PROVE  Good = Nat
<1>. DEFINE below == {ss \in Nat \X Nat : ss[1] < ss[2]}
            Bad == Nat \ Good
<1>. SUFFICES ASSUME Bad # {} PROVE FALSE
  OBVIOUS
<1>1. IsWellFoundedOn(below, Nat)
  BY NatLessThanWellFounded, Zenon DEF OpToRel
<1>2. \E x \in Bad : \A y \in Bad : <<y, x>> \notin below
  <2>1. Bad \subseteq Nat
    OBVIOUS
  <2>. HIDE DEF below, Bad
  <2>. QED
    BY <1>1, <2>1, WFMin
<1>3. PICK x \in Bad : \A y \in Bad : <<y, x>> \notin below
  BY <1>2
<1>4. x \in Nat /\ x # 0 /\ x - 1 \in Nat /\ (x - 1) + 1 = x
  OBVIOUS
<1>5. <<x - 1, x>> \in below
  BY <1>4
<1>6. x - 1 \in Good
  BY <1>3, <1>4, <1>5
<1>. QED
  BY <1>4, <1>6

\* One element fewer.
LEMMA OneLess ==
    ASSUME NEW S, IsFiniteSet(S), NEW x \in S
    PROVE  /\ IsFiniteSet(S \ {x}) /\ Cardinality(S) \in Nat /\ Cardinality(S \ {x}) \in Nat
           /\ Cardinality(S) = Cardinality(S \ {x}) + 1
<1>1. IsFiniteSet(S \ {x}) /\ Cardinality(S \ {x}) = Cardinality(S) - 1
  BY FS_RemoveElement
<1>. QED
  BY <1>1, FS_CardinalityType

\* What holds of the empty set, and of a set when it holds of the set without
\* one of its elements, holds of every finite set.
LEMMA Growing ==
    ASSUME NEW S, IsFiniteSet(S), NEW Good, {} \in Good,
           \A s \in (SUBSET S) \ {{}} : \E x \in s : s \ {x} \in Good => s \in Good
    PROVE  S \in Good
<1>. DEFINE Upto == {n \in Nat : \A s \in SUBSET S : Cardinality(s) = n => s \in Good}
<1>1. \A s \in SUBSET S : IsFiniteSet(s) /\ Cardinality(s) \in Nat
  BY FS_Subset, FS_CardinalityType
<1>2. 0 \in Upto
  BY <1>1, FS_EmptySet
<1>3. ASSUME NEW n \in Upto PROVE n + 1 \in Upto
  <2>1. n \in Nat /\ \A t \in SUBSET S : Cardinality(t) = n => t \in Good
    BY <1>3
  <2>2. ASSUME NEW s \in SUBSET S, Cardinality(s) = n + 1 PROVE s \in Good
    <3>1. s # {}
      <4>1. Cardinality({}) = 0
        BY FS_EmptySet
      <4>2. n + 1 # 0
        BY <2>1
      <4>. QED
        BY <2>2, <4>1, <4>2
    <3>2. PICK x \in s : s \ {x} \in Good => s \in Good
      BY <3>1
    <3>3. /\ IsFiniteSet(s) /\ Cardinality(s \ {x}) \in Nat
          /\ Cardinality(s) = Cardinality(s \ {x}) + 1
      BY <1>1, OneLess
    <3>4. Cardinality(s \ {x}) = n /\ s \ {x} \in SUBSET S
      BY <2>1, <2>2, <3>3
    <3>. QED
      BY <2>1, <3>2, <3>4
  <2>. QED
    BY <2>1, <2>2
<1>4. Upto = Nat
  <2>. HIDE DEF Upto
  <2>. QED
    BY <1>2, <1>3, Counting, Upto \in SUBSET Nat DEF Upto
<1>. QED
  BY <1>1, <1>4

\* A choice of an element of every non-empty subset of a set.
Choice(c, S) == \A s \in (SUBSET S) \ {{}} : c[s] \in s

\* g computes a fold over the subsets of S, element by element, from base.
Folding(g, S, base, F, c) ==
    \A s \in SUBSET S : g[s] = IF s = {} THEN base ELSE F[<<c[s], g[s \ {c[s]}]>>]

\* The function that computes a fold, element by element, exists.
LEMMA FoldExists ==
    ASSUME NEW S, IsFiniteSet(S), NEW A, NEW base \in A,
           NEW F, \A x \in S, a \in A : F[<<x, a>>] \in A,
           NEW c, Choice(c, S)
    PROVE  \E g \in [SUBSET S -> A] : Folding(g, S, base, F, c)
<1>. DEFINE Small(n) == {s \in SUBSET S : Cardinality(s) <= n}
            Step(g, s) == IF s = {} THEN base ELSE F[<<c[s], g[s \ {c[s]}]>>]
            Good == {n \in Nat : \E g \in [Small(n) -> A] : \A s \in Small(n) : g[s] = Step(g, s)}
<1>1. \A s \in SUBSET S : /\ IsFiniteSet(s) /\ Cardinality(s) \in Nat
                            /\ Cardinality(s) <= Cardinality(S)
  BY FS_Subset, FS_CardinalityType
<1>2. 0 \in Good
  <2>1. \A s \in Small(0) : s = {}
    BY <1>1, FS_EmptySet
  <2>2. PICK g : g = [s \in Small(0) |-> base]
    OBVIOUS
  <2>3. g \in [Small(0) -> A] /\ \A s \in Small(0) : g[s] = Step(g, s)
    BY <2>1, <2>2
  <2>. QED
    BY <2>3
<1>3. ASSUME NEW n \in Good PROVE n + 1 \in Good
  <2>1. n \in Nat /\ \A s \in Small(n) : s \in Small(n + 1)
    BY <1>1
  <2>2. PICK g \in [Small(n) -> A] : \A s \in Small(n) : g[s] = Step(g, s)
    OBVIOUS
  <2>3. ASSUME NEW s \in Small(n + 1), s # {}
        PROVE  c[s] \in S /\ s \ {c[s]} \in Small(n)
    <3>1. IsFiniteSet(s) /\ Cardinality(s) <= n + 1 /\ c[s] \in s
      BY <1>1, <2>3 DEF Choice
    <3>2. Cardinality(s) = Cardinality(s \ {c[s]}) + 1 /\ Cardinality(s \ {c[s]}) \in Nat
      BY <3>1, OneLess
    <3>. QED
      BY <2>1, <3>1, <3>2
  <2>4. \A s \in Small(n + 1) : Step(g, s) \in A
    BY <2>3
  <2>5. PICK h : h = [s \in Small(n + 1) |-> Step(g, s)]
    OBVIOUS
  <2>6. \A s \in Small(n) : h[s] = g[s]
    <3>. HIDE DEF Small, Step
    <3>. QED
      BY <2>1, <2>2, <2>5
  <2>7. \A s \in Small(n + 1) : Step(h, s) = Step(g, s)
    <3>. HIDE DEF Small
    <3>. QED
      BY <2>3, <2>6
  <2>8. h \in [Small(n + 1) -> A] /\ \A s \in Small(n + 1) : h[s] = Step(h, s)
    <3>. HIDE DEF Small, Step
    <3>. QED
      BY <2>4, <2>5, <2>7
  <2>9. n + 1 \in Nat
    BY <2>1
  <2>. QED
    <3>. HIDE DEF Small, Step
    <3>. QED
      BY <2>8, <2>9
<1>4. Good = Nat
  <2>. HIDE DEF Good
  <2>. QED
    BY <1>2, <1>3, Counting, Good \in SUBSET Nat DEF Good
<1>5. Cardinality(S) \in Nat /\ Small(Cardinality(S)) = SUBSET S
  BY <1>1, FS_CardinalityType
<1>6. Cardinality(S) \in Good
  BY <1>4, <1>5
<1>7. \E g \in [Small(Cardinality(S)) -> A] : \A s \in Small(Cardinality(S)) : g[s] = Step(g, s)
  <2>. HIDE DEF Small, Step
  <2>. QED
    BY <1>6
<1>. QED
  BY <1>5, <1>7 DEF Folding

\* What holds before a fold's first element, and after an element when it held
\* before, holds of its result.
LEMMA FoldGood ==
    ASSUME NEW S, IsFiniteSet(S), NEW c, Choice(c, S), NEW h, NEW Good, <<{}, h[{}]>> \in Good,
           \A s \in (SUBSET S) \ {{}} :
              <<s \ {c[s]}, h[s \ {c[s]}]>> \in Good => <<s, h[s]>> \in Good
    PROVE  <<S, h[S]>> \in Good
<1>. DEFINE Fine == {s \in SUBSET S : <<s, h[s]>> \in Good}
<1>1. {} \in Fine
  OBVIOUS
<1>2. \A s \in (SUBSET S) \ {{}} : \E x \in s : s \ {x} \in Fine => s \in Fine
  BY DEF Choice
<1>3. S \in Fine
  <2>. HIDE DEF Fine
  <2>. QED
    BY <1>1, <1>2, Growing
<1>. QED
  BY <1>3

-----------------------------------------------------------------------------
(***************************************************************************)
(* Findings and lists of them                                              *)
(***************************************************************************)

\* The same but for its identity and how grave it was proposed.
Akin(f, g) ==
    /\ f.claim = g.claim /\ f.status = g.status /\ f.verdict = g.verdict
    /\ f.severity = g.severity /\ f.before = g.before

\* The severities are ranked by numbers.
LEMMA Ranked ==
    /\ \A r \in DOMAIN Rank : Rank[r] \in Int /\ r # "none"
    /\ DOMAIN Rank = {"BLOCKER", "REQUIRED", "SUGGESTION", "NIT", "QUESTION", "FYI", "PRAISE"}
BY DEF Rank

\* A set of positions has a last and a first.
LEMMA LastFirst ==
    ASSUME NEW n \in Nat, NEW s \in SUBSET (1..n), s # {}
    PROVE  /\ Max(s) \in s /\ \A k \in s : k <= Max(s)
           /\ Min(s) \in s /\ \A k \in s : Min(s) <= k
<1>. DEFINE S == 1..n
            Good == {t \in SUBSET S : t # {} => (\E x \in t : \A y \in t : x >= y)
                                               /\ (\E x \in t : \A y \in t : x <= y)}
<1>1. IsFiniteSet(S) /\ S \subseteq Int
  BY FS_Interval
<1>2. {} \in Good
  OBVIOUS
<1>3. ASSUME NEW t \in (SUBSET S) \ {{}}
      PROVE  \E x \in t : t \ {x} \in Good => t \in Good
  <2>1. PICK x \in t : TRUE
    OBVIOUS
  <2>2. x \in Int /\ \A y \in t : y \in Int
    BY <1>1
  <2>3. ASSUME t \ {x} \in Good, t \ {x} # {} PROVE t \in Good
    <3>1. PICK a \in t \ {x} : \A y \in t \ {x} : a >= y
      BY <2>3
    <3>2. PICK b \in t \ {x} : \A y \in t \ {x} : b <= y
      BY <2>3
    <3>3. \E z \in t : \A y \in t : z >= y
      <4>1. CASE a >= x
        BY <3>1, <4>1
      <4>2. CASE ~(a >= x)
        <5>1. \A y \in t : x >= y
          BY <2>2, <3>1, <4>2
        <5>. QED
          BY <5>1
      <4>. QED
        BY <4>1, <4>2
    <3>4. \E z \in t : \A y \in t : z <= y
      <4>1. CASE b <= x
        BY <3>2, <4>1
      <4>2. CASE ~(b <= x)
        <5>1. \A y \in t : x <= y
          BY <2>2, <3>2, <4>2
        <5>. QED
          BY <5>1
      <4>. QED
        BY <4>1, <4>2
    <3>. QED
      BY <3>3, <3>4
  <2>4. ASSUME t \ {x} = {} PROVE t \in Good
    <3>1. \A y \in t : y = x /\ x >= y /\ x <= y
      BY <2>2, <2>4
    <3>. QED
      BY <3>1
  <2>. QED
    BY <2>3, <2>4
<1>4. S \in Good /\ s \in Good
  <2>1. IsFiniteSet(s) /\ \A t \in (SUBSET s) \ {{}} : \E x \in t : t \ {x} \in Good => t \in Good
    BY <1>1, <1>3, FS_Subset
  <2>2. \A t \in (SUBSET S) \ {{}} : \E x \in t : t \ {x} \in Good => t \in Good
    BY <1>3
  <2>. HIDE DEF Good, S
  <2>. QED
    BY <1>1, <1>2, <2>1, <2>2, Growing
<1>5. (\E x \in s : \A y \in s : x >= y) /\ (\E x \in s : \A y \in s : x <= y)
  BY <1>4
<1>6. Max(s) \in s /\ \A k \in s : Max(s) >= k
  BY <1>5 DEF Max
<1>7. Min(s) \in s /\ \A k \in s : Min(s) <= k
  BY <1>5 DEF Min
<1>. QED
  BY <1>1, <1>6, <1>7

\* What validation makes of a claim.
LEMMA ValidatedFinding ==
    ASSUME NEW c \in AllClaims
    PROVE  /\ Validated(c) \in Finding /\ Validated(c).claim = c
           /\ Validated(c).verdict = "none"
<1>1. Fingerprint(c) \in {Fingerprint(d) : d \in AllClaims} \cup {e.fp : e \in Earlier}
  OBVIOUS
<1>2. c.proposed \in DOMAIN Rank /\ c.evidence \in BOOLEAN
  BY ClaimsAssumption
<1>3. (IF c.where = "nowhere" THEN "discarded" ELSE IF c.evidence THEN "proposed" ELSE "downgraded")
        \in Gone \cup {"proposed", "downgraded", "verified"}
  BY DEF Gone
<1>. QED
  BY <1>1, <1>2, <1>3 DEF Validated, Finding

\* Two findings combined: the first, but for how grave it was proposed.
LEMMA Combined ==
    ASSUME NEW f \in Finding, NEW g \in Finding
    PROVE  /\ Combine(f, g) \in Finding /\ Akin(Combine(f, g), f)
           /\ Combine(f, g).fp = f.fp
<1>1. f.proposed \in DOMAIN Rank /\ g.proposed \in DOMAIN Rank
  BY DEF Finding
<1>2. [f EXCEPT !.proposed = g.proposed] \in Finding
  BY <1>1 DEF Finding
<1>3. Akin([f EXCEPT !.proposed = g.proposed], f) /\ [f EXCEPT !.proposed = g.proposed].fp = f.fp
  BY DEF Akin, Finding
<1>. QED
  BY <1>2, <1>3 DEF Combine, Akin

\* out is list with g as one more element, or none when g hit one of them.
Grown(out, list, g, hits) ==
    /\ out \in Seq(Finding)
    /\ hits = {} => /\ DOMAIN out = DOMAIN list \cup {Len(list) + 1}
                    /\ Len(list) + 1 \notin DOMAIN list /\ out[Len(list) + 1] = g
    /\ hits # {} => DOMAIN out = DOMAIN list
    /\ \A i \in DOMAIN list : Akin(out[i], list[i]) /\ out[i].fp = list[i].fp

\* A finding absorbed by a list.
LEMMA Absorbed ==
    ASSUME NEW list \in Seq(Finding), NEW g \in Finding, NEW hits \in SUBSET DOMAIN list
    PROVE  Grown(Absorb(list, g, hits), list, g, hits)
<1>. DEFINE out == Absorb(list, g, hits)
<1>1. Len(list) \in Nat /\ DOMAIN list = 1..Len(list)
  OBVIOUS
<1>2. \A f, e \in Finding : Combine(f, e) \in Finding /\ Akin(Combine(f, e), f)
                             /\ Combine(f, e).fp = f.fp
  BY Combined
<1>3. CASE hits = {}
  <2>1. out = Append(list, g)
    BY <1>3 DEF Absorb
  <2>. HIDE DEF out
  <2>2. out \in Seq(Finding) /\ DOMAIN out = DOMAIN list \cup {Len(list) + 1}
        /\ Len(list) + 1 \notin DOMAIN list /\ out[Len(list) + 1] = g
        /\ \A i \in DOMAIN list : out[i] = list[i]
    BY <2>1, <1>1
  <2>. QED
    BY <1>3, <2>2 DEF Akin, Grown, out
<1>4. CASE hits # {}
  <2>1. Min(hits) \in DOMAIN list
    BY <1>1, <1>4, LastFirst
  <2>2. PICK m \in DOMAIN list : m = Min(hits)
    BY <2>1
  <2>3. out = [list EXCEPT ![m] = Combine(list[m], g)]
    BY <1>4, <2>2 DEF Absorb
  <2>. HIDE DEF out
  <2>4. list[m] \in Finding /\ Combine(list[m], g) \in Finding
    BY <1>2
  <2>5. out \in Seq(Finding) /\ DOMAIN out = DOMAIN list /\ out[m] = Combine(list[m], g)
        /\ \A i \in DOMAIN list \ {m} : out[i] = list[i]
    BY <2>3, <2>4
  <2>6. Akin(out[m], list[m]) /\ out[m].fp = list[m].fp
    BY <1>2, <2>4, <2>5
  <2>7. \A i \in DOMAIN list \ {m} : Akin(out[i], list[i]) /\ out[i].fp = list[i].fp
    BY <2>5 DEF Akin
  <2>. QED
    BY <1>4, <2>5, <2>6, <2>7 DEF Grown, out
<1>. QED
  BY <1>3, <1>4

-----------------------------------------------------------------------------
(***************************************************************************)
(* Deduplication                                                           *)
(***************************************************************************)

\* The positions of a list are finitely many, and each set of them has a last.
LEMMA Positions ==
    ASSUME NEW X, NEW list \in Seq(X)
    PROVE  /\ IsFiniteSet(DOMAIN list)
           /\ \A s \in (SUBSET DOMAIN list) \ {{}} : Max(s) \in s /\ Max(s) \in DOMAIN list
           /\ Choice([s \in SUBSET DOMAIN list |-> Max(s)], DOMAIN list)
<1>1. Len(list) \in Nat /\ DOMAIN list = 1..Len(list)
  OBVIOUS
<1>2. PICK n \in Nat : DOMAIN list = 1..n
  BY <1>1
<1>3. ASSUME NEW s \in (SUBSET DOMAIN list) \ {{}} PROVE Max(s) \in s /\ Max(s) \in DOMAIN list
  BY <1>2, LastFirst
<1>4. IsFiniteSet(1..n)
  BY FS_Interval
<1>. QED
  BY <1>2, <1>3, <1>4 DEF Choice

\* g computes a fold along a list.
Along(g, S, base, F) ==
    \A s \in SUBSET S : g[s] = IF s = {} THEN base ELSE F[<<Max(s), g[s \ {Max(s)}]>>]

\* A list fold that starts from the empty list or another one exists.
LEMMA ListFold ==
    ASSUME NEW X, NEW list \in Seq(X), NEW A, NEW base \in A,
           NEW F, \A k \in DOMAIN list, a \in A : F[<<k, a>>] \in A
    PROVE  \E g \in [SUBSET DOMAIN list -> A] : Along(g, DOMAIN list, base, F)
<1>. DEFINE S == DOMAIN list
            c == [s \in SUBSET S |-> Max(s)]
<1>1. IsFiniteSet(S) /\ Choice(c, S)
  BY Positions
<1>2. \A k \in S, a \in A : F[<<k, a>>] \in A
  OBVIOUS
<1>3. \E g \in [SUBSET S -> A] : Folding(g, S, base, F, c)
  <2>. HIDE DEF c, S
  <2>. QED
    BY <1>1, <1>2, FoldExists
<1>4. ASSUME NEW s \in SUBSET S PROVE c[s] = Max(s)
  OBVIOUS
<1>. QED
  <2>. HIDE DEF c
  <2>. QED
    BY <1>3, <1>4 DEF Folding, Along

\* What a list fold's result satisfies.
LEMMA ListGood ==
    ASSUME NEW X, NEW list \in Seq(X), NEW h, NEW Good, <<{}, h[{}]>> \in Good,
           \A s \in (SUBSET DOMAIN list) \ {{}} :
              <<s \ {Max(s)}, h[s \ {Max(s)}]>> \in Good => <<s, h[s]>> \in Good
    PROVE  <<DOMAIN list, h[DOMAIN list]>> \in Good
<1>. DEFINE S == DOMAIN list
            c == [s \in SUBSET S |-> Max(s)]
<1>1. IsFiniteSet(S) /\ Choice(c, S)
  BY Positions
<1>2. \A s \in (SUBSET S) \ {{}} :
          <<s \ {c[s]}, h[s \ {c[s]}]>> \in Good => <<s, h[s]>> \in Good
  OBVIOUS
<1>3. <<S, h[S]>> \in Good
  <2>. HIDE DEF c, S
  <2>. QED
    BY <1>1, <1>2, FoldGood
<1>. QED
  BY <1>3
\* The two passes of deduplication: by identity, and by place and words.
Match(exact, f, g) == IF exact THEN SameFingerprint(f, g) ELSE Related(f, g)
Hits(exact, list, g) == {i \in DOMAIN list : Match(exact, list[i], g)}

Exact(list) ==
    FoldLeft(LAMBDA acc, g :
        Absorb(acc, g, {i \in DOMAIN acc : SameFingerprint(acc[i], g)}), <<>>, list)
Loose(list) ==
    FoldLeft(LAMBDA acc, g :
        Absorb(acc, g, {i \in DOMAIN acc : Related(acc[i], g)}), <<>>, list)

\* The second pass reads what the first leaves.
LEMMA TwoPasses == ASSUME NEW list PROVE Deduplicate(list) = Loose(Exact(list))
  BY Zenon DEF Deduplicate, Loose, Exact

\* h merges the findings at the positions of a set, one pass of deduplication.
Merging(h, exact, list) ==
    \A s \in SUBSET DOMAIN list :
        h[s] = IF s = {} THEN <<>>
               ELSE Absorb(h[s \ {Max(s)}], list[Max(s)],
                           Hits(exact, h[s \ {Max(s)}], list[Max(s)]))

\* The same, as the function a pass defines.
IsPass(g, exact, list) ==
    g = [s \in SUBSET DOMAIN list |->
            IF s = {} THEN <<>>
            ELSE Absorb(g[s \ {Max(s)}], list[Max(s)],
                        Hits(exact, g[s \ {Max(s)}], list[Max(s)]))]

\* There is such a function for every list.
LEMMA PassExists ==
    ASSUME NEW list \in Seq(Finding), NEW exact
    PROVE  \E g : IsPass(g, exact, list)
<1>. DEFINE S == DOMAIN list
            F == [p \in S \X Seq(Finding) |->
                    Absorb(p[2], list[p[1]], Hits(exact, p[2], list[p[1]]))]
<1>1. \A k \in S, acc \in Seq(Finding) :
          Absorb(acc, list[k], Hits(exact, acc, list[k])) \in Seq(Finding)
  <2>. SUFFICES ASSUME NEW k \in S, NEW acc \in Seq(Finding)
                PROVE  Absorb(acc, list[k], Hits(exact, acc, list[k])) \in Seq(Finding)
    OBVIOUS
  <2>1. list[k] \in Finding /\ Hits(exact, acc, list[k]) \in SUBSET DOMAIN acc
    BY DEF Hits
  <2>. QED
    BY <2>1, Absorbed DEF Grown
<1>2. \A k \in S, acc \in Seq(Finding) :
          F[<<k, acc>>] = Absorb(acc, list[k], Hits(exact, acc, list[k]))
  OBVIOUS
<1>3. \A k \in S, acc \in Seq(Finding) : F[<<k, acc>>] \in Seq(Finding)
  BY <1>1, <1>2
<1>4. <<>> \in Seq(Finding)
  OBVIOUS
<1>. HIDE DEF F
<1>5. \A s \in (SUBSET S) \ {{}} : Max(s) \in S
  BY Positions
<1>6. PICK g \in [SUBSET S -> Seq(Finding)] : Along(g, S, <<>>, F)
  BY <1>3, <1>4, ListFold
<1>7. \A s \in SUBSET S : g[s] = IF s = {} THEN <<>> ELSE F[<<Max(s), g[s \ {Max(s)}]>>]
  BY <1>6 DEF Along
<1>8. \A s \in (SUBSET S) \ {{}} :
          g[s] = Absorb(g[s \ {Max(s)}], list[Max(s)], Hits(exact, g[s \ {Max(s)}], list[Max(s)]))
  <2>. SUFFICES ASSUME NEW s \in (SUBSET S) \ {{}}
                PROVE  g[s] = Absorb(g[s \ {Max(s)}], list[Max(s)],
                                     Hits(exact, g[s \ {Max(s)}], list[Max(s)]))
    OBVIOUS
  <2>1. Max(s) \in S /\ g[s \ {Max(s)}] \in Seq(Finding)
    BY <1>7, <1>5
  <2>. QED
    BY <1>2, <1>7, <2>1
<1>9. \A s \in SUBSET S :
          g[s] = IF s = {} THEN <<>>
                 ELSE Absorb(g[s \ {Max(s)}], list[Max(s)],
                             Hits(exact, g[s \ {Max(s)}], list[Max(s)]))
  BY <1>7, <1>8
<1>10. g = [s \in SUBSET S |->
              IF s = {} THEN <<>>
              ELSE Absorb(g[s \ {Max(s)}], list[Max(s)],
                          Hits(exact, g[s \ {Max(s)}], list[Max(s)]))]
  BY <1>9, Zenon
<1>. QED
  BY <1>10 DEF IsPass

\* Each pass computes such a function.
LEMMA PassMerges ==
    ASSUME NEW list \in Seq(Finding)
    PROVE  /\ \E h : Merging(h, TRUE, list) /\ Exact(list) = h[DOMAIN list]
           /\ \E h : Merging(h, FALSE, list) /\ Loose(list) = h[DOMAIN list]
<1>. DEFINE S == DOMAIN list
            Pass(exact) == CHOOSE g : IsPass(g, exact, list)
<1>1. Exact(list) = Pass(TRUE)[S]
  BY Zenon DEF Exact, FoldLeft, MapThenFoldSet, Hits, Match, IsPass
<1>2. Loose(list) = Pass(FALSE)[S]
  BY Zenon DEF Loose, FoldLeft, MapThenFoldSet, Hits, Match, IsPass
<1>3. ASSUME NEW exact PROVE IsPass(Pass(exact), exact, list)
  BY PassExists
<1>4. ASSUME NEW exact, NEW h, IsPass(h, exact, list) PROVE Merging(h, exact, list)
  BY <1>4, Zenon DEF Merging, IsPass
<1>. HIDE DEF Pass
<1>. QED
  BY <1>1, <1>2, <1>3, <1>4

\* A pass leaves findings of the list, no two of which match, and tells apart by
\* identity what the list told apart.
Passed(out, list, exact) ==
    /\ out \in Seq(Finding)
    /\ \A i \in DOMAIN out : \E m \in DOMAIN list :
          Akin(out[i], list[m]) /\ out[i].fp = list[m].fp
    /\ \A i, j \in DOMAIN out : i < j => ~Match(exact, out[i], out[j])
    /\ (\A m, n \in DOMAIN list : m # n => list[m].fp # list[n].fp) =>
          \A i, j \in DOMAIN out : i # j => out[i].fp # out[j].fp

\* Each finding a pass leaves is like one of the list and bears its identity; no
\* two match.
LEMMA PassKeeps ==
    ASSUME NEW list \in Seq(Finding), NEW exact \in BOOLEAN, NEW h, Merging(h, exact, list),
           NEW out, out = h[DOMAIN list]
    PROVE  Passed(out, list, exact)
<1>. DEFINE S == DOMAIN list
            From(s, acc) == \A i \in DOMAIN acc : \E m \in s :
                               Akin(acc[i], list[m]) /\ acc[i].fp = list[m].fp
            Apart(acc) == \A i, j \in DOMAIN acc : i < j => ~Match(exact, acc[i], acc[j])
            Told(acc) == (\A m, n \in S : m # n => list[m].fp # list[n].fp) =>
                            \A i, j \in DOMAIN acc : i # j => acc[i].fp # acc[j].fp
            Good == {p \in (SUBSET S) \X Seq(Finding) :
                        From(p[1], p[2]) /\ Apart(p[2]) /\ Told(p[2])}
<1>1. \A s, acc : <<s, acc>> \in Good <=> /\ s \in SUBSET S /\ acc \in Seq(Finding)
                                         /\ From(s, acc) /\ Apart(acc) /\ Told(acc)
  <2>. HIDE DEF From, Apart, Told
  <2>. QED
    OBVIOUS
<1>. HIDE DEF Good
<1>2. <<{}, h[{}]>> \in Good
  <2>1. h[{}] = <<>>
    BY Zenon DEF Merging
  <2>2. <<>> \in Seq(Finding) /\ From({}, <<>>) /\ Apart(<<>>) /\ Told(<<>>) /\ {} \in SUBSET S
    OBVIOUS
  <2>. HIDE DEF From, Apart, Told
  <2>. QED
    BY <1>1, <2>1, <2>2
<1>3. \A t \in (SUBSET S) \ {{}} : Max(t) \in t /\ Max(t) \in S
  BY Positions
<1>4. ASSUME NEW s \in (SUBSET S) \ {{}}, <<s \ {Max(s)}, h[s \ {Max(s)}]>> \in Good
      PROVE  <<s, h[s]>> \in Good
  <2>. DEFINE k == Max(s)
              acc == h[s \ {k}]
              g == list[k]
              hits == Hits(exact, acc, g)
              next == h[s]
  <2>1. k \in s /\ k \in S /\ g \in Finding
    <3>1. k \in s /\ k \in S
      BY <1>3
    <3>. HIDE DEF k
    <3>. QED
      BY <3>1
  <2>2. acc \in Seq(Finding) /\ From(s \ {k}, acc) /\ Apart(acc) /\ Told(acc)
    <3>. HIDE DEF From, Apart, Told
    <3>. QED
      BY <1>1, <1>4
  <2>3. next = Absorb(acc, g, hits)
    BY DEF Merging
  <2>4. hits \in SUBSET DOMAIN acc
    BY DEF Hits
  <2>. HIDE DEF k, acc, g, hits, next
  <2>5. Grown(next, acc, g, hits)
    BY <2>1, <2>2, <2>3, <2>4, Absorbed
  <2>6. /\ next \in Seq(Finding)
        /\ hits = {} => /\ DOMAIN next = DOMAIN acc \cup {Len(acc) + 1}
                        /\ Len(acc) + 1 \notin DOMAIN acc /\ next[Len(acc) + 1] = g
        /\ hits # {} => DOMAIN next = DOMAIN acc
        /\ \A i \in DOMAIN acc : Akin(next[i], acc[i]) /\ next[i].fp = acc[i].fp
    BY <2>5, Zenon DEF Grown
  <2>7. ASSUME NEW i \in DOMAIN acc
        PROVE  \E m \in s \ {k} : Akin(next[i], list[m]) /\ next[i].fp = list[m].fp
                                  /\ acc[i].fp = list[m].fp
    <3>1. PICK m \in s \ {k} : Akin(acc[i], list[m]) /\ acc[i].fp = list[m].fp
      BY <2>2
    <3>. QED
      BY <2>6, <3>1 DEF Akin
  <2>8. From(s, next)
    <3>. SUFFICES ASSUME NEW i \in DOMAIN next
                  PROVE  \E m \in s : Akin(next[i], list[m]) /\ next[i].fp = list[m].fp
      OBVIOUS
    <3>1. CASE i \in DOMAIN acc
      BY <2>7, <3>1
    <3>2. CASE i \notin DOMAIN acc
      <4>1. next[i] = list[k]
        BY <2>6, <3>2 DEF g
      <4>. QED
        BY <2>1, <4>1 DEF Akin
    <3>. QED
      BY <3>1, <3>2
  <2>9. ASSUME NEW i \in DOMAIN acc, NEW f
        PROVE  Match(exact, next[i], f) <=> Match(exact, acc[i], f)
    <3>1. next[i].claim = acc[i].claim /\ next[i].fp = acc[i].fp
      BY <2>6 DEF Akin
    <3>. QED
      BY <3>1 DEF Match, SameFingerprint, Related
  <2>10. ASSUME NEW j \in DOMAIN acc, NEW f
         PROVE  Match(exact, f, next[j]) <=> Match(exact, f, acc[j])
    <3>1. next[j].claim = acc[j].claim /\ next[j].fp = acc[j].fp
      BY <2>6 DEF Akin
    <3>. QED
      BY <3>1 DEF Match, SameFingerprint, Related
  <2>11. DOMAIN acc = 1..Len(acc) /\ Len(acc) \in Nat
    BY <2>2
  <2>12. Apart(next)
    <3>. SUFFICES ASSUME NEW i \in DOMAIN next, NEW j \in DOMAIN next, i < j
                  PROVE  ~Match(exact, next[i], next[j])
      OBVIOUS
    <3>1. CASE j \in DOMAIN acc
      <4>1. i \in DOMAIN acc
        BY <2>6, <2>11, <3>1
      <4>. QED
        BY <2>2, <2>9, <2>10, <3>1, <4>1
    <3>2. CASE j \notin DOMAIN acc
      <4>1. hits = {} /\ j = Len(acc) + 1 /\ next[j] = g
        BY <2>6, <3>2
      <4>2. i \in DOMAIN acc
        BY <2>6, <2>11, <4>1
      <4>3. ~Match(exact, acc[i], g)
        BY <4>1, <4>2 DEF hits, Hits
      <4>. QED
        BY <2>9, <4>1, <4>2, <4>3
    <3>. QED
      BY <3>1, <3>2
  <2>13. Told(next)
    <3>. SUFFICES ASSUME \A m, n \in S : m # n => list[m].fp # list[n].fp,
                         NEW i \in DOMAIN next, NEW j \in DOMAIN next, i # j
                  PROVE  next[i].fp # next[j].fp
      OBVIOUS
    <3>1. CASE i \in DOMAIN acc /\ j \in DOMAIN acc
      BY <2>2, <2>6, <3>1
    <3>2. ASSUME NEW a \in DOMAIN acc, NEW b \in DOMAIN next, b \notin DOMAIN acc
          PROVE  next[a].fp # next[b].fp
      <4>1. next[b] = list[k]
        BY <2>6, <3>2 DEF g
      <4>2. PICK m \in s \ {k} : next[a].fp = list[m].fp
        BY <2>7
      <4>3. m \in S /\ m # k
        OBVIOUS
      <4>. QED
        BY <2>1, <4>1, <4>2, <4>3
    <3>3. CASE i \notin DOMAIN acc /\ j \notin DOMAIN acc
      BY <2>6, <3>3
    <3>. QED
      BY <3>1, <3>2, <3>3
  <2>14. s \in SUBSET S
    OBVIOUS
  <2>15. <<s, next>> \in Good
    <3>. HIDE DEF From, Apart, Told
    <3>. QED
      BY <1>1, <2>6, <2>8, <2>12, <2>13, <2>14
  <2>. QED
    BY <2>15 DEF next
<1>5. <<S, h[S]>> \in Good
  BY <1>2, <1>4, ListGood
<1>6. <<S, out>> \in Good
  BY <1>5
<1>7. out \in Seq(Finding) /\ From(S, out) /\ Apart(out) /\ Told(out)
  <2>. HIDE DEF From, Apart, Told
  <2>. QED
    BY <1>1, <1>6
<1>. QED
  BY <1>7, Zenon DEF Passed

\* What deduplication makes of a list: findings of it, no two of one identity
\* and no two of one place and the same words.
LEMMA Deduplicated ==
    ASSUME NEW list \in Seq(Finding), NEW out, out = Deduplicate(list)
    PROVE  /\ out \in Seq(Finding)
           /\ \A i \in DOMAIN out : \E m \in DOMAIN list : Akin(out[i], list[m])
           /\ \A i, j \in DOMAIN out :
                 i < j => ~SameFingerprint(out[i], out[j]) /\ ~Related(out[i], out[j])
<1>1. PICK h : Merging(h, TRUE, list) /\ Exact(list) = h[DOMAIN list]
  BY PassMerges
<1>2. PICK once : once = Exact(list)
  OBVIOUS
<1>3. /\ once \in Seq(Finding)
      /\ \A i \in DOMAIN once : \E m \in DOMAIN list : Akin(once[i], list[m])
      /\ \A i, j \in DOMAIN once : i < j => ~SameFingerprint(once[i], once[j])
  <2>1. Passed(once, list, TRUE)
    BY <1>1, <1>2, PassKeeps
  <2>2. \A f, e : Match(TRUE, f, e) <=> SameFingerprint(f, e)
    BY DEF Match
  <2>. QED
    BY <2>1, <2>2 DEF Passed
<1>4. \A i, j \in DOMAIN once : i # j => once[i].fp # once[j].fp
  <2>1. \A i \in DOMAIN once : i \in Int
    BY <1>3
  <2>. QED
    BY <1>3, <2>1 DEF SameFingerprint
<1>5. out = Loose(once)
  BY <1>2, TwoPasses
<1>6. PICK g : Merging(g, FALSE, once) /\ Loose(once) = g[DOMAIN once]
  BY <1>3, PassMerges
<1>7. /\ out \in Seq(Finding)
      /\ \A i \in DOMAIN out : \E m \in DOMAIN once : Akin(out[i], once[m])
      /\ \A i, j \in DOMAIN out : i < j => ~Related(out[i], out[j])
      /\ \A i, j \in DOMAIN out : i # j => out[i].fp # out[j].fp
  <2>1. Passed(out, once, FALSE)
    BY <1>3, <1>5, <1>6, PassKeeps
  <2>2. \A f, e : Match(FALSE, f, e) <=> Related(f, e)
    BY DEF Match
  <2>. QED
    BY <1>4, <2>1, <2>2 DEF Passed
<1>8. \A i, j \in DOMAIN out : i < j => ~SameFingerprint(out[i], out[j])
  <2>1. \A i \in DOMAIN out : i \in Int
    BY <1>7
  <2>. QED
    BY <1>7, <2>1 DEF SameFingerprint
<1>9. \A i \in DOMAIN out : \E m \in DOMAIN list : Akin(out[i], list[m])
  <2>. SUFFICES ASSUME NEW i \in DOMAIN out PROVE \E m \in DOMAIN list : Akin(out[i], list[m])
    OBVIOUS
  <2>1. PICK n \in DOMAIN once : Akin(out[i], once[n])
    BY <1>7
  <2>2. PICK m \in DOMAIN list : Akin(once[n], list[m])
    BY <1>3
  <2>. QED
    BY <2>1, <2>2 DEF Akin
<1>. QED
  BY <1>7, <1>8, <1>9

-----------------------------------------------------------------------------
(***************************************************************************)
(* Claims that stand and identities lent                                   *)
(***************************************************************************)

\* Findings nobody has judged.
Unjudged == {f \in Finding : f.verdict = "none"}

\* g keeps, one by one, the claims that are not discarded.
IsStanding(g, claims) ==
    g = [s \in SUBSET DOMAIN claims |->
            IF s = {} THEN <<>>
            ELSE IF Validated(claims[Max(s)]).status = "discarded" THEN g[s \ {Max(s)}]
            ELSE Append(g[s \ {Max(s)}], Validated(claims[Max(s)]))]

\* The claims that stand, as findings nobody has judged.
LEMMA StandingUnjudged ==
    ASSUME NEW claims \in Seq(AllClaims)
    PROVE  Standing(claims) \in Seq(Unjudged)
<1>. DEFINE S == DOMAIN claims
            A == Seq(Unjudged)
            F == [p \in S \X A |->
                    IF Validated(claims[p[1]]).status = "discarded" THEN p[2]
                    ELSE Append(p[2], Validated(claims[p[1]]))]
            h == CHOOSE g : IsStanding(g, claims)
<1>1. Standing(claims) = h[S]
  BY Zenon DEF Standing, FoldLeft, MapThenFoldSet, IsStanding
<1>2. \A k \in S : Validated(claims[k]) \in Unjudged
  BY ValidatedFinding DEF Unjudged
<1>3. \A k \in S, a \in A :
          F[<<k, a>>] = IF Validated(claims[k]).status = "discarded" THEN a
                        ELSE Append(a, Validated(claims[k]))
  OBVIOUS
<1>. HIDE DEF F
<1>4. ASSUME NEW k \in S, NEW a \in A PROVE F[<<k, a>>] \in A
  <2>1. Append(a, Validated(claims[k])) \in A
    BY <1>2
  <2>. QED
    BY <1>3, <2>1
<1>5. <<>> \in A
  OBVIOUS
<1>6. \A s \in (SUBSET S) \ {{}} : Max(s) \in s /\ Max(s) \in S
  BY Positions
<1>7. \E g : IsStanding(g, claims)
  <2>. HIDE DEF A
  <2>1. PICK g \in [SUBSET S -> A] : Along(g, S, <<>>, F)
    BY <1>4, <1>5, ListFold
  <2>2. \A s \in SUBSET S : g[s] = IF s = {} THEN <<>> ELSE F[<<Max(s), g[s \ {Max(s)}]>>]
    BY <2>1 DEF Along
  <2>3. ASSUME NEW s \in (SUBSET S) \ {{}}
        PROVE  g[s] = IF Validated(claims[Max(s)]).status = "discarded" THEN g[s \ {Max(s)}]
                      ELSE Append(g[s \ {Max(s)}], Validated(claims[Max(s)]))
    <3>1. Max(s) \in S /\ g[s \ {Max(s)}] \in A
      BY <1>6, <2>1
    <3>. QED
      BY <1>3, <2>2, <3>1
  <2>4. \A s \in SUBSET S :
          g[s] = IF s = {} THEN <<>>
                 ELSE IF Validated(claims[Max(s)]).status = "discarded" THEN g[s \ {Max(s)}]
                 ELSE Append(g[s \ {Max(s)}], Validated(claims[Max(s)]))
    BY <2>2, <2>3
  <2>5. IsStanding(g, claims)
    <3>1. g = [s \in SUBSET S |-> g[s]]
      BY <2>1
    <3>. QED
      BY <2>4, <3>1, Zenon DEF IsStanding
  <2>. QED
    BY <2>5
<1>8. IsStanding(h, claims)
  BY <1>7
<1>. HIDE DEF h
<1>9. \A s \in SUBSET S :
          h[s] = IF s = {} THEN <<>>
                 ELSE IF Validated(claims[Max(s)]).status = "discarded" THEN h[s \ {Max(s)}]
                 ELSE Append(h[s \ {Max(s)}], Validated(claims[Max(s)]))
  BY <1>8, Zenon DEF IsStanding
<1>10. <<S, h[S]>> \in (SUBSET S) \X A
  <2>1. <<{}, h[{}]>> \in (SUBSET S) \X A
    <3>1. h[{}] = <<>>
      BY <1>9, Zenon
    <3>. QED
      BY <1>5, <3>1
  <2>2. ASSUME NEW s \in (SUBSET S) \ {{}}, <<s \ {Max(s)}, h[s \ {Max(s)}]>> \in (SUBSET S) \X A
        PROVE  <<s, h[s]>> \in (SUBSET S) \X A
    <3>1. h[s \ {Max(s)}] \in A
      BY <2>2
    <3>2. Validated(claims[Max(s)]) \in Unjudged
      BY <1>2, <1>6
    <3>3. h[s] \in A
      <4>1. CASE Validated(claims[Max(s)]).status = "discarded"
        BY <1>9, <3>1, <4>1
      <4>2. CASE Validated(claims[Max(s)]).status # "discarded"
        <5>1. h[s] = Append(h[s \ {Max(s)}], Validated(claims[Max(s)]))
          BY <1>9, <4>2
        <5>. QED
          BY <3>1, <3>2, <5>1
      <4>. QED
        BY <4>1, <4>2
    <3>. QED
      BY <3>3
  <2>. HIDE DEF A
  <2>. QED
    BY <2>1, <2>2, ListGood
<1>. QED
  BY <1>1, <1>10
\* The parts of Adopt by name.
Known == {earlier[i].fp : i \in DOMAIN earlier}
Close(acc, e) == {i \in DOMAIN acc : acc[i].fp \notin Known /\ Near(acc[i], e)}
Lend(acc, e) ==
    IF Close(acc, e) = {} \/ \E i \in DOMAIN acc : acc[i].fp = e.fp THEN acc
    ELSE [acc EXCEPT ![Min(Close(acc, e))].fp = e.fp]

\* g lets the earlier findings lend their identities one by one.
IsLent(g, list) ==
    g = [s \in SUBSET DOMAIN earlier |->
            IF s = {} THEN list
            ELSE Lend(g[s \ {Max(s)}], earlier[Max(s)])]

\* The same findings, some of another identity.
Alike(list) ==
    {l \in Seq(Finding) : /\ DOMAIN l = DOMAIN list
                          /\ \A i \in DOMAIN list : Akin(l[i], list[i])}

\* One earlier finding lends its identity to one finding at most.
LEMMA Lending ==
    ASSUME NEW list \in Seq(Finding), NEW acc \in Alike(list), NEW e \in Earlier
    PROVE  Lend(acc, e) \in Alike(list)
<1>. DEFINE near == Close(acc, e)
            out == Lend(acc, e)
<1>1. acc \in Seq(Finding) /\ DOMAIN acc = DOMAIN list /\ Len(acc) \in Nat
      /\ DOMAIN acc = 1..Len(acc) /\ \A i \in DOMAIN list : Akin(acc[i], list[i])
  BY DEF Alike
<1>2. CASE out = acc
  BY <1>2
<1>3. CASE out # acc
  <2>1. near # {} /\ near \in SUBSET DOMAIN acc /\ out = [acc EXCEPT ![Min(near)].fp = e.fp]
    BY <1>3 DEF Lend, Close
  <2>. HIDE DEF near, out
  <2>2. Min(near) \in DOMAIN acc
    BY <1>1, <2>1, LastFirst
  <2>3. PICK m \in DOMAIN acc : m = Min(near)
    BY <2>2
  <2>4. acc[m] \in Finding
    BY <1>1
  <2>5. PICK f : f = [acc[m] EXCEPT !.fp = e.fp]
    OBVIOUS
  <2>6. f \in Finding /\ Akin(f, acc[m])
    BY <2>4, <2>5 DEF Finding, Akin
  <2>7. out = [acc EXCEPT ![m] = f]
    BY <2>1, <2>3, <2>5
  <2>8. out \in Seq(Finding) /\ DOMAIN out = DOMAIN list
        /\ \A i \in DOMAIN list : out[i] = IF i = m THEN f ELSE acc[i]
    BY <1>1, <2>6, <2>7
  <2>9. \A i \in DOMAIN list : Akin(out[i], list[i])
    BY <1>1, <2>6, <2>8 DEF Akin
  <2>. QED
    BY <2>8, <2>9 DEF Alike, out
<1>. QED
  BY <1>2, <1>3

\* Findings that adopt identities stay the same otherwise.
LEMMA Adopted ==
    ASSUME NEW list \in Seq(Finding), earlier \in Seq(Earlier)
    PROVE  Adopt(list) \in Alike(list)
<1>. DEFINE S == DOMAIN earlier
            A == Alike(list)
            F == [p \in S \X A |-> Lend(p[2], earlier[p[1]])]
            h == CHOOSE g : IsLent(g, list)
<1>1. Adopt(list) = h[S]
  BY Zenon DEF Adopt, FoldLeft, MapThenFoldSet, IsLent, Lend, Close, Known
<1>2. \A k \in S, a \in A : Lend(a, earlier[k]) \in A
  BY Lending
<1>3. \A k \in S, a \in A : F[<<k, a>>] = Lend(a, earlier[k])
  OBVIOUS
<1>. HIDE DEF F
<1>4. \A k \in S, a \in A : F[<<k, a>>] \in A
  BY <1>2, <1>3
<1>5. list \in A
  BY DEF Alike, Akin
<1>6. \A s \in (SUBSET S) \ {{}} : Max(s) \in s /\ Max(s) \in S
  BY Positions
<1>7. \E g : IsLent(g, list)
  <2>. HIDE DEF A
  <2>1. PICK g \in [SUBSET S -> A] : Along(g, S, list, F)
    BY <1>4, <1>5, ListFold
  <2>2. \A s \in SUBSET S : g[s] = IF s = {} THEN list ELSE F[<<Max(s), g[s \ {Max(s)}]>>]
    BY <2>1 DEF Along
  <2>3. ASSUME NEW s \in (SUBSET S) \ {{}}
        PROVE  g[s] = Lend(g[s \ {Max(s)}], earlier[Max(s)])
    <3>1. Max(s) \in S /\ g[s \ {Max(s)}] \in A
      BY <1>6, <2>1
    <3>. QED
      BY <1>3, <2>2, <3>1
  <2>4. \A s \in SUBSET S :
          g[s] = IF s = {} THEN list ELSE Lend(g[s \ {Max(s)}], earlier[Max(s)])
    BY <2>2, <2>3
  <2>5. IsLent(g, list)
    <3>1. g = [s \in SUBSET S |-> g[s]]
      BY <2>1
    <3>. QED
      BY <2>4, <3>1, Zenon DEF IsLent
  <2>. QED
    BY <2>5
<1>8. IsLent(h, list)
  BY <1>7
<1>. HIDE DEF h
<1>9. \A s \in SUBSET S :
          h[s] = IF s = {} THEN list ELSE Lend(h[s \ {Max(s)}], earlier[Max(s)])
  BY <1>8, Zenon DEF IsLent
<1>10. <<S, h[S]>> \in (SUBSET S) \X A
  <2>. HIDE DEF A
  <2>1. <<{}, h[{}]>> \in (SUBSET S) \X A
    <3>1. h[{}] = list
      BY <1>9, Zenon
    <3>. QED
      BY <1>5, <3>1
  <2>2. ASSUME NEW s \in (SUBSET S) \ {{}}, <<s \ {Max(s)}, h[s \ {Max(s)}]>> \in (SUBSET S) \X A
        PROVE  <<s, h[s]>> \in (SUBSET S) \X A
    <3>1. h[s \ {Max(s)}] \in A /\ h[s] = Lend(h[s \ {Max(s)}], earlier[Max(s)])
      BY <1>9, <2>2
    <3>. QED
      BY <1>2, <1>6, <3>1
  <2>. QED
    BY <2>1, <2>2, ListGood
<1>. QED
  BY <1>1, <1>10

-----------------------------------------------------------------------------
(***************************************************************************)
(* Selection                                                               *)
(***************************************************************************)

\* g selects, one by one, the latest last.
IsSelected(g, list) ==
    g = [s \in SUBSET Alive(list) |->
            IF s = {} THEN NothingShown
            ELSE Place(list, g[s \ {Latest(list, s)}], Latest(list, s))]

\* The order of presentation is total on graded findings: some of them have a last.
LEMMA LatestIs ==
    ASSUME NEW list \in Seq(Finding), \A i \in Alive(list) : list[i].severity # "none",
           NEW t \in SUBSET Alive(list), t # {}
    PROVE  Latest(list, t) \in t
<1>. DEFINE S == Alive(list)
            Key(f) == 10 * Rank[f.severity] + Confidence(f) + IF Introduced(f) THEN 0 ELSE 5
            Good == {s \in SUBSET S : s # {} => \E i \in s : \A j \in s \ {i} : Before(list, j, i)}
<1>1. IsFiniteSet(S) /\ S \in SUBSET Int
  <2>1. S \in SUBSET DOMAIN list /\ IsFiniteSet(DOMAIN list)
    BY Positions DEF Alive
  <2>2. DOMAIN list \in SUBSET Int
    OBVIOUS
  <2>. HIDE DEF S
  <2>. QED
    BY <2>1, <2>2, FS_Subset
<1>2. ASSUME NEW i \in S PROVE Key(list[i]) \in Int
  <2>1. list[i] \in Finding /\ list[i].severity # "none"
    BY DEF Alive
  <2>2. list[i].severity \in DOMAIN Rank
    BY <2>1 DEF Finding
  <2>3. Rank[list[i].severity] \in Int
    BY <2>2, Ranked
  <2>4. Confidence(list[i]) \in Int
    BY DEF Confidence
  <2>. QED
    BY <2>3, <2>4
<1>3. \A i, j : Before(list, i, j) <=>
          (Key(list[i]) < Key(list[j]) \/ (Key(list[i]) = Key(list[j]) /\ i < j))
  BY DEF Before
<1>4. PICK K : K = [i \in S |-> Key(list[i])]
  OBVIOUS
<1>. HIDE DEF Key
<1>5. K \in [S -> Int] /\ \A i, j \in S :
          Before(list, i, j) <=> (K[i] < K[j] \/ (K[i] = K[j] /\ i < j))
  BY <1>2, <1>3, <1>4
<1>. HIDE DEF S
<1>6. {} \in Good
  OBVIOUS
<1>7. ASSUME NEW s \in (SUBSET S) \ {{}}
      PROVE  \E x \in s : s \ {x} \in Good => s \in Good
  <2>1. PICK x \in s : TRUE
    OBVIOUS
  <2>2. ASSUME s \ {x} \in Good, s \ {x} # {} PROVE s \in Good
    <3>1. PICK i \in s \ {x} : \A j \in (s \ {x}) \ {i} : Before(list, j, i)
      BY <2>2
    <3>2. CASE Before(list, x, i)
      <4>1. \A j \in s \ {i} : Before(list, j, i)
        BY <3>1, <3>2
      <4>. QED
        BY <4>1
    <3>3. CASE ~Before(list, x, i)
      <4>1. ASSUME NEW j \in s \ {x} PROVE Before(list, j, x)
        <5>1. j \in S /\ x \in S /\ i \in S /\ x # i
          BY <2>1
        <5>2. Before(list, i, x)
          BY <1>1, <1>5, <3>3, <5>1
        <5>3. CASE j = i
          BY <5>2, <5>3
        <5>4. CASE j # i
          <6>1. Before(list, j, i)
            BY <3>1, <5>4
          <6>. QED
            BY <1>1, <1>5, <5>1, <5>2, <6>1
        <5>. QED
          BY <5>3, <5>4
      <4>. QED
        BY <2>1, <4>1
    <3>. QED
      BY <3>2, <3>3
  <2>3. ASSUME s \ {x} = {} PROVE s \in Good
    <3>1. \A j \in s \ {x} : Before(list, j, x)
      BY <2>3
    <3>. QED
      BY <2>1, <3>1
  <2>. QED
    BY <2>1, <2>2, <2>3
<1>8. t \in Good
  <2>1. t \in SUBSET S /\ IsFiniteSet(t)
    BY <1>1, FS_Subset DEF S
  <2>2. \A s \in (SUBSET t) \ {{}} : \E x \in s : s \ {x} \in Good => s \in Good
    BY <1>7, <2>1
  <2>. HIDE DEF Good
  <2>. QED
    BY <1>6, <2>1, <2>2, Growing
<1>9. \E i \in t : \A j \in t \ {i} : Before(list, j, i)
  BY <1>8
<1>. QED
  BY <1>9 DEF Latest

\* A finding placed goes to one of the parts.
LEMMA Placing ==
    ASSUME NEW list, NEW S, NEW acc \in Placed(S), NEW i \in S
    PROVE  Place(list, acc, i) \in Placed(S)
<1>. DEFINE f == list[i]
            more == IF Introduced(f) THEN 0 ELSE 1
            counted == [acc EXCEPT !.existing = @ + more]
<1>. HIDE DEF more
<1>1. /\ acc = [inline |-> acc.inline, summary |-> acc.summary,
                overflow |-> acc.overflow, existing |-> acc.existing]
      /\ acc.inline \in Seq(S) /\ acc.summary \in Seq(S) /\ acc.overflow \in Seq(S)
      /\ acc.existing \in Nat
  BY DEF Placed
<1>2. /\ Append(acc.inline, i) \in Seq(S) /\ Append(acc.summary, i) \in Seq(S)
      /\ Append(acc.overflow, i) \in Seq(S)
  BY <1>1
<1>3. more \in Nat
  BY DEF more
<1>4. acc.existing + more \in Nat
  BY <1>1, <1>3
<1>5. /\ counted \in Placed(S) /\ counted.inline = acc.inline
      /\ counted.summary = acc.summary /\ counted.overflow = acc.overflow
  BY <1>1, <1>4 DEF Placed
<1>6. [acc EXCEPT !.overflow = Append(@, i)] \in Placed(S)
  BY <1>1, <1>2 DEF Placed
<1>. HIDE DEF counted
<1>7. [counted EXCEPT !.summary = Append(@, i)] \in Placed(S)
  BY <1>2, <1>5 DEF Placed
<1>8. [counted EXCEPT !.overflow = Append(@, i)] \in Placed(S)
  BY <1>2, <1>5 DEF Placed
<1>9. [counted EXCEPT !.inline = Append(@, i)] \in Placed(S)
  BY <1>2, <1>5 DEF Placed
<1>. QED
  BY <1>6, <1>7, <1>8, <1>9, Zenon DEF Place, counted, more

\* What is selected are positions of findings that still stand.
LEMMA Selected ==
    ASSUME NEW list \in Seq(Finding), \A i \in Alive(list) : list[i].severity # "none"
    PROVE  Select(list) \in Placed(Alive(list))
<1>. DEFINE S == Alive(list)
            A == Placed(S)
            c == [s \in SUBSET S |-> Latest(list, s)]
            F == [p \in S \X A |-> Place(list, p[2], p[1])]
            h == CHOOSE g : IsSelected(g, list)
<1>1. Select(list) = h[S]
  BY Zenon DEF Select, MapThenFoldSet, IsSelected, Alive, Latest
<1>2. IsFiniteSet(S)
  <2>1. S \in SUBSET DOMAIN list /\ IsFiniteSet(DOMAIN list)
    BY Positions DEF Alive
  <2>. HIDE DEF S
  <2>. QED
    BY <2>1, FS_Subset
<1>3. ASSUME NEW s \in (SUBSET S) \ {{}} PROVE Latest(list, s) \in s
  BY LatestIs
<1>4. Choice(c, S)
  BY <1>3 DEF Choice
<1>5. \A s \in SUBSET S : c[s] = Latest(list, s)
  OBVIOUS
<1>6. \A k \in S, a \in A : F[<<k, a>>] = Place(list, a, k)
  OBVIOUS
<1>7. \A k \in S, a \in A : Place(list, a, k) \in A
  BY Placing
<1>. HIDE DEF F, c
<1>8. \A k \in S, a \in A : F[<<k, a>>] \in A
  BY <1>6, <1>7
<1>9. NothingShown \in A
  BY DEF NothingShown, Placed
<1>. HIDE DEF A, S
<1>10. \E g : IsSelected(g, list)
  <2>1. PICK g \in [SUBSET S -> A] : Folding(g, S, NothingShown, F, c)
    BY <1>2, <1>4, <1>8, <1>9, FoldExists
  <2>2. \A s \in SUBSET S : g[s] = IF s = {} THEN NothingShown ELSE F[<<c[s], g[s \ {c[s]}]>>]
    BY <2>1 DEF Folding
  <2>3. ASSUME NEW s \in (SUBSET S) \ {{}}
        PROVE  g[s] = Place(list, g[s \ {Latest(list, s)}], Latest(list, s))
    <3>1. c[s] = Latest(list, s) /\ c[s] \in S /\ g[s \ {c[s]}] \in A
      BY <1>3, <1>5, <2>1
    <3>2. g[s] = F[<<c[s], g[s \ {c[s]}]>>]
      BY <2>2
    <3>3. F[<<c[s], g[s \ {c[s]}]>>] = Place(list, g[s \ {c[s]}], c[s])
      BY <1>6, <3>1
    <3>. QED
      BY <3>1, <3>2, <3>3
  <2>4. \A s \in SUBSET S :
          g[s] = IF s = {} THEN NothingShown
                 ELSE Place(list, g[s \ {Latest(list, s)}], Latest(list, s))
    BY <2>2, <2>3
  <2>5. IsSelected(g, list)
    <3>1. g = [s \in SUBSET S |-> g[s]]
      BY <2>1
    <3>. QED
      BY <2>4, <3>1, Zenon DEF IsSelected, S
  <2>. QED
    BY <2>5
<1>11. IsSelected(h, list)
  BY <1>10
<1>. HIDE DEF h
<1>12. \A s \in SUBSET S :
          h[s] = IF s = {} THEN NothingShown
                 ELSE Place(list, h[s \ {Latest(list, s)}], Latest(list, s))
  BY <1>11, Zenon DEF IsSelected, S
<1>13. <<S, h[S]>> \in (SUBSET S) \X A
  <2>1. <<{}, h[{}]>> \in (SUBSET S) \X A
    <3>1. h[{}] = NothingShown
      BY <1>12, Zenon
    <3>. QED
      BY <1>9, <3>1
  <2>2. ASSUME NEW s \in (SUBSET S) \ {{}}, <<s \ {c[s]}, h[s \ {c[s]}]>> \in (SUBSET S) \X A
        PROVE  <<s, h[s]>> \in (SUBSET S) \X A
    <3>1. c[s] = Latest(list, s) /\ c[s] \in S
      BY <1>3, <1>5
    <3>2. h[s] = Place(list, h[s \ {c[s]}], c[s])
      BY <1>12, <3>1
    <3>3. h[s \ {c[s]}] \in A
      BY <2>2
    <3>. QED
      BY <1>7, <3>1, <3>2, <3>3
  <2>. QED
    BY ZenonT(30), <1>2, <1>4, <2>1, <2>2, FoldGood
<1>. QED
  BY <1>1, <1>13 DEF A, S

-----------------------------------------------------------------------------
(***************************************************************************)
(* Policy, triage and what is carried over                                 *)
(***************************************************************************)

\* A finding graded by the policy, with the severity triage starts from.
Rated(f) == [Normalize(f) EXCEPT !.before = Normalize(f).severity]

\* What that makes of a finding that is not refuted while it stands.
Policed(g, f) ==
    /\ g \in Finding /\ g.claim = f.claim /\ g.verdict = f.verdict
    /\ Live(g) => Live(f) /\ g.severity # "BLOCKER"
    /\ g.before = g.severity /\ Sound(g)

\* The policy leaves no finding standing that is not sound.
LEMMA Normalized ==
    ASSUME NEW f \in Finding, f.verdict = "rejected" => ~Live(f),
           NEW g, g = Rated(f)
    PROVE  Policed(g, f)
<1>1. PICK n : n = Normalize(f)
  OBVIOUS
<1>. DEFINE Keeps(h) == /\ h \in Finding /\ h.claim = f.claim /\ h.verdict = f.verdict
                        /\ Live(h) => Live(f) /\ h.severity # "BLOCKER"
                        /\ Sound(h)
<1>2. {"SUGGESTION", "FYI", "REQUIRED", "NIT"} \subseteq DOMAIN Rank
  BY Ranked
<1>3. Keeps(n)
  <2>1. CASE ~Live(f)
    BY <1>1, <2>1 DEF Normalize, Live, Sound
  <2>2. CASE Live(f) /\ f.claim.scope # "local" /\ ~Verified(f)
    <3>1. n = [f EXCEPT !.status = "suppressed", !.severity = "SUGGESTION"]
      BY <1>1, <2>2 DEF Normalize, Live
    <3>2. n = [f EXCEPT !.severity = "SUGGESTION", !.status = "suppressed"]
      BY <3>1 DEF Finding
    <3>3. "suppressed" \in Gone
      BY DEF Gone
    <3>4. n \in Finding /\ n.claim = f.claim /\ n.verdict = f.verdict /\ n.status \in Gone
      BY <1>2, <3>2, <3>3 DEF Finding
    <3>. QED
      BY <3>4 DEF Live, Sound
  <2>3. CASE Live(f) /\ ~(f.claim.scope # "local" /\ ~Verified(f))
    <3>1. PICK status : status = IF Unpublishable(f) THEN "suppressed" ELSE f.status
      OBVIOUS
    <3>2. n = [f EXCEPT !.severity = Lowered(f), !.status = status]
      BY <1>1, <2>3, <3>1 DEF Normalize, Live
    <3>3. status \in Gone \cup {f.status}
      BY <3>1 DEF Gone
    <3>4. Lowered(f) \in {"SUGGESTION", "FYI", "REQUIRED", "NIT"}
      BY DEF Lowered, Base, Grave
    <3>5. Lowered(f) = "REQUIRED" =>
              Introduced(f) /\ Base(f.claim.category) \in Grave /\ Verified(f)
      BY DEF Lowered, NeedsVerification, Grave, Base
    <3>6. Lowered(f) \in DOMAIN Rank
      BY <1>2, <3>4
    <3>7. /\ n \in Finding /\ n.claim = f.claim /\ n.verdict = f.verdict
          /\ n.severity = Lowered(f) /\ n.status = status
      BY <3>2, <3>3, <3>6 DEF Finding
    <3>8. Sound(n)
      BY <2>3, <3>4, <3>5, <3>7 DEF Sound, Live, Verified, Introduced
    <3>. QED
      BY <2>3, <3>4, <3>7, <3>8
  <2>. QED
    BY <2>1, <2>2, <2>3
<1>4. g = [n EXCEPT !.before = n.severity]
  BY <1>1 DEF Rated
<1>5. g \in Finding /\ g.claim = n.claim /\ g.verdict = n.verdict /\ g.status = n.status
      /\ g.severity = n.severity /\ g.before = n.severity
  BY <1>3, <1>4 DEF Finding
<1>. QED
  BY <1>3, <1>5 DEF Live, Sound, Verified, Introduced, Policed

\* What a judgement of the triage model leaves of a finding.
LEMMA TriagedStays ==
    ASSUME NEW f \in Finding, Sound(f), Live(f) => f.severity # "BLOCKER",
           f.before = f.severity, Live(f), NEW judgement \in Judgements,
           NEW g, g = Triaged(f, judgement)
    PROVE  /\ g \in Finding /\ g.claim = f.claim /\ g.verdict = f.verdict
           /\ g.status = f.status /\ Graded(g, gating)
<1>1. CASE g = f
  BY <1>1 DEF Graded
<1>2. CASE g # f
  <2>1. g = [f EXCEPT !.severity = judgement] /\ judgement # "keep" /\ ~Gates(f)
    BY <1>2 DEF Triaged
  <2>2. judgement \in {"SUGGESTION", "NIT", "FYI"} /\ judgement \in DOMAIN Rank
    BY <2>1, LimitsAssumption, Ranked
  <2>3. g \in Finding /\ g.claim = f.claim /\ g.verdict = f.verdict
        /\ g.status = f.status /\ g.severity = judgement /\ g.before = f.severity
    BY <2>1, <2>2 DEF Finding
  <2>4. Sound(g)
    BY <2>2, <2>3 DEF Sound, Live, Verified, Introduced
  <2>5. gating => ~Blocks(g, g.severity) /\ ~Blocks(g, g.before)
    BY <2>1, <2>2, <2>3 DEF Gates, Blocks, Live, Verified, Introduced
  <2>. QED
    BY <2>2, <2>3, <2>4, <2>5 DEF Graded
<1>. QED
  BY <1>1, <1>2

\* What an incremental re-review carries over.
LEMMA DemotedIs ==
    ASSUME NEW e \in Earlier, NEW g, g = Demoted(e)
    PROVE  /\ g \in Finding /\ g.claim = e.claim /\ g.verdict = e.verdict
           /\ Graded(g, gating)
<1>1. e \in Finding /\ Sound(e)
  BY EarlierAssumption
<1>2. PICK severity : severity = IF e.severity = "BLOCKER" THEN "SUGGESTION" ELSE e.severity
  OBVIOUS
<1>3. severity \in DOMAIN Rank \cup {"none"} /\ severity # "BLOCKER"
  BY <1>1, <1>2, Ranked DEF Finding
<1>4. g = [e EXCEPT !.severity = severity, !.before = severity]
  BY <1>2 DEF Demoted
<1>5. g \in Finding /\ g.claim = e.claim /\ g.verdict = e.verdict
      /\ g.status = e.status /\ g.severity = severity /\ g.before = severity
  BY <1>1, <1>3, <1>4 DEF Finding
<1>6. Sound(g)
  BY <1>1, <1>2, <1>3, <1>5 DEF Sound, Live, Verified, Introduced
<1>. QED
  BY <1>3, <1>5, <1>6 DEF Graded

\* What is known of a finding is known of one that differs in its identity.
LEMMA AkinSame ==
    ASSUME NEW f, NEW g, Akin(f, g), NEW gates, NEW known
    PROVE  /\ Sound(f) <=> Sound(g)
           /\ Graded(f, gates) <=> Graded(g, gates)
           /\ Honest(f, known) <=> Honest(g, known)
           /\ Verified(f) <=> Verified(g)
           /\ f.claim = g.claim
BY DEF Akin, Sound, Graded, Honest, Verified, Live, Blocks, Introduced

\* The elements of two lists joined are theirs.
LEMMA Joined ==
    ASSUME NEW X, NEW a \in Seq(X), NEW b \in Seq(X)
    PROVE  /\ a \o b \in Seq(X)
           /\ \A i \in DOMAIN (a \o b) :
                 \/ i \in DOMAIN a /\ (a \o b)[i] = a[i]
                 \/ \E j \in DOMAIN b : (a \o b)[i] = b[j]
<1>1. a \o b \in Seq(X) /\ Len(a \o b) = Len(a) + Len(b)
      /\ Len(a) \in Nat /\ Len(b) \in Nat
  OBVIOUS
<1>2. ASSUME NEW i \in DOMAIN (a \o b), i \notin DOMAIN a
      PROVE  \E j \in DOMAIN b : (a \o b)[i] = b[j]
  <2>1. i \in 1..(Len(a) + Len(b)) /\ i > Len(a)
    BY <1>1, <1>2
  <2>2. i - Len(a) \in DOMAIN b /\ (a \o b)[i] = b[i - Len(a)]
    BY <1>1, <2>1
  <2>. QED
    BY <2>2
<1>3. \A i \in DOMAIN (a \o b) : i \in DOMAIN a => (a \o b)[i] = a[i]
  BY <1>1
<1>. QED
  BY <1>1, <1>2, <1>3

-----------------------------------------------------------------------------
(***************************************************************************)
(* The steps                                                               *)
(***************************************************************************)

\* The claims a review may take up are all known.
LEMMA Taken ==
    ASSUME TypeOK
    PROVE  /\ proposals \in Seq(AllClaims) /\ diagnostics \in Seq(AllClaims)
           /\ attributed \in Seq(AllClaims)
<1>1. /\ Claims \subseteq AllClaims /\ Diagnostics \subseteq AllClaims
      /\ Attributed \subseteq AllClaims
  BY DEF AllClaims
<1>2. /\ proposals \in Seq(Claims) /\ diagnostics \in Seq(Diagnostics)
      /\ attributed \in Seq(Attributed)
  BY DEF TypeOK
<1>. QED
  BY <1>1, <1>2

\* What is prepared of claims: findings nobody has judged.
LEMMA PreparedIs ==
    ASSUME NEW claims \in Seq(AllClaims)
    PROVE  /\ Prepared(claims) \in Seq(Finding)
           /\ \A i \in DOMAIN Prepared(claims) : Prepared(claims)[i].verdict = "none"
<1>1. PICK list : list = Standing(claims)
  OBVIOUS
<1>2. list \in Seq(Unjudged)
  BY <1>1, StandingUnjudged
<1>3. Unjudged \subseteq Finding
  BY DEF Unjudged
<1>4. list \in Seq(Finding)
  BY <1>2, <1>3
<1>5. \A m \in DOMAIN list : list[m].verdict = "none"
  <2>1. \A m \in DOMAIN list : list[m] \in Unjudged
    BY <1>2
  <2>. QED
    BY <2>1 DEF Unjudged
<1>6. PICK out : out = Deduplicate(list)
  OBVIOUS
<1>7. out \in Seq(Finding) /\ \A i \in DOMAIN out : \E m \in DOMAIN list : Akin(out[i], list[m])
  BY <1>4, <1>6, Deduplicated
<1>8. \A i \in DOMAIN out : out[i].verdict = "none"
  BY <1>5, <1>7 DEF Akin
<1>9. Prepared(claims) = out
  BY <1>1, <1>6 DEF Prepared
<1>. QED
  BY <1>7, <1>8, <1>9

\* An empty list has no finding twice and no part of it is shown.
LEMMA Empty ==
    ASSUME findings = <<>>, decision = "none", shown = NothingShown
    PROVE  /\ NoneTwice /\ findings \in Seq(Finding)
           /\ \A part \in {shown.inline, shown.summary, shown.overflow} :
                 ToSet(part) \subseteq DOMAIN findings
<1>1. shown.inline = <<>> /\ shown.summary = <<>> /\ shown.overflow = <<>>
  BY DEF NothingShown
<1>2. ToSet(<<>>) = {}
  BY DEF ToSet
<1>. QED
  BY <1>1, <1>2 DEF NoneTwice

\* The invariant holds before anything was proposed.
LEMMA InitInv == Init => IInv
<1>. SUFFICES ASSUME Init PROVE IInv
  OBVIOUS
<1>1. \A X, n : n \in Nat => BoundedSeq(X, n) \subseteq Seq(X)
  BY DEF BoundedSeq, SeqOf
<1>2. /\ proposals \in Seq(Claims) /\ diagnostics \in Seq(Diagnostics)
      /\ attributed \in Seq(Attributed) /\ earlier \in Seq(Earlier)
      /\ again \in Seq(DOMAIN earlier)
  BY <1>1, LimitsAssumption DEF Init
<1>3. fresh = <<>> /\ fresh \in Seq(Finding) /\ todo \subseteq DOMAIN fresh
  BY DEF Init
<1>4. TypeOK
  BY <1>2, <1>3, Empty DEF Init, TypeOK
<1>5. FreshInv
  BY <1>3 DEF FreshInv
<1>6. ResultInv /\ NoneTwice
  BY Empty DEF Init, ResultInv, Done
<1>. QED
  BY <1>4, <1>5, <1>6 DEF IInv

\* Before the end nothing is decided.
LEMMA Unfinished ==
    ASSUME IInv, ~Done, UNCHANGED <<input, results>>, step' \in {"verify", "settle", "triage"},
           fresh' \in Seq(Finding), todo' \subseteq DOMAIN fresh', lost' \in BOOLEAN,
           scopes' \in BOOLEAN, failed' \in BOOLEAN, confirmed' \subseteq AllClaims
    PROVE  TypeOK' /\ ResultInv' /\ NoneTwice'
<1>1. findings' = <<>> /\ decision' = "none" /\ shown' = NothingShown
  BY DEF IInv, ResultInv, results
<1>2. NoneTwice' /\ findings' \in Seq(Finding)
      /\ \A part \in {shown'.inline, shown'.summary, shown'.overflow} :
            ToSet(part) \subseteq DOMAIN findings'
  <2>1. shown'.inline = <<>> /\ shown'.summary = <<>> /\ shown'.overflow = <<>>
    BY <1>1 DEF NothingShown
  <2>2. ToSet(<<>>) = {}
    BY DEF ToSet
  <2>. QED
    BY <1>1, <2>1, <2>2 DEF NoneTwice
<1>3. TypeOK'
  BY <1>1, <1>2 DEF IInv, TypeOK, input
<1>4. ResultInv'
  BY <1>1 DEF ResultInv, Done
<1>. QED
  BY <1>2, <1>3, <1>4

\* Each step keeps it. Preparing: nobody has judged what is prepared.
LEMMA PrepareStep == ASSUME IInv, Prepare PROVE IInv'
<1>1. TypeOK /\ FreshInv /\ ~Done
  BY DEF IInv, Prepare, Done
<1>2. fresh' \in Seq(Finding) /\ \A i \in DOMAIN fresh' : fresh'[i].verdict = "none"
  BY <1>1, Taken, PreparedIs DEF Prepare
<1>3. TypeOK' /\ ResultInv' /\ NoneTwice'
  <2>1. todo' \subseteq DOMAIN fresh' /\ step' = "verify"
        /\ UNCHANGED <<input, lost, scopes, failed, results, confirmed>>
    BY DEF Prepare
  <2>2. lost \in BOOLEAN /\ scopes \in BOOLEAN /\ failed \in BOOLEAN /\ confirmed \subseteq AllClaims
    BY <1>1 DEF TypeOK
  <2>. QED
    BY <1>1, <1>2, <2>1, <2>2, Unfinished
<1>4. FreshInv'
  <2>1. step' = "verify"
    BY DEF Prepare
  <2>. QED
    BY <1>2, <2>1 DEF FreshInv, Honest, Verified
<1>. QED
  BY <1>3, <1>4 DEF IInv

\* A ruling is a verdict; a refuted finding is gone.
LEMMA RuledIs ==
    ASSUME NEW f \in Finding, NEW verdict \in {"confirmed", "rejected", "uncertain"},
           NEW g, g = Ruled(f, verdict)
    PROVE  /\ g \in Finding /\ g.claim = f.claim /\ g.verdict = verdict
           /\ verdict = "rejected" => ~Live(g)
<1>1. PICK status : status = IF verdict = "confirmed" THEN "verified"
                             ELSE IF verdict = "rejected" THEN "discarded" ELSE "downgraded"
  OBVIOUS
<1>2. g = [f EXCEPT !.verdict = verdict, !.status = status]
  BY <1>1 DEF Ruled
<1>3. /\ status \in Gone \cup {"proposed", "downgraded", "verified"}
      /\ verdict = "rejected" => status \in Gone
  BY <1>1 DEF Gone
<1>4. g \in Finding /\ g.claim = f.claim /\ g.verdict = verdict /\ g.status = status
  BY <1>2, <1>3 DEF Finding
<1>. QED
  BY <1>3, <1>4 DEF Live

\* A verdict: refuted findings go, confirmed claims are known.
LEMMA JudgeStep ==
    ASSUME IInv, NEW i \in todo, NEW verdict \in {"confirmed", "rejected", "uncertain"},
           Judge(i, verdict)
    PROVE  IInv'
<1>1. TypeOK /\ FreshInv /\ ~Done
  BY DEF IInv, Judge, Done
<1>2. i \in DOMAIN fresh /\ fresh \in Seq(Finding) /\ fresh[i] \in Finding
  BY <1>1 DEF TypeOK
<1>3. PICK g : g = Ruled(fresh[i], verdict)
  OBVIOUS
<1>4. /\ g \in Finding /\ g.claim = fresh[i].claim /\ g.verdict = verdict
      /\ verdict = "rejected" => ~Live(g)
  BY <1>2, <1>3, RuledIs
<1>5. fresh' = [fresh EXCEPT ![i] = g]
  BY <1>3 DEF Judge
<1>6. fresh' \in Seq(Finding) /\ DOMAIN fresh' = DOMAIN fresh
      /\ \A k \in DOMAIN fresh : fresh'[k] = IF k = i THEN g ELSE fresh[k]
  BY <1>2, <1>4, <1>5
<1>7. confirmed' \subseteq AllClaims /\ confirmed \subseteq confirmed'
      /\ (verdict = "confirmed" => fresh[i].claim \in confirmed')
  <2>1. fresh[i].claim \in AllClaims
    BY <1>2 DEF Finding
  <2>. QED
    BY <1>1, <2>1 DEF Judge, TypeOK
<1>8. step' = step /\ step \in {"verify", "settle"}
  BY DEF Judge
<1>9. TypeOK' /\ ResultInv' /\ NoneTwice'
  <2>1. todo' \subseteq DOMAIN fresh' /\ UNCHANGED <<input, lost, scopes, failed, results>>
    BY <1>1, <1>6 DEF Judge, TypeOK
  <2>2. lost \in BOOLEAN /\ scopes \in BOOLEAN /\ failed \in BOOLEAN
    BY <1>1 DEF TypeOK
  <2>. QED
    BY <1>1, <1>6, <1>7, <1>8, <2>1, <2>2, Unfinished
<1>10. FreshInv'
  <2>1. \A k \in DOMAIN fresh : Honest(fresh[k], confirmed)
    BY <1>1 DEF FreshInv
  <2>2. ASSUME NEW k \in DOMAIN fresh' PROVE Honest(fresh'[k], confirmed')
    BY <1>4, <1>6, <1>7, <2>1 DEF Honest, Verified
  <2>. QED
    BY <1>8, <2>2 DEF FreshInv
<1>. QED
  BY <1>9, <1>10 DEF IInv

\* A lost verdict neither refutes nor verifies.
LEMMA UnavailableStep ==
    ASSUME IInv, NEW i \in todo, NEW spent \in BOOLEAN, Unavailable(i, spent)
    PROVE  IInv'
<1>1. TypeOK /\ FreshInv /\ ~Done
  BY DEF IInv, Unavailable, Done
<1>2. i \in DOMAIN fresh /\ fresh \in Seq(Finding) /\ fresh[i] \in Finding
  BY <1>1 DEF TypeOK
<1>3. PICK g : g = [fresh[i] EXCEPT !.verdict = "uncertain"]
  OBVIOUS
<1>4. g \in Finding /\ g.verdict = "uncertain"
  BY <1>2, <1>3 DEF Finding
<1>5. fresh' = [fresh EXCEPT ![i] = g]
  BY <1>3 DEF Unavailable
<1>6. fresh' \in Seq(Finding) /\ DOMAIN fresh' = DOMAIN fresh
      /\ \A k \in DOMAIN fresh : fresh'[k] = IF k = i THEN g ELSE fresh[k]
  BY <1>2, <1>4, <1>5
<1>7. step' = step /\ step \in {"verify", "settle"} /\ confirmed' = confirmed
  BY DEF Unavailable
<1>8. TypeOK' /\ ResultInv' /\ NoneTwice'
  <2>1. todo' \subseteq DOMAIN fresh' /\ UNCHANGED <<input, scopes, failed, results, confirmed>>
        /\ lost' \in BOOLEAN
    BY <1>1, <1>6 DEF Unavailable, TypeOK
  <2>2. scopes \in BOOLEAN /\ failed \in BOOLEAN /\ confirmed \subseteq AllClaims
    BY <1>1 DEF TypeOK
  <2>. QED
    BY <1>1, <1>6, <1>7, <2>1, <2>2, Unfinished
<1>9. FreshInv'
  <2>1. \A k \in DOMAIN fresh : Honest(fresh[k], confirmed)
    BY <1>1 DEF FreshInv
  <2>2. ASSUME NEW k \in DOMAIN fresh' PROVE Honest(fresh'[k], confirmed')
    BY <1>4, <1>6, <1>7, <2>1 DEF Honest, Verified
  <2>. QED
    BY <1>7, <2>2 DEF FreshInv
<1>. QED
  BY <1>8, <1>9 DEF IInv

\* What a build establishes: claims confirmed by its output alone.
Established(claims) ==
    [i \in DOMAIN Standing(claims) |-> [Standing(claims)[i] EXCEPT !.verdict = "confirmed"]]

\* What a build established are findings of the known claims, all confirmed.
LEMMA EstablishedIs ==
    ASSUME NEW claims \in Seq(AllClaims), NEW est, est = Established(claims)
    PROVE  /\ {est[i].claim : i \in DOMAIN est} \subseteq AllClaims
           /\ est \in Seq(Finding)
           /\ \A i \in DOMAIN est : est[i].verdict = "confirmed"
<1>1. PICK list : list = Standing(claims)
  OBVIOUS
<1>2. list \in Seq(Unjudged)
  BY <1>1, StandingUnjudged
<1>3. est = [i \in DOMAIN list |-> [list[i] EXCEPT !.verdict = "confirmed"]]
  BY <1>1 DEF Established
<1>4. DOMAIN est = DOMAIN list
  BY <1>3
<1>5. ASSUME NEW i \in DOMAIN est PROVE est[i] \in Finding /\ est[i].verdict = "confirmed"
  <2>1. PICK f : f = list[i]
    OBVIOUS
  <2>2. f \in Finding
    BY <1>2, <1>4, <2>1 DEF Unjudged
  <2>3. est[i] = [f EXCEPT !.verdict = "confirmed"]
    BY <1>3, <1>4, <2>1
  <2>. QED
    BY <2>2, <2>3 DEF Finding
<1>6. est \in Seq(Finding)
  <2>1. DOMAIN est = 1..Len(list) /\ Len(list) \in Nat
    BY <1>2, <1>4
  <2>2. est = [i \in 1..Len(list) |-> est[i]]
    BY <1>3, <1>4, <2>1
  <2>. QED
    BY <1>5, <2>1, <2>2
<1>7. {est[i].claim : i \in DOMAIN est} \subseteq AllClaims
  BY <1>5 DEF Finding
<1>. QED
  BY <1>5, <1>6, <1>7

\* Joining: what the build established is confirmed by then.
LEMMA JoinStep == ASSUME IInv, Join PROVE IInv'
<1>. DEFINE est == Established(diagnostics)
            claims == {est[i].claim : i \in DOMAIN est}
<1>1. TypeOK /\ FreshInv /\ ~Done
  BY DEF IInv, Join, Done
<1>2. /\ fresh' = fresh \o Deduplicate(est) \o Prepared(attributed)
      /\ confirmed' = confirmed \cup claims /\ step' = "settle"
      /\ todo' \subseteq DOMAIN fresh' /\ failed' \in BOOLEAN
      /\ UNCHANGED <<input, lost, scopes, results>>
  BY DEF Join, Established
<1>3. PICK a : a = Deduplicate(est)
  OBVIOUS
<1>4. PICK b : b = Prepared(attributed)
  OBVIOUS
<1>5. PICK all : all = confirmed'
  OBVIOUS
<1>6. /\ claims \subseteq AllClaims
      /\ a \in Seq(Finding) /\ \A i \in DOMAIN a : Honest(a[i], all)
  <2>1. diagnostics \in Seq(AllClaims)
    BY <1>1, Taken
  <2>2. PICK e : e = est
    OBVIOUS
  <2>3. /\ {e[i].claim : i \in DOMAIN e} \subseteq AllClaims
        /\ e \in Seq(Finding) /\ \A i \in DOMAIN e : e[i].verdict = "confirmed"
    BY <2>1, <2>2, EstablishedIs
  <2>4. claims \subseteq all
    BY <1>2, <1>5
  <2>5. \A i \in DOMAIN e : Honest(e[i], all)
    BY <2>2, <2>3, <2>4 DEF Honest, Verified
  <2>6. a \in Seq(Finding) /\ \A i \in DOMAIN a : \E m \in DOMAIN e : Akin(a[i], e[m])
    BY <1>3, <2>2, <2>3, Deduplicated
  <2>7. \A i \in DOMAIN a : Honest(a[i], all)
    BY <2>5, <2>6 DEF Akin, Honest, Live, Verified
  <2>. QED
    BY <2>2, <2>3, <2>6, <2>7
<1>. HIDE DEF est, claims
<1>7. b \in Seq(Finding) /\ \A i \in DOMAIN b : Honest(b[i], all)
  <2>1. b \in Seq(Finding) /\ \A i \in DOMAIN b : b[i].verdict = "none"
    BY <1>1, <1>4, Taken, PreparedIs
  <2>. QED
    BY <2>1 DEF Honest, Verified
<1>8. fresh \in Seq(Finding) /\ \A i \in DOMAIN fresh : Honest(fresh[i], all)
  <2>1. confirmed \subseteq all
    BY <1>2, <1>5
  <2>2. \A i \in DOMAIN fresh : Honest(fresh[i], confirmed)
    BY <1>1 DEF FreshInv
  <2>. QED
    BY <1>1, <2>1, <2>2 DEF TypeOK, Honest
<1>9. PICK old : old = fresh
  OBVIOUS
<1>10. PICK first : first = old \o a
  OBVIOUS
<1>11. first \in Seq(Finding) /\ \A i \in DOMAIN first : Honest(first[i], all)
  BY <1>6, <1>8, <1>9, <1>10, Joined
<1>12. PICK list : list = first \o b
  OBVIOUS
<1>13. list \in Seq(Finding) /\ \A i \in DOMAIN list : Honest(list[i], all)
  BY <1>7, <1>11, <1>12, Joined
<1>14. fresh' = list
  BY <1>2, <1>3, <1>4, <1>9, <1>10, <1>12
<1>15. TypeOK' /\ ResultInv' /\ NoneTwice'
  <2>1. lost \in BOOLEAN /\ scopes \in BOOLEAN /\ confirmed' \subseteq AllClaims
    BY <1>1, <1>2, <1>6 DEF TypeOK
  <2>. QED
    BY <1>1, <1>2, <1>13, <1>14, <2>1, Unfinished
<1>16. FreshInv'
  BY <1>2, <1>5, <1>13, <1>14 DEF FreshInv
<1>. QED
  BY <1>15, <1>16 DEF IInv

\* Settling: the policy grades every finding.
LEMMA SettleStep == ASSUME IInv, Settle PROVE IInv'
<1>. DEFINE beyond == Beyond(fresh)
            held == [i \in DOMAIN fresh |->
                       IF i \in beyond THEN [fresh[i] EXCEPT !.status = "suppressed"]
                       ELSE fresh[i]]
            settled == [i \in DOMAIN fresh |-> Normalize(held[i])]
<1>1. TypeOK /\ FreshInv /\ ~Done
  BY DEF IInv, Settle, Done
<1>2. /\ fresh' = [i \in DOMAIN settled |-> [settled[i] EXCEPT !.before = settled[i].severity]]
      /\ step' = "triage" /\ scopes' \in BOOLEAN
      /\ UNCHANGED <<input, todo, lost, failed, results, confirmed>>
  BY DEF Settle
<1>3. fresh \in Seq(Finding) /\ \A i \in DOMAIN fresh : Honest(fresh[i], confirmed)
  BY <1>1 DEF TypeOK, FreshInv
<1>4. ASSUME NEW i \in DOMAIN fresh
      PROVE  /\ fresh'[i] \in Finding /\ Honest(fresh'[i], confirmed)
             /\ Graded(fresh'[i], gating) /\ fresh'[i].before = fresh'[i].severity
  <2>1. PICK f : f = fresh[i]
    OBVIOUS
  <2>2. f \in Finding /\ Honest(f, confirmed)
    BY <1>3, <2>1
  <2>3. PICK e : e = IF i \in beyond THEN [f EXCEPT !.status = "suppressed"] ELSE f
    OBVIOUS
  <2>4. e \in Finding /\ e.claim = f.claim /\ e.verdict = f.verdict /\ (Live(e) => Live(f))
    BY <2>2, <2>3 DEF Finding, Gone, Live
  <2>5. PICK n : n = Normalize(e)
    OBVIOUS
  <2>6. PICK g : g = Rated(e)
    OBVIOUS
  <2>7. e.verdict = "rejected" => ~Live(e)
    BY <2>2, <2>4 DEF Honest
  <2>8. /\ g \in Finding /\ g.claim = e.claim /\ g.verdict = e.verdict
        /\ Live(g) => Live(e) /\ g.severity # "BLOCKER"
        /\ g.before = g.severity /\ Sound(g)
    BY <2>4, <2>6, <2>7, Normalized DEF Policed
  <2>9. Honest(g, confirmed) /\ Graded(g, gating)
    BY <2>2, <2>4, <2>8 DEF Honest, Graded, Verified
  <2>10. fresh'[i] = g
    <3>1. held[i] = e
      BY <2>1, <2>3
    <3>2. settled[i] = n
      BY <2>5, <3>1
    <3>3. DOMAIN settled = DOMAIN fresh
      OBVIOUS
    <3>. HIDE DEF settled
    <3>. QED
      BY <1>2, <2>5, <2>6, <3>2, <3>3 DEF Rated
  <2>. QED
    BY <2>8, <2>9, <2>10
<1>5. DOMAIN fresh' = DOMAIN fresh
  BY <1>2
<1>6. fresh' \in Seq(Finding)
  <2>1. DOMAIN fresh' = 1..Len(fresh) /\ Len(fresh) \in Nat
    BY <1>3, <1>5
  <2>2. fresh' = [i \in 1..Len(fresh) |-> fresh'[i]]
    BY <1>2, <2>1
  <2>. QED
    BY <1>4, <1>5, <2>1, <2>2
<1>7. TypeOK' /\ ResultInv' /\ NoneTwice'
  <2>1. lost \in BOOLEAN /\ failed \in BOOLEAN /\ confirmed \subseteq AllClaims
        /\ todo \subseteq DOMAIN fresh
    BY <1>1 DEF TypeOK
  <2>. QED
    BY <1>1, <1>2, <1>5, <1>6, <2>1, Unfinished
<1>8. FreshInv'
  <2>1. gating' = gating /\ confirmed' = confirmed
    BY <1>2 DEF input
  <2>. QED
    BY <1>2, <1>4, <1>5, <2>1 DEF FreshInv
<1>. QED
  BY <1>7, <1>8 DEF IInv

\* What a review may keep: graded, and blocking only what is proven.
Kept(f, gates, proven) == Graded(f, gates) /\ (Verified(f) => f.claim \in proven)

\* Triage leaves every finding what it was but for severities that do not gate.
LEMMA TriagedFresh ==
    ASSUME IInv, step = "triage", NEW judged \in [Candidates(fresh) -> Judgements],
           NEW triaged,
           triaged = [i \in DOMAIN fresh |->
                        IF i \in Candidates(fresh) THEN Triaged(fresh[i], judged[i])
                        ELSE fresh[i]]
    PROVE  /\ triaged \in Seq(Finding) /\ DOMAIN triaged = DOMAIN fresh
           /\ \A i \in DOMAIN triaged :
                 /\ Honest(triaged[i], confirmed) /\ Graded(triaged[i], gating)
<1>1. TypeOK /\ FreshInv /\ fresh \in Seq(Finding)
  BY DEF IInv, TypeOK
<1>2. DOMAIN triaged = DOMAIN fresh
  OBVIOUS
<1>3. ASSUME NEW i \in DOMAIN fresh
      PROVE  /\ triaged[i] \in Finding /\ Honest(triaged[i], confirmed)
             /\ Graded(triaged[i], gating)
  <2>1. PICK f : f = fresh[i]
    OBVIOUS
  <2>2. PICK g : g = triaged[i]
    OBVIOUS
  <2>3. /\ f \in Finding /\ Honest(f, confirmed) /\ Graded(f, gating)
        /\ f.before = f.severity
    BY <1>1, <2>1 DEF FreshInv
  <2>4. CASE i \notin Candidates(fresh)
    <3>1. g = f
      BY <2>1, <2>2, <2>4
    <3>. QED
      BY <2>2, <2>3, <3>1
  <2>5. CASE i \in Candidates(fresh)
    <3>1. Live(f)
      BY <2>1, <2>5 DEF Candidates
    <3>2. PICK judgement \in Judgements : judgement = judged[i]
      BY <2>5
    <3>3. g = Triaged(f, judgement)
      BY <2>1, <2>2, <2>5, <3>2
    <3>4. Sound(f) /\ (Live(f) => f.severity # "BLOCKER")
      BY <2>3 DEF Graded
    <3>5. /\ g \in Finding /\ g.claim = f.claim /\ g.verdict = f.verdict
          /\ g.status = f.status /\ Graded(g, gating)
      BY <2>3, <3>1, <3>3, <3>4, TriagedStays
    <3>6. Honest(g, confirmed)
      BY <2>3, <3>5 DEF Honest, Live, Verified
    <3>. QED
      BY <2>2, <3>5, <3>6
  <2>. QED
    BY <2>4, <2>5
<1>4. triaged \in Seq(Finding)
  <2>1. DOMAIN fresh = 1..Len(fresh) /\ Len(fresh) \in Nat
    BY <1>1
  <2>2. triaged = [i \in 1..Len(fresh) |-> triaged[i]]
    BY <1>2, <2>1
  <2>. QED
    BY <1>3, <2>1, <2>2
<1>. QED
  BY <1>2, <1>3, <1>4

\* What is carried over is sound, and what of it is verified was verified before.
LEMMA CarriedIs ==
    ASSUME TypeOK
    PROVE  /\ Carried \in Seq(Finding)
           /\ \A k \in DOMAIN Carried : Kept(Carried[k], gating, Proven)
<1>1. PICK list : list = Carried
  OBVIOUS
<1>2. list = [k \in DOMAIN again |-> Demoted(earlier[again[k]])] /\ DOMAIN list = DOMAIN again
  BY <1>1 DEF Carried
<1>3. again \in Seq(DOMAIN earlier) /\ earlier \in Seq(Earlier)
  BY DEF TypeOK
<1>4. ASSUME NEW k \in DOMAIN list PROVE list[k] \in Finding /\ Kept(list[k], gating, Proven)
  <2>1. again[k] \in DOMAIN earlier /\ earlier[again[k]] \in Earlier
    BY <1>2, <1>3
  <2>2. PICK e \in Earlier : e = earlier[again[k]]
    BY <2>1
  <2>3. PICK g : g = Demoted(e)
    OBVIOUS
  <2>4. g \in Finding /\ g.claim = e.claim /\ g.verdict = e.verdict /\ Graded(g, gating)
    BY <2>3, DemotedIs
  <2>5. e \in ToSet(earlier)
    BY <2>1, <2>2 DEF ToSet
  <2>6. Verified(g) => g.claim \in Proven
    BY <2>4, <2>5 DEF Verified, Proven
  <2>7. list[k] = g
    BY <1>2, <2>2, <2>3
  <2>. QED
    BY <2>4, <2>6, <2>7 DEF Kept
<1>5. list \in Seq(Finding)
  <2>1. DOMAIN again = 1..Len(again) /\ Len(again) \in Nat
    BY <1>3
  <2>2. list = [k \in 1..Len(again) |-> list[k]]
    BY <1>2, <2>1
  <2>. QED
    BY <1>2, <1>4, <2>1, <2>2
<1>. QED
  BY <1>1, <1>4, <1>5

\* The merged list: kept findings, none twice.
LEMMA MergedIs ==
    ASSUME TypeOK, NEW triaged \in Seq(Finding),
           \A i \in DOMAIN triaged :
              Honest(triaged[i], confirmed) /\ Graded(triaged[i], gating),
           NEW list, list = Deduplicate(Carried \o Adopt(triaged))
    PROVE  /\ list \in Seq(Finding)
           /\ \A i \in DOMAIN list : Kept(list[i], gating, Proven)
           /\ \A i, j \in DOMAIN list :
                 i < j => ~SameFingerprint(list[i], list[j]) /\ ~Related(list[i], list[j])
<1>1. earlier \in Seq(Earlier)
  BY DEF TypeOK
<1>2. PICK adopted : adopted = Adopt(triaged)
  OBVIOUS
<1>3. adopted \in Seq(Finding) /\ DOMAIN adopted = DOMAIN triaged
      /\ \A i \in DOMAIN triaged : Akin(adopted[i], triaged[i])
  BY <1>1, <1>2, Adopted DEF Alike
<1>4. ASSUME NEW i \in DOMAIN adopted PROVE Kept(adopted[i], gating, Proven)
  <2>1. Honest(triaged[i], confirmed) /\ Graded(triaged[i], gating)
    BY <1>3
  <2>2. Honest(adopted[i], confirmed) /\ Graded(adopted[i], gating)
    BY <1>3, <2>1, AkinSame
  <2>. QED
    BY <2>2 DEF Honest, Kept, Proven
<1>5. PICK carried : carried = Carried
  OBVIOUS
<1>6. carried \in Seq(Finding) /\ \A k \in DOMAIN carried : Kept(carried[k], gating, Proven)
  BY <1>5, CarriedIs
<1>7. PICK all : all = carried \o adopted
  OBVIOUS
<1>8. all \in Seq(Finding) /\ \A i \in DOMAIN all : Kept(all[i], gating, Proven)
  BY <1>3, <1>4, <1>6, <1>7, Joined
<1>9. list = Deduplicate(all)
  BY <1>2, <1>5, <1>7
<1>10. /\ list \in Seq(Finding)
       /\ \A i \in DOMAIN list : \E m \in DOMAIN all : Akin(list[i], all[m])
       /\ \A i, j \in DOMAIN list :
             i < j => ~SameFingerprint(list[i], list[j]) /\ ~Related(list[i], list[j])
  BY <1>8, <1>9, Deduplicated
<1>11. ASSUME NEW i \in DOMAIN list PROVE Kept(list[i], gating, Proven)
  <2>1. PICK m \in DOMAIN all : Akin(list[i], all[m])
    BY <1>10
  <2>2. Kept(all[m], gating, Proven)
    BY <1>8
  <2>3. Graded(list[i], gating) <=> Graded(all[m], gating)
    BY <2>1 DEF Akin, Graded, Sound, Live, Verified, Introduced, Blocks
  <2>4. (Verified(list[i]) <=> Verified(all[m])) /\ list[i].claim = all[m].claim
    BY <2>1 DEF Akin, Verified
  <2>. QED
    BY <2>2, <2>3, <2>4 DEF Kept
<1>. QED
  BY <1>10, <1>11

\* Finishing: what is merged, decided and selected is taken from kept findings.
LEMMA FinishStep ==
    ASSUME IInv, NEW judged \in [Candidates(fresh) -> Judgements], Finish(judged)
    PROVE  IInv'
<1>1. TypeOK /\ step = "triage"
  BY DEF IInv, Finish
<1>2. PICK triaged :
          triaged = [i \in DOMAIN fresh |->
                       IF i \in Candidates(fresh) THEN Triaged(fresh[i], judged[i])
                       ELSE fresh[i]]
  OBVIOUS
<1>3. PICK list : list = Deduplicate(Carried \o Adopt(triaged))
  OBVIOUS
<1>4. /\ findings' = list /\ decision' = Decide(list, "severity") /\ shown' = Select(list)
      /\ fresh' = triaged /\ step' = "done"
      /\ UNCHANGED <<input, todo, lost, scopes, failed, confirmed>>
  BY <1>2, <1>3 DEF Finish
<1>5. /\ triaged \in Seq(Finding) /\ DOMAIN triaged = DOMAIN fresh
      /\ \A i \in DOMAIN triaged :
            Honest(triaged[i], confirmed) /\ Graded(triaged[i], gating)
  BY <1>1, <1>2, TriagedFresh
<1>6. /\ list \in Seq(Finding)
      /\ \A i \in DOMAIN list : Kept(list[i], gating, Proven)
      /\ \A i, j \in DOMAIN list :
            i < j => ~SameFingerprint(list[i], list[j]) /\ ~Related(list[i], list[j])
  BY <1>1, <1>3, <1>5, MergedIs
<1>7. Select(list) \in Placed(Alive(list))
  <2>1. \A i \in Alive(list) : list[i].severity # "none"
    BY <1>6 DEF Alive, Kept, Graded, Sound
  <2>. QED
    BY <1>6, <2>1, Selected
<1>8. \A part \in {shown'.inline, shown'.summary, shown'.overflow} :
          ToSet(part) \subseteq DOMAIN findings'
  <2>1. /\ shown'.inline \in Seq(Alive(list)) /\ shown'.summary \in Seq(Alive(list))
        /\ shown'.overflow \in Seq(Alive(list))
    BY <1>4, <1>7 DEF Placed
  <2>2. \A part \in Seq(Alive(list)) : ToSet(part) \subseteq Alive(list)
    BY DEF ToSet
  <2>3. Alive(list) \subseteq DOMAIN list
    BY DEF Alive
  <2>. QED
    BY <1>4, <2>1, <2>2, <2>3
<1>9. decision' \in {"none", "COMMENT_ONLY", "REQUEST_CHANGES", "APPROVE"}
  BY <1>4 DEF Decide
<1>10. TypeOK'
  <2>1. todo' \subseteq DOMAIN fresh' /\ fresh' \in Seq(Finding) /\ findings' \in Seq(Finding)
    BY <1>1, <1>4, <1>5, <1>6 DEF TypeOK
  <2>. QED
    BY <1>1, <1>4, <1>8, <1>9, <2>1 DEF TypeOK, input
<1>11. gating' = gating /\ confirmed' = confirmed /\ Proven' = Proven
  BY <1>4 DEF input, Proven
<1>12. FreshInv'
  BY <1>4, <1>5, <1>11 DEF FreshInv
<1>13. NoneTwice'
  BY <1>4, <1>6 DEF NoneTwice
<1>14. ResultInv'
  <2>1. decision' = Decide(findings, "severity")'
    BY <1>4 DEF Decide
  <2>2. \A i \in DOMAIN findings' :
            /\ Graded(findings'[i], gating')
            /\ Verified(findings'[i]) => findings'[i].claim \in Proven'
    BY <1>4, <1>6, <1>11 DEF Kept
  <2>3. shown' \in Placed(Alive(findings'))
    BY <1>4, <1>7
  <2>. QED
    BY <1>4, <2>1, <2>2, <2>3 DEF ResultInv, Done
<1>. QED
  BY <1>10, <1>12, <1>13, <1>14 DEF IInv

\* So every step keeps the invariant.
LEMMA StepInv == IInv /\ [Next]_vars => IInv'
<1>. SUFFICES ASSUME IInv, [Next]_vars PROVE IInv'
  OBVIOUS
<1>1. CASE Prepare
  BY <1>1, PrepareStep
<1>2. ASSUME NEW i \in todo, NEW verdict \in {"confirmed", "rejected", "uncertain"},
             Judge(i, verdict)
      PROVE  IInv'
  BY <1>2, JudgeStep
<1>3. ASSUME NEW i \in todo, NEW spent \in BOOLEAN, Unavailable(i, spent) PROVE IInv'
  BY <1>3, UnavailableStep
<1>4. CASE Join
  BY <1>4, JoinStep
<1>5. CASE Settle
  BY <1>5, SettleStep
<1>6. ASSUME NEW judged \in [Candidates(fresh) -> Judgements], Finish(judged) PROVE IInv'
  BY <1>6, FinishStep
<1>7. CASE UNCHANGED vars
  <2>1. UNCHANGED <<proposals, diagnostics, attributed, earlier, again, gating, step, fresh,
                    todo, lost, scopes, failed, findings, decision, shown, confirmed>>
    BY <1>7 DEF vars, input, results
  <2>2. TypeOK'
    BY <2>1 DEF IInv, TypeOK
  <2>3. FreshInv'
    BY <2>1 DEF IInv, FreshInv
  <2>4. ResultInv'
    BY <2>1 DEF IInv, ResultInv, Done, Proven, Decide
  <2>5. NoneTwice'
    BY <2>1 DEF IInv, NoneTwice
  <2>. QED
    BY <2>2, <2>3, <2>4, <2>5 DEF IInv
<1>. QED
  BY <1>1, <1>2, <1>3, <1>4, <1>5, <1>6, <1>7 DEF Next
-----------------------------------------------------------------------------
(***************************************************************************)
(* The theorems                                                            *)
(***************************************************************************)

\* pipeline.py:433-650: the inductive invariant holds in every review.
THEOREM Invariance == Spec => []IInv
BY InitInv, StepInv, PTL DEF Spec

\* Positions, findings and parts are what they are declared to be.
THEOREM TypeCorrect == Spec => []TypeOK
<1>1. IInv => TypeOK
  BY DEF IInv
<1>. QED
  BY <1>1, Invariance, PTL

\* dedup.py:54-60, for lists of any length: however findings were merged and
\* identities lent, no two of a review share an identity or say the same of one place.
THEOREM NoFindingTwice == Spec => []NoneTwice
<1>1. IInv => NoneTwice
  BY DEF IInv
<1>. QED
  BY <1>1, Invariance, PTL

\* policy.py:34-52: what is shown, inline or in the summary, was not refuted, requires
\* changes only on a confirmed finding of this change, and claims absences only when
\* established.
THEOREM ShowsOnlySound == Spec => []ShownIsSound
<1>1. IInv => ShownIsSound
  <2>. SUFFICES ASSUME IInv, NEW i \in Shown
                PROVE  LET f == findings[i]
                       IN  /\ f.verdict # "rejected"
                           /\ f.severity = "REQUIRED" => Verified(f) /\ Introduced(f)
                           /\ f.claim.scope # "local" => Verified(f)
    BY DEF ShownIsSound
  <2>1. CASE ~Done
    <3>1. shown.inline = <<>> /\ shown.summary = <<>>
      BY <2>1 DEF IInv, ResultInv, NothingShown
    <3>. QED
      BY <3>1 DEF Shown, ToSet
  <2>2. CASE Done
    <3>1. shown.inline \in Seq(Alive(findings)) /\ shown.summary \in Seq(Alive(findings))
      BY <2>2 DEF IInv, ResultInv, Placed
    <3>2. \A part \in Seq(Alive(findings)) : ToSet(part) \subseteq Alive(findings)
      BY DEF ToSet
    <3>3. i \in Alive(findings)
      BY <3>1, <3>2 DEF Shown
    <3>4. Live(findings[i]) /\ Sound(findings[i])
      BY <2>2, <3>3 DEF IInv, ResultInv, Alive, Graded
    <3>. QED
      BY <3>4 DEF Sound
  <2>. QED
    BY <2>1, <2>2
<1>. QED
  BY <1>1, Invariance, PTL

\* A review that lost a verdict to its budget or deadline never blocks; one that blocks
\* though no required check failed rests on a grave claim about added lines that was
\* confirmed, now or in the review before.
THEOREM BlocksOnlyOnProof == Spec => []BlocksOnProof
<1>1. IInv => BlocksOnProof
  <2>. SUFFICES ASSUME IInv, decision = "REQUEST_CHANGES"
                PROVE  /\ ~lost /\ ~scopes
                       /\ ~failed => \E c \in Proven :
                                        Base(c.category) \in Grave /\ c.where = "added"
    BY DEF BlocksOnProof, Proven
  <2>1. Done /\ decision = Decide(findings, "severity")
    BY DEF IInv, ResultInv
  <2>a. ~lost /\ ~scopes
    BY <2>1 DEF Decide
  <2>. SUFFICES ASSUME ~failed
                PROVE  \E c \in Proven : Base(c.category) \in Grave /\ c.where = "added"
    BY <2>a
  <2>2. \E i \in DOMAIN findings : Blocks(findings[i], findings[i].severity)
    BY <2>1 DEF Decide
  <2>3. PICK i \in DOMAIN findings : Blocks(findings[i], findings[i].severity)
    BY <2>2
  <2>4. Graded(findings[i], gating) /\ (Verified(findings[i]) => findings[i].claim \in Proven)
    BY <2>1 DEF IInv, ResultInv
  <2>5. findings[i].severity = "REQUIRED" /\ Live(findings[i]) /\ Verified(findings[i])
    BY <2>3, <2>4 DEF Blocks, Graded
  <2>6. Introduced(findings[i]) /\ Base(findings[i].claim.category) \in Grave
    BY <2>4, <2>5 DEF Graded, Sound
  <2>. QED
    BY <2>2, <2>4, <2>5, <2>6 DEF Introduced
<1>. QED
  BY <1>1, Invariance, PTL

\* severity_triage.py:49-61: in gating mode the decision is the one the severities
\* before triage give, whatever the triage model said.
THEOREM TriageCannotUngate == Spec => []TriageKeepsGate
<1>1. IInv => TriageKeepsGate
  <2>. SUFFICES ASSUME IInv, Done, gating PROVE decision = Decide(findings, "before")
    BY DEF TriageKeepsGate
  <2>1. decision = Decide(findings, "severity")
    BY DEF IInv, ResultInv
  <2>2. \A i \in DOMAIN findings :
            Blocks(findings[i], findings[i].severity) <=> Blocks(findings[i], findings[i].before)
    BY DEF IInv, ResultInv, Graded
  <2>. QED
    BY <2>1, <2>2 DEF Decide
<1>. QED
  BY <1>1, Invariance, PTL

\* What a review leaves is what EarlierAssumption asks of the findings the next one
\* starts from: the assumption is this theorem, one review earlier.
THEOREM LeavesSound ==
    Spec => [](\A i \in DOMAIN findings : findings[i] \in Finding /\ Sound(findings[i]))
<1>1. IInv => \A i \in DOMAIN findings : findings[i] \in Finding /\ Sound(findings[i])
  <2>. SUFFICES ASSUME IInv, NEW i \in DOMAIN findings
                PROVE  findings[i] \in Finding /\ Sound(findings[i])
    OBVIOUS
  <2>1. findings \in Seq(Finding)
    BY DEF IInv, TypeOK
  <2>2. Done
    BY DEF IInv, ResultInv
  <2>. QED
    BY <2>1, <2>2 DEF IInv, ResultInv, Graded
<1>. QED
  BY <1>1, Invariance, PTL
================================================================================
