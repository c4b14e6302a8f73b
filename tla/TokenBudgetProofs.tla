---------------------------- MODULE TokenBudgetProofs ----------------------------
(***************************************************************************)
(* Theorems about TokenBudget for any reviews, calls, ceilings and faults. *)
(***************************************************************************)
EXTENDS TokenBudget, FiniteSetTheorems, WellFoundedInduction, TLAPS

Charges == [c \in Calls |-> call[c].charge]

\* Only a call in flight holds a reservation, and only one on its way to the
\* audit has a charge, and the outcome of an attempt.
CallInv ==
    \A c \in Calls :
        /\ granted[c] # 0 => At(c, {"post", "backoff"})
        /\ call[c].charge # 0 => At(c, {"audit"})
        /\ At(c, {"audit"}) =>
              call[c].outcome \in {"value", "invalid", "transport", "cancelled"}

\* What is counted as reserved is what the calls hold: none leaks and none is
\* returned twice.
ReservedInv == \A b \in Budgets : reserved[b] = SumFunctionOnSet(granted, CallsOf(b))

\* What the audit table knows, or is about to, was charged to the review.
AuditInv ==
    \A b \in Budgets :
        AuditedTokens(b) + SumFunctionOnSet(Charges, CallsOf(b)) <= used[b]

\* The protected allowance, over all other calls of a review: those that hold
\* nothing add nothing.
OtherInv ==
    \A b \in Budgets :
        audited[b]["other"] + SumFunctionOnSet(Charges, OtherCalls(b))
          + SumFunctionOnSet(granted, OtherCalls(b))
            <= Ceiling[b] - FinalReserve + excess[b]["other"]

IInv == TypeOK /\ CallInv /\ ReservedInv /\ AuditInv /\ CeilingKept /\ OtherInv
-----------------------------------------------------------------------------
(***************************************************************************)
(* Sums over finite sets                                                   *)
(***************************************************************************)

\* A set of numbers with zero and the successor of each of its own is all.
LEMMA Counting ==
    ASSUME NEW Good \in SUBSET Nat, 0 \in Good, \A n \in Good : n + 1 \in Good
    PROVE  Good = Nat
<1>. DEFINE below == {ss \in Nat \X Nat : ss[1] < ss[2]}
            Bad == Nat \ Good
<1>. SUFFICES ASSUME Bad # {} PROVE FALSE
  OBVIOUS
<1>1. IsWellFoundedOn(below, Nat)
  BY NatLessThanWellFounded, Zenon DEF OpToRel
<1>2. \E x \in Bad : \A y \in Bad : <<y, x>> \notin below
  <2>1. Bad \subseteq Nat
    OBVIOUS
  <2>. HIDE DEF below, Bad
  <2>. QED
    BY <1>1, <2>1, WFMin
<1>3. PICK x \in Bad : \A y \in Bad : <<y, x>> \notin below
  BY <1>2
<1>4. x \in Nat /\ x # 0 /\ x - 1 \in Nat /\ (x - 1) + 1 = x
  OBVIOUS
<1>5. <<x - 1, x>> \in below
  BY <1>4
<1>6. x - 1 \in Good
  BY <1>3, <1>4, <1>5
<1>. QED
  BY <1>4, <1>6

\* The function by which a sum is computed, element by element, over the
\* subsets of a set.
Summing(g, f, S) ==
    g = [s \in SUBSET S |->
            IF s = {} THEN 0
            ELSE LET x == CHOOSE x \in s : TRUE IN f[x] + g[s \ {x}]]

\* One element fewer.
LEMMA OneLess ==
    ASSUME NEW S, IsFiniteSet(S), NEW x \in S
    PROVE  /\ IsFiniteSet(S \ {x}) /\ Cardinality(S) \in Nat /\ Cardinality(S \ {x}) \in Nat
           /\ Cardinality(S) = Cardinality(S \ {x}) + 1
<1>1. IsFiniteSet(S \ {x}) /\ Cardinality(S \ {x}) = Cardinality(S) - 1
  BY FS_RemoveElement
<1>. QED
  BY <1>1, FS_CardinalityType

\* It exists, built from the smaller subsets to the larger.
LEMMA SummingExists ==
    ASSUME NEW f, NEW S, IsFiniteSet(S)
    PROVE  \E g : Summing(g, f, S)
<1>. DEFINE Small(n) == {s \in SUBSET S : Cardinality(s) <= n}
            Step(g, s) == IF s = {} THEN 0
                          ELSE LET x == CHOOSE x \in s : TRUE IN f[x] + g[s \ {x}]
            Good == {n \in Nat : \E g : g = [s \in Small(n) |-> Step(g, s)]}
<1>1. \A s \in SUBSET S : IsFiniteSet(s) /\ Cardinality(s) \in Nat /\ Cardinality(s) <= Cardinality(S)
  BY FS_Subset, FS_CardinalityType
<1>2. 0 \in Good
  <2>1. \A s \in Small(0) : s = {}
    BY <1>1, FS_EmptySet
  <2>2. PICK g : g = [s \in Small(0) |-> 0]
    OBVIOUS
  <2>3. g = [s \in Small(0) |-> Step(g, s)]
    BY <2>1, <2>2
  <2>. QED
    BY <2>3
<1>3. ASSUME NEW n \in Good PROVE n + 1 \in Good
  <2>1. PICK g : g = [s \in Small(n) |-> Step(g, s)]
    OBVIOUS
  <2>2. PICK h : h = [s \in Small(n + 1) |-> Step(g, s)]
    OBVIOUS
  <2>3. n \in Nat /\ \A s \in Small(n) : s \in Small(n + 1)
    BY <1>1
  <2>4. \A s \in Small(n) : h[s] = g[s]
    <3>. HIDE DEF Small, Step
    <3>. QED
      BY <2>1, <2>2, <2>3
  <2>5. ASSUME NEW s \in Small(n + 1), s # {}, NEW x \in s
        PROVE  s \ {x} \in Small(n)
    <3>1. IsFiniteSet(s) /\ Cardinality(s) <= n + 1
      BY <1>1
    <3>2. Cardinality(s) = Cardinality(s \ {x}) + 1 /\ Cardinality(s \ {x}) \in Nat
      BY <3>1, OneLess
    <3>. QED
      BY <2>3, <3>1, <3>2
  <2>6. \A s \in Small(n + 1) : Step(h, s) = Step(g, s)
    <3>. SUFFICES ASSUME NEW s \in Small(n + 1), s # {}
                  PROVE  Step(h, s) = Step(g, s)
      OBVIOUS
    <3>1. PICK x \in s : x = CHOOSE y \in s : TRUE
      OBVIOUS
    <3>2. h[s \ {x}] = g[s \ {x}]
      BY <2>4, <2>5
    <3>. QED
      BY <3>1, <3>2
  <2>7. h = [s \in Small(n + 1) |-> Step(h, s)]
    <3>. HIDE DEF Small, Step
    <3>. QED
      BY <2>2, <2>6
  <2>8. n + 1 \in Nat
    BY <2>3
  <2>. QED
    <3>. HIDE DEF Small, Step
    <3>. QED
      BY <2>7, <2>8
<1>4. Good = Nat
  <2>. HIDE DEF Good
  <2>1. Good \subseteq Nat
    BY DEF Good
  <2>. QED
    BY <1>2, <1>3, <2>1, Counting
<1>5. Small(Cardinality(S)) = SUBSET S /\ Cardinality(S) \in Nat
  BY <1>1
<1>6. \E g : g = [s \in SUBSET S |-> Step(g, s)]
  <2>1. \E g : g = [s \in Small(Cardinality(S)) |-> Step(g, s)]
    BY <1>4, <1>5
  <2>. HIDE DEF Small
  <2>. QED
    BY <1>5, <2>1
<1>. QED
  BY <1>6 DEF Summing

\* What holds of a subset if it holds of those with one element fewer holds of
\* every subset of a finite set.
LEMMA Growing ==
    ASSUME NEW S, IsFiniteSet(S), NEW Good \in SUBSET (SUBSET S),
           \A s \in SUBSET S : (\A x \in s : s \ {x} \in Good) => s \in Good
    PROVE  \A s \in SUBSET S : s \in Good
<1>. DEFINE Sizes == {n \in Nat : \A s \in SUBSET S : Cardinality(s) = n => s \in Good}
<1>1. \A s \in SUBSET S : IsFiniteSet(s) /\ Cardinality(s) \in Nat
  BY FS_Subset, FS_CardinalityType
<1>2. 0 \in Sizes
  <2>1. \A s \in SUBSET S : Cardinality(s) = 0 => s = {}
    BY <1>1, FS_EmptySet
  <2>. QED
    BY <2>1
<1>3. ASSUME NEW n \in Sizes PROVE n + 1 \in Sizes
  <2>. SUFFICES ASSUME NEW s \in SUBSET S, Cardinality(s) = n + 1, NEW x \in s
                PROVE  s \ {x} \in Good
    OBVIOUS
  <2>1. IsFiniteSet(s) /\ n \in Nat
    BY <1>1
  <2>2. Cardinality(s) = Cardinality(s \ {x}) + 1 /\ Cardinality(s \ {x}) \in Nat
    BY <2>1, OneLess
  <2>3. Cardinality(s \ {x}) = n /\ s \ {x} \in SUBSET S
    BY <2>1, <2>2
  <2>. QED
    BY <2>3
<1>4. Sizes = Nat
  <2>. HIDE DEF Sizes
  <2>1. Sizes \subseteq Nat
    BY DEF Sizes
  <2>. QED
    BY <1>2, <1>3, <2>1, Counting
<1>. QED
  BY <1>1, <1>4

\* Whatever set it was built for, it gives a subset the same sum.
LEMMA SummingAgrees ==
    ASSUME NEW f, NEW S, NEW T, IsFiniteSet(T), T \subseteq S,
           NEW g, NEW h, Summing(g, f, S), Summing(h, f, T)
    PROVE  g[T] = h[T]
<1>. DEFINE Good == {s \in SUBSET T : g[s] = h[s]}
<1>1. ASSUME NEW s \in SUBSET T, \A x \in s : s \ {x} \in Good
      PROVE  s \in Good
  <2>1. s \in SUBSET S
    OBVIOUS
  <2>2. CASE s = {}
    BY <2>1, <2>2 DEF Summing
  <2>3. CASE s # {}
    <3>1. PICK x \in s : x = CHOOSE y \in s : TRUE
      BY <2>3
    <3>2. g[s] = f[x] + g[s \ {x}] /\ h[s] = f[x] + h[s \ {x}]
      BY <2>1, <2>3, <3>1 DEF Summing
    <3>. QED
      BY <1>1, <3>1, <3>2
  <2>. QED
    BY <2>2, <2>3
<1>2. \A s \in SUBSET T : s \in Good
  <2>1. Good \in SUBSET (SUBSET T)
    OBVIOUS
  <2>. HIDE DEF Good
  <2>. QED
    BY <1>1, <2>1, Growing
<1>. QED
  BY <1>2

\* A sum is the chosen element's value and the sum of the rest.
Chosen(s) == CHOOSE x \in s : TRUE

\* A sum is the chosen element's value and the sum of the rest.
LEMMA SumChosen ==
    ASSUME NEW f, NEW S, IsFiniteSet(S)
    PROVE  /\ S = {} => SumFunctionOnSet(f, S) = 0
           /\ S # {} => /\ Chosen(S) \in S
                        /\ SumFunctionOnSet(f, S)
                              = f[Chosen(S)] + SumFunctionOnSet(f, S \ {Chosen(S)})
<1>1. \A T : SumFunctionOnSet(f, T) = (CHOOSE g : Summing(g, f, T))[T]
  BY Zenon DEF SumFunctionOnSet, FoldFunctionOnSet, MapThenFoldSet, Summing
<1>2. PICK g : Summing(g, f, S) /\ g = CHOOSE k : Summing(k, f, S)
  BY SummingExists
<1>3. SumFunctionOnSet(f, S) = g[S]
  BY <1>1, <1>2
<1>4. CASE S = {}
  BY <1>2, <1>3, <1>4 DEF Summing
<1>5. CASE S # {}
  <2>1. PICK x \in S : x = CHOOSE y \in S : TRUE
    BY <1>5
  <2>2. IsFiniteSet(S \ {x})
    BY OneLess
  <2>3. PICK h : Summing(h, f, S \ {x}) /\ h = CHOOSE k : Summing(k, f, S \ {x})
    BY <2>2, SummingExists
  <2>4. SumFunctionOnSet(f, S \ {x}) = h[S \ {x}]
    BY <1>1, <2>3
  <2>5. g[S \ {x}] = h[S \ {x}]
    BY <1>2, <2>2, <2>3, SummingAgrees
  <2>6. g[S] = f[x] + g[S \ {x}]
    BY <1>2, <1>5, <2>1 DEF Summing
  <2>. QED
    BY <1>3, <1>5, <2>1, <2>4, <2>5, <2>6 DEF Chosen
<1>. QED
  BY <1>4, <1>5

\* A sum of natural numbers is one.
LEMMA SumType ==
    ASSUME NEW f, NEW S, IsFiniteSet(S), \A x \in S : f[x] \in Nat
    PROVE  SumFunctionOnSet(f, S) \in Nat
<1>. DEFINE Good == {s \in SUBSET S : SumFunctionOnSet(f, s) \in Nat}
<1>1. ASSUME NEW s \in SUBSET S, \A x \in s : s \ {x} \in Good
      PROVE  s \in Good
  <2>1. IsFiniteSet(s)
    BY FS_Subset
  <2>2. CASE s = {}
    <3>1. SumFunctionOnSet(f, s) = 0
      BY <2>1, <2>2, SumChosen
    <3>. QED
      BY <3>1
  <2>3. CASE s # {}
    <3>1. PICK x : x = Chosen(s)
      OBVIOUS
    <3>2. x \in s /\ SumFunctionOnSet(f, s) = f[x] + SumFunctionOnSet(f, s \ {x})
      BY <2>1, <2>3, <3>1, SumChosen
    <3>3. SumFunctionOnSet(f, s \ {x}) \in Nat /\ f[x] \in Nat
      BY <1>1, <3>2
    <3>. QED
      BY <3>2, <3>3
  <2>. QED
    BY <2>2, <2>3
<1>2. \A s \in SUBSET S : s \in Good
  <2>1. Good \in SUBSET (SUBSET S)
    OBVIOUS
  <2>. HIDE DEF Good
  <2>. QED
    BY <1>1, <2>1, Growing
<1>. QED
  BY <1>2

\* Any element may be taken out of a sum.
LEMMA SumWithout ==
    ASSUME NEW f, NEW S, IsFiniteSet(S), \A x \in S : f[x] \in Nat, NEW y \in S
    PROVE  SumFunctionOnSet(f, S) = f[y] + SumFunctionOnSet(f, S \ {y})
<1>. DEFINE Sum(s) == SumFunctionOnSet(f, s)
            Good == {s \in SUBSET S : \A z \in s : Sum(s) = f[z] + Sum(s \ {z})}
<1>1. ASSUME NEW s \in SUBSET S, \A x \in s : s \ {x} \in Good
      PROVE  s \in Good
  <2>. SUFFICES ASSUME NEW z \in s
                PROVE  Sum(s) = f[z] + Sum(s \ {z})
    OBVIOUS
  <2>1. IsFiniteSet(s)
    BY FS_Subset
  <2>2. PICK x : x = Chosen(s)
    OBVIOUS
  <2>3. x \in s /\ Sum(s) = f[x] + Sum(s \ {x})
    BY <2>1, <2>2, SumChosen
  <2>4. CASE x = z
    BY <2>3, <2>4
  <2>5. CASE x # z
    <3>1. PICK rest : rest = (s \ {x}) \ {z}
      OBVIOUS
    <3>2. rest = (s \ {z}) \ {x} /\ rest \in SUBSET S /\ z \in s \ {x} /\ x \in s \ {z}
      BY <2>3, <2>5, <3>1
    <3>3. Sum(s \ {x}) = f[z] + Sum(rest)
      BY <1>1, <2>3, <3>1, <3>2
    <3>4. Sum(s \ {z}) = f[x] + Sum(rest)
      BY <1>1, <3>2
    <3>5. f[x] \in Nat /\ f[z] \in Nat /\ IsFiniteSet(rest)
      BY <2>3, <3>2, FS_Subset
    <3>6. Sum(rest) \in Nat
      BY <3>2, <3>5, SumType
    <3>. HIDE DEF Sum
    <3>. QED
      BY <2>3, <3>3, <3>4, <3>5, <3>6
  <2>. QED
    BY <2>4, <2>5
<1>2. \A s \in SUBSET S : s \in Good
  <2>1. Good \in SUBSET (SUBSET S)
    OBVIOUS
  <2>. HIDE DEF Good
  <2>. QED
    BY <1>1, <2>1, Growing
<1>. QED
  BY <1>2

\* Equal values have equal sums.
LEMMA SumSame ==
    ASSUME NEW f, NEW g, NEW S, IsFiniteSet(S), \A x \in S : f[x] = g[x]
    PROVE  SumFunctionOnSet(f, S) = SumFunctionOnSet(g, S)
<1>. DEFINE Good == {s \in SUBSET S : SumFunctionOnSet(f, s) = SumFunctionOnSet(g, s)}
<1>1. ASSUME NEW s \in SUBSET S, \A x \in s : s \ {x} \in Good
      PROVE  s \in Good
  <2>1. IsFiniteSet(s)
    BY FS_Subset
  <2>2. CASE s = {}
    BY <2>1, <2>2, SumChosen
  <2>3. CASE s # {}
    <3>1. PICK x : x = Chosen(s)
      OBVIOUS
    <3>2. x \in s /\ SumFunctionOnSet(f, s) = f[x] + SumFunctionOnSet(f, s \ {x})
      BY <2>1, <2>3, <3>1, SumChosen
    <3>3. SumFunctionOnSet(g, s) = g[x] + SumFunctionOnSet(g, s \ {x})
      BY <2>1, <2>3, <3>1, SumChosen
    <3>. QED
      BY <1>1, <3>2, <3>3
  <2>. QED
    BY <2>2, <2>3
<1>2. \A s \in SUBSET S : s \in Good
  <2>1. Good \in SUBSET (SUBSET S)
    OBVIOUS
  <2>. HIDE DEF Good
  <2>. QED
    BY <1>1, <2>1, Growing
<1>. QED
  BY <1>2

\* A part of a sum is no more than the whole, and the whole if what is left out
\* is zero.
LEMMA SumPart ==
    ASSUME NEW f, NEW S, IsFiniteSet(S), \A x \in S : f[x] \in Nat, NEW T \in SUBSET S
    PROVE  /\ SumFunctionOnSet(f, T) <= SumFunctionOnSet(f, S)
           /\ (\A x \in S \ T : f[x] = 0) => SumFunctionOnSet(f, T) = SumFunctionOnSet(f, S)
<1>. DEFINE Sum(s) == SumFunctionOnSet(f, s)
            Zero == \A x \in S \ T : f[x] = 0
            Good == {s \in SUBSET S : /\ Sum(s \cap T) <= Sum(s)
                                      /\ Zero => Sum(s \cap T) = Sum(s)}
<1>1. \A s \in SUBSET S : IsFiniteSet(s) /\ Sum(s) \in Nat
  <2>1. \A s \in SUBSET S : IsFiniteSet(s)
    BY FS_Subset
  <2>. QED
    BY <2>1, SumType
<1>2. ASSUME NEW s \in SUBSET S, \A x \in s : s \ {x} \in Good
      PROVE  s \in Good
  <2>1. CASE s = {}
    <3>1. s \cap T = s /\ Sum(s) \in Nat
      BY <1>1, <2>1
    <3>. QED
      BY <3>1
  <2>2. CASE s # {}
    <3>1. PICK x \in s : TRUE
      BY <2>2
    <3>2. PICK t : t = s \cap T
      OBVIOUS
    <3>3. Sum(s) = f[x] + Sum(s \ {x}) /\ f[x] \in Nat
      BY <1>1, SumWithout
    <3>4. Sum(s \ {x}) \in Nat /\ Sum(t) \in Nat /\ Sum(t \ {x}) \in Nat
      BY <1>1, <3>2
    <3>5. CASE x \in T
      <4>1. t \ {x} = (s \ {x}) \cap T /\ x \in t /\ t \in SUBSET S
        BY <3>2, <3>5
      <4>2. Sum(t) = f[x] + Sum(t \ {x})
        BY <1>1, <4>1, SumWithout
      <4>3. Sum(t \ {x}) <= Sum(s \ {x}) /\ (Zero => Sum(t \ {x}) = Sum(s \ {x}))
        BY <1>2, <4>1
      <4>. HIDE DEF Sum, Zero
      <4>. QED
        BY <3>2, <3>3, <3>4, <4>2, <4>3
    <3>6. CASE x \notin T
      <4>1. t = (s \ {x}) \cap T /\ (Zero => f[x] = 0)
        BY <3>2, <3>6
      <4>2. Sum(t) <= Sum(s \ {x}) /\ (Zero => Sum(t) = Sum(s \ {x}))
        BY <1>2, <4>1
      <4>. HIDE DEF Sum, Zero
      <4>. QED
        BY <3>2, <3>3, <3>4, <4>1, <4>2
    <3>. QED
      BY <3>5, <3>6
  <2>. QED
    BY <2>1, <2>2
<1>3. \A s \in SUBSET S : s \in Good
  <2>1. Good \in SUBSET (SUBSET S)
    OBVIOUS
  <2>. HIDE DEF Good
  <2>. QED
    BY <1>2, <2>1, Growing
<1>4. S \cap T = T /\ S \in Good
  BY <1>3
<1>. QED
  BY <1>4

\* One value changed.
LEMMA SumChanged ==
    ASSUME NEW f, NEW g, NEW S, IsFiniteSet(S), \A x \in S : f[x] \in Nat /\ g[x] \in Nat,
           NEW y, \A x \in S : x # y => g[x] = f[x]
    PROVE  /\ y \in S => SumFunctionOnSet(g, S) = SumFunctionOnSet(f, S) - f[y] + g[y]
           /\ y \notin S => SumFunctionOnSet(g, S) = SumFunctionOnSet(f, S)
           /\ y \in S => f[y] <= SumFunctionOnSet(f, S)
<1>1. CASE y \notin S
  BY <1>1, SumSame
<1>2. CASE y \in S
  <2>1. IsFiniteSet(S \ {y})
    BY <1>2, OneLess
  <2>2. SumFunctionOnSet(f, S \ {y}) = SumFunctionOnSet(g, S \ {y})
    BY <2>1, SumSame
  <2>3. SumFunctionOnSet(f, S) = f[y] + SumFunctionOnSet(f, S \ {y})
    BY <1>2, SumWithout
  <2>4. SumFunctionOnSet(g, S) = g[y] + SumFunctionOnSet(g, S \ {y})
    BY <1>2, SumWithout
  <2>5. SumFunctionOnSet(f, S \ {y}) \in Nat /\ f[y] \in Nat /\ g[y] \in Nat
    BY <1>2, <2>1, SumType
  <2>. QED
    BY <1>2, <2>2, <2>3, <2>4, <2>5
<1>. QED
  BY <1>1, <1>2
-----------------------------------------------------------------------------
(***************************************************************************)
(* The budget                                                              *)
(***************************************************************************)

\* The calls of a review, and those that are not of verification.
LEMMA Reviewed ==
    /\ \A b \in Budgets : /\ CallsOf(b) \in SUBSET Calls /\ IsFiniteSet(CallsOf(b))
                          /\ OtherCalls(b) \in SUBSET CallsOf(b) /\ IsFiniteSet(OtherCalls(b))
    /\ \A c \in Calls : /\ BudgetOf[c] \in Budgets /\ c \in CallsOf(BudgetOf[c])
                        /\ Kind(c) \in Kinds
                        /\ \A b \in Budgets : c \in CallsOf(b) => b = BudgetOf[c]
                        /\ \A b \in Budgets :
                              c \in OtherCalls(b) <=> b = BudgetOf[c] /\ Kind(c) = "other"
<1>1. \A b \in Budgets : CallsOf(b) \in SUBSET Calls /\ OtherCalls(b) \in SUBSET CallsOf(b)
  BY DEF CallsOf, OtherCalls
<1>2. \A b \in Budgets : IsFiniteSet(CallsOf(b)) /\ IsFiniteSet(OtherCalls(b))
  BY <1>1, CallsAssumption, FS_Subset
<1>. QED
  BY <1>1, <1>2, CallsAssumption DEF CallsOf, OtherCalls, Kind, Kinds

\* What the sums of a state are made of.
LEMMA Amounts ==
    ASSUME TypeOK
    PROVE  /\ \A c \in Calls : granted[c] \in Nat /\ Charges[c] \in Nat
           /\ \A c \in Calls : Charges[c] = call[c].charge
           /\ \A b \in Budgets :
                 /\ SumFunctionOnSet(granted, CallsOf(b)) \in Nat
                 /\ SumFunctionOnSet(Charges, CallsOf(b)) \in Nat
                 /\ SumFunctionOnSet(granted, OtherCalls(b)) \in Nat
                 /\ SumFunctionOnSet(Charges, OtherCalls(b)) \in Nat
                 /\ SumFunctionOnSet(granted, OtherCalls(b)) <= SumFunctionOnSet(granted, CallsOf(b))
                 /\ SumFunctionOnSet(Charges, OtherCalls(b)) <= SumFunctionOnSet(Charges, CallsOf(b))
<1>1. \A c \in Calls : granted[c] \in Nat /\ Charges[c] \in Nat /\ Charges[c] = call[c].charge
  BY DEF TypeOK, CallType, Charges
<1>2. ASSUME NEW b \in Budgets
      PROVE  /\ SumFunctionOnSet(granted, CallsOf(b)) \in Nat
             /\ SumFunctionOnSet(Charges, CallsOf(b)) \in Nat
             /\ SumFunctionOnSet(granted, OtherCalls(b)) \in Nat
             /\ SumFunctionOnSet(Charges, OtherCalls(b)) \in Nat
             /\ SumFunctionOnSet(granted, OtherCalls(b)) <= SumFunctionOnSet(granted, CallsOf(b))
             /\ SumFunctionOnSet(Charges, OtherCalls(b)) <= SumFunctionOnSet(Charges, CallsOf(b))
  <2>1. /\ CallsOf(b) \in SUBSET Calls /\ IsFiniteSet(CallsOf(b))
        /\ OtherCalls(b) \in SUBSET CallsOf(b) /\ IsFiniteSet(OtherCalls(b))
    BY Reviewed
  <2>2. /\ \A c \in CallsOf(b) : granted[c] \in Nat /\ Charges[c] \in Nat
        /\ \A c \in OtherCalls(b) : granted[c] \in Nat /\ Charges[c] \in Nat
    BY <1>1, <2>1
  <2>3. SumFunctionOnSet(granted, CallsOf(b)) \in Nat /\ SumFunctionOnSet(granted, OtherCalls(b)) \in Nat
    BY <2>1, <2>2, SumType
  <2>4. SumFunctionOnSet(Charges, CallsOf(b)) \in Nat /\ SumFunctionOnSet(Charges, OtherCalls(b)) \in Nat
    BY <2>1, <2>2, SumType
  <2>5. SumFunctionOnSet(granted, OtherCalls(b)) <= SumFunctionOnSet(granted, CallsOf(b))
    BY <2>1, <2>2, SumPart
  <2>6. SumFunctionOnSet(Charges, OtherCalls(b)) <= SumFunctionOnSet(Charges, CallsOf(b))
    BY <2>1, <2>2, SumPart
  <2>. QED
    BY <2>3, <2>4, <2>5, <2>6
<1>. QED
  BY <1>1, <1>2

\* One call's amount changes: the sums over its review's calls change by as much.
LEMMA AmountChanged ==
    ASSUME NEW f, NEW g, \A x \in Calls : f[x] \in Nat /\ g[x] \in Nat,
           NEW c \in Calls, \A x \in Calls : x # c => g[x] = f[x], NEW b \in Budgets
    PROVE  /\ SumFunctionOnSet(g, CallsOf(b)) = SumFunctionOnSet(f, CallsOf(b))
                                  + (IF b = BudgetOf[c] THEN g[c] - f[c] ELSE 0)
           /\ SumFunctionOnSet(g, OtherCalls(b)) = SumFunctionOnSet(f, OtherCalls(b))
                + (IF b = BudgetOf[c] /\ Kind(c) = "other" THEN g[c] - f[c] ELSE 0)
<1>1. /\ CallsOf(b) \in SUBSET Calls /\ IsFiniteSet(CallsOf(b))
      /\ OtherCalls(b) \in SUBSET Calls /\ IsFiniteSet(OtherCalls(b))
      /\ c \in CallsOf(b) <=> b = BudgetOf[c]
      /\ c \in OtherCalls(b) <=> b = BudgetOf[c] /\ Kind(c) = "other"
  BY Reviewed
<1>2. ASSUME NEW S \in SUBSET Calls, IsFiniteSet(S)
      PROVE  SumFunctionOnSet(g, S) = SumFunctionOnSet(f, S) + (IF c \in S THEN g[c] - f[c] ELSE 0)
  <2>1. /\ c \in S => SumFunctionOnSet(g, S) = SumFunctionOnSet(f, S) - f[c] + g[c]
        /\ c \notin S => SumFunctionOnSet(g, S) = SumFunctionOnSet(f, S)
    BY <1>2, SumChanged
  <2>2. SumFunctionOnSet(f, S) \in Nat /\ f[c] \in Nat /\ g[c] \in Nat
    BY <1>2, SumType
  <2>. QED
    BY <2>1, <2>2
<1>. QED
  BY <1>1, <1>2
\* The same of what is charged, and of what is held.
LEMMA ChargeChanged ==
    ASSUME TypeOK, TypeOK', NEW c \in Calls,
           \A x \in Calls : x # c => call'[x].charge = call[x].charge
    PROVE  \A b \in Budgets :
             /\ SumFunctionOnSet(Charges', CallsOf(b)) = SumFunctionOnSet(Charges, CallsOf(b))
                  + (IF b = BudgetOf[c] THEN call'[c].charge - call[c].charge ELSE 0)
             /\ SumFunctionOnSet(Charges', OtherCalls(b)) = SumFunctionOnSet(Charges, OtherCalls(b))
                  + (IF b = BudgetOf[c] /\ Kind(c) = "other"
                     THEN call'[c].charge - call[c].charge ELSE 0)
<1>1. PICK f : f = Charges
  OBVIOUS
<1>2. PICK g : g = Charges'
  OBVIOUS
<1>3. \A x \in Calls : f[x] = call[x].charge /\ g[x] = call'[x].charge
  BY <1>1, <1>2 DEF Charges
<1>4. \A x \in Calls : f[x] \in Nat /\ g[x] \in Nat
  BY <1>3 DEF TypeOK, CallType
<1>5. \A x \in Calls : x # c => g[x] = f[x]
  BY <1>3
<1>6. \A b \in Budgets :
        /\ SumFunctionOnSet(g, CallsOf(b)) = SumFunctionOnSet(f, CallsOf(b))
             + (IF b = BudgetOf[c] THEN g[c] - f[c] ELSE 0)
        /\ SumFunctionOnSet(g, OtherCalls(b)) = SumFunctionOnSet(f, OtherCalls(b))
             + (IF b = BudgetOf[c] /\ Kind(c) = "other" THEN g[c] - f[c] ELSE 0)
  <2>. TAKE b \in Budgets
  <2>. QED
    BY <1>4, <1>5, AmountChanged
<1>. QED
  BY <1>1, <1>2, <1>3, <1>6

\* One grant changes the sum of its own budget alone.
LEMMA GrantChanged ==
    ASSUME TypeOK, TypeOK', NEW c \in Calls, \A x \in Calls : x # c => granted'[x] = granted[x]
    PROVE  \A b \in Budgets :
             /\ SumFunctionOnSet(granted', CallsOf(b)) = SumFunctionOnSet(granted, CallsOf(b))
                  + (IF b = BudgetOf[c] THEN granted'[c] - granted[c] ELSE 0)
             /\ SumFunctionOnSet(granted', OtherCalls(b)) = SumFunctionOnSet(granted, OtherCalls(b))
                  + (IF b = BudgetOf[c] /\ Kind(c) = "other" THEN granted'[c] - granted[c] ELSE 0)
<1>1. \A x \in Calls : granted[x] \in Nat /\ granted'[x] \in Nat
  BY DEF TypeOK
<1>. QED
  BY <1>1, AmountChanged
-----------------------------------------------------------------------------
(***************************************************************************)
(* The steps                                                               *)
(***************************************************************************)

\* A call not begun is a call.
LEMMA FreshType == Fresh \in CallType /\ Fresh.charge = 0 /\ Fresh.pc = "idle"
BY DEF Fresh, CallType

\* So is one that ended; it charges nothing any more.
LEMMA EndType ==
    ASSUME NEW outcome \in {"value", "invalid", "transport", "cancelled", "failed", "exhausted"}
    PROVE  /\ EndOf(outcome) \in CallType /\ EndOf(outcome).charge = 0
           /\ EndOf(outcome).pc = "done"
BY FreshType DEF EndOf, CallType

\* All sums are zero when nobody holds or owes anything.
LEMMA NoneHeld ==
    ASSUME NEW f, \A c \in Calls : f[c] = 0, NEW b \in Budgets
    PROVE  SumFunctionOnSet(f, CallsOf(b)) = 0 /\ SumFunctionOnSet(f, OtherCalls(b)) = 0
<1>1. ASSUME NEW S \in SUBSET Calls, IsFiniteSet(S)
      PROVE  SumFunctionOnSet(f, S) = 0
  <2>1. IsFiniteSet({}) /\ {} \in SUBSET S /\ \A c \in S : f[c] = 0 /\ f[c] \in Nat
    BY FS_EmptySet
  <2>2. SumFunctionOnSet(f, {}) = 0
    BY <2>1, SumChosen
  <2>3. SumFunctionOnSet(f, {}) = SumFunctionOnSet(f, S)
    BY <1>1, <2>1, SumPart
  <2>. QED
    BY <2>2, <2>3
<1>. QED
  BY <1>1, Reviewed

\* The invariant holds before any call.
LEMMA InitHolds == Init => IInv
<1>. SUFFICES ASSUME Init PROVE IInv
  OBVIOUS
<1>1. \A c \in Calls : granted[c] = 0 /\ Charges[c] = 0 /\ call[c] = Fresh
  BY FreshType DEF Init, Charges
<1>2. \A b \in Budgets : /\ used[b] = 0 /\ reserved[b] = 0 /\ Ceiling[b] \in Nat
                         /\ audited[b]["verification"] = 0 /\ audited[b]["other"] = 0
                         /\ excess[b]["verification"] = 0 /\ excess[b]["other"] = 0
                         /\ FinalReserve \in Nat /\ FinalReserve < Ceiling[b]
  BY LimitsAssumption DEF Init, NoTokens, Kinds
<1>3. TypeOK
  <2>1. NoTokens \in [Budgets -> [Kinds -> Nat]]
    BY DEF NoTokens
  <2>. QED
    BY <2>1, FreshType, LimitsAssumption DEF Init, TypeOK
<1>4. CallInv
  BY <1>1, FreshType DEF CallInv, Charges, At
<1>5. ReservedInv
  BY <1>1, <1>2, NoneHeld DEF ReservedInv
<1>6. AuditInv
  BY <1>1, <1>2, NoneHeld DEF AuditInv, AuditedTokens
<1>7. CeilingKept
  BY <1>2 DEF CeilingKept
<1>8. OtherInv
  BY <1>1, <1>2, NoneHeld DEF OtherInv
<1>. QED
  BY <1>3, <1>4, <1>5, <1>6, <1>7, <1>8 DEF IInv

\* A step of one call that reserves and settles nothing, but may record all or
\* nothing of what it was charged.
LEMMA RecordHolds ==
    ASSUME IInv, NEW c \in Calls, NEW t \in CallType, t.charge = 0,
           t.pc # "audit", granted[c] # 0 => t.pc \in {"post", "backoff"},
           call' = [call EXCEPT ![c] = t],
           NEW paid \in {0, call[c].charge},
           audited' \in [Budgets -> [Kinds -> Nat]],
           \A b \in Budgets, k \in Kinds :
              audited'[b][k] = audited[b][k]
                                 + (IF b = BudgetOf[c] /\ k = Kind(c) THEN paid ELSE 0),
           late' \subseteq Budgets, faults' \in 0..MaxFaults,
           UNCHANGED <<tracker, granted, excess>>
    PROVE  IInv'
<1>. USE DEF IInv, tracker
<1>1. TypeOK'
  BY DEF TypeOK
<1>2. /\ \A x \in Calls : x # c => call'[x] = call[x]
      /\ call'[c] = t
  BY DEF TypeOK
<1>3. CallInv'
  BY <1>2 DEF CallInv, At
<1>4. ReservedInv'
  BY DEF ReservedInv
<1>5. PICK f : f = Charges
  OBVIOUS
<1>6. PICK g : g = Charges'
  OBVIOUS
<1>7. /\ \A x \in Calls : f[x] \in Nat /\ g[x] \in Nat
      /\ \A x \in Calls : x # c => g[x] = f[x]
      /\ g[c] = 0 /\ f[c] = call[c].charge /\ f[c] \in Nat /\ paid \in Nat /\ paid <= f[c]
  <2>1. \A x \in Calls : Charges[x] \in Nat /\ Charges[x] = call[x].charge
    BY Amounts
  <2>2. \A x \in Calls : Charges'[x] = call'[x].charge
    BY DEF Charges
  <2>. QED
    BY <1>2, <1>5, <1>6, <2>1, <2>2
<1>8. ASSUME NEW b \in Budgets
      PROVE  /\ SumFunctionOnSet(g, CallsOf(b)) \in Nat /\ SumFunctionOnSet(f, CallsOf(b)) \in Nat
             /\ SumFunctionOnSet(g, OtherCalls(b)) \in Nat /\ SumFunctionOnSet(f, OtherCalls(b)) \in Nat
             /\ SumFunctionOnSet(g, CallsOf(b)) = SumFunctionOnSet(f, CallsOf(b))
                  - (IF b = BudgetOf[c] THEN f[c] ELSE 0)
             /\ SumFunctionOnSet(g, OtherCalls(b)) = SumFunctionOnSet(f, OtherCalls(b))
                  - (IF b = BudgetOf[c] /\ Kind(c) = "other" THEN f[c] ELSE 0)
             /\ SumFunctionOnSet(granted, OtherCalls(b)) \in Nat
  <2>1. /\ SumFunctionOnSet(g, CallsOf(b)) \in Nat /\ SumFunctionOnSet(g, OtherCalls(b)) \in Nat
        /\ SumFunctionOnSet(f, CallsOf(b)) \in Nat /\ SumFunctionOnSet(f, OtherCalls(b)) \in Nat
    BY <1>7, Reviewed, SumType
  <2>2. /\ SumFunctionOnSet(g, CallsOf(b)) = SumFunctionOnSet(f, CallsOf(b))
             + (IF b = BudgetOf[c] THEN 0 - f[c] ELSE 0)
        /\ SumFunctionOnSet(g, OtherCalls(b)) = SumFunctionOnSet(f, OtherCalls(b))
             + (IF b = BudgetOf[c] /\ Kind(c) = "other" THEN 0 - f[c] ELSE 0)
    BY <1>1, <1>2, <1>5, <1>6, <1>7, ChargeChanged
  <2>3. SumFunctionOnSet(granted, OtherCalls(b)) \in Nat
    BY Amounts
  <2>. QED
    BY <1>7, <2>1, <2>2, <2>3
<1>9. ASSUME NEW b \in Budgets
      PROVE  /\ audited[b]["verification"] \in Nat /\ audited[b]["other"] \in Nat
             /\ used[b] \in Nat /\ Ceiling[b] \in Nat /\ FinalReserve \in Nat
             /\ excess[b]["other"] \in Nat
             /\ AuditedTokens(b)' = AuditedTokens(b) + (IF b = BudgetOf[c] THEN paid ELSE 0)
             /\ audited'[b]["other"] = audited[b]["other"]
                   + (IF b = BudgetOf[c] /\ Kind(c) = "other" THEN paid ELSE 0)
  <2>1. audited[b]["verification"] \in Nat /\ audited[b]["other"] \in Nat
    BY DEF TypeOK, Kinds
  <2>2. Kind(c) \in {"verification", "other"} /\ "verification" # "other"
    BY DEF Kind
  <2>3. /\ audited'[b]["verification"] = audited[b]["verification"]
              + (IF b = BudgetOf[c] /\ "verification" = Kind(c) THEN paid ELSE 0)
        /\ audited'[b]["other"] = audited[b]["other"]
              + (IF b = BudgetOf[c] /\ "other" = Kind(c) THEN paid ELSE 0)
    BY DEF Kinds
  <2>4. used[b] \in Nat /\ Ceiling[b] \in Nat /\ FinalReserve \in Nat /\ excess[b]["other"] \in Nat
    BY LimitsAssumption DEF TypeOK, Kinds
  <2>. QED
    BY <1>7, <2>1, <2>2, <2>3, <2>4 DEF AuditedTokens
<1>10. AuditInv'
  <2>. SUFFICES ASSUME NEW b \in Budgets
                PROVE  AuditedTokens(b)' + SumFunctionOnSet(g, CallsOf(b)) <= used[b]
    BY <1>6 DEF AuditInv
  <2>1. AuditedTokens(b) + SumFunctionOnSet(f, CallsOf(b)) <= used[b] /\ AuditedTokens(b) \in Nat
    BY <1>5, <1>9 DEF AuditInv, AuditedTokens
  <2>. QED
    BY <1>7, <1>8, <1>9, <2>1
<1>11. CeilingKept'
  BY DEF CeilingKept
<1>12. OtherInv'
  <2>. SUFFICES ASSUME NEW b \in Budgets
                PROVE  audited'[b]["other"] + SumFunctionOnSet(g, OtherCalls(b))
                         + SumFunctionOnSet(granted, OtherCalls(b))
                           <= Ceiling[b] - FinalReserve + excess[b]["other"]
    BY <1>6 DEF OtherInv
  <2>1. audited[b]["other"] + SumFunctionOnSet(f, OtherCalls(b))
          + SumFunctionOnSet(granted, OtherCalls(b))
            <= Ceiling[b] - FinalReserve + excess[b]["other"]
    BY <1>5 DEF OtherInv
  <2>. QED
    BY <1>7, <1>8, <1>9, <2>1
<1>. QED
  BY <1>1, <1>3, <1>4, <1>10, <1>11, <1>12

\* What a review's numbers are: tokens.
LEMMA Numbers ==
    ASSUME TypeOK, NEW b \in Budgets
    PROVE  /\ used[b] \in Nat /\ reserved[b] \in Int /\ Ceiling[b] \in Nat /\ FinalReserve \in Nat
           /\ audited[b]["verification"] \in Nat /\ audited[b]["other"] \in Nat
           /\ excess[b]["verification"] \in Nat /\ excess[b]["other"] \in Nat
           /\ AuditedTokens(b) \in Nat /\ audited[b]["other"] <= AuditedTokens(b)
<1>1. used[b] \in Nat /\ reserved[b] \in Int /\ Ceiling[b] \in Nat /\ FinalReserve \in Nat
  BY LimitsAssumption DEF TypeOK
<1>2. /\ audited[b]["verification"] \in Nat /\ audited[b]["other"] \in Nat
      /\ excess[b]["verification"] \in Nat /\ excess[b]["other"] \in Nat
  BY DEF TypeOK, Kinds
<1>. QED
  BY <1>1, <1>2 DEF AuditedTokens

\* A reservation that fits: what was spent and promised before, and so also what
\* the other stages are answerable for, leaves room for it.
LEMMA ReserveHolds ==
    ASSUME IInv, NEW c \in Calls, At(c, {"reserve", "woken"}),
           ~Exhausted(c), Fits(c, Reservation(c)),
           reserved' = [reserved EXCEPT ![BudgetOf[c]] = @ + Reservation(c)],
           granted' = [granted EXCEPT ![c] = Reservation(c)],
           call' = [call EXCEPT ![c].pc = "post"],
           UNCHANGED <<late, used, audited, excess, faults>>
    PROVE  IInv'
<1>. USE DEF IInv
<1>1. PICK r : r = Reservation(c)
  OBVIOUS
<1>2. PICK d : d = BudgetOf[c]
  OBVIOUS
<1>3. d \in Budgets /\ c \in CallsOf(d)
  BY <1>2, Reviewed
<1>4. /\ r \in Nat /\ reserved[d] + r <= Ceiling[d] - used[d]
      /\ Kind(c) = "other" => reserved[d] + r <= Ceiling[d] - FinalReserve - used[d]
  <2>1. /\ used[d] \in Nat /\ reserved[d] \in Int /\ Ceiling[d] \in Nat /\ FinalReserve \in Nat
        /\ Want[c] \in Nat /\ Need[c] \in Nat /\ 1 <= Need[c]
    BY <1>3, Numbers, CallsAssumption
  <2>2. PICK left : left = Available(c)
    OBVIOUS
  <2>3. /\ left \in Int /\ left <= Ceiling[d] - used[d]
        /\ Kind(c) = "other" => left = Ceiling[d] - FinalReserve - used[d]
    BY <1>2, <2>1, <2>2 DEF Available, Kind
  <2>4. r = IF Want[c] <= left THEN Want[c] ELSE left
    BY <1>1, <2>2 DEF Reservation
  <2>5. ~(r < Need[c])
    BY <1>1 DEF Exhausted
  <2>6. reserved[d] + r <= left
    BY <1>1, <1>2, <2>2 DEF Fits
  <2>. QED
    BY <2>1, <2>3, <2>4, <2>5, <2>6
<1>5. /\ \A x \in Calls : x # c => call'[x] = call[x] /\ granted'[x] = granted[x]
      /\ call'[c].pc = "post" /\ call'[c].charge = call[c].charge
      /\ call' \in [Calls -> CallType] /\ granted' \in [Calls -> Nat] /\ granted'[c] = r
  <2>1. call \in [Calls -> CallType] /\ granted \in [Calls -> Nat]
    BY DEF TypeOK
  <2>2. [call[c] EXCEPT !.pc = "post"] \in CallType
    BY <2>1 DEF CallType
  <2>. QED
    BY <1>1, <1>4, <2>1, <2>2 DEF CallType
<1>6. granted[c] = 0 /\ call[c].charge = 0
  BY DEF CallInv, At
<1>7. reserved' = [reserved EXCEPT ![d] = @ + r] /\ reserved'[d] = reserved[d] + r
      /\ \A b \in Budgets : b # d => reserved'[b] = reserved[b]
  BY <1>1, <1>2, <1>3 DEF TypeOK
<1>8. TypeOK'
  <2>1. reserved[d] + r \in Int
    BY <1>3, <1>4, Numbers
  <2>2. reserved' \in [Budgets -> Int]
    BY <1>7, <2>1 DEF TypeOK
  <2>. QED
    BY <1>5, <2>2 DEF TypeOK
<1>9. CallInv'
  BY <1>5, <1>6 DEF CallInv, At
<1>10. \A b \in Budgets :
         /\ SumFunctionOnSet(granted', CallsOf(b)) = SumFunctionOnSet(granted, CallsOf(b))
              + (IF b = d THEN r ELSE 0)
         /\ SumFunctionOnSet(granted', OtherCalls(b)) = SumFunctionOnSet(granted, OtherCalls(b))
              + (IF b = d /\ Kind(c) = "other" THEN r ELSE 0)
  <2>1. \A b \in Budgets :
          /\ SumFunctionOnSet(granted', CallsOf(b)) = SumFunctionOnSet(granted, CallsOf(b))
               + (IF b = BudgetOf[c] THEN granted'[c] - granted[c] ELSE 0)
          /\ SumFunctionOnSet(granted', OtherCalls(b)) = SumFunctionOnSet(granted, OtherCalls(b))
               + (IF b = BudgetOf[c] /\ Kind(c) = "other" THEN granted'[c] - granted[c] ELSE 0)
    BY <1>5, <1>8, GrantChanged
  <2>2. granted'[c] - granted[c] = r
    BY <1>4, <1>5, <1>6
  <2>. QED
    BY <1>2, <2>1, <2>2
<1>11. \A b \in Budgets :
         /\ SumFunctionOnSet(Charges', CallsOf(b)) = SumFunctionOnSet(Charges, CallsOf(b))
         /\ SumFunctionOnSet(Charges', OtherCalls(b)) = SumFunctionOnSet(Charges, OtherCalls(b))
  <2>1. Charges' = Charges
    BY <1>5 DEF Charges
  <2>. QED
    BY <2>1
<1>12. ReservedInv'
  <2>. SUFFICES ASSUME NEW b \in Budgets
                PROVE  reserved'[b] = SumFunctionOnSet(granted', CallsOf(b))
    BY DEF ReservedInv
  <2>1. reserved[b] = SumFunctionOnSet(granted, CallsOf(b)) /\ reserved[b] \in Int
    BY Numbers DEF ReservedInv
  <2>2. SumFunctionOnSet(granted', CallsOf(b)) = SumFunctionOnSet(granted, CallsOf(b))
          + (IF b = d THEN r ELSE 0)
    BY <1>10
  <2>. QED
    BY <1>4, <1>7, <2>1, <2>2
<1>13. AuditInv'
  BY <1>11 DEF AuditInv, AuditedTokens
<1>14. CeilingKept'
  <2>. SUFFICES ASSUME NEW b \in Budgets
                PROVE  used[b] + reserved'[b]
                         <= Ceiling[b] + excess[b]["verification"] + excess[b]["other"]
    BY DEF CeilingKept
  <2>1. used[b] + reserved[b] <= Ceiling[b] + excess[b]["verification"] + excess[b]["other"]
    BY DEF CeilingKept
  <2>. QED
    BY <1>4, <1>7, <2>1, Numbers
<1>15. OtherInv'
  <2>. SUFFICES ASSUME NEW b \in Budgets
                PROVE  audited[b]["other"] + SumFunctionOnSet(Charges, OtherCalls(b))
                         + SumFunctionOnSet(granted', OtherCalls(b))
                           <= Ceiling[b] - FinalReserve + excess[b]["other"]
    BY <1>11 DEF OtherInv
  <2>1. audited[b]["other"] + SumFunctionOnSet(Charges, OtherCalls(b))
          + SumFunctionOnSet(granted, OtherCalls(b))
            <= Ceiling[b] - FinalReserve + excess[b]["other"]
    BY DEF OtherInv
  <2>2. CASE b = d /\ Kind(c) = "other"
    <3>1. /\ AuditedTokens(b) + SumFunctionOnSet(Charges, CallsOf(b)) <= used[b]
          /\ SumFunctionOnSet(granted, CallsOf(b)) = reserved[b]
      BY DEF AuditInv, ReservedInv
    <3>2. /\ SumFunctionOnSet(granted, OtherCalls(b)) <= SumFunctionOnSet(granted, CallsOf(b))
          /\ SumFunctionOnSet(Charges, OtherCalls(b)) <= SumFunctionOnSet(Charges, CallsOf(b))
          /\ SumFunctionOnSet(granted, OtherCalls(b)) \in Nat
          /\ SumFunctionOnSet(granted, CallsOf(b)) \in Nat
          /\ SumFunctionOnSet(Charges, OtherCalls(b)) \in Nat
          /\ SumFunctionOnSet(Charges, CallsOf(b)) \in Nat
      BY Amounts
    <3>3. reserved[b] + r <= Ceiling[b] - FinalReserve - used[b]
      BY <1>4, <2>2
    <3>4. SumFunctionOnSet(granted', OtherCalls(b)) = SumFunctionOnSet(granted, OtherCalls(b)) + r
      BY <1>10, <2>2
    <3>. QED
      BY <1>4, <3>1, <3>2, <3>3, <3>4, Numbers
  <2>3. CASE ~(b = d /\ Kind(c) = "other")
    <3>1. SumFunctionOnSet(granted, OtherCalls(b)) \in Nat
      BY Amounts
    <3>2. SumFunctionOnSet(granted', OtherCalls(b)) = SumFunctionOnSet(granted, OtherCalls(b))
            + (IF b = d /\ Kind(c) = "other" THEN r ELSE 0)
      BY <1>10
    <3>. QED
      BY <2>1, <2>3, <3>1, <3>2
  <2>. QED
    BY <2>2, <2>3
<1>. QED
  BY <1>8, <1>9, <1>12, <1>13, <1>14, <1>15

\* A settlement: the reservation goes, the charge comes, and what it exceeds the
\* reservation by is excess.
LEMMA SettleHolds ==
    ASSUME IInv, NEW c \in Calls, At(c, {"post", "backoff"}),
           NEW outcome \in {"value", "invalid", "transport", "cancelled"}, NEW charge \in Nat,
           Settle(c, outcome, charge), UNCHANGED <<late, audited>>, faults' \in 0..MaxFaults
    PROVE  IInv'
<1>. USE DEF IInv
<1>1. PICK d : d = BudgetOf[c]
  OBVIOUS
<1>2. d \in Budgets /\ c \in CallsOf(d) /\ Kind(c) \in Kinds
  BY <1>1, Reviewed
<1>3. PICK held : held = granted[c]
  OBVIOUS
<1>4. PICK over : over = IF charge > held THEN charge - held ELSE 0
  OBVIOUS
<1>5. held \in Nat /\ over \in Nat /\ charge - held <= over /\ charge <= held + over
  <2>1. held \in Nat
    BY <1>3 DEF TypeOK
  <2>. QED
    BY <1>4, <2>1
<1>6. /\ used' = [used EXCEPT ![d] = @ + charge]
      /\ reserved' = [reserved EXCEPT ![d] = @ - held]
      /\ granted' = [granted EXCEPT ![c] = 0]
      /\ excess' = [excess EXCEPT ![d][Kind(c)] = IF charge > held THEN @ + charge - held ELSE @]
      /\ call' = Wake(d, [call EXCEPT ![c].pc = "audit", ![c].outcome = outcome,
                                      ![c].charge = charge])
  BY <1>1, <1>3 DEF Settle
<1>7. /\ \A b \in Budgets : /\ used'[b] = used[b] + (IF b = d THEN charge ELSE 0)
                            /\ reserved'[b] = reserved[b] - (IF b = d THEN held ELSE 0)
      /\ used' \in [Budgets -> Nat] /\ reserved' \in [Budgets -> Int]
  <2>1. \A b \in Budgets : used[b] \in Nat /\ reserved[b] \in Int
    BY DEF TypeOK
  <2>2. used[d] + charge \in Nat /\ reserved[d] - held \in Int
    BY <1>2, <1>5, <2>1
  <2>3. used' \in [Budgets -> Nat] /\ reserved' \in [Budgets -> Int]
    BY <1>2, <1>6, <2>2 DEF TypeOK
  <2>4. \A b \in Budgets : /\ used'[b] = IF b = d THEN used[b] + charge ELSE used[b]
                           /\ reserved'[b] = IF b = d THEN reserved[b] - held ELSE reserved[b]
    BY <1>6 DEF TypeOK
  <2>. QED
    BY <1>5, <2>1, <2>3, <2>4
<1>8. /\ excess' \in [Budgets -> [Kinds -> Nat]]
      /\ \A b \in Budgets, k \in Kinds :
            excess'[b][k] = excess[b][k] + (IF b = d /\ k = Kind(c) THEN over ELSE 0)
  <2>1. PICK e : e = IF charge > held THEN excess[d][Kind(c)] + charge - held
                     ELSE excess[d][Kind(c)]
    OBVIOUS
  <2>2. /\ excess[d][Kind(c)] \in Nat /\ excess \in [Budgets -> [Kinds -> Nat]]
        /\ \A b \in Budgets, k \in Kinds : excess[b][k] \in Nat
    BY <1>2 DEF TypeOK
  <2>3. e \in Nat /\ e = excess[d][Kind(c)] + over
    BY <1>4, <1>5, <2>1, <2>2
  <2>4. excess' = [excess EXCEPT ![d][Kind(c)] = e]
    BY <1>6, <2>1
  <2>5. /\ excess' \in [Budgets -> [Kinds -> Nat]]
        /\ \A b \in Budgets, k \in Kinds :
              excess'[b][k] = IF b = d /\ k = Kind(c) THEN e ELSE excess[b][k]
    BY <1>2, <2>2, <2>3, <2>4
  <2>. QED
    BY <2>2, <2>3, <2>5
<1>9. /\ granted' \in [Calls -> Nat] /\ granted'[c] = 0
      /\ \A x \in Calls : x # c => granted'[x] = granted[x]
  BY <1>6 DEF TypeOK
<1>10. /\ call' \in [Calls -> CallType]
       /\ call'[c].pc = "audit" /\ call'[c].charge = charge /\ call'[c].outcome = outcome
       /\ \A x \in Calls : x # c =>
             /\ call'[x].charge = call[x].charge /\ call'[x].outcome = call[x].outcome
             /\ call'[x].pc = call[x].pc \/ (call[x].pc = "waiting" /\ call'[x].pc = "woken")
  <2>1. PICK answered : answered = [call[c] EXCEPT !.pc = "audit", !.outcome = outcome,
                                                   !.charge = charge]
    OBVIOUS
  <2>2. call[c] \in CallType /\ call \in [Calls -> CallType]
    BY DEF TypeOK
  <2>3. /\ answered \in CallType /\ answered.pc = "audit" /\ answered.charge = charge
        /\ answered.outcome = outcome
    BY <2>1, <2>2 DEF CallType
  <2>4. PICK calls : calls = [call EXCEPT ![c] = answered]
    OBVIOUS
  <2>5. call' = Wake(d, calls)
    BY <1>6, <2>1, <2>2, <2>4
  <2>6. /\ calls \in [Calls -> CallType] /\ calls[c] = answered
        /\ \A x \in Calls : x # c => calls[x] = call[x]
    BY <2>2, <2>3, <2>4
  <2>7. \A x \in Calls : call'[x] = calls[x]
                         \/ (calls[x].pc = "waiting" /\ call'[x] = [calls[x] EXCEPT !.pc = "woken"])
    BY <2>5 DEF Wake
  <2>8. \A x \in Calls : LET y == [calls[x] EXCEPT !.pc = "woken"] IN
           /\ y \in CallType /\ y.charge = calls[x].charge /\ y.outcome = calls[x].outcome
           /\ y.pc = "woken"
    BY <2>6 DEF CallType
  <2>9. call' \in [Calls -> CallType]
    <3>1. \A x \in Calls : call'[x] \in CallType
      BY <2>6, <2>7, <2>8
    <3>2. call' = [x \in Calls |-> call'[x]]
      BY <2>5 DEF Wake
    <3>. QED
      BY <3>1, <3>2
  <2>10. call'[c] = answered
    BY <2>3, <2>6, <2>7
  <2>. QED
    BY ZenonT(30), <2>3, <2>6, <2>7, <2>8, <2>9, <2>10
<1>11. TypeOK'
  BY <1>7, <1>8, <1>9, <1>10 DEF TypeOK
<1>12. call[c].charge = 0
  BY DEF CallInv, At
<1>13. CallInv'
  BY <1>9, <1>10 DEF CallInv, At
<1>14. \A b \in Budgets :
         /\ SumFunctionOnSet(granted', CallsOf(b)) = SumFunctionOnSet(granted, CallsOf(b))
              - (IF b = d THEN held ELSE 0)
         /\ SumFunctionOnSet(granted', OtherCalls(b)) = SumFunctionOnSet(granted, OtherCalls(b))
              - (IF b = d /\ Kind(c) = "other" THEN held ELSE 0)
  <2>. TAKE b \in Budgets
  <2>1. /\ SumFunctionOnSet(granted', CallsOf(b)) = SumFunctionOnSet(granted, CallsOf(b))
             + (IF b = BudgetOf[c] THEN granted'[c] - granted[c] ELSE 0)
        /\ SumFunctionOnSet(granted', OtherCalls(b)) = SumFunctionOnSet(granted, OtherCalls(b))
             + (IF b = BudgetOf[c] /\ Kind(c) = "other" THEN granted'[c] - granted[c] ELSE 0)
    BY <1>9, <1>11, GrantChanged
  <2>2. granted'[c] - granted[c] = 0 - held
    BY <1>3, <1>9
  <2>3. /\ SumFunctionOnSet(granted, CallsOf(b)) \in Nat
        /\ SumFunctionOnSet(granted, OtherCalls(b)) \in Nat
    BY Amounts
  <2>. QED
    BY <1>1, <1>5, <2>1, <2>2, <2>3
<1>15. \A b \in Budgets :
         /\ SumFunctionOnSet(Charges', CallsOf(b)) = SumFunctionOnSet(Charges, CallsOf(b))
              + (IF b = d THEN charge ELSE 0)
         /\ SumFunctionOnSet(Charges', OtherCalls(b)) = SumFunctionOnSet(Charges, OtherCalls(b))
              + (IF b = d /\ Kind(c) = "other" THEN charge ELSE 0)
  <2>. TAKE b \in Budgets
  <2>1. /\ SumFunctionOnSet(Charges', CallsOf(b)) = SumFunctionOnSet(Charges, CallsOf(b))
             + (IF b = BudgetOf[c] THEN call'[c].charge - call[c].charge ELSE 0)
        /\ SumFunctionOnSet(Charges', OtherCalls(b)) = SumFunctionOnSet(Charges, OtherCalls(b))
             + (IF b = BudgetOf[c] /\ Kind(c) = "other"
                THEN call'[c].charge - call[c].charge ELSE 0)
    BY <1>10, <1>11, ChargeChanged
  <2>2. call'[c].charge - call[c].charge = charge
    BY <1>10, <1>12
  <2>. QED
    BY <1>1, <2>1, <2>2
<1>16. ASSUME NEW b \in Budgets
       PROVE  /\ reserved'[b] = SumFunctionOnSet(granted', CallsOf(b))
              /\ AuditedTokens(b) + SumFunctionOnSet(Charges', CallsOf(b)) <= used'[b]
              /\ used'[b] + reserved'[b]
                   <= Ceiling[b] + excess'[b]["verification"] + excess'[b]["other"]
              /\ audited[b]["other"] + SumFunctionOnSet(Charges', OtherCalls(b))
                   + SumFunctionOnSet(granted', OtherCalls(b))
                     <= Ceiling[b] - FinalReserve + excess'[b]["other"]
  <2>1. /\ reserved[b] = SumFunctionOnSet(granted, CallsOf(b))
        /\ AuditedTokens(b) + SumFunctionOnSet(Charges, CallsOf(b)) <= used[b]
        /\ used[b] + reserved[b] <= Ceiling[b] + excess[b]["verification"] + excess[b]["other"]
        /\ audited[b]["other"] + SumFunctionOnSet(Charges, OtherCalls(b))
             + SumFunctionOnSet(granted, OtherCalls(b))
               <= Ceiling[b] - FinalReserve + excess[b]["other"]
    BY DEF ReservedInv, AuditInv, CeilingKept, OtherInv
  <2>2. /\ used[b] \in Nat /\ reserved[b] \in Int /\ Ceiling[b] \in Nat /\ FinalReserve \in Nat
        /\ audited[b]["other"] \in Nat /\ AuditedTokens(b) \in Nat
        /\ excess[b]["verification"] \in Nat /\ excess[b]["other"] \in Nat
    BY Numbers
  <2>3. /\ SumFunctionOnSet(granted, CallsOf(b)) \in Nat
        /\ SumFunctionOnSet(granted, OtherCalls(b)) \in Nat
        /\ SumFunctionOnSet(Charges, CallsOf(b)) \in Nat
        /\ SumFunctionOnSet(Charges, OtherCalls(b)) \in Nat
    BY Amounts
  <2>4. /\ excess'[b]["verification"] = excess[b]["verification"]
             + (IF b = d /\ "verification" = Kind(c) THEN over ELSE 0)
        /\ excess'[b]["other"] = excess[b]["other"]
             + (IF b = d /\ "other" = Kind(c) THEN over ELSE 0)
        /\ Kind(c) = "verification" \/ Kind(c) = "other"
    BY <1>2, <1>8 DEF Kinds
  <2>5. CASE b # d
    <3>1. /\ reserved'[b] = reserved[b] /\ used'[b] = used[b]
          /\ excess'[b]["verification"] = excess[b]["verification"]
          /\ excess'[b]["other"] = excess[b]["other"]
      BY <1>7, <2>2, <2>4, <2>5
    <3>2. /\ SumFunctionOnSet(granted', CallsOf(b)) = SumFunctionOnSet(granted, CallsOf(b)) - 0
          /\ SumFunctionOnSet(granted', OtherCalls(b)) = SumFunctionOnSet(granted, OtherCalls(b)) - 0
          /\ SumFunctionOnSet(Charges', CallsOf(b)) = SumFunctionOnSet(Charges, CallsOf(b)) + 0
          /\ SumFunctionOnSet(Charges', OtherCalls(b)) = SumFunctionOnSet(Charges, OtherCalls(b)) + 0
      BY <1>14, <1>15, <2>5
    <3>. QED
      BY <2>1, <2>3, <3>1, <3>2
  <2>6. CASE b = d
    <3>1. reserved'[b] = reserved[b] - held /\ used'[b] = used[b] + charge
      BY <1>7, <2>6
    <3>2. /\ SumFunctionOnSet(granted', CallsOf(b)) = SumFunctionOnSet(granted, CallsOf(b)) - held
          /\ SumFunctionOnSet(Charges', CallsOf(b)) = SumFunctionOnSet(Charges, CallsOf(b)) + charge
      BY <1>14, <1>15, <2>6
    <3>3. excess'[b]["verification"] + excess'[b]["other"]
            = excess[b]["verification"] + excess[b]["other"] + over
      BY <1>5, <2>2, <2>4, <2>6
    <3>4. /\ excess'[b]["verification"] \in Nat /\ excess'[b]["other"] \in Nat
      BY <1>5, <2>2, <2>4
    <3>5. CASE Kind(c) = "other"
      <4>1. /\ SumFunctionOnSet(granted', OtherCalls(b)) = SumFunctionOnSet(granted, OtherCalls(b)) - held
            /\ SumFunctionOnSet(Charges', OtherCalls(b)) = SumFunctionOnSet(Charges, OtherCalls(b)) + charge
            /\ excess'[b]["other"] = excess[b]["other"] + over
        BY <1>14, <1>15, <2>4, <2>6, <3>5
      <4>. QED
        BY <1>5, <2>1, <2>2, <2>3, <3>1, <3>2, <3>3, <3>4, <4>1
    <3>6. CASE Kind(c) = "verification"
      <4>1. /\ SumFunctionOnSet(granted', OtherCalls(b)) = SumFunctionOnSet(granted, OtherCalls(b)) - 0
            /\ SumFunctionOnSet(Charges', OtherCalls(b)) = SumFunctionOnSet(Charges, OtherCalls(b)) + 0
            /\ excess'[b]["other"] = excess[b]["other"] + 0
        BY <1>14, <1>15, <2>4, <2>6, <3>6
      <4>. QED
        BY <1>5, <2>1, <2>2, <2>3, <3>1, <3>2, <3>3, <3>4, <4>1
    <3>. QED
      BY <2>4, <3>5, <3>6
  <2>. QED
    BY <2>5, <2>6
<1>. QED
  BY <1>11, <1>13, <1>16 DEF ReservedInv, AuditInv, AuditedTokens, CeilingKept, OtherInv

\* A step of one call that touches no tokens but its own place, to an end or
\* to another place.
LEMMA QuietHolds ==
    ASSUME IInv, NEW c \in Calls, NEW t \in CallType, t.charge = 0,
           t.pc # "audit", granted[c] # 0 => t.pc \in {"post", "backoff"},
           call' = [call EXCEPT ![c] = t], faults' \in 0..MaxFaults,
           UNCHANGED <<late, tracker, audited, granted, excess>>
    PROVE  IInv'
<1>1. late' \subseteq Budgets /\ audited \in [Budgets -> [Kinds -> Nat]]
  BY DEF IInv, TypeOK
<1>2. audited' \in [Budgets -> [Kinds -> Nat]]
  BY <1>1
<1>3. \A b \in Budgets, k \in Kinds : audited[b][k] \in Nat
  BY <1>1
<1>4. \A b \in Budgets, k \in Kinds :
        audited'[b][k] = audited[b][k] + (IF b = BudgetOf[c] /\ k = Kind(c) THEN 0 ELSE 0)
  BY <1>3
<1>5. 0 \in {0, call[c].charge}
  OBVIOUS
<1>. QED
  BY <1>1, <1>2, <1>4, <1>5, RecordHolds

\* A call that ends outside an attempt keeps the invariant.
LEMMA EndHolds ==
    ASSUME IInv, NEW c \in Calls, ~At(c, {"post", "backoff"}),
           NEW outcome \in {"value", "invalid", "transport", "cancelled", "failed", "exhausted"},
           End(c, outcome), faults' \in 0..MaxFaults,
           UNCHANGED <<late, tracker, audited, granted, excess>>
    PROVE  IInv'
<1>1. PICK t : t = EndOf(outcome)
  OBVIOUS
<1>2. t \in CallType /\ t.charge = 0 /\ t.pc = "done" /\ call' = [call EXCEPT ![c] = t]
  BY <1>1, EndType DEF End
<1>3. granted[c] = 0
  BY DEF IInv, CallInv
<1>. QED
  BY <1>2, <1>3, QuietHolds

\* So does one that only moves on.
LEMMA MoveHolds ==
    ASSUME IInv, NEW c \in Calls, ~At(c, {"audit"}),
           NEW pc \in {"slot", "reserve", "waiting", "backoff"},
           At(c, {"post"}) => pc = "backoff", ~At(c, {"backoff"}),
           call' = [call EXCEPT ![c].pc = pc], faults' \in 0..MaxFaults,
           UNCHANGED <<late, tracker, audited, granted, excess>>
    PROVE  IInv'
<1>1. PICK t : t = [call[c] EXCEPT !.pc = pc]
  OBVIOUS
<1>2. call[c] \in CallType /\ call[c].charge = 0
  BY DEF IInv, TypeOK, CallInv
<1>3. t \in CallType /\ t.charge = 0 /\ t.pc = pc
  BY <1>1, <1>2 DEF CallType
<1>4. call' = [call EXCEPT ![c] = t]
  BY <1>1
<1>5. granted[c] # 0 => pc \in {"post", "backoff"}
  BY DEF IInv, CallInv, At
<1>. QED
  BY <1>3, <1>4, <1>5, QuietHolds

\* Where an audited attempt leads, nothing is owed.
LEMMA ContinueType ==
    ASSUME TypeOK, CallInv, NEW c \in Calls, At(c, {"audit"})
    PROVE  Continue(c) \in CallType /\ Continue(c).charge = 0 /\ Continue(c).pc \in {"done", "reserve"}
<1>1. call[c] \in CallType
  BY DEF TypeOK
<1>2. PICK try : try = call[c]
  OBVIOUS
<1>3. /\ try.parse \in 1..2 /\ try.attempt \in 1..3
      /\ try.outcome \in {"value", "invalid", "transport", "cancelled"}
  BY <1>1, <1>2 DEF CallInv, CallType
<1>4. \A parse \in 1..2, attempt \in 1..3 :
        \A t : t = [Fresh EXCEPT !.pc = "reserve", !.parse = parse, !.attempt = attempt]
                  => t \in CallType /\ t.charge = 0 /\ t.pc = "reserve"
  BY FreshType DEF CallType
<1>5. \A parse \in 1..2 :
        LET t == [Fresh EXCEPT !.pc = "reserve", !.parse = parse] IN
          t \in CallType /\ t.charge = 0 /\ t.pc = "reserve"
  BY FreshType DEF CallType
<1>6. CASE try.outcome \in {"value", "cancelled"}
  <2>1. Continue(c) = EndOf(try.outcome)
    BY <1>2, <1>6 DEF Continue
  <2>. QED
    BY <1>6, <2>1, EndType
<1>7. CASE try.outcome = "invalid"
  <2>1. Continue(c) = IF try.parse = 2 THEN EndOf("failed")
                      ELSE [Fresh EXCEPT !.pc = "reserve", !.parse = 2]
    BY <1>2, <1>7 DEF Continue
  <2>. QED
    BY <1>5, <2>1, EndType
<1>8. CASE try.outcome = "transport"
  <2>1. Continue(c) = IF try.attempt = 3 THEN EndOf("failed")
                      ELSE [Fresh EXCEPT !.pc = "reserve", !.parse = try.parse,
                                         !.attempt = try.attempt + 1]
    BY <1>2, <1>8 DEF Continue
  <2>2. CASE try.attempt = 3
    BY <2>1, <2>2, EndType
  <2>3. CASE try.attempt # 3
    <3>1. try.attempt + 1 \in 1..3 /\ try.parse \in 1..2
      BY <1>3, <2>3
    <3>2. PICK n : n = try.attempt + 1
      OBVIOUS
    <3>3. PICK t : t = Continue(c)
      OBVIOUS
    <3>4. t = [Fresh EXCEPT !.pc = "reserve", !.parse = try.parse, !.attempt = n]
      BY <2>1, <2>3, <3>2, <3>3
    <3>5. t \in CallType /\ t.charge = 0 /\ t.pc = "reserve"
      BY <1>4, <3>1, <3>2, <3>4
    <3>. QED
      BY <3>3, <3>5
  <2>. QED
    BY <2>2, <2>3
<1>. QED
  BY <1>3, <1>6, <1>7, <1>8

\* The audit row of an attempt: the sum of its review's rows of its kind grows.
LEMMA AuditRow ==
    ASSUME TypeOK, NEW c \in Calls, NEW paid \in {0, call[c].charge},
           audited' = [audited EXCEPT ![BudgetOf[c]][Kind(c)] = @ + paid]
    PROVE  /\ audited' \in [Budgets -> [Kinds -> Nat]]
           /\ \A b \in Budgets, k \in Kinds :
                 audited'[b][k] = audited[b][k]
                                    + (IF b = BudgetOf[c] /\ k = Kind(c) THEN paid ELSE 0)
<1>1. paid \in Nat
  BY DEF TypeOK, CallType
<1>2. BudgetOf[c] \in Budgets /\ Kind(c) \in Kinds
  BY Reviewed
<1>3. /\ audited \in [Budgets -> [Kinds -> Nat]]
      /\ \A b \in Budgets, k \in Kinds : audited[b][k] \in Nat
  BY DEF TypeOK
<1>4. PICK a : a = audited[BudgetOf[c]][Kind(c)] + paid
  OBVIOUS
<1>5. a \in Nat /\ audited' = [audited EXCEPT ![BudgetOf[c]][Kind(c)] = a]
  BY <1>1, <1>2, <1>3, <1>4
<1>6. /\ audited' \in [Budgets -> [Kinds -> Nat]]
      /\ \A b \in Budgets, k \in Kinds :
            audited'[b][k] = IF b = BudgetOf[c] /\ k = Kind(c) THEN a ELSE audited[b][k]
  BY <1>2, <1>3, <1>5
<1>. QED
  BY <1>3, <1>4, <1>6

\* The charge is paid, or for a call cancelled meanwhile perhaps.
LEMMA AuditHolds ==
    ASSUME IInv, NEW c \in Calls, At(c, {"audit"}), NEW t \in CallType, t.charge = 0,
           t.pc \in {"done", "reserve"}, call' = [call EXCEPT ![c] = t],
           NEW paid \in {0, call[c].charge},
           audited' \in [Budgets -> [Kinds -> Nat]],
           \A b \in Budgets, k \in Kinds :
              audited'[b][k] = audited[b][k]
                                 + (IF b = BudgetOf[c] /\ k = Kind(c) THEN paid ELSE 0),
           faults' \in 0..MaxFaults, UNCHANGED <<late, tracker, granted, excess>>
    PROVE  IInv'
<1>1. late' \subseteq Budgets
  BY DEF IInv, TypeOK
<1>2. granted[c] = 0
  BY DEF IInv, CallInv, At
<1>3. t.pc # "audit" /\ (granted[c] # 0 => t.pc \in {"post", "backoff"})
  BY <1>2
<1>4. UNCHANGED <<tracker, granted, excess>>
  OBVIOUS
<1>. QED
  BY <1>1, <1>3, <1>4, RecordHolds

\* A crash forgets what was reserved, and what was spent but not recorded.
LEMMA CrashHolds ==
    ASSUME IInv, Crash
    PROVE  IInv'
<1>. USE DEF IInv
<1>1. /\ used' = [b \in Budgets |-> AuditedTokens(b)] /\ reserved' = [b \in Budgets |-> 0]
      /\ granted' = [c \in Calls |-> 0] /\ faults' = faults + 1 /\ faults < MaxFaults
      /\ UNCHANGED <<late, audited, excess>>
  BY DEF Crash
<1>2. PICK saved \in SUBSET {c \in Calls : At(c, {"done"})} :
        call' = [c \in Calls |-> IF c \in saved THEN call[c] ELSE Fresh]
  BY DEF Crash
<1>3. \A c \in Calls : \/ call'[c] = Fresh
                       \/ call'[c] = call[c] /\ call[c].pc = "done" /\ call[c].charge = 0
  BY <1>2 DEF CallInv, At
<1>4. \A c \in Calls : granted'[c] = 0 /\ Charges'[c] = 0
  <2>1. \A c \in Calls : Charges'[c] = call'[c].charge
    BY DEF Charges
  <2>. QED
    BY <1>1, <1>3, <2>1, FreshType
<1>5. TypeOK'
  <2>1. call' \in [Calls -> CallType]
    BY <1>2, <1>3, FreshType DEF TypeOK
  <2>2. faults' \in 0..MaxFaults
    BY <1>1, LimitsAssumption DEF TypeOK
  <2>3. used' \in [Budgets -> Nat] /\ reserved' \in [Budgets -> Int] /\ granted' \in [Calls -> Nat]
    BY <1>1, Numbers
  <2>. QED
    BY <1>1, <2>1, <2>2, <2>3 DEF TypeOK
<1>6. CallInv'
  BY <1>3, <1>4, FreshType DEF CallInv, At
<1>7. \A b \in Budgets : /\ SumFunctionOnSet(granted', CallsOf(b)) = 0
                         /\ SumFunctionOnSet(granted', OtherCalls(b)) = 0
                         /\ SumFunctionOnSet(Charges', CallsOf(b)) = 0
                         /\ SumFunctionOnSet(Charges', OtherCalls(b)) = 0
  <2>1. PICK f : f = Charges'
    OBVIOUS
  <2>2. PICK g : g = granted'
    OBVIOUS
  <2>. QED
    BY <1>4, <2>1, <2>2, NoneHeld
<1>8. ASSUME NEW b \in Budgets
      PROVE  /\ reserved'[b] = SumFunctionOnSet(granted', CallsOf(b))
             /\ AuditedTokens(b) + SumFunctionOnSet(Charges', CallsOf(b)) <= used'[b]
             /\ used'[b] + reserved'[b] <= Ceiling[b] + excess[b]["verification"] + excess[b]["other"]
             /\ audited[b]["other"] + SumFunctionOnSet(Charges', OtherCalls(b))
                  + SumFunctionOnSet(granted', OtherCalls(b))
                    <= Ceiling[b] - FinalReserve + excess[b]["other"]
  <2>1. /\ reserved[b] = SumFunctionOnSet(granted, CallsOf(b))
        /\ AuditedTokens(b) + SumFunctionOnSet(Charges, CallsOf(b)) <= used[b]
        /\ used[b] + reserved[b] <= Ceiling[b] + excess[b]["verification"] + excess[b]["other"]
        /\ audited[b]["other"] + SumFunctionOnSet(Charges, OtherCalls(b))
             + SumFunctionOnSet(granted, OtherCalls(b))
               <= Ceiling[b] - FinalReserve + excess[b]["other"]
    BY DEF ReservedInv, AuditInv, CeilingKept, OtherInv
  <2>2. /\ SumFunctionOnSet(granted, CallsOf(b)) \in Nat
        /\ SumFunctionOnSet(granted, OtherCalls(b)) \in Nat
        /\ SumFunctionOnSet(Charges, CallsOf(b)) \in Nat
        /\ SumFunctionOnSet(Charges, OtherCalls(b)) \in Nat
    BY Amounts
  <2>3. used'[b] = AuditedTokens(b) /\ reserved'[b] = 0
    BY <1>1
  <2>. QED
    BY <1>7, <2>1, <2>2, <2>3, Numbers
<1>. QED
  BY <1>1, <1>5, <1>6, <1>8 DEF ReservedInv, AuditInv, AuditedTokens, CeilingKept, OtherInv

\* Every step keeps the invariant.
LEMMA StepHolds == IInv /\ [Next]_vars => IInv'
<1>. SUFFICES ASSUME IInv, [Next]_vars PROVE IInv'
  OBVIOUS
<1>1. faults \in 0..MaxFaults /\ MaxFaults \in Nat /\ Context \in Nat /\ Usages \subseteq Nat
  BY CallsAssumption, LimitsAssumption DEF IInv, TypeOK
<1>2. ASSUME NEW c \in Calls, Begin(c) PROVE IInv'
  <2>1. CASE BudgetOf[c] \in late
    BY <1>1, <1>2, <2>1, EndHolds DEF Begin, At
  <2>2. CASE BudgetOf[c] \notin late
    BY <1>1, <1>2, <2>2, MoveHolds DEF Begin, At
  <2>. QED
    BY <2>1, <2>2
<1>3. ASSUME NEW c \in Calls, Acquire(c) PROVE IInv'
  BY <1>1, <1>3, MoveHolds DEF Acquire, At
<1>4. ASSUME NEW c \in Calls, SlotTimeout(c) PROVE IInv'
  BY <1>1, <1>4, EndHolds DEF SlotTimeout, At
<1>5. ASSUME NEW c \in Calls, Reject(c) PROVE IInv'
  BY <1>1, <1>5, EndHolds DEF Reject, At
<1>6. ASSUME NEW c \in Calls, Reserve(c) PROVE IInv'
  <2>1. CASE Exhausted(c) /\ End(c, "exhausted") /\ UNCHANGED <<reserved, granted>>
    BY <1>1, <1>6, <2>1, EndHolds DEF Reserve, At, tracker
  <2>2. CASE /\ ~Exhausted(c) /\ Fits(c, Reservation(c))
             /\ reserved' = [reserved EXCEPT ![BudgetOf[c]] = @ + Reservation(c)]
             /\ granted' = [granted EXCEPT ![c] = Reservation(c)]
             /\ call' = [call EXCEPT ![c].pc = "post"]
    BY <1>6, <2>2, ReserveHolds DEF Reserve
  <2>3. CASE call' = [call EXCEPT ![c].pc = "waiting"] /\ UNCHANGED <<reserved, granted>>
    BY <1>1, <1>6, <2>3, MoveHolds DEF Reserve, At, tracker
  <2>. QED
    BY <1>6, <2>1, <2>2, <2>3 DEF Reserve
<1>7. ASSUME NEW c \in Calls, WaitTimeout(c) PROVE IInv'
  BY <1>1, <1>7, EndHolds DEF WaitTimeout, At
<1>8. ASSUME NEW c \in Calls, Answer(c) PROVE IInv'
  <2>1. PICK outcome \in {"value", "invalid"}, usage \in Usages : Settle(c, outcome, usage)
    BY <1>8 DEF Answer
  <2>. QED
    BY <1>1, <1>8, <2>1, SettleHolds DEF Answer, At
<1>9. ASSUME NEW c \in Calls, AnswerUnmeasured(c) PROVE IInv'
  <2>1. PICK outcome \in {"value", "invalid"} : Settle(c, outcome, Context)
    BY <1>9 DEF AnswerUnmeasured
  <2>. QED
    BY <1>1, <1>9, <2>1, SettleHolds DEF AnswerUnmeasured, At
<1>10. ASSUME NEW c \in Calls, TransportFails(c) PROVE IInv'
  <2>1. CASE call[c].attempt = 3
    BY <1>1, <1>10, <2>1, SettleHolds DEF TransportFails, At
  <2>2. CASE call[c].attempt # 3
    BY <1>1, <1>10, <2>2, MoveHolds DEF TransportFails, At
  <2>. QED
    BY <2>1, <2>2
<1>11. ASSUME NEW c \in Calls, Backoff(c) PROVE IInv'
  BY <1>1, <1>11, SettleHolds DEF Backoff, At
<1>12. ASSUME NEW c \in Calls, WriteAudit(c) PROVE IInv'
  <2>1. PICK t : t = Continue(c)
    OBVIOUS
  <2>2. t \in CallType /\ t.charge = 0 /\ t.pc \in {"done", "reserve"}
    BY <1>12, <2>1, ContinueType DEF WriteAudit, IInv
  <2>3. PICK paid : paid = call[c].charge
    OBVIOUS
  <2>4. /\ At(c, {"audit"}) /\ call' = [call EXCEPT ![c] = t]
        /\ audited' = [audited EXCEPT ![BudgetOf[c]][Kind(c)] = @ + paid]
        /\ UNCHANGED <<late, tracker, granted, excess, faults>>
    BY <1>12, <2>1, <2>3 DEF WriteAudit
  <2>5. paid \in {0, call[c].charge} /\ faults' \in 0..MaxFaults /\ TypeOK
    BY <1>1, <2>3, <2>4 DEF IInv
  <2>6. UNCHANGED <<late, tracker, granted, excess>>
    BY <2>4
  <2>. QED
    BY <2>2, <2>4, <2>5, <2>6, AuditRow, AuditHolds
<1>13. ASSUME NEW c \in Calls, AuditFails(c) PROVE IInv'
  <2>1. faults' \in 0..MaxFaults
    BY <1>1, <1>13 DEF AuditFails
  <2>. QED
    BY <1>13, <2>1, EndHolds DEF AuditFails, At
<1>14. ASSUME NEW c \in Calls, Cancel(c) PROVE IInv'
  <2>1. faults' \in 0..MaxFaults /\ late' = late
    BY <1>1, <1>14 DEF Cancel
  <2>2. CASE /\ At(c, {"slot", "reserve", "waiting", "woken"}) /\ End(c, "cancelled")
             /\ UNCHANGED <<tracker, granted, excess, audited>>
    BY <2>1, <2>2, EndHolds DEF At
  <2>3. CASE /\ At(c, {"post", "backoff"}) /\ Settle(c, "cancelled", Context) /\ UNCHANGED audited
    BY <1>1, <2>1, <2>3, SettleHolds
  <2>4. CASE /\ At(c, {"audit"}) /\ End(c, "cancelled")
             /\ \E charge \in {0, call[c].charge} :
                   audited' = [audited EXCEPT ![BudgetOf[c]][Kind(c)] = @ + charge]
             /\ UNCHANGED <<tracker, granted, excess>>
    <3>1. PICK t : t = EndOf("cancelled")
      OBVIOUS
    <3>2. t \in CallType /\ t.charge = 0 /\ t.pc = "done" /\ call' = [call EXCEPT ![c] = t]
      BY <2>4, <3>1, EndType DEF End
    <3>3. PICK paid \in {0, call[c].charge} :
             audited' = [audited EXCEPT ![BudgetOf[c]][Kind(c)] = @ + paid]
      BY <2>4
    <3>4. TypeOK /\ At(c, {"audit"}) /\ UNCHANGED <<late, tracker, granted, excess>>
      BY <2>1, <2>4 DEF IInv
    <3>. QED
      BY <2>1, <3>2, <3>3, <3>4, AuditRow, AuditHolds
  <2>. QED
    BY <1>14, <2>2, <2>3, <2>4 DEF Cancel
<1>15. ASSUME NEW b \in Budgets, Deadline(b) PROVE IInv'
  <2>1. late' \subseteq Budgets /\ UNCHANGED <<used, reserved, audited, call, granted, excess, faults>>
    BY <1>15 DEF Deadline, tracker, IInv, TypeOK
  <2>. QED
    BY <2>1 DEF IInv, TypeOK, CallInv, At, ReservedInv, AuditInv, AuditedTokens, CeilingKept,
                OtherInv, Charges
<1>16. CASE Crash
  BY <1>16, CrashHolds
<1>17. CASE UNCHANGED vars
  <2>1. UNCHANGED <<late, used, reserved, audited, call, granted, excess, faults>>
    BY <1>17 DEF vars, tracker
  <2>. QED
    BY <2>1 DEF IInv, TypeOK, CallInv, At, ReservedInv, AuditInv, AuditedTokens, CeilingKept,
                OtherInv, Charges
<1>. QED
  BY <1>2, <1>3, <1>4, <1>5, <1>6, <1>7, <1>8, <1>9, <1>10, <1>11, <1>12, <1>13, <1>14, <1>15,
     <1>16, <1>17 DEF Next, Proceed
-----------------------------------------------------------------------------
(***************************************************************************)
(* The theorems                                                            *)
(***************************************************************************)

\* The invariant behind the theorems below: what BudgetTracker has promised is
\* what the attempts in flight hold, and what the LLMCall rows record was charged.
THEOREM Invariant == Spec => []IInv
BY InitHolds, StepHolds, PTL DEF Spec

\* Every variable keeps its type: no settlement takes a review's spending below
\* zero (BudgetTracker.settle in budget.py).
THEOREM TypeCorrect == Spec => []TypeOK
<1>1. IInv => TypeOK
  BY DEF IInv
<1>. QED
  BY <1>1, Invariant, PTL

\* reserve() never promises what would take a review beyond its ceiling, however
\* many calls of however many stages reserve, fail, retry, are cancelled or are
\* run again after a crash: only answers that used more than was reserved for
\* them pass it, and by no more than that.
THEOREM CeilingKeptAlways == Spec => []CeilingKept
<1>1. IInv => CeilingKept
  BY DEF IInv
<1>. QED
  BY <1>1, Invariant, PTL

\* A part of a review's other calls owes, and holds, no more than all of them.
LEMMA ProtectedFollows == IInv => ProtectedKept
<1>. SUFFICES ASSUME IInv, NEW b \in Budgets
              PROVE  audited[b]["other"] + Pending(b)
                       + SumFunctionOnSet(granted, InFlight(b) \cap OtherCalls(b))
                         <= Ceiling[b] - FinalReserve + excess[b]["other"]
  BY DEF ProtectedKept
<1>1. TypeOK
  BY DEF IInv
<1>2. /\ OtherCalls(b) \in SUBSET Calls /\ IsFiniteSet(OtherCalls(b))
      /\ \A c \in OtherCalls(b) : granted[c] \in Nat /\ Charges[c] \in Nat
  BY <1>1, Reviewed, Amounts
<1>3. PICK owing : owing = {c \in OtherCalls(b) : At(c, {"audit"})}
  OBVIOUS
<1>4. PICK holding : holding = InFlight(b) \cap OtherCalls(b)
  OBVIOUS
<1>5. owing \in SUBSET OtherCalls(b) /\ holding \in SUBSET OtherCalls(b)
  BY <1>3, <1>4
<1>6. PICK f : f = Charges
  OBVIOUS
<1>7. Pending(b) = SumFunctionOnSet(f, owing)
  BY <1>3, <1>6 DEF Pending, Charges
<1>8. SumFunctionOnSet(f, owing) <= SumFunctionOnSet(f, OtherCalls(b))
  BY <1>2, <1>5, <1>6, SumPart
<1>9. SumFunctionOnSet(granted, holding) <= SumFunctionOnSet(granted, OtherCalls(b))
  BY <1>2, <1>5, SumPart
<1>10. /\ SumFunctionOnSet(f, owing) \in Nat /\ SumFunctionOnSet(granted, holding) \in Nat
       /\ SumFunctionOnSet(f, OtherCalls(b)) \in Nat
       /\ SumFunctionOnSet(granted, OtherCalls(b)) \in Nat
  <2>1. IsFiniteSet(owing) /\ IsFiniteSet(holding)
    BY <1>2, <1>5, FS_Subset
  <2>2. SumFunctionOnSet(f, owing) \in Nat
    BY <1>2, <1>5, <1>6, <2>1, SumType
  <2>3. SumFunctionOnSet(granted, holding) \in Nat
    BY <1>2, <1>5, <2>1, SumType
  <2>. QED
    BY <1>1, <1>6, <2>2, <2>3, Amounts
<1>11. audited[b]["other"] + SumFunctionOnSet(f, OtherCalls(b))
         + SumFunctionOnSet(granted, OtherCalls(b))
           <= Ceiling[b] - FinalReserve + excess[b]["other"]
  BY <1>6 DEF IInv, OtherInv
<1>. QED
  BY <1>1, <1>4, <1>7, <1>8, <1>9, <1>10, <1>11, Numbers

\* The other stages of a review leave verification the tokens reserve() protects
\* for it (final_stage_token_reserve), but for their own excess: with what they
\* settled, what they hold, and what the audit rows bring back after a crash.
THEOREM ProtectedKeptAlways == Spec => []ProtectedKept
BY Invariant, ProtectedFollows, PTL
=============================================================================
