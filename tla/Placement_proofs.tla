--------------------------- MODULE Placement_proofs ---------------------------
(***************************************************************************)
(* Proofs about Fit, Placement and Sizing: the laws of a sum over a finite   *)
(* set, what the sized utilization leaves a host, the types, that            *)
(* overlapping loads never take a node from an object, and that loads that   *)
(* do not overlap keep a node's headroom and its devices; that the KV cache  *)
(* is what the layers hold, that a model a check accepts starts and that     *)
(* what a refusal advises is exact.                                          *)
(***************************************************************************)
EXTENDS Placement, Sizing, FiniteSetTheorems, WellFoundedInduction, TLAPS

-----------------------------------------------------------------------------
(* Sums over finite sets *)

Total(f, S) == LET at(x) == f[x] IN MapThenSumSet(at, S)

First(S) == CHOOSE x \in S : TRUE

(* One step of the fold: what the sum over s is when h is right below it. *)
Level(f, s, h) == IF s = {} THEN 0 ELSE f[First(s)] + h[s \ {First(s)}]

(* h gives every subset of S its sum. *)
Totals(f, S, h) == h = [s \in SUBSET S |-> Level(f, s, h)]

(* What holds of 0, and of n + 1 where it holds of n, holds of every number. *)
LEMMA NatSteps ==
    ASSUME NEW G \in SUBSET Nat, 0 \in G, \A n \in G : n + 1 \in G
    PROVE  G = Nat
<1> DEFINE R == OpToRel(<, Nat)
           B == Nat \ G
<1>1. SUFFICES ASSUME B # {} PROVE FALSE
  OBVIOUS
<1>2. IsWellFoundedOn(R, Nat)
  BY NatLessThanWellFounded
<1> HIDE DEF R
<1>3. PICK m \in B : \A y \in B : ~ (<<y, m>> \in R)
  BY <1>1, <1>2, WFMin
<1>4. m \in Nat /\ m - 1 \in Nat /\ m - 1 < m
  BY <1>3
<1>5. m - 1 \in G
  BY <1>3, <1>4 DEF R, OpToRel
<1>6. QED
  BY <1>3, <1>4, <1>5

(* The sum is what the fold chooses. *)
LEMMA TotalUnfolds ==
    ASSUME NEW S, NEW f
    PROVE  Total(f, S) = (CHOOSE h : Totals(f, S, h))[S]
  BY DEF Total, Totals, Level, First, MapThenSumSet, MapThenFoldSet

(* One element less, and one number less. *)
LEMMA FirstOut ==
    ASSUME NEW S, IsFiniteSet(S), S # {}
    PROVE  /\ First(S) \in S /\ IsFiniteSet(S \ {First(S)})
           /\ Cardinality(S) \in Nat /\ Cardinality(S \ {First(S)}) = Cardinality(S) - 1
<1>1. First(S) \in S
  BY DEF First
<1>2. QED
  BY <1>1, FS_RemoveElement, FS_CardinalityType

(* No element, and no number of them. *)
LEMMA NoneLeft ==
    ASSUME NEW s, IsFiniteSet(s), Cardinality(s) <= 0
    PROVE  s = {}
  BY FS_EmptySet, FS_CardinalityType

(* Some h gives every subset of a finite set its sum, a number. *)
LEMMA TotalsExist ==
    ASSUME NEW T, NEW f \in [T -> Nat], NEW S \in SUBSET T, IsFiniteSet(S)
    PROVE  \E h \in [SUBSET S -> Nat] : Totals(f, S, h)
<1> DEFINE Upto(h, n) == \A s \in SUBSET S : Cardinality(s) <= n => h[s] = Level(f, s, h)
           G == {n \in Nat : \E h \in [SUBSET S -> Nat] : Upto(h, n)}
<1>1. \A s \in SUBSET S : IsFiniteSet(s) /\ Cardinality(s) \in Nat /\ Cardinality(s) <= Cardinality(S)
  BY FS_Subset, FS_CardinalityType
<1>2. 0 \in G
  <2> DEFINE h == [s \in SUBSET S |-> 0]
  <2>1. \A s \in SUBSET S : Cardinality(s) <= 0 => s = {}
    BY <1>1, NoneLeft
  <2>2. h \in [SUBSET S -> Nat] /\ Upto(h, 0)
    BY <2>1 DEF Level
  <2>3. QED
    BY <2>2
<1>3. ASSUME NEW n \in G PROVE n + 1 \in G
  <2>1. PICK h \in [SUBSET S -> Nat] : Upto(h, n)
    BY <1>3
  <2> DEFINE g == [s \in SUBSET S |-> Level(f, s, h)]
  <2>2. ASSUME NEW s \in SUBSET S, s # {}
        PROVE  /\ First(s) \in S /\ s \ {First(s)} \in SUBSET S
               /\ Cardinality(s) <= n + 1 => Cardinality(s \ {First(s)}) <= n
    <3>1. /\ First(s) \in s /\ Cardinality(s) \in Nat
          /\ Cardinality(s \ {First(s)}) = Cardinality(s) - 1
      BY <1>1, <2>2, FirstOut
    <3>2. n \in Nat
      BY <1>3
    <3>3. QED
      BY <3>1, <3>2
  <2>3. g \in [SUBSET S -> Nat]
    <3>1. \A s \in SUBSET S : Level(f, s, h) \in Nat
      <4>1. ASSUME NEW s \in SUBSET S, s # {} PROVE f[First(s)] + h[s \ {First(s)}] \in Nat
        <5>1. First(s) \in T /\ s \ {First(s)} \in SUBSET S
          BY <2>2, <4>1
        <5>2. f[First(s)] \in Nat /\ h[s \ {First(s)}] \in Nat
          BY <5>1
        <5>3. QED
          BY <5>2
      <4>2. QED
        BY <4>1 DEF Level
    <3>2. QED
      BY <3>1
  <2>4. ASSUME NEW s \in SUBSET S, Cardinality(s) <= n + 1 PROVE g[s] = Level(f, s, g)
    <3>1. CASE s = {}
      BY <3>1 DEF Level
    <3>2. CASE s # {}
      <4> DEFINE r == s \ {First(s)}
      <4>1. r \in SUBSET S /\ Cardinality(r) <= n
        BY <2>2, <2>4, <3>2
      <4>2. h[r] = g[r]
        BY <2>1, <4>1
      <4>3. QED
        BY <3>2, <4>2 DEF Level
    <3>3. QED
      BY <3>1, <3>2
  <2> HIDE DEF g
  <2>5. Upto(g, n + 1)
    BY <2>4
  <2>6. n + 1 \in Nat
    BY <1>3
  <2> HIDE DEF Upto
  <2>7. QED
    BY <2>3, <2>5, <2>6
<1> HIDE DEF G
<1>4. G = Nat
  BY <1>2, <1>3, NatSteps DEF G
<1>5. PICK h \in [SUBSET S -> Nat] : Upto(h, Cardinality(S))
  BY <1>1, <1>4 DEF G
<1>6. \A s \in SUBSET S : h[s] = Level(f, s, h)
  BY <1>1, <1>5
<1>7. QED
  BY <1>6 DEF Totals

(* Only one does, whatever the set it is part of. *)
LEMMA TotalsAgree ==
    ASSUME NEW f, NEW T, IsFiniteSet(T), NEW S \in SUBSET T, NEW h, NEW k,
           Totals(f, S, h), Totals(f, T, k)
    PROVE  \A s \in SUBSET S : h[s] = k[s]
<1> DEFINE G == {n \in Nat : \A s \in SUBSET S : Cardinality(s) <= n => h[s] = k[s]}
<1>1. \A s \in SUBSET S : IsFiniteSet(s) /\ Cardinality(s) \in Nat /\ s \in SUBSET T
  BY FS_Subset, FS_CardinalityType
<1>2. \A s \in SUBSET S : h[s] = Level(f, s, h) /\ k[s] = Level(f, s, k)
  BY <1>1 DEF Totals
<1>3. 0 \in G
  <2>1. \A s \in SUBSET S : Cardinality(s) <= 0 => s = {}
    BY <1>1, NoneLeft
  <2>2. QED
    BY <1>2, <2>1 DEF Level
<1>4. ASSUME NEW n \in G PROVE n + 1 \in G
  <2>1. ASSUME NEW s \in SUBSET S, Cardinality(s) <= n + 1 PROVE h[s] = k[s]
    <3>1. CASE s = {}
      BY <1>2, <3>1 DEF Level
    <3>2. CASE s # {}
      <4> DEFINE r == s \ {First(s)}
      <4>1. r \in SUBSET S /\ Cardinality(r) <= n
        BY <1>1, <1>4, <2>1, <3>2, FirstOut
      <4>2. h[r] = k[r]
        BY <1>4, <4>1
      <4>3. QED
        BY <1>2, <3>2, <4>2 DEF Level
    <3>3. QED
      BY <3>1, <3>2
  <2>2. QED
    BY <2>1, <1>4
<1> HIDE DEF G
<1>5. G = Nat
  BY <1>3, <1>4, NatSteps DEF G
<1>6. QED
  BY <1>1, <1>5 DEF G

(* A sum over a finite set is a number, 0 over none, and splits at the element
   the fold takes first. *)
LEMMA TotalType ==
    ASSUME NEW T, NEW f \in [T -> Nat], NEW S \in SUBSET T, IsFiniteSet(S)
    PROVE  /\ Total(f, S) \in Nat
           /\ S = {} => Total(f, S) = 0
           /\ S # {} => Total(f, S) = f[First(S)] + Total(f, S \ {First(S)})
<1> DEFINE h(R) == CHOOSE k : Totals(f, R, k)
           r == S \ {First(S)}
<1>1. IsFiniteSet(r) /\ r \in SUBSET T /\ r \in SUBSET S
  BY FS_Subset
<1>2. PICK g \in [SUBSET S -> Nat] : Totals(f, S, g)
  BY TotalsExist
<1>3. Totals(f, S, h(S))
  BY <1>2
<1>4. Totals(f, r, h(r))
  BY <1>1, TotalsExist
<1>5. Total(f, S) = h(S)[S] /\ Total(f, r) = h(r)[r]
  BY TotalUnfolds
<1> HIDE DEF h, r
<1>6. h(S)[S] = g[S]
  BY <1>2, <1>3, TotalsAgree
<1>7. h(S)[r] = h(r)[r]
  BY <1>1, <1>3, <1>4, TotalsAgree
<1>8. h(S)[S] = Level(f, S, h(S))
  BY <1>3 DEF Totals
<1>9. QED
  BY <1>2, <1>5, <1>6, <1>7, <1>8 DEF Level, r

(* A sum splits at any element. *)
LEMMA TotalSplits ==
    ASSUME NEW T, NEW f \in [T -> Nat], NEW S \in SUBSET T, IsFiniteSet(S), NEW a \in S
    PROVE  Total(f, S) = f[a] + Total(f, S \ {a})
<1> DEFINE Splits(s) == \A x \in s : Total(f, s) = f[x] + Total(f, s \ {x})
           G == {n \in Nat : \A s \in SUBSET S : Cardinality(s) <= n => Splits(s)}
<1>1. \A s \in SUBSET S : IsFiniteSet(s) /\ Cardinality(s) \in Nat /\ s \in SUBSET T
  BY FS_Subset, FS_CardinalityType
<1>2. 0 \in G
  BY <1>1, FS_EmptySet
<1>3. ASSUME NEW n \in G PROVE n + 1 \in G
  <2>1. ASSUME NEW s \in SUBSET S, Cardinality(s) <= n + 1, NEW x \in s
        PROVE  Total(f, s) = f[x] + Total(f, s \ {x})
    <3> DEFINE c == First(s)
    <3>1. c \in s /\ s \ {c} \in SUBSET S /\ Cardinality(s \ {c}) <= n
      BY <1>1, <1>3, <2>1, FirstOut
    <3>2. s \ {x} \in SUBSET S /\ Cardinality(s \ {x}) <= n
      BY <1>1, <1>3, <2>1, FS_RemoveElement
    <3>3. Total(f, s) = f[c] + Total(f, s \ {c})
      BY <1>1, <2>1, TotalType
    <3> HIDE DEF c
    <3>4. CASE x = c
      BY <3>3, <3>4
    <3>5. CASE x # c
      <4> DEFINE r == (s \ {c}) \ {x}
      <4>1. Total(f, s \ {c}) = f[x] + Total(f, r)
        BY <1>3, <2>1, <3>1, <3>5
      <4>2. Total(f, s \ {x}) = f[c] + Total(f, (s \ {x}) \ {c})
        BY <1>3, <3>1, <3>2, <3>5
      <4>3. (s \ {x}) \ {c} = r
        OBVIOUS
      <4>4. Total(f, r) \in Nat /\ f[x] \in Nat /\ f[c] \in Nat
        BY <1>1, <2>1, <3>1, TotalType
      <4> HIDE DEF r
      <4>5. QED
        BY <3>3, <4>1, <4>2, <4>3, <4>4
    <3>6. QED
      BY <3>4, <3>5
  <2>2. QED
    BY <2>1, <1>3
<1> HIDE DEF G
<1>4. G = Nat
  BY <1>2, <1>3, NatSteps DEF G
<1>5. S \in SUBSET S /\ Cardinality(S) \in Nat
  BY <1>1
<1>6. QED
  BY <1>4, <1>5 DEF G

(* More, and larger, terms sum to no less. *)
LEMMA TotalGrows ==
    ASSUME NEW T, NEW f \in [T -> Nat], NEW g \in [T -> Nat],
           NEW S \in SUBSET T, IsFiniteSet(S), NEW R \in SUBSET S, \A x \in R : f[x] <= g[x]
    PROVE  Total(f, R) <= Total(g, S)
<1> DEFINE Grows(s) == Total(f, s \cap R) <= Total(g, s)
           G == {n \in Nat : \A s \in SUBSET S : Cardinality(s) <= n => Grows(s)}
<1>1. \A s \in SUBSET S : /\ IsFiniteSet(s) /\ Cardinality(s) \in Nat /\ s \in SUBSET T
                          /\ s \cap R \in SUBSET T /\ IsFiniteSet(s \cap R)
  BY FS_Subset, FS_CardinalityType
<1>2. \A s \in SUBSET S : s = {} => Grows(s)
  <2>1. Total(f, {}) = 0 /\ Total(g, {}) = 0
    BY TotalType, FS_EmptySet
  <2>2. QED
    BY <2>1
<1>3. 0 \in G
  <2>1. \A s \in SUBSET S : Cardinality(s) <= 0 => s = {}
    BY <1>1, NoneLeft
  <2>2. QED
    BY <1>2, <2>1
<1>4. ASSUME NEW n \in G PROVE n + 1 \in G
  <2>1. ASSUME NEW s \in SUBSET S, Cardinality(s) <= n + 1, s # {} PROVE Grows(s)
    <3> DEFINE c == First(s)
               r == s \ {c}
    <3>0. IsFiniteSet(s) /\ s \in SUBSET T /\ n \in Nat
      BY <1>1, <1>4
    <3>a. c \in s /\ Cardinality(s) \in Nat /\ Cardinality(r) = Cardinality(s) - 1
      BY <2>1, <3>0, FirstOut
    <3>1. c \in s /\ r \in SUBSET S /\ Cardinality(r) <= n
      BY <2>1, <3>0, <3>a
    <3>2. Total(f, r \cap R) <= Total(g, r)
      BY <1>4, <3>1
    <3>3. Total(g, s) = g[c] + Total(g, r)
      BY <2>1, <3>0, TotalType
    <3>4. Total(g, r) \in Nat /\ Total(f, r \cap R) \in Nat /\ g[c] \in Nat /\ f[c] \in Nat
      BY <1>1, <3>1, TotalType
    <3>5. c \in R => Total(f, s \cap R) = f[c] + Total(f, r \cap R)
      <4>1. (s \cap R) \ {c} = r \cap R
        OBVIOUS
      <4> HIDE DEF c, r
      <4>2. QED
        BY <1>1, <3>1, <4>1, TotalSplits
    <3>6. c \notin R => s \cap R = r \cap R
      OBVIOUS
    <3>7. c \in R => f[c] <= g[c]
      OBVIOUS
    <3> HIDE DEF c, r
    <3>8. QED
      BY <3>2, <3>3, <3>4, <3>5, <3>6, <3>7
  <2>2. QED
    BY <1>2, <2>1, <1>4
<1> HIDE DEF G
<1>5. G = Nat
  BY <1>3, <1>4, NatSteps DEF G
<1>6. S \in SUBSET S /\ Cardinality(S) \in Nat /\ S \cap R = R
  BY <1>1
<1>7. QED
  BY <1>5, <1>6 DEF G

(* What is said of one number more. *)
LEMMA NextTimes ==
    ASSUME NEW n \in Nat, NEW k \in Nat PROVE (n + 1) * k = k + n * k
  OBVIOUS

(* Equal terms sum to a product. *)
LEMMA TotalOfEqual ==
    ASSUME NEW T, NEW f \in [T -> Nat], NEW k \in Nat, NEW S \in SUBSET T, IsFiniteSet(S),
           \A x \in S : f[x] = k
    PROVE  Total(f, S) = Cardinality(S) * k
<1> DEFINE Equal(s) == Total(f, s) = Cardinality(s) * k
           G == {n \in Nat : \A s \in SUBSET S : Cardinality(s) = n => Equal(s)}
<1>1. \A s \in SUBSET S : IsFiniteSet(s) /\ Cardinality(s) \in Nat /\ s \in SUBSET T
  BY FS_Subset, FS_CardinalityType
<1>2. 0 \in G
  <2>1. ASSUME NEW s \in SUBSET S, Cardinality(s) = 0 PROVE Equal(s)
    <3>1. s = {}
      BY <1>1, <2>1, NoneLeft
    <3>2. Total(f, s) = 0
      BY <1>1, <3>1, TotalType
    <3> QED BY <2>1, <3>2
  <2> QED BY <2>1
<1>3. ASSUME NEW n \in G PROVE n + 1 \in G
  <2>1. ASSUME NEW s \in SUBSET S, Cardinality(s) = n + 1 PROVE Equal(s)
    <3> DEFINE c == First(s)
    <3>0. n \in Nat /\ s # {}
      BY <1>3, <2>1, FS_EmptySet
    <3>1. c \in s /\ s \ {c} \in SUBSET S /\ Cardinality(s \ {c}) = n
      BY <1>1, <2>1, <3>0, FirstOut
    <3>2. Total(f, s) = f[c] + Total(f, s \ {c})
      BY <1>1, <3>0, TotalType
    <3> HIDE DEF c
    <3>3. f[c] = k /\ Total(f, s \ {c}) = n * k
      BY <1>3, <3>1
    <3>4. (n + 1) * k = k + n * k
      BY <3>0, NextTimes
    <3> QED BY <2>1, <3>2, <3>3, <3>4
  <2>2. n + 1 \in Nat
    BY <1>3
  <2> QED BY <2>1, <2>2
<1> HIDE DEF G
<1>4. G = Nat
  BY <1>2, <1>3, NatSteps DEF G
<1> QED BY <1>1, <1>4 DEF G

(* A sum is that of two parts. *)
LEMMA TotalOfParts ==
    ASSUME NEW T, NEW f \in [T -> Nat], NEW S \in SUBSET T, IsFiniteSet(S), NEW A \in SUBSET S
    PROVE  Total(f, S) = Total(f, A) + Total(f, S \ A)
<1> DEFINE Halves(s) == Total(f, s) = Total(f, s \cap A) + Total(f, s \ A)
           G == {n \in Nat : \A s \in SUBSET S : Cardinality(s) = n => Halves(s)}
<1>1. \A s \in SUBSET S : /\ IsFiniteSet(s) /\ Cardinality(s) \in Nat /\ s \in SUBSET T
                          /\ Total(f, s) \in Nat
  BY FS_Subset, FS_CardinalityType, TotalType
<1>2. 0 \in G
  <2>1. ASSUME NEW s \in SUBSET S, Cardinality(s) = 0 PROVE Halves(s)
    <3>1. s = {} /\ s \cap A = {} /\ s \ A = {}
      BY <1>1, <2>1, NoneLeft
    <3>2. Total(f, {}) = 0
      BY TotalType, FS_EmptySet
    <3> QED BY <3>1, <3>2
  <2> QED BY <2>1
<1>3. ASSUME NEW n \in G PROVE n + 1 \in G
  <2>1. ASSUME NEW s \in SUBSET S, Cardinality(s) = n + 1 PROVE Halves(s)
    <3> DEFINE c == First(s)
    <3>0. n \in Nat /\ s # {}
      BY <1>3, <2>1, FS_EmptySet
    <3>1. c \in s /\ s \ {c} \in SUBSET S /\ Cardinality(s \ {c}) = n
      BY <1>1, <2>1, <3>0, FirstOut
    <3>2. Total(f, s) = f[c] + Total(f, s \ {c})
      BY <1>1, <3>0, TotalType
    <3> HIDE DEF c
    <3>3. Total(f, s \ {c}) = Total(f, (s \ {c}) \cap A) + Total(f, (s \ {c}) \ A)
      BY <1>3, <3>1
    <3>4. /\ s \cap A \in SUBSET S /\ s \ A \in SUBSET S /\ f[c] \in Nat
          /\ (s \ {c}) \cap A \in SUBSET S /\ (s \ {c}) \ A \in SUBSET S
      BY <3>1
    <3>5. CASE c \in A
      <4>1. (s \cap A) \ {c} = (s \ {c}) \cap A /\ (s \ {c}) \ A = s \ A /\ c \in s \cap A
        BY <3>1, <3>5
      <4>2. Total(f, s \cap A) = f[c] + Total(f, (s \ {c}) \cap A)
        BY <1>1, <3>4, <4>1, TotalSplits
      <4> QED BY <1>1, <3>2, <3>3, <3>4, <4>1, <4>2
    <3>6. CASE c \notin A
      <4>1. (s \ A) \ {c} = (s \ {c}) \ A /\ (s \ {c}) \cap A = s \cap A /\ c \in s \ A
        BY <3>1, <3>6
      <4>2. Total(f, s \ A) = f[c] + Total(f, (s \ {c}) \ A)
        BY <1>1, <3>4, <4>1, TotalSplits
      <4> QED BY <1>1, <3>2, <3>3, <3>4, <4>1, <4>2
    <3> QED BY <3>5, <3>6
  <2>2. n + 1 \in Nat
    BY <1>3
  <2> QED BY <2>1, <2>2
<1> HIDE DEF G
<1>4. G = Nat
  BY <1>2, <1>3, NatSteps DEF G
<1>5. S \cap A = A
  OBVIOUS
<1> QED BY <1>1, <1>4, <1>5 DEF G

(* A term that may not be there adds what it is, or nothing. *)
LEMMA TotalWith ==
    ASSUME NEW T, NEW f \in [T -> Nat], NEW S \in SUBSET T, IsFiniteSet(S), NEW a, NEW there \in BOOLEAN,
           there => a \in T \ S
    PROVE  LET R == S \cup (IF there THEN {a} ELSE {}) IN
             R \in SUBSET T /\ IsFiniteSet(R) /\ Total(f, R) = Total(f, S) + (IF there THEN f[a] ELSE 0)
<1>0. Total(f, S) \in Nat
  BY TotalType
<1>1. CASE there
  <2>1. S \cup {a} \in SUBSET T /\ IsFiniteSet(S \cup {a}) /\ a \in S \cup {a} /\ (S \cup {a}) \ {a} = S
    BY <1>1, FS_AddElement
  <2>2. Total(f, S \cup {a}) = f[a] + Total(f, S)
    BY <2>1, TotalSplits
  <2>3. f[a] \in Nat
    BY <1>1
  <2> QED BY <1>0, <1>1, <2>1, <2>2, <2>3
<1>2. CASE ~there
  <2>1. S \cup {} = S
    OBVIOUS
  <2> QED BY <1>0, <1>2, <2>1
<1> QED BY <1>1, <1>2

-----------------------------------------------------------------------------
(* The claim of vLLM *)

(* Rounding up covers the need. *)
LEMMA CeilCovers ==
    ASSUME NEW a \in Nat, NEW b \in Nat \ {0}
    PROVE  CeilDiv(a, b) \in Nat /\ CeilDiv(a, b) * b >= a
<1>1. /\ (a + b - 1) \div b \in Int
      /\ (a + b - 1) = (b * ((a + b - 1) \div b)) + ((a + b - 1) % b)
      /\ ((a + b - 1) % b) \in 0..(b - 1)
  OBVIOUS
<1>2. (a + b - 1) \div b >= 0
  BY <1>1
<1>3. b * ((a + b - 1) \div b) = ((a + b - 1) \div b) * b
  BY <1>1
<1>4. QED
  BY <1>1, <1>2, <1>3 DEF CeilDiv

(* CeilDiv is the least that covers. *)
LEMMA CeilLeast ==
    ASSUME NEW a \in Nat, NEW b \in Nat \ {0}, NEW u \in Nat, u < CeilDiv(a, b)
    PROVE  u * b < a
<1> DEFINE c == (a + b - 1) \div b
<1>1. c \in Int /\ (a + b - 1) = b * c + ((a + b - 1) % b) /\ ((a + b - 1) % b) \in 0..(b - 1)
  OBVIOUS
<1>2. u <= c - 1
  BY <1>1 DEF CeilDiv
<1> HIDE DEF c
<1>3. b * c <= a + b - 1
  BY <1>1
<1>4. u * b <= (c - 1) * b
  BY <1>1, <1>2
<1>5. (c - 1) * b = b * c - b
  BY <1>1
<1>6. u * b \in Int /\ b * c \in Int
  BY <1>1
<1> QED BY <1>3, <1>4, <1>5, <1>6

(* CeilDiv grows with what it divides. *)
LEMMA CeilGrows ==
    ASSUME NEW a \in Nat, NEW d \in Nat, a <= d, NEW b \in Nat \ {0}
    PROVE  CeilDiv(a, b) <= CeilDiv(d, b)
<1>1. CeilDiv(a, b) \in Nat /\ CeilDiv(d, b) \in Nat /\ CeilDiv(d, b) * b >= d
  BY CeilCovers
<1>2. SUFFICES ASSUME CeilDiv(d, b) < CeilDiv(a, b) PROVE FALSE
  BY <1>1
<1>3. CeilDiv(d, b) * b < a
  BY <1>1, <1>2, CeilLeast
<1>4. CeilDiv(d, b) * b \in Nat
  BY <1>1
<1> QED BY <1>1, <1>3, <1>4

(* A product grows with a factor. *)
LEMMA TimesGrows ==
    ASSUME NEW a \in Nat, NEW d \in Nat, a <= d, NEW k \in Nat
    PROVE  a * k <= d * k
  OBVIOUS

(* The facts of a node as the fit check reads them (nodeBudget). *)
LEMMA NodeTypes ==
    ASSUME NEW n \in Node
    PROVE  /\ NodeFact[n] \in NodeFacts
           /\ Memory(n) \in Nat \ {0}
  BY FactAssumption DEF Memory, NodeFacts

(* The facts of a preset as the fit check reads them (servingPreset). *)
LEMMA PresetTypes ==
    ASSUME NEW p \in Preset
    PROVE  /\ PresetFact[p] \in PresetFacts
           /\ PresetFact[p].util \in 1..100 /\ Overhead(p) \in Nat /\ Gpus(p) \in Nat \ {0}
           /\ PresetFact[p].declared \in Nat /\ PresetFact[p].hub \in Nat
  BY FactAssumption DEF PresetFacts, Overhead, Gpus

(* The smallest sized utilization claims what is needed. *)
LEMMA SizedCovers ==
    ASSUME NEW n \in Node, NEW need \in Nat
    PROVE  Sized(need, n) \in Nat /\ Claim(Sized(need, n), n) >= need
<1> DEFINE m == Memory(n)
           s == CeilDiv(need * 100, m)
<1>1. m \in Nat \ {0} /\ need * 100 \in Nat
  BY NodeTypes
<1>2. s \in Nat /\ s * m >= need * 100
  BY <1>1, CeilCovers
<1>3. s * m \in Nat
  BY <1>1, <1>2
<1> HIDE DEF s, m
<1>4. \A x \in Nat : x >= need * 100 => x \div 100 >= need
  OBVIOUS
<1>5. (s * m) \div 100 >= need
  BY <1>2, <1>3, <1>4
<1>6. QED
  BY <1>2, <1>5 DEF Sized, Claim, s, m

(* unifiedClaimOn, sized: on a unified-memory node a utilization the check
   accepts claims what the model needs and no more than the node leaves. *)
THEOREM UtilizationFits ==
    ASSUME NEW p \in Preset, NEW n \in Node, NEW reserved \in Nat, NEW need \in Nat,
           Unified(n), Utilization(p, n, reserved, need) > 0
    PROVE  /\ need <= Claim(Utilization(p, n, reserved, need), n)
           /\ Claim(Utilization(p, n, reserved, need), n) <= Available(n, reserved)
<1>1. Claim(Sized(need, n), n) >= need
  BY SizedCovers
<1>2. Sized(need, n) \in Nat
  BY SizedCovers
<1>3. Claim(PresetFact[p].util, n) \in Int /\ Claim(Sized(need, n), n) \in Int
  BY NodeTypes, PresetTypes, <1>2 DEF Claim
<1>a. Available(n, reserved) \in Int
  BY NodeTypes, HeadroomAssumption DEF Available, AtLeast, AtMost, NodeFacts
<1> DEFINE U == PresetFact[p].util
           S == Sized(need, n)
           L == Available(n, reserved)
           small == Claim(U, n) > L /\ S \in 1..100 /\ Claim(S, n) <= L
<1>4. CASE need <= Claim(U, n) /\ Claim(U, n) <= L
  <2>1. Utilization(p, n, reserved, need) = U
    BY <1>3, <1>a, <1>4 DEF Utilization
  <2>2. QED
    BY <2>1, <1>4
<1>5. CASE ~(need <= Claim(U, n) /\ Claim(U, n) <= L) /\ small
  <2>1. Utilization(p, n, reserved, need) = S
    BY <1>5 DEF Utilization
  <2>2. QED
    BY <2>1, <1>1, <1>5, <1>3
<1>6. CASE ~(need <= Claim(U, n) /\ Claim(U, n) <= L) /\ ~small
  BY <1>6 DEF Utilization
<1>7. QED
  BY <1>4, <1>5, <1>6

-----------------------------------------------------------------------------
(* Types of the fit check *)

(* devicesOn finds a power of two that holds the share: the doubling ends. *)
LEMMA DevicesOnType ==
    ASSUME NEW p \in Preset, NEW n \in Node, NEW share \in Nat
    PROVE  DevicesOn(p, n, share) \in Nat \ {0}
<1> DEFINE S == {d \in Powers : d * NodeFact[n].gpuMem >= share \/ d = 16}
<1>1. NodeFact[n] \in NodeFacts /\ Gpus(p) \in Nat \ {0}
  BY NodeTypes, PresetTypes
<1>2. \E d \in S : \A e \in S : d <= e
  <2>1. S \subseteq Powers /\ 16 \in S
    BY DEF Powers
  <2>2. CASE 1 \in S
    BY <2>1, <2>2 DEF Powers
  <2>3. CASE 1 \notin S /\ 2 \in S
    BY <2>1, <2>3 DEF Powers
  <2>4. CASE 1 \notin S /\ 2 \notin S /\ 4 \in S
    BY <2>1, <2>4 DEF Powers
  <2>5. CASE 1 \notin S /\ 2 \notin S /\ 4 \notin S /\ 8 \in S
    BY <2>1, <2>5 DEF Powers
  <2>6. CASE 1 \notin S /\ 2 \notin S /\ 4 \notin S /\ 8 \notin S
    BY <2>1, <2>6 DEF Powers
  <2>7. QED
    BY <2>2, <2>3, <2>4, <2>5, <2>6
<1>3. Min(S) \in S
  BY <1>2 DEF Min
<1>4. Min(S) \in Nat \ {0}
  BY <1>3 DEF Powers
<1>5. QED
  BY <1>1, <1>4 DEF DevicesOn, NodeFacts

(* A utilization is in hundredths, 0 where none fits (unifiedClaimOn, sized). *)
LEMMA UtilizationType ==
    ASSUME NEW p \in Preset, NEW n \in Node, NEW reserved, NEW need
    PROVE  Utilization(p, n, reserved, need) \in 0..100
  BY PresetTypes DEF Utilization

(* A refusal is a verdict (placeModel without a candidate). *)
LEMMA RefusedType == Refused \in Verdict
  BY NoneAssumption DEF Refused, Verdict

(* The pool named for a node is a pool, or none (placeModel). *)
LEMMA PoolOfType == \A n \in Node : PoolOf(n) \in Pool \cup {NoPool}
  BY NodeTypes, NoneAssumption DEF PoolOf, NodeFacts

(* A view as the fit check reads it; what it reserves may be anything. *)
LEMMA JudgeNodeType ==
    ASSUME NEW p \in Preset, NEW w \in Nat, NEW n \in Node, NEW v
    PROVE  JudgeNode(p, w, n, v) \in Verdict
<1>1. w + Overhead(p) \in Nat
  BY PresetTypes
<1>2. DevicesOn(p, n, w + Overhead(p)) \in Nat
  BY <1>1, DevicesOnType
<1>3. Utilization(p, n, v.reserved[n], w + Overhead(p)) \in 0..100
  BY UtilizationType
<1>4. QED
  BY <1>2, <1>3, PoolOfType DEF JudgeNode, Verdict

(* placeOnPool answers a verdict. *)
LEMMA PlaceOnPoolType ==
    ASSUME NEW p \in Preset, NEW w \in Nat, NEW k \in Pool \cup {NoPool}
    PROVE  PlaceOnPool(p, w, k) \in Verdict
  BY PresetTypes DEF PlaceOnPool, Verdict

(* launchingPool names pools. *)
LEMMA LaunchingType ==
    ASSUME NEW p, NEW w, NEW v
    PROVE  LaunchingPools(p, w, v) \subseteq Pool
  BY DEF LaunchingPools

(* placeModel answers verdicts whenever the nodes of the view are nodes. *)
LEMMA PlaceModelType ==
    ASSUME NEW p \in Preset, NEW w \in Nat, NEW explicit, NEW v,
           v.eligible \subseteq Node, v.starting \subseteq Node
    PROVE  PlaceModel(p, w, explicit, v) \subseteq Verdict
<1> DEFINE C == Candidates(explicit, v)
           K == LaunchingPools(p, w, v)
           onPools == {PlaceOnPool(p, w, k) : k \in K}
<1>1. C \subseteq Node /\ ChooseNode(p, w, C, v) \subseteq C
  BY DEF Candidates, ChooseNode
<1>2. onPools \subseteq Verdict
  BY LaunchingType, PlaceOnPoolType
<1>3. \A n \in Node : PlaceOnPool(p, w, PoolOf(n)) \in Verdict
  BY PoolOfType, PlaceOnPoolType
<1>4. PlaceOnPool(p, w, Pinning) \in Verdict
  BY NoneAssumption, PlaceOnPoolType
<1>5. Waiting(p, w, v) \subseteq Verdict
  BY <1>2, <1>3, <1>4, RefusedType DEF Waiting
<1>6. \A n \in Node : JudgeNode(p, w, n, v) \in Verdict
  BY JudgeNodeType
<1>7. QED
  BY <1>1, <1>2, <1>5, <1>6, RefusedType DEF PlaceModel

(* judgeCopies answers verdicts: the pool and the utilization it rewrites stay
   in range. *)
LEMMA JudgeCopiesType ==
    ASSUME NEW p \in Preset, NEW w \in Nat, NEW nodes \in SUBSET Node, NEW v,
           v.eligible \subseteq Node, v.starting \subseteq Node
    PROVE  JudgeCopies(p, w, nodes, v) \subseteq Verdict
<1> DEFINE each == UNION {PlaceModel(p, w, n, v) : n \in nodes}
<1>1. each \subseteq Verdict
  BY PlaceModelType
<1>2. Least({i.util : i \in each}) \subseteq 0..100
  BY <1>1 DEF Least, Verdict
<1>3. ASSUME NEW j \in each, NEW u \in Least({i.util : i \in each}), NEW k \in {j.pool, NoPool}
      PROVE  [j EXCEPT !.pool = k, !.util = u] \in Verdict
  <2>1. j \in Verdict /\ u \in 0..100
    BY <1>1, <1>2
  <2>2. k \in Pool \cup {NoPool}
    BY <2>1 DEF Verdict
  <2>3. QED
    BY <2>1, <2>2 DEF Verdict
<1> DEFINE several == Cardinality({j.pool : j \in each}) > 1
           U == Least({i.util : i \in each})
           from(j) == {[j EXCEPT !.pool = IF several THEN NoPool ELSE @, !.util = u] : u \in U}
           all == UNION {from(j) : j \in each}
<1> HIDE DEF several
<1>4. \A j \in each : from(j) \subseteq Verdict
  <2>1. SUFFICES ASSUME NEW j \in each, NEW u \in U
                 PROVE  [j EXCEPT !.pool = IF several THEN NoPool ELSE @, !.util = u] \in Verdict
    OBVIOUS
  <2>2. CASE several
    BY <1>3, <2>2
  <2>3. CASE ~several
    BY <1>3, <2>3
  <2>4. QED
    BY <2>2, <2>3
<1>5. JudgeCopies(p, w, nodes, v) \in {{Refused}, all}
  BY DEF JudgeCopies, several
<1>6. all \subseteq Verdict
  <2> HIDE DEF from
  <2>1. QED
    BY <1>4
<1> HIDE DEF all
<1>7. QED
  BY <1>5, <1>6, RefusedType

(* judgeSplit answers verdicts for any nodes of a link. *)
LEMMA JudgeSplitType ==
    ASSUME NEW p \in Preset, NEW w \in Nat, NEW nodes \in SUBSET Node, nodes # {}, NEW v
    PROVE  JudgeSplit(p, w, nodes, v) \subseteq Verdict
<1> DEFINE share == CeilDiv(w, Cardinality(nodes)) + Overhead(p)
           u(n) == Utilization(p, n, v.reserved[n], share)
           D == Most({DevicesOn(p, n, share) : n \in nodes})
           U == Least({u(n) : n \in nodes})
<1>1. IsFiniteSet(nodes) /\ Cardinality(nodes) \in Nat \ {0}
  BY SetAssumption, FS_Subset, FS_CardinalityType, FS_EmptySet
<1>2. share \in Nat
  BY <1>1, CeilCovers, PresetTypes
<1>3. D \subseteq Nat
  BY <1>2, DevicesOnType DEF Most
<1>4. U \subseteq 0..100
  BY UtilizationType DEF Least
<1>5. \A n \in nodes, s \in D \X U :
         [fits |-> TRUE, node |-> n, pool |-> Pinning, devices |-> s[1], util |-> s[2]] \in Verdict
  BY <1>3, <1>4, NoneAssumption DEF Verdict
<1> DEFINE fit(n, s) == [fits |-> TRUE, node |-> n, pool |-> Pinning, devices |-> s[1], util |-> s[2]]
<1>6. ASSUME NEW j \in JudgeSplit(p, w, nodes, v)
      PROVE  j = Refused \/ \E n \in nodes : \E s \in D \X U : j = fit(n, s)
  <2> DEFINE able(d) == /\ nodes \subseteq v.eligible
                        /\ \A n \in nodes : /\ share <= Free(n, v)
                                            /\ u(n) > 0
                                            /\ NodeFact[n].alloc = 0 \/ d <= NodeFact[n].alloc
             all == {s \in D \X U : able(s[1])}
             fits(n) == {fit(n, s) : s \in all}
  <2>1. JudgeSplit(p, w, nodes, v) = IF all = {} THEN {Refused} ELSE UNION {fits(n) : n \in nodes}
    BY DEF JudgeSplit
  <2> HIDE DEF D, U, able, fit
  <2>2. \A n \in nodes : \A i \in fits(n) : \E s \in D \X U : i = fit(n, s)
    OBVIOUS
  <2> HIDE DEF fits, all
  <2>3. j = Refused \/ \E n \in nodes : j \in fits(n)
    BY <1>6, <2>1
  <2>4. QED
    BY <2>2, <2>3
<1> HIDE DEF share, D, U
<1>7. QED
  BY <1>5, <1>6, RefusedType

-----------------------------------------------------------------------------
(* Types *)

(* Serving targets and starting nodes are nodes (Backend.nodes). *)
LEMMA SeenType ==
    ASSUME NEW p PROVE Seen(p).eligible \subseteq Node /\ Seen(p).starting \subseteq Node
  BY DEF Seen

(* placeSplit tries sets of nodes (splitLinks). *)
LEMMA SplitNodesType ==
    ASSUME NEW p, NEW w, NEW asked \in SUBSET Node
    PROVE  SplitNodes(p, w, asked) \subseteq SUBSET Node
<1> DEFINE tried == IF asked = {} THEN Link ELSE {asked} \cap UNION {SUBSET l : l \in Link}
           fitting == {l \in tried : \E j \in JudgeSplit(p, w, l, Seen(p)) : j.fits}
<1>1. tried \subseteq SUBSET Node
  BY PlaceAssumption
<1>2. fitting \subseteq SUBSET Node
  BY <1>1
<1> HIDE DEF tried
<1>3. SplitNodes(p, w, asked) \in {fitting, {{}}}
  BY DEF SplitNodes, tried
<1> HIDE DEF fitting
<1>4. QED
  BY <1>2, <1>3

(* placementCheck answers a verdict and the nodes to record. *)
LEMMA JudgementsType ==
    ASSUME NEW p \in Preset, NEW w \in Nat, NEW r \in Request, NEW x \in Judgements(p, w, r)
    PROVE  x.verdict \in Verdict /\ x.on \in SUBSET Node
<1> DEFINE v == Seen(p)
           pair(J, on) == {[verdict |-> j, on |-> on] : j \in J}
           split(l) == IF l = {} THEN {Refused} ELSE JudgeSplit(p, w, l, v)
           S == SplitNodes(p, w, r.nodes)
<1>1. r.nodes \in SUBSET Node
  BY DEF Request
<1>2. \A J, on : J \subseteq Verdict /\ on \in SUBSET Node =>
         \A y \in pair(J, on) : y.verdict \in Verdict /\ y.on \in SUBSET Node
  OBVIOUS
<1>3. \A n : PlaceModel(p, w, n, v) \subseteq Verdict
  BY SeenType, PlaceModelType
<1>4. JudgeCopies(p, w, r.nodes, v) \subseteq Verdict
  BY <1>1, SeenType, JudgeCopiesType
<1>5. \A l \in S : l \in SUBSET Node /\ split(l) \subseteq Verdict
  BY <1>1, SplitNodesType, JudgeSplitType, RefusedType
<1> HIDE DEF S
<1>6. CASE r.split
  <2>1. PICK l \in S : x \in pair(split(l), l)
    BY <1>6 DEF Judgements, S
  <2>2. QED
    BY <2>1, <1>5, <1>2
<1>7. CASE ~r.split
  <2>1. \/ x \in pair(PlaceModel(p, w, NoNode, v), {})
        \/ \E n \in r.nodes : x \in pair(PlaceModel(p, w, n, v), {})
        \/ x \in pair(JudgeCopies(p, w, r.nodes, v), r.nodes)
    BY <1>7 DEF Judgements
  <2>2. QED
    BY <2>1, <1>1, <1>2, <1>3, <1>4
<1>8. QED
  BY <1>6, <1>7

(* A call that is not loading is in shape. *)
LEMMA IdleType == Idle \in CallState
  BY SetAssumption, RefusedType DEF Idle, CallState, Nowhere, Request

(* A preset that is not served has an object in shape. *)
LEMMA NoneType == None \in Object
  BY NoneAssumption DEF None, Object

(* oneCopy pins a load to a node, or to none. *)
LEMMA PinType == \A r : Pin(r) \in Node \cup {NoNode}
  BY DEF Pin

(* The parts of a load under way have their types. *)
LEMMA CallType ==
    ASSUME TypeOK, NEW c \in Call
    PROVE  /\ call[c] \in CallState
           /\ call[c].preset \in Preset /\ call[c].request \in Request
           /\ call[c].verdict \in Verdict /\ call[c].on \in SUBSET Node /\ call[c].seen \in Nat
  BY DEF TypeOK, CallState

(* servingNodes answers nodes. *)
LEMMA ServingNodesType ==
    ASSUME TypeOK, NEW p \in Preset
    PROVE  ServingNodes(p) \in SUBSET Node
  BY DEF TypeOK, Object, ServingNodes

(* Every reachable state is in shape; the fit check answers a verdict. *)
THEOREM TypeCorrect == Spec => []TypeOK
<1>1. Init => TypeOK
  BY IdleType, NoneType DEF Init, TypeOK
<1>2. TypeOK /\ [Next]_vars => TypeOK'
  <2> SUFFICES ASSUME TypeOK, [Next]_vars PROVE TypeOK'
    OBVIOUS
  <2> USE DEF Counts, Starts, Moves
  <2>1. ASSUME NEW c \in Call, NEW p \in Preset, NEW r \in Request, Judge(c, p, r)
        PROVE  TypeOK'
    <3>0. PICK w \in {PresetFact[p].hub, PresetFact[p].declared} : \E j \in Judgements(p, w, r) :
             call' = [call EXCEPT ![c] = [Idle EXCEPT !.pc = "look", !.preset = p, !.request = r,
                                             !.verdict = j.verdict, !.on = j.on]]
      BY <2>1 DEF Judge, Goes
    <3>1. PICK j \in Judgements(p, w, r) :
             call' = [call EXCEPT ![c] = [Idle EXCEPT !.pc = "look", !.preset = p, !.request = r,
                                             !.verdict = j.verdict, !.on = j.on]]
      BY <3>0
    <3>2. j.verdict \in Verdict /\ j.on \in SUBSET Node
      BY PresetTypes, JudgementsType
    <3>3. [Idle EXCEPT !.pc = "look", !.preset = p, !.request = r,
                       !.verdict = j.verdict, !.on = j.on] \in CallState
      BY <3>2, IdleType DEF CallState
    <3>4. events' \in Nat
      BY <2>1 DEF Judge, TypeOK
    <3>5. QED
      BY <2>1, <3>1, <3>3, <3>4 DEF Judge, TypeOK
  <2>2. ASSUME NEW c \in Call, Look(c)
        PROVE  TypeOK'
    <3> DEFINE q == call[c]
    <3>1. q \in CallState /\ q.request.nodes \in SUBSET Node /\ q.preset \in Preset
      BY CallType DEF Request
    <3>2. ServingNodes(q.preset) \in SUBSET Node /\ obj[q.preset].rv \in Nat
      BY <3>1, ServingNodesType DEF TypeOK, Object
    <3>3. /\ [q EXCEPT !.pc = "create"] \in CallState
          /\ [q EXCEPT !.pc = "add", !.seen = obj[q.preset].rv,
                       !.on = ServingNodes(q.preset) \cup q.request.nodes] \in CallState
      BY <3>1, <3>2 DEF CallState
    <3>4. call' \in [Call -> CallState]
      BY <2>2, <3>3, IdleType DEF Look, Goes, Done, TypeOK
    <3>5. QED
      BY <2>2, <3>4 DEF Look, TypeOK
  <2>3. ASSUME NEW c \in Call, Create(c)
        PROVE  TypeOK'
    <3> DEFINE q == call[c]
               p == q.preset
               o == [state |-> "up", rv |-> writes + 1, pin |-> Pin(q.request),
                     pool |-> q.verdict.pool, nodes |-> q.on, split |-> q.request.split,
                     devices |-> q.verdict.devices, util |-> q.verdict.util]
               at == [n \in Node |-> IF n \in JudgedOn(q) THEN q.verdict.util ELSE 0]
    <3>1. q \in CallState /\ p \in Preset /\ q.verdict \in Verdict /\ q.on \in SUBSET Node
          /\ q.request.split \in BOOLEAN
      BY CallType DEF Request
    <3>2. o \in Object
      BY <3>1, PinType DEF Object, Verdict, TypeOK
    <3>3. at \in [Node -> 0..100]
      BY <3>1 DEF Verdict
    <3>4. call' \in [Call -> CallState]
      BY <2>3, IdleType DEF Create, Goes, Done, TypeOK
    <3> HIDE DEF o, at
    <3>5. /\ obj' \in [Preset -> Object]
          /\ judged' \in [Preset -> [Node -> 0..100]]
          /\ writes' \in Nat
      <4>1. CASE obj[p].state = "none"
        <5>1. obj' = [obj EXCEPT ![p] = o] /\ judged' = [judged EXCEPT ![p] = at] /\ writes' = writes + 1
          BY <2>3, <4>1 DEF Create, o, at
        <5>2. QED
          BY <3>1, <3>2, <3>3, <5>1 DEF TypeOK
      <4>2. CASE obj[p].state # "none"
        BY <2>3, <4>2 DEF Create, TypeOK
      <4>3. QED
        BY <4>1, <4>2
    <3>6. QED
      BY <2>3, <3>4, <3>5 DEF Create, TypeOK
  <2>4. ASSUME NEW c \in Call, AddCopies(c)
        PROVE  TypeOK'
    <3> DEFINE q == call[c]
               p == q.preset
               o == [obj[p] EXCEPT !.rv = writes + 1, !.pin = NoNode, !.nodes = q.on]
               at == [n \in Node |-> IF n \in q.request.nodes THEN q.verdict.util ELSE judged[p][n]]
    <3>1. q \in CallState /\ p \in Preset /\ q.verdict \in Verdict /\ q.on \in SUBSET Node
      BY CallType
    <3>2. o \in Object
      <4>1. obj[p] \in Object /\ writes + 1 \in Nat
        BY <3>1 DEF TypeOK
      <4>2. QED
        BY <3>1, <4>1 DEF Object
    <3>3. at \in [Node -> 0..100]
      BY <3>1 DEF Verdict, TypeOK
    <3>4. call' \in [Call -> CallState]
      BY <2>4, IdleType DEF AddCopies, Goes, Done, TypeOK
    <3>5. CASE obj[p].state # "none" /\ obj[p].rv = q.seen
      <4>1. obj' = [obj EXCEPT ![p] = o] /\ judged' = [judged EXCEPT ![p] = at] /\ writes' = writes + 1
        BY <2>4, <3>5 DEF AddCopies
      <4> HIDE DEF o, at
      <4>2. QED
        BY <2>4, <3>1, <3>2, <3>3, <3>4, <4>1 DEF AddCopies, TypeOK
    <3>6. CASE ~(obj[p].state # "none" /\ obj[p].rv = q.seen)
      BY <2>4, <3>4, <3>6 DEF AddCopies, TypeOK
    <3>7. QED
      BY <3>5, <3>6
  <2>5. ASSUME NEW p \in Preset, Stop(p)
        PROVE  TypeOK'
    <3> DEFINE o == [obj[p] EXCEPT !.state = "stopping", !.rv = writes + 1]
    <3>1. obj[p] \in Object /\ writes + 1 \in Nat /\ events' \in Nat
      BY <2>5 DEF Stop, TypeOK
    <3>2. o \in Object
      BY <3>1 DEF Object
    <3>3. obj' = [obj EXCEPT ![p] = o]
      BY <2>5 DEF Stop
    <3> HIDE DEF o
    <3>4. QED
      BY <2>5, <3>1, <3>2, <3>3, ZenonT(40) DEF Stop, TypeOK
  <2>6. ASSUME NEW p \in Preset, Gone(p)
        PROVE  TypeOK'
    BY <2>6, NoneType DEF Gone, TypeOK
  <2>7. ASSUME NEW n \in Node, NEW p \in Preset, Bind(p, n)
        PROVE  TypeOK'
    <3>1. pods' \in [Preset -> SUBSET Node] /\ judged' \in [Preset -> [Node -> 0..100]]
      BY <2>7 DEF Bind, TypeOK
    <3>2. QED
      BY <2>7, <3>1 DEF Bind, TypeOK
  <2>8. ASSUME NEW n \in Node, NEW p \in Preset, Evict(p, n)
        PROVE  TypeOK'
    BY <2>8 DEF Evict, TypeOK
  <2>9. ASSUME NEW n \in Node, NEW from, NEW to \in {"starting", "broken", "none"},
               NodeMoves(n, from, to)
        PROVE  TypeOK'
    BY <2>9 DEF NodeMoves, TypeOK
  <2>10. ASSUME NEW n \in Node, NodeReady(n)
         PROVE  TypeOK'
    BY <2>10 DEF NodeReady, TypeOK
  <2>11. CASE UNCHANGED vars
    BY <2>11 DEF vars, TypeOK
  <2>12. QED
    BY <2>1, <2>2, <2>3, <2>4, <2>5, <2>6, <2>7, <2>8, <2>9, <2>10, <2>11
       DEF Next, Load, Cluster
<1>3. QED
  BY <1>1, <1>2, PTL DEF Spec

-----------------------------------------------------------------------------
(* Overlapping loads *)

(* A load that records nodes pins none, and neither does its object. *)
Recorded ==
    /\ \A p \in Preset : obj[p].nodes # {} => obj[p].pin = NoNode
    /\ \A c \in Call : call[c].pc \in {"look", "create"} /\ call[c].on # {} =>
          Pin(call[c].request) = NoNode

(* A version names one state of an object: while the object still has the
   version a load read, it is up and names no node the load does not. *)
Versions ==
    /\ \A p \in Preset : obj[p].rv <= writes
    /\ \A c \in Call : call[c].pc = "add" =>
          LET p == call[c].preset
          IN /\ call[c].seen <= writes
             /\ obj[p].state # "none" /\ obj[p].rv = call[c].seen =>
                   obj[p].state = "up" /\ Fixed(p) \subseteq call[c].on

(* A load that pins its object to one node records none on it (oneCopy). *)
LEMMA PinnedRecordsNone ==
    ASSUME NEW p, NEW w, NEW r \in Request, NEW x \in Judgements(p, w, r), x.on # {}
    PROVE  Pin(r) = NoNode
<1> DEFINE v == Seen(p)
           pair(J, on) == {[verdict |-> j, on |-> on] : j \in J}
<1>1. CASE r.split
  BY <1>1 DEF Pin
<1>2. CASE ~r.split
  <2>1. \A J : \A y \in pair(J, {}) : y.on = {}
    OBVIOUS
  <2>2. \/ x \in pair(PlaceModel(p, w, NoNode, v), {})
        \/ \E n \in r.nodes : x \in pair(PlaceModel(p, w, n, v), {})
        \/ Cardinality(r.nodes) # 1
    BY <1>2 DEF Judgements
  <2>3. Cardinality(r.nodes) # 1
    BY <2>1, <2>2 
  <2>4. \A n \in Node : r.nodes # {n}
    BY <2>3, FS_Singleton
  <2>5. QED
    BY <2>4 DEF Pin
<1>3. QED
  BY <1>1, <1>2

(* What becomes of a load once it has looked at its preset's object. *)
LEMMA LookGoes ==
    ASSUME TypeOK, NEW c \in Call, Look(c)
    PROVE  LET q == call[c]
               p == q.preset
           IN \/ call'[c] = [q EXCEPT !.pc = "create"] /\ q.verdict.fits
              \/ /\ call'[c] = [q EXCEPT !.pc = "add", !.seen = obj[p].rv,
                                         !.on = ServingNodes(p) \cup q.request.nodes]
                 /\ obj[p].state = "up" /\ ~obj[p].split /\ ServingNodes(p) # {}
                 /\ q.verdict.fits /\ ~q.request.split /\ q.request.nodes # {}
              \/ call'[c] = Idle
<1> DEFINE q == call[c]
           p == q.preset
           on == ServingNodes(p)
           add == [q EXCEPT !.pc = "add", !.seen = obj[p].rv, !.on = on \cup q.request.nodes]
           create == [q EXCEPT !.pc = "create"]
           other == ~(q.request.nodes \subseteq on)
           adds == other /\ on # {} /\ ~q.request.split /\ ~obj[p].split
<1>1. CASE obj[p].state = "none" /\ q.verdict.fits
  <2>1. call' = [call EXCEPT ![c] = create]
    BY <1>1 DEF Look, Goes
  <2>2. QED
    BY <1>1, <2>1 DEF TypeOK
<1>2. CASE obj[p].state = "up" /\ adds /\ q.verdict.fits
  <2>1. call' = [call EXCEPT ![c] = add]
    BY <1>2 DEF Look, Goes
  <2>2. QED
    BY <1>2, <2>1 DEF TypeOK
<1>3. CASE /\ ~(obj[p].state = "none" /\ q.verdict.fits)
           /\ ~(obj[p].state = "up" /\ adds /\ q.verdict.fits)
  <2>1. call' = [call EXCEPT ![c] = Idle]
    BY <1>3 DEF Look, Goes, Done
  <2>2. QED
    BY <2>1 DEF TypeOK
<1>4. QED
  BY <1>1, <1>2, <1>3

(* An object names nodes in one way only, and a load about to add copies adds
   to all of them as long as the object is the one it read (Serve, addCopies). *)
THEOREM VersionsHold == Spec => [](Recorded /\ Versions)
<1> DEFINE Inv == Recorded /\ Versions
<1>1. Init => Inv
  BY DEF Init, Recorded, Versions, None, Idle
<1>2. TypeOK /\ TypeOK' /\ Inv /\ [Next]_vars => Inv'
  <2> SUFFICES ASSUME TypeOK, TypeOK', Inv, [Next]_vars PROVE Inv'
    OBVIOUS
  <2>0. \A p \in Preset : obj[p] \in Object /\ obj'[p] \in Object
    BY DEF TypeOK
  <2>a. writes \in Nat /\ writes' \in Nat
    BY DEF TypeOK
  <2>1. ASSUME NEW c \in Call, NEW p \in Preset, NEW r \in Request, Judge(c, p, r)
        PROVE  Inv'
    <3>0. PICK w : \E j \in Judgements(p, w, r) :
             call' = [call EXCEPT ![c] = [Idle EXCEPT !.pc = "look", !.preset = p, !.request = r,
                                             !.verdict = j.verdict, !.on = j.on]]
      BY <2>1 DEF Judge, Goes
    <3>1. PICK j \in Judgements(p, w, r) :
             call' = [call EXCEPT ![c] = [Idle EXCEPT !.pc = "look", !.preset = p, !.request = r,
                                             !.verdict = j.verdict, !.on = j.on]]
      BY <3>0
    <3>2. j.on # {} => Pin(r) = NoNode
      BY PinnedRecordsNone
    <3>3. /\ call'[c].pc = "look" /\ call'[c].request = r /\ call'[c].on = j.on
          /\ \A d \in Call \ {c} : call'[d] = call[d]
      BY <3>1, IdleType DEF TypeOK, CallState
    <3>4. obj' = obj /\ writes' = writes
      BY <2>1 DEF Judge
    <3>5. QED
      BY <3>2, <3>3, <3>4 DEF Recorded, Versions, Fixed
  <2>2. ASSUME NEW c \in Call, Look(c)
        PROVE  Inv'
    <3> DEFINE q == call[c]
               p == q.preset
    <3>1. q \in CallState /\ p \in Preset
      BY CallType
    <3>2. obj' = obj /\ writes' = writes /\ \A d \in Call \ {c} : call'[d] = call[d]
      BY <2>2 DEF Look, Goes, Done, TypeOK
    <3> DEFINE create == [q EXCEPT !.pc = "create"]
               add == [q EXCEPT !.pc = "add", !.seen = obj[p].rv,
                                !.on = ServingNodes(p) \cup q.request.nodes]
    <3>a. \/ call'[c] = create
          \/ call'[c] = add /\ obj[p].state = "up"
          \/ call'[c] = Idle
      BY <2>2, LookGoes
    <3>b. Idle.pc = "idle"
      BY DEF Idle
    <3>c. /\ create.pc = "create" /\ create.on = q.on /\ create.request = q.request
          /\ add.pc = "add" /\ add.preset = p /\ add.seen = obj[p].rv
          /\ add.on = ServingNodes(p) \cup q.request.nodes
      BY <3>1 DEF CallState
    <3> HIDE DEF create, add
    <3>3. Recorded'
      <4>2. call'[c].pc \in {"look", "create"} => call'[c].on = q.on /\ call'[c].request = q.request
        BY <3>a, <3>b, <3>c
      <4>3. q.pc = "look"
        BY <2>2 DEF Look
      <4>4. QED
        BY <3>2, <4>2, <4>3 DEF Recorded
    <3>4. call'[c].pc = "add" =>
             /\ call'[c].preset = p /\ call'[c].seen = obj[p].rv
             /\ obj[p].state = "up" /\ ServingNodes(p) \subseteq call'[c].on
      BY <3>a, <3>b, <3>c
    <3>5. Fixed(p) \subseteq ServingNodes(p)
      BY <3>1 DEF Fixed, ServingNodes, Recorded
    <3>6. Versions'
      BY <3>1, <3>2, <3>4, <3>5 DEF Versions, Fixed
    <3>7. QED
      BY <3>3, <3>6
  <2>3. ASSUME NEW c \in Call, Create(c)
        PROVE  Inv'
    <3> DEFINE p == call[c].preset
    <3>1. p \in Preset /\ call'[c].pc = "idle" /\ \A d \in Call \ {c} : call'[d] = call[d]
      BY <2>3, CallType DEF Create, Goes, Done, TypeOK, Idle
    <3>2. CASE obj[p].state # "none"
      <4>1. obj' = obj /\ writes' = writes
        BY <2>3, <3>2 DEF Create
      <4>2. QED
        BY <3>1, <4>1 DEF Recorded, Versions, Fixed
    <3>3. CASE obj[p].state = "none"
      <4>1. /\ obj'[p].rv = writes + 1 /\ obj'[p].nodes = call[c].on
            /\ obj'[p].pin = Pin(call[c].request) /\ writes' = writes + 1
            /\ \A r \in Preset \ {p} : obj'[r] = obj[r]
        BY <2>3, <3>1, <3>3 DEF Create, TypeOK
      <4>2. Recorded'
        BY <2>3, <3>1, <4>1 DEF Recorded, Create
      <4>3. Versions'
        BY <2>a, <2>0, <3>1, <4>1, CallType DEF Versions, Fixed, Object
      <4>4. QED
        BY <4>2, <4>3
    <3>4. QED
      BY <3>2, <3>3
  <2>4. ASSUME NEW c \in Call, AddCopies(c)
        PROVE  Inv'
    <3> DEFINE p == call[c].preset
    <3>1. p \in Preset /\ call'[c].pc = "idle" /\ \A d \in Call \ {c} : call'[d] = call[d]
      BY <2>4, CallType DEF AddCopies, Goes, Done, TypeOK, Idle
    <3>2. CASE obj' = obj /\ writes' = writes
      BY <3>1, <3>2 DEF Recorded, Versions, Fixed
    <3>3. CASE ~(obj' = obj /\ writes' = writes)
      <4>1. /\ obj'[p].rv = writes + 1 /\ obj'[p].pin = NoNode /\ writes' = writes + 1
            /\ \A r \in Preset \ {p} : obj'[r] = obj[r]
        BY <2>4, <2>0, <3>1, <3>3 DEF AddCopies, TypeOK, Object
      <4>2. Recorded'
        BY <3>1, <4>1 DEF Recorded
      <4>3. Versions'
        BY <2>a, <2>0, <3>1, <4>1, CallType DEF Versions, Fixed, Object
      <4>4. QED
        BY <4>2, <4>3
    <3>4. QED
      BY <3>2, <3>3
  <2>5. ASSUME NEW p \in Preset, Stop(p)
        PROVE  Inv'
    <3>1. /\ obj'[p].rv = writes + 1 /\ obj'[p].pin = obj[p].pin /\ obj'[p].nodes = obj[p].nodes
          /\ writes' = writes + 1 /\ call' = call
          /\ \A r \in Preset \ {p} : obj'[r] = obj[r]
      BY <2>5, <2>0 DEF Stop, TypeOK, Object
    <3>2. Recorded'
      BY <3>1 DEF Recorded
    <3>3. Versions'
      BY <2>a, <2>0, <3>1, CallType DEF Versions, Fixed, Object
    <3>4. QED
      BY <3>2, <3>3
  <2>6. ASSUME NEW p \in Preset, Gone(p)
        PROVE  Inv'
    <3>1. /\ obj'[p] = None /\ writes' = writes /\ call' = call
          /\ \A r \in Preset \ {p} : obj'[r] = obj[r]
      BY <2>6 DEF Gone, TypeOK
    <3>2. Recorded'
      BY <3>1 DEF Recorded, None
    <3>3. Versions'
      BY <2>a, <3>1, CallType DEF Versions, Fixed, None
    <3>4. QED
      BY <3>2, <3>3
  <2>7. ASSUME obj' = obj, call' = call, writes' = writes
        PROVE  Inv'
    BY <2>7 DEF Recorded, Versions, Fixed
  <2>8. QED
    BY <2>1, <2>2, <2>3, <2>4, <2>5, <2>6, <2>7
       DEF Next, Load, Cluster, Bind, Evict, NodeMoves, NodeReady, vars
<1>3. QED
  BY <1>1, <1>2, TypeCorrect, PTL DEF Spec

(* While an object is up, whatever loads overlap, the nodes it names stay, and
   its shape and pool do; what is on its way out does not come back (Serve,
   addCopies). *)
THEOREM NodesStay == Spec => ServedNodesStay
<1> DEFINE Stays(p) ==
             /\ obj[p].state = "up" /\ obj[p]'.state = "up" =>
                   /\ Fixed(p) \subseteq Fixed(p)'
                   /\ obj[p]'.devices = obj[p].devices /\ obj[p]'.util = obj[p].util
                   /\ obj[p]'.pool = obj[p].pool /\ obj[p]'.split = obj[p].split
             /\ obj[p].state = "stopping" => obj[p]'.state # "up"
<1>1. TypeOK /\ Recorded /\ Versions /\ [Next]_vars => [\A p \in Preset : Stays(p)]_vars
  <2> SUFFICES ASSUME TypeOK, Versions, [Next]_vars, NEW p \in Preset PROVE Stays(p)
    OBVIOUS
  <2>0. obj[p] \in Object
    BY DEF TypeOK
  <2>1. ASSUME NEW c \in Call, Create(c) PROVE Stays(p)
    BY <2>1, CallType DEF Create, TypeOK, Fixed
  <2>2. ASSUME NEW c \in Call, AddCopies(c) PROVE Stays(p)
    <3>1. CASE obj' = obj
      BY <3>1 DEF Fixed
    <3>2. CASE call[c].preset # p
      <4>1. obj'[p] = obj[p]
        BY <2>2, <3>2, CallType DEF AddCopies, TypeOK
      <4>2. QED
        BY <4>1 DEF Fixed
    <3>3. CASE obj' # obj /\ call[c].preset = p
      <4>1. /\ obj'[p] = [obj[p] EXCEPT !.rv = writes + 1, !.pin = NoNode, !.nodes = call[c].on]
            /\ obj[p].state # "none" /\ obj[p].rv = call[c].seen /\ call[c].pc = "add"
        BY <2>2, <3>3, CallType DEF AddCopies, TypeOK
      <4>2. obj[p].state = "up" /\ Fixed(p) \subseteq call[c].on
        BY <3>3, <4>1 DEF Versions
      <4>3. Fixed(p)' = call[c].on
        BY <2>0, <4>1 DEF Fixed, Object
      <4>4. QED
        BY <2>0, <4>1, <4>2, <4>3 DEF Object
    <3>4. QED
      BY <3>1, <3>2, <3>3
  <2>3. ASSUME NEW q \in Preset, Stop(q) PROVE Stays(p)
    BY <2>3, <2>0 DEF Stop, TypeOK, Fixed, Object
  <2>4. ASSUME NEW q \in Preset, Gone(q) PROVE Stays(p)
    BY <2>4, <2>0 DEF Gone, TypeOK, Fixed, Object, None
  <2>5. ASSUME obj' = obj PROVE Stays(p)
    BY <2>5 DEF Fixed
  <2>6. QED
    BY <2>1, <2>2, <2>3, <2>4, <2>5
       DEF Next, Load, Judge, Look, Cluster, Bind, Evict, NodeMoves, NodeReady, vars
<1>2. QED
  BY <1>1, TypeCorrect, VersionsHold, PTL DEF Spec, ServedNodesStay

-----------------------------------------------------------------------------
(* What the fit check adds up *)

(* What each model holds of a node, of its memory and of its devices. *)
ShareOn(n) == [q \in Preset |-> IF n \in On(q) THEN PresetShare(q, n, Parts(q), obj[q].util) ELSE 0]
ClaimOn(n) == [q \in Preset |-> Claim(obj[q].util, n)]
Devices == [q \in Preset |-> obj[q].devices]

(* reservedByNode: the sum of the shares, folded. *)
LEMMA ReservedIs ==
    ASSUME NEW p \in Preset, NEW n \in Node
    PROVE  Reserved(p, n) = Total(ShareOn(n), Others(p, n))
<1> DEFINE S == Others(p, n)
           f == ShareOn(n)
           share(q) == PresetShare(q, n, Parts(q), obj[q].util)
           F(h) == [s \in SUBSET S |-> IF s = {} THEN 0
                      ELSE share(CHOOSE x \in s : TRUE) + h[s \ {CHOOSE x \in s : TRUE}]]
<1>1. Reserved(p, n) = (CHOOSE h : h = F(h))[S]
  BY DEF Reserved, MapThenSumSet, MapThenFoldSet
<1>2. \A q \in S : share(q) = f[q]
  BY DEF Others, ShareOn
<1>3. \A s \in SUBSET S : s # {} => (CHOOSE x \in s : TRUE) \in S
  OBVIOUS
<1> HIDE DEF S, f, share
<1>4. \A h : F(h) = [s \in SUBSET S |-> Level(f, s, h)]
  BY <1>2, <1>3 DEF Level, First
<1> HIDE DEF F
<1>5. \A h : h = F(h) <=> Totals(f, S, h)
  BY <1>4 DEF Totals
<1>6. (CHOOSE h : h = F(h)) = (CHOOSE h : Totals(f, S, h))
  BY <1>5
<1>7. QED
  BY <1>1, <1>6, TotalUnfolds DEF f, S

(* withTaken: the sum of the devices, folded. *)
LEMMA DevicesAdd ==
    ASSUME NEW S \in SUBSET Preset
    PROVE  LET devices(q) == obj[q].devices IN MapThenSumSet(devices, S) = Total(Devices, S)
<1> DEFINE F(h) == [s \in SUBSET S |-> IF s = {} THEN 0
                      ELSE obj[CHOOSE x \in s : TRUE].devices + h[s \ {CHOOSE x \in s : TRUE}]]
           sum == LET devices(q) == obj[q].devices IN MapThenSumSet(devices, S)
<1>1. sum = (CHOOSE h : h = F(h))[S]
  BY DEF MapThenSumSet, MapThenFoldSet
<1>2. \A s \in SUBSET S : s # {} => (CHOOSE x \in s : TRUE) \in Preset
  OBVIOUS
<1>3. \A h : F(h) = [s \in SUBSET S |-> Level(Devices, s, h)]
  BY <1>2 DEF Level, First, Devices
<1> HIDE DEF F, sum
<1>4. \A h : h = F(h) <=> Totals(Devices, S, h)
  BY <1>3 DEF Totals
<1>5. (CHOOSE h : h = F(h)) = (CHOOSE h : Totals(Devices, S, h))
  BY <1>4
<1>6. sum = Total(Devices, S)
  BY <1>1, <1>5, TotalUnfolds
<1>7. QED
  BY <1>6 DEF sum

LEMMA TakenIs ==
    ASSUME NEW p \in Preset, NEW n \in Node
    PROVE  Taken(p, n) = Total(Devices, Others(p, n))
<1>1. Others(p, n) \in SUBSET Preset
  BY DEF Others
<1>2. QED
  BY <1>1, DevicesAdd DEF Taken

(* What vLLM claims of a node, summed over the pods there. *)
LEMMA ClaimsIs ==
    ASSUME NEW n \in Node
    PROVE  Claims(n) = Total(ClaimOn(n), {p \in Preset : n \in pods[p]})
<1> DEFINE S == {p \in Preset : n \in pods[p]}
           f == ClaimOn(n)
           F(h) == [s \in SUBSET S |-> IF s = {} THEN 0
                      ELSE Claim(obj[CHOOSE x \in s : TRUE].util, n) + h[s \ {CHOOSE x \in s : TRUE}]]
<1>1. Claims(n) = (CHOOSE h : h = F(h))[S]
  BY DEF Claims, MapThenSumSet, MapThenFoldSet
<1>2. \A s \in SUBSET S : s # {} => (CHOOSE x \in s : TRUE) \in Preset
  OBVIOUS
<1> HIDE DEF S
<1>3. \A h : F(h) = [s \in SUBSET S |-> Level(f, s, h)]
  BY <1>2 DEF Level, First, ClaimOn
<1> HIDE DEF F, f
<1>4. \A h : h = F(h) <=> Totals(f, S, h)
  BY <1>3 DEF Totals
<1>5. (CHOOSE h : h = F(h)) = (CHOOSE h : Totals(f, S, h))
  BY <1>4
<1>6. QED
  BY <1>1, <1>5, TotalUnfolds DEF f, S

-----------------------------------------------------------------------------
(* Loads that do not overlap: the invariant *)

(* The models whose claim on a node counts, and those whose devices do. *)
Standing(n) == {p \in Preset : JudgedAs(p, n)}
Carded(n) == {p \in Preset : /\ obj[p].state = "up" /\ judged[p][n] > 0
                             /\ ~obj[p].split /\ obj[p].devices <= Gpus(p)}

(* What they claim leaves the headroom; they take no more than there is. *)
Headroomed ==
    \A n \in Node : Unified(n) =>
        Total(ClaimOn(n), Standing(n)) <= AtLeast(Memory(n) - Headroom, 0)
Equipped ==
    \A n \in Node : Discrete(n) => Total(Devices, Carded(n)) <= GpuDevices(n)

(* A model is judged on the nodes it is recorded on, pinned to or runs on. *)
PlacedWell(p) ==
    /\ obj[p].state = "none" => pods[p] = {} /\ \A n \in Node : judged[p][n] = 0
    /\ ServingNodes(p) # {} => \A n \in Node : judged[p][n] > 0 => n \in ServingNodes(p)
    /\ obj[p].nodes = {} => /\ obj[p].pin # NoNode => pods[p] \subseteq {obj[p].pin}
                            /\ \A m, n \in pods[p] : m = n
Placed == \A p \in Preset : PlacedWell(p)

(* One load at a time, and every pod where it belongs while it lasts. *)
OneByOne ==
    /\ \A c, d \in Call : call[c].pc # "idle" /\ call[d].pc # "idle" => c = d
    /\ \A c \in Call : call[c].pc # "idle" => Settled

(* A verdict at utilization u still holds of node n: what is served has not
   changed since. *)
Room(p, n, split, u) ==
    /\ Unified(n) => Claim(u, n) <= Available(n, Reserved(p, n))
    /\ Discrete(n) /\ ~split => FreeGPUs(n, Taken(p, n)) >= Gpus(p)

(* The verdict q goes by holds of the nodes it judged. *)
Judgement(q) ==
    /\ \A n \in JudgedOn(q) : Room(q.preset, n, q.request.split, q.verdict.util)
    /\ q.on = {} /\ Pin(q.request) # NoNode => q.verdict.node = Pin(q.request)
    /\ ~q.request.split /\ q.request.nodes # {} => JudgedOn(q) = q.request.nodes

(* The load adds nodes it judged to a model that is up. *)
Addition(q) ==
    LET p == q.preset
    IN /\ obj[p].state = "up" /\ ~obj[p].split /\ ServingNodes(p) # {}
       /\ q.on = ServingNodes(p) \cup q.request.nodes
       /\ \A n \in q.request.nodes : Room(p, n, FALSE, q.verdict.util)

Roomy ==
    \A c \in Call :
        /\ call[c].pc \in {"look", "create"} /\ call[c].verdict.fits => Judgement(call[c])
        /\ call[c].pc = "create" => call[c].verdict.fits
        /\ call[c].pc = "add" => Addition(call[c])

Calm == calm => Headroomed /\ Equipped /\ Placed /\ OneByOne /\ Roomy

-----------------------------------------------------------------------------
(* What the sums leave *)

LEMMA ClaimType ==
    ASSUME NEW n \in Node, NEW u \in 0..100
    PROVE  Claim(u, n) \in Nat
<1>1. Memory(n) \in Nat /\ u \in Nat
  BY NodeTypes
<1>2. u * Memory(n) \in Nat
  BY <1>1
<1>3. QED
  BY <1>2 DEF Claim

(* A lower utilization claims no more. *)
LEMMA ClaimGrows ==
    ASSUME NEW n \in Node, NEW u \in 0..100, NEW v \in 0..100, u <= v
    PROVE  Claim(u, n) <= Claim(v, n)
<1> DEFINE m == Memory(n)
<1>1. m \in Nat /\ u \in Nat /\ v \in Nat
  BY NodeTypes
<1> HIDE DEF m
<1>2. u * m \in Nat /\ v * m \in Nat /\ (v - u) * m \in Nat
  BY <1>1
<1>3. v * m = u * m + (v - u) * m
  BY <1>1
<1>4. \A x, y \in Nat : x <= y => x \div 100 <= y \div 100
  OBVIOUS
<1>5. u * m <= v * m
  BY <1>2, <1>3
<1>6. QED
  BY <1>2, <1>4, <1>5 DEF Claim, m

(* The sums are of numbers, over sets that are finite. *)
LEMMA SumTypes ==
    ASSUME TypeOK, NEW n \in Node
    PROVE  /\ ShareOn(n) \in [Preset -> Nat]
           /\ ClaimOn(n) \in [Preset -> Nat]
           /\ Devices \in [Preset -> Nat]
<1>1. \A q \in Preset : obj[q] \in Object /\ pods[q] \in SUBSET Node
  BY DEF TypeOK
<1>2. ASSUME NEW q \in Preset, n \in On(q) PROVE PresetShare(q, n, Parts(q), obj[q].util) \in Nat
  <2>1. On(q) \in SUBSET Node /\ IsFiniteSet(On(q)) /\ On(q) # {}
    BY <1>1, <1>2, SetAssumption, FS_Subset DEF On, Object
  <2>2. Parts(q) \in Nat \ {0}
    BY <2>1, FS_CardinalityType, FS_EmptySet DEF Parts
  <2>3. CeilDiv(PresetFact[q].declared, Parts(q)) \in Nat /\ Overhead(q) \in Nat
    BY <2>2, PresetTypes, CeilCovers
  <2>4. obj[q].util \in 0..100
    BY <1>1 DEF Object
  <2>5. Claim(obj[q].util, n) \in Nat
    BY <2>4, ClaimType
  <2>6. QED
    BY <2>3, <2>5 DEF PresetShare, AtLeast
<1>3. \A q \in Preset : Claim(obj[q].util, n) \in Nat /\ obj[q].devices \in Nat
  BY <1>1, ClaimType DEF Object
<1>4. QED
  BY <1>2, <1>3 DEF ShareOn, ClaimOn, Devices

(* Every set of presets can be summed over. *)
LEMMA PresetsFinite ==
    ASSUME NEW S \in SUBSET Preset
    PROVE  IsFiniteSet(S)
  BY SetAssumption, FS_Subset

(* The claim of a model is part of what is reserved for it (presetShare). *)
LEMMA ClaimIsReserved ==
    ASSUME TypeOK, NEW n \in Node, Unified(n), NEW q \in Preset, n \in On(q)
    PROVE  ClaimOn(n)[q] <= ShareOn(n)[q]
<1>1. ClaimOn(n)[q] \in Nat /\ ShareOn(n)[q] \in Nat
  BY SumTypes
<1>2. obj[q].util \in 0..100
  BY DEF TypeOK, Object
<1> DEFINE need == CeilDiv(PresetFact[q].declared, Parts(q)) + Overhead(q)
           claim == Claim(obj[q].util, n)
<1>3. ClaimOn(n)[q] = claim /\ ShareOn(n)[q] = AtLeast(need, claim)
  BY DEF ClaimOn, ShareOn, PresetShare
<1> HIDE DEF need, claim
<1>4. QED
  BY <1>1, <1>3 DEF AtLeast

(* While every pod is where it belongs, the fit check of one model sees every
   other one on the nodes it was judged on (reservedByNode). *)
LEMMA OthersHold ==
    ASSUME TypeOK, Placed, Settled, NEW p \in Preset, NEW q \in Preset \ {p}, NEW n \in Node,
           judged[q][n] > 0
    PROVE  q \in Others(p, n)
<1>1. obj[q] \in Object /\ pods[q] \in SUBSET Node /\ PlacedWell(q)
  BY DEF TypeOK, Placed
<1>2. obj[q].state # "none"
  BY <1>1 DEF PlacedWell
<1>3. obj[q].state = "up" /\ pods[q] # {}
  BY <1>1, <1>2 DEF Settled, Object
<1>4. n \in On(q)
  <2>1. CASE obj[q].nodes # {}
    BY <1>1, <2>1 DEF On, PlacedWell, ServingNodes
  <2>2. CASE obj[q].nodes = {} /\ obj[q].pin # NoNode
    <3>1. n = obj[q].pin /\ pods[q] \subseteq {obj[q].pin}
      BY <1>1, <2>2 DEF PlacedWell, ServingNodes
    <3>2. QED
      BY <1>3, <2>2, <3>1 DEF On
  <2>3. CASE obj[q].nodes = {} /\ obj[q].pin = NoNode
    BY <1>1, <1>3, <2>3 DEF On, PlacedWell, ServingNodes
  <2>4. QED
    BY <2>1, <2>2, <2>3
<1>5. QED
  BY <1>3, <1>4 DEF Others

(* What the others reserve is a number. *)
LEMMA ReservedType ==
    ASSUME TypeOK, NEW p \in Preset, NEW n \in Node
    PROVE  Reserved(p, n) \in Nat /\ Taken(p, n) \in Nat
<1>1. Others(p, n) \in SUBSET Preset /\ IsFiniteSet(Others(p, n))
  BY PresetsFinite DEF Others
<1>2. Total(ShareOn(n), Others(p, n)) \in Nat /\ Total(Devices, Others(p, n)) \in Nat
  <2>1. ShareOn(n) \in [Preset -> Nat] /\ Devices \in [Preset -> Nat]
    BY SumTypes
  <2>2. QED
    BY <1>1, <2>1, TotalType
<1>3. QED
  BY <1>2, ReservedIs, TakenIs

(* A claim that fits beside the others leaves the headroom with theirs
   (unifiedClaimOn). *)
LEMMA RoomForClaim ==
    ASSUME TypeOK, Placed, Settled, Headroomed, NEW p \in Preset, NEW n \in Node, Unified(n),
           NEW u \in 0..100, Claim(u, n) <= Available(n, Reserved(p, n))
    PROVE  Claim(u, n) + Total(ClaimOn(n), Standing(n) \ {p}) <= AtLeast(Memory(n) - Headroom, 0)
<1> DEFINE S == Standing(n) \ {p}
           O == Others(p, n)
           old == Total(ClaimOn(n), S)
           R == Reserved(p, n)
<1>1. S \in SUBSET Preset /\ O \in SUBSET Preset /\ S \in SUBSET Standing(n) /\ Standing(n) \in SUBSET Preset
  BY DEF Others, Standing
<1>2. S \in SUBSET O
  <2>1. ASSUME NEW q \in S PROVE q \in O
    <3>1. q \in Preset \ {p} /\ judged[q][n] > 0
      BY DEF Standing, JudgedAs
    <3>2. QED
      BY <3>1, OthersHold
  <2>2. QED
    BY <2>1
<1>3. \A q \in S : ClaimOn(n)[q] <= ShareOn(n)[q]
  <2>1. \A q \in O : q \in Preset /\ n \in On(q)
    BY DEF Others
  <2>2. QED
    BY <1>2, <2>1, ClaimIsReserved
<1> DEFINE all == Total(ClaimOn(n), Standing(n))
           shares == Total(ShareOn(n), O)
<1>a. ClaimOn(n) \in [Preset -> Nat] /\ ShareOn(n) \in [Preset -> Nat]
  BY SumTypes
<1>b. IsFiniteSet(S) /\ IsFiniteSet(O) /\ IsFiniteSet(Standing(n))
  BY <1>1, PresetsFinite
<1>4. old \in Nat /\ all \in Nat /\ shares \in Nat
  <2> HIDE DEF S, O
  <2>1. old \in Nat /\ all \in Nat
    BY <1>1, <1>a, <1>b, TotalType
  <2>2. shares \in Nat
    BY <1>1, <1>a, <1>b, TotalType
  <2>3. QED
    BY <2>1, <2>2
<1>5. old <= shares
  <2> HIDE DEF S, O
  <2>1. QED
    BY <1>1, <1>2, <1>3, <1>a, <1>b, TotalGrows
<1>6. old <= all
  <2>1. \A q \in S : ClaimOn(n)[q] <= ClaimOn(n)[q]
    BY <1>1, SumTypes
  <2> HIDE DEF S
  <2>2. QED
    BY <1>1, <2>1, <1>a, <1>b, TotalGrows
<1>7. shares = R /\ all <= AtLeast(Memory(n) - Headroom, 0)
  BY ReservedIs DEF Headroomed
<1>8. Claim(u, n) \in Nat /\ Memory(n) \in Nat /\ NodeFact[n].budget \in Nat
  BY ClaimType, NodeTypes DEF NodeFacts
<1> HIDE DEF old, all, shares, R
<1>9. Claim(u, n) <= Available(n, R)
  BY DEF R
<1>10. Claim(u, n) + old <= AtLeast(Memory(n) - Headroom, 0)
  BY <1>4, <1>5, <1>6, <1>7, <1>8, <1>9, HeadroomAssumption DEF Available, AtLeast, AtMost
<1>11. QED
  BY <1>10 DEF old, S

(* Devices that are free beside the others fit with theirs (freeGPUs). *)
LEMMA RoomForCards ==
    ASSUME TypeOK, Placed, Settled, NEW p \in Preset, NEW n \in Node, Discrete(n),
           FreeGPUs(n, Taken(p, n)) >= Gpus(p)
    PROVE  Gpus(p) + Total(Devices, Carded(n) \ {p}) <= GpuDevices(n)
<1> DEFINE S == Carded(n) \ {p}
           O == Others(p, n)
<1>1. S \in SUBSET Preset /\ O \in SUBSET Preset
  BY DEF Others, Carded
<1>2. S \in SUBSET O
  <2>1. ASSUME NEW q \in S PROVE q \in O
    <3>1. q \in Preset \ {p} /\ judged[q][n] > 0
      BY DEF Carded
    <3>2. QED
      BY <3>1, OthersHold
  <2>2. QED
    BY <2>1
<1>3. \A q \in S : Devices[q] <= Devices[q]
  BY <1>1, SumTypes
<1> DEFINE old == Total(Devices, S)
           taken == Total(Devices, O)
<1>4. old \in Nat /\ taken \in Nat
  BY <1>1, SumTypes, TotalType, PresetsFinite
<1>5. old <= taken
  <2> HIDE DEF S, O
  <2>1. QED
    BY <1>1, <1>2, <1>3, SumTypes, TotalGrows, PresetsFinite
<1>6. taken = Taken(p, n)
  BY TakenIs
<1>7. GpuDevices(n) \in Nat /\ Gpus(p) \in Nat \ {0}
  BY NodeTypes, PresetTypes DEF GpuDevices, NodeFacts
<1>8. AtLeast(GpuDevices(n) - Taken(p, n), 0) >= Gpus(p)
  BY DEF FreeGPUs
<1> HIDE DEF old, taken, S
<1>9. Gpus(p) + old <= GpuDevices(n)
  BY <1>4, <1>5, <1>6, <1>7, <1>8 DEF AtLeast
<1>10. QED
  BY <1>9 DEF old, S

-----------------------------------------------------------------------------
(* What the fit check promises *)

(* A node a verdict fits has room for what the verdict claims (judgeNode). *)
LEMMA JudgeNodeRoom ==
    ASSUME NEW p \in Preset, NEW w \in Nat, NEW n \in Node, NEW v, v.reserved[n] \in Nat,
           JudgeNode(p, w, n, v).fits
    PROVE  /\ Unified(n) => Claim(JudgeNode(p, w, n, v).util, n) <= Available(n, v.reserved[n])
           /\ Discrete(n) => FreeGPUs(n, v.taken[n]) >= Gpus(p)
<1> DEFINE need == w + Overhead(p)
           u == Utilization(p, n, v.reserved[n], need)
<1>1. need \in Nat
  BY PresetTypes
<1>2. u > 0 /\ JudgeNode(p, w, n, v).util = u /\ (Discrete(n) => FreeGPUs(n, v.taken[n]) >= Gpus(p))
  BY DEF JudgeNode
<1> HIDE DEF need
<1>3. Unified(n) => Claim(u, n) <= Available(n, v.reserved[n])
  BY <1>1, <1>2, UtilizationFits
<1>4. QED
  BY <1>2, <1>3

(* A verdict that fits on a node is that node's; one for a node that is asked
   for is for it (placeModel). *)
LEMMA PlaceModelNode ==
    ASSUME NEW p \in Preset, NEW w \in Nat, NEW explicit, NEW v, v.eligible \subseteq Node,
           NEW j \in PlaceModel(p, w, explicit, v), j.fits
    PROVE  /\ j.node # NoNode => j.node \in Node /\ j = JudgeNode(p, w, j.node, v)
           /\ explicit # NoNode => j.node = explicit /\ explicit \in Node
<1> DEFINE C == Candidates(explicit, v)
           K == LaunchingPools(p, w, v)
           best(n) == LET i == JudgeNode(p, w, n, v)
                      IN IF i.fits \/ explicit # NoNode \/ K = {} THEN {i}
                         ELSE {PlaceOnPool(p, w, k) : k \in K}
<1>1. C \subseteq Node /\ (explicit # NoNode => C \subseteq {explicit})
  BY DEF Candidates
<1>2. ChooseNode(p, w, C, v) \subseteq C
  BY DEF ChooseNode
<1>3. \A k : PlaceOnPool(p, w, k).node = NoNode
  BY DEF PlaceOnPool
<1>4. \A n : JudgeNode(p, w, n, v).node = n
  BY DEF JudgeNode
<1>5. ~Refused.fits
  BY DEF Refused
<1>6. CASE C # {}
  <2>1. PICK n \in ChooseNode(p, w, C, v) : j \in best(n)
    BY <1>6 DEF PlaceModel
  <2>2. n \in Node /\ (explicit # NoNode => n = explicit)
    BY <1>1, <1>2, <2>1
  <2>3. \/ j = JudgeNode(p, w, n, v)
        \/ explicit = NoNode /\ \E k \in K : j = PlaceOnPool(p, w, k)
    BY <2>1
  <2>4. QED
    BY <1>3, <1>4, <2>2, <2>3
<1>7. CASE C = {} /\ explicit = NoNode
  <2>1. j \in Waiting(p, w, v)
    BY <1>7 DEF PlaceModel
  <2>2. \E k : j = PlaceOnPool(p, w, k)
    BY <1>5, <2>1 DEF Waiting
  <2>3. QED
    BY <1>3, <1>7, <2>2
<1>8. CASE C = {} /\ explicit # NoNode
  BY <1>5, <1>8 DEF PlaceModel
<1>9. QED
  BY <1>6, <1>7, <1>8

(* A node asked for gets a verdict (placeModel). *)
LEMMA PlaceModelAnswers ==
    ASSUME NEW p \in Preset, NEW w \in Nat, NEW n \in Node, NEW v, v.reserved[n] \in Nat
    PROVE  PlaceModel(p, w, n, v) # {}
<1> DEFINE C == Candidates(n, v)
           j == JudgeNode(p, w, n, v)
           best(m) == LET i == JudgeNode(p, w, m, v)
                      IN IF i.fits \/ n # NoNode \/ LaunchingPools(p, w, v) = {} THEN {i}
                         ELSE {PlaceOnPool(p, w, k) : k \in LaunchingPools(p, w, v)}
<1>1. n # NoNode /\ C \subseteq {n}
  BY NoneAssumption DEF Candidates
<1>2. CASE C = {}
  BY <1>1, <1>2 DEF PlaceModel
<1>3. CASE C # {}
  <2>1. C = {n}
    BY <1>1, <1>3
  <2>2. NodeFact[n].budget \in Nat /\ Free(n, v) \in Int
    BY NodeTypes DEF Free, NodeFacts
  <2>3. n \in ChooseNode(p, w, {n}, v)
    BY <2>2 DEF ChooseNode
  <2>4. best(n) = {j}
    BY <1>1
  <2>5. PlaceModel(p, w, n, v) = UNION {best(m) : m \in ChooseNode(p, w, C, v)}
    BY <1>3 DEF PlaceModel
  <2>6. j \in PlaceModel(p, w, n, v)
    BY <2>1, <2>3, <2>4, <2>5
  <2>7. QED
    BY <2>6
<1>4. QED
  BY <1>2, <1>3

(* Copies that fit fit each node by itself, at no more than its utilization
   (judgeCopies). *)
LEMMA CopiesRoom ==
    ASSUME NEW p \in Preset, NEW w \in Nat, NEW nodes \in SUBSET Node, NEW v,
           v.eligible \subseteq Node, v.starting \subseteq Node,
           \A n \in Node : v.reserved[n] \in Nat,
           NEW j \in JudgeCopies(p, w, nodes, v), j.fits, NEW n \in nodes
    PROVE  JudgeNode(p, w, n, v).fits /\ j.util <= JudgeNode(p, w, n, v).util
<1> DEFINE each == UNION {PlaceModel(p, w, m, v) : m \in nodes}
           U == Least({i.util : i \in each})
           several == Cardinality({i.pool : i \in each}) > 1
           from(i) == {[i EXCEPT !.pool = IF several THEN NoPool ELSE @, !.util = u] : u \in U}
           bad == (\E i \in each : ~i.fits) \/ Cardinality({i.devices : i \in each}) > 1
<1> HIDE DEF several
<1>1. JudgeCopies(p, w, nodes, v) = IF bad THEN {Refused} ELSE UNION {from(i) : i \in each}
  BY DEF JudgeCopies, several
<1>a. ~Refused.fits
  BY DEF Refused
<1> HIDE DEF bad, from, each
<1>b. ~bad
  BY <1>1, <1>a
<1>c. PICK i \in each : j \in from(i)
  BY <1>1, <1>b
<1> USE DEF bad, from, each
<1>2. ~bad
  BY <1>b
<1>3. i \in each /\ j \in from(i)
  BY <1>c
<1>4. PICK x \in PlaceModel(p, w, n, v) : TRUE
  BY PlaceModelAnswers
<1>5. x \in each /\ x.fits
  BY <1>2, <1>4
<1>6. x = JudgeNode(p, w, n, v)
  BY <1>4, <1>5, PlaceModelNode, NoneAssumption
<1>7. i \in Verdict
  <2>1. \A m \in nodes : PlaceModel(p, w, m, v) \subseteq Verdict
    BY PlaceModelType
  <2>2. QED
    BY <1>3, <2>1
<1>8. j.util \in U
  <2>1. PICK u \in U : j = [i EXCEPT !.pool = IF several THEN NoPool ELSE @, !.util = u]
    BY <1>3
  <2>2. QED
    BY <1>7, <2>1 DEF Verdict
<1>9. j.util <= x.util
  BY <1>5, <1>8 DEF Least
<1>10. QED
  BY <1>5, <1>6, <1>9

(* A split that fits leaves room on each of its nodes (judgeSplit). *)
LEMMA SplitRoom ==
    ASSUME NEW p \in Preset, NEW w \in Nat, NEW nodes \in SUBSET Node, NEW v,
           \A n \in Node : v.reserved[n] \in Nat,
           NEW j \in JudgeSplit(p, w, nodes, v), j.fits, NEW n \in nodes, Unified(n)
    PROVE  Claim(j.util, n) <= Available(n, v.reserved[n])
<1> DEFINE share == CeilDiv(w, Cardinality(nodes)) + Overhead(p)
           u(m) == Utilization(p, m, v.reserved[m], share)
           D == Most({DevicesOn(p, m, share) : m \in nodes})
           U == Least({u(m) : m \in nodes})
           able(d) == /\ nodes \subseteq v.eligible
                      /\ \A m \in nodes : /\ share <= Free(m, v)
                                          /\ u(m) > 0
                                          /\ NodeFact[m].alloc = 0 \/ d <= NodeFact[m].alloc
           fit(m, s) == [fits |-> TRUE, node |-> m, pool |-> Pinning, devices |-> s[1], util |-> s[2]]
<1>1. IsFiniteSet(nodes) /\ Cardinality(nodes) \in Nat \ {0}
  BY SetAssumption, FS_Subset, FS_CardinalityType, FS_EmptySet
<1>2. share \in Nat
  BY <1>1, CeilCovers, PresetTypes
<1> DEFINE all == {s \in D \X U : able(s[1])}
           fits(a) == {fit(a, s) : s \in all}
<1>a. JudgeSplit(p, w, nodes, v) = IF all = {} THEN {Refused} ELSE UNION {fits(a) : a \in nodes}
  BY DEF JudgeSplit
<1>b. j # Refused
  BY DEF Refused
<1>3. PICK a \in nodes, s \in D \X U : able(s[1]) /\ j = fit(a, s)
  <2> HIDE DEF D, U, able, fit
  <2>1. PICK a \in nodes : j \in fits(a)
    BY <1>a, <1>b
  <2>2. QED
    BY <2>1
<1>4. j.util \in U /\ u(n) > 0
  BY <1>3
<1>5. \A m \in Node : u(m) \in 0..100
  BY UtilizationType
<1>6. j.util \in 0..100 /\ j.util <= u(n)
  BY <1>4, <1>5 DEF Least
<1>7. Claim(j.util, n) <= Claim(u(n), n)
  BY <1>5, <1>6, ClaimGrows
<1> HIDE DEF share
<1>8. Claim(u(n), n) <= Available(n, v.reserved[n])
  BY <1>2, <1>4, UtilizationFits
<1>9. Claim(j.util, n) \in Nat /\ Claim(u(n), n) \in Nat /\ Available(n, v.reserved[n]) \in Int
  BY <1>5, <1>6, ClaimType, NodeTypes, HeadroomAssumption
     DEF Available, AtLeast, AtMost, NodeFacts
<1>10. QED
  BY <1>7, <1>8, <1>9

-----------------------------------------------------------------------------
(* What a verdict that fits rests on *)

(* What the fit check sees of a node is what the others hold there. *)
LEMMA SeenRoom ==
    ASSUME TypeOK, NEW p \in Preset, NEW n \in Node
    PROVE  /\ Seen(p).reserved[n] = Reserved(p, n) /\ Reserved(p, n) \in Nat
           /\ Seen(p).taken[n] = Taken(p, n)
  BY ReservedType DEF Seen

(* The verdict of one node, as the room it leaves. *)
LEMMA RoomOfNode ==
    ASSUME TypeOK, NEW p \in Preset, NEW w \in Nat, NEW n \in Node, NEW split \in BOOLEAN,
           JudgeNode(p, w, n, Seen(p)).fits,
           NEW u \in 0..100, u <= JudgeNode(p, w, n, Seen(p)).util
    PROVE  Room(p, n, split, u)
<1> DEFINE j == JudgeNode(p, w, n, Seen(p))
<1>1. j.util \in 0..100
  BY JudgeNodeType DEF Verdict
<1>2. /\ Unified(n) => Claim(j.util, n) <= Available(n, Reserved(p, n))
      /\ Discrete(n) => FreeGPUs(n, Taken(p, n)) >= Gpus(p)
  BY SeenRoom, JudgeNodeRoom
<1>3. Claim(u, n) <= Claim(j.util, n)
  BY <1>1, ClaimGrows
<1> DEFINE left == Available(n, Reserved(p, n))
<1>4. Claim(u, n) \in Nat /\ Claim(j.util, n) \in Nat
  BY <1>1, ClaimType
<1>5. left \in Int
  BY ReservedType, NodeTypes, HeadroomAssumption DEF Available, AtLeast, AtMost, NodeFacts
<1> HIDE DEF j, left
<1>6. Unified(n) => Claim(u, n) <= left
  BY <1>2, <1>3, <1>4, <1>5 DEF left
<1>7. QED
  BY <1>2, <1>6 DEF Room, left

(* A load that pins its object pins it to the one node asked for (oneCopy). *)
LEMMA PinOfOne ==
    ASSUME NEW r \in Request
    PROVE  /\ \A n \in Node : ~r.split /\ r.nodes = {n} => Pin(r) = n
           /\ r.nodes = {} => Pin(r) = NoNode
  BY DEF Pin, Request

(* A verdict that fits holds of the nodes it judged (placementCheck). *)
LEMMA JudgementsRoom ==
    ASSUME TypeOK, NEW p \in Preset, NEW w \in Nat, NEW r \in Request, NEW x \in Judgements(p, w, r),
           x.verdict.fits,
           NEW q, q.preset = p, q.request = r, q.verdict = x.verdict, q.on = x.on
    PROVE  Judgement(q)
<1> DEFINE v == Seen(p)
           j == x.verdict
           pair(J, on) == {[verdict |-> i, on |-> on] : i \in J}
           split(l) == IF l = {} THEN {Refused} ELSE JudgeSplit(p, w, l, v)
           S == SplitNodes(p, w, r.nodes)
<1>0. j \in Verdict /\ x.on \in SUBSET Node /\ r.nodes \in SUBSET Node /\ r.split \in BOOLEAN
  BY JudgementsType DEF Request
<1>1. j.util \in 0..100 /\ j.node \in Node \cup {NoNode}
  BY <1>0 DEF Verdict
<1>2. \A n \in Node : v.reserved[n] = Reserved(p, n) /\ v.reserved[n] \in Nat
  BY SeenRoom
<1>3. v.eligible \subseteq Node /\ v.starting \subseteq Node
  BY SeenType
<1>4. ~Refused.fits
  BY DEF Refused
<1>5. \A J, on : x \in pair(J, on) => j \in J /\ x.on = on
  OBVIOUS
<1>a. \A n \in Node, u \in 0..100 :
         JudgeNode(p, w, n, v).fits /\ u <= JudgeNode(p, w, n, v).util => Room(p, n, r.split, u)
  <2>1. ASSUME NEW n \in Node, NEW u \in 0..100,
               JudgeNode(p, w, n, v).fits, u <= JudgeNode(p, w, n, v).util
        PROVE  Room(p, n, r.split, u)
    <3> DEFINE apart == r.split
    <3>1. apart \in BOOLEAN
      BY <1>0
    <3> HIDE DEF apart
    <3>2. Room(p, n, apart, u)
      BY <2>1, <3>1, RoomOfNode
    <3> QED BY <3>2 DEF apart
  <2>2. QED
    BY <2>1
<1>6. CASE r.split
  <2>1. PICK l \in S : x \in pair(split(l), l)
    BY <1>6 DEF Judgements
  <2>2. j \in split(l) /\ x.on = l
    BY <2>1
  <2>3. l # {} /\ j \in JudgeSplit(p, w, l, v) /\ l \in SUBSET Node
    BY <1>0, <1>4, <2>2
  <2>4. JudgedOn(q) = l
    BY <2>2, <2>3 DEF JudgedOn
  <2>5. \A n \in l : Unified(n) => Claim(j.util, n) <= Available(n, v.reserved[n])
    BY <1>2, <2>3, SplitRoom
  <2>6. \A n \in l : Room(p, n, r.split, j.util)
    BY <1>2, <1>6, <2>3, <2>5 DEF Room
  <2>7. QED
    BY <1>6, <2>2, <2>3, <2>4, <2>6 DEF Judgement
<1>7. CASE ~r.split
  <2>1. CASE r.nodes = {}
    <3>1. x \in pair(PlaceModel(p, w, NoNode, v), {})
      BY <1>7, <2>1 DEF Judgements
    <3>2. j \in PlaceModel(p, w, NoNode, v) /\ x.on = {}
      BY <3>1, <1>5
    <3>3. j.node # NoNode => j.node \in Node /\ j = JudgeNode(p, w, j.node, v)
      BY <1>3, <3>2, PlaceModelNode
    <3>4. \A n \in JudgedOn(q) : Room(p, n, r.split, j.util)
      <4>1. \A n \in JudgedOn(q) : n = j.node /\ n # NoNode
        BY <3>2 DEF JudgedOn
      <4>2. ASSUME j.node # NoNode PROVE Room(p, j.node, r.split, j.util)
        <5>1. JudgeNode(p, w, j.node, v).fits /\ j.util <= JudgeNode(p, w, j.node, v).util
          BY <1>1, <3>3, <4>2
        <5>2. QED
          BY <1>a, <1>1, <3>3, <4>2, <5>1
      <4>3. QED
        BY <4>1, <4>2
    <3>5. Pin(r) = NoNode
      BY <2>1, PinOfOne
    <3>6. QED
      BY <2>1, <3>4, <3>5 DEF Judgement
  <2>2. CASE Cardinality(r.nodes) = 1 /\ r.nodes # {}
    <3>1. PICK n \in r.nodes : x \in pair(PlaceModel(p, w, n, v), {})
      BY <1>7, <2>2 DEF Judgements
    <3>2. j \in PlaceModel(p, w, n, v) /\ x.on = {} /\ n \in Node
      BY <1>0, <3>1, <1>5
    <3>3. j.node = n
      BY <1>3, <3>2, PlaceModelNode, NoneAssumption
    <3>4. j = JudgeNode(p, w, n, v)
      BY <1>3, <3>2, <3>3, PlaceModelNode, NoneAssumption
    <3>5. JudgedOn(q) = {n}
      BY <3>2, <3>3, NoneAssumption DEF JudgedOn
    <3>6. Room(p, n, r.split, j.util)
      <4>1. JudgeNode(p, w, n, v).fits /\ j.util <= JudgeNode(p, w, n, v).util
        BY <1>1, <3>4
      <4>2. QED
        BY <1>a, <1>1, <3>2, <4>1
    <3>7. r.nodes = {n}
      <4>1. IsFiniteSet(r.nodes)
        BY <1>0, SetAssumption, FS_Subset
      <4>2. QED
        BY <2>2, <4>1, FS_Singleton
    <3>8. Pin(r) = n
      BY <1>7, <3>2, <3>7, PinOfOne
    <3>9. QED
      BY <3>3, <3>5, <3>6, <3>7, <3>8 DEF Judgement
  <2>3. CASE r.nodes # {} /\ Cardinality(r.nodes) # 1
    <3>1. x \in pair(JudgeCopies(p, w, r.nodes, v), r.nodes)
      BY <1>7, <2>3 DEF Judgements
    <3>2. j \in JudgeCopies(p, w, r.nodes, v) /\ x.on = r.nodes
      BY <3>1, <1>5
    <3>3. JudgedOn(q) = r.nodes
      BY <2>3, <3>2 DEF JudgedOn
    <3>4. \A n \in r.nodes : JudgeNode(p, w, n, v).fits /\ j.util <= JudgeNode(p, w, n, v).util
      BY <1>0, <1>2, <1>3, <3>2, CopiesRoom
    <3>5. \A n \in r.nodes : Room(p, n, r.split, j.util)
      BY <1>a, <1>0, <1>1, <3>4
    <3>6. QED
      BY <2>3, <3>2, <3>3, <3>5 DEF Judgement
  <2>4. QED
    BY <2>1, <2>2, <2>3
<1>8. QED
  BY <1>6, <1>7

-----------------------------------------------------------------------------
(* Steps *)

(* A step that moves one model keeps the headroom where the model stays as it
   was, or its claim fits beside the others. *)
LEMMA HeadroomAfter ==
    ASSUME TypeOK, TypeOK', Headroomed, NEW p \in Preset,
           \A q \in Preset \ {p} : obj'[q] = obj[q] /\ judged'[q] = judged[q],
           \A n \in Node : Unified(n) /\ JudgedAs(p, n)' =>
              \/ JudgedAs(p, n) /\ obj'[p].util = obj[p].util
              \/ Claim(obj'[p].util, n) + Total(ClaimOn(n), Standing(n) \ {p})
                    <= AtLeast(Memory(n) - Headroom, 0)
    PROVE  Headroomed'
<1> SUFFICES ASSUME NEW n \in Node, Unified(n)
             PROVE  Total(ClaimOn(n)', Standing(n)') <= AtLeast(Memory(n) - Headroom, 0)
  BY DEF Headroomed
<1> DEFINE f == ClaimOn(n)
           g == ClaimOn(n)'
           S == Standing(n)
           R == Standing(n)'
           B == AtLeast(Memory(n) - Headroom, 0)
<1>1. f \in [Preset -> Nat] /\ g \in [Preset -> Nat]
  <2>1. \A q \in Preset : obj[q].util \in 0..100 /\ obj'[q].util \in 0..100
    BY DEF TypeOK, Object
  <2>2. QED
    BY <2>1, ClaimType DEF ClaimOn
<1>2. /\ S \in SUBSET Preset /\ IsFiniteSet(S) /\ S \ {p} \in SUBSET Preset /\ IsFiniteSet(S \ {p})
      /\ R \in SUBSET Preset /\ IsFiniteSet(R) /\ R \ {p} \in SUBSET Preset
  <2>1. S \in SUBSET Preset /\ R \in SUBSET Preset
    BY DEF Standing
  <2>2. QED
    BY <2>1, PresetsFinite
<1>3. R \ {p} = S \ {p} /\ \A q \in S \ {p} : g[q] = f[q]
  BY DEF Standing, JudgedAs, ClaimOn
<1>4. S \ {p} \in SUBSET (S \ {p}) /\ S \ {p} \in SUBSET S /\ \A q \in S \ {p} : f[q] \in Nat
  BY <1>1, <1>2
<1>5. Total(f, S) <= B
  BY DEF Headroomed
<1>6. p \in S => f[p] = Claim(obj[p].util, n)
  BY DEF ClaimOn
<1>7. p \in R => g[p] = Claim(obj'[p].util, n)
  BY DEF ClaimOn
<1>8. p \in R => \/ p \in S /\ g[p] = f[p]
                 \/ g[p] + Total(f, S \ {p}) <= B
  BY <1>6, <1>7 DEF Standing
<1> HIDE DEF f, g, S, R, B
<1>9. Total(g, S \ {p}) <= Total(f, S \ {p})
  BY <1>1, <1>2, <1>3, <1>4, TotalGrows
<1>10. Total(f, S \ {p}) <= Total(f, S)
  BY <1>1, <1>2, <1>4, TotalGrows
<1>11. Total(g, S \ {p}) \in Nat /\ Total(f, S \ {p}) \in Nat /\ Total(f, S) \in Nat
  BY <1>1, <1>2, TotalType
<1>12. B \in Int
  BY NodeTypes, HeadroomAssumption DEF B, AtLeast
<1>13. p \in R => Total(g, R) = g[p] + Total(g, S \ {p})
  BY <1>1, <1>2, <1>3, TotalSplits
<1>14. p \in S => Total(f, S) = f[p] + Total(f, S \ {p})
  BY <1>1, <1>2, TotalSplits
<1>15. p \notin R => R = S \ {p}
  BY <1>3
<1>16. f[p] \in Nat /\ g[p] \in Nat
  BY <1>1
<1>17. Total(g, R) <= B
  BY <1>5, <1>8, <1>9, <1>10, <1>11, <1>12, <1>13, <1>14, <1>15, <1>16
<1>18. QED
  BY <1>17 DEF g, R, B

(* A step that moves one model keeps the devices where it takes no more than
   it did, or what it takes fits beside the others. *)
LEMMA EquippedAfter ==
    ASSUME TypeOK, TypeOK', Equipped, NEW p \in Preset,
           \A q \in Preset \ {p} : obj'[q] = obj[q] /\ judged'[q] = judged[q],
           \A n \in Node : Discrete(n) /\ p \in Carded(n)' =>
              \/ p \in Carded(n) /\ obj'[p].devices = obj[p].devices
              \/ Gpus(p) + Total(Devices, Carded(n) \ {p}) <= GpuDevices(n)
    PROVE  Equipped'
<1> SUFFICES ASSUME NEW n \in Node, Discrete(n)
             PROVE  Total(Devices', Carded(n)') <= GpuDevices(n)
  BY DEF Equipped
<1> DEFINE f == Devices
           g == Devices'
           S == Carded(n)
           R == Carded(n)'
           B == GpuDevices(n)
<1>1. f \in [Preset -> Nat] /\ g \in [Preset -> Nat]
  BY DEF TypeOK, Object, Devices
<1>2. /\ S \in SUBSET Preset /\ IsFiniteSet(S) /\ S \ {p} \in SUBSET Preset /\ IsFiniteSet(S \ {p})
      /\ R \in SUBSET Preset /\ IsFiniteSet(R) /\ R \ {p} \in SUBSET Preset
  <2>1. S \in SUBSET Preset /\ R \in SUBSET Preset
    BY DEF Carded
  <2>2. QED
    BY <2>1, PresetsFinite
<1>3. R \ {p} = S \ {p} /\ \A q \in S \ {p} : g[q] = f[q]
  BY DEF Carded, Devices
<1>4. S \ {p} \in SUBSET (S \ {p}) /\ S \ {p} \in SUBSET S /\ \A q \in S \ {p} : f[q] \in Nat
  BY <1>1, <1>2
<1>5. Total(f, S) <= B
  BY DEF Equipped
<1>6. f[p] = obj[p].devices /\ g[p] = obj'[p].devices /\ (p \in R => g[p] <= Gpus(p))
  BY DEF Devices, Carded
<1>7. Gpus(p) \in Nat /\ B \in Nat
  BY NodeTypes, PresetTypes DEF GpuDevices, NodeFacts
<1>8. p \in R => \/ p \in S /\ g[p] = f[p]
                 \/ Gpus(p) + Total(f, S \ {p}) <= B
  BY <1>6
<1> HIDE DEF f, g, S, R, B
<1>9. Total(g, S \ {p}) <= Total(f, S \ {p})
  BY <1>1, <1>2, <1>3, <1>4, TotalGrows
<1>10. Total(f, S \ {p}) <= Total(f, S)
  BY <1>1, <1>2, <1>4, TotalGrows
<1>11. Total(g, S \ {p}) \in Nat /\ Total(f, S \ {p}) \in Nat /\ Total(f, S) \in Nat
  BY <1>1, <1>2, TotalType
<1>12. p \in R => Total(g, R) = g[p] + Total(g, S \ {p})
  BY <1>1, <1>2, <1>3, TotalSplits
<1>13. p \in S => Total(f, S) = f[p] + Total(f, S \ {p})
  BY <1>1, <1>2, TotalSplits
<1>14. p \notin R => R = S \ {p}
  BY <1>3
<1>15. f[p] \in Nat /\ g[p] \in Nat
  BY <1>1
<1>16. Total(g, R) <= B
  BY <1>5, <1>6, <1>7, <1>8, <1>9, <1>10, <1>11, <1>12, <1>13, <1>14, <1>15
<1>17. QED
  BY <1>16 DEF g, R, B

(* While objects and pods stay, so does what the fit check sees. *)
LEMMA RoomStays ==
    ASSUME obj' = obj, pods' = pods
    PROVE  /\ \A p, n, split, u : Room(p, n, split, u)' <=> Room(p, n, split, u)
           /\ \A p : ServingNodes(p)' = ServingNodes(p)
           /\ Settled' <=> Settled
<1>1. \A p, n : Reserved(p, n)' = Reserved(p, n)
  BY SMT DEF Reserved, Others, On, Parts, MapThenSumSet, MapThenFoldSet
<1>2. \A p, n : Taken(p, n)' = Taken(p, n)
  BY SMT DEF Taken, Others, On, MapThenSumSet, MapThenFoldSet
<1>3. QED
  BY <1>1, <1>2 DEF Room, ServingNodes, Settled

(* With no load under way nothing is left to hold of one. *)
LEMMA NoneUnderWay ==
    ASSUME \A c \in Call : call'[c].pc = "idle"
    PROVE  OneByOne' /\ Roomy'
  BY DEF OneByOne, Roomy

(* What is judged, recorded and running stays. *)
LEMMA KeptStays ==
    ASSUME Headroomed, Equipped, Placed, obj' = obj, judged' = judged, pods' = pods
    PROVE  Headroomed' /\ Equipped' /\ Placed'
<1>1. \A n : ClaimOn(n)' = ClaimOn(n) /\ Standing(n)' = Standing(n) /\ Carded(n)' = Carded(n)
  BY DEF ClaimOn, Standing, JudgedAs, Carded
<1>2. Devices' = Devices
  BY DEF Devices
<1>3. Headroomed' /\ Equipped'
  BY <1>1, <1>2 DEF Headroomed, Equipped
<1>4. Placed'
  BY DEF Placed, PlacedWell, ServingNodes
<1>5. QED
  BY <1>3, <1>4

(* Fewer pods, and nothing else. *)
LEMMA PodsLeave ==
    ASSUME TypeOK, Headroomed, Equipped, Placed, Quiet, obj' = obj, judged' = judged, call' = call,
           \A p \in Preset : pods'[p] \subseteq pods[p]
    PROVE  Headroomed' /\ Equipped' /\ Placed' /\ OneByOne' /\ Roomy'
<1>1. \A n : ClaimOn(n)' = ClaimOn(n) /\ Standing(n)' = Standing(n) /\ Carded(n)' = Carded(n)
  BY DEF ClaimOn, Standing, JudgedAs, Carded
<1>2. Devices' = Devices
  BY DEF Devices
<1>3. Headroomed' /\ Equipped'
  BY <1>1, <1>2 DEF Headroomed, Equipped
<1>4. ASSUME NEW p \in Preset PROVE PlacedWell(p)'
  <2>1. PlacedWell(p)
    BY DEF Placed
  <2>2. ServingNodes(p)' \subseteq ServingNodes(p)
    BY DEF ServingNodes
  <2>3. ServingNodes(p)' # {} => \A n \in Node : judged'[p][n] > 0 => n \in ServingNodes(p)'
    <3>1. CASE obj[p].nodes # {} \/ obj[p].pin # NoNode
      BY <2>1, <3>1 DEF PlacedWell, ServingNodes
    <3>2. CASE obj[p].nodes = {} /\ obj[p].pin = NoNode
      <4>1. \A m, n \in pods[p] : m = n
        BY <2>1, <3>2 DEF PlacedWell
      <4>2. pods'[p] # {} => pods'[p] = pods[p]
        BY <4>1
      <4>3. QED
        BY <2>1, <3>2, <4>2 DEF PlacedWell, ServingNodes
    <3>3. QED
      BY <3>1, <3>2
  <2>4. QED
    BY <2>1, <2>3 DEF PlacedWell
<1>5. OneByOne' /\ Roomy'
  BY NoneUnderWay DEF Quiet
<1>6. QED
  BY <1>3, <1>4, <1>5 DEF Placed

(* A load is judged (Serve, up to the verdict). *)
LEMMA JudgeKeeps ==
    ASSUME TypeOK, TypeOK', calm, Headroomed, Equipped, Placed, OneByOne, Roomy,
           NEW c \in Call, NEW p \in Preset, NEW r \in Request, Judge(c, p, r)
    PROVE  Headroomed' /\ Equipped' /\ Placed' /\ OneByOne' /\ Roomy'
<1>1. obj' = obj /\ pods' = pods /\ judged' = judged /\ Quiet /\ Settled
  BY DEF Judge, Starts
<1>2. Headroomed' /\ Equipped' /\ Placed'
  BY <1>1, KeptStays
<1>3. PICK w \in {PresetFact[p].hub, PresetFact[p].declared} : \E j \in Judgements(p, w, r) :
         call' = [call EXCEPT ![c] = [Idle EXCEPT !.pc = "look", !.preset = p, !.request = r,
                                         !.verdict = j.verdict, !.on = j.on]]
  BY DEF Judge, Goes
<1>4. PICK j \in Judgements(p, w, r) :
         call' = [call EXCEPT ![c] = [Idle EXCEPT !.pc = "look", !.preset = p, !.request = r,
                                         !.verdict = j.verdict, !.on = j.on]]
  BY <1>3
<1> DEFINE q == call'[c]
<1>5. q.pc = "look" /\ q.preset = p /\ q.request = r /\ q.verdict = j.verdict /\ q.on = j.on
  BY <1>4, IdleType DEF TypeOK, CallState
<1>6. \A d \in Call \ {c} : call'[d].pc = "idle"
  BY <1>1, <1>4 DEF TypeOK, Quiet
<1>7. OneByOne'
  BY <1>1, <1>6, RoomStays DEF OneByOne
<1>8. w \in Nat
  BY PresetTypes
<1>9. q.verdict.fits => Judgement(q)
  <2> HIDE DEF q
  <2>1. QED
    BY <1>5, <1>8, JudgementsRoom
<1>10. q.verdict.fits => Judgement(call[c])'
  <2>1. \A n, s, u : Room(p, n, s, u)' <=> Room(p, n, s, u)
    BY <1>1, RoomStays
  <2>2. QED
    BY <1>5, <1>9, <2>1 DEF Judgement, JudgedOn
<1>11. Roomy'
  BY <1>5, <1>6, <1>10 DEF Roomy
<1>12. QED
  BY <1>2, <1>7, <1>11

(* It looks at its preset's object (Serve). *)
LEMMA LookKeeps ==
    ASSUME TypeOK, TypeOK', calm, Headroomed, Equipped, Placed, OneByOne, Roomy,
           NEW c \in Call, Look(c)
    PROVE  Headroomed' /\ Equipped' /\ Placed' /\ OneByOne' /\ Roomy'
<1> DEFINE q == call[c]
           p == q.preset
           create == [q EXCEPT !.pc = "create"]
           add == [q EXCEPT !.pc = "add", !.seen = obj[p].rv,
                            !.on = ServingNodes(p) \cup q.request.nodes]
<1>1. obj' = obj /\ pods' = pods /\ judged' = judged /\ q.pc = "look"
  BY DEF Look
<1>2. Headroomed' /\ Equipped' /\ Placed'
  BY <1>1, KeptStays
<1>3. \A d \in Call \ {c} : call'[d] = call[d] /\ call[d].pc = "idle"
  BY <1>1 DEF Look, Goes, Done, TypeOK, OneByOne
<1>4. Settled /\ q \in CallState
  BY <1>1, CallType DEF OneByOne
<1>5. OneByOne'
  BY <1>1, <1>3, <1>4, RoomStays DEF OneByOne
<1>6. q.verdict.fits => Judgement(q)
  BY <1>1, Zenon DEF Roomy
<1>7. \A x, n, s, u : Room(x, n, s, u)' <=> Room(x, n, s, u)
  BY <1>1, RoomStays
<1>8. \A x : ServingNodes(x)' = ServingNodes(x)
  BY <1>1, RoomStays
<1>9. CASE call'[c] = create /\ q.verdict.fits
  <2>1. /\ create.pc = "create" /\ create.preset = p /\ create.request = q.request
        /\ create.verdict = q.verdict /\ create.on = q.on
    BY <1>4 DEF CallState
  <2> HIDE DEF create
  <2>2. Judgement(call[c])'
    BY <1>6, <1>7, <1>9, <2>1 DEF Judgement, JudgedOn
  <2>3. Roomy'
    BY <1>3, <1>9, <2>1, <2>2 DEF Roomy
  <2>4. QED
    BY <1>2, <1>5, <2>3
<1>10. CASE /\ call'[c] = add
            /\ obj[p].state = "up" /\ ~obj[p].split /\ ServingNodes(p) # {}
            /\ q.verdict.fits /\ ~q.request.split /\ q.request.nodes # {}
  <2>1. /\ add.pc = "add" /\ add.preset = p /\ add.request = q.request
        /\ add.verdict = q.verdict /\ add.on = ServingNodes(p) \cup q.request.nodes
    BY <1>4 DEF CallState
  <2> HIDE DEF add
  <2>2. \A n \in q.request.nodes : Room(p, n, FALSE, q.verdict.util)
    <3>1. JudgedOn(q) = q.request.nodes
      BY <1>6, <1>10 DEF Judgement
    <3>2. \A n \in q.request.nodes : Room(p, n, q.request.split, q.verdict.util)
      BY <1>6, <1>10, <3>1 DEF Judgement
    <3>3. QED
      BY <1>10, <3>2 DEF Room
  <2>3. Addition(call[c])'
    BY <1>1, <1>7, <1>8, <1>10, <2>1, <2>2 DEF Addition
  <2>4. Roomy'
    BY <1>3, <1>10, <2>1, <2>3 DEF Roomy
  <2>5. QED
    BY <1>2, <1>5, <2>4
<1>11. CASE call'[c] = Idle
  <2>1. Roomy'
    BY <1>3, <1>11 DEF Roomy, Idle
  <2>2. QED
    BY <1>2, <1>5, <2>1
<1>12. QED
  BY <1>9, <1>10, <1>11, LookGoes

(* The object is created (composeLLM, applyCopies): it claims, and takes, what
   its verdict left room for. *)
LEMMA CreateKeeps ==
    ASSUME TypeOK, TypeOK', calm, Headroomed, Equipped, Placed, OneByOne, Roomy,
           NEW c \in Call, Create(c)
    PROVE  Headroomed' /\ Equipped' /\ Placed' /\ OneByOne' /\ Roomy'
<1> DEFINE q == call[c]
<1>p. PICK p \in Preset : p = q.preset
  BY CallType
<1>1. /\ q.pc = "create" /\ pods' = pods
      /\ q \in CallState /\ q.verdict \in Verdict /\ q.on \in SUBSET Node
  BY CallType DEF Create
<1>2. OneByOne' /\ Roomy'
  <2>1. \A d \in Call : call'[d].pc = "idle"
    BY <1>1 DEF Create, Goes, Done, TypeOK, OneByOne, Idle
  <2>2. QED
    BY <2>1, NoneUnderWay
<1>3. CASE obj[p].state # "none"
  <2>1. obj' = obj /\ judged' = judged
    BY <1>3, <1>p DEF Create
  <2>2. QED
    BY <1>1, <1>2, <2>1, KeptStays
<1>4. CASE obj[p].state = "none"
  <2> DEFINE u == q.verdict.util
  <2>1. /\ obj'[p].state = "up" /\ obj'[p].pin = Pin(q.request) /\ obj'[p].nodes = q.on
        /\ obj'[p].split = q.request.split /\ obj'[p].devices = q.verdict.devices
        /\ obj'[p].util = u
        /\ \A x \in Preset \ {p} : obj'[x] = obj[x] /\ judged'[x] = judged[x]
        /\ judged'[p] = [n \in Node |-> IF n \in JudgedOn(q) THEN u ELSE 0]
    BY <1>1, <1>4, <1>p DEF Create, TypeOK
  <2>2. Settled /\ Judgement(q) /\ PlacedWell(p)
    BY <1>1 DEF OneByOne, Roomy, Placed
  <2>3. pods[p] = {} /\ \A n \in Node : judged[p][n] = 0
    BY <1>4, <2>2 DEF PlacedWell
  <2>4. u \in 0..100
    BY <1>1 DEF Verdict
  <2>5. \A n \in Node : judged'[p][n] > 0 => n \in JudgedOn(q)
    BY <2>1
  <2>6. Headroomed'
    <3>1. ASSUME NEW n \in Node, Unified(n), JudgedAs(p, n)'
          PROVE  Claim(obj'[p].util, n) + Total(ClaimOn(n), Standing(n) \ {p})
                    <= AtLeast(Memory(n) - Headroom, 0)
      <4>1. n \in JudgedOn(q)
        BY <2>5, <3>1 DEF JudgedAs
      <4>2. Claim(u, n) <= Available(n, Reserved(p, n))
        BY <1>p, <2>2, <3>1, <4>1 DEF Judgement, Room
      <4> HIDE DEF u
      <4>3. QED
        BY <1>1, <2>1, <2>2, <2>4, <3>1, <4>2, RoomForClaim
    <3> HIDE DEF u
    <3>2. QED
      BY <1>1, <2>1, <3>1, HeadroomAfter
  <2>7. Equipped'
    <3>1. ASSUME NEW n \in Node, Discrete(n), p \in Carded(n)'
          PROVE  Gpus(p) + Total(Devices, Carded(n) \ {p}) <= GpuDevices(n)
      <4>1. n \in JudgedOn(q) /\ ~q.request.split
        BY <2>1, <2>5, <3>1 DEF Carded
      <4>2. FreeGPUs(n, Taken(p, n)) >= Gpus(p)
        BY <1>p, <2>2, <3>1, <4>1 DEF Judgement, Room
      <4>3. QED
        BY <1>1, <2>2, <3>1, <4>2, RoomForCards
    <3>2. QED
      BY <1>1, <2>1, <3>1, EquippedAfter
  <2>8. Placed'
    <3>1. ASSUME NEW x \in Preset, x # p PROVE PlacedWell(x)'
      <4>1. obj'[x] = obj[x] /\ judged'[x] = judged[x] /\ PlacedWell(x)
        BY <2>1, <3>1 DEF Placed
      <4>2. QED
        BY <1>1, <4>1 DEF PlacedWell, ServingNodes
    <3>2. ServingNodes(p)' # {} => \A n \in Node : judged'[p][n] > 0 => n \in ServingNodes(p)'
      <4>1. CASE q.on # {}
        BY <2>1, <2>5, <4>1 DEF ServingNodes, JudgedOn
      <4>2. CASE q.on = {} /\ Pin(q.request) # NoNode
        BY <2>1, <2>2, <2>5, <4>2 DEF ServingNodes, JudgedOn, Judgement
      <4>3. CASE q.on = {} /\ Pin(q.request) = NoNode
        BY <1>1, <2>1, <2>3, <4>3 DEF ServingNodes
      <4>4. QED
        BY <4>1, <4>2, <4>3
    <3>3. PlacedWell(p)'
      BY <1>1, <2>1, <2>3, <3>2 DEF PlacedWell
    <3>4. QED
      BY <3>1, <3>3 DEF Placed
  <2>9. QED
    BY <1>2, <2>6, <2>7, <2>8
<1>5. QED
  BY <1>3, <1>4

(* Copies are added (addCopies): each claims at most what its verdict left room
   for, and takes the preset's devices where they were free. *)
LEMMA AddKeeps ==
    ASSUME TypeOK, TypeOK', calm, Headroomed, Equipped, Placed, OneByOne, Roomy,
           NEW c \in Call, AddCopies(c)
    PROVE  Headroomed' /\ Equipped' /\ Placed' /\ OneByOne' /\ Roomy'
<1> DEFINE q == call[c]
<1>p. PICK p \in Preset : p = q.preset
  BY CallType
<1>1. /\ q.pc = "add" /\ pods' = pods
      /\ q \in CallState /\ q.verdict \in Verdict /\ q.request.nodes \in SUBSET Node
  BY CallType DEF AddCopies, Request
<1>2. OneByOne' /\ Roomy'
  <2>1. \A d \in Call : call'[d].pc = "idle"
    BY <1>1 DEF AddCopies, Goes, Done, TypeOK, OneByOne, Idle
  <2>2. QED
    BY <2>1, NoneUnderWay
<1>3. CASE ~(obj[p].state # "none" /\ obj[p].rv = q.seen)
  <2>1. obj' = obj /\ judged' = judged
    BY <1>3, <1>p DEF AddCopies
  <2>2. QED
    BY <1>1, <1>2, <2>1, KeptStays
<1>4. CASE obj[p].state # "none" /\ obj[p].rv = q.seen
  <2> DEFINE u == q.verdict.util
  <2>0. obj[p] \in Object /\ judged[p] \in [Node -> 0..100]
    BY DEF TypeOK
  <2>1. /\ obj'[p].state = obj[p].state /\ obj'[p].pin = NoNode /\ obj'[p].nodes = q.on
        /\ obj'[p].split = obj[p].split /\ obj'[p].devices = obj[p].devices
        /\ obj'[p].util = obj[p].util
        /\ \A x \in Preset \ {p} : obj'[x] = obj[x] /\ judged'[x] = judged[x]
        /\ judged'[p] = [n \in Node |-> IF n \in q.request.nodes THEN u ELSE judged[p][n]]
    <3>1. /\ obj' = [obj EXCEPT ![p].rv = writes + 1, ![p].pin = NoNode, ![p].nodes = q.on]
          /\ judged' = [judged EXCEPT ![p] =
                [n \in Node |-> IF n \in q.request.nodes THEN u ELSE judged[p][n]]]
      BY <1>4, <1>p DEF AddCopies
    <3>2. obj'[p] = [obj[p] EXCEPT !.rv = writes + 1, !.pin = NoNode, !.nodes = q.on]
      BY <3>1 DEF TypeOK
    <3>3. /\ obj'[p].state = obj[p].state /\ obj'[p].pin = NoNode /\ obj'[p].nodes = q.on
          /\ obj'[p].split = obj[p].split /\ obj'[p].devices = obj[p].devices
          /\ obj'[p].util = obj[p].util
      BY <2>0, <3>2 DEF Object
    <3>4. /\ \A x \in Preset \ {p} : obj'[x] = obj[x] /\ judged'[x] = judged[x]
          /\ judged'[p] = [n \in Node |-> IF n \in q.request.nodes THEN u ELSE judged[p][n]]
      BY <3>1 DEF TypeOK
    <3>5. QED
      BY <3>3, <3>4
  <2>2. Settled /\ Addition(q) /\ PlacedWell(p)
    BY <1>1 DEF OneByOne, Roomy, Placed
  <2>3. /\ obj[p].state = "up" /\ ServingNodes(p) # {}
        /\ q.on = ServingNodes(p) \cup q.request.nodes
    BY <1>p, <2>2 DEF Addition
  <2>4. u \in 0..100 /\ obj[p].util \in 0..100
    BY <1>1, <2>0 DEF Verdict, Object
  <2>5. \A n \in Node \ q.request.nodes : judged'[p][n] = judged[p][n]
    BY <2>1
  <2>6. \A n \in q.request.nodes : judged'[p][n] = u /\ Room(p, n, FALSE, u)
    BY <1>1, <1>p, <2>1, <2>2 DEF Addition
  <2>7. Headroomed'
    <3>1. ASSUME NEW n \in Node, Unified(n), JudgedAs(p, n)'
          PROVE  \/ JudgedAs(p, n) /\ obj'[p].util = obj[p].util
                 \/ Claim(obj'[p].util, n) + Total(ClaimOn(n), Standing(n) \ {p})
                       <= AtLeast(Memory(n) - Headroom, 0)
      <4>1. CASE n \notin q.request.nodes
        BY <2>1, <2>5, <3>1, <4>1 DEF JudgedAs
      <4>2. CASE n \in q.request.nodes
        <5>1. obj[p].util <= u /\ Claim(u, n) <= Available(n, Reserved(p, n))
          BY <2>1, <2>6, <3>1, <4>2 DEF JudgedAs, Room
        <5> HIDE DEF u
        <5>2. Claim(obj[p].util, n) <= Claim(u, n)
          BY <2>4, <5>1, ClaimGrows
        <5>3. Claim(u, n) + Total(ClaimOn(n), Standing(n) \ {p}) <= AtLeast(Memory(n) - Headroom, 0)
          BY <2>2, <2>4, <3>1, <5>1, RoomForClaim
        <5>4. Claim(u, n) \in Nat /\ Claim(obj[p].util, n) \in Nat
          BY <2>4, ClaimType
        <5>5. Total(ClaimOn(n), Standing(n) \ {p}) \in Nat
          <6>1. Standing(n) \ {p} \in SUBSET Preset /\ IsFiniteSet(Standing(n) \ {p})
            BY PresetsFinite DEF Standing
          <6>2. QED
            BY <6>1, SumTypes, TotalType
        <5>6. AtLeast(Memory(n) - Headroom, 0) \in Int
          BY NodeTypes, HeadroomAssumption DEF AtLeast
        <5>7. QED
          BY <2>1, <5>2, <5>3, <5>4, <5>5, <5>6
      <4>3. QED
        BY <4>1, <4>2
    <3>2. QED
      BY <2>1, <3>1, HeadroomAfter
  <2>8. Equipped'
    <3>1. ASSUME NEW n \in Node, Discrete(n), p \in Carded(n)'
          PROVE  \/ p \in Carded(n) /\ obj'[p].devices = obj[p].devices
                 \/ Gpus(p) + Total(Devices, Carded(n) \ {p}) <= GpuDevices(n)
      <4>1. CASE n \notin q.request.nodes
        BY <2>1, <2>5, <3>1, <4>1 DEF Carded
      <4>2. CASE n \in q.request.nodes
        <5>1. FreeGPUs(n, Taken(p, n)) >= Gpus(p)
          BY <2>6, <3>1, <4>2 DEF Room
        <5>2. QED
          BY <2>2, <3>1, <5>1, RoomForCards
      <4>3. QED
        BY <4>1, <4>2
    <3>2. QED
      BY <2>1, <3>1, EquippedAfter
  <2>9. Placed'
    <3>1. ASSUME NEW x \in Preset, x # p PROVE PlacedWell(x)'
      <4>1. obj'[x] = obj[x] /\ judged'[x] = judged[x] /\ PlacedWell(x)
        BY <2>1, <3>1 DEF Placed
      <4>2. QED
        BY <1>1, <4>1 DEF PlacedWell, ServingNodes
    <3>2. ServingNodes(p)' = q.on /\ q.on # {}
      BY <2>1, <2>3 DEF ServingNodes
    <3>3. \A n \in Node : judged'[p][n] > 0 => n \in q.on
      BY <2>2, <2>3, <2>5 DEF PlacedWell
    <3>4. PlacedWell(p)'
      BY <2>1, <2>3, <3>2, <3>3 DEF PlacedWell
    <3>5. QED
      BY <3>1, <3>4 DEF Placed
  <2>10. QED
    BY <1>2, <2>7, <2>8, <2>9
<1>5. QED
  BY <1>3, <1>4

(* With every pod where it belongs nothing binds, and nothing goes. *)
LEMMA NoneMoves ==
    ASSUME TypeOK, OneByOne, NEW p \in Preset,
           Gone(p) \/ \E n \in Node : Bind(p, n)
    PROVE  Quiet
<1>1. ~Settled
  BY DEF Gone, Bind, Settled, Allowed
<1>2. QED
  BY <1>1 DEF OneByOne, Quiet

(* A model is stopped, or its object is gone (Stop). *)
LEMMA StopKeeps ==
    ASSUME TypeOK, TypeOK', calm, Headroomed, Equipped, Placed, OneByOne, Roomy,
           NEW p \in Preset, Stop(p) \/ Gone(p)
    PROVE  Headroomed' /\ Equipped' /\ Placed' /\ OneByOne' /\ Roomy'
<1>1. Quiet /\ call' = call
  BY NoneMoves DEF Stop, Gone, Starts
<1>2. OneByOne' /\ Roomy'
  BY <1>1, NoneUnderWay DEF Quiet
<1>3. obj[p] \in Object /\ PlacedWell(p)
  BY DEF TypeOK, Placed
<1>4. \A x \in Preset \ {p} : obj'[x] = obj[x] /\ judged'[x] = judged[x] /\ pods'[x] = pods[x]
  BY DEF Stop, Gone, TypeOK
<1>5. \A x \in Preset \ {p} : PlacedWell(x)'
  BY <1>4 DEF Placed, PlacedWell, ServingNodes
<1>6. CASE Stop(p)
  <2>1. /\ obj'[p].state = "stopping" /\ obj'[p].util = obj[p].util
        /\ obj'[p].nodes = obj[p].nodes /\ obj'[p].pin = obj[p].pin
        /\ judged' = judged /\ pods' = pods
    BY <1>3, <1>6 DEF Stop, TypeOK, Object
  <2>2. Headroomed'
    BY <1>4, <2>1, HeadroomAfter DEF JudgedAs
  <2>3. \A n : p \notin Carded(n)'
    BY <2>1 DEF Carded
  <2>4. Equipped'
    BY <1>4, <2>3, EquippedAfter
  <2>5. PlacedWell(p)'
    BY <1>3, <2>1 DEF PlacedWell, ServingNodes
  <2>6. QED
    BY <1>2, <1>5, <2>2, <2>4, <2>5 DEF Placed
<1>7. CASE Gone(p)
  <2>1. obj'[p] = None /\ pods'[p] = {} /\ \A n \in Node : judged'[p][n] = 0
    BY <1>7 DEF Gone, TypeOK
  <2>2. \A n \in Node : ~JudgedAs(p, n)' /\ p \notin Carded(n)'
    BY <2>1 DEF JudgedAs, Carded
  <2>3. Headroomed' /\ Equipped'
    BY <1>4, <2>2, HeadroomAfter, EquippedAfter
  <2>4. PlacedWell(p)'
    BY <2>1 DEF PlacedWell, ServingNodes, None
  <2>5. QED
    BY <1>2, <1>5, <2>3, <2>4 DEF Placed
<1>8. QED
  BY <1>6, <1>7

(* A pod finds its node: what the model was judged at elsewhere no longer
   counts, unless its object names nodes. *)
LEMMA BindKeeps ==
    ASSUME TypeOK, TypeOK', calm, Headroomed, Equipped, Placed, OneByOne, Roomy,
           NEW p \in Preset, NEW n \in Node, Bind(p, n)
    PROVE  Headroomed' /\ Equipped' /\ Placed' /\ OneByOne' /\ Roomy'
<1>1. Quiet /\ call' = call /\ obj' = obj
  BY NoneMoves DEF Bind
<1>2. OneByOne' /\ Roomy'
  BY <1>1, NoneUnderWay DEF Quiet
<1>3. obj[p] \in Object /\ PlacedWell(p)
  BY DEF TypeOK, Placed
<1>4. \A x \in Preset \ {p} : judged'[x] = judged[x] /\ pods'[x] = pods[x]
  BY DEF Bind, TypeOK
<1>5. \A x \in Preset \ {p} : PlacedWell(x)'
  BY <1>1, <1>4 DEF Placed, PlacedWell, ServingNodes
<1>6. /\ obj[p].state = "up" /\ pods'[p] = pods[p] \cup {n}
      /\ obj[p].nodes = {} => pods[p] = {} /\ obj[p].pin \in {NoNode, n}
  BY DEF Bind, Allowed, TypeOK
<1>7. /\ Fixed(p) # {} => judged' = judged
      /\ Fixed(p) = {} => judged'[p] = [m \in Node |-> IF m = n THEN judged[p][m] ELSE 0]
  BY DEF Bind, TypeOK
<1>8. \A m \in Node : judged'[p][m] > 0 => judged'[p][m] = judged[p][m]
  BY <1>7
<1>9. Headroomed'
  <2>1. \A m \in Node : JudgedAs(p, m)' => JudgedAs(p, m)
    BY <1>1, <1>8 DEF JudgedAs
  <2>2. QED
    BY <1>1, <1>4, <2>1, HeadroomAfter
<1>10. Equipped'
  <2>1. \A m \in Node : p \in Carded(m)' => p \in Carded(m)
    BY <1>1, <1>8 DEF Carded
  <2>2. QED
    BY <1>1, <1>4, <2>1, EquippedAfter
<1>11. PlacedWell(p)'
  <2>1. CASE obj[p].nodes # {}
    BY <1>1, <1>3, <1>6, <1>7, <2>1 DEF PlacedWell, ServingNodes, Fixed
  <2>2. CASE obj[p].nodes = {} /\ obj[p].pin # NoNode
    BY <1>1, <1>3, <1>6, <1>7, <2>2 DEF PlacedWell, ServingNodes, Fixed
  <2>3. CASE obj[p].nodes = {} /\ obj[p].pin = NoNode
    BY <1>1, <1>3, <1>6, <1>7, <2>3 DEF PlacedWell, ServingNodes, Fixed
  <2>4. QED
    BY <2>1, <2>2, <2>3
<1>12. QED
  BY <1>2, <1>5, <1>9, <1>10, <1>11 DEF Placed

(* A pod, or a node, leaves; a node comes. *)
LEMMA MovesKeep ==
    ASSUME TypeOK, calm, Headroomed, Equipped, Placed, NEW n \in Node,
           \/ \E p \in Preset : Evict(p, n)
           \/ \E from, to \in {"none", "starting", "ready", "broken"} : NodeMoves(n, from, to)
           \/ NodeReady(n)
    PROVE  Headroomed' /\ Equipped' /\ Placed' /\ OneByOne' /\ Roomy'
<1>1. Quiet /\ obj' = obj /\ judged' = judged /\ call' = call
  BY DEF Evict, NodeMoves, NodeReady, Moves
<1>2. \A p \in Preset : pods'[p] \subseteq pods[p]
  <2>1. ASSUME NEW p \in Preset, Evict(p, n) PROVE \A q \in Preset : pods'[q] \subseteq pods[q]
    BY <2>1 DEF Evict, TypeOK
  <2>2. ASSUME NEW from, NEW to, NodeMoves(n, from, to)
        PROVE  \A q \in Preset : pods'[q] \subseteq pods[q]
    BY <2>2 DEF NodeMoves, TypeOK
  <2>3. QED
    BY <2>1, <2>2 DEF NodeReady
<1>3. QED
  BY <1>1, <1>2, PodsLeave

(* Loads that do not overlap keep all of it: what each was judged by still
   holds when it writes. *)
THEOREM CalmHolds == Spec => []Calm
<1>1. Init => Calm
  <2> SUFFICES ASSUME Init PROVE Calm
    OBVIOUS
  <2>1. \A n : Standing(n) = {} \/ n \notin Node
    BY DEF Init, Standing, JudgedAs
  <2>2. \A n : Carded(n) = {}
    BY DEF Init, Carded, None
  <2>3. TypeOK
    BY IdleType, NoneType DEF Init, TypeOK
  <2>4. \A n \in Node : Total(ClaimOn(n), {}) = 0 /\ Total(Devices, {}) = 0
    BY <2>3, SumTypes, TotalType, FS_EmptySet
  <2>5. \A n \in Node : AtLeast(Memory(n) - Headroom, 0) >= 0 /\ GpuDevices(n) >= 0
    BY NodeTypes, HeadroomAssumption DEF AtLeast, GpuDevices, NodeFacts
  <2>6. Headroomed /\ Equipped
    BY <2>1, <2>2, <2>4, <2>5 DEF Headroomed, Equipped
  <2>7. Placed
    BY DEF Init, Placed, PlacedWell, ServingNodes, None
  <2>8. OneByOne /\ Roomy
    BY DEF Init, OneByOne, Roomy, Idle
  <2>9. QED
    BY <2>6, <2>7, <2>8 DEF Calm
<1>2. TypeOK /\ TypeOK' /\ Calm /\ [Next]_vars => Calm'
  <2> SUFFICES ASSUME TypeOK, TypeOK', Calm, [Next]_vars, calm'
               PROVE  Headroomed' /\ Equipped' /\ Placed' /\ OneByOne' /\ Roomy'
    BY DEF Calm
  <2>1. calm
    BY DEF Next, Load, Judge, Look, Create, AddCopies, Stop, Gone, Cluster,
           NodeMoves, NodeReady, Bind, Evict, vars
  <2>2. Headroomed /\ Equipped /\ Placed /\ OneByOne /\ Roomy
    BY <2>1 DEF Calm
  <2>3. CASE \E c \in Call : Load(c)
    BY <2>1, <2>2, <2>3, JudgeKeeps, LookKeeps, CreateKeeps, AddKeeps DEF Load
  <2>4. CASE \E p \in Preset : Stop(p) \/ Gone(p)
    BY <2>1, <2>2, <2>4, StopKeeps
  <2>5. CASE \E n \in Node : Cluster(n)
    BY <2>1, <2>2, <2>5, BindKeeps, MovesKeep DEF Cluster
  <2>6. CASE UNCHANGED vars
    <3>1. obj' = obj /\ judged' = judged /\ pods' = pods /\ call' = call
      BY <2>6 DEF vars
    <3>2. Headroomed' /\ Equipped' /\ Placed'
      BY <2>2, <3>1, KeptStays
    <3>3. OneByOne'
      BY <2>2, <3>1, RoomStays DEF OneByOne
    <3>4. Roomy'
      <4>1. \A p, n, s, u : Room(p, n, s, u)' <=> Room(p, n, s, u)
        BY <3>1, RoomStays
      <4>2. \A p : ServingNodes(p)' = ServingNodes(p)
        BY <3>1, RoomStays
      <4>3. QED
        BY <2>2, <3>1, <4>1, <4>2 DEF Roomy, Judgement, JudgedOn, Addition
    <3>5. QED
      BY <3>2, <3>3, <3>4
  <2>7. QED
    BY <2>3, <2>4, <2>5, <2>6 DEF Next
<1>3. QED
  BY <1>1, <1>2, TypeCorrect, PTL DEF Spec

(* However loads, stops and evictions follow each other, as long as they do
   not overlap: on a unified-memory node whose models were all judged there,
   at the utilization they run at or a higher one, what vLLM claims leaves
   the host its headroom (unifiedClaimOn, sized, reservedByNode). *)
THEOREM HeadroomHolds == Spec => []HeadroomKept
<1>1. TypeOK /\ Calm => HeadroomKept
  <2> SUFFICES ASSUME TypeOK, Calm, calm, NEW n \in Node, Unified(n),
                      \A p \in Preset : n \in pods[p] => JudgedAs(p, n)
               PROVE  Claims(n) <= AtLeast(Memory(n) - Headroom, 0)
    BY DEF HeadroomKept
  <2> DEFINE S == {p \in Preset : n \in pods[p]}
             R == Standing(n)
             f == ClaimOn(n)
  <2>1. f \in [Preset -> Nat]
    BY SumTypes
  <2>2. S \in SUBSET R /\ R \in SUBSET Preset /\ S \in SUBSET Preset
    BY DEF Standing
  <2>3. Total(f, R) <= AtLeast(Memory(n) - Headroom, 0)
    BY DEF Calm, Headroomed
  <2>4. Claims(n) = Total(f, S)
    BY ClaimsIs
  <2>5. AtLeast(Memory(n) - Headroom, 0) \in Int
    BY NodeTypes, HeadroomAssumption DEF AtLeast
  <2> HIDE DEF f, S, R
  <2>6. Total(f, S) <= Total(f, R)
    BY <2>1, <2>2, TotalGrows, PresetsFinite
  <2>7. Total(f, S) \in Nat /\ Total(f, R) \in Nat
    BY <2>1, <2>2, TotalType, PresetsFinite
  <2>8. QED
    BY <2>3, <2>4, <2>5, <2>6, <2>7
<1>2. QED
  BY <1>1, TypeCorrect, CalmHolds, PTL

(* Loads that do not overlap never promise more devices of a node than it
   has, as long as the shapes derived for it are at most the presets' own
   (judgeNode, freeGPUs, withTaken). *)
THEOREM DevicesHold == Spec => []DevicesKept
<1>1. TypeOK /\ Calm => DevicesKept
  <2> SUFFICES ASSUME TypeOK, Calm, calm, NEW n \in Node, Discrete(n),
                      \A p \in Promised(n) : ~obj[p].split /\ obj[p].devices <= Gpus(p)
               PROVE  LET devices(p) == obj[p].devices
                      IN MapThenSumSet(devices, Promised(n)) <= GpuDevices(n)
    BY DEF DevicesKept
  <2> DEFINE S == Promised(n)
             R == Carded(n)
             f == Devices
             sum == LET devices(p) == obj[p].devices IN MapThenSumSet(devices, Promised(n))
  <2>1. f \in [Preset -> Nat]
    BY SumTypes
  <2>2. S \in SUBSET R /\ R \in SUBSET Preset /\ S \in SUBSET Preset
    BY DEF Promised, Carded
  <2>3. Total(f, R) <= GpuDevices(n)
    BY DEF Calm, Equipped
  <2>4. sum = Total(f, S)
    BY <2>2, DevicesAdd
  <2>5. GpuDevices(n) \in Int
    BY NodeTypes DEF GpuDevices, NodeFacts
  <2> HIDE DEF f, S, R
  <2>6. Total(f, S) <= Total(f, R)
    BY <2>1, <2>2, TotalGrows, PresetsFinite
  <2>7. Total(f, S) \in Nat /\ Total(f, R) \in Nat
    BY <2>1, <2>2, TotalType, PresetsFinite
  <2> HIDE DEF sum
  <2>8. sum <= GpuDevices(n)
    BY <2>3, <2>4, <2>5, <2>6, <2>7
  <2>9. QED
    BY <2>8 DEF sum
<1>2. QED
  BY <1>1, TypeCorrect, CalmHolds, PTL

-----------------------------------------------------------------------------
(* Sizing: what one sequence holds in the KV cache *)

(* needBytes: the groups of layers of a checkpoint, and its layers one by one. *)
ChunkOf(a, len, batched) == IF a.chunked THEN batched ELSE AtLeast(batched, len)
PerState(l, tp) == IF l.latent > 0 THEN l.latent ELSE 2 * AtLeast(l.heads \div tp, 1) * l.dim
ElemOf(c, a, l) == IF l.elem > 0 THEN l.elem ELSE ElemBytes(c, a)
Group(c, a, tp, len, batched, l) ==
    l.count * Blocks(l, a, len, ChunkOf(a, len, batched)) * (a.block \div l.per) * PerState(l, tp) * ElemOf(c, a, l)
Groups(c, a, tp, len, batched) == [l \in KvLayers(c) |-> Group(c, a, tp, len, batched, l)]
Singly(p, tp, len, batched) == [i \in DOMAIN Checkpoint[p].types |-> LayerHolds(p, i, tp, len, batched)]

(* needBytes: the sum over the groups, folded. *)
LEMMA NeedIs ==
    ASSUME NEW c, NEW a, NEW tp, NEW len, NEW batched
    PROVE  Need(c, a, tp, len, batched) = Total(Groups(c, a, tp, len, batched), KvLayers(c))
<1> DEFINE S == KvLayers(c)
           f == Groups(c, a, tp, len, batched)
           chunk == IF a.chunked THEN batched ELSE AtLeast(batched, len)
           perState(l) == IF l.latent > 0 THEN l.latent ELSE 2 * AtLeast(l.heads \div tp, 1) * l.dim
           elem(l) == IF l.elem > 0 THEN l.elem ELSE ElemBytes(c, a)
           of(l) == l.count * Blocks(l, a, len, chunk) * (a.block \div l.per) * perState(l) * elem(l)
           F(h) == [s \in SUBSET S |-> IF s = {} THEN 0
                      ELSE of(CHOOSE x \in s : TRUE) + h[s \ {CHOOSE x \in s : TRUE}]]
<1>1. Need(c, a, tp, len, batched) = (CHOOSE h : h = F(h))[S]
  BY DEF Need, MapThenSumSet, MapThenFoldSet
<1>2. \A l \in S : of(l) = f[l]
  BY DEF Groups, Group, ChunkOf, PerState, ElemOf
<1>3. \A s \in SUBSET S : s # {} => (CHOOSE x \in s : TRUE) \in S
  OBVIOUS
<1> HIDE DEF S, f, of
<1>4. \A h : F(h) = [s \in SUBSET S |-> Level(f, s, h)]
  BY <1>2, <1>3 DEF Level, First
<1> HIDE DEF F
<1>5. \A h : h = F(h) <=> Totals(f, S, h)
  BY <1>4 DEF Totals
<1>6. (CHOOSE h : h = F(h)) = (CHOOSE h : Totals(f, S, h))
  BY <1>5
<1> QED BY <1>1, <1>6, TotalUnfolds DEF f, S

(* What vLLM admits: the sum over the layers, folded. *)
LEMMA AdmitsIs ==
    ASSUME NEW p, NEW w, NEW tp, NEW u, NEW len, NEW mem, NEW a100
    PROVE  Admits(p, w, tp, u, len, mem, a100) <=>
             /\ w \div tp + Reserve < (u * mem) \div 100
             /\ Total(Singly(p, tp, len, Batched(Args[p], mem, a100)), DOMAIN Checkpoint[p].types)
                  + (w \div tp + Reserve) <= (u * mem) \div 100
<1> DEFINE S == DOMAIN Checkpoint[p].types
           b == Batched(Args[p], mem, a100)
           f == Singly(p, tp, len, b)
           holds(i) == LayerHolds(p, i, tp, len, b)
           F(h) == [s \in SUBSET S |-> IF s = {} THEN 0
                      ELSE holds(CHOOSE x \in s : TRUE) + h[s \ {CHOOSE x \in s : TRUE}]]
           sum == MapThenSumSet(holds, S)
<1>1. sum = (CHOOSE h : h = F(h))[S]
  BY DEF MapThenSumSet, MapThenFoldSet
<1>2. \A l \in S : holds(l) = f[l]
  BY DEF Singly
<1>3. \A s \in SUBSET S : s # {} => (CHOOSE x \in s : TRUE) \in S
  OBVIOUS
<1>a. Admits(p, w, tp, u, len, mem, a100) <=>
             /\ w \div tp + Reserve < (u * mem) \div 100
             /\ sum + (w \div tp + Reserve) <= (u * mem) \div 100
  BY DEF Admits
<1> HIDE DEF S, f, holds
<1>4. \A h : F(h) = [s \in SUBSET S |-> Level(f, s, h)]
  BY <1>2, <1>3 DEF Level, First
<1> HIDE DEF F, sum
<1>5. \A h : h = F(h) <=> Totals(f, S, h)
  BY <1>4 DEF Totals
<1>6. (CHOOSE h : h = F(h)) = (CHOOSE h : Totals(f, S, h))
  BY <1>5
<1>7. sum = Total(f, S)
  BY <1>1, <1>6, TotalUnfolds
<1> QED BY <1>a, <1>7 DEF S, f, b

(* The facts of a model as the check reads them (kvLayout, vllmArgs). *)
LEMMA ModelTypes ==
    ASSUME NEW p \in Preset
    PROVE  /\ Checkpoint[p].types \in Seq(STRING) /\ Checkpoint[p].shared \in Nat /\ Checkpoint[p].latent \in Nat
           /\ Checkpoint[p].heads \in Nat /\ Checkpoint[p].dim \in Nat
           /\ Checkpoint[p].wideHeads \in Nat /\ Checkpoint[p].wideDim \in Nat
           /\ Checkpoint[p].window \in Nat /\ Checkpoint[p].index \in Nat /\ Checkpoint[p].ratio \in Nat
           /\ Args[p].len \in Nat \ {0} /\ Args[p].batched \in Nat /\ Args[p].block \in Nat \ {0}
           /\ Args[p].chunked \in BOOLEAN /\ Args[p].tp \in Nat \ {0} /\ Args[p].cpu \in Nat
           /\ Args[p].pipeline \in BOOLEAN
<1>1. Checkpoint[p] \in CheckpointFacts /\ Args[p] \in ArgFacts
  BY ModelAssumption
<1> QED BY <1>1 DEF CheckpointFacts, ArgFacts

(* dtypeBytes *)
LEMMA ElemType ==
    ASSUME NEW c, NEW a PROVE ElemBytes(c, a) \in Nat
  BY DEF ElemBytes

(* A tensor-parallel share of the heads is one at least. *)
LEMMA HeadsType ==
    ASSUME NEW h \in Nat, NEW tp \in Nat \ {0} PROVE AtLeast(h \div tp, 1) \in Nat
<1>1. h \div tp \in Int
  OBVIOUS
<1>2. AtLeast(h \div tp, 1) \in Int /\ AtLeast(h \div tp, 1) >= 1
  BY <1>1 DEF AtLeast
<1> QED BY <1>2

(* The blocks of a layer that holds the whole sequence, and of one that holds
   its window and a chunk. *)
LEMMA BlocksType ==
    ASSUME NEW p \in Preset, NEW len \in Nat, NEW batched \in Nat, NEW window \in Nat
    PROVE  LET a == Args[p]
               chunk == ChunkOf(a, len, batched)
           IN /\ chunk \in Nat
              /\ CeilDiv(len, a.block) \in Nat
              /\ window > 0 => CeilDiv(AtMost(window - 1 + chunk, len), a.block) \in Nat
<1> DEFINE a == Args[p]
           chunk == ChunkOf(a, len, batched)
<1>1. a.block \in Nat \ {0} /\ chunk \in Nat
  BY ModelTypes DEF ChunkOf, AtLeast
<1> HIDE DEF chunk, a
<1>2. CeilDiv(len, a.block) \in Nat
  BY <1>1, CeilCovers
<1>3. ASSUME window > 0 PROVE CeilDiv(AtMost(window - 1 + chunk, len), a.block) \in Nat
  <2>1. AtMost(window - 1 + chunk, len) \in Nat
    BY <1>1, <1>3 DEF AtMost
  <2> QED BY <1>1, <2>1, CeilCovers
<1> QED BY <1>1, <1>2, <1>3 DEF a, chunk

(* The terms of LayerHolds: blocks of the whole sequence and of a window, and
   what a full layer, its index and a sliding layer hold in one. *)
Whole(p, len) == CeilDiv(len, Args[p].block)
Part(p, len, batched) == CeilDiv(AtMost(Checkpoint[p].window - 1 + ChunkOf(Args[p], len, batched), len), Args[p].block) + 1
EachWide(p, tp) == Args[p].block * 2 * AtLeast(Checkpoint[p].wideHeads \div tp, 1) * Checkpoint[p].wideDim
                     * ElemBytes(Checkpoint[p], Args[p])
EachNarrow(p, tp) == Args[p].block * 2 * AtLeast(Checkpoint[p].heads \div tp, 1) * Checkpoint[p].dim
                     * ElemBytes(Checkpoint[p], Args[p])
IndexOf(p) == IF Checkpoint[p].index > 0
              THEN (Args[p].block \div Checkpoint[p].ratio) * Checkpoint[p].index * 2 ELSE 0
HoldsFull(p, tp, len) == Whole(p, len) * (EachWide(p, tp) + IndexOf(p))
HoldsSliding(p, tp, len, batched) ==
    IF Checkpoint[p].window > 0 THEN Part(p, len, batched) * EachNarrow(p, tp) ELSE 0

(* What a layer holds is a number. *)
LEMMA HoldsType ==
    ASSUME NEW p \in Preset, Readable(Checkpoint[p]), Checkpoint[p].latent = 0,
           NEW tp \in Nat \ {0}, NEW len \in Nat, NEW batched \in Nat
    PROVE  /\ Whole(p, len) \in Nat /\ EachWide(p, tp) \in Nat /\ EachNarrow(p, tp) \in Nat /\ IndexOf(p) \in Nat
           /\ Checkpoint[p].window > 0 => Part(p, len, batched) \in Nat
           /\ HoldsFull(p, tp, len) \in Nat /\ HoldsSliding(p, tp, len, batched) \in Nat
<1>1. Whole(p, len) \in Nat /\ (Checkpoint[p].window > 0 => Part(p, len, batched) \in Nat)
  <2> DEFINE chunk == ChunkOf(Args[p], len, batched)
             window == Checkpoint[p].window
             b == Args[p].block
  <2>1. window \in Nat
    BY ModelTypes
  <2>2. /\ CeilDiv(len, b) \in Nat
        /\ window > 0 => CeilDiv(AtMost(window - 1 + chunk, len), b) \in Nat
    BY <2>1, BlocksType
  <2>3. Whole(p, len) = CeilDiv(len, b) /\ Part(p, len, batched) = CeilDiv(AtMost(window - 1 + chunk, len), b) + 1
    BY DEF Whole, Part
  <2> HIDE DEF chunk, window, b
  <2>4. Whole(p, len) \in Nat /\ (window > 0 => Part(p, len, batched) \in Nat)
    BY <2>2, <2>3
  <2> QED BY <2>4 DEF window
<1>2. EachWide(p, tp) \in Nat /\ EachNarrow(p, tp) \in Nat
  <2> DEFINE E == ElemBytes(Checkpoint[p], Args[p])
             W == AtLeast(Checkpoint[p].wideHeads \div tp, 1)
             H == AtLeast(Checkpoint[p].heads \div tp, 1)
  <2>1. E \in Nat /\ W \in Nat /\ H \in Nat /\ Args[p].block \in Nat /\ Checkpoint[p].dim \in Nat
        /\ Checkpoint[p].wideDim \in Nat
    BY ModelTypes, ElemType, HeadsType
  <2>2. EachWide(p, tp) = Args[p].block * 2 * W * Checkpoint[p].wideDim * E
    BY DEF EachWide
  <2>3. EachNarrow(p, tp) = Args[p].block * 2 * H * Checkpoint[p].dim * E
    BY DEF EachNarrow
  <2> HIDE DEF E, W, H
  <2> QED BY <2>1, <2>2, <2>3
<1>3. IndexOf(p) \in Nat
  <2>1. CASE Checkpoint[p].index > 0
    <3>1. Checkpoint[p].ratio \in Nat \ {0} /\ Args[p].block \in Nat /\ Checkpoint[p].index \in Nat
      BY <2>1, ModelTypes DEF Readable
    <3>2. Args[p].block \div Checkpoint[p].ratio \in Nat
      BY <3>1
    <3> QED BY <2>1, <3>1, <3>2 DEF IndexOf
  <2> QED BY <2>1 DEF IndexOf
<1>4. Checkpoint[p].window \in Nat
  BY ModelTypes
<1> QED BY <1>1, <1>2, <1>3, <1>4 DEF HoldsFull, HoldsSliding

(* The owning layers of a type. *)
Of(c, t) == {i \in Owning(c) : c.types[i] = t}

(* They are counted. *)
LEMMA OfType ==
    ASSUME NEW p \in Preset, NEW t
    PROVE  LET c == Checkpoint[p] IN
           /\ IsFiniteSet(DOMAIN c.types) /\ Of(c, t) \in SUBSET DOMAIN c.types /\ IsFiniteSet(Of(c, t))
           /\ CountOf(c, t) \in Nat /\ CountOf(c, t) = Cardinality(Of(c, t))
           /\ CountOf(c, t) = 0 => Of(c, t) = {}
<1> DEFINE c == Checkpoint[p]
<1>1. c.types \in Seq(STRING) /\ c.shared \in Nat
  BY ModelTypes
<1>2. DOMAIN c.types = 1..Len(c.types) /\ Len(c.types) \in Nat
  BY <1>1
<1>3. IsFiniteSet(DOMAIN c.types)
  BY <1>2, FS_Interval
<1>4. Owning(c) \in SUBSET DOMAIN c.types
  BY <1>1, <1>2 DEF Owning
<1>5. Of(c, t) \in SUBSET DOMAIN c.types
  BY <1>4 DEF Of
<1>6. IsFiniteSet(Of(c, t))
  BY <1>3, <1>5, FS_Subset
<1>7. CountOf(c, t) = Cardinality(Of(c, t))
  BY DEF CountOf, Of
<1> QED BY <1>3, <1>5, <1>6, <1>7, FS_CardinalityType, FS_EmptySet

(* The layers one by one: those of a kind hold the same. *)
LEMMA SinglyTotal ==
    ASSUME NEW p \in Preset, Readable(Checkpoint[p]), Checkpoint[p].latent = 0,
           NEW tp \in Nat \ {0}, NEW len \in Nat, NEW batched \in Nat
    PROVE  Total(Singly(p, tp, len, batched), DOMAIN Checkpoint[p].types)
             = CountOf(Checkpoint[p], "full") * HoldsFull(p, tp, len)
               + CountOf(Checkpoint[p], "sliding") * HoldsSliding(p, tp, len, batched)
<1> DEFINE c == Checkpoint[p]
           D == DOMAIN c.types
           f == Singly(p, tp, len, batched)
           A == Of(c, "full")
           B == Of(c, "sliding")
           kF == HoldsFull(p, tp, len)
           kS == HoldsSliding(p, tp, len, batched)
<1>0. kF \in Nat /\ kS \in Nat
  BY HoldsType
<1>1. IsFiniteSet(D) /\ A \in SUBSET D /\ B \in SUBSET D /\ IsFiniteSet(A) /\ IsFiniteSet(B)
      /\ CountOf(c, "full") = Cardinality(A) /\ CountOf(c, "sliding") = Cardinality(B)
      /\ CountOf(c, "full") \in Nat /\ CountOf(c, "sliding") \in Nat
      /\ (CountOf(c, "sliding") = 0 => B = {})
  <2>2. /\ IsFiniteSet(D) /\ A \in SUBSET D /\ IsFiniteSet(A)
        /\ CountOf(c, "full") \in Nat /\ CountOf(c, "full") = Cardinality(A)
    BY OfType
  <2>3. /\ B \in SUBSET D /\ IsFiniteSet(B)
        /\ CountOf(c, "sliding") \in Nat /\ CountOf(c, "sliding") = Cardinality(B)
        /\ CountOf(c, "sliding") = 0 => B = {}
    BY OfType
  <2> QED BY <2>2, <2>3
<1>2. \A i \in A : f[i] = kF
  <2>1. ASSUME NEW i \in A PROVE f[i] = kF
    <3>1. i \in D /\ i \in Owning(c) /\ c.types[i] = "full"
      BY <1>1 DEF Of
    <3>2. f[i] = LayerHolds(p, i, tp, len, batched)
      BY <3>1 DEF Singly
    <3> QED BY <3>1, <3>2 DEF LayerHolds, HoldsFull, Whole, EachWide, IndexOf
  <2> QED BY <2>1
<1>3. \A i \in B : f[i] = kS
  <2>1. ASSUME NEW i \in B PROVE f[i] = kS
    <3>1. i \in D /\ i \in Owning(c) /\ c.types[i] = "sliding" /\ c.types[i] # "full"
      BY <1>1 DEF Of
    <3>2. f[i] = LayerHolds(p, i, tp, len, batched)
      BY <3>1 DEF Singly
    <3>3. c.window > 0
      BY <1>1, <2>1 DEF Readable
    <3> QED BY <3>1, <3>2, <3>3 DEF LayerHolds, HoldsSliding, Part, EachNarrow, ChunkOf
  <2> QED BY <2>1
<1>4. \A i \in (D \ A) \ B : f[i] = 0
  <2>1. ASSUME NEW i \in (D \ A) \ B PROVE f[i] = 0
    <3>1. i \in D /\ ~(i \in Owning(c) /\ c.types[i] = "full") /\ ~(i \in Owning(c) /\ c.types[i] = "sliding")
      BY DEF Of
    <3>2. f[i] = LayerHolds(p, i, tp, len, batched)
      BY <3>1 DEF Singly
    <3> QED BY <3>1, <3>2 DEF LayerHolds
  <2> QED BY <2>1
<1>5. B \in SUBSET (D \ A)
  BY <1>1 DEF Of
<1>6. f \in [D -> Nat]
  <2>1. f = [i \in D |-> f[i]]
    BY DEF Singly
  <2>2. \A i \in D : f[i] \in Nat
    BY <1>0, <1>2, <1>3, <1>4
  <2> HIDE DEF f
  <2> QED BY <2>1, <2>2
<1> HIDE DEF A, B, f, D, kF, kS
<1>7. Total(f, A) = Cardinality(A) * kF /\ Total(f, B) = Cardinality(B) * kS
  BY <1>0, <1>1, <1>2, <1>3, <1>6, TotalOfEqual
<1>8. D \in SUBSET D /\ D \ A \in SUBSET D /\ IsFiniteSet(D \ A) /\ (D \ A) \ B \in SUBSET D /\ IsFiniteSet((D \ A) \ B)
  BY <1>1, FS_Subset
<1>9. Total(f, (D \ A) \ B) = 0
  <2>1. Total(f, (D \ A) \ B) = Cardinality((D \ A) \ B) * 0
    BY <1>4, <1>6, <1>8, TotalOfEqual
  <2>2. Cardinality((D \ A) \ B) \in Nat
    BY <1>8, FS_CardinalityType
  <2> QED BY <2>1, <2>2
<1>10. Total(f, D) = Total(f, A) + Total(f, D \ A)
  BY <1>1, <1>6, <1>8, TotalOfParts
<1>11. Total(f, D \ A) = Total(f, B) + Total(f, (D \ A) \ B)
  BY <1>5, <1>6, <1>8, TotalOfParts
<1>12. Cardinality(B) * kS \in Nat /\ Cardinality(A) * kF \in Nat
  BY <1>0, <1>1
<1>13. Total(f, D) = CountOf(c, "full") * kF + CountOf(c, "sliding") * kS
  BY <1>1, <1>7, <1>9, <1>10, <1>11, <1>12
<1> QED BY <1>13 DEF f, D, kF, kS

(* The groups of kvLayersOf. *)
FullLayers(c) == Layers(CountOf(c, "full"), c.wideHeads, c.wideDim)
SlidingLayers(c) == [Layers(CountOf(c, "sliding"), c.heads, c.dim) EXCEPT !.window = c.window]
IndexLayers(c) == [Layers(IF c.index > 0 THEN CountOf(c, "full") ELSE 0, 0, 0)
                     EXCEPT !.latent = c.index, !.per = c.ratio, !.elem = 2]
LatentLayers(c) == [Layers(Len(c.types), 0, 0) EXCEPT !.latent = c.latent]

(* kvLayersOf groups the layers into these. *)
LEMMA KvLayersIs ==
    ASSUME NEW c
    PROVE  KvLayers(c) = IF c.latent > 0 THEN {LatentLayers(c)}
                         ELSE {l \in {FullLayers(c), SlidingLayers(c), IndexLayers(c)} : l.count > 0}
<1>1. FullLayers(c).count = CountOf(c, "full")
  BY DEF FullLayers, Layers
<1> QED BY <1>1 DEF KvLayers, FullLayers, SlidingLayers, IndexLayers, LatentLayers

(* What a group of each kind holds. *)
LEMMA GroupFull ==
    ASSUME NEW p \in Preset, Readable(Checkpoint[p]), Checkpoint[p].latent = 0,
           NEW tp \in Nat \ {0}, NEW len \in Nat, NEW batched \in Nat
    PROVE  LET c == Checkpoint[p]
               n == CountOf(c, "full")
           IN /\ Group(c, Args[p], tp, len, batched, FullLayers(c)) \in Nat
              /\ Group(c, Args[p], tp, len, batched, FullLayers(c)) = n * (Whole(p, len) * EachWide(p, tp))
<1> DEFINE c == Checkpoint[p]
           n == CountOf(c, "full")
           E == ElemBytes(c, Args[p])
           W == AtLeast(c.wideHeads \div tp, 1)
           b == Args[p].block
           d == c.wideDim
           whole == Whole(p, len)
           l == FullLayers(c)
<1>1. n \in Nat /\ E \in Nat /\ W \in Nat /\ b \in Nat /\ d \in Nat /\ whole \in Nat
  BY OfType, ElemType, HeadsType, HoldsType, ModelTypes
<1>2. l.count = n /\ l.window = 0 /\ l.latent = 0 /\ l.per = 1 /\ l.elem = 0 /\ l.heads = c.wideHeads /\ l.dim = d
  BY DEF FullLayers, Layers
<1>3. EachWide(p, tp) = b * 2 * W * d * E
  BY DEF EachWide
<1> HIDE DEF l
<1>4. Blocks(l, Args[p], len, ChunkOf(Args[p], len, batched)) = whole
  BY <1>2 DEF Blocks, Whole
<1>5. PerState(l, tp) = 2 * W * d /\ ElemOf(c, Args[p], l) = E
  BY <1>2 DEF PerState, ElemOf
<1>6. b \div l.per = b
  BY <1>1, <1>2
<1>7. Group(c, Args[p], tp, len, batched, l) = n * whole * b * (2 * W * d) * E
  BY <1>2, <1>4, <1>5, <1>6 DEF Group
<1> HIDE DEF n, E, W, b, d, whole
<1>8. n * whole * b * (2 * W * d) * E = n * (whole * (b * 2 * W * d * E))
  BY <1>1
<1>9. b * 2 * W * d * E \in Nat
  BY <1>1
<1>10. n * (whole * EachWide(p, tp)) \in Nat
  BY <1>1, <1>3, <1>9
<1> QED BY <1>3, <1>7, <1>8, <1>10 DEF n, whole, l

(* The sliding layers have a window: kvLayersOf reads no other. *)
LEMMA GroupSliding ==
    ASSUME NEW p \in Preset, Readable(Checkpoint[p]), Checkpoint[p].latent = 0,
           NEW tp \in Nat \ {0}, NEW len \in Nat, NEW batched \in Nat, CountOf(Checkpoint[p], "sliding") > 0
    PROVE  LET c == Checkpoint[p]
               n == CountOf(c, "sliding")
           IN /\ c.window > 0
              /\ Group(c, Args[p], tp, len, batched, SlidingLayers(c)) \in Nat
              /\ Group(c, Args[p], tp, len, batched, SlidingLayers(c)) = n * HoldsSliding(p, tp, len, batched)
<1> DEFINE c == Checkpoint[p]
           n == CountOf(c, "sliding")
           E == ElemBytes(c, Args[p])
           W == AtLeast(c.heads \div tp, 1)
           b == Args[p].block
           d == c.dim
           part == Part(p, len, batched)
           l == SlidingLayers(c)
<1>0. c.window > 0
  BY DEF Readable
<1>1. n \in Nat /\ E \in Nat /\ W \in Nat /\ b \in Nat /\ d \in Nat /\ part \in Nat
  BY <1>0, OfType, ElemType, HeadsType, HoldsType, ModelTypes
<1>2. /\ l.count = n /\ l.window = c.window /\ l.latent = 0 /\ l.per = 1 /\ l.elem = 0
      /\ l.heads = c.heads /\ l.dim = d
  BY DEF SlidingLayers, Layers
<1>3. EachNarrow(p, tp) = b * 2 * W * d * E
  BY DEF EachNarrow
<1> HIDE DEF l
<1>4. Blocks(l, Args[p], len, ChunkOf(Args[p], len, batched)) = part
  BY <1>0, <1>2 DEF Blocks, Part
<1>5. PerState(l, tp) = 2 * W * d /\ ElemOf(c, Args[p], l) = E
  BY <1>2 DEF PerState, ElemOf
<1>6. b \div l.per = b
  BY <1>1, <1>2
<1>7. Group(c, Args[p], tp, len, batched, l) = n * part * b * (2 * W * d) * E
  BY <1>2, <1>4, <1>5, <1>6 DEF Group
<1>p. HoldsSliding(p, tp, len, batched) = part * EachNarrow(p, tp)
  BY <1>0 DEF HoldsSliding
<1> HIDE DEF n, E, W, b, d, part
<1>8. n * part * b * (2 * W * d) * E = n * (part * (b * 2 * W * d * E))
  BY <1>1
<1>9. b * 2 * W * d * E \in Nat
  BY <1>1
<1>10. n * (part * EachNarrow(p, tp)) \in Nat
  BY <1>1, <1>3, <1>9
<1> QED BY <1>0, <1>3, <1>7, <1>8, <1>10, <1>p DEF n, l

(* The index of the full layers, in blocks of its own. *)
LEMMA GroupIndex ==
    ASSUME NEW p \in Preset, Readable(Checkpoint[p]), Checkpoint[p].latent = 0, Checkpoint[p].index > 0,
           NEW tp \in Nat \ {0}, NEW len \in Nat, NEW batched \in Nat
    PROVE  LET c == Checkpoint[p]
               n == CountOf(c, "full")
           IN /\ Group(c, Args[p], tp, len, batched, IndexLayers(c)) \in Nat
              /\ Group(c, Args[p], tp, len, batched, IndexLayers(c)) = n * (Whole(p, len) * IndexOf(p))
<1> DEFINE c == Checkpoint[p]
           n == CountOf(c, "full")
           r == Args[p].block \div c.ratio
           whole == Whole(p, len)
           x == c.index
           l == IndexLayers(c)
<1>0. c.ratio \in Nat \ {0} /\ Args[p].block \in Nat
  BY ModelTypes DEF Readable
<1>1. n \in Nat /\ r \in Nat /\ x \in Nat /\ whole \in Nat
  <2>1. r \in Nat
    BY <1>0
  <2> QED BY <2>1, OfType, HoldsType, ModelTypes
<1>2. l.count = n /\ l.window = 0 /\ l.latent = x /\ l.per = c.ratio /\ l.elem = 2
  BY DEF IndexLayers, Layers
<1>3. IndexOf(p) = r * x * 2
  BY DEF IndexOf
<1> HIDE DEF l
<1>4. Blocks(l, Args[p], len, ChunkOf(Args[p], len, batched)) = whole
  BY <1>2 DEF Blocks, Whole
<1>5. PerState(l, tp) = x /\ ElemOf(c, Args[p], l) = 2
  BY <1>2 DEF PerState, ElemOf
<1>7. Group(c, Args[p], tp, len, batched, l) = n * whole * r * x * 2
  BY <1>2, <1>4, <1>5 DEF Group
<1> HIDE DEF n, r, x, whole
<1>8. n * whole * r * x * 2 = n * (whole * (r * x * 2))
  BY <1>1
<1>9. n * (whole * (r * x * 2)) \in Nat
  BY <1>1
<1> QED BY <1>3, <1>7, <1>8, <1>9 DEF n, whole, l

(* n full layers with their index, and the sliding ones. *)
LEMMA SumOfKinds ==
    ASSUME NEW n \in Nat, NEW whole \in Nat, NEW each \in Nat, NEW index \in Nat
    PROVE  n * (whole * each) + n * (whole * index) = n * (whole * (each + index))
  OBVIOUS

(* The groups of layers of a model without a latent cache. *)
LEMMA KindsTotal ==
    ASSUME NEW p \in Preset, Readable(Checkpoint[p]), Checkpoint[p].latent = 0,
           NEW tp \in Nat \ {0}, NEW len \in Nat, NEW batched \in Nat
    PROVE  LET c == Checkpoint[p] IN
           /\ IsFiniteSet(KvLayers(c))
           /\ Groups(c, Args[p], tp, len, batched) \in [KvLayers(c) -> Nat]
           /\ Total(Groups(c, Args[p], tp, len, batched), KvLayers(c))
                = CountOf(c, "full") * HoldsFull(p, tp, len)
                  + CountOf(c, "sliding") * HoldsSliding(p, tp, len, batched)
<1> DEFINE c == Checkpoint[p]
           S == KvLayers(c)
           g == Groups(c, Args[p], tp, len, batched)
           nF == CountOf(c, "full")
           nS == CountOf(c, "sliding")
           F == FullLayers(c)
           L == SlidingLayers(c)
           X == IndexLayers(c)
           hasF == nF > 0
           hasS == nS > 0
           hasX == c.index > 0 /\ nF > 0
           kF == nF * (Whole(p, len) * EachWide(p, tp))
           kS == nS * HoldsSliding(p, tp, len, batched)
           kX == nF * (Whole(p, len) * IndexOf(p))
<1>0. nF \in Nat /\ nS \in Nat /\ c.index \in Nat
  BY OfType, ModelTypes
<1>1. /\ F.count = nF /\ L.count = nS /\ X.count = (IF c.index > 0 THEN nF ELSE 0)
      /\ F.latent = 0 /\ F.window = 0 /\ L.latent = 0 /\ L.window = c.window /\ X.latent = c.index
  BY DEF FullLayers, SlidingLayers, IndexLayers, Layers
<1>2. S = {l \in {F, L, X} : l.count > 0}
  <2>1. ~(c.latent > 0)
    OBVIOUS
  <2> QED BY <2>1, KvLayersIs
<1>g. \A l \in S : g[l] = Group(c, Args[p], tp, len, batched, l)
  BY DEF Groups
<1>3. hasF => F \in S /\ g[F] = kF /\ kF \in Nat
  <2>1. hasF => F \in S
    BY <1>1, <1>2
  <2> QED BY <2>1, <1>g, GroupFull
<1>4. hasS => L \in S /\ g[L] = kS /\ kS \in Nat /\ L # F
  <2>1. hasS => L \in S
    BY <1>1, <1>2
  <2>2. hasS => c.window > 0 /\ g[L] = kS /\ kS \in Nat
    BY <2>1, <1>g, GroupSliding
  <2>3. hasS => L # F
    <3>1. hasS => L.window # F.window
      BY <1>1, <2>2
    <3> QED BY <3>1
  <2> QED BY <2>1, <2>2, <2>3
<1>5. hasX => X \in S /\ g[X] = kX /\ kX \in Nat /\ X # F /\ X # L
  <2>1. hasX => X \in S
    BY <1>1, <1>2
  <2>2. hasX => g[X] = kX /\ kX \in Nat
    BY <2>1, <1>g, GroupIndex
  <2>3. hasX => X # F /\ X # L
    <3>1. hasX => X.latent # F.latent /\ X.latent # L.latent
      BY <1>1
    <3> QED BY <3>1
  <2> QED BY <2>1, <2>2, <2>3
<1>6. \A l \in S : (l = F /\ hasF) \/ (l = L /\ hasS) \/ (l = X /\ hasX)
  BY <1>0, <1>1, <1>2
<1>t. g = [l \in S |-> g[l]]
  BY DEF Groups
<1>z. /\ Whole(p, len) \in Nat /\ EachWide(p, tp) \in Nat /\ IndexOf(p) \in Nat
      /\ HoldsSliding(p, tp, len, batched) \in Nat
  BY HoldsType
<1>k. nF * HoldsFull(p, tp, len) = kF + kX
  BY <1>0, <1>z, SumOfKinds DEF HoldsFull
<1>n. kF \in Nat /\ kS \in Nat /\ kX \in Nat
  <2>1. Whole(p, len) * EachWide(p, tp) \in Nat /\ Whole(p, len) * IndexOf(p) \in Nat
    BY <1>z
  <2> QED BY <1>0, <1>z, <2>1
<1>x. c.index = 0 => kX = 0
  <2>1. c.index = 0 => IndexOf(p) = 0
    BY DEF IndexOf
  <2>2. Whole(p, len) * 0 = 0 /\ nF * 0 = 0
    BY <1>0, <1>z
  <2> QED BY <2>1, <2>2
<1>o. nF = 0 => kF = 0 /\ kX = 0
  <2>1. Whole(p, len) * EachWide(p, tp) \in Nat /\ Whole(p, len) * IndexOf(p) \in Nat
    BY <1>z
  <2> QED BY <2>1
<1>s. nS = 0 => kS = 0
  BY <1>z
<1>b. hasF \in BOOLEAN /\ hasS \in BOOLEAN /\ hasX \in BOOLEAN
  OBVIOUS
<1>w. /\ kF = IF hasF THEN kF ELSE 0
      /\ kS = IF hasS THEN kS ELSE 0
      /\ kX = IF hasX THEN kX ELSE 0
  BY <1>0, <1>x, <1>o, <1>s
<1> HIDE DEF S, g, F, L, X, hasF, hasS, hasX, kF, kS, kX
<1>7. g \in [S -> Nat]
  <2>1. \A l \in S : g[l] \in Nat
    BY <1>3, <1>4, <1>5, <1>6
  <2> QED BY <1>t, <2>1
<1> DEFINE A == IF hasF THEN {F} ELSE {}
           B == A \cup (IF hasS THEN {L} ELSE {})
           C == B \cup (IF hasX THEN {X} ELSE {})
<1>8. A \in SUBSET S /\ IsFiniteSet(A) /\ Total(g, A) = IF hasF THEN kF ELSE 0
  <2>1. {} \in SUBSET S /\ IsFiniteSet({}) /\ Total(g, {}) = 0
    BY <1>7, FS_EmptySet, TotalType
  <2>2. hasF => F \in S \ {}
    BY <1>3
  <2> DEFINE R == {} \cup (IF hasF THEN {F} ELSE {})
  <2>3. R \in SUBSET S /\ IsFiniteSet(R) /\ Total(g, R) = Total(g, {}) + (IF hasF THEN g[F] ELSE 0)
    BY <1>7, <1>b, <2>1, <2>2, TotalWith
  <2>4. R = A
    OBVIOUS
  <2>5. Total(g, R) = IF hasF THEN kF ELSE 0
    BY <1>3, <2>1, <2>3, <1>n
  <2> HIDE DEF R, A
  <2> QED BY <2>3, <2>4, <2>5
<1>9. B \in SUBSET S /\ IsFiniteSet(B) /\ Total(g, B) = Total(g, A) + (IF hasS THEN kS ELSE 0)
  <2>1. hasS => L \in S \ A
    BY <1>4
  <2> HIDE DEF A
  <2>2. B \in SUBSET S /\ IsFiniteSet(B) /\ Total(g, B) = Total(g, A) + (IF hasS THEN g[L] ELSE 0)
    BY <1>7, <1>8, <1>b, <2>1, TotalWith
  <2> HIDE DEF B
  <2> QED BY <1>4, <2>2
<1>10. C \in SUBSET S /\ IsFiniteSet(C) /\ Total(g, C) = Total(g, B) + (IF hasX THEN kX ELSE 0)
  <2>1. hasX => X \in S \ B
    BY <1>5
  <2> HIDE DEF B
  <2>2. C \in SUBSET S /\ IsFiniteSet(C) /\ Total(g, C) = Total(g, B) + (IF hasX THEN g[X] ELSE 0)
    BY <1>7, <1>9, <1>b, <2>1, TotalWith
  <2> HIDE DEF C
  <2> QED BY <1>5, <2>2
<1>11. C = S
  BY <1>3, <1>4, <1>5, <1>6
<1> HIDE DEF A, B, C
<1>12. Total(g, S) = kF + kS + kX
  BY <1>8, <1>9, <1>10, <1>11, <1>n, <1>w
<1>13. IsFiniteSet(S) /\ Total(g, S) = nF * HoldsFull(p, tp, len) + kS
  BY <1>10, <1>11, <1>12, <1>k, <1>n
<1> QED BY <1>7, <1>13 DEF S, g, kS

(* The latent cache: every layer holds the whole sequence. *)
HoldsLatent(p, len) ==
    Whole(p, len) * Args[p].block * Checkpoint[p].latent * ElemBytes(Checkpoint[p], Args[p])

(* It is a number. *)
LEMMA LatentType ==
    ASSUME NEW p \in Preset, NEW len \in Nat
    PROVE  /\ Whole(p, len) \in Nat /\ HoldsLatent(p, len) \in Nat
           /\ Args[p].block * Checkpoint[p].latent * ElemBytes(Checkpoint[p], Args[p]) \in Nat
           /\ HoldsLatent(p, len) = Whole(p, len) * (Args[p].block * Checkpoint[p].latent
                                                       * ElemBytes(Checkpoint[p], Args[p]))
           /\ Len(Checkpoint[p].types) \in Nat /\ Len(Checkpoint[p].types) * HoldsLatent(p, len) \in Nat
<1> DEFINE E == ElemBytes(Checkpoint[p], Args[p])
           b == Args[p].block
           w == Whole(p, len)
           x == Checkpoint[p].latent
           n == Len(Checkpoint[p].types)
<1>1. E \in Nat /\ b \in Nat /\ x \in Nat /\ n \in Nat
  BY ElemType, ModelTypes
<1>2. w \in Nat
  BY BlocksType, ModelTypes DEF Whole
<1>3. HoldsLatent(p, len) = w * b * x * E
  BY DEF HoldsLatent
<1> HIDE DEF w, b, x, E, n
<1>4. w * b * x * E = w * (b * x * E)
  BY <1>1, <1>2
<1>5. b * x * E \in Nat
  BY <1>1
<1>6. w * (b * x * E) \in Nat
  BY <1>2, <1>5
<1>7. HoldsLatent(p, len) \in Nat
  BY <1>3, <1>4, <1>6
<1>8. n * HoldsLatent(p, len) \in Nat
  BY <1>1, <1>7
<1> QED BY <1>1, <1>2, <1>3, <1>4, <1>5, <1>7, <1>8 DEF w, b, x, E, n

(* The layers of a latent cache, one by one. *)
LEMMA SinglyLatent ==
    ASSUME NEW p \in Preset, Checkpoint[p].latent > 0, NEW tp, NEW len \in Nat, NEW batched
    PROVE  Total(Singly(p, tp, len, batched), DOMAIN Checkpoint[p].types)
             = Len(Checkpoint[p].types) * HoldsLatent(p, len)
<1> DEFINE c == Checkpoint[p]
           D == DOMAIN c.types
           n == Len(c.types)
           f == Singly(p, tp, len, batched)
           k == HoldsLatent(p, len)
<1>1. n \in Nat /\ D = 1..n
  BY ModelTypes
<1>5. \A i \in D : f[i] = k
  <2>1. ASSUME NEW i \in D PROVE f[i] = k
    <3>1. f[i] = LayerHolds(p, i, tp, len, batched)
      BY DEF Singly
    <3>2. LayerHolds(p, i, tp, len, batched) = k
      BY DEF LayerHolds, Whole, HoldsLatent
    <3> QED BY <3>1, <3>2
  <2> QED BY <2>1
<1>6. k \in Nat
  BY LatentType
<1>7. f \in [D -> Nat]
  <2>1. f = [i \in D |-> f[i]]
    BY DEF Singly
  <2> HIDE DEF f, k, D
  <2> QED BY <1>5, <1>6, <2>1
<1> HIDE DEF f, k, D, n
<1>8. IsFiniteSet(1..n) /\ Cardinality(1..n) = n
  BY <1>1, FS_Interval
<1>9. D \in SUBSET D /\ IsFiniteSet(D) /\ Cardinality(D) = n
  BY <1>1, <1>8
<1>10. Total(f, D) = n * k
  BY <1>5, <1>6, <1>7, <1>9, TotalOfEqual
<1> QED BY <1>10 DEF f, k, D, n

(* And as the one group they are. *)
LEMMA LatentTotals ==
    ASSUME NEW p \in Preset, Checkpoint[p].latent > 0,
           NEW tp \in Nat \ {0}, NEW len \in Nat, NEW batched \in Nat
    PROVE  LET c == Checkpoint[p] IN
           /\ IsFiniteSet(KvLayers(c))
           /\ Groups(c, Args[p], tp, len, batched) \in [KvLayers(c) -> Nat]
           /\ Total(Groups(c, Args[p], tp, len, batched), KvLayers(c)) = Len(c.types) * HoldsLatent(p, len)
<1> DEFINE c == Checkpoint[p]
           S == KvLayers(c)
           g == Groups(c, Args[p], tp, len, batched)
           E == ElemBytes(c, Args[p])
           b == Args[p].block
           w == Whole(p, len)
           x == c.latent
           l == LatentLayers(c)
           n == Len(c.types)
           k == HoldsLatent(p, len)
<1>1. E \in Nat /\ b \in Nat /\ x \in Nat /\ n \in Nat
  BY ElemType, ModelTypes
<1>2. w \in Nat /\ n * k \in Nat
  BY LatentType
<1>3. l.count = n /\ l.window = 0 /\ l.latent = x /\ l.per = 1 /\ l.elem = 0
  BY DEF LatentLayers, Layers
<1>4. S = {l}
  BY KvLayersIs
<1>9. g[l] = n * k
  <2> HIDE DEF l
  <2>1. Blocks(l, Args[p], len, ChunkOf(Args[p], len, batched)) = w
    BY <1>3 DEF Blocks, Whole
  <2>2. PerState(l, tp) = x /\ ElemOf(c, Args[p], l) = E
    BY <1>3 DEF PerState, ElemOf
  <2>3. b \div l.per = b
    BY <1>1, <1>3
  <2>4. g[l] = Group(c, Args[p], tp, len, batched, l)
    BY <1>4 DEF Groups
  <2>5. g[l] = n * w * b * x * E
    BY <1>3, <2>1, <2>2, <2>3, <2>4 DEF Group
  <2>6. k = w * b * x * E
    BY DEF HoldsLatent
  <2> HIDE DEF g, n, w, b, x, E, k
  <2>7. n * w * b * x * E = n * (w * b * x * E)
    BY <1>1, <1>2
  <2> QED BY <2>5, <2>6, <2>7
<1>10. g = [y \in S |-> g[y]]
  BY DEF Groups
<1> HIDE DEF g, S, l, k, n
<1>12. g \in [S -> Nat] /\ IsFiniteSet({l}) /\ l \in S
  <2>1. l \in S /\ \A y \in S : g[y] \in Nat
    BY <1>2, <1>4, <1>9
  <2> QED BY <1>10, <2>1, FS_Singleton
<1>13. Total(g, S) = g[l] + Total(g, S \ {l})
  BY <1>4, <1>12, TotalSplits
<1>14. S \ {l} = {} /\ Total(g, {}) = 0
  BY <1>4, <1>12, TotalType, FS_EmptySet
<1>11. g[l] \in Nat /\ Total(g, S \ {l}) = 0
  BY <1>2, <1>9, <1>14
<1>15. Total(g, S) = g[l]
  BY <1>11, <1>13
<1> QED BY <1>4, <1>9, <1>12, <1>15 DEF g, S, k, n

(* needBytes counts what the layers hold, one by one. *)
LEMMA NeedCounts ==
    ASSUME NEW p \in Preset, Readable(Checkpoint[p]),
           NEW tp \in Nat \ {0}, NEW len \in Nat, NEW batched \in Nat
    PROVE  /\ Need(Checkpoint[p], Args[p], tp, len, batched) \in Nat
           /\ Need(Checkpoint[p], Args[p], tp, len, batched)
                = Total(Singly(p, tp, len, batched), DOMAIN Checkpoint[p].types)
<1> DEFINE c == Checkpoint[p]
           S == KvLayers(c)
           g == Groups(c, Args[p], tp, len, batched)
           sum == Total(Singly(p, tp, len, batched), DOMAIN c.types)
<1>1. Need(c, Args[p], tp, len, batched) = Total(g, S)
  BY NeedIs
<1>2. c.latent \in Nat
  BY ModelTypes
<1>3. IsFiniteSet(S) /\ g \in [S -> Nat] /\ Total(g, S) = sum
  <2>1. CASE c.latent > 0
    <3>1. sum = Len(c.types) * HoldsLatent(p, len)
      BY <2>1, SinglyLatent
    <3>2. IsFiniteSet(S) /\ g \in [S -> Nat]
      BY <2>1, LatentTotals
    <3>3. Total(g, S) = Len(c.types) * HoldsLatent(p, len)
      BY <2>1, LatentTotals
    <3> HIDE DEF S, g, sum
    <3> QED BY <3>1, <3>2, <3>3
  <2>2. CASE c.latent = 0
    <3> DEFINE kinds == CountOf(c, "full") * HoldsFull(p, tp, len)
                          + CountOf(c, "sliding") * HoldsSliding(p, tp, len, batched)
    <3>1. IsFiniteSet(S) /\ g \in [S -> Nat] /\ Total(g, S) = kinds
      <4>1. Readable(Checkpoint[p]) /\ Checkpoint[p].latent = 0
        BY <2>2
      <4>2. IsFiniteSet(S)
        BY <4>1, KindsTotal
      <4>3. g \in [S -> Nat]
        BY <4>1, KindsTotal
      <4>4. Total(g, S) = kinds
        BY <4>1, KindsTotal
      <4> QED BY <4>2, <4>3, <4>4
    <3>2. sum = kinds
      BY <2>2, SinglyTotal
    <3> HIDE DEF S, g, sum, kinds
    <3> QED BY <3>1, <3>2
  <2> QED BY <1>2, <2>1, <2>2
<1> HIDE DEF S, g, sum
<1>4. Total(g, S) \in Nat
  BY <1>3, TotalType
<1> QED BY <1>1, <1>3, <1>4 DEF sum

-----------------------------------------------------------------------------
(* Sizing: what is read before it is judged *)

(* The state of a check. *)
PlanState ==
    [pc : {"idle", "size", "kv", "compute", "judge"}, preset : Preset, where : Node \cup {NoNode}, held : Nat,
     w : Nat, hub : BOOLEAN, image : [known : BOOLEAN, label : BOOLEAN, file : BOOLEAN], config : Files,
     kv : {"skip", "judge"}, compute : {"skip", "judge"}]

(* A check judges only what it has read: a layout it can compute, weights that
   need a generation. *)
SizingInv ==
    /\ plan \in PlanState
    /\ images \in [Preset -> [known : BOOLEAN, label : BOOLEAN, file : BOOLEAN]]
    /\ plan.kv = "judge" => Readable(Checkpoint[plan.preset])
    /\ plan.compute = "judge" => Capability(Checkpoint[plan.preset], Args[plan.preset]) > 0

(* A check at rest is one of some preset. *)
LEMMA SomePreset == NoAnswer.preset \in Preset
<1>1. (CHOOSE p \in Preset : TRUE) \in Preset
  BY SetAssumption
<1> QED BY <1>1 DEF NoAnswer

(* A check at rest has nothing to judge. *)
LEMMA RestType == Rest \in PlanState /\ Rest.kv = "skip" /\ Rest.compute = "skip"
  BY SomePreset DEF Rest, PlanState, NoImage, Files

(* Nothing is read yet. *)
LEMMA SizingInvInit == SizingInit => SizingInv
  BY RestType DEF SizingInit, SizingInv, NoImage

(* Every read keeps what a check may judge. *)
LEMMA SizingInvKept ==
    ASSUME SizingInv, [SizingNext]_sizeVars PROVE SizingInv'
<1> USE DEF SizingInv
<1>1. CASE Ask
  <2>1. PICK p \in Preset, n \in Node \cup {NoNode} : \E held \in Held :
          plan' = [Rest EXCEPT !.pc = "size", !.preset = p, !.where = n, !.held = held] /\ images' = images
    BY <1>1 DEF Ask, Only
  <2>2. PICK held \in Held :
          plan' = [Rest EXCEPT !.pc = "size", !.preset = p, !.where = n, !.held = held] /\ images' = images
    BY <2>1
  <2>3. held \in Nat
    BY SizingBounds
  <2> QED BY <2>2, <2>3, RestType DEF PlanState
<1>2. CASE SizeHub
  <2> DEFINE sized(ok) == [plan EXCEPT !.pc = "kv", !.hub = ok,
                                  !.w = IF ok THEN PresetFact[plan.preset].hub ELSE PresetFact[plan.preset].declared]
  <2>1. images' = images /\ (plan' = sized(TRUE) \/ plan' = sized(FALSE) \/ plan' = Rest)
    BY <1>2 DEF SizeHub, Only
  <2>2. PresetFact[plan.preset].hub \in Nat /\ PresetFact[plan.preset].declared \in Nat
    BY PresetTypes DEF PlanState
  <2>3. CASE plan' = Rest
    BY <2>1, <2>3, RestType
  <2>4. CASE plan' = sized(TRUE) \/ plan' = sized(FALSE)
    BY <2>1, <2>2, <2>4 DEF PlanState
  <2> QED BY <2>1, <2>3, <2>4
<1>3. CASE SizeImage
  <2> DEFINE p == plan.preset
             Told(i) == [plan EXCEPT !.pc = "kv", !.image = i,
                                !.w = IF i.label THEN PresetFact[p].hub ELSE PresetFact[p].declared]
  <2>1. PICK i \in [known : BOOLEAN, label : BOOLEAN, file : BOOLEAN] :
          plan' = Told(i) /\ (images' = images \/ images' = [images EXCEPT ![p] = i])
    <3>1. images[p] \in [known : BOOLEAN, label : BOOLEAN, file : BOOLEAN]
      BY DEF PlanState
    <3> QED BY <1>3, <3>1 DEF SizeImage
  <2>2. PresetFact[p].hub \in Nat /\ PresetFact[p].declared \in Nat
    BY PresetTypes DEF PlanState
  <2>3. plan' \in PlanState
    BY <2>1, <2>2 DEF PlanState
  <2>4. plan'.preset = p /\ plan'.kv = plan.kv /\ plan'.compute = plan.compute
    BY <2>1 DEF PlanState
  <2>5. p \in Preset
    BY DEF PlanState
  <2>6. images' \in [Preset -> [known : BOOLEAN, label : BOOLEAN, file : BOOLEAN]]
    BY <2>1, <2>5
  <2> QED BY <2>3, <2>4, <2>6
<1>4. CASE CheckKV
  <2>1. PICK c \in Files \cup ReadConfig, k \in {"skip", "judge"} :
          /\ images' = images
          /\ plan' = [plan EXCEPT !.pc = "compute", !.config = c, !.kv = k]
          /\ c \in Files
          /\ k = "judge" => Readable(Checkpoint[plan.preset]) \/ k = plan.kv
    <3>1. ReadConfig \subseteq Files
      BY DEF ReadConfig, Files, PlanState
    <3>2. CASE plan' = [plan EXCEPT !.pc = "compute"] /\ images' = images
      <4>1. plan' = [plan EXCEPT !.pc = "compute", !.config = plan.config, !.kv = plan.kv]
        BY <3>2 DEF PlanState
      <4>2. plan.config \in Files /\ plan.kv \in {"skip", "judge"}
        BY DEF PlanState
      <4> QED BY <3>2, <4>1, <4>2
    <3>3. CASE \E c \in ReadConfig :
                 /\ images' = images
                 /\ plan' = [plan EXCEPT !.pc = "compute", !.config = c,
                               !.kv = IF c = "read" /\ Readable(Checkpoint[plan.preset]) THEN "judge" ELSE "skip"]
      BY <3>1, <3>3
    <3> QED BY <1>4, <3>2, <3>3 DEF CheckKV, Only
  <2> QED BY <2>1 DEF PlanState
<1>5. CASE CheckCompute
  <2>1. PICK c \in ReadConfig, k \in {"skip", "judge"} :
          /\ images' = images
          /\ plan' = [plan EXCEPT !.pc = "judge", !.config = c, !.compute = k]
          /\ k = "judge" => Capability(Checkpoint[plan.preset], Args[plan.preset]) > 0
    <3>1. PICK c \in ReadConfig, params \in BOOLEAN :
            /\ images' = images
            /\ plan' = [plan EXCEPT !.pc = "judge", !.config = c,
                              !.compute = IF (c = "read" \/ params)
                                             /\ Capability(Checkpoint[plan.preset], Args[plan.preset]) > 0
                                          THEN "judge" ELSE "skip"]
      BY <1>5 DEF CheckCompute, Only
    <3> QED BY <3>1
  <2>2. ReadConfig \subseteq Files
    BY DEF ReadConfig, Files, PlanState
  <2> QED BY <2>1, <2>2 DEF PlanState
<1>6. CASE JudgeFit
  BY <1>6, RestType DEF JudgeFit
<1>7. CASE UNCHANGED sizeVars
  BY <1>7 DEF sizeVars
<1> QED BY <1>1, <1>2, <1>3, <1>4, <1>5, <1>6, <1>7 DEF SizingNext

-----------------------------------------------------------------------------
(* Sizing: what an answer says *)

(* What vLLM admits is what judge counts. *)
LEMMA AdmitsWhere ==
    ASSUME NEW p \in Preset, Readable(Checkpoint[p]), NEW w \in Nat, NEW tp \in Nat \ {0}, NEW u \in Nat,
           NEW mem \in Nat, NEW a100 \in BOOLEAN, NEW len \in Nat
    PROVE  /\ Left(w, tp, u, mem) \in Int
           /\ Admits(p, w, tp, u, len, mem, a100)
                <=> /\ Left(w, tp, u, mem) > 0
                    /\ Need(Checkpoint[p], Args[p], tp, len, Batched(Args[p], mem, a100)) <= Left(w, tp, u, mem)
<1> DEFINE b == Batched(Args[p], mem, a100)
           N == Need(Checkpoint[p], Args[p], tp, len, b)
           claim == (u * mem) \div 100
           share == w \div tp
           all == Total(Singly(p, tp, len, b), DOMAIN Checkpoint[p].types)
<1>1. b \in Nat
  BY ModelTypes, BatchAssumption DEF Batched
<1>2. claim \in Int /\ share \in Int /\ Reserve \in Nat
  <2>1. u * mem \in Nat
    OBVIOUS
  <2> QED BY <2>1, SizingBounds
<1>3. N \in Nat /\ N = all
  BY <1>1, NeedCounts
<1>4. Admits(p, w, tp, u, len, mem, a100) <=> share + Reserve < claim /\ all + (share + Reserve) <= claim
  BY AdmitsIs
<1>5. Left(w, tp, u, mem) = claim - share - Reserve
  BY DEF Left
<1> HIDE DEF N, claim, share, all
<1>6. (claim - share - Reserve > 0 /\ N <= claim - share - Reserve)
        <=> (share + Reserve < claim /\ all + (share + Reserve) <= claim)
  BY <1>2, <1>3
<1> QED BY <1>2, <1>4, <1>5, <1>6 DEF N, b

(* judge: a verdict on the KV cache is what vLLM finds when it starts. *)
LEMMA VerdictIsAdmission ==
    ASSUME plan.kv \in {"skip", "judge"},
           NEW p \in Preset, plan.kv = "judge" => Readable(Checkpoint[p]), NEW w \in Nat,
           NEW tp \in Nat \ {0}, NEW u \in Nat, NEW mem \in Nat, NEW a100 \in BOOLEAN,
           ~JudgeKV(p, w, tp, u, mem, a100).skip
    PROVE  JudgeKV(p, w, tp, u, mem, a100).fits <=> Admits(p, w, tp, u, Args[p].len, mem, a100)
<1> DEFINE b == Batched(Args[p], mem, a100)
           len == Args[p].len
           left == Left(w, tp, u, mem)
<1>1. len \in Nat /\ b \in Nat
  BY ModelTypes, BatchAssumption DEF Batched
<1>2. plan.kv = "judge"
  BY DEF JudgeKV, Unjudged
<1>3. JudgeKV(p, w, tp, u, mem, a100).fits <=> left > 0 /\ Need(Checkpoint[p], Args[p], tp, len, b) <= left
  BY DEF JudgeKV, Unjudged
<1> HIDE DEF left, len
<1>4. Admits(p, w, tp, u, len, mem, a100) <=> left > 0 /\ Need(Checkpoint[p], Args[p], tp, len, b) <= left
  BY <1>1, <1>2, AdmitsWhere DEF left
<1> QED BY <1>3, <1>4 DEF len

(* judgeNode, judgeShape: what is asked of a GPU computes the weights, and
   what refuses it is really needed. *)
LEMMA GenerationIsNeeded ==
    ASSUME NEW p \in Preset, NEW have \in Nat \ {0}, Capability(Checkpoint[p], Args[p]) > 0
    PROVE  Generation(p, have) <=> Needs(p, have)
<1> DEFINE c == Checkpoint[p]
           dtype == IF Args[p].dtype = "auto" THEN c.dtype ELSE Args[p].dtype
           G == c.groups \cap {"fp4", "fp8"}
           O == c.algos \cap {"fp4", "fp8"}
           cap == Capability(c, Args[p])
           told == CASE c.method = "compressed-tensors" -> c.groups
                     [] c.method = "modelopt" -> c.groups \cup c.algos
                     [] c.method = "fp8" -> {"fp8"}
                     [] OTHER -> {}
           floats == told \cap {"fp4", "fp8"}
<1>1. Generation(p, have) <=> have >= cap
  BY DEF Generation
<1>2. Needs(p, have) <=> (floats # {} => have >= 89) /\ (floats = {} /\ dtype = "bf16" => have >= 80)
  BY DEF Needs
<1>3. CASE c.method = "fp8"
  <2>1. cap = 89 /\ floats = {"fp8"}
    BY <1>3 DEF Capability
  <2> QED BY <1>1, <1>2, <2>1
<1>4. CASE c.method = "compressed-tensors"
  <2>1. floats = G
    BY <1>4
  <2>2. cap = IF G # {} THEN 89 ELSE IF dtype = "bf16" THEN 80 ELSE 0
    BY <1>4 DEF Capability, Precise
  <2> HIDE DEF cap, floats, dtype
  <2> QED BY <1>1, <1>2, <2>1, <2>2 DEF cap
<1>5. CASE c.method = "modelopt"
  <2>1. floats = G \cup O
    BY <1>5
  <2>2. cap = IF G # {} \/ O # {} THEN 89 ELSE IF c.mixed THEN 0 ELSE IF dtype = "bf16" THEN 80 ELSE 0
    BY <1>5 DEF Capability, Precise
  <2>3. cap > 0
    OBVIOUS
  <2> HIDE DEF cap, floats, dtype
  <2> QED BY <1>1, <1>2, <2>1, <2>2, <2>3
<1>6. CASE c.method \notin {"fp8", "compressed-tensors", "modelopt"}
  <2>1. floats = {}
    BY <1>6
  <2>2. cap = IF dtype = "bf16" THEN 80 ELSE 0
    BY <1>6 DEF Capability
  <2> HIDE DEF cap, floats, dtype
  <2> QED BY <1>1, <1>2, <2>1, <2>2 DEF cap
<1> QED BY <1>3, <1>4, <1>5, <1>6

(* shapeOn: a shape has GPUs, and a claim. *)
LEMMA ShapeType ==
    ASSUME NEW p \in Preset, NEW n \in Node, NEW w \in Nat, NEW held \in Nat
    PROVE  /\ ShapeOn(p, w, n, held) \in [devices : Nat \ {0}, tp : Nat \ {0}, util : Nat]
           /\ ~Args[p].pipeline => ShapeOn(p, w, n, held).util = SizedOn(p, w, n, held)
           /\ Derived(n) /\ ~Args[p].pipeline => ShapeOn(p, w, n, held).tp = ShapeOn(p, w, n, held).devices
<1> DEFINE d == DevicesOn(p, n, w + Overhead(p))
           s == SizedOn(p, w, n, held)
<1>1. /\ Overhead(p) \in Nat /\ PresetFact[p].util \in Nat /\ Gpus(p) \in Nat \ {0} /\ Args[p].tp \in Nat \ {0}
      /\ Args[p].pipeline \in BOOLEAN
  <2>1. Overhead(p) \in Nat /\ PresetFact[p].util \in Nat /\ Gpus(p) \in Nat \ {0}
    BY PresetTypes
  <2>2. Args[p].tp \in Nat \ {0} /\ Args[p].pipeline \in BOOLEAN
    BY ModelTypes
  <2> QED BY <2>1, <2>2
<1>2. d \in Nat \ {0}
  BY <1>1, DevicesOnType
<1>3. s \in Nat
  BY <1>1, UtilizationType DEF SizedOn
<1> HIDE DEF d, s
<1>4. ShapeOn(p, w, n, held) =
        IF Args[p].pipeline THEN Reference(p)
        ELSE IF Derived(n) THEN [devices |-> d, tp |-> d, util |-> s]
        ELSE [Reference(p) EXCEPT !.util = s]
  <2>1. CASE Args[p].pipeline
    BY <2>1 DEF ShapeOn
  <2>2. CASE ~Args[p].pipeline /\ Derived(n)
    BY <2>2, <1>1 DEF ShapeOn, d, s
  <2>3. CASE ~Args[p].pipeline /\ ~Derived(n)
    BY <2>3, <1>1 DEF ShapeOn, s
  <2> QED BY <1>1, <2>1, <2>2, <2>3
<1> QED BY <1>1, <1>2, <1>3, <1>4 DEF Reference, s

(* The facts of a node's GPUs. *)
LEMMA GpuTypes ==
    ASSUME NEW n \in Node
    PROVE  /\ GpuFact[n].capability \in Nat /\ GpuFact[n].a100 \in BOOLEAN /\ GpuFact[n].cpu \in Nat
           /\ (IF Unified(n) THEN NodeFact[n].memory ELSE NodeFact[n].gpuMem) \in Nat
           /\ NodeFact[n].alloc \in Nat /\ NodeFact[n].count \in Nat /\ NodeFact[n].gpuMem \in Nat
<1>1. GpuFact[n] \in GpuFacts /\ NodeFact[n] \in NodeFacts
  BY GpuAssumption, NodeTypes
<1> QED BY <1>1 DEF GpuFacts, NodeFacts

(* judgeOn: a node, where it is judged, with the memory its GPUs have. *)
LEMMA VerdictOnNode ==
    ASSUME plan.kv \in {"skip", "judge"},
           NEW p \in Preset, plan.kv = "judge" => Readable(Checkpoint[p]), NEW w \in Nat, NEW n \in Node,
           NEW shape \in [devices : Nat \ {0}, tp : Nat \ {0}, util : Nat],
           ~JudgeKVOn(p, w, n, shape).skip
    PROVE  JudgeKVOn(p, w, n, shape).fits
             <=> Admits(p, w, shape.tp, shape.util, Args[p].len,
                        IF Unified(n) THEN Memory(n) ELSE NodeFact[n].gpuMem, GpuFact[n].a100)
<1> DEFINE mem == IF Unified(n) THEN NodeFact[n].memory ELSE NodeFact[n].gpuMem
           a100 == GpuFact[n].a100
           tp == shape.tp
           u == shape.util
<1>1. mem \in Nat /\ a100 \in BOOLEAN /\ tp \in Nat \ {0} /\ u \in Nat
  BY GpuTypes
<1>2. JudgeKVOn(p, w, n, shape) = JudgeKV(p, w, tp, u, mem, a100)
  BY DEF JudgeKVOn, Unjudged
<1>3. mem = IF Unified(n) THEN Memory(n) ELSE NodeFact[n].gpuMem
  BY DEF Memory
<1> HIDE DEF mem, a100, tp, u
<1>4. JudgeKV(p, w, tp, u, mem, a100).fits <=> Admits(p, w, tp, u, Args[p].len, mem, a100)
  BY <1>1, <1>2, VerdictIsAdmission
<1> QED BY <1>2, <1>3, <1>4 DEF tp, u, a100

(* judgeNode: what the answer says. *)
LEMMA NodeAnswer ==
    ASSUME NEW p, NEW w, NEW n, NEW held, NEW room
    PROVE  LET a == JudgeThere(p, w, n, held, room)
               sh == ShapeOn(p, w, n, held)
               kv == JudgeKVOn(p, w, n, sh)
               judges == plan.compute = "judge" /\ GpuFact[n].capability > 0
           IN /\ a.kind = "node" /\ a.preset = p /\ a.where = n /\ a.held = held /\ a.w = w /\ a.shape = sh
              /\ a.kv = IF kv.skip THEN "skip" ELSE "judge"
              /\ a.compute = IF judges THEN "judge" ELSE "skip"
              /\ a.longest = kv.longest /\ a.advised = Advised(p, w, n, held)
              /\ a.fits <=>
                   /\ w + Overhead(p) <= NodeFact[n].budget - held
                   /\ Utilization(p, n, held, w + Overhead(p)) > 0
                   /\ NodeFact[n].alloc = 0 \/ sh.devices <= NodeFact[n].alloc
                   /\ Discrete(n) => GpuDevices(n) >= Gpus(p)
                   /\ room => HasRoom(p, n)
                   /\ kv.skip \/ kv.fits
                   /\ judges => Generation(p, GpuFact[n].capability)
  BY DEF JudgeThere, NoAnswer

(* placeOnPool: what the answer says. *)
PoolKV(p, w, s) == JudgeKV(p, w, Args[p].tp, PresetFact[p].util, SizeFact[s].gpuMem, FALSE)

PoolHosts(p, w) ==
    {s \in DOMAIN SizeFact :
        /\ Args[p].cpu <= SizeFact[s].cpu /\ Gpus(p) <= SizeFact[s].gpus
        /\ w + Overhead(p) <= SizeFact[s].gpuMem * Gpus(p)
        /\ PoolKV(p, w, s).skip \/ PoolKV(p, w, s).fits
        /\ (plan.compute = "judge" /\ SizeCapability(s) > 0) => Generation(p, SizeCapability(s))}

SizeOf(p, w) == IF PoolHosts(p, w) # {} THEN Min(PoolHosts(p, w)) ELSE Len(SizeFact)

(* placeOnPool: it names the size it was judged against. *)
LEMMA PoolAnswer ==
    ASSUME NEW p, NEW w
    PROVE  LET a == JudgePool(p, w)
               s == SizeOf(p, w)
               kv == PoolKV(p, w, s)
               judges == plan.compute = "judge" /\ SizeCapability(s) > 0
           IN /\ a.kind = "pool" /\ a.preset = p /\ a.size = s /\ a.w = w /\ a.shape = Reference(p)
              /\ a.fits <=> PoolHosts(p, w) # {}
              /\ a.kv = IF kv.skip THEN "skip" ELSE "judge"
              /\ a.compute = IF judges THEN "judge" ELSE "skip"
              /\ a.longest = kv.longest /\ a.advised = 0
<1>1. Reference(p).tp = Args[p].tp /\ Reference(p).util = PresetFact[p].util
  BY DEF Reference
<1> QED BY <1>1 DEF JudgePool, NoAnswer, PoolHosts, PoolKV, SizeOf

(* A bound of a set of sizes is one of them. *)
LEMMA SizeIsThere ==
    ASSUME NEW p, NEW w
    PROVE  /\ SizeOf(p, w) \in DOMAIN SizeFact
           /\ PoolHosts(p, w) # {} => SizeOf(p, w) \in PoolHosts(p, w)
<1> DEFINE H == PoolHosts(p, w)
<1>1. SizeFact \in Seq(PoolSizeFacts) /\ SizeFact # <<>>
  BY GpuAssumption
<1>2. DOMAIN SizeFact = 1..Len(SizeFact) /\ Len(SizeFact) \in Nat \ {0}
  BY <1>1
<1>3. H \subseteq DOMAIN SizeFact
  BY DEF PoolHosts
<1>4. ASSUME H # {} PROVE Min(H) \in H
  <2>1. PICK x \in H : \A y \in H : x <= y
    <3>1. H \subseteq Nat
      BY <1>2, <1>3
    <3> DEFINE R == OpToRel(<, Nat)
    <3>2. IsWellFoundedOn(R, Nat)
      BY NatLessThanWellFounded
    <3> HIDE DEF R, H
    <3>3. PICK x \in H : \A y \in H : ~(<<y, x>> \in R)
      BY <1>4, <3>1, <3>2, WFMin
    <3>4. ASSUME NEW y \in H, y < x PROVE FALSE
      <4>1. x \in Nat /\ y \in Nat
        BY <3>1
      <4>2. <<y, x>> \in R
        BY <3>4, <4>1, Zenon DEF R, OpToRel
      <4> QED BY <3>3, <4>2
    <3> QED BY <3>1, <3>4
  <2> QED BY <2>1 DEF Min
<1> QED BY <1>2, <1>3, <1>4 DEF SizeOf

(* The memory a node's GPUs are judged with. *)
MemoryOf(n) == IF Unified(n) THEN Memory(n) ELSE NodeFact[n].gpuMem

(* The facts of a pool's size. *)
LEMMA SizeTypes ==
    ASSUME NEW s \in DOMAIN SizeFact
    PROVE  SizeFact[s].gpuMem \in Nat /\ SizeCapability(s) \in Nat
<1>1. SizeFact[s] \in PoolSizeFacts
  BY GpuAssumption
<1> QED BY <1>1 DEF PoolSizeFacts, SizeCapability

(* What a judging step answers, and of which check. *)
LEMMA Judged ==
    ASSUME SizingInv, JudgeFit
    PROVE  LET p == plan.preset
               w == plan.w
           IN /\ p \in Preset /\ w \in Nat /\ plan.held \in Nat /\ plan.kv \in {"skip", "judge"}
              /\ plan.kv = "judge" => Readable(Checkpoint[p])
              /\ plan.compute = "judge" => Capability(Checkpoint[p], Args[p]) > 0
              /\ \/ answer' = JudgePool(p, w)
                 \/ /\ plan.where \in Node
                    /\ \E room \in BOOLEAN : answer' = JudgeThere(p, w, plan.where, plan.held, room)
<1>1. plan \in PlanState
  BY DEF SizingInv
<1>2. /\ plan.preset \in Preset /\ plan.w \in Nat /\ plan.held \in Nat /\ plan.kv \in {"skip", "judge"}
      /\ plan.where \in Node \cup {NoNode}
  BY <1>1 DEF PlanState
<1>3. \/ answer' = JudgePool(plan.preset, plan.w)
      \/ /\ plan.where # NoNode
         /\ \E room \in BOOLEAN : answer' = JudgeThere(plan.preset, plan.w, plan.where, plan.held, room)
  BY DEF JudgeFit
<1> QED BY <1>2, <1>3 DEF SizingInv

(* An answer on a node: every part of it that refuses, or none. *)
LEMMA NodeStarts ==
    ASSUME NEW p \in Preset, NEW w \in Nat, NEW n \in Node, NEW held \in Nat, NEW room \in BOOLEAN,
           plan.kv \in {"skip", "judge"}, plan.kv = "judge" => Readable(Checkpoint[p]),
           plan.compute = "judge" => Capability(Checkpoint[p], Args[p]) > 0,
           answer' = JudgeThere(p, w, n, held, room)
    PROVE  StartsThere' /\ RefusedForCause'
<1> DEFINE a == answer'
           sh == ShapeOn(p, w, n, held)
           kv == JudgeKVOn(p, w, n, sh)
           need == w + Overhead(p)
           u == Utilization(p, n, held, need)
           judges == plan.compute = "judge" /\ GpuFact[n].capability > 0
           admitted == Admits(p, w, sh.tp, sh.util, Args[p].len, MemoryOf(n), GpuFact[n].a100)
           needs == Needs(p, GpuFact[n].capability)
<1>1. /\ a.kind = "node" /\ a.preset = p /\ a.where = n /\ a.held = held /\ a.w = w /\ a.shape = sh
      /\ a.kv = IF kv.skip THEN "skip" ELSE "judge"
      /\ a.compute = IF judges THEN "judge" ELSE "skip"
  BY NodeAnswer
<1>2. a.fits <=>
        /\ need <= NodeFact[n].budget - held
        /\ u > 0
        /\ NodeFact[n].alloc = 0 \/ sh.devices <= NodeFact[n].alloc
        /\ Discrete(n) => GpuDevices(n) >= Gpus(p)
        /\ room => HasRoom(p, n)
        /\ kv.skip \/ kv.fits
        /\ judges => Generation(p, GpuFact[n].capability)
  BY NodeAnswer
<1>3. /\ sh \in [devices : Nat \ {0}, tp : Nat \ {0}, util : Nat]
      /\ ~Args[p].pipeline => sh.util = SizedOn(p, w, n, held)
      /\ Derived(n) /\ ~Args[p].pipeline => sh.tp = sh.devices
  BY ShapeType
<1>4. ~kv.skip => (kv.fits <=> admitted)
  BY <1>3, VerdictOnNode DEF MemoryOf
<1>5. judges => (Generation(p, GpuFact[n].capability) <=> needs)
  <2>1. judges => GpuFact[n].capability \in Nat \ {0}
    BY GpuTypes
  <2> QED BY <2>1, GenerationIsNeeded
<1>6. GpuThere(a) = [mem |-> MemoryOf(n), a100 |-> GpuFact[n].a100, have |-> GpuFact[n].capability]
  BY <1>1 DEF GpuThere, MemoryOf
<1>7. u \in Int /\ u >= 0 /\ need \in Nat
  BY UtilizationType, PresetTypes
<1>8. ASSUME Unified(n), ~Args[p].pipeline, u > 0
      PROVE  Claim(sh.util, n) <= Available(n, held) /\ Claim(sh.util, n) >= need
  <2>1. sh.util = u
    BY <1>3, <1>8 DEF SizedOn
  <2>2. need <= Claim(u, n) /\ Claim(u, n) <= Available(n, held)
    BY <1>7, <1>8, UtilizationFits
  <2>3. Claim(u, n) \in Int
    BY <1>7, NodeTypes DEF Claim
  <2> HIDE DEF u, need, sh
  <2> QED BY <1>7, <2>1, <2>2, <2>3
<1> HIDE DEF a, sh, kv, need, u, judges, admitted, needs
<1>9. a.fits =>
         /\ a.kv = "judge" => admitted
         /\ a.compute = "judge" => needs
         /\ Derived(n) /\ ~Args[p].pipeline => sh.tp = sh.devices
         /\ Unified(n) /\ ~Args[p].pipeline => /\ Claim(sh.util, n) <= Available(n, held)
                                              /\ Claim(sh.util, n) >= need
  BY <1>1, <1>2, <1>3, <1>4, <1>5, <1>8
<1>10. ~a.fits =>
         \/ need > NodeFact[n].budget - held \/ u = 0
         \/ NodeFact[n].alloc \in 1..(sh.devices - 1)
         \/ Discrete(n) /\ GpuDevices(n) < Gpus(p)
         \/ GpuFact[n].cpu = 0 /\ Args[p].cpu > 0
         \/ a.kv = "judge" /\ ~admitted
         \/ a.compute = "judge" /\ ~needs
  <2>1. /\ NodeFact[n].budget \in Nat /\ NodeFact[n].alloc \in Nat /\ sh.devices \in Nat
        /\ GpuDevices(n) \in Nat /\ Gpus(p) \in Nat /\ GpuFact[n].cpu \in Nat /\ Args[p].cpu \in Nat
    <3>1. NodeFact[n] \in NodeFacts
      BY NodeTypes
    <3> QED BY <1>3, <3>1, GpuTypes, PresetTypes, ModelTypes DEF NodeFacts, GpuDevices
  <2>2. ~HasRoom(p, n) => GpuFact[n].cpu = 0 /\ Args[p].cpu > 0
    BY <2>1 DEF HasRoom
  <2>3. ~(NodeFact[n].alloc = 0 \/ sh.devices <= NodeFact[n].alloc) => NodeFact[n].alloc \in 1..(sh.devices - 1)
    BY <2>1
  <2>4. ~(GpuDevices(n) >= Gpus(p)) => GpuDevices(n) < Gpus(p)
    BY <2>1
  <2>5. ~(u > 0) => u = 0
    BY <1>7
  <2>6. ~(need <= NodeFact[n].budget - held) => need > NodeFact[n].budget - held
    BY <1>7, <2>1
  <2>7. ~(kv.skip \/ kv.fits) => a.kv = "judge" /\ ~admitted
    BY <1>1, <1>4
  <2>8. ~(judges => Generation(p, GpuFact[n].capability)) => a.compute = "judge" /\ ~needs
    BY <1>1, <1>5
  <2> QED BY <1>2, <2>2, <2>3, <2>4, <2>5, <2>6, <2>7, <2>8
<1>11. StartsThere'
  BY <1>1, <1>6, <1>9 DEF StartsThere, a, admitted, needs, need
<1>12. RefusedForCause'
  BY <1>1, <1>6, <1>10 DEF RefusedForCause, a, admitted, needs, need, u
<1> QED BY <1>11, <1>12

(* An answer on a pool names a size that hosts it. *)
LEMMA PoolStarts ==
    ASSUME NEW p \in Preset, NEW w \in Nat,
           plan.kv \in {"skip", "judge"}, plan.kv = "judge" => Readable(Checkpoint[p]),
           plan.compute = "judge" => Capability(Checkpoint[p], Args[p]) > 0,
           answer' = JudgePool(p, w)
    PROVE  StartsThere' /\ RefusedForCause'
<1> DEFINE a == answer'
           s == SizeOf(p, w)
           mem == SizeFact[s].gpuMem
           tp == Args[p].tp
           util == PresetFact[p].util
           no == FALSE
           kv == PoolKV(p, w, s)
           judges == plan.compute = "judge" /\ SizeCapability(s) > 0
           admitted == Admits(p, w, tp, util, Args[p].len, mem, no)
           needs == Needs(p, SizeCapability(s))
<1>1. /\ a.kind = "pool" /\ a.preset = p /\ a.size = s /\ a.w = w /\ a.shape = Reference(p)
      /\ a.fits <=> PoolHosts(p, w) # {}
      /\ a.kv = IF kv.skip THEN "skip" ELSE "judge"
      /\ a.compute = IF judges THEN "judge" ELSE "skip"
  <2> DEFINE b == JudgePool(p, w)
  <2>1. /\ b.kind = "pool" /\ b.preset = p /\ b.size = s /\ b.w = w /\ b.shape = Reference(p)
        /\ b.fits <=> PoolHosts(p, w) # {}
        /\ b.kv = IF kv.skip THEN "skip" ELSE "judge"
        /\ b.compute = IF judges THEN "judge" ELSE "skip"
    BY PoolAnswer
  <2> HIDE DEF b, kv, judges, s
  <2> QED BY <2>1 DEF b
<1>2. s \in DOMAIN SizeFact /\ mem \in Nat /\ SizeCapability(s) \in Nat
  BY SizeIsThere, SizeTypes
<1>3. a.shape.tp = tp /\ a.shape.util = util
  BY <1>1 DEF Reference
<1>4. tp \in Nat \ {0} /\ util \in Nat
  <2>1. util \in 1..100 /\ tp \in Nat \ {0}
    BY PresetTypes, ModelTypes
  <2> HIDE DEF util
  <2> QED BY <2>1
<1>5. GpuThere(a) = [mem |-> mem, a100 |-> no, have |-> SizeCapability(s)]
  BY <1>1 DEF GpuThere
<1>6. ~kv.skip => (kv.fits <=> admitted)
  <2>1. kv = JudgeKV(p, w, tp, util, mem, no)
    BY DEF PoolKV
  <2>2. no \in BOOLEAN
    OBVIOUS
  <2> HIDE DEF mem, tp, util, s, kv, no
  <2> QED BY <1>2, <1>4, <2>1, <2>2, VerdictIsAdmission
<1>7. judges => (Generation(p, SizeCapability(s)) <=> needs)
  <2> HIDE DEF s
  <2>1. judges => SizeCapability(s) \in Nat \ {0}
    BY <1>2
  <2> QED BY <2>1, GenerationIsNeeded
<1>8. PoolHosts(p, w) # {} => (kv.skip \/ kv.fits) /\ (judges => Generation(p, SizeCapability(s)))
  <2>1. PoolHosts(p, w) # {} => s \in PoolHosts(p, w)
    BY SizeIsThere
  <2> HIDE DEF s
  <2> QED BY <2>1 DEF PoolHosts
<1> HIDE DEF a, s, mem, tp, util, no, kv, judges, admitted, needs
<1>9. a.fits => (a.kv = "judge" => admitted) /\ (a.compute = "judge" => needs)
  BY <1>1, <1>6, <1>7, <1>8
<1>10. StartsThere'
  BY <1>1, <1>3, <1>5, <1>9 DEF StartsThere, a, admitted, needs
<1>11. RefusedForCause'
  BY <1>1 DEF RefusedForCause, a
<1> QED BY <1>10, <1>11

(* Only a judging step answers. *)
LEMMA SizingSteps ==
    ASSUME SizingInv, StartsThere /\ RefusedForCause, [SizingNext]_sizeVars
    PROVE  (StartsThere /\ RefusedForCause)'
<1>1. CASE JudgeFit
  BY <1>1, Judged, NodeStarts, PoolStarts
<1>2. CASE UNCHANGED answer
  BY <1>2 DEF StartsThere, RefusedForCause, GpuThere
<1>3. Ask \/ SizeHub \/ SizeImage \/ CheckKV \/ CheckCompute \/ UNCHANGED sizeVars => UNCHANGED answer
  BY DEF Ask, SizeHub, SizeImage, CheckKV, CheckCompute, Only, sizeVars
<1> QED BY <1>1, <1>2, <1>3 DEF SizingNext

(* SizingInv is invariant. *)
LEMMA SizingInvHolds == SizingSpec => []SizingInv
<1> QED BY SizingInvInit, SizingInvKept, PTL DEF SizingSpec

(* A model a fit check accepts starts where it was placed: the layers of its
   checkpoint leave one sequence room beside the weights, counted one by one
   (kvLayersOf, needBytes); its GPUs are those the pod requests; they compute
   its weights (computeNeedOf); its claim leaves the host its headroom. *)
THEOREM ModelsStart == SizingSpec => []StartsThere
<1>1. SizingInit => StartsThere /\ RefusedForCause
  BY DEF SizingInit, NoAnswer, StartsThere, RefusedForCause
<1> QED BY <1>1, SizingInvHolds, SizingSteps, PTL DEF SizingSpec

(* A check that could not be made refuses nothing: a refusal is of a need that
   is short of what is there (judgeNode, kvCheckFor, computeNeedFor). *)
THEOREM RefusalsHaveCause == SizingSpec => []RefusedForCause
<1>1. SizingInit => StartsThere /\ RefusedForCause
  BY DEF SizingInit, NoAnswer, StartsThere, RefusedForCause
<1> QED BY <1>1, SizingInvHolds, SizingSteps, PTL DEF SizingSpec

-----------------------------------------------------------------------------
(* Sizing: what a refusal advises *)

(* One sequence: a longer one holds no less in any layer. *)
LEMMA WholeGrows ==
    ASSUME NEW p \in Preset, NEW len \in Nat, NEW more \in Nat, len <= more
    PROVE  Whole(p, len) <= Whole(p, more)
<1>1. Args[p].block \in Nat \ {0}
  BY ModelTypes
<1> QED BY <1>1, CeilGrows DEF Whole

(* A longer one holds no less of its window. *)
LEMMA PartGrows ==
    ASSUME NEW p \in Preset, NEW len \in Nat, NEW more \in Nat, len <= more, NEW batched \in Nat,
           Checkpoint[p].window > 0
    PROVE  Part(p, len, batched) <= Part(p, more, batched)
<1> DEFINE b == Args[p].block
           w == Checkpoint[p].window
           x == AtMost(w - 1 + ChunkOf(Args[p], len, batched), len)
           y == AtMost(w - 1 + ChunkOf(Args[p], more, batched), more)
<1>1. b \in Nat \ {0} /\ w \in Nat /\ w > 0
  BY ModelTypes
<1>2. /\ ChunkOf(Args[p], len, batched) \in Nat /\ ChunkOf(Args[p], more, batched) \in Nat
      /\ ChunkOf(Args[p], len, batched) <= ChunkOf(Args[p], more, batched)
  BY DEF ChunkOf, AtLeast
<1> HIDE DEF w
<1>3. x \in Nat /\ y \in Nat /\ x <= y
  BY <1>1, <1>2 DEF AtMost
<1> HIDE DEF x, y, b
<1>4. CeilDiv(x, b) <= CeilDiv(y, b) /\ CeilDiv(x, b) \in Nat /\ CeilDiv(y, b) \in Nat
  BY <1>1, <1>3, CeilGrows, CeilCovers
<1>5. CeilDiv(x, b) + 1 <= CeilDiv(y, b) + 1
  BY <1>4
<1> QED BY <1>5 DEF Part, x, y, w, b

(* The need in terms of its layers. *)
LEMMA KindsNeed ==
    ASSUME NEW p \in Preset, Readable(Checkpoint[p]), Checkpoint[p].latent = 0,
           NEW tp \in Nat \ {0}, NEW len \in Nat, NEW batched \in Nat
    PROVE  Need(Checkpoint[p], Args[p], tp, len, batched)
             = CountOf(Checkpoint[p], "full") * HoldsFull(p, tp, len)
               + CountOf(Checkpoint[p], "sliding") * HoldsSliding(p, tp, len, batched)
<1> DEFINE sum == Total(Singly(p, tp, len, batched), DOMAIN Checkpoint[p].types)
<1>1. Need(Checkpoint[p], Args[p], tp, len, batched) = sum
  BY NeedCounts
<1>2. sum = CountOf(Checkpoint[p], "full") * HoldsFull(p, tp, len)
            + CountOf(Checkpoint[p], "sliding") * HoldsSliding(p, tp, len, batched)
  BY SinglyTotal
<1> HIDE DEF sum
<1> QED BY <1>1, <1>2

(* The same of a latent cache. *)
LEMMA LatentNeed ==
    ASSUME NEW p \in Preset, Readable(Checkpoint[p]), Checkpoint[p].latent > 0,
           NEW tp \in Nat \ {0}, NEW len \in Nat, NEW batched \in Nat
    PROVE  Need(Checkpoint[p], Args[p], tp, len, batched) = Len(Checkpoint[p].types) * HoldsLatent(p, len)
<1> DEFINE sum == Total(Singly(p, tp, len, batched), DOMAIN Checkpoint[p].types)
<1>1. Need(Checkpoint[p], Args[p], tp, len, batched) = sum
  BY NeedCounts
<1>2. sum = Len(Checkpoint[p].types) * HoldsLatent(p, len)
  BY SinglyLatent
<1> HIDE DEF sum
<1> QED BY <1>1, <1>2

(* needBytes grows with the sequence, so vLLM may search it by halves. *)
LEMMA NeedGrows ==
    ASSUME NEW p \in Preset, Readable(Checkpoint[p]), NEW tp \in Nat \ {0},
           NEW len \in Nat, NEW more \in Nat, len <= more, NEW batched \in Nat
    PROVE  Need(Checkpoint[p], Args[p], tp, len, batched) <= Need(Checkpoint[p], Args[p], tp, more, batched)
<1> DEFINE c == Checkpoint[p]
<1>0. c.latent \in Nat
  BY ModelTypes
<1>1. CASE c.latent = 0
  <2> DEFINE n == CountOf(c, "full")
             m == CountOf(c, "sliding")
             a == HoldsFull(p, tp, len)
             b == HoldsFull(p, tp, more)
             d == HoldsSliding(p, tp, len, batched)
             e == HoldsSliding(p, tp, more, batched)
             k == EachWide(p, tp) + IndexOf(p)
  <2>1. n \in Nat /\ m \in Nat
    BY OfType
  <2>2. /\ Whole(p, len) \in Nat /\ Whole(p, more) \in Nat /\ EachWide(p, tp) \in Nat /\ IndexOf(p) \in Nat
        /\ EachNarrow(p, tp) \in Nat
        /\ a \in Nat /\ b \in Nat /\ d \in Nat /\ e \in Nat
    BY <1>1, HoldsType
  <2>3. a <= b
    <3>1. k \in Nat
      BY <2>2
    <3> HIDE DEF k
    <3>2. Whole(p, len) * k <= Whole(p, more) * k
      BY <2>2, <3>1, WholeGrows, TimesGrows
    <3> QED BY <3>2 DEF HoldsFull, k
  <2>4. d <= e
    <3>1. CASE c.window > 0
      <4>1. /\ Part(p, len, batched) \in Nat /\ Part(p, more, batched) \in Nat
            /\ Part(p, len, batched) <= Part(p, more, batched)
        BY <1>1, <3>1, HoldsType, PartGrows
      <4>2. Part(p, len, batched) * EachNarrow(p, tp) <= Part(p, more, batched) * EachNarrow(p, tp)
        BY <2>2, <4>1, TimesGrows
      <4> QED BY <3>1, <4>2 DEF HoldsSliding
    <3>2. CASE ~(c.window > 0)
      BY <3>2 DEF HoldsSliding
    <3> QED BY <3>1, <3>2
  <2>5. /\ Need(c, Args[p], tp, len, batched) = n * a + m * d
        /\ Need(c, Args[p], tp, more, batched) = n * b + m * e
    BY <1>1, KindsNeed
  <2> HIDE DEF n, m, a, b, d, e
  <2>6. n * a <= n * b /\ m * d <= m * e
    <3>1. a * n <= b * n /\ d * m <= e * m
      BY <2>1, <2>2, <2>3, <2>4, TimesGrows
    <3> QED BY <2>1, <2>2, <3>1
  <2>7. n * a \in Nat /\ n * b \in Nat /\ m * d \in Nat /\ m * e \in Nat
    BY <2>1, <2>2
  <2> QED BY <2>5, <2>6, <2>7
<1>2. CASE c.latent > 0
  <2> DEFINE n == Len(c.types)
             k == Args[p].block * c.latent * ElemBytes(c, Args[p])
             a == HoldsLatent(p, len)
             b == HoldsLatent(p, more)
  <2>1. /\ n \in Nat /\ k \in Nat /\ a \in Nat /\ b \in Nat /\ Whole(p, len) \in Nat /\ Whole(p, more) \in Nat
        /\ a = Whole(p, len) * k /\ b = Whole(p, more) * k
    BY LatentType
  <2>2. Need(c, Args[p], tp, len, batched) = n * a /\ Need(c, Args[p], tp, more, batched) = n * b
    BY <1>2, LatentNeed
  <2> HIDE DEF n, k, a, b
  <2>3. a <= b
    BY <2>1, WholeGrows, TimesGrows
  <2>4. a * n <= b * n
    BY <2>1, <2>3, TimesGrows
  <2>5. a * n = n * a /\ b * n = n * b
    BY <2>1
  <2> QED BY <2>2, <2>4, <2>5
<1> QED BY <1>0, <1>1, <1>2

(* Lengths of which a shorter one holds where a longer does have a longest. *)
LEMMA LongestExists ==
    ASSUME NEW L \in Nat, NEW H, \A n \in 1..L, m \in 1..L : n <= m /\ m \in H => n \in H
    PROVE  \E t \in 0..L : \A n \in 1..L : n \in H <=> n <= t
<1> DEFINE Splits(k) == \E t \in 0..k : \A n \in 1..k : n \in H <=> n <= t
           G == {k \in Nat : k <= L => Splits(k)}
<1>1. 0 \in G
  <2>1. Splits(0)
    <3>1. 0 \in 0..0 /\ \A n \in 1..0 : n \in H <=> n <= 0
      OBVIOUS
    <3> QED BY <3>1
  <2> QED BY <2>1
<1>2. ASSUME NEW k \in G PROVE k + 1 \in G
  <2>1. ASSUME k + 1 <= L PROVE Splits(k + 1)
    <3>1. k \in Nat
      BY <1>2
    <3>2. CASE k + 1 \in H
      <4>1. \A n \in 1..(k + 1) : n \in H <=> n <= k + 1
        BY <2>1, <3>1, <3>2
      <4> QED BY <3>1, <4>1
    <3>3. CASE k + 1 \notin H
      <4>1. PICK t \in 0..k : \A n \in 1..k : n \in H <=> n <= t
        BY <1>2, <2>1, <3>1
      <4>2. \A n \in 1..(k + 1) : n \in H <=> n <= t
        BY <3>1, <3>3, <4>1
      <4>3. t \in 0..(k + 1)
        BY <3>1
      <4> QED BY <4>2, <4>3
    <3> QED BY <3>2, <3>3
  <2>2. k + 1 \in Nat
    BY <1>2
  <2> HIDE DEF Splits
  <2> QED BY <2>1, <2>2
<1> HIDE DEF G
<1>3. G = Nat
  BY <1>1, <1>2, NatSteps DEF G
<1>4. Splits(L)
  <2> HIDE DEF Splits
  <2> QED BY <1>3 DEF G
<1> QED BY <1>4

(* t is the longest of H below L, and every shorter one is in H. *)
Limit(t, H, L) == \A n \in 1..L : n \in H <=> n <= t

(* One halving of the binary search of vLLM, in H the lengths that hold. *)
Halved(h, H, lo, hi) ==
    LET mid == (lo + hi) \div 2 IN
    CASE lo > hi -> 0
      [] lo <= hi /\ mid \in H -> AtLeast(mid, h[<<mid + 1, hi>>])
      [] OTHER -> h[<<lo, mid - 1>>]
Halving(h, H, L) == [r \in (1..L + 1) \X (0..L) |-> Halved(h, H, r[1], r[2])]

(* What it finds where the longest is t. *)
Found(t, lo, hi) == IF t >= lo /\ hi >= lo THEN AtMost(t, hi) ELSE 0

(* The ranges a halving of lo..hi goes on with are done. *)
HalvesFound(h, t, lo, hi) ==
    LET mid == (lo + hi) \div 2 IN
    lo <= hi => h[<<mid + 1, hi>>] = Found(t, mid + 1, hi) /\ h[<<lo, mid - 1>>] = Found(t, lo, mid - 1)

(* Then so is lo..hi. *)
LEMMA HalvedIs ==
    ASSUME NEW L \in Nat, NEW H, NEW t \in 0..L, Limit(t, H, L),
           NEW lo \in 1..L + 1, NEW hi \in 0..L, NEW h,
           HalvesFound(h, t, lo, hi)
    PROVE  Halved(h, H, lo, hi) = Found(t, lo, hi)
<1> DEFINE mid == (lo + hi) \div 2
<1>1. CASE lo > hi
  <2>1. Halved(h, H, lo, hi) = 0
    BY <1>1 DEF Halved
  <2> QED BY <1>1, <2>1 DEF Found
<1>2. CASE lo <= hi
  <2>1. mid \in Nat /\ lo <= mid /\ mid <= hi
    BY <1>2
  <2>2. h[<<mid + 1, hi>>] = Found(t, mid + 1, hi) /\ h[<<lo, mid - 1>>] = Found(t, lo, mid - 1)
    BY <1>2 DEF HalvesFound
  <2>3. mid \in H <=> mid <= t
    BY <2>1 DEF Limit
  <2>4. CASE mid \in H
    <3>1. Halved(h, H, lo, hi) = AtLeast(mid, h[<<mid + 1, hi>>])
      BY <1>2, <2>4 DEF Halved
    <3> HIDE DEF mid
    <3> QED BY <1>2, <2>1, <2>2, <2>3, <2>4, <3>1 DEF Found, AtLeast, AtMost
  <2>5. CASE mid \notin H
    <3>1. Halved(h, H, lo, hi) = h[<<lo, mid - 1>>]
      BY <1>2, <2>5 DEF Halved
    <3> HIDE DEF mid
    <3>2. t < mid /\ t \in Nat /\ lo \in Nat /\ hi \in Nat
      BY <2>1, <2>3, <2>5
    <3>3. Found(t, lo, mid - 1) = IF t >= lo THEN t ELSE 0
      BY <2>1, <3>2 DEF Found, AtMost
    <3>4. Found(t, lo, hi) = IF t >= lo THEN t ELSE 0
      BY <2>1, <3>2 DEF Found, AtMost
    <3> QED BY <2>2, <3>1, <3>3, <3>4
  <2> QED BY <2>4, <2>5
<1> QED BY <1>1, <1>2

(* The search is defined, and what it finds is the longest. *)
LEMMA HalvingFinds ==
    ASSUME NEW L \in Nat, NEW H, NEW t \in 0..L, Limit(t, H, L)
    PROVE  (CHOOSE h : h = Halving(h, H, L))[<<1, L>>] = t
<1> DEFINE D == (1..L + 1) \X (0..L)
           g == [r \in D |-> Found(t, r[1], r[2])]
<1>0. ASSUME NEW lo \in 1..L + 1, NEW hi \in 0..L, lo <= hi
      PROVE  LET mid == (lo + hi) \div 2 IN
             /\ mid \in Nat /\ lo <= mid /\ mid <= hi
             /\ mid + 1 \in 1..L + 1 /\ mid - 1 \in 0..L
  BY <1>0
<1>1. g = Halving(g, H, L)
  <2>1. ASSUME NEW lo \in 1..L + 1, NEW hi \in 0..L PROVE g[<<lo, hi>>] = Found(t, lo, hi)
    OBVIOUS
  <2> HIDE DEF g
  <2>2. ASSUME NEW lo \in 1..L + 1, NEW hi \in 0..L PROVE Halved(g, H, lo, hi) = Found(t, lo, hi)
    <3> DEFINE mid == (lo + hi) \div 2
    <3>1. lo <= hi => mid + 1 \in 1..L + 1 /\ mid - 1 \in 0..L
      BY <1>0
    <3> HIDE DEF mid
    <3>2. lo <= hi => /\ g[<<mid + 1, hi>>] = Found(t, mid + 1, hi)
                      /\ g[<<lo, mid - 1>>] = Found(t, lo, mid - 1)
      BY <2>1, <3>1
    <3>3. HalvesFound(g, t, lo, hi)
      BY <3>2 DEF HalvesFound, mid
    <3> QED BY <3>3, HalvedIs
  <2>3. \A r \in D : Halved(g, H, r[1], r[2]) = Found(t, r[1], r[2])
    BY <2>2
  <2> QED BY <2>3 DEF Halving, g
<1>2. ASSUME NEW h, h = Halving(h, H, L) PROVE h[<<1, L>>] = t
  <2>1. ASSUME NEW lo \in 1..L + 1, NEW hi \in 0..L PROVE h[<<lo, hi>>] = Halved(h, H, lo, hi)
    BY <1>2 DEF Halving
  <2> DEFINE Right(lo, hi) == h[<<lo, hi>>] = Found(t, lo, hi)
             G == {n \in Nat : \A lo \in 1..L + 1, hi \in 0..L : hi - lo < n => Right(lo, hi)}
  <2>2. 0 \in G
    <3>1. ASSUME NEW lo \in 1..L + 1, NEW hi \in 0..L, hi - lo < 0 PROVE Right(lo, hi)
      <4>1. ~(lo <= hi)
        BY <3>1
      <4>2. HalvesFound(h, t, lo, hi)
        BY <4>1 DEF HalvesFound
      <4> QED BY <2>1, <4>2, HalvedIs
    <3> HIDE DEF Right
    <3> QED BY <3>1
  <2>3. ASSUME NEW n \in G PROVE n + 1 \in G
    <3>1. ASSUME NEW lo \in 1..L + 1, NEW hi \in 0..L, hi - lo < n + 1 PROVE Right(lo, hi)
      <4> DEFINE mid == (lo + hi) \div 2
      <4>1. lo <= hi => /\ mid \in Nat /\ lo <= mid /\ mid <= hi
                        /\ mid + 1 \in 1..L + 1 /\ mid - 1 \in 0..L
        BY <1>0
      <4> HIDE DEF mid
      <4>2. n \in Nat
        BY <2>3
      <4>3. lo <= hi => hi - (mid + 1) < n /\ (mid - 1) - lo < n
        BY <3>1, <4>1, <4>2
      <4>4. lo <= hi => Right(mid + 1, hi) /\ Right(lo, mid - 1)
        <5> HIDE DEF Right
        <5> QED BY <2>3, <4>1, <4>3
      <4>5. Halved(h, H, lo, hi) = Found(t, lo, hi)
        <5>1. HalvesFound(h, t, lo, hi)
          BY <4>4 DEF HalvesFound, mid
        <5> QED BY <5>1, HalvedIs
      <4> QED BY <2>1, <4>5
    <3>2. n + 1 \in Nat
      BY <2>3
    <3> HIDE DEF Right
    <3> QED BY <3>1, <3>2
  <2> HIDE DEF G
  <2>4. G = Nat
    BY <2>2, <2>3, NatSteps DEF G
  <2>5. Right(1, L)
    <3>1. L \in G /\ 1 \in 1..L + 1 /\ L \in 0..L /\ L - 1 < L
      BY <2>4
    <3> HIDE DEF Right
    <3> QED BY <3>1 DEF G
  <2> QED BY <2>5 DEF Found, AtMost
<1> HIDE DEF g
<1> QED BY <1>1, <1>2

(* The lengths of which a GPU holds one sequence in left. *)
Holding(p, left, tp, batched) == {len \in Nat : Need(Checkpoint[p], Args[p], tp, len, batched) <= left}

(* The search of the model is this one. *)
LEMMA LongestHalves ==
    ASSUME NEW p \in Preset, NEW left, NEW tp, NEW batched
    PROVE  Longest(p, left, tp, batched)
             = (CHOOSE h : h = Halving(h, Holding(p, left, tp, batched), Args[p].len))[<<1, Args[p].len>>]
<1> DEFINE L == Args[p].len
           H == Holding(p, left, tp, batched)
           holds(len) == Need(Checkpoint[p], Args[p], tp, len, batched) <= left
           next(h, lo, hi) ==
             LET mid == (lo + hi) \div 2 IN
             CASE lo > hi -> 0
               [] lo <= hi /\ holds(mid) -> AtLeast(mid, h[<<mid + 1, hi>>])
               [] OTHER -> h[<<lo, mid - 1>>]
           F(h) == [r \in (1..L + 1) \X (0..L) |-> next(h, r[1], r[2])]
<1>1. Longest(p, left, tp, batched) = (CHOOSE h : h = F(h))[<<1, L>>]
  BY DEF Longest
<1>2. L \in Nat
  BY ModelTypes
<1>3. \A n \in Nat : holds(n) <=> n \in H
  BY DEF Holding
<1> HIDE DEF holds, H, L
<1>4. ASSUME NEW h, NEW lo \in 1..L + 1, NEW hi \in 0..L PROVE next(h, lo, hi) = Halved(h, H, lo, hi)
  <2> DEFINE mid == (lo + hi) \div 2
  <2>1. mid \in Nat
    BY <1>2
  <2>2. holds(mid) <=> mid \in H
    BY <1>3, <2>1
  <2>3. CASE lo > hi
    BY <2>3 DEF Halved
  <2>4. CASE ~(lo > hi) /\ mid \in H
    <3>1. lo <= hi
      BY <1>2, <2>4
    <3> QED BY <2>2, <2>4, <3>1 DEF Halved
  <2>5. CASE ~(lo > hi) /\ mid \notin H
    BY <2>2, <2>5 DEF Halved
  <2> QED BY <2>3, <2>4, <2>5
<1> HIDE DEF next
<1>5. \A h : F(h) = Halving(h, H, L)
  <2>1. ASSUME NEW h, NEW r \in (1..L + 1) \X (0..L) PROVE next(h, r[1], r[2]) = Halved(h, H, r[1], r[2])
    BY <1>4
  <2> QED BY <2>1 DEF Halving
<1> HIDE DEF F
<1>6. (CHOOSE h : h = F(h)) = (CHOOSE h : h = Halving(h, H, L))
  BY <1>5
<1> QED BY <1>1, <1>6 DEF H, L

(* The length a refusal advises is the longest a GPU holds. *)
LEMMA LongestIsMost ==
    ASSUME NEW p \in Preset, Readable(Checkpoint[p]), NEW left \in Int, NEW tp \in Nat \ {0}, NEW batched \in Nat
    PROVE  LET S == {len \in 1..Args[p].len : Need(Checkpoint[p], Args[p], tp, len, batched) <= left} IN
           Longest(p, left, tp, batched) \in S \cup {0} /\ \A len \in S : len <= Longest(p, left, tp, batched)
<1> DEFINE L == Args[p].len
           H == Holding(p, left, tp, batched)
           S == {len \in 1..L : Need(Checkpoint[p], Args[p], tp, len, batched) <= left}
           found == Longest(p, left, tp, batched)
<1>1. L \in Nat
  BY ModelTypes
<1>2. ASSUME NEW n \in 1..L, NEW m \in 1..L, n <= m, m \in H PROVE n \in H
  <2>1. n \in Nat /\ m \in Nat
    BY <1>1
  <2> DEFINE x == Need(Checkpoint[p], Args[p], tp, n, batched)
             y == Need(Checkpoint[p], Args[p], tp, m, batched)
  <2>2. x \in Nat /\ y \in Nat
    BY <2>1, NeedCounts
  <2>3. x <= y
    BY <1>2, <2>1, NeedGrows
  <2>4. y <= left
    BY <1>2 DEF Holding
  <2> HIDE DEF x, y
  <2>5. x <= left
    BY <2>2, <2>3, <2>4
  <2> QED BY <2>1, <2>5 DEF Holding, x
<1>3. S = {len \in 1..L : len \in H}
  BY <1>1 DEF Holding
<1>4. found = (CHOOSE h : h = Halving(h, H, L))[<<1, L>>]
  BY LongestHalves
<1> HIDE DEF L, H, S, found
<1>5. PICK t \in 0..L : \A n \in 1..L : n \in H <=> n <= t
  BY <1>1, <1>2, LongestExists
<1>6. found = t
  <2>1. Limit(t, H, L)
    BY <1>5 DEF Limit
  <2> QED BY <1>1, <1>4, <2>1, HalvingFinds
<1>7. found \in S \cup {0} /\ \A len \in S : len <= found
  BY <1>1, <1>3, <1>5, <1>6
<1> QED BY <1>7 DEF S, found, L

(* A greatest element is the one Max chooses. *)
LEMMA MaxIs ==
    ASSUME NEW S \in SUBSET Int, NEW m \in S, \A x \in S : x <= m
    PROVE  Max(S) = m
<1>1. m \in S /\ \A y \in S : m >= y
  OBVIOUS
<1>2. Max(S) \in S /\ \A y \in S : Max(S) >= y
  BY <1>1 DEF Max
<1>3. Max(S) >= m /\ Max(S) <= m /\ Max(S) \in Int
  BY <1>2
<1> QED BY <1>3

(* The lengths a GPU of mem admits. *)
Admitted(p, w, tp, u, mem, a100) == {len \in 1..Args[p].len : Admits(p, w, tp, u, len, mem, a100)}

(* kvCheckFor, judge: the length a refusal advises is the longest admitted. *)
LEMMA LongestIsAdmitted ==
    ASSUME plan.kv \in {"skip", "judge"},
           NEW p \in Preset, plan.kv = "judge" => Readable(Checkpoint[p]), NEW w \in Nat,
           NEW tp \in Nat \ {0}, NEW u \in Nat, NEW mem \in Nat, NEW a100 \in BOOLEAN,
           ~JudgeKV(p, w, tp, u, mem, a100).skip,
           Args[p].len \notin Admitted(p, w, tp, u, mem, a100)
    PROVE  JudgeKV(p, w, tp, u, mem, a100).longest
             = Max(Admitted(p, w, tp, u, mem, a100) \cup {0})
<1> DEFINE j == JudgeKV(p, w, tp, u, mem, a100)
           b == Batched(Args[p], mem, a100)
           L == Args[p].len
           left == Left(w, tp, u, mem)
           need(len) == Need(Checkpoint[p], Args[p], tp, len, b)
           A == Admitted(p, w, tp, u, mem, a100)
           ok == left > 0 /\ need(L) <= left
<1>1. L \in Nat \ {0} /\ b \in Nat
  BY ModelTypes, BatchAssumption DEF Batched
<1>2. plan.kv = "judge"
  BY DEF JudgeKV, Unjudged
<1>3. j.longest = IF ok \/ left <= 0 THEN 0 ELSE Longest(p, left, tp, b)
  BY DEF JudgeKV, Unjudged
<1>4. \A len \in Nat : Admits(p, w, tp, u, len, mem, a100) <=> left > 0 /\ need(len) <= left
  BY <1>2, AdmitsWhere
<1>5. left \in Int
  BY <1>2, <1>1, AdmitsWhere
<1>6. ~ok
  BY <1>1, <1>4 DEF Admitted
<1>7. CASE left <= 0
  <2>1. A = {}
    BY <1>1, <1>4, <1>5, <1>7 DEF Admitted
  <2>2. Max({0}) = 0
    BY MaxIs
  <2>3. A \cup {0} = {0}
    BY <2>1
  <2> HIDE DEF A, ok, left
  <2> QED BY <1>3, <1>7, <2>2, <2>3 DEF A
<1>8. CASE left > 0
  <2> DEFINE S == {len \in 1..L : need(len) <= left}
             found == Longest(p, left, tp, b)
  <2>1. A = S
    BY <1>1, <1>4, <1>8 DEF Admitted
  <2>2. found \in S \cup {0} /\ \A len \in S : len <= found
    BY <1>1, <1>2, <1>5, LongestIsMost
  <2>3. S \cup {0} \in SUBSET Int
    <3>1. S \subseteq Int
      BY <1>1
    <3> HIDE DEF S
    <3> QED BY <3>1
  <2> HIDE DEF S, found
  <2>4. S \subseteq Nat
    BY <1>1 DEF S
  <2>5. \A x \in S \cup {0} : x <= found
    <3>1. found \in Nat
      BY <2>2, <2>4
    <3>2. 0 <= found
      BY <3>1
    <3>3. \A x \in S : x <= found
      BY <2>2
    <3> HIDE DEF S
    <3> QED BY <3>2, <3>3
  <2>6. Max(S \cup {0}) = found
    BY <2>2, <2>3, <2>5, MaxIs
  <2>7. j.longest = found
    BY <1>3, <1>5, <1>6, <1>8 DEF found
  <2> QED BY <2>1, <2>6, <2>7
<1> QED BY <1>5, <1>7, <1>8

(* unifiedClaimOn: the utilization a refusal advises is the smallest that
   claims the need, and its claim is there. *)
LEMMA AdvisedIsLeast ==
    ASSUME NEW p \in Preset, NEW w \in Nat, NEW n \in Node, NEW held \in Nat, Advised(p, w, n, held) > 0
    PROVE  LET u == Advised(p, w, n, held)
               need == w + Overhead(p)
           IN /\ Claim(u, n) \in need..Available(n, held)
              /\ \A x \in 1..u - 1 : x * Memory(n) < 100 * need
<1> DEFINE need == w + Overhead(p)
           u == Sized(need, n)
           m == Memory(n)
<1>1. Advised(p, w, n, held) = u /\ u \in 1..100 /\ Claim(u, n) <= Available(n, held)
  BY DEF Advised
<1>2. need \in Nat /\ m \in Nat \ {0}
  BY PresetTypes, NodeTypes
<1>3. Claim(u, n) >= need
  BY <1>2, SizedCovers
<1>4. Claim(u, n) \in Int
  BY <1>1, <1>2 DEF Claim
<1>5. Available(n, held) \in Int
  BY NodeTypes, HeadroomAssumption DEF Available, AtLeast, AtMost, NodeFacts
<1>6. ASSUME NEW x \in 1..u - 1 PROVE x * m < 100 * need
  <2>1. x \in Nat /\ x < u
    BY <1>1
  <2>2. u = CeilDiv(need * 100, m)
    BY DEF Sized
  <2> HIDE DEF u, need, m
  <2>3. need * 100 \in Nat /\ need * 100 = 100 * need
    BY <1>2
  <2>4. x * m < need * 100
    BY <1>2, <2>1, <2>2, <2>3, CeilLeast
  <2> QED BY <2>3, <2>4
<1> HIDE DEF u, need, m
<1>7. Claim(u, n) \in need..Available(n, held)
  BY <1>1, <1>2, <1>3, <1>4, <1>5
<1> QED BY <1>1, <1>6, <1>7 DEF need, m

(* judgeOn: on a node, with the memory its GPUs have. *)
LEMMA LongestOnNode ==
    ASSUME plan.kv \in {"skip", "judge"},
           NEW p \in Preset, plan.kv = "judge" => Readable(Checkpoint[p]), NEW w \in Nat, NEW n \in Node,
           NEW shape \in [devices : Nat \ {0}, tp : Nat \ {0}, util : Nat],
           ~JudgeKVOn(p, w, n, shape).skip,
           Args[p].len \notin Admitted(p, w, shape.tp, shape.util, MemoryOf(n), GpuFact[n].a100)
    PROVE  JudgeKVOn(p, w, n, shape).longest
             = Max(Admitted(p, w, shape.tp, shape.util, MemoryOf(n), GpuFact[n].a100) \cup {0})
<1> DEFINE mem == MemoryOf(n)
           a100 == GpuFact[n].a100
           tp == shape.tp
           u == shape.util
<1>1. mem \in Nat /\ a100 \in BOOLEAN /\ tp \in Nat \ {0} /\ u \in Nat
  BY GpuTypes DEF MemoryOf, Memory
<1>2. JudgeKVOn(p, w, n, shape) = JudgeKV(p, w, tp, u, mem, a100)
  BY DEF JudgeKVOn, Unjudged, MemoryOf, Memory
<1> HIDE DEF mem, a100, tp, u
<1>3. ~JudgeKV(p, w, tp, u, mem, a100).skip /\ Args[p].len \notin Admitted(p, w, tp, u, mem, a100)
  BY <1>2 DEF mem, a100, tp, u
<1>4. JudgeKV(p, w, tp, u, mem, a100).longest = Max(Admitted(p, w, tp, u, mem, a100) \cup {0})
  BY <1>1, <1>3, LongestIsAdmitted
<1> QED BY <1>2, <1>4 DEF mem, a100, tp, u

(* What a refusal of a node advises. *)
LEMMA NodeAdvice ==
    ASSUME NEW p \in Preset, NEW w \in Nat, NEW n \in Node, NEW held \in Nat, NEW room \in BOOLEAN,
           plan.kv \in {"skip", "judge"}, plan.kv = "judge" => Readable(Checkpoint[p]),
           answer' = JudgeThere(p, w, n, held, room)
    PROVE  AdviceIsExact'
<1> DEFINE a == answer'
           sh == ShapeOn(p, w, n, held)
           kv == JudgeKVOn(p, w, n, sh)
           mem == MemoryOf(n)
           a100 == GpuFact[n].a100
           tp == sh.tp
           u == sh.util
           admitted == Admitted(p, w, tp, u, mem, a100)
           advised == Advised(p, w, n, held)
           need == w + Overhead(p)
<1>1. /\ a.kind = "node" /\ a.preset = p /\ a.where = n /\ a.held = held /\ a.w = w /\ a.shape = sh
      /\ a.kv = IF kv.skip THEN "skip" ELSE "judge"
      /\ a.longest = kv.longest /\ a.advised = advised
  BY NodeAnswer
<1>4. GpuThere(a) = [mem |-> mem, a100 |-> a100, have |-> GpuFact[n].capability]
  BY <1>1 DEF GpuThere, MemoryOf
<1>5. ASSUME ~kv.skip, Args[p].len \notin admitted PROVE kv.longest = Max(admitted \cup {0})
  <2>1. sh \in [devices : Nat \ {0}, tp : Nat \ {0}, util : Nat]
    BY ShapeType
  <2> HIDE DEF sh
  <2> QED BY <1>5, <2>1, LongestOnNode
<1>6. ASSUME advised > 0
      PROVE  /\ Claim(advised, n) \in need..Available(n, held)
             /\ \A x \in 1..advised - 1 : x * Memory(n) < 100 * need
  BY <1>6, AdvisedIsLeast
<1> HIDE DEF a, sh, kv, mem, a100, tp, u, admitted, advised, need
<1>7. a.kv = "judge" /\ Args[p].len \notin admitted => a.longest = Max(admitted \cup {0})
  BY <1>1, <1>5
<1>8. a.shape.tp = tp /\ a.shape.util = u
  BY <1>1 DEF tp, u
<1>9. admitted = {len \in 1..Args[a.preset].len :
                    Admits(a.preset, a.w, a.shape.tp, a.shape.util, len, GpuThere(a).mem, GpuThere(a).a100)}
  BY <1>1, <1>4, <1>8 DEF admitted, Admitted
<1> QED BY <1>1, <1>6, <1>7, <1>9 DEF AdviceIsExact, a, need

(* What a refusal of a pool advises. *)
LEMMA PoolAdvice ==
    ASSUME NEW p \in Preset, NEW w \in Nat,
           plan.kv \in {"skip", "judge"}, plan.kv = "judge" => Readable(Checkpoint[p]),
           answer' = JudgePool(p, w)
    PROVE  AdviceIsExact'
<1> DEFINE a == answer'
           s == SizeOf(p, w)
           mem == SizeFact[s].gpuMem
           tp == Args[p].tp
           u == PresetFact[p].util
           no == FALSE
           kv == PoolKV(p, w, s)
           admitted == Admitted(p, w, tp, u, mem, no)
<1>1. /\ a.kind = "pool" /\ a.preset = p /\ a.size = s /\ a.w = w /\ a.shape = Reference(p)
      /\ a.kv = IF kv.skip THEN "skip" ELSE "judge"
      /\ a.longest = kv.longest /\ a.advised = 0
  <2> DEFINE b == JudgePool(p, w)
  <2>1. /\ b.kind = "pool" /\ b.preset = p /\ b.size = s /\ b.w = w /\ b.shape = Reference(p)
        /\ b.kv = IF kv.skip THEN "skip" ELSE "judge"
        /\ b.longest = kv.longest /\ b.advised = 0
    BY PoolAnswer
  <2> HIDE DEF b, kv, s
  <2> QED BY <2>1 DEF b
<1>2. mem \in Nat
  BY SizeIsThere, SizeTypes
<1>3. tp \in Nat \ {0} /\ u \in Nat
  <2>1. u \in 1..100 /\ tp \in Nat \ {0}
    BY PresetTypes, ModelTypes
  <2> HIDE DEF u
  <2> QED BY <2>1
<1>4. GpuThere(a) = [mem |-> mem, a100 |-> no, have |-> SizeCapability(s)]
  BY <1>1 DEF GpuThere
<1>5. ASSUME ~kv.skip, Args[p].len \notin admitted PROVE kv.longest = Max(admitted \cup {0})
  <2>1. kv = JudgeKV(p, w, tp, u, mem, no)
    BY DEF PoolKV
  <2>2. no \in BOOLEAN
    OBVIOUS
  <2> DEFINE j == JudgeKV(p, w, tp, u, mem, no)
  <2>3. ~j.skip /\ Args[p].len \notin Admitted(p, w, tp, u, mem, no)
    BY <1>5, <2>1
  <2> HIDE DEF kv, s, tp, u, mem, no
  <2>4. j.longest = Max(Admitted(p, w, tp, u, mem, no) \cup {0})
    BY <1>2, <1>3, <2>2, <2>3, LongestIsAdmitted
  <2> QED BY <2>1, <2>4
<1>6. a.shape.tp = tp /\ a.shape.util = u
  BY <1>1 DEF Reference
<1> HIDE DEF a, s, kv, mem, no, tp, u, admitted
<1>7. a.kv = "judge" /\ Args[p].len \notin admitted => a.longest = Max(admitted \cup {0})
  BY <1>1, <1>5
<1>8. admitted = {len \in 1..Args[a.preset].len :
                    Admits(a.preset, a.w, a.shape.tp, a.shape.util, len, GpuThere(a).mem, GpuThere(a).a100)}
  BY <1>1, <1>4, <1>6 DEF admitted, Admitted
<1> QED BY <1>1, <1>7, <1>8 DEF AdviceIsExact, a

(* Only a judging step advises. *)
LEMMA AdviceSteps ==
    ASSUME SizingInv, AdviceIsExact, [SizingNext]_sizeVars
    PROVE  AdviceIsExact'
<1>1. CASE JudgeFit
  BY <1>1, Judged, NodeAdvice, PoolAdvice
<1>2. CASE UNCHANGED answer
  BY <1>2 DEF AdviceIsExact, GpuThere
<1>3. Ask \/ SizeHub \/ SizeImage \/ CheckKV \/ CheckCompute \/ UNCHANGED sizeVars => UNCHANGED answer
  BY DEF Ask, SizeHub, SizeImage, CheckKV, CheckCompute, Only, sizeVars
<1> QED BY <1>1, <1>2, <1>3 DEF SizingNext

(* What a refusal advises is exact: the binary search of the code ends on the
   longest sequence the GPU holds, and the sized utilization is the smallest
   that claims the need (kvcache.go, unifiedClaimOn). *)
THEOREM AdviceHolds == SizingSpec => []AdviceIsExact
<1>1. SizingInit => AdviceIsExact
  BY DEF SizingInit, NoAnswer, AdviceIsExact
<1> QED BY <1>1, SizingInvHolds, AdviceSteps, PTL DEF SizingSpec
=============================================================================
