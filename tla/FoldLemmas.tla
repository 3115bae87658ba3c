----------------------------- MODULE FoldLemmas -----------------------------
(***************************************************************************)
(* What a fold over a finite set gives, for the proofs about models that   *)
(* go through a set one element after the other.                           *)
(***************************************************************************)
EXTENDS Integers, FiniteSets, Functions, FiniteSetTheorems, TLAPS

(* Numbers from 0 on: the least one outside has one before it.             *)
LEMMA UpwardClosed ==
  ASSUME NEW G \in SUBSET Nat, 0 \in G, \A n \in G : n + 1 \in G
  PROVE G = Nat
<1> DEFINE Upto == {0..n : n \in Nat \ G}
<1>1. SUFFICES ASSUME Nat \ G # {} PROVE FALSE
  OBVIOUS
<1>2. Upto # {} /\ Upto \subseteq FiniteSubsetsOf(Nat)
  <2>1. \A n \in Nat : IsFiniteSet(0..n) /\ 0..n \in SUBSET Nat
    BY FS_Interval
  <2> QED BY <1>1, <2>1 DEF FiniteSubsetsOf
<1>3. PICK B \in Upto : \A C \in Upto : ~(<<C, B>> \in StrictSubsetOrdering(Nat))
  BY <1>2, WFMin, FS_StrictSubsetOrderingWellFounded
<1>4. PICK n \in Nat \ G : B = 0..n
  OBVIOUS
<1>5. n - 1 \in Nat \ G
  <2>1. n # 0 /\ n - 1 \in Nat
    OBVIOUS
  <2>2. n - 1 \in G => n \in G
    BY <2>1
  <2> QED BY <2>1, <2>2
<1>6. 0..(n - 1) \subseteq 0..n /\ 0..(n - 1) # 0..n
  <2>1. n \in 0..n /\ n \notin 0..(n - 1)
    BY <1>5
  <2> QED BY <2>1
<1>7. <<0..(n - 1), B>> \in StrictSubsetOrdering(Nat)
  <2>1. 0..(n - 1) \in SUBSET Nat /\ 0..n \in SUBSET Nat
    OBVIOUS
  <2> QED BY <2>1, <1>4, <1>6 DEF StrictSubsetOrdering
<1> QED BY <1>3, <1>5, <1>7

OneOf(s) == CHOOSE x \in s : TRUE
Rest(s) == s \ {OneOf(s)}

LEMMA RestIsSmaller ==
  ASSUME NEW S, IsFiniteSet(S), NEW s \in SUBSET S, s # {}
  PROVE /\ OneOf(s) \in s /\ Rest(s) \in SUBSET S
        /\ IsFiniteSet(s) /\ Cardinality(s) \in Nat /\ Cardinality(s) # 0
        /\ Cardinality(Rest(s)) = Cardinality(s) - 1
<1>1. OneOf(s) \in s
  BY DEF OneOf
<1>2. IsFiniteSet(s)
  BY FS_Subset
<1>3. Cardinality(s) \in Nat /\ Cardinality(s) # 0
  BY <1>2, FS_CardinalityType, FS_EmptySet
<1>4. Cardinality(Rest(s)) = Cardinality(s) - 1
  BY <1>1, <1>2, FS_RemoveElement DEF Rest
<1> QED BY <1>1, <1>2, <1>3, <1>4 DEF Rest

(* What holds for the empty set, and for a set whenever it holds for the   *)
(* set without its chosen element, holds for every subset.                 *)
LEMMA AllSubsets ==
  ASSUME NEW S, IsFiniteSet(S), NEW G \in SUBSET SUBSET S, {} \in G,
         \A s \in SUBSET S : (s # {} /\ Rest(s) \in G) => s \in G
  PROVE G = SUBSET S
<1> DEFINE Bad == (SUBSET S) \ G
<1>1. SUFFICES ASSUME Bad # {} PROVE FALSE
  OBVIOUS
<1>2. Bad \subseteq FiniteSubsetsOf(S)
  BY FS_Subset DEF FiniteSubsetsOf
<1>3. PICK s \in Bad : \A t \in Bad : ~(<<t, s>> \in StrictSubsetOrdering(S))
  BY ZenonT(40), <1>1, <1>2, WFMin, FS_StrictSubsetOrderingWellFounded
<1>4. s # {} /\ OneOf(s) \in s /\ Rest(s) \in SUBSET S
  BY <1>3, RestIsSmaller
<1>5. Rest(s) \in Bad
  BY <1>3, <1>4
<1>6. <<Rest(s), s>> \in StrictSubsetOrdering(S)
  BY <1>3, <1>4 DEF StrictSubsetOrdering, Rest
<1> QED BY <1>3, <1>5, <1>6

(* A step that never leaves a set can be taken once per element.           *)
Foldable(S, U, base, F) == IsFiniteSet(S) /\ base \in U /\ F \in [S \X U -> U]
FoldOf(S, U, base, F, g) ==
    g \in [SUBSET S -> U] /\ \A s \in SUBSET S : g[s] = IF s = {} THEN base ELSE F[<<OneOf(s), g[Rest(s)]>>]

LEMMA FoldExists ==
  ASSUME NEW S, NEW U, NEW base, NEW F, Foldable(S, U, base, F)
  PROVE \E g : FoldOf(S, U, base, F, g)
<1> USE DEF Foldable
<1> DEFINE Level(n) == {s \in SUBSET S : Cardinality(s) <= n}
           Rec(g, n) == \A s \in Level(n) : g[s] = IF s = {} THEN base ELSE F[<<OneOf(s), g[Rest(s)]>>]
           Good == {n \in Nat : \E g \in [Level(n) -> U] : Rec(g, n)}
<1>1. 0 \in Good
  <2> DEFINE g == [s \in Level(0) |-> base]
  <2>1. \A s \in Level(0) : s = {}
    BY RestIsSmaller
  <2>2. g \in [Level(0) -> U] /\ Rec(g, 0)
    BY <2>1
  <2> QED BY <2>2
<1>2. ASSUME NEW n \in Good PROVE n + 1 \in Good
  <2>1. PICK g \in [Level(n) -> U] : Rec(g, n)
    OBVIOUS
  <2> DEFINE h == [s \in Level(n + 1) |-> IF s \in Level(n) THEN g[s] ELSE F[<<OneOf(s), g[Rest(s)]>>]]
  <2>2. \A s \in Level(n + 1) : s # {} => Rest(s) \in Level(n) /\ OneOf(s) \in S
    <3> SUFFICES ASSUME NEW s \in Level(n + 1), s # {} PROVE Rest(s) \in Level(n) /\ OneOf(s) \in S
      OBVIOUS
    <3>1. OneOf(s) \in s /\ Rest(s) \in SUBSET S /\ Cardinality(s) \in Nat /\ Cardinality(Rest(s)) = Cardinality(s) - 1
      BY RestIsSmaller
    <3> QED BY <3>1
  <2>3. \A s \in Level(n) : s \in Level(n + 1)
    <3>1. \A s \in SUBSET S : Cardinality(s) \in Nat
      BY FS_Subset, FS_CardinalityType
    <3> QED BY <3>1
  <2>4. {} \in Level(n)
    BY FS_EmptySet
  <2>5. ASSUME NEW s \in Level(n + 1), s \notin Level(n)
        PROVE s # {} /\ h[s] = F[<<OneOf(s), g[Rest(s)]>>] /\ h[s] \in U
    <3>1. s # {} /\ Rest(s) \in Level(n) /\ OneOf(s) \in S
      BY <2>2, <2>4, <2>5
    <3>2. <<OneOf(s), g[Rest(s)]>> \in S \X U
      BY <3>1
    <3> QED BY <2>5, <3>1, <3>2
  <2>7. \A s \in Level(n) : h[s] = g[s] /\ h[s] \in U
    BY <2>3
  <2> HIDE DEF h
  <2>8. h \in [Level(n + 1) -> U]
    <3>1. DOMAIN h = Level(n + 1) /\ h = [s \in Level(n + 1) |-> h[s]]
      BY DEF h
    <3>2. \A s \in Level(n + 1) : h[s] \in U
      BY <2>5, <2>7
    <3> QED BY <3>1, <3>2
  <2>6. ASSUME NEW s \in Level(n + 1) PROVE h[s] = IF s = {} THEN base ELSE F[<<OneOf(s), h[Rest(s)]>>]
    <3>1. CASE s \in Level(n)
      <4>1. h[s] = IF s = {} THEN base ELSE F[<<OneOf(s), g[Rest(s)]>>]
        BY <2>1, <2>7, <3>1
      <4>2. s # {} => h[Rest(s)] = g[Rest(s)]
        BY <2>2, <2>7
      <4> QED BY <4>1, <4>2
    <3>2. CASE s \notin Level(n)
      <4>1. s # {} /\ h[s] = F[<<OneOf(s), g[Rest(s)]>>]
        BY <2>5, <3>2
      <4>2. h[Rest(s)] = g[Rest(s)]
        BY <2>2, <2>7, <4>1
      <4> QED BY <4>1, <4>2
    <3> QED BY <3>1, <3>2
  <2>9. Rec(h, n + 1)
    BY <2>6
  <2>10. n + 1 \in Nat
    OBVIOUS
  <2> HIDE DEF Level, Rec
  <2> QED BY <2>8, <2>9, <2>10
<1>3. Cardinality(S) \in Nat /\ \A s \in SUBSET S : Cardinality(s) \in Nat /\ Cardinality(s) <= Cardinality(S)
  BY FS_CardinalityType, FS_Subset
<1> HIDE DEF Good
<1>4. Good \in SUBSET Nat
  BY DEF Good
<1>5. Cardinality(S) \in Good
  BY <1>1, <1>2, <1>3, <1>4, UpwardClosed
<1>6. PICK g \in [Level(Cardinality(S)) -> U] : Rec(g, Cardinality(S))
  BY <1>5 DEF Good
<1>7. Level(Cardinality(S)) = SUBSET S
  BY <1>3
<1> QED BY <1>6, <1>7 DEF FoldOf

LEMMA ImageIsFinite ==
  ASSUME NEW S, IsFiniteSet(S), NEW f
  PROVE IsFiniteSet({f[x] : x \in S})
<1> DEFINE T == {f[x] : x \in S}
           g == [x \in S |-> f[x]]
<1>1. g \in Surjection(S, T)
  BY DEF Surjection
<1> QED BY <1>1, FS_Surjection

(* A fold meets the invariant I of sets done and results so far, when the  *)
(* empty set and base do and every step keeps it.                          *)
Keeps(S, U, base, F, I) ==
    /\ Foldable(S, U, base, F) /\ I \in SUBSET ((SUBSET S) \X U) /\ <<{}, base>> \in I
    /\ \A s \in SUBSET S, r \in U : s # {} /\ <<Rest(s), r>> \in I => <<s, F[<<OneOf(s), r>>]>> \in I

(* h need only do as F says where the invariant holds.                     *)
Does(S, base, F, I, h) ==
    \A s \in SUBSET S :
       /\ s = {} => h[s] = base
       /\ s # {} /\ <<Rest(s), h[Rest(s)]>> \in I => h[s] = F[<<OneOf(s), h[Rest(s)]>>]

LEMMA FoldMeets ==
  ASSUME NEW S, NEW U, NEW base, NEW F, NEW I, Keeps(S, U, base, F, I), NEW h, Does(S, base, F, I, h)
  PROVE \A s \in SUBSET S : <<s, h[s]>> \in I
<1> DEFINE Met == {s \in SUBSET S : <<s, h[s]>> \in I}
<1>1. Met \in SUBSET SUBSET S /\ {} \in Met
  BY DEF Keeps, Does
<1>2. ASSUME NEW s \in SUBSET S, s # {}, Rest(s) \in Met PROVE s \in Met
  <2>1. h[Rest(s)] \in U /\ <<Rest(s), h[Rest(s)]>> \in I
    BY <1>2 DEF Keeps
  <2>2. h[s] = F[<<OneOf(s), h[Rest(s)]>>]
    BY <1>2, <2>1 DEF Does
  <2> QED BY <1>2, <2>1, <2>2 DEF Keeps
<1>3. Met = SUBSET S
  <2> HIDE DEF Met
  <2> QED BY <1>1, <1>2, AllSubsets DEF Keeps, Foldable
<1> QED BY <1>3

LEMMA FoldExistsAndMeets ==
  ASSUME NEW S, NEW U, NEW base, NEW F, NEW I, Keeps(S, U, base, F, I)
  PROVE \E g : FoldOf(S, U, base, F, g) /\ \A s \in SUBSET S : <<s, g[s]>> \in I
<1>1. PICK g : FoldOf(S, U, base, F, g)
  BY FoldExists DEF Keeps
<1>2. Does(S, base, F, I, g)
  BY <1>1 DEF FoldOf, Does
<1> QED BY <1>1, <1>2, FoldMeets

-----------------------------------------------------------------------------
(* Sums.  T gives the sum of f over each part of S.                        *)
IsSum(S, f, T) ==
    /\ T \in [SUBSET S -> Nat] /\ T[{}] = 0
    /\ \A s \in SUBSET S : s # {} => T[s] = f[OneOf(s)] + T[Rest(s)]

LEMMA SumExists ==
  ASSUME NEW S, IsFiniteSet(S), NEW f \in [S -> Nat]
  PROVE \E T : IsSum(S, f, T) /\ SumFunction(f) = T[S]
<1> DEFINE F == [x \in S \X Nat |-> f[x[1]] + x[2]]
           Turn(s, h) == f[OneOf(s)] + h[Rest(s)]
           Rec(h) == h = [s \in SUBSET S |-> IF s = {} THEN 0 ELSE Turn(s, h)]
           T == CHOOSE h : Rec(h)
<1>1. PICK g : FoldOf(S, Nat, 0, F, g)
  <2>1. Foldable(S, Nat, 0, F)
    <3>1. \A x \in S \X Nat : f[x[1]] + x[2] \in Nat
      OBVIOUS
    <3> QED BY <3>1 DEF Foldable
  <2> HIDE DEF F
  <2> QED BY <2>1, FoldExists
<1>2. \A s \in SUBSET S : s # {} => OneOf(s) \in S /\ Rest(s) \in SUBSET S
  BY RestIsSmaller
<1>3. Rec(g)
  <2>1. \A s \in SUBSET S : s # {} => F[<<OneOf(s), g[Rest(s)]>>] = Turn(s, g)
    BY <1>1, <1>2 DEF FoldOf
  <2> HIDE DEF F, Turn
  <2>2. \A s \in SUBSET S : g[s] = IF s = {} THEN 0 ELSE Turn(s, g)
    BY <1>1, <2>1 DEF FoldOf
  <2> QED BY <1>1, <2>2 DEF FoldOf
<1>4. Rec(T)
  BY <1>3
<1>5. T[{}] = 0 /\ \A s \in SUBSET S : s # {} => T[s] = f[OneOf(s)] + T[Rest(s)]
  <2> HIDE DEF T
  <2>1. \A s \in SUBSET S : T[s] = IF s = {} THEN 0 ELSE Turn(s, T)
    BY <1>4
  <2> QED BY <2>1
<1>6. \A s \in SUBSET S : T[s] \in Nat
  <2> DEFINE G == {s \in SUBSET S : T[s] \in Nat}
  <2> HIDE DEF T
  <2>1. G \in SUBSET SUBSET S /\ {} \in G
    BY <1>5
  <2>2. ASSUME NEW s \in SUBSET S, s # {}, Rest(s) \in G PROVE s \in G
    BY <1>2, <1>5, <2>2
  <2> HIDE DEF G
  <2>3. G = SUBSET S
    BY <2>1, <2>2, AllSubsets
  <2> QED BY <2>3 DEF G
<1>7. IsSum(S, f, T)
  <2> HIDE DEF T, Turn
  <2>1. T = [s \in SUBSET S |-> IF s = {} THEN 0 ELSE Turn(s, T)]
    BY <1>4
  <2>2. T \in [SUBSET S -> Nat]
    BY <1>6, <2>1
  <2> QED BY <1>5, <2>2 DEF IsSum
<1>8. SumFunction(f) = T[S]
  <2>1. DOMAIN f = S
    OBVIOUS
  <2> QED BY <2>1 DEF SumFunction, SumFunctionOnSet, FoldFunctionOnSet, MapThenFoldSet, OneOf, Rest
<1> QED BY <1>7, <1>8

(* What is at most v times another, term by term, is so in sum.            *)
LEMMA SumsCompare ==
  ASSUME NEW S, IsFiniteSet(S), NEW f \in [S -> Nat], NEW h \in [S -> Nat],
         NEW v \in Nat, NEW u \in Nat, \A x \in S : u * f[x] <= v * h[x],
         NEW T, IsSum(S, f, T), NEW R, IsSum(S, h, R)
  PROVE \A s \in SUBSET S : u * T[s] <= v * R[s]
<1> DEFINE G == {s \in SUBSET S : u * T[s] <= v * R[s]}
<1>1. G \in SUBSET SUBSET S /\ {} \in G
  BY DEF IsSum
<1>2. ASSUME NEW s \in SUBSET S, s # {}, Rest(s) \in G PROVE s \in G
  <2>1. OneOf(s) \in S /\ Rest(s) \in SUBSET S
    BY <1>2, RestIsSmaller
  <2>2. PICK x \in Nat : x = f[OneOf(s)]
    BY <2>1
  <2>3. PICK y \in Nat : y = h[OneOf(s)]
    BY <2>1
  <2>4. PICK t \in Nat : t = T[Rest(s)]
    BY <2>1 DEF IsSum
  <2>5. PICK r \in Nat : r = R[Rest(s)]
    BY <2>1 DEF IsSum
  <2>6. u * x <= v * y /\ u * t <= v * r
    BY <1>2, <2>1, <2>2, <2>3, <2>4, <2>5
  <2>7. T[s] = x + t /\ R[s] = y + r
    BY <1>2, <2>2, <2>3, <2>4, <2>5 DEF IsSum
  <2>8. u * (x + t) = u * x + u * t /\ v * (y + r) = v * y + v * r
    OBVIOUS
  <2>9. u * (x + t) <= v * (y + r)
    <3>1. u * x \in Int /\ u * t \in Int /\ v * y \in Int /\ v * r \in Int
      OBVIOUS
    <3> QED BY <2>6, <2>8, <3>1
  <2> QED BY <2>7, <2>9
<1> HIDE DEF G
<1>3. G = SUBSET S
  BY <1>1, <1>2, AllSubsets
<1> QED BY <1>3 DEF G

(* A sum of ones counts.                                                   *)
LEMMA CardinalityIsSum ==
  ASSUME NEW S, IsFiniteSet(S)
  PROVE IsSum(S, [x \in S |-> 1], [s \in SUBSET S |-> Cardinality(s)])
<1>1. \A s \in SUBSET S : Cardinality(s) \in Nat
  BY FS_Subset, FS_CardinalityType
<1>2. \A s \in SUBSET S : s # {} => OneOf(s) \in S /\ Rest(s) \in SUBSET S /\ Cardinality(Rest(s)) = Cardinality(s) - 1
  BY RestIsSmaller
<1>3. Cardinality({}) = 0
  BY FS_EmptySet
<1> QED BY <1>1, <1>2, <1>3 DEF IsSum

(* A sum is at least each of its terms.                                    *)
LEMMA TermsInSum ==
  ASSUME NEW S, IsFiniteSet(S), NEW f \in [S -> Nat], NEW T, IsSum(S, f, T), NEW x \in S
  PROVE f[x] <= T[S]
<1> DEFINE G == {s \in SUBSET S : x \in s => f[x] <= T[s]}
<1>1. G \in SUBSET SUBSET S /\ {} \in G
  OBVIOUS
<1>2. ASSUME NEW s \in SUBSET S, s # {}, Rest(s) \in G PROVE s \in G
  <2>1. OneOf(s) \in S /\ Rest(s) \in SUBSET S /\ T[Rest(s)] \in Nat /\ T[s] = f[OneOf(s)] + T[Rest(s)]
    BY <1>2, RestIsSmaller DEF IsSum
  <2>2. x \in s => x = OneOf(s) \/ x \in Rest(s)
    BY DEF Rest
  <2>3. f[x] \in Nat /\ f[OneOf(s)] \in Nat
    BY <2>1
  <2> QED BY <1>2, <2>1, <2>2, <2>3
<1> HIDE DEF G
<1>3. G = SUBSET S
  BY <1>1, <1>2, AllSubsets
<1> QED BY <1>3 DEF G
=============================================================================
