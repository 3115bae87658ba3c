---------------------------- MODULE NamesProofs ----------------------------
(***************************************************************************)
(* What a name may and may not come to mean, for any registry, any files   *)
(* and any names: the look-up of an entry and its file, the load of a      *)
(* model by LM Studio, which is proven before it counts and not refused    *)
(* when it is right, and the rows of the overview.                         *)
(***************************************************************************)
EXTENDS ModelLookup, LmStudio, Consolidation, FoldLemmas, FiniteSetTheorems, SequenceTheorems, TLAPS

-----------------------------------------------------------------------------
(* A set of numbers has a least one: were it not so, the sets 0..k below   *)
(* its members would have no smallest one.                                 *)
LEMMA LeastNumber ==
  ASSUME NEW T \in SUBSET Nat, T # {}
  PROVE Min(T) \in T /\ \A y \in T : Min(T) <= y
<1> DEFINE Below == {0..k : k \in T}
<1>1. Below # {} /\ Below \subseteq FiniteSubsetsOf(Nat)
  <2>1. \A k \in T : IsFiniteSet(0..k) /\ 0..k \in SUBSET Nat
    BY FS_Interval
  <2> QED BY <2>1 DEF FiniteSubsetsOf
<1>2. PICK B \in Below : \A C \in Below : ~(<<C, B>> \in StrictSubsetOrdering(Nat))
  BY <1>1, WFMin, FS_StrictSubsetOrderingWellFounded
<1>3. PICK m \in T : B = 0..m
  OBVIOUS
<1>4. ASSUME NEW y \in T, y < m PROVE FALSE
  <2>1. 0..y \in Below
    OBVIOUS
  <2>2. 0..y \subseteq 0..m /\ 0..y # 0..m
    BY <1>4
  <2>3. 0..y \in SUBSET Nat /\ 0..m \in SUBSET Nat
    OBVIOUS
  <2>4. <<0..y, B>> \in StrictSubsetOrdering(Nat)
    BY <2>2, <2>3, <1>3 DEF StrictSubsetOrdering
  <2> QED BY <2>1, <2>4, <1>2
<1>5. \A y \in T : m <= y
  BY <1>4
<1> QED BY <1>5 DEF Min

LEMMA OneMember ==
  ASSUME NEW S, IsFiniteSet(S), Cardinality(S) = 1, NEW x \in S
  PROVE S = {x}
  BY FS_Singleton

-----------------------------------------------------------------------------
(* Names.  What comes before the first "@" is the base of a name.          *)

IsName(s) == s \in Seq({s[i] : i \in DOMAIN s})
AtIsAt(s, i) == i \in 1..Len(s) /\ s[i] = "@" /\ \A j \in 1..(i - 1) : s[j] # "@"

LEMMA BaseOfName ==
  ASSUME NEW s, IsName(s)
  PROVE /\ \A i : AtIsAt(s, i) => Base(s) = SubSeq(s, 1, i - 1)
        /\ (\A i : ~AtIsAt(s, i)) => QuantOf(s) = Absent
<1>1. Len(s) \in Nat /\ DOMAIN s = 1..Len(s)
  BY DEF IsName
<1>2. ASSUME NEW i, AtIsAt(s, i) PROVE Base(s) = SubSeq(s, 1, i - 1)
  <2>1. i \in DOMAIN s /\ i \in Nat /\ s[i] = "@" /\ \A j \in 1..(i - 1) : s[j] # "@"
    BY <1>1, <1>2 DEF AtIsAt
  <2>2. \A m \in DOMAIN s : (s[m] = "@" /\ \A j \in 1..(m - 1) : s[j] # "@") => m = i
    BY <1>1, <2>1
  <2>3. At(s, "@") = i
    BY <2>1, <2>2 DEF At
  <2> QED BY <2>1, <2>3, <1>1 DEF Base, Before
<1>3. ASSUME \A i : ~AtIsAt(s, i) PROVE QuantOf(s) = Absent
  <2>1. ~Contains(s, "@")
    <3>1. ASSUME Contains(s, "@") PROVE FALSE
      <4> DEFINE I == {i \in 1..Len(s) : s[i] = "@"}
      <4>1. I # {} /\ I \in SUBSET Nat
        BY <1>1, <3>1 DEF Contains
      <4>2. Min(I) \in I /\ \A j \in I : Min(I) <= j
        BY <4>1, LeastNumber
      <4>3. PICK m \in Nat : m = Min(I)
        BY <4>1, <4>2
      <4>4. m \in 1..Len(s) /\ s[m] = "@" /\ \A j \in 1..Len(s) : s[j] = "@" => m <= j
        BY <4>2, <4>3
      <4>5. \A j \in 1..(m - 1) : j \in 1..Len(s) /\ j < m
        BY <1>1, <4>4
      <4>6. AtIsAt(s, m)
        BY <4>4, <4>5 DEF AtIsAt
      <4> QED BY <1>3, <4>6
    <3> QED BY <3>1
  <2>2. At(s, "@") = 0
    BY <1>1, <2>1 DEF At, Contains
  <2> QED BY <2>2 DEF QuantOf
<1> QED BY <1>2, <1>3

LEMMA PartOfName ==
  ASSUME NEW s, IsName(s), NEW i \in 1..Len(s)
  PROVE /\ SubSeq(s, 1, i - 1) \in Seq({s[j] : j \in DOMAIN s}) /\ Len(SubSeq(s, 1, i - 1)) = i - 1
        /\ \A j \in 1..(i - 1) : SubSeq(s, 1, i - 1)[j] = s[j]
        /\ i - 1 \in 0..Len(s) /\ Len(s) \in Nat
<1>1. Len(s) \in Nat /\ s \in Seq({s[j] : j \in DOMAIN s})
  BY DEF IsName
<1>2. i - 1 \in 0..Len(s)
  BY <1>1
<1> QED BY <1>1, <1>2, SubSeqProperties

LEMMA SameBeginning ==
  ASSUME NEW s, IsName(s), NEW t, IsName(t), NEW i \in 1..Len(s), i \in 1..Len(t),
         \A j \in 1..(i - 1) : s[j] = t[j]
  PROVE SubSeq(s, 1, i - 1) = SubSeq(t, 1, i - 1)
<1> DEFINE a == SubSeq(s, 1, i - 1)
           b == SubSeq(t, 1, i - 1)
           S == {s[j] : j \in DOMAIN s} \cup {t[j] : j \in DOMAIN t}
<1>1. Len(a) = i - 1 /\ Len(b) = i - 1 /\ (\A j \in 1..(i - 1) : a[j] = s[j] /\ b[j] = t[j])
  BY PartOfName
<1>2. a \in Seq(S) /\ b \in Seq(S)
  <2> HIDE DEF a, b
  <2>1. a \in Seq({s[j] : j \in DOMAIN s}) /\ b \in Seq({t[j] : j \in DOMAIN t})
    BY PartOfName DEF a, b
  <2> QED BY <2>1, SeqMonotonic
<1> HIDE DEF a, b, S
<1>3. a = b
  BY <1>1, <1>2, SeqEqual
<1> QED BY <1>3 DEF a, b

LEMMA SeqIsName ==
  ASSUME NEW S, NEW s \in Seq(S)
  PROVE IsName(s) /\ Len(s) \in Nat /\ DOMAIN s = 1..Len(s)
<1>1. DOMAIN s = 1..Len(s) /\ Len(s) \in Nat
  BY LenProperties
<1>2. s \in [1..Len(s) -> {s[i] : i \in DOMAIN s}]
  BY <1>1, SeqDef
<1> QED BY <1>1, <1>2, SeqDef DEF IsName

(* Either there is a first "@", or there is none.                          *)
LEMMA FirstAt ==
  ASSUME NEW S, NEW s \in Seq(S)
  PROVE \/ \E i : AtIsAt(s, i) /\ At(s, "@") = i /\ Base(s) = SubSeq(s, 1, i - 1)
        \/ (\A i \in 1..Len(s) : s[i] # "@") /\ At(s, "@") = 0 /\ Base(s) = s
<1>1. IsName(s) /\ Len(s) \in Nat /\ DOMAIN s = 1..Len(s)
  BY SeqIsName
<1>2. CASE \E i \in 1..Len(s) : s[i] = "@"
  <2> DEFINE I == {i \in 1..Len(s) : s[i] = "@"}
  <2>1. I # {} /\ I \in SUBSET Nat
    BY <1>1, <1>2
  <2>2. PICK m \in Nat : m = Min(I) /\ m \in I /\ \A y \in I : m <= y
    BY <2>1, LeastNumber
  <2>3. \A j \in 1..(m - 1) : j \in 1..Len(s) /\ j < m
    BY <1>1, <2>2
  <2>8. m \in 1..Len(s) /\ s[m] = "@" /\ \A j \in 1..Len(s) : s[j] = "@" => m <= j
    BY <2>2
  <2>4. AtIsAt(s, m)
    BY <2>3, <2>8 DEF AtIsAt
  <2>5. \A k \in DOMAIN s : (s[k] = "@" /\ \A j \in 1..(k - 1) : s[j] # "@") => k = m
    BY <1>1, <2>4 DEF AtIsAt
  <2>6. At(s, "@") = m
    BY <1>1, <2>4, <2>5 DEF At, AtIsAt
  <2>7. Base(s) = SubSeq(s, 1, m - 1)
    BY <1>1, <2>4, BaseOfName
  <2> QED BY <2>4, <2>6, <2>7
<1>3. CASE \A i \in 1..Len(s) : s[i] # "@"
  <2>1. At(s, "@") = 0
    BY <1>1, <1>3 DEF At
  <2> QED BY <1>3, <2>1 DEF Base, Before
<1> QED BY <1>2, <1>3

LEMMA BaseIsBase ==
  ASSUME NEW S, NEW s \in Seq(S)
  PROVE Base(s) \in Seq(S) /\ Base(Base(s)) = Base(s) /\ QuantOf(Base(s)) = Absent
<1>1. ASSUME NEW i, AtIsAt(s, i), Base(s) = SubSeq(s, 1, i - 1)
      PROVE Base(s) \in Seq(S) /\ Base(Base(s)) = Base(s) /\ QuantOf(Base(s)) = Absent
  <2>1. i \in 1..Len(s) /\ Len(s) \in Nat /\ i - 1 \in 0..Len(s)
    BY <1>1, LenProperties DEF AtIsAt
  <2>2. Base(s) \in Seq(S) /\ Len(Base(s)) = i - 1 /\ \A j \in 1..(i - 1) : Base(s)[j] = s[j]
    BY <1>1, <2>1, SubSeqProperties
  <2>3. \A j \in 1..Len(Base(s)) : Base(s)[j] # "@"
    BY <1>1, <2>2 DEF AtIsAt
  <2>4. At(Base(s), "@") = 0 /\ Base(Base(s)) = Base(s)
    BY <2>2, <2>3, FirstAt DEF AtIsAt
  <2> QED BY <2>2, <2>4 DEF QuantOf
<1>2. ASSUME At(s, "@") = 0, Base(s) = s
      PROVE Base(s) \in Seq(S) /\ Base(Base(s)) = Base(s) /\ QuantOf(Base(s)) = Absent
  BY <1>2 DEF QuantOf
<1> QED BY <1>1, <1>2, FirstAt

LEMMA QuantIsNoBase ==
  ASSUME NEW S, NEW s \in Seq(S), NEW q
  PROVE IsName(WithQuant(s, q)) /\ Base(WithQuant(s, q)) = Base(s)
<1>1. CASE q = Absent
  BY <1>1, SeqIsName DEF WithQuant
<1>2. CASE q # Absent
  <2>1. PICK at : at = "@"
    OBVIOUS
  <2>2. PICK T : T = S \cup {at, q}
    OBVIOUS
  <2>3. s \in Seq(T) /\ at \in T /\ q \in T
    BY <2>2, SeqMonotonic
  <2>4. PICK tail : tail = <<at, q>>
    OBVIOUS
  <2>5. tail \in Seq(T) /\ Len(tail) = 2 /\ tail[1] = at
    BY <2>3, <2>4
  <2>6. PICK t : t = s \o tail
    OBVIOUS
  <2>12. Len(s) \in Nat /\ t \in Seq(T)
    BY <2>3, <2>5, <2>6, ConcatProperties, LenProperties
  <2>13. Len(t) = Len(s) + Len(tail)
         /\ \A i \in 1..Len(s) + Len(tail) : t[i] = IF i <= Len(s) THEN s[i] ELSE tail[i - Len(s)]
    BY <2>3, <2>5, <2>6, ConcatProperties
  <2>7. Len(t) = Len(s) + 2
        /\ \A i \in 1..Len(s) + 2 : t[i] = IF i <= Len(s) THEN s[i] ELSE tail[i - Len(s)]
    BY <2>5, <2>13
  <2>8. WithQuant(s, q) = t
    BY <1>2, <2>1, <2>4, <2>6 DEF WithQuant
  <2>9. IsName(t) /\ IsName(s)
    BY <2>7, <2>12, SeqIsName
  <2>10. ASSUME NEW i, AtIsAt(s, i), Base(s) = SubSeq(s, 1, i - 1)
         PROVE Base(t) = Base(s)
    <3>1. i \in 1..Len(s) /\ i \in 1..Len(t) /\ \A j \in 1..i : t[j] = s[j]
      BY <2>7, <2>12, <2>10 DEF AtIsAt
    <3>2. AtIsAt(t, i)
      BY <2>10, <3>1 DEF AtIsAt
    <3>3. Base(t) = SubSeq(t, 1, i - 1)
      BY <2>9, <3>2, BaseOfName
    <3>4. \A j \in 1..(i - 1) : t[j] = s[j]
      BY <3>1
    <3>5. SubSeq(t, 1, i - 1) = SubSeq(s, 1, i - 1)
      BY <2>9, <3>1, <3>4, SameBeginning
    <3> QED BY <2>10, <3>3, <3>5
  <2>11. ASSUME \A i \in 1..Len(s) : s[i] # "@", Base(s) = s
         PROVE Base(t) = Base(s)
    <3>1. AtIsAt(t, Len(s) + 1)
      BY <2>1, <2>5, <2>7, <2>12, <2>11 DEF AtIsAt
    <3>2. Base(t) = SubSeq(t, 1, Len(s))
      BY <2>7, <2>12, <2>9, <3>1, BaseOfName
    <3>3. SubSeq(t, 1, Len(s)) \in Seq(T) /\ Len(SubSeq(t, 1, Len(s))) = Len(s)
          /\ \A j \in 1..Len(s) : SubSeq(t, 1, Len(s))[j] = t[j]
      BY <2>7, <2>12, SubSeqProperties
    <3>4. SubSeq(t, 1, Len(s)) = s
      BY <2>3, <2>7, <2>12, <3>3, SeqEqual
    <3> QED BY <2>11, <3>2, <3>4
  <2> QED BY <2>8, <2>9, <2>10, <2>11, FirstAt
<1> QED BY <1>1, <1>2

-----------------------------------------------------------------------------
(* resolve_registry_match.                                                 *)

LEMMA StagesOfKeys ==
  ASSUME NEW name, NEW keys, NEW n \in 1..8
  PROVE Stages(name, keys)[n] \subseteq keys
<1>1. CASE n = 1
  BY <1>1 DEF Stages
<1>2. CASE n = 2
  BY <1>2 DEF Stages
<1>3. CASE n = 3
  BY <1>3 DEF Stages
<1>4. CASE n = 4
  BY <1>4 DEF Stages
<1>5. CASE n = 5
  BY <1>5 DEF Stages
<1>6. CASE n = 6
  BY <1>6 DEF Stages
<1>7. CASE n = 7
  BY <1>7 DEF Stages
<1>8. CASE n = 8
  BY <1>8 DEF Stages
<1> QED BY <1>1, <1>2, <1>3, <1>4, <1>5, <1>6, <1>7, <1>8

LEMMA LastStageType == ASSUME NEW name PROVE LastStage(name) \in 1..8
  BY DEF LastStage

(* The first stage with a candidate decides.                               *)
LEMMA FirstStageDecides ==
  ASSUME NEW stages, NEW last \in 1..8
  PROVE \/ (\A n \in 1..last : stages[n] = {}) /\ Decide(stages, last) = Unmatched
        \/ \E n \in 1..last :
              /\ stages[n] # {} /\ \A k \in 1..last : k < n => stages[k] = {}
              /\ Decide(stages, last) =
                    [kind |-> IF Cardinality(stages[n]) = 1 THEN "unique" ELSE "ambiguous", keys |-> stages[n]]
<1> DEFINE hits == {n \in 1..last : stages[n] # {}}
<1>1. CASE hits = {}
  BY <1>1 DEF Decide
<1>2. CASE hits # {}
  <2>1. hits \in SUBSET Nat
    OBVIOUS
  <2>2. PICK n \in hits : n = Min(hits) /\ \A y \in hits : n <= y
    BY <1>2, <2>1, LeastNumber
  <2>3. \A k \in 1..last : k < n => stages[k] = {}
    BY <2>2
  <2>4. ~ \A k \in 1..last : stages[k] = {}
    BY <1>2
  <2>5. Decide(stages, last) =
          [kind |-> IF Cardinality(stages[n]) = 1 THEN "unique" ELSE "ambiguous", keys |-> stages[n]]
    BY <2>2, <2>4 DEF Decide
  <2> QED BY <2>3, <2>5
<1> QED BY <1>1, <1>2

LEMMA ResolveIsDecided ==
  ASSUME NEW name, NEW keys
  PROVE LET stages == Stages(name, Candidates(name, keys))
            m == Resolve(name, keys)
        IN  \/ (\A n \in 1..LastStage(name) : stages[n] = {}) /\ m = Unmatched
            \/ \E n \in 1..LastStage(name) :
                  /\ stages[n] # {} /\ \A k \in 1..LastStage(name) : k < n => stages[k] = {}
                  /\ m = [kind |-> IF Cardinality(stages[n]) = 1 THEN "unique" ELSE "ambiguous", keys |-> stages[n]]
  BY FirstStageDecides, LastStageType DEF Resolve

LEMMA ResolveFindsCandidates ==
  ASSUME NEW name, NEW keys
  PROVE /\ Resolve(name, keys).keys \subseteq Candidates(name, keys)
        /\ Candidates(name, keys) \subseteq keys
        /\ Unique(Resolve(name, keys)) => KeyOf(Resolve(name, keys)) \in Resolve(name, keys).keys
<1> DEFINE stages == Stages(name, Candidates(name, keys))
<1> DEFINE m == Resolve(name, keys)
<1>1. Candidates(name, keys) \subseteq keys
  BY DEF Candidates, OfQuant
<1>2. CASE m = Unmatched
  BY <1>1, <1>2 DEF Unmatched, Unique
<1>3. ASSUME NEW n \in 1..LastStage(name), stages[n] # {},
             m = [kind |-> IF Cardinality(stages[n]) = 1 THEN "unique" ELSE "ambiguous", keys |-> stages[n]]
      PROVE m.keys \subseteq Candidates(name, keys) /\ KeyOf(m) \in m.keys
  <2>1. n \in 1..8
    BY LastStageType
  <2>2. stages[n] \subseteq Candidates(name, keys)
    BY <2>1, StagesOfKeys
  <2> QED BY <1>3, <2>2 DEF KeyOf
<1>4. m.keys \subseteq Candidates(name, keys) /\ (Unique(m) => KeyOf(m) \in m.keys)
  BY <1>2, <1>3, <1>1, ResolveIsDecided DEF Unmatched, Unique
<1> QED BY <1>1, <1>4

-----------------------------------------------------------------------------
(* From a name to a file.                                                  *)

(* A token that a sequence holds has a position in it.                     *)
LEMMA AtFinds ==
  ASSUME NEW s, Len(s) \in Nat, NEW t, Contains(s, t)
  PROVE At(s, t) \in 1..Len(s)
<1> DEFINE I == {i \in 1..Len(s) : s[i] = t}
<1>1. I # {} /\ I \in SUBSET Nat
  BY DEF Contains
<1>2. Min(I) \in I /\ \A j \in I : Min(I) <= j
  BY <1>1, LeastNumber
<1>3. s[Min(I)] = t /\ \A j \in 1..(Min(I) - 1) : s[j] # t
  BY <1>1, <1>2
<1>4. DOMAIN s = 1..Len(s)
  OBVIOUS
<1> QED BY <1>2, <1>3, <1>4 DEF At

LEMMA QuantOfWithQuant ==
  ASSUME NEW S, NEW dir \in Seq(S), NEW q, q # Absent
  PROVE QuantOf(WithQuant(dir, q)) = q
<1>1. PICK at : at = "@"
  OBVIOUS
<1>2. PICK T : T = S \cup {at, q}
  OBVIOUS
<1>3. dir \in Seq(T) /\ at \in T /\ q \in T
  BY <1>2, SeqMonotonic
<1>4. <<at, q>> \in Seq(T) /\ Len(<<at, q>>) = 2 /\ <<at, q>>[1] = at /\ <<at, q>>[2] = q
  BY <1>3
<1>5. PICK s : s = dir \o <<at, q>>
  OBVIOUS
<1>6. Len(s) = Len(dir) + 2
      /\ \A i \in 1..Len(dir) + 2 : s[i] = IF i <= Len(dir) THEN dir[i] ELSE <<at, q>>[i - Len(dir)]
  BY <1>3, <1>4, <1>5, ConcatProperties
<1>7. Len(dir) \in Nat
  BY LenProperties
<1>8. s[Len(dir) + 1] = at /\ s[Len(dir) + 2] = q
  BY <1>4, <1>6, <1>7
<1>9. Contains(s, at) /\ Len(s) \in Nat /\ Last(s) = q
  BY <1>6, <1>7, <1>8 DEF Contains, Last
<1>10. At(s, at) # 0
  BY <1>9, AtFinds
<1> QED BY <1>1, <1>5, <1>9, <1>10 DEF QuantOf, WithQuant

(* The registry holds keys of the pool, bound to nothing or to a file; what*)
(* was found is what these keys and files give.                            *)
LInv ==
    /\ Keys \subseteq KeyPool /\ IsFiniteSet(Keys)
    /\ registry \in [Keys -> Files \cup {NoPath}]
    /\ disk \subseteq Files
    /\ match = Resolve(asked, Keys)
    /\ found = ResolveFile(match, asked, registry, disk)

LEMMA LookUpKeepsLInv ==
  ASSUME LInv, NEW reg, NEW files, LookUp(reg, files),
         DOMAIN reg \subseteq KeyPool, IsFiniteSet(DOMAIN reg),
         reg \in [DOMAIN reg -> Files \cup {NoPath}], files \subseteq Files
  PROVE LInv'
<1>1. registry' = reg /\ disk' = files /\ asked' = asked
      /\ match' = Resolve(asked, DOMAIN reg) /\ found' = ResolveFile(match', asked, reg, files)
  BY DEF LookUp, Resolved
<1>2. Keys' = DOMAIN reg
  BY <1>1 DEF Keys
<1> QED BY <1>1, <1>2 DEF LInv

LEMMA EmptyLookUp == ASSUME NEW name PROVE Resolve(name, {}) = Unmatched
<1>1. Candidates(name, {}) = {}
  BY DEF Candidates, OfQuant
<1>2. \A n \in 1..8 : Stages(name, {})[n] = {}
  BY StagesOfKeys
<1>3. LastStage(name) \in 1..8
  BY LastStageType
<1> QED BY <1>1, <1>2, <1>3, ResolveIsDecided

LEMMA InitLInv == LInit => LInv
<1> SUFFICES ASSUME LInit PROVE LInv
  OBVIOUS
<1>1. registry = << >> /\ disk = {} /\ match = Unmatched /\ found = NotFound
  BY DEF LInit
<1>2. Keys = {} /\ registry \in [Keys -> Files \cup {NoPath}]
  BY <1>1 DEF Keys
<1>3. match = Resolve(asked, Keys)
  BY <1>1, <1>2, EmptyLookUp
<1>4. Offered(asked, registry, disk) = {}
  BY <1>1 DEF Offered, InFirstRoot
<1>5. ~Unique(match)
  BY <1>1 DEF Unique, Unmatched
<1>6. ResolveFile(match, asked, registry, disk) = NotFound
  BY <1>4, <1>5 DEF ResolveFile, Persisted, Answer
<1> QED BY <1>1, <1>2, <1>3, <1>6, FS_EmptySet DEF LInv

LEMMA NextLInv == LInv /\ [LNext]_lvars => LInv'
<1> SUFFICES ASSUME LInv, [LNext]_lvars PROVE LInv'
  OBVIOUS
<1> USE DEF LInv
<1>1. ASSUME NEW k \in KeyPool, AddKey(k) PROVE LInv'
  <2> DEFINE reg == [j \in Keys \cup {k} |-> IF j = k THEN NoPath ELSE registry[j]]
  <2>1. LookUp(reg, disk)
    BY <1>1 DEF AddKey
  <2>2. DOMAIN reg = Keys \cup {k} /\ reg \in [DOMAIN reg -> Files \cup {NoPath}]
    BY DEF Keys
  <2>3. IsFiniteSet(DOMAIN reg)
    BY <2>2, FS_AddElement
  <2> HIDE DEF reg
  <2> QED BY <2>1, <2>2, <2>3, LookUpKeepsLInv
<1>2. ASSUME NEW k \in KeyPool, RemoveKey(k) PROVE LInv'
  <2> DEFINE reg == [j \in Keys \ {k} |-> registry[j]]
  <2>1. LookUp(reg, disk)
    BY <1>2 DEF RemoveKey
  <2>2. DOMAIN reg = Keys \ {k} /\ reg \in [DOMAIN reg -> Files \cup {NoPath}]
    BY DEF Keys
  <2>3. IsFiniteSet(DOMAIN reg)
    BY <2>2, FS_RemoveElement
  <2> HIDE DEF reg
  <2> QED BY <2>1, <2>2, <2>3, LookUpKeepsLInv
<1>3. ASSUME NEW k \in KeyPool, NEW f \in Files, Bind(k, f) PROVE LInv'
  <2> DEFINE reg == [registry EXCEPT ![k] = f]
  <2>1. LookUp(reg, disk)
    BY <1>3 DEF Bind
  <2>2. DOMAIN reg = Keys /\ reg \in [Keys -> Files \cup {NoPath}]
    BY DEF Keys
  <2> HIDE DEF reg
  <2> QED BY <2>1, <2>2, LookUpKeepsLInv
<1>4. ASSUME NEW f \in Files, AddFile(f) \/ RemoveFile(f) PROVE LInv'
  <2>1. PICK files : files \subseteq Files /\ LookUp(registry, files)
    BY <1>4 DEF AddFile, RemoveFile
  <2> QED BY <2>1, LookUpKeepsLInv DEF Keys
<1>5. CASE UNCHANGED lvars
  BY <1>5 DEF lvars, Keys
<1> QED BY <1>1, <1>2, <1>3, <1>4, <1>5 DEF LNext

LEMMA LInvAlways == LSpec => []LInv
  BY InitLInv, NextLInv, PTL DEF LSpec

(* The persisted path answers, or refuses, before any candidate does.      *)
LEMMA LInvBindingKept == LInv => BindingKept
<1> SUFFICES ASSUME LInv, Unique(match), KeyOf(match) \in Keys, registry[KeyOf(match)] # NoPath
             PROVE found \in {registry[KeyOf(match)], Invalid}
  BY DEF BindingKept
<1>1. Persisted(match, registry, disk) \in {registry[KeyOf(match)], Invalid}
  BY DEF Persisted
<1>2. Invalid # NoPath
  BY DEF Invalid, NoPath
<1> QED BY <1>1, <1>2 DEF LInv, ResolveFile, Answer

(* A bound entry is answered with its file or refused: for any registry,   *)
(* files and names (_persisted_model_binding).                             *)
THEOREM BoundOrRefused == LSpec => []BindingKept
  BY LInvAlways, LInvBindingKept, PTL

(* An entry that a file is found to belong to has the quant of the file.   *)
LEMMA EntryHasQuantOfFile ==
  ASSUME NEW f, NEW keys, EntryOf(f, keys) # << >>, FileInfo[f].quant # Absent
  PROVE QuantOf(EntryOf(f, keys)) = FileInfo[f].quant
<1>1. ASSUME NEW set, NEW q, q # Absent, Agreeing(set, q) # << >> PROVE QuantOf(Agreeing(set, q)) = q
  BY <1>1 DEF Agreeing
<1> QED BY <1>1 DEF EntryOf, MatchFile, MatchOwned

LEMMA OfferedHasQuantOfName ==
  ASSUME NEW f \in Files, NEW name, NEW reg, NEW files, f \in Offered(name, reg, files),
         FileInfo[f].quant # Absent
  PROVE QuantOf(name) = FileInfo[f].quant
<1>1. NameOf(EntryOf(f, DOMAIN reg), f) = name
  BY DEF Offered, InFirstRoot, OfferedAs
<1>2. CASE EntryOf(f, DOMAIN reg) = << >>
  <2>1. FileInfo[f].dir \in Seq(STRING)
    BY LookupAssumption DEF LookupAssumption
  <2> QED BY <1>1, <1>2, <2>1, QuantOfWithQuant DEF NameOf
<1>3. CASE EntryOf(f, DOMAIN reg) # << >>
  BY <1>1, <1>3, EntryHasQuantOfFile DEF NameOf
<1> QED BY <1>2, <1>3

LEMMA CandidatesHaveQuant ==
  ASSUME NEW name, NEW keys, NormQuant(QuantOf(name)) # Absent, NEW k \in Candidates(name, keys)
  PROVE NormQuant(QuantOf(k)) = NormQuant(QuantOf(name))
  BY DEF Candidates, OfQuant

(* No quant but the one that was asked for.                                *)
LEMMA QuantKept ==
  ASSUME LInv, NormQuant(QuantOf(asked)) # Absent
  PROVE /\ \A k \in match.keys : NormQuant(QuantOf(k)) = NormQuant(QuantOf(asked))
        /\ found \in Files => \/ FileInfo[found].quant = Absent
                              \/ NormQuant(FileInfo[found].quant) = NormQuant(QuantOf(asked))
<1>1. match.keys \subseteq Candidates(asked, Keys) /\ match.keys \subseteq Keys
      /\ (Unique(match) => KeyOf(match) \in match.keys)
  BY ResolveFindsCandidates DEF LInv
<1>2. \A k \in match.keys : NormQuant(QuantOf(k)) = NormQuant(QuantOf(asked))
  BY <1>1, CandidatesHaveQuant
<1>3. ASSUME found \in Files, FileInfo[found].quant # Absent
      PROVE NormQuant(FileInfo[found].quant) = NormQuant(QuantOf(asked))
  <2>1. found = Answer(Persisted(match, registry, disk), Offered(asked, registry, disk))
    BY DEF LInv, ResolveFile
  <2>2. found \notin {NoPath, NotFound, Invalid, Many}
    BY <1>3, LookupAssumption DEF LookupAssumption
  <2>3. CASE Persisted(match, registry, disk) = NoPath
    <3>1. found \in Offered(asked, registry, disk)
      BY <2>1, <2>2, <2>3 DEF Answer
    <3> QED BY <3>1, <1>3, OfferedHasQuantOfName
  <2>4. CASE Persisted(match, registry, disk) # NoPath
    <3>1. found = Persisted(match, registry, disk)
      BY <2>1, <2>4 DEF Answer
    <3>2. Unique(match) /\ ProvesEntry(found, KeyOf(match), registry)
      BY <3>1, <2>2 DEF Persisted
    <3>3. EntryOf(found, DOMAIN registry) = KeyOf(match) /\ KeyOf(match) # << >>
      BY <3>2, <1>1, LookupAssumption DEF ProvesEntry, LInv, LookupAssumption
    <3>4. QuantOf(KeyOf(match)) = FileInfo[found].quant
      BY <3>3, <1>3, EntryHasQuantOfFile
    <3> QED BY <3>2, <3>4, <1>1, <1>2
  <2> QED BY <2>3, <2>4
<1> QED BY <1>2, <1>3

(* With quant and publisher only the first two stages are gone through.    *)
LEMMA PublisherKept ==
  ASSUME NEW name, NEW keys, QuantOf(name) # Absent, PublisherOf(name) # << >>,
         NEW k \in Resolve(name, keys).keys
  PROVE \/ Component(PublisherOf(k)) = Component(PublisherOf(name))
        \/ NormReference(Suffix(k)) = NormReference(name)
<1> DEFINE stages == Stages(name, Candidates(name, keys))
<1>1. LastStage(name) = 2
  BY DEF LastStage
<1>2. PICK n \in 1..2 : k \in stages[n]
  BY <1>1, ResolveIsDecided DEF Unmatched
<1>3. CASE n = 1
  <2>1. stages[1] = {j \in Candidates(name, keys) : NormIdentity(j) = NormIdentity(name)}
    BY DEF Stages
  <2> QED BY <1>2, <1>3, <2>1 DEF NormIdentity
<1>4. CASE n = 2
  <2>1. stages[2] = {j \in Candidates(name, keys) : NormReference(Suffix(j)) = NormReference(name)}
    BY DEF Stages
  <2> QED BY <1>2, <1>4, <2>1
<1> QED BY <1>3, <1>4

(* A key of the registry is a candidate of the first stage for itself.     *)
LEMMA OwnKeyKept ==
  ASSUME LInv, asked \in Keys, Unique(match)
  PROVE KeyOf(match) = asked
<1> DEFINE stages == Stages(asked, Candidates(asked, Keys))
<1>1. asked \in Candidates(asked, Keys)
  BY DEF Candidates, OfQuant
<1>2. stages[1] = {j \in Candidates(asked, Keys) : NormIdentity(j) = NormIdentity(asked)}
  BY DEF Stages
<1>3. asked \in stages[1] /\ stages[1] \in SUBSET Keys
  BY <1>1, <1>2, ResolveFindsCandidates
<1>4. LastStage(asked) \in 1..8
  BY LastStageType
<1>5. match = [kind |-> IF Cardinality(stages[1]) = 1 THEN "unique" ELSE "ambiguous", keys |-> stages[1]]
  BY <1>3, <1>4, ResolveIsDecided DEF LInv
<1>6. Cardinality(stages[1]) = 1 /\ IsFiniteSet(stages[1])
  BY <1>3, <1>5, FS_Subset DEF LInv, Unique
<1>7. stages[1] = {asked}
  BY <1>3, <1>6, OneMember
<1> QED BY <1>5, <1>7 DEF KeyOf

(* A name never quietly comes to mean another quant or another model: for  *)
(* any registry, files and names (resolve_registry_match, candidates).     *)
THEOREM NamesKeepIdentity == LSpec => []IdentityKept
<1>1. LInv => IdentityKept
  <2> SUFFICES ASSUME LInv PROVE IdentityKept
    OBVIOUS
  <2>1. match = Resolve(asked, Keys)
    BY DEF LInv
  <2> QED BY <2>1, QuantKept, PublisherKept, OwnKeyKept DEF IdentityKept
<1> QED BY <1>1, LInvAlways, PTL

(* With one more key every stage has at most that key more.                *)
LEMMA OneMoreCandidate ==
  ASSUME NEW name, NEW keys, NEW k, NEW n \in 1..8
  PROVE LET A == Stages(name, Candidates(name, keys))
            B == Stages(name, Candidates(name, keys \cup {k}))
        IN  A[n] \subseteq B[n] /\ B[n] \subseteq A[n] \cup {k}
<1> DEFINE X == Candidates(name, keys)
           Y == Candidates(name, keys \cup {k})
<1>1. X \subseteq Y /\ Y \subseteq X \cup {k}
  BY DEF Candidates, OfQuant
<1> HIDE DEF X, Y
<1>2. Stages(name, X)[n] \subseteq Stages(name, Y)[n] /\ Stages(name, Y)[n] \subseteq Stages(name, X)[n] \cup {k}
  <2>1. CASE n = 1
    BY <1>1, <2>1 DEF Stages
  <2>2. CASE n = 2
    BY <1>1, <2>2 DEF Stages
  <2>3. CASE n = 3
    BY <1>1, <2>3 DEF Stages
  <2>4. CASE n = 4
    BY <1>1, <2>4 DEF Stages
  <2>5. CASE n = 5
    BY <1>1, <2>5 DEF Stages
  <2>6. CASE n = 6
    BY <1>1, <2>6 DEF Stages
  <2>7. CASE n = 7
    BY <1>1, <2>7 DEF Stages
  <2>8. CASE n = 8
    BY <1>1, <2>8 DEF Stages
  <2> QED BY <2>1, <2>2, <2>3, <2>4, <2>5, <2>6, <2>7, <2>8
<1> QED BY <1>2 DEF X, Y

(* What is found uniquely is all there is in the stage that decides.       *)
LEMMA UniqueIsAlone ==
  ASSUME NEW name, NEW keys, IsFiniteSet(keys), Unique(Resolve(name, keys))
  PROVE LET stages == Stages(name, Candidates(name, keys))
        IN  \E n \in 1..LastStage(name) :
               /\ stages[n] = {KeyOf(Resolve(name, keys))}
               /\ \A i \in 1..LastStage(name) : i < n => stages[i] = {}
<1> DEFINE stages == Stages(name, Candidates(name, keys))
           m == Resolve(name, keys)
<1>1. PICK n \in 1..LastStage(name) :
        /\ stages[n] # {} /\ \A i \in 1..LastStage(name) : i < n => stages[i] = {}
        /\ m = [kind |-> IF Cardinality(stages[n]) = 1 THEN "unique" ELSE "ambiguous", keys |-> stages[n]]
  BY ResolveIsDecided DEF Unmatched, Unique
<1>2. stages[n] \in SUBSET keys
  BY StagesOfKeys, LastStageType, ResolveFindsCandidates
<1>3. IsFiniteSet(stages[n]) /\ Cardinality(stages[n]) = 1
  BY <1>1, <1>2, FS_Subset DEF Unique
<1>4. KeyOf(m) \in stages[n]
  BY <1>1 DEF KeyOf
<1>5. stages[n] = {KeyOf(m)}
  BY <1>3, <1>4, OneMember
<1> QED BY <1>1, <1>5

LEMMA NewKeyTakesOver ==
  ASSUME NEW name, NEW keys, IsFiniteSet(keys), NEW k,
         Unique(Resolve(name, keys)), Unique(Resolve(name, keys \cup {k}))
  PROVE KeyOf(Resolve(name, keys \cup {k})) \in {KeyOf(Resolve(name, keys)), k}
<1> DEFINE A == Stages(name, Candidates(name, keys))
           B == Stages(name, Candidates(name, keys \cup {k}))
           x == KeyOf(Resolve(name, keys))
           y == KeyOf(Resolve(name, keys \cup {k}))
<1>1. PICK n \in 1..LastStage(name) : A[n] = {x} /\ \A i \in 1..LastStage(name) : i < n => A[i] = {}
  BY UniqueIsAlone
<1>2. PICK o \in 1..LastStage(name) : B[o] = {y} /\ \A i \in 1..LastStage(name) : i < o => B[i] = {}
  BY UniqueIsAlone, FS_AddElement
<1>3. LastStage(name) \in 1..8
  BY LastStageType
<1>4. ASSUME NEW i \in 1..LastStage(name)
      PROVE A[i] \subseteq B[i] /\ B[i] \subseteq A[i] \cup {k}
  <2>1. i \in 1..8
    BY <1>3
  <2> QED BY <2>1, OneMoreCandidate
<1> HIDE DEF A, B, x, y
<1>5. ~ n < o
  <2> SUFFICES ASSUME n < o PROVE FALSE
    OBVIOUS
  <2>1. B[n] = {}
    BY <1>2
  <2> QED BY <2>1, <1>1, <1>4
<1>6. y \in A[o] \cup {k}
  BY <1>2, <1>4
<1>7. o = n \/ A[o] = {}
  BY <1>1, <1>3, <1>5
<1>8. y \in {x, k}
  BY <1>1, <1>6, <1>7
<1> QED BY <1>8 DEF x, y

(* For any registry and names: a new entry takes a name over or makes it   *)
(* ambiguous, and never sends it to a third entry.                         *)
THEOREM NewEntryNeverRedirects == LSpec => EntryNeverRedirects
<1>1. LInv /\ LInv' /\ [LNext]_lvars
      => [\A k \in KeyPool :
            (k \in Keys' \ Keys /\ Unique(match) /\ Unique(match'))
               => KeyOf(match') \in {KeyOf(match), k}]_lvars
  <2> SUFFICES ASSUME LInv, LInv', LNext, NEW k \in KeyPool, k \in Keys' \ Keys,
                      Unique(match), Unique(match')
               PROVE KeyOf(match') \in {KeyOf(match), k}
    BY DEF lvars, Keys
  <2>1. Keys' = Keys \cup {k} /\ asked' = asked
    <3>1. ASSUME NEW j \in KeyPool, AddKey(j) PROVE Keys' = Keys \cup {j} /\ asked' = asked
      BY <3>1 DEF AddKey, LookUp, Resolved, Keys
    <3>2. ASSUME NEW j \in KeyPool, RemoveKey(j) PROVE Keys' \subseteq Keys
      BY <3>2 DEF RemoveKey, LookUp, Resolved, Keys
    <3>3. ASSUME NEW j \in KeyPool, NEW f \in Files, Bind(j, f) PROVE Keys' \subseteq Keys
      BY <3>3 DEF Bind, LookUp, Resolved, Keys
    <3>4. ASSUME NEW f \in Files, AddFile(f) \/ RemoveFile(f) PROVE Keys' \subseteq Keys
      BY <3>4 DEF AddFile, RemoveFile, LookUp, Resolved, Keys
    <3> QED BY <3>1, <3>2, <3>3, <3>4 DEF LNext
  <2>2. match = Resolve(asked, Keys) /\ match' = Resolve(asked, Keys \cup {k}) /\ IsFiniteSet(Keys)
    BY <2>1 DEF LInv
  <2> QED BY <2>2, NewKeyTakesOver
<1> QED BY <1>1, LInvAlways, PTL DEF LSpec, EntryNeverRedirects

(* A file in a later root is not among those of the first root.            *)
LEMMA LaterRootIsLeftOut ==
  ASSUME NEW hits \in SUBSET Files, NEW a \in InFirstRoot(hits),
         NEW f \in Files, FileInfo[a].root < FileInfo[f].root
  PROVE InFirstRoot(hits \cup {f}) = InFirstRoot(hits)
<1>1. \A g \in Files : FileInfo[g].root \in Nat
  BY LookupAssumption DEF LookupAssumption
<1>2. a \in hits /\ \A g \in hits : FileInfo[a].root <= FileInfo[g].root
  BY DEF InFirstRoot
<1>3. f \notin InFirstRoot(hits \cup {f})
  BY <1>1, <1>2 DEF InFirstRoot
<1>4. ASSUME NEW g \in InFirstRoot(hits) PROVE g \in InFirstRoot(hits \cup {f})
  <2>1. FileInfo[g].root <= FileInfo[a].root
    BY <1>2 DEF InFirstRoot
  <2> QED BY <1>1, <1>2, <2>1 DEF InFirstRoot
<1>5. ASSUME NEW g \in InFirstRoot(hits \cup {f}) PROVE g \in InFirstRoot(hits)
  BY <1>3 DEF InFirstRoot
<1> QED BY <1>4, <1>5

LEMMA LaterModelIgnored ==
  ASSUME NEW m, NEW name, NEW reg, NEW files \in SUBSET Files, NEW f \in Files,
         ResolveFile(m, name, reg, files) \in Files,
         FileInfo[ResolveFile(m, name, reg, files)].root < FileInfo[f].root
  PROVE ResolveFile(m, name, reg, files \cup {f}) = ResolveFile(m, name, reg, files)
<1> DEFINE a == ResolveFile(m, name, reg, files)
           offered == {g \in files : OfferedAs(EntryOf(g, DOMAIN reg), g, name, reg)}
           after == {g \in files \cup {f} : OfferedAs(EntryOf(g, DOMAIN reg), g, name, reg)}
<1>1. a \notin {NoPath, NotFound, Invalid, Many} /\ Invalid # NoPath
  BY LookupAssumption DEF LookupAssumption, Invalid, NoPath
<1>2. CASE Persisted(m, reg, files) # NoPath
  <2>1. a = Persisted(m, reg, files)
    BY <1>2 DEF ResolveFile, Answer
  <2>2. Persisted(m, reg, files \cup {f}) = Persisted(m, reg, files)
    BY <2>1, <1>1, <1>2 DEF Persisted
  <2> QED BY <1>2, <2>1, <2>2 DEF ResolveFile, Answer
<1>3. CASE Persisted(m, reg, files) = NoPath
  <2>1. Persisted(m, reg, files \cup {f}) = NoPath
    BY <1>1, <1>3 DEF Persisted
  <2>2. a \in InFirstRoot(offered)
    BY <1>1, <1>3 DEF ResolveFile, Answer, Offered
  <2>3. after = offered \/ after = offered \cup {f}
    OBVIOUS
  <2>4. offered \in SUBSET Files
    OBVIOUS
  <2> HIDE DEF offered, after
  <2>5. InFirstRoot(after) = InFirstRoot(offered)
    BY <2>2, <2>3, <2>4, LaterRootIsLeftOut
  <2>6. Offered(name, reg, files \cup {f}) = Offered(name, reg, files)
    BY <2>5 DEF Offered, after, offered
  <2> QED BY <1>3, <2>1, <2>6 DEF ResolveFile
<1> QED BY <1>2, <1>3
(* The same file in another root.                                          *)
CopyOf(a, f) == [FileInfo[a] EXCEPT !.root = 0] = [FileInfo[f] EXCEPT !.root = 0]

LEMMA SameFile ==
  ASSUME NEW a \in Files, NEW f \in Files, CopyOf(a, f)
  PROVE /\ FileInfo[a].dir = FileInfo[f].dir /\ FileInfo[a].stem = FileInfo[f].stem
        /\ FileInfo[a].quant = FileInfo[f].quant /\ FileInfo[a].support = FileInfo[f].support
  BY LookupAssumption DEF LookupAssumption, CopyOf

(* The publisher's own files are preferred before and after f arrives.     *)
LEMMA NearGrows ==
  ASSUME NEW name, NEW files, NEW f, NEW a, a \in Near(name, files), CopyOf(a, f),
         a \in Files, f \in Files, NEW after, after = files \cup {f}
  PROVE \A g : g \in Near(name, after) <=> (g \in Near(name, files) \/ g = f)
<1>0. a \in files
      /\ FileInfo[a].dir = FileInfo[f].dir /\ FileInfo[a].quant = FileInfo[f].quant
  BY SameFile DEF Near, OfPublisher
<1>1. QuantAgrees(name, f)
  BY <1>0 DEF Near, QuantAgrees
<1>2. OfPublisher(name, after) = OfPublisher(name, files) \cup {f}
  <2> DEFINE own == {g \in files : PublisherOf(FileInfo[g].dir) = PublisherOf(name)}
             more == {g \in after : PublisherOf(FileInfo[g].dir) = PublisherOf(name)}
  <2>1. CASE PublisherOf(FileInfo[f].dir) = PublisherOf(name)
    <3>1. more = own \cup {f} /\ a \in own
      BY <2>1, <1>0
    <3> HIDE DEF own, more
    <3>2. own # {} /\ more # {}
      BY <3>1
    <3>3. CASE PublisherOf(name) = << >>
      BY <3>3 DEF OfPublisher
    <3>4. CASE PublisherOf(name) # << >>
      <4>1. OfPublisher(name, files) = own
        BY <3>2, <3>4 DEF OfPublisher, own
      <4>2. OfPublisher(name, after) = more
        BY <3>2, <3>4 DEF OfPublisher, more
      <4> QED BY <4>1, <4>2, <3>1
    <3> QED BY <3>3, <3>4
  <2>2. CASE PublisherOf(FileInfo[f].dir) # PublisherOf(name)
    <3>1. more = own /\ a \notin own
      BY <2>2, <1>0
    <3>2. a \in OfPublisher(name, files)
      BY DEF Near
    <3>3. PublisherOf(name) = << >> \/ own = {}
      BY <3>1, <3>2 DEF OfPublisher
    <3> QED BY <3>1, <3>3 DEF OfPublisher
  <2> QED BY <2>1, <2>2
<1> QED BY <1>1, <1>2 DEF Near

(* A lone hit is the only file of the first root.                          *)
LEMMA OnlyOneHit ==
  ASSUME NEW hit, OnlyOne(hit) \in Files
  PROVE OnlyOne(hit) \in hit
<1>1. hit # {} /\ Cardinality(hit) = 1
  BY LookupAssumption DEF OnlyOne, LookupAssumption
<1> QED BY <1>1 DEF OnlyOne

LEMMA LaterArtifactIgnored ==
  ASSUME NEW name, NEW files \in SUBSET Files, NEW f \in Files,
         NEW a \in Files, a = ResolveArtifact(name, files, FALSE),
         FileInfo[a].root < FileInfo[f].root, CopyOf(a, f)
  PROVE ResolveArtifact(name, files \cup {f}, FALSE) = a
<1> DEFINE norm == NormName(name)
           plain == {g \in files : ~FileInfo[g].support}
           near == Near(name, plain)
           plainF == {g \in files \cup {f} : ~FileInfo[g].support}
           nearF == Near(name, plainF)
           explicit(present) == {g \in present : FileInfo[g].dir \o <<"/">> \o FileInfo[g].stem = name}
           exact(from) == {g \in from : NormName(FileInfo[g].stem) \in {norm, Base(norm)}}
           part(from) == {g \in from : Part(Base(norm), NormName(FileInfo[g].stem))}
           hits == FirstNonEmpty(explicit(files), exact(near), part(near))
           hitsF == FirstNonEmpty(explicit(files \cup {f}), exact(nearF), part(nearF))
<1>1. a = OnlyOne(InFirstRoot(hits))
  BY DEF ResolveArtifact, Match
<1>2. ResolveArtifact(name, files \cup {f}, FALSE) = OnlyOne(InFirstRoot(hitsF))
  BY DEF ResolveArtifact, Match
<1>3. near \in SUBSET plain /\ plain \in SUBSET files
  BY DEF Near, OfPublisher
<1>4. hits \in SUBSET files
  BY <1>3 DEF FirstNonEmpty
<1>5. a \in hits
  BY <1>1, OnlyOneHit DEF InFirstRoot
<1>6. hitsF = hits \cup {f}
  <2>1. /\ FileInfo[a].dir = FileInfo[f].dir /\ FileInfo[a].stem = FileInfo[f].stem
        /\ FileInfo[a].support = FileInfo[f].support /\ FileInfo[a].quant = FileInfo[f].quant
    BY <1>4, <1>5, SameFile
  <2>2. CASE a \in explicit(files)
    <3>1. explicit(files \cup {f}) = explicit(files) \cup {f}
      BY <2>1, <2>2
    <3>2. hits = explicit(files)
      BY <2>2 DEF FirstNonEmpty
    <3>3. hitsF = explicit(files \cup {f})
      BY <3>1 DEF FirstNonEmpty
    <3> QED BY <3>1, <3>2, <3>3
  <2>3. CASE a \notin explicit(files)
    <3>1. explicit(files) = {} /\ a \in near
      BY <1>5, <2>3 DEF FirstNonEmpty
    <3>2. explicit(files \cup {f}) = {}
      BY <2>1, <2>3, <3>1, <1>4, <1>5
    <3>3. plainF = plain \cup {f} /\ a \in plain
      BY <2>1, <3>1, <1>3
    <3>4. nearF = near \cup {f}
      <4>1. a \in Near(name, plain)
        BY <3>1
      <4> HIDE DEF plain, plainF
      <4>2. \A g : g \in Near(name, plainF) <=> (g \in Near(name, plain) \/ g = f)
        BY <4>1, <3>3, NearGrows
      <4> QED BY <4>2
    <3> HIDE DEF near, nearF
    <3>5. CASE a \in exact(near)
      <4>1. exact(nearF) = exact(near) \cup {f}
        BY <3>4, <3>5, <2>1
      <4> QED BY <4>1, <3>1, <3>2, <3>5 DEF FirstNonEmpty
    <3>6. CASE a \notin exact(near)
      <4>1. exact(near) = {} /\ a \in part(near)
        BY <1>5, <3>1, <3>6 DEF FirstNonEmpty
      <4>2. exact(nearF) = {}
        BY <4>1, <3>4, <2>1, <3>1
      <4>3. part(nearF) = part(near) \cup {f}
        BY <4>1, <3>4, <2>1
      <4> QED BY <4>1, <4>2, <4>3, <3>1, <3>2 DEF FirstNonEmpty
    <3> QED BY <3>5, <3>6
  <2> QED BY <2>2, <2>3
<1> HIDE DEF hits, hitsF
<1>7. a \in InFirstRoot(hits)
  BY <1>1, OnlyOneHit
<1>8. InFirstRoot(hitsF) = InFirstRoot(hits)
  BY <1>4, <1>6, <1>7, LaterRootIsLeftOut
<1> QED BY ZenonT(40), <1>1, <1>2, <1>8

(* For any files, roots and names: a second copy in a later root changes   *)
(* no answer (LocalModelResolver.candidates, ArtifactResolver._select).    *)
THEOREM SecondCopyIgnored == LSpec => LaterCopyIgnored
<1> DEFINE Ignored ==
      \A f \in disk' \ disk :
         LET a == ResolveArtifact(asked, disk, FALSE) IN
         /\ ( /\ found \in Files /\ FileInfo[found].root < FileInfo[f].root
              /\ Identifier(f, registry) = Identifier(found, registry) ) => found' = found
         /\ ( /\ a \in Files /\ FileInfo[a].root < FileInfo[f].root
              /\ [FileInfo[a] EXCEPT !.root = 0] = [FileInfo[f] EXCEPT !.root = 0] )
                => ResolveArtifact(asked, disk \cup {f}, FALSE) = a
<1>1. LInv /\ [LNext]_lvars => [Ignored]_lvars
  <2> SUFFICES ASSUME LInv, LNext, NEW f \in disk' \ disk,
                      NEW a, a = ResolveArtifact(asked, disk, FALSE)
               PROVE /\ ( /\ found \in Files /\ FileInfo[found].root < FileInfo[f].root
                          /\ Identifier(f, registry) = Identifier(found, registry) ) => found' = found
                     /\ ( /\ a \in Files /\ FileInfo[a].root < FileInfo[f].root
                          /\ [FileInfo[a] EXCEPT !.root = 0] = [FileInfo[f] EXCEPT !.root = 0] )
                            => ResolveArtifact(asked, disk \cup {f}, FALSE) = a
    BY DEF lvars
  <2>1. f \in Files /\ AddFile(f)
    <3>1. ASSUME NEW j \in KeyPool, AddKey(j) \/ RemoveKey(j) PROVE disk' = disk
      BY <3>1 DEF AddKey, RemoveKey, LookUp, Resolved
    <3>2. ASSUME NEW j \in KeyPool, NEW g \in Files, Bind(j, g) PROVE disk' = disk
      BY <3>2 DEF Bind, LookUp, Resolved
    <3>3. ASSUME NEW g \in Files, RemoveFile(g) PROVE disk' \subseteq disk
      BY <3>3 DEF RemoveFile, LookUp, Resolved
    <3>4. ASSUME NEW g \in Files, AddFile(g) PROVE disk' = disk \cup {g}
      BY <3>4 DEF AddFile, LookUp, Resolved
    <3> QED BY <3>1, <3>2, <3>3, <3>4 DEF LNext
  <2>2. disk \in SUBSET Files /\ found = ResolveFile(match, asked, registry, disk)
        /\ match = Resolve(asked, Keys)
    BY DEF LInv
  <2>3. found' = ResolveFile(match, asked, registry, disk \cup {f})
    BY <2>1, <2>2 DEF AddFile, LookUp, Resolved, Keys
  <2>4. ASSUME found \in Files, FileInfo[found].root < FileInfo[f].root
        PROVE found' = found
    BY <2>1, <2>2, <2>3, <2>4, LaterModelIgnored
  <2>5. ASSUME a \in Files, FileInfo[a].root < FileInfo[f].root,
               [FileInfo[a] EXCEPT !.root = 0] = [FileInfo[f] EXCEPT !.root = 0]
        PROVE ResolveArtifact(asked, disk \cup {f}, FALSE) = a
    BY <2>1, <2>2, <2>5, LaterArtifactIgnored DEF CopyOf
  <2> QED BY <2>4, <2>5
<1> QED BY <1>1, LInvAlways, PTL DEF LSpec, LaterCopyIgnored

-----------------------------------------------------------------------------
(* LM Studio.  What a call of load_model relies on between two requests:   *)
(* every instance there is was seen since the call began, an instance has  *)
(* a name, and what was read from the registry is complete or nothing.     *)

LoadLabels == {"post", "prove", "trust", "accept", "nothing", "probe", "start", "reprobe", "llmster"}
UnloadLabels == {"list", "unload", "poll"}

ShapeInv ==
    call = [kind |-> call.kind, name |-> call.name, rt |-> call.rt,
            attempt |-> call.attempt, left |-> call.left]

KindInv ==
    /\ pc \in LoadLabels \cup UnloadLabels \cup {"refuse", "current", "wait", "idle"}
    /\ pc \in LoadLabels \cup {"refuse"} => call.kind = "load"
    /\ pc \in UnloadLabels => call.kind = "unload"
    /\ pc \in {"current", "wait"} => call.kind = pc

HistoryInv ==
    /\ inst \in Seq(past)
    /\ (pc # "idle" /\ inst = << >>) => idle

(* What the server may echo of an instance it loads.                       *)
EchoOf(e, j) == e \in {NoEcho, Echo(j), [Echo(j) EXCEPT !.k = Absent]}

RegistryRead(rt) == Valid(rt) /\ (rt.key = << >> => rt = NoRuntime)

EchoInv == reply.id # << >> /\ \E j \in past : j.id = reply.id /\ EchoOf(reply.echo, j)

AskedInv ==
    /\ pc \in LoadLabels => RegistryRead(call.rt)
    /\ pc = "trust" => ~MustProve(call.name, call.rt)
    /\ pc = "prove" => EchoInv

MInv ==
    /\ ShapeInv /\ KindInv /\ HistoryInv /\ AskedInv
    /\ LoadedIsProven /\ UnloadConfirmed

(* No entry has the empty key, so a found entry is not taken for none.     *)
LEMMA RuntimeIsRead ==
  ASSUME NEW name, Valid(Runtime(name))
  PROVE RegistryRead(Runtime(name))
<1> DEFINE resolved == Resolve(name, DOMAIN Entries)
<1>1. CASE Unique(resolved)
  <2>1. resolved.keys # {} /\ resolved.keys \subseteq DOMAIN Entries
    BY <1>1, ResolveFindsCandidates, UniqueIsAlone
  <2>2. KeyOf(resolved) \in DOMAIN Entries
    BY <2>1 DEF KeyOf
  <2>3. Runtime(name).key = KeyOf(resolved)
    BY <1>1 DEF Runtime, RuntimeFor, RuntimeOf
  <2> QED BY <2>2, <2>3, EntriesAssumption DEF RegistryRead, EntriesAssumption
<1>2. CASE ~Unique(resolved)
  BY <1>2 DEF Runtime, RuntimeFor, RegistryRead
<1> QED BY <1>1, <1>2

LEMMA RemoveAtIsSeq ==
  ASSUME NEW S, NEW s \in Seq(S), NEW n \in DOMAIN s
  PROVE RemoveAt(s, n) \in Seq(S)
<1>1. n \in 1..Len(s) /\ Len(s) \in Nat
  OBVIOUS
<1>2. SubSeq(s, 1, n - 1) \in Seq(S) /\ SubSeq(s, n + 1, Len(s)) \in Seq(S)
  BY <1>1, SubSeqProperties
<1> QED BY <1>2, ConcatProperties DEF RemoveAt

(* While an answer stands, more instances and more idle moments only make  *)
(* it truer.                                                               *)
LEMMA AnswerStands ==
  ASSUME LoadedIsProven, UnloadConfirmed, answer' = answer, past \subseteq past', idle => idle'
  PROVE LoadedIsProven' /\ UnloadConfirmed'
<1>1. LoadedIsProven'
  BY DEF LoadedIsProven
<1>2. UnloadConfirmed'
  BY DEF UnloadConfirmed
<1> QED BY <1>1, <1>2

LEMMA LoadedGrows ==
  ASSUME HistoryInv, NEW i, Loaded(i)
  PROVE past \subseteq past' /\ i \in past' /\ idle' = idle /\ inst' \in Seq(past') /\ inst' # << >>
<1>1. inst' = Append(inst, i) /\ past' = past \cup {i} /\ idle' = idle
  BY DEF Loaded
<1>2. inst \in Seq(past')
  BY <1>1, SeqMonotonic DEF HistoryInv
<1>3. inst' \in Seq(past') /\ Len(inst') = Len(inst) + 1 /\ Len(inst) \in Nat
  BY <1>1, <1>2, AppendProperties, LenProperties
<1>4. inst' # << >>
  BY <1>3
<1> QED BY <1>1, <1>3, <1>4

LEMMA SetGrows ==
  ASSUME HistoryInv, NEW s \in Seq(past), SetInst(s)
  PROVE past' = past /\ (idle => idle') /\ inst' \in Seq(past') /\ (inst' = << >> => idle')
  BY DEF SetInst, HistoryInv

(* What others do leaves the call alone.                                   *)
LEMMA OthersKeepMInv ==
  ASSUME MInv, UNCHANGED <<pc, call, reply, answer>>,
         past \subseteq past', idle => idle', inst' \in Seq(past'),
         (pc # "idle" /\ inst' = << >>) => idle'
  PROVE MInv'
<1>1. ShapeInv' /\ KindInv'
  BY DEF MInv, ShapeInv, KindInv
<1>2. HistoryInv'
  BY DEF HistoryInv
<1>3. AskedInv'
  BY DEF MInv, AskedInv, EchoInv
<1>4. LoadedIsProven' /\ UnloadConfirmed'
  BY AnswerStands DEF MInv
<1> QED BY <1>1, <1>2, <1>3, <1>4 DEF MInv

(* A request after which the call goes on, without a new instance.         *)
LEMMA GoOnKeepsMInv ==
  ASSUME MInv, pc # "idle", UNCHANGED <<inst, past, idle, answer>>,
         ShapeInv', KindInv', AskedInv'
  PROVE MInv'
<1>1. HistoryInv'
  BY DEF MInv, HistoryInv
<1>2. LoadedIsProven' /\ UnloadConfirmed'
  BY AnswerStands DEF MInv
<1> QED BY <1>1, <1>2 DEF MInv

LEMMA ReturnKeepsMInv ==
  ASSUME MInv, NEW ok, NEW id, Return(ok, id), LoadedIsProven', UnloadConfirmed'
  PROVE MInv'
<1>1. pc' = "idle" /\ call' = NoCall /\ UNCHANGED <<inst, past, idle>>
  BY DEF Return
<1>2. ShapeInv' /\ KindInv'
  BY <1>1 DEF ShapeInv, KindInv, NoCall, LoadLabels, UnloadLabels
<1>3. HistoryInv'
  BY <1>1 DEF MInv, HistoryInv
<1>4. AskedInv'
  BY <1>1 DEF AskedInv, LoadLabels
<1> QED BY <1>2, <1>3, <1>4 DEF MInv

(* A refusal, and an answer about anything but a load or an unload, is     *)
(* never wrong.                                                            *)
LEMMA RefusalKeepsMInv ==
  ASSUME MInv, NEW ok, NEW id, Return(ok, id), ~ok \/ call.kind \notin {"load", "unload"}
  PROVE MInv'
<1>1. answer'.ok = ok /\ answer'.kind = call.kind
  BY DEF Return
<1>2. LoadedIsProven' /\ UnloadConfirmed'
  BY <1>1 DEF LoadedIsProven, UnloadConfirmed
<1> QED BY <1>2, ReturnKeepsMInv

(* Nothing is loaded: that is so now, and this is a moment of the call.    *)
LEMMA EmptyIsConfirmed ==
  ASSUME MInv, pc \in UnloadLabels, inst = << >>, Return(TRUE, << >>)
  PROVE MInv'
<1>1. call.kind = "unload" /\ idle /\ idle' = idle /\ answer'.kind = call.kind
  BY DEF MInv, KindInv, HistoryInv, UnloadLabels, Return
<1>2. LoadedIsProven' /\ UnloadConfirmed'
  BY <1>1 DEF LoadedIsProven, UnloadConfirmed
<1> QED BY <1>2, ReturnKeepsMInv

(* What a listing and the echo prove of an instance.                       *)
WasAskedFor(i, name, rt) ==
    /\ i \in past
    /\ SameModel(Identities[i.row], IF rt.key # << >> THEN rt.key ELSE name)
    /\ rt.ctx # 0 => i.ctx = rt.ctx
    /\ rt.spec # Absent => i.spec \in {Absent, rt.spec}
    /\ rt.kv # Absent => {i.k, i.v} \subseteq {Absent, rt.kv}
    /\ rt.spec # Absent => \E j \in past : j.id = i.id /\ j.spec = rt.spec

LEMMA ProofIsProof ==
  ASSUME MInv, NEW rt, RegistryRead(rt), NEW name, MustProve(name, rt),
         NEW id, NEW echo, id = << >> => echo = NoEcho,
         id # << >> => \E j \in past : j.id = id /\ EchoOf(echo, j),
         NEW i \in Bound(Seen, name, id, rt.key), Proves(rt, i, echo)
  PROVE WasAskedFor(i, name, rt)
<1> DEFINE wanted == IF rt.key = << >> THEN name ELSE rt.key
<1>1. i \in Seen /\ IsModel(wanted, Identities[i.row]) /\ (id = << >> \/ i.id = id)
  BY DEF Bound, Matching
<1>2. i \in past
  <2>1. i \in List
    BY <1>1 DEF Seen
  <2> QED BY <2>1 DEF MInv, HistoryInv, List
<1>3. Complete(wanted)
  BY DEF RegistryRead, Valid, MustProve, NoRuntime
<1>4. SameModel(Identities[i.row], wanted)
  BY <1>1, <1>3 DEF IsModel, SameModel
<1>5. rt.ctx # 0 => i.ctx = rt.ctx
  BY DEF Proves
<1>6. SpecAgree(rt.spec, {Echo(i), echo}) /\ KvAgree(rt.kv, {Echo(i), echo})
  BY DEF Proves
<1>7. ASSUME rt.spec # Absent
      PROVE i.spec \in {Absent, rt.spec} /\ \E j \in past : j.id = i.id /\ j.spec = rt.spec
  <2>1. {r.spec : r \in {Echo(i), echo}} \ {Absent} = {rt.spec}
    BY <1>6, <1>7 DEF SpecAgree
  <2>2. Echo(i).spec = i.spec
    BY DEF Echo
  <2>3. i.spec \in {Absent, rt.spec}
    BY <2>1, <2>2
  <2>4. i.spec = rt.spec \/ echo.spec = rt.spec
    BY <2>1, <2>2
  <2>5. CASE i.spec = rt.spec
    BY <2>3, <2>5, <1>2
  <2>6. CASE i.spec # rt.spec
    <3>1. echo.spec = rt.spec /\ NoEcho.spec = Absent
      BY <2>4, <2>6 DEF NoEcho
    <3>2. id # << >>
      BY <3>1, <1>7
    <3>3. PICK j \in past : j.id = id /\ EchoOf(echo, j)
      BY <3>2
    <3>4. echo.spec = j.spec
      BY <3>1, <3>3, <1>7 DEF EchoOf, Echo
    <3> QED BY <1>1, <2>3, <3>1, <3>2, <3>3, <3>4
  <2> QED BY <2>5, <2>6
<1>8. ASSUME rt.kv # Absent PROVE {i.k, i.v} \subseteq {Absent, rt.kv}
  <2>1. Echo(i).k = i.k /\ Echo(i).v = i.v
    BY DEF Echo
  <2> QED BY <1>6, <1>8, <2>1 DEF KvAgree, KvSeen
<1> QED BY <1>2, <1>4, <1>5, <1>7, <1>8 DEF WasAskedFor

LEMMA AcceptedIsProven ==
  ASSUME MInv, pc \in LoadLabels, NEW id, NEW echo, id = << >> => echo = NoEcho,
         id # << >> => \E j \in past : j.id = id /\ EchoOf(echo, j),
         AnswerIf(Good(Bound(Seen, call.name, id, call.rt.key), echo))
  PROVE MInv'
<1> DEFINE bound == Bound(Seen, call.name, id, call.rt.key)
           good == Good(bound, echo)
<1>1. CASE Cardinality(good) # 1
  BY <1>1, RefusalKeepsMInv DEF AnswerIf
<1>2. CASE Cardinality(good) = 1
  <2>1. good # {}
    <3>1. Cardinality({}) = 0
      BY FS_EmptySet
    <3> HIDE DEF good
    <3> SUFFICES ASSUME good = {} PROVE FALSE
      OBVIOUS
    <3> QED BY <1>2, <3>1
  <2>2. PICK i \in good : TRUE
    BY <2>1
  <2>3. i \in bound /\ Proves(call.rt, i, echo)
    BY <2>2 DEF Good
  <2>4. Return(TRUE, i.id)
    BY <1>2, <2>2 DEF AnswerIf
  <2>5. RegistryRead(call.rt)
    BY DEF MInv, AskedInv
  <2>6. answer' = [kind |-> call.kind, ok |-> TRUE, id |-> i.id, name |-> call.name, rt |-> call.rt]
        /\ past' = past
    BY <2>4 DEF Return
  <2>7. LoadedIsProven'
    <3> SUFFICES ASSUME MustProve(call.name, call.rt)
                 PROVE LoadedIsProven'
      BY <2>6 DEF LoadedIsProven
    <3> HIDE DEF bound, good
    <3>1. WasAskedFor(i, call.name, call.rt)
      BY <2>3, <2>5, ProofIsProof DEF bound
    <3> QED BY <2>6, <3>1 DEF LoadedIsProven, WasAskedFor
  <2>8. UnloadConfirmed'
    BY <2>6 DEF UnloadConfirmed, MInv, KindInv
  <2> QED BY <2>4, <2>7, <2>8, ReturnKeepsMInv
<1> QED BY <1>1, <1>2

LEMMA InitMInv == MInit => MInv
<1> SUFFICES ASSUME MInit PROVE MInv
  OBVIOUS
<1>1. inst = << >> /\ pc = "idle" /\ call = NoCall /\ answer = NoAnswer
  BY DEF MInit
<1>2. ShapeInv /\ KindInv /\ AskedInv
  BY <1>1 DEF ShapeInv, KindInv, AskedInv, NoCall, LoadLabels, UnloadLabels
<1>4. HistoryInv
  BY <1>1, EmptySeq DEF HistoryInv
<1>3. LoadedIsProven /\ UnloadConfirmed
  BY <1>1 DEF LoadedIsProven, UnloadConfirmed, NoAnswer
<1> QED BY <1>2, <1>3, <1>4 DEF MInv

LEMMA BeginKeepsMInv ==
  ASSUME MInv, NEW c, NEW label, Begin(c, label),
         c = [kind |-> c.kind, name |-> c.name, rt |-> c.rt, attempt |-> c.attempt, left |-> c.left],
         \/ c.kind = "load" /\ label = "post" /\ RegistryRead(c.rt)
         \/ c.kind = "load" /\ label = "refuse"
         \/ c.kind = "unload" /\ label = "list"
         \/ c.kind \in {"current", "wait"} /\ label = c.kind
  PROVE MInv'
<1>1. /\ call' = c /\ pc' = label /\ answer' = NoAnswer
      /\ past' = List /\ inst' = inst /\ idle' = (inst = << >>)
  BY DEF Begin, server
<1>2. ShapeInv'
  BY <1>1 DEF ShapeInv
<1>3. KindInv'
  BY <1>1 DEF KindInv, LoadLabels, UnloadLabels
<1>4. HistoryInv'
  <2>1. inst \in Seq(List)
    <3>1. inst \in [1..Len(inst) -> past] /\ Len(inst) \in Nat /\ DOMAIN inst = 1..Len(inst)
      BY LenProperties DEF MInv, HistoryInv
    <3>2. inst \in [1..Len(inst) -> List]
      BY <3>1 DEF List
    <3> QED BY <3>1, <3>2, SeqDef
  <2> QED BY <1>1, <2>1 DEF HistoryInv
<1>5. AskedInv'
  BY <1>1 DEF AskedInv, LoadLabels
<1>6. LoadedIsProven' /\ UnloadConfirmed'
  BY <1>1 DEF LoadedIsProven, UnloadConfirmed, NoAnswer
<1> QED BY <1>2, <1>3, <1>4, <1>5, <1>6 DEF MInv

(* The call records of load_model and wait_ready, field by field.          *)
LEMMA LoadCall ==
  ASSUME NEW name, NEW rt
  PROVE [NoCall EXCEPT !.kind = "load", !.name = name, !.rt = rt]
        = [kind |-> "load", name |-> name, rt |-> rt, attempt |-> 1, left |-> << >>]
<1> DEFINE one == [NoCall EXCEPT !.kind = "load"]
           two == [one EXCEPT !.name = name]
           three == [two EXCEPT !.rt = rt]
<1>1. one = [kind |-> "load", name |-> << >>, rt |-> NoRuntime, attempt |-> 1, left |-> << >>]
  BY DEF NoCall
<1> HIDE DEF one
<1>2. two = [kind |-> "load", name |-> name, rt |-> NoRuntime, attempt |-> 1, left |-> << >>]
  BY <1>1
<1> HIDE DEF two
<1>3. three = [kind |-> "load", name |-> name, rt |-> rt, attempt |-> 1, left |-> << >>]
  BY <1>2
<1>4. [NoCall EXCEPT !.kind = "load", !.name = name, !.rt = rt] = three
  BY DEF one, two
<1> QED BY <1>3, <1>4

LEMMA WaitCall ==
  ASSUME NEW left
  PROVE [NoCall EXCEPT !.kind = "wait", !.left = left]
        = [kind |-> "wait", name |-> << >>, rt |-> NoRuntime, attempt |-> 1, left |-> left]
<1> DEFINE one == [NoCall EXCEPT !.kind = "wait"]
<1>1. one = [kind |-> "wait", name |-> << >>, rt |-> NoRuntime, attempt |-> 1, left |-> << >>]
  BY DEF NoCall
<1> HIDE DEF one
<1>2. [one EXCEPT !.left = left]
      = [kind |-> "wait", name |-> << >>, rt |-> NoRuntime, attempt |-> 1, left |-> left]
  BY <1>1
<1> QED BY <1>2 DEF one

LEMMA CallsKeepMInv == MInv /\ Calls => MInv'
<1> SUFFICES ASSUME MInv, Calls PROVE MInv'
  OBVIOUS
<1>1. ASSUME BeginLoad PROVE MInv'
  <2>1. PICK name \in Requests :
          Begin([NoCall EXCEPT !.kind = "load", !.name = name, !.rt = Runtime(name)],
                IF Valid(Runtime(name)) THEN "post" ELSE "refuse")
    BY <1>1 DEF BeginLoad
  <2> DEFINE c == [NoCall EXCEPT !.kind = "load", !.name = name, !.rt = Runtime(name)]
  <2>2. c = [kind |-> "load", name |-> name, rt |-> Runtime(name), attempt |-> 1, left |-> << >>]
    BY LoadCall
  <2>3. CASE Valid(Runtime(name))
    <3>1. Begin(c, "post") /\ RegistryRead(Runtime(name))
      BY <2>1, <2>3, RuntimeIsRead
    <3> QED BY <2>2, <3>1, BeginKeepsMInv
  <2>4. CASE ~Valid(Runtime(name))
    <3>1. Begin(c, "refuse")
      BY <2>1, <2>4
    <3> QED BY <2>2, <3>1, BeginKeepsMInv
  <2> QED BY <2>3, <2>4
<1>2. ASSUME BeginUnload PROVE MInv'
  <2> DEFINE c == [NoCall EXCEPT !.kind = "unload"]
  <2>1. c = [kind |-> "unload", name |-> << >>, rt |-> NoRuntime, attempt |-> 1, left |-> << >>]
    BY DEF NoCall
  <2> QED BY <1>2, <2>1, BeginKeepsMInv DEF BeginUnload
<1>3. ASSUME BeginCurrent PROVE MInv'
  <2> DEFINE c == [NoCall EXCEPT !.kind = "current"]
  <2>1. c = [kind |-> "current", name |-> << >>, rt |-> NoRuntime, attempt |-> 1, left |-> << >>]
    BY DEF NoCall
  <2> QED BY <1>3, <2>1, BeginKeepsMInv DEF BeginCurrent
<1>4. ASSUME BeginWait PROVE MInv'
  <2> DEFINE c == [NoCall EXCEPT !.kind = "wait", !.left = [n \in 1..MaxPolls |-> n]]
  <2>1. c = [kind |-> "wait", name |-> << >>, rt |-> NoRuntime, attempt |-> 1,
             left |-> [n \in 1..MaxPolls |-> n]]
    BY WaitCall
  <2> QED BY <1>4, <2>1, BeginKeepsMInv DEF BeginWait
<1> QED BY <1>1, <1>2, <1>3, <1>4 DEF Calls

LEMMA OthersStepKeepsMInv == MInv /\ Others => MInv'
<1> SUFFICES ASSUME MInv, Others PROVE MInv'
  OBVIOUS
<1> USE DEF MInv
<1>1. ASSUME ServerLoads PROVE MInv'
  <2>1. PICK m \in Served(call.name), d \in Defaults :
          LET i == Instance(m, call.rt.ctx, d) IN
          /\ Room(m) /\ Loaded(i)
          /\ \E echo \in {NoEcho, Echo(i), [Echo(i) EXCEPT !.k = Absent]} :
               reply' = [status |-> "loaded", id |-> i.id, echo |-> echo]
    BY <1>1 DEF ServerLoads
  <2> DEFINE i == Instance(m, call.rt.ctx, d)
  <2>2. pc = "post" /\ call' = call /\ answer' = answer
        /\ pc' = IF MustProve(call.name, call.rt) THEN "prove" ELSE "trust"
    BY <1>1 DEF ServerLoads, Goto
  <2>3. past \subseteq past' /\ i \in past' /\ idle' = idle /\ inst' \in Seq(past') /\ inst' # << >>
    BY <2>1, LoadedGrows
  <2>4. i.id = FreshId(m) /\ FreshId(m) # << >>
    BY <2>1 DEF Instance, Room
  <2>5. PICK echo : EchoOf(echo, i) /\ reply' = [status |-> "loaded", id |-> i.id, echo |-> echo]
    BY <2>1 DEF EchoOf
  <2> HIDE DEF i
  <2>6. EchoInv'
    BY <2>3, <2>4, <2>5 DEF EchoInv
  <2>7. AskedInv'
    BY <2>2, <2>6 DEF AskedInv, LoadLabels
  <2>8. ShapeInv' /\ KindInv'
    BY <2>2 DEF ShapeInv, KindInv, LoadLabels, UnloadLabels
  <2>9. HistoryInv'
    BY <2>3 DEF HistoryInv
  <2>10. LoadedIsProven' /\ UnloadConfirmed'
    BY <2>2, <2>3, AnswerStands
  <2> QED BY <2>7, <2>8, <2>9, <2>10
<1>2. ASSUME ServerRefuses \/ LoadTimesOut \/ PostFails PROVE MInv'
  <2>1. /\ pc = "post" /\ pc' \in {"accept", "nothing"} /\ call' = call
        /\ UNCHANGED <<inst, past, idle, answer>>
    BY <1>2 DEF ServerRefuses, LoadTimesOut, PostFails, Goto, server, history
  <2>2. ShapeInv' /\ KindInv' /\ AskedInv'
    BY <2>1 DEF ShapeInv, KindInv, AskedInv, LoadLabels, UnloadLabels
  <2> QED BY <2>1, <2>2, GoOnKeepsMInv
<1>3. ASSUME UserLoadsModel PROVE MInv'
  <2>1. PICK u \in UserLoads : Loaded(Instance(u.row, u.ctx, u))
    BY <1>3 DEF UserLoadsModel
  <2>2. UNCHANGED <<pc, call, reply, answer>>
    BY <1>3 DEF UserLoadsModel
  <2> QED BY <2>1, <2>2, LoadedGrows, OthersKeepMInv
<1>4. ASSUME UserUnloadsModel PROVE MInv'
  <2>1. PICK n \in DOMAIN inst : SetInst(RemoveAt(inst, n))
    BY <1>4 DEF UserUnloadsModel
  <2>2. RemoveAt(inst, n) \in Seq(past)
    BY RemoveAtIsSeq DEF HistoryInv
  <2>3. UNCHANGED <<pc, call, reply, answer>>
    BY <1>4 DEF UserUnloadsModel
  <2> QED BY <2>1, <2>2, <2>3, SetGrows, OthersKeepMInv
<1>5. ASSUME ServerChanges PROVE MInv'
  <2>1. UNCHANGED <<pc, call, reply, answer>>
    BY <1>5 DEF ServerChanges
  <2>2. SetInst(<< >>) \/ UNCHANGED <<inst, past, idle>>
    BY <1>5 DEF ServerChanges
  <2>3. << >> \in Seq(past)
    BY EmptySeq
  <2>4. CASE SetInst(<< >>)
    BY <2>1, <2>3, <2>4, SetGrows, OthersKeepMInv
  <2>5. CASE UNCHANGED <<inst, past, idle>>
    BY <2>1, <2>5, OthersKeepMInv DEF HistoryInv
  <2> QED BY <2>2, <2>4, <2>5
<1>6. ASSUME LateLoad PROVE MInv'
  <2>1. UNCHANGED <<pc, call, reply, answer>>
    BY <1>6 DEF LateLoad
  <2>2. (\E i : Loaded(i)) \/ UNCHANGED <<inst, past, idle>>
    BY <1>6 DEF LateLoad
  <2>3. ASSUME NEW i, Loaded(i) PROVE MInv'
    BY <2>1, <2>3, LoadedGrows, OthersKeepMInv
  <2>4. CASE UNCHANGED <<inst, past, idle>>
    BY <2>1, <2>4, OthersKeepMInv DEF HistoryInv
  <2> QED BY <2>2, <2>3, <2>4
<1> QED BY <1>1, <1>2, <1>3, <1>4, <1>5, <1>6 DEF Others

LEMMA LoadStepKeepsMInv ==
  ASSUME MInv, Refuse \/ Prove \/ Trust \/ Accept \/ Nothing
  PROVE MInv'
<1> USE DEF MInv
<1>1. CASE Refuse
  BY <1>1, RefusalKeepsMInv DEF Refuse
<1>2. CASE Prove
  <2>1. pc \in LoadLabels /\ EchoInv
    BY <1>2 DEF Prove, AskedInv, LoadLabels
  <2>2. AnswerIf(Good(Bound(Seen, call.name, reply.id, call.rt.key), reply.echo))
    BY <1>2 DEF Prove
  <2> QED BY <2>1, <2>2, AcceptedIsProven DEF EchoInv
<1>3. CASE Trust
  <2>1. ~MustProve(call.name, call.rt) /\ call.kind = "load"
    BY <1>3 DEF Trust, AskedInv, KindInv, LoadLabels
  <2>2. Return(TRUE, reply.id) \/ Return(FALSE, << >>)
    BY <1>3 DEF Trust
  <2>3. answer'.kind = "load" /\ answer'.name = call.name /\ answer'.rt = call.rt
    BY <2>1, <2>2 DEF Return
  <2>4. LoadedIsProven' /\ UnloadConfirmed'
    BY <2>1, <2>3 DEF LoadedIsProven, UnloadConfirmed
  <2> QED BY <2>2, <2>4, ReturnKeepsMInv
<1>4. CASE Accept
  <2>1. pc \in LoadLabels
    BY <1>4 DEF Accept, LoadLabels
  <2>2. AnswerIf(Good(Bound(Seen, call.name, << >>, call.rt.key), NoEcho))
    BY <1>4 DEF Accept
  <2> QED BY <2>1, <2>2, AcceptedIsProven
<1>5. CASE Nothing
  <2>1. pc = "nothing"
    BY <1>5 DEF Nothing
  <2>2. CASE Return(FALSE, << >>)
    BY <2>2, RefusalKeepsMInv
  <2>3. CASE Goto("probe") /\ UNCHANGED <<server, history, reply, call, moves, calls>>
    <3>1. pc' = "probe" /\ call' = call /\ UNCHANGED <<inst, past, idle, answer>>
      BY <2>3 DEF Goto, server, history
    <3>2. ShapeInv' /\ KindInv' /\ AskedInv'
      BY <2>1, <3>1 DEF ShapeInv, KindInv, AskedInv, LoadLabels, UnloadLabels
    <3> QED BY <2>1, <3>1, <3>2, GoOnKeepsMInv
  <2> QED BY <1>5, <2>2, <2>3 DEF Nothing
<1> QED BY <1>1, <1>2, <1>3, <1>4, <1>5

(* A step that changes at most how far the call is.                        *)
LEMMA ProgressKeepsMInv ==
  ASSUME MInv, pc # "idle", UNCHANGED <<inst, past, idle, answer>>,
         NEW attempt, NEW left, call' = [call EXCEPT !.attempt = attempt, !.left = left],
         \/ pc \in LoadLabels /\ pc' \in LoadLabels \ {"trust", "prove"}
         \/ pc \in UnloadLabels /\ pc' \in UnloadLabels
         \/ pc = "wait" /\ pc' = "wait"
  PROVE MInv'
<1>1. call' = [kind |-> call.kind, name |-> call.name, rt |-> call.rt, attempt |-> attempt, left |-> left]
  <2> DEFINE one == [call EXCEPT !.attempt = attempt]
  <2>1. one = [kind |-> call.kind, name |-> call.name, rt |-> call.rt,
               attempt |-> attempt, left |-> call.left]
    BY DEF MInv, ShapeInv
  <2> HIDE DEF one
  <2>2. [one EXCEPT !.left = left]
        = [kind |-> call.kind, name |-> call.name, rt |-> call.rt, attempt |-> attempt, left |-> left]
    BY <2>1
  <2> QED BY <2>2 DEF one
<1>2. ShapeInv'
  BY <1>1 DEF ShapeInv
<1>3. KindInv'
  BY <1>1 DEF MInv, KindInv, LoadLabels, UnloadLabels
<1>4. AskedInv'
  BY <1>1 DEF MInv, AskedInv, LoadLabels, UnloadLabels
<1> QED BY <1>2, <1>3, <1>4, GoOnKeepsMInv

(* EXCEPT of one field leaves the other as it is.                          *)
LEMMA SameLeft ==
  ASSUME ShapeInv
  PROVE /\ call = [call EXCEPT !.attempt = call.attempt, !.left = call.left]
        /\ \A a : [call EXCEPT !.attempt = a] = [call EXCEPT !.attempt = a, !.left = call.left]
        /\ \A l : [call EXCEPT !.left = l] = [call EXCEPT !.attempt = call.attempt, !.left = l]
<1>1. ASSUME NEW a PROVE [call EXCEPT !.attempt = a] = [call EXCEPT !.attempt = a, !.left = call.left]
  BY DEF ShapeInv
<1>2. ASSUME NEW l PROVE [call EXCEPT !.left = l] = [call EXCEPT !.attempt = call.attempt, !.left = l]
  BY DEF ShapeInv
<1>3. call = [call EXCEPT !.attempt = call.attempt, !.left = call.left]
  BY DEF ShapeInv
<1> QED BY <1>1, <1>2, <1>3

LEMMA StartStepKeepsMInv ==
  ASSUME MInv, Probe \/ StartServer \/ Reprobe \/ Llmster
  PROVE MInv'
<1>1. pc \in {"probe", "start", "reprobe", "llmster"}
  BY DEF Probe, StartServer, Reprobe, Llmster
<1>2. ASSUME Return(FALSE, << >>) PROVE MInv'
  BY <1>2, RefusalKeepsMInv
<1>3. ASSUME ~Return(FALSE, << >>)
      PROVE /\ pc' \in LoadLabels \ {"trust", "prove"} /\ UNCHANGED <<inst, past, idle, answer>>
            /\ \/ call' = call
               \/ call' = [call EXCEPT !.attempt = 2]
               \/ \E l : call' = [call EXCEPT !.left = l]
               \/ \E l : call' = [call EXCEPT !.attempt = 2, !.left = l]
  <2>1. CASE Probe
    BY <1>3, <2>1 DEF Probe, Retry, Goto, LoadLabels, server, history
  <2>2. CASE StartServer
    BY <1>3, <2>2 DEF StartServer, Goto, LoadLabels, history
  <2>3. CASE Reprobe
    BY <1>3, <2>3 DEF Reprobe, Retry, Goto, LoadLabels, server, history
  <2>4. CASE Llmster
    BY <1>3, <2>4 DEF Llmster, Goto, LoadLabels, history
  <2> QED BY <2>1, <2>2, <2>3, <2>4
<1>4. ASSUME ~Return(FALSE, << >>) PROVE MInv'
  <2>1. pc \in LoadLabels /\ pc # "idle"
    BY <1>1 DEF LoadLabels
  <2>2. pc' \in LoadLabels \ {"trust", "prove"} /\ UNCHANGED <<inst, past, idle, answer>>
    BY <1>3, <1>4
  <2>3. ASSUME NEW a, NEW l, call' = [call EXCEPT !.attempt = a, !.left = l] PROVE MInv'
    BY <2>1, <2>2, <2>3, ProgressKeepsMInv
  <2>4. CASE call' = call
    <3>1. call' = [call EXCEPT !.attempt = call.attempt, !.left = call.left]
      BY <2>4, SameLeft DEF MInv
    <3> QED BY <3>1, <2>3
  <2>5. CASE call' = [call EXCEPT !.attempt = 2]
    <3>1. call' = [call EXCEPT !.attempt = 2, !.left = call.left]
      BY <2>5, SameLeft DEF MInv
    <3> QED BY <3>1, <2>3
  <2>6. ASSUME NEW l, call' = [call EXCEPT !.left = l] PROVE MInv'
    <3>1. call' = [call EXCEPT !.attempt = call.attempt, !.left = l]
      BY <2>6, SameLeft DEF MInv
    <3> QED BY <3>1, <2>3
  <2>7. ASSUME NEW l, call' = [call EXCEPT !.attempt = 2, !.left = l] PROVE MInv'
    BY <2>7, <2>3
  <2> QED BY <1>3, <1>4, <2>4, <2>5, <2>6, <2>7
<1> QED BY <1>2, <1>4

LEMMA UnloadStepKeepsMInv ==
  ASSUME MInv, ListLoaded \/ UnloadOne \/ UnloadsSent \/ PollUnload \/ UnloadUnconfirmed
  PROVE MInv'
<1>1. pc \in {"list", "unload", "poll"} /\ pc \in UnloadLabels /\ pc # "idle"
  BY DEF ListLoaded, UnloadOne, UnloadsSent, PollUnload, UnloadUnconfirmed, UnloadLabels
<1>2. ASSUME Return(FALSE, << >>) PROVE MInv'
  BY <1>2, RefusalKeepsMInv
<1>3. ASSUME inst = << >>, Return(TRUE, << >>) PROVE MInv'
  BY <1>1, <1>3, EmptyIsConfirmed
<1>4. ASSUME NEW l, call' = [call EXCEPT !.left = l], pc' \in UnloadLabels,
             UNCHANGED <<inst, past, idle, answer>>
      PROVE MInv'
  BY <1>1, <1>4, SameLeft, ProgressKeepsMInv DEF MInv
<1>5. CASE ListLoaded
  <2>1. CASE call' = [call EXCEPT !.left = [n \in DOMAIN inst |-> inst[n].id]] /\ Goto("unload")
             /\ UNCHANGED <<server, history, reply, moves, calls>>
    BY <2>1, <1>4 DEF Goto, server, history, UnloadLabels
  <2> QED BY <1>2, <1>3, <1>5, <2>1 DEF ListLoaded
<1>6. CASE UnloadOne
  <2>1. /\ call' = [call EXCEPT !.left = Tail(@)] /\ pc' = pc /\ answer' = answer /\ pc = "unload"
        /\ \/ UNCHANGED <<inst, past, idle>>
           \/ \E n \in DOMAIN inst : SetInst(RemoveAt(inst, n))
    BY <1>6 DEF UnloadOne
  <2>2. CASE UNCHANGED <<inst, past, idle>>
    BY <2>1, <2>2, <1>1, <1>4
  <2>3. CASE \E n \in DOMAIN inst : SetInst(RemoveAt(inst, n))
    <3>1. PICK n \in DOMAIN inst : SetInst(RemoveAt(inst, n))
      BY <2>3
    <3>2. RemoveAt(inst, n) \in Seq(past)
      BY RemoveAtIsSeq DEF MInv, HistoryInv
    <3>3. past' = past /\ (idle => idle') /\ inst' \in Seq(past') /\ (inst' = << >> => idle')
      BY <3>1, <3>2, SetGrows DEF MInv
    <3>4. ShapeInv' /\ KindInv'
      BY <2>1 DEF MInv, ShapeInv, KindInv, LoadLabels, UnloadLabels
    <3>5. AskedInv'
      BY <2>1 DEF AskedInv, LoadLabels
    <3>6. HistoryInv'
      BY <3>3 DEF HistoryInv
    <3>7. LoadedIsProven' /\ UnloadConfirmed'
      BY <2>1, <3>3, AnswerStands DEF MInv
    <3> QED BY <3>4, <3>5, <3>6, <3>7 DEF MInv
  <2> QED BY <2>1, <2>2, <2>3
<1>7. CASE UnloadsSent
  BY <1>4, <1>7 DEF UnloadsSent, Goto, server, history, UnloadLabels
<1>8. CASE PollUnload
  <2>1. CASE call' = [call EXCEPT !.left = Tail(@)] /\ Goto("poll")
             /\ UNCHANGED <<server, history, reply, moves, calls>>
    BY <2>1, <1>4 DEF Goto, server, history, UnloadLabels
  <2> QED BY <1>3, <1>8, <2>1 DEF PollUnload
<1>9. CASE UnloadUnconfirmed
  BY <1>2, <1>9 DEF UnloadUnconfirmed
<1> QED BY <1>5, <1>6, <1>7, <1>8, <1>9

LEMMA QueryStepKeepsMInv ==
  ASSUME MInv, Current \/ WaitReady
  PROVE MInv'
<1>1. pc \in {"current", "wait"} /\ call.kind \notin {"load", "unload"}
  BY DEF Current, WaitReady, MInv, KindInv
<1>2. ASSUME NEW ok, NEW id, Return(ok, id) PROVE MInv'
  BY <1>1, <1>2, RefusalKeepsMInv
<1>3. CASE Current
  BY <1>2, <1>3 DEF Current
<1>4. CASE WaitReady
  <2>1. CASE call' = [call EXCEPT !.left = Tail(@)] /\ Goto("wait")
             /\ UNCHANGED <<server, history, reply, moves, calls>>
    <3>1. pc = "wait" /\ pc' = "wait" /\ UNCHANGED <<inst, past, idle, answer>>
      BY <1>4, <2>1 DEF WaitReady, Goto, server, history
    <3>2. call' = [call EXCEPT !.attempt = call.attempt, !.left = Tail(call.left)]
      BY <2>1, SameLeft DEF MInv
    <3> QED BY <3>1, <3>2, ProgressKeepsMInv
  <2> QED BY <1>2, <1>4, <2>1 DEF WaitReady
<1> QED BY <1>3, <1>4

LEMMA NextMInv == MInv /\ [MNext]_mvars => MInv'
<1> SUFFICES ASSUME MInv, [MNext]_mvars PROVE MInv'
  OBVIOUS
<1>1. CASE Provider
  BY <1>1, LoadStepKeepsMInv, StartStepKeepsMInv, UnloadStepKeepsMInv, QueryStepKeepsMInv DEF Provider
<1>2. CASE Calls
  BY <1>2, CallsKeepMInv
<1>3. CASE Others
  BY <1>3, OthersStepKeepsMInv
<1>4. CASE UNCHANGED mvars
  <2>1. UNCHANGED <<pc, call, reply, answer, inst, past, idle>>
    BY <1>4 DEF mvars
  <2> QED BY <2>1, OthersKeepMInv DEF MInv, HistoryInv
<1> QED BY <1>1, <1>2, <1>3, <1>4 DEF MNext, Done

LEMMA MInvAlways == MSpec => []MInv
  BY InitMInv, NextMInv, PTL DEF MSpec

(* For any catalog, registry, requests and servers, and however often      *)
(* others load and unload: what load_model reports as loaded was on the    *)
(* server as the registry asks for it (lines 633-725).                     *)
THEOREM LoadedOnlyWhenProven == MSpec => []LoadedIsProven
<1>1. MInv => LoadedIsProven
  BY DEF MInv
<1> QED BY <1>1, MInvAlways, PTL

(* For any number of polls: unload_all reports success only if the server  *)
(* was without an instance at a moment of the call (lines 727-758).        *)
THEOREM UnloadedOnlyWhenEmpty == MSpec => []UnloadConfirmed
<1>1. MInv => UnloadConfirmed
  BY DEF MInv
<1> QED BY <1>1, MInvAlways, PTL

-----------------------------------------------------------------------------
(* What LM Studio offers is recognised: by the listing and by the registry.*)

(* What is offered is a name, and the quant of the key is left in it or    *)
(* replaced by a better one.                                               *)
LEMMA NameIsSeq == ASSUME NEW s, IsName(s) PROVE \E S : s \in Seq(S)
  BY DEF IsName

LEMMA OfferedIsName ==
  ASSUME NEW row \in ToSet(Catalog)
  PROVE /\ IsName(OfferedKey(row))
        /\ \E S : row.key \in Seq(S) /\ row.pub \in Seq(S) /\ row.variant \in Seq(S)
<1>1. row.key \in Seq(STRING) /\ row.pub \in Seq(STRING) /\ row.variant \in Seq(STRING)
  BY CatalogAssumption DEF ToSet, CatalogAssumption
<1>2. ASSUME NEW q, NEW base, base \in Seq(STRING) PROVE IsName(PlainKey(base, q))
  BY <1>2, SeqIsName, QuantIsNoBase DEF PlainKey
<1>3. Base(row.key) \in Seq(STRING)
  BY <1>1, BaseIsBase
<1>4. IsName(row.variant)
  BY <1>1, SeqIsName
<1> QED BY <1>1, <1>2, <1>3, <1>4 DEF OfferedKey

(* The identity that a row's fields give is its full name.                 *)
OwnBase(ref, pub) == IF pub = << >> \/ PublisherOf(ref) = pub THEN Base(ref) ELSE Owned(pub, Base(ref))

LEMMA OwnBaseIsName ==
  ASSUME NEW S, NEW ref \in Seq(S), NEW pub \in Seq(S)
  PROVE \E T : OwnBase(ref, pub) \in Seq(T)
<1>1. PICK slash : slash = "/"
  OBVIOUS
<1>2. PICK T : T = S \cup {slash}
  OBVIOUS
<1>3. ref \in Seq(T) /\ pub \in Seq(T) /\ <<slash>> \in Seq(T)
  BY <1>2, SeqMonotonic
<1>4. Base(ref) \in Seq(T)
  BY <1>3, BaseIsBase
<1>5. pub \o <<slash>> \in Seq(T)
  BY <1>3, ConcatProperties
<1>6. (pub \o <<slash>>) \o Base(ref) \in Seq(T)
  BY <1>4, <1>5, ConcatProperties
<1>7. OwnBase(ref, pub) \in Seq(T)
  BY <1>1, <1>4, <1>6 DEF OwnBase, Owned
<1> QED BY <1>7

LEMMA RecognisedIdentity ==
  ASSUME NEW row \in ToSet(Catalog), Recognised(row)
  PROVE RowIdentity(row) = FullName(row)
<1> DEFINE name == OfferedKey(row)
           full == FullName(row)
           ref  == IF row.variant = << >> THEN row.key ELSE row.variant
           q    == QuantOf(name)
           B    == OwnBase(name, row.pub)
<1>1. PICK S : name \in Seq(S)
  BY OfferedIsName, NameIsSeq
<1>2. PICK T : row.pub \in Seq(T)
  BY OfferedIsName
<1>3. Base(Base(name)) = Base(name) /\ QuantOf(Base(name)) = Absent
  BY <1>1, BaseIsBase
<1>4. row.key \in {name, Base(name)} /\ ref \in {name, Base(name)}
  BY DEF Recognised
<1>5. row.quant = q /\ NormQuant(q) = q /\ q \notin Unknown /\ QuantOf(full) = q
  BY DEF Recognised
<1>6. NormQuant(Absent) = Absent /\ Absent \in Unknown
  BY AliasAssumption DEF NormQuant, AliasAssumption, Unknown
<1>7. ASSUME NEW r \in {name, Base(name)}
      PROVE Base(r) = Base(name) /\ PublisherOf(r) = PublisherOf(name) /\ QuantOf(r) \in {q, Absent}
            /\ OwnBase(r, row.pub) = B
  BY <1>3 DEF PublisherOf, OwnBase
<1>8. ASSUME NEW r \in {name, Base(name)}
      PROVE /\ Canonical(r, row.pub, Absent) \in {WithQuant(B, q), WithQuant(B, Absent)}
            /\ Canonical(r, row.pub, q) = WithQuant(B, q)
  <2>1. NormQuant(QuantOf(r)) \in {q, Absent}
    BY <1>5, <1>6, <1>7
  <2>2. q # Absent
    BY <1>5, <1>6
  <2> QED BY <1>5, <1>7, <2>1, <2>2 DEF Canonical, OwnBase
<1>9. full = WithQuant(B, q)
  BY <1>5, <1>7 DEF FullName, Canonical, OwnBase
<1>10. SameBase(Canonical(row.key, row.pub, Absent), Canonical(ref, row.pub, Absent))
  <2>1. PICK U : U = S \cup T
    OBVIOUS
  <2>2. name \in Seq(U) /\ row.pub \in Seq(U)
    BY <1>1, <1>2, <2>1, SeqMonotonic
  <2>3. PICK V : B \in Seq(V)
    BY <2>2, OwnBaseIsName
  <2>4. Base(WithQuant(B, q)) = Base(B) /\ Base(WithQuant(B, Absent)) = Base(B)
    BY <2>3, QuantIsNoBase
  <2>5. Base(Canonical(row.key, row.pub, Absent)) = Base(B) /\ Base(Canonical(ref, row.pub, Absent)) = Base(B)
    BY <1>4, <1>8, <2>4
  <2> QED BY <2>5 DEF SameBase
<1> DEFINE quants == {NormQuant(x) : x \in {row.quant, QuantOf(ref), QuantOf(row.key)}} \ Unknown
<1>11. quants = {q}
  <2>1. QuantOf(ref) \in {q, Absent} /\ QuantOf(row.key) \in {q, Absent}
    BY <1>4, <1>7
  <2> QED BY <1>5, <1>6, <2>1
<1>12. Cardinality({q}) = 1 /\ Cardinality({full}) = 1
  BY FS_Singleton
<1>13. TheOne(quants, Absent) = q
  BY <1>11, <1>12 DEF TheOne
<1>14. InRegistry(full) = full
  <2>1. SameModel(full, full)
    BY <1>5 DEF SameModel, Recognised
  <2>2. {k \in DOMAIN Entries : SameModel(full, k)} = {full}
    BY <2>1 DEF SameModel, Recognised
  <2> QED BY <1>12, <2>2 DEF InRegistry, TheOne
<1>16. RowIdentity(row) = ByReference(row, ref)
  BY DEF RowIdentity
<1>17. ByReference(row, ref) = Consistent(row, ref, quants)
  BY DEF ByReference
<1> HIDE DEF quants
<1>15. Cardinality(quants) = 1
  BY <1>11, <1>12
<1>19. Cardinality(quants) <= 1
  BY <1>15
<1>18. Consistent(row, ref, quants) = InRegistry(Canonical(ref, row.pub, q))
  BY <1>10, <1>13, <1>19 DEF Consistent
<1> QED BY <1>4, <1>8, <1>9, <1>14, <1>16, <1>17, <1>18

(* The name it is offered by finds the entry of its full name, and no      *)
(* other.                                                                  *)
LEMMA RecognisedRuntime ==
  ASSUME NEW row \in ToSet(Catalog), Recognised(row)
  PROVE /\ Runtime(OfferedKey(row)) = RuntimeOf(FullName(row), Entries[FullName(row)])
        /\ FullName(row) # << >> /\ Complete(FullName(row))
<1> DEFINE name == OfferedKey(row)
           full == FullName(row)
           C == Candidates(name, DOMAIN Entries)
           stages == Stages(name, C)
           m == Resolve(name, DOMAIN Entries)
<1>1. /\ QuantOf(full) = QuantOf(name) /\ NormQuant(QuantOf(name)) = QuantOf(name) /\ QuantOf(name) # Absent
      /\ full \in DOMAIN Entries /\ Complete(full)
      /\ \A o \in DOMAIN Entries \ {full} : NormIdentity(o) # NormIdentity(full)
  BY DEF Recognised, Unknown
<1>2. full \in C /\ C \subseteq DOMAIN Entries
  BY <1>1 DEF Candidates, OfQuant
<1>3. LastStage(name) \in 2..3
  BY <1>1 DEF LastStage
<1>4. stages[1] = {k \in C : NormIdentity(k) = NormIdentity(name)}
      /\ stages[2] = {k \in C : NormReference(Suffix(k)) = NormReference(name)}
  BY DEF Stages
<1>5. \E n \in 1..2 : stages[n] = {full} /\ \A k \in 1..2 : k < n => stages[k] = {}
  <2>1. CASE SameModel(name, full)
    <3>1. stages[1] = {full}
      BY <1>1, <1>2, <1>4, <2>1 DEF SameModel
    <3> QED BY <3>1
  <2>2. CASE ~SameModel(name, full)
    <3>1. /\ NormIdentity(name) # NormIdentity(full) /\ NormReference(Suffix(full)) = NormReference(name)
          /\ \A o \in DOMAIN Entries \ {full} : NormIdentity(o) # NormIdentity(name)
                                             /\ NormReference(Suffix(o)) # NormReference(name)
      BY <2>2 DEF Recognised
    <3>2. stages[1] = {} /\ stages[2] = {full}
      BY <1>2, <1>4, <3>1
    <3> QED BY <3>2
  <2> QED BY <2>1, <2>2
<1>6. Cardinality({full}) = 1
  BY FS_Singleton
<1> HIDE DEF stages
<1>7. m = [kind |-> "unique", keys |-> {full}]
  <2>1. PICK n \in 1..2 : stages[n] = {full} /\ \A k \in 1..2 : k < n => stages[k] = {}
    BY <1>5
  <2>2. n \in 1..LastStage(name)
    BY <1>3
  <2>3. PICK p \in 1..LastStage(name) :
          /\ stages[p] # {} /\ \A k \in 1..LastStage(name) : k < p => stages[k] = {}
          /\ m = [kind |-> IF Cardinality(stages[p]) = 1 THEN "unique" ELSE "ambiguous", keys |-> stages[p]]
    BY <2>1, <2>2, ResolveIsDecided DEF stages
  <2>4. p = n
    BY <1>3, <2>1, <2>2, <2>3
  <2> QED BY <1>6, <2>1, <2>3, <2>4
<1>8. Unique(m) /\ KeyOf(m) = full
  BY <1>7 DEF Unique, KeyOf
<1> QED BY <1>1, <1>8, EntriesAssumption DEF Runtime, RuntimeFor, EntriesAssumption

(* Whatever of it the server echoes, the instance it loaded as it was      *)
(* asked for is proven.                                                    *)
Right(i, rt) == i.ctx = rt.ctx /\ i.k = rt.kv /\ i.v = rt.kv /\ i.spec = rt.spec

LEMMA RightIsProven ==
  ASSUME NEW rt, rt.kv \in {Absent, "q4_0", "q8_0"}, NEW i, Right(i, rt), NEW echo, EchoOf(echo, i)
  PROVE Proves(rt, i, echo)
<1> DEFINE seen == ({r.k : r \in {Echo(i), echo}} \cup {r.v : r \in {Echo(i), echo}}) \ {Absent}
<1>1. Echo(i).ctx = rt.ctx /\ Echo(i).k = rt.kv /\ Echo(i).v = rt.kv /\ Echo(i).spec = rt.spec
  BY DEF Echo, Right
<1>2. echo.ctx \in {0, rt.ctx} /\ echo.k \in {Absent, rt.kv} /\ echo.v \in {Absent, rt.kv}
      /\ echo.spec \in {Absent, rt.spec}
  BY <1>1 DEF EchoOf, NoEcho, Echo
<1>3. SpecAgree(rt.spec, {Echo(i), echo})
  BY <1>1, <1>2 DEF SpecAgree
<1>4. seen = {rt.kv} \ {Absent}
  BY <1>1, <1>2
<1>5. seen = {} \/ (seen = {rt.kv} /\ rt.kv \in {"q4_0", "q8_0"})
  BY <1>4
<1>6. Cardinality({}) = 0 /\ Cardinality({rt.kv}) = 1
  BY FS_EmptySet, FS_Singleton
<1> HIDE DEF seen
<1>7. Cardinality(seen) <= 1
  <2>1. Cardinality(seen) \in {0, 1}
    BY <1>5, <1>6
  <2> QED BY <2>1
<1>8. KvSeen(rt.kv, seen)
  BY <1>5, <1>7 DEF KvSeen
<1>9. KvAgree(rt.kv, {Echo(i), echo})
  BY <1>8 DEF KvAgree, seen
<1> QED BY <1>2, <1>3, <1>9 DEF Proves, Right

LEMMA RightIsBound ==
  ASSUME NEW m \in DOMAIN Catalog, Recognised(Catalog[m]), NEW i, i.row = m
  PROVE Bound({i}, OfferedKey(Catalog[m]), i.id, FullName(Catalog[m])) = {i}
<1> DEFINE row == Catalog[m]
           name == OfferedKey(row)
           full == FullName(row)
<1>1. row \in ToSet(Catalog)
  BY DEF ToSet
<1>2. Identities[i.row] = full
  BY <1>1, RecognisedIdentity DEF Identities
<1>3. full # << >>
  BY <1>1, RecognisedRuntime
<1>4. IsModel(full, full)
  BY DEF Recognised, IsModel, SameModel
<1>5. ASSUME ~SameModel(name, full) PROVE NamespaceAlias(name, full) /\ NamedBy(name, i)
  BY <1>5 DEF Recognised, NamespaceAlias, NamedBy
<1> QED BY <1>2, <1>3, <1>4, <1>5 DEF Bound, Matching

-----------------------------------------------------------------------------
(* What load_model knows of its call while the server does as it is asked: *)
(* until the request is sent nothing is loaded, and what is loaded then is *)
(* the one instance that was asked for.                                    *)

AsAsked(i, m) ==
    /\ m \in DOMAIN Catalog /\ i.row = m
    /\ OfferedKey(Catalog[m]) = call.name /\ Catalog[m].quant = QuantOf(call.name)
    /\ Right(i, call.rt)
    /\ inst = <<i>> /\ reply.id = i.id /\ EchoOf(reply.echo, i)

CalmInv ==
    (calm /\ call.kind = "load") =>
        /\ srv = "ready" /\ pc \in {"post", "refuse", "prove", "trust"}
        /\ pc \in {"post", "refuse"} => inst = << >>
        /\ pc = "refuse" => ~Valid(call.rt)
        /\ pc \in {"prove", "trust"} => \E m, i : AsAsked(i, m)

OInv ==
    /\ MInv
    /\ call.kind = "load" => call.rt = Runtime(call.name)
    /\ CalmInv /\ OfferedIsAccepted

LEMMA RecognisedIsComplete ==
  ASSUME NEW name, RecognisedName(name)
  PROVE LET rt == Runtime(name)
        IN Valid(rt) /\ MustProve(name, rt) /\ rt.kv \in {Absent, "q4_0", "q8_0"}
<1>1. PICK row \in RowsOf(name) : Recognised(row)
  BY DEF RecognisedName
<1>2. row \in ToSet(Catalog) /\ OfferedKey(row) = name
  BY DEF RowsOf
<1> DEFINE full == FullName(row)
<1>3. Runtime(name) = RuntimeOf(full, Entries[full]) /\ full # << >> /\ Complete(full)
  BY <1>1, <1>2, RecognisedRuntime
<1> HIDE DEF full
<1>4. Runtime(name).key = full /\ Runtime(name).kv = KvPair(Entries[full].k, Entries[full].v)
  BY <1>3 DEF RuntimeOf
<1> QED BY <1>3, <1>4 DEF Valid, MustProve, KvPair

LEMMA AskedIsAccepted ==
  ASSUME OInv, calm, pc = "prove", call.kind = "load", RecognisedName(call.name),
         AnswerIf(Good(Bound(Seen, call.name, reply.id, call.rt.key), reply.echo))
  PROVE answer'.ok
<1>1. PICK m, i : AsAsked(i, m)
  BY DEF OInv, CalmInv
<1> DEFINE row == Catalog[m]
           rt  == Runtime(call.name)
<1>2. m \in DOMAIN Catalog /\ i.row = m /\ OfferedKey(row) = call.name /\ row.quant = QuantOf(call.name)
  BY <1>1 DEF AsAsked
<1>3. Right(i, call.rt) /\ inst = <<i>> /\ reply.id = i.id /\ EchoOf(reply.echo, i)
  BY <1>1 DEF AsAsked
<1>4. row \in ToSet(Catalog) /\ Recognised(row)
  BY <1>2 DEF RecognisedName, RowsOf, ToSet
<1>5. call.rt = rt /\ srv = "ready"
  BY DEF OInv, CalmInv
<1>6. Seen = {i}
  BY <1>3, <1>5 DEF Seen, List
<1>7. call.rt.key = FullName(row)
  BY <1>2, <1>4, <1>5, RecognisedRuntime DEF RuntimeOf
<1>8. Bound(Seen, call.name, reply.id, call.rt.key) = {i}
  <2>1. Bound({i}, OfferedKey(row), i.id, FullName(row)) = {i}
    BY <1>2, <1>4, RightIsBound
  <2> QED BY <2>1, <1>2, <1>3, <1>6, <1>7
<1>9. call.rt.kv \in {Absent, "q4_0", "q8_0"}
  BY <1>5, RecognisedIsComplete
<1>10. Proves(call.rt, i, reply.echo)
  BY <1>3, <1>9, RightIsProven
<1>11. Cardinality({i}) = 1
  BY FS_Singleton
<1>12. Good({i}, reply.echo) = {i}
  BY <1>10, <1>11 DEF Good
<1>13. Return(TRUE, i.id)
  BY <1>8, <1>11, <1>12 DEF AnswerIf
<1> QED BY <1>13 DEF Return

(* When others stepped in, nothing is claimed of the call.                 *)
LEMMA NotCalmKeeps ==
  ASSUME OInv, MInv', ~calm',
         call'.kind = "load" => call.kind = "load" /\ call'.name = call.name /\ call'.rt = call.rt
  PROVE OInv'
<1>1. CalmInv' /\ OfferedIsAccepted'
  BY DEF CalmInv, OfferedIsAccepted
<1> QED BY <1>1 DEF OInv

(* The record of the call keeps what was asked.                            *)
LEMMA OneCall ==
  ASSUME MInv, NEW a, NEW l, call' = [call EXCEPT !.attempt = a, !.left = l]
  PROVE call'.kind = call.kind /\ call'.name = call.name /\ call'.rt = call.rt
<1> DEFINE one == [call EXCEPT !.attempt = a]
<1>1. one = [kind |-> call.kind, name |-> call.name, rt |-> call.rt, attempt |-> a, left |-> call.left]
  BY DEF MInv, ShapeInv
<1>2. call' = [one EXCEPT !.left = l]
  OBVIOUS
<1> HIDE DEF one
<1>3. call' = [kind |-> call.kind, name |-> call.name, rt |-> call.rt, attempt |-> a, left |-> l]
  BY <1>1, <1>2
<1> QED BY <1>3

LEMMA SameCall ==
  ASSUME MInv,
         \/ call' = call
         \/ \E a : call' = [call EXCEPT !.attempt = a]
         \/ \E l : call' = [call EXCEPT !.left = l]
         \/ \E a, l : call' = [call EXCEPT !.attempt = a, !.left = l]
  PROVE call'.kind = call.kind /\ call'.name = call.name /\ call'.rt = call.rt
<1>1. ShapeInv
  BY DEF MInv
<1>2. CASE call' = call
  BY <1>2
<1>3. CASE \E a : call' = [call EXCEPT !.attempt = a]
  <2>1. PICK a : call' = [call EXCEPT !.attempt = a, !.left = call.left]
    BY <1>1, <1>3, SameLeft
  <2> QED BY <2>1, OneCall
<1>4. CASE \E l : call' = [call EXCEPT !.left = l]
  <2>1. PICK l : call' = [call EXCEPT !.attempt = call.attempt, !.left = l]
    BY <1>1, <1>4, SameLeft
  <2>2. PICK a : a = call.attempt
    OBVIOUS
  <2>3. call' = [call EXCEPT !.attempt = a, !.left = l]
    BY <2>1, <2>2
  <2> QED BY <2>3, OneCall
<1>5. CASE \E a, l : call' = [call EXCEPT !.attempt = a, !.left = l]
  <2>1. PICK a, l : call' = [call EXCEPT !.attempt = a, !.left = l]
    BY <1>5
  <2> QED BY <2>1, OneCall
<1> QED BY <1>2, <1>3, <1>4, <1>5

LEMMA ReturnKeepsOInv ==
  ASSUME OInv, MInv', NEW ok, NEW id, Return(ok, id),
         (calm /\ call.kind = "load" /\ RecognisedName(call.name)) => ok
  PROVE OInv'
<1>1. call' = NoCall /\ calm' = calm
      /\ answer' = [kind |-> call.kind, ok |-> ok, id |-> id, name |-> call.name, rt |-> call.rt]
  BY DEF Return
<1>2. call'.kind = "none"
  BY <1>1 DEF NoCall
<1>3. OfferedIsAccepted'
  BY <1>1 DEF OfferedIsAccepted
<1> QED BY <1>2, <1>3 DEF OInv, CalmInv

LEMMA InitOInv == MInit => OInv
<1> SUFFICES ASSUME MInit PROVE OInv
  OBVIOUS
<1>1. call.kind = "none" /\ answer.kind = "none"
  BY DEF MInit, NoCall, NoAnswer
<1> QED BY <1>1, InitMInv DEF OInv, CalmInv, OfferedIsAccepted

LEMMA CallsKeepOInv == OInv /\ MInv' /\ Calls => OInv'
<1> SUFFICES ASSUME OInv, MInv', Calls PROVE OInv'
  OBVIOUS
<1>1. ASSUME NEW c, NEW label, Begin(c, label),
             c.kind = "load" => /\ c.rt = Runtime(c.name) /\ label \in {"post", "refuse"}
                                /\ label = "refuse" => ~Valid(c.rt)
      PROVE OInv'
  <2>1. /\ call' = c /\ pc' = label /\ answer'.kind = "none" /\ srv' = srv /\ inst' = inst
        /\ calm' = (srv = "ready" /\ inst = << >> /\ pend = {})
    BY <1>1 DEF Begin, server, NoAnswer
  <2>2. CalmInv'
    BY <1>1, <2>1 DEF CalmInv
  <2>3. OfferedIsAccepted'
    BY <2>1 DEF OfferedIsAccepted
  <2>4. call'.kind = "load" => call'.rt = Runtime(call'.name)
    BY <1>1, <2>1
  <2> QED BY <2>2, <2>3, <2>4 DEF OInv
<1>2. ASSUME BeginLoad PROVE OInv'
  <2>1. PICK name \in Requests :
          Begin([NoCall EXCEPT !.kind = "load", !.name = name, !.rt = Runtime(name)],
                IF Valid(Runtime(name)) THEN "post" ELSE "refuse")
    BY <1>2 DEF BeginLoad
  <2> DEFINE c == [NoCall EXCEPT !.kind = "load", !.name = name, !.rt = Runtime(name)]
             label == IF Valid(Runtime(name)) THEN "post" ELSE "refuse"
  <2>2. c.rt = Runtime(name) /\ c.name = name
    BY LoadCall
  <2>3. label \in {"post", "refuse"} /\ (label = "refuse" => ~Valid(Runtime(name)))
    OBVIOUS
  <2>4. Begin(c, label)
    BY <2>1
  <2> HIDE DEF c, label
  <2> QED BY <1>1, <2>2, <2>3, <2>4
<1>3. ASSUME BeginUnload PROVE OInv'
  <2>1. [NoCall EXCEPT !.kind = "unload"].kind = "unload"
    BY DEF NoCall
  <2> QED BY <1>1, <1>3, <2>1 DEF BeginUnload
<1>4. ASSUME BeginCurrent PROVE OInv'
  <2>1. [NoCall EXCEPT !.kind = "current"].kind = "current"
    BY DEF NoCall
  <2> QED BY <1>1, <1>4, <2>1 DEF BeginCurrent
<1>5. ASSUME BeginWait PROVE OInv'
  <2>1. [NoCall EXCEPT !.kind = "wait", !.left = [n \in 1..MaxPolls |-> n]].kind = "wait"
    BY WaitCall
  <2> QED BY <1>1, <1>5, <2>1 DEF BeginWait
<1> QED BY <1>2, <1>3, <1>4, <1>5 DEF Calls

LEMMA OthersKeepOInv == OInv /\ MInv' /\ Others => OInv'
<1> SUFFICES ASSUME OInv, MInv', Others PROVE OInv'
  OBVIOUS
<1>1. CASE ServerLoads
  <2>1. PICK m \in Served(call.name), d \in Defaults :
          LET i == Instance(m, call.rt.ctx, d) IN
          /\ Room(m) /\ Loaded(i)
          /\ \E echo \in {NoEcho, Echo(i), [Echo(i) EXCEPT !.k = Absent]} :
               reply' = [status |-> "loaded", id |-> i.id, echo |-> echo]
          /\ calm' = (calm /\ d.k = call.rt.kv /\ d.v = call.rt.kv /\ d.spec = call.rt.spec
                      /\ OfferedKey(Catalog[m]) = call.name /\ Catalog[m].quant = QuantOf(call.name))
    BY <1>1 DEF ServerLoads
  <2> DEFINE i == Instance(m, call.rt.ctx, d)
  <2>2. pc = "post" /\ call' = call /\ answer' = answer /\ pc' \in {"prove", "trust"} /\ srv' = srv
    BY <1>1 DEF ServerLoads, Goto
  <2>3. CASE ~calm'
    BY <2>2, <2>3, NotCalmKeeps
  <2>4. CASE calm'
    <3>1. call.kind = "load" /\ calm
      BY <2>1, <2>2, <2>4 DEF OInv, MInv, KindInv, LoadLabels
    <3>2. srv = "ready" /\ inst = << >>
      BY <2>2, <3>1 DEF OInv, CalmInv
    <3>10. PICK j : j = i
      OBVIOUS
    <3>3. inst' = <<j>>
      BY <2>1, <3>2, <3>10 DEF Loaded
    <3>4. PICK echo : EchoOf(echo, j) /\ reply' = [status |-> "loaded", id |-> j.id, echo |-> echo]
      BY <2>1, <3>10 DEF EchoOf
    <3>5. m \in DOMAIN Catalog /\ j.row = m /\ Right(j, call.rt)
      BY <2>1, <2>4, <3>10 DEF Served, Instance, Right
    <3>6. OfferedKey(Catalog[m]) = call.name /\ Catalog[m].quant = QuantOf(call.name)
      BY <2>1, <2>4
    <3> HIDE DEF i
    <3>7. AsAsked(j, m)'
      BY <2>2, <3>3, <3>4, <3>5, <3>6 DEF AsAsked
    <3>8. CalmInv'
      BY <2>2, <3>2, <3>7 DEF CalmInv
    <3>9. OfferedIsAccepted'
      BY <2>2, <3>1 DEF OInv, OfferedIsAccepted
    <3> QED BY <2>2, <3>8, <3>9 DEF OInv
  <2> QED BY <2>3, <2>4
<1>2. CASE ServerRefuses \/ LoadTimesOut \/ UserLoadsModel \/ UserUnloadsModel \/ ServerChanges \/ LateLoad
  <2>1. ~calm' /\ call' = call
    BY <1>2 DEF ServerRefuses, LoadTimesOut, UserLoadsModel, UserUnloadsModel, ServerChanges, LateLoad, Moves
  <2> QED BY <2>1, NotCalmKeeps
<1>3. CASE PostFails
  <2>1. pc = "post" /\ srv # "ready" /\ calm' = calm /\ call' = call
    BY <1>3 DEF PostFails, history
  <2>2. ~calm
    BY <2>1 DEF OInv, CalmInv, MInv, KindInv, LoadLabels
  <2> QED BY <2>1, <2>2, NotCalmKeeps
<1> QED BY <1>1, <1>2, <1>3 DEF Others

LEMMA LoadStepKeepsOInv ==
  ASSUME OInv, MInv', Refuse \/ Prove \/ Trust
  PROVE OInv'
<1>1. call.kind = "load"
  BY DEF Refuse, Prove, Trust, OInv, MInv, KindInv, LoadLabels
<1>2. ASSUME RecognisedName(call.name)
      PROVE Valid(call.rt) /\ MustProve(call.name, call.rt)
  BY <1>1, <1>2, RecognisedIsComplete DEF OInv
<1>3. CASE Refuse
  <2>1. (calm /\ RecognisedName(call.name)) => FALSE
    BY <1>1, <1>2, <1>3 DEF Refuse, OInv, CalmInv
  <2> QED BY <1>3, <2>1, ReturnKeepsOInv DEF Refuse
<1>4. CASE Prove
  <2>1. pc = "prove" /\ AnswerIf(Good(Bound(Seen, call.name, reply.id, call.rt.key), reply.echo))
    BY <1>4 DEF Prove
  <2>2. PICK ok, id : Return(ok, id)
    <3> DEFINE good == Good(Bound(Seen, call.name, reply.id, call.rt.key), reply.echo)
    <3>1. CASE Cardinality(good) # 1
      BY <2>1, <3>1 DEF AnswerIf
    <3>2. CASE Cardinality(good) = 1
      <4>1. good # {}
        <5>1. Cardinality({}) = 0
          BY FS_EmptySet
        <5> HIDE DEF good
        <5> SUFFICES ASSUME good = {} PROVE FALSE
          OBVIOUS
        <5> QED BY <3>2, <5>1
      <4> QED BY <2>1, <3>2, <4>1 DEF AnswerIf
    <3> QED BY <3>1, <3>2
  <2>3. answer'.ok = ok
    BY <2>2 DEF Return
  <2>4. (calm /\ RecognisedName(call.name)) => ok
    BY <1>1, <2>1, <2>3, AskedIsAccepted
  <2> QED BY <2>2, <2>4, ReturnKeepsOInv
<1>5. CASE Trust
  <2>1. ~MustProve(call.name, call.rt)
    BY <1>5 DEF Trust, OInv, MInv, AskedInv
  <2>2. PICK ok, id : Return(ok, id)
    BY <1>5 DEF Trust
  <2> QED BY <1>2, <2>1, <2>2, ReturnKeepsOInv
<1> QED BY <1>3, <1>4, <1>5

(* Once a request failed, or another kind of call is made, the server is   *)
(* not calm, or nothing is claimed.                                        *)
OtherCall == pc \notin {"idle", "post", "refuse", "prove", "trust"}

LEMMA OtherStepKeepsOInv ==
  ASSUME OInv, MInv', OtherCall, calm' = calm,
         \/ \E ok, id : Return(ok, id)
         \/ answer' = answer /\ call'.kind = call.kind /\ call'.name = call.name /\ call'.rt = call.rt
  PROVE OInv'
<1>1. calm => call.kind # "load"
  BY DEF OInv, CalmInv, OtherCall
<1>2. CASE \E ok, id : Return(ok, id)
  BY <1>1, <1>2, ReturnKeepsOInv
<1>3. CASE answer' = answer /\ call'.kind = call.kind /\ call'.name = call.name /\ call'.rt = call.rt
  <2>1. CASE ~calm
    BY <1>3, <2>1, NotCalmKeeps
  <2>2. CASE calm
    <3>1. CalmInv'
      BY <1>1, <1>3, <2>2 DEF CalmInv
    <3>2. OfferedIsAccepted'
      BY <1>3 DEF OInv, OfferedIsAccepted
    <3> QED BY <1>1, <1>3, <2>2, <3>1, <3>2 DEF OInv
  <2> QED BY <2>1, <2>2
<1> QED BY <1>2, <1>3

LEMMA RestKeepsOInv ==
  ASSUME OInv, MInv', Provider, ~Refuse, ~Prove, ~Trust
  PROVE OInv'
<1> DEFINE Kept == /\ calm' = calm /\ answer' = answer
                   /\ \/ call' = call
                      \/ \E a : call' = [call EXCEPT !.attempt = a]
                      \/ \E l : call' = [call EXCEPT !.left = l]
                      \/ \E a, l : call' = [call EXCEPT !.attempt = a, !.left = l]
           Returned == calm' = calm /\ \E ok, id : Return(ok, id)
<1>1. ASSUME NEW ok, NEW id, Return(ok, id) PROVE Returned
  BY <1>1 DEF Return
<1>2. ASSUME Returned PROVE Returned
  BY <1>2
<1>3. ASSUME Accept PROVE OtherCall /\ Returned
  <2>1. OtherCall
    BY <1>3 DEF Accept, OtherCall
  <2> DEFINE good == Good(Bound(Seen, call.name, << >>, call.rt.key), NoEcho)
  <2>2. CASE Cardinality(good) # 1
    BY <1>1, <1>3, <2>1, <2>2 DEF Accept, AnswerIf
  <2>3. CASE Cardinality(good) = 1
    <3>1. good # {}
      <4>1. Cardinality({}) = 0
        BY FS_EmptySet
      <4> HIDE DEF good
      <4> SUFFICES ASSUME good = {} PROVE FALSE
        OBVIOUS
      <4> QED BY <2>3, <4>1
    <3> QED BY <1>1, <1>3, <2>1, <2>3, <3>1 DEF Accept, AnswerIf
  <2> QED BY <2>2, <2>3
<1>4. ASSUME Nothing \/ Probe \/ Reprobe \/ ListLoaded PROVE OtherCall /\ (Returned \/ Kept)
  <2>1. OtherCall
    BY <1>4 DEF Nothing, Probe, Reprobe, ListLoaded, OtherCall
  <2> QED BY <1>4, <1>1, <2>1 DEF Nothing, Probe, Reprobe, ListLoaded, Retry, Goto, history
<1>5. ASSUME StartServer \/ Llmster PROVE OtherCall /\ (Returned \/ Kept)
  <2>1. OtherCall
    BY <1>5 DEF StartServer, Llmster, OtherCall
  <2> QED BY <1>5, <1>1, <2>1 DEF StartServer, Llmster, Goto, history
<1>6. ASSUME UnloadOne \/ UnloadsSent \/ PollUnload \/ UnloadUnconfirmed PROVE OtherCall /\ (Returned \/ Kept)
  <2>1. OtherCall
    BY <1>6 DEF UnloadOne, UnloadsSent, PollUnload, UnloadUnconfirmed, OtherCall
  <2> QED BY <1>6, <1>1, <2>1 DEF UnloadOne, UnloadsSent, PollUnload, UnloadUnconfirmed, Goto, history
<1>7. ASSUME Current \/ WaitReady PROVE OtherCall /\ (Returned \/ Kept)
  <2>1. OtherCall
    BY <1>7 DEF Current, WaitReady, OtherCall
  <2> QED BY <1>7, <1>1, <2>1 DEF Current, WaitReady, Goto, history
<1>8. OtherCall /\ (Returned \/ Kept)
  BY <1>3, <1>4, <1>5, <1>6, <1>7 DEF Provider
<1>9. CASE Returned
  BY <1>8, <1>9, OtherStepKeepsOInv
<1>10. CASE Kept
  <2>1. call'.kind = call.kind /\ call'.name = call.name /\ call'.rt = call.rt
    BY <1>10, SameCall DEF OInv
  <2> QED BY <1>8, <1>10, <2>1, OtherStepKeepsOInv
<1> QED BY <1>8, <1>9, <1>10

LEMMA NextOInv == OInv /\ [MNext]_mvars => OInv'
<1> SUFFICES ASSUME OInv, [MNext]_mvars PROVE OInv'
  OBVIOUS
<1>1. MInv'
  BY NextMInv DEF OInv
<1>2. CASE Provider
  BY <1>1, <1>2, LoadStepKeepsOInv, RestKeepsOInv
<1>3. CASE Calls
  BY <1>1, <1>3, CallsKeepOInv
<1>4. CASE Others
  BY <1>1, <1>4, OthersKeepOInv
<1>5. CASE UNCHANGED mvars
  <2>1. UNCHANGED <<srv, inst, pc, call, reply, answer, calm>>
    BY <1>5 DEF mvars
  <2>2. CalmInv'
    <3>1. ASSUME NEW m, NEW i, AsAsked(i, m) PROVE AsAsked(i, m)'
      BY <2>1, <3>1 DEF AsAsked
    <3> QED BY <2>1, <3>1 DEF OInv, CalmInv
  <2>3. OfferedIsAccepted'
    BY <2>1 DEF OInv, OfferedIsAccepted
  <2> QED BY <1>1, <2>1, <2>2, <2>3 DEF OInv
<1> QED BY <1>2, <1>3, <1>4, <1>5 DEF MNext, Done

(* For any catalog, registry and request: a model asked for as list_models *)
(* names it, which the registry and the rows recognise, and which the      *)
(* server alone loads as it was asked, is never refused (lines 472-725).   *)
THEOREM OfferedModelsLoad == MSpec => []OfferedIsAccepted
<1>1. OInv => OfferedIsAccepted
  BY DEF OInv
<1>2. MSpec => []OInv
  BY InitOInv, NextOInv, PTL DEF MSpec
<1> QED BY <1>1, <1>2, PTL

-----------------------------------------------------------------------------
(* The overview.  The name of a folder has the base of its model's name;   *)
(* a time may follow the name.                                             *)

Stamped(s, f) == s = f \/ \E n \in 0..MaxRuns : s = Append(f, Stamp(n))

LEMMA StampedIsName ==
  ASSUME NEW f, WellNamed(f), NEW s, Stamped(s, f)
  PROVE /\ IsName(f) /\ IsName(s) /\ Len(f) \in Nat /\ Len(s) \in Nat
        /\ Len(s) = Len(f) \/ Len(s) = Len(f) + 1
        /\ \A i \in 1..Len(f) : s[i] = f[i]
        /\ \A i \in 1..Len(s) : s[i] = "@" => i <= Len(f)
        /\ Len(s) = Len(f) \/ \E n \in 0..MaxRuns : s[Len(s)] = Stamp(n)
<1>1. IsName(f) /\ Len(f) \in Nat /\ DOMAIN f = 1..Len(f)
  BY DEF WellNamed, IsName
<1>2. CASE s = f
  BY <1>1, <1>2
<1>3. ASSUME NEW n \in 0..MaxRuns, s = Append(f, Stamp(n))
      PROVE /\ Len(s) = Len(f) + 1 /\ s[Len(s)] = Stamp(n)
            /\ \A i \in 1..Len(f) : s[i] = f[i]
            /\ \A i \in 1..Len(s) : s[i] = "@" => i <= Len(f)
            /\ IsName(s)
  <2> DEFINE S == {f[i] : i \in DOMAIN f} \cup {Stamp(n)}
  <2>1. f \in Seq(S) /\ Stamp(n) \in S
    BY <1>1, SeqMonotonic DEF IsName
  <2> HIDE DEF S
  <2>2. s \in Seq(S) /\ Len(s) = Len(f) + 1 /\ s[Len(s)] = Stamp(n) /\ \A i \in 1..Len(f) : s[i] = f[i]
    BY <2>1, <1>3, AppendProperties
  <2>3. DOMAIN s = 1..Len(s)
    BY <2>2
  <2>4. Stamp(n) # "@"
    BY DEF WellNamed
  <2>5. \A i \in 1..Len(s) : s[i] = "@" => i \in 1..Len(f)
    <3> SUFFICES ASSUME NEW i \in 1..Len(s), s[i] = "@" PROVE i \in 1..Len(f)
      OBVIOUS
    <3>1. i # Len(s)
      BY <2>2, <2>4
    <3> QED BY <1>1, <2>2, <3>1
  <2>6. s \in Seq({s[i] : i \in DOMAIN s})
    BY <2>2, <2>3
  <2> QED BY <2>2, <2>5, <2>6 DEF IsName
<1> QED BY <1>1, <1>2, <1>3 DEF Stamped

(* The base is what is before the first "@".                               *)
(* A beginning that ends before the first "@" is its own base.             *)
LEMMA BaseOfBase ==
  ASSUME NEW s, IsName(s), NEW i, AtIsAt(s, i)
  PROVE Base(SubSeq(s, 1, i - 1)) = SubSeq(s, 1, i - 1)
<1> DEFINE a == SubSeq(s, 1, i - 1)
<1>1. Len(a) = i - 1 /\ i - 1 \in Nat /\ (\A j \in 1..(i - 1) : a[j] = s[j])
      /\ a \in Seq({s[j] : j \in DOMAIN s})
  BY PartOfName DEF AtIsAt
<1> HIDE DEF a
<1>2. \A j \in 1..Len(a) : a[j] # "@"
  BY <1>1 DEF AtIsAt
<1>3. At(a, "@") = 0
  BY <1>1, <1>2 DEF At
<1>4. Base(a) = a
  BY <1>3 DEF Base, Before
<1> QED BY <1>4 DEF a

(* The name in a folder's name that has an "@" has the same base.          *)
LEMMA StampedBase ==
  ASSUME NEW f, WellNamed(f), NEW s, Stamped(s, f), NEW i, AtIsAt(s, i)
  PROVE Base(f) = Base(s) /\ Base(s) = SubSeq(s, 1, i - 1)
<1>1. IsName(f) /\ IsName(s) /\ i \in 1..Len(s) /\ i \in 1..Len(f) /\ \A j \in 1..Len(f) : s[j] = f[j]
  BY StampedIsName DEF AtIsAt
<1>2. \A j \in 1..(i - 1) : f[j] = s[j]
  <2>1. Len(f) \in Nat
    BY <1>1 DEF IsName
  <2> QED BY <1>1, <2>1
<1>3. AtIsAt(f, i)
  BY <1>1, <1>2 DEF AtIsAt
<1>4. Base(f) = SubSeq(f, 1, i - 1) /\ Base(s) = SubSeq(s, 1, i - 1)
  BY <1>1, <1>3, BaseOfName
<1> QED BY <1>1, <1>2, <1>4, SameBeginning

LEMMA PrefixAgrees ==
  ASSUME NEW s, NEW t, IsPrefix(s, t), NEW S, s \in Seq(S), NEW T, t \in Seq(T), NEW i \in 1..Len(s)
  PROVE i \in 1..Len(t) /\ s[i] = t[i]
<1>1. Len(s) \in Nat /\ Len(t) \in Nat /\ Len(s) <= Len(t)
  BY DEF IsPrefix
<1>2. SubSeq(s, 1, Len(s))[i] = s[i]
  BY <1>1, SubSeqProperties
<1>3. SubSeq(t, 1, Len(s))[i] = t[i]
  BY <1>1, SubSeqProperties
<1> QED BY <1>1, <1>2, <1>3 DEF IsPrefix

(* The folders a key with a quant is given are of models with its base.    *)
LEMMA FoldersBelong ==
  ASSUME NEW k, WellNamed(k), NEW key, Stamped(key, k), QuantOf(key) # Absent,
         NEW f, WellNamed(f), NEW d, Stamped(d, f), NEW dirs, d \in FolderCandidates(dirs, key)
  PROVE Base(f) = Base(key)
<1>1. IsName(key) /\ IsName(d) /\ IsName(k) /\ IsName(f)
  BY StampedIsName
<1>2. PICK i \in 1..Len(key) : AtIsAt(key, i) /\ key[i] = "@"
  BY <1>1, BaseOfName DEF AtIsAt
<1>3. Base(key) = SubSeq(key, 1, i - 1)
  BY <1>1, <1>2, BaseOfName
<1>4. ASSUME i \in 1..Len(d), d[i] = "@", \A j \in 1..(i - 1) : d[j] = key[j]
      PROVE Base(f) = Base(key)
  <2>1. Base(f) = SubSeq(d, 1, i - 1)
    <3>1. AtIsAt(d, i)
      BY <1>2, <1>4 DEF AtIsAt
    <3> QED BY <3>1, StampedBase
  <2>2. SubSeq(d, 1, i - 1) = SubSeq(key, 1, i - 1)
    BY <1>1, <1>2, <1>4, SameBeginning
  <2> QED BY <1>3, <2>1, <2>2
<1>5. CASE IsPrefix(key, d)
  <2>1. \A j \in 1..Len(key) : j \in 1..Len(d) /\ key[j] = d[j]
    BY <1>1, <1>5, PrefixAgrees DEF IsName
  <2>2. \A j \in 1..(i - 1) : j \in 1..Len(key)
    BY <1>1, <1>2, PartOfName
  <2> QED BY <1>2, <1>4, <2>1, <2>2
<1>6. CASE d = Base(key)
  <2>1. Len(d) = i - 1 /\ (\A j \in 1..(i - 1) : d[j] = key[j]) /\ i - 1 \in 0..Len(key) /\ Len(key) \in Nat
    BY <1>1, <1>2, <1>3, <1>6, PartOfName
  <2>2. Base(d) = d
    BY <1>1, <1>2, <1>3, <1>6, BaseOfBase
  <2>3. CASE d = f
    BY <1>6, <2>2, <2>3
  <2>4. ASSUME NEW n \in 0..MaxRuns, d = Append(f, Stamp(n)) PROVE FALSE
    <3>1. DOMAIN f = 1..Len(f) /\ f \in Seq({f[j] : j \in DOMAIN f}) /\ Len(f) \in Nat
      BY <1>1 DEF IsName
    <3>2. PICK S : S = {f[j] : j \in DOMAIN f} \cup {Stamp(n)}
      OBVIOUS
    <3>3. f \in Seq(S) /\ Stamp(n) \in S
      BY <3>1, <3>2, SeqMonotonic
    <3>4. Len(d) = Len(f) + 1 /\ d[Len(d)] = Stamp(n)
      BY <2>4, <3>3, AppendProperties
    <3>5. i - 1 \in 1..(i - 1) /\ key[i - 1] = Stamp(n)
      BY <2>1, <3>1, <3>4
    <3>6. i <= Len(k) /\ Len(k) \in Nat /\ \A j \in 1..Len(k) : key[j] = k[j]
      BY <1>2, StampedIsName
    <3>7. i - 1 \in DOMAIN k /\ k[i - 1] = Stamp(n)
      <4>1. DOMAIN k = 1..Len(k)
        BY <1>1 DEF IsName
      <4>2. i - 1 \in 1..Len(k)
        BY <2>1, <3>5, <3>6
      <4> QED BY <4>1, <4>2, <3>5, <3>6
    <3> QED BY <3>7 DEF WellNamed
  <2> QED BY <2>3, <2>4 DEF Stamped
<1>7. CASE IsPrefix(Append(Base(key), "@"), d)
  <2>1. PICK at : at = "@"
    OBVIOUS
  <2>2. PICK S : S = {key[j] : j \in DOMAIN key} \cup {at}
    OBVIOUS
  <2>3. Base(key) \in Seq(S) /\ at \in S /\ Len(Base(key)) = i - 1 /\ i - 1 \in Nat
        /\ \A j \in 1..(i - 1) : Base(key)[j] = key[j]
    <3>1. Base(key) \in Seq({key[j] : j \in DOMAIN key})
      BY <1>1, <1>2, <1>3, PartOfName
    <3> QED BY <1>1, <1>2, <1>3, <2>2, <3>1, SeqMonotonic, PartOfName
  <2>4. PICK a : a = Append(Base(key), at)
    OBVIOUS
  <2>5. a \in Seq(S) /\ Len(a) = i /\ a[i] = at /\ \A j \in 1..(i - 1) : a[j] = key[j]
    BY <2>3, <2>4, AppendProperties
  <2>6. \A j \in 1..Len(a) : j \in 1..Len(d) /\ a[j] = d[j]
    <3>1. IsPrefix(a, d)
      BY <1>7, <2>1, <2>4
    <3>2. d \in Seq({d[j] : j \in DOMAIN d})
      BY <1>1 DEF IsName
    <3> QED BY <2>5, <3>1, <3>2, PrefixAgrees
  <2> QED BY <1>2, <1>4, <2>1, <2>3, <2>5, <2>6
<1> QED BY <1>5, <1>6, <1>7 DEF FolderCandidates

(* The same for the tables.                                                *)
LEMMA TablesBelong ==
  ASSUME NEW k, WellNamed(k), NEW key, Stamped(key, k), QuantOf(key) # Absent, NEW t, Fits(t, key)
  PROVE Base(Flat(t.key)) = Base(key)
<1>1. IsName(key)
  BY StampedIsName
<1>2. PICK S : key \in Seq(S)
  BY <1>1, NameIsSeq
<1>3. Base(Base(key)) = Base(key)
  BY <1>2, BaseIsBase
<1> QED BY <1>3 DEF Fits

-----------------------------------------------------------------------------
(* The scores of a row.                                                    *)

LEMMA FourAreFinite ==
  ASSUME NEW a, NEW b, NEW c, NEW d
  PROVE IsFiniteSet({a, b, c, d})
<1>1. IsFiniteSet({a}) /\ IsFiniteSet({b}) /\ IsFiniteSet({c}) /\ IsFiniteSet({d})
  BY FS_Singleton
<1>2. IsFiniteSet({a} \cup {b}) /\ IsFiniteSet({c} \cup {d})
  BY <1>1, FS_Union
<1>3. IsFiniteSet(({a} \cup {b}) \cup ({c} \cup {d}))
  BY <1>2, FS_Union
<1>4. ({a} \cup {b}) \cup ({c} \cup {d}) = {a, b, c, d}
  OBVIOUS
<1> QED BY <1>3, <1>4

LEMMA FewerAreFinite ==
  ASSUME NEW a, NEW b, NEW c
  PROVE IsFiniteSet({a, b, c}) /\ IsFiniteSet({a, b})
<1>1. {a, b, c} = {a, b, c, c} /\ {a, b} = {a, b, b, b}
  OBVIOUS
<1>2. IsFiniteSet({a, b, c, c}) /\ IsFiniteSet({a, b, b, b})
  BY FourAreFinite
<1> QED BY <1>1, <1>2

LEMMA CategoriesAreFinite ==
  ASSUME NEW scores, NEW cat \in DOMAIN Categories
  PROVE /\ IsFiniteSet(In(cat, scores)) /\ IsFiniteSet(With(scores))
        /\ Weights[cat] \in Nat /\ Weights[cat] > 0
<1>1. cat \in {"coding", "knowledge", "math", "agentic"}
  BY DEF Categories
<1>2. IsFiniteSet({"coding", "knowledge", "math", "agentic"})
  BY FourAreFinite
<1>3. IsFiniteSet(With(scores))
  <2>1. With(scores) \subseteq {"coding", "knowledge", "math", "agentic"}
    BY DEF With, Categories
  <2> QED BY <1>2, <2>1, FS_Subset
<1>4. IsFiniteSet(Categories[cat])
  <2>1. IsFiniteSet({"HumanEval+", "MBPP+", "DS1000", "CoderEval"})
    BY FourAreFinite
  <2>2. IsFiniteSet({"ARC-Challenge", "HellaSwag", "TruthfulQA"})
    BY FewerAreFinite
  <2>3. IsFiniteSet({"Agentic", "IFEval"})
    BY FewerAreFinite
  <2>4. Categories[cat] \in {Categories.coding, Categories.knowledge, Categories.math, Categories.agentic}
    BY <1>1
  <2>5. IsFiniteSet(Categories.coding)
    BY <2>1 DEF Categories
  <2>6. IsFiniteSet(Categories.knowledge)
    BY <2>2 DEF Categories
  <2>7. IsFiniteSet(Categories.math) /\ IsFiniteSet(Categories.agentic)
    BY <2>3, FS_Singleton DEF Categories
  <2> QED BY <2>4, <2>5, <2>6, <2>7
<1>5. IsFiniteSet(In(cat, scores))
  BY <1>4, FS_Subset DEF In
<1>6. Weights[cat] \in Nat /\ Weights[cat] > 0
  BY <1>1 DEF Weights
<1> QED BY <1>3, <1>5, <1>6

LEMMA Division ==
  ASSUME NEW a \in Nat, NEW n \in Nat, n > 0, NEW m \in Nat
  PROVE /\ a \div n \in Nat
        /\ m * n <= a => m <= a \div n
        /\ a <= m * n => a \div n <= m
<1> DEFINE q == a \div n
           r == a % n
<1>1. q \in Nat /\ r \in Nat /\ r < n /\ a = n * q + r
  OBVIOUS
<1> HIDE DEF q, r
<1>2. ASSUME m * n <= a, q < m PROVE FALSE
  <2>1. (q + 1) * n <= m * n
    BY <1>1, <1>2
  <2>2. (q + 1) * n = n * q + n
    BY <1>1
  <2>3. n * q \in Nat /\ m * n \in Nat
    BY <1>1
  <2> QED BY <1>1, <1>2, <2>1, <2>2, <2>3
<1>3. ASSUME a <= m * n, m < q PROVE FALSE
  <2>1. (m + 1) * n <= q * n
    BY <1>1, <1>3
  <2>2. (m + 1) * n = m * n + n /\ q * n = n * q
    BY <1>1
  <2>3. n * q \in Nat /\ m * n \in Nat
    BY <1>1
  <2> QED BY <1>1, <1>3, <2>1, <2>2, <2>3
<1> QED BY <1>1, <1>2, <1>3 DEF q

(* The score of a category lies between the scores in it.                  *)
LEMMA CategoryBetween ==
  ASSUME NEW scores, \A b \in DOMAIN scores : scores[b].v \in Nat, NEW cat \in With(scores)
  PROVE /\ CategoryScore(cat, scores) \in Nat
        /\ \A v \in Nat : (\A b \in In(cat, scores) : scores[b].v >= v) => 12 * v <= CategoryScore(cat, scores)
        /\ \A v \in Nat : (\A b \in In(cat, scores) : scores[b].v <= v) => CategoryScore(cat, scores) <= 12 * v
<1> DEFINE S == In(cat, scores)
           f == [b \in S |-> scores[b].v]
           ones == [b \in S |-> 1]
           count == [s \in SUBSET S |-> Cardinality(s)]
           n == Cardinality(S)
<1>1. IsFiniteSet(S) /\ S # {} /\ S \subseteq DOMAIN scores
  BY CategoriesAreFinite DEF With, In
<1>2. f \in [S -> Nat] /\ ones \in [S -> Nat] /\ \A b \in S : f[b] = scores[b].v /\ ones[b] = 1
  BY <1>1
<1>3. n \in Nat /\ n > 0 /\ count[S] = n
  BY <1>1, FS_CardinalityType, FS_EmptySet
<1>4. IsSum(S, ones, count)
  BY <1>1, CardinalityIsSum
<1> HIDE DEF f, ones, count, n, S
<1>5. PICK T : IsSum(S, f, T) /\ SumFunction(f) = T[S]
  BY <1>1, <1>2, SumExists
<1>6. PICK x \in Nat : x = T[S]
  BY <1>5 DEF IsSum
<1>7. CategoryScore(cat, scores) = (12 * x) \div n
  BY <1>5, <1>6 DEF CategoryScore, f, S, n
<1>8. 12 * x \in Nat
  OBVIOUS
<1>9. ASSUME NEW v \in Nat, \A b \in S : scores[b].v >= v PROVE 12 * v <= CategoryScore(cat, scores)
  <2>1. \A b \in S : v * ones[b] <= 1 * f[b]
    BY <1>2, <1>9
  <2>2. v * count[S] <= 1 * T[S]
    BY <1>1, <1>2, <1>4, <1>5, <2>1, SumsCompare
  <2>3. v * n <= x
    BY <1>3, <1>6, <2>2
  <2>4. (12 * v) * n <= 12 * x
    <3>1. (12 * v) * n = 12 * (v * n) /\ v * n \in Nat
      BY <1>3
    <3> QED BY <2>3, <3>1
  <2> QED BY <1>3, <1>7, <1>8, <2>4, Division
<1>10. ASSUME NEW v \in Nat, \A b \in S : scores[b].v <= v PROVE CategoryScore(cat, scores) <= 12 * v
  <2>1. \A b \in S : 1 * f[b] <= v * ones[b]
    BY <1>2, <1>10
  <2>2. 1 * T[S] <= v * count[S]
    BY <1>1, <1>2, <1>4, <1>5, <2>1, SumsCompare
  <2>3. x <= v * n
    BY <1>3, <1>6, <2>2
  <2>4. 12 * x <= (12 * v) * n
    <3>1. (12 * v) * n = 12 * (v * n) /\ v * n \in Nat
      BY <1>3
    <3> QED BY <2>3, <3>1
  <2> QED BY <1>3, <1>7, <1>8, <2>4, Division
<1>11. CategoryScore(cat, scores) \in Nat
  BY <1>3, <1>7, <1>8, Division
<1> QED BY <1>9, <1>10, <1>11 DEF S

Fair(o, s) ==
    /\ (o.of = 0) = (Counted(s) = {})
    /\ \A v \in {s[b].v : b \in Counted(s)} :
          /\ (\A b \in Counted(s) : s[b].v >= v) => o.sum >= 12 * v * o.of
          /\ (\A b \in Counted(s) : s[b].v <= v) => o.sum <= 12 * v * o.of

LEMMA OverallBetween ==
  ASSUME NEW scores, \A b \in DOMAIN scores : scores[b].v \in Nat
  PROVE Fair(Overall(scores), scores)
<1> DEFINE S == With(scores)
           w == [cat \in S |-> Weights[cat]]
           g == [cat \in S |-> Weights[cat] * CategoryScore(cat, scores)]
<1>1. S \subseteq DOMAIN Categories /\ IsFiniteSet(S) /\ \A cat \in S : Weights[cat] \in Nat /\ Weights[cat] > 0
  <2>1. S \subseteq DOMAIN Categories
    BY DEF With
  <2>2. "coding" \in DOMAIN Categories
    BY DEF Categories
  <2> QED BY <2>1, <2>2, CategoriesAreFinite
<1>2. \A cat \in S : CategoryScore(cat, scores) \in Nat
  BY CategoryBetween
<1>3. w \in [S -> Nat] /\ g \in [S -> Nat]
  <2>1. \A cat \in S : Weights[cat] * CategoryScore(cat, scores) \in Nat
    BY <1>1, <1>2
  <2> QED BY <1>1, <2>1
<1>4. \A cat \in S : w[cat] = Weights[cat] /\ g[cat] = Weights[cat] * CategoryScore(cat, scores)
  OBVIOUS
<1> HIDE DEF S
<1>5. PICK W : IsSum(S, w, W) /\ SumFunction(w) = W[S]
  <2> HIDE DEF w
  <2> QED BY <1>1, <1>3, SumExists
<1>6. PICK G : IsSum(S, g, G) /\ SumFunction(g) = G[S]
  <2> HIDE DEF g
  <2> QED BY <1>1, <1>3, SumExists
<1>7. Overall(scores).of = W[S] /\ Overall(scores).sum = G[S] /\ W[S] \in Nat /\ G[S] \in Nat
  <2>1. Overall(scores) = [sum |-> SumFunction(g), of |-> SumFunction(w)]
    BY DEF Overall, S
  <2> HIDE DEF g, w
  <2> QED BY <1>5, <1>6, <2>1 DEF IsSum
<1> HIDE DEF w, g
<1>8. (W[S] = 0) = (Counted(scores) = {})
  <2>1. CASE S = {}
    <3>1. Counted(scores) = {}
      BY <2>1 DEF Counted, With, S
    <3> QED BY <1>5, <2>1, <3>1 DEF IsSum
  <2>2. CASE S # {}
    <3>1. PICK cat \in S : TRUE
      BY <2>2
    <3>2. w[cat] <= W[S] /\ w[cat] > 0 /\ w[cat] \in Nat
      BY <1>1, <1>3, <1>4, <1>5, <3>1, TermsInSum
    <3>3. Counted(scores) # {}
      BY <3>1, <1>1 DEF Counted, With, S
    <3> QED BY <1>7, <3>2, <3>3
  <2> QED BY <2>1, <2>2
<1>9. \A cat \in S : In(cat, scores) \subseteq Counted(scores)
  BY <1>1 DEF Counted
<1>10. ASSUME NEW b \in Counted(scores) PROVE scores[b].v \in Nat
  BY DEF Counted, In
<1>11. ASSUME NEW v \in Nat, \A b \in Counted(scores) : scores[b].v >= v PROVE G[S] >= 12 * v * W[S]
  <2>1. \A cat \in S : (12 * v) * w[cat] <= 1 * g[cat]
    <3> SUFFICES ASSUME NEW cat \in S PROVE (12 * v) * w[cat] <= 1 * g[cat]
      OBVIOUS
    <3>1. 12 * v <= CategoryScore(cat, scores)
      BY <1>9, <1>11, CategoryBetween DEF S
    <3>2. PICK c \in Nat : c = CategoryScore(cat, scores)
      BY <1>2
    <3>3. PICK u \in Nat : u = Weights[cat]
      BY <1>1
    <3>4. PICK m \in Nat : m = 12 * v
      OBVIOUS
    <3>5. m * u <= u * c
      BY <3>1, <3>2, <3>4
    <3> QED BY <1>4, <3>2, <3>3, <3>4, <3>5
  <2>2. 12 * v \in Nat
    OBVIOUS
  <2>3. (12 * v) * W[S] <= 1 * G[S]
    BY <1>1, <1>3, <1>5, <1>6, <2>1, <2>2, SumsCompare
  <2> QED BY <1>7, <2>3
<1>12. ASSUME NEW v \in Nat, \A b \in Counted(scores) : scores[b].v <= v PROVE G[S] <= 12 * v * W[S]
  <2>1. \A cat \in S : 1 * g[cat] <= (12 * v) * w[cat]
    <3> SUFFICES ASSUME NEW cat \in S PROVE 1 * g[cat] <= (12 * v) * w[cat]
      OBVIOUS
    <3>1. CategoryScore(cat, scores) <= 12 * v
      BY <1>9, <1>12, CategoryBetween DEF S
    <3>2. PICK c \in Nat : c = CategoryScore(cat, scores)
      BY <1>2
    <3>3. PICK u \in Nat : u = Weights[cat]
      BY <1>1
    <3>4. PICK m \in Nat : m = 12 * v
      OBVIOUS
    <3>5. u * c <= m * u
      BY <3>1, <3>2, <3>4
    <3> QED BY <1>4, <3>2, <3>3, <3>4, <3>5
  <2>2. 12 * v \in Nat
    OBVIOUS
  <2>3. 1 * G[S] <= (12 * v) * W[S]
    BY <1>1, <1>3, <1>5, <1>6, <2>1, <2>2, SumsCompare
  <2> QED BY <1>7, <2>3
<1> QED BY <1>7, <1>8, <1>10, <1>11, <1>12 DEF Fair

-----------------------------------------------------------------------------
(* Every score lies where a run of its own model put it.                   *)

Scored(r, d) ==
    \E name \in RunNames : Stamped(d, Flat(name)) /\ r \in Results(name) \ {NoResult}

TablesInv == \A t \in tables : t.key \in RunNames /\ t.score \in Results(t.key)

FolderInv(p, d) ==
    /\ \E name \in RunNames : Stamped(d, Flat(name))
    /\ \A b \in DOMAIN folders[p][d].inside :
          LET r == folders[p][d].inside[b] IN (r = NoResult /\ p # "lmeval") \/ Scored(r, d)
FoldersInv ==
    /\ DOMAIN folders = DOMAIN Pipelines
    /\ \A p \in DOMAIN folders : \A d \in DOMAIN folders[p] : FolderInv(p, d)

GoodScore(key, r) == r.v \in Nat /\ (r.read \/ r.v = 0) /\ (QuantOf(key) # Absent => Base(r.of) = Base(key))
OverviewInv ==
    \A key \in DOMAIN overview :
        /\ overview[key] = Row(overview[key].scores)
        /\ \A b \in DOMAIN overview[key].scores : GoodScore(key, overview[key].scores[b])

CInv == runs \in 0..MaxRuns /\ TablesInv /\ FoldersInv /\ OverviewInv

LEMMA InitOverview == CInit => CInv
  BY OverviewAssumption DEF CInit, CInv, TablesInv, FoldersInv, OverviewInv, OverviewAssumption

LEMMA ResultsAre ==
  ASSUME NEW name, NEW r \in Results(name) \ {NoResult}
  PROVE r.of = Flat(name) /\ r.v \in Nat /\ r.read /\ r # NoResult
  BY OverviewAssumption DEF Results, OverviewAssumption

(* What a run writes into a folder of its own keeps the others.            *)
LEMMA TouchKeeps ==
  ASSUME FoldersInv, NEW p \in DOMAIN Pipelines, NEW name \in RunNames, NEW dir, Stamped(dir, Flat(name)),
         NEW sub, NEW inside, Touch(p, dir, sub, inside),
         \A b \in DOMAIN inside : (inside[b] = NoResult /\ p # "lmeval") \/ inside[b] \in Results(name) \ {NoResult}
  PROVE FoldersInv'
<1> DEFINE old == IF dir \in DOMAIN folders[p] THEN folders[p][dir] ELSE [touched |-> runs, subs |-> {}, inside |-> << >>]
           new == [touched |-> IF sub \in old.subs THEN old.touched ELSE runs,
                   subs |-> old.subs \cup {sub}, inside |-> Over(inside, old.inside)]
           mine == Over(Only(dir, new), folders[p])
<1>1. folders' = [folders EXCEPT ![p] = mine]
  BY DEF Touch
<1>2. DOMAIN folders' = DOMAIN Pipelines /\ folders'[p] = mine /\ \A q \in DOMAIN Pipelines \ {p} : folders'[q] = folders[q]
  BY <1>1 DEF FoldersInv
<1>3. DOMAIN mine = DOMAIN folders[p] \cup {dir} /\ mine[dir] = new
      /\ \A d \in DOMAIN folders[p] \ {dir} : mine[d] = folders[p][d]
  <2> HIDE DEF new
  <2> QED BY DEF Over, Only
<1>4. new.inside = Over(inside, old.inside)
  OBVIOUS
<1>5. \A b \in DOMAIN old.inside : (old.inside[b] = NoResult /\ p # "lmeval") \/ Scored(old.inside[b], dir)
  <2>1. CASE dir \in DOMAIN folders[p]
    BY <2>1 DEF FoldersInv, FolderInv
  <2>2. CASE dir \notin DOMAIN folders[p]
    BY <2>2
  <2> QED BY <2>1, <2>2
<1>6. \A b \in DOMAIN new.inside : (new.inside[b] = NoResult /\ p # "lmeval") \/ Scored(new.inside[b], dir)
  <2> SUFFICES ASSUME NEW b \in DOMAIN new.inside
               PROVE (new.inside[b] = NoResult /\ p # "lmeval") \/ Scored(new.inside[b], dir)
    OBVIOUS
  <2> HIDE DEF old, new
  <2>1. CASE b \in DOMAIN inside
    <3>1. new.inside[b] = inside[b]
      BY <1>4, <2>1 DEF Over
    <3> QED BY <2>1, <3>1 DEF Scored
  <2>2. CASE b \notin DOMAIN inside
    <3>1. new.inside[b] = old.inside[b] /\ b \in DOMAIN old.inside
      BY <1>4, <2>2 DEF Over
    <3> QED BY <1>5, <3>1
  <2> QED BY <2>1, <2>2
<1> HIDE DEF old, new, mine
<1>7. ASSUME NEW d \in DOMAIN folders'[p] PROVE FolderInv(p, d)'
  <2>1. CASE d = dir
    BY <1>2, <1>3, <1>6, <2>1 DEF FolderInv
  <2>2. CASE d # dir
    BY <1>2, <1>3, <1>7, <2>2 DEF FoldersInv, FolderInv
  <2> QED BY <2>1, <2>2
<1>8. ASSUME NEW q \in DOMAIN Pipelines \ {p}, NEW d \in DOMAIN folders'[q] PROVE FolderInv(q, d)'
  BY <1>2, <1>8 DEF FoldersInv, FolderInv
<1> QED BY <1>2, <1>7, <1>8 DEF FoldersInv

LEMMA RunsKeep ==
  ASSUME CInv, CustomRun \/ LmEvalRun \/ AgenticRun \/ EvalPlusRun \/ EvalPlusItself
  PROVE CInv'
<1> USE DEF CInv
<1>1. runs' \in 0..MaxRuns /\ OverviewInv' /\ runs \in 0..MaxRuns
  <2>1. Measured
    BY DEF CustomRun, LmEvalRun, AgenticRun, EvalPlusRun, EvalPlusItself
  <2> QED BY <2>1, OverviewAssumption DEF Measured, OverviewInv, OverviewAssumption
<1>2. {"evalplus", "lmeval", "agentic"} = DOMAIN Pipelines
  BY OverviewAssumption DEF OverviewAssumption
<1>3. CASE CustomRun
  <2>1. TablesInv'
    BY <1>3 DEF CustomRun, TablesInv, Results
  <2> QED BY <1>1, <1>3, <2>1 DEF CustomRun, FoldersInv, FolderInv
<1>4. CASE LmEvalRun
  <2>1. PICK name \in RunNames, task \in Pipelines["lmeval"], bound \in BOOLEAN : \E result \in Results(name) :
          Touch("lmeval", IF bound THEN Append(Flat(name), Stamp(runs)) ELSE Flat(name),
                IF result = NoResult THEN "." ELSE "model", Named(task, result))
    BY <1>4 DEF LmEvalRun
  <2>0. PICK result \in Results(name) :
          Touch("lmeval", IF bound THEN Append(Flat(name), Stamp(runs)) ELSE Flat(name),
                IF result = NoResult THEN "." ELSE "model", Named(task, result))
    BY <2>1
  <2>2. \A b \in DOMAIN Named(task, result) : Named(task, result)[b] \in Results(name) \ {NoResult}
    BY DEF Named, Only
  <2>3. Stamped(IF bound THEN Append(Flat(name), Stamp(runs)) ELSE Flat(name), Flat(name))
    BY <1>1 DEF Stamped
  <2>4. FoldersInv'
    BY <1>2, <2>0, <2>2, <2>3, TouchKeeps
  <2> QED BY <1>1, <1>4, <2>4 DEF LmEvalRun, TablesInv
<1>5. CASE AgenticRun
  <2>1. PICK name \in RunNames, wrote \in BOOLEAN : \E result \in Results(name) :
          Touch("agentic", Flat(name), IF wrote THEN ToString(runs) ELSE ".",
                IF wrote THEN Only("Agentic", result) ELSE << >>)
    BY <1>5 DEF AgenticRun
  <2>0. PICK result \in Results(name) :
          Touch("agentic", Flat(name), IF wrote THEN ToString(runs) ELSE ".",
                IF wrote THEN Only("Agentic", result) ELSE << >>)
    BY <2>1
  <2> DEFINE inside == IF wrote THEN Only("Agentic", result) ELSE << >>
  <2>2. \A b \in DOMAIN inside : inside[b] = NoResult \/ inside[b] \in Results(name) \ {NoResult}
    BY DEF Only
  <2>3. Stamped(Flat(name), Flat(name))
    BY DEF Stamped
  <2>4. FoldersInv'
    <3> HIDE DEF inside
    <3>1. "agentic" # "lmeval" /\ "agentic" \in DOMAIN Pipelines
      BY <1>2
    <3>2. Touch("agentic", Flat(name), IF wrote THEN ToString(runs) ELSE ".", inside)
      BY <2>0 DEF inside
    <3> QED BY <2>2, <2>3, <3>1, <3>2, TouchKeeps
  <2> QED BY <1>1, <1>5, <2>4 DEF AgenticRun, TablesInv
<1>6. CASE EvalPlusRun
  <2>1. PICK name \in RunNames, set \in Pipelines["evalplus"], evaluates \in BOOLEAN :
          Touch("evalplus", Flat(name), set, IF evaluates THEN Only(set, NoResult) ELSE << >>)
    BY <1>6 DEF EvalPlusRun
  <2> DEFINE inside == IF evaluates THEN Only(set, NoResult) ELSE << >>
  <2>2. \A b \in DOMAIN inside : inside[b] = NoResult
    BY DEF Only
  <2>3. Stamped(Flat(name), Flat(name))
    BY DEF Stamped
  <2>4. FoldersInv'
    <3> HIDE DEF inside
    <3>1. "evalplus" # "lmeval" /\ "evalplus" \in DOMAIN Pipelines
      BY <1>2
    <3>2. Touch("evalplus", Flat(name), set, inside)
      BY <2>1 DEF inside
    <3> QED BY <2>2, <2>3, <3>1, <3>2, TouchKeeps
  <2> QED BY <1>1, <1>6, <2>4 DEF EvalPlusRun, TablesInv
<1>7. CASE EvalPlusItself
  <2>1. PICK name \in RunNames, set \in Pipelines["evalplus"] : \E result \in Results(name) \ {NoResult} :
          Touch("evalplus", Flat(name), set, Only(set, result))
    BY <1>7 DEF EvalPlusItself
  <2>0. PICK result \in Results(name) \ {NoResult} :
          Touch("evalplus", Flat(name), set, Only(set, result))
    BY <2>1
  <2>2. \A b \in DOMAIN Only(set, result) : Only(set, result)[b] \in Results(name) \ {NoResult}
    BY DEF Only
  <2>3. Stamped(Flat(name), Flat(name))
    BY DEF Stamped
  <2>4. FoldersInv'
    BY <1>2, <2>0, <2>2, <2>3, TouchKeeps
  <2> QED BY <1>1, <1>7, <2>4 DEF EvalPlusItself, TablesInv
<1> QED BY <1>3, <1>4, <1>5, <1>6, <1>7

-----------------------------------------------------------------------------
(* A row.                                                                  *)

IsRowKey(key) == \E k : WellNamed(k) /\ Stamped(key, k)

LEMMA ScoredGood ==
  ASSUME NEW k, WellNamed(k), NEW key, Stamped(key, k), NEW dirs, NEW d \in FolderCandidates(dirs, key),
         NEW r, Scored(r, d)
  PROVE GoodScore(key, r) /\ r # NoResult
<1>1. PICK name \in RunNames : Stamped(d, Flat(name)) /\ r \in Results(name) \ {NoResult}
  BY DEF Scored
<1>2. WellNamed(Flat(name))
  BY NamesAssumption
<1>3. r.of = Flat(name) /\ r.v \in Nat /\ r.read /\ r # NoResult
  BY <1>1, ResultsAre
<1>4. QuantOf(key) # Absent => Base(Flat(name)) = Base(key)
  BY <1>1, <1>2, FoldersBelong
<1> QED BY <1>3, <1>4 DEF GoodScore

LEMMA InsideGood ==
  ASSUME FoldersInv, NEW key, IsRowKey(key), NEW p \in DOMAIN Pipelines, NEW b \in DOMAIN Inside(p, key)
  PROVE (Inside(p, key)[b] = NoResult /\ p # "lmeval") \/ GoodScore(key, Inside(p, key)[b])
<1>1. FolderFor(p, key) # {} /\ Inside(p, key) = (CHOOSE f \in FolderFor(p, key) : TRUE).inside
  BY DEF Inside
<1>2. PICK f \in FolderFor(p, key) : Inside(p, key) = f.inside
  BY <1>1
<1>3. PICK d \in FolderCandidates(DOMAIN folders[p], key) : f = folders[p][d]
  BY <1>2 DEF FolderFor
<1>4. d \in DOMAIN folders[p] /\ p \in DOMAIN folders
  BY <1>3 DEF FolderCandidates, FoldersInv
<1>5. FolderInv(p, d)
  BY <1>4 DEF FoldersInv
<1>6. PICK r : r = Inside(p, key)[b]
  OBVIOUS
<1>7. (r = NoResult /\ p # "lmeval") \/ Scored(r, d)
  BY <1>2, <1>3, <1>5, <1>6 DEF FolderInv
<1> QED BY <1>3, <1>6, <1>7, ScoredGood DEF IsRowKey

LEMMA ReadGood ==
  ASSUME FoldersInv, NEW key, IsRowKey(key)
  PROVE /\ \A b \in DOMAIN ReadEvalplus(key) : GoodScore(key, ReadEvalplus(key)[b])
        /\ \A b \in DOMAIN ReadLmeval(key) : GoodScore(key, ReadLmeval(key)[b])
        /\ \A b \in DOMAIN ReadAgentic(key) : GoodScore(key, ReadAgentic(key)[b])
<1>1. "evalplus" \in DOMAIN Pipelines /\ "lmeval" \in DOMAIN Pipelines /\ "agentic" \in DOMAIN Pipelines
  BY OverviewAssumption DEF OverviewAssumption
<1>2. \A b \in DOMAIN ReadLmeval(key) : GoodScore(key, ReadLmeval(key)[b])
  BY <1>1, InsideGood DEF ReadLmeval
<1>3. ASSUME NEW p \in DOMAIN Pipelines, NEW b \in DOMAIN Readable(Inside(p, key))
      PROVE GoodScore(key, Readable(Inside(p, key))[b])
  <2>1. b \in DOMAIN Inside(p, key) /\ Inside(p, key)[b] # NoResult /\ Readable(Inside(p, key))[b] = Inside(p, key)[b]
    BY DEF Readable
  <2> QED BY <2>1, InsideGood
<1>4. \A b \in DOMAIN ReadAgentic(key) : GoodScore(key, ReadAgentic(key)[b])
  BY <1>1, <1>3 DEF ReadAgentic
<1>5. ASSUME NEW b \in DOMAIN ReadEvalplus(key) PROVE GoodScore(key, ReadEvalplus(key)[b])
  <2> DEFINE got == Readable(Inside("evalplus", key))
             zero == [c \in Pipelines["evalplus"] |-> [of |-> key, v |-> 0, read |-> FALSE]]
  <2>1. got # << >> /\ ReadEvalplus(key) = Over(got, zero)
    BY DEF ReadEvalplus
  <2>2. \A c \in DOMAIN got : GoodScore(key, got[c])
    BY <1>1, <1>3
  <2>3. \A c \in DOMAIN zero : GoodScore(key, zero[c])
    BY DEF GoodScore
  <2> HIDE DEF got, zero
  <2> QED BY <2>1, <2>2, <2>3 DEF Over
<1> QED BY <1>2, <1>4, <1>5

LEMMA TablesGood ==
  ASSUME TablesInv, NEW key, IsRowKey(key), NEW ts, ts \subseteq tables, NEW quantless,
         NEW b \in DOMAIN Custom(key, ts, quantless)
  PROVE GoodScore(key, Custom(key, ts, quantless)[b])
<1> DEFINE of == [kind \in {k \in Tabled : TableFor(k, key, ts, quantless) # {}} |->
                  (CHOOSE t \in TableFor(kind, key, ts, quantless) : TRUE).score]
<1>1. b \in DOMAIN of /\ of[b] # NoResult /\ Custom(key, ts, quantless)[b] = of[b]
  BY DEF Custom, Readable
<1>2. TableFor(b, key, ts, quantless) # {} /\ of[b] = (CHOOSE t \in TableFor(b, key, ts, quantless) : TRUE).score
  BY <1>1
<1> HIDE DEF of
<1>3. PICK t \in TableFor(b, key, ts, quantless) : of[b] = t.score
  BY <1>2
<1>4. t \in tables /\ Fits(t, key)
  BY <1>3 DEF TableFor
<1>5. t.key \in RunNames /\ of[b] \in Results(t.key) \ {NoResult}
  BY <1>1, <1>3, <1>4 DEF TablesInv
<1>6. of[b].of = Flat(t.key) /\ of[b].v \in Nat /\ of[b].read
  BY <1>5, ResultsAre
<1>7. QuantOf(key) # Absent => Base(Flat(t.key)) = Base(key)
  BY <1>4, TablesBelong DEF IsRowKey
<1> QED BY <1>1, <1>6, <1>7 DEF GoodScore

LEMMA LatestAreTables ==
  ASSUME NEW cl
  PROVE LatestTables(cl) \subseteq tables
  BY DEF LatestTables, LastModels, Newest

LEMMA KeysAreNames ==
  ASSUME CInv, NEW cl \in CommandLines, NEW ts, ts \subseteq tables, NEW key \in ModelKeys(cl, ts)
  PROVE IsRowKey(key)
<1>1. ASSUME NEW name \in RunNames PROVE IsRowKey(Flat(name))
  BY NamesAssumption DEF IsRowKey, Stamped
<1>2. CASE key \in {Flat(m) : m \in cl.models}
  <2>1. PICK m \in cl.models : key = Flat(m)
    BY <1>2
  <2>2. WellNamed(Flat(m))
    BY NamesAssumption
  <2> QED BY <2>1, <2>2 DEF IsRowKey, Stamped
<1>3. CASE key \in {Flat(t.key) : t \in ts}
  BY <1>1, <1>3 DEF CInv, TablesInv
<1>4. CASE key \in UNION {DOMAIN folders[p] : p \in DOMAIN folders}
  <2>1. PICK p \in DOMAIN folders : key \in DOMAIN folders[p]
    BY <1>4
  <2>2. PICK name \in RunNames : Stamped(key, Flat(name))
    BY <2>1 DEF CInv, FoldersInv, FolderInv
  <2> QED BY <2>2, NamesAssumption DEF IsRowKey
<1> QED BY <1>2, <1>3, <1>4 DEF ModelKeys

LEMMA OverviewKeeps ==
  ASSUME CInv, MakeOverview
  PROVE CInv'
<1>1. PICK cl \in CommandLines, quantless \in BOOLEAN :
         overview' = [key \in ModelKeys(cl, LatestTables(Merged(cl))) |->
                        Row(BenchScores(key, LatestTables(Merged(cl)), cl, quantless))]
  BY DEF MakeOverview
<1>2. PICK ts : ts = LatestTables(Merged(cl))
  OBVIOUS
<1>3. ts \subseteq tables
  BY <1>2, LatestAreTables
<1>4. ASSUME NEW key \in DOMAIN overview'
      PROVE /\ overview'[key] = Row(overview'[key].scores)
            /\ \A b \in DOMAIN overview'[key].scores : GoodScore(key, overview'[key].scores[b])
  <2>1. key \in ModelKeys(cl, ts) /\ overview'[key] = Row(BenchScores(key, ts, cl, quantless))
    BY <1>1, <1>2, <1>4
  <2>2. IsRowKey(key)
    BY <1>3, <2>1, KeysAreNames
  <2>3. PICK scores : scores = BenchScores(key, ts, cl, quantless)
    OBVIOUS
  <2>4. overview'[key] = Row(scores) /\ overview'[key].scores = scores
    BY <2>1, <2>3 DEF Row
  <2>5. ASSUME NEW b \in DOMAIN scores PROVE GoodScore(key, scores[b])
    <3> DEFINE ep == ReadEvalplus(key)
               lm == ReadLmeval(key)
               ag == ReadAgentic(key)
               cu == Custom(key, ts, quantless)
               all == Over(Over(cu, ep), Over(lm, ag))
    <3>1. b \in DOMAIN all /\ scores[b] = all[b]
      BY <2>3 DEF BenchScores
    <3>2. \A c \in DOMAIN cu : GoodScore(key, cu[c])
      BY <1>3, <2>2, TablesGood DEF CInv
    <3>3. /\ \A c \in DOMAIN ep : GoodScore(key, ep[c])
          /\ \A c \in DOMAIN lm : GoodScore(key, lm[c])
          /\ \A c \in DOMAIN ag : GoodScore(key, ag[c])
      BY <2>2, ReadGood DEF CInv
    <3> HIDE DEF ep, lm, ag, cu
    <3> QED BY <3>1, <3>2, <3>3 DEF Over
  <2> QED BY <2>4, <2>5
<1> QED BY <1>4 DEF MakeOverview, CInv, TablesInv, FoldersInv, FolderInv, OverviewInv

THEOREM OverviewInvariant == CSpec => []CInv
<1>1. CInit => CInv
  BY InitOverview
<1>2. CInv /\ [CNext]_cvars => CInv'
  <2> SUFFICES ASSUME CInv, [CNext]_cvars PROVE CInv'
    OBVIOUS
  <2>1. CASE CustomRun \/ LmEvalRun \/ AgenticRun \/ EvalPlusRun \/ EvalPlusItself
    BY <2>1, RunsKeep
  <2>2. CASE MakeOverview
    BY <2>2, OverviewKeeps
  <2>3. CASE End
    BY <2>3 DEF End, CInv, TablesInv, FoldersInv, FolderInv, OverviewInv
  <2>4. CASE UNCHANGED cvars
    BY <2>4 DEF cvars, CInv, TablesInv, FoldersInv, FolderInv, OverviewInv
  <2> QED BY <2>1, <2>2, <2>3, <2>4 DEF CNext
<1> QED BY <1>1, <1>2, PTL DEF CSpec

(* The row of a model and quant never has a score of another model,        *)
(* whatever the models are called: the folders _find_newest_by_mtime finds *)
(* and the tables read_data takes agree with the key up to the "@".        *)
THEOREM RowsAreOfTheirModel == CSpec => []ForeignNeverCounted
<1>1. CInv => ForeignNeverCounted
  BY DEF CInv, OverviewInv, GoodScore, ForeignNeverCounted
<1> QED BY <1>1, OverviewInvariant, PTL

(* compute_category_scores' overall score of every row: there is one as    *)
(* soon as something counts; none is above the highest score that was read,*)
(* and none below the lowest unless read_data put in a 0.                  *)
THEOREM OverallLiesBetween == CSpec => []OverallIsFair
<1>1. CInv => OverallIsFair
  <2> SUFFICES ASSUME CInv, NEW key \in DOMAIN overview,
                      NEW o, o = overview[key].overall, NEW s, s = overview[key].scores
               PROVE /\ (o.of = 0) = (Counted(s) = {})
                     /\ \A v \in {s[b].v : b \in Read(s)} :
                           /\ (\A b \in Read(s) : s[b].v <= v) => o.sum <= 12 * v * o.of
                           /\ Read(s) = Counted(s) /\ (\A b \in Read(s) : s[b].v >= v) => o.sum >= 12 * v * o.of
    BY DEF OverallIsFair
  <2>1. \A b \in DOMAIN s : s[b].v \in Nat /\ (s[b].read \/ s[b].v = 0)
    BY DEF CInv, OverviewInv, GoodScore
  <2>2. o = Overall(s)
    BY DEF CInv, OverviewInv, Row
  <2>3. Fair(o, s)
    BY <2>1, <2>2, OverallBetween
  <2>4. Counted(s) \subseteq DOMAIN s /\ Read(s) \subseteq Counted(s)
    BY DEF Counted, In, Read
  <2>5. ASSUME NEW v \in {s[b].v : b \in Read(s)}, \A b \in Read(s) : s[b].v <= v
        PROVE \A b \in Counted(s) : s[b].v <= v
    <3>1. v \in Nat
      BY <2>1, <2>4
    <3> QED BY <2>1, <2>4, <2>5, <3>1 DEF Read
  <2> QED BY <2>3, <2>4, <2>5 DEF Fair
<1> QED BY <1>1, OverviewInvariant, PTL
=============================================================================
