--------------------------- MODULE RegistryProofs ---------------------------
(***************************************************************************)
(* Theorems about the registry file: what people wrote into it is kept,    *)
(* and what a pipeline found in order stays so until something changes.    *)
(***************************************************************************)
EXTENDS Registry, FoldLemmas, FiniteSetTheorems, TLAPS

-----------------------------------------------------------------------------
(* The folds of the commands.                                              *)

Entries(r) == {r[k] : k \in KeysOf(r)}

(* Renaming keys keeps the entries: none is lost, none is copied.          *)
LEMMA RenamedKeepsEntries ==
  ASSUME NEW r, IsRegistry(r), NEW new, \A k \in KeysOf(r) : IsKey(new[k])
  PROVE IsRegistry(Renamed(r, new)) /\ Entries(Renamed(r, new)) = Entries(r)
<1> DEFINE S == KeysOf(r)
           K == S \cup {new[k] : k \in S}
           U == {q \in UNION {[D -> Entries(r)] : D \in SUBSET K} : TRUE}
           Turn(k, q) == Moved(q, k, new[k])
           F == [x \in S \X U |-> IF Turn(x[1], x[2]) \in U THEN Turn(x[1], x[2]) ELSE r]
           I == {x \in (SUBSET S) \X U : S \ x[1] \subseteq KeysOf(x[2]) /\ Entries(x[2]) = Entries(r)}
<1>1. IsFiniteSet(S) /\ IsFiniteSet(K) /\ \A k \in K : IsKey(k)
  <2>1. IsFiniteSet({new[k] : k \in S})
    BY ImageIsFinite DEF IsRegistry
  <2> QED BY <2>1, FS_Union DEF IsRegistry
<1>2. r \in U
  BY DEF IsRegistry, Entries, KeysOf
<1>3. F \in [S \X U -> U]
  BY <1>2
<1>4. I \in SUBSET ((SUBSET S) \X U) /\ <<{}, r>> \in I
  BY <1>2
<1>5. ASSUME NEW s \in SUBSET S, NEW q \in U, s # {}, <<Rest(s), q>> \in I
      PROVE <<s, Turn(OneOf(s), q)>> \in I
  <2> DEFINE k == OneOf(s)
             n == new[k]
  <2>1. k \in s /\ k \in S /\ Rest(s) = s \ {k} /\ n \in K
    BY <1>1, <1>5, RestIsSmaller DEF Rest
  <2>2. k \in KeysOf(q) /\ S \ (s \ {k}) \subseteq KeysOf(q) /\ Entries(q) = Entries(r)
    BY <1>5, <2>1
  <2>3. CASE n \in KeysOf(q)
    BY <2>1, <2>2, <2>3 DEF Moved
  <2>4. CASE n \notin KeysOf(q)
    <3> DEFINE p == Drop(Put(q, n, q[k]), {k})
    <3>1. KeysOf(p) = (KeysOf(q) \cup {n}) \ {k}
      BY DEF Drop, Put, KeysOf
    <3>2. n # k /\ n \in KeysOf(p) /\ p[n] = q[k]
      BY <2>2, <2>4 DEF Drop, Put, KeysOf
    <3>3. \A j \in KeysOf(q) \ {k} : j \in KeysOf(p) /\ p[j] = q[j]
      BY <2>4 DEF Drop, Put, KeysOf
    <3>4. Entries(p) = Entries(r)
      <4>1. ASSUME NEW e \in Entries(p) PROVE e \in Entries(q)
        <5>1. PICK j \in KeysOf(p) : e = p[j]
          BY <4>1 DEF Entries
        <5>2. CASE j = n
          BY <2>2, <3>2, <5>1, <5>2 DEF Entries
        <5>3. CASE j # n
          BY <3>1, <3>3, <5>1, <5>3 DEF Entries
        <5> QED BY <5>2, <5>3
      <4>2. ASSUME NEW e \in Entries(q) PROVE e \in Entries(p)
        <5>1. PICK j \in KeysOf(q) : e = q[j]
          BY <4>2 DEF Entries
        <5>2. CASE j = k
          BY <3>2, <5>1, <5>2 DEF Entries
        <5>3. CASE j # k
          BY <3>1, <3>3, <5>1, <5>3 DEF Entries
        <5> QED BY <5>2, <5>3
      <4>3. Entries(p) = Entries(q)
        BY <4>1, <4>2
      <4> QED BY <2>2, <4>3
    <3>5. KeysOf(p) \in SUBSET K
      BY <2>1, <3>1 DEF KeysOf
    <3>6. p \in [KeysOf(p) -> Entries(r)]
      <4>1. p = [j \in KeysOf(p) |-> p[j]]
        BY DEF Drop, Put, KeysOf
      <4> QED BY <3>4, <4>1 DEF Entries
    <3>7. p \in U
      BY <3>5, <3>6
    <3>8. S \ s \subseteq KeysOf(p)
      BY <2>1, <2>2, <3>1
    <3>9. Turn(k, q) = p
      BY <2>4 DEF Moved
    <3> QED BY <3>4, <3>7, <3>8, <3>9
  <2> QED BY <2>3, <2>4
<1>6. \A s \in SUBSET S, q \in U : s # {} /\ <<Rest(s), q>> \in I =>
         F[<<OneOf(s), q>>] = Turn(OneOf(s), q) /\ <<s, F[<<OneOf(s), q>>]>> \in I
  <2> SUFFICES ASSUME NEW s \in SUBSET S, NEW q \in U, s # {}, <<Rest(s), q>> \in I
               PROVE F[<<OneOf(s), q>>] = Turn(OneOf(s), q) /\ <<s, F[<<OneOf(s), q>>]>> \in I
    OBVIOUS
  <2>1. <<s, Turn(OneOf(s), q)>> \in I
    BY <1>5
  <2>2. OneOf(s) \in S /\ Turn(OneOf(s), q) \in U
    BY SMTT(40), <1>1, <2>1, RestIsSmaller
  <2> QED BY <2>1, <2>2
<1>7. Keeps(S, U, r, F, I)
  BY <1>1, <1>2, <1>3, <1>4, <1>6 DEF Keeps, Foldable
<1> DEFINE Rec(h) == h = [s \in SUBSET S |-> IF s = {} THEN r ELSE Turn(OneOf(s), h[Rest(s)])]
           h == CHOOSE q : Rec(q)
<1>8. PICK g : FoldOf(S, U, r, F, g) /\ \A s \in SUBSET S : <<s, g[s]>> \in I
  <2> HIDE DEF F, I, U, S
  <2> QED BY <1>7, FoldExistsAndMeets
<1>9. Rec(g)
  <2>1. \A s \in SUBSET S : s # {} => Rest(s) \in SUBSET S
    BY <1>1, RestIsSmaller
  <2>2. \A s \in SUBSET S : g[Rest(s)] \in U \/ Rest(s) \notin SUBSET S
    BY <1>8 DEF FoldOf
  <2> HIDE DEF F, I, U, S, Turn
  <2>3. \A s \in SUBSET S : g[s] = IF s = {} THEN r ELSE Turn(OneOf(s), g[Rest(s)])
    BY <1>6, <1>8, <2>1, <2>2 DEF FoldOf
  <2> QED BY <1>8, <2>3 DEF FoldOf
<1>10. Rec(h)
  BY <1>9
<1>11. <<S, h[S]>> \in I
  <2> HIDE DEF F, I, U, S, h
  <2>1. Does(S, r, F, I, h)
    <3> SUFFICES ASSUME NEW s \in SUBSET S
                 PROVE /\ s = {} => h[s] = r
                       /\ s # {} /\ <<Rest(s), h[Rest(s)]>> \in I => h[s] = F[<<OneOf(s), h[Rest(s)]>>]
      BY DEF Does
    <3> HIDE DEF Turn
    <3>1. h[s] = IF s = {} THEN r ELSE Turn(OneOf(s), h[Rest(s)])
      BY <1>10
    <3>2. <<Rest(s), h[Rest(s)]>> \in I => h[Rest(s)] \in U
      BY <1>7 DEF Keeps
    <3> QED BY <1>6, <3>1, <3>2
  <2> QED BY <1>7, <2>1, FoldMeets
<1>12. Renamed(r, new) = h[S]
  <2> HIDE DEF F, I, U
  <2> QED BY DEF Renamed, FoldSet, MapThenFoldSet, OneOf, Rest
<1>13. h[S] \in U /\ Entries(h[S]) = Entries(r)
  <2> HIDE DEF h
  <2> QED BY <1>11
<1>14. IsRegistry(h[S])
  <2>1. PICK D \in SUBSET K : h[S] \in [D -> Entries(r)]
    BY <1>13
  <2>2. IsFiniteSet(D) /\ KeysOf(h[S]) = D
    BY <1>1, <2>1, FS_Subset DEF KeysOf
  <2>3. \A k \in D : \E j \in KeysOf(r) : h[S][k] = r[j]
    BY <2>1 DEF Entries
  <2> QED BY <1>1, <2>1, <2>2, <2>3 DEF IsRegistry, IsEntry
<1> QED BY <1>12, <1>13, <1>14

(* Adding models only adds entries and removes some.                       *)
LEMMA AddKeepsShape ==
  ASSUME NEW w, IsRegistry(w.reg), NEW models, IsFiniteSet(models)
  PROVE IsRegistry(Add(w, models))
<1> DEFINE S == models
           r == w.reg
           K == KeysOf(r) \cup {AddedKey(l) : l \in S}
           E == Entries(r) \cup {NewEntry(w, l) : l \in S}
           U == {q \in UNION {[D -> E] : D \in SUBSET K} : TRUE}
           Turn(l, q) == Added(q, AddedKey(l), NewEntry(w, l))
           F == [x \in S \X U |-> IF Turn(x[1], x[2]) \in U THEN Turn(x[1], x[2]) ELSE r]
           I == (SUBSET S) \X U
<1>1. IsFiniteSet(S) /\ IsFiniteSet(K) /\ (\A k \in K : IsKey(k)) /\ \A e \in E : IsEntry(e)
  <2> DEFINE f == [l \in S |-> AddedKey(l)]
  <2>1. IsFiniteSet({f[l] : l \in S})
    <3> HIDE DEF f
    <3> QED BY ImageIsFinite
  <2>2. {f[l] : l \in S} = {AddedKey(l) : l \in S}
    OBVIOUS
  <2>3. IsFiniteSet(K)
    BY <2>1, <2>2, FS_Union DEF IsRegistry
  <2>4. \A l \in S : IsKey(AddedKey(l))
    BY DEF AddedKey, LmsKey, IsKey
  <2>5. \A l \in S : IsEntry(NewEntry(w, l))
    BY DEF NewEntry, IsEntry
  <2> QED BY <2>3, <2>4, <2>5 DEF IsRegistry, Entries
<1>2. r \in U
  BY DEF IsRegistry, Entries, KeysOf
<1>3. F \in [S \X U -> U]
  BY <1>2
<1>4. I \in SUBSET ((SUBSET S) \X U) /\ <<{}, r>> \in I
  BY <1>2
<1>5. ASSUME NEW l \in S, NEW q \in U PROVE Turn(l, q) \in U
  <2> DEFINE k == AddedKey(l)
             p == Put(Drop(q, {[k EXCEPT !.quant = Absent]}), k, NewEntry(w, l))
  <2>1. KeysOf(p) \in SUBSET K
    BY <1>5 DEF Put, Drop, KeysOf
  <2>2. p \in [KeysOf(p) -> E]
    <3>1. p = [j \in KeysOf(p) |-> p[j]]
      BY DEF Drop, Put, KeysOf
    <3>2. \A j \in KeysOf(p) : p[j] = NewEntry(w, l) \/ (j \in KeysOf(q) /\ p[j] = q[j])
      BY DEF Drop, Put, KeysOf
    <3>3. \A j \in KeysOf(q) : q[j] \in E
      BY <1>5 DEF KeysOf
    <3> QED BY <3>1, <3>2, <3>3
  <2>3. p \in U
    BY <2>1, <2>2
  <2> QED BY <2>3, <1>5 DEF Added
<1>6. \A s \in SUBSET S, q \in U : s # {} /\ <<Rest(s), q>> \in I =>
         F[<<OneOf(s), q>>] = Turn(OneOf(s), q) /\ <<s, F[<<OneOf(s), q>>]>> \in I
  <2> SUFFICES ASSUME NEW s \in SUBSET S, NEW q \in U, s # {}, <<Rest(s), q>> \in I
               PROVE F[<<OneOf(s), q>>] = Turn(OneOf(s), q) /\ <<s, F[<<OneOf(s), q>>]>> \in I
    OBVIOUS
  <2>1. OneOf(s) \in S
    BY <1>1, RestIsSmaller
  <2>2. Turn(OneOf(s), q) \in U
    BY <1>5, <2>1
  <2> QED BY <2>1, <2>2
<1>7. Keeps(S, U, r, F, I)
  BY <1>1, <1>2, <1>3, <1>4, <1>6 DEF Keeps, Foldable
<1> DEFINE Rec(h) == h = [s \in SUBSET S |-> IF s = {} THEN r ELSE Turn(OneOf(s), h[Rest(s)])]
           h == CHOOSE q : Rec(q)
<1>8. PICK g : FoldOf(S, U, r, F, g) /\ \A s \in SUBSET S : <<s, g[s]>> \in I
  <2> HIDE DEF F, I, U, S
  <2> QED BY <1>7, FoldExistsAndMeets
<1>9. Rec(g)
  <2>1. \A s \in SUBSET S : s # {} => Rest(s) \in SUBSET S
    BY <1>1, RestIsSmaller
  <2>2. \A s \in SUBSET S : g[Rest(s)] \in U \/ Rest(s) \notin SUBSET S
    BY <1>8 DEF FoldOf
  <2> HIDE DEF F, I, U, S, Turn
  <2>3. \A s \in SUBSET S : g[s] = IF s = {} THEN r ELSE Turn(OneOf(s), g[Rest(s)])
    BY <1>6, <1>8, <2>1, <2>2 DEF FoldOf
  <2> QED BY <1>8, <2>3 DEF FoldOf
<1>10. Rec(h)
  BY <1>9
<1>11. <<S, h[S]>> \in I
  <2> HIDE DEF F, I, U, S, h
  <2>1. Does(S, r, F, I, h)
    <3> SUFFICES ASSUME NEW s \in SUBSET S
                 PROVE /\ s = {} => h[s] = r
                       /\ s # {} /\ <<Rest(s), h[Rest(s)]>> \in I => h[s] = F[<<OneOf(s), h[Rest(s)]>>]
      BY DEF Does
    <3> HIDE DEF Turn
    <3>1. h[s] = IF s = {} THEN r ELSE Turn(OneOf(s), h[Rest(s)])
      BY <1>10
    <3>2. <<Rest(s), h[Rest(s)]>> \in I => h[Rest(s)] \in U
      BY <1>7 DEF Keeps
    <3> QED BY <1>6, <3>1, <3>2
  <2> QED BY <1>7, <2>1, FoldMeets
<1>12. Add(w, models) = h[S]
  <2> HIDE DEF F, I, U
  <2> QED BY DEF Add, FoldSet, MapThenFoldSet, OneOf, Rest
<1>13. h[S] \in U
  <2> HIDE DEF h
  <2> QED BY <1>11
<1>14. IsRegistry(h[S])
  <2>1. PICK D \in SUBSET K : h[S] \in [D -> E]
    BY <1>13
  <2>2. IsFiniteSet(D) /\ KeysOf(h[S]) = D
    BY <1>1, <2>1, FS_Subset DEF KeysOf
  <2>3. \A k \in D : h[S][k] \in E
    BY <2>1
  <2> HIDE DEF E, K, h
  <2> QED BY <1>1, <2>1, <2>2, <2>3 DEF IsRegistry
<1> QED BY <1>12, <1>14

(* An entry that takes over what others say keeps its shape.               *)
LEMMA MergedKeepsShape ==
  ASSUME NEW r, IsRegistry(r), NEW e, IsEntry(e), NEW as \in SUBSET KeysOf(r)
  PROVE IsEntry(Merged(r, e, as))
<1> DEFINE S == as
           Fields == DOMAIN BlankEntry
           H == e.hand \cup UNION {r[a].hand : a \in S}
           V == {e[f] : f \in Fields} \cup {r[m[1]][m[2]] : m \in S \X Fields} \cup SUBSET H
           U == {e} \cup [Fields -> V]
           Turn(a, q) == MergeMissing(q, r[a])
           F == [x \in S \X U |-> IF Turn(x[1], x[2]) \in U THEN Turn(x[1], x[2]) ELSE e]
           I == {x \in (SUBSET S) \X U : x[2].hand \subseteq H /\ \A f \in Fields : x[2][f] \in V}
<1>1. IsFiniteSet(S) /\ "hand" \in Fields
  BY FS_Subset DEF IsRegistry, BlankEntry
<1>2. e \in U
  OBVIOUS
<1>3. F \in [S \X U -> U]
  BY <1>2
<1>4. I \in SUBSET ((SUBSET S) \X U) /\ <<{}, e>> \in I
  BY <1>2
<1>5. ASSUME NEW a \in S, NEW q \in U, q.hand \subseteq H, \A f \in Fields : q[f] \in V
      PROVE Turn(a, q) \in U /\ Turn(a, q).hand \subseteq H /\ \A f \in Fields : Turn(a, q)[f] \in V
  <2> DEFINE p == MergeMissing(q, r[a])
  <2>1. DOMAIN q = Fields
    BY DEF IsEntry
  <2>2. p = [f \in Fields |-> p[f]]
    BY <2>1 DEF MergeMissing
  <2>3. p.hand \subseteq H
    <3>1. r[a].hand \subseteq H
      OBVIOUS
    <3>2. p.hand = q.hand \cup {x \in r[a].hand : ~Overruled(x, q.hand)}
      BY <1>1, <2>1 DEF MergeMissing
    <3> HIDE DEF H, p
    <3> QED BY <1>5, <3>1, <3>2
  <2>4. ASSUME NEW f \in Fields PROVE p[f] \in V
    <3>1. CASE f = "hand"
      BY <2>3, <3>1
    <3>2. CASE f # "hand"
      <4>1. p[f] \in {q[f], r[a][f]}
        BY <2>1, <3>2 DEF MergeMissing
      <4>2. r[a][f] \in V
        <5>1. <<a, f>> \in S \X Fields
          OBVIOUS
        <5> DEFINE m == <<a, f>>
        <5>2. m \in S \X Fields /\ r[a][f] = r[m[1]][m[2]]
          BY <5>1
        <5> HIDE DEF Fields, m, H
        <5> QED BY <5>2
      <4> QED BY <1>5, <4>1, <4>2
    <3> QED BY <3>1, <3>2
  <2>5. p \in [Fields -> V]
    <3> HIDE DEF p, V, Fields
    <3> QED BY <2>2, <2>4
  <2> QED BY <2>3, <2>4, <2>5
<1>6. \A s \in SUBSET S, q \in U : s # {} /\ <<Rest(s), q>> \in I =>
         F[<<OneOf(s), q>>] = Turn(OneOf(s), q) /\ <<s, F[<<OneOf(s), q>>]>> \in I
  <2> SUFFICES ASSUME NEW s \in SUBSET S, NEW q \in U, s # {}, <<Rest(s), q>> \in I
               PROVE F[<<OneOf(s), q>>] = Turn(OneOf(s), q) /\ <<s, F[<<OneOf(s), q>>]>> \in I
    OBVIOUS
  <2>1. OneOf(s) \in S
    BY <1>1, RestIsSmaller
  <2>2. q.hand \subseteq H /\ \A f \in Fields : q[f] \in V
    OBVIOUS
  <2> HIDE DEF U, V, H, Fields, Turn
  <2>3. Turn(OneOf(s), q) \in U /\ Turn(OneOf(s), q).hand \subseteq H /\ \A f \in Fields : Turn(OneOf(s), q)[f] \in V
    BY <1>5, <2>1, <2>2
  <2> QED BY <2>1, <2>3
<1>7. Keeps(S, U, e, F, I)
  BY <1>1, <1>2, <1>3, <1>4, <1>6 DEF Keeps, Foldable
<1> DEFINE Rec(h) == h = [s \in SUBSET S |-> IF s = {} THEN e ELSE Turn(OneOf(s), h[Rest(s)])]
           h == CHOOSE q : Rec(q)
<1>8. PICK g : FoldOf(S, U, e, F, g) /\ \A s \in SUBSET S : <<s, g[s]>> \in I
  <2> HIDE DEF F, I, U, S
  <2> QED BY <1>7, FoldExistsAndMeets
<1>9. Rec(g)
  <2>1. \A s \in SUBSET S : s # {} => Rest(s) \in SUBSET S
    BY <1>1, RestIsSmaller
  <2>2. \A s \in SUBSET S : g[Rest(s)] \in U \/ Rest(s) \notin SUBSET S
    BY <1>8 DEF FoldOf
  <2> HIDE DEF F, I, U, S, Turn
  <2>3. \A s \in SUBSET S : g[s] = IF s = {} THEN e ELSE Turn(OneOf(s), g[Rest(s)])
    BY <1>6, <1>8, <2>1, <2>2 DEF FoldOf
  <2> QED BY <1>8, <2>3 DEF FoldOf
<1>10. Rec(h)
  BY <1>9
<1>11. <<S, h[S]>> \in I
  <2> HIDE DEF F, I, U, S, h
  <2>1. Does(S, e, F, I, h)
    <3> SUFFICES ASSUME NEW s \in SUBSET S
                 PROVE /\ s = {} => h[s] = e
                       /\ s # {} /\ <<Rest(s), h[Rest(s)]>> \in I => h[s] = F[<<OneOf(s), h[Rest(s)]>>]
      BY DEF Does
    <3> HIDE DEF Turn
    <3>1. h[s] = IF s = {} THEN e ELSE Turn(OneOf(s), h[Rest(s)])
      BY <1>10
    <3>2. <<Rest(s), h[Rest(s)]>> \in I => h[Rest(s)] \in U
      BY <1>7 DEF Keeps
    <3> QED BY <1>6, <3>1, <3>2
  <2> QED BY <1>7, <2>1, FoldMeets
<1>12. Merged(r, e, as) = h[S]
  <2> HIDE DEF F, I, U
  <2> QED BY DEF Merged, FoldSet, MapThenFoldSet, OneOf, Rest
<1>13. h[S] \in U
  <2> HIDE DEF h, U, V
  <2> QED BY <1>11
<1>14. IsEntry(h[S])
  <2> HIDE DEF h, V
  <2> QED BY <1>13 DEF IsEntry
<1> QED BY <1>12, <1>14

-----------------------------------------------------------------------------
(* Commands that go through the entries one by one change no key, and      *)
(* nothing a person wrote.                                                 *)

SaysTheSame(r, q) ==
    /\ KeysOf(q) = KeysOf(r) /\ q = [k \in KeysOf(r) |-> q[k]]
    /\ \A k \in KeysOf(r) : DOMAIN q[k] = DOMAIN r[k] /\ q[k].hand = r[k].hand

LEMMA SayingTheSame ==
  ASSUME NEW r, IsRegistry(r), NEW q, SaysTheSame(r, q)
  PROVE IsRegistry(q) /\ Facts(q) = Facts(r)
BY DEF SaysTheSame, IsRegistry, IsEntry, Facts

LEMMA SavedSays ==
  ASSUME NEW r, IsRegistry(r)
  PROVE SaysTheSame(r, Saved(r))
BY DEF Saved, Each, SaysTheSame, KeysOf, IsRegistry, IsEntry, BlankEntry

LEMMA FillCtxSays ==
  ASSUME NEW r, IsRegistry(r)
  PROVE SaysTheSame(r, FillCtx(r))
BY DEF FillCtx, Each, SaysTheSame, KeysOf, IsRegistry, IsEntry, BlankEntry

LEMMA FixCtxSays ==
  ASSUME NEW r, IsRegistry(r)
  PROVE SaysTheSame(r, FixCtx(r))
BY DEF FixCtx, Each, SaysTheSame, KeysOf, IsRegistry, IsEntry, BlankEntry

LEMMA FillSizeSays ==
  ASSUME NEW w, NEW refresh, IsRegistry(w.reg)
  PROVE SaysTheSame(w.reg, FillSize(w, refresh))
BY SMTT(40) DEF FillSize, Each, SaysTheSame, KeysOf, IsRegistry, IsEntry, BlankEntry

LEMMA FillArchSays ==
  ASSUME NEW w, IsRegistry(w.reg)
  PROVE SaysTheSame(w.reg, FillArch(w))
BY ZenonT(40) DEF FillArch, Each, SaysTheSame, KeysOf, IsRegistry, IsEntry, BlankEntry

LEMMA SyncFromGgufSays ==
  ASSUME NEW w, IsRegistry(w.reg)
  PROVE SaysTheSame(w.reg, SyncFromGguf(w))
BY DEF SyncFromGguf, Each, SaysTheSame, KeysOf, IsRegistry, IsEntry, BlankEntry

LEMMA FillReasoningSays ==
  ASSUME NEW w, IsRegistry(w.reg)
  PROVE SaysTheSame(w.reg, FillReasoning(w))
BY DEF FillReasoning, Each, SaysTheSame, KeysOf, IsRegistry, IsEntry, BlankEntry

LEMMA ResearchSays ==
  ASSUME NEW r, NEW v, NEW force, IsRegistry(r)
  PROVE SaysTheSame(r, Research(r, v, force))
BY DEF Research, Each, SaysTheSame, KeysOf, IsRegistry, IsEntry, BlankEntry

LEMMA ClassifiedSays ==
  ASSUME NEW r, IsRegistry(r)
  PROVE SaysTheSame(r, Classified(r))
BY DEF Classified, Each, SaysTheSame, KeysOf, IsRegistry, IsEntry, BlankEntry

LEMMA SyncFromConfigsSays ==
  ASSUME NEW w, NEW fields, IsRegistry(w.reg)
  PROVE SaysTheSame(w.reg, SyncFromConfigs(w, fields))
<1> DEFINE r == w.reg
           q == SyncFromConfigs(w, fields)
<1>1. KeysOf(q) = KeysOf(r) /\ q = [k \in KeysOf(r) |-> q[k]]
  <2>1. KeysOf(q) = KeysOf(r)
    BY DEF SyncFromConfigs, Each, KeysOf
  <2>2. q = [k \in KeysOf(r) |-> q[k]]
    BY DEF SyncFromConfigs, Each, KeysOf
  <2> QED BY <2>1, <2>2
<1>2. ASSUME NEW k \in KeysOf(r)
      PROVE \E a, b, c : q[k] = [r[k] EXCEPT !.ctx = a, !.experts = b, !.kv = c]
  BY ZenonT(40), <1>2 DEF SyncFromConfigs, Imported, Each, KeysOf
<1>3. ASSUME NEW k \in KeysOf(r) PROVE DOMAIN q[k] = DOMAIN r[k] /\ q[k].hand = r[k].hand
  <2>1. IsEntry(r[k])
    BY DEF IsRegistry
  <2>2. PICK a, b, c : q[k] = [r[k] EXCEPT !.ctx = a, !.experts = b, !.kv = c]
    BY <1>2
  <2> HIDE DEF q, r
  <2> QED BY <2>1, <2>2 DEF IsEntry, BlankEntry
<1> QED BY <1>1, <1>3 DEF SaysTheSame

LEMMA MaterializeSays ==
  ASSUME NEW w, IsRegistry(w.reg)
  PROVE SaysTheSame(w.reg, Materialize(w))
<1> DEFINE r == w.reg
           q == Materialize(w)
           Same(e, d) == DOMAIN d = DOMAIN e /\ d.hand = e.hand
<1>1. KeysOf(q) = KeysOf(r) /\ q = [k \in KeysOf(r) |-> q[k]]
  <2>1. KeysOf(q) = KeysOf(r)
    BY DEF Materialize, Each, KeysOf
  <2>2. q = [k \in KeysOf(r) |-> q[k]]
    BY DEF Materialize, Each, KeysOf
  <2> QED BY <2>1, <2>2
<1>2. ASSUME NEW e, IsEntry(e), NEW v, NEW u
      PROVE /\ Same(e, [e EXCEPT !.path = v]) /\ Same(e, [e EXCEPT !.spec = v])
            /\ Same(e, [e EXCEPT !.config = v, !.scope = u]) /\ Same(e, [e EXCEPT !.spec = v, !.companion = u])
  BY <1>2 DEF IsEntry, BlankEntry
<1>3. ASSUME NEW e, IsEntry(e), NEW main, NEW c PROVE Same(e, WithProfile(w, e, main, c))
  <2> HIDE DEF Same
  <2>1. Same(e, e)
    BY DEF Same
  <2> QED BY ZenonT(40), <1>2, <1>3, <2>1 DEF WithProfile
<1>4. ASSUME NEW e, IsEntry(e) PROVE Same(e, DropUnresolvable(w, e))
  <2> HIDE DEF Same
  <2>1. Same(e, e)
    BY DEF Same
  <2> QED BY <1>2, <1>4, <2>1 DEF DropUnresolvable
<1>5. ASSUME NEW k \in KeysOf(r) PROVE Same(r[k], q[k])
  <2> DEFINE e     == r[k]
             main  == CHOOSE f \in Evidence(w, k) : TRUE
             c     == Binding(w, k)
             quiet == IF e.policy = "disabled" THEN [e EXCEPT !.spec = NoProfile, !.companion = NoFile] ELSE e
             here  == [quiet EXCEPT !.path = main]
             bound == [here EXCEPT !.config = c, !.scope = IF e.config = NoConf THEN "gguf" ELSE @]
  <2>1. q[k] \in {e, DropUnresolvable(w, here), bound, WithProfile(w, bound, main, c)}
    BY <1>5 DEF Materialize, Localized, Each, KeysOf
  <2>2. IsEntry(e) /\ Same(e, e)
    BY DEF IsRegistry
  <2>3. IsEntry(quiet) /\ Same(e, quiet)
    BY <1>2, <2>2 DEF IsEntry
  <2>4. IsEntry(here) /\ Same(e, here)
    <3> HIDE DEF quiet
    <3> QED BY <1>2, <2>3 DEF IsEntry
  <2>5. IsEntry(bound) /\ Same(e, bound)
    <3>1. \E u : bound = [here EXCEPT !.config = c, !.scope = u]
      BY Zenon
    <3> HIDE DEF here, bound
    <3> QED BY <1>2, <2>4, <3>1 DEF IsEntry
  <2>6. Same(here, DropUnresolvable(w, here)) /\ Same(bound, WithProfile(w, bound, main, c))
    <3> HIDE DEF here, bound, Same
    <3> QED BY <1>3, <1>4, <2>4, <2>5
  <2>7. Same(e, DropUnresolvable(w, here)) /\ Same(e, WithProfile(w, bound, main, c))
    <3> HIDE DEF e, quiet, here, bound, main, c
    <3> QED BY <2>4, <2>5, <2>6
  <2> HIDE DEF quiet, here, bound, main, c, q, Same
  <2> QED BY <2>1, <2>2, <2>5, <2>7
<1> QED BY <1>1, <1>5 DEF SaysTheSame

-----------------------------------------------------------------------------
(* Commands that change keys.                                              *)

LEMMA SameEntriesSameFacts ==
  ASSUME NEW r, NEW q, Entries(r) = Entries(q)
  PROVE Facts(r) = Facts(q)
<1>1. ASSUME NEW p PROVE Facts(p) = UNION {e.hand : e \in Entries(p)}
  BY DEF Facts, Entries
<1>2. Facts(r) = UNION {e.hand : e \in Entries(r)} /\ Facts(q) = UNION {e.hand : e \in Entries(q)}
  BY <1>1
<1> QED BY <1>2

LEMMA RekeyKeeps ==
  ASSUME NEW r, IsRegistry(r), NEW models
  PROVE IsRegistry(Rekey(r, models)) /\ Facts(Rekey(r, models)) = Facts(r)
<1> DEFINE new == [k \in KeysOf(r) |-> IF k \in Excluded \/ LmsRecords(k, models) = {} THEN k
                                       ELSE NewKeyOf(k, CHOOSE l \in LmsRecords(k, models) : TRUE)]
<1>1. \A k \in KeysOf(r) : IsKey(new[k])
  <2>1. \A k \in KeysOf(r) : IsKey(k)
    BY DEF IsRegistry
  <2>2. \A k, l : IsKey(k) => IsKey(NewKeyOf(k, l))
    BY DEF NewKeyOf, LmsKey, IsKey
  <2> QED BY <2>1, <2>2
<1>2. Rekey(r, models) = Renamed(r, new)
  BY DEF Rekey
<1> HIDE DEF new
<1> QED BY <1>1, <1>2, RenamedKeepsEntries, SameEntriesSameFacts

LEMMA FillQuantKeeps ==
  ASSUME NEW w, IsRegistry(w.reg)
  PROVE IsRegistry(FillQuant(w)) /\ Facts(FillQuant(w)) = Facts(w.reg)
<1> DEFINE r == w.reg
           links == Refreshed(Joined(w))
           proven(k) == Cardinality(Proposals(w, k)) = 1
                        /\ \A f \in Proposals(w, k) : Cardinality(Evidence(links, f)) = 1
           new == [k \in KeysOf(r) |-> IF proven(k) THEN CHOOSE f \in Proposals(w, k) : TRUE ELSE k]
<1>1. ASSUME NEW k \in KeysOf(r) PROVE IsKey(new[k])
  <2>1. IsKey(k)
    BY DEF IsRegistry
  <2>2. Cardinality({}) = 0
    BY FS_EmptySet
  <2>3. proven(k) => Proposals(w, k) # {}
    BY <2>2
  <2>4. \A f \in Proposals(w, k) : IsKey(f)
    BY <2>1 DEF Proposals, IsKey
  <2> HIDE DEF proven
  <2> QED BY <2>1, <2>3, <2>4
<1>2. FillQuant(w) = Renamed(r, new)
  BY DEF FillQuant
<1> HIDE DEF new
<1> QED BY <1>1, <1>2, RenamedKeepsEntries, SameEntriesSameFacts

LEMMA DropKeeps ==
  ASSUME NEW r, IsRegistry(r), NEW ks
  PROVE /\ IsRegistry(Drop(r, ks))
        /\ Facts(r) \subseteq Facts(Drop(r, ks)) \cup UNION {r[k].hand : k \in ks \cap KeysOf(r)}
<1>1. KeysOf(Drop(r, ks)) = KeysOf(r) \ ks /\ \A k \in KeysOf(r) \ ks : Drop(r, ks)[k] = r[k]
  BY DEF Drop, KeysOf
<1>2. IsFiniteSet(KeysOf(r) \ ks)
  BY FS_Difference DEF IsRegistry
<1>3. Drop(r, ks) = [k \in KeysOf(Drop(r, ks)) |-> Drop(r, ks)[k]]
  BY DEF Drop, KeysOf
<1> QED BY <1>1, <1>2, <1>3 DEF IsRegistry, Facts

LEMMA EditKeepsShape ==
  ASSUME NEW r, IsRegistry(r), NEW k \in KeysOf(r), NEW edit
  PROVE IsRegistry([r EXCEPT ![k] = Edited(@, edit)])
<1> DEFINE q == [r EXCEPT ![k] = Edited(@, edit)]
<1>1. KeysOf(q) = KeysOf(r) /\ q = [j \in KeysOf(q) |-> q[j]]
  BY DEF KeysOf
<1>2. \A j \in KeysOf(r) : IsEntry(q[j])
  BY DEF KeysOf, IsRegistry, IsEntry, Edited
<1> QED BY <1>1, <1>2 DEF IsRegistry

(* A moved entry keeps all it says, or what it does not keep is given up.  *)
LEMMA MigrateKeeps ==
  ASSUME NEW r, IsRegistry(r), NEW pubOf
  PROVE IsRegistry(Migrate(r, pubOf)) /\ Facts(r) \subseteq Facts(Migrate(r, pubOf)) \cup GivenUp(r, pubOf)
<1> DEFINE q == Migrate(r, pubOf)
           moving == Moving(r, pubOf)
           news == {Published(k, pubOf) : k \in moving}
           from(j) == {k \in moving : Published(k, pubOf) = j}
<1>1. KeysOf(q) = (KeysOf(r) \ moving) \cup news /\ q = [j \in KeysOf(q) |-> q[j]]
  BY DEF Migrate, KeysOf
<1>2. \A k \in moving : k \in KeysOf(r) /\ k.pub = Absent /\ IsKey(Published(k, pubOf))
                        /\ Published(k, pubOf).pub = pubOf[k] /\ pubOf[k] # Absent
  BY DEF Moving, Published, IsRegistry, IsKey
<1>3. \A k \in moving : Published(k, pubOf) \notin moving /\ from(Published(k, pubOf)) = {k}
  <2>1. ASSUME NEW k \in moving, NEW j \in moving, Published(k, pubOf) = Published(j, pubOf) PROVE k = j
    <3>1. IsKey(k) /\ IsKey(j) /\ k.pub = j.pub
      BY <1>2 DEF IsRegistry
    <3>2. k.model = Published(k, pubOf).model /\ j.model = Published(j, pubOf).model
      BY <3>1 DEF Published, IsKey
    <3>3. k.quant = Published(k, pubOf).quant /\ j.quant = Published(j, pubOf).quant
      BY <3>1 DEF Published, IsKey
    <3> QED BY <2>1, <3>1, <3>2, <3>3 DEF IsKey
  <2> HIDE DEF moving
  <2> QED BY <1>2, <2>1
<1>4. \A e, o : DOMAIN MergeWhole(e, o) = DOMAIN e
  BY DEF MergeWhole
<1>5. ASSUME NEW e, IsEntry(e), NEW o
      PROVE MergeWhole(e, o).hand = e.hand \cup {x \in o.hand : ~Overruled(x, e.hand)}
  <2>1. "hand" \in DOMAIN e /\ "hand" \notin LocalFields
    BY <1>5 DEF IsEntry, BlankEntry, LocalFields
  <2>2. MergeMissing(e, o)["hand"] = e.hand \cup {x \in o.hand : ~Overruled(x, e.hand)}
    BY <2>1 DEF MergeMissing
  <2> QED BY <2>1, <2>2 DEF MergeWhole
<1>6. ASSUME NEW j \in KeysOf(r) \ moving, from(j) = {} PROVE q[j] = r[j]
  BY <1>6 DEF Migrate
<1>7. ASSUME NEW k \in moving
      PROVE LET j == Published(k, pubOf) IN
            q[j] = IF j \in KeysOf(r) THEN MergeWhole(r[j], r[k]) ELSE r[k]
  <2> DEFINE j == Published(k, pubOf)
  <2>1. from(j) = {k} /\ j \in news
    BY <1>3
  <2> QED BY <2>1 DEF Migrate
<1>8. IsFiniteSet(KeysOf(q))
  <2> DEFINE f == [k \in moving |-> Published(k, pubOf)]
  <2>1. IsFiniteSet(moving) /\ IsFiniteSet(KeysOf(r) \ moving)
    BY FS_Subset, FS_Difference DEF IsRegistry, Moving
  <2>2. IsFiniteSet({f[k] : k \in moving})
    <3> HIDE DEF f, moving
    <3> QED BY <2>1, ImageIsFinite
  <2>3. {f[k] : k \in moving} = news
    OBVIOUS
  <2>4. IsFiniteSet(news)
    BY <2>2, <2>3
  <2>5. IsFiniteSet((KeysOf(r) \ moving) \cup news)
    <3> HIDE DEF moving, news
    <3> QED BY <2>1, <2>4, FS_Union
  <2> HIDE DEF q, moving, news
  <2>6. KeysOf(q) = (KeysOf(r) \ moving) \cup news
    BY <1>1
  <2> QED BY <2>5, <2>6
<1>9. ASSUME NEW j \in KeysOf(q) PROVE IsKey(j) /\ IsEntry(q[j])
  <2>1. CASE from(j) = {}
    <3>1. j \in KeysOf(r) \ moving
      BY <1>1, <1>9, <2>1
    <3> HIDE DEF q, from, moving
    <3> QED BY <1>6, <2>1, <3>1 DEF IsRegistry
  <2>2. CASE from(j) # {}
    <3>1. PICK k \in moving : j = Published(k, pubOf)
      BY <2>2
    <3>2. q[j] = IF j \in KeysOf(r) THEN MergeWhole(r[j], r[k]) ELSE r[k]
      BY <1>7, <3>1
    <3> HIDE DEF q, from, moving
    <3> QED BY <1>2, <1>4, <3>1, <3>2 DEF IsRegistry, IsEntry
  <2> QED BY <2>1, <2>2
<1>10. ASSUME NEW k \in KeysOf(r) PROVE r[k].hand \subseteq Facts(q) \cup GivenUp(r, pubOf)
  <2>0. \A j \in KeysOf(q) : q[j].hand \subseteq Facts(q)
    BY DEF Facts
  <2>1. CASE k \notin moving /\ from(k) = {}
    <3>1. q[k] = r[k] /\ k \in KeysOf(q)
      BY <1>1, <1>6, <2>1
    <3> HIDE DEF q
    <3> QED BY <2>0, <3>1
  <2>2. CASE k \notin moving /\ from(k) # {}
    <3>1. PICK m \in moving : k = Published(m, pubOf)
      BY <2>2
    <3>2. q[k] = MergeWhole(r[k], r[m]) /\ k \in KeysOf(q)
      BY <1>1, <1>7, <3>1
    <3>3. IsEntry(r[k])
      BY DEF IsRegistry
    <3> HIDE DEF q, from, moving
    <3>4. r[k].hand \subseteq q[k].hand
      BY <1>5, <3>2, <3>3
    <3> QED BY <2>0, <3>2, <3>4
  <2>3. CASE k \in moving
    <3> DEFINE j == Published(k, pubOf)
    <3>1. q[j] = IF j \in KeysOf(r) THEN MergeWhole(r[j], r[k]) ELSE r[k]
      BY <1>7, <2>3
    <3>2. j \in KeysOf(q)
      BY <1>1, <2>3
    <3>3. CASE j \notin KeysOf(r)
      <4> HIDE DEF q, j
      <4> QED BY <2>0, <3>1, <3>2, <3>3
    <3>4. CASE j \in KeysOf(r)
      <4>1. IsEntry(r[j])
        BY <3>4 DEF IsRegistry
      <4>2. {x \in r[k].hand : ~Overruled(x, r[j].hand)} \subseteq q[j].hand
        <5> HIDE DEF q, j
        <5> QED BY <1>5, <3>1, <3>4, <4>1
      <4>3. \A x \in r[k].hand : Overruled(x, r[j].hand) => x \in GivenUp(r, pubOf)
        <5> HIDE DEF q
        <5> QED BY <2>3, <3>4 DEF GivenUp
      <4> HIDE DEF q, j
      <4> QED BY <2>0, <3>2, <4>2, <4>3
    <3> QED BY <3>3, <3>4
  <2> QED BY <2>1, <2>2, <2>3
<1>11. Facts(r) \subseteq Facts(q) \cup GivenUp(r, pubOf)
  <2> HIDE DEF q
  <2> QED BY <1>10 DEF Facts
<1>12. IsRegistry(q)
  <2> HIDE DEF q
  <2> QED BY <1>1, <1>8, <1>9 DEF IsRegistry
<1> QED BY <1>11, <1>12

LEMMA DedupedKeepsShape ==
  ASSUME NEW w, IsRegistry(w.reg)
  PROVE IsRegistry(Deduped(w))
<1> DEFINE r == w.reg
           q == Deduped(w)
           aliases == UNION {Sharing(r, f) \ Keeper(w, f) : f \in SharedFiles(r)}
           mine(k) == {a \in aliases : r[a].path = r[k].path}
<1>1. KeysOf(q) = KeysOf(r) \ aliases /\ q = [k \in KeysOf(q) |-> q[k]]
  BY DEF Deduped, KeysOf
<1>2. ASSUME NEW k \in KeysOf(q) PROVE q[k] = r[k] \/ q[k] = Merged(r, r[k], mine(k))
  BY <1>1, <1>2 DEF Deduped
<1>3. ASSUME NEW k \in KeysOf(q) PROVE IsEntry(q[k])
  <2>1. aliases \subseteq KeysOf(r)
    BY DEF Sharing
  <2>2. mine(k) \in SUBSET KeysOf(r) /\ IsEntry(r[k])
    BY <1>1, <1>3, <2>1 DEF IsRegistry
  <2>3. IsEntry(Merged(r, r[k], mine(k)))
    <3> HIDE DEF mine
    <3> QED BY <2>2, MergedKeepsShape
  <2> HIDE DEF q, mine, aliases
  <2> QED BY <1>2, <2>2, <2>3
<1>4. IsFiniteSet(KeysOf(q))
  <2>1. IsFiniteSet(KeysOf(r) \ aliases)
    <3> HIDE DEF aliases
    <3> QED BY FS_Difference DEF IsRegistry
  <2> HIDE DEF q, aliases
  <2>2. KeysOf(q) = KeysOf(r) \ aliases
    BY <1>1
  <2> QED BY <2>1, <2>2
<1>5. IsRegistry(q)
  <2>1. \A k \in KeysOf(q) : k \in KeysOf(r)
    BY <1>1
  <2> HIDE DEF q
  <2> QED BY <1>1, <1>3, <1>4, <2>1 DEF IsRegistry
<1> QED BY <1>5

-----------------------------------------------------------------------------
(* What is kept.                                                           *)

Archived(bs) == UNION {b.hand : b \in bs}

Alike(m, r) ==
    /\ KeysOf(m) = KeysOf(r)
    /\ \A k \in KeysOf(r) : m[k].path = r[k].path /\ m[k].config = r[k].config /\ m[k].hand = r[k].hand

Shape ==
    /\ IsRegistry(reg) /\ disk \subseteq Files /\ lms \subseteq Models /\ IsFiniteSet(DOMAIN confs)
    /\ DOMAIN cmd = DOMAIN Idle /\ cmd.files \subseteq Files /\ IsFiniteSet(cmd.moved)

(* The registry from before the classification says the same of the files. *)
Remembered ==
    cmd.name = "sync" /\ cmd.step \in {"classify", "bind"} => IsRegistry(cmd.mem) /\ Alike(cmd.mem, reg)

(* What is in this quarantine's backup is still in the registry, and what  *)
(* the quarantine will take out is in a backup.                            *)
Quarantined ==
    cmd.name = "quarantine" =>
       /\ cmd.keys \subseteq KeysOf(reg) /\ Archived(cmd.backup) \subseteq Facts(reg)
       /\ cmd.step = "save" => \A k \in cmd.keys : reg[k].hand \subseteq Archived(backups)

KInv == Shape /\ Remembered /\ Quarantined /\ DataKept

LEMMA InitKept == Init => KInv
<1> SUFFICES ASSUME Init PROVE KInv
  OBVIOUS
<1>1. IsRegistry(reg) /\ IsFiniteSet(DOMAIN confs)
  BY RegistryAssumption DEF Init
<1>2. cmd = Idle /\ IsFiniteSet({})
  BY FS_EmptySet DEF Init
<1>3. disk \subseteq Files /\ lms \subseteq Models
  BY DEF Init
<1>4. DataKept
  BY DEF Init, DataKept
<1> QED BY <1>1, <1>2, <1>3, <1>4 DEF KInv, Shape, Remembered, Quarantined, Idle

LEMMA SavedAlike ==
  ASSUME NEW r, IsRegistry(r) PROVE Alike(r, Saved(r))
BY DEF Saved, Each, Alike, KeysOf, IsRegistry, IsEntry, BlankEntry

LEMMA ClassifiedAlike ==
  ASSUME NEW r, IsRegistry(r) PROVE Alike(r, Classified(r))
BY ZenonT(40) DEF Classified, Each, Alike, KeysOf, IsRegistry, IsEntry, BlankEntry

LEMMA AlikeFacts ==
  ASSUME NEW r, NEW q, Alike(r, q) PROVE Facts(r) = Facts(q)
BY DEF Alike, Facts

LEMMA ReplaceKeeps ==
  ASSUME NEW q, IsRegistry(q), Replace(q)
  PROVE IsRegistry(reg') /\ Facts(reg') = Facts(q) /\ Alike(q, reg')
<1>1. reg' = Saved(q)
  BY DEF Replace
<1> QED BY <1>1, SavedSays, SayingTheSame, SavedAlike

(* A command of one step.                                                  *)
LEMMA PlainKeeps ==
  ASSUME KInv, NEW q, IsRegistry(q), Plain(q), owed' \subseteq Facts(q) \cup Archived(backups')
  PROVE KInv'
<1>1. IsRegistry(reg') /\ Facts(reg') = Facts(q)
  BY ReplaceKeeps DEF Plain
<1>2. UNCHANGED <<disk, lms, confs, cmd>> /\ cmd.name = "idle"
  BY DEF Plain, world
<1>3. DataKept'
  BY <1>1 DEF DataKept, Archived
<1> QED BY <1>1, <1>2, <1>3 DEF KInv, Shape, Remembered, Quarantined

(* A step of a sync, before the last ones.                                 *)
LEMMA StepKeeps ==
  ASSUME KInv, NEW a, NEW b, b \notin {"classify", "bind"}, NEW q, IsRegistry(q), Step(a, b, q),
         owed' \subseteq Facts(q) \cup Archived(backups')
  PROVE KInv'
<1>1. IsRegistry(reg') /\ Facts(reg') = Facts(q)
  BY ReplaceKeeps DEF Step
<1>2. UNCHANGED <<disk, lms, confs>> /\ cmd.name = "sync" /\ cmd' = [cmd EXCEPT !.step = b]
  BY DEF Step, At, To, world
<1>3. DOMAIN cmd' = DOMAIN cmd /\ cmd'.name = "sync" /\ cmd'.step = b /\ cmd'.files = cmd.files /\ cmd'.moved = cmd.moved
  BY <1>2 DEF KInv, Shape, Idle
<1>4. DataKept'
  BY <1>1 DEF DataKept, Archived
<1> QED BY <1>1, <1>2, <1>3, <1>4 DEF KInv, Shape, Remembered, Quarantined

LEMMA KeepingOwed ==
  ASSUME KInv, NEW q, Facts(reg) \subseteq Facts(q), Keeping
  PROVE owed' \subseteq Facts(q) \cup Archived(backups')
BY DEF KInv, DataKept, Keeping, Archived

LEMMA LosingOwed ==
  ASSUME KInv, NEW q, Losing(q)
  PROVE owed' \subseteq Facts(q) \cup Archived(backups')
BY DEF KInv, DataKept, Losing, Remaining, Archived

LEMMA OutsideKeeps ==
  ASSUME KInv, FileGone \/ FileReplaced \/ ModelsListed \/ ConfigWritten \/ HandEdit
  PROVE KInv'
<1>1. cmd.name = "idle" /\ UNCHANGED <<cmd, backups>>
  BY DEF FileGone, FileReplaced, ModelsListed, ConfigWritten, HandEdit, Outside
<1>2. CASE FileGone \/ FileReplaced \/ ModelsListed
  <2>1. disk' \subseteq Files /\ lms' \subseteq Models /\ UNCHANGED <<reg, confs, owed>>
    BY <1>2 DEF FileGone, FileReplaced, ModelsListed, KInv, Shape
  <2> QED BY <1>1, <2>1 DEF KInv, Shape, Remembered, Quarantined, DataKept
<1>3. CASE ConfigWritten
  <2>1. UNCHANGED <<reg, disk, lms, owed>>
    BY <1>3 DEF ConfigWritten
  <2>2. IsFiniteSet(DOMAIN confs')
    <3>1. PICK c \in DOMAIN ConfEdits : \E v : confs' = [d \in DOMAIN confs \cup {c} |-> IF d = c THEN v ELSE confs[d]]
      BY <1>3 DEF ConfigWritten
    <3>2. DOMAIN confs' = DOMAIN confs \cup {c}
      BY <3>1
    <3> QED BY <3>2, FS_AddElement DEF KInv, Shape
  <2> QED BY <1>1, <2>1, <2>2 DEF KInv, Shape, Remembered, Quarantined, DataKept
<1>4. CASE HandEdit
  <2>1. PICK k \in KeysOf(reg), edit \in HandEdits :
           /\ reg' = [reg EXCEPT ![k] = Edited(@, edit)]
           /\ owed' = Remaining([reg EXCEPT ![k] = Edited(@, edit)]) \cup [reg EXCEPT ![k] = Edited(@, edit)][k].hand
    BY <1>4 DEF HandEdit
  <2> DEFINE r == [reg EXCEPT ![k] = Edited(@, edit)]
  <2>2. UNCHANGED <<disk, lms, confs>>
    BY <1>4 DEF HandEdit
  <2>3. IsRegistry(r) /\ k \in KeysOf(r)
    BY EditKeepsShape DEF KInv, Shape, KeysOf
  <2>4. reg' = r /\ owed' = Remaining(r) \cup r[k].hand
    BY <2>1
  <2> HIDE DEF r
  <2>5. owed' \subseteq Facts(r) \cup Archived(backups)
    <3>1. r[k].hand \subseteq Facts(r)
      BY <2>3 DEF Facts
    <3> QED BY <2>4, <3>1 DEF Remaining, KInv, DataKept, Archived
  <2>6. DataKept'
    BY <1>1, <2>4, <2>5 DEF DataKept, Archived
  <2> QED BY <1>1, <2>2, <2>3, <2>4, <2>6 DEF KInv, Shape, Remembered, Quarantined
<1> QED BY <1>2, <1>3, <1>4

LEMMA WorldsRegistry ==
  /\ Unlinked.reg = reg /\ Fresh.reg = reg
  /\ \A r : Scanned(r).reg = r /\ Inventory(r).reg = r
<1>1. \A w : "reg" \in DOMAIN w => Refreshed(w).reg = w.reg
  BY DEF Refreshed, LinkLocal, LinkMatches
<1>2. \A r : Scanned(r).reg = r /\ "reg" \in DOMAIN Scanned(r)
  BY DEF Scanned, World
<1>3. Unlinked.reg = reg /\ "reg" \in DOMAIN Unlinked
  BY DEF Unlinked, World
<1> QED BY <1>1, <1>2, <1>3 DEF Fresh, Inventory

LEMMA CopiesHold ==
  ASSUME NEW r, NEW ks, NEW k \in ks
  PROVE r[k].hand \subseteq Archived(Copies(r, ks))
<1>1. [key |-> k, hand |-> r[k].hand] \in Copies(r, ks)
  BY DEF Copies
<1>2. \A b \in Copies(r, ks) : b.hand \subseteq Archived(Copies(r, ks))
  BY DEF Archived
<1>3. [key |-> k, hand |-> r[k].hand].hand = r[k].hand
  OBVIOUS
<1> QED BY <1>1, <1>2, <1>3

(* Every command of one step keeps the registry's shape, and what it may   *)
(* not lose.                                                               *)
LEMMA CommandsKeep ==
  ASSUME KInv,
         \/ FillCtxCmd \/ FixCtxCmd \/ FillSizeCmd \/ AddCmd \/ FillQuantCmd \/ MigrateCmd
         \/ ResearchCmd \/ ClassifyCmd \/ ImportCmd \/ RmCmd \/ DedupeCmd
  PROVE KInv'
<1>0. IsRegistry(reg)
  BY DEF KInv, Shape
<1>a. ASSUME NEW q, SaysTheSame(reg, q), Plain(q), Keeping PROVE KInv'
  <2>1. IsRegistry(q) /\ Facts(q) = Facts(reg)
    BY <1>0, <1>a, SayingTheSame
  <2> QED BY <1>a, <2>1, KeepingOwed, PlainKeeps
<1>1. CASE FillCtxCmd
  BY <1>0, <1>1, <1>a, FillCtxSays DEF FillCtxCmd
<1>2. CASE FixCtxCmd
  BY <1>0, <1>2, <1>a, FixCtxSays DEF FixCtxCmd
<1>3. CASE FillSizeCmd
  <2>1. SaysTheSame(reg, FillSize(Unlinked, FALSE))
    BY <1>0, FillSizeSays, WorldsRegistry
  <2> QED BY <1>3, <1>a, <2>1 DEF FillSizeCmd
<1>4. CASE AddCmd
  <2>1. IsFiniteSet(lms)
    BY RegistryAssumption, FS_Subset DEF KInv, Shape
  <2>2. IsRegistry(Add(Unlinked, lms))
    BY <1>0, <2>1, AddKeepsShape, WorldsRegistry
  <2> QED BY <1>4, <2>2, LosingOwed, PlainKeeps DEF AddCmd
<1>5. CASE FillQuantCmd
  <2>1. IsRegistry(FillQuant(Unlinked)) /\ Facts(FillQuant(Unlinked)) = Facts(reg)
    BY <1>0, FillQuantKeeps, WorldsRegistry
  <2> QED BY <1>5, <2>1, KeepingOwed, PlainKeeps DEF FillQuantCmd
<1>6. CASE MigrateCmd
  <2> DEFINE q == Migrate(reg, PubOf)
  <2>1. IsRegistry(q) /\ Facts(reg) \subseteq Facts(q) \cup GivenUp(reg, PubOf)
    BY <1>0, MigrateKeeps
  <2>2. Plain(q) /\ UNCHANGED backups /\ owed' = owed \ (GivenUp(reg, PubOf) \ Facts(q))
    BY <1>6 DEF MigrateCmd
  <2> HIDE DEF q
  <2>3. owed' \subseteq Facts(q) \cup Archived(backups')
    BY <2>1, <2>2 DEF KInv, DataKept, Archived
  <2> QED BY <2>1, <2>2, <2>3, PlainKeeps
<1>7. CASE ResearchCmd
  <2>1. PICK v, force : Plain(Research(reg, v, force)) /\ Keeping
    BY <1>7 DEF ResearchCmd
  <2> QED BY <1>0, <1>a, <2>1, ResearchSays
<1>8. CASE ClassifyCmd
  BY <1>0, <1>8, <1>a, ClassifiedSays DEF ClassifyCmd
<1>9. CASE ImportCmd
  <2>1. PICK fields : Plain(SyncFromConfigs(Fresh, fields)) /\ Keeping
    BY <1>9 DEF ImportCmd
  <2>2. SaysTheSame(reg, SyncFromConfigs(Fresh, fields))
    BY <1>0, SyncFromConfigsSays, WorldsRegistry
  <2> QED BY <1>a, <2>1, <2>2
<1>10. CASE RmCmd
  <2>1. PICK k \in KeysOf(reg) : Plain(Drop(reg, {k})) /\ Losing(Drop(reg, {k}))
    BY <1>10 DEF RmCmd
  <2>2. IsRegistry(Drop(reg, {k}))
    BY <1>0, DropKeeps
  <2> QED BY <2>1, <2>2, LosingOwed, PlainKeeps
<1>11. CASE DedupeCmd
  <2>1. Plain(Deduped(Unlinked)) /\ UNCHANGED owed /\ backups' = backups \cup Copies(reg, KeysOf(reg))
    BY <1>11 DEF DedupeCmd
  <2>2. IsRegistry(Deduped(Unlinked))
    BY <1>0, DedupedKeepsShape, WorldsRegistry
  <2>3. Facts(reg) \subseteq Archived(Copies(reg, KeysOf(reg)))
    BY CopiesHold DEF Facts
  <2>4. Archived(backups') = Archived(backups) \cup Archived(Copies(reg, KeysOf(reg)))
    BY <2>1 DEF Archived
  <2>5. owed \subseteq Facts(reg) \cup Archived(backups)
    BY DEF KInv, DataKept, Archived
  <2> QED BY <2>1, <2>2, <2>3, <2>4, <2>5, PlainKeeps
<1> QED BY <1>1, <1>2, <1>3, <1>4, <1>5, <1>6, <1>7, <1>8, <1>9, <1>10, <1>11

LEMMA ModelsAreFinite ==
  ASSUME KInv PROVE IsFiniteSet(NewModels(Scanned(reg)))
<1>1. IsFiniteSet(cmd.files) /\ IsFiniteSet(lms)
  BY RegistryAssumption, FS_Subset DEF KInv, Shape
<1>2. IsFiniteSet(AsModels(World(reg)))
  <2> DEFINE Found == {g \in Artifacts(World(reg)) : Complete(g)}
             named(f) == CHOOSE g \in Artifacts(World(reg)) : Ident(FileInfo[g]) = Ident(FileInfo[f])
             m == [f \in Found |-> [pub |-> FileInfo[f].pub, model |-> FileInfo[f].model, quant |-> FileInfo[f].quant,
                                    selected |-> Absent, variants |-> {}, path |-> named(f)]]
  <2>1. Found \subseteq cmd.files
    BY DEF Artifacts, World
  <2>2. IsFiniteSet({m[f] : f \in Found})
    <3>1. IsFiniteSet(Found)
      <4> HIDE DEF Found
      <4> QED BY <1>1, <2>1, FS_Subset
    <3> HIDE DEF Found, m
    <3> QED BY <3>1, ImageIsFinite
  <2>3. AsModels(World(reg)) = {m[f] : f \in Found}
    BY DEF AsModels
  <2> HIDE DEF Found, m
  <2> QED BY <2>2, <2>3
<1>3. Scanned(reg).lms = Listed(World(reg))
  BY DEF Scanned, World
<1>4. IsFiniteSet(Listed(World(reg)))
  <2>1. World(reg).lms = lms
    BY DEF World
  <2> QED BY <1>1, <1>2, <2>1 DEF Listed
<1>5. NewModels(Scanned(reg)) \subseteq Scanned(reg).lms
  BY DEF NewModels
<1> QED BY <1>3, <1>4, <1>5, FS_Subset

(* Every step of a sync does.                                              *)
LEMMA SyncKeeps ==
  ASSUME KInv,
         \/ SyncStarts \/ RekeyStep \/ AddStep \/ QuantStep \/ ArchStep \/ GgufStep
         \/ ReasoningStep \/ SizeStep \/ MaterializeStep
  PROVE KInv'
<1>0. IsRegistry(reg)
  BY DEF KInv, Shape
<1>a. ASSUME NEW a, NEW b, b \notin {"classify", "bind"}, NEW q, IsRegistry(q), Facts(q) = Facts(reg), Step(a, b, q), Keeping
      PROVE KInv'
  BY <1>a, KeepingOwed, StepKeeps
<1>b. ASSUME NEW a, NEW b, b \notin {"classify", "bind"}, NEW q, SaysTheSame(reg, q), Step(a, b, q), Keeping
      PROVE KInv'
  BY <1>0, <1>a, <1>b, SayingTheSame
<1>1. CASE SyncStarts
  <2>1. cmd' = [Idle EXCEPT !.name = "sync", !.step = "rekey", !.files = Scan(reg, disk)]
        /\ UNCHANGED <<reg, disk, lms, confs, backups, owed>>
    BY <1>1 DEF SyncStarts, world
  <2>2. DOMAIN cmd' = DOMAIN Idle /\ cmd'.name = "sync" /\ cmd'.step = "rekey" /\ cmd'.files = Scan(reg, disk) /\ cmd'.moved = {}
    BY <2>1 DEF Idle
  <2>3. Scan(reg, disk) \subseteq Files
    BY DEF Scan, KInv, Shape
  <2>4. DataKept'
    BY <2>1 DEF KInv, DataKept
  <2> QED BY <2>1, <2>2, <2>3, <2>4, FS_EmptySet DEF KInv, Shape, Remembered, Quarantined
<1>2. CASE RekeyStep
  BY <1>0, <1>2, <1>a, RekeyKeeps DEF RekeyStep
<1>3. CASE AddStep
  <2> DEFINE q == Add(Scanned(reg), NewModels(Scanned(reg)))
  <2>1. IsRegistry(q)
    BY <1>0, ModelsAreFinite, AddKeepsShape, WorldsRegistry
  <2>2. Step("add", "fill-quant", q) /\ Losing(q)
    BY <1>3 DEF AddStep
  <2> HIDE DEF q
  <2> QED BY <2>1, <2>2, LosingOwed, StepKeeps
<1> DEFINE w == Inventory(reg)
<1>c. w.reg = reg
  BY WorldsRegistry
<1>4. CASE QuantStep
  <2>1. Step("fill-quant", "fill-arch", FillQuant(w)) /\ Keeping
    BY <1>4 DEF QuantStep, LinkedStep
  <2> HIDE DEF w
  <2>2. IsRegistry(FillQuant(w)) /\ Facts(FillQuant(w)) = Facts(reg)
    BY <1>0, <1>c, FillQuantKeeps
  <2> QED BY <1>a, <2>1, <2>2
<1>5. CASE ArchStep
  <2>1. Step("fill-arch", "sync-from-gguf", FillArch(w)) /\ Keeping
    BY <1>5 DEF ArchStep, LinkedStep
  <2> HIDE DEF w
  <2> QED BY <1>0, <1>b, <1>c, <2>1, FillArchSays
<1>6. CASE GgufStep
  <2>1. Step("sync-from-gguf", "fill-reasoning", SyncFromGguf(w)) /\ Keeping
    BY <1>6 DEF GgufStep, LinkedStep
  <2> HIDE DEF w
  <2> QED BY <1>0, <1>b, <1>c, <2>1, SyncFromGgufSays
<1>7. CASE ReasoningStep
  <2>1. Step("fill-reasoning", "fill-size", FillReasoning(w)) /\ Keeping
    BY <1>7 DEF ReasoningStep, LinkedStep
  <2> HIDE DEF w
  <2> QED BY <1>0, <1>b, <1>c, <2>1, FillReasoningSays
<1>8. CASE SizeStep
  <2>1. Step("fill-size", "materialize", FillSize(w, TRUE)) /\ Keeping
    BY <1>8 DEF SizeStep, LinkedStep
  <2> HIDE DEF w
  <2> QED BY <1>0, <1>b, <1>c, <2>1, FillSizeSays
<1>9. CASE MaterializeStep
  <2>1. Step("materialize", "configs", Materialize(w)) /\ Keeping
    BY <1>9 DEF MaterializeStep, LinkedStep
  <2> HIDE DEF w
  <2> QED BY <1>0, <1>b, <1>c, <2>1, MaterializeSays
<1> QED BY <1>1, <1>2, <1>3, <1>4, <1>5, <1>6, <1>7, <1>8, <1>9

LEMMA EndSyncKeeps ==
  ASSUME KInv, NEW import, NEW q, IsRegistry(q), Facts(q) = Facts(reg), EndSync(import, q)
  PROVE KInv'
<1>1. IsRegistry(reg') /\ Facts(reg') = Facts(q) /\ Alike(q, reg')
  BY ReplaceKeeps DEF EndSync
<1>2. UNCHANGED <<disk, lms, confs, backups, owed>> /\ cmd.name = "sync"
  BY DEF EndSync, At, world
<1>3. DataKept'
  BY <1>1, <1>2 DEF KInv, DataKept
<1>4. CASE cmd' = Idle
  BY <1>1, <1>2, <1>3, <1>4, FS_EmptySet DEF KInv, Shape, Remembered, Quarantined, Idle
<1>5. CASE cmd' = [cmd EXCEPT !.step = "classify", !.mem = q]
  <2>1. DOMAIN cmd = DOMAIN Idle
    BY DEF KInv, Shape
  <2>2. DOMAIN cmd' = DOMAIN cmd /\ cmd'.name = "sync" /\ cmd'.mem = q /\ cmd'.files = cmd.files /\ cmd'.moved = cmd.moved
    BY <1>2, <1>5, <2>1 DEF Idle
  <2> QED BY <1>1, <1>2, <1>3, <2>2 DEF KInv, Shape, Remembered, Quarantined
<1> QED BY <1>4, <1>5 DEF EndSync

LEMMA AlikeTransitive ==
  ASSUME NEW a, NEW b, NEW c, Alike(a, b), Alike(b, c) PROVE Alike(a, c)
BY DEF Alike

LEMMA LastStepsKeep ==
  ASSUME KInv, ConfigStep \/ ClassifyStep \/ BindStep \/ ValidateStep \/ Killed
  PROVE KInv'
<1>0. IsRegistry(reg) /\ DOMAIN cmd = DOMAIN Idle
  BY DEF KInv, Shape
<1>1. CASE ConfigStep
  <2>1. CASE EndSync(FALSE, reg)
    BY <1>0, <2>1, EndSyncKeeps
  <2>2. CASE EndSync(TRUE, Saved(SyncFromConfigs(Inventory(reg), AllFields)))
    <3> DEFINE r == SyncFromConfigs(Inventory(reg), AllFields)
    <3>1. SaysTheSame(reg, r)
      BY <1>0, SyncFromConfigsSays, WorldsRegistry
    <3> HIDE DEF r
    <3>2. IsRegistry(r) /\ Facts(r) = Facts(reg)
      BY <1>0, <3>1, SayingTheSame
    <3>3. IsRegistry(Saved(r)) /\ Facts(Saved(r)) = Facts(r)
      BY <3>2, SavedSays, SayingTheSame
    <3>4. EndSync(TRUE, Saved(r))
      BY <2>2 DEF r
    <3> QED BY <3>2, <3>3, <3>4, EndSyncKeeps
  <2> QED BY <1>1, <2>1, <2>2 DEF ConfigStep
<1>2. CASE ClassifyStep
  <2> DEFINE q == Classified(reg)
  <2>1. Replace(q) /\ cmd.name = "sync" /\ cmd.step = "classify" /\ UNCHANGED <<disk, lms, confs, backups, owed>>
    BY <1>2 DEF ClassifyStep, At, world
  <2>2. IsRegistry(q) /\ Facts(q) = Facts(reg) /\ Alike(reg, q)
    BY <1>0, ClassifiedSays, SayingTheSame, ClassifiedAlike
  <2> HIDE DEF q
  <2>3. IsRegistry(reg') /\ Facts(reg') = Facts(reg) /\ Alike(reg, reg')
    BY <2>1, <2>2, ReplaceKeeps, AlikeTransitive
  <2>4. IsRegistry(cmd.mem) /\ Alike(cmd.mem, reg')
    BY <2>1, <2>3, AlikeTransitive DEF KInv, Remembered
  <2>5. DataKept'
    BY <2>1, <2>3 DEF KInv, DataKept
  <2>6. CASE cmd' = Idle
    BY <2>1, <2>3, <2>5, <2>6, FS_EmptySet DEF KInv, Shape, Remembered, Quarantined, Idle
  <2>7. CASE cmd' = [cmd EXCEPT !.step = "bind"]
    <3>1. /\ DOMAIN cmd' = DOMAIN Idle /\ cmd'.name = "sync" /\ cmd'.mem = cmd.mem
          /\ cmd'.files = cmd.files /\ cmd'.moved = cmd.moved
      BY <1>0, <2>1, <2>7 DEF Idle
    <3> QED BY <2>1, <2>3, <2>4, <2>5, <3>1 DEF KInv, Shape, Remembered, Quarantined
  <2> QED BY <1>2, <2>6, <2>7 DEF ClassifyStep
<1>3. CASE BindStep
  <2> DEFINE q == Materialize(Inventory(cmd.mem))
  <2>1. /\ Replace(Rebind(q)) /\ cmd.name = "sync" /\ cmd.step = "bind" /\ UNCHANGED <<disk, lms, confs, backups, owed>>
        /\ cmd' = [cmd EXCEPT !.step = "validate"]
    BY <1>3 DEF BindStep, At, world
  <2>2. IsRegistry(cmd.mem) /\ Facts(cmd.mem) = Facts(reg)
    BY <2>1, AlikeFacts DEF KInv, Remembered
  <2>3. IsRegistry(q) /\ Facts(q) = Facts(reg)
    BY <2>2, MaterializeSays, SayingTheSame, WorldsRegistry
  <2> HIDE DEF q
  <2>4. IsRegistry(Rebind(q)) /\ Facts(Rebind(q)) = Facts(reg)
    BY <1>0, <2>3 DEF Rebind
  <2>5. IsRegistry(reg') /\ Facts(reg') = Facts(reg)
    BY <2>1, <2>4, ReplaceKeeps
  <2>6. DOMAIN cmd' = DOMAIN Idle /\ cmd'.name = "sync" /\ cmd'.step = "validate"
        /\ cmd'.files = cmd.files /\ cmd'.moved = cmd.moved
    BY <1>0, <2>1 DEF Idle
  <2>7. DataKept'
    BY <2>1, <2>5 DEF KInv, DataKept
  <2> QED BY <2>1, <2>5, <2>6, <2>7 DEF KInv, Shape, Remembered, Quarantined
<1>4. CASE ValidateStep \/ Killed
  <2>1. cmd' = Idle /\ UNCHANGED <<reg, disk, lms, confs, backups, owed>>
    BY <1>4 DEF ValidateStep, Killed, world
  <2>2. DataKept'
    BY <2>1 DEF KInv, DataKept
  <2> QED BY <2>1, <2>2, FS_EmptySet DEF KInv, Shape, Remembered, Quarantined, Idle
<1> QED BY <1>1, <1>2, <1>3, <1>4

(* A quarantine that is interrupted or undone loses nothing either.        *)
LEMMA QuarantineKeeps ==
  ASSUME KInv, QuarantineStarts \/ MoveConfig \/ BackUp \/ SaveRemaining \/ RollBack
  PROVE KInv'
<1>0. IsRegistry(reg) /\ DOMAIN cmd = DOMAIN Idle
  BY DEF KInv, Shape
<1>1. CASE QuarantineStarts
  <2>1. PICK keys, plan : keys \subseteq Missing(Unlinked) /\ cmd' = [Idle EXCEPT !.name = "quarantine", !.step = "move", !.keys = keys, !.plan = plan]
    BY <1>1, Zenon DEF QuarantineStarts
  <2>2. UNCHANGED <<reg, disk, lms, confs, backups, owed>>
    BY <1>1 DEF QuarantineStarts, world
  <2>3. DOMAIN cmd' = DOMAIN Idle /\ cmd'.name = "quarantine" /\ cmd'.step = "move" /\ cmd'.files = {}
        /\ cmd'.moved = {} /\ cmd'.backup = {} /\ cmd'.keys \subseteq KeysOf(reg)
    BY <2>1, WorldsRegistry DEF Idle, Missing
  <2>4. DataKept'
    BY <2>2 DEF KInv, DataKept
  <2>5. Archived({}) = {}
    BY DEF Archived
  <2> QED BY <2>2, <2>3, <2>4, <2>5, FS_EmptySet DEF KInv, Shape, Remembered, Quarantined
<1>2. CASE MoveConfig
  <2>1. PICK m \in cmd.plan : /\ confs' = Only(confs, DOMAIN confs \ {m[2]})
                              /\ cmd' = [cmd EXCEPT !.plan = @ \ {m}, !.moved = @ \cup {<<m[2], confs[m[2]]>>}]
    BY <1>2 DEF MoveConfig
  <2>2. UNCHANGED <<reg, disk, lms, backups, owed>> /\ cmd.name = "quarantine" /\ cmd.step = "move"
    BY <1>2 DEF MoveConfig, Quarantining, world
  <2>3. DOMAIN cmd' = DOMAIN Idle /\ cmd'.name = "quarantine" /\ cmd'.step = "move" /\ cmd'.files = cmd.files
        /\ cmd'.moved = cmd.moved \cup {<<m[2], confs[m[2]]>>} /\ cmd'.backup = cmd.backup /\ cmd'.keys = cmd.keys
    BY <1>0, <2>1, <2>2 DEF Idle
  <2>4. IsFiniteSet(cmd'.moved)
    <3> DEFINE x == <<m[2], confs[m[2]]>>
    <3>1. cmd'.moved = cmd.moved \cup {x} /\ IsFiniteSet(cmd.moved)
      BY <2>3 DEF KInv, Shape
    <3> HIDE DEF x
    <3> QED BY <3>1, FS_AddElement
  <2>5. IsFiniteSet(DOMAIN confs')
    <3>1. DOMAIN confs' = DOMAIN confs \ {m[2]}
      BY <2>1 DEF Only
    <3> QED BY <3>1, FS_RemoveElement DEF KInv, Shape
  <2>6. DataKept'
    BY <2>2 DEF KInv, DataKept
  <2> QED BY <2>2, <2>3, <2>4, <2>5, <2>6 DEF KInv, Shape, Remembered, Quarantined
<1>3. CASE BackUp
  <2> DEFINE kept == {k \in cmd.keys : ~Partial(reg[k])}
             copies == Copies(reg, kept)
  <2>1. /\ UNCHANGED <<reg, disk, lms, confs, owed>> /\ cmd.name = "quarantine"
        /\ backups' = backups \cup copies /\ cmd' = [cmd EXCEPT !.step = "save", !.backup = copies \ backups]
    BY <1>3 DEF BackUp, Quarantining, world
  <2>2. /\ DOMAIN cmd' = DOMAIN Idle /\ cmd'.name = "quarantine" /\ cmd'.keys = cmd.keys
        /\ cmd'.files = cmd.files /\ cmd'.moved = cmd.moved /\ cmd'.backup = copies \ backups
    BY <1>0, <2>1 DEF Idle
  <2>3. Archived(backups') = Archived(backups) \cup Archived(copies)
    BY <2>1 DEF Archived
  <2>4. \A k \in cmd.keys : reg[k].hand \subseteq Archived(backups')
    <3> SUFFICES ASSUME NEW k \in cmd.keys PROVE reg[k].hand \subseteq Archived(backups')
      OBVIOUS
    <3>1. CASE Partial(reg[k])
      <4>1. reg[k].hand = {}
        BY <3>1 DEF Partial, BlankEntry
      <4> QED BY <4>1
    <3>2. CASE ~Partial(reg[k])
      <4>1. k \in kept
        BY <3>2
      <4> HIDE DEF kept
      <4> QED BY <2>3, <4>1, CopiesHold
    <3> QED BY <3>1, <3>2
  <2>5. Archived(cmd'.backup) \subseteq Facts(reg)
    <3> SUFFICES ASSUME NEW b \in copies PROVE b.hand \subseteq Facts(reg)
      BY <2>2 DEF Archived
    <3>1. PICK k \in kept : b = [key |-> k, hand |-> reg[k].hand]
      BY DEF Copies
    <3>2. k \in KeysOf(reg)
      BY <2>1 DEF KInv, Quarantined
    <3> QED BY <3>1, <3>2 DEF Facts
  <2>6. DataKept'
    BY <2>1 DEF KInv, DataKept
  <2> HIDE DEF copies
  <2> QED BY <2>1, <2>2, <2>4, <2>5, <2>6 DEF KInv, Shape, Remembered, Quarantined
<1>4. CASE SaveRemaining
  <2> DEFINE q == Drop(reg, cmd.keys)
  <2>1. /\ UNCHANGED <<disk, lms, confs, backups, owed>> /\ cmd.name = "quarantine" /\ cmd.step = "save"
        /\ Replace(q) /\ cmd' = Idle
    BY <1>4 DEF SaveRemaining, Quarantining, world
  <2>2. IsRegistry(q) /\ Facts(reg) \subseteq Facts(q) \cup UNION {reg[k].hand : k \in cmd.keys \cap KeysOf(reg)}
    BY <1>0, DropKeeps
  <2>3. \A k \in cmd.keys : reg[k].hand \subseteq Archived(backups)
    BY <2>1 DEF KInv, Quarantined
  <2> HIDE DEF q
  <2>4. Facts(reg) \subseteq Facts(q) \cup Archived(backups)
    BY <2>2, <2>3
  <2>5. IsRegistry(reg') /\ Facts(reg') = Facts(q)
    BY <2>1, <2>2, ReplaceKeeps
  <2>6. DataKept'
    BY <2>1, <2>4, <2>5 DEF KInv, DataKept, Archived
  <2> QED BY <2>1, <2>5, <2>6, FS_EmptySet DEF KInv, Shape, Remembered, Quarantined, Idle
<1>5. CASE RollBack
  <2>1. PICK back \in SUBSET cmd.moved : DOMAIN confs' = DOMAIN confs \cup {m[1] : m \in back}
    BY <1>5 DEF RollBack
  <2>2. /\ UNCHANGED <<reg, disk, lms, owed>> /\ cmd.name = "quarantine" /\ cmd' = Idle
        /\ backups' \in {backups, backups \ cmd.backup}
    BY <1>5 DEF RollBack, world
  <2>3. IsFiniteSet(DOMAIN confs')
    <3>1. IsFiniteSet(back)
      BY FS_Subset DEF KInv, Shape
    <3> DEFINE f == [m \in back |-> m[1]]
    <3>2. IsFiniteSet({f[m] : m \in back})
      <4> HIDE DEF f
      <4> QED BY <3>1, ImageIsFinite
    <3>3. {f[m] : m \in back} = {m[1] : m \in back}
      OBVIOUS
    <3>4. IsFiniteSet({m[1] : m \in back})
      BY <3>2, <3>3
    <3> DEFINE T == {m[1] : m \in back}
    <3>5. IsFiniteSet(DOMAIN confs \cup T)
      <4>1. IsFiniteSet(DOMAIN confs) /\ IsFiniteSet(T)
        BY <3>4 DEF KInv, Shape
      <4> HIDE DEF T
      <4> QED BY <4>1, FS_Union
    <3> QED BY <2>1, <3>5
  <2>4. owed \subseteq Facts(reg) \cup Archived(backups) /\ Archived(cmd.backup) \subseteq Facts(reg)
    BY <2>2 DEF KInv, DataKept, Quarantined, Archived
  <2>5. Archived(backups) \subseteq Archived(backups \ cmd.backup) \cup Archived(cmd.backup)
    BY DEF Archived
  <2>6. owed \subseteq Facts(reg) \cup Archived(backups')
    BY <2>2, <2>4, <2>5
  <2>7. DataKept'
    BY <2>2, <2>6 DEF DataKept, Archived
  <2> QED BY <2>2, <2>3, <2>7, FS_EmptySet DEF KInv, Shape, Remembered, Quarantined, Idle
<1> QED BY <1>1, <1>2, <1>3, <1>4, <1>5

LEMMA NextKeeps == KInv /\ [Next]_vars => KInv'
<1> SUFFICES ASSUME KInv, [Next]_vars PROVE KInv'
  OBVIOUS
<1>1. CASE FileGone \/ FileReplaced \/ ModelsListed \/ ConfigWritten \/ HandEdit
  BY <1>1, OutsideKeeps
<1>2. CASE \/ FillCtxCmd \/ FixCtxCmd \/ FillSizeCmd \/ AddCmd \/ FillQuantCmd \/ MigrateCmd
           \/ ResearchCmd \/ ClassifyCmd \/ ImportCmd \/ RmCmd \/ DedupeCmd
  BY <1>2, CommandsKeep
<1>3. CASE \/ SyncStarts \/ RekeyStep \/ AddStep \/ QuantStep \/ ArchStep \/ GgufStep
           \/ ReasoningStep \/ SizeStep \/ MaterializeStep
  BY <1>3, SyncKeeps
<1>4. CASE ConfigStep \/ ClassifyStep \/ BindStep \/ ValidateStep \/ Killed
  BY <1>4, LastStepsKeep
<1>5. CASE QuarantineStarts \/ MoveConfig \/ BackUp \/ SaveRemaining \/ RollBack
  BY <1>5, QuarantineKeeps
<1>6. CASE UNCHANGED vars
  BY <1>6 DEF vars, world, KInv, Shape, Remembered, Quarantined, DataKept
<1> QED BY <1>1, <1>2, <1>3, <1>4, <1>5, <1>6 DEF Next

(* What a person wrote into an entry is never lost: it is in the registry  *)
(* or in a backup file, whatever commands run and wherever they are killed *)
(* (save_registry, cmd_quarantine_missing, cmd_dedupe_registry), until that*)
(* person removes it or add or migrate-keys gives it up.                   *)
THEOREM NothingWrittenIsLost == Spec => []DataKept
<1>1. KInv => DataKept
  BY DEF KInv
<1> QED BY <1>1, InitKept, NextKeeps, PTL DEF Spec

-----------------------------------------------------------------------------
(* What the links say.                                                     *)

IsWorld(v) == {"reg", "lms", "confs", "disk", "print", "files", "links"} = DOMAIN v

LEMMA RefreshedFields ==
  ASSUME NEW v, IsWorld(v)
  PROVE /\ Refreshed(v).reg = v.reg /\ Refreshed(v).confs = v.confs
        /\ Refreshed(v).disk = v.disk /\ Refreshed(v).print = v.print
BY DEF Refreshed, LinkLocal, LinkMatches, IsWorld

LEMMA ScannedIsWorld ==
  ASSUME NEW r
  PROVE /\ IsWorld(Scanned(r)) /\ Scanned(r).reg = r /\ Scanned(r).confs = confs
        /\ Scanned(r).disk = disk /\ Scanned(r).print = print
BY DEF Scanned, World, IsWorld

(* The files linked to an entry are those that its identity or its model   *)
(* proves; what the entry says does not matter.                            *)
LEMMA EvidenceIs ==
  ASSUME NEW v, IsWorld(v), NEW k \in DOMAIN v.reg
  PROVE Evidence(Refreshed(v), k) = Proving(v, k) \cup LinkedArtifacts(v, k)
<1> DEFINE local == [j \in DOMAIN v.reg |-> LocalConfigs(v, j)]
           files == [j \in DOMAIN v.reg |-> LinkedArtifacts(v, j)]
           bound == {j \in DOMAIN v.reg : PersistedBinding(v, local, j)}
           match == [j \in DOMAIN v.reg |-> Matching(v, local, files, bound, j)]
<1>1. Refreshed(v) = [v EXCEPT !.links = LinksOf(v, files, bound, match)]
  BY DEF Refreshed, LinkLocal, LinkMatches
<1>2. Refreshed(v).links = LinksOf(v, files, bound, match)
  <2> HIDE DEF files, bound, match
  <2> QED BY <1>1 DEF IsWorld
<1>3. Evidence(Refreshed(v), k) = LinksOf(v, files, bound, match)[k].files
  BY <1>2 DEF Evidence
<1>4. LinksOf(v, files, bound, match)[k].files = Proving(v, k) \cup files[k]
  <2> HIDE DEF files, bound, match
  <2> QED BY DEF LinksOf
<1>5. files[k] = LinkedArtifacts(v, k)
  OBVIOUS
<1> QED BY <1>3, <1>4, <1>5

(* They have its quant.                                                    *)
LEMMA EvidenceQuant ==
  ASSUME NEW v, IsWorld(v), NEW k \in DOMAIN v.reg, NEW f \in Evidence(Refreshed(v), k)
  PROVE FileInfo[f].quant = k.quant
<1>1. \A g \in Proving(v, k) : FileInfo[g].quant = k.quant
  BY DEF Proving, Ident
<1>2. \A g \in LinkedArtifacts(v, k) : FileInfo[g].quant = k.quant
  BY <1>1 DEF LinkedArtifacts
<1> QED BY <1>1, <1>2, EvidenceIs

(* A linked configuration is the only one its entry matches, and no other  *)
(* entry matches only that one; it is the declared one, where the entry    *)
(* declares one, and then the quants agree.                                *)
LEMMA BindingProves ==
  ASSUME NEW v, IsWorld(v), IsFiniteSet(DOMAIN v.confs)
  PROVE /\ \A k \in DOMAIN v.reg : v.reg[k].config # NoConf /\ Binding(Refreshed(v), k) # NoConf =>
                /\ Binding(Refreshed(v), k) = v.reg[k].config
                /\ FileInfo[v.reg[k].path].quant \in {k.quant, Absent}
        /\ \A k \in DOMAIN v.reg, j \in DOMAIN v.reg :
              Binding(Refreshed(v), k) # NoConf /\ Binding(Refreshed(v), j) = Binding(Refreshed(v), k) => j = k
<1> DEFINE local == [j \in DOMAIN v.reg |-> LocalConfigs(v, j)]
           files == [j \in DOMAIN v.reg |-> LinkedArtifacts(v, j)]
           bound == {j \in DOMAIN v.reg : PersistedBinding(v, local, j)}
           match == [j \in DOMAIN v.reg |-> Matching(v, local, files, bound, j)]
<1>1. Refreshed(v) = [v EXCEPT !.links = LinksOf(v, files, bound, match)]
  BY DEF Refreshed, LinkLocal, LinkMatches
<1>2. Refreshed(v).links = LinksOf(v, files, bound, match)
  <2> HIDE DEF files, bound, match
  <2> QED BY <1>1 DEF IsWorld
<1>3. ASSUME NEW k \in DOMAIN v.reg PROVE Binding(Refreshed(v), k) = Bound(match, files, bound, k)
  <2>1. LinksOf(v, files, bound, match)[k].conf = Bound(match, files, bound, k)
    <3> HIDE DEF files, bound, match
    <3> QED BY DEF LinksOf
  <2> HIDE DEF files, bound, match
  <2> QED BY <1>2, <2>1 DEF Binding
<1>4. ASSUME NEW k \in DOMAIN v.reg PROVE local[k] \subseteq DOMAIN v.confs /\ match[k] \subseteq DOMAIN v.confs
  <2>1. LocalConfigs(v, k) \subseteq DOMAIN v.confs
    BY DEF LocalConfigs, DeclaredConfigs
  <2>2. local[k] = LocalConfigs(v, k)
    OBVIOUS
  <2>3. match[k] = Matching(v, local, files, bound, k)
    OBVIOUS
  <2>4. Matching(v, local, files, bound, k) \subseteq DOMAIN v.confs
    <3> HIDE DEF local, files, bound
    <3> QED BY <2>1, <2>2 DEF Matching
  <2> QED BY SMTT(40), <2>1, <2>3, <2>4
<1>5. ASSUME NEW k \in DOMAIN v.reg, Binding(Refreshed(v), k) # NoConf
      PROVE /\ match[k] = {Binding(Refreshed(v), k)}
            /\ \A j \in DOMAIN v.reg : j # k => match[j] # match[k]
  <2>1. Bound(match, files, bound, k) # NoConf /\ match[k] \subseteq DOMAIN v.confs /\ DOMAIN match = DOMAIN v.reg
    BY <1>3, <1>4, <1>5
  <2> HIDE DEF match, files, bound
  <2>2. /\ Cardinality(match[k]) = 1 /\ (\A j \in DOMAIN match \ {k} : match[j] # match[k])
        /\ Bound(match, files, bound, k) = CHOOSE c \in match[k] : TRUE
    BY <2>1 DEF Bound
  <2>3. PICK x : match[k] = {x}
    BY <2>1, <2>2, FS_Subset, FS_Singleton
  <2> QED BY <1>3, <2>1, <2>2, <2>3
<1>6. ASSUME NEW k \in DOMAIN v.reg, v.reg[k].config # NoConf, Binding(Refreshed(v), k) # NoConf
      PROVE /\ Binding(Refreshed(v), k) = v.reg[k].config
            /\ FileInfo[v.reg[k].path].quant \in {k.quant, Absent}
  <2> DEFINE c == Binding(Refreshed(v), k)
  <2>1. match[k] = {c}
    BY <1>5, <1>6
  <2>2. Matching(v, local, files, bound, k) \subseteq local[k]
    <3>1. Declares(v.reg[k])
      BY <1>6 DEF Declares
    <3> HIDE DEF local, files, bound
    <3> QED BY <3>1 DEF Matching
  <2>3. match[k] = Matching(v, local, files, bound, k) /\ local[k] = LocalConfigs(v, k)
    OBVIOUS
  <2> HIDE DEF match, local, files, bound, c
  <2>4. c \in LocalConfigs(v, k)
    BY <2>1, <2>2, <2>3
  <2>5. c \in DeclaredConfigs(v, k)
    BY SMTT(40), <1>6, <2>4 DEF LocalConfigs
  <2>6. c = v.reg[k].config /\ FileInfo[v.reg[k].path].quant \in {k.quant, Absent}
    BY <2>5 DEF DeclaredConfigs
  <2> QED BY <2>6 DEF c
<1>7. ASSUME NEW k \in DOMAIN v.reg, NEW j \in DOMAIN v.reg,
             Binding(Refreshed(v), k) # NoConf, Binding(Refreshed(v), j) = Binding(Refreshed(v), k)
      PROVE j = k
  <2> HIDE DEF match, local, files, bound
  <2> QED BY <1>5, <1>7
<1> QED BY <1>6, <1>7

(* What writing the bindings makes of a registry.                          *)
FollowsFrom(m, links, r) ==
    /\ KeysOf(m) = KeysOf(r)
    /\ \A k \in KeysOf(r) :
          \/ r[k].path = m[k].path /\ r[k].config = m[k].config
          \/ FileInfo[r[k].path].quant = k.quant /\ r[k].config \in {m[k].config, Binding(links, k)}

LEMMA MaterializeFollows ==
  ASSUME NEW w, IsRegistry(w.reg), \A k \in KeysOf(w.reg) : \A f \in Evidence(w, k) : FileInfo[f].quant = k.quant
  PROVE FollowsFrom(w.reg, w, Materialize(w))
<1> DEFINE r == w.reg
           q == Materialize(w)
           Same(e, d) == d.path = e.path /\ d.config = e.config
<1>1. KeysOf(q) = KeysOf(r)
  BY DEF Materialize, Each, KeysOf
<1>2. ASSUME NEW e, IsEntry(e), NEW x, NEW u
      PROVE Same(e, [e EXCEPT !.spec = x]) /\ Same(e, [e EXCEPT !.spec = x, !.companion = u])
  BY SMTT(40), <1>2 DEF IsEntry, BlankEntry
<1>3. ASSUME NEW e, IsEntry(e), NEW main, NEW c PROVE Same(e, WithProfile(w, e, main, c))
  <2> HIDE DEF Same
  <2>1. Same(e, e)
    BY DEF Same
  <2> QED BY <1>2, <1>3, <2>1 DEF WithProfile
<1>4. ASSUME NEW e, IsEntry(e) PROVE Same(e, DropUnresolvable(w, e))
  <2> HIDE DEF Same
  <2>1. Same(e, e)
    BY DEF Same
  <2> QED BY <1>2, <1>4, <2>1 DEF DropUnresolvable
<1>5. ASSUME NEW k \in KeysOf(r)
      PROVE \/ q[k].path = r[k].path /\ q[k].config = r[k].config
            \/ FileInfo[q[k].path].quant = k.quant /\ q[k].config \in {r[k].config, Binding(w, k)}
  <2> DEFINE e     == r[k]
             main  == CHOOSE f \in Evidence(w, k) : TRUE
             c     == Binding(w, k)
             quiet == IF e.policy = "disabled" THEN [e EXCEPT !.spec = NoProfile, !.companion = NoFile] ELSE e
             here  == [quiet EXCEPT !.path = main]
             bound == [here EXCEPT !.config = c, !.scope = IF e.config = NoConf THEN "gguf" ELSE @]
  <2>1. q[k] = e \/ /\ Cardinality(Evidence(w, k)) = 1
                    /\ q[k] \in {DropUnresolvable(w, here), bound, WithProfile(w, bound, main, c)}
    BY <1>5 DEF Materialize, Localized, Each, KeysOf
  <2>2. Cardinality(Evidence(w, k)) = 1 => FileInfo[main].quant = k.quant
    <3>1. Cardinality({}) = 0
      BY FS_EmptySet
    <3>2. \A f \in Evidence(w, k) : FileInfo[f].quant = k.quant
      OBVIOUS
    <3> QED BY <3>1, <3>2
  <2>3. IsEntry(quiet) /\ Same(e, quiet)
    <3>1. IsEntry(e)
      BY DEF IsRegistry
    <3> HIDE DEF e
    <3>2. IsEntry(quiet)
      BY <3>1 DEF IsEntry
    <3>3. Same(e, quiet)
      <4> HIDE DEF Same
      <4>1. Same(e, e)
        BY DEF Same
      <4> QED BY <1>2, <3>1, <4>1
    <3> QED BY <3>2, <3>3
  <2>4. IsEntry(here) /\ here.path = main /\ here.config = e.config
    <3> HIDE DEF quiet, main, e
    <3> QED BY <2>3 DEF IsEntry, BlankEntry
  <2>5. IsEntry(bound) /\ bound.path = main /\ bound.config = c
    <3>1. \E u : bound = [here EXCEPT !.config = c, !.scope = u]
      BY Zenon
    <3> HIDE DEF here, bound, main, c, e
    <3> QED BY <2>4, <3>1 DEF IsEntry, BlankEntry
  <2>6. Same(here, DropUnresolvable(w, here)) /\ Same(bound, WithProfile(w, bound, main, c))
    <3> HIDE DEF here, bound, main, c, Same
    <3> QED BY <1>3, <1>4, <2>4, <2>5
  <2> HIDE DEF quiet, here, bound, main, q
  <2> QED BY <2>1, <2>2, <2>4, <2>5, <2>6
<1> QED BY <1>1, <1>5 DEF FollowsFrom

-----------------------------------------------------------------------------
(* What a pipeline found in order.                                         *)

(* When the last step validates, the registry is what the bindings made of *)
(* the remembered one, and so the links of that one still speak of it.     *)
Rebound == cmd.name = "sync" /\ cmd.step = "validate" => FollowsFrom(cmd.mem, Inventory(cmd.mem), reg)

VInv == Rebound /\ ValidatedIsBound /\ PairingStillProven

InOrder == {"ok", "ignored"}

LEMMA FollowsAlike ==
  ASSUME NEW m, NEW links, NEW q, NEW r, FollowsFrom(m, links, q), Alike(q, r)
  PROVE FollowsFrom(m, links, r)
BY DEF FollowsFrom, Alike

(* Only the step that writes the bindings leads to the validation.         *)
LEMMA OnlyBindingValidates ==
  ASSUME DOMAIN cmd = DOMAIN Idle, Next, ~BindStep
  PROVE ~(cmd'.name = "sync" /\ cmd'.step = "validate")
<1>1. CASE \/ FileGone \/ FileReplaced \/ ModelsListed \/ ConfigWritten \/ HandEdit
           \/ FillCtxCmd \/ FixCtxCmd \/ FillSizeCmd \/ AddCmd \/ FillQuantCmd \/ MigrateCmd
           \/ ResearchCmd \/ ClassifyCmd \/ ImportCmd \/ RmCmd \/ DedupeCmd
  <2>1. cmd' = cmd /\ cmd.name = "idle"
    BY <1>1 DEF FileGone, FileReplaced, ModelsListed, ConfigWritten, HandEdit, Outside,
                FillCtxCmd, FixCtxCmd, FillSizeCmd, AddCmd, FillQuantCmd, MigrateCmd,
                ResearchCmd, ClassifyCmd, ImportCmd, RmCmd, DedupeCmd, Plain
  <2> QED BY <2>1
<1>2. CASE SyncStarts
  <2>1. cmd'.step = "rekey"
    BY <1>2 DEF SyncStarts, Idle
  <2> QED BY <2>1
<1>3. CASE RekeyStep \/ AddStep \/ QuantStep \/ ArchStep \/ GgufStep \/ ReasoningStep \/ SizeStep \/ MaterializeStep
  <2>1. \E b \in {"add", "fill-quant", "fill-arch", "sync-from-gguf", "fill-reasoning", "fill-size",
                  "materialize", "configs"} : To(b)
    BY <1>3 DEF RekeyStep, AddStep, QuantStep, ArchStep, GgufStep, ReasoningStep, SizeStep, MaterializeStep,
                LinkedStep, Step
  <2> QED BY <2>1 DEF To, Idle
<1>4. CASE ConfigStep \/ ClassifyStep \/ ValidateStep \/ Killed \/ SaveRemaining \/ RollBack
  <2>1. \/ cmd' = Idle \/ cmd' = [cmd EXCEPT !.step = "bind"]
        \/ \E q : cmd' = [cmd EXCEPT !.step = "classify", !.mem = q]
    BY <1>4 DEF ConfigStep, EndSync, ClassifyStep, ValidateStep, Killed, SaveRemaining, RollBack
  <2>2. CASE cmd' = Idle
    BY <2>2 DEF Idle
  <2>3. CASE cmd' = [cmd EXCEPT !.step = "bind"]
    BY <2>3 DEF Idle
  <2>4. ASSUME NEW q, cmd' = [cmd EXCEPT !.step = "classify", !.mem = q] PROVE cmd'.step = "classify"
    BY <2>4 DEF Idle
  <2> QED BY <2>1, <2>2, <2>3, <2>4
<1>5. CASE QuarantineStarts
  <2>1. cmd'.name = "quarantine"
    BY <1>5 DEF QuarantineStarts, Idle
  <2> QED BY <2>1
<1>6. CASE MoveConfig \/ BackUp
  <2>1. cmd.name = "quarantine"
    BY <1>6 DEF MoveConfig, BackUp, Quarantining
  <2>2. CASE MoveConfig
    <3>1. PICK m : cmd' = [cmd EXCEPT !.plan = @ \ {m}, !.moved = @ \cup {<<m[2], confs[m[2]]>>}]
      BY <2>2 DEF MoveConfig
    <3>2. cmd'.name = cmd.name
      BY <3>1 DEF Idle
    <3> QED BY <2>1, <3>2
  <2>3. CASE BackUp
    <3>1. PICK b : cmd' = [cmd EXCEPT !.step = "save", !.backup = b]
      BY <2>3 DEF BackUp
    <3>2. cmd'.name = cmd.name
      BY <3>1 DEF Idle
    <3> QED BY <2>1, <3>2
  <2> QED BY <1>6, <2>2, <2>3
<1> QED BY <1>1, <1>2, <1>3, <1>4, <1>5, <1>6 DEF Next

LEMMA ReboundKept ==
  ASSUME KInv, Rebound, [Next]_vars
  PROVE Rebound'
<1>0. IsRegistry(reg) /\ DOMAIN cmd = DOMAIN Idle
  BY DEF KInv, Shape
<1>1. CASE BindStep
  <2> DEFINE q == Materialize(Inventory(cmd.mem))
  <2>1. /\ Replace(Rebind(q)) /\ cmd.name = "sync" /\ cmd.step = "bind" /\ UNCHANGED <<disk, print, lms, confs>>
        /\ cmd' = [cmd EXCEPT !.step = "validate"]
    BY <1>1 DEF BindStep, At, world
  <2>2. IsRegistry(cmd.mem) /\ Alike(cmd.mem, reg)
    BY <2>1 DEF KInv, Remembered
  <2>3. IsRegistry(q) /\ FollowsFrom(cmd.mem, Inventory(cmd.mem), q)
    <3>1. IsWorld(Scanned(cmd.mem)) /\ Scanned(cmd.mem).reg = cmd.mem
      BY ScannedIsWorld
    <3>2. Inventory(cmd.mem).reg = cmd.mem /\ Inventory(cmd.mem) = Refreshed(Scanned(cmd.mem))
      BY WorldsRegistry DEF Inventory
    <3>3. \A k \in KeysOf(cmd.mem) : \A f \in Evidence(Inventory(cmd.mem), k) : FileInfo[f].quant = k.quant
      BY <3>1, <3>2, EvidenceQuant DEF KeysOf
    <3>4. IsRegistry(q)
      BY <2>2, <3>2, MaterializeSays, SayingTheSame
    <3> QED BY <2>2, <3>2, <3>3, <3>4, MaterializeFollows
  <2>4. FollowsFrom(cmd.mem, Inventory(cmd.mem), reg)
    BY <2>2 DEF FollowsFrom, Alike
  <2> HIDE DEF q
  <2>5. IsRegistry(Rebind(q)) /\ FollowsFrom(cmd.mem, Inventory(cmd.mem), Rebind(q))
    BY <1>0, <2>3, <2>4 DEF Rebind
  <2>6. FollowsFrom(cmd.mem, Inventory(cmd.mem), reg')
    BY <2>1, <2>5, ReplaceKeeps, FollowsAlike
  <2>7. cmd'.mem = cmd.mem /\ cmd'.files = cmd.files
    BY <1>0, <2>1 DEF Idle
  <2>8. Inventory(cmd.mem)' = Inventory(cmd.mem)
    BY <2>1, <2>7 DEF Inventory, Scanned, World
  <2> QED BY <2>6, <2>7, <2>8 DEF Rebound
<1>2. CASE UNCHANGED vars
  <2>1. UNCHANGED <<reg, disk, print, lms, confs, cmd>>
    BY <1>2 DEF vars, world
  <2>2. Inventory(cmd.mem)' = Inventory(cmd.mem)
    BY <2>1 DEF Inventory, Scanned, World
  <2> QED BY <2>1, <2>2 DEF Rebound
<1>3. CASE Next /\ ~BindStep
  BY <1>0, <1>3, OnlyBindingValidates DEF Rebound
<1> QED BY <1>1, <1>2, <1>3

(* A verdict that stands after another step stood before it, and nothing   *)
(* it speaks of has changed.                                               *)
LEMMA VerdictStands ==
  ASSUME [Next]_vars, ~ValidateStep, verdict' \in InOrder
  PROVE verdict' = verdict /\ UNCHANGED <<reg, disk, print>> /\ DOMAIN confs \subseteq DOMAIN confs'
<1>0. verdict' # "none"
  BY DEF InOrder
<1>a. ASSUME NEW q, Replace(q) PROVE verdict' = verdict /\ reg' = reg
  BY <1>0, <1>a DEF Replace
<1>1. CASE FileGone \/ FileReplaced \/ ModelsListed \/ ConfigWritten \/ HandEdit
  BY <1>0, <1>1 DEF FileGone, FileReplaced, ModelsListed, ConfigWritten, HandEdit, Outside
<1>2. CASE \/ FillCtxCmd \/ FixCtxCmd \/ FillSizeCmd \/ AddCmd \/ FillQuantCmd \/ MigrateCmd
           \/ ResearchCmd \/ ClassifyCmd \/ ImportCmd \/ RmCmd \/ DedupeCmd
  <2>1. \E q : Plain(q)
    BY <1>2 DEF FillCtxCmd, FixCtxCmd, FillSizeCmd, AddCmd, FillQuantCmd, MigrateCmd,
                ResearchCmd, ClassifyCmd, ImportCmd, RmCmd, DedupeCmd
  <2>2. (\E q : Replace(q)) /\ UNCHANGED <<disk, print, confs>>
    BY <2>1 DEF Plain, world
  <2> QED BY <1>a, <2>2
<1>3. CASE RekeyStep \/ AddStep \/ QuantStep \/ ArchStep \/ GgufStep \/ ReasoningStep \/ SizeStep \/ MaterializeStep
  <2>1. \E a, b, q : Step(a, b, q)
    BY <1>3 DEF RekeyStep, AddStep, QuantStep, ArchStep, GgufStep, ReasoningStep, SizeStep, MaterializeStep, LinkedStep
  <2>2. (\E q : Replace(q)) /\ UNCHANGED <<disk, print, confs>>
    BY <2>1 DEF Step, world
  <2> QED BY <1>a, <2>2
<1>4. CASE ConfigStep \/ ClassifyStep \/ BindStep
  <2>1. (\E q : Replace(q)) /\ UNCHANGED <<disk, print, confs>>
    BY <1>4 DEF ConfigStep, EndSync, ClassifyStep, BindStep, world
  <2> QED BY <1>a, <2>1
<1>5. CASE SyncStarts \/ Killed \/ QuarantineStarts \/ BackUp
  BY <1>5 DEF SyncStarts, Killed, QuarantineStarts, BackUp, world
<1>6. CASE MoveConfig
  BY <1>0, <1>6 DEF MoveConfig
<1>7. CASE SaveRemaining
  <2>1. (\E q : Replace(q)) /\ UNCHANGED <<disk, print, confs>>
    BY <1>7 DEF SaveRemaining, world
  <2> QED BY <1>a, <2>1
<1>8. CASE RollBack
  <2>1. PICK back \in SUBSET cmd.moved : DOMAIN confs' = DOMAIN confs \cup {m[1] : m \in back}
    BY <1>8 DEF RollBack
  <2>2. UNCHANGED <<reg, disk, print, verdict>>
    BY <1>8 DEF RollBack, world
  <2> QED BY <2>1, <2>2
<1>9. CASE UNCHANGED vars
  BY <1>9 DEF vars, world
<1> QED BY <1>1, <1>2, <1>3, <1>4, <1>5, <1>6, <1>7, <1>8, <1>9 DEF Next

(* What a validation without complaint has looked at.                      *)
LEMMA NoComplaint ==
  ASSUME ValidateStep, verdict' \in InOrder
  PROVE /\ PairInvalid(Inventory(reg)) = {} /\ CompanionInvalid(Inventory(reg)) = {}
        /\ Unconfirmed(Inventory(reg), Inventory(cmd.mem)) = {}
<1> DEFINE w == Inventory(reg)
           links == Inventory(cmd.mem)
<1>1. PICK ignoreDrift \in BOOLEAN : ~Fails(w, links, ignoreDrift)
  BY DEF ValidateStep, InOrder
<1> HIDE DEF w, links
<1>2. Complaints(Blocking(w, links)) = {}
  BY <1>1 DEF Fails
<1>3. \A c \in DOMAIN Blocking(w, links) : Blocking(w, links)[c] = {}
  BY <1>2 DEF Complaints
<1>4. Blocking(w, links).local_config_pair_invalid = {} /\ Blocking(w, links).local_companion_invalid = {}
  BY <1>3 DEF Blocking
<1>5. PairInvalid(w) \cup Unconfirmed(w, links) = {} /\ CompanionInvalid(w) = {}
  BY <1>4 DEF Blocking
<1> QED BY <1>5 DEF w, links

LEMMA InventoryFields ==
  ASSUME NEW r
  PROVE Inventory(r).reg = r /\ Inventory(r).confs = confs /\ Inventory(r).disk = disk /\ Inventory(r).print = print
BY ScannedIsWorld, RefreshedFields DEF Inventory

LEMMA BoundWhenValidated ==
  ASSUME KInv, Rebound, ValidateStep
  PROVE ValidatedIsBound'
<1> SUFFICES ASSUME verdict' \in InOrder, NEW k \in KeysOf(reg), reg[k].config # NoConf
             PROVE /\ reg[k].path \in disk /\ reg[k].config \in DOMAIN confs
                   /\ FileInfo[reg[k].path].quant \in {k.quant, Absent}
                   /\ \A j \in KeysOf(reg) \ {k} : reg[j].config # reg[k].config
  <2>1. UNCHANGED <<reg, disk, confs>>
    BY DEF ValidateStep, world
  <2> QED BY <2>1 DEF ValidatedIsBound, InOrder
<1> DEFINE w == Inventory(reg)
           v == Scanned(cmd.mem)
           links == Inventory(cmd.mem)
<1>1. PairInvalid(w) = {} /\ Unconfirmed(w, links) = {}
  BY NoComplaint
<1>2. reg[k].path \in disk /\ reg[k].config \in DOMAIN confs
  <2>1. w.reg = reg /\ w.disk = disk /\ w.confs = confs
    BY InventoryFields
  <2> HIDE DEF w
  <2>2. PairOk(w, reg[k].path, reg[k].config, reg[k].scope)
    BY <1>1, <2>1 DEF PairInvalid
  <2> QED BY <2>1, <2>2 DEF PairOk
<1>3. \A j \in KeysOf(reg) : reg[j].config # NoConf => Binding(links, j) # NoConf
  <2>1. w.reg = reg
    BY InventoryFields
  <2> HIDE DEF w, links
  <2> QED BY <1>1, <2>1 DEF Unconfirmed
<1>4. FollowsFrom(cmd.mem, links, reg)
  BY DEF Rebound, ValidateStep, At
<1>5. IsWorld(v) /\ v.reg = cmd.mem /\ IsFiniteSet(DOMAIN v.confs) /\ links = Refreshed(v)
  BY ScannedIsWorld DEF Inventory, KInv, Shape
<1> HIDE DEF v, links, w
<1>6. \A j \in KeysOf(reg) : reg[j].config # NoConf =>
         reg[j].config = Binding(links, j) /\ FileInfo[reg[j].path].quant \in {j.quant, Absent}
  <2> SUFFICES ASSUME NEW j \in KeysOf(reg), reg[j].config # NoConf
               PROVE reg[j].config = Binding(links, j) /\ FileInfo[reg[j].path].quant \in {j.quant, Absent}
    OBVIOUS
  <2>1. Binding(links, j) # NoConf /\ j \in DOMAIN v.reg
    BY <1>3, <1>4, <1>5 DEF FollowsFrom, KeysOf
  <2>2. cmd.mem[j].config # NoConf =>
           Binding(links, j) = cmd.mem[j].config /\ FileInfo[cmd.mem[j].path].quant \in {j.quant, Absent}
    BY <1>5, <2>1, BindingProves
  <2>3. \/ reg[j].path = cmd.mem[j].path /\ reg[j].config = cmd.mem[j].config
        \/ FileInfo[reg[j].path].quant = j.quant /\ reg[j].config \in {cmd.mem[j].config, Binding(links, j)}
    BY <1>4 DEF FollowsFrom
  <2> QED BY <2>2, <2>3
<1>7. \A j \in KeysOf(reg) \ {k} : reg[j].config # reg[k].config
  <2> SUFFICES ASSUME NEW j \in KeysOf(reg), reg[j].config = reg[k].config PROVE j = k
    OBVIOUS
  <2>1. Binding(links, j) = Binding(links, k) /\ Binding(links, k) # NoConf
    BY <1>3, <1>6
  <2>2. j \in DOMAIN v.reg /\ k \in DOMAIN v.reg
    BY <1>4, <1>5 DEF FollowsFrom, KeysOf
  <2> QED BY <1>5, <2>1, <2>2, BindingProves
<1> QED BY <1>2, <1>6, <1>7

(* An entry without a profile asks for no companion.                       *)
LEMMA NoProfileNoRole == Role(NoProfile) = "none"
<1>1. Absent \notin {"mtp", "draft-mtp", "draft", "draft-dflash", "draft-dspark", "draft-simple"}
  BY DEF Absent
<1>2. NoProfile.type = Absent
  BY DEF NoProfile
<1>3. Normalize(NoProfile) = NoProfile
  BY <1>1, <1>2 DEF Normalize
<1> QED BY <1>1, <1>2, <1>3 DEF Role

LEMMA PairedWhenValidated ==
  ASSUME KInv, ValidateStep
  PROVE PairingStillProven'
<1> SUFFICES ASSUME verdict' \in InOrder, NEW k \in KeysOf(reg),
                    Role(reg[k].spec) # "none", reg[k].policy # "disabled"
             PROVE /\ {reg[k].path, reg[k].companion} \subseteq disk
                   /\ MethodOf(reg[k].spec) \in Specialised =>
                         \/ HeaderTargets(FileInfo[reg[k].path].head, FileInfo[reg[k].companion].head)
                         \/ /\ reg[k].spec.pairing # "none"
                            /\ LET t == Recorded[reg[k].spec.pairing] IN
                               /\ t.main = reg[k].path /\ t.helper = reg[k].companion
                               /\ t.mainPrint = print[reg[k].path] /\ t.helperPrint = print[reg[k].companion]
  <2>1. UNCHANGED <<reg, disk, print>>
    BY DEF ValidateStep, world
  <2> QED BY <2>1 DEF PairingStillProven, InOrder
<1> DEFINE w == Inventory(reg)
           e == reg[k]
           heads == [f \in DOMAIN FileInfo |-> FileInfo[f].head]
<1>1. CompanionInvalid(w) = {} /\ w.reg = reg /\ w.disk = disk /\ w.print = print
  BY NoComplaint, InventoryFields
<1> HIDE DEF w
<1>2. CompanionOk(w, e.spec, e.path, e.companion)
  <2>1. e.spec # NoProfile
    BY NoProfileNoRole
  <2> QED BY <1>1, <2>1 DEF CompanionInvalid
<1>3. BindingOk(e.spec, e.path, e.companion, disk, heads, print, Recorded)
  BY <1>1, <1>2 DEF CompanionOk
<1>4. Normalize(e.spec).type # Absent /\ ~(Normalize(e.spec).type = "mtp" /\ Normalize(e.spec).mode \notin {"integrated", "separate"})
  <2>1. Absent # "mtp" /\ Absent # "draft"
    BY DEF Absent
  <2> QED BY <2>1 DEF Role
<1> HIDE DEF heads, e
<1>5. {e.path, e.companion} \subseteq disk
  BY <1>3, <1>4 DEF BindingOk, e
<1>6. MethodOf(e.spec) \in Specialised =>
      HeaderTargets(heads[e.path], heads[e.companion])
      \/ (e.spec.pairing # "none" /\ EvidenceProves(Recorded[e.spec.pairing], MethodOf(e.spec), e.path, e.companion, print[e.path], print[e.companion]))
  <2> SUFFICES ASSUME MethodOf(e.spec) \in Specialised
               PROVE HeaderTargets(heads[e.path], heads[e.companion])
                     \/ (e.spec.pairing # "none" /\ EvidenceProves(Recorded[e.spec.pairing], MethodOf(e.spec), e.path, e.companion, print[e.path], print[e.companion]))
    OBVIOUS
  <2>1. MethodOf(e.spec) # "simple"
    BY DEF Specialised
  <2> QED BY <1>3, <1>4, <2>1 DEF BindingOk, e
<1>7. heads[e.path] = FileInfo[e.path].head /\ heads[e.companion] = FileInfo[e.companion].head
  <2>1. disk \subseteq DOMAIN FileInfo
    BY RegistryAssumption DEF KInv, Shape
  <2> QED BY <1>5, <2>1 DEF heads
<1> QED BY <1>5, <1>6, <1>7 DEF EvidenceProves, e

LEMMA VerdictHolds == KInv /\ VInv /\ [Next]_vars => VInv'
<1> SUFFICES ASSUME KInv, VInv, [Next]_vars PROVE VInv'
  OBVIOUS
<1>1. Rebound'
  BY ReboundKept DEF VInv
<1>2. CASE ValidateStep
  BY <1>1, <1>2, BoundWhenValidated, PairedWhenValidated DEF VInv
<1>3. CASE ~ValidateStep /\ verdict' \in InOrder
  <2>1. verdict' = verdict /\ UNCHANGED <<reg, disk, print>> /\ DOMAIN confs \subseteq DOMAIN confs'
    BY <1>3, VerdictStands
  <2>2. ValidatedIsBound'
    BY <1>3, <2>1 DEF VInv, ValidatedIsBound, InOrder
  <2>3. PairingStillProven'
    BY <1>3, <2>1 DEF VInv, PairingStillProven, InOrder
  <2> QED BY <1>1, <2>2, <2>3 DEF VInv
<1>4. CASE verdict' \notin InOrder
  BY <1>1, <1>4 DEF VInv, ValidatedIsBound, PairingStillProven, InOrder
<1> QED BY <1>2, <1>3, <1>4

LEMMA InitHolds == Init => KInv /\ VInv
<1> SUFFICES ASSUME Init PROVE VInv
  BY InitKept
<1>1. cmd.name = "idle" /\ verdict = "none"
  BY DEF Init, Idle
<1> QED BY <1>1 DEF VInv, Rebound, ValidatedIsBound, PairingStillProven

(* What the exit code of a pipeline stands for (_run_pipeline, the checks  *)
(* of cmd_validate): until something changes, an entry's configuration is  *)
(* its own, on disk, and of its file's quant.                              *)
THEOREM ValidatedStaysBound == Spec => []ValidatedIsBound
<1>1. KInv /\ VInv => ValidatedIsBound
  BY DEF VInv
<1> QED BY <1>1, InitHolds, NextKeeps, VerdictHolds, PTL DEF Spec

(* And a profile that needs a companion has it; one made for one main model*)
(* names that model in its header, or was tested with exactly that file,   *)
(* and neither was replaced since (validate_companion_binding).  What does *)
(* not fit is kept without a companion by _materialize_local_bindings, and *)
(* blocks.                                                                 *)
THEOREM PairingStaysProven == Spec => []PairingStillProven
<1>1. KInv /\ VInv => PairingStillProven
  BY DEF VInv
<1> QED BY <1>1, InitHolds, NextKeeps, VerdictHolds, PTL DEF Spec

-----------------------------------------------------------------------------
(* What sync-from-gguf corrected.                                          *)

HeaderAlike(r, q) ==
    /\ KeysOf(q) = KeysOf(r)
    /\ \A k \in KeysOf(r) : /\ q[k].layers = r[k].layers /\ q[k].max = r[k].max
                            /\ q[k].arch = r[k].arch /\ q[k].maxExperts = r[k].maxExperts

LEMMA HeaderAlikeTransitive ==
  ASSUME NEW a, NEW b, NEW c, HeaderAlike(a, b), HeaderAlike(b, c) PROVE HeaderAlike(a, c)
BY DEF HeaderAlike

LEMMA SavedHeaders ==
  ASSUME NEW r, IsRegistry(r) PROVE HeaderAlike(r, Saved(r))
BY DEF Saved, Each, HeaderAlike, KeysOf, IsRegistry, IsEntry, BlankEntry

LEMMA ClassifiedHeaders ==
  ASSUME NEW r, IsRegistry(r) PROVE HeaderAlike(r, Classified(r))
BY ZenonT(40) DEF Classified, Each, HeaderAlike, KeysOf, IsRegistry, IsEntry, BlankEntry

LEMMA FillReasoningHeaders ==
  ASSUME NEW w, IsRegistry(w.reg) PROVE HeaderAlike(w.reg, FillReasoning(w))
BY DEF FillReasoning, Each, HeaderAlike, KeysOf, IsRegistry, IsEntry, BlankEntry

LEMMA FillSizeHeaders ==
  ASSUME NEW w, NEW refresh, IsRegistry(w.reg) PROVE HeaderAlike(w.reg, FillSize(w, refresh))
BY DEF FillSize, Each, HeaderAlike, KeysOf, IsRegistry, IsEntry, BlankEntry

LEMMA SyncFromConfigsHeaders ==
  ASSUME NEW w, NEW fields, IsRegistry(w.reg) PROVE HeaderAlike(w.reg, SyncFromConfigs(w, fields))
<1> DEFINE r == w.reg
           q == SyncFromConfigs(w, fields)
<1>1. KeysOf(q) = KeysOf(r)
  BY DEF SyncFromConfigs, Each, KeysOf
<1>2. ASSUME NEW k \in KeysOf(r)
      PROVE /\ q[k].layers = r[k].layers /\ q[k].max = r[k].max
            /\ q[k].arch = r[k].arch /\ q[k].maxExperts = r[k].maxExperts
  <2>1. IsEntry(r[k])
    BY DEF IsRegistry
  <2>2. \E a, b, c : q[k] = [r[k] EXCEPT !.ctx = a, !.experts = b, !.kv = c]
    BY <1>2, Zenon DEF SyncFromConfigs, Imported, Each, KeysOf
  <2> HIDE DEF q, r
  <2>3. PICK a, b, c : q[k] = [r[k] EXCEPT !.ctx = a, !.experts = b, !.kv = c]
    BY <2>2
  <2> QED BY <2>1, <2>3 DEF IsEntry, BlankEntry
<1> QED BY <1>1, <1>2 DEF HeaderAlike

LEMMA MaterializeHeaders ==
  ASSUME NEW w, IsRegistry(w.reg) PROVE HeaderAlike(w.reg, Materialize(w))
<1> DEFINE r == w.reg
           q == Materialize(w)
           Same(e, d) == /\ d.layers = e.layers /\ d.max = e.max /\ d.arch = e.arch /\ d.maxExperts = e.maxExperts
                         /\ IsEntry(d)
<1>1. KeysOf(q) = KeysOf(r)
  BY DEF Materialize, Each, KeysOf
<1>2. ASSUME NEW e, IsEntry(e), NEW x, NEW u
      PROVE Same(e, [e EXCEPT !.spec = x]) /\ Same(e, [e EXCEPT !.spec = x, !.companion = u])
            /\ Same(e, [e EXCEPT !.path = x]) /\ Same(e, [e EXCEPT !.config = x, !.scope = u])
  BY <1>2 DEF IsEntry, BlankEntry
<1>3. ASSUME NEW e, IsEntry(e), NEW main, NEW c PROVE Same(e, WithProfile(w, e, main, c))
  <2> HIDE DEF Same
  <2>1. Same(e, e)
    BY <1>3 DEF Same
  <2> QED BY ZenonT(40), <1>2, <1>3, <2>1 DEF WithProfile
<1>4. ASSUME NEW e, IsEntry(e) PROVE Same(e, DropUnresolvable(w, e))
  <2> HIDE DEF Same
  <2>1. Same(e, e)
    BY <1>4 DEF Same
  <2> QED BY <1>2, <1>4, <2>1 DEF DropUnresolvable
<1>5. ASSUME NEW k \in KeysOf(r) PROVE Same(r[k], q[k])
  <2> DEFINE e     == r[k]
             main  == CHOOSE f \in Evidence(w, k) : TRUE
             c     == Binding(w, k)
             quiet == IF e.policy = "disabled" THEN [e EXCEPT !.spec = NoProfile, !.companion = NoFile] ELSE e
             here  == [quiet EXCEPT !.path = main]
             bound == [here EXCEPT !.config = c, !.scope = IF e.config = NoConf THEN "gguf" ELSE @]
  <2>1. q[k] \in {e, DropUnresolvable(w, here), bound, WithProfile(w, bound, main, c)}
    BY <1>5 DEF Materialize, Localized, Each, KeysOf
  <2>2. Same(e, e) /\ Same(e, quiet)
    <3>1. IsEntry(e)
      BY DEF IsRegistry
    <3> HIDE DEF e, Same
    <3>2. Same(e, e)
      BY <3>1 DEF Same
    <3> QED BY <1>2, <3>1, <3>2
  <2>3. Same(quiet, here)
    <3>1. IsEntry(quiet)
      BY <2>2
    <3> HIDE DEF quiet, main, Same
    <3> QED BY <1>2, <3>1
  <2>4. Same(here, bound)
    <3>1. IsEntry(here)
      BY <2>3
    <3>2. \E u : bound = [here EXCEPT !.config = c, !.scope = u]
      BY Zenon
    <3> HIDE DEF here, bound, c, e, Same
    <3>3. PICK u : bound = [here EXCEPT !.config = c, !.scope = u]
      BY <3>2
    <3>4. Same(here, [here EXCEPT !.config = c, !.scope = u])
      BY <1>2, <3>1
    <3> QED BY <3>3, <3>4
  <2>5. Same(here, DropUnresolvable(w, here)) /\ Same(bound, WithProfile(w, bound, main, c))
    <3>1. IsEntry(here) /\ IsEntry(bound)
      BY <2>3, <2>4
    <3> HIDE DEF here, bound, main, c, Same
    <3> QED BY <1>3, <1>4, <3>1
  <2>6. /\ Same(e, bound) /\ Same(e, DropUnresolvable(w, here))
        /\ Same(e, WithProfile(w, bound, main, c))
    <3> HIDE DEF e, quiet, here, bound, main, c
    <3> QED BY <2>2, <2>3, <2>4, <2>5
  <2> HIDE DEF quiet, here, bound, main, c, q, Same
  <2> QED BY SMTT(40), <2>1, <2>2, <2>6
<1> QED BY <1>1, <1>5 DEF HeaderAlike
(* Which files are linked to an entry depends on the keys alone.           *)
LEMMA EvidenceByKeys ==
  ASSUME NEW r, NEW q, KeysOf(q) = KeysOf(r), NEW k \in KeysOf(r)
  PROVE Evidence(Inventory(q), k) = Evidence(Inventory(r), k)
<1> DEFINE v == Scanned(r)
           u == Scanned(q)
<1>1. /\ IsWorld(v) /\ v.reg = r /\ v.files = cmd.files
      /\ IsWorld(u) /\ u.reg = q /\ u.files = cmd.files
  BY ScannedIsWorld DEF Scanned, World
<1>2. u.lms = v.lms
  <2>1. AsModels(World(q)) = AsModels(World(r))
    BY DEF AsModels, Artifacts, World
  <2>2. Listed(World(q)) = Listed(World(r))
    BY <2>1 DEF Listed, World
  <2> QED BY <2>2 DEF Scanned, World
<1> HIDE DEF v, u
<1>3. Proving(u, k) = Proving(v, k)
  BY <1>1 DEF Proving, Artifacts
<1>4. LinkedModels(u, k) = LinkedModels(v, k)
  BY <1>2, <1>3 DEF LinkedModels
<1>5. LinkedArtifacts(u, k) = LinkedArtifacts(v, k)
  <2>1. DOMAIN u.reg = DOMAIN v.reg /\ Artifacts(u) = Artifacts(v)
    BY <1>1 DEF KeysOf, Artifacts
  <2> QED BY <1>3, <1>4, <2>1 DEF LinkedArtifacts
<1>6. k \in DOMAIN u.reg /\ k \in DOMAIN v.reg
  BY <1>1 DEF KeysOf
<1>7. Evidence(Refreshed(u), k) = Evidence(Refreshed(v), k)
  BY <1>1, <1>3, <1>5, <1>6, EvidenceIs
<1> QED BY <1>7 DEF Inventory, u, v

LEMMA HeadersByKeys ==
  ASSUME NEW r, NEW q, KeysOf(q) = KeysOf(r), NEW k \in KeysOf(r)
  PROVE /\ HasHeader(Inventory(q), k) = HasHeader(Inventory(r), k)
        /\ Header(Inventory(q), k) = Header(Inventory(r), k)
<1>1. HeaderFiles(Inventory(q), k) = HeaderFiles(Inventory(r), k)
  BY EvidenceByKeys DEF HeaderFiles
<1> QED BY <1>1 DEF HasHeader, Header

(* What has no drift keeps none while keys and header fields stay.         *)
LEMMA AlikeNoDrift ==
  ASSUME NEW r, NEW q, HeaderAlike(r, q), HeaderDrift(Inventory(r)) = {}
  PROVE HeaderDrift(Inventory(q)) = {}
<1>1. Inventory(r).reg = r /\ Inventory(q).reg = q /\ KeysOf(q) = KeysOf(r)
  BY WorldsRegistry DEF HeaderAlike
<1>2. ASSUME NEW k \in HeaderDrift(Inventory(q)) PROVE k \in HeaderDrift(Inventory(r))
  <2>1. k \in KeysOf(r) /\ k \in KeysOf(q)
    BY <1>1 DEF HeaderDrift
  <2>2. /\ HasHeader(Inventory(q), k) = HasHeader(Inventory(r), k)
        /\ Header(Inventory(q), k) = Header(Inventory(r), k)
    BY <1>1, <2>1, HeadersByKeys
  <2>3. /\ q[k].layers = r[k].layers /\ q[k].max = r[k].max
        /\ q[k].arch = r[k].arch /\ q[k].maxExperts = r[k].maxExperts
    BY <2>1 DEF HeaderAlike
  <2> QED BY <1>1, <2>1, <2>2, <2>3 DEF HeaderDrift
<1> QED BY <1>2

(* sync-from-gguf leaves no drift.                                         *)
LEMMA GgufCorrects ==
  ASSUME IsRegistry(reg)
  PROVE HeaderDrift(Inventory(SyncFromGguf(Inventory(reg)))) = {}
<1> DEFINE w == Inventory(reg)
           q == SyncFromGguf(w)
           e(k) == q[k]
           h(k) == Header(w, k)
<1>1. w.reg = reg /\ Inventory(q).reg = q
  BY WorldsRegistry
<1>2. KeysOf(q) = KeysOf(reg)
  BY <1>1 DEF SyncFromGguf, Each, KeysOf
<1>3. ASSUME NEW k \in KeysOf(reg), HasHeader(w, k), h(k).layers # 0
      PROVE /\ h(k).experts > 0 => e(k).arch = "moe" /\ e(k).maxExperts = h(k).experts
            /\ h(k).max > 0 => e(k).max = h(k).max
            /\ e(k).layers = h(k).layers
  <2>1. IsEntry(reg[k])
    BY DEF IsRegistry
  <2> HIDE DEF w
  <2>2. e(k) = [reg[k] EXCEPT !.layers = h(k).layers, !.max = IF h(k).max = 0 THEN @ ELSE h(k).max,
                              !.arch = IF h(k).experts > 0 THEN "moe" ELSE @,
                              !.maxExperts = IF h(k).experts > 0 THEN h(k).experts ELSE @]
    BY <1>1, <1>3 DEF SyncFromGguf, Each, KeysOf
  <2> HIDE DEF e, h
  <2> QED BY <2>1, <2>2 DEF IsEntry, BlankEntry
<1>4. ASSUME NEW k \in HeaderDrift(Inventory(q)) PROVE FALSE
  <2>1. k \in KeysOf(reg) /\ HasHeader(Inventory(q), k) /\ Header(Inventory(q), k).layers # 0
    BY <1>1, <1>2, <1>4 DEF HeaderDrift
  <2>2. HasHeader(w, k) /\ Header(Inventory(q), k) = h(k)
    BY <1>2, <2>1, HeadersByKeys
  <2>3. /\ h(k).experts > 0 => q[k].arch = "moe" /\ q[k].maxExperts = h(k).experts
        /\ h(k).max > 0 => q[k].max = h(k).max
        /\ q[k].layers = h(k).layers
    BY <1>3, <2>1, <2>2
  <2> HIDE DEF q, h
  <2> QED BY <1>1, <1>4, <2>2, <2>3 DEF HeaderDrift
<1> QED BY <1>4
(* The registry from before the classification is as clean as the file.    *)
RememberedHeaders ==
    cmd.name = "sync" /\ cmd.step \in {"classify", "bind"} => HeaderAlike(cmd.mem, reg)

HInv == HeadersHold /\ RememberedHeaders

(* Before sync-from-gguf, and outside a pipeline, nothing is claimed.      *)
LEMMA NoHeadersElsewhere ==
  ASSUME DOMAIN cmd = DOMAIN Idle, Next,
         ~(GgufStep \/ ReasoningStep \/ SizeStep \/ MaterializeStep \/ ConfigStep \/ ClassifyStep \/ BindStep)
  PROVE ~(cmd'.name = "sync" /\ cmd'.step \in AfterHeaders)
<1>1. CASE \/ FileGone \/ FileReplaced \/ ModelsListed \/ ConfigWritten \/ HandEdit
           \/ FillCtxCmd \/ FixCtxCmd \/ FillSizeCmd \/ AddCmd \/ FillQuantCmd \/ MigrateCmd
           \/ ResearchCmd \/ ClassifyCmd \/ ImportCmd \/ RmCmd \/ DedupeCmd
  <2>1. cmd' = cmd /\ cmd.name = "idle"
    BY <1>1 DEF FileGone, FileReplaced, ModelsListed, ConfigWritten, HandEdit, Outside,
                FillCtxCmd, FixCtxCmd, FillSizeCmd, AddCmd, FillQuantCmd, MigrateCmd,
                ResearchCmd, ClassifyCmd, ImportCmd, RmCmd, DedupeCmd, Plain
  <2> QED BY <2>1
<1>2. CASE SyncStarts
  <2>1. cmd'.step = "rekey"
    BY <1>2 DEF SyncStarts, Idle
  <2> QED BY <2>1 DEF AfterHeaders
<1>3. CASE RekeyStep \/ AddStep \/ QuantStep \/ ArchStep
  <2>1. \E b \in {"add", "fill-quant", "fill-arch", "sync-from-gguf"} : To(b)
    BY <1>3 DEF RekeyStep, AddStep, QuantStep, ArchStep, LinkedStep, Step
  <2> QED BY <2>1 DEF To, Idle, AfterHeaders
<1>4. CASE ValidateStep \/ Killed \/ SaveRemaining \/ RollBack
  <2>1. cmd' = Idle
    BY <1>4 DEF ValidateStep, Killed, SaveRemaining, RollBack
  <2> QED BY <2>1 DEF Idle
<1>5. CASE QuarantineStarts
  <2>1. cmd'.name = "quarantine"
    BY <1>5 DEF QuarantineStarts, Idle
  <2> QED BY <2>1
<1>6. CASE MoveConfig
  <2>1. PICK m : cmd' = [cmd EXCEPT !.plan = @ \ {m}, !.moved = @ \cup {<<m[2], confs[m[2]]>>}]
    BY <1>6 DEF MoveConfig
  <2>2. cmd'.name = cmd.name /\ cmd.name = "quarantine"
    BY <1>6, <2>1 DEF Idle, MoveConfig, Quarantining
  <2> QED BY <2>2
<1>7. CASE BackUp
  <2>1. PICK b : cmd' = [cmd EXCEPT !.step = "save", !.backup = b]
    BY <1>7 DEF BackUp
  <2>2. cmd'.name = cmd.name /\ cmd.name = "quarantine"
    BY <1>7, <2>1 DEF Idle, BackUp, Quarantining
  <2> QED BY <2>2
<1> QED BY <1>1, <1>2, <1>3, <1>4, <1>5, <1>6, <1>7 DEF Next

(* What a step that writes one registry leaves to be seen, and contradicted.*)
LEMMA SameInventory ==
  ASSUME NEW q, reg' = q, UNCHANGED <<disk, print, lms, confs>>, cmd'.files = cmd.files
  PROVE Inventory(reg)' = Inventory(q)
BY DEF Inventory, Scanned, World

LEMMA SameDrift ==
  ASSUME NEW q, reg' = q, UNCHANGED <<disk, print, lms, confs>>, cmd'.files = cmd.files
  PROVE HeaderDrift(Inventory(reg))' = HeaderDrift(Inventory(q))
<1> DEFINE now  == Inventory(reg)
           then == Inventory(q)
<1>1. now' = then
  BY SameInventory
<1> HIDE DEF now, then
<1>2. HeaderDrift(now)' = HeaderDrift(then)
  BY <1>1 DEF HeaderDrift, KeysOf, HasHeader, Header, HeaderFiles, Evidence
<1> QED BY <1>2 DEF now, then

(* A registry without drift that is saved is without drift in the file.    *)
LEMMA ReplaceNoDrift ==
  ASSUME NEW q, IsRegistry(q), HeaderDrift(Inventory(q)) = {}, Replace(q),
         UNCHANGED <<disk, print, lms, confs>>, cmd'.files = cmd.files
  PROVE HeaderDrift(Inventory(reg))' = {} /\ HeaderAlike(q, reg')
<1>1. HeaderAlike(q, Saved(q)) /\ reg' = Saved(q)
  BY SavedHeaders DEF Replace
<1>2. HeaderDrift(Inventory(Saved(q))) = {}
  BY <1>1, AlikeNoDrift
<1>3. HeaderDrift(Inventory(reg))' = HeaderDrift(Inventory(Saved(q)))
  BY <1>1, SameDrift
<1> QED BY <1>1, <1>2, <1>3

LEMMA HeadersStay ==
  ASSUME KInv, HInv, [Next]_vars
  PROVE HInv'
<1>0. IsRegistry(reg) /\ DOMAIN cmd = DOMAIN Idle /\ Inventory(reg).reg = reg
  BY WorldsRegistry DEF KInv, Shape
<1> DEFINE w == Inventory(reg)
<1>a. ASSUME NEW a, NEW b \in {"fill-reasoning", "fill-size", "materialize", "configs"}, NEW q, Step(a, b, q),
             IsRegistry(q), HeaderDrift(Inventory(q)) = {}
      PROVE HInv'
  <2>1. /\ Replace(q) /\ UNCHANGED <<disk, print, lms, confs>> /\ cmd'.files = cmd.files
        /\ cmd'.step = b
    BY <1>0, <1>a DEF Step, To, world, Idle
  <2>2. HeaderDrift(Inventory(reg))' = {}
    BY <1>a, <2>1, ReplaceNoDrift
  <2> QED BY <1>a, <2>1, <2>2 DEF HInv, HeadersHold, RememberedHeaders
<1>b. ASSUME NEW a \in AfterHeaders, NEW b \in {"fill-size", "materialize", "configs"}, NEW q,
             Step(a, b, q), SaysTheSame(reg, q), HeaderAlike(reg, q)
      PROVE HInv'
  <2>1. HeaderDrift(Inventory(reg)) = {}
    BY <1>b DEF HInv, HeadersHold, Step, At
  <2>2. IsRegistry(q) /\ HeaderDrift(Inventory(q)) = {}
    BY <1>0, <1>b, <2>1, SayingTheSame, AlikeNoDrift
  <2> QED BY <1>a, <1>b, <2>2
<1>1. CASE GgufStep
  <2>1. Step("sync-from-gguf", "fill-reasoning", SyncFromGguf(w))
    BY <1>1 DEF GgufStep, LinkedStep
  <2>2. IsRegistry(SyncFromGguf(w)) /\ HeaderDrift(Inventory(SyncFromGguf(w))) = {}
    BY <1>0, SyncFromGgufSays, SayingTheSame, GgufCorrects
  <2> HIDE DEF w
  <2> QED BY <1>a, <2>1, <2>2
<1>2. CASE ReasoningStep
  <2>1. Step("fill-reasoning", "fill-size", FillReasoning(w))
    BY <1>2 DEF ReasoningStep, LinkedStep
  <2> HIDE DEF w
  <2>2. SaysTheSame(reg, FillReasoning(w)) /\ HeaderAlike(reg, FillReasoning(w))
    BY <1>0, FillReasoningSays, FillReasoningHeaders DEF w
  <2> QED BY <1>b, <2>1, <2>2 DEF AfterHeaders
<1>3. CASE SizeStep
  <2>1. Step("fill-size", "materialize", FillSize(w, TRUE))
    BY <1>3 DEF SizeStep, LinkedStep
  <2> HIDE DEF w
  <2>2. SaysTheSame(reg, FillSize(w, TRUE)) /\ HeaderAlike(reg, FillSize(w, TRUE))
    BY <1>0, FillSizeSays, FillSizeHeaders DEF w
  <2> QED BY <1>b, <2>1, <2>2 DEF AfterHeaders
<1>4. CASE MaterializeStep
  <2>1. Step("materialize", "configs", Materialize(w))
    BY <1>4 DEF MaterializeStep, LinkedStep
  <2> HIDE DEF w
  <2>2. SaysTheSame(reg, Materialize(w)) /\ HeaderAlike(reg, Materialize(w))
    BY <1>0, MaterializeSays, MaterializeHeaders DEF w
  <2> QED BY <1>b, <2>1, <2>2 DEF AfterHeaders
<1>5. CASE ConfigStep
  <2>1. ASSUME NEW import, NEW q, EndSync(import, q), IsRegistry(q), HeaderAlike(reg, q)
        PROVE HInv'
    <3>1. /\ Replace(q) /\ UNCHANGED <<disk, print, lms, confs>> /\ cmd.name = "sync" /\ cmd.step = "configs"
          /\ cmd' \in {Idle, [cmd EXCEPT !.step = "classify", !.mem = q]}
      BY <2>1 DEF EndSync, At, world
    <3>2. HeaderDrift(Inventory(reg)) = {}
      BY <3>1 DEF HInv, HeadersHold, AfterHeaders
    <3>3. HeaderDrift(Inventory(q)) = {}
      BY <2>1, <3>2, AlikeNoDrift
    <3>4. CASE cmd' = Idle
      BY <3>4 DEF Idle, HInv, HeadersHold, RememberedHeaders
    <3>5. CASE cmd' = [cmd EXCEPT !.step = "classify", !.mem = q]
      <4>1. cmd'.files = cmd.files /\ cmd'.mem = q
        BY <1>0, <3>5 DEF Idle
      <4>2. HeaderDrift(Inventory(reg))' = {} /\ HeaderAlike(q, reg')
        BY <2>1, <3>1, <3>3, <4>1, ReplaceNoDrift
      <4> QED BY <4>1, <4>2 DEF HInv, HeadersHold, RememberedHeaders
    <3> QED BY <3>1, <3>4, <3>5
  <2>2. CASE EndSync(FALSE, reg)
    BY <1>0, <2>1, <2>2 DEF HeaderAlike
  <2>3. CASE EndSync(TRUE, Saved(SyncFromConfigs(w, AllFields)))
    <3> DEFINE r == SyncFromConfigs(w, AllFields)
    <3>1. SaysTheSame(reg, r) /\ HeaderAlike(reg, r)
      BY <1>0, SyncFromConfigsSays, SyncFromConfigsHeaders
    <3> HIDE DEF r
    <3>2. IsRegistry(r) /\ IsRegistry(Saved(r)) /\ HeaderAlike(r, Saved(r))
      BY <1>0, <3>1, SayingTheSame, SavedSays, SavedHeaders
    <3>3. HeaderAlike(reg, Saved(r))
      BY <3>1, <3>2, HeaderAlikeTransitive
    <3>4. EndSync(TRUE, Saved(r))
      BY <2>3 DEF r
    <3> QED BY <2>1, <3>2, <3>3, <3>4
  <2> QED BY <1>5, <2>2, <2>3 DEF ConfigStep
<1>6. CASE ClassifyStep
  <2> DEFINE q == Classified(reg)
  <2>1. /\ Replace(q) /\ UNCHANGED <<disk, print, lms, confs>> /\ cmd.name = "sync" /\ cmd.step = "classify"
        /\ cmd' \in {Idle, [cmd EXCEPT !.step = "bind"]}
    BY <1>6 DEF ClassifyStep, At, world
  <2>2. IsRegistry(q) /\ HeaderAlike(reg, q)
    BY <1>0, ClassifiedSays, SayingTheSame, ClassifiedHeaders
  <2>3. HeaderDrift(Inventory(reg)) = {} /\ HeaderAlike(cmd.mem, reg)
    BY <2>1 DEF HInv, HeadersHold, RememberedHeaders, AfterHeaders
  <2> HIDE DEF q
  <2>4. CASE cmd' = Idle
    BY <2>4 DEF Idle, HInv, HeadersHold, RememberedHeaders
  <2>5. CASE cmd' = [cmd EXCEPT !.step = "bind"]
    <3>1. cmd'.files = cmd.files /\ cmd'.mem = cmd.mem
      BY <1>0, <2>5 DEF Idle
    <3>2. HeaderDrift(Inventory(q)) = {}
      BY <2>2, <2>3, AlikeNoDrift
    <3>3. HeaderDrift(Inventory(reg))' = {} /\ HeaderAlike(q, reg')
      BY <2>1, <2>2, <3>1, <3>2, ReplaceNoDrift
    <3>4. HeaderAlike(cmd.mem, reg')
      BY <2>2, <2>3, <3>3, HeaderAlikeTransitive
    <3> QED BY <3>1, <3>3, <3>4 DEF HInv, HeadersHold, RememberedHeaders
  <2> QED BY <2>1, <2>4, <2>5
<1>7. CASE BindStep
  <2> DEFINE m == Inventory(cmd.mem)
             q == Materialize(m)
  <2>1. /\ Replace(Rebind(q)) /\ UNCHANGED <<disk, print, lms, confs>> /\ cmd.name = "sync" /\ cmd.step = "bind"
        /\ cmd' = [cmd EXCEPT !.step = "validate"]
    BY <1>7 DEF BindStep, At, world
  <2>2. IsRegistry(cmd.mem) /\ m.reg = cmd.mem
    BY <2>1, WorldsRegistry DEF KInv, Remembered
  <2>3. HeaderDrift(Inventory(reg)) = {} /\ HeaderAlike(cmd.mem, reg)
    BY <2>1 DEF HInv, HeadersHold, RememberedHeaders, AfterHeaders
  <2>4. HeaderAlike(reg, cmd.mem)
    BY <2>3 DEF HeaderAlike
  <2>5. IsRegistry(q) /\ HeaderAlike(cmd.mem, q)
    BY <2>2, MaterializeSays, SayingTheSame, MaterializeHeaders
  <2> HIDE DEF q
  <2>6. HeaderDrift(Inventory(q)) = {}
    BY <2>3, <2>4, <2>5, HeaderAlikeTransitive, AlikeNoDrift
  <2>7. IsRegistry(Rebind(q)) /\ HeaderDrift(Inventory(Rebind(q))) = {}
    BY <1>0, <2>3, <2>5, <2>6 DEF Rebind
  <2>8. cmd'.files = cmd.files /\ cmd'.step = "validate"
    BY <1>0, <2>1 DEF Idle
  <2>9. HeaderDrift(Inventory(reg))' = {}
    BY <2>1, <2>7, <2>8, ReplaceNoDrift
  <2> QED BY <2>8, <2>9 DEF HInv, HeadersHold, RememberedHeaders
<1>8. CASE UNCHANGED vars
  <2>1. UNCHANGED <<reg, disk, print, lms, confs, cmd>>
    BY <1>8 DEF vars, world
  <2>2. Inventory(reg)' = Inventory(reg)
    BY <2>1, SameInventory
  <2>3. HeaderDrift(Inventory(reg))' = HeaderDrift(Inventory(reg))
    BY <2>2 DEF HeaderDrift, HasHeader, Header, HeaderFiles, Evidence
  <2> QED BY <2>1, <2>3 DEF HInv, HeadersHold, RememberedHeaders, HeaderAlike
<1>9. CASE Next /\ ~(GgufStep \/ ReasoningStep \/ SizeStep \/ MaterializeStep \/ ConfigStep \/ ClassifyStep \/ BindStep)
  <2>1. ~(cmd'.name = "sync" /\ cmd'.step \in AfterHeaders)
    BY <1>0, <1>9, NoHeadersElsewhere
  <2> QED BY <2>1 DEF HInv, HeadersHold, RememberedHeaders, AfterHeaders
<1> QED BY <1>1, <1>2, <1>3, <1>4, <1>5, <1>6, <1>7, <1>8, <1>9

(* From sync-from-gguf on, a pipeline keeps what it took from the headers  *)
(* (cmd_sync_from_gguf, cmd_pipeline): the drift its last step looks for   *)
(* (_gguf_drift_errors) is not there, so that step never fails for it.     *)
THEOREM HeadersStayRight == Spec => []HeadersHold
<1>1. Init => HInv
  BY DEF Init, Idle, HInv, HeadersHold, RememberedHeaders
<1>2. HInv => HeadersHold
  BY DEF HInv
<1> QED BY <1>1, <1>2, InitKept, NextKeeps, HeadersStay, PTL DEF Spec
=============================================================================
