-------------------------- MODULE EvaluationProofs --------------------------
(***************************************************************************)
(* What a score and a row of the evaluation belong to, for any tasks,      *)
(* manifests, sample sizes and number of calls: the benchmark runners, the *)
(* task pool of the custom benchmark, the marks of the sandbox, and the    *)
(* slots of LM-Eval's proxy for any number of requests.                    *)
(***************************************************************************)
EXTENDS Runners, LmevalProxy, TaskPool, Sandbox, FiniteSetTheorems, SequenceTheorems, TLAPS

-----------------------------------------------------------------------------
(* The runners.  A generation works on tasks of the dataset; a call works  *)
(* on the ids of its manifest, and has no answer before its end.           *)

Sample == [task : TaskSet, by : Nat]

IsGeneration(w) ==
    /\ w = [by |-> w.by, selected |-> w.selected, parallel |-> w.parallel,
            todo |-> w.todo, failed |-> w.failed, error |-> w.error]
    /\ w.by \in Nat /\ w.selected \in Seq(TaskSet) /\ w.todo \subseteq DOMAIN w.selected
    /\ w.error \in {"none", "listed", "other"} /\ (w.failed # 0 => w.error # "none")

CallInv ==
    /\ calls \in 0..MaxCalls
    /\ call = [kind |-> call.kind, ids |-> call.ids, selected |-> call.selected, pc |-> call.pc]
    /\ child = [docs |-> child.docs, wrote |-> child.wrote, ok |-> child.ok]
    /\ ByManifest => call.ids \in Manifests
    /\ call.pc # "idle" => answer = "none"
    /\ (ByManifest /\ call.pc # "idle" /\ call.kind # "lmeval") => call.selected = call.ids
    /\ call.pc \in {"codegen", "evaluate"} => call.kind = "evalplus"
    /\ call.pc \in {"search", "verify"} => call.kind = "lmeval"
    /\ call.pc \in {"structured", "plain"} => call.kind = "custom"

SamplesInv ==
    /\ samples \in Seq(Sample)
    /\ IsGeneration(gen) /\ \A w \in strays : IsGeneration(w)

(* No sample of this call is missing from the file: what is not there is   *)
(* still to be done.  Too many, of other calls, show in the length.        *)
OwnRows(list, n) == {i \in DOMAIN list : list[i].by = n}

EvalPlusInv ==
    /\ call.pc = "codegen" => gen.by = calls /\ (ByManifest => gen.selected = call.ids)
    /\ (call.pc = "codegen" /\ ByManifest /\ gen.error = "none") =>
         Cardinality(OwnRows(samples, calls)) + Cardinality(gen.todo) >= Len(call.ids)
    /\ (call.pc = "evaluate" /\ ByManifest) =>
         Cardinality(OwnRows(samples, calls)) >= Len(call.ids)
    /\ (call.pc = "check" /\ call.kind = "evalplus" /\ ByManifest /\ score # << >>) =>
         /\ score \in Seq(Sample) /\ Len(score) <= Len(samples)
         /\ \A i \in 1..Len(score) : score[i] = samples[i]
         /\ Cardinality(OwnRows(score, calls)) >= Len(call.ids)

(* What lies in the directory of a call for a manifest is of that call.    *)
ResultFiles == [metric : BOOLEAN, rows : Seq(Sample)]
Mine == Made(call.selected, calls)

LmEvalInv ==
    /\ DOMAIN results = 0..MaxCalls /\ DOMAIN logs = 0..MaxCalls
    /\ \A d \in 0..MaxCalls : results[d] \in Seq(ResultFiles)
    /\ \A d \in 0..MaxCalls : d > calls => results[d] = << >> /\ logs[d] = {}
    /\ (call.kind = "lmeval" /\ call.pc # "idle") =>
         /\ call.selected \in Seq(TaskSet)
         /\ ByManifest =>
             /\ \A i \in DOMAIN results[calls] : results[calls][i].rows = Mine
             /\ logs[calls] \subseteq {Mine}
             /\ call.pc = "verify" => score \in {<< >>, Mine}

AgenticInv ==
    (call.pc = "check" /\ call.kind = "agentic") =>
        child.docs \in Seq(ToSet(call.selected)) /\ score = Made(child.docs, calls)

RInv ==
    /\ CallInv /\ SamplesInv /\ EvalPlusInv /\ LmEvalInv /\ AgenticInv
    /\ ManifestScoresAreOwn

-----------------------------------------------------------------------------
(* A bounded set of numbers has a greatest one: the set from there to the  *)
(* bound is the smallest of those sets.                                    *)
LEMMA GreatestNumber ==
  ASSUME NEW m \in Nat, NEW T \in SUBSET (1..m), T # {}
  PROVE \E x \in T : \A y \in T : y <= x
<1> DEFINE Above == {k..m : k \in T}
<1>1. Above # {} /\ Above \subseteq FiniteSubsetsOf(Nat)
  <2>1. \A k \in T : IsFiniteSet(k..m) /\ k..m \in SUBSET Nat
    BY FS_Interval
  <2> QED BY <2>1 DEF FiniteSubsetsOf
<1>2. PICK B \in Above : \A C \in Above : ~(<<C, B>> \in StrictSubsetOrdering(Nat))
  BY <1>1, WFMin, FS_StrictSubsetOrderingWellFounded
<1>3. PICK x \in T : B = x..m
  OBVIOUS
<1>4. ASSUME NEW y \in T, y > x PROVE FALSE
  <2>1. y..m \in Above
    OBVIOUS
  <2>2. y..m \subseteq x..m /\ y..m # x..m
    BY <1>4
  <2>3. y..m \in SUBSET Nat /\ x..m \in SUBSET Nat
    OBVIOUS
  <2>4. <<y..m, B>> \in StrictSubsetOrdering(Nat)
    BY <2>2, <2>3, <1>3 DEF StrictSubsetOrdering
  <2> QED BY <2>1, <2>4, <1>2
<1> QED BY <1>4

LEMMA UpTo ==
  ASSUME NEW n \in Nat, NEW T \in SUBSET (1..n)
  PROVE /\ IsFiniteSet(1..n) /\ Cardinality(1..n) = n
        /\ IsFiniteSet(T) /\ Cardinality(T) \in Nat /\ Cardinality(T) <= n
        /\ Cardinality(T) = n => T = 1..n
<1>1. IsFiniteSet(1..n)
  BY FS_Interval
<1>2. Cardinality(1..n) = n
  BY FS_Interval
<1> QED BY <1>1, <1>2, FS_Subset, FS_CardinalityType

LEMMA MadeProperties ==
  ASSUME NEW S, NEW s \in Seq(S), NEW n \in Nat
  PROVE /\ Made(s, n) \in Seq([task : S, by : Nat]) /\ Len(Made(s, n)) = Len(s)
        /\ DOMAIN Made(s, n) = DOMAIN s
        /\ \A i \in DOMAIN s : Made(s, n)[i].by = n
        /\ Ids(Made(s, n)) = s
<1>1. Len(s) \in Nat /\ DOMAIN s = 1..Len(s) /\ s \in [1..Len(s) -> S]
  BY LenProperties
<1>2. Made(s, n) = [i \in 1..Len(s) |-> [task |-> s[i], by |-> n]]
  BY <1>1 DEF Made
<1>3. Made(s, n) \in Seq([task : S, by : Nat]) /\ Len(Made(s, n)) = Len(s)
  BY <1>1, <1>2
<1>4. Ids(Made(s, n)) = s
  BY <1>1, <1>2 DEF Ids
<1> QED BY <1>1, <1>2, <1>3, <1>4

(* What the property says of a score.                                      *)
IsOwn(list, s, n) ==
    /\ \A i \in DOMAIN list : list[i].by = n
    /\ Len(list) = Len(s) /\ ToSet(Ids(list)) = ToSet(s)

LEMMA IdsOfMade ==
  ASSUME NEW S, NEW s \in Seq(S), NEW n \in Nat
  PROVE Ids(Made(s, n)) = s
<1> QED BY MadeProperties

LEMMA MadeIsOwn ==
  ASSUME NEW S, NEW s \in Seq(S), NEW n \in Nat
  PROVE IsOwn(Made(s, n), s, n)
<1> DEFINE made == Made(s, n)
<1>1. /\ Len(made) = Len(s) /\ DOMAIN made = DOMAIN s /\ Ids(made) = s
      /\ \A i \in DOMAIN s : made[i].by = n
  BY MadeProperties
<1> HIDE DEF made
<1>2. IsOwn(made, s, n)
  BY <1>1 DEF IsOwn
<1> QED BY <1>2 DEF made

(* One more sample, of this call or of another.                            *)
LEMMA OneMoreSample ==
  ASSUME NEW S, NEW list \in Seq(S), NEW x \in S, NEW n
  PROVE LET more == list \o <<x>> IN
        /\ more \in Seq(S) /\ Len(more) = Len(list) + 1
        /\ \A i \in 1..Len(list) : more[i] = list[i]
        /\ IsFiniteSet(OwnRows(more, n))
        /\ Cardinality(OwnRows(more, n)) = Cardinality(OwnRows(list, n)) + IF x.by = n THEN 1 ELSE 0
<1> DEFINE more == list \o <<x>>
           len == Len(list)
           own == OwnRows(list, n)
<1>1. len \in Nat /\ DOMAIN list = 1..len
  OBVIOUS
<1>2. /\ more \in Seq(S) /\ Len(more) = len + 1
      /\ \A i \in 1..len : more[i] = list[i]
      /\ more[len + 1] = x /\ DOMAIN more = 1..(len + 1)
  OBVIOUS
<1>3. own \subseteq 1..len /\ IsFiniteSet(own) /\ Cardinality(own) \in Nat
  <2>1. own \in SUBSET (1..len)
    BY <1>1 DEF OwnRows
  <2> HIDE DEF own, len
  <2> QED BY <1>1, <2>1, UpTo
<1> HIDE DEF more, len
<1>4. CASE x.by = n
  <2>1. OwnRows(more, n) = own \cup {len + 1}
    BY <1>1, <1>2, <1>4 DEF OwnRows
  <2>2. len + 1 \notin own
    BY <1>1, <1>3
  <2> HIDE DEF own
  <2>3. IsFiniteSet(own \cup {len + 1}) /\ Cardinality(own \cup {len + 1}) = Cardinality(own) + 1
    BY <1>3, <2>2, FS_AddElement
  <2> QED BY <1>2, <1>4, <2>1, <2>3 DEF more, own, len
<1>5. CASE x.by # n
  <2>1. OwnRows(more, n) = own
    BY <1>1, <1>2, <1>5 DEF OwnRows
  <2> HIDE DEF own
  <2> QED BY <1>2, <1>3, <1>5, <2>1 DEF more, own, len
<1> QED BY <1>4, <1>5

LEMMA OwnRowsFinite ==
  ASSUME NEW S, NEW list \in Seq(S), NEW n
  PROVE /\ OwnRows(list, n) \in SUBSET (1..Len(list)) /\ IsFiniteSet(OwnRows(list, n))
        /\ Cardinality(OwnRows(list, n)) \in Nat /\ Cardinality(OwnRows(list, n)) <= Len(list)
<1>1. OwnRows(list, n) \in SUBSET (1..Len(list)) /\ Len(list) \in Nat
  BY DEF OwnRows
<1> QED BY <1>1, UpTo

(* As many samples of this call as there are rows: all rows are its own.   *)
LEMMA AllRowsAreOwn ==
  ASSUME NEW S, NEW list \in Seq(S), NEW n, Cardinality(OwnRows(list, n)) >= Len(list)
  PROVE \A i \in DOMAIN list : list[i].by = n
<1>1. OwnRows(list, n) \in SUBSET (1..Len(list)) /\ Len(list) \in Nat /\ DOMAIN list = 1..Len(list)
  BY DEF OwnRows
<1>2. Cardinality(OwnRows(list, n)) = Len(list)
  BY <1>1, OwnRowsFinite
<1>3. OwnRows(list, n) = 1..Len(list)
  BY <1>1, <1>2, UpTo
<1> QED BY <1>1, <1>3 DEF OwnRows

-----------------------------------------------------------------------------
(* One step of a code generation.                                          *)

LEMMA GenerationFinite ==
  ASSUME NEW w, IsGeneration(w)
  PROVE /\ IsFiniteSet(w.todo) /\ Cardinality(w.todo) \in Nat
        /\ \A i \in w.todo : /\ w.selected[i] \in TaskSet
                             /\ Cardinality(w.todo \ {i}) = Cardinality(w.todo) - 1
<1>1. w.selected \in Seq(TaskSet) /\ w.todo \in SUBSET (1..Len(w.selected)) /\ Len(w.selected) \in Nat
  BY DEF IsGeneration
<1>2. IsFiniteSet(w.todo) /\ Cardinality(w.todo) \in Nat
  BY <1>1, UpTo
<1>3. ASSUME NEW i \in w.todo PROVE Cardinality(w.todo \ {i}) = Cardinality(w.todo) - 1
  BY <1>2, FS_RemoveElement
<1>4. ASSUME NEW i \in w.todo PROVE w.selected[i] \in TaskSet
  BY <1>1
<1> QED BY <1>2, <1>3, <1>4

(* What is written, and what is left.                                      *)
Written(w, step) ==
    \E i \in w.todo, x \in Sample :
        /\ x.by = w.by /\ step.new = <<x>>
        /\ step.after.todo = w.todo \ {i} /\ step.after.error = w.error

LEMMA StepOfGeneration ==
  ASSUME NEW w, IsGeneration(w), NEW step \in Steps(w)
  PROVE /\ IsGeneration(step.after) /\ step.after.by = w.by /\ step.after.selected = w.selected
        /\ Written(w, step) \/ (step.new = << >> /\ step.after.error # "none")
<1>1. CASE \E i \in Turn(w) :
             step = [after |-> [w EXCEPT !.todo = @ \ {i}], new |-> <<[task |-> w.selected[i], by |-> w.by]>>]
  <2>1. PICK i \in w.todo :
          step = [after |-> [w EXCEPT !.todo = @ \ {i}], new |-> <<[task |-> w.selected[i], by |-> w.by]>>]
    BY <1>1 DEF Turn
  <2>2. step.after = [by |-> w.by, selected |-> w.selected, parallel |-> w.parallel,
                      todo |-> w.todo \ {i}, failed |-> w.failed, error |-> w.error]
    BY <2>1 DEF IsGeneration
  <2>3. [task |-> w.selected[i], by |-> w.by] \in Sample
    BY GenerationFinite DEF IsGeneration, Sample
  <2>4. IsGeneration(step.after)
    BY <2>2 DEF IsGeneration
  <2>5. Written(w, step)
    BY <2>1, <2>2, <2>3 DEF Written
  <2> QED BY <2>2, <2>4, <2>5
<1>2. CASE \E i \in Turn(w), error \in {"listed", "other"} :
             step = [after |-> Failed(w, i, error), new |-> << >>]
  <2>1. PICK i \in w.todo, error \in {"listed", "other"} :
          step = [after |-> Failed(w, i, error), new |-> << >>]
    BY <1>2 DEF Turn
  <2> DEFINE after(todo, failed, e) == [by |-> w.by, selected |-> w.selected, parallel |-> w.parallel,
                                     todo |-> todo, failed |-> failed, error |-> e]
  <2>2. \/ step.after = after({}, i, error)
        \/ step.after = after(w.todo \ {i}, i, error)
        \/ step.after = after(w.todo \ {i}, w.failed, w.error) /\ w.failed # 0
    <3> DEFINE todo(t) == [w EXCEPT !.todo = t]
               failed(t) == [todo(t) EXCEPT !.failed = i]
               both(t) == [failed(t) EXCEPT !.error = error]
    <3>1. ASSUME NEW t PROVE todo(t) = after(t, w.failed, w.error)
      BY DEF IsGeneration
    <3> HIDE DEF todo
    <3>2. ASSUME NEW t PROVE failed(t) = after(t, i, w.error)
      BY <3>1
    <3> HIDE DEF failed
    <3>3. ASSUME NEW t PROVE both(t) = after(t, i, error)
      BY <3>2
    <3>4. ASSUME NEW t PROVE [w EXCEPT !.todo = t, !.failed = i, !.error = error] = after(t, i, error)
      BY <3>3 DEF todo, failed
    <3>5. CASE ~w.parallel
      BY <2>1, <3>4, <3>5 DEF Failed
    <3>6. CASE w.parallel /\ (w.failed = 0 \/ i < w.failed)
      BY <2>1, <3>4, <3>6 DEF Failed
    <3>7. CASE w.parallel /\ ~(w.failed = 0 \/ i < w.failed)
      BY <2>1, <3>1, <3>7 DEF Failed, todo
    <3> QED BY <3>5, <3>6, <3>7
  <2>3. IsGeneration(step.after) /\ step.after.error # "none"
    BY <2>2 DEF IsGeneration
  <2> QED BY <2>1, <2>2, <2>3
<1> QED BY <1>1, <1>2 DEF Steps

(* The file only grows, and with it the samples of each call.              *)
Grown(list, more) ==
    /\ more \in Seq(Sample) /\ Len(list) <= Len(more)
    /\ \A i \in 1..Len(list) : more[i] = list[i]
    /\ \A n \in Nat : Cardinality(OwnRows(more, n)) >= Cardinality(OwnRows(list, n))

LEMMA FileGrows ==
  ASSUME NEW w, IsGeneration(w), NEW step \in Steps(w), NEW list \in Seq(Sample)
  PROVE /\ Grown(list, list \o step.new)
        /\ Written(w, step) =>
             Cardinality(OwnRows(list \o step.new, w.by)) = Cardinality(OwnRows(list, w.by)) + 1
<1>1. CASE Written(w, step)
  <2>1. PICK x \in Sample : x.by = w.by /\ step.new = <<x>>
    BY <1>1 DEF Written
  <2> DEFINE more == list \o <<x>>
  <2>2. /\ more \in Seq(Sample) /\ Len(more) = Len(list) + 1
        /\ \A i \in 1..Len(list) : more[i] = list[i]
    BY OneMoreSample
  <2>3. ASSUME NEW n \in Nat
        PROVE /\ Cardinality(OwnRows(more, n)) = Cardinality(OwnRows(list, n)) + IF x.by = n THEN 1 ELSE 0
              /\ Cardinality(OwnRows(list, n)) \in Nat
    BY OneMoreSample, OwnRowsFinite
  <2>4. w.by \in Nat /\ Len(list) \in Nat
    BY DEF IsGeneration
  <2> HIDE DEF more
  <2>5. Grown(list, more)
    <3>1. ASSUME NEW n \in Nat PROVE Cardinality(OwnRows(more, n)) >= Cardinality(OwnRows(list, n))
      <4>1. CASE x.by = n
        BY <2>3, <4>1
      <4>2. CASE x.by # n
        BY <2>3, <4>2
      <4> QED BY <4>1, <4>2
    <3> QED BY <2>2, <2>4, <3>1 DEF Grown
  <2>6. Cardinality(OwnRows(more, w.by)) = Cardinality(OwnRows(list, w.by)) + 1
    BY <2>1, <2>3, <2>4
  <2> QED BY <2>1, <2>5, <2>6 DEF more
<1>2. CASE ~Written(w, step)
  <2>1. list \o step.new = list
    BY <1>2, StepOfGeneration, ConcatEmptySeq
  <2>2. \A n \in Nat : Cardinality(OwnRows(list, n)) \in Nat
    BY OwnRowsFinite
  <2> QED BY <1>2, <2>1, <2>2 DEF Grown
<1> QED BY <1>1, <1>2

-----------------------------------------------------------------------------
(* The invariant, step by step.                                            *)

LEMMA SelectionType ==
  ASSUME NEW ids \in Manifests \cup {Free}, NEW selected \in Selection(ids)
  PROVE /\ ids # Free => selected = ids /\ selected \in Seq(ToSet(ids))
        /\ ids = Free \/ Selectable(ids) => selected \in Seq(TaskSet)
<1>1. CASE ids = Free
  <2>1. selected \in [1..SampleSize -> TaskSet] /\ SampleSize \in Nat
    BY <1>1, SampleAssumption DEF Selection, Drawn, SampleAssumption
  <2> QED BY <1>1, <2>1
<1>2. CASE ids # Free
  <2>1. selected = ids
    BY <1>2 DEF Selection
  <2>2. ids \in Seq(ToSet(ids))
    BY <1>2, SequencesAssumption DEF SequencesAssumption, ToSet
  <2>3. Selectable(ids) => ids \in Seq(TaskSet)
    BY <2>2, SeqMonotonic DEF Selectable
  <2> QED BY <1>2, <2>1, <2>2, <2>3
<1> QED BY <1>1, <1>2

LEMMA TasksType == Tasks \in Seq(TaskSet) /\ Len(Tasks) \in Nat /\ DOMAIN Tasks = 1..Len(Tasks)
<1>1. Tasks \in Seq(TaskSet)
  BY SequencesAssumption DEF SequencesAssumption, TaskSet
<1> QED BY <1>1

(* What may change beside the files of LM-Eval.                            *)
LEMMA SameDirectories ==
  ASSUME LmEvalInv, calls \in Nat, UNCHANGED <<results, logs>>,
         calls' \in Nat, calls' >= calls,
         \/ call'.kind # "lmeval" \/ call'.pc = "idle"
         \/ call'.selected \in Seq(TaskSet) /\ calls' = calls + 1 /\ calls' <= MaxCalls /\ call'.pc # "verify"
  PROVE LmEvalInv'
<1>1. \A d \in 0..MaxCalls : d > calls' => results'[d] = << >> /\ logs'[d] = {}
  BY SampleAssumption DEF LmEvalInv, SampleAssumption
<1>2. CASE call'.kind # "lmeval" \/ call'.pc = "idle"
  BY <1>1, <1>2 DEF LmEvalInv
<1>3. CASE call'.selected \in Seq(TaskSet) /\ calls' = calls + 1 /\ calls' <= MaxCalls /\ call'.pc # "verify"
  <2>1. calls' \in 0..MaxCalls /\ calls' > calls
    BY <1>3
  <2>2. results'[calls'] = << >> /\ logs'[calls'] = {}
    BY <2>1 DEF LmEvalInv
  <2> QED BY <1>1, <1>3, <2>2 DEF LmEvalInv
<1> QED BY <1>2, <1>3

LEMMA InitRInv == RInit => RInv
<1> SUFFICES ASSUME RInit PROVE RInv
  OBVIOUS
<1> USE DEF RInit
<1>1. CallInv
  BY SampleAssumption DEF CallInv, NoCall, NoChild, ByManifest, SampleAssumption
<1>2. SamplesInv
  BY EmptySeq DEF SamplesInv, IsGeneration, NoGen
<1>3. EvalPlusInv
  BY DEF EvalPlusInv, NoCall
<1>4. LmEvalInv
  <2>1. calls \in Nat /\ call.pc = "idle"
    BY DEF NoCall
  <2>2. << >> \in Seq(ResultFiles)
    BY EmptySeq
  <2>3. DOMAIN results = 0..MaxCalls /\ DOMAIN logs = 0..MaxCalls
    OBVIOUS
  <2>4. \A d \in 0..MaxCalls : results[d] = << >> /\ logs[d] = {}
    OBVIOUS
  <2>5. \A d \in 0..MaxCalls : results[d] \in Seq(ResultFiles)
    BY <2>2, <2>4
  <2> QED BY ONLY <2>1, <2>3, <2>4, <2>5 DEF LmEvalInv
<1>5. AgenticInv
  BY DEF AgenticInv, NoCall
<1>6. ManifestScoresAreOwn
  BY DEF ManifestScoresAreOwn
<1> QED BY <1>1, <1>2, <1>3, <1>4, <1>5, <1>6 DEF RInv

(* A call ends without a result, or with a score that is its own.          *)
LEMMA EndsKeepsRInv ==
  ASSUME RInv, call.pc # "idle", NEW a, Ends(a),
         calls' = calls, UNCHANGED files,
         IsGeneration(gen'), \A w \in strays' : IsGeneration(w),
         child' = [docs |-> child'.docs, wrote |-> child'.wrote, ok |-> child'.ok],
         ManifestScoresAreOwn'
  PROVE RInv'
<1> USE DEF RInv
<1>1. call' = [kind |-> call.kind, ids |-> call.ids, selected |-> call.selected, pc |-> "idle"]
  BY DEF Ends, Goto, CallInv
<1>2. CallInv'
  BY <1>1 DEF CallInv, ByManifest
<1>3. SamplesInv'
  BY DEF SamplesInv, files
<1>4. EvalPlusInv' /\ AgenticInv'
  BY <1>1 DEF EvalPlusInv, AgenticInv
<1>5. calls \in Nat
  BY SampleAssumption DEF CallInv, SampleAssumption
<1>6. LmEvalInv'
  BY <1>1, <1>5, SameDirectories DEF files
<1> QED BY <1>2, <1>3, <1>4, <1>6

(* A call begins.                                                          *)
LEMMA BeginKeepsRInv ==
  ASSUME RInv, NEW kind \in Kinds, NEW ids \in Manifests \cup {Free}, NEW selected,
         NEW pc \in {"idle", "codegen", "child", "search", "structured", "plain"},
         Begin(kind, ids, selected, pc),
         pc = "codegen" => kind = "evalplus",
         pc = "search" => kind = "lmeval",
         pc \in {"structured", "plain"} => kind = "custom",
         kind = "lmeval" => selected \in Seq(TaskSet),
         (ids # Free /\ pc # "idle" /\ kind # "lmeval") => selected = ids,
         answer' = "none" \/ (pc = "idle" /\ answer' = "raised"),
         UNCHANGED <<strays, results, logs>>, samples' \in Seq(Sample), IsGeneration(gen'),
         pc = "codegen" =>
             /\ gen'.by = calls + 1 /\ gen'.selected = selected
             /\ ids # Free => Cardinality(gen'.todo) >= Len(ids)
  PROVE RInv'
<1> USE DEF RInv
<1>1. /\ calls' = calls + 1 /\ calls \in Nat /\ calls' \in 0..MaxCalls /\ calls' <= MaxCalls
      /\ call' = [kind |-> kind, ids |-> ids, selected |-> selected, pc |-> pc]
      /\ score' = << >> /\ child' = NoChild
  BY SampleAssumption DEF Begin, CallInv, SampleAssumption
<1>2. CallInv'
  BY <1>1 DEF CallInv, ByManifest, NoChild
<1>3. SamplesInv'
  BY DEF SamplesInv
<1>4. EvalPlusInv'
  <2>1. Cardinality(OwnRows(samples', calls')) \in Nat
    BY OwnRowsFinite
  <2>2. IsFiniteSet(gen'.todo) /\ Cardinality(gen'.todo) \in Nat
    BY GenerationFinite
  <2>3. ids # Free => Len(ids) \in Nat
    BY SequencesAssumption DEF SequencesAssumption
  <2> QED BY <1>1, <2>1, <2>2, <2>3 DEF EvalPlusInv, ByManifest
<1>5. LmEvalInv'
  BY <1>1, SameDirectories
<1>6. AgenticInv'
  BY <1>1 DEF AgenticInv
<1>7. ManifestScoresAreOwn'
  BY <1>1 DEF ManifestScoresAreOwn
<1> QED BY <1>2, <1>3, <1>4, <1>5, <1>6, <1>7

LEMMA RefusedKeepsRInv ==
  ASSUME RInv, NEW kind \in Kinds, NEW ids \in Manifests \cup {Free}, Refused(kind, ids)
  PROVE RInv'
<1>1. /\ Begin(kind, ids, << >>, "idle") /\ kind # "lmeval"
      /\ answer' = "raised" /\ UNCHANGED <<strays, results, logs, samples, gen>>
  BY DEF Refused, files
<1>2. samples' \in Seq(Sample) /\ IsGeneration(gen')
  BY <1>1 DEF RInv, SamplesInv
<1> QED BY <1>1, <1>2, BeginKeepsRInv

LEMMA BeginEvalPlusKeepsRInv ==
  ASSUME RInv, NEW ids \in Manifests \cup {Free}, NEW parallel \in BOOLEAN,
         NEW removed \in BOOLEAN, BeginEvalPlus(ids, parallel, removed)
  PROVE RInv'
<1>1. PICK selected \in Selection(ids) :
        /\ Begin("evalplus", ids, selected, "codegen")
        /\ gen' = [by |-> calls + 1, selected |-> selected, parallel |-> parallel,
                   todo |-> DOMAIN selected, failed |-> 0, error |-> "none"]
  BY DEF BeginEvalPlus
<1>2. selected \in Seq(TaskSet) /\ (ids # Free => selected = ids)
  BY SelectionType DEF BeginEvalPlus
<1>3. IsGeneration(gen')
  BY <1>1, <1>2 DEF IsGeneration, RInv, CallInv
<1>4. samples' \in Seq(Sample)
  BY EmptySeq DEF BeginEvalPlus, RInv, SamplesInv
<1>5. DOMAIN selected = 1..Len(selected) /\ Len(selected) \in Nat
  BY <1>2
<1>6. Cardinality(DOMAIN selected) = Len(selected)
  BY <1>5, UpTo
<1>7. /\ gen'.by = calls + 1 /\ gen'.selected = selected
      /\ ids # Free => Cardinality(gen'.todo) >= Len(ids)
  BY <1>1, <1>2, <1>5, <1>6
<1>8. answer' = "none" /\ UNCHANGED <<strays, results, logs>> /\ "evalplus" \in Kinds
  BY DEF BeginEvalPlus, Kinds
<1> QED BY <1>1, <1>2, <1>3, <1>4, <1>7, <1>8, BeginKeepsRInv

LEMMA BeginOthersKeepRInv ==
  ASSUME RInv, NEW ids \in Manifests \cup {Free},
         \/ \E limit \in DOMAIN Tasks, started \in BOOLEAN : BeginLmEval(ids, limit, started)
         \/ BeginAgentic(ids)
         \/ \E structured \in BOOLEAN : BeginCustom(ids, structured)
  PROVE RInv'
<1>1. /\ "lmeval" \in Kinds /\ "agentic" \in Kinds /\ "custom" \in Kinds
  BY DEF Kinds
<1>2. UNCHANGED <<gen, strays, results, logs, samples>> /\ answer' = "none"
  BY DEF BeginLmEval, BeginAgentic, BeginCustom, files
<1>3. samples' \in Seq(Sample) /\ IsGeneration(gen')
  BY <1>2 DEF RInv, SamplesInv
<1>4. CASE \E limit \in DOMAIN Tasks, started \in BOOLEAN : BeginLmEval(ids, limit, started)
  <2>1. PICK limit \in DOMAIN Tasks, started \in BOOLEAN : BeginLmEval(ids, limit, started)
    BY <1>4
  <2>2. SubSeq(Tasks, 1, limit) \in Seq(TaskSet) /\ << >> \in Seq(TaskSet)
    BY TasksType
  <2>3. \E selected \in Seq(TaskSet), pc \in {"child", "search"} : Begin("lmeval", ids, selected, pc)
    BY <2>1, <2>2 DEF BeginLmEval
  <2> QED BY <1>1, <1>2, <1>3, <2>3, BeginKeepsRInv
<1>5. CASE BeginAgentic(ids)
  <2>1. \E selected \in Selection(ids) : Begin("agentic", ids, selected, "child")
    BY <1>5 DEF BeginAgentic
  <2> QED BY <1>1, <1>2, <1>3, <2>1, SelectionType, BeginKeepsRInv
<1>6. CASE \E structured \in BOOLEAN : BeginCustom(ids, structured)
  <2>1. \E selected \in Selection(ids), pc \in {"structured", "plain"} : Begin("custom", ids, selected, pc)
    BY <1>6 DEF BeginCustom
  <2> QED BY <1>1, <1>2, <1>3, <2>1, SelectionType, BeginKeepsRInv
<1> QED BY <1>4, <1>5, <1>6

(* A call goes on; it is not one of LM-Eval.                               *)
LEMMA GoesOnKeepsRInv ==
  ASSUME RInv, call.pc # "idle", call.kind # "lmeval", answer = "none",
         NEW pc \in {"codegen", "evaluate", "check", "plain"}, Goto(pc),
         pc \in {"codegen", "evaluate"} => call.kind = "evalplus",
         pc = "plain" => call.kind = "custom",
         UNCHANGED <<calls, results, logs, answer>>,
         SamplesInv', EvalPlusInv', AgenticInv',
         child' = [docs |-> child'.docs, wrote |-> child'.wrote, ok |-> child'.ok]
  PROVE RInv'
<1> USE DEF RInv
<1>1. call' = [kind |-> call.kind, ids |-> call.ids, selected |-> call.selected, pc |-> pc]
  BY DEF Goto, CallInv
<1>2. CallInv'
  BY <1>1 DEF CallInv, ByManifest
<1>3. calls \in Nat
  BY SampleAssumption DEF CallInv, SampleAssumption
<1>4. LmEvalInv'
  BY <1>1, <1>3, SameDirectories
<1>5. ManifestScoresAreOwn'
  BY DEF ManifestScoresAreOwn
<1> QED BY <1>2, <1>4, <1>5

LEMMA GenerateKeepsRInv ==
  ASSUME RInv, Generate
  PROVE RInv'
<1> USE DEF RInv
<1>1. PICK step \in Steps(gen) : gen' = step.after /\ samples' = samples \o step.new
  BY DEF Generate
<1>2. /\ call.pc = "codegen" /\ call.kind = "evalplus" /\ answer = "none"
      /\ gen.by = calls /\ IsGeneration(gen) /\ samples \in Seq(Sample) /\ calls \in Nat
  BY SampleAssumption DEF Generate, CallInv, EvalPlusInv, SamplesInv, SampleAssumption
<1>3. /\ IsGeneration(gen') /\ gen'.by = gen.by /\ gen'.selected = gen.selected
      /\ Written(gen, step) \/ gen'.error # "none"
  BY <1>1, <1>2, StepOfGeneration
<1>4. samples' \in Seq(Sample)
  BY <1>1, <1>2, FileGrows DEF Grown
<1>5. UNCHANGED <<calls, call, strays, results, logs, child, score, answer>>
  BY DEF Generate
<1>6. SamplesInv'
  BY <1>3, <1>4, <1>5 DEF SamplesInv
<1>7. EvalPlusInv'
  <2>1. ASSUME ByManifest, gen'.error = "none"
        PROVE Cardinality(OwnRows(samples', calls)) + Cardinality(gen'.todo) >= Len(call.ids)
    <3>1. Written(gen, step)
      BY <1>3, <2>1
    <3>2. Cardinality(OwnRows(samples', calls)) = Cardinality(OwnRows(samples, calls)) + 1
      BY <1>1, <1>2, <3>1, FileGrows
    <3>3. gen.error = "none" /\ \E i \in gen.todo : gen'.todo = gen.todo \ {i}
      BY <1>1, <2>1, <3>1 DEF Written
    <3>4. Cardinality(gen'.todo) = Cardinality(gen.todo) - 1 /\ Cardinality(gen.todo) \in Nat
      BY <1>2, <3>3, GenerationFinite
    <3>5. Cardinality(OwnRows(samples, calls)) + Cardinality(gen.todo) >= Len(call.ids)
      BY <1>2, <2>1, <3>3 DEF EvalPlusInv
    <3>6. Cardinality(OwnRows(samples, calls)) \in Nat
      BY <1>2, OwnRowsFinite
    <3>7. Len(call.ids) \in Nat
      BY <2>1, SequencesAssumption DEF SequencesAssumption, CallInv
    <3> QED BY <3>2, <3>4, <3>5, <3>6, <3>7
  <2>2. call'.pc = "codegen" /\ (ByManifest' <=> ByManifest)
    BY <1>2, <1>5 DEF ByManifest
  <2> QED BY <1>2, <1>3, <1>5, <2>1, <2>2 DEF EvalPlusInv
<1>8. AgenticInv'
  BY <1>2, <1>5 DEF AgenticInv
<1>9. CallInv'
  BY <1>5 DEF CallInv, ByManifest
<1>10. LmEvalInv'
  BY <1>2, <1>5, SameDirectories
<1>11. ManifestScoresAreOwn'
  BY <1>2, <1>5 DEF ManifestScoresAreOwn
<1> QED BY <1>6, <1>7, <1>8, <1>9, <1>10, <1>11

LEMMA GiveUpKeepsRInv ==
  ASSUME RInv, GiveUp
  PROVE RInv'
<1>1. call.pc # "idle" /\ Ends("nothing") /\ calls' = calls /\ UNCHANGED files /\ child' = child
  BY DEF GiveUp
<1>2. IsGeneration(gen') /\ \A w \in strays' : IsGeneration(w)
  BY EmptySeq DEF GiveUp, RInv, SamplesInv, NoGen, IsGeneration
<1>3. ManifestScoresAreOwn'
  BY <1>1 DEF ManifestScoresAreOwn, Ends
<1> QED BY <1>1, <1>2, <1>3, EndsKeepsRInv DEF RInv, CallInv

LEMMA StrayGeneratesKeepsRInv ==
  ASSUME RInv, StrayGenerates
  PROVE RInv'
<1> USE DEF RInv
<1>1. PICK w \in strays : \E step \in Steps(w) :
         /\ samples' = samples \o step.new
         /\ strays' = (strays \ {w}) \cup (IF step.after.todo = {} THEN {} ELSE {step.after})
  BY DEF StrayGenerates
<1>2. PICK step \in Steps(w) :
         /\ samples' = samples \o step.new
         /\ strays' = (strays \ {w}) \cup (IF step.after.todo = {} THEN {} ELSE {step.after})
  BY <1>1
<1>3. UNCHANGED <<calls, call, gen, results, logs, child, score, answer>>
  BY DEF StrayGenerates
<1>4. IsGeneration(w) /\ samples \in Seq(Sample)
  BY DEF SamplesInv
<1>5. Grown(samples, samples') /\ IsGeneration(step.after)
  BY <1>2, <1>4, StepOfGeneration, FileGrows
<1>6. SamplesInv'
  BY <1>2, <1>3, <1>5 DEF SamplesInv, Grown
<1>7. EvalPlusInv'
  <2>1. calls \in Nat
    BY SampleAssumption DEF CallInv, SampleAssumption
  <2>2. Cardinality(OwnRows(samples', calls)) >= Cardinality(OwnRows(samples, calls))
    BY <1>5, <2>1 DEF Grown
  <2>3. /\ Cardinality(OwnRows(samples', calls)) \in Nat /\ Cardinality(OwnRows(samples, calls)) \in Nat
        /\ Cardinality(gen.todo) \in Nat /\ Len(samples) \in Nat /\ Len(samples') \in Nat
    <3>1. samples' \in Seq(Sample) /\ IsGeneration(gen)
      BY <1>5 DEF Grown, SamplesInv
    <3>2. Cardinality(OwnRows(samples', calls)) \in Nat /\ Cardinality(OwnRows(samples, calls)) \in Nat
      BY <1>4, <3>1, OwnRowsFinite
    <3> QED BY <1>4, <3>1, <3>2, GenerationFinite
  <2>4. ByManifest => Len(call.ids) \in Nat
    BY SequencesAssumption DEF SequencesAssumption, CallInv
  <2>5. ASSUME call.pc = "codegen", ByManifest, gen.error = "none"
        PROVE Cardinality(OwnRows(samples', calls)) + Cardinality(gen.todo) >= Len(call.ids)
    BY <2>2, <2>3, <2>4, <2>5 DEF EvalPlusInv
  <2>6. ASSUME call.pc = "evaluate", ByManifest
        PROVE Cardinality(OwnRows(samples', calls)) >= Len(call.ids)
    BY <2>2, <2>3, <2>4, <2>6 DEF EvalPlusInv
  <2>7. ASSUME call.pc = "check", call.kind = "evalplus", ByManifest, score # << >>
        PROVE /\ score \in Seq(Sample) /\ Len(score) <= Len(samples')
              /\ \A i \in 1..Len(score) : score[i] = samples'[i]
              /\ Cardinality(OwnRows(score, calls)) >= Len(call.ids)
    <3>1. /\ score \in Seq(Sample) /\ Len(score) <= Len(samples)
          /\ \A i \in 1..Len(score) : score[i] = samples[i]
          /\ Cardinality(OwnRows(score, calls)) >= Len(call.ids)
      BY <2>7 DEF EvalPlusInv
    <3>2. Len(score) \in Nat /\ 1..Len(score) \subseteq 1..Len(samples)
      BY <2>3, <3>1
    <3> QED BY <1>5, <2>3, <3>1, <3>2 DEF Grown
  <2> QED BY <1>3, <2>5, <2>6, <2>7 DEF EvalPlusInv, ByManifest
<1>8. AgenticInv'
  BY <1>3 DEF AgenticInv
<1>9. CallInv'
  BY <1>3 DEF CallInv, ByManifest
<1>10. LmEvalInv'
  BY <1>3 DEF LmEvalInv, ByManifest, Mine
<1>11. ManifestScoresAreOwn'
  BY <1>3 DEF ManifestScoresAreOwn, ByManifest
<1> QED BY <1>6, <1>7, <1>8, <1>9, <1>10, <1>11

LEMMA CodegenReturnsKeepsRInv ==
  ASSUME RInv, CodegenReturns
  PROVE RInv'
<1> USE DEF RInv
<1>1. /\ call.pc = "codegen" /\ gen.todo = {} /\ gen' = NoGen
      /\ UNCHANGED <<calls, strays, files, child, score>>
  BY DEF CodegenReturns
<1>2. \/ \E a \in {"nothing", "raised"} : Ends(a)
      \/ gen.error = "none" /\ Goto("evaluate") /\ UNCHANGED <<answer, over>>
  BY DEF CodegenReturns, SamplesInv, IsGeneration
<1>3. IsGeneration(gen') /\ \A w \in strays' : IsGeneration(w)
  BY <1>1, EmptySeq DEF SamplesInv, NoGen, IsGeneration
<1>4. CASE \E a \in {"nothing", "raised"} : Ends(a)
  <2>1. PICK a \in {"nothing", "raised"} : Ends(a)
    BY <1>4
  <2>2. ManifestScoresAreOwn'
    BY <2>1 DEF ManifestScoresAreOwn, Ends
  <2> QED BY <1>1, <1>3, <2>1, <2>2, EndsKeepsRInv DEF CallInv
<1>5. CASE gen.error = "none" /\ Goto("evaluate") /\ UNCHANGED <<answer, over>>
  <2>1. /\ call' = [kind |-> call.kind, ids |-> call.ids, selected |-> call.selected, pc |-> "evaluate"]
        /\ call.kind = "evalplus" /\ answer = "none"
    BY <1>1, <1>5 DEF Goto, CallInv
  <2>2. UNCHANGED <<samples, results, logs>>
    BY <1>1 DEF files
  <2>3. SamplesInv'
    BY <1>3, <2>2 DEF SamplesInv
  <2>4. EvalPlusInv'
    <3>1. Cardinality({}) = 0
      BY FS_EmptySet
    <3>2. Cardinality(OwnRows(samples, calls)) \in Nat
      BY OwnRowsFinite DEF SamplesInv
    <3>3. ByManifest => Cardinality(OwnRows(samples, calls)) >= Len(call.ids)
      BY <1>1, <1>5, <3>1, <3>2 DEF EvalPlusInv
    <3> QED BY <1>1, <2>1, <2>2, <3>3 DEF EvalPlusInv, ByManifest
  <2>5. AgenticInv'
    BY <2>1 DEF AgenticInv
  <2> QED BY <1>1, <1>5, <2>1, <2>2, <2>3, <2>4, <2>5, GoesOnKeepsRInv DEF CallInv
<1> QED BY <1>2, <1>4, <1>5

LEMMA EvaluateKeepsRInv ==
  ASSUME RInv, NEW jobFails \in BOOLEAN, Evaluate(jobFails)
  PROVE RInv'
<1> USE DEF RInv
<1>1. /\ call.pc = "evaluate" /\ call.kind = "evalplus" /\ Goto("check") /\ answer = "none"
      /\ score' \in {samples, << >>}
      /\ UNCHANGED <<calls, gen, strays, samples, results, logs, child, answer>>
  BY DEF Evaluate, Judged, files, CallInv
<1>2. call' = [kind |-> call.kind, ids |-> call.ids, selected |-> call.selected, pc |-> "check"]
  BY <1>1 DEF Goto, CallInv
<1>3. SamplesInv'
  BY <1>1 DEF SamplesInv
<1>4. EvalPlusInv'
  <2>1. Len(samples) \in Nat /\ samples \in Seq(Sample)
    BY DEF SamplesInv
  <2>2. ByManifest => Cardinality(OwnRows(samples, calls)) >= Len(call.ids)
    BY <1>1 DEF EvalPlusInv
  <2> QED BY <1>1, <1>2, <2>1, <2>2 DEF EvalPlusInv, ByManifest
<1>5. AgenticInv'
  BY <1>1, <1>2 DEF AgenticInv
<1> QED BY <1>1, <1>3, <1>4, <1>5, GoesOnKeepsRInv DEF CallInv

(* The samples are counted once more at the end: as many as there are ids, *)
(* and at least as many of this call, so none of another.                  *)
LEMMA CheckSamplesKeepsRInv ==
  ASSUME RInv, CheckSamples
  PROVE RInv'
<1> USE DEF RInv
<1>1. /\ call.pc = "check" /\ call.kind = "evalplus"
      /\ Ends(IF ByManifest /\ ~SamplesConfirm(Ids(samples), call.ids) THEN "raised" ELSE "result")
      /\ UNCHANGED <<calls, gen, strays, files, child, score>>
  BY DEF CheckSamples
<1>2. call'.ids = call.ids
  BY <1>1 DEF Ends, Goto, CallInv
<1>3. ASSUME SamplesConfirm(Ids(samples), call.ids), ByManifest, score # << >>
      PROVE /\ \A n \in DOMAIN score : score[n].by = calls
            /\ Len(score) = Len(call.ids) /\ ToSet(Ids(score)) = ToSet(call.ids)
  <2>1. /\ score \in Seq(Sample) /\ Len(score) <= Len(samples)
        /\ \A i \in 1..Len(score) : score[i] = samples[i]
        /\ Cardinality(OwnRows(score, calls)) >= Len(call.ids)
    BY <1>1, <1>3 DEF EvalPlusInv
  <2>2. samples \in Seq(Sample) /\ Len(samples) \in Nat
    BY DEF SamplesInv
  <2>3. Len(Ids(samples)) = Len(samples)
    BY <2>2 DEF Ids
  <2>4. Len(samples) = Len(call.ids) /\ ToSet(Ids(samples)) = ToSet(call.ids)
    BY <1>3, <2>3 DEF SamplesConfirm
  <2>5. Cardinality(OwnRows(score, calls)) <= Len(score) /\ Cardinality(OwnRows(score, calls)) \in Nat
        /\ Len(score) \in Nat
    BY <2>1, OwnRowsFinite
  <2>6. Len(score) = Len(samples) /\ Cardinality(OwnRows(score, calls)) >= Len(score)
    BY <2>1, <2>2, <2>4, <2>5
  <2>7. score = samples
    BY <2>1, <2>2, <2>6
  <2>8. \A n \in DOMAIN score : score[n].by = calls
    BY <2>1, <2>6, AllRowsAreOwn
  <2> QED BY <2>4, <2>7, <2>8
<1>4. ManifestScoresAreOwn'
  BY <1>1, <1>2, <1>3 DEF ManifestScoresAreOwn, Ends, ByManifest
<1>5. IsGeneration(gen') /\ (\A w \in strays' : IsGeneration(w)) /\ call.pc # "idle"
  BY <1>1 DEF SamplesInv
<1> QED BY <1>1, <1>4, <1>5, EndsKeepsRInv DEF CallInv

LEMMA ExpiresKeepsRInv ==
  ASSUME RInv, EvaluationExpires \/ CustomExpires
  PROVE RInv'
<1> USE DEF RInv
<1>1. call.pc # "idle" /\ Ends("raised") /\ UNCHANGED <<calls, gen, strays, files, child, score>>
  BY DEF EvaluationExpires, CustomExpires
<1>2. ManifestScoresAreOwn'
  BY <1>1 DEF ManifestScoresAreOwn, Ends
<1>3. IsGeneration(gen') /\ \A w \in strays' : IsGeneration(w)
  BY <1>1 DEF SamplesInv
<1> QED BY <1>1, <1>2, <1>3, EndsKeepsRInv DEF CallInv

LEMMA CustomEndsKeepsRInv ==
  ASSUME RInv, NEW marked \in BOOLEAN, NEW channel \in BOOLEAN, NEW ok \in BOOLEAN,
         CustomEnds(marked, channel, ok)
  PROVE RInv'
<1> USE DEF RInv
<1>1. /\ call.pc \in {"structured", "plain"} /\ call.kind = "custom" /\ answer = "none"
      /\ marked => ByManifest /\ Selectable(call.ids)
      /\ UNCHANGED <<calls, gen, strays, files, child>>
  BY DEF CustomEnds, CallInv
<1>2. \/ Goto("plain") /\ UNCHANGED <<score, answer>>
      \/ \E a \in {"nothing", "raised"} : Ends(a)
      \/ /\ Ends("result") /\ score' \in {Made(call.selected, calls), << >>}
         /\ ByManifest => marked
  BY DEF CustomEnds
<1>3. IsGeneration(gen') /\ (\A w \in strays' : IsGeneration(w)) /\ SamplesInv'
  BY <1>1 DEF SamplesInv, files
<1>4. CASE Goto("plain") /\ UNCHANGED <<score, answer>>
  <2>1. call' = [kind |-> call.kind, ids |-> call.ids, selected |-> call.selected, pc |-> "plain"]
    BY <1>4 DEF Goto, CallInv
  <2>2. EvalPlusInv' /\ AgenticInv'
    BY <1>1, <2>1 DEF EvalPlusInv, AgenticInv
  <2>3. UNCHANGED <<calls, results, logs, answer, child>>
    BY <1>1, <1>4 DEF files
  <2> QED BY <1>1, <1>3, <1>4, <2>2, <2>3, GoesOnKeepsRInv DEF CallInv
<1>5. CASE \E a \in {"nothing", "raised"} : Ends(a)
  <2>1. ManifestScoresAreOwn'
    BY <1>5 DEF ManifestScoresAreOwn, Ends
  <2> QED BY <1>1, <1>3, <1>5, <2>1, EndsKeepsRInv DEF CallInv
<1>6. CASE /\ Ends("result") /\ score' \in {Made(call.selected, calls), << >>}
           /\ ByManifest => marked
  <2>1. call'.ids = call.ids
    BY <1>6 DEF Ends, Goto, CallInv
  <2>2. ASSUME ByManifest, score' = Made(call.selected, calls)
        PROVE /\ \A n \in DOMAIN score' : score'[n].by = calls
              /\ Len(score') = Len(call.ids) /\ ToSet(Ids(score')) = ToSet(call.ids)
    <3>1. call.selected = call.ids /\ call.ids \in Seq(ToSet(call.ids)) /\ calls \in Nat
      BY <1>1, <2>2, SequencesAssumption, SampleAssumption DEF CallInv, SequencesAssumption, ToSet, SampleAssumption
    <3> QED BY <2>2, <3>1, MadeIsOwn DEF IsOwn
  <2>3. ManifestScoresAreOwn'
    BY <1>1, <1>6, <2>1, <2>2 DEF ManifestScoresAreOwn, Ends, ByManifest
  <2> QED BY <1>1, <1>3, <1>6, <2>3, EndsKeepsRInv DEF CallInv
<1> QED BY <1>2, <1>4, <1>5, <1>6

LEMMA AgenticKeepsRInv ==
  ASSUME RInv, AgenticEnds \/ CheckAgentic
  PROVE RInv'
<1> USE DEF RInv
<1>1. UNCHANGED <<calls, gen, strays, files>> /\ call.kind = "agentic" /\ call.pc # "idle" /\ answer = "none"
  BY DEF AgenticEnds, CheckAgentic, CallInv
<1>2. IsGeneration(gen') /\ (\A w \in strays' : IsGeneration(w)) /\ SamplesInv'
  BY <1>1 DEF SamplesInv, files
<1>3. CASE AgenticEnds
  <2>1. PICK docs \in SeqOf(ToSet(call.selected), SampleSize), ok \in BOOLEAN :
          child' = [child EXCEPT !.docs = docs, !.ok = ok] /\ score' = Made(docs, calls)
    BY <1>3 DEF AgenticEnds
  <2>2. docs \in Seq(ToSet(call.selected))
    BY SampleAssumption DEF SeqOf, SampleAssumption
  <2>3. child' = [docs |-> docs, wrote |-> child.wrote, ok |-> ok]
    <3> DEFINE one == [child EXCEPT !.docs = docs]
    <3>1. one = [docs |-> docs, wrote |-> child.wrote, ok |-> child.ok]
      BY DEF CallInv
    <3> HIDE DEF one
    <3>2. [one EXCEPT !.ok = ok] = [docs |-> docs, wrote |-> child.wrote, ok |-> ok]
      BY <3>1
    <3> QED BY <2>1, <3>2 DEF one
  <2>4. Goto("check") /\ call' = [kind |-> call.kind, ids |-> call.ids, selected |-> call.selected, pc |-> "check"]
        /\ answer' = answer
    BY <1>3 DEF AgenticEnds, Goto, CallInv
  <2>5. AgenticInv'
    BY <1>1, <2>1, <2>2, <2>3, <2>4 DEF AgenticInv
  <2>6. EvalPlusInv'
    BY <1>1, <2>4 DEF EvalPlusInv
  <2>7. child' = [docs |-> child'.docs, wrote |-> child'.wrote, ok |-> child'.ok]
    BY <2>3
  <2> QED BY <1>1, <1>2, <2>4, <2>5, <2>6, <2>7, GoesOnKeepsRInv DEF files
<1>4. CASE CheckAgentic
  <2>1. /\ Ends(IF ByManifest /\ ~(child.ok /\ SamplesConfirm(child.docs, call.selected)) THEN "raised" ELSE "result")
        /\ UNCHANGED <<child, score>> /\ call.pc = "check"
    BY <1>4 DEF CheckAgentic
  <2>2. call'.ids = call.ids
    BY <2>1 DEF Ends, Goto, CallInv
  <2>3. ASSUME SamplesConfirm(child.docs, call.selected), ByManifest
        PROVE /\ \A n \in DOMAIN score : score[n].by = calls
              /\ Len(score) = Len(call.ids) /\ ToSet(Ids(score)) = ToSet(call.ids)
    <3>1. /\ child.docs \in Seq(ToSet(call.selected)) /\ score = Made(child.docs, calls)
          /\ call.selected = call.ids
      BY <1>1, <2>1, <2>3 DEF AgenticInv, CallInv
    <3>2. Len(child.docs) = Len(call.ids) /\ ToSet(child.docs) = ToSet(call.ids)
      BY <2>3, <3>1 DEF SamplesConfirm
    <3>3. calls \in Nat
      BY SampleAssumption DEF CallInv, SampleAssumption
    <3>4. IsOwn(score, child.docs, calls)
      BY <3>1, <3>3, MadeIsOwn
    <3> QED BY <3>2, <3>4 DEF IsOwn
  <2>4. ManifestScoresAreOwn'
    BY <1>1, <2>1, <2>2, <2>3 DEF ManifestScoresAreOwn, Ends, ByManifest
  <2> QED BY <1>1, <1>2, <2>1, <2>4, EndsKeepsRInv DEF CallInv
<1> QED BY <1>3, <1>4

(* LM-Eval: what is found is an answer of one of the result files.         *)
LEMMA NewestIsThere ==
  ASSUME NEW dir \in Seq(ResultFiles)
  PROVE NewestScore(dir) = << >> \/ \E n \in DOMAIN dir : NewestScore(dir) = dir[n].rows
<1>1. CASE WithMetric(dir) = {}
  BY <1>1 DEF NewestScore
<1>2. CASE WithMetric(dir) # {}
  <2>1. Len(dir) \in Nat /\ WithMetric(dir) \in SUBSET (1..Len(dir)) /\ WithMetric(dir) \subseteq DOMAIN dir
    BY DEF WithMetric
  <2> DEFINE T == WithMetric(dir)
  <2> HIDE DEF T
  <2>2. \E x \in T : \A y \in T : y <= x
    BY <1>2, <2>1, GreatestNumber DEF T
  <2> DEFINE newest == CHOOSE n \in T : \A k \in T : k <= n
  <2>3. newest \in T
    BY <2>2
  <2>4. NewestScore(dir) = dir[newest].rows
    BY <1>2 DEF NewestScore, T
  <2> HIDE DEF newest
  <2> QED BY <2>1, <2>3, <2>4 DEF T
<1> QED BY <1>1, <1>2

LEMMA LmEvalStepsKeepRInv ==
  ASSUME RInv,
         \/ \E metric \in BOOLEAN : ChildWritesResults(metric)
         \/ ChildWritesLog \/ ChildOver \/ SearchScore \/ VerifyLog
  PROVE RInv'
<1> USE DEF RInv
<1>1. /\ call.kind = "lmeval" /\ call.pc \in {"child", "search", "verify"} /\ answer = "none"
      /\ UNCHANGED <<calls, gen, strays, samples>>
  BY DEF ChildWritesResults, ChildWritesLog, ChildOver, SearchScore, VerifyLog, CallInv, files
<1>2. /\ DOMAIN results = 0..MaxCalls /\ DOMAIN logs = 0..MaxCalls
      /\ \A d \in 0..MaxCalls : results[d] \in Seq(ResultFiles)
      /\ \A d \in 0..MaxCalls : d > calls => results[d] = << >> /\ logs[d] = {}
      /\ call.selected \in Seq(TaskSet)
      /\ ByManifest =>
          /\ \A i \in DOMAIN results[calls] : results[calls][i].rows = Mine
          /\ logs[calls] \subseteq {Mine}
          /\ call.pc = "verify" => score \in {<< >>, Mine}
  BY <1>1 DEF LmEvalInv
<1>3. /\ calls \in Nat /\ calls \in 0..MaxCalls /\ 0 \in 0..MaxCalls
      /\ OutputDir \in 0..MaxCalls /\ OutputDir <= calls /\ (ByManifest => OutputDir = calls)
  BY SampleAssumption DEF CallInv, SampleAssumption, OutputDir
<1>4. Mine \in Seq(Sample)
  BY <1>2, <1>3, MadeProperties DEF Mine, Sample
<1>5. SamplesInv' /\ IsGeneration(gen') /\ \A w \in strays' : IsGeneration(w)
  BY <1>1 DEF SamplesInv
<1>6. CASE VerifyLog
  <2>1. /\ Ends(IF ByManifest /\ ~LogConfirms(logs[OutputDir], call.ids) THEN "raised" ELSE "result")
        /\ UNCHANGED <<child, score, files>> /\ call.pc = "verify"
    BY <1>6 DEF VerifyLog
  <2>2. call'.ids = call.ids
    BY <2>1 DEF Ends, Goto, CallInv
  <2>3. ASSUME LogConfirms(logs[calls], call.ids), ByManifest, score # << >>
        PROVE IsOwn(score, call.ids, calls)
    <3>1. score = Mine /\ logs[calls] \subseteq {Mine}
      BY <1>2, <2>1, <2>3
    <3>2. Ids(Mine) = call.ids
      <4>1. logs[calls] # {}
        <5>1. logs[calls] = {} => Cardinality(logs[calls]) = 0
          BY FS_EmptySet
        <5>2. Cardinality(logs[calls]) = 1
          BY <2>3 DEF LogConfirms
        <5> QED BY <5>1, <5>2
      <4> QED BY <2>3, <3>1, <4>1 DEF LogConfirms
    <3>3. call.selected = call.ids
      <4>1. Ids(Made(call.selected, calls)) = call.selected
        BY <1>2, <1>3, IdsOfMade
      <4> QED BY <3>2, <4>1 DEF Mine
    <3> QED BY <1>2, <1>3, <3>1, <3>3, MadeIsOwn DEF Mine
  <2>4. ManifestScoresAreOwn'
    BY <1>1, <1>3, <2>1, <2>2, <2>3 DEF ManifestScoresAreOwn, Ends, ByManifest, IsOwn
  <2> QED BY <1>1, <1>5, <2>1, <2>4, EndsKeepsRInv DEF CallInv
<1>7. CASE ~VerifyLog
  <2>1. /\ answer' = answer
        /\ call' = [kind |-> call.kind, ids |-> call.ids, selected |-> call.selected, pc |-> call'.pc]
        /\ call'.pc \in {"child", "search", "verify"}
        /\ call'.pc = "verify" => SearchScore
        /\ child' = [docs |-> child'.docs, wrote |-> child'.wrote, ok |-> child'.ok]
    BY <1>1, <1>7 DEF ChildWritesResults, ChildWritesLog, ChildOver, SearchScore, CallInv, Goto
  <2>2. CallInv'
    BY <1>1, <2>1 DEF CallInv, ByManifest
  <2>3. EvalPlusInv' /\ AgenticInv'
    BY <1>1, <2>1 DEF EvalPlusInv, AgenticInv
  <2>4. ManifestScoresAreOwn'
    BY <1>1, <2>1 DEF ManifestScoresAreOwn
  <2>5. Mine' = Mine /\ (ByManifest' <=> ByManifest)
    BY <1>1, <2>1 DEF Mine, ByManifest
  <2>6. CASE \E metric \in BOOLEAN : ChildWritesResults(metric)
    <3>1. PICK metric \in BOOLEAN :
            /\ results' = [results EXCEPT ![OutputDir] = Append(@, [metric |-> metric, rows |-> Mine])]
            /\ UNCHANGED <<logs, call>> /\ call.pc = "child"
      BY <2>6 DEF ChildWritesResults, Mine
    <3> DEFINE file == [metric |-> metric, rows |-> Mine]
    <3>2. file \in ResultFiles /\ file.rows = Mine
      BY <1>4 DEF ResultFiles
    <3> HIDE DEF file
    <3>3. /\ DOMAIN results' = 0..MaxCalls
          /\ \A d \in 0..MaxCalls : d # OutputDir => results'[d] = results[d]
          /\ results'[OutputDir] = Append(results[OutputDir], file)
      BY <1>2, <1>3, <3>1 DEF file
    <3>4. Append(results[OutputDir], file) \in Seq(ResultFiles)
      BY <1>2, <1>3, <3>2
    <3>5. \A d \in 0..MaxCalls : d > calls => results'[d] = << >> /\ logs'[d] = {}
      BY <1>2, <1>3, <3>1, <3>3
    <3>6. ASSUME ByManifest, NEW i \in DOMAIN results'[calls] PROVE results'[calls][i].rows = Mine
      <4> DEFINE old == results[calls]
      <4>1. old \in Seq(ResultFiles) /\ results'[calls] = Append(old, file)
        BY <1>2, <1>3, <3>3, <3>6
      <4>2. \A k \in DOMAIN old : old[k].rows = Mine
        BY <1>2, <3>6
      <4> HIDE DEF old
      <4>3. i \in DOMAIN old \/ results'[calls][i] = file
        BY <4>1
      <4>4. i \in DOMAIN old => results'[calls][i] = old[i]
        BY <4>1
      <4> QED BY <3>2, <4>2, <4>3, <4>4
    <3>7. LmEvalInv'
      BY <1>1, <1>2, <2>1, <2>5, <3>1, <3>3, <3>4, <3>5, <3>6 DEF LmEvalInv
    <3> QED BY <1>5, <2>2, <2>3, <2>4, <3>7
  <2>7. CASE ChildWritesLog
    <3>1. /\ logs' = [logs EXCEPT ![OutputDir] = @ \cup {Mine}]
          /\ UNCHANGED <<results, call>> /\ call.pc = "child"
      BY <2>7 DEF ChildWritesLog, Mine
    <3>2. /\ DOMAIN logs' = 0..MaxCalls /\ \A d \in 0..MaxCalls : d > calls => logs'[d] = {}
          /\ ByManifest => logs'[calls] \subseteq {Mine}
      BY <1>2, <1>3, <3>1
    <3>3. LmEvalInv'
      BY <1>1, <1>2, <2>1, <2>5, <3>1, <3>2 DEF LmEvalInv
    <3> QED BY <1>5, <2>2, <2>3, <2>4, <3>3
  <2>8. CASE ChildOver
    <3>1. UNCHANGED <<results, logs>> /\ call'.pc = "search"
      BY <2>1, <2>8 DEF ChildOver, files, Goto, CallInv
    <3>2. LmEvalInv'
      BY <1>1, <1>2, <2>1, <2>5, <3>1 DEF LmEvalInv
    <3> QED BY <1>5, <2>2, <2>3, <2>4, <3>2
  <2>9. CASE SearchScore
    <3>1. UNCHANGED <<results, logs>> /\ score' \in {NewestScore(results[OutputDir]), << >>}
      BY <2>9 DEF SearchScore, files
    <3>2. ByManifest => score' \in {<< >>, Mine}
      BY <1>2, <1>3, <3>1, NewestIsThere
    <3>3. LmEvalInv'
      BY <1>1, <1>2, <2>1, <2>5, <3>1, <3>2 DEF LmEvalInv
    <3> QED BY <1>5, <2>2, <2>3, <2>4, <3>3
  <2> QED BY <1>7, <2>6, <2>7, <2>8, <2>9
<1> QED BY <1>6, <1>7

LEMMA NextRInv == RInv /\ [RNext]_rvars => RInv'
<1> SUFFICES ASSUME RInv, [RNext]_rvars PROVE RInv'
  OBVIOUS
<1>1. CASE Call
  <2>1. PICK ids \in Manifests \cup {Free} :
          \/ \E kind \in Kinds : Refused(kind, ids)
          \/ \E parallel, removed \in BOOLEAN : BeginEvalPlus(ids, parallel, removed)
          \/ \E limit \in DOMAIN Tasks, started \in BOOLEAN : BeginLmEval(ids, limit, started)
          \/ BeginAgentic(ids)
          \/ \E structured \in BOOLEAN : BeginCustom(ids, structured)
    BY <1>1 DEF Call
  <2> QED BY <2>1, RefusedKeepsRInv, BeginEvalPlusKeepsRInv, BeginOthersKeepRInv
<1>2. CASE Generate \/ GiveUp \/ StrayGenerates \/ CodegenReturns
  BY <1>2, GenerateKeepsRInv, GiveUpKeepsRInv, StrayGeneratesKeepsRInv, CodegenReturnsKeepsRInv
<1>3. CASE (\E jobFails \in BOOLEAN : Evaluate(jobFails)) \/ EvaluationExpires \/ CheckSamples
  BY <1>3, EvaluateKeepsRInv, ExpiresKeepsRInv, CheckSamplesKeepsRInv
<1>4. CASE \/ \E metric \in BOOLEAN : ChildWritesResults(metric)
           \/ ChildWritesLog \/ ChildOver \/ SearchScore \/ VerifyLog
  BY <1>4, LmEvalStepsKeepRInv
<1>5. CASE AgenticEnds \/ CheckAgentic
  BY <1>5, AgenticKeepsRInv
<1>6. CASE (\E marked, channel, ok \in BOOLEAN : CustomEnds(marked, channel, ok)) \/ CustomExpires
  BY <1>6, CustomEndsKeepsRInv, ExpiresKeepsRInv
<1>7. CASE NextLauncher \/ UNCHANGED rvars
  <2>1. UNCHANGED <<calls, call, gen, strays, samples, results, logs, child, score, answer>>
    BY <1>7 DEF NextLauncher, rvars, files
  <2> QED BY <2>1 DEF RInv, CallInv, SamplesInv, EvalPlusInv, LmEvalInv, AgenticInv, Mine, ByManifest, ManifestScoresAreOwn
<1> QED BY <1>1, <1>2, <1>3, <1>4, <1>5, <1>6, <1>7 DEF RNext

(* Whatever the tasks, the manifests and the number of calls: a score that *)
(* a runner reports for a manifest is of this call's own answers, one for  *)
(* each selected task.                                                     *)
THEOREM ScoresAreOwn == RSpec => []ManifestScoresAreOwn
<1>1. RInv => ManifestScoresAreOwn
  BY DEF RInv
<1> QED BY <1>1, InitRInv, NextRInv, PTL DEF RSpec

-----------------------------------------------------------------------------
(* The task pool.  Every task that was begun is at work or has its result, *)
(* and nothing is at work once the window is closed.                       *)

IsSeq(s) == s \in Seq({s[i] : i \in DOMAIN s})

WorkInv ==
    /\ IsSeq(finished) /\ next \in Nat \ {0} /\ busy \subseteq 1..(next - 1)
    /\ Len(finished) + Cardinality(busy) = next - 1
    /\ \A j \in 1..(next - 1) :
         j \in busy \/ \E k \in DOMAIN finished : finished[k].task = chosen[j].id
    /\ stage # "run" => busy = {}
    /\ stage = "load" => next = 1

(* A sampler that is still there when the next window opens has outlived   *)
(* its join; only such a one records what it measured before.              *)
SamplerInv ==
    /\ outlived \/ (older = {} /\ peak \subseteq {"own"})
    /\ stage \notin {"run", "join"} => outlived \/ sampler \in {"none", "ended"}

IsRow(r, i) ==
    /\ r.index = i /\ r.result.task = chosen[i].id
    /\ (r.peak \subseteq {"own"} \/ outlived)

RowsInv ==
    /\ IsSeq(rows) /\ \A i \in DOMAIN rows : IsRow(rows[i], i)
    /\ stage \in {"load", "collect"} => rows = << >>
    /\ stage \in {"sum", "confirm", "write", "model"} => rows = << >> \/ Len(rows) = Len(chosen)

ChosenInv ==
    /\ plan.ids \in SelectedIds
    /\ (Bound /\ stage \notin {"load", "aborted"}) =>
         DOMAIN chosen = DOMAIN plan.ids /\ \A i \in DOMAIN chosen : chosen[i].id = plan.ids[i]

OutputInv ==
    /\ csv # << >> => /\ csv = rows /\ Len(rows) = Len(chosen)
                      /\ stage \in {"model", "aborted", "ended"}
    /\ marker # << >> => /\ marker = plan.ids /\ marker = [i \in DOMAIN rows |-> rows[i].result.task]
                         /\ stage \in {"write", "model", "aborted", "ended"}

TInv == WorkInv /\ SamplerInv /\ RowsInv /\ ChosenInv /\ OutputInv

LEMMA BuiltSeq ==
  ASSUME NEW n \in Nat, NEW s, s = [i \in 1..n |-> s[i]]
  PROVE IsSeq(s) /\ Len(s) = n /\ DOMAIN s = 1..n
<1>1. DOMAIN s = 1..n
  OBVIOUS
<1>2. s \in Seq({s[i] : i \in 1..n}) /\ Len(s) = n
  <2> DEFINE S == {s[i] : i \in 1..n}
  <2>1. \A i \in 1..n : s[i] \in S
    OBVIOUS
  <2> HIDE DEF S
  <2>2. s \in [1..n -> S]
    BY <2>1
  <2>3. s \in Seq(S) /\ Len(s) = n
    BY <1>1, <2>2
  <2> QED BY <2>3 DEF S
<1> QED BY <1>1, <1>2 DEF IsSeq

LEMMA SeqDomain ==
  ASSUME NEW s, IsSeq(s)
  PROVE /\ Len(s) \in Nat /\ DOMAIN s = 1..Len(s) /\ s = [i \in DOMAIN s |-> s[i]]
        /\ s = << >> <=> Len(s) = 0
<1> DEFINE S == {s[i] : i \in DOMAIN s}
<1>1. s \in Seq(S)
  BY DEF IsSeq
<1> HIDE DEF S
<1> QED BY <1>1

LEMMA OneMore ==
  ASSUME NEW s, IsSeq(s), NEW x
  PROVE LET more == Append(s, x) IN
        /\ IsSeq(more) /\ Len(more) = Len(s) + 1
        /\ DOMAIN s \subseteq DOMAIN more /\ \A k \in DOMAIN s : more[k] = s[k]
        /\ Len(s) + 1 \in DOMAIN more /\ more[Len(s) + 1] = x
<1> DEFINE S == {s[i] : i \in DOMAIN s} \cup {x}
           more == Append(s, x)
<1>1. s \in Seq(S) /\ x \in S
  BY SeqMonotonic DEF IsSeq
<1> HIDE DEF S
<1>2. /\ more \in Seq(S) /\ Len(more) = Len(s) + 1 /\ DOMAIN more = 1..(Len(s) + 1)
      /\ Len(s) \in Nat /\ DOMAIN s = 1..Len(s)
      /\ \A k \in DOMAIN s : more[k] = s[k]
      /\ more[Len(s) + 1] = x
  BY <1>1
<1> HIDE DEF more
<1>3. more = [i \in 1..(Len(s) + 1) |-> more[i]]
  BY <1>2
<1>4. IsSeq(more)
  BY <1>2, <1>3, BuiltSeq
<1> QED BY <1>2, <1>4 DEF more

LEMMA InitTInv == TInit => TInv
<1> SUFFICES ASSUME TInit PROVE TInv
  OBVIOUS
<1> USE DEF TInit
<1>1. IsSeq(<< >>) /\ Len(<< >>) = 0 /\ DOMAIN << >> = {}
  BY EmptySeq DEF IsSeq
<1>2. Cardinality({}) = 0
  BY FS_EmptySet
<1>3. WorkInv
  BY <1>1, <1>2 DEF WorkInv
<1>4. SamplerInv /\ ChosenInv /\ OutputInv
  BY DEF SamplerInv, ChosenInv, OutputInv
<1>5. RowsInv
  BY <1>1 DEF RowsInv
<1> QED BY <1>3, <1>4, <1>5 DEF TInv

(* Steps that leave the work and the tasks alone.                          *)
LEMMA WorkGoesOn ==
  ASSUME WorkInv, UNCHANGED <<next, busy, finished, chosen>>, stage' # "load",
         stage' # "run" => stage # "run"
  PROVE WorkInv'
<1> QED BY DEF WorkInv

LEMMA LoadKeepsTInv == ASSUME TInv, Load PROVE TInv'
<1> USE DEF TInv
<1>1. /\ stage = "load" /\ stage' \in {"collect", "aborted"}
      /\ UNCHANGED <<plan, next, busy, finished, rows, sampling, sampler, older, peak, outlived, csv, marker, average>>
  BY DEF Load, work, threads, output
<1>2. next = 1 /\ rows = << >> /\ csv = << >> /\ marker = << >>
  BY <1>1 DEF WorkInv, RowsInv, OutputInv
<1>3. WorkInv'
  BY <1>1, <1>2 DEF WorkInv
<1>4. SamplerInv'
  BY <1>1 DEF SamplerInv
<1>5. RowsInv'
  <2>1. DOMAIN << >> = {}
    OBVIOUS
  <2> QED BY <1>1, <1>2, <2>1 DEF RowsInv
<1>6. ChosenInv'
  <2>1. ASSUME Bound, stage' = "collect"
        PROVE DOMAIN chosen' = DOMAIN plan.ids /\ \A i \in DOMAIN chosen' : chosen'[i].id = plan.ids[i]
    <3>1. ManifestFits(Loaded, plan.ids, plan.sample) /\ chosen' = [i \in DOMAIN plan.ids |-> TaskOf(plan.ids[i])]
      BY <2>1 DEF Load
    <3>2. ASSUME NEW i \in DOMAIN plan.ids PROVE TaskOf(plan.ids[i]).id = plan.ids[i]
      <4>1. IsSeq(plan.ids)
        BY PoolAssumption DEF PoolAssumption, ChosenInv, IsSeq
      <4>2. plan.ids[i] \in ToSet(plan.ids)
        BY <4>1, SeqDomain DEF ToSet
      <4>3. PICK t \in ToSet(Loaded) : t.id = plan.ids[i]
        BY <3>1, <4>2 DEF ManifestFits
      <4> QED BY <4>3 DEF TaskOf
    <3> QED BY <3>1, <3>2
  <2> QED BY <1>1, <2>1 DEF ChosenInv, Bound
<1>7. OutputInv'
  BY <1>1, <1>2 DEF OutputInv
<1> QED BY <1>3, <1>4, <1>5, <1>6, <1>7

LEMMA CollectKeepsTInv == ASSUME TInv, CollectorStarts \/ MetricsFail PROVE TInv'
<1> USE DEF TInv
<1>1. /\ stage \in {"collect", "sum", "final", "window"} /\ stage' \in {"sum", "window", "confirm"}
      /\ UNCHANGED <<plan, chosen, next, busy, finished, sampling, sampler, older, peak, outlived, csv, marker, average>>
  BY DEF CollectorStarts, MetricsFail, work, threads, output
<1>2. WorkInv' /\ SamplerInv' /\ ChosenInv'
  BY <1>1, WorkGoesOn DEF SamplerInv, ChosenInv, Bound
<1>3. csv = << >> /\ marker = << >>
  BY <1>1 DEF OutputInv
<1>4. OutputInv'
  BY <1>1, <1>3 DEF OutputInv
<1>5. RowsInv'
  <2>1. IsSeq(<< >>) /\ DOMAIN << >> = {} /\ Len(<< >>) = 0
    BY EmptySeq DEF IsSeq
  <2>2. CASE CollectorStarts
    <3>1. rows' = rows /\ (stage' = "sum" => chosen = << >>) /\ stage = "collect"
      BY <2>2 DEF CollectorStarts
    <3> QED BY <1>1, <3>1 DEF RowsInv, IsRow
  <2>3. CASE MetricsFail
    BY <1>1, <2>1, <2>3 DEF RowsInv, MetricsFail
  <2> QED BY <2>2, <2>3
<1> QED BY <1>2, <1>4, <1>5

LEMMA SamplerKeepsTInv ==
  ASSUME TInv, OpenWindow \/ SamplerMeasures \/ SamplerRecords \/ OlderSteps \/ StopSampling
  PROVE TInv'
<1> USE DEF TInv
<1>1. /\ UNCHANGED <<plan, chosen, next, busy, finished, rows, outlived, csv, marker, average>>
      /\ \/ stage' = stage
         \/ stage = "window" /\ stage' = "run"
         \/ stage = "run" /\ stage' = "join" /\ busy = {}
  BY DEF OpenWindow, SamplerMeasures, SamplerRecords, OlderSteps, StopSampling, work, output
<1>2. WorkInv'
  BY <1>1 DEF WorkInv
<1>3. RowsInv'
  BY <1>1 DEF RowsInv, IsRow
<1>4. ChosenInv' /\ OutputInv'
  BY <1>1 DEF ChosenInv, OutputInv, Bound
<1>5. SamplerInv'
  <2>1. CASE outlived
    BY <1>1, <2>1 DEF SamplerInv
  <2> SUFFICES ASSUME ~outlived PROVE SamplerInv'
    BY <2>1
  <2>2. older = {} /\ peak \subseteq {"own"} /\ (stage \notin {"run", "join"} => sampler \in {"none", "ended"})
    BY DEF SamplerInv
  <2>3. CASE OpenWindow
    BY <1>1, <2>2, <2>3 DEF OpenWindow, SamplerInv
  <2>4. CASE SamplerMeasures
    BY <1>1, <2>2, <2>4 DEF SamplerMeasures, SamplerInv
  <2>5. CASE SamplerRecords
    BY <1>1, <2>2, <2>5 DEF SamplerRecords, SamplerInv
  <2>6. CASE OlderSteps
    BY <2>2, <2>6 DEF OlderSteps
  <2>7. CASE StopSampling
    BY <1>1, <2>2, <2>7 DEF StopSampling, SamplerInv
  <2> QED BY <2>3, <2>4, <2>5, <2>6, <2>7
<1> QED BY <1>2, <1>3, <1>4, <1>5

(* The rows of the finished tasks: each looks up the result of its task.   *)
LEMMA FinalizedRows ==
  ASSUME TInv, stage = "join", JoinSampler
  PROVE /\ IsSeq(rows')
        /\ \A i \in DOMAIN rows' :
             /\ rows'[i].index = i /\ rows'[i].result.task = chosen[i].id
             /\ (rows'[i].peak \subseteq {"own"} \/ outlived')
<1> USE DEF TInv
<1>1. /\ rows' = Finalized /\ outlived' = (outlived \/ sampler # "ended") /\ chosen' = chosen
  BY DEF JoinSampler
<1>2. busy = {} /\ IsSeq(finished) /\ next \in Nat \ {0} /\ Len(finished) = next - 1
  <2>1. Cardinality({}) = 0
    BY FS_EmptySet
  <2>2. busy = {} /\ Len(finished) + Cardinality(busy) = next - 1
    BY DEF WorkInv
  <2>3. IsSeq(finished) /\ next \in Nat \ {0}
    BY DEF WorkInv
  <2>4. Len(finished) \in Nat /\ Cardinality(busy) = 0
    BY <2>1, <2>2, <2>3, SeqDomain
  <2> QED BY <2>2, <2>3, <2>4
<1>3. Len(finished) \in Nat /\ DOMAIN finished = 1..Len(finished)
  BY <1>2, SeqDomain
<1>4. ASSUME NEW i \in DOMAIN finished PROVE Collected(finished)[i].task = chosen[i].id
  <2>1. \E k \in DOMAIN finished : finished[k].task = chosen[i].id
    BY <1>2, <1>3 DEF WorkInv
  <2>2. Collected(finished)[i] = finished[CHOOSE k \in DOMAIN finished : finished[k].task = chosen[i].id]
    BY DEF Collected
  <2> QED BY <2>1, <2>2
<1>5. /\ rows' = [i \in 1..Len(finished) |-> rows'[i]]
      /\ \A i \in DOMAIN finished :
           /\ rows'[i].index = i /\ rows'[i].result = Collected(finished)[i]
           /\ rows'[i].peak = (IF i > Len(rows) THEN peak ELSE rows[i].peak)
  BY <1>1, <1>3 DEF Finalized
<1>6. IsSeq(rows') /\ DOMAIN rows' = DOMAIN finished
  BY <1>3, <1>5, BuiltSeq
<1>7. ASSUME NEW i \in DOMAIN finished PROVE rows'[i].peak \subseteq {"own"} \/ outlived'
  <2>1. peak \subseteq {"own"} \/ outlived
    BY DEF SamplerInv
  <2>2. IsSeq(rows) /\ \A k \in DOMAIN rows : rows[k].peak \subseteq {"own"} \/ outlived
    BY DEF RowsInv, IsRow
  <2>3. Len(rows) \in Nat /\ DOMAIN rows = 1..Len(rows)
    BY <2>2, SeqDomain
  <2>4. CASE i > Len(rows)
    BY <1>1, <1>5, <2>1, <2>4
  <2>5. CASE ~(i > Len(rows))
    <3>1. i \in DOMAIN rows /\ rows'[i].peak = rows[i].peak
      BY <1>3, <1>5, <2>3, <2>5
    <3> QED BY <1>1, <2>2, <3>1
  <2> QED BY <2>4, <2>5
<1> QED BY <1>4, <1>5, <1>6, <1>7

LEMMA JoinKeepsTInv == ASSUME TInv, JoinSampler \/ WindowDone PROVE TInv'
<1> USE DEF TInv
<1>1. CASE JoinSampler
  <2>1. /\ stage = "join" /\ stage' = "final" /\ outlived' = (outlived \/ sampler # "ended") /\ peak' = {}
        /\ UNCHANGED <<plan, chosen, next, busy, finished, sampling, sampler, older, csv, marker, average>>
    BY <1>1 DEF JoinSampler, work, output
  <2>2. WorkInv' /\ ChosenInv'
    BY <2>1, WorkGoesOn DEF ChosenInv, Bound
  <2>3. SamplerInv'
    BY <2>1 DEF SamplerInv
  <2>4. RowsInv'
    BY <1>1, <2>1, FinalizedRows DEF RowsInv, IsRow
  <2>5. OutputInv'
    BY <2>1 DEF OutputInv
  <2> QED BY <2>2, <2>3, <2>4, <2>5
<1>2. CASE WindowDone
  <2>1. /\ stage = "final" /\ stage' = (IF Len(rows) = Len(chosen) THEN "sum" ELSE "window")
        /\ UNCHANGED <<plan, chosen, next, busy, finished, rows, sampling, sampler, older, peak, outlived, csv, marker, average>>
    BY <1>2 DEF WindowDone, work, threads, output
  <2>2. WorkInv' /\ ChosenInv' /\ SamplerInv' /\ OutputInv'
    BY <2>1, WorkGoesOn DEF ChosenInv, Bound, SamplerInv, OutputInv
  <2>3. RowsInv'
    BY <2>1 DEF RowsInv, IsRow
  <2> QED BY <2>2, <2>3
<1> QED BY <1>1, <1>2

LEMMA TakeKeepsTInv == ASSUME TInv, TakeTask PROVE TInv'
<1> USE DEF TInv
<1>1. /\ stage = "run" /\ busy' = busy \cup {next} /\ next' = next + 1
      /\ UNCHANGED <<plan, chosen, stage, finished, rows, sampling, sampler, older, peak, outlived, csv, marker, average>>
  BY DEF TakeTask, threads, output
<1>2. /\ IsSeq(finished) /\ next \in Nat \ {0} /\ busy \in SUBSET (1..(next - 1))
      /\ Len(finished) + Cardinality(busy) = next - 1
      /\ \A j \in 1..(next - 1) : j \in busy \/ \E k \in DOMAIN finished : finished[k].task = chosen[j].id
  BY DEF WorkInv
<1>3. next - 1 \in Nat /\ Len(finished) \in Nat
  BY <1>2, SeqDomain
<1>4. IsFiniteSet(busy) /\ next \notin busy /\ Cardinality(busy) \in Nat
  BY <1>2, <1>3, UpTo
<1>5. Cardinality(busy') = Cardinality(busy) + 1
  BY <1>1, <1>4, FS_AddElement
<1>6. Len(finished') + Cardinality(busy') = next' - 1
  BY <1>1, <1>2, <1>3, <1>4, <1>5
<1>7. next' \in Nat \ {0} /\ busy' \subseteq 1..(next' - 1)
  BY <1>1, <1>2
<1>8. \A j \in 1..(next' - 1) : j \in busy' \/ \E k \in DOMAIN finished : finished[k].task = chosen[j].id
  BY <1>1, <1>2
<1>9. WorkInv'
  BY <1>1, <1>2, <1>6, <1>7, <1>8 DEF WorkInv
<1>10. SamplerInv' /\ ChosenInv' /\ OutputInv'
  BY <1>1 DEF SamplerInv, ChosenInv, OutputInv, Bound
<1>11. RowsInv'
  BY <1>1 DEF RowsInv, IsRow
<1> QED BY <1>9, <1>10, <1>11

LEMMA ReturnsKeepsTInv == ASSUME TInv, NEW i, TaskReturns(i) PROVE TInv'
<1> USE DEF TInv
<1>1. /\ i \in busy /\ busy' = busy \ {i}
      /\ UNCHANGED <<plan, chosen, stage, next, rows, sampling, sampler, older, peak, outlived, csv, marker, average>>
  BY DEF TaskReturns, threads, output
<1>2. PICK x : finished' = Append(finished, x) /\ x.task = chosen[i].id
  BY DEF TaskReturns
<1>3. /\ IsSeq(finished) /\ next \in Nat \ {0} /\ busy \in SUBSET (1..(next - 1))
      /\ Len(finished) + Cardinality(busy) = next - 1
      /\ \A j \in 1..(next - 1) : j \in busy \/ \E k \in DOMAIN finished : finished[k].task = chosen[j].id
      /\ stage = "run"
  BY <1>1 DEF WorkInv
<1>4. next - 1 \in Nat /\ Len(finished) \in Nat
  BY <1>3, SeqDomain
<1>5. IsFiniteSet(busy) /\ Cardinality(busy) \in Nat
  BY <1>3, <1>4, UpTo
<1>6. Cardinality(busy') = Cardinality(busy) - 1
  BY <1>1, <1>5, FS_RemoveElement
<1>7. /\ IsSeq(finished') /\ Len(finished') = Len(finished) + 1
      /\ DOMAIN finished \subseteq DOMAIN finished'
      /\ \A k \in DOMAIN finished : finished'[k] = finished[k]
      /\ Len(finished) + 1 \in DOMAIN finished' /\ finished'[Len(finished) + 1] = x
  BY <1>2, <1>3, OneMore
<1>8. Len(finished') + Cardinality(busy') = next' - 1
  BY <1>1, <1>3, <1>4, <1>5, <1>6, <1>7
<1>9. ASSUME NEW j \in 1..(next - 1)
      PROVE j \in busy' \/ \E k \in DOMAIN finished' : finished'[k].task = chosen[j].id
  BY <1>1, <1>2, <1>3, <1>7
<1>10. WorkInv'
  BY <1>1, <1>3, <1>7, <1>8, <1>9 DEF WorkInv
<1>11. SamplerInv' /\ ChosenInv' /\ OutputInv'
  BY <1>1 DEF SamplerInv, ChosenInv, OutputInv, Bound
<1>12. RowsInv'
  BY <1>1 DEF RowsInv, IsRow
<1> QED BY <1>10, <1>11, <1>12

(* The ids are confirmed when there is one row for each task: they are     *)
(* those of the rows, and those of the manifest.                           *)
LEMMA ConfirmKeepsTInv == ASSUME TInv, ConfirmTasks PROVE TInv'
<1> USE DEF TInv
<1>1. /\ stage = "confirm" /\ stage' \in {"aborted", "write"}
      /\ UNCHANGED <<plan, chosen, next, busy, finished, rows, sampling, sampler, older, peak, outlived, csv, average>>
  BY DEF ConfirmTasks, work, threads
<1>2. WorkInv' /\ SamplerInv' /\ ChosenInv'
  BY <1>1, WorkGoesOn DEF SamplerInv, ChosenInv, Bound
<1>3. RowsInv'
  BY <1>1 DEF RowsInv, IsRow
<1>4. csv = << >> /\ marker = << >>
  BY <1>1 DEF OutputInv
<1>5. ASSUME marker' # << >>
      PROVE marker' = plan.ids /\ marker' = [i \in DOMAIN rows |-> rows[i].result.task] /\ stage' = "write"
  <2>1. Bound /\ Confirms(rows) /\ marker' = [i \in DOMAIN chosen |-> chosen[i].id] /\ stage' = "write"
    BY <1>4, <1>5 DEF ConfirmTasks
  <2>2. IsSeq(rows) /\ \A i \in DOMAIN rows : rows[i].index = i /\ rows[i].result.task = chosen[i].id
    BY DEF RowsInv, IsRow
  <2>3. DOMAIN rows = 1..Len(rows) /\ Len(rows) \in Nat
    BY <2>2, SeqDomain
  <2>4. {r.index : r \in ToSet(rows)} = DOMAIN rows
    BY <2>2, <2>3 DEF ToSet
  <2>5. DOMAIN chosen = DOMAIN rows
    BY <2>1, <2>4 DEF Confirms
  <2>6. DOMAIN chosen = DOMAIN plan.ids /\ \A i \in DOMAIN chosen : chosen[i].id = plan.ids[i]
    BY <1>1, <2>1 DEF ChosenInv
  <2>7. plan.ids = [i \in DOMAIN plan.ids |-> plan.ids[i]]
    <3>1. IsSeq(plan.ids)
      BY PoolAssumption DEF PoolAssumption, ChosenInv, IsSeq
    <3> QED BY <3>1, SeqDomain
  <2> QED BY <2>1, <2>2, <2>5, <2>6, <2>7
<1>6. OutputInv'
  BY <1>1, <1>4, <1>5 DEF OutputInv
<1> QED BY <1>2, <1>3, <1>6

LEMMA WriteKeepsTInv ==
  ASSUME TInv, Summarise \/ \E fails \in BOOLEAN : WriteRows(fails) \/ WriteModel(fails)
  PROVE TInv'
<1> USE DEF TInv
<1>1. /\ stage \in {"sum", "write", "model"} /\ stage' \in {"confirm", "model", "aborted", "ended"}
      /\ (stage' = "confirm" <=> stage = "sum") /\ (stage' = "model" => stage = "write")
      /\ UNCHANGED <<plan, chosen, next, busy, finished, rows, sampling, sampler, older, peak, outlived, marker>>
      /\ \/ csv' = csv
         \/ stage = "write" /\ stage' = "model" /\ csv' = rows
  BY DEF Summarise, WriteRows, WriteModel, work, threads, output
<1>2. WorkInv' /\ SamplerInv' /\ ChosenInv'
  BY <1>1, WorkGoesOn DEF SamplerInv, ChosenInv, Bound
<1>3. RowsInv'
  BY <1>1 DEF RowsInv, IsRow
<1>4. OutputInv'
  BY <1>1 DEF OutputInv, RowsInv
<1> QED BY <1>2, <1>3, <1>4

LEMMA NextTInv == TInv /\ [TNext]_tvars => TInv'
<1> SUFFICES ASSUME TInv, [TNext]_tvars PROVE TInv'
  OBVIOUS
<1>1. CASE UNCHANGED tvars
  <2>1. UNCHANGED <<plan, chosen, stage, next, busy, finished, rows, sampling, sampler, older, peak, outlived, csv, marker>>
    BY <1>1 DEF tvars
  <2> QED BY <2>1 DEF TInv, WorkInv, SamplerInv, RowsInv, IsRow, ChosenInv, OutputInv, Bound
<1> QED BY <1>1, LoadKeepsTInv, CollectKeepsTInv, SamplerKeepsTInv, JoinKeepsTInv, TakeKeepsTInv,
           ReturnsKeepsTInv, ConfirmKeepsTInv, WriteKeepsTInv DEF TNext

(* However many tasks and workers there are, and in whatever order they    *)
(* finish: a row is of the task of its index, every task has one, and what *)
(* is confirmed is what was asked for.                                     *)
THEOREM RowsBelong == TSpec => []RowsAreTheirTasks
<1>1. TInv => RowsAreTheirTasks
  BY DEF TInv, OutputInv, RowsInv, IsRow, RowsAreTheirTasks
<1> QED BY <1>1, InitTInv, NextTInv, PTL DEF TSpec

-----------------------------------------------------------------------------
(* The sandbox.  Full marks are earned for any namespaces, values and      *)
(* number of tests.  The heart of it is that each script is run at most    *)
(* once in a call, so that a report that is kept is that of the last run   *)
(* of its script.                                                          *)

USE ValueAssumption DEF ValueAssumption, observed

Reports == [ok : BOOLEAN, setup : Spaces, state : Spaces, passed : Nat]
Grades == [how : {"none", "graded", "raised"}, matched : Nat, of : Nat]

STypeOK ==
    /\ os \in {"nt", "posix"}
    /\ task \subseteq TaskParts
    /\ at \in {"start", "harness", "retry", "open", "run", "drain", "judge", "returned"}
    /\ at \in {"open", "run", "drain", "judge"} => script \in Scripts
    /\ said \in Reports
    /\ report \in [Scripts -> Reports] /\ did \in [Scripts -> Reports]
    /\ printed \subseteq Scripts
    /\ checks \in [{"patched", "original"} -> SUBSET {"execution", "string"}]
    /\ grade \in Grades

(* What the pipe or a report says is what the script has done, unless the  *)
(* script wrote it.                                                        *)
ReportInv ==
    /\ said.ok => at \in {"run", "drain"} /\ (script \notin printed => did[script] = said)
    /\ \A s \in Scripts : report[s].ok /\ s \notin printed => did[s] = report[s]

(* A script that is still to run or runs has no report yet.                *)
OnceInv ==
    /\ at \in {"harness", "retry"} => script = "harness"
    /\ at \in {"start", "harness", "retry"} => \A s \in Scripts : ~report[s].ok
    /\ at \in {"open", "run", "drain"} => ~report[script].ok
    /\ at # "returned" /\ script = "reference" => ~report["generated"].ok
    /\ script = "generated" => report["reference"].ok

(* There is no grade before the end.                                       *)
GradeInv == (at # "returned" => grade.how = "none") /\ FullScoreIsEarned

SInv == STypeOK /\ ReportInv /\ OnceInv /\ GradeInv

-----------------------------------------------------------------------------
LEMMA NothingIsAReport == Nothing \in Reports /\ ~Nothing.ok
  BY DEF Nothing, Reports, Spaces

LEMMA EffectsAreReports == ASSUME script \in Scripts PROVE Effects \subseteq Reports
<1>1. [Names -> SetupValues] \subseteq Spaces
  BY DEF Spaces
<1>2. ASSUME NEW s \in Spaces, NEW r \in Spaces
      PROVE [ok |-> TRUE, setup |-> s, state |-> r, passed |-> 0] \in Reports
  BY DEF Reports
<1>3. ASSUME NEW g \in Spaces PROVE [Nothing EXCEPT !.ok = TRUE, !.state = g] \in Reports
  BY NothingIsAReport DEF Reports
<1>4. ASSUME NEW n \in Nat PROVE [Nothing EXCEPT !.ok = TRUE, !.passed = n] \in Reports
  BY NothingIsAReport DEF Reports
<1>5. [Nothing EXCEPT !.ok = TRUE] \in Reports
  BY NothingIsAReport DEF Reports
<1>6. 0..Total \subseteq Nat
  BY DEF Total
<1>7. CASE script = "reference"
  <2>1. Effects = {[ok |-> TRUE, setup |-> s, state |-> r, passed |-> 0] :
                      s \in [Names -> SetupValues], r \in Spaces} \cup {Nothing}
    BY <1>7 DEF Effects
  <2> QED BY <2>1, <1>1, <1>2, NothingIsAReport
<1>8. CASE script = "generated"
  <2>1. Effects = {[Nothing EXCEPT !.ok = TRUE, !.state = g] : g \in Spaces} \cup {Nothing}
    BY <1>8 DEF Effects
  <2> QED BY <2>1, <1>3, NothingIsAReport
<1>9. CASE script = "tests"
  <2>1. Effects = {[Nothing EXCEPT !.ok = TRUE, !.passed = n] : n \in 0..Total} \cup {Nothing}
    BY <1>9 DEF Effects
  <2> QED BY <2>1, <1>4, <1>6, NothingIsAReport
<1>10. CASE script = "plain"
  <2>1. Effects = {Nothing, [Nothing EXCEPT !.ok = TRUE]}
    BY <1>10 DEF Effects
  <2> QED BY <2>1, <1>5, NothingIsAReport
<1> QED BY <1>7, <1>8, <1>9, <1>10 DEF Scripts

(* Answer and Raise end the call with a grade.                             *)
LEMMA AnswerType ==
  ASSUME NEW m \in Nat, NEW n \in Nat, grade \in Grades
  PROVE /\ Answer(m, n) => at' = "returned" /\ grade' \in Grades
        /\ Raise => at' = "returned" /\ grade' \in Grades
  BY DEF Answer, Raise, NoGrade, Grades

LEMMA ReturnType ==
  ASSUME STypeOK, script \in Scripts, NEW what \in Reports, Return(what)
  PROVE said' = Nothing /\ at' = "judge" /\ report' \in [Scripts -> Reports]
  BY DEF STypeOK, Return

LEMMA OutputsAreFinite == ASSUME NEW ref PROVE IsFiniteSet(Outputs(ref))
<1>1. Outputs(ref) \in SUBSET Names
  BY DEF Outputs
<1> QED BY <1>1, FS_Subset

LEMMA ShareType == ASSUME NEW ref, NEW made PROVE Share(ref, made) \in Grades
<1> DEFINE Same == {k \in Outputs(ref) : made.state[k] = ref.state[k]}
<1>1. Same \in SUBSET Outputs(ref)
  OBVIOUS
<1>2. IsFiniteSet(Outputs(ref)) /\ IsFiniteSet(Same)
  BY <1>1, OutputsAreFinite, FS_Subset
<1>3. Cardinality(Outputs(ref)) \in Nat /\ Cardinality(Same) \in Nat
  BY <1>2, FS_CardinalityType
<1> QED BY <1>3 DEF Share, Grades

(* All outputs agree if as many agree as there are.                        *)
LEMMA FullShare ==
  ASSUME NEW ref, NEW made, Share(ref, made).matched = Share(ref, made).of
  PROVE \A k \in Outputs(ref) : made.state[k] = ref.state[k]
<1> DEFINE Same == {k \in Outputs(ref) : made.state[k] = ref.state[k]}
<1>1. Same \in SUBSET Outputs(ref)
  OBVIOUS
<1>2. Cardinality(Outputs(ref)) = Cardinality(Same)
  BY DEF Share
<1>3. Outputs(ref) = Same
  BY <1>1, <1>2, OutputsAreFinite, FS_Subset
<1> QED BY <1>3

-----------------------------------------------------------------------------
LEMMA InitSInv == SInit => SInv
<1> SUFFICES ASSUME SInit PROVE SInv
  OBVIOUS
<1> USE NothingIsAReport DEF SInit
<1>1. STypeOK
  BY DEF STypeOK, Grades, NoGrade
<1>2. ReportInv /\ OnceInv
  BY DEF ReportInv, OnceInv
<1>3. GradeInv
  BY DEF GradeInv, FullScoreIsEarned, NoGrade
<1> QED BY <1>1, <1>2, <1>3 DEF SInv

LEMMA StepSType == STypeOK /\ [SNext]_svars => STypeOK'
<1> SUFFICES ASSUME STypeOK, [SNext]_svars PROVE STypeOK'
  OBVIOUS
<1> USE DEF STypeOK
<1>1. CASE Hopeless
  BY <1>1, AnswerType DEF Hopeless, processes
<1>2. CASE Start
  BY <1>2 DEF Start, Choose, Scripts, processes
<1>3. ASSUME NEW passed \in {{}, {"execution"}, {"execution", "string"}}, Harness(passed) \/ HarnessRetry(passed)
      PROVE STypeOK'
  <2>1. checks' \in [{"patched", "original"} -> SUBSET {"execution", "string"}]
    BY <1>3 DEF Harness, HarnessRetry
  <2>2. CASE Harness(passed)
    <3>1. at' \in {"retry", "returned"} /\ grade' \in Grades
      BY <2>2, AnswerType DEF Harness
    <3> QED BY <2>1, <2>2, <3>1 DEF Harness, processes
  <2>3. CASE HarnessRetry(passed)
    <3>1. Cardinality(passed) \in Nat
      <4>1. passed \subseteq {"execution"} /\ IsFiniteSet({"execution"})
        BY <2>3, FS_Singleton DEF HarnessRetry
      <4>2. IsFiniteSet(passed)
        BY <4>1, FS_Subset
      <4> QED BY <4>2, FS_CardinalityType
    <3>2. at' = "returned" /\ grade' \in Grades
      BY <2>3, <3>1, AnswerType DEF HarnessRetry
    <3> QED BY <2>1, <2>3, <3>2 DEF HarnessRetry, processes
  <2> QED BY <1>3, <2>2, <2>3
<1>17. CASE NoHarness
  BY <1>17, AnswerType DEF NoHarness, processes
<1>18. CASE CollectOther
  <2>1. at' = "returned" /\ grade' \in Grades
    BY <1>18, AnswerType DEF CollectOther
  <2> QED BY <1>18, <2>1, NothingIsAReport DEF CollectOther
<1>19. CASE PrintResult
  BY <1>19, EffectsAreReports DEF PrintResult
<1>4. CASE AfterReference
  BY <1>4, AnswerType DEF AfterReference, Scripts, processes
<1>5. CASE AfterGenerated
  BY <1>5, AnswerType, ShareType DEF AfterGenerated, processes
<1>6. CASE AfterTests
  <2>1. report["tests"].passed \in Nat /\ Total \in Nat
    BY DEF Reports, Scripts, Total
  <2> QED BY <1>6, <2>1, AnswerType DEF AfterTests, processes
<1>7. CASE AfterPlain
  BY <1>7, AnswerType DEF AfterPlain, processes
<1>8. ASSUME NEW o \in {"raised", "no job", "opened"}, OpenWorker(o) PROVE STypeOK'
  BY <1>8, AnswerType, ReturnType, NothingIsAReport DEF OpenWorker, processes
<1>9. ASSUME NEW ok \in BOOLEAN, AssignJob(ok) PROVE STypeOK'
  BY <1>9, ReturnType, NothingIsAReport DEF AssignJob
<1>10. ASSUME NEW kept \in BOOLEAN, Collect(kept) PROVE STypeOK'
  BY <1>10, ReturnType, NothingIsAReport DEF Collect
<1>11. CASE Expire
  BY <1>11 DEF Expire
<1>12. CASE Drain
  BY <1>12, ReturnType, NothingIsAReport DEF Drain
<1>13. CASE Execute
  BY <1>13, EffectsAreReports DEF Execute
<1>14. ASSUME NEW how, Misbehave(how) \/ Spawn(how) PROVE STypeOK'
  BY <1>14 DEF Misbehave, Spawn
<1>15. CASE HelperEnds
  BY <1>15 DEF HelperEnds
<1>16. CASE UNCHANGED svars
  BY <1>16 DEF svars
<1> QED BY <1>1, <1>2, <1>3, <1>4, <1>5, <1>6, <1>7, <1>8, <1>9, <1>10, <1>11,
           <1>12, <1>13, <1>14, <1>15, <1>16, <1>17, <1>18, <1>19 DEF SNext, Evaluates

(* A run that ends leaves the report of what was said, or an empty one.    *)
LEMMA ReturnKeeps ==
  ASSUME SInv, at \in {"open", "run", "drain"}, NEW what \in {said, Nothing}, Return(what),
         UNCHANGED <<script, did, printed, checks, grade>>
  PROVE ReportInv' /\ OnceInv' /\ GradeInv'
<1> USE NothingIsAReport DEF SInv, STypeOK
<1>1. said' = Nothing /\ at' = "judge" /\ report' = [report EXCEPT ![script] = what]
  BY DEF Return
<1>2. ReportInv'
  BY <1>1 DEF ReportInv
<1>3. OnceInv'
  BY <1>1 DEF OnceInv, Scripts
<1>4. GradeInv'
  BY <1>1 DEF GradeInv, FullScoreIsEarned
<1> QED BY <1>2, <1>3, <1>4

(* A call that ends without a full mark.                                   *)
LEMMA EndKeeps ==
  ASSUME SInv, at' = "returned", grade'.how = "raised" \/ grade'.matched # grade'.of,
         UNCHANGED <<script, said, report>>,
         at \notin {"run", "drain"},
         UNCHANGED <<did, printed>>
  PROVE ReportInv' /\ OnceInv' /\ GradeInv'
  BY DEF SInv, STypeOK, ReportInv, OnceInv, GradeInv, FullScoreIsEarned

LEMMA StepSafe == SInv /\ [SNext]_svars => ReportInv' /\ OnceInv' /\ GradeInv'
<1> SUFFICES ASSUME SInv, [SNext]_svars PROVE ReportInv' /\ OnceInv' /\ GradeInv'
  OBVIOUS
<1> USE NothingIsAReport DEF SInv, STypeOK
<1>1. CASE Hopeless
  BY <1>1, EndKeeps DEF Hopeless, Answer, processes
<1>2. CASE Start
  <2>1. ReportInv'
    BY <1>2 DEF Start, ReportInv, processes
  <2>2. OnceInv'
    BY <1>2 DEF Start, Choose, OnceInv, Scripts, processes
  <2>3. GradeInv'
    BY <1>2 DEF Start, GradeInv, FullScoreIsEarned
  <2> QED BY <2>1, <2>2, <2>3
<1>3. ASSUME NEW passed \in {{}, {"execution"}, {"execution", "string"}}, Harness(passed)
      PROVE ReportInv' /\ OnceInv' /\ GradeInv'
  <2>1. /\ at = "harness" /\ UNCHANGED <<script, said, report, did, printed>>
        /\ script = "harness" /\ checks'["patched"] = passed
    BY <1>3 DEF Harness, OnceInv, processes
  <2>2. CASE passed = Due /\ Answer(1, 1)
    <3>1. "execution" \in checks'["patched"] /\ at' = "returned"
      BY <2>1, <2>2 DEF Due, Answer
    <3>2. GradeInv'
      BY <2>1, <3>1 DEF GradeInv, FullScoreIsEarned
    <3> QED BY <2>1, <3>1, <3>2 DEF ReportInv, OnceInv, Scripts
  <2>3. CASE at' = "retry" /\ UNCHANGED grade
    <3>1. GradeInv'
      BY <2>1, <2>3 DEF GradeInv, FullScoreIsEarned
    <3> QED BY <2>1, <2>3, <3>1 DEF ReportInv, OnceInv, Scripts
  <2>4. CASE Answer(0, 1)
    BY <2>1, <2>4, EndKeeps DEF Answer
  <2> QED BY <1>3, <2>2, <2>3, <2>4 DEF Harness
<1>15. ASSUME NEW passed \in {{}, {"execution"}, {"execution", "string"}}, HarnessRetry(passed)
       PROVE ReportInv' /\ OnceInv' /\ GradeInv'
  <2>1. /\ at = "retry" /\ UNCHANGED <<script, said, report, did, printed>>
        /\ script = "harness" /\ checks'["original"] = passed /\ Answer(Cardinality(passed), 1)
    BY <1>15 DEF HarnessRetry, OnceInv, processes
  <2>2. CASE "execution" \in passed
    <3>1. at' = "returned"
      BY <2>1 DEF Answer
    <3>2. GradeInv'
      BY <2>1, <2>2, <3>1 DEF GradeInv, FullScoreIsEarned
    <3> QED BY <2>1, <3>1, <3>2 DEF ReportInv, OnceInv, Scripts
  <2>3. CASE passed = {}
    <3>1. Answer(0, 1)
      BY <2>1, <2>3, FS_EmptySet
    <3> QED BY <2>1, <3>1, EndKeeps DEF Answer
  <2> QED BY <1>15, <2>2, <2>3 DEF HarnessRetry
<1>16. CASE NoHarness
  <2>1. /\ at = "harness" /\ Raise /\ UNCHANGED <<script, said, report, did, printed>>
    BY <1>16 DEF NoHarness, processes
  <2>2. at' = "returned" /\ grade'.how = "raised"
    BY <2>1 DEF Raise, NoGrade
  <2> QED BY <2>1, <2>2, EndKeeps
<1>17. CASE CollectOther
  <2>1. /\ at = "run" /\ Raise /\ said' = Nothing /\ UNCHANGED <<script, report, did, printed>>
    BY <1>17 DEF CollectOther
  <2>2. at' = "returned" /\ grade'.how = "raised"
    BY <2>1 DEF Raise, NoGrade
  <2> QED BY <2>1, <2>2 DEF ReportInv, OnceInv, GradeInv, FullScoreIsEarned
<1>18. CASE PrintResult
  <2>1. /\ at = "run" /\ printed' = printed \cup {script} /\ ~report[script].ok
        /\ UNCHANGED <<at, script, report, did, grade>>
    BY <1>18 DEF PrintResult, OnceInv
  <2>2. ReportInv'
    BY <2>1 DEF ReportInv
  <2>3. OnceInv' /\ GradeInv'
    BY <2>1 DEF OnceInv, GradeInv, FullScoreIsEarned
  <2> QED BY <2>2, <2>3
<1>4. CASE AfterReference
  <2>1. UNCHANGED <<said, report, did, printed>> /\ at = "judge" /\ script = "reference"
    BY <1>4 DEF AfterReference, processes
  <2>2. CASE at' = "open" /\ script' = "generated" /\ grade' = grade /\ report["reference"].ok
    <3>1. ReportInv'
      BY <2>1, <2>2 DEF ReportInv
    <3>2. OnceInv'
      BY <2>1, <2>2 DEF OnceInv
    <3>3. GradeInv'
      BY <2>1, <2>2 DEF GradeInv, FullScoreIsEarned
    <3> QED BY <3>1, <3>2, <3>3
  <2>3. CASE Answer(0, 1) /\ script' = script
    BY <2>1, <2>3, EndKeeps DEF Answer
  <2> QED BY <1>4, <2>2, <2>3 DEF AfterReference
<1>5. CASE AfterGenerated
  <2>1. UNCHANGED <<script, said, report, did, printed>> /\ at = "judge" /\ script = "generated"
    BY <1>5 DEF AfterGenerated, processes
  <2>2. CASE Answer(0, 1)
    BY <2>1, <2>2, EndKeeps DEF Answer
  <2>3. CASE /\ report["generated"].ok /\ Outputs(report["reference"]) # {}
             /\ grade' = Share(report["reference"], report["generated"]) /\ at' = "returned"
    <3>1. printed = {} => did["reference"] = report["reference"] /\ did["generated"] = report["generated"]
      BY <2>1, <2>3 DEF ReportInv, OnceInv, Scripts
    <3>2. printed = {} => did["reference"].ok /\ did["generated"].ok /\ Outputs(did["reference"]) # {}
      BY <2>1, <2>3, <3>1 DEF OnceInv
    <3>3. printed = {} /\ grade'.matched = grade'.of =>
            \A k \in Outputs(did["reference"]) : did["generated"].state[k] = did["reference"].state[k]
      BY <2>3, <3>1, FullShare
    <3>4. FullScoreIsEarned'
      <4>1. Outputs(did["reference"])' = Outputs(did["reference"])
        BY <2>1 DEF Outputs
      <4> QED BY <2>1, <3>2, <3>3, <4>1 DEF FullScoreIsEarned
    <3>5. ReportInv' /\ OnceInv'
      BY <2>1, <2>3 DEF ReportInv, OnceInv
    <3> QED BY <2>3, <3>4, <3>5 DEF GradeInv
  <2> QED BY <1>5, <2>2, <2>3 DEF AfterGenerated
<1>6. CASE AfterTests
  <2>1. UNCHANGED <<task, script, said, report, did, printed>> /\ at = "judge" /\ script = "tests"
    BY <1>6 DEF AfterTests, processes
  <2>2. CASE Answer(0, 1)
    BY <2>1, <2>2, EndKeeps DEF Answer
  <2>3. CASE report["tests"].ok /\ Answer(report["tests"].passed, Total)
    <3>1. printed = {} => did["tests"] = report["tests"]
      BY <2>3 DEF ReportInv, Scripts
    <3>2. at' = "returned" /\ grade'.matched = report["tests"].passed /\ grade'.of = Total
      BY <2>3 DEF Answer
    <3>3. GradeInv'
      BY <2>1, <2>3, <3>1, <3>2 DEF GradeInv, FullScoreIsEarned, Total, Has
    <3>4. ReportInv' /\ OnceInv'
      BY <2>1, <3>2 DEF ReportInv, OnceInv
    <3> QED BY <3>3, <3>4
  <2> QED BY <1>6, <2>2, <2>3 DEF AfterTests
<1>7. CASE AfterPlain
  <2>1. UNCHANGED <<script, said, report, did, printed>> /\ at = "judge" /\ script = "plain"
    BY <1>7 DEF AfterPlain, processes
  <2>2. CASE ~report["plain"].ok
    BY <1>7, <2>1, <2>2, EndKeeps DEF AfterPlain, Answer
  <2>3. CASE report["plain"].ok
    <3>1. (printed = {} => did["plain"].ok) /\ at' = "returned"
      BY <1>7, <2>3 DEF AfterPlain, Answer, ReportInv, Scripts
    <3>2. GradeInv'
      BY <2>1, <3>1 DEF GradeInv, FullScoreIsEarned
    <3>3. ReportInv' /\ OnceInv'
      BY <2>1, <3>1 DEF ReportInv, OnceInv
    <3> QED BY <3>2, <3>3
  <2> QED BY <2>2, <2>3
<1>8. ASSUME NEW o \in {"raised", "no job", "opened"}, OpenWorker(o)
      PROVE ReportInv' /\ OnceInv' /\ GradeInv'
  <2>1. CASE o = "raised"
    BY <1>8, <2>1, EndKeeps DEF OpenWorker, Raise, NoGrade, processes
  <2>2. CASE o = "no job"
    BY <1>8, <2>2, ReturnKeeps DEF OpenWorker
  <2>3. CASE o = "opened"
    <3>1. /\ at = "open" /\ at' = "run"
          /\ UNCHANGED <<script, said, report, did, printed, grade>>
      BY <1>8, <2>3 DEF OpenWorker
    <3>2. GradeInv'
      BY <3>1 DEF GradeInv, FullScoreIsEarned
    <3> QED BY <3>1, <3>2 DEF ReportInv, OnceInv
  <2> QED BY <2>1, <2>2, <2>3
<1>9. ASSUME NEW ok \in BOOLEAN, AssignJob(ok)
      PROVE ReportInv' /\ OnceInv' /\ GradeInv'
  <2>1. CASE ok
    <3>1. UNCHANGED <<at, script, said, report, did, printed, grade>> /\ at = "run"
      BY <1>9, <2>1 DEF AssignJob
    <3>2. GradeInv'
      BY <3>1 DEF GradeInv, FullScoreIsEarned
    <3> QED BY <3>1, <3>2 DEF ReportInv, OnceInv
  <2>2. CASE ~ok
    BY <1>9, <2>2, ReturnKeeps DEF AssignJob
  <2> QED BY <2>1, <2>2
<1>10. ASSUME NEW kept \in BOOLEAN, Collect(kept)
       PROVE ReportInv' /\ OnceInv' /\ GradeInv'
  BY <1>10, ReturnKeeps DEF Collect
<1>11. CASE Expire
  <2>1. /\ at = "run" /\ at' = "drain"
        /\ UNCHANGED <<script, said, report, did, printed, grade>>
    BY <1>11 DEF Expire
  <2>2. GradeInv'
    BY <2>1 DEF GradeInv, FullScoreIsEarned
  <2> QED BY <2>1, <2>2 DEF ReportInv, OnceInv
<1>12. CASE Drain
  BY <1>12, ReturnKeeps DEF Drain
<1>13. CASE Execute
  <2>1. /\ at = "run" /\ ~report[script].ok /\ UNCHANGED <<at, script, report, printed, grade>>
        /\ \/ script \in printed /\ UNCHANGED <<said, did>>
           \/ did' = [did EXCEPT ![script] = said']
    BY <1>13 DEF Execute, OnceInv
  <2>2. ReportInv'
    BY <2>1 DEF ReportInv
  <2>3. OnceInv' /\ GradeInv'
    BY <2>1 DEF OnceInv, GradeInv, FullScoreIsEarned
  <2> QED BY <2>2, <2>3
<1>14. CASE \/ \E how \in {"hangs", "dead"} : Misbehave(how)
            \/ \E how \in {"piped", "detached"} : Spawn(how)
            \/ HelperEnds \/ UNCHANGED svars
  <2>1. UNCHANGED <<task, at, script, said, report, did, printed, checks, grade>>
    BY <1>14 DEF Misbehave, Spawn, HelperEnds, svars
  <2>2. ReportInv' /\ OnceInv'
    BY <2>1 DEF ReportInv, OnceInv
  <2>3. FullScoreIsEarned' = FullScoreIsEarned
    BY <2>1 DEF FullScoreIsEarned, Outputs, Total, Has
  <2> QED BY <2>1, <2>2, <2>3 DEF GradeInv
<1> QED BY <1>1, <1>2, <1>3, <1>4, <1>5, <1>6, <1>7, <1>8, <1>9, <1>10, <1>11,
           <1>12, <1>13, <1>14, <1>15, <1>16, <1>17, <1>18 DEF SNext, Evaluates

LEMMA SandboxInvariant == SSpec => []SInv
<1>1. SInv /\ [SNext]_svars => SInv'
  BY StepSType, StepSafe DEF SInv
<1> QED BY InitSInv, <1>1, PTL DEF SSpec

(* A full mark is one that the code earned, for every task of any kind,    *)
(* whatever the code does, short of writing the worker's result itself,    *)
(* and however its runs end.                                               *)
THEOREM FullMarks == SSpec => []FullScoreIsEarned
<1>1. SInv => FullScoreIsEarned
  BY DEF SInv, GradeInv
<1> QED BY SandboxInvariant, <1>1, PTL

-----------------------------------------------------------------------------
(* The proxy's slots: requests that are not read yet have no thread, and   *)
(* the holders, which are finitely many, and the permits make up the limit.*)
Places == {"none", "closed", "reading", "finish", "respond", "forward", "head", "stream", "error", "done"}

PInv ==
    /\ permits \in Nat /\ handler \in [Clients -> Places]
    /\ IsFiniteSet(Holders) /\ SlotsAccounted

LEMMA InitPInv == PInit => PInv
<1> SUFFICES ASSUME PInit PROVE PInv
    OBVIOUS
<1>1. Holders = {}
    BY DEF PInit, Holders, Held
<1> QED
    BY <1>1, FS_EmptySet, SlotAssumption DEF PInit, PInv, Places, SlotsAccounted

(* A step that lets nobody begin or end to hold a slot.                    *)
LEMMA SameHolders ==
    ASSUME PInv, handler' \in [Clients -> Places], UNCHANGED permits,
           \A c \in Clients : Held(c)' <=> Held(c)
    PROVE  PInv'
<1>1. Holders' = Holders
    BY DEF Holders
<1> QED
    BY <1>1 DEF PInv, SlotsAccounted

(* A thread moves from one place to another.                               *)
LEMMA MoveKeepsPInv ==
    ASSUME PInv, NEW c \in Clients, Held(c), NEW where \in Places \ {"none", "closed"},
           MoveTo(c, where), UNCHANGED permits
    PROVE  PInv'
<1>1. handler' = [handler EXCEPT ![c] = where] /\ handler \in [Clients -> Places]
    BY DEF MoveTo, PInv
<1>2. handler' \in [Clients -> Places]
    BY <1>1
<1>3. ASSUME NEW d \in Clients PROVE Held(d)' <=> Held(d)
    BY <1>1 DEF Held
<1> QED
    BY <1>2, <1>3, SameHolders

LEMMA ConnectKeepsPInv ==
    ASSUME PInv, NEW c \in Clients, NEW threadStarts, Connect(c, threadStarts)
    PROVE  PInv'
<1>1. handler \in [Clients -> Places] /\ handler[c] = "none" /\ ~Held(c)
    BY DEF PInv, Connect, Held
<1>2. CASE permits > 0 /\ threadStarts
    <2>1. permits' = permits - 1 /\ handler' = [handler EXCEPT ![c] = "reading"]
        BY <1>2 DEF Connect, MoveTo
    <2>2. Holders' = Holders \cup {c} /\ c \notin Holders
        BY <1>1, <2>1 DEF Holders, Held
    <2>3. IsFiniteSet(Holders') /\ Cardinality(Holders') = Cardinality(Holders) + 1
        BY <2>2, FS_AddElement DEF PInv
    <2>4. permits' \in Nat /\ handler' \in [Clients -> Places]
        BY <1>1, <1>2, <2>1 DEF PInv, Places
    <2>5. Cardinality(Holders) \in Nat
        BY FS_CardinalityType DEF PInv
    <2> QED
        BY <2>1, <2>3, <2>4, <2>5 DEF PInv, SlotsAccounted
<1>3. CASE ~(permits > 0 /\ threadStarts)
    <2>1. UNCHANGED permits /\ handler' = [handler EXCEPT ![c] = "closed"]
        BY <1>3 DEF Connect, MoveTo
    <2>2. handler' \in [Clients -> Places]
        BY <1>1, <2>1 DEF Places
    <2>3. ASSUME NEW d \in Clients PROVE Held(d)' <=> Held(d)
        BY <1>1, <2>1 DEF Held
    <2> QED
        BY <2>1, <2>2, <2>3, SameHolders
<1> QED
    BY <1>2, <1>3

LEMMA FinishKeepsPInv ==
    ASSUME PInv, NEW c \in Clients, Finish(c)
    PROVE  PInv'
<1>1. permits' = permits + 1 /\ handler' = [handler EXCEPT ![c] = "closed"]
      /\ handler[c] = "finish" /\ handler \in [Clients -> Places]
    BY DEF Finish, MoveTo, PInv
<1>2. Holders' = Holders \ {c} /\ c \in Holders
    BY <1>1 DEF Holders, Held
<1>3. IsFiniteSet(Holders') /\ Cardinality(Holders') = Cardinality(Holders) - 1
    BY <1>2, FS_RemoveElement DEF PInv
<1>4. permits' \in Nat /\ handler' \in [Clients -> Places]
    BY <1>1 DEF PInv, Places
<1>5. Cardinality(Holders) \in Nat
    BY FS_CardinalityType DEF PInv
<1> QED
    BY <1>1, <1>3, <1>4, <1>5 DEF PInv, SlotsAccounted

LEMMA HandlerStepKeepsPInv ==
    ASSUME PInv, NEW c \in Clients, HandlerStep(c)
    PROVE  PInv'
<1> USE DEF Places, Held
<1>1. ASSUME NEW kind \in {"broken", "local", "plain", "stream"}, ReadRequest(c, kind) PROVE PInv'
    <2> DEFINE where == CASE kind = "broken" -> "finish" [] kind = "local" -> "respond"
                          [] kind = "plain" -> "forward" [] kind = "stream" -> "head"
    <2>1. where \in {"finish", "respond", "forward", "head"}
        OBVIOUS
    <2>2. MoveTo(c, where) /\ UNCHANGED permits /\ Held(c)
        BY <1>1 DEF ReadRequest
    <2> QED
        BY <2>1, <2>2, MoveKeepsPInv
<1>2. CASE Forward(c) \/ Respond(c) \/ StreamHead(c)
    BY <1>2, MoveKeepsPInv DEF Forward, Respond, StreamHead
<1>3. CASE StreamEvent(c)
    <2>1. CASE UNCHANGED handler
        BY <1>3, <2>1, SameHolders DEF StreamEvent, PInv
    <2>2. CASE ~UNCHANGED handler
        BY <1>3, <2>2, MoveKeepsPInv DEF StreamEvent
    <2> QED
        BY <2>1, <2>2
<1>4. ASSUME NEW how \in {"whole", "lost", "malformed"}, StreamEnds(c, how) PROVE PInv'
    BY <1>4, MoveKeepsPInv DEF StreamEnds
<1>5. CASE ErrorEvent(c) \/ DoneEvent(c)
    BY <1>5, MoveKeepsPInv DEF ErrorEvent, DoneEvent
<1>6. CASE Finish(c)
    BY <1>6, FinishKeepsPInv
<1> QED
    BY <1>1, <1>2, <1>3, <1>4, <1>5, <1>6 DEF HandlerStep

(* The process dies with its threads, and a new one would begin with all   *)
(* permits.                                                                *)
LEMMA VanishKeepsPInv == ASSUME PInv, Vanish PROVE PInv'
<1>1. handler' = [c \in Clients |-> IF Held(c) THEN "closed" ELSE handler[c]] /\ permits' = MaxConcurrent
    BY DEF Vanish
<1>2. handler' \in [Clients -> Places]
    BY <1>1 DEF PInv, Places
<1>3. Holders' = {}
    BY <1>1 DEF Holders, Held
<1> QED
    BY <1>1, <1>2, <1>3, FS_EmptySet, SlotAssumption DEF PInv, SlotsAccounted

LEMMA NextPInv == PInv /\ [PNext]_pvars => PInv'
<1> SUFFICES ASSUME PInv, [PNext]_pvars PROVE PInv'
    OBVIOUS
<1>1. CASE UNCHANGED <<permits, handler>>
    BY <1>1 DEF PInv, SlotsAccounted, Holders, Held
<1>2. CASE StartProxy \/ Probe \/ Route \/ Listen
    <2>1. UNCHANGED <<permits, handler>>
        BY <1>2 DEF StartProxy, Probe, Route, Listen, server
    <2> QED
        BY <1>1, <2>1
<1>3. ASSUME NEW refused \in BOOLEAN, StopProxy(refused) PROVE PInv'
    BY <1>1, <1>3, VanishKeepsPInv DEF StopProxy, server
<1>4. CASE ProcessDies
    BY <1>4, VanishKeepsPInv DEF ProcessDies
<1>5. ASSUME NEW c \in Clients, NEW threadStarts \in BOOLEAN, Connect(c, threadStarts) PROVE PInv'
    BY <1>5, ConnectKeepsPInv
<1>6. ASSUME NEW c \in Clients, ClientLeaves(c) PROVE PInv'
    BY <1>1, <1>6 DEF ClientLeaves
<1>7. ASSUME NEW c \in Clients, HandlerStep(c) PROVE PInv'
    BY <1>7, HandlerStepKeepsPInv
<1>8. CASE UNCHANGED pvars
    BY <1>1, <1>8 DEF pvars
<1> QED
    BY <1>2, <1>3, <1>4, <1>5, <1>6, <1>7, <1>8 DEF PNext

(* However many requests there are, every slot of the proxy is free or     *)
(* held by a thread that is at work.                                       *)
THEOREM SlotsAreKept == PSpec => []SlotsAccounted
<1>1. PInv => SlotsAccounted
    BY DEF PInv
<1> QED
    BY <1>1, InitPInv, NextPInv, PTL DEF PSpec
=============================================================================
