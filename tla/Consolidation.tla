---------------------------- MODULE Consolidation ----------------------------
(***************************************************************************)
(* The overview that src/consolidate_results.py makes of what the runs of  *)
(* many weeks left in one directory: a table per run of DS1000 and         *)
(* CoderEval, and folders of EvalPlus, LM-Eval and the agentic benchmark   *)
(* that are named after the model.  Whose result goes into whose row is    *)
(* decided by these names and by times.                                    *)
(*                                                                         *)
(* Names are the token sequences of module Identity, and no word is the    *)
(* beginning of another.  A score remembers the model it was measured of,  *)
(* as it is named in files, and whether it was read from a file at all.    *)
(* The name a row is shown under, confidence intervals, run times and      *)
(* measurements are left out.                                              *)
(***************************************************************************)
EXTENDS Identity

CONSTANTS RunNames,     \* the models that are measured
          Stamp(_),     \* the time in a folder's name
          Pipelines,    \* ["evalplus", "lmeval", "agentic" -> their benchmarks]
          Values,       \* scores
          Sizes,        \* sample sizes
          Installed,    \* the models get_available_models lists
          CommandLines, \* [models, sample, since, until, allRuns, runs, merge, all, exclude]
          MaxRuns       \* bound: runs of a benchmark

ASSUME OverviewAssumption ==
    /\ MaxRuns \in Nat /\ Values \subseteq Nat /\ Sizes \subseteq Nat \ {0}
    /\ DOMAIN Pipelines = {"evalplus", "lmeval", "agentic"}

VARIABLES runs,     \* benchmarks run so far; also the time
          tables,   \* tasks_*.csv: a set of [at, kind, key, sample, score]
          folders,  \* per pipeline, [names of folders -> [touched, subs, inside]]
          overview  \* the rows of an overview, until its program ends

cvars == <<runs, tables, folders, overview>>

Tabled == {"DS1000", "CoderEval"}
NoResult == [v |-> "no score"]       \* what cannot be read, or has no score
Only(x, y) == [z \in {x} |-> y]
Over(f, g) == [x \in DOMAIN f \cup DOMAIN g |-> IF x \in DOMAIN f THEN f[x] ELSE g[x]]

(* "/" becomes "_" in the names of files and folders, the joint that words *)
(* have anyway.                                                            *)
Flat(name) == SelectSeq(name, LAMBDA t : t # "/")

(* A name is a sequence with no time in it.                                *)
WellNamed(s) ==
    /\ s \in Seq({s[i] : i \in DOMAIN s})
    /\ \A n \in 0..MaxRuns : Stamp(n) # "@" /\ \A i \in DOMAIN s : s[i] # Stamp(n)
ASSUME NamesAssumption ==
    \A name \in RunNames \cup UNION {cl.models : cl \in CommandLines} : WellNamed(Flat(name))

CInit ==
    /\ runs = 0 /\ tables = {} /\ overview = << >>
    /\ folders = [p \in DOMAIN Pipelines |-> << >>]

-----------------------------------------------------------------------------
(* What the runs leave.                                                    *)

Results(name) == {NoResult} \cup {[of |-> Flat(name), v |-> v, read |-> TRUE] : v \in Values}

Measured == runs < MaxRuns /\ runs' = runs + 1 /\ overview = << >> /\ UNCHANGED overview

(* Every row of a table can be without a score.                            *)
CustomRun ==
    /\ Measured
    /\ \E name \in RunNames, kind \in Tabled, size \in Sizes : \E result \in Results(name) :
          tables' = tables \cup {[at |-> runs, kind |-> kind, key |-> name, sample |-> size, score |-> result]}
    /\ UNCHANGED folders

(* A folder's time is that of the last entry made directly in it; what is  *)
(* written into an old entry does not show.                                *)
Touch(p, dir, sub, inside) ==
    LET old == IF dir \in DOMAIN folders[p] THEN folders[p][dir] ELSE [touched |-> runs, subs |-> {}, inside |-> << >>]
        new == [touched |-> IF sub \in old.subs THEN old.touched ELSE runs,
                subs |-> old.subs \cup {sub}, inside |-> Over(inside, old.inside)]
    IN  folders' = [folders EXCEPT ![p] = Over(Only(dir, new), @)]

Named(bench, result) == IF result = NoResult THEN << >> ELSE Only(bench, result)

(* run_evalplus makes the folder of the dataset first.  Before it    *)
(* evaluates it deletes the *.eval_results.json there; its own evaluator   *)
(* writes ..._eval_results.json, which the overview does not look for.     *)
EvalPlusRun ==
    /\ Measured
    /\ \E name \in RunNames, set \in Pipelines["evalplus"], evaluates \in BOOLEAN :
          Touch("evalplus", Flat(name), set, IF evaluates THEN Only(set, NoResult) ELSE << >>)
    /\ UNCHANGED tables

(* Results of EvalPlus's own program, as earlier launchers left them.      *)
EvalPlusItself ==
    /\ Measured
    /\ \E name \in RunNames, set \in Pipelines["evalplus"] : \E result \in Results(name) \ {NoResult} :
          Touch("evalplus", Flat(name), set, Only(set, result))
    /\ UNCHANGED tables

(* lm_eval writes into the folder of the model inside the folder, with a   *)
(* name of its own for a run that a manifest binds; a file that cannot be  *)
(* read lets an older one of the same task show through.                   *)
LmEvalRun ==
    /\ Measured
    /\ \E name \in RunNames, task \in Pipelines["lmeval"], bound \in BOOLEAN : \E result \in Results(name) :
          Touch("lmeval", IF bound THEN Append(Flat(name), Stamp(runs)) ELSE Flat(name),
                IF result = NoResult THEN "." ELSE "model", Named(task, result))
    /\ UNCHANGED tables

(* Each agentic run writes a file of its own, or none.                     *)
AgenticRun ==
    /\ Measured
    /\ \E name \in RunNames, wrote \in BOOLEAN : \E result \in Results(name) :
          Touch("agentic", Flat(name), IF wrote THEN ToString(runs) ELSE ".",
                IF wrote THEN Only("Agentic", result) ELSE << >>)
    /\ UNCHANGED tables

-----------------------------------------------------------------------------
(* find_latest_csvs.                                                       *)

(* _ts_filter, and the least sample size; 0 is no limit.                   *)
Within(t, cl) ==
    /\ t.at >= cl.since /\ (cl.until # 0 => t.at <= cl.until)
    /\ t.sample >= cl.sample

Newest(ts) == {t \in ts : \A u \in ts : (u.kind = t.kind /\ Flat(u.key) = Flat(t.key)) => u.at <= t.at}
LastRunOf(key, ts) == Max({t.at : t \in {u \in ts : Flat(u.key) = key}})

(* Of the N models measured last, of all models, or what the very last run *)
(* wrote.                                                                  *)
LastModels(n, ts) ==
    {t \in Newest(ts) :
       Cardinality({k \in {Flat(u.key) : u \in ts} : LastRunOf(k, ts) > LastRunOf(Flat(t.key), ts)}) < n}

LatestTables(cl) ==
    LET ts == {t \in tables : Within(t, cl)} IN
    IF cl.runs > 0 THEN LastModels(cl.runs, ts)
    ELSE IF cl.allRuns THEN Newest(ts)
    ELSE {t \in ts : \A u \in ts : u.at <= t.at}

(* A table without a quant in its key stands for every quant of the model. *)
(* Where several fit, the order of the directory decides: quantless says   *)
(* whether it names those tables first.                                    *)
Fits(t, key) == Flat(t.key) = key \/ (QuantOf(t.key) = Absent /\ Flat(t.key) = Base(key))
TableFor(kind, key, ts, quantless) ==
    LET fit  == {t \in ts : t.kind = kind /\ Fits(t, key)}
        pref == {t \in fit : (QuantOf(t.key) = Absent) = quantless}
    IN  IF pref # {} THEN pref ELSE fit

-----------------------------------------------------------------------------
(* _find_newest_by_mtime.                                                  *)

(* Mutant of FolderCandidates: any model whose name begins like this one.  *)
X_AnySuffix(dirs, key) == {d \in dirs : IsPrefix(key, d) \/ IsPrefix(Base(key), d)}

(* Folders whose name begins with the key, and those of the model without  *)
(* a quant or with any quant.                                              *)
FolderCandidates(dirs, key) ==
    {d \in dirs : \/ IsPrefix(key, d)
                  \/ Base(key) # key /\ (d = Base(key) \/ IsPrefix(Append(Base(key), "@"), d))}

FolderFor(p, key) ==
    LET found == FolderCandidates(DOMAIN folders[p], key)
    IN  {folders[p][d] : d \in {e \in found : \A o \in found : folders[p][o].touched <= folders[p][e].touched}}

Inside(p, key) == IF FolderFor(p, key) = {} THEN << >> ELSE (CHOOSE f \in FolderFor(p, key) : TRUE).inside

Readable(inside) == [b \in {c \in DOMAIN inside : inside[c] # NoResult} |-> inside[b]]

(* try_read_evalplus and its use in read_data: of two datasets the one     *)
(* without a result is given a 0.                                          *)
ReadEvalplus(key) ==
    LET got == Readable(Inside("evalplus", key)) IN
    IF got = << >> THEN << >>
    ELSE Over(got, [b \in Pipelines["evalplus"] |-> [of |-> key, v |-> 0, read |-> FALSE]])

ReadLmeval(key) == Inside("lmeval", key)

(* read_agentic: the newest file, and no other when it cannot be read.     *)
ReadAgentic(key) == Readable(Inside("agentic", key))

-----------------------------------------------------------------------------
(* compute_category_scores.  Values are in twelfths, as a category has at  *)
(* most four benchmarks.                                                   *)

Categories == [coding |-> {"HumanEval+", "MBPP+", "DS1000", "CoderEval"},
               knowledge |-> {"ARC-Challenge", "HellaSwag", "TruthfulQA"},
               math |-> {"MATH-500"}, agentic |-> {"Agentic", "IFEval"}]
Weights == [coding |-> 35, math |-> 25, agentic |-> 25, knowledge |-> 15]

In(cat, scores) == Categories[cat] \cap DOMAIN scores
With(scores) == {cat \in DOMAIN Categories : In(cat, scores) # {}}

CategoryScore(cat, scores) ==
    (12 * SumFunction([b \in In(cat, scores) |-> scores[b].v])) \div Cardinality(In(cat, scores))

(* Mutant of Overall: what was not measured counts as 0.                   *)
X_FullWeight(scores) ==
    [sum |-> SumFunction([cat \in With(scores) |-> Weights[cat] * CategoryScore(cat, scores)]), of |-> 100]

Overall(scores) ==
    [sum |-> SumFunction([cat \in With(scores) |-> Weights[cat] * CategoryScore(cat, scores)]),
     of  |-> SumFunction([cat \in With(scores) |-> Weights[cat]])]

-----------------------------------------------------------------------------
(* read_data.                                                              *)

(* The models given, or those of the tables and folders, as far as they    *)
(* are installed.                                                          *)
ModelKeys(cl, ts) ==
    LET tabled == {Flat(t.key) : t \in ts}
        found  == tabled \cup {d \in UNION {DOMAIN folders[p] : p \in DOMAIN folders} : cl.sample = 0 \/ d \in tabled}
    IN  IF cl.models # {} THEN {Flat(m) : m \in cl.models}
        ELSE IF cl.merge \/ cl.all \/ Installed = {} THEN found
        ELSE found \cap {Flat(m) : m \in Installed}

Custom(key, ts, quantless) ==
    LET of == [kind \in {k \in Tabled : TableFor(k, key, ts, quantless) # {}} |->
                  (CHOOSE t \in TableFor(kind, key, ts, quantless) : TRUE).score]
    IN  Readable(of)

BenchScores(key, ts, cl, quantless) ==
    LET all == Over(Over(Custom(key, ts, quantless), ReadEvalplus(key)), Over(ReadLmeval(key), ReadAgentic(key)))
    IN  [b \in DOMAIN all \ cl.exclude |-> all[b]]

Row(scores) == [scores |-> scores, overall |-> Overall(scores)]

(* --merge without --runs means all runs.                                  *)
Merged(cl) == [cl EXCEPT !.allRuns = @ \/ (cl.merge /\ cl.runs = 0)]

MakeOverview ==
    /\ overview = << >>
    /\ \E cl \in CommandLines, quantless \in BOOLEAN :
          LET ts == LatestTables(Merged(cl)) IN
          overview' = [key \in ModelKeys(cl, ts) |-> Row(BenchScores(key, ts, cl, quantless))]
    /\ UNCHANGED <<runs, tables, folders>>

End == overview # << >> /\ overview' = << >> /\ UNCHANGED <<runs, tables, folders>>

CNext == CustomRun \/ LmEvalRun \/ AgenticRun \/ EvalPlusRun \/ EvalPlusItself \/ MakeOverview \/ End

CSpec == CInit /\ [][CNext]_cvars

-----------------------------------------------------------------------------
(* The row of a model and quant has no score of another model: other names *)
(* may begin like this one (_find_newest_by_mtime, lines 799-806).         *)
ForeignNeverCounted ==
    \A key \in DOMAIN overview : QuantOf(key) # Absent =>
        \A b \in DOMAIN overview[key].scores : Base(overview[key].scores[b].of) = Base(key)

(* The benchmarks that count in an overall score, and those with a score   *)
(* that was read.                                                          *)
Counted(scores) == UNION {In(cat, scores) : cat \in DOMAIN Categories}
Read(scores) == {b \in Counted(scores) : scores[b].read}

(* The overall score is a mean of what was read: never above the highest   *)
(* score, never below the lowest as long as read_data has not put in a 0,  *)
(* and there is one as soon as something counts: a benchmark that is       *)
(* excluded or that nothing was read of does not help, and does not divide *)
(* by 0 (compute_category_scores).                                         *)
OverallIsFair ==
    \A key \in DOMAIN overview :
        LET o == overview[key].overall
            s == overview[key].scores
        IN  /\ (o.of = 0) = (Counted(s) = {})
            /\ \A v \in {s[b].v : b \in Read(s)} :
                  /\ (\A b \in Read(s) : s[b].v <= v) => o.sum <= 12 * v * o.of
                  /\ Read(s) = Counted(s) /\ (\A b \in Read(s) : s[b].v >= v) => o.sum >= 12 * v * o.of

(* What is missing does not hurt either ("If a category has only partial   *)
(* data (e.g., only HumanEval+ but not MBPP+), available benchmarks are    *)
(* scaled up proportionally", compute_category_scores): no overall score   *)
(* below the lowest score that was read.  Violated: read_data puts in a 0. *)
MissingIsScaled ==
    \A key \in DOMAIN overview :
        LET o == overview[key].overall
            s == overview[key].scores
        IN  \A v \in {s[b].v : b \in Read(s)} :
               (\A b \in Read(s) : s[b].v >= v) => o.sum >= 12 * v * o.of

(* The row of a quant that was measured falls back on other folders only   *)
(* where that quant has no result of its own (_find_newest_by_mtime:       *)
(* "Falls back through").                                                  *)
OwnFolderFirst ==
    \A name \in RunNames, p \in DOMAIN Pipelines :
        LET key == Flat(name) IN
        /\ QuantOf(name) # Absent /\ key \in DOMAIN overview /\ key \in DOMAIN folders[p]
        /\ Readable(folders[p][key].inside) # << >>
        => \A b \in Pipelines[p] \cap DOMAIN overview[key].scores :
              LET of == overview[key].scores[b].of
              IN  Base(of) = Base(key) /\ QuantOf(of) = QuantOf(key)
=============================================================================
