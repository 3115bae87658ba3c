------------------------------ MODULE TaskPool ------------------------------
(***************************************************************************)
(* One run of the custom benchmark process (src/custom_benchmark.py, main) *)
(* for one model and one benchmark: the tasks are loaded and selected, a   *)
(* pool of threads or a plain loop has them answered, a sampler thread     *)
(* measures meanwhile, and rows and averages are written                   *)
(* (src/csv_writer.py).  How one answer comes about is module Generation;  *)
(* how its code is judged is module Sandbox.                               *)
(*                                                                         *)
(* A measurement is "own" if it was taken in the window in which it is     *)
(* recorded, and "stale" if it was taken before that window opened.        *)
(***************************************************************************)
EXTENDS Integers, Sequences, FiniteSets, SequencesExt

CONSTANTS Dataset,       \* the file's tasks: a Seq of [id, group, broken]; group 0 is none
          MaxTasks,      \* MAX_TASKS_PER_BENCHMARK
          SampleSizes,   \* --sample-size
          SequentialUpTo,\* largest sample size without a pool: 5 in the code
          Workers,       \* threads of the pool: 4 in the code
          SelectedIds,   \* --selected-task-ids: a set of Seqs, Unbound if there are none
          Replies        \* what generate_answer may return

ASSUME PoolAssumption ==
    /\ Workers \in Nat \ {0} /\ SampleSizes \subseteq Nat \ {0}
    /\ \A ids \in SelectedIds : ids \in Seq({ids[n] : n \in DOMAIN ids})

VARIABLES plan,     \* the arguments: [ids, sample]
          chosen,   \* the tasks of this run, in order
          stage,    \* where the main thread is
          next,     \* index of the next task nobody has begun
          busy,     \* indices of the tasks at work
          finished, \* their results, in the order in which they came
          rows,     \* results, as _finalize collects them
          sampling, \* Monitor._is_sampling
          sampler,  \* the latest sampler thread: "none", "loop", "own", "ended"
          older,    \* samplers that outlived the join: a subset of {"loop", "own", "stale"}
          peak,     \* Monitor._peak: what it was computed from
          outlived, \* history: some sampler outlived its join
          csv,      \* the rows of the per-task file
          marker,   \* [MANIFEST_TASK_IDS]: the ids printed, << >> if none were
          average   \* the row of the per-model file: [sum, of], of = 0 if there is no average

tvars == <<plan, chosen, stage, next, busy, finished, rows, sampling, sampler, older, peak,
           outlived, csv, marker, average>>

Unbound == <<"unbound">>
NoAverage == [sum |-> 0, of |-> 0]

TInit ==
    /\ plan \in [ids : SelectedIds, sample : SampleSizes]
    /\ chosen = << >> /\ stage = "load" /\ next = 1 /\ busy = {} /\ finished = << >> /\ rows = << >>
    /\ sampling = FALSE /\ sampler = "none" /\ older = {} /\ peak = {} /\ outlived = FALSE
    /\ csv = << >> /\ marker = << >> /\ average = NoAverage

threads == <<sampling, sampler, older, peak, outlived>>
work == <<next, busy, finished>>
output == <<csv, marker, average>>

-----------------------------------------------------------------------------
(* Which tasks.                                                            *)

Loaded == SelectSeq(SubSeq(Dataset, 1, MaxTasks), LAMBDA t : ~t.broken)
Picks(tasks, n) == {s \in [1..n -> ToSet(tasks)] : Cardinality(ToSet(s)) = n}
GroupsOf(tasks) == SetToSortSeq({t.group : t \in ToSet(tasks)} \ {0}, <)
CeilDiv(a, b) == (a + b - 1) \div b
AtMost(a, b) == IF a < b THEN a ELSE b

(* subsample_tasks: of each group the same number, tasks without a group   *)
(* only if no task has one.                                                *)
Subsamples(tasks, n) ==
    LET groups == GroupsOf(tasks)
        Members(g) == SelectSeq(tasks, LAMBDA t : t.group = g)
        share == CeilDiv(n, Len(groups))
        PerGroup == {s \in [DOMAIN groups -> UNION {Picks(tasks, k) : k \in 0..share}] :
                        \A g \in DOMAIN groups : s[g] \in Picks(Members(groups[g]), AtMost(share, Len(Members(groups[g]))))}
    IN IF n >= Len(tasks) THEN {tasks}
       ELSE IF groups = << >> THEN Picks(tasks, n)
       ELSE UNION {IF Len(FlattenSeq(s)) > n THEN Picks(FlattenSeq(s), n) ELSE {FlattenSeq(s)} : s \in PerGroup}

(* _select_manifest_tasks.                                                 *)
ManifestFits(tasks, ids, n) ==
    /\ Cardinality(ToSet(ids)) = Len(ids) /\ Len(ids) <= n
    /\ ToSet(ids) \subseteq {t.id : t \in ToSet(tasks)}

Bound == plan.ids # Unbound
TaskOf(id) == CHOOSE t \in ToSet(Loaded) : t.id = id

Load ==
    /\ stage = "load"
    /\ IF Bound
       THEN IF ManifestFits(Loaded, plan.ids, plan.sample)
            THEN chosen' = [i \in DOMAIN plan.ids |-> TaskOf(plan.ids[i])] /\ stage' = "collect"
            ELSE stage' = "aborted" /\ UNCHANGED chosen
       ELSE chosen' \in Subsamples(Loaded, plan.sample) /\ stage' = "collect"
    /\ UNCHANGED <<plan, work, rows, threads, output>>

-----------------------------------------------------------------------------
(* What a reply is worth.                                                  *)

FirstOf(s) == IF \A n \in DOMAIN s : s[n] = "" THEN "" ELSE SelectSeq(s, LAMBDA c : c # "")[1]

(* extract_code: the field of a structured answer, the last fence, a block *)
(* at the top level, single statements, or all of it if it looks like code.*)
Extracted(reply) ==
    IF reply.structured /\ reply.field # "" THEN reply.field
    ELSE IF reply.fences # << >> THEN Last(reply.fences)
    ELSE FirstOf(<<reply.block, reply.statements, reply.dense>>)

(* The last fence can be empty; then the first one counts.                 *)
CodeIn(reply) ==
    IF Extracted(reply) # "" THEN Extracted(reply)
    ELSE IF reply.fences # << >> THEN Head(reply.fences) ELSE reply.statements

(* classify_output.                                                        *)
Classified(reply) ==
    CASE reply.text = "" -> "empty"
      [] reply.text # "" /\ reply.structured ->
            IF ~reply.json THEN "json_invalid" ELSE IF reply.field # "" THEN "json_ok" ELSE "json_missing_code"
      [] OTHER -> IF reply.fences # << >> THEN "fenced" ELSE "bare"

(* _call_and_evaluate: no answer, a chain of thought alone and the prompt  *)
(* itself are worth nothing; else the code is judged (module Sandbox).     *)
Outcomes(reply) ==
    IF reply.text = "none" THEN {<<"empty", 0>>}
    ELSE IF reply.text = "" /\ reply.thinking THEN {<<"thinking_only", 0>>}
    ELSE IF reply.text = "echo" THEN {<<"prompt_echo", 0>>}
    ELSE {<<Classified(reply), s>> : s \in IF CodeIn(reply) = "" THEN {0} ELSE {0, 1}}

(* run_task asks and judges; whatever goes wrong there, _run_single makes  *)
(* a result of it.                                                         *)
Results == {[status |-> o[1], score |-> o[2]] : o \in UNION {Outcomes(reply) : reply \in Replies}}
           \cup {[status |-> "empty", score |-> 0]}

-----------------------------------------------------------------------------
(* Metrics: each look asks nvidia-smi, whose time-out is not caught.       *)

Parallel == plan.sample > SequentialUpTo

CollectorStarts ==
    /\ stage = "collect" /\ stage' = (IF chosen = << >> /\ ~Parallel THEN "sum" ELSE "window")
    /\ UNCHANGED <<plan, chosen, work, rows, threads, output>>

(* The benchmark has "completely failed": no result survives.              *)
MetricsFail ==
    /\ stage \in {"collect", "sum"} \cup (IF Parallel THEN {"final"} ELSE {"window"})
    /\ stage' = "confirm" /\ rows' = << >>
    /\ UNCHANGED <<plan, chosen, work, threads, output>>

-----------------------------------------------------------------------------
(* The sampler thread and its window.                                      *)

(* start_sampling: threads that still run go on in the new window.         *)
OpenWindow ==
    /\ stage = "window" /\ stage' = "run"
    /\ sampling' = TRUE /\ peak' = {} /\ sampler' = "loop"
    /\ older' = {IF s = "loop" THEN "loop" ELSE "stale" : s \in older \cup ({sampler} \ {"none", "ended"})}
    /\ UNCHANGED <<plan, chosen, work, rows, outlived, output>>

SamplerMeasures ==
    /\ sampler = "loop" /\ sampler' = (IF sampling THEN "own" ELSE "ended")
    /\ UNCHANGED <<plan, chosen, stage, work, rows, sampling, older, peak, outlived, output>>

SamplerRecords ==
    /\ sampler = "own" /\ sampler' = "loop" /\ peak' = peak \cup {"own"}
    /\ UNCHANGED <<plan, chosen, stage, work, rows, sampling, older, outlived, output>>

OlderSteps ==
    /\ \E s \in older :
         IF s = "loop"
         THEN older' = (older \ {s}) \cup (IF sampling THEN {"own"} ELSE {}) /\ UNCHANGED peak
         ELSE older' = (older \ {s}) \cup {"loop"} /\ peak' = peak \cup {s}
    /\ UNCHANGED <<plan, chosen, stage, work, rows, sampling, sampler, outlived, output>>

(* stop_sampling: the join may time out.                                   *)
StopSampling ==
    /\ stage = "run" /\ busy = {} /\ next > (IF Parallel THEN Len(chosen) ELSE Len(rows) + 1)
    /\ sampling' = FALSE /\ stage' = "join"
    /\ UNCHANGED <<plan, chosen, work, rows, sampler, older, peak, outlived, output>>

(* Mutant of Collected: results in the order in which they came.           *)
X_AsCompleted(results) == results

(* pool.map: results in the order of the tasks.                            *)
Collected(results) ==
    [i \in DOMAIN results |-> results[CHOOSE k \in DOMAIN results : results[k].task = chosen[i].id]]

(* _finalize, for the one task of the window or for all of the pool's.     *)
Finalized == [i \in DOMAIN finished |-> [index |-> i, result |-> Collected(finished)[i],
                                         peak |-> IF i > Len(rows) THEN peak ELSE rows[i].peak]]

JoinSampler ==
    /\ stage = "join" /\ stage' = "final"
    /\ outlived' = (outlived \/ sampler # "ended")
    /\ rows' = Finalized /\ peak' = {}
    /\ UNCHANGED <<plan, chosen, work, sampling, sampler, older, output>>

WindowDone ==
    /\ stage = "final" /\ stage' = (IF Len(rows) = Len(chosen) THEN "sum" ELSE "window")
    /\ UNCHANGED <<plan, chosen, work, rows, threads, output>>

-----------------------------------------------------------------------------
(* The tasks.                                                              *)

TakeTask ==
    /\ stage = "run" /\ next <= Len(chosen)
    /\ IF Parallel THEN Cardinality(busy) < Workers ELSE next = Len(rows) + 1
    /\ busy' = busy \cup {next} /\ next' = next + 1
    /\ UNCHANGED <<plan, chosen, stage, finished, rows, threads, output>>

TaskReturns(i) ==
    /\ i \in busy /\ busy' = busy \ {i}
    /\ \E r \in Results :
         finished' = Append(finished, [task |-> chosen[i].id, status |-> r.status, score |-> r.score])
    /\ UNCHANGED <<plan, chosen, stage, next, rows, threads, output>>

-----------------------------------------------------------------------------
(* What is written.                                                        *)

Average(results) ==
    [sum |-> FoldSeq(LAMBDA r, n : r.result.score + n, 0, results), of |-> Len(results)]

Summarise ==
    /\ stage = "sum" /\ stage' = "confirm" /\ average' = Average(rows)
    /\ UNCHANGED <<plan, chosen, work, rows, threads, csv, marker>>

(* _confirmed_manifest_task_ids looks at the indices.                      *)
Confirms(results) == {r.index : r \in ToSet(results)} = DOMAIN chosen /\ Len(results) = Len(chosen)

ConfirmTasks ==
    /\ stage = "confirm"
    /\ IF Bound /\ ~Confirms(rows) THEN stage' = "aborted" /\ UNCHANGED marker
       ELSE stage' = "write" /\ marker' = IF Bound THEN [i \in DOMAIN chosen |-> chosen[i].id] ELSE << >>
    /\ UNCHANGED <<plan, chosen, work, rows, threads, csv, average>>

(* write_per_task_csv, if there is a row; a file that cannot be written    *)
(* ends the process.                                                       *)
WriteRows(fails) ==
    /\ stage = "write"
    /\ IF fails THEN stage' = "aborted" /\ UNCHANGED csv ELSE stage' = "model" /\ csv' = rows
    /\ UNCHANGED <<plan, chosen, work, rows, threads, marker, average>>

WriteModel(fails) ==
    /\ stage = "model" /\ stage' = IF fails THEN "aborted" ELSE "ended"
    /\ UNCHANGED <<plan, chosen, work, rows, threads, output>>

TNext ==
    \/ Load \/ CollectorStarts \/ MetricsFail
    \/ OpenWindow \/ SamplerMeasures \/ SamplerRecords \/ OlderSteps \/ StopSampling \/ JoinSampler \/ WindowDone
    \/ TakeTask \/ \E i \in 1..Len(chosen) : TaskReturns(i)
    \/ Summarise \/ ConfirmTasks \/ \E fails \in BOOLEAN : WriteRows(fails) \/ WriteModel(fails)

TSpec == TInit /\ [][TNext]_tvars

-----------------------------------------------------------------------------
(* However the threads of the pool finish, every row of the file belongs   *)
(* to the task of its index, each task has one, the ids that are confirmed *)
(* to the launcher are those of the rows, and a peak was measured while    *)
(* its own tasks ran unless a sampler hung past its join.                  *)
RowsAreTheirTasks ==
    /\ csv # << >> => Len(csv) = Len(chosen)
    /\ \A i \in DOMAIN csv :
         /\ csv[i].index = i /\ csv[i].result.task = chosen[i].id
         /\ (csv[i].peak \subseteq {"own"} \/ outlived)
    /\ marker # << >> => marker = plan.ids /\ marker = [i \in DOMAIN rows |-> rows[i].result.task]
=============================================================================
