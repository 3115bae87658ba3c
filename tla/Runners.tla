------------------------------ MODULE Runners -------------------------------
(***************************************************************************)
(* The four benchmark runners of src/run_benchmarks.py, as one launcher    *)
(* after the other calls them for one model: run_evalplus, run_lmeval,     *)
(* run_agentic and run_custom_benchmark, with the files they leave.        *)
(*                                                                         *)
(* A call names the tasks of a comparison manifest, or draws its own.  The *)
(* question is what a score was computed from: the EvalPlus samples of a   *)
(* model lie in one file per dataset, to which code generation that timed  *)
(* out goes on appending; without a manifest the LM-Eval results of a      *)
(* model lie in one directory; child processes are killed at any point.    *)
(*                                                                         *)
(* A sample is [task, by]: the number of the call that generated it.  A    *)
(* score is the sequence of the samples it is the mean of, << >> if none.  *)
(***************************************************************************)
EXTENDS Integers, Sequences, FiniteSets, SequencesExt

CONSTANTS Tasks,       \* task ids of the dataset, in its order: a Seq
          Manifests,   \* selected_ids of the comparison manifests: a set of Seqs
          SampleSize,  \* --sample-size
          MaxCalls     \* bound: calls in one behaviour

ASSUME SampleAssumption == SampleSize \in 1..Len(Tasks) /\ MaxCalls \in Nat
ASSUME SequencesAssumption ==
    \A ids \in Manifests \cup {Tasks} : ids \in Seq({ids[n] : n \in DOMAIN ids})

VARIABLES calls,    \* calls made so far
          call,     \* the call at work: [kind, ids, selected, free, pc, ...]
          gen,      \* the code generation its caller waits for
          strays,   \* code generations nobody waits for any more
          samples,  \* local-model_openai_temp_*.jsonl; no file is << >>
          results,  \* results_*.json per output directory, oldest first
          logs,     \* samples_*.jsonl per output directory
          child,    \* what the child process of the call has done: [docs, wrote, rc]
          score,    \* what the score of the call is computed from
          answer,   \* "none", "nothing", "raised" or "result"
          over      \* the launcher ends

rvars == <<calls, call, gen, strays, samples, results, logs, child, score, answer, over>>

Free == <<"drawn">>            \* no manifest: selected_task_ids is None
TaskSet == {Tasks[n] : n \in DOMAIN Tasks}
Ids(rows) == [n \in DOMAIN rows |-> rows[n].task]
Distinct(s) == Cardinality(ToSet(s)) = Len(s)
Made(tasks, n) == [i \in DOMAIN tasks |-> [task |-> tasks[i], by |-> n]]

Kinds == {"evalplus", "lmeval", "agentic", "custom"}
NoCall == [kind |-> "none", ids |-> Free, selected |-> << >>, pc |-> "idle"]
NoGen == [by |-> 0, selected |-> << >>, parallel |-> FALSE, todo |-> {}, failed |-> 0, error |-> "none"]
NoChild == [docs |-> << >>, wrote |-> {}, ok |-> FALSE]

RInit ==
    /\ calls = 0 /\ call = NoCall /\ gen = NoGen /\ strays = {}
    /\ samples = << >> /\ results = [d \in 0..MaxCalls |-> << >>] /\ logs = [d \in 0..MaxCalls |-> {}]
    /\ child = NoChild /\ score = << >> /\ answer = "none" /\ over = FALSE

ByManifest == call.ids # Free
Goto(pc) == call' = [call EXCEPT !.pc = pc]

(* Any error of a run that is bound to a manifest ends the launcher.       *)
Ends(a) == answer' = a /\ Goto("idle") /\ over' = (ByManifest /\ a # "result")

files == <<samples, results, logs>>

-----------------------------------------------------------------------------
(* Which tasks a call works on.                                            *)

Drawn == {s \in [1..SampleSize -> TaskSet] : Distinct(s)}

Selectable(ids) == Len(ids) <= SampleSize /\ Distinct(ids) /\ ToSet(ids) \subseteq TaskSet

Selection(ids) == IF ids = Free THEN Drawn ELSE {ids}

(* What every call starts from; a manifest whose ids EvalPlus or the       *)
(* agentic runner cannot use is an error before anything is touched.       *)
Begin(kind, ids, selected, pc) ==
    /\ call.pc = "idle" /\ ~over /\ calls < MaxCalls
    /\ calls' = calls + 1
    /\ call' = [kind |-> kind, ids |-> ids, selected |-> selected, pc |-> pc]
    /\ score' = << >> /\ child' = NoChild

Refused(kind, ids) ==
    /\ kind \in {"evalplus", "agentic"} /\ ids # Free /\ ~Selectable(ids)
    /\ Begin(kind, ids, << >>, "idle")
    /\ answer' = "raised" /\ over' = TRUE
    /\ UNCHANGED <<gen, strays, files>>

-----------------------------------------------------------------------------
(* EvalPlus: code generation in a thread, then an evaluation in a child.   *)

(* The old samples file is removed; if that fails there is only a warning. *)
BeginEvalPlus(ids, parallel, removed) ==
    /\ ids # Free => Selectable(ids)
    /\ \E selected \in Selection(ids) :
         /\ Begin("evalplus", ids, selected, "codegen")
         /\ gen' = [by |-> calls + 1, selected |-> selected, parallel |-> parallel,
                    todo |-> DOMAIN selected, failed |-> 0, error |-> "none"]
    /\ samples' = IF removed THEN << >> ELSE samples
    /\ answer' = "none"
    /\ UNCHANGED <<strays, results, logs, over>>

(* The pool works on its futures in any order, the plain loop in theirs.   *)
Turn(w) == {i \in w.todo : w.parallel \/ \A j \in w.todo : i <= j}

(* An error ends the loop; the pool finishes, and the error of the first   *)
(* future that failed is raised.                                           *)
Failed(w, i, error) ==
    IF ~w.parallel THEN [w EXCEPT !.todo = {}, !.failed = i, !.error = error]
    ELSE IF w.failed = 0 \/ i < w.failed
         THEN [w EXCEPT !.todo = @ \ {i}, !.failed = i, !.error = error]
         ELSE [w EXCEPT !.todo = @ \ {i}]

(* One task of a code generation: its sample is appended, or it fails with *)
(* an error that run_evalplus catches ("listed") or does not ("other").    *)
Steps(w) ==
    {[after |-> [w EXCEPT !.todo = @ \ {i}], new |-> <<[task |-> w.selected[i], by |-> w.by]>>] : i \in Turn(w)}
    \cup {[after |-> Failed(w, i, error), new |-> << >>] : i \in Turn(w), error \in {"listed", "other"}}

Generate ==
    /\ call.pc = "codegen"
    /\ \E step \in Steps(gen) : gen' = step.after /\ samples' = samples \o step.new
    /\ UNCHANGED <<calls, call, strays, results, logs, child, score, answer, over>>

(* The caller gives up; the thread and its pool do not know.               *)
GiveUp ==
    /\ call.pc = "codegen" /\ gen.todo # {}
    /\ strays' = strays \cup {gen} /\ gen' = NoGen
    /\ Ends("nothing")
    /\ UNCHANGED <<calls, files, child, score>>

StrayGenerates ==
    /\ \E w \in strays : \E step \in Steps(w) :
         /\ samples' = samples \o step.new
         /\ strays' = (strays \ {w}) \cup (IF step.after.todo = {} THEN {} ELSE {step.after})
    /\ UNCHANGED <<calls, call, gen, results, logs, child, score, answer, over>>

CodegenReturns ==
    /\ call.pc = "codegen" /\ gen.todo = {}
    /\ CASE gen.error = "listed" -> Ends("nothing")
         [] gen.error = "other"  -> Ends("raised")
         [] OTHER                -> IF samples = << >> THEN Ends("nothing")
                                    ELSE Goto("evaluate") /\ UNCHANGED <<answer, over>>
    /\ gen' = NoGen
    /\ UNCHANGED <<calls, strays, files, child, score>>

(* evalplus_subset_eval: the mean over the samples of the file (it skips   *)
(* those of no task of the dataset, which no generation writes); one job   *)
(* that fails, and there is no score.                                      *)
Judged(rows, jobFails) == IF jobFails THEN << >> ELSE rows

Evaluate(jobFails) ==
    /\ call.pc = "evaluate" /\ call.kind = "evalplus"
    /\ score' = Judged(samples, jobFails) /\ Goto("check")
    /\ UNCHANGED <<calls, gen, strays, files, child, answer, over>>

(* The evaluation takes too long: run_bounded_subprocess raises.           *)
EvaluationExpires ==
    /\ call.pc = "evaluate" /\ call.kind = "evalplus"
    /\ Ends("raised")
    /\ UNCHANGED <<calls, gen, strays, files, child, score>>

(* Mutant of SamplesConfirm: the number of samples is not compared.        *)
X_SameSet(rows, ids) == ToSet(rows) = ToSet(ids)

SamplesConfirm(rows, ids) == Len(rows) = Len(ids) /\ ToSet(rows) = ToSet(ids)

CheckSamples ==
    /\ call.pc = "check" /\ call.kind = "evalplus"
    /\ Ends(IF ByManifest /\ ~SamplesConfirm(Ids(samples), call.ids) THEN "raised" ELSE "result")
    /\ UNCHANGED <<calls, gen, strays, files, child, score>>

-----------------------------------------------------------------------------
(* LM-Eval: a child that writes results and then a log of its samples.     *)

(* A run for a manifest gets a directory of its own.                       *)
OutputDir == IF ByManifest THEN calls ELSE 0

(* The child takes the first documents up to the limit, which can be above *)
(* the sample size (min_limit); Popen can fail, and then nothing runs.     *)
BeginLmEval(ids, limit, started) ==
    /\ Begin("lmeval", ids, IF started THEN SubSeq(Tasks, 1, limit) ELSE << >>,
             IF started THEN "child" ELSE "search")
    /\ answer' = "none"
    /\ UNCHANGED <<gen, strays, files, over>>

(* What the lm_eval child does, in its order; it may stop at any point.    *)
ChildWritesResults(metric) ==
    /\ call.pc = "child" /\ call.kind = "lmeval" /\ child.wrote = {}
    /\ child' = [child EXCEPT !.wrote = {"results"}]
    /\ results' = [results EXCEPT ![OutputDir] =
                     Append(@, [metric |-> metric, rows |-> Made(call.selected, calls)])]
    /\ UNCHANGED <<calls, call, gen, strays, samples, logs, score, answer, over>>

ChildWritesLog ==
    /\ call.pc = "child" /\ call.kind = "lmeval" /\ child.wrote = {"results"}
    /\ child' = [child EXCEPT !.wrote = @ \cup {"log"}]
    /\ logs' = [logs EXCEPT ![OutputDir] = @ \cup {Made(call.selected, calls)}]
    /\ UNCHANGED <<calls, call, gen, strays, samples, results, score, answer, over>>

(* The child ended, with whatever return code, or was killed after the     *)
(* time-out: both are followed by the search for a score.                  *)
ChildOver ==
    /\ call.pc = "child" /\ call.kind = "lmeval"
    /\ Goto("search")
    /\ UNCHANGED <<calls, gen, strays, files, child, score, answer, over>>

(* The newest file with a metric of the task; an unreadable file ends the  *)
(* search with a warning.                                                  *)
WithMetric(dir) == {n \in DOMAIN dir : dir[n].metric}
NewestScore(dir) ==
    IF WithMetric(dir) = {} THEN << >>
    ELSE dir[CHOOSE n \in WithMetric(dir) : \A k \in WithMetric(dir) : k <= n].rows

SearchScore ==
    /\ call.pc = "search"
    /\ score' \in {NewestScore(results[OutputDir]), << >>}
    /\ Goto("verify")
    /\ UNCHANGED <<calls, gen, strays, files, child, answer, over>>

(* _verify_lmeval_sample_log: exactly one log, with the documents in the   *)
(* order of the manifest.                                                  *)
LogConfirms(found, ids) == Cardinality(found) = 1 /\ \A log \in found : Ids(log) = ids

VerifyLog ==
    /\ call.pc = "verify"
    /\ Ends(IF ByManifest /\ ~LogConfirms(logs[OutputDir], call.ids) THEN "raised" ELSE "result")
    /\ UNCHANGED <<calls, gen, strays, files, child, score>>

-----------------------------------------------------------------------------
(* The agentic runner: a child that writes one file, named by the second.  *)

BeginAgentic(ids) ==
    /\ ids # Free => Selectable(ids)
    /\ \E selected \in Selection(ids) : Begin("agentic", ids, selected, "child")
    /\ answer' = "none"
    /\ UNCHANGED <<gen, strays, files, over>>

(* The child ends with the scenarios it ran; or there is no data: it was   *)
(* killed after the time-out, or its file is missing or unreadable.        *)
AgenticEnds ==
    /\ call.pc = "child" /\ call.kind = "agentic"
    /\ \E docs \in SeqOf(ToSet(call.selected), SampleSize), ok \in BOOLEAN :
         /\ child' = [child EXCEPT !.docs = docs, !.ok = ok]
         /\ score' = Made(docs, calls)
    /\ Goto("check")
    /\ UNCHANGED <<calls, gen, strays, files, answer, over>>

CheckAgentic ==
    /\ call.pc = "check" /\ call.kind = "agentic"
    /\ Ends(IF ByManifest /\ ~(child.ok /\ SamplesConfirm(child.docs, call.selected))
            THEN "raised" ELSE "result")
    /\ UNCHANGED <<calls, gen, strays, files, child, score>>

-----------------------------------------------------------------------------
(* The custom benchmark: a child process, module TaskPool, asked again     *)
(* without structured output if its channel breaks.                        *)

BeginCustom(ids, structured) ==
    /\ \E selected \in Selection(ids) :
         Begin("custom", ids, selected, IF structured THEN "structured" ELSE "plain")
    /\ answer' = "none"
    /\ UNCHANGED <<gen, strays, files, over>>

(* The child prints the marker only if every task has its row.             *)
CustomEnds(marked, channel, ok) ==
    /\ call.pc \in {"structured", "plain"}
    /\ marked => ByManifest /\ Selectable(call.ids)
    /\ IF ByManifest /\ ~marked THEN Ends("raised") /\ UNCHANGED score
       ELSE IF channel /\ call.pc = "structured" THEN Goto("plain") /\ UNCHANGED <<score, answer, over>>
       ELSE IF ok THEN score' \in {Made(call.selected, calls), << >>} /\ Ends("result")
       ELSE Ends("nothing") /\ UNCHANGED score
    /\ UNCHANGED <<calls, gen, strays, files, child>>

(* The child may run out of its time: subprocess.run raises.               *)
CustomExpires ==
    /\ call.pc \in {"structured", "plain"}
    /\ Ends("raised")
    /\ UNCHANGED <<calls, gen, strays, files, child, score>>

-----------------------------------------------------------------------------
(* The launcher ends when its last thread has; the next one finds its      *)
(* files.                                                                  *)
NextLauncher ==
    /\ over /\ strays = {} /\ over' = FALSE
    /\ UNCHANGED <<calls, call, gen, strays, files, child, score, answer>>

Call ==
    \E ids \in Manifests \cup {Free} :
        \/ \E kind \in Kinds : Refused(kind, ids)
        \/ \E parallel, removed \in BOOLEAN : BeginEvalPlus(ids, parallel, removed)
        \/ \E limit \in DOMAIN Tasks, started \in BOOLEAN : BeginLmEval(ids, limit, started)
        \/ BeginAgentic(ids)
        \/ \E structured \in BOOLEAN : BeginCustom(ids, structured)

RNext ==
    \/ Call
    \/ Generate \/ GiveUp \/ StrayGenerates \/ CodegenReturns
    \/ \E jobFails \in BOOLEAN : Evaluate(jobFails)
    \/ EvaluationExpires \/ CheckSamples
    \/ \E metric \in BOOLEAN : ChildWritesResults(metric)
    \/ ChildWritesLog \/ ChildOver \/ SearchScore \/ VerifyLog
    \/ AgenticEnds \/ CheckAgentic
    \/ \E marked, channel, ok \in BOOLEAN : CustomEnds(marked, channel, ok)
    \/ CustomExpires
    \/ NextLauncher

RSpec == RInit /\ [][RNext]_rvars

-----------------------------------------------------------------------------
(* A score that is reported for a manifest was computed by this very call  *)
(* from one sample of each selected task and from nothing else, whatever   *)
(* earlier calls left behind or still append.                              *)
ManifestScoresAreOwn ==
    answer = "result" /\ ByManifest /\ score # << >>
        => /\ \A n \in DOMAIN score : score[n].by = calls
           /\ Len(score) = Len(call.ids) /\ ToSet(Ids(score)) = ToSet(call.ids)
=============================================================================
