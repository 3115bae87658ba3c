------------------------------ MODULE Sandbox -------------------------------
(***************************************************************************)
(* One call of evaluate_code (src/custom_benchmark.py): how the code of a  *)
(* model is run and scored.  Depending on the task it goes to the harness  *)
(* of DS1000, is compared with the namespace that the reference leaves, is *)
(* followed by tests, or is only run.  Each run is a worker process        *)
(* (src/sandbox_worker.py), on Windows in a job object                     *)
(* (src/windows_job_object.py); it ends when the worker and whoever else   *)
(* holds its pipes have ended, or at the time-out.                         *)
(*                                                                         *)
(* Of the code that is run only the effects are kept: it ends, raises,     *)
(* hangs or dies, leaves values behind, starts another process.  A value   *)
(* is its digest; "fn" stands for functions, modules and classes, "opaque" *)
(* for what has no digest.                                                 *)
(***************************************************************************)
EXTENDS Integers, FiniteSets

CONSTANTS Names,        \* public names of the namespaces
          SetupValues,  \* what the setup can bind a name to
          Values,       \* what the reference and the generated code can
          Tests         \* tests of a task that has some

ASSUME ValueAssumption ==
    /\ IsFiniteSet(Names) /\ "absent" \in Values /\ SetupValues \subseteq Values
    /\ Tests \in Nat \ {0}

Digests == Values \ {"absent", "fn", "opaque"}

VARIABLES os,      \* "nt" or "posix"
          task,    \* what the task has, and of its harness: see TaskParts
          code,    \* what was extracted: "none", "other" (no def of the entry point), "code"
          at,      \* where evaluate_code is
          script,  \* what the worker runs: "reference", "generated", "tests", "plain"
          worker,  \* "none", "suspended", "running", "hangs", "ended", "dead"
          helper,  \* a process that the code started: "none", "piped" (holds the pipes), "detached"
          said,    \* what the first result line in the worker's pipe says
          report,  \* what _run_sandbox returned, per script
          did,     \* what the run of each script really did, unless it printed
          printed, \* scripts whose code wrote a result line itself, before the worker
          checks,  \* what the harness ran and passed, with the patched and the original code
          grade    \* the answer: [how, matched, of]; how: "none", "graded", "raised"

svars == <<os, task, code, at, script, worker, helper, said, report, did, printed, checks, grade>>

observed == <<did, printed, checks>>

(* "string": the setup of the harness has test_string as well;             *)
(* "wrapped": unwrapping or patching changes the generated code.           *)
TaskParts == {"tests", "entry", "reference", "setup", "harness", "string", "wrapped"}
Scripts == {"reference", "generated", "tests", "plain"}
Spaces == [Names -> Values]
Nothing == [ok |-> FALSE, setup |-> [k \in Names |-> "absent"], state |-> [k \in Names |-> "absent"],
            passed |-> 0]
NoGrade == [how |-> "none", matched |-> 0, of |-> 0]

SInit ==
    /\ os \in {"nt", "posix"}
    /\ task \in SUBSET TaskParts
    /\ "harness" \in task => "setup" \in task
    /\ task \cap {"string", "wrapped"} # {} => "harness" \in task
    /\ code \in {"none", "other", "code"}
    /\ at = "start" /\ script = "" /\ worker = "none" /\ helper = "none"
    /\ said = Nothing /\ report = [s \in Scripts |-> Nothing] /\ did = [s \in Scripts |-> Nothing]
    /\ printed = {} /\ checks = [p \in {"patched", "original"} |-> {}]
    /\ grade = NoGrade

processes == <<worker, helper, said>>

Answer(matched, of) == at' = "returned" /\ grade' = [how |-> "graded", matched |-> matched, of |-> of]
Raise == at' = "returned" /\ grade' = [NoGrade EXCEPT !.how = "raised"]

-----------------------------------------------------------------------------
(* evaluate_code.                                                          *)

Has(what) == what \in task

(* Nothing to run.                                                         *)
Hopeless ==
    /\ at = "start"
    /\ code = "none" \/ (Has("tests") /\ Has("entry") /\ code = "other")
    /\ Answer(0, 1)
    /\ UNCHANGED <<os, task, code, script, processes, report, observed>>

Choose ==
    CASE ~Has("tests") /\ Has("harness") -> "harness"
      [] ~Has("tests") /\ ~Has("harness") /\ Has("reference") /\ Has("setup") -> "reference"
      [] ~Has("tests") /\ ~Has("reference") /\ ~Has("harness") -> "plain"
      [] OTHER -> "tests"

(* Without tests and setup the reference itself is the only test.          *)
Total == IF Has("tests") THEN Tests ELSE 1

Start ==
    /\ at = "start" /\ code # "none" /\ ~(Has("tests") /\ Has("entry") /\ code = "other")
    /\ at' = (IF Choose = "harness" THEN "harness" ELSE "open") /\ script' = Choose
    /\ UNCHANGED <<os, task, code, processes, report, observed, grade>>

(* _try_ds1000_harness: the checks that the setup brings, with the code as *)
(* it was unwrapped and patched; where that had changed it, the untouched  *)
(* code gets one more run, of test_execution alone.  A check that is passed*)
(* is followed by the next.  The module of the harness may be missing.     *)
Due == {"execution"} \cup (IF Has("string") THEN {"string"} ELSE {})

Harness(passed) ==
    /\ at = "harness" /\ passed \subseteq Due
    /\ checks' = [checks EXCEPT !["patched"] = passed]
    /\ IF passed = Due THEN Answer(1, 1)
       ELSE IF Has("wrapped") THEN at' = "retry" /\ UNCHANGED grade ELSE Answer(0, 1)
    /\ UNCHANGED <<os, task, code, script, processes, report, did, printed>>

HarnessRetry(passed) ==
    /\ at = "retry" /\ passed \subseteq {"execution"}
    /\ checks' = [checks EXCEPT !["original"] = passed]
    /\ Answer(Cardinality(passed), 1)
    /\ UNCHANGED <<os, task, code, script, processes, report, did, printed>>

NoHarness ==
    /\ at = "harness" /\ Raise
    /\ UNCHANGED <<os, task, code, script, processes, report, observed>>

(* What the reference changed, as far as values go.                        *)
Outputs(ref) == {k \in Names : ref.state[k] \in Digests /\ ref.state[k] # ref.setup[k]}
Complete(space) == \A k \in Names : space[k] # "opaque"

(* Mutant of Share: names that the generated code does not define are left *)
(* out of the denominator.                                                 *)
X_CommonNames(ref, gen) ==
    LET common == {k \in Outputs(ref) : gen.state[k] # "absent"} IN
    [how |-> "graded", matched |-> Cardinality({k \in common : gen.state[k] = ref.state[k]}), of |-> Cardinality(common)]

Share(ref, gen) ==
    [how |-> "graded", matched |-> Cardinality({k \in Outputs(ref) : gen.state[k] = ref.state[k]}),
     of |-> Cardinality(Outputs(ref))]

(* The reference ran: its snapshots must be whole.                         *)
AfterReference ==
    /\ at = "judge" /\ script = "reference"
    /\ IF report["reference"].ok /\ Complete(report["reference"].setup) /\ Complete(report["reference"].state)
       THEN at' = "open" /\ script' = "generated" /\ UNCHANGED grade
       ELSE Answer(0, 1) /\ UNCHANGED script
    /\ UNCHANGED <<os, task, code, processes, report, observed>>

AfterGenerated ==
    /\ at = "judge" /\ script = "generated"
    /\ IF /\ report["generated"].ok /\ Complete(report["generated"].state)
          /\ Outputs(report["reference"]) # {}
       THEN grade' = Share(report["reference"], report["generated"]) /\ at' = "returned"
       ELSE Answer(0, 1)
    /\ UNCHANGED <<os, task, code, script, processes, report, observed>>

AfterTests ==
    /\ at = "judge" /\ script = "tests"
    /\ IF report["tests"].ok THEN Answer(report["tests"].passed, Total) ELSE Answer(0, 1)
    /\ UNCHANGED <<os, task, code, script, processes, report, observed>>

AfterPlain ==
    /\ at = "judge" /\ script = "plain"
    /\ Answer(IF report["plain"].ok THEN 1 ELSE 0, 1)
    /\ UNCHANGED <<os, task, code, script, processes, report, observed>>

-----------------------------------------------------------------------------
(* _run_sandbox.                                                           *)

(* finally: closing the job ends what is left in it.                       *)
Close ==
    IF os = "nt" THEN worker' = "none" /\ helper' = "none" ELSE worker' = "none" /\ UNCHANGED helper

Return(what) ==
    /\ report' = [report EXCEPT ![script] = what] /\ at' = "judge" /\ said' = Nothing
    /\ Close

(* Popen: a process that cannot be started is an error nobody catches      *)
(* here; on Windows it starts suspended, in a job that may not come about. *)
OpenWorker(outcome) ==
    /\ at = "open"
    /\ CASE outcome = "raised" -> Raise /\ UNCHANGED <<processes, report>>
         [] outcome = "no job" -> os = "nt" /\ Return(Nothing) /\ UNCHANGED grade
         [] outcome = "opened" ->
                /\ worker' = (IF os = "nt" THEN "suspended" ELSE "running") /\ at' = "run"
                /\ UNCHANGED <<helper, said, report, grade>>
    /\ UNCHANGED <<os, task, code, script, observed>>

(* assign and resume; if one fails the process is killed.                  *)
AssignJob(ok) ==
    /\ at = "run" /\ worker = "suspended"
    /\ IF ok THEN worker' = "running" /\ UNCHANGED <<helper, said, report, at>> ELSE Return(Nothing)
    /\ UNCHANGED <<os, task, code, script, observed, grade>>

(* communicate has read both pipes to their ends.  The first line that     *)
(* starts with the mark and can be read is the result, whoever wrote it    *)
(* and however the worker ended; there is none if the worker died without  *)
(* one or if it was longer than what is kept.                              *)
Drained == worker \in {"ended", "dead"} /\ helper # "piped"

Collect(kept) ==
    /\ at = "run" /\ Drained
    /\ Return(IF kept THEN said ELSE Nothing)
    /\ UNCHANGED <<os, task, code, script, observed, grade>>

(* A line of the code's own can be something else than a result; nobody    *)
(* here catches what evaluate_code raises then.                            *)
CollectOther ==
    /\ at = "run" /\ Drained /\ script \in printed
    /\ Raise /\ Close /\ said' = Nothing
    /\ UNCHANGED <<os, task, code, script, report, observed>>

(* Mutant of Expire: on Windows, too, only the worker is killed.           *)
X_OnlyWorker ==
    /\ at = "run" /\ worker # "suspended" /\ ~Drained
    /\ worker' = "dead" /\ UNCHANGED helper
    /\ at' = "drain"
    /\ UNCHANGED <<os, task, code, script, said, report, observed, grade>>

(* The time-out: the job is terminated, or without one the worker killed.  *)
Expire ==
    /\ at = "run" /\ worker # "suspended" /\ ~Drained
    /\ worker' = "dead" /\ helper' = (IF os = "nt" THEN "none" ELSE helper)
    /\ at' = "drain"
    /\ UNCHANGED <<os, task, code, script, said, report, observed, grade>>

(* The pipes are read once more, for two seconds and then without limit.   *)
Drain ==
    /\ at = "drain" /\ Drained
    /\ Return(Nothing)
    /\ UNCHANGED <<os, task, code, script, observed, grade>>

-----------------------------------------------------------------------------
(* sandbox_worker: setup, code and tests in one namespace.                 *)

(* What a run can leave: the setup fails, the code fails, or both end.     *)
Effects ==
    CASE script = "reference" -> {[ok |-> TRUE, setup |-> s, state |-> r, passed |-> 0] :
                                     s \in [Names -> SetupValues], r \in Spaces} \cup {Nothing}
      [] script = "generated" -> {[Nothing EXCEPT !.ok = TRUE, !.state = g] : g \in Spaces} \cup {Nothing}
      [] script = "tests"     -> {[Nothing EXCEPT !.ok = TRUE, !.passed = n] : n \in 0..Total} \cup {Nothing}
      [] script = "plain"     -> {Nothing, [Nothing EXCEPT !.ok = TRUE]}

(* The worker's result is written after everything was caught that can be; *)
(* what the code prints goes into a buffer of its own.                     *)
Execute ==
    /\ at = "run" /\ worker = "running"
    /\ worker' = "ended"
    /\ IF script \in printed THEN UNCHANGED <<said, did>>
       ELSE \E effect \in Effects : said' = effect /\ did' = [did EXCEPT ![script] = effect]
    /\ UNCHANGED <<os, task, code, at, script, helper, report, printed, checks, grade>>

(* But the worker's stdout is open to the code and to what it starts: a    *)
(* line with the mark, whatever it says, comes before the worker's.  One   *)
(* that is cut off or cannot be read is as good as none.                   *)
PrintResult ==
    /\ at = "run" /\ script \notin printed
    /\ worker = "running" \/ (helper = "piped" /\ worker # "ended")
    /\ printed' = printed \cup {script} /\ said' \in Effects
    /\ UNCHANGED <<os, task, code, at, script, worker, helper, report, did, checks, grade>>

(* The code never ends, or ends the process (exit, memory limit).          *)
Misbehave(how) ==
    /\ at = "run" /\ worker = "running"
    /\ worker' = how
    /\ UNCHANGED <<os, task, code, at, script, helper, said, report, observed, grade>>

(* The code starts a process, which inherits the pipes or not, and which   *)
(* may end or not.                                                         *)
Spawn(how) ==
    /\ at = "run" /\ worker = "running" /\ helper = "none"
    /\ helper' = how
    /\ UNCHANGED <<os, task, code, at, script, worker, said, report, observed, grade>>

HelperEnds ==
    /\ helper # "none" /\ at # "returned" /\ helper' = "none"
    /\ UNCHANGED <<os, task, code, at, script, worker, said, report, observed, grade>>

-----------------------------------------------------------------------------
(* What evaluate_code and _run_sandbox themselves do.                      *)
Evaluates ==
    \/ Hopeless \/ Start
    \/ \E passed \in {{}, {"execution"}, {"execution", "string"}} : Harness(passed) \/ HarnessRetry(passed)
    \/ NoHarness
    \/ AfterReference \/ AfterGenerated \/ AfterTests \/ AfterPlain
    \/ \E outcome \in {"raised", "no job", "opened"} : OpenWorker(outcome)
    \/ \E ok \in BOOLEAN : AssignJob(ok)
    \/ \E kept \in BOOLEAN : Collect(kept)
    \/ CollectOther
    \/ Expire \/ Drain

SNext ==
    \/ Evaluates
    \/ Execute \/ PrintResult
    \/ \E how \in {"hangs", "dead"} : Misbehave(how)
    \/ \E how \in {"piped", "detached"} : Spawn(how)
    \/ HelperEnds

(* Only the tool is relied on to go on, never the code it runs.            *)
SFairness == WF_svars(Evaluates)

SSpec == SInit /\ [][SNext]_svars /\ SFairness

-----------------------------------------------------------------------------
(* Full marks are earned: a run of the harness passed test_execution, or   *)
(* the generated code really left every value that the reference had       *)
(* produced, or it passed all tests, or, where there is nothing to compare *)
(* with, it ran to its end.  A run that timed out or died earns nothing.   *)
(* A run that writes a result line of its own is believed, and is excepted.*)
FullScoreIsEarned ==
    grade.how = "graded" /\ grade.matched = grade.of /\ printed = {} =>
        (CASE script = "generated" ->
                /\ did["reference"].ok /\ did["generated"].ok /\ Outputs(did["reference"]) # {}
                /\ \A k \in Outputs(did["reference"]) : did["generated"].state[k] = did["reference"].state[k]
           [] script = "tests" -> did["tests"].ok /\ did["tests"].passed = Total
           [] script = "plain" -> did["plain"].ok
           [] script = "harness" -> "execution" \in checks["patched"] \cup checks["original"]
           [] OTHER -> FALSE)

(* Full marks of the harness mean that one form of the code passed all that*)
(* the setup checks, test_string included where it has one.  Violated: the *)
(* retry leaves test_string out.                                           *)
HarnessIsWhole ==
    script = "harness" /\ grade.how = "graded" /\ grade.matched = grade.of =>
        \E p \in {"patched", "original"} : Due \subseteq checks[p]

(* On Windows every evaluation comes to its end, whatever the code does    *)
(* and starts; elsewhere a process that keeps the pipes can hold it up.    *)
EvaluationReturns == <>[](os = "nt" => at = "returned")
=============================================================================
