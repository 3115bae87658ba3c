------------------------------ MODULE Launcher ------------------------------
(***************************************************************************)
(* The launcher's main loop (src/run_benchmarks.py: main, _load_model,     *)
(* _run_benchmarks_for_model, _ensure_model_still_loaded): for every       *)
(* selected model, load it, run every selected benchmark, check the model  *)
(* after each one, write the rows, and clean up, whatever fails or is      *)
(* interrupted in between.  The provider on the other side is ModelSlot;   *)
(* LlamaServer is shown to implement it.                                   *)
(***************************************************************************)
EXTENDS Naturals, FiniteSets

CONSTANTS NumModels,      \* the selected models are 1..NumModels
          NumBenches,     \* the selected benchmarks are 1..NumBenches
          Bound,          \* the benchmarks an accepted manifest binds
          MaxInterrupts   \* how often the user presses Ctrl+C

ASSUME LauncherAssumption ==
    /\ NumModels \in Nat \ {0} /\ NumBenches \in Nat \ {0}
    /\ Bound \subseteq 1..NumBenches
    /\ MaxInterrupts \in Nat

NoModel == 0
Models  == 1..NumModels
Rows    == Models \X (1..NumBenches)

VARIABLES
    conf,            \* the options of the run
    slot, op, want, reply,    \* the provider, see ModelSlot
    pc,              \* where the launcher is
    site,            \* who asked for the load under way
    model,           \* the model of the current round, 0 before the first
    bench,           \* the current benchmark, 0 before the first
    model_results,   \* rows of the current model
    all_summary,     \* rows of all models
    saved,           \* rows in the per-model summaries on disk
    fresh,           \* has the server been started since the last benchmark?
    unchecked,       \* has a benchmark run that nothing was checked after?
    interrupts,      \* Ctrl+C so far
    status           \* how the process ended

provider == <<slot, op, want, reply>>
tables   == <<model_results, all_summary, saved>>
ghosts   == <<fresh, unchecked>>
vars     == <<conf, provider, pc, site, model, bench, tables, ghosts, interrupts, status>>

Provider == INSTANCE ModelSlot WITH NoModel <- NoModel, Models <- Models

(* --comparison-manifest, --unload-between, and a provider that owns the   *)
(* model's lifecycle (it can load, unload and report).                     *)
Options == {"manifest", "between", "lifecycle"}

Manifest      == "manifest" \in conf
UnloadBetween == "between" \in conf
Lifecycle     == "lifecycle" \in conf

Loading == {"current", "evict", "load", "ready", "verify"}
Try     == {"enter", "bench", "unload", "run", "ensure", "wait", "write"}
Places  == Loading \cup Try \cup
           {"next", "registry", "except", "cleanup", "final", "gone"}

TypeOK ==
    /\ conf \in SUBSET Options
    /\ slot \in 0..NumModels
    /\ op \in {"idle", "load", "unload", "ready"}
    /\ want \in 0..NumModels
    /\ reply \in {"none", "ok", "failed"}
    /\ pc \in Places
    /\ site \in {"first", "between", "ensure"}
    /\ model \in 0..NumModels
    /\ bench \in 0..NumBenches
    /\ model_results \subseteq Rows /\ all_summary \subseteq Rows /\ saved \subseteq Rows
    /\ fresh \in BOOLEAN /\ unchecked \in BOOLEAN
    /\ interrupts \in 0..MaxInterrupts
    /\ status \in {"running", "done", "exit2", "raised", "uncaught"}

Init ==
    /\ conf \in SUBSET Options
    /\ Provider!Init
    /\ pc = "next"
    /\ site = "first"
    /\ model = 0
    /\ bench = 0
    /\ model_results = {} /\ all_summary = {} /\ saved = {}
    /\ fresh = FALSE /\ unchecked = FALSE
    /\ interrupts = 0
    /\ status = "running"

(* get_current_loaded_model: a provider without a lifecycle reports none.  *)
Current == IF Lifecycle THEN slot ELSE NoModel

(* The manifest names the tasks of the current benchmark (expected_ids).   *)
Strict == Manifest /\ bench \in Bound

-----------------------------------------------------------------------------
(* Calls of the provider, and ways out.                                    *)

Call(o, m, to) ==
    /\ Provider!Ask(o, m)
    /\ pc' = to

Goto(to) == pc' = to /\ UNCHANGED provider

Returned(at, answer) == pc = at /\ op = "idle" /\ reply = answer

Exit(how) ==
    /\ pc' = "gone"
    /\ status' = how

(* Mutant of Raise: nothing is cleaned up.                                 *)
Raise_Leaves == Exit("raised") /\ UNCHANGED provider

(* The except BaseException of main.                                       *)
Raise == Goto("except") /\ UNCHANGED status

-----------------------------------------------------------------------------
(* main, one round per model.                                              *)

NextModel ==
    /\ pc = "next"
    /\ model < NumModels
    /\ model' = model + 1
    /\ Goto("registry")
    /\ UNCHANGED <<conf, site, bench, tables, ghosts, interrupts, status>>

(* _check_registry_for_model returns None.                                 *)
RegistryRejects ==
    /\ pc = "registry"
    /\ IF Manifest
       THEN Exit("exit2") /\ UNCHANGED provider
       ELSE Goto("next") /\ UNCHANGED status
    /\ UNCHANGED <<conf, site, model, bench, tables, ghosts, interrupts>>

RegistryAccepts ==
    /\ pc = "registry"
    /\ site' = "first"
    /\ Goto("current")
    /\ UNCHANGED <<conf, model, bench, tables, ghosts, interrupts, status>>

-----------------------------------------------------------------------------
(* _load_model, and the reload inside _ensure_model_still_loaded, which    *)
(* makes the same calls but does not wait for a model that is still there. *)

loadUnchanged == <<conf, site, model, bench, tables, interrupts>>

LoadSucceeds ==
    /\ Goto(CASE site = "first"   -> "enter"
              [] site = "between" -> "run"
              [] OTHER            -> "bench")
    /\ unchecked' = IF site = "ensure" THEN FALSE ELSE unchecked
    /\ UNCHANGED <<status, fresh>>

(* Mutant of LoadFails: a model that could not be loaded is run anyway.    *)
LoadFails_Continues ==
    /\ CASE site = "ensure" -> Raise
         [] site = "between" -> IF Strict THEN Raise ELSE Goto("bench") /\ UNCHANGED status
         [] OTHER -> Goto("enter") /\ UNCHANGED status
    /\ UNCHANGED ghosts

(* None from _load_model skips the model or the benchmark, unless a        *)
(* manifest forbids it; a failed reload after a benchmark raises.          *)
LoadFails ==
    /\ CASE site = "ensure" -> Raise
         [] site = "between" -> IF Strict THEN Raise ELSE Goto("bench") /\ UNCHANGED status
         [] OTHER -> IF Manifest
                     THEN Exit("exit2") /\ UNCHANGED provider
                     ELSE Goto("next") /\ UNCHANGED status
    /\ UNCHANGED ghosts

(* load_model raises (a log file that cannot be opened, a runtime value    *)
(* that cannot be resolved).  Only the load between two benchmarks and the *)
(* check after one are inside main's try, and the latter also inside the   *)
(* benchmark's own except.                                                 *)
LoadRaises ==
    /\ Returned("load", "failed")
    /\ CASE site = "first" -> Exit("uncaught") /\ UNCHANGED provider
         [] site = "ensure" /\ ~Strict -> Goto("bench") /\ UNCHANGED status
         [] OTHER -> Raise
    /\ UNCHANGED <<loadUnchanged, ghosts>>

Loaded ==
    /\ pc = "current"
    /\ Current = model
    /\ IF site = "ensure"
       THEN LoadSucceeds
       ELSE Call("ready", NoModel, "ready") /\ UNCHANGED <<status, ghosts>>
    /\ UNCHANGED loadUnchanged

OtherLoaded ==
    /\ pc = "current"
    /\ Current \notin {model, NoModel}
    /\ Call("unload", NoModel, "evict")
    /\ UNCHANGED <<loadUnchanged, status, ghosts>>

NothingLoaded ==
    /\ pc = "current"
    /\ Current = NoModel
    /\ Call("load", model, "load")
    /\ UNCHANGED <<loadUnchanged, status, ghosts>>

Evicted ==
    /\ Returned("evict", "ok")
    /\ Call("load", model, "load")
    /\ UNCHANGED <<loadUnchanged, status, ghosts>>

LoadAcknowledged ==
    /\ Returned("load", "ok")
    /\ Call("ready", NoModel, "ready")
    /\ UNCHANGED <<loadUnchanged, status, ghosts>>

Ready ==
    /\ Returned("ready", "ok")
    /\ Goto("verify")
    /\ UNCHANGED <<loadUnchanged, status, ghosts>>

NotServed ==
    /\ \E at \in {"evict", "load", "ready"} : Returned(at, "failed")
    /\ LoadFails
    /\ UNCHANGED loadUnchanged

(* A provider that can report its model must report the right one.         *)
Verify ==
    /\ pc = "verify"
    /\ IF Lifecycle => Current = model THEN LoadSucceeds ELSE LoadFails
    /\ UNCHANGED loadUnchanged

-----------------------------------------------------------------------------
(* _run_benchmarks_for_model.                                              *)

(* --unload-between with a provider that cannot unload: no benchmark runs. *)
Enter ==
    /\ pc = "enter"
    /\ model_results' = {}
    /\ bench' = 0
    /\ unchecked' = FALSE
    /\ Goto(IF UnloadBetween /\ ~Lifecycle THEN "write" ELSE "bench")
    /\ UNCHANGED <<conf, site, model, all_summary, saved, fresh, interrupts, status>>

NextBench ==
    /\ pc = "bench"
    /\ bench < NumBenches
    /\ bench' = bench + 1
    /\ IF UnloadBetween /\ bench > 0
       THEN Call("unload", NoModel, "unload")
       ELSE Goto("run")
    /\ UNCHANGED <<conf, site, model, tables, ghosts, interrupts, status>>

(* What unload_all answered is not looked at.                              *)
UnloadedBetween ==
    /\ pc = "unload"
    /\ op = "idle"
    /\ site' = "between"
    /\ Goto("current")
    /\ UNCHANGED <<conf, model, bench, tables, ghosts, interrupts, status>>

Benchmarked == fresh' = FALSE /\ unchecked' = TRUE

runUnchanged == <<conf, model, bench, saved, interrupts>>

(* A result (bound to the manifest's tasks, where there are any) is a row  *)
(* before the model is checked again.                                      *)
Result ==
    /\ pc = "run"
    /\ model_results' = model_results \cup {<<model, bench>>}
    /\ all_summary' = all_summary \cup {<<model, bench>>}
    /\ Benchmarked
    /\ site' = "ensure"
    /\ Goto("ensure")
    /\ UNCHANGED <<runUnchanged, status>>

(* Mutant of NoResult: a missing result is passed over in a manifest run.  *)
NoResult_Tolerated ==
    /\ pc = "run"
    /\ Benchmarked
    /\ site' = "ensure"
    /\ Goto("ensure")
    /\ UNCHANGED <<runUnchanged, model_results, all_summary, status>>

(* No result, or a result for other tasks than the manifest's.             *)
NoResult ==
    /\ pc = "run"
    /\ Benchmarked
    /\ site' = "ensure"
    /\ IF Strict THEN Raise ELSE Goto("ensure") /\ UNCHANGED status
    /\ UNCHANGED <<runUnchanged, model_results, all_summary>>

(* Mutant of Caught: the error is swallowed in a manifest run too.         *)
Caught_Always ==
    /\ pc = "run"
    /\ Benchmarked
    /\ Goto("bench")
    /\ UNCHANGED <<runUnchanged, site, model_results, all_summary, status>>

(* A time-out or an error the loop catches: the check is skipped.          *)
Caught ==
    /\ pc = "run"
    /\ Benchmarked
    /\ IF Strict THEN Raise ELSE Goto("bench") /\ UNCHANGED status
    /\ UNCHANGED <<runUnchanged, site, model_results, all_summary>>

(* Any other exception.                                                    *)
NotCaught ==
    /\ pc = "run"
    /\ Benchmarked
    /\ Raise
    /\ UNCHANGED <<runUnchanged, site, model_results, all_summary>>

Ensure ==
    /\ pc = "ensure"
    /\ IF Lifecycle THEN Goto("current") ELSE Call("ready", NoModel, "wait")
    /\ UNCHANGED <<conf, site, model, bench, tables, ghosts, interrupts, status>>

(* Without a report only readiness is waited for, and a time-out warned of.*)
Waited ==
    /\ pc = "wait"
    /\ op = "idle"
    /\ unchecked' = FALSE
    /\ Goto("bench")
    /\ UNCHANGED <<conf, site, model, bench, tables, fresh, interrupts, status>>

BenchesDone ==
    /\ pc = "bench"
    /\ bench = NumBenches
    /\ Goto("write")
    /\ UNCHANGED <<conf, site, model, bench, tables, ghosts, interrupts, status>>

(* _write_intermediate_summary.                                            *)
Write ==
    /\ pc = "write"
    /\ saved' = saved \cup model_results
    /\ Goto("next")
    /\ UNCHANGED <<conf, site, model, bench, model_results, all_summary, ghosts,
                   interrupts, status>>

WriteFails ==
    /\ pc = "write"
    /\ model_results # {}
    /\ Raise
    /\ UNCHANGED <<conf, site, model, bench, tables, ghosts, interrupts>>

-----------------------------------------------------------------------------
(* The ends.                                                               *)

endUnchanged == <<conf, site, model, bench, tables, ghosts, interrupts>>

Except ==
    /\ pc = "except"
    /\ IF Lifecycle
       THEN Call("unload", NoModel, "cleanup") /\ UNCHANGED status
       ELSE Exit("raised") /\ UNCHANGED provider
    /\ UNCHANGED endUnchanged

CleanedUp ==
    /\ pc = "cleanup"
    /\ op = "idle"
    /\ Exit("raised")
    /\ UNCHANGED <<endUnchanged, provider>>

ModelsDone ==
    /\ pc = "next"
    /\ model = NumModels
    /\ IF Lifecycle
       THEN Call("unload", NoModel, "final") /\ UNCHANGED status
       ELSE Exit("done") /\ UNCHANGED provider
    /\ UNCHANGED endUnchanged

(* Mutant of Finished: waits for a successful unload.                      *)
Finished_Insists ==
    /\ Returned("final", "ok")
    /\ Exit("done")
    /\ UNCHANGED <<endUnchanged, provider>>

Finished ==
    /\ pc = "final"
    /\ op = "idle"
    /\ Exit("done")
    /\ UNCHANGED <<endUnchanged, provider>>

InTry == pc \in Try \/ (pc \in Loading /\ site # "first")

(* Ctrl+C.  A provider call under way is abandoned where it stands; inside *)
(* main's try the handler still unloads, and stopping the proxy first does *)
(* not keep it from that.                                                  *)
Interrupt ==
    /\ pc # "gone"
    /\ interrupts < MaxInterrupts
    /\ interrupts' = interrupts + 1
    /\ IF op = "idle" THEN UNCHANGED provider ELSE Provider!Answer(FALSE)
    /\ IF InTry \/ pc = "except"
       THEN pc' = "except" /\ UNCHANGED status
       ELSE Exit(IF pc = "cleanup" THEN "raised" ELSE "uncaught")
    /\ UNCHANGED <<conf, site, model, bench, tables, ghosts>>

-----------------------------------------------------------------------------
(* The provider's steps.                                                   *)

launcher == <<conf, pc, site, model, bench, tables, unchecked, interrupts, status>>

Fill ==
    /\ Lifecycle
    /\ Provider!Fill
    /\ fresh' = TRUE
    /\ UNCHANGED launcher

Vanish == Provider!Vanish /\ UNCHANGED <<launcher, fresh>>

Answer == (\E ok \in BOOLEAN : Provider!Answer(ok)) /\ UNCHANGED <<launcher, fresh>>

Main ==
    \/ NextModel \/ RegistryRejects \/ RegistryAccepts
    \/ Loaded \/ OtherLoaded \/ NothingLoaded \/ Evicted \/ LoadAcknowledged
    \/ Ready \/ NotServed \/ LoadRaises \/ Verify
    \/ Enter \/ NextBench \/ UnloadedBetween
    \/ Result \/ NoResult \/ Caught \/ NotCaught \/ Ensure \/ Waited
    \/ BenchesDone \/ Write \/ WriteFails
    \/ Except \/ CleanedUp \/ ModelsDone \/ Finished

Next == Main \/ Interrupt \/ Fill \/ Vanish \/ Answer

Spec == Init /\ [][Next]_vars

(* The launcher's thread keeps running and every provider call returns     *)
(* (LlamaServer!CallsReturn).                                              *)
Fairness == WF_vars(Main) /\ WF_vars(Answer)

FairSpec == Spec /\ Fairness

-----------------------------------------------------------------------------
(* What holds.                                                             *)

(* A benchmark never runs against another model than the one its row will  *)
(* name, after any history of failed unloads, skipped checks and reloads;  *)
(* the server may have died.                                               *)
RightModel == Lifecycle /\ pc = "run" => slot \in {model, NoModel}

(* A manifest run that comes to its normal end has written a row for every *)
(* model and every benchmark the manifest binds (unless its benchmarks     *)
(* were rejected wholesale, see FailClosed).                               *)
ManifestComplete ==
    status = "done" /\ Manifest /\ (UnloadBetween => Lifecycle)
       => Models \X Bound \subseteq saved

(* No benchmark a manifest binds is left behind without a check.           *)
ManifestChecked ==
    Strict /\ pc \in {"bench", "write"} => ~unchecked

(* "must not leave a process-owned llama-server holding VRAM": true of     *)
(* every way out of main's try and of the normal end, unless the server    *)
(* refused to stop or the user interrupted the clean-up too.               *)
CleanAfterTry ==
    status \in {"done", "raised"} /\ Lifecycle => slot = NoModel \/ reply = "failed"

(* At the normal end the consolidated overview and the per-model summaries *)
(* hold the same rows.                                                     *)
SummariesAgree == status = "done" => all_summary = saved

(* The launcher ends.                                                      *)
Ends == <>[](pc = "gone")

-----------------------------------------------------------------------------
(* What the code's comments and help texts promise, and does not hold.     *)

(* "Fail closed when Variant-B coverage ... is incomplete".                *)
FailClosed == status = "done" /\ Manifest => Models \X Bound \subseteq saved

(* "Reload model between benchmarks".                                      *)
ReloadedBetween ==
    pc = "run" /\ UnloadBetween /\ Lifecycle /\ bench > 1 /\ slot # NoModel => fresh

-----------------------------------------------------------------------------
(* The inductive invariant behind the theorems.                            *)

(* A round before its first benchmark, and between its first benchmark and *)
(* the writing of its rows.                                                *)
Opening == pc \in {"registry", "enter"} \/ (pc \in Loading /\ site = "first")
Between == pc \in {"next", "final"} \/ status = "done"
Working == pc \in Try \ {"enter"} \/ (pc \in Loading /\ site # "first")

(* Which calls may be under way, and how the process ends.                 *)
CallInv ==
    /\ op = "load" => pc = "load" /\ want = model
    /\ op = "ready" => pc \in {"ready", "wait"}
    /\ op = "unload" => pc \in {"evict", "unload", "cleanup", "final"}
    /\ (pc = "gone") = (status # "running")
    /\ pc \in Loading \cup Try \cup {"registry"} => model \in Models
    /\ pc \in {"run", "unload"} \/ (pc \in Loading /\ site = "between") => bench # 0
    /\ pc = "ensure" => site = "ensure"

(* From the moment a load is acknowledged to the end of the round, nothing *)
(* but the round's own model can be in the slot.                           *)
Acknowledged == InTry \/ pc \in {"ready", "verify"} \/ Returned("load", "ok")

SlotInv == Lifecycle /\ Acknowledged => slot \in {model, NoModel}

(* Who has asked for the last unload knows what it answered.               *)
CleanInv ==
    /\ Lifecycle
    /\ pc \in {"cleanup", "final"} \/ status \in {"done", "raised"}
    => op = "unload" \/ slot = NoModel \/ reply = "failed"

(* The rows of a manifest run are complete up to where it is.              *)
Rounds == IF Between THEN model ELSE model - 1
Benches == IF pc \in {"bench", "ensure", "wait", "write"} \/ (pc \in Loading /\ site = "ensure")
           THEN bench ELSE bench - 1

CoverInv == (Manifest /\ (UnloadBetween => Lifecycle)) =>
    /\ Opening \/ Between \/ Working => \A i \in 1..Rounds, j \in Bound : <<i, j>> \in saved
    /\ Working => \A j \in Bound : j <= Benches => <<model, j>> \in model_results
    /\ pc = "write" => bench = NumBenches
    /\ pc = "final" \/ status = "done" => model = NumModels

(* The consolidated rows are those written and those of this round.        *)
SummaryInv ==
    /\ Opening \/ Between => all_summary = saved
    /\ Working => all_summary = saved \cup model_results

IInv == TypeOK /\ CallInv /\ SlotInv /\ CleanInv /\ CoverInv /\ SummaryInv /\ ManifestChecked
=============================================================================
