---------------------------- MODULE LlamaServer ----------------------------
(***************************************************************************)
(* The native llama.cpp provider (src/providers/llama_cpp_provider.py):    *)
(* one _ServerController that owns the llama-server process of one API     *)
(* port, and the LlamaCppProvider calls the launcher makes on it:          *)
(* load_model, unload_all and wait_ready.  The caller is one thread and    *)
(* makes one call at a time; the process, its port and a foreign server    *)
(* that may want the same port move between any two steps of a call.       *)
(***************************************************************************)
EXTENDS Naturals, FiniteSets

CONSTANTS Models,      \* local GGUF identities the resolver knows
          NoModel,     \* model_identifier is None
          Processes,   \* the processes the operating system can still hand out
          NoProcess,   \* controller.process is None
          MaxPolls     \* readiness polls that fit into the ready timeout

ASSUME ServerAssumption ==
    /\ NoModel \notin Models
    /\ NoProcess \notin Processes
    /\ "free" \notin Processes /\ "foreign" \notin Processes
    /\ MaxPolls \in Nat

VARIABLES
    procs,             \* per process: "unborn", "run" or "exit"
    served,            \* per process: the model of its command line
    port,              \* who answers on the API port: "free", "foreign", a process
    process,           \* controller.process
    model_identifier,  \* controller.model_identifier
    pc,                \* where the caller's thread is inside the provider
    op,                \* the provider call under way
    want,              \* candidate.model_identifier of the load under way
    current,           \* the local `current` of load_model
    after,             \* what the caller does once stop() returns
    polls,             \* polls made by the running wait_ready
    reply              \* answer of the last call

callVars   == <<pc, op, want, current, after, polls, reply>>
osVars     == <<procs, served, port>>
serverVars == <<procs, served, port, process, model_identifier, callVars>>

Calls   == {"load", "unload", "ready"}
Stages  == {"idle", "check", "external", "stop", "kill", "stopped", "refused",
            "spawn", "starting", "wait", "health", "listed", "ready", "unready"}

TypeOK ==
    /\ procs \in [Processes -> {"unborn", "run", "exit"}]
    /\ served \in [Processes -> Models \cup {NoModel}]
    /\ port \in {"free", "foreign"} \cup Processes
    /\ process \in Processes \cup {NoProcess}
    /\ model_identifier \in Models \cup {NoModel}
    /\ pc \in Stages
    /\ op \in Calls \cup {"idle"}
    /\ want \in Models \cup {NoModel}
    /\ current \in Models \cup {NoModel}
    /\ after \in {"answer", "spawn", "fail"}
    /\ polls \in 0..MaxPolls
    /\ reply \in {"none", "ok", "failed"}

ServerInit ==
    /\ procs = [p \in Processes |-> "unborn"]
    /\ served = [p \in Processes |-> NoModel]
    /\ port \in {"free", "foreign"}
    /\ process = NoProcess
    /\ model_identifier = NoModel
    /\ pc = "idle"
    /\ op = "idle"
    /\ want = NoModel
    /\ current = NoModel
    /\ after = "answer"
    /\ polls = 0
    /\ reply = "none"

(* is_running: a handle whose poll() is None.                              *)
IsRunning == process # NoProcess /\ procs[process] = "run"

(* current_model: what the provider reports as loaded.                     *)
CurrentModel == IF IsRunning THEN model_identifier ELSE NoModel

Proceed(stage) == pc' = stage /\ UNCHANGED <<op, want, reply>>

EndCall(ok) ==
    /\ pc' = "idle"
    /\ op' = "idle"
    /\ reply' = IF ok THEN "ok" ELSE "failed"
    /\ UNCHANGED <<want, current, after, polls>>

-----------------------------------------------------------------------------
(* The calls.                                                              *)

BeginCall(call, stage, m) ==
    /\ pc = "idle"
    /\ pc' = stage
    /\ op' = call
    /\ want' = m
    /\ reply' = "none"
    /\ polls' = 0
    /\ after' = "answer"
    /\ UNCHANGED <<osVars, process, model_identifier, current>>

LoadModel == \E m \in Models : BeginCall("load", "check", m)
UnloadAll == BeginCall("unload", "stop", NoModel)
WaitReady == BeginCall("ready", "wait", NoModel)

(* The resolver rejects the identity (ModelResolutionError).               *)
Unresolved ==
    /\ pc = "check"
    /\ EndCall(FALSE)
    /\ UNCHANGED <<osVars, process, model_identifier>>

(* Mutant of AlreadyLoaded: any running server will do.                    *)
AlreadyLoaded_AnyModel ==
    /\ pc = "check"
    /\ CurrentModel # NoModel
    /\ EndCall(TRUE)
    /\ UNCHANGED <<osVars, process, model_identifier>>

(* load_model answers at once when its own server already has the model.   *)
AlreadyLoaded ==
    /\ pc = "check"
    /\ CurrentModel = want
    /\ EndCall(TRUE)
    /\ UNCHANGED <<osVars, process, model_identifier>>

NotLoaded ==
    /\ pc = "check"
    /\ CurrentModel # want
    /\ current' = CurrentModel
    /\ Proceed("external")
    /\ UNCHANGED <<osVars, process, model_identifier, after, polls>>

(* _external_server_reachable: GET /models, made only while no own server  *)
(* runs, is answered by a foreign one.                                     *)
ExternalFound ==
    /\ pc = "external"
    /\ ~IsRunning /\ port = "foreign"
    /\ EndCall(FALSE)
    /\ UNCHANGED <<osVars, process, model_identifier>>

(* Nobody answered within the second the probe has, or not with success: a *)
(* foreign server that is slow or wants a key goes unseen.                 *)
NoExternal ==
    /\ pc = "external"
    /\ IF current = NoModel
       THEN Proceed("spawn") /\ UNCHANGED after
       ELSE Proceed("stop") /\ after' = "spawn"
    /\ UNCHANGED <<osVars, process, model_identifier, current, polls>>

-----------------------------------------------------------------------------
(* _ServerController.stop.                                                 *)

Exited(p) ==
    /\ procs' = [procs EXCEPT ![p] = "exit"]
    /\ port' = IF port = p THEN "free" ELSE port
    /\ UNCHANGED served

Forget ==
    /\ process' = NoProcess
    /\ model_identifier' = NoModel
    /\ Proceed("stopped")
    /\ UNCHANGED <<current, after, polls>>

(* There is no handle, or its process has already ended.                   *)
StopEnded ==
    /\ pc \in {"stop", "kill"}
    /\ ~IsRunning
    /\ Forget
    /\ UNCHANGED osVars

(* terminate() or kill(), and the wait that follows it, succeed.           *)
StopEnds ==
    /\ pc \in {"stop", "kill"}
    /\ IsRunning
    /\ Exited(process)
    /\ Forget

TerminateTimesOut ==
    /\ pc = "stop"
    /\ IsRunning
    /\ Proceed("kill")
    /\ UNCHANGED <<osVars, process, model_identifier, current, after, polls>>

(* Mutant of KillTimesOut: the handle is dropped with the process alive.   *)
KillTimesOut_Forgets ==
    /\ pc = "kill"
    /\ IsRunning
    /\ Forget
    /\ UNCHANGED osVars

(* stop() returns False and keeps the handle.                              *)
KillTimesOut ==
    /\ pc = "kill"
    /\ IsRunning
    /\ Proceed("refused")
    /\ UNCHANGED <<osVars, process, model_identifier, current, after, polls>>

StopReturns ==
    /\ pc \in {"stopped", "refused"}
    /\ CASE after = "answer" -> EndCall(pc = "stopped")
         [] after = "fail"   -> EndCall(FALSE)
         [] OTHER ->
              IF pc = "stopped"
              THEN Proceed("spawn") /\ UNCHANGED <<current, after, polls>>
              ELSE EndCall(FALSE)
    /\ UNCHANGED <<osVars, process, model_identifier>>

-----------------------------------------------------------------------------
(* _ServerController.start.                                                *)

(* The executable is missing; nothing was touched.                         *)
NoExecutable ==
    /\ pc = "spawn"
    /\ EndCall(FALSE)
    /\ UNCHANGED <<osVars, process, model_identifier>>

(* Popen raises: the old handle is dropped.                                *)
PopenFails ==
    /\ pc = "spawn"
    /\ process' = IF IsRunning THEN process ELSE NoProcess
    /\ EndCall(FALSE)
    /\ UNCHANGED <<osVars, model_identifier>>

Popen ==
    /\ pc = "spawn"
    /\ ~IsRunning
    /\ \E p \in Processes :
          /\ procs[p] = "unborn"
          /\ procs' = [procs EXCEPT ![p] = "run"]
          /\ served' = [served EXCEPT ![p] = want]
          /\ process' = p
    /\ Proceed("starting")
    /\ UNCHANGED <<port, model_identifier, current, after, polls>>

StartDies ==
    /\ pc = "starting"
    /\ ~IsRunning
    /\ EndCall(FALSE)
    /\ UNCHANGED <<osVars, process, model_identifier>>

(* Mutant of StartSurvives: the model is not recorded.                     *)
StartSurvives_Unrecorded ==
    /\ pc = "starting"
    /\ IsRunning
    /\ polls' = 0
    /\ pc' = "wait"
    /\ UNCHANGED <<osVars, process, model_identifier, op, want, reply, current, after>>

(* The process outlived the startup window: load_model records the model.  *)
StartSurvives ==
    /\ pc = "starting"
    /\ IsRunning
    /\ model_identifier' = want
    /\ polls' = 0
    /\ pc' = "wait"
    /\ UNCHANGED <<osVars, process, op, want, reply, current, after>>

-----------------------------------------------------------------------------
(* wait_ready: is_running, GET /health, GET /models, sleep, again.         *)

WaitChecks ==
    /\ pc = "wait"
    /\ polls < MaxPolls
    /\ IsRunning
    /\ polls' = polls + 1
    /\ Proceed("health")
    /\ UNCHANGED <<osVars, process, model_identifier, current, after>>

WaitDies ==
    /\ pc = "wait"
    /\ ~IsRunning
    /\ Proceed("unready")
    /\ UNCHANGED <<osVars, process, model_identifier, current, after, polls>>

(* Mutant of WaitTimesOut: a running server is waited for without end.     *)
WaitTimesOut_Never ==
    /\ pc = "wait"
    /\ ~IsRunning
    /\ Proceed("unready")
    /\ UNCHANGED <<osVars, process, model_identifier, current, after, polls>>

WaitTimesOut ==
    /\ pc = "wait"
    /\ Proceed("unready")
    /\ UNCHANGED <<osVars, process, model_identifier, current, after, polls>>

(* Whoever holds the port answers the probe.                               *)
ProbeAnswered ==
    /\ pc \in {"health", "listed"}
    /\ port # "free"
    /\ Proceed(IF pc = "health" THEN "listed" ELSE "ready")
    /\ UNCHANGED <<osVars, process, model_identifier, current, after, polls>>

ProbeFails ==
    /\ pc \in {"health", "listed"}
    /\ Proceed("wait")
    /\ UNCHANGED <<osVars, process, model_identifier, current, after, polls>>

(* Mutant of WaitReturns: a server that never became ready stays.          *)
WaitReturns_KeepsServer ==
    /\ pc \in {"ready", "unready"}
    /\ EndCall(pc = "ready")
    /\ UNCHANGED <<osVars, process, model_identifier>>

(* wait_ready returns: to the launcher, or into load_model, which stops a  *)
(* server that never became ready and ignores whether the stop worked.     *)
WaitReturns ==
    /\ pc \in {"ready", "unready"}
    /\ IF op = "load" /\ pc = "unready"
       THEN /\ Proceed("stop")
            /\ after' = "fail"
            /\ UNCHANGED <<current, polls>>
       ELSE EndCall(pc = "ready")
    /\ UNCHANGED <<osVars, process, model_identifier>>

Provider ==
    \/ Unresolved \/ AlreadyLoaded \/ NotLoaded
    \/ ExternalFound \/ NoExternal
    \/ StopEnded \/ StopEnds \/ TerminateTimesOut \/ KillTimesOut \/ StopReturns
    \/ NoExecutable \/ PopenFails \/ Popen \/ StartDies \/ StartSurvives
    \/ WaitChecks \/ WaitDies \/ WaitTimesOut
    \/ ProbeAnswered \/ ProbeFails \/ WaitReturns

-----------------------------------------------------------------------------
(* The environment: the server process and the port.                       *)

Bind(p) ==
    /\ procs[p] = "run"
    /\ port = "free"
    /\ port' = p
    /\ UNCHANGED <<procs, served, process, model_identifier, callVars>>

(* Out of memory, a bad model file, a port that is taken...                *)
Crash(p) ==
    /\ procs[p] = "run"
    /\ Exited(p)
    /\ UNCHANGED <<process, model_identifier, callVars>>

ForeignArrives ==
    /\ port = "free"
    /\ port' = "foreign"
    /\ UNCHANGED <<procs, served, process, model_identifier, callVars>>

ForeignLeaves ==
    /\ port = "foreign"
    /\ port' = "free"
    /\ UNCHANGED <<procs, served, process, model_identifier, callVars>>

Environment ==
    \/ \E p \in Processes : Bind(p) \/ Crash(p)
    \/ ForeignArrives \/ ForeignLeaves

ServerNext == LoadModel \/ UnloadAll \/ WaitReady \/ Provider \/ Environment

ServerSpec == ServerInit /\ [][ServerNext]_serverVars

(* Every wait in the provider has a timeout: its thread keeps moving.      *)
ServerFairness == WF_serverVars(Provider)

ServerFairSpec == ServerSpec /\ ServerFairness

-----------------------------------------------------------------------------
(* Properties.                                                             *)

(* The controller "owns exactly one llama-server process": whatever dies,  *)
(* times out or refuses to stop, a running server is the one the handle    *)
(* points to, so no server is ever lost or doubled.                        *)
NoLostServer == \A p \in Processes : procs[p] = "run" => p = process

(* Between calls, the model the provider reports is the one its running    *)
(* server was started with, even after crashes left old names behind.      *)
ReportIsTrue ==
    pc = "idle" /\ IsRunning => model_identifier = served[process]

(* A load that fails after it began to change things leaves no server      *)
(* behind, except where the operating system refused to end one.           *)
NoLeftover ==
    [][op = "load" /\ reply' = "failed" /\ pc \notin {"check", "refused"} => ~IsRunning']_serverVars

(* The answer that makes wait_ready report a loaded model comes from the   *)
(* server that load_model started ("Start, Readiness, ... process-owned"). *)
(* The code asks the port, not the process.                                *)
ReadinessIsOwn ==
    [][op = "load" /\ pc = "listed" /\ pc' = "ready" => port = process]_serverVars

(* Every provider call returns.                                            *)
CallsReturn == []<>(op = "idle")

(* The promise to the launcher.                                            *)
Slot ==
    IF \E p \in Processes : procs[p] = "run"
    THEN served[CHOOSE p \in Processes : procs[p] = "run"]
    ELSE NoModel

Promise == INSTANCE ModelSlot WITH slot <- Slot
ImplementsModelSlot == Promise!Spec

-----------------------------------------------------------------------------
(* The inductive invariant behind the theorems: the handle is the only     *)
(* running process, and inside each stretch of a call the running process  *)
(* is known to carry a particular model.                                   *)
Loading == op = "load" /\ (pc \in {"starting", "wait", "health", "listed", "ready", "unready"}
                           \/ after = "fail")

IdentityInv ==
    /\ IsRunning /\ pc # "starting" =>
          model_identifier = served[process] /\ model_identifier # NoModel
    /\ IsRunning /\ Loading => served[process] = want
    /\ pc = "starting" => op = "load"

StageInv ==
    /\ (pc = "idle") = (op = "idle")
    /\ op # "idle" => reply = "none"
    /\ op = "load" => want \in Models
    /\ pc \in {"check", "external", "spawn"} => op = "load"
    /\ pc = "external" /\ current = NoModel => ~IsRunning
    /\ pc \in {"spawn", "stopped"} => ~IsRunning
    /\ after = "spawn" => op \in {"load", "idle"}
    /\ op = "unload" => pc \in {"stop", "kill", "stopped", "refused"} /\ after = "answer"
    /\ op = "load" /\ pc \in {"stop", "kill", "stopped", "refused"} => after \in {"spawn", "fail"}
    /\ pc \in {"stop", "kill", "stopped", "refused"} => op \in {"load", "unload"}

IInv == TypeOK /\ NoLostServer /\ IdentityInv /\ StageInv
=============================================================================
