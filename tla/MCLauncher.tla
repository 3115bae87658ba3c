----------------------------- MODULE MCLauncher -----------------------------
(***************************************************************************)
(* The launcher: its lock, its loop over models and benchmarks, and the    *)
(* custom benchmark's requests to the model that the loop has loaded.      *)
(* They share no variable: a behaviour runs one of them, its part.         *)
(*   Lock: three launchers, so that a third can profit from what two did   *)
(* to each other, and one tool.                                            *)
(*   Launcher: two models, so that one round meets what another left       *)
(* behind, two benchmarks of which a manifest binds the second, and two    *)
(* interrupts, so that the second can hit the clean-up the first caused.   *)
(*   Generation: two tasks, so that a worker of the first can outlive it   *)
(* into the second, and two tries of two streams each.                     *)
(***************************************************************************)
EXTENDS InstanceLock, Launcher, Generation

VARIABLE part

partVars == <<part, lockVars, vars, gvars>>

(* A part at rest has nothing that must happen: a lock nobody asks for, a  *)
(* launcher that was interrupted before it began, and a benchmark that is  *)
(* over.                                                                   *)
LockRest == LockInit /\ file = "absent"
LauncherRest ==
    /\ conf = {} /\ Provider!Init
    /\ pc = "gone" /\ site = "first" /\ model = 0 /\ bench = 0
    /\ model_results = {} /\ all_summary = {} /\ saved = {}
    /\ fresh = FALSE /\ unchecked = FALSE /\ interrupts = 0 /\ status = "uncaught"
GenerationRest ==
    /\ is_streaming = FALSE /\ task = NumTasks + 1 /\ try = 1 /\ attempt = 0 /\ stage = "over"
    /\ worker = [q \in Requests |-> Blank] /\ late = FALSE /\ stop_reason = FALSE
    /\ outcome = "none" /\ got = {} /\ results = [t \in Tasks |-> [kind |-> "none", got |-> {}]]

PartInit ==
    \/ part = "lock" /\ LockInit /\ LauncherRest /\ GenerationRest
    \/ part = "launcher" /\ Init /\ LockRest /\ GenerationRest
    \/ part = "requests" /\ GInit /\ LockRest /\ LauncherRest

PartNext ==
    \/ part = "lock" /\ LockNext /\ UNCHANGED <<part, vars, gvars>>
    \/ part = "launcher" /\ Next /\ UNCHANGED <<part, lockVars, gvars>>
    \/ part = "requests" /\ GNext /\ UNCHANGED <<part, lockVars, vars>>

PartSpec == PartInit /\ [][PartNext]_partVars

FairPartSpec == PartSpec /\ Fairness /\ GFairness
=============================================================================
