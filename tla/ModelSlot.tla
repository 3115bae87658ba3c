----------------------------- MODULE ModelSlot -----------------------------
(***************************************************************************)
(* What a process-owning model provider promises its caller: there is one  *)
(* slot (the GPU), the caller asks for one operation at a time, and an     *)
(* answer says something about the slot.  LlamaServer implements this;     *)
(* Launcher is written against it.                                         *)
(***************************************************************************)
CONSTANTS Models,    \* the models a caller may ask for
          NoModel    \* the empty slot

VARIABLES slot,      \* the model whose server occupies the GPU, or NoModel
          op,        \* "idle", or the operation under way
          want,      \* the model of the load under way (or of the last one)
          reply      \* "none" while an operation runs, else its answer

vars == <<slot, op, want, reply>>

Operations == {"load", "unload", "ready"}

Init ==
    /\ slot = NoModel
    /\ op = "idle"
    /\ want = NoModel
    /\ reply = "none"

(* A call begins; it erases the answer of the one before.                  *)
Ask(o, m) ==
    /\ op = "idle"
    /\ op' = o
    /\ want' = m
    /\ reply' = "none"
    /\ UNCHANGED slot

(* Only a load fills the slot, only with its own model, and never over a   *)
(* model that is still there.                                              *)
Fill ==
    /\ op = "load"
    /\ slot = NoModel
    /\ slot' = want
    /\ UNCHANGED <<op, want, reply>>

(* A server may stop, or be stopped, at any moment.                        *)
Vanish ==
    /\ slot # NoModel
    /\ slot' = NoModel
    /\ UNCHANGED <<op, want, reply>>

(* What a positive answer means.  A load may be acknowledged just after    *)
(* its server died, but never over another model's server.                 *)
MayAcknowledge ==
    CASE op = "load"   -> slot \in {want, NoModel}
      [] op = "unload" -> slot = NoModel
      [] OTHER         -> TRUE

Answer(ok) ==
    /\ op # "idle"
    /\ ok => MayAcknowledge
    /\ op' = "idle"
    /\ reply' = IF ok THEN "ok" ELSE "failed"
    /\ UNCHANGED <<slot, want>>

Next ==
    \/ \E m \in Models : Ask("load", m)
    \/ \E o \in {"unload", "ready"} : Ask(o, NoModel)
    \/ Fill
    \/ Vanish
    \/ \E ok \in BOOLEAN : Answer(ok)

Spec == Init /\ [][Next]_vars
=============================================================================
