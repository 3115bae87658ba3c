------------------------- MODULE LlamaServerProofs -------------------------
(***************************************************************************)
(* Proofs about LlamaServer, for every set of models and processes and     *)
(* every poll budget.  IInv is inductive; the safety properties and the    *)
(* refinement of ModelSlot follow from it.                                 *)
(***************************************************************************)
EXTENDS LlamaServer, TLAPS

USE ServerAssumption DEF ServerAssumption

(* The inductive invariant holds initially.                                *)
LEMMA InitIInv == ServerInit => IInv
  <1> SUFFICES ASSUME ServerInit PROVE IInv
    OBVIOUS
  <1>1. TypeOK
    <2>1. polls \in 0..MaxPolls
      BY DEF ServerInit
    <2>2. procs \in [Processes -> {"unborn", "run", "exit"}] /\ served \in [Processes -> Models \cup {NoModel}]
      BY DEF ServerInit
    <2>3. pc \in Stages /\ op \in Calls \cup {"idle"}
      BY DEF ServerInit, Stages, Calls
    <2> QED
      BY <2>1, <2>2, <2>3 DEF ServerInit, TypeOK
  <1>2. NoLostServer /\ IdentityInv
    BY DEF ServerInit, NoLostServer, IdentityInv, Loading, IsRunning
  <1>3. StageInv
    BY DEF ServerInit, StageInv, CurrentModel, IsRunning
  <1> QED
    BY <1>1, <1>2, <1>3 DEF IInv

(* Steps of the environment: the process may end or bind, and a foreign    *)
(* server may come and go; the caller's thread does not move.              *)
LEMMA EnvironmentIInv == IInv /\ Environment => IInv'
  <1> SUFFICES ASSUME IInv, Environment PROVE IInv'
    OBVIOUS
  <1> USE DEF IInv, TypeOK, NoLostServer, IdentityInv, StageInv, CurrentModel, Loading, IsRunning,
              callVars, osVars
  <1>1. ASSUME NEW p \in Processes, Bind(p) PROVE IInv'
    BY <1>1 DEF Bind
  <1>2. ASSUME NEW p \in Processes, Crash(p) PROVE IInv'
    BY <1>2 DEF Crash, Exited
  <1>3. CASE ForeignArrives
    BY <1>3 DEF ForeignArrives
  <1>4. CASE ForeignLeaves
    BY ZenonT(40), <1>4 DEF ForeignLeaves
  <1> QED
    BY <1>1, <1>2, <1>3, <1>4 DEF Environment

(* A call begins.                                                          *)
LEMMA BeginIInv == IInv /\ (LoadModel \/ UnloadAll \/ WaitReady) => IInv'
  <1> SUFFICES ASSUME IInv, LoadModel \/ UnloadAll \/ WaitReady PROVE IInv'
    OBVIOUS
  <1> USE DEF IInv, TypeOK, NoLostServer, IdentityInv, StageInv, CurrentModel, Loading, IsRunning,
              BeginCall, osVars, Stages, Calls
  <1>1. ASSUME NEW m \in Models, BeginCall("load", "check", m) PROVE IInv'
    BY <1>1
  <1>2. CASE UnloadAll
    BY <1>2 DEF UnloadAll
  <1>3. CASE WaitReady
    BY <1>3 DEF WaitReady
  <1> QED
    BY <1>1, <1>2, <1>3 DEF LoadModel

(* The steps of load_model before and after the server is started.         *)
LEMMA LoadIInv ==
  ASSUME IInv,
         \/ Unresolved \/ AlreadyLoaded \/ NotLoaded \/ ExternalFound \/ NoExternal
         \/ NoExecutable \/ PopenFails \/ Popen \/ StartDies \/ StartSurvives
  PROVE  IInv'
  <1> USE DEF IInv, TypeOK, NoLostServer, IdentityInv, StageInv, CurrentModel, Loading, IsRunning,
              EndCall, Proceed, osVars, Stages, Calls
  <1>1. CASE Unresolved
    BY <1>1 DEF Unresolved
  <1>2. CASE AlreadyLoaded
    BY <1>2 DEF AlreadyLoaded
  <1>3. CASE NotLoaded
    BY <1>3 DEF NotLoaded
  <1>4. CASE ExternalFound
    BY <1>4 DEF ExternalFound
  <1>5. CASE NoExternal
    BY <1>5 DEF NoExternal
  <1>6. CASE NoExecutable
    BY <1>6 DEF NoExecutable
  <1>7. CASE PopenFails
    BY <1>7 DEF PopenFails
  <1>8. CASE Popen
    BY <1>8 DEF Popen
  <1>9. CASE StartDies
    BY <1>9 DEF StartDies
  <1>10. CASE StartSurvives
    <2>1. TypeOK'
      <3>1. /\ polls' = 0 /\ pc' = "wait" /\ model_identifier' = want
            /\ UNCHANGED <<osVars, process, op, want, reply, current, after>>
        BY <1>10 DEF StartSurvives
      <3>2. polls' \in 0..MaxPolls
        BY <3>1
      <3>3. pc' \in Stages
        BY <3>1
      <3> QED
        BY <3>1, <3>2, <3>3
    <2>2. NoLostServer' /\ IdentityInv'
      BY <1>10 DEF StartSurvives
    <2>3. StageInv'
      BY <1>10 DEF StartSurvives
    <2> QED
      BY <2>1, <2>2, <2>3
  <1> QED
    BY <1>1, <1>2, <1>3, <1>4, <1>5, <1>6, <1>7, <1>8, <1>9, <1>10

(* The steps of stop().                                                    *)
LEMMA StopIInv ==
  ASSUME IInv, StopEnded \/ StopEnds \/ TerminateTimesOut \/ KillTimesOut \/ StopReturns
  PROVE  IInv'
  <1> USE DEF IInv, TypeOK, NoLostServer, IdentityInv, StageInv, CurrentModel, Loading, IsRunning,
              EndCall, Proceed, Forget, Exited, osVars, Stages, Calls
  <1>1. CASE StopEnded
    BY <1>1 DEF StopEnded
  <1>2. CASE StopEnds
    BY <1>2 DEF StopEnds
  <1>3. CASE TerminateTimesOut
    BY <1>3 DEF TerminateTimesOut
  <1>4. CASE KillTimesOut
    BY <1>4 DEF KillTimesOut
  <1>5. CASE StopReturns
    BY <1>5 DEF StopReturns
  <1> QED
    BY <1>1, <1>2, <1>3, <1>4, <1>5

(* The steps of wait_ready.                                                *)
LEMMA WaitIInv ==
  ASSUME IInv,
         \/ WaitChecks \/ WaitDies \/ WaitTimesOut
         \/ ProbeAnswered \/ ProbeFails \/ WaitReturns
  PROVE  IInv'
  <1> USE DEF IInv, TypeOK, NoLostServer, IdentityInv, StageInv, CurrentModel, Loading, IsRunning,
              EndCall, Proceed, osVars, Stages, Calls
  <1>1. CASE WaitChecks
    BY <1>1 DEF WaitChecks
  <1>2. CASE WaitDies
    BY <1>2 DEF WaitDies
  <1>3. CASE WaitTimesOut
    BY <1>3 DEF WaitTimesOut
  <1>4. CASE ProbeAnswered
    BY <1>4 DEF ProbeAnswered
  <1>5. CASE ProbeFails
    BY <1>5 DEF ProbeFails
  <1>6. CASE WaitReturns
    BY <1>6 DEF WaitReturns
  <1> QED
    BY <1>1, <1>2, <1>3, <1>4, <1>5, <1>6

LEMMA StepIInv == IInv /\ [ServerNext]_serverVars => IInv'
  <1> SUFFICES ASSUME IInv, [ServerNext]_serverVars PROVE IInv'
    OBVIOUS
  <1>1. CASE LoadModel \/ UnloadAll \/ WaitReady
    BY <1>1, BeginIInv
  <1>2. CASE Provider
    BY <1>2, LoadIInv, StopIInv, WaitIInv DEF Provider
  <1>3. CASE Environment
    BY <1>3, EnvironmentIInv
  <1>4. CASE UNCHANGED serverVars
    BY <1>4 DEF serverVars, callVars, IInv, TypeOK, NoLostServer, IdentityInv, StageInv,
                CurrentModel, Loading, IsRunning
  <1> QED
    BY <1>1, <1>2, <1>3, <1>4 DEF ServerNext

(* The inductive invariant, and with it type correctness.                  *)
THEOREM InductiveInvariant == ServerSpec => []IInv
  BY InitIInv, StepIInv, PTL DEF ServerSpec

(* A controller never loses or doubles a server, whatever crashes, times   *)
(* out or refuses to end.                                                  *)
THEOREM OneServer == ServerSpec => []NoLostServer
  <1>1. IInv => NoLostServer
    BY DEF IInv
  <1> QED
    BY <1>1, InductiveInvariant, PTL

(* Between calls the provider reports the model its server really carries. *)
THEOREM Report == ServerSpec => []ReportIsTrue
  <1>1. IInv => ReportIsTrue
    BY DEF IInv, IdentityInv, ReportIsTrue
  <1> QED
    BY <1>1, InductiveInvariant, PTL

(* A load that fails after it began to change things leaves no server of   *)
(* its own behind unless the system refused to end one.                    *)
THEOREM Leftover == ServerSpec => NoLeftover
  <1>1. ASSUME IInv, ServerNext, op = "load", reply' = "failed", pc \notin {"check", "refused"}
        PROVE  ~IsRunning'
    <2> USE <1>1 DEF IInv, StageInv, TypeOK
    <2>1. pc # "idle" /\ reply = "none"
      OBVIOUS
    <2>2. Provider
      BY <2>1 DEF ServerNext, LoadModel, UnloadAll, WaitReady, BeginCall, Environment, Bind,
                  Crash, ForeignArrives, ForeignLeaves, callVars
    <2>3. ExternalFound \/ StopReturns \/ NoExecutable \/ PopenFails \/ StartDies \/ WaitReturns
      BY <2>1, <2>2 DEF Provider, Unresolved, AlreadyLoaded, NotLoaded, NoExternal, StopEnded,
                        StopEnds, TerminateTimesOut, KillTimesOut, Popen, StartSurvives,
                        WaitChecks, WaitDies, WaitTimesOut, ProbeAnswered, ProbeFails,
                        Forget, Proceed
    <2>4. ~IsRunning
      BY <2>3, <2>1 DEF ExternalFound, StopReturns, NoExecutable, PopenFails,
                        StartDies, WaitReturns, Proceed, EndCall
    <2> QED
      BY <2>3, <2>4 DEF ExternalFound, StopReturns, NoExecutable, PopenFails,
                        StartDies, WaitReturns, Proceed, EndCall, osVars, IsRunning
  <1> QED
    BY <1>1, InductiveInvariant, PTL DEF NoLeftover, ServerSpec

-----------------------------------------------------------------------------
(* Refinement.                                                             *)

(* The provider keeps the promise the launcher is written against: every   *)
(* step of the server, its controller and the port is a step of ModelSlot  *)
(* or leaves it unchanged.                                                 *)
THEOREM Refinement == ServerSpec => ImplementsModelSlot
  <1>1. ServerInit => Promise!Init
    BY DEF ServerInit, Promise!Init, Slot
  <1>2. ASSUME IInv, IInv', [ServerNext]_serverVars PROVE [Promise!Next]_(Promise!vars)
    <2> USE <1>2 DEF IInv, Promise!vars
    <2> DEFINE S == IF IsRunning THEN served[process] ELSE NoModel
    <2>1. Slot = S
      BY DEF Slot, NoLostServer, IsRunning, TypeOK
    <2>2. Slot' = S'
      BY DEF Slot, NoLostServer, IsRunning, TypeOK
    <2>3. CASE LoadModel \/ UnloadAll \/ WaitReady
      <3>1. S' = S
        BY <2>3 DEF LoadModel, UnloadAll, WaitReady, BeginCall, osVars, IsRunning
      <3>2. \/ \E m \in Models : Promise!Ask("load", m)
            \/ \E o \in {"unload", "ready"} : Promise!Ask(o, NoModel)
        BY <2>1, <2>2, <2>3, <3>1 DEF LoadModel, UnloadAll, WaitReady, BeginCall, Promise!Ask, StageInv
      <3> QED
        BY <3>2 DEF Promise!Next
    <2>4. CASE Environment
      <3>1. UNCHANGED <<op, want, reply>>
        BY <2>4 DEF Environment, Bind, Crash, ForeignArrives, ForeignLeaves,
                    callVars
      <3>2. S' = S \/ S' = NoModel
        BY <2>4 DEF Environment, Bind, Crash, ForeignArrives, ForeignLeaves,
                    IsRunning, Exited, TypeOK
      <3> QED
        BY <2>1, <2>2, <3>1, <3>2 DEF Promise!Next, Promise!Vanish
    <2>5. CASE Provider
      <3> USE DEF Proceed, EndCall, osVars, IsRunning
      <3>1. CASE NotLoaded \/ NoExternal
        BY <3>1, <2>1, <2>2 DEF NotLoaded, NoExternal
      <3>2. CASE Unresolved \/ AlreadyLoaded \/ ExternalFound \/ NoExecutable \/ StartDies
        <4>1. S' = S /\ op # "idle" /\ (reply' = "ok" => op = "load" /\ S = want)
          BY <3>2 DEF Unresolved, AlreadyLoaded, ExternalFound, NoExecutable, StartDies,
                      StageInv, IdentityInv, CurrentModel
        <4>2. \E ok \in BOOLEAN : Promise!Answer(ok)
          <5>1. Promise!Answer(reply' = "ok")
            BY <3>2, <2>1, <2>2, <4>1 DEF Unresolved, AlreadyLoaded, ExternalFound,
               NoExecutable, StartDies, Promise!Answer, Promise!MayAcknowledge
          <5> QED
            BY <5>1
        <4> QED
          BY <4>2 DEF Promise!Next
      <3>3. CASE PopenFails
        <4>1. Promise!Answer(FALSE)
          BY <3>3, <2>1, <2>2 DEF PopenFails, Promise!Answer, StageInv
        <4> QED
          BY <4>1 DEF Promise!Next
      <3>4. CASE Popen
        <4>1. S = NoModel /\ S' = want /\ op = "load"
          BY <3>4 DEF Popen, StageInv, TypeOK
        <4>2. Promise!Fill
          BY <3>4, <4>1, <2>1, <2>2 DEF Popen, Promise!Fill
        <4> QED
          BY <4>2 DEF Promise!Next
      <3>5. CASE StartSurvives \/ WaitChecks \/ WaitDies \/ WaitTimesOut \/ ProbeAnswered \/ ProbeFails
        BY <3>5, <2>1, <2>2 DEF StartSurvives, WaitChecks, WaitDies, WaitTimesOut,
                                ProbeAnswered, ProbeFails
      <3>6. CASE TerminateTimesOut \/ KillTimesOut \/ StopEnded
        BY <3>6, <2>1, <2>2 DEF TerminateTimesOut, KillTimesOut, StopEnded, Forget
      <3>7. CASE StopEnds
        <4>1. S' = NoModel /\ UNCHANGED <<op, want, reply>>
          BY <3>7 DEF StopEnds, Forget
        <4> QED
          BY <4>1, <2>1, <2>2 DEF Promise!Next, Promise!Vanish
      <3>8. CASE StopReturns
        <4>1. S' = S /\ op # "idle" /\ op # "ready"
          BY <3>8 DEF StopReturns, StageInv
        <4>2. CASE UNCHANGED <<op, want, reply>>
          BY <4>1, <4>2, <2>1, <2>2
        <4>3. CASE ~UNCHANGED <<op, want, reply>>
          <5>1. op = "unload" \/ reply' = "failed"
            BY <3>8, <4>1, <4>3 DEF StopReturns, StageInv, TypeOK, Calls
          <5>2. reply' = "ok" => S = NoModel
            BY <3>8, <5>1 DEF StopReturns, StageInv
          <5>3. Promise!Answer(reply' = "ok")
            BY <3>8, <4>1, <4>3, <5>1, <5>2, <2>1, <2>2
               DEF StopReturns, Promise!Answer, Promise!MayAcknowledge
          <5> QED
            BY <5>3 DEF Promise!Next
        <4> QED
          BY <4>2, <4>3
      <3>9. CASE WaitReturns
        <4>1. S' = S /\ op \in {"load", "ready"}
          BY <3>9 DEF WaitReturns, StageInv, TypeOK, Calls
        <4>2. CASE op = "load" /\ pc = "unready"
          BY <3>9, <4>1, <4>2, <2>1, <2>2 DEF WaitReturns
        <4>3. CASE ~(op = "load" /\ pc = "unready")
          <5>1. op = "load" => S \in {want, NoModel}
            BY <3>9, <4>3 DEF WaitReturns, IdentityInv, Loading
          <5>2. Promise!Answer(pc = "ready")
            BY <3>9, <4>1, <4>3, <5>1, <2>1, <2>2
               DEF WaitReturns, Promise!Answer, Promise!MayAcknowledge
          <5> QED
            BY <5>2 DEF Promise!Next
        <4> QED
          BY <4>2, <4>3
      <3> QED
        BY <2>5, <3>1, <3>2, <3>3, <3>4, <3>5, <3>6, <3>7, <3>8, <3>9 DEF Provider
    <2>6. CASE UNCHANGED serverVars
      BY <2>6, <2>1, <2>2 DEF serverVars, callVars, IsRunning
    <2> QED
      BY <1>2, <2>3, <2>4, <2>5, <2>6 DEF ServerNext
  <1> QED
    BY <1>1, <1>2, InductiveInvariant, PTL DEF ServerSpec, Promise!Spec, ImplementsModelSlot

-----------------------------------------------------------------------------
(* Progress.  That calls return needs fairness and stays with TLC; how far *)
(* a call can be from its return does not.                                 *)

(* The most steps the thread can still take before the call returns, from  *)
(* a stage, what the caller does after a stop, and the polls made so far.  *)
PollsLeft(made) == 4 * (MaxPolls - made)

StepsFrom(stage, then, made) ==
    CASE stage = "idle"     -> 0
      [] stage = "ready"    -> 1
      [] stage = "unready"  -> 4
      [] stage = "wait"     -> PollsLeft(made) + 5
      [] stage = "listed"   -> PollsLeft(made) + 6
      [] stage = "health"   -> PollsLeft(made) + 7
      [] stage = "starting" -> 4 * MaxPolls + 6
      [] stage = "spawn"    -> 4 * MaxPolls + 7
      [] stage = "external" -> 4 * MaxPolls + 11
      [] stage = "check"    -> 4 * MaxPolls + 12
      [] stage = "stop"     -> (IF then = "spawn" THEN 4 * MaxPolls + 7 ELSE 0) + 3
      [] stage = "kill"     -> (IF then = "spawn" THEN 4 * MaxPolls + 7 ELSE 0) + 2
      [] OTHER              -> (IF then = "spawn" THEN 4 * MaxPolls + 7 ELSE 0) + 1

StepsLeft == StepsFrom(pc, after, polls)

MaxSteps == 4 * MaxPolls + 12

(* No call takes more steps than its stages and the poll budget allow.     *)
CallsAreBounded == StepsLeft \in 0..MaxSteps /\ (op = "idle") = (StepsLeft = 0)

(* Whatever the thread does within a call, stopping an old server, giving  *)
(* up on a new one or polling again, brings it closer to its return; no    *)
(* crash and no foreign server sets it back.                               *)
CallsMoveOn ==
    [][op # "idle" => IF Provider THEN StepsLeft' < StepsLeft
                                  ELSE StepsLeft' = StepsLeft]_serverVars

(* The count at every point of a call.                                     *)
LEMMA StepsAt ==
  ASSUME NEW then, NEW made \in 0..MaxPolls
  PROVE  /\ PollsLeft(made) \in 0..(4 * MaxPolls)
         /\ StepsFrom("idle", then, made) = 0
         /\ StepsFrom("ready", then, made) = 1
         /\ StepsFrom("unready", then, made) = 4
         /\ StepsFrom("wait", then, made) = PollsLeft(made) + 5
         /\ StepsFrom("listed", then, made) = PollsLeft(made) + 6
         /\ StepsFrom("health", then, made) = PollsLeft(made) + 7
         /\ StepsFrom("starting", then, made) = 4 * MaxPolls + 6
         /\ StepsFrom("spawn", then, made) = 4 * MaxPolls + 7
         /\ StepsFrom("external", then, made) = 4 * MaxPolls + 11
         /\ StepsFrom("check", then, made) = 4 * MaxPolls + 12
         /\ then = "spawn" =>
               /\ StepsFrom("stop", then, made) = 4 * MaxPolls + 10
               /\ StepsFrom("kill", then, made) = 4 * MaxPolls + 9
               /\ \A s \in {"stopped", "refused"} : StepsFrom(s, then, made) = 4 * MaxPolls + 8
         /\ then # "spawn" =>
               /\ StepsFrom("stop", then, made) = 3
               /\ StepsFrom("kill", then, made) = 2
               /\ \A s \in {"stopped", "refused"} : StepsFrom(s, then, made) = 1
  <1>1. PollsLeft(made) \in 0..(4 * MaxPolls)
    BY DEF PollsLeft
  <1>2. CASE then = "spawn"
    BY <1>1, <1>2 DEF StepsFrom
  <1>3. CASE then # "spawn"
    BY <1>1, <1>3 DEF StepsFrom
  <1> QED
    BY <1>2, <1>3

(* load_model, unload and is_ready make at most MaxSteps steps of their own *)
(* before they return, and exactly a returned call has none left.          *)
THEOREM BoundedCalls == ServerSpec => []CallsAreBounded
  <1>1. ASSUME IInv PROVE CallsAreBounded
    <2>1. /\ pc \in Stages /\ polls \in 0..MaxPolls
          /\ (pc = "idle") = (op = "idle")
      BY <1>1 DEF IInv, TypeOK, StageInv
    <2>2. StepsLeft \in 0..MaxSteps /\ (StepsLeft = 0 <=> pc = "idle")
      <3>1. CASE after = "spawn"
        BY <2>1, <3>1, StepsAt DEF StepsLeft, MaxSteps, Stages
      <3>2. CASE after # "spawn"
        BY <2>1, <3>2, StepsAt DEF StepsLeft, MaxSteps, Stages
      <3> QED
        BY <3>1, <3>2
    <2> QED
      BY <2>1, <2>2 DEF CallsAreBounded
  <1> QED
    BY <1>1, InductiveInvariant, PTL

(* Every step of the calling thread brings load_model, unload or is_ready  *)
(* nearer to its return, and no step of anybody else takes it further off. *)
THEOREM ProgressOfCalls == ServerSpec => CallsMoveOn
  <1>1. ASSUME IInv, [ServerNext]_serverVars, op # "idle"
        PROVE  IF Provider THEN StepsLeft' < StepsLeft ELSE StepsLeft' = StepsLeft
    <2>1. /\ pc # "idle" /\ polls \in 0..MaxPolls
          /\ pc \in {"stopped", "refused"} /\ op = "load" => after \in {"spawn", "fail"}
          /\ after \in {"answer", "spawn", "fail"}
      BY <1>1 DEF IInv, TypeOK, StageInv
    <2>2. CASE Provider
      <3> SUFFICES StepsLeft' < StepsLeft
        BY <2>2
      <3> USE <2>1, StepsAt DEF StepsLeft, Proceed, EndCall
      <3>1. CASE \/ Unresolved \/ AlreadyLoaded \/ ExternalFound
                 \/ NoExecutable \/ PopenFails \/ StartDies
        <4>1. pc' = "idle" /\ polls' = polls /\ pc \in {"check", "external", "spawn", "starting"}
          BY <3>1 DEF Unresolved, AlreadyLoaded, ExternalFound, NoExecutable, PopenFails, StartDies
        <4> QED
          BY <4>1
      <3>2. CASE NotLoaded \/ NoExternal
        BY <3>2 DEF NotLoaded, NoExternal
      <3>3. CASE StopEnded \/ StopEnds \/ TerminateTimesOut \/ KillTimesOut
        BY <3>3 DEF StopEnded, StopEnds, TerminateTimesOut, KillTimesOut, Forget
      <3>4. CASE StopReturns
        BY <3>4 DEF StopReturns
      <3>5. CASE Popen
        BY <3>5 DEF Popen
      <3>6. CASE StartSurvives
        BY <3>6 DEF StartSurvives, PollsLeft
      <3>7. CASE WaitChecks
        BY <3>7 DEF WaitChecks, PollsLeft
      <3>8. CASE WaitDies \/ WaitTimesOut
        BY <3>8 DEF WaitDies, WaitTimesOut
      <3>9. CASE ProbeAnswered \/ ProbeFails
        BY <3>9 DEF ProbeAnswered, ProbeFails
      <3>10. CASE WaitReturns
        BY <3>10 DEF WaitReturns
      <3> QED
        BY <2>2, <3>1, <3>2, <3>3, <3>4, <3>5, <3>6, <3>7, <3>8, <3>9, <3>10 DEF Provider
    <2>3. CASE ~Provider
      <3>1. UNCHANGED <<pc, after, polls>>
        BY <1>1, <2>1, <2>3 DEF ServerNext, LoadModel, UnloadAll, WaitReady, BeginCall, Environment,
           Bind, Crash, ForeignArrives, ForeignLeaves, serverVars, callVars
      <3>2. StepsLeft' = StepsLeft
        BY <3>1 DEF StepsLeft
      <3> QED
        BY <2>3, <3>2
    <2> QED
      BY <2>2, <2>3
  <1> QED
    BY <1>1, InductiveInvariant, PTL DEF ServerSpec, CallsMoveOn
=============================================================================
