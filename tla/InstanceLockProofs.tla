------------------------- MODULE InstanceLockProofs -------------------------
(***************************************************************************)
(* What the lock file guarantees for any number of launchers and tools, as *)
(* long as the starts of two launchers never overlap: kills at any point,  *)
(* stale or corrupt files, recycled pids and tools that start at any time  *)
(* included.                                                               *)
(***************************************************************************)
EXTENDS InstanceLock, TLAPS

USE LockAssumption DEF LockAssumption

LEMMA InitIInv == LockInit => LockInv
  BY DEF LockInit, LockInv, LockTypeOK, SerialInv, CheckInv, RemoveInv, Owner, Holding,
         Starting, LockNamesOwner, ToolInv, ToolsYield

(* Type correctness needs no assumption on how launchers start.            *)
LEMMA StepType == LockTypeOK /\ [LockNext]_lockVars => LockTypeOK'
<1> SUFFICES ASSUME LockTypeOK, [LockNext]_lockVars PROVE LockTypeOK'
  OBVIOUS
<1> DEFINE Files == /\ file' \in {"absent", "corrupt"} \cup Launchers
                    /\ place' \in [Launchers -> Starting \cup {"off", "refused", "run", "unlocked", "release", "remove"}]
                    /\ seen' \in [Launchers -> {"absent"} \cup Launchers]
                    /\ strangers' \subseteq Launchers
<1> USE DEF LockTypeOK, Starting, Go
<1>1. ASSUME NEW l \in Launchers, Launcher(l) PROVE Files
  <2>1. CASE Start(l)         BY <2>1 DEF Start
  <2>2. CASE Exists(l)        BY <2>2 DEF Exists
  <2>3. CASE Read(l)          BY <2>3 DEF Read
  <2>4. CASE Probe(l)         BY <2>4 DEF Probe, Forgets
  <2>5. CASE Quit(l)          BY <2>5 DEF Quit
  <2>6. CASE Truncate(l)      BY <2>6 DEF Truncate
  <2>7. CASE Dump(l)          BY <2>7 DEF Dump
  <2>8. CASE RunUnlocked(l)   BY <2>8 DEF RunUnlocked
  <2>9. CASE Finish(l)        BY <2>9 DEF Finish
  <2>10. CASE ReleaseReads(l) BY <2>10 DEF ReleaseReads
  <2>11. CASE RemoveFile(l)    BY <2>11 DEF RemoveFile
  <2> QED BY <1>1, <2>1, <2>2, <2>3, <2>4, <2>5, <2>6, <2>7, <2>8, <2>9,
             <2>10, <2>11 DEF Launcher
<1>2. ASSUME NEW l \in Launchers, Kill(l) PROVE Files
  BY <1>2 DEF Kill, Forgets
<1>3. ASSUME NEW l \in Launchers, Recycle(l) PROVE Files
  BY <1>3 DEF Recycle
<1>4. ASSUME NEW t \in Tools, Tool(t) PROVE LockTypeOK'
  BY <1>4 DEF Tool, ToolLooks, ToolReads, ToolProbes, ToolEnds
<1>5. CASE UNCHANGED lockVars
  BY <1>5 DEF lockVars, toolVars
<1>6. CASE /\ \E l \in Launchers : Launcher(l) \/ Kill(l) \/ Recycle(l)
           /\ beside' = [t \in Tools |-> {l \in beside[t] : place'[l] = "run"}]
           /\ UNCHANGED <<tool, found>>
  <2>1. Files
    BY <1>1, <1>2, <1>3, <1>6
  <2> QED BY <1>6, <2>1
<1> QED BY <1>4, <1>5, <1>6 DEF LockNext

(* Serialised starts: at most one launcher is starting.                    *)
LEMMA StepSerial ==
  ASSUME ~Overlap, LockInv, [LockNext]_lockVars PROVE SerialInv'
<1> USE DEF LockInv, LockTypeOK, SerialInv, Starting, Go
<1>1. ASSUME NEW l \in Launchers, Launcher(l) PROVE SerialInv'
  <2>1. CASE Start(l)         BY <2>1 DEF Start, MayStart
  <2>2. CASE Exists(l)        BY <2>2 DEF Exists
  <2>3. CASE Read(l)          BY <2>3 DEF Read
  <2>4. CASE Probe(l)         BY <2>4 DEF Probe, Forgets
  <2>5. CASE Quit(l)          BY <2>5 DEF Quit
  <2>6. CASE Truncate(l)      BY <2>6 DEF Truncate
  <2>7. CASE Dump(l)          BY <2>7 DEF Dump
  <2>8. CASE RunUnlocked(l)   BY <2>8 DEF RunUnlocked
  <2>9. CASE Finish(l)        BY <2>9 DEF Finish
  <2>10. CASE ReleaseReads(l) BY <2>10 DEF ReleaseReads
  <2>11. CASE RemoveFile(l)    BY <2>11 DEF RemoveFile
  <2> QED BY <1>1, <2>1, <2>2, <2>3, <2>4, <2>5, <2>6, <2>7, <2>8, <2>9,
             <2>10, <2>11 DEF Launcher
<1>2. ASSUME NEW l \in Launchers, Kill(l) PROVE SerialInv'
  BY <1>2 DEF Kill, Forgets
<1>3. ASSUME NEW l \in Launchers, Recycle(l) PROVE SerialInv'
  BY <1>3 DEF Recycle
<1>4. ASSUME NEW t \in Tools, Tool(t) PROVE SerialInv'
  BY <1>4 DEF Tool, ToolLooks, ToolReads, ToolProbes, ToolEnds
<1>5. CASE UNCHANGED lockVars
  BY <1>5 DEF lockVars, toolVars
<1> QED BY <1>1, <1>2, <1>3, <1>4, <1>5 DEF LockNext

(* The owner of the file keeps everybody else from writing it.             *)
LEMMA StepCheck ==
  ASSUME ~Overlap, LockInv, [LockNext]_lockVars PROVE CheckInv' /\ RemoveInv'
<1> DEFINE Goal == CheckInv' /\ RemoveInv'
<1> USE DEF LockInv, LockTypeOK, SerialInv, CheckInv, RemoveInv, Owner, Holding,
            Starting, Go
<1>1. ASSUME NEW l \in Launchers, Launcher(l) PROVE Goal
  <2>1. CASE Start(l)         BY <2>1 DEF Start
  <2>2. CASE Exists(l)        BY <2>2 DEF Exists
  <2>3. CASE Read(l)          BY <2>3 DEF Read
  <2>4. CASE Probe(l)         BY <2>4 DEF Probe, Alive, Forgets
  <2>5. CASE Quit(l)          BY <2>5 DEF Quit
  <2>6. CASE Truncate(l)      BY <2>6 DEF Truncate
  <2>7. CASE Dump(l)          BY <2>7 DEF Dump
  <2>8. CASE RunUnlocked(l)   BY <2>8 DEF RunUnlocked
  <2>9. CASE Finish(l)        BY <2>9 DEF Finish
  <2>10. CASE ReleaseReads(l) BY <2>10 DEF ReleaseReads
  <2>11. CASE RemoveFile(l)    BY <2>11 DEF RemoveFile
  <2> QED BY <1>1, <2>1, <2>2, <2>3, <2>4, <2>5, <2>6, <2>7, <2>8, <2>9,
             <2>10, <2>11 DEF Launcher
<1>2. ASSUME NEW l \in Launchers, Kill(l) PROVE Goal
  BY <1>2 DEF Kill, Forgets
<1>3. ASSUME NEW l \in Launchers, Recycle(l) PROVE Goal
  BY <1>3 DEF Recycle
<1>4. ASSUME NEW t \in Tools, Tool(t) PROVE Goal
  BY <1>4 DEF Tool, ToolLooks, ToolReads, ToolProbes, ToolEnds
<1>5. CASE UNCHANGED lockVars
  BY <1>5 DEF lockVars, toolVars
<1> QED BY <1>1, <1>2, <1>3, <1>4, <1>5 DEF LockNext

(* A launcher past the lock is the one the file names.                     *)
LEMMA StepLocked ==
  ASSUME ~Overlap, LockInv, [LockNext]_lockVars PROVE LockNamesOwner'
<1> DEFINE Goal == LockNamesOwner'
<1> USE DEF LockInv, LockTypeOK, SerialInv, CheckInv, RemoveInv, Owner,
            Holding, Starting, Go, LockNamesOwner
<1>1. ASSUME NEW l \in Launchers, Launcher(l) PROVE Goal
  <2>1. CASE Start(l)         BY <2>1 DEF Start
  <2>2. CASE Exists(l)        BY <2>2 DEF Exists
  <2>3. CASE Read(l)          BY <2>3 DEF Read
  <2>4. CASE Probe(l)         BY <2>4 DEF Probe, Forgets
  <2>5. CASE Quit(l)          BY <2>5 DEF Quit
  <2>6. CASE Truncate(l)      BY <2>6 DEF Truncate
  <2>7. CASE Dump(l)          BY <2>7 DEF Dump
  <2>8. CASE RunUnlocked(l)   BY <2>8 DEF RunUnlocked
  <2>9. CASE Finish(l)        BY <2>9 DEF Finish
  <2>10. CASE ReleaseReads(l) BY <2>10 DEF ReleaseReads
  <2>11. CASE RemoveFile(l)    BY <2>11 DEF RemoveFile
  <2> QED BY <1>1, <2>1, <2>2, <2>3, <2>4, <2>5, <2>6, <2>7, <2>8, <2>9,
             <2>10, <2>11 DEF Launcher
<1>2. ASSUME NEW l \in Launchers, Kill(l) PROVE Goal
  BY <1>2 DEF Kill, Forgets
<1>3. ASSUME NEW l \in Launchers, Recycle(l) PROVE Goal
  BY <1>3 DEF Recycle
<1>4. ASSUME NEW t \in Tools, Tool(t) PROVE Goal
  BY <1>4 DEF Tool, ToolLooks, ToolReads, ToolProbes, ToolEnds
<1>5. CASE UNCHANGED lockVars
  BY <1>5 DEF lockVars, toolVars
<1> QED BY <1>1, <1>2, <1>3, <1>4, <1>5 DEF LockNext

(* What launchers do leaves the tools alone, and a tool beside its holders *)
(* finds the last of them in the file.                                     *)
LEMMA StepTools ==
  ASSUME ~Overlap, LockInv, [LockNext]_lockVars PROVE ToolInv' /\ ToolsYield'
<1> USE DEF LockInv, LockTypeOK, LockNamesOwner, ToolInv, ToolsYield
<1>1. CASE /\ beside' = [t \in Tools |-> {l \in beside[t] : place'[l] = "run"}]
           /\ UNCHANGED <<tool, found>>
  BY <1>1
<1>2. ASSUME NEW t \in Tools, Tool(t) PROVE ToolInv' /\ ToolsYield'
  <2>1. CASE ToolLooks(t)
    BY <2>1 DEF ToolLooks
  <2>2. CASE ToolReads(t)
    BY <2>2 DEF ToolReads
  <2>3. CASE ToolProbes(t)
    BY <2>3 DEF ToolProbes, Alive
  <2>4. CASE ToolEnds(t)
    BY <2>4 DEF ToolEnds
  <2> QED BY <1>2, <2>1, <2>2, <2>3, <2>4 DEF Tool
<1>3. CASE UNCHANGED lockVars
  BY <1>3 DEF lockVars, toolVars
<1> QED BY <1>1, <1>2, <1>3 DEF LockNext

(* The inductive invariant: also where a launcher has to run without a     *)
(* lock.                                                                   *)
THEOREM LockInvariant == ASSUME ~Overlap PROVE LockSpec => []LockInv
<1>1. LockInit => LockInv
  BY InitIInv
<1>2. LockInv /\ [LockNext]_lockVars => LockInv'
  BY StepType, StepSerial, StepCheck, StepLocked, StepTools DEF LockInv
<1> QED BY <1>1, <1>2, PTL DEF LockSpec

(* _release_single_instance_lock only ever removes the launcher's own      *)
(* lock: the file that disappears never names a launcher other than the    *)
(* one removing it.                                                        *)
THEOREM Removal == ASSUME ~Overlap PROVE LockSpec => RemovesOnlyOwn
<1>1. ASSUME LockInv, [LockNext]_lockVars
      PROVE  \A l \in Launchers : file = l /\ file' = "absent" => place[l] = "remove"
  <2> USE DEF LockInv, LockTypeOK, RemoveInv
  <2>1. ASSUME NEW k \in Launchers, RemoveFile(k)
        PROVE  \A l \in Launchers : file = l /\ file' = "absent" => place[l] = "remove"
    BY <1>1, <2>1 DEF RemoveFile, Go
  <2>2. ASSUME NEW k \in Launchers, Launcher(k), ~RemoveFile(k)
        PROVE  file' = file \/ file' \in {"corrupt", k}
    BY <2>2 DEF Launcher, Start, Exists, Read, Probe, Quit, Truncate, Dump,
                RunUnlocked, Finish, ReleaseReads
  <2>3. ASSUME NEW k \in Launchers, Kill(k) \/ Recycle(k) PROVE file' = file
    BY <2>3 DEF Kill, Recycle
  <2>4. ASSUME NEW t \in Tools, Tool(t) PROVE file' = file
    BY <2>4 DEF Tool, ToolLooks, ToolReads, ToolProbes, ToolEnds
  <2>5. CASE UNCHANGED lockVars
    BY <2>5 DEF lockVars
  <2> QED BY <1>1, <2>1, <2>2, <2>3, <2>4, <2>5 DEF LockNext
<1>2. LockInv /\ [LockNext]_lockVars =>
        [\A l \in Launchers : file = l /\ file' = "absent" => place[l] = "remove"]_lockVars
  BY <1>1
<1> QED BY LockInvariant, <1>2, PTL DEF LockSpec, RemovesOnlyOwn

(* "Prevents parallel launcher instances", for any number of launchers.    *)
THEOREM OneLauncher == ASSUME ~Overlap PROVE LockSpec => []MutualExclusion
<1>1. LockInv => MutualExclusion
  BY DEF LockInv, LockNamesOwner, MutualExclusion
<1> QED BY LockInvariant, <1>1, PTL

(* No configuration patch and no A/B comparison begins next to a launcher  *)
(* that held the lock throughout its look, though launchers come, go, are  *)
(* killed and write the file between the three steps of it.                *)
THEOREM ToolsYieldToHolders == ASSUME ~Overlap PROVE LockSpec => []ToolsYield
<1>1. LockInv => ToolsYield
  BY DEF LockInv
<1> QED BY LockInvariant, <1>1, PTL

(* The file names the launcher that runs with the lock until it is gone.   *)
THEOREM Named == ASSUME ~Overlap PROVE LockSpec => []LockNamesOwner
<1>1. LockInv => LockNamesOwner
  BY DEF LockInv
<1> QED BY LockInvariant, <1>1, PTL
=============================================================================
