---------------------------- MODULE InstanceLock ----------------------------
(***************************************************************************)
(* The single-instance lock file of the benchmark launcher                 *)
(* (src/run_benchmarks.py, LOCK_PATH) and the maintenance tools that look  *)
(* at it: patch-reasoning-effort in src/registry_tool.py and               *)
(* src/tools/parallel_ab.py.  The file is inspected and written in         *)
(* separate system calls; processes can be killed between any two of them, *)
(* and the operating system can give a dead launcher's pid to a stranger.  *)
(***************************************************************************)
EXTENDS FiniteSets

CONSTANTS Launchers,     \* launcher processes, identified by their pid
          Tools,         \* maintenance tools
          Overlap        \* may a launcher start while another one is starting?

ASSUME LockAssumption ==
    /\ Overlap \in BOOLEAN
    /\ "absent" \notin Launchers /\ "corrupt" \notin Launchers

VARIABLES file,      \* "absent", "corrupt" (also: truncated) or the pid it holds
          place,     \* per launcher: where it is
          seen,      \* per launcher: the pid it read
          strangers, \* pids of dead launchers now used by unrelated programs
          tool,      \* per tool: where it is
          found,     \* per tool: the pid it read
          beside     \* per tool: the launchers that have held the lock ever
                     \* since it began to look

toolVars == <<tool, found, beside>>
lockVars == <<file, place, seen, strangers, toolVars>>

Starting == {"exists", "read", "probe", "open", "dump"}

LockTypeOK ==
    /\ file \in {"absent", "corrupt"} \cup Launchers
    /\ place \in [Launchers -> Starting \cup {"off", "refused", "run", "unlocked", "release", "remove"}]
    /\ seen \in [Launchers -> {"absent"} \cup Launchers]
    /\ strangers \subseteq Launchers
    /\ tool \in [Tools -> {"off", "read", "probe", "work"}]
    /\ found \in [Tools -> {"absent"} \cup Launchers]
    /\ beside \in [Tools -> SUBSET Launchers]

(* Whatever an earlier launcher left behind is a legal start.              *)
LockInit ==
    /\ file \in {"absent", "corrupt"} \cup Launchers
    /\ place = [l \in Launchers |-> "off"]
    /\ seen = [l \in Launchers |-> "absent"]
    /\ strangers = {}
    /\ tool = [t \in Tools |-> "off"]
    /\ found = [t \in Tools |-> "absent"]
    /\ beside = [t \in Tools |-> {}]

(* psutil.pid_exists(pid) and Process(pid).is_running().                   *)
Alive(p) == p \in strangers \/ place[p] # "off"

Go(l, from, to) == place[l] = from /\ place' = [place EXCEPT ![l] = to]

(* Without Overlap, the starts of launchers are serialised by whoever runs *)
(* them.  Tools are not: no launcher looks for one.                        *)
MayStart == Overlap \/ \A l \in Launchers : place[l] \notin Starting

-----------------------------------------------------------------------------
(* _acquire_single_instance_lock.                                          *)

Start(l) ==
    /\ MayStart
    /\ l \notin strangers
    /\ Go(l, "off", "exists")
    /\ UNCHANGED <<file, seen, strangers>>

(* os.path.exists.                                                         *)
Exists(l) ==
    /\ Go(l, "exists", IF file = "absent" THEN "open" ELSE "read")
    /\ UNCHANGED <<file, seen, strangers>>

(* Mutant of Read: every pid but its own is stale.                         *)
Read_OwnPid(l) ==
    /\ Go(l, "read", IF file = l THEN "probe" ELSE "open")
    /\ IF file = l THEN seen' = [seen EXCEPT ![l] = file] ELSE UNCHANGED seen
    /\ UNCHANGED <<file, strangers>>

(* open and json.load; a file that vanished or cannot be parsed is stale.  *)
(* A file that is there is taken to be readable.                           *)
Read(l) ==
    /\ IF file \in Launchers
       THEN Go(l, "read", "probe") /\ seen' = [seen EXCEPT ![l] = file]
       ELSE Go(l, "read", "open") /\ UNCHANGED seen
    /\ UNCHANGED <<file, strangers>>

(* What was read has no further use.                                       *)
Forgets(l) == seen' = [seen EXCEPT ![l] = "absent"]

(* Mutant of Probe: only a recycled pid turns the launcher away.           *)
Probe_Inverted(l) ==
    /\ place[l] = "probe"
    /\ Go(l, "probe", IF seen[l] \in strangers THEN "refused" ELSE "open")
    /\ Forgets(l)
    /\ UNCHANGED <<file, strangers>>

(* The pid in the file is alive: the launcher is turned away.              *)
Probe(l) ==
    /\ place[l] = "probe"
    /\ Go(l, "probe", IF Alive(seen[l]) THEN "refused" ELSE "open")
    /\ Forgets(l)
    /\ UNCHANGED <<file, strangers>>

(* main prints the error and exits.                                        *)
Quit(l) ==
    /\ Go(l, "refused", "off")
    /\ UNCHANGED <<file, seen, strangers>>

(* open(lock_path, "w") truncates; json.dump follows.                      *)
Truncate(l) ==
    /\ Go(l, "open", "dump")
    /\ file' = "corrupt"
    /\ UNCHANGED <<seen, strangers>>

Dump(l) ==
    /\ Go(l, "dump", "run")
    /\ file' = l
    /\ UNCHANGED <<seen, strangers>>

(* Opening or writing fails: a warning, and the launcher runs without a    *)
(* lock.                                                                   *)
RunUnlocked(l) ==
    /\ Go(l, "open", "unlocked") \/ Go(l, "dump", "unlocked")
    /\ UNCHANGED <<file, seen, strangers>>

-----------------------------------------------------------------------------
(* The end of a launcher: atexit, or a kill that skips it.                 *)

Finish(l) ==
    /\ Go(l, "run", "release") \/ Go(l, "unlocked", "release")
    /\ UNCHANGED <<file, seen, strangers>>

(* Mutant of ReleaseReads: whoever is named, the file goes.                *)
ReleaseReads_Anyone(l) ==
    /\ Go(l, "release", IF file # "absent" THEN "remove" ELSE "off")
    /\ UNCHANGED <<file, seen, strangers>>

(* _release_single_instance_lock: read the pid, then remove the file.      *)
ReleaseReads(l) ==
    /\ Go(l, "release", IF file = l THEN "remove" ELSE "off")
    /\ UNCHANGED <<file, seen, strangers>>

(* os.remove fails on a file another process has open (Windows); the       *)
(* OSError is swallowed.                                                   *)
RemoveFile(l) ==
    /\ Go(l, "remove", "off")
    /\ file' = IF \E m \in Launchers \ {l} : place[m] = "dump" THEN file ELSE "absent"
    /\ UNCHANGED <<seen, strangers>>

Kill(l) ==
    /\ place[l] # "off"
    /\ place' = [place EXCEPT ![l] = "off"]
    /\ Forgets(l)
    /\ UNCHANGED <<file, strangers>>

(* The operating system recycles the pid of a launcher that is gone.       *)
Recycle(l) ==
    /\ place[l] = "off"
    /\ strangers' = IF l \in strangers THEN strangers \ {l} ELSE strangers \cup {l}
    /\ UNCHANGED <<file, place, seen>>

-----------------------------------------------------------------------------
(* The tools: *lock_held_by_live_process, then the work.  A tool that      *)
(* finds the lock held exits or looks again later.                         *)

ToolLooks(t) ==
    /\ tool[t] = "off"
    /\ tool' = [tool EXCEPT ![t] = IF file = "absent" THEN "work" ELSE "read"]
    /\ beside' = [beside EXCEPT ![t] = {l \in Launchers : place[l] = "run"}]
    /\ UNCHANGED <<file, place, seen, strangers, found>>

(* Mutant of ToolReads: it looks for the pid under another name than the   *)
(* launcher writes it, and takes the KeyError for a stale file.            *)
ToolReads_OtherKey(t) ==
    /\ tool[t] = "read"
    /\ tool' = [tool EXCEPT ![t] = "work"]
    /\ UNCHANGED <<file, place, seen, strangers, found, beside>>

ToolReads(t) ==
    /\ tool[t] = "read"
    /\ IF file \in Launchers
       THEN tool' = [tool EXCEPT ![t] = "probe"] /\ found' = [found EXCEPT ![t] = file]
       ELSE tool' = [tool EXCEPT ![t] = "work"] /\ UNCHANGED found
    /\ UNCHANGED <<file, place, seen, strangers, beside>>

ToolProbes(t) ==
    /\ tool[t] = "probe"
    /\ tool' = [tool EXCEPT ![t] = IF Alive(found[t]) THEN "off" ELSE "work"]
    /\ found' = [found EXCEPT ![t] = "absent"]
    /\ UNCHANGED <<file, place, seen, strangers, beside>>

ToolEnds(t) ==
    /\ tool[t] = "work"
    /\ tool' = [tool EXCEPT ![t] = "off"]
    /\ UNCHANGED <<file, place, seen, strangers, found, beside>>

Launcher(l) ==
    \/ Start(l) \/ Exists(l) \/ Read(l) \/ Probe(l) \/ Quit(l)
    \/ Truncate(l) \/ Dump(l) \/ RunUnlocked(l)
    \/ Finish(l) \/ ReleaseReads(l) \/ RemoveFile(l)

Tool(t) == ToolLooks(t) \/ ToolReads(t) \/ ToolProbes(t) \/ ToolEnds(t)

(* A launcher that gives up its lock is no longer beside any tool.         *)
LockNext ==
    \/ /\ \E l \in Launchers : Launcher(l) \/ Kill(l) \/ Recycle(l)
       /\ beside' = [t \in Tools |-> {l \in beside[t] : place'[l] = "run"}]
       /\ UNCHANGED <<tool, found>>
    \/ \E t \in Tools : Tool(t)

LockSpec == LockInit /\ [][LockNext]_lockVars

-----------------------------------------------------------------------------
(* Properties.                                                             *)

(* "Prevents parallel launcher instances": no two launchers that got the   *)
(* lock run at once, whatever launchers run beside them because they could *)
(* not write the file.                                                     *)
MutualExclusion ==
    \A l, m \in Launchers : place[l] = "run" /\ place[m] = "run" => l = m

(* A tool never begins to work beside a launcher that held the lock all    *)
(* the while it looked, however the file changes between the steps of its  *)
(* look.                                                                   *)
ToolsYield == \A t \in Tools : tool[t] = "work" => beside[t] = {}

(* "Remove the lock file if this process still owns it": the file that     *)
(* goes away is never the one another launcher has written.                *)
RemovesOnlyOwn ==
    [][\A l \in Launchers : file = l /\ file' = "absent" => place[l] = "remove"]_lockVars

(* A launcher that runs with a lock is the one its file names, until it is *)
(* gone: through stale files, unlocked launchers and their release.        *)
LockNamesOwner == \A l \in Launchers : place[l] = "run" => file = l

-----------------------------------------------------------------------------
(* The inductive invariant.  With serialised starts, at most one launcher  *)
(* is between its check and its write.                                     *)
SerialInv ==
    \A l, m \in Launchers : place[l] \in Starting /\ place[m] \in Starting => l = m

(* While the file names a launcher that is there, nobody has given up the  *)
(* check, and whoever has read the file has read that launcher's pid.      *)
Holding == {"run", "unlocked", "release", "remove"}

Owner(l) == file = l /\ place[l] \in Holding

CheckInv ==
    \A l, m \in Launchers : Owner(m) =>
        /\ place[l] \notin {"open", "dump"}
        /\ place[l] = "probe" => seen[l] = m

(* What release has read is still there when it removes the file.          *)
RemoveInv == \A l \in Launchers : place[l] = "remove" => file = l

(* What a tool has read names every launcher that was there all the while. *)
ToolInv ==
    \A t \in Tools : \A l \in beside[t] :
        /\ place[l] = "run"
        /\ tool[t] = "probe" => found[t] = l

LockInv == LockTypeOK /\ SerialInv /\ CheckInv /\ RemoveInv /\ LockNamesOwner /\ ToolInv /\ ToolsYield
=============================================================================
