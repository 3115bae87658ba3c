------------------------------- MODULE Registry -------------------------------
(***************************************************************************)
(* The registry file over a sequence of registry_tool commands             *)
(* (src/registry_tool.py).  A command reads everything when it starts;     *)
(* what it changes in the registry file it changes by one os.replace.      *)
(* sync and pipeline replace the file several times, quarantine-missing    *)
(* also moves configuration files; each of these can be killed between two *)
(* steps.                                                                  *)
(*                                                                         *)
(* One command runs at a time, and nobody edits a file while it runs.      *)
(***************************************************************************)
EXTENDS RegistryChecks

CONSTANTS Files, Models, StartRegs, StartConfs, Sampling,
          ConfEdits,     \* [configs -> contents LM Studio may write]
          HandEdits,     \* what a person may write into an entry: fields and their values
          PubOf,         \* [keys -> publisher or Absent]: the one the entry names
          MaxChanges     \* bound of changes from outside and by commands of one step

IsKey(k) == k = [pub |-> k.pub, model |-> k.model, quant |-> k.quant]
IsEntry(e) == DOMAIN e = DOMAIN BlankEntry
IsRegistry(r) ==
    /\ r = [k \in KeysOf(r) |-> r[k]] /\ IsFiniteSet(KeysOf(r))
    /\ \A k \in KeysOf(r) : IsKey(k) /\ IsEntry(r[k])

(* The registry starts in the shape it keeps; there are only so many       *)
(* files, models and configurations.                                       *)
ASSUME RegistryAssumption ==
    /\ IsFiniteSet(Files) /\ Files \subseteq DOMAIN FileInfo
    /\ IsFiniteSet(Models) /\ IsFiniteSet(DOMAIN ConfEdits)
    /\ \A c \in StartConfs : IsFiniteSet(DOMAIN c)
    /\ \A r \in StartRegs : IsRegistry(r)

VARIABLES reg,      \* the registry file
          disk,     \* the GGUF files that exist
          print,    \* [Files -> 0..1]: their contents change at most once
          confs,    \* LM Studio's configuration files
          lms,      \* the models LM Studio lists
          shelf,    \* configurations in a quarantine folder
          backups,  \* entries in backup files
          cmd,      \* the running command
          changes,  \* changes from outside and by one-step commands so far
          settled,  \* [BOOLEAN -> 0..2]: syncs completed since the last change, with import or not
          verdict,  \* of the last pipeline full, until something changes
          owed      \* what people wrote into entries and nobody removed

world == <<disk, print, lms>>
vars == <<reg, world, changes, confs, shelf, backups, cmd, settled, verdict, owed>>

Idle == [name |-> "idle", step |-> "none", files |-> {}, mem |-> << >>, plan |-> {}, keys |-> {},
         moved |-> {}, backup |-> {}]

AllFields == {"ctx", "experts", "kv"}
None == [i \in BOOLEAN |-> 0]
Only(f, S) == [x \in S |-> f[x]]
Facts(r) == UNION {r[k].hand : k \in KeysOf(r)}
Remaining(r) == owed \ (Facts(reg) \ Facts(r))
Copies(r, ks) == {[key |-> k, hand |-> r[k].hand] : k \in ks}

(* The world of the running command, with registry r.                      *)
World(r) == [reg |-> r, lms |-> lms, confs |-> confs, disk |-> disk, print |-> print, files |-> cmd.files, links |-> << >>]
Unlinked == [World(reg) EXCEPT !.files = Scan(reg, disk)]
Fresh    == Refreshed(Unlinked)

Init ==
    /\ reg \in StartRegs /\ confs \in StartConfs
    /\ disk = Files /\ print = [f \in Files |-> 0]
    /\ lms = Models
    /\ shelf = {} /\ backups = {} /\ cmd = Idle
    /\ changes = 0 /\ settled = None /\ verdict = "none" /\ owed = Facts(reg)

-----------------------------------------------------------------------------
(* The outside: downloads, deletions, LM Studio, and a person's editor.    *)

Outside ==
    /\ cmd.name = "idle" /\ changes < MaxChanges /\ changes' = changes + 1
    /\ settled' = None /\ verdict' = "none"
    /\ UNCHANGED <<cmd, shelf, backups>>

FileGone ==
    /\ Outside /\ \E f \in disk : disk' = disk \ {f}
    /\ UNCHANGED <<reg, print, confs, lms, owed>>

FileReplaced ==
    /\ Outside /\ \E f \in disk : print[f] = 0 /\ print' = [print EXCEPT ![f] = 1]
    /\ UNCHANGED <<reg, disk, confs, lms, owed>>

ModelsListed ==
    /\ Outside /\ \E ls \in SUBSET Models : ls # lms /\ lms' = ls
    /\ UNCHANGED <<reg, disk, print, confs, owed>>

ConfigWritten ==
    /\ Outside
    /\ \E c \in DOMAIN ConfEdits : \E v \in ConfEdits[c] :
          confs' = [d \in DOMAIN confs \cup {c} |-> IF d = c THEN v ELSE confs[d]]
    /\ UNCHANGED <<reg, disk, print, lms, owed>>

(* What a person writes stands in the place of what was there before.      *)
Edited(e, edit) ==
    [field \in DOMAIN e |->
        IF field \notin DOMAIN edit THEN e[field]
        ELSE IF field = "hand" THEN edit.hand \cup {x \in e.hand : ~Overruled(x, edit.hand)}
        ELSE edit[field]]

HandEdit ==
    /\ Outside
    /\ \E k \in KeysOf(reg), edit \in HandEdits :
          LET r == [reg EXCEPT ![k] = Edited(@, edit)] IN
          reg' = r /\ owed' = Remaining(r) \cup r[k].hand
    /\ UNCHANGED <<disk, print, confs, lms>>

-----------------------------------------------------------------------------
(* Commands that read, compute and replace the file.                       *)

Replace(r) ==
    /\ reg' = Saved(r)
    /\ verdict' = IF Saved(r) = reg THEN verdict ELSE "none"

Plain(r) ==
    /\ cmd.name = "idle" /\ Replace(r)
    /\ settled' = IF Saved(r) = reg THEN settled ELSE None
    /\ UNCHANGED <<world, confs, shelf, cmd>>
    /\ changes < MaxChanges /\ changes' = changes + 1

Keeping == UNCHANGED <<backups, owed>>

(* What entries that give way had been told by hand is lost with them.     *)
Losing(r) == UNCHANGED backups /\ owed' = Remaining(r)

(* A command that asks for the links fails where they fail.                *)
Linked == ~LinksFail(Fresh)

FillCtxCmd   == Plain(FillCtx(reg)) /\ Keeping
FixCtxCmd    == Plain(FixCtx(reg)) /\ Keeping
FillSizeCmd  == Linked /\ Plain(FillSize(Unlinked, FALSE)) /\ Keeping
AddCmd       == LET r == Add(Unlinked, lms) IN Plain(r) /\ Losing(r)
FillQuantCmd == Plain(FillQuant(Unlinked)) /\ Keeping
MigrateCmd ==
    LET r == Migrate(reg, PubOf) IN
    Plain(r) /\ UNCHANGED backups /\ owed' = owed \ (GivenUp(reg, PubOf) \ Facts(r))
ResearchCmd  == \E v \in Sampling, force \in BOOLEAN : Plain(Research(reg, v, force)) /\ Keeping
ClassifyCmd  == Plain(Classified(reg)) /\ Keeping
ImportCmd ==
    \E fields \in {AllFields, {"ctx"}, {"experts"}} : Linked /\ Plain(SyncFromConfigs(Fresh, fields)) /\ Keeping
RmCmd        == \E k \in KeysOf(reg) : LET r == Drop(reg, {k}) IN Plain(r) /\ Losing(r)

(* dedupe-registry --apply: the old file is copied first.                  *)
DedupeCmd ==
    \E keep \in SUBSET UNION {Keeper(Unlinked, f) : f \in SharedFiles(reg)} :
       /\ SharedFiles(reg) # {} /\ Unresolved(Unlinked, keep) = {}
       /\ backups' = backups \cup Copies(reg, KeysOf(reg))
       /\ Plain(Deduped(Unlinked)) /\ UNCHANGED owed

-----------------------------------------------------------------------------
(* sync, and pipeline full around it.                                      *)

(* What the two do before the last steps is the same; which flags were     *)
(* given is chosen where it first matters.                                 *)
SyncStarts ==
    /\ cmd.name = "idle" /\ Linked
    /\ cmd' = [Idle EXCEPT !.name = "sync", !.step = "rekey", !.files = Scan(reg, disk)]
    /\ UNCHANGED <<reg, world, changes, confs, shelf, backups, settled, verdict, owed>>

To(step) == cmd' = [cmd EXCEPT !.step = step]
At(step) == cmd.name = "sync" /\ cmd.step = step
Step(step, next, r) ==
    /\ At(step) /\ To(next) /\ Replace(r)
    /\ UNCHANGED <<world, changes, confs, shelf, settled>>

Scanned(r)   == [World(r) EXCEPT !.lms = Listed(World(r))]
Inventory(r) == Refreshed(Scanned(r))

RekeyStep == Step("rekey", "add", Rekey(reg, Scanned(reg).lms)) /\ Keeping
AddStep ==
    LET r == Add(Scanned(reg), NewModels(Scanned(reg))) IN Step("add", "fill-quant", r) /\ Losing(r)

(* These begin with making the links, and end where that fails.            *)
LinkedStep(step, next, command(_)) ==
    /\ At(step)
    /\ LET w == Inventory(reg) IN ~LinksFail(w) /\ Step(step, next, command(w))
    /\ Keeping

QuantStep == LinkedStep("fill-quant", "fill-arch", FillQuant)
ArchStep  == LinkedStep("fill-arch", "sync-from-gguf", FillArch)
GgufStep  == LinkedStep("sync-from-gguf", "fill-reasoning", SyncFromGguf)
ReasoningStep == LinkedStep("fill-reasoning", "fill-size", FillReasoning)
SizeStep  == LinkedStep("fill-size", "materialize", LAMBDA w : FillSize(w, TRUE))
MaterializeStep == LinkedStep("materialize", "configs", Materialize)

(* Without the import flag this only reports.  The old sync command ends   *)
(* here, the pipeline classifies as well, pipeline full goes on from there.*)
EndSync(import, r) ==
    /\ At("configs") /\ ~LinksFail(Inventory(reg)) /\ Replace(r)
    /\ cmd' \in {Idle, [cmd EXCEPT !.step = "classify", !.mem = r]}
    /\ settled' = [i \in BOOLEAN |-> IF i => import THEN Min({2, settled[i] + 1}) ELSE settled[i]]
    /\ UNCHANGED <<world, changes, confs, shelf, backups, owed>>

ConfigStep == EndSync(FALSE, reg) \/ EndSync(TRUE, Saved(SyncFromConfigs(Inventory(reg), AllFields)))

ClassifyStep ==
    /\ At("classify") /\ Replace(Classified(reg))
    /\ cmd' \in {Idle, [cmd EXCEPT !.step = "bind"]}
    /\ UNCHANGED <<world, changes, confs, shelf, backups, settled, owed>>

(* Mutant of Rebind: the registry of before is saved whatever it says.     *)
X_AlwaysSaves(after) == after

(* The bindings are written once more into the registry of before the      *)
(* classification, which replaces the file if that changes anything.       *)
Rebind(after) == IF after = cmd.mem THEN reg ELSE after

BindStep ==
    /\ At("bind") /\ ~LinksFail(Inventory(cmd.mem))
    /\ cmd' = [cmd EXCEPT !.step = "validate"]
    /\ Replace(Rebind(Materialize(Inventory(cmd.mem))))
    /\ UNCHANGED <<world, changes, confs, shelf, backups, settled, owed>>

ValidateStep ==
    \E ignoreDrift \in BOOLEAN :
       /\ At("validate") /\ cmd' = Idle
       /\ verdict' = IF Fails(Inventory(reg), Inventory(cmd.mem), ignoreDrift) THEN "failed"
                     ELSE IF ignoreDrift THEN "ignored" ELSE "ok"
       /\ UNCHANGED <<reg, world, changes, confs, shelf, backups, settled, owed>>

(* A kill between two steps, or links that fail.                           *)
Killed ==
    /\ cmd.name # "idle" /\ cmd' = Idle
    /\ UNCHANGED <<reg, world, changes, confs, shelf, backups, settled, verdict, owed>>

-----------------------------------------------------------------------------
(* quarantine-missing --apply.                                             *)

Partial(e) == e = [BlankEntry EXCEPT !.reasoning = e.reasoning, !.blueprint = e.blueprint]

QuarantineStarts ==
    LET keys      == {k \in Missing(Unlinked) : ~OnDisk(Unlinked, k)}
        remaining == Drop(reg, keys)
        claimed(c) == \E j \in KeysOf(remaining) : c \in FindConfigs(Unlinked, j)
    IN  /\ cmd.name = "idle" /\ Linked /\ lms # {} /\ keys # {}
        /\ cmd' = [Idle EXCEPT !.name = "quarantine", !.step = "move", !.keys = keys,
                     !.plan = {m \in keys \X DOMAIN confs : m[2] \in FindConfigs(Unlinked, m[1]) /\ ~claimed(m[2])}]
        /\ UNCHANGED <<reg, world, changes, confs, shelf, backups, settled, verdict, owed>>

Quarantining(step) == cmd.name = "quarantine" /\ cmd.step = step

(* A configuration planned for two keys is gone at its second turn; then   *)
(* only the rollback is left.                                              *)
MoveConfig ==
    /\ Quarantining("move")
    /\ \E m \in cmd.plan :
          LET c == m[2] IN
          /\ c \in DOMAIN confs
          /\ shelf' = shelf \cup {<<c, confs[c]>>}
          /\ confs' = Only(confs, DOMAIN confs \ {c})
          /\ cmd' = [cmd EXCEPT !.plan = @ \ {m}, !.moved = @ \cup {<<c, confs[c]>>}]
    /\ settled' = None /\ verdict' = "none"
    /\ UNCHANGED <<reg, world, changes, backups, owed>>

(* Mutant of BackUp: the backup is left for later.                         *)
X_NoBackup ==
    /\ Quarantining("move") /\ cmd.plan = {} /\ To("save")
    /\ UNCHANGED <<reg, world, changes, confs, shelf, backups, settled, verdict, owed>>

BackUp ==
    LET copies == Copies(reg, {k \in cmd.keys : ~Partial(reg[k])})
    IN  /\ Quarantining("move") /\ cmd.plan = {}
        /\ backups' = backups \cup copies
        /\ cmd' = [cmd EXCEPT !.step = "save", !.backup = copies \ backups]
        /\ UNCHANGED <<reg, world, changes, confs, shelf, settled, verdict, owed>>

SaveRemaining ==
    /\ Quarantining("save") /\ cmd' = Idle
    /\ Replace(Drop(reg, cmd.keys)) /\ settled' = None
    /\ UNCHANGED <<world, changes, confs, shelf, backups, owed>>

(* Any of these operations can raise.  What was moved is moved back; where *)
(* that fails as well it is only reported.                                 *)
RollBack ==
    /\ cmd.name = "quarantine" /\ cmd' = Idle
    /\ \E back \in SUBSET cmd.moved :
          /\ confs' = [c \in DOMAIN confs \cup {m[1] : m \in back} |->
                          IF c \in DOMAIN confs THEN confs[c] ELSE (CHOOSE m \in back : m[1] = c)[2]]
          /\ shelf' = shelf \ back
    /\ backups' \in {backups, backups \ cmd.backup}
    /\ UNCHANGED <<reg, world, changes, settled, verdict, owed>>

-----------------------------------------------------------------------------
Next ==
    \/ FileGone \/ FileReplaced \/ ModelsListed \/ ConfigWritten \/ HandEdit
    \/ FillCtxCmd \/ FixCtxCmd \/ FillSizeCmd \/ AddCmd \/ FillQuantCmd \/ MigrateCmd
    \/ ResearchCmd \/ ClassifyCmd \/ ImportCmd \/ RmCmd \/ DedupeCmd
    \/ SyncStarts \/ RekeyStep \/ AddStep \/ QuantStep \/ ArchStep \/ GgufStep
    \/ ReasoningStep \/ SizeStep \/ MaterializeStep \/ ConfigStep \/ ClassifyStep \/ BindStep
    \/ ValidateStep \/ Killed
    \/ QuarantineStarts \/ MoveConfig \/ BackUp \/ SaveRemaining \/ RollBack

Spec == Init /\ [][Next]_vars

-----------------------------------------------------------------------------
(* What a person wrote into an entry is in the registry or in a backup     *)
(* file until that person removes the entry, at every moment of every      *)
(* command and wherever one of them is killed; only add drops an entry     *)
(* without a quant when a variant of it arrives, and migrate-keys what the *)
(* entry it merges into says otherwise.                                    *)
DataKept == owed \subseteq Facts(reg) \cup UNION {b.hand : b \in backups}

(* After two completed syncs with nothing else in between a sync changes   *)
(* nothing: what one of its steps writes no other step undoes.  One is not *)
(* enough: a model is added only while no entry could be it, and an entry  *)
(* without a quant could be any, until fill-quant makes it another one.    *)
(* An import of LM Studio's values counts for itself.                      *)
(* For a pipeline this also keeps step 4a, which saves the registry it had *)
(* in memory from before the classification, from undoing that.            *)
SyncSettles ==
    [][cmd.name = "sync" /\ cmd.step # "classify" /\ settled[FALSE] = 2 =>
         \/ reg' = reg
         \/ settled[TRUE] < 2 /\ settled'[TRUE] > settled[TRUE]]_vars

(* From sync-from-gguf to the end of the pipeline no entry says of its     *)
(* model what its file's header contradicts: neither later links, bindings *)
(* and imports nor the older registry that step 4a writes bring it back.   *)
AfterHeaders == {"fill-reasoning", "fill-size", "materialize", "configs", "classify", "bind", "validate"}
HeadersHold == cmd.name = "sync" /\ cmd.step \in AfterHeaders => HeaderDrift(Inventory(reg)) = {}

(* When a pipeline ends without complaint, and until something changes, an *)
(* entry that declares a configuration is the only one that declares it,   *)
(* the two belong to each other by their paths, and its file exists.       *)
ValidatedIsBound ==
    verdict \in {"ok", "ignored"} =>
        \A k \in KeysOf(reg) : reg[k].config # NoConf =>
            /\ reg[k].path \in disk /\ reg[k].config \in DOMAIN confs
            /\ FileInfo[reg[k].path].quant \in {k.quant, Absent}
            /\ \A j \in KeysOf(reg) \ {k} : reg[j].config # reg[k].config

(* The same for a profile that needs a companion: none is passed without   *)
(* one, and a companion of a kind made for one main model names that model *)
(* in its header, or was tested with exactly this main file, and neither   *)
(* was replaced since.                                                     *)
PairingStillProven ==
    verdict \in {"ok", "ignored"} =>
        \A k \in KeysOf(reg) :
            LET e == reg[k]
                t == Recorded[e.spec.pairing]
            IN  Role(e.spec) # "none" /\ e.policy # "disabled" =>
                    /\ {e.path, e.companion} \subseteq disk
                    /\ MethodOf(e.spec) \in Specialised =>
                          \/ HeaderTargets(FileInfo[e.path].head, FileInfo[e.companion].head)
                          \/ /\ e.spec.pairing # "none"
                             /\ t.main = e.path /\ t.helper = e.companion
                             /\ t.mainPrint = print[e.path] /\ t.helperPrint = print[e.companion]

(* Linking never fails, whatever the entries declare.                      *)
LinksNeverFail == cmd.name = "idle" => Linked
=============================================================================
