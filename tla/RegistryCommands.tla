-------------------------- MODULE RegistryCommands --------------------------
(***************************************************************************)
(* What the commands of src/registry_tool.py make of the registry file.    *)
(* Each operator takes the world as the command finds it and returns the   *)
(* entries that save_registry then writes in one os.replace.               *)
(*                                                                         *)
(* An entry is a record of the fields that a command reads or writes; 0,   *)
(* Absent and the No... values stand for a field that is missing.  hand is *)
(* whatever a person wrote into the entry and no command understands: a set*)
(* of pairs of a field and its value.                                      *)
(***************************************************************************)
EXTENDS RegistryLinks

CONSTANTS DefaultCtx(_, _),  \* _default_ctx_from_size(size, kv)
          Excluded,          \* keys is_registry_candidate turns away
          BlueprintOf(_),    \* select_blueprint(reasoning, ...)
          Recorded,          \* [pairings -> what was tested]: the pairing files
          Loaded             \* what LM Studio has loaded: {[key, experts]}

BlankEntry ==
    [ctx |-> 0, size |-> 0, kv |-> <<Absent, Absent>>, layers |-> 0, max |-> 0, maxExperts |-> 0, experts |-> 0,
     arch |-> "dense", reasoning |-> Absent, blueprint |-> Absent, keepBlueprint |-> FALSE, sampling |-> Absent,
     path |-> NoFile, config |-> NoConf, scope |-> "gguf", spec |-> NoProfile, companion |-> NoFile,
     policy |-> "lmstudio", mix |-> FALSE, hand |-> {}]

KeysOf(reg) == DOMAIN reg
Put(reg, k, e) == [j \in KeysOf(reg) \cup {k} |-> IF j = k THEN e ELSE reg[j]]
Drop(reg, ks) == [j \in KeysOf(reg) \ ks |-> reg[j]]
Each(reg, f(_, _)) == [k \in KeysOf(reg) |-> f(k, reg[k])]

-----------------------------------------------------------------------------
(* Loading and saving.                                                     *)

FourBit == {"q4_0", "iq4_nl"}

(* normalize_kv_pair: one type for both sides, the small one when the two  *)
(* together take no more than twelve bits.                                 *)
NormKv(kv) ==
    LET k == IF kv[1] = Absent THEN kv[2] ELSE kv[1]
        v == IF kv[2] = Absent THEN kv[1] ELSE kv[2]
        t == IF k \in FourBit \/ v \in FourBit
             THEN IF {k, v} \subseteq FourBit \cup {"q8_0", "q4_1", "q5_0", "q5_1"} THEN "q4_0" ELSE "q8_0"
             ELSE IF {k, v} \subseteq {"q4_1", "q5_0", "q5_1"} THEN "q4_0" ELSE "q8_0"
    IN  IF kv = <<Absent, Absent>> THEN kv ELSE <<t, t>>

(* save_registry: what ends up in the file.                                *)
Saved(reg) == Each(reg, LAMBDA k, e : [e EXCEPT !.kv = NormKv(@)])

-----------------------------------------------------------------------------
(* fill-ctx, fix-ctx, fill-size, rm, migrate-keys.                         *)

FillCtx(reg) ==
    Each(reg, LAMBDA k, e :
        IF e.ctx # 0 THEN e
        ELSE [e EXCEPT !.ctx = IF e.size > 0 THEN DefaultCtx(e.size, NormKv(e.kv)) ELSE 16])

FixCtx(reg) ==
    Each(reg, LAMBDA k, e :
        IF e.size > 0 /\ e.ctx = 0 THEN [e EXCEPT !.ctx = DefaultCtx(e.size, NormKv(e.kv))] ELSE e)

(* cmd_fill_size: all files of an entry must have the same size.  The      *)
(* inventory's file belongs to a key as if LM Studio had listed it.        *)
SizesOf(w, k) ==
    {FileInfo[f].size : f \in {g \in Artifacts(w) :
        /\ k \notin Excluded /\ FileInfo[g].size > 0
        /\ FileInfo[g].pub = k.pub /\ FileInfo[g].model = k.model
        /\ k.quant \notin NoQuant => FileInfo[g].quant = k.quant}}

FillSize(w, refresh) ==
    Each(w.reg, LAMBDA k, e :
        IF Cardinality(SizesOf(w, k)) = 1 /\ (e.size = 0 \/ refresh)
        THEN [e EXCEPT !.size = CHOOSE s \in SizesOf(w, k) : TRUE] ELSE e)

(* cmd_rm and cmd_migrate_keys: an entry without publisher moves under the *)
(* publisher it names, or is merged into the entry that is there.  What    *)
(* both say, the entry that is there says.                                 *)
Overruled(x, hand) == \E y \in hand : y[1] = x[1] /\ y # x
MergeMissing(e, other) ==
    [field \in DOMAIN e |->
        IF field = "hand" THEN e.hand \cup {x \in other.hand : ~Overruled(x, e.hand)}
        ELSE IF e[field] = BlankEntry[field] THEN other[field] ELSE e[field]]

(* Migrating does not look into an entry's local part when there is one.   *)
LocalFields == {"path", "config", "scope", "spec", "companion"}
MergeWhole(e, other) ==
    LET own == IF \E field \in LocalFields : e[field] # BlankEntry[field] THEN LocalFields ELSE {}
    IN  [field \in DOMAIN e |-> IF field \in own THEN e[field] ELSE MergeMissing(e, other)[field]]

Moving(reg, pubOf) == {k \in KeysOf(reg) : k.pub = Absent /\ pubOf[k] # Absent}
Published(k, pubOf) == [k EXCEPT !.pub = pubOf[k]]

Migrate(reg, pubOf) ==
    [j \in (KeysOf(reg) \ Moving(reg, pubOf)) \cup {Published(k, pubOf) : k \in Moving(reg, pubOf)} |->
        LET from == {k \in Moving(reg, pubOf) : Published(k, pubOf) = j}
            k    == CHOOSE k \in from : TRUE
        IN  IF from = {} THEN reg[j]
            ELSE IF j \in KeysOf(reg) THEN MergeWhole(reg[j], reg[k]) ELSE reg[k]]

(* What a merged entry said and the entry that is there says otherwise.    *)
GivenUp(reg, pubOf) ==
    UNION {{x \in reg[k].hand : Published(k, pubOf) \in KeysOf(reg)
                                /\ Overruled(x, reg[Published(k, pubOf)].hand)} : k \in Moving(reg, pubOf)}

-----------------------------------------------------------------------------
(* The rekeying to LM Studio's names.                                      *)

NewKeyOf(k, l) ==
    IF LmsKey(l).quant = Absent THEN [k EXCEPT !.quant = IF @ = Absent THEN "?" ELSE @] ELSE LmsKey(l)

(* One entry after the other gets its new key; where that is taken, the    *)
(* entry stays.                                                            *)
Moved(r, k, new) == IF new \in KeysOf(r) THEN r ELSE Drop(Put(r, new, r[k]), {k})
Renamed(reg, new) == FoldSet(LAMBDA k, r : Moved(r, k, new[k]), reg, KeysOf(reg))

(* _rekey_registry_to_lms.                                                 *)
Rekey(reg, models) ==
    LET model(k) == LmsRecords(k, models)
    IN  Renamed(reg, [k \in KeysOf(reg) |-> IF k \in Excluded \/ model(k) = {} THEN k
                                            ELSE NewKeyOf(k, CHOOSE l \in model(k) : TRUE)])

-----------------------------------------------------------------------------
(* dedupe-registry: several entries that declare one file.                 *)

(* Fields of two entries that both say something, and not the same.        *)
Conflicts(a, b) ==
    {field \in DOMAIN a \ {"hand", "path"} :
        a[field] # BlankEntry[field] /\ b[field] # BlankEntry[field] /\ a[field] # b[field]}
    \cup {x[1] : x \in {y \in b.hand : Overruled(y, a.hand)}}

Sharing(reg, f) == {k \in KeysOf(reg) : reg[k].path = f}
SharedFiles(reg) == {f \in DOMAIN FileInfo : Cardinality(Sharing(reg, f)) > 1}

(* The entry the file itself proves, or none (LocalModelResolver.          *)
(* _match_registry); every other owner must at least mean the same model.  *)
Keeper(w, f) ==
    IF f \notin w.disk \/ FileInfo[f].quant \in NoQuant THEN {}
    ELSE {k \in Sharing(w.reg, f) : k = Ident(FileInfo[f])}

SameModel(f, k) == k.quant = FileInfo[f].quant /\ k.model = FileInfo[f].model

(* One group that is unproven, or whose fields conflict without the user's *)
(* --keep, blocks the whole command.                                       *)
Unresolved(w, keep) ==
    {f \in SharedFiles(w.reg) :
        \/ Keeper(w, f) = {}
        \/ \E k \in Sharing(w.reg, f) : ~SameModel(f, k)
        \/ /\ \A k \in Keeper(w, f) : k \notin keep
           /\ \E a, b \in Sharing(w.reg, f) : Conflicts(w.reg[a], w.reg[b]) # {}}

Merged(reg, e, as) == FoldSet(LAMBDA a, acc : MergeMissing(acc, reg[a]), e, as)

Deduped(w) ==
    LET aliases == UNION {Sharing(w.reg, f) \ Keeper(w, f) : f \in SharedFiles(w.reg)}
        mine(k) == {a \in aliases : w.reg[a].path = w.reg[k].path}
    IN  [k \in KeysOf(w.reg) \ aliases |->
            IF w.reg[k].path \in SharedFiles(w.reg) THEN Merged(w.reg, w.reg[k], mine(k)) ELSE w.reg[k]]

-----------------------------------------------------------------------------
(* add: entries for models that have none.                                 *)

(* The entry written for a listed model; the file's header fills what it   *)
(* can (_read_gguf_arch), its size gives a first context length.           *)
NewEntry(w, l) ==
    LET here == Concrete(l) /\ l.path \in w.disk /\ ~FileInfo[l.path].support
        head == FileInfo[l.path].head
        kv   == <<"q8_0", "iq4_nl">>
    IN  IF here
        THEN [BlankEntry EXCEPT !.kv = kv, !.size = FileInfo[l.path].size,
                 !.ctx = IF FileInfo[l.path].size > 0 THEN DefaultCtx(FileInfo[l.path].size, NormKv(kv)) ELSE 16,
                 !.layers = head.layers, !.max = head.max, !.reasoning = head.reasoning,
                 !.arch = IF head.experts > 0 THEN "moe" ELSE "dense"]
        ELSE [BlankEntry EXCEPT !.kv = kv, !.ctx = 16]

AddedKey(l) == [LmsKey(l) EXCEPT !.quant = IF @ = Absent THEN "?" ELSE @]

(* An entry without a quant gives way to the first variant that has one.   *)
Added(r, k, e) == IF k \in KeysOf(r) \cup Excluded THEN r ELSE Put(Drop(r, {[k EXCEPT !.quant = Absent]}), k, e)
Add(w, models) == FoldSet(LAMBDA l, r : Added(r, AddedKey(l), NewEntry(w, l)), w.reg, models)

(* The models cmd_sync hands to it: neither a name nor a file leads to an  *)
(* entry.  Without LM Studio the files stand in for its list.              *)
AsModels(w) ==
    LET named(f) == CHOOSE g \in Artifacts(w) : Ident(FileInfo[g]) = Ident(FileInfo[f])
    IN  {[pub |-> FileInfo[f].pub, model |-> FileInfo[f].model, quant |-> FileInfo[f].quant,
          selected |-> Absent, variants |-> {}, path |-> named(f)] : f \in {g \in Artifacts(w) : Complete(g)}}

Listed(w) == IF w.lms = {} THEN AsModels(w) ELSE w.lms

NewModels(w) ==
    {l \in w.lms : (\A k \in KeysOf(w.reg) : ~LmsMatches(l, k)) /\ PhysicalMatches(w, l) = {}}

-----------------------------------------------------------------------------
(* Facts that the GGUF header owns.                                        *)

(* _identity_gguf_headers: only one file, of the entry's own identity.     *)
HeaderFiles(w, k) ==
    LET files == Evidence(w, k)
    IN  IF Cardinality(files) # 1 THEN {}
        ELSE {f \in files : Complete(f) /\ FileInfo[f].pub = k.pub /\ FileInfo[f].quant = k.quant}

HasHeader(w, k) == HeaderFiles(w, k) # {}
Header(w, k) == FileInfo[CHOOSE f \in HeaderFiles(w, k) : TRUE].head

(* cmd_fill_quant: a key without a quant gets the one that its only file   *)
(* proves, unless that key exists.                                         *)
Proposals(w, k) ==
    {[k EXCEPT !.quant = FileInfo[f].quant] : f \in {g \in Artifacts(w) :
        /\ k.quant \in NoQuant /\ k.pub # Absent
        /\ Complete(g) /\ FileInfo[g].pub = k.pub /\ FileInfo[g].model = k.model}}

(* The registry with every proposed key, and no configurations.            *)
Joined(w) ==
    [w EXCEPT !.confs = << >>,
              !.reg = [f \in KeysOf(@) \cup UNION {Proposals(w, k) : k \in KeysOf(@)} |->
                          IF f \in KeysOf(@) THEN @[f] ELSE @[CHOOSE k \in KeysOf(@) : f \in Proposals(w, k)]]]

FillQuant(w) ==
    LET links     == Refreshed(Joined(w))
        proven(k) == Cardinality(Proposals(w, k)) = 1
                     /\ \A f \in Proposals(w, k) : Cardinality(Evidence(links, f)) = 1
    IN  Renamed(w.reg, [k \in KeysOf(w.reg) |-> IF proven(k) THEN CHOOSE f \in Proposals(w, k) : TRUE ELSE k])

(* cmd_fill_arch fills what is missing, cmd_sync_from_gguf corrects what   *)
(* differs, cmd_fill_reasoning fills a missing reasoning type.             *)
FillArch(w) ==
    Each(w.reg, LAMBDA k, e :
        IF ~HasHeader(w, k) \/ Header(w, k).layers = 0 THEN e
        ELSE LET h == Header(w, k) IN
             [e EXCEPT !.max = IF @ = 0 THEN h.max ELSE @,
                       !.layers = IF @ = 0 THEN h.layers ELSE @,
                       !.reasoning = IF @ = Absent /\ e.layers = 0 THEN h.reasoning ELSE @])

(* Mutant of SyncFromGguf: the header only fills what the entry lacks.      *)
X_FillsOnly(w) ==
    Each(w.reg, LAMBDA k, e :
        IF ~HasHeader(w, k) \/ Header(w, k).layers = 0 THEN e
        ELSE [e EXCEPT !.layers = IF @ = 0 THEN Header(w, k).layers ELSE @,
                       !.max = IF @ = 0 THEN Header(w, k).max ELSE @])

SyncFromGguf(w) ==
    Each(w.reg, LAMBDA k, e :
        IF ~HasHeader(w, k) \/ Header(w, k).layers = 0 THEN e
        ELSE LET h == Header(w, k) IN
             [e EXCEPT !.layers = h.layers, !.max = IF h.max = 0 THEN @ ELSE h.max,
                       !.arch = IF h.experts > 0 THEN "moe" ELSE @,
                       !.maxExperts = IF h.experts > 0 THEN h.experts ELSE @])

FillReasoning(w) ==
    Each(w.reg, LAMBDA k, e :
        IF e.reasoning = Absent /\ HasHeader(w, k) THEN [e EXCEPT !.reasoning = Header(w, k).reasoning] ELSE e)

-----------------------------------------------------------------------------
(* _materialize_local_bindings: what the links prove is written down.      *)

CompanionOk(w, p, main, helper) ==
    BindingOk(p, main, helper, w.disk, [f \in DOMAIN FileInfo |-> FileInfo[f].head], w.print, Recorded)

(* _drop_unresolvable_companion_profile.                                   *)
DropUnresolvable(w, e) ==
    IF e.spec.mode = "separate" /\ e.spec.type = "mtp" /\ e.companion \notin w.disk
    THEN [e EXCEPT !.spec = NoProfile, !.companion = NoFile] ELSE e

(* The profile that LM Studio's configuration asks for: integrated MTP is  *)
(* also found in the file, a companion must be found and fit; a recorded   *)
(* pairing lives on only with the same kind of profile and the same file.  *)
(* With a file that is there and does not fit the profile stays, without a *)
(* companion, for validate to complain of.                                 *)
WithProfile(w, e, main, c) ==
    LET asked   == w.confs[c].spec
        norm    == Normalize(asked)
        own     == [NoProfile EXCEPT !.type = "mtp", !.mode = "integrated"]
        p       == IF norm.type = Absent /\ CompanionOk(w, own, main, NoFile) THEN own ELSE norm
        helper  == w.confs[c].draft
        paired  == IF /\ e.spec.pairing # "none" /\ e.companion = helper
                      /\ e.spec.type = p.type /\ e.spec.mode = p.mode /\ e.spec.method = p.method
                   THEN [p EXCEPT !.pairing = e.spec.pairing] ELSE p
    IN  IF p.type = Absent THEN [e EXCEPT !.spec = NoProfile]
        ELSE IF Role(p) = "none" THEN [e EXCEPT !.spec = [p EXCEPT !.ref = Absent], !.companion = NoFile]
        ELSE IF helper \in w.disk /\ CompanionOk(w, paired, main, helper)
        THEN [e EXCEPT !.spec = [paired EXCEPT !.ref = Absent], !.companion = helper]
        ELSE [e EXCEPT !.spec = IF helper \in w.disk THEN [p EXCEPT !.ref = Absent] ELSE NoProfile,
                       !.companion = NoFile]

Localized(w, k, e) ==
    LET main  == CHOOSE f \in Evidence(w, k) : TRUE
        c     == Binding(w, k)
        quiet == IF e.policy = "disabled" THEN [e EXCEPT !.spec = NoProfile, !.companion = NoFile] ELSE e
        here  == [quiet EXCEPT !.path = main]
        bound == [here EXCEPT !.config = c, !.scope = IF e.config = NoConf THEN "gguf" ELSE @]
    IN  IF Cardinality(Evidence(w, k)) # 1 THEN e
        ELSE IF c = NoConf THEN DropUnresolvable(w, here)
        ELSE IF e.policy \in {"disabled", "registry"} THEN bound
        ELSE WithProfile(w, bound, main, c)

Materialize(w) == Each(w.reg, LAMBDA k, e : Localized(w, k, e))

-----------------------------------------------------------------------------
(* Values from LM Studio's configurations and loaded models.               *)

Limit(e, field) == IF field = "ctx" THEN e.max ELSE IF field = "experts" THEN e.maxExperts ELSE 0

(* _build_config_sync_proposal: the configurations of installed models     *)
(* that one entry is linked to; a value above the header's limit is a      *)
(* conflict, and so are different values.                                  *)
Proposed(w, k, field) ==
    LET c      == Binding(w, k)
        values == IF c = NoConf THEN {} ELSE {w.confs[c][field]} \ {0}
        over   == {v \in values : Limit(w.reg[k], field) > 0 /\ v > Limit(w.reg[k], field)}
    IN  IF over = {} THEN values ELSE {}

(* _loaded_lms_expert_values: for models whose configuration is silent.    *)
LoadedExperts(w, k) ==
    LET counts == {x.experts : x \in {y \in Loaded : y.key = k /\ y.experts > 0}}
        c      == Binding(w, k)
    IN  IF /\ Cardinality(counts) = 1
           /\ c = NoConf \/ w.confs[c].experts = 0
           /\ \A n \in counts : w.reg[k].maxExperts = 0 \/ n <= w.reg[k].maxExperts
        THEN counts ELSE {}

(* cmd_sync_from_configs with a write flag: only what is no conflict, and  *)
(* of the fields that the flag names.                                      *)
Imported(w, fields, k, e) ==
    LET take(set, old) == IF set = {} THEN old ELSE CHOOSE v \in set : TRUE
        moe      == \E j \in KeysOf(w.reg) : w.reg[j].arch = "moe"
        c        == Binding(w, k)
        fromConf == Proposed(w, k, "experts")
    IN  [e EXCEPT !.ctx = IF "ctx" \in fields THEN take(Proposed(w, k, "ctx"), @) ELSE @,
                  !.experts = IF "experts" \notin fields THEN @
                              ELSE IF fromConf # {} \/ ~moe THEN take(fromConf, @)
                              ELSE take(LoadedExperts(w, k), @),
                  !.kv = IF "kv" \notin fields \/ c = NoConf THEN @
                         ELSE IF w.confs[c].kv = <<Absent, Absent>> THEN @ ELSE NormKv(w.confs[c].kv)]

SyncFromConfigs(w, fields) == Each(w.reg, LAMBDA k, e : Imported(w, fields, k, e))

(* _research_missing_sampling: only entries without a block, unless forced.*)
Research(reg, verdict, force) ==
    Each(reg, LAMBDA k, e :
        IF k \notin Excluded /\ (force \/ e.sampling = Absent) THEN [e EXCEPT !.sampling = verdict] ELSE e)

(* classify_registry: what is set stays; the blueprint follows from it     *)
(* unless the entry keeps its own.                                         *)
Classified(reg) ==
    Each(reg, LAMBDA k, e :
        LET reasoning == IF e.reasoning = Absent THEN "instruct" ELSE e.reasoning
        IN  [e EXCEPT !.reasoning = reasoning,
                      !.blueprint = IF e.keepBlueprint THEN @ ELSE BlueprintOf(reasoning)])
=============================================================================
