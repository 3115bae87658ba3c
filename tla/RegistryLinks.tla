--------------------------- MODULE RegistryLinks ---------------------------
(***************************************************************************)
(* The join of the four inventories a registry command works on            *)
(* (src/registry_tool.py): the entries of the registry, the models LM      *)
(* Studio lists, its configuration files, and the GGUF files on disk.      *)
(*                                                                         *)
(* A world w is a record of the four: w.reg maps keys to entries, w.lms is *)
(* a set of models, w.confs maps configuration files to their contents,    *)
(* w.disk is the set of GGUF files, w.print their contents' fingerprints,  *)
(* w.files what the command's scan found, and w.links what follows from    *)
(* all of that when the links are made.  Keys and models are records       *)
(* [pub, model, quant]; what spellings mean the same is Identity's matter  *)
(* and is settled here.  A quant is "?" when an entry says that it is      *)
(* unknown.                                                                *)
(***************************************************************************)
EXTENDS Naturals, FiniteSets, SequencesExt, Companions

CONSTANTS FileInfo,  \* [files -> [pub, model, quant, support, size, head]]
          ConfInfo,  \* [configs -> [pub, name, quant, for, folder]]: what the path says
          Broad      \* [names -> names]: normalize_for_config

NoFile == "nofile"
NoConf == "noconf"
NoQuant == {Absent, "?"}

Ident(x) == [pub |-> x.pub, model |-> x.model, quant |-> x.quant]

(* ArtifactIdentityEvidence.is_complete.                                   *)
Complete(f) == FileInfo[f].pub # Absent /\ FileInfo[f].quant \notin NoQuant

-----------------------------------------------------------------------------
(* Models that LM Studio lists.                                            *)

(* _quant_from_lms_record: the selected variant before the listed quant.   *)
LmsQuant(l) == IF l.selected \notin NoQuant THEN l.selected ELSE l.quant

(* _canonical_lms_key.                                                     *)
LmsKey(l) ==
    [pub |-> l.pub, model |-> l.model,
     quant |-> IF LmsQuant(l) # Absent THEN LmsQuant(l) ELSE l.selected]

(* _lms_identity_keys: the bare name, and one name per variant it offers.  *)
LmsIdentities(l) ==
    LET quants == (l.variants \cup {l.selected, LmsQuant(l)}) \ {"?"}
    IN  {[pub |-> l.pub, model |-> l.model, quant |-> q] : q \in quants \cup {Absent}}

(* _lms_matches_registry_key: a key with a known quant is compared with    *)
(* the names that have one, any other with the bare name.                  *)
LmsMatches(l, k) ==
    IF k.quant \notin NoQuant THEN Ident(k) \in LmsIdentities(l)
    ELSE l.pub = k.pub /\ l.model = k.model

(* _lms_record_for_registry_key: the model a key stands for, if only one.  *)
LmsRecords(k, models) ==
    LET matches == {l \in models : LmsMatches(l, k)}
    IN  IF Cardinality(matches) = 1 THEN matches ELSE {}

(* _lms_logical_model_matches_registry_key: any publisher.                 *)
LogicalMatch(l, k) == l.model = k.model /\ LmsKey(l).quant = k.quant

(* _lms_has_concrete_artifact_path and _lms_path_matches_candidate: a      *)
(* logical path says nothing about the file.                               *)
Concrete(l) == l.path # NoFile
PathMatches(l, f) == Concrete(l) => l.path = f

(* _config_matches_lms_model: the model's own name; else the same name     *)
(* under the same publisher once endings are dropped.                      *)
ConfigMatchesLms(c, l) ==
    /\ ConfInfo[c].name = l.model /\ ConfInfo[c].pub \in {Absent, l.pub}
    /\ ConfInfo[c].quant = Absent \/ LmsQuant(l) = Absent \/ ConfInfo[c].quant = LmsQuant(l)

-----------------------------------------------------------------------------
(* Files on disk.                                                          *)

(* The files _ensure_gguf_inventory finds: no companions, and none whose   *)
(* entry is bound to another file (LocalModelResolver.candidates).  A      *)
(* command scans once; the links are made again whenever it asks.          *)
Scan(reg, disk) ==
    {f \in disk : /\ ~FileInfo[f].support
                  /\ \A k \in DOMAIN reg : k = Ident(FileInfo[f]) => reg[k].path \in {NoFile, f}}

Artifacts(w) == w.files

(* The files that prove the identity of key k.                             *)
Proving(w, k) == {f \in Artifacts(w) : Complete(f) /\ Ident(FileInfo[f]) = k}

(* _physical_registry_matches_lms_model: the entries whose files a listed  *)
(* model can be.                                                           *)
PhysicalMatches(w, l) ==
    {k \in DOMAIN w.reg :
        \E f \in Proving(w, k) :
           /\ FileInfo[f].model = l.model /\ PathMatches(l, f)
           /\ LmsKey(l).quant \in NoQuant \/ LmsKey(l).quant = k.quant}

(* validate_config_gguf_pair has no error: the path of the configuration   *)
(* names this file, or with the scope "model" its folder, and the quants   *)
(* that both state are the same.                                           *)
PairOk(w, f, c, scope) ==
    /\ f \in w.disk /\ c \in DOMAIN w.confs
    /\ \/ scope = "gguf" /\ ConfInfo[c].for = f
       \/ scope = "model" /\ ConfInfo[c].folder # Absent /\ ConfInfo[c].folder = FileInfo[f].model
    /\ ConfInfo[c].quant = Absent \/ FileInfo[f].quant = Absent \/ ConfInfo[c].quant = FileInfo[f].quant

-----------------------------------------------------------------------------
(* What an entry says about its own file and configuration.                *)

(* The configuration an entry declares is taken when it and the file prove *)
(* the same identity and quant; a configuration of another publisher only  *)
(* with the scope "model", for a name that states that publisher.          *)
DeclaredConfigs(w, k) ==
    LET e     == w.reg[k]
        quant == FileInfo[e.path].quant
        mixed == k.quant = "?" /\ e.mix /\ quant = Absent
        c     == e.config
    IN  IF /\ mixed \/ (k.quant \notin NoQuant /\ quant # Absent)
           /\ PairOk(w, e.path, c, e.scope)
           /\ IF ConfInfo[c].pub \in {Absent, k.pub}
              THEN ConfInfo[c].name = k.model /\ (mixed \/ quant = k.quant)
              ELSE e.scope = "model" /\ k.model = ConfInfo[c].pub \o "/" \o ConfInfo[c].name
           /\ IF mixed THEN ConfInfo[c].quant = Absent
              ELSE quant = k.quant /\ ConfInfo[c].quant \in {Absent, k.quant}
        THEN {c} ELSE {}

(* _registry_local_config_matches.                                         *)
Declares(e) == e.path # NoFile \/ e.config # NoConf
LocalPath(w, k) == IF w.reg[k].path \in w.disk THEN w.reg[k].path ELSE NoFile
LocalConfigs(w, k) ==
    LET e == w.reg[k] IN
    IF LocalPath(w, k) = NoFile THEN {}
    ELSE IF e.config = NoConf THEN {c \in DOMAIN w.confs : PairOk(w, e.path, c, "gguf")}
    ELSE IF e.config \in DOMAIN w.confs THEN DeclaredConfigs(w, k) ELSE {}

(* The only entry that declares this file.                                 *)
SoleOwner(w, k) == \A j \in DOMAIN w.reg : w.reg[j].path = w.reg[k].path => j = k

(* local gives each entry's own configurations.                            *)
PersistedBinding(w, local, k) ==
    /\ Declares(w.reg[k]) /\ LocalPath(w, k) # NoFile /\ SoleOwner(w, k)
    /\ Cardinality(local[k]) = 1

PersistedOwners(local, bound, c) == {j \in bound : c \in local[j]}

-----------------------------------------------------------------------------
(* _refresh_identity_links.                                                *)

LinkedModels(w, k) ==
    LET matching == {l \in w.lms : LmsMatches(l, k)}
    IN  IF matching = {} /\ Cardinality(Proving(w, k)) = 1
        THEN {l \in w.lms : LogicalMatch(l, k)} ELSE matching

(* The path that the one linked model names overrides the proof by name.   *)
LinkedArtifacts(w, k) ==
    LET models == LinkedModels(w, k)
        l      == CHOOSE l \in models : TRUE
    IN  IF Cardinality(models) # 1 \/ ~Concrete(l) THEN Proving(w, k)
        ELSE {f \in Artifacts(w) : l.path = f /\ FileInfo[f].pub = k.pub /\ FileInfo[f].quant = k.quant
                                   /\ (Ident(FileInfo[f]) \in DOMAIN w.reg => Ident(FileInfo[f]) = k)}

(* The configurations an entry can get: what it declares, if nobody else   *)
(* does; otherwise those of its one file that nobody else declares.        *)
Matching(w, local, files, bound, k) ==
    IF Declares(w.reg[k])
    THEN IF k \in bound /\ \A c \in local[k] : PersistedOwners(local, bound, c) = {k} THEN local[k] ELSE {}
    ELSE IF Cardinality(files[k]) # 1 THEN {}
    ELSE {c \in DOMAIN w.confs : /\ PersistedOwners(local, bound, c) \subseteq {k}
                                 /\ \E f \in files[k] : PairOk(w, f, c, "gguf")}

(* _build_runtime_binding: the configuration, if no other entry matches it.*)
Bound(match, files, bound, k) ==
    IF /\ Cardinality(match[k]) = 1
       /\ k \in bound \/ Cardinality(files[k]) = 1
       /\ \A j \in DOMAIN match \ {k} : match[j] # match[k]
    THEN CHOOSE c \in match[k] : TRUE ELSE NoConf

(* The links of a world: per entry the files that are its evidence, and    *)
(* the runtime configuration.  An entry that is bound and matches nothing, *)
(* because two declare one configuration for files of their own, makes the *)
(* code take the first element of an empty tuple (IndexError, line 693).   *)
LinksOf(w, files, bound, match) ==
    [k \in DOMAIN w.reg |->
        [files |-> Proving(w, k) \cup files[k], conf |-> Bound(match, files, bound, k),
         fails |-> k \in bound /\ match[k] = {}]]

LinkMatches(w, local, files, bound) ==
    [w EXCEPT !.links = LinksOf(w, files, bound, [k \in DOMAIN w.reg |-> Matching(w, local, files, bound, k)])]

LinkLocal(w, local, files) == LinkMatches(w, local, files, {k \in DOMAIN w.reg : PersistedBinding(w, local, k)})

Refreshed(w) ==
    LinkLocal(w, [k \in DOMAIN w.reg |-> LocalConfigs(w, k)], [k \in DOMAIN w.reg |-> LinkedArtifacts(w, k)])

LinksFail(w)   == \E k \in DOMAIN w.links : w.links[k].fails
Binding(w, k)  == w.links[k].conf
Evidence(w, k) == w.links[k].files
=============================================================================
