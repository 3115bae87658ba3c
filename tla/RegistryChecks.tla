--------------------------- MODULE RegistryChecks ---------------------------
(***************************************************************************)
(* What the registry commands report (src/registry_tool.py): compare,      *)
(* validate, and the search for configurations by name that quarantine     *)
(* uses (src/assemble_blueprint.py).  Nothing here changes a file.         *)
(***************************************************************************)
EXTENDS RegistryCommands

CONSTANTS TemplateOf,  \* [keys -> {"none", "missing", "there"}]: _registry_template_name
          Statuses,    \* RESEARCH_STATUSES and Absent
          Policies     \* what resolve_reasoning accepts

-----------------------------------------------------------------------------
(* Configurations by name.                                                 *)

SameBroad(c, k) == Broad[ConfInfo[c].name] = Broad[k.model]
Related(c, k) ==
    /\ k.pub = Absent \/ ConfInfo[c].pub \in {Absent, k.pub}
    /\ k.quant \in NoQuant \/ ConfInfo[c].quant \in {Absent, k.quant}

(* find_all_configs_for_registry_key: the exact name, else the broad one.  *)
FindConfigs(w, k) ==
    LET exact == {c \in DOMAIN w.confs : Related(c, k) /\ ConfInfo[c].name = k.model}
        broad == {c \in DOMAIN w.confs : Related(c, k) /\ SameBroad(c, k)}
    IN  IF exact # {} THEN exact ELSE broad

(* find_registry_matches_for_config, the other direction: keys of the same *)
(* quant before keys that give none.                                       *)
FindKeys(w, c) ==
    LET fits   == {k \in KeysOf(w.reg) : /\ ConfInfo[c].pub = Absent \/ k.pub = ConfInfo[c].pub
                                         /\ ConfInfo[c].quant = Absent \/ k.quant \in NoQuant \cup {ConfInfo[c].quant}}
        same   == {k \in fits : ConfInfo[c].quant # Absent /\ k.quant = ConfInfo[c].quant}
        from   == IF same # {} THEN same ELSE fits
        exact  == {k \in from : k.model = ConfInfo[c].name}
    IN  IF exact # {} THEN exact ELSE {k \in from : SameBroad(c, k)}

-----------------------------------------------------------------------------
(* cmd_compare.                                                            *)

(* A listed model is an entry's by its name or by its only possible file.  *)
IsModelOf(w, l, k) == LmsMatches(l, k) \/ PhysicalMatches(w, l) = {k}

ReportedNew(w) == {l \in w.lms : \A k \in KeysOf(w.reg) : ~IsModelOf(w, l, k)}
ReportedMissing(w) ==
    {k \in KeysOf(w.reg) \ Excluded : w.reg[k].blueprint # "none" /\ \A l \in w.lms : ~IsModelOf(w, l, k)}
Orphans(w, links) ==
    {c \in DOMAIN w.confs : (\A k \in KeysOf(links.reg) : Binding(links, k) # c) /\ FindKeys(w, c) = {}}

(* _missing_registry_keys: what quarantine goes by, names only.            *)
Missing(w) ==
    {k \in KeysOf(w.reg) \ Excluded : w.reg[k].blueprint # "none" /\ LmsRecords(k, w.lms) = {}}

(* _gguf_for_key_exists: the same comparison with the files on disk.       *)
OnDisk(w, k) ==
    Cardinality({f \in w.files : FileInfo[f].pub = k.pub /\ FileInfo[f].model = k.model
                                 /\ (k.quant \notin NoQuant => FileInfo[f].quant = k.quant)}) = 1

-----------------------------------------------------------------------------
(* cmd_validate.  Each check is the set of keys it complains about.        *)

Active(w, links) ==
    UNION {LET exact == {k \in KeysOf(w.reg) : LmsMatches(l, k)}
               keys  == IF exact # {} THEN exact ELSE {k \in KeysOf(w.reg) : LogicalMatch(l, k)}
           IN  IF Cardinality(keys) = 1 THEN keys ELSE {} : l \in w.lms}

(* _registry_local_bundle_errors: the declared pair does not fit, or a     *)
(* configuration for a whole folder has two owners.                        *)
PairInvalid(w) ==
    {k \in KeysOf(w.reg) :
        LET e == w.reg[k] IN
        /\ e.config # NoConf
        /\ \/ ~PairOk(w, e.path, e.config, e.scope)
           \/ e.scope = "model" /\ \E j \in KeysOf(w.reg) \ {k} : w.reg[j].config = e.config /\ w.reg[j].scope = "model"}

(* Mutant of Unconfirmed: a pair whose paths fit is taken for proven.      *)
X_PathsSuffice(w, links) == {}

(* A declared pair that no link confirms is also reported there.           *)
Unconfirmed(w, links) ==
    {k \in KeysOf(w.reg) : w.reg[k].config # NoConf /\ Binding(links, k) = NoConf}

BindingMissing(w, links) ==
    {k \in KeysOf(links.reg) \ PairInvalid(w) :
        LET c == Binding(links, k) IN
        /\ Cardinality(Evidence(links, k)) = 1 /\ c # NoConf /\ k \in KeysOf(w.reg)
        /\ ~(w.reg[k].path \in Evidence(links, k) /\ w.reg[k].config = c)}

CompanionInvalid(w) ==
    {k \in KeysOf(w.reg) :
        LET e == w.reg[k] IN
        e.policy # "disabled" /\ e.spec # NoProfile
        /\ ~CompanionOk(w, e.spec, e.path, IF Role(e.spec) = "none" THEN NoFile ELSE e.companion)}

(* _gguf_drift_errors.                                                     *)
HeaderDrift(w) ==
    {k \in KeysOf(w.reg) :
        /\ HasHeader(w, k) /\ Header(w, k).layers # 0
        /\ LET h == Header(w, k) IN
           \/ h.experts > 0 /\ w.reg[k].arch # "moe"
           \/ h.experts > 0 /\ w.reg[k].maxExperts # h.experts
           \/ h.max > 0 /\ w.reg[k].max # h.max
           \/ w.reg[k].layers # h.layers}

ExpertsDrift(w, links) ==
    {k \in KeysOf(w.reg) \cap KeysOf(links.reg) :
        LET c == Binding(links, k) IN
        c # NoConf /\ w.confs[c].experts > 0 /\ w.confs[c].experts # w.reg[k].experts}

ExpertsExceed(w, links) ==
    {k \in KeysOf(w.reg) :
        /\ w.reg[k].maxExperts > 0
        /\ \/ w.reg[k].arch = "moe" /\ w.reg[k].experts > w.reg[k].maxExperts
           \/ /\ k \in KeysOf(links.reg) /\ Binding(links, k) # NoConf
              /\ w.confs[Binding(links, k)].experts > w.reg[k].maxExperts}

(* The checks that only give a hint (_VALIDATION_ADVISORY_CHECKS).         *)
Advice(w, links) ==
    [registry_no_config |-> {k \in KeysOf(w.reg) : k \in Active(w, links) /\ Binding(links, k) = NoConf},
     template_missing_config |-> {k \in KeysOf(w.reg) : TemplateOf[k] # "none" /\ Binding(links, k) = NoConf},
     config_context_drift |-> {k \in KeysOf(links.reg) : LET c == Binding(links, k) IN
                                  c # NoConf /\ w.confs[c].ctx # 0 /\ w.reg[k].ctx \notin {0, w.confs[c].ctx}}]

Drift(w, links) ==
    [config_experts_drift |-> ExpertsDrift(w, links),
     runtime_experts_missing |-> {k \in KeysOf(w.reg) : w.reg[k].arch = "moe" /\ w.reg[k].experts = 0},
     runtime_experts_exceed_max |-> ExpertsExceed(w, links),
     gguf_header_drift |-> HeaderDrift(w)]

(* The checks that block.                                                  *)
Blocking(w, links) ==
    [local_config_pair_invalid |-> PairInvalid(w) \cup Unconfirmed(w, links),
     local_binding_missing |-> BindingMissing(w, links),
     local_companion_invalid |-> CompanionInvalid(w),
     template_missing_file |-> {k \in KeysOf(w.reg) : TemplateOf[k] = "missing"},
     missing_reasoning |-> {k \in KeysOf(w.reg) : w.reg[k].reasoning = Absent},
     missing_blueprint |-> {k \in KeysOf(w.reg) : w.reg[k].blueprint = Absent},
     reasoning_arch_mismatch |-> {k \in KeysOf(w.reg) : w.reg[k].reasoning \notin Policies \cup {Absent}},
     sampling_research_status_invalid |-> {k \in KeysOf(w.reg) : w.reg[k].sampling \notin Statuses},
     missing_publisher |-> {k \in KeysOf(w.reg) : k.pub = Absent},
     missing_quant |-> {k \in KeysOf(w.reg) : k.quant = Absent},
     quantization_status_invalid |-> {k \in KeysOf(w.reg) : (k.quant = "?") # w.reg[k].mix}]

Complaints(report) == {c \in DOMAIN report : report[c] # {}}

(* The exit code of pipeline full: any blocking check, unless it is one of *)
(* _DRIFT_CHECKS and the caller ignores those.                             *)
Fails(w, links, ignoreDrift) ==
    Complaints(Blocking(w, links)) \cup (IF ignoreDrift THEN {} ELSE Complaints(Drift(w, links))) # {}
=============================================================================
