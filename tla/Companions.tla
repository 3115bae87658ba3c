----------------------------- MODULE Companions -----------------------------
(***************************************************************************)
(* Speculative decoding with a companion file: which profile an entry asks *)
(* for (src/speculative.py), and whether the companion's header proves     *)
(* that it belongs to the main model (src/artifact_bundle.py).             *)
(*                                                                         *)
(* A header is a record of what the checks read; tensor shapes are reduced *)
(* to the dimension they are made for, token tables to a name.             *)
(***************************************************************************)
EXTENDS Naturals, FiniteSets, TLC

(* A word that is not given; 0 for a number.                               *)
Absent == ""

Specialised == {"mtp", "dflash", "dspark"}
NoProfile == [type |-> Absent, mode |-> Absent, method |-> Absent, ref |-> Absent, pairing |-> "none"]

(* normalize_speculative_profile: aliases of a type are folded, a reference*)
(* makes an MTP profile a separate one, an unknown type is no profile.     *)
MethodOfReference(ref) == IF ref \in {"dflash", "dspark"} THEN ref ELSE "simple"

Normalize(p) ==
    CASE p.type \in {"mtp", "draft-mtp"} ->
           [p EXCEPT !.type = "mtp", !.method = Absent,
                     !.mode = IF @ \notin {Absent, "integrated", "separate"} THEN @
                              ELSE IF @ = "separate" \/ p.ref # Absent THEN "separate" ELSE "integrated"]
      [] p.type \in {"draft", "draft-dflash", "draft-dspark", "draft-simple"} ->
           [p EXCEPT !.type = "draft", !.mode = Absent,
                     !.method = IF @ \in {"drafter", "draft", "standard"} THEN "simple"
                                ELSE IF @ # Absent THEN @
                                ELSE IF p.type = "draft-dflash" THEN "dflash"
                                ELSE IF p.type = "draft-dspark" THEN "dspark"
                                ELSE IF p.type = "draft-simple" THEN "simple"
                                ELSE MethodOfReference(p.ref)]
      [] OTHER -> NoProfile

(* companion_role.                                                         *)
Role(p) ==
    LET n == Normalize(p) IN
    IF n.type = "mtp" /\ n.mode = "separate" THEN "mtp"
    ELSE IF n.type = "draft" THEN "draft" ELSE "none"

(* classify_lms_speculative_values: the first switch of LM Studio that is  *)
(* on decides; with none, a reference alone asks for a draft model.        *)
Classify(on, ref) ==
    LET is(type, mode, method) == [NoProfile EXCEPT !.type = type, !.mode = mode, !.method = method, !.ref = ref]
    IN  CASE "mtp_sidecar" \in on    -> is("mtp", "separate", Absent)
          [] "mtp_sidecar" \notin on /\ "mtp" \in on -> is("mtp", "integrated", Absent)
          [] on \cap {"mtp_sidecar", "mtp"} = {} /\ "dflash_sidecar" \in on -> is("draft", Absent, "dflash")
          [] on \cap {"mtp_sidecar", "mtp", "dflash_sidecar"} = {} /\ "dspark_sidecar" \in on -> is("draft", Absent, "dspark")
          [] on = {"simple"}         -> is("draft", Absent, "simple")
          [] on = {} /\ ref # Absent     -> is("draft", Absent, MethodOfReference(ref))
          [] OTHER                   -> NoProfile

(* lms_speculative_values: what a patch writes back into LM Studio's       *)
(* switches; "keep" leaves them alone, "invalid" is a ValueError.          *)
SwitchesFor(policy, p, companion) ==
    LET n == Normalize(p) IN
    CASE policy = "lmstudio" -> [kind |-> "keep", on |-> {}, ref |-> Absent]
      [] policy = "disabled" -> [kind |-> "write", on |-> {}, ref |-> Absent]
      [] policy = "registry" ->
           IF \/ n.type = Absent
              \/ n.type = "draft" /\ n.method \notin {"simple", "dspark", "dflash"}
              \/ Role(p) # "none" /\ companion = Absent
           THEN [kind |-> "invalid", on |-> {}, ref |-> Absent]
           ELSE [kind |-> "write",
                 on |-> { IF n.type = "mtp" THEN IF n.mode = "separate" THEN "mtp_sidecar" ELSE "mtp"
                          ELSE IF n.method = "simple" THEN "simple"
                          ELSE IF n.method = "dflash" THEN "dflash_sidecar" ELSE "dspark_sidecar" },
                 ref |-> IF Role(p) = "none" THEN Absent ELSE companion]

(* llama_cpp_spec_type.                                                    *)
LlamaType(p) ==
    LET n == Normalize(p) IN
    IF n.type = "mtp" THEN "draft-mtp"
    ELSE IF n.type = "draft" /\ n.method \in {"dflash", "dspark", "simple"} THEN n.method ELSE "none"

-----------------------------------------------------------------------------
(* Headers.                                                                *)

(* _helper_kind: what kind of companion a file is.                         *)
HelperKind(h) ==
    CASE h.arch = "dflash" ->
           IF {"markov1", "markov2"} \subseteq h.tensors THEN "dspark"
           ELSE IF {"markov1", "markov2"} \cap h.tensors # {} THEN "invalid" ELSE "dflash"
      [] h.arch # "dflash" /\ "nextn" \in h.tensors
            /\ (h.assistant \/ h.mtpType \/ (h.nextn > 0 /\ h.nextn = h.blocks)) -> "mtp"
      [] OTHER -> "ordinary"

(* _tokenizer_errors: complete and equal token tables; an ordinary draft   *)
(* model must also split and delimit text the same way.                    *)
TokenizersAgree(main, helper, ordinary) ==
    /\ main.tokens # Absent /\ helper.tokens = main.tokens
    /\ main.tokenizer # Absent /\ helper.tokenizer = main.tokenizer
    /\ ordinary => helper.split = main.split

(* _header_target_matches: the companion names the repository of the main  *)
(* model, or of what the main model is a mere quantization of.             *)
HeaderTargets(main, helper) ==
    /\ helper.target # Absent
    /\ helper.target \in {main.repo} \cup IF main.finetune \/ ~main.quantized THEN {} ELSE {main.baseRepo}

(* _target_shape_errors.                                                   *)
ShapesFit(main, helper, method) ==
    /\ main.hidden > 0
    /\ method \in {"dflash", "dspark"} =>
          /\ helper.targets # {} /\ main.blocks > 0 /\ main.nextn < main.blocks
          /\ \A l \in helper.targets : l < main.blocks - main.nextn
          /\ helper.fc = main.hidden * Cardinality(helper.targets)
    /\ method = "mtp" =>
          /\ (IF helper.out # 0 THEN helper.out ELSE helper.hidden) = main.hidden
          /\ helper.projection = main.hidden * 2
          /\ helper.assistant => helper.arch = main.arch

(* _integrated_mtp_errors: the main file brings its own MTP layers.        *)
IntegratedOk(main) ==
    /\ main.magic /\ HelperKind(main) = "ordinary"
    /\ {"token_embd", "blk"} \subseteq main.tensors
    /\ main.nextn > 0 /\ main.nextn < main.blocks
    /\ main.hidden > 0 /\ main.projection = main.hidden * 2 /\ "norms" \in main.tensors

(* Mutant of EvidenceProves: the fingerprints are not compared.            *)
X_PathsOnly(e, method, main, helper, mainPrint, helperPrint) ==
    e.intact /\ e.passed /\ e.method = method /\ e.main = main /\ e.helper = helper

(* _pairing_evidence_matches: a recorded test of exactly these two files,  *)
(* as they were, with this method; the record is protected by its hash.    *)
EvidenceProves(e, method, main, helper, mainPrint, helperPrint) ==
    /\ e.intact /\ e.passed /\ e.method = method
    /\ e.main = main /\ e.helper = helper
    /\ e.mainPrint = mainPrint /\ e.helperPrint = helperPrint

MethodOf(p) == IF Role(p) = "mtp" THEN "mtp" ELSE Normalize(p).method

(* validate_companion_binding has no error.  present, header and print  *)
(* describe the disk, recorded the tests that were written down.           *)
BindingOk(p, main, helper, present, header, print, recorded) ==
    LET n      == Normalize(p)
        method == MethodOf(p)
    IN  IF n.type = Absent THEN p = NoProfile
        ELSE IF n.type = "mtp" /\ n.mode \notin {"integrated", "separate"} THEN FALSE
        ELSE IF Role(p) = "none" THEN main \in present /\ IntegratedOk(header[main])
        ELSE /\ {main, helper} \subseteq present /\ main # helper
             /\ header[main].magic /\ header[helper].magic
             /\ method \in Specialised \cup {"simple"}
             /\ TokenizersAgree(header[main], header[helper], method = "simple")
             /\ IF method = "simple"
                THEN HelperKind(header[helper]) = "ordinary" /\ {"token_embd", "blk"} \subseteq header[helper].tensors
                ELSE /\ HelperKind(header[helper]) = method
                     /\ ShapesFit(header[main], header[helper], method)
                     /\ \/ HeaderTargets(header[main], header[helper])
                        \/ p.pairing # "none" /\ EvidenceProves(recorded[p.pairing], method, main, helper, print[main], print[helper])
=============================================================================
