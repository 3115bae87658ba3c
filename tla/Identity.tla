------------------------------ MODULE Identity ------------------------------
(***************************************************************************)
(* Names of models and how a requested name finds its entry in the         *)
(* registry (src/model_identity.py, and the matching of files to entries   *)
(* in src/local_model_resolver.py).                                        *)
(*                                                                         *)
(* A name is a sequence of tokens: the words of publisher and model, "/"   *)
(* between them, "@" before the quant.  Two words that follow each other   *)
(* are joined by a dash; the other joints of the code ("_", ".") all       *)
(* become dashes, case is folded, and a quant is one token.  "gguf" stands *)
(* for every container marker the regular expressions name; a name holds   *)
(* at most one.                                                            *)
(***************************************************************************)
EXTENDS Naturals, FiniteSets, SequencesExt

CONSTANTS QuantTokens,    \* quantization.KNOWN_QUANTS
          VariantTokens,  \* _VARIANT_SUFFIXES
          Alias           \* quantization._ALIASES: [alternative spelling -> canonical]

(* What is not given or not known: a quant, a cache type, a switch.        *)
Absent == ""

ASSUME AliasAssumption == Absent \notin DOMAIN Alias

(* The first position of token t in name s, 0 when it is not there.        *)
At(s, t) ==
    IF \A i \in DOMAIN s : s[i] # t THEN 0
    ELSE CHOOSE i \in DOMAIN s : s[i] = t /\ \A j \in 1..(i - 1) : s[j] # t

(* What is before the first t, and what is after it; everything when there *)
(* is none.                                                                *)
Before(s, t) == LET i == At(s, t) IN IF i = 0 THEN s ELSE SubSeq(s, 1, i - 1)
After(s, t)  == SubSeq(s, At(s, t) + 1, Len(s))

NormQuant(q) == IF q \in DOMAIN Alias THEN Alias[q] ELSE q

(* decompose_model_identity.                                               *)
QuantOf(s) == IF At(s, "@") = 0 THEN Absent ELSE Last(s)
Base(s) == Before(s, "@")
PublisherOf(s) == LET b == Base(s) IN SubSeq(b, 1, At(b, "/") - 1)
ModelOf(s) == After(Base(s), "/")

WithQuant(s, q) == IF q = Absent THEN s ELSE s \o <<"@", q>>

(* Is there a dash before position i of s?                                 *)
Dash(s, i) == i \in 2..Len(s) /\ s[i] \notin {"/", "@"} /\ s[i - 1] \notin {"/", "@"}

(* The regular expressions "-gguf$" and "[-_]gguf[-_]".                    *)
StripTail(s) == IF Dash(s, Len(s)) /\ Last(s) = "gguf" THEN Front(s) ELSE s
StripInner(s) ==
    IF \E i \in DOMAIN s : s[i] = "gguf" /\ Dash(s, i) /\ Dash(s, i + 1)
    THEN RemoveAt(s, CHOOSE i \in DOMAIN s : s[i] = "gguf" /\ Dash(s, i) /\ Dash(s, i + 1)) ELSE s

Component(s) == StripInner(StripTail(s))

(* normalize_model_name: with a quant behind it, a trailing marker stays.  *)
Suffix(t) == After(t, "/")
NormName(s) == Suffix(Component(s))

(* normalize_model_reference.                                              *)
NormReference(s) == StripTail(StripInner(s))

(* normalize_for_config: endings that name a variant, a quant or the       *)
(* container are dropped until none is left, then all from a "gguf" on.    *)
DropTail(t) ==
    SubSeq(t, 1, Max({0} \cup {i \in DOMAIN t :
        i = 1 \/ t[i] \notin VariantTokens \cup QuantTokens \cup {"gguf"} \/ ~Dash(t, i)}))
CutContainer(t) ==
    SubSeq(t, 1, Min({Len(t) + 1} \cup {i \in DOMAIN t : t[i] = "gguf" /\ Dash(t, i)}) - 1)
NormForConfig(s) == CutContainer(DropTail(Base(NormName(s))))

(* normalize_registry_identity, normalize_registry_base_identity and       *)
(* normalize_artifact_model_name.                                          *)
NormIdentity(s) == <<Component(PublisherOf(s)), Component(ModelOf(s)), QuantOf(s)>>
BroadIdentity(s) == <<Component(PublisherOf(s)), NormForConfig(ModelOf(s))>>
BaseIdentity(s) == <<Component(PublisherOf(s)), Component(ModelOf(s))>>
ArtifactName(model, q) == SelectSeq(NormName(model), LAMBDA t : t # "gguf" /\ t # q)

-----------------------------------------------------------------------------
(* resolve_registry_match: one stage after the other, and the first stage  *)
(* that has a candidate decides, whether or not it decides uniquely.       *)

PrefixOrSuffix(s, t) ==
    \/ IsStrictPrefix(t, s) /\ Dash(s, Len(t) + 1)
    \/ IsStrictSuffix(t, s) /\ Dash(s, Len(s) - Len(t) + 1)

(* With a requested quant only the keys of that quant are looked at.       *)
OfQuant(q, keys) == IF q = Absent THEN keys ELSE {k \in keys : NormQuant(QuantOf(k)) = q}
Candidates(name, keys) == OfQuant(NormQuant(QuantOf(name)), keys)

Stages(name, keys) ==
    LET identity == NormIdentity(name)
        base     == BaseIdentity(name)
        broad    == BroadIdentity(name)
        ref      == NormReference(name)
        norm     == NormName(name)
        short    == NormForConfig(name)
    IN  << {k \in keys : NormIdentity(k) = identity},
           {k \in keys : NormReference(Suffix(k)) = ref},
           {k \in keys : NormName(k) = norm},
           {k \in keys : BaseIdentity(k) = base},
           {k \in keys : BroadIdentity(k) = broad},
           {k \in keys : Base(NormName(k)) = Base(norm)},
           {k \in keys : NormForConfig(k) = short},
           {k \in keys : PrefixOrSuffix(norm, NormName(k)) \/ PrefixOrSuffix(NormName(k), norm)} >>

(* Mutant of LastStage: a quant does not end the search early.             *)
X_AllStages(name) == 8

(* An explicit quant rules out every stage that ignores it, an explicit    *)
(* publisher with it those that ignore the publisher.                      *)
LastStage(name) ==
    IF QuantOf(name) = Absent THEN 8 ELSE IF PublisherOf(name) = << >> THEN 3 ELSE 2

Unmatched == [kind |-> "none", keys |-> {}]

(* Mutant of Decide: an ambiguous stage falls through to a broader one.    *)
X_FallThrough(stages, last) ==
    LET hits == {n \in 1..last : Cardinality(stages[n]) = 1}
    IN  IF hits = {} THEN Unmatched ELSE [kind |-> "unique", keys |-> stages[Min(hits)]]

Decide(stages, last) ==
    IF \A n \in 1..last : stages[n] = {} THEN Unmatched
    ELSE LET first == stages[Min({n \in 1..last : stages[n] # {}})]
         IN  [kind |-> IF Cardinality(first) = 1 THEN "unique" ELSE "ambiguous", keys |-> first]

Resolve(name, keys) == Decide(Stages(name, Candidates(name, keys)), LastStage(name))

Unique(match) == match.kind = "unique"
KeyOf(match) == CHOOSE k \in match.keys : TRUE

-----------------------------------------------------------------------------
(* LocalModelResolver._match_registry: the entry a file belongs to, given  *)
(* the name of its directory and the quant in its file name; << >> if none.*)

Logical(base, q, owned) ==
    {k \in owned : /\ q # Absent /\ QuantOf(k) = q /\ PublisherOf(k) = PublisherOf(base)
                   /\ NormName(ModelOf(k)) = ArtifactName(ModelOf(base), q)}

FirstFound(first, second, logical) ==
    IF Unique(first) THEN first.keys ELSE IF Unique(second) THEN second.keys
    ELSE IF Cardinality(logical) = 1 THEN logical ELSE {}

(* The entry found has the quant of the file.                              *)
Agreeing(found, q) ==
    LET good == {k \in found : q = Absent \/ QuantOf(k) = q}
    IN  IF good = {} THEN << >> ELSE CHOOSE k \in good : TRUE

MatchOwned(base, q, owned) ==
    Agreeing(FirstFound(Resolve(WithQuant(base, q), owned),
                        Resolve(WithQuant(StripTail(base), q), owned),
                        Logical(base, q, owned)), q)

MatchFile(base, q, keys) ==
    MatchOwned(base, q, {k \in keys : PublisherOf(base) = << >> \/ PublisherOf(k) = PublisherOf(base)})
=============================================================================
