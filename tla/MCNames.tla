------------------------------- MODULE MCNames -------------------------------
(***************************************************************************)
(* The three places where a name decides what is used: the look-up of an   *)
(* entry and a file, the load of an instance by LM Studio, and the         *)
(* overview of what was measured.  They share no variable; a behaviour     *)
(* runs one of them, its part.                                             *)
(***************************************************************************)
EXTENDS ModelLookup, LmStudio, Consolidation

VARIABLE part

vars == <<part, lvars, mvars, cvars>>

MCQuants == {"q4", "q8", "f16"}
MCVariants == {"ud"}
MCAlias == "float16" :> "f16" @@ "Q4" :> "q4"

-----------------------------------------------------------------------------
(* Look-up: two publishers, one model with a quant-aware variant, the hub  *)
(* alias, container markers, and four files in two roots, one of no known  *)
(* quant.                                                                  *)

MCKeys == { <<"p", "/", "a", "@", "q4">>,
            <<"p", "/", "a", "ud", "@", "q4">>,
            <<"o", "/", "a", "@", "q4">>,
            <<"o", "/", "p", "/", "a", "@", "q4">>,
            <<"p", "/", "a", "gguf">> }

MCNamesAsked == { <<"p", "/", "a", "@", "q4">>,
                  <<"p", "/", "a">>,
                  <<"a">>,
                  <<"a", "@", "q4">> }

MCFiles == {"f1", "f2", "f3", "f4"}
MCFileInfo ==
    "f1" :> [root |-> 1, dir |-> <<"p", "/", "a", "gguf">>, stem |-> <<"a", "q4">>, quant |-> "q4", support |-> FALSE]
 @@ "f2" :> [root |-> 2, dir |-> <<"p", "/", "a", "gguf">>, stem |-> <<"a", "q4">>, quant |-> "q4", support |-> FALSE]
 @@ "f3" :> [root |-> 1, dir |-> <<"p", "/", "a">>, stem |-> <<"mtp", "a", "q8">>, quant |-> "q8", support |-> TRUE]
 @@ "f4" :> [root |-> 2, dir |-> <<"p", "/", "a">>, stem |-> <<"a">>, quant |-> Absent, support |-> FALSE]

-----------------------------------------------------------------------------
(* LM Studio: two quants of one model, a second model under its full name, *)
(* a row whose fields contradict each other, a helper, and a model whose   *)
(* row does not bear the name it is offered by; an entry whose key has no  *)
(* publisher.                                                              *)

CatalogRow(key, pub, quant, variant, indexed, support) ==
    [key |-> key, pub |-> pub, quant |-> quant, variant |-> variant,
     indexed |-> indexed, file |-> quant, support |-> support]
MCCatalog == <<
    CatalogRow(<<"qwen">>, <<"ali">>, "q4", <<"qwen", "@", "q4">>, "q8", FALSE),
    CatalogRow(<<"qwen", "@", "q8">>, <<"ali">>, "q8", << >>, Absent, FALSE),
    CatalogRow(<<"goo", "/", "gem">>, <<"goo">>, "q4", << >>, "?", FALSE),
    CatalogRow(<<"qwen">>, <<"ali">>, "q8", <<"qwen", "@", "q4">>, "q4", FALSE),
    CatalogRow(<<"new">>, <<"ali">>, "q4", << >>, "q4", FALSE),
    CatalogRow(<<"qwen", "draft">>, <<"ali">>, "q4", << >>, "q4", TRUE),
    CatalogRow(<<"phi">>, <<"mic">>, "q4", << >>, "q4", FALSE) >>

Entry(ctx, max, k, v, spec) == [ctx |-> ctx, max |-> max, k |-> k, v |-> v, spec |-> spec]
MCEntries ==
    (<<"ali", "/", "qwen", "@", "q4">> :> Entry(8, 4, "q8_0", Absent, Absent))
    @@ (<<"ali", "/", "qwen", "@", "q8">> :> Entry(0, 4, "q8_0", Absent, Absent))
    @@ (<<"goo", "/", "gem", "@", "q4">> :> Entry(4, 0, "f16", "q4_0", "mtp"))
    @@ (<<"mic", "/", "phi", "@", "q4">> :> Entry(0, 4, "q8_0", Absent, Absent))
    @@ (<<"bare", "@", "q4">> :> Entry(0, 4, Absent, Absent, Absent))
Phi == <<"phi", "@", "q4">>
MCRequests == {OfferedKey(MCCatalog[n]) : n \in 1..3} \cup {Phi, <<"gem">>, <<"new">>, <<"bare">>}
MCBanned == {"draft"}
Setting(k, v, spec) == [k |-> k, v |-> v, spec |-> spec]
MCUserLoads == {[row |-> 1, ctx |-> 4, k |-> "q8_0", v |-> "q8_0", spec |-> Absent]}
MCDefaults == {Setting("q8_0", "q8_0", Absent), Setting("q8_0", "q8_0", "mtp"), Setting(Absent, "q8_0", "mtp")}

(* Of what is offered, only the name that does not stand on its row is not *)
(* recognised.                                                             *)
ASSUME RowsAssumption ==
    {name \in OfferedKeys(TRUE) : ~RecognisedName(name)} = {Phi}

-----------------------------------------------------------------------------
(* Overview: two quants of one model, the model without a quant, and a     *)
(* model whose name begins like it.                                        *)

Q4 == <<"p", "/", "m", "@", "q4">>
MCRunNames == {Q4, <<"p", "/", "m", "@", "q8">>, <<"p", "/", "m">>, <<"p", "/", "m", "coder", "@", "q4">>}
MCStamp(n) == ToString(n)
MCPipelines == [evalplus |-> {"HumanEval+", "MBPP+"}, lmeval |-> {"MATH-500"}, agentic |-> {"Agentic"}]

Latest == [models |-> {}, sample |-> 0, since |-> 0, until |-> 0, allRuns |-> FALSE, runs |-> 0,
           merge |-> FALSE, all |-> FALSE, exclude |-> {}]
MCCommandLines ==
    { Latest,
      [Latest EXCEPT !.merge = TRUE],
      [Latest EXCEPT !.runs = 1, !.all = TRUE, !.exclude = {"DS1000"}],
      [Latest EXCEPT !.models = {Q4}, !.allRuns = TRUE, !.until = 1],
      [Latest EXCEPT !.sample = 2, !.allRuns = TRUE, !.since = 1] }
MCInstalled == {Q4, <<"p", "/", "m", "coder", "@", "q4">>}

-----------------------------------------------------------------------------
(* A part at rest is in one of its initial states.                         *)

LookupRest == LInit /\ asked = <<"a">>
StudioRest == MInit /\ srv = "ready" /\ inst = << >> /\ pend = {}

Init ==
    \/ part = "lookup" /\ LInit /\ StudioRest /\ CInit
    \/ part = "studio" /\ MInit /\ LookupRest /\ CInit
    \/ part = "overview" /\ CInit /\ LookupRest /\ StudioRest

Next ==
    \/ part = "lookup" /\ LNext /\ UNCHANGED <<part, mvars, cvars>>
    \/ part = "studio" /\ MNext /\ UNCHANGED <<part, lvars, cvars>>
    \/ part = "overview" /\ CNext /\ UNCHANGED <<part, lvars, mvars>>

Spec == Init /\ [][Next]_vars
=============================================================================
