----------------------------- MODULE MCRegistry -----------------------------
(* Two quantizations of one model and the companion of the first, with one  *)
(* configuration for the first file and one for the whole folder.           *)
EXTENDS Registry

PlainHead == [magic |-> TRUE, arch |-> "llama", assistant |-> FALSE, mtpType |-> FALSE, nextn |-> 0, blocks |-> 4,
         hidden |-> 2, out |-> 0, tokens |-> "t", tokenizer |-> "bpe", split |-> "s",
         tensors |-> {"token_embd", "blk"}, projection |-> 0, target |-> "", repo |-> "p/m", finetune |-> FALSE,
         quantized |-> TRUE, baseRepo |-> "p/base", targets |-> {}, fc |-> 0, layers |-> 4,
         max |-> 32, experts |-> 0, reasoning |-> "thinking"]

File(quant, support, size, head) ==
    [pub |-> "p", model |-> "m", quant |-> quant, support |-> support, size |-> size, head |-> head]

MCFiles == {"f4", "f8", "h"}
MCFileInfo ==
    "f4" :> File("q4", FALSE, 10, [PlainHead EXCEPT !.experts = 4])
 @@ "f8" :> File("q8", FALSE, 20, PlainHead)
 @@ "h"  :> File("q8", TRUE, 1, [PlainHead EXCEPT !.arch = "dflash", !.targets = {1}, !.fc = 2])

Key(p, q) == [pub |-> p, model |-> "m", quant |-> q]
MCConfInfo ==
    "c4" :> [pub |-> "p", name |-> "m", quant |-> "q4", for |-> "f4", folder |-> ""]
 @@ "cm" :> [pub |-> "p", name |-> "m", quant |-> "", for |-> NoFile, folder |-> "m"]

Conf(ctx, experts, spec, draft) ==
    [ctx |-> ctx, experts |-> experts, kv |-> <<"q4_0", "">>, spec |-> spec, draft |-> draft]
Plan(type, mode, method, pairing) == [NoProfile EXCEPT !.type = type, !.mode = mode, !.method = method, !.pairing = pairing]
DFlash == Plan("draft", "", "dflash", "none")

MCConfs == {"c4" :> Conf(8, 2, DFlash, "h") @@ "cm" :> Conf(16, 0, NoProfile, NoFile)}
MCConfEdits ==
    "c4" :> {Conf(64, 0, NoProfile, NoFile)}

Model(q, path) == [pub |-> "p", model |-> "m", quant |-> q, selected |-> q, variants |-> {q}, path |-> path]
MCModels == {Model("q4", "f4"), Model("q8", NoFile)}

Hand(e, x) == [e EXCEPT !.hand = {<<"note", x>>}]
Tested == [BlankEntry EXCEPT !.path = "f4", !.config = "c4", !.companion = "h", !.spec = Plan("draft", "", "dflash", "t")]
MCStartRegs ==
    { Key("p", "q4") :> Hand([Tested EXCEPT !.reasoning = "thinking"], "x"),
      Key("p", "") :> Hand(BlankEntry, "x"),
      Key("p", "q4") :> Hand([BlankEntry EXCEPT !.path = "f4"], "x")
      @@ Key("", "q4") :> Hand([BlankEntry EXCEPT !.path = "f4"], "y"),
      Key("p", "q4") :> [BlankEntry EXCEPT !.path = "f8", !.config = "cm", !.scope = "model"] }

(* One entry already has the folder's configuration for itself.            *)
MCFolderRegs ==
    { Key("p", "q4") :> [BlankEntry EXCEPT !.path = "f4", !.config = "cm", !.scope = "model"]
      @@ Key("p", "q8") :> BlankEntry }

MCHandEdits ==
    {[hand |-> {<<"tag", "z">>}], [config |-> "cm", scope |-> "model", path |-> "f8"], [policy |-> "registry"]}

MCPubOf == [k \in [pub : {"p", ""}, model : {"m"}, quant : {"q4", "q8", "", "?"}] |-> IF k.pub = "" THEN "p" ELSE ""]
MCBroad == [n \in {"m"} |-> n]
MCTemplateOf == [k \in DOMAIN MCPubOf |-> "none"]
MCStatuses == {"", "found"}
MCSampling == {"found"}
MCPolicies == {"thinking", "instruct"}
MCDefaultCtx(size, kv) == IF size > 15 THEN 8 ELSE 16
MCBlueprintOf(r) == r
MCRecorded == "t" :> [intact |-> TRUE, passed |-> TRUE, method |-> "dflash", main |-> "f4", helper |-> "h",
                      mainPrint |-> 0, helperPrint |-> 0]
MCLoaded == {[key |-> Key("p", "q4"), experts |-> 3]}
=============================================================================
