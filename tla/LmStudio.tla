------------------------------ MODULE LmStudio ------------------------------
(***************************************************************************)
(* The LM Studio provider (src/providers/lmstudio_provider.py): which      *)
(* models it offers, and its calls load_model, unload_all, current_model   *)
(* and wait_ready against a server that other programs use as well.        *)
(*                                                                         *)
(* A call is a sequence of requests.  Between two of them the user of LM   *)
(* Studio may load and unload models, the server may stop, and a load that *)
(* timed out at the client may still come to its end on the server.        *)
(* What makes a load good is not LM Studio's "loaded" but the listing read *)
(* afterwards: one instance of the identity, the context, the speculative  *)
(* switches and the cache types that the registry asks for.                *)
(*                                                                         *)
(* Names are the token sequences of module Identity; 0 and Absent stand    *)
(* for a value that is not given or not reported.  A row of the catalog    *)
(* has the quant the server gives (quant), the one "lms ls" gives, which   *)
(* can be stale (indexed), and the one in the file name (file).            *)
(***************************************************************************)
EXTENDS Identity

CONSTANTS Catalog,       \* Seq of rows [key, pub, quant, variant, indexed, file, support]
          Entries,       \* [registry keys -> [ctx, max, k, v, spec]]
          Requests,      \* the names load_model is called with
          Banned,        \* words of the user's exclude list
          UserLoads,     \* what the user of LM Studio may load: set of [row, ctx, k, v, spec]
          Defaults,      \* the settings LM Studio adds to a requested load: set of [k, v, spec]
          MaxPolls,      \* unload_all: min(15, timeout / 2) listings
          MaxMoves,      \* bound: what others do in one behaviour
          MaxCalls,      \* bound: calls of the provider in one behaviour
          LlmsterVersions \* unpacked llmster versions next to the provider

ASSUME CatalogAssumption ==
    \A n \in DOMAIN Catalog :
        /\ DOMAIN Catalog[n] = {"key", "pub", "quant", "variant", "indexed", "file", "support"}
        /\ {Catalog[n].key, Catalog[n].pub, Catalog[n].variant} \subseteq Seq(STRING)
        /\ {Catalog[n].quant, Catalog[n].indexed, Catalog[n].file} \subseteq STRING
(* The empty name stands for no name.                                      *)
ASSUME EntriesAssumption == << >> \notin DOMAIN Entries
ASSUME BoundAssumption == {MaxPolls, MaxMoves, MaxCalls, LlmsterVersions} \subseteq Nat

Unknown == {Absent, "?", "unknown", "none"}
Complete(name) == PublisherOf(name) # << >> /\ ModelOf(name) # << >> /\ QuantOf(name) # Absent

(* canonicalize_source_identity.                                           *)
Owned(owner, model) == IF owner = << >> THEN model ELSE owner \o <<"/">> \o model
Canonical(ref, pub, q) ==
    WithQuant(IF pub = << >> \/ PublisherOf(ref) = pub THEN Base(ref) ELSE Owned(pub, Base(ref)),
              NormQuant(IF q = Absent THEN QuantOf(ref) ELSE q))

SameModel(a, b) ==
    /\ Complete(a) /\ Complete(b)
    /\ QuantOf(a) \notin Unknown /\ QuantOf(b) \notin Unknown
    /\ NormIdentity(a) = NormIdentity(b)

-----------------------------------------------------------------------------
(* What is offered: list_models.                                           *)

OrElse(q, default) == IF q \in Unknown THEN default ELSE q

(* A concrete variant is the key; else the key gets the quant of the       *)
(* variant, of the index or of the file name.                              *)
PlainKey(base, q) == IF QuantOf(base) = q THEN base ELSE WithQuant(base, q)
OfferedKey(row) ==
    IF row.variant # << >> /\ QuantOf(row.variant) # "?" /\ row.variant # row.key THEN row.variant
    ELSE PlainKey(IF QuantOf(row.key) = "?" THEN Base(row.key) ELSE row.key,
                  OrElse(QuantOf(row.variant), OrElse(row.indexed, row.file)))

InRegistryByBase(row) == Base(NormName(row.key)) \in {Base(NormName(k)) : k \in DOMAIN Entries}

OfferedKeys(registryOnly) ==
    {OfferedKey(Catalog[n]) : n \in {m \in DOMAIN Catalog :
        /\ Catalog[m].key # << >> /\ ~Catalog[m].support
        /\ \A w \in Banned : ~Contains(OfferedKey(Catalog[m]), w)
        /\ registryOnly => InRegistryByBase(Catalog[m])}}

-----------------------------------------------------------------------------
(* What the registry asks for: ModelRegistry.resolve and provider_runtime. *)

Bits == [t \in {"q4_0", "q8_0", "f16"} |-> CASE t = "q4_0" -> 4 [] t = "q8_0" -> 8 [] OTHER -> 16]

(* normalize_kv_pair: one side is mirrored, and both become Q4 or Q8.      *)
KvPair(k, v) ==
    IF k = Absent /\ v = Absent THEN Absent
    ELSE IF Bits[IF k = Absent THEN v ELSE k] + Bits[IF v = Absent THEN k ELSE v] <= 12 THEN "q4_0" ELSE "q8_0"

(* resolve_context_length.                                                 *)
Context(ctx, max) == IF ctx = 0 THEN max ELSE IF max = 0 \/ ctx <= max THEN ctx ELSE max

NoRuntime == [key |-> << >>, ctx |-> 0, kv |-> Absent, spec |-> Absent]

RuntimeOf(key, e) == [key |-> key, ctx |-> Context(e.ctx, e.max), kv |-> KvPair(e.k, e.v), spec |-> e.spec]
RuntimeFor(match) == IF Unique(match) THEN RuntimeOf(KeyOf(match), Entries[KeyOf(match)]) ELSE NoRuntime
Runtime(name) == RuntimeFor(Resolve(name, DOMAIN Entries))

(* load_model refuses an entry whose key does not name publisher, model    *)
(* and quant.                                                              *)
Valid(rt) == rt.key = << >> \/ Complete(rt.key)

-----------------------------------------------------------------------------
(* What a listing proves.                                                  *)

(* _registry_identity_for_native_model: a row whose fields name different  *)
(* models or quants has no identity.                                       *)
TheOne(set, default) == IF Cardinality(set) = 1 THEN CHOOSE x \in set : TRUE ELSE default

InRegistry(name) == TheOne({k \in DOMAIN Entries : SameModel(name, k)}, name)

SameBase(a, b) == NormReference(Base(a)) = NormReference(Base(b))

Consistent(row, ref, quants) ==
    IF SameBase(Canonical(row.key, row.pub, Absent), Canonical(ref, row.pub, Absent)) /\ Cardinality(quants) <= 1
    THEN InRegistry(Canonical(ref, row.pub, TheOne(quants, Absent))) ELSE << >>

(* Mutant of ByReference: the quant of the index counts as well.           *)
X_IndexToo(row, ref) ==
    Consistent(row, ref, {NormQuant(q) : q \in {row.quant, row.indexed, QuantOf(ref), QuantOf(row.key)}} \ Unknown)

ByReference(row, ref) ==
    Consistent(row, ref, {NormQuant(q) : q \in {row.quant, QuantOf(ref), QuantOf(row.key)}} \ Unknown)

RowIdentity(row) == ByReference(row, IF row.variant = << >> THEN row.key ELSE row.variant)
Identities == [n \in DOMAIN Catalog |-> RowIdentity(Catalog[n])]

(* The requested name stands for the key of another namespace, and for     *)
(* nothing broader.                                                        *)
NamespaceAlias(name, key) ==
    /\ NormIdentity(key) # NormIdentity(name)
    /\ NormReference(Suffix(key)) = NormReference(name)
    /\ QuantOf(name) = Absent \/ NormQuant(QuantOf(key)) = NormQuant(QuantOf(name))

NamedBy(name, i) ==
    \E s \in {Catalog[i.row].key, Catalog[i.row].variant, i.id} : NormReference(s) = NormReference(name)

(* Mutant of Bound: the instance LM Studio names is not looked up by its   *)
(* identity.                                                               *)
X_ById(list, name, id, key) == {i \in list : id # << >> /\ i.id = id}

(* _loaded_binding_for_identity: the instances that are the model asked    *)
(* for; it is proven only if this is exactly one.                          *)
IsModel(wanted, own) ==
    IF Complete(wanted) THEN SameModel(wanted, own) ELSE NormReference(wanted) = NormReference(own)
Matching(list, name, id, wanted, alias) ==
    {i \in list : /\ IsModel(wanted, Identities[i.row])
                  /\ id = << >> \/ i.id = id
                  /\ alias => NamespaceAlias(name, wanted) /\ NamedBy(name, i)}
Bound(list, name, id, key) ==
    Matching(list, name, id, IF key = << >> THEN name ELSE key, key # << >> /\ ~SameModel(name, key))

(* _kv_cache_matches: what is reported is a supported, symmetric pair and  *)
(* the one asked for; what is not reported proves nothing and refutes      *)
(* nothing.                                                                *)
KvSeen(want, seen) == seen \subseteq {"q4_0", "q8_0"} /\ Cardinality(seen) <= 1 /\ (want # Absent => seen \subseteq {want})
KvAgree(want, reports) == KvSeen(want, ({r.k : r \in reports} \cup {r.v : r \in reports}) \ {Absent})

(* _speculative_matches: every report has the wanted switches, and there   *)
(* is one.                                                                 *)
SpecAgree(want, reports) == want # Absent => {r.spec : r \in reports} \ {Absent} = {want}

Echo(i) == [ctx |-> i.ctx, k |-> i.k, v |-> i.v, spec |-> i.spec]
NoEcho  == [ctx |-> 0, k |-> Absent, v |-> Absent, spec |-> Absent]

(* The instance of a listing together with the echoed load configuration   *)
(* is what was asked for.                                                  *)
Proves(rt, i, echo) ==
    /\ rt.ctx # 0 => i.ctx = rt.ctx /\ echo.ctx \in {0, rt.ctx}
    /\ SpecAgree(rt.spec, {Echo(i), echo})
    /\ KvAgree(rt.kv, {Echo(i), echo})

(* load_model asks for a listing only when there is something to prove.    *)
MustProve(name, rt) == Complete(name) \/ rt.key # << >> \/ rt.ctx # 0 \/ rt.spec # Absent

-----------------------------------------------------------------------------
VARIABLES
    srv,     \* the server: "ready", "auth" (asks for a token) or "down"
    inst,    \* its instances in the order they were loaded
    pend,    \* loads the server still works on although the client gave up
    pc,      \* the request the provider makes next, "idle" between calls
    call,    \* the call under way: [kind, name, rt, attempt, left]
    reply,   \* the last answer to a load: [status, id, echo]
    answer,  \* what the last call returned: [kind, ok, id, name, rt]
    moves, calls, \* what others did, and calls made, so far (bounds)
    past,    \* every instance there was since the call began
    idle,    \* since the call began there was a moment without an instance
    calm     \* since the call began the server did as it was asked, for us alone

server   == <<srv, inst, pend>>
history  == <<past, idle, calm>>
mvars == <<srv, inst, pend, pc, call, reply, answer, moves, calls, past, idle, calm>>

NoReply  == [status |-> "none", id |-> << >>, echo |-> NoEcho]
NoAnswer == [kind |-> "none", ok |-> FALSE, id |-> << >>, name |-> << >>, rt |-> NoRuntime]
NoCall   == [kind |-> "none", name |-> << >>, rt |-> NoRuntime, attempt |-> 1, left |-> << >>]

List == {inst[n] : n \in DOMAIN inst}

(* An earlier call, or its launcher, may have left a load to the server.   *)
MInit ==
    /\ srv \in {"ready", "down"} /\ inst = << >>
    /\ pend \in {{}} \cup {{[row |-> u.row, ctx |-> u.ctx]} : u \in UserLoads}
    /\ srv = "down" => pend = {}
    /\ pc = "idle" /\ call = NoCall /\ reply = NoReply /\ answer = NoAnswer
    /\ moves = 0 /\ calls = 0
    /\ past = {} /\ idle = FALSE /\ calm = FALSE

(* LM Studio names an instance after its model; a second one is numbered,  *)
(* and a third is left out.                                                *)
Ids == {i.id : i \in List}
FreshId(row) == IF Catalog[row].key \in Ids THEN Append(Catalog[row].key, ":2") ELSE Catalog[row].key
Room(row) == FreshId(row) \notin Ids \cup {<< >>}

Instance(row, ctx, d) == [id |-> FreshId(row), row |-> row, ctx |-> ctx, k |-> d.k, v |-> d.v, spec |-> d.spec]

Loaded(i) == inst' = Append(inst, i) /\ past' = past \cup {i} /\ UNCHANGED idle
SetInst(s) == inst' = s /\ idle' = (idle \/ s = << >>) /\ UNCHANGED past

(* The models LM Studio may take a name for: every variant of it.          *)
Served(name) == {m \in DOMAIN Catalog : Base(NormName(Catalog[m].key)) = Base(NormName(name))}

-----------------------------------------------------------------------------
(* What others do.                                                         *)

(* Bound: nothing is looked at after the last call.                        *)
Watched == pc # "idle" \/ calls < MaxCalls

Moves == Watched /\ moves < MaxMoves /\ moves' = moves + 1 /\ calm' = FALSE

UserLoadsModel ==
    /\ Moves /\ srv # "down"
    /\ \E u \in UserLoads : Room(u.row) /\ Loaded(Instance(u.row, u.ctx, u))
    /\ UNCHANGED <<srv, pend, pc, call, reply, answer, calls>>

UserUnloadsModel ==
    /\ Moves /\ inst # << >>
    /\ \E n \in DOMAIN inst : SetInst(RemoveAt(inst, n))
    /\ UNCHANGED <<srv, pend, pc, call, reply, answer, calls>>

ServerChanges ==
    /\ Moves
    /\ srv' \in {"ready", "auth", "down"} \ {srv}
    /\ IF srv' = "down" THEN SetInst(<< >>) /\ pend' = {} ELSE UNCHANGED <<inst, past, idle, pend>>
    /\ UNCHANGED <<pc, call, reply, answer, calls>>

(* A load the client no longer waits for comes to its end, or fails.       *)
LateLoad ==
    /\ Watched
    /\ \E p \in pend :
        /\ pend' = pend \ {p}
        /\ \/ \E d \in Defaults : Room(p.row) /\ Loaded(Instance(p.row, p.ctx, d))
           \/ UNCHANGED <<inst, past, idle>>
    /\ calm' = FALSE
    /\ UNCHANGED <<srv, pc, call, reply, answer, moves, calls>>

-----------------------------------------------------------------------------
(* load_model.                                                             *)

Return(ok, id) ==
    /\ pc' = "idle" /\ call' = NoCall /\ reply' = NoReply
    /\ answer' = [kind |-> call.kind, ok |-> ok, id |-> id, name |-> call.name, rt |-> call.rt]
    /\ UNCHANGED <<inst, past, idle, srv, pend, calm, moves, calls>>

Goto(label) == pc' = label /\ UNCHANGED answer

Begin(c, label) ==
    /\ pc = "idle" /\ calls < MaxCalls /\ calls' = calls + 1
    /\ call' = c /\ pc' = label /\ reply' = NoReply /\ answer' = NoAnswer
    /\ past' = List /\ idle' = (inst = << >>)
    /\ calm' = (srv = "ready" /\ inst = << >> /\ pend = {})
    /\ UNCHANGED <<server, moves>>

BeginLoad ==
    \E name \in Requests :
        Begin([NoCall EXCEPT !.kind = "load", !.name = name, !.rt = Runtime(name)],
              IF Valid(Runtime(name)) THEN "post" ELSE "refuse")

Refuse == pc = "refuse" /\ Return(FALSE, << >>)

(* The server loads some variant of the name with the requested context    *)
(* and its own saved settings, and echoes what it likes of it.             *)
ServerLoads ==
    /\ pc = "post" /\ srv = "ready"
    /\ \E m \in Served(call.name), d \in Defaults :
        LET i == Instance(m, call.rt.ctx, d) IN
        /\ Room(m) /\ Loaded(i)
        /\ \E echo \in {NoEcho, Echo(i), [Echo(i) EXCEPT !.k = Absent]} :
            reply' = [status |-> "loaded", id |-> i.id, echo |-> echo]
        /\ calm' = (calm /\ d.k = call.rt.kv /\ d.v = call.rt.kv /\ d.spec = call.rt.spec
                    /\ OfferedKey(Catalog[m]) = call.name /\ Catalog[m].quant = QuantOf(call.name))
        /\ Goto(IF MustProve(call.name, call.rt) THEN "prove" ELSE "trust")
    /\ UNCHANGED <<srv, pend, call, moves, calls>>

ServerRefuses ==
    /\ pc = "post" /\ srv = "ready"
    /\ reply' = [NoReply EXCEPT !.status = "error"] /\ calm' = FALSE /\ Goto("accept")
    /\ UNCHANGED <<server, past, idle, call, moves, calls>>

(* The request times out, and the load goes on.                            *)
LoadTimesOut ==
    /\ pc = "post" /\ srv = "ready"
    /\ \E m \in Served(call.name) : pend' = pend \cup {[row |-> m, ctx |-> call.rt.ctx]}
    /\ calm' = FALSE /\ Goto("nothing")
    /\ UNCHANGED <<srv, inst, past, idle, reply, call, moves, calls>>

PostFails ==
    /\ pc = "post" /\ srv # "ready" /\ Goto("nothing")
    /\ UNCHANGED <<server, history, reply, call, moves, calls>>

Seen == IF srv = "ready" THEN List ELSE {}
AnswerIf(good) == IF Cardinality(good) = 1 THEN \A i \in good : Return(TRUE, i.id) ELSE Return(FALSE, << >>)
Good(bound, echo) == IF Cardinality(bound) = 1 THEN {i \in bound : Proves(call.rt, i, echo)} ELSE {}

(* status "loaded": the listing and the echo must prove it.                *)
Prove == pc = "prove" /\ AnswerIf(Good(Bound(Seen, call.name, reply.id, call.rt.key), reply.echo))

(* Nothing was asked of the model but its name.                            *)
Trust ==
    /\ pc = "trust"
    /\ IF KvAgree(call.rt.kv, {reply.echo}) THEN Return(TRUE, reply.id) ELSE Return(FALSE, << >>)

(* Any other status: perhaps the model was loaded already.                 *)
Accept == pc = "accept" /\ AnswerIf(Good(Bound(Seen, call.name, << >>, call.rt.key), NoEcho))

(* No answer: once, the server is looked after and the load tried again.   *)
Nothing ==
    /\ pc = "nothing"
    /\ \/ call.attempt = 1 /\ Goto("probe") /\ UNCHANGED <<server, history, reply, call, moves, calls>>
       \/ call.attempt = 2 /\ Return(FALSE, << >>)

-----------------------------------------------------------------------------
(* ensure_server: is it there, does "lms server start" bring it up, does   *)
(* one of the unpacked llmster versions.                                   *)

Retry == call' = [call EXCEPT !.attempt = 2] /\ Goto("post")

Probe ==
    /\ pc = "probe"
    /\ \/ srv = "ready" /\ Retry /\ UNCHANGED <<server, history, reply, moves, calls>>
       \/ srv = "auth" /\ Return(FALSE, << >>)
       \/ srv = "down" /\ Goto("start") /\ UNCHANGED <<server, history, reply, call, moves, calls>>

(* "lms server start" works, works to no end, or cannot be run.            *)
StartServer ==
    /\ pc = "start"
    /\ \/ srv' \in {srv, IF srv = "down" THEN "ready" ELSE srv} /\ Goto("reprobe") /\ UNCHANGED call
       \/ UNCHANGED srv /\ call' = [call EXCEPT !.left = [n \in 1..LlmsterVersions |-> n]] /\ Goto("llmster")
    /\ UNCHANGED <<inst, pend, history, reply, moves, calls>>

Reprobe ==
    /\ pc = "reprobe"
    /\ \/ srv = "ready" /\ Retry /\ UNCHANGED <<server, history, reply, moves, calls>>
       \/ srv = "auth" /\ Return(FALSE, << >>)
       \/ /\ srv = "down"
          /\ call' = [call EXCEPT !.left = [n \in 1..LlmsterVersions |-> n]] /\ Goto("llmster")
          /\ UNCHANGED <<server, history, reply, moves, calls>>

(* A version that answers ends the search; whether the server it then      *)
(* starts is up is not looked at.                                          *)
Llmster ==
    /\ pc = "llmster"
    /\ \/ call.left = << >> /\ Return(FALSE, << >>)
       \/ /\ call.left # << >>
          /\ \/ srv = "down" /\ srv' \in {"down", "ready"}
             \/ srv # "down" /\ UNCHANGED srv
          /\ IF srv' = "ready" THEN call' = [call EXCEPT !.attempt = 2, !.left = << >>] /\ Goto("post")
             ELSE call' = [call EXCEPT !.left = Tail(@)] /\ Goto("llmster")
          /\ UNCHANGED <<inst, pend, history, reply, moves, calls>>

-----------------------------------------------------------------------------
(* unload_all: read the list, unload what it names, look until it is empty.*)

BeginUnload == Begin([NoCall EXCEPT !.kind = "unload"], "list")

ListLoaded ==
    /\ pc = "list"
    /\ \/ srv # "ready" /\ Return(FALSE, << >>)
       \/ srv = "ready" /\ inst = << >> /\ Return(TRUE, << >>)
       \/ /\ srv = "ready" /\ inst # << >>
          /\ call' = [call EXCEPT !.left = [n \in DOMAIN inst |-> inst[n].id]] /\ Goto("unload")
          /\ UNCHANGED <<server, history, reply, moves, calls>>

(* Each request may be lost, or fail on the server.                        *)
UnloadOne ==
    /\ pc = "unload" /\ call.left # << >>
    /\ \/ UNCHANGED <<inst, past, idle>>
       \/ srv = "ready" /\ \E n \in DOMAIN inst : inst[n].id = Head(call.left) /\ SetInst(RemoveAt(inst, n))
    /\ call' = [call EXCEPT !.left = Tail(@)]
    /\ UNCHANGED <<srv, pend, pc, answer, reply, moves, calls, calm>>

UnloadsSent ==
    /\ pc = "unload" /\ call.left = << >>
    /\ call' = [call EXCEPT !.left = [n \in 1..MaxPolls |-> n]] /\ Goto("poll")
    /\ UNCHANGED <<server, history, reply, moves, calls>>

(* Mutant of PollUnload: a listing that could not be read counts as empty. *)
X_UnreadIsEmpty ==
    /\ pc = "poll" /\ call.left # << >>
    /\ \/ (srv = "ready" => inst = << >>) /\ Return(TRUE, << >>)
       \/ /\ srv = "ready" /\ inst # << >>
          /\ call' = [call EXCEPT !.left = Tail(@)] /\ Goto("poll")
          /\ UNCHANGED <<server, history, reply, moves, calls>>

PollUnload ==
    /\ pc = "poll" /\ call.left # << >>
    /\ \/ srv = "ready" /\ inst = << >> /\ Return(TRUE, << >>)
       \/ /\ srv = "ready" => inst # << >>
          /\ call' = [call EXCEPT !.left = Tail(@)] /\ Goto("poll")
          /\ UNCHANGED <<server, history, reply, moves, calls>>

UnloadUnconfirmed == pc = "poll" /\ call.left = << >> /\ Return(FALSE, << >>)

-----------------------------------------------------------------------------
(* current_model: the last instance of the first row that has one, or,     *)
(* when the server does not answer, the first one "lms ps" tells of.       *)

FirstRow == CHOOSE m \in {i.row : i \in List} : \A i \in List : m <= i.row
LastOf(m) == inst[CHOOSE n \in DOMAIN inst : inst[n].row = m /\ \A o \in DOMAIN inst : inst[o].row = m => o <= n]

(* _with_runtime_context: runtime_matches.                                 *)
Matches(i, rt) ==
    /\ rt.ctx # 0 => i.ctx = rt.ctx
    /\ SpecAgree(rt.spec, {Echo(i)}) /\ KvAgree(rt.kv, {Echo(i)})

BeginCurrent == Begin([NoCall EXCEPT !.kind = "current"], "current")

Current ==
    /\ pc = "current"
    /\ \/ inst = << >> /\ Return(FALSE, << >>)
       \/ srv # "ready" /\ Return(FALSE, << >>)
       \/ \E i \in (IF inst = << >> THEN {} ELSE IF srv = "ready" THEN {LastOf(FirstRow)} ELSE {inst[1]}) :
            Return(Matches(i, Runtime(Identities[i.row])), i.id)

(* wait_ready: asks for one token until something answers.                 *)
BeginWait == Begin([NoCall EXCEPT !.kind = "wait", !.left = [n \in 1..MaxPolls |-> n]], "wait")

WaitReady ==
    /\ pc = "wait"
    /\ \/ srv = "ready" /\ inst # << >> /\ Return(TRUE, << >>)
       \/ call.left = << >> /\ Return(FALSE, << >>)
       \/ /\ call.left # << >>
          /\ call' = [call EXCEPT !.left = Tail(@)] /\ Goto("wait")
          /\ UNCHANGED <<server, history, reply, moves, calls>>

-----------------------------------------------------------------------------
Done == ~Watched /\ UNCHANGED mvars

Provider ==
    \/ Refuse \/ Prove \/ Trust \/ Accept \/ Nothing
    \/ Probe \/ StartServer \/ Reprobe \/ Llmster
    \/ ListLoaded \/ UnloadOne \/ UnloadsSent \/ PollUnload \/ UnloadUnconfirmed
    \/ Current \/ WaitReady
Calls == BeginLoad \/ BeginUnload \/ BeginCurrent \/ BeginWait
Others ==
    \/ ServerLoads \/ ServerRefuses \/ LoadTimesOut \/ PostFails
    \/ UserLoadsModel \/ UserUnloadsModel \/ ServerChanges \/ LateLoad

MNext == Provider \/ Calls \/ Others \/ Done

MSpec == MInit /\ [][MNext]_mvars

-----------------------------------------------------------------------------
(* A model that load_model reports as loaded, and of which more than a     *)
(* name was asked, is an instance that really was on the server with the   *)
(* identity, the context and the caches of the registry, and with its      *)
(* switches, unless the listing was silent about them - whatever LM Studio *)
(* took the name for, whoever else loaded or unloaded, and whichever of    *)
(* two attempts was answered.  Then an instance of that name really had    *)
(* them; that it is the same one nobody looks at (lines 633-725).          *)
LoadedIsProven ==
    (answer.kind = "load" /\ answer.ok /\ MustProve(answer.name, answer.rt)) =>
        /\ \E i \in past :
            /\ i.id = answer.id
            /\ SameModel(Identities[i.row], IF answer.rt.key # << >> THEN answer.rt.key ELSE answer.name)
            /\ answer.rt.ctx # 0 => i.ctx = answer.rt.ctx
            /\ answer.rt.spec # Absent => i.spec \in {Absent, answer.rt.spec}
            /\ answer.rt.kv # Absent => {i.k, i.v} \subseteq {Absent, answer.rt.kv}
        /\ answer.rt.spec # Absent => \E i \in past : i.id = answer.id /\ i.spec = answer.rt.spec

(* The full name of a row: what it is offered as, under its publisher.     *)
FullName(row) == Canonical(OfferedKey(row), row.pub, Absent)

(* The fields of a row agree, the registry has its full name, and no other *)
(* entry answers to that or to the name it is offered by; and that name,   *)
(* if it is not the full one, stands on the row itself (lines 546-558).    *)
Recognised(row) ==
    LET name  == OfferedKey(row)
        full  == FullName(row)
        others == DOMAIN Entries \ {full}
    IN  /\ row.key \in {name, Base(name)} /\ row.variant \in {<< >>, name}
        /\ {row.quant, QuantOf(full), NormQuant(QuantOf(name))} = {QuantOf(name)}
        /\ QuantOf(name) \notin Unknown
        /\ full \in DOMAIN Entries /\ Complete(full)
        /\ \A o \in others : NormIdentity(o) # NormIdentity(full)
        /\ \/ SameModel(name, full)
           \/ /\ name \in {row.key, row.variant} /\ NormIdentity(name) # NormIdentity(full)
              /\ NormReference(Suffix(full)) = NormReference(name)
              /\ \A o \in others : NormIdentity(o) # NormIdentity(name)
                                  /\ NormReference(Suffix(o)) # NormReference(name)

RowsOf(name) == {row \in ToSet(Catalog) : OfferedKey(row) = name /\ row.quant = QuantOf(name)}
RecognisedName(name) == RowsOf(name) # {} /\ \A row \in RowsOf(name) : Recognised(row)

(* The proof is not so strict that it refuses what is right: a model named *)
(* as list_models names it, which the registry has under its full name,    *)
(* loaded alone by a server that did what it was asked, is accepted,       *)
(* however many names the registry and the rows have for other models      *)
(* (lines 134-248 against 472-569).                                        *)
OfferedIsAccepted ==
    (answer.kind = "load" /\ calm /\ answer.name \in OfferedKeys(TRUE) /\ RecognisedName(answer.name))
        => answer.ok

(* unload_all says that everything is unloaded only if that was so at some *)
(* moment of the call: no lost request, no failed unload and no listing    *)
(* that could not be read passes for an empty server (lines 727-758).      *)
UnloadConfirmed == (answer.kind = "unload" /\ answer.ok) => idle
=============================================================================
