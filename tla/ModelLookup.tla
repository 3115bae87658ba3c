---------------------------- MODULE ModelLookup ----------------------------
(***************************************************************************)
(* From a requested name to a file on disk: the model roots, the registry  *)
(* and the two resolvers (src/artifact_resolver.py,                        *)
(* src/local_model_resolver.py, src/model_paths.py).                       *)
(*                                                                         *)
(* Between two look-ups entries are added, removed and bound to files, and *)
(* files appear and disappear.  What must survive all that is that a name  *)
(* never quietly comes to mean another model.                              *)
(***************************************************************************)
EXTENDS Identity

CONSTANTS KeyPool,   \* the registry keys that may be entered
          Names,     \* the names that may be asked for
          Files,     \* the GGUF files that may lie on disk
          FileInfo,  \* [Files -> [root, dir, stem, quant, support]]
          MaxKeys,   \* bound on the size of the registry
          MaxBound   \* bound on the entries bound to a file

NoPath == "none"
NotFound == "missing"
Invalid == "invalid"
Many == "several"

(* The empty name stands for no name, and no file is called like an error. *)
ASSUME LookupAssumption ==
    /\ MaxKeys \in Nat /\ MaxBound \in Nat
    /\ << >> \notin KeyPool
    /\ Files \cap {NoPath, NotFound, Invalid, Many} = {}
    /\ FileInfo \in [Files -> [root : Nat, dir : Seq(STRING), stem : Seq(STRING),
                               quant : STRING, support : BOOLEAN]]

VARIABLES registry,  \* [keys -> local.model_path, NoPath when there is none]
          disk,      \* the files present
          asked,     \* the name that is looked up after every change
          match,     \* what resolve_registry_match said
          found      \* what LocalModelResolver.resolve said

lvars == <<registry, disk, asked, match, found>>

Keys == DOMAIN registry

-----------------------------------------------------------------------------
(* LocalModelResolver.                                                     *)

(* guess_quant_from_filename, else the quant of the header                 *)
(* (resolve_artifact_quant): FileInfo[f].quant is the one that counts.     *)
EntryOf(f, keys) == MatchFile(FileInfo[f].dir, FileInfo[f].quant, keys)

(* What `candidates' calls a file, and whether it goes through with it: k  *)
(* is the entry it belongs to; that entry is not bound to another file.    *)
NameOf(k, f) == IF k = << >> THEN WithQuant(FileInfo[f].dir, FileInfo[f].quant) ELSE k
FreeFor(k, f, reg) == k = << >> \/ reg[k] \in {NoPath, f}

Identifier(f, reg) == NameOf(EntryOf(f, DOMAIN reg), f)

InFirstRoot(files) ==
    {f \in files : \A g \in files : FileInfo[f].root <= FileInfo[g].root}

OfferedAs(k, f, name, reg) == ~FileInfo[f].support /\ FreeFor(k, f, reg) /\ NameOf(k, f) = name

(* Mutant of Offered: a file in a later root is offered as well.           *)
X_EveryRoot(name, reg, files) == {f \in files : OfferedAs(EntryOf(f, DOMAIN reg), f, name, reg)}

(* The files offered under a name.  Of two files with one identifier the   *)
(* one in the earlier root is taken; two in one root are both kept, and    *)
(* the name is then not unique.                                            *)
Offered(name, reg, files) ==
    InFirstRoot({f \in files : OfferedAs(EntryOf(f, DOMAIN reg), f, name, reg)})

(* Mutant of Persisted: a path that went stale is passed over silently.    *)
X_SkipStale(m, reg, files) ==
    IF Unique(m) /\ reg[KeyOf(m)] \in files THEN reg[KeyOf(m)] ELSE NoPath

ProvesEntry(f, k, reg) ==
    /\ PublisherOf(FileInfo[f].dir) # << >> /\ FileInfo[f].quant # Absent
    /\ EntryOf(f, DOMAIN reg) = k

(* _persisted_model_binding: the file the matching entry is bound to, if   *)
(* it exists and proves the identity of that entry.                        *)
Persisted(m, reg, files) ==
    IF ~Unique(m) \/ reg[KeyOf(m)] = NoPath THEN NoPath
    ELSE IF reg[KeyOf(m)] \in files /\ ProvesEntry(reg[KeyOf(m)], KeyOf(m), reg) THEN reg[KeyOf(m)]
    ELSE Invalid

(* LocalModelResolver.resolve: m is the entry the name finds.              *)
Answer(bound, exact) ==
    IF bound # NoPath THEN bound
    ELSE IF exact = {} THEN NotFound
    ELSE IF Cardinality(exact) = 1 THEN CHOOSE f \in exact : TRUE ELSE Many

ResolveFile(m, name, reg, files) == Answer(Persisted(m, reg, files), Offered(name, reg, files))

-----------------------------------------------------------------------------
(* ArtifactResolver.resolve: the file a path, a file name or a part of one *)
(* refers to; the tools use it for companions and conversions.             *)

(* Files under the directory of the requested publisher, if there are any. *)
OfPublisher(name, files) ==
    LET own == {f \in files : PublisherOf(FileInfo[f].dir) = PublisherOf(name)}
    IN  IF PublisherOf(name) = << >> \/ own = {} THEN files ELSE own

QuantAgrees(name, f) ==
    QuantOf(name) \in {Absent, "?"} \/ NormQuant(FileInfo[f].quant) = NormQuant(QuantOf(name))

Part(s, t) == \E i \in DOMAIN t : IsPrefix(s, SubSeq(t, i, Len(t)))

Near(name, files) == {f \in OfPublisher(name, files) : QuantAgrees(name, f)}

FirstNonEmpty(explicit, exact, part) == IF explicit # {} THEN explicit ELSE IF exact # {} THEN exact ELSE part
OnlyOne(hit) ==
    IF hit = {} THEN NotFound ELSE IF Cardinality(hit) = 1 THEN CHOOSE f \in hit : TRUE ELSE Many

(* Of the three ways to match, the first with a result decides.            *)
Match(name, norm, present, near) ==
    OnlyOne(InFirstRoot(FirstNonEmpty(
        {f \in present : FileInfo[f].dir \o <<"/">> \o FileInfo[f].stem = name},
        {f \in near : NormName(FileInfo[f].stem) \in {norm, Base(norm)}},
        {f \in near : Part(Base(norm), NormName(FileInfo[f].stem))})))

ResolveArtifact(name, present, withSupport) ==
    Match(name, NormName(name), present, Near(name, {f \in present : withSupport \/ ~FileInfo[f].support}))

-----------------------------------------------------------------------------
(* What happens to the registry and the disk, and a look-up.               *)

Resolved(m, reg, files) ==
    /\ UNCHANGED asked /\ registry' = reg /\ disk' = files
    /\ match' = m
    /\ found' = ResolveFile(m, asked, reg, files)

LookUp(reg, files) == Resolved(Resolve(asked, DOMAIN reg), reg, files)

LInit ==
    /\ registry = << >>
    /\ disk = {}
    /\ asked \in Names
    /\ match = Unmatched
    /\ found = NotFound

AddKey(k) ==
    /\ k \in KeyPool \ Keys /\ Cardinality(Keys) < MaxKeys
    /\ LookUp([j \in Keys \cup {k} |-> IF j = k THEN NoPath ELSE registry[j]], disk)

RemoveKey(k) ==
    /\ k \in Keys
    /\ LookUp([j \in Keys \ {k} |-> registry[j]], disk)

(* The sync writes local.model_path for an entry one file proves; by hand  *)
(* any file can be entered.                                                *)
Bind(k, f) ==
    /\ k \in Keys /\ f \in disk /\ ~FileInfo[f].support
    /\ Cardinality({j \in Keys : registry[j] # NoPath}) < MaxBound
    /\ LookUp([registry EXCEPT ![k] = f], disk)

AddFile(f) == f \notin disk /\ LookUp(registry, disk \cup {f})

RemoveFile(f) == f \in disk /\ LookUp(registry, disk \ {f})

LNext ==
    \/ \E k \in KeyPool : AddKey(k) \/ RemoveKey(k)
    \/ \E k \in KeyPool, f \in Files : Bind(k, f)
    \/ \E f \in Files : AddFile(f) \/ RemoveFile(f)

LSpec == LInit /\ [][LNext]_lvars

-----------------------------------------------------------------------------
(* A name that states a quant is never answered with an entry of another   *)
(* quant, or with a file known to be of another one; with the publisher    *)
(* stated too, the entry is of that publisher, or it carries the whole     *)
(* requested name behind its own publisher (the hub's alias); and an       *)
(* entry's own key never finds another entry (resolve_registry_match).     *)
IdentityKept ==
    LET q == NormQuant(QuantOf(asked)) IN
    /\ q # Absent =>
           /\ \A k \in match.keys : NormQuant(QuantOf(k)) = q
           /\ found \in Files => FileInfo[found].quant = Absent \/ NormQuant(FileInfo[found].quant) = q
    /\ (QuantOf(asked) # Absent /\ PublisherOf(asked) # << >>) =>
           \A k \in match.keys :
              \/ Component(PublisherOf(k)) = Component(PublisherOf(asked))
              \/ NormReference(Suffix(k)) = NormReference(asked)
    /\ (asked \in Keys /\ Unique(match)) => KeyOf(match) = asked

(* An entry bound to a file is answered with that file or refused: when    *)
(* the file is gone, or proves another identity, no look-alike is run in   *)
(* its place (_persisted_model_binding).                                   *)
BindingKept ==
    (Unique(match) /\ KeyOf(match) \in Keys /\ registry[KeyOf(match)] # NoPath)
        => found \in {registry[KeyOf(match)], Invalid}

(* A new entry takes a name over or makes it ambiguous, but never sends it *)
(* to a third entry (the stages of resolve_registry_match).                *)
EntryNeverRedirects ==
    [][\A k \in KeyPool :
         (k \in Keys' \ Keys /\ Unique(match) /\ Unique(match'))
            => KeyOf(match') \in {KeyOf(match), k}]_lvars

(* A second copy of a file in a later root neither replaces the first nor  *)
(* makes the name ambiguous, for models and for companions                 *)
(* (LocalModelResolver.candidates, ArtifactResolver._select).              *)
LaterCopyIgnored ==
    [][\A f \in disk' \ disk :
         LET a == ResolveArtifact(asked, disk, FALSE) IN
         /\ ( /\ found \in Files /\ FileInfo[found].root < FileInfo[f].root
              /\ Identifier(f, registry) = Identifier(found, registry) ) => found' = found
         /\ ( /\ a \in Files /\ FileInfo[a].root < FileInfo[f].root
              /\ [FileInfo[a] EXCEPT !.root = 0] = [FileInfo[f] EXCEPT !.root = 0] )
                => ResolveArtifact(asked, disk \cup {f}, FALSE) = a]_lvars
=============================================================================
