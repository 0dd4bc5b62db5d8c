--------------------------- MODULE ReferenceCache ---------------------------
(***************************************************************************)
(* The Builder's reference cache (Builder/src/autolean_builder/            *)
(* reference_cache.py): a manifest lists references with the digest of     *)
(* their bytes and the use their rights permit; operators acquire the      *)
(* bytes, everyone else only verifies what lies on disk.                   *)
(*                                                                         *)
(* Acquisitions run in threads of several processes.                       *)
(* The lock of a target is a lock of one process, so two processes may     *)
(* acquire the same target at once.  Bytes are told apart by their digest. *)
(***************************************************************************)
EXTENDS Naturals, FiniteSets, FiniteSetsExt

CONSTANTS
    Manifests,  \* versions of the manifest file, sound or not: [sha, entries]
    Processes,  \* processes that use the cache
    Threads,    \* callers that acquire references
    ProcessOf,  \* thread -> its process
    Supplies,   \* digests of the bytes a download or a local source can hold
    MaxDamage,  \* bound: changes made by others than the cache
    None

\* EgressPolicy: no_model, local_only or approved_external.
ASSUME ManifestAssumption == \A m \in Manifests : \A e \in m.entries : e.egress \in 0 .. 2

\* A thread belongs to one of the processes.
ASSUME ThreadAssumption == ProcessOf \in [Threads -> Processes]

VARIABLES
    tracked,  \* the manifest file
    loaded,   \* process -> the manifest it loaded at its start, or None
    files,    \* <<reference, digest>> -> None, Link or the digest of the cached bytes
    op,       \* thread -> None or the locals of its call
    damage    \* changes others made to cached files (history)

cacheVars == <<tracked, loaded, files, op, damage>>

Link == "link"  \* a symlink or reparse point at a cached name

\* _parse_entry: which fields may go together.
EntryParses(e) ==
    /\ (e.kind = "source_document") <=> (e.parent = None)
    /\ (e.acquisition = "operator_only") <=> e.url

\* _parse_derivation, _validate_derivations: a derived text names a source of
\* the same manifest and bytes, keeps its rights and widens no use.
DerivationHolds(entries, e) ==
    e.kind = "derived_text" =>
        /\ \E p \in entries :
               /\ p.ref = e.parent /\ p.kind = "source_document"
               /\ p.sha = e.parentSha /\ p.rights = e.rights
               /\ e.egress <= p.egress
        /\ e.local <=> (e.acquisition = "local_derivation_only")
        /\ e.local => e.authority = "manifest_bound"

\* ReferenceManifestV1.load
ManifestLoads(m) ==
    /\ m.entries # {}
    /\ \A d, e \in m.entries : d.ref = e.ref => d = e
    /\ \A e \in m.entries : EntryParses(e) /\ DerivationHolds(m.entries, e)

\* The entries require(reference_id) finds in the manifest of a process.
Listed(p, ref) ==
    IF loaded[p] = None THEN {} ELSE {e \in loaded[p].entries : e.ref = ref}

\* path_for: the name is the reference and the digest the manifest lists.
Name(e) == <<e.ref, e.sha>>
Names == {Name(e) : e \in UNION {m.entries : m \in Manifests}}

CacheInit ==
    /\ tracked \in {m \in Manifests : ManifestLoads(m)}
    /\ loaded = [p \in Processes |-> None]
    /\ files = [n \in Names |-> None]
    /\ op = [t \in Threads |-> None]
    /\ damage = 0

Regular(n) == files[n] \notin {None, Link}
Good(n) == files[n] = n[2]

\* verify: the listed reference whose cached file hashes to the listed digest.
\* A file replaced while it is hashed raises, as any other failure does.
Verified(p, ref) == {e \in Listed(p, ref) : Good(Name(e))}

\* verify_utf8_excerpt, verify_utf8_span_digest: the bytes between two offsets
\* of a verified derived text are the ones the caller names.
ExcerptHolds(p, ref, span) ==
    \E e \in Verified(p, ref) :
        e.kind = "derived_text" /\ span.start < span.end /\ span.excerpt = <<e.sha, span.start, span.end>>

\* The manifest file is edited and the edited version published (external).
Publish(m) ==
    /\ m # tracked
    /\ tracked' = m
    /\ UNCHANGED <<loaded, files, op, damage>>

\* A process starts: it reads the manifest once and keeps it.
Load(p) ==
    /\ loaded[p] = None
    /\ ManifestLoads(tracked)
    /\ loaded' = [loaded EXCEPT ![p] = tracked]
    /\ UNCHANGED <<tracked, files, op, damage>>

\* The threading.Lock of a target: held from Acquire to the end of the call.
LockFree(p, n) ==
    \A t \in Threads :
        op[t] # None /\ ProcessOf[t] = p => Name(op[t].entry) # n

Leave(t) == op' = [op EXCEPT ![t] = None]

At(t, step) == op[t] # None /\ op[t].step = step

\* operator_fetch and operator_import_local up to the copy.  Without refresh a
\* file that is there is only verified; a link at the name raises.
Acquire(t, ref, how, refresh) ==
    \E e \in Listed(ProcessOf[t], ref) :
        /\ op[t] = None
        /\ how = "fetch" => e.acquisition = "operator_only" /\ e.url
        /\ LockFree(ProcessOf[t], Name(e))
        /\ files[Name(e)] # None => Regular(Name(e))
        /\ op' = [op EXCEPT ![t] =
                     [entry |-> e, part |-> None,
                      step |-> IF files[Name(e)] # None /\ ~refresh THEN "verify" ELSE "copy"]]
        /\ UNCHANGED <<tracked, loaded, files, damage>>

\* Mutant: the copy is not inspected before it is put in place.
CopyUnchecked(t, bytes) ==
    /\ At(t, "copy")
    /\ op' = [op EXCEPT ![t].step = "replace", ![t].part = bytes]
    /\ UNCHANGED <<tracked, loaded, files, damage>>

\* Bytes reach a temporary file beside the target, are synced, hashed and, for
\* a download, checked for their final URL and media type.  Whatever is wrong
\* raises and the temporary file is removed; so does a failing download.
Copy(t, bytes) ==
    /\ At(t, "copy")
    /\ op' = [op EXCEPT ![t] = IF bytes = op[t].entry.sha
                                 THEN [op[t] EXCEPT !.step = "replace", !.part = bytes]
                                 ELSE None]
    /\ UNCHANGED <<tracked, loaded, files, damage>>

\* os.replace puts the temporary file at the target name, unless
\* something other than a file has appeared there.
Replace(t) ==
    /\ At(t, "replace")
    /\ LET n == Name(op[t].entry) IN
       IF files[n] # None /\ ~Regular(n)
         THEN Leave(t) /\ UNCHANGED files
         ELSE /\ files' = [files EXCEPT ![n] = op[t].part]
              /\ op' = [op EXCEPT ![t].step = "verify"]
    /\ UNCHANGED <<tracked, loaded, damage>>

\* The final verify of the call, which then returns or raises: the lock is
\* released and nothing on disk changes.
Finish(t) ==
    /\ At(t, "verify")
    /\ Leave(t)
    /\ UNCHANGED <<tracked, loaded, files, damage>>

\* A process dies: its locks go with it, temporary files stay and are never
\* looked at again.
Die(p) ==
    /\ loaded[p] # None
    /\ loaded' = [loaded EXCEPT ![p] = None]
    /\ op' = [t \in Threads |-> IF ProcessOf[t] = p THEN None ELSE op[t]]
    /\ UNCHANGED <<tracked, files, damage>>

\* Someone else removes, rewrites or replaces a cached file (external).
Damage(n) ==
    /\ files[n] # None /\ damage < MaxDamage
    /\ \E bytes \in Supplies \cup {Link, None} : files' = [files EXCEPT ![n] = bytes]
    /\ damage' = damage + 1
    /\ UNCHANGED <<tracked, loaded, op>>

CacheStep(t) ==
    \/ \E ref \in {n[1] : n \in Names}, refresh \in BOOLEAN, how \in {"fetch", "import"} :
           Acquire(t, ref, how, refresh)
    \/ \E bytes \in Supplies : Copy(t, bytes)
    \/ Replace(t)
    \/ Finish(t)

CacheNext ==
    \/ \E m \in Manifests : Publish(m)
    \/ \E p \in Processes : Load(p) \/ Die(p)
    \/ \E t \in Threads : CacheStep(t)
    \/ \E n \in Names : Damage(n)

\* No acquisition, in whatever process, however it fails and wherever its
\* process dies, loses a good copy: only someone else's change does.
KeepsGoodCopies ==
    [][damage' = damage => \A n \in Names : Good(n) => Good(n)']_cacheVars

=============================================================================
