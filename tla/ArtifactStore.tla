--------------------------- MODULE ArtifactStore ----------------------------
(***************************************************************************)
(* The content-addressed blob store (artifacts.py).  A blob is published   *)
(* by linking a synced temporary file to the name its digest determines,   *)
(* so no lock is needed: several callers, in several processes, may put    *)
(* the same content at once, and any of them may die on the way.           *)
(* A content is its own digest.                                            *)
(***************************************************************************)
EXTENDS Naturals, FiniteSets, TLC

CONSTANTS
    Callers,    \* threads that put and read blobs
    Torn,       \* what a write that was cut short leaves
    Symlink,    \* a link at the name of a blob
    MaxDamage   \* bound: changes made by others than the store

VARIABLES
    blobs,      \* digest -> what its name holds, for names that exist
    puts,       \* caller -> NoPut or the locals of its put
    incoming,   \* temporary files: [by, content]
    damaged     \* digests whose blob others changed (history)

storeVars == <<blobs, puts, incoming, damaged>>

NoPut == [step |-> "none"]

\* A store that holds what was put into it before.
StoreInit(stored) ==
    /\ blobs = [d \in stored |-> d]
    /\ puts = [c \in Callers |-> NoPut]
    /\ incoming = {}
    /\ damaged = {}

\* path_for, exists: is_file on the name, after _assert_safe_store_path has
\* refused a link.
Exists(d) == d \in DOMAIN blobs /\ blobs[d] # Symlink
Safe(d) == d \in DOMAIN blobs => blobs[d] # Symlink

\* verify, _verify_bytes: the name holds bytes that hash to it.
Verifies(d) == Exists(d) /\ blobs[d] = d

PutAt(c, step) == puts[c].step = step
PutGoesTo(c, step) == puts' = [puts EXCEPT ![c].step = step]

\* put_bytes computes the digest first and leaves an existing blob alone;
\* put_file copies its source first, and knows the digest only then.
BeginPut(c, content, whole) ==
    /\ puts[c] = NoPut
    /\ whole => Safe(content)
    /\ puts' = [puts EXCEPT ![c] =
                   [content |-> content,
                    step |-> IF whole /\ Exists(content) THEN "verify" ELSE "write"]]
    /\ UNCHANGED <<blobs, incoming, damaged>>

\* The temporary file exists from the first byte on.
CreateTemporary(c) ==
    /\ PutAt(c, "write")
    /\ incoming' = incoming \cup {[by |-> c, content |-> Torn]}
    /\ PutGoesTo(c, "sync")
    /\ UNCHANGED <<blobs, damaged>>

\* Mutant: the blob is written under its own name.
SyncTemporaryInPlace(c) ==
    /\ PutAt(c, "sync")
    /\ blobs' = IF puts[c].content \in DOMAIN blobs THEN blobs
                ELSE puts[c].content :> Torn @@ blobs
    /\ incoming' = (incoming \ {[by |-> c, content |-> Torn]})
                       \cup {[by |-> c, content |-> puts[c].content]}
    /\ PutGoesTo(c, "link")
    /\ UNCHANGED damaged

\* write, flush and fsync
SyncTemporary(c) ==
    /\ PutAt(c, "sync")
    /\ incoming' = (incoming \ {[by |-> c, content |-> Torn]})
                       \cup {[by |-> c, content |-> puts[c].content]}
    /\ PutGoesTo(c, "link")
    /\ UNCHANGED <<blobs, damaged>>

\* os.link, which does nothing to a name that exists; the temporary file is
\* removed.
LinkBlob(c) ==
    /\ PutAt(c, "link")
    /\ blobs' = [d \in DOMAIN blobs \cup {puts[c].content} |->
                    IF d \in DOMAIN blobs THEN blobs[d] ELSE puts[c].content]
    /\ incoming' = {t \in incoming : t.by # c}
    /\ PutGoesTo(c, "verify")
    /\ UNCHANGED damaged

\* The put returns its reference, or raises.
EndPut(c) ==
    /\ PutAt(c, "verify")
    /\ puts' = [puts EXCEPT ![c] = NoPut]
    /\ UNCHANGED <<blobs, incoming, damaged>>

\* A write fails (disk full): the finally clause removes the temporary file.
FailPut(c) ==
    /\ PutAt(c, "sync")
    /\ incoming' = {t \in incoming : t.by # c}
    /\ puts' = [puts EXCEPT ![c] = NoPut]
    /\ UNCHANGED <<blobs, damaged>>

\* The caller's process dies: temporary files stay behind.
DiePutting(c) ==
    /\ puts[c] # NoPut
    /\ puts' = [puts EXCEPT ![c] = NoPut]
    /\ incoming' = {[t EXCEPT !.by = IF @ = c THEN "dead" ELSE @] : t \in incoming}
    /\ UNCHANGED <<blobs, damaged>>

\* Somebody else tears a blob or puts a link at its name (external).
DamageBlob(d) ==
    /\ d \in DOMAIN blobs /\ Cardinality(damaged) < MaxDamage
    /\ \E what \in {Torn, Symlink} : blobs' = [blobs EXCEPT ![d] = what]
    /\ damaged' = damaged \cup {d}
    /\ UNCHANGED <<puts, incoming>>

PutStep(c) ==
    \/ CreateTemporary(c)
    \/ SyncTemporary(c)
    \/ LinkBlob(c)
    \/ FailPut(c)
=============================================================================
