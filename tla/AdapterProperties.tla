-------------------------- MODULE AdapterProperties --------------------------
(***************************************************************************)
(* Properties of AdapterInstantiate.                                       *)
(***************************************************************************)
EXTENDS AdapterInstantiate

\* A resource-aware call that reports MHA_ADAPTER_MISMATCH has not let the
\* artifact's start function run: wrong bytes and wrong imports are found
\* before it, and what the start function and the rest of the host do to the
\* shared memories never makes the later check of the exports fail
\* (docs/resource-protocol.md 214).
MismatchBeforeStart ==
    \A c \in ResourceCalls : res[c] = "mismatch" => ~started[c]

\* Once a resource-aware adapter has accepted its copies, the engine accepts
\* them too, whatever the host does to its own objects in the meantime: unless
\* the engine itself fails, or a function is a Wasm function of another
\* signature, the artifact starts.
AcceptedImportsLink ==
    \A c \in ResourceCalls :
        res[c] = "engine" /\ ~started[c] /\ "engine" \notin hazards =>
            \E k \in FunctionKeySet : got[c][k] \in ForeignFunctions

\* Whatever bytes a plain adapter was given, in whatever host, it returns only
\* exports that have the ABI's functions; a resource-aware one also only those
\* of its own artifact.
ReturnedExportsKnown ==
    \A c \in Calls : res[c] = "returned" =>
        /\ ExportNames \subseteq Provides[taken[c]]
        /\ c \in ResourceCalls => taken[c] = Bound

-----------------------------------------------------------------------------
(* The inductive invariant behind these properties and the refinement.     *)

\* The state of every call and of the host has its type.
TypeOK ==
    /\ bytes \in Artifacts
    /\ root \in [Modules -> Objects \cup {Absent}]
    /\ objs \in [Objects -> [Names -> Values \cup {Absent}]]
    /\ mem \in [Memories -> 0..PageCap]
    /\ pc \in [Calls -> {"idle", "digest", "snapshot", "assert", "compile",
                         "engine", "exports", "done"}]
    /\ taken \in [Calls -> Artifacts \cup {None}]
    /\ at \in [Calls -> Nat \ {0}]
    /\ cached \in [Calls -> [Modules -> Objects \cup {None}]]
    /\ got \in [Calls -> [KeySet -> Values \cup {None}]]
    /\ started \in [Calls -> BOOLEAN]
    /\ res \in [Calls -> {"none", "mismatch", "engine", "returned"}]
    /\ edits \in 0..MaxEdits
    /\ hazards \in Hosts

\* Of either adapter: which bytes a call works on, and that it has ended when
\* there is a result.
BytesKnown(c) ==
    /\ pc[c] = "idle" => taken[c] = None
    /\ pc[c] \in {"digest", "snapshot", "compile", "engine", "exports"} =>
          taken[c] # None
    /\ pc[c] \in {"snapshot", "digest"} => c \in ResourceCalls
    /\ pc[c] = "assert" => c \in PlainCalls
    /\ res[c] # "none" => pc[c] = "done"
    /\ res[c] = "returned" => ExportNames \subseteq Provides[taken[c]]

\* A resource-aware call works on its own artifact once it has hashed it, and
\* the start function runs after the engine has read all imports.
ArtifactKnown(c) ==
    /\ pc[c] \in {"snapshot", "compile", "engine", "exports"}
       \/ res[c] = "returned" => taken[c] = Bound
    /\ pc[c] \in {"idle", "digest", "snapshot", "compile", "engine"}
       \/ res[c] = "mismatch" => ~started[c]
    /\ pc[c] = "exports" => started[c]
    /\ pc[c] = "engine" => at[c] = Len(Needs[Bound]) + 1

Imported(k) ==
    IF root[k[1]] \in Objects THEN objs[root[k[1]]][k[2]] ELSE Absent

\* While it copies the imports of a host without getters, what it has copied is
\* what is there.
CopiedSoFar(c) ==
    /\ pc[c] \in {"idle", "digest"} => at[c] = 1 /\ cached[c] = NothingCached
    /\ pc[c] = "snapshot" =>
          /\ at[c] <= Len(AllKeys) + 1
          /\ "getter" \notin hazards =>
                /\ \A m \in Modules : cached[c][m] \in {None, root[m]}
                /\ \A i \in 1..(at[c] - 1) : got[c][AllKeys[i]] = Imported(AllKeys[i])

\* From its check on, the copy fits, since memories only grow.
Checked(c) ==
    pc[c] \in {"compile", "engine", "exports"} \/ started[c] \/ res[c] = "engine"

ResourceCallInv(c) ==
    /\ ArtifactKnown(c) /\ CopiedSoFar(c)
    /\ Checked(c) => SnapshotFits(c)
    /\ res[c] = "engine" /\ ~started[c] /\ "engine" \notin hazards =>
          \E k \in FunctionKeySet : got[c][k] \in ForeignFunctions

CallsInv ==
    /\ \A c \in Calls : BytesKnown(c)
    /\ \A c \in ResourceCalls : ResourceCallInv(c)

-----------------------------------------------------------------------------
(* Refinement, for hosts whose import objects have no getters; a host with  *)
(* getters is shown as one that never calls.                                *)

Promised == "getter" \notin hazards

Accepted(c) == Promised /\ Checked(c)

FittingIn(k, v, m) ==
    IF k \in FunctionKeySet THEN v \in Callable
    ELSE v \in Memories /\ m[v] >= MinPages /\ MaxOf[v] <= MaxPages

Promise == INSTANCE AtomicInstantiate WITH
    Calls    <- ResourceCalls,
    Keys     <- KeySet,
    Fitting  <- FittingIn,
    imports  <- [k \in KeySet |-> Imported(k)],
    memory   <- mem,
    taken    <- [c \in ResourceCalls |-> IF Promised THEN taken[c] ELSE None],
    admitted <- [c \in ResourceCalls |-> IF Accepted(c) THEN got[c] ELSE None],
    running  <- {c \in ResourceCalls : Promised /\ started[c]}

\* None is no copy of the imports.
ASSUME CopiesAssumption == None \notin [KeySet -> Values]

\* Although it reads imports one by one and awaits twice, each resource-aware
\* call behaves as if it took the bytes at one moment and all its imports at
\* another, and runs exactly those.
PromiseKept == Promise!Spec
=============================================================================
