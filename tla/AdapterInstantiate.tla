------------------------- MODULE AdapterInstantiate -------------------------
(***************************************************************************)
(* The `instantiate` functions of generated adapters, in a JavaScript host *)
(* that runs several calls on the same bytes and the same import object.   *)
(* A plain adapter asserts the host's functions and passes everything on   *)
(* to WebAssembly.instantiate.  A resource-aware one copies and hashes the *)
(* bytes, copies the imports, and checks the copy before it passes it on.  *)
(* The host's own code runs whenever no call is in a synchronous section,  *)
(* and inside one only when a property read calls a getter ("getter").     *)
(* Engines may reject what is in order, for lack of memory ("engine").     *)
(***************************************************************************)
EXTENDS Naturals, Sequences, FiniteSets

CONSTANTS
    PlainCalls, ResourceCalls,  \* calls of the two adapters
    Modules, Names,             \* import modules and import names
    FunctionKeys, MemoryKeys,   \* the ABI's imports, as <<module, name>>
    ExportNames,                \* the ABI's exported functions
    Objects,                    \* host objects that hold one module's imports
    Functions,                  \* host functions that fit
    ForeignFunctions,           \* exported Wasm functions of another signature
    Memories, MaxOf,            \* host memories and their declared maxima
    MinPages, MaxPages, PageCap,
    Artifacts, Bound,           \* bytes, and those the adapter was made for
    Needs, Provides,            \* imports and exported functions of artifacts
    Hosts, MaxEdits,            \* kinds of hosts: the hazards of each
    Absent, None

Calls    == PlainCalls \cup ResourceCalls
Callable == Functions \cup ForeignFunctions
Values   == Callable \cup Memories
AllKeys  == FunctionKeys \o MemoryKeys
KeySet   == {AllKeys[i] : i \in 1..Len(AllKeys)}
FunctionKeySet == {FunctionKeys[i] : i \in 1..Len(FunctionKeys)}
MemoryKeySet   == KeySet \ FunctionKeySet

ASSUME CallsAssumption == PlainCalls \cap ResourceCalls = {}
ASSUME KeysAssumption ==
    /\ FunctionKeys \in Seq(Modules \X Names)
    /\ MemoryKeys \in Seq(Modules \X Names)
    /\ FunctionKeySet \cap {MemoryKeys[i] : i \in 1..Len(MemoryKeys)} = {}
ASSUME ArtifactsAssumption ==
    /\ Bound \in Artifacts
    /\ Needs \in [Artifacts -> Seq(KeySet)]
    /\ Provides \in [Artifacts -> SUBSET ExportNames]
    /\ Provides[Bound] = ExportNames
    /\ \A k \in KeySet : \E i \in 1..Len(Needs[Bound]) : Needs[Bound][i] = k
ASSUME MemoriesAssumption ==
    /\ MinPages \in Nat /\ MaxPages \in Nat /\ PageCap \in Nat
    /\ MaxOf \in [Memories -> 0..PageCap]
ASSUME ValuesAssumption ==
    /\ Callable \cap Memories = {} /\ Functions \cap ForeignFunctions = {}
    /\ Absent \notin Values \cup Objects /\ None \notin Values \cup Objects
    /\ None \notin Artifacts
ASSUME HazardsAssumption ==
    Hosts \subseteq SUBSET {"getter", "engine"} /\ MaxEdits \in Nat

VARIABLES
    bytes,    \* the artifact in the host's buffer
    root,     \* the import object: module |-> object
    objs,     \* object |-> name |-> value
    mem,      \* pages of each memory
    pc,
    taken,    \* the bytes each call has copied
    at,       \* the import each call reads next
    cached,   \* the module objects each call has read
    got,      \* the import values each call has copied
    started,  \* whether the artifact's start function has begun
    res,      \* how each call has ended, "none" while it runs
    edits,
    hazards   \* the hazards of this host

hostVars == <<bytes, root, objs>>
vars == <<bytes, root, objs, mem, pc, taken, at, cached, got, started, res,
          edits, hazards>>

-----------------------------------------------------------------------------
\* The keys the running loop goes through.
ToRead(c) == CASE pc[c] = "assert" -> FunctionKeys
               [] pc[c] = "engine" -> Needs[taken[c]]
               [] OTHER -> AllKeys

Reading(c) ==
    pc[c] \in {"snapshot", "assert", "engine"} /\ at[c] <= Len(ToRead(c))
InSync(c) == pc[c] \in {"snapshot", "assert"} \/ Reading(c)

\* A step of c waits for the other calls' synchronous sections.
Quiet(c) == \A d \in Calls \ {c} : ~InSync(d)

\* Host code runs between synchronous sections, and in getters.
HostTurn == \A d \in Calls : InSync(d) => Reading(d) /\ "getter" \in hazards

Goto(c, label) == pc' = [pc EXCEPT ![c] = label]
End(c, code) == Goto(c, "done") /\ res' = [res EXCEPT ![c] = code]

NothingCached == [m \in Modules |-> None]
NothingGot == [k \in KeySet |-> None]

\* A wrong probe that wants the memory to have the minimum size exactly.
FitsExactly(v) ==
    v \in Memories /\ mem[v] = MinPages /\ MaxOf[v] <= MaxPages

\* The import matching rule of the engine, also used through a probe module.
Fits(v) == v \in Memories /\ mem[v] >= MinPages /\ MaxOf[v] <= MaxPages

-----------------------------------------------------------------------------
\* The host calls an adapter.  The resource-aware one copies the bytes at
\* once, and rejects at once when there is no Web Crypto.
Begin(c) ==
    /\ pc[c] = "idle" /\ HostTurn
    /\ \/ /\ c \in ResourceCalls
          /\ taken' = [taken EXCEPT ![c] = bytes]
          /\ Goto(c, "digest") /\ UNCHANGED res
       \/ /\ c \in ResourceCalls /\ "engine" \in hazards
          /\ End(c, "mismatch") /\ UNCHANGED taken
       \/ /\ c \in PlainCalls
          /\ Goto(c, "assert") /\ UNCHANGED <<taken, res>>
    /\ UNCHANGED <<hostVars, mem, at, cached, got, started, edits>>

Digest(c) ==
    /\ pc[c] = "digest" /\ Quiet(c)
    /\ \/ taken[c] = Bound /\ Goto(c, "snapshot") /\ UNCHANGED res
       \/ taken[c] # Bound /\ End(c, "mismatch")
    /\ UNCHANGED <<hostVars, mem, taken, at, cached, got, started, edits>>

\* The engine reports a TypeError or LinkError where the adapter's own code
\* reports MHA_ADAPTER_MISMATCH.
Rejects(c) == End(c, IF pc[c] = "engine" THEN "engine" ELSE "mismatch")

\* The module object is read once and kept; the engine reads it every time.
ReadModule(c) ==
    /\ Reading(c) /\ Quiet(c)
    /\ LET m == ToRead(c)[at[c]][1]
       IN  /\ cached[c][m] = None
           /\ \/ /\ root[m] \in Objects
                 /\ cached' = [cached EXCEPT ![c][m] = root[m]]
                 /\ UNCHANGED <<pc, res>>
              \/ root[m] = Absent /\ Rejects(c) /\ UNCHANGED cached
    /\ UNCHANGED <<hostVars, mem, taken, at, got, started, edits>>

\* What each loop wants of a value: the snapshot any own property, the
\* assertion a function, the engine a value of the import's kind.
Acceptable(c, k, v) ==
    /\ v # Absent
    /\ pc[c] = "assert" => v \in Callable
    /\ pc[c] = "engine" =>
          (IF k \in FunctionKeySet THEN v \in Callable ELSE v \in Memories)

ReadName(c) ==
    /\ Reading(c) /\ Quiet(c)
    /\ LET k == ToRead(c)[at[c]]
           o == cached[c][k[1]]
           v == objs[o][k[2]]
       IN  /\ o # None
           /\ \/ /\ Acceptable(c, k, v)
                 /\ at' = [at EXCEPT ![c] = @ + 1]
                 /\ IF pc[c] = "assert" THEN UNCHANGED got
                    ELSE got' = [got EXCEPT ![c][k] = v]
                 /\ IF pc[c] # "engine" THEN UNCHANGED cached
                    ELSE cached' = [cached EXCEPT ![c] = NothingCached]
                 /\ UNCHANGED <<pc, res>>
              \/ /\ ~Acceptable(c, k, v)
                 /\ Rejects(c) /\ UNCHANGED <<at, cached, got>>
    /\ UNCHANGED <<hostVars, mem, taken, started, edits>>

\* A wrong check that forgets the resources.
FunctionsFit(c) == \A k \in FunctionKeySet : got[c][k] \in Callable

\* assertHostImports and assertResourceBindings, on the copy.
SnapshotFits(c) ==
    /\ \A k \in FunctionKeySet : got[c][k] \in Callable
    /\ \A k \in MemoryKeySet : Fits(got[c][k])

CheckSnapshot(c) ==
    /\ pc[c] = "snapshot" /\ ~Reading(c) /\ Quiet(c)
    /\ \/ SnapshotFits(c) /\ Goto(c, "compile") /\ UNCHANGED res
       \/ ~SnapshotFits(c) /\ End(c, "mismatch")
    /\ UNCHANGED <<hostVars, mem, taken, at, cached, got, started, edits>>

\* WebAssembly.instantiate copies the bytes it is given before it returns.
CallEngine(c) ==
    /\ pc[c] = "assert" /\ ~Reading(c) /\ Quiet(c)
    /\ taken' = [taken EXCEPT ![c] = bytes]
    /\ Goto(c, "compile")
    /\ UNCHANGED <<hostVars, mem, at, cached, got, started, res, edits>>

\* A wrong call that hands the engine the host's object.
CompileLive(c) ==
    /\ pc[c] = "compile" /\ Quiet(c)
    /\ Goto(c, "engine")
    /\ at' = [at EXCEPT ![c] = 1]
    /\ cached' = [cached EXCEPT ![c] = NothingCached]
    /\ UNCHANGED <<hostVars, mem, taken, got, started, res, edits>>

\* After compilation the engine reads the imports: the host's object, or the
\* copy, which has no getters and no other user.
Compile(c) ==
    /\ pc[c] = "compile" /\ Quiet(c)
    /\ \/ /\ Goto(c, "engine")
          /\ at' = [at EXCEPT ![c] =
                       IF c \in PlainCalls THEN 1 ELSE Len(Needs[taken[c]]) + 1]
          /\ cached' = [cached EXCEPT ![c] = NothingCached]
          /\ UNCHANGED res
       \/ "engine" \in hazards /\ End(c, "engine") /\ UNCHANGED <<at, cached>>
    /\ UNCHANGED <<hostVars, mem, taken, got, started, edits>>

Links(c) ==
    \A i \in 1..Len(Needs[taken[c]]) :
        LET k == Needs[taken[c]][i]
        IN  IF k \in FunctionKeySet THEN got[c][k] \in Functions
                                    ELSE Fits(got[c][k])

Grown(v) == [mem EXCEPT ![v] = @ + 1]

\* In a later task the engine matches the types and runs the start function,
\* which may grow a memory it imports, and may trap.
Link(c) ==
    /\ pc[c] = "engine" /\ ~Reading(c) /\ Quiet(c)
    /\ \/ /\ Links(c)
          /\ started' = [started EXCEPT ![c] = TRUE]
          /\ \/ UNCHANGED mem
             \/ \E k \in MemoryKeySet :
                   /\ got[c][k] \in Memories
                   /\ mem[got[c][k]] < MaxOf[got[c][k]]
                   /\ mem' = Grown(got[c][k])
          /\ \/ Goto(c, "exports") /\ UNCHANGED res
             \/ End(c, "engine")
       \/ /\ ~Links(c) \/ "engine" \in hazards
          /\ End(c, "engine") /\ UNCHANGED <<mem, started>>
    /\ UNCHANGED <<hostVars, taken, at, cached, got, edits>>

\* A wrong check that takes whatever the module exports.
AnyExports(c) == TRUE

\* Exported functions by name; imported memories are exported again.
ExportsFit(c) ==
    /\ ExportNames \subseteq Provides[taken[c]]
    /\ c \in ResourceCalls => \A k \in MemoryKeySet : Fits(got[c][k])

CheckExports(c) ==
    /\ pc[c] = "exports" /\ Quiet(c)
    /\ End(c, IF ExportsFit(c) THEN "returned" ELSE "mismatch")
    /\ UNCHANGED <<hostVars, mem, taken, at, cached, got, started, edits>>

-----------------------------------------------------------------------------
(* The host.                                                               *)

Edit == HostTurn /\ edits < MaxEdits /\ edits' = edits + 1
NoCall == UNCHANGED <<pc, taken, at, cached, got, started, res>>

OverwriteBytes ==
    /\ Edit /\ bytes' \in Artifacts
    /\ UNCHANGED <<root, objs, mem>> /\ NoCall

SetModule(m) ==
    /\ Edit /\ \E o \in Objects \cup {Absent} : root' = [root EXCEPT ![m] = o]
    /\ UNCHANGED <<bytes, objs, mem>> /\ NoCall

SetImport(o, n) ==
    /\ Edit
    /\ \E v \in Values \cup {Absent} : objs' = [objs EXCEPT ![o][n] = v]
    /\ UNCHANGED <<bytes, root, mem>> /\ NoCall

GrowMemory(v) ==
    /\ Edit /\ mem[v] < MaxOf[v] /\ mem' = Grown(v)
    /\ UNCHANGED hostVars /\ NoCall

Step(c) ==
    \/ Begin(c) \/ Digest(c) \/ ReadModule(c) \/ ReadName(c)
    \/ CheckSnapshot(c) \/ CallEngine(c) \/ Compile(c) \/ Link(c)
    \/ CheckExports(c)

Host ==
    \/ OverwriteBytes \/ \E m \in Modules : SetModule(m)
    \/ \E o \in Objects, n \in Names : SetImport(o, n)
    \/ \E v \in Memories : GrowMemory(v)

Next == UNCHANGED hazards /\ (Host \/ \E c \in Calls : Step(c))

Init ==
    /\ bytes \in Artifacts
    /\ root \in [Modules -> Objects]
    /\ objs \in [Objects -> [Names -> Values \cup {Absent}]]
    /\ mem = [v \in Memories |-> IF MaxOf[v] = 0 THEN 0 ELSE 1]
    /\ pc = [c \in Calls |-> "idle"]
    /\ taken = [c \in Calls |-> None]
    /\ at = [c \in Calls |-> 1]
    /\ cached = [c \in Calls |-> NothingCached]
    /\ got = [c \in Calls |-> NothingGot]
    /\ started = [c \in Calls |-> FALSE]
    /\ res = [c \in Calls |-> "none"]
    /\ edits = 0
    /\ hazards \in Hosts

Spec == Init /\ [][Next]_vars

=============================================================================
