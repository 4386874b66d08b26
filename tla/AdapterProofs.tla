--------------------------- MODULE AdapterProofs ---------------------------
(***************************************************************************)
(* The calls of generated adapters, for any artifacts, imports, memories   *)
(* and hosts.  A resource-aware call holds on to a copy of the imports     *)
(* that fits once it is checked, because memories only grow; while the     *)
(* copy is made, nobody else moves unless the host has getters.            *)
(***************************************************************************)
EXTENDS AdapterProperties, TLAPS

-----------------------------------------------------------------------------
(* The keys that the loops go through.                                     *)

LEMMA KeysKnown ==
    /\ KeySet \subseteq Modules \X Names
    /\ AllKeys \in Seq(KeySet) /\ FunctionKeys \in Seq(KeySet)
    /\ \A k \in KeySet : \E i \in 1..Len(AllKeys) : AllKeys[i] = k
    /\ FunctionKeySet \subseteq KeySet
<1>1. AllKeys \in Seq(Modules \X Names)
  BY KeysAssumption DEF AllKeys
<1>2. AllKeys \in Seq(KeySet)
  BY <1>1 DEF KeySet
<1>3. \A i \in 1..Len(FunctionKeys) : /\ i \in 1..Len(AllKeys)
                                      /\ FunctionKeys[i] = AllKeys[i]
  BY KeysAssumption DEF AllKeys
<1>4. FunctionKeys \in Seq(KeySet)
  BY <1>3, KeysAssumption DEF KeySet
<1>5. QED
  BY <1>1, <1>2, <1>3, <1>4 DEF KeySet, FunctionKeySet

\* The next import of a loop is one of the ABI's.
LEMMA NextKey ==
    ASSUME TypeOK, NEW c \in Calls, BytesKnown(c), Reading(c)
    PROVE  /\ ToRead(c)[at[c]] \in KeySet
           /\ ToRead(c)[at[c]][1] \in Modules
           /\ ToRead(c)[at[c]][2] \in Names
<1>1. ToRead(c) \in Seq(KeySet)
  BY KeysKnown, ArtifactsAssumption DEF ToRead, TypeOK, BytesKnown, Reading
<1>2. at[c] \in 1..Len(ToRead(c))
  BY DEF TypeOK, Reading
<1>3. ToRead(c)[at[c]] \in KeySet
  BY <1>1, <1>2
<1>4. QED
  BY <1>3, KeysKnown

-----------------------------------------------------------------------------
(* Types.                                                                  *)

LEMMA EntryReplaced ==
    ASSUME NEW S, NEW A, NEW B, NEW f \in [S -> [A -> B]],
           NEW c \in S, NEW a \in A, NEW b \in B
    PROVE  /\ [f EXCEPT ![c][a] = b] \in [S -> [A -> B]]
           /\ [f EXCEPT ![c][a] = b][c] = [f[c] EXCEPT ![a] = b]
           /\ \A d \in S \ {c} : [f EXCEPT ![c][a] = b][d] = f[d]
<1>1. [f[c] EXCEPT ![a] = b] \in [A -> B]
  OBVIOUS
<1>2. QED
  BY <1>1

LEMMA ReadType ==
    ASSUME TypeOK, NEW c \in Calls, BytesKnown(c), ReadModule(c) \/ ReadName(c),
           UNCHANGED hazards
    PROVE  TypeOK' /\ BytesKnown(c)'
<1> DEFINE k == ToRead(c)[at[c]]
<1>1. /\ Reading(c) /\ res[c] = "none"
      /\ pc[c] \in {"snapshot", "assert", "engine"}
  BY DEF ReadModule, ReadName, Reading, BytesKnown, TypeOK
<1>2. k \in KeySet /\ k[1] \in Modules /\ k[2] \in Names
  BY <1>1, NextKey
<1>3. /\ UNCHANGED <<hostVars, mem, taken, started, edits>>
      /\ \/ UNCHANGED <<pc, res>>
         \/ Rejects(c)
  BY DEF ReadModule, ReadName
<1>4. /\ pc' \in [Calls -> {"idle", "digest", "snapshot", "assert", "compile",
                            "engine", "exports", "done"}]
      /\ res' \in [Calls -> {"none", "mismatch", "engine", "returned"}]
      /\ \/ pc'[c] = pc[c] /\ res'[c] = res[c]
         \/ pc'[c] = "done" /\ res'[c] \in {"engine", "mismatch"}
  BY <1>3 DEF Rejects, End, Goto, TypeOK
<1>5. /\ at' \in [Calls -> Nat \ {0}]
      /\ cached' \in [Calls -> [Modules -> Objects \cup {None}]]
      /\ got' \in [Calls -> [KeySet -> Values \cup {None}]]
  <2> HIDE DEF k
  <2>1. CASE ReadModule(c)
    <3>1. \/ UNCHANGED <<at, got, cached>>
          \/ /\ UNCHANGED <<at, got>> /\ root[k[1]] \in Objects
             /\ cached' = [cached EXCEPT ![c][k[1]] = root[k[1]]]
      BY <2>1 DEF ReadModule, k
    <3>2. ASSUME root[k[1]] \in Objects
          PROVE  [cached EXCEPT ![c][k[1]] = root[k[1]]]
                     \in [Calls -> [Modules -> Objects \cup {None}]]
      <4>1. /\ cached \in [Calls -> [Modules -> Objects \cup {None}]]
            /\ root[k[1]] \in Objects \cup {None}
        BY <3>2 DEF TypeOK
      <4>2. QED
        BY <4>1, <1>2, EntryReplaced
    <3>3. QED
      BY <3>1, <3>2 DEF TypeOK
  <2>2. CASE ReadName(c)
    <3>1. cached[c][k[1]] \in Objects
      BY <1>2, <2>2 DEF ReadName, TypeOK, k
    <3>2. objs[cached[c][k[1]]][k[2]] \in Values \cup {Absent}
      BY <1>2, <3>1 DEF TypeOK
    <3>3. /\ at' \in {at, [at EXCEPT ![c] = @ + 1]}
          /\ cached' \in {cached, [cached EXCEPT ![c] = NothingCached]}
          /\ \/ got' = got
             \/ /\ objs[cached[c][k[1]]][k[2]] # Absent
                /\ got' = [got EXCEPT ![c][k] = objs[cached[c][k[1]]][k[2]]]
      BY <2>2 DEF ReadName, Acceptable, k
    <3>4. NothingCached \in [Modules -> Objects \cup {None}]
      BY DEF NothingCached
    <3>5. got' \in [Calls -> [KeySet -> Values \cup {None}]]
      <4>1. got \in [Calls -> [KeySet -> Values \cup {None}]]
        BY DEF TypeOK
      <4>2. ASSUME NEW v \in Values \cup {None}
            PROVE  [got EXCEPT ![c][k] = v] \in [Calls -> [KeySet -> Values \cup {None}]]
        BY <1>2, <4>1, EntryReplaced
      <4>3. QED
        BY <3>2, <3>3, <4>1, <4>2
    <3>6. QED
      BY <3>3, <3>4, <3>5 DEF TypeOK
  <2>3. QED
    BY <2>1, <2>2
<1>6. TypeOK'
  BY <1>3, <1>4, <1>5 DEF TypeOK, hostVars
<1>7. QED
  BY <1>1, <1>3, <1>4, <1>6 DEF BytesKnown

LEMMA LinkMemory ==
    ASSUME TypeOK, NEW c \in Calls, Link(c)
    PROVE  /\ mem' \in [Memories -> 0..PageCap]
           /\ \A v \in Memories : mem'[v] >= mem[v]
<1>1. mem \in [Memories -> 0..PageCap] /\ PageCap \in Nat
  BY MemoriesAssumption DEF TypeOK
<1>2. CASE UNCHANGED mem
  BY <1>1, <1>2
<1>3. ASSUME NEW v \in Memories, mem[v] < MaxOf[v], mem' = Grown(v)
      PROVE  /\ mem' \in [Memories -> 0..PageCap]
             /\ \A w \in Memories : mem'[w] >= mem[w]
  <2>1. mem[v] + 1 \in 0..PageCap
    BY <1>1, <1>3, MemoriesAssumption
  <2>2. QED
    BY <1>1, <1>3, <2>1 DEF Grown
<1>4. QED
  BY <1>2, <1>3 DEF Link

LEMMA StepType ==
    ASSUME TypeOK, NEW c \in Calls, BytesKnown(c), Step(c), UNCHANGED hazards
    PROVE  TypeOK' /\ BytesKnown(c)'
<1> USE DEF TypeOK, BytesKnown, End, Goto, hostVars
<1>1. CASE Begin(c)
  BY <1>1, ValuesAssumption, CallsAssumption DEF Begin
<1>2. CASE Digest(c)
  BY <1>2 DEF Digest
<1>3. CASE ReadModule(c) \/ ReadName(c)
  BY <1>3, ReadType
<1>4. CASE CheckSnapshot(c)
  <2>1. pc[c] = "snapshot" /\ pc'[c] \in {"compile", "done"} /\ res'[c] # "returned"
    BY <1>4 DEF CheckSnapshot
  <2>2. QED
    BY <1>4, <2>1 DEF CheckSnapshot
<1>5. CASE CallEngine(c)
  BY <1>5, ValuesAssumption DEF CallEngine
<1>6. CASE Compile(c)
  <2>1. Len(Needs[taken[c]]) + 1 \in Nat \ {0}
    BY <1>6, ArtifactsAssumption DEF Compile
  <2>2. NothingCached \in [Modules -> Objects \cup {None}]
    BY DEF NothingCached
  <2>3. /\ at' \in [Calls -> Nat \ {0}]
        /\ cached' \in [Calls -> [Modules -> Objects \cup {None}]]
    <3>1. ASSUME NEW n \in Nat \ {0}
          PROVE  [at EXCEPT ![c] = n] \in [Calls -> Nat \ {0}]
      OBVIOUS
    <3>2. \/ at' = at
          \/ at' = [at EXCEPT ![c] = 1]
          \/ at' = [at EXCEPT ![c] = Len(Needs[taken[c]]) + 1]
      BY <1>6 DEF Compile
    <3>3. cached' \in {cached, [cached EXCEPT ![c] = NothingCached]}
      BY <1>6 DEF Compile
    <3>4. [at EXCEPT ![c] = 1] \in [Calls -> Nat \ {0}]
      OBVIOUS
    <3>5. [at EXCEPT ![c] = Len(Needs[taken[c]]) + 1] \in [Calls -> Nat \ {0}]
      BY <2>1, <3>1
    <3>6. at' \in [Calls -> Nat \ {0}]
      BY <3>2, <3>4, <3>5
    <3>7. QED
      BY <2>2, <3>3, <3>6
  <2>4. /\ pc[c] = "compile" /\ taken[c] # None
        /\ \/ pc'[c] = "engine" /\ res' = res
           \/ pc'[c] = "done" /\ res'[c] = "engine"
    BY <1>6 DEF Compile
  <2>5. TypeOK'
    BY <1>6, <2>3 DEF Compile
  <2>6. BytesKnown(c)'
    BY <1>6, <2>4 DEF Compile
  <2>7. QED
    BY <2>5, <2>6
<1>7. CASE Link(c)
  BY <1>7, LinkMemory DEF Link
<1>8. CASE CheckExports(c)
  BY <1>8 DEF CheckExports, ExportsFit
<1>9. QED
  BY <1>1, <1>2, <1>3, <1>4, <1>5, <1>6, <1>7, <1>8 DEF Step

LEMMA HostType ==
    ASSUME TypeOK, Host, UNCHANGED hazards
    PROVE  /\ TypeOK'
           /\ \A v \in Memories : mem'[v] >= mem[v]
<1> USE DEF TypeOK, NoCall, Edit, hostVars
<1>1. CASE OverwriteBytes
  BY <1>1, HazardsAssumption, MemoriesAssumption DEF OverwriteBytes
<1>2. ASSUME NEW m \in Modules, SetModule(m)
      PROVE  /\ TypeOK' /\ \A v \in Memories : mem'[v] >= mem[v]
  BY <1>2, HazardsAssumption, MemoriesAssumption DEF SetModule
<1>3. ASSUME NEW o \in Objects, NEW n \in Names, SetImport(o, n)
      PROVE  /\ TypeOK' /\ \A v \in Memories : mem'[v] >= mem[v]
  <2>1. ASSUME NEW v \in Values \cup {Absent}
        PROVE  [objs EXCEPT ![o][n] = v] \in [Objects -> [Names -> Values \cup {Absent}]]
    <3>1. objs \in [Objects -> [Names -> Values \cup {Absent}]]
      OBVIOUS
    <3>2. QED
      BY <3>1, EntryReplaced
  <2>2. QED
    BY <1>3, <2>1, HazardsAssumption, MemoriesAssumption DEF SetImport
<1>4. ASSUME NEW v \in Memories, GrowMemory(v)
      PROVE  /\ TypeOK' /\ \A w \in Memories : mem'[w] >= mem[w]
  <2>1. mem[v] + 1 \in 0..PageCap
    BY <1>4, MemoriesAssumption DEF GrowMemory
  <2>2. QED
    BY <1>4, <2>1, HazardsAssumption, MemoriesAssumption DEF GrowMemory, Grown
<1>5. QED
  BY <1>1, <1>2, <1>3, <1>4 DEF Host

-----------------------------------------------------------------------------
(* A resource-aware call.                                                  *)

\* A call that others' steps pass by: its own state is as it was, memories have
\* grown at most, and the host's objects are as they were if it copies them in a
\* host without getters.
PassedBy(d) ==
    /\ pc'[d] = pc[d] /\ taken'[d] = taken[d] /\ at'[d] = at[d]
    /\ cached'[d] = cached[d] /\ got'[d] = got[d]
    /\ started'[d] = started[d] /\ res'[d] = res[d]
    /\ UNCHANGED hazards
    /\ \A v \in Memories : mem'[v] >= mem[v]
    /\ pc[d] = "snapshot" /\ "getter" \notin hazards => UNCHANGED <<root, objs>>

LEMMA FitsGrown ==
    ASSUME TypeOK, TypeOK', \A v \in Memories : mem'[v] >= mem[v],
           NEW v, Fits(v)
    PROVE  Fits(v)'
BY MemoriesAssumption DEF Fits, TypeOK

LEMMA PassedByInv ==
    ASSUME TypeOK, TypeOK', NEW d \in ResourceCalls, ResourceCallInv(d), PassedBy(d)
    PROVE  ResourceCallInv(d)'
<1>1. SnapshotFits(d) => SnapshotFits(d)'
  BY FitsGrown DEF SnapshotFits, PassedBy
<1>2. ArtifactKnown(d)'
  BY DEF ResourceCallInv, ArtifactKnown, PassedBy
<1>3. CopiedSoFar(d)'
  BY DEF ResourceCallInv, CopiedSoFar, PassedBy, Imported, NothingCached
<1>4. Checked(d)' => Checked(d)
  BY DEF Checked, PassedBy
<1>5. QED
  BY <1>1, <1>2, <1>3, <1>4 DEF ResourceCallInv, PassedBy

\* A step that changes neither a call's copy nor the memories, and keeps it out
\* of the loop that copies.
LEMMA CopyKept ==
    ASSUME NEW c \in ResourceCalls, ResourceCallInv(c), ArtifactKnown(c)',
           pc'[c] \notin {"idle", "digest", "snapshot"}, got'[c] = got[c],
           UNCHANGED <<mem, hazards>>, Checked(c)' => SnapshotFits(c),
           res'[c] = "engine" => "engine" \in hazards
    PROVE  ResourceCallInv(c)'
<1>1. SnapshotFits(c) => SnapshotFits(c)'
  BY DEF SnapshotFits, Fits
<1>2. QED
  BY <1>1 DEF ResourceCallInv, CopiedSoFar

\* A resource-aware call reads imports only to copy them.
LEMMA CopyingCall ==
    ASSUME NEW c \in ResourceCalls, TypeOK, BytesKnown(c), ResourceCallInv(c),
           ReadModule(c) \/ ReadName(c)
    PROVE  /\ pc[c] = "snapshot" /\ res[c] = "none" /\ ~started[c]
           /\ taken[c] = Bound /\ Reading(c)
<1>1. Reading(c) /\ pc[c] \in {"snapshot", "assert", "engine"} /\ c \in Calls
  BY DEF ReadModule, ReadName, Reading, Calls
<1>2. pc[c] # "assert"
  BY <1>1, CallsAssumption DEF BytesKnown
<1>3. pc[c] # "engine"
  <2>1. Len(Needs[Bound]) \in Nat
    BY ArtifactsAssumption
  <2>2. QED
    BY <1>1, <2>1 DEF ResourceCallInv, ArtifactKnown, Reading, ToRead
<1>4. QED
  BY <1>1, <1>2, <1>3 DEF BytesKnown, ResourceCallInv, ArtifactKnown

LEMMA ReadInv ==
    ASSUME TypeOK, TypeOK', NEW c \in ResourceCalls, BytesKnown(c),
           ResourceCallInv(c), ReadModule(c) \/ ReadName(c), UNCHANGED hazards
    PROVE  ResourceCallInv(c)'
<1> DEFINE k == AllKeys[at[c]]
<1>1. /\ pc[c] = "snapshot" /\ res[c] = "none" /\ ~started[c]
      /\ taken[c] = Bound /\ Reading(c)
  BY CopyingCall
<1>2. /\ ToRead(c) = AllKeys /\ at[c] \in 1..Len(AllKeys)
  <2>1. ToRead(c) = AllKeys /\ at[c] <= Len(AllKeys)
    BY <1>1 DEF ToRead, Reading
  <2>2. Len(AllKeys) \in Nat /\ at[c] \in Nat \ {0}
    BY KeysKnown DEF TypeOK, Calls
  <2>3. QED
    BY <2>1, <2>2
<1>3. /\ UNCHANGED <<root, objs, mem>>
      /\ taken'[c] = taken[c] /\ started'[c] = started[c]
  BY DEF ReadModule, ReadName, hostVars
<1>4. CASE Rejects(c)
  <2>1. pc'[c] = "done" /\ res'[c] = "mismatch"
    BY <1>1, <1>4 DEF Rejects, End, Goto, TypeOK, Calls
  <2>2. QED
    BY <1>1, <1>3, <2>1 DEF ResourceCallInv, ArtifactKnown, CopiedSoFar, Checked
<1>5. CASE UNCHANGED <<pc, res>>
  <2>0. ~Rejects(c)
    BY <1>1, <1>5 DEF Rejects, End, Goto, TypeOK, Calls
  <2>1. CopiedSoFar(c)'
    <3>1. k \in KeySet /\ k[1] \in Modules /\ k[2] \in Names
      BY <1>1, <1>2, NextKey DEF Calls
    <3>2. CASE ReadModule(c)
      <4>1. /\ at' = at /\ got' = got
            /\ cached' = [cached EXCEPT ![c][k[1]] = root[k[1]]]
        BY <1>2, <1>5, <3>2, <2>0 DEF ReadModule
      <4>2. /\ cached'[c][k[1]] = root[k[1]]
            /\ \A m \in Modules : m # k[1] => cached'[c][m] = cached[c][m]
        BY <3>1, <4>1 DEF TypeOK, Calls
      <4>3. QED
        BY <1>1, <1>3, <1>5, <4>1, <4>2
           DEF ResourceCallInv, CopiedSoFar, Imported, NothingCached
    <3>3. CASE ReadName(c)
      <4>1. /\ at' = [at EXCEPT ![c] = @ + 1] /\ cached' = cached
            /\ cached[c][k[1]] # None
            /\ got' = [got EXCEPT ![c][k] = objs[cached[c][k[1]]][k[2]]]
        BY <1>1, <1>2, <1>5, <3>3, <2>0 DEF ReadName
      <4>2. at'[c] = at[c] + 1 /\ at[c] \in Nat /\ Len(AllKeys) \in Nat
        BY <4>1, KeysKnown DEF TypeOK, Calls
      <4>3. /\ got'[c][k] = objs[cached[c][k[1]]][k[2]]
            /\ \A l \in KeySet : l # k => got'[c][l] = got[c][l]
        BY <3>1, <4>1 DEF TypeOK, Calls
      <4>4. ASSUME "getter" \notin hazards, NEW i \in 1..at[c]
            PROVE  got'[c][AllKeys[i]] = Imported(AllKeys[i])
        <5>1. AllKeys[i] \in KeySet
          BY <1>2, <4>2 DEF KeySet
        <5>2. CASE AllKeys[i] = k
          <6>1. cached[c][k[1]] = root[k[1]] /\ root[k[1]] \in Objects
            BY <1>1, <3>1, <4>1, <4>4 DEF ResourceCallInv, CopiedSoFar, TypeOK, Calls
          <6>2. QED
            BY <4>3, <5>2, <6>1 DEF Imported
        <5>3. CASE AllKeys[i] # k
          <6>1. i \in 1..(at[c] - 1)
            BY <4>2, <5>3
          <6>2. QED
            BY <1>1, <4>3, <4>4, <5>1, <5>3, <6>1 DEF ResourceCallInv, CopiedSoFar
        <5>4. QED
          BY <5>2, <5>3
      <4>5. \A l : Imported(l)' = Imported(l)
        BY <1>3 DEF Imported
      <4>6. QED
        BY <1>1, <1>2, <1>3, <1>5, <4>1, <4>2, <4>4, <4>5
           DEF ResourceCallInv, CopiedSoFar, NothingCached
    <3>4. QED
      BY <3>2, <3>3
  <2>2. QED
    BY <1>1, <1>3, <1>5, <2>1 DEF ResourceCallInv, ArtifactKnown, Checked
<1>6. QED
  BY <1>4, <1>5 DEF ReadModule, ReadName

\* What the engine can still refuse of a copy that fits.
LEMMA OnlyForeignFails ==
    ASSUME NEW c \in ResourceCalls, SnapshotFits(c), taken[c] = Bound, ~Links(c)
    PROVE  \E k \in FunctionKeySet : got[c][k] \in ForeignFunctions
<1>1. PICK i \in 1..Len(Needs[taken[c]]) :
          LET k == Needs[taken[c]][i]
          IN  ~(IF k \in FunctionKeySet THEN got[c][k] \in Functions ELSE Fits(got[c][k]))
  BY DEF Links
<1>2. Needs[taken[c]][i] \in KeySet
  BY ArtifactsAssumption
<1>3. QED
  BY <1>1, <1>2 DEF SnapshotFits, MemoryKeySet, Callable

LEMMA LinkInv ==
    ASSUME TypeOK, TypeOK', NEW c \in ResourceCalls, BytesKnown(c),
           ResourceCallInv(c), Link(c), UNCHANGED hazards
    PROVE  ResourceCallInv(c)'
<1>1. /\ pc[c] = "engine" /\ c \in Calls /\ taken[c] = Bound /\ ~started[c]
      /\ SnapshotFits(c)
  BY DEF Link, Calls, ResourceCallInv, ArtifactKnown, Checked
<1>2. taken'[c] = taken[c] /\ got'[c] = got[c]
  BY DEF Link
<1>3. SnapshotFits(c)'
  BY <1>1, <1>2, LinkMemory, FitsGrown DEF SnapshotFits
<1>4. CASE Links(c) /\ started' = [started EXCEPT ![c] = TRUE]
  <2>1. /\ started'[c] = TRUE
        /\ \/ pc'[c] = "exports" /\ res'[c] = res[c]
           \/ pc'[c] = "done" /\ res'[c] = "engine"
    BY <1>1, <1>4 DEF Link, End, Goto, TypeOK
  <2>2. res[c] = "none"
    BY <1>1 DEF BytesKnown, TypeOK
  <2>3. QED
    BY <1>1, <1>2, <1>3, <2>1, <2>2 DEF ResourceCallInv, ArtifactKnown, CopiedSoFar
<1>5. CASE /\ ~Links(c) \/ "engine" \in hazards
           /\ End(c, "engine") /\ UNCHANGED <<mem, started>>
  <2>1. pc'[c] = "done" /\ res'[c] = "engine" /\ started'[c] = started[c]
    BY <1>1, <1>5 DEF End, Goto, TypeOK
  <2>2. "engine" \notin hazards =>
            \E k \in FunctionKeySet : got[c][k] \in ForeignFunctions
    BY <1>1, <1>5, OnlyForeignFails
  <2>3. QED
    BY <1>1, <1>2, <1>3, <2>1, <2>2 DEF ResourceCallInv, ArtifactKnown, CopiedSoFar
<1>6. QED
  BY <1>4, <1>5 DEF Link

LEMMA OwnInv ==
    ASSUME TypeOK, TypeOK', NEW c \in ResourceCalls, BytesKnown(c),
           ResourceCallInv(c), Step(c), UNCHANGED hazards
    PROVE  ResourceCallInv(c)'
<1> c \in Calls /\ c \notin PlainCalls
  BY CallsAssumption DEF Calls
<1>1. CASE Begin(c)
  <2>1. /\ pc[c] = "idle" /\ at'[c] = at[c] /\ cached'[c] = cached[c]
        /\ started'[c] = started[c] /\ res[c] = "none"
        /\ \/ pc'[c] = "digest" /\ res'[c] = res[c]
           \/ pc'[c] = "done" /\ res'[c] = "mismatch"
    BY <1>1 DEF Begin, End, Goto, TypeOK, BytesKnown
  <2>2. QED
    BY <2>1 DEF ResourceCallInv, ArtifactKnown, CopiedSoFar, Checked, NothingCached
<1>2. CASE Digest(c)
  <2>1. /\ pc[c] = "digest" /\ at'[c] = at[c] /\ cached'[c] = cached[c]
        /\ started'[c] = started[c] /\ res[c] = "none" /\ taken'[c] = taken[c]
        /\ \/ pc'[c] = "snapshot" /\ res'[c] = res[c] /\ taken[c] = Bound
           \/ pc'[c] = "done" /\ res'[c] = "mismatch"
    BY <1>2 DEF Digest, End, Goto, TypeOK, BytesKnown
  <2>2. at[c] = 1 /\ cached[c] = NothingCached /\ ~started[c]
    BY <2>1 DEF ResourceCallInv, ArtifactKnown, CopiedSoFar
  <2>3. Len(AllKeys) \in Nat
    BY KeysKnown
  <2>4. ArtifactKnown(c)'
    BY <2>1, <2>2 DEF ArtifactKnown
  <2>5. CopiedSoFar(c)'
    BY <2>1, <2>2, <2>3 DEF CopiedSoFar, NothingCached
  <2>6. QED
    BY <2>1, <2>2, <2>4, <2>5 DEF ResourceCallInv, Checked
<1>3. CASE ReadModule(c) \/ ReadName(c)
  BY <1>3, ReadInv
<1>4. CASE CheckSnapshot(c)
  <2>1. /\ pc[c] = "snapshot" /\ started'[c] = started[c] /\ taken'[c] = taken[c]
        /\ res[c] = "none"
        /\ \/ pc'[c] = "compile" /\ res'[c] = res[c] /\ SnapshotFits(c)
           \/ pc'[c] = "done" /\ res'[c] = "mismatch"
    BY <1>4 DEF CheckSnapshot, End, Goto, TypeOK, BytesKnown
  <2>2. ArtifactKnown(c)'
    BY <2>1 DEF ResourceCallInv, ArtifactKnown
  <2>3. Checked(c)' => SnapshotFits(c)
    BY <2>1 DEF ResourceCallInv, ArtifactKnown, Checked
  <2>4. QED
    BY <1>4, <2>1, <2>2, <2>3, CopyKept DEF CheckSnapshot
<1>5. CASE CallEngine(c)
  BY <1>5 DEF CallEngine, BytesKnown
<1>6. CASE Compile(c)
  <2>1. /\ pc[c] = "compile" /\ started'[c] = started[c] /\ taken'[c] = taken[c]
        /\ taken[c] = Bound /\ res[c] = "none" /\ SnapshotFits(c)
        /\ \/ /\ pc'[c] = "engine" /\ res'[c] = res[c]
              /\ at'[c] = Len(Needs[Bound]) + 1
           \/ pc'[c] = "done" /\ res'[c] = "engine" /\ "engine" \in hazards
    BY <1>6
       DEF Compile, End, Goto, TypeOK, BytesKnown, ResourceCallInv, ArtifactKnown,
           Checked
  <2>2. ArtifactKnown(c)'
    BY <2>1 DEF ResourceCallInv, ArtifactKnown
  <2>3. QED
    BY <1>6, <2>1, <2>2, CopyKept DEF Compile
<1>7. CASE Link(c)
  BY <1>7, LinkInv
<1>8. CASE CheckExports(c)
  <2>1. /\ pc[c] = "exports" /\ started[c] /\ SnapshotFits(c) /\ taken[c] = Bound
    BY <1>8 DEF CheckExports, ResourceCallInv, ArtifactKnown, Checked
  <2>2. ExportsFit(c)
    BY <2>1, ArtifactsAssumption DEF ExportsFit, SnapshotFits
  <2>3. /\ pc'[c] = "done" /\ res'[c] = "returned" /\ started'[c] = started[c]
        /\ taken'[c] = taken[c]
    BY <1>8, <2>2 DEF CheckExports, End, Goto, TypeOK
  <2>4. ArtifactKnown(c)'
    BY <2>1, <2>3 DEF ArtifactKnown
  <2>5. QED
    BY <1>8, <2>1, <2>3, <2>4, CopyKept DEF CheckExports
<1>9. QED
  BY <1>1, <1>2, <1>3, <1>4, <1>5, <1>6, <1>7, <1>8 DEF Step

-----------------------------------------------------------------------------
(* All calls.                                                              *)

LEMMA StepPassesBy ==
    ASSUME TypeOK, NEW c \in Calls, Step(c), UNCHANGED hazards
    PROVE  /\ \A d \in Calls \ {c} : PassedBy(d)
           /\ UNCHANGED hostVars
<1> USE DEF TypeOK, PassedBy, End, Goto, hostVars
<1>1. CASE Link(c)
  BY <1>1, LinkMemory DEF Link
<1>2. CASE ~Link(c)
  <2>1. UNCHANGED <<mem, root, objs, bytes>>
    BY <1>2
       DEF Step, Begin, Digest, ReadModule, ReadName, CheckSnapshot, CallEngine,
           Compile, CheckExports
  <2>2. \A v \in Memories : mem'[v] >= mem[v]
    BY <2>1, MemoriesAssumption
  <2>3. ASSUME NEW d \in Calls \ {c}
        PROVE  /\ pc'[d] = pc[d] /\ res'[d] = res[d] /\ taken'[d] = taken[d]
               /\ at'[d] = at[d] /\ started'[d] = started[d]
    BY <1>2
       DEF Step, Begin, Digest, ReadModule, ReadName, CheckSnapshot, CallEngine,
           Compile, CheckExports, Rejects
  <2>4. ASSUME NEW d \in Calls \ {c}
        PROVE  cached'[d] = cached[d] /\ got'[d] = got[d]
    BY <1>2
       DEF Step, Begin, Digest, ReadModule, ReadName, CheckSnapshot, CallEngine,
           Compile, CheckExports
  <2>5. QED
    BY <2>1, <2>2, <2>3, <2>4
<1>3. QED
  BY <1>1, <1>2

LEMMA HostPassesBy ==
    ASSUME TypeOK, Host, UNCHANGED hazards, NEW d \in Calls
    PROVE  PassedBy(d)
<1>1. /\ UNCHANGED <<pc, taken, at, cached, got, started, res>> /\ HostTurn
  BY DEF Host, OverwriteBytes, SetModule, SetImport, GrowMemory, Edit, NoCall
<1>2. "getter" \notin hazards => pc[d] # "snapshot"
  BY <1>1 DEF HostTurn, InSync
<1>3. QED
  BY <1>1, <1>2, HostType DEF PassedBy

LEMMA InitInv == Init => TypeOK /\ CallsInv
<1> SUFFICES ASSUME Init
             PROVE  TypeOK /\ CallsInv
  OBVIOUS
<1>1. \A v \in Memories : (IF MaxOf[v] = 0 THEN 0 ELSE 1) \in 0..PageCap
  BY MemoriesAssumption
<1>2. /\ NothingCached \in [Modules -> Objects \cup {None}]
      /\ NothingGot \in [KeySet -> Values \cup {None}]
  BY DEF NothingCached, NothingGot
<1>3. TypeOK
  BY <1>1, <1>2, HazardsAssumption DEF Init, TypeOK
<1>4. QED
  BY <1>3
     DEF Init, CallsInv, BytesKnown, ResourceCallInv, ArtifactKnown, CopiedSoFar,
         Checked, Calls

LEMMA NextInv ==
    ASSUME TypeOK, CallsInv, Next
    PROVE  TypeOK' /\ CallsInv'
<1>1. UNCHANGED hazards
  BY DEF Next
<1>2. ASSUME NEW d \in Calls, PassedBy(d)
      PROVE  BytesKnown(d)'
  BY <1>2 DEF CallsInv, BytesKnown, PassedBy
<1>3. CASE Host
  <2>1. TypeOK'
    BY <1>1, <1>3, HostType
  <2>2. QED
    BY <1>1, <1>2, <1>3, <2>1, HostPassesBy, PassedByInv DEF CallsInv, Calls
<1>4. ASSUME NEW c \in Calls, Step(c)
      PROVE  TypeOK' /\ CallsInv'
  <2>1. TypeOK' /\ BytesKnown(c)'
    BY <1>1, <1>4, StepType DEF CallsInv
  <2>2. \A d \in Calls \ {c} : PassedBy(d)
    BY <1>1, <1>4, StepPassesBy
  <2>3. ASSUME NEW d \in ResourceCalls
        PROVE  ResourceCallInv(d)'
    <3>1. CASE d = c
      BY <1>1, <1>4, <2>1, <3>1, OwnInv DEF CallsInv
    <3>2. CASE d # c
      BY <2>1, <2>2, <3>2, PassedByInv DEF CallsInv, Calls
    <3>3. QED
      BY <3>1, <3>2
  <2>4. QED
    BY <1>2, <2>1, <2>2, <2>3 DEF CallsInv
<1>5. QED
  BY <1>3, <1>4 DEF Next

LEMMA StutterInv ==
    ASSUME TypeOK, CallsInv, UNCHANGED vars
    PROVE  TypeOK' /\ CallsInv'
<1> USE DEF vars, hostVars
<1>1. TypeOK'
  BY DEF TypeOK
<1>2. ASSUME NEW d \in ResourceCalls
      PROVE  ResourceCallInv(d)'
  BY DEF CallsInv, ResourceCallInv, ArtifactKnown, CopiedSoFar, Checked, SnapshotFits,
         Fits, Imported
<1>3. QED
  BY <1>1, <1>2 DEF CallsInv, BytesKnown

\* In any host, whatever it does between the steps: a result is about the bytes
\* taken, a resource-aware call that goes on works on its own artifact, and a
\* copy of the imports, once checked, keeps fitting.
THEOREM CallsInvariant == Spec => [](TypeOK /\ CallsInv)
<1>1. TypeOK /\ CallsInv /\ [Next]_vars => (TypeOK /\ CallsInv)'
  BY NextInv, StutterInv
<1>2. QED
  BY <1>1, InitInv, PTL DEF Spec

\* A resource-aware call that reports MHA_ADAPTER_MISMATCH has not run the
\* artifact's start function.
THEOREM MismatchIsBeforeStart == Spec => []MismatchBeforeStart
<1>1. TypeOK /\ CallsInv => MismatchBeforeStart
  BY DEF CallsInv, ResourceCallInv, ArtifactKnown, MismatchBeforeStart
<1>2. QED
  BY <1>1, CallsInvariant, PTL

\* A copy of the imports that the adapter accepted is accepted by the engine,
\* but for a Wasm function of another signature or a failure of its own.
THEOREM AcceptedCopiesLink == Spec => []AcceptedImportsLink
<1>1. TypeOK /\ CallsInv => AcceptedImportsLink
  BY DEF CallsInv, ResourceCallInv, AcceptedImportsLink
<1>2. QED
  BY <1>1, CallsInvariant, PTL

\* Exports that an adapter returns have the ABI's functions, and those of a
\* resource-aware one are of its artifact.
THEOREM ReturnedExportsAreKnown == Spec => []ReturnedExportsKnown
<1>1. TypeOK /\ CallsInv => ReturnedExportsKnown
  BY DEF CallsInv, BytesKnown, ResourceCallInv, ArtifactKnown, ReturnedExportsKnown
<1>2. QED
  BY <1>1, CallsInvariant, PTL

-----------------------------------------------------------------------------
(* Refinement: a resource-aware call takes the imports at one moment.      *)

\* What the promise says of the calls, as functions.
TakenBytes == [d \in ResourceCalls |-> IF Promised THEN taken[d] ELSE None]
AdmittedImports == [d \in ResourceCalls |-> IF Accepted(d) THEN got[d] ELSE None]
StartedCalls == {d \in ResourceCalls : Promised /\ started[d]}
CurrentImports == [k \in KeySet |-> Imported(k)]

LEMMA OtherStep ==
    ASSUME UNCHANGED <<TakenBytes, AdmittedImports, StartedCalls>>
    PROVE  Promise!Next
BY DEF Promise!Next, Promise!Other, TakenBytes, AdmittedImports, StartedCalls

\* A step after which no call has admitted anything new.
LEMMA SameAdmissions ==
    ASSUME UNCHANGED hazards,
           \A d \in ResourceCalls : /\ Checked(d)' <=> Checked(d)
                                    /\ Checked(d) => got'[d] = got[d]
    PROVE  UNCHANGED AdmittedImports
<1>1. ASSUME NEW d \in ResourceCalls
      PROVE  (IF Accepted(d)' THEN got'[d] ELSE None) = (IF Accepted(d) THEN got[d] ELSE None)
  <2>1. CASE Promised /\ Checked(d)
    BY <2>1 DEF Accepted, Promised, Checked
  <2>2. CASE ~(Promised /\ Checked(d))
    BY <2>2 DEF Accepted, Promised, Checked
  <2>3. QED
    BY <2>1, <2>2
<1>2. QED
  BY <1>1 DEF AdmittedImports, Accepted, Checked, Promised

LEMMA SameBytesAndStarts ==
    ASSUME UNCHANGED hazards
    PROVE  /\ (\A d \in ResourceCalls : taken'[d] = taken[d]) => UNCHANGED TakenBytes
           /\ (\A d \in ResourceCalls : started'[d] = started[d]) =>
                 UNCHANGED StartedCalls
BY DEF TakenBytes, StartedCalls, Promised

\* In a host with getters nothing is promised.
LEMMA Unpromised ==
    ASSUME ~Promised, UNCHANGED hazards
    PROVE  Promise!Next
<1>1. UNCHANGED <<TakenBytes, AdmittedImports, StartedCalls>>
  BY DEF TakenBytes, AdmittedImports, StartedCalls, Accepted, Promised
<1>2. QED
  BY <1>1, OtherStep

\* A call that the promise sees doing nothing.
LEMMA UnseenStep ==
    ASSUME UNCHANGED hazards,
           \A d \in ResourceCalls : taken'[d] = taken[d] /\ started'[d] = started[d],
           UNCHANGED AdmittedImports
    PROVE  Promise!Next
BY SameBytesAndStarts, OtherStep

LEMMA PassedByAdmission ==
    ASSUME NEW d \in ResourceCalls, PassedBy(d)
    PROVE  /\ Checked(d)' <=> Checked(d)
           /\ Checked(d) => got'[d] = got[d]
BY DEF PassedBy, Checked

LEMMA BeginPromised ==
    ASSUME TypeOK, CallsInv, Promised, NEW c \in ResourceCalls, Begin(c),
           UNCHANGED hazards
    PROVE  Promise!Next
<1>1. c \in Calls /\ pc[c] = "idle" /\ res[c] = "none" /\ taken[c] = None
  BY DEF Begin, Calls, CallsInv, BytesKnown
<1>2. ~started[c]
  BY <1>1 DEF CallsInv, ResourceCallInv, ArtifactKnown
<1>3. UNCHANGED AdmittedImports
  <2>1. \A d \in Calls \ {c} : PassedBy(d)
    BY <1>1, StepPassesBy DEF Step
  <2>2. ~Checked(c)
    BY <1>1, <1>2 DEF Checked
  <2>3. ~Checked(c)'
    BY <1>1, <1>2 DEF Checked, Begin, End, Goto, TypeOK
  <2>4. QED
    BY <2>1, <2>2, <2>3, PassedByAdmission, SameAdmissions DEF Calls
<1>4. CASE taken' = [taken EXCEPT ![c] = bytes]
  <2>1. TakenBytes' = [TakenBytes EXCEPT ![c] = bytes] /\ TakenBytes[c] = None
    <3>1. \A d \in ResourceCalls :
              (IF Promised' THEN taken'[d] ELSE None)
                  = IF d = c THEN bytes ELSE (IF Promised THEN taken[d] ELSE None)
      BY <1>1, <1>4 DEF TypeOK, Promised, Calls
    <3>2. QED
      BY <1>1, <3>1 DEF TakenBytes
  <2>2. UNCHANGED StartedCalls /\ UNCHANGED <<bytes, mem, root, objs>>
    BY SameBytesAndStarts DEF Begin, hostVars
  <2>3. UNCHANGED CurrentImports
    BY <2>2 DEF CurrentImports, Imported
  <2>4. Promise!Take(c)
    BY <1>3, <2>1, <2>2, <2>3
       DEF Promise!Take, TakenBytes, AdmittedImports, StartedCalls, CurrentImports
  <2>5. QED
    BY <2>4 DEF Promise!Next
<1>5. CASE UNCHANGED taken
  BY <1>3, <1>5, UnseenStep DEF Begin
<1>6. QED
  BY <1>4, <1>5, CallsAssumption DEF Begin

LEMMA CheckPromised ==
    ASSUME TypeOK, CallsInv, Promised, NEW c \in ResourceCalls, CheckSnapshot(c),
           UNCHANGED hazards
    PROVE  Promise!Next
<1>1. /\ c \in Calls /\ pc[c] = "snapshot" /\ res[c] = "none" /\ taken[c] = Bound
      /\ ~started[c] /\ UNCHANGED <<taken, started, got, bytes, mem, root, objs>>
  BY DEF CheckSnapshot, Calls, CallsInv, BytesKnown, ResourceCallInv, ArtifactKnown,
         hostVars
<1>2. ~Checked(c)
  BY <1>1 DEF Checked
<1>3. \A d \in Calls \ {c} : PassedBy(d)
  BY <1>1, StepPassesBy DEF Step
<1>4. CASE SnapshotFits(c) /\ Goto(c, "compile")
  <2>1. Accepted(c)' /\ ~Accepted(c)
    BY <1>1, <1>2, <1>4 DEF Goto, TypeOK, Checked, Accepted, Promised
  <2>2. got[c] = CurrentImports
    <3>1. Len(AllKeys) \in Nat /\ at[c] \in Nat \ {0}
      BY <1>1, KeysKnown DEF TypeOK
    <3>2. at[c] = Len(AllKeys) + 1
      BY <1>1, <3>1
         DEF CheckSnapshot, Reading, ToRead, CallsInv, ResourceCallInv, CopiedSoFar
    <3>3. ASSUME NEW k \in KeySet
          PROVE  got[c][k] = Imported(k)
      <4>1. PICK i \in 1..Len(AllKeys) : AllKeys[i] = k
        BY KeysKnown
      <4>2. QED
        BY <1>1, <3>1, <3>2, <4>1 DEF CallsInv, ResourceCallInv, CopiedSoFar, Promised
    <3>4. QED
      BY <1>1, <3>3 DEF TypeOK, CurrentImports
  <2>3. AdmittedImports' = [AdmittedImports EXCEPT ![c] = CurrentImports]
    <3>1. ASSUME NEW d \in ResourceCalls
          PROVE  (IF Accepted(d)' THEN got'[d] ELSE None)
                     = IF d = c THEN CurrentImports
                                ELSE (IF Accepted(d) THEN got[d] ELSE None)
      <4>1. CASE d = c
        BY <1>1, <2>1, <2>2, <4>1
      <4>2. CASE d # c
        <5>1. Accepted(d)' <=> Accepted(d)
          BY <1>3, <4>2 DEF PassedBy, Accepted, Checked, Promised, Calls
        <5>2. QED
          BY <1>1, <4>2, <5>1
      <4>3. QED
        BY <4>1, <4>2
    <3>2. QED
      BY <3>1 DEF AdmittedImports, Accepted, Checked, Promised
  <2>4. TakenBytes[c] = Bound /\ AdmittedImports[c] = None
    BY <1>1, <2>1 DEF TakenBytes, AdmittedImports
  <2>5. \A k \in KeySet : FittingIn(k, CurrentImports[k], mem)
    BY <1>4, <2>2 DEF SnapshotFits, Fits, FittingIn, MemoryKeySet
  <2>6. UNCHANGED <<TakenBytes, StartedCalls, CurrentImports>>
    BY <1>1, SameBytesAndStarts DEF CurrentImports, Imported
  <2>7. Promise!Admit(c)
    BY <1>1, <2>3, <2>4, <2>5, <2>6
       DEF Promise!Admit, TakenBytes, AdmittedImports, StartedCalls, CurrentImports
  <2>8. QED
    BY <2>7 DEF Promise!Next
<1>5. CASE End(c, "mismatch")
  <2>1. ~Checked(c)'
    BY <1>1, <1>5 DEF Checked, End, Goto, TypeOK
  <2>2. UNCHANGED AdmittedImports
    BY <1>2, <1>3, <2>1, PassedByAdmission, SameAdmissions DEF Calls
  <2>3. QED
    BY <1>1, <2>2, UnseenStep
<1>6. QED
  BY <1>4, <1>5 DEF CheckSnapshot

LEMMA LinkPromised ==
    ASSUME TypeOK, CallsInv, Promised, NEW c \in ResourceCalls, Link(c),
           UNCHANGED hazards
    PROVE  Promise!Next
<1>1. /\ c \in Calls /\ pc[c] = "engine" /\ ~started[c] /\ SnapshotFits(c)
      /\ UNCHANGED <<taken, got, bytes, root, objs>>
  BY DEF Link, Calls, CallsInv, ResourceCallInv, ArtifactKnown, Checked, hostVars
<1>2. Checked(c) /\ Checked(c)'
  BY <1>1 DEF Link, Checked, End, Goto, TypeOK
<1>3. \A d \in Calls \ {c} : PassedBy(d)
  BY <1>1, StepPassesBy DEF Step
<1>4. UNCHANGED AdmittedImports
  BY <1>1, <1>2, <1>3, PassedByAdmission, SameAdmissions DEF Calls
<1>5. CASE UNCHANGED started
  BY <1>1, <1>4, <1>5, UnseenStep
<1>6. CASE started' = [started EXCEPT ![c] = TRUE]
  <2>1. StartedCalls' = StartedCalls \cup {c} /\ c \notin StartedCalls
    BY <1>1, <1>6 DEF StartedCalls, Promised, TypeOK, Calls
  <2>2. UNCHANGED <<TakenBytes, CurrentImports>>
    BY <1>1, SameBytesAndStarts DEF CurrentImports, Imported
  <2>3. AdmittedImports[c] = got[c]
    BY <1>2 DEF AdmittedImports, Accepted
  <2>4. got[c] \in [KeySet -> Values]
    BY <1>1 DEF TypeOK, SnapshotFits, Fits, Values, MemoryKeySet
  <2>5. \A k \in KeySet : FittingIn(k, got[c][k], mem)
    BY <1>1 DEF SnapshotFits, Fits, FittingIn, MemoryKeySet
  <2>6. Promise!Run(c)
    BY <1>1, <1>4, <2>1, <2>2, <2>3, <2>4, <2>5, CopiesAssumption
       DEF Promise!Run, TakenBytes, AdmittedImports, StartedCalls, CurrentImports
  <2>7. QED
    BY <2>6 DEF Promise!Next
<1>7. QED
  BY <1>5, <1>6 DEF Link

LEMMA OtherPromised ==
    ASSUME TypeOK, CallsInv, NEW c \in Calls, Step(c), UNCHANGED hazards,
           c \in ResourceCalls => ~(Begin(c) \/ CheckSnapshot(c) \/ Link(c))
    PROVE  Promise!Next
<1>1. \A d \in Calls \ {c} : PassedBy(d)
  BY StepPassesBy
<1>2. ASSUME c \in ResourceCalls
      PROVE  /\ Checked(c)' <=> Checked(c)
             /\ Checked(c) => got'[c] = got[c]
             /\ taken'[c] = taken[c] /\ started'[c] = started[c]
  <2>1. /\ BytesKnown(c) /\ ArtifactKnown(c) /\ c \notin PlainCalls
        /\ res[c] # "none" => pc[c] = "done"
    BY <1>2, CallsAssumption DEF CallsInv, ResourceCallInv, BytesKnown
  <2>2. CASE Digest(c)
    BY <2>2, <2>1
       DEF Digest, End, Goto, TypeOK, Checked, ArtifactKnown
  <2>3. CASE ReadModule(c) \/ ReadName(c)
    <3>1. pc[c] = "snapshot"
      BY <1>2, <2>1, <2>3, CopyingCall DEF CallsInv
    <3>2. QED
      BY <2>1, <2>3, <3>1
         DEF ReadModule, ReadName, Rejects, End, Goto, TypeOK, Checked, ArtifactKnown
  <2>4. CASE CallEngine(c)
    BY <2>1, <2>4 DEF CallEngine, BytesKnown
  <2>5. CASE Compile(c)
    BY <2>1, <2>5 DEF Compile, End, Goto, TypeOK, Checked
  <2>6. CASE CheckExports(c)
    BY <2>1, <2>6 DEF CheckExports, End, Goto, TypeOK, Checked, ArtifactKnown
  <2>7. QED
    BY <1>2, <2>2, <2>3, <2>4, <2>5, <2>6 DEF Step
<1>3. ASSUME NEW d \in ResourceCalls
      PROVE  /\ Checked(d)' <=> Checked(d)
             /\ Checked(d) => got'[d] = got[d]
             /\ taken'[d] = taken[d] /\ started'[d] = started[d]
  <2>1. CASE d = c
    BY <1>2, <2>1
  <2>2. CASE d # c
    BY <1>1, <2>2, PassedByAdmission DEF PassedBy, Calls
  <2>3. QED
    BY <2>1, <2>2
<1>4. UNCHANGED AdmittedImports
  BY <1>3, SameAdmissions
<1>5. QED
  BY <1>3, <1>4, UnseenStep

\* In every host without getters a resource-aware call behaves as if it took the
\* bytes at one moment and all its imports at another, and runs exactly those.
THEOREM PromiseIsKept == Spec => PromiseKept
<1>1. Init => Promise!Init
  <2> SUFFICES ASSUME Init
               PROVE  Promise!Init
    OBVIOUS
  <2>1. ASSUME NEW d \in ResourceCalls
        PROVE  /\ taken[d] = None /\ ~started[d] /\ ~Checked(d)
    BY DEF Init, Calls, Checked
  <2>2. QED
    BY <2>1 DEF Promise!Init, Accepted
<1>2. TypeOK /\ CallsInv /\ [Next]_vars => [Promise!Next]_(Promise!vars)
  <2> SUFFICES ASSUME TypeOK, CallsInv, [Next]_vars
               PROVE  [Promise!Next]_(Promise!vars)
    OBVIOUS
  <2>1. CASE ~Promised /\ Next
    BY <2>1, Unpromised DEF Next
  <2>2. ASSUME Host, UNCHANGED hazards
        PROVE  Promise!Next
    <3>1. \A d \in Calls : PassedBy(d)
      BY <2>2, HostPassesBy
    <3>2. UNCHANGED AdmittedImports
      BY <2>2, <3>1, PassedByAdmission, SameAdmissions DEF Calls
    <3>3. QED
      BY <2>2, <3>1, <3>2, UnseenStep DEF PassedBy, Calls
  <2>3. ASSUME Promised, UNCHANGED hazards, NEW c \in Calls, Step(c)
        PROVE  Promise!Next
    BY <2>3, BeginPromised, CheckPromised, LinkPromised, OtherPromised
  <2>4. CASE UNCHANGED vars
    BY <2>4
       DEF vars, hostVars, Promise!vars, Promised, Accepted, Checked, Imported
  <2>5. QED
    BY <2>1, <2>2, <2>3, <2>4 DEF Next
<1>3. QED
  BY <1>1, <1>2, CallsInvariant, PTL DEF Spec, PromiseKept, Promise!Spec

=============================================================================
