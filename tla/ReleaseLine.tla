---------------------------- MODULE ReleaseLine ----------------------------
(***************************************************************************)
(* A component's line of releases.  Its source changes and is recompiled,  *)
(* which renumbers its types and reorders its declarations; a check        *)
(* compares it with the lock of the last release, and a compatible one is  *)
(* released and locked.  A host is written against the first release seen  *)
(* here and stays as it is.                                                *)
(*                                                                         *)
(* What the host can represent is the capability policy of the program     *)
(* that analyzes: the commands' policy allows neither typed references nor *)
(* v128, a program that uses the library may allow them.                   *)
(***************************************************************************)
EXTENDS HostAbi, TLC

CONSTANTS
    ImportLists, ExportLists,  \* the function lists a source may have
    Definitions,               \* the definitions a type may have
    ClosureKey,                \* the key of moonbit:ffi.make_closure
    FeatureSets,               \* features only a later tool detects
    NoDefinition,              \* a function type
    Policies                   \* the value types that capability policies allow

ASSUME ListsAssumption ==
    /\ \A list \in ImportLists \cup ExportLists : list \in Seq(AbiFunctions)
    /\ \A list \in ExportLists : NamedOnce(list)

ASSUME DefinitionsAssumption == Definitions \ {NoDefinition} \subseteq AbiDefinitions

ASSUME FeaturesAssumption ==
    \A f \in FeatureSets : f \cap SupportedFeatures = {}

ASSUME PoliciesAssumption ==
    \A allowed \in Policies : allowed \subseteq {"ref", "ref null", "v128"}

VARIABLES
    source,     \* the ABI projected from the current artifact
    resources,  \* whether the artifact imports or exports more than functions
    policy,     \* what the capability policy allows
    lock,       \* the ABI in the lock of the last release
    host        \* the ABI in the lock the host was written against

vars == <<source, resources, policy, lock, host>>

released == <<policy, lock, host>>

Defined(types) == [id \in {n \in TypeIds : types[n] # NoDefinition} |-> types[id]]

\* detect_moonbit_features
Detected(imports) ==
    IF ClosureKey \in Declared(imports) THEN {"moonbit.make_closure"} ELSE {}

Abis == {[imports |-> i, exports |-> e, types |-> Defined(t), features |-> Detected(i)] :
             i \in ImportLists, e \in ExportLists, t \in [TypeIds -> Definitions]}

ChangeImports ==
    \E i \in ImportLists :
        /\ source' = [source EXCEPT !.imports = i,
                                    !.features = (@ \ SupportedFeatures) \cup Detected(i)]
        /\ UNCHANGED <<resources, released>>

ChangeExports ==
    \E e \in ExportLists :
        source' = [source EXCEPT !.exports = e] /\ UNCHANGED <<resources, released>>

\* A table, memory, global or tag becomes public, or the last one private.
ChangeResources == resources' = ~resources /\ UNCHANGED <<source, released>>

ChangeType(id) ==
    \E d \in Definitions :
        /\ source' = [source EXCEPT !.types =
              Defined([n \in TypeIds |->
                  IF n = id THEN d
                  ELSE IF n \in DOMAIN @ THEN @[n] ELSE NoDefinition])]
        /\ UNCHANGED <<resources, released>>

\* The artifact is projected by another version of the tool.
ChangeFeatures ==
    \E f \in FeatureSets :
        /\ source' = [source EXCEPT !.features = Detected(source.imports) \cup f]
        /\ UNCHANGED <<resources, released>>

\* classify_js_value_type
Unrepresentable(v) == v.type \in {"ref", "ref null", "v128", "unknown"} \ policy

\* analyze_host_abi gives diagnostics: something public is no function, or a
\* function's parameter or result has no representation.
Diagnosed ==
    \/ resources
    \/ \E f \in ToSet(source.imports \o source.exports) :
          \E v \in ToSet(f.params \o f.results) : Unrepresentable(v)

\* A wrong comparison that leaves the diagnostics out.
CompareUndiagnosed(surface) ==
    IF DecodesAsLockfile(lock) THEN CompareHostAbi(lock, source, surface) ELSE "undecodable"

\* The lock is decoded, and the artifact compared with it; a diagnostic is one
\* more unknown change.
Compare(surface) ==
    IF ~DecodesAsLockfile(lock) THEN "undecodable"
    ELSE IF Diagnosed THEN "unknown"
    ELSE CompareHostAbi(lock, source, surface)

Check == Compare("semantic")

\* `lock` refuses an artifact with diagnostics.
Lock(abi) == ~Diagnosed /\ abi = CanonicalizeHostAbi(source)

\* The artifact passes the check; it is released and locked.
Release == Check = "compatible" /\ Lock(lock') /\ UNCHANGED <<source, resources, policy, host>>

Init ==
    /\ source \in Abis /\ resources = FALSE /\ policy \in Policies
    /\ lock = CanonicalizeHostAbi(source) /\ Lock(lock)
    /\ host = lock

Next ==
    \/ ChangeImports \/ ChangeExports \/ (\E id \in TypeIds : ChangeType(id))
    \/ ChangeResources \/ ChangeFeatures \/ Release

Spec == Init /\ [][Next]_vars

=============================================================================
