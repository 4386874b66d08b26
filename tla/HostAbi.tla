------------------------------ MODULE HostAbi ------------------------------
(***************************************************************************)
(* Host ABI values, their canonical form, and the comparison of two of     *)
(* them.  An ABI has lists of imported and exported functions, definitions *)
(* of the GC types these reach, and features.  Types are named by numbers: *)
(* indices of the artifact in a projected ABI, positions of first          *)
(* reachability in a canonical one.                                        *)
(*                                                                         *)
(* A key is the rank of an import's module and name, or of an export's     *)
(* name, in text order.  A fingerprint is the canonical ABI it is the hash *)
(* of.  A reference to a type without a definition is one to a function    *)
(* type, which projection leaves out.                                      *)
(***************************************************************************)
EXTENDS Naturals, Sequences, FiniteSets, SequencesExt

CONSTANT TypeIds

ASSUME TypeIdsAssumption ==
    IsFiniteSet(TypeIds) /\ TypeIds = 1..Cardinality(TypeIds)

\* The texts of value types, in order; "ref" and "ref null" have an id.
ValueTypes == <<"externref", "f32", "f64", "funcref", "i32", "i64",
                "packed i16", "packed i8", "ref null", "ref", "unknown", "v128">>

Plain(t) == [type |-> t, id |-> 0]
Ref(n) == [type |-> "ref", id |-> n]

AbiValues == [type : ToSet(ValueTypes), id : {0} \cup TypeIds]

AbiFunctions == [key : Nat, params : Seq(AbiValues), results : Seq(AbiValues)]

AbiDefinitions ==
    [kind : STRING, supertypes : Seq(TypeIds), final : BOOLEAN,
     fields : Seq([storage : AbiValues, mutable : BOOLEAN])]

-----------------------------------------------------------------------------
(* The order of functions.                                                 *)

ValueText(v) == <<1, CHOOSE n \in DOMAIN ValueTypes : ValueTypes[n] = v.type, v.id>>

ListText(values) == FlattenSeq([n \in DOMAIN values |-> ValueText(values[n])])

StableText(f) == <<f.key>> \o ListText(f.params) \o <<0>> \o ListText(f.results)

TextBefore(s, t) ==
    \E n \in DOMAIN t :
        /\ \A m \in 1..(n - 1) : m \in DOMAIN s /\ s[m] = t[m]
        /\ n \in DOMAIN s => s[n] < t[n]

\* A wrong order: none.
AsDeclared(functions) == functions

SortAbiFunctions(functions) ==
    LET Text(n) == StableText(functions[n])
        order == CHOOSE p \in Injection(DOMAIN functions, DOMAIN functions) :
                     \A m, n \in DOMAIN functions :
                         m < n => TextBefore(Text(p[m]), Text(p[n])) \/ Text(p[m]) = Text(p[n])
    IN  [n \in DOMAIN functions |-> functions[order[n]]]

-----------------------------------------------------------------------------
(* Canonical numbers.                                                      *)

IsRef(v) == v.id # 0

\* The types a list of values names, in order.
RefsIn(values) ==
    FlattenSeq([n \in DOMAIN values |-> IF IsRef(values[n]) THEN <<values[n].id>> ELSE <<>>])

FunctionRefs(functions) ==
    FlattenSeq([n \in DOMAIN functions |->
                  RefsIn(functions[n].params) \o RefsIn(functions[n].results)])

Storages(def) == [n \in DOMAIN def.fields |-> def.fields[n].storage]

DefinitionRefs(def) == def.supertypes \o RefsIn(Storages(def))

\* assign_canonical_id for each of a list of types.
Assign(worklist, ids) ==
    FoldLeft(LAMBDA list, id : IF Contains(list, id) THEN list ELSE Append(list, id),
             worklist, ids)

Roots(abi) ==
    FunctionRefs(SortAbiFunctions(abi.imports) \o SortAbiFunctions(abi.exports))

\* The worklist after the definition at each position has been scanned.
Worklist(abi) ==
    LET scanned[n \in 0..Cardinality(TypeIds)] ==
            IF n = 0 THEN Assign(<<>>, Roots(abi))
            ELSE LET list == scanned[n - 1]
                 IN  IF n \in DOMAIN list /\ list[n] \in DOMAIN abi.types
                     THEN Assign(list, DefinitionRefs(abi.types[list[n]]))
                     ELSE list
    IN  scanned[Cardinality(TypeIds)]

RenameValue(v, number) == IF IsRef(v) THEN [v EXCEPT !.id = number[@]] ELSE v

RenameValues(values, number) ==
    [n \in DOMAIN values |-> RenameValue(values[n], number)]

RenameFunctions(functions, number) ==
    [n \in DOMAIN functions |->
        [functions[n] EXCEPT !.params = RenameValues(@, number),
                             !.results = RenameValues(@, number)]]

RenameField(field, number) == [field EXCEPT !.storage = RenameValue(@, number)]

RenameDefinition(def, number) ==
    [def EXCEPT
        !.supertypes = [n \in DOMAIN @ |-> number[@[n]]],
        !.fields = [n \in DOMAIN @ |-> RenameField(@[n], number)]]

\* An ABI with types numbered by their positions in `order`.
Renumber(abi, order) ==
    LET number == [id \in ToSet(order) |-> CHOOSE n \in DOMAIN order : order[n] = id]
    IN  [abi EXCEPT
            !.imports = RenameFunctions(SortAbiFunctions(@), number),
            !.exports = RenameFunctions(SortAbiFunctions(@), number),
            !.types = [n \in {m \in DOMAIN order : order[m] \in DOMAIN @} |->
                         RenameDefinition(@[order[n]], number)]]

CanonicalizeHostAbi(abi) == Renumber(abi, Worklist(abi))

\* decode_lockfile accepts canonical ABIs only.
DecodesAsLockfile(abi) == CanonicalizeHostAbi(abi) = abi

-----------------------------------------------------------------------------
(* Comparison.                                                             *)

Declared(functions) == {functions[n].key : n \in DOMAIN functions}

NamedOnce(functions) ==
    \A m, n \in DOMAIN functions : functions[m].key = functions[n].key => m = n

Find(functions, key) ==
    functions[SelectInSeq(functions, LAMBDA f : f.key = key)]

OnlyIn(functions, others) == Declared(functions) \ Declared(others) # {}

BreakingSurfaceChange(baseline, current, policy) ==
    \/ OnlyIn(current.imports, baseline.imports)
    \/ OnlyIn(baseline.exports, current.exports)
    \/ /\ policy = "strict"
       /\ \/ OnlyIn(baseline.imports, current.imports)
          \/ OnlyIn(current.exports, baseline.exports)

\* A wrong surface that numbers types through all functions.
WholeSurface(source, other) == source

\* The functions that the others have too.
Common(functions, others) ==
    FlattenSeq([n \in DOMAIN functions |->
        IF functions[n].key \in Declared(others) THEN <<functions[n]>> ELSE <<>>])

CommonSurface(source, other) ==
    [source EXCEPT !.imports = Common(@, other.imports),
                   !.exports = Common(@, other.exports), !.features = {}]

SignatureChange(functions, others) ==
    \E n \in DOMAIN functions :
        LET f == functions[n]
        IN  /\ f.key \in Declared(others)
            /\ \/ f.params # Find(others, f.key).params
               \/ f.results # Find(others, f.key).results

\* A wrong comparison that looks at functions only.
BoundaryOnly(baseline, current) ==
    \/ SignatureChange(baseline.imports, current.imports)
    \/ SignatureChange(baseline.exports, current.exports)

BreakingCommonChange(baseline, current) ==
    \/ SignatureChange(baseline.imports, current.imports)
    \/ SignatureChange(baseline.exports, current.exports)
    \/ baseline.types # current.types

SupportedFeatures == {"moonbit.make_closure"}

UnknownIn(functions) ==
    \E n \in DOMAIN functions :
        LET f == functions[n] IN \E v \in ToSet(f.params \o f.results) : v.type = "unknown"

UnknownValue(abi) ==
    LET canonical == CanonicalizeHostAbi(abi)
    IN  \/ UnknownIn(canonical.imports) \/ UnknownIn(canonical.exports)
        \/ \E n \in DOMAIN canonical.types :
              \E v \in ToSet(Storages(canonical.types[n])) : v.type = "unknown"

UnknownFound(baseline, current) ==
    \/ ~(baseline.features \cup current.features \subseteq SupportedFeatures)
    \/ UnknownValue(current) \/ UnknownValue(baseline)

BreakingFound(baseline, current, policy) ==
    \/ BreakingSurfaceChange(baseline, current, policy)
    \/ BreakingCommonChange(CanonicalizeHostAbi(CommonSurface(baseline, current)),
                            CanonicalizeHostAbi(CommonSurface(current, baseline)))

CompareHostAbi(baseline, current, policy) ==
    IF UnknownFound(baseline, current) THEN "unknown"
    ELSE IF BreakingFound(baseline, current, policy) THEN "breaking"
    ELSE "compatible"
=============================================================================
