---------------------------- MODULE ProjectGates ----------------------------
(***************************************************************************)
(* The files a project keeps beside its artifact, and the commands that    *)
(* write them and judge the artifact by them.  The artifact is rebuilt,    *)
(* files are edited, pasted and damaged, and older releases have left      *)
(* theirs; what the commands say depends on files of different ages.       *)
(*                                                                         *)
(* `of` in a file is the program whose artifact hash the file records.     *)
(***************************************************************************)
EXTENDS HostAbi, ResourceSurface, TLC

CONSTANTS
    Programs,         \* [imports, exports: functions, module: resources]
    ImportPath,       \* the text "module.name" of an import's key
    MakeClosure,      \* the key of moonbit:ffi.make_closure
    DraftNames,       \* TExtern0, TExtern1, ...
    GoodNames,        \* aliases a contract may use
    ResourceTypes,    \* aliases that name types of resource-aware adapters
    BadNames,         \* aliases that are keywords or generated names
    Absent, Damaged,  \* no file; a file that does not decode
    Kept              \* the sets of files a project keeps beside each other

ASSUME GoodNamesAssumption ==
    /\ GoodNames \cap BadNames = {} /\ ToSet(DraftNames) \subseteq GoodNames
    /\ ResourceTypes \subseteq GoodNames

VARIABLES
    program,    \* the program the artifact is built from
    lock,       \* of `lock`
    contract,   \* of functions, for `verify` and `generate`
    output,     \* the generated directory
    rlock,      \* of `resource-lock-v3` or `resource-lock-v4`
    rcontract   \* of resources

files == <<lock, contract, output, rlock, rcontract>>
vars == <<program, files>>

-----------------------------------------------------------------------------
(* Analysis of an artifact.                                                *)

Features(imports) ==
    IF MakeClosure \in Declared(imports) THEN {"moonbit.make_closure"} ELSE {}

AbiOf(p) ==
    [imports |-> SortAbiFunctions(p.imports), exports |-> SortAbiFunctions(p.exports),
     types |-> <<>>, features |-> Features(p.imports)]

\* A fingerprint is the canonical ABI.
Fingerprint(p) == CanonicalizeHostAbi(AbiOf(p))

FunctionsOf(p) == ToSet(p.imports \o p.exports)

Foreign(v) == v.type \in {"ref", "ref null", "v128", "unknown"}

\* Programs have functions, whose values have the id of a type only if they are
\* references, and resources.
ASSUME ProgramsAssumption ==
    \A p \in Programs :
        /\ p.imports \in Seq(AbiFunctions) /\ p.exports \in Seq(AbiFunctions)
        /\ \A f \in FunctionsOf(p) : \A v \in ToSet(f.params \o f.results) : IsRef(v) => Foreign(v)
        /\ IsModule(p.module)

HasForeignValue(p) == \E f \in FunctionsOf(p) : \E v \in ToSet(f.params \o f.results) : Foreign(v)

HasResources(p) == p.module.imports \o p.module.exports # <<>>

\* The analysis has diagnostics.
Diagnosed(p) == HasForeignValue(p) \/ HasResources(p)

-----------------------------------------------------------------------------
(* Contracts.                                                              *)

Positions(part, values, side) ==
    FlattenSeq([n \in DOMAIN values |->
        IF values[n].type = "externref" THEN << <<part, side, n>> >> ELSE <<>>])

BoundaryPositions(part, f) ==
    Positions(part, f.params, "params") \o Positions(part, f.results, "results")

ExternrefPaths(abi) ==
    FlattenSeq([n \in DOMAIN abi.imports |->
                  BoundaryPositions(<<"imports", ImportPath[abi.imports[n].key]>>, abi.imports[n])]) \o
    FlattenSeq([n \in DOMAIN abi.exports |->
                  BoundaryPositions(<<"exports", abi.exports[n].key>>, abi.exports[n])])

\* A wrong test that takes repeated paths for one.
AlwaysUnambiguous(abi) == abi = abi

Unambiguous(abi) == IsInjective(ExternrefPaths(abi))

\* A contract of the second version: aliases by path.
Named(abi, names) == [version |-> 2, abi |-> abi, names |-> names]

Draft(abi) ==
    LET paths == ExternrefPaths(abi)
    IN  Named(abi, [path \in ToSet(paths) |->
                      DraftNames[SelectInSeq(paths, LAMBDA q : q = path)]])

\* A wrong migration: contracts of the first version list only imports.
ImportsNamed(abi, file) ==
    IF file.generic = Absent THEN Draft(abi)
    ELSE Named(abi, [path \in {q \in ToSet(ExternrefPaths(abi)) : q[1][1] = "imports"} |-> file.generic])

\* Migration of the first version, whose alias is for all positions.
Migrate(abi, file) ==
    IF file.generic = Absent THEN Draft(abi)
    ELSE Named(abi, [path \in ToSet(ExternrefPaths(abi)) |-> file.generic])

FileFits(abi, file) ==
    /\ file.abi = abi
    /\ CASE file.version = 1 -> file.imports = abi.imports /\ file.generic \in GoodNames \cup {Absent}
         [] file.version = 2 -> /\ DOMAIN file.names = ToSet(ExternrefPaths(abi))
                                /\ \A path \in DOMAIN file.names : file.names[path] \in GoodNames

ContractDecodes(abi, file) ==
    /\ Unambiguous(abi)
    /\ file # Absent => file # Damaged /\ FileFits(abi, file)

\* The contract a command works with: a draft without a file.
Decoded(abi, file) ==
    IF file = Absent THEN Draft(abi)
    ELSE IF file.version = 1 THEN Migrate(abi, file) ELSE file

\* There is a draft name for every position.
ASSUME DraftNamesAssumption ==
    \A p \in Programs : \A path \in ToSet(ExternrefPaths(Fingerprint(p))) :
        Draft(Fingerprint(p)).names[path] \in ToSet(DraftNames)

\* No file and a file that does not decode are none that decodes.
ASSUME MarkersAssumption ==
    /\ Absent # Damaged
    /\ \A p \in Programs, marker \in {Absent, Damaged} :
          /\ marker # Fingerprint(p)
          /\ marker \notin [version : {2}, abi : {Fingerprint(p)},
                            names : [ToSet(ExternrefPaths(Fingerprint(p))) -> GoodNames]]
          /\ Projects(p.module) =>
                marker # [version |-> 4, surface |-> ProjectSurface(p.module), of |-> p.module]

-----------------------------------------------------------------------------
(* The generator.                                                          *)

ClosureFits(f) ==
    /\ f.params = <<Plain("funcref"), Plain("externref")>>
    /\ f.results = <<Plain("funcref")>>

Keys(functions) == [n \in DOMAIN functions |-> functions[n].key]

GeneratorAccepts(abi) ==
    /\ IsInjective(Keys(abi.imports)) /\ IsInjective(Keys(abi.exports))
    /\ \A f \in ToSet(abi.imports \o abi.exports) :
          \A v \in ToSet(f.params \o f.results) : ~Foreign(v)
    /\ \A f \in ToSet(abi.imports) : f.key = MakeClosure => ClosureFits(f)

Adapter(p, file) ==
    [abi |-> Fingerprint(p), contract |-> Decoded(Fingerprint(p), file), resources |-> Absent]

CanGenerate(abi, file) == ContractDecodes(abi, file) /\ GeneratorAccepts(abi)

\* `generate` without resources.
Generates(p, file) == ~Diagnosed(p) /\ CanGenerate(Fingerprint(p), file)

Representable(entry) ==
    LET scalar == {"i32", "i64", "f32", "f64", "externref"} IN
    CASE entry[1] = "memory" -> entry[3].flags \cap {"shared", "wide"} = {}
      [] entry[1] = "table"  -> "wide" \notin entry[3].flags /\ entry[3].value \in {"funcref", "externref"}
      [] entry[1] = "global" -> entry[3].value \in scalar
      [] entry[1] = "tag"    -> ToSet(entry[3]) \subseteq scalar

\* The surface a contract speaks of, in the current form.
ContractSurface(file) == IF file.version = 5 THEN file.surface ELSE LiftLegacy(file.surface)

ResourceContractFits(p, file) ==
    /\ file # Damaged /\ Projects(p.module)
    /\ file.version = 4 => LegacyDecodes(file.surface)
    /\ ContractSurface(file).unsupported = {}
    /\ ContractSurface(file) = ProjectSurface(p.module)

\* `generate --resource-contract`.
GeneratesWithResources(p, file, rfile) ==
    /\ ~HasForeignValue(p) /\ ResourceContractFits(p, rfile)
    /\ CanGenerate(Fingerprint(p), file)
    /\ Range(Decoded(Fingerprint(p), file).names) \cap ResourceTypes = {}
    /\ \A entry \in ProjectSurface(p.module).entries : Representable(entry)

-----------------------------------------------------------------------------
(* Exit codes of the commands that judge.                                  *)

Comparison(baseline, p) ==
    IF Diagnosed(p) THEN "unknown" ELSE CompareHostAbi(baseline, AbiOf(p), "semantic")

CheckExit(baseline, p) ==
    LET outcome == IF baseline = Damaged THEN "unknown" ELSE Comparison(baseline, p)
    IN  [unknown |-> 3, breaking |-> 2, compatible |-> 0][outcome]

\* A wrong precedence: the adapter matters if nothing else is wrong.
BreakingFirst(check, generates) == IF check = 0 /\ ~generates THEN 4 ELSE check

OutcomeFromSections(check, generates) == IF check # 3 /\ ~generates THEN 4 ELSE check

VerifyExit(baseline, p, file) ==
    OutcomeFromSections(CheckExit(baseline, p), CanGenerate(Fingerprint(p), file))

LockDecodesAs(file) == IF file.version = 4 THEN file.surface ELSE LiftLegacy(file.surface)

ResourceVerifyExit(file, p) ==
    IF file = Damaged \/ (file.version = 3 /\ ~LegacyDecodes(file.surface)) \/ ~Projects(p.module)
    THEN 3
    ELSE LET outcome == CompareSurfaces(LockDecodesAs(file), ProjectSurface(p.module))
         IN  CASE outcome = "unknown" -> 3 [] outcome = "breaking" -> 2 [] OTHER -> 0

-----------------------------------------------------------------------------
(* Commands that write.  None overwrites a file.                           *)

Present ==
    {slot \in DOMAIN files : files[slot] # Absent}

\* Positions of the files in `files`.
Slots == [lock |-> 1, contract |-> 2, output |-> 3, rlock |-> 4, rcontract |-> 5]

\* There may be this file beside the others.
Room(slot) ==
    /\ files[Slots[slot]] = Absent
    /\ \E kept \in Kept : Present \cup {Slots[slot]} \subseteq {Slots[s] : s \in kept}

Lock ==
    /\ Room("lock") /\ ~Diagnosed(program)
    /\ lock' = Fingerprint(program)
    /\ UNCHANGED <<program, contract, output, rlock, rcontract>>

ResourceFile(version, surface) ==
    [version |-> version, surface |-> surface, of |-> program.module]

ResourceLock ==
    /\ Room("rlock") /\ Projects(program.module)
    /\ rlock' \in {ResourceFile(3, LegacySurface(program.module)),
                   ResourceFile(4, ProjectSurface(program.module))}
    /\ UNCHANGED <<program, lock, contract, output, rcontract>>

ResourceContract ==
    /\ Room("rcontract") /\ Projects(program.module)
    /\ ProjectSurface(program.module).unsupported = {}
    /\ rcontract' = ResourceFile(5, ProjectSurface(program.module))
    /\ UNCHANGED <<program, lock, contract, output, rlock>>

Generate(file) ==
    /\ Room("output") /\ Generates(program, file)
    /\ output' = Adapter(program, file)
    /\ UNCHANGED <<program, lock, contract, rlock, rcontract>>

GenerateWithResources(file) ==
    /\ Room("output")
    /\ rcontract # Absent /\ GeneratesWithResources(program, file, rcontract)
    /\ output' = [Adapter(program, file) EXCEPT !.resources = ProjectSurface(program.module)]
    /\ UNCHANGED <<program, lock, contract, rlock, rcontract>>

Update ==
    /\ output # Absent /\ output.abi = Fingerprint(program) /\ output.resources = Absent
    /\ Generates(program, output.contract)
    /\ output' = Adapter(program, output.contract)
    /\ UNCHANGED <<program, lock, contract, rlock, rcontract>>

-----------------------------------------------------------------------------
(* The project.                                                            *)

Rebuild ==
    program' \in Programs /\ UNCHANGED files

KeepContract ==
    /\ Room("contract") /\ output # Absent
    /\ contract' = output.contract
    /\ UNCHANGED <<program, lock, output, rlock, rcontract>>

\* An earlier release of the tool wrote the contract for this program.
OlderContract ==
    /\ Room("contract")
    /\ \E generic \in {Absent} \cup GoodNames \cup BadNames :
          contract' = [version |-> 1, abi |-> Fingerprint(program),
                       imports |-> Fingerprint(program).imports, generic |-> generic]
    /\ UNCHANGED <<program, lock, output, rlock, rcontract>>

Readable(file) == file # Absent /\ file # Damaged

\* A developer names a position, or all by a contract of the first version.
NamePosition ==
    /\ Readable(contract) /\ contract.version = 2
    /\ \E path \in DOMAIN contract.names, name \in GoodNames \cup BadNames :
          contract' = [contract EXCEPT !.names[path] = name]
    /\ UNCHANGED <<program, lock, output, rlock, rcontract>>

\* A developer pastes the fingerprint of this program into the contract.
PasteFingerprint ==
    /\ Readable(contract)
    /\ contract' = [contract EXCEPT !.abi = Fingerprint(program)]
    /\ UNCHANGED <<program, lock, output, rlock, rcontract>>

\* An earlier release, or a program that uses the library, wrote a legacy file.
OlderResourceFile ==
    /\ Projects(program.module)
    /\ \/ /\ Room("rlock")
          /\ rlock' = ResourceFile(3, OlderSurface(program.module))
          /\ UNCHANGED rcontract
       \/ /\ Room("rcontract")
          /\ rcontract' \in {ResourceFile(4, OlderSurface(program.module)),
                             ResourceFile(4, LegacySurface(program.module))}
          /\ UNCHANGED rlock
    /\ UNCHANGED <<program, lock, contract, output>>

\* A file is damaged.
Damage ==
    \/ Readable(lock) /\ lock' = Damaged /\ UNCHANGED <<program, contract, output, rlock, rcontract>>
    \/ Readable(contract) /\ contract' = Damaged /\ UNCHANGED <<program, lock, output, rlock, rcontract>>
    \/ Readable(rlock) /\ rlock' = Damaged /\ UNCHANGED <<program, lock, contract, output, rcontract>>
    \/ Readable(rcontract) /\ rcontract' = Damaged /\ UNCHANGED <<program, lock, contract, output, rlock>>

\* A file is removed, or the output.
RemoveFile ==
    \/ lock # Absent /\ lock' = Absent /\ UNCHANGED <<program, contract, output, rlock, rcontract>>
    \/ contract # Absent /\ contract' = Absent /\ UNCHANGED <<program, lock, output, rlock, rcontract>>
    \/ output # Absent /\ output' = Absent /\ UNCHANGED <<program, lock, contract, rlock, rcontract>>
    \/ rlock # Absent /\ rlock' = Absent /\ UNCHANGED <<program, lock, contract, output, rcontract>>
    \/ rcontract # Absent /\ rcontract' = Absent /\ UNCHANGED <<program, lock, contract, output, rlock>>

-----------------------------------------------------------------------------

Init ==
    /\ program \in Programs
    /\ lock = Absent /\ contract = Absent /\ output = Absent
    /\ rlock = Absent /\ rcontract = Absent

Next ==
    \/ Lock \/ ResourceLock \/ ResourceContract \/ Update
    \/ \E file \in {Absent, contract} : Generate(file) \/ GenerateWithResources(file)
    \/ Rebuild \/ KeepContract \/ OlderContract \/ NamePosition \/ PasteFingerprint
    \/ OlderResourceFile \/ Damage \/ RemoveFile

Spec == Init /\ [][Next]_vars
=============================================================================
