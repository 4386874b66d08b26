----------------------------- MODULE GateProofs -----------------------------
(***************************************************************************)
(* Theorems about ProjectGates, for any programs, names and files.         *)
(***************************************************************************)
EXTENDS GateProperties, TLAPS, FiniteSetTheorems, FunctionTheorems

-----------------------------------------------------------------------------
(* Contracts.                                                              *)

\* The fields of a contract of the second version.
LEMMA NamedFields ==
    ASSUME NEW abi, NEW names
    PROVE  /\ Named(abi, names).version = 2 /\ Named(abi, names).abi = abi
           /\ Named(abi, names).names = names
BY DEF Named

\* A draft names the positions of its program's ABI.
LEMMA DraftNamesPositions ==
    ASSUME NEW p \in Programs
    PROVE  \E names \in Names(Fingerprint(p)) :
              Draft(Fingerprint(p)) = Named(Fingerprint(p), names)
<1> DEFINE abi == Fingerprint(p)
           paths == ExternrefPaths(abi)
           names == [path \in ToSet(paths) |->
                        DraftNames[SelectInSeq(paths, LAMBDA q : q = path)]]
<1>1. Draft(abi) = Named(abi, names)
  BY DEF Draft
<1>2. Draft(abi).names = names
  <2> HIDE DEF names
  <2>1. QED
    BY <1>1, NamedFields
<1>3. \A path \in ToSet(paths) : names[path] \in GoodNames
  <2>1. \A path \in ToSet(paths) : Draft(abi).names[path] \in ToSet(DraftNames)
    BY DraftNamesAssumption
  <2> HIDE DEF names, paths
  <2>2. QED
    BY <1>2, <2>1, GoodNamesAssumption
<1>4. names \in Names(abi)
  <2>1. names = [path \in ToSet(paths) |-> names[path]]
    OBVIOUS
  <2> HIDE DEF names
  <2>2. QED
    BY <1>3, <2>1 DEF Names
<1> HIDE DEF names
<1>5. QED
  BY <1>1, <1>4

\* What a command works with names them, wherever the contract is from.
LEMMA DecodedNamesPositions ==
    ASSUME NEW p \in Programs, NEW file, ContractDecodes(Fingerprint(p), file),
           file # Absent => file.version = 1 \/ SecondVersion(file)
    PROVE  \E names \in Names(Fingerprint(p)) :
              Decoded(Fingerprint(p), file) = Named(Fingerprint(p), names)
<1> DEFINE abi == Fingerprint(p)
<1>1. CASE file = Absent
  BY <1>1, DraftNamesPositions DEF Decoded
<1>2. CASE file # Absent /\ file.version = 1
  <2>1. file.generic \in GoodNames \cup {Absent}
    BY <1>2 DEF ContractDecodes, FileFits
  <2>2. Decoded(abi, file) = Migrate(abi, file)
    BY <1>2 DEF Decoded
  <2>3. CASE file.generic = Absent
    BY <2>2, <2>3, DraftNamesPositions DEF Migrate
  <2>4. CASE file.generic # Absent
    <3> DEFINE names == [path \in ToSet(ExternrefPaths(abi)) |-> file.generic]
    <3>1. Decoded(abi, file) = Named(abi, names)
      BY <2>2, <2>4 DEF Migrate
    <3>2. names \in Names(abi)
      BY <2>1, <2>4 DEF Names
    <3> HIDE DEF names
    <3>3. QED
      BY <3>1, <3>2
  <2>5. QED
    BY <2>3, <2>4
<1>3. CASE file # Absent /\ file.version # 1 /\ SecondVersion(file)
  <2>1. /\ file.version = 2 /\ file = Named(file.abi, file.names)
        /\ file.names = [path \in DOMAIN file.names |-> file.names[path]]
    BY <1>3 DEF SecondVersion, Named
  <2>2. /\ file.abi = abi /\ DOMAIN file.names = ToSet(ExternrefPaths(abi))
        /\ \A path \in DOMAIN file.names : file.names[path] \in GoodNames
    BY <1>3, <2>1 DEF ContractDecodes, FileFits
  <2>3. Decoded(abi, file) = file
    BY <1>3 DEF Decoded
  <2>4. file.names \in Names(abi)
    BY <2>1, <2>2 DEF Names
  <2>5. QED
    BY <2>1, <2>2, <2>3, <2>4
<1>4. QED
  BY <1>1, <1>2, <1>3

\* What `generate` and `--update` publish.
LEMMA GeneratedOutput ==
    ASSUME NEW p \in Programs, NEW file, CanGenerate(Fingerprint(p), file),
           file # Absent => file.version = 1 \/ SecondVersion(file),
           ~HasForeignValue(p), NEW resources,
           output' = [Adapter(p, file) EXCEPT !.resources = resources]
    PROVE  OutputInv'
<1>1. PICK names \in Names(Fingerprint(p)) :
          Decoded(Fingerprint(p), file) = Named(Fingerprint(p), names)
  BY DecodedNamesPositions DEF CanGenerate
<1>2. output' = [abi |-> Fingerprint(p), contract |-> Named(Fingerprint(p), names),
                 resources |-> resources]
  BY <1>1 DEF Adapter
<1>3. output' = [abi |-> Fingerprint(p), contract |-> Named(Fingerprint(p), names),
                 resources |-> output'.resources]
  BY <1>2
<1>4. Unambiguous(Fingerprint(p)) /\ GeneratorAccepts(Fingerprint(p))
  BY DEF CanGenerate, ContractDecodes
<1>5. QED
  BY <1>3, <1>4, Zenon DEF OutputInv

\* A contract of the second version in an output is one that can be kept.
LEMMA OutputContract ==
    ASSUME OutputInv, output # Absent
    PROVE  SecondVersion(output.contract) /\ Readable(output.contract)
<1>1. PICK p \in Programs :
          \E names \in Names(Fingerprint(p)) : output.contract = Named(Fingerprint(p), names)
  BY DEF OutputInv
<1>2. PICK names \in Names(Fingerprint(p)) : output.contract = Named(Fingerprint(p), names)
  BY <1>1
<1>3. SecondVersion(output.contract)
  <2>1. names = [path \in DOMAIN names |-> names[path]]
    BY DEF Names
  <2>2. output.contract.abi = Fingerprint(p) /\ output.contract.names = names
    BY <1>2, NamedFields
  <2>3. QED
    BY <1>2, <2>1, <2>2, Zenon DEF SecondVersion
<1>4. output.contract \in [version : {2}, abi : {Fingerprint(p)},
                           names : [ToSet(ExternrefPaths(Fingerprint(p))) -> GoodNames]]
  BY <1>2 DEF Named, Names
<1>5. QED
  BY <1>3, <1>4, MarkersAssumption DEF Readable

-----------------------------------------------------------------------------
(* Resource files.                                                         *)

\* Where the lift of an older surface leaves nothing out, it is the current one.
LEMMA LiftIsExact ==
    ASSUME NEW m, NEW legacy \in {LegacySurface(m), OlderSurface(m)},
           LiftLegacy(legacy).unsupported = {}
    PROVE  LiftLegacy(legacy) = ProjectSurface(m)
<1>1. \A item \in Boundary(m) : Resolved(m, item)[1] = item[1]
  BY DEF Boundary, Resolved
<1>2. legacy.tags = Tags(m) /\ legacy.unsupported = {}
      /\ \A e \in legacy.entries : Normalizable(e)
  BY DEF LiftLegacy, LegacySurface, OlderSurface
<1>3. Tags(m) = {}
  BY <1>2 DEF LiftLegacy
<1>4. \A item \in Boundary(m) : item[1] # "tag" /\ Resolved(m, item) = item
  BY <1>3 DEF Tags, Resolved
<1>5. {Resolved(m, item) : item \in Boundary(m)} = Boundary(m)
  BY <1>4
<1>6. ProjectSurface(m) =
          [entries |-> {item \in Boundary(m) : Normalizable(item)},
           unsupported |-> {item[2] : item \in {i \in Boundary(m) : ~Normalizable(i)}}]
  BY <1>5 DEF ProjectSurface
<1>7. LiftLegacy(legacy) = [entries |-> legacy.entries, unsupported |-> {}]
  BY <1>2, <1>3 DEF LiftLegacy
<1>8. CASE legacy = LegacySurface(m)
  <2>1. ProjectSurface(m).unsupported = {}
    BY <1>2, <1>8 DEF LegacySurface
  <2>2. legacy.entries = {e \in ProjectSurface(m).entries : e[1] # "tag"}
    BY <1>8 DEF LegacySurface
  <2>3. legacy.entries = ProjectSurface(m).entries
    BY <1>4, <1>6, <2>2
  <2>4. QED
    BY <1>6, <1>7, <2>1, <2>3
<1>9. CASE legacy = OlderSurface(m)
  <2>1. legacy.entries = Boundary(m)
    BY <1>3, <1>9 DEF OlderSurface
  <2>2. \A item \in Boundary(m) : Normalizable(item)
    BY <1>2, <2>1
  <2>3. QED
    BY <1>6, <1>7, <2>1, <2>2
<1>10. QED
  BY <1>8, <1>9

-----------------------------------------------------------------------------
(* The invariant.                                                          *)

\* At first no file lies beside the artifact.
LEMMA InitFiles == Init => FilesInv
BY DEF Init, FilesInv, LockInv, ContractInv, OutputInv, ResourceFilesInv, Truthful, Readable

\* What a command is given is a draft or the contract of the project.
LEMMA GivenContract ==
    ASSUME ContractInv, NEW file \in {Absent, contract}, NEW abi, ContractDecodes(abi, file)
    PROVE  file # Absent => file.version = 1 \/ SecondVersion(file)
BY DEF ContractInv, FirstVersion, ContractDecodes, Readable

\* The fields of a file of resources.
LEMMA WritesResourceFile ==
    ASSUME NEW version, NEW surface
    PROVE  LET file == ResourceFile(version, surface)
           IN  file.version = version /\ file.surface = surface /\ file.of = program.module
BY DEF ResourceFile

\* What commands write that do not read a contract from the project.
LEMMA CommandsKeepFiles ==
    ASSUME FilesInv, Lock \/ ResourceLock \/ ResourceContract \/ Update
    PROVE  FilesInv'
<1> USE DEF FilesInv, ResourceFilesInv
<1>1. CASE Lock
  <2>1. LockInv'
    BY <1>1 DEF Lock, LockInv
  <2>2. QED
    BY <1>1, <2>1 DEF Lock, ContractInv, OutputInv, Truthful
<1>2. CASE ResourceLock
  <2>1. /\ program' = program /\ LockInv' /\ ContractInv' /\ OutputInv'
        /\ Truthful(rcontract, 5)' /\ rcontract' = rcontract
    BY <1>2 DEF ResourceLock, LockInv, ContractInv, OutputInv, Truthful
  <2>2. Truthful(rlock, 4)'
    BY <1>2, WritesResourceFile DEF ResourceLock, Truthful
  <2>3. QED
    BY <2>1, <2>2
<1>3. CASE ResourceContract
  <2>1. program' = program /\ LockInv' /\ ContractInv' /\ OutputInv' /\ Truthful(rlock, 4)'
    BY <1>3 DEF ResourceContract, LockInv, ContractInv, OutputInv, Truthful
  <2>2. /\ Truthful(rcontract, 5)'
        /\ rcontract'.surface.unsupported = {}
    BY <1>3, WritesResourceFile DEF ResourceContract, Truthful
  <2>3. QED
    BY <2>1, <2>2
<1>4. CASE Update
  <2>1. program' = program /\ LockInv' /\ ContractInv' /\ ResourceFilesInv'
    BY <1>4 DEF Update, LockInv, ContractInv, Truthful
  <2>2. output.contract # Absent => output.contract.version = 1 \/ SecondVersion(output.contract)
    BY <1>4, OutputContract DEF Update
  <2>3. output' = [Adapter(program, output.contract) EXCEPT !.resources = Absent]
    BY <1>4 DEF Update, Adapter
  <2>4. OutputInv'
    BY <1>4, <2>2, <2>3, GeneratedOutput DEF Update, Generates, Diagnosed
  <2>5. QED
    BY <2>1, <2>4
<1>5. QED
  BY <1>1, <1>2, <1>3, <1>4

\* What the generators write.
LEMMA GeneratorsKeepFiles ==
    ASSUME FilesInv, NEW file \in {Absent, contract},
           Generate(file) \/ GenerateWithResources(file)
    PROVE  FilesInv'
<1> USE DEF FilesInv
<1>1. program' = program /\ LockInv' /\ ContractInv' /\ ResourceFilesInv'
  BY DEF Generate, GenerateWithResources, LockInv, ContractInv, ResourceFilesInv, Truthful
<1>2. CanGenerate(Fingerprint(program), file) /\ ~HasForeignValue(program)
  BY DEF Generate, GenerateWithResources, Generates, GeneratesWithResources, Diagnosed
<1>3. file # Absent => file.version = 1 \/ SecondVersion(file)
  BY <1>2, GivenContract DEF CanGenerate
<1>4. \E resources : output' = [Adapter(program, file) EXCEPT !.resources = resources]
  <2>1. CASE Generate(file)
    <3>1. output' = [Adapter(program, file) EXCEPT !.resources = Absent]
      BY <2>1 DEF Generate, Adapter
    <3>2. QED
      BY <3>1
  <2>2. CASE GenerateWithResources(file)
    BY <2>2 DEF GenerateWithResources
  <2>3. QED
    BY <2>1, <2>2
<1>5. OutputInv'
  BY <1>2, <1>3, <1>4, GeneratedOutput
<1>6. QED
  BY <1>1, <1>5

\* What happens to contracts.
LEMMA ContractsKeepFiles ==
    ASSUME FilesInv, KeepContract \/ OlderContract \/ NamePosition \/ PasteFingerprint
    PROVE  FilesInv'
<1> USE DEF FilesInv
<1>1. program' = program /\ LockInv' /\ OutputInv' /\ ResourceFilesInv'
  BY DEF KeepContract, OlderContract, NamePosition, PasteFingerprint, LockInv, OutputInv,
         ResourceFilesInv, Truthful
<1>2. ContractInv'
  <2>1. CASE KeepContract
    BY <2>1, OutputContract DEF KeepContract, ContractInv, SecondVersion
  <2>2. CASE OlderContract
    BY <2>2 DEF OlderContract, ContractInv, FirstVersion
  <2>3. CASE NamePosition
    <3>1. SecondVersion(contract)
      BY <2>3 DEF NamePosition, ContractInv, FirstVersion
    <3>2. PICK path \in DOMAIN contract.names, name \in GoodNames \cup BadNames :
              contract' = [contract EXCEPT !.names[path] = name]
      BY <2>3 DEF NamePosition
    <3>3. SecondVersion(contract)'
      BY <3>1, <3>2 DEF SecondVersion, Named
    <3>4. QED
      BY <3>3 DEF ContractInv
  <2>4. CASE PasteFingerprint
    <3>1. FirstVersion(contract) => FirstVersion(contract)'
      BY <2>4 DEF PasteFingerprint, FirstVersion
    <3>2. SecondVersion(contract) => SecondVersion(contract)'
      BY <2>4 DEF PasteFingerprint, SecondVersion, Named
    <3>3. QED
      BY <2>4, <3>1, <3>2 DEF PasteFingerprint, ContractInv
  <2>5. QED
    BY <2>1, <2>2, <2>3, <2>4
<1>3. QED
  BY <1>1, <1>2

\* What happens to the artifact and to other files.
LEMMA ProjectKeepsFiles ==
    ASSUME FilesInv, Rebuild \/ OlderResourceFile \/ Damage \/ RemoveFile \/ UNCHANGED vars
    PROVE  FilesInv'
<1> USE DEF FilesInv, ResourceFilesInv
<1>1. CASE Rebuild \/ UNCHANGED vars
  BY <1>1 DEF Rebuild, vars, files, LockInv, ContractInv, OutputInv, Truthful
<1>2. CASE OlderResourceFile
  <2>1. program' = program /\ LockInv' /\ ContractInv' /\ OutputInv'
    BY <1>2 DEF OlderResourceFile, LockInv, ContractInv, OutputInv
  <2>2. Truthful(rlock, 4)'
    BY <1>2, WritesResourceFile DEF OlderResourceFile, Truthful
  <2>3. Truthful(rcontract, 5)'
    BY <1>2, WritesResourceFile DEF OlderResourceFile, Truthful
  <2>4. (Readable(rcontract) /\ rcontract.version = 5 => rcontract.surface.unsupported = {})'
    BY <1>2, WritesResourceFile DEF OlderResourceFile
  <2>5. QED
    BY <2>1, <2>2, <2>3, <2>4
<1>3. CASE Damage
  BY <1>3 DEF Damage, LockInv, ContractInv, OutputInv, Truthful, Readable
<1>4. CASE RemoveFile
  BY <1>4 DEF RemoveFile, LockInv, ContractInv, OutputInv, Truthful, Readable
<1>5. QED
  BY <1>1, <1>2, <1>3, <1>4

\* Whatever was locked, generated, named, pasted, rebuilt, damaged or removed,
\* and in which order: the contract of an output names the positions of an ABI
\* of one program, and a file of resources tells the truth about the program
\* whose hash it has.
THEOREM FilesInvariant == Spec => []FilesInv
<1>1. FilesInv /\ [Next]_vars => FilesInv'
  BY CommandsKeepFiles, GeneratorsKeepFiles, ContractsKeepFiles, ProjectKeepsFiles DEF Next
<1>2. QED
  BY InitFiles, <1>1, PTL DEF Spec

-----------------------------------------------------------------------------
(* What the commands say.                                                  *)

\* Whichever contract an output was generated from, migrated or not, `--update`
\* accepts the one written to it and reproduces the output, on every rebuild
\* with the same ABI (README.md 189-191).
THEOREM OutputsRegenerate == Spec => []OutputRegenerates
<1>1. FilesInv => OutputRegenerates
  <2> SUFFICES ASSUME FilesInv, output # Absent, output.resources = Absent,
                      output.abi = Fingerprint(program), ~Diagnosed(program)
               PROVE  /\ Generates(program, output.contract)
                      /\ Adapter(program, output.contract) = output
    BY DEF OutputRegenerates
  <2> DEFINE abi == Fingerprint(program)
             file == output.contract
  <2>1. PICK names \in Names(abi) :
            output = [abi |-> abi, contract |-> Named(abi, names), resources |-> Absent]
    BY DEF FilesInv, OutputInv
  <2>2. Unambiguous(abi) /\ GeneratorAccepts(abi)
    BY DEF FilesInv, OutputInv
  <2>3. Readable(file)
    BY OutputContract DEF FilesInv
  <2>4. file.version = 2 /\ file.abi = abi /\ file.names = names
    BY <2>1, NamedFields
  <2>5. FileFits(abi, file)
    BY <2>4 DEF FileFits, Names
  <2>6. CanGenerate(abi, file)
    BY <2>2, <2>3, <2>5 DEF CanGenerate, ContractDecodes, Readable
  <2>7. Decoded(abi, file) = file
    BY <2>3, <2>4 DEF Decoded, Readable
  <2>8. Adapter(program, file) = output
    BY <2>1, <2>7 DEF Adapter
  <2>9. QED
    BY <2>6, <2>8 DEF Generates
<1>2. QED
  BY <1>1, FilesInvariant, PTL

\* Surfaces are compatible if they are one and have no unspelled types.
LEMMA CompatibleSurfaces ==
    ASSUME NEW m, NEW n
    PROVE  CompareSurfaces(ProjectSurface(m), ProjectSurface(n)) = "compatible"
             <=> ProjectSurface(n).unsupported = {} /\ ProjectSurface(m) = ProjectSurface(n)
<1>1. \A k : ProjectSurface(k) = [entries |-> ProjectSurface(k).entries,
                                  unsupported |-> ProjectSurface(k).unsupported]
  BY DEF ProjectSurface
<1>2. CompareSurfaces(ProjectSurface(m), ProjectSurface(n)) = "compatible"
        <=> /\ ProjectSurface(m).unsupported = {} /\ ProjectSurface(n).unsupported = {}
            /\ ProjectSurface(m).entries = ProjectSurface(n).entries
  BY DEF CompareSurfaces
<1>3. QED
  BY <1>1, <1>2

\* The verdict of a new lock of an artifact that could be locked.
LEMMA CurrentVerdict ==
    ASSUME NEW file, NEW p \in Programs, Projects(p.module), file.of = p.module
    PROVE  ResourceVerifyExit(CurrentLock(file), program) =
             IF ~Projects(program.module) THEN 3
             ELSE LET outcome == CompareSurfaces(ProjectSurface(p.module),
                                                 ProjectSurface(program.module))
                  IN  CASE outcome = "unknown" -> 3 [] outcome = "breaking" -> 2 [] OTHER -> 0
<1> DEFINE current == CurrentLock(file)
<1>1. current = [version |-> 4, surface |-> ProjectSurface(p.module), of |-> p.module]
  BY DEF CurrentLock
<1>2. current.version = 4 /\ current.surface = ProjectSurface(p.module)
  BY <1>1
<1>3. current # Damaged
  BY <1>1, MarkersAssumption
<1> HIDE DEF current
<1>4. LockDecodesAs(current) = ProjectSurface(p.module)
  BY <1>2 DEF LockDecodesAs
<1>5. ResourceVerifyExit(current, program) =
        IF ~Projects(program.module) THEN 3
        ELSE LET outcome == CompareSurfaces(ProjectSurface(p.module),
                                            ProjectSurface(program.module))
             IN  CASE outcome = "unknown" -> 3 [] outcome = "breaking" -> 2 [] OTHER -> 0
  BY <1>2, <1>3, <1>4 DEF ResourceVerifyExit
<1>6. QED
  BY <1>5 DEF current

\* A lock of the third version leads to the verdict of a new lock or to none.
LEMMA LegacyLocks == ResourceFilesInv => LegacyLockNeverGuesses
<1> SUFFICES ASSUME ResourceFilesInv, Readable(rlock), rlock.version = 3,
                    ResourceVerifyExit(rlock, program) # 3
             PROVE  ResourceVerifyExit(rlock, program) =
                        ResourceVerifyExit(CurrentLock(rlock), program)
  BY DEF LegacyLockNeverGuesses
<1>1. PICK p \in Programs :
          /\ Projects(p.module) /\ rlock.of = p.module
          /\ rlock.surface \in {LegacySurface(p.module), OlderSurface(p.module)}
  BY DEF ResourceFilesInv, Truthful
<1> DEFINE lift == LiftLegacy(rlock.surface)
           outcome == CompareSurfaces(lift, ProjectSurface(program.module))
<1>2. /\ Projects(program.module)
      /\ ResourceVerifyExit(rlock, program) =
            CASE outcome = "unknown" -> 3 [] outcome = "breaking" -> 2 [] OTHER -> 0
  BY DEF ResourceVerifyExit, LockDecodesAs
<1>3. lift.unsupported = {}
  <2>1. outcome # "unknown"
    BY <1>2
  <2>2. QED
    BY <2>1 DEF CompareSurfaces
<1>4. lift = ProjectSurface(p.module)
  BY <1>1, <1>3, LiftIsExact
<1>5. QED
  BY <1>1, <1>2, <1>4, CurrentVerdict

\* A resource contract that fits is one whose lock would pass.
LEMMA ContractsAndLocks == ResourceFilesInv => ContractAgreesWithLock
<1> SUFFICES ASSUME ResourceFilesInv, Readable(rcontract)
             PROVE  LET passes == ResourceVerifyExit(CurrentLock(rcontract), program) = 0
                    IN  /\ ResourceContractFits(program, rcontract) => passes
                        /\ rcontract.version = 5 /\ passes =>
                              ResourceContractFits(program, rcontract)
  BY DEF ContractAgreesWithLock
<1>1. PICK p \in Programs :
          /\ Projects(p.module) /\ rcontract.of = p.module
          /\ \/ rcontract.version = 5 /\ rcontract.surface = ProjectSurface(p.module)
             \/ /\ rcontract.version = 4
                /\ rcontract.surface \in {LegacySurface(p.module), OlderSurface(p.module)}
  BY DEF ResourceFilesInv, Truthful
<1> DEFINE outcome == CompareSurfaces(ProjectSurface(p.module), ProjectSurface(program.module))
           passes == ResourceVerifyExit(CurrentLock(rcontract), program) = 0
<1>2. passes <=> Projects(program.module) /\ outcome = "compatible"
  <2>1. outcome \in {"unknown", "breaking", "compatible"}
    BY DEF CompareSurfaces
  <2>2. ResourceVerifyExit(CurrentLock(rcontract), program) =
            IF ~Projects(program.module) THEN 3
            ELSE CASE outcome = "unknown" -> 3 [] outcome = "breaking" -> 2 [] OTHER -> 0
    BY <1>1, CurrentVerdict
  <2> HIDE DEF outcome
  <2>3. QED
    BY <2>1, <2>2
<1>3. ContractSurface(rcontract).unsupported = {} =>
          ContractSurface(rcontract) = ProjectSurface(p.module)
  BY <1>1, LiftIsExact DEF ContractSurface
<1>4. ResourceContractFits(program, rcontract) => passes
  BY <1>2, <1>3, CompatibleSurfaces DEF ResourceContractFits
<1>5. ASSUME rcontract.version = 5, passes
      PROVE  ResourceContractFits(program, rcontract)
  <2>1. ContractSurface(rcontract) = ProjectSurface(p.module)
    BY <1>1, <1>5 DEF ContractSurface
  <2>2. /\ Projects(program.module) /\ ProjectSurface(program.module).unsupported = {}
        /\ ProjectSurface(p.module) = ProjectSurface(program.module)
    BY <1>2, <1>5, CompatibleSurfaces
  <2>3. QED
    BY <1>5, <2>1, <2>2 DEF ResourceContractFits, Readable
<1>6. QED
  BY <1>4, <1>5

\* Whatever file records the resources of an artifact, the verdict is that of a
\* new lock of the same artifact: a lock of the third version leads to it or
\* to none, as missing evidence is never guessed (resource-protocol.md 150-170),
\* and `generate` takes a resource contract exactly if `resource-verify` would
\* pass, a legacy one only then.
THEOREM VerdictsAgree == Spec => []FilesAgree
<1>1. FilesInv => FilesAgree
  BY LegacyLocks, ContractsAndLocks DEF FilesInv, FilesAgree
<1>2. QED
  BY <1>1, FilesInvariant, PTL
-----------------------------------------------------------------------------
(* Functions: what is proved of two releases, for the functions of programs. *)

\* The proofs about two releases, for what they say of all host ABIs: their
\* lists, definitions and features are of no use here, and there are none.
Host == INSTANCE ReleaseProofs WITH
    ImportLists <- {}, ExportLists <- {}, Definitions <- {}, ClosureKey <- MakeClosure,
    FeatureSets <- {}, NoDefinition <- 0, Policies <- {}, source <- program,
    resources <- FALSE, policy <- {}, host <- lock

\* What they assume of types holds, and of no lists there is nothing to assume.
LEMMA HostAssumed ==
    /\ Host!TypeIdsAssumption /\ Host!ListsAssumption
    /\ Host!DefinitionsAssumption /\ Host!FeaturesAssumption /\ Host!PoliciesAssumption
<1>1. /\ Host!ListsAssumption /\ Host!DefinitionsAssumption /\ Host!FeaturesAssumption
      /\ Host!PoliciesAssumption
  BY DEF Host!ListsAssumption, Host!DefinitionsAssumption, Host!FeaturesAssumption,
         Host!PoliciesAssumption
<1>2. Host!TypeIdsAssumption
  BY TypeIdsAssumption
     DEF Host!TypeIdsAssumption, IsFiniteSet, Cardinality, Host!IsFiniteSet, Host!Cardinality
<1> QED BY <1>1, <1>2

\* Orders and concatenations are the same in both.
LEMMA SameLists ==
  ASSUME NEW s, NEW b
  PROVE  /\ Host!ToSet(s) = ToSet(s) /\ Host!FlattenSeq(s) = FlattenSeq(s)
         /\ Host!SortAbiFunctions(s) = SortAbiFunctions(s)
         /\ Host!AbiValues = AbiValues /\ Host!AbiFunctions = AbiFunctions
         /\ Host!NamedOnce(s) <=> NamedOnce(s)
<1>1. Host!ToSet(s) = ToSet(s) BY DEF Host!ToSet, ToSet
<1>2. Host!FlattenSeq(s) = FlattenSeq(s) BY DEF Host!FlattenSeq, FlattenSeq
<1>3. Host!SortAbiFunctions(s) = SortAbiFunctions(s)
  BY DEF Host!SortAbiFunctions, SortAbiFunctions, Host!StableText, StableText, Host!ListText,
         ListText, Host!ValueText, ValueText, Host!ValueTypes, ValueTypes, Host!TextBefore,
         TextBefore, Host!FlattenSeq, FlattenSeq, Host!Injection, Injection,
         Host!IsInjective, IsInjective
<1>4. Host!AbiValues = AbiValues
  BY DEF Host!AbiValues, AbiValues, Host!ValueTypes, ValueTypes, Host!ToSet, ToSet
<1>5. Host!AbiFunctions = AbiFunctions
  BY <1>4 DEF Host!AbiFunctions, AbiFunctions
<1>6. Host!NamedOnce(s) <=> NamedOnce(s) BY DEF Host!NamedOnce, NamedOnce
<1> QED BY <1>1, <1>2, <1>3, <1>4, <1>5, <1>6

\* Numbering is the same in both.
LEMMA SameForms ==
  ASSUME NEW a
  PROVE  Host!CanonicalizeHostAbi(a) = CanonicalizeHostAbi(a)
<1>1. \A s : Host!FunctionRefs(s) = FunctionRefs(s)
  BY DEF Host!FunctionRefs, FunctionRefs, Host!RefsIn, RefsIn, Host!IsRef, IsRef,
         Host!FlattenSeq, FlattenSeq
<1>2. \A d : Host!DefinitionRefs(d) = DefinitionRefs(d)
  BY DEF Host!DefinitionRefs, DefinitionRefs, Host!Storages, Storages, Host!RefsIn, RefsIn,
         Host!IsRef, IsRef, Host!FlattenSeq, FlattenSeq
<1>3. \A s, t : Host!Assign(s, t) = Assign(s, t)
  BY DEF Host!Assign, Assign, Host!FoldLeft, FoldLeft, Host!Contains, Contains,
         Host!MapThenFoldSet, MapThenFoldSet, Host!Max, Max
<1>4. Host!Roots(a) = Roots(a)
  BY <1>1, SameLists DEF Host!Roots, Roots
<1>5. Host!Worklist(a) = Worklist(a)
  BY <1>2, <1>3, <1>4
     DEF Host!Worklist, Worklist, Host!Cardinality, Cardinality, Host!IsFiniteSet, IsFiniteSet
<1>6. \A s, t : Host!RenameFunctions(s, t) = RenameFunctions(s, t)
  BY DEF Host!RenameFunctions, RenameFunctions, Host!RenameValues, RenameValues,
         Host!RenameValue, RenameValue, Host!IsRef, IsRef
<1>7. \A s, t : Host!RenameDefinition(s, t) = RenameDefinition(s, t)
  BY DEF Host!RenameDefinition, RenameDefinition, Host!RenameField, RenameField,
         Host!RenameValue, RenameValue, Host!IsRef, IsRef
<1>8. ASSUME NEW s, NEW t PROVE Host!Renumber(s, t) = Renumber(s, t)
  <2>1. \A u : Host!SortAbiFunctions(u) = SortAbiFunctions(u) BY SameLists
  <2> QED BY <1>6, <1>7, <2>1 DEF Host!Renumber, Renumber, Host!ToSet, ToSet
<1> QED BY <1>5, <1>8 DEF Host!CanonicalizeHostAbi, CanonicalizeHostAbi

\* What is breaking is the same in both.
LEMMA SameBreaks ==
  ASSUME NEW a, NEW b, NEW p
  PROVE  Host!BreakingFound(a, b, p) <=> BreakingFound(a, b, p)
<1>1. \A s : Host!Declared(s) = Declared(s) BY DEF Host!Declared, Declared
<1>2. \A s, t : Host!Find(s, t) = Find(s, t)
  BY DEF Host!Find, Find, Host!SelectInSeq, SelectInSeq, Host!Min, Min
<1>3. ASSUME NEW s, NEW t PROVE Host!Common(s, t) = Common(s, t)
  <2> DEFINE u == [n \in DOMAIN s |-> IF s[n].key \in Declared(t) THEN <<s[n]>> ELSE <<>>]
  <2>1. Host!Common(s, t) = Host!FlattenSeq(u) BY <1>1 DEF Host!Common
  <2>2. Common(s, t) = FlattenSeq(u) BY DEF Common
  <2> QED BY <2>1, <2>2, SameLists
<1>4. \A s, t : Host!CommonSurface(s, t) = CommonSurface(s, t)
  BY <1>3 DEF Host!CommonSurface, CommonSurface
<1>5. \A s, t : Host!BreakingCommonChange(s, t) <=> BreakingCommonChange(s, t)
  BY <1>1, <1>2
     DEF Host!BreakingCommonChange, BreakingCommonChange, Host!SignatureChange, SignatureChange
<1> QED
  BY <1>1, <1>4, <1>5, SameForms
     DEF Host!BreakingFound, BreakingFound, Host!BreakingSurfaceChange, BreakingSurfaceChange,
         Host!OnlyIn, OnlyIn

\* What a sequence is made of.
LEMMA ListFacts ==
  ASSUME NEW S, NEW s \in Seq(S)
  PROVE  /\ Len(s) \in Nat /\ DOMAIN s = 1..Len(s) /\ s = [n \in 1..Len(s) |-> s[n]]
         /\ \A n \in DOMAIN s : s[n] \in S
         /\ ToSet(s) = {s[n] : n \in 1..Len(s)} /\ ToSet(s) \subseteq S
BY DEF ToSet

\* Sorting permutes the functions.
LEMMA Sorting ==
  ASSUME NEW fs \in Seq(AbiFunctions)
  PROVE  /\ SortAbiFunctions(fs) \in Seq(AbiFunctions)
         /\ ToSet(SortAbiFunctions(fs)) = ToSet(fs)
         /\ NamedOnce(SortAbiFunctions(fs)) <=> NamedOnce(fs)
<1>1. fs \in Seq(Host!AbiFunctions) BY SameLists
<1>2. /\ Host!SortAbiFunctions(fs) \in Seq(Host!AbiFunctions)
      /\ Host!ToSet(Host!SortAbiFunctions(fs)) = Host!ToSet(fs)
      /\ Host!NamedOnce(Host!SortAbiFunctions(fs)) <=> Host!NamedOnce(fs)
  BY <1>1, HostAssumed, Host!SortKeeps
<1> QED BY <1>2, SameLists

\* Sorting what is sorted changes nothing.
LEMMA SortedTwice ==
  ASSUME NEW fs \in Seq(AbiFunctions), NamedOnce(fs)
  PROVE  SortAbiFunctions(SortAbiFunctions(fs)) = SortAbiFunctions(fs)
<1> DEFINE gs == SortAbiFunctions(fs)
           hs == SortAbiFunctions(gs)
<1>1. gs \in Seq(AbiFunctions) /\ NamedOnce(gs) /\ hs \in Seq(AbiFunctions) BY Sorting
<1>2. /\ gs \in Seq(Host!AbiFunctions) /\ hs \in Seq(Host!AbiFunctions)
      /\ fs \in Seq(Host!AbiFunctions) /\ Host!NamedOnce(fs) /\ Host!NamedOnce(gs)
  BY <1>1, SameLists
<1>3. gs = Host!SortAbiFunctions(fs) /\ hs = Host!SortAbiFunctions(gs) BY SameLists
<1> HIDE DEF gs, hs
<1>4. /\ Host!Increasing(gs) /\ Host!Increasing(hs) /\ Host!ToSet(hs) = Host!ToSet(gs)
  BY <1>2, <1>3, HostAssumed, Host!SortFacts
<1>5. gs = hs BY <1>2, <1>4, HostAssumed, Host!SortedEqual
<1> QED BY <1>5 DEF gs, hs

\* Functions without references and what generated code has no type for.
PlainFunctions ==
    {f \in AbiFunctions : \A v \in ToSet(f.params) \cup ToSet(f.results) : ~IsRef(v) /\ ~Foreign(v)}

\* An ABI of such functions.
PlainAbi(abi) ==
    /\ abi = [imports |-> abi.imports, exports |-> abi.exports,
              types |-> <<>>, features |-> abi.features]
    /\ abi.imports \in Seq(PlainFunctions) /\ abi.exports \in Seq(PlainFunctions)
    /\ abi.features \subseteq SupportedFeatures

\* A list of functions that are all of a kind.
LEMMA ListOf ==
  ASSUME NEW S, NEW T, NEW s \in Seq(S), ToSet(s) \subseteq T
  PROVE  s \in Seq(T)
<1>1. /\ Len(s) \in Nat /\ DOMAIN s = 1..Len(s) /\ s = [n \in 1..Len(s) |-> s[n]]
      /\ ToSet(s) = {s[n] : n \in 1..Len(s)}
  BY ListFacts
<1>2. \A n \in 1..Len(s) : s[n] \in T BY <1>1
<1>3. s \in [1..Len(s) -> T] BY <1>1, <1>2
<1>4. ASSUME NEW N \in Nat, NEW t \in [1..N -> T] PROVE t \in Seq(T) OBVIOUS
<1> QED BY <1>1, <1>3, <1>4

\* Such functions are sorted into such functions.
LEMMA PlainSorted ==
  ASSUME NEW fs \in Seq(PlainFunctions)
  PROVE  fs \in Seq(AbiFunctions) /\ SortAbiFunctions(fs) \in Seq(PlainFunctions)
<1>1. ToSet(fs) \subseteq PlainFunctions BY ListFacts
<1>2. ToSet(fs) \subseteq AbiFunctions BY <1>1 DEF PlainFunctions
<1>3. fs \in Seq(AbiFunctions) BY <1>2, ListOf
<1>4. /\ SortAbiFunctions(fs) \in Seq(AbiFunctions)
      /\ ToSet(SortAbiFunctions(fs)) \subseteq PlainFunctions
  BY <1>1, <1>3, Sorting
<1> QED BY <1>3, <1>4, ListOf

\* Numbering has nothing to change in them.
LEMMA PlainRenamed ==
  ASSUME NEW fs \in Seq(PlainFunctions), NEW number
  PROVE  RenameFunctions(fs, number) = fs
<1>1. ASSUME NEW vs \in Seq(AbiValues), \A v \in ToSet(vs) : ~IsRef(v)
      PROVE  RenameValues(vs, number) = vs
  <2>1. /\ DOMAIN vs = 1..Len(vs) /\ vs = [n \in 1..Len(vs) |-> vs[n]]
        /\ ToSet(vs) = {vs[n] : n \in 1..Len(vs)}
    BY ListFacts
  <2>2. \A n \in 1..Len(vs) : RenameValue(vs[n], number) = vs[n] BY <1>1, <2>1 DEF RenameValue
  <2> QED BY <2>1, <2>2 DEF RenameValues
<1>2. ASSUME NEW f \in PlainFunctions
      PROVE  [f EXCEPT !.params = RenameValues(@, number), !.results = RenameValues(@, number)] = f
  <2>1. f \in AbiFunctions /\ \A v \in ToSet(f.params) \cup ToSet(f.results) : ~IsRef(v)
    BY DEF PlainFunctions
  <2>2. f.params \in Seq(AbiValues) /\ f.results \in Seq(AbiValues) BY <2>1 DEF AbiFunctions
  <2>3. RenameValues(f.params, number) = f.params /\ RenameValues(f.results, number) = f.results
    BY <1>1, <2>1, <2>2
  <2> QED BY <2>1, <2>3 DEF AbiFunctions
<1>3. /\ DOMAIN fs = 1..Len(fs) /\ fs = [n \in 1..Len(fs) |-> fs[n]]
      /\ \A n \in 1..Len(fs) : fs[n] \in PlainFunctions
  BY ListFacts
<1> QED BY <1>2, <1>3 DEF RenameFunctions

\* The canonical form of such an ABI has its functions sorted, no more.
LEMMA PlainCanonical ==
  ASSUME NEW abi, PlainAbi(abi)
  PROVE  CanonicalizeHostAbi(abi) =
           [imports |-> SortAbiFunctions(abi.imports), exports |-> SortAbiFunctions(abi.exports),
            types |-> <<>>, features |-> abi.features]
<1> DEFINE order == Worklist(abi)
           number == [id \in ToSet(order) |-> CHOOSE n \in DOMAIN order : order[n] = id]
           types == [n \in {m \in DOMAIN order : order[m] \in DOMAIN abi.types} |->
                        RenameDefinition(abi.types[order[n]], number)]
<1>1. CanonicalizeHostAbi(abi) =
        [abi EXCEPT !.imports = RenameFunctions(SortAbiFunctions(@), number),
                    !.exports = RenameFunctions(SortAbiFunctions(@), number),
                    !.types = types]
  BY DEF CanonicalizeHostAbi, Renumber
<1>2. RenameFunctions(SortAbiFunctions(abi.imports), number) = SortAbiFunctions(abi.imports)
  BY PlainSorted, PlainRenamed DEF PlainAbi
<1>3. RenameFunctions(SortAbiFunctions(abi.exports), number) = SortAbiFunctions(abi.exports)
  BY PlainSorted, PlainRenamed DEF PlainAbi
<1>4. types = <<>>
  <2>1. abi.types = <<>> BY DEF PlainAbi
  <2>2. {m \in DOMAIN order : order[m] \in DOMAIN abi.types} = {} BY <2>1
  <2> HIDE DEF number, order
  <2> QED BY <2>2
<1> HIDE DEF types, number
<1>5. abi = [imports |-> abi.imports, exports |-> abi.exports,
             types |-> abi.types, features |-> abi.features]
  BY DEF PlainAbi
<1> QED BY <1>1, <1>2, <1>3, <1>4, <1>5

\* And is such an ABI.
LEMMA PlainStays ==
  ASSUME NEW abi, PlainAbi(abi)
  PROVE  PlainAbi(CanonicalizeHostAbi(abi)) /\ ~UnknownValue(abi)
<1> DEFINE c == CanonicalizeHostAbi(abi)
<1>1. /\ c = [imports |-> SortAbiFunctions(abi.imports), exports |-> SortAbiFunctions(abi.exports),
              types |-> <<>>, features |-> abi.features]
  BY PlainCanonical
<1>2. SortAbiFunctions(abi.imports) \in Seq(PlainFunctions)
      /\ SortAbiFunctions(abi.exports) \in Seq(PlainFunctions)
  BY PlainSorted DEF PlainAbi
<1> HIDE DEF c
<1>3. PlainAbi(c) BY <1>1, <1>2 DEF PlainAbi
<1>4. ASSUME NEW fs \in Seq(PlainFunctions) PROVE ~UnknownIn(fs)
  <2> SUFFICES ASSUME NEW n \in DOMAIN fs, NEW v \in ToSet(fs[n].params \o fs[n].results)
               PROVE  v.type # "unknown"
    BY DEF UnknownIn
  <2>1. fs[n] \in PlainFunctions BY ListFacts
  <2>2. fs[n].params \in Seq(AbiValues) /\ fs[n].results \in Seq(AbiValues)
    BY <2>1 DEF PlainFunctions, AbiFunctions
  <2>3. ASSUME NEW s \in Seq(AbiValues), NEW t \in Seq(AbiValues), NEW x \in ToSet(s \o t)
        PROVE  x \in ToSet(s) \cup ToSet(t)
    BY DEF ToSet
  <2>4. v \in ToSet(fs[n].params) \cup ToSet(fs[n].results) BY <2>2, <2>3
  <2> QED BY <2>1, <2>4 DEF PlainFunctions, Foreign
<1>5. ~UnknownIn(c.imports) /\ ~UnknownIn(c.exports) BY <1>1, <1>2, <1>4
<1>6. DOMAIN c.types = {} BY <1>1
<1> QED BY <1>3, <1>5, <1>6 DEF UnknownValue, c

-----------------------------------------------------------------------------
(* Exit codes.                                                             *)

\* The elements of two lists in a row.
LEMMA JoinedSets ==
  ASSUME NEW S, NEW s \in Seq(S), NEW t \in Seq(S)
  PROVE  ToSet(s \o t) = ToSet(s) \cup ToSet(t)
<1>1. /\ Len(s) \in Nat /\ Len(t) \in Nat
      /\ DOMAIN s = 1..Len(s) /\ DOMAIN t = 1..Len(t) /\ DOMAIN (s \o t) = 1..(Len(s) + Len(t))
  OBVIOUS
<1>2. ASSUME NEW x \in ToSet(s \o t) PROVE x \in ToSet(s) \cup ToSet(t)
  <2>1. PICK n \in 1..(Len(s) + Len(t)) : x = (s \o t)[n] BY <1>1, <1>2 DEF ToSet
  <2>2. CASE n <= Len(s)
    <3>1. n \in 1..Len(s) /\ x = s[n] BY <1>1, <2>1, <2>2
    <3> QED BY <1>1, <3>1 DEF ToSet
  <2>3. CASE ~(n <= Len(s))
    <3>1. n - Len(s) \in 1..Len(t) /\ x = t[n - Len(s)] BY <1>1, <2>1, <2>3
    <3> QED BY <1>1, <3>1 DEF ToSet
  <2> QED BY <2>2, <2>3
<1>3. ASSUME NEW x \in ToSet(s) PROVE x \in ToSet(s \o t)
  <2>1. PICK n \in 1..Len(s) : x = s[n] BY <1>1, <1>3 DEF ToSet
  <2>2. n \in 1..(Len(s) + Len(t)) /\ x = (s \o t)[n] BY <1>1, <2>1
  <2> QED BY <1>1, <2>2 DEF ToSet
<1>4. ASSUME NEW x \in ToSet(t) PROVE x \in ToSet(s \o t)
  <2>1. PICK n \in 1..Len(t) : x = t[n] BY <1>1, <1>4 DEF ToSet
  <2>2. Len(s) + n \in 1..(Len(s) + Len(t)) /\ x = (s \o t)[Len(s) + n] BY <1>1, <2>1
  <2> QED BY <1>1, <2>2 DEF ToSet
<1> QED BY <1>2, <1>3, <1>4

\* A program without foreign values has plain functions only.
LEMMA PlainProgram ==
  ASSUME NEW p \in Programs, ~HasForeignValue(p)
  PROVE  p.imports \in Seq(PlainFunctions) /\ p.exports \in Seq(PlainFunctions)
<1>1. p.imports \in Seq(AbiFunctions) /\ p.exports \in Seq(AbiFunctions) BY ProgramsAssumption
<1>2. FunctionsOf(p) = ToSet(p.imports) \cup ToSet(p.exports) BY <1>1, JoinedSets DEF FunctionsOf
<1>3. ASSUME NEW f \in FunctionsOf(p) PROVE f \in PlainFunctions
  <2>1. f \in AbiFunctions BY <1>1, <1>2, <1>3, ListFacts
  <2>2. f.params \in Seq(AbiValues) /\ f.results \in Seq(AbiValues) BY <2>1 DEF AbiFunctions
  <2>3. ToSet(f.params \o f.results) = ToSet(f.params) \cup ToSet(f.results) BY <2>2, JoinedSets
  <2>4. \A v \in ToSet(f.params \o f.results) : ~Foreign(v)
    BY <1>3 DEF HasForeignValue
  <2>5. \A v \in ToSet(f.params \o f.results) : ~IsRef(v)
    BY <1>3, <2>4, ProgramsAssumption
  <2> QED BY <2>1, <2>3, <2>4, <2>5 DEF PlainFunctions
<1> QED BY <1>1, <1>2, <1>3, ListOf

\* What an ABI is made of.
LEMMA AbiFields ==
  ASSUME NEW p
  PROVE  /\ AbiOf(p) = [imports |-> SortAbiFunctions(p.imports),
                        exports |-> SortAbiFunctions(p.exports),
                        types |-> <<>>, features |-> Features(p.imports)]
         /\ AbiOf(p).imports = SortAbiFunctions(p.imports)
         /\ AbiOf(p).exports = SortAbiFunctions(p.exports)
         /\ AbiOf(p).types = <<>> /\ AbiOf(p).features \subseteq SupportedFeatures
BY DEF AbiOf, Features, SupportedFeatures

\* And so has its ABI, canonical or not.
LEMMA PlainPrograms ==
  ASSUME NEW p \in Programs, ~HasForeignValue(p)
  PROVE  PlainAbi(AbiOf(p)) /\ PlainAbi(Fingerprint(p))
<1> DEFINE a == AbiOf(p)
<1>1. a.imports \in Seq(PlainFunctions) /\ a.exports \in Seq(PlainFunctions)
  BY PlainProgram, PlainSorted, AbiFields
<1>2. a = [imports |-> a.imports, exports |-> a.exports, types |-> <<>>, features |-> a.features]
  BY AbiFields
<1>3. a.features \subseteq SupportedFeatures BY AbiFields
<1> HIDE DEF a
<1>4. PlainAbi(a) BY <1>1, <1>2, <1>3 DEF PlainAbi
<1> QED BY <1>4, PlainStays DEF Fingerprint, a

\* The comparison of two programs that could be locked has a result.
LEMMA NothingUnknown ==
  ASSUME NEW a, NEW b, PlainAbi(a), PlainAbi(b)
  PROVE  ~UnknownFound(a, b)
BY PlainStays DEF UnknownFound, PlainAbi

\* The test of the generator is that no function is named twice.
LEMMA KeysOnce ==
  ASSUME NEW fs \in Seq(AbiFunctions)
  PROVE  IsInjective(Keys(fs)) <=> NamedOnce(fs)
BY DEF IsInjective, Keys, NamedOnce

\* A program whose functions have keys of their own is locked as it is.
LEMMA LockedAsIs ==
  ASSUME NEW p \in Programs, ~Diagnosed(p), GeneratorAccepts(Fingerprint(p))
  PROVE  /\ Fingerprint(p) = AbiOf(p)
         /\ NamedOnce(AbiOf(p).imports) /\ NamedOnce(AbiOf(p).exports)
<1> DEFINE a == AbiOf(p)
           c == Fingerprint(p)
<1>1. PlainAbi(a) BY PlainPrograms DEF Diagnosed
<1>2. c = [imports |-> SortAbiFunctions(a.imports), exports |-> SortAbiFunctions(a.exports),
           types |-> <<>>, features |-> a.features]
  BY <1>1, PlainCanonical DEF Fingerprint
<1>3. p.imports \in Seq(AbiFunctions) /\ p.exports \in Seq(AbiFunctions) BY ProgramsAssumption
<1>4. a.imports = SortAbiFunctions(p.imports) /\ a.exports = SortAbiFunctions(p.exports)
  BY AbiFields
<1>5. IsInjective(Keys(c.imports)) /\ IsInjective(Keys(c.exports)) BY DEF GeneratorAccepts
<1> HIDE DEF a, c
<1>6. a.imports \in Seq(AbiFunctions) /\ a.exports \in Seq(AbiFunctions)
  BY <1>3, <1>4, Sorting
<1>7. c.imports = SortAbiFunctions(a.imports) /\ c.exports = SortAbiFunctions(a.exports) BY <1>2
<1>8. c.imports \in Seq(AbiFunctions) /\ c.exports \in Seq(AbiFunctions) BY <1>6, <1>7, Sorting
<1>9. NamedOnce(c.imports) /\ NamedOnce(c.exports) BY <1>5, <1>8, KeysOnce
<1>10. NamedOnce(a.imports) /\ NamedOnce(a.exports) BY <1>6, <1>7, <1>9, Sorting
<1>11. NamedOnce(p.imports) /\ NamedOnce(p.exports) BY <1>3, <1>4, <1>10, Sorting
<1>12. c.imports = a.imports /\ c.exports = a.exports BY <1>3, <1>4, <1>7, <1>11, SortedTwice
<1>13. c = a BY <1>1, <1>2, <1>7, <1>12 DEF PlainAbi
<1> QED BY <1>10, <1>13 DEF a, c

\* And its new lock has it without a change.
LEMMA NewLockPasses ==
  ASSUME NEW p \in Programs, ~Diagnosed(p), GeneratorAccepts(Fingerprint(p))
  PROVE  CompareHostAbi(Fingerprint(p), AbiOf(p), "semantic") = "compatible"
<1> DEFINE a == AbiOf(p)
<1>1. Fingerprint(p) = a /\ NamedOnce(a.imports) /\ NamedOnce(a.exports) BY LockedAsIs
<1>2. PlainAbi(a) BY PlainPrograms DEF Diagnosed
<1> HIDE DEF a
<1>3. a.imports \in Seq(AbiFunctions) /\ a.exports \in Seq(AbiFunctions)
  BY <1>2, PlainSorted DEF PlainAbi
<1>4. <<>> \in Host!AbiTypes
  <2>1. <<>> \in [{} -> Host!AbiDefinitions] /\ {} \in SUBSET TypeIds OBVIOUS
  <2> QED BY <2>1 DEF Host!AbiTypes
<1>5. a.features \in SUBSET Host!FeatureNames
  BY <1>2 DEF PlainAbi, Host!FeatureNames, Host!SupportedFeatures, SupportedFeatures
<1>6. a.imports \in Seq(Host!AbiFunctions) /\ a.exports \in Seq(Host!AbiFunctions)
  BY <1>3, SameLists
<1>7. a = [imports |-> a.imports, exports |-> a.exports, types |-> <<>>, features |-> a.features]
  BY <1>2 DEF PlainAbi
<1>8. a \in Host!HostAbis BY <1>4, <1>5, <1>6, <1>7 DEF Host!HostAbis
<1>9. Host!NamedOnce(a.imports) /\ Host!NamedOnce(a.exports) BY <1>1, SameLists
<1>10. Host!WellFormed(a) BY <1>8, <1>9 DEF Host!WellFormed
<1>11. ~Host!BreakingFound(a, a, "semantic") BY <1>10, HostAssumed, Host!NothingBreaks
<1>12. ~BreakingFound(a, a, "semantic") BY <1>11, SameBreaks
<1>13. ~UnknownFound(a, a) BY <1>2, NothingUnknown
<1>14. CompareHostAbi(a, a, "semantic") = "compatible" BY <1>12, <1>13 DEF CompareHostAbi
<1> QED BY <1>1, <1>14 DEF a

\* What a comparison of lockable programs is.
LEMMA ChecksEnd ==
  ASSUME NEW p \in Programs, NEW q \in Programs, ~Diagnosed(q)
  PROVE  /\ Diagnosed(p) => CheckExit(Fingerprint(q), p) = 3
         /\ ~Diagnosed(p) => CheckExit(Fingerprint(q), p) \in {0, 2}
<1>1. Fingerprint(q) # Damaged BY MarkersAssumption
<1>2. CASE Diagnosed(p)
  BY <1>1, <1>2 DEF CheckExit, Comparison
<1>3. CASE ~Diagnosed(p)
  <2>1. ~UnknownFound(Fingerprint(q), AbiOf(p)) BY <1>3, PlainPrograms, NothingUnknown DEF Diagnosed
  <2>2. CompareHostAbi(Fingerprint(q), AbiOf(p), "semantic") \in {"breaking", "compatible"}
    BY <2>1 DEF CompareHostAbi
  <2> QED BY <1>1, <1>3, <2>2 DEF CheckExit, Comparison
<1> QED BY <1>2, <1>3

\* Without an ABI nothing is compared, whatever the lock.
LEMMA DiagnosedExit ==
  ASSUME NEW b, NEW p, Diagnosed(p)
  PROVE  CheckExit(b, p) = 3
BY DEF CheckExit, Comparison

\* What the codes advise follows from the lock being of some lockable program.
LEMMA ExitsAdvise == FilesInv => ExitCodesAdvise
<1> SUFFICES ASSUME FilesInv, lock # Absent
             PROVE  Advises(VerifyExit(lock, program, contract),
                            VerifyExit(Fingerprint(program), program, contract))
  BY DEF ExitCodesAdvise
<1> DEFINE fp == Fingerprint(program)
           gen == CanGenerate(fp, contract)
           check == CheckExit(lock, program)
           again == CheckExit(fp, program)
           exit == VerifyExit(lock, program, contract)
           relocked == VerifyExit(fp, program, contract)
<1>1. program \in Programs BY DEF FilesInv
<1>2. exit = (IF check # 3 /\ ~gen THEN 4 ELSE check)
      /\ relocked = (IF again # 3 /\ ~gen THEN 4 ELSE again)
  BY DEF VerifyExit, OutcomeFromSections
<1>3. lock = Damaged => check = 3 BY DEF CheckExit
<1>4. Diagnosed(program) => check = 3 BY DiagnosedExit
<1>5. ~Diagnosed(program) => again \in {0, 2} BY <1>1, ChecksEnd
<1>6. ~Diagnosed(program) /\ lock # Damaged => check \in {0, 2}
  BY <1>1, ChecksEnd DEF FilesInv, LockInv, Readable
<1>7. ~Diagnosed(program) /\ gen => again = 0
  <2> SUFFICES ASSUME ~Diagnosed(program), gen PROVE again = 0 OBVIOUS
  <2>1. CompareHostAbi(fp, AbiOf(program), "semantic") = "compatible"
    BY <1>1, NewLockPasses DEF CanGenerate
  <2>2. fp # Damaged BY <1>1, MarkersAssumption
  <2> HIDE DEF fp
  <2>3. Comparison(fp, program) = "compatible" BY <2>1 DEF Comparison
  <2> QED BY <2>2, <2>3 DEF CheckExit
<1>8. Generates(program, contract) <=> ~Diagnosed(program) /\ gen BY DEF Generates
<1> HIDE DEF fp, gen, check, again, exit, relocked
<1>9. Advises(exit, relocked)
  BY <1>2, <1>3, <1>4, <1>5, <1>6, <1>7, <1>8 DEF Advises
<1> QED BY <1>9 DEF exit, relocked, fp

\* Whatever was locked, edited and rebuilt before: with code 0 `generate`
\* accepts the same files, after 2 a new lock is enough, after 4 it does not
\* help, and 3 with a lock that decodes is about a program that cannot be
\* locked (README.md 122-135).
THEOREM ExitCodesAreAdvice == Spec => []ExitCodesAdvise
<1>1. QED
  BY ExitsAdvise, FilesInvariant, PTL

-----------------------------------------------------------------------------
(* Positions.                                                              *)

\* Where the parts of a concatenation are in it: the i-th ends at position f[i].
Ends(f, ss) ==
    /\ f[0] = 0 /\ Len(FlattenSeq(ss)) = f[Len(ss)]
    /\ \A i \in 1..Len(ss) : f[i] = f[i - 1] + Len(ss[i])
    /\ \A j \in 0..Len(ss) : \A i \in 1..j :
          f[i] <= f[j] /\ \A m \in 1..Len(ss[i]) : FlattenSeq(ss)[f[i - 1] + m] = ss[i][m]

\* Every concatenation has such positions.
LEMMA FlattenEnds ==
  ASSUME NEW S, NEW ss \in Seq(Seq(S))
  PROVE  \E f \in [0..Len(ss) -> Nat] : Ends(f, ss)
<1> DEFINE N == Len(ss)
           t == FlattenSeq(ss)
<1>0. N \in Nat /\ \A i \in 1..N : ss[i] \in Seq(S) /\ Len(ss[i]) \in Nat BY ListFacts
<1>1. PICK h \in [0..N -> Seq(S)] :
         /\ h[0] = <<>> /\ t = h[N]
         /\ \A i \in 1..N : h[i] = h[i-1] \o ss[i]
  <2>1. \E h \in [0..N -> Seq(S)] :
           /\ h[0] = <<>> /\ Host!FlattenSeq(ss) = h[N]
           /\ \A i \in 1..N : h[i] = h[i-1] \o ss[i]
    BY HostAssumed, Host!FlattenFold
  <2> QED BY <2>1, SameLists
<1> HIDE DEF t
<1> DEFINE f == [i \in 0..N |-> Len(h[i])]
<1>2. \A i \in 0..N : f[i] \in Nat /\ f[i] = Len(h[i]) OBVIOUS
<1>3. f \in [0..N -> Nat] OBVIOUS
<1> HIDE DEF f
<1>4. ASSUME NEW i \in 1..N
      PROVE  /\ i - 1 \in 0..N /\ i \in 0..N /\ h[i - 1] \in Seq(S) /\ ss[i] \in Seq(S)
             /\ f[i] = f[i - 1] + Len(ss[i]) /\ h[i] = h[i - 1] \o ss[i]
  <2>1. i - 1 \in 0..N /\ i \in 0..N BY <1>0
  <2>2. h[i - 1] \in Seq(S) /\ ss[i] \in Seq(S) BY <2>1, <1>0
  <2>3. h[i] = h[i - 1] \o ss[i] BY <1>1
  <2>4. Len(h[i]) = Len(h[i - 1]) + Len(ss[i]) BY <2>2, <2>3
  <2> QED BY <2>1, <2>2, <2>3, <2>4, <1>2
<1>11. ASSUME NEW u \in Seq(S), NEW v \in Seq(S)
       PROVE  /\ \A m \in 1..Len(u) : (u \o v)[m] = u[m]
              /\ \A m \in 1..Len(v) : (u \o v)[Len(u) + m] = v[m]
  OBVIOUS
<1> DEFINE P == {j \in Nat : j <= N =>
                   \A i \in 1..j : /\ f[i] <= f[j]
                                   /\ \A m \in 1..Len(ss[i]) : h[j][f[i - 1] + m] = ss[i][m]}
<1>5. 0 \in P OBVIOUS
<1>6. ASSUME NEW j \in Nat, j \in P PROVE j + 1 \in P
  <2> SUFFICES ASSUME j + 1 <= N, NEW i \in 1..(j + 1)
               PROVE  /\ f[i] <= f[j + 1]
                      /\ \A m \in 1..Len(ss[i]) : h[j + 1][f[i - 1] + m] = ss[i][m]
    OBVIOUS
  <2>1. j + 1 \in 1..N /\ (j + 1) - 1 = j /\ j \in 0..N BY <1>0
  <2>2. /\ h[j] \in Seq(S) /\ ss[j + 1] \in Seq(S)
        /\ f[j + 1] = f[j] + Len(ss[j + 1]) /\ h[j + 1] = h[j] \o ss[j + 1]
    BY <2>1, <1>4
  <2>3. f[j] = Len(h[j]) /\ f[j] \in Nat /\ Len(ss[j + 1]) \in Nat BY <2>1, <2>2, <1>2
  <2>6. f[j + 1] = f[j] + Len(ss[j + 1]) /\ h[j + 1] = h[j] \o ss[j + 1] BY <2>2
  <2>7. f[j] <= f[j + 1] /\ f[j + 1] \in Nat
    <3>1. ASSUME NEW a \in Nat, NEW b \in Nat PROVE a <= a + b /\ a + b \in Nat OBVIOUS
    <3>2. f[j + 1] = f[j] + Len(ss[j + 1]) BY <2>6
    <3>3. f[j] \in Nat /\ Len(ss[j + 1]) \in Nat BY <2>3
    <3>4. f[j] <= f[j] + Len(ss[j + 1]) /\ f[j] + Len(ss[j + 1]) \in Nat BY <3>1, <3>3
    <3> QED BY <3>2, <3>4
  <2>8. /\ \A m \in 1..Len(h[j]) : h[j + 1][m] = h[j][m]
        /\ \A m \in 1..Len(ss[j + 1]) : h[j + 1][Len(h[j]) + m] = ss[j + 1][m]
    <3>1. h[j] \in Seq(S) /\ ss[j + 1] \in Seq(S) BY <2>2
    <3>2. /\ \A m \in 1..Len(h[j]) : (h[j] \o ss[j + 1])[m] = h[j][m]
          /\ \A m \in 1..Len(ss[j + 1]) : (h[j] \o ss[j + 1])[Len(h[j]) + m] = ss[j + 1][m]
      BY <1>11, <3>1
    <3> QED BY <2>6, <3>2
  <2>4. CASE i = j + 1
    <3>1. f[i - 1] = Len(h[j]) BY <2>1, <2>3, <2>4
    <3>2. f[i] <= f[j + 1] BY <2>7, <2>4
    <3>3. ss[i] = ss[j + 1] BY <2>4
    <3> QED BY <2>8, <3>1, <3>2, <3>3
  <2>5. CASE i # j + 1
    <3>1. i \in 1..j /\ i \in 1..N BY <2>1, <2>5
    <3>2. f[i] <= f[j] /\ \A m \in 1..Len(ss[i]) : h[j][f[i - 1] + m] = ss[i][m]
      BY <1>6, <2>1, <3>1
    <3>3. /\ f[i] = f[i - 1] + Len(ss[i]) /\ f[i - 1] \in Nat /\ f[i] \in Nat
          /\ Len(ss[i]) \in Nat
      BY <3>1, <1>0, <1>2, <1>4
    <3>4. ASSUME NEW m \in 1..Len(ss[i]) PROVE h[j + 1][f[i - 1] + m] = ss[i][m]
      <4>1. f[i - 1] + m \in 1..Len(h[j]) BY <2>3, <3>2, <3>3
      <4>2. h[j + 1][f[i - 1] + m] = h[j][f[i - 1] + m] BY <2>8, <4>1
      <4> QED BY <3>2, <4>2
    <3>5. f[i] <= f[j + 1]
      <4> HIDE DEF N
      <4> QED BY <2>3, <2>7, <3>2, <3>3
    <3> QED BY <3>4, <3>5
  <2> QED BY <2>4, <2>5
<1>7. Nat \subseteq P
  <2> HIDE DEF P
  <2> QED BY <1>5, <1>6, HostAssumed, Host!InductSet
\* The parts are in the whole because they are in the last of the sequences.
<1>8. ASSUME NEW j \in 0..N, NEW i \in 1..j
      PROVE  f[i] <= f[j] /\ \A m \in 1..Len(ss[i]) : t[f[i - 1] + m] = ss[i][m]
  <2>1. j \in P /\ N \in P /\ j \in Nat /\ j <= N /\ N <= N /\ i \in 1..N BY <1>0, <1>7
  <2> QED BY <2>1, <1>1
<1>9. f[0] = 0 /\ Len(t) = f[N]
  <2>1. 0 \in 0..N /\ N \in 0..N /\ Len(<<>>) = 0 BY <1>0
  <2> QED BY <2>1, <1>1, <1>2
<1>10. Ends(f, ss) BY <1>4, <1>8, <1>9 DEF Ends, t
<1> QED BY <1>3, <1>10

\* If nothing is twice in a concatenation, nothing is in two of its parts.
LEMMA PartsApart ==
  ASSUME NEW S, NEW ss \in Seq(Seq(S)), IsInjective(FlattenSeq(ss)),
         NEW i \in 1..Len(ss), NEW j \in 1..Len(ss), i # j
  PROVE  ToSet(ss[i]) \cap ToSet(ss[j]) = {}
<1> DEFINE N == Len(ss)
           t == FlattenSeq(ss)
<1>0. N \in Nat BY ListFacts
<1>1. PICK f \in [0..N -> Nat] : Ends(f, ss) BY FlattenEnds
<1>2. t \in Seq(S)
  <2>1. Host!FlattenSeq(ss) \in Seq(S) BY HostAssumed, Host!FlattenElements
  <2> QED BY <2>1, SameLists
<1>3. DOMAIN t = 1..f[N] /\ f[N] \in Nat
  <2>1. N \in 0..N BY <1>0
  <2> QED BY <1>1, <1>2, <2>1 DEF Ends
<1>4. \A a, b \in DOMAIN t : t[a] = t[b] => a = b BY DEF IsInjective
<1>5. ASSUME NEW k \in 1..N, NEW x \in ToSet(ss[k])
      PROVE  \E a \in (f[k - 1] + 1)..f[k] : a \in DOMAIN t /\ t[a] = x
  <2>1. ss[k] \in Seq(S) /\ Len(ss[k]) \in Nat BY ListFacts
  <2>2. PICK m \in 1..Len(ss[k]) : ss[k][m] = x BY <1>5, <2>1, ListFacts
  <2>3. k - 1 \in 0..N /\ k \in 0..N /\ N \in 0..N BY <1>0
  <2>4. f[k] = f[k - 1] + Len(ss[k]) /\ f[k - 1] \in Nat /\ f[k] \in Nat
    BY <1>1, <2>3 DEF Ends
  <2>5. f[k] <= f[N] /\ t[f[k - 1] + m] = x BY <1>1, <2>2, <2>3 DEF Ends
  <2>6. m \in Nat /\ m >= 1 /\ m <= Len(ss[k]) BY <2>1
  <2>7. f[k - 1] + m \in (f[k - 1] + 1)..f[k] BY <2>1, <2>4, <2>6
  <2>8. f[k - 1] + m \in 1..f[N] BY <1>3, <2>1, <2>4, <2>5, <2>6
  <2> QED BY <1>3, <2>5, <2>7, <2>8
<1> HIDE DEF t
<1>6. ASSUME NEW k \in 1..N, NEW l \in 1..N, k < l,
             NEW x \in ToSet(ss[k]), x \in ToSet(ss[l])
      PROVE  FALSE
  <2>1. PICK a \in (f[k - 1] + 1)..f[k] : a \in DOMAIN t /\ t[a] = x BY <1>5
  <2>2. PICK b \in (f[l - 1] + 1)..f[l] : b \in DOMAIN t /\ t[b] = x BY <1>5, <1>6
  <2>3. a = b BY <1>4, <2>1, <2>2
  <2>4. k \in 1..(l - 1) /\ l - 1 \in 0..N /\ k \in 0..N /\ k - 1 \in 0..N /\ l \in 0..N
    BY <1>0, <1>6
  <2>5. f[k] <= f[l - 1] BY <1>1, <2>4 DEF Ends
  <2>6. f[k] \in Nat /\ f[l - 1] \in Nat /\ f[k - 1] \in Nat /\ f[l] \in Nat BY <2>4
  <2> QED BY <2>1, <2>2, <2>3, <2>5, <2>6
<1>7. i < j \/ j < i BY <1>0
<1> QED BY <1>6, <1>7

\* The elements of a concatenation are those of its parts.
LEMMA FlattenedSet ==
  ASSUME NEW S, NEW ss \in Seq(Seq(S))
  PROVE  /\ FlattenSeq(ss) \in Seq(S)
         /\ ToSet(FlattenSeq(ss)) = UNION {ToSet(ss[i]) : i \in 1..Len(ss)}
<1>1. /\ Host!FlattenSeq(ss) \in Seq(S)
      /\ Host!ToSet(Host!FlattenSeq(ss)) = UNION {Host!ToSet(ss[i]) : i \in 1..Len(ss)}
  BY HostAssumed, Host!FlattenElements
<1>2. \A s : Host!ToSet(s) = ToSet(s) BY SameLists
<1>3. Host!FlattenSeq(ss) = FlattenSeq(ss) BY SameLists
<1>4. {Host!ToSet(ss[i]) : i \in 1..Len(ss)} = {ToSet(ss[i]) : i \in 1..Len(ss)} BY <1>2
<1>5. Host!ToSet(FlattenSeq(ss)) = ToSet(FlattenSeq(ss)) BY <1>2
<1>6. FlattenSeq(ss) \in Seq(S) BY <1>1, <1>3
<1>7. ToSet(FlattenSeq(ss)) = UNION {ToSet(ss[i]) : i \in 1..Len(ss)}
  <2>1. Host!ToSet(FlattenSeq(ss)) = UNION {Host!ToSet(ss[i]) : i \in 1..Len(ss)} BY <1>1, <1>3
  <2> QED BY <2>1, <1>4, <1>5
<1> QED BY <1>6, <1>7

\* The two lists of values of a function.
Sides == {"params", "results"}

\* Positions of opaque values.
Opaque(values) == {k \in DOMAIN values : values[k].type = "externref"}

\* Paths that start with these.
PathsFrom(T) == T \X Sides \X Nat

\* The positions of opaque values in a list of values.
LEMMA PositionsSet ==
  ASSUME NEW values \in Seq(AbiValues), NEW T, NEW part \in T, NEW side \in Sides
  PROVE  /\ Positions(part, values, side) \in Seq(PathsFrom(T))
         /\ ToSet(Positions(part, values, side)) = {<<part, side, m>> : m \in Opaque(values)}
<1> DEFINE S == PathsFrom(T)
           ss == [n \in DOMAIN values |->
                    IF values[n].type = "externref" THEN << <<part, side, n>> >> ELSE <<>>]
           N == Len(values)
<1>1. DOMAIN values = 1..N /\ N \in Nat OBVIOUS
<1>2. ASSUME NEW n \in 1..N PROVE <<part, side, n>> \in S BY <1>1 DEF PathsFrom
<1> HIDE DEF S
<1>3. ASSUME NEW x \in S PROVE <<x>> \in Seq(S) /\ ToSet(<<x>>) = {x} BY DEF ToSet
<1>4. <<>> \in Seq(S) /\ ToSet(<<>>) = {} BY DEF ToSet
<1>5. \A n \in 1..N : ss[n] \in Seq(S) BY <1>1, <1>2, <1>3, <1>4
<1>6. ss \in Seq(Seq(S)) /\ Len(ss) = N
  <2>1. ss \in [1..N -> Seq(S)] BY <1>1, <1>5
  <2> HIDE DEF ss, N
  <2>2. ASSUME NEW R, NEW K \in Nat, NEW t \in [1..K -> R] PROVE t \in Seq(R) /\ Len(t) = K OBVIOUS
  <2> QED BY <1>1, <2>1, <2>2
<1>7. Positions(part, values, side) = FlattenSeq(ss) BY DEF Positions
<1>8. FlattenSeq(ss) \in Seq(S) /\ ToSet(FlattenSeq(ss)) = UNION {ToSet(ss[i]) : i \in 1..N}
  <2> HIDE DEF ss, N
  <2> QED BY <1>6, FlattenedSet
<1>9. \A n \in 1..N : ToSet(ss[n]) = IF n \in Opaque(values) THEN {<<part, side, n>>} ELSE {}
  BY <1>1, <1>2, <1>3, <1>4 DEF Opaque
<1> HIDE DEF ss, N
<1>10. UNION {ToSet(ss[i]) : i \in 1..N} = {<<part, side, m>> : m \in Opaque(values)}
  <2>1. Opaque(values) \subseteq 1..N BY <1>1 DEF Opaque
  <2> QED BY <1>9, <2>1
<1> QED BY <1>7, <1>8, <1>10 DEF S

\* An opaque value of a function has this path.
IsPath(x, part, f) == \E side \in Sides : \E m \in Opaque(f[side]) : x = <<part, side, m>>

\* And in a function.
LEMMA BoundarySet ==
  ASSUME NEW f \in AbiFunctions, NEW T, NEW part \in T
  PROVE  /\ BoundaryPositions(part, f) \in Seq(PathsFrom(T))
         /\ \A x : x \in ToSet(BoundaryPositions(part, f)) <=> IsPath(x, part, f)
<1> DEFINE S == PathsFrom(T)
           u == Positions(part, f.params, "params")
           v == Positions(part, f.results, "results")
<1>1. /\ f.params \in Seq(AbiValues) /\ f.results \in Seq(AbiValues)
      /\ f["params"] = f.params /\ f["results"] = f.results
  BY DEF AbiFunctions
<1>2. "params" \in Sides /\ "results" \in Sides BY DEF Sides
<1>7. ASSUME NEW values \in Seq(AbiValues), NEW side \in Sides
      PROVE  /\ Positions(part, values, side) \in Seq(S)
             /\ ToSet(Positions(part, values, side)) = {<<part, side, m>> : m \in Opaque(values)}
  BY PositionsSet
<1> HIDE DEF S
<1>8. u \in Seq(S) /\ ToSet(u) = {<<part, "params", m>> : m \in Opaque(f.params)}
  BY <1>1, <1>2, <1>7
<1>9. v \in Seq(S) /\ ToSet(v) = {<<part, "results", m>> : m \in Opaque(f.results)}
  BY <1>1, <1>2, <1>7
<1>3. /\ u \in Seq(S) /\ ToSet(u) = {<<part, "params", m>> : m \in Opaque(f.params)}
      /\ v \in Seq(S) /\ ToSet(v) = {<<part, "results", m>> : m \in Opaque(f.results)}
  BY <1>8, <1>9
<1>4. BoundaryPositions(part, f) = u \o v BY DEF BoundaryPositions
<1> HIDE DEF S, u, v
<1>5. u \o v \in Seq(S) /\ ToSet(u \o v) = ToSet(u) \cup ToSet(v) BY <1>3, JoinedSets
<1>6. ASSUME NEW x
      PROVE  x \in ToSet(u \o v) <=> IsPath(x, part, f)
  BY <1>1, <1>3, <1>5 DEF Sides, IsPath
<1> QED BY <1>4, <1>5, <1>6 DEF S

\* Paths of the positions in a list of functions, where part[n] is for the n-th.
Placed(fs, part) == FlattenSeq([n \in DOMAIN fs |-> BoundaryPositions(part[n], fs[n])])

\* The path of a position.
PathOf(part, spot) == <<part[spot[1]], spot[2], spot[3]>>

\* What a position in a list of functions is.
LEMMA OpaqueFacts ==
  ASSUME NEW fs \in Seq(AbiFunctions)
  PROVE  \A spot : spot \in OpaqueIn(fs) <=>
            \E n \in 1..Len(fs) : \E side \in Sides : \E m \in Opaque(fs[n][side]) :
                spot = <<n, side, m>>
<1>1. DOMAIN fs = 1..Len(fs) OBVIOUS
<1> DEFINE Of(n, side) == {<<n, side, m>> : m \in Opaque(fs[n][side])}
<1>2. OpaqueIn(fs) = UNION {Of(n, side) : n \in 1..Len(fs), side \in Sides}
  BY <1>1 DEF OpaqueIn, Opaque, Sides
<1>3. \A spot : \A n \in 1..Len(fs), side \in Sides :
        spot \in Of(n, side) <=> \E m \in Opaque(fs[n][side]) : spot = <<n, side, m>>
  OBVIOUS
<1> HIDE DEF Of
<1>4. \A spot : spot \in OpaqueIn(fs) <=>
                  \E n \in 1..Len(fs), side \in Sides : spot \in Of(n, side)
  BY <1>2
<1> TAKE spot
<1>5. ASSUME NEW n \in 1..Len(fs), NEW side \in Sides
      PROVE  spot \in Of(n, side) <=> \E m \in Opaque(fs[n][side]) : spot = <<n, side, m>>
  BY <1>3
<1>6. spot \in OpaqueIn(fs) <=> \E n \in 1..Len(fs) : \E side \in Sides : spot \in Of(n, side)
  BY <1>4
<1> QED BY <1>5, <1>6

\* A list is finite.
LEMMA ListIsFinite ==
  ASSUME NEW S, NEW s \in Seq(S)
  PROVE  IsFiniteSet(ToSet(s))
<1>1. Len(s) \in Nat /\ ToSet(s) = {s[n] : n \in 1..Len(s)} BY ListFacts
<1>2. ASSUME NEW n \in Nat PROVE IsFiniteSet(1..n) BY FS_Interval
<1>3. IsFiniteSet(1..Len(s)) BY <1>1, <1>2
<1>4. s \in Surjection(1..Len(s), ToSet(s)) BY <1>1 DEF Surjection
<1> QED BY <1>3, <1>4, FS_Surjection

\* The list of the paths consists of those of each function.
LEMMA PlacedParts ==
  ASSUME NEW fs \in Seq(AbiFunctions), NEW T, NEW part \in [1..Len(fs) -> T]
  PROVE  \E ss \in Seq(Seq(PathsFrom(T))) :
            /\ Len(ss) = Len(fs) /\ Placed(fs, part) = FlattenSeq(ss)
            /\ \A n \in 1..Len(fs) : \A x : x \in ToSet(ss[n]) <=> IsPath(x, part[n], fs[n])
<1> DEFINE S == PathsFrom(T)
           N == Len(fs)
           ss == [n \in DOMAIN fs |-> BoundaryPositions(part[n], fs[n])]
<1>1. DOMAIN fs = 1..N /\ N \in Nat /\ \A n \in 1..N : fs[n] \in AbiFunctions OBVIOUS
<1>2. \A n \in 1..N : part[n] \in T OBVIOUS
<1>3. \A n \in 1..N : ss[n] = BoundaryPositions(part[n], fs[n]) BY <1>1
<1>4. \A n \in 1..N :
        ss[n] \in Seq(S) /\ \A x : x \in ToSet(ss[n]) <=> IsPath(x, part[n], fs[n])
  <2>1. ASSUME NEW f \in AbiFunctions, NEW x \in T
        PROVE  /\ BoundaryPositions(x, f) \in Seq(S)
               /\ \A y : y \in ToSet(BoundaryPositions(x, f)) <=> IsPath(y, x, f)
    BY BoundarySet
  <2> HIDE DEF S, ss
  <2> TAKE n \in 1..N
  <2> DEFINE f == fs[n]
             x == part[n]
  <2>2. f \in AbiFunctions /\ x \in T /\ ss[n] = BoundaryPositions(x, f)
    BY <1>1, <1>2, <1>3
  <2> HIDE DEF f, x
  <2>3. ss[n] \in Seq(S) /\ \A y : y \in ToSet(ss[n]) <=> IsPath(y, x, f)
    BY <2>1, <2>2
  <2> QED BY <2>3 DEF f, x
<1> HIDE DEF S
<1>5. ss \in Seq(Seq(S)) /\ Len(ss) = N
  <2>1. ss \in [1..N -> Seq(S)] BY <1>1, <1>4
  <2> HIDE DEF ss, N
  <2>2. ASSUME NEW R, NEW K \in Nat, NEW t \in [1..K -> R] PROVE t \in Seq(R) /\ Len(t) = K OBVIOUS
  <2> QED BY <1>1, <2>1, <2>2
<1>6. Placed(fs, part) = FlattenSeq(ss) BY DEF Placed
<1> HIDE DEF ss
<1> QED BY <1>4, <1>5, <1>6 DEF S

\* The list has paths that start as told.
LEMMA PlacedType ==
  ASSUME NEW fs \in Seq(AbiFunctions), NEW T, NEW part \in [1..Len(fs) -> T]
  PROVE  Placed(fs, part) \in Seq(PathsFrom(T))
BY PlacedParts, FlattenedSet

\* If no path is twice in a list, it has as many as positions.
LEMMA PlacedOnce ==
  ASSUME NEW fs \in Seq(AbiFunctions), NEW T, NEW part \in [1..Len(fs) -> T],
         IsInjective(Placed(fs, part))
  PROVE  /\ IsFiniteSet(OpaqueIn(fs)) /\ IsFiniteSet(ToSet(Placed(fs, part)))
         /\ Cardinality(ToSet(Placed(fs, part))) = Cardinality(OpaqueIn(fs))
<1> DEFINE S == PathsFrom(T)
           N == Len(fs)
           P == Placed(fs, part)
           O == OpaqueIn(fs)
<1>1. N \in Nat OBVIOUS
<1> HIDE DEF S
<1>2. PICK ss \in Seq(Seq(S)) :
         /\ Len(ss) = N /\ P = FlattenSeq(ss)
         /\ \A n \in 1..N : \A x : x \in ToSet(ss[n]) <=> IsPath(x, part[n], fs[n])
  BY PlacedParts DEF S
<1>4. \A n \in 1..N : \A x : x \in ToSet(ss[n]) <=> IsPath(x, part[n], fs[n])
  BY <1>2
<1>5. ss \in Seq(Seq(S)) /\ Len(ss) = N BY <1>2
<1>6. P = FlattenSeq(ss) BY <1>2
<1>13. \A spot : spot \in O <=>
         \E n \in 1..N : \E side \in Sides : \E m \in Opaque(fs[n][side]) : spot = <<n, side, m>>
  BY OpaqueFacts
<1> HIDE DEF N, P, O
<1>7. P \in Seq(S) /\ ToSet(P) = UNION {ToSet(ss[i]) : i \in 1..N} BY <1>5, <1>6, FlattenedSet
<1>8. \A i, j \in 1..N : i # j => ToSet(ss[i]) \cap ToSet(ss[j]) = {}
  <2>1. IsInjective(FlattenSeq(ss)) BY <1>6 DEF P
  <2> QED BY <2>1, <1>5, PartsApart
<1> DEFINE phi == [spot \in O |-> PathOf(part, spot)]
<1>9. ASSUME NEW spot \in O
      PROVE  /\ PathOf(part, spot) \in ToSet(ss[spot[1]]) /\ spot[1] \in 1..N
             /\ spot = <<spot[1], spot[2], spot[3]>>
  <2>1. PICK n \in 1..N, side \in Sides : \E m \in Opaque(fs[n][side]) : spot = <<n, side, m>>
    BY <1>13
  <2>2. PICK m \in Opaque(fs[n][side]) : spot = <<n, side, m>> BY <2>1
  <2>3. PathOf(part, spot) = <<part[n], side, m>> BY <2>2 DEF PathOf
  <2>5. IsPath(PathOf(part, spot), part[n], fs[n]) BY <2>3 DEF IsPath
  <2>4. PathOf(part, spot) \in ToSet(ss[n]) BY <1>4, <2>5
  <2> QED BY <2>2, <2>4
<1>10. phi \in [O -> ToSet(P)] BY <1>7, <1>9
<1>11. \A a, b \in O : phi[a] = phi[b] => a = b
  <2> SUFFICES ASSUME NEW a \in O, NEW b \in O, PathOf(part, a) = PathOf(part, b)
               PROVE  a = b
    OBVIOUS
  <2>1. a[1] = b[1] BY <1>8, <1>9
  <2>2. a[2] = b[2] /\ a[3] = b[3] BY DEF PathOf
  <2> QED BY <1>9, <2>1, <2>2
<1>12. \A path \in ToSet(P) : \E spot \in O : phi[spot] = path
  <2> SUFFICES ASSUME NEW path \in ToSet(P) PROVE \E spot \in O : PathOf(part, spot) = path
    OBVIOUS
  <2>1. PICK n \in 1..N : path \in ToSet(ss[n]) BY <1>7
  <2>2. PICK side \in Sides : \E m \in Opaque(fs[n][side]) : path = <<part[n], side, m>>
    BY <1>4, <2>1 DEF IsPath
  <2>3. PICK m \in Opaque(fs[n][side]) : path = <<part[n], side, m>> BY <2>2
  <2>4. <<n, side, m>> \in O BY <1>13
  <2>5. PathOf(part, <<n, side, m>>) = path BY <2>3 DEF PathOf
  <2> QED BY <2>4, <2>5
<1> HIDE DEF phi
<1>14. phi \in Bijection(O, ToSet(P)) BY <1>10, <1>11, <1>12, Fun_IsBij
<1>15. ExistsBijection(O, ToSet(P)) BY <1>14 DEF ExistsBijection
<1>16. ExistsBijection(ToSet(P), O) BY <1>15, Fun_ExistsBijSymmetric
<1>17. IsFiniteSet(ToSet(P)) BY <1>7, ListIsFinite
<1>18. IsFiniteSet(O) /\ Cardinality(O) = Cardinality(ToSet(P)) BY <1>16, <1>17, FS_Bijection
<1> QED BY <1>7, <1>17, <1>18 DEF S, P, O

\* Parts of a list without repetitions have none.
LEMMA InjectiveParts ==
  ASSUME NEW S, NEW s \in Seq(S), NEW t \in Seq(S), IsInjective(s \o t)
  PROVE  IsInjective(s) /\ IsInjective(t)
<1>1. /\ Len(s) \in Nat /\ Len(t) \in Nat
      /\ DOMAIN s = 1..Len(s) /\ DOMAIN t = 1..Len(t) /\ DOMAIN (s \o t) = 1..(Len(s) + Len(t))
  OBVIOUS
<1>2. \A a, b \in 1..(Len(s) + Len(t)) : (s \o t)[a] = (s \o t)[b] => a = b
  BY <1>1 DEF IsInjective
<1>3. ASSUME NEW a \in 1..Len(s), NEW b \in 1..Len(s), s[a] = s[b] PROVE a = b
  <2>1. /\ a \in 1..(Len(s) + Len(t)) /\ b \in 1..(Len(s) + Len(t))
        /\ (s \o t)[a] = s[a] /\ (s \o t)[b] = s[b]
    BY <1>1
  <2> QED BY <1>2, <1>3, <2>1
<1>4. ASSUME NEW a \in 1..Len(t), NEW b \in 1..Len(t), t[a] = t[b] PROVE a = b
  <2>1. /\ Len(s) + a \in 1..(Len(s) + Len(t)) /\ Len(s) + b \in 1..(Len(s) + Len(t))
        /\ (s \o t)[Len(s) + a] = t[a] /\ (s \o t)[Len(s) + b] = t[b]
    BY <1>1
  <2>2. Len(s) + a = Len(s) + b BY <1>2, <1>4, <2>1
  <2> QED BY <1>1, <2>2
<1> QED BY <1>1, <1>3, <1>4 DEF IsInjective

\* The positions of an ABI without ambiguous paths are as many as its paths.
LEMMA PathsCounted ==
  ASSUME NEW abi, PlainAbi(abi), Unambiguous(abi)
  PROVE  Cardinality(ToSet(ExternrefPaths(abi))) =
             Cardinality(OpaqueIn(abi.imports)) + Cardinality(OpaqueIn(abi.exports))
<1> DEFINE fs == abi.imports
           gs == abi.exports
           there == [n \in 1..Len(fs) |-> <<"imports", ImportPath[fs[n].key]>>]
           here == [n \in 1..Len(gs) |-> <<"exports", gs[n].key>>]
           T == {there[n] : n \in 1..Len(fs)}
           U == {here[n] : n \in 1..Len(gs)}
           a == Placed(fs, there)
           b == Placed(gs, here)
<1>1. fs \in Seq(AbiFunctions) /\ gs \in Seq(AbiFunctions) BY PlainSorted DEF PlainAbi
<1>2. DOMAIN fs = 1..Len(fs) /\ DOMAIN gs = 1..Len(gs) BY <1>1
<1>3. ExternrefPaths(abi) = a \o b
  <2>1. [n \in DOMAIN fs |-> BoundaryPositions(<<"imports", ImportPath[fs[n].key]>>, fs[n])] =
        [n \in DOMAIN fs |-> BoundaryPositions(there[n], fs[n])]
    BY <1>2
  <2>2. [n \in DOMAIN gs |-> BoundaryPositions(<<"exports", gs[n].key>>, gs[n])] =
        [n \in DOMAIN gs |-> BoundaryPositions(here[n], gs[n])]
    BY <1>2
  <2> HIDE DEF there, here
  <2> QED BY <2>1, <2>2 DEF ExternrefPaths, Placed
<1>4. there \in [1..Len(fs) -> T] /\ here \in [1..Len(gs) -> U] OBVIOUS
<1>5. \A x \in T, y \in U : x # y
  <2>1. \A x \in T : x[1] = "imports"
    <3> TAKE x \in T
    <3>1. PICK n \in 1..Len(fs) : x = <<"imports", ImportPath[fs[n].key]>> OBVIOUS
    <3> QED BY <3>1
  <2>2. \A y \in U : y[1] = "exports"
    <3> TAKE y \in U
    <3>1. PICK n \in 1..Len(gs) : y = <<"exports", gs[n].key>> OBVIOUS
    <3> QED BY <3>1
  <2> QED BY <2>1, <2>2
<1> HIDE DEF T, U, there, here, fs, gs
<1>6. a \in Seq(PathsFrom(T)) /\ b \in Seq(PathsFrom(U))
  BY <1>1, <1>4, PlacedType
<1> HIDE DEF a, b
<1>7. IsInjective(a \o b) BY <1>3 DEF Unambiguous
<1>8. IsInjective(a) /\ IsInjective(b)
  <2> DEFINE V == PathsFrom(T) \cup PathsFrom(U)
  <2>1. a \in Seq(V) /\ b \in Seq(V)
    <3>1. PathsFrom(T) \subseteq V /\ PathsFrom(U) \subseteq V OBVIOUS
    <3>2. ToSet(a) \subseteq V /\ ToSet(b) \subseteq V BY <1>6, <3>1, ListFacts
    <3> QED BY <1>6, <3>2, ListOf
  <2> HIDE DEF V
  <2> QED BY <1>7, <2>1, InjectiveParts
<1>9. /\ IsFiniteSet(ToSet(a)) /\ Cardinality(ToSet(a)) = Cardinality(OpaqueIn(fs))
      /\ IsFiniteSet(ToSet(b)) /\ Cardinality(ToSet(b)) = Cardinality(OpaqueIn(gs))
  BY <1>1, <1>4, <1>8, PlacedOnce DEF a, b
<1>10. ToSet(a) \cap ToSet(b) = {}
  <2>1. ToSet(a) \subseteq PathsFrom(T) /\ ToSet(b) \subseteq PathsFrom(U) BY <1>6, ListFacts
  <2>2. ASSUME NEW x \in PathsFrom(T), x \in PathsFrom(U) PROVE FALSE
    <3>1. x[1] \in T /\ x[1] \in U BY <2>2 DEF PathsFrom
    <3> QED BY <3>1, <1>5
  <2> QED BY <2>1, <2>2
<1>11. ToSet(a \o b) = ToSet(a) \cup ToSet(b)
  <2> DEFINE V == PathsFrom(T) \cup PathsFrom(U)
  <2>1. a \in Seq(V) /\ b \in Seq(V)
    <3>1. PathsFrom(T) \subseteq V /\ PathsFrom(U) \subseteq V OBVIOUS
    <3>2. ToSet(a) \subseteq V /\ ToSet(b) \subseteq V BY <1>6, <3>1, ListFacts
    <3> QED BY <1>6, <3>2, ListOf
  <2> HIDE DEF V
  <2> QED BY <2>1, JoinedSets
<1>12. /\ Cardinality(ToSet(a) \cup ToSet(b)) =
            Cardinality(ToSet(a)) + Cardinality(ToSet(b)) - Cardinality(ToSet(a) \cap ToSet(b))
  BY <1>9, FS_Union
<1>13. Cardinality(ToSet(a) \cap ToSet(b)) = 0 BY <1>10, FS_EmptySet
<1>14. Cardinality(ToSet(a)) \in Nat /\ Cardinality(ToSet(b)) \in Nat
  BY <1>9, FS_CardinalityType
<1>15. Cardinality(ToSet(a \o b)) = Cardinality(ToSet(a)) + Cardinality(ToSet(b))
  BY <1>11, <1>12, <1>13, <1>14
<1> QED BY <1>3, <1>9, <1>15 DEF fs, gs

\* An output names as many paths as its ABI has positions.
LEMMA PositionsNamed == FilesInv => EveryPositionNamed
<1> SUFFICES ASSUME OutputInv, output # Absent
             PROVE  /\ output.contract.abi = output.abi
                    /\ DOMAIN output.contract.names = ToSet(ExternrefPaths(output.abi))
                    /\ Cardinality(DOMAIN output.contract.names) =
                           Cardinality(OpaqueIn(output.abi.imports)) +
                           Cardinality(OpaqueIn(output.abi.exports))
  BY DEF EveryPositionNamed, FilesInv
<1>1. PICK p \in Programs :
         /\ \E names \in Names(Fingerprint(p)) :
               output = [abi |-> Fingerprint(p), contract |-> Named(Fingerprint(p), names),
                         resources |-> output.resources]
         /\ ~HasForeignValue(p) /\ Unambiguous(Fingerprint(p))
  BY DEF OutputInv
<1> DEFINE abi == Fingerprint(p)
<1>2. PICK names \in Names(abi) :
         output = [abi |-> abi, contract |-> Named(abi, names), resources |-> output.resources]
  BY <1>1
<1>3. PlainAbi(abi) BY <1>1, PlainPrograms
<1>4. Unambiguous(abi) BY <1>1
<1> HIDE DEF abi
<1>5. output.abi = abi /\ output.contract = Named(abi, names) BY <1>2
<1>6. output.contract.abi = abi /\ output.contract.names = names BY <1>5, NamedFields
<1>7. DOMAIN names = ToSet(ExternrefPaths(abi)) BY DEF Names
<1> QED BY <1>3, <1>4, <1>5, <1>6, <1>7, PathsCounted

\* Whatever was renamed, pasted or migrated before: a generated output has a
\* name for each position of an opaque value in its ABI, and no two positions
\* share one.
THEOREM EveryPositionIsNamed == Spec => []EveryPositionNamed
<1>1. QED
  BY PositionsNamed, FilesInvariant, PTL

-----------------------------------------------------------------------------
(* Resources.                                                              *)

\* The types of the imports of a kind, one by one.
TypesAt(m, kind) ==
    [n \in DOMAIN m.imports |->
        IF m.imports[n].kind = kind THEN <<m.imports[n].type>> ELSE <<>>]

\* The imported types are these in a row.
LEMMA TypesAtFacts ==
  ASSUME NEW m, IsModule(m), NEW kind
  PROVE  /\ DOMAIN m.imports = 1..Len(m.imports) /\ Len(m.imports) \in Nat
         /\ ImportedTypes(m, kind) = FlattenSeq(TypesAt(m, kind))
         /\ TypesAt(m, kind) \in Seq(Seq({i.type : i \in ToSet(m.imports)}))
         /\ Len(TypesAt(m, kind)) = Len(m.imports)
<1> DEFINE N == Len(m.imports)
           S == {i.type : i \in ToSet(m.imports)}
           ss == TypesAt(m, kind)
<1>1. m.imports \in Seq(ToSet(m.imports)) BY DEF IsModule
<1>2. /\ DOMAIN m.imports = 1..N /\ N \in Nat
      /\ \A n \in 1..N : m.imports[n] \in ToSet(m.imports)
  BY <1>1
<1>3. \A n \in 1..N : m.imports[n].type \in S BY <1>2
<1> HIDE DEF S
<1>4. \A x \in S : <<x>> \in Seq(S) OBVIOUS
<1>5. <<>> \in Seq(S) OBVIOUS
<1>6. \A n \in 1..N : ss[n] \in Seq(S) BY <1>2, <1>3, <1>4, <1>5 DEF TypesAt
<1>7. ss \in [1..N -> Seq(S)] BY <1>2, <1>6 DEF TypesAt
<1>8. ss \in Seq(Seq(S)) /\ Len(ss) = N
  <2> HIDE DEF ss, N
  <2>2. ASSUME NEW R, NEW K \in Nat, NEW t \in [1..K -> R] PROVE t \in Seq(R) /\ Len(t) = K OBVIOUS
  <2> QED BY <1>2, <1>7, <2>2
<1>9. ImportedTypes(m, kind) = FlattenSeq(ss) BY DEF ImportedTypes, TypesAt
<1> QED BY <1>2, <1>8, <1>9 DEF S

\* As many types come before as imports of the kind.
LEMMA TypesCounted ==
  ASSUME NEW m, IsModule(m), NEW kind, NEW f \in [0..Len(m.imports) -> Nat],
         Ends(f, TypesAt(m, kind)), NEW x \in 0..Len(m.imports)
  PROVE  f[x] = Cardinality({k \in ImportsOf(m, kind) : k <= x})
<1> DEFINE N == Len(m.imports)
           ss == TypesAt(m, kind)
           Upto(j) == {k \in ImportsOf(m, kind) : k <= j}
           P == {j \in Nat : j <= N => f[j] = Cardinality(Upto(j)) /\ IsFiniteSet(Upto(j))}
<1>1. DOMAIN m.imports = 1..N /\ N \in Nat /\ Len(ss) = N BY TypesAtFacts
<1>2. ImportsOf(m, kind) \subseteq 1..N BY <1>1 DEF ImportsOf
<1>3. f[0] = 0 /\ \A i \in 1..N : f[i] = f[i - 1] + Len(ss[i]) BY <1>1 DEF Ends
<1>4. 0 \in P
  <2>1. Upto(0) = {} BY <1>2
  <2> HIDE DEF Upto
  <2>2. Cardinality(Upto(0)) = 0 /\ IsFiniteSet(Upto(0)) BY <2>1, FS_EmptySet
  <2> QED BY <1>3, <2>2
<1>5. ASSUME NEW j \in Nat, j \in P PROVE j + 1 \in P
  <2> SUFFICES ASSUME j + 1 <= N
               PROVE  f[j + 1] = Cardinality(Upto(j + 1)) /\ IsFiniteSet(Upto(j + 1))
    OBVIOUS
  <2>1. j + 1 \in 1..N /\ (j + 1) - 1 = j /\ j <= N BY <1>1
  <2>2. f[j] = Cardinality(Upto(j)) /\ IsFiniteSet(Upto(j)) BY <1>5, <2>1
  <2>3. f[j + 1] = f[j] + Len(ss[j + 1]) BY <1>3, <2>1
  <2>4. Cardinality(Upto(j)) \in Nat BY <2>2, FS_CardinalityType
  <2>5. CASE m.imports[j + 1].kind = kind
    <3>1. Upto(j + 1) = Upto(j) \cup {j + 1} /\ j + 1 \notin Upto(j)
      BY <1>1, <1>2, <2>1, <2>5 DEF ImportsOf
    <3>2. Len(ss[j + 1]) = 1 BY <1>1, <2>1, <2>5 DEF TypesAt
    <3> HIDE DEF Upto
    <3>3. /\ IsFiniteSet(Upto(j) \cup {j + 1})
          /\ Cardinality(Upto(j) \cup {j + 1}) = Cardinality(Upto(j)) + 1
      BY <2>2, <3>1, FS_AddElement
    <3> QED BY <2>2, <2>3, <3>1, <3>2, <3>3
  <2>6. CASE m.imports[j + 1].kind # kind
    <3>1. Upto(j + 1) = Upto(j) BY <1>1, <1>2, <2>1, <2>6 DEF ImportsOf
    <3>2. Len(ss[j + 1]) = 0 BY <1>1, <2>1, <2>6 DEF TypesAt
    <3> HIDE DEF Upto
    <3> QED BY <2>2, <2>3, <2>4, <3>1, <3>2
  <2> QED BY <2>5, <2>6
<1>6. Nat \subseteq P
  <2> HIDE DEF P
  <2> QED BY <1>4, <1>5, HostAssumed, Host!InductSet
<1>7. x \in Nat /\ x <= N BY <1>1
<1>8. x \in P
  <2> HIDE DEF P
  <2> QED BY <1>6, <1>7
<1> QED BY <1>7, <1>8

\* What is found by counting is what the index space has.
LEMMA IndexSpaceFound ==
  ASSUME NEW m, IsModule(m), NEW kind \in Kinds, NEW index \in DOMAIN IndexSpace(m, kind)
  PROVE  IndexSpace(m, kind)[index] = Declaration(m, kind, index)
<1> DEFINE N == Len(m.imports)
           ss == TypesAt(m, kind)
           S == {i.type : i \in ToSet(m.imports)}
           t == ImportedTypes(m, kind)
           d == m.defined[kind]
           count == Cardinality(ImportsOf(m, kind))
<1>1. /\ DOMAIN m.imports = 1..N /\ N \in Nat /\ t = FlattenSeq(ss)
      /\ ss \in Seq(Seq(S)) /\ Len(ss) = N
  BY TypesAtFacts
<1>2. d \in Seq(ToSet(d)) BY DEF IsModule
<1> HIDE DEF S, ss, t
<1>3. t \in Seq(S) BY <1>1, FlattenedSet
<1>4. PICK f \in [0..N -> Nat] : Ends(f, ss) BY <1>1, FlattenEnds
<1>5. \A n \in 0..N : f[n] = Cardinality({k \in ImportsOf(m, kind) : k <= n})
  BY <1>4, TypesCounted DEF ss
<1>6. ImportsOf(m, kind) \subseteq 1..N BY <1>1 DEF ImportsOf
<1>7. f[N] = count
  <2>1. N \in 0..N BY <1>1
  <2>2. {k \in ImportsOf(m, kind) : k <= N} = ImportsOf(m, kind) BY <1>1, <1>6
  <2> QED BY <1>5, <2>1, <2>2
<1>8. Len(t) = f[N] /\ f[N] \in Nat
  <2>1. N \in 0..N BY <1>1
  <2> QED BY <1>1, <1>4, <2>1 DEF Ends
<1>9. IndexSpace(m, kind) = t \o d BY DEF IndexSpace, t
<1> HIDE DEF N, d, count
<1>10. index \in 1..(Len(t) + Len(d)) /\ Len(d) \in Nat
  <2>1. ASSUME NEW u \in Seq(S), NEW v \in Seq(ToSet(d))
        PROVE  DOMAIN (u \o v) = 1..(Len(u) + Len(v)) /\ Len(v) \in Nat
    OBVIOUS
  <2> QED BY <1>2, <1>3, <1>9, <2>1
<1>11. CASE index > count
  <2>1. (t \o d)[index] = d[index - count]
    <3>1. ASSUME NEW u \in Seq(S), NEW v \in Seq(ToSet(d)), NEW x \in 1..(Len(u) + Len(v)),
                 x > Len(u)
          PROVE  (u \o v)[x] = v[x - Len(u)]
      BY <3>1
    <3> QED BY <1>2, <1>3, <1>7, <1>8, <1>10, <1>11, <3>1
  <2>2. Declaration(m, kind, index) = d[index - count] BY <1>11 DEF Declaration, d, count
  <2> QED BY <1>9, <2>1, <2>2
<1>12. CASE ~(index > count)
  <2>1. index \in 1..f[N] BY <1>7, <1>8, <1>10, <1>12
  <2> DEFINE At(n) == Cardinality({k \in ImportsOf(m, kind) : k <= n}) = index
             found == CHOOSE n \in ImportsOf(m, kind) : At(n)
  <2>2. \E n \in ImportsOf(m, kind) : At(n)
    <3> DEFINE Q == {n \in Nat : n <= N => f[n] < index}
    <3>1. ~(Nat \subseteq Q)
      <4>1. N \in Nat /\ N <= N /\ ~(f[N] < index) BY <1>1, <1>8, <2>1
      <4> QED BY <4>1
    <3>2. 0 \in Q
      <4>1. f[0] = 0 BY <1>4 DEF Ends
      <4> QED BY <2>1, <4>1
    <3>3. PICK n \in Nat : n \in Q /\ n + 1 \notin Q
      <4> HIDE DEF Q
      <4>1. (\A n \in Nat : n \in Q => n + 1 \in Q) => Nat \subseteq Q
        BY <3>2, HostAssumed, Host!InductSet
      <4> QED BY <3>1, <4>1
    <3>4. n + 1 <= N /\ ~(f[n + 1] < index) /\ f[n] < index
      BY <1>1, <3>3
    <3>5. n + 1 \in 1..N /\ (n + 1) - 1 = n /\ n \in 0..N /\ n + 1 \in 0..N BY <1>1, <3>4
    <3>6. f[n + 1] = f[n] + Len(ss[n + 1]) BY <1>1, <1>4, <3>5 DEF Ends
    <3>7. m.imports[n + 1].kind = kind
      <4> SUFFICES ASSUME m.imports[n + 1].kind # kind PROVE FALSE OBVIOUS
      <4>1. ss[n + 1] = <<>> BY <1>1, <3>5 DEF ss, TypesAt
      <4>2. f[n + 1] = f[n] + 0 BY <3>6, <4>1
      <4>3. f[n] \in Nat BY <3>5
      <4> QED BY <3>4, <4>2, <4>3
    <3>8. n + 1 \in ImportsOf(m, kind) BY <1>1, <3>5, <3>7 DEF ImportsOf
    <3>9. f[n + 1] = index
      <4>1. ss[n + 1] = <<m.imports[n + 1].type>> BY <1>1, <3>5, <3>7 DEF ss, TypesAt
      <4>2. f[n + 1] = f[n] + 1 BY <3>6, <4>1
      <4>3. f[n] \in Nat /\ index \in Nat BY <3>5, <1>8, <2>1
      <4> QED BY <3>4, <4>2, <4>3
    <3>10. At(n + 1) BY <1>5, <3>5, <3>9
    <3> HIDE DEF At
    <3> QED BY <3>8, <3>10
  <2>3. found \in ImportsOf(m, kind) /\ At(found)
    <3> HIDE DEF At
    <3> QED BY <2>2
  <2>4. Declaration(m, kind, index) = m.imports[found].type
    BY <1>12 DEF Declaration, count
  <2> HIDE DEF found
  <2>5. found \in 1..N /\ found - 1 \in 0..N /\ found \in 0..N BY <1>1, <1>6, <2>3
  <2>6. f[found] = index BY <1>5, <2>3, <2>5
  <2>7. m.imports[found].kind = kind BY <2>3 DEF ImportsOf
  <2>8. ss[found] = <<m.imports[found].type>> BY <1>1, <2>5, <2>7 DEF ss, TypesAt
  <2>9. Len(ss[found]) = 1 /\ ss[found][1] = m.imports[found].type BY <2>8
  <2>10. f[found - 1] + 1 = index BY <1>1, <1>4, <2>5, <2>6, <2>9 DEF Ends
  <2>11. t[f[found - 1] + 1] = ss[found][1]
    <3>1. found \in 1..found /\ 1 \in 1..Len(ss[found]) BY <1>1, <2>5, <2>9
    <3> QED BY <1>1, <1>4, <2>5, <3>1 DEF Ends
  <2>12. (t \o d)[index] = t[index]
    <3>1. ASSUME NEW u \in Seq(S), NEW v \in Seq(ToSet(d)), NEW x \in 1..Len(u)
          PROVE  (u \o v)[x] = u[x]
      BY <3>1
    <3> QED BY <1>2, <1>3, <1>8, <2>1, <3>1
  <2> QED BY <1>9, <2>4, <2>9, <2>10, <2>11, <2>12
<1> QED BY <1>11, <1>12

\* What the declaration d of a module is, for its host.
Meaning(m, kind, d) == IF kind = "tag" THEN m.signatures[d].params ELSE d

\* What is projected is the meaning.
LEMMA ResolvedMeans ==
  ASSUME NEW m, NEW kind, NEW path, NEW d
  PROVE  Resolved(m, <<kind, path, d>>) = <<kind, path, Meaning(m, kind, d)>>
BY DEF Resolved, Meaning

\* Two declarations describe the same thing if they mean the same.
LEMMA SameMeaning ==
  ASSUME NEW kind, NEW m, NEW d, NEW n, NEW e
  PROVE  SameDeclared(kind, m, d, n, e) <=> Meaning(m, kind, d) = Meaning(n, kind, e)
BY DEF SameDeclared, Meaning

\* The entries of a surface, of imports and of exports.
ImportEntry(m, i) == <<i.kind, i.path, Meaning(m, i.kind, i.type)>>
ExportEntry(m, e) == <<e.kind, e.path, Meaning(m, e.kind, Declaration(m, e.kind, e.index))>>
Entries(m) == {ImportEntry(m, i) : i \in ToSet(m.imports)} \cup
                  {ExportEntry(m, e) : e \in ToSet(m.exports)}

\* A surface describes the declarations.
LEMMA EntriesAreResolved ==
  ASSUME NEW m, IsModule(m), Projects(m)
  PROVE  {Resolved(m, item) : item \in Boundary(m)} = Entries(m)
<1>1. \A i \in ToSet(m.imports) : Resolved(m, <<i.kind, i.path, i.type>>) = ImportEntry(m, i)
  BY ResolvedMeans DEF ImportEntry
<1>2. ASSUME NEW e \in ToSet(m.exports)
      PROVE  Resolved(m, <<e.kind, e.path, IndexSpace(m, e.kind)[e.index]>>) = ExportEntry(m, e)
  <2>1. e.kind \in Kinds BY DEF IsModule
  <2>2. e.index \in DOMAIN IndexSpace(m, e.kind) BY DEF Projects
  <2>3. IndexSpace(m, e.kind)[e.index] = Declaration(m, e.kind, e.index)
    BY <2>1, <2>2, IndexSpaceFound
  <2> QED BY <2>3, ResolvedMeans DEF ExportEntry
<1> QED BY <1>1, <1>2 DEF Boundary, Entries

\* What is kept is what is among the entries.
LEMMA KeptEntries ==
  ASSUME NEW m, NEW n, IsModule(m), IsModule(n)
  PROVE  Keeps(m, n) <=> Entries(m) \subseteq Entries(n)
<1>1. \A i \in ToSet(m.imports) : Len(i.path) = 2 BY DEF IsModule
<1>2. \A i \in ToSet(n.imports) : Len(i.path) = 2 BY DEF IsModule
<1>3. \A e \in ToSet(m.exports) : Len(e.path) = 1 BY DEF IsModule
<1>4. \A e \in ToSet(n.exports) : Len(e.path) = 1 BY DEF IsModule
<1>5. ASSUME NEW i, NEW k
      PROVE  (/\ i.path = k.path /\ i.kind = k.kind
              /\ SameDeclared(i.kind, m, i.type, n, k.type)) <=>
             ImportEntry(m, i) = ImportEntry(n, k)
  BY SameMeaning DEF ImportEntry
<1>6. ASSUME NEW i, NEW k
      PROVE  (/\ i.path = k.path /\ i.kind = k.kind
              /\ SameDeclared(i.kind, m, Declaration(m, i.kind, i.index),
                              n, Declaration(n, k.kind, k.index))) <=>
             ExportEntry(m, i) = ExportEntry(n, k)
  BY SameMeaning DEF ExportEntry
<1>7. \A i, k : Len(i.path) # Len(k.path) =>
                   ImportEntry(m, i) # ExportEntry(n, k) /\ ExportEntry(m, i) # ImportEntry(n, k)
  BY DEF ImportEntry, ExportEntry
<1>8. ASSUME NEW i \in ToSet(m.imports)
      PROVE  ImportEntry(m, i) \in Entries(n) <=>
               \E k \in ToSet(n.imports) : ImportEntry(m, i) = ImportEntry(n, k)
  BY <1>1, <1>4, <1>7 DEF Entries
<1>9. ASSUME NEW e \in ToSet(m.exports)
      PROVE  ExportEntry(m, e) \in Entries(n) <=>
               \E k \in ToSet(n.exports) : ExportEntry(m, e) = ExportEntry(n, k)
  BY <1>2, <1>3, <1>7 DEF Entries
<1>10. Entries(m) \subseteq Entries(n) <=>
         /\ \A i \in ToSet(m.imports) : ImportEntry(m, i) \in Entries(n)
         /\ \A e \in ToSet(m.exports) : ExportEntry(m, e) \in Entries(n)
  <2>1. \A x : x \in Entries(m) <=> \/ \E i \in ToSet(m.imports) : x = ImportEntry(m, i)
                                    \/ \E e \in ToSet(m.exports) : x = ExportEntry(m, e)
    BY DEF Entries
  <2> QED BY <2>1
<1>11. Keeps(m, n) <=>
         /\ \A i \in ToSet(m.imports) :
               \E k \in ToSet(n.imports) : ImportEntry(m, i) = ImportEntry(n, k)
         /\ \A e \in ToSet(m.exports) :
               \E k \in ToSet(n.exports) : ExportEntry(m, e) = ExportEntry(n, k)
  BY <1>5, <1>6 DEF Keeps
<1> QED BY <1>8, <1>9, <1>10, <1>11

\* The surface of a module.
LEMMA SurfaceFacts ==
  ASSUME NEW m, IsModule(m), Projects(m)
  PROVE  /\ ProjectSurface(m).unsupported = {} <=> SpelledOut(m)
         /\ SpelledOut(m) => ProjectSurface(m).entries = Entries(m)
<1> DEFINE items == {Resolved(m, item) : item \in Boundary(m)}
<1>1. /\ ProjectSurface(m).entries = {item \in items : Normalizable(item)}
      /\ ProjectSurface(m).unsupported = {item[2] : item \in {i \in items : ~Normalizable(i)}}
  BY DEF ProjectSurface
<1>2. SpelledOut(m) <=> \A item \in items : Normalizable(item) BY DEF SpelledOut
<1>3. items = Entries(m) BY EntriesAreResolved
<1> HIDE DEF items
<1> QED BY <1>1, <1>2, <1>3

\* A lock of the fourth version is compared with what a host finds.
LEMMA ResourceVerifyExact == FilesInv => ResourceVerifyIsExact
<1> SUFFICES ASSUME FilesInv, Readable(rlock), rlock.version = 4, Projects(program.module)
             PROVE  ResourceVerifyExit(rlock, program) =
                      IF ~SpelledOut(rlock.of) \/ ~SpelledOut(program.module) THEN 3
                      ELSE IF SameBoundary(rlock.of, program.module) THEN 0 ELSE 2
  BY DEF ResourceVerifyIsExact
<1>1. PICK p \in Programs :
         /\ Projects(p.module) /\ rlock.of = p.module
         /\ rlock.surface = ProjectSurface(p.module)
  BY DEF FilesInv, ResourceFilesInv, Truthful
<1> DEFINE m == p.module
           n == program.module
           before == ProjectSurface(m)
           after == ProjectSurface(n)
           outcome == CompareSurfaces(before, after)
<1>2. IsModule(m) /\ IsModule(n) BY ProgramsAssumption DEF FilesInv
<1>3. Projects(m) /\ Projects(n) BY <1>1
<1>4. ResourceVerifyExit(rlock, program) =
        CASE outcome = "unknown" -> 3 [] outcome = "breaking" -> 2 [] OTHER -> 0
  BY <1>1, <1>3 DEF ResourceVerifyExit, LockDecodesAs, Readable
<1>5. outcome = IF before.unsupported \cup after.unsupported # {} THEN "unknown"
                ELSE IF before.entries # after.entries THEN "breaking" ELSE "compatible"
  BY DEF CompareSurfaces
<1> HIDE DEF outcome, m, n, before, after
<1>6. (before.unsupported = {} <=> SpelledOut(m)) /\ (after.unsupported = {} <=> SpelledOut(n))
  BY <1>2, <1>3, SurfaceFacts DEF before, after
<1>7. CASE ~SpelledOut(m) \/ ~SpelledOut(n)
  <2>1. outcome = "unknown" BY <1>5, <1>6, <1>7
  <2> QED BY <1>1, <1>4, <1>7, <2>1 DEF m, n
<1>8. CASE SpelledOut(m) /\ SpelledOut(n)
  <2>1. before.entries = Entries(m) /\ after.entries = Entries(n)
    BY <1>2, <1>3, <1>8, SurfaceFacts DEF before, after
  <2>2. SameBoundary(m, n) <=> Entries(m) = Entries(n)
    BY <1>2, KeptEntries DEF SameBoundary
  <2>3. outcome = IF SameBoundary(m, n) THEN "compatible" ELSE "breaking"
    BY <1>5, <1>6, <1>8, <2>1, <2>2
  <2>4. ResourceVerifyExit(rlock, program) = IF SameBoundary(m, n) THEN 0 ELSE 2
    BY <1>4, <2>3
  <2>5. rlock.of = m /\ program.module = n BY <1>1 DEF m, n
  <2> QED BY <1>8, <2>4, <2>5
<1> QED BY <1>7, <1>8

\* With a lock of the fourth version `resource-verify` accepts exactly the
\* programs at whose boundary a host finds the same things, however these are
\* numbered and wherever in the index spaces (resource-protocol.md 56-70).
THEOREM ResourceVerifyIsRight == Spec => []ResourceVerifyIsExact
<1>1. QED
  BY ResourceVerifyExact, FilesInvariant, PTL
=============================================================================
