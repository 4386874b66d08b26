--------------------------- MODULE GenerateProofs ---------------------------
(***************************************************************************)
(* Theorems about GenerateTransaction for any number of invocations, any   *)
(* ABIs and any bounds, checked by TLAPS: its invariant, what an error     *)
(* leaves and names, what an update replaces and deletes, and that the     *)
(* invocations implement OutputStore.                                      *)
(***************************************************************************)
EXTENDS GenerateProperties, TLAPS

USE DEF Writers

-----------------------------------------------------------------------------
(* Type correctness.                                                       *)

LEMMA ConstantFiles ==
    /\ NoFiles \in Files
    /\ Missing \in Entry /\ NotADir \in Entry /\ EmptyDir \in Entry
    /\ \A old \in OldOutputs :
          Directory(Generation(OldAbi, old[1], old[2])) \in Entry
BY AbiAssumption, BytesAssumption
   DEF NoFiles, NoManifest, Missing, NotADir, EmptyDir, Directory, Generation,
       Files, Manifest, AdapterFile, ContractFile, Entry, Kinds

LEMMA GeneratedType ==
    ASSUME TypeOK, NEW p \in Writers
    PROVE  /\ GeneratedContract(p) \in Contracts
           /\ GeneratedAdapter(p) \in Adapters
           /\ Generated(p) \in Files
<1>1. Abi[p] \in Abis
  BY AbiAssumption
<1>2. SourceContract(p) \in Contracts \cup {None}
  BY GeneratorAssumption DEF TypeOK, SourceContract, Files, ContractFile
<1>3. GeneratedContract(p) \in Contracts
  BY <1>1, <1>2, GeneratorAssumption DEF GeneratedContract
<1>4. GeneratedAdapter(p) \in Adapters
  BY <1>1, <1>3, GeneratorAssumption DEF GeneratedAdapter
<1>5. QED
  BY <1>1, <1>3, <1>4
     DEF Generated, Generation, Files, Manifest, AdapterFile, ContractFile

LEMMA InitType == Init => TypeOK
BY ConstantFiles, BoundsAssumption
   DEF Init, TypeOK, PCs, Phases, Codes, Roles, EditCounts

LEMMA RejectType ==
    ASSUME TypeOK, NEW p \in Writers, RejectValidation(p)
    PROVE  /\ pc' \in [Writers -> PCs]
           /\ err' \in [Writers -> Codes]
           /\ suspect' \in [Writers -> SUBSET Roles]
BY DEF TypeOK, RejectValidation, RaiseAtOnce, FailTransaction, Raise, Goto,
       Suspect, PCs, Codes, Roles

LEMMA FailType ==
    ASSUME TypeOK, NEW p \in Writers, NEW code \in Codes,
           FailTransaction(p, code)
    PROVE  /\ pc' \in [Writers -> PCs]
           /\ err' \in [Writers -> Codes]
           /\ suspect' \in [Writers -> SUBSET Roles]
BY DEF TypeOK, FailTransaction, Raise, Goto, Suspect, PCs, Roles

LEMMA InspectedType ==
    ASSUME TypeOK, NEW p \in Writers
    PROVE  Inspected(p) \in Entry
BY DEF TypeOK, Inspected

LEMMA ValidationCallType ==
    ASSUME TypeOK, NEW p \in Writers, NEW from, NEW found, NEW to \in PCs,
           NEW read \in Files, ValidationCall(p, from, found, to, read)
    PROVE  TypeOK'
<1>1. /\ pc' \in [Writers -> PCs]
      /\ err' \in [Writers -> Codes]
      /\ suspect' \in [Writers -> SUBSET Roles]
  <2>1. CASE RejectValidation(p)
    BY <2>1, RejectType
  <2>2. CASE Goto(p, to) /\ UNCHANGED <<err, suspect>>
    BY <2>2 DEF Goto, TypeOK
  <2>3. QED
    BY <2>1, <2>2 DEF ValidationCall
<1>2. reading' \in [Writers -> Files]
  BY DEF ValidationCall, TypeOK
<1>3. QED
  BY <1>1, <1>2 DEF ValidationCall, TypeOK, fsVars

LEMMA ValidateType ==
    ASSUME TypeOK, NEW p \in Writers, Validate(p)
    PROVE  TypeOK'
<1> USE InspectedType
<1>1. CASE CheckKind(p)
  BY <1>1, ValidationCallType, ConstantFiles DEF CheckKind, PCs
<1>2. CASE Scan(p)
  BY <1>2, ValidationCallType DEF Scan, PCs, TypeOK
<1>3. CASE ReadManifest(p)
  <2>1. [reading[p] EXCEPT !.manifest = Inspected(p).files.manifest] \in Files
    BY DEF TypeOK, Files, Entry
  <2>2. QED
    BY <1>3, <2>1, ValidationCallType DEF ReadManifest, PCs
<1>4. CASE ReadAdapter(p)
  <2>1. [reading[p] EXCEPT !.adapter = Inspected(p).files.adapter] \in Files
    BY DEF TypeOK, Files, Entry
  <2>2. QED
    BY <1>4, <2>1, ValidationCallType DEF ReadAdapter, PCs
<1>5. CASE ReadContract(p)
  <2>1. [reading[p] EXCEPT !.contract = Inspected(p).files.contract] \in Files
    BY DEF TypeOK, Files, Entry
  <2>2. QED
    BY <1>5, <2>1, ValidationCallType DEF ReadContract, PCs
<1>6. CASE CheckHashes(p)
  <2>1. /\ pc' \in [Writers -> PCs]
        /\ err' \in [Writers -> Codes]
        /\ suspect' \in [Writers -> SUBSET Roles]
    <3>1. CASE RejectValidation(p)
      BY <3>1, RejectType
    <3>2. CASE ~RejectValidation(p)
      BY <1>6, <3>2 DEF CheckHashes, Goto, TypeOK, PCs
    <3>3. QED
      BY <3>1, <3>2
  <2>2. expected' \in [Writers -> Files]
    BY <1>6 DEF CheckHashes, TypeOK
  <2>3. QED
    BY <1>6, <2>1, <2>2 DEF CheckHashes, TypeOK, fsVars
<1>7. QED
  BY <1>1, <1>2, <1>3, <1>4, <1>5, <1>6 DEF Validate

LEMMA StagingCallType ==
    ASSUME TypeOK, NEW p \in Writers, NEW from, NEW to \in PCs,
           NEW files \in Files, StagingCall(p, from, to, files)
    PROVE  TypeOK'
<1>1. staging' \in [Writers -> Entry]
  <2> DEFINE written == [staging[p] EXCEPT !.files = files]
  <2>1. staging \in [Writers -> Entry]
    BY DEF TypeOK
  <2>2. written \in Entry
    BY <2>1 DEF Entry
  <2>3. staging' = staging \/ staging' = [staging EXCEPT ![p] = written]
    BY DEF StagingCall
  <2> HIDE DEF written
  <2>4. QED
    BY <2>1, <2>2, <2>3
<1>2. /\ pc' \in [Writers -> PCs]
      /\ err' \in [Writers -> Codes]
      /\ suspect' \in [Writers -> SUBSET Roles]
  <2>1. CASE FailTransaction(p, "io")
    BY <2>1, FailType DEF Codes
  <2>2. CASE Goto(p, to) /\ UNCHANGED <<err, suspect>>
    BY <2>2 DEF Goto, TypeOK
  <2>3. QED
    BY <2>1, <2>2 DEF StagingCall
<1>3. QED
  BY <1>1, <1>2 DEF StagingCall, TypeOK, readVars

LEMMA TryAgainType ==
    ASSUME TypeOK, NEW p \in Writers, TryAgain(p)
    PROVE  tries' \in [Writers -> 0 .. (MaxTries - 1)]
BY BoundsAssumption DEF TypeOK, TryAgain

LEMMA StageType ==
    ASSUME TypeOK, NEW p \in Writers, Stage(p)
    PROVE  TypeOK'
<1>1. CASE CreateStaging(p)
  <2>1. tries' \in [Writers -> 0 .. (MaxTries - 1)]
    BY <1>1, TryAgainType DEF CreateStaging, TypeOK
  <2>2. staging' \in [Writers -> Entry]
    BY <1>1, ConstantFiles DEF CreateStaging, TypeOK
  <2>3. QED
    BY <1>1, <2>1, <2>2
       DEF CreateStaging, RaiseAtOnce, Raise, Goto, TypeOK, PCs, Codes, readVars
<1>2. CASE InspectStaging(p)
  <2>1. tries' \in [Writers -> 0 .. (MaxTries - 1)]
    BY <1>2, TryAgainType, BoundsAssumption DEF InspectStaging, TypeOK
  <2>2. QED
    BY <1>2, <2>1
       DEF InspectStaging, Raise, Goto, TypeOK, PCs, Phases, Codes, Roles,
           fsVars, readVars
<1>3. CASE WriteKind(p)
  <2>1. staging[p].files \in Files
    BY DEF TypeOK, Entry
  <2>2. QED
    BY <1>3, <2>1, StagingCallType DEF WriteKind, PCs
<1>4. CASE WriteContract(p)
  <2>1. [staging[p].files EXCEPT !.contract = Generated(p).contract] \in Files
    BY GeneratedType DEF TypeOK, Entry, Files
  <2>2. QED
    BY <1>4, <2>1, StagingCallType DEF WriteContract, PCs
<1>5. CASE WriteAdapter(p)
  <2>1. [staging[p].files EXCEPT !.adapter = Generated(p).adapter] \in Files
    BY GeneratedType DEF TypeOK, Entry, Files
  <2>2. QED
    BY <1>5, <2>1, StagingCallType DEF WriteAdapter, PCs
<1>6. CASE WriteManifest(p)
  <2>1. [staging[p].files EXCEPT !.manifest = Generated(p).manifest] \in Files
    BY GeneratedType DEF TypeOK, Entry, Files
  <2>2. QED
    BY <1>6, <2>1, StagingCallType DEF WriteManifest, PCs
<1>7. QED
  BY <1>1, <1>2, <1>3, <1>4, <1>5, <1>6 DEF Stage

LEMMA RenameType ==
    ASSUME TypeOK, NEW p \in Writers, Rename(p)
    PROVE  TypeOK'
<1>1. "io" \in Codes /\ "exists" \in Codes
  BY DEF Codes
<1>2. CASE Claim(p)
  <2>1. CASE FailTransaction(p, "io")
    <3>1. /\ pc' \in [Writers -> PCs]
          /\ err' \in [Writers -> Codes]
          /\ suspect' \in [Writers -> SUBSET Roles]
      BY <1>1, <2>1, FailType
    <3>2. /\ out' \in Entry
          /\ backup' \in [Writers -> Entry]
          /\ phase' \in [Writers -> Phases]
          /\ tries' \in [Writers -> 0 .. (MaxTries - 1)]
      BY <1>2, ConstantFiles, TryAgainType DEF Claim, TypeOK, Phases
    <3>3. QED
      BY <1>2, <3>1, <3>2 DEF Claim, TypeOK, readVars
  <2>2. CASE ~FailTransaction(p, "io")
    BY <1>2, <2>2, ConstantFiles, TryAgainType
       DEF Claim, TypeOK, readVars, Goto, PCs, Phases
  <2>3. QED
    BY <2>1, <2>2
<1>3. CASE StagingKind(p)
  <2>1. CASE FailTransaction(p, "io")
    BY <1>1, <1>3, <2>1, FailType DEF StagingKind, TypeOK, fsVars, readVars
  <2>2. CASE ~FailTransaction(p, "io")
    BY <1>3, <2>2 DEF StagingKind, TypeOK, fsVars, readVars, Goto, PCs
  <2>3. QED
    BY <2>1, <2>2
<1>4. CASE Publish(p)
  <2>1. CASE FailTransaction(p, "io") \/ FailTransaction(p, "exists")
    <3>1. /\ pc' \in [Writers -> PCs]
          /\ err' \in [Writers -> Codes]
          /\ suspect' \in [Writers -> SUBSET Roles]
      BY <1>1, <2>1, FailType
    <3>2. /\ out' \in Entry
          /\ staging' \in [Writers -> Entry]
          /\ phase' \in [Writers -> Phases]
      BY <1>4, ConstantFiles DEF Publish, TypeOK, Phases
    <3>3. QED
      BY <1>4, <3>1, <3>2 DEF Publish, TypeOK, readVars
  <2>2. CASE ~(FailTransaction(p, "io") \/ FailTransaction(p, "exists"))
    BY <1>4, <2>2, ConstantFiles
       DEF Publish, TypeOK, readVars, Goto, PCs, Phases
  <2>3. QED
    BY <2>1, <2>2
<1>5. CASE Restore(p)
  <2>1. /\ out' \in Entry
        /\ backup' \in [Writers -> Entry]
    BY <1>5, ConstantFiles DEF Restore, TypeOK
  <2>2. QED
    BY <1>5, <2>1 DEF Restore, TypeOK, readVars, Goto, Suspect, PCs, Roles
<1>6. QED
  BY <1>2, <1>3, <1>4, <1>5 DEF Rename

LEMMA CleanupCallType ==
    ASSUME TypeOK, NEW p \in Writers, NEW from, NEW possible, NEW to \in PCs,
           NEW after \in Entry, CleanupCall(p, from, possible, to, after)
    PROVE  TypeOK'
<1>1. CASE CleanupFails(p)
  BY <1>1
     DEF CleanupCall, CleanupFails, CleanedRole, Suspect, Goto, TypeOK, PCs,
         Codes, Roles, readVars
<1>2. CASE SetCleaned(p, after) /\ Goto(p, to) /\ UNCHANGED <<err, suspect>>
  BY <1>2 DEF CleanupCall, SetCleaned, Goto, TypeOK, readVars
<1>3. QED
  BY <1>1, <1>2 DEF CleanupCall

LEMMA CleanType ==
    ASSUME TypeOK, NEW p \in Writers, Clean(p)
    PROVE  TypeOK'
<1>1. Cleaned(p) \in Entry
  BY DEF TypeOK, Cleaned
<1>2. CASE CleanScan(p)
  BY <1>1, <1>2, CleanupCallType DEF CleanScan, PCs
<1>3. CASE UnlinkAdapter(p)
  <2>1. [Cleaned(p) EXCEPT !.files.adapter = None] \in Entry
    BY <1>1 DEF Entry, Files, AdapterFile, ContractFile
  <2>2. QED
    BY <1>3, <2>1, CleanupCallType DEF UnlinkAdapter, PCs
<1>4. CASE UnlinkContract(p)
  <2>1. [Cleaned(p) EXCEPT !.files.contract = None] \in Entry
    BY <1>1 DEF Entry, Files, AdapterFile, ContractFile
  <2>2. QED
    BY <1>4, <2>1, CleanupCallType DEF UnlinkContract, PCs
<1>5. CASE UnlinkManifest(p)
  <2>1. [Cleaned(p) EXCEPT !.files.manifest = NoManifest] \in Entry
    BY <1>1 DEF Entry, Files, AdapterFile, ContractFile, Manifest, NoManifest
  <2>2. QED
    BY <1>5, <2>1, CleanupCallType DEF UnlinkManifest, PCs
<1>6. CASE RemoveDir(p)
  BY <1>6, ConstantFiles, CleanupCallType DEF RemoveDir, PCs
<1>7. CASE Report(p)
  BY <1>7 DEF Report, Goto, TypeOK, PCs, Roles, fsVars, readVars
<1>8. QED
  BY <1>2, <1>3, <1>4, <1>5, <1>6, <1>7 DEF Clean

LEMMA StepType ==
    ASSUME TypeOK, NEW p \in Writers, Step(p)
    PROVE  TypeOK'
<1>1. CASE Generate(p)
  BY <1>1
     DEF Generate, RaiseAtOnce, Raise, Goto, TypeOK, PCs, Codes, fsVars, readVars
<1>2. CASE RequireAbsent(p)
  BY <1>2
     DEF RequireAbsent, RaiseAtOnce, Raise, Goto, TypeOK, PCs, Codes, fsVars,
         readVars
<1>3. QED
  BY <1>1, <1>2, ValidateType, StageType, RenameType, CleanType DEF Step

\* Edits stay below their bound.
LEMMA EditsCounted ==
    ASSUME TypeOK, EditsOutput \/ EditsAside
    PROVE  edits' \in EditCounts
<1>1. /\ edits.output \in 0 .. MaxEdits /\ edits.aside \in 0 .. MaxEdits
      /\ edits.output + edits.aside < MaxEdits
  BY DEF TypeOK, EditCounts, EditsOutput, EditsAside, EditsLeft
<1>2. edits.output + 1 \in 0 .. MaxEdits /\ edits.aside + 1 \in 0 .. MaxEdits
  BY <1>1, BoundsAssumption
<1>3. PICK m : m = edits.output + 1 OBVIOUS
<1>4. PICK n : n = edits.aside + 1 OBVIOUS
<1>5. edits' = [edits EXCEPT !.output = m] \/ edits' = [edits EXCEPT !.aside = n]
  BY <1>3, <1>4 DEF EditsOutput, EditsAside
<1>6. m \in 0 .. MaxEdits /\ n \in 0 .. MaxEdits
  BY <1>2, <1>3, <1>4
<1> QED BY <1>5, <1>6 DEF TypeOK, EditCounts

LEMMA EnvironmentType ==
    ASSUME TypeOK, Environment
    PROVE  TypeOK'
<1> USE DEF NoCall, readVars, repVars
<1>1. CASE EditFile
  <2>1. /\ out \in Entry /\ out.files \in Files
        /\ Edited \in AdapterFile /\ Edited \in ContractFile /\ NoManifest \in Manifest
    BY BytesAssumption DEF TypeOK, Entry, AdapterFile, ContractFile, Manifest, NoManifest
  <2>2. [out EXCEPT !.files.adapter = Edited] \in Entry
    BY <2>1 DEF Entry, Files, AdapterFile, ContractFile
  <2>3. [out EXCEPT !.files.contract = Edited] \in Entry
    BY <2>1 DEF Entry, Files, AdapterFile, ContractFile
  <2>4. [out EXCEPT !.files.manifest = NoManifest] \in Entry
    BY <2>1 DEF Entry, Files, AdapterFile, ContractFile, Manifest
  <2>5. [out EXCEPT !.files.manifest.adapter = out.files.adapter,
                    !.files.manifest.contract = out.files.contract] \in Entry
    BY <2>1 DEF Entry, Files, AdapterFile, ContractFile, Manifest
  <2>6. [out EXCEPT !.extra = TRUE] \in Entry
    BY <2>1 DEF Entry
  <2>7. out' \in Entry
    BY <1>1, <2>2, <2>3, <2>4, <2>5, <2>6 DEF EditFile
  <2>8. edits' \in EditCounts
    BY <1>1, EditsCounted DEF EditFile
  <2>9. QED
    BY <1>1, <2>7, <2>8 DEF EditFile, EditCounts, TypeOK
<1>2. CASE ReplaceOutput
  BY <1>2, ConstantFiles, EditsCounted DEF ReplaceOutput, EditCounts, TypeOK
<1>3. ASSUME NEW p \in Writers, EditThroughHandle(p)
      PROVE  TypeOK'
  <2>1. [backup[p] EXCEPT !.files.adapter = Edited] \in Entry
    BY BytesAssumption DEF TypeOK, Entry, Files, AdapterFile
  <2>2. backup' = [backup EXCEPT ![p] = [backup[p] EXCEPT !.files.adapter = Edited]]
    BY <1>3 DEF EditThroughHandle
  <2>3. QED
    BY <1>3, <2>1, <2>2, EditsCounted DEF EditThroughHandle, EditCounts, TypeOK
<1>4. ASSUME NEW p \in Writers, RemoveSibling(p)
      PROVE  TypeOK'
  BY <1>4, ConstantFiles, EditsCounted DEF RemoveSibling, EditCounts, TypeOK
<1>5. ASSUME NEW p \in Writers, Crash(p)
      PROVE  TypeOK'
  BY <1>5 DEF Crash, Goto, TypeOK, PCs, fsVars
<1>6. QED
  BY <1>1, <1>2, <1>3, <1>4, <1>5 DEF Environment

\* Every reachable state is well typed; in particular the unique-name loops
\* stay below their number of attempts.
THEOREM TypeCorrect == Spec => []TypeOK
<1>1. TypeOK /\ [Next]_vars => TypeOK'
  BY StepType, EnvironmentType DEF Next, vars, TypeOK
<1>2. QED
  BY <1>1, InitType, PTL DEF Spec

-----------------------------------------------------------------------------
(* Without edits, the output is whole and its last copy is never lost.     *)

\* A step of one invocation leaves what WriterInv says of another one alone.
OthersKept(p) ==
    \A q \in Writers \ {p} :
        /\ pc'[q] = pc[q] /\ phase'[q] = phase[q]
        /\ expected'[q] = expected[q] /\ reading'[q] = reading[q]
        /\ staging'[q] = staging[q] /\ backup'[q] = backup[q]

LEMMA StepKeepsOthers ==
    ASSUME TypeOK, NEW p \in Writers, Step(p)
    PROVE  OthersKept(p)
<1> USE DEF OthersKept, TypeOK, fsVars, readVars, Goto, Raise, RaiseAtOnce
<1>1. CASE Validate(p)
  <2>1. CASE CheckHashes(p)
    BY <2>1 DEF CheckHashes, RejectValidation, FailTransaction
  <2>2. CASE ~CheckHashes(p)
    BY <1>1, <2>2
       DEF Validate, CheckKind, Scan, ReadManifest, ReadAdapter, ReadContract,
           ValidationCall, RejectValidation, FailTransaction
  <2>3. QED
    BY <2>1, <2>2
<1>2. CASE Generate(p) \/ RequireAbsent(p)
  BY <1>2 DEF Generate, RequireAbsent
<1>3. CASE Stage(p)
  BY <1>3
     DEF Stage, CreateStaging, InspectStaging, WriteKind, WriteContract,
         WriteAdapter, WriteManifest, StagingCall, FailTransaction
<1>4. CASE Rename(p)
  BY <1>4
     DEF Rename, Claim, StagingKind, Publish, Restore, FailTransaction
<1>5. CASE Clean(p)
  BY <1>5
     DEF Clean, CleanScan, UnlinkAdapter, UnlinkContract, UnlinkManifest,
         RemoveDir, Report, CleanupCall, CleanupFails, SetCleaned
<1>6. QED
  BY <1>1, <1>2, <1>3, <1>4, <1>5 DEF Step

\* What an invocation generates is settled by its first validation.
LEMMA GeneratedSettled ==
    ASSUME NEW p, expected'[p] = expected[p]
    PROVE  Generated(p)' = Generated(p)
BY DEF Generated, GeneratedContract, GeneratedAdapter, SourceContract

LEMMA OthersInv ==
    ASSUME NEW p \in Writers, NEW q \in Writers \ {p}, OthersKept(p),
           WriterInv(q)
    PROVE  WriterInv(q)'
<1>1. Generated(q)' = Generated(q)
  BY GeneratedSettled DEF OthersKept
<1>2. QED
  BY <1>1 DEF OthersKept, WriterInv, PhaseAt, StagingAt, ClaimedWhole

\* What an invocation generates is a whole generation.
LEMMA GeneratedWhole ==
    ASSUME TypeOK, NEW p \in Writers
    PROVE  Whole(Directory(Generated(p)))
BY GeneratedType, BytesAssumption, AbiAssumption
   DEF Whole, ExactFileSet, HashesMatch, Directory, Generated, Generation,
       NoManifest

LEMMA ValidateInv ==
    ASSUME TypeOK, OutputWhole, NEW p \in Writers, WriterInv(p), Validate(p)
    PROVE  OutputWhole' /\ WriterInv(p)'
<1> USE DEF TypeOK, OutputWhole, WriterInv, PhaseAt, StagingAt,
            ClaimedWhole, Goto, Raise, RaiseAtOnce, fsVars,
            ValidationPCs, StagedPCs, CleanPCs
<1> Generated(p)' = Generated(p) \/ expected'[p] # expected[p]
  BY GeneratedSettled
<1>1. CASE CheckKind(p)
  BY <1>1 DEF CheckKind, ValidationCall, RejectValidation, FailTransaction
<1>2. CASE Scan(p)
  BY <1>2 DEF Scan, ValidationCall, RejectValidation, FailTransaction
<1>3. CASE ReadManifest(p)
  BY <1>3 DEF ReadManifest, ValidationCall, RejectValidation, FailTransaction
<1>4. CASE ReadAdapter(p)
  BY <1>4 DEF ReadAdapter, ValidationCall, RejectValidation, FailTransaction
<1>5. CASE ReadContract(p)
  BY <1>5
     DEF ReadContract, ValidationCall, RejectValidation, FailTransaction, Files
<1>6. CASE CheckHashes(p)
  BY <1>6 DEF CheckHashes, RejectValidation, FailTransaction
<1>7. QED
  BY <1>1, <1>2, <1>3, <1>4, <1>5, <1>6 DEF Validate

LEMMA FilesReplaced ==
    ASSUME NEW f, NEW g
    PROVE  [Directory(g) EXCEPT !.files = f] = Directory(f)
BY DEF Directory

LEMMA AdapterAdded ==
    ASSUME NEW p, NEW d,
           d = Directory([NoFiles EXCEPT !.contract = Generated(p).contract])
    PROVE  [d EXCEPT !.files = [d.files EXCEPT
                                   !.adapter = Generated(p).adapter]]
           = Directory([Generated(p) EXCEPT !.manifest = NoManifest])
<1> DEFINE c == GeneratedContract(p)
<1> DEFINE a == GeneratedAdapter(p)
<1>1. Generated(p) = Generation(Abi[p], a, c)
  BY DEF Generated
<1> HIDE DEF a, c
<1>2. d.files = [adapter |-> None, contract |-> c, manifest |-> NoManifest]
  BY <1>1 DEF Generation, Directory, NoFiles
<1> DEFINE f == [d.files EXCEPT !.adapter = Generated(p).adapter]
<1>3. f = [adapter |-> a, contract |-> c, manifest |-> NoManifest]
  BY <1>1, <1>2 DEF Generation
<1>4. [Generated(p) EXCEPT !.manifest = NoManifest]
      = [adapter |-> a, contract |-> c, manifest |-> NoManifest]
  BY <1>1 DEF Generation
<1>5. f = [Generated(p) EXCEPT !.manifest = NoManifest]
  BY <1>3, <1>4
<1> HIDE DEF f
<1>6. [d EXCEPT !.files = f] = Directory(f)
  BY FilesReplaced
<1>7. [d EXCEPT !.files = f]
      = Directory([Generated(p) EXCEPT !.manifest = NoManifest])
  BY <1>5, <1>6, Zenon
<1>8. QED
  BY <1>7 DEF f

LEMMA ManifestAdded ==
    ASSUME NEW p, NEW d,
           d = Directory([Generated(p) EXCEPT !.manifest = NoManifest])
    PROVE  [d EXCEPT !.files = [d.files EXCEPT
                                   !.manifest = Generated(p).manifest]]
           = Directory(Generated(p))
<1> DEFINE c == GeneratedContract(p)
<1> DEFINE a == GeneratedAdapter(p)
<1>1. Generated(p) = Generation(Abi[p], a, c)
  BY DEF Generated
<1> HIDE DEF a, c
<1>2. d.files = [adapter |-> a, contract |-> c, manifest |-> NoManifest]
  BY <1>1 DEF Generation, Directory
<1> DEFINE f == [d.files EXCEPT !.manifest = Generated(p).manifest]
<1>3. f = Generated(p)
  BY <1>1, <1>2 DEF Generation
<1> HIDE DEF f
<1>4. [d EXCEPT !.files = f] = Directory(f)
  BY FilesReplaced
<1>5. [d EXCEPT !.files = f] = Directory(Generated(p))
  BY <1>3, <1>4, Zenon
<1>6. QED
  BY <1>5 DEF f

LEMMA StageInv ==
    ASSUME TypeOK, OutputWhole, NEW p \in Writers, WriterInv(p), Stage(p)
    PROVE  OutputWhole' /\ WriterInv(p)'
<1> USE DEF TypeOK, OutputWhole, WriterInv, PhaseAt, StagingAt,
            ClaimedWhole, Goto, Raise, RaiseAtOnce, fsVars, readVars,
            ValidationPCs, StagedPCs, CleanPCs
<1>1. CASE CreateStaging(p)
  BY <1>1 DEF CreateStaging, TryAgain
<1>2. CASE InspectStaging(p)
  BY <1>2 DEF InspectStaging, TryAgain
<1> Generated(p)' = Generated(p) \/ ~UNCHANGED expected
  BY GeneratedSettled
<1>3. CASE WriteKind(p)
  BY <1>3 DEF WriteKind, StagingCall, FailTransaction, EmptyDir, Missing
<1>4. CASE WriteContract(p)
  <2>1. CASE FailTransaction(p, "io")
    BY <1>4, <2>1 DEF WriteContract, StagingCall, FailTransaction
  <2>2. CASE ~FailTransaction(p, "io")
    <3>1. staging'[p] = [staging[p] EXCEPT
             !.files = [staging[p].files EXCEPT
                           !.contract = Generated(p).contract]]
      BY <1>4, <2>2 DEF WriteContract, StagingCall
    <3>2. staging[p] = Directory(NoFiles)
      BY <1>4 DEF WriteContract, StagingCall, EmptyDir, Missing, Directory
    <3>3. staging'[p] =
             Directory([NoFiles EXCEPT !.contract = Generated(p).contract])
      BY <3>1, <3>2, FilesReplaced DEF Directory
    <3>4. pc' = [pc EXCEPT ![p] = "writeAdapter"] /\ expected' = expected
      BY <1>4, <2>2 DEF WriteContract, StagingCall
    <3>5. Generated(p)' = Generated(p)
      BY <3>4, GeneratedSettled
    <3>6. StagingAt(p)'
      BY <3>3, <3>4, <3>5
    <3>7. OutputWhole' /\ PhaseAt(p)' /\ ClaimedWhole(p)'
      BY <1>4, <3>4 DEF WriteContract, StagingCall
    <3>8. QED
      BY <3>6, <3>7
  <2>3. QED
    BY <2>1, <2>2
<1>5. CASE WriteAdapter(p)
  <2>1. CASE FailTransaction(p, "io")
    BY <1>5, <2>1 DEF WriteAdapter, StagingCall, FailTransaction
  <2>2. CASE ~FailTransaction(p, "io")
    <3>1. staging'[p] = [staging[p] EXCEPT
             !.files = [staging[p].files EXCEPT !.adapter = Generated(p).adapter]]
      BY <1>5, <2>2 DEF WriteAdapter, StagingCall
    <3>2. staging[p] =
             Directory([NoFiles EXCEPT !.contract = Generated(p).contract])
      BY <1>5 DEF WriteAdapter, StagingCall
    <3>3. staging'[p] = Directory([Generated(p) EXCEPT !.manifest = NoManifest])
      BY <3>1, <3>2, AdapterAdded
    <3>4. pc' = [pc EXCEPT ![p] = "writeManifest"] /\ expected' = expected
      BY <1>5, <2>2 DEF WriteAdapter, StagingCall
    <3>5. Generated(p)' = Generated(p)
      BY <3>4, GeneratedSettled
    <3>6. StagingAt(p)'
      BY <3>3, <3>4, <3>5
    <3>7. OutputWhole' /\ PhaseAt(p)' /\ ClaimedWhole(p)'
      BY <1>5, <3>4 DEF WriteAdapter, StagingCall
    <3>8. QED
      BY <3>6, <3>7
  <2>3. QED
    BY <2>1, <2>2
<1>6. CASE WriteManifest(p)
  <2>1. CASE FailTransaction(p, "io")
    BY <1>6, <2>1 DEF WriteManifest, StagingCall, FailTransaction
  <2>2. CASE ~FailTransaction(p, "io")
    <3>1. staging'[p] = [staging[p] EXCEPT
             !.files = [staging[p].files EXCEPT
                           !.manifest = Generated(p).manifest]]
      BY <1>6, <2>2 DEF WriteManifest, StagingCall
    <3>2. staging[p] = Directory([Generated(p) EXCEPT !.manifest = NoManifest])
      BY <1>6 DEF WriteManifest, StagingCall
    <3>3. staging'[p] = Directory(Generated(p))
      BY <3>1, <3>2, ManifestAdded
    <3>4. /\ pc' = [pc EXCEPT ![p] = IF p \in Updaters THEN "claim"
                                                       ELSE "stagingKind"]
          /\ expected' = expected
      BY <1>6, <2>2 DEF WriteManifest, StagingCall
    <3>5. Generated(p)' = Generated(p)
      BY <3>4, GeneratedSettled
    <3>6. StagingAt(p)'
      BY <3>3, <3>4, <3>5
    <3>7. OutputWhole' /\ PhaseAt(p)' /\ ClaimedWhole(p)'
      BY <1>6, <3>4 DEF WriteManifest, StagingCall
    <3>8. QED
      BY <3>6, <3>7
  <2>3. QED
    BY <2>1, <2>2
<1>7. QED
  BY <1>1, <1>2, <1>3, <1>4, <1>5, <1>6 DEF Stage

LEMMA RenameInv ==
    ASSUME TypeOK, OutputWhole, NEW p \in Writers, WriterInv(p), Rename(p)
    PROVE  OutputWhole' /\ WriterInv(p)'
<1> USE DEF TypeOK, OutputWhole, WriterInv, PhaseAt, StagingAt,
            ClaimedWhole, Goto, Raise, fsVars, readVars,
            ValidationPCs, StagedPCs, CleanPCs, FailTransaction
<1> Generated(p)' = Generated(p) \/ ~UNCHANGED expected
  BY GeneratedSettled
<1>1. CASE Claim(p)
  BY <1>1 DEF Claim, TryAgain, Missing
<1>2. CASE StagingKind(p)
  BY <1>2 DEF StagingKind
<1>3. CASE Publish(p)
  <2>1. Whole(staging[p])
    BY <1>3, GeneratedWhole DEF Publish, PhaseAt
  <2>2. QED
    BY <1>3, <2>1 DEF Publish
<1>4. CASE Restore(p)
  BY <1>4 DEF Restore, Suspect, Missing
<1>5. QED
  BY <1>1, <1>2, <1>3, <1>4 DEF Rename

LEMMA CleanInv ==
    ASSUME TypeOK, OutputWhole, NEW p \in Writers, WriterInv(p), Clean(p)
    PROVE  OutputWhole' /\ WriterInv(p)'
<1> USE DEF TypeOK, OutputWhole, WriterInv, PhaseAt, StagingAt,
            ClaimedWhole, Goto, fsVars, readVars,
            ValidationPCs, StagedPCs, CleanPCs
<1>1. CASE Report(p)
  BY <1>1 DEF Report
<1>2. CASE ~Report(p)
  <2>1. PICK from \in CleanPCs, to \in CleanPCs \cup {"report"} :
           \E possible, after : CleanupCall(p, from, possible, to, after)
    BY <1>2
       DEF Clean, CleanScan, UnlinkAdapter, UnlinkContract, UnlinkManifest,
           RemoveDir
  <2>2. QED
    BY <2>1 DEF CleanupCall, CleanupFails, SetCleaned
<1>3. QED
  BY <1>1, <1>2

LEMMA StepInv ==
    ASSUME TypeOK, OutputWhole, NEW p \in Writers, WriterInv(p), Step(p)
    PROVE  OutputWhole' /\ WriterInv(p)'
<1>1. CASE Generate(p) \/ RequireAbsent(p)
  BY <1>1
     DEF Generate, RequireAbsent, RaiseAtOnce, Raise, Goto, TypeOK,
         OutputWhole, WriterInv, PhaseAt, StagingAt,
         ClaimedWhole, fsVars, readVars, ValidationPCs, StagedPCs, CleanPCs
<1>2. QED
  BY <1>1, ValidateInv, StageInv, RenameInv, CleanInv DEF Step

LEMMA EnvironmentInv ==
    ASSUME CallsOnly, TypeOK, TransactionInv, Environment
    PROVE  TransactionInv'
<1>1. PICK p \in Writers : Crash(p)
  BY DEF CallsOnly, Environment, EditFile, ReplaceOutput, EditsOutput,
         EditThroughHandle, RemoveSibling
<1>2. OutputWhole'
  BY <1>1 DEF TransactionInv, OutputWhole, Crash, fsVars
<1>3. WriterInv(p)'
  BY <1>1
     DEF TypeOK, TransactionInv, WriterInv, PhaseAt, StagingAt,
         ClaimedWhole, Crash, Goto, fsVars, readVars, ValidationPCs, StagedPCs,
         CleanPCs
<1>4. OthersKept(p)
  BY <1>1 DEF TypeOK, OthersKept, Crash, Goto, fsVars, readVars
<1>5. QED
  BY <1>2, <1>3, <1>4, OthersInv DEF TransactionInv

LEMMA InitInv == Init => TransactionInv
<1> SUFFICES ASSUME Init
             PROVE  TransactionInv
  OBVIOUS
<1>1. OutputWhole
  BY BytesAssumption, AbiAssumption
     DEF Init, OutputWhole, Whole, ExactFileSet, HashesMatch, Directory,
         Generation, NoManifest, Missing, NotADir
<1>2. \A p \in Writers : WriterInv(p)
  BY DEF Init, WriterInv, PhaseAt, StagingAt, ClaimedWhole, Missing,
         ValidationPCs, StagedPCs, CleanPCs
<1>3. QED
  BY <1>1, <1>2 DEF TransactionInv

\* Where an invocation is decides what it has on disk.
THEOREM TransactionInvariant ==
    ASSUME CallsOnly
    PROVE  Spec => []TransactionInv
<1>1. TypeOK /\ TransactionInv /\ [Next]_vars => TransactionInv'
  <2>1. ASSUME TypeOK, TransactionInv, NEW p \in Writers, Step(p)
        PROVE  TransactionInv'
    <3>1. OutputWhole' /\ WriterInv(p)'
      BY <2>1, StepInv DEF TransactionInv
    <3>2. OthersKept(p)
      BY <2>1, StepKeepsOthers
    <3>3. QED
      BY <2>1, <3>1, <3>2, OthersInv DEF TransactionInv
  <2>2. ASSUME TypeOK, TransactionInv, UNCHANGED vars
        PROVE  TransactionInv'
    <3>1. \A p \in Writers : Generated(p)' = Generated(p)
      BY <2>2, GeneratedSettled DEF vars
    <3>2. QED
      BY <2>2, <3>1
         DEF vars, TransactionInv, OutputWhole, WriterInv, PhaseAt, StagingAt,
             ClaimedWhole
  <2>3. QED
    BY <2>1, <2>2, EnvironmentInv DEF Next
<1>2. QED
  BY <1>1, InitInv, TypeCorrect, PTL DEF Spec

\* Without edits, whatever calls fail and whoever is killed: the output path
\* never holds a torn or a mixed generation.
THEOREM OutputStaysWhole ==
    ASSUME CallsOnly
    PROVE  Spec => []OutputWhole
BY TransactionInvariant, PTL DEF TransactionInv

\* The rename steps: a claim keeps the output in the backup, a publication and
\* a restoration put a whole generation at the output path.
LEMMA RenameKeepsLast ==
    ASSUME TypeOK, TransactionInv, NEW p \in Writers, Rename(p), Recoverable
    PROVE  Recoverable'
<1>1. WriterInv(p)
  BY DEF TransactionInv
<1> USE DEF TypeOK, Recoverable, Claimed, Goto
<1>2. CASE Claim(p)
  <2>1. CASE UNCHANGED <<out, backup, phase>>
    BY <2>1
  <2>2. CASE ~UNCHANGED <<out, backup, phase>>
    <3>1. p \in Updaters /\ phase[p] = "staged"
      BY <1>1, <1>2 DEF Claim, WriterInv, PhaseAt, StagedPCs
    <3>2. /\ backup' = [backup EXCEPT ![p] = out]
          /\ phase' = [phase EXCEPT ![p] = "claimed"]
      BY <1>2, <2>2 DEF Claim
    <3>3. CASE Whole(out)
      BY <3>1, <3>2, <3>3
    <3>4. CASE \E q \in Updaters : Claimed(q)
      BY <3>1, <3>2, <3>4
    <3>5. QED
      BY <3>3, <3>4
  <2>3. QED
    BY <2>1, <2>2
<1>3. CASE StagingKind(p)
  BY <1>3 DEF StagingKind, fsVars
<1>4. CASE Publish(p)
  <2>1. CASE UNCHANGED <<out, phase>>
    BY <1>4, <2>1 DEF Publish
  <2>2. CASE ~UNCHANGED <<out, phase>>
    <3>1. Whole(staging[p])
      BY <1>1, <1>4, GeneratedWhole
         DEF Publish, WriterInv, PhaseAt, StagingAt
    <3>2. out' = staging[p]
      BY <1>4, <2>2 DEF Publish
    <3>3. QED
      BY <3>1, <3>2
  <2>3. QED
    BY <2>1, <2>2
<1>5. CASE Restore(p)
  <2>1. CASE UNCHANGED <<out, backup>>
    BY <1>5, <2>1 DEF Restore
  <2>2. CASE ~UNCHANGED <<out, backup>>
    <3>1. /\ out' = backup[p] /\ out.kind = "missing"
          /\ backup' = [backup EXCEPT ![p] = Missing]
          /\ phase' = phase
      BY <1>5, <2>2 DEF Restore, RenameNoReplace
    <3>2. ~Whole(out)
      BY <3>1 DEF Whole, ExactFileSet
    <3>3. PICK q \in Updaters : Claimed(q)
      BY <3>2
    <3>4. CASE q = p
      BY <3>1, <3>3, <3>4
    <3>5. CASE q # p
      BY <3>1, <3>3, <3>5
    <3>6. QED
      BY <3>4, <3>5
  <2>3. QED
    BY <2>1, <2>2
<1>6. QED
  BY <1>2, <1>3, <1>4, <1>5 DEF Rename

LEMMA NextKeepsLast ==
    ASSUME CallsOnly, TypeOK, TransactionInv, Next, Recoverable
    PROVE  Recoverable'
<1> USE DEF Recoverable, Claimed
<1>1. CASE Environment
  BY <1>1 DEF CallsOnly, Environment, EditFile, ReplaceOutput, EditsOutput,
              EditThroughHandle, RemoveSibling, Crash, fsVars
<1>2. ASSUME NEW p \in Writers, Step(p)
      PROVE  Recoverable'
  <2>1. CASE Rename(p)
    BY <2>1, RenameKeepsLast
  <2>2. CASE Clean(p)
    <3>1. /\ UNCHANGED <<out, phase>>
          /\ \/ UNCHANGED backup
             \/ /\ phase[p] = "committed"
                /\ \A q \in Writers \ {p} : backup'[q] = backup[q]
      BY <2>2
         DEF TypeOK, Clean, CleanScan, UnlinkAdapter, UnlinkContract,
             UnlinkManifest, RemoveDir, Report, CleanupCall, CleanupFails,
             SetCleaned, fsVars
    <3>2. QED
      BY <3>1
  <2>3. CASE Validate(p) \/ Generate(p) \/ RequireAbsent(p)
    BY <2>3
       DEF Validate, CheckKind, Scan, ReadManifest, ReadAdapter, ReadContract,
           ValidationCall, CheckHashes, Generate, RequireAbsent, fsVars
  <2>4. CASE Stage(p)
    <3>1. /\ UNCHANGED <<out, backup>>
          /\ \/ UNCHANGED phase
             \/ /\ phase[p] = "open"
                /\ \A q \in Writers \ {p} : phase'[q] = phase[q]
      <4>1. WriterInv(p)
        BY DEF TransactionInv
      <4>2. QED
        BY <2>4, <4>1
           DEF TypeOK, Stage, CreateStaging, InspectStaging, WriteKind,
               WriteContract, WriteAdapter, WriteManifest, StagingCall, fsVars,
               WriterInv, PhaseAt
    <3>2. QED
      BY <3>1
  <2>5. QED
    BY <1>2, <2>1, <2>2, <2>3, <2>4 DEF Step
<1>3. QED
  BY <1>1, <1>2 DEF Next

\* Without edits, whatever calls fail and whoever is killed, the last whole
\* generation is at the output path or in the backup of an update that has not
\* published.
THEOREM LastOutputKept ==
    ASSUME CallsOnly
    PROVE  Spec => OutputNeverLost
<1>1. TypeOK /\ TransactionInv /\ [Next]_vars => [Recoverable => Recoverable']_vars
  BY NextKeepsLast
<1>2. QED
  BY <1>1, TypeCorrect, TransactionInvariant, PTL DEF Spec, OutputNeverLost

-----------------------------------------------------------------------------
(* Under every hazard: what is left is named.                              *)

\* A step of one invocation does not change what another one reports.
ReportsKept(p) ==
    \A q \in Writers \ {p} :
        suspect'[q] = suspect[q] /\ retained'[q] = retained[q]

LEMMA StepKeepsReports ==
    ASSUME TypeOK, NEW p \in Writers, Step(p)
    PROVE  ReportsKept(p)
<1> USE DEF ReportsKept, TypeOK, repVars, RaiseAtOnce, FailTransaction, Suspect,
            RejectValidation
<1>1. CASE Validate(p)
  <2>1. UNCHANGED suspect \/ Suspect(p, "backup")
    BY <1>1
       DEF Validate, CheckKind, Scan, ReadManifest, ReadAdapter, ReadContract,
           CheckHashes, ValidationCall
  <2>2. UNCHANGED retained
    BY <1>1
       DEF Validate, CheckKind, Scan, ReadManifest, ReadAdapter, ReadContract,
           CheckHashes, ValidationCall
  <2>3. QED
    BY <2>1, <2>2
<1>2. CASE Generate(p) \/ RequireAbsent(p)
  BY <1>2 DEF Generate, RequireAbsent
<1>3. CASE Stage(p)
  BY <1>3
     DEF Stage, CreateStaging, InspectStaging, WriteKind, WriteContract,
         WriteAdapter, WriteManifest, StagingCall
<1>4. CASE Rename(p)
  BY <1>4 DEF Rename, Claim, StagingKind, Publish, Restore
<1>5. CASE Clean(p)
  BY <1>5
     DEF Clean, CleanScan, UnlinkAdapter, UnlinkContract, UnlinkManifest,
         RemoveDir, Report, CleanupCall, CleanupFails
<1>6. QED
  BY <1>1, <1>2, <1>3, <1>4, <1>5 DEF Step

LEMMA OthersLeftovers ==
    ASSUME NEW p \in Writers, NEW q \in Writers \ {p}, OthersKept(p),
           ReportsKept(p), LeftoverInv(q)
    PROVE  LeftoverInv(q)'
BY DEF OthersKept, ReportsKept, LeftoverInv, LeftoversNamed, PhaseAt, Noted

\* The values of one invocation, without the functions they are stored in.
LEMMA FailedLeftovers ==
    ASSUME TypeOK, NEW p \in Writers, NEW code, LeftoverInv(p),
           FailTransaction(p, code), pc[p] \notin CleanPCs \cup {"report", "done"},
           UNCHANGED <<fsVars, phase, retained>>
    PROVE  LeftoverInv(p)'
<1>1. /\ staging'[p] = staging[p] /\ backup'[p] = backup[p]
      /\ phase'[p] = phase[p] /\ retained'[p] = retained[p]
  BY DEF fsVars
<1>2. CASE phase[p] = "staged"
  <2>1. pc'[p] = "cleanScan" /\ suspect'[p] = suspect[p]
    BY <1>2 DEF FailTransaction, Goto, TypeOK
  <2>2. QED
    BY <1>1, <1>2, <2>1
       DEF LeftoverInv, PhaseAt, Noted, ValidationPCs, StagedPCs, CleanPCs
<1>3. CASE phase[p] = "claimed"
  <2>1. pc'[p] = "restore" /\ suspect'[p] = suspect[p]
    BY <1>3 DEF FailTransaction, Goto, TypeOK
  <2>2. QED
    BY <1>1, <1>3, <2>1
       DEF LeftoverInv, PhaseAt, Noted, ValidationPCs, StagedPCs, CleanPCs
<1>4. CASE phase[p] = "committed"
  <2>1. pc'[p] = "report" /\ "backup" \in suspect'[p]
    BY <1>4 DEF FailTransaction, Goto, Suspect, TypeOK
  <2>2. QED
    BY <1>1, <1>4, <2>1
       DEF LeftoverInv, PhaseAt, Noted, ValidationPCs, StagedPCs, CleanPCs
<1>5. QED
  BY <1>2, <1>3, <1>4 DEF FailTransaction

LEMMA EndedLeftovers ==
    ASSUME TypeOK, NEW p \in Writers, NEW code, LeftoverInv(p),
           RaiseAtOnce(p, code), staging[p].kind = "missing",
           backup[p].kind = "missing", UNCHANGED <<fsVars, phase, retained>>
    PROVE  LeftoverInv(p)'
<1>1. /\ staging'[p] = staging[p] /\ backup'[p] = backup[p]
      /\ phase'[p] = phase[p] /\ pc'[p] = "done"
  BY DEF fsVars, RaiseAtOnce, Goto, TypeOK
<1>2. QED
  BY <1>1
     DEF LeftoverInv, LeftoversNamed, PhaseAt, ValidationPCs, StagedPCs, CleanPCs

LEMMA ValidateLeftovers ==
    ASSUME TypeOK, NEW p \in Writers, LeftoverInv(p), Validate(p)
    PROVE  LeftoverInv(p)'
<1>1. /\ pc[p] \in ValidationPCs /\ UNCHANGED <<fsVars, phase, retained>>
      /\ \/ /\ pc'[p] \in ValidationPCs \cup {"generate", "stagingKind", "cleanScan"}
            /\ pc'[p] = "generate" => phase[p] = "open"
            /\ pc'[p] = "stagingKind" => phase[p] = "claimed"
            /\ pc'[p] = "cleanScan" => phase[p] = "committed"
            /\ UNCHANGED suspect
         \/ RejectValidation(p)
  BY Zenon
     DEF Validate, CheckKind, Scan, ReadManifest, ReadAdapter, ReadContract,
         CheckHashes, ValidationCall, TypeOK, Goto, ValidationPCs
<1>2. CASE phase[p] = "open" /\ RaiseAtOnce(p, "unowned")
  BY <1>1, <1>2, EndedLeftovers DEF LeftoverInv
<1>3. ASSUME NEW code, FailTransaction(p, code)
      PROVE  LeftoverInv(p)'
  BY <1>1, <1>3, FailedLeftovers DEF CleanPCs, ValidationPCs
<1>4. CASE UNCHANGED suspect /\ ~RejectValidation(p)
  <2>1. /\ staging'[p] = staging[p] /\ backup'[p] = backup[p]
        /\ phase'[p] = phase[p] /\ retained'[p] = retained[p]
        /\ suspect'[p] = suspect[p]
    BY <1>1, <1>4 DEF fsVars
  <2>2. QED
    BY <1>1, <1>4, <2>1
       DEF LeftoverInv, PhaseAt, Noted, ValidationPCs, StagedPCs, CleanPCs
<1>5. QED
  BY <1>1, <1>2, <1>3, <1>4 DEF RejectValidation

LEMMA StageLeftovers ==
    ASSUME TypeOK, NEW p \in Writers, LeftoverInv(p), Stage(p)
    PROVE  LeftoverInv(p)'
<1> USE DEF LeftoverInv, PhaseAt, Noted, ValidationPCs, StagedPCs, CleanPCs
<1>1. CASE CreateStaging(p)
  <2>1. CASE \E code : RaiseAtOnce(p, code) /\ UNCHANGED staging
    BY <1>1, <2>1, EndedLeftovers DEF CreateStaging, fsVars
  <2>2. CASE ~\E code : RaiseAtOnce(p, code) /\ UNCHANGED staging
    <3>1. /\ pc'[p] \in {"createStaging", "inspectStaging"} /\ phase'[p] = "open"
          /\ pc'[p] = "createStaging" => staging'[p] = staging[p]
          /\ backup'[p] = backup[p]
      BY <1>1, <2>2 DEF CreateStaging, Goto, TypeOK
    <3>2. QED
      BY <1>1, <3>1 DEF CreateStaging
  <2>3. QED
    BY <2>1, <2>2
<1>2. CASE InspectStaging(p)
  <2>1. /\ staging'[p] = staging[p] /\ backup'[p] = backup[p]
        /\ phase[p] = "open" /\ backup[p].kind = "missing"
        /\ \/ pc'[p] = "writeKind" /\ phase'[p] = "staged"
           \/ /\ pc'[p] \in {"createStaging", "done"} /\ phase'[p] = "open"
              /\ staging[p].kind = "missing"
           \/ pc'[p] = "done" /\ phase'[p] = "open" /\ "staging" \in retained'[p]
    BY <1>2 DEF InspectStaging, Goto, TypeOK, fsVars
  <2>2. QED
    BY <2>1 DEF LeftoversNamed
<1>3. CASE ~CreateStaging(p) /\ ~InspectStaging(p)
  <2>1. /\ pc[p] \in StagedPCs /\ UNCHANGED <<phase, backup, retained>>
        /\ \/ /\ pc'[p] \in StagedPCs \cup {"stagingKind"}
              /\ pc'[p] = "claim" => p \in Updaters
              /\ pc'[p] = "stagingKind" => p \notin Updaters
           \/ FailTransaction(p, "io") /\ UNCHANGED staging
    BY <1>3
       DEF Stage, WriteKind, WriteContract, WriteAdapter, WriteManifest,
           StagingCall, Goto, TypeOK
  <2>2. CASE FailTransaction(p, "io") /\ UNCHANGED staging
    <3>1. UNCHANGED fsVars
      BY <1>3, <2>2
         DEF Stage, WriteKind, WriteContract, WriteAdapter, WriteManifest,
             StagingCall, fsVars
    <3>2. QED
      BY <2>1, <2>2, <3>1, FailedLeftovers
  <2>3. CASE ~(FailTransaction(p, "io") /\ UNCHANGED staging)
    <3>1. phase'[p] = phase[p] /\ backup'[p] = backup[p] /\ phase[p] = "staged"
      BY <2>1
    <3>2. QED
      BY <2>1, <2>3, <3>1
  <2>4. QED
    BY <2>2, <2>3
<1>4. QED
  BY <1>1, <1>2, <1>3

LEMMA RenameLeftovers ==
    ASSUME TypeOK, NEW p \in Writers, LeftoverInv(p), Rename(p)
    PROVE  LeftoverInv(p)'
<1> USE DEF LeftoverInv, PhaseAt, Noted, ValidationPCs, StagedPCs, CleanPCs
<1>1. CASE \E code : FailTransaction(p, code) /\ UNCHANGED <<fsVars, phase>>
  BY <1>1, FailedLeftovers DEF Rename, Claim, StagingKind, Publish, Restore
<1>2. CASE ~\E code : FailTransaction(p, code) /\ UNCHANGED <<fsVars, phase>>
  <2>1. CASE Claim(p)
    <3>1. /\ p \in Updaters /\ phase[p] = "staged"
          /\ \/ pc'[p] = "checkKind" /\ phase'[p] = "claimed"
             \/ pc'[p] = "claim" /\ phase'[p] = phase[p] /\ backup'[p] = backup[p]
      BY <1>2, <2>1 DEF Claim, Goto, TypeOK, fsVars
    <3>2. QED
      BY <3>1
  <2>2. CASE StagingKind(p)
    <3>1. /\ pc[p] = "stagingKind" /\ pc'[p] = "publish" /\ phase'[p] = phase[p]
          /\ backup'[p] = backup[p]
      BY <1>2, <2>2 DEF StagingKind, Goto, TypeOK, fsVars
    <3>2. QED
      BY <3>1
  <2>3. CASE Publish(p)
    <3>1. /\ pc[p] = "publish" /\ pc'[p] = IF p \in Updaters THEN "checkKind" ELSE "done"
          /\ phase'[p] = "committed" /\ backup'[p] = backup[p]
          /\ staging'[p].kind = "missing"
      BY <1>2, <2>3 DEF Publish, Goto, TypeOK, fsVars, Missing
    <3>2. QED
      BY <3>1 DEF LeftoversNamed
  <2>4. CASE Restore(p)
    <3>1. /\ phase[p] = "claimed" /\ p \in Updaters
          /\ pc'[p] = "cleanScan" /\ phase'[p] = phase[p]
          /\ backup'[p].kind = "missing" \/ "backup" \in suspect'[p]
      BY <2>4 DEF Restore, Goto, Suspect, TypeOK, Missing
    <3>2. QED
      BY <3>1
  <2>5. QED
    BY <2>1, <2>2, <2>3, <2>4 DEF Rename
<1>3. QED
  BY <1>1, <1>2

\* A cleanup call fails, or deletes something in the directory it cleans.
CleanupWorks(p, from, to, after) ==
    /\ pc[p] = from /\ SetCleaned(p, after) /\ Goto(p, to)
    /\ UNCHANGED <<out, phase, readVars, tries, err, suspect, retained, edits>>

LEMMA CleanupCases ==
    ASSUME NEW p \in Writers, Clean(p), ~Report(p)
    PROVE  \/ /\ pc[p] \in CleanPCs /\ CleanupFails(p)
              /\ UNCHANGED <<out, phase, readVars, tries, retained, edits>>
           \/ CleanupWorks(p, "cleanScan", "unlinkAdapter", Cleaned(p))
           \/ CleanupWorks(p, "unlinkAdapter", "unlinkContract",
                           [Cleaned(p) EXCEPT !.files.adapter = None])
           \/ CleanupWorks(p, "unlinkContract", "unlinkManifest",
                           [Cleaned(p) EXCEPT !.files.contract = None])
           \/ CleanupWorks(p, "unlinkManifest", "removeDir",
                           [Cleaned(p) EXCEPT !.files.manifest = NoManifest])
           \/ CleanupWorks(p, "removeDir", "report", Missing)
BY Zenon
   DEF Clean, CleanScan, UnlinkAdapter, UnlinkContract, UnlinkManifest, RemoveDir,
       CleanupCall, CleanupWorks, CleanPCs

LEMMA CleanLeftovers ==
    ASSUME TypeOK, NEW p \in Writers, LeftoverInv(p), Clean(p)
    PROVE  LeftoverInv(p)'
<1> USE DEF LeftoverInv, PhaseAt, Noted, ValidationPCs, StagedPCs, CleanPCs
<1>1. CASE Report(p)
  <2>1. /\ pc[p] = "report" /\ phase'[p] = phase[p]
        /\ staging'[p] = staging[p] /\ backup'[p] = backup[p]
    BY <1>1 DEF Report, fsVars
  <2>2. CASE suspect[p] = {} /\ Goto(p, "done") /\ UNCHANGED <<suspect, retained>>
    <3>1. pc'[p] = "done" /\ retained'[p] = retained[p]
      BY <2>2 DEF Goto, TypeOK
    <3>2. QED
      BY <2>1, <2>2, <3>1 DEF LeftoversNamed
  <2>3. CASE "backup" \in suspect[p] /\ UNCHANGED pc
    <3>1. /\ pc'[p] = "report"
          /\ backup[p].kind # "missing" => "backup" \in retained'[p]
          /\ "staging" \in suspect[p] => "staging" \in suspect'[p]
          /\ "staging" \in retained[p] => "staging" \in retained'[p]
      BY <1>1, <2>1, <2>3 DEF Report, TypeOK
    <3>2. QED
      BY <2>1, <3>1
  <2>4. CASE suspect[p] = {"staging"} /\ UNCHANGED pc
    <3>1. /\ pc'[p] = "report"
          /\ staging[p].kind # "missing" => "staging" \in retained'[p]
          /\ "backup" \in retained[p] => "backup" \in retained'[p]
      BY <1>1, <2>1, <2>4 DEF Report, TypeOK
    <3>2. QED
      BY <2>1, <2>4, <3>1
  <2>5. QED
    BY <1>1, <2>2, <2>3, <2>4 DEF Report
<1>2. CASE ~Report(p)
  <2>1. \/ pc[p] \in CleanPCs /\ CleanupFails(p) /\ UNCHANGED <<phase, retained>>
        \/ \E from \in CleanPCs, to \in CleanPCs \cup {"report"} : \E after :
              CleanupWorks(p, from, to, after) /\ (to = "report" => after = Missing)
    <3>1. ASSUME NEW from \in CleanPCs, NEW to \in CleanPCs, NEW after,
                 CleanupWorks(p, from, to, after)
          PROVE  \E f \in CleanPCs, t \in CleanPCs \cup {"report"} : \E a :
                    CleanupWorks(p, f, t, a) /\ (t = "report" => a = Missing)
      BY <3>1 DEF CleanPCs
    <3>2. CASE CleanupWorks(p, "removeDir", "report", Missing)
      BY <3>2 DEF CleanPCs
    <3>3. CASE /\ pc[p] \in CleanPCs /\ CleanupFails(p)
               /\ UNCHANGED <<out, phase, readVars, tries, retained, edits>>
      BY <3>3
    <3>4. /\ "cleanScan" \in CleanPCs /\ "unlinkAdapter" \in CleanPCs
          /\ "unlinkContract" \in CleanPCs /\ "unlinkManifest" \in CleanPCs
          /\ "removeDir" \in CleanPCs
      BY DEF CleanPCs
    <3>5. QED
      BY <1>2, <3>1, <3>2, <3>3, <3>4, CleanupCases
  <2>3. /\ pc[p] \in CleanPCs /\ phase'[p] = phase[p]
        /\ phase[p] = "committed" => staging'[p] = staging[p]
        /\ phase[p] # "committed" => backup'[p] = backup[p]
        /\ retained'[p] = retained[p] /\ phase[p] \in Phases
    BY <2>1 DEF CleanupWorks, CleanupFails, SetCleaned, TypeOK
  <2>4. CASE CleanupFails(p)
    <3>1. /\ pc'[p] = "report" /\ staging'[p] = staging[p] /\ backup'[p] = backup[p]
          /\ CleanedRole(p) \in suspect'[p]
          /\ "backup" \in suspect[p] => "backup" \in suspect'[p]
      BY <2>4 DEF CleanupFails, Suspect, Goto, TypeOK
    <3>2. QED
      BY <2>3, <3>1 DEF CleanedRole, Phases
  <2>5. ASSUME NEW from \in CleanPCs, NEW to \in CleanPCs \cup {"report"}, NEW after,
               CleanupWorks(p, from, to, after), to = "report" => after = Missing
        PROVE  LeftoverInv(p)'
    <3>1. pc'[p] = to /\ suspect'[p] = suspect[p]
      BY <2>5 DEF CleanupWorks, Goto, TypeOK
    <3>2. to = "report" => IF phase[p] = "committed" THEN backup'[p].kind = "missing"
                                                   ELSE staging'[p].kind = "missing"
      BY <2>5 DEF CleanupWorks, SetCleaned, TypeOK, Missing
    <3>3. QED
      BY <2>3, <3>1, <3>2 DEF Phases
  <2>6. QED
    BY <2>1, <2>4, <2>5
<1>3. QED
  BY <1>1, <1>2

LEMMA StepLeftovers ==
    ASSUME TypeOK, NEW p \in Writers, LeftoverInv(p), Step(p)
    PROVE  LeftoverInv(p)'
<1>1. CASE Generate(p) \/ RequireAbsent(p)
  <2>1. /\ pc[p] \in {"generate", "requireAbsent"}
        /\ UNCHANGED <<fsVars, phase, retained>>
        /\ \/ /\ pc'[p] \in {"requireAbsent", "createStaging", "done"}
              /\ pc'[p] = "requireAbsent" => p \notin Updaters
           \/ \E code : RaiseAtOnce(p, code)
    BY <1>1 DEF Generate, RequireAbsent, Goto, TypeOK
  <2>2. /\ staging'[p] = staging[p] /\ backup'[p] = backup[p]
        /\ phase'[p] = phase[p] /\ phase[p] = "open"
        /\ staging[p].kind = "missing" /\ backup[p].kind = "missing"
    BY <2>1 DEF LeftoverInv, PhaseAt, fsVars
  <2>3. CASE \E code : RaiseAtOnce(p, code)
    BY <2>1, <2>2, <2>3, EndedLeftovers
  <2>4. CASE /\ pc'[p] \in {"requireAbsent", "createStaging", "done"}
             /\ pc'[p] = "requireAbsent" => p \notin Updaters
    BY <2>2, <2>4
       DEF LeftoverInv, LeftoversNamed, PhaseAt, ValidationPCs, StagedPCs, CleanPCs
  <2>5. QED
    BY <2>1, <2>3, <2>4
<1>2. QED
  BY <1>1, ValidateLeftovers, StageLeftovers, RenameLeftovers, CleanLeftovers
     DEF Step

LEMMA EnvironmentLeftovers ==
    ASSUME TypeOK, NEW q \in Writers, LeftoverInv(q), Environment
    PROVE  LeftoverInv(q)'
<1>1. CASE \E p \in Writers : Crash(p)
  <2>1. /\ staging'[q] = staging[q] /\ backup'[q] = backup[q]
        /\ phase'[q] = phase[q] /\ suspect'[q] = suspect[q]
        /\ retained'[q] = retained[q]
        /\ pc'[q] = pc[q] \/ pc'[q] = "crashed"
    BY <1>1 DEF Crash, Goto, TypeOK, fsVars, repVars
  <2>2. QED
    BY <2>1
       DEF LeftoverInv, LeftoversNamed, PhaseAt, Noted, ValidationPCs, StagedPCs,
           CleanPCs
<1>2. CASE ~\E p \in Writers : Crash(p)
  <2>1. UNCHANGED <<pc, phase, suspect, retained>>
    BY <1>2
       DEF Environment, EditFile, ReplaceOutput, EditThroughHandle,
           RemoveSibling, NoCall, repVars
  <2>2. /\ staging'[q].kind \in {staging[q].kind, "missing"}
        /\ backup'[q].kind \in {backup[q].kind, "missing"}
    <3>1. CASE EditFile \/ ReplaceOutput
      BY <3>1 DEF EditFile, ReplaceOutput
    <3>2. ASSUME NEW p \in Writers, EditThroughHandle(p)
          PROVE  staging' = staging /\ backup'[q].kind = backup[q].kind
      BY <3>2 DEF EditThroughHandle, TypeOK, Entry
    <3>3. ASSUME NEW p \in Writers, RemoveSibling(p)
          PROVE  /\ staging'[q].kind \in {staging[q].kind, "missing"}
                 /\ backup'[q].kind \in {backup[q].kind, "missing"}
      BY <3>3 DEF RemoveSibling, TypeOK, Missing
    <3>4. QED
      BY <1>2, <3>1, <3>2, <3>3 DEF Environment
  <2>3. QED
    BY <2>1, <2>2 DEF LeftoverInv, LeftoversNamed, PhaseAt, Noted
<1>3. QED
  BY <1>1, <1>2

\* At every moment, what an invocation has on disk is accounted for.
THEOREM LeftoverInvariant == Spec => [](\A p \in Writers : LeftoverInv(p))
<1> DEFINE Inv == \A p \in Writers : LeftoverInv(p)
<1>1. Init => Inv
  BY DEF Init, LeftoverInv, PhaseAt, Missing, ValidationPCs, StagedPCs, CleanPCs
<1>2. TypeOK /\ Inv /\ [Next]_vars => Inv'
  <2>1. ASSUME TypeOK, Inv, NEW p \in Writers, Step(p)
        PROVE  Inv'
    <3>1. LeftoverInv(p)'
      BY <2>1, StepLeftovers
    <3>2. OthersKept(p) /\ ReportsKept(p)
      BY <2>1, StepKeepsOthers, StepKeepsReports
    <3>3. QED
      BY <2>1, <3>1, <3>2, OthersLeftovers
  <2>2. ASSUME Inv, UNCHANGED vars
        PROVE  Inv'
    BY <2>2 DEF vars, LeftoverInv, LeftoversNamed, PhaseAt, Noted
  <2>3. QED
    BY <2>1, <2>2, EnvironmentLeftovers DEF Next
<1> HIDE DEF Inv
<1>3. Spec => []Inv
  BY <1>1, <1>2, TypeCorrect, PTL DEF Spec
<1>4. QED
  BY <1>3 DEF Inv

\* An invocation that ends leaves no staging and no backup directory that its
\* error does not name, whatever calls fail and whoever edits, deletes or moves
\* what it works on.
THEOREM LeftoversAreReported == Spec => []LeftoversReported
<1>1. (\A p \in Writers : LeftoverInv(p)) => LeftoversReported
  BY DEF LeftoverInv, LeftoversReported
<1>2. QED
  BY <1>1, LeftoverInvariant, PTL

-----------------------------------------------------------------------------
(* Until somebody changes what has been set aside: an update replaces and  *)
(* deletes exactly what it validated.                                      *)

LEMMA ValidateKeepsSnapshot ==
    ASSUME TypeOK, NEW p \in Updaters, LeftoverInv(p), BackupAsValidated(p),
           Validate(p)
    PROVE  BackupAsValidated(p)'
<1>1. /\ pc[p] \in ValidationPCs /\ phase'[p] = phase[p]
      /\ backup'[p] = backup[p] /\ reading[p] \in Files /\ expected[p] \in Files
      /\ backup[p] \in Entry
      /\ phase[p] # "open" => expected'[p] = expected[p]
  BY DEF TypeOK, Validate, CheckKind, Scan, ReadManifest, ReadAdapter,
         ReadContract, CheckHashes, ValidationCall, ValidationPCs, fsVars
<1>2. phase[p] \in {"open", "claimed", "committed"}
  BY <1>1 DEF LeftoverInv, PhaseAt
<1>3. CASE RejectValidation(p) \/ phase[p] = "open"
  <2>1. phase[p] # "open" => pc'[p] \in {"restore", "report"}
    BY <1>1, <1>2, <1>3 DEF RejectValidation, FailTransaction, Goto, TypeOK
  <2>2. QED
    BY <1>1, <1>2, <2>1 DEF BackupAsValidated, BackupAsRead, ValidationPCs, CleanPCs
<1>4. CASE phase[p] = "committed" /\ ~RejectValidation(p)
  <2>1. pc'[p] \in ValidationPCs \cup {"cleanScan"}
    BY <1>4
       DEF TypeOK, Validate, CheckKind, Scan, ReadManifest, ReadAdapter,
           ReadContract, CheckHashes, ValidationCall, ValidationPCs, Goto
  <2>2. backup[p] = Directory(expected[p])
    BY <1>1, <1>4 DEF BackupAsValidated
  <2>3. OnlyValidated(p)'
    BY <1>1, <1>4, <2>2 DEF OnlyValidated, Remnant, Directory
  <2>4. QED
    BY <1>1, <1>4, <2>1, <2>2, <2>3 DEF BackupAsValidated
<1>5. CASE phase[p] = "claimed" /\ ~RejectValidation(p)
  <2> USE <1>1, <1>5 DEF BackupAsValidated, BackupAsRead, Goto, ValidationPCs, CleanPCs
  <2>1. Inspected(p) = backup[p]
    BY DEF Inspected
  <2>2. CASE CheckKind(p) \/ Scan(p)
    <3>1. /\ pc'[p] \in {"scan", "readManifest"}
          /\ pc'[p] = "readManifest" => ExactFileSet(backup[p])
      BY <2>1, <2>2 DEF CheckKind, Scan, ValidationCall, TypeOK
    <3>2. QED
      BY <3>1 DEF ExactFileSet
  <2>3. CASE ReadManifest(p)
    <3>1. pc[p] = "readManifest" /\ pc'[p] = "readAdapter"
      BY <2>3 DEF ReadManifest, ValidationCall, TypeOK
    <3>2. reading'[p] = [reading[p] EXCEPT !.manifest = backup[p].files.manifest]
      BY <2>1, <2>3 DEF ReadManifest, ValidationCall, TypeOK
    <3>3. QED
      BY <3>1, <3>2 DEF Files
  <2>4. CASE ReadAdapter(p)
    <3>1. pc[p] = "readAdapter" /\ pc'[p] = "readContract"
      BY <2>4 DEF ReadAdapter, ValidationCall, TypeOK
    <3>2. reading'[p] = [reading[p] EXCEPT !.adapter = backup[p].files.adapter]
      BY <2>1, <2>4 DEF ReadAdapter, ValidationCall, TypeOK
    <3>3. QED
      BY <3>1, <3>2 DEF Files
  <2>5. CASE ReadContract(p)
    <3>1. pc[p] = "readContract" /\ pc'[p] = "checkHashes"
      BY <2>5 DEF ReadContract, ValidationCall, TypeOK
    <3>2. reading'[p] = [reading[p] EXCEPT !.contract = backup[p].files.contract]
      BY <2>1, <2>5 DEF ReadContract, ValidationCall, TypeOK
    <3>3. QED
      BY <3>1, <3>2 DEF Files
  <2>6. CASE CheckHashes(p)
    <3>1. /\ pc[p] = "checkHashes" /\ pc'[p] = "stagingKind"
          /\ reading[p] = expected[p]
      BY <2>6 DEF CheckHashes, SameSnapshot, TypeOK
    <3>2. backup[p].files = reading[p]
      BY <3>1 DEF Files, Entry
    <3>3. backup[p] = Directory(expected[p])
      BY <3>1, <3>2 DEF Directory, Entry
    <3>4. QED
      BY <3>1, <3>3
  <2>7. QED
    BY <2>2, <2>3, <2>4, <2>5, <2>6 DEF Validate
<1>6. QED
  BY <1>2, <1>3, <1>4, <1>5

LEMMA RenameKeepsSnapshot ==
    ASSUME TypeOK, NEW p \in Updaters, LeftoverInv(p), BackupAsValidated(p),
           Rename(p)
    PROVE  BackupAsValidated(p)'
<1> USE DEF BackupAsValidated, BackupAsRead, Goto, ValidationPCs, CleanPCs
<1>1. PhaseAt(p) /\ expected'[p] = expected[p]
  BY DEF LeftoverInv, Rename, Claim, StagingKind, Publish, Restore, readVars
<1>2. CASE \E code : FailTransaction(p, code) /\ UNCHANGED phase
  <2>1. pc[p] \in {"claim", "stagingKind", "publish"} /\ phase'[p] = phase[p]
    BY <1>2
       DEF Rename, Claim, StagingKind, Publish, Restore, FailTransaction, TypeOK,
           LeftoverInv, PhaseAt
  <2>2. \/ phase[p] = "staged"
        \/ phase[p] = "claimed" /\ pc'[p] = "restore"
    BY <1>1, <1>2, <2>1 DEF FailTransaction, TypeOK, PhaseAt, StagedPCs
  <2>3. QED
    BY <2>1, <2>2
<1>3. CASE ~\E code : FailTransaction(p, code) /\ UNCHANGED phase
  <2>1. CASE Claim(p)
    <3>1. \/ pc'[p] = "checkKind" /\ phase'[p] = "claimed"
          \/ phase'[p] = "staged"
      BY <1>1, <1>3, <2>1 DEF Claim, TypeOK, PhaseAt, StagedPCs
    <3>2. QED
      BY <3>1
  <2>2. CASE StagingKind(p)
    <3>1. /\ pc[p] = "stagingKind" /\ pc'[p] = "publish" /\ phase[p] = "claimed"
          /\ backup'[p] = backup[p] /\ phase'[p] = phase[p]
      BY <1>1, <1>3, <2>2 DEF StagingKind, TypeOK, PhaseAt, fsVars
    <3>2. QED
      BY <1>1, <3>1
  <2>3. CASE Publish(p)
    <3>1. /\ pc[p] = "publish" /\ pc'[p] = "checkKind" /\ phase[p] = "claimed"
          /\ backup'[p] = backup[p] /\ phase'[p] = "committed"
      BY <1>1, <1>3, <2>3 DEF Publish, TypeOK, PhaseAt
    <3>2. QED
      BY <1>1, <3>1
  <2>4. CASE Restore(p)
    <3>1. pc'[p] = "cleanScan" /\ phase'[p] = "claimed"
      BY <1>1, <2>4 DEF Restore, TypeOK, PhaseAt
    <3>2. QED
      BY <3>1
  <2>5. QED
    BY <2>1, <2>2, <2>3, <2>4 DEF Rename
<1>4. QED
  BY <1>2, <1>3

\* What is deleted file by file stays a part of what it was.
LEMMA RemnantShrinks ==
    ASSUME NEW d \in Entry, NEW snapshot, Remnant(d, snapshot)
    PROVE  /\ Remnant([d EXCEPT !.files.adapter = None], snapshot)
           /\ Remnant([d EXCEPT !.files.contract = None], snapshot)
           /\ Remnant([d EXCEPT !.files.manifest = NoManifest], snapshot)
BY DEF Entry, Files, Remnant

LEMMA CleanKeepsSnapshot ==
    ASSUME TypeOK, NEW p \in Updaters, LeftoverInv(p), BackupAsValidated(p),
           Clean(p)
    PROVE  BackupAsValidated(p)'
<1> USE DEF BackupAsValidated, BackupAsRead, ValidationPCs, CleanPCs
<1>1. CASE Report(p) \/ CleanupFails(p)
  <2>1. pc'[p] \in {"report", "done"}
    BY <1>1 DEF Report, CleanupFails, Goto, TypeOK
  <2>2. QED
    BY <2>1
<1>2. ASSUME NEW from \in CleanPCs, NEW to \in CleanPCs \ {"cleanScan"}, NEW after,
             CleanupWorks(p, from, to, after),
             phase[p] = "committed" => Remnant(after, expected[p])
      PROVE  BackupAsValidated(p)'
  <2>1. /\ pc'[p] = to /\ phase'[p] = phase[p] /\ expected'[p] = expected[p]
        /\ phase[p] = "committed" => backup'[p] = after
    BY <1>2 DEF CleanupWorks, SetCleaned, Goto, TypeOK, readVars
  <2>2. QED
    BY <1>2, <2>1 DEF OnlyValidated
<1>3. CASE CleanupWorks(p, "removeDir", "report", Missing)
  <2>1. pc'[p] = "report"
    BY <1>3 DEF CleanupWorks, Goto, TypeOK
  <2>2. QED
    BY <2>1
<1>4. ASSUME phase[p] = "committed", pc[p] \in CleanPCs
      PROVE  /\ Remnant(Cleaned(p), expected[p])
             /\ Remnant([Cleaned(p) EXCEPT !.files.adapter = None], expected[p])
             /\ Remnant([Cleaned(p) EXCEPT !.files.contract = None], expected[p])
             /\ Remnant([Cleaned(p) EXCEPT !.files.manifest = NoManifest], expected[p])
  <2>1. Cleaned(p) \in Entry /\ Remnant(Cleaned(p), expected[p])
    BY <1>4 DEF Cleaned, TypeOK, OnlyValidated
  <2>2. QED
    BY <2>1, RemnantShrinks
<1>5. QED
  <2>1. CASE CleanupWorks(p, "cleanScan", "unlinkAdapter", Cleaned(p))
    BY <1>2, <1>4, <2>1 DEF CleanupWorks
  <2>2. CASE CleanupWorks(p, "unlinkAdapter", "unlinkContract",
                          [Cleaned(p) EXCEPT !.files.adapter = None])
    BY <1>2, <1>4, <2>2 DEF CleanupWorks
  <2>3. CASE CleanupWorks(p, "unlinkContract", "unlinkManifest",
                          [Cleaned(p) EXCEPT !.files.contract = None])
    BY <1>2, <1>4, <2>3 DEF CleanupWorks
  <2>4. CASE CleanupWorks(p, "unlinkManifest", "removeDir",
                          [Cleaned(p) EXCEPT !.files.manifest = NoManifest])
    BY <1>2, <1>4, <2>4 DEF CleanupWorks
  <2>5. QED
    BY <1>1, <1>3, <2>1, <2>2, <2>3, <2>4, CleanupCases

LEMMA StepKeepsSnapshot ==
    ASSUME TypeOK, NEW p \in Updaters, LeftoverInv(p), BackupAsValidated(p),
           Step(p)
    PROVE  BackupAsValidated(p)'
<1>1. CASE Generate(p) \/ RequireAbsent(p) \/ Stage(p)
  <2>1. phase'[p] \in {"open", "staged"}
    BY <1>1
       DEF TypeOK, LeftoverInv, PhaseAt, StagedPCs, Generate, RequireAbsent, Stage,
           CreateStaging, InspectStaging, WriteKind, WriteContract, WriteAdapter,
           WriteManifest, StagingCall
  <2>2. QED
    BY <2>1 DEF BackupAsValidated
<1>2. QED
  BY <1>1, ValidateKeepsSnapshot, RenameKeepsSnapshot, CleanKeepsSnapshot DEF Step

LEMMA OthersSnapshot ==
    ASSUME NEW p \in Writers, NEW q \in Updaters \ {p}, OthersKept(p),
           BackupAsValidated(q)
    PROVE  BackupAsValidated(q)'
BY DEF OthersKept, BackupAsValidated, BackupAsRead, OnlyValidated, Remnant

\* What has been set aside stays untouched only while nobody edits it.
LEMMA TouchedByEdits ==
    ASSUME TypeOK, Environment, Untouched'
    PROVE  /\ Untouched /\ UNCHANGED <<backup, phase, expected, reading>>
           /\ \A q \in Writers : pc'[q] \in {pc[q], "crashed"}
<1>1. edits.aside \in Nat /\ edits \in [output : Nat, aside : Nat]
  BY BoundsAssumption DEF TypeOK, EditCounts
<1>2. ~\E p \in Writers : EditThroughHandle(p) \/ RemoveSibling(p)
  <2>1. edits' = [edits EXCEPT !.aside = @ + 1] => edits'.aside = edits.aside + 1
    BY <1>1
  <2>2. QED
    BY <1>1, <2>1 DEF EditThroughHandle, RemoveSibling, EditsAside, Untouched
<1>3. edits'.aside = edits.aside
  BY <1>1, <1>2 DEF Environment, EditFile, ReplaceOutput, EditsOutput, Crash
<1>4. QED
  BY <1>2, <1>3
     DEF Environment, EditFile, ReplaceOutput, Crash, Goto, NoCall, TypeOK, fsVars,
         readVars, Untouched

\* No call of an invocation counts as an edit.
LEMMA StepsTouchNothing ==
    ASSUME NEW p \in Writers, Step(p)
    PROVE  edits' = edits
BY CleanupCases
   DEF Step, Validate, CheckKind, Scan, ReadManifest, ReadAdapter, ReadContract,
       CheckHashes, ValidationCall, Generate, RequireAbsent, Stage, CreateStaging,
       InspectStaging, WriteKind, WriteContract, WriteAdapter, WriteManifest,
       StagingCall, Rename, Claim, StagingKind, Publish, Restore, CleanupFails,
       CleanupWorks, Report

\* While an update goes on, its backup is what it has validated so far, until
\* somebody changes what has been set aside.
THEOREM SnapshotInvariant == Spec => [](Untouched => SnapshotInv)
<1> DEFINE Accounted == \A p \in Writers : LeftoverInv(p)
<1>1. Init => SnapshotInv
  BY DEF Init, SnapshotInv, BackupAsValidated
<1>2. TypeOK /\ Accounted /\ (Untouched => SnapshotInv) /\ [Next]_vars =>
          (Untouched => SnapshotInv)'
  <2> SUFFICES ASSUME TypeOK, Accounted, Untouched => SnapshotInv, [Next]_vars,
                      Untouched', NEW q \in Updaters
               PROVE  BackupAsValidated(q)'
    BY DEF SnapshotInv
  <2>0. Untouched
    BY TouchedByEdits, StepsTouchNothing DEF Next, vars, Untouched
  <2>1. BackupAsValidated(q)
    BY <2>0 DEF SnapshotInv
  <2>2. ASSUME NEW p \in Writers, Step(p)
        PROVE  BackupAsValidated(q)'
    <3>1. CASE p = q
      BY <2>1, <2>2, <3>1, StepKeepsSnapshot
    <3>2. CASE p # q
      BY <2>1, <2>2, <3>2, StepKeepsOthers, OthersSnapshot
    <3>3. QED
      BY <3>1, <3>2
  <2>3. CASE Environment
    <3>1. /\ UNCHANGED <<backup, phase, expected, reading>>
          /\ pc'[q] \in {pc[q], "crashed"}
      BY <2>3, TouchedByEdits
    <3>2. QED
      BY <2>1, <3>1
         DEF BackupAsValidated, BackupAsRead, OnlyValidated, ValidationPCs, CleanPCs
  <2>4. CASE UNCHANGED vars
    BY <2>1, <2>4 DEF vars, BackupAsValidated, BackupAsRead, OnlyValidated
  <2>5. QED
    BY <2>2, <2>3, <2>4 DEF Next
<1> HIDE DEF Accounted
<1>3. Spec => []Accounted
  BY LeftoverInvariant DEF Accounted
<1>4. QED
  BY <1>1, <1>2, <1>3, TypeCorrect, PTL DEF Spec

\* An update publishes only over the very snapshot it validated, and deletes
\* only files of that snapshot, whoever edits, replaces or claims the output
\* and whichever calls fail, until somebody changes what has been set aside.
THEOREM UpdatesReplaceValidated == Spec => UpdateReplacesValidated
<1> DEFINE Accounted == \A p \in Writers : LeftoverInv(p)
<1> DEFINE Replacement(p) ==
        /\ phase[p] = "claimed" /\ phase'[p] = "committed" =>
              backup[p] = Directory(expected[p])
        /\ phase[p] = "committed" /\ pc[p] \in {"unlinkAdapter", "unlinkContract",
                                                "unlinkManifest", "removeDir"} =>
              OnlyValidated(p)
<1>1. ASSUME TypeOK, Accounted, Untouched => SnapshotInv, Untouched, Next,
             NEW p \in Updaters
      PROVE  Replacement(p)
  <2>1. BackupAsValidated(p)
    BY <1>1 DEF SnapshotInv
  <2>2. ASSUME phase[p] = "claimed", phase'[p] = "committed"
        PROVE  pc[p] = "publish"
    <3>1. PICK q \in Writers : Step(q)
      BY <1>1, <2>2
         DEF Next, Environment, EditFile, ReplaceOutput, EditThroughHandle,
             RemoveSibling, Crash, NoCall
    <3>2. q = p
      BY <1>1, <2>2, <3>1, StepKeepsOthers DEF OthersKept
    <3>3. ~Clean(p)
      BY <2>2, CleanupCases DEF CleanupWorks, Report
    <3>4. QED
      BY <1>1, <2>2, <3>1, <3>2, <3>3
         DEF TypeOK, Step, Validate, CheckKind, Scan, ReadManifest, ReadAdapter,
             ReadContract, CheckHashes, ValidationCall, Generate, RequireAbsent,
             Stage, CreateStaging, InspectStaging, WriteKind, WriteContract,
             WriteAdapter, WriteManifest, StagingCall, Rename, Claim, StagingKind,
             Publish, Restore
  <2>3. QED
    BY <2>1, <2>2 DEF BackupAsValidated, CleanPCs
<1>2. TypeOK /\ Accounted /\ (Untouched => SnapshotInv) /\ [Next]_vars =>
          [\A p \in Updaters : Untouched => Replacement(p)]_vars
  BY <1>1
<1> HIDE DEF Accounted
<1>3. Spec => []Accounted
  BY LeftoverInvariant DEF Accounted
<1>4. QED
  BY <1>2, <1>3, SnapshotInvariant, TypeCorrect, PTL DEF Spec, UpdateReplacesValidated

-----------------------------------------------------------------------------
(* Without edits: no resource-aware output is replaced.                    *)

\* Every invocation's files, apart from those of the one that steps.
LEMMA CallsOnlyEnvironment ==
    ASSUME CallsOnly, TypeOK, Environment
    PROVE  /\ UNCHANGED <<out, staging, backup, phase, expected, reading>>
           /\ \A q \in Writers : pc'[q] \in {pc[q], "crashed"}
BY DEF CallsOnly, Environment, EditFile, ReplaceOutput, EditsOutput,
       EditThroughHandle, RemoveSibling, Crash, Goto, TypeOK, fsVars, readVars

\* Which calls move what: a step that is no rename and no cleanup leaves the
\* output and the backups alone.
LEMMA OtherSteps ==
    ASSUME TypeOK, NEW p \in Writers, LeftoverInv(p), Step(p), ~Rename(p), ~Clean(p)
    PROVE  /\ UNCHANGED <<out, backup>>
           /\ phase'[p] = "committed" <=> phase[p] = "committed"
<1>1. CASE Stage(p)
  <2>1. phase[p] \in {"open", "staged"}
    BY <1>1
       DEF Stage, CreateStaging, InspectStaging, WriteKind, WriteContract,
           WriteAdapter, WriteManifest, StagingCall, LeftoverInv, PhaseAt, StagedPCs
  <2>2. UNCHANGED <<out, backup>> /\ phase'[p] \in {phase[p], "staged"}
    BY <1>1
       DEF Stage, CreateStaging, InspectStaging, WriteKind, WriteContract,
           WriteAdapter, WriteManifest, StagingCall, TypeOK, fsVars
  <2>3. QED
    BY <2>1, <2>2
<1>2. CASE Validate(p) \/ Generate(p) \/ RequireAbsent(p)
  BY <1>2
     DEF Validate, CheckKind, Scan, ReadManifest, ReadAdapter, ReadContract,
         CheckHashes, ValidationCall, Generate, RequireAbsent, fsVars
<1>3. QED
  BY <1>1, <1>2 DEF Step

\* An update that goes on did not validate a resource-aware output.
LEMMA StepReplaceable ==
    ASSUME TypeOK, NEW p \in Updaters, LeftoverInv(p), Replaceable(p), Step(p)
    PROVE  Replaceable(p)'
<1> USE DEF Replaceable, DropsResourceChecks, TypeOK, Goto
<1>1. CASE Validate(p)
  <2>1. phase'[p] = phase[p] /\ pc'[p] \notin {"createStaging", "inspectStaging"}
    BY <1>1
       DEF Validate, CheckKind, Scan, ReadManifest, ReadAdapter, ReadContract,
           CheckHashes, ValidationCall, RejectValidation, RaiseAtOnce, FailTransaction
  <2>2. phase[p] # "open" => expected'[p] = expected[p]
    BY <1>1
       DEF Validate, CheckKind, Scan, ReadManifest, ReadAdapter, ReadContract,
           CheckHashes, ValidationCall
  <2>3. QED
    BY <2>1, <2>2
<1>2. CASE Generate(p)
  <2>1. /\ pc[p] = "generate" /\ phase'[p] = phase[p] /\ expected'[p] = expected[p]
        /\ pc'[p] = "done" \/ ~DropsResourceChecks(p)
    BY <1>2 DEF Generate, RaiseAtOnce, readVars
  <2>2. QED
    BY <2>1 DEF LeftoverInv, PhaseAt
<1>3. CASE RequireAbsent(p)
  <2>1. FALSE
    BY <1>3 DEF RequireAbsent, LeftoverInv, PhaseAt
  <2>2. QED
    BY <2>1
<1>4. CASE Stage(p)
  <2>1. /\ expected'[p] = expected[p]
        /\ phase[p] # "open" \/ pc[p] \in {"createStaging", "inspectStaging"}
    BY <1>4
       DEF Stage, CreateStaging, InspectStaging, WriteKind, WriteContract,
           WriteAdapter, WriteManifest, StagingCall, readVars, LeftoverInv, PhaseAt,
           StagedPCs
  <2>2. QED
    BY <2>1
<1>5. CASE Rename(p)
  <2>1. phase[p] # "open" /\ expected'[p] = expected[p]
    BY <1>5
       DEF Rename, Claim, StagingKind, Publish, Restore, LeftoverInv, PhaseAt,
           StagedPCs, readVars
  <2>2. QED
    BY <2>1
<1>6. CASE Clean(p)
  <2>1. /\ phase'[p] = phase[p] /\ expected'[p] = expected[p]
        /\ pc'[p] \notin {"createStaging", "inspectStaging"}
    BY <1>6, CleanupCases DEF Report, CleanupFails, CleanupWorks, readVars
  <2>2. QED
    BY <2>1
<1>7. QED
  BY <1>1, <1>2, <1>3, <1>4, <1>5, <1>6 DEF Step

LEMMA EnvironmentReplaceable ==
    ASSUME CallsOnly, TypeOK, NEW q \in Updaters, Replaceable(q), Environment
    PROVE  Replaceable(q)'
BY CallsOnlyEnvironment DEF Replaceable, DropsResourceChecks

\* The files of one resource-aware generation stay where they are or move as a
\* whole.
LEMMA StepKeepsResource ==
    ASSUME TypeOK, NEW p \in Writers, Step(p), LeftoverInv(p),
           \A q \in Updaters : Replaceable(q) /\ BackupAsValidated(q),
           NEW a \in ResourceAware, Kept(a)
    PROVE  Kept(a)'
<1> USE DEF Kept, TypeOK
<1>1. ASSUME NEW d, Holds(d, a)
      PROVE  d.kind = "directory" /\ d.files.adapter = a /\ a # None
  BY <1>1 DEF Holds, Whole, ExactFileSet
<1>2. CASE Clean(p)
  <2>1. UNCHANGED out
    BY <1>2, CleanupCases DEF Report, CleanupFails, CleanupWorks, fsVars
  <2>2. ASSUME NEW q \in Updaters, Holds(backup[q], a)
        PROVE  backup'[q] = backup[q]
    <3>1. CASE q # p
      BY <1>2, <3>1, CleanupCases
         DEF Report, CleanupFails, CleanupWorks, SetCleaned, fsVars
    <3>2. CASE q = p /\ phase[p] = "committed" /\ pc[p] \in CleanPCs
      <4>1. Remnant(backup[p], expected[p])
        BY <3>2 DEF BackupAsValidated, OnlyValidated
      <4>2. expected[p].adapter \notin ResourceAware
        BY <3>2 DEF Replaceable, DropsResourceChecks
      <4>3. QED
        BY <1>1, <2>2, <3>2, <4>1, <4>2 DEF Remnant
    <3>3. CASE phase[p] # "committed" \/ pc[p] \notin CleanPCs
      BY <1>2, <3>3, CleanupCases
         DEF Report, CleanupFails, CleanupWorks, SetCleaned, fsVars, CleanPCs
    <3>4. QED
      BY <3>1, <3>2, <3>3
  <2>3. QED
    BY <2>1, <2>2
<1>3. CASE Rename(p)
  <2>1. CASE UNCHANGED <<out, backup>>
    BY <2>1
  <2>2. CASE Claim(p) /\ ~UNCHANGED <<out, backup>>
    <3>1. /\ p \in Updaters /\ backup[p].kind = "missing"
          /\ backup' = [backup EXCEPT ![p] = out]
      BY <2>2 DEF Claim, RenameNoReplace, LeftoverInv, PhaseAt
    <3>2. QED
      BY <1>1, <3>1
  <2>3. CASE Publish(p) /\ ~UNCHANGED <<out, backup>>
    <3>1. out.kind = "missing" /\ backup' = backup
      BY <2>3 DEF Publish, RenameNoReplace
    <3>2. QED
      BY <1>1, <3>1
  <2>4. CASE Restore(p) /\ ~UNCHANGED <<out, backup>>
    <3>1. /\ out.kind = "missing" /\ out' = backup[p]
          /\ backup' = [backup EXCEPT ![p] = Missing]
      BY <2>4 DEF Restore, RenameNoReplace
    <3>2. QED
      BY <1>1, <3>1
  <2>5. QED
    BY <1>3, <2>1, <2>2, <2>3, <2>4 DEF Rename, StagingKind, fsVars
<1>4. CASE ~Rename(p) /\ ~Clean(p)
  BY <1>4, OtherSteps
<1>5. QED
  BY <1>2, <1>3, <1>4

\* What holds of every writer and update when only calls fail.
CallsInv ==
    /\ TypeOK /\ (\A p \in Writers : LeftoverInv(p)) /\ SnapshotInv
    /\ TransactionInv /\ \A p \in Updaters : Replaceable(p)

THEOREM CallsInvariant ==
    ASSUME CallsOnly
    PROVE  Spec => []CallsInv
<1> DEFINE Accounted == \A p \in Writers : LeftoverInv(p)
<1> DEFINE Careful == \A p \in Updaters : Replaceable(p)
<1>1. Init => Careful
  BY DEF Init, Replaceable
<1>2. TypeOK /\ Accounted /\ Careful /\ [Next]_vars => Careful'
  <2> SUFFICES ASSUME TypeOK, Accounted, Careful, [Next]_vars, NEW q \in Updaters
               PROVE  Replaceable(q)'
    OBVIOUS
  <2>1. ASSUME NEW p \in Writers, Step(p)
        PROVE  Replaceable(q)'
    <3>1. CASE p = q
      BY <2>1, <3>1, StepReplaceable
    <3>2. CASE p # q
      BY <2>1, <3>2, StepKeepsOthers DEF OthersKept, Replaceable, DropsResourceChecks
    <3>3. QED
      BY <3>1, <3>2
  <2>2. CASE UNCHANGED vars
    BY <2>2 DEF vars, Replaceable, DropsResourceChecks
  <2>3. QED
    BY <2>1, <2>2, EnvironmentReplaceable DEF Next
<1>3. Spec => []Untouched
  <2>1. Init => Untouched
    BY DEF Init, Untouched
  <2>2. Untouched /\ [Next]_vars => Untouched'
    BY StepsTouchNothing
       DEF CallsOnly, Next, Environment, EditFile, ReplaceOutput, EditsOutput,
           EditThroughHandle, RemoveSibling, Crash, vars, Untouched
  <2>3. QED
    BY <2>1, <2>2, PTL DEF Spec
<1>4. CallsInv <=> TypeOK /\ Accounted /\ SnapshotInv /\ TransactionInv /\ Careful
  BY DEF CallsInv
<1> HIDE DEF Accounted, Careful
<1>5. Spec => []Accounted
  BY LeftoverInvariant DEF Accounted
<1>6. QED
  BY <1>1, <1>2, <1>3, <1>4, <1>5, TypeCorrect, SnapshotInvariant,
     TransactionInvariant, PTL DEF Spec

\* Without edits, whatever calls fail and whoever is killed, no update deletes a
\* resource-aware output: once published, its generation is at the output path
\* or complete in a backup for ever.
THEOREM ResourceOutputsKept ==
    ASSUME CallsOnly
    PROVE  Spec => ResourceOutputKept
<1>1. CallsInv /\ Next => \A a \in ResourceAware : Kept(a) => Kept(a)'
  <2> SUFFICES ASSUME CallsInv, Next, NEW a \in ResourceAware, Kept(a)
               PROVE  Kept(a)'
    OBVIOUS
  <2>1. ASSUME NEW p \in Writers, Step(p)
        PROVE  Kept(a)'
    BY <2>1, StepKeepsResource DEF CallsInv, SnapshotInv
  <2>2. CASE Environment
    BY <2>2, CallsOnlyEnvironment DEF CallsInv, Kept
  <2>3. QED
    BY <2>1, <2>2 DEF Next
<1>2. CallsInv /\ [Next]_vars =>
          [\A a \in ResourceAware : Kept(a) => Kept(a)']_vars
  BY <1>1
<1>3. QED
  BY <1>2, CallsInvariant, PTL DEF Spec, ResourceOutputKept

-----------------------------------------------------------------------------
(* Without edits: the contract stays.                                      *)

\* What an update publishes gives the names of the contract in its backup.
LEMMA PublishedContract ==
    ASSUME TypeOK, NEW p \in Updaters, WriterInv(p), BackupAsValidated(p),
           pc[p] = "publish", NEW c \in Contracts, HoldsContract(backup[p], c)
    PROVE  HoldsContract(staging[p], c)
<1>1. /\ staging[p] = Directory(Generated(p))
      /\ backup[p] = Directory(expected[p])
  BY DEF WriterInv, StagingAt, PhaseAt, BackupAsValidated
<1>2. Whole(staging[p])
  BY <1>1, GeneratedWhole
<1>3. /\ expected[p].contract \in Contracts
      /\ Encoded[expected[p].contract] = c
  <2>1. backup[p].files.contract # None /\ Encoded[backup[p].files.contract] = c
    BY DEF HoldsContract, Whole, ExactFileSet
  <2>2. backup[p].files.contract \in ContractFile
    BY DEF TypeOK, Entry, Files
  <2>3. backup[p].files = expected[p]
    BY <1>1 DEF Directory
  <2>4. QED
    BY <2>1, <2>2, <2>3 DEF ContractFile
<1>4. GeneratedContract(p) = c
  BY <1>3, BytesAssumption DEF GeneratedContract, SourceContract
<1>5. staging[p].files.contract = c
  BY <1>1, <1>4 DEF Directory, Generated, Generation
<1>6. Encoded[c] = c
  BY <1>3, GeneratorAssumption
<1>7. QED
  BY <1>2, <1>5, <1>6 DEF HoldsContract

LEMMA RenameKeepsContract ==
    ASSUME CallsInv, NEW p \in Writers, Rename(p),
           NEW c \in Contracts, ContractThere(c)
    PROVE  ContractThere(c)'
<1>1. WriterInv(p) /\ TypeOK
  BY DEF CallsInv, TransactionInv
<1> USE DEF TypeOK, ContractThere
<1>2. CASE UNCHANGED <<out, backup, phase>>
  BY <1>2 DEF HoldsContract
<1>3. CASE Claim(p) /\ ~UNCHANGED <<out, backup, phase>>
  <2>1. /\ p \in Updaters /\ phase[p] = "staged"
        /\ backup' = [backup EXCEPT ![p] = out]
        /\ phase' = [phase EXCEPT ![p] = "claimed"]
    BY <1>1, <1>3 DEF Claim, WriterInv, PhaseAt, StagedPCs
  <2>2. CASE HoldsContract(out, c)
    BY <1>1, <2>1, <2>2
  <2>3. ASSUME NEW q \in Updaters, phase[q] = "claimed", HoldsContract(backup[q], c)
        PROVE  ContractThere(c)'
    BY <1>1, <2>1, <2>3
  <2>4. QED
    BY <2>2, <2>3
<1>4. ASSUME ~UNCHANGED <<out, backup, phase>>, Publish(p) \/ Restore(p)
      PROVE  ContractThere(c)'
  <2>1. out.kind = "missing"
    BY <1>4 DEF Publish, Restore, RenameNoReplace
  <2>2. PICK q \in Updaters : phase[q] = "claimed" /\ HoldsContract(backup[q], c)
    BY <2>1 DEF HoldsContract, Whole, ExactFileSet
  <2>3. CASE q # p
    BY <1>1, <1>4, <2>2, <2>3 DEF Publish, Restore
  <2>4. CASE q = p /\ Publish(p)
    <3>1. pc[p] = "publish" /\ out' = staging[p]
      BY <1>4, <2>4 DEF Publish
    <3>2. BackupAsValidated(p)
      BY <2>4 DEF CallsInv, SnapshotInv
    <3>3. HoldsContract(staging[p], c)
      BY <1>1, <2>2, <2>4, <3>1, <3>2, PublishedContract
    <3>4. QED
      BY <3>1, <3>3
  <2>5. CASE q = p /\ Restore(p)
    <3>1. out' = backup[p]
      BY <1>4, <2>5 DEF Restore
    <3>2. QED
      BY <2>2, <2>5, <3>1
  <2>6. QED
    BY <1>4, <2>3, <2>4, <2>5
<1>5. QED
  BY <1>2, <1>3, <1>4 DEF Rename, StagingKind, fsVars

LEMMA StepKeepsContract ==
    ASSUME CallsInv, NEW p \in Writers, Step(p),
           NEW c \in Contracts, ContractThere(c)
    PROVE  ContractThere(c)'
<1>1. LeftoverInv(p) /\ TypeOK
  BY DEF CallsInv
<1>2. CASE Rename(p)
  BY <1>2, RenameKeepsContract
<1>3. CASE ~Rename(p)
  <2>1. /\ UNCHANGED out
        /\ \A q \in Writers \ {p} : backup'[q] = backup[q] /\ phase'[q] = phase[q]
    <3>1. CASE Clean(p)
      BY <1>1, <3>1, StepKeepsOthers, CleanupCases
         DEF Report, CleanupFails, CleanupWorks, fsVars, OthersKept
    <3>2. CASE ~Clean(p)
      BY <1>1, <1>3, <3>2, StepKeepsOthers, OtherSteps DEF OthersKept
    <3>3. QED
      BY <3>1, <3>2
  <2>2. phase[p] = "claimed" => backup'[p] = backup[p] /\ phase'[p] = "claimed"
    <3>1. CASE Clean(p)
      BY <1>1, <3>1, CleanupCases
         DEF Report, CleanupFails, CleanupWorks, SetCleaned, fsVars
    <3>2. CASE Stage(p)
      BY <1>1, <3>2
         DEF Stage, CreateStaging, InspectStaging, WriteKind, WriteContract,
             WriteAdapter, WriteManifest, StagingCall, LeftoverInv, PhaseAt,
             StagedPCs
    <3>3. CASE Validate(p) \/ Generate(p) \/ RequireAbsent(p)
      BY <3>3
         DEF Validate, CheckKind, Scan, ReadManifest, ReadAdapter, ReadContract,
             CheckHashes, ValidationCall, Generate, RequireAbsent, fsVars
    <3>4. QED
      BY <1>3, <3>1, <3>2, <3>3 DEF Step
  <2>3. CASE HoldsContract(out, c)
    BY <2>1, <2>3 DEF ContractThere
  <2>4. ASSUME NEW q \in Updaters, phase[q] = "claimed", HoldsContract(backup[q], c)
        PROVE  ContractThere(c)'
    <3>1. phase'[q] = "claimed" /\ backup'[q] = backup[q]
      BY <2>1, <2>2, <2>4
    <3>2. QED
      BY <2>4, <3>1 DEF ContractThere
  <2>5. QED
    BY <2>3, <2>4 DEF ContractThere
<1>4. QED
  BY <1>2, <1>3

\* Without edits, whatever calls fail and whoever is killed, the names of a
\* contract once published are never lost: they are at the output path or in
\* the backup of an update that has not published.
THEOREM ContractsStay ==
    ASSUME CallsOnly
    PROVE  Spec => ContractNeverLost
<1>1. CallsInv /\ Next => \A c \in Contracts : ContractThere(c) => ContractThere(c)'
  <2> SUFFICES ASSUME CallsInv, Next, NEW c \in Contracts, ContractThere(c)
               PROVE  ContractThere(c)'
    OBVIOUS
  <2>1. ASSUME NEW p \in Writers, Step(p)
        PROVE  ContractThere(c)'
    BY <2>1, StepKeepsContract
  <2>2. CASE Environment
    BY <2>2, CallsOnlyEnvironment DEF CallsInv, ContractThere
  <2>3. QED
    BY <2>1, <2>2 DEF Next
<1>2. CallsInv /\ [Next]_vars =>
          [\A c \in Contracts : ContractThere(c) => ContractThere(c)']_vars
  BY <1>1
<1>3. QED
  BY <1>2, CallsInvariant, PTL DEF Spec, ContractNeverLost

-----------------------------------------------------------------------------
(* Without edits: the invocations implement the store of OutputStore.      *)

\* What a user can see of a directory.
LEMMA ContentOfEntry ==
    ASSUME NEW d \in Entry
    PROVE  /\ Whole(d) <=> Content(d) # NoFiles
           /\ Content(d) # NoFiles =>
                 Content(d) \in {f \in Files : Whole(Directory(f))}
           /\ Content(Missing) = NoFiles
<1>1. d.files \in Files
  BY DEF Entry
<1>2. Whole(d) => d.files # NoFiles /\ Whole(Directory(d.files))
  BY DEF Whole, ExactFileSet, NoFiles, Directory
<1>3. ~Whole(Missing)
  BY DEF Whole, ExactFileSet, Missing
<1>4. QED
  BY <1>1, <1>2, <1>3 DEF Content

\* Nothing that the store speaks of changes.
LEMMA SameStore ==
    ASSUME UNCHANGED out,
           \A q \in Updaters : /\ Content(backup'[q]) = Content(backup[q])
                               /\ (phase'[q] = "committed") = (phase[q] = "committed")
    PROVE  UNCHANGED Store!vars
<1>1. Content(out') = Content(out)
  OBVIOUS
<1>2. [q \in Updaters |-> Content(backup'[q])] = [q \in Updaters |-> Content(backup[q])]
  BY Zenon
<1>3. [q \in Updaters |-> phase'[q] = "committed"]
          = [q \in Updaters |-> phase[q] = "committed"]
  BY Zenon
<1>4. QED
  BY <1>1, <1>2, <1>3 DEF Store!vars, Content

\* One entry of the functions that the store keeps.
LEMMA StoreExcept ==
    ASSUME TypeOK, NEW p \in Updaters, NEW d \in Entry
    PROVE  /\ backup' = [backup EXCEPT ![p] = d] =>
                 [q \in Updaters |-> Content(backup'[q])]
                     = [[q \in Updaters |-> Content(backup[q])] EXCEPT ![p] = Content(d)]
           /\ phase' = [phase EXCEPT ![p] = "committed"] =>
                 [q \in Updaters |-> phase'[q] = "committed"]
                     = [[q \in Updaters |-> phase[q] = "committed"] EXCEPT ![p] = TRUE]
<1>1. ASSUME backup' = [backup EXCEPT ![p] = d]
      PROVE  [q \in Updaters |-> Content(backup'[q])]
                 = [[q \in Updaters |-> Content(backup[q])] EXCEPT ![p] = Content(d)]
  <2>1. \A q \in Updaters :
            Content(backup'[q]) = IF q = p THEN Content(d) ELSE Content(backup[q])
    BY <1>1 DEF TypeOK
  <2>2. QED
    BY <2>1
<1>2. ASSUME phase' = [phase EXCEPT ![p] = "committed"]
      PROVE  [q \in Updaters |-> phase'[q] = "committed"]
                 = [[q \in Updaters |-> phase[q] = "committed"] EXCEPT ![p] = TRUE]
  <2>1. \A q \in Updaters :
            (phase'[q] = "committed") = IF q = p THEN TRUE ELSE (phase[q] = "committed")
    BY <1>2 DEF TypeOK
  <2>2. QED
    BY <2>1
<1>3. QED
  BY <1>1, <1>2

LEMMA RenameImplements ==
    ASSUME CallsInv, NEW p \in Writers, Rename(p)
    PROVE  [Store!Next]_(Store!vars)
<1> USE DEF CallsInv
<1>1. /\ out \in Entry /\ Missing \in Entry
      /\ \A q \in Writers : backup[q] \in Entry /\ staging[q] \in Entry
  BY ConstantFiles DEF TypeOK
<1>2. CASE UNCHANGED <<out, backup, phase>>
  BY <1>2, SameStore
<1>3. CASE Claim(p) /\ ~UNCHANGED <<out, backup, phase>>
  <2>1. /\ p \in Updaters /\ phase[p] = "staged" /\ backup[p].kind = "missing"
        /\ backup' = [backup EXCEPT ![p] = out] /\ out' = Missing
        /\ phase' = [phase EXCEPT ![p] = "claimed"]
    BY <1>3 DEF Claim, LeftoverInv, PhaseAt, StagedPCs
  <2>2. Content(backup[p]) = NoFiles /\ Content(Missing) = NoFiles
    BY <1>1, <2>1, ContentOfEntry DEF Whole, ExactFileSet, Content
  <2>3. [q \in Updaters |-> phase'[q] = "committed"]
            = [q \in Updaters |-> phase[q] = "committed"]
    <3>1. \A q \in Updaters : (phase'[q] = "committed") = (phase[q] = "committed")
      BY <2>1 DEF TypeOK
    <3>2. QED
      BY <3>1, Zenon
  <2>4. [q \in Updaters |-> Content(backup'[q])]
            = [[q \in Updaters |-> Content(backup[q])] EXCEPT ![p] = Content(out)]
    BY <1>1, <2>1, StoreExcept
  <2>5. CASE Content(out) # NoFiles
    <3>1. Store!Claim(p)
      BY <2>1, <2>2, <2>3, <2>4, <2>5 DEF Store!Claim, Content
    <3>2. QED
      BY <2>1, <3>1 DEF Store!Next
  <2>6. CASE Content(out) = NoFiles
    BY <2>1, <2>2, <2>3, <2>4, <2>6 DEF Store!vars, Content
  <2>7. QED
    BY <2>5, <2>6
<1>4. CASE Publish(p) /\ ~UNCHANGED <<out, backup, phase>>
  <2>1. /\ pc[p] = "publish" /\ out.kind = "missing"
        /\ backup' = backup /\ out' = staging[p]
        /\ phase' = [phase EXCEPT ![p] = "committed"]
    BY <1>4 DEF Publish, RenameNoReplace
  <2>2. Whole(staging[p])
    <3>1. WriterInv(p) /\ phase[p] \in {"claimed", "staged"}
      BY <2>1 DEF TransactionInv, LeftoverInv, PhaseAt
    <3>2. Whole(Directory(Generated(p)))
      BY <3>1, GeneratedWhole DEF WriterInv
    <3>3. QED
      BY <2>1, <3>1, <3>2 DEF WriterInv, StagingAt
  <2>3. /\ Content(out) = NoFiles
        /\ Content(out') \in {f \in Files : Whole(Directory(f))}
    BY <1>1, <2>1, <2>2, ContentOfEntry DEF Whole, ExactFileSet, Content
  <2>4. CASE p \in Updaters
    <3>1. phase[p] = "claimed" /\ Content(backup[p]) # NoFiles
      <4>1. phase[p] = "claimed" /\ backup[p] = Directory(expected[p])
        BY <2>1, <2>4
           DEF LeftoverInv, PhaseAt, SnapshotInv, BackupAsValidated
      <4>2. Whole(backup[p])
        BY <4>1 DEF TransactionInv, WriterInv, ClaimedWhole, Directory
      <4>3. QED
        BY <1>1, <4>1, <4>2, ContentOfEntry
    <3>2. [q \in Updaters |-> phase'[q] = "committed"]
              = [[q \in Updaters |-> phase[q] = "committed"] EXCEPT ![p] = TRUE]
      BY <1>1, <2>1, <2>4, StoreExcept
    <3>3. Store!PublishUpdate(p)
      BY <2>1, <2>3, <2>4, <3>1, <3>2 DEF Store!PublishUpdate, Content
    <3>4. QED
      BY <2>4, <3>3 DEF Store!Next
  <2>5. CASE p \notin Updaters
    <3>1. [q \in Updaters |-> phase'[q] = "committed"]
              = [q \in Updaters |-> phase[q] = "committed"]
      <4>1. \A q \in Updaters : (phase'[q] = "committed") = (phase[q] = "committed")
        BY <2>1, <2>5 DEF TypeOK
      <4>2. QED
        BY <4>1, Zenon
    <3>2. Store!PublishFresh
      BY <2>1, <2>3, <3>1 DEF Store!PublishFresh, Content
    <3>3. QED
      BY <3>2 DEF Store!Next
  <2>6. QED
    BY <2>4, <2>5
<1>5. CASE Restore(p) /\ ~UNCHANGED <<out, backup, phase>>
  <2>1. /\ p \in Updaters /\ phase[p] = "claimed" /\ out.kind = "missing"
        /\ backup' = [backup EXCEPT ![p] = Missing] /\ out' = backup[p]
        /\ phase' = phase
    BY <1>5 DEF Restore, RenameNoReplace, LeftoverInv, PhaseAt
  <2>2. Content(out) = NoFiles /\ Content(Missing) = NoFiles
    BY <1>1, <2>1, ContentOfEntry DEF Whole, ExactFileSet, Content
  <2>3. [q \in Updaters |-> Content(backup'[q])]
            = [[q \in Updaters |-> Content(backup[q])] EXCEPT ![p] = Content(Missing)]
    BY <1>1, <2>1, StoreExcept
  <2>4. CASE Content(backup[p]) # NoFiles
    <3>1. Store!Restore(p)
      BY <2>1, <2>2, <2>3, <2>4 DEF Store!Restore, Content
    <3>2. QED
      BY <2>1, <3>1 DEF Store!Next
  <2>5. CASE Content(backup[p]) = NoFiles
    BY <2>1, <2>2, <2>3, <2>5 DEF Store!vars, Content
  <2>6. QED
    BY <2>4, <2>5
<1>6. QED
  BY <1>2, <1>3, <1>4, <1>5 DEF Rename, StagingKind, fsVars

LEMMA CleanImplements ==
    ASSUME CallsInv, NEW p \in Writers, Clean(p)
    PROVE  [Store!Next]_(Store!vars)
<1> USE DEF CallsInv
<1>1. UNCHANGED <<out, phase>>
  BY CleanupCases DEF Report, CleanupWorks, fsVars
<1>2. CASE UNCHANGED backup
  BY <1>1, <1>2, SameStore
<1>3. CASE ~UNCHANGED backup
  <2>1. /\ phase[p] = "committed"
        /\ \E d \in Entry : /\ backup' = [backup EXCEPT ![p] = d]
                            /\ d = backup[p] \/ Content(d) = NoFiles
    <3>1. phase[p] = "committed" /\ ~Report(p)
      BY <1>3, CleanupCases DEF Report, CleanupFails, CleanupWorks, SetCleaned, fsVars
    <3>2. Cleaned(p) = backup[p] /\ backup[p] \in Entry
      BY <3>1 DEF Cleaned, TypeOK
    <3>3. ASSUME NEW from, NEW to, NEW after, CleanupWorks(p, from, to, after),
                 after \in Entry, after = backup[p] \/ Content(after) = NoFiles
          PROVE  \E d \in Entry : /\ backup' = [backup EXCEPT ![p] = d]
                                  /\ d = backup[p] \/ Content(d) = NoFiles
      BY <3>1, <3>3 DEF CleanupWorks, SetCleaned
    <3>4. /\ [backup[p] EXCEPT !.files.adapter = None] \in Entry
          /\ [backup[p] EXCEPT !.files.contract = None] \in Entry
          /\ [backup[p] EXCEPT !.files.manifest = NoManifest] \in Entry
          /\ Missing \in Entry
      BY <3>2, ConstantFiles DEF Entry, Files, AdapterFile, ContractFile, Manifest, NoManifest
    <3>5. /\ Content([backup[p] EXCEPT !.files.adapter = None]) = NoFiles
          /\ Content([backup[p] EXCEPT !.files.contract = None]) = NoFiles
          /\ Content([backup[p] EXCEPT !.files.manifest = NoManifest]) = NoFiles
          /\ Content(Missing) = NoFiles
      <4>1. backup[p].files \in Files
        BY <3>2 DEF Entry
      <4>2. QED
        BY <3>2, <4>1 DEF Entry, Files, Content, Whole, ExactFileSet, Missing
    <3>6. ~CleanupFails(p)
      BY <1>3 DEF CleanupFails
    <3>7. QED
      BY <3>1, <3>2, <3>3, <3>4, <3>5, <3>6, CleanupCases
  <2>2. PICK d \in Entry : /\ backup' = [backup EXCEPT ![p] = d]
                           /\ d = backup[p] \/ Content(d) = NoFiles
    BY <2>1
  <2>3. backup' # backup
    BY <1>3
  <2>4. CASE p \in Updaters /\ Content(d) = NoFiles /\ Content(backup[p]) # NoFiles
    <3>1. [q \in Updaters |-> Content(backup'[q])]
              = [[q \in Updaters |-> Content(backup[q])] EXCEPT ![p] = NoFiles]
      BY <2>2, <2>4, StoreExcept
    <3>2. Store!GiveUp(p)
      BY <1>1, <2>1, <2>4, <3>1 DEF Store!GiveUp, Content
    <3>3. QED
      BY <2>4, <3>2 DEF Store!Next
  <2>5. CASE ~(p \in Updaters /\ Content(d) = NoFiles /\ Content(backup[p]) # NoFiles)
    <3>1. \A q \in Updaters : Content(backup'[q]) = Content(backup[q])
      BY <2>2, <2>5 DEF TypeOK
    <3>2. QED
      BY <1>1, <3>1, SameStore
  <2>6. QED
    BY <2>4, <2>5
<1>4. QED
  BY <1>2, <1>3

\* Without edits, every step of every invocation, also a call that fails and
\* also a crash, is a step of the store or changes nothing its users can see:
\* the output path goes from one whole generation to none and from none to one,
\* and what an update sets aside is published over or put back.
THEOREM StoreImplemented ==
    ASSUME CallsOnly
    PROVE  Spec => StoreSpec
<1>1. Init => Store!Init
  <2> SUFFICES ASSUME Init
               PROVE  Store!Init
    OBVIOUS
  <2>1. out \in Entry /\ Missing \in Entry
    BY ConstantFiles DEF Init
  <2>2. Content(out) \in {f \in Files : Whole(Directory(f))} \cup {NoFiles}
    BY <2>1, ContentOfEntry
  <2>3. [q \in Updaters |-> Content(backup[q])] = [q \in Updaters |-> NoFiles]
    BY <2>1, ContentOfEntry DEF Init
  <2>4. [q \in Updaters |-> phase[q] = "committed"] = [q \in Updaters |-> FALSE]
    <3>1. \A q \in Updaters : (phase[q] = "committed") = FALSE
      BY DEF Init
    <3>2. QED
      BY <3>1, Zenon
  <2>5. QED
    BY <2>2, <2>3, <2>4 DEF Store!Init
<1>2. CallsInv /\ [Next]_vars => [Store!Next]_(Store!vars)
  <2> SUFFICES ASSUME CallsInv, [Next]_vars
               PROVE  [Store!Next]_(Store!vars)
    OBVIOUS
  <2>1. ASSUME NEW p \in Writers, Step(p)
        PROVE  [Store!Next]_(Store!vars)
    <3>1. CASE Rename(p)
      BY <3>1, RenameImplements
    <3>2. CASE Clean(p)
      BY <3>2, CleanImplements
    <3>3. CASE ~Rename(p) /\ ~Clean(p)
      <4>1. /\ UNCHANGED <<out, backup>>
            /\ phase'[p] = "committed" <=> phase[p] = "committed"
        BY <2>1, <3>3, OtherSteps DEF CallsInv
      <4>2. \A q \in Updaters : (phase'[q] = "committed") = (phase[q] = "committed")
        BY <2>1, <4>1, StepKeepsOthers DEF CallsInv, OthersKept
      <4>3. QED
        BY <4>1, <4>2, SameStore
    <3>4. QED
      BY <3>1, <3>2, <3>3
  <2>2. CASE Environment \/ UNCHANGED vars
    <3>1. UNCHANGED <<out, backup, phase>>
      BY <2>2, CallsOnlyEnvironment DEF CallsInv, vars
    <3>2. QED
      BY <3>1, SameStore
  <2>3. QED
    BY <2>1, <2>2 DEF Next
<1>3. QED
  BY <1>1, <1>2, CallsInvariant, PTL DEF Spec, StoreSpec, Store!Spec

=============================================================================
