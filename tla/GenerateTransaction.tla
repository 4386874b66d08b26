------------------------ MODULE GenerateTransaction ------------------------
(***************************************************************************)
(* `moonhostabi generate`: several invocations of the command line tool    *)
(* work on one output directory at the same time.  A fresh invocation      *)
(* publishes into an absent path, an update replaces a directory the tool  *)
(* owns, a dry run only looks.  One step is one file system call of        *)
(* src/cmd/moonhostabi/main.mbt or of its C helpers in stderr.c; between   *)
(* two calls of one invocation everything else may move.                   *)
(*                                                                         *)
(* What is generated is a function of the inputs: two invocations given    *)
(* the same artifact and the same contract write the same bytes, and an    *)
(* update of what this version generated writes those bytes again.  The    *)
(* SHA-256 of a file, as the manifest records it, stands for its bytes:    *)
(* two files have equal hashes exactly when they have equal bytes.         *)
(* Sibling names carry 128 random bits: an invocation's staging and backup *)
(* paths are its own, and a collision is only ever seen as a failed call.  *)
(***************************************************************************)
EXTENDS Naturals

CONSTANTS
    FreshWriters,     \* invocations of generate --out
    Updaters,         \* invocations of generate --out --update
    DryRunners,       \* invocations of generate --out --dry-run
    ResourceWriters,  \* the fresh ones that were given --resource-contract
    Abis,             \* fingerprints of host ABIs
    Abi,              \* the ABI of the artifact each invocation reads
    OldAbi,           \* the ABI of the output that may exist beforehand
    Contracts,        \* bytes of contract files
    Adapters,         \* bytes of adapters
    Edited,           \* bytes written by hand, into either file
    None,             \* no file
    Given,            \* the --contract file of a fresh invocation, or None
    Draft,            \* the contract drafted from an ABI
    Encoded,          \* a contract as the generator writes it back
    PlainAdapter,     \* the adapter of an ABI and a contract
    ResourceAdapter,  \* the adapter each resource-aware invocation renders
    ResourceAware,    \* adapters that contain instantiateWithResources
    OldOutputs,       \* adapter and contract, as generated or changed by hand
                      \*   with the manifest, of an output that may be there
    Hazards,          \* what the environment does, see below
    MaxEdits,         \* bound on the environment's edits
    MaxTries          \* attempts at a unique sibling name (8 in the code)

Writers == FreshWriters \cup Updaters \cup DryRunners

\* "io": any call may fail.  "crash": an invocation may be killed.  "edit":
\* somebody edits the output by its path.  "handle": somebody goes on writing
\* through a handle opened before the directory was moved.  "sibling":
\* somebody removes a staging or a backup directory.
AllHazards == {"io", "crash", "edit", "handle", "sibling"}

ASSUME ModesAssumption ==
    /\ FreshWriters \cap Updaters = {}
    /\ FreshWriters \cap DryRunners = {}
    /\ Updaters \cap DryRunners = {}
    /\ ResourceWriters \subseteq FreshWriters
ASSUME AbiAssumption == OldAbi \in Abis /\ Abi \in [Writers -> Abis]
ASSUME BytesAssumption ==
    /\ None \notin Abis /\ None \notin Contracts /\ None \notin Adapters
    /\ Edited \in Contracts /\ Edited \in Adapters
    /\ OldOutputs \subseteq Adapters \X Contracts
ASSUME GeneratorAssumption ==
    /\ Given \in [FreshWriters -> Contracts \cup {None}]
    /\ Draft \in [Abis -> Contracts]
    /\ Encoded \in [Contracts -> Contracts]
    /\ \A c \in Contracts : Encoded[Encoded[c]] = Encoded[c]
    /\ PlainAdapter \in [Abis -> [Contracts -> Adapters]]
    /\ ResourceAdapter \in [ResourceWriters -> Adapters \cap ResourceAware]
ASSUME BoundsAssumption ==
    Hazards \subseteq AllHazards /\ MaxEdits \in Nat /\ MaxTries \in Nat \ {0}

VARIABLES
    out,       \* what is at the output path
    staging,   \* what is at each invocation's staging path
    backup,    \* what is at each invocation's backup path
    pc,        \* the next call of each invocation
    phase,     \* how far its transaction is (UpdateTransactionState)
    expected,  \* the snapshot accepted by the first validation
    reading,   \* the snapshot the running validation has read so far
    tries,     \* failed attempts of the running unique-name loop
    err,       \* code of the error being raised, "none" when there is none
    suspect,   \* roles whose path an error still has to look at
    retained,  \* roles the error message names as retained
    edits      \* edits made by the environment

fsVars   == <<out, staging, backup>>
readVars == <<expected, reading>>
repVars  == <<suspect, retained>>
vars == <<out, staging, backup, pc, phase, expected, reading, tries, err,
          suspect, retained, edits>>

-----------------------------------------------------------------------------
(* Directories and their contents.                                         *)

AdapterFile  == Adapters \cup {None}
ContractFile == Contracts \cup {None}
Manifest == [abi : Abis \cup {None}, adapter : AdapterFile,
             contract : ContractFile]
Files    == [adapter : AdapterFile, contract : ContractFile,
             manifest : Manifest]
\* "other" is a regular file, a symbolic link or a reparse point.
Kinds    == {"directory", "missing", "other"}
Entry    == [kind : Kinds, files : Files, extra : BOOLEAN]

NoManifest == [abi |-> None, adapter |-> None, contract |-> None]
NoFiles    == [adapter |-> None, contract |-> None, manifest |-> NoManifest]
Missing    == [kind |-> "missing", files |-> NoFiles, extra |-> FALSE]
NotADir    == [Missing EXCEPT !.kind = "other"]
EmptyDir   == [Missing EXCEPT !.kind = "directory"]

\* The three files one generation writes, the manifest naming the other two.
Generation(abi, adapter, contract) ==
    [adapter |-> adapter, contract |-> contract,
     manifest |-> [abi |-> abi, adapter |-> adapter, contract |-> contract]]

Directory(files) == [kind |-> "directory", files |-> files, extra |-> FALSE]

\* The contract an invocation generates from: an update keeps the one it
\* validated, a dry run takes none.
SourceContract(p) ==
    IF p \in Updaters THEN expected[p].contract
    ELSE IF p \in FreshWriters THEN Given[p] ELSE None

GeneratedContract(p) ==
    IF SourceContract(p) = None THEN Draft[Abi[p]]
    ELSE Encoded[SourceContract(p)]

GeneratedAdapter(p) ==
    IF p \in ResourceWriters THEN ResourceAdapter[p]
    ELSE PlainAdapter[Abi[p]][GeneratedContract(p)]

\* What an invocation generates.
Generated(p) == Generation(Abi[p], GeneratedAdapter(p), GeneratedContract(p))

\* A wrong scan that looks for the owned files only.
OwnedFilesThere(d) ==
    /\ d.kind = "directory" /\ d.files.adapter # None
    /\ d.files.contract # None /\ d.files.manifest # NoManifest

\* The exact owned file set: all three files and nothing else.
ExactFileSet(d) ==
    /\ d.kind = "directory" /\ ~d.extra
    /\ d.files.adapter # None /\ d.files.contract # None
    /\ d.files.manifest # NoManifest

HashesMatch(f) ==
    f.manifest.adapter = f.adapter /\ f.manifest.contract = f.contract

\* A directory a reader can use: complete, and its manifest true of it.
Whole(d) == ExactFileSet(d) /\ HashesMatch(d.files)

-----------------------------------------------------------------------------
(* Where an invocation goes when a call fails.                             *)

FsFails == "io" \in Hazards

Goto(p, l)       == pc' = [pc EXCEPT ![p] = l]
Raise(p, code)   == err' = [err EXCEPT ![p] = code]
Suspect(p, role) == suspect' = [suspect EXCEPT ![p] = @ \cup {role}]

\* An error raised while nothing of this invocation is on disk.
RaiseAtOnce(p, code) ==
    Raise(p, code) /\ Goto(p, "done") /\ UNCHANGED suspect

\* A wrong FailTransaction that forgets to restore what it claimed.
FailWithoutRestore(p, code) ==
    /\ Raise(p, code)
    /\ \/ /\ phase[p] \in {"staged", "claimed"}
          /\ Goto(p, "cleanScan") /\ UNCHANGED suspect
       \/ phase[p] = "committed" /\ Goto(p, "report") /\ Suspect(p, "backup")

\* An error raised inside the transaction: clean the staging directory, restore
\* the claimed output first, or report the backup of a published output.
FailTransaction(p, code) ==
    /\ Raise(p, code)
    /\ \/ phase[p] = "staged" /\ Goto(p, "cleanScan") /\ UNCHANGED suspect
       \/ phase[p] = "claimed" /\ Goto(p, "restore") /\ UNCHANGED suspect
       \/ phase[p] = "committed" /\ Goto(p, "report") /\ Suspect(p, "backup")

-----------------------------------------------------------------------------
(* Validation of an owned directory.  It runs up to three times: on the    *)
(* output before anything is written, on the backup once it is claimed,    *)
(* and on the backup again before it is deleted.  Every call resolves the  *)
(* path anew.                                                              *)

Inspected(p) == IF phase[p] = "open" THEN out ELSE backup[p]

RejectValidation(p) ==
    \/ phase[p] = "open" /\ RaiseAtOnce(p, "unowned")
    \/ phase[p] = "claimed" /\ FailTransaction(p, "unowned")
    \/ phase[p] = "committed" /\ FailTransaction(p, "io")

\* One call of the validation: it finds what it needs and goes on, or rejects.
ValidationCall(p, from, found, to, read) ==
    /\ pc[p] = from
    /\ \/ /\ found
          /\ Goto(p, to)
          /\ reading' = [reading EXCEPT ![p] = read]
          /\ UNCHANGED <<err, suspect>>
       \/ /\ ~found \/ FsFails
          /\ RejectValidation(p)
          /\ UNCHANGED reading
    /\ UNCHANGED <<fsVars, phase, expected, tries, retained, edits>>

CheckKind(p) ==
    ValidationCall(p, "checkKind", Inspected(p).kind = "directory",
                   "scan", NoFiles)

Scan(p) ==
    ValidationCall(p, "scan", ExactFileSet(Inspected(p)),
                   "readManifest", reading[p])

ReadManifest(p) ==
    LET manifest == Inspected(p).files.manifest
    IN  ValidationCall(p, "readManifest", manifest.abi = Abi[p], "readAdapter",
                       [reading[p] EXCEPT !.manifest = manifest])

ReadAdapter(p) ==
    LET adapter == Inspected(p).files.adapter
    IN  ValidationCall(p, "readAdapter", adapter # None, "readContract",
                       [reading[p] EXCEPT !.adapter = adapter])

ReadContract(p) ==
    LET contract == Inspected(p).files.contract
    IN  ValidationCall(p, "readContract", contract # None, "checkHashes",
                       [reading[p] EXCEPT !.contract = contract])

\* A wrong comparison that is content with any owned output.
AnyOwned(p) == p \in Updaters

\* The bytes just read are those of the first validation.
SameSnapshot(p) == reading[p] = expected[p]

\* The hashes are compared in memory; then the caller uses the snapshot: the
\* first one is kept, the later ones must equal it.
CheckHashes(p) ==
    /\ pc[p] = "checkHashes"
    /\ \/ /\ HashesMatch(reading[p])
          /\ phase[p] = "open"
          /\ expected' = [expected EXCEPT ![p] = reading[p]]
          /\ Goto(p, "generate")
          /\ UNCHANGED <<err, suspect>>
       \/ /\ HashesMatch(reading[p]) /\ SameSnapshot(p)
          /\ \/ phase[p] = "claimed" /\ Goto(p, "stagingKind")
             \/ phase[p] = "committed" /\ Goto(p, "cleanScan")
          /\ UNCHANGED <<expected, err, suspect>>
       \/ /\ \/ ~HashesMatch(reading[p])
             \/ phase[p] # "open" /\ ~SameSnapshot(p)
          /\ RejectValidation(p)
          /\ UNCHANGED expected
    /\ UNCHANGED <<fsVars, phase, reading, tries, retained, edits>>

-----------------------------------------------------------------------------
(* Generation proper and the staging directory.                            *)

\* A wrong check that lets every adapter be updated.
NoResourceChecks(p) == FALSE

\* The adapter to be replaced contains instantiateWithResources.
DropsResourceChecks(p) == expected[p].adapter \in ResourceAware

\* Everything computed from the inputs, which in any mode may be unusable.
Generate(p) ==
    /\ pc[p] = "generate"
    /\ \/ /\ p \in Updaters /\ DropsResourceChecks(p)
          /\ RaiseAtOnce(p, "unowned")
       \/ RaiseAtOnce(p, "input")
       \/ /\ p \in Updaters /\ ~DropsResourceChecks(p)
          /\ Goto(p, "createStaging")
          /\ UNCHANGED <<err, suspect>>
       \/ /\ p \notin Updaters
          /\ Goto(p, "requireAbsent")
          /\ UNCHANGED <<err, suspect>>
    /\ UNCHANGED <<fsVars, phase, readVars, tries, retained, edits>>

\* A dry run ends with this look at the output path.
RequireAbsent(p) ==
    /\ pc[p] = "requireAbsent"
    /\ \/ /\ out.kind = "missing"
          /\ Goto(p, IF p \in DryRunners THEN "done" ELSE "createStaging")
          /\ UNCHANGED <<err, suspect>>
       \/ out.kind # "missing" /\ RaiseAtOnce(p, "exists")
       \/ FsFails /\ RaiseAtOnce(p, "io")
    /\ UNCHANGED <<fsVars, phase, readVars, tries, retained, edits>>

\* A wrong bound: one attempt too many.
TryOnceMore(p) ==
    /\ tries[p] + 1 <= MaxTries
    /\ tries' = [tries EXCEPT ![p] = @ + 1]

\* A failed attempt of a unique-name loop: another name, or give up.
TryAgain(p) ==
    /\ tries[p] + 1 < MaxTries
    /\ tries' = [tries EXCEPT ![p] = @ + 1]

CreateStaging(p) ==
    /\ pc[p] = "createStaging"
    /\ \/ /\ staging' = [staging EXCEPT ![p] = EmptyDir]
          /\ Goto(p, "inspectStaging")
          /\ UNCHANGED <<tries, err, suspect>>
       \/ /\ FsFails /\ TryAgain(p)
          /\ UNCHANGED <<staging, pc, err, suspect>>
       \/ /\ FsFails /\ tries[p] + 1 = MaxTries
          /\ RaiseAtOnce(p, "io")
          /\ UNCHANGED <<staging, tries>>
    /\ UNCHANGED <<out, backup, phase, readVars, retained, edits>>

\* The directory just created may be gone already, or be unreadable; in the
\* second case the error names it and nothing is cleaned.
InspectStaging(p) ==
    /\ pc[p] = "inspectStaging"
    /\ \/ /\ staging[p].kind = "directory"
          /\ phase' = [phase EXCEPT ![p] = "staged"]
          /\ tries' = [tries EXCEPT ![p] = 0]
          /\ Goto(p, "writeKind")
          /\ UNCHANGED <<err, retained>>
       \/ /\ staging[p].kind = "missing"
          /\ \/ TryAgain(p) /\ Goto(p, "createStaging") /\ UNCHANGED err
             \/ /\ tries[p] + 1 = MaxTries
                /\ Raise(p, "io") /\ Goto(p, "done") /\ UNCHANGED tries
          /\ UNCHANGED <<phase, retained>>
       \/ /\ FsFails
          /\ retained' = [retained EXCEPT ![p] = {"staging"}]
          /\ Raise(p, "io") /\ Goto(p, "done")
          /\ UNCHANGED <<phase, tries>>
    /\ UNCHANGED <<fsVars, readVars, suspect, edits>>

\* One call of write_staged_generation; a failed one leaves no partial file.
StagingCall(p, from, to, files) ==
    /\ pc[p] = from
    /\ \/ /\ staging[p].kind = "directory"
          /\ staging' = [staging EXCEPT ![p].files = files]
          /\ Goto(p, to)
          /\ UNCHANGED <<err, suspect>>
       \/ /\ staging[p].kind # "directory" \/ FsFails
          /\ FailTransaction(p, "io")
          /\ UNCHANGED staging
    /\ UNCHANGED <<out, backup, phase, readVars, tries, retained, edits>>

WriteKind(p) ==
    StagingCall(p, "writeKind", "writeContract", staging[p].files)
WriteContract(p) ==
    StagingCall(p, "writeContract", "writeAdapter",
                [staging[p].files EXCEPT !.contract = Generated(p).contract])

\* A wrong WriteAdapter after which the manifest is never written.
WriteAdapterOnly(p) ==
    StagingCall(p, "writeAdapter",
                IF p \in Updaters THEN "claim" ELSE "stagingKind",
                [staging[p].files EXCEPT !.adapter = Generated(p).adapter])
WriteAdapter(p) ==
    StagingCall(p, "writeAdapter", "writeManifest",
                [staging[p].files EXCEPT !.adapter = Generated(p).adapter])
WriteManifest(p) ==
    StagingCall(p, "writeManifest",
                IF p \in Updaters THEN "claim" ELSE "stagingKind",
                [staging[p].files EXCEPT !.manifest = Generated(p).manifest])

-----------------------------------------------------------------------------
(* Claim, publication and restoration: renames that never replace.         *)

\* A wrong rename that replaces its destination.
RenameReplacing(from, to) == from.kind # "missing"

\* Without something to move the call fails; onto something it reports EEXIST.
RenameNoReplace(from, to) == from.kind # "missing" /\ to.kind = "missing"

\* The rename moves whatever is at the output path, of any kind.
Claim(p) ==
    /\ pc[p] = "claim"
    /\ \/ /\ RenameNoReplace(out, backup[p])
          /\ backup' = [backup EXCEPT ![p] = out]
          /\ out' = Missing
          /\ phase' = [phase EXCEPT ![p] = "claimed"]
          /\ Goto(p, "checkKind")
          /\ UNCHANGED <<tries, err, suspect>>
       \/ /\ FsFails /\ TryAgain(p)
          /\ UNCHANGED <<out, backup, phase, pc, err, suspect>>
       \/ /\ out.kind = "missing" \/ FsFails
          /\ FailTransaction(p, "io")
          /\ UNCHANGED <<out, backup, phase, tries>>
    /\ UNCHANGED <<staging, readVars, retained, edits>>

StagingKind(p) ==
    /\ pc[p] = "stagingKind"
    /\ \/ /\ staging[p].kind = "directory"
          /\ Goto(p, "publish")
          /\ UNCHANGED <<err, suspect>>
       \/ /\ staging[p].kind # "directory" \/ FsFails
          /\ FailTransaction(p, "io")
    /\ UNCHANGED <<fsVars, phase, readVars, tries, retained, edits>>

Publish(p) ==
    /\ pc[p] = "publish"
    /\ \/ /\ RenameNoReplace(staging[p], out)
          /\ out' = staging[p]
          /\ staging' = [staging EXCEPT ![p] = Missing]
          /\ phase' = [phase EXCEPT ![p] = "committed"]
          /\ Goto(p, IF p \in Updaters THEN "checkKind" ELSE "done")
          /\ UNCHANGED <<err, suspect>>
       \/ /\ staging[p].kind # "missing" /\ out.kind # "missing"
          /\ FailTransaction(p, "exists")
          /\ UNCHANGED <<out, staging, phase>>
       \/ /\ staging[p].kind = "missing" \/ FsFails
          /\ FailTransaction(p, "io")
          /\ UNCHANGED <<out, staging, phase>>
    /\ UNCHANGED <<backup, readVars, tries, retained, edits>>

\* A wrong restoration that waits until the output path is free.
RestoreWhenFree(p) ==
    /\ pc[p] = "restore"
    /\ RenameNoReplace(backup[p], out)
    /\ out' = backup[p]
    /\ backup' = [backup EXCEPT ![p] = Missing]
    /\ Goto(p, "cleanScan")
    /\ UNCHANGED <<staging, phase, readVars, tries, err, repVars, edits>>

\* Whether or not the restoration succeeds, the staging directory is cleaned.
Restore(p) ==
    /\ pc[p] = "restore"
    /\ \/ /\ RenameNoReplace(backup[p], out)
          /\ out' = backup[p]
          /\ backup' = [backup EXCEPT ![p] = Missing]
          /\ UNCHANGED suspect
       \/ /\ ~RenameNoReplace(backup[p], out) \/ FsFails
          /\ Suspect(p, "backup")
          /\ UNCHANGED <<out, backup>>
    /\ Goto(p, "cleanScan")
    /\ UNCHANGED <<staging, phase, readVars, tries, err, retained, edits>>

-----------------------------------------------------------------------------
(* Cleanup of an owned directory: of the staging directory when an error   *)
(* is being raised, of the backup after a publication.                     *)

CleanedRole(p) == IF phase[p] = "committed" THEN "backup" ELSE "staging"
Cleaned(p) == IF phase[p] = "committed" THEN backup[p] ELSE staging[p]

SetCleaned(p, d) ==
    IF phase[p] = "committed"
    THEN backup' = [backup EXCEPT ![p] = d] /\ UNCHANGED staging
    ELSE staging' = [staging EXCEPT ![p] = d] /\ UNCHANGED backup

\* A wrong reaction that never looks at what was left.
CleanupFailsSilently(p) ==
    /\ UNCHANGED suspect
    /\ err' = [err EXCEPT ![p] = IF @ = "none" THEN "io" ELSE @]
    /\ Goto(p, "report")
    /\ UNCHANGED <<staging, backup>>

\* A cleanup that fails deletes nothing more; if no error is being raised yet,
\* the published update now ends with one.
CleanupFails(p) ==
    /\ Suspect(p, CleanedRole(p))
    /\ err' = [err EXCEPT ![p] = IF @ = "none" THEN "io" ELSE @]
    /\ Goto(p, "report")
    /\ UNCHANGED <<staging, backup>>

CleanupCall(p, from, possible, to, after) ==
    /\ pc[p] = from
    /\ \/ /\ possible
          /\ SetCleaned(p, after)
          /\ Goto(p, to)
          /\ UNCHANGED <<err, suspect>>
       \/ (~possible \/ FsFails) /\ CleanupFails(p)
    /\ UNCHANGED <<out, phase, readVars, tries, retained, edits>>

CleanScan(p) ==
    CleanupCall(p, "cleanScan", Cleaned(p).kind = "directory" /\ ~Cleaned(p).extra,
                "unlinkAdapter", Cleaned(p))
UnlinkAdapter(p) ==
    CleanupCall(p, "unlinkAdapter", Cleaned(p).kind = "directory",
                "unlinkContract", [Cleaned(p) EXCEPT !.files.adapter = None])
UnlinkContract(p) ==
    CleanupCall(p, "unlinkContract", Cleaned(p).kind = "directory",
                "unlinkManifest", [Cleaned(p) EXCEPT !.files.contract = None])
UnlinkManifest(p) ==
    CleanupCall(p, "unlinkManifest", Cleaned(p).kind = "directory",
                "removeDir", [Cleaned(p) EXCEPT !.files.manifest = NoManifest])
RemoveDir(p) ==
    CleanupCall(p, "removeDir",
                Cleaned(p).kind = "directory" /\ Cleaned(p).files = NoFiles,
                "report", Missing)

\* transaction_path_failure_detail looks at each suspect path once more, the
\* backup before the staging directory; then the command exits.
Report(p) ==
    /\ pc[p] = "report"
    /\ \/ /\ suspect[p] = {}
          /\ Goto(p, "done")
          /\ UNCHANGED <<suspect, retained>>
       \/ /\ "backup" \in suspect[p]
          /\ retained' = [retained EXCEPT ![p] = @ \cup
                 IF backup[p].kind = "missing" THEN {} ELSE {"backup"}]
          /\ suspect' = [suspect EXCEPT ![p] = @ \ {"backup"}]
          /\ UNCHANGED pc
       \/ /\ suspect[p] = {"staging"}
          /\ retained' = [retained EXCEPT ![p] = @ \cup
                 IF staging[p].kind = "missing" THEN {} ELSE {"staging"}]
          /\ suspect' = [suspect EXCEPT ![p] = {}]
          /\ UNCHANGED pc
    /\ UNCHANGED <<fsVars, phase, readVars, tries, err, edits>>

-----------------------------------------------------------------------------
(* The environment.                                                        *)

EditsLeft == edits.output + edits.aside < MaxEdits

EditsOutput ==
    "edit" \in Hazards /\ EditsLeft /\ edits' = [edits EXCEPT !.output = @ + 1]

\* Somebody changes what has been staged or set aside.
EditsAside == EditsLeft /\ edits' = [edits EXCEPT !.aside = @ + 1]

NoCall == UNCHANGED <<pc, phase, readVars, tries, err, repVars>>

\* A person changes, truncates or deletes one of the files, makes the manifest
\* true of the files again, or leaves a file of her own.
EditFile ==
    /\ EditsOutput
    /\ out.kind = "directory"
    /\ \/ out' = [out EXCEPT !.files.adapter = Edited]
       \/ out' = [out EXCEPT !.files.contract = Edited]
       \/ out' = [out EXCEPT !.files.manifest = NoManifest]
       \/ out' = [out EXCEPT !.files.manifest.adapter = out.files.adapter,
                             !.files.manifest.contract = out.files.contract]
       \/ out' = [out EXCEPT !.extra = TRUE]
    /\ UNCHANGED <<staging, backup>> /\ NoCall

\* A person removes the output, or puts a file or a link in its place.
ReplaceOutput ==
    /\ EditsOutput
    /\ out' \in {Missing, NotADir} \ {out}
    /\ UNCHANGED <<staging, backup>> /\ NoCall

\* A program that had a file of the output open writes into it although the
\* directory has been claimed.
EditThroughHandle(p) ==
    /\ "handle" \in Hazards /\ EditsAside
    /\ backup[p].kind = "directory"
    /\ backup' = [backup EXCEPT ![p].files.adapter = Edited]
    /\ UNCHANGED <<out, staging>> /\ NoCall

\* A person tidies away a staging or a backup directory.
RemoveSibling(p) ==
    /\ "sibling" \in Hazards /\ EditsAside
    /\ \/ /\ staging[p].kind # "missing"
          /\ staging' = [staging EXCEPT ![p] = Missing]
          /\ UNCHANGED backup
       \/ /\ backup[p].kind # "missing"
          /\ backup' = [backup EXCEPT ![p] = Missing]
          /\ UNCHANGED staging
    /\ UNCHANGED out /\ NoCall

\* There is no journal: an invocation that is killed leaves things as they are.
Crash(p) ==
    /\ "crash" \in Hazards
    /\ pc[p] \notin {"done", "crashed"}
    /\ Goto(p, "crashed")
    /\ UNCHANGED <<fsVars, phase, readVars, tries, err, repVars, edits>>

-----------------------------------------------------------------------------
Validate(p) ==
    \/ CheckKind(p) \/ Scan(p) \/ ReadManifest(p) \/ ReadAdapter(p)
    \/ ReadContract(p) \/ CheckHashes(p)

Stage(p) ==
    \/ CreateStaging(p) \/ InspectStaging(p) \/ WriteKind(p)
    \/ WriteContract(p) \/ WriteAdapter(p) \/ WriteManifest(p)

Rename(p) == Claim(p) \/ StagingKind(p) \/ Publish(p) \/ Restore(p)

Clean(p) ==
    \/ CleanScan(p) \/ UnlinkAdapter(p) \/ UnlinkContract(p)
    \/ UnlinkManifest(p) \/ RemoveDir(p) \/ Report(p)

Step(p) ==
    \/ Validate(p) \/ Generate(p) \/ RequireAbsent(p) \/ Stage(p)
    \/ Rename(p) \/ Clean(p)

Environment ==
    \/ EditFile \/ ReplaceOutput
    \/ \E p \in Writers : EditThroughHandle(p) \/ RemoveSibling(p) \/ Crash(p)

Next == Environment \/ \E p \in Writers : Step(p)

Init ==
    /\ \/ out \in {Missing, NotADir}
       \/ \E old \in OldOutputs :
             out = Directory(Generation(OldAbi, old[1], old[2]))
    /\ staging = [p \in Writers |-> Missing]
    /\ backup = [p \in Writers |-> Missing]
    /\ pc = [p \in Writers |-> IF p \in Updaters THEN "checkKind" ELSE "generate"]
    /\ phase = [p \in Writers |-> "open"]
    /\ expected = [p \in Writers |-> NoFiles]
    /\ reading = [p \in Writers |-> NoFiles]
    /\ tries = [p \in Writers |-> 0]
    /\ err = [p \in Writers |-> "none"]
    /\ suspect = [p \in Writers |-> {}]
    /\ retained = [p \in Writers |-> {}]
    /\ edits = [output |-> 0, aside |-> 0]

Spec == Init /\ [][Next]_vars

\* Every invocation is a process the operating system schedules.
FairSpec == Spec /\ \A p \in Writers : WF_vars(Step(p))

=============================================================================
