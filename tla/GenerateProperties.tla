------------------------- MODULE GenerateProperties -------------------------
(***************************************************************************)
(* What concurrent invocations of `moonhostabi generate` promise about the *)
(* output directory.  Each property says under which hazards it is meant;  *)
(* the runs choose the hazards accordingly.                                *)
(***************************************************************************)
EXTENDS GenerateTransaction

PCs == {"checkKind", "scan", "readManifest", "readAdapter", "readContract",
        "checkHashes", "generate", "requireAbsent", "createStaging",
        "inspectStaging", "writeKind", "writeContract", "writeAdapter",
        "writeManifest", "claim", "stagingKind", "publish", "restore",
        "cleanScan", "unlinkAdapter", "unlinkContract", "unlinkManifest",
        "removeDir", "report", "done", "crashed"}
Phases == {"open", "staged", "claimed", "committed"}
Codes  == {"none", "input", "unowned", "exists", "io"}
Roles  == {"staging", "backup"}
EditCounts == [output : 0 .. MaxEdits, aside : 0 .. MaxEdits]

\* The types, with the bound on the unique-name loops of
\* create_staging_directory and move_output_to_unique_backup: the attempt
\* counter stays below the number of attempts.
TypeOK ==
    /\ out \in Entry
    /\ staging \in [Writers -> Entry]
    /\ backup \in [Writers -> Entry]
    /\ pc \in [Writers -> PCs]
    /\ phase \in [Writers -> Phases]
    /\ expected \in [Writers -> Files]
    /\ reading \in [Writers -> Files]
    /\ tries \in [Writers -> 0 .. (MaxTries - 1)]
    /\ err \in [Writers -> Codes]
    /\ suspect \in [Writers -> SUBSET Roles]
    /\ retained \in [Writers -> SUBSET Roles]
    /\ edits \in EditCounts

-----------------------------------------------------------------------------
(* Without edits: crashes and failing calls may happen at any point.       *)

\* README.md: adapter, contract and manifest are published together.  Whoever
\* opens the output directory, whatever was interrupted, finds all three files
\* and a manifest that is true of them: never a torn or a mixed generation.
OutputWhole == out.kind = "directory" => Whole(out)

Claimed(p) == phase[p] = "claimed" /\ Whole(backup[p])

Recoverable == Whole(out) \/ \E p \in Updaters : Claimed(p)

\* Once there has been an output, there is one at every later moment, at the
\* output path or complete in the backup of an update that has not published:
\* no order of claims, publications, restorations and cleanups of different
\* invocations, and no crash between them, loses the last copy.
OutputNeverLost == [][Recoverable => Recoverable']_vars

HoldsContract(d, c) == Whole(d) /\ Encoded[d.files.contract] = c

ContractThere(c) ==
    \/ HoldsContract(out, c)
    \/ \E p \in Updaters : phase[p] = "claimed" /\ HoldsContract(backup[p], c)

\* README.md: an update preserves the validated contract.  The names a contract
\* once at the output path gives, in whatever form they were written, are at
\* every later moment there or in the backup of an update that has not
\* published: no update replaces the contract that another writer published
\* after the first look, and none drops the names of what it did look at.
ContractNeverLost ==
    [][\A c \in Contracts : ContractThere(c) => ContractThere(c)']_vars

Holds(d, a) == Whole(d) /\ d.files.adapter = a

Kept(a) == Holds(out, a) \/ \E p \in Updaters : Holds(backup[p], a)

\* README.md: --update refuses resource-aware outputs so it cannot discard
\* resource checks.  A published resource-aware adapter is never deleted,
\* although an update that validated something else may claim it.
ResourceOutputKept == [][\A a \in ResourceAware : Kept(a) => Kept(a)']_vars

-----------------------------------------------------------------------------
(* The inductive invariant behind OutputWhole and OutputNeverLost: where an *)
(* invocation is decides how far its transaction is, what its staging       *)
(* directory holds, and that what it has claimed is whole.                  *)

CallsOnly == Hazards \subseteq {"io", "crash"}

ValidationPCs == {"checkKind", "scan", "readManifest", "readAdapter",
                  "readContract", "checkHashes"}
StagedPCs     == {"writeKind", "writeContract", "writeAdapter",
                  "writeManifest", "claim"}
CleanPCs      == {"cleanScan", "unlinkAdapter", "unlinkContract",
                  "unlinkManifest", "removeDir"}

PhaseAt(p) ==
    /\ phase[p] = "claimed" => p \in Updaters
    /\ pc[p] \in ValidationPCs => phase[p] \in {"open", "claimed", "committed"}
    /\ pc[p] \in {"generate", "requireAbsent", "createStaging",
                  "inspectStaging"} => phase[p] = "open"
    /\ pc[p] = "requireAbsent" => p \notin Updaters
    /\ pc[p] \in StagedPCs => phase[p] = "staged"
    /\ pc[p] = "claim" => p \in Updaters
    /\ pc[p] \in {"stagingKind", "publish"} =>
          phase[p] = IF p \in Updaters THEN "claimed" ELSE "staged"
    /\ pc[p] = "restore" => phase[p] = "claimed"
    /\ pc[p] \in CleanPCs => phase[p] # "open"

StagingAt(p) ==
    /\ pc[p] \in {"inspectStaging", "writeKind", "writeContract"} =>
          staging[p] = EmptyDir
    /\ pc[p] = "writeAdapter" =>
          staging[p] =
              Directory([NoFiles EXCEPT !.contract = Generated(p).contract])
    /\ pc[p] = "writeManifest" =>
          staging[p] =
              Directory([Generated(p) EXCEPT !.manifest = NoManifest])
    /\ (\/ pc[p] \in {"claim", "stagingKind", "publish"}
        \/ phase[p] = "claimed" /\ pc[p] \in ValidationPCs) =>
          staging[p] = Directory(Generated(p))

ClaimedWhole(p) ==
    phase[p] = "claimed" /\ backup[p].kind = "directory" => Whole(backup[p])

WriterInv(p) ==
    PhaseAt(p) /\ StagingAt(p) /\ ClaimedWhole(p)

TransactionInv == OutputWhole /\ \A p \in Writers : WriterInv(p)

-----------------------------------------------------------------------------
(* Under every hazard.                                                     *)

LeftoversNamed(p) ==
    /\ staging[p].kind # "missing" => "staging" \in retained[p]
    /\ backup[p].kind # "missing" => "backup" \in retained[p]

\* An invocation that ends leaves no staging and no backup directory that its
\* error does not name; in particular a successful one leaves none.
LeftoversReported == \A p \in Writers : pc[p] = "done" => LeftoversNamed(p)

-----------------------------------------------------------------------------
(* With edits of the output by its path, but not yet through old handles.  *)

\* Nobody has yet changed what an invocation staged or set aside.
Untouched == edits.aside = 0

\* A directory that holds nothing but files of a snapshot.
Remnant(d, snapshot) ==
    /\ d.files.adapter \in {None, snapshot.adapter}
    /\ d.files.contract \in {None, snapshot.contract}
    /\ d.files.manifest \in {NoManifest, snapshot.manifest}
    /\ ~d.extra

OnlyValidated(p) == Remnant(backup[p], expected[p])

\* README.md: the exact byte snapshot is revalidated before publication.  What
\* an update has set aside when its publication succeeds is, byte for byte and
\* with no further file, what it validated and took the contract from; and so
\* is what it then deletes file by file, up to the last of them: an edit is
\* never replaced or deleted, unless it is made where no check can see it, in
\* what has been set aside.
UpdateReplacesValidated ==
    [][\A p \in Updaters : Untouched =>
          /\ phase[p] = "claimed" /\ phase'[p] = "committed" =>
                backup[p] = Directory(expected[p])
          /\ phase[p] = "committed" /\ pc[p] \in {"unlinkAdapter", "unlinkContract",
                                                  "unlinkManifest", "removeDir"} =>
                OnlyValidated(p)]_vars

-----------------------------------------------------------------------------
(* The inductive invariants behind the other properties.                   *)

\* Behind UpdateReplacesValidated: what a validation of the backup has read so
\* far is still there, and from the moment it agrees with the snapshot until
\* the cleanup the backup is that snapshot.
BackupAsRead(p) ==
    /\ pc[p] \in {"readManifest", "readAdapter", "readContract", "checkHashes"} =>
          backup[p].kind = "directory" /\ ~backup[p].extra
    /\ pc[p] \in {"readAdapter", "readContract", "checkHashes"} =>
          reading[p].manifest = backup[p].files.manifest
    /\ pc[p] \in {"readContract", "checkHashes"} =>
          reading[p].adapter = backup[p].files.adapter
    /\ pc[p] = "checkHashes" => reading[p].contract = backup[p].files.contract

BackupAsValidated(p) ==
    /\ phase[p] = "claimed" => BackupAsRead(p)
    /\ (\/ phase[p] = "claimed" /\ pc[p] \in {"stagingKind", "publish"}
        \/ phase[p] = "committed" /\ pc[p] \in ValidationPCs \cup {"cleanScan"}) =>
          backup[p] = Directory(expected[p])
    /\ phase[p] = "committed" /\ pc[p] \in CleanPCs => OnlyValidated(p)

SnapshotInv == \A p \in Updaters : BackupAsValidated(p)

\* Behind ResourceOutputKept: an update that goes on has not validated a
\* resource-aware output.
Replaceable(p) ==
    phase[p] # "open" \/ pc[p] \in {"createStaging", "inspectStaging"} =>
        ~DropsResourceChecks(p)

\* Behind LeftoversReported: until it is published or claimed nothing is there,
\* and once an error is raised, what is there is going to be deleted, looked at
\* again, or has been named.
Noted(p, role) == role \in suspect[p] \/ role \in retained[p]

LeftoverInv(p) ==
    /\ PhaseAt(p)
    /\ (\/ phase[p] = "open" /\ pc[p] \in ValidationPCs
        \/ pc[p] \in {"generate", "requireAbsent", "createStaging"}) =>
          staging[p].kind = "missing"
    /\ phase[p] \in {"open", "staged"} => backup[p].kind = "missing"
    /\ phase[p] = "committed" => staging[p].kind = "missing"
    /\ pc[p] \in CleanPCs /\ phase[p] = "claimed" /\ backup[p].kind # "missing" =>
          Noted(p, "backup")
    /\ pc[p] = "report" =>
          /\ staging[p].kind # "missing" => Noted(p, "staging")
          /\ backup[p].kind # "missing" => Noted(p, "backup")
    /\ pc[p] = "done" => LeftoversNamed(p)

-----------------------------------------------------------------------------
(* Liveness, under FairSpec.                                               *)

Ended(p) == pc[p] \in {"done", "crashed"}

\* Every invocation ends, however often unique names fail and whatever other
\* invocations do to the output path.
Termination == \A p \in Writers : <>Ended(p)

\* Without failing calls and edits, an output that an update has claimed comes
\* back, even if other writers take the path meanwhile, unless some invocation
\* is killed.
OutputComesBack ==
    Recoverable ~> \/ out.kind = "directory"
                   \/ \E p \in Writers : pc[p] = "crashed"

-----------------------------------------------------------------------------
(* The invocations implement a store of whole generations.                 *)

Content(d) == IF Whole(d) THEN d.files ELSE NoFiles

Store == INSTANCE OutputStore WITH
    Updates     <- Updaters,
    Generations <- {f \in Files : Whole(Directory(f))},
    Empty       <- NoFiles,
    current     <- Content(out),
    claimed     <- [p \in Updaters |-> Content(backup[p])],
    published   <- [p \in Updaters |-> phase[p] = "committed"]

\* Without edits, every call of every invocation, also one that fails and also
\* a crash, is a step of the store or changes nothing its users can see.
StoreSpec == Store!Spec
=============================================================================
