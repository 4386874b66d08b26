# TLA+ models of MoonHostABI

MoonHostABI reads a WebAssembly module, projects it to a *host ABI* (the
functions, types and resources a JavaScript host meets), locks it in a canonical
file, compares versions of it, and generates a TypeScript adapter bound to it.
Scripts in the repository benchmark it, test its package as a consumer
would, validate its workflows and documents, and package and aggregate its releases.
This directory holds TLA+ models of that program and of those scripts, the
configurations that check them with TLC, and theorems about them checked by TLAPS.

Source references are relative to the repository root.

## 1. Inventory

| Component | State | Operations | What is hard | What makes it correct |
|---|---|---|---|---|
| **Generation transaction** `cmd/moonhostabi/main.mbt` 583-1300, 1465-1560; `stderr.c` 111-497 | the output directory, a staging and a backup sibling per invocation, the snapshot an update validated | fresh, update and dry-run `generate` | several processes on one path, each call a separate step, kills, failing calls, edits meanwhile | readers never see a torn generation; the last output is never lost; an update replaces what it validated; leftovers are reported |
| **CLI** `main.mbt`, `resource_commands.mbt` | the files beside the artifact | argument parsing, one file written per lock/contract command, exit codes 0-5 | precedence of exit codes | never overwrites; every failure has a code |
| **ABI model** `src/model` | host ABI values | sorting of functions | ties in the order | the order does not depend on the source |
| **Lockfile** `src/lockfile` | canonical ABI, fingerprint | canonicalise, encode, decode | type numbering by reachability over recursive types | canonical form is independent of source numbering, idempotent, accepted by the decoder |
| **Compatibility** `src/compat` | report | compare two ABIs | recursive types, unknown values, duplicates | an ABI is compatible with itself; removing anything is breaking |
| **Projector** `src/projector` | worklist of types | project a module to an ABI | cycles of types | each reachable type once, in canonical order; it ends |
| **Wasm adapter** `src/wasm_adapter` | scanner position, budgets, nesting | preflight, parse | integer widths, budgets at their limits, malformed sections | nothing is allocated before its budget is checked |
| **Wasm parser** `src/internal/wasm_parser` | none | parsing | vendored third-party code | out of scope |
| **Contract** `src/contract` | aliases of externref positions | draft, validate, migrate | ambiguous positions | every position named exactly once |
| **Generator** `src/generator` | none | emit adapter, contract, manifest | what the emitted code does across `await` | the checked bytes and imports are the ones instantiated |
| **Resources** `src/resource` | resource surface, contract v5 | project, compare, validate | identity of re-exports, duplicates | unchanged surface compares equal; unknown never passes |
| **Verification** `src/verification` | report sections | verify | several failures at once | the documented precedence |
| **Runtime guards** `runtime/node/*-guard.ts` | none | check one exported value | none: stateless | covered by their tests |
| **Benchmark** `scripts/benchmark_corpus.py` | hashes of executables, artifacts and the current contract or lock; samples; the report | run pairs of processes, compare answers, hash again, clean up | files others edit, processes that hang or fail, `finally` clauses | a complete report is about the bytes it names and about equal work |
| **Package consumer gate** `scripts/verify-package-consumer.py` | accepted archives, a local registry, the installed sources, the report | serve, add, check, test and run on every target, judge, clean up | a server and clients at the same time, archives from outside, cleanup after the verdict | GO means the archives' own bytes were fetched, compiled and run |
| **Release archives** `scripts/release_archive.py` | none | validate, extract, simulate a zip or tar | names that fold together, links, modes, bytes behind the end | what is accepted unpacks to exactly the files of a release |
| **Workflow validator** `scripts/validate_workflows.py` | none | judge `ci.yml`, `release.yml` and the Spike script | order is judged by text, while jobs run by steps | what is accepted resolves, verifies and checks before it packages, publishes nothing, and can be released |
| **Quickstart validator, parser verifier** `validate_quickstart.py`, `verify-vendored-parser.py` | none | check links, commands, headings; hashes of vendored files | relative links and anchors; changes after the review | links lead somewhere; the parser is the reviewed one |
| **Release packaging, aggregate** `package-release.ps1`, `create-release-aggregate.ps1` | stage, archive and evidence of a platform; the handoffs | publish, roll back, hand over, aggregate | two moves that can fail apart, other programs' files, altered handoffs | no package without evidence; what is released is what was tested |
| **Other scripts, examples** | none | drivers and demonstrations | nothing | out of scope |

How they interact: the CLI reads an artifact, `wasm_adapter` checks budgets and
parses it, `projector` turns it into a host ABI, `lockfile` gives the ABI its
canonical form and fingerprint. `compat`, `verification` and `resource` compare
such values; `contract` and `generator` turn one into three files, and the
generation transaction puts the files on disk. All of this is sequential inside
one process. Processes meet in the file system only: at the output path and its
siblings. The emitted adapter runs in a JavaScript host, where every `await`
gives the host's other code a turn.

The scripts surround the program. The gates (`validate_workflows.py`,
`validate_quickstart.py`, `verify-vendored-parser.py`) judge the repository. A runner then
executes the workflow they accepted: a push runs `verify-spike.ps1`, a release one
packaging job per platform. Each packages an archive with `release_archive.py`
and hands it with its evidence to the aggregating job. The benchmark and the consumer gate start the
command line tool, or the package manager, as processes of their own and share files
with them.

The hazards of the code, each at its line with the properties that watch it, are
in `PROJECT.json`.

## 2. Plan

1. **Generation transaction** (done): `GenerateTransaction`, `GenerateProperties`,
   the abstract `OutputStore` it implements, `GenerateProofs`. It comes first
   because it is the only place where processes race and where data can be lost.
2. **Adapter instantiation** (done): `AdapterInstantiate`, `AdapterProperties`,
   the abstract `AtomicInstantiate`, `AdapterProofs`. The emitted `instantiate` and
   `instantiateWithResources` in a host that changes bytes, imports and memories
   during every `await`.
3. **Lockfile and compatibility** (done): `HostAbi` has the values and the pure
   operators, `ReleaseLine` the sequence of releases, `ReleaseProperties` the
   reference definitions and properties, `ReleaseProofs`.
4. **Gates of a project directory** (done): `ResourceSurface` has the resource
   operators, `ProjectGates` the commands and the files they leave beside an
   artifact that is rebuilt, `GateProperties` the reference definitions and
   properties, `GateProofs`.
5. **Preflight and projector**: the scanner's spans, budgets and nesting (done:
   `Preflight`, `PreflightProperties`, `PreflightProofs`), then its integer decoding,
   the signature budget of `parse.mbt`, and the type worklist that feeds step 3.
6. **Benchmark** (done): `BenchmarkRun`, `BenchmarkProperties`, `BenchmarkProofs`.
7. **Package consumer gate** (done): `ArchiveUnpack`, which says what unpacking does to a
   file system, `PackageConsumer`, `ConsumerProperties`, `ConsumerProofs`.
8. **Release pipeline** (done): `ReleaseArchive`, `WorkflowGate` and `RepositoryGates` have
   the gates' operators, `ReleasePipeline` the runner and packaging,
   `PipelineProperties` what acceptance is worth, `PipelineProofs`.
9. Proofs. Done: every safety and action property of the transaction, the adapter, the
   preflight and the benchmark, the refinements of `OutputStore` and
   `AtomicInstantiate`, and every safety property of the release line, the gates, the
   consumer gate and the release pipeline. Left to TLC is liveness.

`GenerateProperties` composes the transaction with `OutputStore`,
`AdapterProperties` the adapter with `AtomicInstantiate`, and `ReleaseLine` extends
`HostAbi`. `ProjectGates` composes `HostAbi`, for fingerprints and comparison, with
`ResourceSurface`. `ReleasePipeline` composes the three modules of gates, so that
acceptance is judged by what the accepted workflow then does; `PackageConsumer` and
`PipelineProperties` share `ArchiveUnpack`.

## 3. The generation transaction

### State and actions

`GenerateTransaction` has one program counter per invocation and one step per
file system call. `out`, `staging[p]` and `backup[p]` are what is at the three
paths an invocation `p` touches: a kind (`directory_kind` of `stderr.c`), the
bytes of the three files, and whether an unknown entry is there. `phase[p]` is
`UpdateTransactionState`, with `"open"` before the staging directory exists.

| Actions | Code |
|---|---|
| `CheckKind` `Scan` `ReadManifest` `ReadAdapter` `ReadContract` `CheckHashes` | `validate_owned_generation_directory`, run on the output, on the claimed backup, and on the backup before it is deleted |
| `Generate` `RequireAbsent` | the body of the `Generate` command, `require_absent_output_path` |
| `CreateStaging` `InspectStaging` | `create_staging_directory` and its eight attempts |
| `WriteKind` `WriteContract` `WriteAdapter` `WriteManifest` | `write_staged_generation` |
| `Claim` `StagingKind` `Publish` `Restore` | `move_output_to_unique_backup`, `publish_fresh_generation`, `publish_updated_generation`, `restore_backup_after_failure` |
| `CleanScan` `Unlink...` `RemoveDir` `Report` | `moonhostabi_generation_directory_unix` in cleanup mode, `transaction_path_failure_detail` |
| `EditFile` `ReplaceOutput` `EditThroughHandle` `RemoveSibling` `Crash` | the environment |

Abstractions. Bytes are values of `Adapters` and `Contracts`, and a hash is the
bytes it is the hash of. The generator is what the constants say it computes, and it
is deterministic (main.mbt 1517-1544): the contract it writes is the given or kept
one in its own form (`Encoded`) or the draft of the ABI (`Draft`), a plain adapter
is a function of ABI and contract (`PlainAdapter`), and a resource-aware one also of
artifact and resource contract (`ResourceAdapter`). So racing updates of one
artifact write the same bytes, and an update of an unchanged output writes what was
there: such an update replaces bytes by equal ones, and two of them may both publish.
Sibling names carry 128 random bits, so they never collide; a
collision and a failed call look the same to the loops. A dry run (`DryRunners`) is a
fresh generation that ends after its look at the output path; to the others it is one
that was killed there, so no run has one of its own. Reading one file, writing
one file (`write_new_file` removes a file it could not finish) and scanning one
directory are each one step. A manifest that does not decode, has the wrong
generator version or is missing is `NoManifest`: all end in the same error. The
`MHA_OUTPUT_LIMIT` errors take the path of a failing write. On platforms without
`renameat2` or `MoveFileExW` every rename fails, which is the hazard `"io"`
applied to each rename. The fault seams for tests are not separate actions:
`second-write` and `after-backup` are failing calls, `replace-before-claim` is two
`EditFile` steps, `disappear-before-scan` is another update's claim, and
`retain-staging` is a cleanup that fails.

### Runs

Hazards are a constant, because most promises hold only without some of them:
`"io"` any call may fail, `"crash"` a process may be killed at any point,
`"edit"` the output is edited by its path, `"handle"` through a file opened before
the claim, `"sibling"` somebody removes a staging or backup directory.

| Run | Instance | Hazards | Shows |
|---|---|---|---|
| `generate_race` | 2 updates, 1 resource-aware fresh with a contract of its own, an old output as it was generated or changed by hand together with its manifest, 2 attempts per name, fair | crash | `StoreSpec`: every call is a step of `OutputStore` or invisible. `OutputWhole`: never a torn or mixed generation at the output path. `OutputNeverLost`: once there is an output there is one at the path or complete in the backup of an unpublished update. `ContractNeverLost`: the names a published contract gives are at the path, or in the backup of an unpublished update, at every later moment. `ResourceOutputKept`: resource checks are never deleted. `OutputComesBack`: in behaviours without a kill, a claimed output, or another one, is at the path again. |
| `generate_hostile` | 1 update, 1 fresh with another ABI, 1 edit, 2 attempts per name, fair | all | `TypeOK`. `UpdateReplacesValidated`: what an update replaces, and what it then deletes, is byte for byte what it validated, until somebody edits what it has set aside. `LeftoversReported`: whatever happens, a command that ends has cleaned up or names what is left. `Termination` of every invocation. |
| `generate_replaced` | 2 updates, 1 fresh | none | A violation, see below. |

The bounds. Two updates and one fresh writer are the smallest instance in which
a failed claim of one process changes what the others see; each process makes a
bounded number of calls, so the only other bounds are the attempts per name (2 of
8: one retry and the last one) and the edits (1, at any moment; the fresh generation
and the second update of the other runs write whole outputs of their own). The
theorems below hold for all bounds.
Deadlock is not checked: when all commands have ended nothing happens any more.
`Termination` shows that no invocation is stuck before that.

Fairness is weak fairness of each invocation's next call, no more than that the
operating system schedules the process and its calls return. Nothing is assumed of
the environment.

### Finding

`generate_replaced` violates `ConcurrentlyReplacedRefused`. README.md 193-196
promises that concurrently replaced outputs are refused. An update claims before
it compares. So with updates A and B, which both validated the old output, and a
fresh writer F: A claims the old output; F publishes and exits 0; B claims F's
output; now the path is empty and A publishes. A has replaced an output it never
validated. B's comparison fails, its restoration fails because A's output is
there, and F's generation stays in B's backup directory, which B's error names.
Nothing is lost (`OutputNeverLost`, `ResourceOutputKept`), but F's successful
output, perhaps a resource-aware one, is no longer at the path.

Two more limits of the code, which no document denies: a kill between claim and
publication leaves the path empty and the output in a backup directory that no
later run looks for (so `OutputComesBack` speaks of behaviours without one); and a program
that still has a file of the claimed directory open can write between the last
validation and the deletion (so `UpdateReplacesValidated` ends with the first edit of
what has been set aside, `Untouched`).

### Proofs

`GenerateProofs` proves, for any set of invocations, any ABIs and any bounds:

- `TypeCorrect`: `Spec => []TypeOK`, under every hazard.
- `TransactionInvariant`: the inductive invariant `TransactionInv`, if calls fail
  and processes are killed but nobody edits (`CallsOnly`).
- `OutputStaysWhole`: `Spec => []OutputWhole`, and `LastOutputKept`:
  `Spec => OutputNeverLost`, from it.

`OutputWhole` is not inductive: that a published directory is whole depends on
what the staging directory held since it was created, through the claim, the
validation of the backup and the kind check. `TransactionInv` says for each
program counter which phase the transaction is in (`PhaseAt`), what is in the
staging directory (`StagingAt`) and that a claimed directory is whole
(`ClaimedWhole`). Each of these speaks of one invocation, so a step is checked for the invocation that
takes it; `OthersInv` shows that it leaves the rest alone. The proofs assume what
the module's ASSUMEs say: modes are disjoint, `None` is no file's bytes, the
generator is a function of its inputs and writing a contract again in its own form
changes nothing, and there is at least one attempt per name. Any of the bytes may be
equal.

Its second half proves the properties of updates and the refinement:

- `LeftoversAreReported` (`LeftoversReported`), under every hazard. What a command
  leaves was created or claimed long before it ends, so `LeftoverInv` says for each phase
  what can be on disk at all, and that after an error each directory is going to
  be deleted, is looked at again, or has been named (`Noted`).
- `UpdatesReplaceValidated` (`UpdateReplacesValidated`), under every hazard, up to the
  first edit through a handle or removal of a sibling (`Untouched`). `SnapshotInv`
  follows a validation file by file (`BackupAsRead`): what was read is still in the claimed
  directory, from the comparison to the publication it is the snapshot, and while it
  is deleted it holds nothing else (`OnlyValidated`). `Untouched` is needed: the code
  cannot exclude those writers, as said after the finding above.
- `ResourceOutputsKept`, `ContractsStay` and `StoreImplemented`, if calls fail and
  processes are killed but nobody edits (`CallsOnly`), as in run `generate_race`. They rest
  on `CallsInv`, the invariants above together with `Replaceable`: an update that goes on
  has not validated a resource-aware output. For `ContractsStay` the one step
  that matters is a publication by an update: its backup is then still the snapshot it
  validated (`SnapshotInv`), its staging directory was generated from that snapshot's
  contract (`StagingAt`), and writing names in the generator's form once more keeps
  them, so what the backup gives up is at the output path.
- `StoreImplemented` is `Spec => StoreSpec`: initial states map to initial states, and
  every step of every invocation, failed calls and kills included, is a step of
  `OutputStore` or leaves the store alone.

Only model-checked, being out of reach of the prover: the liveness properties
`Termination` and `OutputComesBack`.

## 4. Adapter instantiation

### State and actions

`AdapterInstantiate` models the two functions that
`src/generator/typescript.mbt` and `resource_contract_typescript.mbt` emit, as
they run in a JavaScript host. The host's state is the buffer (`bytes`), the import object (`root`:
module to object, `objs`: object to values), and its memories (`mem`). A call has
a program counter, the bytes and the imports it has copied (`taken`, `got`), and
the position in the loop that reads imports.

| Actions | Code |
|---|---|
| `Begin` `Digest` | the copy of the bytes, the first `await` and the comparison of the SHA-256 |
| `ReadModule` `ReadName` | `snapshotResourceImports` and `assertHostImports` (one property read each), and the engine's reading of the import object |
| `CheckSnapshot` | `assertHostImports` and `assertResourceBindings` on the copy |
| `CallEngine` `Compile` `Link` | `WebAssembly.instantiate`: copy of the bytes, compilation, reading imports, matching, start function |
| `CheckExports` | `assertModuleExports` and `assertResourceBindings` on the exports |
| `OverwriteBytes` `SetModule` `SetImport` `GrowMemory` | the rest of the host |

JavaScript runs to completion: `Quiet` makes a step wait while another call is in
a synchronous section, and `HostTurn` lets the host's own code run only between
such sections, or inside one where a property read calls a getter (hazard
`"getter"`). Hazard `"engine"` is an engine that fails for its own reasons, and a
host without Web Crypto. The behaviour of `WebAssembly` and of property reads is
external: it is modelled from how the emitted code uses it.

The plain adapter promises nothing about the imports after it has asserted them:
it hands the host's own object to the engine. Only its exports are checked.

### Runs

| Run | Instance | Shows |
|---|---|---|
| `adapter` | 1 plain and 1 resource-aware call, 3 host edits, two kinds of host: one with getters, one whose engine may fail | `MismatchBeforeStart`: a resource-aware call that reports a mismatch has not run the start function. `AcceptedImportsLink`: what the adapter accepted the engine accepts. `ReturnedExportsKnown`: only exports of the ABI, and of the right artifact, are returned. `PromiseKept`: in a host without getters the resource-aware call is a behaviour of `AtomicInstantiate`, which takes the bytes at one moment and all imports at a later one, admits only what fits, and runs exactly that. |

Bounds. One import module with a function and a memory lets every loop go through
two reads of the same object, between which a getter can replace either value.
Two memories (one fits and can grow, one has too large a maximum), two artifacts
(the other one lacks the function import and the export), and one function of
another signature are one representative of every kind that the checks tell
apart. Three edits are: replace the object, replace a value in it, overwrite the
bytes. Refinement needs hosts without getters: with them a copy is a mixture of
what the object held at several moments, and no single moment shows it.
Deadlock is not checked: the host may stop editing and every call has ended.

### Proofs

`AdapterProofs` proves for any calls, artifacts, modules, values, memories and
numbers of edits, in any host, with getters or a failing engine too:
`MismatchIsBeforeStart`, `AcceptedCopiesLink` (`AcceptedImportsLink`) and
`ReturnedExportsAreKnown`. None of them is inductive. `CallsInv` adds which bytes
a call works on at each step (`ArtifactKnown`), and that a copy that was checked
still fits (`Checked`): the host goes on between the check and the engine's reading of the
copy, but a memory only grows and its declared maximum is fixed.

`PromiseIsKept` proves the refinement, `Spec => PromiseKept`. Its core is
`CopiedSoFar`: where there are no getters, nothing happens between two reads, so the
loop's half of a copy is what the import object holds now, and at the check the
whole copy is what it holds at that moment. That step maps to the one in which
`AtomicInstantiate` admits the imports; the digest and the start of the artifact map
to its two others, and all the rest to stutters. The proofs assume what the modules'
ASSUMEs say: the two kinds of calls, and of values, are disjoint, `None` is none of them, and
the artifact the adapter is bound to needs every import and provides every export of the ABI.

## 5. Lockfile, comparison and the release line

`HostAbi` translates `src/model/abi.mbt`, `src/lockfile/canonical.mbt` and
`src/compat/diff.mbt`: the order of functions, canonical numbering of types by
first reachability, renaming, acceptance by `decode_lockfile`, and
`compare_host_abi`. The worklist loop is a recursive function that gives the
worklist after each scanned definition. `ReleaseLine` puts them in sequence: an
artifact is changed and rebuilt any number of times (`ChangeImports`,
`ChangeExports`, `ChangeType`) and projected by this tool or by one that detects
more features (`ChangeFeatures`), may import or export more than functions
(`ChangeResources`), `Release` is a successful `check`
against the lock of the last release followed by `lock`, and `host` is the lock
some host was written against.

`analyze_host_abi` gives an artifact diagnostics (`Diagnosed`): for a public item that is
no function, and for a parameter or result that is unknown, or a typed reference or `v128`
unless the capability policy allows it. `lock` refuses such an artifact, and
`compare_host_abi_with_diagnostics` makes the outcome unknown. The commands' policy
(`default_js_capability_policy`) allows neither, so the locks they write name no types; a
program that calls the library may pass another, and there the numbering of types matters.
`policy` is what the policy of the line allows, the empty set for the commands.

Abstractions. An import's module and name, or an export's name, is its rank in
text order; the fingerprint is the canonical ABI it is the hash of; packed
storage types are among the value types; a report's codes, paths and messages are
left out, so that an outcome stands for a report. The order in which an artifact
declares its types plays no role because the code puts them in a map.
A reference to a type without a definition is one to a function type, which
`projector` does not put among the definitions.

| Run | Shows |
|---|---|
| `release_line` | `NumbersAreNotIdentity`: any renumbering of types and any order of declarations has the same canonical form. `CheckIsExact`: of the artifacts without diagnostics in which everything is known, `check` accepts exactly those on which the last release's host can run, by a definition with no order or worklist in it, and calls the rest breaking; all other artifacts it calls unknown; the library's strict policy accepts exactly the same fingerprint; and the lock it reads is one the decoder accepts. `HostStillWorks`: after any number of releases, each compared only with the one before, the first host still runs. |
| `release_repeated` | A violation, see below. |

Bounds: two types, each undefined, a struct that refers to the other or to
itself, a subtype of the first (which makes recursive supertypes), or an array of
unknown storage; up to two imports declared out of order, up to one export, with and
without references, one unknown feature, and the commands' policy and one that allows
typed references. These contain unreachable types, types reached only through
another, cycles through fields and through supertypes, a type reached by an import
in one release and by an export in the next, and every order of first
reachability. There is no counter: TLC explores releases without end. The theorems
below hold for any number of types, any definitions, any policy and all sources whose
lists name each function once.

### Proofs

`ReleaseProofs` proves the three properties: `NumbersAreNotIdentityAlways`,
`CheckIsExactAlways` and `HostStillWorksAlways`. They are
about what `lock` and `check` compute, so most of the module is about the operators of
`HostAbi`, for every well-formed ABI:

- What the recursive parts do: concatenation (`FlattenSteps`), entering ids into a list
  (`Assign`) and the worklist. Facts about them are proved by induction on a position, which
  is the least element of a set of counterexamples (`Least`). `WorklistFacts` says that the
  worklist ends with each type that the functions lead to, once, and no other: the least
  closed set of `Reachable`, which knows no order.
- `SortFacts`, `SortedEqual`: any list has an order by the texts of its functions; when each
  name occurs once, it is that of their names, so two lists with the same functions are
  sorted into the same list.
- `SameCanonical`: if a correspondence of type numbers carries one ABI's functions
  and the definitions they lead to into those of another, both worklists find
  corresponding types at each position, so the canonical forms are equal.
  `CanonicalMatches`: an ABI corresponds to its canonical form. Together these are
  `AlikeExactly`, that a fingerprint is the same exactly for ABIs that correspond, and
  `CanonicalTwice`, that a lock can be decoded.
- `CommonChange`, `SameMeans` and `UnknownFoundMeans` bring the comparison down to these;
  the results are `SemanticMeans` and `StrictMeans`.

`LineInv` (`LineSafe`) is the inductive invariant. That the host works with the lock is not
inductive: it needs that the lock decodes and is well formed, and then that
`Usable` is transitive along releases (`UsableOn`). It also says that the
features in `source` and `lock` are those of their imports (`Featured`). The proof
could not do without that: features are part of the fingerprint, but the comparison
looks only at unsupported ones, so that an artifact with the same functions and without the
supported feature would pass the strict check with another fingerprint. The code excludes
it because `moonbit.make_closure` is detected from the imports, and this is how
`Detected` models it.

Assumed are `ListsAssumption` (lists are of ABI functions, and exports name each once, as
WebAssembly requires), `DefinitionsAssumption`, `FeaturesAssumption` (the features of a
later tool are not those this one supports) and `PoliciesAssumption`; the run evaluates
them. The theorems have the hypothesis `ImportedOnce`, that imports too name each function
once, which the finding below shows is needed.

### Finding

`release_repeated` violates `SameAbiPasses`. WebAssembly allows a module to import one
name several times with different signatures. `diff.mbt` looks an import up by name and
finds the first signature, so the second is compared with it, and `check` calls such an
artifact breaking against the lock that `lock` has just written of it, although
main.mbt 1426-1428 says that different bytes with the same ABI pass. Two more
consequences: adding a second signature for an imported name is called compatible; and
for a program that allows typed references, where two signatures of a name differ only in
type numbers, their order and with it the canonical form depends on the artifact's
numbers, which canonical.mbt 175-176 says never become part of the identity. The sources
of `release_line` import each name once (`ImportedOnce`), so that its properties hold.

## 6. Preflight

`Preflight` translates `src/wasm_adapter/preflight.mbt`, the scan that runs before
the parser may allocate anything. `pos` and `end` are the scanner's, `sectionEnd`
the variable that keeps the section's end during a function body, `used` the
budgets, `tally` and `dataCount` the counts compared at the end. `pc` is the place
in the code, `left` the rounds left of up to three nested loops: groups, bodies or
segments outside; types of a group, groups of locals or entries of a segment in
the middle; value types, fields, labels and handlers inside. `after` is where
an expression returns to and `frames` its open constructs. `dataUsed`, `seen`,
`declaredEnd` and `rounds` are history.

| Actions | Code |
|---|---|
| `Open` `NextSection` `EndSection` `Finish` | the loop of `preflight_artifact`, 494-741 |
| `SkipCustom` `ReadNumber` `Contents` `CountedContents` `ScanEntry` `ScanInitialized` `ScanPayload` `Entries` `ScanIndex` `ScanInitializer` | its match on the section, and the elements of each section's vector |
| `ScanGroup` `ScanType` `Results` `ScanInner` `EndLoop` | recursive groups, `subtype`, `field`, `value_type` |
| `OpenBody` `ScanLocals` `BeginCode` `EndBody` | function bodies |
| `Simple` `UseData` `OpenConstruct` `Else` `EndConstruct` `EndExpression` | `expr` with `bulk` |
| `OverLimit` `Malformed` | `LimitExceeded`, `InvalidArtifact`, wherever they can be raised |

Abstractions. Bytes are not there before they are read: an action chooses how many
an encoding takes and which number it means, so the model has every artifact, and
more. Consecutive reads of one element without a count between them are one read
of their total width. Which opcodes and type bytes are accepted is left to the
choice between an action and `Malformed`.

Run `preflight` shows, on artifacts of 7 to 22 bytes and twelve kinds of section:
`SpansNest`, `WorkIsBudgeted`, `SectionsInOrder` and `AcceptedIsConsistent` (the type
invariant is proved below).
Limits are small (6 items, 2 types, 1 local in a function, 3 instructions, depth
1, 21 bytes) so that the scan reaches each of them, and one above (22 bytes) and
one below the header (7 bytes) are there. 21 bytes hold a function, its body and
an instruction, or a data count, a body that uses it and a data segment, and all
three loops nested. Sections 5 and 7 are scanned by the same action as 2 and 13
and only make the state space larger. Deadlock is not checked: the scan ends.

`PreflightProofs` proves for every choice of limits, lengths, sections, counts and
widths `TypeCorrect`, `ReadsStayInside` (`SpansNest`), `LoopsStayBudgeted`
(`WorkIsBudgeted`) and `AcceptanceIsConsistent` (`AcceptedIsConsistent`), assuming
only that they are natural numbers and that an encoding takes at least one byte.
The invariant `ScanInv` adds to the properties what they rest on: `Spans` says where
the innermost span ends depending on whether a body is open (`InBody`), because
`SpansNest` after a body holds only if `sectionEnd` has been the section's end all
along; `DataCounted` says that memory.init and data.drop imply a data count, and
that nothing follows a result. `SectionsComeInOrder` (`SectionsInOrder`) adds `Ordered`: the
sections seen so far are in order and none ranks above `last`, so that comparing the next one
with `last` is enough.

## 7. Gates of a project directory

A team keeps files beside its artifact, and commands judge the artifact by them. The
files are of different ages: a lock from before a rebuild, a contract that was
migrated, a resource lock of an older release. `ProjectGates` has one artifact,
the program it is built from, and five files, of which any may be absent or
damaged.

| In the model | Code |
|---|---|
| `program` | the artifact: its functions and, in `module`, its memories, tables, globals and tags |
| `lock`, `contract`, `rlock`, `rcontract` | the files of `lock`, a host contract, a resource lock, a resource contract |
| `output` | what `generate` publishes: the ABI, the contract written beside the adapter, the resource surface embedded in it (how it is published is section 3) |
| `Lock` `ResourceLock` `ResourceContract` `Generate` `GenerateWithResources` `Update` | the commands of `execute_command` that write |
| `CheckExit` `VerifyExit` `ResourceVerifyExit` | the exit codes of `check`, `verify` and `resource-verify` |
| `ContractDecodes` `Draft` `Migrate` | `decode_contract`, `create_contract_draft`, `migrate_v1_contract` |
| `GeneratorAccepts` `GeneratesWithResources` | `validate_generator_abi` and the diagnostics of the resource-aware generator |
| `ProjectSurface` `CompareSurfaces` `LiftLegacy` | `project_resource_surface`, `compare_resource_surfaces`, `lift_legacy_surface` |
| `Rebuild` `KeepContract` `NamePosition` `PasteFingerprint` `Older...` `Damage` `RemoveFile` | developers, earlier releases and storage |

Abstractions. A fingerprint is the canonical ABI it is the hash of, and a file that does
not decode, for whatever reason its text has, is `Damaged`. Path texts are tuples,
but two imports share a tuple where their texts are equal (`ImportPath`), because
module and name are joined by a dot. Limits are opaque: their bounds, checked
again by `validate_surface_v4`, are left out. `OlderSurface` assumes that who wrote a
legacy file through the library recorded the declarations truthfully; the code
has no means to check it.

Run `gates` shows:

- `ExitCodesAdvise`: the exit code of `verify` says what helps. After 0 `generate`
  succeeds, after 2 a new lock is enough, after 4 it is not, and 3 with a readable
  lock means that this program cannot be locked.
- `OutputRegenerates`: from whatever contract an output was made, `--update`
  accepts the one written to it and reproduces the output.
- `EveryPositionNamed`: each opaque value at the boundary has an alias of its own.
- `ResourceVerifyIsExact`: with a lock of version 4 `resource-verify` accepts
  exactly the programs whose boundary a host cannot tell from the locked one.
  The reference definition `SameBoundary` pairs declarations found by counting,
  without index spaces or surfaces.
- `FilesAgree`: a lock of version 3 leads to the outcome of a new lock of the
  same artifact or to none, and `generate --resource-contract` takes a contract exactly
  when `resource-verify` would pass against a lock made at the same time.

Bounds: six sets of functions (two opaque positions, an ambiguous path, a
duplicate import, a right and a wrong `make_closure`, `v128`) and fourteen modules
with resources, each different from another in one thing a gate might miss:
numbering of definitions, of signatures or against imports, the shared flag,
mutability, an empty name, a type with no spelling, and two that projection
refuses. Files are kept in pairs that one command reads or writes together
(`Kept`), because the properties relate two files and the program. So
`GenerateWithResources` is taken with a draft only, and that aliases must not name
types of resource-aware adapters (`ResourceTypes`) has no effect in this run.

### Finding

`gates_indices` violates `IndicesDoNotMatter`. A comment says of the resource
comparison of the verification library that it "does not depend on Wasm indices"
(`src/verification/resources.mbt` 16-17), but the projector describes an exported
resource by nothing but its index. Adding a definition before an exported global
makes it a changed resource; changing the type behind the index does not. The
commands compare surfaces instead and are not affected; a caller of
`verify_artifact_with_resources` is.

### Proofs

`GateProofs` proves every property of the run `gates`, for any programs, names and files and
any order of commands and edits: `ExitCodesAreAdvice`, `OutputsRegenerate`,
`EveryPositionIsNamed`, `ResourceVerifyIsRight` and `VerdictsAgree`. The verdicts are about
files that are older than the artifact, so the invariant `FilesInv` (`FilesInvariant`)
remembers where they are from. A lock is that of a program that could be locked (`LockInv`).
The contract of an output names the positions of the ABI of some program that the generator
accepted (`OutputInv`), which takes that whatever it is given, a draft
(`DraftNamesPositions`), a contract of the first version or one that a developer edited and
that still decodes (`DecodedNamesPositions`), names all positions; and a readable file of
resources is one of the surfaces of the program it is `of` (`Truthful`). From there:

- `LiftIsExact` is why a legacy lock never guesses: if the lift leaves nothing out, there was
  no tag to resolve and no type without a spelling, and the lifted surface is the current one.
- That a new lock is enough after code 2 needs that what the generator accepts names each
  function once, so that its canonical form is its ABI (`LockedAsIs`), and that nothing is
  breaking between an ABI and itself. Both are proved of any ABI in `ReleaseProofs`, which
  `GateProofs` instantiates as `Host`, with no releases in it: `Sorting`, `SortedTwice` and
  `NewLockPasses` carry its lemmas over. That 3 is about this program only is `ChecksEnd`:
  programs that could be locked have no references and supported features only
  (`PlainPrograms`), and comparing two of these always has a result.
- If no path is twice in a concatenation, no path is in two of its parts (`PartsApart`), so the
  paths of an ABI correspond one to one to its positions, a function, a side and a number
  (`PlacedOnce`), and imports and exports have none in common (`PathsCounted`).
- An index space has as many types before each definition as there are imports of the kind
  before it, so that what a host finds by counting is what projection looked up
  (`TypesCounted`, `IndexSpaceFound`), and two surfaces without unspelled types are equal
  exactly if each boundary has all items of the other (`KeptEntries`, `SurfaceFacts`).

Assumed are that draft names are good ones and enough for the positions of each program
(`GoodNamesAssumption`, `DraftNamesAssumption`: the code counts them up), that
a file is neither `Absent` nor `Damaged` (`MarkersAssumption`) and that programs are what the
parser and the projector give (`ProgramsAssumption`): lists of ABI functions in which only
references have the id of a type, and a module whose imports have a module and a name,
and whose exports have a name (`IsModule`). The run `gates` evaluates these.

### Other disagreements

Two more were met and have no run: `resource-lock-v3` writes locks
with empty names, which its decoder refuses (`src/resource/extended_decode.mbt`
15-20), and `resource-lock` records default limits for a memory that is imported and
exported again (`main.mbt` 394).

## 8. The benchmark

`BenchmarkRun` models `run_benchmark` of `scripts/benchmark_corpus.py` with the
functions it calls, one step for every file it hashes or process it waits for. `at` is
the position in the nested loops over cases, iterations and sides; `disk` and
`hash` have a version of each file and the version the report names; `child` is
what lies in the directory of the current generation.

| Actions | Code |
|---|---|
| `ReadVersions` `RunVersions` `HashValidator` `RunBaselineVersion` `FailWithoutReport` `Validate` | hashes and versions of the executables and of the independent validator, validation of each artifact once |
| `SetUp` `HashExtra` `RejectExtra` | the contract or lock of a case |
| `Start` `End` `Break` `RejectAnswer` `CheckAnswer` | one measured process, with its timeout and its answer |
| `Cleanup` `Unlink` | `remove_generated_output`, in a `finally` |
| `Record` `Compare` `Rehash` `RehashExecutables` `WriteReport` | samples, the comparison of both sides, the hashes taken again, the report |
| `Edit` `Intrude` `Interrupt` | other programs and the keyboard |

Run `benchmark`, fair, shows on two work lists (a lock and a generation from one
artifact; two inspections of different ones), with and without a baseline, no or one warmup, one or two
samples and two edits:

- `RecordedBytesMeasured`: a complete report is about the bytes whose hashes it has,
  the independent validator excepted: it is hashed once, after it has said its
  version (302, 315), and not again after it has accepted the artifacts (352, 463-466).
  The documentation promises no more (`docs/performance.md` names the artifact and the
  CLI), so the model keeps it among the files that are edited and the property
  excludes it by name.
- `ComparedFairly`: its numbers compare equal work, with either side first equally
  often.
- `EndsAsReported`: success and a complete report on the disk are the same;
  generated files go, others' files stay.
- `Ends`: the run ends although a process may hang.

Two answers tell agreement from disagreement; one warmup shifts the
parity of iterations against that of samples; two edits change two files, or one
before and after it is hashed. Work lists of two cases contain a repeated artifact and a
contract of an earlier case that is overwritten. Fairness is that of the script's own steps
and its timer (`Break`): that a process ends by itself (`End`) is not assumed.
Deadlock is not checked: the run ends.

`BenchmarkProofs` proves `RecordedBytesMeasured` (`CompleteReportIsTrue`), with the same
exception, for all work lists, numbers of runs and edits. It is not inductive: when a file is used after an
edit nothing is wrong with the report yet. `BenchmarkInv` adds that no hash is newer than
the disk (`Older`; `Shapes` are the types), so that a file used with other bytes stays different from its
hash, and that every such file is looked at later (`LookedAtLater`): an
executable at the end of the run, a contract or lock at the end of its case, an
artifact at the end of a case that is still to come. `Position` says that the
loops are where this case exists. Assumed are the module's ASSUME and the meaning
of versions: an edit never brings earlier bytes back.

It proves `CasesAreComparable` (`ComparedFairly`) and
`RunsEndAsReported` (`EndsAsReported`). The report of a case is written after
its loops, so `FairInv` says of the unfinished ones which side has run in this iteration
(`HasRun`) and what they have said (`Said`), how many runs there are (`Counted`) and that the pairs alternate
(`Paired`): `Alternate` speaks of a list of whatever length, and `AlternateIsBalance`
derives that who comes first does so in half of them, to within one. `EndInv` relates report, error and
exit code at each position (`ReportInv`), and says that a generated directory without
somebody's file in it is about to be removed or could not be (`ChildInv`). `Ends` is liveness and stays
with TLC.

Limits of the code that the model makes visible or excludes: a file edited and
restored between two of its hashes; a validator replaced between its hash and its use; a contract or lock replaced between its
validation and its hash; a killed measured process may leave its staging directory
beside the output; a failure to print the summary comes after the report.

## 9. The package consumer gate

`PackageConsumer` models `execute` of `scripts/verify-package-consumer.py` as a
list of stages (`Script`), while the clients it starts act between them: `Get` (the
registry's `do_GET`), `Tamper` and `Disown`. `archive` has the accepted archives,
`served` and `index` what the server and the client know, `events` the
answers, `temp` the temporary directory. An exception goes to the cleanup, and from
inside the `try` around the targets to the second snapshot first (`Raise`).

`ArchiveUnpack` says, independently of every gate, what unpacking a list of members does to a
file system without cases: what is written where, outside, through links, or not at
all.

Run `package_consumer`, with two dependencies, one candidate, two targets and twelve
archives for the candidate, one for each way the archive check can be wrong, shows:

- `GoIsEarned`: GO means that all targets were compiled from the
  archives' bytes and that the client came to this registry for every package, under
  either spelling of its path, and for nothing else.
- `ListedIsServed`: the server has every archive a client's index lists, under both
  spellings of its path. It says nothing about the order in which the gate adds routes
  and index entries (428-445): no client runs meanwhile, and the model does both in one step.
- `AcceptedIsFaithful`: accepted archives unpack to what their members say, and
  nothing outside is touched, by the cleanup either.
- `ReportIsTrue`: a failed cleanup changes the verdict, the exit code is the
  report's, and the report tells whether the directory is gone.

`ConsumerProofs` proves `VerdictIsEarned` (`GoIsEarned`), `ListingsAreServed`
(`ListedIsServed`) and `ReportsAreTrue` (`ReportIsTrue`) for any number of dependencies and
targets, any archives and any hazards. `Script` is a concatenation whose length depends on
these constants, so the first part proves where each stage is in it (`StageAt`) and where an
exception leads (`Landings`). `ConsumerInv` then speaks of positions. Its main part is
`TargetInv`: without an error the targets before `pc` have passed, and what was
compiled came from the archives or something has changed that the second snapshot still
sees, since nothing puts the archive's bytes back. The proofs assume that the
dependencies are finitely many, that there is a target, and that `None` is none of the
other values.

`AcceptedArchivesAreFaithful` (`AcceptedIsFaithful`) has a proof of its own kind. `ArchiveInv`
says that every download is of another dependency, so that all are there before the index,
that the candidate is accepted before it is served, and that no archive is replaced once it
is. What an accepted list of members unpacks to (`CheckedIsFaithful`) is shown by induction
on the number of members unpacked so far: the tree is then what they say, so the next one
meets neither a link, nor a file above or below it, nor its own place. A fold is a recursive
function inside a library operator: `PathFold` and `UnpackFold` first show that there is a
function with its steps, by an induction written as a set of numbers (`InductSet`), because
the library's induction theorem takes an operator. These proofs assume of the data that
members are a list, their paths are lists of parts, and only `".."` is spelled `".."`
without cases (`ArchiveAssumption`).

Bounds. Two dependencies are the least with an order between them. Parts of paths
are the special ones, one pair that differs in case, one other and one reserved
name (`BadParts` stands for the names and characters refused). There is no counter.
Deadlock is not checked: the gate ends.

Limits: an `OSError` while the server closes after GO would leave a report with
GO and an error; exceptions the code does not catch, and an owner file that cannot
be decoded, end it without a report; a request that is still answered during the
verdict may be in one of the two reports only; a source changed and restored between
the snapshots is not seen.

## 10. The release pipeline

A case of `ReleasePipeline` is an event, a repository (workflow documents, Spike
script, documents, sources of the parser) and a fault. `Validate` runs the gates
on it: `ValidateWorkflows` of `WorkflowGate`, which translates the rules of
`validate_workflows.py` on parsed documents, `ValidateQuickstart` and `VerifyUpstream`
of `RepositoryGates`. A runner then executes the document that was accepted,
command by command (`ProgramOf`, `Run`, `Skip`), as GitHub Actions does: this part is
external and modelled from `.github/workflows`. `legs` are the jobs of the matrix
and the aggregating one, `store` the handoffs.

| Actions | Code |
|---|---|
| `Package` `Publish` `PublishEvidence` | `package-release.ps1`: validate and test an extraction, move the archive, move the evidence or begin to roll back |
| `CheckRollback` `DeleteArchive` | its `finally`: the archive has the hash of the one moved (803-811) and is deleted (812); each may fail, which fails the run (815-817) |
| `Upload` `Mock` `Download` | the handoff, and the simulated package of a rehearsal |
| `Aggregate` | `create-release-aggregate.ps1` 403-583 |
| `Drift` `Meddle` `Alter` | the sources change after the review, another program writes to the same paths, the artifact store returns something else |

`ReleaseArchive` translates `release_archive.py`: a tar or zip is a list of members,
what follows its end (`rest`) and whether its encoding is the canonical one.

Run `release_pipeline`, fair, goes through 92 cases: one right repository, 24 wrong
or unusual workflows, 7 Spike scripts, 10 documents and 6 parsers, each different from
the right one in one thing, and the right one with failing commands, wrong packaging
tools, other programs' files, altered handoffs, a drifting parser, and as a rehearsal. It shows:

- `AcceptedOrderIsKept`: what was accepted because of the order of its text does
  things in that order when it runs. In a release (`PackagedAsResolved`), packaging comes after
  the update, the provenance and the check. In the Spike script (`GoAfterGates`) these and
  the parser's tests come before the native tests, and the consumer's gate and tests, `npm ci`
  and the resources before `GO`. Nothing orders the native tests before `GO`: the validator
  compares each with its own marks (216-273), and accepts a script that has the second part first.
- `PublicationIsAtomic`: a package without evidence is there only between two moves, or
  after a rollback that failed and failed the run. Other programs' files are neither replaced
  nor deleted, unless one comes between the rollback's hash and its deletion.
- `ReleasedWasTested`: whatever program unpacks a released archive, it gets exactly the
  files of a release with their modes (by `ArchiveUnpack`), and this is the tree the
  smoke tests of this run used, unless it came with its evidence from another run
  (`FromElsewhere`); no accepted workflow can publish anything else.
- `LinksLead`: links and commands of the documents name something that exists, links
  as the validator resolves them, commands as a shell does in the root (`Onward`). The two
  differ for `..` and absolute paths, which a command may not have.
- `AcceptedReleases`: an accepted workflow can make a release if nothing fails.

One wrong thing per case is enough because every rule is judged alone by the
gates; archives vary in every component the checks look at. Fairness is that the
gates and the runner go on. Deadlock is not checked: a rejected repository and a
finished release stop.

What the gates do not see is part of the properties. The validator ignores `if`,
`continue-on-error`, the shell and other spellings of the packaging command: `Plain`
excludes them from `PackagedAsResolved`, in both jobs, together with scripts the job runs,
whose text it does not read. `GoAfterGates` is about workflows that leave these commands to the
script. A matrix that gives `name` instead
of `platform` is accepted but never makes a release. No evidence names its run, and
the aggregate compares the commits of the two platforms only with each other
(`create-release-aggregate.ps1` 499-506). So it accepts one platform's handoff of
another run of the same commit, and two handoffs of one older commit; `Alter` has both
(`"rerun"`, `"old"`). A rollback that is refused or fails leaves the archive without
evidence in its place, and the error of the run is the only trace. A line of a code block that looks like a heading counts as
one. If the provenance file is changed together with the parser, only the option with
the upstream archive notices, and that option, like `validate_quickstart.py`, is run by
hand.

### Proofs

`PipelineProofs` is about any cases, workflows, platforms of a matrix and archives. `LegsInv` says
of each runner whose files it has: a stage is a valid archive of the files its smoke tests ran
in, and is there only while the runner is at the packaging command (`StageInv`); an archive in
its place is that stage, an earlier one with its evidence, or another program's; and evidence
names an archive it packaged (`PublishedInv`). Between the hash and the deletion of a rollback
the archive is the stage unless another program has come between (`RollbackInv`): its
file, which is no release (`ForeignIsNoRelease`), is not equal to the stage. This is
`PackagesComeWithEvidence` (`PublicationIsAtomic`).

A runner with evidence or a failed rollback never packages again (`Finished`, `Frozen`), so what it handed over stays what it
tested. `HandoffInv` says how far a handoff can be from that: one alteration leaves its
archive or its evidence as the runner left them, and then the aggregate's
comparison of the two finds the other, or they are those of another run: of this
commit, or of an older one, and then both platforms' have to be. This gives
`ReleasesWerePackaged`: a released archive is one that a runner of this run packaged,
validated and tested, or came from another run in one of these ways (`FromElsewhere`). Rehearsals, whose mock is made of another platform's package, are excluded there.

`ReleasesWereTested` (`ReleasedWasTested`) joins this and `NothingIsPublished` with what an
accepted archive unpacks to, in three parts. The first is about paths: a name the
validator calls safe has no part that a file system treats specially in any spelling (`IsPart`),
so walking along it leads to itself, and within the directory it is unpacked in (`SafePlace`,
a fold along the path). The second is about programs that unpack: where members lie at different
places and no file is above another member, each member adds its own leaf and the directories
above it, whatever was unpacked before (`UnpackExactly`, a fold along the members). The third
says that what `ValidateTar` and `ValidateZip` accept is such a list (`Laid`, by `TarLaid` and
`ZipLaid`): its names are the expected ones, each once, files have the expected modes, and
nothing follows the end that a reader could take for members. So every reading of an
accepted archive is the tree of the release's files (`AcceptedUnpacks`), with the contents the
validator read, which are the ones the smoke tests ran in (`LaidTree`). What
is left to the steps of the pipeline is in `ArchivesInv`: whatever is handed over is a list of
members, also after an alteration; evidence of a simulation, with which the aggregate does not
look at the attributes of a zip, comes from a rehearsal, whose archive has no links, or was put
there; and a released archive is one that was accepted.

`AcceptedOrderHolds` (`AcceptedOrderIsKept`) takes the order from a text to a run, in three
parts. The first is about data: a document's text is the texts of its steps put together, and
a runner's program is the commands of its steps put together. `Flattened` gives
each list its offset in the whole, so that the steps of a program are in order (`ProgramFacts`),
each command was written by its step or belongs to a script that surrounds it (`StepFacts`),
and whatever a text has before a command, a program without scripts has before it, too
(`TextOrder`). Inductions are on sets of numbers (`InductSet`), as in `ConsumerProofs`. The
second part is the invariant `RunInv`. `LegOrder` says that what is `Certain` and behind a runner
has been done: a command is certain if its step is plain, or if the runner is now at
a later command of the same script, which stops at its first failure. This is why the
invariant is about the runner's position and not only about what was done: a step that may fail
silently is certain only for those inside it. Every action of a runner is one of four outcomes
(`StepOutcome`): it skips, succeeds, fails and goes on, or fails for good. `LegTool`
says that dependencies are resolved with an installed toolchain, and that a plain package
job installs the pinned one only; `ParserInv`, that a parser that changed after the review, when a
runner has verified its provenance, again matches the record that was reviewed. The third
part joins them at the moments that count: packaging (`ResolvedBefore`), and tests and verdict
(`ScriptBefore`, `GatesOutcome`).

`LinksAlwaysLead` (`LinksLead`) follows from the validator's verdict in `AuthorityInv`, and
from `SamePlace`: without parts that lead up, the validator's walk along a path and a
shell's are at the same place after every part (`TowardFold`, `OnwardFold`).

Stating these properties for every case showed where they were too strong. That `GO`
comes after the native tests holds in the repository's own script and is required by nothing.
`PackagedAsResolved` needs that the aggregating job does not package, which the
validator does not look at. What was provable for the order is now the property, and the
scripts and the documents the run goes through have the cases that tell the difference.

Assumed are that the names of a release are paths, with the program of each platform among
them, that no two are one place, that no file is above another name and that only `..` is
another spelling of `..` (`NamesAssumption`), that archives, the altered ones too, list
members by paths (`VariantsAssumption`), that a push has no aggregating job and a
rehearsal's handoffs are not altered (`CasesAssumption`), that `None` is no archive, evidence, verdict or
toolchain (`NoneAssumption`), that the checked documents are the four of
`validate_quickstart.py` (`CheckedAssumption`), and that jobs have lists of steps, that
scripts, commands of a step and parts of a command's path are lists, and that a step has
an action or commands, not both (`DocumentsAssumption`).

Proving this showed three things about the model: `ValidateTar` has to key its payloads by
the normalized names, as the code does, where the stored name of a directory ends in a
slash; a zip has no kinds, which come from its attributes and names (`ZipKind`); and both
readings of an archive, not only the first one, have to be the tree that was tested (`WasTested`).

Stays with TLC: `AcceptedReleases`, which is liveness.

## 11. Not modelled

The components marked `not_modelled` in `PROJECT.json`: the vendored WebAssembly
parser, the stateless guards, drivers and examples. Of the components marked
`partly`, the projector's type worklist, the integer decoding of the preflight and
the signature budget are planned; text emission of the generator and text
encoding and decoding of all files are represented by what they preserve. Of the scripts,
corpus generation and statistics, the reader of YAML, fixed phrases of documents,
manifest and plan texts, the isolation of environments, redirects, and the bytes of
zip headers outside the central directory are left out.
