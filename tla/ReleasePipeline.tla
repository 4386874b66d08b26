-------------------------- MODULE ReleasePipeline --------------------------
(***************************************************************************)
(* A release from the repository to the set of files it publishes: the     *)
(* gates accept the repository, a runner executes its workflow, each leg   *)
(* packages one platform (scripts/package-release.ps1) and hands it over,  *)
(* and an aggregate is made of both (scripts/create-release-aggregate.ps1).*)
(* Pushes run verify-spike.ps1 on the same runner, and a rehearsal on one  *)
(* platform puts a mock in place of the other one's package.               *)
(***************************************************************************)
EXTENDS ReleaseArchive, WorkflowGate, RepositoryGates

CONSTANTS
    Cases,        \* what happens: [event, repo, upstream, platform, fault]
    Sources(_),   \* the bytes of every file of a platform's package
    Variants(_),  \* archives that differ from what the packaging tools should write
    OtherBody     \* another source of the parser

VARIABLES
    case,      \* one of Cases
    program,   \* the commands of every runner
    accepted,  \* the verdict of the gates
    parser,    \* the sources that are checked out
    legs,      \* a runner for each entry of a matrix, and one that aggregates
    store,     \* the artifacts handed over
    released,  \* the archives of the aggregate
    altered,   \* history: what was altered in the store
    packaged,  \* history: the runners at the time they packaged
    published  \* history: something was published elsewhere

vars == <<case, program, accepted, parser, legs, store, released, altered, packaged, published>>

-----------------------------------------------------------------------------
(* Jobs.                                                                   *)

Step(uses, with, run) ==
    [uses |-> uses, with |-> with, run |-> run, when |-> "always", strict |-> TRUE]

\* verify-release-packaging.ps1
Rehearsal(platform) ==
    [permissions |-> "read",
     jobs |-> [package |-> [permissions |-> NoAction, env |-> "contract", needs |-> {},
                            matrix |-> <<[os |-> platform, platform |-> platform]>>,
                            steps |-> <<Step(NoAction, None, <<"installed", "package">>),
                                        Step("upload", "package-handoff", <<>>),
                                        Step("mock", None, <<>>)>>],
               aggregate |-> [permissions |-> NoAction, env |-> None,
                              needs |-> {"package"}, on |-> platform,
                              steps |-> <<Step("download", "package-handoffs", <<>>),
                                          Step(NoAction, None, <<"aggregate", "allow-simulated">>)>>]]]

DocumentOf(c) ==
    IF c.event = "push" THEN c.repo.ci
    ELSE IF c.event = "dispatch" THEN c.repo.release ELSE Rehearsal(c.platform)

MatrixJobOf(c) == IF c.event = "push" THEN "spike" ELSE "package"

\* A runner has the number of its matrix entry.
Aggregator == 0

Runners(c) ==
    DOMAIN DocumentOf(c).jobs[MatrixJobOf(c)].matrix
        \cup IF c.event = "push" THEN {} ELSE {Aggregator}

\* The commands of a step; verify-spike.ps1 has its own.
StepCommands(c, step, n) ==
    LET command(name, script) == [do |-> name, step |-> n, script |-> script]
        Commands(mark) ==
            IF mark = "verify-spike"
            THEN [k \in DOMAIN c.repo.spike |-> command(c.repo.spike[k], TRUE)]
            ELSE <<command(mark, FALSE)>>
    IN  IF step.uses # NoAction THEN <<command(step.uses, FALSE)>>
        ELSE FlattenSeq([k \in DOMAIN step.run |-> Commands(step.run[k])])

ProgramOf(c, leg) ==
    LET job == IF leg = Aggregator THEN "aggregate" ELSE MatrixJobOf(c)
        steps == DocumentOf(c).jobs[job].steps
    IN  FlattenSeq([n \in DOMAIN steps |-> StepCommands(c, steps[n], n)])

\* The jobs of a push are all of its matrix, and a rehearsal uses no store.
ASSUME CasesAssumption ==
    \A c \in Cases :
        /\ c.event = "push" => Aggregator \notin Runners(c)
        /\ c.event = "rehearsal" => c.fault # "alteration"

IsList(s) == s \in Seq(ToSet(s))

\* Jobs have lists of steps, a step has an action or a list of commands, and a
\* command's path is a list of its parts.
ASSUME DocumentsAssumption ==
    \A c \in Cases :
        /\ IsList(c.repo.spike)
        /\ \A job \in DOMAIN DocumentOf(c).jobs :
              /\ IsList(DocumentOf(c).jobs[job].steps)
              /\ \A step \in ToSet(DocumentOf(c).jobs[job].steps) :
                    IsList(step.run) /\ (step.uses # NoAction => step.run = <<>>)
        /\ \A doc \in DOMAIN c.repo.docs :
              \A command \in c.repo.docs[doc].commands : IsList(command)
        /\ LET p == c.repo.parser
           IN  p = [files |-> p.files, recorded |-> p.recorded,
                    modified |-> p.modified, license |-> p.license]

Document == DocumentOf(case)
MatrixJob == MatrixJobOf(case)

JobOf(leg) == Document.jobs[IF leg = Aggregator THEN "aggregate" ELSE MatrixJob]

System(os) == IF os = "windows" THEN "windows" ELSE "linux"

PlatformOf(leg) ==
    IF leg = Aggregator THEN System(JobOf(leg).on) ELSE System(JobOf(leg).matrix[leg].os)

Command(leg) == program[leg][legs[leg].at]

StepOf(leg) == JobOf(leg).steps[Command(leg).step]

\* A job waits for those it needs.
Ready(leg) ==
    /\ accepted = "accepted" /\ legs[leg].state = "running"
    /\ \A other \in DOMAIN legs \ {leg} :
          leg = Aggregator /\ MatrixJob \in JobOf(leg).needs => legs[other].state = "done"

For(leg) == StepOf(leg).when \in {"always", PlatformOf(leg)}

Does(leg, names) == Ready(leg) /\ For(leg) /\ Command(leg).do \in names

At(leg, n) ==
    [legs[leg] EXCEPT !.at = n, !.state = IF n > Len(program[leg]) THEN "done" ELSE @]

Succeeded(leg) == [At(leg, legs[leg].at + 1) EXCEPT !.done = @ \cup {Command(leg).do}]

\* A command that fails stops its job, or the step goes on or ends; a script
\* stops itself.
Failed(leg) ==
    IF StepOf(leg).strict THEN {[legs[leg] EXCEPT !.state = "failed"]}
    ELSE (IF Command(leg).script THEN {} ELSE {At(leg, legs[leg].at + 1)})
         \cup {At(leg, Cardinality({n \in DOMAIN program[leg] :
                         program[leg][n].step <= Command(leg).step}) + 1)}

Becomes(leg, state) == legs' = [legs EXCEPT ![leg] = state]

MayFail == case.fault = "failures"

-----------------------------------------------------------------------------
(* The gates and the runner.                                               *)

Validate ==
    /\ accepted = None /\ case.event # "rehearsal"
    /\ accepted' = IF /\ ValidateWorkflows(case.repo) /\ ValidateQuickstart(case.repo.docs)
                      /\ VerifyUpstream(parser, case.upstream)
                   THEN "accepted" ELSE "rejected"
    /\ UNCHANGED <<case, program, parser, legs, store, released, altered, packaged, published>>

\* The sources of the parser change after the review and before the checkout.
Drift ==
    /\ case.fault = "drift" /\ accepted = "accepted"
    /\ \A leg \in DOMAIN legs : legs[leg].at = 1
    /\ \E name \in DOMAIN parser.files :
          parser' = [parser EXCEPT !.files[name].body = OtherBody]
    /\ UNCHANGED <<case, program, accepted, legs, store, released, altered, packaged, published>>

Skip(leg) ==
    /\ Ready(leg) /\ ~For(leg)
    /\ Becomes(leg, At(leg, legs[leg].at + 1))
    /\ UNCHANGED <<case, program, accepted, parser, store, released, altered, packaged, published>>

Special == {"package", "package-otherwise", "upload", "mock", "download", "aggregate"}

Installs == {"install-linux", "install-windows", "install-latest", "installed"}

\* moon is there once it is installed, and the contract says which.
Tool(leg) ==
    CASE Command(leg).do = "install-latest" -> "latest"
      [] Command(leg).do \in Installs \ {"install-latest"} ->
            IF JobOf(leg).env = "contract" THEN "snapshot" ELSE "other"
      [] OTHER -> legs[leg].tool

\* Other commands and actions; the credentials of the job decide what they
\* can publish.
Run(leg) ==
    /\ Ready(leg) /\ For(leg) /\ Command(leg).do \notin Special
    /\ LET do == Command(leg).do
           works == /\ do \in {"update", "check", "test"} => legs[leg].tool # None
                    /\ do = "provenance" => Verify(parser)
           writes == "write" \in {Document.permissions, JobOf(leg).permissions}
       IN  \/ /\ works
              /\ Becomes(leg, [Succeeded(leg) EXCEPT !.tool = Tool(leg)])
              /\ published' = (published \/ (writes /\ do \in {"publish", "other-action"}))
           \/ /\ ~works \/ MayFail
              /\ \E state \in Failed(leg) : Becomes(leg, state)
              /\ UNCHANGED published
    /\ UNCHANGED <<case, program, accepted, parser, store, released, altered, packaged>>

-----------------------------------------------------------------------------
(* package-release.ps1                                                     *)

\* What the packaging tools write.
Packed(platform) ==
    [members |-> IF platform = "linux" THEN CreateMockTar(Sources(platform))
                 ELSE LET entries == CreateMockZip(Sources(platform))
                      IN  [n \in DOMAIN entries |-> [entries[n] EXCEPT !.data.mode = "zero"]],
     rest |-> <<>>, canonical |-> TRUE]

Packaging == {"package", "package-otherwise"}

\* What another program writes.
Foreign == [members |-> <<>>, rest |-> <<>>, canonical |-> FALSE]

Evidence(platform, archive, simulated) ==
    [platform |-> platform, archive |-> archive, simulated |-> simulated, commit |-> "head"]

\* What may come out of packing.
Archives(platform) == {Packed(platform)} \cup Variants(platform)

IsMember(m) ==
    /\ m = [path |-> m.path, kind |-> m.kind, canonical |-> m.canonical, data |-> m.data]
    /\ m.path \in Seq(Parts)

IsArchive(archive) ==
    /\ IsList(archive.members) /\ IsList(archive.rest)
    /\ \A m \in ToSet(archive.members) : IsMember(m)

\* Archives list members with paths of parts.
ASSUME VariantsAssumption ==
    \A p \in Platforms : \A archive \in Variants(p) : IsArchive(archive)

\* No file is none of the files, and no verdict none of the verdicts.
ASSUME NoneAssumption ==
    /\ None # Foreign /\ None \notin {"accepted", "latest", "snapshot", "other"}
    /\ None \notin {"check", "delete", "raced", "failed"}
    /\ \A p \in Platforms : \A archive \in Archives(p) : None # Evidence(p, archive, FALSE)

\* Builds, packs, validates and extracts; the smoke tests run in the extraction.
Package(leg) ==
    /\ Does(leg, Packaging) /\ legs[leg].stage = None
    /\ packaged' = packaged \cup
          {[leg |-> leg, done |-> legs[leg].done, tool |-> legs[leg].tool, parser |-> parser]}
    /\ LET platform == PlatformOf(leg)
           empty == legs[leg].archive = None /\ legs[leg].evidence = None
       IN  \/ \E archive \in {Packed(platform)} \cup
                    (IF case.fault = "tools" THEN Variants(platform) ELSE {}) :
                LET result == ValidateArchive(archive, platform, FALSE)
                IN  /\ empty /\ legs[leg].tool # None /\ result.ok
                    /\ Becomes(leg, [legs[leg] EXCEPT
                          !.stage = archive,
                          !.smoked = ExtractPayloads(result.payloads, platform)])
           \/ /\ MayFail \/ case.fault = "tools" \/ ~empty \/ legs[leg].tool = None
              /\ \E state \in Failed(leg) : Becomes(leg, state)
    /\ UNCHANGED <<case, program, accepted, parser, store, released, altered, published>>

\* Publish-ValidatedArchive moves the stage, never onto a file.
Publish(leg) ==
    /\ Does(leg, Packaging)
    /\ legs[leg].stage # None /\ ~legs[leg].moved
    /\ IF legs[leg].archive = None
       THEN Becomes(leg, [legs[leg] EXCEPT !.archive = legs[leg].stage, !.moved = TRUE])
       ELSE \E state \in Failed(leg) : Becomes(leg, [state EXCEPT !.stage = None])
    /\ UNCHANGED <<case, program, accepted, parser, store, released, altered, packaged, published>>

\* The evidence is moved, never onto a file, or the archive is rolled back: when
\* something fails between the two moves, or the archive is not what was moved.
PublishEvidence(leg) ==
    /\ Does(leg, Packaging) /\ legs[leg].moved /\ legs[leg].rollback = None
    /\ \/ /\ legs[leg].evidence = None
          /\ Becomes(leg, [Succeeded(leg) EXCEPT
                !.stage = None, !.moved = FALSE,
                !.evidence = Evidence(PlatformOf(leg), legs[leg].stage, FALSE)])
       \/ /\ legs[leg].evidence # None \/ legs[leg].archive # legs[leg].stage \/ MayFail
          /\ Becomes(leg, [legs[leg] EXCEPT !.rollback = "check"])
    /\ UNCHANGED <<case, program, accepted, parser, store, released, altered, packaged, published>>

\* A file cannot be read or deleted, perhaps as another program has it open.
MayRefuse == case.fault \in {"failures", "meddling"}

\* "Published archive rollback failed": the package stays without evidence.
RollbackFailed(leg) ==
    \E state \in Failed(leg) :
        Becomes(leg, [state EXCEPT !.stage = None, !.moved = FALSE, !.rollback = "failed"])

\* A wrong rollback of whatever is there.
AnyArchive(leg) == TRUE

PublishedArchive(leg) == legs[leg].archive = legs[leg].stage

\* The archive is deleted only if it has the hash of the one that was moved.
CheckRollback(leg) ==
    /\ Does(leg, Packaging) /\ legs[leg].rollback = "check"
    /\ \/ PublishedArchive(leg) /\ Becomes(leg, [legs[leg] EXCEPT !.rollback = "delete"])
       \/ (~PublishedArchive(leg) \/ MayRefuse) /\ RollbackFailed(leg)
    /\ UNCHANGED <<case, program, accepted, parser, store, released, altered, packaged, published>>

\* Whatever is there by now.
DeleteArchive(leg) ==
    /\ Does(leg, Packaging) /\ legs[leg].rollback \in {"delete", "raced"}
    /\ \/ \E state \in Failed(leg) :
             Becomes(leg, [state EXCEPT !.stage = None, !.moved = FALSE, !.rollback = None,
                                        !.archive = None])
       \/ MayRefuse /\ RollbackFailed(leg)
    /\ UNCHANGED <<case, program, accepted, parser, store, released, altered, packaged, published>>

\* How a rollback stands once another program has written the archive; the code
\* cannot tell "raced", between the check and the deletion, from "delete".
Raced(rollback) == IF rollback = "delete" THEN "raced" ELSE rollback

\* Another program writes a file where the package or the evidence goes.
Meddle(leg) ==
    /\ case.fault = "meddling" /\ Ready(leg) /\ leg # Aggregator
    /\ \/ Becomes(leg, [legs[leg] EXCEPT !.archive = Foreign, !.rollback = Raced(@)])
       \/ legs[leg].evidence = None /\
             Becomes(leg, [legs[leg] EXCEPT !.evidence = Evidence(None, Foreign, FALSE)])
    /\ UNCHANGED <<case, program, accepted, parser, store, released, altered, packaged, published>>

-----------------------------------------------------------------------------
(* The handoff and create-release-aggregate.ps1.                           *)

\* upload-artifact: a name is used once, and some file must be there.
Upload(leg) ==
    /\ Does(leg, {"upload"})
    /\ LET handoff == StepOf(leg).with \in {"package-handoff", "package-archive"}
           name == IF handoff THEN JobOf(leg).matrix[leg].platform ELSE StepOf(leg).with
           files == [label |-> name, platform |-> PlatformOf(leg),
                     archive |-> legs[leg].archive,
                     evidence |-> IF StepOf(leg).with = "package-handoff"
                                  THEN legs[leg].evidence ELSE None]
       IN  IF name \in DOMAIN store \/ (handoff /\ {files.archive, files.evidence} = {None})
           THEN UNCHANGED store /\ \E state \in Failed(leg) : Becomes(leg, state)
           ELSE /\ store' = IF handoff THEN [n \in DOMAIN store \cup {name} |->
                                                IF n = name THEN files ELSE store[n]]
                            ELSE store
                /\ Becomes(leg, Succeeded(leg))
    /\ UNCHANGED <<case, program, accepted, parser, released, altered, packaged, published>>

\* A rehearsal makes the other platform's package from its own, extracted.
Mock(leg) ==
    /\ Does(leg, {"mock"}) /\ case.event = "rehearsal" /\ PlatformOf(leg) \in DOMAIN store
    /\ \E other \in Platforms \ {PlatformOf(leg)} :
          LET archive == CreateMock(legs[leg].smoked, PlatformOf(leg), other)
          IN  store' = [p \in Platforms |->
                          IF p # other THEN store[p]
                          ELSE [label |-> p, platform |-> p, archive |-> archive,
                                evidence |-> Evidence(p, archive, TRUE)]]
    /\ Becomes(leg, Succeeded(leg))
    /\ UNCHANGED <<case, program, accepted, parser, released, altered, packaged, published>>

\* What was handed over changes: the archive, the evidence, or both, which are
\* then those of another run, of the same commit or of an older one.  The commit
\* of evidence stands for sourceCommit and sourceTreeClean.
Altered(item, what, archive, simulated) ==
    LET evidence == Evidence(item.platform, archive, FALSE)
    IN  CASE what = "archive" -> [item EXCEPT !.archive = archive]
          [] what = "evidence" ->
                [item EXCEPT !.evidence = [evidence EXCEPT !.simulated = simulated]]
          [] what = "rerun" -> [item EXCEPT !.archive = archive, !.evidence = evidence]
          [] what = "old" ->
                [item EXCEPT !.archive = archive,
                             !.evidence = [evidence EXCEPT !.commit = "old"]]

Alterations == {"archive", "evidence", "rerun", "old"}

Alter ==
    /\ case.fault = "alteration" /\ legs[Aggregator].input = {}
    /\ \E name \in {n \in DOMAIN store : \A a \in altered : a.platform # store[n].platform},
          what \in Alterations :
          /\ \E archive \in Variants(store[name].platform) \cup {store[name].archive},
                simulated \in BOOLEAN :
                store' = [store EXCEPT ![name] = Altered(@, what, archive, simulated)]
          /\ altered' = altered \cup {[platform |-> store[name].platform, what |-> what]}
    /\ UNCHANGED <<case, program, accepted, parser, legs, released, packaged, published>>

\* download-artifact, and both handoffs in one directory.
Download(leg) ==
    /\ Does(leg, {"download"})
    /\ LET items == {store[name] : name \in DOMAIN store}
           one == StepOf(leg).with = "linux-handoff"
       IN  \/ /\ \A a, b \in items : a.platform = b.platform => a = b
              /\ Becomes(leg, [Succeeded(leg) EXCEPT
                    !.input = {i \in items : one => i.platform = "linux"}])
           \/ /\ MayFail \/ \E a, b \in items : a.platform = b.platform /\ a # b
              /\ \E state \in Failed(leg) : Becomes(leg, state)
    /\ UNCHANGED <<case, program, accepted, parser, store, released, altered, packaged, published>>

\* A wrong aggregate that believes the evidence.
EvidenceOnly(input, allowSimulated) ==
    /\ {i.platform : i \in input} = Platforms
    /\ \A i \in input : /\ i.evidence # None /\ i.evidence.platform = i.platform
                        /\ i.evidence.simulated => allowSimulated
    /\ \A i, j \in input : i.evidence.commit = j.evidence.commit

\* The names, the evidence, the hash and the layout of both platforms.
AggregateAccepts(input, allowSimulated) ==
    /\ {i.platform : i \in input} = Platforms
    /\ \A i \in input :
          /\ i.label = i.platform /\ i.archive # None /\ i.evidence # None
          /\ i.evidence.platform = i.platform
          /\ i.evidence.simulated => allowSimulated
          /\ i.evidence.archive = i.archive
          /\ ValidateArchive(i.archive, i.platform,
                             i.evidence.simulated /\ i.platform = "windows").ok
    /\ Cardinality({i \in input : i.evidence.simulated}) = IF allowSimulated THEN 1 ELSE 0
    /\ \A i, j \in input : i.evidence.commit = j.evidence.commit

Aggregate(leg) ==
    /\ Does(leg, {"aggregate"})
    /\ LET input == legs[leg].input
           allow == "allow-simulated" \in ToSet(StepOf(leg).run)
           accepts == AggregateAccepts(input, allow) /\ released = None
       IN  \/ /\ accepts
              /\ released' = [p \in Platforms |-> (CHOOSE i \in input : i.platform = p).archive]
              /\ Becomes(leg, Succeeded(leg))
           \/ /\ ~accepts \/ MayFail
              /\ \E state \in Failed(leg) : Becomes(leg, state)
              /\ UNCHANGED released
    /\ UNCHANGED <<case, program, accepted, parser, store, altered, packaged, published>>

-----------------------------------------------------------------------------

NewLeg ==
    [at |-> 1, state |-> "running", done |-> {}, tool |-> None, stage |-> None,
     moved |-> FALSE, rollback |-> None, smoked |-> {}, archive |-> None,
     evidence |-> None, input |-> {}]

Init ==
    /\ case \in Cases
    /\ program = [leg \in Runners(case) |-> ProgramOf(case, leg)]
    /\ accepted = IF case.event = "rehearsal" THEN "accepted" ELSE None
    /\ parser = case.repo.parser
    /\ legs = [leg \in Runners(case) |-> NewLeg]
    /\ store = [name \in {} |-> None] /\ released = None
    /\ altered = {} /\ packaged = {} /\ published = FALSE

LegStep(leg) ==
    \/ Skip(leg) \/ Run(leg) \/ Package(leg) \/ Publish(leg) \/ PublishEvidence(leg)
    \/ CheckRollback(leg) \/ DeleteArchive(leg)
    \/ Upload(leg) \/ Mock(leg) \/ Download(leg) \/ Aggregate(leg)

Next ==
    \/ Validate \/ Drift \/ Alter
    \/ \E leg \in DOMAIN legs : LegStep(leg) \/ Meddle(leg)

\* The gates are run, and the runner runs every job to its end.
Spec ==
    /\ Init /\ [][Next]_vars
    /\ WF_vars(Validate) /\ WF_vars(\E leg \in DOMAIN legs : LegStep(leg))
=============================================================================
