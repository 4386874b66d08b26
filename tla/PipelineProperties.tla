------------------------- MODULE PipelineProperties -------------------------
(***************************************************************************)
(* What accepting a repository is worth for the releases made from it.     *)
(***************************************************************************)
EXTENDS ReleasePipeline

\* The package job of an accepted repository resolves, verifies and checks in
\* plain steps: the validator reads neither conditions nor how a failing
\* command is taken, knows one spelling of the packaging command, and looks for
\* it neither in other scripts nor in the other job.
Plain ==
    /\ \A step \in ToSet(Document.jobs[MatrixJob].steps) :
          /\ ToSet(step.run) \cap {"update", "provenance", "check"} # {} =>
                step.strict /\ step.when = "always"
          /\ ToSet(step.run) \cap {"package-otherwise", "verify-spike"} = {}
    /\ case.event # "push" =>
          \A step \in ToSet(Document.jobs["aggregate"].steps) :
              ToSet(step.run) \cap {"package", "package-otherwise", "verify-spike"} = {}

\* Packaging waits for its gates, with the one toolchain, and the parser differs
\* from the upstream one in the files its provenance names.
PackagedAsResolved ==
    \A p \in packaged :
        Plain =>
            /\ {"update", "provenance", "check"} \subseteq p.done /\ p.tool = "snapshot"
            /\ {n \in DOMAIN p.parser.files : p.parser.files[n].body # Upstream[n]}
                    = p.parser.modified

\* What the script says before its tests, and before its verdict.
Resolving == {"update", "provenance", "parser-tests", "check"}
Consuming == {"consumer-tests", "npm-ci", "resources", "consumer"}

\* Two orders in one script, if the workflow does none of it elsewhere; nothing
\* orders the tests before the verdict.
GoAfterGates ==
    (\A step \in ToSet(Document.jobs[MatrixJob].steps) :
        ToSet(step.run) \cap (Resolving \cup Consuming \cup {"test", "GO"}) = {}) =>
    \A leg \in DOMAIN legs :
        /\ "test" \in legs[leg].done => Resolving \subseteq legs[leg].done
        /\ "GO" \in legs[leg].done => Consuming \subseteq legs[leg].done

\* The order the validator accepts in a text is the order in which a runner does
\* things: nothing is packaged before the dependencies are resolved and the
\* parser verified and checked, even if it was changed after the review
\* (validate_workflows.py 216-236, 276-335), and verify-spike.ps1 runs its tests after
\* the same, and says GO after the consumer's and the resources' gates (239-273).
AcceptedOrderIsKept ==
    /\ case.event = "dispatch" => PackagedAsResolved
    /\ case.event = "push" => GoAfterGates

\* Unless the rollback failed, and then the run did not say that it packaged.
NoPackageAlone ==
    \A leg \in DOMAIN legs :
        legs[leg].archive \notin {None, Foreign} =>
            \/ legs[leg].evidence # None \/ legs[leg].moved
            \/ legs[leg].rollback = "failed" /\ legs[leg].done \cap Packaging = {}

ForeignKept ==
    \A leg \in DOMAIN legs :
        legs[leg].archive = Foreign =>
            legs'[leg].archive = Foreign \/ legs[leg].rollback = "raced"

\* A package without evidence is there only between the two moves of a run of
\* package-release.ps1, or after a rollback that failed and failed the run,
\* whoever else writes to its directories.  No file of another program is
\* deleted or replaced, unless it came between the hash that is to make sure
\* of it and the deletion (173-207, 754-818; the two are 808 and 812).
PublicationIsAtomic == [][NoPackageAlone' /\ ForeignKept]_vars

IsUnpacked(result, p) ==
    LET files == {e \in result.tree : e.kind # "directory"}
    IN  /\ ~result.outside /\ ~result.stopped
        /\ \A e \in files : e.kind = "file"
        /\ {e.path : e \in files} = {Fold(n) : n \in ToSet(ExpectedFileEntries(p))}
        /\ p = "linux" => \A e \in files : (e.data.mode = "executable")
                                = (e.path = Fold(<<Root(p)>> \o Executable(p)))

Unpacks(archive, p) == \A members \in Readings(archive, p) : IsUnpacked(Unpack(members), p)

Folded(tree) == {[e EXCEPT !.path = Fold(@)] : e \in tree}

WasTested(p) ==
    \E leg \in DOMAIN legs :
        /\ PlatformOf(leg) = p
        /\ \A members \in Readings(released[p], p) :
              UserTree(Unpack(members), p) = Folded(legs[leg].smoked)

FromAnother(run, p) == [platform |-> p, what |-> run] \in altered

\* Both handoffs are of one older commit, or this platform's is of another run
\* of the same commit, which the aggregate cannot tell from this one.
FromElsewhere(p) ==
    (\A q \in Platforms : FromAnother("old", q)) \/ FromAnother("rerun", p)

\* What users unpack from a released archive, whether their program stops at
\* the end of the archive or not, is exactly the files of a release, where
\* they belong and with the modes they need (release_archive.py 73-210); and it
\* is the very tree the smoke tests of this run used, unless the platform's
\* archive came with its evidence from another run of the same commit, or both
\* platforms' did from runs of one other commit: the aggregate compares the
\* evidence of the platforms only with each other, and no evidence names its
\* run (create-release-aggregate.ps1 428-506).  Nothing is published elsewhere,
\* by a command the validator does not know either: the credentials of what it
\* accepts cannot write (validate_workflows.py 120-167).
ReleasedWasTested ==
    /\ ~published
    /\ released # None =>
           /\ \A p \in Platforms : Unpacks(released[p], p)
           /\ case.event = "dispatch" =>
                 \A p \in Platforms : WasTested(p) \/ FromElsewhere(p)

\* Where a shell goes along a path without ".." in the root of the repository.
Onward(place, part) == IF part = "." THEN place ELSE Append(place, part)

\* Readers of the checked documents find what a link or a command names; an
\* anchor may be a line of a code block that looks like a heading.
LinksLead ==
    accepted = "accepted" /\ case.event # "rehearsal" =>
        LET files == case.repo.docs
            There(place) == \E p \in DOMAIN files : Len(place) <= Len(p)
                                                    /\ SubSeq(p, 1, Len(place)) = place
        IN  \A role \in DOMAIN Checked :
                LET doc == Checked[role]
                    Target(link) == IF link.path = <<>> THEN doc
                                    ELSE Resolve(Front(doc), link.path)
                IN  /\ \A link \in files[doc].links :
                          /\ There(Target(link))
                          /\ link.anchor # "" /\ Target(link) \in DOMAIN files =>
                                ~files[Target(link)].md \/
                                \E h \in Headings(files[Target(link)]) : h.title = link.anchor
                    /\ role # "validation" => \A path \in files[doc].commands :
                          There(FoldLeft(Onward, <<>>, path))

\* If nothing fails and nobody interferes, what is accepted can be released:
\* both platforms are packaged, handed over and aggregated, and so is a
\* rehearsal's mock.  A matrix that gives a platform as its name cannot.
Healthy == case.fault = None /\ case.event # "push" /\ Plain
           /\ \A entry \in ToSet(Document.jobs[MatrixJob].matrix) : entry.platform # NoAction

AcceptedReleases == Healthy /\ accepted = "accepted" ~> released # None

-----------------------------------------------------------------------------
(* The inductive invariant of the proofs.                                  *)

IsLeg(l) ==
    l = [at |-> l.at, state |-> l.state, done |-> l.done, tool |-> l.tool,
         stage |-> l.stage, moved |-> l.moved, rollback |-> l.rollback, smoked |-> l.smoked,
         archive |-> l.archive, evidence |-> l.evidence, input |-> l.input]

\* An archive that is a release, with the files in which this runner's smoke tests ran.
Packages(leg, archive) ==
    LET result == ValidateArchive(archive, PlatformOf(leg), FALSE)
    IN  result.ok /\ legs[leg].smoked = ExtractPayloads(result.payloads, PlatformOf(leg))

ForeignEvidence == Evidence(None, Foreign, FALSE)

\* A stage is there only while its runner packages.
StageInv(leg) ==
    legs[leg].stage # None =>
        /\ legs[leg].stage \in Archives(PlatformOf(leg)) /\ Packages(leg, legs[leg].stage)
        /\ For(leg) /\ Command(leg).do \in Packaging

PublishedInv(leg) ==
    /\ legs[leg].moved => /\ legs[leg].stage # None
                          /\ legs[leg].archive \in {legs[leg].stage, Foreign}
    /\ legs[leg].archive \notin {None, Foreign} =>
          /\ legs[leg].archive \in Archives(PlatformOf(leg)) /\ Packages(leg, legs[leg].archive)
          /\ legs[leg].evidence # None \/ legs[leg].moved \/ legs[leg].rollback = "failed"
    /\ legs[leg].evidence \notin {None, ForeignEvidence} =>
          \E archive \in Archives(PlatformOf(leg)) :
              /\ legs[leg].evidence = Evidence(PlatformOf(leg), archive, FALSE)
              /\ Packages(leg, archive)

\* A runner that has packaged, or failed to roll back, packages nothing more.
RollbackInv(leg) ==
    LET has == legs[leg].done \cap Packaging # {}
    IN  /\ legs[leg].rollback \in {"check", "delete", "raced"} => legs[leg].moved
        /\ legs[leg].rollback = "delete" => legs[leg].archive # Foreign
        /\ has => legs[leg].evidence # None
        /\ has \/ legs[leg].rollback = "failed" =>
              legs[leg].stage = None /\ legs[leg].archive # None
        /\ has => legs[leg].rollback # "failed"

LegInv(leg) ==
    IsLeg(legs[leg]) /\ StageInv(leg) /\ PublishedInv(leg) /\ RollbackInv(leg)

LegsInv == \A leg \in DOMAIN legs : LegInv(leg)

\* A runner that has finished to package, or could not roll back.
Finished(leg) == legs[leg].evidence # None \/ legs[leg].rollback = "failed"

\* A runner packaged this archive and will package no other.
PackagedHere(platform, archive) ==
    \E leg \in DOMAIN legs :
        PlatformOf(leg) = platform /\ Packages(leg, archive) /\ Finished(leg)

ArchiveKept(i) == i.archive \in {None, Foreign} \/ PackagedHere(i.platform, i.archive)

EvidenceKept(i) ==
    i.evidence \in {None, ForeignEvidence} \/ PackagedHere(i.platform, i.evidence.archive)

IsCurrent(i) == i.evidence # None => i.evidence.commit = "head"

IsHandoff(i) ==
    i = [label |-> i.label, platform |-> i.platform, archive |-> i.archive,
         evidence |-> i.evidence]

\* What was handed over is what a runner left, but for what was altered.
HandoffInv(i) ==
    /\ IsHandoff(i) /\ i.platform \in Platforms
    /\ \/ ArchiveKept(i) /\ EvidenceKept(i) /\ IsCurrent(i)
       \/ /\ \E a \in altered : a.platform = i.platform
          /\ (ArchiveKept(i) \/ EvidenceKept(i)) /\ IsCurrent(i)
       \/ FromAnother("rerun", i.platform) /\ IsCurrent(i)
       \/ FromAnother("old", i.platform) /\ i.evidence.commit = "old"

Handoffs ==
    {store[name] : name \in DOMAIN store} \cup (UNION {legs[leg].input : leg \in DOMAIN legs})

HandoffsInv ==
    case.event # "rehearsal" =>
        /\ \A i \in Handoffs : HandoffInv(i)
        /\ \A a \in altered : a.platform \in Platforms

\* A released archive was packaged, validated and tested by a runner of this
\* run, unless it came from another run.
ReleasedWasPackaged ==
    case.event # "rehearsal" /\ released # None =>
        \A p \in Platforms : PackagedHere(p, released[p]) \/ FromElsewhere(p)

NoLinks(archive) == \A n \in DOMAIN archive.members : archive.members[n].data.mode # "link"

\* What is handed over are archives, and a zip with simulated evidence has no
\* links; but for rehearsals, it was altered.
ItemInv(i) ==
    /\ i.archive # None => IsArchive(i.archive)
    /\ i.evidence # None /\ i.evidence.simulated =>
          /\ case.event # "rehearsal" => \E a \in altered : a.platform = i.platform
          /\ i.archive # None /\ i.platform = "windows" => NoLinks(i.archive)

ItemsInv == \A i \in Handoffs : ItemInv(i)

\* Every released archive was accepted, and a zip has no links.
ReleasedWasAccepted ==
    released # None =>
        \A p \in Platforms :
            /\ IsArchive(released[p]) /\ (p = "windows" => NoLinks(released[p]))
            /\ \E simulated \in BOOLEAN : ValidateArchive(released[p], p, simulated).ok

\* What was accepted passed the gates, and has no credentials to write with.
AuthorityInv ==
    /\ case \in Cases /\ DOMAIN legs = Runners(case) /\ ~published
    /\ accepted = "accepted" /\ case.event # "rehearsal" =>
          ValidateWorkflows(case.repo) /\ ValidateQuickstart(case.repo.docs)

\* Before the verdict of the gates nothing has begun.
UntouchedInv ==
    /\ program = [leg \in Runners(case) |-> ProgramOf(case, leg)]
    /\ accepted # "accepted" =>
          parser = case.repo.parser /\ \A leg \in DOMAIN legs : legs[leg] = NewLeg

\* Repositories that people review, unlike rehearsals.
Reviewed == case.event \in {"push", "dispatch"} /\ accepted = "accepted"

\* A command that is not skipped, and whose failure is not passed over, when its
\* runner is at another one: its step is plain, or both are of one script.
Certain(leg, n, at) ==
    LET command == program[leg][n]
        step == JobOf(leg).steps[command.step]
    IN  \/ step.strict /\ step.when = "always"
        \/ /\ at \in DOMAIN program[leg] /\ program[leg][at].step = command.step
           /\ command.script /\ step.when \in {"always", PlatformOf(leg)}

\* What is certain and behind a runner has been done.
LegOrder(leg, l) ==
    /\ l.at \in 1..(Len(program[leg]) + 1)
    /\ l.state = "running" => l.at \in DOMAIN program[leg]
    /\ l.at = 1 => l.done = {}
    /\ \A n \in 1..(l.at - 1) : Certain(leg, n, l.at) => program[leg][n].do \in l.done

OrderInv == Reviewed => \A leg \in DOMAIN legs : LegOrder(leg, legs[leg])

\* Dependencies are resolved with a tool, which packages with the pinned one.
LegTool(leg, l) ==
    /\ "update" \in l.done => l.tool # None
    /\ case.event = "dispatch" /\ Plain /\ leg # Aggregator => l.tool \in {None, "snapshot"}

ToolInv == Reviewed => \A leg \in DOMAIN legs : LegTool(leg, legs[leg])

\* A parser that changes after the review is noticed by the runner's provenance.
ParserInv ==
    Reviewed =>
        /\ VerifyUpstream(case.repo.parser, case.upstream)
        /\ parser = [case.repo.parser EXCEPT !.files = parser.files]
        /\ DOMAIN parser.files = DOMAIN case.repo.parser.files
        /\ (\E leg \in DOMAIN legs : "provenance" \in legs[leg].done) => Verify(parser)

RunInv == UntouchedInv /\ OrderInv /\ ToolInv /\ ParserInv /\ AcceptedOrderIsKept

ArchivesInv == ItemsInv /\ ReleasedWasAccepted

PipelineInv == LegsInv /\ HandoffsInv /\ ReleasedWasPackaged /\ AuthorityInv
=============================================================================
