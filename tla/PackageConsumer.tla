-------------------------- MODULE PackageConsumer --------------------------
(***************************************************************************)
(* scripts/verify-package-consumer.py: the gate that publishes a package   *)
(* to a private registry, adds it to a fresh consumer with the real client *)
(* and checks, tests and runs the consumer on every target.  The registry  *)
(* is a server in the gate's own process; the client runs as processes the *)
(* gate starts, which fetch, install, alter and fail as they please.       *)
(***************************************************************************)
EXTENDS ArchiveUnpack, FiniteSets

CONSTANTS
    Dependencies,     \* packages with a pinned checksum
    Candidate,        \* the package to be released
    Targets,          \* a sequence
    Pinned,           \* the archive the checksums of dependencies are of
    Candidates,       \* the archives packaging may make
    BadParts,         \* parts no member may have: ".." or reserved names
    Hazards, None

\* An archive is [members, manifest, policy]: its members, whether name and
\* dependencies are as expected, and whether the parser and its license are in it.
Packages == Dependencies \cup {Candidate}
AllTargets == ToSet(Targets)

ASSUME ConsumerAssumption ==
    /\ IsFiniteSet(Dependencies) /\ Candidate \notin Dependencies /\ None \notin Packages
    /\ Targets # <<>> /\ Targets \in Seq(AllTargets)

\* The members of an archive are a list, and what stands between separators
\* has another spelling without cases, but only ".." has that of "..".
ASSUME ArchiveAssumption ==
    /\ \A part \in Parts : FoldOf[part] = ".." => part = ".."
    /\ \A a \in Candidates \cup {Pinned} :
          /\ a # None /\ a.members \in Seq(ToSet(a.members))
          /\ \A m \in ToSet(a.members) : m.path \in Seq(Parts)

\* None is no error, no report and no exit code.
ASSUME NoneAssumption ==
    /\ None \notin {"failed", "archive", "other", "GO", "NO_GO"} /\ None \notin {0, 1}
    /\ None \notin [status : {"GO", "NO_GO"}, temporary_cleanup : {None, "GO"}]

VARIABLES
    pc,        \* the position in Script
    archive,   \* the accepted archive of a package
    served,    \* the server's paths
    index,     \* the entries committed, and those known to the client
    events,    \* the server's answers
    installed, \* what lies in the consumer for a package
    temp,      \* the temporary directory
    passed,    \* the targets that were checked, tested and run
    error,
    report,    \* status and temporary_cleanup in memory
    results,   \* report.json
    exit,
    compiled,  \* history: what any target was compiled from
    outside    \* history: something outside the consumer was touched

vars == <<pc, archive, served, index, events, installed, temp, passed, error,
          report, results, exit, compiled, outside>>

-----------------------------------------------------------------------------
(* Archives and routes.                                                    *)

\* A wrong check that tells cases apart.
SpelledAlike(p, q) == p = q

SamePath(p, q) == Fold(p) = Fold(q)

\* checked_archive
CheckedArchive(members) ==
    /\ \A n \in DOMAIN members :
          LET m == members[n]
          IN  /\ m.path # <<>> /\ ToSet(m.path) \cap (BadParts \cup {"", ".", ".."}) = {}
              /\ m.kind \in {"file", "directory"}
              /\ \A k \in 1..(n - 1) : ~SamePath(members[k].path, m.path)
    /\ \A f, g \in FileMembers(members) : ~Above(Fold(f.path), Fold(g.path))

\* The spellings clients have for the path of an archive.
Spellings(p) == {<<"canonical", p>>, <<"legacy", p>>}

Paths == (UNION {Spellings(p) : p \in Packages}) \cup {<<"other", None>>}

\* A wrong registry that serves one spelling.
EncodedRoute(p) == {<<"canonical", p>>}

\* archive_route and legacy_archive_route
Routes(p) == {<<"canonical", p>>, <<"legacy", p>>}

\* canonical_archive_path
CanonicalArchivePath(path) == IF path[1] \in {"canonical", "legacy"} THEN path[2] ELSE None

Fetched == {CanonicalArchivePath(e.path) : e \in {e \in events : e.status = 200}}

-----------------------------------------------------------------------------
(* The gate.                                                               *)

Op(name) == [op |-> name, of |-> None]

\* Every target is checked, tested and run.
TargetSteps ==
    [n \in 1..(3 * Len(Targets)) |->
        [op |-> <<"check", "test", "run">>[((n - 1) % 3) + 1],
         of |-> Targets[((n - 1) \div 3) + 1]]]

Script ==
    <<Op("prepare"), Op("toolchain")>>
        \o [n \in 1..Cardinality(Dependencies) |-> Op("download")]
        \o <<Op("index"), Op("bootstrap"), Op("package"), Op("candidate"),
             Op("candidate-index"), Op("update"), Op("add"), Op("before"), Op("plan")>>
        \o TargetSteps
        \o <<Op("after"), Op("routes"), Op("cleanup"), Op("write"), Op("ended")>>

PlaceOf(name) == CHOOSE n \in DOMAIN Script : Script[n].op = name

Now(names) == Script[pc].op \in names

Advance == pc' = pc + 1 /\ UNCHANGED error

\* Inside the try around the targets an exception passes the second snapshot.
Consuming == PlaceOf("plan") <= pc /\ pc < PlaceOf("after")

Raise ==
    /\ error' = "failed"
    /\ pc' = PlaceOf(IF Consuming THEN "after" ELSE "cleanup")

Registry == <<archive, served, index>>
Consumer == <<installed, temp, outside>>
Verdict == <<passed, report, results, exit, compiled>>

\* Templates, tools, workspaces and the pinned toolchain are as required.
Prepare ==
    /\ Now({"prepare", "toolchain"})
    /\ Advance \/ Raise
    /\ UNCHANGED <<Registry, events, Consumer, Verdict>>

\* The next dependency is downloaded, has its checksum and passes the checks.
Download ==
    /\ Now({"download"})
    /\ \/ /\ CheckedArchive(Pinned.members)
          /\ \E p \in Dependencies :
                archive[p] = None /\ archive' = [archive EXCEPT ![p] = Pinned]
          /\ Advance
       \/ Raise /\ UNCHANGED archive
    /\ UNCHANGED <<served, index, events, Consumer, Verdict>>

\* add_entry and git: the server has an archive before the index lists it, and
\* no client runs meanwhile, so that it is one step.
PublishEntries ==
    /\ Now({"index", "candidate-index"})
    /\ LET packages == IF Now({"index"}) THEN Dependencies ELSE {Candidate}
       IN  /\ served' = served \cup UNION {Routes(p) : p \in packages}
           /\ \/ index' = [index EXCEPT !.committed = @ \cup packages] /\ Advance
              \/ Raise /\ UNCHANGED index
    /\ UNCHANGED <<archive, events, Consumer, Verdict>>

\* moon update: the client has what is committed.
UpdateIndex ==
    /\ Now({"bootstrap", "update"})
    /\ \/ index' = [index EXCEPT !.client = index.committed] /\ Advance
       \/ Raise /\ UNCHANGED index
    /\ UNCHANGED <<archive, served, events, Consumer, Verdict>>

\* moon package, or the archive that is replayed: exactly one.
Package ==
    /\ Now({"package"})
    /\ \/ \E c \in Candidates : archive' = [archive EXCEPT ![Candidate] = c] /\ Advance
       \/ Raise /\ UNCHANGED archive
    /\ UNCHANGED <<served, index, events, Consumer, Verdict>>

\* The candidate's members, name and dependencies.
AcceptCandidate ==
    /\ Now({"candidate"})
    /\ IF CheckedArchive(archive[Candidate].members) /\ archive[Candidate].manifest
       THEN Advance ELSE Raise
    /\ UNCHANGED <<Registry, events, Consumer, Verdict>>

\* moon add: the client unpacks what it fetched, or has the sources from
\* somewhere else.
Add ==
    /\ Now({"add"})
    /\ \/ /\ installed' \in [Packages -> {None, "archive", "other"}]
          /\ \A p \in Packages : installed'[p] = "archive" =>
                p \in Fetched /\ ~Unpack(archive[p].members).stopped
          /\ outside' = (outside \/ \E p \in Packages :
                installed'[p] = "archive" /\ Unpack(archive[p].members).outside)
          /\ Advance
       \/ Raise /\ UNCHANGED <<installed, outside>>
    /\ UNCHANGED <<Registry, events, temp, Verdict>>

Unchanged == \A p \in Packages : installed[p] = "archive"

\* Every package is installed once, with the bytes of its archive.
Before ==
    /\ Now({"before"})
    /\ IF Unchanged THEN Advance ELSE Raise
    /\ UNCHANGED <<Registry, events, Consumer, Verdict>>

\* The compiler reads sources inside the consumer only, some of every package.
SourcePlan ==
    /\ Now({"plan"})
    /\ Advance \/ Raise
    /\ UNCHANGED <<Registry, events, Consumer, Verdict>>

\* A target is checked, tested and run.
RunTarget ==
    /\ Now({"check", "test", "run"})
    /\ \/ /\ compiled' = compiled \cup {installed[p] : p \in Packages}
          /\ passed' = IF Now({"run"}) THEN passed \cup {Script[pc].of} ELSE passed
          /\ Advance
       \/ Raise /\ UNCHANGED <<compiled, passed>>
    /\ UNCHANGED <<Registry, events, Consumer, report, results, exit>>

\* A wrong second snapshot: none.
AfterUnseen ==
    /\ Now({"after"})
    /\ IF error = None THEN Advance ELSE Raise
    /\ UNCHANGED <<Registry, events, Consumer, Verdict>>

\* The second snapshot, after failures too.
After ==
    /\ Now({"after"})
    /\ IF Unchanged /\ error = None THEN Advance ELSE Raise
    /\ UNCHANGED <<Registry, events, Consumer, Verdict>>

FetchesAsAllowed == Fetched = Packages /\ \A e \in events : e.status = 200

\* The fetches, the issues with the candidate's contents, and the verdict.
Judge ==
    /\ Now({"routes"})
    /\ IF FetchesAsAllowed /\ archive[Candidate].policy
       THEN report' = [report EXCEPT !.status = "GO"] /\ Advance
       ELSE Raise /\ UNCHANGED report
    /\ UNCHANGED <<Registry, events, Consumer, passed, results, exit, compiled>>

\* A wrong cleanup whose failure does not change the verdict.
CleanupQuietly ==
    /\ Now({"cleanup"})
    /\ temp' \in IF temp = "owned" THEN {"gone", "partial"} ELSE {temp}
    /\ pc' = pc + 1
    /\ UNCHANGED <<Registry, events, installed, outside, error, Verdict>>

\* cleanup_owned removes a directory that is still its own and has no links.
CleanupOwned ==
    /\ Now({"cleanup"})
    /\ temp' \in IF temp = "owned" THEN {"gone", "partial"} ELSE {temp}
    /\ report' = IF temp' = "gone" THEN [report EXCEPT !.temporary_cleanup = "GO"]
                 ELSE [report EXCEPT !.status = "NO_GO"]
    /\ pc' = pc + 1
    /\ UNCHANGED <<Registry, events, installed, outside, error, passed, results, exit, compiled>>

WriteReport ==
    /\ Now({"write"})
    /\ \/ results' = report /\ exit' = IF report.status = "GO" THEN 0 ELSE 1
       \/ UNCHANGED results /\ exit' = 1
    /\ pc' = pc + 1
    /\ UNCHANGED <<Registry, events, Consumer, error, passed, report, compiled>>

-----------------------------------------------------------------------------
(* The processes the gate starts, while they run.                          *)

Client == Now({"bootstrap", "package", "update", "add", "plan", "check", "test", "run"})

\* do_GET: a client asks for an archive of its index, or for something else.
Get ==
    /\ Client
    /\ \E path \in (UNION {Spellings(p) : p \in index.client}) \cup
                      (IF "stray" \in Hazards THEN Paths ELSE {}) :
          events' = events \cup {[path |-> path,
                                  status |-> IF path \in served THEN 200 ELSE 404]}
    /\ UNCHANGED <<pc, Registry, Consumer, error, Verdict>>

\* Sources in the consumer change.
Tamper ==
    /\ "tamper" \in Hazards /\ Client
    /\ \E p \in Packages :
          installed[p] = "archive" /\ installed' = [installed EXCEPT ![p] = "other"]
    /\ UNCHANGED <<pc, Registry, events, temp, outside, error, Verdict>>

\* A link to somewhere else appears in the temporary directory, or the
\* directory is not the gate's any more.
Disown ==
    /\ "disown" \in Hazards /\ temp = "owned" /\ (Client \/ Now({"toolchain"}))
    /\ temp' \in {"linked", "foreign"}
    /\ UNCHANGED <<pc, Registry, events, installed, outside, error, Verdict>>

Init ==
    /\ pc = 1
    /\ archive = [p \in Packages |-> None] /\ served = {} /\ events = {}
    /\ index = [committed |-> {}, client |-> {}]
    /\ installed = [p \in Packages |-> None] /\ temp = "owned"
    /\ passed = {} /\ error = None
    /\ report = [status |-> "NO_GO", temporary_cleanup |-> None]
    /\ results = None /\ exit = None
    /\ compiled = {} /\ outside = FALSE

Step ==
    \/ Prepare \/ Download \/ PublishEntries \/ UpdateIndex \/ Package
    \/ AcceptCandidate \/ Add \/ Before \/ SourcePlan \/ RunTarget \/ After
    \/ Judge \/ CleanupOwned \/ WriteReport

Next == Step \/ Get \/ Tamper \/ Disown

Spec == Init /\ [][Next]_vars
=============================================================================
