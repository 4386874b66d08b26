------------------------- MODULE ConsumerProperties -------------------------
(***************************************************************************)
(* What the verdict of PackageConsumer is worth.                           *)
(***************************************************************************)
EXTENDS PackageConsumer

\* GO means that every target was compiled, tested and run, all of them from
\* the bytes of the archives the gate checked, and from nothing that changed
\* meanwhile (verify-package-consumer.py 489-515); and that the client came to
\* the registry for every package and for nothing else, whichever spelling of
\* a path it uses (516-529).
GoIsEarned ==
    report.status = "GO" =>
        /\ passed = AllTargets /\ compiled = {"archive"}
        /\ \A p \in Packages : \E e \in events : e.path \in Spellings(p) /\ e.status = 200
        /\ \A e \in events : e.path[2] \in Packages /\ e.status = 200

\* An archive that the client's index lists is never refused, whichever of the
\* two spellings a client has for its path: the server has both before any client
\* runs (428-445).  No client runs while entries are added.
ListedIsServed ==
    \A p \in index.client : \A path \in Spellings(p) :
        /\ path \in served
        /\ [path |-> path, status |-> 404] \in events => p = Candidate

\* However its members are named, unpacking an archive the gate accepted puts
\* every file where it says and no other in its place (70-102), and nothing
\* outside the consumer is touched, by an archive or by the cleanup.
AcceptedIsFaithful ==
    /\ \A p \in Packages :
          archive[p] # None /\ (p \in index.client) => Faithful(archive[p].members)
    /\ ~outside

\* The gate succeeds exactly if the report on the disk says GO, and then
\* nothing of it is left in the temporary directory; that directory is gone
\* if and only if the report says so.
ReportIsTrue ==
    /\ exit = 0 => temp = "gone"
    /\ Now({"ended"}) =>
          /\ (exit = 0) = (results # None /\ results.status = "GO")
          /\ results # None => (results.temporary_cleanup = "GO") = (temp = "gone")

-----------------------------------------------------------------------------
(* The inductive invariant of the proofs.  The length of Script depends on *)
(* the constants: what holds when is said of places in it.                 *)

Deps == Cardinality(Dependencies)
PlanAt == Deps + 11
AfterAt == PlanAt + 3 * Len(Targets) + 1
EndedAt == AfterAt + 4

Reports == [status : {"GO", "NO_GO"}, temporary_cleanup : {None, "GO"}]

TypeInv ==
    /\ pc \in 1..EndedAt /\ error \in {None, "failed"}
    /\ index \in [committed : SUBSET Packages, client : SUBSET Packages]
    /\ events \in SUBSET [path : Paths, status : {200, 404}]
    /\ installed \in [Packages -> {None, "archive", "other"}]
    /\ temp \in {"owned", "linked", "foreign", "gone", "partial"}
    /\ report \in Reports /\ results \in Reports \cup {None} /\ exit \in {None, 0, 1}

\* Without an error the targets before pc were compiled and passed, from the
\* archives only or from something the second snapshot will see.
TargetInv ==
    /\ pc < AfterAt \/ pc = AfterAt + 1 => error = None
    /\ pc <= PlanAt => passed = {} /\ compiled = {}
    /\ pc > PlanAt /\ pc <= AfterAt /\ error = None =>
          /\ passed = {Targets[i] : i \in 1..((pc - PlanAt - 1) \div 3)}
          /\ pc > PlanAt + 1 => compiled # {}
    /\ pc > PlanAt /\ pc <= AfterAt => compiled \subseteq {"archive"} \/ ~Unchanged
    /\ pc = AfterAt + 1 => passed = AllTargets /\ compiled = {"archive"}

\* The server has what is committed, and the client knows what was committed;
\* every dependency is served before the first client runs.
ServedInv ==
    /\ index.client \subseteq index.committed
    /\ \A p \in index.committed : Spellings(p) \subseteq served
    /\ pc >= Deps + 4 /\ pc < AfterAt => \A p \in Dependencies : Spellings(p) \subseteq served
    /\ \A p \in Dependencies : \A path \in Spellings(p) :
          [path |-> path, status |-> 404] \notin events

\* The verdict is GO only after everything was judged, and a report is written
\* only after the cleanup.
VerdictInv ==
    /\ pc <= AfterAt + 1 => report.status = "NO_GO"
    /\ GoIsEarned
    /\ pc <= AfterAt + 2 => temp # "gone" /\ report.temporary_cleanup = None
    /\ pc >= AfterAt + 3 =>
          /\ report.temporary_cleanup = "GO" <=> temp = "gone"
          /\ report.status = "GO" => temp = "gone"
    /\ pc < EndedAt => results = None /\ exit = None
    /\ pc = EndedAt =>
          \/ results = report /\ exit = IF report.status = "GO" THEN 0 ELSE 1
          \/ results = None /\ exit = 1

\* The gate has accepted the archive of a package.
Accepted(p) ==
    archive[p] \in Candidates \cup {Pinned} /\ CheckedArchive(archive[p].members)

Downloaded == {p \in Dependencies : archive[p] # None}

\* Each download is of another dependency, so that all are there before the
\* index; the candidate is accepted before it is served, and no archive is
\* replaced once it is.
ArchiveInv ==
    /\ archive \in [Packages -> {None, Pinned} \cup Candidates]
    /\ pc <= 3 => Downloaded = {}
    /\ pc \in 3..(Deps + 3) => Cardinality(Downloaded) = pc - 3
    /\ \A p \in Downloaded : Accepted(p)
    /\ pc = Deps + 6 => archive[Candidate] \in Candidates
    /\ pc = Deps + 7 => Accepted(Candidate)
    /\ pc <= Deps + 7 => Spellings(Candidate) \cap served = {}
    /\ \A p \in Packages : Spellings(p) \cap served # {} => Accepted(p)
    /\ \A e \in events : e.status = 200 => e.path \in served
    /\ ~outside

ConsumerInv == TypeInv /\ TargetInv /\ ServedInv /\ VerdictInv /\ ArchiveInv

=============================================================================
