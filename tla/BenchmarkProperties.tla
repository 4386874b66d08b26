------------------------ MODULE BenchmarkProperties ------------------------
(***************************************************************************)
(* What a report of BenchmarkRun is worth.                                 *)
(***************************************************************************)
EXTENDS BenchmarkRun

\* A complete report is about the bytes it names: no version check, validation,
\* contract, lock or measurement in it used an executable, artifact, contract
\* or lock with other bytes than those hashed (benchmark_corpus.py 437-466).
\* The one exception is the independent validator.  Its hash is taken once,
\* between its version and its first validation (302, 315, 352), so it need not
\* be of the bytes that said the version or that accepted the artifacts.
RecordedBytesMeasured ==
    results # None /\ results.status = "complete" => stale \subseteq {"validator"}

EveryRunAgrees(case) ==
    /\ Cardinality(case.answers) = 1
    /\ \A s \in Ordered : case.samples[s] = args.samples

PairsAreBalanced(case) ==
    LET FirstIs(s) == Cardinality({m \in DOMAIN case.pairs : case.pairs[m] = s})
    IN  /\ Len(case.pairs) = args.samples
        /\ FirstIs("baseline") <= FirstIs("candidate") + 1
        /\ FirstIs("candidate") <= FirstIs("baseline") + 1

\* The numbers of a reported case can be compared: all its runs, warmups and
\* both executables included, said the same, there are as many as the
\* methodology says, and whatever the number of warmups each executable runs
\* first equally often, to within one, so that neither has the warm caches.
ComparedFairly ==
    \A n \in DOMAIN report.cases :
        EveryRunAgrees(report.cases[n]) /\ (args.baseline => PairsAreBalanced(report.cases[n]))

LeftAsReported ==
    /\ pc = "ended" =>
          /\ (exit = 0) = (results # None /\ results.status = "complete")
          /\ "foreign" \notin child /\ child # {} => error \in {"cleanup", "interrupt"}
    /\ exit = 0 => Len(results.cases) = Len(args.work)

ForeignFileKept == {".", "foreign"} \subseteq child => {".", "foreign"} \subseteq child'

\* A run that ends with success has a complete report of all its cases on the
\* disk, and one that fails has none that looks complete.  A generated
\* directory is left behind only if it was not the script's to remove, or
\* removing it failed or was interrupted; then the run fails.  And a file that
\* somebody else put there is never removed (benchmark_corpus.py 231-243).
EndsAsReported == [][ForeignFileKept /\ LeftAsReported']_vars

\* The run ends, even if a process never does.
Ends == <>(pc = "ended")
=============================================================================
