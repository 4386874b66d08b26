---------------------------- MODULE BenchmarkRun ----------------------------
(***************************************************************************)
(* scripts/benchmark_corpus.py: the run that measures a CLI, and perhaps a *)
(* baseline CLI beside it, on artifacts.  The files it measures lie on a   *)
(* disk others can write to, the processes it starts may fail or hang, and *)
(* it publishes a report whose numbers are to be about the bytes whose     *)
(* hashes it names.                                                        *)
(*                                                                         *)
(* The bytes of a file are a version; an edit makes bytes the file never   *)
(* had.  `child` is the directory that the current generation goes to.     *)
(***************************************************************************)
EXTENDS Naturals, Sequences, FiniteSets

CONSTANTS
    Artifacts,
    Works,       \* lists of [operation, artifact], as selected by --case
    WarmupCounts, SampleCounts,
    Answers,     \* what a valid run says, its files included
    Hazards,     \* what may go wrong
    MaxEdits,
    None

Sides == {"candidate", "baseline"}
\* The independent validator, and the contract or lock of the current case.
Files == Sides \cup Artifacts \cup {"validator", "extra"}
GeneratedFiles == {"adapter", "contract", "manifest"}
Whole == GeneratedFiles \cup {"."}  \* the directory itself is one of its names

ASSUME BenchmarkAssumption ==
    /\ Artifacts \cap (Sides \cup {"validator", "extra"}) = {}
    /\ \A work \in Works :
          /\ work # <<>>
          /\ work \in Seq([operation : {"inspect", "resource-verify", "generate"},
                           artifact : Artifacts])
    /\ WarmupCounts \subseteq Nat /\ SampleCounts \subseteq Nat \ {0}
    /\ None \notin Answers

\* What a case of a report has, and the reports.
CaseResults == [answers : SUBSET Answers, samples : [Sides -> Nat], pairs : Seq(Sides)]
Reports == [status : {"running", "failed", "complete"}, cases : Seq(CaseResults)]

\* None is no error, no report and no exit code.
ASSUME NoneAssumption ==
    /\ None \notin {"failed", "exists", "cleanup", "interrupt"}
    /\ None \notin Reports /\ None \notin {0, 1}

VARIABLES
    pc,
    args,       \* the work list, whether there is a baseline, warmups, samples
    at,         \* the case, the iteration and how many of its sides have run
    disk,       \* the version of each file
    hash,       \* the version that the report's hash is of
    answer,     \* what the process that ended last said
    measured,   \* what each side said first in this case
    samples,    \* the measured runs of each side in this case
    pairs,      \* the side that ran first in each measured iteration
    child,      \* the names in the generated directory, none if it is absent
    error,
    report,     \* the status and results in memory
    results,    \* results.json
    exit,
    stale,      \* history: files that were used with other bytes than hashed
    answers,    \* history: everything said in this case
    edits

vars == <<pc, args, at, disk, hash, answer, measured, samples, pairs, child,
          error, report, results, exit, stale, answers, edits>>

Output == <<report, results, exit>>
Measures == <<answer, measured, samples, pairs, answers>>
World == <<disk, child, edits>>

Case == args.work[at.index]
Generation == Case.operation = "generate"
HasExtra == Case.operation # "inspect"
Ordered == IF args.baseline THEN Sides ELSE {"candidate"}

-----------------------------------------------------------------------------
(* Steps.                                                                  *)

Goto(place) == pc' = place

\* A file is used: from now on what the report says is about these bytes too.
Use(files) == stale' = stale \cup {f \in files : disk[f] # hash[f]}

\* raise, with the report's status if the exception is an Exception.
Raise(what) ==
    /\ error' = what
    /\ Goto("write")
    /\ report' = IF what = "interrupt" THEN report ELSE [report EXCEPT !.status = "failed"]

\* A wrong try without a finally.
RaiseAtOnce(what) == Raise(what)

\* An exception inside the try of a generation passes its finally first.
RaiseInTry(what) ==
    IF Generation
    THEN Goto("cleanup") /\ error' = what /\ UNCHANGED report
    ELSE Raise(what)

Versions == {"versions", "version-runs", "hash-validator", "baseline-version"}

\* Hashes and versions of the executables.
ReadVersions ==
    /\ pc = "versions"
    /\ hash' = [f \in Files |-> IF f \in Sides THEN disk[f] ELSE hash[f]]
    /\ Goto("version-runs")
    /\ UNCHANGED <<args, at, World, Measures, error, Output, stale>>

\* The validator says its version before it is hashed: until then its hash
\* stands for the bytes that said it.
RunVersions ==
    /\ pc = "version-runs"
    /\ Use({"candidate"})
    /\ hash' = [hash EXCEPT !["validator"] = disk["validator"]]
    /\ Goto("hash-validator")
    /\ UNCHANGED <<args, at, World, Measures, error, Output>>

HashValidator ==
    /\ pc = "hash-validator"
    /\ Use({"validator"})
    /\ hash' = [hash EXCEPT !["validator"] = disk["validator"]]
    /\ Goto("baseline-version")
    /\ UNCHANGED <<args, at, World, Measures, error, Output>>

RunBaselineVersion ==
    /\ pc = "baseline-version"
    /\ Use(IF args.baseline THEN {"baseline"} ELSE {})
    /\ Goto("validate")
    /\ UNCHANGED <<args, at, World, hash, Measures, error, Output>>

\* A file that cannot be read or a version that is not said, while there is
\* no report yet.
FailWithoutReport ==
    /\ pc \in Versions /\ "fail" \in Hazards
    /\ exit' = 1
    /\ Goto("ended")
    /\ UNCHANGED <<args, at, World, hash, Measures, error, report, results, stale>>

\* A case on the artifact of an earlier one.
Repeated == \E n \in 1..(at.index - 1) : args.work[n].artifact = Case.artifact

\* The independent validator accepts every artifact before anything is timed.
Validate ==
    /\ pc = "validate"
    /\ \/ /\ Use(IF Repeated THEN {} ELSE {"validator", Case.artifact})
          /\ UNCHANGED <<error, report>>
          /\ IF at.index < Len(args.work)
             THEN at' = [at EXCEPT !.index = @ + 1] /\ UNCHANGED pc
             ELSE at' = [at EXCEPT !.index = 1] /\ Goto("setup")
       \/ /\ ~Repeated /\ "fail" \in Hazards
          /\ Raise("failed") /\ UNCHANGED <<at, stale>>
    /\ UNCHANGED <<args, World, hash, Measures, results, exit>>

\* resource-contract or resource-lock-v4, by the baseline if there is one.
SetUp ==
    /\ pc = "setup"
    /\ \/ ~HasExtra /\ Goto("start") /\ UNCHANGED <<disk, stale, error, report>>
       \/ /\ HasExtra
          /\ disk' = [disk EXCEPT !["extra"] = @ + 1]
          /\ Use({IF args.baseline THEN "baseline" ELSE "candidate", Case.artifact})
          /\ Goto("hash") /\ UNCHANGED <<error, report>>
       \/ /\ HasExtra /\ "fail" \in Hazards
          /\ Raise("failed") /\ UNCHANGED <<disk, stale>>
    /\ UNCHANGED <<args, at, child, edits, hash, Measures, results, exit>>

\* The contract or lock has what the corpus has; its hash is taken.
HashExtra ==
    /\ pc = "hash"
    /\ hash' = [hash EXCEPT !["extra"] = disk["extra"]]
    /\ Goto("start")
    /\ UNCHANGED <<args, at, World, Measures, error, Output, stale>>

RejectExtra ==
    /\ pc = "hash" /\ "fail" \in Hazards
    /\ Raise("failed")
    /\ UNCHANGED <<args, at, World, hash, Measures, results, exit, stale>>

\* A wrong order: the baseline always first.
BaselineFirst == IF args.baseline THEN <<"baseline", "candidate">> ELSE <<"candidate">>

Order ==
    IF ~args.baseline THEN <<"candidate">>
    ELSE IF at.iteration % 2 = 0 THEN <<"baseline", "candidate">>
    ELSE <<"candidate", "baseline">>

Side == Order[at.turn + 1]

Start ==
    /\ pc = "start"
    /\ IF Generation /\ child # {}
       THEN Raise("exists") /\ UNCHANGED stale
       ELSE Use({Side}) /\ Goto("running") /\ UNCHANGED <<error, report>>
    /\ UNCHANGED <<args, at, World, hash, Measures, results, exit>>

\* The process reads its inputs and ends with an answer.
End ==
    /\ pc = "running"
    /\ answer' \in Answers
    /\ child' = IF Generation THEN Whole \cup child ELSE child
    /\ Use({Case.artifact} \cup (IF HasExtra THEN {"extra"} ELSE {}))
    /\ Goto("answered")
    /\ UNCHANGED <<args, at, disk, edits, hash, measured, samples, pairs, error,
                   Output, answers>>

\* A wrong timeout that starts the process again.
Retry ==
    /\ pc = "running"
    /\ Goto("start")
    /\ UNCHANGED <<args, at, World, hash, Measures, error, Output, stale>>

\* Another exit code, something on stderr, or the end of the timeout, when the
\* process is killed.
Break ==
    /\ pc = "running"
    /\ \/ Generation /\ child = {} /\ child' = Whole
       \/ UNCHANGED child
    /\ RaiseInTry("failed")
    /\ UNCHANGED <<args, at, disk, edits, hash, Measures, results, exit, stale>>

\* What it said is not what the corpus has, or not well-formed.
RejectAnswer ==
    /\ pc = "answered" /\ "fail" \in Hazards
    /\ RaiseInTry("failed")
    /\ UNCHANGED <<args, at, World, hash, Measures, results, exit, stale>>

\* validate_generated, and the same files as the last time.
CheckAnswer ==
    /\ pc = "answered"
    /\ IF /\ Generation => child = Whole
          /\ Generation => measured[Side] \in {None, answer}
       THEN Goto(IF Generation THEN "cleanup" ELSE "record") /\ UNCHANGED <<error, report>>
       ELSE RaiseInTry("failed")
    /\ UNCHANGED <<args, at, World, hash, Measures, results, exit, stale>>

\* What follows the finally.
AfterCleanup ==
    IF error = None THEN Goto("record") /\ UNCHANGED <<error, report>> ELSE Raise(error)

\* remove_generated_output looks at the children before it unlinks any.
Cleanup ==
    /\ pc = "cleanup"
    /\ IF child = {} THEN AfterCleanup
       ELSE IF child \subseteq Whole
            THEN Goto("unlink") /\ UNCHANGED <<error, report>>
       ELSE Raise("cleanup")
    /\ UNCHANGED <<args, at, World, hash, Measures, results, exit, stale>>

Unlink ==
    /\ pc = "unlink"
    /\ \/ \E name \in child \cap GeneratedFiles :
             child' = child \ {name} /\ UNCHANGED <<pc, error, report>>
       \/ /\ child \cap GeneratedFiles = {}
          /\ IF child = {"."} THEN child' = {} /\ AfterCleanup
             ELSE Raise("cleanup") /\ UNCHANGED child
       \/ "fail" \in Hazards /\ Raise("cleanup") /\ UNCHANGED child
    /\ UNCHANGED <<args, at, disk, edits, hash, Measures, results, exit, stale>>

Sampled == at.iteration >= args.warmups

\* A side says what it said before.
Record ==
    /\ pc = "record"
    /\ IF measured[Side] \notin {None, answer}
       THEN Raise("failed") /\ UNCHANGED <<at, measured, samples, answers>>
       ELSE /\ measured' = [measured EXCEPT ![Side] = answer]
            /\ samples' = IF Sampled THEN [samples EXCEPT ![Side] = @ + 1] ELSE samples
            /\ answers' = answers \cup {answer}
            /\ at' = [at EXCEPT !.turn = @ + 1]
            /\ Goto(IF at.turn + 1 < Len(Order) THEN "start" ELSE "compare")
            /\ UNCHANGED <<error, report>>
    /\ UNCHANGED <<args, World, hash, answer, pairs, results, exit, stale>>

SidesAgree == args.baseline => measured["candidate"] = measured["baseline"]

\* Both sides say the same, and the iteration is a pair.
Compare ==
    /\ pc = "compare"
    /\ IF ~SidesAgree THEN Raise("failed") /\ UNCHANGED <<at, pairs>>
       ELSE /\ pairs' = IF args.baseline /\ Sampled THEN Append(pairs, Order[1]) ELSE pairs
            /\ IF at.iteration + 1 < args.warmups + args.samples
               THEN /\ Goto("start")
                    /\ at' = [index |-> at.index, iteration |-> at.iteration + 1, turn |-> 0]
               ELSE Goto("rehash") /\ UNCHANGED at
            /\ UNCHANGED <<error, report>>
    /\ UNCHANGED <<args, World, hash, answer, measured, samples, answers, results,
                   exit, stale>>

\* A wrong check that forgets the contract and the lock.
ArtifactAsHashed == disk[Case.artifact] = hash[Case.artifact]

InputsAsHashed ==
    /\ disk[Case.artifact] = hash[Case.artifact]
    /\ HasExtra => disk["extra"] = hash["extra"]

\* The case is reported, and the next one begins.
Rehash ==
    /\ pc = "rehash"
    /\ IF ~InputsAsHashed
       THEN Raise("failed") /\ UNCHANGED <<at, answer, measured, samples, pairs, answers>>
       ELSE /\ report' = [status |-> report.status, cases |-> Append(report.cases,
                  [answers |-> answers, samples |-> samples, pairs |-> pairs])]
            /\ at' = [index |-> at.index + 1, iteration |-> 0, turn |-> 0]
            /\ answer' = None /\ answers' = {} /\ pairs' = <<>>
            /\ measured' = [s \in Sides |-> None] /\ samples' = [s \in Sides |-> 0]
            /\ Goto(IF at.index < Len(args.work) THEN "setup" ELSE "rehash-cli")
            /\ UNCHANGED error
    /\ UNCHANGED <<args, World, hash, results, exit, stale>>

\* The validator is not hashed again.
RehashExecutables ==
    /\ pc = "rehash-cli"
    /\ IF \A s \in Ordered : disk[s] = hash[s]
       THEN report' = [report EXCEPT !.status = "complete"] /\ Goto("write")
            /\ UNCHANGED error
       ELSE Raise("failed")
    /\ UNCHANGED <<args, at, World, hash, Measures, results, exit, stale>>

\* The finally of the run and the end of main.
WriteReport ==
    /\ pc = "write"
    /\ \/ results' = report /\ exit' = IF error = None THEN 0 ELSE 1
       \/ "fail" \in Hazards /\ UNCHANGED results /\ exit' = 1
    /\ Goto("ended")
    /\ UNCHANGED <<args, at, World, hash, Measures, error, report, stale>>

-----------------------------------------------------------------------------
(* The rest of the world.                                                  *)

Edit(f) ==
    /\ "edit" \in Hazards /\ edits < MaxEdits /\ pc # "ended"
    /\ disk' = [disk EXCEPT ![f] = @ + 1]
    /\ edits' = edits + 1
    /\ UNCHANGED <<pc, args, at, hash, Measures, child, error, Output, stale>>

\* Somebody puts a file of his own where the generated files go.
Intrude ==
    /\ "intruder" \in Hazards /\ edits < MaxEdits /\ pc # "ended"
    /\ child' = child \cup {".", "foreign"}
    /\ edits' = edits + 1
    /\ UNCHANGED <<pc, args, at, disk, hash, Measures, error, Output, stale>>

InTry == pc \in {"running", "answered"}

\* KeyboardInterrupt is no Exception: the report stays "running".
Interrupt ==
    /\ "interrupt" \in Hazards
    /\ pc \notin Versions \cup {"write", "ended"}
    /\ IF InTry THEN RaiseInTry("interrupt") ELSE Raise("interrupt")
    /\ UNCHANGED <<args, at, World, hash, Measures, results, exit, stale>>

Init ==
    /\ pc = "versions"
    /\ args \in [work : Works, baseline : BOOLEAN, warmups : WarmupCounts,
                 samples : SampleCounts]
    /\ at = [index |-> 1, iteration |-> 0, turn |-> 0]
    /\ disk = [f \in Files |-> 0] /\ hash = disk
    /\ answer = None /\ measured = [s \in Sides |-> None]
    /\ samples = [s \in Sides |-> 0] /\ pairs = <<>>
    /\ child = {} /\ error = None
    /\ report = [status |-> "running", cases |-> <<>>]
    /\ results = None /\ exit = None
    /\ stale = {} /\ answers = {} /\ edits = 0

Step ==
    \/ ReadVersions \/ RunVersions \/ HashValidator \/ RunBaselineVersion
    \/ FailWithoutReport \/ Validate \/ SetUp \/ HashExtra \/ RejectExtra
    \/ Start \/ Break \/ RejectAnswer \/ CheckAnswer \/ Cleanup \/ Unlink
    \/ Record \/ Compare \/ Rehash \/ RehashExecutables \/ WriteReport

Next ==
    \/ Step \/ End \/ Interrupt \/ Intrude
    \/ \E f \in Files : Edit(f)

\* The script goes on, and its timer runs out on a process that does not end.
Spec == Init /\ [][Next]_vars /\ WF_vars(Step)

=============================================================================
