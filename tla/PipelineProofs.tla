--------------------------- MODULE PipelineProofs ---------------------------
(***************************************************************************)
(* Theorems about ReleasePipeline, for any repositories, workflows, files  *)
(* and archives.                                                           *)
(***************************************************************************)
EXTENDS PipelineProperties, FiniteSetTheorems, WellFoundedInduction, TLAPS

-----------------------------------------------------------------------------
(* Operators.                                                              *)

\* What another program writes is no release.
LEMMA ForeignIsNoRelease ==
    ASSUME NEW platform, NEW simulated \in BOOLEAN
    PROVE  ~ValidateArchive(Foreign, platform, simulated).ok
<1>1. /\ Foreign.members = <<>> /\ ~Foreign.canonical
      /\ DOMAIN Foreign.members = {}
  BY DEF Foreign
<1>2. ~Rejected.ok
  BY DEF Rejected
<1>3. ~ValidateZip(Foreign, simulated).ok
  <2> DEFINE paths == [n \in DOMAIN Foreign.members |-> Foreign.members[n].path]
  <2>1. DOMAIN paths # DOMAIN ExpectedFileEntries("windows")
    <3>1. "windows" \in Platforms
      BY DEF Platforms
    <3>2. Executable("windows") \in ToSet(RelativeFiles("windows"))
      BY <3>1, NamesAssumption
    <3>3. DOMAIN RelativeFiles("windows") # {}
      BY <3>2 DEF ToSet
    <3>4. QED
      BY <1>1, <3>3 DEF ExpectedFileEntries
  <2>2. ~AssertExactNames(paths, ExpectedFileEntries("windows"))
    <3> HIDE DEF paths
    <3>1. QED
      BY <2>1 DEF AssertExactNames
  <2>3. ValidateZip(Foreign, simulated) = Rejected
    BY <2>2 DEF ValidateZip
  <2>4. QED
    BY <1>2, <2>3
<1>4. ~ValidateTar(Foreign).ok
  BY <1>1, <1>2 DEF ValidateTar
<1>5. QED
  BY <1>2, <1>3, <1>4 DEF ValidateArchive

\* A runner works for one of the platforms.
LEMMA Systems == \A leg : PlatformOf(leg) \in Platforms
BY DEF PlatformOf, System, Platforms

\* Evidence names the archive it was written about, and the reviewed commit.
LEMMA EvidenceFields ==
    \A platform, archive, simulated :
        /\ Evidence(platform, archive, simulated).archive = archive
        /\ Evidence(platform, archive, simulated).commit = "head"
BY DEF Evidence

-----------------------------------------------------------------------------
(* Runners.                                                                *)

\* The same but for the commands that are done,
SameFiles(l, m) ==
    /\ IsLeg(l)
    /\ l.stage = m.stage /\ l.moved = m.moved /\ l.rollback = m.rollback
    /\ l.smoked = m.smoked /\ l.archive = m.archive /\ l.evidence = m.evidence

\* none of which packages.
Alike(l, m) == SameFiles(l, m) /\ l.done \cap Packaging = m.done \cap Packaging

\* The next command finds the same files and evidence.
LEMMA Advanced ==
    ASSUME NEW leg, IsLeg(legs[leg]), NEW n
    PROVE  Alike(At(leg, n), legs[leg]) /\ At(leg, n).input = legs[leg].input
<1>1. PICK state : At(leg, n) = [legs[leg] EXCEPT !.at = n, !.state = state]
  BY DEF At
<1>2. QED
  BY <1>1 DEF IsLeg, Alike, SameFiles

\* So does the command after one that succeeded.
LEMMA SucceededAlike ==
    ASSUME NEW leg, IsLeg(legs[leg])
    PROVE  /\ SameFiles(Succeeded(leg), legs[leg]) /\ Succeeded(leg).input = legs[leg].input
           /\ Succeeded(leg).done = legs[leg].done \cup {Command(leg).do}
           /\ Command(leg).do \notin Packaging => Alike(Succeeded(leg), legs[leg])
<1>1. PICK l : /\ l = At(leg, legs[leg].at + 1) /\ IsLeg(l) /\ SameFiles(l, legs[leg])
               /\ l.input = legs[leg].input /\ l.done = legs[leg].done
  <2>1. At(leg, legs[leg].at + 1).done = legs[leg].done
    BY DEF At, IsLeg
  <2>2. QED
    BY <2>1, Advanced DEF Alike, SameFiles
<1>2. PICK done : done = legs[leg].done \cup {Command(leg).do}
  OBVIOUS
<1>3. PICK m : m = [l EXCEPT !.done = done]
  OBVIOUS
<1>4. Succeeded(leg) = m
  BY <1>1, <1>2, <1>3 DEF Succeeded
<1>5. SameFiles(m, legs[leg]) /\ m.input = legs[leg].input /\ m.done = done
  BY <1>1, <1>3 DEF IsLeg, SameFiles
<1>6. Command(leg).do \notin Packaging => done \cap Packaging = legs[leg].done \cap Packaging
  BY <1>2
<1>7. QED
  BY <1>2, <1>4, <1>5, <1>6 DEF Alike

\* A command that fails leaves the files and the evidence alone.
LEMMA FailedAlike ==
    ASSUME NEW leg, IsLeg(legs[leg]), NEW state \in Failed(leg)
    PROVE  Alike(state, legs[leg]) /\ state.input = legs[leg].input
<1>1. \/ state = [legs[leg] EXCEPT !.state = "failed"]
      \/ \E n : state = At(leg, n)
  BY DEF Failed
<1>2. CASE state = [legs[leg] EXCEPT !.state = "failed"]
  BY <1>2 DEF IsLeg, Alike, SameFiles
<1>3. QED
  BY <1>1, <1>2, Advanced

\* A runner has one job and one program, so the command it is at stays the same.
LEMMA SameJob ==
    ASSUME UNCHANGED <<case, program>>, NEW leg
    PROVE  /\ PlatformOf(leg)' = PlatformOf(leg)
           /\ legs'[leg].at = legs[leg].at =>
                 /\ For(leg)' = For(leg) /\ Command(leg)' = Command(leg)
BY DEF PlatformOf, JobOf, Document, MatrixJob, For, StepOf, Command

\* A step that only takes a runner on keeps what is said of it.
LEMMA AlikeLeg ==
    ASSUME UNCHANGED <<case, program>>, NEW leg, LegInv(leg), Alike(legs'[leg], legs[leg]),
           legs[leg].stage = None \/ legs'[leg].at = legs[leg].at
    PROVE  LegInv(leg)'
BY SameJob DEF LegInv, Alike, SameFiles, StageInv, PublishedInv, RollbackInv, Packages, IsLeg

\* A step of one runner keeps what is said of the others.
LEMMA OneLeg ==
    ASSUME LegsInv, UNCHANGED <<case, program>>, NEW leg \in DOMAIN legs, NEW state,
           Becomes(leg, state)
    PROVE  /\ DOMAIN legs' = DOMAIN legs /\ legs'[leg] = state
           /\ \A other \in DOMAIN legs \ {leg} : legs'[other] = legs[other]
           /\ LegInv(leg)' => LegsInv'
<1>1. /\ DOMAIN legs' = DOMAIN legs /\ legs'[leg] = state
      /\ \A other \in DOMAIN legs \ {leg} : legs'[other] = legs[other]
  BY DEF Becomes
<1>2. ASSUME NEW other \in DOMAIN legs \ {leg} PROVE LegInv(other)'
  BY <1>1, AlikeLeg DEF LegsInv, LegInv, Alike, SameFiles
<1>3. QED
  BY <1>1, <1>2 DEF LegsInv

-----------------------------------------------------------------------------
(* Each step keeps what is said of the runners.                            *)

\* A runner that has finished to package keeps the files it tested.
Frozen ==
    /\ DOMAIN legs' = DOMAIN legs
    /\ \A leg \in DOMAIN legs :
          Finished(leg) => legs'[leg].smoked = legs[leg].smoked /\ Finished(leg)'

InputsKept == \A leg \in DOMAIN legs : legs'[leg].input = legs[leg].input

LegsKept == LegsInv' /\ Frozen /\ ForeignKept

\* A runner that is taken on before it packages keeps what is said of all of them.
LEMMA TakenOn ==
    ASSUME LegsInv, UNCHANGED <<case, program>>, NEW leg \in DOMAIN legs, NEW state,
           Becomes(leg, state), Alike(state, legs[leg]), legs[leg].stage = None
    PROVE  LegsKept /\ (state.input = legs[leg].input => InputsKept)
<1>1. /\ DOMAIN legs' = DOMAIN legs /\ legs'[leg] = state
      /\ \A other \in DOMAIN legs \ {leg} : legs'[other] = legs[other]
      /\ LegInv(leg)' => LegsInv'
  BY OneLeg
<1>2. LegInv(leg)'
  BY <1>1, AlikeLeg DEF LegsInv
<1>3. Frozen /\ ForeignKept /\ (state.input = legs[leg].input => InputsKept)
  BY <1>1 DEF Frozen, Finished, ForeignKept, InputsKept, Alike, SameFiles
<1>4. QED
  BY <1>1, <1>2, <1>3 DEF LegsKept

\* A runner has staged nothing while its command does not package.
LEMMA NotStaged ==
    ASSUME NEW leg, LegInv(leg),
           ~For(leg) \/ Command(leg).do \notin Packaging
    PROVE  legs[leg].stage = None /\ ~legs[leg].moved
BY DEF LegInv, StageInv, PublishedInv

\* Steps of a runner that is not packaging.
LEMMA OtherSteps ==
    ASSUME LegsInv, NEW leg \in DOMAIN legs,
           Skip(leg) \/ Run(leg) \/ Upload(leg) \/ Mock(leg) \/ Aggregate(leg)
    PROVE  LegsKept /\ InputsKept
<1>1. IsLeg(legs[leg])
  BY DEF LegsInv, LegInv
<1>2. legs[leg].stage = None
  <2>1. ~For(leg) \/ Command(leg).do \notin Packaging
    BY DEF Skip, Run, Upload, Mock, Aggregate, Does, Special, Packaging
  <2>2. QED
    BY <2>1, NotStaged DEF LegsInv
<1>3. UNCHANGED <<case, program>>
  BY DEF Skip, Run, Upload, Mock, Aggregate
<1>4. \E state : /\ Becomes(leg, state) /\ Alike(state, legs[leg])
                 /\ state.input = legs[leg].input
  <2>1. CASE Skip(leg)
    BY <1>1, <2>1, Advanced DEF Skip
  <2>2. CASE Run(leg)
    <3>1. CASE \E state \in Failed(leg) : Becomes(leg, state)
      BY <1>1, <3>1, FailedAlike
    <3>2. CASE Becomes(leg, [Succeeded(leg) EXCEPT !.tool = Tool(leg)])
      <4>1. PICK l : /\ l = Succeeded(leg) /\ Alike(l, legs[leg])
                     /\ l.input = legs[leg].input
        <5>1. Command(leg).do \notin Packaging
          BY <2>2 DEF Run, Special, Packaging
        <5>2. QED
          BY <1>1, <5>1, SucceededAlike
      <4>2. Alike([l EXCEPT !.tool = Tool(leg)], legs[leg])
        BY <4>1 DEF Alike, SameFiles, IsLeg
      <4>3. [l EXCEPT !.tool = Tool(leg)].input = legs[leg].input
        BY <4>1 DEF Alike, SameFiles, IsLeg
      <4>4. QED
        BY <3>2, <4>1, <4>2, <4>3
    <3>3. QED
      BY <2>2, <3>1, <3>2 DEF Run
  <2>3. CASE Upload(leg) \/ Mock(leg) \/ Aggregate(leg)
    <3>1. Becomes(leg, Succeeded(leg)) \/ \E state \in Failed(leg) : Becomes(leg, state)
      BY <2>3 DEF Upload, Mock, Aggregate
    <3>2. Command(leg).do \notin Packaging
      BY <2>3 DEF Upload, Mock, Aggregate, Does, Packaging
    <3>3. QED
      BY <1>1, <3>1, <3>2, SucceededAlike, FailedAlike
  <2>4. QED
    BY <2>1, <2>2, <2>3
<1>5. QED
  BY <1>2, <1>3, <1>4, TakenOn

\* Downloads keep what is said of the runners, and add what is stored to what one has.
LEMMA DownloadStep ==
    ASSUME LegsInv, NEW leg \in DOMAIN legs, Download(leg)
    PROVE  /\ LegsKept
           /\ \A other \in DOMAIN legs :
                 legs'[other].input \subseteq legs[other].input \cup {store[name] : name \in DOMAIN store}
<1>1. IsLeg(legs[leg]) /\ UNCHANGED <<case, program>>
  BY DEF LegsInv, LegInv, Download
<1>2. legs[leg].stage = None
  BY NotStaged DEF LegsInv, Download, Does, Packaging
<1>3. PICK state : /\ Becomes(leg, state) /\ Alike(state, legs[leg])
                   /\ state.input \subseteq legs[leg].input \cup {store[name] : name \in DOMAIN store}
  <2>1. CASE \E state \in Failed(leg) : Becomes(leg, state)
    BY <1>1, <2>1, FailedAlike
  <2>2. CASE \E input \in SUBSET {store[name] : name \in DOMAIN store} :
                Becomes(leg, [Succeeded(leg) EXCEPT !.input = input])
    <3>1. PICK input \in SUBSET {store[name] : name \in DOMAIN store} :
              Becomes(leg, [Succeeded(leg) EXCEPT !.input = input])
      BY <2>2
    <3>2. PICK l : l = Succeeded(leg) /\ Alike(l, legs[leg])
      <4>1. Command(leg).do \notin Packaging
        BY DEF Download, Does, Packaging
      <4>2. QED
        BY <1>1, <4>1, SucceededAlike
    <3>3. /\ Alike([l EXCEPT !.input = input], legs[leg])
          /\ [l EXCEPT !.input = input].input = input
      BY <3>2 DEF Alike, SameFiles, IsLeg
    <3>4. QED
      BY <3>1, <3>2, <3>3
  <2>3. QED
    BY <2>1, <2>2 DEF Download
<1>4. QED
  BY <1>1, <1>2, <1>3, TakenOn, OneLeg

\* So does making an archive,
LEMMA PackageStep ==
    ASSUME LegsInv, NEW leg \in DOMAIN legs, Package(leg)
    PROVE  LegsKept /\ InputsKept
<1>1. LegInv(leg) /\ UNCHANGED <<case, program>> /\ legs[leg].stage = None /\ ~legs[leg].moved
      /\ For(leg) /\ Command(leg).do \in Packaging
  BY DEF LegsInv, LegInv, PublishedInv, Package, Does
<1>2. CASE \E state \in Failed(leg) : Becomes(leg, state)
  BY <1>1, <1>2, FailedAlike, TakenOn DEF LegInv
<1>3. CASE \E archive \in Archives(PlatformOf(leg)) :
              LET result == ValidateArchive(archive, PlatformOf(leg), FALSE)
              IN  /\ legs[leg].archive = None /\ legs[leg].evidence = None /\ result.ok
                  /\ Becomes(leg, [legs[leg] EXCEPT
                        !.stage = archive,
                        !.smoked = ExtractPayloads(result.payloads, PlatformOf(leg))])
  <2>1. PICK archive \in Archives(PlatformOf(leg)) :
            LET result == ValidateArchive(archive, PlatformOf(leg), FALSE)
            IN  /\ legs[leg].archive = None /\ legs[leg].evidence = None /\ result.ok
                /\ Becomes(leg, [legs[leg] EXCEPT
                      !.stage = archive,
                      !.smoked = ExtractPayloads(result.payloads, PlatformOf(leg))])
    BY <1>3
  <2>2. PICK smoked :
            smoked = ExtractPayloads(ValidateArchive(archive, PlatformOf(leg), FALSE).payloads,
                                     PlatformOf(leg))
    OBVIOUS
  <2>3. PICK state : state = [legs[leg] EXCEPT !.stage = archive, !.smoked = smoked]
    OBVIOUS
  <2>4. /\ IsLeg(state) /\ state.at = legs[leg].at /\ state.stage = archive
        /\ state.moved = legs[leg].moved /\ state.smoked = smoked
        /\ state.archive = None /\ state.evidence = None
        /\ state.input = legs[leg].input
        /\ state.done = legs[leg].done /\ state.rollback = legs[leg].rollback
    BY <1>1, <2>1, <2>3 DEF LegInv, IsLeg
  <2>5. /\ DOMAIN legs' = DOMAIN legs /\ legs'[leg] = state
        /\ \A other \in DOMAIN legs \ {leg} : legs'[other] = legs[other]
        /\ LegInv(leg)' => LegsInv'
    BY <1>1, <2>1, <2>2, <2>3, OneLeg
  <2>6. StageInv(leg)'
    BY <1>1, <2>1, <2>2, <2>4, <2>5, SameJob DEF StageInv, Packages
  <2>7. RollbackInv(leg)'
    BY <1>1, <2>1, <2>4, <2>5 DEF LegInv, RollbackInv
  <2>8. LegInv(leg)'
    BY <1>1, <2>4, <2>5, <2>6, <2>7 DEF LegInv, IsLeg, PublishedInv
  <2>9. Frozen /\ ForeignKept /\ InputsKept
    BY <1>1, <2>1, <2>4, <2>5, NoneAssumption DEF LegInv, RollbackInv, Frozen, Finished, ForeignKept, InputsKept
  <2>10. QED
    BY <2>5, <2>8, <2>9 DEF LegsKept
<1>4. QED
  BY <1>1, <1>2, <1>3 DEF Package, Archives

\* publishing the archive,
LEMMA PublishStep ==
    ASSUME LegsInv, NEW leg \in DOMAIN legs, Publish(leg)
    PROVE  LegsKept /\ InputsKept
<1>1. LegInv(leg) /\ UNCHANGED <<case, program>> /\ legs[leg].stage # None /\ ~legs[leg].moved
  BY DEF LegsInv, Publish
<1>2. CASE legs[leg].archive = None
  <2>1. PICK state : state = [legs[leg] EXCEPT !.archive = legs[leg].stage, !.moved = TRUE]
    OBVIOUS
  <2>2. /\ IsLeg(state) /\ state.at = legs[leg].at /\ state.stage = legs[leg].stage
        /\ state.moved /\ state.smoked = legs[leg].smoked
        /\ state.archive = legs[leg].stage /\ state.evidence = legs[leg].evidence
        /\ state.input = legs[leg].input
        /\ state.done = legs[leg].done /\ state.rollback = legs[leg].rollback
    BY <1>1, <2>1 DEF LegInv, IsLeg
  <2>3. Becomes(leg, state)
    BY <1>2, <2>1 DEF Publish
  <2>4. /\ DOMAIN legs' = DOMAIN legs /\ legs'[leg] = state
        /\ \A other \in DOMAIN legs \ {leg} : legs'[other] = legs[other]
        /\ LegInv(leg)' => LegsInv'
    BY <1>1, <2>3, OneLeg
  <2>5. StageInv(leg)'
    BY <1>1, <2>2, <2>4, SameJob DEF LegInv, StageInv, Packages
  <2>6. PublishedInv(leg)'
    BY <1>1, <2>2, <2>4, SameJob DEF LegInv, StageInv, PublishedInv, Packages
  <2>7. RollbackInv(leg)'
    BY <1>1, <2>2, <2>4 DEF LegInv, RollbackInv
  <2>8. Frozen /\ ForeignKept /\ InputsKept
    BY <1>1, <1>2, <2>2, <2>4, NoneAssumption DEF LegInv, RollbackInv, Frozen, Finished, ForeignKept, InputsKept
  <2>9. QED
    BY <2>2, <2>4, <2>5, <2>6, <2>7, <2>8 DEF LegsKept, LegInv
<1>3. CASE legs[leg].archive # None
  <2>1. PICK failed \in Failed(leg) : Becomes(leg, [failed EXCEPT !.stage = None])
    BY <1>3 DEF Publish
  <2>2. Alike(failed, legs[leg]) /\ failed.input = legs[leg].input
    BY <1>1, FailedAlike DEF LegInv
  <2>3. PICK state : state = [failed EXCEPT !.stage = None]
    OBVIOUS
  <2>4. /\ IsLeg(state) /\ state.stage = None /\ ~state.moved /\ state.smoked = legs[leg].smoked
        /\ state.archive = legs[leg].archive /\ state.evidence = legs[leg].evidence
        /\ state.input = legs[leg].input /\ state.rollback = legs[leg].rollback
        /\ state.done \cap Packaging = legs[leg].done \cap Packaging
    BY <1>1, <2>2, <2>3 DEF Alike, SameFiles, IsLeg
  <2>5. /\ DOMAIN legs' = DOMAIN legs /\ legs'[leg] = state
        /\ \A other \in DOMAIN legs \ {leg} : legs'[other] = legs[other]
        /\ LegInv(leg)' => LegsInv'
    BY <1>1, <2>1, <2>3, OneLeg
  <2>6. StageInv(leg)' /\ PublishedInv(leg)'
    BY <1>1, <2>4, <2>5, SameJob DEF LegInv, StageInv, PublishedInv, Packages
  <2>7. RollbackInv(leg)'
    BY <1>1, <2>4, <2>5 DEF LegInv, RollbackInv
  <2>8. Frozen /\ ForeignKept /\ InputsKept
    BY <1>1, <2>4, <2>5 DEF LegInv, RollbackInv, Frozen, Finished, ForeignKept, InputsKept
  <2>9. QED
    BY <2>4, <2>5, <2>6, <2>7, <2>8 DEF LegsKept, LegInv
<1>4. QED
  BY <1>2, <1>3

\* What a runner packaged is not what another program writes.
LEMMA PackagedIsNotForeign ==
    \A leg, archive : Packages(leg, archive) => archive # Foreign
BY ForeignIsNoRelease DEF Packages

\* A rollback goes on.
LEMMA Rolled ==
    ASSUME LegsInv, UNCHANGED <<case, program>>, NEW leg \in DOMAIN legs, legs[leg].moved,
           NEW rollback \in {"check", "delete"},
           rollback = "delete" => legs[leg].archive # Foreign,
           Becomes(leg, [legs[leg] EXCEPT !.rollback = rollback])
    PROVE  LegsKept /\ InputsKept
<1>1. LegInv(leg)
  BY DEF LegsInv
<1>2. PICK state : state = [legs[leg] EXCEPT !.rollback = rollback]
  OBVIOUS
<1>3. /\ IsLeg(state) /\ state.at = legs[leg].at /\ state.stage = legs[leg].stage
      /\ state.moved = legs[leg].moved /\ state.smoked = legs[leg].smoked
      /\ state.archive = legs[leg].archive /\ state.evidence = legs[leg].evidence
      /\ state.input = legs[leg].input /\ state.done = legs[leg].done
      /\ state.rollback = rollback
  BY <1>1, <1>2 DEF LegInv, IsLeg
<1>4. /\ DOMAIN legs' = DOMAIN legs /\ legs'[leg] = state
      /\ \A other \in DOMAIN legs \ {leg} : legs'[other] = legs[other]
      /\ LegInv(leg)' => LegsInv'
  BY <1>1, <1>2, OneLeg
<1>5. StageInv(leg)'
  BY <1>1, <1>3, <1>4, SameJob DEF LegInv, StageInv, Packages
<1>6. PublishedInv(leg)'
  BY <1>1, <1>3, <1>4, SameJob DEF LegInv, PublishedInv, Packages
<1>7. RollbackInv(leg)'
  BY <1>1, <1>3, <1>4 DEF LegInv, PublishedInv, RollbackInv
<1>8. Frozen /\ ForeignKept /\ InputsKept
  BY <1>1, <1>3, <1>4 DEF LegInv, PublishedInv, RollbackInv, Frozen, Finished, ForeignKept, InputsKept
<1>9. QED
  BY <1>3, <1>4, <1>5, <1>6, <1>7, <1>8 DEF LegsKept, LegInv

\* A rollback that fails leaves the package.
LEMMA RollbackFailedStep ==
    ASSUME LegsInv, UNCHANGED <<case, program>>, NEW leg \in DOMAIN legs, legs[leg].moved,
           RollbackFailed(leg)
    PROVE  LegsKept /\ InputsKept
<1>1. LegInv(leg)
  BY DEF LegsInv
<1>2. PICK failed \in Failed(leg) :
          Becomes(leg, [failed EXCEPT !.stage = None, !.moved = FALSE, !.rollback = "failed"])
  BY DEF RollbackFailed
<1>3. Alike(failed, legs[leg]) /\ failed.input = legs[leg].input
  BY <1>1, FailedAlike DEF LegInv
<1>4. PICK state : state = [failed EXCEPT !.stage = None, !.moved = FALSE, !.rollback = "failed"]
  OBVIOUS
<1>5. /\ IsLeg(state) /\ state.stage = None /\ ~state.moved /\ state.rollback = "failed"
      /\ state.smoked = legs[leg].smoked /\ state.archive = legs[leg].archive
      /\ state.evidence = legs[leg].evidence /\ state.input = legs[leg].input
      /\ state.done \cap Packaging = legs[leg].done \cap Packaging
  BY <1>3, <1>4 DEF Alike, SameFiles, IsLeg
<1>6. /\ DOMAIN legs' = DOMAIN legs /\ legs'[leg] = state
      /\ \A other \in DOMAIN legs \ {leg} : legs'[other] = legs[other]
      /\ LegInv(leg)' => LegsInv'
  BY <1>1, <1>2, <1>4, OneLeg
<1>7. StageInv(leg)' /\ PublishedInv(leg)'
  BY <1>1, <1>5, <1>6, SameJob DEF LegInv, StageInv, PublishedInv, Packages
<1>8. RollbackInv(leg)'
  <2>1. legs[leg].archive # None /\ legs[leg].stage # None
    BY <1>1, NoneAssumption DEF LegInv, PublishedInv
  <2>2. legs[leg].done \cap Packaging = {}
    BY <1>1, <2>1 DEF LegInv, RollbackInv
  <2>3. QED
    BY <1>5, <1>6, <2>1, <2>2 DEF RollbackInv
<1>9. Frozen /\ ForeignKept /\ InputsKept
  BY <1>5, <1>6 DEF Frozen, Finished, ForeignKept, InputsKept
<1>10. QED
  BY <1>5, <1>6, <1>7, <1>8, <1>9 DEF LegsKept, LegInv

\* publishing its evidence,
LEMMA PublishEvidenceStep ==
    ASSUME LegsInv, NEW leg \in DOMAIN legs, PublishEvidence(leg)
    PROVE  LegsKept /\ InputsKept
<1>1. /\ LegInv(leg) /\ UNCHANGED <<case, program>>
      /\ legs[leg].moved /\ legs[leg].rollback = None
  BY DEF LegsInv, PublishEvidence
<1>2. /\ legs[leg].stage \in Archives(PlatformOf(leg)) /\ Packages(leg, legs[leg].stage)
      /\ legs[leg].archive \in {legs[leg].stage, Foreign} /\ legs[leg].stage # Foreign
  BY <1>1, PackagedIsNotForeign DEF LegInv, StageInv, PublishedInv
<1>3. ASSUME legs[leg].evidence = None,
             Becomes(leg, [Succeeded(leg) EXCEPT
                !.stage = None, !.moved = FALSE,
                !.evidence = Evidence(PlatformOf(leg), legs[leg].stage, FALSE)])
      PROVE  LegsKept /\ InputsKept
  <2>1. PICK done : /\ done = Succeeded(leg) /\ SameFiles(done, legs[leg])
                    /\ done.input = legs[leg].input
    BY <1>1, SucceededAlike DEF LegInv
  <2>2. PICK evidence : evidence = Evidence(PlatformOf(leg), legs[leg].stage, FALSE)
    OBVIOUS
  <2>3. PICK state : state = [done EXCEPT !.stage = None, !.moved = FALSE, !.evidence = evidence]
    OBVIOUS
  <2>4. /\ IsLeg(state) /\ state.stage = None /\ ~state.moved /\ state.smoked = legs[leg].smoked
        /\ state.archive = legs[leg].archive /\ state.evidence = evidence
        /\ state.input = legs[leg].input /\ state.rollback = None
    BY <1>1, <2>1, <2>3 DEF SameFiles, IsLeg
  <2>5. Becomes(leg, state)
    BY <1>3, <2>1, <2>2, <2>3
  <2>6. /\ DOMAIN legs' = DOMAIN legs /\ legs'[leg] = state
        /\ \A other \in DOMAIN legs \ {leg} : legs'[other] = legs[other]
        /\ LegInv(leg)' => LegsInv'
    BY <1>1, <2>5, OneLeg
  <2>7. evidence # None
    BY <1>2, <2>2, Systems, NoneAssumption
  <2>8. StageInv(leg)'
    BY <2>4, <2>6 DEF StageInv
  <2>9. PublishedInv(leg)'
    <3>1. (/\ legs[leg].moved => /\ legs[leg].stage # None
                                 /\ legs[leg].archive \in {legs[leg].stage, Foreign}
           /\ legs[leg].archive \notin {None, Foreign} =>
                 /\ legs[leg].archive \in Archives(PlatformOf(leg))
                 /\ Packages(leg, legs[leg].archive)
                 /\ legs[leg].evidence # None \/ legs[leg].moved
                    \/ legs[leg].rollback = "failed")'
      BY <1>1, <1>2, <2>4, <2>6, <2>7, SameJob DEF Packages
    <3>2. (\E archive \in Archives(PlatformOf(leg)) :
              /\ legs[leg].evidence = Evidence(PlatformOf(leg), archive, FALSE)
              /\ Packages(leg, archive))'
      <4>1. PICK archive \in Archives(PlatformOf(leg)) :
                evidence = Evidence(PlatformOf(leg), archive, FALSE) /\ Packages(leg, archive)
        BY <1>2, <2>2
      <4>2. QED
        BY <1>1, <2>4, <2>6, <4>1, SameJob DEF Packages
    <3>3. QED
      BY <3>1, <3>2 DEF PublishedInv
  <2>10. RollbackInv(leg)'
    <3>1. legs[leg].archive # None
      BY <1>1, <1>2, NoneAssumption DEF LegInv, PublishedInv
    <3>2. QED
      BY <2>4, <2>6, <2>7, <3>1, NoneAssumption DEF RollbackInv
  <2>11. Frozen /\ ForeignKept /\ InputsKept
    BY <1>3, <2>4, <2>6, <2>7 DEF Frozen, Finished, ForeignKept, InputsKept
  <2>12. QED
    BY <2>4, <2>6, <2>8, <2>9, <2>10, <2>11 DEF LegsKept, LegInv
<1>4. ASSUME Becomes(leg, [legs[leg] EXCEPT !.rollback = "check"])
      PROVE  LegsKept /\ InputsKept
  <2>1. \/ legs[leg].archive # Foreign \/ "check" # "delete"
    OBVIOUS
  <2>2. QED
    BY <1>1, <1>4, <2>1, Rolled
<1>5. QED
  BY <1>3, <1>4 DEF PublishEvidence

\* taking it back once the archive was found to be the one that was published,
LEMMA CheckRollbackStep ==
    ASSUME LegsInv, NEW leg \in DOMAIN legs, CheckRollback(leg)
    PROVE  LegsKept /\ InputsKept
<1>1. /\ LegInv(leg) /\ UNCHANGED <<case, program>>
      /\ legs[leg].moved
  BY DEF LegsInv, LegInv, RollbackInv, CheckRollback
<1>2. ASSUME PublishedArchive(leg), Becomes(leg, [legs[leg] EXCEPT !.rollback = "delete"])
      PROVE  LegsKept /\ InputsKept
  <2>1. legs[leg].archive # Foreign
    BY <1>1, <1>2, PackagedIsNotForeign
       DEF LegInv, StageInv, PublishedInv, PublishedArchive
  <2>2. QED
    BY <1>1, <1>2, <2>1, Rolled
<1>3. QED
  BY <1>1, <1>2, RollbackFailedStep DEF CheckRollback

LEMMA DeleteArchiveStep ==
    ASSUME LegsInv, NEW leg \in DOMAIN legs, DeleteArchive(leg)
    PROVE  LegsKept /\ InputsKept
<1>1. /\ LegInv(leg) /\ UNCHANGED <<case, program>> /\ legs[leg].moved
      /\ legs[leg].rollback \in {"delete", "raced"}
  BY DEF LegsInv, LegInv, RollbackInv, DeleteArchive
<1>2. ASSUME NEW failed \in Failed(leg),
             Becomes(leg, [failed EXCEPT !.stage = None, !.moved = FALSE, !.rollback = None,
                                         !.archive = None])
      PROVE  LegsKept /\ InputsKept
  <2>1. Alike(failed, legs[leg]) /\ failed.input = legs[leg].input
    BY <1>1, FailedAlike DEF LegInv
  <2>2. PICK state : state = [failed EXCEPT !.stage = None, !.moved = FALSE, !.rollback = None,
                                            !.archive = None]
    OBVIOUS
  <2>3. /\ IsLeg(state) /\ state.stage = None /\ ~state.moved /\ state.rollback = None
        /\ state.smoked = legs[leg].smoked /\ state.archive = None
        /\ state.evidence = legs[leg].evidence /\ state.input = legs[leg].input
        /\ state.done \cap Packaging = legs[leg].done \cap Packaging
    BY <2>1, <2>2 DEF Alike, SameFiles, IsLeg
  <2>4. /\ DOMAIN legs' = DOMAIN legs /\ legs'[leg] = state
        /\ \A other \in DOMAIN legs \ {leg} : legs'[other] = legs[other]
        /\ LegInv(leg)' => LegsInv'
    BY <1>1, <1>2, <2>2, OneLeg
  <2>5. StageInv(leg)' /\ PublishedInv(leg)'
    BY <1>1, <2>3, <2>4, SameJob DEF LegInv, StageInv, PublishedInv, Packages
  <2>6. RollbackInv(leg)'
    BY <1>1, <2>3, <2>4, NoneAssumption DEF LegInv, PublishedInv, RollbackInv
  <2>7. Frozen /\ ForeignKept /\ InputsKept
    BY <1>1, <2>3, <2>4 DEF LegInv, RollbackInv, Frozen, Finished, ForeignKept, InputsKept
  <2>8. QED
    BY <2>3, <2>4, <2>5, <2>6, <2>7 DEF LegsKept, LegInv
<1>3. QED
  BY <1>1, <1>2, RollbackFailedStep DEF DeleteArchive

\* and what other programs write in between.
LEMMA MeddleStep ==
    ASSUME LegsInv, NEW leg \in DOMAIN legs, Meddle(leg)
    PROVE  LegsKept /\ InputsKept
<1>1. LegInv(leg) /\ UNCHANGED <<case, program>>
  BY DEF LegsInv, Meddle
<1>2. PICK state :
          /\ Becomes(leg, state)
          /\ \/ state = [legs[leg] EXCEPT !.archive = Foreign, !.rollback = Raced(@)]
             \/ legs[leg].evidence = None /\ state = [legs[leg] EXCEPT !.evidence = ForeignEvidence]
  BY DEF Meddle, ForeignEvidence
<1>3. /\ IsLeg(state) /\ state.at = legs[leg].at /\ state.stage = legs[leg].stage
      /\ state.moved = legs[leg].moved /\ state.smoked = legs[leg].smoked
      /\ state.input = legs[leg].input /\ state.done = legs[leg].done
      /\ \/ /\ state.archive = Foreign /\ state.evidence = legs[leg].evidence
            /\ state.rollback = Raced(legs[leg].rollback)
         \/ /\ legs[leg].evidence = None /\ state.evidence = ForeignEvidence
            /\ state.archive = legs[leg].archive /\ state.rollback = legs[leg].rollback
  BY <1>1, <1>2 DEF LegInv, IsLeg
<1>4. /\ DOMAIN legs' = DOMAIN legs /\ legs'[leg] = state
      /\ \A other \in DOMAIN legs \ {leg} : legs'[other] = legs[other]
      /\ LegInv(leg)' => LegsInv'
  BY <1>1, <1>2, OneLeg
<1>5. StageInv(leg)'
  BY <1>1, <1>3, <1>4, SameJob DEF LegInv, StageInv, Packages
<1>6. PublishedInv(leg)'
  BY <1>1, <1>3, <1>4, SameJob, NoneAssumption
     DEF LegInv, PublishedInv, Packages, ForeignEvidence
<1>7. RollbackInv(leg)'
  <2>1. /\ legs[leg].done \cap Packaging # {} => legs[leg].evidence # None
        /\ Foreign # None
    BY <1>1, NoneAssumption DEF LegInv, RollbackInv
  <2>2. QED
    BY <1>1, <1>3, <1>4, <2>1 DEF LegInv, RollbackInv, Raced
<1>8. Frozen /\ ForeignKept /\ InputsKept
  BY <1>1, <1>3, <1>4 DEF LegInv, RollbackInv, Raced, Frozen, Finished, ForeignKept, InputsKept
<1>9. QED
  BY <1>3, <1>4, <1>5, <1>6, <1>7, <1>8 DEF LegsKept, LegInv

\* Steps of the gates and of the store do not touch the runners.
LEMMA LegsUnchanged ==
    ASSUME LegsInv, UNCHANGED <<case, program, legs>>
    PROVE  LegsKept /\ InputsKept
<1>1. ASSUME NEW leg \in DOMAIN legs PROVE LegInv(leg)'
  BY AlikeLeg DEF LegsInv, LegInv, Alike, SameFiles
<1>2. QED
  BY <1>1 DEF LegsKept, LegsInv, Frozen, Finished, ForeignKept, InputsKept

\* Every step keeps what is said of the runners, and what they hand over.
LEMMA StepKeepsLegs ==
    ASSUME LegsInv, [Next]_vars
    PROVE  LegsKept
<1>1. CASE Validate \/ Drift \/ Alter \/ UNCHANGED vars
  BY <1>1, LegsUnchanged DEF Validate, Drift, Alter, vars
<1>2. CASE \E leg \in DOMAIN legs : LegStep(leg) \/ Meddle(leg)
  BY <1>2, OtherSteps, DownloadStep, PackageStep, PublishStep, PublishEvidenceStep,
     CheckRollbackStep, DeleteArchiveStep, MeddleStep DEF LegStep
<1>3. QED
  BY <1>1, <1>2 DEF Next

\* Runners start with nothing.
LEMMA InitLegs == Init => LegsInv
<1> SUFFICES ASSUME Init, NEW leg \in DOMAIN legs PROVE LegInv(leg)
  BY DEF LegsInv
<1>1. legs[leg] = NewLeg
  BY DEF Init
<1>2. /\ IsLeg(legs[leg]) /\ ~legs[leg].moved /\ legs[leg].rollback = None
      /\ legs[leg].stage = None /\ legs[leg].archive = None /\ legs[leg].evidence = None
      /\ legs[leg].done = {}
  BY <1>1 DEF NewLeg, IsLeg
<1>3. QED
  BY <1>2, NoneAssumption DEF LegInv, StageInv, PublishedInv, RollbackInv

\* However packaging is interrupted, repeated or meddled with, a runner's stage,
\* archive and evidence are those of the files its smoke tests ran in, or
\* another program's.
THEOREM LegsInvariant == Spec => []LegsInv
<1>1. LegsInv /\ [Next]_vars => LegsInv'
  BY StepKeepsLegs DEF LegsKept
<1>2. QED
  BY InitLegs, <1>1, PTL DEF Spec

\* A package without evidence is there only between the two moves of a run of
\* package-release.ps1, or after a rollback that failed, and then the run did
\* not say that it packaged; and no file of another program is deleted or
\* replaced, unless it came between the last check of the hash and the deletion
\* (173-207, 754-818).
THEOREM PackagesComeWithEvidence == Spec => PublicationIsAtomic
<1>1. LegsInv => NoPackageAlone
  BY DEF LegsInv, LegInv, PublishedInv, RollbackInv, NoPackageAlone
<1>2. LegsInv /\ [Next]_vars => [NoPackageAlone' /\ ForeignKept]_vars
  <2> SUFFICES ASSUME LegsInv, [Next]_vars PROVE NoPackageAlone' /\ ForeignKept
    OBVIOUS
  <2>2. LegsInv' /\ ForeignKept
    BY StepKeepsLegs DEF LegsKept
  <2>3. NoPackageAlone'
    BY <2>2 DEF LegsInv, LegInv, PublishedInv, RollbackInv, NoPackageAlone
  <2>4. QED
    BY <2>2, <2>3
<1>3. QED
  BY <1>2, LegsInvariant, PTL DEF Spec, PublicationIsAtomic

-----------------------------------------------------------------------------
(* What is handed over.                                                    *)

\* What a runner packaged stays what it packaged.
LEMMA PackagedStays ==
    ASSUME UNCHANGED <<case, program>>, Frozen, NEW platform, NEW archive,
           PackagedHere(platform, archive)
    PROVE  PackagedHere(platform, archive)'
<1>1. PICK leg \in DOMAIN legs : /\ PlatformOf(leg) = platform /\ Packages(leg, archive)
                                 /\ Finished(leg)
  BY DEF PackagedHere
<1>2. /\ leg \in DOMAIN legs' /\ PlatformOf(leg)' = platform
      /\ Finished(leg)' /\ Packages(leg, archive)'
  BY <1>1, SameJob DEF Frozen, Packages
<1>3. QED
  BY <1>2 DEF PackagedHere

\* What is handed over stays as it was packaged, unless it is altered.
LEMMA HandoffStays ==
    ASSUME UNCHANGED <<case, program>>, Frozen, altered \subseteq altered', NEW i, HandoffInv(i)
    PROVE  HandoffInv(i)'
<1>1. ArchiveKept(i) => ArchiveKept(i)'
  BY PackagedStays DEF ArchiveKept
<1>2. EvidenceKept(i) => EvidenceKept(i)'
  BY PackagedStays DEF EvidenceKept
<1>3. QED
  BY <1>1, <1>2 DEF HandoffInv, IsCurrent, FromAnother

\* Steps that store nothing new keep what is said of the handoffs.
LEMMA UnalteredHandoffs ==
    ASSUME HandoffsInv, UNCHANGED <<case, program, store, altered>>, Frozen,
           \A leg \in DOMAIN legs :
              legs'[leg].input \subseteq legs[leg].input \cup {store[name] : name \in DOMAIN store}
    PROVE  HandoffsInv'
<1>1. Handoffs' \subseteq Handoffs
  BY DEF Handoffs, Frozen
<1>2. QED
  BY <1>1, HandoffStays DEF HandoffsInv

\* So do steps that store one more that is as it should be.
LEMMA StoreChanges ==
    ASSUME HandoffsInv, UNCHANGED <<case, program>>, Frozen, InputsKept,
           altered \subseteq altered', NEW item,
           case.event # "rehearsal" =>
              HandoffInv(item)' /\ \A a \in altered' : a.platform \in Platforms,
           \A name \in DOMAIN store' :
              store'[name] = item \/ (name \in DOMAIN store /\ store'[name] = store[name])
    PROVE  HandoffsInv'
<1>1. Handoffs' \subseteq Handoffs \cup {item}
  BY DEF Handoffs, Frozen, InputsKept
<1>2. QED
  BY <1>1, HandoffStays DEF HandoffsInv

\* An upload stores what its runner packaged.
LEMMA UploadKeepsHandoffs ==
    ASSUME LegsInv, HandoffsInv, NEW leg \in DOMAIN legs, Upload(leg)
    PROVE  HandoffsInv'
<1>1. LegsKept /\ InputsKept /\ UNCHANGED <<case, program, altered>>
  BY OtherSteps DEF Upload
<1>2. CASE UNCHANGED store
  BY <1>1, <1>2, UnalteredHandoffs DEF LegsKept, InputsKept, Frozen
<1>3. ASSUME NEW name, NEW evidence \in {legs[leg].evidence, None},
             store' = [n \in DOMAIN store \cup {name} |->
                          IF n = name THEN [label |-> name, platform |-> PlatformOf(leg),
                                            archive |-> legs[leg].archive,
                                            evidence |-> evidence]
                          ELSE store[n]]
      PROVE  HandoffsInv'
  <2>1. PICK item : item = [label |-> name, platform |-> PlatformOf(leg),
                            archive |-> legs[leg].archive, evidence |-> evidence]
    OBVIOUS
  <2>2. LegInv(leg) /\ ~legs[leg].moved
    BY NotStaged DEF LegsInv, Upload, Does, Packaging
  <2>3. ArchiveKept(item)
    BY <2>1, <2>2 DEF LegInv, PublishedInv, ArchiveKept, PackagedHere, Finished
  <2>4. EvidenceKept(item) /\ IsCurrent(item)
    <3>1. CASE evidence \in {None, ForeignEvidence}
      <4>1. ForeignEvidence.commit = "head"
        BY EvidenceFields DEF ForeignEvidence
      <4>2. QED
        BY <2>1, <3>1, <4>1 DEF EvidenceKept, IsCurrent
    <3>2. CASE evidence \notin {None, ForeignEvidence}
      <4>1. PICK archive : /\ evidence = Evidence(PlatformOf(leg), archive, FALSE)
                           /\ Packages(leg, archive)
        BY <2>2, <3>2 DEF LegInv, PublishedInv
      <4>2. evidence.archive = archive /\ evidence.commit = "head"
        BY <4>1, EvidenceFields
      <4>3. QED
        BY <2>1, <3>2, <4>1, <4>2 DEF EvidenceKept, IsCurrent, PackagedHere, Finished
    <3>3. QED
      BY <3>1, <3>2
  <2>5. HandoffInv(item)
    BY <2>1, <2>3, <2>4, Systems DEF HandoffInv, IsHandoff
  <2>6. HandoffInv(item)'
    BY <1>1, <2>5, HandoffStays DEF LegsKept
  <2>7. case.event # "rehearsal" => \A a \in altered' : a.platform \in Platforms
    BY <1>1 DEF HandoffsInv
  <2>8. QED
    BY <1>1, <1>3, <2>1, <2>6, <2>7, StoreChanges DEF LegsKept
<1>4. QED
  BY <1>2, <1>3 DEF Upload

\* What becomes of a handoff that is altered: its platform stays.
AlteredTo(item, what, archive, new) ==
    /\ IsHandoff(new) /\ new.platform = item.platform
    /\ new.archive = IF what = "evidence" THEN item.archive ELSE archive
    /\ \/ what = "archive" /\ new.evidence = item.evidence
       \/ what = "evidence" /\ IsCurrent(new)
       \/ what = "rerun" /\ IsCurrent(new) /\ ~new.evidence.simulated
       \/ what = "old" /\ new.evidence.commit = "old" /\ ~new.evidence.simulated

LEMMA AlterIsKnown ==
    ASSUME NEW item, IsHandoff(item), NEW archive, NEW simulated, NEW what \in Alterations
    PROVE  AlteredTo(item, what, archive, Altered(item, what, archive, simulated))
<1> DEFINE new == Altered(item, what, archive, simulated)
<1>1. PICK evidence : evidence = Evidence(item.platform, archive, FALSE)
  OBVIOUS
<1>2. PICK mocked, old : /\ mocked = [evidence EXCEPT !.simulated = simulated]
                         /\ old = [evidence EXCEPT !.commit = "old"]
  OBVIOUS
<1>3. /\ evidence.commit = "head" /\ mocked.commit = "head" /\ old.commit = "old"
      /\ ~evidence.simulated /\ ~old.simulated
  BY <1>1, <1>2 DEF Evidence
<1>4. CASE what = "archive"
  <2>1. new = [item EXCEPT !.archive = archive]
    BY <1>4 DEF Altered
  <2>2. QED
    BY <1>4, <2>1 DEF IsHandoff, AlteredTo
<1>5. CASE what = "evidence"
  <2>1. new = [item EXCEPT !.evidence = mocked]
    BY <1>1, <1>2, <1>5 DEF Altered
  <2>2. QED
    BY <1>3, <1>5, <2>1 DEF IsHandoff, IsCurrent, AlteredTo
<1>6. CASE what = "rerun"
  <2>1. new = [item EXCEPT !.archive = archive, !.evidence = evidence]
    BY <1>1, <1>6 DEF Altered
  <2>2. QED
    BY <1>3, <1>6, <2>1 DEF IsHandoff, IsCurrent, AlteredTo
<1>7. CASE what = "old"
  <2>1. new = [item EXCEPT !.archive = archive, !.evidence = old]
    BY <1>1, <1>2, <1>7 DEF Altered
  <2>2. QED
    BY <1>3, <1>7, <2>1 DEF IsHandoff, AlteredTo
<1>8. QED
  BY <1>4, <1>5, <1>6, <1>7 DEF Alterations

\* What somebody alters is known to be altered.
LEMMA AlterKeepsHandoffs ==
    ASSUME LegsInv, HandoffsInv, Alter
    PROVE  HandoffsInv'
<1>1. UNCHANGED <<case, program, legs>> /\ Frozen /\ InputsKept
  BY DEF Alter, Frozen, Finished, InputsKept
<1>2. PICK name \in DOMAIN store, what \in Alterations :
          /\ \A a \in altered : a.platform # store[name].platform
          /\ \E archive, simulated :
                store' = [store EXCEPT ![name] = Altered(store[name], what, archive, simulated)]
          /\ altered' = altered \cup {[platform |-> store[name].platform, what |-> what]}
  BY DEF Alter
<1>3. PICK item : item = store[name]
  OBVIOUS
<1>4. PICK new :
          /\ \A n \in DOMAIN store' : store'[n] = new \/ (n \in DOMAIN store /\ store'[n] = store[n])
          /\ \E body : IsHandoff(item) => AlteredTo(item, what, body, new)
  <2>1. PICK archive, simulated, new :
            /\ store' = [store EXCEPT ![name] = new]
            /\ new = Altered(item, what, archive, simulated)
    BY <1>2, <1>3
  <2>2. \E body : IsHandoff(item) => AlteredTo(item, what, body, new)
    BY <2>1, AlterIsKnown
  <2>3. \A n \in DOMAIN store' : store'[n] = new \/ (n \in DOMAIN store /\ store'[n] = store[n])
    BY <2>1
  <2>4. QED
    BY <2>2, <2>3
<1>5. PICK a : /\ a = [platform |-> item.platform, what |-> what]
               /\ altered' = altered \cup {a}
  BY <1>2, <1>3
<1>6. /\ a.platform = item.platform /\ FromAnother(what, item.platform)'
      /\ altered \subseteq altered'
  BY <1>5 DEF FromAnother
<1>7. ASSUME case.event # "rehearsal"
      PROVE  HandoffInv(new)' /\ \A b \in altered' : b.platform \in Platforms
  <2>1. HandoffInv(item) /\ item.platform \in Platforms /\ IsHandoff(item)
    BY <1>2, <1>3, <1>7 DEF HandoffsInv, Handoffs, HandoffInv
  <2>2. PICK archive : AlteredTo(item, what, archive, new)
    BY <1>4, <2>1
  <2>3. ArchiveKept(item) /\ EvidenceKept(item) /\ IsCurrent(item)
    BY <1>2, <1>3, <2>1 DEF HandoffInv, FromAnother
  <2>4. ArchiveKept(item)' /\ EvidenceKept(item)'
    BY <1>1, <2>3, PackagedStays DEF ArchiveKept, EvidenceKept
  <2>5. \A b \in altered' : b.platform \in Platforms
    BY <1>5, <1>6, <1>7, <2>1 DEF HandoffsInv
  <2>6. a \in altered' /\ a.platform = new.platform
    BY <1>5, <1>6, <2>2 DEF AlteredTo
  <2>7. CASE what = "archive"
    <3>1. EvidenceKept(new)' /\ IsCurrent(new)
      BY <2>2, <2>3, <2>4, <2>7 DEF AlteredTo, EvidenceKept, IsCurrent
    <3>2. QED
      BY <2>1, <2>2, <2>5, <2>6, <3>1 DEF HandoffInv, AlteredTo, IsHandoff, IsCurrent
  <2>8. CASE what = "evidence"
    <3>1. ArchiveKept(new)' /\ IsCurrent(new)
      BY <2>2, <2>4, <2>8 DEF AlteredTo, ArchiveKept
    <3>2. QED
      BY <2>1, <2>2, <2>5, <2>6, <3>1 DEF HandoffInv, AlteredTo, IsHandoff, IsCurrent
  <2>9. CASE what \in {"rerun", "old"}
    BY <1>6, <2>1, <2>2, <2>5, <2>9 DEF HandoffInv, AlteredTo, IsHandoff, IsCurrent, FromAnother
  <2>10. QED
    BY <1>2, <2>7, <2>8, <2>9 DEF Alterations
<1>8. QED
  BY <1>1, <1>4, <1>6, <1>7, StoreChanges

\* Every step keeps what is said of the handoffs.
LEMMA StepKeepsHandoffs ==
    ASSUME LegsInv, HandoffsInv, [Next]_vars
    PROVE  /\ HandoffsInv' /\ Frozen /\ altered \subseteq altered'
           /\ UNCHANGED <<case, program>>
<1>1. Frozen
  BY StepKeepsLegs DEF LegsKept
<1>2. CASE Validate \/ Drift \/ UNCHANGED vars
  <2>1. UNCHANGED <<case, program, legs, store, altered>>
    BY <1>2 DEF Validate, Drift, vars
  <2>2. QED
    BY <1>1, <2>1, UnalteredHandoffs
<1>3. CASE Alter
  BY <1>1, <1>3, AlterKeepsHandoffs DEF Alter
<1>4. ASSUME NEW leg \in DOMAIN legs, LegStep(leg) \/ Meddle(leg)
      PROVE  HandoffsInv' /\ altered' = altered /\ UNCHANGED <<case, program>>
  <2>1. UNCHANGED <<case, program, altered>>
    BY <1>4 DEF LegStep, Skip, Run, Package, Publish, PublishEvidence, CheckRollback,
                DeleteArchive, Upload, Mock, Download, Aggregate, Meddle
  <2>2. CASE Skip(leg) \/ Run(leg) \/ Package(leg) \/ Publish(leg) \/ PublishEvidence(leg)
             \/ CheckRollback(leg) \/ DeleteArchive(leg) \/ Aggregate(leg) \/ Meddle(leg)
    <3>1. UNCHANGED store
      BY <2>2 DEF Skip, Run, Package, Publish, PublishEvidence, CheckRollback, DeleteArchive,
                  Aggregate, Meddle
    <3>2. InputsKept
      BY <2>2, OtherSteps, PackageStep, PublishStep, PublishEvidenceStep,
         CheckRollbackStep, DeleteArchiveStep, MeddleStep
    <3>3. QED
      BY <1>1, <2>1, <3>1, <3>2, UnalteredHandoffs DEF InputsKept
  <2>3. CASE Upload(leg)
    BY <2>1, <2>3, UploadKeepsHandoffs
  <2>4. CASE Mock(leg)
    BY <2>1, <2>4 DEF Mock, HandoffsInv
  <2>5. CASE Download(leg)
    <3>1. UNCHANGED store
      BY <2>5 DEF Download
    <3>2. QED
      BY <1>1, <2>1, <2>5, <3>1, DownloadStep, UnalteredHandoffs
  <2>6. QED
    BY <1>4, <2>1, <2>2, <2>3, <2>4, <2>5 DEF LegStep
<1>5. CASE \E leg \in DOMAIN legs : LegStep(leg) \/ Meddle(leg)
  BY <1>1, <1>4, <1>5
<1>6. QED
  BY <1>1, <1>2, <1>3, <1>5 DEF Next, Validate, Drift, vars

\* What an aggregate accepts was packaged here, or is from another run.
LEMMA AcceptedWasPackaged ==
    ASSUME HandoffsInv, case.event # "rehearsal", NEW leg \in DOMAIN legs, NEW allow,
           AggregateAccepts(legs[leg].input, allow), NEW i \in legs[leg].input
    PROVE  PackagedHere(i.platform, i.archive) \/ FromElsewhere(i.platform)
<1> DEFINE input == legs[leg].input
<1>1. \A j \in input : HandoffInv(j)
  BY DEF HandoffsInv, Handoffs
<1>2. /\ {j.platform : j \in input} = Platforms
      /\ \A j, k \in input : j.evidence.commit = k.evidence.commit
      /\ \A j \in input :
            /\ j.archive # None /\ j.evidence # None /\ j.evidence.archive = j.archive
            /\ \E simulated \in BOOLEAN : ValidateArchive(j.archive, j.platform, simulated).ok
  BY DEF AggregateAccepts
<1>3. CASE \E j \in input : j.evidence.commit = "old"
  <2>1. \A j \in input : j.evidence.commit = "old"
    BY <1>2, <1>3
  <2>2. \A j \in input : FromAnother("old", j.platform)
    BY <1>1, <1>2, <2>1 DEF HandoffInv, IsCurrent
  <2>3. \A q \in Platforms : FromAnother("old", q)
    BY <1>2, <2>2
  <2>4. QED
    BY <2>3 DEF FromElsewhere
<1>4. CASE i.evidence.commit # "old" /\ ~FromAnother("rerun", i.platform)
  <2>1. ArchiveKept(i) \/ EvidenceKept(i)
    BY <1>1, <1>4 DEF HandoffInv
  <2>2. i.archive # Foreign
    BY <1>2, ForeignIsNoRelease
  <2>3. i.evidence # ForeignEvidence
    <3>1. ForeignEvidence.archive = Foreign
      BY EvidenceFields DEF ForeignEvidence
    <3>2. QED
      BY <1>2, <2>2, <3>1
  <2>4. QED
    BY <1>2, <2>1, <2>2, <2>3 DEF ArchiveKept, EvidenceKept
<1>5. QED
  BY <1>3, <1>4 DEF FromElsewhere

\* What is from another run remains so.
LEMMA ElsewhereStays ==
    ASSUME altered \subseteq altered', NEW p, FromElsewhere(p)
    PROVE  FromElsewhere(p)'
BY DEF FromElsewhere, FromAnother

\* Every step keeps what is said of the release.
LEMMA StepKeepsReleased ==
    ASSUME LegsInv, HandoffsInv, ReleasedWasPackaged, [Next]_vars
    PROVE  ReleasedWasPackaged'
<1>1. /\ HandoffsInv' /\ Frozen /\ altered \subseteq altered' /\ UNCHANGED <<case, program>>
  BY StepKeepsHandoffs
<1>2. SUFFICES ASSUME case.event # "rehearsal", released' # None,
                      NEW p \in Platforms, NEW archive, archive = released'[p]
               PROVE  PackagedHere(p, archive)' \/ FromElsewhere(p)'
  BY <1>1 DEF ReleasedWasPackaged, PackagedHere, Packages, Finished
<1>3. SUFFICES PackagedHere(p, archive) \/ FromElsewhere(p)
  BY <1>1, PackagedStays, ElsewhereStays
<1>4. CASE UNCHANGED released
  BY <1>2, <1>4 DEF ReleasedWasPackaged, PackagedHere, Packages
<1>5. ASSUME NEW leg \in DOMAIN legs, Aggregate(leg), ~UNCHANGED released
      PROVE  PackagedHere(p, archive) \/ FromElsewhere(p)
  <2> DEFINE input == legs[leg].input
             i == CHOOSE i \in input : i.platform = p
  <2>1. /\ \E allow : AggregateAccepts(input, allow)
        /\ archive = i.archive
    BY <1>2, <1>5 DEF Aggregate
  <2>2. i \in input /\ i.platform = p
    BY <1>2, <2>1 DEF AggregateAccepts
  <2>3. \A j \in input : PackagedHere(j.platform, j.archive) \/ FromElsewhere(j.platform)
    BY <1>2, <2>1, AcceptedWasPackaged
  <2> HIDE DEF i
  <2>4. QED
    BY <2>1, <2>2, <2>3
<1>6. UNCHANGED released \/ \E leg \in DOMAIN legs : Aggregate(leg)
  BY DEF Next, vars, Validate, Drift, Alter, LegStep, Skip, Run, Package, Publish,
         PublishEvidence, CheckRollback, DeleteArchive, Upload, Mock, Download, Meddle
<1>7. QED
  BY <1>4, <1>5, <1>6

-----------------------------------------------------------------------------
(* Credentials.                                                            *)

\* A runner has the permissions of a job of its document.
LEMMA NoAuthority ==
    ASSUME AuthorityInv, NEW leg \in DOMAIN legs, Ready(leg)
    PROVE  "write" \notin {Document.permissions, JobOf(leg).permissions}
<1>1. CASE case.event = "push"
  <2>1. leg # Aggregator
    BY <1>1, CasesAssumption DEF AuthorityInv
  <2>2. /\ Document = case.repo.ci /\ MatrixJob = "spike"
    BY <1>1 DEF Document, DocumentOf, MatrixJob, MatrixJobOf
  <2>3. /\ AssertPermissions(case.repo.ci) /\ DOMAIN case.repo.ci.jobs = {"spike"}
    BY <1>1 DEF AuthorityInv, Ready, ValidateWorkflows, ValidateCi
  <2>4. JobOf(leg) = case.repo.ci.jobs["spike"]
    BY <2>1, <2>2 DEF JobOf
  <2>5. QED
    BY <2>2, <2>3, <2>4 DEF AssertPermissions, NoAction
<1>2. CASE case.event = "dispatch"
  <2>1. /\ Document = case.repo.release /\ MatrixJob = "package"
    BY <1>2 DEF Document, DocumentOf, MatrixJob, MatrixJobOf
  <2>2. /\ AssertPermissions(case.repo.release)
        /\ DOMAIN case.repo.release.jobs = {"package", "aggregate"}
    BY <1>2 DEF AuthorityInv, Ready, ValidateWorkflows, ValidateRelease
  <2>3. \E job \in {"package", "aggregate"} : JobOf(leg) = case.repo.release.jobs[job]
    BY <2>1 DEF JobOf
  <2>4. QED
    BY <2>1, <2>2, <2>3 DEF AssertPermissions, NoAction
<1>3. CASE case.event \notin {"push", "dispatch"}
  <2>1. /\ Document = Rehearsal(case.platform) /\ MatrixJob = "package"
    BY <1>3 DEF Document, DocumentOf, MatrixJob, MatrixJobOf
  <2>2. \E job \in {"package", "aggregate"} : JobOf(leg) = Rehearsal(case.platform).jobs[job]
    BY <2>1 DEF JobOf
  <2>3. Rehearsal(case.platform).permissions = "read"
    BY DEF Rehearsal
  <2>4. \A job \in {"package", "aggregate"} :
            Rehearsal(case.platform).jobs[job].permissions = NoAction
    BY DEF Rehearsal
  <2>5. QED
    BY <2>1, <2>2, <2>3, <2>4 DEF NoAction
<1>4. QED
  BY <1>1, <1>2, <1>3

\* Every step keeps what is said of credentials.
LEMMA StepKeepsAuthority ==
    ASSUME LegsInv, AuthorityInv, [Next]_vars
    PROVE  AuthorityInv'
<1>1. DOMAIN legs' = DOMAIN legs
  BY StepKeepsLegs DEF LegsKept, Frozen
<1>2. UNCHANGED case
  BY DEF Next, vars, Validate, Drift, Alter, LegStep, Skip, Run, Package, Publish,
         PublishEvidence, CheckRollback, DeleteArchive, Upload, Mock, Download, Aggregate, Meddle
<1>3. \/ accepted' = accepted
      \/ accepted' = "accepted" =>
            ValidateWorkflows(case.repo) /\ ValidateQuickstart(case.repo.docs)
  BY DEF Next, vars, Validate, Drift, Alter, LegStep, Skip, Run, Package, Publish,
         PublishEvidence, CheckRollback, DeleteArchive, Upload, Mock, Download, Aggregate, Meddle
<1>4. ~published'
  <2>1. UNCHANGED published \/ \E leg \in DOMAIN legs : Run(leg)
    BY DEF Next, vars, Validate, Drift, Alter, LegStep, Skip, Package, Publish,
           PublishEvidence, CheckRollback, DeleteArchive, Upload, Mock, Download, Aggregate, Meddle
  <2>2. ASSUME NEW leg \in DOMAIN legs, Run(leg) PROVE ~published'
    BY <2>2, NoAuthority DEF Run, AuthorityInv
  <2>3. QED
    BY <2>1, <2>2 DEF AuthorityInv
<1>5. Runners(case)' = Runners(case)
  BY <1>2
<1>6. QED
  BY <1>1, <1>2, <1>3, <1>4, <1>5 DEF AuthorityInv

-----------------------------------------------------------------------------
(* Theorems.                                                               *)

LEMMA InitPipeline == Init => PipelineInv
<1> SUFFICES ASSUME Init PROVE PipelineInv
  OBVIOUS
<1>1. \A leg \in DOMAIN legs : legs[leg].input = {}
  BY DEF Init, NewLeg
<1>2. Handoffs = {}
  BY <1>1 DEF Init, Handoffs
<1>3. HandoffsInv /\ ReleasedWasPackaged
  BY <1>2 DEF Init, HandoffsInv, ReleasedWasPackaged
<1>4. AuthorityInv
  BY NoneAssumption DEF Init, AuthorityInv
<1>5. QED
  BY <1>3, <1>4, InitLegs DEF PipelineInv

\* The invariant of packaging, of what is handed over, altered and released,
\* and of what runners may do.
THEOREM PipelineInvariant == Spec => []PipelineInv
<1>1. PipelineInv /\ [Next]_vars => PipelineInv'
  BY StepKeepsLegs, StepKeepsHandoffs, StepKeepsReleased, StepKeepsAuthority
     DEF PipelineInv, LegsKept
<1>2. QED
  BY InitPipeline, <1>1, PTL DEF Spec

\* Whatever fails, is meddled with or altered in the store, a released archive
\* is one that a runner of this run packaged and validated, with the files its
\* smoke tests ran in, unless its handoff is that of another run of the same
\* commit, or both are of runs of one other commit: the aggregate compares the
\* commits of the two handoffs only with each other
\* (create-release-aggregate.ps1 428-506).
THEOREM ReleasesWerePackaged == Spec => []ReleasedWasPackaged
BY PipelineInvariant, PTL DEF PipelineInv

\* Nothing is published elsewhere by what the validator accepts, a command it
\* does not know included (validate_workflows.py 120-167).
THEOREM NothingIsPublished == Spec => []~published
BY PipelineInvariant, PTL DEF PipelineInv, AuthorityInv

-----------------------------------------------------------------------------
(* Numbers.                                                                *)

Lt == {ss \in Nat \X Nat : ss[1] < ss[2]}

\* A set of numbers has a least one.
LEMMA LeastNumber ==
  ASSUME NEW S, S \subseteq Nat, S # {}
  PROVE  \E x \in S : \A y \in S : x <= y
<1>1. OpToRel(<, Nat) = Lt
  BY DEF OpToRel, Lt
<1>2. \E x \in S : \A y \in S : ~ (<<y, x>> \in Lt)
  BY <1>1, NatLessThanWellFounded, WFMin
<1>3. PICK x \in S : \A y \in S : ~ (<<y, x>> \in Lt)
  BY <1>2
<1>4. ASSUME NEW y \in S PROVE x <= y
  <2>1. x \in Nat /\ y \in Nat /\ (y < x => <<y, x>> \in Lt)
    BY DEF Lt
  <2> QED BY <1>3, <2>1
<1> QED BY <1>4

\* A set with 0 and with the successor of each of its numbers has all numbers.
LEMMA InductSet ==
  ASSUME NEW P, 0 \in P, \A n \in Nat : n \in P => n + 1 \in P
  PROVE  Nat \subseteq P
<1> SUFFICES ASSUME Nat \ P # {} PROVE FALSE
  OBVIOUS
<1>1. PICK x \in Nat \ P : \A y \in Nat \ P : x <= y
  <2> DEFINE S == Nat \ P
  <2>1. S \subseteq Nat /\ S # {} OBVIOUS
  <2> HIDE DEF S
  <2>2. \E x \in S : \A y \in S : x <= y BY <2>1, LeastNumber
  <2> QED BY <2>2 DEF S
<1>2. x # 0 /\ x - 1 \in Nat /\ (x - 1) + 1 = x /\ ~(x <= x - 1)
  BY <1>1
<1>3. x - 1 \in P
  BY <1>1, <1>2
<1> QED BY <1>1, <1>2, <1>3

-----------------------------------------------------------------------------
(* Texts and programs, which are concatenations.                           *)

\* What has been put together of the lists so far.
IsFlattening(g, lists, N) ==
    g = [n \in 1..N |-> IF n = 1 THEN lists[n] ELSE g[n - 1] \o lists[n]]

\* The function of these exists.
LEMMA FlatteningExists ==
  ASSUME NEW lists, NEW N \in Nat
  PROVE  \E g : IsFlattening(g, lists, N)
<1> DEFINE P == {N2 \in Nat : \E g : g = [n \in 1..N2 |->
                     IF n = 1 THEN lists[n] ELSE g[n - 1] \o lists[n]]}
<1>1. 0 \in P
  <2> DEFINE g == [n \in 1..0 |-> lists]
  <2>1. g = [n \in 1..0 |-> IF n = 1 THEN lists[n] ELSE g[n - 1] \o lists[n]]
    OBVIOUS
  <2> HIDE DEF g
  <2>2. \E k : k = [n \in 1..0 |-> IF n = 1 THEN lists[n] ELSE k[n - 1] \o lists[n]]
    BY <2>1
  <2> QED BY <2>2, Zenon
<1>2. ASSUME NEW m \in Nat, m \in P PROVE m + 1 \in P
  <2>1. PICK g : g = [n \in 1..m |-> IF n = 1 THEN lists[n] ELSE g[n - 1] \o lists[n]]
    BY <1>2
  <2> DEFINE h == [n \in 1..(m + 1) |->
                     IF n \in 1..m THEN g[n]
                     ELSE IF n = 1 THEN lists[n] ELSE g[n - 1] \o lists[n]]
  <2>2. h = [n \in 1..(m + 1) |-> IF n = 1 THEN lists[n] ELSE h[n - 1] \o lists[n]]
    <3> SUFFICES ASSUME NEW n \in 1..(m + 1)
                 PROVE  h[n] = IF n = 1 THEN lists[n] ELSE h[n - 1] \o lists[n]
      BY Zenon
    <3>1. CASE n \in 1..m
      <4>1. h[n] = g[n] BY <3>1
      <4>2. g[n] = IF n = 1 THEN lists[n] ELSE g[n - 1] \o lists[n] BY <2>1, <3>1
      <4>3. n # 1 => n - 1 \in 1..m /\ n - 1 \in 1..(m + 1) BY <3>1
      <4>4. n # 1 => h[n - 1] = g[n - 1] BY <4>3
      <4> QED BY <4>1, <4>2, <4>4
    <3>2. CASE n \notin 1..m
      <4>1. n # 1 => n - 1 \in 1..m /\ n - 1 \in 1..(m + 1) BY <3>2
      <4>2. n # 1 => h[n - 1] = g[n - 1] BY <4>1
      <4>3. h[n] = IF n = 1 THEN lists[n] ELSE g[n - 1] \o lists[n] BY <3>2
      <4> QED BY <4>2, <4>3
    <3> QED BY <3>1, <3>2
  <2> HIDE DEF h
  <2>3. \E k : k = [n \in 1..(m + 1) |-> IF n = 1 THEN lists[n] ELSE k[n - 1] \o lists[n]]
    BY <2>2
  <2>4. m + 1 \in Nat OBVIOUS
  <2> QED BY <2>3, <2>4, Zenon
<1> HIDE DEF P
<1>3. N \in P BY <1>1, <1>2, InductSet
<1> QED BY <1>3, Zenon DEF P, IsFlattening

IsConcat(r, s, t) ==
    /\ Len(r) = Len(s) + Len(t) /\ Len(s) \in Nat /\ Len(t) \in Nat
    /\ \A k \in 1..Len(s) : r[k] = s[k]
    /\ \A j \in 1..Len(t) : r[Len(s) + j] = t[j]

\* Concatenation is what IsConcat says.
LEMMA ConcatFacts ==
  ASSUME NEW S, NEW s \in Seq(S), NEW t \in Seq(S)
  PROVE  s \o t \in Seq(S) /\ IsConcat(s \o t, s, t)
<1>1. /\ s \o t \in Seq(S) /\ Len(s \o t) = Len(s) + Len(t)
      /\ Len(s) \in Nat /\ Len(t) \in Nat
  OBVIOUS
<1>2. \A k \in 1..Len(s) : (s \o t)[k] = s[k]
  OBVIOUS
<1>3. ASSUME NEW j \in 1..Len(t) PROVE (s \o t)[Len(s) + j] = t[j]
  <2>1. Len(s) + j \in 1..(Len(s) + Len(t)) /\ ~(Len(s) + j <= Len(s)) /\ Len(s) + j - Len(s) = j
    BY <1>1
  <2> QED BY <1>1, <2>1
<1> QED BY <1>1, <1>2, <1>3 DEF IsConcat

\* The length and the members of a list.
LEMMA ListFacts ==
  ASSUME NEW s, IsList(s)
  PROVE  /\ Len(s) \in Nat /\ DOMAIN s = 1..Len(s)
         /\ \A n \in 1..Len(s) : s[n] \in ToSet(s)
         /\ \A x \in ToSet(s) : \E n \in 1..Len(s) : x = s[n]
<1>1. Len(s) \in Nat /\ DOMAIN s = 1..Len(s)
  <2> DEFINE S == ToSet(s)
  <2>1. s \in Seq(S) BY DEF IsList
  <2> HIDE DEF S
  <2> QED BY <2>1
<1> QED BY <1>1 DEF ToSet

\* The lists put together step by step.
LEMMA FlatteningSteps ==
  ASSUME NEW lists, NEW N \in Nat, N # 0, Len(lists) = N
  PROVE  \E h : /\ h[1] = lists[1] /\ h[N] = FlattenSeq(lists)
                /\ \A n \in 1..N : n # 1 => h[n] = h[n - 1] \o lists[n]
<1> DEFINE f == CHOOSE g : g = [n \in 1..N |-> IF n = 1 THEN lists[n] ELSE g[n - 1] \o lists[n]]
<1>1. f = [n \in 1..N |-> IF n = 1 THEN lists[n] ELSE f[n - 1] \o lists[n]]
  <2>1. PICK g : IsFlattening(g, lists, N)
    BY FlatteningExists
  <2>2. g = [n \in 1..N |-> IF n = 1 THEN lists[n] ELSE g[n - 1] \o lists[n]]
    BY <2>1, Zenon DEF IsFlattening
  <2> QED BY <2>2, Zenon
<1>2. FlattenSeq(lists) = f[N]
  BY DEF FlattenSeq
<1> HIDE DEF f
<1>3. 1 \in 1..N /\ N \in 1..N
  OBVIOUS
<1>4. f[1] = lists[1]
  BY <1>1, <1>3
<1>5. \A n \in 1..N : n # 1 => f[n] = f[n - 1] \o lists[n]
  BY <1>1
<1> QED BY <1>2, <1>4, <1>5

\* o says where each of the lists begins in the text.
IsOffsets(o, lists, text) ==
    /\ o[0] = 0 /\ Len(text) = o[Len(lists)]
    /\ \A n \in 0..Len(lists) : o[n] \in Nat
    /\ \A n \in 1..Len(lists) : o[n] = o[n - 1] + Len(lists[n])
    /\ \A m, n \in 0..Len(lists) : m <= n => o[m] <= o[n]
    /\ \A n \in 1..Len(lists) : \A j \in 1..Len(lists[n]) :
          o[n - 1] + j \in 1..Len(text) /\ text[o[n - 1] + j] = lists[n][j]
    /\ \A k \in 1..Len(text) :
          \E n \in 1..Len(lists) : \E j \in 1..Len(lists[n]) : k = o[n - 1] + j

\* Lists put together are a list, and each of them is somewhere in it.
LEMMA Flattened ==
  ASSUME NEW lists, IsList(lists), \A n \in 1..Len(lists) : IsList(lists[n])
  PROVE  /\ IsList(FlattenSeq(lists))
         /\ \E o : IsOffsets(o, lists, FlattenSeq(lists))
<1> DEFINE N == Len(lists)
           S == UNION {ToSet(lists[n]) : n \in 1..N}
<1>1. N \in Nat /\ DOMAIN lists = 1..N
  BY ListFacts
<1>2. \A n \in 1..N : /\ lists[n] \in Seq(S) /\ Len(lists[n]) \in Nat
  <2> TAKE n \in 1..N
  <2>1. lists[n] \in Seq(ToSet(lists[n])) /\ ToSet(lists[n]) \subseteq S
    BY DEF IsList
  <2> DEFINE T == ToSet(lists[n])
  <2> HIDE DEF T, S
  <2> QED BY <2>1, ListFacts DEF T
<1>3. CASE N = 0
  <2>1. FlattenSeq(lists) = lists
    BY <1>3 DEF FlattenSeq
  <2> DEFINE o == [n \in 0..0 |-> 0]
  <2>2. IsOffsets(o, lists, lists)
    BY <1>3 DEF IsOffsets
  <2> QED BY <2>1, <2>2
<1>4. CASE N # 0
  <2>1. PICK h : /\ h[1] = lists[1] /\ h[N] = FlattenSeq(lists)
                 /\ \A n \in 1..N : n # 1 => h[n] = h[n - 1] \o lists[n]
    BY <1>1, <1>4, FlatteningSteps
  <2> DEFINE o == [n \in 0..N |-> IF n = 0 THEN 0 ELSE Len(h[n])]
             Good(n) == /\ h[n] \in Seq(S)
                        /\ o[n] = Len(h[n]) /\ o[n - 1] \in Nat
                        /\ o[n] = o[n - 1] + Len(lists[n])
                        /\ \A m \in 0..n : o[m] \in Nat /\ o[m] <= o[n]
                        /\ \A m \in 1..n : \A j \in 1..Len(lists[m]) :
                              /\ o[m - 1] + j \in 1..Len(h[n])
                              /\ h[n][o[m - 1] + j] = lists[m][j]
                        /\ \A k \in 1..Len(h[n]) :
                              \E m \in 1..n : \E j \in 1..Len(lists[m]) : k = o[m - 1] + j
             P == {n \in Nat : n + 1 \in 1..N => Good(n + 1)}
  <2> HIDE DEF S, N
  <2>2. 0 \in P
    <3>1. 1 \in 1..N /\ o[0] = 0 /\ o[1] = Len(h[1]) /\ 1 - 1 = 0
      BY <1>1, <1>4
    <3> HIDE DEF o
    <3>2. h[1] \in Seq(S) /\ Len(h[1]) \in Nat /\ h[1] = lists[1]
      BY <1>2, <2>1, <3>1
    <3>3. \A m \in 0..1 : m = 0 \/ m = 1 OBVIOUS
    <3>4. \A m \in 1..1 : m = 1 OBVIOUS
    <3>5. \A k \in 1..Len(h[1]) : k = o[1 - 1] + k BY <3>1, <3>2
    <3>6. Good(1) BY <3>1, <3>2, <3>3, <3>4, <3>5
    <3> HIDE DEF Good
    <3> QED BY <3>6
  <2>a. ASSUME NEW n \in Nat, n \in 1..N, n + 1 \in 1..N, Good(n) PROVE Good(n + 1)
    <3>1. /\ n + 1 # 1 /\ (n + 1) - 1 = n /\ n \in 0..N /\ n + 1 \in 0..N /\ n # 0
      BY <1>1, <2>a
    <3>a. h[n] \in Seq(S) /\ o[n] = Len(h[n])
      BY <2>a
    <3>b. \A m \in 0..n : o[m] \in Nat /\ o[m] <= o[n]
      BY <2>a
    <3>c. \A m \in 1..n : \A j \in 1..Len(lists[m]) :
                /\ o[m - 1] + j \in 1..Len(h[n])
                /\ h[n][o[m - 1] + j] = lists[m][j]
      BY <2>a
    <3>d. \A k \in 1..Len(h[n]) :
                \E m \in 1..n : \E j \in 1..Len(lists[m]) : k = o[m - 1] + j
      BY <2>a
    <3>3. h[n + 1] = h[n] \o lists[n + 1] BY <2>1, <2>a, <3>1
    <3>4. o[n + 1] = Len(h[n + 1]) BY <3>1
    <3> HIDE DEF o
    <3>5. lists[n + 1] \in Seq(S) BY <1>2, <2>a
    <3>f. Len(lists[n + 1]) \in Nat BY <1>2, <2>a
    <3>6. h[n + 1] \in Seq(S) /\ IsConcat(h[n + 1], h[n], lists[n + 1])
      BY <3>a, <3>3, <3>5, ConcatFacts
    <3>g. Len(h[n + 1]) = Len(h[n]) + Len(lists[n + 1]) /\ Len(h[n]) \in Nat
      BY <3>6, Zenon DEF IsConcat
    <3>e. /\ \A k \in 1..Len(h[n]) : h[n + 1][k] = h[n][k]
          /\ \A j \in 1..Len(lists[n + 1]) : h[n + 1][Len(h[n]) + j] = lists[n + 1][j]
      BY <3>6, Zenon DEF IsConcat
    <3> DEFINE old == Len(h[n])
               all == Len(h[n + 1])
               more == Len(lists[n + 1])
    <3>h. old \in Nat /\ more \in Nat /\ all = old + more /\ o[n] = old /\ o[n + 1] = all
      BY <3>4, <3>a, <3>f, <3>g
    <3>i. \A k \in 1..old : h[n + 1][k] = h[n][k]
      BY <3>e
    <3>j. \A j \in 1..more : h[n + 1][old + j] = lists[n + 1][j]
      BY <3>e
    <3>k. \A m \in 1..n : \A j \in 1..Len(lists[m]) :
                o[m - 1] + j \in 1..old /\ h[n][o[m - 1] + j] = lists[m][j]
      BY <3>c
    <3>l. \A k \in 1..old : \E m \in 1..n : \E j \in 1..Len(lists[m]) : k = o[m - 1] + j
      BY <3>d
    <3>m. \A j : j \in 1..Len(lists[n + 1]) <=> j \in 1..more
      OBVIOUS
    <3> HIDE DEF old, all, more
    <3>7. o[n + 1] = o[n] + more /\ o[n] \in Nat BY <3>h
    <3>8. \A m \in 0..(n + 1) : o[m] \in Nat /\ o[m] <= o[n + 1]
      <4> TAKE m \in 0..(n + 1)
      <4>1. m \in 0..n \/ m = n + 1 BY <2>a
      <4>2. o[n + 1] \in Nat /\ o[n] <= o[n + 1] BY <3>h
      <4> QED BY <3>b, <4>1, <4>2
    <3>9. \A m \in 1..(n + 1) : \A j \in 1..Len(lists[m]) :
              /\ o[m - 1] + j \in 1..all
              /\ h[n + 1][o[m - 1] + j] = lists[m][j]
      <4> TAKE m \in 1..(n + 1)
      <4> TAKE j \in 1..Len(lists[m])
      <4>1. CASE m \in 1..n
        <5>1. o[m - 1] + j \in 1..old /\ h[n][o[m - 1] + j] = lists[m][j]
          BY <3>k, <4>1
        <5>2. o[m - 1] + j \in 1..all BY <3>h, <5>1
        <5>3. h[n + 1][o[m - 1] + j] = h[n][o[m - 1] + j] BY <3>i, <5>1
        <5> QED BY <5>1, <5>2, <5>3
      <4>2. CASE m = n + 1
        <5>1. o[m - 1] = old /\ j \in 1..more BY <3>1, <3>h, <3>m, <4>2
        <5>2. old + j \in 1..all BY <3>h, <5>1
        <5>3. h[n + 1][old + j] = lists[n + 1][j] BY <3>j, <5>1
        <5> QED BY <4>2, <5>1, <5>2, <5>3
      <4> QED BY <3>1, <4>1, <4>2
    <3>10. \A k \in 1..all :
              \E m \in 1..(n + 1) : \E j \in 1..Len(lists[m]) : k = o[m - 1] + j
      <4> TAKE k \in 1..all
      <4>1. CASE k \in 1..old
        <5>1. PICK m \in 1..n : \E j \in 1..Len(lists[m]) : k = o[m - 1] + j BY <3>l, <4>1
        <5>2. m \in 1..(n + 1) BY <3>1
        <5> QED BY <5>1, <5>2
      <4>2. CASE k \notin 1..old
        <5>1. k - old \in 1..more BY <3>h, <4>2
        <5>2. k = o[(n + 1) - 1] + (k - old) BY <3>1, <3>h
        <5>3. n + 1 \in 1..(n + 1) BY <3>1
        <5> QED BY <3>m, <5>1, <5>2, <5>3
      <4> QED BY <4>1, <4>2
    <3> QED BY <3>1, <3>4, <3>6, <3>7, <3>8, <3>9, <3>10 DEF all, more
  <2>3. ASSUME NEW i \in Nat, i \in P PROVE i + 1 \in P
    <3> HIDE DEF Good
    <3> SUFFICES ASSUME (i + 1) + 1 \in 1..N PROVE Good((i + 1) + 1)
      OBVIOUS
    <3>1. i + 1 \in Nat /\ i + 1 \in 1..N
      BY <1>1
    <3>2. Good(i + 1)
      BY <2>3, <3>1
    <3> QED BY <2>a, <3>1, <3>2
  <2> HIDE DEF P
  <2>4. N - 1 \in Nat /\ (N - 1) + 1 = N /\ \A n \in 1..N : n - 1 \in Nat /\ (n - 1) + 1 = n
    BY <1>1, <1>4
  <2>5. \A n \in Nat : n \in P BY <2>2, <2>3, InductSet
  <2>6. \A n \in 1..N : Good(n)
    <3> HIDE DEF Good
    <3> TAKE n \in 1..N
    <3>1. n - 1 \in P BY <2>4, <2>5
    <3>2. (n - 1) + 1 \in 1..N => Good((n - 1) + 1) BY <3>1, Zenon DEF P
    <3> QED BY <2>4, <3>2
  <2>7. o[0] = 0 BY <1>1
  <2> HIDE DEF o
  <2>8. IsOffsets(o, lists, h[N])
    <3>1. N \in 1..N BY <1>1, <1>4
    <3>2. \A m, n \in 0..N : m <= n => o[m] <= o[n]
      <4> TAKE m, n \in 0..N
      <4> SUFFICES ASSUME m <= n PROVE o[m] <= o[n] OBVIOUS
      <4>1. CASE n = 0 
        <5>1. m = 0 BY <4>1
        <5> QED BY <2>7, <4>1, <5>1
      <4>2. CASE n # 0
        <5>1. n \in 1..N /\ m \in 0..n BY <1>1, <4>2
        <5> QED BY <2>6, <5>1
      <4> QED BY <4>1, <4>2
    <3>3. \A n \in 0..N : o[n] \in Nat BY <2>6, <3>1
    <3>4. \A n \in 1..N : o[n] = o[n - 1] + Len(lists[n]) BY <2>6
    <3>5. Good(N) BY <2>6, <3>1
    <3> QED BY <2>7, <3>2, <3>3, <3>4, <3>5 DEF IsOffsets, N
  <2>9. h[N] \in Seq(S) /\ \A k \in 1..Len(h[N]) : h[N][k] \in S
    <3>1. N \in 1..N BY <1>1, <1>4
    <3>2. h[N] \in Seq(S) BY <2>6, <3>1
    <3> QED BY <3>2
  <2>10. IsList(h[N])
    <3> DEFINE t == h[N]
    <3> HIDE DEF t
    <3>1. t \in Seq(S) BY <2>9 DEF t
    <3>2. DOMAIN t = 1..Len(t) /\ Len(t) \in Nat /\ t = [k \in 1..Len(t) |-> t[k]] BY <3>1
    <3>3. \A k \in 1..Len(t) : t[k] \in ToSet(t) BY <3>2 DEF ToSet
    <3> DEFINE T == ToSet(t)
    <3> HIDE DEF T
    <3>4. t \in Seq(T) BY <3>2, <3>3 DEF T
    <3> QED BY <3>4 DEF T, t, IsList
  <2> QED BY <2>1, <2>8, <2>10
<1> QED BY <1>3, <1>4

-----------------------------------------------------------------------------
(* The commands of a step.                                                 *)

\* The commands of a step, by what stands for them.
NewCommand(name, n, script) == [do |-> name, step |-> n, script |-> script]

MarkCommands(c, mark, n) ==
    IF mark = "verify-spike"
    THEN [k \in DOMAIN c.repo.spike |-> NewCommand(c.repo.spike[k], n, TRUE)]
    ELSE <<NewCommand(mark, n, FALSE)>>

\* StepCommands, with what stands for the commands of a mark.
LEMMA StepCommandsIs ==
    \A c, step, n :
        StepCommands(c, step, n) =
            IF step.uses # NoAction THEN <<NewCommand(step.uses, n, FALSE)>>
            ELSE FlattenSeq([k \in DOMAIN step.run |-> MarkCommands(c, step.run[k], n)])
BY DEF StepCommands, NewCommand, MarkCommands

\* A command n of a list was written by a step, or is one of a script, whose
\* other commands are around it.
IsWritten(c, step, command) ==
    /\ command.script = FALSE
    /\ \/ step.uses # NoAction /\ command.do = step.uses
       \/ /\ step.uses = NoAction
          /\ command.do \in ToSet(step.run) /\ command.do # "verify-spike"

InScript(c, commands, n) ==
    \E b \in Nat :
        /\ b < n /\ n <= b + Len(c.repo.spike) /\ b + Len(c.repo.spike) <= Len(commands)
        /\ \A j \in 1..Len(c.repo.spike) :
              /\ commands[b + j].do = c.repo.spike[j]
              /\ commands[b + j].script /\ commands[b + j].step = commands[n].step

\* A function on 1..N is a list.
LEMMA ListOf ==
  ASSUME NEW N \in Nat, NEW t, t = [k \in 1..N |-> t[k]]
  PROVE  IsList(t) /\ Len(t) = N
<1>1. DOMAIN t = 1..N
  OBVIOUS
<1>2. \A k \in 1..N : t[k] \in ToSet(t)
  BY <1>1 DEF ToSet
<1> DEFINE T == ToSet(t)
<1> HIDE DEF T
<1>3. t \in Seq(T) /\ Len(t) = N
  BY <1>2 DEF T
<1> QED BY <1>3 DEF T, IsList

\* A list of one.
LEMMA Single ==
    \A x : IsList(<<x>>) /\ Len(<<x>>) = 1 /\ <<x>>[1] = x /\ x \in ToSet(<<x>>)
<1> TAKE x
<1>1. Len(<<x>>) = 1 /\ <<x>>[1] = x /\ <<x>> \in Seq({x}) /\ DOMAIN <<x>> = 1..1
  OBVIOUS
<1>2. ToSet(<<x>>) = {x}
  BY <1>1 DEF ToSet
<1> QED BY <1>1, <1>2 DEF IsList

IsMarked(c, mark, n, list) ==
    /\ IsList(list)
    /\ mark = "verify-spike" =>
          /\ Len(list) = Len(c.repo.spike)
          /\ \A k \in 1..Len(list) : list[k] = NewCommand(c.repo.spike[k], n, TRUE)
    /\ mark # "verify-spike" => Len(list) = 1 /\ list[1] = NewCommand(mark, n, FALSE)

\* What stands for the commands of a mark is what IsMarked says.
LEMMA MarkFacts ==
  ASSUME NEW c, IsList(c.repo.spike), NEW mark, NEW n
  PROVE  IsMarked(c, mark, n, MarkCommands(c, mark, n))
<1>1. CASE mark = "verify-spike"
  <2> DEFINE f(k) == NewCommand(c.repo.spike[k], n, TRUE)
  <2>1. Len(c.repo.spike) \in Nat /\ DOMAIN c.repo.spike = 1..Len(c.repo.spike)
    BY ListFacts
  <2>2. MarkCommands(c, mark, n) = [k \in 1..Len(c.repo.spike) |-> f(k)]
    BY <1>1, <2>1 DEF MarkCommands
  <2> DEFINE N == Len(c.repo.spike)
             cs == [k \in 1..N |-> f(k)]
  <2> HIDE DEF N, f
  <2>3. N \in Nat BY <2>1 DEF N
  <2>4. IsList(cs) /\ Len(cs) = N
    <3>1. cs = [k \in 1..N |-> cs[k]] OBVIOUS
    <3> HIDE DEF cs
    <3> QED BY <2>3, <3>1, ListOf
  <2>5. \A k \in 1..N : cs[k] = f(k) OBVIOUS
  <2> HIDE DEF cs
  <2>6. MarkCommands(c, mark, n) = cs BY <2>2 DEF cs, N
  <2> QED BY <1>1, <2>4, <2>5, <2>6 DEF N, f, IsMarked
<1>2. CASE mark # "verify-spike"
  <2>1. MarkCommands(c, mark, n) = <<NewCommand(mark, n, FALSE)>> BY <1>2 DEF MarkCommands
  <2> QED BY <1>2, <2>1, Single DEF IsMarked
<1> QED BY <1>1, <1>2

\* A step's commands were each written by it, or are one of a script it runs.
LEMMA StepFacts ==
  ASSUME NEW c, IsList(c.repo.spike), NEW step, IsList(step.run), NEW n
  PROVE  LET cs == StepCommands(c, step, n)
         IN  /\ IsList(cs)
             /\ \A k \in 1..Len(cs) :
                   /\ cs[k].step = n /\ cs[k].script \in BOOLEAN
                   /\ ~cs[k].script => IsWritten(c, step, cs[k])
                   /\ cs[k].script => InScript(c, cs, k) /\ "verify-spike" \in ToSet(step.run)
<1>1. CASE step.uses # NoAction
  <2>1. StepCommands(c, step, n) = <<NewCommand(step.uses, n, FALSE)>>
    BY <1>1, StepCommandsIs
  <2>2. IsWritten(c, step, NewCommand(step.uses, n, FALSE))
    BY <1>1 DEF IsWritten, NewCommand
  <2>3. \A k \in 1..1 : k = 1 OBVIOUS
  <2> DEFINE x == NewCommand(step.uses, n, FALSE)
  <2>4. x.step = n /\ x.script = FALSE
    BY DEF NewCommand
  <2> HIDE DEF x
  <2>5. IsList(<<x>>) /\ Len(<<x>>) = 1 /\ <<x>>[1] = x
    BY Single
  <2>6. \A k \in 1..Len(<<x>>) : <<x>>[k] = x
    BY <2>3, <2>5
  <2>7. StepCommands(c, step, n) = <<x>> /\ IsWritten(c, step, x)
    BY <2>1, <2>2 DEF x
  <2> QED BY <2>4, <2>5, <2>6, <2>7
<1>2. CASE step.uses = NoAction
  <2> DEFINE N == Len(step.run)
             lists == [k \in 1..N |-> MarkCommands(c, step.run[k], n)]
             cs == FlattenSeq(lists)
  <2>1. N \in Nat /\ DOMAIN step.run = 1..N /\ \A k \in 1..N : step.run[k] \in ToSet(step.run)
    BY ListFacts
  <2>2. StepCommands(c, step, n) = cs
    BY <1>2, <2>1, StepCommandsIs
  <2>3. \A k \in 1..N : lists[k] = MarkCommands(c, step.run[k], n)
    OBVIOUS
  <2>4. IsList(lists) /\ Len(lists) = N
    <3>1. lists = [k \in 1..N |-> lists[k]] OBVIOUS
    <3> HIDE DEF lists, N
    <3> QED BY <2>1, <3>1, ListOf
  <2> HIDE DEF lists, cs, N
  <2>5. \A k \in 1..N : IsList(lists[k])
    <3> TAKE k \in 1..N
    <3>1. IsMarked(c, step.run[k], n, lists[k]) BY <2>3, MarkFacts
    <3> QED BY <3>1 DEF IsMarked
  <2>6. IsList(cs) /\ \E o : IsOffsets(o, lists, cs)
    BY <2>4, <2>5, Flattened DEF cs
  <2>7. PICK o : IsOffsets(o, lists, cs)
    BY <2>6
  <2>8. ASSUME NEW k \in 1..Len(cs)
        PROVE  /\ cs[k].step = n /\ cs[k].script \in BOOLEAN
               /\ ~cs[k].script => IsWritten(c, step, cs[k])
               /\ cs[k].script => InScript(c, cs, k) /\ "verify-spike" \in ToSet(step.run)
    <3>1. PICK m \in 1..N : \E j \in 1..Len(lists[m]) : k = o[m - 1] + j
      BY <2>4, <2>7 DEF IsOffsets
    <3>2. PICK j \in 1..Len(lists[m]) : k = o[m - 1] + j
      BY <3>1
    <3>3. cs[k] = lists[m][j]
      BY <2>4, <2>7, <3>2 DEF IsOffsets
    <3>a. IsMarked(c, step.run[m], n, lists[m])
      BY <2>3, MarkFacts
    <3>4. CASE step.run[m] # "verify-spike"
      <4>1. Len(lists[m]) = 1 /\ lists[m][1] = NewCommand(step.run[m], n, FALSE)
        BY <3>a, <3>4 DEF IsMarked
      <4>2. j = 1 BY <4>1
      <4>3. cs[k] = NewCommand(step.run[m], n, FALSE) BY <3>3, <4>1, <4>2
      <4> QED BY <1>2, <2>1, <3>4, <4>3 DEF IsWritten, NewCommand
    <3>5. CASE step.run[m] = "verify-spike"
      <4> DEFINE b == o[m - 1]
                 K == Len(c.repo.spike)
      <4>1. /\ Len(lists[m]) = K
            /\ \A i \in 1..K : lists[m][i] = NewCommand(c.repo.spike[i], n, TRUE)
        <5>1. /\ Len(lists[m]) = Len(c.repo.spike)
              /\ \A i \in 1..Len(lists[m]) : lists[m][i] = NewCommand(c.repo.spike[i], n, TRUE)
          BY <3>a, <3>5 DEF IsMarked
        <5> QED BY <5>1
      <4>2. K \in Nat BY ListFacts
      <4>3. \A i \in 1..K : b + i \in 1..Len(cs) /\ cs[b + i] = lists[m][i]
        BY <2>4, <2>7, <4>1 DEF IsOffsets
      <4>4. b \in Nat /\ m - 1 \in 0..N
        <5>1. m - 1 \in 0..N BY <2>1
        <5> QED BY <2>4, <2>7, <5>1 DEF IsOffsets
      <4>5. j \in 1..K /\ k = b + j BY <3>2, <4>1
      <4>6. cs[k] = NewCommand(c.repo.spike[j], n, TRUE) BY <3>3, <4>1, <4>5
      <4>7. K \in 1..K BY <4>2, <4>5
      <4>8. b + K \in 1..Len(cs) BY <4>3, <4>7
      <4>9. Len(cs) \in Nat BY <2>6, ListFacts
      <4> HIDE DEF b
      <4>10. b < k /\ k <= b + K /\ b + K <= Len(cs)
        <5> HIDE DEF K
        <5> QED BY <4>2, <4>4, <4>5, <4>8, <4>9
      <4>11. \A i \in 1..K : /\ cs[b + i].do = c.repo.spike[i] /\ cs[b + i].script
                              /\ cs[b + i].step = cs[k].step
        <5> TAKE i \in 1..K
        <5>1. cs[b + i] = NewCommand(c.repo.spike[i], n, TRUE) BY <4>1, <4>3
        <5> QED BY <4>6, <5>1 DEF NewCommand
      <4>12. InScript(c, cs, k)
        BY <4>4, <4>10, <4>11 DEF InScript
      <4> QED BY <2>1, <3>5, <4>6, <4>12 DEF NewCommand
    <3> QED BY <3>4, <3>5
  <2> QED BY <2>2, <2>6, <2>8
<1> QED BY <1>1, <1>2

-----------------------------------------------------------------------------
(* The program of a list of steps.                                         *)

StepsFor(c, leg) ==
    DocumentOf(c).jobs[IF leg = Aggregator THEN "aggregate" ELSE MatrixJobOf(c)].steps

AreSteps(c, steps) ==
    /\ IsList(c.repo.spike) /\ IsList(steps)
    /\ \A step \in ToSet(steps) : IsList(step.run) /\ (step.uses # NoAction => step.run = <<>>)

Lists(c, steps) == [n \in 1..Len(steps) |-> StepCommands(c, steps[n], n)]

\* The commands of the steps, step by step.
LEMMA ListsFacts ==
  ASSUME NEW c, NEW steps, AreSteps(c, steps)
  PROVE  /\ Len(steps) \in Nat /\ DOMAIN steps = 1..Len(steps)
         /\ \A n \in 1..Len(steps) : steps[n] \in ToSet(steps)
         /\ IsList(Lists(c, steps)) /\ Len(Lists(c, steps)) = Len(steps)
         /\ \A n \in 1..Len(steps) :
               /\ Lists(c, steps)[n] = StepCommands(c, steps[n], n)
               /\ IsList(Lists(c, steps)[n])
<1>1. /\ Len(steps) \in Nat /\ DOMAIN steps = 1..Len(steps)
      /\ \A n \in 1..Len(steps) : steps[n] \in ToSet(steps)
  BY ListFacts DEF AreSteps
<1>2. \A n \in 1..Len(steps) : Lists(c, steps)[n] = StepCommands(c, steps[n], n)
  BY DEF Lists
<1>3. IsList(Lists(c, steps)) /\ Len(Lists(c, steps)) = Len(steps)
  <2> DEFINE N == Len(steps)
             t == Lists(c, steps)
  <2>1. t = [n \in 1..N |-> t[n]] BY DEF Lists
  <2>2. N \in Nat BY <1>1
  <2> HIDE DEF N, t
  <2>3. IsList(t) /\ Len(t) = N BY <2>1, <2>2, ListOf
  <2> QED BY <2>3 DEF t, N
<1>4. \A n \in 1..Len(steps) : IsList(Lists(c, steps)[n])
  <2> TAKE n \in 1..Len(steps)
  <2>1. IsList(c.repo.spike) /\ IsList(steps[n].run) BY <1>1 DEF AreSteps
  <2> QED BY <1>2, <2>1, StepFacts
<1> QED BY <1>1, <1>2, <1>3, <1>4

\* What every command of a program is, and the steps are done one by one.
IsProgram(c, steps, P) ==
    /\ IsList(P)
    /\ \A n \in 1..Len(P) :
          /\ P[n].step \in 1..Len(steps) /\ P[n].script \in BOOLEAN
          /\ ~P[n].script => IsWritten(c, steps[P[n].step], P[n])
          /\ P[n].script => /\ InScript(c, P, n)
                            /\ "verify-spike" \in ToSet(steps[P[n].step].run)
    /\ \A m, n \in 1..Len(P) : m <= n => P[m].step <= P[n].step

\* The program of a list of steps is what IsProgram says.
LEMMA ProgramFacts ==
  ASSUME NEW c, NEW steps, AreSteps(c, steps)
  PROVE  /\ IsProgram(c, steps, FlattenSeq(Lists(c, steps)))
         /\ \E o : IsOffsets(o, Lists(c, steps), FlattenSeq(Lists(c, steps)))
<1> DEFINE lists == Lists(c, steps)
           P == FlattenSeq(lists)
           N == Len(steps)
<1>1. /\ N \in Nat /\ IsList(lists) /\ Len(lists) = N
      /\ \A n \in 1..N : lists[n] = StepCommands(c, steps[n], n) /\ IsList(lists[n])
      /\ \A n \in 1..N : steps[n] \in ToSet(steps)
  BY ListsFacts
<1> HIDE DEF lists, P, N
<1>2. IsList(P) /\ \E o : IsOffsets(o, lists, P)
  BY <1>1, Flattened DEF P
<1>3. PICK o : IsOffsets(o, lists, P)
  BY <1>2
<1>4. /\ Len(P) = o[N] /\ \A n \in 0..N : o[n] \in Nat
      /\ \A n \in 1..N : o[n] = o[n - 1] + Len(lists[n])
  BY <1>1, <1>3 DEF IsOffsets
<1>5. \A m, n \in 0..N : m <= n => o[m] <= o[n]
  BY <1>1, <1>3 DEF IsOffsets
<1>6. \A n \in 1..N : \A j \in 1..Len(lists[n]) :
          o[n - 1] + j \in 1..Len(P) /\ P[o[n - 1] + j] = lists[n][j]
  BY <1>1, <1>3 DEF IsOffsets
<1>7. \A k \in 1..Len(P) : \E n \in 1..N : \E j \in 1..Len(lists[n]) : k = o[n - 1] + j
  BY <1>1, <1>3 DEF IsOffsets
<1>8. \A n \in 1..N : \A j \in 1..Len(lists[n]) :
          /\ lists[n][j].step = n /\ lists[n][j].script \in BOOLEAN
          /\ ~lists[n][j].script => IsWritten(c, steps[n], lists[n][j])
          /\ lists[n][j].script => /\ InScript(c, lists[n], j)
                                   /\ "verify-spike" \in ToSet(steps[n].run)
  <2> TAKE n \in 1..N
  <2>1. IsList(c.repo.spike) /\ IsList(steps[n].run) BY <1>1 DEF AreSteps
  <2> QED BY <1>1, <2>1, StepFacts
<1>9. ASSUME NEW k \in 1..Len(P)
      PROVE  /\ P[k].step \in 1..N /\ P[k].script \in BOOLEAN
             /\ ~P[k].script => IsWritten(c, steps[P[k].step], P[k])
             /\ P[k].script => /\ InScript(c, P, k)
                               /\ "verify-spike" \in ToSet(steps[P[k].step].run)
             /\ o[P[k].step - 1] < k /\ k <= o[P[k].step]
  <2>1. PICK n \in 1..N : \E j \in 1..Len(lists[n]) : k = o[n - 1] + j BY <1>7
  <2>2. PICK j \in 1..Len(lists[n]) : k = o[n - 1] + j BY <2>1
  <2>3. P[k] = lists[n][j] BY <1>6, <2>2
  <2>4. P[k].step = n BY <1>8, <2>3
  <2> DEFINE L == Len(lists[n])
  <2>5. L \in Nat BY <1>1, ListFacts
  <2>6. n - 1 \in 0..N /\ n \in 0..N BY <1>1
  <2>7. o[n - 1] \in Nat /\ o[n] = o[n - 1] + L /\ j \in 1..L BY <1>4, <2>6
  <2>8. o[n - 1] < k /\ k <= o[n]
    <3> HIDE DEF L
    <3> QED BY <2>2, <2>5, <2>7
  <2>9. ASSUME P[k].script PROVE InScript(c, P, k)
    <3>1. InScript(c, lists[n], j) BY <1>8, <2>3, <2>9
    <3> DEFINE K == Len(c.repo.spike)
    <3>2. PICK b \in Nat : /\ b < j /\ j <= b + K /\ b + K <= L
                           /\ \A i \in 1..K :
                                 /\ lists[n][b + i].do = c.repo.spike[i]
                                 /\ lists[n][b + i].script
                                 /\ lists[n][b + i].step = lists[n][j].step
      BY <3>1 DEF InScript
    <3>3. K \in Nat BY ListFacts DEF AreSteps
    <3>4. \A i \in 1..K : b + i \in 1..L
      <4> HIDE DEF K, L
      <4> QED BY <2>5, <3>2, <3>3
    <3>5. \A i \in 1..K : P[o[n - 1] + (b + i)] = lists[n][b + i]
      BY <1>6, <3>4
    <3> DEFINE q == o[n - 1]
    <3>6. Len(P) \in Nat /\ q + L <= Len(P) /\ q \in Nat
      <4>1. N \in 0..N BY <1>1
      <4>2. o[n] <= o[N] BY <1>5, <2>6, <4>1
      <4>3. Len(P) \in Nat BY <1>2, ListFacts
      <4> HIDE DEF L
      <4> QED BY <1>4, <2>7, <4>2, <4>3
    <3>7. k = q + j BY <2>2
    <3>8. \A i \in 1..K : P[(q + b) + i] = lists[n][b + i]
      <4> TAKE i \in 1..K
      <4>1. (q + b) + i = q + (b + i) BY <3>3, <3>6
      <4> QED BY <3>5, <4>1
    <3> HIDE DEF q, K, L
    <3>9. q + b \in Nat /\ q + b < k /\ k <= (q + b) + K /\ (q + b) + K <= Len(P)
      BY <2>5, <2>7, <3>2, <3>3, <3>6, <3>7
    <3>10. \A i \in 1..K : /\ P[(q + b) + i].do = c.repo.spike[i] /\ P[(q + b) + i].script
                           /\ P[(q + b) + i].step = P[k].step
      BY <2>3, <3>2, <3>8
    <3> QED BY <3>9, <3>10 DEF InScript, K
  <2> QED BY <1>8, <2>3, <2>4, <2>8, <2>9
<1>10. ASSUME NEW m \in 1..Len(P), NEW n \in 1..Len(P), m <= n PROVE P[m].step <= P[n].step
  <2>1. SUFFICES ASSUME ~(P[m].step <= P[n].step) PROVE FALSE OBVIOUS
  <2>2. P[m].step \in 1..N /\ P[n].step \in 1..N BY <1>9
  <2>3. P[n].step <= P[m].step - 1 /\ P[n].step \in 0..N /\ P[m].step - 1 \in 0..N
    BY <1>1, <2>1, <2>2
  <2>4. o[P[n].step] <= o[P[m].step - 1] BY <1>5, <2>3
  <2>5. o[P[m].step - 1] < m /\ n <= o[P[n].step] BY <1>9
  <2>6. o[P[n].step] \in Nat /\ o[P[m].step - 1] \in Nat BY <1>4, <2>3
  <2> QED BY <1>10, <2>4, <2>5, <2>6
<1>11. IsProgram(c, steps, P)
  BY <1>2, <1>9, <1>10 DEF IsProgram, N
<1> QED BY <1>3, <1>11 DEF P, lists

-----------------------------------------------------------------------------
(* The order of the text and that of the program.                          *)

\* A step without scripts has a command for each of its lines.
ArePlain(run, n, commands) ==
    /\ Len(commands) = Len(run)
    /\ \A k \in 1..Len(run) : commands[k] = NewCommand(run[k], n, FALSE)

\* A step that runs no script has the commands of its text.
LEMMA PlainStep ==
  ASSUME NEW c, IsList(c.repo.spike), NEW step, IsList(step.run), NEW n,
         step.uses = NoAction, "verify-spike" \notin ToSet(step.run)
  PROVE  ArePlain(step.run, n, StepCommands(c, step, n))
<1> DEFINE N == Len(step.run)
           lists == [k \in 1..N |-> MarkCommands(c, step.run[k], n)]
           cs == FlattenSeq(lists)
<1>1. /\ N \in Nat /\ DOMAIN step.run = 1..N
      /\ \A k \in 1..N : step.run[k] # "verify-spike"
  BY ListFacts
<1>2. StepCommands(c, step, n) = cs
  BY <1>1, StepCommandsIs
<1>3. \A k \in 1..N : lists[k] = MarkCommands(c, step.run[k], n)
  OBVIOUS
<1>4. IsList(lists) /\ Len(lists) = N
  <2>1. lists = [k \in 1..N |-> lists[k]] OBVIOUS
  <2> HIDE DEF lists, N
  <2> QED BY <1>1, <2>1, ListOf
<1> HIDE DEF lists, cs, N
<1>5. \A k \in 1..N : /\ IsList(lists[k]) /\ Len(lists[k]) = 1
                      /\ lists[k][1] = NewCommand(step.run[k], n, FALSE)
  <2> TAKE k \in 1..N
  <2>1. IsMarked(c, step.run[k], n, lists[k]) BY <1>3, MarkFacts
  <2> QED BY <1>1, <2>1 DEF IsMarked
<1>6. PICK o : IsOffsets(o, lists, cs)
  BY <1>4, <1>5, Flattened DEF cs
<1>7. /\ o[0] = 0 /\ Len(cs) = o[N]
      /\ \A k \in 1..N : o[k] = o[k - 1] + 1
      /\ \A k \in 1..N : 1 \in 1..Len(lists[k])
  <2>1. o[0] = 0 /\ Len(cs) = o[Len(lists)]
    BY <1>6 DEF IsOffsets
  <2>2. \A k \in 1..Len(lists) : o[k] = o[k - 1] + Len(lists[k])
    BY <1>6 DEF IsOffsets
  <2>3. \A k \in 1..N : 1 \in 1..Len(lists[k])
    <3> TAKE k \in 1..N
    <3>1. Len(lists[k]) = 1 BY <1>5
    <3>2. 1 \in 1..1 OBVIOUS
    <3> QED BY <3>1, <3>2, Zenon
  <2>4. \A k \in 1..N : o[k] = o[k - 1] + 1
    BY <1>4, <1>5, <2>2
  <2> QED BY <1>4, <2>1, <2>3, <2>4
<1> DEFINE Q == {k \in Nat : k <= N => o[k] = k}
<1>8. 0 \in Q
  BY <1>7
<1>9. ASSUME NEW k \in Nat, k \in Q PROVE k + 1 \in Q
  <2> SUFFICES ASSUME k + 1 <= N PROVE o[k + 1] = k + 1
    OBVIOUS
  <2>1. k + 1 \in 1..N /\ (k + 1) - 1 = k /\ k <= N BY <1>1
  <2> QED BY <1>7, <1>9, <2>1
<1> HIDE DEF Q
<1>10. \A k \in Nat : k \in Q
  BY <1>8, <1>9, InductSet
<1>11. \A k \in 0..N : o[k] = k
  BY <1>1, <1>10 DEF Q
<1>12. Len(cs) = N
  BY <1>1, <1>7, <1>11
<1>13. ASSUME NEW k \in 1..N PROVE cs[k] = NewCommand(step.run[k], n, FALSE)
  <2>1. k - 1 \in 0..N /\ (k - 1) + 1 = k BY <1>1
  <2>2. cs[o[k - 1] + 1] = lists[k][1] BY <1>4, <1>6, <1>7 DEF IsOffsets
  <2> QED BY <1>5, <1>11, <2>1, <2>2
<1> QED BY <1>2, <1>12, <1>13 DEF N, ArePlain

\* The text of a list of steps is the texts of the steps, put together.
LEMMA TextFacts ==
  ASSUME NEW c, NEW steps, AreSteps(c, steps)
  PROVE  /\ IsList(RunText(steps))
         /\ \E r : IsOffsets(r, [n \in 1..Len(steps) |-> steps[n].run], RunText(steps))
<1> DEFINE N == Len(steps)
           runs == [n \in 1..N |-> steps[n].run]
<1>1. N \in Nat /\ DOMAIN steps = 1..N /\ \A n \in 1..N : steps[n] \in ToSet(steps)
  BY ListsFacts
<1>2. RunText(steps) = FlattenSeq(runs)
  BY <1>1 DEF RunText
<1>3. \A n \in 1..N : IsList(runs[n])
  BY <1>1 DEF AreSteps
<1>4. IsList(runs) /\ Len(runs) = N
  <2>1. runs = [n \in 1..N |-> runs[n]] OBVIOUS
  <2> HIDE DEF runs, N
  <2> QED BY <1>1, <2>1, ListOf
<1> HIDE DEF runs
<1>5. IsList(FlattenSeq(runs)) /\ \E r : IsOffsets(r, runs, FlattenSeq(runs))
  BY <1>3, <1>4, Flattened
<1> QED BY <1>2, <1>5 DEF runs

\* Arithmetic of a place in a list that is put into another.
LEMMA Sums ==
    \A a, b, i, j, k \in Nat : i <= k /\ a + k <= b /\ 0 < j => a + i < b + j
OBVIOUS

\* A command k has a place in the text, and what is before it there was before it.
InOrder(steps, P, k) ==
    \E t \in 1..Len(RunText(steps)) :
        /\ RunText(steps)[t] = P[k].do
        /\ \A u \in 1..(t - 1) : \E m \in 1..(k - 1) :
              /\ P[m].do = RunText(steps)[u]
              /\ P[m].do \in ToSet(steps[P[m].step].run)

\* What comes before a command in the text comes before it in the program, if
\* there are no scripts.
LEMMA TextOrder ==
  ASSUME NEW c, NEW steps, AreSteps(c, steps),
         \A step \in ToSet(steps) : "verify-spike" \notin ToSet(step.run),
         NEW P, P = FlattenSeq(Lists(c, steps)),
         NEW k \in 1..Len(P), steps[P[k].step].uses = NoAction
  PROVE  InOrder(steps, P, k)
<1> DEFINE N == Len(steps)
           text == RunText(steps)
           lists == Lists(c, steps)
           runs == [n \in 1..N |-> steps[n].run]
<1>1. /\ N \in Nat /\ IsList(lists) /\ Len(lists) = N
      /\ \A n \in 1..N : /\ lists[n] = StepCommands(c, steps[n], n)
                         /\ steps[n] \in ToSet(steps) /\ IsList(lists[n])
  BY ListsFacts
<1>2. \A n \in 1..N : IsList(steps[n].run) /\ (steps[n].uses # NoAction => steps[n].run = <<>>)
  BY <1>1 DEF AreSteps
<1>3. \A n \in 1..N : runs[n] = steps[n].run
  OBVIOUS
<1>4. PICK r : IsOffsets(r, runs, text)
  BY TextFacts
<1>5. PICK o : IsOffsets(o, lists, P)
  BY ProgramFacts
<1>6. Len(runs) = N
  BY <1>1
<1> HIDE DEF N, lists, runs, text
<1>7. /\ \A n \in 0..N : o[n] \in Nat /\ r[n] \in Nat
      /\ \A m, n \in 0..N : m <= n => o[m] <= o[n] /\ r[m] <= r[n]
  BY <1>1, <1>4, <1>5, <1>6 DEF IsOffsets
<1>8. \A n \in 1..N : /\ o[n] = o[n - 1] + Len(lists[n])
                      /\ r[n] = r[n - 1] + Len(runs[n])
  BY <1>1, <1>4, <1>5, <1>6 DEF IsOffsets
<1>9. \A n \in 1..N : \A j \in 1..Len(lists[n]) :
          o[n - 1] + j \in 1..Len(P) /\ P[o[n - 1] + j] = lists[n][j]
  BY <1>1, <1>5 DEF IsOffsets
<1>10. \A n \in 1..N : \A j \in 1..Len(runs[n]) :
          r[n - 1] + j \in 1..Len(text) /\ text[r[n - 1] + j] = runs[n][j]
  BY <1>4, <1>6 DEF IsOffsets
<1>11. \A u \in 1..Len(text) : \E n \in 1..N : \E j \in 1..Len(runs[n]) : u = r[n - 1] + j
  BY <1>4, <1>6 DEF IsOffsets
<1>12. \A n \in 1..N : steps[n].uses = NoAction =>
          /\ Len(lists[n]) = Len(runs[n])
          /\ \A j \in 1..Len(runs[n]) : lists[n][j] = NewCommand(runs[n][j], n, FALSE)
  <2> TAKE n \in 1..N
  <2> SUFFICES ASSUME steps[n].uses = NoAction
               PROVE  /\ Len(lists[n]) = Len(runs[n])
                      /\ \A j \in 1..Len(runs[n]) : lists[n][j] = NewCommand(runs[n][j], n, FALSE)
    OBVIOUS
  <2>1. "verify-spike" \notin ToSet(steps[n].run) /\ IsList(c.repo.spike)
    BY <1>1 DEF AreSteps
  <2>2. ArePlain(steps[n].run, n, StepCommands(c, steps[n], n))
    BY <1>2, <2>1, PlainStep
  <2>3. ArePlain(runs[n], n, lists[n])
    BY <1>1, <1>3, <2>2
  <2> QED BY <2>3, Zenon DEF ArePlain
<1>13. PICK n \in 1..N : \E j \in 1..Len(lists[n]) : k = o[n - 1] + j
  BY <1>1, <1>5 DEF IsOffsets
<1>14. PICK j \in 1..Len(lists[n]) : k = o[n - 1] + j
  BY <1>13
<1>15. P[k].step = n
  <2>1. IsList(c.repo.spike) /\ IsList(steps[n].run) BY <1>2 DEF AreSteps
  <2>2. lists[n][j].step = n BY <1>1, <2>1, StepFacts
  <2> QED BY <1>9, <1>14, <2>2
<1>16. j \in 1..Len(runs[n]) /\ P[k].do = runs[n][j]
  <2>1. /\ Len(lists[n]) = Len(runs[n])
        /\ \A i \in 1..Len(runs[n]) : lists[n][i] = NewCommand(runs[n][i], n, FALSE)
    BY <1>12, <1>15
  <2>2. j \in 1..Len(runs[n]) BY <1>14, <2>1, Zenon
  <2>3. P[k] = lists[n][j] BY <1>9, <1>14
  <2>4. P[k] = NewCommand(runs[n][j], n, FALSE) BY <2>1, <2>2, <2>3, Zenon
  <2> QED BY <2>2, <2>4 DEF NewCommand
<1> DEFINE t == r[n - 1] + j
<1>17. t \in 1..Len(text) /\ text[t] = P[k].do
  BY <1>10, <1>16
<1>18. ASSUME NEW u \in 1..(t - 1)
       PROVE  \E m \in 1..(k - 1) :
                 P[m].do = text[u] /\ P[m].do \in ToSet(steps[P[m].step].run)
  <2>1. Len(text) \in Nat
    BY TextFacts, ListFacts DEF text
  <2>2. u \in 1..Len(text) /\ u < t /\ u \in Nat BY <1>17, <2>1
  <2>3. PICK p \in 1..N : \E i \in 1..Len(runs[p]) : u = r[p - 1] + i BY <1>11, <2>2
  <2>4. PICK i \in 1..Len(runs[p]) : u = r[p - 1] + i BY <2>3
  <2>5. runs[p] # <<>>
    <3>1. Len(<<>>) = 0 OBVIOUS
    <3> SUFFICES ASSUME runs[p] = <<>> PROVE FALSE OBVIOUS
    <3>2. i \in 1..0 BY <2>4, <3>1
    <3> QED BY <3>2
  <2>6. steps[p].uses = NoAction BY <1>2, <1>3, <2>5
  <2>7. /\ Len(lists[p]) = Len(runs[p]) /\ lists[p][i] = NewCommand(runs[p][i], p, FALSE)
    BY <1>12, <2>6
  <2> DEFINE m == o[p - 1] + i
  <2>8. m \in 1..Len(P) /\ P[m] = NewCommand(runs[p][i], p, FALSE)
    BY <1>9, <2>7
  <2>9. text[u] = runs[p][i] BY <1>10, <2>4
  <2>10. runs[p][i] \in ToSet(steps[p].run)
    BY <1>2, <1>3, ListFacts
  <2>11. m < k
    <3> DEFINE K == Len(runs[p])
               L == Len(runs[n])
    <3>1. K \in Nat /\ L \in Nat
      BY <1>2, <1>3, ListFacts
    <3>2. /\ p - 1 \in 0..N /\ n - 1 \in 0..N /\ p \in 0..N /\ n \in 0..N
          /\ n \in Nat /\ p \in Nat
      BY <1>1
    <3>3. i \in 1..K /\ j \in 1..L /\ o[p] = o[p - 1] + K /\ r[n] = r[n - 1] + L
      BY <1>8, <1>16, <2>4, <2>7
    <3>4. /\ o[p] \in Nat /\ o[p - 1] \in Nat /\ o[n - 1] \in Nat
          /\ r[n] \in Nat /\ r[n - 1] \in Nat /\ r[p - 1] \in Nat
      BY <1>7, <3>2
    <3>5. u = r[p - 1] + i /\ u < r[n - 1] + j /\ k = o[n - 1] + j BY <1>14, <2>2, <2>4
    <3> HIDE DEF K, L
    <3>6. CASE p < n
      <4>1. p <= n - 1 BY <3>2, <3>6
      <4>2. o[p] <= o[n - 1] BY <1>7, <3>2, <4>1
      <4>3. i \in Nat /\ i <= K /\ j \in Nat /\ 0 < j BY <3>1, <3>3
      <4>4. o[p - 1] + K <= o[n - 1]
        <5>1. o[p - 1] + K = o[p] BY <3>3
        <5> QED BY <4>2, <5>1
      <4>5. o[p - 1] \in Nat /\ o[n - 1] \in Nat BY <3>4
      <4>6. o[p - 1] + i < o[n - 1] + j BY <3>1, <4>3, <4>4, <4>5, Sums, Zenon
      <4> QED BY <3>5, <4>6
    <3>7. CASE p = n
      <4>1. r[n - 1] + i < r[n - 1] + j BY <3>5, <3>7
      <4>2. m = o[n - 1] + i BY <3>7
      <4>3. i \in Nat /\ j \in Nat BY <3>3
      <4>4. i < j BY <3>4, <4>1, <4>3
      <4> QED BY <3>4, <3>5, <4>2, <4>3, <4>4
    <3>8. CASE p > n
      <4>1. n <= p - 1 BY <3>2, <3>8
      <4>2. r[n] <= r[p - 1] BY <1>7, <3>2, <4>1
      <4> QED BY <3>1, <3>3, <3>4, <3>5, <4>2
    <3> QED BY <3>2, <3>6, <3>7, <3>8
  <2>12. m \in 1..(k - 1)
    <3>1. Len(P) \in Nat BY ProgramFacts, ListFacts DEF IsProgram
    <3> HIDE DEF m
    <3> QED BY <2>8, <2>11, <3>1
  <2>13. P[m].do = text[u] /\ P[m].step = p
    BY <2>8, <2>9 DEF NewCommand
  <2> QED BY <2>9, <2>10, <2>12, <2>13
<1> QED BY <1>17, <1>18 DEF text, InOrder

-----------------------------------------------------------------------------
(* What is certainly done before a command.                                *)

\* Find is the first place of a mark.
LEMMA FindFacts ==
  ASSUME NEW text, IsList(text), NEW mark
  PROVE  /\ Find(text, mark) \in Nat
         /\ Find(text, mark) # 0 =>
               Find(text, mark) \in 1..Len(text) /\ text[Find(text, mark)] = mark
         /\ \A t \in 1..Len(text) :
               text[t] = mark => 0 < Find(text, mark) /\ Find(text, mark) <= t
<1>1. /\ Len(text) \in Nat /\ DOMAIN text = 1..Len(text)
      /\ \A n \in 1..Len(text) : text[n] \in ToSet(text)
      /\ \A x \in ToSet(text) : \E n \in 1..Len(text) : x = text[n]
  BY ListFacts
<1>2. CASE mark \in ToSet(text)
  <2> DEFINE L == Len(text)
             S == {n \in 1..L : text[n] = mark}
             First(n) == text[n] = mark /\ \A k \in 1..(n - 1) : text[k] # mark
  <2>1. S \subseteq Nat /\ S # {}
    BY <1>1, <1>2
  <2> HIDE DEF S
  <2>2. PICK x \in S : \A y \in S : x <= y
    BY <2>1, LeastNumber
  <2>3. x \in 1..L /\ text[x] = mark
    BY <2>2 DEF S
  <2>4. ASSUME NEW k \in 1..(x - 1) PROVE text[k] # mark
    <3>1. k \in 1..L /\ ~(x <= k)
      <4>1. L \in Nat BY <1>1
      <4> HIDE DEF L
      <4> QED BY <2>3, <2>4, <4>1
    <3> QED BY <2>2, <3>1 DEF S
  <2>5. x \in DOMAIN text /\ First(x)
    BY <1>1, <2>3, <2>4
  <2>6. Find(text, mark) = CHOOSE n \in DOMAIN text : First(n)
    BY <1>2 DEF Find
  <2>7. Find(text, mark) \in DOMAIN text /\ First(Find(text, mark))
    <3> HIDE DEF First
    <3> QED BY <2>5, <2>6
  <2>8. ASSUME NEW t \in 1..L, text[t] = mark PROVE Find(text, mark) <= t
    <3> DEFINE f == Find(text, mark)
    <3>1. f \in 1..L /\ \A k \in 1..(f - 1) : text[k] # mark BY <1>1, <2>7
    <3>2. L \in Nat BY <1>1
    <3> HIDE DEF f, L
    <3>3. SUFFICES ASSUME ~(f <= t) PROVE FALSE BY DEF f
    <3>4. t \in 1..(f - 1) BY <2>8, <3>1, <3>2, <3>3
    <3> QED BY <2>8, <3>1, <3>4
  <2> QED BY <1>1, <2>7, <2>8
<1>3. CASE mark \notin ToSet(text)
  BY <1>1, <1>3 DEF Find
<1> QED BY <1>2, <1>3

\* Runner leg runs the steps of a program.
LegProgram(leg) ==
    /\ AreSteps(case, JobOf(leg).steps)
    /\ IsProgram(case, JobOf(leg).steps, program[leg])
    /\ Len(program[leg]) \in Nat /\ DOMAIN program[leg] = 1..Len(program[leg])

\* The steps of a runner are done one after the other.
LEMMA ProgramOrder ==
  ASSUME NEW leg, LegProgram(leg)
  PROVE  /\ \A n \in 1..Len(program[leg]) :
               program[leg][n].step \in Nat /\ program[leg][n].script \in BOOLEAN
         /\ \A m, n \in 1..Len(program[leg]) :
               m <= n => program[leg][m].step <= program[leg][n].step
<1>1. Len(JobOf(leg).steps) \in Nat
  BY ListFacts DEF LegProgram, AreSteps
<1> QED BY <1>1 DEF LegProgram, IsProgram

\* What is certain from further on is certain from here.
LEMMA CertainBefore ==
  ASSUME NEW leg, LegProgram(leg), NEW at \in 1..Len(program[leg]), NEW q \in Nat, at <= q,
         NEW n \in 1..at, Certain(leg, n, q)
  PROVE  Certain(leg, n, at)
<1> DEFINE P == program[leg]
           N == Len(P)
<1>1. N \in Nat /\ DOMAIN P = 1..N
  BY DEF LegProgram
<1>2. CASE /\ q \in DOMAIN P /\ P[q].step = P[n].step /\ P[n].script
           /\ JobOf(leg).steps[P[n].step].when \in {"always", PlatformOf(leg)}
  <2>1. n \in 1..N /\ at \in 1..N /\ q \in 1..N /\ n <= at /\ at <= q
    <3> HIDE DEF N
    <3> QED BY <1>1, <1>2
  <2>2. P[n].step <= P[at].step /\ P[at].step <= P[q].step
    BY <2>1, ProgramOrder
  <2>3. P[n].step \in Nat /\ P[at].step \in Nat /\ P[q].step \in Nat
    BY <2>1, ProgramOrder
  <2>4. P[at].step = P[n].step
    BY <1>2, <2>2, <2>3
  <2> QED BY <1>1, <1>2, <2>1, <2>4 DEF Certain
<1> QED BY <1>2 DEF Certain

\* A runner goes on.
LEMMA OnFrom ==
  ASSUME NEW leg, LegProgram(leg), NEW l, LegOrder(leg, l), l.at \in DOMAIN program[leg],
         NEW m, m.at \in (l.at + 1)..(Len(program[leg]) + 1),
         m.state = "running" => m.at \in DOMAIN program[leg],
         l.done \subseteq m.done,
         \A n \in l.at..(m.at - 1) :
            Certain(leg, n, m.at) => program[leg][n].do \in m.done
  PROVE  LegOrder(leg, m)
<1> DEFINE N == Len(program[leg])
           i == l.at
           q == m.at
<1>1. N \in Nat /\ DOMAIN program[leg] = 1..N
  BY DEF LegProgram
<1>2. i \in 1..N /\ q \in (i + 1)..(N + 1)
  BY <1>1
<1>3. \A n \in 1..(i - 1) : Certain(leg, n, i) => program[leg][n].do \in l.done
  BY DEF LegOrder
<1>4. ASSUME NEW n \in 1..(q - 1), Certain(leg, n, q) PROVE program[leg][n].do \in m.done
  <2>1. CASE n \in i..(q - 1)
    BY <1>4, <2>1
  <2>2. CASE n \notin i..(q - 1)
    <3>1. n \in 1..(i - 1) /\ n \in 1..i /\ q \in Nat /\ i <= q
      <4> HIDE DEF i, q, N
      <4> QED BY <1>1, <1>2, <1>4, <2>2
    <3>2. Certain(leg, n, i)
      <4> HIDE DEF i, q
      <4> QED BY <1>2, <1>4, <3>1, CertainBefore DEF N
    <3> QED BY <1>3, <3>1, <3>2
  <2> QED BY <2>1, <2>2
<1>5. q \in 1..(N + 1) /\ q # 1
  <2> HIDE DEF i, q, N
  <2> QED BY <1>1, <1>2
<1> QED BY <1>4, <1>5 DEF LegOrder

\* The commands of a step and of those before it are the first ones.
LEMMA StepsBehind ==
  ASSUME NEW leg, LegProgram(leg), NEW at \in DOMAIN program[leg]
  PROVE  \E m \in at..Len(program[leg]) :
            /\ Cardinality({n \in DOMAIN program[leg] :
                              program[leg][n].step <= program[leg][at].step}) = m
            /\ \A n \in at..m : program[leg][n].step = program[leg][at].step
            /\ m + 1 \in DOMAIN program[leg] =>
                  program[leg][m + 1].step > program[leg][at].step
<1> DEFINE P == program[leg]
           N == Len(P)
           s == P[at].step
           Behind == {n \in 1..N : P[n].step <= s}
           Ahead == {n \in 1..N : P[n].step > s}
           S == Ahead \cup {N + 1}
<1>1. N \in Nat /\ DOMAIN P = 1..N
  BY DEF LegProgram
<1>2. /\ \A n \in 1..N : P[n].step \in Nat
      /\ \A i, n \in 1..N : i <= n => P[i].step <= P[n].step
  BY ProgramOrder
<1> HIDE DEF N, P
<1>3. S \subseteq Nat /\ S # {}
  BY <1>1
<1>4. PICK x \in S : \A y \in S : x <= y
  <2> HIDE DEF S
  <2> QED BY <1>3, LeastNumber
<1>5. x \in 1..(N + 1) /\ at \in 1..N /\ s \in Nat
  BY <1>1, <1>2, <1>4 DEF P
<1>6. at < x
  <2>1. CASE x = N + 1 BY <1>1, <1>5, <2>1
  <2>2. CASE x \in 1..N /\ P[x].step > s
    <3> SUFFICES ASSUME x <= at PROVE FALSE BY <1>5
    <3>1. P[x].step <= s BY <1>2, <1>5, <2>2
    <3> QED BY <1>2, <1>5, <2>2, <3>1
  <2> QED BY <1>4, <2>1, <2>2
<1>7. Behind = 1..(x - 1)
  <2>1. ASSUME NEW n \in 1..(x - 1) PROVE n \in Behind
    <3>1. n \in 1..N /\ ~(x <= n) BY <1>1, <1>5
    <3>2. n \notin Ahead BY <1>4, <3>1
    <3> QED BY <1>2, <1>5, <3>1, <3>2
  <2>2. ASSUME NEW n \in Behind PROVE n \in 1..(x - 1)
    <3>1. CASE x = N + 1 BY <1>1, <3>1
    <3>2. CASE x \in 1..N /\ P[x].step > s
      <4> SUFFICES ASSUME x <= n PROVE FALSE BY <1>5
      <4>1. P[x].step <= P[n].step BY <1>2, <3>2
      <4> QED BY <1>2, <1>5, <3>2, <4>1
    <3> QED BY <1>4, <3>1, <3>2
  <2> QED BY <2>1, <2>2
<1>8. Cardinality(Behind) = x - 1
  <2>1. 1 \in Int /\ x - 1 \in Int /\ 1 <= x - 1 BY <1>5, <1>6
  <2>2. Cardinality(1..(x - 1)) = (x - 1) - 1 + 1
    BY <2>1, FS_Interval
  <2>3. (x - 1) - 1 + 1 = x - 1 BY <1>5
  <2>4. Behind = 1..(x - 1) BY <1>7
  <2> HIDE DEF Behind
  <2> QED BY <2>2, <2>3, <2>4, Zenon
<1>9. x - 1 \in at..N
  BY <1>1, <1>5, <1>6
<1>10. ASSUME NEW n \in at..(x - 1) PROVE P[n].step = s
  <2>1. n \in Behind /\ n \in 1..N /\ at <= n BY <1>1, <1>5, <1>7
  <2> QED BY <1>2, <1>5, <2>1
<1>11. (x - 1) + 1 \in 1..N => P[(x - 1) + 1].step > s
  BY <1>1, <1>4, <1>5
<1>12. {n \in DOMAIN P : P[n].step <= P[at].step} = Behind
  BY <1>1
<1> HIDE DEF Behind
<1> QED BY <1>1, <1>8, <1>9, <1>10, <1>11, <1>12 DEF P, N

-----------------------------------------------------------------------------
(* What a step makes of the runner that takes it.                          *)

\* A runner that runs.
Running(leg) ==
    /\ IsLeg(legs[leg]) /\ LegProgram(leg) /\ LegOrder(leg, legs[leg])
    /\ legs[leg].state = "running"

\* What a step makes of a runner.
Outcome(leg, l) ==
    /\ IsLeg(l) /\ LegOrder(leg, l)
    /\ \/ l.done = legs[leg].done
       \/ /\ l.done = legs[leg].done \cup {Command(leg).do} /\ For(leg)
          /\ Command(leg).do = "update" => legs[leg].tool # None
          /\ Command(leg).do = "provenance" => Verify(parser)
    /\ l.tool = legs[leg].tool \/ (For(leg) /\ Command(leg).do \in Installs /\ l.tool = Tool(leg))

\* A runner that runs is at a command of its program.
LEMMA RunningAt ==
  ASSUME NEW leg, Running(leg)
  PROVE  /\ legs[leg].at \in 1..Len(program[leg]) /\ DOMAIN program[leg] = 1..Len(program[leg])
         /\ Len(program[leg]) \in Nat
BY DEF Running, LegOrder, LegProgram

\* A runner that is at n has the same fields otherwise.
LEMMA AtFields ==
  ASSUME NEW leg, Running(leg), NEW n \in Nat
  PROVE  /\ IsLeg(At(leg, n)) /\ At(leg, n).at = n
         /\ At(leg, n).done = legs[leg].done /\ At(leg, n).tool = legs[leg].tool
         /\ At(leg, n).state = "running" => n <= Len(program[leg])
<1>1. Len(program[leg]) \in Nat
  BY RunningAt
<1>2. PICK state : state = IF n > Len(program[leg]) THEN "done" ELSE legs[leg].state
  OBVIOUS
<1>3. At(leg, n) = [legs[leg] EXCEPT !.at = n, !.state = state]
  BY <1>2 DEF At
<1>4. /\ IsLeg(At(leg, n)) /\ At(leg, n).at = n /\ At(leg, n).state = state
      /\ At(leg, n).done = legs[leg].done /\ At(leg, n).tool = legs[leg].tool
  BY <1>3 DEF IsLeg, Running
<1>5. state = "running" => n <= Len(program[leg])
  BY <1>1, <1>2
<1> QED BY <1>4, <1>5

\* A runner that goes on to n, past commands that are not certain.
LEMMA GoesOn ==
  ASSUME NEW leg, Running(leg), NEW n \in (legs[leg].at + 1)..(Len(program[leg]) + 1),
         \A k \in legs[leg].at..(n - 1) : ~Certain(leg, k, n)
  PROVE  Outcome(leg, At(leg, n))
<1> DEFINE N == Len(program[leg])
           i == legs[leg].at
<1>1. N \in Nat /\ i \in 1..N /\ DOMAIN program[leg] = 1..N
  BY RunningAt
<1>2. n \in Nat /\ n \in 1..(N + 1)
  <2> HIDE DEF N, i
  <2> QED BY <1>1 DEF N, i
<1>3. PICK l : l = At(leg, n)
  OBVIOUS
<1>4. /\ IsLeg(l) /\ l.at = n /\ l.done = legs[leg].done /\ l.tool = legs[leg].tool
      /\ l.state = "running" => n <= N
  BY <1>2, <1>3, AtFields
<1>5. l.state = "running" => l.at \in DOMAIN program[leg]
  <2> HIDE DEF N
  <2> QED BY <1>1, <1>2, <1>4
<1>6. LegProgram(leg) /\ LegOrder(leg, legs[leg])
  BY DEF Running
<1>7. LegOrder(leg, l)
  BY <1>1, <1>4, <1>5, <1>6, OnFrom
<1> QED BY <1>3, <1>4, <1>7 DEF Outcome

\* A runner skips a command that is not for it.
LEMMA SkipOutcome ==
  ASSUME NEW leg, Running(leg), ~For(leg)
  PROVE  Outcome(leg, At(leg, legs[leg].at + 1))
<1> DEFINE N == Len(program[leg])
           i == legs[leg].at
<1>1. N \in Nat /\ i \in 1..N /\ DOMAIN program[leg] = 1..N
  BY RunningAt
<1>2. i + 1 \in (i + 1)..(N + 1) /\ (i + 1) - 1 = i /\ i \in Nat
  <2> HIDE DEF N, i
  <2> QED BY <1>1
<1>3. ASSUME NEW k \in i..((i + 1) - 1) PROVE ~Certain(leg, k, i + 1)
  <2>1. k = i
    <3> HIDE DEF i
    <3> QED BY <1>2, <1>3
  <2>2. JobOf(leg).steps[program[leg][i].step].when \notin {"always", PlatformOf(leg)}
    BY DEF For, StepOf, Command
  <2> HIDE DEF i
  <2> QED BY <2>1, <2>2 DEF Certain
<1> QED BY <1>2, <1>3, GoesOn

\* A command succeeds, and what it needs was there.
LEMMA SucceededOutcome ==
  ASSUME NEW leg, Running(leg), For(leg),
         Command(leg).do = "update" => legs[leg].tool # None,
         Command(leg).do = "provenance" => Verify(parser)
  PROVE  Outcome(leg, Succeeded(leg))
<1> DEFINE N == Len(program[leg])
           i == legs[leg].at
<1>1. N \in Nat /\ i \in 1..N /\ DOMAIN program[leg] = 1..N
  BY RunningAt
<1>2. i + 1 \in Nat /\ i + 1 \in (i + 1)..(N + 1) /\ i + 1 \in 1..(N + 1) /\ (i + 1) - 1 = i /\ i \in Nat
  <2> HIDE DEF N, i
  <2> QED BY <1>1
<1>3. PICK l : l = At(leg, i + 1)
  OBVIOUS
<1>4. /\ IsLeg(l) /\ l.at = i + 1 /\ l.done = legs[leg].done /\ l.tool = legs[leg].tool
      /\ l.state = "running" => i + 1 <= N
  BY <1>2, <1>3, AtFields
<1>5. PICK m : m = [l EXCEPT !.done = @ \cup {Command(leg).do}]
  OBVIOUS
<1>6. /\ IsLeg(m) /\ m.at = i + 1 /\ m.done = legs[leg].done \cup {Command(leg).do}
      /\ m.tool = legs[leg].tool /\ (m.state = "running" => i + 1 <= N)
  BY <1>4, <1>5 DEF IsLeg
<1>7. LegProgram(leg) /\ LegOrder(leg, legs[leg])
  BY DEF Running
<1>8. m.state = "running" => m.at \in DOMAIN program[leg]
  <2> HIDE DEF N, i
  <2> QED BY <1>1, <1>2, <1>6
<1>9. ASSUME NEW n \in i..(m.at - 1) PROVE program[leg][n].do \in m.done
  <2>1. n = i
    <3> HIDE DEF i
    <3> QED BY <1>2, <1>6, <1>9
  <2> QED BY <1>6, <2>1 DEF Command
<1>10. LegOrder(leg, m)
  BY <1>1, <1>2, <1>6, <1>7, <1>8, <1>9, OnFrom
<1>11. Succeeded(leg) = m
  BY <1>3, <1>5 DEF Succeeded
<1> QED BY <1>6, <1>10, <1>11 DEF Outcome

\* A command fails, and a script may end or go on.
LEMMA FailedOutcome ==
  ASSUME NEW leg, Running(leg), NEW state \in Failed(leg)
  PROVE  Outcome(leg, state)
<1> DEFINE P == program[leg]
           N == Len(P)
           i == legs[leg].at
           step == JobOf(leg).steps[P[i].step]
           after == Cardinality({n \in DOMAIN P : P[n].step <= P[i].step})
<1>1. N \in Nat /\ i \in 1..N /\ DOMAIN P = 1..N /\ LegProgram(leg)
  BY RunningAt DEF Running
<1>2. step = StepOf(leg) /\ P[i] = Command(leg)
  BY DEF StepOf, Command
<1>3. CASE step.strict
  <2>1. state = [legs[leg] EXCEPT !.state = "failed"]
    BY <1>2, <1>3 DEF Failed
  <2>2. /\ IsLeg(state) /\ state.at = i /\ state.done = legs[leg].done
        /\ state.tool = legs[leg].tool /\ state.state = "failed"
    BY <2>1 DEF Running, IsLeg
  <2>3. LegOrder(leg, state)
    BY <2>2 DEF LegOrder, Running
  <2> QED BY <2>2, <2>3 DEF Outcome
<1>4. CASE ~step.strict /\ ~P[i].script /\ state = At(leg, i + 1)
  <2>1. i + 1 \in (i + 1)..(N + 1) /\ (i + 1) - 1 = i /\ i \in Nat
    <3> HIDE DEF N, i
    <3> QED BY <1>1
  <2>2. ASSUME NEW k \in i..((i + 1) - 1) PROVE ~Certain(leg, k, i + 1)
    <3>1. k = i
      <4> HIDE DEF i
      <4> QED BY <2>1, <2>2
    <3> HIDE DEF i
    <3> QED BY <1>4, <3>1 DEF Certain
  <2> QED BY <1>4, <2>1, <2>2, GoesOn
<1>5. CASE ~step.strict /\ state = At(leg, after + 1)
  <2>1. PICK m \in i..N : /\ after = m /\ \A n \in i..m : P[n].step = P[i].step
                          /\ m + 1 \in DOMAIN P => P[m + 1].step > P[i].step
    BY <1>1, StepsBehind
  <2>2. m + 1 \in (i + 1)..(N + 1) /\ (m + 1) - 1 = m
    <3> HIDE DEF N, i
    <3> QED BY <1>1, <2>1
  <2>3. P[i].step \in Nat
    BY <1>1, ProgramOrder
  <2>4. ASSUME NEW k \in i..((m + 1) - 1) PROVE ~Certain(leg, k, m + 1)
    <3>1. P[k].step = P[i].step
      <4> HIDE DEF P, i
      <4> QED BY <2>1, <2>2, <2>4
    <3>2. m + 1 \in DOMAIN P => P[m + 1].step # P[k].step
      <4> HIDE DEF P, i
      <4> QED BY <2>1, <2>3, <3>1
    <3> QED BY <1>5, <3>1, <3>2 DEF Certain
  <2>5. state = At(leg, m + 1)
    <3> HIDE DEF after
    <3> QED BY <1>5, <2>1
  <2> QED BY <2>2, <2>4, <2>5, GoesOn
<1>6. ~step.strict => \/ ~P[i].script /\ state = At(leg, i + 1)
                      \/ state = At(leg, after + 1)
  BY <1>2 DEF Failed
<1> QED BY <1>3, <1>4, <1>5, <1>6

-----------------------------------------------------------------------------
(* Every action of a runner, by what it makes of it.                       *)

\* An outcome is about these four fields only.
LEMMA SameOutcome ==
  ASSUME NEW leg, NEW l, Outcome(leg, l), NEW m, IsLeg(m),
         m.at = l.at, m.state = l.state, m.done = l.done, m.tool = l.tool
  PROVE  Outcome(leg, m)
<1>1. LegOrder(leg, m)
  BY DEF Outcome, LegOrder
<1> QED BY <1>1 DEF Outcome

\* That nothing changes is an outcome.
LEMMA StillOutcome ==
  ASSUME NEW leg, Running(leg)
  PROVE  Outcome(leg, legs[leg])
BY DEF Outcome, Running

\* With other values for what packaging and handing over change.
Otherwise(l, m) ==
    IsLeg(m) /\ m.at = l.at /\ m.state = l.state /\ m.done = l.done /\ m.tool = l.tool

\* The other fields do not matter to an outcome.
LEMMA OtherFields ==
  ASSUME NEW leg, NEW l, Outcome(leg, l), NEW m, Otherwise(l, m)
  PROVE  Outcome(leg, m)
BY SameOutcome DEF Otherwise

\* What a step of a runner makes of it, and what it leaves alone.
Stepped(leg) == \E l : Becomes(leg, l) /\ Outcome(leg, l)

\* A runner that becomes an outcome with other values of other fields.
LEMMA BecomesOther ==
  ASSUME NEW leg, NEW l, Outcome(leg, l), NEW m, Otherwise(l, m), Becomes(leg, m)
  PROVE  Stepped(leg)
BY OtherFields DEF Stepped

\* Every action of a runner makes an outcome of it, and leaves the rest alone.
LEMMA StepOutcome ==
  ASSUME NEW leg \in DOMAIN legs, LegStep(leg) \/ Meddle(leg),
         Ready(leg) => Running(leg)
  PROVE  /\ Stepped(leg)
         /\ UNCHANGED <<case, program, accepted, parser>>
         /\ packaged' = packaged \/ Package(leg)
         /\ Ready(leg)
<1>1. Ready(leg)
  BY DEF LegStep, Skip, Run, Package, Publish, PublishEvidence, CheckRollback,
         DeleteArchive, Upload, Mock, Download, Aggregate, Meddle, Does
<1>2. Running(leg) /\ IsLeg(legs[leg])
  BY <1>1 DEF Running
<1>3. /\ UNCHANGED <<case, program, accepted, parser>>
      /\ packaged' = packaged \/ Package(leg)
  BY DEF LegStep, Skip, Run, Package, Publish, PublishEvidence, CheckRollback,
         DeleteArchive, Upload, Mock, Download, Aggregate, Meddle
<1> SUFFICES Stepped(leg)
  BY <1>1, <1>3
<1>4. ASSUME \E state \in Failed(leg) : Becomes(leg, state)
      PROVE  Stepped(leg)
  BY <1>2, <1>4, FailedOutcome DEF Stepped
<1>5. ASSUME For(leg), Command(leg).do \in Special PROVE Outcome(leg, Succeeded(leg))
  BY <1>2, <1>5, SucceededOutcome DEF Special
<1>6. CASE Skip(leg)
  BY <1>2, <1>6, SkipOutcome DEF Skip, Stepped
<1>7. CASE Run(leg)
  <2>1. For(leg) /\ Command(leg).do \notin Special
    BY <1>7 DEF Run
  <2>2. CASE /\ Command(leg).do \in {"update", "check", "test"} => legs[leg].tool # None
             /\ Command(leg).do = "provenance" => Verify(parser)
             /\ Becomes(leg, [Succeeded(leg) EXCEPT !.tool = Tool(leg)])
    <3>1. PICK l : l = Succeeded(leg) /\ Outcome(leg, l) /\ l.tool = legs[leg].tool
      <4>1. Outcome(leg, Succeeded(leg))
        BY <1>2, <2>1, <2>2, SucceededOutcome
      <4>2. Succeeded(leg).tool = legs[leg].tool
        <5>1. PICK m : m = At(leg, legs[leg].at + 1) /\ IsLeg(m) /\ m.tool = legs[leg].tool
          <6>1. legs[leg].at + 1 \in Nat
            BY <1>2, RunningAt
          <6> QED BY <1>2, <6>1, AtFields
        <5>2. Succeeded(leg) = [m EXCEPT !.done = @ \cup {Command(leg).do}]
          BY <5>1 DEF Succeeded
        <5> QED BY <5>1, <5>2 DEF IsLeg
      <4> QED BY <4>1, <4>2
    <3>2. PICK tool : tool = Tool(leg)
      OBVIOUS
    <3>3. tool = legs[leg].tool \/ (Command(leg).do \in Installs /\ tool = Tool(leg))
      BY <3>2 DEF Tool, Installs
    <3>4. PICK m : m = [l EXCEPT !.tool = tool]
      OBVIOUS
    <3>5. /\ IsLeg(m) /\ m.at = l.at /\ m.state = l.state /\ m.done = l.done /\ m.tool = tool
      BY <3>1, <3>4 DEF Outcome, IsLeg
    <3>6. LegOrder(leg, m)
      BY <3>1, <3>5 DEF Outcome, LegOrder
    <3>7. Outcome(leg, m)
      BY <2>1, <3>1, <3>3, <3>5, <3>6 DEF Outcome
    <3> QED BY <2>2, <3>1, <3>2, <3>4, <3>7 DEF Stepped
  <2>3. \/ /\ Command(leg).do \in {"update", "check", "test"} => legs[leg].tool # None
           /\ Command(leg).do = "provenance" => Verify(parser)
           /\ Becomes(leg, [Succeeded(leg) EXCEPT !.tool = Tool(leg)])
        \/ \E state \in Failed(leg) : Becomes(leg, state)
    BY <1>7, Zenon DEF Run
  <2> QED BY <1>4, <2>2, <2>3
<1>8. CASE Package(leg)
  <2>1. ASSUME NEW stage, NEW smoked,
               Becomes(leg, [legs[leg] EXCEPT !.stage = stage, !.smoked = smoked])
        PROVE  Stepped(leg)
    <3>1. PICK m : m = [legs[leg] EXCEPT !.stage = stage, !.smoked = smoked]
      OBVIOUS
    <3>2. Otherwise(legs[leg], m) /\ Becomes(leg, m)
      BY <1>2, <2>1, <3>1 DEF Otherwise, Outcome, IsLeg
    <3> QED BY <1>2, <3>2, StillOutcome, BecomesOther
  <2>2. \/ \E state \in Failed(leg) : Becomes(leg, state)
        \/ \E stage, smoked :
              Becomes(leg, [legs[leg] EXCEPT !.stage = stage, !.smoked = smoked])
    BY <1>8 DEF Package
  <2> QED BY <1>4, <2>1, <2>2
<1>9. CASE Publish(leg)
  <2>1. ASSUME NEW state \in Failed(leg), Becomes(leg, [state EXCEPT !.stage = None])
        PROVE  Stepped(leg)
    <3>1. PICK l : l = state /\ Outcome(leg, l)
      BY <1>2, FailedOutcome
    <3>2. PICK m : m = [l EXCEPT !.stage = None]
      OBVIOUS
    <3>3. Otherwise(l, m) /\ Becomes(leg, m)
      BY <2>1, <3>1, <3>2 DEF Otherwise, Outcome, IsLeg
    <3> QED BY <3>1, <3>3, BecomesOther
  <2>2. ASSUME NEW archive, Becomes(leg, [legs[leg] EXCEPT !.archive = archive, !.moved = TRUE])
        PROVE  Stepped(leg)
    <3>1. PICK l : l = legs[leg] /\ Outcome(leg, l)
      BY <1>2, StillOutcome
    <3>2. PICK m : m = [l EXCEPT !.archive = archive, !.moved = TRUE]
      OBVIOUS
    <3>3. Otherwise(l, m) /\ Becomes(leg, m)
      BY <2>2, <3>1, <3>2 DEF Otherwise, Outcome, IsLeg
    <3> QED BY <3>1, <3>3, BecomesOther
  <2> QED BY <1>9, <2>1, <2>2 DEF Publish
<1>10. CASE PublishEvidence(leg)
  <2>1. For(leg) /\ Command(leg).do \in Special
    BY <1>10 DEF PublishEvidence, Does, Special, Packaging
  <2>2. ASSUME NEW rollback, Becomes(leg, [legs[leg] EXCEPT !.rollback = rollback])
        PROVE  Stepped(leg)
    <3>1. PICK l : l = legs[leg] /\ Outcome(leg, l)
      BY <1>2, StillOutcome
    <3>2. PICK m : m = [l EXCEPT !.rollback = rollback]
      OBVIOUS
    <3>3. Otherwise(l, m) /\ Becomes(leg, m)
      BY <2>2, <3>1, <3>2 DEF Otherwise, Outcome, IsLeg
    <3> QED BY <3>1, <3>3, BecomesOther
  <2>3. ASSUME NEW evidence, Becomes(leg, [Succeeded(leg) EXCEPT !.stage = None, !.moved = FALSE, !.evidence = evidence])
        PROVE  Stepped(leg)
    <3>1. PICK l : l = Succeeded(leg) /\ Outcome(leg, l)
      BY <1>5, <2>1
    <3>2. PICK m : m = [l EXCEPT !.stage = None, !.moved = FALSE, !.evidence = evidence]
      OBVIOUS
    <3>3. Otherwise(l, m) /\ Becomes(leg, m)
      BY <2>3, <3>1, <3>2 DEF Otherwise, Outcome, IsLeg
    <3> QED BY <3>1, <3>3, BecomesOther
  <2> QED BY <1>10, <2>2, <2>3 DEF PublishEvidence
<1>11. ASSUME RollbackFailed(leg) PROVE Stepped(leg)
  <2>1. PICK state \in Failed(leg) :
            Becomes(leg, [state EXCEPT !.stage = None, !.moved = FALSE, !.rollback = "failed"])
    BY <1>11 DEF RollbackFailed
  <2>2. PICK l : l = state /\ Outcome(leg, l)
    BY <1>2, FailedOutcome
  <2>3. PICK m : m = [l EXCEPT !.stage = None, !.moved = FALSE, !.rollback = "failed"]
    OBVIOUS
  <2>4. Otherwise(l, m) /\ Becomes(leg, m)
    BY <2>1, <2>2, <2>3 DEF Otherwise, Outcome, IsLeg
  <2> QED BY <2>2, <2>4, BecomesOther
<1>12. CASE CheckRollback(leg)
  <2>1. ASSUME Becomes(leg, [legs[leg] EXCEPT !.rollback = "delete"]) PROVE Stepped(leg)
    <3>1. PICK l : l = legs[leg] /\ Outcome(leg, l)
      BY <1>2, StillOutcome
    <3>2. PICK m : m = [l EXCEPT !.rollback = "delete"]
      OBVIOUS
    <3>3. Otherwise(l, m) /\ Becomes(leg, m)
      BY <2>1, <3>1, <3>2 DEF Otherwise, Outcome, IsLeg
    <3> QED BY <3>1, <3>3, BecomesOther
  <2> QED BY <1>11, <1>12, <2>1 DEF CheckRollback
<1>13. CASE DeleteArchive(leg)
  <2>1. ASSUME NEW state \in Failed(leg),
               Becomes(leg, [state EXCEPT !.stage = None, !.moved = FALSE, !.rollback = None,
                                          !.archive = None])
        PROVE  Stepped(leg)
    <3>1. PICK l : l = state /\ Outcome(leg, l)
      BY <1>2, FailedOutcome
    <3>2. PICK m : m = [l EXCEPT !.stage = None, !.moved = FALSE, !.rollback = None,
                                 !.archive = None]
      OBVIOUS
    <3>3. Otherwise(l, m) /\ Becomes(leg, m)
      BY <2>1, <3>1, <3>2 DEF Otherwise, Outcome, IsLeg
    <3> QED BY <3>1, <3>3, BecomesOther
  <2> QED BY <1>11, <1>13, <2>1 DEF DeleteArchive
<1>14. CASE Upload(leg) \/ Mock(leg) \/ Aggregate(leg)
  <2>1. Becomes(leg, Succeeded(leg)) \/ \E state \in Failed(leg) : Becomes(leg, state)
    BY <1>14 DEF Upload, Mock, Aggregate
  <2>2. For(leg) /\ Command(leg).do \in Special
    BY <1>14 DEF Upload, Mock, Aggregate, Does, Special
  <2>3. Outcome(leg, Succeeded(leg))
    BY <1>5, <2>2, Zenon
  <2> QED BY <1>4, <2>1, <2>3 DEF Stepped
<1>15. CASE Download(leg)
  <2>1. For(leg) /\ Command(leg).do \in Special
    BY <1>15 DEF Download, Does, Special
  <2>2. ASSUME NEW input, Becomes(leg, [Succeeded(leg) EXCEPT !.input = input])
        PROVE  Stepped(leg)
    <3>1. PICK l : l = Succeeded(leg) /\ Outcome(leg, l)
      BY <1>5, <2>1
    <3>2. PICK m : m = [l EXCEPT !.input = input]
      OBVIOUS
    <3>3. Otherwise(l, m) /\ Becomes(leg, m)
      BY <2>2, <3>1, <3>2 DEF Otherwise, Outcome, IsLeg
    <3> QED BY <3>1, <3>3, BecomesOther
  <2> QED BY <1>4, <1>15, <2>2 DEF Download
<1>16. CASE Meddle(leg)
  <2>1. ASSUME NEW archive, NEW rollback,
               Becomes(leg, [legs[leg] EXCEPT !.archive = archive, !.rollback = rollback])
        PROVE  Stepped(leg)
    <3>1. PICK l : l = legs[leg] /\ Outcome(leg, l)
      BY <1>2, StillOutcome
    <3>2. PICK m : m = [l EXCEPT !.archive = archive, !.rollback = rollback]
      OBVIOUS
    <3>3. Otherwise(l, m) /\ Becomes(leg, m)
      BY <2>1, <3>1, <3>2 DEF Otherwise, Outcome, IsLeg
    <3> QED BY <3>1, <3>3, BecomesOther
  <2>2. ASSUME NEW evidence, Becomes(leg, [legs[leg] EXCEPT !.evidence = evidence])
        PROVE  Stepped(leg)
    <3>1. PICK l : l = legs[leg] /\ Outcome(leg, l)
      BY <1>2, StillOutcome
    <3>2. PICK m : m = [l EXCEPT !.evidence = evidence]
      OBVIOUS
    <3>3. Otherwise(l, m) /\ Becomes(leg, m)
      BY <2>2, <3>1, <3>2 DEF Otherwise, Outcome, IsLeg
    <3> QED BY <3>1, <3>3, BecomesOther
  <2> QED BY <1>16, <2>1, <2>2 DEF Meddle
<1> QED BY <1>6, <1>7, <1>8, <1>9, <1>10, <1>12, <1>13, <1>14, <1>15, <1>16 DEF LegStep

-----------------------------------------------------------------------------
(* Runners of a repository that was accepted.                              *)

\* The marks of a text are those of its steps.
LEMMA TextMarks ==
  ASSUME NEW c, NEW steps, AreSteps(c, steps), NEW x
  PROVE  /\ x \in ToSet(RunText(steps)) =>
               \E n \in 1..Len(steps) : x \in ToSet(steps[n].run)
         /\ \A n \in 1..Len(steps) :
               x \in ToSet(steps[n].run) => x \in ToSet(RunText(steps))
<1> DEFINE N == Len(steps)
           runs == [n \in 1..N |-> steps[n].run]
           text == RunText(steps)
<1>1. N \in Nat /\ \A n \in 1..N : steps[n] \in ToSet(steps) /\ runs[n] = steps[n].run
  BY ListsFacts
<1>2. PICK r : IsOffsets(r, runs, text)
  BY TextFacts
<1>3. IsList(text) /\ Len(runs) = N /\ \A n \in 1..N : IsList(runs[n])
  BY <1>1, TextFacts DEF AreSteps
<1> HIDE DEF runs, text, N
<1>4. \A u \in 1..Len(text) : \E n \in 1..N : \E j \in 1..Len(runs[n]) : u = r[n - 1] + j
  BY <1>2, <1>3 DEF IsOffsets
<1>5. \A n \in 1..N : \A j \in 1..Len(runs[n]) :
          r[n - 1] + j \in 1..Len(text) /\ text[r[n - 1] + j] = runs[n][j]
  BY <1>2, <1>3 DEF IsOffsets
<1>6. ASSUME x \in ToSet(text) PROVE \E n \in 1..N : x \in ToSet(runs[n])
  <2>1. PICK u \in 1..Len(text) : x = text[u] BY <1>3, <1>6, ListFacts
  <2>2. PICK n \in 1..N : \E j \in 1..Len(runs[n]) : u = r[n - 1] + j BY <1>4
  <2>3. PICK j \in 1..Len(runs[n]) : u = r[n - 1] + j BY <2>2
  <2>4. x = runs[n][j] BY <1>5, <2>1, <2>3
  <2>5. runs[n][j] \in ToSet(runs[n]) BY <1>3, ListFacts
  <2> QED BY <2>4, <2>5
<1>7. ASSUME NEW n \in 1..N, x \in ToSet(runs[n]) PROVE x \in ToSet(text)
  <2>1. PICK j \in 1..Len(runs[n]) : x = runs[n][j] BY <1>3, <1>7, ListFacts
  <2>2. PICK u : u = r[n - 1] + j OBVIOUS
  <2>3. u \in 1..Len(text) /\ text[u] = x BY <1>5, <2>1, <2>2
  <2> QED BY <1>3, <2>3, ListFacts
<1> QED BY <1>1, <1>6, <1>7 DEF text, N

\* A step with a text has a command.
LEMMA SomeCommand ==
  ASSUME NEW c, IsList(c.repo.spike), Len(c.repo.spike) # 0, NEW step, IsList(step.run),
         NEW x \in ToSet(step.run), NEW n
  PROVE  1 \in 1..Len(StepCommands(c, step, n))
<1>1. CASE step.uses # NoAction
  <2>1. StepCommands(c, step, n) = <<NewCommand(step.uses, n, FALSE)>>
    BY <1>1, StepCommandsIs
  <2>2. Len(StepCommands(c, step, n)) = 1
    BY <2>1, Single
  <2>3. 1 \in 1..1
    OBVIOUS
  <2> QED BY <2>2, <2>3, Zenon
<1>2. CASE step.uses = NoAction
  <2> DEFINE N == Len(step.run)
             lists == [k \in 1..N |-> MarkCommands(c, step.run[k], n)]
             cs == FlattenSeq(lists)
  <2>1. N \in Nat /\ DOMAIN step.run = 1..N /\ \E k \in 1..N : x = step.run[k]
    BY ListFacts
  <2>2. StepCommands(c, step, n) = cs
    BY <1>2, <2>1, StepCommandsIs
  <2>3. \A k \in 1..N : lists[k] = MarkCommands(c, step.run[k], n)
    OBVIOUS
  <2>4. IsList(lists) /\ Len(lists) = N
    <3>1. lists = [k \in 1..N |-> lists[k]] OBVIOUS
    <3> HIDE DEF lists, N
    <3> QED BY <2>1, <3>1, ListOf
  <2> HIDE DEF lists, cs, N
  <2>5. \A k \in 1..N : IsList(lists[k]) /\ Len(lists[k]) \in Nat /\ Len(lists[k]) # 0
    <3> TAKE k \in 1..N
    <3>1. IsMarked(c, step.run[k], n, lists[k]) BY <2>3, MarkFacts
    <3>2. CASE step.run[k] = "verify-spike"
      <4>1. IsList(lists[k]) /\ Len(lists[k]) = Len(c.repo.spike)
        BY <3>1, <3>2, Zenon DEF IsMarked
      <4>2. Len(lists[k]) \in Nat BY <4>1, ListFacts
      <4>3. Len(lists[k]) # 0 BY <4>1, Zenon
      <4> QED BY <4>1, <4>2, <4>3, Zenon
    <3>3. CASE step.run[k] # "verify-spike"
      <4>1. IsList(lists[k]) /\ Len(lists[k]) = 1
        BY <3>1, <3>3, Zenon DEF IsMarked
      <4>2. 1 \in Nat /\ 1 # 0 OBVIOUS
      <4> QED BY <4>1, <4>2, Zenon
    <3> QED BY <3>2, <3>3
  <2>6. PICK o : IsOffsets(o, lists, cs)
    BY <2>4, <2>5, Flattened DEF cs
  <2>7. IsList(cs)
    BY <2>4, <2>5, Flattened DEF cs
  <2>8. PICK k \in 1..N : x = step.run[k]
    BY <2>1
  <2>9. 1 \in 1..Len(lists[k])
    <3> DEFINE L == Len(lists[k])
    <3>1. L \in Nat /\ L # 0 BY <2>5
    <3> HIDE DEF L
    <3> QED BY <3>1 DEF L
  <2>10. o[k - 1] + 1 \in 1..Len(cs)
    BY <2>4, <2>6, <2>9 DEF IsOffsets
  <2>11. Len(cs) \in Nat
    BY <2>7, ListFacts
  <2>12. 1 \in 1..Len(cs)
    <3> DEFINE L == Len(cs)
               u == o[k - 1] + 1
    <3>1. L \in Nat /\ u \in 1..L BY <2>10, <2>11
    <3> HIDE DEF L, u
    <3> QED BY <3>1 DEF L
  <2> QED BY <2>2, <2>12
<1> QED BY <1>1, <1>2

\* Steps with a text make a program that has a command.
LEMMA SomeProgram ==
  ASSUME NEW c, NEW steps, AreSteps(c, steps), Len(c.repo.spike) # 0,
         NEW x \in ToSet(RunText(steps))
  PROVE  1 \in 1..Len(FlattenSeq(Lists(c, steps)))
<1> DEFINE N == Len(steps)
           lists == Lists(c, steps)
           P == FlattenSeq(lists)
<1>1. /\ N \in Nat /\ Len(lists) = N
      /\ \A n \in 1..N : lists[n] = StepCommands(c, steps[n], n) /\ steps[n] \in ToSet(steps)
  BY ListsFacts
<1>2. PICK o : IsOffsets(o, lists, P)
  BY ProgramFacts
<1>3. Len(P) \in Nat
  BY ProgramFacts, ListFacts DEF IsProgram
<1>4. PICK n \in 1..N : x \in ToSet(steps[n].run)
  BY TextMarks
<1>5. 1 \in 1..Len(lists[n])
  <2>1. IsList(c.repo.spike) /\ IsList(steps[n].run)
    BY <1>1 DEF AreSteps
  <2>2. 1 \in 1..Len(StepCommands(c, steps[n], n))
    BY <1>4, <2>1, SomeCommand
  <2> HIDE DEF lists
  <2> QED BY <1>1, <2>2
<1> HIDE DEF lists, P, N
<1>6. o[n - 1] + 1 \in 1..Len(P)
  BY <1>1, <1>2, <1>5 DEF IsOffsets
<1>7. 1 \in 1..Len(P)
  <2> DEFINE L == Len(P)
             u == o[n - 1] + 1
  <2>1. L \in Nat /\ u \in 1..L BY <1>3, <1>6
  <2> HIDE DEF L, u
  <2> QED BY <2>1 DEF L
<1> QED BY <1>7 DEF P, lists

-----------------------------------------------------------------------------
\* A repository that was accepted, and people review.
Sound ==
    /\ case \in Cases /\ case.event \in {"push", "dispatch"} /\ ValidateWorkflows(case.repo)
    /\ program = [leg \in Runners(case) |-> ProgramOf(case, leg)]

\* A runner's job is a matrix job or the one that aggregates.
LEMMA LegJob ==
  ASSUME Sound, NEW leg \in Runners(case)
  PROVE  /\ case.event = "push" =>
               /\ leg # Aggregator /\ Document = case.repo.ci /\ MatrixJob = "spike"
               /\ JobOf(leg) = case.repo.ci.jobs["spike"]
         /\ case.event = "dispatch" =>
               /\ Document = case.repo.release /\ MatrixJob = "package"
               /\ leg = Aggregator => JobOf(leg) = case.repo.release.jobs["aggregate"]
               /\ leg # Aggregator => JobOf(leg) = case.repo.release.jobs["package"]
<1>1. case.event = "push" => leg # Aggregator
  BY CasesAssumption DEF Sound
<1> QED BY <1>1 DEF JobOf, Document, DocumentOf, MatrixJob, MatrixJobOf, Sound

\* A runner's program is that of its job's steps.
LEMMA JobSteps ==
  ASSUME Sound, NEW leg \in Runners(case)
  PROVE  /\ AreSteps(case, JobOf(leg).steps)
         /\ program[leg] = FlattenSeq(Lists(case, JobOf(leg).steps))
         /\ JobOf(leg) \in {Document.jobs[job] : job \in DOMAIN Document.jobs}
<1> DEFINE name == IF leg = Aggregator THEN "aggregate" ELSE MatrixJob
<1>1. JobOf(leg) = Document.jobs[name]
  BY DEF JobOf
<1>2. name \in DOMAIN Document.jobs
  <2>1. CASE case.event = "push"
    <3>1. DOMAIN case.repo.ci.jobs = {"spike"}
      BY DEF Sound, ValidateWorkflows, ValidateCi
    <3> QED BY <2>1, <3>1, LegJob
  <2>2. CASE case.event = "dispatch"
    <3>1. DOMAIN case.repo.release.jobs = {"package", "aggregate"}
      BY DEF Sound, ValidateWorkflows, ValidateRelease
    <3> QED BY <2>2, <3>1, LegJob
  <2> QED BY <2>1, <2>2 DEF Sound
<1> DEFINE steps == JobOf(leg).steps
<1>3. AreSteps(case, steps)
  <2>1. Document.jobs[name] = DocumentOf(case).jobs[name] /\ name \in DOMAIN DocumentOf(case).jobs
    BY <1>2 DEF Document
  <2> HIDE DEF name
  <2> QED BY <1>1, <2>1, DocumentsAssumption DEF AreSteps, Sound
<1>4. program[leg] = ProgramOf(case, leg)
  BY DEF Sound
<1>5. ProgramOf(case, leg) = FlattenSeq([n \in DOMAIN steps |-> StepCommands(case, steps[n], n)])
  BY DEF ProgramOf, JobOf, Document, MatrixJob
<1>6. DOMAIN steps = 1..Len(steps)
  BY <1>3, ListFacts DEF AreSteps
<1>7. program[leg] = FlattenSeq(Lists(case, steps))
  BY <1>4, <1>5, <1>6 DEF Lists
<1> HIDE DEF name
<1> QED BY <1>1, <1>2, <1>3, <1>7

\* Each runner's program has a first command.
LEMMA SoundPrograms ==
  ASSUME Sound, NEW leg \in Runners(case)
  PROVE  LegProgram(leg) /\ 1 \in DOMAIN program[leg]
<1>1. /\ AreSteps(case, JobOf(leg).steps)
      /\ program[leg] = FlattenSeq(Lists(case, JobOf(leg).steps))
  BY JobSteps
<1>2. IsProgram(case, JobOf(leg).steps, program[leg])
  BY <1>1, ProgramFacts
<1>3. Len(program[leg]) \in Nat /\ DOMAIN program[leg] = 1..Len(program[leg])
  BY <1>2, ListFacts DEF IsProgram
<1>4. Len(case.repo.spike) # 0
  <2>1. Find(case.repo.spike, "update") # 0
    <3>1. 0 < Find(case.repo.spike, "update")
      BY DEF Sound, ValidateWorkflows, ValidateSpike, AssertDependencyResolutionOrder
    <3> QED BY <3>1
  <2>2. IsList(case.repo.spike)
    BY <1>1 DEF AreSteps
  <2>3. Find(case.repo.spike, "update") \in 1..Len(case.repo.spike)
    BY <2>1, <2>2, FindFacts
  <2>4. ASSUME Len(case.repo.spike) = 0 PROVE FALSE
    <3>1. Find(case.repo.spike, "update") \in 1..0 BY <2>3, <2>4
    <3> QED BY <3>1
  <2> QED BY <2>4
<1>5. \E x : x \in ToSet(RunText(JobOf(leg).steps))
  <2>1. CASE case.event = "push"
    <3>1. Has(RunText(case.repo.ci.jobs["spike"].steps), {"verify-spike", "git-diff", "hashed-pip"})
      BY DEF Sound, ValidateWorkflows, ValidateCi
    <3> QED BY <2>1, <3>1, LegJob DEF Has
  <2>2. CASE case.event = "dispatch" /\ leg = Aggregator
    <3>1. Has(RunText(case.repo.release.jobs["aggregate"].steps), {"aggregate"})
      BY DEF Sound, ValidateWorkflows, ValidateRelease
    <3> QED BY <2>2, <3>1, LegJob DEF Has
  <2>3. CASE case.event = "dispatch" /\ leg # Aggregator
    <3>1. AssertMoonbitContract(case.repo.release.jobs["package"],
                                RunText(case.repo.release.jobs["package"].steps))
      BY DEF Sound, ValidateWorkflows, ValidateRelease
    <3> QED BY <2>3, <3>1, LegJob DEF AssertMoonbitContract, Has
  <2> QED BY <2>1, <2>2, <2>3 DEF Sound
<1>6. 1 \in 1..Len(program[leg])
  BY <1>1, <1>4, <1>5, SomeProgram
<1> QED BY <1>1, <1>2, <1>3, <1>6 DEF LegProgram

-----------------------------------------------------------------------------
(* The text of a release job, and the script of a push.                    *)

Approved == {"checkout", "setup-node", "setup-python", "upload", "download"}

\* A command that is not of a script is an approved action or in the text.
IsInText(leg, n) ==
    LET step == JobOf(leg).steps[program[leg][n].step]
    IN  /\ step \in ToSet(JobOf(leg).steps)
        /\ program[leg][n].script => "verify-spike" \in ToSet(step.run)
        /\ ~program[leg][n].script =>
              \/ program[leg][n].do \in Approved
              \/ /\ step.uses = NoAction /\ program[leg][n].do \in ToSet(step.run)
                 /\ program[leg][n].do \in ToSet(RunText(JobOf(leg).steps))

\* IsInText holds of every command of an accepted job.
LEMMA InText ==
  ASSUME Sound, NEW leg \in Runners(case), NEW n \in 1..Len(program[leg])
  PROVE  IsInText(leg, n)
<1> DEFINE steps == JobOf(leg).steps
           command == program[leg][n]
           step == steps[command.step]
<1>1. AreSteps(case, steps) /\ IsProgram(case, steps, program[leg])
  BY SoundPrograms DEF LegProgram
<1>2. command.step \in 1..Len(steps)
  BY <1>1 DEF IsProgram
<1>3. step \in ToSet(steps)
  BY <1>1, <1>2, ListsFacts
<1>4. command.script => "verify-spike" \in ToSet(step.run)
  BY <1>1 DEF IsProgram
<1>5. ASSUME ~command.script, step.uses # NoAction PROVE command.do \in Approved
  <2>1. command.do = step.uses
    BY <1>1, <1>5 DEF IsProgram, IsWritten
  <2>2. AssertActionPins(Document)
    BY LegJob DEF Sound, ValidateWorkflows, ValidateCi, ValidateRelease
  <2>3. step \in StepsOf(Document)
    <3> HIDE DEF step
    <3> QED BY <1>3, JobSteps DEF StepsOf
  <2> QED BY <1>5, <2>1, <2>2, <2>3 DEF AssertActionPins, Approved
<1>6. ASSUME ~command.script, step.uses = NoAction
      PROVE  command.do \in ToSet(step.run) /\ command.do \in ToSet(RunText(steps))
  <2>1. command.do \in ToSet(step.run)
    BY <1>1, <1>6 DEF IsProgram, IsWritten
  <2> QED BY <1>1, <1>2, <2>1, TextMarks
<1> QED BY <1>3, <1>4, <1>5, <1>6 DEF IsInText

\* The package job of a release, and what Plain says of it.
LEMMA ReleasePackageJob ==
  ASSUME Sound, case.event = "dispatch", NEW leg \in Runners(case), leg # Aggregator
  PROVE  /\ JobOf(leg) = Document.jobs[MatrixJob] /\ JobOf(leg).env = "contract"
         /\ "install-latest" \notin ToSet(RunText(JobOf(leg).steps))
         /\ AssertDependencyResolutionOrder(RunText(JobOf(leg).steps), "package")
<1>1. /\ JobOf(leg) = case.repo.release.jobs["package"]
      /\ Document = case.repo.release /\ MatrixJob = "package"
  BY LegJob
<1>2. /\ AssertMoonbitContract(JobOf(leg), RunText(JobOf(leg).steps))
      /\ AssertDependencyResolutionOrder(RunText(JobOf(leg).steps), "package")
  BY <1>1 DEF Sound, ValidateWorkflows, ValidateRelease
<1> QED BY <1>1, <1>2 DEF AssertMoonbitContract

\* A release job whose documents are plain runs no script.
LEMMA NoScripts ==
  ASSUME Sound, case.event = "dispatch", Plain, NEW leg \in Runners(case)
  PROVE  /\ \A step \in ToSet(JobOf(leg).steps) : "verify-spike" \notin ToSet(step.run)
         /\ \A n \in 1..Len(program[leg]) : ~program[leg][n].script
<1>1. \A step \in ToSet(JobOf(leg).steps) : "verify-spike" \notin ToSet(step.run)
  <2>1. CASE leg = Aggregator
    <3>1. JobOf(leg) = Document.jobs["aggregate"] /\ case.event # "push"
      BY <2>1, LegJob
    <3>2. \A step \in ToSet(Document.jobs["aggregate"].steps) :
              "verify-spike" \notin ToSet(step.run)
      BY <3>1 DEF Plain
    <3> QED BY <3>1, <3>2
  <2>2. CASE leg # Aggregator
    <3>1. JobOf(leg) = Document.jobs[MatrixJob]
      BY <2>2, ReleasePackageJob
    <3>2. \A step \in ToSet(Document.jobs[MatrixJob].steps) :
              "verify-spike" \notin ToSet(step.run)
      BY DEF Plain
    <3> QED BY <3>1, <3>2
  <2> QED BY <2>1, <2>2
<1>2. ASSUME NEW n \in 1..Len(program[leg]) PROVE ~program[leg][n].script
  BY <1>1, InText DEF IsInText
<1> QED BY <1>1, <1>2

\* A step of a runner keeps what is said of its toolchain.
LEMMA ToolOutcome ==
  ASSUME Sound, NEW leg \in Runners(case), Running(leg), LegTool(leg, legs[leg]),
         NEW l, Outcome(leg, l)
  PROVE  LegTool(leg, l)
<1>1. /\ l.tool = legs[leg].tool \/ (Command(leg).do \in Installs /\ l.tool = Tool(leg))
      /\ "update" \in l.done => \/ "update" \in legs[leg].done
                               \/ legs[leg].tool # None
  BY DEF Outcome
<1>2. Command(leg).do \in Installs => Tool(leg) \in {"latest", "snapshot", "other"}
  BY DEF Tool
<1>3. "update" \in l.done => l.tool # None
  <2>1. None \notin {"latest", "snapshot", "other"}
    BY NoneAssumption
  <2> QED BY <1>1, <1>2, <2>1 DEF LegTool
<1>4. ASSUME case.event = "dispatch", Plain, leg # Aggregator, Command(leg).do \in Installs
      PROVE  Tool(leg) = "snapshot"
  <2>1. legs[leg].at \in 1..Len(program[leg])
    BY RunningAt
  <2>2. Command(leg).do \in ToSet(RunText(JobOf(leg).steps))
    BY <1>4, <2>1, InText, NoScripts DEF IsInText, Command, Installs, Approved
  <2>3. Command(leg).do # "install-latest" /\ JobOf(leg).env = "contract"
    BY <1>4, <2>2, ReleasePackageJob
  <2> QED BY <1>4, <2>3 DEF Tool
<1> QED BY <1>1, <1>3, <1>4 DEF LegTool

\* A runner that packages has done, certainly, what the text says before.
LEMMA ResolvedBefore ==
  ASSUME Sound, case.event = "dispatch", Plain, NEW leg \in Runners(case), Running(leg),
         For(leg), Command(leg).do \in Packaging
  PROVE  leg # Aggregator /\ {"update", "provenance", "check"} \subseteq legs[leg].done
<1> DEFINE P == program[leg]
           i == legs[leg].at
           steps == JobOf(leg).steps
           text == RunText(steps)
<1>1. /\ i \in 1..Len(P) /\ P[i] = Command(leg) /\ Len(P) \in Nat
      /\ P[i].do \in {"package", "package-otherwise"}
  BY RunningAt DEF Command, Packaging
<1>2. /\ ~P[i].script /\ P[i].do \in ToSet(steps[P[i].step].run)
      /\ steps[P[i].step] \in ToSet(steps) /\ steps[P[i].step].uses = NoAction
  BY <1>1, InText, NoScripts DEF IsInText, Approved
<1>3. leg # Aggregator
  <2> SUFFICES ASSUME leg = Aggregator PROVE FALSE
    OBVIOUS
  <2>1. JobOf(leg) = Document.jobs["aggregate"]
    BY LegJob
  <2>2. \A step \in ToSet(Document.jobs["aggregate"].steps) :
            ToSet(step.run) \cap {"package", "package-otherwise", "verify-spike"} = {}
    <3>1. case.event # "push"
      OBVIOUS
    <3>2. QED
      BY <3>1 DEF Plain
  <2> QED BY <1>1, <1>2, <2>1, <2>2
<1>4. JobOf(leg) = Document.jobs[MatrixJob] /\ AssertDependencyResolutionOrder(text, "package")
  BY <1>3, ReleasePackageJob
<1>5. \A step \in ToSet(steps) :
          /\ ToSet(step.run) \cap {"update", "provenance", "check"} # {} =>
                step.strict /\ step.when = "always"
          /\ "package-otherwise" \notin ToSet(step.run)
  BY <1>4 DEF Plain
<1>6. P[i].do = "package"
  BY <1>1, <1>2, <1>5
<1>7. AreSteps(case, steps) /\ P = FlattenSeq(Lists(case, steps))
  BY JobSteps
<1>8. \A step \in ToSet(steps) : "verify-spike" \notin ToSet(step.run)
  BY NoScripts
<1> HIDE DEF P, i, steps, text
<1>9. InOrder(steps, P, i)
  BY <1>1, <1>2, <1>7, <1>8, TextOrder
<1>10. IsList(text) /\ text = RunText(steps) /\ Len(text) \in Nat
  BY <1>7, TextFacts, ListFacts DEF text
<1>13. PICK t \in 1..Len(text) :
          /\ text[t] = P[i].do
          /\ \A u \in 1..(t - 1) : \E m \in 1..(i - 1) :
                P[m].do = text[u] /\ P[m].do \in ToSet(steps[P[m].step].run)
  BY <1>9, <1>10 DEF InOrder
<1>11. ASSUME NEW x \in {"update", "provenance", "check"}
       PROVE  /\ Find(text, x) \in 1..(t - 1) /\ text[Find(text, x)] = x
  <2>1. Find(text, "package") <= t /\ t \in Nat
    BY <1>6, <1>10, <1>13, FindFacts
  <2>2. /\ Find(text, "update") \in Nat /\ Find(text, "provenance") \in Nat
        /\ Find(text, "check") \in Nat /\ Find(text, "package") \in Nat /\ Find(text, x) \in Nat
    BY <1>10, FindFacts
  <2>3. /\ 0 < Find(text, "update") /\ Find(text, "update") < Find(text, "provenance")
        /\ Find(text, "provenance") < Find(text, "check")
        /\ Find(text, "check") < Find(text, "package")
    BY <1>4 DEF AssertDependencyResolutionOrder
  <2>4. 0 < Find(text, x) /\ Find(text, x) < t
    BY <1>11, <2>1, <2>2, <2>3
  <2>5. Find(text, x) # 0
    BY <2>2, <2>4
  <2>6. text[Find(text, x)] = x
    BY <1>10, <2>5, FindFacts
  <2>7. Find(text, x) \in 1..(t - 1)
    BY <2>1, <2>2, <2>4
  <2> QED BY <2>6, <2>7
<1>12. ASSUME NEW x \in {"update", "provenance", "check"} PROVE x \in legs[leg].done
  <2>1. PICK m \in 1..(i - 1) : P[m].do = x /\ x \in ToSet(steps[P[m].step].run)
    <3>1. PICK u \in 1..(t - 1) : text[u] = x
      BY <1>11
    <3> QED BY <1>13, <3>1
  <2>2. m \in 1..Len(P)
    BY <1>1
  <2>3. steps[P[m].step] \in ToSet(steps)
    BY <2>2, InText DEF IsInText, P, steps
  <2>4. steps[P[m].step].strict /\ steps[P[m].step].when = "always"
    BY <1>5, <2>1, <2>3
  <2>5. Certain(leg, m, i)
    BY <2>4 DEF Certain, P, steps
  <2>6. \A n \in 1..(i - 1) : Certain(leg, n, i) => P[n].do \in legs[leg].done
    BY DEF Running, LegOrder, P, i
  <2> QED BY <2>1, <2>5, <2>6
<1> QED BY <1>3, <1>12

\* A runner that tests, or says GO, has done what the script says before.
LEMMA ScriptBefore ==
  ASSUME Sound, case.event = "push", NEW leg \in Runners(case), Running(leg), For(leg),
         \A step \in ToSet(JobOf(leg).steps) : Command(leg).do \notin ToSet(step.run),
         Command(leg).do \notin Approved,
         NEW x, 0 < Find(case.repo.spike, x),
         Find(case.repo.spike, x) < Find(case.repo.spike, Command(leg).do)
  PROVE  x \in legs[leg].done
<1> DEFINE P == program[leg]
           i == legs[leg].at
           spike == case.repo.spike
           K == Len(spike)
<1>1. i \in 1..Len(P) /\ P[i] = Command(leg) /\ Len(P) \in Nat /\ DOMAIN P = 1..Len(P)
  BY RunningAt DEF Command
<1>2. P[i].script
  <2> SUFFICES ASSUME ~P[i].script PROVE FALSE OBVIOUS
  <2>1. P[i].script \in BOOLEAN BY <1>1, ProgramOrder DEF Running
  <2> QED BY <1>1, <2>1, InText DEF IsInText
<1>3. InScript(case, P, i)
  BY <1>1, <1>2 DEF Running, LegProgram, IsProgram
<1>4. PICK b \in Nat :
          /\ b < i /\ i <= b + K /\ b + K <= Len(P)
          /\ \A j \in 1..K : P[b + j].do = spike[j] /\ P[b + j].script
                             /\ P[b + j].step = P[i].step
  BY <1>3 DEF InScript
<1>5. IsList(spike) /\ K \in Nat
  BY ListFacts, JobSteps DEF AreSteps
<1> HIDE DEF P, i, spike, K
<1>6. i - b \in 1..K /\ b + (i - b) = i
  BY <1>1, <1>4, <1>5
<1>7. spike[i - b] = P[i].do
  BY <1>4, <1>6
<1>8. Find(spike, P[i].do) <= i - b
  BY <1>5, <1>6, <1>7, FindFacts DEF K
<1> DEFINE f == Find(spike, x)
<1>9. f \in Nat /\ Find(spike, P[i].do) \in Nat /\ 0 < f /\ f < Find(spike, P[i].do)
  BY <1>1, <1>5, FindFacts DEF spike
<1>10. spike[f] = x /\ f \in 1..K
  <2>1. Find(spike, x) # 0 BY <1>9
  <2> QED BY <1>5, <2>1, FindFacts DEF K
<1> HIDE DEF f
<1>11. b + f \in 1..(i - 1)
  BY <1>1, <1>4, <1>6, <1>8, <1>9
<1>12. P[b + f].do = x /\ P[b + f].script /\ P[b + f].step = P[i].step
  BY <1>4, <1>10
<1>13. Certain(leg, b + f, i)
  <2>1. JobOf(leg).steps[P[i].step].when \in {"always", PlatformOf(leg)}
    BY <1>1 DEF For, StepOf, P, i
  <2> QED BY <1>1, <1>12, <2>1 DEF Certain, P
<1>14. \A n \in 1..(i - 1) : Certain(leg, n, i) => P[n].do \in legs[leg].done
  BY DEF Running, LegOrder, P, i
<1> QED BY <1>11, <1>12, <1>13, <1>14

-----------------------------------------------------------------------------
(* The orders that are accepted.                                           *)

\* The orders that the script of an accepted repository has.
LEMMA ScriptOrder ==
  ASSUME Sound, IsList(case.repo.spike), NEW x, NEW last,
         (x \in Resolving /\ last = "test") \/ (x \in Consuming /\ last = "GO")
  PROVE  0 < Find(case.repo.spike, x) /\ Find(case.repo.spike, x) < Find(case.repo.spike, last)
<1> DEFINE At2(mark) == Find(case.repo.spike, mark)
<1>1. \A mark : At2(mark) \in Nat
  BY FindFacts
<1>2. /\ 0 < At2("npm-ci") /\ At2("npm-ci") < At2("resources") /\ At2("resources") < At2("GO")
      /\ 0 < At2("update") /\ At2("update") < At2("provenance")
      /\ At2("provenance") < At2("check") /\ At2("check") < At2("test")
      /\ At2("provenance") < At2("parser-tests") /\ At2("parser-tests") < At2("check")
      /\ 0 < At2("consumer-tests") /\ At2("consumer-tests") < At2("npm-ci")
      /\ At2("npm-ci") < At2("consumer") /\ At2("consumer") < At2("GO")
  BY DEF Sound, ValidateWorkflows, ValidateSpike, AssertResourceGate,
         AssertDependencyResolutionOrder
<1> HIDE DEF At2
<1>3. 0 < At2(x) /\ At2(x) < At2(last)
  <2>1. CASE x \in Resolving /\ last = "test"
    BY <1>1, <1>2, <2>1 DEF Resolving
  <2>2. CASE x \in Consuming /\ last = "GO"
    BY <1>1, <1>2, <2>2 DEF Consuming
  <2> QED BY <2>1, <2>2
<1> QED BY <1>3 DEF At2

\* A step of a runner keeps the two orders of the Spike script.
LEMMA GatesOutcome ==
  ASSUME Sound, case.event = "push", GoAfterGates,
         \A step \in ToSet(Document.jobs[MatrixJob].steps) :
            ToSet(step.run) \cap (Resolving \cup Consuming \cup {"test", "GO"}) = {},
         NEW leg \in Runners(case), leg \in DOMAIN legs, Running(leg), NEW l, Outcome(leg, l)
  PROVE  /\ "test" \in l.done => Resolving \subseteq l.done
         /\ "GO" \in l.done => Consuming \subseteq l.done
<1>1. \/ l.done = legs[leg].done \cup {Command(leg).do} /\ For(leg)
      \/ l.done = legs[leg].done
  BY DEF Outcome
<1>2. JobOf(leg) = Document.jobs[MatrixJob] /\ IsList(case.repo.spike)
  BY LegJob, JobSteps DEF AreSteps
<1>3. /\ "test" \in legs[leg].done => Resolving \subseteq legs[leg].done
      /\ "GO" \in legs[leg].done => Consuming \subseteq legs[leg].done
  BY DEF GoAfterGates
<1>4. ASSUME For(leg), NEW x, NEW last, Command(leg).do = last,
             (x \in Resolving /\ last = "test") \/ (x \in Consuming /\ last = "GO")
      PROVE  x \in legs[leg].done
  <2>1. \A step \in ToSet(JobOf(leg).steps) : Command(leg).do \notin ToSet(step.run)
    BY <1>2, <1>4
  <2>2. Command(leg).do \notin Approved
    BY <1>4 DEF Approved
  <2>3. /\ 0 < Find(case.repo.spike, x)
        /\ Find(case.repo.spike, x) < Find(case.repo.spike, Command(leg).do)
    BY <1>2, <1>4, ScriptOrder
  <2> QED BY <1>4, <2>1, <2>2, <2>3, ScriptBefore
<1>5. ASSUME "test" \in l.done, NEW x \in Resolving PROVE x \in l.done
  <2>1. CASE "test" \in legs[leg].done
    BY <1>1, <1>3, <2>1
  <2>2. CASE "test" \notin legs[leg].done
    <3>1. For(leg) /\ Command(leg).do = "test"
      BY <1>1, <1>5, <2>2
    <3>2. x \in legs[leg].done
      BY <1>4, <1>5, <3>1, Zenon
    <3> QED BY <1>1, <3>2
  <2> QED BY <2>1, <2>2
<1>6. ASSUME "GO" \in l.done, NEW x \in Consuming PROVE x \in l.done
  <2>1. CASE "GO" \in legs[leg].done
    BY <1>1, <1>3, <2>1
  <2>2. CASE "GO" \notin legs[leg].done
    <3>1. For(leg) /\ Command(leg).do = "GO"
      BY <1>1, <1>6, <2>2
    <3>2. x \in legs[leg].done
      BY <1>4, <1>6, <3>1, Zenon
    <3> QED BY <1>1, <3>2
  <2> QED BY <2>1, <2>2
<1> QED BY <1>5, <1>6

\* The parser that packages is the one that was reviewed, in what is recorded.
LEMMA ParserNamesChanges ==
  ASSUME ParserInv, Reviewed, case \in Cases, Verify(parser)
  PROVE  {n \in DOMAIN parser.files : parser.files[n].body # Upstream[n]} = parser.modified
<1> DEFINE old == case.repo.parser
<1>1. /\ Verify(old) /\ DOMAIN parser.files = DOMAIN old.files
      /\ \A n \in DOMAIN old.recorded :
            (old.files[n].body # Upstream[n]) = old.recorded[n].changed
  BY DEF ParserInv, VerifyUpstream
<1>2. parser.recorded = old.recorded /\ parser.modified = old.modified
  <2>1. parser = [old EXCEPT !.files = parser.files]
    BY DEF ParserInv
  <2>2. old = [files |-> old.files, recorded |-> old.recorded,
               modified |-> old.modified, license |-> old.license]
    BY DocumentsAssumption
  <2> HIDE DEF old
  <2> QED BY <2>1, <2>2
<1>3. DOMAIN old.recorded = DOMAIN old.files
  BY <1>1 DEF Verify
<1>4. \A n \in DOMAIN old.files : parser.files[n].body = old.files[n].body
  BY <1>1, <1>2, <1>3 DEF Verify
<1>5. \A n \in DOMAIN old.files : (parser.files[n].body # Upstream[n]) = old.recorded[n].changed
  BY <1>1, <1>3, <1>4
<1>6. {n \in DOMAIN old.recorded : old.recorded[n].changed} = old.modified
  BY <1>1 DEF Verify
<1> QED BY <1>1, <1>2, <1>3, <1>5, <1>6

-----------------------------------------------------------------------------
(* The invariant of the order, kept by every step.                         *)

\* What the reviewed repository of a run is.
LEMMA SoundNow ==
  ASSUME AuthorityInv, UntouchedInv, Reviewed
  PROVE  Sound /\ DOMAIN legs = Runners(case)
BY DEF AuthorityInv, UntouchedInv, Reviewed, Sound

\* A runner that is ready is one that runs.
LEMMA RunningNow ==
  ASSUME LegsInv, AuthorityInv, UntouchedInv, OrderInv, Reviewed, NEW leg \in DOMAIN legs,
         Ready(leg)
  PROVE  Running(leg)
<1>1. LegProgram(leg)
  BY SoundNow, SoundPrograms
<1> QED BY <1>1 DEF Running, LegsInv, LegInv, OrderInv, Ready

\* The order in which things are done depends on these variables.
LEMMA KeptAlone ==
  ASSUME AcceptedOrderIsKept, UNCHANGED <<case, legs, packaged>>
  PROVE  AcceptedOrderIsKept'
BY DEF AcceptedOrderIsKept, PackagedAsResolved, GoAfterGates, Plain, Document, MatrixJob

\* A step of a runner of an accepted repository.
LEMMA LegStepRun ==
  ASSUME LegsInv, AuthorityInv, RunInv, Reviewed,
         NEW leg \in DOMAIN legs, LegStep(leg) \/ Meddle(leg)
  PROVE  RunInv'
<1>1. /\ Sound /\ DOMAIN legs = Runners(case) /\ LegsInv
      /\ Ready(leg) => Running(leg)
  BY SoundNow, RunningNow DEF RunInv
<1>2. /\ Stepped(leg) /\ UNCHANGED <<case, program, accepted, parser>>
      /\ packaged' = packaged \/ Package(leg)
      /\ Ready(leg)
  BY <1>1, StepOutcome
<1>3. PICK l : Becomes(leg, l) /\ Outcome(leg, l)
  BY <1>2 DEF Stepped
<1>4. /\ DOMAIN legs' = DOMAIN legs /\ legs'[leg] = l
      /\ \A other \in DOMAIN legs \ {leg} : legs'[other] = legs[other]
  BY <1>1, <1>2, <1>3, OneLeg
<1>5. UntouchedInv'
  BY <1>2 DEF UntouchedInv, RunInv, Reviewed
<1>6. Running(leg)
  BY <1>1, <1>2
<1>7. Reviewed'
  BY <1>2 DEF Reviewed
<1>8. OrderInv'
  <2>1. \A r \in DOMAIN legs : LegOrder(r, legs'[r])
    BY <1>3, <1>4 DEF OrderInv, RunInv, Outcome
  <2>2. ASSUME NEW r \in DOMAIN legs, LegOrder(r, legs'[r]) PROVE LegOrder(r, legs[r])'
    BY <1>2, <2>2 DEF LegOrder, Certain, JobOf, Document, MatrixJob, PlatformOf
  <2> QED BY <1>4, <2>1, <2>2 DEF OrderInv
<1>9. ToolInv'
  <2>1. \A r \in DOMAIN legs : LegTool(r, legs[r])
    BY DEF ToolInv, RunInv
  <2>2. LegTool(leg, l)
    BY <1>1, <1>3, <1>6, <2>1, ToolOutcome
  <2>3. ASSUME NEW r \in DOMAIN legs, LegTool(r, legs'[r]) PROVE LegTool(r, legs[r])'
    BY <1>2, <2>3 DEF LegTool, Plain, Document, MatrixJob
  <2> QED BY <1>4, <2>1, <2>2, <2>3 DEF ToolInv
<1>10. ParserInv'
  <2>1. (\E r \in DOMAIN legs' : "provenance" \in legs'[r].done) => Verify(parser)
    <3> SUFFICES ASSUME NEW r \in DOMAIN legs', "provenance" \in legs'[r].done
                 PROVE  Verify(parser)
      OBVIOUS
    <3>1. CASE "provenance" \in legs[r].done
      BY <1>4, <3>1 DEF ParserInv, RunInv
    <3>2. CASE "provenance" \notin legs[r].done
      <4>1. r = leg /\ "provenance" \in l.done
        BY <1>4, <3>2
      <4> QED BY <1>3, <3>2, <4>1 DEF Outcome
    <3> QED BY <3>1, <3>2
  <2>2. Verify(parser)' = Verify(parser)
    BY <1>2 DEF Verify
  <2> QED BY <1>2, <2>1, <2>2 DEF ParserInv, RunInv
<1>11. AcceptedOrderIsKept'
  <2>1. ASSUME case.event = "dispatch" PROVE PackagedAsResolved'
    <3>1. ASSUME NEW p \in packaged', Plain
          PROVE  /\ {"update", "provenance", "check"} \subseteq p.done /\ p.tool = "snapshot"
                 /\ {n \in DOMAIN p.parser.files : p.parser.files[n].body # Upstream[n]}
                        = p.parser.modified
      <4>1. CASE p \in packaged
        BY <2>1, <3>1, <4>1 DEF RunInv, AcceptedOrderIsKept, PackagedAsResolved
      <4>2. CASE p \notin packaged
        <5>1. /\ For(leg) /\ Command(leg).do \in Packaging
              /\ p = [leg |-> leg, done |-> legs[leg].done, tool |-> legs[leg].tool,
                      parser |-> parser]
          BY <1>2, <3>1, <4>2 DEF Package, Does
        <5>2. leg # Aggregator /\ {"update", "provenance", "check"} \subseteq legs[leg].done
          BY <1>1, <1>6, <2>1, <3>1, <5>1, ResolvedBefore
        <5>3. legs[leg].tool = "snapshot"
          BY <2>1, <3>1, <5>2 DEF RunInv, ToolInv, LegTool
        <5>4. Verify(parser)
          BY <5>2 DEF RunInv, ParserInv
        <5>5. {n \in DOMAIN parser.files : parser.files[n].body # Upstream[n]} = parser.modified
          BY <1>1, <5>4, ParserNamesChanges DEF RunInv, Sound
        <5> QED BY <5>1, <5>2, <5>3, <5>5
      <4> QED BY <4>1, <4>2
    <3>2. Plain' = Plain
      BY <1>2 DEF Plain, Document, MatrixJob
    <3> QED BY <3>1, <3>2 DEF PackagedAsResolved
  <2>2. ASSUME case.event = "push" PROVE GoAfterGates'
    <3>1. GoAfterGates
      BY <2>2 DEF RunInv, AcceptedOrderIsKept
    <3>2. Document' = Document /\ MatrixJob' = MatrixJob
      BY <1>2 DEF Document, MatrixJob
    <3>3. ASSUME \A step \in ToSet(Document.jobs[MatrixJob].steps) :
                    ToSet(step.run) \cap (Resolving \cup Consuming \cup {"test", "GO"}) = {},
                 NEW r \in DOMAIN legs
          PROVE  /\ "test" \in legs'[r].done => Resolving \subseteq legs'[r].done
                 /\ "GO" \in legs'[r].done => Consuming \subseteq legs'[r].done
      <4>1. CASE r = leg
        <5>1. /\ "test" \in l.done => Resolving \subseteq l.done
              /\ "GO" \in l.done => Consuming \subseteq l.done
          BY <1>1, <1>3, <1>6, <2>2, <3>1, <3>3, GatesOutcome
        <5> QED BY <1>4, <4>1, <5>1
      <4>2. CASE r # leg
        BY <1>4, <3>1, <3>3, <4>2 DEF GoAfterGates
      <4> QED BY <4>1, <4>2
    <3> QED BY <1>4, <3>2, <3>3 DEF GoAfterGates
  <2> QED BY <1>2, <2>1, <2>2 DEF AcceptedOrderIsKept
<1> QED BY <1>5, <1>8, <1>9, <1>10, <1>11 DEF RunInv

\* A repository is accepted before anything has been done.
LEMMA ValidateRun ==
  ASSUME LegsInv, AuthorityInv, RunInv, Validate
  PROVE  RunInv'
<1>1. /\ UNCHANGED <<case, program, parser, legs, packaged>> /\ accepted # "accepted"
      /\ accepted' = "accepted" =>
            ValidateWorkflows(case.repo) /\ VerifyUpstream(parser, case.upstream)
  BY NoneAssumption DEF Validate
<1>2. /\ parser = case.repo.parser /\ \A leg \in DOMAIN legs : legs[leg] = NewLeg
      /\ program = [leg \in Runners(case) |-> ProgramOf(case, leg)]
  BY <1>1 DEF RunInv, UntouchedInv
<1>3. UntouchedInv'
  BY <1>1, <1>2 DEF UntouchedInv
<1>4. AcceptedOrderIsKept'
  BY <1>1, KeptAlone DEF RunInv
<1>5. ASSUME Reviewed' PROVE (OrderInv /\ ToolInv /\ ParserInv)'
  <2>1. Sound /\ DOMAIN legs = Runners(case)
    BY <1>1, <1>2, <1>5 DEF Sound, Reviewed, AuthorityInv
  <2>2. NewLeg.at = 1 /\ NewLeg.done = {} /\ NewLeg.tool = None
    BY DEF NewLeg
  <2>3. ASSUME NEW leg \in DOMAIN legs PROVE LegOrder(leg, legs[leg])'
    <3>1. LegProgram(leg) /\ 1 \in DOMAIN program[leg]
      BY <2>1, <2>3, SoundPrograms
    <3>2. 1 \in 1..(Len(program[leg]) + 1) /\ 1..(1 - 1) = {}
      <4>1. Len(program[leg]) \in Nat BY <3>1 DEF LegProgram
      <4> QED BY <4>1
    <3>3. LegOrder(leg, NewLeg)
      BY <2>2, <3>1, <3>2 DEF LegOrder
    <3>4. legs'[leg] = NewLeg
      BY <1>1, <1>2
    <3> QED BY <1>1, <3>3, <3>4 DEF LegOrder, Certain, JobOf, Document, MatrixJob, PlatformOf
  <2>4. OrderInv'
    BY <1>1, <2>3 DEF OrderInv
  <2>5. ToolInv'
    BY <1>1, <1>2, <2>2 DEF ToolInv, LegTool
  <2>6. ParserInv'
    <3>1. \A leg \in DOMAIN legs' : legs'[leg].done = {}
      BY <1>1, <1>2, <2>2
    <3>2. case \in Cases
      BY DEF AuthorityInv
    <3>3. parser = [case.repo.parser EXCEPT !.files = parser.files]
      <4> DEFINE old == case.repo.parser
      <4>1. old = [files |-> old.files, recorded |-> old.recorded,
                   modified |-> old.modified, license |-> old.license]
        BY <3>2, DocumentsAssumption
      <4> HIDE DEF old
      <4>2. old = [old EXCEPT !.files = old.files]
        BY <4>1
      <4> QED BY <1>2, <4>2 DEF old
    <3> QED BY <1>1, <1>2, <1>5, <3>1, <3>3 DEF ParserInv, Reviewed
  <2> QED BY <2>4, <2>5, <2>6
<1>6. ASSUME ~Reviewed' PROVE (OrderInv /\ ToolInv /\ ParserInv)'
  BY <1>6 DEF OrderInv, ToolInv, ParserInv
<1> QED BY <1>3, <1>4, <1>5, <1>6 DEF RunInv

\* The parser changes before anything has been done.
LEMMA DriftRun ==
  ASSUME LegsInv, AuthorityInv, RunInv, Drift
  PROVE  RunInv'
<1>1. UNCHANGED <<case, program, accepted, legs, packaged>> /\ accepted = "accepted"
      /\ \A leg \in DOMAIN legs : legs[leg].at = 1
  BY DEF Drift
<1>2. UntouchedInv'
  BY <1>1 DEF RunInv, UntouchedInv
<1>3. AcceptedOrderIsKept'
  BY <1>1, KeptAlone DEF RunInv
<1>4. OrderInv' /\ ToolInv'
  BY <1>1 DEF RunInv, OrderInv, ToolInv, LegOrder, LegTool, Certain, JobOf, Document,
             MatrixJob, PlatformOf, Plain, Reviewed
<1>5. ParserInv'
  <2> SUFFICES ASSUME Reviewed PROVE ParserInv'
    BY <1>1 DEF ParserInv, Reviewed
  <2>1. \A leg \in DOMAIN legs' : legs'[leg].done = {}
    BY <1>1 DEF RunInv, OrderInv, LegOrder
  <2>2. PICK name \in DOMAIN parser.files :
            parser' = [parser EXCEPT !.files[name].body = OtherBody]
    BY DEF Drift
  <2> DEFINE old == case.repo.parser
  <2>3. /\ parser = [old EXCEPT !.files = parser.files]
        /\ DOMAIN parser.files = DOMAIN old.files
    BY DEF RunInv, ParserInv
  <2>4. old = [files |-> old.files, recorded |-> old.recorded,
               modified |-> old.modified, license |-> old.license]
    BY DocumentsAssumption DEF AuthorityInv
  <2> HIDE DEF old
  <2>5. PICK files : /\ parser' = [parser EXCEPT !.files = files]
                     /\ DOMAIN files = DOMAIN parser.files
    <3>1. PICK files : files = [parser.files EXCEPT ![name].body = OtherBody]
      OBVIOUS
    <3>2. DOMAIN files = DOMAIN parser.files
      BY <3>1
    <3>3. parser' = [parser EXCEPT !.files = files]
      BY <2>2, <3>1
    <3> QED BY <3>2, <3>3
  <2>6. parser' = [old EXCEPT !.files = files] /\ parser'.files = files
    BY <2>3, <2>4, <2>5
  <2>7. parser' = [old EXCEPT !.files = parser'.files] /\ DOMAIN parser'.files = DOMAIN old.files
    BY <2>3, <2>5, <2>6
  <2>8. VerifyUpstream(case.repo.parser, case.upstream)
    BY DEF RunInv, ParserInv
  <2> QED BY <1>1, <2>1, <2>7, <2>8 DEF ParserInv, old
<1> QED BY <1>2, <1>3, <1>4, <1>5 DEF RunInv

\* The order holds of nothing.
LEMMA InitRun == Init => RunInv
<1> SUFFICES ASSUME Init PROVE RunInv
  OBVIOUS
<1>1. case.event \in {"push", "dispatch"} => accepted # "accepted"
  BY NoneAssumption DEF Init
<1>2. \A leg \in DOMAIN legs : legs[leg].done = {}
  BY DEF Init, NewLeg
<1>3. UntouchedInv
  BY DEF Init, UntouchedInv
<1>4. AcceptedOrderIsKept
  BY <1>2 DEF Init, AcceptedOrderIsKept, PackagedAsResolved, GoAfterGates
<1> QED BY <1>1, <1>3, <1>4 DEF RunInv, OrderInv, ToolInv, ParserInv, Reviewed

\* Every step keeps the invariant of the order.
LEMMA StepKeepsRun ==
  ASSUME LegsInv, AuthorityInv, RunInv, [Next]_vars
  PROVE  RunInv'
<1>1. ASSUME UNCHANGED <<case, program, accepted, parser, legs, packaged>> PROVE RunInv'
  <2>1. UntouchedInv' /\ AcceptedOrderIsKept'
    BY <1>1, KeptAlone DEF RunInv, UntouchedInv
  <2>2. OrderInv'
    BY <1>1 DEF RunInv, OrderInv, LegOrder, Certain, JobOf, Document, MatrixJob, PlatformOf,
                Reviewed
  <2>3. ToolInv'
    BY <1>1 DEF RunInv, ToolInv, LegTool, Plain, Document, MatrixJob, Reviewed
  <2>4. ParserInv'
    BY <1>1 DEF RunInv, ParserInv, Reviewed, Verify
  <2> QED BY <2>1, <2>2, <2>3, <2>4 DEF RunInv
<1>2. CASE Alter \/ UNCHANGED vars
  BY <1>1, <1>2 DEF Alter, vars
<1>3. ASSUME NEW leg \in DOMAIN legs, LegStep(leg) \/ Meddle(leg) PROVE RunInv'
  <2>1. CASE Reviewed
    BY <1>3, <2>1, LegStepRun
  <2>2. CASE ~Reviewed
    <3>1. Ready(leg) /\ UNCHANGED <<case, program, accepted, parser>>
      BY <1>3 DEF LegStep, Skip, Run, Package, Publish, PublishEvidence, CheckRollback,
                 DeleteArchive, Upload, Mock, Download,
                  Aggregate, Meddle, Does
    <3>2. accepted = "accepted" /\ case.event \notin {"push", "dispatch"}
      BY <2>2, <3>1 DEF Ready, Reviewed
    <3>3. UntouchedInv'
      BY <3>1, <3>2 DEF RunInv, UntouchedInv
    <3> QED BY <3>1, <3>2, <3>3 DEF RunInv, OrderInv, ToolInv, ParserInv, Reviewed,
                                    AcceptedOrderIsKept
  <2> QED BY <2>1, <2>2
<1> QED BY <1>2, <1>3, ValidateRun, DriftRun DEF Next

\* The invariant of a reviewed run: what a runner certainly did before the command
\* it is at, the toolchain it resolved, and the parser that it packages
\* (validate_workflows.py 216-335, verify-vendored-parser.py 22-61).
THEOREM RunInvariant == Spec => []RunInv
<1>1. PipelineInv /\ RunInv /\ [Next]_vars => RunInv'
  BY StepKeepsRun DEF PipelineInv
<1>2. QED
  BY InitRun, PipelineInvariant, <1>1, PTL DEF Spec

\* What is packaged was built with the resolved toolchain, checked, and has the
\* reviewed parser; tests, and the word GO, come after what the accepted script
\* has before them (validate_workflows.py 216-273 and 276-335).
THEOREM AcceptedOrderHolds == Spec => []AcceptedOrderIsKept
BY RunInvariant, PTL DEF RunInv

-----------------------------------------------------------------------------
(* Folds along a path, as the validator, a shell and a file system follow  *)
(* it, and along the members of an archive.                                *)

\* The steps that are folded: one part of a path, one member of an archive.
PathStep(what, place, part) ==
    CASE what = "gate" -> Toward(place, part)
      [] what = "shell" -> Onward(place, part)
      [] what = "path" -> Enter(place, part)
      [] what = "archive" -> Extract(place, part)

Start(what) == IF what = "archive" THEN EmptyTree ELSE <<>>

\* What a fold has after the elements numbered s, from what it has without the last.
Pathing(what, g, path, s) ==
    IF s = {} THEN Start(what) ELSE PathStep(what, g[s \ {Max(s)}], path[Max(s)])

IsPathing(what, g, path, N) == g = [s \in SUBSET (1..N) |-> Pathing(what, g, path, s)]

\* The steps and where they start, one by one.
LEMMA TheSteps ==
    /\ Start("gate") = <<>> /\ Start("shell") = <<>> /\ Start("path") = <<>>
    /\ Start("archive") = EmptyTree
    /\ \A x, y : /\ PathStep("gate", x, y) = Toward(x, y)
               /\ PathStep("shell", x, y) = Onward(x, y)
               /\ PathStep("path", x, y) = Enter(x, y)
               /\ PathStep("archive", x, y) = Extract(x, y)
<1>1. /\ Start("gate") = <<>> /\ Start("shell") = <<>> /\ Start("path") = <<>>
      /\ Start("archive") = EmptyTree
  BY DEF Start
<1>2. ASSUME NEW x, NEW y
      PROVE  /\ PathStep("gate", x, y) = Toward(x, y)
             /\ PathStep("shell", x, y) = Onward(x, y)
             /\ PathStep("path", x, y) = Enter(x, y)
             /\ PathStep("archive", x, y) = Extract(x, y)
  BY DEF PathStep
<1> QED BY <1>1, <1>2

\* The largest of the first numbers is the last one.
LEMMA MaxFacts ==
  ASSUME NEW n \in Nat, NEW s \in SUBSET (1..n), n \in s
  PROVE  Max(s) = n
<1>1. \E x \in s : \A y \in s : x >= y OBVIOUS
<1>2. Max(s) \in s /\ \A y \in s : Max(s) >= y BY <1>1 DEF Max
<1>3. Max(s) \in 1..n /\ Max(s) >= n BY <1>2
<1> QED BY <1>3

\* The function that is folded with exists.
LEMMA PathingExists ==
  ASSUME NEW what, NEW path, NEW N \in Nat
  PROVE  \E g : IsPathing(what, g, path, N)
<1> DEFINE P == {n \in Nat : \E g : g = [s \in SUBSET (1..n) |-> Pathing(what, g, path, s)]}
<1>1. 0 \in P
  <2> DEFINE g == [s \in SUBSET (1..0) |-> Start(what)]
  <2>1. \A s \in SUBSET (1..0) : s = {} OBVIOUS
  <2>2. g = [s \in SUBSET (1..0) |-> Pathing(what, g, path, s)]
    BY <2>1 DEF Pathing
  <2> HIDE DEF g
  <2>3. \E k : k = [s \in SUBSET (1..0) |-> Pathing(what, k, path, s)] BY <2>2
  <2> QED BY <2>3, Zenon
<1>2. ASSUME NEW n \in Nat, n \in P PROVE n + 1 \in P
  <2>1. PICK g : g = [s \in SUBSET (1..n) |-> Pathing(what, g, path, s)]
    BY <1>2
  <2> DEFINE h == [s \in SUBSET (1..(n + 1)) |->
                     IF s \in SUBSET (1..n) THEN g[s] ELSE Pathing(what, g, path, s)]
  <2>2. h = [s \in SUBSET (1..(n + 1)) |-> Pathing(what, h, path, s)]
    <3> SUFFICES ASSUME NEW s \in SUBSET (1..(n + 1)) PROVE h[s] = Pathing(what, h, path, s)
      BY Zenon
    <3>0. SUBSET (1..n) \subseteq SUBSET (1..(n + 1)) OBVIOUS
    <3>1. CASE s \in SUBSET (1..n)
      <4>1. h[s] = g[s] BY <3>1
      <4>2. g[s] = Pathing(what, g, path, s) BY <2>1, <3>1
      <4>3. s \ {Max(s)} \in SUBSET (1..n) BY <3>1
      <4>4. h[s \ {Max(s)}] = g[s \ {Max(s)}] BY <4>3, <3>0
      <4> QED BY <4>1, <4>2, <4>4 DEF Pathing
    <3>2. CASE s \notin SUBSET (1..n)
      <4>1. n + 1 \in s BY <3>2
      <4>2. Max(s) = n + 1 BY <4>1, MaxFacts
      <4>3. s \ {Max(s)} \in SUBSET (1..n) BY <4>2
      <4>4. h[s \ {Max(s)}] = g[s \ {Max(s)}] BY <4>3, <3>0
      <4>5. h[s] = Pathing(what, g, path, s) BY <3>2
      <4> QED BY <4>4, <4>5 DEF Pathing
    <3> QED BY <3>1, <3>2
  <2> HIDE DEF h
  <2>3. \E k : k = [s \in SUBSET (1..(n + 1)) |-> Pathing(what, k, path, s)] BY <2>2
  <2>4. n + 1 \in Nat OBVIOUS
  <2> QED BY <2>3, <2>4, Zenon
<1> HIDE DEF P
<1>3. N \in P BY <1>1, <1>2, InductSet
<1> QED BY <1>3, Zenon DEF P, IsPathing

\* The places on the way of a path, or the trees on the way of an archive.
ArePlaces(what, h, path) ==
    h[0] = Start(what) /\ \A i \in 1..Len(path) : h[i] = PathStep(what, h[i - 1], path[i])

\* A fold along a path ends at the last place of its way.
LEMMA PathSteps ==
  ASSUME NEW what, NEW path, Len(path) \in Nat, NEW f, IsPathing(what, f, path, Len(path))
  PROVE  \E h : ArePlaces(what, h, path) /\ h[Len(path)] = f[1..Len(path)]
<1> DEFINE N == Len(path)
<1>0. f = [s \in SUBSET (1..N) |-> Pathing(what, f, path, s)]
  BY Zenon DEF IsPathing
<1>1. f[1..0] = Start(what)
  <2>1. 1..0 = {} /\ {} \in SUBSET (1..N) OBVIOUS
  <2> QED BY <1>0, <2>1 DEF Pathing
<1> HIDE DEF N
<1>n. N \in Nat BY DEF N
<1>2. ASSUME NEW i \in 1..N PROVE f[1..i] = PathStep(what, f[1..(i - 1)], path[i])
  <2>1. i \in 1..i /\ 1..i \in SUBSET (1..N) /\ 1..i # {} /\ i \in Nat
    <3>1. i \in Nat /\ i <= N /\ i >= 1 BY <1>n
    <3>2. ASSUME NEW j \in 1..i PROVE j \in 1..N BY <1>n, <3>1
    <3> QED BY <3>1, <3>2
  <2>2. Max(1..i) = i BY <2>1, MaxFacts
  <2>3. (1..i) \ {i} = 1..(i - 1) BY <2>1
  <2>4. f[1..i] = Pathing(what, f, path, 1..i) BY <1>0, <2>1
  <2> QED BY <2>1, <2>2, <2>3, <2>4 DEF Pathing
<1> DEFINE h == [i \in 0..N |-> f[1..i]]
<1>3. h[0] = Start(what) /\ h[N] = f[1..N]
  BY <1>1, <1>n
<1>4. \A i \in 1..N : h[i] = PathStep(what, h[i - 1], path[i])
  <2> TAKE i \in 1..N
  <2>1. h[i] = f[1..i] /\ h[i - 1] = f[1..(i - 1)] BY <1>n
  <2> QED BY <1>2, <2>1
<1> HIDE DEF h
<1> QED BY <1>3, <1>4 DEF ArePlaces, N

\* Where the validator's path leads is the last place of its way.
LEMMA TowardFold ==
  ASSUME NEW path, Len(path) \in Nat, DOMAIN path = 1..Len(path)
  PROVE  \E h : ArePlaces("gate", h, path) /\ h[Len(path)] = FoldLeft(Toward, <<>>, path)
<1> DEFINE N == Len(path)
           f == CHOOSE g : g = [s \in SUBSET (1..N) |->
                     IF s = {} THEN <<>> ELSE Toward(g[s \ {Max(s)}], path[Max(s)])]
<1>1. f = [s \in SUBSET (1..N) |->
                     IF s = {} THEN <<>> ELSE Toward(f[s \ {Max(s)}], path[Max(s)])]
  <2>1. PICK g : IsPathing("gate", g, path, N)
    BY PathingExists
  <2>2. g = [s \in SUBSET (1..N) |->
                     IF s = {} THEN <<>> ELSE Toward(g[s \ {Max(s)}], path[Max(s)])]
    BY <2>1, TheSteps, Zenon DEF IsPathing, Pathing
  <2> QED BY <2>2, Zenon
<1>2. FoldLeft(Toward, <<>>, path) = f[1..N]
  BY DEF FoldLeft, MapThenFoldSet
<1> HIDE DEF f
<1>3. IsPathing("gate", f, path, N)
  BY <1>1, TheSteps, Zenon DEF IsPathing, Pathing
<1> QED BY <1>2, <1>3, PathSteps

\* Where a shell's path leads is the last place of its way.
LEMMA OnwardFold ==
  ASSUME NEW path, Len(path) \in Nat, DOMAIN path = 1..Len(path)
  PROVE  \E h : ArePlaces("shell", h, path) /\ h[Len(path)] = FoldLeft(Onward, <<>>, path)
<1> DEFINE N == Len(path)
           f == CHOOSE g : g = [s \in SUBSET (1..N) |->
                     IF s = {} THEN <<>> ELSE Onward(g[s \ {Max(s)}], path[Max(s)])]
<1>1. f = [s \in SUBSET (1..N) |->
                     IF s = {} THEN <<>> ELSE Onward(f[s \ {Max(s)}], path[Max(s)])]
  <2>1. PICK g : IsPathing("shell", g, path, N)
    BY PathingExists
  <2>2. g = [s \in SUBSET (1..N) |->
                     IF s = {} THEN <<>> ELSE Onward(g[s \ {Max(s)}], path[Max(s)])]
    BY <2>1, TheSteps, Zenon DEF IsPathing, Pathing
  <2> QED BY <2>2, Zenon
<1>2. FoldLeft(Onward, <<>>, path) = f[1..N]
  BY DEF FoldLeft, MapThenFoldSet
<1> HIDE DEF f
<1>3. IsPathing("shell", f, path, N)
  BY <1>1, TheSteps, Zenon DEF IsPathing, Pathing
<1> QED BY <1>2, <1>3, PathSteps

\* Where a file system's path leads is the last place of its way.
LEMMA EnterFold ==
  ASSUME NEW path, Len(path) \in Nat, DOMAIN path = 1..Len(path)
  PROVE  \E h : ArePlaces("path", h, path) /\ h[Len(path)] = FoldLeft(Enter, <<>>, path)
<1> DEFINE N == Len(path)
           f == CHOOSE g : g = [s \in SUBSET (1..N) |->
                     IF s = {} THEN <<>> ELSE Enter(g[s \ {Max(s)}], path[Max(s)])]
<1>1. f = [s \in SUBSET (1..N) |->
                     IF s = {} THEN <<>> ELSE Enter(f[s \ {Max(s)}], path[Max(s)])]
  <2>1. PICK g : IsPathing("path", g, path, N)
    BY PathingExists
  <2>2. g = [s \in SUBSET (1..N) |->
                     IF s = {} THEN <<>> ELSE Enter(g[s \ {Max(s)}], path[Max(s)])]
    BY <2>1, TheSteps, Zenon DEF IsPathing, Pathing
  <2> QED BY <2>2, Zenon
<1>2. FoldLeft(Enter, <<>>, path) = f[1..N]
  BY DEF FoldLeft, MapThenFoldSet
<1> HIDE DEF f
<1>3. IsPathing("path", f, path, N)
  BY <1>1, TheSteps, Zenon DEF IsPathing, Pathing
<1> QED BY <1>2, <1>3, PathSteps

\* What an archive unpacks to is the last tree of its way.
LEMMA UnpackFold ==
  ASSUME NEW members, Len(members) \in Nat, DOMAIN members = 1..Len(members)
  PROVE  \E h : ArePlaces("archive", h, members) /\ h[Len(members)] = Unpack(members)
<1> DEFINE N == Len(members)
           f == CHOOSE g : g = [s \in SUBSET (1..N) |->
                     IF s = {} THEN EmptyTree ELSE Extract(g[s \ {Max(s)}], members[Max(s)])]
<1>1. f = [s \in SUBSET (1..N) |->
                     IF s = {} THEN EmptyTree ELSE Extract(f[s \ {Max(s)}], members[Max(s)])]
  <2>1. PICK g : IsPathing("archive", g, members, N)
    BY PathingExists
  <2>2. g = [s \in SUBSET (1..N) |->
                     IF s = {} THEN EmptyTree ELSE Extract(g[s \ {Max(s)}], members[Max(s)])]
    BY <2>1, TheSteps, Zenon DEF IsPathing, Pathing
  <2> QED BY <2>2, Zenon
<1>2. Unpack(members) = f[1..N]
  BY DEF Unpack, FoldLeft, MapThenFoldSet
<1> HIDE DEF f
<1>3. IsPathing("archive", f, members, N)
  BY <1>1, TheSteps, Zenon DEF IsPathing, Pathing
<1> QED BY <1>2, <1>3, PathSteps

\* The parts and places the steps tell apart.
IsUp(part) == part = ".."
IsOutside(place) == place = <<"..">>

\* The two steps differ for a part that leads up, or from outside.
LEMMA SameStep ==
  ASSUME NEW place, NEW part, ~IsOutside(place), ~IsUp(part)
  PROVE  Toward(place, part) = Onward(place, part)
BY Zenon DEF Toward, Onward, IsOutside, IsUp

\* What Append gives.
LEMMA AppendFacts ==
  ASSUME NEW S, NEW place \in Seq(S), NEW part \in S
  PROVE  /\ Append(place, part) \in Seq(S) /\ Len(place) \in Nat
         /\ Len(Append(place, part)) = Len(place) + 1
         /\ Append(place, part)[Len(place) + 1] = part
<1>1. Append(place, part) \in Seq(S) /\ Len(place) \in Nat
      /\ Len(Append(place, part)) = Len(place) + 1
  OBVIOUS
<1>2. Append(place, part)[Len(place) + 1] = part
  BY <1>1
<1> QED BY <1>1, <1>2

\* A path of one part, with a part appended, is that part.
LEMMA LastPart ==
  ASSUME NEW S, NEW place \in Seq(S), NEW part \in S, NEW u, Append(place, part) = <<u>>
  PROVE  part = u
<1> DEFINE t == Append(place, part)
           N == Len(place)
<1>1. N \in Nat /\ Len(t) = N + 1 /\ t[N + 1] = part
  BY AppendFacts
<1>2. Len(t) = 1 /\ t[1] = u
  OBVIOUS
<1> HIDE DEF t, N
<1>3. N + 1 = 1
  BY <1>1, <1>2, Zenon
<1> QED BY <1>1, <1>2, <1>3, Zenon

\* A shell stays inside without parts that lead up.
LEMMA OnwardInside ==
  ASSUME NEW S, NEW place \in Seq(S), NEW part \in S, ~IsOutside(place), ~IsUp(part)
  PROVE  Onward(place, part) \in Seq(S) /\ ~IsOutside(Onward(place, part))
<1>1. Onward(place, part) \in {place, Append(place, part)}
  BY Zenon DEF Onward
<1>2. Append(place, part) \in Seq(S)
  OBVIOUS
<1>3. ~IsOutside(Append(place, part))
  <2> SUFFICES ASSUME IsOutside(Append(place, part)) PROVE FALSE
    OBVIOUS
  <2>1. PICK u : IsUp(u) /\ Append(place, part) = <<u>>
    BY Zenon DEF IsOutside, IsUp
  <2>2. part = u
    BY <2>1, LastPart
  <2> QED BY <2>1, <2>2
<1> QED BY <1>1, <1>2, <1>3

\* Without parts that lead up, the gate and a shell are at the same place.
LEMMA SamePlace ==
  ASSUME NEW path, IsList(path), \A part \in ToSet(path) : ~IsUp(part)
  PROVE  FoldLeft(Toward, <<>>, path) = FoldLeft(Onward, <<>>, path)
<1> DEFINE N == Len(path)
           S == ToSet(path)
<1>1. /\ N \in Nat /\ DOMAIN path = 1..N /\ \A i \in 1..N : path[i] \in S
  BY ListFacts
<1>2. PICK g : ArePlaces("gate", g, path) /\ g[N] = FoldLeft(Toward, <<>>, path)
  BY <1>1, TowardFold
<1>3. PICK h : ArePlaces("shell", h, path) /\ h[N] = FoldLeft(Onward, <<>>, path)
  BY <1>1, OnwardFold
<1>4. /\ g[0] = <<>> /\ \A i \in 1..N : g[i] = Toward(g[i - 1], path[i])
      /\ h[0] = <<>> /\ \A i \in 1..N : h[i] = Onward(h[i - 1], path[i])
  <2>1. "shell" # "gate" OBVIOUS
  <2> QED BY <1>2, <1>3, <2>1, TheSteps, Zenon DEF ArePlaces
<1> HIDE DEF N, S
<1> DEFINE Q == {i \in Nat : i <= N => g[i] = h[i] /\ h[i] \in Seq(S) /\ ~IsOutside(h[i])}
<1>5. 0 \in Q
  <2>1. ~IsOutside(<<>>)
    <3>1. \A u : <<>> # <<u>> OBVIOUS
    <3> QED BY <3>1, Zenon DEF IsOutside
  <2>2. <<>> \in Seq(S) OBVIOUS
  <2> QED BY <1>4, <2>1, <2>2
<1>6. ASSUME NEW i \in Nat, i \in Q PROVE i + 1 \in Q
  <2> SUFFICES ASSUME i + 1 <= N
               PROVE  g[i + 1] = h[i + 1] /\ h[i + 1] \in Seq(S) /\ ~IsOutside(h[i + 1])
    OBVIOUS
  <2>1. i + 1 \in 1..N /\ (i + 1) - 1 = i /\ i <= N
    BY <1>1
  <2>2. g[i] = h[i] /\ h[i] \in Seq(S) /\ ~IsOutside(h[i])
    BY <1>6, <2>1
  <2>3. path[i + 1] \in S /\ ~IsUp(path[i + 1])
    BY <1>1, <2>1 DEF S
  <2>4. g[i + 1] = Toward(g[i], path[i + 1]) /\ h[i + 1] = Onward(h[i], path[i + 1])
    BY <1>4, <2>1
  <2> QED BY <2>2, <2>3, <2>4, SameStep, OnwardInside
<1> HIDE DEF Q
<1>7. N \in Q
  BY <1>1, <1>5, <1>6, InductSet
<1>8. g[N] = h[N]
  BY <1>1, <1>7 DEF Q
<1> QED BY <1>2, <1>3, <1>8

\* The first part is one of the parts.
LEMMA HeadIn ==
  ASSUME NEW path, IsList(path), path # <<>>
  PROVE  Head(path) \in ToSet(path)
<1> DEFINE S == ToSet(path)
<1>1. path \in Seq(S)
  BY DEF IsList
<1> HIDE DEF S
<1>2. Head(path) \in S
  BY <1>1
<1> QED BY <1>2 DEF S

\* A relative path without such parts leads where the gate says.
LEMMA CommandPlace ==
  ASSUME NEW path, IsList(path), ToSet(path) \cap {"", ".."} = {}
  PROVE  Resolve(<<>>, path) = FoldLeft(Onward, <<>>, path)
<1>1. \A part \in ToSet(path) : ~IsUp(part)
  BY Zenon DEF IsUp
<1> DEFINE IsRoot(part) == part = ""
<1>2. \A part \in ToSet(path) : ~IsRoot(part)
  BY Zenon
<1>3. Resolve(<<>>, path) = IF path # <<>> /\ IsRoot(Head(path)) THEN <<"..">>
                            ELSE FoldLeft(Toward, <<>>, path)
  BY Zenon DEF Resolve
<1>4. path # <<>> => Head(path) \in ToSet(path)
  BY HeadIn
<1> HIDE DEF IsRoot
<1>5. Resolve(<<>>, path) = FoldLeft(Toward, <<>>, path)
  BY <1>2, <1>3, <1>4, Zenon
<1>6. FoldLeft(Toward, <<>>, path) = FoldLeft(Onward, <<>>, path)
  BY <1>1, SamePlace
<1> QED BY <1>5, <1>6, Zenon

-----------------------------------------------------------------------------
(* Links.                                                                  *)

\* A document's link leads to what there is, and to one of its headings.
LinkTarget(doc, link) == IF link.path = <<>> THEN doc ELSE Resolve(Front(doc), link.path)

LinkLeads(files, doc, link) ==
    /\ Exists(files, LinkTarget(doc, link))
    /\ link.anchor # "" /\ LinkTarget(doc, link) \in DOMAIN files =>
          ~files[LinkTarget(doc, link)].md \/
          \E h \in Headings(files[LinkTarget(doc, link)]) : h.title = link.anchor

\* A link of a document that was validated leads somewhere.
LEMMA ValidLinks ==
  ASSUME NEW files, NEW doc, ValidateLinks(files, doc), NEW link \in files[doc].links
  PROVE  LinkLeads(files, doc, link)
<1> DEFINE target == LinkTarget(doc, link)
           Anchored == link.anchor # ""
<1>1. /\ Exists(files, target)
      /\ Anchored /\ target \in DOMAIN files /\ files[target].md =>
            link.anchor \in Anchors(files[target])
  BY Zenon DEF ValidateLinks, LinkTarget
<1> HIDE DEF target
<1>2. ASSUME link.anchor \in Anchors(files[target])
      PROVE  \E h \in Headings(files[target]) : h.title = link.anchor
  BY <1>2, Zenon DEF Anchors
<1>3. Anchored /\ target \in DOMAIN files =>
          ~files[target].md \/ \E h \in Headings(files[target]) : h.title = link.anchor
  BY <1>1, <1>2, Zenon
<1> QED BY <1>1, <1>3, Zenon DEF LinkLeads, target

\* A command of a document that was validated leads to a file.
LEMMA ValidCommand ==
  ASSUME NEW files, NEW doc, ValidateCommandPaths(files, doc), NEW path \in files[doc].commands,
         IsList(path)
  PROVE  Exists(files, FoldLeft(Onward, <<>>, path))
<1>1. Exists(files, Resolve(<<>>, path)) /\ ToSet(path) \cap {"", ".."} = {}
  BY Zenon DEF ValidateCommandPaths
<1>2. Resolve(<<>>, path) = FoldLeft(Onward, <<>>, path)
  BY <1>1, CommandPlace, Zenon
<1> QED BY <1>1, <1>2, Zenon

\* LinksLead follows from what the repository was accepted with.
LEMMA AcceptedLinks == AuthorityInv => LinksLead
<1> SUFFICES ASSUME AuthorityInv, accepted = "accepted", case.event # "rehearsal"
             PROVE  LinksLead
  BY DEF LinksLead
<1> DEFINE files == case.repo.docs
<1>1. ValidateQuickstart(files) /\ case \in Cases
  BY DEF AuthorityInv
<1>2. ASSUME NEW role \in DOMAIN Checked
      PROVE  /\ \A link \in files[Checked[role]].links : LinkLeads(files, Checked[role], link)
             /\ role # "validation" => \A path \in files[Checked[role]].commands :
                   Exists(files, FoldLeft(Onward, <<>>, path))
  <2>1. Checked[role] \in DOMAIN files /\ ValidateLinks(files, Checked[role])
    BY <1>1, Zenon DEF ValidateQuickstart
  <2>2. role # "validation" => ValidateCommandPaths(files, Checked[role])
    <3>1. role # "validation" => role \in {"readme", "quickstart", "bundle"}
      BY <1>2, CheckedAssumption
    <3> QED BY <1>1, <3>1, Zenon DEF ValidateQuickstart
  <2>3. \A path \in files[Checked[role]].commands : IsList(path)
    BY <1>1, <2>1, DocumentsAssumption, Zenon
  <2> QED BY <2>1, <2>2, <2>3, ValidLinks, ValidCommand, Zenon
<1> HIDE DEF files
<1> QED BY <1>2, Zenon DEF LinksLead, LinkLeads, LinkTarget, Exists, files

\* In an accepted repository, links and commands of the checked documents lead to
\* what there is, wherever a shell follows them (validate_quickstart.py 71-186).
THEOREM LinksAlwaysLead == Spec => []LinksLead
BY PipelineInvariant, AcceptedLinks, PTL DEF PipelineInv

\* What stands behind a trailing separator.
Blank(part) == part = ""

\* A path is the first K parts of it, and then only separators.
BlankFrom(path, K) == K \in 0..Len(path) /\ \A k \in (K + 1)..Len(path) : Blank(path[k])
EndsAt(path, K) == BlankFrom(path, K) /\ (K = 0 \/ ~Blank(path[K]))

\* A path without what ends it.
LEMMA StrippedFacts ==
  ASSUME NEW S, NEW path \in Seq(S)
  PROVE  \E K : EndsAt(path, K) /\ Stripped(path) = SubSeq(path, 1, K)
<1> DEFINE ends == {n \in 0..Len(path) : \A k \in (n + 1)..Len(path) : path[k] = ""}
<1>1. Len(path) \in Nat
  OBVIOUS
<1>2. \A n : n \in ends <=> BlankFrom(path, n)
  BY Zenon DEF BlankFrom, Blank
<1>3. Stripped(path) = SubSeq(path, 1, CHOOSE n \in ends : \A k \in ends : n <= k)
  BY Zenon DEF Stripped
<1> HIDE DEF ends
<1>4. ends \subseteq Nat /\ Len(path) \in ends
  BY <1>1, <1>2 DEF BlankFrom
<1>5. PICK K \in ends : \A k \in ends : K <= k
  BY <1>4, LeastNumber
<1>6. \A n \in ends : (\A k \in ends : n <= k) => n = K
  BY <1>4, <1>5
<1>7. (CHOOSE n \in ends : \A k \in ends : n <= k) = K
  BY <1>5, <1>6
<1>8. CASE K # 0 /\ Blank(path[K])
  <2>1. K \in 0..Len(path) /\ \A k \in (K + 1)..Len(path) : Blank(path[k])
    BY <1>2, <1>5 DEF BlankFrom
  <2>2. K - 1 \in 0..Len(path) /\ \A k \in ((K - 1) + 1)..Len(path) : k = K \/ k \in (K + 1)..Len(path)
    BY <1>1, <1>8, <2>1
  <2>3. BlankFrom(path, K - 1)
    BY <1>8, <2>1, <2>2 DEF BlankFrom
  <2>4. K <= K - 1
    BY <1>2, <1>5, <2>3
  <2> QED BY <1>4, <1>5, <2>4
<1> QED BY <1>2, <1>3, <1>5, <1>7, <1>8 DEF EndsAt

\* There is one such place.
LEMMA OneEnd ==
  ASSUME NEW path, Len(path) \in Nat, NEW K, EndsAt(path, K), NEW M, EndsAt(path, M)
  PROVE  K = M
<1>1. K \in 0..Len(path) /\ M \in 0..Len(path)
  BY DEF EndsAt, BlankFrom
<1>2. ASSUME NEW a \in 0..Len(path), NEW b \in 0..Len(path), EndsAt(path, a), EndsAt(path, b), a < b
      PROVE  FALSE
  <2>1. b \in (a + 1)..Len(path) /\ b # 0
    BY <1>2
  <2> QED BY <1>2, <2>1 DEF EndsAt, BlankFrom
<1>3. K < M \/ M < K \/ K = M
  BY <1>1
<1> QED BY <1>1, <1>2, <1>3

\* What a path is stripped to is what ends there.
LEMMA StrippedIs ==
  ASSUME NEW S, NEW path \in Seq(S), NEW K, EndsAt(path, K)
  PROVE  Stripped(path) = SubSeq(path, 1, K)
<1>1. PICK M : EndsAt(path, M) /\ Stripped(path) = SubSeq(path, 1, M)
  BY StrippedFacts
<1>2. Len(path) \in Nat
  OBVIOUS
<1>3. K = M
  BY <1>1, <1>2, OneEnd
<1> QED BY <1>1, <1>3

\* A stripped path, and one with a separator after it, are stripped to it.
LEMMA StrippedAgain ==
  ASSUME NEW S, NEW path \in Seq(S), NEW b \in S, Blank(b)
  PROVE  /\ Stripped(path) \in Seq(S)
         /\ Stripped(Stripped(path)) = Stripped(path)
         /\ Stripped(Append(Stripped(path), b)) = Stripped(path)
<1>1. PICK K : EndsAt(path, K) /\ Stripped(path) = SubSeq(path, 1, K)
  BY StrippedFacts
<1>2. K \in 0..Len(path) /\ Len(path) \in Nat /\ (K = 0 \/ ~Blank(path[K]))
  BY <1>1 DEF EndsAt, BlankFrom
<1> DEFINE q == SubSeq(path, 1, K)
           r == Append(q, b)
<1>3. q \in Seq(S) /\ Len(q) = K /\ \A k \in 1..K : q[k] = path[k]
  BY <1>2
<1>4. /\ r \in Seq(S) /\ Len(r) = K + 1 /\ r[K + 1] = b
      /\ \A k \in 1..K : r[k] = path[k]
      /\ Len(SubSeq(r, 1, K)) = K /\ SubSeq(r, 1, K) \in Seq(S)
      /\ \A k \in 1..K : SubSeq(r, 1, K)[k] = path[k]
  BY <1>2, <1>3
<1> HIDE DEF q, r
<1>5. EndsAt(q, K)
  BY <1>2, <1>3 DEF EndsAt, BlankFrom
<1>6. EndsAt(r, K)
  BY <1>2, <1>4 DEF EndsAt, BlankFrom
<1>7. Stripped(q) = SubSeq(q, 1, K) /\ Stripped(r) = SubSeq(r, 1, K)
  BY <1>3, <1>4, <1>5, <1>6, StrippedIs
<1>8. SubSeq(q, 1, K) = q
  BY <1>2, <1>3
<1>9. SubSeq(r, 1, K) = q
  BY <1>2, <1>3, <1>4
<1> QED BY <1>1, <1>3, <1>7, <1>8, <1>9 DEF q, r

-----------------------------------------------------------------------------
(* Where a safe path leads.                                                *)

\* A part that is nothing special, in a spelling without cases neither.
IsPart(part) == part \in Parts /\ part \notin {"", ".", ".."} /\ FoldOf[part] # ".."

\* Such a part leads one level down, and a separator nowhere.
LEMMA EnterPart ==
  ASSUME NEW place, place # Outside, NEW part
  PROVE  /\ IsPart(part) => Enter(place, part) = Append(place, FoldOf[part])
         /\ Blank(part) => Enter(place, part) = place
<1>1. IsPart(part) => part # ".." /\ part \notin {"", "."}
  BY Zenon DEF IsPart
<1>2. Blank(part) => part # ".." /\ part \in {"", "."}
  <2>1. "" # ".."
    OBVIOUS
  <2> QED BY <2>1, Zenon DEF Blank
<1> QED BY <1>1, <1>2, Zenon DEF Enter

\* Outside is no list that is empty or begins with such a part.
LEMMA NotOutside ==
    Len(Outside) = 1 /\ \A part : IsPart(part) => FoldOf[part] # Outside[1]
<1>1. \A x : Len(<<x>>) = 1 /\ <<x>>[1] = x
  OBVIOUS
<1>2. Len(Outside) = 1 /\ Outside[1] = ".."
  BY <1>1, Zenon DEF Outside
<1> QED BY <1>2, Zenon DEF IsPart

\* The places on the way of a path of such parts.
Begins(path, i) == [n \in 1..i |-> FoldOf[path[n]]]

\* Each is one part longer than the one before.
LEMMA BeginsFacts ==
  ASSUME NEW path, NEW N \in Nat, \A n \in 1..N : IsPart(path[n]), NEW i \in Nat, i <= N
  PROVE  /\ Begins(path, i) # Outside
         /\ i < N => Enter(Begins(path, i), path[i + 1]) = Begins(path, i + 1)
<1> DEFINE Folds == {FoldOf[part] : part \in Parts}
<1>1. \A n \in 1..N : FoldOf[path[n]] \in Folds
  BY Zenon DEF IsPart
<1> HIDE DEF Folds
<1>2. \A n \in 1..i : n \in 1..N
  OBVIOUS
<1>3. Begins(path, i) \in Seq(Folds) /\ Len(Begins(path, i)) = i
  BY <1>1, <1>2 DEF Begins
<1>4. Begins(path, i) # Outside
  <2>1. CASE i = 0
    BY <1>3, <2>1, NotOutside
  <2>2. CASE i # 0
    <3>1. 1 \in 1..i /\ 1 \in 1..N BY <2>2
    <3>2. Begins(path, i)[1] = FoldOf[path[1]] BY <3>1 DEF Begins
    <3>3. FoldOf[path[1]] # Outside[1] BY <3>1, NotOutside
    <3> QED BY <3>2, <3>3
  <2> QED BY <2>1, <2>2
<1>5. ASSUME i < N PROVE Enter(Begins(path, i), path[i + 1]) = Begins(path, i + 1)
  <2> DEFINE next == Append(Begins(path, i), FoldOf[path[i + 1]])
  <2>1. i + 1 \in 1..N BY <1>5
  <2>2. Enter(Begins(path, i), path[i + 1]) = next
    BY <1>4, <2>1, EnterPart
  <2>3. FoldOf[path[i + 1]] \in Folds BY <1>1, <2>1
  <2>4. /\ next \in Seq(Folds) /\ Len(next) = i + 1
        /\ \A n \in 1..i : next[n] = Begins(path, i)[n]
        /\ next[i + 1] = FoldOf[path[i + 1]]
    BY <1>3, <2>3
  <2> HIDE DEF next
  <2>5. next = [n \in 1..(i + 1) |-> next[n]]
    BY <2>4
  <2>6. \A n \in 1..(i + 1) : next[n] = FoldOf[path[n]]
    <3> TAKE n \in 1..(i + 1)
    <3>1. n \in 1..i \/ n = i + 1 OBVIOUS
    <3>2. n \in 1..i => Begins(path, i)[n] = FoldOf[path[n]] BY DEF Begins
    <3> QED BY <2>4, <3>1, <3>2
  <2>7. next = Begins(path, i + 1)
    BY <2>5, <2>6, Zenon DEF Begins
  <2> QED BY <2>2, <2>7
<1> QED BY <1>4, <1>5

\* A safe path leads where it says without its end, which is never outside.
LEMMA SafePlace ==
  ASSUME NEW path \in Seq(Parts), AssertSafeName(path)
  PROVE  Place(path) = Fold(Stripped(path)) /\ Place(path) # Outside
<1> DEFINE N == Len(path)
<1>1. N \in Nat /\ DOMAIN path = 1..N /\ \A n \in 1..N : path[n] \in Parts
  OBVIOUS
<1>2. PICK K : EndsAt(path, K) /\ Stripped(path) = SubSeq(path, 1, K)
  BY StrippedFacts
<1>3. K \in 0..N /\ \A k \in (K + 1)..N : Blank(path[k])
  BY <1>2 DEF EndsAt, BlankFrom
<1> DEFINE q == Stripped(path)
<1>4. q \in Seq(Parts) /\ Len(q) = K /\ DOMAIN q = 1..K /\ \A k \in 1..K : q[k] = path[k]
  BY <1>1, <1>2, <1>3
<1>5. ToSet(q) \cap {"", ".", ".."} = {}
  BY Zenon DEF AssertSafeName
<1>0. q # <<>>
  BY Zenon DEF AssertSafeName
<1> HIDE DEF q, N
<1>6. K # 0
  BY <1>4, <1>0
<1>7. \A k \in 1..K : IsPart(path[k])
  <2>1. \A k \in 1..K : q[k] \in ToSet(q)
    BY <1>4 DEF ToSet
  <2>2. \A k \in 1..K : q[k] \notin {"", ".", ".."} /\ q[k] \in Parts
    <3>1. \A k \in 1..K : q[k] \in Parts
      BY <1>4
    <3> QED BY <2>1, <1>5, <3>1, Zenon
  <2>3. \A k \in 1..K : path[k] \notin {"", ".", ".."} /\ path[k] \in Parts
    BY <1>4, <2>2, Zenon
  <2> QED BY <2>3, NamesAssumption, Zenon DEF IsPart
<1>8. PICK h : ArePlaces("path", h, path) /\ h[N] = FoldLeft(Enter, <<>>, path)
  BY <1>1, EnterFold DEF N
<1>9. h[0] = <<>> /\ \A i \in 1..N : h[i] = Enter(h[i - 1], path[i])
  BY <1>8, TheSteps, Zenon DEF ArePlaces, N
<1>10. Place(path) = h[N]
  <2>1. Head(path) = path[1] /\ 1 \in 1..K
    BY <1>1, <1>3, <1>6 DEF N
  <2>2. Head(path) # ""
    BY <1>7, <2>1, Zenon DEF IsPart
  <2> QED BY <1>8, <2>2, Zenon DEF Place
<1>11. Fold(q) = Begins(path, K)
  <2>1. Fold(q) = [k \in 1..K |-> FoldOf[q[k]]]
    BY <1>4, Zenon DEF Fold
  <2> QED BY <1>4, <2>1 DEF Begins
<1> DEFINE P == {i \in Nat : i <= N => h[i] = Begins(path, IF i <= K THEN i ELSE K)}
<1>12. 0 \in P
  <2>1. Begins(path, 0) = <<>> BY DEF Begins
  <2> QED BY <1>3, <1>9, <2>1
<1>13. ASSUME NEW i \in Nat, i \in P PROVE i + 1 \in P
  <2> SUFFICES ASSUME i + 1 <= N
               PROVE  h[i + 1] = Begins(path, IF i + 1 <= K THEN i + 1 ELSE K)
    OBVIOUS
  <2>1. i + 1 \in 1..N /\ (i + 1) - 1 = i /\ i <= N
    BY <1>1
  <2>2. h[i + 1] = Enter(h[i], path[i + 1])
    BY <1>9, <2>1
  <2>3. CASE i + 1 <= K
    <3>1. i < K /\ K \in Nat /\ i <= K
      BY <1>3, <2>3
    <3>2. h[i] = Begins(path, i)
      BY <1>13, <2>1, <3>1
    <3>3. Enter(Begins(path, i), path[i + 1]) = Begins(path, i + 1)
      BY <1>7, <3>1, BeginsFacts
    <3> QED BY <2>2, <2>3, <3>2, <3>3
  <2>4. CASE ~(i + 1 <= K)
    <3>1. i + 1 \in (K + 1)..N /\ K \in Nat /\ K <= K /\ (i <= K => i = K)
      BY <1>3, <2>1, <2>4
    <3>2. h[i] = Begins(path, K)
      BY <1>13, <2>1, <3>1
    <3>3. Begins(path, K) # Outside
      BY <1>7, <3>1, BeginsFacts
    <3>4. Enter(Begins(path, K), path[i + 1]) = Begins(path, K)
      BY <1>3, <3>1, <3>3, EnterPart
    <3> QED BY <2>2, <2>4, <3>2, <3>4
  <2> QED BY <2>3, <2>4
<1> HIDE DEF P
<1>14. N \in P
  BY <1>1, <1>12, <1>13, InductSet DEF N
<1>15. h[N] = Begins(path, K)
  <2>0. N \in Nat
    BY <1>1
  <2>1. N <= K => N = K
    BY <1>3, <2>0
  <2>2. h[N] = Begins(path, IF N <= K THEN N ELSE K)
    BY <1>14, <2>0 DEF P
  <2> QED BY <2>1, <2>2
<1>16. Begins(path, K) # Outside
  <2>1. K \in Nat /\ K <= K
    BY <1>3
  <2> QED BY <1>7, <2>1, BeginsFacts
<1> QED BY <1>10, <1>11, <1>15, <1>16 DEF q

-----------------------------------------------------------------------------
(* What is unpacked from members that are in nobody's way.                 *)

Leaf(m) == [path |-> Place(m.path), kind |-> m.kind, data |-> m.data]

\* The first i members, each in its own place, and nothing else.
Grown(members, i) ==
    [tree |-> {Leaf(members[k]) : k \in 1..i}, outside |-> FALSE, stopped |-> FALSE]

\* Files and directories, none of them outside, in the place of another one
\* or below a file.
Apart(members, N) ==
    /\ \A i \in 1..N : /\ members[i].kind \in {"file", "directory"}
                       /\ Place(members[i].path) # Outside
    /\ \A i, j \in 1..N : i # j =>
          /\ Place(members[i].path) # Place(members[j].path)
          /\ members[i].kind = "directory"
                \/ ~Above(Place(members[i].path), Place(members[j].path))

\* One more of them is one more in the tree.
LEMMA OneMore ==
  ASSUME NEW members, NEW N \in Nat, Apart(members, N), NEW i \in Nat, i + 1 <= N
  PROVE  Extract(Grown(members, i), members[i + 1]) = Grown(members, i + 1)
<1> DEFINE state == Grown(members, i)
           m == members[i + 1]
           path == Place(m.path)
<1>1. i + 1 \in 1..N /\ \A k \in 1..i : k \in 1..N /\ k # i + 1
  OBVIOUS
<1>2. /\ state.tree = {Leaf(members[k]) : k \in 1..i}
      /\ state.outside = FALSE /\ state.stopped = FALSE
      /\ state = [tree |-> state.tree, outside |-> FALSE, stopped |-> FALSE]
  BY DEF Grown
<1>3. \A e : /\ Leaf(e).path = Place(e.path) /\ Leaf(e).kind = e.kind
  BY DEF Leaf
<1> HIDE DEF state
<1>4. \A e \in state.tree :
        /\ e.kind \in {"file", "directory"} /\ e.path # path
        /\ e.kind # "directory" => ~Above(e.path, path)
        /\ m.kind # "directory" => ~Above(path, e.path)
  <2> TAKE e \in state.tree
  <2>1. PICK k \in 1..i : e = Leaf(members[k])
    BY <1>2
  <2>2. e.path = Place(members[k].path) /\ e.kind = members[k].kind
    BY <1>3, <2>1
  <2> QED BY <1>1, <2>2 DEF Apart
<1>5. path # Outside /\ m.kind \in {"file", "directory"}
  BY <1>1 DEF Apart
<1>6. {e \in state.tree : e.path # path} = state.tree
  BY <1>4
<1> DEFINE next == state.tree \cup {[path |-> path, kind |-> m.kind, data |-> m.data]}
<1>7. Extract(state, m) = [state EXCEPT !.tree = next]
  <2>1. ~\E e \in state.tree : e.kind = "link" /\ Above(e.path, path)
    BY <1>4
  <2>2. ~\E e \in state.tree : e.kind = "link" /\ e.path = path
    BY <1>4
  <2>3. ~\E e \in state.tree : e.kind = "file" /\ Above(e.path, path)
    BY <1>4
  <2>4. ~\E e \in state.tree : e.kind = "file" /\ e.path = path
    BY <1>4
  <2>5. ~\E e \in state.tree : e.kind = "directory" /\ e.path = path
    BY <1>4
  <2>6. m.kind # "directory" => ~\E e \in state.tree : Above(path, e.path)
    BY <1>4
  <2>7. ~state.stopped
    BY <1>2
  <2> HIDE DEF m
  <2> QED BY <1>5, <1>6, <2>1, <2>2, <2>3, <2>4, <2>5, <2>6, <2>7, Zenon DEF Extract
<1>8. next = {Leaf(members[k]) : k \in 1..(i + 1)}
  <2>1. \A k : k \in 1..(i + 1) <=> k \in 1..i \/ k = i + 1
    OBVIOUS
  <2>2. Leaf(m) = [path |-> path, kind |-> m.kind, data |-> m.data]
    BY DEF Leaf
  <2> QED BY <1>2, <2>1, <2>2
<1> HIDE DEF next
<1>9. [state EXCEPT !.tree = next] = [tree |-> next, outside |-> FALSE, stopped |-> FALSE]
  <2>1. PICK t, a, b : state = [tree |-> t, outside |-> a, stopped |-> b] /\ a = FALSE /\ b = FALSE
    BY <1>2
  <2>2. [state EXCEPT !.tree = next] = [tree |-> next, outside |-> a, stopped |-> b]
    BY <2>1
  <2> QED BY <2>1, <2>2
<1>10. Grown(members, i + 1)
          = [tree |-> {Leaf(members[k]) : k \in 1..(i + 1)}, outside |-> FALSE, stopped |-> FALSE]
  BY Zenon DEF Grown
<1>11. [tree |-> next, outside |-> FALSE, stopped |-> FALSE] = Grown(members, i + 1)
  BY <1>8, <1>10
<1>12. Extract(state, m) = Grown(members, i + 1)
  BY <1>7, <1>9, <1>11
<1> QED BY <1>12 DEF state

\* All of them are what is unpacked.
LEMMA UnpackExactly ==
  ASSUME NEW members, NEW N \in Nat, Len(members) = N, DOMAIN members = 1..N, Apart(members, N)
  PROVE  Unpack(members) = Grown(members, N)
<1>1. PICK h : ArePlaces("archive", h, members) /\ h[N] = Unpack(members)
  BY UnpackFold
<1>2. h[0] = EmptyTree /\ \A i \in 1..N : h[i] = Extract(h[i - 1], members[i])
  BY <1>1, TheSteps, Zenon DEF ArePlaces
<1> DEFINE P == {i \in Nat : i <= N => h[i] = Grown(members, i)}
<1>3. 0 \in P
  <2>0. {Leaf(members[k]) : k \in 1..0} = {}
    OBVIOUS
  <2>1. Grown(members, 0) = EmptyTree
    BY <2>0, Zenon DEF Grown, EmptyTree
  <2> QED BY <1>2, <2>1
<1>4. ASSUME NEW i \in Nat, i \in P PROVE i + 1 \in P
  <2> SUFFICES ASSUME i + 1 <= N PROVE h[i + 1] = Grown(members, i + 1)
    OBVIOUS
  <2>1. i + 1 \in 1..N /\ (i + 1) - 1 = i /\ i <= N
    OBVIOUS
  <2>2. h[i + 1] = Extract(h[i], members[i + 1]) /\ h[i] = Grown(members, i)
    BY <1>2, <1>4, <2>1
  <2> QED BY <2>2, OneMore
<1> HIDE DEF P
<1>5. N \in P
  BY <1>3, <1>4, InductSet
<1> QED BY <1>1, <1>5 DEF P

-----------------------------------------------------------------------------
(* The names of a release.                                                 *)

\* A name, or nothing.
OneName(names, n) == IF Names[n] \in names THEN <<Names[n]>> ELSE <<>>

\* It is a list of that name, or empty.
LEMMA OneNameFacts ==
  ASSUME NEW names, NEW n
  PROVE  /\ IsList(OneName(names, n))
         /\ Names[n] \in names => Len(OneName(names, n)) = 1 /\ OneName(names, n)[1] = Names[n]
         /\ Names[n] \notin names => Len(OneName(names, n)) = 0
<1>1. \A x : Len(<<x>>) = 1 /\ <<x>>[1] = x /\ <<x>> \in Seq({x}) /\ ToSet(<<x>>) = {x}
  BY DEF ToSet
<1>2. Len(<<>>) = 0 /\ <<>> \in Seq(ToSet(<<>>))
  OBVIOUS
<1>3. CASE Names[n] \in names
  <2>1. OneName(names, n) = <<Names[n]>>
    BY <1>3, Zenon DEF OneName
  <2> QED BY <1>1, <1>3, <2>1, Zenon DEF IsList
<1>4. CASE Names[n] \notin names
  <2>1. OneName(names, n) = <<>>
    BY <1>4, Zenon DEF OneName
  <2> QED BY <1>2, <1>4, <2>1, Zenon DEF IsList
<1> QED BY <1>3, <1>4

\* What is sorted is a list of the names of a release that are in a set.
LEMMA SortedFacts ==
  ASSUME NEW names
  PROVE  IsList(Sorted(names)) /\ ToSet(Sorted(names)) = ToSet(Names) \cap names
<1> DEFINE N == Len(Names)
           lists == [n \in 1..N |-> OneName(names, n)]
<1>1. N \in Nat /\ DOMAIN Names = 1..N
  <2>1. Names \in Seq(Seq(Parts))
    BY NamesAssumption
  <2> QED BY <2>1
<1>2. Sorted(names) = FlattenSeq(lists)
  BY <1>1, Zenon DEF Sorted, OneName
<1>3. IsList(lists) /\ Len(lists) = N /\ \A n \in 1..N : lists[n] = OneName(names, n)
  <2>1. DOMAIN lists = 1..N /\ \A n \in 1..N : lists[n] \in ToSet(lists)
    BY DEF ToSet
  <2>2. lists = [n \in 1..N |-> lists[n]]
    OBVIOUS
  <2> HIDE DEF lists
  <2> DEFINE T == ToSet(lists)
  <2> HIDE DEF T
  <2>3. lists \in Seq(T) /\ Len(lists) = N
    BY <1>1, <2>1, <2>2 DEF T
  <2> QED BY <2>3, Zenon DEF IsList, T, lists
<1> HIDE DEF lists, N
<1>4. PICK o : IsList(FlattenSeq(lists)) /\ IsOffsets(o, lists, FlattenSeq(lists))
  <2>1. \A n \in 1..Len(lists) : IsList(lists[n])
    BY <1>3, OneNameFacts
  <2> QED BY <1>3, <2>1, Flattened
<1> DEFINE text == FlattenSeq(lists)
<1>5. DOMAIN text = 1..Len(text)
  BY <1>4, ListFacts DEF IsList
<1> HIDE DEF text
<1>6. ASSUME NEW x \in ToSet(text) PROVE x \in ToSet(Names) \cap names
  <2>1. PICK k \in 1..Len(text) : x = text[k]
    BY <1>5, <1>6, Zenon DEF ToSet
  <2>0. PICK n \in 1..N : \E j \in 1..Len(lists[n]) : k = o[n - 1] + j
    BY <1>3, <1>4, <2>1, Zenon DEF IsOffsets, text
  <2>a. PICK j \in 1..Len(lists[n]) : k = o[n - 1] + j
    BY <2>0
  <2>b. text[o[n - 1] + j] = lists[n][j]
    BY <1>3, <1>4, Zenon DEF IsOffsets, text
  <2>2. x = lists[n][j]
    BY <2>1, <2>a, <2>b
  <2>3. Names[n] \in names
    BY <1>3, <2>2, OneNameFacts
  <2>4. x = Names[n]
    <3>1. Len(lists[n]) = 1 /\ lists[n][1] = Names[n]
      BY <1>3, <2>2, <2>3, OneNameFacts
    <3> QED BY <2>2, <3>1
  <2> QED BY <1>1, <2>3, <2>4 DEF ToSet
<1>7. ASSUME NEW x \in ToSet(Names), x \in names PROVE x \in ToSet(text)
  <2>1. PICK n \in 1..N : x = Names[n]
    BY <1>1, <1>7 DEF ToSet
  <2>2. Len(lists[n]) = 1 /\ lists[n][1] = x
    BY <1>3, <1>7, <2>1, OneNameFacts
  <2>3. o[n - 1] + 1 \in 1..Len(text) /\ text[o[n - 1] + 1] = x
    <3>1. \A j \in 1..Len(lists[n]) :
             o[n - 1] + j \in 1..Len(text) /\ text[o[n - 1] + j] = lists[n][j]
      BY <1>3, <1>4, Zenon DEF IsOffsets, text
    <3>2. 1 \in 1..Len(lists[n])
      BY <2>2
    <3> QED BY <2>2, <3>1, <3>2, Zenon
  <2> QED BY <1>5, <2>3, Zenon DEF ToSet
<1> QED BY <1>2, <1>4, <1>6, <1>7 DEF text

\* A path in the root of a release.
LEMMA Rooted ==
  ASSUME NEW p \in Platforms, NEW x \in Seq(Parts), NEW y, y = <<Root(p)>> \o x
  PROVE  /\ y \in Seq(Parts) /\ Len(y) = Len(x) + 1 /\ Tail(y) = x /\ y[1] = Root(p)
         /\ \A k \in 1..Len(x) : y[k + 1] = x[k]
         /\ IsDirectory(x) => Blank(Last(y))
         /\ ~IsDirectory(x) /\ x # <<>> => ~Blank(Last(y))
<1> DEFINE r == Root(p)
<1>0. r \in Parts
  BY NamesAssumption
<1> HIDE DEF r
<1>1. <<r>> \in Seq(Parts) /\ Len(<<r>>) = 1 /\ <<r>>[1] = r
  BY <1>0
<1>2. y \in Seq(Parts) /\ IsConcat(y, <<r>>, x)
  BY <1>1, ConcatFacts DEF r
<1>3. /\ Len(y) = Len(x) + 1 /\ y[1] = r /\ Len(x) \in Nat
      /\ \A k \in 1..Len(x) : y[k + 1] = x[k]
  <2>1. /\ Len(y) = 1 + Len(x) /\ Len(x) \in Nat /\ y[1] = r
        /\ \A k \in 1..Len(x) : y[1 + k] = x[k]
    BY <1>1, <1>2 DEF IsConcat
  <2> QED BY <2>1
<1>4. Tail(y) = x
  <2> DEFINE N == Len(x)
  <2>1. Tail(y) \in Seq(Parts) /\ Len(Tail(y)) = N /\ \A k \in 1..N : Tail(y)[k] = y[k + 1]
    BY <1>2, <1>3
  <2>2. x \in Seq(Parts) /\ Len(x) = N
    OBVIOUS
  <2> QED BY <1>3, <2>1, <2>2
<1>5. x # <<>> => Last(y) = Last(x)
  BY <1>2, <1>3 DEF Last
<1>6. IsDirectory(x) <=> x # <<>> /\ Blank(Last(x))
  BY Zenon DEF IsDirectory, Blank
<1> QED BY <1>2, <1>3, <1>4, <1>5, <1>6 DEF r

\* A path without a separator at its end is not stripped.
LEMMA NotStripped ==
  ASSUME NEW path \in Seq(Parts), path # <<>>, ~Blank(Last(path))
  PROVE  Stripped(path) = path
<1> DEFINE N == Len(path)
<1>1. N \in Nat /\ N # 0 /\ Last(path) = path[N]
  BY DEF Last
<1>2. EndsAt(path, N)
  BY <1>1 DEF EndsAt, BlankFrom
<1>3. Stripped(path) = SubSeq(path, 1, N)
  BY <1>2, StrippedIs
<1>4. SubSeq(path, 1, N) = path
  OBVIOUS
<1> QED BY <1>3, <1>4

\* What is stripped has no separator at its end.
LEMMA StrippedLast ==
  ASSUME NEW path \in Seq(Parts), Stripped(path) # <<>>
  PROVE  ~Blank(Last(Stripped(path)))
<1> DEFINE q == Stripped(path)
<1>1. PICK K : EndsAt(path, K) /\ q = SubSeq(path, 1, K)
  BY StrippedFacts
<1>2. K \in 0..Len(path) /\ (K = 0 \/ ~Blank(path[K]))
  BY <1>1 DEF EndsAt, BlankFrom
<1>3. q \in Seq(Parts) /\ Len(q) = K /\ \A k \in 1..K : q[k] = path[k]
  BY <1>1, <1>2
<1>4. q # <<>>
  OBVIOUS
<1> HIDE DEF q
<1>5. K # 0 /\ Last(q) = q[K] /\ K \in 1..K
  BY <1>2, <1>3, <1>4 DEF Last
<1> QED BY <1>2, <1>3, <1>5 DEF q

-----------------------------------------------------------------------------
(* Members that are a release.                                             *)

\* Directories, and the files of a release with their modes, each where its name says.
Laid(p, members, names, N) ==
    /\ N \in Nat /\ Len(members) = N /\ DOMAIN members = 1..N
    /\ \A n \in 1..N :
          /\ members[n].path \in Seq(Parts) /\ AssertSafeName(names[n])
          /\ Stripped(members[n].path) = Stripped(names[n])
          /\ \E x \in ToSet(Names) :
                /\ names[n] = <<Root(p)>> \o x
                /\ IsDirectory(x) => members[n].kind = "directory"
                /\ ~IsDirectory(x) => IsFileOf(p, x) /\ members[n].kind = "file"
    /\ \A i, j \in 1..N : i # j => Fold(names[i]) # Fold(names[j])
    /\ \A x \in ToSet(Names) : IsFileOf(p, x) => \E n \in 1..N : names[n] = <<Root(p)>> \o x
    /\ p = "linux" => \A n \in 1..N : members[n].data.mode = TarMode("linux", names[n])

\* What the names are known to be.
LEMMA NameFacts ==
  ASSUME NEW p \in Platforms, NEW x \in ToSet(Names), NEW y \in ToSet(Names)
  PROVE  /\ x \in Seq(Parts)
         /\ x # y => /\ Place(<<Root(p)>> \o x) # Place(<<Root(p)>> \o y)
                     /\ IsDirectory(x) \/ ~Above(Place(<<Root(p)>> \o x), Place(<<Root(p)>> \o y))
<1>1. x \in Seq(Parts)
  <2>1. Names \in Seq(Seq(Parts))
    BY NamesAssumption
  <2>2. \A n \in DOMAIN Names : Names[n] \in Seq(Parts)
    BY <2>1
  <2> QED BY <2>2, Zenon DEF ToSet
<1> QED BY <1>1, NamesAssumption, Zenon

\* The place of a member is the one of its name.
LEMMA LaidPlaces ==
  ASSUME NEW p \in Platforms, NEW members, NEW names, NEW N, Laid(p, members, names, N),
         NEW n \in 1..N
  PROVE  /\ Place(members[n].path) = Place(names[n]) /\ Place(names[n]) # Outside
         /\ Place(names[n]) = Fold(Stripped(names[n])) /\ names[n] \in Seq(Parts)
<1>1. /\ members[n].path \in Seq(Parts) /\ AssertSafeName(names[n])
      /\ Stripped(members[n].path) = Stripped(names[n])
  BY Zenon DEF Laid
<1>2. AssertSafeName(members[n].path)
  BY <1>1, Zenon DEF AssertSafeName
<1>3. names[n] \in Seq(Parts)
  <2>1. PICK x \in ToSet(Names) : names[n] = <<Root(p)>> \o x
    BY Zenon DEF Laid
  <2> QED BY <2>1, NameFacts, Rooted
<1>4. Place(members[n].path) = Fold(Stripped(members[n].path))
  BY <1>1, <1>2, SafePlace
<1>5. Place(names[n]) = Fold(Stripped(names[n])) /\ Place(names[n]) # Outside
  BY <1>1, <1>3, SafePlace
<1> QED BY <1>1, <1>3, <1>4, <1>5, Zenon

\* None is in the way of another.
LEMMA LaidApart ==
  ASSUME NEW p \in Platforms, NEW members, NEW names, NEW N, Laid(p, members, names, N)
  PROVE  Apart(members, N)
<1>1. \A n \in 1..N : \E x \in ToSet(Names) :
          /\ names[n] = <<Root(p)>> \o x
          /\ IsDirectory(x) => members[n].kind = "directory"
          /\ ~IsDirectory(x) => members[n].kind = "file"
  BY Zenon DEF Laid
<1>2. \A n \in 1..N : members[n].kind \in {"file", "directory"}
  BY <1>1
<1>3. \A n \in 1..N : Place(members[n].path) = Place(names[n]) /\ Place(names[n]) # Outside
  BY LaidPlaces
<1>4. ASSUME NEW i \in 1..N, NEW j \in 1..N, i # j
      PROVE  /\ Place(names[i]) # Place(names[j])
             /\ members[i].kind = "directory" \/ ~Above(Place(names[i]), Place(names[j]))
  <2>1. PICK x \in ToSet(Names) : /\ names[i] = <<Root(p)>> \o x
                                  /\ IsDirectory(x) => members[i].kind = "directory"
    BY <1>1
  <2>2. PICK y \in ToSet(Names) : names[j] = <<Root(p)>> \o y
    BY <1>1
  <2>3. Fold(names[i]) # Fold(names[j])
    BY <1>4, Zenon DEF Laid
  <2>4. x # y
    BY <2>1, <2>2, <2>3, Zenon
  <2> QED BY <2>1, <2>2, <2>4, NameFacts, Zenon
<1> QED BY <1>2, <1>3, <1>4, Zenon DEF Apart

\* A safe path of one part does not end with a separator.
LEMMA SafeSingle ==
  ASSUME NEW path \in Seq(Parts), AssertSafeName(path), Len(path) = 1
  PROVE  ~Blank(Last(path))
<1>1. PICK K : EndsAt(path, K) /\ Stripped(path) = SubSeq(path, 1, K)
  BY StrippedFacts
<1>2. K \in 0..1 /\ (K = 0 \/ ~Blank(path[K]))
  BY <1>1 DEF EndsAt, BlankFrom
<1>3. SubSeq(path, 1, 0) = <<>>
  OBVIOUS
<1>4. Stripped(path) # <<>>
  BY Zenon DEF AssertSafeName
<1>5. K = 1
  BY <1>1, <1>2, <1>3, <1>4
<1>6. Last(path) = path[1]
  BY DEF Last
<1> QED BY <1>2, <1>5, <1>6

\* The spelling of a path without its root.
LEMMA FoldTail ==
  ASSUME NEW p \in Platforms, NEW x \in Seq(Parts), NEW y, y = <<Root(p)>> \o x
  PROVE  Tail(Fold(y)) = Fold(x)
<1> DEFINE N == Len(x)
           Folds == {FoldOf[part] : part \in Parts}
<1>1. /\ y \in Seq(Parts) /\ Len(y) = N + 1 /\ N \in Nat
      /\ \A k \in 1..N : y[k + 1] = x[k]
  BY Rooted
<1>2. \A part \in Parts : FoldOf[part] \in Folds
  OBVIOUS
<1> HIDE DEF Folds
<1>3. /\ Fold(y) \in Seq(Folds) /\ Len(Fold(y)) = N + 1
      /\ \A k \in 1..N : Fold(y)[k + 1] = FoldOf[y[k + 1]]
  BY <1>1, <1>2 DEF Fold
<1>4. Fold(x) \in Seq(Folds) /\ Len(Fold(x)) = N /\ \A k \in 1..N : Fold(x)[k] = FoldOf[x[k]]
  BY <1>1, <1>2 DEF Fold
<1> DEFINE f == Fold(y)
           g == Fold(x)
<1> HIDE DEF f, g, N
<1>5. Tail(f) \in Seq(Folds) /\ Len(Tail(f)) = N /\ \A k \in 1..N : Tail(f)[k] = f[k + 1]
  BY <1>1, <1>3 DEF f
<1>6. \A k \in 1..N : Tail(f)[k] = g[k]
  BY <1>1, <1>3, <1>4, <1>5 DEF f, g
<1>7. Tail(f) = g
  BY <1>1, <1>4, <1>5, <1>6 DEF g
<1> QED BY <1>7 DEF f, g

\* What is known of a member that is a file.
LEMMA LaidFile ==
  ASSUME NEW p \in Platforms, NEW members, NEW names, NEW N, Laid(p, members, names, N),
         NEW n \in 1..N, members[n].kind = "file"
  PROVE  /\ Tail(names[n]) \in ToSet(Names) /\ IsFileOf(p, Tail(names[n]))
         /\ names[n] = <<Root(p)>> \o Tail(names[n]) /\ ~IsDirectory(names[n])
         /\ Place(members[n].path) = Fold(names[n])
         /\ Tail(Place(members[n].path)) = Fold(Tail(names[n]))
<1>1. "file" # "directory"
  OBVIOUS
<1>2. PICK x \in ToSet(Names) : /\ names[n] = <<Root(p)>> \o x
                                /\ ~IsDirectory(x) /\ IsFileOf(p, x)
  BY <1>1, Zenon DEF Laid
<1> DEFINE y == names[n]
<1>3. x \in Seq(Parts)
  BY NameFacts
<1>4. /\ y \in Seq(Parts) /\ Len(y) = Len(x) + 1 /\ Tail(y) = x
      /\ x # <<>> => ~Blank(Last(y))
  BY <1>2, <1>3, Rooted
<1>5. ~Blank(Last(y)) /\ y # <<>>
  <2>1. CASE x # <<>>
    <3>1. Len(x) \in Nat BY <1>3
    <3>2. y # <<>> BY <1>4, <3>1
    <3> QED BY <1>4, <2>1, <3>2
  <2>2. CASE x = <<>>
    <3>1. Len(y) = 1 BY <1>4, <2>2
    <3>2. AssertSafeName(y) BY Zenon DEF Laid
    <3> QED BY <1>4, <3>1, <3>2, SafeSingle
  <2> QED BY <2>1, <2>2
<1>6. Stripped(y) = y
  BY <1>4, <1>5, NotStripped
<1>7. Place(members[n].path) = Fold(y)
  BY <1>6, LaidPlaces
<1>8. Tail(Fold(y)) = Fold(x)
  BY <1>2, <1>3, FoldTail
<1>9. ~IsDirectory(y)
  BY <1>5, Zenon DEF IsDirectory, Blank
<1> QED BY <1>2, <1>4, <1>7, <1>8, <1>9, Zenon

\* The numbers of the members that are files.
FilesAt(members, N) == {n \in 1..N : members[n].kind = "file"}

\* The files of the tree are those members.
LEMMA LaidFiles ==
  ASSUME NEW p \in Platforms, NEW members, NEW names, NEW N, Laid(p, members, names, N)
  PROVE  /\ Unpack(members).outside = FALSE /\ Unpack(members).stopped = FALSE
         /\ {e \in Unpack(members).tree : e.kind # "directory"}
               = {Leaf(members[n]) : n \in FilesAt(members, N)}
<1>1. Unpack(members) = Grown(members, N)
  <2>1. Apart(members, N)
    BY LaidApart
  <2>2. N \in Nat /\ Len(members) = N /\ DOMAIN members = 1..N
    BY Zenon DEF Laid
  <2> QED BY <2>1, <2>2, UnpackExactly
<1>2. /\ Grown(members, N).tree = {Leaf(members[n]) : n \in 1..N}
      /\ Grown(members, N).outside = FALSE /\ Grown(members, N).stopped = FALSE
  BY DEF Grown
<1>3. \A n \in 1..N : members[n].kind \in {"file", "directory"}
  BY LaidApart, Zenon DEF Apart
<1>4. \A n : Leaf(members[n]).kind = members[n].kind
  BY DEF Leaf
<1>5. {e \in {Leaf(members[n]) : n \in 1..N} : e.kind # "directory"}
         = {Leaf(members[n]) : n \in FilesAt(members, N)}
  BY <1>3, <1>4 DEF FilesAt
<1> QED BY <1>1, <1>2, <1>5

\* Every file of a release is one of them.
LEMMA LaidAll ==
  ASSUME NEW p \in Platforms, NEW members, NEW names, NEW N, Laid(p, members, names, N),
         NEW x \in ToSet(Names), IsFileOf(p, x)
  PROVE  \E n \in FilesAt(members, N) : names[n] = <<Root(p)>> \o x
<1>1. PICK n \in 1..N : names[n] = <<Root(p)>> \o x
  BY Zenon DEF Laid
<1>2. PICK z \in ToSet(Names) : /\ names[n] = <<Root(p)>> \o z
                                /\ ~IsDirectory(z) => members[n].kind = "file"
  BY Zenon DEF Laid
<1>3. Tail(names[n]) = x /\ Tail(names[n]) = z
  BY <1>1, <1>2, NameFacts, Rooted
<1>4. ~IsDirectory(z)
  BY <1>3, Zenon DEF IsFileOf
<1> QED BY <1>1, <1>2, <1>4, Zenon DEF FilesAt

\* The file entries of a release.
LEMMA FileEntries ==
  ASSUME NEW p \in Platforms
  PROVE  ToSet(ExpectedFileEntries(p))
            = {<<Root(p)>> \o x : x \in {x \in ToSet(Names) : IsFileOf(p, x)}}
<1> DEFINE files == RelativeFiles(p)
           S == {x \in ToSet(Names) : IsFileOf(p, x)}
<1>1. ToSet(files) = S
  <2>1. files = Sorted(S)
    BY Zenon DEF RelativeFiles
  <2>2. ToSet(Names) \cap S = S
    OBVIOUS
  <2> QED BY <2>1, <2>2, SortedFacts, Zenon
<1> HIDE DEF S, files
<1>2. ExpectedFileEntries(p) = [n \in DOMAIN files |-> <<Root(p)>> \o files[n]]
  BY Zenon DEF ExpectedFileEntries, files
<1>3. ToSet(ExpectedFileEntries(p)) = {<<Root(p)>> \o files[n] : n \in DOMAIN files}
  BY <1>2 DEF ToSet
<1>4. {files[n] : n \in DOMAIN files} = S
  BY <1>1 DEF ToSet
<1>5. {<<Root(p)>> \o files[n] : n \in DOMAIN files} = {<<Root(p)>> \o x : x \in S}
  BY <1>4
<1> QED BY <1>3, <1>5 DEF S

\* The program is one of the files.
LEMMA ProgramName ==
  ASSUME NEW p \in Platforms
  PROVE  Executable(p) \in ToSet(Names) /\ IsFileOf(p, Executable(p))
<1> DEFINE S == {x \in ToSet(Names) : IsFileOf(p, x)}
<1>1. Executable(p) \in ToSet(Sorted(S))
  BY NamesAssumption, Zenon DEF RelativeFiles
<1>2. Executable(p) \in S
  BY <1>1, SortedFacts, Zenon
<1> QED BY <1>2

\* What users unpack is exactly the files of a release.
LEMMA LaidUnpacked ==
  ASSUME NEW p \in Platforms, NEW members, NEW names, NEW N, Laid(p, members, names, N)
  PROVE  IsUnpacked(Unpack(members), p)
<1> DEFINE result == Unpack(members)
           files == {e \in result.tree : e.kind # "directory"}
           F == FilesAt(members, N)
           S == {x \in ToSet(Names) : IsFileOf(p, x)}
<1>1. ~result.outside /\ ~result.stopped /\ files = {Leaf(members[n]) : n \in F}
  BY LaidFiles
<1> HIDE DEF result, files
<1>2. \A n \in F : /\ Leaf(members[n]).kind = "file"
                   /\ Leaf(members[n]).path = Place(members[n].path)
                   /\ Leaf(members[n]).data = members[n].data
  BY DEF Leaf, FilesAt
<1>3. \A n \in F : n \in 1..N /\ members[n].kind = "file"
  BY DEF FilesAt
<1> HIDE DEF F
<1>4. \A n \in F : /\ Tail(names[n]) \in S /\ names[n] = <<Root(p)>> \o Tail(names[n])
                   /\ ~IsDirectory(names[n])
                   /\ Leaf(members[n]).path = Fold(names[n])
  BY <1>2, <1>3, LaidFile
<1>5. \A e \in files : e.kind = "file"
  BY <1>1, <1>2
<1>6. \A x \in S : \E n \in F : names[n] = <<Root(p)>> \o x
  BY LaidAll DEF F
<1> HIDE DEF S
<1>7. {e.path : e \in files} = {Fold(n) : n \in ToSet(ExpectedFileEntries(p))}
  <2>1. ToSet(ExpectedFileEntries(p)) = {<<Root(p)>> \o x : x \in S}
    BY FileEntries, Zenon DEF S
  <2>2. {<<Root(p)>> \o x : x \in S} = {names[n] : n \in F}
    BY <1>4, <1>6
  <2>3. {e.path : e \in files} = {Fold(names[n]) : n \in F}
    BY <1>1, <1>4
  <2>4. {Fold(y) : y \in {names[n] : n \in F}} = {Fold(names[n]) : n \in F}
    OBVIOUS
  <2> QED BY <2>1, <2>2, <2>3, <2>4
<1>8. ASSUME p = "linux", NEW e \in files
      PROVE  (e.data.mode = "executable") = (e.path = Fold(<<Root(p)>> \o Executable(p)))
  <2> DEFINE programName == <<Root(p)>> \o Executable(p)
  <2>1. PICK n \in F : e = Leaf(members[n])
    BY <1>1
  <2>2. e.data.mode = TarMode("linux", names[n])
    BY <1>2, <1>3, <1>8, <2>1, Zenon DEF Laid
  <2>3. e.data.mode = IF names[n] = programName THEN "executable" ELSE "plain"
    BY <1>4, <1>8, <2>2, Zenon DEF TarMode
  <2>4. PICK m \in F : names[m] = programName
    BY <1>6, ProgramName DEF S
  <2> HIDE DEF programName
  <2>5. names[n] = programName <=> Fold(names[n]) = Fold(programName)
    <3>1. n # m => Fold(names[n]) # Fold(names[m])
      BY <1>3, Zenon DEF Laid
    <3> QED BY <2>4, <3>1
  <2>6. e.path = Fold(names[n])
    BY <1>4, <2>1
  <2> QED BY <2>3, <2>5, <2>6 DEF programName
<1> QED BY <1>1, <1>5, <1>7, <1>8, Zenon DEF IsUnpacked, result, files

\* It is the tree the smoke tests use.
LEMMA LaidTree ==
  ASSUME NEW p \in Platforms, NEW members, NEW names, NEW N, Laid(p, members, names, N),
         NEW source, \A n \in 1..N : source[n].data = members[n].data
  PROVE  UserTree(Unpack(members), p)
            = Folded(ExtractPayloads(Payloads(source, names, FilesAt(members, N)).payloads, p))
<1> DEFINE result == Unpack(members)
           files == {e \in result.tree : e.kind # "directory"}
           F == FilesAt(members, N)
           Mode(path) == IF p = "windows" THEN None
                         ELSE IF path = Executable("linux") THEN "executable" ELSE "plain"
           User(n) == [path |-> Fold(Tail(names[n])), bytes |-> members[n].data.bytes,
                       mode |-> Mode(Tail(names[n]))]
           payloads == Payloads(source, names, F).payloads
<1>1. files = {Leaf(members[n]) : n \in F}
  BY LaidFiles
<1>2. \A n \in F : n \in 1..N /\ members[n].kind = "file"
  BY DEF FilesAt
<1>3. \A n : /\ Leaf(members[n]).path = Place(members[n].path)
             /\ Leaf(members[n]).data = members[n].data
  BY DEF Leaf
<1> HIDE DEF F
<1>4. \A n \in F : /\ Tail(Leaf(members[n]).path) = Fold(Tail(names[n]))
                   /\ names[n] = <<Root(p)>> \o Tail(names[n]) /\ ~IsDirectory(names[n])
  <2> TAKE n \in F
  <2>1. /\ names[n] = <<Root(p)>> \o Tail(names[n]) /\ ~IsDirectory(names[n])
        /\ Tail(Place(members[n].path)) = Fold(Tail(names[n]))
    BY <1>2, LaidFile
  <2> QED BY <1>3, <2>1, Zenon
<1>5. ASSUME NEW n \in F
      PROVE  (IF p = "windows" THEN None ELSE members[n].data.mode) = Mode(Tail(names[n]))
  <2>1. CASE p = "windows"
    BY <2>1
  <2>2. CASE p # "windows"
    <3>1. p = "linux"
      BY <2>2 DEF Platforms
    <3>2. members[n].data.mode = TarMode("linux", names[n])
      BY <1>2, <3>1, Zenon DEF Laid
    <3>3. names[n] = <<Root("linux")>> \o Executable("linux") <=> Tail(names[n]) = Executable("linux")
      <4>1. Executable("linux") \in ToSet(Names)
        BY <3>1, ProgramName
      <4>2. Tail(<<Root(p)>> \o Executable("linux")) = Executable("linux")
        BY <4>1, NameFacts, Rooted
      <4> QED BY <1>4, <3>1, <4>2
    <3> QED BY <1>4, <2>2, <3>2, <3>3, Zenon DEF TarMode
  <2> QED BY <2>1, <2>2
<1> DEFINE ModeOf(e) == IF p = "windows" THEN None ELSE e.data.mode
           Users(e) == [path |-> Tail(e.path), bytes |-> e.data.bytes, mode |-> ModeOf(e)]
<1>6. UserTree(result, p) = {Users(e) : e \in files}
  BY Zenon DEF UserTree
<1>7. \A n \in F : Users(Leaf(members[n])) = User(n)
  <2> TAKE n \in F
  <2>1. ModeOf(Leaf(members[n])) = Mode(Tail(names[n]))
    BY <1>3, <1>5, Zenon
  <2> HIDE DEF ModeOf, Mode
  <2> QED BY <1>3, <1>4, <2>1
<1>8. UserTree(result, p) = {User(n) : n \in F}
  <2> HIDE DEF Users, User, files, result
  <2> QED BY <1>1, <1>6, <1>7
<1>9. payloads = [path \in {Tail(names[n]) : n \in F} |->
                    source[CHOOSE n \in F : Tail(names[n]) = path].data.bytes]
  BY DEF Payloads
<1> HIDE DEF payloads
<1>10. \A n \in F : payloads[Tail(names[n])] = members[n].data.bytes
  <2> TAKE n \in F
  <2> DEFINE k == CHOOSE m \in F : Tail(names[m]) = Tail(names[n])
  <2>1. k \in F /\ Tail(names[k]) = Tail(names[n])
    OBVIOUS
  <2>2. payloads[Tail(names[n])] = source[k].data.bytes
    BY <1>9
  <2> HIDE DEF k
  <2>3. names[k] = names[n]
    BY <1>4, <2>1, Zenon
  <2>4. k = n
    <3>1. k # n => Fold(names[k]) # Fold(names[n])
      BY <1>2, <2>1, Zenon DEF Laid
    <3> QED BY <2>3, <3>1
  <2> QED BY <1>2, <2>2, <2>4
<1>11. DOMAIN payloads = {Tail(names[n]) : n \in F}
  BY <1>9
<1> DEFINE Given(path) == [path |-> path, bytes |-> payloads[path], mode |-> Mode(path)]
           Refold(e) == [e EXCEPT !.path = Fold(@)]
           tree == ExtractPayloads(payloads, p)
<1>12. tree = {Given(path) : path \in DOMAIN payloads}
  BY Zenon DEF ExtractPayloads
<1>13. Folded(tree) = {Refold(e) : e \in tree}
  BY Zenon DEF Folded
<1>14. \A n \in F : Refold(Given(Tail(names[n]))) = User(n)
  <2> HIDE DEF Mode
  <2> QED BY <1>10
<1>15. Folded(tree) = {User(n) : n \in F}
  <2> DEFINE t == tree
             D == DOMAIN payloads
  <2>1. t = {Given(path) : path \in D} /\ D = {Tail(names[n]) : n \in F}
    BY <1>11, <1>12
  <2>2. Folded(t) = {Refold(e) : e \in t}
    BY <1>13
  <2> HIDE DEF Given, User, t, D, Refold
  <2>3. t = {Given(Tail(names[n])) : n \in F}
    BY <2>1
  <2>4. {Refold(e) : e \in t} = {Refold(Given(Tail(names[n]))) : n \in F}
    BY <2>3
  <2>5. {Refold(Given(Tail(names[n]))) : n \in F} = {User(n) : n \in F}
    BY <1>14
  <2>6. Folded(t) = {User(n) : n \in F}
    BY <2>2, <2>4, <2>5
  <2> QED BY <2>6 DEF t
<1>16. UserTree(result, p) = Folded(tree)
  BY <1>8, <1>15, Zenon
<1> QED BY <1>16, Zenon DEF payloads, F

-----------------------------------------------------------------------------
(* Accepted archives.                                                      *)

AreEntries(E, p, S) ==
    /\ \A n \in DOMAIN E : \E x \in S : E[n] = <<Root(p)>> \o x
    /\ \A x \in S : \E n \in DOMAIN E : E[n] = <<Root(p)>> \o x

SortedEntries(p, S) == [n \in DOMAIN Sorted(S) |-> <<Root(p)>> \o Sorted(S)[n]]

\* The entries of a release are its names below the root.
LEMMA Entries ==
  ASSUME NEW p \in Platforms, NEW S, S \subseteq ToSet(Names)
  PROVE  AreEntries(SortedEntries(p, S), p, S)
<1> DEFINE s == Sorted(S)
           E == SortedEntries(p, S)
<1>1. ToSet(s) = S
  <2>1. ToSet(Names) \cap S = S
    OBVIOUS
  <2> QED BY <2>1, SortedFacts, Zenon
<1> HIDE DEF s
<1>2. E = [n \in DOMAIN s |-> <<Root(p)>> \o s[n]]
  BY Zenon DEF s, SortedEntries
<1> HIDE DEF E
<1>3. DOMAIN E = DOMAIN s /\ \A n \in DOMAIN s : E[n] = <<Root(p)>> \o s[n]
  BY <1>2
<1>4. S = {s[n] : n \in DOMAIN s}
  BY <1>1, Zenon DEF ToSet
<1>5. AreEntries(E, p, S)
  BY <1>3, <1>4 DEF AreEntries
<1> QED BY <1>5 DEF E

\* The names of an accepted archive are the expected ones.
Exact(names, N, p, S) ==
    /\ DOMAIN names = 1..N
    /\ \A n \in 1..N : AssertSafeName(names[n])
    /\ \A i, j \in 1..N : i # j => Fold(names[i]) # Fold(names[j])
    /\ \A n \in 1..N : \E x \in S : names[n] = <<Root(p)>> \o x
    /\ \A x \in S : \E n \in 1..N : names[n] = <<Root(p)>> \o x

\* Accepted names are those of the expected entries, each once.
LEMMA ExactNames ==
  ASSUME NEW p \in Platforms, NEW S, S \subseteq ToSet(Names), NEW N \in Nat,
         NEW names, DOMAIN names = 1..N,
         AssertExactNames(names, SortedEntries(p, S))
  PROVE  Exact(names, N, p, S)
<1> DEFINE E == SortedEntries(p, S)
<1>1. /\ names = E
      /\ \A n \in 1..N : /\ AssertSafeName(names[n])
                         /\ \A k \in 1..(n - 1) : Fold(names[k]) # Fold(names[n])
  BY Zenon DEF AssertExactNames
<1>2. /\ \A n \in DOMAIN E : \E x \in S : E[n] = <<Root(p)>> \o x
      /\ \A x \in S : \E n \in DOMAIN E : E[n] = <<Root(p)>> \o x
  BY Entries, Zenon DEF AreEntries
<1> HIDE DEF E
<1>3. ASSUME NEW i \in 1..N, NEW j \in 1..N, i # j PROVE Fold(names[i]) # Fold(names[j])
  <2>1. i \in 1..(j - 1) \/ j \in 1..(i - 1)
    BY <1>3
  <2> QED BY <1>1, <2>1
<1> QED BY <1>1, <1>2, <1>3, Zenon DEF Exact

\* A name that does not end with a separator is of a file.
LEMMA NameKind ==
  ASSUME NEW p \in Platforms, NEW x \in ToSet(Names), NEW y, y = <<Root(p)>> \o x,
         AssertSafeName(y)
  PROVE  IsDirectory(x) <=> Blank(Last(y))
<1>1. x \in Seq(Parts)
  BY NameFacts
<1>2. /\ y \in Seq(Parts) /\ Len(y) = Len(x) + 1
      /\ IsDirectory(x) => Blank(Last(y))
      /\ ~IsDirectory(x) /\ x # <<>> => ~Blank(Last(y))
  BY <1>1, Rooted
<1>3. x = <<>> => Len(y) = 1
  BY <1>2
<1> QED BY <1>2, <1>3, SafeSingle

\* A stripped path is a path of the same parts.
LEMMA StrippedIn ==
  ASSUME NEW path \in Seq(Parts)
  PROVE  Stripped(path) \in Seq(Parts)
<1>1. PICK K : EndsAt(path, K) /\ Stripped(path) = SubSeq(path, 1, K)
  BY StrippedFacts
<1>2. K \in 0..Len(path)
  BY <1>1 DEF EndsAt, BlankFrom
<1> QED BY <1>1, <1>2

\* The normalized name of a member is stripped to the same.
LEMMA Normalized ==
  ASSUME NEW m, m.path \in Seq(Parts), NEW y, y = NormalizedTarName(m), y \in Seq(Parts),
         AssertSafeName(y), m.kind \in {"file", "directory"}
  PROVE  /\ Stripped(m.path) = Stripped(y)
         /\ m.kind = "directory" <=> Blank(Last(y))
<1> DEFINE q == Stripped(m.path)
<1>1. CASE m.kind = "directory"
  <2>1. PICK b : Blank(b) /\ y = q \o <<b>>
    BY <1>1, Zenon DEF NormalizedTarName, Blank
  <2>2. q \in Seq(Parts)
    BY StrippedIn
  <2> HIDE DEF q
  <2>3. /\ Len(y) = Len(q) + 1 /\ y[Len(q) + 1] = b /\ Len(q) \in Nat
        /\ y = Append(q, b)
    <3> DEFINE T == Parts \cup {b}
    <3>1. q \in Seq(T) /\ b \in T
      BY <2>2
    <3> HIDE DEF T
    <3> QED BY <2>1, <3>1
  <2>4. Last(y) = b
    BY <2>3 DEF Last
  <2>5. b \in Parts
    BY <2>3
  <2>6. Stripped(Append(Stripped(m.path), b)) = Stripped(m.path)
    BY <2>1, <2>5, StrippedAgain
  <2> QED BY <1>1, <2>1, <2>3, <2>4, <2>6 DEF q
<1>2. CASE m.kind # "directory"
  <2>1. y = q \o <<>>
    BY <1>2, Zenon DEF NormalizedTarName
  <2>2. q \in Seq(Parts)
    BY StrippedIn
  <2> HIDE DEF q
  <2>3. y = q
    BY <2>1, <2>2
  <2>4. PICK b : Blank(b)
    BY DEF Blank
  <2>5. Stripped(Stripped(m.path)) = Stripped(m.path)
    <3>1. PICK K : EndsAt(m.path, K) /\ Stripped(m.path) = SubSeq(m.path, 1, K)
      BY StrippedFacts
    <3> DEFINE T == Parts \cup {b}
    <3>2. m.path \in Seq(T) /\ b \in T
      OBVIOUS
    <3> HIDE DEF T
    <3> QED BY <2>4, <3>2, StrippedAgain
  <2>6. y # <<>>
    <3>1. Stripped(y) # <<>> BY Zenon DEF AssertSafeName
    <3> QED BY <2>3, <2>5, <3>1 DEF q
  <2>7. ~Blank(Last(y))
    BY <2>3, <2>6, StrippedLast DEF q
  <2> QED BY <1>2, <2>3, <2>5, <2>7 DEF q
<1> QED BY <1>1, <1>2

FileNames(p) == {x \in ToSet(Names) : IsFileOf(p, x)}
EntryNames(p) == {x \in ToSet(Names) : IsDirectory(x) \/ IsFileOf(p, x)}

\* The lists that the code checks the names against.
LEMMA ExpectedAre ==
  ASSUME NEW p
  PROVE  /\ ExpectedFileEntries(p) = SortedEntries(p, FileNames(p))
         /\ ExpectedTarEntries(p) = SortedEntries(p, EntryNames(p))
<1>1. ExpectedFileEntries(p) = SortedEntries(p, FileNames(p))
  BY Zenon DEF ExpectedFileEntries, RelativeFiles, SortedEntries, FileNames
<1>2. ExpectedTarEntries(p) = SortedEntries(p, EntryNames(p))
  BY Zenon DEF ExpectedTarEntries, SortedEntries, EntryNames
<1> QED BY <1>1, <1>2

\* A reading of an accepted archive, and the files of it that are tested.
Understood(archive, p, members, payloads) ==
    \E names, N :
        /\ Laid(p, members, names, N)
        /\ \A n \in 1..N : archive.members[n].data = members[n].data
        /\ payloads = Payloads(archive.members, names, FilesAt(members, N)).payloads

\* A rejected archive is not accepted.
LEMMA RejectedIsNotOk == ~Rejected.ok
BY DEF Rejected

\* Members of an archive, which are numbered from 1 on.
LEMMA MemberFacts ==
  ASSUME NEW archive, IsArchive(archive)
  PROVE  /\ Len(archive.members) \in Nat
         /\ DOMAIN archive.members = 1..Len(archive.members)
         /\ \A n \in 1..Len(archive.members) : IsMember(archive.members[n])
<1> DEFINE s == archive.members
<1>1. IsList(s) /\ \A m \in ToSet(s) : IsMember(m)
  BY Zenon DEF IsArchive
<1> HIDE DEF s
<1>2. /\ Len(s) \in Nat /\ DOMAIN s = 1..Len(s) /\ \A n \in 1..Len(s) : s[n] \in ToSet(s)
  BY <1>1, ListFacts
<1> QED BY <1>1, <1>2, Zenon DEF s

\* The members of an accepted tar.
LEMMA TarLaid ==
  ASSUME NEW archive, IsArchive(archive), ValidateTar(archive).ok
  PROVE  /\ archive.rest = <<>>
         /\ Understood(archive, "linux", archive.members, ValidateTar(archive).payloads)
<1> DEFINE members == archive.members
           N == Len(members)
           names == [n \in DOMAIN members |-> NormalizedTarName(members[n])]
           F == {n \in DOMAIN members : members[n].kind = "file"}
           S == EntryNames("linux")
<1>0. /\ archive.rest = <<>>
      /\ AssertExactNames(names, ExpectedTarEntries("linux"))
      /\ \A n \in DOMAIN members :
             /\ members[n].kind \in {"file", "directory"}
             /\ members[n].data.mode = TarMode("linux", names[n])
      /\ ValidateTar(archive) = Payloads(members, names, F)
  BY RejectedIsNotOk, Zenon DEF ValidateTar
<1>1. N \in Nat /\ DOMAIN members = 1..N /\ \A n \in 1..N : members[n].path \in Seq(Parts)
  BY MemberFacts, Zenon DEF IsMember
<1>p. "linux" \in Platforms
  BY DEF Platforms
<1>2. DOMAIN names = 1..N /\ \A n \in 1..N : names[n] = NormalizedTarName(members[n])
  BY <1>1
<1> HIDE DEF members, N, names
<1>3. Exact(names, N, "linux", S)
  <2>1. AssertExactNames(names, SortedEntries("linux", S))
    BY <1>0, ExpectedAre, Zenon
  <2>2. S \subseteq ToSet(Names)
    BY DEF EntryNames
  <2> HIDE DEF S
  <2> QED BY <1>1, <1>2, <1>p, <2>1, <2>2, ExactNames
<1>4. ASSUME NEW n \in 1..N
      PROVE  /\ members[n].path \in Seq(Parts) /\ AssertSafeName(names[n])
             /\ Stripped(members[n].path) = Stripped(names[n])
             /\ \E x \in ToSet(Names) :
                   /\ names[n] = <<Root("linux")>> \o x
                   /\ IsDirectory(x) => members[n].kind = "directory"
                   /\ ~IsDirectory(x) => IsFileOf("linux", x) /\ members[n].kind = "file"
  <2>1. PICK x \in S : names[n] = <<Root("linux")>> \o x
    BY <1>3, Zenon DEF Exact
  <2>2. x \in ToSet(Names) /\ (IsDirectory(x) \/ IsFileOf("linux", x))
    BY DEF EntryNames
  <2>3. AssertSafeName(names[n])
    BY <1>3, Zenon DEF Exact
  <2>4. names[n] \in Seq(Parts)
    BY <1>p, <2>1, <2>2, NameFacts, Rooted
  <2>5. members[n].kind \in {"file", "directory"}
    BY <1>0, <1>1
  <2>6. /\ Stripped(members[n].path) = Stripped(names[n])
        /\ members[n].kind = "directory" <=> Blank(Last(names[n]))
    BY <1>1, <1>2, <2>3, <2>4, <2>5, Normalized
  <2>7. IsDirectory(x) <=> Blank(Last(names[n]))
    BY <1>p, <2>1, <2>2, <2>3, NameKind
  <2> QED BY <1>1, <2>1, <2>2, <2>3, <2>5, <2>6, <2>7
<1>5. \A n \in 1..N : members[n].data.mode = TarMode("linux", names[n])
  BY <1>0, <1>1
<1>6. \A x \in ToSet(Names) : IsFileOf("linux", x) =>
          \E n \in 1..N : names[n] = <<Root("linux")>> \o x
  <2>1. \A x \in ToSet(Names) : IsFileOf("linux", x) => x \in S
    BY DEF EntryNames
  <2> QED BY <1>3, <2>1, Zenon DEF Exact
<1>7. \A i, j \in 1..N : i # j => Fold(names[i]) # Fold(names[j])
  BY <1>3, Zenon DEF Exact
<1>8. Laid("linux", members, names, N)
  BY <1>1, <1>4, <1>5, <1>6, <1>7, Zenon DEF Laid, N
<1>9. F = FilesAt(members, N)
  BY <1>1 DEF FilesAt
<1>10. ValidateTar(archive).payloads = Payloads(members, names, FilesAt(members, N)).payloads
  BY <1>0, <1>9
<1>11. \E names2, N2 :
          /\ Laid("linux", members, names2, N2)
          /\ \A n \in 1..N2 : members[n].data = members[n].data
          /\ ValidateTar(archive).payloads
                = Payloads(members, names2, FilesAt(members, N2)).payloads
  BY <1>8, <1>10, Zenon
<1> QED BY <1>0, <1>11, Zenon DEF Understood, members

\* The members of an accepted zip, as their attributes say.
LEMMA ZipLaid ==
  ASSUME NEW archive, IsArchive(archive), NEW allow, ValidateZip(archive, allow).ok,
         NoLinks(archive), NEW reading,
         reading = [n \in DOMAIN archive.members |->
                      [archive.members[n] EXCEPT !.kind = ZipKind(archive.members[n])]]
  PROVE  Understood(archive, "windows", reading, ValidateZip(archive, allow).payloads)
<1> DEFINE members == archive.members
           N == Len(members)
           names == [n \in DOMAIN members |-> members[n].path]
           S == FileNames("windows")
<1>0. /\ AssertExactNames(names, ExpectedFileEntries("windows"))
      /\ ValidateZip(archive, allow) = Payloads(members, names, DOMAIN members)
  BY RejectedIsNotOk, Zenon DEF ValidateZip
<1>1. /\ N \in Nat /\ DOMAIN members = 1..N
      /\ \A n \in 1..N :
            LET m == members[n]
            IN  /\ m = [path |-> m.path, kind |-> m.kind, canonical |-> m.canonical,
                        data |-> m.data]
                /\ m.path \in Seq(Parts)
  BY MemberFacts DEF IsMember
<1>p. "windows" \in Platforms
  BY DEF Platforms
<1>2. DOMAIN names = 1..N /\ \A n \in 1..N : names[n] = members[n].path
  BY <1>1
<1>l. \A n \in 1..N : members[n].data.mode # "link"
  BY <1>1, Zenon DEF NoLinks
<1>r. /\ DOMAIN reading = 1..N
      /\ \A n \in 1..N : reading[n] = [members[n] EXCEPT !.kind = ZipKind(members[n])]
  BY <1>1
<1>q. reading = [n \in 1..N |-> reading[n]]
  BY <1>1
<1> HIDE DEF members, N, names
<1>n. Len(reading) = N
  BY <1>1, <1>q
<1>3. Exact(names, N, "windows", S)
  <2>1. AssertExactNames(names, SortedEntries("windows", S))
    BY <1>0, ExpectedAre, Zenon
  <2>2. S \subseteq ToSet(Names)
    BY DEF FileNames
  <2> HIDE DEF S
  <2> QED BY <1>1, <1>2, <1>p, <2>1, <2>2, ExactNames
<1>4. ASSUME NEW n \in 1..N
      PROVE  /\ reading[n].path = names[n] /\ reading[n].data = members[n].data
             /\ reading[n].kind = ZipKind(members[n]) /\ names[n] \in Seq(Parts)
  <2>1. PICK a, b, c, d : members[n] = [path |-> a, kind |-> b, canonical |-> c, data |-> d]
    BY <1>1
  <2> DEFINE k == ZipKind(members[n])
  <2>2. reading[n] = [members[n] EXCEPT !.kind = k]
    BY <1>r
  <2> HIDE DEF k
  <2>3. reading[n].path = a /\ reading[n].data = d /\ reading[n].kind = k
    BY <2>1, <2>2
  <2>4. members[n].path = a /\ members[n].data = d
    BY <2>1
  <2> QED BY <1>1, <1>2, <2>3, <2>4 DEF k
<1>5. ASSUME NEW n \in 1..N
      PROVE  /\ AssertSafeName(names[n]) /\ reading[n].kind = "file"
             /\ \E x \in ToSet(Names) : /\ names[n] = <<Root("windows")>> \o x
                                        /\ ~IsDirectory(x) /\ IsFileOf("windows", x)
  <2>1. PICK x \in S : names[n] = <<Root("windows")>> \o x
    BY <1>3, Zenon DEF Exact
  <2>2. x \in ToSet(Names) /\ IsFileOf("windows", x) /\ ~IsDirectory(x)
    BY DEF FileNames, IsFileOf
  <2>3. AssertSafeName(names[n])
    BY <1>3, Zenon DEF Exact
  <2>4. ~Blank(Last(names[n]))
    BY <1>p, <2>1, <2>2, <2>3, NameKind
  <2>5. ~IsDirectory(members[n].path)
    BY <1>2, <2>4, Zenon DEF IsDirectory, Blank
  <2>6. ZipKind(members[n]) = "file"
    BY <1>l, <2>5, Zenon DEF ZipKind
  <2> QED BY <1>4, <2>1, <2>2, <2>3, <2>6
<1>6. \A x \in ToSet(Names) : IsFileOf("windows", x) =>
          \E n \in 1..N : names[n] = <<Root("windows")>> \o x
  <2>1. \A x \in ToSet(Names) : IsFileOf("windows", x) => x \in S
    BY DEF FileNames
  <2> QED BY <1>3, <2>1, Zenon DEF Exact
<1>7. \A i, j \in 1..N : i # j => Fold(names[i]) # Fold(names[j])
  BY <1>3, Zenon DEF Exact
<1>s. "windows" # "linux"
  OBVIOUS
<1>8. Laid("windows", reading, names, N)
  BY <1>1, <1>n, <1>r, <1>4, <1>5, <1>6, <1>7, <1>s, Zenon DEF Laid
<1>9. FilesAt(reading, N) = DOMAIN members
  BY <1>1, <1>5 DEF FilesAt
<1>10. ValidateZip(archive, allow).payloads
          = Payloads(members, names, FilesAt(reading, N)).payloads
  BY <1>0, <1>9
<1>11. \E names2, N2 :
          /\ Laid("windows", reading, names2, N2)
          /\ \A n \in 1..N2 : members[n].data = reading[n].data
          /\ ValidateZip(archive, allow).payloads
                = Payloads(members, names2, FilesAt(reading, N2)).payloads
  BY <1>4, <1>8, <1>10, Zenon
<1> QED BY <1>11, Zenon DEF Understood, members

\* An archive that is accepted, as readers understand it.
LEMMA AcceptedReadings ==
  ASSUME NEW archive, IsArchive(archive), NEW p \in Platforms, NEW allow \in BOOLEAN,
         ValidateArchive(archive, p, allow).ok, p = "windows" => NoLinks(archive),
         NEW members \in Readings(archive, p)
  PROVE  Understood(archive, p, members, ValidateArchive(archive, p, allow).payloads)
<1>1. CASE p = "windows"
  <2>1. ValidateArchive(archive, p, allow) = ValidateZip(archive, allow)
    BY <1>1, Zenon DEF ValidateArchive
  <2>2. members = [n \in DOMAIN archive.members |->
                     [archive.members[n] EXCEPT !.kind = ZipKind(archive.members[n])]]
    BY <1>1 DEF Readings
  <2> QED BY <1>1, <2>1, <2>2, ZipLaid
<1>2. CASE p # "windows"
  <2>1. p = "linux"
    BY <1>2 DEF Platforms
  <2>2. ValidateArchive(archive, p, allow) = ValidateTar(archive)
    BY <1>2, RejectedIsNotOk, Zenon DEF ValidateArchive
  <2>3. archive.rest = <<>>
    BY <2>2, TarLaid
  <2>4. members \in {archive.members, archive.members \o <<>>}
    BY <1>2, <2>3, Zenon DEF Readings
  <2>5. archive.members \o <<>> = archive.members
    <3> DEFINE s == archive.members
               T == ToSet(s)
    <3>1. s \in Seq(T)
      BY Zenon DEF IsArchive, IsList
    <3> HIDE DEF s, T
    <3> QED BY <3>1 DEF s
  <2>6. members = archive.members
    BY <2>4, <2>5
  <2> QED BY <2>1, <2>2, <2>6, TarLaid
<1> QED BY <1>1, <1>2

\* An accepted archive unpacks to exactly the files of a release.
LEMMA AcceptedUnpacks ==
  ASSUME NEW archive, IsArchive(archive), NEW p \in Platforms, NEW allow \in BOOLEAN,
         ValidateArchive(archive, p, allow).ok, p = "windows" => NoLinks(archive)
  PROVE  /\ Unpacks(archive, p)
         /\ \A members \in Readings(archive, p) :
               UserTree(Unpack(members), p)
                  = Folded(ExtractPayloads(ValidateArchive(archive, p, allow).payloads, p))
<1>1. ASSUME NEW members \in Readings(archive, p)
      PROVE  /\ IsUnpacked(Unpack(members), p)
             /\ UserTree(Unpack(members), p)
                  = Folded(ExtractPayloads(ValidateArchive(archive, p, allow).payloads, p))
  <2> DEFINE payloads == ValidateArchive(archive, p, allow).payloads
  <2>1. Understood(archive, p, members, payloads)
    BY AcceptedReadings
  <2> HIDE DEF payloads
  <2>2. PICK names, N :
          /\ Laid(p, members, names, N)
          /\ \A n \in 1..N : archive.members[n].data = members[n].data
          /\ payloads = Payloads(archive.members, names, FilesAt(members, N)).payloads
    BY <2>1, Zenon DEF Understood
  <2>3. IsUnpacked(Unpack(members), p)
    BY <2>2, LaidUnpacked
  <2>4. UserTree(Unpack(members), p)
          = Folded(ExtractPayloads(Payloads(archive.members, names, FilesAt(members, N)).payloads, p))
    BY <2>2, LaidTree
  <2> QED BY <2>2, <2>3, <2>4, Zenon DEF payloads
<1> QED BY <1>1, Zenon DEF Unpacks

-----------------------------------------------------------------------------
(* The archives that are handed over and released.                         *)

\* A list of members made from names.
Entered(members, names) ==
    /\ IsList(names) /\ \A n \in 1..Len(names) : names[n] \in Seq(Parts)
    /\ DOMAIN members = 1..Len(names) /\ members = [n \in 1..Len(names) |-> members[n]]
    /\ \A n \in 1..Len(names) : \E kind, bytes, mode :
          members[n] = Entry(names[n], kind, bytes, mode) /\ mode # "link"

\* What the tools enter under these names is an archive.
LEMMA EnteredIsArchive ==
  ASSUME NEW archive, NEW names, Entered(archive.members, names), archive.rest = <<>>
  PROVE  IsArchive(archive) /\ NoLinks(archive)
<1> DEFINE members == archive.members
           N == Len(names)
<1>1. /\ N \in Nat /\ DOMAIN members = 1..N /\ members = [n \in 1..N |-> members[n]]
      /\ \A n \in 1..N : names[n] \in Seq(Parts)
      /\ \A n \in 1..N : \E kind, bytes, mode :
          members[n] = Entry(names[n], kind, bytes, mode) /\ mode # "link"
  BY ListFacts, Zenon DEF Entered
<1> HIDE DEF members, N
<1>2. IsList(members)
  BY <1>1, ListOf
<1>3. \A path, kind, bytes, mode : path \in Seq(Parts) =>
        IsMember(Entry(path, kind, bytes, mode)) /\ Entry(path, kind, bytes, mode).data.mode = mode
  BY DEF Entry, IsMember
<1>4. \A n \in 1..N : IsMember(members[n]) /\ members[n].data.mode # "link"
  <2> TAKE n \in 1..N
  <2>1. PICK kind, bytes, mode :
          members[n] = Entry(names[n], kind, bytes, mode) /\ mode # "link"
    BY <1>1
  <2>2. names[n] \in Seq(Parts)
    BY <1>1
  <2>3. /\ IsMember(Entry(names[n], kind, bytes, mode))
        /\ Entry(names[n], kind, bytes, mode).data.mode = mode
    BY <1>3, <2>2
  <2> QED BY <2>1, <2>3
<1>5. \A m \in ToSet(members) : \E n \in 1..N : m = members[n]
  BY <1>1 DEF ToSet
<1>6. IsList(archive.rest)
  <2>1. <<>> \in Seq(ToSet(<<>>))
    OBVIOUS
  <2> QED BY <2>1, Zenon DEF IsList
<1>7. NoLinks(archive)
  BY <1>1, <1>4, Zenon DEF NoLinks, members
<1>8. IsArchive(archive)
  BY <1>2, <1>4, <1>5, <1>6, Zenon DEF IsArchive, members
<1> QED BY <1>7, <1>8

\* The files of a platform are a list of paths.
LEMMA FileLists ==
  ASSUME NEW p \in Platforms, NEW S, S \subseteq ToSet(Names), NEW s, s = Sorted(S)
  PROVE  /\ IsList(s) /\ \A n \in 1..Len(s) : s[n] \in S
         /\ IsList(SortedEntries(p, S)) /\ Len(SortedEntries(p, S)) = Len(s)
         /\ \A n \in 1..Len(s) : /\ SortedEntries(p, S)[n] = <<Root(p)>> \o s[n]
                                 /\ SortedEntries(p, S)[n] \in Seq(Parts)
<1>1. IsList(s) /\ ToSet(s) = S
  <2>1. ToSet(Names) \cap S = S
    OBVIOUS
  <2> QED BY <2>1, SortedFacts, Zenon
<1>2. /\ Len(s) \in Nat /\ DOMAIN s = 1..Len(s) /\ \A n \in 1..Len(s) : s[n] \in S
  BY <1>1, ListFacts
<1> DEFINE E == SortedEntries(p, S)
<1>3. E = [n \in 1..Len(s) |-> <<Root(p)>> \o s[n]]
  BY <1>2, Zenon DEF SortedEntries
<1> HIDE DEF E
<1>4. E = [n \in 1..Len(s) |-> E[n]]
  BY <1>3
<1>5. IsList(E) /\ Len(E) = Len(s)
  BY <1>2, <1>4, ListOf
<1>6. ASSUME NEW n \in 1..Len(s)
      PROVE  E[n] = <<Root(p)>> \o s[n] /\ E[n] \in Seq(Parts)
  <2>1. s[n] \in ToSet(Names)
    BY <1>2
  <2>2. <<Root(p)>> \o s[n] \in Seq(Parts)
    BY <2>1, NameFacts, Rooted
  <2> QED BY <1>3, <2>2
<1> QED BY <1>1, <1>2, <1>5, <1>6 DEF E

\* The members that are made of the files are such lists.
LEMMA ZipEntered ==
  ASSUME NEW payloads
  PROVE  \E names : Entered(CreateMockZip(payloads), names)
<1> DEFINE S == FileNames("windows")
           s == Sorted(S)
           names == SortedEntries("windows", S)
           members == CreateMockZip(payloads)
<1>0. S \subseteq ToSet(Names) /\ "windows" \in Platforms
  BY DEF FileNames, Platforms
<1>1. RelativeFiles("windows") = s
  BY Zenon DEF RelativeFiles, FileNames
<1>2. members = [n \in DOMAIN s |->
            Entry(<<Root("windows")>> \o s[n], "file", payloads[s[n]], "archived")]
  BY <1>1, Zenon DEF CreateMockZip
<1> HIDE DEF S, members
<1>3. /\ IsList(s) /\ IsList(names) /\ Len(names) = Len(s)
      /\ \A n \in 1..Len(s) : names[n] = <<Root("windows")>> \o s[n] /\ names[n] \in Seq(Parts)
  BY <1>0, FileLists
<1> HIDE DEF s, names
<1>4. DOMAIN s = 1..Len(s)
  BY <1>3, ListFacts
<1>5. /\ DOMAIN members = 1..Len(names) /\ members = [n \in 1..Len(names) |-> members[n]]
      /\ \A n \in 1..Len(names) :
            members[n] = Entry(names[n], "file", payloads[s[n]], "archived")
  BY <1>2, <1>3, <1>4
<1>6. \A n \in 1..Len(names) : \E kind, bytes, mode :
        members[n] = Entry(names[n], kind, bytes, mode) /\ mode # "link"
  <2>1. "archived" # "link"
    OBVIOUS
  <2> TAKE n \in 1..Len(names)
  <2>2. members[n] = Entry(names[n], "file", payloads[s[n]], "archived")
    BY <1>5
  <2> QED BY <2>1, <2>2
<1>7. Entered(members, names)
  BY <1>3, <1>5, <1>6, Zenon DEF Entered
<1> QED BY <1>7 DEF members

\* The members of a new tarball are made from the expected names.
LEMMA TarEntered ==
  ASSUME NEW payloads
  PROVE  \E names : Entered(CreateMockTar(payloads), names)
<1> DEFINE S == EntryNames("linux")
           s == Sorted(S)
           names == SortedEntries("linux", S)
           members == CreateMockTar(payloads)
<1>0. S \subseteq ToSet(Names) /\ "linux" \in Platforms
  BY DEF EntryNames, Platforms
<1>1. ExpectedTarEntries("linux") = names
  BY ExpectedAre
<1>2. members = [n \in DOMAIN names |->
          IF IsDirectory(names[n]) THEN Entry(names[n], "directory", None, "executable")
          ELSE Entry(names[n], "file", payloads[Tail(names[n])], TarMode("linux", names[n]))]
  BY <1>1, Zenon DEF CreateMockTar
<1> HIDE DEF S, members
<1>3. /\ IsList(names) /\ Len(names) = Len(s)
      /\ \A n \in 1..Len(s) : names[n] \in Seq(Parts)
  BY <1>0, FileLists
<1> HIDE DEF s, names
<1>4. DOMAIN names = 1..Len(names)
  BY <1>3, ListFacts
<1>5. /\ DOMAIN members = 1..Len(names) /\ members = [n \in 1..Len(names) |-> members[n]]
      /\ \A n \in 1..Len(names) :
            members[n] = IF IsDirectory(names[n])
                         THEN Entry(names[n], "directory", None, "executable")
                         ELSE Entry(names[n], "file", payloads[Tail(names[n])],
                                    TarMode("linux", names[n]))
  BY <1>2, <1>4
<1>6. \A n \in 1..Len(names) : \E kind, bytes, mode :
        members[n] = Entry(names[n], kind, bytes, mode) /\ mode # "link"
  <2>1. "executable" # "link" /\ \A path : TarMode("linux", path) # "link"
    BY DEF TarMode
  <2> QED BY <1>5, <2>1, Zenon
<1>7. Entered(members, names)
  BY <1>3, <1>5, <1>6, Zenon DEF Entered
<1> QED BY <1>7 DEF members

\* What create_mock makes, and what the packaging tools write.
LEMMA MockIsArchive ==
  ASSUME NEW p, NEW tree, NEW source
  PROVE  IsArchive(CreateMock(tree, source, p)) /\ NoLinks(CreateMock(tree, source, p))
<1> DEFINE archive == CreateMock(tree, source, p)
           payloads == SourceBytes(tree, source, p)
<1>1. /\ archive.rest = <<>>
      /\ archive.members \in {CreateMockZip(payloads), CreateMockTar(payloads)}
  BY DEF CreateMock
<1> HIDE DEF archive, payloads
<1>2. \E names : Entered(archive.members, names)
  BY <1>1, ZipEntered, TarEntered
<1> QED BY <1>1, <1>2, EnteredIsArchive DEF archive

\* What a runner packs is an archive, whichever variant it is.
LEMMA PackedIsArchive ==
  ASSUME NEW p
  PROVE  IsArchive(Packed(p))
<1> DEFINE archive == Packed(p)
           entries == CreateMockZip(Sources(p))
           zip == [n \in DOMAIN entries |-> [entries[n] EXCEPT !.data.mode = "zero"]]
<1>1. /\ archive.rest = <<>>
      /\ archive.members \in {zip, CreateMockTar(Sources(p))}
  BY DEF Packed
<1>2. PICK names : Entered(entries, names)
  BY ZipEntered
<1> HIDE DEF archive, entries
<1>3. /\ IsList(names) /\ (\A n \in 1..Len(names) : names[n] \in Seq(Parts))
      /\ DOMAIN entries = 1..Len(names)
      /\ \A n \in 1..Len(names) : \E kind, bytes, mode :
            entries[n] = Entry(names[n], kind, bytes, mode)
  BY <1>2, Zenon DEF Entered
<1>4. /\ DOMAIN zip = 1..Len(names)
      /\ zip = [n \in 1..Len(names) |-> zip[n]]
      /\ \A n \in 1..Len(names) : zip[n] = [entries[n] EXCEPT !.data.mode = "zero"]
  BY <1>3
<1> HIDE DEF zip
<1>5. \A path, kind, bytes, mode, zero :
        [Entry(path, kind, bytes, mode) EXCEPT !.data.mode = zero] = Entry(path, kind, bytes, zero)
  <2> TAKE path, kind, bytes, mode, zero
  <2> DEFINE old == [bytes |-> bytes, mode |-> mode]
             new == [bytes |-> bytes, mode |-> zero]
  <2>1. [old EXCEPT !.mode = zero] = new
    OBVIOUS
  <2> HIDE DEF old, new
  <2>2. PICK c : c = TRUE
    OBVIOUS
  <2>3. [[path |-> path, kind |-> kind, canonical |-> c, data |-> old] EXCEPT !.data.mode = zero]
          = [path |-> path, kind |-> kind, canonical |-> c, data |-> new]
    BY <2>1
  <2>4. /\ Entry(path, kind, bytes, mode)
              = [path |-> path, kind |-> kind, canonical |-> c, data |-> old]
        /\ Entry(path, kind, bytes, zero)
              = [path |-> path, kind |-> kind, canonical |-> c, data |-> new]
    BY <2>2, Zenon DEF Entry, old, new
  <2> QED BY <2>3, <2>4, Zenon
<1>6. \A n \in 1..Len(names) : \E kind, bytes, mode :
        zip[n] = Entry(names[n], kind, bytes, mode) /\ mode # "link"
  <2> TAKE n \in 1..Len(names)
  <2>1. PICK kind, bytes, mode : entries[n] = Entry(names[n], kind, bytes, mode)
    BY <1>3
  <2>2. zip[n] = Entry(names[n], kind, bytes, "zero")
    BY <1>4, <1>5, <2>1
  <2>3. "zero" # "link"
    OBVIOUS
  <2> QED BY <2>2, <2>3
<1>7. Entered(zip, names)
  BY <1>3, <1>4, <1>6, Zenon DEF Entered
<1>8. \E names2 : Entered(archive.members, names2)
  BY <1>1, <1>7, TarEntered
<1> QED BY <1>1, <1>8, EnteredIsArchive DEF archive

\* What packing gives is an archive, and so is what another program writes.
LEMMA ArchivesAre ==
  ASSUME NEW p \in Platforms, NEW archive \in Archives(p) \cup {Foreign}
  PROVE  IsArchive(archive)
<1>1. IsArchive(Foreign)
  <2>1. Foreign.members = <<>> /\ Foreign.rest = <<>>
    BY DEF Foreign
  <2>2. <<>> \in Seq(ToSet(<<>>)) /\ ToSet(<<>>) = {}
    BY DEF ToSet
  <2> QED BY <2>1, <2>2, Zenon DEF IsArchive, IsList
<1> QED BY <1>1, PackedIsArchive, VariantsAssumption DEF Archives

\* What was accepted without simulation has no links.
LEMMA AcceptedHasNoLinks ==
  ASSUME NEW archive, ValidateArchive(archive, "windows", FALSE).ok
  PROVE  NoLinks(archive)
<1>1. ValidateZip(archive, FALSE).ok
  BY Zenon DEF ValidateArchive
<1>2. \A n \in DOMAIN archive.members : archive.members[n].data.mode = "zero"
  BY <1>1, RejectedIsNotOk, Zenon DEF ValidateZip
<1>3. "zero" # "link"
  OBVIOUS
<1> QED BY <1>2, <1>3 DEF NoLinks

\* What another program writes has no links.
LEMMA ForeignHasNoLinks == NoLinks(Foreign)
BY DEF NoLinks, Foreign

\* Runners write evidence of real archives.
LEMMA EvidenceIsReal ==
    \A platform, archive : ~Evidence(platform, archive, FALSE).simulated
BY DEF Evidence

\* What is said of a handoff is of it and the history alone.
LEMMA ItemStays ==
    ASSUME UNCHANGED case, altered \subseteq altered', NEW i, ItemInv(i)
    PROVE  ItemInv(i)'
BY DEF ItemInv

\* Steps that store nothing new keep what is said of the archives.
LEMMA UnalteredItems ==
    ASSUME ItemsInv, UNCHANGED <<case, store, altered>>, Frozen,
           \A leg \in DOMAIN legs :
              legs'[leg].input \subseteq legs[leg].input \cup {store[name] : name \in DOMAIN store}
    PROVE  ItemsInv'
<1>1. Handoffs' \subseteq Handoffs
  BY DEF Handoffs, Frozen
<1>2. QED
  BY <1>1, ItemStays DEF ItemsInv

\* So do steps that store one more that is as it should be.
LEMMA ItemsChange ==
    ASSUME ItemsInv, UNCHANGED case, Frozen, InputsKept, altered \subseteq altered', NEW item,
           ItemInv(item)',
           \A name \in DOMAIN store' :
              store'[name] = item \/ (name \in DOMAIN store /\ store'[name] = store[name])
    PROVE  ItemsInv'
<1>1. Handoffs' \subseteq Handoffs \cup {item}
  BY DEF Handoffs, Frozen, InputsKept
<1>2. QED
  BY <1>1, ItemStays DEF ItemsInv

\* An upload stores an archive without links, unless it is another program's.
LEMMA UploadKeepsItems ==
    ASSUME LegsInv, ItemsInv, NEW leg \in DOMAIN legs, Upload(leg)
    PROVE  ItemsInv'
<1>1. LegsKept /\ InputsKept /\ UNCHANGED <<case, program, altered>>
  BY OtherSteps DEF Upload
<1>2. CASE UNCHANGED store
  BY <1>1, <1>2, UnalteredItems DEF LegsKept, InputsKept, Frozen
<1>3. ASSUME NEW name, NEW evidence \in {legs[leg].evidence, None},
             store' = [n \in DOMAIN store \cup {name} |->
                          IF n = name THEN [label |-> name, platform |-> PlatformOf(leg),
                                            archive |-> legs[leg].archive,
                                            evidence |-> evidence]
                          ELSE store[n]]
      PROVE  ItemsInv'
  <2>1. PICK item : item = [label |-> name, platform |-> PlatformOf(leg),
                            archive |-> legs[leg].archive, evidence |-> evidence]
    OBVIOUS
  <2>2. LegInv(leg)
    BY DEF LegsInv
  <2>3. item.archive # None => IsArchive(item.archive)
    <3>1. item.archive \notin {None, Foreign} => item.archive \in Archives(PlatformOf(leg))
      BY <2>1, <2>2 DEF LegInv, PublishedInv
    <3>2. QED
      BY <3>1, Systems, ArchivesAre
  <2>4. item.evidence # None => ~item.evidence.simulated
    <3>1. \/ evidence \in {None, ForeignEvidence}
          \/ \E archive : evidence = Evidence(PlatformOf(leg), archive, FALSE)
      BY <2>2 DEF LegInv, PublishedInv
    <3>2. item.evidence = evidence
      BY <2>1
    <3>3. evidence # None => \E p, archive : evidence = Evidence(p, archive, FALSE)
      BY <3>1, Zenon DEF ForeignEvidence
    <3>4. QED
      BY <3>2, <3>3, EvidenceIsReal
  <2>5. ItemInv(item)'
    BY <2>3, <2>4 DEF ItemInv
  <2>6. \A n \in DOMAIN store' :
            store'[n] = item \/ (n \in DOMAIN store /\ store'[n] = store[n])
    BY <1>3, <2>1
  <2>7. QED
    BY <1>1, <2>5, <2>6, ItemsChange DEF LegsKept
<1>4. QED
  BY <1>2, <1>3 DEF Upload

\* Made up archives are stored in a rehearsal only.
LEMMA MockKeepsItems ==
    ASSUME LegsInv, ItemsInv, NEW leg \in DOMAIN legs, Mock(leg)
    PROVE  ItemsInv'
<1>1. LegsKept /\ InputsKept /\ UNCHANGED <<case, program, altered>>
  BY OtherSteps DEF Mock
<1>2. case.event = "rehearsal" /\ PlatformOf(leg) \in DOMAIN store
  BY DEF Mock
<1>3. PICK other \in Platforms \ {PlatformOf(leg)} :
          LET archive == CreateMock(legs[leg].smoked, PlatformOf(leg), other)
          IN  store' = [p \in Platforms |->
                          IF p # other THEN store[p]
                          ELSE [label |-> p, platform |-> p, archive |-> archive,
                                evidence |-> Evidence(p, archive, TRUE)]]
  BY DEF Mock
<1>4. PICK archive : archive = CreateMock(legs[leg].smoked, PlatformOf(leg), other)
  OBVIOUS
<1>5. PICK item : item = [label |-> other, platform |-> other, archive |-> archive,
                          evidence |-> Evidence(other, archive, TRUE)]
  OBVIOUS
<1>6. IsArchive(archive) /\ NoLinks(archive)
  BY <1>4, MockIsArchive
<1>7. item.archive = archive
  BY <1>5
<1>8. ItemInv(item)'
  BY <1>1, <1>2, <1>6, <1>7 DEF ItemInv
<1>9. \A p \in Platforms : p # other => p = PlatformOf(leg)
  BY Systems DEF Platforms
<1>10. \A n \in DOMAIN store' :
           store'[n] = item \/ (n \in DOMAIN store /\ store'[n] = store[n])
  BY <1>2, <1>3, <1>4, <1>5, <1>9
<1>11. QED
  BY <1>1, <1>8, <1>10, ItemsChange DEF LegsKept

\* Altered archives are archives, and known to be altered.
LEMMA AlterKeepsItems ==
    ASSUME LegsInv, HandoffsInv, AuthorityInv, ItemsInv, Alter
    PROVE  ItemsInv'
<1>1. UNCHANGED <<case, program, legs>> /\ Frozen /\ InputsKept
  BY DEF Alter, Frozen, Finished, InputsKept
<1>2. case.event # "rehearsal"
  BY CasesAssumption DEF Alter, AuthorityInv
<1>3. PICK name \in DOMAIN store, what \in Alterations :
          /\ \A a \in altered : a.platform # store[name].platform
          /\ \E archive \in Variants(store[name].platform) \cup {store[name].archive},
                simulated \in BOOLEAN :
                store' = [store EXCEPT ![name] = Altered(store[name], what, archive, simulated)]
          /\ altered' = altered \cup {[platform |-> store[name].platform, what |-> what]}
  BY DEF Alter
<1>4. PICK item : item = store[name]
  OBVIOUS
<1>5. /\ HandoffInv(item) /\ ItemInv(item) /\ item.platform \in Platforms /\ IsHandoff(item)
      /\ \A a \in altered : a.platform # item.platform
  BY <1>2, <1>3, <1>4 DEF HandoffsInv, Handoffs, HandoffInv, ItemsInv
<1>6. PICK archive \in Variants(item.platform) \cup {item.archive} :
          \E simulated, new : /\ store' = [store EXCEPT ![name] = new]
                              /\ new = Altered(item, what, archive, simulated)
  BY <1>3, <1>4
<1>7. PICK new : store' = [store EXCEPT ![name] = new] /\ AlteredTo(item, what, archive, new)
  BY <1>5, <1>6, AlterIsKnown
<1>8. \A n \in DOMAIN store' : store'[n] = new \/ (n \in DOMAIN store /\ store'[n] = store[n])
  BY <1>7
<1>9. ArchiveKept(item)
  BY <1>5 DEF HandoffInv, FromAnother
<1>10. item.evidence # None => ~item.evidence.simulated
  BY <1>2, <1>5 DEF ItemInv
<1>11. altered \subseteq altered' /\ \E a \in altered' : a.platform = item.platform
  <2>1. PICK a : a = [platform |-> item.platform, what |-> what]
    OBVIOUS
  <2>2. altered' = altered \cup {a} /\ a.platform = item.platform
    BY <1>3, <1>4, <2>1
  <2>3. QED
    BY <2>2
<1>12. ItemInv(new)'
  <2>1. archive # None => IsArchive(archive)
    BY <1>5, <1>6, VariantsAssumption DEF ItemInv
  <2>2. item.archive # None => IsArchive(item.archive)
    BY <1>5 DEF ItemInv
  <2>3. CASE what = "evidence"
    <3>1. item.platform = "windows" /\ item.archive # None => NoLinks(item.archive)
      BY <1>9, ForeignHasNoLinks, AcceptedHasNoLinks DEF ArchiveKept, PackagedHere, Packages
    <3>2. QED
      BY <1>7, <1>11, <2>2, <2>3, <3>1 DEF ItemInv, AlteredTo
  <2>4. CASE what # "evidence"
    <3>1. new.archive = archive /\ (new.evidence # None => ~new.evidence.simulated)
      BY <1>7, <1>10, <2>4 DEF AlteredTo
    <3>2. QED
      BY <2>1, <3>1 DEF ItemInv
  <2>5. QED
    BY <2>3, <2>4
<1>13. QED
  BY <1>1, <1>8, <1>11, <1>12, ItemsChange

\* Every step keeps what is said of the archives that are handed over.
LEMMA StepKeepsItems ==
    ASSUME LegsInv, HandoffsInv, AuthorityInv, ItemsInv, [Next]_vars
    PROVE  ItemsInv' /\ UNCHANGED case
<1>1. Frozen /\ UNCHANGED case
  BY StepKeepsHandoffs
<1>2. CASE Validate \/ Drift \/ UNCHANGED vars
  <2>1. UNCHANGED <<case, legs, store, altered>>
    BY <1>2 DEF Validate, Drift, vars
  <2>2. QED
    BY <1>1, <2>1, UnalteredItems
<1>3. CASE Alter
  BY <1>1, <1>3, AlterKeepsItems
<1>4. ASSUME NEW leg \in DOMAIN legs, LegStep(leg) \/ Meddle(leg)
      PROVE  ItemsInv'
  <2>1. UNCHANGED <<case, program, altered>>
    BY <1>4 DEF LegStep, Skip, Run, Package, Publish, PublishEvidence, CheckRollback,
                DeleteArchive, Upload, Mock, Download, Aggregate, Meddle
  <2>2. CASE Skip(leg) \/ Run(leg) \/ Package(leg) \/ Publish(leg) \/ PublishEvidence(leg)
             \/ CheckRollback(leg) \/ DeleteArchive(leg) \/ Aggregate(leg) \/ Meddle(leg)
    <3>1. UNCHANGED store
      BY <2>2 DEF Skip, Run, Package, Publish, PublishEvidence, CheckRollback, DeleteArchive,
                  Aggregate, Meddle
    <3>2. InputsKept
      BY <2>2, OtherSteps, PackageStep, PublishStep, PublishEvidenceStep,
         CheckRollbackStep, DeleteArchiveStep, MeddleStep
    <3>3. QED
      BY <1>1, <2>1, <3>1, <3>2, UnalteredItems DEF InputsKept
  <2>3. CASE Upload(leg)
    BY <2>3, UploadKeepsItems
  <2>4. CASE Mock(leg)
    BY <2>4, MockKeepsItems
  <2>5. CASE Download(leg)
    <3>1. UNCHANGED store
      BY <2>5 DEF Download
    <3>2. QED
      BY <1>1, <2>1, <2>5, <3>1, DownloadStep, UnalteredItems
  <2>6. QED
    BY <1>4, <2>2, <2>3, <2>4, <2>5 DEF LegStep
<1>5. CASE \E leg \in DOMAIN legs : LegStep(leg) \/ Meddle(leg)
  BY <1>1, <1>4, <1>5
<1>6. QED
  BY <1>1, <1>2, <1>3, <1>5 DEF Next

\* A release is what the aggregate accepted of archives that were handed over.
LEMMA StepKeepsAccepted ==
    ASSUME ItemsInv, ReleasedWasAccepted, [Next]_vars
    PROVE  ReleasedWasAccepted'
<1>1. UNCHANGED released \/ \E leg \in DOMAIN legs : Aggregate(leg)
  BY DEF Next, vars, Validate, Drift, Alter, LegStep, Skip, Run, Package, Publish,
         PublishEvidence, CheckRollback, DeleteArchive, Upload, Mock, Download, Meddle
<1>2. CASE UNCHANGED released
  BY <1>2 DEF ReleasedWasAccepted
<1>3. ASSUME NEW leg \in DOMAIN legs, Aggregate(leg), ~UNCHANGED released
      PROVE  ReleasedWasAccepted'
  <2> DEFINE input == legs[leg].input
  <2>1. /\ \E allow : AggregateAccepts(input, allow)
        /\ released' = [p \in Platforms |-> (CHOOSE i \in input : i.platform = p).archive]
    BY <1>3 DEF Aggregate
  <2>2. ASSUME NEW p \in Platforms
        PROVE  /\ IsArchive(released'[p]) /\ (p = "windows" => NoLinks(released'[p]))
               /\ \E simulated \in BOOLEAN : ValidateArchive(released'[p], p, simulated).ok
    <3> DEFINE i == CHOOSE i \in input : i.platform = p
               s == i.evidence.simulated /\ p = "windows"
    <3>1. released'[p] = i.archive
      BY <2>1
    <3>2. i \in input /\ i.platform = p
      BY <2>1 DEF AggregateAccepts
    <3> HIDE DEF i
    <3>3. /\ i.archive # None /\ i.evidence # None
          /\ ValidateArchive(i.archive, p, s).ok /\ s \in BOOLEAN
      BY <2>1, <3>2 DEF AggregateAccepts
    <3>4. ItemInv(i)
      BY <3>2 DEF ItemsInv, Handoffs
    <3>5. p = "windows" => NoLinks(i.archive)
      <4>1. CASE s
        BY <3>2, <3>3, <3>4, <4>1 DEF ItemInv
      <4>2. CASE ~s
        <5>1. s = FALSE
          BY <3>3, <4>2
        <5>2. QED
          BY <3>3, <5>1, AcceptedHasNoLinks
      <4>3. QED
        BY <4>1, <4>2
    <3>6. QED
      BY <3>1, <3>3, <3>4, <3>5 DEF ItemInv
  <2>3. QED
    BY <2>2 DEF ReleasedWasAccepted
<1>4. QED
  BY <1>1, <1>2, <1>3

\* What was released is what was tested.
LEMMA AcceptedWasTested ==
    ASSUME PipelineInv, ArchivesInv
    PROVE  ReleasedWasTested
<1>1. ~published
  BY DEF PipelineInv, AuthorityInv
<1>2. SUFFICES ASSUME released # None
               PROVE  /\ \A p \in Platforms : Unpacks(released[p], p)
                      /\ case.event = "dispatch" =>
                            \A p \in Platforms : WasTested(p) \/ FromElsewhere(p)
  BY <1>1, Zenon DEF ReleasedWasTested
<1>3. ASSUME NEW p \in Platforms
      PROVE  /\ Unpacks(released[p], p) /\ IsArchive(released[p])
             /\ (p = "windows" => NoLinks(released[p]))
  <2>1. PICK simulated \in BOOLEAN : ValidateArchive(released[p], p, simulated).ok
    BY <1>2, <1>3 DEF ArchivesInv, ReleasedWasAccepted
  <2>2. IsArchive(released[p]) /\ (p = "windows" => NoLinks(released[p]))
    BY <1>2, <1>3 DEF ArchivesInv, ReleasedWasAccepted
  <2> DEFINE archive == released[p]
  <2> HIDE DEF archive
  <2>3. Unpacks(archive, p)
    BY <2>1, <2>2, AcceptedUnpacks DEF archive
  <2> QED BY <2>2, <2>3 DEF archive
<1>4. ASSUME NEW p \in Platforms, PackagedHere(p, released[p]) PROVE WasTested(p)
  <2> DEFINE archive == released[p]
  <2>1. PICK leg \in DOMAIN legs : PlatformOf(leg) = p /\ Packages(leg, archive)
    BY <1>4 DEF PackagedHere
  <2>2. IsArchive(archive) /\ (p = "windows" => NoLinks(archive))
    BY <1>3
  <2> HIDE DEF archive
  <2>3. /\ ValidateArchive(archive, p, FALSE).ok
        /\ legs[leg].smoked = ExtractPayloads(ValidateArchive(archive, p, FALSE).payloads, p)
    BY <2>1 DEF Packages
  <2>4. \A members \in Readings(archive, p) :
            UserTree(Unpack(members), p)
               = Folded(ExtractPayloads(ValidateArchive(archive, p, FALSE).payloads, p))
    BY <2>2, <2>3, AcceptedUnpacks
  <2>5. \A members \in Readings(archive, p) :
            UserTree(Unpack(members), p) = Folded(legs[leg].smoked)
    BY <2>3, <2>4
  <2> QED BY <2>1, <2>5, Zenon DEF WasTested, archive
<1>5. case.event = "dispatch" =>
          \A p \in Platforms : WasTested(p) \/ FromElsewhere(p)
  <2>1. "dispatch" # "rehearsal"
    OBVIOUS
  <2> QED BY <1>2, <1>4, <2>1, Zenon DEF PipelineInv, ReleasedWasPackaged
<1> QED BY <1>3, <1>5, Zenon

\* Whatever is handed over lists members by their paths, evidence of a
\* simulation comes from a rehearsal or was put there, and each archive that is
\* released is one that the aggregate accepted for its platform
\* (release_archive.py 73-210, create-release-aggregate.ps1 428-506).
THEOREM ArchivesInvariant == Spec => []ArchivesInv
<1>1. Init => ArchivesInv
  <2> SUFFICES ASSUME Init PROVE ArchivesInv
    OBVIOUS
  <2>1. \A leg \in DOMAIN legs : legs[leg].input = {}
    BY DEF Init, NewLeg
  <2>2. Handoffs = {}
    BY <2>1 DEF Init, Handoffs
  <2> QED BY <2>2 DEF Init, ArchivesInv, ItemsInv, ReleasedWasAccepted
<1>2. PipelineInv /\ ArchivesInv /\ [Next]_vars => ArchivesInv'
  BY StepKeepsItems, StepKeepsAccepted DEF PipelineInv, ArchivesInv
<1>3. QED
  BY PipelineInvariant, <1>1, <1>2, PTL DEF Spec

\* A released archive unpacks, however users read it, to the files of the
\* release, where they belong and with the modes they need, and to nothing else;
\* in a release run it is what a runner of this run installed and tested, unless
\* its handoff is that of another run of the same commit, or both are of runs of
\* one other commit.  Accepted names are safe, exact and
\* each there once, so no member lands on the place of another
\* (release_archive.py 73-210, create-release-aggregate.ps1 428-506).
THEOREM ReleasesWereTested == Spec => []ReleasedWasTested
BY PipelineInvariant, ArchivesInvariant, AcceptedWasTested, PTL
=============================================================================
