-------------------------- MODULE BenchmarkProofs --------------------------
(***************************************************************************)
(* Theorems about BenchmarkRun, for any cases, warmups, samples, answers,  *)
(* failures and edits: a complete report is about the bytes it names, its  *)
(* cases can be compared, and a run ends as its report says.               *)
(*                                                                         *)
(* A file used with other bytes than hashed stays different from its hash, *)
(* as no edit brings bytes back.  So it is enough that every such file is  *)
(* looked at again later: an executable at the end, a contract or lock at  *)
(* the end of its case, an artifact at the end of some case to come.       *)
(***************************************************************************)
EXTENDS BenchmarkProperties, FiniteSetTheorems, TLAPS

CaseSetUp == {"setup", "hash"}
Runs == {"start", "running", "answered", "cleanup", "unlink", "record"}
CaseEnd == {"compare", "rehash"}
Epilogue == {"write", "ended"}

Shapes ==
    /\ pc \in Versions \cup {"validate"} \cup CaseSetUp \cup Runs \cup CaseEnd
                \cup {"rehash-cli"} \cup Epilogue
    /\ args \in [work : Works, baseline : BOOLEAN, warmups : WarmupCounts,
                 samples : SampleCounts]
    /\ at \in [index : Nat \ {0}, iteration : Nat, turn : Nat]
    /\ disk \in [Files -> Nat] /\ hash \in [Files -> Nat]
    /\ stale \in SUBSET Files
    /\ report = [status |-> report.status, cases |-> report.cases]

\* Where the script is in its list of cases and in the order of the sides.
Position ==
    /\ pc \notin Epilogue \cup {"rehash-cli"} => at.index <= Len(args.work)
    /\ pc = "rehash-cli" => at.index = Len(args.work) + 1
    /\ pc \in Versions \cup {"validate"} \cup CaseSetUp => at.turn = 0
    /\ pc \in Runs => at.turn < Len(Order)

\* Bytes do not come back.  The validator is hashed when it has been used.
Older ==
    /\ \A f \in Files : hash[f] <= disk[f]
    /\ \A f \in stale \ {"validator"} : hash[f] < disk[f]

\* The case that is the first whose artifact is still to be looked at.
From == IF pc = "validate" THEN 1 ELSE at.index

\* What is stale will be looked at.
LookedAtLater ==
    /\ pc = "versions" => stale = {}
    /\ pc \in Versions => stale \cap (Artifacts \cup {"extra"}) = {}
    /\ stale \cap Sides \subseteq Ordered
    /\ "extra" \in stale => pc \in Epilogue \/ (pc \in Runs \cup CaseEnd /\ HasExtra)
    /\ pc \notin Epilogue =>
          \A f \in stale \cap Artifacts :
              \E n \in From..Len(args.work) : args.work[n].artifact = f

Honest ==
    /\ report.status = "complete" => pc \in Epilogue /\ stale \subseteq {"validator"}
    /\ results # None /\ results.status = "complete" => pc \in Epilogue /\ stale \subseteq {"validator"}

BenchmarkInv == Shapes /\ Position /\ Older /\ LookedAtLater /\ Honest

\* Facts about the constants and the case at hand.
LEMMA WorkIsFinite ==
    ASSUME Shapes
    PROVE  /\ Len(args.work) \in Nat /\ Len(args.work) >= 1
           /\ \A n \in 1..Len(args.work) : args.work[n].artifact \in Artifacts
  <1>. DEFINE Cases == [operation : {"inspect", "resource-verify", "generate"},
                        artifact : Artifacts]
  <1>1. args.work \in Seq(Cases) /\ args.work # <<>>
    BY BenchmarkAssumption DEF Shapes
  <1>2. \A c \in Cases : c.artifact \in Artifacts
    OBVIOUS
  <1>. HIDE DEF Cases
  <1>. QED  BY <1>1, <1>2

LEMMA CaseIsOne ==
    ASSUME Shapes, at.index <= Len(args.work)
    PROVE  /\ at.index \in 1..Len(args.work)
           /\ Case.artifact \in Artifacts
           /\ Case.artifact \in Files
  BY WorkIsFinite, SMT DEF Shapes, Case, Files

LEMMA SideIsOrdered ==
    ASSUME Shapes, at.turn < Len(Order)
    PROVE  Side \in Ordered /\ Side \in Files
  <1>1. CASE args.baseline
    BY <1>1, SMT DEF Shapes, Order, Side, Ordered, Sides, Files
  <1>2. CASE ~args.baseline
    BY <1>2, SMT DEF Shapes, Order, Side, Ordered, Sides, Files
  <1>. QED  BY <1>1, <1>2

LEMMA Lengths ==
    ASSUME Shapes
    PROVE  Len(Order) \in {1, 2} /\ Ordered \subseteq Files /\ "candidate" \in Ordered
           /\ "extra" \notin Artifacts /\ "extra" \notin Sides /\ Artifacts \cap Sides = {}
           /\ "validator" \notin Artifacts \cup Sides \cup {"extra"}
  BY BenchmarkAssumption, SMT DEF Order, Ordered, Files, Sides

\* A step that uses no file and changes none.
LEMMA UsesNothing ==
    ASSUME BenchmarkInv, UNCHANGED <<disk, hash, stale>>
    PROVE  Older' /\ disk' \in [Files -> Nat] /\ hash' \in [Files -> Nat]
           /\ stale' \in SUBSET Files
  BY DEF BenchmarkInv, Older, Shapes

\* A step that uses some files and changes none.
LEMMA UsesSome ==
    ASSUME BenchmarkInv, NEW S \in SUBSET Files, Use(S), UNCHANGED <<disk, hash>>
    PROVE  /\ Older' /\ stale' \in SUBSET Files
           /\ stale' \subseteq stale \cup S
  <1>1. \A f \in S : disk[f] # hash[f] => hash[f] < disk[f]
    BY SMT DEF BenchmarkInv, Older, Shapes
  <1>. QED  BY <1>1 DEF BenchmarkInv, Older, Shapes, Use

-----------------------------------------------------------------------------
(* The initial state and each step.                                        *)

LEMMA BenchmarkInitInv == Init => BenchmarkInv
  <1> SUFFICES ASSUME Init PROVE BenchmarkInv
    OBVIOUS
  <1>1. Shapes
    BY SMT DEF Init, Shapes, Files, Sides, Versions
  <1>2. Position
    BY <1>1, WorkIsFinite, SMT DEF Init, Position, Runs, CaseEnd, Epilogue, Versions
  <1>3. Older /\ LookedAtLater /\ Honest
    BY SMT DEF Init, Older, LookedAtLater, Honest, Versions
  <1>. QED  BY <1>1, <1>2, <1>3 DEF BenchmarkInv

LEMMA StepKeepsInv ==
    ASSUME BenchmarkInv, [Next]_vars
    PROVE  BenchmarkInv'
  <1>. USE DEF Goto, World, Measures, Output
  <1>. USE DEF Versions, CaseSetUp, Runs, CaseEnd, Epilogue
  <1>1. CASE ReadVersions
    BY <1>1, Lengths, SMT DEF ReadVersions, BenchmarkInv, Shapes, Position, Older,
       LookedAtLater, Honest, Order, Ordered, HasExtra, Case, From
  <1>2. CASE RunVersions \/ HashValidator
    <2>. DEFINE S == IF RunVersions THEN {"candidate"} ELSE {"validator"}
    <2>1. S \in SUBSET Files /\ S \subseteq Ordered \cup {"validator"} /\ "validator" \in Files
      BY Lengths DEF Files, BenchmarkInv
    <2>2. /\ pc \in Versions /\ pc' \in Versions \ {"versions"} /\ Use(S)
          /\ hash' = [hash EXCEPT !["validator"] = disk["validator"]]
          /\ UNCHANGED <<args, at, disk, report, results>>
      BY <1>2, SMT DEF RunVersions, HashValidator
    <2>. HIDE DEF S
    <2>3. stale' \in SUBSET Files /\ stale' \subseteq stale \cup Ordered \cup {"validator"}
      BY <2>1, <2>2 DEF Use, BenchmarkInv, Shapes
    <2>4. \A f \in stale' \ {"validator"} : hash[f] < disk[f]
      BY <2>1, <2>2, SMT DEF Use, BenchmarkInv, Shapes, Older
    <2>5. Older'
      BY <2>1, <2>2, <2>3, <2>4, SMT DEF BenchmarkInv, Shapes, Older
    <2>6. Shapes' /\ Position'
      BY <2>1, <2>2, <2>3, SMT DEF BenchmarkInv, Shapes, Position, Order
    <2>7. stale \cap (Artifacts \cup {"extra"}) = {}
      BY <2>2 DEF BenchmarkInv, LookedAtLater
    <2>8. stale' \cap (Artifacts \cup {"extra"}) = {} /\ stale' \cap Sides \subseteq Ordered
      BY <2>3, <2>7, Lengths, SMT DEF BenchmarkInv, LookedAtLater, Ordered, Sides
    <2>9. LookedAtLater' /\ Honest'
      BY <2>2, <2>8, SMT DEF BenchmarkInv, LookedAtLater, Honest, Ordered
    <2>. QED  BY <2>5, <2>6, <2>9 DEF BenchmarkInv
  <1>17. CASE RunBaselineVersion
    <2>. DEFINE S == IF args.baseline THEN {"baseline"} ELSE {}
    <2>1. S \in SUBSET Files /\ S \subseteq Ordered
      BY SMT DEF Files, Sides, Ordered
    <2>2. Older' /\ stale' \in SUBSET Files /\ stale' \subseteq stale \cup S
      BY <1>17, <2>1, UsesSome DEF RunBaselineVersion
    <2>. QED
      BY <1>17, <2>1, <2>2, Lengths, WorkIsFinite, SMT DEF RunBaselineVersion, BenchmarkInv,
         Shapes, Position, LookedAtLater, Honest, Order, Ordered, HasExtra, Case, From, Sides
  <1>18. CASE FailWithoutReport
    BY <1>18, UsesNothing, SMT DEF FailWithoutReport, BenchmarkInv, Shapes, Position,
       LookedAtLater, Honest, Order, Ordered, HasExtra, Case, From
  <1>3. CASE Validate
    <2>1. Case.artifact \in Artifacts /\ at.index \in 1..Len(args.work)
      BY <1>3, CaseIsOne DEF Validate, BenchmarkInv, Position
    <2>2. CASE Raise("failed") /\ UNCHANGED <<at, stale>>
      BY <1>3, <2>2, UsesNothing, SMT DEF Validate, Raise, BenchmarkInv, Shapes, Position,
         LookedAtLater, Honest, Order, Ordered, HasExtra, Case, From
    <2>3. CASE /\ Use(IF Repeated THEN {} ELSE {"validator", Case.artifact})
               /\ UNCHANGED <<error, report>>
               /\ IF at.index < Len(args.work)
                  THEN at' = [at EXCEPT !.index = @ + 1] /\ UNCHANGED pc
                  ELSE at' = [at EXCEPT !.index = 1] /\ Goto("setup")
      <3>1. /\ Older' /\ stale' \in SUBSET Files
            /\ stale' \subseteq stale \cup {"validator", Case.artifact}
        BY <1>3, <2>1, <2>3, CaseIsOne, UsesSome DEF Validate, BenchmarkInv, Files
      <3>2. /\ pc' \in {"validate", "setup"} /\ at' = [at EXCEPT !.index = at'.index]
            /\ at'.index \in 1..Len(args.work)
            /\ pc' = "setup" => at'.index = 1
        BY <1>3, <2>1, <2>3, WorkIsFinite, SMT DEF Validate, BenchmarkInv, Shapes
      <3>3. Shapes' /\ Position' /\ Honest'
        BY <1>3, <2>1, <2>3, <3>1, <3>2, Lengths, WorkIsFinite, SMT DEF Validate,
           BenchmarkInv, Shapes, Position, Honest, Order
      <3>4. /\ stale' \cap Sides \subseteq stale /\ "extra" \in stale' => "extra" \in stale
            /\ stale' \cap Artifacts \subseteq stale \cup {Case.artifact}
        BY <2>1, <3>1, Lengths DEF BenchmarkInv
      <3>5. From = 1 /\ From' = 1 /\ UNCHANGED args /\ pc = "validate"
        BY <1>3, <3>2 DEF Validate, From
      <3>6. \A f \in stale \cap Artifacts :
                \E n \in 1..Len(args.work) : args.work[n].artifact = f
        BY <3>5 DEF BenchmarkInv, LookedAtLater
      <3>7. \E n \in 1..Len(args.work) : args.work[n].artifact = Case.artifact
        BY <2>1 DEF Case
      <3>8. /\ stale \cap Sides \subseteq Ordered' /\ "extra" \notin stale
            /\ pc' \notin Versions
        BY <3>2, <3>5 DEF BenchmarkInv, LookedAtLater, Ordered
      <3>9. LookedAtLater'
        <4>1. \A f \in stale' \cap Artifacts :
                  \E n \in From'..Len(args'.work) : args'.work[n].artifact = f
          BY <3>4, <3>5, <3>6, <3>7
        <4>2. stale' \cap Sides \subseteq Ordered' /\ "extra" \notin stale'
          <5>1. stale' \cap Sides \subseteq stale \cap Sides
            BY <3>4
          <5>. QED  BY <3>4, <3>8, <5>1
        <4>. QED  BY <3>8, <4>1, <4>2 DEF LookedAtLater
      <3>. QED  BY <3>1, <3>3, <3>9 DEF BenchmarkInv
    <2>. QED  BY <1>3, <2>2, <2>3 DEF Validate
  <1>4. CASE SetUp
    <2>1. Case.artifact \in Artifacts /\ at.index \in 1..Len(args.work)
      BY <1>4, CaseIsOne DEF SetUp, BenchmarkInv, Position
    <2>. DEFINE S == {IF args.baseline THEN "baseline" ELSE "candidate", Case.artifact}
    <2>2. CASE HasExtra /\ disk' = [disk EXCEPT !["extra"] = @ + 1] /\ Use(S)
               /\ pc' = "hash" /\ UNCHANGED <<error, report>>
      <3>1. S \subseteq Files /\ S \cap Sides \subseteq Ordered /\ "extra" \in Files
            /\ S \cap Artifacts \subseteq {Case.artifact} /\ "extra" \notin S
        BY <2>1, Lengths, SMT DEF Files, Ordered, Sides, BenchmarkInv
      <3>2. stale' \in SUBSET Files /\ stale' \subseteq stale \cup S
        BY <2>2, <3>1 DEF Use, BenchmarkInv, Shapes
      <3>3. \A f \in stale' \ {"validator"} : hash[f] < disk[f]
        BY <2>2, <3>1, SMT DEF Use, BenchmarkInv, Shapes, Older
      <3>. HIDE DEF S
      <3>4. Older'
        BY <1>4, <2>2, <3>2, <3>3, SMT DEF SetUp, BenchmarkInv, Shapes, Older
      <3>5. Shapes'
        BY <1>4, <2>2, <3>1, <3>2, SMT DEF SetUp, BenchmarkInv, Shapes
      <3>6. Position'
        BY <1>4, <2>2, SMT DEF SetUp, BenchmarkInv, Shapes, Position
      <3>7. LookedAtLater' /\ Honest'
        BY <1>4, <2>1, <2>2, <3>1, <3>2, WorkIsFinite, Lengths, SMT DEF SetUp, BenchmarkInv,
           Shapes, LookedAtLater, Honest, Ordered, HasExtra, Case, From
      <3>. QED  BY <3>4, <3>5, <3>6, <3>7 DEF BenchmarkInv
    <2>3. CASE UNCHANGED <<disk, stale>>
      BY <1>4, <2>1, <2>3, UsesNothing, Lengths, SMT DEF SetUp, Raise,
         BenchmarkInv, Shapes, Position, LookedAtLater, Honest, Order, Ordered,
         HasExtra, Case, From
    <2>. QED  BY <1>4, <2>2, <2>3 DEF SetUp
  <1>5. CASE HashExtra
    <2>1. "extra" \notin stale /\ "extra" \in Files
      BY <1>5, SMT DEF HashExtra, BenchmarkInv, LookedAtLater, Files
    <2>2. Older'
      BY <1>5, <2>1, SMT DEF HashExtra, BenchmarkInv, Shapes, Older
    <2>3. Shapes'
      BY <1>5, <2>1, SMT DEF HashExtra, BenchmarkInv, Shapes
    <2>4. Position'
      BY <1>5, Lengths, SMT DEF HashExtra, BenchmarkInv, Shapes, Position, Order
    <2>5. LookedAtLater' /\ Honest'
      BY <1>5, <2>1, SMT DEF HashExtra, BenchmarkInv, Shapes, LookedAtLater, Honest,
         Ordered, HasExtra, Case, From
    <2>. QED  BY <2>2, <2>3, <2>4, <2>5 DEF BenchmarkInv
  <1>6. CASE Start
    <2>1. CASE Use({Side}) /\ pc' = "running" /\ UNCHANGED <<error, report>>
      <3>1. Side \in Ordered /\ Side \in Files
        BY <1>6, SideIsOrdered DEF Start, BenchmarkInv, Position
      <3>2. Older' /\ stale' \in SUBSET Files /\ stale' \subseteq stale \cup {Side}
        BY <1>6, <2>1, <3>1, UsesSome DEF Start
      <3>. QED
        BY <1>6, <2>1, <3>1, <3>2, Lengths, SMT DEF Start, BenchmarkInv, Shapes,
           Position, LookedAtLater, Honest, Order, Ordered, HasExtra, Case, From, Sides
    <2>2. CASE UNCHANGED stale
      BY <1>6, <2>2, UsesNothing, SMT DEF Start, Raise, BenchmarkInv, Shapes,
         Position, LookedAtLater, Honest, Order, Ordered, HasExtra, Case, From
    <2>. QED  BY <1>6, <2>1, <2>2 DEF Start
  <1>7. CASE End
    <2>. DEFINE S == {Case.artifact} \cup (IF HasExtra THEN {"extra"} ELSE {})
    <2>1. Case.artifact \in Artifacts /\ at.index \in 1..Len(args.work)
      BY <1>7, CaseIsOne DEF End, BenchmarkInv, Position
    <2>2. S \subseteq Files
      BY <2>1 DEF Files
    <2>3. Older' /\ stale' \in SUBSET Files /\ stale' \subseteq stale \cup S
      BY <1>7, <2>2, UsesSome DEF End
    <2>4. Shapes' /\ Position' /\ Honest'
      BY <1>7, <2>3, SMT DEF End, BenchmarkInv, Shapes, Position, Honest, Order
    <2>5. /\ "extra" \in stale' => HasExtra
          /\ stale' \cap Sides \subseteq stale
          /\ stale' \cap Artifacts \subseteq stale \cup {Case.artifact}
      BY <1>7, <2>1, <2>3, Lengths DEF End, BenchmarkInv, LookedAtLater, Versions, CaseSetUp,
         Runs, CaseEnd, Epilogue
    <2>6. LookedAtLater'
      BY <1>7, <2>1, <2>3, <2>5, WorkIsFinite, SMT DEF End, BenchmarkInv, Shapes,
         LookedAtLater, Ordered, HasExtra, Case, From
    <2>. QED  BY <2>3, <2>4, <2>6 DEF BenchmarkInv
  <1>8. CASE RejectExtra \/ Break \/ RejectAnswer \/ CheckAnswer \/ Cleanup \/ Unlink
    <2>. USE UsesNothing DEF RaiseInTry, Raise
    <2>1. CASE RejectExtra
      BY <2>1, SMT DEF RejectExtra, BenchmarkInv, Shapes,
         Position, LookedAtLater, Honest, Order, Ordered, HasExtra, Case, From
    <2>2. CASE Break
      BY <2>2, SMT DEF Break, BenchmarkInv, Shapes,
         Position, LookedAtLater, Honest, Order, Ordered, HasExtra, Case, From
    <2>3. CASE RejectAnswer \/ CheckAnswer
      BY <2>3, SMT DEF RejectAnswer, CheckAnswer, BenchmarkInv, Shapes,
         Position, LookedAtLater, Honest, Order, Ordered, HasExtra, Case, From
    <2>4. CASE Cleanup
      BY <2>4, SMT DEF Cleanup, AfterCleanup, BenchmarkInv, Shapes,
         Position, LookedAtLater, Honest, Order, Ordered, HasExtra, Case, From
    <2>5. CASE Unlink
      <3>1. /\ pc \in Runs /\ pc' \in Runs \cup Epilogue
            /\ \/ UNCHANGED report
               \/ report' = [report EXCEPT !.status = "failed"]
            /\ UNCHANGED <<args, at, disk, hash, results, stale>>
        BY <2>5, SMT DEF Unlink, AfterCleanup
      <3>. QED
        BY <3>1, SMT DEF BenchmarkInv, Shapes, Position, LookedAtLater, Honest, Order,
           Ordered, HasExtra, Case, From
    <2>. QED  BY <1>8, <2>1, <2>2, <2>3, <2>4, <2>5
  <1>9. CASE Record
    <2>1. Older' /\ stale' = stale /\ disk' \in [Files -> Nat] /\ hash' \in [Files -> Nat]
      BY <1>9, UsesNothing DEF Record
    <2>2. CASE Raise("failed") /\ UNCHANGED at
      BY <1>9, <2>1, <2>2, SMT DEF Record, Raise, BenchmarkInv, Shapes, Position,
         LookedAtLater, Honest, Order, Ordered, HasExtra, Case, From
    <2>3. CASE /\ at' = [at EXCEPT !.turn = @ + 1]
               /\ pc' = (IF at.turn + 1 < Len(Order) THEN "start" ELSE "compare")
               /\ UNCHANGED <<error, report>>
      <3>5. at' \in [index : Nat \ {0}, iteration : Nat, turn : Nat]
        <4>1. at \in [index : Nat \ {0}, iteration : Nat, turn : Nat]
          BY DEF BenchmarkInv, Shapes
        <4>. QED  BY <2>3, <4>1, SMT
      <3>1. Shapes' /\ Honest'
        BY <1>9, <2>1, <2>3, <3>5, SMT DEF Record, BenchmarkInv, Shapes, Honest
      <3>3. Len(Order') >= 1 /\ Len(Order') = Len(Order)
        BY <1>9, <2>3, SMT DEF Record, Order, BenchmarkInv, Shapes
      <3>4. Position'
        BY <1>9, <2>3, <3>3, Lengths, SMT DEF Record, BenchmarkInv, Shapes, Position
      <3>2. LookedAtLater'
        BY <1>9, <2>1, <2>3, SMT DEF Record, BenchmarkInv, Shapes, LookedAtLater, Ordered,
           HasExtra, Case, From
      <3>. QED  BY <2>1, <3>1, <3>2, <3>4 DEF BenchmarkInv
    <2>. QED  BY <1>9, <2>2, <2>3 DEF Record
  <1>10. CASE Compare
    <2>1. Older' /\ stale' = stale /\ disk' \in [Files -> Nat] /\ hash' \in [Files -> Nat]
      BY <1>10, UsesNothing DEF Compare
    <2>2. CASE \/ Raise("failed") /\ UNCHANGED at
               \/ pc' = "rehash" /\ UNCHANGED <<at, error, report>>
      BY <1>10, <2>1, <2>2, SMT DEF Compare, Raise, BenchmarkInv, Shapes, Position,
         LookedAtLater, Honest, Order, Ordered, HasExtra, Case, From
    <2>3. CASE /\ at' = [index |-> at.index, iteration |-> at.iteration + 1, turn |-> 0]
               /\ pc' = "start" /\ UNCHANGED <<error, report>>
      <3>5. at' \in [index : Nat \ {0}, iteration : Nat, turn : Nat]
        BY <2>3 DEF BenchmarkInv, Shapes
      <3>1. Shapes' /\ Honest'
        BY <1>10, <2>1, <2>3, <3>5, SMT DEF Compare, BenchmarkInv, Shapes, Honest
      <3>3. Len(Order') >= 1
        BY <1>10, <2>3, SMT DEF Compare, Order, BenchmarkInv, Shapes
      <3>4. Position'
        BY <1>10, <2>3, <3>3, Lengths, SMT DEF Compare, BenchmarkInv, Shapes, Position
      <3>2. LookedAtLater'
        BY <1>10, <2>1, <2>3, SMT DEF Compare, BenchmarkInv, Shapes, LookedAtLater, Ordered,
           HasExtra, Case, From
      <3>. QED  BY <2>1, <3>1, <3>2, <3>4 DEF BenchmarkInv
    <2>. QED  BY <1>10, <2>2, <2>3 DEF Compare
  <1>11. CASE Rehash
    <2>1. Case.artifact \in Artifacts /\ at.index \in 1..Len(args.work)
      BY <1>11, CaseIsOne DEF Rehash, BenchmarkInv, Position
    <2>2. CASE InputsAsHashed
      <3>1. Case.artifact \notin stale /\ "extra" \notin stale
        <4>1. \A f \in stale \ {"validator"} : disk[f] # hash[f]
          BY SMT DEF BenchmarkInv, Shapes, Older
        <4>2. Case.artifact \notin {"validator", "extra"} /\ "extra" # "validator"
          BY <2>1, Lengths DEF BenchmarkInv
        <4>3. disk[Case.artifact] = hash[Case.artifact]
              /\ (HasExtra => disk["extra"] = hash["extra"])
          BY <2>2 DEF InputsAsHashed
        <4>4. "extra" \in stale => HasExtra
          BY <1>11 DEF Rehash, BenchmarkInv, LookedAtLater
        <4>. QED  BY <4>1, <4>2, <4>3, <4>4
      <3>2. /\ pc' \in {"setup", "rehash-cli"} /\ at'.index = at.index + 1
            /\ at' = [index |-> at.index + 1, iteration |-> 0, turn |-> 0]
            /\ pc' = "setup" <=> at.index < Len(args.work)
            /\ report' = [status |-> report.status, cases |-> Append(report.cases,
                  [answers |-> answers, samples |-> samples, pairs |-> pairs])]
            /\ UNCHANGED <<args, disk, hash, stale, results>>
        BY <1>11, <2>2, SMT DEF Rehash
      <3>6. Older' /\ disk' \in [Files -> Nat] /\ hash' \in [Files -> Nat]
        BY <3>2, UsesNothing
      <3>7. report'.status = report.status
            /\ report' = [status |-> report'.status, cases |-> report'.cases]
        BY <3>2, SMT DEF BenchmarkInv, Shapes
      <3>3. Shapes' /\ Honest' /\ Older'
        BY <1>11, <3>2, <3>6, <3>7, SMT DEF Rehash, BenchmarkInv, Shapes, Honest
      <3>5. Position'
        BY <2>1, <3>2, WorkIsFinite, SMT DEF BenchmarkInv, Shapes, Position, Order
      <3>4. LookedAtLater'
        BY <1>11, <2>1, <3>1, <3>2, WorkIsFinite, SMT DEF Rehash, BenchmarkInv, Shapes,
           LookedAtLater, From, Case, Ordered
      <3>. QED  BY <3>3, <3>4, <3>5 DEF BenchmarkInv
    <2>3. CASE ~InputsAsHashed
      BY <1>11, <2>3, UsesNothing, SMT DEF Rehash, Raise, BenchmarkInv, Shapes, Position,
         LookedAtLater, Honest, Order, Ordered, HasExtra, Case, From
    <2>. QED  BY <2>2, <2>3
  <1>12. CASE RehashExecutables
    <2>1. CASE \A s \in Ordered : disk[s] = hash[s]
      <3>1. stale \cap Sides = {}
        BY <2>1, Lengths, SMT DEF BenchmarkInv, Shapes, Older, LookedAtLater
      <3>2. stale \cap Artifacts = {}
        BY <1>12, WorkIsFinite, SMT DEF RehashExecutables, BenchmarkInv, Shapes, Position,
           LookedAtLater, From
      <3>3. "extra" \notin stale
        BY <1>12, SMT DEF RehashExecutables, BenchmarkInv, LookedAtLater
      <3>4. stale \subseteq {"validator"}
        BY <3>1, <3>2, <3>3 DEF BenchmarkInv, Shapes, Files
      <3>. QED
        BY <1>12, <2>1, <3>4, UsesNothing, SMT DEF RehashExecutables, Raise, BenchmarkInv,
           Shapes, Position, LookedAtLater, Honest, Order, Ordered, HasExtra, Case, From
    <2>2. CASE ~\A s \in Ordered : disk[s] = hash[s]
      BY <1>12, <2>2, UsesNothing, SMT DEF RehashExecutables, Raise, BenchmarkInv, Shapes,
         Position, LookedAtLater, Honest, Order, Ordered, HasExtra, Case, From
    <2>. QED  BY <2>1, <2>2
  <1>13. CASE WriteReport
    BY <1>13, UsesNothing, SMT DEF WriteReport, BenchmarkInv, Shapes, Position,
       LookedAtLater, Honest, Order, Ordered, HasExtra, Case, From
  <1>14. CASE \E f \in Files : Edit(f)
    <2>1. PICK f \in Files : Edit(f)
      BY <1>14
    <2>2. Shapes' /\ Older'
      BY <2>1, SMT DEF Edit, BenchmarkInv, Shapes, Older
    <2>3. Position' /\ LookedAtLater' /\ Honest'
      BY <2>1, SMT DEF Edit, BenchmarkInv, Shapes, Position, LookedAtLater, Honest, Order,
         Ordered, HasExtra, Case, From
    <2>. QED  BY <2>2, <2>3 DEF BenchmarkInv
  <1>15. CASE Intrude \/ UNCHANGED vars
    <2>1. UNCHANGED <<pc, args, at, disk, hash, report, results, stale>>
      BY <1>15 DEF Intrude, vars
    <2>. QED
      BY <2>1 DEF BenchmarkInv, Shapes, Position, Older, LookedAtLater, Honest, Order,
         Ordered, HasExtra, Case, From
  <1>16. CASE Interrupt
    BY <1>16, UsesNothing, SMT DEF Interrupt, InTry, RaiseInTry, Raise, BenchmarkInv, Shapes,
       Position, LookedAtLater, Honest, Order, Ordered, HasExtra, Case, From
  <1>. QED
    BY <1>1, <1>2, <1>3, <1>4, <1>5, <1>6, <1>7, <1>8, <1>9, <1>10, <1>11, <1>12, <1>13,
       <1>14, <1>15, <1>16, <1>17, <1>18 DEF Next, Step

-----------------------------------------------------------------------------
\* What is stale is looked at later, whatever fails and whoever edits.
THEOREM MeasurementInvariant == Spec => []BenchmarkInv
  <1>1. Init => BenchmarkInv
    BY BenchmarkInitInv
  <1>2. BenchmarkInv /\ [Next]_vars => BenchmarkInv'
    BY StepKeepsInv
  <1>. QED  BY <1>1, <1>2, PTL DEF Spec

\* A complete report is about the bytes it names: no version check, validation,
\* contract, lock or measurement in it used an executable, artifact, contract
\* or lock with other bytes than those hashed (benchmark_corpus.py 437-466),
\* unless it is the independent validator, which is hashed once and not again
\* after it has accepted the artifacts (315, 352).
THEOREM CompleteReportIsTrue == Spec => []RecordedBytesMeasured
  <1>1. BenchmarkInv => RecordedBytesMeasured
    BY DEF BenchmarkInv, Honest, RecordedBytesMeasured
  <1>. QED  BY <1>1, MeasurementInvariant, PTL

-----------------------------------------------------------------------------
(* The inductive invariant behind ComparedFairly.                          *)

MeasureTypes ==
    /\ answer \in Answers \cup {None}
    /\ measured \in [Sides -> Answers \cup {None}]
    /\ samples \in [Sides -> Nat]
    /\ pairs \in Seq(Sides)
    /\ answers \in SUBSET Answers
    /\ report \in Reports

\* A side that has run in this iteration.
HasRun(s) == \E n \in 1..at.turn : n <= Len(Order) /\ Order[n] = s

\* Where the script is in the iterations of a case.
Iterations ==
    /\ pc \notin Runs \cup CaseEnd \cup Epilogue => at.iteration = 0
    /\ pc \in Runs \cup CaseEnd => at.iteration < args.warmups + args.samples
    /\ pc \in CaseEnd => at.turn = Len(Order)
    /\ pc = "rehash" => at.iteration + 1 = args.warmups + args.samples

\* What is recorded has been said, everything said is what its side said first,
\* and a side that has run has said something.
Said ==
    /\ pc \in {"answered", "record"} \/ (pc \in {"cleanup", "unlink"} /\ error = None) =>
          answer \in Answers
    /\ answers = {measured[s] : s \in Sides} \ {None}
    /\ ~args.baseline => measured["baseline"] = None
    /\ pc \notin Runs \cup CaseEnd \cup Epilogue => answers = {}
    /\ pc \in Runs \cup CaseEnd =>
          \A s \in Ordered : at.iteration > 0 \/ HasRun(s) => measured[s] # None
    /\ pc = "rehash" => SidesAgree

\* The measured iterations before this one.
Earlier == IF at.iteration > args.warmups THEN at.iteration - args.warmups ELSE 0

Counted ==
    /\ pc \notin Runs \cup CaseEnd \cup Epilogue => samples = [s \in Sides |-> 0]
    /\ pc \in Runs \cup CaseEnd =>
          \A s \in Ordered :
              samples[s] = Earlier + (IF Sampled /\ HasRun(s) THEN 1 ELSE 0)

TimesFirst(s, list) == Cardinality({m \in DOMAIN list : list[m] = s})

\* The side that runs first, and the other one.
FirstIn(n) == IF n % 2 = 0 THEN "baseline" ELSE "candidate"
SecondIn(n) == FirstIn(n + 1)

\* The sides take turns at running first.
Alternate(list) ==
    TimesFirst(FirstIn(args.warmups), list) =
        TimesFirst(SecondIn(args.warmups), list) + (Len(list) % 2)

Paired ==
    /\ pc \notin Runs \cup CaseEnd \cup Epilogue => pairs = <<>>
    /\ args.baseline /\ pc \in Runs \cup CaseEnd =>
          /\ Len(pairs) = IF pc = "rehash" THEN args.samples ELSE Earlier
          /\ Alternate(pairs)

FairInv == MeasureTypes /\ Iterations /\ Said /\ Counted /\ Paired /\ ComparedFairly

-----------------------------------------------------------------------------
(* The inductive invariant behind EndsAsReported.                          *)

ReportInv ==
    /\ pc # "ended" => exit = None /\ results = None
    /\ pc \notin Epilogue => report.status = "running"
    /\ pc \in Versions \cup {"validate"} => report.cases = <<>>
    /\ pc \in CaseSetUp \cup Runs \cup CaseEnd \cup {"rehash-cli"} =>
          Len(report.cases) = at.index - 1
    /\ pc = "write" =>
          /\ error = None <=> report.status = "complete"
          /\ error = None => Len(report.cases) = Len(args.work)
    /\ pc \notin {"cleanup", "unlink"} \cup Epilogue => error = None

\* A generated directory that nobody put a file into is about to be removed, or
\* it was not possible to remove it.
ChildInv ==
    child # {} /\ "foreign" \notin child =>
        \/ Generation /\ pc \in {"answered", "cleanup", "unlink"}
        \/ pc \in Epilogue /\ error \in {"cleanup", "interrupt"}

EndInv == ReportInv /\ ChildInv /\ LeftAsReported

-----------------------------------------------------------------------------
(* Who runs first.                                                         *)

\* The order of the sides in an iteration.
LEMMA OrderFacts ==
    ASSUME Shapes
    PROVE  /\ ~args.baseline => Order = <<"candidate">> /\ Ordered = {"candidate"}
           /\ args.baseline =>
                 /\ Ordered = {"baseline", "candidate"}
                 /\ Order = <<FirstIn(at.iteration), SecondIn(at.iteration)>>
           /\ args.warmups \in Nat /\ args.samples \in Nat \ {0}
<1>1. at.iteration \in Nat
  BY DEF Shapes
<1>2. (at.iteration % 2 = 0) <=> ~((at.iteration + 1) % 2 = 0)
  BY <1>1
<1>3. QED
  BY <1>2, BenchmarkAssumption DEF Order, Ordered, Sides, FirstIn, SecondIn, Shapes

\* One more element.
LEMMA TimesFirstAppend ==
    ASSUME NEW list \in Seq(Sides), NEW side \in Sides, NEW s \in Sides
    PROVE  /\ TimesFirst(s, list) \in Nat
           /\ TimesFirst(s, Append(list, side)) =
                 TimesFirst(s, list) + (IF side = s THEN 1 ELSE 0)
<1> DEFINE M == {m \in DOMAIN list : list[m] = s}
<1>1. Len(list) \in Nat /\ DOMAIN list = 1..Len(list)
  OBVIOUS
<1>2. IsFiniteSet(M)
  <2>1. IsFiniteSet(1..Len(list))
    BY <1>1, FS_Interval
  <2>2. QED
    BY <1>1, <2>1, FS_Subset
<1>3. Cardinality(M) \in Nat
  BY <1>2, FS_CardinalityType
<1>4. {m \in DOMAIN Append(list, side) : Append(list, side)[m] = s}
          = IF side = s THEN M \cup {Len(list) + 1} ELSE M
  BY <1>1
<1>5. Len(list) + 1 \notin M
  BY <1>1
<1>6. Cardinality(M \cup {Len(list) + 1}) = Cardinality(M) + 1
  BY <1>2, <1>5, FS_AddElement
<1>7. TimesFirst(s, list) = Cardinality(M)
  BY DEF TimesFirst
<1>8. TimesFirst(s, Append(list, side)) =
          Cardinality(IF side = s THEN M \cup {Len(list) + 1} ELSE M)
  BY <1>4, Zenon DEF TimesFirst
<1> HIDE DEF M
<1>9. QED
  BY <1>3, <1>6, <1>7, <1>8

\* Taking turns goes on when the side that is due runs first.
LEMMA AlternateAppend ==
    ASSUME Shapes, NEW list \in Seq(Sides), Alternate(list)
    PROVE  Alternate(Append(list, FirstIn(args.warmups + Len(list))))
<1> DEFINE w == args.warmups
           due == FirstIn(w + Len(list))
<1>1. w \in Nat /\ Len(list) \in Nat
  BY OrderFacts
<1>2. /\ FirstIn(w) \in Sides /\ SecondIn(w) \in Sides /\ due \in Sides
      /\ FirstIn(w) # SecondIn(w)
  BY <1>1 DEF FirstIn, SecondIn, Sides
<1>3. CASE Len(list) % 2 = 0
  <2>1. due = FirstIn(w) /\ (Len(list) + 1) % 2 = 1
    BY <1>1, <1>3 DEF FirstIn
  <2>2. QED
    BY <1>1, <1>2, <1>3, <2>1, TimesFirstAppend DEF Alternate
<1>4. CASE Len(list) % 2 = 1
  <2>1. due = SecondIn(w) /\ (Len(list) + 1) % 2 = 0
    BY <1>1, <1>4 DEF FirstIn, SecondIn
  <2>2. QED
    BY <1>1, <1>2, <1>4, <2>1, TimesFirstAppend DEF Alternate
<1>5. QED
  BY <1>1, <1>3, <1>4

LEMMA NothingFirst ==
    ASSUME Shapes
    PROVE  Alternate(<<>>)
<1>1. \A s : TimesFirst(s, <<>>) = 0
  <2>1. \A s : {m \in DOMAIN <<>> : <<>>[m] = s} = {}
    OBVIOUS
  <2>2. QED
    BY <2>1, FS_EmptySet DEF TimesFirst
<1>2. Len(<<>>) = 0 /\ 0 % 2 = 0
  OBVIOUS
<1>3. QED
  BY <1>1, <1>2 DEF Alternate

\* Taking turns is a balance.
LEMMA AlternateIsBalance ==
    ASSUME Shapes, NEW list \in Seq(Sides), Alternate(list)
    PROVE  /\ TimesFirst("baseline", list) <= TimesFirst("candidate", list) + 1
           /\ TimesFirst("candidate", list) <= TimesFirst("baseline", list) + 1
<1>1. args.warmups \in Nat /\ Len(list) % 2 \in {0, 1}
  BY OrderFacts
<1>2. \/ FirstIn(args.warmups) = "baseline" /\ SecondIn(args.warmups) = "candidate"
      \/ FirstIn(args.warmups) = "candidate" /\ SecondIn(args.warmups) = "baseline"
  BY <1>1 DEF FirstIn, SecondIn
<1>3. /\ TimesFirst("baseline", list) \in Nat
      /\ TimesFirst("candidate", list) \in Nat
  BY TimesFirstAppend DEF Sides
<1>4. QED
  BY <1>1, <1>2, <1>3 DEF Alternate

-----------------------------------------------------------------------------
(* The cases of a report can be compared.                                  *)

LEMMA FairInit == Init => FairInv
<1> SUFFICES ASSUME Init PROVE FairInv
  OBVIOUS
<1>1. MeasureTypes
  BY SMT DEF Init, MeasureTypes, Reports, Sides
<1>2. Iterations
  BY SMT DEF Init, Iterations, Runs, CaseEnd
<1>3. Said
  BY SMT DEF Init, Said, Runs, CaseEnd, Sides
<1>4. Counted
  BY SMT DEF Init, Counted, Runs, CaseEnd
<1>5. Paired
  BY SMT DEF Init, Paired, Runs, CaseEnd
<1>6. ComparedFairly
  BY SMT DEF Init, ComparedFairly
<1>7. QED
  BY <1>1, <1>2, <1>3, <1>4, <1>5, <1>6 DEF FairInv

\* What a step leaves alone that neither records, nor compares, nor reports.
Quiet ==
    /\ UNCHANGED <<args, measured, samples, pairs, answers>>
    /\ at'.iteration = at.iteration /\ at'.turn = at.turn
    /\ report'.cases = report.cases
    /\ report' \in Reports /\ answer' \in Answers \cup {None}

Measuring == Runs \cup CaseEnd \cup Epilogue

\* Where such a step may go.
QuietMove ==
    \/ pc' \in Epilogue
    \/ pc \notin Measuring /\ pc' \notin Measuring
    \/ pc \in CaseSetUp /\ pc' = "start"
    \/ /\ pc \in Runs /\ pc' \in Runs
       /\ pc' \in {"answered", "record"} \/ (pc' \in {"cleanup", "unlink"} /\ error' = None)
             => answer' \in Answers
    \/ pc' = pc /\ answer' = answer /\ error' = error

LEMMA CasesStayFair ==
    ASSUME ComparedFairly, UNCHANGED args, report'.cases = report.cases
    PROVE  ComparedFairly'
<1>1. Ordered' = Ordered
  BY DEF Ordered
<1>2. \A c : EveryRunAgrees(c) => EveryRunAgrees(c)'
  BY <1>1, Zenon DEF EveryRunAgrees
<1>3. \A c : PairsAreBalanced(c) => PairsAreBalanced(c)'
  BY Zenon DEF PairsAreBalanced
<1>4. QED
  BY <1>2, <1>3, Zenon DEF ComparedFairly

LEMMA QuietKeepsFair ==
    ASSUME BenchmarkInv, BenchmarkInv', FairInv, Quiet, QuietMove
    PROVE  FairInv'
<1>1. MeasureTypes'
  BY DEF FairInv, MeasureTypes, Quiet
<1>2. ComparedFairly'
  BY CasesStayFair DEF FairInv, Quiet
<1>3. /\ Order' = Order /\ Ordered' = Ordered /\ Sampled' = Sampled
      /\ Earlier' = Earlier /\ SidesAgree' = SidesAgree
  BY DEF Order, Ordered, Sampled, Earlier, SidesAgree, Quiet
<1>4. \A s : HasRun(s)' <=> HasRun(s)
  BY <1>3, Zenon DEF HasRun, Quiet
<1>5. \A list : Alternate(list)' <=> Alternate(list)
  BY Zenon DEF Alternate, TimesFirst, FirstIn, SecondIn, Quiet
<1>6. answers' = {measured'[s] : s \in Sides} \ {None}
  BY Zenon DEF FairInv, Said, Quiet
<1>7. ~args'.baseline => measured'["baseline"] = None
  BY Zenon DEF FairInv, Said, Quiet
<1>8. CASE pc' \in Epilogue
  BY <1>1, <1>2, <1>6, <1>7, <1>8, SMT
     DEF FairInv, Iterations, Said, Counted, Paired, Runs, CaseEnd, Epilogue
<1>9. CASE pc \notin Measuring /\ pc' \notin Measuring
  <2>1. Iterations' /\ Counted' /\ Paired'
    BY <1>9, SMT
       DEF FairInv, Iterations, Counted, Paired, Runs, CaseEnd, Epilogue, Quiet, Measuring
  <2>2. /\ pc' \notin {"answered", "record", "cleanup", "unlink", "rehash"}
        /\ pc' \notin Runs \cup CaseEnd /\ answers' = {}
    BY <1>9 DEF FairInv, Said, Measuring, Runs, CaseEnd, Quiet
  <2>3. Said'
    BY <1>6, <1>7, <2>2 DEF Said
  <2>4. QED
    BY <1>1, <1>2, <2>1, <2>3 DEF FairInv
<1>10. CASE pc \in CaseSetUp /\ pc' = "start"
  <2>1. /\ at'.iteration = 0 /\ at'.turn = 0 /\ Shapes' /\ pc' \in Runs
        /\ samples = [s \in Sides |-> 0] /\ pairs = <<>> /\ answers = {}
    BY <1>10 DEF BenchmarkInv, Position, FairInv, Iterations, Counted, Paired, Said, CaseSetUp,
                 Runs, CaseEnd, Epilogue, Quiet
  <2>2. /\ args'.warmups \in Nat /\ args'.samples \in Nat \ {0}
        /\ Ordered' \subseteq Sides
    BY <2>1, BenchmarkAssumption DEF Shapes, Ordered, Sides
  <2>3. \A s : ~HasRun(s)'
    BY <2>1 DEF HasRun
  <2>4. Earlier' = 0
    BY <2>1, <2>2 DEF Earlier
  <2>5. Iterations'
    BY <1>10, <2>1, <2>2 DEF Iterations, Runs, CaseEnd, Epilogue
  <2>6. Said'
    BY <1>6, <1>7, <1>10, <2>1, <2>3 DEF Said, Runs, CaseEnd, Epilogue
  <2>7. Counted'
    BY <1>10, <2>1, <2>2, <2>3, <2>4 DEF Counted, Runs, CaseEnd, Epilogue, Quiet
  <2>8. Alternate(<<>>)
    BY NothingFirst DEF BenchmarkInv
  <2>9. Paired'
    BY <1>5, <1>10, <2>1, <2>4, <2>8 DEF Paired, Runs, CaseEnd, Epilogue, Quiet
  <2>10. QED
    BY <1>1, <1>2, <2>5, <2>6, <2>7, <2>9 DEF FairInv
<1>11. CASE \/ /\ pc \in Runs /\ pc' \in Runs
               /\ pc' \in {"answered", "record"}
                  \/ (pc' \in {"cleanup", "unlink"} /\ error' = None) => answer' \in Answers
            \/ pc' = pc /\ answer' = answer /\ error' = error
  <2>1. Iterations'
    BY <1>3, <1>11, SMT DEF FairInv, Iterations, Runs, CaseEnd, Epilogue, Quiet
  <2>2. Said'
    <3>1. pc' \in {"answered", "record"} \/ (pc' \in {"cleanup", "unlink"} /\ error' = None)
             => answer' \in Answers
      BY <1>11 DEF FairInv, Said
    <3>2. /\ pc' \in Runs \cup CaseEnd <=> pc \in Runs \cup CaseEnd
          /\ pc' \in Epilogue <=> pc \in Epilogue
          /\ pc' = "rehash" <=> pc = "rehash"
      BY <1>11 DEF Runs, CaseEnd, Epilogue
    <3>3. pc' \notin Runs \cup CaseEnd \cup Epilogue => answers' = {}
      BY <3>2 DEF FairInv, Said, Quiet
    <3>4. pc' \in Runs \cup CaseEnd =>
              \A s \in Ordered' : at'.iteration > 0 \/ HasRun(s)' => measured'[s] # None
      BY <1>3, <1>4, <3>2, Zenon DEF FairInv, Said, Quiet
    <3>5. pc' = "rehash" => SidesAgree'
      BY <1>3, <3>2 DEF FairInv, Said
    <3>6. QED
      BY <1>6, <1>7, <3>1, <3>3, <3>4, <3>5, Zenon DEF Said
  <2>3. Counted'
    BY <1>3, <1>4, <1>11, SMT DEF FairInv, Counted, Runs, CaseEnd, Epilogue, Quiet
  <2>4. Paired'
    BY <1>3, <1>5, <1>11, SMT DEF FairInv, Paired, Runs, CaseEnd, Epilogue, Quiet
  <2>5. QED
    BY <1>1, <1>2, <2>1, <2>2, <2>3, <2>4 DEF FairInv
<1>12. QED
  BY <1>8, <1>9, <1>10, <1>11 DEF QuietMove

\* Steps that neither record, nor compare, nor report.
QuietSteps ==
    \/ ReadVersions \/ RunVersions \/ HashValidator \/ RunBaselineVersion
    \/ FailWithoutReport \/ Validate \/ SetUp \/ HashExtra \/ RejectExtra
    \/ Start \/ Break \/ RejectAnswer \/ CheckAnswer \/ Cleanup \/ Unlink
    \/ RehashExecutables \/ WriteReport \/ End \/ Interrupt \/ Intrude
    \/ (\E f \in Files : Edit(f)) \/ UNCHANGED vars

LEMMA RaiseIsQuiet ==
    ASSUME MeasureTypes, NEW what, Raise(what) \/ RaiseInTry(what)
    PROVE  /\ report'.cases = report.cases /\ report' \in Reports
           /\ \/ pc' = "write"
              \/ pc' = "cleanup" /\ error' = what
           /\ Raise(what) => pc' = "write"
BY DEF Raise, RaiseInTry, Goto, MeasureTypes, Reports

LEMMA StepsAreQuiet ==
    ASSUME BenchmarkInv, FairInv, QuietSteps
    PROVE  Quiet /\ QuietMove
<1> USE DEF Goto, World, Measures, Output
<1>1. report \in Reports /\ answer \in Answers \cup {None}
  BY DEF FairInv, MeasureTypes
<1>2. [report EXCEPT !.status = "complete"] \in Reports
      /\ [report EXCEPT !.status = "complete"].cases = report.cases
  BY <1>1 DEF Reports
<1>3. \A what : Raise(what) \/ RaiseInTry(what) =>
          /\ report'.cases = report.cases /\ report' \in Reports
          /\ \/ pc' = "write"
             \/ pc' = "cleanup" /\ error' = what
          /\ Raise(what) => pc' = "write"
  BY RaiseIsQuiet DEF FairInv
<1>4. None \notin {"failed", "exists", "cleanup", "interrupt"}
  BY NoneAssumption
<1>5. CASE ReadVersions
  BY <1>1, <1>5 DEF ReadVersions, Quiet, QuietMove, Measuring, Runs, CaseEnd, Epilogue
<1>6. CASE RunVersions \/ HashValidator \/ RunBaselineVersion \/ FailWithoutReport
  BY <1>1, <1>6 DEF RunVersions, HashValidator, RunBaselineVersion, FailWithoutReport, Versions,
     Quiet, QuietMove, Measuring, Runs, CaseEnd, Epilogue
<1>7. CASE Validate
  <2>1. at'.iteration = at.iteration /\ at'.turn = at.turn
    BY <1>7 DEF Validate, BenchmarkInv, Shapes
  <2>2. QED
    BY <1>1, <1>3, <1>7, <2>1
       DEF Validate, Quiet, QuietMove, Measuring, Runs, CaseEnd, Epilogue
<1>8. CASE SetUp
  BY <1>1, <1>3, <1>8
     DEF SetUp, Quiet, QuietMove, Measuring, Runs, CaseEnd, Epilogue, CaseSetUp
<1>9. CASE HashExtra \/ RejectExtra
  BY <1>1, <1>3, <1>9
     DEF HashExtra, RejectExtra, Quiet, QuietMove, Epilogue, CaseSetUp
<1>10. CASE Start
  BY <1>1, <1>3, <1>10 DEF Start, Quiet, QuietMove, Runs, Epilogue
<1>11. CASE Break
  BY <1>1, <1>3, <1>4, <1>11 DEF Break, Quiet, QuietMove, Runs, Epilogue
<1>12. CASE RejectAnswer
  BY <1>1, <1>3, <1>4, <1>12 DEF RejectAnswer, Quiet, QuietMove, Runs, Epilogue
<1>13. CASE CheckAnswer
  <2>1. answer \in Answers /\ answer' = answer
    BY <1>13 DEF CheckAnswer, FairInv, Said
  <2>2. QED
    BY <1>1, <1>3, <1>4, <1>13, <2>1 DEF CheckAnswer, Quiet, QuietMove, Runs, Epilogue
<1>14. CASE Cleanup \/ Unlink
  <2>1. error = None => answer \in Answers
    BY <1>14 DEF Cleanup, Unlink, FairInv, Said
  <2>2. AfterCleanup =>
            /\ report'.cases = report.cases /\ report' \in Reports
            /\ pc' = "write" \/ (pc' = "record" /\ error = None)
    BY <1>1, <1>3, <1>4 DEF AfterCleanup, Raise
  <2>3. CASE Cleanup
    BY <1>1, <1>3, <1>4, <2>1, <2>2, <2>3 DEF Cleanup, Quiet, QuietMove, Runs, Epilogue
  <2>4. CASE Unlink
    <3>1. /\ UNCHANGED <<args, at, Measures>> /\ pc = "unlink"
          /\ report'.cases = report.cases /\ report' \in Reports
          /\ \/ pc' = "write"
             \/ pc' = "record" /\ error = None
             \/ pc' = pc /\ error' = error
      BY <1>1, <1>3, <2>2, <2>4, Zenon DEF Unlink, Raise
    <3>2. QED
      BY <1>1, <2>1, <3>1 DEF Quiet, QuietMove, Runs, Epilogue
  <2>5. QED
    BY <1>14, <2>3, <2>4
<1>15. CASE RehashExecutables
  BY <1>1, <1>2, <1>3, <1>15 DEF RehashExecutables, Quiet, QuietMove, Epilogue
<1>16. CASE WriteReport
  BY <1>1, <1>16 DEF WriteReport, Quiet, QuietMove, Epilogue
<1>17. CASE End
  BY <1>1, <1>17 DEF End, Quiet, QuietMove, Runs
<1>18. CASE Interrupt
  <2>1. CASE InTry /\ RaiseInTry("interrupt")
    BY <1>1, <1>3, <1>4, <1>18, <2>1
       DEF Interrupt, InTry, Quiet, QuietMove, Runs, Epilogue
  <2>2. CASE Raise("interrupt")
    BY <1>1, <1>3, <1>18, <2>2 DEF Interrupt, Raise, Quiet, QuietMove, Epilogue
  <2>3. QED
    BY <1>18, <2>1, <2>2 DEF Interrupt
<1>19. CASE Intrude \/ (\E f \in Files : Edit(f)) \/ UNCHANGED vars
  BY <1>1, <1>19 DEF Intrude, Edit, vars, Quiet, QuietMove
<1>20. QED
  BY <1>5, <1>6, <1>7, <1>8, <1>9, <1>10, <1>11, <1>12, <1>13, <1>14, <1>15, <1>16,
     <1>17, <1>18, <1>19 DEF QuietSteps

\* The steps of a run that may raise are quiet when they do.
LEMMA RaiseKeepsFair ==
    ASSUME BenchmarkInv, BenchmarkInv', FairInv, Raise("failed"),
           UNCHANGED <<args, at, Measures>>
    PROVE  FairInv'
<1>1. Quiet
  BY RaiseIsQuiet DEF FairInv, MeasureTypes, Measures, Quiet
<1>2. QuietMove
  BY DEF Raise, Goto, QuietMove, Epilogue
<1>3. QED
  BY <1>1, <1>2, QuietKeepsFair

\* The sides that have run when the next one has.
LEMMA SidesThatRan ==
    ASSUME BenchmarkInv
    PROVE  /\ pc \in Runs => Side \in Ordered /\ Side \in Sides /\ ~HasRun(Side)
           /\ pc \in Runs => at.turn + 1 <= Len(Order)
           /\ at.turn = Len(Order) => \A s \in Ordered : HasRun(s)
           /\ Ordered \subseteq Sides /\ "candidate" \in Ordered
<1>1. at.turn \in Nat /\ (pc \in Runs => at.turn < Len(Order))
  BY DEF BenchmarkInv, Shapes, Position
<1>2. CASE ~args.baseline
  <2>1. Order = <<"candidate">> /\ Ordered = {"candidate"}
    BY <1>2, OrderFacts DEF BenchmarkInv
  <2>2. QED
    BY <1>1, <2>1 DEF HasRun, Side, Sides
<1>3. CASE args.baseline
  <2>1. /\ Ordered = {"baseline", "candidate"}
        /\ Order = <<"baseline", "candidate">> \/ Order = <<"candidate", "baseline">>
    BY <1>3, OrderFacts DEF BenchmarkInv, Order
  <2>2. /\ Len(Order) = 2
        /\ {Order[1], Order[2]} = {"baseline", "candidate"} /\ Order[1] # Order[2]
    BY <2>1
  <2>3. pc \in Runs => at.turn \in {0, 1}
    BY <1>1, <2>2
  <2>4. pc \in Runs => Side \in {"baseline", "candidate"} /\ ~HasRun(Side)
    <3>1. CASE at.turn = 0
      BY <2>2, <3>1 DEF HasRun, Side
    <3>2. CASE at.turn = 1
      <4>1. Side = Order[2]
        BY <3>2 DEF Side
      <4>2. QED
        BY <2>2, <3>2, <4>1 DEF HasRun
    <3>3. QED
      BY <2>3, <3>1, <3>2
  <2>5. at.turn = Len(Order) => \A s \in Ordered : HasRun(s)
    BY <2>1, <2>2 DEF HasRun
  <2>6. QED
    BY <1>1, <2>1, <2>2, <2>3, <2>4, <2>5 DEF Sides
<1>4. QED
  BY <1>2, <1>3

\* A side says what it said before.
LEMMA RecordKeepsFair ==
    ASSUME BenchmarkInv, BenchmarkInv', FairInv, Record
    PROVE  FairInv'
<1> USE DEF Goto, World, Measures
<1>1. CASE measured[Side] \notin {None, answer}
  BY <1>1, RaiseKeepsFair DEF Record
<1>2. CASE measured[Side] \in {None, answer}
  <2>1. /\ Side \in Ordered /\ Side \in Sides /\ ~HasRun(Side)
        /\ at.turn + 1 <= Len(Order) /\ Ordered \subseteq Sides
        /\ at.turn \in Nat /\ at.iteration \in Nat /\ args.warmups \in Nat
    BY SidesThatRan, OrderFacts DEF Record, Runs, BenchmarkInv, Shapes
  <2>2. /\ pc = "record" /\ answer \in Answers /\ answer # None
        /\ measured \in [Sides -> Answers \cup {None}]
        /\ samples \in [Sides -> Nat]
    BY BenchmarkAssumption DEF Record, FairInv, MeasureTypes, Said
  <2>3. /\ measured' = [measured EXCEPT ![Side] = answer]
        /\ samples' = IF Sampled THEN [samples EXCEPT ![Side] = @ + 1] ELSE samples
        /\ answers' = answers \cup {answer}
        /\ pc' = (IF at.turn + 1 < Len(Order) THEN "start" ELSE "compare")
        /\ UNCHANGED <<args, answer, pairs, report>>
    BY <1>2, Zenon DEF Record
  <2>4. at'.index = at.index /\ at'.iteration = at.iteration /\ at'.turn = at.turn + 1
    BY <1>2 DEF Record, BenchmarkInv, Shapes
  <2>5. /\ Order' = Order /\ Ordered' = Ordered /\ Sampled' = Sampled /\ Earlier' = Earlier
    BY <2>3, <2>4 DEF Order, Ordered, Sampled, Earlier
  <2>6. \A s : HasRun(s)' <=> HasRun(s) \/ s = Side
    BY <2>1, <2>4, <2>5 DEF HasRun, Side
  <2>7. \A s \in Sides : measured'[s] = IF s = Side THEN answer ELSE measured[s]
    BY <2>1, <2>2, <2>3
  <2>8. MeasureTypes'
    BY <2>1, <2>2, <2>3 DEF FairInv, MeasureTypes
  <2>9. Iterations'
    <3>1. ~(at.turn + 1 < Len(Order)) => at.turn + 1 = Len(Order)
      BY <2>1, Lengths DEF BenchmarkInv
    <3>2. QED
      BY <2>2, <2>3, <2>4, <2>5, <3>1
         DEF FairInv, Iterations, Runs, CaseEnd, Epilogue
  <2>10. Said'
    <3>1. pc' \in {"start", "compare"}
      BY <2>3
    <3>2. answers' = {measured'[s] : s \in Sides} \ {None}
      <4>1. answers = {measured[s] : s \in Sides} \ {None}
        BY DEF FairInv, Said
      <4>2. measured[Side] = None \/ measured[Side] = answer
        BY <1>2
      <4>3. \A s \in Sides : measured'[s] = measured[s] \/ measured'[s] = answer
        BY <2>7
      <4>4. measured'[Side] = answer
        BY <2>1, <2>7
      <4>5. \A x : x \in answers' => x \in {measured'[s] : s \in Sides} \ {None}
        <5>1. SUFFICES ASSUME NEW x \in answers'
                       PROVE  x \in {measured'[s] : s \in Sides} \ {None}
          OBVIOUS
        <5>2. CASE x = answer
          BY <2>1, <2>2, <4>4, <5>2
        <5>3. CASE x # answer
          <6>1. PICK s \in Sides : x = measured[s] /\ x # None
            BY <2>3, <4>1, <5>1, <5>3
          <6>2. s # Side
            BY <4>2, <5>3, <6>1
          <6>3. QED
            BY <2>7, <6>1, <6>2
        <5>4. QED
          BY <5>2, <5>3
      <4>6. \A x : x \in {measured'[s] : s \in Sides} \ {None} => x \in answers'
        BY <2>3, <4>1, <4>3
      <4>7. QED
        BY <4>5, <4>6
    <3>3. ~args'.baseline => measured'["baseline"] = None
      <4>1. ~args.baseline => Side # "baseline"
        BY <2>1, OrderFacts DEF BenchmarkInv
      <4>2. "baseline" \in Sides
        BY DEF Sides
      <4>3. ~args.baseline => measured["baseline"] = None
        BY DEF FairInv, Said
      <4>4. QED
        BY <2>3, <2>7, <4>1, <4>2, <4>3
    <3>4. \A s \in Ordered' :
              at'.iteration > 0 \/ HasRun(s)' => measured'[s] # None
      BY <2>1, <2>2, <2>4, <2>5, <2>6, <2>7 DEF FairInv, Said, Runs
    <3>5. QED
      BY <3>1, <3>2, <3>3, <3>4, Zenon DEF Said, Runs, CaseEnd
  <2>11. Counted'
    <3>1. \A s \in Ordered : samples[s] = Earlier + (IF Sampled /\ HasRun(s) THEN 1 ELSE 0)
      BY <2>2 DEF FairInv, Counted, Runs
    <3>2. Earlier \in Nat
      BY <2>1 DEF Earlier
    <3>3. \A s \in Ordered :
              samples'[s] = IF Sampled /\ s = Side THEN samples[s] + 1 ELSE samples[s]
      BY <2>1, <2>2, <2>3
    <3>4. \A s \in Ordered :
              samples'[s] = Earlier + (IF Sampled /\ (HasRun(s) \/ s = Side) THEN 1 ELSE 0)
      BY <2>1, <3>1, <3>2, <3>3
    <3>5. \A s \in Ordered' :
              samples'[s] = Earlier' + (IF Sampled' /\ HasRun(s)' THEN 1 ELSE 0)
      BY <2>5, <2>6, <3>4
    <3>6. pc' \in {"start", "compare"}
      BY <2>3
    <3>7. QED
      BY <3>5, <3>6 DEF Counted, Runs, CaseEnd, Epilogue
  <2>12. Paired'
    <3>1. pc' \in {"start", "compare"}
      BY <2>3
    <3>2. Alternate(pairs) => Alternate(pairs)'
      BY <2>3, Zenon DEF Alternate, TimesFirst, FirstIn, SecondIn
    <3>3. args.baseline => Len(pairs) = Earlier /\ Alternate(pairs)
      BY <2>2 DEF FairInv, Paired, Runs
    <3>4. QED
      BY <2>3, <2>5, <3>1, <3>2, <3>3 DEF Paired, Runs, CaseEnd, Epilogue
  <2>13. ComparedFairly'
    BY <2>3, CasesStayFair DEF FairInv
  <2>14. QED
    BY <2>8, <2>9, <2>10, <2>11, <2>12, <2>13 DEF FairInv
<1>3. QED
  BY <1>1, <1>2

\* Both sides say the same, and the iteration is a pair.
LEMMA CompareKeepsFair ==
    ASSUME BenchmarkInv, BenchmarkInv', FairInv, Compare
    PROVE  FairInv'
<1> USE DEF Goto, World, Measures
<1>1. CASE ~SidesAgree
  BY <1>1, RaiseKeepsFair DEF Compare
<1>2. CASE SidesAgree
  <2>1. /\ pc = "compare" /\ at.turn = Len(Order) /\ at.turn \in Nat /\ at.iteration \in Nat
        /\ args.warmups \in Nat /\ args.samples \in Nat \ {0}
        /\ at.iteration < args.warmups + args.samples
        /\ Ordered \subseteq Sides
    BY OrderFacts, SidesThatRan
       DEF Compare, FairInv, Iterations, Runs, CaseEnd, BenchmarkInv, Shapes
  <2>2. \A s \in Ordered :
            samples[s] = Earlier + (IF Sampled THEN 1 ELSE 0) /\ measured[s] # None
    BY <2>1, SidesThatRan DEF FairInv, Counted, Said, CaseEnd
  <2>3. /\ pairs' = IF args.baseline /\ Sampled THEN Append(pairs, Order[1]) ELSE pairs
        /\ UNCHANGED <<args, answer, measured, samples, answers, report>>
    BY <1>2, Zenon DEF Compare
  <2>4. Ordered' = Ordered /\ SidesAgree'
    BY <1>2, <2>3 DEF Ordered, SidesAgree
  <2>5. /\ Earlier \in Nat
        /\ Sampled => Earlier = at.iteration - args.warmups
        /\ ~Sampled => Earlier = 0
    BY <2>1 DEF Earlier, Sampled
  <2>6. args.baseline => Order[1] = FirstIn(at.iteration) /\ Order[1] \in Sides
    BY <2>1, OrderFacts DEF BenchmarkInv, FirstIn, Sides
  <2>7. /\ pairs \in Seq(Sides)
        /\ args.baseline => Len(pairs) = Earlier /\ Alternate(pairs)
    BY <2>1 DEF FairInv, MeasureTypes, Paired, CaseEnd
  <2>8. /\ pairs' \in Seq(Sides)
        /\ args.baseline =>
              /\ Len(pairs') = Earlier + (IF Sampled THEN 1 ELSE 0)
              /\ Alternate(pairs')
    <3>1. CASE args.baseline /\ Sampled
      <4>1. pairs' = Append(pairs, FirstIn(args.warmups + Len(pairs)))
        BY <2>1, <2>3, <2>5, <2>6, <2>7, <3>1
      <4>2. Alternate(pairs')
        BY <2>7, <3>1, <4>1, AlternateAppend DEF BenchmarkInv
      <4>3. QED
        BY <2>3, <2>6, <2>7, <3>1, <4>2
    <3>2. CASE ~(args.baseline /\ Sampled)
      BY <2>3, <2>5, <2>7, <3>2
    <3>3. QED
      BY <3>1, <3>2
  <2>9. args.baseline => Alternate(pairs)'
    BY <2>3, <2>8, Zenon DEF Alternate, TimesFirst, FirstIn, SecondIn
  <2>10. MeasureTypes'
    BY <2>3, <2>8 DEF FairInv, MeasureTypes
  <2>11. ComparedFairly'
    BY <2>3, CasesStayFair DEF FairInv
  <2>12. /\ answers' = {measured'[s] : s \in Sides} \ {None}
         /\ ~args'.baseline => measured'["baseline"] = None
    BY <2>3, Zenon DEF FairInv, Said
  <2>13. CASE at.iteration + 1 < args.warmups + args.samples
    <3>1. pc' = "start" /\ at'.iteration = at.iteration + 1 /\ at'.turn = 0
      BY <1>2, <2>13 DEF Compare
    <3>2. \A s : ~HasRun(s)'
      BY <3>1 DEF HasRun
    <3>3. Earlier' = Earlier + (IF Sampled THEN 1 ELSE 0)
      BY <2>1, <2>3, <3>1 DEF Earlier, Sampled
    <3>4. Iterations'
      BY <2>3, <2>13, <3>1 DEF Iterations, Runs, CaseEnd, Epilogue
    <3>5. Said'
      BY <2>2, <2>3, <2>4, <2>12, <3>1 DEF Said, Runs, CaseEnd
    <3>6. Counted'
      <4>1. \A s \in Ordered : samples[s] = Earlier'
        BY <2>2, <3>3
      <4>2. Earlier' \in Nat
        BY <2>5, <3>3
      <4>3. QED
        BY <2>3, <2>4, <3>1, <3>2, <4>1, <4>2 DEF Counted, Runs, CaseEnd
    <3>7. Paired'
      BY <2>3, <2>8, <2>9, <3>1, <3>3 DEF Paired, Runs, CaseEnd
    <3>8. QED
      BY <2>10, <2>11, <3>4, <3>5, <3>6, <3>7 DEF FairInv
  <2>14. CASE ~(at.iteration + 1 < args.warmups + args.samples)
    <3>1. pc' = "rehash" /\ at' = at
      BY <1>2, <2>14 DEF Compare
    <3>2. at.iteration + 1 = args.warmups + args.samples /\ Sampled
      BY <2>1, <2>14 DEF Sampled
    <3>3. Order' = Order /\ Sampled' = Sampled /\ Earlier' = Earlier
      BY <2>3, <3>1 DEF Order, Sampled, Earlier
    <3>4. \A s : HasRun(s)' <=> HasRun(s)
      BY <3>1, <3>3, Zenon DEF HasRun
    <3>5. Iterations'
      BY <2>1, <2>3, <3>1, <3>2, <3>3 DEF Iterations, Runs, CaseEnd
    <3>6. Said'
      BY <2>2, <2>3, <2>4, <2>12, <3>1 DEF Said, Runs, CaseEnd
    <3>7. Counted'
      <4>1. \A s \in Ordered : HasRun(s)
        BY <2>1, SidesThatRan
      <4>2. QED
        BY <2>2, <2>3, <2>4, <3>1, <3>2, <3>3, <3>4, <4>1 DEF Counted, Runs, CaseEnd
    <3>8. Paired'
      <4>1. Earlier + 1 = args.samples
        BY <2>1, <2>5, <3>2
      <4>2. QED
        BY <2>3, <2>8, <2>9, <3>1, <3>2, <4>1 DEF Paired, Runs, CaseEnd
    <3>9. QED
      BY <2>10, <2>11, <3>5, <3>6, <3>7, <3>8 DEF FairInv
  <2>15. QED
    BY <2>13, <2>14
<1>3. QED
  BY <1>1, <1>2

\* The case that the script is about to report.
LEMMA ThisCaseIsFair ==
    ASSUME BenchmarkInv, FairInv, pc = "rehash"
    PROVE  LET case == [answers |-> answers, samples |-> samples, pairs |-> pairs]
           IN  EveryRunAgrees(case) /\ (args.baseline => PairsAreBalanced(case))
<1> DEFINE case == [answers |-> answers, samples |-> samples, pairs |-> pairs]
<1>1. /\ at.turn = Len(Order) /\ at.iteration \in Nat
      /\ args.warmups \in Nat /\ args.samples \in Nat \ {0}
      /\ at.iteration + 1 = args.warmups + args.samples
    BY OrderFacts DEF FairInv, Iterations, CaseEnd, BenchmarkInv, Shapes
<1>2. Sampled /\ Earlier + 1 = args.samples
  BY <1>1 DEF Sampled, Earlier
<1>3. \A s \in Ordered : samples[s] = args.samples /\ measured[s] # None
  BY <1>1, <1>2, SidesThatRan DEF FairInv, Counted, Said, CaseEnd
<1>4. answers = {measured["candidate"]}
  <2>1. answers = {measured[s] : s \in Sides} \ {None}
    BY DEF FairInv, Said
  <2>2. measured["candidate"] # None
    BY <1>3, SidesThatRan
  <2>3. \A s \in Sides : measured[s] \in {measured["candidate"], None}
    BY DEF FairInv, Said, SidesAgree, Sides
  <2>4. "candidate" \in Sides
    BY DEF Sides
  <2>5. QED
    BY <2>1, <2>2, <2>3, <2>4
<1>5. EveryRunAgrees(case)
  BY <1>3, <1>4, FS_Singleton DEF EveryRunAgrees
<1>6. ASSUME args.baseline PROVE PairsAreBalanced(case)
  <2>1. Len(pairs) = args.samples /\ Alternate(pairs) /\ pairs \in Seq(Sides)
    BY <1>6 DEF FairInv, Paired, MeasureTypes, CaseEnd
  <2>2. /\ TimesFirst("baseline", pairs) <= TimesFirst("candidate", pairs) + 1
        /\ TimesFirst("candidate", pairs) <= TimesFirst("baseline", pairs) + 1
    BY <2>1, AlternateIsBalance DEF BenchmarkInv
  <2>3. case.pairs = pairs
    OBVIOUS
  <2> HIDE DEF case
  <2>4. QED
    BY <2>1, <2>2, <2>3, Zenon DEF PairsAreBalanced, TimesFirst
<1>7. QED
  BY <1>5, <1>6

\* The case is reported, and the next one begins.
LEMMA RehashKeepsFair ==
    ASSUME BenchmarkInv, BenchmarkInv', FairInv, Rehash
    PROVE  FairInv'
<1> USE DEF Goto, World, Measures
<1>1. CASE ~InputsAsHashed
  BY <1>1, RaiseKeepsFair DEF Rehash
<1>2. CASE InputsAsHashed
  <2> DEFINE case == [answers |-> answers, samples |-> samples, pairs |-> pairs]
  <2>1. /\ report' = [status |-> report.status, cases |-> Append(report.cases, case)]
        /\ at' = [index |-> at.index + 1, iteration |-> 0, turn |-> 0]
        /\ answer' = None /\ answers' = {} /\ pairs' = <<>>
        /\ measured' = [s \in Sides |-> None] /\ samples' = [s \in Sides |-> 0]
        /\ pc' \in {"setup", "rehash-cli"}
        /\ UNCHANGED args
    BY <1>2 DEF Rehash
  <2>2. report.cases \in Seq(CaseResults) /\ case \in CaseResults /\ report \in Reports
    BY DEF FairInv, MeasureTypes, CaseResults, Reports
  <2>3. EveryRunAgrees(case) /\ (args.baseline => PairsAreBalanced(case))
    BY ThisCaseIsFair DEF Rehash
  <2> HIDE DEF case
  <2>4. MeasureTypes'
    BY <2>1, <2>2 DEF MeasureTypes, Reports, Sides
  <2>5. Iterations' /\ Counted' /\ Paired'
    BY <2>1 DEF Iterations, Counted, Paired, Runs, CaseEnd, Epilogue
  <2>6. Said'
    BY <2>1 DEF Said, Runs, CaseEnd, Epilogue, Sides
  <2>7. ComparedFairly'
    <3>1. /\ \A c : EveryRunAgrees(c) => EveryRunAgrees(c)'
          /\ \A c : PairsAreBalanced(c) => PairsAreBalanced(c)'
      BY <2>1, Zenon DEF EveryRunAgrees, PairsAreBalanced, Ordered
    <3>2. report'.cases = Append(report.cases, case)
      BY <2>1
    <3>3. \A n \in DOMAIN report'.cases :
              \/ n \in DOMAIN report.cases /\ report'.cases[n] = report.cases[n]
              \/ report'.cases[n] = case
      BY <2>2, <3>2
    <3>4. QED
      BY <2>1, <2>3, <3>1, <3>3, Zenon DEF FairInv, ComparedFairly
  <2>8. QED
    BY <2>4, <2>5, <2>6, <2>7 DEF FairInv
<1>3. QED
  BY <1>1, <1>2

\* The cases of a report are fair, and what is being measured will be.
THEOREM FairnessInvariant == Spec => []FairInv
<1>1. Init => FairInv
  BY FairInit
<1>2. BenchmarkInv /\ BenchmarkInv' /\ FairInv /\ [Next]_vars => FairInv'
  <2> SUFFICES ASSUME BenchmarkInv, BenchmarkInv', FairInv, [Next]_vars PROVE FairInv'
    OBVIOUS
  <2>1. CASE QuietSteps
    BY <2>1, StepsAreQuiet, QuietKeepsFair
  <2>2. CASE Record
    BY <2>2, RecordKeepsFair
  <2>3. CASE Compare
    BY <2>3, CompareKeepsFair
  <2>4. CASE Rehash
    BY <2>4, RehashKeepsFair
  <2>5. QED
    BY <2>1, <2>2, <2>3, <2>4 DEF Next, Step, QuietSteps
<1>3. QED
  BY <1>1, <1>2, MeasurementInvariant, PTL DEF Spec

\* The numbers of a reported case can be compared: all its runs, warmups and
\* both executables included, said the same, there are as many as the
\* methodology says, and each executable runs first equally often, to within
\* one, whatever the number of warmups (benchmark_corpus.py 384-436).
THEOREM CasesAreComparable == Spec => []ComparedFairly
<1>1. FairInv => ComparedFairly
  BY DEF FairInv
<1>2. QED
  BY <1>1, FairnessInvariant, PTL

-----------------------------------------------------------------------------
(* A run ends as its report says.                                          *)

LEMMA EndInit == Init => EndInv
<1> SUFFICES ASSUME Init PROVE EndInv
  OBVIOUS
<1>1. ReportInv /\ ChildInv
  BY DEF Init, ReportInv, ChildInv, Versions, CaseSetUp, Runs, CaseEnd, Epilogue
<1>2. LeftAsReported
  BY NoneAssumption DEF Init, LeftAsReported
<1>3. QED
  BY <1>1, <1>2 DEF EndInv

\* A run that has not ended has left nothing yet.
LEMMA NotEnded ==
    ASSUME pc # "ended", ReportInv
    PROVE  LeftAsReported
BY NoneAssumption DEF ReportInv, LeftAsReported

\* raise leads to a report that does not look complete.
LEMMA RaiseEnds ==
    ASSUME EndInv, MeasureTypes, pc \notin Epilogue, NEW what, what # None, Raise(what),
           UNCHANGED <<results, exit>>,
           child' # {} /\ "foreign" \notin child' => what \in {"cleanup", "interrupt"}
    PROVE  EndInv'
<1>1. /\ pc' = "write" /\ error' = what /\ results' = None /\ exit' = None
      /\ report'.status # "complete"
  BY DEF Raise, Goto, EndInv, ReportInv, Epilogue, MeasureTypes, Reports
<1>2. ReportInv'
  BY <1>1 DEF ReportInv, Versions, CaseSetUp, Runs, CaseEnd, Epilogue
<1>3. ChildInv'
  BY <1>1 DEF ChildInv, Epilogue
<1>4. LeftAsReported'
  BY <1>1, NoneAssumption DEF LeftAsReported
<1>5. QED
  BY <1>2, <1>3, <1>4 DEF EndInv

\* raise inside the try of a generation.
LEMMA RaiseInTryEnds ==
    ASSUME EndInv, MeasureTypes, pc \in {"running", "answered"}, NEW what, what # None,
           RaiseInTry(what), UNCHANGED <<args, at, results, exit>>,
           child' # {} /\ "foreign" \notin child' => Generation
    PROVE  EndInv'
<1>1. CASE ~Generation
  BY <1>1, RaiseEnds DEF RaiseInTry, Epilogue
<1>2. CASE Generation
  <2>1. /\ pc' = "cleanup" /\ error' = what /\ report' = report /\ Generation'
        /\ results' = None /\ exit' = None
    BY <1>2 DEF RaiseInTry, Goto, EndInv, ReportInv, Generation, Case
  <2>2. ReportInv'
    BY <2>1 DEF EndInv, ReportInv, Versions, CaseSetUp, Runs, CaseEnd, Epilogue
  <2>3. ChildInv'
    BY <2>1 DEF ChildInv
  <2>4. LeftAsReported'
    BY <2>1, NoneAssumption DEF LeftAsReported
  <2>5. QED
    BY <2>2, <2>3, <2>4 DEF EndInv
<1>3. QED
  BY <1>1, <1>2

\* A step that goes on, within a part of the run or to its next one.
LEMMA GoesOn ==
    ASSUME EndInv, UNCHANGED <<args, error, report, results, exit>>,
           pc \notin Epilogue, pc' \notin Epilogue,
           pc' \in Versions \cup {"validate"} => pc \in Versions \cup {"validate"},
           pc' \in CaseSetUp \cup Runs \cup CaseEnd \cup {"rehash-cli"} =>
               \/ pc \in CaseSetUp \cup Runs \cup CaseEnd \cup {"rehash-cli"} /\ at' = at
               \/ at'.index = at.index /\ pc \in Runs \cup CaseEnd
               \/ at'.index = 1 /\ pc = "validate",
           error = None \/ pc' \in {"cleanup", "unlink"},
           child' # {} /\ "foreign" \notin child' =>
               Generation' /\ pc' \in {"answered", "cleanup", "unlink"}
    PROVE  EndInv'
<1>1. ReportInv'
  BY DEF EndInv, ReportInv, Versions, CaseSetUp, Runs, CaseEnd, Epilogue
<1>2. ChildInv'
  BY DEF ChildInv
<1>3. LeftAsReported'
  BY <1>1, NotEnded, NoneAssumption DEF LeftAsReported, EndInv, ReportInv, Epilogue
<1>4. QED
  BY <1>1, <1>2, <1>3 DEF EndInv

LEMMA StepKeepsEnd ==
    ASSUME BenchmarkInv, FairInv, EndInv, [Next]_vars
    PROVE  EndInv'
<1> USE DEF Goto, World, Measures, Output, Versions, CaseSetUp, Runs, CaseEnd, Epilogue
<1>1. MeasureTypes
  BY DEF FairInv
<1>2. None \notin {"failed", "exists", "cleanup", "interrupt"}
  BY NoneAssumption
<1>3. /\ pc \notin {"answered", "cleanup", "unlink", "write", "ended"} /\ child # {} =>
             "foreign" \in child
      /\ pc \in {"answered", "cleanup", "unlink"} /\ child # {} =>
             "foreign" \in child \/ Generation
      /\ pc \notin {"cleanup", "unlink", "write", "ended"} => error = None
  BY DEF EndInv, ChildInv, ReportInv
<1>4. UNCHANGED <<args, at>> => Generation' = Generation
  BY Zenon DEF Generation, Case
<1>5. CASE ReadVersions
  BY <1>3, <1>5, GoesOn DEF ReadVersions
<1>6. CASE RunVersions \/ HashValidator \/ RunBaselineVersion
  BY <1>3, <1>6, GoesOn DEF RunVersions, HashValidator, RunBaselineVersion
<1>28. CASE FailWithoutReport
  <2>1. /\ results' = None /\ pc' = "ended" /\ exit' = 1
        /\ "foreign" \in child \/ child = {}
        /\ UNCHANGED <<child, report, error>>
    BY <1>3, <1>28 DEF FailWithoutReport, EndInv, ReportInv
  <2>2. QED
    BY <1>28, <2>1 DEF FailWithoutReport, EndInv, ReportInv, ChildInv, LeftAsReported
<1>7. CASE Validate
  <2>1. CASE Raise("failed")
    BY <1>1, <1>2, <1>3, <1>7, <2>1, RaiseEnds DEF Validate
  <2>2. CASE /\ UNCHANGED <<error, report>>
             /\ IF at.index < Len(args.work)
                THEN at' = [at EXCEPT !.index = @ + 1] /\ UNCHANGED pc
                ELSE at' = [at EXCEPT !.index = 1] /\ Goto("setup")
    <3>1. pc' = "validate" \/ (pc' = "setup" /\ at'.index = 1)
      BY <1>7, <2>2 DEF Validate, BenchmarkInv, Shapes
    <3>2. QED
      BY <1>3, <1>7, <2>2, <3>1, GoesOn DEF Validate
  <2>3. QED
    BY <1>7, <2>1, <2>2 DEF Validate
<1>8. CASE SetUp
  <2>1. CASE Raise("failed")
    BY <1>1, <1>2, <1>3, <1>8, <2>1, RaiseEnds DEF SetUp
  <2>2. CASE pc' \in {"start", "hash"} /\ UNCHANGED <<error, report>>
    BY <1>3, <1>8, <2>2, GoesOn DEF SetUp
  <2>3. QED
    BY <1>8, <2>1, <2>2 DEF SetUp
<1>9. CASE HashExtra
  BY <1>3, <1>9, GoesOn DEF HashExtra
<1>10. CASE RejectExtra
  BY <1>1, <1>2, <1>3, <1>10, RaiseEnds DEF RejectExtra
<1>11. CASE Start
  <2>1. CASE Raise("exists")
    BY <1>1, <1>2, <1>3, <1>11, <2>1, RaiseEnds DEF Start
  <2>2. CASE pc' = "running" /\ UNCHANGED <<error, report>>
    BY <1>3, <1>11, <2>2, GoesOn DEF Start
  <2>3. QED
    BY <1>11, <2>1, <2>2 DEF Start
<1>12. CASE End
  BY <1>3, <1>4, <1>12, GoesOn DEF End
<1>13. CASE Break
  <2>1. child' # {} /\ "foreign" \notin child' => Generation
    BY <1>3, <1>13 DEF Break
  <2>2. QED
    BY <1>1, <1>2, <1>13, <2>1, RaiseInTryEnds DEF Break
<1>14. CASE RejectAnswer
  BY <1>1, <1>2, <1>3, <1>14, RaiseInTryEnds DEF RejectAnswer
<1>15. CASE CheckAnswer
  <2>1. CASE RaiseInTry("failed")
    BY <1>1, <1>2, <1>3, <1>15, <2>1, RaiseInTryEnds DEF CheckAnswer
  <2>2. CASE pc' = (IF Generation THEN "cleanup" ELSE "record") /\ UNCHANGED <<error, report>>
    <3>1. child' # {} /\ "foreign" \notin child' => Generation
      BY <1>3, <1>15 DEF CheckAnswer
    <3>2. QED
      BY <1>3, <1>4, <1>15, <2>2, <3>1, GoesOn DEF CheckAnswer
  <2>3. QED
    BY <1>15, <2>1, <2>2 DEF CheckAnswer
<1>16. ASSUME pc \in {"cleanup", "unlink"}, AfterCleanup, child' = {},
              UNCHANGED <<args, at, results, exit>>
       PROVE  EndInv'
  <2>1. CASE error = None
    BY <1>16, <2>1, GoesOn DEF AfterCleanup
  <2>2. CASE error # None
    BY <1>1, <1>16, <2>2, RaiseEnds DEF AfterCleanup
  <2>3. QED
    BY <2>1, <2>2
<1>17. CASE Cleanup
  <2>1. CASE child = {}
    BY <1>16, <1>17, <2>1 DEF Cleanup
  <2>2. CASE pc' = "unlink" /\ UNCHANGED <<error, report>>
    BY <1>3, <1>4, <1>17, <2>2, GoesOn DEF Cleanup
  <2>3. CASE Raise("cleanup")
    BY <1>1, <1>2, <1>17, <2>3, RaiseEnds DEF Cleanup
  <2>4. QED
    BY <1>17, <2>1, <2>2, <2>3 DEF Cleanup
<1>18. CASE Unlink
  <2>1. ASSUME NEW name \in child \cap GeneratedFiles, child' = child \ {name},
               UNCHANGED <<pc, error, report>>
        PROVE  EndInv'
    <3>1. child' # {} /\ "foreign" \notin child' => Generation
      BY <1>3, <1>18, <2>1 DEF Unlink, GeneratedFiles
    <3>2. QED
      BY <1>4, <1>18, <2>1, <3>1, GoesOn DEF Unlink
  <2>2. CASE child' = {} /\ AfterCleanup
    BY <1>16, <1>18, <2>2 DEF Unlink
  <2>3. CASE Raise("cleanup")
    BY <1>1, <1>2, <1>18, <2>3, RaiseEnds DEF Unlink
  <2>4. QED
    BY <1>18, <2>1, <2>2, <2>3 DEF Unlink
<1>19. CASE Record
  <2>1. CASE Raise("failed")
    BY <1>1, <1>2, <1>3, <1>19, <2>1, RaiseEnds DEF Record
  <2>2. CASE /\ at' = [at EXCEPT !.turn = @ + 1] /\ pc' \in {"start", "compare"}
             /\ UNCHANGED <<error, report>>
    <3>1. at'.index = at.index
      BY <2>2 DEF BenchmarkInv, Shapes
    <3>2. QED
      BY <1>3, <1>19, <2>2, <3>1, GoesOn DEF Record
  <2>3. QED
    BY <1>19, <2>1, <2>2 DEF Record
<1>20. CASE Compare
  <2>1. CASE Raise("failed")
    BY <1>1, <1>2, <1>3, <1>20, <2>1, RaiseEnds DEF Compare
  <2>2. CASE at'.index = at.index /\ pc' \in {"start", "rehash"} /\ UNCHANGED <<error, report>>
    BY <1>3, <1>20, <2>2, GoesOn DEF Compare
  <2>3. QED
    BY <1>20, <2>1, <2>2 DEF Compare
<1>21. CASE Rehash
  <2>1. CASE Raise("failed")
    BY <1>1, <1>2, <1>3, <1>21, <2>1, RaiseEnds DEF Rehash
  <2>2. CASE InputsAsHashed
    <3> DEFINE case == [answers |-> answers, samples |-> samples, pairs |-> pairs]
    <3>1. /\ report' = [status |-> report.status, cases |-> Append(report.cases, case)]
          /\ at' = [index |-> at.index + 1, iteration |-> 0, turn |-> 0]
          /\ pc' \in {"setup", "rehash-cli"}
          /\ UNCHANGED <<args, child, error, results, exit>>
      BY <1>21, <2>2 DEF Rehash
    <3>2. /\ pc = "rehash" /\ error = None /\ exit = None /\ results = None
          /\ report.status = "running" /\ Len(report.cases) = at.index - 1
          /\ at.index \in Nat
      BY <1>21 DEF Rehash, EndInv, ReportInv, BenchmarkInv, Shapes
    <3>3. report.cases \in Seq(CaseResults)
      BY <1>1 DEF MeasureTypes, Reports
    <3> HIDE DEF case
    <3>4. Len(report'.cases) = Len(report.cases) + 1 /\ report'.status = report.status
      BY <3>1, <3>3
    <3>5. ReportInv'
      BY <3>1, <3>2, <3>4 DEF ReportInv
    <3>6. ChildInv' /\ LeftAsReported'
      BY <1>2, <1>3, <3>1, <3>2, NoneAssumption DEF ChildInv, LeftAsReported
    <3>7. QED
      BY <3>5, <3>6 DEF EndInv
  <2>3. QED
    BY <1>21, <2>1, <2>2 DEF Rehash
<1>22. CASE RehashExecutables
  <2>1. CASE Raise("failed")
    BY <1>1, <1>2, <1>3, <1>22, <2>1, RaiseEnds DEF RehashExecutables
  <2>2. CASE /\ report' = [report EXCEPT !.status = "complete"] /\ pc' = "write"
             /\ UNCHANGED error
    <3>1. /\ pc = "rehash-cli" /\ error' = None /\ exit' = None /\ results' = None
          /\ Len(report.cases) = at.index - 1 /\ at.index = Len(args.work) + 1
          /\ UNCHANGED <<args, child>>
      BY <1>22, <2>2 DEF RehashExecutables, EndInv, ReportInv, BenchmarkInv, Position
    <3>2. report'.status = "complete" /\ report'.cases = report.cases
      BY <1>1, <2>2 DEF MeasureTypes, Reports
    <3>3. Len(report'.cases) = Len(args'.work)
      BY <3>1, <3>2, WorkIsFinite DEF BenchmarkInv
    <3>4. ReportInv'
      BY <2>2, <3>1, <3>2, <3>3 DEF ReportInv
    <3>5. ChildInv' /\ LeftAsReported'
      BY <1>3, <2>2, <3>1, NoneAssumption DEF ChildInv, LeftAsReported
    <3>6. QED
      BY <3>4, <3>5 DEF EndInv
  <2>3. QED
    BY <1>22, <2>1, <2>2 DEF RehashExecutables
<1>23. CASE WriteReport
  <2>1. /\ pc = "write" /\ pc' = "ended" /\ UNCHANGED <<args, child, error, report>>
        /\ error = None <=> report.status = "complete"
        /\ error = None => Len(report.cases) = Len(args.work)
        /\ child # {} /\ "foreign" \notin child => error \in {"cleanup", "interrupt"}
        /\ exit' \in {0, 1} /\ results = None
        /\ \/ results' = report /\ exit' = IF error = None THEN 0 ELSE 1
           \/ results' = None /\ exit' = 1
    BY <1>23 DEF WriteReport, EndInv, ReportInv, ChildInv
  <2>2. report # None
    BY <1>1, NoneAssumption DEF MeasureTypes
  <2>3. ReportInv' /\ ChildInv'
    BY <2>1 DEF ReportInv, ChildInv
  <2>4. LeftAsReported'
    BY <1>2, <2>1, <2>2 DEF LeftAsReported
  <2>5. QED
    BY <2>3, <2>4 DEF EndInv
<1>24. CASE (\E f \in Files : Edit(f)) \/ UNCHANGED vars
  <2>1. UNCHANGED <<pc, args, at, child, error, report, results, exit>>
    BY <1>24 DEF Edit, vars
  <2>2. QED
    BY <2>1, Zenon DEF EndInv, ReportInv, ChildInv, LeftAsReported, Generation, Case
<1>25. CASE Intrude
  <2>1. /\ UNCHANGED <<pc, args, at, error, report, results, exit>> /\ "foreign" \in child'
        /\ pc # "ended"
    BY <1>25 DEF Intrude
  <2>2. ReportInv' /\ ChildInv'
    BY <2>1 DEF EndInv, ReportInv, ChildInv
  <2>3. LeftAsReported'
    BY <2>1, NoneAssumption DEF EndInv, ReportInv, LeftAsReported
  <2>4. QED
    BY <2>2, <2>3 DEF EndInv
<1>26. CASE Interrupt
  <2>1. CASE InTry /\ RaiseInTry("interrupt")
    BY <1>1, <1>2, <1>3, <1>26, <2>1, RaiseInTryEnds DEF Interrupt, InTry
  <2>2. CASE Raise("interrupt")
    BY <1>1, <1>2, <1>26, <2>2, RaiseEnds DEF Interrupt
  <2>3. QED
    BY <1>26, <2>1, <2>2 DEF Interrupt
<1>27. QED
  BY <1>5, <1>6, <1>7, <1>8, <1>9, <1>10, <1>11, <1>12, <1>13, <1>14, <1>15, <1>17, <1>18,
     <1>19, <1>20, <1>21, <1>22, <1>23, <1>24, <1>25, <1>26, <1>28 DEF Next, Step

\* Only files that the script generated are removed.
LEMMA ForeignFilesStay ==
    ASSUME [Next]_vars
    PROVE  ForeignFileKept
<1> USE DEF ForeignFileKept, World
<1>1. CASE Unlink
  BY <1>1 DEF Unlink, GeneratedFiles
<1>2. CASE End
  BY <1>2 DEF End
<1>3. CASE Break
  BY <1>3 DEF Break
<1>4. CASE Intrude
  BY <1>4 DEF Intrude
<1>5. CASE /\ Next
           /\ ~Unlink /\ ~End /\ ~Break /\ ~Intrude
  BY <1>5 DEF Next, Step, ReadVersions, RunVersions, HashValidator,
     RunBaselineVersion, FailWithoutReport, Validate, SetUp, HashExtra, RejectExtra,
     Start, RejectAnswer, CheckAnswer, Cleanup, Record, Compare, Rehash, RehashExecutables,
     WriteReport, Edit, Interrupt
<1>6. CASE UNCHANGED vars
  BY <1>6 DEF vars
<1>7. QED
  BY <1>1, <1>2, <1>3, <1>4, <1>5, <1>6

\* What has been reported so far is what the run will end with.
THEOREM EndInvariant == Spec => []EndInv
<1>1. Init => EndInv
  BY EndInit
<1>2. BenchmarkInv /\ FairInv /\ EndInv /\ [Next]_vars => EndInv'
  BY StepKeepsEnd
<1>3. QED
  BY <1>1, <1>2, MeasurementInvariant, FairnessInvariant, PTL DEF Spec

\* A run that ends with success has a complete report of all its cases on the
\* disk, and one that fails has none that looks complete.  A generated
\* directory is left behind only if it was not the script's to remove, or
\* removing it failed or was interrupted.  And a file that somebody else put
\* there is never removed (benchmark_corpus.py 231-243, 470-484).
THEOREM RunsEndAsReported == Spec => EndsAsReported
<1>1. EndInv' /\ [Next]_vars => ForeignFileKept /\ LeftAsReported'
  BY ForeignFilesStay DEF EndInv
<1>2. Spec => [][Next]_vars
  BY PTL DEF Spec
<1>3. QED
  BY <1>1, <1>2, EndInvariant, PTL DEF EndsAsReported

=============================================================================
