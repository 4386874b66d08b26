--------------------------- MODULE ConsumerProofs ---------------------------
(***************************************************************************)
(* Theorems about PackageConsumer, for any number of dependencies and      *)
(* targets, any archives and any failures.                                 *)
(*                                                                         *)
(* What the gate does is a list of stages whose length depends on the      *)
(* constants.  The first part finds the place of each stage in it; the     *)
(* invariants are about these places.                                      *)
(*                                                                         *)
(* Unpacking is a fold over the members, and a place one over the parts of *)
(* a path.  What they do is proved by induction on a position.             *)
(***************************************************************************)
EXTENDS ConsumerProperties, FiniteSetTheorems, WellFoundedInduction, TLAPS

-----------------------------------------------------------------------------
(* The places of the stages.                                               *)

LEMMA Lengths == Deps \in Nat /\ Len(Targets) \in Nat \ {0}
<1>1. Deps \in Nat
  BY ConsumerAssumption, FS_CardinalityType DEF Deps
<1>2. Len(Targets) \in Nat \ {0}
  BY ConsumerAssumption
<1>3. QED
  BY <1>1, <1>2

\* What a stage may be.
Stages ==
    {Op("prepare"), Op("toolchain"), Op("download"), Op("index"), Op("bootstrap"),
     Op("package"), Op("candidate"), Op("candidate-index"), Op("update"), Op("add"),
     Op("before"), Op("plan"), Op("after"), Op("routes"), Op("cleanup"), Op("write"),
     Op("ended")} \cup {TargetSteps[k] : k \in 1..(3 * Len(Targets))}

\* The elements of a concatenation.
LEMMA Concatenation ==
    ASSUME NEW s \in Seq(Stages), NEW t \in Seq(Stages)
    PROVE  /\ s \o t \in Seq(Stages) /\ Len(s \o t) = Len(s) + Len(t)
           /\ \A n \in 1..Len(s) : (s \o t)[n] = s[n]
           /\ \A n \in 1..Len(t) : (s \o t)[Len(s) + n] = t[n]
OBVIOUS

\* The stages of the targets.
LEMMA TargetStages ==
    /\ TargetSteps \in Seq(Stages)
    /\ Len(TargetSteps) = 3 * Len(Targets)
    /\ \A k \in 1..(3 * Len(Targets)) :
          /\ TargetSteps[k].op \in {"check", "test", "run"}
          /\ TargetSteps[k].op = "run" <=> k % 3 = 0
          /\ k % 3 = 0 => TargetSteps[k].of = Targets[k \div 3]
<1>1. \A k \in 1..(3 * Len(Targets)) :
          /\ ((k - 1) % 3) + 1 \in {1, 2, 3}
          /\ ((k - 1) % 3) + 1 = 3 <=> k % 3 = 0
          /\ ((k - 1) \div 3) + 1 \in 1..Len(Targets)
          /\ k % 3 = 0 => ((k - 1) \div 3) + 1 = k \div 3
  BY Lengths
<1>3. \A i \in {1, 2, 3} :
          /\ <<"check", "test", "run">>[i] \in {"check", "test", "run"}
          /\ <<"check", "test", "run">>[i] = "run" <=> i = 3
  OBVIOUS
<1>4. \A k \in 1..(3 * Len(Targets)) :
          TargetSteps[k] = [op |-> <<"check", "test", "run">>[((k - 1) % 3) + 1],
                            of |-> Targets[((k - 1) \div 3) + 1]]
  BY DEF TargetSteps
<1>5. \A k \in 1..(3 * Len(Targets)) :
          /\ TargetSteps[k].op \in {"check", "test", "run"}
          /\ TargetSteps[k].op = "run" <=> k % 3 = 0
          /\ k % 3 = 0 => TargetSteps[k].of = Targets[k \div 3]
          /\ TargetSteps[k] \in Stages
  <2>1. SUFFICES ASSUME NEW k \in 1..(3 * Len(Targets))
                 PROVE  /\ TargetSteps[k].op \in {"check", "test", "run"}
                        /\ TargetSteps[k].op = "run" <=> k % 3 = 0
                        /\ k % 3 = 0 => TargetSteps[k].of = Targets[k \div 3]
    BY DEF Stages
  <2> DEFINE i == ((k - 1) % 3) + 1
             t == ((k - 1) \div 3) + 1
  <2>2. /\ i \in {1, 2, 3} /\ t \in 1..Len(Targets)
        /\ i = 3 <=> k % 3 = 0
        /\ k % 3 = 0 => t = k \div 3
    BY <1>1
  <2>3. TargetSteps[k] = [op |-> <<"check", "test", "run">>[i], of |-> Targets[t]]
    BY <1>4
  <2> HIDE DEF i, t
  <2>4. /\ TargetSteps[k].op = <<"check", "test", "run">>[i]
        /\ TargetSteps[k].of = Targets[t]
    BY <2>3
  <2>5. QED
    BY <1>3, <2>2, <2>4
<1>6. TargetSteps \in Seq(Stages) /\ Len(TargetSteps) = 3 * Len(Targets)
  <2>1. 3 * Len(Targets) \in Nat
    BY Lengths
  <2>2. TargetSteps = [k \in 1..(3 * Len(Targets)) |-> TargetSteps[k]]
    BY DEF TargetSteps
  <2>3. QED
    BY <1>5, <2>1, <2>2
<1>7. QED
  BY <1>5, <1>6

LEMMA Places ==
    /\ DOMAIN Script = 1..EndedAt
    /\ Script[1] = Op("prepare") /\ Script[2] = Op("toolchain")
    /\ \A n \in 3..(Deps + 2) : Script[n] = Op("download")
    /\ Script[Deps + 3] = Op("index") /\ Script[Deps + 4] = Op("bootstrap")
    /\ Script[Deps + 5] = Op("package") /\ Script[Deps + 6] = Op("candidate")
    /\ Script[Deps + 7] = Op("candidate-index") /\ Script[Deps + 8] = Op("update")
    /\ Script[Deps + 9] = Op("add") /\ Script[Deps + 10] = Op("before")
    /\ Script[PlanAt] = Op("plan")
    /\ \A k \in 1..(3 * Len(Targets)) : Script[PlanAt + k] = TargetSteps[k]
    /\ Script[AfterAt] = Op("after") /\ Script[AfterAt + 1] = Op("routes")
    /\ Script[AfterAt + 2] = Op("cleanup") /\ Script[AfterAt + 3] = Op("write")
    /\ Script[EndedAt] = Op("ended")
<1> DEFINE P1 == <<Op("prepare"), Op("toolchain")>>
           P2 == [n \in 1..Cardinality(Dependencies) |-> Op("download")]
           P3 == <<Op("index"), Op("bootstrap"), Op("package"), Op("candidate"),
                   Op("candidate-index"), Op("update"), Op("add"), Op("before"), Op("plan")>>
           P4 == TargetSteps
           P5 == <<Op("after"), Op("routes"), Op("cleanup"), Op("write"), Op("ended")>>
           C2 == P1 \o P2
           C3 == C2 \o P3
           C4 == C3 \o P4
<1>1. Script = C4 \o P5
  BY DEF Script
<1>2. /\ Op("prepare") \in Stages /\ Op("toolchain") \in Stages /\ Op("download") \in Stages
      /\ Op("index") \in Stages /\ Op("bootstrap") \in Stages /\ Op("package") \in Stages
      /\ Op("candidate") \in Stages /\ Op("candidate-index") \in Stages /\ Op("update") \in Stages
      /\ Op("add") \in Stages /\ Op("before") \in Stages /\ Op("plan") \in Stages
      /\ Op("after") \in Stages /\ Op("routes") \in Stages /\ Op("cleanup") \in Stages
      /\ Op("write") \in Stages /\ Op("ended") \in Stages
  BY DEF Stages
<1>3. /\ P1 \in Seq(Stages) /\ Len(P1) = 2
      /\ P1[1] = Op("prepare") /\ P1[2] = Op("toolchain")
  BY <1>2
<1>4. P2 \in Seq(Stages) /\ Len(P2) = Deps /\ \A n \in 1..Deps : P2[n] = Op("download")
  BY <1>2, Lengths DEF Deps
<1>5. /\ P3 \in Seq(Stages) /\ Len(P3) = 9
      /\ P3[1] = Op("index") /\ P3[2] = Op("bootstrap") /\ P3[3] = Op("package")
      /\ P3[4] = Op("candidate") /\ P3[5] = Op("candidate-index") /\ P3[6] = Op("update")
      /\ P3[7] = Op("add") /\ P3[8] = Op("before") /\ P3[9] = Op("plan")
  BY <1>2
<1>6. P4 \in Seq(Stages) /\ Len(P4) = 3 * Len(Targets)
  BY TargetStages
<1>7. /\ P5 \in Seq(Stages) /\ Len(P5) = 5
      /\ P5[1] = Op("after") /\ P5[2] = Op("routes") /\ P5[3] = Op("cleanup")
      /\ P5[4] = Op("write") /\ P5[5] = Op("ended")
  BY <1>2
<1> HIDE DEF P1, P2, P3, P4, P5
<1>a. C2 = P1 \o P2 /\ C3 = C2 \o P3 /\ C4 = C3 \o P4
  OBVIOUS
<1> HIDE DEF C2, C3, C4
<1>8. /\ C2 \in Seq(Stages) /\ Len(C2) = Deps + 2
      /\ \A n \in 1..2 : C2[n] = P1[n]
      /\ \A n \in 1..Deps : C2[2 + n] = P2[n]
  <2>1. /\ C2 \in Seq(Stages) /\ Len(C2) = Len(P1) + Len(P2)
        /\ \A n \in 1..Len(P1) : C2[n] = P1[n]
        /\ \A n \in 1..Len(P2) : C2[Len(P1) + n] = P2[n]
    BY <1>a, <1>3, <1>4, Concatenation
  <2>2. QED
    BY <1>3, <1>4, <2>1, Lengths
<1>9. /\ C3 \in Seq(Stages) /\ Len(C3) = PlanAt
      /\ \A n \in 1..(Deps + 2) : C3[n] = C2[n]
      /\ \A n \in 1..9 : C3[Deps + 2 + n] = P3[n]
  <2>1. /\ C3 \in Seq(Stages) /\ Len(C3) = Len(C2) + Len(P3)
        /\ \A n \in 1..Len(C2) : C3[n] = C2[n]
        /\ \A n \in 1..Len(P3) : C3[Len(C2) + n] = P3[n]
    BY <1>a, <1>5, <1>8, Concatenation
  <2>2. Len(P3) = 9 /\ Len(C2) = Deps + 2
    BY <1>5, <1>8
  <2>3. QED
    BY <2>1, <2>2, Lengths DEF PlanAt
<1>10. /\ C4 \in Seq(Stages) /\ Len(C4) = PlanAt + 3 * Len(Targets)
       /\ \A n \in 1..PlanAt : C4[n] = C3[n]
       /\ \A k \in 1..(3 * Len(Targets)) : C4[PlanAt + k] = P4[k]
  <2>1. /\ C4 \in Seq(Stages) /\ Len(C4) = Len(C3) + Len(P4)
        /\ \A n \in 1..Len(C3) : C4[n] = C3[n]
        /\ \A n \in 1..Len(P4) : C4[Len(C3) + n] = P4[n]
    <3>1. C3 \in Seq(Stages) /\ P4 \in Seq(Stages) /\ C4 = C3 \o P4
      BY <1>a, <1>6, <1>9
    <3>2. QED
      BY <3>1, Concatenation
  <2>2. Len(C3) = PlanAt /\ Len(P4) = 3 * Len(Targets)
    BY <1>6, <1>9
  <2>3. QED
    BY <2>1, <2>2, Zenon
<1>11. /\ Script \in Seq(Stages) /\ Len(Script) = EndedAt
       /\ \A n \in 1..(PlanAt + 3 * Len(Targets)) : Script[n] = C4[n]
       /\ \A n \in 1..5 : Script[PlanAt + 3 * Len(Targets) + n] = P5[n]
  <2>1. /\ Script \in Seq(Stages) /\ Len(Script) = Len(C4) + Len(P5)
        /\ \A n \in 1..Len(C4) : Script[n] = C4[n]
        /\ \A n \in 1..Len(P5) : Script[Len(C4) + n] = P5[n]
    BY <1>1, <1>7, <1>10, Concatenation
  <2>2. PlanAt + 3 * Len(Targets) + 5 = EndedAt
    BY Lengths DEF AfterAt, EndedAt, PlanAt
  <2>3. QED
    BY <1>7, <1>10, <2>1, <2>2, Zenon
<1>12. \A n \in 1..PlanAt : Script[n] = C3[n]
  <2>1. \A n \in 1..PlanAt : n \in 1..(PlanAt + 3 * Len(Targets))
    BY Lengths DEF PlanAt
  <2>2. QED
    BY <1>10, <1>11, <2>1
<1>b. \A n \in 1..(Deps + 2) : Script[n] = C2[n]
  <2>1. \A n \in 1..(Deps + 2) : n \in 1..PlanAt
    BY Lengths DEF PlanAt
  <2>2. QED
    BY <1>9, <1>12, <2>1
<1>13. \A n \in 1..9 : Script[Deps + 2 + n] = P3[n]
  <2>1. \A n \in 1..9 : Deps + 2 + n \in 1..PlanAt
    BY Lengths DEF PlanAt
  <2>2. QED
    BY <1>9, <1>12, <2>1
<1>14. \A k \in 1..(3 * Len(Targets)) : Script[PlanAt + k] = TargetSteps[k]
  <2>1. \A k \in 1..(3 * Len(Targets)) : PlanAt + k \in 1..(PlanAt + 3 * Len(Targets))
    BY Lengths DEF PlanAt
  <2>2. P4 = TargetSteps
    BY DEF P4
  <2>3. QED
    BY <1>10, <1>11, <2>1, <2>2
<1>15. DOMAIN Script = 1..EndedAt
  BY <1>11
<1>16. Script[1] = Op("prepare") /\ Script[2] = Op("toolchain")
  BY <1>3, <1>8, <1>b, Lengths
<1>17. \A n \in 3..(Deps + 2) : Script[n] = Op("download")
  <2>1. SUFFICES ASSUME NEW n \in 3..(Deps + 2) PROVE Script[n] = Op("download")
    OBVIOUS
  <2>2. n - 2 \in 1..Deps /\ n = 2 + (n - 2) /\ n \in 1..(Deps + 2)
    BY Lengths
  <2>3. C2[2 + (n - 2)] = P2[n - 2] /\ P2[n - 2] = Op("download")
    BY <1>4, <1>8, <2>2
  <2>4. QED
    BY <1>b, <2>2, <2>3
<1>18. /\ Script[Deps + 3] = P3[1] /\ Script[Deps + 4] = P3[2] /\ Script[Deps + 5] = P3[3]
       /\ Script[Deps + 6] = P3[4] /\ Script[Deps + 7] = P3[5] /\ Script[Deps + 8] = P3[6]
       /\ Script[Deps + 9] = P3[7] /\ Script[Deps + 10] = P3[8] /\ Script[PlanAt] = P3[9]
  <2>1. /\ Deps + 3 = Deps + 2 + 1 /\ Deps + 4 = Deps + 2 + 2 /\ Deps + 5 = Deps + 2 + 3
        /\ Deps + 6 = Deps + 2 + 4 /\ Deps + 7 = Deps + 2 + 5 /\ Deps + 8 = Deps + 2 + 6
        /\ Deps + 9 = Deps + 2 + 7 /\ Deps + 10 = Deps + 2 + 8 /\ PlanAt = Deps + 2 + 9
    BY Lengths DEF PlanAt
  <2>2. /\ Script[Deps + 2 + 1] = P3[1] /\ Script[Deps + 2 + 2] = P3[2]
        /\ Script[Deps + 2 + 3] = P3[3] /\ Script[Deps + 2 + 4] = P3[4]
        /\ Script[Deps + 2 + 5] = P3[5] /\ Script[Deps + 2 + 6] = P3[6]
        /\ Script[Deps + 2 + 7] = P3[7] /\ Script[Deps + 2 + 8] = P3[8]
        /\ Script[Deps + 2 + 9] = P3[9]
    BY <1>13
  <2>3. QED
    BY <2>1, <2>2, Zenon
<1>19. /\ Script[AfterAt] = P5[1] /\ Script[AfterAt + 1] = P5[2] /\ Script[AfterAt + 2] = P5[3]
       /\ Script[AfterAt + 3] = P5[4] /\ Script[EndedAt] = P5[5]
  <2> DEFINE last == PlanAt + 3 * Len(Targets)
  <2>1. /\ AfterAt = last + 1 /\ AfterAt + 1 = last + 2 /\ AfterAt + 2 = last + 3
        /\ AfterAt + 3 = last + 4 /\ EndedAt = last + 5
    BY Lengths DEF AfterAt, EndedAt, PlanAt
  <2>2. QED
    BY <1>11, <2>1
<1>20. QED
  BY <1>5, <1>7, <1>14, <1>15, <1>16, <1>17, <1>18, <1>19

\* The stage at a place.
Placed(n) ==
    /\ n \in 1..2 <=> Script[n].op \in {"prepare", "toolchain"}
    /\ n = 2 <=> Script[n].op = "toolchain"
    /\ n \in 3..(Deps + 2) <=> Script[n].op = "download"
    /\ n = Deps + 3 <=> Script[n].op = "index"
    /\ n = Deps + 4 <=> Script[n].op = "bootstrap"
    /\ n = Deps + 5 <=> Script[n].op = "package"
    /\ n = Deps + 6 <=> Script[n].op = "candidate"
    /\ n = Deps + 7 <=> Script[n].op = "candidate-index"
    /\ n = Deps + 8 <=> Script[n].op = "update"
    /\ n = Deps + 9 <=> Script[n].op = "add"
    /\ n = Deps + 10 <=> Script[n].op = "before"
    /\ n = PlanAt <=> Script[n].op = "plan"
    /\ n \in (PlanAt + 1)..(AfterAt - 1) <=> Script[n].op \in {"check", "test", "run"}
    /\ n = AfterAt <=> Script[n].op = "after"
    /\ n = AfterAt + 1 <=> Script[n].op = "routes"
    /\ n = AfterAt + 2 <=> Script[n].op = "cleanup"
    /\ n = AfterAt + 3 <=> Script[n].op = "write"
    /\ n = EndedAt <=> Script[n].op = "ended"

\* Each stage has its place and no other.
LEMMA StageAt == \A n \in 1..EndedAt : Placed(n)
<1> SUFFICES ASSUME NEW n \in 1..EndedAt PROVE Placed(n)
  OBVIOUS
<1> DEFINE at == Script[n].op
<1>1. /\ n = 1 => at = "prepare"
      /\ n = 2 => at = "toolchain"
      /\ n \in 3..(Deps + 2) => at = "download"
      /\ n = Deps + 3 => at = "index"
      /\ n = Deps + 4 => at = "bootstrap"
      /\ n = Deps + 5 => at = "package"
      /\ n = Deps + 6 => at = "candidate"
      /\ n = Deps + 7 => at = "candidate-index"
      /\ n = Deps + 8 => at = "update"
      /\ n = Deps + 9 => at = "add"
      /\ n = Deps + 10 => at = "before"
      /\ n = PlanAt => at = "plan"
      /\ n = AfterAt => at = "after"
      /\ n = AfterAt + 1 => at = "routes"
      /\ n = AfterAt + 2 => at = "cleanup"
      /\ n = AfterAt + 3 => at = "write"
      /\ n = EndedAt => at = "ended"
  BY Places DEF Op
<1>2. n \in (PlanAt + 1)..(AfterAt - 1) => at \in {"check", "test", "run"}
  <2>1. SUFFICES ASSUME n \in (PlanAt + 1)..(AfterAt - 1) PROVE at \in {"check", "test", "run"}
    OBVIOUS
  <2>2. n - PlanAt \in 1..(3 * Len(Targets)) /\ n = PlanAt + (n - PlanAt)
    BY <2>1, Lengths DEF PlanAt, AfterAt
  <2>3. Script[PlanAt + (n - PlanAt)] = TargetSteps[n - PlanAt]
    BY <2>2, Places
  <2>4. QED
    BY <2>2, <2>3, TargetStages
<1>3. \/ n = 1 \/ n = 2 \/ n \in 3..(Deps + 2) \/ n = Deps + 3 \/ n = Deps + 4
      \/ n = Deps + 5 \/ n = Deps + 6 \/ n = Deps + 7 \/ n = Deps + 8 \/ n = Deps + 9
      \/ n = Deps + 10 \/ n = PlanAt \/ n \in (PlanAt + 1)..(AfterAt - 1) \/ n = AfterAt
      \/ n = AfterAt + 1 \/ n = AfterAt + 2 \/ n = AfterAt + 3 \/ n = EndedAt
  BY Lengths DEF PlanAt, AfterAt, EndedAt
<1> HIDE DEF at
<1>4. QED
  BY <1>1, <1>2, <1>3, Lengths DEF PlanAt, AfterAt, EndedAt, at, Placed

\* Where an exception leads.
LEMMA Landings ==
    PlaceOf("plan") = PlanAt /\ PlaceOf("after") = AfterAt /\ PlaceOf("cleanup") = AfterAt + 2
<1>1. PlanAt \in 1..EndedAt /\ AfterAt \in 1..EndedAt /\ AfterAt + 2 \in 1..EndedAt
  BY Lengths DEF PlanAt, AfterAt, EndedAt
<1>2. \A n \in 1..EndedAt :
          /\ n = PlanAt <=> Script[n].op = "plan"
          /\ n = AfterAt <=> Script[n].op = "after"
          /\ n = AfterAt + 2 <=> Script[n].op = "cleanup"
  BY StageAt DEF Placed
<1>3. DOMAIN Script = 1..EndedAt
  BY Places
<1>4. PlaceOf("plan") = PlanAt
  BY <1>1, <1>2, <1>3 DEF PlaceOf
<1>5. PlaceOf("after") = AfterAt
  BY <1>1, <1>2, <1>3 DEF PlaceOf
<1>6. PlaceOf("cleanup") = AfterAt + 2
  BY <1>1, <1>2, <1>3 DEF PlaceOf
<1>7. QED
  BY <1>4, <1>5, <1>6

\* What a target's last stage is, and which target's.
LEMMA RunAt ==
    ASSUME NEW n \in (PlanAt + 1)..(AfterAt - 1)
    PROVE  /\ (n - PlanAt) % 3 = 0 <=> Script[n].op = "run"
           /\ (n - PlanAt) % 3 = 0 => Script[n].of = Targets[(n - PlanAt) \div 3]
<1>1. n - PlanAt \in 1..(3 * Len(Targets)) /\ n = PlanAt + (n - PlanAt)
  BY Lengths DEF PlanAt, AfterAt
<1>2. Script[PlanAt + (n - PlanAt)] = TargetSteps[n - PlanAt]
  BY <1>1, Places
<1>3. QED
  BY <1>1, <1>2, TargetStages

-----------------------------------------------------------------------------
(* How the gate proceeds.                                                  *)

Forward == pc' = pc + 1 /\ error' = error

Fails ==
    /\ error' = "failed"
    /\ pc' = IF PlanAt <= pc /\ pc < AfterAt THEN AfterAt ELSE AfterAt + 2

LEMMA RaiseFails == Raise => Fails
BY Landings DEF Raise, Fails, Consuming

LEMMA AdvanceForward == Advance => Forward
BY DEF Advance, Forward

\* Where each action is taken and where it leads.
LEMMA Actions ==
    ASSUME TypeInv
    PROVE  /\ Prepare => pc \in 1..2 /\ (Forward \/ Fails)
           /\ Download => pc \in 3..(Deps + 2) /\ (Forward \/ Fails)
           /\ PublishEntries => pc \in {Deps + 3, Deps + 7} /\ (Forward \/ Fails)
           /\ UpdateIndex => pc \in {Deps + 4, Deps + 8} /\ (Forward \/ Fails)
           /\ Package => pc = Deps + 5 /\ (Forward \/ Fails)
           /\ AcceptCandidate => pc = Deps + 6 /\ (Forward \/ Fails)
           /\ Add => pc = Deps + 9 /\ (Forward \/ Fails)
           /\ Before => pc = Deps + 10 /\ (Forward \/ Fails)
           /\ SourcePlan => pc = PlanAt /\ (Forward \/ Fails)
           /\ RunTarget => pc \in (PlanAt + 1)..(AfterAt - 1) /\ (Forward \/ Fails)
           /\ After => pc = AfterAt /\ ((Forward /\ Unchanged /\ error = None) \/ Fails)
           /\ Judge => pc = AfterAt + 1 /\ (Forward \/ Fails)
           /\ CleanupOwned => pc = AfterAt + 2 /\ Forward
           /\ WriteReport => pc = AfterAt + 3 /\ Forward
           /\ Client \/ Now({"toolchain"}) => pc \in 2..(AfterAt - 1)
           /\ Client => pc >= Deps + 4
<1>1. pc \in 1..EndedAt /\ Placed(pc)
  BY StageAt DEF TypeInv
<1>2. Prepare => pc \in 1..2 /\ (Forward \/ Fails)
  BY <1>1, RaiseFails, AdvanceForward DEF Prepare, Now, Placed
<1>3. Download => pc \in 3..(Deps + 2) /\ (Forward \/ Fails)
  BY <1>1, RaiseFails, AdvanceForward DEF Download, Now, Placed
<1>4. PublishEntries => pc \in {Deps + 3, Deps + 7} /\ (Forward \/ Fails)
  BY <1>1, RaiseFails, AdvanceForward DEF PublishEntries, Now, Placed
<1>5. UpdateIndex => pc \in {Deps + 4, Deps + 8} /\ (Forward \/ Fails)
  BY <1>1, RaiseFails, AdvanceForward DEF UpdateIndex, Now, Placed
<1>6. Package => pc = Deps + 5 /\ (Forward \/ Fails)
  BY <1>1, RaiseFails, AdvanceForward DEF Package, Now, Placed
<1>7. AcceptCandidate => pc = Deps + 6 /\ (Forward \/ Fails)
  BY <1>1, RaiseFails, AdvanceForward DEF AcceptCandidate, Now, Placed
<1>8. Add => pc = Deps + 9 /\ (Forward \/ Fails)
  BY <1>1, RaiseFails, AdvanceForward DEF Add, Now, Placed
<1>9. Before => pc = Deps + 10 /\ (Forward \/ Fails)
  BY <1>1, RaiseFails, AdvanceForward DEF Before, Now, Placed
<1>10. SourcePlan => pc = PlanAt /\ (Forward \/ Fails)
  BY <1>1, RaiseFails, AdvanceForward DEF SourcePlan, Now, Placed
<1>11. RunTarget => pc \in (PlanAt + 1)..(AfterAt - 1) /\ (Forward \/ Fails)
  BY <1>1, RaiseFails, AdvanceForward DEF RunTarget, Now, Placed
<1>12. After => pc = AfterAt /\ ((Forward /\ Unchanged /\ error = None) \/ Fails)
  BY <1>1, RaiseFails, AdvanceForward DEF After, Now, Placed
<1>13. Judge => pc = AfterAt + 1 /\ (Forward \/ Fails)
  BY <1>1, RaiseFails, AdvanceForward DEF Judge, Now, Placed
<1>14. CleanupOwned => pc = AfterAt + 2 /\ Forward
  BY <1>1 DEF CleanupOwned, Now, Placed, Forward
<1>15. WriteReport => pc = AfterAt + 3 /\ Forward
  BY <1>1 DEF WriteReport, Now, Placed, Forward
<1>16. Client => pc \in (Deps + 4)..(AfterAt - 1)
  BY <1>1, Lengths DEF Client, Now, Placed, PlanAt, AfterAt
<1>17. Now({"toolchain"}) => pc = 2
  BY <1>1 DEF Now, Placed
<1>18. QED
  <2>1. 2 \in 2..(AfterAt - 1) /\ (Deps + 4)..(AfterAt - 1) \subseteq 2..(AfterAt - 1)
    BY Lengths DEF PlanAt, AfterAt
  <2>2. pc \in (Deps + 4)..(AfterAt - 1) => pc >= Deps + 4
    BY Lengths
  <2>3. QED
    BY <1>2, <1>3, <1>4, <1>5, <1>6, <1>7, <1>8, <1>9, <1>10, <1>11, <1>12, <1>13,
       <1>14, <1>15, <1>16, <1>17, <2>1, <2>2, Zenon

\* The disjuncts of Next, for proofs by cases.
LEMMA NextCases ==
    ASSUME [Next]_vars
    PROVE  \/ Prepare \/ Download \/ PublishEntries \/ UpdateIndex \/ Package
           \/ AcceptCandidate \/ Add \/ Before \/ SourcePlan \/ RunTarget \/ After
           \/ Judge \/ CleanupOwned \/ WriteReport
           \/ Get \/ Tamper \/ Disown \/ UNCHANGED vars
BY Zenon DEF Next, Step

\* pc moves by one, or to one of two places, and never from the last.
LEMMA Moves ==
    ASSUME TypeInv, [Next]_vars
    PROVE  \/ pc' = pc /\ error' = error
           \/ Forward /\ pc \in 1..(AfterAt + 3)
           \/ Fails /\ pc \in 1..(AfterAt + 1)
<1>1. Get \/ Tamper \/ Disown \/ UNCHANGED vars => pc' = pc /\ error' = error
  BY DEF Get, Tamper, Disown, vars
<1>2. /\ 1..2 \subseteq 1..(AfterAt + 1) /\ 3..(Deps + 2) \subseteq 1..(AfterAt + 1)
      /\ {Deps + 3, Deps + 4, Deps + 5, Deps + 6, Deps + 7, Deps + 8, Deps + 9, Deps + 10}
            \subseteq 1..(AfterAt + 1)
      /\ PlanAt \in 1..(AfterAt + 1)
      /\ (PlanAt + 1)..(AfterAt - 1) \subseteq 1..(AfterAt + 1)
      /\ AfterAt \in 1..(AfterAt + 1) /\ AfterAt + 1 \in 1..(AfterAt + 1)
      /\ 1..(AfterAt + 1) \subseteq 1..(AfterAt + 3)
      /\ AfterAt + 2 \in 1..(AfterAt + 3) /\ AfterAt + 3 \in 1..(AfterAt + 3)
  BY Lengths DEF PlanAt, AfterAt
<1>3. CleanupOwned \/ WriteReport => Forward /\ pc \in 1..(AfterAt + 3)
  BY <1>2, Actions
<1>4. \/ Prepare \/ Download \/ PublishEntries \/ UpdateIndex \/ Package
      \/ AcceptCandidate \/ Add \/ Before \/ SourcePlan \/ RunTarget \/ After \/ Judge
      => pc \in 1..(AfterAt + 1) /\ (Forward \/ Fails)
  BY <1>2, Actions
<1>5. QED
  BY <1>1, <1>2, <1>3, <1>4, NextCases

LEMMA PlacesInBounds ==
    ASSUME TypeInv, [Next]_vars
    PROVE  pc' \in 1..EndedAt /\ error' \in {None, "failed"}
<1>1. CASE pc' = pc /\ error' = error
  BY <1>1 DEF TypeInv
<1>2. CASE Forward /\ pc \in 1..(AfterAt + 3)
  BY <1>2, Lengths DEF TypeInv, Forward, PlanAt, AfterAt, EndedAt
<1>3. CASE Fails /\ pc \in 1..(AfterAt + 1)
  BY <1>3, Lengths DEF Fails, PlanAt, AfterAt, EndedAt
<1>4. QED
  BY <1>1, <1>2, <1>3, Moves

\* The gate's registry, consumer and verdict, as far as their types go.
TypesHeld ==
    /\ index \in [committed : SUBSET Packages, client : SUBSET Packages]
    /\ events \in SUBSET [path : Paths, status : {200, 404}]
    /\ installed \in [Packages -> {None, "archive", "other"}]
    /\ temp \in {"owned", "linked", "foreign", "gone", "partial"}
    /\ report \in Reports /\ results \in Reports \cup {None} /\ exit \in {None, 0, 1}

LEMMA TypeStep == ASSUME TypeInv, [Next]_vars PROVE TypeInv'
<1>1. TypesHeld
  BY DEF TypeInv, TypesHeld
<1>2. ASSUME \/ Prepare \/ Download \/ Package \/ AcceptCandidate \/ Before \/ SourcePlan
             \/ After \/ UNCHANGED vars
      PROVE  TypesHeld'
  BY <1>1, <1>2 DEF TypesHeld, Prepare, Download, Package, AcceptCandidate, Before, SourcePlan,
     After, vars, Registry, Consumer, Verdict
<1>3. ASSUME PublishEntries PROVE TypesHeld'
  <2>1. index' \in [committed : SUBSET Packages, client : SUBSET Packages]
    BY <1>1, <1>3 DEF TypesHeld, PublishEntries, Packages
  <2>2. UNCHANGED <<events, installed, temp, report, results, exit>>
    BY <1>3 DEF PublishEntries, Consumer, Verdict
  <2>3. QED
    BY <1>1, <2>1, <2>2 DEF TypesHeld
<1>4. ASSUME UpdateIndex PROVE TypesHeld'
  BY <1>1, <1>4 DEF TypesHeld, UpdateIndex, Consumer, Verdict
<1>5. ASSUME Add PROVE TypesHeld'
  BY <1>1, <1>5 DEF TypesHeld, Add, Registry, Verdict
<1>6. ASSUME RunTarget PROVE TypesHeld'
  BY <1>1, <1>6 DEF TypesHeld, RunTarget, Registry, Consumer
<1>7. ASSUME Judge PROVE TypesHeld'
  BY <1>1, <1>7 DEF TypesHeld, Judge, Registry, Consumer, Reports
<1>8. ASSUME CleanupOwned PROVE TypesHeld'
  BY <1>1, <1>8 DEF TypesHeld, CleanupOwned, Registry, Reports
<1>9. ASSUME WriteReport PROVE TypesHeld'
  BY <1>1, <1>9 DEF TypesHeld, WriteReport, Registry, Consumer
<1>10. ASSUME Get PROVE TypesHeld'
  <2> DEFINE listed == UNION {Spellings(p) : p \in index.client}
             stray == IF "stray" \in Hazards THEN Paths ELSE {}
  <2>1. PICK path \in listed \cup stray :
            events' = events \cup {[path |-> path, status |-> IF path \in served THEN 200 ELSE 404]}
    BY <1>10 DEF Get
  <2>2. listed \subseteq Paths
    <3>1. index.client \subseteq Packages
      BY <1>1 DEF TypesHeld
    <3>2. QED
      BY <3>1 DEF Paths
  <2>a. stray \subseteq Paths
    OBVIOUS
  <2> HIDE DEF listed, stray
  <2>3. path \in Paths
    BY <2>1, <2>2, <2>a
  <2>4. events' \in SUBSET [path : Paths, status : {200, 404}]
    BY <1>1, <2>1, <2>3 DEF TypesHeld
  <2>5. UNCHANGED <<index, installed, temp, report, results, exit>>
    BY <1>10 DEF Get, Registry, Consumer, Verdict
  <2>6. QED
    BY <1>1, <2>4, <2>5 DEF TypesHeld
<1>11. ASSUME Tamper PROVE TypesHeld'
  BY <1>1, <1>11 DEF TypesHeld, Tamper, Registry, Verdict
<1>12. ASSUME Disown PROVE TypesHeld'
  BY <1>1, <1>12 DEF TypesHeld, Disown, Registry, Verdict
<1>13. TypesHeld'
  BY <1>2, <1>3, <1>4, <1>5, <1>6, <1>7, <1>8, <1>9, <1>10, <1>11, <1>12, NextCases
<1>14. QED
  BY <1>13, PlacesInBounds DEF TypeInv, TypesHeld

-----------------------------------------------------------------------------
(* The targets and what they were compiled from.                           *)

\* The set of the first n targets.
FirstTargets(n) == {Targets[i] : i \in 1..n}

LEMMA NoTargets == FirstTargets(0) = {}
BY DEF FirstTargets

LEMMA EveryTarget == FirstTargets(Len(Targets)) = AllTargets
BY ConsumerAssumption, Lengths DEF FirstTargets, AllTargets, ToSet

LEMMA OneMoreTarget ==
    ASSUME NEW n \in Nat
    PROVE  FirstTargets(n + 1) = FirstTargets(n) \cup {Targets[n + 1]}
<1>1. \A i : i \in 1..(n + 1) <=> i \in 1..n \/ i = n + 1
  OBVIOUS
<1>2. QED
  BY <1>1 DEF FirstTargets

LEMMA TargetStep == ASSUME TypeInv, TargetInv, [Next]_vars PROVE TargetInv'
<1> USE DEF TargetInv
<1>1. /\ PlanAt \in Nat /\ AfterAt \in Nat /\ AfterAt = PlanAt + 3 * Len(Targets) + 1
      /\ PlanAt + 3 < AfterAt /\ PlanAt = Deps + 11 /\ Deps \in Nat /\ pc \in Nat
      /\ pc' \in Nat
  BY Lengths, PlacesInBounds DEF PlanAt, AfterAt, TypeInv
<1>2. CASE RunTarget
  <2>1. pc > PlanAt /\ pc < AfterAt /\ error = None
    BY <1>1, <1>2, Actions
  <2>2. installed' = installed /\ (Unchanged' <=> Unchanged)
    BY <1>2 DEF RunTarget, Consumer, Unchanged
  <2>3. CASE Raise /\ UNCHANGED <<compiled, passed>>
    <3>1. pc' = AfterAt /\ error' = "failed" /\ error' # None
      BY <1>1, <2>1, <2>3, RaiseFails, NoneAssumption DEF Fails
    <3>2. compiled' \subseteq {"archive"} \/ ~Unchanged'
      BY <1>1, <2>1, <2>2, <2>3
    <3>3. QED
      BY <1>1, <3>1, <3>2
  <2>4. CASE /\ compiled' = compiled \cup {installed[p] : p \in Packages}
             /\ passed' = IF Now({"run"}) THEN passed \cup {Script[pc].of} ELSE passed
             /\ Advance
    <3>1. pc' = pc + 1 /\ error' = None
      BY <2>1, <2>4 DEF Advance
    <3>2. compiled' # {}
      BY <2>4 DEF Packages
    <3>3. Unchanged => {installed[p] : p \in Packages} = {"archive"}
      BY DEF Unchanged, Packages
    <3>a. compiled \subseteq {"archive"} \/ ~Unchanged
      BY <1>1, <2>1
    <3>4. compiled' \subseteq {"archive"} \/ ~Unchanged'
      BY <2>2, <2>4, <3>3, <3>a
    <3> DEFINE k == pc - PlanAt
    <3>5. /\ k \in Nat /\ (k - 1) \div 3 \in Nat
          /\ k % 3 = 0 => k \div 3 = ((k - 1) \div 3) + 1
          /\ k % 3 # 0 => k \div 3 = (k - 1) \div 3
      BY <1>1, <2>1
    <3>6. /\ Now({"run"}) <=> k % 3 = 0
          /\ k % 3 = 0 => Script[pc].of = Targets[k \div 3]
      BY <1>1, <2>1, RunAt DEF Now
    <3>7. passed = FirstTargets((k - 1) \div 3)
      BY <1>1, <2>1 DEF FirstTargets
    <3> HIDE DEF k
    <3>8. passed' = FirstTargets(k \div 3)
      BY <2>4, <3>5, <3>6, <3>7, OneMoreTarget
    <3>9. pc' - PlanAt - 1 = k
      BY <1>1, <3>1 DEF k
    <3>10. passed' = {Targets[i] : i \in 1..((pc' - PlanAt - 1) \div 3)}
      BY <3>8, <3>9 DEF FirstTargets
    <3>11. pc' > PlanAt + 1 /\ pc' <= AfterAt
      BY <1>1, <2>1, <3>1
    <3>12. QED
      BY <1>1, <3>1, <3>2, <3>4, <3>10, <3>11
  <2>5. QED
    BY <1>2, <2>3, <2>4 DEF RunTarget
<1>3. CASE After
  <2>1. pc = AfterAt /\ UNCHANGED <<passed, compiled>>
    BY <1>3, Actions DEF After, Verdict
  <2>2. CASE Fails
    <3>1. pc' = AfterAt + 2
      BY <1>1, <2>1, <2>2 DEF Fails
    <3>2. ~(pc' < AfterAt) /\ pc' # AfterAt + 1 /\ ~(pc' <= PlanAt) /\ ~(pc' <= AfterAt)
      BY <1>1, <3>1
    <3>3. QED
      BY <3>2, Zenon
  <2>3. CASE Forward /\ Unchanged /\ error = None
    <3>1. (pc - PlanAt - 1) \div 3 = Len(Targets)
      <4>1. pc - PlanAt - 1 = 3 * Len(Targets)
        BY <1>1, <2>1, Lengths
      <4>2. (3 * Len(Targets)) \div 3 = Len(Targets)
        BY Lengths
      <4>3. QED
        BY <4>1, <4>2
    <3>a. pc > PlanAt /\ pc <= AfterAt /\ error = None
      BY <1>1, <2>1, <2>3
    <3>b. passed = FirstTargets((pc - PlanAt - 1) \div 3)
      BY <3>a DEF FirstTargets
    <3>2. passed = AllTargets
      BY <3>1, <3>b, EveryTarget
    <3>3. compiled = {"archive"}
      BY <1>1, <2>1, <2>3
    <3>4. QED
      BY <1>1, <2>1, <2>3, <3>2, <3>3 DEF Forward
  <2>4. QED
    BY <1>3, <2>2, <2>3, Actions
<1>4. CASE Tamper
  <2>1. UNCHANGED <<pc, error, passed, compiled>>
    BY <1>4 DEF Tamper, Verdict
  <2>2. ~Unchanged'
    BY <1>4 DEF Tamper, Unchanged, TypeInv
  <2>3. QED
    BY <2>1, <2>2
<1>5. CASE Get \/ Disown \/ UNCHANGED vars
  <2>1. UNCHANGED <<pc, error, passed, compiled, installed>>
    BY <1>5 DEF Get, Disown, Verdict, Consumer, vars
  <2>2. QED
    BY <2>1 DEF Unchanged
<1>6. CASE Judge \/ CleanupOwned \/ WriteReport
  <2>1. pc' > AfterAt + 1
    BY <1>1, <1>6, Actions DEF Forward, Fails
  <2>2. ~(pc' < AfterAt) /\ pc' # AfterAt + 1 /\ ~(pc' <= PlanAt) /\ ~(pc' <= AfterAt)
    BY <1>1, <2>1
  <2>3. QED
    BY <2>2, Zenon
<1>7. CASE \/ Prepare \/ Download \/ PublishEntries \/ UpdateIndex \/ Package
           \/ AcceptCandidate \/ Add \/ Before \/ SourcePlan
  <2>1. UNCHANGED <<passed, compiled>>
    BY <1>7 DEF Prepare, Download, PublishEntries, UpdateIndex, Package, AcceptCandidate, Add,
       Before, SourcePlan, Verdict
  <2>2. pc <= PlanAt /\ (Forward \/ Fails)
    <3>1. Forward \/ Fails
      BY <1>7, Actions, Zenon
    <3>2. \/ pc \in 1..2 \/ pc \in 3..(Deps + 2) \/ pc \in {Deps + 3, Deps + 7}
          \/ pc \in {Deps + 4, Deps + 8} \/ pc = Deps + 5 \/ pc = Deps + 6 \/ pc = Deps + 9
          \/ pc = Deps + 10 \/ pc = PlanAt
      BY <1>7, Actions, Zenon
    <3>3. QED
      BY <1>1, <3>1, <3>2
  <2>3. error = None /\ passed = {} /\ compiled = {}
    BY <1>1, <2>2
  <2>4. CASE Fails
    <3>1. (pc' = AfterAt \/ pc' = AfterAt + 2) /\ error' # None
      BY <1>1, <2>4, NoneAssumption DEF Fails
    <3>2. compiled' = {}
      BY <2>1, <2>3
    <3>3. ~(pc' < AfterAt) /\ pc' # AfterAt + 1 /\ ~(pc' <= PlanAt)
      BY <1>1, <3>1
    <3>4. QED
      BY <3>1, <3>2, <3>3
  <2>5. CASE Forward /\ pc < PlanAt
    BY <1>1, <2>1, <2>3, <2>5 DEF Forward
  <2>6. CASE Forward /\ pc = PlanAt
    <3>1. pc' = PlanAt + 1 /\ (pc' - PlanAt - 1) \div 3 = 0
      BY <1>1, <2>6 DEF Forward
    <3>2. passed' = {Targets[i] : i \in 1..((pc' - PlanAt - 1) \div 3)}
      BY <2>1, <2>3, <3>1, NoTargets DEF FirstTargets
    <3>3. error' = None /\ compiled' = {}
      BY <2>1, <2>3, <2>6 DEF Forward
    <3>4. pc' <= AfterAt /\ pc' # AfterAt + 1 /\ ~(pc' <= PlanAt)
      BY <1>1, <3>1
    <3>5. QED
      BY <1>1, <3>1, <3>2, <3>3, <3>4
  <2>7. QED
    BY <1>1, <2>2, <2>4, <2>5, <2>6
<1>8. QED
  BY <1>2, <1>3, <1>4, <1>5, <1>6, <1>7, NextCases

-----------------------------------------------------------------------------
(* The registry and its clients.                                           *)

LEMMA ServedStep == ASSUME TypeInv, ServedInv, [Next]_vars PROVE ServedInv'
<1>1. /\ AfterAt \in Nat /\ Deps \in Nat /\ PlanAt = Deps + 11 /\ AfterAt > PlanAt + 3
      /\ pc \in Nat /\ pc' \in Nat
  BY Lengths, PlacesInBounds DEF PlanAt, AfterAt, TypeInv
<1> DEFINE Registered ==
               /\ index.client \subseteq index.committed
               /\ \A p \in index.committed : Spellings(p) \subseteq served
           Ready(n) == n >= Deps + 4 /\ n < AfterAt
           NoRefusal == \A p \in Dependencies : \A path \in Spellings(p) :
                            [path |-> path, status |-> 404] \notin events
           AllServed == \A p \in Dependencies : Spellings(p) \subseteq served
<1>2. Registered /\ (Ready(pc) => AllServed) /\ NoRefusal
  BY DEF ServedInv
<1>3. CASE PublishEntries
  <2> DEFINE packages == IF Now({"index"}) THEN Dependencies ELSE {Candidate}
  <2>1. /\ served' = served \cup UNION {Routes(p) : p \in packages}
        /\ \/ index' = [index EXCEPT !.committed = @ \cup packages]
           \/ index' = index
        /\ events' = events
    BY <1>3 DEF PublishEntries
  <2>2. index \in [committed : SUBSET Packages, client : SUBSET Packages]
    BY DEF TypeInv
  <2>3. \A p \in packages : Spellings(p) \subseteq served'
    BY <2>1 DEF Routes, Spellings
  <2>4. Registered'
    <3> HIDE DEF packages
    <3>1. index'.client = index.client /\ index'.committed \subseteq index.committed \cup packages
          /\ index.committed \subseteq index'.committed
      BY <2>1, <2>2
    <3>2. served \subseteq served'
      BY <2>1
    <3>3. QED
      BY <1>2, <2>3, <3>1, <3>2
  <2>5. NoRefusal'
    BY <1>2, <2>1
  <2>6. Ready(pc') => AllServed'
    <3>1. CASE Now({"index"})
      BY <2>3, <3>1
    <3>2. CASE ~Now({"index"})
      <4>1. Ready(pc)
        <5>1. pc \in 1..EndedAt /\ Placed(pc)
          BY StageAt DEF TypeInv
        <5>2. pc = Deps + 7
          BY <1>3, <5>1, <3>2, Actions DEF Now, Placed
        <5>3. QED
          BY <1>1, <5>2
      <4>2. QED
        BY <1>2, <2>1, <4>1
    <3>3. QED
      BY <3>1, <3>2
  <2>7. QED
    BY <2>4, <2>5, <2>6 DEF ServedInv
<1>4. ASSUME ~PublishEntries PROVE Ready(pc') => AllServed'
  <2>1. served' = served
    BY <1>4, NextCases DEF Prepare, Download, UpdateIndex, Package, AcceptCandidate, Add, Before,
       SourcePlan, RunTarget, After, Judge, CleanupOwned, WriteReport, Get, Tamper, Disown, vars,
       Registry
  <2>2. Ready(pc') => Ready(pc)
    <3>1. CASE pc' = pc
      BY <3>1
    <3>2. CASE Fails
      BY <1>1, <3>2 DEF Fails
    <3>3. CASE Forward
      <4>1. SUFFICES ASSUME pc = Deps + 3 PROVE FALSE
        BY <1>1, <3>3 DEF Forward
      <4>2. ~(Get \/ Tamper \/ Disown \/ UNCHANGED vars)
        BY <1>1, <3>3 DEF Forward, Get, Tamper, Disown, vars
      <4>3. QED
        BY <1>1, <1>4, <4>1, <4>2, NextCases, Actions
    <3>4. QED
      BY <3>1, <3>2, <3>3, Moves
  <2>3. QED
    BY <1>2, <2>1, <2>2
<1>5. CASE UpdateIndex
  <2>1. served' = served /\ events' = events /\ index'.committed = index.committed
        /\ (index'.client = index.committed \/ index'.client = index.client)
    BY <1>5 DEF UpdateIndex, TypeInv
  <2>2. ~PublishEntries
    BY <1>1, <1>5, Actions
  <2>3. QED
    BY <1>2, <1>4, <2>1, <2>2 DEF ServedInv
<1>6. CASE Get
  <2>1. UNCHANGED <<pc, index, served>>
    BY <1>6 DEF Get, Registry
  <2>2. AllServed
    BY <1>1, <1>2, <1>6, Actions DEF Get
  <2>3. NoRefusal'
    <3>1. PICK path : events' = events \cup
              {[path |-> path, status |-> IF path \in served THEN 200 ELSE 404]}
      BY <1>6 DEF Get
    <3>2. SUFFICES ASSUME NEW p \in Dependencies, NEW q \in Spellings(p),
                          [path |-> q, status |-> 404] \in events'
                   PROVE  FALSE
      OBVIOUS
    <3>3. q \in served /\ [path |-> q, status |-> 404] \notin events
      BY <1>2, <2>2
    <3>4. [path |-> q, status |-> 404] = [path |-> path, status |-> IF path \in served THEN 200 ELSE 404]
      BY <3>1, <3>2, <3>3
    <3>5. q = path /\ path \notin served
      BY <3>4
    <3>6. QED
      BY <3>3, <3>5
  <2>4. QED
    BY <1>2, <2>1, <2>3 DEF ServedInv
<1>7. CASE \/ Prepare \/ Download \/ Package \/ AcceptCandidate \/ Add \/ Before \/ SourcePlan
           \/ RunTarget \/ After \/ Judge \/ CleanupOwned \/ WriteReport \/ Tamper \/ Disown
           \/ UNCHANGED vars
  <2>1. UNCHANGED <<index, served, events>>
    BY <1>7 DEF Prepare, Download, Package, AcceptCandidate, Add, Before,
       SourcePlan, RunTarget, After, Judge, CleanupOwned, WriteReport, Tamper, Disown, vars,
       Registry
  <2>2. QED
    <3>1. CASE PublishEntries
      BY <1>3, <3>1
    <3>2. CASE ~PublishEntries
      BY <1>2, <1>4, <2>1, <3>2 DEF ServedInv
    <3>3. QED
      BY <3>1, <3>2
<1>8. QED
  BY <1>3, <1>5, <1>6, <1>7, NextCases

-----------------------------------------------------------------------------
(* The verdict and the report.                                             *)

\* What the fetches are when they are as allowed.
LEMMA AllowedFetches ==
    ASSUME FetchesAsAllowed, events \in SUBSET [path : Paths, status : {200, 404}]
    PROVE  /\ \A p \in Packages : \E e \in events : e.path \in Spellings(p) /\ e.status = 200
           /\ \A e \in events : e.path[2] \in Packages /\ e.status = 200
<1>1. \A e \in events :
          \/ \E q \in Packages :
                e.path \in Spellings(q) /\ CanonicalArchivePath(e.path) = q /\ e.path[2] = q
          \/ CanonicalArchivePath(e.path) = None
  <2>1. SUFFICES ASSUME NEW e \in events
                 PROVE  \/ \E q \in Packages :
                              e.path \in Spellings(q) /\ CanonicalArchivePath(e.path) = q /\ e.path[2] = q
                        \/ CanonicalArchivePath(e.path) = None
    OBVIOUS
  <2>2. e.path \in Paths
    OBVIOUS
  <2>3. CASE e.path = <<"other", None>>
    BY <2>3 DEF CanonicalArchivePath
  <2>4. ASSUME NEW q \in Packages, e.path \in Spellings(q)
        PROVE  CanonicalArchivePath(e.path) = q /\ e.path[2] = q
    <3>1. \/ e.path = <<"canonical", q>> \/ e.path = <<"legacy", q>>
      BY <2>4 DEF Spellings
    <3>2. QED
      BY <3>1 DEF CanonicalArchivePath
  <2>5. QED
    BY <2>2, <2>3, <2>4 DEF Paths
<1>2. None \notin Packages
  BY ConsumerAssumption
<1>3. \A e \in events : e.status = 200 /\ CanonicalArchivePath(e.path) \in Packages
  BY DEF FetchesAsAllowed, Fetched
<1>4. \A p \in Packages : \E e \in events : e.status = 200 /\ CanonicalArchivePath(e.path) = p
  BY DEF FetchesAsAllowed, Fetched
<1>5. \A p \in Packages : \E e \in events : e.path \in Spellings(p) /\ e.status = 200
  <2>1. SUFFICES ASSUME NEW p \in Packages
                 PROVE  \E e \in events : e.path \in Spellings(p) /\ e.status = 200
    OBVIOUS
  <2>2. PICK e \in events : e.status = 200 /\ CanonicalArchivePath(e.path) = p
    BY <1>4
  <2>3. QED
    BY <1>1, <1>2, <2>2
<1>6. \A e \in events : e.path[2] \in Packages /\ e.status = 200
  BY <1>1, <1>2, <1>3
<1>7. QED
  BY <1>5, <1>6

LEMMA VerdictStep == ASSUME TypeInv, TargetInv, VerdictInv, [Next]_vars PROVE VerdictInv'
<1>1. /\ AfterAt \in Nat /\ EndedAt = AfterAt + 4 /\ PlanAt \in Nat /\ AfterAt > PlanAt + 3
      /\ Deps \in Nat /\ PlanAt = Deps + 11 /\ pc \in Nat /\ pc' \in Nat
  BY Lengths, PlacesInBounds DEF PlanAt, AfterAt, EndedAt, TypeInv
<1>2. CASE UNCHANGED vars
  BY <1>2 DEF vars, VerdictInv, GoIsEarned
<1>3. CASE \/ Prepare \/ Download \/ PublishEntries \/ UpdateIndex \/ Package
           \/ AcceptCandidate \/ Add \/ Before \/ SourcePlan \/ RunTarget \/ After
           \/ Get \/ Tamper \/ Disown
  <2>1. pc <= AfterAt
    BY <1>1, <1>3, Actions DEF Get, Tamper, Disown
  <2>2. pc' <= AfterAt + 2
    BY <1>1, <2>1, Moves DEF Forward, Fails
  <2>3. UNCHANGED <<report, results, exit>>
    BY <1>3 DEF Prepare, Download, PublishEntries, UpdateIndex, Package, AcceptCandidate, Add,
       Before, SourcePlan, RunTarget, After, Get, Tamper, Disown, Verdict
  <2>4. temp' = temp \/ temp' \in {"linked", "foreign"}
    BY <1>3 DEF Prepare, Download, PublishEntries, UpdateIndex, Package, AcceptCandidate, Add,
       Before, SourcePlan, RunTarget, After, Get, Tamper, Disown, Consumer
  <2>5. /\ report.status = "NO_GO" /\ temp # "gone" /\ report.temporary_cleanup = None
        /\ results = None /\ exit = None
    BY <1>1, <2>1 DEF VerdictInv
  <2>6. /\ report'.status = "NO_GO" /\ temp' # "gone" /\ report'.temporary_cleanup = None
        /\ results' = None /\ exit' = None
    BY <2>3, <2>4, <2>5
  <2>7. ~(pc' >= AfterAt + 3) /\ pc' # EndedAt
    BY <1>1, <2>2
  <2>8. GoIsEarned'
    BY <2>6 DEF GoIsEarned
  <2>9. QED
    BY <2>6, <2>7, <2>8 DEF VerdictInv
<1>4. CASE Judge
  <2>1. pc = AfterAt + 1 /\ pc' = AfterAt + 2
    BY <1>1, <1>4, Actions DEF Forward, Fails
  <2>2. /\ report.status = "NO_GO" /\ temp # "gone" /\ report.temporary_cleanup = None
        /\ results = None /\ exit = None
    BY <1>1, <2>1 DEF VerdictInv
  <2>3. UNCHANGED <<temp, results, exit, passed, compiled, events>>
    BY <1>4 DEF Judge, Consumer
  <2>4. report'.temporary_cleanup = None
    BY <1>4, <2>2 DEF Judge, TypeInv, Reports
  <2>5. GoIsEarned'
    <3>1. CASE FetchesAsAllowed
      BY <2>1, <2>3, <3>1, AllowedFetches DEF GoIsEarned, TypeInv, TargetInv
    <3>2. CASE ~FetchesAsAllowed
      BY <1>4, <2>2, <3>2 DEF Judge, GoIsEarned
    <3>3. QED
      BY <3>1, <3>2
  <2>6. ~(pc' <= AfterAt + 1) /\ ~(pc' >= AfterAt + 3) /\ pc' # EndedAt
    BY <1>1, <2>1
  <2>7. QED
    BY <2>2, <2>3, <2>4, <2>5, <2>6 DEF VerdictInv
<1>5. CASE CleanupOwned
  <2>1. pc = AfterAt + 2 /\ pc' = AfterAt + 3
    BY <1>1, <1>5, Actions DEF Forward
  <2>2. temp # "gone" /\ report.temporary_cleanup = None /\ results = None /\ exit = None
    BY <1>1, <2>1 DEF VerdictInv
  <2>3. UNCHANGED <<results, exit, passed, compiled, events>>
    BY <1>5 DEF CleanupOwned
  <2>4. /\ report'.temporary_cleanup = "GO" <=> temp' = "gone"
        /\ report'.status = "GO" => temp' = "gone" /\ report.status = "GO"
    <3>1. None # "GO"
      BY NoneAssumption
    <3>2. CASE temp' = "gone"
      BY <1>5, <3>2 DEF CleanupOwned, TypeInv, Reports
    <3>3. CASE temp' # "gone"
      BY <1>5, <2>2, <3>1, <3>3 DEF CleanupOwned, TypeInv, Reports
    <3>4. QED
      BY <3>2, <3>3
  <2>5. GoIsEarned'
    BY <2>3, <2>4 DEF VerdictInv, GoIsEarned
  <2>6. ~(pc' <= AfterAt + 1) /\ ~(pc' <= AfterAt + 2) /\ pc' # EndedAt
    BY <1>1, <2>1
  <2>7. QED
    BY <2>2, <2>3, <2>4, <2>5, <2>6 DEF VerdictInv
<1>6. CASE WriteReport
  <2>1. pc = AfterAt + 3 /\ pc' = EndedAt
    BY <1>1, <1>6, Actions DEF Forward
  <2>2. UNCHANGED <<report, temp, passed, compiled, events>>
    BY <1>6 DEF WriteReport, Consumer
  <2>3. results = None
    BY <1>1, <2>1 DEF VerdictInv
  <2>4. \/ results' = report' /\ exit' = IF report'.status = "GO" THEN 0 ELSE 1
        \/ results' = None /\ exit' = 1
    BY <1>6, <2>2, <2>3 DEF WriteReport
  <2>5. GoIsEarned'
    BY <2>2 DEF VerdictInv, GoIsEarned
  <2>6. /\ report'.temporary_cleanup = "GO" <=> temp' = "gone"
        /\ report'.status = "GO" => temp' = "gone"
    BY <1>1, <2>1, <2>2 DEF VerdictInv
  <2>7. ~(pc' <= AfterAt + 1) /\ ~(pc' <= AfterAt + 2) /\ ~(pc' < EndedAt)
    BY <1>1, <2>1
  <2>8. QED
    BY <2>4, <2>5, <2>6, <2>7, Zenon DEF VerdictInv
<1>7. QED
  BY <1>2, <1>3, <1>4, <1>5, <1>6, NextCases

-----------------------------------------------------------------------------
(* Induction on numbers, and folds over sequences.                         *)

Lt == {ss \in Nat \X Nat : ss[1] < ss[2]}

\* A set with 0 and with the successor of each of its numbers has all numbers:
\* a least number that it has not would be neither.
LEMMA InductSet ==
  ASSUME NEW P, 0 \in P, \A n \in Nat : n \in P => n + 1 \in P
  PROVE  Nat \subseteq P
<1> SUFFICES ASSUME Nat \ P # {} PROVE FALSE
  OBVIOUS
<1>1. OpToRel(<, Nat) = Lt
  BY DEF OpToRel, Lt
<1>2. \E x \in Nat \ P : \A y \in Nat \ P : ~ (<<y, x>> \in Lt)
  BY <1>1, NatLessThanWellFounded, WFMin
<1>3. PICK x \in Nat \ P : \A y \in Nat \ P : ~ (<<y, x>> \in Lt)
  BY <1>2
<1>4. x # 0 /\ x - 1 \in Nat /\ (x - 1) + 1 = x
  BY <1>3
<1>5. <<x - 1, x>> \in Lt
  BY <1>3, <1>4 DEF Lt
<1>6. x - 1 \in P
  BY <1>3, <1>4, <1>5
<1> QED BY <1>3, <1>4, <1>6

\* The two steps that are folded: a part of a path, a member of an archive.
FoldStep(what, done, next) ==
    IF what = "path" THEN Enter(done, next) ELSE Extract(done, next)

\* What a fold has after the elements of s, from what it has without the last.
Folding(what, g, start, xs, s) ==
    IF s = {} THEN start ELSE FoldStep(what, g[s \ {Max(s)}], xs[Max(s)])

IsFolding(what, g, start, xs, N) ==
    g = [s \in SUBSET (1..N) |-> Folding(what, g, start, xs, s)]

\* The largest of the first numbers is the last one.
LEMMA MaxFacts ==
  ASSUME NEW n \in Nat, NEW s \in SUBSET (1..n), n \in s
  PROVE  Max(s) = n
<1>1. \E x \in s : \A y \in s : x >= y OBVIOUS
<1>2. Max(s) \in s /\ \A y \in s : Max(s) >= y BY <1>1 DEF Max
<1>3. Max(s) \in 1..n /\ Max(s) >= n BY <1>2
<1> QED BY <1>3

\* The function that is folded with exists.
LEMMA FoldingExists ==
  ASSUME NEW what, NEW start, NEW xs, NEW N \in Nat
  PROVE  \E g : IsFolding(what, g, start, xs, N)
<1> DEFINE P == {n \in Nat : \E g : g = [s \in SUBSET (1..n) |-> Folding(what, g, start, xs, s)]}
<1>1. 0 \in P
  <2> DEFINE g == [s \in SUBSET (1..0) |-> start]
  <2>1. \A s \in SUBSET (1..0) : s = {} OBVIOUS
  <2>2. g = [s \in SUBSET (1..0) |-> Folding(what, g, start, xs, s)]
    BY <2>1 DEF Folding
  <2> HIDE DEF g
  <2>3. \E k : k = [s \in SUBSET (1..0) |-> Folding(what, k, start, xs, s)] BY <2>2
  <2> QED BY <2>3, Zenon
<1>2. ASSUME NEW n \in Nat, n \in P PROVE n + 1 \in P
  <2>1. PICK g : g = [s \in SUBSET (1..n) |-> Folding(what, g, start, xs, s)]
    BY <1>2
  <2> DEFINE h == [s \in SUBSET (1..(n + 1)) |->
                     IF s \in SUBSET (1..n) THEN g[s] ELSE Folding(what, g, start, xs, s)]
  <2>2. h = [s \in SUBSET (1..(n + 1)) |-> Folding(what, h, start, xs, s)]
    <3> SUFFICES ASSUME NEW s \in SUBSET (1..(n + 1)) PROVE h[s] = Folding(what, h, start, xs, s)
      BY Zenon
    <3>0. SUBSET (1..n) \subseteq SUBSET (1..(n + 1)) OBVIOUS
    <3>1. CASE s \in SUBSET (1..n)
      <4>1. h[s] = g[s] BY <3>1
      <4>2. g[s] = Folding(what, g, start, xs, s) BY <2>1, <3>1
      <4>3. s \ {Max(s)} \in SUBSET (1..n) BY <3>1
      <4>4. h[s \ {Max(s)}] = g[s \ {Max(s)}] BY <4>3, <3>0
      <4> QED BY <4>1, <4>2, <4>4 DEF Folding
    <3>2. CASE s \notin SUBSET (1..n)
      <4>1. n + 1 \in s BY <3>2
      <4>2. Max(s) = n + 1 BY <4>1, MaxFacts
      <4>3. s \ {Max(s)} \in SUBSET (1..n) BY <4>2
      <4>4. h[s \ {Max(s)}] = g[s \ {Max(s)}] BY <4>3, <3>0
      <4>5. h[s] = Folding(what, g, start, xs, s) BY <3>2
      <4> QED BY <4>4, <4>5 DEF Folding
    <3> QED BY <3>1, <3>2
  <2> HIDE DEF h
  <2>3. \E k : k = [s \in SUBSET (1..(n + 1)) |-> Folding(what, k, start, xs, s)] BY <2>2
  <2>4. n + 1 \in Nat OBVIOUS
  <2> QED BY <2>3, <2>4, Zenon
<1> HIDE DEF P
<1>3. N \in P BY <1>1, <1>2, InductSet
<1> QED BY <1>3, Zenon DEF P, IsFolding

\* What the fold of all elements is, if its function is f.
LEMMA FoldSteps ==
  ASSUME NEW what, NEW start, NEW xs, NEW N \in Nat, NEW f,
         IsFolding(what, f, start, xs, N)
  PROVE  /\ f[1..0] = start
         /\ \A i \in 1..N : f[1..i] = FoldStep(what, f[1..(i - 1)], xs[i])
<1>0. f = [s \in SUBSET (1..N) |-> Folding(what, f, start, xs, s)]
  BY Zenon DEF IsFolding
<1>1. f[1..0] = start
  <2>1. 1..0 = {} /\ {} \in SUBSET (1..N) OBVIOUS
  <2> QED BY <1>0, <2>1 DEF Folding
<1>2. ASSUME NEW i \in 1..N PROVE f[1..i] = FoldStep(what, f[1..(i - 1)], xs[i])
  <2>1. i \in 1..i /\ 1..i \in SUBSET (1..N) /\ 1..i # {} /\ i \in Nat
    <3>1. i \in Nat /\ i <= N /\ i >= 1 OBVIOUS
    <3>2. ASSUME NEW j \in 1..i PROVE j \in 1..N BY <3>1
    <3> QED BY <3>1, <3>2
  <2>2. Max(1..i) = i BY <2>1, MaxFacts
  <2>3. (1..i) \ {i} = 1..(i - 1) BY <2>1
  <2>4. f[1..i] = Folding(what, f, start, xs, 1..i) BY <1>0, <2>1
  <2> QED BY <2>1, <2>2, <2>3, <2>4 DEF Folding
<1> QED BY <1>1, <1>2

\* The places on the way of a path.
LEMMA PathFold ==
  ASSUME NEW path \in Seq(Parts)
  PROVE  \E h : /\ h[0] = <<>> /\ h[Len(path)] = FoldLeft(Enter, <<>>, path)
                /\ \A i \in 1..Len(path) : h[i] = Enter(h[i - 1], path[i])
<1> DEFINE N == Len(path)
<1>0. N \in Nat /\ DOMAIN path = 1..N OBVIOUS
<1> DEFINE f == CHOOSE g : g = [s \in SUBSET (1..N) |->
                     IF s = {} THEN <<>> ELSE Enter(g[s \ {Max(s)}], path[Max(s)])]
<1>1. f = [s \in SUBSET (1..N) |->
                     IF s = {} THEN <<>> ELSE Enter(f[s \ {Max(s)}], path[Max(s)])]
  <2>1. PICK g : IsFolding("path", g, <<>>, path, N)
    BY <1>0, FoldingExists
  <2>2. g = [s \in SUBSET (1..N) |->
                     IF s = {} THEN <<>> ELSE Enter(g[s \ {Max(s)}], path[Max(s)])]
    BY <2>1, Zenon DEF IsFolding, Folding, FoldStep
  <2> QED BY <2>2, Zenon
<1>2. FoldLeft(Enter, <<>>, path) = f[1..N]
  BY <1>0 DEF FoldLeft, MapThenFoldSet
<1> HIDE DEF f
<1>3. IsFolding("path", f, <<>>, path, N)
  BY <1>1, Zenon DEF IsFolding, Folding, FoldStep
<1>4. /\ f[1..0] = <<>>
      /\ \A i \in 1..N : f[1..i] = FoldStep("path", f[1..(i - 1)], path[i])
  BY <1>0, <1>3, FoldSteps
<1> DEFINE h == [i \in 0..N |-> f[1..i]]
<1>5. h[0] = <<>> /\ h[N] = FoldLeft(Enter, <<>>, path)
  BY <1>0, <1>2, <1>4
<1>6. \A i \in 1..N : h[i] = Enter(h[i - 1], path[i])
  <2> TAKE i \in 1..N
  <2>1. h[i] = f[1..i] /\ h[i - 1] = f[1..(i - 1)] BY <1>0
  <2> QED BY <2>1, <1>4 DEF FoldStep
<1> HIDE DEF h
<1> QED BY <1>5, <1>6

\* The trees on the way of an archive.
LEMMA UnpackFold ==
  ASSUME NEW members, members \in Seq(ToSet(members))
  PROVE  \E h : /\ h[0] = EmptyTree /\ h[Len(members)] = Unpack(members)
                /\ \A i \in 1..Len(members) : h[i] = Extract(h[i - 1], members[i])
<1> DEFINE N == Len(members)
<1>0. N \in Nat /\ DOMAIN members = 1..N OBVIOUS
<1> DEFINE f == CHOOSE g : g = [s \in SUBSET (1..N) |->
                     IF s = {} THEN EmptyTree ELSE Extract(g[s \ {Max(s)}], members[Max(s)])]
<1>1. f = [s \in SUBSET (1..N) |->
                     IF s = {} THEN EmptyTree ELSE Extract(f[s \ {Max(s)}], members[Max(s)])]
  <2>1. PICK g : IsFolding("archive", g, EmptyTree, members, N)
    BY <1>0, FoldingExists
  <2>0. "archive" # "path" OBVIOUS
  <2>2. g = [s \in SUBSET (1..N) |->
                     IF s = {} THEN EmptyTree ELSE Extract(g[s \ {Max(s)}], members[Max(s)])]
    BY <2>0, <2>1, Zenon DEF IsFolding, Folding, FoldStep
  <2> QED BY <2>2, Zenon
<1>2. Unpack(members) = f[1..N]
  BY <1>0 DEF Unpack, FoldLeft, MapThenFoldSet
<1> HIDE DEF f
<1>3. IsFolding("archive", f, EmptyTree, members, N)
  <2>0. "archive" # "path" OBVIOUS
  <2> QED BY <2>0, <1>1, Zenon DEF IsFolding, Folding, FoldStep
<1>4. /\ f[1..0] = EmptyTree
      /\ \A i \in 1..N : f[1..i] = FoldStep("archive", f[1..(i - 1)], members[i])
  BY <1>0, <1>3, FoldSteps
<1> DEFINE h == [i \in 0..N |-> f[1..i]]
<1>5. h[0] = EmptyTree /\ h[N] = Unpack(members)
  BY <1>0, <1>2, <1>4
<1>6. \A i \in 1..N : h[i] = Extract(h[i - 1], members[i])
  <2> TAKE i \in 1..N
  <2>1. h[i] = f[1..i] /\ h[i - 1] = f[1..(i - 1)] BY <1>0
  <2>2. "archive" # "path" OBVIOUS
  <2> QED BY <2>1, <2>2, <1>4 DEF FoldStep
<1> HIDE DEF h
<1> QED BY <1>5, <1>6

-----------------------------------------------------------------------------
(* What unpacking does with accepted members.                              *)

\* A part that is nothing special, in a spelling without cases neither.
IsPlain(part) ==
    part \in Parts /\ part \notin {"", ".", ".."} /\ FoldOf[part] # ".."

\* Such a part leads one level down.
LEMMA EnterPlain ==
  ASSUME NEW place, place # Outside, NEW part, IsPlain(part)
  PROVE  Enter(place, part) = Append(place, FoldOf[part])
<1>1. part # ".." /\ part \notin {"", "."}
  BY Zenon DEF IsPlain
<1> QED BY <1>1, Zenon DEF Enter

\* Outside is no list that is empty or begins with a plain part.
LEMMA OutsideFacts ==
    Len(Outside) = 1 /\ \A part : IsPlain(part) => FoldOf[part] # Outside[1]
<1>1. \A x : Len(<<x>>) = 1 /\ <<x>>[1] = x
  OBVIOUS
<1>2. Len(Outside) = 1 /\ Outside[1] = ".."
  BY <1>1, Zenon DEF Outside
<1> QED BY <1>2, Zenon DEF IsPlain

\* The places on the way of a path of plain parts.
Begins(path, i) == [n \in 1..i |-> FoldOf[path[n]]]

\* Such a place is one part longer than the one before.
LEMMA BeginsFacts ==
  ASSUME NEW path, NEW N \in Nat, \A n \in 1..N : IsPlain(path[n]), NEW i \in Nat, i <= N
  PROVE  /\ Begins(path, i) # Outside
         /\ i < N => Enter(Begins(path, i), path[i + 1]) = Begins(path, i + 1)
<1> DEFINE Folded == {FoldOf[part] : part \in Parts}
<1>1. \A n \in 1..N : FoldOf[path[n]] \in Folded
  BY Zenon DEF IsPlain
<1> HIDE DEF Folded
<1>2. \A n \in 1..i : n \in 1..N
  OBVIOUS
<1>3. Begins(path, i) \in Seq(Folded) /\ Len(Begins(path, i)) = i
  BY <1>1, <1>2 DEF Begins
<1>4. Begins(path, i) # Outside
  <2>1. CASE i = 0
    BY <1>3, <2>1, OutsideFacts
  <2>2. CASE i # 0
    <3>1. 1 \in 1..i /\ 1 \in 1..N BY <2>2
    <3>2. Begins(path, i)[1] = FoldOf[path[1]] BY <3>1 DEF Begins
    <3>3. FoldOf[path[1]] # Outside[1] BY <3>1, OutsideFacts
    <3> QED BY <3>2, <3>3
  <2> QED BY <2>1, <2>2
<1>5. ASSUME i < N PROVE Enter(Begins(path, i), path[i + 1]) = Begins(path, i + 1)
  <2> DEFINE next == Append(Begins(path, i), FoldOf[path[i + 1]])
  <2>1. i + 1 \in 1..N BY <1>5
  <2>2. Enter(Begins(path, i), path[i + 1]) = next
    BY <1>4, <2>1, EnterPlain
  <2>3. FoldOf[path[i + 1]] \in Folded BY <1>1, <2>1
  <2>4. /\ next \in Seq(Folded) /\ Len(next) = i + 1
        /\ \A n \in 1..i : next[n] = Begins(path, i)[n]
        /\ next[i + 1] = FoldOf[path[i + 1]]
    BY <1>3, <2>3
  <2> HIDE DEF next
  <2>5. next = [n \in 1..(i + 1) |-> next[n]]
    BY <2>4
  <2>6. \A n \in 1..(i + 1) : next[n] = FoldOf[path[n]]
    <3> TAKE n \in 1..(i + 1)
    <3>1. n \in 1..i \/ n = i + 1 OBVIOUS
    <3>2. n \in 1..i => Begins(path, i)[n] = FoldOf[path[n]] BY DEF Begins
    <3> QED BY <2>4, <3>1, <3>2
  <2>7. next = Begins(path, i + 1)
    BY <2>5, <2>6, Zenon DEF Begins
  <2> QED BY <2>2, <2>7
<1> QED BY <1>4, <1>5

\* A path as an accepted member has it.
PlainParts(path) == path # <<>> /\ ToSet(path) \cap {"", ".", ".."} = {}

\* Such a path leads where it says, which is never outside.
LEMMA PlainPath ==
  ASSUME NEW path \in Seq(Parts), PlainParts(path)
  PROVE  Place(path) = Fold(path) /\ Fold(path) # Outside
<1> DEFINE N == Len(path)
<1>1. N \in Nat /\ DOMAIN path = 1..N /\ \A n \in 1..N : path[n] \in Parts
  OBVIOUS
<1>a. N # 0
  <2>1. path # <<>> BY Zenon DEF PlainParts
  <2> QED BY <2>1
<1>2. \A n \in 1..N : IsPlain(path[n])
  <2>1. \A n \in 1..N : path[n] \in ToSet(path)
    BY <1>1 DEF ToSet
  <2>2. \A n \in 1..N : path[n] \notin {"", ".", ".."}
    BY <2>1, Zenon DEF PlainParts
  <2> QED BY <1>1, <2>2, ArchiveAssumption, Zenon DEF IsPlain
<1>3. PICK h : /\ h[0] = <<>> /\ h[N] = FoldLeft(Enter, <<>>, path)
               /\ \A i \in 1..N : h[i] = Enter(h[i - 1], path[i])
  BY PathFold, Zenon
<1>4. Place(path) = h[N]
  <2>1. Head(path) = path[1] /\ 1 \in 1..N BY <1>1, <1>a
  <2>2. Head(path) # "" BY <1>2, <2>1, Zenon DEF IsPlain
  <2> QED BY <1>3, <2>2, Zenon DEF Place
<1>5. Fold(path) = Begins(path, N)
  BY <1>1, Zenon DEF Fold, Begins
<1> DEFINE P == {i \in Nat : i <= N => h[i] = Begins(path, i)}
<1> HIDE DEF N
<1>6. 0 \in P
  <2>1. Begins(path, 0) = <<>> BY DEF Begins
  <2> QED BY <1>3, <2>1
<1>7. ASSUME NEW i \in Nat, i \in P PROVE i + 1 \in P
  <2> SUFFICES ASSUME i + 1 <= N PROVE h[i + 1] = Begins(path, i + 1)
    OBVIOUS
  <2>1. i + 1 \in 1..N /\ (i + 1) - 1 = i /\ i <= N /\ i < N
    BY <1>1
  <2>2. h[i] = Begins(path, i) /\ h[i + 1] = Enter(h[i], path[i + 1])
    BY <1>3, <1>7, <2>1
  <2>3. Enter(Begins(path, i), path[i + 1]) = Begins(path, i + 1)
    BY <1>1, <1>2, <2>1, BeginsFacts
  <2> QED BY <2>2, <2>3
<1> HIDE DEF P
<1>8. N \in P
  BY <1>1, <1>6, <1>7, InductSet
<1>9. h[N] = Begins(path, N)
  BY <1>1, <1>8 DEF P
<1>10. Begins(path, N) # Outside
  BY <1>1, <1>2, BeginsFacts
<1> QED BY <1>4, <1>5, <1>9, <1>10

\* Where a member is in the tree.
Leaf(m) == [path |-> Fold(m.path), kind |-> m.kind, data |-> m.data]

\* The tree has the first n members, and nothing else.
Unpacked(state, members, n) ==
    /\ ~state.outside
    /\ \A e \in state.tree : \E k \in 1..n : e = Leaf(members[k])
    /\ ~state.stopped => \A k \in 1..n : Leaf(members[k]) \in state.tree

\* Unpacking one more member keeps the others, if no two have one path and
\* each is a file or a directory.
LEMMA OneMoreMember ==
  ASSUME NEW members, NEW n \in Nat, NEW state, state = [tree |-> state.tree,
             outside |-> state.outside, stopped |-> state.stopped],
         Unpacked(state, members, n),
         \A k \in 1..(n + 1) : members[k].kind \in {"file", "directory"},
         \A k \in 1..n : Fold(members[k].path) # Fold(members[n + 1].path),
         Place(members[n + 1].path) = Fold(members[n + 1].path),
         Fold(members[n + 1].path) # Outside
  PROVE  Unpacked(Extract(state, members[n + 1]), members, n + 1)
<1> DEFINE m == members[n + 1]
           path == Place(m.path)
           next == Extract(state, m)
           all == {e \in state.tree : e.path # path} \cup
                    {[path |-> path, kind |-> m.kind, data |-> m.data]}
<1>1. /\ \A k \in 1..n : k \in 1..(n + 1)
      /\ n + 1 \in 1..(n + 1)
      /\ \A k \in 1..(n + 1) : k \in 1..n \/ k = n + 1
  OBVIOUS
<1>2. \A e \in state.tree : e.kind \in {"file", "directory"} /\ e.path # path
  BY <1>1 DEF Unpacked, Leaf
<1>3. \/ next = state /\ state.stopped
      \/ next = [state EXCEPT !.stopped = TRUE]
      \/ ~state.stopped /\ next = [state EXCEPT !.tree = all]
  <2>1. path # Outside OBVIOUS
  <2>2. \A e \in state.tree : e.kind # "link"
    BY <1>2
  <2> QED BY <2>1, <2>2 DEF Extract
<1>4. CASE next = state /\ state.stopped
  BY <1>1, <1>4 DEF Unpacked
<1>5. CASE next = [state EXCEPT !.stopped = TRUE]
  <2>1. next.tree = state.tree /\ next.outside = state.outside /\ next.stopped = TRUE
    BY <1>5
  <2> HIDE DEF next
  <2>2. Unpacked(next, members, n + 1)
    BY <1>1, <2>1 DEF Unpacked
  <2> QED BY <2>2 DEF next
<1>6. CASE ~state.stopped /\ next = [state EXCEPT !.tree = all]
  <2>1. next.tree = all /\ next.outside = state.outside /\ next.stopped = state.stopped
    BY <1>6
  <2>2. all = state.tree \cup {Leaf(m)}
    BY <1>2 DEF Leaf
  <2> HIDE DEF next, all
  <2>3. ~next.outside
    BY <2>1 DEF Unpacked
  <2>4. \A e \in next.tree : \E k \in 1..(n + 1) : e = Leaf(members[k])
    BY <1>1, <2>1, <2>2 DEF Unpacked
  <2>5. \A k \in 1..(n + 1) : Leaf(members[k]) \in next.tree
    BY <1>1, <1>6, <2>1, <2>2 DEF Unpacked
  <2>6. Unpacked(next, members, n + 1)
    BY <2>3, <2>4, <2>5 DEF Unpacked
  <2> QED BY <2>6 DEF next
<1> QED BY <1>3, <1>4, <1>5, <1>6

\* What checked_archive accepts unpacks to its files, each where it says.
LEMMA CheckedIsFaithful ==
  ASSUME NEW a \in Candidates \cup {Pinned}, CheckedArchive(a.members)
  PROVE  Faithful(a.members)
<1> DEFINE members == a.members
           N == Len(members)
<1>1. /\ members \in Seq(ToSet(members)) /\ N \in Nat /\ DOMAIN members = 1..N
      /\ \A m \in ToSet(members) : m.path \in Seq(Parts)
      /\ \A k \in 1..N : members[k] \in ToSet(members)
      /\ \A m \in ToSet(members) : \E k \in 1..N : m = members[k]
  <2>1. members \in Seq(ToSet(members)) /\ \A m \in ToSet(members) : m.path \in Seq(Parts)
    BY ArchiveAssumption
  <2>2. N \in Nat /\ DOMAIN members = 1..N
    <3> DEFINE S == ToSet(members)
    <3>1. members \in Seq(S) BY <2>1
    <3> HIDE DEF S, members
    <3> QED BY <3>1
  <2>3. \A k \in 1..N : members[k] \in ToSet(members)
    BY <2>2 DEF ToSet
  <2>4. \A m \in ToSet(members) : \E k \in 1..N : m = members[k]
    BY <2>2 DEF ToSet
  <2> QED BY <2>1, <2>2, <2>3, <2>4
<1>2. \A k \in 1..N :
          /\ members[k].kind \in {"file", "directory"}
          /\ PlainParts(members[k].path)
          /\ \A j \in 1..(k - 1) : Fold(members[j].path) # Fold(members[k].path)
  BY <1>1 DEF CheckedArchive, SamePath, PlainParts
<1>3. \A k \in 1..N :
          /\ Place(members[k].path) = Fold(members[k].path)
          /\ Fold(members[k].path) # Outside
  BY <1>1, <1>2, PlainPath
<1> HIDE DEF members
<1>4. PICK h : /\ h[0] = EmptyTree /\ h[N] = Unpack(members)
               /\ \A i \in 1..N : h[i] = Extract(h[i - 1], members[i])
  BY <1>1, UnpackFold, Zenon
<1> DEFINE IsState(s) == s = [tree |-> s.tree, outside |-> s.outside, stopped |-> s.stopped]
           P == {i \in Nat : i <= N => IsState(h[i]) /\ Unpacked(h[i], members, i)}
<1>5. 0 \in P
  BY <1>4 DEF EmptyTree, Unpacked
<1>6. ASSUME NEW i \in Nat, i \in P PROVE i + 1 \in P
  <2> SUFFICES ASSUME i + 1 <= N PROVE IsState(h[i + 1]) /\ Unpacked(h[i + 1], members, i + 1)
    OBVIOUS
  <2>1. i + 1 \in 1..N /\ (i + 1) - 1 = i /\ \A k \in 1..(i + 1) : k \in 1..N
    BY <1>1
  <2>2. IsState(h[i]) /\ Unpacked(h[i], members, i) /\ h[i + 1] = Extract(h[i], members[i + 1])
    BY <1>4, <1>6, <2>1
  <2>3. IsState(h[i + 1])
    BY <2>2 DEF Extract
  <2>4. /\ \A k \in 1..(i + 1) : members[k].kind \in {"file", "directory"}
        /\ \A k \in 1..i : Fold(members[k].path) # Fold(members[i + 1].path)
        /\ Place(members[i + 1].path) = Fold(members[i + 1].path)
        /\ Fold(members[i + 1].path) # Outside
    BY <1>2, <1>3, <2>1
  <2>5. Unpacked(Extract(h[i], members[i + 1]), members, i + 1)
    BY <2>2, <2>4, OneMoreMember
  <2> QED BY <2>2, <2>3, <2>5
<1> HIDE DEF P
<1>7. N \in P
  BY <1>1, <1>5, <1>6, InductSet
<1>8. Unpacked(Unpack(members), members, N)
  BY <1>1, <1>4, <1>7 DEF P
<1>9. ASSUME NEW m \in FileMembers(members), ~Unpack(members).stopped
      PROVE  [path |-> Fold(m.path), kind |-> "file", data |-> m.data] \in Unpack(members).tree
  <2>1. m.kind = "file" /\ m \in ToSet(members)
    BY DEF FileMembers
  <2>2. PICK k \in 1..N : m = members[k]
    BY <1>1, <2>1
  <2>3. Leaf(members[k]) \in Unpack(members).tree
    BY <1>8, <1>9 DEF Unpacked
  <2> QED BY <2>1, <2>2, <2>3 DEF Leaf
<1>10. Faithful(members)
  BY <1>8, <1>9 DEF Faithful, Unpacked
<1> QED BY <1>10 DEF members

-----------------------------------------------------------------------------
(* The archives the gate serves.                                           *)

\* The places the invariant of the archives speaks of.
LEMMA ArchivePlaces ==
    ASSUME TypeInv, [Next]_vars
    PROVE  /\ Deps \in Nat /\ pc \in Nat /\ pc' \in Nat /\ pc >= 1
           /\ pc' = pc \/ pc' = pc + 1 \/ pc' > Deps + 8
<1>1. /\ AfterAt \in Nat /\ Deps \in Nat /\ PlanAt = Deps + 11 /\ AfterAt > PlanAt + 3
      /\ pc \in Nat /\ pc' \in Nat /\ pc >= 1
  BY Lengths, PlacesInBounds DEF PlanAt, AfterAt, TypeInv
<1> QED BY <1>1, Moves DEF Forward, Fails

\* What the downloads are, as far as pc tells.
CountInv(n, down) ==
    /\ n <= 3 => down = {}
    /\ n \in 3..(Deps + 3) => Cardinality(down) = n - 3

\* Before the index every dependency is there.
LEMMA AllDownloaded ==
    ASSUME ArchiveInv, pc = Deps + 3
    PROVE  \A p \in Dependencies : Accepted(p)
<1>1. Deps \in Nat /\ pc \in 3..(Deps + 3)
  BY Lengths
<1>2. Cardinality(Downloaded) = Deps
  BY <1>1 DEF ArchiveInv
<1>3. Downloaded \in SUBSET Dependencies /\ IsFiniteSet(Dependencies)
  BY ConsumerAssumption DEF Downloaded
<1>4. Downloaded = Dependencies
  BY <1>2, <1>3, FS_Subset DEF Deps
<1> QED BY <1>4 DEF ArchiveInv

\* A download adds one, and takes nothing from what was accepted.
LEMMA CountStep ==
    ASSUME TypeInv, ArchiveInv, [Next]_vars, Download
    PROVE  /\ CountInv(pc', Downloaded')
           /\ archive' \in [Packages -> {None, Pinned} \cup Candidates]
           /\ \A p \in Packages : Accepted(p) => Accepted(p)'
           /\ \A p \in Downloaded' : Accepted(p)'
<1>1. Deps \in Nat /\ pc \in 3..(Deps + 2) /\ pc' \in Nat
  BY ArchivePlaces, Actions
<1>2. /\ Cardinality(Downloaded) = pc - 3
      /\ Downloaded \in SUBSET Dependencies /\ IsFiniteSet(Downloaded)
      /\ archive \in [Packages -> {None, Pinned} \cup Candidates]
      /\ \A p \in Downloaded : Accepted(p)
  <2>1. pc \in 3..(Deps + 3) BY <1>1
  <2>2. Downloaded \in SUBSET Dependencies BY DEF Downloaded
  <2> QED BY <2>1, <2>2, ConsumerAssumption, FS_Subset DEF ArchiveInv
<1>3. CASE Raise /\ UNCHANGED archive
  <2>1. pc' > Deps + 8
    BY <1>1, <1>3, RaiseFails, Lengths DEF Fails, PlanAt, AfterAt
  <2>2. Downloaded' = Downloaded /\ \A p \in Packages : Accepted(p)' <=> Accepted(p)
    BY <1>3 DEF Downloaded, Accepted
  <2>3. CountInv(pc', Downloaded')
    BY <1>1, <2>1 DEF CountInv
  <2>4. \A p \in Downloaded : p \in Packages
    BY <1>2 DEF Packages
  <2> QED BY <1>2, <1>3, <2>2, <2>3, <2>4
<1>4. ASSUME CheckedArchive(Pinned.members), Advance, NEW p \in Dependencies, archive[p] = None,
             archive' = [archive EXCEPT ![p] = Pinned]
      PROVE  /\ CountInv(pc', Downloaded')
             /\ archive' \in [Packages -> {None, Pinned} \cup Candidates]
             /\ \A q \in Packages : Accepted(q) => Accepted(q)'
             /\ \A q \in Downloaded' : Accepted(q)'
  <2>1. pc' = pc + 1 BY <1>4 DEF Advance
  <2>2. p \in Packages /\ p \notin Downloaded /\ \A q \in Dependencies : q \in Packages
    BY <1>4 DEF Packages, Downloaded
  <2>3. /\ archive' \in [Packages -> {None, Pinned} \cup Candidates]
        /\ archive'[p] = Pinned
        /\ \A q \in Packages : q # p => archive'[q] = archive[q]
    BY <1>2, <1>4, <2>2
  <2>4. Pinned # None /\ None \notin Candidates \cup {Pinned}
    BY ArchiveAssumption
  <2>5. Downloaded' = Downloaded \cup {p}
    BY <2>2, <2>3, <2>4 DEF Downloaded
  <2>6. Cardinality(Downloaded') = pc - 3 + 1
    BY <1>2, <2>2, <2>5, FS_AddElement
  <2>7. CountInv(pc', Downloaded')
    BY <1>1, <2>1, <2>6 DEF CountInv
  <2>8. Accepted(p)'
    BY <1>4, <2>3 DEF Accepted
  <2>9. \A q \in Packages : Accepted(q) => Accepted(q)'
    BY <2>3, <2>8 DEF Accepted
  <2> QED BY <1>2, <2>2, <2>3, <2>5, <2>7, <2>8, <2>9
<1> QED BY <1>3, <1>4 DEF Download

\* The candidate's part of the invariant.
CandidateInv ==
    /\ pc = Deps + 6 => archive[Candidate] \in Candidates
    /\ pc = Deps + 7 => Accepted(Candidate)
    /\ pc <= Deps + 7 => Spellings(Candidate) \cap served = {}

\* What the invariant says of what is served, fetched and unpacked.
ServedAccepted ==
    /\ \A p \in Packages : Spellings(p) \cap served # {} => Accepted(p)
    /\ \A e \in events : e.status = 200 => e.path \in served
    /\ ~outside

\* The invariant in parts, each of which another action can disturb.
LEMMA ArchiveParts ==
    ArchiveInv <=> /\ archive \in [Packages -> {None, Pinned} \cup Candidates]
                   /\ CountInv(pc, Downloaded) /\ \A p \in Downloaded : Accepted(p)
                   /\ CandidateInv /\ ServedAccepted
BY DEF ArchiveInv, CountInv, CandidateInv, ServedAccepted

\* The same for the next state.
LEMMA ArchivePartsNext ==
    ASSUME archive' \in [Packages -> {None, Pinned} \cup Candidates],
           CountInv(pc', Downloaded'), \A p \in Downloaded' : Accepted(p)',
           CandidateInv', ServedAccepted'
    PROVE  ArchiveInv'
BY DEF ArchiveInv, CountInv, CandidateInv, ServedAccepted

\* An action that does not download leaves the count right, if no dependency
\* has another archive.
LEMMA CountKept ==
    ASSUME TypeInv, ArchiveInv, [Next]_vars, ~(pc \in 3..(Deps + 2) /\ pc' = pc + 1),
           Downloaded' = Downloaded
    PROVE  CountInv(pc', Downloaded')
<1>1. /\ Deps \in Nat /\ pc \in Nat /\ pc' \in Nat
      /\ pc' = pc \/ pc' = pc + 1 \/ pc' > Deps + 8
  BY ArchivePlaces
<1>2. CountInv(pc, Downloaded)
  BY ArchiveParts
<1>3. Cardinality({}) = 0
  BY FS_EmptySet
<1>4. CASE pc' = pc
  BY <1>2, <1>4
<1>5. CASE pc' > Deps + 8
  BY <1>1, <1>5 DEF CountInv
<1>6. CASE pc' = pc + 1
  <2>1. pc <= 2 \/ pc > Deps + 2
    BY <1>1, <1>6
  <2>2. CASE pc <= 2
    <3>1. Downloaded = {}
      BY <1>1, <1>2, <2>2 DEF CountInv
    <3>2. pc' \in 3..(Deps + 3) => pc' = 3
      BY <1>1, <1>6, <2>2
    <3> QED BY <1>3, <3>1, <3>2 DEF CountInv
  <2>3. CASE pc > Deps + 2
    BY <1>1, <1>6, <2>3 DEF CountInv
  <2> QED BY <2>1, <2>2, <2>3
<1> QED BY <1>1, <1>4, <1>5, <1>6

\* A package whose archive was fetched has it from the server.
LEMMA FetchedAccepted ==
    ASSUME TypeInv, ArchiveInv, NEW p \in Packages, p \in Fetched
    PROVE  ~Unpack(archive[p].members).outside
<1>1. PICK e \in events : e.status = 200 /\ CanonicalArchivePath(e.path) = p
  BY DEF Fetched
<1>2. p # None /\ None \notin Packages /\ e.path \in Paths
  BY ConsumerAssumption DEF TypeInv
<1>3. e.path \in Spellings(p)
  <2>1. CASE e.path = <<"other", None>>
    BY <1>1, <1>2, <2>1 DEF CanonicalArchivePath
  <2>2. ASSUME NEW q \in Packages, e.path \in Spellings(q) PROVE q = p
    <3>1. e.path = <<"canonical", q>> \/ e.path = <<"legacy", q>>
      BY <2>2 DEF Spellings
    <3> QED BY <1>1, <3>1 DEF CanonicalArchivePath
  <2> QED BY <1>2, <2>1, <2>2 DEF Paths
<1>4. Accepted(p)
  BY <1>1, <1>3 DEF ArchiveInv
<1> QED BY <1>4, CheckedIsFaithful DEF Accepted, Faithful

\* Nothing but a download, packaging, a publication, an answer and an
\* installation concerns the archives.
LEMMA OthersStep ==
    ASSUME TypeInv, ArchiveInv, [Next]_vars, UNCHANGED <<archive, served, outside>>,
           events' = events, ~Download, ~Package
    PROVE  ArchiveInv'
<1>1. /\ Deps \in Nat /\ pc \in Nat /\ pc' \in Nat /\ pc >= 1
      /\ pc' = pc \/ pc' = pc + 1 \/ pc' > Deps + 8
  BY ArchivePlaces
<1>2. /\ archive \in [Packages -> {None, Pinned} \cup Candidates]
      /\ \A p \in Downloaded : Accepted(p)
      /\ CandidateInv /\ ServedAccepted
  BY ArchiveParts
<1>3. Downloaded' = Downloaded /\ \A p : Accepted(p)' <=> Accepted(p)
  BY DEF Downloaded, Accepted
<1>4. pc \in 1..EndedAt /\ Placed(pc)
  BY StageAt DEF TypeInv
<1>5. ASSUME pc' = pc + 1
      PROVE  ~(pc \in 3..(Deps + 2)) /\ pc # Deps + 5 /\ (pc = Deps + 6 => AcceptCandidate)
  <2>1. ~(Get \/ Tamper \/ Disown \/ UNCHANGED vars)
    BY <1>1, <1>5 DEF Get, Tamper, Disown, vars
  <2>2. /\ PlanAt = Deps + 11 /\ AfterAt > PlanAt + 3 /\ AfterAt \in Nat
    BY <1>1, Lengths DEF PlanAt, AfterAt
  <2>3. \/ pc \in 1..2 \/ pc \in {Deps + 3, Deps + 7} \/ pc \in {Deps + 4, Deps + 8}
        \/ (AcceptCandidate /\ pc = Deps + 6) \/ pc = Deps + 9 \/ pc = Deps + 10 \/ pc = PlanAt
        \/ pc \in (PlanAt + 1)..(AfterAt - 1) \/ pc = AfterAt \/ pc = AfterAt + 1
        \/ pc = AfterAt + 2 \/ pc = AfterAt + 3
    BY <2>1, NextCases, Actions, Zenon
  <2> QED BY <1>1, <2>2, <2>3
<1>6. CountInv(pc', Downloaded')
  BY <1>3, <1>5, CountKept
<1>7. CandidateInv'
  <2>1. CASE pc' = pc
    BY <1>2, <1>3, <2>1 DEF CandidateInv
  <2>2. CASE pc' > Deps + 8
    BY <1>1, <2>2 DEF CandidateInv
  <2>3. CASE pc' = pc + 1
    <3>1. pc' # Deps + 6
      BY <1>1, <1>5, <2>3
    <3>2. pc' = Deps + 7 => Accepted(Candidate)'
      <4> SUFFICES ASSUME pc' = Deps + 7 PROVE Accepted(Candidate)
        BY <1>3
      <4>1. pc = Deps + 6 /\ AcceptCandidate
        BY <1>1, <1>5, <2>3
      <4>2. ~Raise
        BY <1>1, <2>3, <4>1, RaiseFails, Lengths DEF Fails, PlanAt, AfterAt
      <4>3. CheckedArchive(archive[Candidate].members)
        BY <4>1, <4>2 DEF AcceptCandidate
      <4> QED BY <1>2, <4>1, <4>3 DEF CandidateInv, Accepted
    <3>3. pc' <= Deps + 7 => pc <= Deps + 7
      BY <1>1, <2>3
    <3> QED BY <1>2, <3>1, <3>2, <3>3 DEF CandidateInv
  <2> QED BY <1>1, <2>1, <2>2, <2>3
<1>8. ServedAccepted'
  BY <1>2, <1>3 DEF ServedAccepted
<1> QED BY <1>2, <1>3, <1>6, <1>7, <1>8, ArchivePartsNext

\* The archives that are served stay the ones that were accepted, whichever
\* stage fails and whatever the clients ask for.
LEMMA ArchiveStep == ASSUME TypeInv, ArchiveInv, [Next]_vars PROVE ArchiveInv'
<1>1. /\ Deps \in Nat /\ pc \in Nat /\ pc' \in Nat /\ pc >= 1
      /\ pc' = pc \/ pc' = pc + 1 \/ pc' > Deps + 8
  BY ArchivePlaces
<1>2. /\ archive \in [Packages -> {None, Pinned} \cup Candidates]
      /\ CountInv(pc, Downloaded) /\ \A p \in Downloaded : Accepted(p)
      /\ CandidateInv /\ ServedAccepted
  BY ArchiveParts
<1>3. CASE Download
  <2>1. pc \in 3..(Deps + 2) /\ UNCHANGED <<served, events, outside>>
    BY <1>3, Actions DEF Download, Consumer
  <2>2. /\ archive' \in [Packages -> {None, Pinned} \cup Candidates]
        /\ CountInv(pc', Downloaded') /\ \A p \in Downloaded' : Accepted(p)'
        /\ \A p \in Packages : Accepted(p) => Accepted(p)'
    BY <1>3, CountStep
  <2>3. CandidateInv'
    BY <1>1, <1>2, <2>1 DEF CandidateInv
  <2>4. ServedAccepted'
    BY <1>2, <2>1, <2>2 DEF ServedAccepted
  <2> QED BY <2>2, <2>3, <2>4, ArchivePartsNext
<1>4. CASE Package
  <2>1. pc = Deps + 5 /\ UNCHANGED <<served, events, outside>>
    BY <1>4, Actions DEF Package, Consumer
  <2>2. /\ archive' \in [Packages -> {None, Pinned} \cup Candidates]
        /\ \A p \in Packages : p # Candidate => archive'[p] = archive[p]
        /\ pc' <= Deps + 8 => archive'[Candidate] \in Candidates
    <3>1. Candidate \in Packages
      BY DEF Packages
    <3>2. CASE Raise /\ UNCHANGED archive
      <4>1. pc' > Deps + 8
        BY <1>1, <2>1, <3>2, RaiseFails, Lengths DEF Fails, PlanAt, AfterAt
      <4> QED BY <1>1, <1>2, <3>2, <4>1
    <3>3. ASSUME NEW c \in Candidates, archive' = [archive EXCEPT ![Candidate] = c]
          PROVE  /\ archive' \in [Packages -> {None, Pinned} \cup Candidates]
                 /\ \A p \in Packages : p # Candidate => archive'[p] = archive[p]
                 /\ archive'[Candidate] \in Candidates
      BY <1>2, <3>1, <3>3
    <3> QED BY <1>4, <3>2, <3>3 DEF Package
  <2>3. \A p \in Packages : p # Candidate => (Accepted(p)' <=> Accepted(p))
    BY <2>2 DEF Accepted
  <2>4. Downloaded' = Downloaded
    BY <2>2, ConsumerAssumption DEF Downloaded, Packages
  <2>5. \A p \in Downloaded' : Accepted(p)'
    BY <1>2, <2>3, <2>4, ConsumerAssumption DEF Downloaded, Packages
  <2>6. CountInv(pc', Downloaded')
    <3>1. ~(pc \in 3..(Deps + 2)) BY <1>1, <2>1
    <3> QED BY <2>4, <3>1, CountKept
  <2>7. Spellings(Candidate) \cap served = {}
    BY <1>1, <1>2, <2>1 DEF CandidateInv
  <2>8. CandidateInv'
    <3>1. pc' # Deps + 7 BY <1>1, <2>1
    <3>2. pc' = Deps + 6 => pc' <= Deps + 8 BY <1>1
    <3> QED BY <2>1, <2>2, <2>7, <3>1, <3>2 DEF CandidateInv
  <2>9. ServedAccepted'
    BY <1>2, <2>1, <2>3, <2>7 DEF ServedAccepted
  <2> QED BY <2>2, <2>5, <2>6, <2>8, <2>9, ArchivePartsNext
<1>5. CASE PublishEntries
  <2> DEFINE packages == IF Now({"index"}) THEN Dependencies ELSE {Candidate}
  <2>1. /\ pc \in {Deps + 3, Deps + 7} /\ UNCHANGED <<archive, events, outside>>
        /\ served' = served \cup UNION {Routes(p) : p \in packages}
    BY <1>5, Actions DEF PublishEntries, Consumer
  <2>2. Downloaded' = Downloaded /\ \A p : Accepted(p)' <=> Accepted(p)
    BY <2>1 DEF Downloaded, Accepted
  <2>3. packages = IF pc = Deps + 3 THEN Dependencies ELSE {Candidate}
    <3>1. pc \in 1..EndedAt /\ Placed(pc)
      BY StageAt DEF TypeInv
    <3> QED BY <3>1 DEF Now, Placed
  <2> HIDE DEF packages
  <2>4. \A p \in packages : Accepted(p)
    <3>1. CASE pc = Deps + 3
      BY <2>3, <3>1, AllDownloaded
    <3>2. CASE pc = Deps + 7
      BY <1>1, <1>2, <2>3, <3>2 DEF CandidateInv
    <3> QED BY <2>1, <3>1, <3>2
  <2>5. \A p, q : p # q => Spellings(p) \cap Routes(q) = {}
    <3> TAKE p, q
    <3> HAVE p # q
    <3>1. \A s, t \in {"canonical", "legacy"} : <<s, p>> # <<t, q>>
      OBVIOUS
    <3> QED BY <3>1 DEF Spellings, Routes
  <2>6. \A p : Spellings(p) \cap served' # {} => Spellings(p) \cap served # {} \/ p \in packages
    BY <2>1, <2>5
  <2>7. CandidateInv'
    <3>1. CASE pc = Deps + 3
      <4>1. Candidate \notin packages
        BY <2>3, <3>1, ConsumerAssumption
      <4>2. Spellings(Candidate) \cap served' = {}
        BY <1>1, <1>2, <2>6, <3>1, <4>1 DEF CandidateInv
      <4>3. pc' # Deps + 6 /\ pc' # Deps + 7
        BY <1>1, <3>1
      <4> QED BY <4>2, <4>3 DEF CandidateInv
    <3>2. CASE pc = Deps + 7
      <4>1. pc' > Deps + 7
        <5>1. pc' # pc
          BY <1>1, <1>5, <3>2, Actions, Lengths DEF Forward, Fails, PlanAt, AfterAt
        <5> QED BY <1>1, <3>2, <5>1
      <4> QED BY <1>1, <4>1 DEF CandidateInv
    <3> QED BY <2>1, <3>1, <3>2
  <2>8. ServedAccepted'
    <3>1. \A p \in Packages : Spellings(p) \cap served' # {} => Accepted(p)'
      BY <1>2, <2>2, <2>4, <2>6 DEF ServedAccepted
    <3> QED BY <1>2, <2>1, <3>1 DEF ServedAccepted
  <2>9. CountInv(pc', Downloaded')
    <3>1. ~(pc \in 3..(Deps + 2)) BY <1>1, <2>1
    <3> QED BY <2>2, <3>1, CountKept
  <2> QED BY <1>2, <2>1, <2>2, <2>7, <2>8, <2>9, ArchivePartsNext
<1>6. CASE Add
  <2>1. /\ pc = Deps + 9 /\ UNCHANGED <<archive, served, events>>
    BY <1>6, Actions DEF Add, Registry
  <2>2. ~outside'
    <3>1. CASE UNCHANGED outside
      BY <1>2, <3>1 DEF ServedAccepted
    <3>2. ASSUME \A p \in Packages : installed'[p] = "archive" => p \in Fetched,
                 outside' = (outside \/ \E p \in Packages :
                    installed'[p] = "archive" /\ Unpack(archive[p].members).outside)
          PROVE  ~outside'
      BY <1>2, <3>2, FetchedAccepted DEF ServedAccepted
    <3> QED BY <1>6, <3>1, <3>2 DEF Add
  <2>3. Downloaded' = Downloaded /\ \A p : Accepted(p)' <=> Accepted(p)
    BY <2>1 DEF Downloaded, Accepted
  <2>4. pc' > Deps + 8
    BY <1>1, <1>6, <2>1, Actions, Lengths DEF Forward, Fails, PlanAt, AfterAt
  <2>5. CandidateInv'
    BY <1>1, <2>4 DEF CandidateInv
  <2>6. CountInv(pc', Downloaded')
    BY <1>1, <2>4 DEF CountInv
  <2>7. ServedAccepted'
    BY <1>2, <2>1, <2>2, <2>3 DEF ServedAccepted
  <2> QED BY <1>2, <2>1, <2>3, <2>5, <2>6, <2>7, ArchivePartsNext
<1>7. CASE Get
  <2>1. UNCHANGED <<pc, archive, served, outside>>
    BY <1>7 DEF Get, Registry, Consumer
  <2>2. \A e \in events' : e.status = 200 => e.path \in served
    <3>1. PICK path : events' = events \cup
              {[path |-> path, status |-> IF path \in served THEN 200 ELSE 404]}
      BY <1>7 DEF Get
    <3> QED BY <1>2, <3>1 DEF ServedAccepted
  <2>3. Downloaded' = Downloaded /\ \A p : Accepted(p)' <=> Accepted(p)
    BY <2>1 DEF Downloaded, Accepted
  <2>4. CandidateInv'
    BY <1>2, <2>1, <2>3 DEF CandidateInv
  <2>5. CountInv(pc', Downloaded')
    BY <1>2, <2>1, <2>3
  <2>6. ServedAccepted'
    BY <1>2, <2>1, <2>2, <2>3 DEF ServedAccepted
  <2> QED BY <1>2, <2>1, <2>3, <2>4, <2>5, <2>6, ArchivePartsNext
<1>8. CASE \/ Prepare \/ UpdateIndex \/ AcceptCandidate \/ Before \/ SourcePlan \/ RunTarget
           \/ After \/ Judge \/ CleanupOwned \/ WriteReport \/ Tamper \/ Disown \/ UNCHANGED vars
  <2>1. UNCHANGED <<archive, served, outside, events>>
    BY <1>8 DEF Prepare, UpdateIndex, AcceptCandidate, Before, SourcePlan, RunTarget, After,
       Judge, CleanupOwned, WriteReport, Tamper, Disown, vars, Registry, Consumer
  <2> QED BY <1>3, <1>4, <2>1, OthersStep
<1> QED BY <1>3, <1>4, <1>5, <1>6, <1>7, <1>8, NextCases

-----------------------------------------------------------------------------
(* The theorems.                                                           *)

\* Nothing is downloaded, served or unpacked at first.
LEMMA ArchiveInit == Init => ArchiveInv
<1> SUFFICES ASSUME Init PROVE ArchiveInv
  OBVIOUS
<1>1. Deps \in Nat
  BY Lengths
<1>2. Downloaded = {}
  BY DEF Init, Downloaded, Packages
<1>3. archive \in [Packages -> {None, Pinned} \cup Candidates]
  BY DEF Init
<1>4. ~(pc \in 3..(Deps + 3)) /\ pc # Deps + 6 /\ pc # Deps + 7
  BY <1>1 DEF Init
<1> QED BY <1>2, <1>3, <1>4 DEF Init, ArchiveInv

\* The whole invariant holds at first.
LEMMA InitInv == Init => ConsumerInv
<1> SUFFICES ASSUME Init PROVE ConsumerInv
  OBVIOUS
<1>1. /\ PlanAt \in Nat /\ AfterAt > PlanAt + 3 /\ AfterAt \in Nat /\ Deps \in Nat
      /\ PlanAt = Deps + 11 /\ EndedAt = AfterAt + 4
  BY Lengths DEF PlanAt, AfterAt, EndedAt
<1>2. TypeInv
  BY <1>1 DEF Init, TypeInv, Reports
<1>3. TargetInv
  <2>1. /\ ~(pc > PlanAt) /\ pc # AfterAt + 1 /\ passed = {} /\ compiled = {} /\ error = None
    BY <1>1 DEF Init
  <2>2. QED
    BY <2>1, Zenon DEF TargetInv
<1>4. ServedInv
  BY <1>1 DEF Init, ServedInv
<1>5. VerdictInv
  BY <1>1 DEF Init, VerdictInv, GoIsEarned
<1>6. QED
  BY <1>2, <1>3, <1>4, <1>5, ArchiveInit DEF ConsumerInv

\* The invariant all of this gate's theorems rest on: where pc is in the list
\* of stages decides what has passed, what is served and what is reported
\* (verify-package-consumer.py 365-548).
THEOREM ConsumerInvariant == Spec => []ConsumerInv
<1>1. ConsumerInv /\ [Next]_vars => ConsumerInv'
  BY TypeStep, TargetStep, ServedStep, VerdictStep, ArchiveStep DEF ConsumerInv
<1>2. QED
  BY <1>1, InitInv, PTL DEF Spec

\* A GO is earned, whatever the client's processes fetch, fail at or change
\* and wherever an exception is raised: every target ran, from the archives'
\* bytes only, and every package and nothing else was fetched (492-532).
THEOREM VerdictIsEarned == Spec => []GoIsEarned
<1>1. ConsumerInv => GoIsEarned
  BY DEF ConsumerInv, VerdictInv
<1>2. QED
  BY <1>1, ConsumerInvariant, PTL

\* No client is refused what its index lists, at any moment between the
\* commits and the updates (add_entry, 428-476).
THEOREM ListingsAreServed == Spec => []ListedIsServed
<1>1. ConsumerInv => ListedIsServed
  <2>1. SUFFICES ASSUME ConsumerInv, NEW p \in index.client, NEW path \in Spellings(p)
                 PROVE  /\ path \in served
                        /\ [path |-> path, status |-> 404] \in events => p = Candidate
    BY DEF ListedIsServed
  <2>2. p \in Packages /\ p \in index.committed
    BY <2>1 DEF ConsumerInv, TypeInv, ServedInv
  <2>3. path \in served
    BY <2>1, <2>2 DEF ConsumerInv, ServedInv
  <2>4. p \in Dependencies => [path |-> path, status |-> 404] \notin events
    BY <2>1 DEF ConsumerInv, ServedInv
  <2>5. QED
    BY <2>2, <2>3, <2>4 DEF Packages
<1>2. QED
  BY <1>1, ConsumerInvariant, PTL

\* The exit code, the report on the disk and the directory agree at the end,
\* whichever of the cleanup and the write fail (536-548).
THEOREM ReportsAreTrue == Spec => []ReportIsTrue
<1>1. ConsumerInv => ReportIsTrue
  <2>1. SUFFICES ASSUME ConsumerInv PROVE ReportIsTrue
    OBVIOUS
  <2>2. /\ AfterAt \in Nat /\ EndedAt = AfterAt + 4 /\ pc \in 1..EndedAt /\ pc \in Nat
    BY <2>1, Lengths DEF PlanAt, AfterAt, EndedAt, ConsumerInv, TypeInv
  <2>3. Now({"ended"}) <=> pc = EndedAt
    BY <2>2, StageAt DEF Now, Placed
  <2>4. CASE pc < EndedAt
    BY <2>1, <2>2, <2>3, <2>4, NoneAssumption DEF ConsumerInv, VerdictInv, ReportIsTrue
  <2>5. CASE pc = EndedAt
    <3>1. None \notin Reports /\ report \in Reports
      BY <2>1, NoneAssumption DEF Reports, ConsumerInv, TypeInv
    <3>2. /\ report.temporary_cleanup = "GO" <=> temp = "gone"
          /\ report.status = "GO" => temp = "gone"
          /\ \/ results = report /\ exit = IF report.status = "GO" THEN 0 ELSE 1
             \/ results = None /\ exit = 1
      BY <2>1, <2>2, <2>5 DEF ConsumerInv, VerdictInv
    <3>3. QED
      BY <3>1, <3>2 DEF ReportIsTrue
  <2>6. QED
    BY <2>2, <2>4, <2>5
<1>2. QED
  BY <1>1, ConsumerInvariant, PTL

\* Whatever members an archive has, once its index lists it unpacking it puts
\* every file where it says and no other in its place; and nothing outside the
\* consumer is ever touched, whatever the client fetches (70-102, 417-476).
THEOREM AcceptedArchivesAreFaithful == Spec => []AcceptedIsFaithful
<1>1. ConsumerInv => AcceptedIsFaithful
  <2> SUFFICES ASSUME ConsumerInv PROVE AcceptedIsFaithful
    OBVIOUS
  <2>1. ASSUME NEW p \in Packages, p \in index.client PROVE Faithful(archive[p].members)
    <3>1. Spellings(p) \subseteq served
      BY <2>1 DEF ConsumerInv, ServedInv
    <3>2. <<"legacy", p>> \in Spellings(p)
      BY DEF Spellings
    <3>3. Accepted(p)
      BY <3>1, <3>2 DEF ConsumerInv, ArchiveInv
    <3> QED BY <3>3, CheckedIsFaithful DEF Accepted
  <2> QED BY <2>1 DEF ConsumerInv, ArchiveInv, AcceptedIsFaithful
<1>2. QED
  BY <1>1, ConsumerInvariant, PTL

=============================================================================
