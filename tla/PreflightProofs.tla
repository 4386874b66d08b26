-------------------------- MODULE PreflightProofs --------------------------
(***************************************************************************)
(* Proofs about Preflight, for every choice of limits, artifact lengths,   *)
(* sections, counts and widths.                                            *)
(***************************************************************************)
EXTENDS PreflightProperties, TLAPS

\* A body is open: its end is the innermost one.
InBody ==
    \/ pc \in {"locals", "body"}
    \/ pc = "expression" /\ after = "body"

\* Where the spans end before a section, in one and in a function body.
Spans ==
    /\ pc = "header" => declaredEnd = Header
    /\ pc = "section" => pos = declaredEnd
    /\ pc \notin {"header", "stopped"} => declaredEnd <= length
    /\ pc \notin {"header", "section", "stopped"} =>
          /\ pos <= end /\ end <= declaredEnd
          /\ IF InBody THEN sectionEnd = declaredEnd ELSE end = declaredEnd

\* memory.init and data.drop come only after the data count, and only a scan that
\* has stopped has a result.
DataCounted ==
    /\ dataUsed => dataCount # <<>>
    /\ res # "none" => pc = "stopped"

ScanInv == TypeOK /\ Spans /\ WorkIsBudgeted /\ DataCounted /\ AcceptedIsConsistent

-----------------------------------------------------------------------------
(* Names of budgets and loops, and the types of numbers.  The sets Budgets, *)
(* Levels and Constructs stay folded everywhere else.                       *)

LEMMA Names ==
    /\ "types" \in Budgets /\ "items" \in Budgets /\ "locals" \in Budgets
    /\ "functionLocals" \in Budgets /\ "instructions" \in Budgets
    /\ "outer" \in Levels /\ "middle" \in Levels /\ "inner" \in Levels
BY DEF Budgets, Levels

LEMMA Inputs ==
    /\ Widths \subseteq Nat /\ Counts \subseteq Nat /\ Lengths \subseteq Nat
    /\ Sections \subseteq 0..13
BY InputsAssumption

LEMMA NumberTypes ==
    TypeOK => /\ pos \in Nat /\ end \in Nat /\ sectionEnd \in Nat
              /\ declaredEnd \in Nat /\ length \in Nat /\ rounds \in Nat
              /\ used \in [Budgets -> Nat] /\ left \in [Levels -> Nat]
BY Inputs DEF TypeOK

-----------------------------------------------------------------------------
(* Types.                                                                  *)

LEMMA StopType ==
    ASSUME TypeOK, NEW r \in {"accepted", "invalid", "limit"}, Stop(r)
    PROVE  TypeOK'
BY DEF TypeOK, Stop, Goto, PCs

LEMMA TurnType ==
    ASSUME TypeOK, NEW to \in PCs, NEW from, Turn(from, to)
    PROVE  TypeOK'
BY DEF TypeOK, Turn, file, Goto

LEMMA VectorType ==
    ASSUME TypeOK, NEW w \in Nat, NEW n \in Nat, NEW level \in Levels,
           NEW label \in PCs, Vector(w, n, level, label)
    PROVE  TypeOK'
<1>1. pos' \in Nat /\ UNCHANGED <<file, end, after, frames, rounds>> /\ pc' \in PCs
  BY NumberTypes DEF Vector, Take, Goto
<1>2. used' \in [Budgets -> Nat]
  <2>1. used' = [used EXCEPT !["items"] = @ + n]
    BY DEF Vector
  <2> QED
    BY <2>1, NumberTypes, Names
<1>3. left' \in [Levels -> Nat]
  <2>1. left' = [left EXCEPT ![level] = n]
    BY DEF Vector
  <2> QED
    BY <2>1, NumberTypes
<1> QED
  BY <1>1, <1>2, <1>3 DEF TypeOK, file

LEMMA RoundType ==
    ASSUME TypeOK, NEW w \in Nat, NEW level \in Levels, Round(level, w)
    PROVE  /\ pos' \in Nat /\ rounds' \in Nat /\ left' \in [Levels -> Nat]
           /\ UNCHANGED <<file, end, used, frames>>
<1>1. pos' \in Nat /\ rounds' \in Nat /\ UNCHANGED <<file, end, used, frames>>
  BY NumberTypes DEF Round, RoundOf, Take
<1>2. left[level] - 1 \in Nat
  BY NumberTypes DEF Round
<1>3. left' = [left EXCEPT ![level] = left[level] - 1]
  BY DEF Round, RoundOf
<1> QED
  BY <1>1, <1>2, <1>3, NumberTypes

LEMMA OpcodeType ==
    ASSUME TypeOK, NEW w \in Nat, NEW n \in Nat, Opcode(w, n)
    PROVE  /\ pos' \in Nat /\ used' \in [Budgets -> Nat]
           /\ left' \in [Levels -> Nat]
           /\ UNCHANGED <<length, end, sectionEnd, section, last, tally, dataCount,
                          after, seen, declaredEnd, rounds, res>>
<1>1. pos' \in Nat
  BY NumberTypes DEF Opcode
<1>2. used' \in [Budgets -> Nat]
  BY NumberTypes, Names DEF Opcode
<1>3. left' \in [Levels -> Nat]
  BY NumberTypes, Names DEF Opcode
<1> QED
  BY <1>1, <1>2, <1>3 DEF Opcode

LEMMA FramesType ==
    ASSUME TypeOK
    PROVE  /\ \A kind \in {"block", "if", "try"} :
                 Append(frames, kind) \in Seq(Constructs)
           /\ frames # <<>> =>
                 /\ [frames EXCEPT ![Len(frames)] = "else"] \in Seq(Constructs)
                 /\ SubSeq(frames, 1, Len(frames) - 1) \in Seq(Constructs)
<1>1. \A kind \in {"block", "if", "try"} : Append(frames, kind) \in Seq(Constructs)
  BY DEF TypeOK, Constructs
<1>2. frames # <<>> => [frames EXCEPT ![Len(frames)] = "else"] \in Seq(Constructs)
  BY DEF TypeOK, Constructs
<1>3. frames # <<>> => SubSeq(frames, 1, Len(frames) - 1) \in Seq(Constructs)
  BY DEF TypeOK, Constructs
<1> QED
  BY <1>1, <1>2, <1>3

LEMMA TypeStep == TypeOK /\ [Next]_vars => TypeOK'
<1> SUFFICES ASSUME TypeOK, [Next]_vars PROVE TypeOK'
  OBVIOUS
<1>1. CASE Open
  BY <1>1, Names, Inputs, NumberTypes DEF TypeOK, PCs, Goto, file, Open, Header
<1>2. CASE NextSection
  <2>1. PICK id \in Sections, w \in Widths, size \in 0..length :
           /\ pos' = pos + 1 + w /\ end' = pos + 1 + w + size
           /\ declaredEnd' = pos + 1 + w + size
           /\ section' = id
           /\ last' = IF id = Custom THEN last ELSE SectionOrder(id)
           /\ seen' = IF id = Custom THEN seen ELSE Append(seen, id)
    BY <1>2 DEF NextSection
  <2>2. pos' \in Nat /\ end' \in Nat /\ declaredEnd' \in Nat
    BY <2>1, Inputs, NumberTypes
  <2>3. section' \in 0..13 /\ seen' \in Seq(0..13)
    <3>1. id \in 0..13 /\ seen \in Seq(0..13)
      BY Inputs DEF TypeOK
    <3>2. Append(seen, id) \in Seq(0..13)
      BY <3>1
    <3>3. section' = id /\ seen' \in {seen, Append(seen, id)}
      BY <2>1
    <3> QED
      BY <3>1, <3>2, <3>3
  <2>4. SectionOrder(id) \in 0..13
    BY <2>1, Inputs DEF SectionOrder
  <2>5. last' \in 0..13
    BY <2>1, <2>4 DEF TypeOK
  <2>6. used' \in [Budgets -> Nat]
    <3>1. used' = [used EXCEPT !["items"] = @ + 1]
      BY <1>2 DEF NextSection
    <3> QED
      BY <3>1, Names, NumberTypes
  <2>7. rounds' \in Nat /\ pc' \in PCs
    BY <1>2, NumberTypes DEF NextSection, Goto, PCs
  <2>8. UNCHANGED <<length, sectionEnd, tally, dataCount, left, after, frames,
                   dataUsed, res>>
    BY <1>2 DEF NextSection
  <2> QED
    BY <2>2, <2>3, <2>5, <2>6, <2>7, <2>8 DEF TypeOK
<1>3. CASE SkipCustom
  BY <1>3, Names, Inputs, NumberTypes DEF TypeOK, PCs, Goto, file, SkipCustom, Take
<1>4. CASE ReadNumber
  BY <1>4, Names, Inputs, NumberTypes DEF TypeOK, PCs, Goto, file, ReadNumber, Fits
<1>5. CASE Contents
  BY <1>5, Names, Inputs, VectorType DEF Contents, PCs
<1>6. CASE CountedContents
  <2>1. PICK w \in Widths, n \in Counts :
           /\ pos' = pos + w
           /\ used' = [used EXCEPT !["items"] = @ + n]
           /\ tally' = [tally EXCEPT ![section] = n]
           /\ left' = [left EXCEPT !["outer"] = n]
    BY <1>6 DEF CountedContents
  <2>2. used' \in [Budgets -> Nat] /\ pos' \in Nat
    BY <2>1, Names, Inputs, NumberTypes
  <2>3. tally' \in [{3, 10, 11} -> Nat]
    BY <1>6, <2>1, Inputs DEF CountedContents, TypeOK
  <2>4. left' \in [Levels -> Nat]
    BY <2>1, Names, Inputs, NumberTypes
  <2> QED
    BY <1>6, <2>2, <2>3, <2>4 DEF CountedContents, TypeOK, PCs, Goto
<1>7. CASE EndSection
  BY <1>7, StopType, TurnType DEF EndSection, PCs
<1>8. CASE Finish
  BY <1>8, StopType DEF Finish
<1>9. CASE ScanEntry
  <2>1. PICK w \in Widths : Round("outer", w)
    BY <1>9 DEF ScanEntry
  <2> QED
    BY <1>9, <2>1, Names, Inputs, RoundType DEF ScanEntry, TypeOK, file
<1>10. CASE ScanInitialized
  <2>1. PICK w \in Widths : Round("outer", w)
    BY <1>10 DEF ScanInitialized
  <2>2. after' \in {"segment", "payload", "elements"} /\ pc' \in PCs
    BY <1>10 DEF ScanInitialized, Goto, PCs
  <2> QED
    BY <2>1, <2>2, Names, Inputs, RoundType DEF TypeOK, file
<1>11. CASE ScanPayload
  BY <1>11, Names, Inputs, NumberTypes DEF TypeOK, PCs, Goto, file, ScanPayload, Take, Fits
<1>12. CASE Entries
  BY <1>12, Names, Inputs, VectorType DEF Entries, PCs
<1>13. CASE ScanIndex
  <2>1. PICK w \in Widths : Round("middle", w)
    BY <1>13 DEF ScanIndex
  <2> QED
    BY <1>13, <2>1, Names, Inputs, RoundType DEF ScanIndex, TypeOK, file
<1>14. CASE ScanInitializer
  BY <1>14, Names, RoundType DEF ScanInitializer, TypeOK, file, PCs, Goto
<1>15. CASE ScanGroup
  <2>1. PICK n \in Counts \cup {1}, w \in Widths \cup {0} :
           /\ Take(w)
           /\ used' = [used EXCEPT !["types"] = @ + n, !["items"] = @ + GroupItems(n)]
           /\ left' = [left EXCEPT !["outer"] = @ - 1, !["middle"] = n]
    BY <1>15 DEF ScanGroup
  <2>2. n \in Nat /\ w \in Nat /\ left["outer"] > 0
    BY <1>15, <2>1, Inputs DEF ScanGroup
  <2>3. used' \in [Budgets -> Nat]
    BY <2>1, <2>2, Names, NumberTypes DEF GroupItems
  <2>4. left["outer"] - 1 \in Nat
    BY <2>2, Names, NumberTypes
  <2>5. left' \in [Levels -> Nat]
    BY <2>1, <2>2, <2>4, Names, NumberTypes
  <2>6. pos' \in Nat /\ UNCHANGED file /\ UNCHANGED end
    BY <2>1, <2>2, NumberTypes DEF Take
  <2>7. rounds' \in Nat /\ pc' \in PCs /\ UNCHANGED <<after, frames>>
    BY <1>15, NumberTypes DEF ScanGroup, Goto, PCs
  <2> QED
    BY <2>3, <2>5, <2>6, <2>7 DEF TypeOK, file
<1>16. CASE ScanType
  <2>1. PICK w \in Widths, supertypes \in 0..1, n \in Counts \cup {1} :
           /\ Take(w)
           /\ used' = [used EXCEPT !["items"] = @ + (supertypes + n)]
           /\ left' = [left EXCEPT !["middle"] = @ - 1, !["inner"] = n]
    BY <1>16 DEF ScanType
  <2>2. n \in Nat /\ w \in Nat /\ left["middle"] > 0
    BY <1>16, <2>1, Inputs DEF ScanType
  <2>3. used' \in [Budgets -> Nat]
    BY <2>1, <2>2, Names, NumberTypes
  <2>4. left["middle"] - 1 \in Nat
    BY <2>2, Names, NumberTypes
  <2>5. left' \in [Levels -> Nat]
    BY <2>1, <2>2, <2>4, Names, NumberTypes
  <2>6. pos' \in Nat /\ UNCHANGED file /\ UNCHANGED end
    BY <2>1, <2>2, NumberTypes DEF Take
  <2>7. rounds' \in Nat /\ pc' \in PCs /\ UNCHANGED <<after, frames>>
    BY <1>16, NumberTypes DEF ScanType, PCs
  <2> QED
    BY <2>3, <2>5, <2>6, <2>7 DEF TypeOK, file
<1>17. CASE Results
  BY <1>17, Names, Inputs, VectorType DEF Results, PCs
<1>18. CASE ScanInner
  <2>1. PICK w \in Widths : Round("inner", w)
    BY <1>18 DEF ScanInner
  <2> QED
    BY <1>18, <2>1, Names, Inputs, RoundType DEF ScanInner, TypeOK, file
<1>19. CASE EndLoop
  BY <1>19, TurnType DEF EndLoop, PCs
<1>20. CASE OpenBody
  <2>1. PICK w \in Widths, v \in Widths, n \in Counts, size \in 0..length :
           /\ pos' = pos + w + v /\ end' = pos + w + size
           /\ used' = [used EXCEPT !["items"] = @ + n, !["functionLocals"] = 0]
           /\ left' = [left EXCEPT !["outer"] = @ - 1, !["middle"] = n]
    BY <1>20 DEF OpenBody
  <2>2. pos' \in Nat /\ end' \in Nat /\ sectionEnd' \in Nat
    BY <1>20, <2>1, Inputs, NumberTypes DEF OpenBody
  <2>3. used' \in [Budgets -> Nat]
    BY <2>1, Inputs, Names, NumberTypes
  <2>4. left["outer"] - 1 \in Nat
    BY <1>20, Names, NumberTypes DEF OpenBody
  <2>5. left' \in [Levels -> Nat]
    BY <2>1, <2>4, Inputs, Names, NumberTypes
  <2>6. rounds' \in Nat /\ pc' \in PCs
    BY <1>20, NumberTypes DEF OpenBody, Goto, PCs
  <2>7. UNCHANGED <<length, section, last, tally, dataCount, after, frames, dataUsed,
                   seen, declaredEnd, res>>
    BY <1>20 DEF OpenBody
  <2> QED
    BY <2>2, <2>3, <2>5, <2>6, <2>7 DEF TypeOK
<1>21. CASE ScanLocals
  <2>1. PICK w \in Widths, n \in Counts :
           /\ Take(w)
           /\ used' = [used EXCEPT !["functionLocals"] = @ + n, !["locals"] = @ + n]
    BY <1>21 DEF ScanLocals
  <2>2. used' \in [Budgets -> Nat]
    BY <2>1, Inputs, Names, NumberTypes
  <2>3. left["middle"] - 1 \in Nat
    BY <1>21, Names, NumberTypes DEF ScanLocals
  <2>4. left' \in [Levels -> Nat]
    BY <1>21, <2>3, Names, NumberTypes DEF ScanLocals
  <2>5. pos' \in Nat /\ UNCHANGED file /\ UNCHANGED end
    BY <2>1, Inputs, NumberTypes DEF Take
  <2>6. rounds' \in Nat /\ UNCHANGED <<pc, after, frames>>
    BY <1>21, NumberTypes DEF ScanLocals
  <2> QED
    BY <2>2, <2>4, <2>5, <2>6 DEF TypeOK, file
<1>22. CASE BeginCode
  BY <1>22, Names, Inputs, NumberTypes DEF TypeOK, PCs, Goto, file, BeginCode
<1>23. CASE EndBody
  <2>1. CASE pos # end
    BY <1>23, <2>1, StopType DEF EndBody
  <2>2. CASE pos = end
    <3>1. pc' \in PCs
      BY <1>23, <2>2 DEF EndBody, Goto, PCs
    <3> QED
      BY <1>23, <2>2, <3>1 DEF EndBody, EndAfterBody, TypeOK, file
  <2> QED
    BY <2>1, <2>2
<1>24. CASE Simple
  <2>1. PICK w \in Widths, n \in Counts \cup {0} : Opcode(w, n)
    BY <1>24 DEF Simple
  <2> QED
    BY <1>24, <2>1, Inputs, OpcodeType DEF Simple, TypeOK
<1>25. CASE UseData
  <2>1. PICK w \in Widths : Opcode(1 + w, 0)
    BY <1>25 DEF UseData
  <2>2. 1 + w \in Nat
    BY <2>1, Inputs
  <2> QED
    BY <1>25, <2>1, <2>2, OpcodeType DEF UseData, TypeOK
<1>26. CASE OpenConstruct
  <2>1. PICK w \in Widths, kind \in {"block", "if", "try"}, n \in Counts \cup {0} :
           Opcode(1 + w, n) /\ frames' = Append(frames, kind)
    BY <1>26 DEF OpenConstruct
  <2>2. 1 + w \in Nat /\ n \in Nat
    BY <2>1, Inputs
  <2> QED
    BY <1>26, <2>1, <2>2, OpcodeType, FramesType DEF OpenConstruct, TypeOK
<1>27. CASE Else
  BY <1>27, OpcodeType, FramesType DEF Else, TypeOK
<1>28. CASE EndConstruct
  BY <1>28, OpcodeType, FramesType DEF EndConstruct, TypeOK
<1>29. CASE EndExpression
  BY <1>29, OpcodeType DEF EndExpression, TypeOK, PCs, Goto
<1>30. CASE OverLimit
  BY <1>30, StopType DEF OverLimit
<1>31. CASE Malformed
  BY <1>31, StopType DEF Malformed
<1>32. CASE UNCHANGED vars
  BY <1>32 DEF vars, file, TypeOK
<1> QED
  BY <1>1, <1>2, <1>3, <1>4, <1>5, <1>6, <1>7, <1>8, <1>9, <1>10, <1>11, <1>12,
     <1>13, <1>14, <1>15, <1>16, <1>17, <1>18, <1>19, <1>20, <1>21, <1>22, <1>23,
     <1>24, <1>25, <1>26, <1>27, <1>28, <1>29, <1>30, <1>31, <1>32 DEF Next
-----------------------------------------------------------------------------
(* Budgets.                                                                *)

LEMMA ButLastLength ==
    ASSUME NEW S, NEW s \in Seq(S), s # <<>>
    PROVE  Len(SubSeq(s, 1, Len(s) - 1)) = Len(s) - 1
<1>1. PICK n \in Nat : n + 1 = Len(s)
  OBVIOUS
<1>2. Len(SubSeq(s, 1, n)) = n /\ n = Len(s) - 1
  BY <1>1
<1> QED
  BY <1>2

LEMMA LimitTypes == /\ \A b \in Budgets : Limits[b] \in Nat
                    /\ Limits["depth"] \in Nat /\ Limits["bytes"] \in Nat
BY LimitsAssumption

LEMMA CountTypes ==
    TypeOK => /\ rounds \in Nat /\ used["items"] \in Nat
              /\ left["outer"] \in Nat /\ left["middle"] \in Nat
              /\ left["inner"] \in Nat
BY Names, NumberTypes

LEMMA RoundsCharged ==
    WorkIsBudgeted =>
        rounds + left["outer"] + left["middle"] + left["inner"] <= used["items"]
BY DEF WorkIsBudgeted

LEMMA StopBudget ==
    ASSUME WorkIsBudgeted, NEW r, Stop(r)
    PROVE  WorkIsBudgeted'
BY DEF Stop, WorkIsBudgeted

LEMMA TurnBudget ==
    ASSUME WorkIsBudgeted, NEW from, NEW to, Turn(from, to)
    PROVE  WorkIsBudgeted'
BY DEF Turn, WorkIsBudgeted

LEMMA RoundBudget ==
    ASSUME TypeOK, WorkIsBudgeted, NEW w, NEW level \in Levels, Round(level, w)
    PROVE  WorkIsBudgeted'
<1>1. /\ left' = [left EXCEPT ![level] = left[level] - 1]
      /\ rounds' = rounds + 1 /\ UNCHANGED <<used, frames>>
  BY DEF Round, RoundOf
<1>2. level \in {"outer", "middle", "inner"}
  BY DEF Levels
<1>3. rounds' + left'["outer"] + left'["middle"] + left'["inner"]
        = rounds + left["outer"] + left["middle"] + left["inner"]
  <2>1. CASE level = "outer"
    BY <1>1, <2>1, Names, NumberTypes
  <2>2. CASE level = "middle"
    BY <1>1, <2>2, Names, NumberTypes
  <2>3. CASE level = "inner"
    BY <1>1, <2>3, Names, NumberTypes
  <2> QED
    BY <1>2, <2>1, <2>2, <2>3
<1> QED
  BY <1>1, <1>3 DEF WorkIsBudgeted

LEMMA VectorBudget ==
    ASSUME TypeOK, WorkIsBudgeted, NEW w, NEW n \in Nat, NEW level \in Levels,
           NEW label, Vector(w, n, level, label)
    PROVE  WorkIsBudgeted'
<1>1. /\ used' = [used EXCEPT !["items"] = used["items"] + n]
      /\ left' = [left EXCEPT ![level] = n] /\ UNCHANGED <<frames, rounds>>
      /\ used["items"] + n <= Limits["items"]
  BY DEF Vector, Within
<1>2. level \in {"outer", "middle", "inner"}
  BY DEF Levels
<1>3. used'["items"] = used["items"] + n
  BY <1>1, Names, NumberTypes
<1>4. rounds' + left'["outer"] + left'["middle"] + left'["inner"]
        <= rounds + left["outer"] + left["middle"] + left["inner"] + n
  <2>1. CASE level = "outer"
    BY <1>1, <2>1, Names, NumberTypes
  <2>2. CASE level = "middle"
    BY <1>1, <2>2, Names, NumberTypes
  <2>3. CASE level = "inner"
    BY <1>1, <2>3, Names, NumberTypes
  <2> QED
    BY <1>2, <2>1, <2>2, <2>3
<1>5. \A b \in Budgets : used'[b] <= Limits[b]
  BY <1>1, Names, NumberTypes DEF WorkIsBudgeted
<1>6. rounds' + left'["outer"] + left'["middle"] + left'["inner"] <= used'["items"]
  <2>1. /\ left["outer"] \in Nat /\ left["middle"] \in Nat /\ left["inner"] \in Nat
        /\ left'["outer"] \in Nat /\ left'["middle"] \in Nat /\ left'["inner"] \in Nat
        /\ used["items"] \in Nat /\ rounds \in Nat /\ rounds' = rounds
    BY <1>1, Names, NumberTypes
  <2>2. rounds + left["outer"] + left["middle"] + left["inner"] + n <= used'["items"]
    BY <1>3, <2>1, RoundsCharged
  <2> QED
    BY <1>3, <1>4, <2>1, <2>2
<1> QED
  BY <1>1, <1>5, <1>6 DEF WorkIsBudgeted

LEMMA OpcodeBudget ==
    ASSUME TypeOK, WorkIsBudgeted, NEW w, NEW n \in Nat, Opcode(w, n),
           Len(frames') <= Limits["depth"]
    PROVE  WorkIsBudgeted'
<1>1. /\ used' = [used EXCEPT !["instructions"] = used["instructions"] + 1,
                              !["items"] = used["items"] + n]
      /\ left' = [left EXCEPT !["inner"] = n] /\ rounds' = rounds
      /\ used["instructions"] + 1 <= Limits["instructions"]
      /\ used["items"] + n <= Limits["items"]
  BY DEF Opcode, Within
<1>2. /\ left'["outer"] = left["outer"] /\ left'["middle"] = left["middle"]
      /\ left'["inner"] = n
  BY <1>1, Names, NumberTypes
<1>3. used'["items"] = used["items"] + n
  BY <1>1, Names, NumberTypes
<1>4. \A b \in Budgets : used'[b] <= Limits[b]
  BY <1>1, Names, NumberTypes DEF WorkIsBudgeted
<1>5. rounds' + left'["outer"] + left'["middle"] + left'["inner"] <= used'["items"]
  BY <1>1, <1>2, <1>3, CountTypes, RoundsCharged
<1> QED
  BY <1>4, <1>5 DEF WorkIsBudgeted

LEMMA BudgetStep ==
    ASSUME TypeOK, WorkIsBudgeted, [Next]_vars
    PROVE  WorkIsBudgeted'
<1>1. CASE Open
  BY <1>1 DEF Open, WorkIsBudgeted
<1>2. CASE NextSection
  <2>1. /\ used' = [used EXCEPT !["items"] = used["items"] + 1]
        /\ rounds' = rounds + 1 /\ UNCHANGED <<left, frames>>
        /\ used["items"] + 1 <= Limits["items"]
    BY <1>2 DEF NextSection, Within
  <2>2. used'["items"] = used["items"] + 1
    BY <2>1, Names, NumberTypes
  <2>3. \A b \in Budgets : used'[b] <= Limits[b]
    BY <2>1, Names, NumberTypes DEF WorkIsBudgeted
  <2> QED
    <3>1. rounds' + left'["outer"] + left'["middle"] + left'["inner"] <= used'["items"]
      BY <2>1, <2>2, CountTypes, RoundsCharged
    <3>2. Len(frames') <= Limits["depth"]
      BY <2>1 DEF WorkIsBudgeted
    <3> QED
      BY <2>3, <3>1, <3>2 DEF WorkIsBudgeted
<1>3. CASE SkipCustom
  BY <1>3 DEF SkipCustom, WorkIsBudgeted
<1>4. CASE ReadNumber
  BY <1>4 DEF ReadNumber, WorkIsBudgeted
<1>5. CASE Contents
  BY <1>5, Names, Inputs, VectorBudget DEF Contents
<1>6. CASE CountedContents
  <2>1. PICK n \in Counts :
           /\ used' = [used EXCEPT !["items"] = used["items"] + n]
           /\ left' = [left EXCEPT !["outer"] = n]
           /\ used["items"] + n <= Limits["items"]
    BY <1>6 DEF CountedContents, Within
  <2>2. n \in Nat /\ UNCHANGED <<rounds, frames>>
    BY <1>6, Inputs DEF CountedContents
  <2>3. used'["items"] = used["items"] + n
    BY <2>1, Names, NumberTypes
  <2>4. \A b \in Budgets : used'[b] <= Limits[b]
    BY <2>1, Names, NumberTypes DEF WorkIsBudgeted
  <2>5. /\ left'["outer"] = n /\ left'["middle"] = left["middle"]
        /\ left'["inner"] = left["inner"]
    BY <2>1, Names, NumberTypes
  <2> QED
    <3>1. rounds' + left'["outer"] + left'["middle"] + left'["inner"] <= used'["items"]
      BY <2>2, <2>3, <2>5, CountTypes, RoundsCharged
    <3>2. Len(frames') <= Limits["depth"]
      BY <2>2 DEF WorkIsBudgeted
    <3> QED
      BY <2>4, <3>1, <3>2 DEF WorkIsBudgeted
<1>7. CASE EndSection
  BY <1>7, StopBudget, TurnBudget DEF EndSection
<1>8. CASE Finish
  BY <1>8, StopBudget DEF Finish
<1>9. CASE ScanEntry
  BY <1>9, Names, RoundBudget DEF ScanEntry
<1>10. CASE ScanInitialized
  BY <1>10, Names, RoundBudget DEF ScanInitialized
<1>11. CASE ScanPayload
  BY <1>11 DEF ScanPayload, WorkIsBudgeted
<1>12. CASE Entries
  BY <1>12, Names, Inputs, VectorBudget DEF Entries
<1>13. CASE ScanIndex
  BY <1>13, Names, RoundBudget DEF ScanIndex
<1>14. CASE ScanInitializer
  BY <1>14, Names, RoundBudget DEF ScanInitializer
<1>15. CASE ScanGroup
  <2>1. PICK n \in Counts \cup {1} :
           /\ used' = [used EXCEPT !["types"] = used["types"] + n,
                                   !["items"] = used["items"] + n]
           /\ left' = [left EXCEPT !["outer"] = left["outer"] - 1, !["middle"] = n]
           /\ used["types"] + n <= Limits["types"]
           /\ used["items"] + n <= Limits["items"]
    BY <1>15 DEF ScanGroup, Within, GroupItems
  <2>2. n \in Nat /\ rounds' = rounds + 1 /\ UNCHANGED frames
    BY <1>15, Inputs DEF ScanGroup
  <2>3. used'["items"] = used["items"] + n
    BY <2>1, Names, NumberTypes
  <2>4. \A b \in Budgets : used'[b] <= Limits[b]
    BY <2>1, Names, NumberTypes DEF WorkIsBudgeted
  <2>5. /\ left'["outer"] = left["outer"] - 1 /\ left'["middle"] = n
        /\ left'["inner"] = left["inner"]
    BY <2>1, Names, NumberTypes
  <2> QED
    <3>1. rounds' + left'["outer"] + left'["middle"] + left'["inner"] <= used'["items"]
      BY <2>2, <2>3, <2>5, CountTypes, RoundsCharged
    <3>2. Len(frames') <= Limits["depth"]
      BY <2>2 DEF WorkIsBudgeted
    <3> QED
      BY <2>4, <3>1, <3>2 DEF WorkIsBudgeted
<1>16. CASE ScanType
  <2>1. PICK supertypes \in 0..1, n \in Counts \cup {1} :
           /\ used' = [used EXCEPT !["items"] = used["items"] + (supertypes + n)]
           /\ left' = [left EXCEPT !["middle"] = left["middle"] - 1, !["inner"] = n]
           /\ used["items"] + (supertypes + n) <= Limits["items"]
    BY <1>16 DEF ScanType, Within
  <2>2. n \in Nat /\ rounds' = rounds + 1 /\ UNCHANGED frames
    BY <1>16, Inputs DEF ScanType
  <2>3. used'["items"] = used["items"] + (supertypes + n)
    BY <2>1, Names, NumberTypes
  <2>4. \A b \in Budgets : used'[b] <= Limits[b]
    BY <2>1, Names, NumberTypes DEF WorkIsBudgeted
  <2>5. /\ left'["outer"] = left["outer"] /\ left'["middle"] = left["middle"] - 1
        /\ left'["inner"] = n
    BY <2>1, Names, NumberTypes
  <2> QED
    <3>1. rounds' + left'["outer"] + left'["middle"] + left'["inner"] <= used'["items"]
      BY <2>2, <2>3, <2>5, CountTypes, RoundsCharged
    <3>2. Len(frames') <= Limits["depth"]
      BY <2>2 DEF WorkIsBudgeted
    <3> QED
      BY <2>4, <3>1, <3>2 DEF WorkIsBudgeted
<1>17. CASE Results
  BY <1>17, Names, Inputs, VectorBudget DEF Results
<1>18. CASE ScanInner
  BY <1>18, Names, RoundBudget DEF ScanInner
<1>19. CASE EndLoop
  BY <1>19, TurnBudget DEF EndLoop
<1>20. CASE OpenBody
  <2>1. PICK n \in Counts :
           /\ used' = [used EXCEPT !["items"] = used["items"] + n,
                                   !["functionLocals"] = 0]
           /\ left' = [left EXCEPT !["outer"] = left["outer"] - 1, !["middle"] = n]
           /\ used["items"] + n <= Limits["items"]
    BY <1>20 DEF OpenBody, Within
  <2>2. n \in Nat /\ rounds' = rounds + 1 /\ UNCHANGED frames
    BY <1>20, Inputs DEF OpenBody
  <2>3. used'["items"] = used["items"] + n
    BY <2>1, Names, NumberTypes
  <2>4. \A b \in Budgets : used'[b] <= Limits[b]
    <3>1. /\ used'["items"] = used["items"] + n /\ used'["functionLocals"] = 0
          /\ \A b \in Budgets \ {"items", "functionLocals"} : used'[b] = used[b]
      BY <2>1, Names, NumberTypes
    <3>2. Limits["functionLocals"] \in Nat
      BY Names, LimitTypes
    <3>3. used'["functionLocals"] <= Limits["functionLocals"]
      BY <3>1, <3>2
    <3>4. used'["items"] <= Limits["items"]
      BY <2>1, <3>1
    <3>5. \A b \in Budgets \ {"items", "functionLocals"} : used'[b] <= Limits[b]
      BY <3>1 DEF WorkIsBudgeted
    <3> QED
      BY <3>3, <3>4, <3>5
  <2>5. /\ left'["outer"] = left["outer"] - 1 /\ left'["middle"] = n
        /\ left'["inner"] = left["inner"]
    BY <2>1, Names, NumberTypes
  <2> QED
    <3>1. rounds' + left'["outer"] + left'["middle"] + left'["inner"] <= used'["items"]
      BY <2>2, <2>3, <2>5, CountTypes, RoundsCharged
    <3>2. Len(frames') <= Limits["depth"]
      BY <2>2 DEF WorkIsBudgeted
    <3> QED
      BY <2>4, <3>1, <3>2 DEF WorkIsBudgeted
<1>21. CASE ScanLocals
  <2>1. PICK n \in Counts :
           /\ used' = [used EXCEPT !["functionLocals"] = used["functionLocals"] + n,
                                   !["locals"] = used["locals"] + n]
           /\ used["functionLocals"] + n <= Limits["functionLocals"]
           /\ used["locals"] + n <= Limits["locals"]
    BY <1>21 DEF ScanLocals, Within
  <2>2. /\ left' = [left EXCEPT !["middle"] = left["middle"] - 1]
        /\ rounds' = rounds + 1 /\ UNCHANGED frames
    BY <1>21 DEF ScanLocals
  <2>3. used'["items"] = used["items"]
    BY <2>1, Names, NumberTypes
  <2>4. \A b \in Budgets : used'[b] <= Limits[b]
    BY <2>1, Names, NumberTypes DEF WorkIsBudgeted
  <2>5. /\ left'["outer"] = left["outer"] /\ left'["middle"] = left["middle"] - 1
        /\ left'["inner"] = left["inner"]
    BY <2>2, Names, NumberTypes
  <2> QED
    <3>1. rounds' + left'["outer"] + left'["middle"] + left'["inner"] <= used'["items"]
      BY <2>2, <2>3, <2>5, CountTypes, RoundsCharged
    <3>2. Len(frames') <= Limits["depth"]
      BY <2>2 DEF WorkIsBudgeted
    <3> QED
      BY <2>4, <3>1, <3>2 DEF WorkIsBudgeted
<1>22. CASE BeginCode
  BY <1>22 DEF BeginCode, WorkIsBudgeted
<1>23. CASE EndBody
  BY <1>23, StopBudget DEF EndBody, WorkIsBudgeted
<1>24. CASE Simple
  <2>1. PICK w \in Widths, n \in Counts \cup {0} : Opcode(w, n)
    BY <1>24 DEF Simple
  <2>2. n \in Nat /\ Len(frames') <= Limits["depth"]
    BY <1>24, Inputs DEF Simple, WorkIsBudgeted
  <2> QED
    BY <2>1, <2>2, OpcodeBudget
<1>25. CASE UseData
  <2>1. PICK w \in Widths : Opcode(1 + w, 0)
    BY <1>25 DEF UseData
  <2>2. Len(frames') <= Limits["depth"]
    BY <1>25 DEF UseData, WorkIsBudgeted
  <2> QED
    BY <2>1, <2>2, OpcodeBudget
<1>26. CASE OpenConstruct
  <2>1. PICK w \in Widths, kind \in {"block", "if", "try"}, n \in Counts \cup {0} :
           Opcode(1 + w, n) /\ frames' = Append(frames, kind)
    BY <1>26 DEF OpenConstruct
  <2>2. n \in Nat /\ Len(frames) \in Nat /\ Len(frames') = Len(frames) + 1
    BY <2>1, Inputs DEF TypeOK
  <2>3. Len(frames') <= Limits["depth"]
    BY <1>26, <2>2, LimitTypes DEF OpenConstruct
  <2> QED
    BY <2>1, <2>2, <2>3, OpcodeBudget
<1>27. CASE Else
  <2>1. Len(frames') = Len(frames)
    BY <1>27 DEF Else, TypeOK
  <2> QED
    BY <1>27, <2>1, OpcodeBudget DEF Else, WorkIsBudgeted
<1>28. CASE EndConstruct
  <2>1. frames \in Seq(Constructs) /\ frames # <<>>
    BY <1>28 DEF EndConstruct, TypeOK
  <2>2. Len(frames) \in Nat /\ Len(frames) # 0
    BY <2>1
  <2>3. frames' = SubSeq(frames, 1, Len(frames) - 1)
    BY <1>28 DEF EndConstruct
  <2>4. Len(frames') = Len(frames) - 1
    BY <2>1, <2>3, ButLastLength
  <2>5. Len(frames') <= Limits["depth"]
    BY <2>2, <2>4, LimitTypes DEF WorkIsBudgeted
  <2> QED
    BY <1>28, <2>5, OpcodeBudget DEF EndConstruct
<1>29. CASE EndExpression
  BY <1>29, OpcodeBudget DEF EndExpression, WorkIsBudgeted
<1>30. CASE OverLimit
  BY <1>30, StopBudget DEF OverLimit
<1>31. CASE Malformed
  BY <1>31, StopBudget DEF Malformed
<1>32. CASE UNCHANGED vars
  BY <1>32 DEF vars, WorkIsBudgeted
<1> QED
  BY <1>1, <1>2, <1>3, <1>4, <1>5, <1>6, <1>7, <1>8, <1>9, <1>10, <1>11, <1>12, <1>13,
     <1>14, <1>15, <1>16, <1>17, <1>18, <1>19, <1>20, <1>21, <1>22, <1>23, <1>24,
     <1>25, <1>26, <1>27, <1>28, <1>29, <1>30, <1>31, <1>32 DEF Next

-----------------------------------------------------------------------------
(* Spans.                                                                  *)

LEMMA InsideSpans ==
    ASSUME TypeOK, Spans, pc \notin {"header", "section", "stopped"},
           pc' \notin {"header", "section", "stopped"}, InBody' <=> InBody,
           UNCHANGED <<length, end, sectionEnd, declaredEnd>>, pos' <= end
    PROVE  Spans'
<1>1. pos' <= end' /\ end' <= declaredEnd' /\ declaredEnd' <= length'
  BY DEF Spans
<1>2. IF InBody' THEN sectionEnd' = declaredEnd' ELSE end' = declaredEnd'
  BY DEF Spans
<1> QED
  BY <1>1, <1>2 DEF Spans

LEMMA StopSpans ==
    ASSUME NEW r, Stop(r)
    PROVE  Spans'
BY DEF Stop, Goto, Spans

LEMMA TurnSpans ==
    ASSUME TypeOK, Spans, NEW from \in {"types", "fields", "indices", "initializers"},
           NEW to \in {"types", "elements"}, Turn(from, to)
    PROVE  Spans'
<1>1. /\ pc \notin {"header", "section", "stopped"} /\ ~InBody
      /\ pc' \notin {"header", "section", "stopped"} /\ ~InBody'
  BY DEF Turn, Goto, InBody
<1>2. pos' <= end /\ UNCHANGED <<length, end, sectionEnd, declaredEnd>>
  BY <1>1 DEF Turn, Spans, file
<1> QED
  BY <1>1, <1>2, InsideSpans

LEMMA RoundSpans ==
    ASSUME TypeOK, Spans, NEW w, NEW level, Round(level, w),
           pc \notin {"header", "section", "stopped"},
           pc' \notin {"header", "section", "stopped"}, InBody' <=> InBody
    PROVE  Spans'
<1>1. pos' <= end /\ UNCHANGED <<length, end, sectionEnd, declaredEnd>>
  BY DEF Round, RoundOf, Fits, Take, file
<1> QED
  BY <1>1, InsideSpans

LEMMA VectorSpans ==
    ASSUME TypeOK, Spans, NEW w, NEW n, NEW level, NEW label, Vector(w, n, level, label),
           pc \in {"contents", "segment", "parameters"},
           label \in {"elements", "indices", "initializers", "fields"}
    PROVE  Spans'
<1>1. pos' <= end /\ UNCHANGED <<length, end, sectionEnd, declaredEnd>> /\ pc' = label
  BY DEF Vector, Fits, Take, file, Goto
<1>2. ~InBody /\ ~InBody'
  BY <1>1 DEF InBody
<1> QED
  BY <1>1, <1>2, InsideSpans

LEMMA OpcodeSpans ==
    ASSUME TypeOK, Spans, NEW w, NEW n, Opcode(w, n), pc' \in {pc, after}
    PROVE  Spans'
<1>1. /\ pos' <= end /\ pc = "expression" /\ after' = after
      /\ UNCHANGED <<length, end, sectionEnd, declaredEnd>>
  BY DEF Opcode, Fits
<1>2. after \in {"elements", "segment", "payload", "initializers", "body"}
  BY DEF TypeOK
<1>3. InBody' <=> InBody
  BY <1>1, <1>2 DEF InBody
<1> QED
  BY <1>1, <1>2, <1>3, InsideSpans

LEMMA SpanStep ==
    ASSUME TypeOK, Spans, [Next]_vars
    PROVE  Spans'
<1>1. CASE Open
  BY <1>1 DEF Open, Header, Goto, Spans, file
<1>2. CASE NextSection
  <2>1. PICK w \in Widths, size \in 0..length :
           /\ pos + 1 + w + size <= length
           /\ pos' = pos + 1 + w /\ end' = pos + 1 + w + size
           /\ declaredEnd' = pos + 1 + w + size
    BY <1>2 DEF NextSection
  <2>2. /\ pos' <= end' /\ end' <= declaredEnd' /\ end' = declaredEnd'
        /\ declaredEnd' <= length
    BY <2>1, Inputs, NumberTypes
  <2>3. pc' = "contents" /\ length' = length
    BY <1>2 DEF NextSection, Goto
  <2> QED
    BY <2>2, <2>3 DEF Spans, InBody
<1>3. CASE SkipCustom
  <2>1. pos' <= end /\ UNCHANGED <<length, end, sectionEnd, declaredEnd>>
    BY <1>3, NumberTypes DEF SkipCustom, Take, file
  <2>2. pc = "contents" /\ pc' = "elements"
    BY <1>3 DEF SkipCustom, Goto
  <2> QED
    BY <2>1, <2>2, InsideSpans DEF InBody
<1>4. CASE ReadNumber
  <2>1. pos' <= end /\ UNCHANGED <<length, end, sectionEnd, declaredEnd>>
    BY <1>4 DEF ReadNumber, Fits
  <2>2. pc = "contents" /\ pc' = "elements"
    BY <1>4 DEF ReadNumber, Goto
  <2> QED
    BY <2>1, <2>2, InsideSpans DEF InBody
<1>5. CASE Contents
  BY <1>5, VectorSpans DEF Contents
<1>6. CASE CountedContents
  <2>1. pos' <= end /\ UNCHANGED <<length, end, sectionEnd, declaredEnd>>
    BY <1>6 DEF CountedContents, Fits
  <2>2. pc = "contents" /\ pc' = "elements"
    BY <1>6 DEF CountedContents, Goto
  <2> QED
    BY <2>1, <2>2, InsideSpans DEF InBody
<1>7. CASE EndSection
  <2>1. CASE pos = end /\ Turn("elements", "section")
    <3>1. /\ pc = "elements" /\ pc' = "section"
          /\ UNCHANGED <<length, pos, end, declaredEnd>>
      BY <2>1 DEF Turn, Goto, file
    <3>2. pos = declaredEnd /\ declaredEnd <= length
      BY <2>1, <3>1 DEF Spans, InBody
    <3> QED
      BY <3>1, <3>2 DEF Spans
  <2>2. CASE Stop("invalid")
    BY <2>2, StopSpans
  <2> QED
    BY <1>7, <2>1, <2>2 DEF EndSection
<1>8. CASE Finish
  BY <1>8, StopSpans DEF Finish
<1>9. CASE ScanEntry
  BY <1>9, RoundSpans DEF ScanEntry, InBody
<1>10. CASE ScanInitialized
  <2>1. pc = "elements" /\ pc' \in {"expression", "segment", "payload", "elements"}
    BY <1>10 DEF ScanInitialized, Goto
  <2>2. ~InBody /\ ~InBody'
    BY <1>10, <2>1 DEF ScanInitialized, InBody
  <2> QED
    BY <1>10, <2>1, <2>2, RoundSpans DEF ScanInitialized
<1>11. CASE ScanPayload
  <2>1. pos' <= end /\ UNCHANGED <<length, end, sectionEnd, declaredEnd>>
    BY <1>11 DEF ScanPayload, Fits, Take, file
  <2>2. pc = "payload" /\ pc' = "elements"
    BY <1>11 DEF ScanPayload, Goto
  <2> QED
    BY <2>1, <2>2, InsideSpans DEF InBody
<1>12. CASE Entries
  BY <1>12, VectorSpans DEF Entries
<1>13. CASE ScanIndex
  BY <1>13, RoundSpans DEF ScanIndex, InBody
<1>14. CASE ScanInitializer
  BY <1>14, RoundSpans DEF ScanInitializer, InBody, Goto
<1>15. CASE ScanGroup
  <2>1. pos' <= end /\ UNCHANGED <<length, end, sectionEnd, declaredEnd>>
    BY <1>15 DEF ScanGroup, Fits, Take, file
  <2>2. pc = "elements" /\ pc' = "types"
    BY <1>15 DEF ScanGroup, Goto
  <2> QED
    BY <2>1, <2>2, InsideSpans DEF InBody
<1>16. CASE ScanType
  <2>1. pos' <= end /\ UNCHANGED <<length, end, sectionEnd, declaredEnd>>
    BY <1>16 DEF ScanType, Fits, Take, file
  <2>2. pc = "types" /\ pc' \in {"parameters", "fields"}
    BY <1>16 DEF ScanType
  <2> QED
    BY <2>1, <2>2, InsideSpans DEF InBody
<1>17. CASE Results
  BY <1>17, VectorSpans DEF Results
<1>18. CASE ScanInner
  BY <1>18, RoundSpans DEF ScanInner, InBody
<1>19. CASE EndLoop
  BY <1>19, TurnSpans DEF EndLoop
<1>20. CASE OpenBody
  <2>1. PICK w \in Widths, v \in Widths, size \in 0..length :
           /\ v <= size /\ pos + (w + size) <= end
           /\ pos' = pos + w + v /\ end' = pos + w + size
    BY <1>20 DEF OpenBody, Fits
  <2>2. pos' <= end' /\ end' <= end
    BY <2>1, Inputs, NumberTypes
  <2>3. /\ pc = "elements" /\ pc' = "locals" /\ sectionEnd' = end
        /\ UNCHANGED <<length, declaredEnd>>
    BY <1>20 DEF OpenBody, Goto
  <2>4. end = declaredEnd /\ declaredEnd <= length
    BY <2>3 DEF Spans, InBody
  <2> QED
    BY <2>2, <2>3, <2>4 DEF Spans, InBody
<1>21. CASE ScanLocals
  <2>1. pos' <= end /\ UNCHANGED <<length, end, sectionEnd, declaredEnd>>
    BY <1>21 DEF ScanLocals, Fits, Take, file
  <2>2. pc = "locals" /\ pc' = "locals"
    BY <1>21 DEF ScanLocals
  <2> QED
    BY <2>1, <2>2, InsideSpans DEF InBody
<1>22. CASE BeginCode
  <2>1. pc = "locals" /\ pc' = "expression" /\ after' = "body"
    BY <1>22 DEF BeginCode, Goto
  <2>2. pos' <= end /\ UNCHANGED <<length, end, sectionEnd, declaredEnd>>
    BY <1>22, <2>1 DEF BeginCode, Spans, file
  <2> QED
    BY <2>1, <2>2, InsideSpans DEF InBody
<1>23. CASE EndBody
  <2>1. CASE pos # end
    BY <1>23, <2>1, StopSpans DEF EndBody
  <2>2. CASE pos = end
    <3>1. /\ pc = "body" /\ pc' = "elements" /\ end' = sectionEnd
          /\ UNCHANGED <<length, pos, declaredEnd>>
      BY <1>23, <2>2 DEF EndBody, EndAfterBody, Goto, file
    <3>2. /\ sectionEnd = declaredEnd /\ end <= declaredEnd
          /\ declaredEnd <= length
      BY <3>1 DEF Spans, InBody
    <3> QED
      BY <2>2, <3>1, <3>2, NumberTypes DEF Spans, InBody
  <2> QED
    BY <2>1, <2>2
<1>24. CASE Simple
  BY <1>24, OpcodeSpans DEF Simple
<1>25. CASE UseData
  BY <1>25, OpcodeSpans DEF UseData
<1>26. CASE OpenConstruct
  BY <1>26, OpcodeSpans DEF OpenConstruct
<1>27. CASE Else
  BY <1>27, OpcodeSpans DEF Else
<1>28. CASE EndConstruct
  BY <1>28, OpcodeSpans DEF EndConstruct
<1>29. CASE EndExpression
  BY <1>29, OpcodeSpans DEF EndExpression, Goto
<1>30. CASE OverLimit
  BY <1>30, StopSpans DEF OverLimit
<1>31. CASE Malformed
  BY <1>31, StopSpans DEF Malformed
<1>32. CASE UNCHANGED vars
  BY <1>32 DEF vars, file, Spans, InBody
<1> QED
  BY <1>1, <1>2, <1>3, <1>4, <1>5, <1>6, <1>7, <1>8, <1>9, <1>10, <1>11, <1>12, <1>13,
     <1>14, <1>15, <1>16, <1>17, <1>18, <1>19, <1>20, <1>21, <1>22, <1>23, <1>24,
     <1>25, <1>26, <1>27, <1>28, <1>29, <1>30, <1>31, <1>32 DEF Next

-----------------------------------------------------------------------------
(* Results.                                                                *)

LEMMA RunningData ==
    ASSUME DataCounted, pc # "stopped", UNCHANGED res,
           dataUsed' => dataCount' # <<>>
    PROVE  DataCounted' /\ AcceptedIsConsistent'
BY DEF DataCounted, AcceptedIsConsistent

LEMMA FileData ==
    ASSUME DataCounted, pc # "stopped", UNCHANGED file
    PROVE  DataCounted' /\ AcceptedIsConsistent'
BY RunningData DEF file, DataCounted

LEMMA StopData ==
    ASSUME DataCounted, NEW r \in {"invalid", "limit"}, Stop(r)
    PROVE  DataCounted' /\ AcceptedIsConsistent'
BY DEF Stop, Goto, DataCounted, AcceptedIsConsistent

LEMMA OpcodeData ==
    ASSUME DataCounted, NEW w, NEW n, Opcode(w, n), dataUsed' => dataCount # <<>>
    PROVE  DataCounted' /\ AcceptedIsConsistent'
BY RunningData DEF Opcode

LEMMA RoundData ==
    ASSUME DataCounted, pc # "stopped", NEW w, NEW level, Round(level, w)
    PROVE  DataCounted' /\ AcceptedIsConsistent'
BY FileData DEF Round, RoundOf, Take

LEMMA VectorData ==
    ASSUME DataCounted, pc # "stopped", NEW w, NEW n, NEW level, NEW label,
           Vector(w, n, level, label)
    PROVE  DataCounted' /\ AcceptedIsConsistent'
BY FileData DEF Vector, Take

LEMMA DataStep ==
    ASSUME Spans, DataCounted, AcceptedIsConsistent, [Next]_vars
    PROVE  DataCounted' /\ AcceptedIsConsistent'
<1>1. CASE Open
  BY <1>1, FileData DEF Open
<1>2. CASE NextSection
  BY <1>2, RunningData DEF NextSection, DataCounted
<1>3. CASE SkipCustom
  BY <1>3, FileData DEF SkipCustom, Take
<1>4. CASE ReadNumber
  BY <1>4, RunningData DEF ReadNumber, DataCounted
<1>5. CASE Contents
  BY <1>5, VectorData DEF Contents
<1>6. CASE CountedContents
  BY <1>6, RunningData DEF CountedContents, DataCounted
<1>7. CASE EndSection
  <2>1. CASE Turn("elements", "section")
    BY <2>1, FileData DEF Turn
  <2>2. CASE Stop("invalid")
    BY <2>2, StopData
  <2> QED
    BY <1>7, <2>1, <2>2 DEF EndSection
<1>8. CASE Finish
  <2>1. CASE CountsMatch
    <3>1. /\ pc' = "stopped" /\ res' = "accepted"
          /\ UNCHANGED <<length, tally, dataCount, dataUsed, declaredEnd>>
      BY <1>8, <2>1 DEF Finish, Stop, Goto
    <3>2. declaredEnd = length
      BY <1>8 DEF Finish, Spans
    <3>3. tally[3] = tally[10] /\ (dataUsed => dataCount = <<tally[11]>>)
      BY <2>1 DEF CountsMatch, DataCounted
    <3> QED
      BY <3>1, <3>2, <3>3 DEF DataCounted, AcceptedIsConsistent
  <2>2. CASE ~CountsMatch
    BY <1>8, <2>2, StopData DEF Finish
  <2> QED
    BY <2>1, <2>2
<1>9. CASE ScanEntry
  BY <1>9, RoundData DEF ScanEntry
<1>10. CASE ScanInitialized
  BY <1>10, RoundData DEF ScanInitialized
<1>11. CASE ScanPayload
  BY <1>11, FileData DEF ScanPayload, Take
<1>12. CASE Entries
  BY <1>12, VectorData DEF Entries
<1>13. CASE ScanIndex
  BY <1>13, RoundData DEF ScanIndex
<1>14. CASE ScanInitializer
  BY <1>14, RoundData DEF ScanInitializer
<1>15. CASE ScanGroup
  BY <1>15, FileData DEF ScanGroup, Take
<1>16. CASE ScanType
  BY <1>16, FileData DEF ScanType, Take
<1>17. CASE Results
  BY <1>17, VectorData DEF Results
<1>18. CASE ScanInner
  BY <1>18, RoundData DEF ScanInner
<1>19. CASE EndLoop
  BY <1>19, FileData DEF EndLoop, Turn
<1>20. CASE OpenBody
  BY <1>20, RunningData DEF OpenBody, DataCounted
<1>21. CASE ScanLocals
  BY <1>21, FileData DEF ScanLocals, Take
<1>22. CASE BeginCode
  BY <1>22, FileData DEF BeginCode
<1>23. CASE EndBody
  <2>1. CASE pos # end
    BY <1>23, <2>1, StopData DEF EndBody
  <2>2. CASE pos = end
    BY <1>23, <2>2, FileData DEF EndBody
  <2> QED
    BY <2>1, <2>2
<1>24. CASE Simple
  BY <1>24, OpcodeData DEF Simple, DataCounted
<1>25. CASE UseData
  BY <1>25, OpcodeData DEF UseData
<1>26. CASE OpenConstruct
  BY <1>26, OpcodeData DEF OpenConstruct, DataCounted
<1>27. CASE Else
  BY <1>27, OpcodeData DEF Else, DataCounted
<1>28. CASE EndConstruct
  BY <1>28, OpcodeData DEF EndConstruct, DataCounted
<1>29. CASE EndExpression
  BY <1>29, OpcodeData DEF EndExpression, DataCounted
<1>30. CASE OverLimit
  BY <1>30, StopData DEF OverLimit
<1>31. CASE Malformed
  BY <1>31, StopData DEF Malformed
<1>32. CASE UNCHANGED vars
  BY <1>32 DEF vars, file, DataCounted, AcceptedIsConsistent
<1> QED
  BY <1>1, <1>2, <1>3, <1>4, <1>5, <1>6, <1>7, <1>8, <1>9, <1>10, <1>11, <1>12, <1>13,
     <1>14, <1>15, <1>16, <1>17, <1>18, <1>19, <1>20, <1>21, <1>22, <1>23, <1>24,
     <1>25, <1>26, <1>27, <1>28, <1>29, <1>30, <1>31, <1>32 DEF Next

-----------------------------------------------------------------------------
(* The order of sections.                                                  *)

\* Sections before the last one come in the order that the scan goes by.
Ordered ==
    /\ \A n \in DOMAIN seen : seen[n] \in 1..13 /\ SectionOrder(seen[n]) <= last
    /\ \A m, n \in DOMAIN seen : m < n => SectionOrder(seen[m]) < SectionOrder(seen[n])

\* The order that the scan computes is the standard one.
LEMMA OrderIsStandard ==
    ASSUME NEW id \in 1..13
    PROVE  (CHOOSE n \in DOMAIN StandardOrder : StandardOrder[n] = id) = SectionOrder(id)
<1>1. DOMAIN StandardOrder = 1..13
  BY DEF StandardOrder
<1>2. SectionOrder(id) \in 1..13 /\ StandardOrder[SectionOrder(id)] = id
  <2>1. CASE id \in 1..5
    <3>1. SectionOrder(id) = id
      BY <2>1 DEF SectionOrder
    <3>2. QED
      BY <2>1, <3>1 DEF StandardOrder
  <2>2. CASE id = 13
    BY <2>2 DEF SectionOrder, StandardOrder
  <2>3. CASE id \in 6..9
    <3>1. SectionOrder(id) = id + 1
      BY <2>3 DEF SectionOrder
    <3>2. QED
      BY <2>3, <3>1 DEF StandardOrder
  <2>4. CASE id = 12
    BY <2>4 DEF SectionOrder, StandardOrder
  <2>5. CASE id \in 10..11
    <3>1. SectionOrder(id) = id + 2
      BY <2>5 DEF SectionOrder
    <3>2. QED
      BY <2>5, <3>1 DEF StandardOrder
  <2>6. QED
    BY <2>1, <2>2, <2>3, <2>4, <2>5
<1>3. \A m, n \in 1..13 : StandardOrder[m] = StandardOrder[n] => m = n
  BY DEF StandardOrder
<1>4. QED
  BY <1>1, <1>2, <1>3, Zenon

LEMMA OrderedIsInOrder ==
    ASSUME Ordered
    PROVE  SectionsInOrder
<1>1. \A n \in DOMAIN seen :
          (CHOOSE k \in DOMAIN StandardOrder : StandardOrder[k] = seen[n]) =
              SectionOrder(seen[n])
  BY OrderIsStandard DEF Ordered
<1>2. QED
  BY <1>1, Zenon DEF Ordered, SectionsInOrder

\* Only the head of a section changes what has been seen.
LEMMA OrderStep ==
    ASSUME TypeOK, Ordered, [Next]_vars
    PROVE  Ordered'
<1>1. CASE NextSection
  <2>1. PICK id \in Sections :
           /\ id # Custom => SectionOrder(id) > last
           /\ last' = IF id = Custom THEN last ELSE SectionOrder(id)
           /\ seen' = IF id = Custom THEN seen ELSE Append(seen, id)
    BY <1>1 DEF NextSection
  <2>2. CASE id = Custom
    BY <2>1, <2>2 DEF Ordered
  <2>3. CASE id # Custom
    <3>1. id \in 1..13 /\ seen \in Seq(0..13) /\ last \in Nat
      BY <2>3, Inputs DEF Custom, TypeOK
    <3>2. SectionOrder(id) \in Nat
      BY <3>1 DEF SectionOrder
    <3>3. \A n \in DOMAIN seen : SectionOrder(seen[n]) \in Nat
      <4>1. \A k \in 1..13 : SectionOrder(k) \in Nat
        BY DEF SectionOrder
      <4>2. QED
        BY <4>1 DEF Ordered
    <3>4. /\ last' = SectionOrder(id) /\ last < SectionOrder(id) /\ seen' = Append(seen, id)
      BY <2>1, <2>3, <3>1, <3>2
    <3>5. \A n \in DOMAIN seen' :
              \/ n \in DOMAIN seen /\ seen'[n] = seen[n]
              \/ n = Len(seen) + 1 /\ seen'[n] = id
      BY <3>1, <3>4
    <3>6. \A n \in DOMAIN seen : n \in Nat /\ n < Len(seen) + 1
      BY <3>1
    <3>7. \A n \in DOMAIN seen' : seen'[n] \in 1..13 /\ SectionOrder(seen'[n]) <= last'
      <4>1. SUFFICES ASSUME NEW n \in DOMAIN seen'
                     PROVE  seen'[n] \in 1..13 /\ SectionOrder(seen'[n]) <= last'
        OBVIOUS
      <4>2. CASE n \in DOMAIN seen /\ seen'[n] = seen[n]
        <5>1. SectionOrder(seen[n]) <= last /\ seen[n] \in 1..13
          BY <4>2 DEF Ordered
        <5>2. SectionOrder(seen'[n]) = SectionOrder(seen[n])
          BY <4>2
        <5>3. QED
          BY <3>1, <3>2, <3>3, <3>4, <4>2, <5>1, <5>2
      <4>3. CASE n = Len(seen) + 1 /\ seen'[n] = id
        <5>1. SectionOrder(seen'[n]) = SectionOrder(id)
          BY <4>3
        <5>2. QED
          BY <3>1, <3>2, <3>4, <4>3, <5>1
      <4>4. QED
        BY <3>5, <4>2, <4>3
    <3>8. \A m, n \in DOMAIN seen' :
              m < n => SectionOrder(seen'[m]) < SectionOrder(seen'[n])
      <4>1. SUFFICES ASSUME NEW m \in DOMAIN seen', NEW n \in DOMAIN seen', m < n
                     PROVE  SectionOrder(seen'[m]) < SectionOrder(seen'[n])
        OBVIOUS
      <4>2. m \in DOMAIN seen /\ seen'[m] = seen[m]
        BY <3>1, <3>4, <4>1
      <4>3. SectionOrder(seen'[m]) = SectionOrder(seen[m])
        BY <4>2
      <4>4. CASE n \in DOMAIN seen /\ seen'[n] = seen[n]
        <5>1. SectionOrder(seen'[n]) = SectionOrder(seen[n])
          BY <4>4
        <5>2. SectionOrder(seen[m]) < SectionOrder(seen[n])
          BY <4>1, <4>2, <4>4 DEF Ordered
        <5>3. QED
          BY <4>3, <5>1, <5>2
      <4>5. CASE n = Len(seen) + 1 /\ seen'[n] = id
        <5>1. SectionOrder(seen'[n]) = SectionOrder(id)
          BY <4>5
        <5>2. SectionOrder(seen[m]) <= last
          BY <4>2 DEF Ordered
        <5>3. QED
          BY <3>1, <3>2, <3>3, <3>4, <4>2, <4>3, <5>1, <5>2
      <4>6. QED
        BY <3>5, <4>4, <4>5
    <3>9. QED
      BY <3>7, <3>8 DEF Ordered
  <2>4. QED
    BY <2>2, <2>3
<1>2. CASE [Next]_vars /\ ~NextSection
  <2>1. UNCHANGED <<last, seen>>
    <3> USE DEF file, Take
    <3>1. CASE UNCHANGED vars
      BY <3>1 DEF vars
    <3>2. CASE Open \/ SkipCustom \/ ReadNumber \/ Contents \/ CountedContents
      BY <3>2 DEF Open, SkipCustom, ReadNumber, Contents, CountedContents, Vector
    <3>3. CASE EndSection \/ Finish \/ OverLimit \/ Malformed \/ EndBody \/ EndLoop
      BY <3>3 DEF EndSection, Finish, OverLimit, Malformed, EndBody, EndLoop, Stop, Turn
    <3>4. CASE ScanEntry \/ ScanInitialized \/ ScanPayload \/ Entries \/ ScanIndex
               \/ ScanInitializer \/ ScanInner
      BY <3>4 DEF ScanEntry, ScanInitialized, ScanPayload, Entries, ScanIndex,
         ScanInitializer, ScanInner, Round, RoundOf, Vector
    <3>5. CASE ScanGroup \/ ScanType \/ Results
      BY <3>5 DEF ScanGroup, ScanType, Results, Vector
    <3>6. CASE OpenBody \/ ScanLocals \/ BeginCode
      BY <3>6 DEF OpenBody, ScanLocals, BeginCode
    <3>7. CASE Simple \/ UseData \/ OpenConstruct \/ Else \/ EndConstruct \/ EndExpression
      BY <3>7 DEF Simple, UseData, OpenConstruct, Else, EndConstruct, EndExpression, Opcode
    <3>8. QED
      BY <1>2, <3>1, <3>2, <3>3, <3>4, <3>5, <3>6, <3>7 DEF Next
  <2>2. QED
    BY <2>1 DEF Ordered
<1>3. QED
  BY <1>1, <1>2

-----------------------------------------------------------------------------
(* The invariant.                                                          *)

LEMMA InitInv == Init => ScanInv
<1> SUFFICES ASSUME Init PROVE ScanInv
  OBVIOUS
<1>1. TypeOK
  <2>1. /\ pos \in Nat /\ end \in Nat /\ sectionEnd \in Nat /\ declaredEnd \in Nat
        /\ length \in Lengths /\ rounds \in Nat
    BY Inputs DEF Init, Header
  <2>2. /\ section \in 0..13 /\ last \in 0..13 /\ seen \in Seq(0..13)
        /\ dataCount \in Seq(Nat) /\ frames \in Seq(Constructs)
    BY DEF Init, Custom
  <2>3. /\ tally \in [{3, 10, 11} -> Nat] /\ used \in [Budgets -> Nat]
        /\ left \in [Levels -> Nat]
    BY DEF Init
  <2>4. /\ pc \in PCs /\ after = "elements" /\ dataUsed = FALSE /\ res = "none"
    BY DEF Init, PCs
  <2> QED
    BY <2>1, <2>2, <2>3, <2>4 DEF TypeOK
<1>2. Spans
  BY DEF Init, Spans
<1>3. WorkIsBudgeted
  <2>1. /\ rounds = 0 /\ left["outer"] = 0 /\ left["middle"] = 0
        /\ left["inner"] = 0 /\ used["items"] = 0
    BY Names DEF Init
  <2>2. \A b \in Budgets : used[b] <= Limits[b]
    BY LimitTypes DEF Init
  <2>3. Len(frames) <= Limits["depth"]
    BY LimitTypes DEF Init
  <2> QED
    BY <2>1, <2>2, <2>3 DEF WorkIsBudgeted
<1>4. DataCounted /\ AcceptedIsConsistent
  BY DEF Init, DataCounted, AcceptedIsConsistent
<1> QED
  BY <1>1, <1>2, <1>3, <1>4 DEF ScanInv

LEMMA StepInv == ScanInv /\ [Next]_vars => ScanInv'
BY TypeStep, SpanStep, BudgetStep, DataStep DEF ScanInv

\* The invariant that carries the four theorems below: the variables have
\* their types, the spans nest, the work is budgeted and the counts agree.
THEOREM ScanInvariant == Spec => []ScanInv
BY InitInv, StepInv, PTL DEF Spec

\* Every count, position and loop of the scan stays a natural number.
THEOREM TypeCorrect == Spec => []TypeOK
<1>1. ScanInv => TypeOK
  BY DEF ScanInv
<1> QED
  BY <1>1, ScanInvariant, PTL

\* No read leaves the body, section and artifact it is in, for every artifact
\* length, section size and body size.
THEOREM ReadsStayInside == Spec => []SpansNest
<1>1. ScanInv => SpansNest
  BY DEF ScanInv, Spans, SpansNest
<1> QED
  BY <1>1, ScanInvariant, PTL

\* Nested loops never run more rounds than were charged, nor charge more than
\* the limits, for every choice of limits.
THEOREM LoopsStayBudgeted == Spec => []WorkIsBudgeted
<1>1. ScanInv => WorkIsBudgeted
  BY DEF ScanInv
<1> QED
  BY <1>1, ScanInvariant, PTL

\* The scan accepts only artifacts whose sections agree with each other.
THEOREM AcceptanceIsConsistent == Spec => []AcceptedIsConsistent
<1>1. ScanInv => AcceptedIsConsistent
  BY DEF ScanInv
<1> QED
  BY <1>1, ScanInvariant, PTL

\* Sections other than custom ones come at most once and in the standard order,
\* whatever sections there are (preflight.mbt 482-495, 533-540).
THEOREM SectionsComeInOrder == Spec => []SectionsInOrder
<1>1. Init => Ordered
  BY DEF Init, Ordered
<1>2. ScanInv /\ Ordered /\ [Next]_vars => Ordered'
  BY OrderStep DEF ScanInv
<1>3. Ordered => SectionsInOrder
  BY OrderedIsInOrder
<1> QED
  BY <1>1, <1>2, <1>3, ScanInvariant, PTL DEF Spec

=============================================================================
