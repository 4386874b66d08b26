----------------------------- MODULE Preflight -----------------------------
(***************************************************************************)
(* The structural scan of an artifact before anything is allocated for it. *)
(* The scan goes once through sections, vectors, types, function bodies    *)
(* and expressions, charges every count the artifact declares to a budget  *)
(* before it loops over it, and keeps every read inside the innermost      *)
(* span: the function body, the section, or the artifact.                  *)
(*                                                                         *)
(* The artifact's bytes are chosen as they are read.  Every encoding takes *)
(* some positive number of bytes out of Widths, and every read may meet    *)
(* bytes the scanner does not accept.                                      *)
(***************************************************************************)
EXTENDS Naturals, Sequences

CONSTANTS
    Limits,    \* PreflightLimits
    Sections,  \* the section numbers that occur
    Counts,    \* the numbers an artifact declares
    Widths,    \* the lengths of encodings
    Lengths    \* of artifacts

Header == 8
Custom == 0
Budgets == {"types", "items", "locals", "functionLocals", "instructions"}
Levels == {"outer", "middle", "inner"}

ASSUME LimitsAssumption == Limits \in [Budgets \cup {"bytes", "depth"} -> Nat]
ASSUME InputsAssumption ==
    /\ Sections \subseteq 0..13 /\ Lengths \subseteq Nat
    /\ Counts \subseteq Nat /\ Widths \subseteq Nat \ {0}

VARIABLES
    length,
    pos, end,    \* the next byte, and the end of the innermost span
    sectionEnd,  \* the end to go back to after a function body
    section, last,
    tally,       \* the declared functions, bodies and data segments
    dataCount,   \* <<>> without a data count section
    used,        \* what has been charged to each budget
    pc, left,    \* and the rounds left of three nested loops
    after,       \* where an expression goes back to
    frames,      \* the open constructs of an expression
    dataUsed,    \* history: there has been a memory.init or data.drop
    seen,        \* history: the sections but custom ones
    declaredEnd, \* history: where the section said it ends
    rounds,      \* history: rounds of all loops
    res

file == <<length, sectionEnd, section, last, tally, dataCount, dataUsed, seen,
          declaredEnd, res>>
vars == <<file, pos, end, used, pc, left, after, frames, rounds>>

-----------------------------------------------------------------------------
Goto(label) == pc' = label

Stop(result) ==
    /\ res' = result /\ Goto("stopped")
    /\ UNCHANGED <<length, pos, end, sectionEnd, section, last, tally, dataCount, used,
                   left, after, frames, dataUsed, seen, declaredEnd, rounds>>

\* A step from one label to another that reads nothing.
Turn(from, to) ==
    /\ pc = from /\ Goto(to)
    /\ UNCHANGED <<file, pos, end, used, left, after, frames, rounds>>

\* bounded_add succeeds.
Within(budget, n) == used[budget] + n <= Limits[budget]

\* An encoding of w bytes that lies within the span.
Fits(w) == pos + w <= end
Take(w) == pos' = pos + w /\ UNCHANGED <<file, end>>

\* The count of a vector, n items to go round for.
Vector(w, n, level, label) ==
    /\ Fits(w) /\ Take(w)
    /\ Within("items", n)
    /\ used' = [used EXCEPT !["items"] = @ + n]
    /\ left' = [left EXCEPT ![level] = n] /\ Goto(label)
    /\ UNCHANGED <<after, frames, rounds>>

\* What a round does that reads w bytes.
RoundOf(level, w) ==
    /\ Fits(w) /\ Take(w)
    /\ left' = [left EXCEPT ![level] = @ - 1]
    /\ rounds' = rounds + 1
    /\ UNCHANGED <<used, frames>>

\* A round is made while one is left.
Round(level, w) == left[level] > 0 /\ RoundOf(level, w)

-----------------------------------------------------------------------------
(* Sections.                                                               *)

\* A wrong order that takes the section numbers for it.
NumberOrder(id) == id

SectionOrder(id) ==
    CASE id \in 1..5 -> id
      [] id = 13 -> 6
      [] id \in 6..9 -> id + 1
      [] id = 12 -> 11
      [] id \in 10..11 -> id + 2
      [] OTHER -> 0

Open ==
    /\ pc = "header"
    /\ length <= Limits["bytes"] /\ length >= Header
    /\ pos' = Header /\ Goto("section")
    /\ UNCHANGED <<file, end, used, left, after, frames, rounds>>

NextSection ==
    /\ pc = "section" /\ pos < length /\ Within("items", 1)
    /\ \E id \in Sections, w \in Widths, size \in 0..length :
          LET start == pos + 1 + w
          IN  /\ start + size <= length
              /\ id # Custom => SectionOrder(id) > last
              /\ pos' = start /\ end' = start + size /\ declaredEnd' = start + size
              /\ section' = id
              /\ last' = IF id = Custom THEN last ELSE SectionOrder(id)
              /\ seen' = IF id = Custom THEN seen ELSE Append(seen, id)
    /\ used' = [used EXCEPT !["items"] = @ + 1]
    /\ rounds' = rounds + 1 /\ Goto("contents")
    /\ UNCHANGED <<length, sectionEnd, tally, dataCount, left, after, frames,
                   dataUsed, res>>

SkipCustom ==
    /\ pc = "contents" /\ section = Custom
    /\ pos < end /\ Take(end - pos) /\ Goto("elements")
    /\ UNCHANGED <<used, left, after, frames, rounds>>

\* The start function, or the data count.
ReadNumber ==
    /\ pc = "contents" /\ section \in {8, 12}
    /\ \E w \in Widths, n \in Counts :
          /\ Fits(w) /\ pos' = pos + w
          /\ dataCount' = IF section = 12 THEN <<n>> ELSE dataCount
    /\ Goto("elements")
    /\ UNCHANGED <<length, end, sectionEnd, section, last, tally, used, left, after,
                   frames, dataUsed, seen, declaredEnd, rounds, res>>

\* The vector of any other section.
Contents ==
    /\ pc = "contents" /\ section \notin {Custom, 3, 8, 10, 11, 12}
    /\ \E w \in Widths, n \in Counts : Vector(w, n, "outer", "elements")

\* That of functions, function bodies or data segments is remembered.
CountedContents ==
    /\ pc = "contents" /\ section \in {3, 10, 11}
    /\ \E w \in Widths, n \in Counts :
          /\ Fits(w) /\ pos' = pos + w
          /\ Within("items", n)
          /\ used' = [used EXCEPT !["items"] = @ + n]
          /\ tally' = [tally EXCEPT ![section] = n]
          /\ left' = [left EXCEPT !["outer"] = n]
    /\ Goto("elements")
    /\ UNCHANGED <<length, end, sectionEnd, section, last, dataCount, after, frames,
                   dataUsed, seen, declaredEnd, rounds, res>>

EndSection ==
    /\ left["outer"] = 0
    /\ \/ pos = end /\ Turn("elements", "section")
       \/ pos # end /\ pc = "elements" /\ Stop("invalid")

\* A wrong end that does not look at the data count.
FunctionsMatch == tally[3] = tally[10]

CountsMatch ==
    /\ tally[3] = tally[10]
    /\ dataCount \in {<<>>, <<tally[11]>>}

Finish ==
    /\ pc = "section" /\ pos = length
    /\ Stop(IF CountsMatch THEN "accepted" ELSE "invalid")

-----------------------------------------------------------------------------
(* Elements of the sections' vectors.                                      *)

\* Imports, functions, memories, exports, tags.
ScanEntry ==
    /\ pc = "elements" /\ section \in {2, 3, 5, 7, 13}
    /\ \E w \in Widths : Round("outer", w)
    /\ UNCHANGED <<pc, after>>

\* Globals have an expression; tables and segments may have one.
ScanInitialized ==
    /\ pc = "elements" /\ section \in {4, 6, 9, 11}
    /\ \E w \in Widths : Round("outer", w)
    /\ after' = CASE section = 9 -> "segment" [] section = 11 -> "payload"
                  [] OTHER -> "elements"
    /\ \/ Goto("expression")
       \/ section # 6 /\ Goto(after')

ScanPayload ==
    /\ pc = "payload"
    /\ \E w \in Widths, n \in Counts : Fits(w + n) /\ Take(w + n)
    /\ Goto("elements")
    /\ UNCHANGED <<used, left, after, frames, rounds>>

\* The entries of an element segment are indices or expressions.
Entries ==
    /\ pc = "segment"
    /\ \E w \in Widths, n \in Counts, label \in {"indices", "initializers"} :
          Vector(w, n, "middle", label)

ScanIndex ==
    /\ pc = "indices"
    /\ \E w \in Widths : Round("middle", w)
    /\ UNCHANGED <<pc, after>>

ScanInitializer ==
    /\ pc = "initializers" /\ Round("middle", 0)
    /\ Goto("expression") /\ after' = "initializers"

-----------------------------------------------------------------------------
(* Types.                                                                  *)

\* A wrong charge that takes a recursive group for one item.
GroupAsOne(n) == 1

GroupItems(n) == n

\* A recursive group of n types, or one type without a prefix.
ScanGroup ==
    /\ pc = "elements" /\ section = 1 /\ left["outer"] > 0
    /\ \E n \in Counts \cup {1}, w \in Widths \cup {0} :
          /\ Fits(w) /\ Take(w)
          /\ w = 0 => n = 1
          /\ Within("types", n) /\ Within("items", GroupItems(n))
          /\ used' = [used EXCEPT !["types"] = @ + n, !["items"] = @ + GroupItems(n)]
          /\ left' = [left EXCEPT !["outer"] = @ - 1, !["middle"] = n]
    /\ rounds' = rounds + 1 /\ Goto("types")
    /\ UNCHANGED <<after, frames>>

\* A type may name a supertype.  A function has two vectors of value types, a
\* structure has one of fields, an array one field.
ScanType ==
    /\ pc = "types" /\ left["middle"] > 0
    /\ \E w \in Widths, supertypes \in 0..1, n \in Counts \cup {1} :
          /\ Fits(w) /\ Take(w)
          /\ Within("items", supertypes + n)
          /\ used' = [used EXCEPT !["items"] = @ + (supertypes + n)]
          /\ left' = [left EXCEPT !["middle"] = @ - 1, !["inner"] = n]
    /\ rounds' = rounds + 1 /\ pc' \in {"parameters", "fields"}
    /\ UNCHANGED <<after, frames>>

Results ==
    /\ pc = "parameters" /\ left["inner"] = 0
    /\ \E w \in Widths, n \in Counts : Vector(w, n, "inner", "fields")

\* A value type, field, label or catch handler.
ScanInner ==
    /\ pc \in {"parameters", "fields", "expression"}
    /\ \E w \in Widths : Round("inner", w)
    /\ UNCHANGED <<pc, after>>

\* The ends of the inner loops.
EndLoop ==
    \/ left["inner"] = 0 /\ Turn("fields", "types")
    \/ /\ left["middle"] = 0
       /\ \E label \in {"types", "indices", "initializers"} : Turn(label, "elements")

-----------------------------------------------------------------------------
(* Function bodies.                                                        *)

\* The size of a body, and the count of its groups of locals.
OpenBody ==
    /\ pc = "elements" /\ section = 10 /\ left["outer"] > 0
    /\ \E w \in Widths, v \in Widths, n \in Counts, size \in 0..length :
          /\ v <= size /\ Fits(w + size)
          /\ pos' = pos + w + v /\ end' = pos + w + size
          /\ Within("items", n)
          /\ used' = [used EXCEPT !["items"] = @ + n, !["functionLocals"] = 0]
          /\ left' = [left EXCEPT !["outer"] = @ - 1, !["middle"] = n]
    /\ sectionEnd' = end
    /\ rounds' = rounds + 1 /\ Goto("locals")
    /\ UNCHANGED <<length, section, last, tally, dataCount, after, frames, dataUsed,
                   seen, declaredEnd, res>>

\* A group of n locals.
ScanLocals ==
    /\ pc = "locals" /\ left["middle"] > 0
    /\ \E w \in Widths, n \in Counts :
          /\ Fits(w) /\ Take(w)
          /\ Within("functionLocals", n) /\ Within("locals", n)
          /\ used' = [used EXCEPT !["functionLocals"] = @ + n, !["locals"] = @ + n]
    /\ left' = [left EXCEPT !["middle"] = @ - 1]
    /\ rounds' = rounds + 1
    /\ UNCHANGED <<pc, after, frames>>

BeginCode ==
    /\ pc = "locals" /\ left["middle"] = 0
    /\ Goto("expression") /\ after' = "body"
    /\ UNCHANGED <<file, pos, end, used, left, frames, rounds>>

\* A wrong end that forgets to go back to the section.
BodyEndOnly == end

EndAfterBody == sectionEnd

EndBody ==
    /\ pc = "body"
    /\ IF pos # end THEN Stop("invalid")
       ELSE /\ end' = EndAfterBody /\ Goto("elements")
            /\ UNCHANGED <<file, pos, used, left, after, frames, rounds>>

-----------------------------------------------------------------------------
(* Expressions.                                                            *)

\* An opcode and its immediates, w bytes that declare n items.
Opcode(w, n) ==
    /\ pc = "expression" /\ left["inner"] = 0
    /\ Fits(w) /\ pos' = pos + w
    /\ Within("instructions", 1) /\ Within("items", n)
    /\ used' = [used EXCEPT !["instructions"] = @ + 1, !["items"] = @ + n]
    /\ left' = [left EXCEPT !["inner"] = n]
    /\ UNCHANGED <<length, end, sectionEnd, section, last, tally, dataCount, after,
                   seen, declaredEnd, rounds, res>>

\* Most instructions; br_table has a vector of labels.
Simple ==
    /\ \E w \in Widths, n \in Counts \cup {0} : Opcode(w, n)
    /\ UNCHANGED <<pc, frames, dataUsed>>

\* memory.init and data.drop need the data count.
UseData ==
    /\ dataCount # <<>>
    /\ \E w \in Widths : Opcode(1 + w, 0)
    /\ dataUsed' = TRUE /\ UNCHANGED <<pc, frames>>

\* block, loop, if, and try_table with its handlers.
OpenConstruct ==
    /\ Len(frames) < Limits["depth"]
    /\ \E w \in Widths, kind \in {"block", "if", "try"}, n \in Counts \cup {0} :
          /\ kind # "try" => n = 0
          /\ Opcode(1 + w, n) /\ frames' = Append(frames, kind)
    /\ UNCHANGED <<pc, dataUsed>>

Else ==
    /\ frames # <<>> /\ frames[Len(frames)] = "if"
    /\ Opcode(1, 0) /\ frames' = [frames EXCEPT ![Len(frames)] = "else"]
    /\ UNCHANGED <<pc, dataUsed>>

EndConstruct ==
    /\ frames # <<>>
    /\ Opcode(1, 0) /\ frames' = SubSeq(frames, 1, Len(frames) - 1)
    /\ UNCHANGED <<pc, dataUsed>>

EndExpression ==
    /\ frames = <<>>
    /\ Opcode(1, 0) /\ Goto(after)
    /\ UNCHANGED <<frames, dataUsed>>

-----------------------------------------------------------------------------
\* Some count that may be read here does not fit its budget.
Exceeds(budget) == \E n \in Counts : ~Within(budget, n)

\* LimitExceeded: the budget is looked at before anything is done with a count.
OverLimit ==
    /\ \/ pc = "header" /\ length > Limits["bytes"]
       \/ pc = "section" /\ pos < length /\ ~Within("items", 1)
       \/ pc = "contents" /\ section \notin {Custom, 8, 12} /\ Exceeds("items")
       \/ pc = "elements" /\ left["outer"] > 0 /\ section = 1
             /\ (Exceeds("types") \/ Exceeds("items") \/ ~Within("types", 1))
       \/ pc = "elements" /\ left["outer"] > 0 /\ section = 10 /\ Exceeds("items")
       \/ pc = "types" /\ left["middle"] > 0
             /\ (Exceeds("items") \/ ~Within("items", 1))
       \/ pc = "parameters" /\ left["inner"] = 0 /\ Exceeds("items")
       \/ pc = "segment" /\ Exceeds("items")
       \/ pc = "locals" /\ left["middle"] > 0
             /\ (Exceeds("functionLocals") \/ Exceeds("locals"))
       \/ pc = "expression" /\ left["inner"] = 0
             /\ \/ ~Within("instructions", 1) \/ Exceeds("items")
                \/ Len(frames) >= Limits["depth"]
    /\ pc \notin {"header", "section"} => pos < end
    /\ Stop("limit")

\* InvalidArtifact: a read past the span, or of bytes that are not accepted.
Malformed ==
    /\ \/ pc = "header" /\ length <= Limits["bytes"]
       \/ pc = "section" /\ pos < length /\ Within("items", 1)
       \/ pc \in {"contents", "payload", "segment", "parameters", "expression"}
       \/ pc = "elements" /\ left["outer"] > 0
       \/ pc \in {"types", "indices", "locals"} /\ left["middle"] > 0
       \/ pc = "fields" /\ left["inner"] > 0
    /\ Stop("invalid")

Next ==
    \/ Open \/ NextSection \/ SkipCustom \/ ReadNumber \/ Contents
    \/ CountedContents \/ EndSection \/ Finish \/ ScanEntry \/ ScanInitialized
    \/ ScanPayload \/ Entries \/ ScanIndex \/ ScanInitializer \/ ScanGroup
    \/ ScanType \/ Results \/ ScanInner \/ EndLoop \/ OpenBody \/ ScanLocals
    \/ BeginCode \/ EndBody \/ Simple \/ UseData \/ OpenConstruct \/ Else
    \/ EndConstruct \/ EndExpression \/ OverLimit \/ Malformed

Init ==
    /\ length \in Lengths
    /\ pos = 0 /\ end = length /\ sectionEnd = length
    /\ section = Custom /\ last = 0
    /\ tally = [id \in {3, 10, 11} |-> 0] /\ dataCount = <<>>
    /\ used = [b \in Budgets |-> 0]
    /\ pc = "header" /\ left = [level \in Levels |-> 0]
    /\ after = "elements" /\ frames = <<>>
    /\ dataUsed = FALSE /\ seen = <<>> /\ declaredEnd = Header /\ rounds = 0
    /\ res = "none"

Spec == Init /\ [][Next]_vars
=============================================================================
