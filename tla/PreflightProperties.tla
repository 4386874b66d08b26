------------------------ MODULE PreflightProperties ------------------------
(***************************************************************************)
(* Properties of Preflight.                                                *)
(***************************************************************************)
EXTENDS Preflight

PCs == {"header", "section", "contents", "elements", "payload", "segment",
        "indices", "initializers", "types", "parameters", "fields", "locals",
        "body", "expression", "stopped"}
Constructs == {"block", "if", "else", "try"}

\* Types; the loops never count below zero.
TypeOK ==
    /\ length \in Lengths
    /\ pos \in Nat /\ end \in Nat /\ sectionEnd \in Nat /\ declaredEnd \in Nat
    /\ section \in 0..13 /\ last \in 0..13 /\ seen \in Seq(0..13)
    /\ tally \in [{3, 10, 11} -> Nat] /\ dataCount \in Seq(Nat)
    /\ used \in [Budgets -> Nat]
    /\ pc \in PCs /\ left \in [Levels -> Nat]
    /\ after \in {"elements", "segment", "payload", "initializers", "body"}
    /\ frames \in Seq(Constructs)
    /\ dataUsed \in BOOLEAN /\ rounds \in Nat
    /\ res \in {"none", "accepted", "invalid", "limit"}

\* Every read lies in the body, the body in its section, the section in the
\* artifact, and the next section begins exactly where the last one said it
\* would end, whatever sizes the artifact declares (docs/input-limits.md 11).
SpansNest ==
    /\ pc \notin {"header", "section", "stopped"} =>
          pos <= end /\ end <= declaredEnd
    /\ pc = "section" => pos = declaredEnd
    /\ pc \notin {"header", "stopped"} => declaredEnd <= length

\* However loops are nested in each other, the rounds made and the rounds
\* still ahead never exceed what was charged, nor the charges their limits, so
\* that the scan does no work beyond the budgets of an artifact
\* (docs/input-limits.md 14-24).
WorkIsBudgeted ==
    /\ rounds + left["outer"] + left["middle"] + left["inner"] <= used["items"]
    /\ \A b \in Budgets : used[b] <= Limits[b]
    /\ Len(frames) <= Limits["depth"]

\* The order of sections in a WebAssembly module.
StandardOrder == <<1, 2, 3, 4, 5, 13, 6, 7, 8, 9, 12, 10, 11>>

\* Other sections than custom ones come at most once, in the standard order.
SectionsInOrder ==
    LET place(id) == CHOOSE n \in DOMAIN StandardOrder : StandardOrder[n] = id
    IN  \A m, n \in DOMAIN seen : m < n => place(seen[m]) < place(seen[n])

\* An accepted artifact ends with its last section, has a body for every
\* function, and, if it has a memory.init or data.drop, a count of data
\* segments before the code that the data after the code agrees with.
AcceptedIsConsistent ==
    res = "accepted" =>
        /\ declaredEnd = length
        /\ tally[3] = tally[10]
        /\ dataUsed => dataCount = <<tally[11]>>
=============================================================================
