----------------------------- MODULE MCGenerate -----------------------------
(* Small instances of GenerateProperties for TLC. *)
EXTENDS GenerateProperties

CONSTANTS f1, f2, u1, u2, d1, abiA, abiB,
          names, canonical, given, draft, \* contracts
          changed, aware                  \* adapters

\* Every artifact has the ABI of the old output.
SameAbi == [p \in Writers |-> abiA]

\* One fresh artifact has another ABI.
TwoAbis == [p \in Writers |-> IF p = f1 THEN abiB ELSE abiA]

MCContracts == {names, canonical, given, draft, Edited}

\* The names of one contract are written by hand and as the generator writes
\* them; f1 is given another contract.
MCEncoded == [c \in MCContracts |-> IF c = names THEN canonical ELSE c]
MCGiven == [p \in FreshWriters |-> IF p = f1 THEN given ELSE None]
MCDraft == [a \in Abis |-> draft]

\* A plain adapter is named by what determines it.
MCAdapters == {changed, aware, Edited} \cup (Abis \X MCContracts)
MCPlainAdapter == [a \in Abis |-> [c \in MCContracts |-> <<a, c>>]]
MCResourceAdapter == [p \in ResourceWriters |-> aware]

\* An output changed by hand, its manifest made true of it, and one as it was
\* generated, which an update generates again byte for byte.
ByHand == {<<changed, names>>}
AsGenerated == {<<<<abiA, canonical>>, canonical>>}
Both == ByHand \cup AsGenerated
=============================================================================
