--------------------------- MODULE GateProperties ---------------------------
(***************************************************************************)
(* Properties of ProjectGates.                                             *)
(***************************************************************************)
EXTENDS ProjectGates

\* The externref positions of a list of functions.
OpaqueIn(functions) ==
    UNION {{<<n, side, m>> : m \in {k \in DOMAIN functions[n][side] :
                                       functions[n][side][k].type = "externref"}} :
             n \in DOMAIN functions, side \in {"params", "results"}}

(* What a host meets at the boundary, without index spaces or surfaces.    *)

ImportsOf(m, kind) == {n \in DOMAIN m.imports : m.imports[n].kind = kind}

\* The declaration behind the index-th item of a kind, found by counting.
Declaration(m, kind, index) ==
    LET imported == Cardinality(ImportsOf(m, kind))
    IN  IF index > imported THEN m.defined[kind][index - imported]
        ELSE m.imports[CHOOSE n \in ImportsOf(m, kind) :
                 Cardinality({k \in ImportsOf(m, kind) : k <= n}) = index].type

\* Two declarations, of one module each, describe the same thing.
SameDeclared(kind, m, d, n, e) ==
    IF kind = "tag" THEN m.signatures[d].params = n.signatures[e].params ELSE d = e

\* Each item at the boundary of m is at that of n, as the same thing.
Keeps(m, n) ==
    /\ \A i \in ToSet(m.imports) :
          \E k \in ToSet(n.imports) :
              /\ i.path = k.path /\ i.kind = k.kind
              /\ SameDeclared(i.kind, m, i.type, n, k.type)
    /\ \A i \in ToSet(m.exports) :
          \E k \in ToSet(n.exports) :
              /\ i.path = k.path /\ i.kind = k.kind
              /\ SameDeclared(i.kind, m, Declaration(m, i.kind, i.index),
                              n, Declaration(n, k.kind, k.index))

SameBoundary(m, n) == Keeps(m, n) /\ Keeps(n, m)

\* Every type at the boundary has a spelling.
SpelledOut(m) == \A item \in Boundary(m) : Normalizable(Resolved(m, item))

\* The lock that would have been written instead of a file.
CurrentLock(file) ==
    [version |-> 4, surface |-> ProjectSurface(file.of), of |-> file.of]

-----------------------------------------------------------------------------
(* Properties.                                                             *)

Advises(exit, relocked) ==
    /\ exit = 0 => Generates(program, contract)
    /\ exit = 2 => relocked = 0
    /\ exit = 4 => relocked = 4
    /\ exit = 3 /\ lock # Damaged => Diagnosed(program)

\* The code with which `verify` ends says what to do (README.md 122-135).  0:
\* `generate` accepts the same files.  2: a new lock is enough.  4: a new lock
\* does not help.  3 with a lock that decodes: this program cannot be locked.
ExitCodesAdvise ==
    lock # Absent =>
        Advises(VerifyExit(lock, program, contract),
                VerifyExit(Fingerprint(program), program, contract))

\* Whichever contract an output was generated from, migrated or not, `--update`
\* accepts the one written to it and reproduces the output, on every rebuild
\* with the same ABI (README.md 189-191).
OutputRegenerates ==
    output # Absent /\ output.resources = Absent =>
        (output.abi = Fingerprint(program) /\ ~Diagnosed(program) =>
            Generates(program, output.contract) /\ Adapter(program, output.contract) = output)

\* In what is generated every position of an opaque value has a name of its
\* own: no two positions share an entry and there is no entry for another ABI,
\* whatever was renamed, pasted or migrated.
EveryPositionNamed ==
    output # Absent =>
        /\ output.contract.abi = output.abi
        /\ DOMAIN output.contract.names = ToSet(ExternrefPaths(output.abi))
        /\ Cardinality(DOMAIN output.contract.names) =
               Cardinality(OpaqueIn(output.abi.imports)) + Cardinality(OpaqueIn(output.abi.exports))

\* With a lock of the fourth version `resource-verify` accepts exactly the
\* programs at whose boundary a host finds the same things, however they are
\* numbered, and nothing with a type it cannot spell (resource-protocol.md 56-70).
ResourceVerifyIsExact ==
    Readable(rlock) /\ rlock.version = 4 /\ Projects(program.module) =>
        ResourceVerifyExit(rlock, program) =
            IF ~SpelledOut(rlock.of) \/ ~SpelledOut(program.module) THEN 3
            ELSE IF SameBoundary(rlock.of, program.module) THEN 0 ELSE 2

LegacyLockNeverGuesses ==
    Readable(rlock) /\ rlock.version = 3 =>
        ResourceVerifyExit(rlock, program) \in
            {3, ResourceVerifyExit(CurrentLock(rlock), program)}

ContractAgreesWithLock ==
    Readable(rcontract) =>
        LET passes == ResourceVerifyExit(CurrentLock(rcontract), program) = 0
        IN  /\ ResourceContractFits(program, rcontract) => passes
            /\ rcontract.version = 5 /\ passes => ResourceContractFits(program, rcontract)

\* Whatever file records the resources of an artifact, the verdict is that of a
\* new lock of the same artifact: a lock of the third version leads to it or
\* to none, as missing evidence is never guessed (resource-protocol.md 150-170),
\* and `generate` takes a resource contract exactly if `resource-verify` would
\* pass, a legacy one only then.
FilesAgree == LegacyLockNeverGuesses /\ ContractAgreesWithLock

-----------------------------------------------------------------------------

\* A program whose boundary has not changed has compatible resources in a
\* verification report: the comparison "does not depend on Wasm indices"
\* (verification/resources.mbt 17-19).
IndicesDoNotMatter ==
    Readable(rlock) /\ Projects(program.module) /\ SameBoundary(rlock.of, program.module) =>
        CompareResources(Resources(rlock.of), Resources(program.module)) = "compatible"

-----------------------------------------------------------------------------
(* The inductive invariant of the proofs: what lies beside the artifact    *)
(* was made from some program, whatever the artifact is built from now.    *)

Names(abi) == [ToSet(ExternrefPaths(abi)) -> GoodNames]

SecondVersion(file) ==
    file = Named(file.abi, [path \in DOMAIN file.names |-> file.names[path]])

FirstVersion(file) ==
    /\ file.version = 1
    /\ file = [version |-> 1, abi |-> file.abi, imports |-> file.imports, generic |-> file.generic]

\* A lock is of a program that could be locked.
LockInv ==
    Readable(lock) => \E p \in Programs : ~Diagnosed(p) /\ lock = Fingerprint(p)

ContractInv == Readable(contract) => FirstVersion(contract) \/ SecondVersion(contract)

\* The contract written beside an adapter names the positions of its ABI.
OutputInv ==
    output # Absent =>
        \E p \in Programs :
            /\ \E names \in Names(Fingerprint(p)) :
                  output = [abi |-> Fingerprint(p), contract |-> Named(Fingerprint(p), names),
                            resources |-> output.resources]
            /\ ~HasForeignValue(p)
            /\ Unambiguous(Fingerprint(p)) /\ GeneratorAccepts(Fingerprint(p))

\* A file of resources tells the truth about the program whose hash it has.
Truthful(file, current) ==
    Readable(file) =>
        \E p \in Programs :
            /\ Projects(p.module) /\ file.of = p.module
            /\ \/ file.version = current /\ file.surface = ProjectSurface(p.module)
               \/ /\ file.version = current - 1
                  /\ file.surface \in {LegacySurface(p.module), OlderSurface(p.module)}

ResourceFilesInv ==
    /\ Truthful(rlock, 4) /\ Truthful(rcontract, 5)
    /\ Readable(rcontract) /\ rcontract.version = 5 => rcontract.surface.unsupported = {}

FilesInv == program \in Programs /\ LockInv /\ ContractInv /\ OutputInv /\ ResourceFilesInv
=============================================================================
