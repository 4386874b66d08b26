------------------------- MODULE ReleaseProperties -------------------------
(***************************************************************************)
(* Properties of ReleaseLine.                                              *)
(***************************************************************************)
EXTENDS ReleaseLine

\* The artifact a compiler that numbers types differently makes.
Renumbered(abi, p) ==
    [abi EXCEPT
        !.imports = RenameFunctions(@, p),
        !.exports = RenameFunctions(@, p),
        !.types = [n \in {p[id] : id \in DOMAIN @} |->
                     LET id == CHOOSE m \in DOMAIN @ : p[m] = n
                     IN  RenameDefinition(@[id], p)]]

Reordered(abi) ==
    [abi EXCEPT !.imports = Reverse(@), !.exports = Reverse(@)]

(* What a host needs, without any order or worklist.                       *)

References(def) == ToSet(DefinitionRefs(def))

\* The types functions lead to: those in every closed set with their own.
Reachable(abi, functions) ==
    LET closed(S) == \A id \in S \cap DOMAIN abi.types :
                         References(abi.types[id]) \subseteq S
    IN  {id \in TypeIds :
            \A S \in SUBSET TypeIds :
                ToSet(FunctionRefs(functions)) \subseteq S /\ closed(S) => id \in S}

CommonFunctions(abi, other) ==
    Common(abi.imports, other.imports) \o Common(abi.exports, other.exports)

\* Both ABIs have the same common functions over the same types, for some
\* correspondence of type numbers.
SameWhereBothAre(a, b) ==
    \E p \in Bijection(TypeIds, TypeIds) :
        /\ ToSet(RenameFunctions(Common(a.imports, b.imports), p)) =
               ToSet(Common(b.imports, a.imports))
        /\ ToSet(RenameFunctions(Common(a.exports, b.exports), p)) =
               ToSet(Common(b.exports, a.exports))
        /\ \A id \in Reachable(a, CommonFunctions(a, b)) :
              /\ (id \in DOMAIN a.types) = (p[id] \in DOMAIN b.types)
              /\ id \in DOMAIN a.types => RenameDefinition(a.types[id], p) = b.types[p[id]]

\* A host written against a can run b.
Usable(a, b) ==
    /\ Declared(b.imports) \subseteq Declared(a.imports)
    /\ Declared(a.exports) \subseteq Declared(b.exports)
    /\ SameWhereBothAre(a, b)

\* Everything a host can meet is known.
Understood(abi) ==
    /\ abi.features \subseteq SupportedFeatures
    /\ LET functions == abi.imports \o abi.exports
       IN  /\ ~UnknownIn(functions)
           /\ \A id \in Reachable(abi, functions) \cap DOMAIN abi.types :
                 \A v \in ToSet(Storages(abi.types[id])) : v.type # "unknown"

\* Modules that import each name once.
ImportedOnce == \A list \in ImportLists : NamedOnce(list)

-----------------------------------------------------------------------------
(* Properties.                                                             *)

\* However the compiler numbers types and orders declarations, a rebuild of
\* the same source has the same fingerprint (canonical.mbt 175-176).
NumbersAreNotIdentity ==
    \A p \in Bijection(TypeIds, TypeIds) :
        /\ CanonicalizeHostAbi(Renumbered(source, p)) = CanonicalizeHostAbi(source)
        /\ CanonicalizeHostAbi(Reordered(Renumbered(source, p))) = CanonicalizeHostAbi(source)

\* Of the artifacts without diagnostics in which everything is known, the check
\* accepts exactly those that the host of the last release can run, and with
\* the strict policy of the library exactly those with its fingerprint.  All
\* others it calls unknown, although that host may run them.  So nothing slips
\* through (docs/report-schema.md 96-97), what is called breaking is, and no
\* release has a lock its own tool cannot decode.
CheckIsExact ==
    IF Understood(lock) /\ Understood(source) /\ ~Diagnosed
    THEN /\ Check = IF Usable(lock, source) THEN "compatible" ELSE "breaking"
         /\ (Compare("strict") = "compatible") = (CanonicalizeHostAbi(source) = lock)
    ELSE Check = "unknown"

\* Through any number of releases, each checked only against the one before
\* it, a host keeps working with the last release.
HostStillWorks == Usable(host, lock)

-----------------------------------------------------------------------------
(* What a comment says of Check, which looks imports up by name.           *)

\* main.mbt 1426-1428: compatibility is semantic, so different bytes with the
\* same ABI pass.  An artifact that `lock` accepts, in which everything is known
\* and whose fingerprint is that of the lock, passes the check.
SameAbiPasses ==
    ~Diagnosed /\ Understood(source) /\ CanonicalizeHostAbi(source) = lock =>
        Check = "compatible"
=============================================================================
