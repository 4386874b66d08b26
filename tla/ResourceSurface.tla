-------------------------- MODULE ResourceSurface --------------------------
(***************************************************************************)
(* The memories, tables, globals and tags of a module, their projection to *)
(* a resource surface, the legacy form of a surface, and the comparisons.  *)
(*                                                                         *)
(* A module has imports, definitions of each kind, exports that name an    *)
(* index of their kind (counted from 1), and signatures, which tags name   *)
(* by index.  A path is <<module, name>> for an import, <<name>> for an    *)
(* export.  A type is a value type, limits, and flags: shared, mutable, or *)
(* wide for everything with 64 bits or another page size.                  *)
(***************************************************************************)
EXTENDS Naturals, Sequences, FiniteSets, SequencesExt

CONSTANT KnownTypes   \* the value types with a spelling of their own

Kinds == {"memory", "table", "global", "tag"}

\* A module as the parser gives it.
IsModule(m) ==
    /\ m.imports \in Seq(ToSet(m.imports))
    /\ \A kind \in Kinds : m.defined[kind] \in Seq(ToSet(m.defined[kind]))
    /\ \A i \in ToSet(m.imports) : i.kind \in Kinds /\ Len(i.path) = 2
    /\ \A e \in ToSet(m.exports) : e.kind \in Kinds /\ Len(e.path) = 1

-----------------------------------------------------------------------------
(* Projection.                                                             *)

\* The types of the imports of a kind, in order.
ImportedTypes(m, kind) ==
    FlattenSeq([n \in DOMAIN m.imports |->
        IF m.imports[n].kind = kind THEN <<m.imports[n].type>> ELSE <<>>])

\* A wrong index space: of definitions only.
DefinedOnly(m, kind) == m.defined[kind] \o ImportedTypes(m, kind)

IndexSpace(m, kind) == ImportedTypes(m, kind) \o m.defined[kind]

\* The items at the boundary: kind, path and declared type.
Boundary(m) ==
    {<<i.kind, i.path, i.type>> : i \in ToSet(m.imports)} \cup
        {<<e.kind, e.path, IndexSpace(m, e.kind)[e.index]>> : e \in ToSet(m.exports)}

\* A tag is the parameters of its signature.
Resolved(m, item) ==
    IF item[1] = "tag" THEN [item EXCEPT ![3] = m.signatures[@].params] ELSE item

\* Every value type of an item has a spelling.
Normalizable(entry) ==
    CASE entry[1] = "memory" -> TRUE
      [] entry[1] = "tag"    -> ToSet(entry[3]) \subseteq KnownTypes
      [] OTHER               -> entry[3].value \in KnownTypes

Paths(items) == [n \in DOMAIN items |-> items[n].path]

\* Projection refuses repeated names, missing indices and tags with results.
Projects(m) ==
    /\ IsInjective(Paths(m.imports)) /\ IsInjective(Paths(m.exports))
    /\ \A e \in ToSet(m.exports) : e.index \in DOMAIN IndexSpace(m, e.kind)
    /\ \A item \in Boundary(m) :
          item[1] = "tag" =>
              item[3] \in DOMAIN m.signatures /\ m.signatures[item[3]].results = <<>>

ProjectSurface(m) ==
    LET items == {Resolved(m, item) : item \in Boundary(m)}
    IN  [entries |-> {item \in items : Normalizable(item)},
         unsupported |-> {item[2] : item \in {i \in items : ~Normalizable(i)}}]

-----------------------------------------------------------------------------
(* Comparison of surfaces.                                                 *)

CompareSurfaces(before, after) ==
    IF before.unsupported \cup after.unsupported # {} THEN "unknown"
    ELSE IF before.entries # after.entries THEN "breaking"
    ELSE "compatible"

-----------------------------------------------------------------------------
(* Surfaces of the third version have indices of signatures for tags.      *)

Tags(m) == {item \in Boundary(m) : item[1] = "tag"}

LegacySurface(m) ==
    LET surface == ProjectSurface(m)
    IN  [entries |-> {e \in surface.entries : e[1] # "tag"},
         unsupported |-> surface.unsupported, tags |-> Tags(m)]

\* What is written through the library: value types as declared, unspelled.
OlderSurface(m) ==
    [entries |-> Boundary(m) \ Tags(m), unsupported |-> {}, tags |-> Tags(m)]

\* Names of tables, globals and tags must not be empty.
LegacyDecodes(legacy) ==
    \A item \in legacy.entries \cup legacy.tags :
        item[1] # "memory" => "" \notin ToSet(item[2])

\* A wrong lift that forgets about tags.
LiftWithoutTags(legacy) ==
    [entries |-> {e \in legacy.entries : Normalizable(e)},
     unsupported |-> legacy.unsupported \cup
         {e[2] : e \in {i \in legacy.entries : ~Normalizable(i)}}]

LiftLegacy(legacy) ==
    [entries |-> {e \in legacy.entries : Normalizable(e)},
     unsupported |-> legacy.unsupported \cup {tag[2] : tag \in legacy.tags} \cup
         {e[2] : e \in {i \in legacy.entries : ~Normalizable(i)}}]

-----------------------------------------------------------------------------
(* Resources as the projector describes them for a verification report.    *)

\* References that cannot be null are spelled like those that can.
PlainType(type) ==
    [type EXCEPT !.value = CASE @ = "(ref extern)" -> "externref"
                             [] @ = "(ref func)"   -> "funcref"
                             [] OTHER              -> @,
                 !.flags = @ \ {"shared"}]

ImportDetails(item) ==
    IF item.kind = "tag" THEN item.type ELSE PlainType(item.type)

Resources(m) ==
    {<<i.kind, i.path, ImportDetails(i)>> : i \in ToSet(m.imports)} \cup
        {<<e.kind, e.path, e.index>> : e \in ToSet(m.exports)}

\* Resources are paired by kind and name; all changes are breaking.
CompareResources(before, after) ==
    IF /\ \A b \in before : \E a \in after : <<a[1], a[2]>> = <<b[1], b[2]>>
       /\ \A a \in after : \E b \in before : <<a[1], a[2]>> = <<b[1], b[2]>>
       /\ \A b \in before, a \in after :
             <<a[1], a[2]>> = <<b[1], b[2]>> => a[3] = b[3]
    THEN "compatible" ELSE "breaking"
=============================================================================
