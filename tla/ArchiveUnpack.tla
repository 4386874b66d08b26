--------------------------- MODULE ArchiveUnpack ---------------------------
(***************************************************************************)
(* What a program that unpacks an archive does with its members, one after *)
(* the other, on a file system that may not tell cases apart.  It is the   *)
(* reference for the gates that accept archives, and trusts nothing: a     *)
(* path may climb, start at the root, or go through a link.                *)
(*                                                                         *)
(* A member is [path, kind, data] with a path of parts; "" is what stands  *)
(* before a leading or between two adjacent separators.                    *)
(***************************************************************************)
EXTENDS Naturals, Sequences, SequencesExt

CONSTANTS
    Parts,   \* what may stand between the separators of a path
    FoldOf   \* the spelling a part has for a file system without cases

Fold(path) == [n \in DOMAIN path |-> FoldOf[path[n]]]

Outside == <<"..">>

\* Where one part of a path leads from a place.
Enter(place, part) ==
    IF place = Outside THEN Outside
    ELSE IF part = ".." THEN IF place = <<>> THEN Outside ELSE Front(place)
    ELSE IF part \in {"", "."} THEN place
    ELSE Append(place, FoldOf[part])

\* The place a path leads to, from the root of the unpacked tree.
Place(path) ==
    IF path # <<>> /\ Head(path) = "" THEN Outside ELSE FoldLeft(Enter, <<>>, path)

Above(p, q) == Len(p) < Len(q) /\ SubSeq(q, 1, Len(p)) = p

\* The tree, whether something was written outside it, and whether unpacking
\* stopped because a file is where a directory is needed, or the reverse.
Extract(state, member) ==
    LET path == Place(member.path)
        through(kind) == \E e \in state.tree : e.kind = kind /\ Above(e.path, path)
        here(kind) == \E e \in state.tree : e.kind = kind /\ e.path = path
        below == \E e \in state.tree : Above(path, e.path)
    IN  IF state.stopped THEN state
        ELSE IF path = Outside \/ through("link") \/ here("link")
        THEN [state EXCEPT !.outside = TRUE]
        ELSE IF \/ through("file")
                \/ member.kind = "directory" /\ here("file")
                \/ member.kind # "directory" /\ (here("directory") \/ below)
        THEN [state EXCEPT !.stopped = TRUE]
        ELSE [state EXCEPT !.tree = {e \in @ : e.path # path} \cup
                  {[path |-> path, kind |-> member.kind, data |-> member.data]}]

EmptyTree == [tree |-> {}, outside |-> FALSE, stopped |-> FALSE]

Unpack(members) == FoldLeft(Extract, EmptyTree, members)

FileMembers(members) == {m \in ToSet(members) : m.kind = "file"}

\* Every file member is where its path says, with its own data.
Faithful(members) ==
    LET result == Unpack(members)
    IN  /\ ~result.outside
        /\ ~result.stopped =>
              \A m \in FileMembers(members) :
                  [path |-> Fold(m.path), kind |-> "file", data |-> m.data] \in result.tree
=============================================================================
