----------------------------- MODULE MCConsumer -----------------------------
(* A small instance of ConsumerProperties for TLC. *)
EXTENDS ConsumerProperties

CONSTANTS core, x, moonhostabi, native, js

Both == <<native, js>>

Lower == [part \in Parts |-> IF part = "A" THEN "a" ELSE part]

File(path, data) == [path |-> path, kind |-> "file", data |-> data]
Link(path) == [path |-> path, kind |-> "link", data |-> "elsewhere"]
Directory(path) == [path |-> path, kind |-> "directory", data |-> "none"]

Archive(members) == [members |-> members, manifest |-> TRUE, policy |-> TRUE]

Plain == <<File(<<"a", "b">>, "one"), File(<<"b">>, "two")>>

MCPinned == Archive(Plain)

\* Members that climb, start at the root, lead through a link, replace one
\* another or stand in each other's way; and archives with other faults.
MCCandidates ==
    {Archive(members) : members \in {
        Plain,
        <<File(<<"..", "b">>, "one")>>,
        <<File(<<"", "b">>, "one")>>,
        <<File(<<"con">>, "one")>>,
        <<Link(<<"a">>), File(<<"a", "b">>, "one")>>,
        <<File(<<"b">>, "one"), File(<<"b">>, "two")>>,
        <<File(<<"a">>, "one"), File(<<"A">>, "two")>>,
        <<Directory(<<"a">>), File(<<"A">>, "one")>>,
        <<File(<<"a">>, "one"), File(<<"A", "b">>, "two")>>,
        <<File(<<"a">>, "one"), Directory(<<"a", "b">>)>>}} \cup
    {[Archive(Plain) EXCEPT !.manifest = FALSE], [Archive(Plain) EXCEPT !.policy = FALSE]}
=============================================================================
