-------------------------- MODULE ReleaseArchive --------------------------
(***************************************************************************)
(* scripts/release_archive.py: which archives are a release, what is       *)
(* extracted from one for the smoke tests, and the archives made in place  *)
(* of the other platform's for a rehearsal.                                *)
(*                                                                         *)
(* An archive is [members, rest, canonical]: what the library lists, the   *)
(* members somebody may read behind the end it sees, and whether the       *)
(* envelope is the one the release tools write.  A path with a last part   *)
(* "" ends with a separator.                                               *)
(***************************************************************************)
EXTENDS ArchiveUnpack, FiniteSets

CONSTANTS
    Names,         \* every path of a release below its root, in the order of their text
    Executable(_), \* the path of the program for a platform
    None

Platforms == {"linux", "windows"}

Root(platform) == IF platform = "linux" THEN "root-linux" ELSE "root-windows"

IsDirectory(path) == path # <<>> /\ Last(path) = ""

\* The names of a set, in the order of Names.
Sorted(names) ==
    FlattenSeq([n \in DOMAIN Names |-> IF Names[n] \in names THEN <<Names[n]>> ELSE <<>>])

\* Whether a platform's package has this file.
IsFileOf(platform, name) ==
    ~IsDirectory(name) /\ \A p \in Platforms : name = Executable(p) => p = platform

\* platform_root, relative_files
RelativeFiles(platform) == Sorted({n \in ToSet(Names) : IsFileOf(platform, n)})

ExpectedFileEntries(platform) ==
    LET files == RelativeFiles(platform)
    IN  [n \in DOMAIN files |-> <<Root(platform)>> \o files[n]]

ExpectedTarEntries(platform) ==
    LET entries == Sorted({n \in ToSet(Names) : IsDirectory(n) \/ IsFileOf(platform, n)})
    IN  [n \in DOMAIN entries |-> <<Root(platform)>> \o entries[n]]

\* The names are paths, with the program of each platform among them; no two
\* are one place, and no file is above another name.
ASSUME NamesAssumption ==
    /\ \A part \in Parts : FoldOf[part] = ".." => part = ".."
    /\ Names \in Seq(Seq(Parts))
    /\ \A p \in Platforms :
          /\ Root(p) \in Parts /\ Executable(p) \in ToSet(RelativeFiles(p))
          /\ \A m, n \in ToSet(Names) :
                LET a == <<Root(p)>> \o m
                    b == <<Root(p)>> \o n
                IN  m # n => /\ Place(a) # Place(b)
                             /\ IsDirectory(m) \/ ~Above(Place(a), Place(b))

Stripped(path) ==
    LET ends == {n \in 0..Len(path) : \A k \in (n + 1)..Len(path) : path[k] = ""}
    IN  SubSeq(path, 1, CHOOSE n \in ends : \A k \in ends : n <= k)

AssertSafeName(path) ==
    /\ Stripped(path) # <<>>
    /\ ToSet(Stripped(path)) \cap {"", ".", ".."} = {}

AssertExactNames(actual, expected) ==
    /\ \A n \in DOMAIN actual :
          /\ AssertSafeName(actual[n])
          /\ \A k \in 1..(n - 1) : Fold(actual[k]) # Fold(actual[n])
    /\ actual = expected

Rejected == [ok |-> FALSE, payloads |-> <<>>]

\* The data of the file entries; their names have the root as first part.
Payloads(members, names, files) ==
    [ok |-> TRUE,
     payloads |-> [path \in {Tail(names[n]) : n \in files} |->
                     members[CHOOSE n \in files : Tail(names[n]) = path].data.bytes]]

\* validate_zip: the kind of an entry is in its attributes.
ValidateZip(archive, allowSimulated) ==
    LET members == archive.members
        names == [n \in DOMAIN members |-> members[n].path]
    IN  IF /\ AssertExactNames(names, ExpectedFileEntries("windows"))
           /\ \A n \in DOMAIN members : members[n].canonical
           /\ allowSimulated \/ \A n \in DOMAIN members : members[n].data.mode = "zero"
        THEN Payloads(members, names, DOMAIN members) ELSE Rejected

NormalizedTarName(member) ==
    Stripped(member.path) \o IF member.kind = "directory" THEN <<"">> ELSE <<>>

TarMode(platform, path) ==
    IF IsDirectory(path) \/ path = <<Root(platform)>> \o Executable(platform)
    THEN "executable" ELSE "plain"

\* read_canonical_gzip, assert_canonical_tar_end and validate_tar
ValidateTar(archive) ==
    LET members == archive.members
        names == [n \in DOMAIN members |-> NormalizedTarName(members[n])]
    IN  IF /\ archive.canonical /\ archive.rest = <<>>
           /\ AssertExactNames(names, ExpectedTarEntries("linux"))
           /\ \A n \in DOMAIN members :
                 /\ members[n].kind \in {"file", "directory"} /\ members[n].canonical
                 /\ members[n].data.mode = TarMode("linux", names[n])
        THEN Payloads(members, names, {n \in DOMAIN members : members[n].kind = "file"})
        ELSE Rejected

ValidateArchive(archive, platform, allowSimulated) ==
    IF platform = "windows" THEN ValidateZip(archive, allowSimulated)
    ELSE IF allowSimulated THEN Rejected ELSE ValidateTar(archive)

\* extract_payloads: the tree the smoke tests run in.
ExtractPayloads(payloads, platform) ==
    {[path |-> path, bytes |-> payloads[path],
      mode |-> IF platform = "windows" THEN None
               ELSE IF path = Executable("linux") THEN "executable" ELSE "plain"]
        : path \in DOMAIN payloads}

\* source_bytes: the one program of the tree stands in for the other.
SourceBytes(tree, source, target) ==
    [path \in ToSet(RelativeFiles(target)) |->
        (CHOOSE e \in tree : e.path = IF path = Executable(target)
                                      THEN Executable(source) ELSE path).bytes]

Entry(path, kind, bytes, mode) ==
    [path |-> path, kind |-> kind, canonical |-> TRUE,
     data |-> [bytes |-> bytes, mode |-> mode]]

CreateMockZip(payloads) ==
    LET names == RelativeFiles("windows")
    IN  [n \in DOMAIN names |->
            Entry(<<Root("windows")>> \o names[n], "file", payloads[names[n]], "archived")]

CreateMockTar(payloads) ==
    LET names == ExpectedTarEntries("linux")
    IN  [n \in DOMAIN names |->
            IF IsDirectory(names[n]) THEN Entry(names[n], "directory", None, "executable")
            ELSE Entry(names[n], "file", payloads[Tail(names[n])], TarMode("linux", names[n]))]

\* create_mock
CreateMock(tree, source, target) ==
    LET payloads == SourceBytes(tree, source, target)
    IN  [members |-> IF target = "windows" THEN CreateMockZip(payloads)
                     ELSE CreateMockTar(payloads),
         rest |-> <<>>, canonical |-> TRUE]

-----------------------------------------------------------------------------
(* What users get from an archive.                                         *)

\* A zip keeps the kind of an entry in its attributes and its name.
ZipKind(member) ==
    IF member.data.mode = "link" THEN "link"
    ELSE IF IsDirectory(member.path) THEN "directory" ELSE "file"

\* Readers may stop at the end of the archive or read on behind it.  A zip
\* has no modes, and its central directory is all that is read.
Readings(archive, platform) ==
    LET members == archive.members
    IN  IF platform = "windows"
        THEN {[n \in DOMAIN members |-> [members[n] EXCEPT !.kind = ZipKind(members[n])]]}
        ELSE {members, members \o archive.rest}

UserTree(result, platform) ==
    {[path |-> Tail(e.path), bytes |-> e.data.bytes,
      mode |-> IF platform = "windows" THEN None ELSE e.data.mode]
        : e \in {e \in result.tree : e.kind # "directory"}}
=============================================================================
