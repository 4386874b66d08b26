--------------------------- MODULE RepositoryGates ---------------------------
(***************************************************************************)
(* scripts/verify-vendored-parser.py and scripts/validate_quickstart.py:   *)
(* what a repository's bundled parser and documents must be.               *)
(*                                                                         *)
(* Sources are told apart by what they say after line ends are normalized; *)
(* a hash is what it is the hash of.                                       *)
(***************************************************************************)
EXTENDS Naturals, Sequences, SequencesExt

CONSTANTS
    Upstream,   \* the archive the parser comes from: its source files
    Checked     \* the documents that are checked, by their role

\* verify: the files, their records and the list of changed files.
Verify(parser) ==
    /\ DOMAIN parser.recorded = DOMAIN parser.files
    /\ {name \in DOMAIN parser.recorded : parser.recorded[name].changed} = parser.modified
    /\ \A name \in DOMAIN parser.recorded :
          /\ parser.files[name].body = parser.recorded[name].vendored
          /\ parser.files[name].licensed
    /\ parser.license = "Apache-2.0"

\* verify with --upstream-archive
VerifyUpstream(parser, archive) ==
    /\ Verify(parser)
    /\ archive = Upstream
    /\ \A name \in DOMAIN parser.recorded :
          /\ archive[name] = parser.recorded[name].original
          /\ (parser.files[name].body # archive[name]) = parser.recorded[name].changed

\* validate_quickstart.py checks these.
ASSUME CheckedAssumption == DOMAIN Checked = {"readme", "quickstart", "validation", "bundle"}

-----------------------------------------------------------------------------
(* Documents: [md, plain, headings, links, commands, marks].  A heading is  *)
(* [level, title, code]: lines of code blocks may look like headings.       *)

Headings(doc) == ToSet(doc.headings)

Anchors(doc) == {h.title : h \in Headings(doc)}

\* Where one part of a path leads; <<"..">> is outside the repository.
Toward(place, part) ==
    IF place = <<"..">> THEN place
    ELSE IF part = ".." THEN IF place = <<>> THEN <<"..">> ELSE Front(place)
    ELSE IF part = "." THEN place ELSE Append(place, part)

\* Where a path leads from a directory of the repository.
Resolve(from, path) ==
    IF path # <<>> /\ Head(path) = "" THEN <<"..">> ELSE FoldLeft(Toward, from, path)

Exists(files, place) ==
    \E p \in DOMAIN files : Len(place) <= Len(p) /\ SubSeq(p, 1, Len(place)) = place

\* A wrong check that skips links within a document.
LinksElsewhere(files, path) ==
    \A link \in files[path].links : link.path # <<>> =>
        LET target == Resolve(Front(path), link.path)
        IN  /\ target # <<"..">> /\ Exists(files, target)
            /\ link.anchor # "" /\ target \in DOMAIN files /\ files[target].md =>
                  files[target].plain /\ link.anchor \in Anchors(files[target])

\* validate_links: a link without a path stays in its document.
ValidateLinks(files, path) ==
    \A link \in files[path].links :
        LET target == IF link.path = <<>> THEN path ELSE Resolve(Front(path), link.path)
        IN  /\ target # <<"..">> /\ Exists(files, target)
            /\ link.anchor # "" /\ target \in DOMAIN files /\ files[target].md =>
                  files[target].plain /\ link.anchor \in Anchors(files[target])

ValidateCommandPaths(files, path) ==
    \A command \in files[path].commands :
        ToSet(command) \cap {"", ".."} = {} /\ Exists(files, Resolve(<<>>, command))

ValidateHeadings(doc) ==
    /\ \E n \in DOMAIN doc.headings :
          \A k \in DOMAIN doc.headings : (doc.headings[k].level = 1) = (k = n)
    /\ \A n \in 2..Len(doc.headings) : doc.headings[n].level <= doc.headings[n - 1].level + 1

ValidateQuickstart(files) ==
    /\ \A role \in DOMAIN Checked :
          Checked[role] \in DOMAIN files /\ files[Checked[role]].plain
    /\ \A role \in DOMAIN Checked : ValidateLinks(files, Checked[role])
    /\ \A role \in {"readme", "quickstart", "bundle"} :
          ValidateCommandPaths(files, Checked[role])
    /\ ValidateHeadings(files[Checked["quickstart"]])
    /\ \A role \in {"readme", "quickstart"} :
          files[Checked[role]].marks \cap {"private", "stale"} = {}
    /\ files[Checked["validation"]].marks \cap {"leak", "stale"} = {}
    /\ "undefined" \notin files[Checked["bundle"]].marks
    /\ \A role \in {"readme", "quickstart", "validation"} :
          "phrases" \in files[Checked[role]].marks
=============================================================================
