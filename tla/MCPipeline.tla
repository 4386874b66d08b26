----------------------------- MODULE MCPipeline -----------------------------
(* A small instance of PipelineProperties for TLC. *)
EXTENDS PipelineProperties

Lower == [part \in Parts |-> IF part = "README" THEN "readme" ELSE part]

MCNames == << <<"">>, <<"README">>, <<"bin", "">>, <<"bin", "cli">>, <<"bin", "cli.exe">> >>
MCExecutable(platform) == IF platform = "linux" THEN <<"bin", "cli">> ELSE <<"bin", "cli.exe">>

MCSources(platform) == [path \in ToSet(RelativeFiles(platform)) |->
                          IF path = <<"README">> THEN "text" ELSE platform]

\* The members of an archive, one of them changed, and one more.
Changed(archive, n, member) == [archive EXCEPT !.members[n] = member]

Directory(platform, name) == Entry(<<Root(platform)>> \o name, "directory", None, "executable")
Plainly(platform, name) == Entry(<<Root(platform)>> \o name, "file", "evil", "plain")

MCVariants(platform) ==
    LET good == Packed(platform)
        last == good.members[Len(good.members)]
        Last2(member) == Changed(good, Len(good.members), member)
        Plus(member) == [good EXCEPT !.members = Append(@, member)]
    IN  {Last2([last EXCEPT !.data.bytes = "evil"]),
         Last2([last EXCEPT !.kind = "link", !.data.mode = "link"]),
         Last2([last EXCEPT !.path = <<Root(platform), "..", "..", "cli">>]),
         Last2([last EXCEPT !.canonical = FALSE]),
         Last2([last EXCEPT !.data.mode = "archived"]),
         [good EXCEPT !.members = Front(@)],
         [good EXCEPT !.members = Reverse(@)],
         Plus([last EXCEPT !.data.bytes = "evil"]),
         Plus(Plainly(platform, <<"readme">>)),
         Plus(Directory(platform, <<"docs", "">>)),
         [good EXCEPT !.rest = <<Plainly(platform, <<"bin", "cli">>)>>],
         [good EXCEPT !.canonical = FALSE]}

-----------------------------------------------------------------------------
(* The repository and changes to it.                                       *)

Setup(run) == Step(NoAction, None, run)
Use(action, with) == Step(action, with, <<>>)
On(step, platform) == [step EXCEPT !.when = platform]
Entry2(os, platform) == [os |-> os, platform |-> platform, name |-> platform]

Resolve3 == Setup(<<"update", "provenance", "check">>)
Pack == Setup(<<"package">>)
Installed == <<On(Setup(<<"install-linux">>), "linux"), On(Setup(<<"install-windows">>), "windows"),
               Setup(<<"identify">>)>>
Handoff == Use("upload", "package-handoff")

Job(matrix, steps) ==
    [permissions |-> NoAction, env |-> "contract", needs |-> {}, on |-> None,
     matrix |-> matrix, steps |-> steps]

PackageJob ==
    Job(<<Entry2("ubuntu", "linux"), Entry2("windows", "windows")>>,
        <<Use("checkout", None)>> \o Installed \o <<Resolve3, Pack, Handoff>>)

AggregateJob ==
    [Job(<<>>, <<Use("download", "package-handoffs"), Setup(<<"aggregate">>),
                 Use("upload", "release")>>)
        EXCEPT !.needs = {"package"}, !.on = "ubuntu"]

Release == [on |-> {"workflow_dispatch"}, version |-> "required", permissions |-> "read",
            jobs |-> [package |-> PackageJob, aggregate |-> AggregateJob]]

\* The package job with other steps from the resolution on.
Steps(steps) ==
    [Release EXCEPT !.jobs.package.steps = <<Use("checkout", None)>> \o Installed \o steps]

Ordered(run) == Steps(<<Setup(run), Handoff>>)
With(steps) == Steps(<<Resolve3>> \o steps \o <<Pack, Handoff>>)

Releases ==
    <<Release, [Release EXCEPT !.on = {"push"}],
     Ordered(<<"update", "provenance", "package", "check">>),
     Ordered(<<"package", "update", "provenance", "check", "package">>),
     Ordered(<<"update", "check", "provenance", "package">>),
     Ordered(<<"provenance", "check", "package">>),
     Ordered(<<"package-otherwise", "update", "provenance", "check", "package">>),
     Steps(<<On(Resolve3, "linux"), Pack, Handoff>>),
     Steps(<<[Resolve3 EXCEPT !.strict = FALSE], Pack, Handoff>>),
     With(<<Setup(<<"install-latest">>)>>), With(<<Setup(<<"gh-release">>)>>),
     With(<<Use("other-action", None)>>), With(<<Handoff>>),
     [With(<<Setup(<<"publish">>)>>) EXCEPT !.jobs.package.permissions = "write"],
     [With(<<Setup(<<"publish">>)>>) EXCEPT !.permissions = "write"],
     With(<<Setup(<<"publish">>)>>),
     [Release EXCEPT !.jobs.package.env = "other"],
     Steps(<<Resolve3, Pack, Use("upload", "package-archive")>>),
     Steps(<<Resolve3, Pack>>),
     [Release EXCEPT !.jobs.package.matrix = <<Entry2("ubuntu", "linux")>>],
     [Release EXCEPT !.jobs.package.matrix = <<Entry2("ubuntu", "linux"), Entry2("ubuntu", "linux")>>],
     [Release EXCEPT !.jobs.package.matrix[1].platform = NoAction,
                     !.jobs.package.matrix[2].platform = NoAction],
     [Release EXCEPT !.jobs.aggregate.needs = {}],
     [Release EXCEPT !.jobs.aggregate.steps[1].with = "linux-handoff"],
     [Release EXCEPT !.jobs.aggregate.steps[2].run = <<"aggregate", "allow-simulated">>]>>

Ci == [on |-> {"push", "pull_request", "workflow_dispatch"}, permissions |-> "read",
       jobs |-> [spike |-> Job(<<Entry2("ubuntu", "Linux"), Entry2("windows", "Windows")>>,
            Installed \o <<Use("setup-python", None), Use("setup-node", None), Setup(<<"hashed-pip">>),
                           Setup(<<"verify-spike">>), Setup(<<"git-diff">>),
                           On(Use("upload", "diagnostics"), "failure")>>)]]

Spike == <<"update", "provenance", "parser-tests", "check", "test", "consumer-tests",
           "npm-ci", "resources", "consumer", "GO">>

Moved(text, mark, n) == InsertAt(SelectSeq(text, LAMBDA m : m # mark), n, mark)

Spikes ==
    <<Spike, Moved(Spike, "GO", 9), Moved(Spike, "consumer", 10),
           Moved(Spike, "parser-tests", 1), Moved(Spike, "consumer-tests", 10),
           SelectSeq(Spike, LAMBDA m : m # "consumer-tests"),
           Moved(Spike, "test", 10), SubSeq(Spike, 6, 10) \o SubSeq(Spike, 1, 5)>>

File(headings, links, commands) ==
    [md |-> TRUE, plain |-> TRUE, headings |-> headings, links |-> links,
     commands |-> commands, marks |-> {"phrases"}]

H(level, title) == [level |-> level, title |-> title, code |-> FALSE]
To(path, anchor) == [path |-> path, anchor |-> anchor]

MCChecked == [readme |-> <<"README.md">>, quickstart |-> <<"docs", "quickstart.md">>,
              validation |-> <<"docs", "validation.md">>,
              bundle |-> <<"fixtures", "README.md">>]

Docs ==
    (<<"README.md">> :> File(<<H(1, "top")>>, {To(<<"docs", "quickstart.md">>, "start")},
                             {<<"scripts", "verify.ps1">>})) @@
    (<<"docs", "quickstart.md">> :> File(<<H(1, "start"), H(2, "more")>>,
            {To(<<"..", "fixtures", "README.md">>, "top"), To(<<>>, "more")},
            {<<"scripts">>})) @@
    (<<"docs", "validation.md">> :> File(<<H(1, "top")>>, {To(<<"quickstart.md">>, "")}, {})) @@
    (<<"fixtures", "README.md">> :> File(<<H(1, "top")>>, {}, {})) @@
    (<<"scripts", "verify.ps1">> :> [File(<<>>, {}, {}) EXCEPT !.md = FALSE])

Linking(link) == [Docs EXCEPT ![<<"docs", "quickstart.md">>].links = {link}]

Documents ==
    <<Docs, Linking(To(<<"missing.md">>, "")), Linking(To(<<"docs", "quickstart.md">>, "")),
     Linking(To(<<"..", "..", "other">>, "")), Linking(To(<<"validation.md">>, "missing")),
     Linking(To(<<>>, "missing")), Linking(To(<<"..", "scripts", "verify.ps1">>, "line")),
     [Docs EXCEPT ![<<"README.md">>].commands = {<<"scripts", "missing.ps1">>}],
     [Docs EXCEPT ![<<"README.md">>].commands = {<<"scripts", ".", "verify.ps1">>}],
     [Docs EXCEPT ![<<"docs", "quickstart.md">>].headings = <<H(1, "start"), H(3, "more")>>],
     [Docs EXCEPT ![<<"docs", "validation.md">>].marks = @ \cup {"leak"}]>>

MCUpstream == ("a" :> "one") @@ ("b" :> "two")

Source(body) == [body |-> body, licensed |-> TRUE]
Recorded(vendored, original, changed) ==
    [vendored |-> vendored, original |-> original, changed |-> changed]

Parser ==
    [files |-> ("a" :> Source("one")) @@ ("b" :> Source("ours")),
     recorded |-> ("a" :> Recorded("one", "one", FALSE)) @@ ("b" :> Recorded("ours", "two", TRUE)),
     modified |-> {"b"}, license |-> "Apache-2.0"]

Parsers ==
    <<Parser, [Parser EXCEPT !.modified = {}], [Parser EXCEPT !.files["a"].body = "other"],
     [Parser EXCEPT !.files["a"].licensed = FALSE],
     [Parser EXCEPT !.files["a"].body = "other", !.recorded["a"].vendored = "other"],
     [Parser EXCEPT !.modified = {}, !.recorded["b"].changed = FALSE],
     [Parser EXCEPT !.files = @ @@ ("c" :> Source("more"))]>>

Repository == [ci |-> Ci, release |-> Release, spike |-> Spike, docs |-> Docs, parser |-> Parser]

Case(event, repo, fault) ==
    [event |-> event, repo |-> repo, upstream |-> MCUpstream, platform |-> "linux", fault |-> fault]

Dispatch(fault) == Case("dispatch", Repository, fault)

Each(repositories, event, fault) ==
    [n \in DOMAIN repositories |-> Case(event, repositories[n], fault)]

WithRelease == [n \in DOMAIN Releases |-> [Repository EXCEPT !.release = Releases[n]]]
WithSpike == [n \in DOMAIN Spikes |-> [Repository EXCEPT !.spike = Spikes[n]]]
WithDocs == [n \in DOMAIN Documents |-> [Repository EXCEPT !.docs = Documents[n]]]
WithParser == [n \in DOMAIN Parsers |-> [Repository EXCEPT !.parser = Parsers[n]]]
OtherCi == [Repository EXCEPT !.ci.jobs.spike.matrix = <<Entry2("ubuntu", "linux")>>]

MCCases == ToSet(
    Each(WithRelease, "dispatch", None) \o Each(WithRelease, "dispatch", "failures")
    \o <<Dispatch("tools"), Dispatch("meddling"), Dispatch("alteration"), Dispatch("drift")>>
    \o Each(WithDocs, "dispatch", None) \o Each(WithParser, "dispatch", None)
    \o <<[Dispatch(None) EXCEPT !.upstream = "a" :> "one"], Case("push", OtherCi, None)>>
    \o Each(WithSpike, "push", None) \o Each(WithSpike, "push", "failures")
    \o FlattenSeq([n \in 1..2 |->
          LET fault(f) == [Case("rehearsal", Repository, f)
                              EXCEPT !.platform = <<"linux", "windows">>[n]]
          IN  <<fault(None), fault("failures"), fault("tools")>>]))
=============================================================================
