---------------------------- MODULE WorkflowGate ----------------------------
(***************************************************************************)
(* scripts/validate_workflows.py: which workflow documents and which       *)
(* verify-spike.ps1 are accepted.                                          *)
(*                                                                         *)
(* A step is [uses, with, run, when, strict]: an action and its inputs, or *)
(* commands; the platform it is for; and whether a failing command stops   *)
(* the job.  Nothing reads the last two here.  Commands that a search of   *)
(* the text tells apart are model values or strings.                       *)
(***************************************************************************)
EXTENDS Naturals, Sequences, SequencesExt

NoAction == "none"

\* workflow_steps, run_text
RunText(steps) == FlattenSeq([n \in DOMAIN steps |-> steps[n].run])

\* str.find: the first place, 0 if there is none.
Find(text, mark) ==
    IF mark \in ToSet(text)
    THEN CHOOSE n \in DOMAIN text : text[n] = mark /\ \A k \in 1..(n - 1) : text[k] # mark
    ELSE 0

Has(text, marks) == marks \subseteq ToSet(text)

StepsOf(doc) == UNION {ToSet(doc.jobs[job].steps) : job \in DOMAIN doc.jobs}

AssertPermissions(doc) ==
    /\ doc.permissions = "read"
    /\ \A job \in DOMAIN doc.jobs : doc.jobs[job].permissions = NoAction

\* An action that is pinned to an approved commit has the name of its repository.
AssertActionPins(doc) ==
    \A step \in StepsOf(doc) :
        step.uses \in {NoAction, "checkout", "setup-node", "setup-python", "upload", "download"}

AssertNoReleaseAuthority(doc) ==
    \A step \in StepsOf(doc) :
        ToSet(step.run) \cap {"gh-release", "token", "interpolate"} = {}

\* matrix_pairs: a name stands in for a platform.
MatrixPairs(job) ==
    [n \in DOMAIN job.matrix |->
        <<job.matrix[n].os, IF job.matrix[n].platform = NoAction
                            THEN job.matrix[n].name ELSE job.matrix[n].platform>>]

ExactMatrix(job, pairs) == IsInjective(MatrixPairs(job)) /\ Range(MatrixPairs(job)) = pairs

ActionSteps(steps, action) == SelectSeq(steps, LAMBDA step : step.uses = action)

\* A wrong check that overlooks the inputs.
UsedOnce(steps, action, with) == Len(ActionSteps(steps, action)) = 1

\* Exactly one step uses the action, with the given inputs.
AssertExactWith(steps, action, with) ==
    LET used == ActionSteps(steps, action)
    IN  Len(used) = 1 /\ used[1].with = with

\* A wrong order that lets the build come before the check.
UnbuiltOrder(text, build) ==
    0 < Find(text, "update") /\ Find(text, "update") < Find(text, "provenance")
        /\ Find(text, "provenance") < Find(text, "check") /\ Has(text, {build})

AssertDependencyResolutionOrder(text, build) ==
    /\ ToSet(text) \cap {"patch-cache", "check-dry-run"} = {}
    /\ 0 < Find(text, "update")
    /\ Find(text, "update") < Find(text, "provenance")
    /\ Find(text, "provenance") < Find(text, "check")
    /\ Find(text, "check") < Find(text, build)

AssertResourceGate(text) ==
    /\ 0 < Find(text, "npm-ci")
    /\ Find(text, "npm-ci") < Find(text, "resources")
    /\ Find(text, "resources") < Find(text, "GO")

ValidateSpike(text) ==
    /\ AssertResourceGate(text)
    /\ AssertDependencyResolutionOrder(text, "test")
    /\ Find(text, "provenance") < Find(text, "parser-tests")
    /\ Find(text, "parser-tests") < Find(text, "check")
    /\ 0 < Find(text, "consumer-tests")
    /\ Find(text, "consumer-tests") < Find(text, "npm-ci")
    /\ Find(text, "npm-ci") < Find(text, "consumer")
    /\ Find(text, "consumer") < Find(text, "GO")

AssertMoonbitContract(job, text) ==
    /\ job.env = "contract"
    /\ Has(text, {"install-linux", "install-windows", "identify"})
    /\ "install-latest" \notin ToSet(text)

ValidateCi(doc) ==
    /\ doc.on = {"push", "pull_request", "workflow_dispatch"}
    /\ AssertPermissions(doc) /\ AssertActionPins(doc) /\ AssertNoReleaseAuthority(doc)
    /\ DOMAIN doc.jobs = {"spike"}
    /\ LET job == doc.jobs["spike"]
           text == RunText(job.steps)
       IN  /\ ExactMatrix(job, {<<"ubuntu", "Linux">>, <<"windows", "Windows">>})
           /\ Has(text, {"verify-spike", "git-diff", "hashed-pip"})
           /\ \A action \in {"setup-python", "upload"} : ActionSteps(job.steps, action) # <<>>
           /\ AssertMoonbitContract(job, text)

ValidateRelease(doc) ==
    /\ doc.on = {"workflow_dispatch"} /\ doc.version = "required"
    /\ AssertPermissions(doc) /\ AssertActionPins(doc) /\ AssertNoReleaseAuthority(doc)
    /\ DOMAIN doc.jobs = {"package", "aggregate"}
    /\ LET job == doc.jobs["package"]
           text == RunText(job.steps)
       IN  /\ ExactMatrix(job, {<<"ubuntu", "linux">>, <<"windows", "windows">>})
           /\ AssertMoonbitContract(job, text)
           /\ AssertDependencyResolutionOrder(text, "package")
           /\ AssertExactWith(job.steps, "upload", "package-handoff")
    /\ LET job == doc.jobs["aggregate"]
           text == RunText(job.steps)
       IN  /\ job.needs = {"package"} /\ job.on = "ubuntu"
           /\ Has(text, {"aggregate"}) /\ "allow-simulated" \notin ToSet(text)
           /\ AssertExactWith(job.steps, "download", "package-handoffs")
           /\ AssertExactWith(job.steps, "upload", "release")

\* main: the workflows and the Spike script of a repository.
ValidateWorkflows(repo) ==
    ValidateSpike(repo.spike) /\ ValidateCi(repo.ci) /\ ValidateRelease(repo.release)
=============================================================================
