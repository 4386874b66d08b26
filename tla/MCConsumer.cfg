CONSTANTS
    core = core
    x = x
    moonhostabi = moonhostabi
    native = native
    js = js
    Parts = {"", ".", "..", "a", "A", "b", "con"}
    FoldOf <- Lower
    Dependencies = {core, x}
    Candidate = moonhostabi
    Targets <- Both
    Pinned <- MCPinned
    Candidates <- MCCandidates
    BadParts = {"con"}
    Hazards = {"stray", "tamper", "disown"}
    None = None
CHECK_DEADLOCK FALSE
SPECIFICATION Spec
INVARIANTS GoIsEarned ListedIsServed AcceptedIsFaithful ReportIsTrue
