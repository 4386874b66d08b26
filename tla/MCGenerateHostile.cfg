CONSTANTS
    f1 = f1
    f2 = f2
    u1 = u1
    u2 = u2
    d1 = d1
    abiA = abiA
    abiB = abiB
    Edited = Edited
    None = None
    names = names
    canonical = canonical
    given = given
    draft = draft
    changed = changed
    aware = aware
    Contracts <- MCContracts
    Adapters <- MCAdapters
    Given <- MCGiven
    Draft <- MCDraft
    Encoded <- MCEncoded
    PlainAdapter <- MCPlainAdapter
    ResourceAdapter <- MCResourceAdapter
    ResourceAware = {aware}
    OldOutputs <- AsGenerated
    FreshWriters = {f1}
    Updaters = {u1}
    DryRunners = {}
    ResourceWriters = {}
    Hazards = {"io", "edit", "handle", "sibling", "crash"}
    MaxEdits = 1
    MaxTries = 2
    Abis = {abiA, abiB}
    Abi <- TwoAbis
    OldAbi = abiA
CHECK_DEADLOCK FALSE
SPECIFICATION FairSpec
INVARIANTS TypeOK LeftoversReported
PROPERTIES UpdateReplacesValidated Termination
