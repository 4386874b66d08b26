CONSTANTS
    f1 = f1
    f2 = f2
    u1 = u1
    u2 = u2
    d1 = d1
    abiA = abiA
    abiB = abiB
    Edited = Edited
    None = None
    names = names
    canonical = canonical
    given = given
    draft = draft
    changed = changed
    aware = aware
    Contracts <- MCContracts
    Adapters <- MCAdapters
    Given <- MCGiven
    Draft <- MCDraft
    Encoded <- MCEncoded
    PlainAdapter <- MCPlainAdapter
    ResourceAdapter <- MCResourceAdapter
    ResourceAware = {aware}
    OldOutputs <- Both
    FreshWriters = {f1}
    Updaters = {u1, u2}
    DryRunners = {}
    ResourceWriters = {f1}
    Hazards = {"crash"}
    MaxEdits = 0
    MaxTries = 2
    Abis = {abiA, abiB}
    Abi <- SameAbi
    OldAbi = abiA
CHECK_DEADLOCK FALSE
SPECIFICATION FairSpec
INVARIANTS OutputWhole
PROPERTIES OutputComesBack OutputNeverLost ContractNeverLost ResourceOutputKept StoreSpec
