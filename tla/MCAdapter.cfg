CONSTANTS
    p1 = p1
    r1 = r1
    env = env
    log = log
    heap = heap
    mem1 = mem1
    mem2 = mem2
    o1 = o1
    f1 = f1
    g1 = g1
    good = good
    other = other
    add = add
    PlainCalls = {p1}
    ResourceCalls = {r1}
    Modules = {env}
    Names = {log, heap}
    FunctionKeys <- OneFunction
    MemoryKeys <- OneMemory
    ExportNames = {add}
    Objects = {o1}
    Functions = {f1}
    ForeignFunctions = {g1}
    Memories = {mem1, mem2}
    MaxOf <- MCMaxOf
    MinPages = 1
    MaxPages = 2
    PageCap = 3
    Artifacts = {good, other}
    Bound = good
    Needs <- MCNeeds
    Provides <- MCProvides
    Hosts = {{"getter"}, {"engine"}}
    MaxEdits = 3
    Absent = Absent
    None = None
CHECK_DEADLOCK FALSE
SPECIFICATION Spec
PROPERTIES PromiseKept
INVARIANTS MismatchBeforeStart AcceptedImportsLink ReturnedExportsKnown
