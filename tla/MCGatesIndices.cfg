CONSTANTS
    TypeIds = {}
    KnownTypes <- Spelled
    Programs <- SmallPrograms
    ImportPath <- Paths4
    MakeClosure = 4
    DraftNames <- Drafts
    GoodNames = {"TExtern0", "TExtern1", "WasmGlobal"}
    ResourceTypes = {"WasmGlobal"}
    BadNames = {"class"}
    Absent = Absent
    Damaged = Damaged
    Kept <- Pairs
SPECIFICATION Spec
INVARIANT IndicesDoNotMatter
