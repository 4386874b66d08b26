CONSTANTS
    TypeIds <- Two
    ImportLists <- SmallImports
    ExportLists <- SmallExports
    Definitions <- SmallDefinitions
    ClosureKey = 2
    FeatureSets <- SmallFeatures
    NoDefinition = NoDefinition
    Policies <- SmallPolicies
SPECIFICATION Spec
INVARIANTS NumbersAreNotIdentity CheckIsExact HostStillWorks
