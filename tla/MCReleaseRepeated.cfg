CONSTANTS
    TypeIds <- Two
    ImportLists <- RepeatedImports
    ExportLists <- SmallExports
    Definitions <- SmallDefinitions
    ClosureKey = 2
    FeatureSets <- SmallFeatures
    NoDefinition = NoDefinition
    Policies <- SmallPolicies
SPECIFICATION Spec
INVARIANTS SameAbiPasses
