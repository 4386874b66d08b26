CONSTANTS
    Parts = {"", ".", "..", "root-linux", "root-windows", "README", "readme", "bin", "cli", "cli.exe", "docs"}
    FoldOf <- Lower
    Names <- MCNames
    Executable <- MCExecutable
    Upstream <- MCUpstream
    Checked <- MCChecked
    Cases <- MCCases
    Sources <- MCSources
    Variants <- MCVariants
    None = None
    OtherBody = "changed"
CHECK_DEADLOCK FALSE
SPECIFICATION Spec
INVARIANTS AcceptedOrderIsKept ReleasedWasTested LinksLead
PROPERTIES PublicationIsAtomic AcceptedReleases
