CONSTANTS
    Limits <- MCLimits
    Sections = {0, 1, 2, 3, 4, 6, 8, 9, 10, 11, 12, 13}
    Counts = {0, 1, 2}
    Widths = {1}
    Lengths = {7, 15, 21, 22}
CHECK_DEADLOCK FALSE
SPECIFICATION Spec
INVARIANTS SpansNest WorkIsBudgeted SectionsInOrder AcceptedIsConsistent
