CONSTANTS
    small = small
    large = large
    yes = yes
    no = no
    Artifacts = {small, large}
    Works <- MCWorks
    WarmupCounts = {0, 1}
    SampleCounts = {1, 2}
    Answers = {yes, no}
    Hazards = {"fail", "edit", "intruder", "interrupt"}
    MaxEdits = 2
    None = None
CHECK_DEADLOCK FALSE
SPECIFICATION Spec
INVARIANTS RecordedBytesMeasured ComparedFairly
PROPERTIES EndsAsReported Ends
