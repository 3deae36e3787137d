SPECIFICATION Spec
CONSTANTS
    Documents = {d1, d2}
    Drafts <- BoundaryDrafts
    Tolerance <- Two
    MaxRecords = 1
SYMMETRY Interchangeable
INVARIANTS
    AcceptedAddsUp
    WorstLineDecides
    AcceptedDateHasOneReading
    ApprovedCanBeRecorded
