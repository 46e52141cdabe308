SPECIFICATION Spec
CONSTANTS
    MaxLines = 2
    MaxRecords = 6
INVARIANTS
    Chronological
    SegmentsBounded
    BreaksOnlyAtUnfinishedWrite
    LossFollowsTear
