SPECIFICATION Spec
CHECK_DEADLOCK FALSE
CONSTANTS
    Top = 3
    MaxSequence = 99
    Keys <- MCKeys
    Targets <- MCTargets
    Contents <- MCContents
    CutKey <- MCCutKey
    RestartInterval = 2
    BlockSize = 12
    FilterBase = 6
    MaxInserts = 1
INVARIANTS
    ReadsAgree
PROPERTIES
    ErrorsStay
