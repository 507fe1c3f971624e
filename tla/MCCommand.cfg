\* Three runs of the command, each killed or failing anywhere, over the same disk.
CONSTANTS
    MaxUint64 = 1073741823
    MaxUint32 = 134217727
    Invocations <- MCInvocations
    MultiResults <- MCMultiResults
    Documents <- MCDocuments
    Names <- MCNames
    MaxStarts = 3
    Payloads <- MCPayloads
SPECIFICATION Spec
INVARIANTS
    PolicyInForce
    ListedBeforeWritten
    DoneMeansWritten
    FramesExact
PROPERTIES
    UnchangedKept
CHECK_DEADLOCK FALSE
