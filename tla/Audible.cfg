SPECIFICATION Spec
CONSTANTS
    Characters <- Table
    MaxFactor = 8
    ByteBits = 2
    Multiplier = 20077
    Increment = 12345
    ANNOTATION_MAX = 48
    AUDIO_MAGIC = 46
    CommandLines <- Lines
    Files <- AllFiles
INVARIANTS
    UsageIsAccepted
    OptionsAreKept
    FailureWritesNothing
    AnnotationRecordsCommand
    SizeIsBytesWritten
    CryptTwiceIsIdentity
    SpeedUpUndoesSlowDown
    InsertedSamplesAreLinear
