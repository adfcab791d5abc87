SPECIFICATION Spec
CHECK_DEADLOCK FALSE
CONSTANTS
    txt = txt
    ps = ps
    pdf = pdf
    Alice = Alice
    Bob = Bob
    TypeNames <- ThreeTypes
    PrinterNames <- TwoNames
    Conversions <- SomeConversions
    PrinterTypes <- TwoTypes
    Prints <- TextPrints
    MAX_TYPES = 3
    MAX_CONVERSIONS = 2
    MAX_PRINTERS = 2
    MaxJobs = 1
INVARIANTS
    ConversionsAreFound
    PathsAreWays
    EnabledPrintersOwnTheirName
    JobsFindTheirPrinters
