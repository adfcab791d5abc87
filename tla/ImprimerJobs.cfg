SPECIFICATION Spec
CONSTANTS
    NPrinters = 2
    PrinterName <- Names
    PrinterType <- Types
    FileTypes <- OneFileType
    Conversions <- OneConversion
    PrinterSets <- AnySet
    MaxJobs = 2
INVARIANTS
    TypeOK
    QueuedJobsWaitForPrinter
    ProcessesAreTracked
    BusyPrintersHaveProcess
    ProcessesUseEligiblePrinters
PROPERTY EndedJobsStayEnded
