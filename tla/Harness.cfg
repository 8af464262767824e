SPECIFICATION Spec
CONSTANTS
    Functions <- Fns
    Repeats <- MCRepeats
    Configs <- MCConfigs
    Targets = {d1}
    Programs <- MCPrograms
    parallelism = 2
    perf = FALSE
    MaxReports = 1
    None = None
INVARIANTS BinaryIntact UnlistedIsClean RemainingFoundEverywhere
PROPERTIES ReportWritten
CHECK_DEADLOCK FALSE
