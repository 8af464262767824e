SPECIFICATION Spec
CONSTANTS
    Functions <- Fns
    Repeats <- MCRepeats
    Configs <- MCConfigs
    Targets = {d1}
    Programs <- MCPrograms
    parallelism = 2
    perf = TRUE
    MaxReports = 1
    None = None
INVARIANTS OffRunsBaseline
CHECK_DEADLOCK FALSE
