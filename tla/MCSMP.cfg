\* Four CPUs, every IPI delivered, one log call per CPU, and one panic on
\* the bootstrap processor once the bring-up is complete (an earlier panic
\* is MCSMP_earlypanic.cfg).
CONSTANTS
    NCPUs = 4
    IpiResults = {TRUE}
    PanicCPUs = {0}
    PanicPhases = {TRUE}
    MaxPanics = 1
    MaxLogs = 1
SPECIFICATION Spec
INVARIANT PanicPrintsAlone ApsUpAtInit
PROPERTY PanicReported
