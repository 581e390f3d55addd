SPECIFICATION FairSpec
CONSTANTS
    NumVcpus = 2
    MaxRequests = 2
    MaxExits = 1
    Requests = {"SuspendVcpus", "ResumeVcpus", "SuspendVm", "ResumeVm", "Snapshot"}
    SleepMayFail = TRUE
    MaySystemExit = TRUE
INVARIANT VcpusRunDevicesAwake
INVARIANT SnapshotOfStoppedVm
INVARIANT GuardsRollBack
PROPERTY RequestsEnd
CHECK_DEADLOCK FALSE
