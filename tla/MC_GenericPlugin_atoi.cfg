CONSTANTS
    Specs <- MCSpecs
    Statuses <- MCStatuses
    MaxAttempts = 2
    NoState = NoState
    Unconfigured = Unconfigured
    Partial = Partial
    ScriptRuns <- MCScriptRunsNoFailure
    CmdlineReadMayFail <- MCCmdlineReadNeverFails
SPECIFICATION Spec
PROPERTY
    KernelParamLoopNotAborted
