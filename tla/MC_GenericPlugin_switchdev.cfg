CONSTANTS
    Specs <- MCSpecs
    Statuses <- MCStatuses
    MaxAttempts = 2
    NoState = NoState
    Unconfigured = Unconfigured
    Partial = Partial
SPECIFICATION Spec
PROPERTY
    KernelParamRebootReported
