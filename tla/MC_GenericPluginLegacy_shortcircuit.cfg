CONSTANTS
    Specs <- MCSpecs
    Statuses <- MCStatusesNone
    NoState = NoState
    Unconfigured = Unconfigured
    Partial = Partial
SPECIFICATION Spec
PROPERTY
    KernelParamsSyncedOnChange
