CONSTANTS
    Specs <- MCSpecsVfio
    Statuses <- MCStatusesNone
    MaxAttempts = 6
    NoState = NoState
    Unconfigured = Unconfigured
    Partial = Partial
SPECIFICATION Spec
PROPERTY
    GiveUpRespected
