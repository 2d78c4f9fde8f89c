CONSTANTS
    Specs <- MCSpecsVhost
    Statuses <- MCStatusesNone
    NoState = NoState
    Unconfigured = Unconfigured
    Partial = Partial
SPECIFICATION Spec
INVARIANT
    AppliedDriversLoaded
