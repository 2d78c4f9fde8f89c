CONSTANTS
    Specs <- MCSpecs
    Statuses <- MCStatuses
    NoState = NoState
    Unconfigured = Unconfigured
    Partial = Partial
SPECIFICATION Spec
INVARIANTS
    TypeOK
    AppliedDriversLoaded
PROPERTIES
    DriverLoadNeverRegresses
    ImplementsLedger
