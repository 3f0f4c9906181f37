CONSTANTS
    A = A
    B = B
    Api = Api
    Outside = Outside
    Stranger = Stranger
    Manifests <- MCManifests
    MaxRuns = 3
    MaxTrouble = 2
SPECIFICATION Spec
CHECK_DEADLOCK FALSE
INVARIANTS
    RerunRepeatsNothing
    ForeignIsLeftAlone
    NothingUnapproved
    RerunConverges
    ReportIsTrue
