CONSTANTS
    none = none
    None = none
    Manifests <- MCManifests
    Allowlist <- MCAllowlist
    MaxManifests = 4
SPECIFICATION Spec
INVARIANTS
    TypeOK
    EscalationsExact
    NobodyForgotten
    GoIsSafe
    ExposureExact
PROPERTY
    MoreNeverHides
CHECK_DEADLOCK FALSE
