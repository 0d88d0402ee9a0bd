CONSTANTS
    none = none
    None = none
    Manifests <- MCManifests
    Allowlist <- MCAllowlist
    MaxManifests = 3
SPECIFICATION Spec
INVARIANT
    CriticalIsClusterWide
CHECK_DEADLOCK FALSE
