CONSTANTS
    deploy1 = deploy1  check1 = check1  gateway1 = gateway1
    iso = iso  mon = mon
    None = None
    Loaders = {deploy1, check1, gateway1}
    Unsigned = {check1}
    Runs = {deploy1, check1}
    Gateways = {gateway1}
    Updaters = {deploy1}
    Tools = {iso, mon}
    Catalogs <- MCCatalogs
    Stems = {1, 2}
    Definitions <- MCDefinitions
    Releases <- MCReleases
    Edits <- MCEdits
SPECIFICATION ReleaseSpec
INVARIANTS
    ReleaseTypeOK
    ReadableIsKept
    VerdictIsRight
    CalmLoadIsSigned
    AlarmHasCause
    VerdictIsOfRelease
PROPERTY
    ImplementsHighWaterMark
CONSTRAINT Separated
