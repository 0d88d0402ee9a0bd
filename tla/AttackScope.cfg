CONSTANTS
    t1 = t1  t2 = t2  p1 = p1  p2 = p2
    i1 = i1  i2 = i2  bot = bot  ana = ana  gw = gw
    A = A  B = B  h1 = h1  h2 = h2
    iso = iso  mon = mon  wipe = wipe  ghost = ghost
    respond = respond  monitor = monitor
    None = None
    Workers = {t1, t2}
    Procs = {p1, p2}
    ProcOf <- MCProcOf
    Opener <- MCOpener
    Ids = {i1, i2}
    Plans <- MCPlans
    Subjects = {bot, ana, gw}
    ExecutorId = "mcp_gateway"
    ApprovalSet <- MCApprovals
    Tools = {iso, mon, wipe}
    CallsPerMinute <- MCLimits
    Window = 1
    Catalog <- MCCatalog
    DeniedInP0 = {"DESTRUCTIVE"}
    Allowlist <- MCAllowlist
    Requests <- MCRequests
    Probes <- MCProbes
    MaxNow = 1
    MaxAttempts = 2
SPECIFICATION PathSpec
INVARIANT
    OutOfScopeIsExcluded
