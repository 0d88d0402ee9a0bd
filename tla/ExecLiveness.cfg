CONSTANTS
    t1 = t1  t2 = t2  p1 = p1  p2 = p2
    i1 = i1  bot = bot  ana = ana
    A = A  B = B  h1 = h1
    iso = iso  mon = mon  respond = respond
    k0 = k0  k1 = k1  k2 = k2  k3 = k3
    None = None
    Workers = {t1, t2}
    Procs = {p1, p2}
    ProcOf <- TwoProcesses
    Opener <- OwnConnection
    Ids = {i1}
    Plans <- MCPlans
    Subjects = {bot, ana}
    ExecutorId = "mcp_gateway"
    ApprovalSet <- MCApprovals
    Tools = {iso, mon}
    CallsPerMinute <- MCLimits
    Window = 1
    Catalog <- MCCatalog
    DeniedInP0 = {"DESTRUCTIVE"}
    Allowlist <- MCAllowlist
    Requests <- TwoRequests
    Keys = {k0, k1, k2, k3}
    MaxNow = 1
    MaxAttempts = 2
SPECIFICATION ExecFairSpec
PROPERTY
    AuthorizedTakesEffect
    AuthorizeReturns
