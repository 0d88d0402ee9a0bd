CONSTANTS
    t1 = t1  t2 = t2  t3 = t3
    p1 = p1  p2 = p2
    i1 = i1  i2 = i2
    planA = planA  planB = planB
    bot = bot  ana = ana  gw = gw
    Workers = {t1, t2, t3}
    Procs = {p1, p2}
    ProcOf <- MCProcOf
    Opener <- MCOpener
    Ids = {i1, i2}
    Plans = {planA, planB}
    Subjects = {bot, ana, gw}
    ExecutorId = gw
    ApprovalSet <- MCApprovals
    MaxNow = 2
SPECIFICATION Spec
PROPERTY
    UnavailableOnlyInOutage
