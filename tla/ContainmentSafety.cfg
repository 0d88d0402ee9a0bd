CONSTANTS
    t1 = t1  t2 = t2  A = A  B = B
    open = open  sealed = sealed   four = four  zero = zero
    normal = normal  verbose = verbose
    k1 = k1  k2 = k2  u1 = u1  u2 = u2  v1 = v1  v2 = v2
    None = None
    Workers = {t1, t2}
    Targets = {A, B}
    Serves <- MCServes
    Tools = {"isolate", "scale", "monitor"}
    Keys = {k1, k2, u1, u2, v1, v2}
    Jobs <- MCJobs
    Contain <- MCContain
    Resting <- MCResting
    MaxCalls = 5
SPECIFICATION Spec
INVARIANTS
    TypeOK
    OriginalIsKept
    RollbacksAccounted
    FreshRollbackVerifies
PROPERTY
    DuplicatesDoNotAct
CHECK_DEADLOCK FALSE
