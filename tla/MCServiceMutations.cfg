SPECIFICATION Spec
CONSTANTS
    r1 = r1
    r2 = r2
    i1 = i1
    i2 = i2
    web = web
    api = api
    img = img
    env = env
    policy = policy
    v0 = v0
    v1 = v1
    net = net
    None = None
    Requests = {r1, r2}
    Jobs <- AllJobs
    Ids = {i1, i2}
    Names = {web, api}
    Fields = {img, env, policy}
    Managed = {policy}
    Imposed = v1
    Values = {v0, v1}
    Default = v0
    Nets = {net}
    Faults = {"docker", "lost", "audit", "crash"}
    MaxBumps = 1
CHECK_DEADLOCK FALSE
INVARIANTS
    TypeOK
    MutationsAreRight
PROPERTIES
    ChangesOnlyWhatWasAsked
    EveryRequestIsAnswered
