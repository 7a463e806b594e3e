SPECIFICATION Spec
CONSTANTS
    registry = registry
    team = team
    web = web
    job = job
    digest = digest
    v1 = v1
    host = host
    manager = manager
    worker1 = worker1
    worker2 = worker2
    task = task
    c1 = c1
    c2 = c2
    c3 = c3
    c4 = c4
    u1 = u1
    u2 = u2
    get = get
    del = del
    new = new
    None = None
    Latest = Latest
    Dotted = {host}
    Stack = Stack
    Null = Null
    Inputs <- AllInputs
    Foreign <- AllForeign
    Projects <- AllProjects
    MaxEdits = 2
    Services <- AllServices
    Queries <- AllQueries
    NoValue = NoValue
    NotADate = NotADate
    Substrings <- AllSubstrings
    Nodes = {manager, worker1, worker2}
    Manager = manager
    Tasks = {task}
    Containers = {c1, c2, c3, c4}
    Labels <- AllLabels
    Home <- AllHomes
    NoLabels = NoLabels
    OtherLabels = OtherLabels
    Addresses = {a1, a2}
    Nobody = Nobody
    MaxChanges = 2
    Requests = {u1, u2, get, del, new}
    Op <- AllOps
    ByName = {u1, get, del}
    Original = Original
    Default = Default
    Missing = Missing
    Environments <- AllEnvironments
    RoleStores <- AllRoleStores
    NoSecret = NoSecret
    MaxStarts = 2
    MaxDecisions = 2
CHECK_DEADLOCK FALSE
INVARIANTS
    TypeOK
    AskedIsRead
    UpdateKeepsTheRest
    LinksAgree
    PagesAreTheList
    GhostsAreExact
    NetworkSurvives
    StoreIsKept
