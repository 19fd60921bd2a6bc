SPECIFICATION Spec
CONSTANTS
    web = web
    other = other
    app = app
    page = page
    Workers = {web, other}
    Clients = {app, page}
    WorkerOf <- BothAtWeb
    Asks = {app}
    RingMax = 2
    MaxPending = 2
    MaxEvents = 3
    Faults = {"notify", "age", "restart", "cut"}
    MaxFaults = 2
CHECK_DEADLOCK FALSE
INVARIANTS
    TypeOK
    OnceInOrder
    GapsExplained
