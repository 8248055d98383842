CONSTANTS
    t1 = t1
    t2 = t2
    logger = logger
    store = store
    bus = bus
    handler = handler
    lazy = lazy
    class = class
    port = port
    setup = setup
    Thread = {t1, t2}
    Service = {logger, store, bus, handler, lazy, class, port, setup}
    Registered <- Scopes
    Lazy = {lazy}
    OnDemand = {setup, bus}
    Sets <- SetupSets
    Injectable = {class}
    Decorated = {}
    Concrete = {class}
    ByFactory = {logger, store, bus, handler, lazy}
    Needs <- NeededBy
    Uses <- SetupUses
    Fragile = {bus}
    MaxGets = 2
SPECIFICATION FairSpec
INVARIANTS
    TypeOK
    OneInstance
    SoundIsServed
    NothingIsLost
PROPERTIES
    EveryGetEnds
CHECK_DEADLOCK FALSE
