SPECIFICATION MCSpec
CONSTANTS
    SubClients = {c1}
    Filters <- MCFilters
    Topics = {}
    DollarLevels = {"$SYS"}
    SplitSize = 1
    MaxSlots = 2
    MaxRecent = 1
    SubThreads = FALSE
    Broker = broker
    RetTopics <- MCRetTopics
    RetThreads = {"t1"}
    RetConfigs <- MCRetConfigs
    MaxSets = 2
    MaxQueued = 2
    KnownTopics <- MCKnownTopics
    SubFilters <- MCSubFilters
    MaxRequeue = 2
    NodeLimit = 20
    MaxChanges = 1
    InIds = {1}
    MaxPubs = 2
    MaxConns = 3
    RefusedChoices = {{}}
    Mqtt5Choices = {FALSE}
    InThreads = FALSE
    InitialCapacity = 2
    MaxIncomingPacket = 7
    MaxReadBuf = 8
    PacketSizes = {2, 7, 9}
    MaxPackets = 3
    Writers = {w1, w2}
    OutTopics = {t1}
    NoTopic = none
    MaxAlias = 1
    MaxWriteBuf = 2
    MaxWrites = 2
    DisconnectFits = TRUE
    LoginConfigs <- MCLoginConfigs
    MaxLoginSends = 2
    MaxAuthCalls = 2
    MaxDeferred = 1
    MaxDropped = 0
    Adders = {a1, a2}
    MaxTasks = 3
    TaskDelays = {1}
    MaxTaskIds = 3
    MaxDelayed = 1
    MaxTicks = 1
    Workers = {w1, w2}
    Connections = {c1}
    Worker <- MCWorker
    Mqtt5Clients = {c1}
    StuckClients = {}
    WaitsExpire = {}
PROPERTIES
    StoreProgress
    ConnectionProgress
    ThreadProgress
CHECK_DEADLOCK FALSE
