SPECIFICATION MCSpec
CONSTANTS
    InIds = {1, 2}
    MaxPubs = 3
    MaxConns = 3
    RefusedChoices = {{}, {1}}
    Mqtt5Choices = {FALSE}
    InThreads = FALSE
    CirBytes = {1, 2}
    InitialSize = 2
    LimitSize = 8
    MaxRequest = 3
    InitialCapacity = 2
    MaxIncomingPacket = 7
    MaxReadBuf = 8
    PacketSizes = {2, 3, 7, 9}
    MaxPackets = 4
    Writers = {w1, w2}
    OutTopics = {t1, t2, t3}
    NoTopic = none
    MaxAlias = 2
    MaxWriteBuf = 2
    MaxWrites = 4
    DisconnectFits = TRUE
    LoginConfigs <- MCLoginConfigs
    MaxLoginSends = 3
    MaxAuthCalls = 2
    MaxDeferred = 1
    MaxDropped = 0
    KaClients = {c1, c2}
    Fds = {4}
    KeepAlives = {0, 2}
    DefaultKeepAlive = 2
    UnauthDelay = 4
    MinDelay = 1
    CheckInterval = 2
    MaxTime = 11
    Adders = {a1, a2}
    MaxTasks = 4
    TaskDelays = {1, 2}
    MaxTaskIds = 3
    MaxDelayed = 3
    MaxTicks = 3
    Workers = {w1, w2}
    Connections = {c1, c2}
    Worker <- MCWorker
    Mqtt5Clients = {c1}
    StuckClients = {}
    WaitsExpire = {"finish"}
    MaxSaves = 2
    Rows = 2
    FailingSteps = {"open", "write", "flush", "rename"}
    MaxDamage = 1
    Clock = {2, 7}
    Word = 16
    Sessions <- MCSessions
    Ids <- MCIds
    WsInitial = 4
    WsMaxBuf = 8
    WsPacketSize = 4
    WsFrames <- MCFrames
    MaxFrames = 3
    HttpBytes = 5
    TlsChoices = {FALSE, TRUE}
    LinkKinds <- MCLinkKinds
    AnswerSize = 2
    AnswerFits = TRUE
    PacketLengths = {1, 4}
    PongLengths = {2}
    MaxPieces = 3
    RemInitial = 2
    RemLimit = 4
    Versions = {1, 2}
    Lasting = {1}
    CleanStart = {}
    GroupChoices = {FALSE}
    BaseInterval = 2
    LongInterval = 3
    BackOffAfter = 2
    MaxAddresses = 1
    MaxReloads = 1
    ReloadsOverlap = FALSE
    MaxFailures = 2
    MaxTries = 3
    Receivers = {2, 3}
    ReceiverKinds <- MCReceiverKinds
    RetainedModes = {"Enabled", "Downgrade", "Drop"}
    PluginChanges = {"nothing", "topic", "qos", "retain"}
    SMALL_MAX = 3
INVARIANTS
    ExactlyOnce
    OutputIsSound
    LoginIsSound
    WorkIsKept
    StopInOrder
    FileSurvives
    BridgeIsSound
    WrappingIsSound
    PublishCopiesAreSound
PROPERTIES
    ImplementsByteQueue
    NothingStrayIsDone
    ImplementsSet
CHECK_DEADLOCK FALSE
