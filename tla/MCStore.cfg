SPECIFICATION MCSpec
CONSTANTS
    SubClients = {c1, c2}
    Filters <- MCFilters
    Topics <- MCTopics
    DollarLevels = {"$SYS"}
    SplitSize = 1
    MaxSlots = 2
    MaxRecent = 1
    SubThreads = FALSE
    Broker = broker
    Members = {m1, m2, m3}
    ShareThreads = {s1}
    CounterMax = 3
    MaxMembers = 2
    RetTopics <- MCRetTopics
    RetThreads = {"t1", "t2"}
    RetConfigs <- MCRetConfigs
    MaxSets = 2
    MaxQueued = 2
    KnownTopics <- MCKnownTopics
    SubFilters <- MCSubFilters
    MaxRequeue = 2
    NodeLimit = 20
    MaxChanges = 1
    Ids = {i1, i2, i3}
    Footprints <- MCFootprints
    MaxObjects = 4
    MaxTime = 2
    AclContents <- MCAclContents
    AclEdits <- MCAclEdits
    PasswdContents <- MCPasswdContents
    AclTopics <- MCAclTopics
    UserNames = {"", "u", "v"}
    ClientNames = {"c"}
    PasswordHashes = {"g", "h"}
    SameSecond = FALSE
    MaxAuthTime = 2
    MaxAuthReloads = 1
    MaxStringLength = 130
    MaxUserProperties = 51
    MaxPacketId = 2
    Connectors <- MCConnectors
    Brokers <- MCBrokers
    Messages <- MCMessages
INVARIANTS
    PacketsAreRead
    HandshakeAgrees
    RoutingIsExact
    TreeIsSound
    GroupIsSound
    RetainedIsSound
    AccessIsSound
PROPERTIES
    ImplementsSequence
CHECK_DEADLOCK FALSE
SYMMETRY IdSymmetry
