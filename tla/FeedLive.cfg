CONSTANTS
    s1 = s1
    s2 = s2
    w1 = w1
    rt = rt
    i1 = i1
    i2 = i2
    i3 = i3
    ic = ic
    g1 = g1
    g2 = g2
    x = x
    y = y
    z = z
    key = key
    badkey = badkey
    adm = adm
    new = new
    rm = rm
    forged = forged
    none = none
    never = never
    Tasks <- MCTasks1
    Ids <- IdsOfX
    Groups <- JustG1
    Articles <- XAndKey
    NoArticle = none
    MessageId <- MCMessageId
    Newsgroups <- MCNewsgroups
    Sessions <- MCSessions
    Workers <- MCWorkers1
    Sweeper = rt
    Control <- MCControl
    NoCommand = none
    Opens <- MCOpens
    AdminSigned <- MCNothing
    WellFormed <- XAndKey
    InitialGroups <- NoG2
    Approved <- MCNothing
    Expires <- MCExpires
    Never = never
    Offers <- OfferX
    Streams <- StreamKey
    Posts <- PostX
    FilteredOut <- MCNothing
    Retention <- MCNoRetention
    Capacity = 1
    MaxNumber = 4
    MaxClock = 0
    MaxCommands = 2
    MaxErrors = 1
    MaxCrashes = 1
SPECIFICATION FairFeedSpec
INVARIANT
    TransfersKept
PROPERTIES
    StoreSpec
    CommandsEnd
    OrphansReclaimed
