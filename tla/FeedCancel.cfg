CONSTANTS
    s1 = s1
    s2 = s2
    w1 = w1
    rt = rt
    i1 = i1
    i2 = i2
    i3 = i3
    ic = ic
    g1 = g1
    g2 = g2
    x = x
    y = y
    z = z
    key = key
    badkey = badkey
    adm = adm
    new = new
    rm = rm
    forged = forged
    none = none
    never = never
    Tasks <- MCTasks1
    Ids <- MCIds
    Groups <- MCGroups
    Articles <- MCArticles
    NoArticle = none
    MessageId <- MCMessageId
    Newsgroups <- MCNewsgroups
    Sessions <- MCSessions
    Workers <- MCWorkers1
    Sweeper = rt
    Control <- MCControl
    NoCommand = none
    Opens <- MCOpens
    AdminSigned <- MCAdminSigned
    WellFormed <- MCArticles
    InitialGroups <- NoG2
    Approved <- MCApproved
    Expires <- MCExpires
    Never = never
    Offers <- OfferXKey
    Streams <- MCNothing
    Posts <- MCNothing
    FilteredOut <- MCNothing
    Retention <- MCNoRetention
    Capacity = 1
    MaxNumber = 4
    MaxClock = 0
    MaxCommands = 2
    MaxErrors = 0
    MaxCrashes = 0
SPECIFICATION FeedSpec
INVARIANTS
    CancelsAreFinal
