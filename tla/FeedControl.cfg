CONSTANTS
    s1 = s1
    s2 = s2
    w1 = w1
    rt = rt
    i1 = i1
    i2 = i2
    i3 = i3
    ic = ic
    g1 = g1
    g2 = g2
    x = x
    y = y
    z = z
    key = key
    badkey = badkey
    adm = adm
    new = new
    rm = rm
    forged = forged
    none = none
    never = never
    Tasks <- MCTasks1
    Ids <- MCIds
    Groups <- MCGroups
    Articles <- MCArticles
    NoArticle = none
    MessageId <- MCMessageId
    Newsgroups <- MCNewsgroups
    Sessions <- MCSessions
    Workers <- MCWorkers1
    Sweeper = rt
    Control <- MCControl
    NoCommand = none
    Opens <- MCOpens
    AdminSigned <- MCAdminSigned
    WellFormed <- MCArticles
    InitialGroups <- MCInitialGroups
    Approved <- MCApproved
    Expires <- MCExpires
    Never = never
    Offers <- OfferCtl
    Streams <- StreamCtl
    Posts <- PostCtl
    FilteredOut <- MCNothing
    Retention <- MCRetention
    Capacity = 1
    MaxNumber = 4
    MaxClock = 2
    MaxCommands = 2
    MaxErrors = 0
    MaxCrashes = 0
SPECIFICATION FeedSpec
SYMMETRY SessionSymmetry
INVARIANTS
    FeedTypeOK
    TransfersKept
PROPERTY
    SweepSparesCurrent
