CONSTANTS
    t1 = t1
    t2 = t2
    i1 = i1
    i2 = i2
    g1 = g1
    x = x
    x2 = x2
    y = y
    none = none
    Tasks <- MCTasks
    Ids <- MCIds
    Groups <- MCGroups
    Articles <- MCArticles
    NoArticle = none
    MessageId <- MCMessageId
    Newsgroups <- MCNewsgroups
    MaxNumber = 2
    MaxClock = 1
SYMMETRY TaskSymmetry
SPECIFICATION StorageSpec
INVARIANTS
    StorageTypeOK
    NumbersUnique
    RowsHaveMessages
PROPERTY
    NumberKeepsArticle
    ReaderSpec
