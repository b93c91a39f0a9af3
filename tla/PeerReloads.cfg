SPECIFICATION FairPeerSpec
CONSTANTS
    peer1 = peer1  g = g  a = a  cert1 = cert1  cert2 = cert2
    Peers = {peer1}
    Runs = {1}
    Groups = {g}
    Articles = {a}
    Path <- NoPath
    Configs <- Leaves
    InitialConfig <- OnlyG
    InitialGroups = {g}
    Certs = {cert1, cert2}
    Absent = Absent  NoJob = NoJob  NoRow = NoRow
    MaxClock = 2
    MaxEdits = 2
    MaxReloads = 2
    MaxRestarts = 1
    MaxErrors = 1
INVARIANTS PeerTypeOK LossesExplained
PROPERTIES ReloadSettles ArticlesGoOut
