SPECIFICATION FairLimitSpec
CONSTANTS
    alice = alice  bob = bob  root = root  NoUser = NoUser  NoEntry = NoEntry
    Users = {alice, bob, root}
    Admins = {root}
    Conns = {1, 2}
    Bridged = {1}
    Limit <- TwoEach
    Modulus = 8
    MaxLogins = 3
    MaxErrors = 1
INVARIANTS LimitTypeOK SlotsExact
PROPERTY DeparturesNoticed
CHECK_DEADLOCK FALSE
