SPECIFICATION LimitSpec
CONSTANTS
    alice = alice  bob = bob  root = root  NoUser = NoUser  NoEntry = NoEntry
    Users = {alice}
    Admins = {}
    Conns = {1, 2, 3}
    Bridged = {}
    Limit <- OneEach
    Modulus = 8
    MaxLogins = 4
    MaxErrors = 0
INVARIANT LimitKept
CHECK_DEADLOCK FALSE
