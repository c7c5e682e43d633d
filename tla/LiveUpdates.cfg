CONSTANTS
    Notices = {n1}
    Sockets = {k1, k2}
    NoSocket = NoSocket
    Loads = {l1, l2}
    SendBuffer = 2
    MaxLogins = 1
SPECIFICATION FairSpec
INVARIANTS NeverStranded SubscriptionsAgree
PROPERTIES ConnectedIsSubscribed MissedIsLoaded
CHECK_DEADLOCK FALSE
