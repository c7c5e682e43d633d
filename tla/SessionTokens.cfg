CONSTANTS
    Tabs = {b1, b2}
    Slots = {s1, s2}
    NoSlot = NoSlot
    Nobody = Nobody
    Doors = {d1, d2}
    Contexts = {TRUE, FALSE}
    MaxIssued = 2
    MaxBusy = 2
    MaxLogins = 1
    EventTabs = {b1}
    MaxEvents = 1
SPECIFICATION FairSpec
INVARIANTS RotatedOnce OneRefreshPerTab
PROPERTIES LogoutSticks NoSpuriousLogout TabsCatchUp
CHECK_DEADLOCK FALSE
