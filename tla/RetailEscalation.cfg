CONSTANTS
    Tasks = {p1}
    worker = worker
    service = service
    Users = {worker, service}
    NoUser = NoUser
    Bots = {service}
    NoDue = NoDue
    Dues = {0}
    ManagerAfter = 0
    AreaAfter = 2
    Ticks = {t1, t2}
    Isolations = {"ReadCommitted", "Serializable"}
    Edits = {"open", "due", "people", "manager", "admins", "account"}
    MaxTime = 2
    MaxChanges = 1
SPECIFICATION MCSpec
INVARIANTS TypeOK DeliveryMatchesNotification
PROPERTIES TicksAreExact RefinesDelivery OverdueIsEscalated
CHECK_DEADLOCK FALSE
