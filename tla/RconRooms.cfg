CONSTANTS
    s1 = s1
    s2 = s2
    t1 = t1
    a = a
    b = b
    Sid = {s1, s2}
    Target = {t1}
    Thread = {a, b}
    MaxQueue = 1
    Faults = {"publish", "count", "room"}
SPECIFICATION FairSpec
INVARIANTS
    TypeOK
    OwnersInRoom
    RoomHasConnection
    ClosedOwnsNothing
PROPERTIES
    CommandFindsConnection
    HandlersEnd
CHECK_DEADLOCK FALSE
