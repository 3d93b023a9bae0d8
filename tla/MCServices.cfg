CONSTANTS
 Threads = {t1, t2}
 Datagrams = {g1, g2}
 Objects = {t1, t2}
 Audiences = {g1, g2}
 Funcs = {1, 2}
 MaxOpens = 2
 MaxPeers = 2
 MaxMessages = 2
 MaxRefs = 1
 MaxCollected = 5
 MaxHeld = 3
 iGarbageNodeMax = 2
SPECIFICATION MCSpec
CHECK_DEADLOCK FALSE
INVARIANTS RefsBalance OneListener MembersAreOpen NothingDangles DeletedOnce
PROPERTIES CallsReturn WorkIsDone ScopeEndsWhereItBegan
