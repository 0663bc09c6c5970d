CONSTANTS
    p = p
    t1 = t1
    t2 = t2
    o1 = o1
    o2 = o2
    i1 = i1
    Mgr = Mgr
    Free = Free
    NoObj = NoObj
    NoLock = NoLock
    Poller <- p
    Callers <- MCCallers
    Objs <- MCObjs
    IPs <- MCIPs
    ObjIp <- MCObjIp
SYMMETRY MCSymmetry
SPECIFICATION Spec
INVARIANTS NoWaitCycle LockHierarchy
