CONSTANTS
    t1 = t1  t2 = t2  l1 = l1  l2 = l2
    o1 = o1  o2 = o2  o3 = o3  k1 = k1  k2 = k2
    NoObj = NoObj  NoLoc = NoLoc
    Towers <- MCTowers1
    Locators <- MCLocators1
    Objs <- MCObjs
    Tasks <- MCTasks
    StartupPending <- NoStartup
    Abandonable = {}
    Retriable = {}
    MaxAttempts = 2
    MaxChan = 2
    AddReplies <- AnyAdd
    RegReplies <- AnyReg
SPECIFICATION Spec
SYMMETRY Symmetry
INVARIANT MirrorBacked
