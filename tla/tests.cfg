\* The unit tests of retrier.rs, each on its own tower, under fair scheduling.
CONSTANTS
    l1 = l1  l2 = l2  o1 = o1  o2 = o2  k1 = k1  k2 = k2
    NoObj = NoObj  NoLoc = NoLoc
    Towers <- TestTowers
    Locators <- TestLocators
    Objs <- TestObjs
    Tasks <- TestTasks
    StartupPending <- NoStartupTests
    Abandonable = {}
    Retriable = {}
    MaxAttempts = 2
    MaxChan = 2
    AddReplies <- MockAdd
    RegReplies <- MockReg
SPECIFICATION TestSpec
PROPERTIES ManageRetryTestsPass RetryTowerTestsPass
