---------------------------- MODULE MC_UnitTests ----------------------------
(* Model-checking instance of UnitTests: one tower per unit test (and per *)
(* phase of a test that repoints its tower), two appointments, two retrier objects and two tasks.                        *)
EXTENDS UnitTests, TLC

CONSTANTS l1, l2, o1, o2, k1, k2

TestTowers ==
    {"manage_retry_reachable", "manage_retry_unreachable", "manage_retry_rejected",
     "manage_retry_misbehaving", "manage_retry_abandoned",
     "manage_retry_subscription_error", "manage_retry_while_idle",
     "manage_retry_unreachable:reconnected", "manage_retry_while_idle:fresh",
     "manage_retry_while_idle:wake",
     "retry_tower", "retry_tower_no_pending", "retry_tower_misbehaving",
     "retry_tower_unreachable", "retry_tower_subscription_error",
     "retry_tower_rejected", "retry_tower_abandoned"}
TestLocators == {l1, l2}
TestObjs == {o1, o2}
TestTasks == {k1, k2}
NoStartupTests == [t \in TestTowers |-> {}]
=============================================================================
