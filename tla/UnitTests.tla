------------------------------ MODULE UnitTests ------------------------------
(***************************************************************************)
(* The unit tests of retrier.rs (lines 579-1566) run against the model.    *)
(* Each test gets a tower of its own, named after the test; its setup is  *)
(* an initial state of the engine and its mock server a set of replies,   *)
(* and what it asserts after its sleeps is a temporal formula that must   *)
(* hold under the fair scheduling of RetryEngine.  No producer runs in the *)
(* tests (every pair counts as revoked), and the data of an appointment,  *)
(* a receipt or a key is reduced to the reply it makes the server give.   *)
(***************************************************************************)
EXTENDS RetryEngine

\* generate_random_appointment(None): the one appointment of a test.
Appt == CHOOSE l \in Locators : TRUE

\* The second appointment of test_manage_retry_while_idle (line 1205).
NewAppt == CHOOSE l \in Locators : l # Appt

\* WTClient::new over an empty store; add_update_tower for t unless `reg`
\* is FALSE (never added, or taken out with remove_tower); the status `st`
\* the test sets; add_pending_appointment for `pend`.
Client(t, reg, st, pend) ==
    /\ towers = IF reg THEN {t} ELSE {}
    /\ tstatus = [u \in Towers |-> IF u = t THEN st ELSE "Reachable"]
    /\ dbPending = [u \in Towers |-> IF u = t THEN pend ELSE {}]
    /\ dbInvalid = [u \in Towers |-> {}]
    /\ accepted = [u \in Towers |-> [l \in Locators |-> 0]]
    /\ revoked = Towers \X Locators
    /\ poisoned = FALSE

\* RetryManager::new(..).manage_retry() spawned, and tx.send((t, data)).
Manager(t, kind, locs) ==
    /\ NewRetryManager
    /\ wtRetriers = [u \in Towers |-> "none"]
    /\ chan = <<[tower |-> t, kind |-> kind, locs |-> locs]>>
    /\ task = [k \in Tasks |-> FreeTask]

\* Retrier::new(wt_client, t, locs).run() (Retrier::empty when locs = {}),
\* called directly: the retrier is in no manager map and nobody started it.
Direct(t, locs) ==
    LET o == CHOOSE p \in Objs : TRUE
        k == CHOOSE j \in Tasks : TRUE
    IN /\ mgr = [u \in Towers |-> NoObj]
       /\ wtRetriers = [u \in Towers |-> "none"]
       /\ rtower = [p \in Objs |-> t]
       /\ rstatus = [p \in Objs |-> IF p = o THEN "Stopped" ELSE "Free"]
       /\ rpend = [p \in Objs |-> IF p = o THEN locs ELSE {}]
       /\ mphase = "recv" /\ mtodo = {} /\ mcur = t /\ chan = <<>>
       /\ task = [j \in Tasks |-> IF j = k THEN [FreeTask EXCEPT !.obj = o, !.pc = "run"]
                                          ELSE FreeTask]

\* The state the first half of a manage_retry test asserts it has reached
\* (lines 748-775, 1194-1202): the manager holds an Idle retrier for t,
\* mirrored in WTClient.retriers, whose task has finished and whose
\* in-memory pending set was cleared; `msgs` is what the test then sends.
IdleManager(t, msgs) ==
    LET o == CHOOSE p \in Objs : TRUE
    IN /\ mgr = [u \in Towers |-> IF u = t THEN o ELSE NoObj]
       /\ wtRetriers = [u \in Towers |-> IF u = t THEN "Idle" ELSE "none"]
       /\ rtower = [p \in Objs |-> t]
       /\ rstatus = [p \in Objs |-> IF p = o THEN "Idle" ELSE "Free"]
       /\ rpend = [p \in Objs |-> {}]
       /\ mphase = "recv" /\ mtodo = {} /\ mcur = t /\ chan = msgs
       /\ task = [k \in Tasks |-> FreeTask]

\* The value run() returned, seen in the first step after it returned.
Returns(t, r) ==
    \E k \in LiveOf(t) : task[k].pc \in {"ok_tower", "backoff", "fail_status"}
                         /\ task[k].err = r

\* What the mock servers of the tests answer to add_appointment: a receipt
\* signed by the tower (ok), by a random key (misbehaving), a 400 with
\* error_code 1 (rejected) or INVALID_SIGNATURE_OR_SUBSCRIPTION_ERROR, or
\* nothing at "http://unreachable.tower" (a connection error).  The mock
\* the while_idle test repoints its tower to (lines 1231-1246) answers every
\* request with the receipt for the first appointment: for the second one
\* the signature recovers another key, a SignatureError.
MockAdd(t, l) ==
    CASE t \in {"manage_retry_reachable", "manage_retry_subscription_error",
                "retry_tower", "manage_retry_unreachable:reconnected"} -> {"ok"}
      [] t \in {"manage_retry_rejected", "retry_tower_rejected"} -> {"rejected"}
      [] t \in {"manage_retry_misbehaving", "retry_tower_misbehaving"} -> {"misbehaving"}
      [] t \in {"manage_retry_unreachable", "manage_retry_while_idle",
                "manage_retry_while_idle:fresh", "retry_tower_unreachable"} -> {"conn"}
      [] t = "manage_retry_while_idle:wake" ->
           IF l = Appt THEN {"ok"} ELSE {"misbehaving"}
      [] t = "retry_tower_subscription_error" -> {"subscription"}
      [] OTHER -> {}

\* The /register mock: a receipt with more slots and a later expiry.
MockReg(t) == IF t = "manage_retry_subscription_error" THEN {"ok"} ELSE {}

Running(t) == wtRetriers[t] = "Running"

SetupManageReachable ==
    Client("manage_retry_reachable", TRUE, "Reachable", {Appt})
    /\ Manager("manage_retry_reachable", "Fresh", {Appt})
TestManageReachable ==
    LET t == "manage_retry_reachable" IN
    SetupManageReachable =>
        /\ <>Running(t)
        /\ <>[](/\ tstatus[t] = "Reachable" /\ wtRetriers[t] = "none"
                /\ Appt \notin dbPending[t] /\ accepted[t][Appt] = 1)

SetupManageUnreachable ==
    Client("manage_retry_unreachable", TRUE, "Reachable", {Appt})
    /\ Manager("manage_retry_unreachable", "Fresh", {Appt})
TestManageUnreachable ==
    LET t == "manage_retry_unreachable" IN
    SetupManageUnreachable =>
        <>(/\ tstatus[t] = "TemporaryUnreachable" /\ Running(t)
           /\ <>(tstatus[t] = "Unreachable" /\ wtRetriers[t] = "Idle"))

SetupManageRejected ==
    Client("manage_retry_rejected", TRUE, "Reachable", {Appt})
    /\ Manager("manage_retry_rejected", "Fresh", {Appt})
TestManageRejected ==
    LET t == "manage_retry_rejected" IN
    SetupManageRejected =>
        /\ <>Running(t)
        /\ <>[](/\ tstatus[t] = "Reachable" /\ wtRetriers[t] = "none"
                /\ Appt \notin dbPending[t] /\ Appt \in dbInvalid[t])

SetupManageMisbehaving ==
    Client("manage_retry_misbehaving", TRUE, "Reachable", {Appt})
    /\ Manager("manage_retry_misbehaving", "Fresh", {Appt})
TestManageMisbehaving ==
    LET t == "manage_retry_misbehaving" IN
    SetupManageMisbehaving =>
        /\ <>Running(t)
        /\ <>[](tstatus[t] = "Misbehaving" /\ wtRetriers[t] = "none")

SetupManageAbandoned ==
    Client("manage_retry_abandoned", FALSE, "Reachable", {})
    /\ Manager("manage_retry_abandoned", "None", {})
TestManageAbandoned ==
    LET t == "manage_retry_abandoned" IN
    SetupManageAbandoned => [](t \notin towers /\ mgr[t] = NoObj)

SetupManageSubscriptionError ==
    Client("manage_retry_subscription_error", TRUE, "SubscriptionError", {Appt})
    /\ Manager("manage_retry_subscription_error", "Fresh", {Appt})
TestManageSubscriptionError ==
    LET t == "manage_retry_subscription_error" IN
    SetupManageSubscriptionError =>
        /\ <>Running(t)
        /\ <>[](/\ wtRetriers[t] = "none" /\ tstatus[t] = "Reachable"
                /\ dbPending[t] = {} /\ accepted[t][Appt] = 1)

\* The store holds the tower and its pending appointment before
\* WTClient::new, which sends them to the manager as Stale data.
SetupManageWhileIdle ==
    Client("manage_retry_while_idle", TRUE, "Reachable", {Appt})
    /\ Manager("manage_retry_while_idle", "Stale", {Appt})
TestManageWhileIdle ==
    LET t == "manage_retry_while_idle" IN
    SetupManageWhileIdle =>
        <>(/\ wtRetriers[t] = "Idle" /\ Appt \in dbPending[t]
           /\ tstatus[t] = "Unreachable")

\* Second half of test_manage_retry_unreachable: the tower is updated to a
\* working server with add_update_tower, which flags it Reachable, while
\* its retrier idles; the auto-retry delivers the appointment.
SetupManageUnreachableRecovered ==
    Client("manage_retry_unreachable:reconnected", TRUE, "Reachable", {Appt})
    /\ IdleManager("manage_retry_unreachable:reconnected", <<>>)
TestManageUnreachableRecovered ==
    LET t == "manage_retry_unreachable:reconnected" IN
    SetupManageUnreachableRecovered =>
        <>[](/\ tstatus[t] = "Reachable" /\ Appt \notin dbPending[t]
             /\ wtRetriers[t] = "none")

\* test_manage_retry_while_idle, lines 1203-1220: a new appointment stored
\* as pending and sent as Fresh data to the idle retrier is not retried:
\* once the manager has taken it, the retrier still idles, the tower is
\* still Unreachable and the appointment is still pending.
SetupManageWhileIdleFresh ==
    LET t == "manage_retry_while_idle:fresh" IN
    Client(t, TRUE, "Unreachable", {Appt, NewAppt})
    /\ IdleManager(t, <<[tower |-> t, kind |-> "Fresh", locs |-> {NewAppt}]>>)
TestManageWhileIdleFresh ==
    LET t == "manage_retry_while_idle:fresh" IN
    SetupManageWhileIdleFresh =>
        <>(/\ chan = <<>> /\ wtRetriers[t] = "Idle"
           /\ tstatus[t] = "Unreachable" /\ NewAppt \in dbPending[t])

\* test_manage_retry_while_idle, lines 1222-1282: the tower is repointed to
\* the mock above and a None wake-up is sent.  The test can only assert one
\* or two hits; what happens is that both appointments are reloaded, and
\* in the order the HashSet yields them the first is accepted (a hit) or
\* the second is answered with a receipt of the wrong appointment, which
\* ends the campaign Misbehaving with the rest still pending.
SetupManageWhileIdleWake ==
    LET t == "manage_retry_while_idle:wake" IN
    Client(t, TRUE, "Unreachable", {Appt, NewAppt})
    /\ IdleManager(t, <<[tower |-> t, kind |-> "None", locs |-> {}]>>)
TestManageWhileIdleWake ==
    LET t == "manage_retry_while_idle:wake" IN
    SetupManageWhileIdleWake =>
        <>[](/\ tstatus[t] = "Misbehaving" /\ wtRetriers[t] = "none"
             /\ NewAppt \in dbPending[t] /\ accepted[t][NewAppt] = 0
             /\ (accepted[t][Appt] = 1) = (Appt \notin dbPending[t]))

SetupRetryTower ==
    Client("retry_tower", TRUE, "Reachable", {Appt}) /\ Direct("retry_tower", {Appt})
TestRetryTower ==
    SetupRetryTower =>
        <>(Returns("retry_tower", "Ok") /\ accepted["retry_tower"][Appt] = 1)

SetupRetryTowerNoPending ==
    Client("retry_tower_no_pending", TRUE, "Reachable", {})
    /\ Direct("retry_tower_no_pending", {})
TestRetryTowerNoPending ==
    SetupRetryTowerNoPending => <>Returns("retry_tower_no_pending", "Ok")

SetupRetryTowerMisbehaving ==
    Client("retry_tower_misbehaving", TRUE, "Reachable", {Appt})
    /\ Direct("retry_tower_misbehaving", {Appt})
TestRetryTowerMisbehaving ==
    SetupRetryTowerMisbehaving => <>Returns("retry_tower_misbehaving", "Misbehaving")

SetupRetryTowerUnreachable ==
    Client("retry_tower_unreachable", TRUE, "Reachable", {Appt})
    /\ Direct("retry_tower_unreachable", {Appt})
TestRetryTowerUnreachable ==
    SetupRetryTowerUnreachable => <>Returns("retry_tower_unreachable", "Unreachable")

SetupRetryTowerSubscriptionError ==
    Client("retry_tower_subscription_error", TRUE, "Reachable", {Appt})
    /\ Direct("retry_tower_subscription_error", {Appt})
TestRetryTowerSubscriptionError ==
    SetupRetryTowerSubscriptionError =>
        <>Returns("retry_tower_subscription_error", "SubTransient")

SetupRetryTowerRejected ==
    Client("retry_tower_rejected", TRUE, "Reachable", {Appt})
    /\ Direct("retry_tower_rejected", {Appt})
TestRetryTowerRejected ==
    SetupRetryTowerRejected =>
        <>(Returns("retry_tower_rejected", "Ok") /\ Appt \in dbInvalid["retry_tower_rejected"])

SetupRetryTowerAbandoned ==
    Client("retry_tower_abandoned", FALSE, "Reachable", {})
    /\ Direct("retry_tower_abandoned", {})
TestRetryTowerAbandoned ==
    SetupRetryTowerAbandoned => <>Returns("retry_tower_abandoned", "Abandoned")

\* One test per initial state.
TestInit ==
    \/ SetupManageReachable \/ SetupManageUnreachable \/ SetupManageRejected
    \/ SetupManageMisbehaving \/ SetupManageAbandoned
    \/ SetupManageSubscriptionError \/ SetupManageWhileIdle
    \/ SetupManageUnreachableRecovered \/ SetupManageWhileIdleFresh
    \/ SetupManageWhileIdleWake
    \/ SetupRetryTower \/ SetupRetryTowerNoPending \/ SetupRetryTowerMisbehaving
    \/ SetupRetryTowerUnreachable \/ SetupRetryTowerSubscriptionError
    \/ SetupRetryTowerRejected \/ SetupRetryTowerAbandoned

\* #[tokio::test] runs each test on a current-thread runtime: one task runs
\* at a time and gives the thread up only at an .await.  A retry task is
\* suspended before it is first polled, in http::register, in
\* http::add_appointment and in the backoff sleep before run() is called
\* again; the manager only in its one-second sleep, between a start pass
\* and the next try_recv (and, more often than the runtime allows, between
\* two messages).
Suspended(k) == task[k].pc \in {"free", "run", "register", "send"}
ManagerTurn == ManagerStep /\ \A k \in Tasks : Suspended(k)
TaskTurn(k) ==
    TaskStep(k) /\ mphase = "recv" /\ \A j \in Tasks \ {k} : Suspended(j)

\* The worker polls every ready task whenever the manager sleeps: a task's
\* turn comes at every sleep, so it is strong-fair (enabled at each sleep,
\* taken eventually); the manager gets the thread back once the tasks are
\* suspended, and the auto wake-up is strong-fair as in Fairness.  Only the
\* tower of the test a behaviour starts from ever has a retrier, so one
\* condition over all towers says the same as one per tower.
TestSpec ==
    /\ TestInit
    /\ [][ManagerTurn \/ \E k \in Tasks : TaskTurn(k)]_vars
    /\ WF_vars(ManagerTurn)
    /\ \A k \in Tasks : SF_vars(TaskTurn(k))
    /\ SF_vars(\E t \in Towers : AutoWake(t) /\ ManagerTurn)

-----------------------------------------------------------------------------
(* Properties. *)

\* The manage_retry tests pass on every schedule: a retrier fed through the
\* channel reaches the tower status, the WTClient.retriers entry and the
\* store contents each test asserts after its sleeps, whatever the order in
\* which the manager loop and the retry task interleave.
ManageRetryTestsPass ==
    /\ TestManageReachable /\ TestManageUnreachable /\ TestManageRejected
    /\ TestManageMisbehaving /\ TestManageAbandoned
    /\ TestManageSubscriptionError /\ TestManageWhileIdle
    /\ TestManageUnreachableRecovered /\ TestManageWhileIdleFresh
    /\ TestManageWhileIdleWake

\* The retry_tower tests pass: Retrier::run returns the result each one
\* asserts (Ok after a receipt or a rejection, the transient and permanent
\* errors of the others), with the store changes it checks.
RetryTowerTestsPass ==
    /\ TestRetryTower /\ TestRetryTowerNoPending /\ TestRetryTowerMisbehaving
    /\ TestRetryTowerUnreachable /\ TestRetryTowerSubscriptionError
    /\ TestRetryTowerRejected /\ TestRetryTowerAbandoned
=============================================================================
