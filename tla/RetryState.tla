----------------------------- MODULE RetryState -----------------------------
(***************************************************************************)
(* State shared by the retry engine of the watchtower plugin               *)
(* (watchtower-plugin/src/retrier.rs): the client state behind the         *)
(* Arc<Mutex<WTClient>> (tower registry, tower statuses, the `retriers`    *)
(* mirror, the durable store), the `unreachable_towers` channel, the       *)
(* Retrier objects the RetryManager owns, and the tokio tasks spawned by   *)
(* Retrier::start.  The WTClient and its store are not under src/; the     *)
(* operators that change them are modelled from the spec (sections 3, 6). *)
(***************************************************************************)
EXTENDS Naturals, Sequences, FiniteSets

CONSTANTS
    Towers,       \* tower ids
    Locators,     \* appointment locators
    Objs,         \* ids of Arc<Retrier> objects (recycled once unreferenced)
    Tasks,        \* ids of spawned retry tasks (recycled once finished)
    NoObj,        \* model value: no Retrier for this tower in the manager map
    NoLoc,        \* model value: a task is not holding a locator
    MaxAttempts,  \* bound on run() attempts of one backoff campaign
    MaxChan       \* bound on the length of the unbounded channel

VARIABLES
    towers,      \* WTClient.towers: ids of registered (not abandoned) towers
    tstatus,     \* tower.status of every tower
    wtRetriers,  \* WTClient.retriers: tower id -> RetrierStatus, or "none"
    dbPending,   \* store: appointments pending for each tower
    dbInvalid,   \* store: appointments a tower rejected as invalid
    accepted,    \* store: receipts per (tower, locator); 2 means "two or more"
    chan,        \* the unreachable_towers channel, a FIFO of messages
    mgr,         \* RetryManager.retriers: tower id -> Retrier object or NoObj
    rtower,      \* Retrier.tower_id of each object
    rstatus,     \* Retrier.status of each object ("Free" when unallocated)
    rpend,       \* Retrier.pending_appointments of each object
    mphase,      \* where the manage_retry loop is
    mtodo,       \* towers still to visit in the current retain / start pass
    mcur,        \* tower whose retain predicate is being evaluated
    task,        \* state of every spawned retry task
    revoked,     \* (tower, locator) pairs the revocation notifier has handled
    poisoned     \* the Mutex<WTClient> is poisoned: a thread panicked holding it

vars == <<towers, tstatus, wtRetriers, dbPending, dbInvalid, accepted, chan,
          mgr, rtower, rstatus, rpend, mphase, mtodo, mcur, task, revoked,
          poisoned>>

TowerStatuses ==
    {"Reachable", "TemporaryUnreachable", "Unreachable", "SubscriptionError",
     "Misbehaving"}
RetrierStatuses == {"Stopped", "Running", "Failed", "Idle"}

\* RevocationData: Fresh(locator), Stale(locators) or None.
Msgs == [tower : Towers, kind : {"Fresh", "Stale", "None"},
         locs : SUBSET Locators]

\* RetryError, plus "Ok" for a run() that drained the pending set.
Results == {"Ok", "Unreachable", "SubTransient", "SubPermanent",
            "Misbehaving", "Abandoned"}

\* RetryError::is_permanent
IsPermanent(e) == e \in {"SubPermanent", "Misbehaving", "Abandoned"}

TaskPCs ==
    {"free", "run", "register", "loop", "next", "send", "backoff",
     "ok_tower", "ok_status", "ok_mirror", "fail_status", "fail_effect",
     "idle_status", "idle_mirror", "idle_clear", "idle_tower"}

TaskRec == [obj : Objs \cup {NoObj}, pc : TaskPCs, batch : SUBSET Locators,
            loc : Locators \cup {NoLoc}, att : 0..MaxAttempts,
            err : Results]

FreeTask == [obj |-> NoObj, pc |-> "free", batch |-> {}, loc |-> NoLoc,
             att |-> 0, err |-> "Ok"]

\* Ids of the tasks that are alive, and of those working for tower t.
Live == {k \in Tasks : task[k].pc # "free"}
LiveOf(t) == {k \in Live : rtower[task[k].obj] = t}

\* An object is free once neither the manager map nor a task refers to it.
FreeObjs == {o \in Objs : rstatus[o] = "Free"}

\* RevocationData::into::<HashSet<Locator>> (to_locator_set)
LocsOf(m) == m.locs

\* The store keeps an appointment row while a pending or invalid entry or a
\* receipt of a registered tower refers to it, and deletes it with the last
\* reference (the cascade that add_invalid_appointment is ordered before
\* remove_pending_appointment to avoid, spec section 6).
Stored(l) ==
    \E t \in towers : l \in dbPending[t] \cup dbInvalid[t] \/ accepted[t][l] > 0

\* WTClient::set_tower_status: a write to a registered tower; logged and
\* ignored for a tower that is no longer in the registry.
SetTowerStatus(t, s) ==
    tstatus' = IF t \in towers THEN [tstatus EXCEPT ![t] = s] ELSE tstatus

\* The WTClient.retriers update done by Retrier::set_status (lines 295-311):
\* `cur` is the status read back after the write, `param` the status that
\* was passed in and is the value inserted.
MirrorUpdate(t, cur, param) ==
    wtRetriers' =
        IF cur \in {"Running", "Idle"} THEN [wtRetriers EXCEPT ![t] = param]
        ELSE IF cur = "Stopped" THEN [wtRetriers EXCEPT ![t] = "none"]
        ELSE wtRetriers

\* set_status takes the WTClient lock for its mirror update unless the
\* status it reads back is Failed (lines 295-311).
MirrorLocks(o) == rstatus[o] \in {"Running", "Idle", "Stopped"}

\* RetrierStatus::is_stopped, is_running, is_idle and failed, read through
\* the Retrier wrappers that take the status lock for each call.
IsStopped(o) == rstatus[o] = "Stopped"
IsRunning(o) == rstatus[o] = "Running"
IsIdle(o) == rstatus[o] = "Idle"
Failed(o) == rstatus[o] = "Failed"

\* Mutant: should_start that only refuses a Failed retrier.
ShouldStartNotFailed(o) == rstatus[o] # "Failed" /\ rpend[o] # {}

\* Retrier::should_start
ShouldStart(o) == IsStopped(o) /\ rpend[o] # {}

TypeOK ==
    /\ towers \subseteq Towers
    /\ tstatus \in [Towers -> TowerStatuses]
    /\ wtRetriers \in [Towers -> RetrierStatuses \cup {"none"}]
    /\ dbPending \in [Towers -> SUBSET Locators]
    /\ dbInvalid \in [Towers -> SUBSET Locators]
    /\ accepted \in [Towers -> [Locators -> 0..2]]
    /\ chan \in Seq(Msgs) /\ Len(chan) <= MaxChan
    /\ mgr \in [Towers -> Objs \cup {NoObj}]
    /\ rtower \in [Objs -> Towers]
    /\ rstatus \in [Objs -> RetrierStatuses \cup {"Free"}]
    /\ rpend \in [Objs -> SUBSET Locators]
    /\ mphase \in {"recv", "reap", "reap_keep", "start", "panicked"}
    /\ mtodo \subseteq Towers
    /\ mcur \in Towers
    /\ task \in [Tasks -> TaskRec]
    /\ poisoned \in BOOLEAN
=============================================================================
