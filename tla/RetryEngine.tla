----------------------------- MODULE RetryEngine -----------------------------
(***************************************************************************)
(* The retry engine as a whole: the manage_retry loop, the retry tasks it  *)
(* spawns and the callers that feed its channel, interleaved.              *)
(***************************************************************************)
EXTENDS RetryManager, Producers, SequencesExt

CONSTANT StartupPending  \* pending appointments found in the store at boot

ASSUME StartupPending \in [Towers -> SUBSET Locators]

\* WTClient::new: every tower is loaded, and a tower with pending
\* appointments in the store is sent to the manager as Stale(locators).
Init ==
    /\ towers = Towers
    /\ tstatus = [t \in Towers |-> "Reachable"]
    /\ wtRetriers = [t \in Towers |-> "none"]
    /\ dbPending = StartupPending
    /\ dbInvalid = [t \in Towers |-> {}]
    /\ accepted = [t \in Towers |-> [l \in Locators |-> 0]]
    /\ chan = SetToSeq({[tower |-> t, kind |-> "Stale", locs |-> StartupPending[t]]
                        : t \in {u \in Towers : StartupPending[u] # {}}})
    /\ revoked = {<<t, l>> \in Towers \X Locators : l \in StartupPending[t]}
    /\ poisoned = FALSE
    /\ NewRetryManager
    /\ task = [k \in Tasks |-> FreeTask]

Next ==
    \/ ManagerStep
    \/ \E k \in Tasks : TaskStep(k)
    \/ \E t \in Towers, l \in Locators : Revoke(t, l)
    \/ \E t \in Towers : RetryTower(t) \/ Abandon(t)

Spec == Init /\ [][Next]_vars

\* Fairness: the manager loop is one tokio task that always wakes from its
\* one-second sleep, and every spawned retry task is scheduled by the
\* runtime until it ends (each HTTP call returns, by reply or by error).
\* Once auto_retry_delay has passed, every start pass that visits an idle
\* retrier wakes it (SkipRetrier of an idle retrier stands for the finitely
\* many passes before that), hence strong fairness for AutoWake.
\* The producers (revocations, user commands) are under no obligation.
Fairness ==
    /\ WF_vars(ManagerStep)
    /\ \A k \in Tasks : WF_vars(TaskStep(k))
    /\ \A t \in Towers : SF_vars(AutoWake(t))

FairSpec == Spec /\ Fairness

\* The store-level view of the engine: the revoked pairs, the pending and
\* invalid appointments and the receipts of the store.
Delivery == INSTANCE AppointmentDelivery
    WITH issued <- revoked, pending <- dbPending, receipts <- accepted,
         invalid <- dbInvalid, abandoned <- Towers \ towers

-----------------------------------------------------------------------------
(* Properties. *)

\* Locators some retrier object of t holds in memory, some task of t is
\* still working through, or a message for t in the channel carries.
InFlight(t) ==
    UNION {rpend[o] : o \in {p \in Objs : rstatus[p] # "Free" /\ rtower[p] = t}}
    \cup UNION {task[k].batch \cup ({task[k].loc} \ {NoLoc}) : k \in LiveOf(t)}
Queued(t) == UNION {chan[i].locs : i \in {j \in 1..Len(chan) : chan[j].tower = t}}
\* An idle retrier reloads every pending appointment of the store on wake.
IdleCovers(t) ==
    IF mgr[t] # NoObj /\ IsIdle(mgr[t]) THEN dbPending[t] ELSE {}

\* The in-memory pending set of the retrier the manager holds for a tower
\* never has a locator the store no longer lists as pending: run() and the
\* wake-ups (extend from load_appointment_locators) keep memory behind the
\* store, so a locator already delivered or invalidated is never resent.
PendingPersisted ==
    \A t \in towers : mgr[t] # NoObj => rpend[mgr[t]] \subseteq dbPending[t]

\* No appointment is accepted by a tower twice: the direct send of the
\* revocation notifier and every campaign of run() together submit each
\* (tower, locator) at most once with success.
AtMostOnceAccepted == \A t \in Towers, l \in Locators : accepted[t][l] <= 1

\* The engine implements AppointmentDelivery: every change it makes to the
\* store (receipt and remove_pending in run(), add_invalid and
\* remove_pending for a rejection, the notifier's direct send or
\* store_pending, abandontower) is an Issue, Deliver, Reject or Drop step,
\* so nothing is accepted twice, nothing leaves pending but by delivery,
\* rejection or abandon, and nothing is rejected that was not pending.
DeliveryRefined == Delivery!Spec

\* A task is in its campaign until it has written its final RetrierStatus.
CampaignPCs == {"run", "register", "loop", "next", "send", "backoff",
                "ok_tower", "ok_status", "fail_status", "idle_status"}

\* The manager never has two retry campaigns for one tower at a time:
\* start() is only called when should_start() sees Stopped, and only the
\* last step of a campaign sets Stopped, Failed or Idle.
SingleCampaign ==
    \A t \in Towers :
        Cardinality({k \in LiveOf(t) : task[k].pc \in CampaignPCs}) <= 1

\* Misbehaving is terminal (spec section 4.4): once a retry task has flagged
\* the tower with flag_misbehaving_tower, no step changes its status again.
MisbehavingIsSink ==
    [][\A t \in Towers : tstatus[t] = "Misbehaving" => tstatus'[t] = "Misbehaving"]_vars

\* WTClient.retriers lists a tower as Running or Idle only while the
\* manager still holds a retrier for it (spec section 3, invariant 2), so
\* that retrytower is refused exactly while a retrier exists.
MirrorBacked ==
    \A t \in Towers : wtRetriers[t] \in {"Running", "Idle"} => mgr[t] # NoObj

\* A retrier the manager holds as Running has a task working for it (spec
\* section 3: Running means a backoff campaign is executing); otherwise the
\* retain pass keeps it forever and appointments added to it are never sent.
RunningHasTask ==
    \A t \in Towers : mgr[t] # NoObj /\ IsRunning(mgr[t]) =>
        \E k \in Live : task[k].obj = mgr[t]

\* The manage_retry task never panics (in Retrier::start's
\* get_tower_status(..).unwrap() for a tower abandoned meanwhile).
NoPanic == mphase # "panicked"

\* A tower reported Reachable has no pending appointment that nothing will
\* ever send: each one is held by a retrier or a task, queued in the
\* channel, or reloaded when the tower's idle retrier wakes (spec section 7:
\* "the engine never loses pending work").
NoStrandedReachable ==
    \A t \in towers : tstatus[t] = "Reachable" =>
        dbPending[t] \subseteq InFlight(t) \cup Queued(t) \cup IdleCovers(t)

\* Every retry task spawned by Retrier::start eventually ends: run() either
\* drains the pending set or returns an error, and the backoff of
\* retry_notify gives up once max_elapsed_time has passed.
CampaignTerminates == \A k \in Tasks : task[k].pc # "free" ~> task[k].pc = "free"

\* An idle retrier is eventually woken by the manager (lines 147-166): the
\* retain pass keeps it (it is neither dropped nor replaced), the start pass
\* visits it, and after auto_retry_delay it is set Stopped with its pending
\* set reloaded, still the retrier the manager holds for its tower.
IdleEventuallyWakes ==
    \A t \in Towers, o \in Objs :
        (mgr[t] = o /\ IsIdle(o)) ~> (mgr[t] = o /\ ~IsIdle(o))

\* The status a user sees settles (spec section 7: TemporaryUnreachable
\* means "active campaign"): a tower flagged TemporaryUnreachable, by
\* Retrier::start (line 360) or by a failed direct send of the notifier, is
\* eventually flagged otherwise, by the campaign's end at line 386 (Reachable),
\* the give-up at line 425 (Unreachable) or a permanent error.
TemporaryUnreachableSettles ==
    \A t \in Towers :
        tstatus[t] = "TemporaryUnreachable" ~> tstatus[t] # "TemporaryUnreachable"
=============================================================================
