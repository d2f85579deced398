---------------------------- MODULE RetryManager ----------------------------
(***************************************************************************)
(* RetryManager::manage_retry (retrier.rs 86-175), add_pending_appointments*)
(* (180-205) and start_retrying / Retrier::start (207-210, 345-363).  The  *)
(* loop is one tokio task: it handles one message per iteration, and when  *)
(* the channel is empty it makes a retain pass and a start pass over its   *)
(* map, visiting the retriers in HashMap order (any order).               *)
(***************************************************************************)
EXTENDS Retrier

\* RetryManager::new, lines 57-78: no retriers yet (every object is free),
\* and the loop starts by receiving.
NewRetryManager ==
    /\ mgr = [t \in Towers |-> NoObj]
    /\ rtower = [o \in Objs |-> CHOOSE t \in Towers : TRUE]
    /\ rstatus = [o \in Objs |-> "Free"]
    /\ rpend = [o \in Objs |-> {}]
    /\ mphase = "recv"
    /\ mtodo = {}
    /\ mcur = CHOOSE t \in Towers : TRUE

\* get_elapsed_time (Some only while Idle) compared with auto_retry_delay,
\* line 148.  The delay is at least one second, so it only elapses once
\* the task that set Idle has finished its last steps.
DelayElapsed(o) == IsIdle(o) /\ \A k \in Live : task[k].obj # o

\* Mutant: a wake-up that reloads the pending set but leaves the status.
WakeIdleKeepsStatus(o) ==
    /\ UNCHANGED rstatus
    /\ wtRetriers' = [wtRetriers EXCEPT ![rtower[o]] = "none"]
    /\ rpend' = [rpend EXCEPT ![o] = @ \cup dbPending[rtower[o]]]

\* Lines 113-123 and 155-165: set_status(Stopped) on the manager's thread,
\* then refill the in-memory pending set from the store.
WakeIdle(o) ==
    /\ rstatus' = [rstatus EXCEPT ![o] = "Stopped"]
    /\ wtRetriers' = [wtRetriers EXCEPT ![rtower[o]] = "none"]
    /\ rpend' = [rpend EXCEPT ![o] = @ \cup dbPending[rtower[o]]]

\* add_pending_appointments, lines 180-205: a new Retrier (status Stopped)
\* for a tower without one, otherwise a union into its pending set.
AddPending(t, locs) ==
    IF mgr[t] = NoObj
    THEN \E o \in FreeObjs :
           /\ mgr' = [mgr EXCEPT ![t] = o]
           /\ rtower' = [rtower EXCEPT ![o] = t]
           /\ rstatus' = [rstatus EXCEPT ![o] = "Stopped"]
           /\ rpend' = [rpend EXCEPT ![o] = locs]
    ELSE /\ rpend' = [rpend EXCEPT ![mgr[t]] = @ \cup locs]
         /\ UNCHANGED <<mgr, rtower, rstatus>>

\* Lines 91-130: one message received.  Abandoned towers are skipped; data
\* sent to an idle retrier is logged and dropped (`continue`), a None wakes
\* it; anything else goes through add_pending_appointments.
Receive ==
    /\ mphase = "recv"
    /\ chan # <<>>
    /\ ~poisoned
    /\ chan' = Tail(chan)
    /\ LET m == Head(chan)
           t == m.tower
       IN IF t \notin towers
          THEN UNCHANGED <<wtRetriers, mgr, rtower, rstatus, rpend>>
          ELSE IF mgr[t] # NoObj /\ IsIdle(mgr[t])
          THEN IF m.kind # "None"
               THEN UNCHANGED <<wtRetriers, mgr, rtower, rstatus, rpend>>
               ELSE WakeIdle(mgr[t]) /\ UNCHANGED <<mgr, rtower>>
          ELSE AddPending(t, LocsOf(m)) /\ UNCHANGED wtRetriers
    /\ UNCHANGED <<towers, tstatus, dbPending, dbInvalid, accepted, mphase,
                   mtodo, mcur, task, revoked, poisoned>>

\* Line 131: try_recv found the channel empty; the retain pass begins.
ChannelEmpty ==
    /\ mphase = "recv"
    /\ chan = <<>>
    /\ mtodo' = {t \in Towers : mgr[t] # NoObj}
    /\ mphase' = IF mtodo' = {} THEN "start" ELSE "reap"
    /\ UNCHANGED <<towers, tstatus, wtRetriers, dbPending, dbInvalid, accepted,
                   chan, mgr, rtower, rstatus, rpend, mcur, task, revoked, poisoned>>

\* Line 139, Retrier::remove_if_failed (564-576): a Failed retrier is taken
\* out of WTClient.retriers.
RemoveIfFailed(t) ==
    /\ mphase = "reap"
    /\ t \in mtodo
    /\ Failed(mgr[t]) => ~poisoned
    /\ IF Failed(mgr[t])
       THEN wtRetriers' = [wtRetriers EXCEPT ![t] = "none"]
       ELSE UNCHANGED wtRetriers
    /\ mphase' = "reap_keep"
    /\ mcur' = t
    /\ UNCHANGED <<towers, tstatus, dbPending, dbInvalid, accepted, chan, mgr,
                   rtower, rstatus, rpend, mtodo, task, revoked, poisoned>>

\* Line 140, read after remove_if_failed released the status lock: keep
\* retriers that should start, run or idle; drop the rest from the map
\* (the object lives on while a task still holds it).  After the last one
\* the start pass begins over the retriers that are left.
Retain ==
    /\ mphase = "reap_keep"
    /\ LET o == mgr[mcur]
           keep == ShouldStart(o) \/ IsRunning(o) \/ IsIdle(o)
           left == mtodo \ {mcur}
       IN /\ mgr' = IF keep THEN mgr ELSE [mgr EXCEPT ![mcur] = NoObj]
          /\ rstatus' = IF ~keep /\ \A k \in Live : task[k].obj # o
                        THEN [rstatus EXCEPT ![o] = "Free"] ELSE rstatus
          /\ mphase' = IF left = {} THEN "start" ELSE "reap"
          /\ mtodo' = IF left = {} THEN {u \in Towers : mgr'[u] # NoObj}
                      ELSE left
    /\ UNCHANGED <<towers, tstatus, wtRetriers, dbPending, dbInvalid, accepted,
                   chan, rtower, rpend, mcur, task, revoked, poisoned>>

\* Lines 143-145, Retrier::start (345-363): under the WTClient lock the
\* tower is flagged TemporaryUnreachable unless it has a subscription error
\* (get_tower_status(..).unwrap() panics, ending the manager task, when the
\* tower was abandoned); then set_status(Running) and tokio::spawn.
StartRetrier(t) ==
    /\ mphase = "start"
    /\ t \in mtodo
    /\ ShouldStart(mgr[t])
    /\ ~poisoned
    /\ IF t \notin towers
       THEN /\ mphase' = "panicked"
            /\ poisoned' = TRUE
            /\ UNCHANGED <<tstatus, wtRetriers, rstatus, mtodo, task>>
       ELSE /\ UNCHANGED poisoned
            /\ \E k \in Tasks \ Live :
              /\ IF tstatus[t] # "SubscriptionError"
                 THEN tstatus' = [tstatus EXCEPT ![t] = "TemporaryUnreachable"]
                 ELSE UNCHANGED tstatus
              /\ rstatus' = [rstatus EXCEPT ![mgr[t]] = "Running"]
              /\ wtRetriers' = [wtRetriers EXCEPT ![t] = "Running"]
              /\ task' = [task EXCEPT ![k] = [FreeTask EXCEPT !.obj = mgr[t],
                                                              !.pc = "run"]]
              /\ mtodo' = mtodo \ {t}
              /\ mphase' = IF mtodo' = {} THEN "recv" ELSE "start"
    /\ UNCHANGED <<towers, dbPending, dbInvalid, accepted, chan, mgr, rtower,
                   rpend, mcur, revoked>>

\* Lines 147-166: an idle retrier whose auto_retry_delay has elapsed is
\* woken.
AutoWake(t) ==
    /\ mphase = "start"
    /\ t \in mtodo
    /\ DelayElapsed(mgr[t])
    /\ ~poisoned
    /\ WakeIdle(mgr[t])
    /\ mtodo' = mtodo \ {t}
    /\ mphase' = IF mtodo' = {} THEN "recv" ELSE "start"
    /\ UNCHANGED <<towers, tstatus, dbPending, dbInvalid, accepted, chan, mgr,
                   rtower, mcur, task, revoked, poisoned>>

\* Lines 143-168 for a retrier that neither starts nor wakes (an idle one
\* whose delay has not elapsed yet, or any other); after the last one the
\* loop sleeps (line 170) and receives again.
SkipRetrier(t) ==
    /\ mphase = "start"
    /\ t \in mtodo
    /\ ~ShouldStart(mgr[t])
    /\ mtodo' = mtodo \ {t}
    /\ mphase' = IF mtodo' = {} THEN "recv" ELSE "start"
    /\ UNCHANGED <<towers, tstatus, wtRetriers, dbPending, dbInvalid, accepted,
                   chan, mgr, rtower, rstatus, rpend, mcur, task, revoked, poisoned>>

\* An empty start pass goes straight to the sleep.
EmptyStartPass ==
    /\ mphase = "start"
    /\ mtodo = {}
    /\ mphase' = "recv"
    /\ UNCHANGED <<towers, tstatus, wtRetriers, dbPending, dbInvalid, accepted,
                   chan, mgr, rtower, rstatus, rpend, mtodo, mcur, task, revoked, poisoned>>

\* The manager's next step takes the WTClient lock: receiving a message
\* (line 95), remove_if_failed for a Failed retrier, start (line 354) and
\* the wake-up of an idle retrier (lines 155-165).
ManagerLocks ==
    \/ mphase = "recv" /\ chan # <<>>
    \/ mphase = "reap" /\ \E t \in mtodo : Failed(mgr[t])
    \/ mphase = "start" /\ \E t \in mtodo : ShouldStart(mgr[t]) \/ DelayElapsed(mgr[t])

\* Once the WTClient mutex is poisoned, the manager's next lock().unwrap()
\* panics and the manage_retry task dies.
ManagerLockPanics ==
    /\ poisoned
    /\ ManagerLocks
    /\ mphase' = "panicked"
    /\ UNCHANGED <<towers, tstatus, wtRetriers, dbPending, dbInvalid, accepted,
                   chan, mgr, rtower, rstatus, rpend, mtodo, mcur, task, revoked,
                   poisoned>>

ManagerStep ==
    \/ ManagerLockPanics
    \/ Receive \/ ChannelEmpty \/ Retain \/ EmptyStartPass
    \/ \E t \in Towers :
         RemoveIfFailed(t) \/ StartRetrier(t) \/ AutoWake(t) \/ SkipRetrier(t)
=============================================================================
