------------------------------ MODULE Retrier ------------------------------
(***************************************************************************)
(* The task spawned by Retrier::start (retrier.rs 365-430): the backoff    *)
(* driver retry_notify around Retrier::run (433-561) and the match on its  *)
(* result.  One action per section of code between two lock releases or   *)
(* awaits: the manager and the other tasks run on other tokio worker       *)
(* threads and may interleave at each of these points.                     *)
(***************************************************************************)
EXTENDS RetryState

CONSTANTS
    AddReplies(_, _),  \* results http::add_appointment can produce for a tower and locator
    RegReplies(_)      \* results http::register (+ receipt checks) for a tower

Obj(k) == task[k].obj
Twr(k) == rtower[task[k].obj]

Goto(k, pc) == task' = [task EXCEPT ![k].pc = pc]

\* A task ends: its object is released if the manager dropped it too.
Finish(k) ==
    /\ task' = [task EXCEPT ![k] = FreeTask]
    /\ LET o == Obj(k) IN
       rstatus' = IF /\ \A t \in Towers : mgr[t] # o
                     /\ \A j \in Live \ {k} : task[j].obj # o
                  THEN [rstatus EXCEPT ![o] = "Free"] ELSE rstatus

\* run(), lines 435-450 and 453: snapshot the tower under one lock.  An
\* abandoned tower is a permanent error; a SubscriptionError status makes
\* the attempt re-register first.
RunSnapshot(k) ==
    /\ task[k].pc = "run"
    /\ ~poisoned
    /\ IF Twr(k) \notin towers
       THEN task' = [task EXCEPT ![k].err = "Abandoned", ![k].pc = "fail_status"]
       ELSE Goto(k, IF tstatus[Twr(k)] = "SubscriptionError"
                    THEN "register" ELSE "loop")
    /\ UNCHANGED <<towers, tstatus, wtRetriers, dbPending, dbInvalid, accepted,
                   chan, mgr, rtower, rstatus, rpend, mphase, mtodo, mcur, revoked, poisoned>>

\* run(), lines 454-477: http::register, receipt.verify and
\* WTClient::add_update_tower, which (re)registers the tower as Reachable.
Register(k) ==
    /\ task[k].pc = "register"
    /\ \E out \in RegReplies(Twr(k)) :
         CASE out = "ok" ->
                /\ ~poisoned
                /\ towers' = towers \cup {Twr(k)}
                /\ tstatus' = [tstatus EXCEPT ![Twr(k)] = "Reachable"]
                /\ Goto(k, "loop")
           [] out = "neterr" ->
                /\ task' = [task EXCEPT ![k].err = "SubTransient", ![k].pc = "backoff"]
                /\ UNCHANGED <<towers, tstatus>>
           [] out \in {"badsig", "notbetter"} ->
                /\ out = "notbetter" => ~poisoned
                /\ task' = [task EXCEPT ![k].err = "SubPermanent", ![k].pc = "fail_status"]
                /\ UNCHANGED <<towers, tstatus>>
    /\ UNCHANGED <<wtRetriers, dbPending, dbInvalid, accepted, chan, mgr,
                   rtower, rstatus, rpend, mphase, mtodo, mcur, revoked, poisoned>>

\* run(), lines 480-481: `while has_pending_appointments()` and the clone
\* of the pending set; an empty set ends run() with Ok (line 560).
LoopCheck(k) ==
    /\ task[k].pc = "loop"
    /\ IF rpend[Obj(k)] = {}
       THEN task' = [task EXCEPT ![k].err = "Ok", ![k].pc = "ok_tower"]
       ELSE task' = [task EXCEPT ![k].batch = rpend[Obj(k)], ![k].pc = "next"]
    /\ UNCHANGED <<towers, tstatus, wtRetriers, dbPending, dbInvalid, accepted,
                   chan, mgr, rtower, rstatus, rpend, mphase, mtodo, mcur, revoked, poisoned>>

\* run(), lines 482-489: take the next locator of the snapshot, in any
\* order, and load its appointment; an exhausted snapshot re-checks the
\* pending set.
NextLocator(k) ==
    /\ task[k].pc = "next"
    /\ IF task[k].batch = {}
       THEN Goto(k, "loop")
       ELSE ~poisoned /\ \E l \in task[k].batch :
              /\ Stored(l)
              /\ task' = [task EXCEPT ![k].batch = @ \ {l}, ![k].loc = l,
                                      ![k].pc = "send"]
    /\ UNCHANGED <<towers, tstatus, wtRetriers, dbPending, dbInvalid, accepted,
                   chan, mgr, rtower, rstatus, rpend, mphase, mtodo, mcur, revoked, poisoned>>

\* Line 489: load_appointment(..).unwrap() for a locator whose row the
\* store has deleted panics while the WTClient guard taken at 484-486 is
\* alive, so the mutex is poisoned; tokio ends the task and the retrier
\* keeps the status it had, Running.
LoadAppointmentPanics(k) ==
    /\ task[k].pc = "next"
    /\ ~poisoned
    /\ \E l \in task[k].batch : ~Stored(l)
    /\ Finish(k)
    /\ poisoned' = TRUE
    /\ UNCHANGED <<towers, tstatus, wtRetriers, dbPending, dbInvalid, accepted,
                   chan, mgr, rtower, rpend, mphase, mtodo, mcur, revoked>>

\* run(), lines 491-555: http::add_appointment for the locator a task holds
\* and the handling of its result, one action per result.  The frame of the
\* variables no result changes:
SendFrame == UNCHANGED <<towers, wtRetriers, chan, mgr, rtower, rstatus,
                         mphase, mtodo, mcur, revoked, poisoned>>
Sending(k, out) == task[k].pc = "send" /\ out \in AddReplies(Twr(k), task[k].loc)
\* The results whose handling takes the WTClient lock.
LockingReplies == {"ok", "subscription", "rejected"}

\* The transient and permanent errors that end the attempt (lines 520, 552).
FailAttempt(k, err) ==
    task' = [task EXCEPT ![k].err = err,
                         ![k].pc = IF IsPermanent(err) THEN "fail_status" ELSE "backoff"]

\* Mutant: a receipt that leaves the locator in the in-memory pending set.
AddOkKeepsPending(k) ==
    /\ Sending(k, "ok") /\ ~poisoned
    /\ accepted' = [accepted EXCEPT ![Twr(k)][task[k].loc] = IF @ < 2 THEN @ + 1 ELSE 2]
    /\ dbPending' = [dbPending EXCEPT ![Twr(k)] = @ \ {task[k].loc}]
    /\ Goto(k, "next")
    /\ UNCHANGED <<tstatus, rpend, dbInvalid>> /\ SendFrame

\* Lines 500-511: accepted; the locator leaves memory, then, under the
\* WTClient lock, the receipt is stored and the store's pending entry removed.
AddOk(k) ==
    /\ Sending(k, "ok") /\ ~poisoned
    /\ rpend' = [rpend EXCEPT ![Obj(k)] = @ \ {task[k].loc}]
    /\ accepted' = [accepted EXCEPT ![Twr(k)][task[k].loc] = IF @ < 2 THEN @ + 1 ELSE 2]
    /\ dbPending' = [dbPending EXCEPT ![Twr(k)] = @ \ {task[k].loc}]
    /\ Goto(k, "next")
    /\ UNCHANGED <<tstatus, dbInvalid>> /\ SendFrame

\* Mutant: a connection error handled like any other RequestError.
AddConnErrorFallsThrough(k) ==
    /\ Sending(k, "conn")
    /\ Goto(k, "next")
    /\ UNCHANGED <<tstatus, rpend, accepted, dbPending, dbInvalid>> /\ SendFrame

\* Lines 514-521: a connection error ends the attempt, transient Unreachable.
AddConnError(k) ==
    /\ Sending(k, "conn")
    /\ FailAttempt(k, "Unreachable")
    /\ UNCHANGED <<tstatus, rpend, accepted, dbPending, dbInvalid>> /\ SendFrame

\* Lines 514-522: any other RequestError (is_connection() false: a timeout,
\* a body that does not decode) matches no branch; the locator stays
\* pending and the for loop goes on to the next one.
AddRequestError(k) ==
    /\ Sending(k, "reqerr")
    /\ Goto(k, "next")
    /\ UNCHANGED <<tstatus, rpend, accepted, dbPending, dbInvalid>> /\ SendFrame

\* Lines 524-533: INVALID_SIGNATURE_OR_SUBSCRIPTION_ERROR flags the tower
\* SubscriptionError and ends the attempt with a transient error, so the
\* next attempt re-registers.
AddSubscriptionError(k) ==
    /\ Sending(k, "subscription") /\ ~poisoned
    /\ SetTowerStatus(Twr(k), "SubscriptionError")
    /\ FailAttempt(k, "SubTransient")
    /\ UNCHANGED <<rpend, accepted, dbPending, dbInvalid>> /\ SendFrame

\* Mutant: a rejection that leaves the locator in the in-memory pending set.
AddRejectedKeepsPending(k) ==
    /\ Sending(k, "rejected") /\ ~poisoned
    /\ dbInvalid' = [dbInvalid EXCEPT ![Twr(k)] = @ \cup {task[k].loc}]
    /\ dbPending' = [dbPending EXCEPT ![Twr(k)] = @ \ {task[k].loc}]
    /\ Goto(k, "next")
    /\ UNCHANGED <<tstatus, rpend, accepted>> /\ SendFrame

\* Mutant: a rejection stored as invalid but left pending in the store.
AddRejectedKeepsStorePending(k) ==
    /\ Sending(k, "rejected") /\ ~poisoned
    /\ rpend' = [rpend EXCEPT ![Obj(k)] = @ \ {task[k].loc}]
    /\ dbInvalid' = [dbInvalid EXCEPT ![Twr(k)] = @ \cup {task[k].loc}]
    /\ Goto(k, "next")
    /\ UNCHANGED <<tstatus, accepted, dbPending>> /\ SendFrame

\* Lines 535-549: any other ApiError: the tower rejected the appointment;
\* it leaves memory, then moves from pending to invalid in the store.
AddRejected(k) ==
    /\ Sending(k, "rejected") /\ ~poisoned
    /\ rpend' = [rpend EXCEPT ![Obj(k)] = @ \ {task[k].loc}]
    /\ dbInvalid' = [dbInvalid EXCEPT ![Twr(k)] = @ \cup {task[k].loc}]
    /\ dbPending' = [dbPending EXCEPT ![Twr(k)] = @ \ {task[k].loc}]
    /\ Goto(k, "next")
    /\ UNCHANGED <<tstatus, accepted>> /\ SendFrame

\* Lines 551-553: a receipt whose signature is not the tower's: permanent
\* Misbehaving.
AddSignatureError(k) ==
    /\ Sending(k, "misbehaving")
    /\ FailAttempt(k, "Misbehaving")
    /\ UNCHANGED <<tstatus, rpend, accepted, dbPending, dbInvalid>> /\ SendFrame

SendAppointment(k) ==
    \/ AddOk(k) \/ AddConnError(k) \/ AddRequestError(k)
    \/ AddSubscriptionError(k) \/ AddRejected(k) \/ AddSignatureError(k)

\* Mutant: a backoff that never runs out of time.
BackoffRetryUnbounded(k) ==
    /\ task[k].pc = "backoff"
    /\ task' = [task EXCEPT ![k].att = @ + 1, ![k].pc = "run"]
    /\ UNCHANGED <<towers, tstatus, wtRetriers, dbPending, dbInvalid, accepted,
                   chan, mgr, rtower, rstatus, rpend, mphase, mtodo, mcur, revoked, poisoned>>

\* retry_notify after a transient error: sleep and call run() again while
\* max_elapsed_time has not passed (at most MaxAttempts attempts) ...
BackoffRetry(k) ==
    /\ task[k].pc = "backoff"
    /\ task[k].att < MaxAttempts
    /\ task' = [task EXCEPT ![k].att = @ + 1, ![k].pc = "run"]
    /\ UNCHANGED <<towers, tstatus, wtRetriers, dbPending, dbInvalid, accepted,
                   chan, mgr, rtower, rstatus, rpend, mphase, mtodo, mcur, revoked, poisoned>>

\* Mutant: giving up without set_status(Idle).
BackoffGiveUpNoIdle(k) ==
    /\ task[k].pc = "backoff"
    /\ Goto(k, "idle_clear")
    /\ UNCHANGED <<towers, tstatus, wtRetriers, dbPending, dbInvalid, accepted,
                   chan, mgr, rtower, rstatus, rpend, mphase, mtodo, mcur, revoked, poisoned>>

\* ... or give up with the last transient error (lines 390-397: not
\* permanent, so the status is not set to Failed) and start idling.
BackoffGiveUp(k) ==
    /\ task[k].pc = "backoff"
    /\ Goto(k, "idle_status")
    /\ UNCHANGED <<towers, tstatus, wtRetriers, dbPending, dbInvalid, accepted,
                   chan, mgr, rtower, rstatus, rpend, mphase, mtodo, mcur, revoked, poisoned>>

\* Ok, lines 383-386: the tower is flagged Reachable first ...
OkTowerNoStatus(k) ==
    /\ task[k].pc = "ok_tower"
    /\ ~poisoned
    /\ Goto(k, "ok_status")
    /\ UNCHANGED <<towers, tstatus, wtRetriers, dbPending, dbInvalid, accepted,
                   chan, mgr, rtower, rstatus, rpend, mphase, mtodo, mcur, revoked, poisoned>>

OkTower(k) ==
    /\ task[k].pc = "ok_tower"
    /\ ~poisoned
    /\ SetTowerStatus(Twr(k), "Reachable")
    /\ Goto(k, "ok_status")
    /\ UNCHANGED <<towers, wtRetriers, dbPending, dbInvalid, accepted, chan,
                   mgr, rtower, rstatus, rpend, mphase, mtodo, mcur, revoked, poisoned>>

\* ... then set_status(Stopped), line 388: the status write (line 292) ...
OkStatus(k) ==
    /\ task[k].pc = "ok_status"
    /\ rstatus' = [rstatus EXCEPT ![Obj(k)] = "Stopped"]
    /\ Goto(k, "ok_mirror")
    /\ UNCHANGED <<towers, tstatus, wtRetriers, dbPending, dbInvalid, accepted,
                   chan, mgr, rtower, rpend, mphase, mtodo, mcur, revoked, poisoned>>

\* ... and the mirror update of set_status (lines 295-311), which reads the
\* status again; the task then ends.
OkMirror(k) ==
    /\ task[k].pc = "ok_mirror"
    /\ MirrorLocks(Obj(k)) => ~poisoned
    /\ MirrorUpdate(Twr(k), rstatus[Obj(k)], "Stopped")
    /\ Finish(k)
    /\ UNCHANGED <<towers, tstatus, dbPending, dbInvalid, accepted, chan, mgr,
                   rtower, rpend, mphase, mtodo, mcur, revoked, poisoned>>

\* Permanent error, lines 394-396: set_status(Failed); its mirror update
\* does nothing for Failed.
FailStatus(k) ==
    /\ task[k].pc = "fail_status"
    /\ rstatus' = [rstatus EXCEPT ![Obj(k)] = "Failed"]
    /\ Goto(k, "fail_effect")
    /\ UNCHANGED <<towers, tstatus, wtRetriers, dbPending, dbInvalid, accepted,
                   chan, mgr, rtower, rpend, mphase, mtodo, mcur, revoked, poisoned>>

\* Lines 398-415: the tower status the permanent error calls for
\* (flag_misbehaving_tower for Misbehaving, nothing for Abandoned).
FailEffect(k) ==
    /\ task[k].pc = "fail_effect"
    /\ task[k].err # "Abandoned" => ~poisoned
    /\ CASE task[k].err = "SubPermanent" -> SetTowerStatus(Twr(k), "SubscriptionError")
         [] task[k].err = "Misbehaving" -> SetTowerStatus(Twr(k), "Misbehaving")
         [] task[k].err = "Abandoned" -> UNCHANGED tstatus
    /\ Finish(k)
    /\ UNCHANGED <<towers, wtRetriers, dbPending, dbInvalid, accepted, chan,
                   mgr, rtower, rpend, mphase, mtodo, mcur, revoked, poisoned>>

\* Transient errors exhausted, line 419: set_status(Idle(now)): the write ...
IdleStatus(k) ==
    /\ task[k].pc = "idle_status"
    /\ rstatus' = [rstatus EXCEPT ![Obj(k)] = "Idle"]
    /\ Goto(k, "idle_mirror")
    /\ UNCHANGED <<towers, tstatus, wtRetriers, dbPending, dbInvalid, accepted,
                   chan, mgr, rtower, rpend, mphase, mtodo, mcur, revoked, poisoned>>

\* ... and its mirror update, which inserts Idle if the status read back is
\* Running or Idle ...
IdleMirror(k) ==
    /\ task[k].pc = "idle_mirror"
    /\ MirrorLocks(Obj(k)) => ~poisoned
    /\ MirrorUpdate(Twr(k), rstatus[Obj(k)], "Idle")
    /\ Goto(k, "idle_clear")
    /\ UNCHANGED <<towers, tstatus, dbPending, dbInvalid, accepted, chan, mgr,
                   rtower, rstatus, rpend, mphase, mtodo, mcur, revoked, poisoned>>

\* ... line 421: clear the in-memory pending set ...
IdleClear(k) ==
    /\ task[k].pc = "idle_clear"
    /\ rpend' = [rpend EXCEPT ![Obj(k)] = {}]
    /\ Goto(k, "idle_tower")
    /\ UNCHANGED <<towers, tstatus, wtRetriers, dbPending, dbInvalid, accepted,
                   chan, mgr, rtower, rstatus, mphase, mtodo, mcur, revoked, poisoned>>

\* ... lines 422-425: and flag the tower Unreachable; the task ends.
IdleTower(k) ==
    /\ task[k].pc = "idle_tower"
    /\ ~poisoned
    /\ SetTowerStatus(Twr(k), "Unreachable")
    /\ Finish(k)
    /\ UNCHANGED <<towers, wtRetriers, dbPending, dbInvalid, accepted, chan,
                   mgr, rtower, rpend, mphase, mtodo, mcur, revoked, poisoned>>

\* The next step of task k takes the WTClient lock: the snapshot, loading
\* an appointment, the handling of a receipt, a subscription error or a
\* rejection, add_update_tower, and the tower status and mirror writes of
\* the tails.
TaskLocks(k) ==
    \/ task[k].pc \in {"run", "ok_tower", "idle_tower"}
    \/ task[k].pc = "next" /\ task[k].batch # {}
    \/ task[k].pc = "register" /\ RegReplies(Twr(k)) \cap {"ok", "notbetter"} # {}
    \/ task[k].pc = "send" /\ AddReplies(Twr(k), task[k].loc) \cap LockingReplies # {}
    \/ task[k].pc \in {"ok_mirror", "idle_mirror"} /\ MirrorLocks(Obj(k))
    \/ task[k].pc = "fail_effect" /\ task[k].err # "Abandoned"

\* A lock().unwrap() on the poisoned WTClient mutex panics: the task ends
\* and its retrier keeps its status.
LockPanics(k) ==
    /\ poisoned
    /\ TaskLocks(k)
    /\ Finish(k)
    /\ UNCHANGED <<towers, tstatus, wtRetriers, dbPending, dbInvalid, accepted,
                   chan, mgr, rtower, rpend, mphase, mtodo, mcur, revoked, poisoned>>

TaskStep(k) ==
    \/ LockPanics(k)
    \/ RunSnapshot(k) \/ Register(k) \/ LoopCheck(k)
    \/ NextLocator(k) \/ LoadAppointmentPanics(k)
    \/ SendAppointment(k) \/ BackoffRetry(k) \/ BackoffGiveUp(k)
    \/ OkTower(k) \/ OkStatus(k) \/ OkMirror(k)
    \/ FailStatus(k) \/ FailEffect(k)
    \/ IdleStatus(k) \/ IdleMirror(k) \/ IdleClear(k) \/ IdleTower(k)
=============================================================================
