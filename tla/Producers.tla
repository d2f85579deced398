----------------------------- MODULE Producers -----------------------------
(***************************************************************************)
(* The callers of the retry engine, outside src/ and modelled from the     *)
(* spec (sections 3, 6, 9): the commitment-revocation notifier, the manual *)
(* `retrytower` command and `abandontower`.  Each runs under the WTClient  *)
(* lock, so each is one atomic step, and none takes a step once the lock  *)
(* is poisoned (its lock().unwrap() panics, changing nothing).             *)
(***************************************************************************)
EXTENDS RetryState

CONSTANTS
    Abandonable,  \* towers the user may abandon
    Retriable     \* towers the user may retry by hand

Send(m) == chan' = Append(chan, m)

\* on_commitment_revocation for one tower: a Reachable tower gets the
\* appointment directly (accepted, or on failure flagged TemporaryUnreachable
\* and queued); a Misbehaving one is skipped; any other has the appointment
\* stored as pending and a Fresh(locator) sent to the retry manager.
Revoke(t, l) ==
    /\ ~poisoned
    /\ t \in towers
    /\ <<t, l>> \notin revoked
    /\ Len(chan) < MaxChan
    /\ revoked' = revoked \cup {<<t, l>>}
    /\ LET queue(s) ==
             /\ SetTowerStatus(t, s)
             /\ dbPending' = [dbPending EXCEPT ![t] = @ \cup {l}]
             /\ Send([tower |-> t, kind |-> "Fresh", locs |-> {l}])
             /\ UNCHANGED accepted
       IN CASE tstatus[t] = "Reachable" ->
                 \/ /\ accepted' = [accepted EXCEPT ![t][l] = 1]
                    /\ UNCHANGED <<tstatus, dbPending, chan>>
                 \/ queue("TemporaryUnreachable")
            [] tstatus[t] = "Misbehaving" ->
                 UNCHANGED <<tstatus, dbPending, chan, accepted>>
            [] OTHER -> queue(tstatus[t])
    /\ UNCHANGED <<towers, wtRetriers, dbInvalid, mgr, rtower, rstatus, rpend,
                   mphase, mtodo, mcur, task, poisoned>>

\* retrytower: only for an Unreachable or SubscriptionError tower with
\* pending appointments; an idle retrier gets a None wake-up, a tower with
\* no retrier gets Stale(its pending appointments), any other is refused.
RetryTower(t) ==
    /\ ~poisoned
    /\ t \in towers \cap Retriable
    /\ tstatus[t] \in {"Unreachable", "SubscriptionError"}
    /\ dbPending[t] # {}
    /\ Len(chan) < MaxChan
    /\ \/ /\ wtRetriers[t] = "Idle"
          /\ Send([tower |-> t, kind |-> "None", locs |-> {}])
       \/ /\ wtRetriers[t] = "none"
          /\ Send([tower |-> t, kind |-> "Stale", locs |-> dbPending[t]])
    /\ UNCHANGED <<towers, tstatus, wtRetriers, dbPending, dbInvalid, accepted,
                   mgr, rtower, rstatus, rpend, mphase, mtodo, mcur, task,
                   revoked, poisoned>>

\* abandontower: the tower leaves the registry and the store drops its
\* pending appointments.
Abandon(t) ==
    /\ ~poisoned
    /\ t \in towers \cap Abandonable
    /\ towers' = towers \ {t}
    /\ dbPending' = [dbPending EXCEPT ![t] = {}]
    /\ UNCHANGED <<tstatus, wtRetriers, dbInvalid, accepted, chan, mgr, rtower,
                   rstatus, rpend, mphase, mtodo, mcur, task, revoked, poisoned>>
=============================================================================
