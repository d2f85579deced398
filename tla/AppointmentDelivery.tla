------------------------- MODULE AppointmentDelivery -------------------------
(***************************************************************************)
(* What the retry engine promises about each appointment and tower, as the *)
(* durable store records it (spec sections 1, 7): a revoked appointment is *)
(* either accepted by the tower at once, skipped (misbehaving tower) or    *)
(* stored as pending; a pending appointment leaves the pending set only by *)
(* being accepted, exactly once, or rejected as invalid, or when its tower *)
(* is abandoned.  Nothing the engine does in between is visible here.      *)
(***************************************************************************)
EXTENDS Naturals

CONSTANTS Towers, Locators, StartupPending

VARIABLES
    issued,    \* (tower, locator) pairs the revocation notifier has handled
    pending,   \* tower -> locators pending in the store
    receipts,  \* tower -> locator -> number of receipts (accepted submissions)
    invalid,   \* tower -> locators the tower rejected
    abandoned  \* towers the user has abandoned; they never come back

avars == <<issued, pending, receipts, invalid, abandoned>>

Init ==
    /\ issued = {<<t, l>> \in Towers \X Locators : l \in StartupPending[t]}
    /\ pending = StartupPending
    /\ receipts = [t \in Towers |-> [l \in Locators |-> 0]]
    /\ invalid = [t \in Towers |-> {}]
    /\ abandoned = {}

\* A revocation for a registered tower: accepted directly, skipped, or stored pending.
Issue(t, l) ==
    /\ t \notin abandoned
    /\ <<t, l>> \notin issued
    /\ issued' = issued \cup {<<t, l>>}
    /\ \/ /\ receipts[t][l] = 0
          /\ receipts' = [receipts EXCEPT ![t][l] = 1]
          /\ UNCHANGED pending
       \/ UNCHANGED <<pending, receipts>>
       \/ /\ pending' = [pending EXCEPT ![t] = @ \cup {l}]
          /\ UNCHANGED receipts
    /\ UNCHANGED <<invalid, abandoned>>

\* A tower answers for a pending appointment; an answer to a request in
\* flight may also arrive after the tower was abandoned.
Answerable(t, l) == l \in pending[t] \/ (t \in abandoned /\ <<t, l>> \in issued)

\* The tower accepts the appointment, for the first time.
Deliver(t, l) ==
    /\ Answerable(t, l)
    /\ receipts[t][l] = 0
    /\ pending' = [pending EXCEPT ![t] = @ \ {l}]
    /\ receipts' = [receipts EXCEPT ![t][l] = 1]
    /\ UNCHANGED <<issued, invalid, abandoned>>

\* The tower rejects the appointment, which is kept as invalid.
Reject(t, l) ==
    /\ Answerable(t, l)
    /\ pending' = [pending EXCEPT ![t] = @ \ {l}]
    /\ invalid' = [invalid EXCEPT ![t] = @ \cup {l}]
    /\ UNCHANGED <<issued, receipts, abandoned>>

\* The tower is abandoned: its pending appointments are dropped.
Drop(t) ==
    /\ t \notin abandoned
    /\ abandoned' = abandoned \cup {t}
    /\ pending' = [pending EXCEPT ![t] = {}]
    /\ UNCHANGED <<issued, receipts, invalid>>

Next ==
    \/ \E t \in Towers, l \in Locators : Issue(t, l) \/ Deliver(t, l) \/ Reject(t, l)
    \/ \E t \in Towers : Drop(t)

Spec == Init /\ [][Next]_avars
=============================================================================
