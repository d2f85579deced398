# TLA+ model of the watchtower plugin's retry engine

This directory models the retry engine of the watchtower client plugin
(`src/watchtower-plugin/src/retrier.rs`, lines 1-577; the rest of that file is
its unit tests). The engine delivers pending appointments to towers that were
unreachable, and it copes with subscription errors, misbehaving towers and
abandoned towers. The modules are checked with TLC.

## The system

| Part | Code | State | Operations |
|---|---|---|---|
| RetryManager | `manage_retry`, `add_pending_appointments`, `start_retrying` (86-210) | map tower → `Arc<Retrier>`, the receiving end of `unreachable_towers` | receive one message; when the channel is empty, a retain pass, a start pass (start or auto-wake), then sleep 1 s |
| Retrier | `Retrier::*` (212-577) | `status` (Stopped/Running/Failed/Idle), `pending_appointments`, each behind its own mutex | `start` (pre-spawn status writes, then a tokio task running `retry_notify(run)` and the match on its result), `run`, `set_status` (status write and `WTClient.retriers` mirror update), `should_start`, `remove_if_failed` |
| RetryError | 19-46 | — | `is_permanent` |
| Backoff | `retry_notify` from the backoff crate | attempts, elapsed time | retry after a transient error or give up |
| WTClient and its store | not under `src/`, modelled from `spec.md` §3, §6 | tower registry and statuses, `retriers` mirror, pending/invalid appointments, receipts | `set_tower_status`, `add_update_tower`, `flag_misbehaving_tower`, receipt and pending/invalid updates |
| Producers | not under `src/`, modelled from the spec | — | `on_commitment_revocation` (Fresh), `retrytower` (None or Stale), `abandontower`, startup (Stale) |
| HTTP and cryptography | outside the model | — | reduced to the set of results `register` and `add_appointment` return |

How the parts interact:
- Producers send `(tower, RevocationData)` into an unbounded channel. The manager reads it with `try_recv`.
- Every spawned retry task shares the `WTClient` mutex and its Retrier's two mutexes with the manager.
- The plugin runs on tokio's multi-thread runtime, so the manager and the retry tasks really run in parallel. The model therefore lets them interleave at every lock release and every `.await`. Each such code section is one action. Under a current-thread runtime most of the races found below could not happen.

## Modules

- `RetryState.tla`: constants, the 16 state variables and the shared operators.
  - The operator constants `AddReplies(t, l)` and `RegReplies(t)` are the results a tower's server can give to `add_appointment` for locator `l` and to `register` (with the receipt checks). A cfg replaces them with an operator of its MC module.
  - `SetTowerStatus`
  - `MirrorUpdate`: the mirror half of `set_status`. It reads the status back and inserts the status that was passed in.
  - `ShouldStart`
  - `TypeOK`
  - Retrier objects (`Objs`) and task ids (`Tasks`) are model values. They are recycled once nothing references them. An object keeps living after the manager drops it while its task still holds the `Arc`.
- `Retrier.tla`: the spawned task. A task record holds a pc, the cloned batch of locators, the locator being sent, the attempt count and the last error.
  - `run()`: `RunSnapshot`, `Register`, `LoopCheck`, `NextLocator`, and one action per `add_appointment` result: `AddOk`, `AddConnError`, `AddRequestError`, `AddSubscriptionError`, `AddRejected`, `AddSignatureError`.
  - The backoff: `BackoffRetry`, `BackoffGiveUp`.
  - The three tails of `start()`, each split at its lock boundaries:
    - `OkTower` → `OkStatus` → `OkMirror`
    - `FailStatus` → `FailEffect`
    - `IdleStatus` → `IdleMirror` → `IdleClear` → `IdleTower`
- `RetryManager.tla`: the loop, as a phase variable (`recv`, `reap`, `reap_keep`, `start`, `panicked`).
  - Actions: `Receive`, `ChannelEmpty`, `RemoveIfFailed` then `Retain`, `StartRetrier`, `AutoWake`, `SkipRetrier`, `EmptyStartPass`.
  - `remove_if_failed` and the keep predicate are separate actions because they take the status lock separately (lines 139-140).
  - `HashMap` iteration order is any order.
- `Producers.tla`: `Revoke`, `RetryTower`, `Abandon`. Each runs under the `WTClient` lock and is one step.
- `RetryEngine.tla`: composes the above.
  - `Init` is `WTClient::new`: every tower Reachable, and startup Stale messages.
  - `Next`, `Spec`, `FairSpec`, and the properties.
  - `Delivery`: an instance of `AppointmentDelivery` under a refinement mapping (below).
- `AppointmentDelivery.tla`: the abstract specification of what the engine promises the store, from spec §1 and §7. It keeps only the registry and the store:
  - `Issue`: a revocation for a registered tower is accepted at once, skipped, or stored as pending.
  - `Deliver`: an appointment that is pending is accepted, exactly once.
  - `Reject`: an appointment that is pending becomes invalid.
  - `Drop`: a tower is abandoned, its pending appointments are dropped, and it never comes back.
  - `Answerable`: a request already in flight may still be answered after its tower was abandoned.
- `MC_RetryEngine.tla`: model values and symmetry for TLC. It also gives the servers' replies: `AnyAdd(t, l)` lets every tower answer `add_appointment` in any way, `AddNoReqError(t, l)` in any way but a non-connection `RequestError`, and `AnyReg(t)` lets it answer `register` in any way.
- `UnitTests.tla`: the 14 unit tests of `retrier.rs` (lines 579-1566), run against the engine.
  - Each test has a tower of its own, named after the test.
  - `Setup<Test>` is the test's setup, as an initial state built from `Client` (`WTClient::new`, `add_update_tower`, `add_pending_appointment`, `set_tower_status`, `remove_tower`), `Manager` (the spawned `manage_retry` and the `tx.send`) or `Direct` (a bare `Retrier::new(..).run()`).
  - The test's mock server is `MockAdd(t)` / `MockReg(t)`: the set of replies that server gives.
  - `Test<Test>` is what the test asserts after its sleeps, stated as a temporal formula. Sleeps become "eventually".
  - `TestInit` is the disjunction of the setups, so the state space is the sum of the 14 tests, not their product.
  - The producers are disabled: every (tower, locator) pair counts as already revoked.
  - Two tests repoint their tower to a new mock server mid-test. They are split into phases, each on a tower of its own (`manage_retry_unreachable:reconnected`, `manage_retry_while_idle:fresh`, `manage_retry_while_idle:wake`). A later phase starts from the state the earlier phase asserts: `IdleManager` is the manager holding an idle retrier whose task has finished.
  - The mock of `test_manage_retry_while_idle`'s last phase answers every request with the receipt for the first appointment. For the second appointment that is a SignatureError (`MockAdd` per locator). The test can therefore only assert 1-2 hits, and its pending-set assertions are commented out (FIXME at line 1265). The model states what does happen, in both HashSet orders: the tower ends Misbehaving, the second appointment stays pending, and the first is accepted exactly when it was sent first.
- `MC_UnitTests.tla`: the 17 test towers as strings, two locators, two retrier objects and two task ids.

The store's cascade is modelled by `RetryState!Stored(l)`: an appointment row exists while some tower lists it as pending or invalid, or holds a receipt for it (spec §6). `NextLocator` loads only stored locators. When the row is gone, `LoadAppointmentPanics` models the `load_appointment(..).unwrap()` panic at line 489: the task ends with the `WTClient` guard from line 484 alive, so the mutex is poisoned, and no status changes.

Mutex poisoning: the variable `poisoned` records that a thread panicked while holding the `Mutex<WTClient>` (the `start()` unwrap at 357 or the load at 489). From then on every `wt_client.lock().unwrap()` panics:
- `TaskLocks(k)` is the set of task steps that take the lock (the `run()` snapshot, a register or send reply that writes to the client, a tail step that flags the tower or updates the mirror; `MirrorLocks` is the `set_status` case). `LockPanics(k)` ends such a task with no other change.
- `ManagerLocks` is the same for the manager: receiving a message (line 95), `remove_if_failed` of a Failed retrier, and a start or wake in the start pass. `ManagerLockPanics` moves the manager to `panicked`.
- The producers (`Revoke`, `RetryTower`, `Abandon`) are plugin handlers that take the same lock, and take no step once it is poisoned.

### Refinement

The mapping from `RetryEngine` to `AppointmentDelivery`:
- `issued` is `revoked`: the pairs the producers have sent;
- `pending`, `receipts` and `invalid` are the store's `dbPending`, `accepted` and `dbInvalid`;
- `abandoned` is `Towers \ towers`.

`DeliveryRefined == Delivery!Spec` is checked as a temporal property. It says:
- every change the engine makes to the store is one of the abstract steps;
- in particular, no receipt appears for an appointment that was never pending;
- no appointment is accepted twice;
- an abandoned tower never comes back.

`PROJECT.json` maps every definition to the lines it models.

## Properties and runs

Every run on `MC_RetryEngine` uses one tower, 3 retrier objects, 2 task ids, `MaxAttempts = 2` and `MaxChan = 2`. Two task ids and three objects are enough for two overlapping campaigns on one tower, with one object still held by a finished-but-reaped retrier.

Passing runs:

| Run | Setting | Checks |
|---|---|---|
| `core` | revocations only, 2 locators, every outcome; 102,792 states | `TypeOK`; `PendingPersisted` (the manager's retrier never holds a locator the store no longer lists as pending); `SingleCampaign`; `RunningHasTask` (a retrier the manager holds as Running is served by a live task); `DeliveryRefined` |
| `manual` | `retrytower` and `abandontower` enabled, 1 locator; 2.8 M states, about 80 s | `SingleCampaign` |
| `liveness` | `FairSpec`, no non-connection RequestError, no symmetry (liveness under symmetry is unsound) | `CampaignTerminates`: every retry task ends; `IdleEventuallyWakes`: a retrier that the manager holds as Idle is eventually woken while the manager still holds it (dropping it does not count); `TemporaryUnreachableSettles`: a tower flagged TemporaryUnreachable (by `start()` or by a failed direct send) is eventually flagged otherwise |

| `tests` | `MC_UnitTests`, `TestSpec` (below); 1,114 states, a few seconds | `ManageRetryTestsPass`: the 7 `test_manage_retry_*` tests, with the later phases of two of them; `RetryTowerTestsPass`: the 7 `test_retry_tower*` tests |

Notes on the passing runs:
- `towers2.cfg` is a larger instance of `core`: two towers, one locator, and symmetry over towers too. It has 385,204 states and checks the same properties. The two towers share the manager's passes, the channel and the two task ids, so one tower's campaign can delay or interleave with the other's. It is kept as a configuration beside `core`, not as a run of its own, because it asks the same question as `core`.
- `manual` sets `CHECK_DEADLOCK FALSE`. Abandoning a tower can panic the manager, and after the panic nothing runs (see `panic`).
- The `liveness` run also passes with 2 locators, in about 2 min 20 s.

Violation runs, one property each (details in `PROJECT.json` findings):

| Run | Property | What TLC finds |
|---|---|---|
| `panic` | `NoPanic` | `abandontower` after a message passed the abandoned check. `Retrier::start` unwraps `None` while holding the `WTClient` guard (line 354). The manager task dies and the mutex is poisoned. |
| `mirror` | `MirrorBacked` | A retrier sets Failed between `remove_if_failed` and the keep predicate. It is dropped while `WTClient.retriers` still says Running, so `retrytower` is refused for that tower until a new message for it reaches `start()`. |
| `misbehaving` | `MisbehavingIsSink` | A Fresh message queued during the reap of a failed retrier starts a new campaign. Its `start()` overwrites Misbehaving. |
| `stranded` | `NoStrandedReachable` | A reaped Failed retrier loses its pending set. A later campaign re-registers the tower as Reachable, and the lost appointments stay in the store with nothing to send them. |
| `double` | `AtMostOnceAccepted` | A wake-up removes the mirror entry one tick before `start()`. A second `retrytower` sends Stale locators that are delivered twice. |
| `livelock` | `CampaignTerminates` | A non-connection `RequestError` makes `run()` loop forever with no backoff. |
| `orphan` | `RunningHasTask` | `abandontower` after `run()` cloned the pending set deletes the appointment rows. `load_appointment(..).unwrap()` panics the task while it holds the `WTClient` guard (line 484), so the mutex is poisoned. The retrier stays Running with no task, in the manager and in `WTClient.retriers`, and the manager panics at its next `wt_client` lock. |
| `resurrect` | `DeliveryRefined` | `abandontower` while the task is in `register()`. `add_update_tower` (line 466) puts the abandoned tower back into the registry, which no abstract step allows. |

Every property of a passing run has a mutant in `PROJECT.json`: a plausible bug in a mapped definition that TLC catches under that run's cfg. The mutants are:
- a backoff with no deadline;
- a rejected or accepted appointment left in memory;
- `should_start` that only refuses Failed retriers;
- a connection error handled like any other `RequestError`;
- a give-up that skips the `set_status(Idle)` step;
- a rejection that leaves the appointment pending in the store;
- a wake-up that leaves the retrier's status Idle;
- a successful campaign that does not flag the tower Reachable (line 386).

## Fairness

`FairSpec` adds weak fairness for two kinds of step:
- The manager loop: it always wakes from its one-second sleep.
- Each task id's steps: tokio runs every spawned task, and each HTTP call returns, by reply or by error.

There is also strong fairness for `AutoWake(t)`. Once `auto_retry_delay` has passed, every start pass of the manager that reaches the retrier wakes it (line 148). A start pass is only reached when the channel is empty, and the producers may keep it busy, so `AutoWake` is enabled only now and then. Weak fairness would not be enough; strong fairness matches the code.

The producers get no fairness, since users and revocations are under no obligation.

### The tests' scheduling

`#[tokio::test]` runs a test on a current-thread runtime. A task gives up the thread only at an `.await`, so the steps between two awaits are atomic. `TestSpec` models this:
- `Suspended(k)`: task `k` is parked at an await (not started, or in an HTTP call) or has no task.
- `ManagerTurn`: a manager step, taken only while every task is suspended.
- `TaskTurn(k)`: a step of task `k`, taken only while the manager sleeps in `recv` and every other task is suspended.

Fairness in `TestSpec`:
- `ManagerTurn` is weakly fair.
- `TaskTurn(k)` is strongly fair. It is enabled only while the manager sleeps, which the manager keeps interrupting, and the runtime polls every ready task each time the manager sleeps.
- `\E t : AutoWake(t) /\ ManagerTurn` is strongly fair, for the same reason as `AutoWake` in `FairSpec`. One condition for all towers is enough, because only the tower of the test a behaviour starts from ever has a retrier. A condition per tower made the liveness check of 1,114 states take minutes.

Under the multi-thread runtime of the plugin (`FairSpec`), `test_manage_retry_misbehaving` would not always pass. A first version of the `tests` run used `FairSpec` and TLC found the `mirror` interleaving in that test: the task flags Misbehaving between `remove_if_failed` and the keep predicate. On a current-thread runtime that interleaving cannot happen. None of the unit tests can therefore reach the races of the violation runs.

## Abstractions and what is not modelled

Backoff time:
- Time is abstracted away. A campaign makes at most `MaxAttempts` attempts after the first, and may give up earlier.
- An auto-wake is allowed only after the idling task has finished, because `auto_retry_delay` is at least one second.

Data:
- Appointments are locators. A receipt is a saturating counter per (tower, locator).
- Accepted receipts count submissions: 2 means two or more.

Left out:
- The moment a test repoints its tower. Each phase is checked from the state the earlier phase asserts, so an auto-retry that races the repointing is left out. `test_manage_retry_unreachable` waits twice the auto-retry delay for this reason (line 805).
- Times in the tests: `MAX_ELAPSED_TIME`, the auto-retry delays and `API_DELAY` only choose which assertion sees which state. The model asserts what holds eventually (or eventually always) instead.
- Channel disconnection (the `break`): the producers never close the channel.
- The direct send of `on_commitment_revocation`: it is a nondeterministic success or failure.

## Further work

These are left out, for the reasons given:
- Three interleavings are in the model but no run reports them (see the hazards in `PROJECT.json`): an old idle tail clearing a restarted campaign's pending set (line 421); an old success tail overlapping a new campaign and writing Stopped into `WTClient.retriers` (line 383), which `SingleCampaign` does not count because it looks only at campaign steps; and a late `add_appointment` answer for an abandoned tower (line 500), which `DeliveryRefined` admits through `Answerable`.
- A liveness property that pending work is eventually resolved. It fails through the `stranded` and `orphan` paths, which the `stranded` and `orphan` runs already show as safety violations. A second violation run would add no new finding.
- Crash and restart. Startup recovery (`WTClient::new` sending Stale data) lives outside `src/`. The spec does not say how tower statuses are reloaded, and a crash model would have to guess this.
- The direct send in `on_commitment_revocation` is kept as one atomic step (`Revoke`): accepted at once, or stored and queued.
