# A TLA+ model of zwrt-datad

`zwrt-datad` is the data service of the ZTE U60 Pro.  It collects the device's
state over ubus and publishes it (`/v2` blocks and events), and it changes
settings on request (`/control`).  This directory models the part in which the
order of steps decides whether the device ends up right: the write path, which
applies a change, verifies it, and rolls it back when the device does not come
back with it, over crashes, restarts and reboots.

Source paths below are relative to `rust/src/`.

## 1. The system and what is modelled

| Part | State | Operations | Module |
|---|---|---|---|
| transaction (`ops/txn.rs`) | `Txn`: phase, intent, undo target, clocks, boots, probe round | `new`, `begin_apply`, `applied`, `on_reading`, `on_tick`, `revert`, `keep`, `cancel`, `rollback_sent`, `resume` | `Txn` (operators), `TxnLife` (one life) |
| write-op engine (`ops/engine.rs`, `ops/mod.rs`, `ops/pending.rs`) | `St.active`, `recent`, `last`, the two files, the driver tasks, the executor's jobs | `submit`, `drive`, `send_rollback`, `revert`, `keep`, `preempt`, `other_write`, `interrupt`, `legacy_gate`, `start` | `Engine`, abstract: `OneChange` |
| legacy queue and search session (`ops/engine.rs` 926-1190) | `St.legacy`, `draining`, `St.session` | `legacy_gate`, `enqueue_legacy`, `clear_legacy`, `kick_legacy`, `session_open/renew/close/gate` | `LegacyQueue` |
| `/control` route (`server/write.rs`) | none | `handle`, `run_control` | in `LegacyQueue`, `Engine` |
| executor (`executor.rs`) | job queue, gate, rounds | `control`, `run`, `drain`, `round` | its write jobs in `Engine`; the rest planned |
| block hub, event stream (`block.rs`, `v2.rs`) | blocks, revisions, subscribers | `record`, `publish`, `expire`, `subscribe` | planned |
| ubus client and listener (`ubus/`) | connection, ids, sequence number | `call`, `request`, `run_once`, `debounce` | planned |
| journal, write lock, watchdog, startup, sessions, SMS, AT, counters | see `PROJECT.json` | | planned |
| parsers, projections, display text, codec | none | pure functions | not modelled |

How they interact: a request reaches `/control`; with a `source` it becomes a
transaction of the engine, without one it is a legacy write that runs at once,
supersedes the running transaction, or waits in the legacy queue.  Both hand
jobs to the one executor, which makes the ubus calls.  The engine saves what it
intends before it touches the device, reads the device back through the
executor until the change is confirmed or its time is up, and saves what came
of it.  The runtime is multi-threaded, so steps of two tasks interleave at any
await and at any unlock.

The hard behaviours are in `PROJECT.json` under `hazards`, each at its line.

## 2. Modules

**`Txn`** holds the transaction as a record and every function of `txn.rs` that
changes one as an operator from record to record; an operator that also returns
a verdict returns it in the phase.  A value, a SIM identity and an address are
members of small sets; a clock is a number of ticks.  `Since` is the code's
`saturating_sub`.  The step and notice texts are left out.  The intent
`NoVerify` is not produced: no entry of `ops/spec.rs` asks for it.

**`TxnLife`** is one transaction from its first save to its end.  Its variables
are the transaction in memory, the copy in `pending.json`, the driver's place
in its loop, the clock and the boot.  `Judge` is the driver's round with a
reading, `JudgeNothing` the one whose read failed; `CheckRollback`,
`WriteRollback` and `RollbackReturns` are `send_rollback` cut at its awaits.
`Crash` loses the memory, `Reboot` also the clock, `Start` is `Engine::start`.
The action of a saved transaction is taken to be still in the table of
`ops/spec.rs`.  A section's saves are taken to succeed, and to be one step; what
happens when they fail or a crash cuts them in two is `Engine`'s subject.

**`Engine`** is the whole engine: several calls of `submit`, a driver per
transaction, the user's decisions, writers from outside, the executor's job
queue and the device.  An action is what happens between two awaits.  File
operations of one critical section are queued in `io` and carried out one by
one by `Flush`, so that a crash can fall between any two; nothing else takes
the lock until they are done (`Locked` says that it is free).

A file operation may fail, or the store may have no directory: the code logs a
line and goes on, device write included (`pending.rs` 52-96).  `FlushFails` is
that operation, `StartBlind` a start that cannot open the directory or read
`pending.json`, `StartUnmarked` one that cannot remove the takeover marker.  Two
history variables tell what this costs: `meant` is what `pending.json` would
hold had no operation on it failed since the last start, and `forgot` says that
the service was stopped or started while the file held something else.  The
code gives up resuming in that case (`pending.rs` line 3), so `WrittenOnce`,
`UndoTargetKept`, `VerdictStands` and the refinement are stated up to it.

A reading is two steps, the network call and the SIM call (`ops/mod.rs`
288-290), and either may fail; the data path read after them belongs to
`TxnLife`, whose `Judge` takes a reading and its probe as one moment.  `Execute` makes
the device call of the first job, with success, failure, or a timeout that may
or may not have taken effect; `LateEffect` is a timed-out write that lands
later.  `Disconnect` drops the future of a `submit` whose client is gone.

**`OneChange`** is what the engine promises its callers: at most one change
owns the device, another one may replace it only as a whole, and one that has
ended is never the owner again, until a restart goes by a file that is not up to
date (`lost`).  `Engine` refines it with the change that `pending.json` names
as the owner (`meant`): a crash at any moment resumes exactly that.  A change
has ended there when its removal from `pending.json` is done or has failed, not
when its result is saved: see `EngineKeep` for the time between.

**`LegacyQueue`** is the queue of requests without a source, the task that
drains it with its `draining` flag (`Kick`, `Pick`, `Release`, `Recheck`,
`Grab`, `Run`, `Requeue` are the stretches between its locks and its await),
and the session lease.  The transaction is reduced to what the queue sees of
it: none, counting, or not to be superseded.  Times are ages.

`MCTxnLife`, `MCEngine` and `MCLegacyQueue` give the constants their values.
`TxnProofs` holds the theorems.

## 3. What the runs check

Runs that pass:

| Run | Question | Bounds |
|---|---|---|
| `TxnLife` | Over crashes and reboots at any step: one rollback at most (`RollbackOnce`), only a wanted one (`RollbackWanted`), none for a change reported as not applied (`IgnoredUntouched`); an ended change is not resumed (`EndedForGood`); no time of an earlier boot is used in a later one (`NoFutureTimes`); a reboot loop is cut on the second boot (`RebootsBounded`); a verdict rests on the one reading it was made on: value, registration, SIM, and for a data path the probe answered with that reading (`EndsOnEvidence`). | deadline of 2 ticks; either 2 crashes, 2 reboots, clock to 4, or the data path: 1 crash, 1 reboot, 2 addresses, probe rounds of 2 tries, clock to 3 |
| `EngineWrites` | Each change is written once and rolled back once at most over crashes (`WrittenOnce`), with the intent saved first, and on disk unless a file operation failed (`IntentOnDisk`); whenever the lock is free and the last operation on `pending.json` succeeded, disk and memory agree on everything but what readings have told since the last save (`DiskFollows`); an override keeps the undo target (`UndoTargetKept`); a verdict is not followed by a rollback (`VerdictStands`); a running change has somebody who drives it (`Driven`); the engine implements `OneChange`. | 2 changes, 2 disturbances out of 1 crash, 1 fault, 2 reverts, 1 cut-in or legacy write, 1 disconnect, 1 failed file operation; others set one value |
| `EngineEnds` | No admitted change stays in progress for ever (`EveryChangeEnds`). | 1 change, 3 disturbances out of 1 crash, 2 faults, 1 revert, 1 cut-in or legacy write, 1 failed file operation |
| `LegacyQueue` | One queued request per item (`OnePerItem`), each given to the executor once (`RunOnce`); the draining flag is up exactly while one task drains (`FlagMatchesTask`); no lost wake-up (`NobodyForgotten`); a session excludes a transaction and has its watcher (`SessionAlone`); a lapsed session is not brought back by a late renewal (`LapsedStays`). | 3 requests, 2 transactions or sessions, 1 full executor, 1 clear, 2 drain tasks |
| `LegacyDrains` | A session ends however often it is renewed (`SessionEnds`); a queued request leaves the queue (`QueueDrains`). | 2 requests, 1 session |

Why the bounds are enough: a second crash or reboot is what resuming a resumed
change needs, and a third boot is never reached by a waiting change
(`RebootsBounded`).  A deadline of two ticks has a time before, at and after it.
Two changes are what an override needs, and a third would meet the second as
the second met the first.  Three requests of one item are one popped, one
queued and one arriving.  One failed file operation and one crash are what it
takes for a restart to go by a stale file.  In `EngineWrites` writers from
outside set one value (the second change's target, foreign to the first); in
`EngineEnds` they set any.  `spec.rs` has one item that legacy requests are
queued for.

Deadlock is not checked: in every one of these models the bounds on
disturbances and time run out, and a change that has ended leaves nothing to do.

Runs that TLC refutes, each a place where the code does something other than a
document, comment or test says (quoted in `PROJECT.json` under `findings`):

| Run | What happens |
|---|---|
| `EngineDisconnect` | `submit` runs in the request's own future.  A client that disconnects while the write is at the executor takes the future with it, after the change was admitted and before its driver was spawned: the change stays in `Applying` until a restart. |
| `EngineLateRollback` | `send_rollback` checks under the lock and writes after it; a cancellation in between does not stop the write. |
| `EngineKeep` | `keep` saves `last.json` and then removes `pending.json`.  A crash between the two resumes the kept change, and its deadline rolls back what `last.json` calls confirmed. |
| `EngineResend` | `find` does not look at the loaded last result, so an `op_id` sent again after a restart is carried out again. |
| `EngineUndoTarget` | `submit` reads the old value before it takes the lock for good; if the running change ends in between, its unconfirmed value becomes the undo target. |
| `TxnLifeForget` | `ever_matched` is saved only every `SEEN_SAVE_MS`; a restart before that forgets it and the change may end as not applied. |
| `LegacyNewest` | A legacy request that supersedes the running change passes while an older one of the same item is queued; that one can then be written after it. |

More windows were seen in the models and have no run of their own.  `drive` and
`start` clear `pending.json` (`engine.rs` 424) before they save `last.json`
(`engine.rs` 326), and a crash in between loses the result.  `preempt`,
`other_write` and `interrupt` save first, as `keep` does, and a crash in between
resumes a change whose cancellation is saved.  A crash after a save of the
rollback intent has failed lets a restart decide on the rollback once more
(`WrittenOnce` excepts it).  And a request the drain task holds while a
safety write clears the queue is put back when the executor is full
(`engine.rs` 1049).

### Fairness

`EngineEnds`, `EngineDisconnect` and `LegacyDrains` use weak fairness only, per
task: tokio schedules a ready task, the executor takes the next job and every
device call has a time limit (`executor.rs`, `CALL_LIMIT`), a file operation
returns, time passes, and the init system restarts the service.  Nothing is
assumed of the user, of clients, or of an agent that should close its session.
Of the device it is assumed that its faults are finitely many, as the bounds
make them: the code holds a rollback back while the SIM cannot be read or reads
fail (`engine.rs` 862), so a change whose reads fail for ever stays in
`RollingBack`, and `EveryChangeEnds` says nothing about it.  For the SIM the
condition is part of the property.  The crashes and failed file operations are
finitely many too.  `LegacyQueue` assumes that every transaction ends:
`EngineEnds` shows that when no client disconnects, and `EngineDisconnect` shows
that a dropped `submit` leaves one that does not, which then holds the queue up
until a restart.

## 4. What is proved

`TxnProofs` proves about `TxnLife`, for any values, SIMs, addresses, deadlines,
probe limits, readings and numbers of crashes and boots:

| Theorem | Says |
|---|---|
| `TypeCorrect` | `TypeOK` always holds |
| `Invariant` | the inductive invariant `IInv` always holds |
| `RollsBackOnce` | `RollbackOnce` |
| `RollsBackOnlyIfWanted` | `RollbackWanted` |
| `IgnoredIsUntouched` | `IgnoredUntouched` |
| `EndsForGood` | `EndedForGood` |

The assumptions are `TxnAssumption` and `LifeAssumption`: `None` is no value,
and the constants have their types.  The premise of `TxnLife` itself is that the
saves succeed.

`RollbackOnce` is not inductive: what keeps a second rollback from being sent
is spread over the memory, the file and the driver.  `IInv` adds that the
driver's place in `send_rollback` tells whether the write went out (`CountOK`);
that from the moment a rollback is decided on, memory and file know of nothing
but the way back, so that a restart cannot return to verifying (`OnlyBack`);
that a rollback intent outlives the write only until the call returns
(`IntentSpent`), and `resume` takes an intent found on disk as spent; that
whoever wanted the rollback is still on record (`WishKept`); and that a stopped
service or a change not begun has no state (`Stopped`, `Unbegun`).  The proof
goes operator by operator (each `...Type` lemma: the record keeps its type;
each `...Good` lemma: no operator leaves the way back or enters it unwanted)
and then action by action.

Only model-checked: liveness, `NoFutureTimes`, `RebootsBounded`,
`EndsOnEvidence`, everything about `Engine` (the refinement included) and
`LegacyQueue`.

## 5. Not modelled

- Inside the modelled parts: the texts for the screen, `ack` and the notices,
  the owner record and the journal lines, an action that is gone from the table
  of `ops/spec.rs` when its transaction is resumed, the session gate at `submit`
  (`Engine` has no session; `LegacyQueue` keeps the two apart).
- The parts listed as planned below, and in `PROJECT.json` with their reason.
- Parsers, projections, display text and the blob codec: pure functions.

## 6. Plan

1. `Store`: `write_atomic` as write, sync, rename, sync of the directory, with a
   crash between any two, shown to implement the one-step file operation that
   `Engine` uses; `last.json`, `ack` and the takeover marker with it.
2. `Executor`: job queue of 8, rounds and safe points, the gate and its probes,
   the watchdog.  Abstract: a FIFO server.
3. `Hub`: blocks, revisions, publish, expire, heartbeat, subscription and lag;
   a subscriber that applies what it gets agrees with the hub.
4. `UbusClient` and `Listen`: resend once, stale ids, sequence wrap, a late
   answer; debounce and reconnect.
5. `Record` and `WriteLock`: dropped lines, owners, rotation; the lock's
   fall-through.
6. Startup and shutdown, the session token, the SMS send loop, caches of
   `state.rs`, the cell window and the counters.
7. Proofs: `NoFutureTimes` and `RebootsBounded` for `TxnLife`; the flag and
   queue invariants of `LegacyQueue`; safety of `Executor` and `Hub`; the
   refinement of `OneChange`.
