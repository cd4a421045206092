------------------------------- MODULE Engine -------------------------------
(***************************************************************************)
(* The transaction engine of rust/src/ops/engine.rs: several submitters,   *)
(* one driver task per change, the user's revert and keep, writes that cut *)
(* in, the executor that performs device writes one at a time, the two     *)
(* files of pending.rs, crashes and restarts.                              *)
(*                                                                         *)
(* A step that takes the engine's lock decides everything at once, as the  *)
(* code does under its mutex, and leaves the file operations it makes      *)
(* under the lock in io.  They reach the disk one at a time (Flush); no    *)
(* other step can take the lock before, and a crash in between loses the   *)
(* rest.  A file operation may also fail (FlushFails): the store only logs *)
(* it and the engine goes on as if it had been done.  Device reads and     *)
(* writes happen with the lock released; a read is two calls.              *)
(*                                                                         *)
(* The transactions are those of Txn, with registration standing for all   *)
(* of the confirmation (no data expected, hence no probe): the data path   *)
(* and reboots are the subject of TxnLife.                                 *)
(***************************************************************************)
EXTENDS Txn, Sequences, FiniteSets

CONSTANTS
  Calls,         \* submitted requests
  Req,           \* Req[c] = [op, target, source], the body of request c
  OtherValues,   \* values that requests without a source, the emergency
                 \* writer and people at the device set
  RollbackOn,    \* Config::rollback
  Recent,        \* RECENT
  SeenSave,      \* SEEN_SAVE_MS
  MaxCrashes,    \* bound: crashes
  MaxFaults,     \* bound: failed reads and changes nobody asked for
  MaxReverts,    \* bound: op.revert by the user
  MaxCuts,       \* bound: writes and requests that cut in
  MaxDrops,      \* bound: clients that disconnect
  MaxLosses,     \* bound: file operations and openings of the store that fail
  MaxEvents      \* bound: all of these together

ASSUME EngineAssumption ==
  /\ Req \in [Calls -> [op : Ops, target : Values, source : Source]]
  /\ OtherValues \subseteq Values
  /\ RollbackOn \in BOOLEAN
  /\ Recent \in Nat \ {0} /\ SeenSave \in Nat
  /\ MaxCrashes \in Nat /\ MaxFaults \in Nat
  /\ MaxReverts \in Nat /\ MaxCuts \in Nat /\ MaxDrops \in Nat
  /\ MaxLosses \in Nat /\ MaxEvents \in Nat

VARIABLES
  up,          \* is the service running
  active,      \* St::active
  recent,      \* St::recent, the op ids
  saved_seen,  \* St::saved_seen_ms
  dir,         \* Store::dir: does the service have a directory to save in
  pending,     \* pending.json
  lastfile,    \* last.json: the op and the phase it ended in
  io,          \* file operations of the section that holds the lock
  call,        \* the submit futures
  driver,      \* the drive tasks
  wake,        \* the permit of Inner::wake
  passed,      \* a legacy request between the gate and the executor
  jobs,        \* device writes queued at the executor, in order
  late,        \* writes that timed out and may still take effect
  dev,         \* the device
  takeover,    \* the marker of the emergency writer
  now,         \* BOOTTIME
  budget,      \* what is left of the bounds
  applies,     \* history: device writes sent to apply the change
  rollbacks,   \* history: device writes sent to roll it back
  ended,       \* history: the phase it ended in, once off the disk
  meant,       \* history: what pending.json would hold had nothing failed
               \* since the last start
  forgot       \* history: the service stopped, or started, while that was
               \* not what pending.json held

memory == <<active, recent, saved_seen, io>>
disk == <<dir, pending, lastfile, ended, meant, forgot>>
tasks == <<call, driver, wake, passed>>
device == <<jobs, late, dev, applies, rollbacks>>
vars == <<up, memory, disk, tasks, device, takeover, now, budget>>

CallPc == {"idle", "read", "sim", "admit", "queue", "wait", "applied", "done"}
DriverPc == {"none", "top", "sleep", "sim", "judge", "rbread", "rbsim",
             "rbcheck", "rbqueue", "rbwait", "rbsent"}

NoData == [expected |-> FALSE, connected |-> FALSE,
           conn |-> [addr |-> None, up |-> None]]

Device == [value : Values, registered : BOOLEAN, sim : SimId]

(* The two calls of a read, each in the executor's turn: the network, and  *)
(* the SIM, which completes the reading.                                   *)
NetInfo == [value |-> dev.value, registered |-> dev.registered,
            sim |-> BlankSim, data |-> NoData, probe |-> None]
SimInfo(reading) == [reading EXCEPT !.sim = dev.sim]

IdleCall == [pc |-> "idle", seen |-> None, out |-> None]
DoneCall == [IdleCall EXCEPT !.pc = "done"]
NoDriver == [pc |-> "none", gen |-> 0, back |-> None, seen |-> None]
AtTop == [NoDriver EXCEPT !.pc = "top"]  \* nothing is kept between rounds

InitDevice ==
  [value |-> CHOOSE v \in Values : \A c \in Calls : v # Req[c].target,
   registered |-> TRUE, sim |-> CHOOSE s \in Sims : TRUE]

Budget ==
  [crashes |-> MaxCrashes, faults |-> MaxFaults, reverts |-> MaxReverts,
   cuts |-> MaxCuts, drops |-> MaxDrops, losses |-> MaxLosses,
   events |-> MaxEvents]

Pay(left, what) == [left EXCEPT ![what] = @ - 1, !.events = @ - 1]

(* The service starts with a directory to save in or, as one of the        *)
(* losses, without.                                                        *)
Init ==
  /\ up = TRUE /\ active = None /\ recent = <<>> /\ saved_seen = 0
  /\ \/ dir = TRUE /\ budget = Budget
     \/ /\ dir = FALSE /\ MaxLosses > 0 /\ MaxEvents > 0
        /\ budget = Pay(Budget, "losses")
  /\ pending = None /\ lastfile = None /\ io = <<>>
  /\ call = [c \in Calls |-> IdleCall]
  /\ driver = [op \in Ops |-> NoDriver]
  /\ wake = FALSE /\ passed = None
  /\ jobs = <<>> /\ late = {}
  /\ dev = InitDevice
  /\ takeover = FALSE
  /\ now = 1
  /\ applies = [op \in Ops |-> 0]
  /\ rollbacks = [op \in Ops |-> 0]
  /\ ended = [op \in Ops |-> None]
  /\ meant = None /\ forgot = FALSE

Spend(what) ==
  /\ budget[what] > 0 /\ budget.events > 0
  /\ budget' = Pay(budget, what)

-----------------------------------------------------------------------------
(* The lock and the files *)

Locked == up /\ io = <<>>

FileOp(file, t, content) ==
  [file |-> file, op |-> t.op, phase |-> t.phase, txn |-> content]

SavePending(t) == FileOp("pending", t, t)
ClearPending(t) == FileOp("pending", t, None)
SaveLast(t) == FileOp("last", t, None)

(* What an operation on pending.json says, whether or not it is done: a    *)
(* change has ended for good when pending.json is no longer to name it.    *)
Meant(w) ==
  /\ meant' = w.txn
  /\ ended' = IF meant # None /\ (w.txn = None \/ w.op # meant.op)
              THEN [ended EXCEPT ![meant.op] =
                      IF w.txn = None THEN w.phase ELSE "Cancelled"]
              ELSE ended

(* One file operation of the section that holds the lock comes to its end. *)
FileOpEnds(done) ==
  /\ up /\ io # <<>>
  /\ io' = Tail(io)
  /\ LET w == Head(io)
     IN  IF w.file = "last"
         THEN /\ lastfile' = IF done THEN [op |-> w.op, phase |-> w.phase]
                             ELSE lastfile
              /\ UNCHANGED <<pending, ended, meant>>
         ELSE /\ pending' = IF done THEN w.txn ELSE pending
              /\ Meant(w)
              /\ UNCHANGED lastfile
  /\ UNCHANGED <<up, active, recent, saved_seen, dir, forgot, tasks, device,
                 takeover, now>>

Flush == dir /\ FileOpEnds(TRUE) /\ UNCHANGED budget

(* It fails, or there is no directory: a line in the log, nothing else.    *)
FlushFails ==
  /\ FileOpEnds(FALSE)
  /\ IF dir THEN Spend("losses") ELSE UNCHANGED budget

Live(op) == active # None /\ active.op = op

Known(op) == Live(op) \/ \E i \in DOMAIN recent : recent[i] = op

Remember(op) ==
  Append(IF Len(recent) >= Recent THEN Tail(recent) ELSE recent, op)

(* Mutant: the finished transaction is saved once more after the clear. *)
FinishThenSave(t) ==
  /\ active' = None
  /\ recent' = Remember(t.op)
  /\ io' = <<SaveLast(t), ClearPending(t), SavePending(t)>>
  /\ UNCHANGED saved_seen

(* finish of a transaction that is final: retire, then clear. *)
FinishWith(t) ==
  /\ active' = None
  /\ recent' = Remember(t.op)
  /\ io' = <<SaveLast(t), ClearPending(t)>>
  /\ UNCHANGED saved_seen

(* Mutant: a forced save waits for the interval like any other. *)
PersistLazily(t, force) ==
  /\ active' = t
  /\ IF Since(t.seen, saved_seen) >= SeenSave
     THEN io' = <<SavePending(t)>> /\ saved_seen' = t.seen
     ELSE UNCHANGED <<io, saved_seen>>
  /\ UNCHANGED recent

(* persist of a transaction that is not final. *)
Persist(t, force) ==
  /\ active' = t
  /\ IF force \/ Since(t.seen, saved_seen) >= SeenSave
     THEN io' = <<SavePending(t)>> /\ saved_seen' = t.seen
     ELSE UNCHANGED <<io, saved_seen>>
  /\ UNCHANGED recent

(* persist, then finish, as drive and start do: a transaction that became  *)
(* final is cleared before its result is saved.                            *)
Settle(t, force) ==
  IF IsFinal(t)
  THEN /\ active' = None
       /\ recent' = Remember(t.op)
       /\ io' = <<ClearPending(t), SaveLast(t), ClearPending(t)>>
       /\ UNCHANGED saved_seen
  ELSE Persist(t, force)

-----------------------------------------------------------------------------
(* submit *)

(* overridable: the item is always the same. *)
Overridable(t, source) == MayOverride(source) /\ Counting(t)

Admitted(c) ==
  /\ ~Known(Req[c].op)
  /\ active # None => Overridable(active, Req[c].source)

SetCall(c, pc) == call' = [call EXCEPT ![c].pc = pc]

(* The first look under the lock. *)
SubmitCheck(c) ==
  /\ Locked /\ call[c].pc = "idle"
  /\ SetCall(c, IF Admitted(c) THEN "read" ELSE "done")
  /\ UNCHANGED <<up, memory, disk, driver, wake, passed, device, takeover, now,
                 budget>>

(* The read before the write, call by call; the executor does a call in    *)
(* its turn.                                                               *)
SubmitReads(c, from, to, reading) ==
  /\ up /\ call[c].pc = from /\ jobs = <<>>
  /\ \/ /\ call' = [call EXCEPT ![c].pc = to, ![c].seen = reading]
        /\ UNCHANGED budget
     \/ /\ Spend("faults")
        /\ call' = [call EXCEPT ![c] = DoneCall]
  /\ UNCHANGED <<up, memory, disk, driver, wake, passed, device, takeover, now>>

SubmitRead(c) == SubmitReads(c, "read", "sim", NetInfo)

SubmitReadSim(c) ==
  call[c].pc = "sim" /\ SubmitReads(c, "sim", "admit", SimInfo(call[c].seen))

(* Mutant: an overriding change goes back to the value it saw. *)
UndoTargetSeen(seen) == seen.value

(* What to go back to: the value captured, or what an overridden change    *)
(* was to go back to (D35).                                                *)
UndoTarget(seen) == IF active = None THEN seen.value ELSE active.rollback_to

(* The second section: decide again, override, save the write intent. *)
SubmitAdmit(c) ==
  /\ Locked /\ call[c].pc = "admit"
  /\ IF ~Admitted(c)
     THEN call' = [call EXCEPT ![c] = DoneCall] /\ UNCHANGED memory
     ELSE LET r == Req[c]
              seen == call[c].seen
              new == [op |-> r.op, source |-> r.source, target |-> r.target,
                      old |-> seen.value, rollback_to |-> UndoTarget(seen),
                      sim |-> seen.sim, conn |-> None, boot |-> 0,
                      confirm |-> "Registered",
                      rollback_enabled |-> RollbackOn /\ r.source # "Legacy"]
              t == BeginApply(NewTxn(new, now))
          IN  /\ call' = [call EXCEPT ![c].pc = "queue", ![c].seen = None]
              /\ active' = t
              /\ saved_seen' = t.seen
              /\ IF active = None
                 THEN io' = <<SavePending(t)>> /\ UNCHANGED recent
                 ELSE LET old == Cancel(active, "Superseded")
                      IN  /\ recent' = Remember(old.op)
                          /\ io' = <<SaveLast(old), SavePending(t)>>
  /\ UNCHANGED <<up, disk, driver, wake, passed, device, takeover, now, budget>>

Job(kind, op, who, value) ==
  [kind |-> kind, op |-> op, who |-> who, value |-> value]

(* Mutant: the write goes out while its intent is still being saved. *)
SubmitQueueEarly(c) ==
  /\ up /\ call[c].pc = "queue"
  /\ SetCall(c, "wait")
  /\ jobs' = Append(jobs, Job("apply", Req[c].op, c, Req[c].target))
  /\ UNCHANGED <<up, memory, disk, driver, wake, passed, late, dev, applies,
                 rollbacks, takeover, now, budget>>

(* The lock is released, the write goes to the executor. *)
SubmitQueue(c) ==
  /\ Locked /\ call[c].pc = "queue"
  /\ SetCall(c, "wait")
  /\ jobs' = Append(jobs, Job("apply", Req[c].op, c, Req[c].target))
  /\ UNCHANGED <<up, memory, disk, driver, wake, passed, late, dev, applies,
                 rollbacks, takeover, now, budget>>

(* The third section: the write came back, the driver takes over. *)
SubmitApplied(c) ==
  /\ Locked /\ call[c].pc = "applied"
  /\ call' = [call EXCEPT ![c] = DoneCall]
  /\ IF Live(Req[c].op)
     THEN /\ Persist(ApplyReturned(active, call[c].out, now), TRUE)
          /\ driver' = [driver EXCEPT ![Req[c].op] = AtTop]
     ELSE /\ IF active = None THEN UNCHANGED memory ELSE Persist(active, TRUE)
          /\ UNCHANGED driver
  /\ UNCHANGED <<up, disk, wake, passed, device, takeover, now, budget>>

(* The client goes away and its future is dropped at the await it is in.   *)
(* A write already queued is still done, its result goes nowhere.          *)
Disconnect(c) ==
  /\ up /\ call[c].pc \in {"read", "sim", "admit", "wait", "applied"}
  /\ Spend("drops")
  /\ call' = [call EXCEPT ![c] = DoneCall]
  /\ UNCHANGED <<up, memory, disk, driver, wake, passed, device, takeover, now>>

-----------------------------------------------------------------------------
(* drive *)

SetDriver(op, d) == driver' = [driver EXCEPT ![op] = d]

DriverAt(op, pc) == SetDriver(op, [driver[op] EXCEPT !.pc = pc])

RollbackDue(t) == t.phase = "RollingBack" /\ t.intent = "Rollback"

(* The top of the loop, with the save that send_rollback starts with. *)
DriverTop(op) ==
  /\ Locked /\ driver[op].pc = "top"
  /\ IF ~Live(op)
     THEN SetDriver(op, NoDriver) /\ UNCHANGED memory
     ELSE LET round == [AtTop EXCEPT !.gen = active.generation]
          IN  IF RollbackDue(active)
              THEN /\ SetDriver(op, [round EXCEPT !.pc = "rbread",
                                                  !.back = active.rollback_to])
                   /\ Persist(active, TRUE)
              ELSE /\ SetDriver(op, [round EXCEPT !.pc = "sleep"])
                   /\ UNCHANGED memory
  /\ UNCHANGED <<up, disk, call, wake, passed, device, takeover, now, budget>>

(* select!: the permit of wake, or the poll interval followed by a read. *)
DriverWoken(op) ==
  /\ up /\ driver[op].pc = "sleep" /\ wake
  /\ wake' = FALSE
  /\ SetDriver(op, AtTop)
  /\ UNCHANGED <<up, memory, disk, call, passed, device, takeover, now, budget>>

(* A call of a read of the driver: it succeeds, or the whole read fails. *)
DriverReads(op, from, to, reading, failed) ==
  /\ up /\ driver[op].pc = from /\ jobs = <<>>
  /\ \/ /\ driver' = [driver EXCEPT ![op].pc = to, ![op].seen = reading]
        /\ UNCHANGED budget
     \/ /\ Spend("faults")
        /\ driver' = [driver EXCEPT ![op].pc = failed, ![op].seen = None]
  /\ UNCHANGED <<up, memory, disk, call, wake, passed, device, takeover, now>>

DriverReadsSim(op, from, to) ==
  /\ driver[op].pc = from
  /\ DriverReads(op, from, to, SimInfo(driver[op].seen), to)

DriverRead(op) == DriverReads(op, "sleep", "sim", NetInfo, "judge")
DriverReadSim(op) == DriverReadsSim(op, "sim", "judge")

(* The reading is judged, unless the phase changed since the top. *)
DriverJudge(op) ==
  /\ Locked /\ driver[op].pc = "judge"
  /\ IF ~Live(op)
     THEN SetDriver(op, NoDriver) /\ UNCHANGED memory
     ELSE /\ SetDriver(op, AtTop)
          /\ IF active.generation # driver[op].gen
             THEN UNCHANGED memory
             ELSE LET t == IF driver[op].seen = None THEN OnTick(active, now)
                           ELSE OnReading(active, driver[op].seen, now)
                  IN  Settle(t, t.generation # active.generation)
  /\ UNCHANGED <<up, disk, call, wake, passed, device, takeover, now, budget>>

RollbackRead(op) == DriverReads(op, "rbread", "rbsim", NetInfo, "rbcheck")
RollbackReadSim(op) == DriverReadsSim(op, "rbsim", "rbcheck")

(* send_rollback: the SIM check under the lock. *)
RollbackCheck(op) ==
  /\ Locked /\ driver[op].pc = "rbcheck"
  /\ LET check == IF driver[op].seen = None THEN "Unknown"
                  ELSE SimCheck(active.sim, driver[op].seen.sim)
         on(pc) == [driver[op] EXCEPT !.seen = None, !.pc = pc]
     IN  CASE ~Live(op) ->
                SetDriver(op, AtTop) /\ UNCHANGED memory
           [] Live(op) /\ check = "Changed" ->
                SetDriver(op, AtTop) /\ FinishWith(Cancel(active, "SimChanged"))
           [] Live(op) /\ check = "Unknown" ->
                SetDriver(op, on("sleep")) /\ UNCHANGED memory
           [] Live(op) /\ check = "Same" ->
                SetDriver(op, on("rbqueue")) /\ UNCHANGED memory
  /\ UNCHANGED <<up, disk, call, wake, passed, device, takeover, now, budget>>

(* Mutant: the value kept for the write is not the one written. *)
RollbackQueueSeen(op) ==
  /\ up /\ driver[op].pc = "rbqueue"
  /\ DriverAt(op, "rbwait")
  /\ jobs' = Append(jobs, Job("rollback", op, None, driver[op].seen))
  /\ UNCHANGED <<up, memory, disk, call, wake, passed, late, dev, applies,
                 rollbacks, takeover, now, budget>>

(* The lock is released, then the write goes to the executor, with the     *)
(* value read at the top of the loop.                                      *)
RollbackQueue(op) ==
  /\ up /\ driver[op].pc = "rbqueue"
  /\ DriverAt(op, "rbwait")
  /\ jobs' = Append(jobs, Job("rollback", op, None, driver[op].back))
  /\ UNCHANGED <<up, memory, disk, call, wake, passed, late, dev, applies,
                 rollbacks, takeover, now, budget>>

RollbackReturned(op) ==
  /\ Locked /\ driver[op].pc = "rbsent"
  /\ SetDriver(op, AtTop)
  /\ IF Live(op) THEN Persist(RollbackSent(active, now), TRUE)
     ELSE UNCHANGED memory
  /\ UNCHANGED <<up, disk, call, wake, passed, device, takeover, now, budget>>

-----------------------------------------------------------------------------
(* op.revert, op.keep and what cuts in *)

UserRevert ==
  /\ Locked /\ active # None /\ CanDecide(active)
  /\ Spend("reverts")
  /\ Persist(Revert(active), TRUE)
  /\ wake' = TRUE
  /\ UNCHANGED <<up, disk, call, passed, driver, device, takeover, now>>

UserKeep ==
  /\ Locked /\ active # None /\ CanDecide(active)
  /\ FinishWith(Keep(active))
  /\ UNCHANGED <<up, disk, tasks, device, takeover, now, budget>>

(* preempt by a safety write; other_write and interrupt by the user.  What *)
(* they write is not the item of the transaction.                          *)
CutIn(why) ==
  /\ Locked /\ active # None /\ Spend("cuts")
  /\ FinishWith(Cancel(active, why))
  /\ UNCHANGED <<up, disk, tasks, device, takeover, now>>

(* A request without a source that legacy_gate lets pass: it supersedes a  *)
(* waiting transaction.                                                    *)
LegacyPass(v) ==
  /\ Locked /\ passed = None /\ Spend("cuts")
  /\ active # None => Counting(active)
  /\ IF active = None THEN UNCHANGED memory
     ELSE FinishWith(Cancel(active, "Superseded"))
  /\ passed' = v
  /\ UNCHANGED <<up, disk, call, driver, wake, device, takeover, now>>

(* It goes to the executor as a plain write, without asking again. *)
LegacyQueue ==
  /\ Locked /\ passed # None
  /\ passed' = None
  /\ jobs' = Append(jobs, Job("legacy", None, None, passed))
  /\ UNCHANGED <<up, memory, disk, call, driver, wake, late, dev, applies,
                 rollbacks, takeover, now, budget>>

-----------------------------------------------------------------------------
(* The executor and the device *)

Bump(counts, op, yes) == IF yes THEN [counts EXCEPT ![op] = @ + 1] ELSE counts

(* One queued write is performed: done, refused, or timed out with its     *)
(* effect still to come or never to come.                                  *)
Execute(outcome) ==
  /\ up /\ jobs # <<>>
  /\ LET j == Head(jobs)
     IN  /\ dev' = IF outcome = "Done" THEN [dev EXCEPT !.value = j.value]
                   ELSE dev
         /\ late' = IF outcome = "Unknown" THEN late \cup {j.value} ELSE late
         /\ applies' = Bump(applies, j.op, j.kind = "apply")
         /\ rollbacks' = Bump(rollbacks, j.op, j.kind = "rollback")
         /\ call' = IF j.kind = "apply" /\ call[j.who].pc = "wait"
                    THEN [call EXCEPT ![j.who].pc = "applied",
                                      ![j.who].out = outcome]
                    ELSE call
         /\ driver' = IF j.kind = "rollback"
                      THEN [driver EXCEPT ![j.op].pc = "rbsent",
                                          ![j.op].back = None]
                      ELSE driver
  /\ jobs' = Tail(jobs)
  /\ IF outcome = "Done" THEN UNCHANGED budget ELSE Spend("faults")
  /\ UNCHANGED <<up, memory, disk, wake, passed, takeover, now>>

LateEffect(v) ==
  /\ v \in late
  /\ late' = late \ {v}
  /\ dev' = [dev EXCEPT !.value = v]
  /\ UNCHANGED <<up, memory, disk, tasks, jobs, applies, rollbacks, takeover,
                 now, budget>>

(* Something outside the service changes the device: it loses or finds     *)
(* the network, the SIM is swapped or read blank, somebody sets the item.  *)
DeviceChanges ==
  /\ Spend("faults")
  /\ \/ dev' = [dev EXCEPT !.registered = ~@]
     \/ \E s \in SimId \ {dev.sim} : dev' = [dev EXCEPT !.sim = s]
     \/ \E v \in OtherValues \ {dev.value} : dev' = [dev EXCEPT !.value = v]
  /\ UNCHANGED <<up, memory, disk, tasks, jobs, late, applies, rollbacks,
                 takeover, now>>

(* The clock matters only to a transaction whose deadline is running. *)
Tick ==
  /\ LET t == IF up THEN active ELSE pending
     IN  t # None /\ Waiting(t) /\ Since(now, t.wait_start) < Deadline
  /\ now' = now + 1
  /\ UNCHANGED <<up, memory, disk, tasks, device, takeover, budget>>

-----------------------------------------------------------------------------
(* Crash, emergency write, restart *)

Crash ==
  /\ up /\ Spend("crashes")
  /\ up' = FALSE
  /\ active' = None /\ recent' = <<>> /\ saved_seen' = 0 /\ io' = <<>>
  /\ call' = [c \in Calls |-> IF call[c].pc = "idle" THEN IdleCall
                              ELSE DoneCall]
  /\ driver' = [op \in Ops |-> NoDriver]
  /\ wake' = FALSE /\ passed' = None
  /\ jobs' = <<>>
  /\ meant' = pending
  /\ forgot' = (forgot \/ meant # pending)
  /\ UNCHANGED <<dir, pending, lastfile, ended, late, dev, applies, rollbacks,
                 takeover, now>>

(* The emergency writer changes the item behind the stopped service. *)
EmergencyWrite(v) ==
  /\ ~up /\ Spend("cuts")
  /\ takeover' = TRUE
  /\ dev' = [dev EXCEPT !.value = v]
  /\ UNCHANGED <<up, memory, disk, tasks, jobs, late, applies, rollbacks, now>>

(* Mutant: nobody drives the resumed transaction. *)
RestartUndriven(marked) ==
  /\ ~up
  /\ up' = TRUE
  /\ dir' = TRUE
  /\ IF pending = None
     THEN UNCHANGED <<memory, driver>>
     ELSE LET t == IF marked THEN Cancel(pending, "Takeover")
                   ELSE Resume(pending, 0, now)
          IN  Settle(t, TRUE) /\ UNCHANGED driver
  /\ UNCHANGED <<pending, lastfile, ended, meant, forgot, call, wake, passed,
                 device, now>>

(* start, with the takeover marker found or not. *)
Restart(marked) ==
  /\ ~up
  /\ up' = TRUE
  /\ dir' = TRUE
  /\ IF pending = None
     THEN UNCHANGED <<memory, driver>>
     ELSE LET t == IF marked THEN Cancel(pending, "Takeover")
                   ELSE Resume(pending, 0, now)
          IN  /\ Settle(t, TRUE)
              /\ driver' = IF IsFinal(t) THEN driver
                           ELSE [driver EXCEPT ![t.op] = AtTop]
  /\ UNCHANGED <<pending, lastfile, ended, meant, forgot, call, wake, passed,
                 device, now>>

Start == Restart(takeover) /\ takeover' = FALSE /\ UNCHANGED budget

(* The marker cannot be removed, which counts as no marker. *)
StartUnmarked ==
  takeover /\ Spend("losses") /\ Restart(FALSE) /\ UNCHANGED takeover

(* The directory cannot be used (then the marker stays, too), or           *)
(* pending.json cannot be read: the service starts as if nothing had been  *)
(* in progress.                                                            *)
StartBlind ==
  /\ ~up /\ Spend("losses")
  /\ up' = TRUE
  /\ dir' \in BOOLEAN
  /\ takeover' = (takeover /\ ~dir')
  /\ meant' = None
  /\ forgot' = (forgot \/ pending # None)
  /\ UNCHANGED <<memory, pending, lastfile, ended, tasks, device, now>>

-----------------------------------------------------------------------------
CallStep(c) ==
  \/ SubmitCheck(c) \/ SubmitRead(c) \/ SubmitReadSim(c) \/ SubmitAdmit(c)
  \/ SubmitQueue(c) \/ SubmitApplied(c)

DriverStep(op) ==
  \/ DriverTop(op) \/ DriverWoken(op) \/ DriverRead(op) \/ DriverReadSim(op)
  \/ DriverJudge(op) \/ RollbackRead(op) \/ RollbackReadSim(op)
  \/ RollbackCheck(op) \/ RollbackQueue(op) \/ RollbackReturned(op)

Next ==
  \/ Flush \/ FlushFails
  \/ \E c \in Calls : CallStep(c) \/ Disconnect(c)
  \/ \E op \in Ops : DriverStep(op)
  \/ UserRevert
  \/ UserKeep
  \/ \E why \in {"Preempted", "OtherChange"} : CutIn(why)
  \/ \E v \in OtherValues : LegacyPass(v) \/ EmergencyWrite(v)
  \/ LegacyQueue
  \/ \E outcome \in Applied : Execute(outcome)
  \/ \E v \in Values : LateEffect(v)
  \/ DeviceChanges
  \/ Tick
  \/ Crash
  \/ Start \/ StartUnmarked \/ StartBlind

Spec == Init /\ [][Next]_vars

(* Tasks and the executor are scheduled, file operations return, time      *)
(* passes, and the init system restarts the service.                       *)
Fairness ==
  /\ WF_vars(Flush \/ FlushFails) /\ WF_vars(LegacyQueue) /\ WF_vars(Tick)
  /\ WF_vars(Start \/ StartUnmarked \/ StartBlind)
  /\ \A c \in Calls : WF_vars(CallStep(c))
  /\ \A op \in Ops : WF_vars(DriverStep(op))
  /\ WF_vars(\E outcome \in Applied : Execute(outcome))

FairSpec == Spec /\ Fairness

-----------------------------------------------------------------------------
(* Properties *)

TypeOK ==
  /\ up \in BOOLEAN
  /\ active \in Txn \cup {None}
  /\ pending \in Txn \cup {None}
  /\ \A i \in DOMAIN recent : recent[i] \in Ops
  /\ lastfile \in [op : Ops, phase : FinalPhase] \cup {None}
  /\ dir \in BOOLEAN /\ forgot \in BOOLEAN /\ meant \in Txn \cup {None}
  /\ \A i \in DOMAIN io : io[i].op \in Ops /\ io[i].txn \in Txn \cup {None}
  /\ \A c \in Calls : call[c].pc \in CallPc
  /\ \A op \in Ops : driver[op].pc \in DriverPc
  /\ dev \in Device

(* Over crashes and restarts a change is written to the device at most     *)
(* once, and rolled back at most once (D31: nothing is done again), unless *)
(* a restart went by a file whose last save or removal had failed: the     *)
(* store only logs that, and the device is written all the same.           *)
WrittenOnce ==
  ~forgot => \A op \in Ops : applies[op] <= 1 /\ rollbacks[op] <= 1

(* What of a transaction is saved with every change of phase; the rest     *)
(* comes from readings and is saved when SeenSave has passed.              *)
SavedAtOnce(t) ==
  [t EXCEPT !.seen = 0, !.ever_matched = FALSE, !.read_ok = FALSE,
            !.last_conn = None, !.probe_conn = None, !.probe_fails = 0,
            !.probe_last = None]

(* Whenever the lock is free and the last operation on pending.json has    *)
(* succeeded, a crash at that point resumes exactly the change in          *)
(* progress: disk and memory agree on everything but what readings have    *)
(* told since the last save.                                               *)
DiskFollows ==
  Locked /\ pending = meant =>
    IF active = None THEN pending = None
    ELSE /\ pending # None
         /\ SavedAtOnce(pending) = SavedAtOnce(active)

Intends(t, op, what) == t # None /\ t.op = op /\ t.intent = what

IntentSaved(op, what) ==
  /\ Intends(meant, op, what)
  /\ budget.losses = MaxLosses => Intends(pending, op, what)

(* A device write of a change that has not ended goes out only after its   *)
(* intent was the last thing to be saved, so that a restart knows the      *)
(* write may have happened (D31); and as long as no file operation has     *)
(* failed, the intent is on disk.                                          *)
IntentOnDisk ==
  [][\A op \in Ops : ended[op] = None =>
       /\ applies'[op] > applies[op] => IntentSaved(op, "Apply")
       /\ rollbacks'[op] > rollbacks[op] => IntentSaved(op, "Rollback")]_vars

(* While some change is in progress the value to go back to stays the      *)
(* same: an overriding change inherits it (D35), a restart keeps it, and   *)
(* there is no moment between the two in which a crash would lose it       *)
(* (unless a save or removal before the crash had failed).                 *)
UndoTargetKept ==
  [][meant # None /\ meant' # None /\ ~forgot' =>
       meant'.rollback_to = meant.rollback_to]_vars

(* A change that was confirmed, kept by the user, or found not applied is  *)
(* never rolled back afterwards, not even by a driver or a restart that    *)
(* had already decided to.  A change has ended when its removal from       *)
(* pending.json was tried; what a restart does after that removal failed   *)
(* is left open.                                                           *)
VerdictStands ==
  [][\A op \in Ops : rollbacks'[op] > rollbacks[op] /\ ~forgot =>
                        ended[op] \in {None, "Cancelled"}]_vars

(* Somebody is responsible for the change in progress: the submit that is  *)
(* writing it or its driver, as long as no client has disconnected (which  *)
(* can take the submit away, see EngineDisconnect).                        *)
Driven ==
  Locked /\ active # None /\ budget.drops = MaxDrops =>
    \/ driver[active.op].pc # "none"
    \/ \E c \in Calls : /\ Req[c].op = active.op
                         /\ call[c].pc \in {"queue", "wait", "applied"}

(* The engine implements OneChange: the owner is the change pending.json   *)
(* names, or would name had the last operation on it not failed.           *)
Abstract == INSTANCE OneChange
              WITH owner <- IF meant = None THEN None ELSE meant.op,
                   done <- {op \in Ops : ended[op] # None},
                   lost <- forgot

ImplementsOneChange == Abstract!Spec

InProgress(op) == meant # None /\ meant.op = op

(* No change stays in progress for ever: it ends, or a restart cannot read *)
(* that there was one.  Provided the SIM is readable from some point on    *)
(* (an unreadable SIM holds a rollback back for as long as it lasts); and  *)
(* failing reads, bounded here, do the same to a rollback.                 *)
EveryChangeEnds ==
  <>[](dev.sim # BlankSim) =>
    \A op \in Ops : InProgress(op) ~> ~InProgress(op)

-----------------------------------------------------------------------------
(* What the documents say and the code does not keep *)

(* STATE_V2.md V2-42: a user's other write cancels the automatic rollback, *)
(* "no auto revert" any more.  send_rollback releases the lock before its  *)
(* write.                                                                  *)
NoRollbackOnceCancelled ==
  [][\A op \in Ops : rollbacks'[op] > rollbacks[op] => ended[op] = None]_vars

(* CONTROL_API.md, op.keep: it "cancels the rollback".  A crash after      *)
(* last.json was saved and before pending.json is removed resumes the      *)
(* change, and its deadline rolls back what last.json calls confirmed.     *)
KeepCancelsRollback ==
  [][\A op \in Ops : rollbacks'[op] > rollbacks[op] =>
                        lastfile # [op |-> op, phase |-> "Confirmed"]]_vars

(* CONTROL_API.md: an op_id sent again only gets the existing status.      *)
(* After a restart the engine no longer knows the ones that ended.         *)
ResendOnlyAnswers == \A op \in Ops : applies[op] <= 1

(* engine/tests.rs: a rollback goes to the last confirmed value, not to an *)
(* unconfirmed one in between.  The value is read before the lock is taken *)
(* for good.  (Stated for a device that nobody else changes.)              *)
UndoTargetConfirmed ==
  active # None =>
    \A c \in Calls : ended[Req[c].op] = "RolledBack" =>
                        active.rollback_to # Req[c].target
=============================================================================
