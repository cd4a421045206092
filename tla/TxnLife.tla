------------------------------ MODULE TxnLife ------------------------------
(***************************************************************************)
(* The life of one write transaction, from the saved write intent to its   *)
(* end: the state machine of Txn driven the way ops/engine.rs drives it,   *)
(* with any readings the device may give, any timing, the user's revert    *)
(* and keep, cancellation from outside, crashes, restarts and reboots.     *)
(* Each action is one section under the engine's lock together with the    *)
(* save it ends with; a crash can fall between any two of them.            *)
(*                                                                         *)
(* The saves are taken to succeed and each to be one step: saves that fail *)
(* and crashes between two file operations of a section are the subject of *)
(* Engine, as is who else competes for the lock.  The action of a resumed  *)
(* transaction is taken to be still in the table of spec.rs.               *)
(***************************************************************************)
EXTENDS Txn

CONSTANTS
  SeenSave,   \* SEEN_SAVE_MS: how long a mere wait may go unsaved
  Readings,   \* what Device::read may answer (probe not yet done)
  Captures,   \* what submit may capture: [op, source, target, old,
              \* rollback_to, sim, conn, confirm, rollback_enabled]
  MaxNow,     \* bound: the clock of one boot
  MaxCrashes, \* bound: number of times the process stops
  MaxBoots    \* bound: how many of those are reboots

ASSUME LifeAssumption ==
  /\ SeenSave \in Nat
  /\ Readings \subseteq {r \in Reading : r.probe = None}
  /\ Captures \subseteq [op : Ops, source : Source, target : Values,
                         old : Values, rollback_to : Values, sim : SimId,
                         conn : Conn \cup {None}, confirm : Confirm,
                         rollback_enabled : BOOLEAN]
  /\ MaxNow \in Nat /\ MaxCrashes \in Nat /\ MaxBoots \in Nat

VARIABLES
  txn,         \* the transaction in memory, None if there is none
  disk,        \* pending.json
  saved_seen,  \* saved_seen_ms
  up,          \* is the service running
  driver,      \* the task driving it: "none", "watch", "send", "sent"
  now,         \* BOOTTIME
  boot,        \* boot id
  crashes,     \* history: how often the process stopped
  begun_at,    \* history: when the transaction was accepted, None before
  rollbacks,   \* history: rollback writes handed to the device
  matched,     \* history: a judged reading showed the target
  judged,      \* history: the reading it ended on, None if it ended otherwise
  result       \* history: the final phase it ended in, None until then

world == <<up, now, boot, crashes>>

vars == <<txn, disk, saved_seen, up, driver, now, boot, crashes,
          begun_at, rollbacks, matched, judged, result>>

Init ==
  /\ txn = None
  /\ disk = None
  /\ saved_seen = 0
  /\ up = TRUE
  /\ driver = "none"
  /\ now = 1   \* never 0 once the service runs: ref_ms = 0 has a meaning
  /\ boot = 0
  /\ crashes = 0
  /\ begun_at = None
  /\ rollbacks = 0
  /\ matched = FALSE
  /\ judged = None
  /\ result = None

-----------------------------------------------------------------------------
Live == txn # None /\ ~IsFinal(txn)

(* Mutant: the file of a finished transaction is left behind. *)
SettleLeavesFile(t, force) ==
  /\ txn' = t
  /\ result' = IF IsFinal(t) THEN t.phase ELSE result
  /\ IF ~IsFinal(t) /\ (force \/ Since(t.seen, saved_seen) >= SeenSave)
     THEN disk' = t /\ saved_seen' = t.seen
     ELSE UNCHANGED <<disk, saved_seen>>

(* persist followed by finish: a live transaction is saved when forced or  *)
(* when the last save is SeenSave old; a finished one leaves no file.      *)
Settle(t, force) ==
  /\ txn' = t
  /\ IF IsFinal(t)
     THEN /\ disk' = None
          /\ result' = t.phase
          /\ UNCHANGED saved_seen
     ELSE /\ UNCHANGED result
          /\ IF force \/ Since(t.seen, saved_seen) >= SeenSave
             THEN disk' = t /\ saved_seen' = t.seen
             ELSE UNCHANGED <<disk, saved_seen>>

(* submit: the capture is done, the transaction starts with its write      *)
(* intent saved.  The device write follows.                                *)
Begin(c) ==
  /\ up /\ begun_at = None
  /\ Settle(BeginApply(NewTxn([op |-> c.op, boot |-> boot, source |-> c.source,
                               target |-> c.target, old |-> c.old,
                               rollback_to |-> c.rollback_to, sim |-> c.sim,
                               conn |-> c.conn, confirm |-> c.confirm,
                               rollback_enabled |-> c.rollback_enabled], now)),
            TRUE)
  /\ begun_at' = now
  /\ UNCHANGED <<world, driver, rollbacks, matched, judged>>

(* submit: the write call came back; from here the driver watches. *)
ApplyReturns(outcome) ==
  /\ Live /\ txn.phase = "Applying"
  /\ Settle(ApplyReturned(txn, outcome, now), TRUE)
  /\ driver' = "watch"
  /\ UNCHANGED <<world, begun_at, rollbacks, matched, judged>>

DriverAfter(t) == IF IsFinal(t) THEN "none" ELSE "watch"

(* drive: one round of the loop, with a reading.  The DNS probe is done    *)
(* when the transaction asks for it.                                       *)
Judge(r) ==
  /\ driver = "watch" /\ Live /\ Counting(txn)
  /\ \E p \in IF WantsProbe(txn, r, now) THEN BOOLEAN ELSE {None} :
       LET reading == [r EXCEPT !.probe = p]
           t == OnReading(txn, reading, now)
       IN  /\ Settle(t, t.generation # txn.generation)
           /\ driver' = DriverAfter(t)
           /\ judged' = IF IsFinal(t) THEN reading ELSE judged
  /\ matched' = (matched \/ /\ txn.phase = "Verifying" /\ r.value = txn.target
                            /\ SimCheck(txn.sim, r.sim) = "Same")
  /\ UNCHANGED <<world, begun_at, rollbacks>>

(* drive: the read failed. *)
JudgeNothing ==
  /\ driver = "watch" /\ Live /\ Counting(txn)
  /\ LET t == OnTick(txn, now)
     IN  /\ Settle(t, t.generation # txn.generation)
         /\ driver' = DriverAfter(t)
  /\ UNCHANGED <<world, begun_at, rollbacks, matched, judged>>

RollbackDue == Live /\ txn.phase = "RollingBack" /\ txn.intent = "Rollback"

(* send_rollback up to the device write: save, read, compare the SIM.      *)
(* check is "Unknown" as well when the read fails: try again next round.   *)
CheckRollback(check) ==
  /\ driver = "watch" /\ RollbackDue
  /\ LET t == IF check = "Changed" THEN Cancel(txn, "SimChanged") ELSE txn
     IN  /\ Settle(t, TRUE)
         /\ driver' = CASE check = "Same" -> "send"
                        [] check = "Changed" -> "none"
                        [] OTHER -> "watch"
  /\ UNCHANGED <<world, begun_at, rollbacks, matched, judged>>

(* send_rollback: the write reaches the device, whatever happened to the   *)
(* transaction since the check.                                            *)
WriteRollback ==
  /\ driver = "send"
  /\ driver' = "sent"
  /\ rollbacks' = rollbacks + 1
  /\ UNCHANGED <<txn, disk, saved_seen, world, begun_at, matched, judged,
                 result>>

(* rollback_sent *)
RollbackReturns ==
  /\ driver = "sent"
  /\ IF Live
     THEN /\ Settle(RollbackSent(txn, now), TRUE)
          /\ driver' = "watch"
     ELSE /\ driver' = "none"
          /\ UNCHANGED <<txn, disk, saved_seen, result>>
  /\ UNCHANGED <<world, begun_at, rollbacks, matched, judged>>

(* op.revert, op.keep *)
UserRevert ==
  /\ Live /\ CanDecide(txn)
  /\ Settle(Revert(txn), TRUE)
  /\ UNCHANGED <<world, driver, begun_at, rollbacks, matched, judged>>

UserKeep ==
  /\ Live /\ CanDecide(txn)
  /\ Settle(Keep(txn), TRUE)
  /\ UNCHANGED <<world, driver, begun_at, rollbacks, matched, judged>>

(* preempt, other_write, interrupt; an overriding submit and a legacy      *)
(* request, which supersede only a transaction that is counting.           *)
CancelFromOutside(why) ==
  /\ Live
  /\ why = "Superseded" => Counting(txn)
  /\ Settle(Cancel(txn, why), TRUE)
  /\ UNCHANGED <<world, driver, begun_at, rollbacks, matched, judged>>

(* The driver finds its transaction gone at the top of its loop. *)
DriverExits ==
  /\ driver = "watch" /\ ~Live
  /\ driver' = "none"
  /\ UNCHANGED <<txn, disk, saved_seen, world, begun_at, rollbacks, matched,
                 judged, result>>

-----------------------------------------------------------------------------
(* The process stops, alone or with the whole device. *)
Crash ==
  /\ up /\ crashes < MaxCrashes
  /\ crashes' = crashes + 1
  /\ up' = FALSE
  /\ txn' = None
  /\ driver' = "none"
  /\ saved_seen' = 0
  /\ UNCHANGED <<disk, boot, now, begun_at, rollbacks, matched, judged, result>>

Reboot ==
  /\ ~up /\ boot < MaxBoots
  /\ boot' = boot + 1
  /\ now' = 1
  /\ UNCHANGED <<txn, disk, saved_seen, up, driver, crashes, begun_at,
                 rollbacks, matched, judged, result>>

(* Engine::start: the saved transaction, if there is one, is resumed, or   *)
(* abandoned when the emergency writer left its takeover marker.           *)
Start(takeover) ==
  /\ ~up
  /\ up' = TRUE
  /\ IF disk = None
     THEN UNCHANGED <<txn, disk, saved_seen, driver, result>>
     ELSE LET t == IF takeover THEN Cancel(disk, "Takeover")
                   ELSE Resume(disk, boot, now)
          IN  /\ Settle(t, TRUE)
              /\ driver' = DriverAfter(t)
  /\ UNCHANGED <<now, boot, crashes, begun_at, rollbacks, matched, judged>>

Tick ==
  /\ now < MaxNow
  /\ now' = now + 1
  /\ UNCHANGED <<txn, disk, saved_seen, up, driver, boot, crashes, begun_at,
                 rollbacks, matched, judged, result>>

-----------------------------------------------------------------------------
Next ==
  \/ \E c \in Captures : Begin(c)
  \/ \E outcome \in Applied : ApplyReturns(outcome)
  \/ \E r \in Readings : Judge(r)
  \/ JudgeNothing
  \/ \E check \in {"Same", "Changed", "Unknown"} : CheckRollback(check)
  \/ WriteRollback
  \/ RollbackReturns
  \/ UserRevert
  \/ UserKeep
  \/ \E why \in {"Superseded", "Preempted", "OtherChange"} :
       CancelFromOutside(why)
  \/ DriverExits
  \/ Crash
  \/ Reboot
  \/ \E takeover \in BOOLEAN : Start(takeover)
  \/ Tick

Spec == Init /\ [][Next]_vars

-----------------------------------------------------------------------------
(* Properties *)

TypeOK ==
  /\ txn \in Txn \cup {None}
  /\ disk \in Txn \cup {None}
  /\ saved_seen \in Time
  /\ up \in BOOLEAN
  /\ driver \in {"none", "watch", "send", "sent"}
  /\ now \in Time
  /\ boot \in Nat
  /\ crashes \in Nat
  /\ begun_at \in Time \cup {None}
  /\ rollbacks \in Nat
  /\ matched \in BOOLEAN
  /\ judged \in Reading \cup {None}
  /\ result \in FinalPhase \cup {None}

(* A rollback is written to the device at most once, over any crashes,     *)
(* restarts and reboots: the intent is saved before the write, and resume  *)
(* takes a saved rollback intent for a rollback already sent (D31).        *)
(* Premise: the saves succeed; Engine's WrittenOnce says what is left of   *)
(* it when they need not.                                                  *)
RollbackOnce == rollbacks <= 1

(* A change that ended stays ended: nothing of it is left to resume, and   *)
(* the memory, if it still knows it, agrees on how it ended (finish clears *)
(* pending.json before the lock is released).  Premise: as everywhere in   *)
(* this module, the file operations of a section succeed and no crash      *)
(* falls between them.                                                     *)
EndedForGood ==
  result # None => /\ disk = None
                   /\ txn # None => txn.phase = result

(* No recorded time lies in the future of the clock: after a reboot, which *)
(* restarts the clock, a stale time would hold the deadline or the probe   *)
(* open forever, since every age is a saturating difference.               *)
NoFutureTimes ==
  Live => /\ txn.wait_start <= now
          /\ txn.seen <= now
          /\ txn.ref_ms <= now
          /\ txn.probe_last # None => txn.probe_last <= now

(* A change still unconfirmed on the second boot, or whose waits of        *)
(* earlier boots add up to the deadline, is not waited for again (D13).    *)
RebootsBounded ==
  Live /\ txn.phase = "Verifying" =>
    txn.boots <= 1 /\ (txn.boots = 1 => txn.elapsed_prev < Deadline)

(* With automatic rollback off, only the user's own revert ever writes the *)
(* old value back (D30), also across a restart.                            *)
RollbackWanted ==
  rollbacks > 0 /\ txn # None =>
    txn.rollback_enabled \/ txn.rollback_reason = "UserRevert"

(* A change reported as not applied was never rolled back. *)
IgnoredUntouched == result = "NotApplied" => rollbacks = 0

DataThrough(t, r) ==
  /\ r.data # None
  /\ r.data.expected # None
  /\ r.data.expected = TRUE =>
        r.data.connected /\ r.data.conn.addr # None /\ r.probe = TRUE

(* "confirmed / verified" and "rolled back" rest on the reading they were  *)
(* decided on: the expected value, registered, the SIM of the write and,   *)
(* when data is expected, a DNS answer; a verified APN change moreover has *)
(* a connection made after the write or with a new address (D25, D34).     *)
EndsOnEvidence ==
  txn # None /\ judged # None =>
    LET t == txn
        r == judged
    IN  /\ t.reason = "Verified" =>
              /\ r.value = t.target /\ r.registered /\ r.sim = t.sim
              /\ DataThrough(t, r)
              /\ t.confirm = "Apn" =>
                   /\ r.data.expected = TRUE
                   /\ \/ t.boots > 0
                      \/ t.ref_conn # None /\ r.data.conn.addr # t.ref_conn.addr
                      \/ r.data.conn.up # None /\ r.data.conn.up > begun_at
        /\ t.phase = "RolledBack" =>
              /\ r.value = t.rollback_to /\ r.registered /\ r.sim = t.sim
              /\ DataThrough(t, r)

(* "A change whose readback once matched is not reported as not applied."  *)
MatchedNotIgnored == matched => result # "NotApplied"
=============================================================================
