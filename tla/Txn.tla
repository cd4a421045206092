-------------------------------- MODULE Txn --------------------------------
(***************************************************************************)
(* The write transaction of the write-operation layer, as pure operators   *)
(* on a transaction record: rust/src/ops/txn.rs.  Like the code, nothing   *)
(* here touches the device, reads a clock or saves a file: an operator     *)
(* takes the transaction, a fresh reading and the clock and returns the    *)
(* transaction after the call.                                             *)
(*                                                                         *)
(* Fields that are only displayed (action, undo, readback, data_ok,        *)
(* registered, created_ms, took_ms) are left out.  The table of spec.rs    *)
(* describes one item, so the item comparison of the code is always true   *)
(* and the item is left out too.  The reader of ops/mod.rs turns an empty  *)
(* readback into None, so the is_empty tests on a value are vacuous.  The  *)
(* code gives no transaction the reason NoVerify.                          *)
(***************************************************************************)
EXTENDS Integers

CONSTANTS
  None,           \* the absent value of every Option
  Ops,            \* op ids
  Values,         \* values of the one item (network modes)
  Sims,           \* complete SIM identities (ICCID + slot)
  BlankSim,       \* an identity with an empty ICCID or slot 0
  Addrs,          \* addresses a data connection can have
  Deadline,       \* deadline_ms of the action
  ProbeTries,     \* PROBE_TRIES
  ProbeGap,       \* PROBE_GAP_MS
  ProbeRoundGap,  \* PROBE_ROUND_GAP_MS
  ConnJitter      \* CONN_JITTER_MS

-----------------------------------------------------------------------------
(* Types *)

Source == {"Screen", "Web", "Legacy", "Guard", "Scenario", "Scheduler", "Auto"}

IsUser(source) == source \in {"Screen", "Web", "Legacy"}

MayOverride(source) == IsUser(source) \/ source = "Guard"

LivePhase == {"Accepted", "Applying", "Verifying", "RollingBack"}

FinalPhase == {"Confirmed", "Unverified", "RolledBack", "NotApplied",
               "RollbackFailed", "Cancelled"}

Phase == LivePhase \cup FinalPhase

Reason == {"Verified", "UserKeep", "NoRollback", "Timeout", "UserRevert",
           "RebootLoop", "Ignored", "RollbackTimeout", "Superseded",
           "Preempted", "ManualChange", "Takeover", "SimChanged",
           "ApnNoData", "OtherChange"}

Confirm == {"Registered", "Apn"}

Intent == {"Apply", "Rollback"}

Applied == {"Done", "Failed", "Unknown"}

SimId == Sims \cup {BlankSim}

Time == Nat

(* A data connection: its address (None for the empty string) and the time *)
(* it has been up since, when netifd reports one.                          *)
Conn == [addr : Addrs \cup {None}, up : Time \cup {None}]

DataPath == [expected : BOOLEAN \cup {None}, connected : BOOLEAN, conn : Conn]

Reading == [value : Values \cup {None}, registered : BOOLEAN, sim : SimId,
            data : DataPath \cup {None}, probe : BOOLEAN \cup {None}]

Txn == [op : Ops, source : Source, target : Values, old : Values,
        rollback_to : Values, phase : Phase, reason : Reason \cup {None},
        rollback_reason : Reason \cup {None}, ever_matched : BOOLEAN,
        read_ok : BOOLEAN, apply_failed : BOOLEAN,
        intent : Intent \cup {None}, sim : SimId, confirm : Confirm,
        ref_conn : Conn \cup {None}, ref_ms : Time,
        last_conn : Conn \cup {None}, probe_conn : Conn \cup {None},
        probe_fails : Nat, probe_last : Time \cup {None},
        rollback_enabled : BOOLEAN, boot : Nat, boots : Nat,
        elapsed_prev : Time, wait_start : Time, seen : Time,
        generation : Nat]

ASSUME TxnAssumption ==
  /\ None \notin Ops /\ None \notin Values /\ None \notin Addrs
  /\ None \notin BOOLEAN /\ None \notin Int
  /\ None \notin Intent /\ None \notin Reason /\ None \notin Phase
  /\ BlankSim \notin Sims
  /\ Deadline \in Nat \ {0}
  /\ ProbeTries \in Nat \ {0}
  /\ ProbeGap \in Nat /\ ProbeRoundGap \in Nat /\ ConnJitter \in Nat

-----------------------------------------------------------------------------
(* Small helpers of txn.rs *)

Since(now, then) == IF now >= then THEN now - then ELSE 0   \* saturating_sub

IsFinal(t) == t.phase \in FinalPhase

Waiting(t) == t.phase \in {"Verifying", "RollingBack"}

Counting(t) == Waiting(t) /\ t.intent = None

Step(t, phase) == [t EXCEPT !.phase = phase, !.generation = @ + 1]

Finish(t, phase, reason) ==
  [Step(t, phase) EXCEPT !.reason = reason, !.intent = None]

ResetProbe(t) ==
  [t EXCEPT !.probe_conn = None, !.probe_fails = 0, !.probe_last = None]

SameConn(c, d) ==
  /\ c.addr = d.addr
  /\ c.up # None /\ d.up # None =>
        Since(c.up, d.up) <= ConnJitter /\ Since(d.up, c.up) <= ConnJitter

SimCheck(captured, seen) ==
  CASE seen = BlankSim /\ captured # BlankSim -> "Unknown"
    [] captured = seen -> "Same"
    [] OTHER -> "Changed"

-----------------------------------------------------------------------------
(* The write and its result *)

(* Txn::new: n carries the fields of NewTxn. *)
NewTxn(n, now) ==
  [op |-> n.op, source |-> n.source, target |-> n.target, old |-> n.old,
   rollback_to |-> n.rollback_to, phase |-> "Accepted", reason |-> None,
   rollback_reason |-> None, ever_matched |-> FALSE, read_ok |-> FALSE,
   apply_failed |-> FALSE, intent |-> None, sim |-> n.sim,
   confirm |-> n.confirm, ref_conn |-> n.conn, ref_ms |-> now,
   last_conn |-> n.conn, probe_conn |-> None, probe_fails |-> 0,
   probe_last |-> None, rollback_enabled |-> n.rollback_enabled,
   boot |-> n.boot, boots |-> 0, elapsed_prev |-> 0, wait_start |-> now,
   seen |-> now, generation |-> 0]

BeginApply(t) == [Step(t, "Applying") EXCEPT !.intent = "Apply"]

ApplyReturned(t, outcome, now) ==
  IF t.phase # "Applying" THEN t
  ELSE [Step(t, "Verifying") EXCEPT
          !.intent = None, !.apply_failed = (outcome = "Failed"),
          !.wait_start = now, !.seen = now]

StartRollback(t, why) ==
  [Step(t, "RollingBack") EXCEPT !.rollback_reason = why, !.intent = "Rollback"]

RollbackSent(t, now) ==
  IF t.phase # "RollingBack" THEN t
  ELSE [ResetProbe(t) EXCEPT
          !.intent = None, !.wait_start = now, !.seen = now,
          !.ref_conn = t.last_conn, !.ref_ms = now, !.generation = @ + 1]

-----------------------------------------------------------------------------
(* Judging a reading *)

NewConn(t, c) ==
  \/ t.ref_ms = 0
  \/ t.ref_conn # None /\ t.ref_conn.addr # c.addr
  \/ c.up # None /\ c.up > t.ref_ms

Goal(t) == IF t.phase = "RollingBack" THEN t.rollback_to ELSE t.target

(* data_gate, by its outcomes. *)
DataKnown(r) == r.data # None /\ r.data.expected # None

NoDataExpected(r) == DataKnown(r) /\ r.data.expected = FALSE

ApnNoData(t, r) ==
  NoDataExpected(r) /\ t.confirm = "Apn" /\ t.phase = "Verifying"

NeedsProbe(t, r) ==
  /\ DataKnown(r)
  /\ r.data.expected = TRUE
  /\ r.data.connected
  /\ r.data.conn.addr # None
  /\ t.confirm = "Apn" => NewConn(t, r.data.conn)

(* Mutant: a probe that was not made counts as answered. *)
DataOkUnprobed(t, r) ==
  \/ NoDataExpected(r) /\ ~ApnNoData(t, r)
  \/ NeedsProbe(t, r) /\ r.probe # FALSE

(* data_judge answers Ok. *)
DataOk(t, r) ==
  \/ NoDataExpected(r) /\ ~ApnNoData(t, r)
  \/ NeedsProbe(t, r) /\ r.probe = TRUE

OnProbeConn(t, r) == t.probe_conn # None /\ SameConn(t.probe_conn, r.data.conn)

WantsProbe(t, r, now) ==
  /\ Counting(t)
  /\ r.registered
  /\ r.value = Goal(t)
  /\ SimCheck(t.sim, r.sim) = "Same"
  /\ NeedsProbe(t, r)
  /\ LET gap == IF OnProbeConn(t, r) /\ t.probe_fails >= ProbeTries
                THEN ProbeRoundGap ELSE ProbeGap
     IN  t.probe_last # None => Since(now, t.probe_last) >= gap

NoteProbe(t, r, now) ==
  IF r.probe = None \/ r.data = None THEN t
  ELSE LET round == IF OnProbeConn(t, r) /\ t.probe_fails < ProbeTries THEN t
                    ELSE [t EXCEPT !.probe_conn = r.data.conn,
                                   !.probe_fails = 0]
       IN  [round EXCEPT !.probe_last = now,
                         !.probe_fails = IF r.probe THEN @ ELSE @ + 1]

(* The final phase and reason a reading with value v settles on, or None.  *)
VerifyingVerdict(t, r) ==
  LET v == r.value
      there == v = t.target /\ r.registered
  IN  CASE there /\ DataOk(t, r) -> <<"Confirmed", "Verified">>
        [] there /\ ApnNoData(t, r) -> <<"Unverified", "ApnNoData">>
        [] v # t.target /\ v = t.old /\ ~t.ever_matched /\ t.apply_failed ->
             <<"NotApplied", "Ignored">>
        [] v # t.target /\ (v = t.old => t.ever_matched) ->
             <<"Cancelled", "ManualChange">>
        [] OTHER -> None

RollingBackVerdict(t, r) ==
  LET v == r.value
  IN  CASE v = t.rollback_to /\ r.registered /\ DataOk(t, r) ->
             <<"RolledBack", IF t.rollback_reason = None THEN "Timeout"
                             ELSE t.rollback_reason>>
        [] v \notin {t.rollback_to, t.target} -> <<"Cancelled", "ManualChange">>
        [] OTHER -> None

Verdict(t, r) ==
  IF t.phase = "Verifying" THEN VerifyingVerdict(t, r)
  ELSE RollingBackVerdict(t, r)

-----------------------------------------------------------------------------
(* Time, the user, restarts *)

(* Mutant: the switch for automatic rollback is not looked at. *)
ExpireAlwaysBack(t, why) == StartRollback(t, why)

Expire(t, why) ==
  IF t.rollback_enabled THEN StartRollback(t, why)
  ELSE Finish(t, "Unverified", "NoRollback")

(* Mutant: "not applied" is decided before the phase is looked at. *)
OnTickIgnoredFirst(t, now) ==
  LET s == [t EXCEPT !.seen = IF now > @ THEN now ELSE @]
  IN  IF ~Counting(t) THEN t
      ELSE IF Since(now, t.wait_start) < Deadline THEN s
      ELSE IF t.read_ok /\ ~t.ever_matched
           THEN Finish(s, "NotApplied", "Ignored")
      ELSE IF t.phase = "RollingBack"
           THEN Finish(s, "RollbackFailed", "RollbackTimeout")
      ELSE Expire(s, "Timeout")

OnTick(t, now) ==
  LET s == [t EXCEPT !.seen = IF now > @ THEN now ELSE @]
  IN  IF ~Counting(t) THEN t
      ELSE IF Since(now, t.wait_start) < Deadline THEN s
      ELSE IF t.phase = "RollingBack"
           THEN Finish(s, "RollbackFailed", "RollbackTimeout")
      ELSE IF t.read_ok /\ ~t.ever_matched
           THEN Finish(s, "NotApplied", "Ignored")
      ELSE Expire(s, "Timeout")

(* The part of on_reading after the SIM check. *)
JudgeReading(t, r, now) ==
  LET p == NoteProbe(t, r, now)
      hit == t.phase = "Verifying" /\ r.value = t.target
      m == [p EXCEPT !.read_ok = TRUE, !.ever_matched = @ \/ hit]
      verdict == Verdict(t, r)
  IN  IF r.value = None THEN OnTick(p, now)
      ELSE IF verdict = None THEN OnTick(m, now)
      ELSE Finish(m, verdict[1], verdict[2])

OnReading(t, r, now) ==
  LET s == [t EXCEPT !.seen = now,
                     !.last_conn = IF r.data # None /\ r.data.conn.addr # None
                                   THEN r.data.conn ELSE @]
      check == SimCheck(t.sim, r.sim)
  IN  IF ~Counting(t) THEN t
      ELSE IF check = "Changed" THEN Finish(s, "Cancelled", "SimChanged")
      ELSE IF check = "Unknown" THEN OnTick(s, now)
      ELSE JudgeReading(s, r, now)

(* Mutant: revert and keep are accepted while rolling back. *)
CanDecideAnytime(t) == Waiting(t)

CanDecide(t) == t.phase = "Verifying" /\ t.intent = None

Revert(t) == IF CanDecide(t) THEN StartRollback(t, "UserRevert") ELSE t

Keep(t) == IF CanDecide(t) THEN Finish(t, "Confirmed", "UserKeep") ELSE t

Cancel(t, why) == IF IsFinal(t) THEN t ELSE Finish(t, "Cancelled", why)

(* Mutant: the operands of the elapsed time are swapped. *)
RebootedSwapped(t, boot) ==
  IF boot = t.boot THEN t
  ELSE [ResetProbe(t) EXCEPT
          !.elapsed_prev = @ + IF Counting(t) THEN t.wait_start - t.seen ELSE 0,
          !.boots = @ + 1, !.boot = boot, !.ref_ms = 0]

(* What a changed boot id does before the phases are looked at. *)
Rebooted(t, boot) ==
  IF boot = t.boot THEN t
  ELSE [ResetProbe(t) EXCEPT
          !.elapsed_prev =
             @ + IF Counting(t) THEN Since(t.seen, t.wait_start) ELSE 0,
          !.boots = @ + 1, !.boot = boot, !.ref_ms = 0]

(* Mutant: the saved intent survives the restart. *)
ResumeKeepsIntent(t, boot, now) ==
  LET r == Rebooted(t, boot)
      unsent == t.intent # None \/ t.phase = "Applying"
      w == [r EXCEPT !.phase = IF @ = "Applying" THEN "Verifying" ELSE @,
                     !.wait_start = IF unsent \/ boot # t.boot THEN now ELSE @,
                     !.seen = now, !.generation = @ + 1]
  IN  IF IsFinal(t) THEN t
      ELSE IF t.phase = "Accepted" THEN Finish(r, "NotApplied", "Ignored")
      ELSE IF /\ boot # t.boot
              /\ w.phase = "Verifying"
              /\ w.boots >= 2 \/ w.elapsed_prev >= Deadline
           THEN Expire(w, "RebootLoop")
      ELSE w

(* Mutant: the wait is not restarted with the clock of the new boot. *)
ResumeKeepsClock(t, boot, now) ==
  LET r == Rebooted(t, boot)
      unsent == t.intent # None \/ t.phase = "Applying"
      w == [r EXCEPT !.phase = IF @ = "Applying" THEN "Verifying" ELSE @,
                     !.intent = None,
                     !.wait_start = IF unsent THEN now ELSE @,
                     !.seen = now, !.generation = @ + 1]
  IN  IF IsFinal(t) THEN t
      ELSE IF t.phase = "Accepted" THEN Finish(r, "NotApplied", "Ignored")
      ELSE IF /\ boot # t.boot
              /\ w.phase = "Verifying"
              /\ w.boots >= 2 \/ w.elapsed_prev >= Deadline
           THEN Expire(w, "RebootLoop")
      ELSE w

(* Mutant: a third boot is waited for. *)
ResumeThirdBoot(t, boot, now) ==
  LET r == Rebooted(t, boot)
      unsent == t.intent # None \/ t.phase = "Applying"
      w == [r EXCEPT !.phase = IF @ = "Applying" THEN "Verifying" ELSE @,
                     !.intent = None,
                     !.wait_start = IF unsent \/ boot # t.boot THEN now ELSE @,
                     !.seen = now, !.generation = @ + 1]
  IN  IF IsFinal(t) THEN t
      ELSE IF t.phase = "Accepted" THEN Finish(r, "NotApplied", "Ignored")
      ELSE IF /\ boot # t.boot
              /\ w.phase = "Verifying"
              /\ w.boots > 2 \/ w.elapsed_prev >= Deadline
           THEN Expire(w, "RebootLoop")
      ELSE w

Resume(t, boot, now) ==
  LET r == Rebooted(t, boot)
      unsent == t.intent # None \/ t.phase = "Applying"
      w == [r EXCEPT !.phase = IF @ = "Applying" THEN "Verifying" ELSE @,
                     !.intent = None,
                     !.wait_start = IF unsent \/ boot # t.boot THEN now ELSE @,
                     !.seen = now, !.generation = @ + 1]
  IN  IF IsFinal(t) THEN t
      ELSE IF t.phase = "Accepted" THEN Finish(r, "NotApplied", "Ignored")
      ELSE IF /\ boot # t.boot
              /\ w.phase = "Verifying"
              /\ w.boots >= 2 \/ w.elapsed_prev >= Deadline
           THEN Expire(w, "RebootLoop")
      ELSE w
=============================================================================
