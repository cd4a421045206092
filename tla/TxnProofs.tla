----------------------------- MODULE TxnProofs -----------------------------
(***************************************************************************)
(* Proofs about one transaction (TxnLife), for any constants: any          *)
(* readings, captures, deadlines, and any number of crashes and reboots.   *)
(***************************************************************************)
EXTENDS TxnLife, TLAPS

-----------------------------------------------------------------------------
(* The operators of Txn return transactions. *)

(* The counter of phase changes can be counted up. *)
LEMMA NextGeneration ==
  ASSUME NEW t \in Txn
  PROVE  t.generation \in Nat /\ t.generation + 1 \in Nat
<1>1. t.generation \in Nat
  BY DEF Txn
<1> QED
  BY <1>1

(* step keeps the record a transaction. *)
LEMMA StepType ==
  ASSUME NEW t \in Txn, NEW phase \in Phase
  PROVE  Step(t, phase) \in Txn
BY NextGeneration, ZenonT(60) DEF Step, Txn

(* finish keeps the record a transaction. *)
LEMMA FinishType ==
  ASSUME NEW t \in Txn, NEW phase \in Phase, NEW reason \in Reason \cup {None}
  PROVE  Finish(t, phase, reason) \in Txn
<1> DEFINE s == Step(t, phase)
<1>1. s \in Txn
  BY StepType
<1> HIDE DEF s
<1>2. [s EXCEPT !.reason = reason, !.intent = None] \in Txn
  BY <1>1, ZenonT(60) DEF Txn
<1> QED
  BY <1>2 DEF Finish, s

(* A forgotten probe leaves a transaction. *)
LEMMA ResetProbeType ==
  ASSUME NEW t \in Txn
  PROVE  ResetProbe(t) \in Txn
BY ZenonT(60) DEF ResetProbe, Txn

(* Txn::new and begin_apply make a transaction of what was captured. *)
LEMMA BeginType ==
  ASSUME NEW n \in [op : Ops, boot : Nat, source : Source, target : Values,
                    old : Values, rollback_to : Values, sim : SimId,
                    conn : Conn \cup {None}, confirm : Confirm,
                    rollback_enabled : BOOLEAN],
         NEW time \in Time
  PROVE  BeginApply(NewTxn(n, time)) \in Txn
<1> DEFINE t == NewTxn(n, time)
<1>1. t \in Txn
  BY DEF NewTxn, Txn, Phase, LivePhase, Time
<1> HIDE DEF t
<1> DEFINE s == Step(t, "Applying")
<1>2. s \in Txn
  BY <1>1, StepType DEF Phase, LivePhase
<1> HIDE DEF s
<1>3. [s EXCEPT !.intent = "Apply"] \in Txn
  BY <1>2 DEF Txn, Intent
<1> QED
  BY <1>3 DEF BeginApply, s, t

(* applied *)
LEMMA ApplyReturnedType ==
  ASSUME NEW t \in Txn, NEW outcome \in Applied, NEW time \in Time
  PROVE  ApplyReturned(t, outcome, time) \in Txn
<1> DEFINE s == Step(t, "Verifying")
           failed == outcome = "Failed"
           a == [s EXCEPT !.apply_failed = failed]
           b == [a EXCEPT !.intent = None, !.wait_start = time, !.seen = time]
<1>1. s \in Txn /\ failed \in BOOLEAN
  BY StepType DEF Phase, LivePhase
<1> HIDE DEF s, failed
<1>2. a \in Txn
  BY <1>1 DEF Txn
<1> HIDE DEF a
<1>3. b \in Txn
  BY <1>2, ZenonT(60) DEF Txn
<1>4. b = [s EXCEPT !.intent = None, !.apply_failed = failed,
                    !.wait_start = time, !.seen = time]
  BY DEF a
<1> QED
  BY <1>3, <1>4 DEF ApplyReturned, s, failed

(* start_rollback *)
LEMMA StartRollbackType ==
  ASSUME NEW t \in Txn, NEW why \in Reason
  PROVE  StartRollback(t, why) \in Txn
<1> DEFINE s == Step(t, "RollingBack")
<1>1. s \in Txn
  BY StepType DEF Phase, LivePhase
<1> HIDE DEF s
<1>2. [s EXCEPT !.rollback_reason = why, !.intent = "Rollback"] \in Txn
  BY <1>1, ZenonT(60) DEF Txn, Intent
<1> QED
  BY <1>2 DEF StartRollback, s

(* rollback_sent *)
LEMMA RollbackSentType ==
  ASSUME NEW t \in Txn, NEW time \in Time
  PROVE  RollbackSent(t, time) \in Txn
<1> DEFINE s == ResetProbe(t)
<1>1. s \in Txn
  BY ResetProbeType
<1> HIDE DEF s
<1>2. t.last_conn \in Conn \cup {None}
  BY DEF Txn
<1>3. [s EXCEPT !.intent = None, !.wait_start = time, !.seen = time,
                !.ref_conn = t.last_conn, !.ref_ms = time,
                !.generation = @ + 1] \in Txn
  BY <1>1, <1>2, NextGeneration, ZenonT(60) DEF Txn, Time
<1> QED
  BY <1>3 DEF RollbackSent, s

(* expire *)
LEMMA ExpireType ==
  ASSUME NEW t \in Txn, NEW why \in Reason
  PROVE  Expire(t, why) \in Txn
BY StartRollbackType, FinishType DEF Expire, Phase, FinalPhase, Reason

(* on_tick *)
LEMMA OnTickType ==
  ASSUME NEW t \in Txn, NEW time \in Time
  PROVE  OnTick(t, time) \in Txn
<1> DEFINE s == [t EXCEPT !.seen = IF time > @ THEN time ELSE @]
<1>1. s \in Txn
  BY DEF Txn, Time
<1> HIDE DEF s
<1>2. Expire(s, "Timeout") \in Txn
  BY <1>1, ExpireType DEF Reason
<1>3. Finish(s, "RollbackFailed", "RollbackTimeout") \in Txn
  BY <1>1, FinishType DEF Phase, FinalPhase, Reason
<1>4. Finish(s, "NotApplied", "Ignored") \in Txn
  BY <1>1, FinishType DEF Phase, FinalPhase, Reason
<1> QED
  BY <1>1, <1>2, <1>3, <1>4 DEF OnTick, s

(* note_probe *)
LEMMA NoteProbeType ==
  ASSUME NEW t \in Txn, NEW r \in Reading, NEW time \in Time
  PROVE  NoteProbe(t, r, time) \in Txn
<1>1. CASE r.probe = None \/ r.data = None
  BY <1>1 DEF NoteProbe
<1>2. CASE ~(r.probe = None \/ r.data = None)
  <2> DEFINE new == [t EXCEPT !.probe_conn = r.data.conn, !.probe_fails = 0]
             round == IF OnProbeConn(t, r) /\ t.probe_fails < ProbeTries THEN t
                      ELSE new
             fails == IF r.probe THEN round.probe_fails
                      ELSE round.probe_fails + 1
  <2>1. r.data.conn \in Conn
    BY <1>2 DEF Reading, DataPath
  <2>2. new \in Txn
    BY <2>1, ZenonT(60) DEF Txn
  <2>3. round \in Txn
    BY <2>2
  <2> HIDE DEF round
  <2>4. round.probe_fails \in Nat
    BY <2>3 DEF Txn
  <2>5. fails \in Nat
    BY <2>4
  <2> HIDE DEF fails
  <2>6. [round EXCEPT !.probe_last = time, !.probe_fails = fails] \in Txn
    BY <2>3, <2>5, ZenonT(60) DEF Txn, Time
  <2> QED
    BY <1>2, <2>6 DEF NoteProbe, round, fails
<1> QED
  BY <1>1, <1>2

(* A verdict is a final phase with its reason. *)
LEMMA VerdictType ==
  ASSUME NEW t \in Txn, NEW r \in Reading, Verdict(t, r) # None
  PROVE  /\ Verdict(t, r)[1] \in FinalPhase
         /\ Verdict(t, r)[2] \in Reason \cup {None}
         /\ t.phase = "RollingBack" =>
              Verdict(t, r)[1] \in {"RolledBack", "Cancelled"}
<1>1. t.rollback_reason \in Reason \cup {None}
  BY DEF Txn
<1>2. CASE t.phase = "Verifying"
  BY <1>2, <1>1 DEF Verdict, VerifyingVerdict, FinalPhase, Reason
<1>3. CASE t.phase # "Verifying"
  BY <1>3, <1>1 DEF Verdict, RollingBackVerdict, FinalPhase, Reason
<1> QED
  BY <1>2, <1>3

(* The two flags a reading sets. *)
LEMMA FlagsType ==
  ASSUME NEW t \in Txn, NEW ever \in BOOLEAN, NEW ok \in BOOLEAN
  PROVE  [t EXCEPT !.read_ok = ok, !.ever_matched = ever] \in Txn
<1>1. [t EXCEPT !.ever_matched = ever] \in Txn
  BY DEF Txn
<1> DEFINE a == [t EXCEPT !.ever_matched = ever]
<1> HIDE DEF a
<1>2. [a EXCEPT !.read_ok = ok] \in Txn
  BY <1>1, ZenonT(60) DEF a, Txn
<1> QED
  BY <1>2 DEF a

(* The part of on_reading after the SIM check. *)
LEMMA JudgeReadingType ==
  ASSUME NEW t \in Txn, NEW r \in Reading, NEW time \in Time
  PROVE  JudgeReading(t, r, time) \in Txn
<1> DEFINE p == NoteProbe(t, r, time)
           hit == t.phase = "Verifying" /\ r.value = t.target
           ever == p.ever_matched \/ hit
           m == [p EXCEPT !.read_ok = TRUE, !.ever_matched = ever]
<1>1. p \in Txn
  BY NoteProbeType
<1> HIDE DEF p
<1>2. ever \in BOOLEAN
  BY <1>1 DEF Txn
<1> HIDE DEF ever
<1>4. m \in Txn
  BY <1>1, <1>2, FlagsType
<1>5. m = [p EXCEPT !.read_ok = TRUE, !.ever_matched = @ \/ hit]
  BY DEF ever
<1> HIDE DEF m
<1>6. OnTick(p, time) \in Txn /\ OnTick(m, time) \in Txn
  BY <1>1, <1>4, OnTickType
<1>7. Verdict(t, r) # None =>
        Finish(m, Verdict(t, r)[1], Verdict(t, r)[2]) \in Txn
  BY <1>4, VerdictType, FinishType DEF Phase
<1> QED
  BY <1>5, <1>6, <1>7 DEF JudgeReading, p

(* on_reading *)
LEMMA OnReadingType ==
  ASSUME NEW t \in Txn, NEW r \in Reading, NEW time \in Time
  PROVE  OnReading(t, r, time) \in Txn
<1> DEFINE conn == IF r.data # None /\ r.data.conn.addr # None
                   THEN r.data.conn ELSE t.last_conn
           s == [t EXCEPT !.seen = time, !.last_conn = conn]
<1>1. conn \in Conn \cup {None}
  BY DEF Reading, DataPath, Txn
<1> HIDE DEF conn
<1>2. s \in Txn
  BY <1>1, ZenonT(60) DEF Txn
<1>3. s = [t EXCEPT !.seen = time,
                    !.last_conn = IF r.data # None /\ r.data.conn.addr # None
                                  THEN r.data.conn ELSE @]
  BY DEF conn
<1> HIDE DEF s
<1>4. Finish(s, "Cancelled", "SimChanged") \in Txn
  BY <1>2, FinishType DEF Phase, FinalPhase, Reason
<1>5. OnTick(s, time) \in Txn /\ JudgeReading(s, r, time) \in Txn
  BY <1>2, OnTickType, JudgeReadingType
<1> QED
  BY <1>3, <1>4, <1>5 DEF OnReading

(* revert, keep and cancel *)
LEMMA DecisionType ==
  ASSUME NEW t \in Txn, NEW why \in Reason
  PROVE  Revert(t) \in Txn /\ Keep(t) \in Txn /\ Cancel(t, why) \in Txn
BY StartRollbackType, FinishType
   DEF Revert, Keep, Cancel, Phase, FinalPhase, Reason

(* The fields a reboot sets. *)
LEMMA BootFieldsType ==
  ASSUME NEW t \in Txn, NEW elapsed \in Time, NEW boots \in Nat, NEW id \in Nat,
         NEW ref \in Time
  PROVE  [t EXCEPT !.elapsed_prev = elapsed, !.boots = boots, !.boot = id,
                   !.ref_ms = ref] \in Txn
BY ZenonT(60) DEF Txn

(* The fields a restart sets. *)
LEMMA WaitFieldsType ==
  ASSUME NEW t \in Txn, NEW phase \in Phase, NEW start \in Time,
         NEW seen \in Time, NEW generation \in Nat
  PROVE  [t EXCEPT !.phase = phase, !.intent = None, !.wait_start = start,
                   !.seen = seen, !.generation = generation] \in Txn
BY ZenonT(60) DEF Txn

(* What resume does about a changed boot id. *)
LEMMA RebootedType ==
  ASSUME NEW t \in Txn, NEW id \in Nat
  PROVE  Rebooted(t, id) \in Txn
<1> DEFINE s == ResetProbe(t)
           waited == IF Counting(t) THEN Since(t.seen, t.wait_start) ELSE 0
           elapsed == s.elapsed_prev + waited
           boots == s.boots + 1
<1>1. s \in Txn
  BY ResetProbeType
<1> HIDE DEF s
<1>2. elapsed \in Time
  <2>1. waited \in Nat
    BY DEF Txn, Time, Since
  <2>2. s.elapsed_prev \in Nat
    BY <1>1 DEF Txn, Time
  <2> QED
    BY <2>1, <2>2 DEF Time
<1>3. boots \in Nat
  <2>1. s.boots \in Nat
    BY <1>1 DEF Txn
  <2> QED
    BY <2>1
<1>4. 0 \in Time
  BY DEF Time
<1>5. [s EXCEPT !.elapsed_prev = @ + waited, !.boots = @ + 1, !.boot = id,
                !.ref_ms = 0] \in Txn
  <2> HIDE DEF elapsed, boots
  <2>1. [s EXCEPT !.elapsed_prev = elapsed, !.boots = boots, !.boot = id,
                  !.ref_ms = 0] \in Txn
    BY <1>1, <1>2, <1>3, <1>4, BootFieldsType
  <2> QED
    BY <2>1 DEF elapsed, boots
<1> QED
  BY <1>5 DEF Rebooted, s

(* resume *)
LEMMA ResumeType ==
  ASSUME NEW t \in Txn, NEW id \in Nat, NEW time \in Time
  PROVE  Resume(t, id, time) \in Txn
<1> DEFINE r == Rebooted(t, id)
           unsent == t.intent # None \/ t.phase = "Applying"
           phase == IF r.phase = "Applying" THEN "Verifying" ELSE r.phase
           start == IF unsent \/ id # t.boot THEN time ELSE r.wait_start
           w == [r EXCEPT !.phase = phase, !.intent = None,
                          !.wait_start = start, !.seen = time,
                          !.generation = @ + 1]
<1>1. r \in Txn
  BY RebootedType
<1> HIDE DEF r
<1>2. phase \in Phase /\ start \in Time
  BY <1>1 DEF Txn, Phase, LivePhase
<1> HIDE DEF phase, start
<1>3. w \in Txn
  <2>1. r.generation + 1 \in Nat
    BY <1>1, NextGeneration
  <2> QED
    BY <1>1, <1>2, <2>1, WaitFieldsType
<1>4. w = [r EXCEPT !.phase = IF @ = "Applying" THEN "Verifying" ELSE @,
                    !.intent = None,
                    !.wait_start = IF unsent \/ id # t.boot THEN time ELSE @,
                    !.seen = time, !.generation = @ + 1]
  BY DEF phase, start
<1> HIDE DEF w
<1>5. Finish(r, "NotApplied", "Ignored") \in Txn
  BY <1>1, FinishType DEF Phase, FinalPhase, Reason
<1>6. Expire(w, "RebootLoop") \in Txn
  BY <1>3, ExpireType DEF Reason
<1> QED
  BY <1>3, <1>4, <1>5, <1>6 DEF Resume, r

-----------------------------------------------------------------------------
(* What can become of a transaction that is rolling back. *)

BackPhase == {"RollingBack", "RolledBack", "RollbackFailed", "Cancelled"}

(* Somebody wants the rollback: the configuration or the user. *)
Wanted(t) == t.rollback_enabled \/ t.rollback_reason = "UserRevert"

SameWish(t, u) ==
  u.rollback_enabled = t.rollback_enabled /\
  u.rollback_reason = t.rollback_reason

(* The step from t to u does not leave the way back, writes no new         *)
(* rollback intent on it, and enters it only for somebody who wants it.    *)
GoodStep(t, u) ==
  /\ t.phase = "RollingBack" => SameWish(t, u) /\ u.phase \in BackPhase
  /\ t.phase = "RollingBack" /\ t.intent = None => u.intent = None
  /\ t.phase # "RollingBack" /\ u.phase = "RollingBack" => Wanted(u)

(* finish sets the phase, clears the intent and leaves the wish alone. *)
LEMMA FinishFields ==
  ASSUME NEW t \in Txn, NEW phase, NEW reason
  PROVE  /\ Finish(t, phase, reason).phase = phase
         /\ Finish(t, phase, reason).intent = None
         /\ SameWish(t, Finish(t, phase, reason))
BY DEF Finish, Step, Txn, SameWish

(* start_rollback sets the intent and the reason. *)
LEMMA StartRollbackFields ==
  ASSUME NEW t \in Txn, NEW why
  PROVE  /\ StartRollback(t, why).phase = "RollingBack"
         /\ StartRollback(t, why).intent = "Rollback"
         /\ StartRollback(t, why).rollback_enabled = t.rollback_enabled
         /\ StartRollback(t, why).rollback_reason = why
BY DEF StartRollback, Step, Txn

(* on_tick is a good step. *)
LEMMA OnTickGood ==
  ASSUME NEW t \in Txn, NEW time \in Time
  PROVE  GoodStep(t, OnTick(t, time))
<1> DEFINE s == [t EXCEPT !.seen = IF time > @ THEN time ELSE @]
<1>1. s \in Txn
  BY DEF Txn, Time
<1>2. s.phase = t.phase /\ s.intent = t.intent /\ SameWish(t, s)
  BY DEF Txn, SameWish
<1> HIDE DEF s
<1>3. CASE ~Counting(t)
  BY <1>3 DEF OnTick, GoodStep, SameWish, BackPhase
<1>4. CASE Counting(t) /\ OnTick(t, time) = s
  BY <1>4, <1>2 DEF GoodStep, SameWish, BackPhase
<1>5. CASE /\ t.phase = "RollingBack"
           /\ OnTick(t, time) = Finish(s, "RollbackFailed", "RollbackTimeout")
  BY <1>5, <1>1, <1>2, FinishFields DEF GoodStep, SameWish, BackPhase
<1>6. CASE /\ t.phase # "RollingBack"
           /\ OnTick(t, time) = Finish(s, "NotApplied", "Ignored")
  BY <1>6, <1>1, FinishFields DEF GoodStep
<1>7. CASE t.phase # "RollingBack" /\ OnTick(t, time) = Expire(s, "Timeout")
  <2>1. CASE s.rollback_enabled
    BY <1>7, <2>1, <1>1, StartRollbackFields DEF Expire, GoodStep, Wanted
  <2>2. CASE ~s.rollback_enabled
    BY <1>7, <2>2, <1>1, FinishFields DEF Expire, GoodStep
  <2> QED
    BY <2>1, <2>2
<1> QED
  BY <1>3, <1>4, <1>5, <1>6, <1>7 DEF OnTick, s

(* Two transactions that agree in what GoodStep looks at. *)
Alike(t, u) == u.phase = t.phase /\ u.intent = t.intent /\ SameWish(t, u)

(* note_probe touches only the probe's own fields. *)
LEMMA NoteProbeAlike ==
  ASSUME NEW t \in Txn, NEW r \in Reading, NEW time \in Time
  PROVE  Alike(t, NoteProbe(t, r, time))
<1>1. CASE r.probe = None \/ r.data = None
  BY <1>1 DEF NoteProbe, Alike, SameWish
<1>2. CASE ~(r.probe = None \/ r.data = None)
  <2> DEFINE new == [t EXCEPT !.probe_conn = r.data.conn, !.probe_fails = 0]
             round == IF OnProbeConn(t, r) /\ t.probe_fails < ProbeTries THEN t
                      ELSE new
             fails == IF r.probe THEN round.probe_fails
                      ELSE round.probe_fails + 1
             noted == [round EXCEPT !.probe_last = time, !.probe_fails = fails]
  <2>1. r.data.conn \in Conn
    BY <1>2 DEF Reading, DataPath
  <2>2. new \in Txn
    BY <2>1, ZenonT(60) DEF Txn
  <2>3. Alike(t, new)
    BY DEF Txn, Alike, SameWish
  <2>4. round \in Txn /\ Alike(t, round)
    BY <2>2, <2>3 DEF Alike, SameWish
  <2> HIDE DEF round, fails
  <2>5. Alike(round, noted)
    BY <2>4 DEF Txn, Alike, SameWish
  <2>6. NoteProbe(t, r, time) = noted
    BY <1>2 DEF NoteProbe, round, fails
  <2> QED
    BY <2>4, <2>5, <2>6 DEF Alike, SameWish
<1> QED
  BY <1>1, <1>2

(* A good step from a transaction like t is a good step from t. *)
LEMMA AlikeGood ==
  ASSUME NEW t, NEW s, NEW u, Alike(t, s), GoodStep(s, u)
  PROVE  GoodStep(t, u)
BY DEF Alike, GoodStep, SameWish

(* The part of on_reading after the SIM check is a good step. *)
LEMMA JudgeReadingGood ==
  ASSUME NEW t \in Txn, NEW r \in Reading, NEW time \in Time,
         t.phase \in {"Verifying", "RollingBack"}
  PROVE  GoodStep(t, JudgeReading(t, r, time))
<1> DEFINE p == NoteProbe(t, r, time)
           hit == t.phase = "Verifying" /\ r.value = t.target
           ever == p.ever_matched \/ hit
           m == [p EXCEPT !.read_ok = TRUE, !.ever_matched = ever]
           v == Verdict(t, r)
<1>1. p \in Txn /\ Alike(t, p)
  BY NoteProbeType, NoteProbeAlike
<1> HIDE DEF p
<1>2. ever \in BOOLEAN
  BY <1>1 DEF Txn
<1> HIDE DEF ever
<1>3. m \in Txn
  BY <1>1, <1>2, FlagsType
<1>4. Alike(t, m)
  BY <1>1 DEF Alike, SameWish, Txn
<1>5. m = [p EXCEPT !.read_ok = TRUE, !.ever_matched = @ \/ hit]
  BY DEF ever
<1> HIDE DEF m
<1>6. GoodStep(t, OnTick(p, time)) /\ GoodStep(t, OnTick(m, time))
  BY <1>1, <1>3, <1>4, OnTickGood, AlikeGood
<1>7. v # None => GoodStep(t, Finish(m, v[1], v[2]))
  <2> SUFFICES ASSUME v # None
               PROVE  GoodStep(t, Finish(m, v[1], v[2]))
    OBVIOUS
  <2>1. /\ v[1] \in FinalPhase
        /\ t.phase = "RollingBack" => v[1] \in {"RolledBack", "Cancelled"}
    BY VerdictType
  <2> HIDE DEF v
  <2>2. /\ Finish(m, v[1], v[2]).phase = v[1]
        /\ Finish(m, v[1], v[2]).intent = None
        /\ SameWish(m, Finish(m, v[1], v[2]))
    BY <1>3, FinishFields
  <2> QED
    BY <2>1, <2>2, <1>4
    DEF GoodStep, Alike, SameWish, BackPhase, FinalPhase
<1> QED
  BY <1>5, <1>6, <1>7 DEF JudgeReading, p

(* on_reading is a good step. *)
LEMMA OnReadingGood ==
  ASSUME NEW t \in Txn, NEW r \in Reading, NEW time \in Time
  PROVE  GoodStep(t, OnReading(t, r, time))
<1> DEFINE conn == IF r.data # None /\ r.data.conn.addr # None
                   THEN r.data.conn ELSE t.last_conn
           s == [t EXCEPT !.seen = time, !.last_conn = conn]
<1>1. conn \in Conn \cup {None}
  BY DEF Reading, DataPath, Txn
<1> HIDE DEF conn
<1>2. s \in Txn
  BY <1>1, ZenonT(60) DEF Txn
<1>3. Alike(t, s)
  BY DEF Alike, SameWish, Txn
<1>4. s = [t EXCEPT !.seen = time,
                    !.last_conn = IF r.data # None /\ r.data.conn.addr # None
                                  THEN r.data.conn ELSE @]
  BY DEF conn
<1> HIDE DEF s
<1>5. CASE ~Counting(t)
  BY <1>5 DEF OnReading, GoodStep, SameWish, BackPhase
<1>6. CASE Counting(t)
  <2>1. s.phase \in {"Verifying", "RollingBack"}
    BY <1>6, <1>3 DEF Counting, Waiting, Alike
  <2>2. GoodStep(t, Finish(s, "Cancelled", "SimChanged"))
    BY <1>2, <1>3, FinishFields DEF GoodStep, Alike, SameWish, BackPhase
  <2>3. GoodStep(t, OnTick(s, time)) /\ GoodStep(t, JudgeReading(s, r, time))
    BY <1>2, <1>3, <2>1, OnTickGood, JudgeReadingGood, AlikeGood
  <2> QED
    BY <1>4, <1>6, <2>2, <2>3 DEF OnReading
<1> QED
  BY <1>5, <1>6

(* cancel ends any transaction that has not ended. *)
LEMMA CancelGood ==
  ASSUME NEW t \in Txn, NEW why
  PROVE  GoodStep(t, Cancel(t, why)) /\ IsFinal(Cancel(t, why))
BY FinishFields
   DEF Cancel, IsFinal, FinalPhase, GoodStep, SameWish, BackPhase

(* rollback_sent: the intent is done with, the way back goes on. *)
LEMMA RollbackSentGood ==
  ASSUME NEW t \in Txn, NEW time \in Time, t.phase = "RollingBack"
  PROVE  /\ GoodStep(t, RollbackSent(t, time))
         /\ RollbackSent(t, time).phase = "RollingBack"
         /\ RollbackSent(t, time).intent = None
BY DEF RollbackSent, ResetProbe, Txn, GoodStep, SameWish, BackPhase

(* resume: what was rolling back goes on without writing it again; what    *)
(* was not is rolled back only if that is wanted.                          *)
LEMMA ResumeGood ==
  ASSUME NEW t \in Txn, NEW id \in Nat, NEW time \in Time
  PROVE  /\ t.phase = "RollingBack" =>
              /\ Resume(t, id, time).phase = "RollingBack"
              /\ Resume(t, id, time).intent = None
              /\ SameWish(t, Resume(t, id, time))
         /\ t.phase # "RollingBack" /\ Resume(t, id, time).phase = "RollingBack"
              => Wanted(Resume(t, id, time))
<1> DEFINE r == Rebooted(t, id)
           unsent == t.intent # None \/ t.phase = "Applying"
           phase == IF r.phase = "Applying" THEN "Verifying" ELSE r.phase
           start == IF unsent \/ id # t.boot THEN time ELSE r.wait_start
           w == [r EXCEPT !.phase = phase, !.intent = None,
                          !.wait_start = start, !.seen = time,
                          !.generation = @ + 1]
<1>1. r \in Txn
  BY RebootedType
<1>2. r.phase = t.phase /\ SameWish(t, r)
  BY DEF Rebooted, ResetProbe, Txn, SameWish
<1> HIDE DEF r
<1>3. phase \in Phase /\ start \in Time
  BY <1>1 DEF Txn, Phase, LivePhase
<1>4. phase # "RollingBack" <=> t.phase # "RollingBack"
  BY <1>2
<1>5. w = [r EXCEPT !.phase = IF @ = "Applying" THEN "Verifying" ELSE @,
                    !.intent = None,
                    !.wait_start = IF unsent \/ id # t.boot THEN time ELSE @,
                    !.seen = time, !.generation = @ + 1]
  OBVIOUS
<1> HIDE DEF phase, start
<1>6. w \in Txn
  <2>1. r.generation + 1 \in Nat
    BY <1>1, NextGeneration
  <2> QED
    BY <1>1, <1>3, <2>1, WaitFieldsType
<1>7. w.phase = phase /\ w.intent = None /\ SameWish(t, w)
  BY <1>1, <1>2 DEF Txn, SameWish
<1> HIDE DEF w
<1>8. Expire(w, "RebootLoop").phase = "RollingBack" =>
        Wanted(Expire(w, "RebootLoop"))
  BY <1>6, StartRollbackFields, FinishFields DEF Expire, Wanted
<1>9. Finish(r, "NotApplied", "Ignored").phase # "RollingBack"
  BY <1>1, FinishFields
<1>10. CASE t.phase = "RollingBack"
  <2>1. Resume(t, id, time) = w
    BY <1>10, <1>4, <1>5, <1>7 DEF Resume, IsFinal, FinalPhase, r
  <2>2. phase = "RollingBack"
    BY <1>4, <1>10
  <2> QED
    BY <1>10, <2>1, <2>2, <1>7
<1>11. CASE t.phase # "RollingBack"
  <2>1. w.phase # "RollingBack"
    BY <1>4, <1>7, <1>11
  <2>2. Resume(t, id, time) \in
          {t, w, Expire(w, "RebootLoop"), Finish(r, "NotApplied", "Ignored")}
    BY <1>5 DEF Resume, r
  <2> QED
    BY <1>11, <2>1, <2>2, <1>8, <1>9
<1> QED
  BY <1>10, <1>11

-----------------------------------------------------------------------------
(* The inductive invariant. *)

(* The rollback is decided for good: about to be written, or written. *)
Committed == driver \in {"send", "sent"} \/ rollbacks > 0

(* The driver's place says whether the write is still to come. *)
CountOK ==
  /\ rollbacks \in {0, 1}
  /\ driver = "send" => rollbacks = 0
  /\ driver = "sent" => rollbacks = 1

(* Once committed, memory and file know of nothing but the way back, so a  *)
(* restart cannot take the change for one that was not rolled back.        *)
OnlyBack ==
  Committed => /\ txn # None => txn.phase \in BackPhase
               /\ disk # None => disk.phase = "RollingBack"
               /\ result # None => result \in BackPhase

(* An intent to roll back outlives the write only until the call returns. *)
IntentSpent == rollbacks = 1 /\ RollbackDue => driver = "sent"

WishKept ==
  /\ txn # None /\ (txn.phase = "RollingBack" \/ Committed) => Wanted(txn)
  /\ disk # None /\ disk.phase = "RollingBack" => Wanted(disk)

Stopped == ~up => txn = None /\ driver = "none"

Unbegun == begun_at = None =>
  /\ txn = None /\ disk = None /\ driver = "none"
  /\ rollbacks = 0 /\ result = None

IInv ==
  /\ TypeOK /\ CountOK /\ OnlyBack /\ IntentSpent /\ WishKept
  /\ Stopped /\ Unbegun /\ EndedForGood

-----------------------------------------------------------------------------
(* Type correctness *)

(* What persist and finish leave behind. *)
LEMMA SettleEffect ==
  ASSUME TypeOK, NEW t \in Txn, NEW force, Settle(t, force)
  PROVE  /\ txn' = t
         /\ IsFinal(t) => disk' = None /\ result' = t.phase
         /\ ~IsFinal(t) => disk' \in {disk, t} /\ result' = result
         /\ txn' \in Txn \cup {None} /\ disk' \in Txn \cup {None}
         /\ saved_seen' \in Time
         /\ result' \in FinalPhase \cup {None}
<1>1. t.seen \in Time
  BY DEF Txn
<1> QED
  BY <1>1 DEF Settle, TypeOK, IsFinal

(* The transaction Begin starts with. *)
Begun(c) ==
  BeginApply(NewTxn([op |-> c.op, boot |-> boot, source |-> c.source,
                     target |-> c.target, old |-> c.old,
                     rollback_to |-> c.rollback_to, sim |-> c.sim,
                     conn |-> c.conn, confirm |-> c.confirm,
                     rollback_enabled |-> c.rollback_enabled], now))

(* It is a transaction, being applied. *)
LEMMA BegunType ==
  ASSUME TypeOK, NEW c \in Captures
  PROVE  Begun(c) \in Txn /\ Begun(c).phase = "Applying"
<1> DEFINE n == [op |-> c.op, boot |-> boot, source |-> c.source,
                 target |-> c.target, old |-> c.old,
                 rollback_to |-> c.rollback_to, sim |-> c.sim,
                 conn |-> c.conn, confirm |-> c.confirm,
                 rollback_enabled |-> c.rollback_enabled]
<1>1. n \in [op : Ops, boot : Nat, source : Source, target : Values,
             old : Values, rollback_to : Values, sim : SimId,
             conn : Conn \cup {None}, confirm : Confirm,
             rollback_enabled : BOOLEAN]
  <2>1. c \in [op : Ops, source : Source, target : Values, old : Values,
               rollback_to : Values, sim : SimId, conn : Conn \cup {None},
               confirm : Confirm, rollback_enabled : BOOLEAN]
    BY LifeAssumption
  <2>2. boot \in Nat
    BY DEF TypeOK
  <2> QED
    BY <2>1, <2>2
<1> HIDE DEF n
<1>2. Begun(c) \in Txn
  BY <1>1, BeginType DEF Begun, TypeOK, n
<1>3. Begun(c).phase = "Applying"
  BY DEF Begun, BeginApply, Step, NewTxn
<1> QED
  BY <1>2, <1>3

(* A judged reading is the device's answer, with or without a probe. *)
LEMMA JudgedType ==
  ASSUME NEW r \in Readings, NEW p \in BOOLEAN \cup {None}
  PROVE  [r EXCEPT !.probe = p] \in Reading
<1>1. r \in Reading
  BY LifeAssumption
<1> QED
  BY <1>1 DEF Reading

(* Every step keeps the types. *)
LEMMA TypeStep ==
  ASSUME TypeOK, [Next]_vars
  PROVE  TypeOK'
<1>1. CASE UNCHANGED vars
  BY <1>1 DEF TypeOK, vars
<1>2. ASSUME NEW c \in Captures, Begin(c)
      PROVE  TypeOK'
  <2>1. Settle(Begun(c), TRUE)
    BY <1>2 DEF Begin, Begun
  <2> QED
    BY <1>2, <2>1, BegunType, SettleEffect DEF Begin, TypeOK, world
<1>3. ASSUME NEW outcome \in Applied, ApplyReturns(outcome)
      PROVE  TypeOK'
  BY <1>3, ApplyReturnedType, SettleEffect DEF ApplyReturns, TypeOK, Live, world
<1>4. ASSUME NEW r \in Readings, Judge(r)
      PROVE  TypeOK'
  <2>1. PICK p \in BOOLEAN \cup {None} :
          LET reading == [r EXCEPT !.probe = p]
              t == OnReading(txn, reading, now)
          IN  /\ Settle(t, t.generation # txn.generation)
              /\ driver' = DriverAfter(t)
              /\ judged' = IF IsFinal(t) THEN reading ELSE judged
    BY <1>4 DEF Judge
  <2> DEFINE reading == [r EXCEPT !.probe = p]
             t == OnReading(txn, reading, now)
  <2>2. reading \in Reading
    BY JudgedType
  <2> HIDE DEF reading
  <2>3. t \in Txn
    BY <1>4, <2>2, OnReadingType DEF Judge, Live, TypeOK
  <2>4. /\ Settle(t, t.generation # txn.generation)
        /\ driver' = DriverAfter(t)
        /\ judged' = IF IsFinal(t) THEN reading ELSE judged
    BY <2>1 DEF reading
  <2> HIDE DEF t
  <2>5. matched' \in BOOLEAN
    BY <1>4 DEF Judge
  <2> QED
    BY <1>4, <2>2, <2>3, <2>4, <2>5, SettleEffect
    DEF Judge, TypeOK, DriverAfter, world
<1>5. CASE JudgeNothing
  <2>1. OnTick(txn, now) \in Txn
    BY <1>5, OnTickType DEF JudgeNothing, Live, TypeOK
  <2> QED
    BY <1>5, <2>1, SettleEffect DEF JudgeNothing, TypeOK, DriverAfter, world
<1>6. ASSUME NEW check \in {"Same", "Changed", "Unknown"}, CheckRollback(check)
      PROVE  TypeOK'
  <2> DEFINE t == IF check = "Changed" THEN Cancel(txn, "SimChanged") ELSE txn
  <2>1. t \in Txn
    BY <1>6, DecisionType DEF CheckRollback, RollbackDue, Live, TypeOK, Reason
  <2>2. Settle(t, TRUE)
    BY <1>6 DEF CheckRollback
  <2> HIDE DEF t
  <2>3. driver' \in {"none", "watch", "send", "sent"}
    BY <1>6 DEF CheckRollback
  <2> QED
    BY <1>6, <2>1, <2>2, <2>3, SettleEffect DEF CheckRollback, TypeOK, world
<1>7. CASE WriteRollback
  BY <1>7 DEF WriteRollback, TypeOK, world
<1>8. CASE RollbackReturns
  BY <1>8, RollbackSentType, SettleEffect
  DEF RollbackReturns, TypeOK, Live, world
<1>9. CASE UserRevert
  BY <1>9, DecisionType, SettleEffect
  DEF UserRevert, TypeOK, Live, world, Reason
<1>10. CASE UserKeep
  BY <1>10, DecisionType, SettleEffect DEF UserKeep, TypeOK, Live, world, Reason
<1>11. ASSUME NEW why \in {"Superseded", "Preempted", "OtherChange"},
              CancelFromOutside(why)
       PROVE  TypeOK'
  BY <1>11, DecisionType, SettleEffect
  DEF CancelFromOutside, TypeOK, Live, world, Reason
<1>12. CASE DriverExits
  BY <1>12 DEF DriverExits, TypeOK, world
<1>13. CASE Crash
  <2>1. up' \in BOOLEAN
    BY <1>13 DEF Crash
  <2>2. crashes' \in Nat /\ saved_seen' \in Time
    BY <1>13 DEF Crash, TypeOK, Time
  <2> QED
    BY <1>13, <2>1, <2>2 DEF Crash, TypeOK
<1>14. CASE Reboot
  BY <1>14 DEF Reboot, TypeOK, Time
<1>15. ASSUME NEW takeover \in BOOLEAN, Start(takeover)
       PROVE  TypeOK'
  <2>1. CASE disk = None
    BY <1>15, <2>1 DEF Start, TypeOK
  <2>2. CASE disk # None
    <3> DEFINE t == IF takeover THEN Cancel(disk, "Takeover")
                    ELSE Resume(disk, boot, now)
    <3>1. t \in Txn
      BY <2>2, DecisionType, ResumeType DEF TypeOK, Reason
    <3>2. Settle(t, TRUE) /\ driver' = DriverAfter(t)
      BY <1>15, <2>2 DEF Start
    <3> HIDE DEF t
    <3> QED
      BY <1>15, <3>1, <3>2, SettleEffect DEF Start, TypeOK, DriverAfter
  <2> QED
    BY <2>1, <2>2
<1>16. CASE Tick
  BY <1>16 DEF Tick, TypeOK, Time
<1> QED
  BY <1>1, <1>2, <1>3, <1>4, <1>5, <1>6, <1>7, <1>8, <1>9, <1>10, <1>11,
     <1>12, <1>13, <1>14, <1>15, <1>16
  DEF Next

(* It starts well typed. *)
LEMMA InitType ==
  ASSUME Init
  PROVE  TypeOK
<1>1. up \in BOOLEAN /\ matched \in BOOLEAN
  BY DEF Init
<1>2. /\ now \in Time /\ saved_seen \in Time
      /\ boot \in Nat /\ crashes \in Nat /\ rollbacks \in Nat
  BY DEF Init, Time
<1> QED
  BY <1>1, <1>2 DEF Init, TypeOK

(* The types hold throughout: no step of the transaction, with whatever    *)
(* the device answers, leaves a record the code's types do not admit.      *)
THEOREM TypeCorrect == Spec => []TypeOK
<1>1. Init => TypeOK
  BY InitType
<1>2. TypeOK /\ [Next]_vars => TypeOK'
  BY TypeStep
<1> QED
  BY <1>1, <1>2, PTL DEF Spec

-----------------------------------------------------------------------------
(* The invariant is inductive *)

(* A section that settles a live transaction by a good step keeps the      *)
(* invariant, if it gets the driver and the count right.                   *)
LEMMA LiveSettle ==
  ASSUME IInv, TypeOK', Live,
         NEW t \in Txn, NEW force, Settle(t, force), GoodStep(txn, t),
         UNCHANGED <<up, begun_at>>, CountOK', IntentSpent',
         Committed' => txn.phase = "RollingBack" /\ (Committed \/ force)
  PROVE  IInv'
<1>1. /\ txn' = t
      /\ IsFinal(t) => disk' = None /\ result' = t.phase
      /\ ~IsFinal(t) => disk' \in {disk, t} /\ result' = result
      /\ ~IsFinal(t) /\ force => disk' = t
  BY SettleEffect DEF IInv, Settle
<1>2. txn # None /\ up /\ begun_at # None
  BY DEF Live, IInv, Stopped, Unbegun
<1>3. result = None
  BY <1>2 DEF Live, IsFinal, IInv, EndedForGood, TypeOK
<1>4. t.phase \in BackPhase /\ ~IsFinal(t) => t.phase = "RollingBack"
  BY DEF BackPhase, IsFinal, FinalPhase
<1>5. OnlyBack'
  <2> SUFFICES ASSUME Committed'
               PROVE  /\ t.phase \in BackPhase
                      /\ disk' # None => disk'.phase = "RollingBack"
                      /\ result' # None => result' \in BackPhase
    BY <1>1 DEF OnlyBack
  <2>1. t.phase \in BackPhase
    BY DEF GoodStep
  <2>2. CASE IsFinal(t)
    BY <2>1, <2>2, <1>1
  <2>3. CASE ~IsFinal(t)
    <3>1. disk' # t => Committed /\ disk' = disk
      BY <2>3, <1>1
    <3>2. Committed /\ disk # None => disk.phase = "RollingBack"
      BY DEF IInv, OnlyBack
    <3> QED
      BY <2>1, <2>3, <3>1, <3>2, <1>1, <1>3, <1>4
  <2> QED
    BY <2>2, <2>3
<1>6. WishKept'
  <2>1. Committed => txn.phase = "RollingBack"
    BY <1>2 DEF IInv, OnlyBack, BackPhase, Live, IsFinal, FinalPhase
  <2>2. txn.phase = "RollingBack" => Wanted(txn)
    BY <1>2 DEF IInv, WishKept
  <2>3. t.phase = "RollingBack" \/ Committed' => Wanted(t)
    BY <2>1, <2>2 DEF GoodStep, SameWish, Wanted
  <2>4. disk # None /\ disk.phase = "RollingBack" => Wanted(disk)
    BY DEF IInv, WishKept
  <2> QED
    BY <2>3, <2>4, <1>1 DEF WishKept
<1>7. Stopped' /\ Unbegun'
  BY <1>2 DEF Stopped, Unbegun
<1>8. EndedForGood'
  BY <1>1, <1>3 DEF EndedForGood
<1> QED
  BY <1>5, <1>6, <1>7, <1>8 DEF IInv

(* Nothing but the clock, the boot id or the driver's exit changes. *)
LEMMA IdleStep ==
  ASSUME IInv, TypeOK',
         UNCHANGED <<txn, disk, up, begun_at, rollbacks, result>>,
         driver' = driver \/ (driver = "watch" /\ driver' = "none")
  PROVE  IInv'
<1>1. Committed' <=> Committed
  BY DEF Committed
<1>2. CountOK' /\ IntentSpent'
  BY DEF IInv, CountOK, IntentSpent, RollbackDue, Live, IsFinal
<1>3. OnlyBack' /\ WishKept'
  BY <1>1 DEF IInv, OnlyBack, WishKept, Wanted
<1>4. Stopped' /\ Unbegun' /\ EndedForGood'
  BY DEF IInv, Stopped, Unbegun, EndedForGood
<1> QED
  BY <1>2, <1>3, <1>4 DEF IInv

(* An intent is never the absent value. *)
LEMMA NoneIsNoIntent == None # "Rollback"
BY TxnAssumption DEF Intent

(* The driver judges: what is counting carries no intent, so no rollback   *)
(* is written a second time.                                               *)
LEMMA JudgedStep ==
  ASSUME IInv, TypeOK', Live, Counting(txn), driver = "watch",
         NEW t \in Txn, NEW force, Settle(t, force), GoodStep(txn, t),
         driver' = DriverAfter(t), UNCHANGED <<up, begun_at, rollbacks>>
  PROVE  IInv'
<1>1. driver' \in {"none", "watch"} /\ txn' = t
  BY DEF DriverAfter, Settle
<1>2. CountOK' /\ (Committed' => Committed)
  BY <1>1 DEF IInv, CountOK, Committed
<1>3. Committed => txn.phase = "RollingBack"
  BY DEF IInv, OnlyBack, BackPhase, Live, IsFinal, FinalPhase
<1>4. IntentSpent'
  <2>1. rollbacks = 1 => t.intent = None
    BY <1>3 DEF Committed, Counting, GoodStep
  <2> QED
    BY <2>1, <1>1, NoneIsNoIntent DEF IntentSpent, RollbackDue
<1> QED
  BY <1>2, <1>3, <1>4, LiveSettle

(* The write of a rollback: decided before, counted now. *)
LEMMA WriteRollbackStep ==
  ASSUME IInv, TypeOK', WriteRollback
  PROVE  IInv'
<1>1. Committed /\ Committed'
  BY DEF WriteRollback, IInv, CountOK, Committed
<1>2. CountOK' /\ IntentSpent'
  BY DEF WriteRollback, IInv, CountOK, IntentSpent
<1>3. OnlyBack' /\ WishKept'
  BY <1>1 DEF WriteRollback, IInv, OnlyBack, WishKept, Wanted
<1>4. Stopped' /\ Unbegun' /\ EndedForGood'
  BY DEF WriteRollback, IInv, Stopped, Unbegun, EndedForGood, world
<1> QED
  BY <1>2, <1>3, <1>4 DEF IInv

(* send_rollback decides to write, gives up, or tries again. *)
LEMMA CheckRollbackStep ==
  ASSUME IInv, TypeOK', NEW check \in {"Same", "Changed", "Unknown"},
         CheckRollback(check)
  PROVE  IInv'
<1> DEFINE t == IF check = "Changed" THEN Cancel(txn, "SimChanged") ELSE txn
<1>1. Live /\ txn.phase = "RollingBack" /\ txn \in Txn
  BY DEF CheckRollback, RollbackDue, Live, IInv, TypeOK
<1>2. t \in Txn /\ GoodStep(txn, t)
  BY <1>1, DecisionType, CancelGood
  DEF GoodStep, SameWish, BackPhase, Reason
<1>3. Settle(t, TRUE)
  BY DEF CheckRollback
<1> HIDE DEF t
<1>4. rollbacks = 0 /\ rollbacks' = 0
  BY DEF CheckRollback, IInv, IntentSpent, CountOK
<1>5. driver' \in {"none", "watch", "send"}
  BY DEF CheckRollback
<1>6. CountOK' /\ IntentSpent'
  BY <1>4, <1>5 DEF CountOK, IntentSpent
<1> QED
  BY <1>1, <1>2, <1>3, <1>6, LiveSettle DEF CheckRollback, world

(* The rollback's write came back. *)
LEMMA RollbackReturnsStep ==
  ASSUME IInv, TypeOK', RollbackReturns
  PROVE  IInv'
<1>1. rollbacks = 1 /\ rollbacks' = 1 /\ Committed /\ Committed'
  BY DEF RollbackReturns, IInv, CountOK, Committed
<1>2. CASE Live
  <2> DEFINE t == RollbackSent(txn, now)
  <2>1. txn.phase = "RollingBack" /\ txn \in Txn /\ now \in Time
    BY <1>1, <1>2
    DEF IInv, OnlyBack, BackPhase, Live, IsFinal, FinalPhase, TypeOK
  <2>2. t \in Txn /\ GoodStep(txn, t) /\ t.intent = None
    BY <2>1, RollbackSentType, RollbackSentGood
  <2>3. Settle(t, TRUE) /\ driver' = "watch"
    BY <1>2 DEF RollbackReturns
  <2> HIDE DEF t
  <2>4. CountOK'
    BY <1>1, <2>3 DEF CountOK
  <2>5. IntentSpent'
    BY <2>2, <2>3, NoneIsNoIntent DEF IntentSpent, RollbackDue, Settle
  <2> QED
    BY <1>1, <1>2, <2>1, <2>2, <2>3, <2>4, <2>5, LiveSettle
    DEF RollbackReturns, world
<1>3. CASE ~Live
  <2>1. UNCHANGED <<txn, disk, up, begun_at, rollbacks, result>>
    BY <1>3 DEF RollbackReturns, world
  <2>2. CountOK' /\ IntentSpent'
    BY <1>1, <1>3, <2>1
    DEF RollbackReturns, CountOK, IntentSpent, RollbackDue, Live
  <2>3. OnlyBack' /\ WishKept'
    BY <1>1, <2>1 DEF IInv, OnlyBack, WishKept, Wanted
  <2>4. Stopped' /\ Unbegun' /\ EndedForGood'
    BY <1>3, <2>1
    DEF RollbackReturns, IInv, Stopped, Unbegun, EndedForGood
  <2> QED
    BY <2>2, <2>3, <2>4 DEF IInv
<1> QED
  BY <1>2, <1>3

(* revert, keep and cancel, while the driver may be anywhere. *)
LEMMA DecisionStep ==
  ASSUME IInv, TypeOK', Live,
         NEW t \in Txn, Settle(t, TRUE), GoodStep(txn, t),
         IsFinal(t) \/ txn.phase = "Verifying",
         UNCHANGED <<up, begun_at, rollbacks, driver>>
  PROVE  IInv'
<1>1. txn' = t /\ (Committed' <=> Committed) /\ CountOK'
  BY DEF Settle, Committed, IInv, CountOK
<1>2. Committed => txn.phase = "RollingBack"
  BY DEF IInv, OnlyBack, BackPhase, Live, IsFinal, FinalPhase
<1>3. IntentSpent'
  BY <1>1, <1>2 DEF IntentSpent, RollbackDue, Live, Committed
<1> QED
  BY <1>1, <1>2, <1>3, LiveSettle

(* Engine::start *)
LEMMA StartStep ==
  ASSUME IInv, TypeOK', NEW takeover \in BOOLEAN, Start(takeover)
  PROVE  IInv'
<1>1. txn = None /\ driver = "none" /\ rollbacks' = rollbacks
  BY DEF Start, IInv, Stopped
<1>2. CASE disk = None
  <2>1. UNCHANGED <<txn, disk, driver, rollbacks, result, begun_at>> /\ up'
    BY <1>2 DEF Start
  <2>2. CountOK' /\ OnlyBack' /\ IntentSpent' /\ WishKept'
    BY <1>1, <2>1
    DEF IInv, CountOK, OnlyBack, IntentSpent, WishKept, Committed, RollbackDue,
        Live
  <2> QED
    BY <2>1, <2>2 DEF IInv, Stopped, Unbegun, EndedForGood
<1>3. CASE disk # None
  <2> DEFINE t == IF takeover THEN Cancel(disk, "Takeover")
                  ELSE Resume(disk, boot, now)
  <2>1. disk \in Txn /\ boot \in Nat /\ now \in Time
    BY <1>3 DEF IInv, TypeOK
  <2>2. t \in Txn
    BY <2>1, DecisionType, ResumeType DEF Reason
  <2>3. disk.phase = "RollingBack" =>
          /\ t.phase \in BackPhase /\ SameWish(disk, t)
          /\ t.phase = "RollingBack" => t.intent = None
    BY <2>1, CancelGood, ResumeGood
    DEF GoodStep, BackPhase, IsFinal, FinalPhase
  <2>4. disk.phase # "RollingBack" /\ t.phase = "RollingBack" => Wanted(t)
    BY <2>1, CancelGood, ResumeGood DEF GoodStep
  <2>5. Settle(t, TRUE) /\ driver' = DriverAfter(t) /\ up'
    BY <1>3 DEF Start
  <2> HIDE DEF t
  <2>6. /\ txn' = t
        /\ IsFinal(t) => disk' = None /\ result' = t.phase
        /\ ~IsFinal(t) => disk' = t /\ result' = result
        /\ driver' \in {"none", "watch"}
    BY <2>5 DEF Settle, DriverAfter
  <2>7. begun_at # None /\ begun_at' = begun_at /\ result = None
    BY <1>3 DEF Start, IInv, Unbegun, EndedForGood
  <2>8. (Committed' => Committed) /\ CountOK'
    BY <1>1, <2>6 DEF Committed, IInv, CountOK
  <2>9. Committed => disk.phase = "RollingBack"
    BY <1>3 DEF IInv, OnlyBack
  <2>10. t.phase \in BackPhase /\ ~IsFinal(t) => t.phase = "RollingBack"
    BY DEF BackPhase, IsFinal, FinalPhase
  <2>11. OnlyBack'
    BY <2>3, <2>6, <2>7, <2>8, <2>9, <2>10 DEF OnlyBack
  <2>12. IntentSpent'
    BY <1>1, <2>3, <2>6, <2>9, NoneIsNoIntent
    DEF IntentSpent, RollbackDue, Committed
  <2>13. WishKept'
    <3>1. disk.phase = "RollingBack" => Wanted(disk)
      BY <1>3 DEF IInv, WishKept
    <3>2. t.phase = "RollingBack" \/ Committed' => Wanted(t)
      BY <3>1, <2>3, <2>4, <2>8, <2>9 DEF SameWish, Wanted
    <3> QED
      BY <3>2, <2>6 DEF WishKept
  <2>14. Stopped' /\ Unbegun' /\ EndedForGood'
    BY <2>5, <2>6, <2>7 DEF Stopped, Unbegun, EndedForGood
  <2> QED
    BY <2>8, <2>11, <2>12, <2>13, <2>14 DEF IInv
<1> QED
  BY <1>2, <1>3

(* The process stops: only the file is left. *)
LEMMA CrashStep ==
  ASSUME IInv, TypeOK', Crash
  PROVE  IInv'
<1>1. /\ txn' = None /\ driver' = "none" /\ ~up'
      /\ UNCHANGED <<disk, begun_at, rollbacks, result>>
  BY DEF Crash
<1>2. (Committed' => Committed) /\ CountOK' /\ IntentSpent'
  BY <1>1 DEF Committed, IInv, CountOK, IntentSpent, RollbackDue, Live
<1>3. OnlyBack' /\ WishKept'
  BY <1>1, <1>2 DEF IInv, OnlyBack, WishKept, Wanted
<1>4. Stopped' /\ Unbegun' /\ EndedForGood'
  BY <1>1 DEF IInv, Stopped, Unbegun, EndedForGood
<1> QED
  BY <1>2, <1>3, <1>4 DEF IInv

(* submit: the one beginning. *)
LEMMA BeginStep ==
  ASSUME IInv, TypeOK', NEW c \in Captures, Begin(c)
  PROVE  IInv'
<1> DEFINE t == Begun(c)
<1>1. t \in Txn /\ t.phase = "Applying" /\ Settle(t, TRUE)
  BY BegunType DEF Begin, Begun, IInv
<1> HIDE DEF t
<1>2. /\ rollbacks = 0 /\ rollbacks' = 0 /\ driver' = "none"
      /\ up' = up /\ up /\ result = None
  BY DEF Begin, IInv, Unbegun, world
<1>3. txn' = t /\ disk' = t /\ result' = None
  BY <1>1, <1>2 DEF Settle, IsFinal, FinalPhase
<1>4. begun_at' # None
  <2>1. begun_at' = now
    BY DEF Begin
  <2>2. now \in Time
    BY DEF IInv, TypeOK
  <2> QED
    BY <2>1, <2>2, TxnAssumption DEF Time
<1>5. ~Committed' /\ CountOK' /\ IntentSpent'
  BY <1>2 DEF Committed, CountOK, IntentSpent
<1>6. OnlyBack' /\ WishKept'
  BY <1>1, <1>3, <1>5 DEF OnlyBack, WishKept
<1>7. Stopped' /\ Unbegun' /\ EndedForGood'
  BY <1>2, <1>3, <1>4 DEF Stopped, Unbegun, EndedForGood
<1> QED
  BY <1>5, <1>6, <1>7 DEF IInv

(* Every step keeps the invariant. *)
LEMMA InvariantStep ==
  ASSUME IInv, [Next]_vars
  PROVE  IInv'
<1>1. TypeOK'
  BY TypeStep DEF IInv
<1>2. CASE UNCHANGED vars
  <2>1. UNCHANGED <<txn, disk, up, begun_at, rollbacks, result>>
    BY <1>2 DEF vars
  <2>2. driver' = driver \/ (driver = "watch" /\ driver' = "none")
    BY <1>2 DEF vars
  <2> QED
    BY <1>1, <2>1, <2>2, IdleStep
<1>3. ASSUME NEW c \in Captures, Begin(c)
      PROVE  IInv'
  BY <1>1, <1>3, BeginStep
<1>4. ASSUME NEW outcome \in Applied, ApplyReturns(outcome)
      PROVE  IInv'
  <2> DEFINE t == ApplyReturned(txn, outcome, now)
  <2>1. Live /\ txn.phase = "Applying" /\ txn \in Txn /\ now \in Time
    BY <1>4 DEF ApplyReturns, Live, IInv, TypeOK
  <2>2. t \in Txn
    BY <2>1, ApplyReturnedType
  <2>3. t.phase = "Verifying"
    BY <2>1 DEF ApplyReturned, Step, Txn
  <2> HIDE DEF t
  <2>4. Settle(t, TRUE) /\ driver' = "watch" /\ rollbacks' = rollbacks
    BY <1>4 DEF ApplyReturns, t
  <2>5. rollbacks = 0
    BY <2>1 DEF IInv, OnlyBack, BackPhase, Committed, CountOK, Live
  <2>6. ~Committed' /\ CountOK' /\ IntentSpent'
    BY <2>4, <2>5 DEF Committed, CountOK, IntentSpent
  <2>7. GoodStep(txn, t)
    BY <2>1, <2>3 DEF GoodStep
  <2> QED
    BY <1>1, <1>4, <2>1, <2>2, <2>4, <2>6, <2>7, LiveSettle
    DEF ApplyReturns, world
<1>5. ASSUME NEW r \in Readings, Judge(r)
      PROVE  IInv'
  <2>1. PICK p \in BOOLEAN \cup {None} :
          LET reading == [r EXCEPT !.probe = p]
              t == OnReading(txn, reading, now)
          IN  /\ Settle(t, t.generation # txn.generation)
              /\ driver' = DriverAfter(t)
    BY <1>5 DEF Judge
  <2> DEFINE reading == [r EXCEPT !.probe = p]
             t == OnReading(txn, reading, now)
  <2>2. reading \in Reading
    BY JudgedType
  <2> HIDE DEF reading
  <2>3. Live /\ txn \in Txn /\ now \in Time
    BY <1>5 DEF Judge, Live, IInv, TypeOK
  <2>4. t \in Txn /\ GoodStep(txn, t)
    BY <2>2, <2>3, OnReadingType, OnReadingGood
  <2>5. Settle(t, t.generation # txn.generation) /\ driver' = DriverAfter(t)
    BY <2>1 DEF reading
  <2> HIDE DEF t
  <2> QED
    BY <1>1, <1>5, <2>3, <2>4, <2>5, JudgedStep DEF Judge, world
<1>6. CASE JudgeNothing
  <2> DEFINE t == OnTick(txn, now)
  <2>1. Live /\ txn \in Txn /\ now \in Time
    BY <1>6 DEF JudgeNothing, Live, IInv, TypeOK
  <2>2. t \in Txn /\ GoodStep(txn, t)
    BY <2>1, OnTickType, OnTickGood
  <2>3. Settle(t, t.generation # txn.generation) /\ driver' = DriverAfter(t)
    BY <1>6 DEF JudgeNothing
  <2> HIDE DEF t
  <2> QED
    BY <1>1, <1>6, <2>1, <2>2, <2>3, JudgedStep DEF JudgeNothing, world
<1>7. ASSUME NEW check \in {"Same", "Changed", "Unknown"}, CheckRollback(check)
      PROVE  IInv'
  BY <1>1, <1>7, CheckRollbackStep
<1>8. CASE WriteRollback
  BY <1>1, <1>8, WriteRollbackStep
<1>9. CASE RollbackReturns
  BY <1>1, <1>9, RollbackReturnsStep
<1>10. CASE UserRevert
  <2>1. Live /\ txn.phase = "Verifying" /\ txn \in Txn
    BY <1>10 DEF UserRevert, CanDecide, Live, IInv, TypeOK
  <2>2. Revert(txn) \in Txn
    BY <2>1, DecisionType DEF Reason
  <2>3. GoodStep(txn, Revert(txn))
    BY <1>10, <2>1, StartRollbackFields DEF UserRevert, Revert, GoodStep, Wanted
  <2> QED
    BY <1>1, <1>10, <2>1, <2>2, <2>3, DecisionStep DEF UserRevert, world
<1>11. CASE UserKeep
  <2>1. Live /\ txn.phase = "Verifying" /\ txn \in Txn
    BY <1>11 DEF UserKeep, CanDecide, Live, IInv, TypeOK
  <2>2. Keep(txn) \in Txn
    BY <2>1, DecisionType DEF Reason
  <2>3. GoodStep(txn, Keep(txn))
    BY <1>11, <2>1, FinishFields DEF UserKeep, Keep, GoodStep
  <2> QED
    BY <1>1, <1>11, <2>1, <2>2, <2>3, DecisionStep DEF UserKeep, world
<1>12. ASSUME NEW why \in {"Superseded", "Preempted", "OtherChange"},
              CancelFromOutside(why)
       PROVE  IInv'
  <2>1. Live /\ txn \in Txn
    BY <1>12 DEF CancelFromOutside, Live, IInv, TypeOK
  <2>2. /\ Cancel(txn, why) \in Txn /\ GoodStep(txn, Cancel(txn, why))
        /\ IsFinal(Cancel(txn, why))
    BY <2>1, DecisionType, CancelGood DEF Reason
  <2> QED
    BY <1>1, <1>12, <2>1, <2>2, DecisionStep DEF CancelFromOutside, world
<1>13. CASE DriverExits
  BY <1>1, <1>13, IdleStep DEF DriverExits, world
<1>14. CASE Crash
  BY <1>1, <1>14, CrashStep
<1>15. CASE Reboot
  <2>1. UNCHANGED <<txn, disk, up, begun_at, rollbacks, result>>
    BY <1>15 DEF Reboot
  <2>2. driver' = driver \/ (driver = "watch" /\ driver' = "none")
    BY <1>15 DEF Reboot
  <2> QED
    BY <1>1, <2>1, <2>2, IdleStep
<1>16. ASSUME NEW takeover \in BOOLEAN, Start(takeover)
       PROVE  IInv'
  BY <1>1, <1>16, StartStep
<1>17. CASE Tick
  <2>1. UNCHANGED <<txn, disk, up, begun_at, rollbacks, result>>
    BY <1>17 DEF Tick
  <2>2. driver' = driver \/ (driver = "watch" /\ driver' = "none")
    BY <1>17 DEF Tick
  <2> QED
    BY <1>1, <2>1, <2>2, IdleStep
<1> QED
  BY <1>2, <1>3, <1>4, <1>5, <1>6, <1>7, <1>8, <1>9, <1>10, <1>11, <1>12,
     <1>13, <1>14, <1>15, <1>16, <1>17
  DEF Next

(* The strengthened invariant holds throughout. *)
THEOREM Invariant == Spec => []IInv
<1>1. Init => IInv
  <2> SUFFICES ASSUME Init
               PROVE  IInv
    OBVIOUS
  <2>1. TypeOK
    BY InitType
  <2>2. CountOK /\ OnlyBack /\ IntentSpent /\ WishKept
    BY DEF Init, CountOK, OnlyBack, IntentSpent, WishKept, Committed
  <2>3. Stopped /\ Unbegun /\ EndedForGood
    BY DEF Init, Stopped, Unbegun, EndedForGood
  <2> QED
    BY <2>1, <2>2, <2>3 DEF IInv
<1>2. IInv /\ [Next]_vars => IInv'
  BY InvariantStep
<1> QED
  BY <1>1, <1>2, PTL DEF Spec

(* At most one rollback write goes to the device, over any number of       *)
(* crashes, restarts and reboots (send_rollback, rollback_sent, resume).   *)
THEOREM RollsBackOnce == Spec => []RollbackOnce
<1>1. IInv => RollbackOnce
  BY DEF IInv, CountOK, RollbackOnce
<1> QED
  BY <1>1, Invariant, PTL

(* With automatic rollback off only the user's revert writes the old value *)
(* back (expire, revert, resume).                                          *)
THEOREM RollsBackOnlyIfWanted == Spec => []RollbackWanted
<1>1. IInv => RollbackWanted
  BY DEF IInv, WishKept, Committed, Wanted, RollbackWanted
<1> QED
  BY <1>1, Invariant, PTL

(* A change reported as not applied was never rolled back (on_tick,        *)
(* on_reading, resume).                                                    *)
THEOREM IgnoredIsUntouched == Spec => []IgnoredUntouched
<1>1. IInv => IgnoredUntouched
  <2>1. ASSUME IInv, result = "NotApplied"
        PROVE  rollbacks = 0
    <3>1. result # None
      BY <2>1, TxnAssumption DEF Phase, FinalPhase
    <3>2. result \notin BackPhase
      BY <2>1 DEF BackPhase
    <3> QED
      BY <2>1, <3>1, <3>2 DEF IInv, OnlyBack, CountOK, Committed
  <2> QED
    BY <2>1 DEF IgnoredUntouched
<1> QED
  BY <1>1, Invariant, PTL

(* A change that ended leaves nothing to resume (finish, start). *)
THEOREM EndsForGood == Spec => []EndedForGood
<1>1. IInv => EndedForGood
  BY DEF IInv
<1> QED
  BY <1>1, Invariant, PTL
=============================================================================
