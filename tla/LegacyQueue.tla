---------------------------- MODULE LegacyQueue ----------------------------
(***************************************************************************)
(* The requests without a source and the network search session, the other *)
(* two users of the engine's lock in rust/src/ops/engine.rs: legacy_gate,  *)
(* enqueue_legacy, kick_legacy with its draining flag, preempt,            *)
(* clear_legacy, and the session lease.                                    *)
(*                                                                         *)
(* The transaction is reduced to what these look at (Engine has the rest): *)
(* none, being written, or waiting.  A transaction that ends leaves a      *)
(* kick_legacy call to come: its driver makes it when it finds the         *)
(* transaction gone, or submit, keep, other_write or interrupt does.       *)
(***************************************************************************)
EXTENDS Integers, Sequences, SequencesExt

CONSTANTS
  None,
  Item,        \* Item[r]: the item request r changes; requests arrive in order
  MaxReq,      \* bound: legacy requests
  Ids,         \* session ids
  Drainers,    \* identities for the tasks kick_legacy spawns
  Ttl,         \* legacy_ttl_ms
  Lease,       \* SESSION_LEASE_MS
  SessionMax,  \* SESSION_MAX_MS
  MaxTxns,     \* bound: transactions
  MaxFull,     \* bound: times the executor's queue is full
  MaxClears    \* bound: safety writes, reboots

ASSUME QueueAssumption ==
  /\ MaxReq \in Nat /\ Item \in [1..MaxReq -> STRING]
  /\ None \notin Ids
  /\ Ttl \in Nat /\ Lease \in Nat /\ SessionMax \in Nat
  /\ MaxTxns \in Nat /\ MaxFull \in Nat /\ MaxClears \in Nat

VARIABLES
  txn,       \* "none", "writing", or "waiting": may be overridden
  session,   \* St::session, with the time since it was opened and renewed
  watchers,  \* the tasks that watch over a session, by its id
  legacy,    \* St::legacy, each with the time since it came
  req,       \* the request handlers: "idle", "run", "enqueue", "done"
  kicks,     \* kick_legacy calls to come
  draining,  \* Inner::draining
  drainer,   \* the drain tasks
  handed,    \* history: the requests given to the executor
  budget     \* what is left of the bounds

vars == <<txn, session, watchers, legacy, req, kicks, draining, drainer, handed,
          budget>>

Reqs == 1..MaxReq
NoTask == [pc |-> "none", r |-> None]

Init ==
  /\ txn = "none" /\ session = None /\ watchers = {}
  /\ legacy = <<>>
  /\ req = [r \in Reqs |-> "idle"]
  /\ kicks = 0 /\ draining = FALSE
  /\ drainer = [d \in Drainers |-> NoTask]
  /\ handed = {}
  /\ budget = [txns |-> MaxTxns, full |-> MaxFull, clears |-> MaxClears]

Spend(what) ==
  /\ budget[what] > 0
  /\ budget' = [budget EXCEPT ![what] = @ - 1]

-----------------------------------------------------------------------------
(* Requests without a source *)

Free == txn = "none" /\ session = None

Queued(item) == \E i \in DOMAIN legacy : Item[legacy[i].r] = item

(* The executor takes the request, or its queue is full. *)
Hand(r, taken, full) ==
  \/ /\ handed' = handed \cup {r}
     /\ taken
     /\ UNCHANGED budget
  \/ /\ Spend("full")
     /\ full
     /\ UNCHANGED handed

SetReq(r, pc) == req' = [req EXCEPT ![r] = pc]

(* legacy_gate: pass, supersede a waiting transaction and pass, or queue.  *)
(* Requests are numbered as they arrive.                                   *)
Arrive(r) ==
  /\ req[r] = "idle" /\ \A q \in 1..(r - 1) : req[q] # "idle"
  /\ IF Free \/ (session = None /\ txn = "waiting")
     THEN /\ txn' = "none"
          /\ kicks' = IF txn = "none" THEN kicks ELSE kicks + 1
          /\ SetReq(r, "run")
     ELSE SetReq(r, "enqueue") /\ UNCHANGED <<txn, kicks>>
  /\ UNCHANGED <<session, watchers, legacy, draining, drainer, handed, budget>>

(* The rest of handle for a request that passed: nothing is asked again.   *)
RunRequest(r) ==
  /\ req[r] = "run"
  /\ Hand(r, SetReq(r, "done"), SetReq(r, "enqueue"))
  /\ UNCHANGED <<txn, session, watchers, legacy, kicks, draining, drainer>>

(* enqueue_legacy: only the newest of an item is kept. *)
Enqueue(r) ==
  /\ req[r] = "enqueue"
  /\ SetReq(r, "done")
  /\ LET Other(q) == Item[q.r] # Item[r]
     IN  legacy' = Append(SelectSeq(legacy, Other), [r |-> r, age |-> 0])
  /\ kicks' = kicks + 1
  /\ UNCHANGED <<txn, session, watchers, draining, drainer, handed, budget>>

(* preempt: a safety write. *)
Preempt ==
  /\ Spend("clears")
  /\ txn' = "none"
  /\ kicks' = IF txn = "none" THEN kicks ELSE kicks + 1
  /\ legacy' = <<>>
  /\ UNCHANGED <<session, watchers, req, draining, drainer, handed>>

(* clear_legacy: the device is about to reboot or power off. *)
ClearLegacy ==
  /\ Spend("clears")
  /\ legacy' = <<>>
  /\ UNCHANGED <<txn, session, watchers, req, kicks, draining, drainer,
                 handed>>

-----------------------------------------------------------------------------
(* kick_legacy *)

SetDrainer(d, pc, r) == drainer' = [drainer EXCEPT ![d] = [pc |-> pc, r |-> r]]

(* Mutant: the flag is raised without asking whether it was up. *)
KickAlways ==
  /\ kicks > 0
  /\ kicks' = kicks - 1
  /\ draining' = TRUE
  /\ \E d \in Drainers :
       drainer[d].pc = "none" /\ SetDrainer(d, "pick", None)
  /\ UNCHANGED <<txn, session, watchers, legacy, req, handed, budget>>

(* One call: whoever raises the flag spawns the task. *)
Kick ==
  /\ kicks > 0
  /\ kicks' = kicks - 1
  /\ draining' = TRUE
  /\ \/ draining /\ UNCHANGED drainer
     \/ /\ ~draining
        /\ \E d \in Drainers :
             drainer[d].pc = "none" /\ SetDrainer(d, "pick", None)
  /\ UNCHANGED <<txn, session, watchers, legacy, req, handed, budget>>

(* Nothing while the lock is taken; else drop the expired ones, pop one. *)
Pick(d) ==
  /\ drainer[d].pc = "pick"
  /\ LET Fresh(q) == q.age < Ttl
         fresh == SelectSeq(legacy, Fresh)
     IN  IF ~Free
         THEN SetDrainer(d, "release", None) /\ UNCHANGED legacy
         ELSE IF fresh = <<>>
         THEN SetDrainer(d, "release", None) /\ legacy' = fresh
         ELSE SetDrainer(d, "run", Head(fresh)) /\ legacy' = Tail(fresh)
  /\ UNCHANGED <<txn, session, watchers, req, kicks, draining, handed, budget>>

Release(d) ==
  /\ drainer[d].pc = "release"
  /\ draining' = FALSE
  /\ SetDrainer(d, "recheck", None)
  /\ UNCHANGED <<txn, session, watchers, legacy, req, kicks, handed, budget>>

(* Mutant: the task does not look again after lowering the flag. *)
RecheckNever(d) ==
  /\ drainer[d].pc = "recheck"
  /\ SetDrainer(d, "none", None)
  /\ UNCHANGED <<txn, session, watchers, legacy, req, kicks, draining, handed,
                 budget>>

(* Work that came after the flag was lowered: try to raise it again. *)
Recheck(d) ==
  /\ drainer[d].pc = "recheck"
  /\ IF Free /\ legacy # <<>> THEN SetDrainer(d, "grab", None)
     ELSE SetDrainer(d, "none", None)
  /\ UNCHANGED <<txn, session, watchers, legacy, req, kicks, draining, handed,
                 budget>>

Grab(d) ==
  /\ drainer[d].pc = "grab"
  /\ draining' = TRUE
  /\ SetDrainer(d, IF draining THEN "none" ELSE "pick", None)
  /\ UNCHANGED <<txn, session, watchers, legacy, req, kicks, handed, budget>>

(* Mutant: a request the executor took is put back as well. *)
RunAndKeep(d) ==
  /\ drainer[d].pc = "run"
  /\ Hand(drainer[d].r.r, SetDrainer(d, "requeue", drainer[d].r),
          SetDrainer(d, "requeue", drainer[d].r))
  /\ UNCHANGED <<txn, session, watchers, legacy, req, kicks, draining>>

(* The request runs as it would have without the queue, or it has to wait. *)
Run(d) ==
  /\ drainer[d].pc = "run"
  /\ Hand(drainer[d].r.r, SetDrainer(d, "pick", None),
          SetDrainer(d, "requeue", drainer[d].r))
  /\ UNCHANGED <<txn, session, watchers, legacy, req, kicks, draining>>

(* Mutant: a newer request of the item is not looked for. *)
RequeueBlindly(d) ==
  /\ drainer[d].pc = "requeue"
  /\ legacy' = <<drainer[d].r>> \o legacy
  /\ SetDrainer(d, "pick", None)
  /\ UNCHANGED <<txn, session, watchers, req, kicks, draining, handed, budget>>

(* The executor's queue was full: back to the front, unless a newer one of *)
(* the item is there.  Then the task sleeps for a second.                  *)
Requeue(d) ==
  /\ drainer[d].pc = "requeue"
  /\ legacy' = IF Queued(Item[drainer[d].r.r]) THEN legacy
               ELSE <<drainer[d].r>> \o legacy
  /\ SetDrainer(d, "pick", None)
  /\ UNCHANGED <<txn, session, watchers, req, kicks, draining, handed, budget>>

-----------------------------------------------------------------------------
(* The transaction, as far as it matters here *)

(* Mutant: a session does not keep transactions out. *)
TxnBeginsAnyway ==
  /\ txn \in {"none", "waiting"} /\ Spend("txns")
  /\ txn' = "writing"
  /\ kicks' = IF txn = "none" THEN kicks ELSE kicks + 1
  /\ UNCHANGED <<session, watchers, legacy, req, draining, drainer, handed>>

(* submit: admitted, or an override. *)
TxnBegins ==
  /\ session = None /\ txn \in {"none", "waiting"} /\ Spend("txns")
  /\ txn' = "writing"
  /\ kicks' = IF txn = "none" THEN kicks ELSE kicks + 1
  /\ UNCHANGED <<session, watchers, legacy, req, draining, drainer, handed>>

(* The write, or the rollback, has returned; a rollback is to be written. *)
TxnMoves ==
  /\ txn # "none"
  /\ txn' = IF txn = "writing" THEN "waiting" ELSE "writing"
  /\ UNCHANGED <<session, watchers, legacy, req, kicks, draining, drainer,
                 handed, budget>>

TxnEnds ==
  /\ txn # "none"
  /\ txn' = "none"
  /\ kicks' = kicks + 1
  /\ UNCHANGED <<session, watchers, legacy, req, draining, drainer, handed,
                 budget>>

-----------------------------------------------------------------------------
(* The session *)

(* reap_session *)
Reaped == IF /\ session # None
             /\ session.age >= SessionMax \/ session.idle >= Lease
          THEN None ELSE session

SessionOpen(id) ==
  /\ id \notin watchers /\ Spend("txns")
  /\ session' = IF Reaped = None /\ txn = "none"
                THEN [id |-> id, age |-> 0, idle |-> 0]
                ELSE Reaped
  /\ watchers' = IF Reaped = None /\ txn = "none" THEN watchers \cup {id}
                 ELSE watchers
  /\ UNCHANGED <<txn, legacy, req, kicks, draining, drainer, handed>>

(* Mutant: a renewal moves the time of opening. *)
SessionRenewShifts(id) ==
  /\ session' = IF Reaped # None /\ Reaped.id = id
                THEN [Reaped EXCEPT !.idle = 0, !.age = @ - 1] ELSE Reaped
  /\ UNCHANGED <<txn, watchers, legacy, req, kicks, draining, drainer, handed,
                 budget>>

(* Mutant: a renewal counts as opening. *)
SessionRenewReopens(id) ==
  /\ session' = IF Reaped # None /\ Reaped.id = id
                THEN [Reaped EXCEPT !.idle = 0, !.age = 0] ELSE Reaped
  /\ UNCHANGED <<txn, watchers, legacy, req, kicks, draining, drainer, handed,
                 budget>>

(* Mutant: a renewal does not look whether the session has lapsed. *)
SessionRenewLapsed(id) ==
  /\ session' = IF session # None /\ session.id = id
                THEN [session EXCEPT !.idle = 0] ELSE session
  /\ UNCHANGED <<txn, watchers, legacy, req, kicks, draining, drainer, handed,
                 budget>>

(* session_renew: a lapsed session is reaped first, and then gone. *)
SessionRenew(id) ==
  /\ session' = IF Reaped # None /\ Reaped.id = id
                THEN [Reaped EXCEPT !.idle = 0] ELSE Reaped
  /\ UNCHANGED <<txn, watchers, legacy, req, kicks, draining, drainer, handed,
                 budget>>

(* session_gate: a step of session id comes by and renews it, or any other *)
(* write (None), which does not.                                           *)
SessionGate(id) ==
  /\ session' = IF Reaped # None /\ Reaped.id = id
                THEN [Reaped EXCEPT !.idle = 0] ELSE Reaped
  /\ UNCHANGED <<txn, watchers, legacy, req, kicks, draining, drainer, handed,
                 budget>>

(* A session already reaped is "gone", which leaves the kick to the watcher. *)
SessionClose(id) ==
  /\ session # None /\ session.id = id
  /\ session' = None
  /\ kicks' = IF Reaped = None THEN kicks ELSE kicks + 1
  /\ UNCHANGED <<txn, watchers, legacy, req, draining, drainer, handed,
                 budget>>

(* Mutant: the queue is not kicked when a session ends. *)
WatchSilently(id) ==
  /\ id \in watchers
  /\ session' = Reaped
  /\ IF Reaped = None \/ Reaped.id # id
     THEN watchers' = watchers \ {id} /\ UNCHANGED kicks
     ELSE UNCHANGED <<watchers, kicks>>
  /\ UNCHANGED <<txn, legacy, req, draining, drainer, handed, budget>>

(* The watching task, once a second. *)
Watch(id) ==
  /\ id \in watchers
  /\ session' = Reaped
  /\ IF Reaped = None \/ Reaped.id # id
     THEN watchers' = watchers \ {id} /\ kicks' = kicks + 1
     ELSE UNCHANGED <<watchers, kicks>>
  /\ UNCHANGED <<txn, legacy, req, draining, drainer, handed, budget>>

(* Times are ages, and no age matters beyond the limit it is held against. *)
Older(age, limit) == IF age < limit THEN age + 1 ELSE age

Tick ==
  LET OlderReq(q) == [q EXCEPT !.age = Older(@, Ttl)]
  IN  /\ session' = IF session = None THEN None
                    ELSE [session EXCEPT !.age = Older(@, SessionMax),
                                         !.idle = Older(@, Lease)]
      /\ legacy' = [i \in DOMAIN legacy |-> OlderReq(legacy[i])]
      /\ drainer' = [d \in Drainers |->
                       IF drainer[d].r = None THEN drainer[d]
                       ELSE [drainer[d] EXCEPT !.r = OlderReq(@)]]
      /\ UNCHANGED <<txn, watchers, req, kicks, draining, handed, budget>>

-----------------------------------------------------------------------------
DrainStep(d) ==
  Pick(d) \/ Release(d) \/ Recheck(d) \/ Grab(d) \/ Run(d) \/ Requeue(d)

Next ==
  \/ \E r \in Reqs : Arrive(r) \/ RunRequest(r) \/ Enqueue(r)
  \/ Preempt \/ ClearLegacy
  \/ Kick
  \/ \E d \in Drainers : DrainStep(d)
  \/ TxnBegins \/ TxnMoves \/ TxnEnds
  \/ \E id \in Ids :
       SessionOpen(id) \/ SessionRenew(id) \/ SessionClose(id) \/ Watch(id)
  \/ \E id \in Ids \cup {None} : SessionGate(id)
  \/ Tick

Spec == Init /\ [][Next]_vars

(* Tasks are scheduled, time passes, and a transaction ends (Engine: as    *)
(* long as no client disconnects).  The agent need not close or renew its  *)
(* session.                                                                *)
Fairness ==
  /\ \A r \in Reqs : WF_vars(RunRequest(r) \/ Enqueue(r))
  /\ WF_vars(Kick)
  /\ \A d \in Drainers : WF_vars(DrainStep(d))
  /\ WF_vars(TxnEnds) /\ WF_vars(Tick)
  /\ \A id \in Ids : WF_vars(Watch(id))

FairSpec == Spec /\ Fairness

-----------------------------------------------------------------------------
(* Properties *)

TypeOK ==
  /\ txn \in {"none", "writing", "waiting"}
  /\ session \in [id : Ids, age : 0..SessionMax, idle : 0..Lease] \cup {None}
  /\ watchers \subseteq Ids
  /\ \A i \in DOMAIN legacy : legacy[i] \in [r : Reqs, age : 0..Ttl]
  /\ kicks \in Nat /\ draining \in BOOLEAN
  /\ \A d \in Drainers :
       drainer[d].pc \in {"none", "pick", "run", "requeue", "release",
                          "recheck", "grab"}

(* At most one request of an item is queued, also when one that found the  *)
(* executor full is put back.                                              *)
OnePerItem ==
  \A i, j \in DOMAIN legacy :
    Item[legacy[i].r] = Item[legacy[j].r] => i = j

(* A request is given to the executor once: one it took is nowhere left to *)
(* be queued or run again.                                                 *)
RunOnce ==
  \A r \in handed : /\ req[r] = "done"
                      /\ \A i \in DOMAIN legacy : legacy[i].r # r
                      /\ \A d \in Drainers :
                           drainer[d].r # None => drainer[d].r.r # r

(* The draining flag is up exactly while one task drains: never two tasks  *)
(* at work, and never a flag left up with nobody to lower it.              *)
FlagMatchesTask ==
  LET working == {d \in Drainers :
                    drainer[d].pc \in {"pick", "run", "requeue", "release"}}
  IN  IF draining THEN \E d \in working : working = {d} ELSE working = {}

(* No lost wake-up: with the lock free and a request queued, a task is at  *)
(* work, about to look again, or a kick is still to come (from the watcher *)
(* of a session that was reaped, for one).                                 *)
NobodyForgotten ==
  Free /\ legacy # <<>> =>
    \/ draining \/ kicks > 0
    \/ \E d \in Drainers : drainer[d].pc \in {"recheck", "grab"}
    \/ watchers # {}

(* A session and a transaction never hold the lock at the same time, and a *)
(* session always has its watcher.                                         *)
SessionAlone ==
  session # None => txn = "none" /\ session.id \in watchers

(* A session that has lapsed, by its lease or its maximum, is over even    *)
(* before anybody has noticed: no renewal that comes late and no step of   *)
(* the session brings it back.                                             *)
LapsedStays ==
  [][session # None /\ Reaped = None =>
       session' = None \/ session'.id # session.id \/ Reaped' = None]_vars

(* A session ends even if its agent goes on renewing it forever. *)
SessionEnds == \A id \in Ids : (session # None /\ session.id = id)
                 ~> (session = None \/ session.id # id)

(* A queued request does not stay queued once transactions and sessions    *)
(* stop coming: it is run, replaced, dropped or cleared.  It is assumed    *)
(* that every transaction ends; one whose client disconnects while it is   *)
(* written does not until the service restarts (EngineDisconnect).         *)
QueueDrains ==
  \A r \in Reqs : (\E i \in DOMAIN legacy : legacy[i].r = r)
                    ~> ~(\E i \in DOMAIN legacy : legacy[i].r = r)

-----------------------------------------------------------------------------
(* What the documents say and the code does not keep *)

(* engine.rs header: of each item only the newest is kept.  A request that *)
(* legacy_gate lets pass leaves an older one of its item in the queue, and *)
(* that one can be written after it.                                       *)
NewestKept ==
  [][\A r \in Reqs : req[r] = "idle" /\ req'[r] = "run" =>
                       ~Queued(Item[r])']_vars
=============================================================================
