----------------------------- MODULE MCTxnLife -----------------------------
(* Small instances of TxnLife.  Values: the old mode, the target, an       *)
(* inherited rollback target and a mode nobody asked for.                  *)
EXTENDS TxnLife

VARIABLE profile  \* which captures and readings a behaviour draws from

MCValues == {"old", "new", "older", "third"}
MCSims == {"simA", "simB"}
MCAddrs == {"ip1", "ip2"}

NoConn == [addr |-> None, up |-> None]
ConnOf(a, u) == [addr |-> a, up |-> u]

(* What a read can say about the data path. *)
Off == [expected |-> FALSE, connected |-> FALSE, conn |-> NoConn]
Connected(a, u) ==
  [expected |-> TRUE, connected |-> TRUE, conn |-> ConnOf(a, u)]

PlainData == {Off, Connected("ip1", 1),
              [expected |-> TRUE, connected |-> FALSE, conn |-> NoConn]}

RichData == PlainData \cup
  {[expected |-> None, connected |-> TRUE, conn |-> ConnOf("ip1", 1)],
   Connected("ip1", 3), Connected("ip2", None)}

Read(v, reg, s, d) ==
  [value |-> v, registered |-> reg, sim |-> s, data |-> d, probe |-> None]

(* Readings on the SIM of the write, and those that decide on the SIM.     *)
ReadingsOver(vals, datas) ==
  {Read(v, reg, "simA", d) : v \in vals, reg \in BOOLEAN, d \in datas}
  \cup {Read("new", TRUE, s, None) : s \in {"simB", BlankSim}}

RebootReadings ==
  ReadingsOver({"old", "new", "older", None}, {None}) \cup
  {Read(v, TRUE, "simA", Off) : v \in {"new", "older"}}

DataReadings ==
  {Read("new", TRUE, "simA", d) : d \in RichData \cup {None}}
  \cup {Read("old", TRUE, "simA", d) : d \in {Off, Connected("ip1", 1)}}
  \cup {Read("new", FALSE, "simA", Connected("ip1", 3))}
  \cup {Read("new", TRUE, BlankSim, Connected("ip1", 1))}

Capture(src, from, conn, confirm, on) ==
  [op |-> "op", source |-> src, target |-> "new", old |-> "old",
   rollback_to |-> from, sim |-> "simA", conn |-> conn, confirm |-> confirm,
   rollback_enabled |-> on]

RebootCaptures ==
  {Capture("Screen", "older", None, "Registered", TRUE),
   Capture("Legacy", "old", None, "Registered", FALSE)}

DataCaptures ==
  {Capture("Web", "old", ConnOf("ip1", 1), f, TRUE) : f \in Confirm}
  \cup {Capture("Web", "old", None, "Apn", TRUE)}

-----------------------------------------------------------------------------
(* Two instances in one: "reboot" follows a change over crashes, restarts  *)
(* and up to two reboots; "data" follows the connections, the probes and   *)
(* an APN change over one restart or reboot and a shorter clock.           *)
MCCaptures == RebootCaptures \cup DataCaptures
MCReadings == RebootReadings \cup DataReadings

CapturesOf == IF profile = "reboot" THEN RebootCaptures ELSE DataCaptures
ReadingsOf == IF profile = "reboot" THEN RebootReadings ELSE DataReadings

MCInit == Init /\ profile \in {"reboot", "data"}

MCNext ==
  /\ \/ \E c \in CapturesOf : Begin(c)
     \/ \E outcome \in Applied : ApplyReturns(outcome)
     \/ \E r \in ReadingsOf : Judge(r)
     \/ JudgeNothing
     \/ \E check \in {"Same", "Changed", "Unknown"} : CheckRollback(check)
     \/ WriteRollback \/ RollbackReturns
     \/ UserRevert \/ UserKeep
     \/ \E why \in {"Superseded", "Preempted", "OtherChange"} :
          CancelFromOutside(why)
     \/ DriverExits
     \/ Crash \/ Reboot \/ Tick
     \/ \E takeover \in BOOLEAN : Start(takeover)
  /\ profile = "data" => now' <= 3 /\ crashes' <= 1 /\ boot' <= 1
  /\ UNCHANGED profile

MCSpec == MCInit /\ [][MCNext]_<<vars, profile>>
=============================================================================
