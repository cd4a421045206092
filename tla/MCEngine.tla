------------------------------ MODULE MCEngine ------------------------------
(* Small instances of Engine. *)
EXTENDS Engine

MCValues == {"m0", "m1", "m2"}
MCSims == {"simA", "simB"}
MCAddrs == {"ip1"}

TwoOps == {"A", "B"}
TwoCalls == {"c1", "c2"}
(* Two different changes, the second one by somebody who may override. *)
Override == [c \in TwoCalls |->
  IF c = "c1" THEN [op |-> "A", target |-> "m1", source |-> "Auto"]
  ELSE [op |-> "B", target |-> "m2", source |-> "Screen"]]

OneOp == {"A"}
OneCall == {"c1"}
Single == [c \in OneCall |-> [op |-> "A", target |-> "m1", source |-> "Web"]]

(* The same op_id twice. *)
Resent ==
  [c \in TwoCalls |-> [op |-> "A", target |-> "m1", source |-> "Screen"]]
=============================================================================
