--------------------------- MODULE MCLegacyQueue ---------------------------
(* Small instances of LegacyQueue.  The table of spec.rs has one item, so  *)
(* all requests are about it.                                              *)
EXTENDS LegacyQueue

OneItem == [r \in 1..MaxReq |-> "network.mode"]
=============================================================================
