----------------------------- MODULE OneChange -----------------------------
(***************************************************************************)
(* What the transaction engine promises about changes, whatever happens to *)
(* the service: one change at a time, and a change that ended stays ended. *)
(* Closing one change and opening the next may be a single step (override),*)
(* never an overlap.  The promise rests on a file: once a restart had to   *)
(* go by one that does not say what was last to be written, it is off.     *)
(***************************************************************************)
CONSTANTS Ops, None

VARIABLES
  owner,  \* the change in progress, or None
  done,   \* the changes that ended
  lost    \* did a restart go by a file that is not up to date

Init == owner = None /\ done = {} /\ lost = FALSE

Open(op) ==
  /\ owner = None
  /\ op \notin done
  /\ owner' = op
  /\ UNCHANGED done

Replace(op) ==
  /\ owner # None
  /\ op \notin done \cup {owner}
  /\ owner' = op
  /\ done' = done \cup {owner}

Close ==
  /\ owner # None
  /\ owner' = None
  /\ done' = done \cup {owner}

Step == \/ \E op \in Ops : Open(op) \/ Replace(op)
        \/ Close

Next == (Step /\ ~lost') \/ lost'

Spec == Init /\ [][Next]_<<owner, done, lost>>
=============================================================================
