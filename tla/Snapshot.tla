------------------------------ MODULE Snapshot ------------------------------
(***************************************************************************)
(* What the receipt journal of src/src/dooya_openhab/service.py promises:  *)
(* one value that is replaced as a whole.  While a replacement is under    *)
(* way a power loss may leave either value; once it is acknowledged only   *)
(* the new one, and never part of one.                                     *)
(***************************************************************************)
CONSTANT Values

VARIABLES
  outcomes,    \* what may be found after a power loss
  committed    \* the value whose replacement was last acknowledged

vars == <<outcomes, committed>>

Init == outcomes \in {{v} : v \in Values} /\ committed \in outcomes

Replace ==
  /\ \E v \in Values : outcomes' = outcomes \cup {v}
  /\ UNCHANGED committed

Acknowledge ==
  \E v \in outcomes : committed' = v /\ outcomes' = {v}

Recover ==
  /\ \E v \in outcomes : outcomes' = {v}
  /\ UNCHANGED committed

Next == Replace \/ Acknowledge \/ Recover

Spec == Init /\ [][Next]_vars
=============================================================================
