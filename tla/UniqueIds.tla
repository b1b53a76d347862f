------------------------------ MODULE UniqueIds ------------------------------
(***************************************************************************)
(* What a source of message identities promises: every identity it issues  *)
(* is later than all it issued before.  A reply is matched to its request  *)
(* by identity alone, so an identity used twice could let an old reply     *)
(* answer a new request.                                                   *)
(***************************************************************************)
EXTENDS Naturals

CONSTANT Stamps   \* a set of numbers

VARIABLE issued

Init == issued = {}

Issue(n) ==
  /\ \A i \in issued : n > i
  /\ issued' = issued \cup {n}

Next == \E n \in Stamps : Issue(n)

Spec == Init /\ [][Next]_issued
=============================================================================
