------------------------------- MODULE Custody -------------------------------
(***************************************************************************)
(* What the adapter owes the owner for each signed command: it goes out at *)
(* most once and only out of the hands of the service; what is told of it  *)
(* moves from waiting through out to one end; what was sent is on record   *)
(* as gone out from before its datagram until it is forgotten; and a life  *)
(* that found the record never tells it to be waiting nor to have been     *)
(* denied.                                                                 *)
(*                                                                         *)
(* Several commands may be told of in one step, as when a connection is    *)
(* lost.  A new life of the service starts with what it finds on record;   *)
(* one that cannot read the record knows of nothing that went before, and  *)
(* so sends nothing and leaves the record as it is.                        *)
(***************************************************************************)
EXTENDS Naturals

CONSTANT Commands

VARIABLES
  told,    \* what the receipt of a command says
  sent,    \* how often its datagram left
  record,  \* the commands on record as gone out
  informed,   \* whether this life found the record
  life     \* lives of the service

vars == <<told, sent, record, informed, life>>

Told == {"nothing", "waiting", "denied", "out", "heard", "unsure", "done"}
Gone == {"out", "heard", "unsure", "done"}

Becomes(c, from, to) == told[c] \in from /\ told'[c] = to /\ sent'[c] = sent[c]

Accept(c)  == sent[c] = 0 /\ Becomes(c, {"nothing"}, "waiting")
Commit(c)  == informed /\ Becomes(c, {"waiting"}, "out")
Observe(c) == Becomes(c, {"out", "heard", "unsure"}, "done")
Doubt(c)   == Becomes(c, {"out", "heard"}, "unsure")
Forget(c)  == Becomes(c, {"waiting", "denied", "unsure", "done"}, "nothing")

\* A committed command is taken back only before its datagram.
Deny(c) ==
  \/ Becomes(c, {"nothing", "waiting"}, "denied")
  \/ sent[c] = 0 /\ Becomes(c, {"out"}, "denied")

\* The bridge's answer counts for a command that is out, not for one given up.
Hear(c) == sent[c] > 0 /\ Becomes(c, {"out"}, "heard")

Send(c) ==
  /\ sent[c] = 0 /\ sent'[c] = 1
  /\ told[c] = "out" /\ told'[c] = "out"

Stay(c) == told'[c] = told[c] /\ sent'[c] = sent[c]

Handle ==
  /\ life' = life /\ informed' = informed
  /\ \A c \in Commands : Stay(c) \/ Accept(c) \/ Deny(c) \/ Commit(c) \/ Send(c) \/ Hear(c)
                         \/ Doubt(c) \/ Observe(c) \/ Forget(c)
  /\ \A c \in Commands : sent'[c] > 0 /\ told'[c] \in Gone => c \in record'
  /\ ~informed => record' = record

\* No work is carried over, and what is on record as gone out stays so.
Resume ==
  /\ informed' = TRUE
  /\ \A c \in Commands :
       told'[c] \in IF c \in record THEN {"unsure", "done"} ELSE {"nothing", "denied"}

StartBlind == informed' = FALSE /\ told' = [c \in Commands |-> "nothing"]

Restart ==
  /\ life' = life + 1 /\ sent' = sent /\ record' = record
  /\ Resume \/ StartBlind

Init ==
  /\ told = [c \in Commands |-> "nothing"] /\ sent = [c \in Commands |-> 0]
  /\ record = {} /\ informed = TRUE /\ life = 0

Next == Handle \/ Restart

Spec == Init /\ [][Next]_vars
=============================================================================
