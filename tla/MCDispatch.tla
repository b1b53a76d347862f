------------------------------ MODULE MCDispatch ------------------------------
(* Instances of Dispatch: one shade, commands accepted under source 1.       *)
EXTENDS Dispatch

OneZone == [s \in Shades |-> "living"]
FirstSource == [e \in Envelopes |-> 1]

Move(i) == [id |-> i, shade |-> "s1", origin |-> "manual", command |-> "MOVE",
            adapter |-> 0, owner |-> "o1", generation |-> "g1", owned |-> NoId,
            created |-> 0, expires |-> 1]
Stop(i)     == [Move(i) EXCEPT !.command = "STOP"]
AutoMove(i) == [Move(i) EXCEPT !.origin = "automatic"]

Allow(g) == [generation |-> g, owner |-> "o1", adapter |-> 0, issued |-> 0, expires |-> 1,
             released |-> TRUE, zones |-> {"living"}, override_off |-> TRUE]

Commands == { AutoMove("r1"), Stop("r2") }
ByHand   == { Move("r1"), Stop("r2") }
NoPolicies == {}
Snapshots == { Allow("g1"), Allow("g2") }

\* The queue's history variables guide no step, and no property of MCDispatch.cfg reads
\* them (its VIEW).
QueueHistoryAside ==
  <<session, connection_generation, policyVars, queueVars, latest_dispatched, utc_highwater,
    mono, saved, lock, linkVars, journal_ok, execVars, active, pastVars>>
=============================================================================
