--------------------------- MODULE MCCommandQueue ---------------------------
(* Small instances of CommandQueue: the commands and policies of each run.  *)
EXTENDS CommandQueue

OneZone  == [s \in Shades |-> "living"]
TwoZones == [s \in Shades |-> IF s = "s1" THEN "living" ELSE "bedroom"]

Move(i) == [id |-> i, shade |-> "s1", origin |-> "manual", command |-> "MOVE",
            adapter |-> 0, owner |-> "o1", generation |-> "g1", owned |-> NoId,
            created |-> 0, expires |-> 2]
Stop(i)     == [Move(i) EXCEPT !.command = "STOP"]
AutoMove(i) == [Move(i) EXCEPT !.origin = "automatic"]
AutoStop(i, of) == [AutoMove(i) EXCEPT !.command = "STOP", !.owned = of]

Allow(g) == [generation |-> g, owner |-> "o1", adapter |-> 0, issued |-> 0, expires |-> 2,
             released |-> TRUE, zones |-> {"living", "bedroom"}, override_off |-> TRUE]

\* Two shades: the automatic move of one and the automatic STOP of it, two operator STOPs
\* there, a move of the other shade that shares its identity with one of the STOPs, and
\* an operator STOP signed for the next process under the identity of the other.
Commands ==
  { AutoMove("r1"), [AutoStop("r2", "r1") EXCEPT !.expires = 3], Stop("r3"), Stop("r4"),
    [Move("r3") EXCEPT !.shade = "s2"], [Stop("r4") EXCEPT !.adapter = 1] }
OnePolicy == { [Allow("g1") EXCEPT !.expires = 3] }

\* Policies: one generation refreshed, two that may follow it, one of another owner, one
\* whose permissions contradict its generation.
PolicySnapshots ==
  { Allow("g1"),
    [Allow("g1") EXCEPT !.issued = 1, !.expires = 3],
    [Allow("g1") EXCEPT !.released = FALSE],
    Allow("g2"),
    Allow("g3"),
    [Allow("g3") EXCEPT !.owner = "o2", !.issued = 1, !.expires = 3] }
PolicyEnvelopes ==
  { [AutoMove("r1") EXCEPT !.shade = "s2", !.generation = g] : g \in {"g1", "g2"} }

\* In the last life of an instance the journal is neither written nor read again: states
\* that differ only in it are one (VIEW of MCQueue.cfg).
LastJournalAside ==
  <<session, connection_generation, policyVars, queueVars, latest_dispatched, utc_highwater,
    mono, historyVars, IF session = MaxSession THEN EmptyLedger ELSE saved>>
=============================================================================
