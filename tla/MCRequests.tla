------------------------------ MODULE MCRequests ------------------------------
(* The service and a diagnostic command on a calendar of three milliseconds. *)
EXTENDS Requests
CONSTANTS service, tool, shade
TwoProcs  == {service, tool}
Clock     == {1, 2, 3}
Used      == {"WriteDevice"}
OneShade  == {shade}

\* What no later step reads is left aside (VIEW of MCRequests.cfg): the snapshot when none
\* is written, the ledger once the journal has failed, and of what was forgotten what
\* never left.
WhatCounts ==
  <<idVars, path, possible, stage, IF stage = "idle" THEN <<>> ELSE <<snapshot, synced>>,
    healthy, acknowledged, phase, request, asked, sent, IF healthy THEN known ELSE {},
    {r \in sent : r.number \in forgotten}>>
=============================================================================
