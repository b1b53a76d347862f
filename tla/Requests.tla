------------------------------- MODULE Requests -------------------------------
(***************************************************************************)
(* One request to the bridge, from its identity to its answer:             *)
(* Connector._request and UDPTransport.request of                          *)
(* src/src/dooya_openhab/protocol.py, called by the service, which         *)
(* records a movement in its journal before the datagram leaves, and by    *)
(* diagnostic commands that share the identities' file with it (modules    *)
(* MessageIds and Journal, which crash and lose power together here).      *)
(*                                                                         *)
(* Datagrams may be lost, delayed or repeated.  Every request has a socket *)
(* of its own, but a port may be given out again, so any answer the bridge *)
(* ever had cause to send may arrive at any request, also at one of a      *)
(* process that started after a power loss.                                *)
(***************************************************************************)
EXTENDS MessageIds

CONSTANTS
  Service,       \* the process that owns the journal and the movements
  Kinds,         \* the msgTypes of device requests in use
  Targets,       \* devices, by mac and deviceType
  NoTarget,      \* of a discovery
  NoId,          \* an answer without msgID
  PinnedWithoutId,  \* discovery_correlation = "pinned_discovery_without_id"
  Torn           \* of Journal

VARIABLES
  phase,         \* where a process is in its request
  request,       \* what it asks
  asked,         \* history: how many requests were given an identity
  sent,          \* history: requests whose datagram left
  known,         \* the service's ledger: the movements it keeps as dispatched
  forgotten,     \* history: movements that a full ledger made room of
  path, possible, stage, snapshot, synced, healthy, acknowledged   \* of Journal

idVars      == <<file, disk, named, holder, last, pc, value, issued>>
journalVars == <<path, possible, stage, snapshot, synced, healthy, acknowledged>>
requestVars == <<idVars, journalVars, phase, request, asked, sent, known, forgotten>>

Movements == SUBSET (0..MaxStamp)
J == INSTANCE Journal WITH Values <- Movements, Nothing <- {}

ASSUME RequestsAssumption ==
  /\ Service \in Procs
  /\ NoId \notin Nat
  /\ \A m \in Movements : m # Torn

NoRequest == [kind |-> "none", target |-> NoTarget, moves |-> FALSE, id |-> Empty, number |-> 0]
Discovery == "GetDeviceList"

\* A WriteDevice moves the shade or, with operation 5, only asks for its status.
Questions ==
  [kind : {Discovery}, target : {NoTarget}, moves : {FALSE}, id : {Empty}, number : {0}] \cup
  [kind : Kinds, target : Targets, moves : BOOLEAN, id : {Empty}, number : {0}]

Goto(p, where) == phase' = [phase EXCEPT ![p] = where]
End(p) == Goto(p, "none") /\ request' = [request EXCEPT ![p] = NoRequest]

(***************************************************************************)
(* The identity                                                            *)
(***************************************************************************)
Ask(p, q) ==
  /\ phase[p] = "none"
  /\ q.moves => p = Service /\ q.kind = "WriteDevice"
  /\ Open(p) /\ Goto(p, "drawing")
  /\ request' = [request EXCEPT ![p] = q]
  /\ UNCHANGED <<journalVars, asked, sent, known, forgotten>>

Draw(p) ==
  /\ \/ Write(p) \/ Sync(p) \/ SyncDirectory(p) \/ \E now \in Readings : Advance(p, now)
  /\ UNCHANGED <<journalVars, phase, request, asked, sent, known, forgotten>>

Drawn(p) ==
  /\ Return(p) /\ Goto(p, "ready")
  /\ asked' = asked + 1
  /\ request' = [request EXCEPT ![p] = [@ EXCEPT !.id = value[p], !.number = asked + 1]]
  /\ UNCHANGED <<journalVars, sent, known, forgotten>>

NotDrawn(p) ==
  /\ Fail(p) /\ End(p)
  /\ UNCHANGED <<journalVars, asked, sent, known, forgotten>>

(***************************************************************************)
(* The datagram                                                            *)
(***************************************************************************)
\* final_admission: the dispatch is recorded in the ledger and the ledger in the journal.
RecordDispatch(p) ==
  /\ phase[p] = "ready" /\ request[p].moves
  /\ known' = known \cup {request[p].number}
  /\ J!Create(known') /\ Goto(p, "recording")
  /\ UNCHANGED <<idVars, request, asked, sent, forgotten>>

\* _persist of anything else: a start, an outcome, a submission, which in a full ledger may
\* first make room of a movement whose outcome is told and whose time is over.  That may
\* be any but the one on its way under the lock: a withdrawal tells its outcome at any
\* time.  (How full the ledger is, and what may go, is CommandQueue's matter.)  Once the
\* journal has failed nothing is written, and what the ledger forgets then it never shows.
Persist ==
  /\ phase[Service] \notin {"recording", "recorded"}
  /\ \E gone \in {{}} \cup {{n} : n \in known} :
       known' = known \ gone /\ forgotten' = forgotten \cup gone
  /\ J!Create(known')
  /\ UNCHANGED <<idVars, phase, request, asked, sent>>

JournalStep ==
  /\ J!WriteFile \/ J!SyncFile \/ J!Replace
  /\ UNCHANGED <<idVars, phase, request, asked, sent, known, forgotten>>

JournalWritten ==
  /\ J!SyncDirectory
  /\ IF phase[Service] = "recording" THEN Goto(Service, "recorded") ELSE UNCHANGED phase
  /\ UNCHANGED <<idVars, request, asked, sent, known, forgotten>>

JournalFails ==
  /\ J!Fail
  /\ IF phase[Service] = "recording" THEN End(Service) ELSE UNCHANGED <<phase, request>>
  /\ UNCHANGED <<idVars, asked, sent, known, forgotten>>

\* Slip: a movement leaves without a look at the journal.
ClearedAtOnce(p) == phase[p] \in {"ready", "recorded"}

Cleared(p) == phase[p] = IF request[p].moves THEN "recorded" ELSE "ready"

Send(p) ==
  /\ Cleared(p) /\ Goto(p, "awaiting")
  /\ sent' = sent \cup {request[p]}
  /\ UNCHANGED <<idVars, journalVars, request, asked, known, forgotten>>

\* Cancelled, refused or out of time before the datagram, or without a socket.
NotSent(p) ==
  /\ phase[p] \in {"ready", "recorded"} /\ End(p)
  /\ UNCHANGED <<idVars, journalVars, asked, sent, known, forgotten>>

(***************************************************************************)
(* The answer                                                              *)
(***************************************************************************)
\* What may arrive: answers to anything that was sent, some firmware's without msgID.
Answers == sent \cup {[r EXCEPT !.id = NoId] : r \in sent}

\* Slip: the missing identity is excused whatever was asked.
MatchesWithoutId(r, a) ==
  /\ a.kind = r.kind
  /\ a.id = r.id \/ (a.id = NoId /\ PinnedWithoutId)
  /\ a.target = r.target

Matches(r, a) ==
  /\ a.kind = r.kind
  /\ a.id = r.id \/ (a.id = NoId /\ r.kind = Discovery /\ PinnedWithoutId)
  /\ a.target = r.target

Receive(p) ==
  /\ phase[p] = "awaiting"
  /\ \E a \in Answers : Matches(request[p], a)
  /\ End(p)
  /\ UNCHANGED <<idVars, journalVars, asked, sent, known, forgotten>>

\* Timed out, or cancelled: the outcome stays unknown.
Abandon(p) ==
  /\ phase[p] = "awaiting" /\ End(p)
  /\ UNCHANGED <<idVars, journalVars, asked, sent, known, forgotten>>

(***************************************************************************)
(* Failures                                                                *)
(***************************************************************************)
\* A new process restores the ledger of the journal it read; if that is no good, or the
\* source history in it is refused, it goes on without the journal.
Reload == known' \in IF healthy' THEN {path'} ELSE {path', {}} \ {Torn}

ProcessDies(p) ==
  /\ Crash(p) /\ End(p)
  /\ IF p = Service THEN J!Crash /\ Reload ELSE UNCHANGED <<journalVars, known>>
  /\ UNCHANGED <<asked, sent, forgotten>>

PowerGoes ==
  /\ PowerLoss /\ J!PowerLoss /\ Reload
  /\ phase' = [p \in Procs |-> "none"] /\ request' = [p \in Procs |-> NoRequest]
  /\ UNCHANGED <<asked, sent, forgotten>>

RequestsInit ==
  /\ Init /\ J!Init
  /\ phase = [p \in Procs |-> "none"] /\ request = [p \in Procs |-> NoRequest]
  /\ asked = 0 /\ sent = {} /\ known = {} /\ forgotten = {}

RequestsNext ==
  \/ \E p \in Procs : \/ \E q \in Questions : Ask(p, q)
                      \/ Draw(p) \/ Drawn(p) \/ NotDrawn(p) \/ RecordDispatch(p) \/ Send(p)
                      \/ NotSent(p) \/ Receive(p) \/ Abandon(p) \/ ProcessDies(p)
  \/ Persist \/ JournalStep \/ JournalWritten \/ JournalFails \/ PowerGoes

RequestsSpec == RequestsInit /\ [][RequestsNext]_requestVars

(***************************************************************************)
(* Properties                                                              *)
(***************************************************************************)
\* A request takes nothing for its answer but the answer to itself: not one to an earlier
\* request of its kind, of another process, or from before a crash or a power loss.  Only a
\* discovery under the pinned profile may be answered by an earlier one, without identity.
AnswersItself ==
  \A p \in Procs : phase[p] = "awaiting" =>
    \A a \in Answers : Matches(request[p], a) =>
      a.number = request[p].number \/ (PinnedWithoutId /\ a.kind = Discovery /\ a.id = NoId)

\* A movement that left is in every journal that a crash or a power loss can leave behind,
\* so that no later process takes it for one that was never sent, until a full ledger
\* forgets it: over any number of lives, failed writes and lives without a journal.
SentIsOnRecord ==
  \A r \in sent : r.moves /\ r.number \notin forgotten =>
    \A f \in possible \cup {path} : f # Torn /\ r.number \in f

\* The journal, as the requests use it, replaces its snapshot as a whole (Snapshot).
Store == INSTANCE Snapshot WITH Values <- Movements, outcomes <- possible, committed <- acknowledged
JournalIsAtomic == Store!Spec
=============================================================================
