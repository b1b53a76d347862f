------------------------------- MODULE Sources -------------------------------
(***************************************************************************)
(* What the service may believe of a shade's position: State of            *)
(* src/src/dooya_openhab/model.py for one shade, and the handlers of       *)
(* service.py that open its observation sessions, feed it the bridge's     *)
(* reports, withdraw it and act on it.                                     *)
(*                                                                         *)
(* The main loop discovers, polls, reads reports and sends motions one at  *)
(* a time; a discovery or a poll waits for the bridge, and the connection  *)
(* callbacks of the network thread run meanwhile.  The order of the loop's *)
(* steps is left open.  Reports are datagrams: any report may arrive late, *)
(* again, or in another order.  Writing the journal may fail, the process  *)
(* may be killed and started again at any point, and the journal may then  *)
(* be unreadable.                                                          *)
(*                                                                         *)
(* A handler that holds commands.lock is one step: a crash inside it       *)
(* leaves what a crash before it or after it leaves.  The bridge identity  *)
(* is the configured one; of a device its type may differ between          *)
(* discoveries.                                                            *)
(***************************************************************************)
EXTENDS Naturals

CONSTANTS
  MaxStamp,      \* reports carry msgIDs 1..MaxStamp
  Opaque,        \* a msgID that is not a calendar time
  SingleAxis,    \* the one supported device type
  Types,         \* the device types a report may carry
  Discoverable,  \* the device types a discovery may list
  NoType,
  MaxMono,       \* the monotonic clock, in the units of Stale
  Stale          \* stale_seconds

ASSUME SourcesAssumption ==
  /\ MaxStamp \in Nat /\ MaxMono \in Nat /\ Stale \in Nat
  /\ Opaque \notin Nat
  /\ SingleAxis \in Discoverable /\ Discoverable \subseteq Types /\ NoType \notin Types

Stamps == 1..MaxStamp
NoStamp == 0

\* What a report's data says: everything, a position without the device profile, a
\* profile without a position, a second axis, or nothing readable.
Kinds == {"full", "partial", "silent", "dual", "garbled"}
Reports == [stamp : Stamps \cup {Opaque}, kind : Kinds, type : Types]

VARIABLES
  state,               \* State: see TypeOK
  family, known,       \* the connector's devices and device_profiles
  connected, ready,
  bound, reset,        \* _session_bound, and the reset event
  journal, journalOk,  \* the journal on disk, and _journal_ok
  restored,            \* _restored: the watermark read at the start
  mono,                \* time.monotonic()
  pc, interrupted,     \* the loop's wait, and whether _connection_generation changed in it
  proof,               \* history: the report accepted since the last reason to doubt
  spent, recorded,     \* history: reports accepted, and those an intact journal knows of
  moves                \* history: automatic motions that rested on each report

loop == <<pc, interrupted>>
link == <<connected, ready, bound, reset>>
disk == <<journal, journalOk, recorded>>
vars == <<state, family, known, link, disk, restored, mono, loop, proof, spent, moves>>

NoObservation == [stamp |-> NoStamp, at |-> 0]

NewState ==
  [ current   |-> FALSE,
    obs       |-> NoObservation,
    watermark |-> NoStamp,       \* and the type whose order it is
    ordered   |-> NoType,
    type      |-> NoType,        \* the session's device type: NoType before any session
    live      |-> FALSE,         \* the session is of the present source_generation
    profiled  |-> FALSE ]        \* the session has the motor's profile

Invalidated(s) == [s EXCEPT !.current = FALSE]

\* import_watermark: only of the same device and type, and only forward.
Imported(w, type) ==
  IF restored.ordered = type /\ restored.watermark > w THEN restored.watermark ELSE w

KeptWatermark(s, type) == IF s.ordered = type THEN s.watermark ELSE NoStamp

\* begin_session, then import_watermark.
Begun(s, type, profiled) ==
  [s EXCEPT !.type = type, !.live = TRUE, !.profiled = profiled,
            !.watermark = Imported(KeptWatermark(s, type), type), !.ordered = type,
            !.current = FALSE]

\* _begin_sources, for a device the connector may not know.
Reconciled(s, type, profiled) ==
  IF type = NoType THEN [s EXCEPT !.current = FALSE, !.live = FALSE]
                   ELSE Begun(s, type, profiled)

(***************************************************************************)
(* State.accept                                                            *)
(***************************************************************************)
Foreign(s, r) == s.type # NoType /\ (~s.live \/ r.type # s.type)

\* Slip: a report may be accepted a second time.
RepeatedIfOlder(s, r) == r.stamp < s.watermark

\* Repeated and older reports are dropped without a trace.
Repeated(s, r) == r.stamp <= s.watermark

Dropped(s, r) ==
  \/ Foreign(s, r)
  \/ s.type # NoType /\ r.stamp # Opaque /\ Repeated(s, r)

\* Slip: a msgID that orders nothing still becomes the watermark.
OrderedAnyway(s, r) == s.type # NoType

Ordered(s, r) == s.type # NoType /\ r.stamp # Opaque

Qualified(s, r) ==
  /\ s.type = SingleAxis
  /\ r.kind = "full" \/ (r.kind = "partial" /\ s.profiled)

\* A report out of order says nothing; without a session it is history only.
Accepts(s, r) == ~Dropped(s, r) /\ Ordered(s, r) /\ Qualified(s, r)

Advanced(s, r) == IF Ordered(s, r) THEN [s EXCEPT !.watermark = r.stamp] ELSE s

AfterReport(s, r) ==
  IF Dropped(s, r) THEN s
  ELSE IF Accepts(s, r)
    THEN [Advanced(s, r) EXCEPT !.obs = [stamp |-> r.stamp, at |-> mono], !.current = TRUE]
  ELSE IF s.type = NoType /\ r.kind = "full"
    THEN [s EXCEPT !.obs = NoObservation, !.current = FALSE]
  ELSE Invalidated(Advanced(s, r))

\* State.snapshot: usable.
Usable == state.current /\ state.obs.at <= mono /\ mono - state.obs.at <= Stale

(***************************************************************************)
(* Service._persist                                                        *)
(***************************************************************************)
Exported(s) == [watermark |-> s.watermark, ordered |-> s.ordered, obs |-> s.obs]

\* A write that fails may have replaced the file already.
Persist(s) ==
  \/ /\ journalOk
     /\ journal' = Exported(s) /\ journalOk' = TRUE /\ recorded' = spent'
  \/ /\ journalOk
     /\ journal' \in {journal, Exported(s)} /\ journalOk' = FALSE
     /\ UNCHANGED recorded
  \/ ~journalOk /\ UNCHANGED disk

(***************************************************************************)
(* The network thread                                                      *)
(***************************************************************************)
OnConnect ==
  /\ connected' = TRUE /\ ready' = FALSE /\ reset' = TRUE /\ interrupted' = TRUE
  /\ state' = Invalidated(state) /\ proof' = NoStamp
  /\ UNCHANGED spent /\ Persist(state')
  /\ UNCHANGED <<family, known, bound, restored, mono, pc, moves>>

OnDisconnect ==
  /\ connected' = FALSE /\ ready' = FALSE /\ interrupted' = TRUE
  /\ state' = Invalidated(state) /\ proof' = NoStamp
  /\ UNCHANGED spent /\ Persist(state')
  /\ UNCHANGED <<family, known, bound, reset, restored, mono, pc, moves>>

(***************************************************************************)
(* The main loop                                                           *)
(***************************************************************************)
ClearReset ==
  /\ pc = "idle" /\ reset
  /\ reset' = FALSE /\ bound' = FALSE
  /\ UNCHANGED <<state, family, known, connected, ready, disk, restored, mono, loop,
                 proof, spent, moves>>

\* discover_once, poll_once: what they capture before the bridge's answer.
Ask(what) ==
  /\ pc = "idle" /\ connected
  /\ pc' = what /\ interrupted' = FALSE
  /\ UNCHANGED <<state, family, known, link, disk, restored, mono, proof, spent, moves>>

AskDiscovery == Ask("discovery")
AskPoll == Ask("poll") /\ ready /\ family = SingleAxis

\* Slip: an unchanged inventory is taken for a reconciled one, new session or not.
ReconcilesIfChanged(changed) == changed

Reconciles(changed) == changed \/ ~bound \/ reset

\* The inventory is committed even if the connection changed meanwhile.
Discovered(type, rotated) ==
  LET changed == type # family \/ rotated IN
  /\ pc = "discovery" /\ pc' = "idle"
  /\ family' = type /\ known' = (known /\ ~changed)
  /\ IF interrupted \/ ~connected
       THEN /\ ready' = FALSE
            /\ UNCHANGED <<state, bound, proof, spent, disk>>
       ELSE /\ ready' = TRUE
            /\ IF Reconciles(changed)
                 THEN /\ bound' = TRUE /\ proof' = NoStamp
                      /\ state' = Reconciled(state, family', known')
                 ELSE UNCHANGED <<state, bound, proof>>
            /\ UNCHANGED spent /\ Persist(state')
  /\ UNCHANGED <<connected, reset, restored, mono, interrupted, moves>>

\* A discovery that failed, a motion the bridge refused, a bridge not heard of.
Unready ==
  /\ pc \in {"idle", "discovery"} /\ pc' = "idle" /\ ready' = FALSE
  /\ UNCHANGED <<state, family, known, connected, bound, reset, disk, restored, mono,
                 interrupted, proof, spent, moves>>

\* poll_once: the reply is no position; a profile learned by it opens a new session,
\* although the connection may have changed meanwhile.
Polled(learned) ==
  /\ pc = "poll" /\ pc' = "idle"
  /\ known' = learned
  /\ IF ~known /\ learned
       THEN state' = Begun(state, family, TRUE) /\ proof' = NoStamp
       ELSE UNCHANGED <<state, proof>>
  /\ UNCHANGED spent
  /\ IF interrupted THEN UNCHANGED disk ELSE Persist(state')
  /\ UNCHANGED <<family, link, restored, mono, interrupted, moves>>

PollFailed ==
  /\ pc = "poll" /\ pc' = "idle"
  /\ UNCHANGED <<state, family, known, link, disk, restored, mono, interrupted,
                 proof, spent, moves>>

Listening == pc = "idle" /\ connected /\ ready /\ bound

\* handle_report: a heartbeat with a new token.
TokenRotated ==
  /\ Listening
  /\ known' = FALSE
  /\ state' = Reconciled(state, family, FALSE) /\ proof' = NoStamp
  /\ UNCHANGED spent /\ Persist(state')
  /\ UNCHANGED <<family, link, restored, mono, loop, moves>>

\* Connector.observe: what a report teaches of the motor's profile.
Observed(r) ==
  IF family = NoType THEN known
  ELSE /\ r.type = family /\ family = SingleAxis
       /\ r.kind \in {"full", "silent"} \/ (r.kind = "partial" /\ known)

\* handle_report: a report.
Report(r) ==
  /\ Listening
  /\ known' = Observed(r)
  /\ state' = AfterReport(state, r)
  /\ IF Accepts(state, r)
       THEN proof' = r.stamp /\ spent' = spent \cup {r.stamp}
       ELSE /\ proof' = IF Dropped(state, r) THEN proof ELSE NoStamp
            /\ UNCHANGED spent
  /\ Persist(state')
  /\ UNCHANGED <<family, link, restored, mono, loop, moves>>

\* Slip: what the motion will change is believed until the next report.
AdmittedUndoubted(s) == s

\* motion_admitted
Admitted(s) == Invalidated(s)

\* _physical_gate, as far as sources go.
Gate(kind) ==
  /\ connected /\ (ready \/ kind = "stop")
  /\ journalOk
  /\ family = SingleAxis /\ known
  /\ kind = "automatic" => Usable

\* Bound: motions on one report are counted to two.
OneMore(n) == IF n < 2 THEN n + 1 ELSE n

\* final_admission: persisted first, and the gate holds after that too.
Motion(kind) ==
  /\ pc = "idle" /\ Gate(kind)
  /\ UNCHANGED spent /\ Persist(state)
  /\ IF journalOk'
       THEN /\ state' = Admitted(state) /\ proof' = NoStamp
            /\ moves' = IF kind = "automatic"
                          THEN [moves EXCEPT ![state.obs.stamp] = OneMore(@)] ELSE moves
       ELSE UNCHANGED <<state, proof, moves>>
  /\ UNCHANGED <<family, known, link, restored, mono, loop>>

Tick ==
  /\ mono < MaxMono /\ mono' = mono + 1
  /\ UNCHANGED <<state, family, known, link, disk, restored, loop, proof, spent, moves>>

(***************************************************************************)
(* Service.__init__, on what a crash or a stop left: import_history keeps  *)
(* the observation as history, and the clock may have been reset.          *)
(***************************************************************************)
\* Slip: history comes back as a current observation.
RestoredCurrent(j) ==
  [NewState EXCEPT !.obs = j.obs, !.watermark = j.watermark, !.ordered = j.ordered,
                   !.current = j.obs # NoObservation]

RestoredState(j) ==
  [NewState EXCEPT !.obs = j.obs, !.watermark = j.watermark, !.ordered = j.ordered]

Start(readable, now) ==
  /\ journalOk' = readable
  /\ state' = IF readable THEN RestoredState(journal) ELSE NewState
  /\ restored' = IF readable THEN [watermark |-> journal.watermark, ordered |-> journal.ordered]
                             ELSE [watermark |-> NoStamp, ordered |-> NoType]
  /\ spent' = IF readable THEN recorded ELSE {}
  /\ mono' = now
  /\ family' = NoType /\ known' = FALSE
  /\ connected' = FALSE /\ ready' = FALSE /\ bound' = FALSE /\ reset' = FALSE
  /\ pc' = "idle" /\ interrupted' = FALSE /\ proof' = NoStamp
  /\ UNCHANGED <<journal, recorded, moves>>

Init ==
  /\ state = NewState /\ family = NoType /\ known = FALSE
  /\ connected = FALSE /\ ready = FALSE /\ bound = FALSE /\ reset = FALSE
  /\ journal = Exported(NewState) /\ journalOk = TRUE
  /\ restored = [watermark |-> NoStamp, ordered |-> NoType]
  /\ mono = 0 /\ pc = "idle" /\ interrupted = FALSE
  /\ proof = NoStamp /\ spent = {} /\ recorded = {}
  /\ moves = [s \in Stamps |-> 0]

Next ==
  \/ OnConnect \/ OnDisconnect
  \/ ClearReset \/ AskDiscovery \/ AskPoll \/ Unready \/ PollFailed \/ TokenRotated \/ Tick
  \/ \E type \in Discoverable \cup {NoType}, rotated \in BOOLEAN : Discovered(type, rotated)
  \/ \E learned \in BOOLEAN : Polled(learned)
  \/ \E r \in Reports : Report(r)
  \/ \E kind \in {"automatic", "person", "stop"} : Motion(kind)
  \/ \E readable \in BOOLEAN, now \in 0..MaxMono : Start(readable, now)

Spec == Init /\ [][Next]_vars

(***************************************************************************)
(* Properties                                                              *)
(***************************************************************************)
Observations == [stamp : Stamps \cup {NoStamp}, at : 0..MaxMono]
Orders == Types \cup {NoType}

\* Every variable keeps its type: the watermark is always a time that orders reports.
TypeOK ==
  /\ state \in [current : BOOLEAN, obs : Observations, watermark : Stamps \cup {NoStamp},
                ordered : Orders, type : Orders, live : BOOLEAN, profiled : BOOLEAN]
  /\ family \in Discoverable \cup {NoType} /\ known \in BOOLEAN
  /\ connected \in BOOLEAN /\ ready \in BOOLEAN /\ bound \in BOOLEAN /\ reset \in BOOLEAN
  /\ journal \in [watermark : Stamps \cup {NoStamp}, ordered : Orders, obs : Observations]
  /\ journalOk \in BOOLEAN
  /\ restored \in [watermark : Stamps \cup {NoStamp}, ordered : Orders]
  /\ mono \in 0..MaxMono /\ pc \in {"idle", "discovery", "poll"} /\ interrupted \in BOOLEAN
  /\ proof \in Stamps \cup {NoStamp}
  /\ spent \subseteq Stamps /\ recorded \subseteq Stamps
  /\ moves \in [Stamps -> 0..2]

\* A usable position is the bridge's last word: it comes from the report accepted last,
\* over a live connection, and since then nothing happened that could make it wrong: no
\* connection change, restart, new session, motion, or report that was refused.
UsableIsLastWord ==
  Usable => /\ connected /\ state.live /\ state.type = SingleAxis
            /\ state.obs.stamp # NoStamp /\ state.obs.stamp = proof

\* While the service takes reports, a usable position belongs to the device the last
\* discovery listed, even if the inventory was committed by a discovery that then failed.
UsableIsInventoried ==
  Usable /\ bound /\ ready => family = state.type

\* Repeated/older datagrams never update observation or receipt: a report that became the
\* observation never does so again, in this process or after a restart that read its journal.
NeverRepeated ==
  [][state'.current /\ (~state.current \/ state'.obs # state.obs)
       => state'.obs.stamp \notin spent]_vars

\* At most one automatic motion rests on a report, whatever is delivered again, crashes,
\* or fails to be written or read: the next one needs evidence from after the motion.
OneMotionPerReport == \A s \in Stamps : moves[s] <= 1
=============================================================================
