---------------------------- MODULE SourcesProofs ----------------------------
(***************************************************************************)
(* What may be believed and acted on, for every set of device types, every *)
(* number of reports and every reading of the clock.                       *)
(*                                                                         *)
(* Three invariants build on the types.  What is believed is the last word *)
(* (Believed); while reports are taken, the session is the inventory's     *)
(* (Inventory); and, when discoveries list the supported type only,        *)
(* the watermark stays ahead of all that was accepted and acted on         *)
(* (Ahead), in memory and on disk.                                         *)
(***************************************************************************)
EXTENDS Sources, TLAPS

SourceStates ==
  [current : BOOLEAN, obs : Observations, watermark : Stamps \cup {NoStamp},
   ordered : Orders, type : Orders, live : BOOLEAN, profiled : BOOLEAN]
Journals == [watermark : Stamps \cup {NoStamp}, ordered : Orders, obs : Observations]
Marks == [watermark : Stamps \cup {NoStamp}, ordered : Orders]

(***************************************************************************)
(* What the operators return                                               *)
(***************************************************************************)
LEMMA NumbersOK ==
  /\ 0 \in 0..MaxMono /\ MaxMono \in Nat /\ Stale \in Nat
  /\ Stamps \subseteq Nat /\ NoStamp \notin Stamps /\ NoStamp = 0
  /\ Opaque \notin Stamps
  /\ \A x \in Stamps \cup {NoStamp} : x \in Nat
BY SourcesAssumption DEF Stamps, NoStamp

LEMMA WatermarkNat ==
  /\ \A s \in SourceStates : s.watermark \in Stamps \cup {NoStamp} /\ s.watermark \in Nat
  /\ \A j \in Journals : j.watermark \in Stamps \cup {NoStamp} /\ j.watermark \in Nat
  /\ \A k \in Marks : k.watermark \in Stamps \cup {NoStamp} /\ k.watermark \in Nat
<1>1. Stamps \cup {NoStamp} \subseteq Nat
  BY NumbersOK
<1>2. /\ \A s \in SourceStates : s.watermark \in Stamps \cup {NoStamp}
      /\ \A j \in Journals : j.watermark \in Stamps \cup {NoStamp}
      /\ \A k \in Marks : k.watermark \in Stamps \cup {NoStamp}
  BY DEF SourceStates, Journals, Marks
<1> QED BY <1>1, <1>2

LEMMA NewStateOK == NoObservation \in Observations /\ NewState \in SourceStates
BY NumbersOK DEF NoObservation, Observations, NewState, SourceStates, Orders

LEMMA ExportedOK == ASSUME NEW s \in SourceStates PROVE Exported(s) \in Journals
BY DEF Exported, SourceStates, Journals

LEMMA InvalidatedOK ==
  ASSUME NEW s \in SourceStates
  PROVE  /\ Invalidated(s) \in SourceStates /\ ~Invalidated(s).current
         /\ Invalidated(s).obs = s.obs /\ Invalidated(s).type = s.type
         /\ Invalidated(s).live = s.live
         /\ Invalidated(s).watermark = s.watermark /\ Invalidated(s).ordered = s.ordered
BY DEF Invalidated, SourceStates

\* A session opens without belief, with the greater of two watermarks of its type.
LEMMA BegunOK ==
  ASSUME restored \in Marks, NEW s \in SourceStates, NEW type \in Orders, NEW profiled \in BOOLEAN
  PROVE  LET b == Begun(s, type, profiled) IN
         /\ b \in SourceStates /\ ~b.current /\ b.obs = s.obs
         /\ b.type = type /\ b.live /\ b.ordered = type
         /\ b.watermark >= KeptWatermark(s, type)
<1> DEFINE kept == KeptWatermark(s, type)
           w == Imported(kept, type)
<1>1. kept \in Stamps \cup {NoStamp}
  BY DEF KeptWatermark, SourceStates
<1>2. w \in Stamps \cup {NoStamp} /\ w >= kept
  <2>1. kept \in Nat /\ restored.watermark \in Nat
        /\ restored.watermark \in Stamps \cup {NoStamp}
    <3>1. kept \in Nat
      BY <1>1, NumbersOK
    <3> QED BY <3>1, WatermarkNat
  <2> QED BY <1>1, <2>1 DEF Imported
<1> HIDE DEF kept, w
<1>3. Begun(s, type, profiled) =
        [s EXCEPT !.type = type, !.live = TRUE, !.profiled = profiled,
                  !.watermark = w, !.ordered = type, !.current = FALSE]
  BY DEF Begun, kept, w
<1> QED BY <1>2, <1>3 DEF SourceStates, kept

LEMMA ReconciledOK ==
  ASSUME restored \in Marks, NEW s \in SourceStates, NEW type \in Orders, NEW profiled \in BOOLEAN
  PROVE  LET b == Reconciled(s, type, profiled) IN
         /\ b \in SourceStates /\ ~b.current /\ b.obs = s.obs
         /\ type = NoType => ~b.live /\ b.watermark = s.watermark /\ b.ordered = s.ordered
         /\ type # NoType => /\ b.type = type /\ b.ordered = type
                             /\ b.watermark >= KeptWatermark(s, type)
<1>1. CASE type = NoType
  BY <1>1 DEF Reconciled, SourceStates
<1>2. CASE type # NoType
  BY <1>2, BegunOK DEF Reconciled
<1> QED BY <1>1, <1>2

\* A report is dropped, becomes the observation, or ends belief.
LEMMA AfterReportOK ==
  ASSUME NEW s \in SourceStates, NEW r \in Reports, mono \in 0..MaxMono
  PROVE  LET a == AfterReport(s, r) IN
         /\ a \in SourceStates
         /\ a.type = s.type /\ a.live = s.live /\ a.ordered = s.ordered
         /\ a.watermark >= s.watermark
         /\ Dropped(s, r) => a = s
         /\ Accepts(s, r) => /\ a.current /\ a.obs = [stamp |-> r.stamp, at |-> mono]
                             /\ r.stamp \in Stamps /\ r.stamp > s.watermark
                             /\ a.watermark = r.stamp
                             /\ s.type = SingleAxis /\ s.live
         /\ ~Dropped(s, r) /\ ~Accepts(s, r) => ~a.current
<1> DEFINE a == AfterReport(s, r)
<1>1. r.stamp \in Stamps \cup {Opaque} /\ s.watermark \in Nat
  BY WatermarkNat DEF Reports
<1>2. CASE Dropped(s, r)
  <2>1. ~Accepts(s, r)
    BY <1>2 DEF Accepts
  <2> QED BY <1>1, <1>2, <2>1 DEF AfterReport
<1>3. CASE ~Dropped(s, r) /\ Ordered(s, r)
  <2>1. r.stamp \in Stamps /\ r.stamp \in Nat /\ r.stamp > s.watermark /\ s.live
    <3>1. r.stamp \in Stamps /\ ~(r.stamp <= s.watermark) /\ s.live
      BY <1>1, <1>3 DEF Ordered, Dropped, Repeated, Foreign
    <3>2. r.stamp \in Nat
      BY <3>1, NumbersOK
    <3> QED BY <1>1, <3>1, <3>2
  <2>2. s.type # NoType
    BY <1>3 DEF Ordered
  <2>3. Advanced(s, r) = [s EXCEPT !.watermark = r.stamp]
    BY <1>3 DEF Advanced
  <2>4. CASE Accepts(s, r)
    <3>1. a = [Advanced(s, r) EXCEPT !.obs = [stamp |-> r.stamp, at |-> mono], !.current = TRUE]
      BY <1>3, <2>4 DEF AfterReport
    <3>2. [stamp |-> r.stamp, at |-> mono] \in Observations
      BY <2>1 DEF Observations
    <3>3. s.type = SingleAxis
      BY <2>4 DEF Accepts, Qualified
    <3>4. a = [s EXCEPT !.watermark = r.stamp, !.obs = [stamp |-> r.stamp, at |-> mono],
                        !.current = TRUE]
      BY <2>3, <3>1 DEF SourceStates
    <3>5. /\ a \in SourceStates /\ a.type = s.type /\ a.live = s.live /\ a.ordered = s.ordered
          /\ a.current /\ a.obs = [stamp |-> r.stamp, at |-> mono] /\ a.watermark = r.stamp
      BY <2>1, <3>2, <3>4 DEF SourceStates
    <3> HIDE DEF a
    <3>6. a.watermark >= s.watermark
      BY <1>1, <2>1, <3>5
    <3> QED BY <1>3, <2>1, <2>4, <3>3, <3>5, <3>6 DEF a
  <2>5. CASE ~Accepts(s, r)
    <3>1. a = Invalidated([s EXCEPT !.watermark = r.stamp])
      BY <1>3, <2>2, <2>3, <2>5 DEF AfterReport
    <3>2. [s EXCEPT !.watermark = r.stamp] \in SourceStates
      BY <2>1 DEF SourceStates
    <3>3. a = [s EXCEPT !.watermark = r.stamp, !.current = FALSE]
      BY <3>1 DEF Invalidated, SourceStates
    <3>4. /\ a \in SourceStates /\ a.type = s.type /\ a.live = s.live /\ a.ordered = s.ordered
          /\ ~a.current /\ a.watermark = r.stamp
      BY <2>1, <3>3 DEF SourceStates
    <3> HIDE DEF a
    <3>5. a.watermark >= s.watermark
      BY <1>1, <2>1, <3>4
    <3> QED BY <1>3, <2>5, <3>4, <3>5 DEF a
  <2> QED BY <2>4, <2>5
<1>4. CASE ~Dropped(s, r) /\ ~Ordered(s, r)
  <2>1. ~Accepts(s, r) /\ Advanced(s, r) = s
    BY <1>4 DEF Accepts, Advanced
  <2>2. a \in {[s EXCEPT !.obs = NoObservation, !.current = FALSE], Invalidated(s)}
    BY <1>4, <2>1 DEF AfterReport
  <2>3. /\ a \in SourceStates /\ a.type = s.type /\ a.live = s.live /\ a.ordered = s.ordered
        /\ ~a.current /\ a.watermark = s.watermark
    BY <2>2, NewStateOK DEF SourceStates, Invalidated
  <2> HIDE DEF a
  <2>4. a.watermark >= s.watermark
    BY <1>1, <2>3
  <2> QED BY <1>4, <2>1, <2>3, <2>4 DEF a
<1> QED BY <1>2, <1>3, <1>4

LEMMA MotionOK == ASSUME NEW s \in SourceStates
                  PROVE  Admitted(s) \in SourceStates /\ ~Admitted(s).current
                         /\ Admitted(s).type = s.type /\ Admitted(s).live = s.live
                         /\ Admitted(s).watermark = s.watermark /\ Admitted(s).ordered = s.ordered
BY InvalidatedOK DEF Admitted

\* The journal is replaced as a whole or left; while it stays healthy it is current.
LEMMA PersistOK ==
  ASSUME TypeOK, NEW s \in SourceStates, Persist(s), spent' \subseteq Stamps
  PROVE  /\ journal' \in Journals /\ journalOk' \in BOOLEAN /\ recorded' \subseteq Stamps
         /\ journalOk' => journalOk
         /\ \/ journal' = Exported(s) /\ recorded' = spent' /\ journalOk
            \/ journal' = Exported(s) /\ recorded' = recorded /\ ~journalOk' /\ journalOk
            \/ journal' = journal /\ recorded' = recorded /\ ~journalOk'
<1>1. journal \in Journals /\ recorded \subseteq Stamps /\ Exported(s) \in Journals
  BY ExportedOK DEF TypeOK, Journals
<1>2. CASE /\ journalOk /\ journal' = Exported(s) /\ journalOk' = TRUE /\ recorded' = spent'
  BY <1>1, <1>2
<1>3. CASE /\ journalOk /\ journal' \in {journal, Exported(s)} /\ journalOk' = FALSE
           /\ recorded' = recorded
  BY <1>1, <1>3
<1>4. CASE ~journalOk /\ UNCHANGED disk
  BY <1>1, <1>4 DEF disk, TypeOK
<1> QED BY <1>2, <1>3, <1>4 DEF Persist

(***************************************************************************)
(* Types                                                                   *)
(***************************************************************************)
LEMMA TypeFacts ==
  TypeOK => /\ state \in SourceStates /\ journal \in Journals /\ restored \in Marks
            /\ family \in Orders /\ known \in BOOLEAN /\ mono \in 0..MaxMono
            /\ spent \subseteq Stamps
BY SourcesAssumption DEF TypeOK, SourceStates, Journals, Marks, Orders

LEMMA TypeInit == Init => TypeOK
<1> SUFFICES ASSUME Init PROVE TypeOK
  OBVIOUS
<1>1. state \in SourceStates /\ journal \in Journals
  BY NewStateOK, ExportedOK DEF Init
<1>2. restored \in Marks
  BY DEF Init, Marks, Orders
<1>3. moves \in [Stamps -> 0..2] /\ mono \in 0..MaxMono
  BY NumbersOK DEF Init
<1> QED BY <1>1, <1>2, <1>3 DEF Init, TypeOK, SourceStates, Journals, Marks

\* Everything but the state, the disk and the connector keeps its type in every step.
LinkTypes ==
  /\ connected \in BOOLEAN /\ ready \in BOOLEAN /\ bound \in BOOLEAN /\ reset \in BOOLEAN
  /\ pc \in {"idle", "discovery", "poll"} /\ interrupted \in BOOLEAN

LEMMA LinkTypesStep == TypeOK /\ [Next]_vars => LinkTypes'
<1> SUFFICES ASSUME TypeOK, [Next]_vars PROVE LinkTypes'
  OBVIOUS
<1>1. CASE OnConnect \/ OnDisconnect
  BY <1>1 DEF TypeOK, LinkTypes, OnConnect, OnDisconnect
<1>2. CASE ClearReset \/ Unready \/ PollFailed
  BY <1>2 DEF TypeOK, LinkTypes, ClearReset, Unready, PollFailed, link, loop
<1>2a. CASE AskDiscovery \/ AskPoll
  BY <1>2a DEF TypeOK, LinkTypes, AskDiscovery, AskPoll, Ask, link
<1>3. CASE TokenRotated \/ Tick
  BY <1>3 DEF TypeOK, LinkTypes, TokenRotated, Tick, link, loop
<1>4. ASSUME NEW type, NEW rotated, Discovered(type, rotated) PROVE LinkTypes'
  BY <1>4 DEF TypeOK, LinkTypes, Discovered
<1>5. ASSUME NEW learned, Polled(learned) PROVE LinkTypes'
  BY <1>5 DEF TypeOK, LinkTypes, Polled, link
<1>6. ASSUME NEW r, Report(r) PROVE LinkTypes'
  BY <1>6 DEF TypeOK, LinkTypes, Report, link, loop
<1>7. ASSUME NEW kind, Motion(kind) PROVE LinkTypes'
  BY <1>7 DEF TypeOK, LinkTypes, Motion, link, loop
<1>8. ASSUME NEW readable, NEW now, Start(readable, now) PROVE LinkTypes'
  BY <1>8 DEF LinkTypes, Start
<1>9. CASE UNCHANGED vars
  BY <1>9 DEF TypeOK, LinkTypes, vars, link, loop
<1> QED BY <1>1, <1>2, <1>2a, <1>3, <1>4, <1>5, <1>6, <1>7, <1>8, <1>9 DEF Next

DataTypes ==
  /\ state \in SourceStates /\ family \in Discoverable \cup {NoType} /\ known \in BOOLEAN
  /\ journal \in Journals /\ journalOk \in BOOLEAN /\ restored \in Marks
  /\ mono \in 0..MaxMono /\ proof \in Stamps \cup {NoStamp}
  /\ spent \subseteq Stamps /\ recorded \subseteq Stamps /\ moves \in [Stamps -> 0..2]

LEMMA TypeParts == TypeOK <=> LinkTypes /\ DataTypes
BY DEF TypeOK, LinkTypes, DataTypes, SourceStates, Journals, Marks

LEMMA DataTypesStep == TypeOK /\ [Next]_vars => DataTypes'
<1> SUFFICES ASSUME TypeOK, [Next]_vars PROVE DataTypes'
  OBVIOUS
<1> USE TypeFacts, NumbersOK
<1>0. DataTypes
  BY TypeParts
<1>1. CASE OnConnect \/ OnDisconnect
  <2>1. state' = Invalidated(state) /\ Persist(state') /\ spent' = spent
    BY <1>1 DEF OnConnect, OnDisconnect
  <2>2. state' \in SourceStates
    BY <2>1, InvalidatedOK
  <2>3. journal' \in Journals /\ journalOk' \in BOOLEAN /\ recorded' \subseteq Stamps
    BY <2>1, <2>2, PersistOK
  <2> QED BY <1>0, <1>1, <2>1, <2>2, <2>3 DEF DataTypes, OnConnect, OnDisconnect
<1>2. CASE ClearReset \/ AskDiscovery \/ AskPoll \/ Unready \/ PollFailed
  BY <1>0, <1>2 DEF DataTypes, ClearReset, AskDiscovery, AskPoll, Ask, Unready, PollFailed, disk
<1>3. CASE TokenRotated
  <2>1. state' = Reconciled(state, family, FALSE) /\ Persist(state') /\ spent' = spent
    BY <1>3 DEF TokenRotated
  <2>2. state' \in SourceStates
    BY <2>1, ReconciledOK
  <2>3. journal' \in Journals /\ journalOk' \in BOOLEAN /\ recorded' \subseteq Stamps
    BY <2>1, <2>2, PersistOK
  <2> QED BY <1>0, <1>3, <2>1, <2>2, <2>3 DEF DataTypes, TokenRotated
<1>4. CASE Tick
  BY <1>0, <1>4 DEF DataTypes, Tick, disk
<1>5. ASSUME NEW type \in Discoverable \cup {NoType}, NEW rotated \in BOOLEAN,
             Discovered(type, rotated)
      PROVE DataTypes'
  <2>1. family' = type /\ known' \in BOOLEAN /\ spent' = spent /\ type \in Orders
    BY <1>5, SourcesAssumption DEF Discovered, Orders, TypeOK
  <2>2. state' \in SourceStates /\ proof' \in Stamps \cup {NoStamp}
        /\ (Persist(state') \/ UNCHANGED disk)
    <3>1. \/ state' = state /\ proof' = proof
          \/ state' = Reconciled(state, family', known') /\ proof' = NoStamp
      BY <1>5 DEF Discovered
    <3>2. Persist(state') \/ UNCHANGED disk
      BY <1>5 DEF Discovered
    <3>3. Reconciled(state, family', known') \in SourceStates
      BY <2>1, ReconciledOK
    <3> QED BY <1>0, <3>1, <3>2, <3>3 DEF DataTypes
  <2>3. journal' \in Journals /\ journalOk' \in BOOLEAN /\ recorded' \subseteq Stamps
    <3>1. CASE Persist(state')
      BY <2>1, <2>2, <3>1, PersistOK
    <3>2. CASE UNCHANGED disk
      BY <1>0, <3>2 DEF disk, DataTypes
    <3> QED BY <2>2, <3>1, <3>2
  <2> QED BY <1>0, <1>5, <2>1, <2>2, <2>3 DEF DataTypes, Discovered
<1>6. ASSUME NEW learned \in BOOLEAN, Polled(learned) PROVE DataTypes'
  <2>1. family' = family /\ known' = learned /\ spent' = spent
    BY <1>6 DEF Polled
  <2>2. state' \in SourceStates /\ proof' \in Stamps \cup {NoStamp}
    <3>1. \/ state' = state /\ proof' = proof
          \/ state' = Begun(state, family, TRUE) /\ proof' = NoStamp
      BY <1>6 DEF Polled
    <3>2. Begun(state, family, TRUE) \in SourceStates
      BY BegunOK
    <3> QED BY <1>0, <3>1, <3>2 DEF DataTypes
  <2>3. journal' \in Journals /\ journalOk' \in BOOLEAN /\ recorded' \subseteq Stamps
    <3>1. CASE Persist(state')
      BY <2>1, <2>2, <3>1, PersistOK
    <3>2. CASE UNCHANGED disk
      BY <1>0, <3>2 DEF disk, DataTypes
    <3> QED BY <1>6, <3>1, <3>2 DEF Polled
  <2> QED BY <1>0, <1>6, <2>1, <2>2, <2>3 DEF DataTypes, Polled
<1>7. ASSUME NEW r \in Reports, Report(r) PROVE DataTypes'
  <2>1. state' = AfterReport(state, r) /\ state' \in SourceStates
    BY <1>7, AfterReportOK DEF Report
  <2>2. proof' \in Stamps \cup {NoStamp} /\ spent' \subseteq Stamps
    BY <1>0, <1>7, AfterReportOK DEF Report, DataTypes
  <2>3. journal' \in Journals /\ journalOk' \in BOOLEAN /\ recorded' \subseteq Stamps
    BY <1>7, <2>1, <2>2, PersistOK DEF Report
  <2>4. known' \in BOOLEAN
    BY <1>7 DEF Report, Observed
  <2> QED BY <1>0, <1>7, <2>1, <2>2, <2>3, <2>4 DEF DataTypes, Report
<1>8. ASSUME NEW kind, Motion(kind) PROVE DataTypes'
  <2>1. spent' = spent /\ Persist(state)
    BY <1>8 DEF Motion
  <2>2. journal' \in Journals /\ journalOk' \in BOOLEAN /\ recorded' \subseteq Stamps
    BY <2>1, PersistOK
  <2>3. state' \in SourceStates /\ proof' \in Stamps \cup {NoStamp}
    BY <1>0, <1>8, MotionOK DEF Motion, DataTypes
  <2>4. moves' \in [Stamps -> 0..2]
    <3>1. \A n \in 0..2 : OneMore(n) \in 0..2
      BY DEF OneMore
    <3>2. [moves EXCEPT ![state.obs.stamp] = OneMore(@)] \in [Stamps -> 0..2]
      BY <1>0, <3>1 DEF DataTypes
    <3> QED BY <1>0, <1>8, <3>2 DEF Motion, DataTypes
  <2> QED BY <1>0, <1>8, <2>1, <2>2, <2>3, <2>4 DEF DataTypes, Motion
<1>9. ASSUME NEW readable \in BOOLEAN, NEW now \in 0..MaxMono, Start(readable, now)
      PROVE DataTypes'
  <2>1. RestoredState(journal) \in SourceStates
    BY NewStateOK DEF RestoredState, NewState, SourceStates, Journals, Orders
  <2>2. state' \in SourceStates
    BY <1>9, <2>1, NewStateOK DEF Start
  <2>3. restored' \in Marks
    BY <1>9 DEF Start, Marks, Journals, Orders
  <2> QED BY <1>0, <1>9, <2>2, <2>3 DEF DataTypes, Start
<1>10. CASE UNCHANGED vars
  BY <1>0, <1>10 DEF DataTypes, vars, disk
<1> QED BY <1>1, <1>2, <1>3, <1>4, <1>5, <1>6, <1>7, <1>8, <1>9, <1>10 DEF Next

\* Every variable keeps its type: what is believed, persisted and restored is always of
\* the shape State and the journal have, whatever fails and is started again.
THEOREM SourcesTypeCorrect == Spec => []TypeOK
<1>1. TypeOK /\ [Next]_vars => TypeOK'
  BY LinkTypesStep, DataTypesStep DEF TypeOK, LinkTypes, DataTypes, SourceStates, Journals, Marks
<1> QED BY <1>1, TypeInit, PTL DEF Spec

(***************************************************************************)
(* What is believed, and of which device                                   *)
(***************************************************************************)
\* A current observation is of the session over this connection and the last one accepted.
Believed ==
  state.current =>
    /\ connected /\ state.live /\ state.type = SingleAxis
    /\ state.obs.stamp \in Stamps /\ state.obs.stamp = proof

\* The session is that of the inventory: of its device's type, or of none.
Matches == IF family = NoType THEN ~state.live ELSE family = state.type

\* An inventory that was committed although the connection changed matches again before
\* reports are taken: ready is gone, and reset or a lost connection stands in for it.
Inventory ==
  /\ pc = "discovery" /\ interrupted /\ connected => reset
  /\ pc = "poll" => family = SingleAxis
  /\ connected /\ bound /\ (ready \/ ~reset) => Matches

BeliefInv == TypeOK /\ Believed /\ Inventory

LEMMA BelievedInit == Init => BeliefInv
BY TypeInit DEF Init, BeliefInv, Believed, Inventory, NewState

\* A position is believed only from its report on, and by nothing else than a report.
LEMMA BelievedStep == BeliefInv /\ [Next]_vars => Believed'
<1> SUFFICES ASSUME BeliefInv, [Next]_vars, state'.current PROVE Believed'
  BY DEF Believed
<1>0. TypeOK /\ Believed /\ (pc = "poll" => family = SingleAxis)
  BY DEF BeliefInv, Inventory
<1> USE TypeFacts
<1>1. CASE OnConnect \/ OnDisconnect
  BY <1>0, <1>1, InvalidatedOK DEF OnConnect, OnDisconnect
<1>2. CASE ClearReset \/ AskDiscovery \/ AskPoll \/ Unready \/ PollFailed \/ Tick
  BY <1>0, <1>2 DEF Believed, ClearReset, AskDiscovery, AskPoll, Ask, Unready, PollFailed, Tick, link
<1>3. CASE TokenRotated
  BY <1>0, <1>3, ReconciledOK DEF TokenRotated
<1>4. ASSUME NEW type \in Discoverable \cup {NoType}, NEW rotated \in BOOLEAN,
             Discovered(type, rotated)
      PROVE Believed'
  <2>1. type \in Orders /\ family' = type /\ known' \in BOOLEAN
    BY <1>0, <1>4, SourcesAssumption DEF Discovered, Orders
  <2>2. ~Reconciled(state, family', known').current
    BY <1>0, <2>1, ReconciledOK
  <2> QED BY <1>0, <1>4, <2>2 DEF Discovered, Believed
<1>5. ASSUME NEW learned \in BOOLEAN, Polled(learned) PROVE Believed'
  <2>1. ~Begun(state, family, TRUE).current
    BY <1>0, BegunOK
  <2> QED BY <1>0, <1>5, <2>1 DEF Polled, Believed, link
<1>6. ASSUME NEW r \in Reports, Report(r) PROVE Believed'
  <2>1. connected /\ connected' = connected /\ state' = AfterReport(state, r)
    BY <1>6 DEF Report, Listening, link
  <2>2. CASE Accepts(state, r)
    <3>1. proof' = r.stamp
      BY <1>6, <2>2 DEF Report
    <3>2. /\ state'.obs = [stamp |-> r.stamp, at |-> mono] /\ r.stamp \in Stamps
          /\ state'.type = SingleAxis /\ state'.live
      BY <1>0, <2>1, <2>2, AfterReportOK
    <3> QED BY <2>1, <3>1, <3>2 DEF Believed
  <2>3. CASE ~Accepts(state, r)
    <3>1. Dropped(state, r) /\ state' = state
      BY <1>0, <2>1, <2>3, AfterReportOK
    <3> QED BY <1>0, <1>6, <2>1, <2>3, <3>1 DEF Report, Believed
  <2> QED BY <2>2, <2>3
<1>7. ASSUME NEW kind, Motion(kind) PROVE Believed'
  BY <1>0, <1>7, MotionOK DEF Motion, Believed, link
<1>8. ASSUME NEW readable, NEW now, Start(readable, now) PROVE Believed'
  BY <1>8 DEF Start, RestoredState, NewState
<1>9. CASE UNCHANGED vars
  BY <1>0, <1>9 DEF vars, link, Believed
<1> QED BY <1>1, <1>2, <1>3, <1>4, <1>5, <1>6, <1>7, <1>8, <1>9 DEF Next

LEMMA BelievesByReport ==
  ASSUME BeliefInv, Next, state'.current, ~state.current \/ state'.obs # state.obs
  PROVE  \E r \in Reports : Report(r)
<1>0. TypeOK
  BY DEF BeliefInv
<1> USE TypeFacts
<1>1. ~(OnConnect \/ OnDisconnect)
  BY <1>0, InvalidatedOK DEF OnConnect, OnDisconnect
<1>2. ~(ClearReset \/ AskDiscovery \/ AskPoll \/ Unready \/ PollFailed \/ Tick)
  BY DEF ClearReset, AskDiscovery, AskPoll, Ask, Unready, PollFailed, Tick
<1>3. ~TokenRotated
  <2>1. restored \in Marks /\ state \in SourceStates /\ family \in Orders
    BY <1>0 DEF TypeOK
  <2>2. ~Reconciled(state, family, FALSE).current
    BY <2>1, ReconciledOK
  <2> QED BY <2>2 DEF TokenRotated
<1>4. ASSUME NEW type \in Discoverable \cup {NoType}, NEW rotated \in BOOLEAN,
             Discovered(type, rotated)
      PROVE FALSE
  <2>1. type \in Orders /\ family' = type /\ known' \in BOOLEAN
    BY <1>0, <1>4, SourcesAssumption DEF Discovered, Orders
  <2>2. ~Reconciled(state, family', known').current
    BY <1>0, <2>1, ReconciledOK
  <2> QED BY <1>4, <2>2 DEF Discovered
<1>5. ASSUME NEW learned \in BOOLEAN, Polled(learned) PROVE FALSE
  <2>1. ~Begun(state, family, TRUE).current
    BY <1>0, BegunOK
  <2> QED BY <1>5, <2>1 DEF Polled
<1>6. ASSUME NEW kind, Motion(kind) PROVE FALSE
  BY <1>0, <1>6, MotionOK DEF Motion
<1>7. ASSUME NEW readable, NEW now, Start(readable, now) PROVE FALSE
  BY <1>7 DEF Start, RestoredState, NewState
<1> QED BY <1>1, <1>2, <1>3, <1>4, <1>5, <1>6, <1>7 DEF Next

\* A new session for the inventory's device matches it.
LEMMA ReconciledMatches ==
  ASSUME TypeOK, NEW type \in Orders, NEW profiled \in BOOLEAN,
         family' = type, state' = Reconciled(state, type, profiled)
  PROVE  Matches'
BY TypeFacts, ReconciledOK DEF Matches

LEMMA InventoryStep == BeliefInv /\ [Next]_vars => Inventory'
<1> SUFFICES ASSUME BeliefInv, [Next]_vars PROVE Inventory'
  OBVIOUS
<1>0. TypeOK /\ Inventory
  BY DEF BeliefInv
<1> USE TypeFacts
<1>1. CASE OnConnect \/ OnDisconnect
  BY <1>0, <1>1 DEF Inventory, OnConnect, OnDisconnect
<1>2. CASE ClearReset
  BY <1>0, <1>2 DEF Inventory, Matches, ClearReset, loop
<1>3. CASE AskDiscovery \/ AskPoll
  BY <1>0, <1>3 DEF Inventory, Matches, AskDiscovery, AskPoll, Ask, link
<1>4. CASE Unready \/ PollFailed
  BY <1>0, <1>4 DEF Inventory, Matches, Unready, PollFailed, link
<1>5. CASE TokenRotated
  <2>1. Matches'
    BY <1>0, <1>5, ReconciledMatches DEF TokenRotated
  <2> QED BY <1>0, <1>5, <2>1 DEF Inventory, TokenRotated, link, loop
<1>6. CASE Tick
  BY <1>0, <1>6 DEF Inventory, Matches, Tick, link, loop
<1>7. ASSUME NEW type \in Discoverable \cup {NoType}, NEW rotated \in BOOLEAN,
             Discovered(type, rotated)
      PROVE Inventory'
  <2>1. /\ type \in Orders /\ family' = type /\ known' \in BOOLEAN
        /\ pc = "discovery" /\ pc' = "idle" /\ connected' = connected /\ reset' = reset
    BY <1>0, <1>7, SourcesAssumption DEF Discovered, Orders
  <2>2. CASE interrupted \/ ~connected
    <3>1. ready' = FALSE /\ (connected => reset)
      BY <1>0, <1>7, <2>1, <2>2 DEF Discovered, Inventory
    <3> QED BY <2>1, <3>1 DEF Inventory
  <2>3. CASE ~(interrupted \/ ~connected) /\ Reconciles(type # family \/ rotated)
    <3>1. state' = Reconciled(state, family', known')
      BY <1>7, <2>3 DEF Discovered
    <3>2. Matches'
      BY <1>0, <2>1, <3>1, ReconciledMatches
    <3> QED BY <2>1, <3>2 DEF Inventory
  <2>4. CASE ~(interrupted \/ ~connected) /\ ~Reconciles(type # family \/ rotated)
    <3>1. state' = state /\ bound' = bound /\ family' = family /\ bound /\ ~reset /\ connected
      BY <1>7, <2>1, <2>4 DEF Discovered, Reconciles
    <3>2. Matches
      BY <1>0, <3>1 DEF Inventory
    <3> QED BY <2>1, <3>1, <3>2 DEF Inventory, Matches
  <2> QED BY <2>2, <2>3, <2>4
<1>8. ASSUME NEW learned \in BOOLEAN, Polled(learned) PROVE Inventory'
  <2>1. /\ pc' = "idle" /\ family' = family /\ family = SingleAxis /\ UNCHANGED link
    BY <1>0, <1>8 DEF Polled, Inventory
  <2>2. CASE state' = state
    BY <1>0, <2>1, <2>2 DEF Inventory, Matches, link
  <2>3. CASE state' = Begun(state, family, TRUE)
    <3>1. Matches'
      BY <1>0, <2>1, <2>3, BegunOK, SourcesAssumption DEF Matches
    <3> QED BY <2>1, <3>1 DEF Inventory
  <2> QED BY <1>8, <2>2, <2>3 DEF Polled
<1>9. ASSUME NEW r \in Reports, Report(r) PROVE Inventory'
  <2>1. state'.type = state.type /\ state'.live = state.live
    BY <1>0, <1>9, AfterReportOK DEF Report
  <2> QED BY <1>0, <1>9, <2>1 DEF Inventory, Matches, Report, link, loop
<1>10. ASSUME NEW kind, Motion(kind) PROVE Inventory'
  <2>1. state'.type = state.type /\ state'.live = state.live
    BY <1>0, <1>10, MotionOK DEF Motion
  <2> QED BY <1>0, <1>10, <2>1 DEF Inventory, Matches, Motion, link, loop
<1>11. ASSUME NEW readable, NEW now, Start(readable, now) PROVE Inventory'
  BY <1>11 DEF Start, Inventory
<1>12. CASE UNCHANGED vars
  BY <1>0, <1>12 DEF vars, link, loop, Inventory, Matches
<1> QED BY <1>1, <1>2, <1>3, <1>4, <1>5, <1>6, <1>7, <1>8, <1>9, <1>10, <1>11, <1>12 DEF Next

LEMMA BeliefStep == BeliefInv /\ [Next]_vars => BeliefInv'
<1>1. BeliefInv /\ [Next]_vars => TypeOK'
  BY LinkTypesStep, DataTypesStep
     DEF BeliefInv, TypeOK, LinkTypes, DataTypes, SourceStates, Journals, Marks
<1> QED BY <1>1, BelievedStep, InventoryStep DEF BeliefInv

LEMMA BeliefAlways == Spec => []BeliefInv
BY BelievedInit, BeliefStep, PTL DEF Spec

\* A usable position is the bridge's last word over a live connection, whatever was
\* reported late or twice, lost, failed or started again.
THEOREM UsableLastWord == Spec => []UsableIsLastWord
<1>1. BeliefInv => UsableIsLastWord
  BY NumbersOK DEF BeliefInv, Believed, UsableIsLastWord, Usable
<1> QED BY <1>1, BeliefAlways, PTL

\* While reports are taken, a usable position is of the device the inventory lists.
THEOREM UsableInventoried == Spec => []UsableIsInventoried
<1>1. BeliefInv => UsableIsInventoried
  BY DEF BeliefInv, Believed, Inventory, Matches, UsableIsInventoried, Usable
<1> QED BY <1>1, BeliefAlways, PTL

(***************************************************************************)
(* The watermark                                                           *)
(***************************************************************************)
\* One type of device: every session orders its reports after the same watermark.
OneType ==
  /\ state.type \in {NoType, SingleAxis} /\ state.ordered \in {NoType, SingleAxis}
  /\ state.type # NoType => state.ordered = SingleAxis
  /\ state.ordered = NoType => state.watermark = NoStamp
  /\ journal.ordered = NoType => journal.watermark = NoStamp
  /\ journal.ordered \in {NoType, SingleAxis}

\* What was accepted and what was acted on is behind the watermarks that matter: those
\* of this process, and what the next one will read.
Ahead ==
  /\ \A n \in spent : n <= state.watermark
  /\ \A n \in recorded : n <= journal.watermark
  /\ \A n \in Stamps : moves[n] > 0 => n <= journal.watermark
  /\ journalOk => journal.watermark <= state.watermark
  /\ state.current => state.obs.stamp <= state.watermark

\* Belief that may still move a shade has moved none yet.
Unspent ==
  /\ \A n \in Stamps : moves[n] <= 1
  /\ journalOk /\ state.current => moves[state.obs.stamp] = 0

WatermarkInv == BeliefInv /\ OneType /\ Ahead /\ Unspent

\* Discoveries list the supported type only; then every session is of that type.
OneInventory == Discoverable = {SingleAxis}

LEMMA WatermarkInit == Init => WatermarkInv
<1> SUFFICES ASSUME Init PROVE OneType /\ Ahead /\ Unspent
  BY BelievedInit DEF WatermarkInv
<1> QED BY NumbersOK DEF Init, OneType, Ahead, Unspent, NewState, Exported, NoObservation

\* A state whose watermark orders reports of the one type, ahead of the present one.
Ordering(s) ==
  /\ s.type \in {NoType, SingleAxis} /\ s.ordered \in {NoType, SingleAxis}
  /\ s.type # NoType => s.ordered = SingleAxis
  /\ s.ordered = NoType => s.watermark = NoStamp

Onward(s) == s \in SourceStates /\ Ordering(s) /\ s.watermark >= state.watermark

LEMMA WatermarkParts ==
  WatermarkInv => /\ TypeOK /\ OneType /\ Ahead /\ Unspent /\ Ordering(state)
                  /\ state.watermark \in Nat /\ journal.watermark \in Nat
                  /\ spent \subseteq Nat /\ recorded \subseteq Nat
                  /\ \A n \in Stamps : moves[n] \in 0..2
<1> SUFFICES ASSUME WatermarkInv PROVE
      /\ TypeOK /\ Ordering(state)
      /\ state.watermark \in Nat /\ journal.watermark \in Nat
      /\ spent \subseteq Nat /\ recorded \subseteq Nat /\ \A n \in Stamps : moves[n] \in 0..2
  BY DEF WatermarkInv
<1>1. TypeOK
  BY DEF WatermarkInv, BeliefInv
<1>2. Ordering(state)
  BY DEF WatermarkInv, OneType, Ordering
<1>3. state.watermark \in Nat /\ journal.watermark \in Nat
  BY <1>1, TypeFacts, WatermarkNat
<1>4. spent \subseteq Nat /\ recorded \subseteq Nat /\ \A n \in Stamps : moves[n] \in 0..2
  BY <1>1, NumbersOK DEF TypeOK
<1> QED BY <1>1, <1>2, <1>3, <1>4

\* Persisting a state that is onward keeps the journal ahead of what it must remember.
LEMMA DiskAhead ==
  ASSUME WatermarkInv, NEW s, Onward(s), Persist(s) \/ UNCHANGED disk,
         spent' \subseteq Stamps, \A n \in spent' : n <= s.watermark
  PROVE  /\ journal'.watermark \in Nat /\ journal'.watermark >= journal.watermark
         /\ \A n \in recorded' : n <= journal'.watermark
         /\ journalOk' => journalOk /\ journal'.watermark <= s.watermark
         /\ journal'.ordered \in {NoType, SingleAxis}
         /\ journal'.ordered = NoType => journal'.watermark = NoStamp
<1>0. /\ TypeOK /\ OneType /\ Ahead /\ s \in SourceStates /\ Ordering(s)
      /\ s.watermark \in Nat /\ s.watermark >= state.watermark
      /\ state.watermark \in Nat /\ journal.watermark \in Nat /\ recorded \subseteq Nat
  BY WatermarkParts, WatermarkNat DEF Onward
<1>1. CASE UNCHANGED disk
  BY <1>0, <1>1 DEF disk, Ahead, OneType
<1>2. CASE Persist(s)
  <2>1. /\ journalOk' => journalOk
        /\ \/ journal' = Exported(s) /\ recorded' = spent' /\ journalOk
           \/ journal' = Exported(s) /\ recorded' = recorded /\ ~journalOk' /\ journalOk
           \/ journal' = journal /\ recorded' = recorded /\ ~journalOk'
    BY <1>0, <1>2, PersistOK
  <2>2. Exported(s).watermark = s.watermark /\ Exported(s).ordered = s.ordered
    BY DEF Exported
  <2>3. CASE journal' = journal /\ recorded' = recorded /\ ~journalOk'
    BY <1>0, <2>3 DEF Ahead, OneType
  <2>4. CASE journal' = Exported(s) /\ journalOk
    <3>1. journal.watermark <= s.watermark
      BY <1>0, <2>4 DEF Ahead
    <3>2. \A n \in recorded : n <= s.watermark
      <4> SUFFICES ASSUME NEW n \in recorded PROVE n <= s.watermark
        OBVIOUS
      <4>1. n \in Nat /\ n <= journal.watermark
        BY <1>0 DEF Ahead
      <4> QED BY <1>0, <3>1, <4>1
    <3>3. \A n \in recorded' : n <= s.watermark
      BY <2>1, <2>4, <3>2
    <3> QED BY <1>0, <2>1, <2>2, <2>4, <3>1, <3>3 DEF Ordering
  <2> QED BY <2>1, <2>3, <2>4
<1> QED BY <1>1, <1>2

\* Every step but a motion and a start: the state goes on, and if it believes anything
\* it did not before, that is a report nothing was done on yet.
LEMMA WatermarkOnward ==
  ASSUME WatermarkInv, Onward(state'), Persist(state') \/ UNCHANGED disk, moves' = moves,
         spent' \subseteq Stamps, \A n \in spent' : n <= state'.watermark,
         state'.current => \/ state.current /\ state'.obs = state.obs
                           \/ /\ state'.obs.stamp \in Stamps
                              /\ state'.obs.stamp = state'.watermark
                              /\ state'.obs.stamp > state.watermark
  PROVE  OneType' /\ Ahead' /\ Unspent'
<1>0. /\ TypeOK /\ OneType /\ Ahead /\ Unspent /\ state' \in SourceStates /\ Ordering(state')
      /\ state'.watermark \in Nat /\ state'.watermark >= state.watermark
      /\ state.watermark \in Nat /\ journal.watermark \in Nat
      /\ \A n \in Stamps : moves[n] \in 0..2
  BY WatermarkParts, WatermarkNat DEF Onward
<1>1. /\ journal'.watermark \in Nat /\ journal'.watermark >= journal.watermark
      /\ \A n \in recorded' : n <= journal'.watermark
      /\ journalOk' => journalOk /\ journal'.watermark <= state'.watermark
      /\ journal'.ordered \in {NoType, SingleAxis}
      /\ journal'.ordered = NoType => journal'.watermark = NoStamp
  BY DiskAhead
<1>2. OneType'
  BY <1>0, <1>1 DEF OneType, Ordering
<1>3. \A n \in Stamps : n \in Nat /\ (moves[n] > 0 => n <= journal.watermark)
  BY <1>0, NumbersOK DEF Ahead
<1>4. state'.current => state'.obs.stamp <= state'.watermark
  <2>1. CASE state.current /\ state'.obs = state.obs /\ state'.current
    <3>1. state.obs.stamp \in Nat /\ state.obs.stamp <= state.watermark
      BY <1>0, <2>1, NumbersOK DEF WatermarkInv, BeliefInv, Believed, Ahead
    <3> QED BY <1>0, <2>1, <3>1
  <2>2. CASE state'.obs.stamp = state'.watermark
    BY <1>0, <2>2
  <2> QED BY <2>1, <2>2
<1>5. Ahead'
  <2>1. \A n \in Stamps : moves'[n] > 0 => n <= journal'.watermark
    BY <1>0, <1>1, <1>3
  <2> QED BY <1>1, <1>4, <2>1 DEF Ahead
<1>6. journalOk' /\ state'.current => moves'[state'.obs.stamp] = 0
  <2>1. CASE state.current /\ state'.obs = state.obs
    BY <1>0, <1>1, <2>1 DEF Unspent
  <2>2. CASE /\ journalOk' /\ state'.obs.stamp \in Stamps /\ state'.obs.stamp > state.watermark
    <3>1. journal.watermark <= state.watermark
      BY <1>0, <1>1, <2>2 DEF Ahead
    <3>2. ~(moves[state'.obs.stamp] > 0)
      BY <1>0, <1>3, <2>2, <3>1
    <3> QED BY <1>0, <2>2, <3>2
  <2> QED BY <2>1, <2>2
<1> QED BY <1>0, <1>2, <1>5, <1>6 DEF Unspent

LEMMA InvalidatedOnward ==
  ASSUME WatermarkInv PROVE Onward(Invalidated(state)) /\ Onward(state)
BY WatermarkParts, TypeFacts, InvalidatedOK DEF Onward, Ordering

LEMMA SpentAhead == WatermarkInv => \A w \in Nat : w >= state.watermark
                                       => \A n \in spent : n \in Stamps /\ n <= w
<1> SUFFICES ASSUME WatermarkInv, NEW w \in Nat, w >= state.watermark, NEW n \in spent
             PROVE  n \in Stamps /\ n <= w
  OBVIOUS
<1>1. n \in Nat /\ n \in Stamps /\ n <= state.watermark /\ state.watermark \in Nat
  BY WatermarkParts, TypeFacts DEF Ahead
<1> QED BY <1>1

\* Steps after which nothing is believed that was not before.
LEMMA WatermarkQuiet ==
  ASSUME WatermarkInv, Onward(state'), Persist(state') \/ UNCHANGED disk, moves' = moves,
         spent' = spent, state'.current => state' = state
  PROVE  OneType' /\ Ahead' /\ Unspent'
<1>1. state'.watermark \in Nat /\ state'.watermark >= state.watermark
  BY WatermarkNat DEF Onward
<1>2. spent' \subseteq Stamps /\ \A n \in spent' : n <= state'.watermark
  BY <1>1, SpentAhead
<1> QED BY <1>2, WatermarkOnward

LEMMA OpensOnward ==
  ASSUME OneInventory, WatermarkInv, NEW type \in {NoType, SingleAxis}, NEW profiled \in BOOLEAN
  PROVE  /\ Onward(Reconciled(state, type, profiled))
         /\ ~Reconciled(state, type, profiled).current
         /\ type # NoType => /\ Onward(Begun(state, type, profiled))
                             /\ ~Begun(state, type, profiled).current
<1> DEFINE b == Reconciled(state, type, profiled)
<1>0. type \in Orders /\ SingleAxis # NoType /\ TypeOK /\ OneType /\ Ordering(state)
      /\ state.watermark \in Nat
  BY WatermarkParts, SourcesAssumption DEF Orders
<1>1. /\ b \in SourceStates /\ ~b.current
      /\ type = NoType => b.watermark = state.watermark /\ b.ordered = state.ordered
      /\ type # NoType => /\ b.type = type /\ b.ordered = type
                          /\ b.watermark >= KeptWatermark(state, type)
      /\ type = NoType => b.type = state.type
  <2>1. state \in SourceStates /\ restored \in Marks
    BY <1>0, TypeFacts
  <2>2. type = NoType => b.type = state.type
    BY <2>1 DEF Reconciled, SourceStates
  <2> QED BY <1>0, <2>1, <2>2, ReconciledOK
<1>2. KeptWatermark(state, SingleAxis) = state.watermark
  BY <1>0 DEF KeptWatermark, Ordering
<1>3. b.watermark \in Nat
  BY <1>1, WatermarkNat
<1>4. Onward(b)
  <2>1. CASE type = NoType
    BY <1>0, <1>1, <2>1 DEF Onward, Ordering
  <2>2. CASE type = SingleAxis
    BY <1>0, <1>1, <1>2, <1>3, <2>2 DEF Onward, Ordering
  <2> QED BY <2>1, <2>2
<1>5. type # NoType => b = Begun(state, type, profiled)
  BY DEF Reconciled
<1> QED BY <1>1, <1>4, <1>5

LEMMA WatermarkStep ==
  OneInventory /\ WatermarkInv /\ [Next]_vars => OneType' /\ Ahead' /\ Unspent'
<1> SUFFICES ASSUME OneInventory, WatermarkInv, [Next]_vars
             PROVE  OneType' /\ Ahead' /\ Unspent'
  OBVIOUS
<1>0. /\ TypeOK /\ OneType /\ Ahead /\ Unspent /\ Ordering(state) /\ Inventory /\ Believed
      /\ state.watermark \in Nat /\ family \in {NoType, SingleAxis}
  BY WatermarkParts, TypeFacts DEF WatermarkInv, BeliefInv, OneInventory, TypeOK
<1>1. CASE OnConnect \/ OnDisconnect
  <2>1. state' = Invalidated(state) /\ Persist(state') /\ UNCHANGED <<spent, moves>>
    BY <1>1 DEF OnConnect, OnDisconnect
  <2>2. ~state'.current
    BY <1>0, <2>1, TypeFacts, InvalidatedOK
  <2> QED BY <2>1, <2>2, InvalidatedOnward, WatermarkQuiet
<1>2. CASE ClearReset \/ AskDiscovery \/ AskPoll \/ Unready \/ PollFailed \/ Tick
  <2>1. UNCHANGED <<state, disk, spent, moves>>
    BY <1>2 DEF ClearReset, AskDiscovery, AskPoll, Ask, Unready, PollFailed, Tick
  <2> QED BY <2>1, InvalidatedOnward, WatermarkQuiet
<1>3. CASE TokenRotated
  <2>1. state' = Reconciled(state, family, FALSE) /\ Persist(state') /\ UNCHANGED <<spent, moves>>
    BY <1>3 DEF TokenRotated
  <2> QED BY <1>0, <2>1, OpensOnward, WatermarkQuiet
<1>4. ASSUME NEW type \in Discoverable \cup {NoType}, NEW rotated \in BOOLEAN,
             Discovered(type, rotated)
      PROVE OneType' /\ Ahead' /\ Unspent'
  <2>1. /\ type \in {NoType, SingleAxis} /\ family' = type /\ known' \in BOOLEAN
        /\ UNCHANGED <<spent, moves>> /\ (Persist(state') \/ UNCHANGED disk)
    BY <1>0, <1>4 DEF Discovered, OneInventory, TypeOK
  <2>2. state' = state \/ state' = Reconciled(state, family', known')
    BY <1>4 DEF Discovered
  <2>3. Onward(state') /\ (state'.current => state' = state)
    BY <2>1, <2>2, OpensOnward, InvalidatedOnward
  <2> QED BY <2>1, <2>3, WatermarkQuiet
<1>5. ASSUME NEW learned \in BOOLEAN, Polled(learned) PROVE OneType' /\ Ahead' /\ Unspent'
  <2>1. /\ family = SingleAxis /\ family # NoType
        /\ UNCHANGED <<spent, moves>> /\ (Persist(state') \/ UNCHANGED disk)
    BY <1>0, <1>5, SourcesAssumption DEF Polled, Inventory
  <2>2. state' = state \/ state' = Begun(state, family, TRUE)
    BY <1>5 DEF Polled
  <2>3. Onward(state') /\ (state'.current => state' = state)
    BY <2>1, <2>2, OpensOnward, InvalidatedOnward
  <2> QED BY <2>1, <2>3, WatermarkQuiet
<1>6. ASSUME NEW r \in Reports, Report(r) PROVE OneType' /\ Ahead' /\ Unspent'
  <2> DEFINE a == AfterReport(state, r)
  <2>1. state' = a /\ Persist(state') /\ moves' = moves
    BY <1>6 DEF Report
  <2>2. /\ a \in SourceStates /\ a.type = state.type /\ a.ordered = state.ordered
        /\ a.watermark >= state.watermark
        /\ Dropped(state, r) => a = state
        /\ Accepts(state, r) => /\ a.obs.stamp = r.stamp /\ r.stamp \in Stamps
                                /\ r.stamp > state.watermark /\ a.watermark = r.stamp
                                /\ state.type = SingleAxis
        /\ ~Dropped(state, r) /\ ~Accepts(state, r) => ~a.current
    <3>1. state \in SourceStates /\ mono \in 0..MaxMono
      BY <1>0, TypeFacts
    <3> HIDE DEF a
    <3>2. /\ a \in SourceStates /\ a.type = state.type /\ a.ordered = state.ordered
          /\ a.watermark >= state.watermark
          /\ Dropped(state, r) => a = state
          /\ Accepts(state, r) => /\ a.obs = [stamp |-> r.stamp, at |-> mono]
                                  /\ r.stamp \in Stamps /\ r.stamp > state.watermark
                                  /\ a.watermark = r.stamp /\ state.type = SingleAxis
          /\ ~Dropped(state, r) /\ ~Accepts(state, r) => ~a.current
      BY <3>1, AfterReportOK DEF a
    <3> QED BY <3>2
  <2> HIDE DEF a
  <2>3. Onward(a)
    <3>1. a.ordered = NoType => a.watermark = NoStamp
      <4>1. CASE Accepts(state, r)
        BY <1>0, <2>2, <4>1, SourcesAssumption DEF Ordering
      <4>2. CASE ~Accepts(state, r)
        <5>1. a.ordered = NoType => state.type = NoType
          BY <1>0, <2>2, SourcesAssumption DEF Ordering
        <5>2. state.type = NoType => a.watermark = state.watermark
          <6> SUFFICES ASSUME state.type = NoType, ~Dropped(state, r)
                       PROVE  a.watermark = state.watermark
            BY <2>2
          <6>1. Advanced(state, r) = state
            BY DEF Advanced, Ordered
          <6>2. \/ a = [state EXCEPT !.obs = NoObservation, !.current = FALSE]
                \/ a = Invalidated(state)
            BY <4>2, <6>1 DEF a, AfterReport
          <6> QED BY <1>0, <6>2, TypeFacts DEF Invalidated, SourceStates
        <5> QED BY <1>0, <2>2, <5>1, <5>2 DEF Ordering
      <4> QED BY <4>1, <4>2
    <3> QED BY <1>0, <2>2, <3>1 DEF Onward, Ordering
  <2>4. a.watermark \in Nat
    BY <2>2, WatermarkNat
  <2>5. CASE Accepts(state, r)
    <3>1. spent' = spent \cup {r.stamp}
      BY <1>6, <2>5 DEF Report
    <3>2. spent' \subseteq Stamps /\ \A n \in spent' : n <= a.watermark
      BY <2>2, <2>4, <2>5, <3>1, SpentAhead
    <3> QED BY <2>1, <2>2, <2>3, <2>5, <3>2, WatermarkOnward
  <2>6. CASE ~Accepts(state, r)
    <3>1. spent' = spent
      BY <1>6, <2>6 DEF Report
    <3> QED BY <2>1, <2>2, <2>3, <2>6, <3>1, WatermarkQuiet
  <2> QED BY <2>5, <2>6
<1>7. ASSUME NEW kind, Motion(kind) PROVE OneType' /\ Ahead' /\ Unspent'
  <2>1. Persist(state) /\ spent' = spent /\ Onward(state) /\ journalOk
    BY <1>7, InvalidatedOnward DEF Motion, Gate
  <2>2. CASE ~journalOk'
    <3>1. state' = state /\ moves' = moves
      BY <1>7, <2>2 DEF Motion
    <3> QED BY <2>1, <3>1, WatermarkQuiet
  <2>3. CASE journalOk'
    <3>1. state' = Admitted(state) /\ ~state'.current
      BY <1>0, <1>7, <2>3, TypeFacts, MotionOK DEF Motion
    <3>2. /\ state'.watermark = state.watermark /\ Onward(state')
      BY <1>0, <2>1, <3>1, TypeFacts, MotionOK DEF Onward, Ordering
    <3>3. /\ journal'.watermark \in Nat /\ journal'.watermark >= journal.watermark
          /\ \A n \in recorded' : n <= journal'.watermark
          /\ journal'.watermark <= state.watermark
          /\ journal'.ordered \in {NoType, SingleAxis}
          /\ journal'.ordered = NoType => journal'.watermark = NoStamp
      BY <1>0, <2>1, <2>3, SpentAhead, DiskAhead
    <3>4. journal'.watermark = state.watermark
      <4>1. journal' = Exported(state)
        BY <1>0, <2>1, <2>3 DEF Persist, disk
      <4> QED BY <4>1 DEF Exported
    <3>5. \A n \in Stamps : n \in Nat /\ moves[n] \in 0..2 /\ moves[n] <= 1
                            /\ (moves[n] > 0 => n <= journal'.watermark)
      <4>1. journal.watermark \in Nat
        BY WatermarkParts
      <4> QED BY <1>0, <3>3, <4>1, WatermarkParts, NumbersOK DEF Ahead, Unspent
    <3>6. /\ \A n \in Stamps : moves'[n] <= 1 /\ (moves'[n] > 0 => n <= journal'.watermark)
      <4>1. CASE kind # "automatic"
        <5>1. moves' = moves
          BY <1>7, <2>3, <4>1 DEF Motion
        <5> QED BY <3>5, <5>1
      <4>2. CASE kind = "automatic"
        <5>1. moves' = [moves EXCEPT ![state.obs.stamp] = OneMore(@)]
          BY <1>7, <2>3, <4>2 DEF Motion
        <5>2. state.current
          BY <1>7, <4>2 DEF Motion, Gate, Usable
        <5>3. moves[state.obs.stamp] = 0 /\ state.obs.stamp <= journal'.watermark
          BY <1>0, <2>1, <3>4, <5>2 DEF Unspent, Ahead
        <5>4. OneMore(0) = 1
          BY DEF OneMore
        <5>5. moves \in [Stamps -> 0..2]
          BY <1>0 DEF TypeOK
        <5> QED BY <3>5, <5>1, <5>3, <5>4, <5>5
      <4> QED BY <4>1, <4>2
    <3>7. \A n \in spent' : n <= state'.watermark
      BY <1>0, <2>1, <3>2 DEF Ahead
    <3>8. OneType'
      BY <3>2, <3>3 DEF OneType, Onward, Ordering
    <3> QED BY <3>1, <3>2, <3>3, <3>6, <3>7, <3>8 DEF Ahead, Unspent
  <2> QED BY <2>2, <2>3
<1>8. ASSUME NEW readable \in BOOLEAN, NEW now, Start(readable, now)
      PROVE OneType' /\ Ahead' /\ Unspent'
  <2>1. /\ journalOk' = readable /\ journal' = journal /\ recorded' = recorded /\ moves' = moves
        /\ state' = (IF readable THEN RestoredState(journal) ELSE NewState)
        /\ spent' = (IF readable THEN recorded ELSE {})
    BY <1>8 DEF Start
  <2>2. /\ state'.type = NoType /\ ~state'.current
        /\ readable => state'.watermark = journal.watermark /\ state'.ordered = journal.ordered
        /\ ~readable => state'.watermark = NoStamp /\ state'.ordered = NoType
    BY <2>1 DEF RestoredState, NewState
  <2>3. journal.watermark \in Nat
    BY WatermarkParts
  <2> QED BY <1>0, <2>1, <2>2, <2>3 DEF OneType, Ahead, Unspent
<1>9. CASE UNCHANGED vars
  <2>1. UNCHANGED <<state, disk, spent, moves>>
    BY <1>9 DEF vars
  <2> QED BY <2>1, InvalidatedOnward, WatermarkQuiet
<1> QED BY <1>1, <1>2, <1>3, <1>4, <1>5, <1>6, <1>7, <1>8, <1>9 DEF Next

LEMMA WatermarkAlways == OneInventory => (Spec => []WatermarkInv)
<1> SUFFICES ASSUME OneInventory PROVE Spec => []WatermarkInv
  OBVIOUS
<1>1. WatermarkInv /\ [Next]_vars => WatermarkInv'
  BY WatermarkStep, BeliefStep DEF WatermarkInv
<1> QED BY <1>1, WatermarkInit, PTL DEF Spec

\* Where discoveries list one type, no two automatic motions rest on one report: not when
\* it is delivered again, the process dies, or the journal fails or cannot be read.
THEOREM OneMotion == OneInventory => (Spec => []OneMotionPerReport)
<1>1. WatermarkInv => OneMotionPerReport
  BY DEF WatermarkInv, Unspent, OneMotionPerReport
<1> QED BY <1>1, WatermarkAlways, PTL

\* Under the same condition a report becomes the observation once, as model.py promises.
THEOREM NoReportTwice == OneInventory => (Spec => NeverRepeated)
<1> SUFFICES ASSUME OneInventory PROVE Spec => NeverRepeated
  OBVIOUS
<1>1. WatermarkInv /\ [Next]_vars
        => [state'.current /\ (~state.current \/ state'.obs # state.obs)
             => state'.obs.stamp \notin spent]_vars
  <2> SUFFICES ASSUME WatermarkInv, Next, state'.current, ~state.current \/ state'.obs # state.obs
               PROVE  state'.obs.stamp \notin spent
    BY DEF vars
  <2>1. PICK r \in Reports : Report(r)
    <3>1. BeliefInv
      BY DEF WatermarkInv
    <3> QED BY <3>1, BelievesByReport
  <2>2. Accepts(state, r)
    BY <2>1, WatermarkParts, TypeFacts, AfterReportOK DEF Report
  <2>3. /\ state'.obs = [stamp |-> r.stamp, at |-> mono]
        /\ r.stamp > state.watermark /\ r.stamp \in Stamps
    BY <2>1, <2>2, WatermarkParts, TypeFacts, AfterReportOK DEF Report
  <2>4. state'.obs.stamp = r.stamp
    BY <2>3
  <2>5. r.stamp \in Nat
    BY <2>3, NumbersOK
  <2> QED BY <2>3, <2>4, <2>5, WatermarkParts DEF Ahead
<1> QED BY <1>1, WatermarkAlways, PTL DEF Spec, NeverRepeated
=============================================================================
