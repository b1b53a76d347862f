---------------------------- MODULE RequestsProofs ----------------------------
(***************************************************************************)
(* The requests of several processes, with identities and journal, for any *)
(* processes, devices, calendar and clock.                                 *)
(*                                                                         *)
(* What the requests do to the identities' file is what MessageIds does,   *)
(* so its invariant holds here.  Then every request that has an identity   *)
(* has its own, and a movement is in the ledger, in what the journal       *)
(* writes and in all it may be found to hold before it leaves.             *)
(***************************************************************************)
EXTENDS Requests, MessageIdsProofs

Phases == {"none", "drawing", "ready", "recording", "recorded", "awaiting"}
Active == {"ready", "recording", "recorded", "awaiting"}
Asked  == [kind : {"none", Discovery} \cup Kinds, target : Targets \cup {NoTarget},
           moves : BOOLEAN, id : Stamps \cup {Empty}, number : Nat]

\* The requests that were given an identity and may still matter.
Given == sent \cup {request[p] : p \in {q \in Procs : phase[q] \in Active}}

RequestsType ==
  /\ phase \in [Procs -> Phases] /\ request \in [Procs -> Asked]
  /\ asked \in Nat /\ sent \subseteq Asked

\* There were no more requests than the latest identity counts.
Counted == asked = 0 \/ \E n \in issued : n >= asked

\* An identity belongs to one request only.
Paired ==
  /\ \A r \in Given : r.id \in issued /\ r.number \in 1..asked
  /\ \A r, s \in Given : r.id = s.id => r.number = s.number

IdentityInv == RequestsType /\ Counted /\ Paired

LEMMA RequestsInitIds == RequestsInit => Init
  BY DEF RequestsInit

LEMMA RequestsStepIds == [RequestsNext]_requestVars => [Next]_vars
<1> SUFFICES ASSUME [RequestsNext]_requestVars PROVE Next \/ UNCHANGED vars
  OBVIOUS
<1>1. ASSUME NEW p \in Procs, NEW q \in Questions, Ask(p, q) PROVE Open(p)
  BY <1>1 DEF Ask
<1>2. ASSUME NEW p \in Procs, Draw(p)
      PROVE Write(p) \/ Sync(p) \/ SyncDirectory(p) \/ \E now \in Readings : Advance(p, now)
  BY <1>2 DEF Draw
<1>3. ASSUME NEW p \in Procs, Drawn(p) \/ NotDrawn(p) \/ ProcessDies(p)
      PROVE Return(p) \/ Fail(p) \/ Crash(p)
  BY <1>3 DEF Drawn, NotDrawn, ProcessDies
<1>4. ASSUME NEW p \in Procs,
             RecordDispatch(p) \/ Send(p) \/ NotSent(p) \/ Receive(p) \/ Abandon(p)
      PROVE UNCHANGED vars
  BY <1>4 DEF RecordDispatch, Send, NotSent, Receive, Abandon, idVars, vars
<1>5. CASE Persist \/ JournalStep \/ JournalWritten \/ JournalFails \/ UNCHANGED requestVars
  BY <1>5 DEF Persist, JournalStep, JournalWritten, JournalFails, requestVars, idVars, vars
<1>6. CASE PowerGoes
  BY <1>6 DEF PowerGoes, Next
<1>7. QED
  BY <1>1, <1>2, <1>3, <1>4, <1>5, <1>6 DEF RequestsNext, Next

LEMMA RequestsIds == RequestsSpec => Spec
  BY RequestsInitIds, RequestsStepIds, PTL DEF RequestsSpec, Spec

\* Identities increase also as the requests of all processes draw and use them.
THEOREM RequestIdsIncrease == RequestsSpec => IdsIncrease
  BY RequestsIds, IdsStrictlyIncrease, PTL

(***************************************************************************)
(* One request, one identity                                               *)
(***************************************************************************)
LEMMA IdentityInit == RequestsInit => IdentityInv
  BY DEF RequestsInit, Init, IdentityInv, RequestsType, Phases, Asked, Counted, Paired, Given, Active,
         NoRequest, Empty

\* A step that gives out no identity and asks of none that was not given.
LEMMA NoneGivenKeeps ==
  ASSUME IdentityInv, RequestsType', Given' \subseteq Given, UNCHANGED <<asked, issued>>
  PROVE  IdentityInv'
<1>1. Counted'
  BY DEF IdentityInv, Counted
<1>2. Paired'
  BY DEF IdentityInv, Paired
<1>3. QED
  BY <1>1, <1>2 DEF IdentityInv

LEMMA QuestionIsAsked == Questions \subseteq Asked /\ NoRequest \in Asked
<1>1. NoRequest \in Asked
  BY DEF NoRequest, Asked
<1>2. ASSUME NEW q \in [kind : Kinds, target : Targets, moves : BOOLEAN, id : {Empty}, number : {0}]
      PROVE q \in Asked
  <2>1. /\ q = [kind |-> q.kind, target |-> q.target, moves |-> q.moves,
                id |-> q.id, number |-> q.number]
        /\ q.kind \in Kinds /\ q.target \in Targets /\ q.moves \in BOOLEAN
        /\ q.id = Empty /\ q.number = 0
    OBVIOUS
  <2>2. QED
    BY <2>1 DEF Asked
<1>3. ASSUME NEW q \in [kind : {Discovery}, target : {NoTarget}, moves : {FALSE},
                        id : {Empty}, number : {0}]
      PROVE q \in Asked
  <2>1. /\ q = [kind |-> q.kind, target |-> q.target, moves |-> q.moves,
                id |-> q.id, number |-> q.number]
        /\ q.kind = Discovery /\ q.target = NoTarget
        /\ q.id = Empty /\ q.number = 0
    OBVIOUS
  <2>2. q.moves \in BOOLEAN
    <3>1. q.moves \in {FALSE}
      OBVIOUS
    <3>2. QED
      BY <3>1, Zenon
  <2>3. QED
    BY <2>1, <2>2 DEF Asked
<1>4. QED
  BY <1>1, <1>2, <1>3 DEF Questions

LEMMA AskKeeps ==
  ASSUME IdentityInv, NEW p \in Procs, NEW q \in Questions, Ask(p, q)
  PROVE  IdentityInv'
<1>1. RequestsType'
  BY QuestionIsAsked DEF IdentityInv, RequestsType, Ask, Goto, Phases
<1>2. Given' \subseteq Given
  BY DEF IdentityInv, RequestsType, Given, Ask, Goto, Active
<1>3. UNCHANGED <<asked, issued>>
  BY DEF Ask, Open
<1>4. QED
  BY <1>1, <1>2, <1>3, NoneGivenKeeps

LEMMA DrawnKeeps ==
  ASSUME IdsInv, IdentityInv, NEW p \in Procs, Drawn(p)
  PROVE  IdentityInv'
<1> DEFINE new == [request[p] EXCEPT !.id = value[p], !.number = asked + 1]
<1>1. issued' = issued \cup {value[p]} /\ asked' = asked + 1 /\ sent' = sent
  BY DEF Drawn, Return
<1>2. value[p] \in Stamps /\ issued \subseteq Stamps /\ \A n \in issued : value[p] > n
  BY DEF Drawn, Return, MayReturn, IdsInv, TypeOK, Fresh, DrawnSteps
<1>3. request' = [request EXCEPT ![p] = new] /\ phase' = [phase EXCEPT ![p] = "ready"]
  BY DEF Drawn, Goto
<1>4. new \in Asked /\ new.id = value[p] /\ new.number = asked + 1
  <2>1. request[p] \in Asked /\ asked + 1 \in Nat
    BY DEF IdentityInv, RequestsType
  <2>2. QED
    BY <1>2, <2>1 DEF Asked
<1> HIDE DEF new
<1>5. RequestsType'
  BY <1>1, <1>3, <1>4 DEF IdentityInv, RequestsType, Phases
<1>6. Given' \subseteq Given \cup {new}
  BY <1>1, <1>3 DEF IdentityInv, RequestsType, Given, Active
<1>7. value[p] \notin issued /\ value[p] >= asked + 1
  <2>1. value[p] \in Nat /\ issued \subseteq Nat /\ value[p] >= 1
    BY <1>2, MessageIdsAssumption DEF Stamps
  <2>2. QED
    BY <1>2, <2>1 DEF IdentityInv, Counted, RequestsType
<1>8. Counted'
  BY <1>1, <1>7 DEF Counted
<1>9. Paired'
  <2>1. \A r \in Given : r.id \in issued /\ r.number \in 1..asked /\ r.id # value[p]
    BY <1>7 DEF IdentityInv, Paired
  <2>2. \A r \in Given' : r.id \in issued' /\ r.number \in 1..asked'
    BY <1>1, <1>4, <1>6, <2>1 DEF IdentityInv, RequestsType
  <2>3. \A r, s \in Given' : r.id = s.id => r.number = s.number
    BY <1>4, <1>6, <2>1 DEF IdentityInv, Paired
  <2>4. QED
    BY <2>2, <2>3 DEF Paired
<1>10. QED
  BY <1>5, <1>8, <1>9 DEF IdentityInv

LEMMA SendKeeps ==
  ASSUME IdentityInv, NEW p \in Procs, Send(p)
  PROVE  IdentityInv'
<1>1. sent' = sent \cup {request[p]} /\ UNCHANGED <<request, asked, issued>>
  BY DEF Send, idVars
<1>2. phase[p] \in Active /\ phase' = [phase EXCEPT ![p] = "awaiting"]
  BY DEF Send, Cleared, Goto, Active
<1>3. RequestsType'
  BY <1>1, <1>2 DEF IdentityInv, RequestsType, Phases
<1>4. Given' \subseteq Given
  BY <1>1, <1>2 DEF IdentityInv, RequestsType, Given, Active
<1>5. QED
  BY <1>1, <1>3, <1>4, NoneGivenKeeps

LEMMA RecordKeeps ==
  ASSUME IdentityInv, NEW p \in Procs, RecordDispatch(p)
  PROVE  IdentityInv'
<1>1. UNCHANGED <<request, asked, sent, issued>>
  BY DEF RecordDispatch, idVars
<1>2. phase[p] \in Active /\ phase' = [phase EXCEPT ![p] = "recording"]
  BY DEF RecordDispatch, Goto, Active
<1>3. RequestsType' /\ Given' \subseteq Given
  BY <1>1, <1>2 DEF IdentityInv, RequestsType, Phases, Given, Active
<1>4. QED
  BY <1>1, <1>3, NoneGivenKeeps

\* A request that ends, one way or another.
LEMMA EndKeeps ==
  ASSUME IdentityInv, NEW p \in Procs, End(p), UNCHANGED <<asked, sent, issued>>
  PROVE  IdentityInv'
<1>1. RequestsType'
  BY QuestionIsAsked DEF IdentityInv, RequestsType, End, Goto, Phases
<1>2. Given' \subseteq Given
  BY DEF IdentityInv, RequestsType, Given, End, Goto, Active
<1>3. QED
  BY <1>1, <1>2, NoneGivenKeeps

LEMMA JournalKeeps ==
  ASSUME IdentityInv, Persist \/ JournalStep \/ JournalWritten \/ UNCHANGED requestVars
  PROVE  IdentityInv'
<1>1. UNCHANGED <<request, asked, sent, issued>>
  BY DEF Persist, JournalStep, JournalWritten, requestVars, idVars
<1>2. \/ UNCHANGED phase
      \/ phase[Service] = "recording" /\ phase' = [phase EXCEPT ![Service] = "recorded"]
  BY DEF Persist, JournalStep, JournalWritten, Goto, requestVars
<1>3. RequestsType' /\ Given' \subseteq Given
  BY <1>1, <1>2, RequestsAssumption DEF IdentityInv, RequestsType, Phases, Given, Active
<1>4. QED
  BY <1>1, <1>3, NoneGivenKeeps

LEMMA PowerGoesKeeps ==
  ASSUME IdentityInv, PowerGoes
  PROVE  IdentityInv'
<1>1. UNCHANGED <<asked, sent, issued>>
  BY DEF PowerGoes, PowerLoss
<1>2. RequestsType' /\ Given' \subseteq Given
  BY <1>1, QuestionIsAsked DEF IdentityInv, RequestsType, PowerGoes, Phases, Given, Active
<1>3. QED
  BY <1>1, <1>2, NoneGivenKeeps

LEMMA IdentityStep == IdsInv /\ IdentityInv /\ [RequestsNext]_requestVars => IdentityInv'
<1> SUFFICES ASSUME IdsInv, IdentityInv, [RequestsNext]_requestVars PROVE IdentityInv'
  OBVIOUS
<1>1. ASSUME NEW p \in Procs, NEW q \in Questions, Ask(p, q) PROVE IdentityInv'
  BY <1>1, AskKeeps
<1>2. ASSUME NEW p \in Procs, Draw(p) PROVE IdentityInv'
  <2>1. UNCHANGED <<phase, request, asked, sent, issued>>
    BY <1>2 DEF Draw, Write, Sync, SyncDirectory, Advance
  <2>2. QED
    BY <2>1, NoneGivenKeeps DEF IdentityInv, RequestsType, Given
<1>3. ASSUME NEW p \in Procs, Drawn(p) PROVE IdentityInv'
  BY <1>3, DrawnKeeps
<1>4. ASSUME NEW p \in Procs, Send(p) PROVE IdentityInv'
  BY <1>4, SendKeeps
<1>5. ASSUME NEW p \in Procs, RecordDispatch(p) PROVE IdentityInv'
  BY <1>5, RecordKeeps
<1>6. ASSUME NEW p \in Procs, NotDrawn(p) \/ NotSent(p) \/ Receive(p) \/ Abandon(p) \/ ProcessDies(p)
      PROVE IdentityInv'
  <2>1. End(p) /\ UNCHANGED <<asked, sent, issued>>
    BY <1>6 DEF NotDrawn, NotSent, Receive, Abandon, ProcessDies, Fail, Crash, idVars
  <2>2. QED
    BY <2>1, EndKeeps
<1>7. CASE Persist \/ JournalStep \/ JournalWritten \/ UNCHANGED requestVars
  BY <1>7, JournalKeeps
<1>8. CASE JournalFails
  <2>1. End(Service) \/ UNCHANGED <<phase, request>>
    BY <1>8 DEF JournalFails
  <2>2. UNCHANGED <<asked, sent, issued>>
    BY <1>8 DEF JournalFails, idVars
  <2>3. CASE UNCHANGED <<phase, request>>
    BY <2>2, <2>3, NoneGivenKeeps DEF IdentityInv, RequestsType, Given
  <2>4. QED
    BY <2>1, <2>2, <2>3, EndKeeps, RequestsAssumption
<1>9. CASE PowerGoes
  BY <1>9, PowerGoesKeeps
<1>10. QED
  BY <1>1, <1>2, <1>3, <1>4, <1>5, <1>6, <1>7, <1>8, <1>9 DEF RequestsNext

\* A request takes nothing for its answer but the answer to itself, whatever the network
\* delivers and whichever process asked before (the matching of UDPTransport.request).
THEOREM AnswersAreOwn == RequestsSpec => []AnswersItself
<1>1. RequestsSpec => []IdsInv
  BY RequestsIds, IdsInvariant, PTL
<1>2. RequestsSpec => []IdentityInv
  BY <1>1, IdentityInit, IdentityStep, PTL DEF RequestsSpec
<1>3. ASSUME IdsInv, IdentityInv PROVE AnswersItself
  <2> SUFFICES ASSUME NEW p \in Procs, phase[p] = "awaiting", NEW a \in Answers, Matches(request[p], a)
               PROVE a.number = request[p].number \/ (PinnedWithoutId /\ a.kind = Discovery /\ a.id = NoId)
    BY DEF AnswersItself
  <2>1. request[p] \in Given
    BY DEF Given, Active
  <2>2. request[p].id \in issued /\ issued \subseteq Nat
    BY <1>3, <2>1, MessageIdsAssumption DEF IdentityInv, Paired, IdsInv, TypeOK, Stamps
  <2>3. CASE a \in sent
    <3>1. a \in Given /\ a.id \in Nat
      BY <1>3, <2>2, <2>3 DEF Given, IdentityInv, Paired
    <3>2. a.id = request[p].id
      BY <3>1, RequestsAssumption DEF Matches
    <3>3. QED
      BY <1>3, <2>1, <3>1, <3>2 DEF IdentityInv, Paired
  <2>4. CASE \E r \in sent : a = [r EXCEPT !.id = NoId]
    <3>1. a.id = NoId
      BY <1>3, <2>4 DEF IdentityInv, RequestsType, Asked
    <3>2. QED
      BY <2>2, <3>1, RequestsAssumption DEF Matches
  <2>5. QED
    BY <2>3, <2>4 DEF Answers
<1>4. QED
  BY <1>1, <1>2, <1>3, PTL

(***************************************************************************)
(* A movement is on record before it leaves                                *)
(***************************************************************************)
Has(m) == \A r \in sent : r.moves /\ r.number \notin forgotten => r.number \in m

\* The journal is whole, as in JournalProofs.
JournalOk ==
  /\ known \in Movements /\ snapshot \in Movements /\ acknowledged \in Movements
  /\ possible \subseteq Movements /\ path \in possible
  /\ stage \in {"idle", "created", "written", "synced", "replaced"} /\ synced \in BOOLEAN
  /\ stage \in {"synced", "replaced"} => synced
  /\ stage = "replaced" => path = snapshot

\* Only the service moves anything.
ServiceMoves == \A p \in Procs : request[p].moves => p = Service

\* What left and is not forgotten is in the ledger of a service that keeps the journal, in
\* the file, and in what is being written.
OnRecord ==
  /\ healthy => Has(known)
  /\ \A f \in possible : Has(f)
  /\ stage # "idle" => Has(snapshot)

\* What is about to leave is on its way to the same places, and then in them.
Committing ==
  /\ phase[Service] = "recording" =>
       stage # "idle" /\ request[Service].number \in known \cap snapshot
  /\ phase[Service] = "recorded" =>
       /\ stage = "idle" /\ request[Service].number \in known
       /\ \A f \in possible : request[Service].number \in f

RecordInv == JournalOk /\ ServiceMoves /\ OnRecord /\ Committing

LEMMA RecordInit == RequestsInit => RecordInv
<1> SUFFICES ASSUME RequestsInit PROVE RecordInv
  OBVIOUS
<1>1. {} \in Movements
  BY DEF Movements
<1>2. JournalOk
  BY <1>1 DEF RequestsInit, J!Init, JournalOk
<1>3. OnRecord
  BY DEF RequestsInit, OnRecord, Has
<1>4. ServiceMoves
  BY DEF RequestsInit, ServiceMoves, NoRequest
<1>5. Committing
  BY RequestsAssumption DEF RequestsInit, Committing
<1>6. QED
  BY <1>2, <1>3, <1>4, <1>5 DEF RecordInv

\* A request in hand has a number that a snapshot can hold.
LEMMA NumberIsBounded ==
  ASSUME IdsInv, IdentityInv, NEW p \in Procs, phase[p] \in Active
  PROVE  request[p].number \in 0..MaxStamp
<1>1. request[p] \in Given
  BY DEF Given
<1>2. request[p].number \in 1..asked /\ asked \in Nat
  BY <1>1 DEF IdentityInv, Paired, RequestsType
<1>3. \E n \in issued : n >= asked
  BY <1>2 DEF IdentityInv, Counted
<1>4. \A n \in issued : n \in Nat /\ n <= MaxStamp
  BY MessageIdsAssumption DEF IdsInv, TypeOK, Stamps
<1>5. QED
  BY <1>2, <1>3, <1>4, MessageIdsAssumption

\* Steps that leave journal, ledger and wire alone and clear no movement.
LEMMA AsideKeeps ==
  ASSUME RecordInv, ServiceMoves', UNCHANGED <<journalVars, known, sent, forgotten>>,
         \/ phase'[Service] \notin {"recording", "recorded"}
         \/ phase'[Service] = phase[Service] /\ request'[Service] = request[Service]
  PROVE  RecordInv'
<1>1. JournalOk' /\ OnRecord'
  BY DEF RecordInv, JournalOk, OnRecord, Has, journalVars
<1>2. Committing'
  BY DEF RecordInv, Committing, journalVars
<1>3. QED
  BY <1>1, <1>2 DEF RecordInv

LEMMA EndMovesNothing ==
  ASSUME IdentityInv, RecordInv, NEW p \in Procs, End(p)
  PROVE  /\ ServiceMoves'
         /\ \/ phase'[Service] = "none"
            \/ phase'[Service] = phase[Service] /\ request'[Service] = request[Service]
  BY RequestsAssumption
  DEF IdentityInv, RequestsType, RecordInv, ServiceMoves, End, Goto, NoRequest

LEMMA ProcessKeepsRecord ==
  ASSUME IdentityInv, RecordInv, NEW p \in Procs,
         \/ \E q \in Questions : Ask(p, q)
         \/ Draw(p) \/ Drawn(p) \/ NotDrawn(p) \/ NotSent(p) \/ Receive(p) \/ Abandon(p)
  PROVE  RecordInv'
<1>1. UNCHANGED <<journalVars, known, sent, forgotten>>
  BY DEF Ask, Draw, Drawn, NotDrawn, NotSent, Receive, Abandon
<1>2. CASE \E q \in Questions : Ask(p, q)
  <2>1. PICK q \in Questions : Ask(p, q)
    BY <1>2
  <2>2. request' = [request EXCEPT ![p] = q] /\ phase' = [phase EXCEPT ![p] = "drawing"] /\ (q.moves => p = Service)
    BY <2>1 DEF Ask, Goto
  <2>3. ServiceMoves'
    BY <2>2 DEF IdentityInv, RequestsType, RecordInv, ServiceMoves
  <2>4. QED
    BY <1>1, <2>2, <2>3, AsideKeeps, RequestsAssumption DEF IdentityInv, RequestsType
<1>3. CASE Draw(p)
  BY <1>1, <1>3, AsideKeeps DEF Draw, RecordInv, ServiceMoves
<1>4. CASE Drawn(p)
  <2>1. /\ request' = [request EXCEPT ![p] = [@ EXCEPT !.id = value[p], !.number = asked + 1]]
        /\ phase' = [phase EXCEPT ![p] = "ready"]
    BY <1>4 DEF Drawn, Goto
  <2>2. request'[p].moves = request[p].moves
    BY <2>1 DEF IdentityInv, RequestsType, Asked
  <2>3. ServiceMoves'
    BY <2>1, <2>2 DEF IdentityInv, RequestsType, RecordInv, ServiceMoves
  <2>4. \/ phase'[Service] = "ready"
        \/ phase'[Service] = phase[Service] /\ request'[Service] = request[Service]
    BY <2>1, RequestsAssumption DEF IdentityInv, RequestsType
  <2>5. QED
    BY <1>1, <2>3, <2>4, AsideKeeps
<1>5. CASE NotDrawn(p) \/ NotSent(p) \/ Receive(p) \/ Abandon(p)
  <2>1. End(p)
    BY <1>5 DEF NotDrawn, NotSent, Receive, Abandon
  <2>2. QED
    BY <1>1, <2>1, EndMovesNothing, AsideKeeps
<1>6. QED
  BY <1>2, <1>3, <1>4, <1>5

LEMMA RecordDispatchKeepsRecord ==
  ASSUME IdsInv, IdentityInv, RecordInv, NEW p \in Procs, RecordDispatch(p)
  PROVE  RecordInv'
<1>1. p = Service /\ phase' = [phase EXCEPT ![Service] = "recording"]
  BY DEF RecordDispatch, RecordInv, ServiceMoves, Goto
<1>2. /\ known' = known \cup {request[Service].number} /\ snapshot' = known' /\ stage' = "created"
      /\ UNCHANGED <<path, possible, acknowledged, healthy, request, sent, forgotten>>
      /\ synced' = FALSE /\ healthy
  BY <1>1 DEF RecordDispatch, J!Create
<1>3. request[Service].number \in 0..MaxStamp
  BY <1>1, NumberIsBounded DEF RecordDispatch, Active
<1>4. JournalOk'
  BY <1>2, <1>3 DEF RecordInv, JournalOk, Movements
<1>5. OnRecord'
  BY <1>2 DEF RecordInv, OnRecord, Has
<1>6. Committing'
  BY <1>1, <1>2, RequestsAssumption DEF Committing, IdentityInv, RequestsType
<1>7. QED
  BY <1>2, <1>4, <1>5, <1>6 DEF RecordInv, ServiceMoves

LEMMA SendKeepsRecord ==
  ASSUME IdentityInv, RecordInv, NEW p \in Procs, Send(p)
  PROVE  RecordInv'
<1>1. sent' = sent \cup {request[p]} /\ phase' = [phase EXCEPT ![p] = "awaiting"]
      /\ UNCHANGED <<journalVars, known, forgotten, request>>
  BY DEF Send, Goto
<1>2. request[p].moves => p = Service /\ phase[Service] = "recorded"
  BY DEF Send, Cleared, RecordInv, ServiceMoves
<1>3. OnRecord'
  BY <1>1, <1>2 DEF RecordInv, OnRecord, Has, Committing, journalVars
<1>4. Committing'
  BY <1>1, RequestsAssumption DEF RecordInv, Committing, journalVars, IdentityInv, RequestsType
<1>5. QED
  BY <1>1, <1>3, <1>4 DEF RecordInv, JournalOk, ServiceMoves, journalVars

LEMMA PersistKeepsRecord ==
  ASSUME RecordInv, Persist
  PROVE  RecordInv'
<1>1. /\ phase[Service] \notin {"recording", "recorded"} /\ snapshot' = known' /\ stage' = "created"
      /\ UNCHANGED <<path, possible, acknowledged, phase, request, sent>> /\ synced' = FALSE
      /\ healthy /\ healthy' = healthy
  BY DEF Persist, J!Create
<1>2. PICK gone : known' = known \ gone /\ forgotten' = forgotten \cup gone
  BY DEF Persist
<1>3. JournalOk'
  BY <1>1, <1>2 DEF RecordInv, JournalOk, Movements
<1>4. OnRecord'
  BY <1>1, <1>2 DEF RecordInv, OnRecord, Has
<1>5. QED
  BY <1>1, <1>3, <1>4 DEF RecordInv, ServiceMoves, Committing

LEMMA JournalStepKeepsRecord ==
  ASSUME RecordInv, JournalStep
  PROVE  RecordInv'
<1>1. /\ UNCHANGED <<phase, request, sent, known, forgotten, snapshot, healthy, acknowledged>>
      /\ stage # "idle" /\ stage' # "idle"
  BY DEF JournalStep, J!WriteFile, J!SyncFile, J!Replace
<1>2. /\ possible' \subseteq possible \cup {snapshot} /\ path' \in possible'
      /\ JournalOk'
  BY DEF RecordInv, JournalOk, JournalStep, J!WriteFile, J!SyncFile, J!Replace
<1>3. OnRecord'
  BY <1>1, <1>2 DEF RecordInv, OnRecord, Has
<1>4. QED
  BY <1>1, <1>2, <1>3 DEF RecordInv, ServiceMoves, Committing

LEMMA JournalWrittenKeepsRecord ==
  ASSUME IdentityInv, RecordInv, JournalWritten
  PROVE  RecordInv'
<1>1. /\ stage = "replaced" /\ stage' = "idle" /\ possible' = {snapshot} /\ path = snapshot
      /\ acknowledged' = snapshot /\ UNCHANGED <<path, snapshot, synced, healthy, request, sent, known, forgotten>>
  BY DEF RecordInv, JournalOk, JournalWritten, J!SyncDirectory
<1>2. JournalOk'
  BY <1>1 DEF RecordInv, JournalOk
<1>3. OnRecord'
  BY <1>1 DEF RecordInv, OnRecord, Has
<1>4. \/ phase[Service] = "recording" /\ phase'[Service] = "recorded"
      \/ phase[Service] # "recording" /\ phase'[Service] = phase[Service]
  BY RequestsAssumption DEF JournalWritten, Goto, IdentityInv, RequestsType
<1>5. Committing'
  BY <1>1, <1>4 DEF RecordInv, Committing
<1>6. QED
  BY <1>1, <1>2, <1>3, <1>5 DEF RecordInv, ServiceMoves

LEMMA JournalFailsKeepsRecord ==
  ASSUME IdentityInv, RecordInv, JournalFails
  PROVE  RecordInv'
<1>1. /\ stage # "idle" /\ stage' = "idle"
      /\ UNCHANGED <<path, possible, snapshot, synced, acknowledged, sent, known, forgotten>>
      /\ ~healthy'
  BY DEF JournalFails, J!Fail
<1>2. JournalOk' /\ OnRecord'
  BY <1>1 DEF RecordInv, JournalOk, OnRecord, Has
<1>3. ServiceMoves' /\ phase'[Service] \notin {"recording", "recorded"}
  <2>1. CASE phase[Service] = "recording"
    <3>1. End(Service)
      BY <2>1 DEF JournalFails
    <3>2. QED
      BY <3>1, EndMovesNothing, RequestsAssumption DEF End, Goto, IdentityInv, RequestsType
  <2>2. CASE phase[Service] # "recording"
    BY <1>1, <2>2 DEF JournalFails, RecordInv, ServiceMoves, Committing
  <2>3. QED
    BY <2>1, <2>2
<1>4. QED
  BY <1>2, <1>3 DEF RecordInv, Committing

LEMMA ProcessDiesKeepsRecord ==
  ASSUME IdentityInv, RecordInv, NEW p \in Procs, ProcessDies(p)
  PROVE  RecordInv'
<1>1. End(p) /\ UNCHANGED <<sent, forgotten>>
  BY DEF ProcessDies
<1>2. CASE p # Service
  <2>1. UNCHANGED <<journalVars, known>>
    BY <1>2 DEF ProcessDies
  <2>2. QED
    BY <1>1, <2>1, EndMovesNothing, AsideKeeps
<1>3. CASE p = Service
  <2>1. path \in Movements
    BY DEF RecordInv, JournalOk
  <2>2. /\ stage' = "idle" /\ known' \in {path, {}} /\ (healthy' => known' = path)
        /\ UNCHANGED <<path, possible, snapshot, synced, acknowledged>>
    BY <1>3 DEF ProcessDies, Reload, J!Crash, J!Read
  <2>3. JournalOk' /\ OnRecord'
    BY <1>1, <2>1, <2>2 DEF RecordInv, JournalOk, OnRecord, Has, Movements
  <2>4. phase'[Service] = "none"
    BY <1>1, <1>3 DEF End, Goto, IdentityInv, RequestsType
  <2>5. QED
    BY <1>1, <2>3, <2>4, EndMovesNothing DEF RecordInv, Committing
<1>4. QED
  BY <1>2, <1>3

LEMMA PowerGoesKeepsRecord ==
  ASSUME RecordInv, PowerGoes
  PROVE  RecordInv'
<1>1. PICK f \in possible : path' = f /\ possible' = {f} /\ stage' = "idle"
  BY DEF PowerGoes, J!PowerLoss, J!Read
<1>2. UNCHANGED <<snapshot, synced, acknowledged, sent, forgotten>>
  BY DEF PowerGoes, J!PowerLoss
<1>3. f \in Movements /\ known' \in {f, {}} /\ (healthy' => known' = f)
  BY <1>1 DEF PowerGoes, Reload, RecordInv, JournalOk
<1>4. JournalOk' /\ OnRecord'
  BY <1>1, <1>2, <1>3 DEF RecordInv, JournalOk, OnRecord, Has, Movements
<1>5. ServiceMoves' /\ Committing'
  BY RequestsAssumption DEF PowerGoes, ServiceMoves, Committing, NoRequest
<1>6. QED
  BY <1>4, <1>5 DEF RecordInv

LEMMA RecordStep ==
  IdsInv /\ IdentityInv /\ RecordInv /\ [RequestsNext]_requestVars => RecordInv'
<1> SUFFICES ASSUME IdsInv, IdentityInv, RecordInv, [RequestsNext]_requestVars PROVE RecordInv'
  OBVIOUS
<1>1. ASSUME NEW p \in Procs,
             \/ \E q \in Questions : Ask(p, q)
             \/ Draw(p) \/ Drawn(p) \/ NotDrawn(p) \/ NotSent(p) \/ Receive(p) \/ Abandon(p)
      PROVE RecordInv'
  BY <1>1, ProcessKeepsRecord
<1>2. ASSUME NEW p \in Procs, RecordDispatch(p) PROVE RecordInv'
  BY <1>2, RecordDispatchKeepsRecord
<1>3. ASSUME NEW p \in Procs, Send(p) PROVE RecordInv'
  BY <1>3, SendKeepsRecord
<1>4. ASSUME NEW p \in Procs, ProcessDies(p) PROVE RecordInv'
  BY <1>4, ProcessDiesKeepsRecord
<1>5. CASE UNCHANGED requestVars
  BY <1>5, AsideKeeps DEF requestVars, RecordInv, ServiceMoves
<1>6. QED
  BY <1>1, <1>2, <1>3, <1>4, <1>5, PersistKeepsRecord, JournalStepKeepsRecord, JournalWrittenKeepsRecord,
     JournalFailsKeepsRecord, PowerGoesKeepsRecord DEF RequestsNext

LEMMA RequestsInvariant == RequestsSpec => [](IdsInv /\ IdentityInv /\ RecordInv)
<1>1. RequestsSpec => []IdsInv
  BY RequestsIds, IdsInvariant, PTL
<1>2. QED
  BY <1>1, IdentityInit, IdentityStep, RecordInit, RecordStep, PTL DEF RequestsSpec

\* A movement that left is in the journal, whatever crashes, failures, power losses and lives
\* without a journal make of it, until a full ledger forgets it (final_admission,
\* Journal.write and _evict_expired).
THEOREM SentStaysOnRecord == RequestsSpec => []SentIsOnRecord
<1>1. RecordInv => SentIsOnRecord
  BY RequestsAssumption DEF RecordInv, JournalOk, OnRecord, Has, SentIsOnRecord
<1>2. QED
  BY <1>1, RequestsInvariant, PTL

\* The journal, written by whatever the requests and callbacks have to record, is an atomic
\* snapshot (Journal.write, under _persist).
THEOREM RequestsJournalAtomic == RequestsSpec => JournalIsAtomic
<1>1. RequestsInit => Store!Init
  <2>1. {} \in Movements
    BY DEF Movements
  <2>2. QED
    BY <2>1 DEF RequestsInit, J!Init, Store!Init
<1>2. RecordInv /\ RecordInv' /\ [RequestsNext]_requestVars => [Store!Next]_(Store!vars)
  <2> SUFFICES ASSUME RecordInv, RecordInv', [RequestsNext]_requestVars
               PROVE  Store!Next \/ UNCHANGED <<possible, acknowledged>>
    BY DEF Store!vars
  <2>1. CASE JournalStep
    <3>1. UNCHANGED possible \/ possible' = possible \cup {snapshot}
      BY <2>1 DEF JournalStep, J!WriteFile, J!SyncFile, J!Replace, RecordInv, JournalOk
    <3>2. UNCHANGED acknowledged
      BY <2>1 DEF JournalStep, J!WriteFile, J!SyncFile, J!Replace
    <3>3. QED
      BY <3>1, <3>2 DEF RecordInv, JournalOk, Store!Next, Store!Replace
  <2>2. CASE JournalWritten
    BY <2>2 DEF JournalWritten, J!SyncDirectory, RecordInv, JournalOk, Store!Next, Store!Acknowledge
  <2>3. CASE PowerGoes
    BY <2>3 DEF PowerGoes, J!PowerLoss, Store!Next, Store!Recover
  <2>4. CASE Persist \/ JournalFails \/ UNCHANGED requestVars
    BY <2>4 DEF Persist, JournalFails, J!Create, J!Fail, requestVars, journalVars
  <2>5. ASSUME NEW p \in Procs, ProcessDies(p) PROVE UNCHANGED <<possible, acknowledged>>
    BY <2>5 DEF ProcessDies, J!Crash, journalVars
  <2>6. ASSUME NEW p \in Procs, RecordDispatch(p) PROVE UNCHANGED <<possible, acknowledged>>
    BY <2>6 DEF RecordDispatch, J!Create
  <2>7. ASSUME NEW p \in Procs,
               \/ \E q \in Questions : Ask(p, q)
               \/ Draw(p) \/ Drawn(p) \/ NotDrawn(p) \/ Send(p) \/ NotSent(p) \/ Receive(p) \/ Abandon(p)
        PROVE UNCHANGED <<possible, acknowledged>>
    BY <2>7 DEF Ask, Draw, Drawn, NotDrawn, Send, NotSent, Receive, Abandon, journalVars
  <2>8. QED
    BY <2>1, <2>2, <2>3, <2>4, <2>5, <2>6, <2>7 DEF RequestsNext
<1>3. QED
  BY <1>1, <1>2, RequestsInvariant, PTL DEF RequestsSpec, JournalIsAtomic, Store!Spec
=============================================================================
