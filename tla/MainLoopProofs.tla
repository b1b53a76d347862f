---------------------------- MODULE MainLoopProofs ----------------------------
(***************************************************************************)
(* Safety of Service.run for any number of shades, any periods and any     *)
(* number of commands.                                                     *)
(***************************************************************************)
EXTENDS MainLoop, SequenceTheorems, TLAPS

(***************************************************************************)
(* A waiting STOP is overtaken once at most                                *)
(***************************************************************************)
\* Requests are counted only while a STOP waits, and none that goes before it is allowed
\* past its first look at the queue unless no STOP waits.
Overtaking ==
  /\ stops \in Nat /\ overtaken \in {0, 1}
  /\ overtaken > 0 => stops > 0
  /\ pc = "sending" /\ task # "stop" => overtaken = 0

LEMMA OvertakingStep == Overtaking /\ [Next]_vars => Overtaking'
<1> SUFFICES ASSUME Overtaking, [Next]_vars PROVE Overtaking'
  OBVIOUS
<1>1. ASSUME NEW heard \in BOOLEAN, NEW rotated \in BOOLEAN, Start(heard, rotated) PROVE Overtaking'
  BY <1>1 DEF Start, WithdrawAll, queue, Goto, Overtaking
<1>2. CASE SelectStop \/ NoStop \/ StartDiscovery \/ NoDiscovery \/ Publish \/ Wait \/ WaitPasses
  BY <1>2 DEF SelectStop, NoStop, StartDiscovery, NoDiscovery, Publish, Wait, WaitPasses, queue, Goto, Request,
       Overtaking
<1>3. CASE PopUrgent
  <2>1. PICK t \in {"stop", "move"} : Take(t) /\ Request(t, TRUE)
    BY <1>3 DEF PopUrgent
  <2>2. QED
    BY <2>1 DEF Take, Request, Overtaking
<1>4. CASE Schedule
  <2>1. pc' \in {"asking", "publishing"}
    BY <1>4 DEF Schedule, Request, Goto
  <2>2. (\E t \in {"stop", "move"} : Take(t)) \/ UNCHANGED <<queue, overtaken>>
    BY <1>4 DEF Schedule
  <2>3. QED
    BY <2>1, <2>2 DEF Take, queue, Overtaking
<1>5. CASE Ask
  BY <1>5 DEF Ask, Cancelled, queue, Goto, Overtaking
<1>6. CASE Send
  BY <1>6 DEF Send, queue, Goto, Overtaking
<1>7. ASSUME NEW elapsed \in 0..RequestTime, NEW dispatched \in BOOLEAN,
             Answered(elapsed) \/ Failed(elapsed, dispatched)
      PROVE Overtaking'
  <2>1. pc' \in {"scheduling", "publishing"}
    BY <1>7 DEF Answered, Failed, Finish, Return
  <2>2. WithdrawAll \/ WithdrawMoves \/ UNCHANGED <<queue, overtaken>>
    BY <1>7 DEF Answered, Failed
  <2>3. QED
    BY <2>1, <2>2 DEF WithdrawAll, WithdrawMoves, queue, Overtaking
<1>8. CASE Shutdown \/ Connect \/ Disconnect \/ UNCHANGED vars
  BY <1>8 DEF Shutdown, Connect, Disconnect, WithdrawAll, Goto, vars, queue, Overtaking
<1>9. CASE MoveArrives \/ StopArrives \/ Terminate
  BY <1>9 DEF MoveArrives, StopArrives, Terminate, queue, Overtaking
<1>10. QED
  BY <1>1, <1>2, <1>3, <1>4, <1>5, <1>6, <1>7, <1>8, <1>9 DEF Next, LoopStep

\* From the moment a STOP is queued the bridge gets at most one request before it, whatever
\* the loop was about to do (the order of Service.run and the cancellation of its requests).
THEOREM StopIsNext == Spec => []StopGoesNext
<1>1. Init => Overtaking
  BY DEF Init, Overtaking
<1>2. Overtaking => StopGoesNext
  BY DEF Overtaking, StopGoesNext
<1>3. QED
  BY <1>1, <1>2, OvertakingStep, PTL DEF Spec

(***************************************************************************)
(* Types                                                                   *)
(***************************************************************************)
\* What is still to be polled is an end of the order.
Remaining == {SubSeq(Order, k + 1, Len(Order)) : k \in 0..Len(Order)}

LEMMA RemainingFacts ==
  /\ <<>> \in Remaining /\ Order \in Remaining
  /\ \A ids \in Remaining : ids # <<>> => Tail(ids) \in Remaining /\ Head(ids) \in Shades
<1>1. Len(Order) \in Nat /\ Order \in Seq(Shades)
  BY MainLoopAssumption, LenProperties
<1>2. <<>> \in Remaining
  BY <1>1, SubSeqEmpty DEF Remaining
<1>3. Order \in Remaining
  <2>1. Order = SubSeq(Order, 1, Len(Order)) /\ 0 \in 0..Len(Order) /\ 0 + 1 = 1
    BY <1>1, SubSeqFull
  <2>2. QED
    BY <2>1 DEF Remaining
<1>4. ASSUME NEW k \in 0..Len(Order), SubSeq(Order, k + 1, Len(Order)) # <<>>
      PROVE  /\ Tail(SubSeq(Order, k + 1, Len(Order))) \in Remaining
             /\ Head(SubSeq(Order, k + 1, Len(Order))) \in Shades
  <2>1. k + 1 \in 1..Len(Order)
    BY <1>1, <1>4, SubSeqEmpty
  <2>2. /\ Head(SubSeq(Order, k + 1, Len(Order))) = Order[k + 1]
        /\ Tail(SubSeq(Order, k + 1, Len(Order))) = SubSeq(Order, (k + 1) + 1, Len(Order))
    BY <1>1, <2>1, HeadTailOfSubSeq
  <2>3. k + 1 \in 0..Len(Order)
    BY <2>1
  <2>4. Tail(SubSeq(Order, k + 1, Len(Order))) \in Remaining
    BY <2>2, <2>3 DEF Remaining
  <2>5. QED
    BY <2>1, <2>2, <2>4 DEF Shades
<1>5. QED
  BY <1>2, <1>3, <1>4 DEF Remaining

LoopType ==
  /\ pc \in {"start", "selecting", "popping", "connected", "scheduling", "publishing",
             "waiting", "asking", "sending", "awaiting", "stopped"}
  /\ task \in Tasks \cup {NoTask} /\ urgent \in BOOLEAN
  /\ task # NoTask <=> pc \in {"asking", "sending", "awaiting"}

TimerType ==
  /\ discovery_in \in 0..DiscoveryPeriod /\ poll_in \in 0..PollPeriod
  /\ due_in \in 0..Spacing /\ silent_in \in 0..Silence

FlagType ==
  /\ connected \in BOOLEAN /\ ready \in BOOLEAN /\ reset \in BOOLEAN
  /\ cut \in BOOLEAN /\ stop \in BOOLEAN

CountType ==
  /\ command_streak \in 0..StreakLimit /\ poll_ids \in Remaining
  /\ stops \in 0..MaxStops /\ moves \in 0..MaxMoves

\* What MainLoopAssumption says of each constant.
LEMMA Constants ==
  /\ StreakLimit \in Nat /\ DiscoveryPeriod \in Nat /\ PollPeriod \in Nat /\ Spacing \in Nat
  /\ Silence \in Nat /\ RequestTime \in Nat /\ MaxStops \in Nat /\ MaxMoves \in Nat
  /\ RetryPeriod \in 0..DiscoveryPeriod
  /\ NoTask # "stop" /\ NoTask # "move" /\ NoTask # "discovery" /\ NoTask \notin Shades
  BY MainLoopAssumption DEF Tasks

Types == LoopType /\ TimerType /\ FlagType /\ CountType

LEMMA TypesInit == Init => Types
<1> SUFFICES ASSUME Init PROVE Types
  OBVIOUS
<1>1. LoopType
  BY DEF Init, LoopType
<1>2. TimerType
  BY Constants DEF Init, TimerType
<1>3. FlagType
  BY DEF Init, FlagType
<1>4. CountType
  BY Constants, RemainingFacts DEF Init, CountType
<1>5. QED
  BY <1>1, <1>2, <1>3, <1>4 DEF Types

LEMMA LessKeeps ==
  ASSUME NEW limit \in Nat, NEW t \in 0..limit, NEW elapsed \in Nat
  PROVE  Less(t, elapsed) \in 0..limit
  BY DEF Less

LEMMA TypesStep == Types /\ [Next]_vars => Types'
<1> SUFFICES ASSUME Types, [Next]_vars PROVE Types'
  OBVIOUS
<1> USE Constants
<1>1. ASSUME NEW heard \in BOOLEAN, NEW rotated \in BOOLEAN, Start(heard, rotated) PROVE Types'
  <2>1. LoopType'
    BY <1>1 DEF Start, Goto, Types, LoopType
  <2>2. TimerType'
    BY <1>1 DEF Start, Types, TimerType
  <2>3. poll_ids' \in Remaining
    BY <1>1, RemainingFacts DEF Start, Types, CountType
  <2>4. FlagType'
    BY <1>1 DEF Start, Types, FlagType
  <2>5. WithdrawAll \/ UNCHANGED queue
    BY <1>1 DEF Start
  <2>6. CountType'
    BY <1>1, <2>3, <2>5 DEF Start, WithdrawAll, queue, Types, CountType
  <2>7. QED
    BY <2>1, <2>2, <2>4, <2>6 DEF Types
<1>2. CASE SelectStop \/ NoStop \/ StartDiscovery \/ NoDiscovery \/ Publish \/ Wait \/ Ask \/ Send
  <2>1. LoopType'
    BY <1>2 DEF SelectStop, NoStop, StartDiscovery, NoDiscovery, Publish, Wait, Ask, Send, Goto, Request,
         Types, LoopType, Tasks
  <2>2. TimerType'
    BY <1>2 DEF SelectStop, NoStop, StartDiscovery, NoDiscovery, Publish, Wait, Ask, Send, schedule, timers,
         Types, TimerType
  <2>3. CountType'
    BY <1>2 DEF SelectStop, NoStop, StartDiscovery, NoDiscovery, Publish, Wait, Ask, Send, schedule, queue,
         Types, CountType
  <2>4. FlagType'
    BY <1>2 DEF SelectStop, NoStop, StartDiscovery, NoDiscovery, Publish, Wait, Ask, Send, Request, link,
         Types, FlagType
  <2>5. QED
    BY <2>1, <2>2, <2>3, <2>4 DEF Types
<1>3. CASE WaitPasses
  <2>1. LoopType' /\ FlagType' /\ CountType'
    BY <1>3 DEF WaitPasses, Goto, link, queue, Types, LoopType, FlagType, CountType
  <2>2. TimerType'
    BY <1>3, LessKeeps DEF WaitPasses, Passed, Types, TimerType
  <2>3. QED
    BY <2>1, <2>2 DEF Types
<1>4. CASE PopUrgent
  <2>1. PICK t \in {"stop", "move"} : Take(t) /\ Request(t, TRUE)
    BY <1>4 DEF PopUrgent
  <2>2. LoopType'
    BY <2>1 DEF Request, LoopType, Tasks
  <2>3. TimerType'
    BY <1>4 DEF PopUrgent, schedule, timers, Types, TimerType
  <2>4. stops' \in 0..MaxStops /\ moves' \in 0..MaxMoves
    BY <2>1 DEF Take, Types, CountType
  <2>5. FlagType' /\ CountType'
    BY <1>4, <2>1, <2>4 DEF PopUrgent, Request, schedule, Types, FlagType, CountType
  <2>6. QED
    BY <2>2, <2>3, <2>5 DEF Types
<1>5. CASE Schedule
  <2> DEFINE renewed == poll_ids = <<>> /\ poll_in = 0
             ids == IF renewed THEN Order ELSE poll_ids
  <2>1. ids \in Remaining
    BY RemainingFacts DEF Types, CountType
  <2>2. poll_in' \in 0..PollPeriod /\ TimerType'
    BY <1>5 DEF Schedule, Types, TimerType
  <2>3. UNCHANGED <<discovery_in, due_in, silent_in, command_streak, connected, ready, reset, stop>>
    BY <1>5 DEF Schedule
  <2>4. \/ /\ \E t \in {"stop", "move"} : Take(t) /\ Request(t, FALSE)
           /\ poll_ids' = ids
        \/ /\ ids # <<>> /\ poll_ids' = Tail(ids) /\ Request(Head(ids), FALSE)
           /\ UNCHANGED queue
        \/ pc = "scheduling" /\ poll_ids' = ids /\ Goto("publishing") /\ UNCHANGED <<cut, queue>>
    BY <1>5 DEF Schedule
  <2> HIDE DEF ids
  <2>5. CASE \E t \in {"stop", "move"} : Take(t) /\ Request(t, FALSE) /\ poll_ids' = ids
    <3>1. PICK t \in {"stop", "move"} : Take(t) /\ Request(t, FALSE) /\ poll_ids' = ids
      BY <2>5
    <3>2. LoopType'
      BY <3>1 DEF Request, LoopType, Tasks
    <3>3. stops' \in 0..MaxStops /\ moves' \in 0..MaxMoves
      BY <3>1 DEF Take, Types, CountType
    <3>4. FlagType' /\ CountType'
      BY <2>1, <2>3, <3>1, <3>3 DEF Request, Types, FlagType, CountType
    <3>5. QED
      BY <2>2, <3>2, <3>4 DEF Types
  <2>6. CASE ids # <<>> /\ poll_ids' = Tail(ids) /\ Request(Head(ids), FALSE) /\ UNCHANGED queue
    <3>1. Tail(ids) \in Remaining /\ Head(ids) \in Shades
      BY <2>1, <2>6, RemainingFacts
    <3>2. LoopType'
      BY <2>6, <3>1 DEF Request, LoopType, Tasks
    <3>3. FlagType' /\ CountType'
      BY <2>3, <2>6, <3>1 DEF Request, queue, Types, FlagType, CountType
    <3>4. QED
      BY <2>2, <3>2, <3>3 DEF Types
  <2>7. CASE pc = "scheduling" /\ poll_ids' = ids /\ Goto("publishing") /\ UNCHANGED <<cut, queue>>
    <3>1. LoopType'
      BY <2>7 DEF Goto, Types, LoopType
    <3>2. FlagType' /\ CountType'
      BY <2>1, <2>3, <2>7 DEF queue, Types, FlagType, CountType
    <3>3. QED
      BY <2>2, <3>1, <3>2 DEF Types
  <2>8. QED
    BY <2>4, <2>5, <2>6, <2>7
<1>6. ASSUME NEW elapsed \in 0..RequestTime, NEW dispatched \in BOOLEAN,
             Answered(elapsed) \/ Failed(elapsed, dispatched)
      PROVE Types'
  <2>1. Finish(elapsed) /\ elapsed \in Nat
    BY <1>6 DEF Answered, Failed
  <2>2. LoopType'
    BY <2>1 DEF Finish, Return, LoopType
  <2>3. due_in' \in 0..Spacing /\ poll_in' \in 0..PollPeriod
    <3>1. Less(due_in, elapsed) \in 0..Spacing /\ Less(poll_in, elapsed) \in 0..PollPeriod
      BY <2>1, LessKeeps DEF Types, TimerType
    <3>2. QED
      BY <2>1, <3>1 DEF Finish
  <2>4. discovery_in' \in 0..DiscoveryPeriod /\ silent_in' \in 0..Silence
    <3>1. Less(discovery_in, elapsed) \in 0..DiscoveryPeriod /\ Less(silent_in, elapsed) \in 0..Silence
      BY <2>1, LessKeeps DEF Types, TimerType
    <3>2. QED
      BY <1>6, <3>1 DEF Answered, Failed
  <2>5. command_streak' \in 0..StreakLimit
    BY <2>1 DEF Finish, Streak, Types, CountType
  <2>6. FlagType'
    <3>1. ready' \in {TRUE, FALSE, ready}
      BY <1>6 DEF Answered, Failed
    <3>2. QED
      BY <2>1, <3>1 DEF Finish, Types, FlagType
  <2>7. CountType'
    <3>1. WithdrawAll \/ WithdrawMoves \/ UNCHANGED queue
      BY <1>6 DEF Answered, Failed
    <3>2. stops' \in 0..MaxStops /\ moves' \in 0..MaxMoves
      BY <3>1 DEF WithdrawAll, WithdrawMoves, queue, Types, CountType
    <3>3. QED
      BY <2>1, <2>5, <3>2 DEF Finish, Types, CountType
  <2>8. QED
    BY <2>2, <2>3, <2>4, <2>6, <2>7 DEF Types, TimerType
<1>7. CASE Shutdown \/ Connect \/ Disconnect \/ MoveArrives \/ StopArrives \/ Terminate \/ UNCHANGED vars
  <2>1. LoopType'
    BY <1>7 DEF Shutdown, Connect, Disconnect, MoveArrives, StopArrives, Terminate, vars, Goto, Types, LoopType
  <2>2. TimerType'
    BY <1>7 DEF Shutdown, Connect, Disconnect, MoveArrives, StopArrives, Terminate, vars, schedule, timers,
         Types, TimerType
  <2>3. FlagType'
    BY <1>7 DEF Shutdown, Connect, Disconnect, MoveArrives, StopArrives, Terminate, vars, link, Types, FlagType
  <2>4. CountType'
    <3>1. UNCHANGED <<poll_ids, command_streak>>
      BY <1>7 DEF Shutdown, Connect, Disconnect, MoveArrives, StopArrives, Terminate, vars, schedule
    <3>2. stops' \in 0..MaxStops /\ moves' \in 0..MaxMoves
      BY <1>7 DEF Shutdown, Connect, Disconnect, MoveArrives, StopArrives, Terminate, WithdrawAll, vars, queue,
           Types, CountType
    <3>3. QED
      BY <3>1, <3>2 DEF Types, CountType
  <2>5. QED
    BY <2>1, <2>2, <2>3, <2>4 DEF Types
<1>8. QED
  BY <1>1, <1>2, <1>3, <1>4, <1>5, <1>6, <1>7 DEF Next, LoopStep

\* Every variable keeps its type; above all, popping what another thread may have withdrawn
\* since has_stop() never takes a command that is not there.
THEOREM LoopTypeCorrect == Spec => []TypeOK
<1>1. Types => TypeOK
  BY DEF Types, LoopType, TimerType, FlagType, CountType, TypeOK, Remaining
<1>2. QED
  BY <1>1, TypesInit, TypesStep, PTL DEF Spec
=============================================================================
