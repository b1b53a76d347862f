------------------------------- MODULE MainLoop -------------------------------
(***************************************************************************)
(* Service.run of src/src/dooya_openhab/service.py: how one thread shares  *)
(* one bridge, which answers one request at a time, between STOPs, the     *)
(* discovery of the inventory, other commands and the polling of shades.   *)
(*                                                                         *)
(* Deadlines are counted down, in units of the least spacing of requests.  *)
(* Time passes in the waits: in each request and, now and then, at the end *)
(* of a round.  The network thread queues commands, loses and makes the    *)
(* connection at any point; commands are counted, not told apart (see      *)
(* CommandQueue and Dispatch for what becomes of each).                    *)
(***************************************************************************)
EXTENDS Naturals, Sequences

CONSTANTS
  Order,             \* the shades in the order they are polled
  NoTask,
  StreakLimit,       \* 4: commands in a row while polls wait
  DiscoveryPeriod,   \* 60 s
  RetryPeriod,       \* 15 s
  PollPeriod,        \* poll_seconds
  Spacing,           \* poll_spacing_seconds
  Silence,           \* 180 s
  RequestTime,       \* request_timeout_seconds
  MaxStops, MaxMoves

VARIABLES
  pc, task,          \* where the loop is, and the request it makes
  urgent,            \* that request was popped as a STOP, before anything else
  discovery_in, poll_in, due_in, silent_in,   \* time left to each deadline
  poll_ids,          \* shades still to be polled in this cycle
  command_streak,
  connected, ready, reset, stop,
  cut,               \* the connection has changed since the request began
  stops, moves,      \* commands waiting
  overtaken          \* history: requests sent while the same STOPs were waiting

timers   == <<discovery_in, poll_in, due_in, silent_in>>
schedule == <<timers, poll_ids, command_streak>>
link     == <<connected, ready, reset, cut>>
queue    == <<stops, moves>>
vars == <<pc, task, urgent, schedule, link, stop, queue, overtaken>>

Shades == {Order[k] : k \in 1..Len(Order)}
Tasks  == {"stop", "move", "discovery"} \cup Shades

ASSUME MainLoopAssumption ==
  /\ Order \in Seq(Shades) /\ NoTask \notin Tasks
  /\ {StreakLimit, DiscoveryPeriod, PollPeriod, Spacing, Silence, RequestTime, MaxStops, MaxMoves} \subseteq Nat
  /\ RetryPeriod \in 0..DiscoveryPeriod

Less(time, elapsed) == IF time <= elapsed THEN 0 ELSE time - elapsed
Passed(elapsed) ==
  /\ poll_in' = Less(poll_in, elapsed)
  /\ silent_in' = Less(silent_in, elapsed)

Goto(where) == pc' = where /\ UNCHANGED <<task, urgent>>
Request(t, isUrgent) == pc' = "asking" /\ task' = t /\ urgent' = isUrgent /\ cut' = FALSE
Return(where) == pc' = where /\ task' = NoTask /\ urgent' = FALSE

\* invalidate: everything, or with preserve_stops what is not a STOP.
WithdrawAll   == stops' = 0 /\ moves' = 0 /\ overtaken' = 0
WithdrawMoves == moves' = 0 /\ UNCHANGED <<stops, overtaken>>

(***************************************************************************)
(* A round of the loop                                                     *)
(***************************************************************************)
\* The reset, then the drain of reports: signs of life, and perhaps a rotated token,
\* which withdraws what waits.
Start(heard, rotated) ==
  /\ pc = "start" /\ ~stop /\ Goto("selecting")
  /\ reset' = FALSE
  /\ heard => ~reset /\ connected /\ ready
  /\ rotated => heard
  /\ IF reset THEN discovery_in' = 0 /\ poll_in' = 0 /\ poll_ids' = <<>> /\ silent_in' = 0
     ELSE /\ silent_in' = IF heard THEN Silence ELSE silent_in
          /\ UNCHANGED <<discovery_in, poll_in, poll_ids>>
  /\ IF rotated THEN WithdrawAll ELSE UNCHANGED <<queue, overtaken>>
  /\ UNCHANGED <<due_in, command_streak, connected, ready, cut, stop>>

\* The check is one call and the pop another.
SelectStop ==
  /\ pc = "selecting" /\ stops > 0 /\ Goto("popping")
  /\ UNCHANGED <<schedule, link, stop, queue, overtaken>>

\* Slip: the pop relies on the check before it.
TakeUnchecked(t) ==
  IF t = "stop" THEN stops' = stops - 1 /\ overtaken' = 0 /\ UNCHANGED moves
  ELSE stops = 0 /\ moves > 0 /\ moves' = moves - 1 /\ UNCHANGED <<stops, overtaken>>

Take(t) ==
  IF t = "stop" THEN /\ stops > 0 /\ stops' = stops - 1 /\ overtaken' = 0
                     /\ UNCHANGED moves
  ELSE /\ stops = 0 /\ moves > 0 /\ moves' = moves - 1
       /\ UNCHANGED <<stops, overtaken>>

PopUrgent ==
  /\ pc = "popping"
  /\ \E t \in {"stop", "move"} : Take(t) /\ Request(t, TRUE)
  /\ UNCHANGED <<schedule, connected, ready, reset, stop>>

\* The STOP was withdrawn between the two calls, or none waits.
NoStop ==
  /\ \/ pc = "popping" /\ stops = 0 /\ moves = 0
     \/ pc = "selecting" /\ stops = 0
  /\ Goto(IF connected THEN "connected" ELSE "publishing")
  /\ UNCHANGED <<schedule, link, stop, queue, overtaken>>

StartDiscovery ==
  /\ pc = "connected" /\ discovery_in = 0
  /\ Request("discovery", FALSE)
  /\ UNCHANGED <<schedule, connected, ready, reset, stop, queue, overtaken>>

NoDiscovery ==
  /\ pc = "connected" /\ discovery_in > 0 /\ Goto("scheduling")
  /\ UNCHANGED <<schedule, link, stop, queue, overtaken>>

\* Slip: a command always goes before a poll.
CommandAlways(ids) == TRUE

CommandFirst(ids) == command_streak < StreakLimit \/ ids = <<>>

\* A new cycle begins if its time has come; then one command or one poll.
Schedule ==
  /\ pc = "scheduling"
  /\ LET renewed == poll_ids = <<>> /\ poll_in = 0
         ids == IF renewed THEN Order ELSE poll_ids
     IN  /\ poll_in' = IF renewed THEN PollPeriod ELSE poll_in
         /\ \/ /\ ready /\ due_in = 0 /\ CommandFirst(ids)
               /\ \E t \in {"stop", "move"} : Take(t) /\ Request(t, FALSE)
               /\ poll_ids' = ids
            \/ /\ ready /\ due_in = 0 /\ ids # <<>>
               /\ CommandFirst(ids) => stops = 0 /\ moves = 0
               /\ poll_ids' = Tail(ids) /\ Request(Head(ids), FALSE)
               /\ UNCHANGED <<queue, overtaken>>
            \/ /\ ~ready \/ due_in > 0 \/ (ids = <<>> /\ stops = 0 /\ moves = 0)
               /\ poll_ids' = ids /\ Goto("publishing")
               /\ UNCHANGED <<cut, queue, overtaken>>
  /\ UNCHANGED <<discovery_in, due_in, silent_in, command_streak, connected, ready, reset, stop>>

\* publish_states: the bridge was not heard of for too long.
Publish ==
  /\ pc = "publishing" /\ Goto("waiting")
  /\ ready' = (ready /\ connected /\ silent_in > 0)
  /\ UNCHANGED <<schedule, connected, reset, cut, stop, queue, overtaken>>

\* Many short waits make a unit of time.
Wait ==
  /\ pc = "waiting" /\ Goto("start")
  /\ UNCHANGED <<schedule, link, stop, queue, overtaken>>

WaitPasses ==
  /\ pc = "waiting" /\ Goto("start")
  /\ Passed(1) /\ discovery_in' = Less(discovery_in, 1) /\ due_in' = Less(due_in, 1)
  /\ UNCHANGED <<poll_ids, command_streak, link, stop, queue, overtaken>>

(***************************************************************************)
(* A request: UDPTransport.request                                         *)
(***************************************************************************)
\* Slip: a waiting STOP does not interrupt anything.
CancelledByShutdown == stop \/ cut

Cancelled == stop \/ cut \/ (task # "stop" /\ stops > 0)

Ask ==
  /\ pc = "asking" /\ ~Cancelled /\ Goto("sending")
  /\ UNCHANGED <<schedule, link, stop, queue, overtaken>>

\* A command is checked again, under the lock that callbacks need to queue a STOP; a
\* discovery or a poll is not.
Send ==
  /\ pc = "sending"
  /\ task = "move" => stops = 0 /\ ready
  /\ task \in {"move", "stop"} => ~cut
  /\ Goto("awaiting")
  /\ overtaken' = IF stops > 0 /\ task # "stop" THEN overtaken + 1 ELSE overtaken
  /\ UNCHANGED <<schedule, link, stop, queue>>

\* Slip: a poll leaves the count of commands as it is.
StreakOfCommands ==
  CASE urgent -> 0
    [] ~urgent /\ task = "move" /\ command_streak < StreakLimit -> command_streak + 1
    [] OTHER -> command_streak

\* Counted up to the limit, beyond which it makes no difference.
Streak ==
  CASE task = "discovery" -> command_streak
    [] task \in {"move", "stop"} /\ ~urgent ->
         IF command_streak < StreakLimit THEN command_streak + 1 ELSE command_streak
    [] OTHER -> 0

\* What run does when a request returns after some time.
Finish(elapsed) ==
  /\ poll_in' = Less(poll_in, elapsed)
  /\ due_in' = IF task = "discovery" \/ urgent THEN Less(due_in, elapsed) ELSE Spacing
  /\ command_streak' = Streak
  /\ Return(IF task = "discovery" THEN "scheduling" ELSE "publishing")
  /\ UNCHANGED <<poll_ids, connected, reset, cut, stop>>

\* An inventory that changed withdraws what waits.
Answered(elapsed) ==
  /\ pc = "awaiting" /\ connected /\ ~cut /\ Finish(elapsed)
  /\ silent_in' = Silence
  /\ IF task = "discovery"
     THEN discovery_in' = DiscoveryPeriod /\ ready' = TRUE /\ (WithdrawAll \/ UNCHANGED <<queue, overtaken>>)
     ELSE discovery_in' = Less(discovery_in, elapsed) /\ UNCHANGED <<ready, queue, overtaken>>

\* Cancelled, refused, timed out; a command that may have gone out takes the readiness
\* with it and what waits, STOPs excepted, as a failed discovery does.
Failed(elapsed, dispatched) ==
  /\ pc \in {"asking", "sending", "awaiting"} /\ Finish(elapsed)
  /\ dispatched => task \in {"move", "stop"} /\ pc # "asking"
  /\ task \in {"move", "stop"} /\ pc = "awaiting" => dispatched
  /\ silent_in' = Less(silent_in, elapsed)
  /\ discovery_in' = IF task = "discovery" THEN RetryPeriod ELSE Less(discovery_in, elapsed)
  /\ IF task = "discovery" \/ (dispatched /\ ~cut)
     THEN ready' = FALSE /\ WithdrawMoves ELSE UNCHANGED <<ready, queue, overtaken>>

(***************************************************************************)
(* The end                                                                 *)
(***************************************************************************)
Shutdown ==
  /\ pc = "start" /\ stop /\ Goto("stopped")
  /\ ready' = FALSE /\ WithdrawAll
  /\ UNCHANGED <<schedule, connected, reset, cut, stop>>

LoopStep ==
  \/ \E heard, rotated \in BOOLEAN : Start(heard, rotated)
  \/ SelectStop \/ PopUrgent \/ NoStop \/ StartDiscovery \/ NoDiscovery \/ Schedule
  \/ Publish \/ Wait \/ WaitPasses \/ Ask \/ Send
  \/ \E elapsed \in 0..RequestTime :
       Answered(elapsed) \/ \E dispatched \in BOOLEAN : Failed(elapsed, dispatched)
  \/ Shutdown

(***************************************************************************)
(* The network thread and the operating system                             *)
(***************************************************************************)
MoveArrives ==
  /\ connected /\ moves < MaxMoves /\ moves' = moves + 1
  /\ UNCHANGED <<pc, task, urgent, schedule, link, stop, stops, overtaken>>

\* A STOP replaces the moves that wait for its shade.
StopArrives ==
  /\ connected /\ stops < MaxStops /\ stops' = stops + 1
  /\ moves' \in 0..moves
  /\ UNCHANGED <<pc, task, urgent, schedule, link, stop, overtaken>>

Connect ==
  /\ ~connected /\ connected' = TRUE /\ reset' = TRUE /\ ready' = FALSE /\ cut' = TRUE /\ WithdrawAll
  /\ UNCHANGED <<pc, task, urgent, schedule, stop>>

Disconnect ==
  /\ connected /\ connected' = FALSE /\ ready' = FALSE /\ cut' = TRUE /\ WithdrawAll
  /\ UNCHANGED <<pc, task, urgent, schedule, reset, stop>>

Terminate ==
  /\ ~stop /\ stop' = TRUE
  /\ UNCHANGED <<pc, task, urgent, schedule, link, queue, overtaken>>

Init ==
  /\ pc = "start" /\ task = NoTask /\ urgent = FALSE
  /\ discovery_in = 0 /\ poll_in = 0 /\ due_in = 0 /\ silent_in = 0
  /\ poll_ids = <<>> /\ command_streak = 0
  /\ connected = FALSE /\ ready = FALSE /\ reset = FALSE /\ cut = FALSE /\ stop = FALSE
  /\ stops = 0 /\ moves = 0 /\ overtaken = 0

Next == LoopStep \/ MoveArrives \/ StopArrives \/ Connect \/ Disconnect \/ Terminate

\* The loop runs, its short waits add up, and of many discoveries one gets an identity, its
\* datagram leaves, and the bridge answers.
Discovers(A) == task = "discovery" /\ A
AnsweredInTime == \E elapsed \in 0..RequestTime : Answered(elapsed)
Spec ==
  /\ Init /\ [][Next]_vars
  /\ WF_vars(LoopStep) /\ SF_vars(WaitPasses)
  /\ SF_vars(Discovers(Ask)) /\ SF_vars(Discovers(Send)) /\ SF_vars(Discovers(AnsweredInTime))

(***************************************************************************)
(* Properties                                                              *)
(***************************************************************************)
TypeOK ==
  /\ pc \in {"start", "selecting", "popping", "connected", "scheduling", "publishing",
             "waiting", "asking", "sending", "awaiting", "stopped"}
  /\ task \in Tasks \cup {NoTask} /\ urgent \in BOOLEAN
  /\ (task # NoTask) = (pc \in {"asking", "sending", "awaiting"})
  /\ discovery_in \in 0..DiscoveryPeriod /\ poll_in \in 0..PollPeriod
  /\ due_in \in 0..Spacing /\ silent_in \in 0..Silence
  /\ command_streak \in 0..StreakLimit
  /\ \E k \in 0..Len(Order) : poll_ids = SubSeq(Order, k + 1, Len(Order))
  /\ {connected, ready, reset, cut, stop} \subseteq BOOLEAN
  /\ stops \in 0..MaxStops /\ moves \in 0..MaxMoves

\* From the moment a STOP is queued the bridge gets at most one request before it: the
\* discovery or poll whose datagram was on its way already.
StopGoesNext == overtaken <= 1

\* The connection holds, nobody stops the service or a shade any more.
Quiet == connected /\ ~stop /\ stops = 0

\* However many moves are sent, and although each of them may fail and take readiness away
\* with it, every shade is polled again and again.
PollsNotStarved ==
  <>[]Quiet => \A s \in Shades : []<>(task = s)

\* However little time a cycle of polls leaves, a waiting move gets its turn or is withdrawn.
MovesNotStarved ==
  <>[]Quiet => []((moves > 0) => <>(moves = 0 \/ task = "move"))
=============================================================================
