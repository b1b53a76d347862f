------------------------------- MODULE Dispatch -------------------------------
(***************************************************************************)
(* How a queued command becomes a datagram: Service.execute, on_message,   *)
(* the connection callbacks and the loop of src/src/dooya_openhab/         *)
(* service.py, with UDPTransport.request, around the queue of module       *)
(* CommandQueue.                                                           *)
(*                                                                         *)
(* Two threads share the queue's lock: the main loop, which pops, sends    *)
(* and waits for the bridge, and the MQTT client's network thread, which   *)
(* submits, changes the policy and withdraws.  A handler that makes        *)
(* several calls under the lock is one step per call and keeps the lock    *)
(* between them, so that a crash or a clock tick may fall anywhere.  What  *)
(* the gate asks of the shade's source beyond its generation is left open  *)
(* here (module Sources), and so are the bridge's answers.                 *)
(***************************************************************************)
EXTENDS CommandQueue

CONSTANTS
  Loop, Network, Nobody,     \* who holds commands.lock
  SourceOf,                  \* the source_generation an envelope names
  Evidence                   \* 120 s: how long an outcome is awaited

\* The outcomes that execute, handle_report and _expire_outcomes record.
ASSUME DispatchAssumption ==
  /\ Nobody \notin {Loop, Network} /\ Loop # Network
  /\ SourceOf \in [Envelopes -> Nat] /\ Evidence \in Nat
  /\ {"rejected", "uncertain", "acknowledged", "target_observed"} \subseteq Recorded

VARIABLES
  lock,
  connected, ready, reset, bound,
  generation, source_generation,
  journal_ok,
  pc,                 \* where the loop is
  job, seen, dispatched,  \* execute: its job, the generations it captured, what it sent
  active,             \* _active and its deadline, per shade
  sent, newest,       \* history: datagrams sent for each envelope, the last on each shade
  informed            \* history: this process restored the record it found

commands  == vars   \* of CommandQueue
linkVars  == <<connected, ready, reset, bound, generation, source_generation>>
pastVars  == <<sent, newest, informed>>
execVars  == <<pc, job, seen, dispatched>>
serviceVars == <<commands, lock, linkVars, journal_ok, execVars, active, pastVars>>

NobodysJob == [id |-> NoId]
NotActive == [env |-> NobodysJob, until |-> 0]
Here == <<generation, source_generation>>

(***************************************************************************)
(* _persist, and the lock                                                  *)
(***************************************************************************)
\* A write that fails may have replaced the file; a journal that failed is left alone.
Persist(healthy) ==
  /\ healthy => journal_ok
  /\ journal_ok' = healthy
  /\ \/ healthy /\ saved' = ledger
     \/ ~healthy /\ journal_ok /\ saved' \in {saved, ledger}
     \/ ~journal_ok /\ UNCHANGED saved
  /\ UNCHANGED <<session, connection_generation, policy, policy_deadline,
                 policy_generations, retired_owners, ledger, jobs, pending, ahead,
                 latest_dispatched, utc_highwater, mono, dispatches, last_on, displaced,
                 first_effective>>

\* Slip: a thread that wants the lock does not wait for it.
FreeForAll(who) == TRUE
Available(who) == lock = Nobody

Take(who) == Available(who) /\ lock' = who
Use(who)  == Available(who) /\ UNCHANGED lock

(***************************************************************************)
(* The network thread                                                      *)
(***************************************************************************)
Deliver(e) ==
  /\ connected /\ Take(Network)
  /\ \E w \in WallReadings, m \in MonoSamples : Submit(e, w, m)
  /\ UNCHANGED <<linkVars, journal_ok, execVars, active, pastVars>>

DeliverPolicy(p) ==
  /\ connected /\ Take(Network)
  /\ \E w \in WallReadings, m \in MonoSamples : UpdatePolicy(p, w, m)
  /\ UNCHANGED <<linkVars, journal_ok, execVars, active, pastVars>>

OnConnect ==
  /\ ~connected /\ Take(Network) /\ Invalidate(FALSE, FALSE)
  /\ generation' = generation + 1 /\ connected' = TRUE /\ ready' = FALSE /\ reset' = TRUE
  /\ UNCHANGED <<bound, source_generation, journal_ok, execVars, active, pastVars>>

ConnectionRefused == ~connected /\ UNCHANGED serviceVars

OnDisconnect ==
  /\ connected /\ Take(Network) /\ Invalidate(FALSE, FALSE)
  /\ generation' = generation + 1 /\ connected' = FALSE /\ ready' = FALSE
  /\ UNCHANGED <<reset, bound, source_generation, journal_ok, execVars, active, pastVars>>

\* The end of each of them.
CallbackPersists ==
  /\ lock = Network /\ lock' = Nobody
  /\ \E healthy \in BOOLEAN : Persist(healthy)
  /\ UNCHANGED <<linkVars, execVars, active, pastVars>>

(***************************************************************************)
(* The loop: sources                                                       *)
(***************************************************************************)
Goto(where) == pc' = where /\ UNCHANGED <<job, seen, dispatched>>

\* Back to the loop; the locals of the call are gone.
Done ==
  /\ pc' = "loop" /\ job' = NobodysJob /\ seen' = <<0, 0>> /\ dispatched' = FALSE

ClearReset ==
  /\ pc = "loop" /\ reset
  /\ reset' = FALSE /\ bound' = FALSE
  /\ UNCHANGED <<commands, lock, connected, ready, generation, source_generation,
                 journal_ok, execVars, active, pastVars>>

Discover ==
  /\ pc = "loop" /\ connected /\ ~HasStop(ledger, jobs)
  /\ pc' = "discovering" /\ seen' = Here
  /\ UNCHANGED <<commands, lock, linkVars, journal_ok, job, dispatched, active, pastVars>>

\* An inventory that changed, or a new session, withdraws what was queued for the old.
Discovered(changed) ==
  /\ pc = "discovering" /\ seen = Here /\ connected
  /\ Take(Loop) /\ pc' = "persisting" /\ ready' = TRUE
  /\ IF changed \/ ~bound \/ reset
       THEN /\ Invalidate(FALSE, FALSE)
            /\ source_generation' = source_generation + 1 /\ bound' = TRUE
       ELSE UNCHANGED <<commands, source_generation, bound>>
  /\ UNCHANGED <<connected, reset, generation, journal_ok, job, seen, dispatched, active, pastVars>>

\* Refused, cancelled by a STOP, timed out, or overtaken by a connection change.
DiscoveryFailed ==
  /\ pc = "discovering" /\ Use(Loop)
  /\ Invalidate(FALSE, TRUE)
  /\ Done /\ ready' = FALSE
  /\ UNCHANGED <<connected, reset, bound, generation, source_generation, journal_ok,
                 active, pastVars>>

\* A heartbeat with another token is a new source.
TokenRotated ==
  /\ pc = "loop" /\ connected /\ ready /\ bound
  /\ Take(Loop) /\ Invalidate(FALSE, FALSE)
  /\ source_generation' = source_generation + 1 /\ Goto("persisting")
  /\ UNCHANGED <<connected, ready, reset, bound, generation, journal_ok, active, pastVars>>

\* publish_states: the bridge has not been heard of for three minutes.
BridgeSilent ==
  /\ pc = "loop" /\ ready /\ ready' = FALSE
  /\ UNCHANGED <<commands, lock, connected, reset, bound, generation, source_generation,
                 journal_ok, execVars, active, pastVars>>

LoopPersists ==
  /\ pc = "persisting"
  /\ lock' = Nobody /\ Done
  /\ \E healthy \in BOOLEAN : Persist(healthy)
  /\ UNCHANGED <<linkVars, active, pastVars>>

(***************************************************************************)
(* The loop: execute                                                       *)
(***************************************************************************)
\* owns_job: the ledger's job is this one, not another of the same identity.
Owns(e) == e # NobodysJob /\ jobs[e.id] # NoJob /\ ledger[e.id].env = e

\* _record_job_result
Recordable(e, status) ==
  LET current == ledger[e.id].status IN
  /\ Owns(e)
  /\ current \in Waiting \cup InFlight \cup {"uncertain"}
  /\ status = "acknowledged" => current = "dispatched"
  /\ ~(current = "uncertain" /\ status \in {"uncertain", "rejected"})
  /\ current \in Waiting => status \in {"rejected", "expired", "superseded"}

Record(e, status) ==
  IF Recordable(e, status) THEN \E w \in WallReadings : RecordResult(e.id, status, w)
                           ELSE UNCHANGED commands

\* active_only
RecordActive(e, status) ==
  IF Recordable(e, status) /\ ledger[e.id].status \notin Waiting
    THEN \E w \in WallReadings : RecordResult(e.id, status, w)
    ELSE UNCHANGED commands

\* _physical_gate, where qualified stands for the shade's configuration and evidence.
Gate(e, qualified) ==
  /\ e.shade \in Shades /\ connected /\ (ready \/ e.command = "STOP")
  /\ journal_ok
  /\ SourceOf[e] = source_generation
  /\ qualified

\* Slip: nothing is popped before the bridge is ready.
UrgentIfReady == connected /\ ready

\* A waiting STOP makes the loop pop at any time, readiness anything else.
Urgent == HasStop(ledger, jobs) \/ (connected /\ ready)

\* The pop itself is another call.
Choose ==
  /\ pc = "loop" /\ Urgent
  /\ Goto("popping")
  /\ UNCHANGED <<commands, lock, linkVars, journal_ok, active, pastVars>>

PopNone ==
  /\ pc = "popping" /\ pending = {} /\ Use(Loop)
  /\ Done
  /\ UNCHANGED <<commands, linkVars, journal_ok, active, pastVars>>

PopCommand ==
  /\ pc = "popping" /\ Use(Loop)
  /\ Pop
  /\ \E i \in pending \ pending' : job' = ledger[i].env
  /\ pc' = "popped" /\ UNCHANGED <<seen, dispatched>>
  /\ UNCHANGED <<linkVars, journal_ok, active, pastVars>>

Execute(qualified) ==
  /\ pc = "popped"
  /\ seen' = Here /\ dispatched' = FALSE
  /\ pc' = IF Gate(job, qualified) THEN "asking" ELSE "refusing"
  /\ UNCHANGED <<commands, lock, linkVars, journal_ok, job, active, pastVars>>

Refuse ==
  /\ pc = "refusing" /\ Use(Loop)
  /\ Record(job, "rejected") /\ Goto("finishing")
  /\ UNCHANGED <<linkVars, journal_ok, active, pastVars>>

\* cancel: any STOP interrupts whatever is not a STOP.
Cancels ==
  \/ seen[1] # generation
  \/ job.command # "STOP" /\ HasStop(ledger, jobs)

\* No message identity, no socket, or cancelled under the lock: nothing is dispatched.
NotAsked ==
  /\ pc = "asking" /\ Goto("failed")
  /\ UNCHANGED <<commands, lock, linkVars, journal_ok, active, pastVars>>

\* The lock is held from here to the datagram.
Admit(qualified) ==
  /\ pc = "asking" /\ Take(Loop) /\ ~Cancels
  /\ \/ /\ Gate(job, qualified) /\ Owns(job)
        /\ \E w \in WallReadings : MarkDispatched(job.id, w)
        /\ Goto(IF ledger[job.id].status \in Waiting /\ ledger'[job.id].status = "dispatched"
                THEN "recording" ELSE "denied")
     \/ /\ ~(Gate(job, qualified) /\ Owns(job))
        /\ UNCHANGED commands /\ Goto("denied")
  /\ UNCHANGED <<linkVars, journal_ok, active, pastVars>>

Deny ==
  /\ pc = "denied" /\ lock' = Nobody
  /\ Record(job, "rejected") /\ Goto("failed")
  /\ UNCHANGED <<linkVars, journal_ok, active, pastVars>>

Onward(healthy) == IF healthy THEN "rechecking" ELSE "unrecorded"

RecordDispatch ==
  /\ pc = "recording"
  /\ \E healthy \in BOOLEAN : Persist(healthy) /\ Goto(Onward(healthy))
  /\ UNCHANGED <<lock, linkVars, active, pastVars>>

Unrecorded ==
  /\ pc = "unrecorded" /\ lock' = Nobody
  /\ Record(job, "uncertain") /\ Goto("failed")
  /\ UNCHANGED <<linkVars, journal_ok, active, pastVars>>

\* dispatched_still_valid
StillValid(e, w) ==
  LET now == Now(w) IN
  /\ Owns(e) /\ ledger[e.id].status = "dispatched"
  /\ jobs[e.id] = connection_generation
  /\ mono < ledger[e.id].deadline /\ now < e.expires
  /\ e.command = "STOP" \/ ~HasStop(ledger, jobs)
  /\ Admissible(ledger, e, now, mono)

ReadClock(w) ==
  /\ utc_highwater' = Now(w)
  /\ UNCHANGED <<session, connection_generation, policy, policy_deadline,
                 policy_generations, retired_owners, ledger, jobs, pending, ahead,
                 latest_dispatched, mono, saved, dispatches, last_on, displaced,
                 first_effective>>

\* The previous motion of the shade loses its claim on what the shade does next.
Relieve(e, w) ==
  IF Recordable(e, "uncertain") /\ ledger[e.id].status \notin Waiting
    THEN RecordResult(e.id, "uncertain", w) ELSE ReadClock(w)

\* Slip: a shade that is followed already goes on being followed for the earlier motion.
FollowedFirst(e) ==
  [active EXCEPT ![e.shade] = IF @ # NotActive THEN @ ELSE [env |-> e, until |-> mono + Evidence]]

Followed(e) == [active EXCEPT ![e.shade] = [env |-> e, until |-> mono + Evidence]]

Recheck(qualified) ==
  /\ pc = "rechecking"
  /\ \E w \in WallReadings :
       IF StillValid(job, w) /\ seen = Here /\ Gate(job, qualified)
       THEN /\ Relieve(active[job.shade].env, w)
            /\ active' = Followed(job)
            /\ pc' = "sending" /\ dispatched' = TRUE
            /\ UNCHANGED <<job, seen>>
       ELSE ReadClock(w) /\ Goto("denied") /\ UNCHANGED active
  /\ UNCHANGED <<lock, linkVars, journal_ok, pastVars>>

Send ==
  /\ pc = "sending" /\ lock' = Nobody
  /\ sent' = [sent EXCEPT ![job] = @ + 1] /\ newest' = [newest EXCEPT ![job.shade] = job]
  /\ Goto("waiting")
  /\ UNCHANGED <<commands, linkVars, journal_ok, active, informed>>

SendFailed ==
  /\ pc = "sending" /\ lock' = Nobody
  /\ Goto("failed")
  /\ UNCHANGED <<commands, linkVars, journal_ok, active, pastVars>>

Acknowledged ==
  /\ pc = "waiting" /\ Goto("answered")
  /\ UNCHANGED <<commands, lock, linkVars, journal_ok, active, pastVars>>

\* The wait times out or is cancelled, or the bridge refuses.
NotAcknowledged ==
  /\ pc = "waiting" /\ Goto("failed")
  /\ UNCHANGED <<commands, lock, linkVars, journal_ok, active, pastVars>>

Counts == seen = Here /\ connected

\* Slip: the answer is recorded without a look at what was withdrawn meanwhile.
RecordAnswerUnseen(e) ==
  \E w \in WallReadings : RecordResult(e.id, "acknowledged", w)

RecordAnswer(e) == Record(e, IF Counts THEN "acknowledged" ELSE "uncertain")

TakeAnswer ==
  /\ pc = "answered" /\ Use(Loop)
  /\ RecordAnswer(job)
  /\ Goto("finishing")
  /\ UNCHANGED <<linkVars, journal_ok, active, pastVars>>

\* Slip: a motion that was sent is reported as one that was not.
FailureOutcomeRejected == "rejected"

FailureOutcome == IF dispatched THEN "uncertain" ELSE "rejected"

Fail ==
  /\ pc = "failed" /\ Available(Loop)
  /\ Record(job, FailureOutcome)
  /\ IF dispatched /\ seen = Here
       THEN lock' = Loop /\ Goto("withdrawing")
       ELSE UNCHANGED lock /\ Goto("finishing")
  /\ UNCHANGED <<linkVars, journal_ok, active, pastVars>>

\* After a bridge error nothing that waits is sent, STOPs excepted.
WithdrawAfterError ==
  /\ pc = "withdrawing" /\ lock' = Nobody
  /\ Invalidate(FALSE, TRUE)
  /\ ready' = FALSE /\ Goto("finishing")
  /\ UNCHANGED <<connected, reset, bound, generation, source_generation, journal_ok,
                 active, pastVars>>

Finish ==
  /\ pc = "finishing" /\ Use(Loop)
  /\ \E healthy \in BOOLEAN : Persist(healthy)
  /\ Done
  /\ UNCHANGED <<linkVars, active, pastVars>>

(***************************************************************************)
(* The loop: outcomes                                                      *)
(***************************************************************************)
\* handle_report: the shade reports the position its last motion was sent for.
TargetObserved(s) ==
  /\ pc = "loop" /\ active[s] # NotActive /\ connected /\ ready /\ bound
  /\ active[s].env.command # "STOP"
  /\ Take(Loop) /\ RecordActive(active[s].env, "target_observed")
  /\ active' = [active EXCEPT ![s] = NotActive]
  /\ Goto("persisting")
  /\ UNCHANGED <<linkVars, journal_ok, pastVars>>

\* _expire_outcomes
EvidenceLapsed(s) ==
  /\ pc = "loop" /\ active[s] # NotActive /\ mono >= active[s].until
  /\ Use(Loop) /\ RecordActive(active[s].env, "uncertain")
  /\ active' = [active EXCEPT ![s] = NotActive]
  /\ Goto("finishing")
  /\ UNCHANGED <<linkVars, journal_ok, pastVars>>

(***************************************************************************)
(* Time and crashes                                                        *)
(***************************************************************************)
ServiceTick ==
  /\ Tick
  /\ UNCHANGED <<lock, linkVars, journal_ok, execVars, active, pastVars>>

\* A new process persists what it has restored before it does anything else.
Idle ==
  /\ lock' = Loop /\ pc' = "persisting"
  /\ job' = NobodysJob /\ seen' = <<0, 0>> /\ dispatched' = FALSE
  /\ connected' = FALSE /\ ready' = FALSE /\ reset' = FALSE /\ bound' = FALSE
  /\ generation' = 0 /\ source_generation' = 0
  /\ active' = [s \in Shades |-> NotActive]

\* A journal that cannot be read or imported leaves the ledger empty, one whose source
\* history is refused a restored ledger; either way it is left alone from then on.
ServiceRestart ==
  /\ \E read \in BOOLEAN : Start(read) /\ informed' = (read /\ Importable(saved))
  /\ Idle
  /\ journal_ok' \in {informed', FALSE}
  /\ UNCHANGED <<sent, newest>>

ServiceInit ==
  /\ Init
  /\ lock = Nobody /\ pc = "loop"
  /\ job = NobodysJob /\ seen = <<0, 0>> /\ dispatched = FALSE
  /\ connected = FALSE /\ ready = FALSE /\ reset = FALSE /\ bound = FALSE
  /\ generation = 0 /\ source_generation = 0
  /\ journal_ok \in BOOLEAN
  /\ active = [s \in Shades |-> NotActive]
  /\ sent = [e \in Envelopes |-> 0] /\ newest = [s \in Shades |-> NobodysJob]
  /\ informed = TRUE

LoopStep ==
  \/ ClearReset \/ Discover \/ DiscoveryFailed \/ TokenRotated \/ BridgeSilent \/ LoopPersists
  \/ \E changed \in BOOLEAN : Discovered(changed)
  \/ Choose \/ PopNone \/ PopCommand \/ Refuse \/ NotAsked \/ Deny \/ RecordDispatch \/ Unrecorded
  \/ \E qualified \in BOOLEAN : Execute(qualified) \/ Admit(qualified) \/ Recheck(qualified)
  \/ Send \/ SendFailed \/ Acknowledged \/ NotAcknowledged \/ TakeAnswer
  \/ Fail \/ WithdrawAfterError \/ Finish
  \/ \E s \in Shades : TargetObserved(s) \/ EvidenceLapsed(s)

Callback ==
  \/ \E e \in Envelopes : Deliver(e)
  \/ \E p \in Policies : DeliverPolicy(p)
  \/ OnConnect \/ ConnectionRefused \/ OnDisconnect

ServiceNext == LoopStep \/ Callback \/ CallbackPersists \/ ServiceTick \/ ServiceRestart

ServiceSpec == ServiceInit /\ [][ServiceNext]_serviceVars

\* The loop runs, every wait of it for the bridge ends by its timeout, callbacks end, and
\* a thread that asks for the lock again and again finally gets it.
LiveSpec == ServiceSpec /\ SF_serviceVars(LoopStep) /\ WF_serviceVars(CallbackPersists)

(***************************************************************************)
(* Properties                                                              *)
(***************************************************************************)
Locked == {"persisting", "denied", "recording", "unrecorded", "rechecking", "sending",
           "withdrawing"}
Unlocked == {"loop", "discovering", "popping", "popped", "asking", "refusing", "waiting",
             "answered", "failed", "finishing"}

\* The service's own variables keep their types, and the loop holds the lock exactly
\* from admission to datagram and while it withdraws or persists under it.
ServiceTypeOK ==
  /\ lock \in {Loop, Network, Nobody}
  /\ connected \in BOOLEAN /\ ready \in BOOLEAN /\ reset \in BOOLEAN /\ bound \in BOOLEAN
  /\ generation \in Nat /\ source_generation \in Nat /\ journal_ok \in BOOLEAN
  /\ pc \in Locked \cup Unlocked /\ (pc \in Locked <=> lock = Loop)
  /\ job \in Envelopes \cup {NobodysJob} /\ seen \in Nat \X Nat /\ dispatched \in BOOLEAN
  /\ active \in [Shades -> [env : Envelopes \cup {NobodysJob}, until : Nat]]
  /\ sent \in [Envelopes -> Nat] /\ newest \in [Shades -> Envelopes \cup {NobodysJob}]
  /\ informed \in BOOLEAN

Denied == {"rejected", "expired", "superseded"}

\* The ledger says of the command itself that it went out, or what followed.
GoneOut(l, e) == e.id \in Known(l) /\ l[e.id].env = e /\ l[e.id].status \notin Waiting \cup Denied

\* A command that went out is never reported as one that did not by a service that found
\* its record, and no journal says so: its receipt, while it is kept, and the journal's say
\* dispatched, or something that followed.  (A process that could not read its journal
\* tells of a redelivered command what its empty ledger lets it, sends nothing, and leaves
\* the journal to the next.)
SentIsNeverDenied ==
  \A e \in Envelopes : sent[e] > 0 =>
    /\ informed /\ ledger[e.id] # NoEntry => ledger[e.id].status \notin Waiting \cup Denied
    /\ saved[e.id] # NoEntry /\ saved[e.id].status \notin Waiting \cup Denied

\* What the receipt of a command says of it, if the identity is its own.
ToldOf(e) ==
  LET entry == ledger[e.id] IN
  CASE entry = NoEntry             -> "nothing"
    [] entry # NoEntry             ->
         IF entry.env # e THEN "nothing"
         ELSE CASE entry.status \in Waiting     -> "waiting"
                [] entry.status \in Denied        -> "denied"
                [] entry.status = "dispatched"    -> "out"
                [] entry.status = "acknowledged"  -> "heard"
                [] entry.status = "uncertain"     -> "unsure"
                [] OTHER                          -> "done"

\* The threads, the queue, the journal and the wire together keep custody of every command
\* (module Custody): whatever interleaves or fails, and over restarts, it is sent at most
\* once and between commitment and outcome, is on record before, and what is told of it
\* never goes back in a life that found the record.
Owed == INSTANCE Custody WITH
          Commands <- Envelopes, told <- [e \in Envelopes |-> ToldOf(e)], life <- session,
          record <- {e \in Envelopes : GoneOut(saved, e)}
CustodyKept == Owed!Spec

\* At the moment of its datagram a command's authority is whole: the connection and the
\* source it was accepted under, the policy of an automatic one, and no STOP waits before
\* a motion, whatever the callbacks did while the loop selected, recorded and rechecked;
\* and when that was decided, after the journal was written, its time was not over.
SentWithAuthority ==
  [][/\ \A e \in Envelopes : sent'[e] > sent[e] =>
          /\ connected /\ SourceOf[e] = source_generation
          /\ jobs[e.id] = connection_generation /\ ledger[e.id].status = "dispatched"
          /\ e.command # "STOP" =>
               /\ ~HasStop(ledger, jobs)
               /\ e.origin = "automatic" =>
                    policy # NoPolicy /\ e.generation = policy.generation
     /\ dispatched' /\ ~dispatched =>
          /\ mono < ledger[job.id].deadline
          /\ job.origin = "automatic" /\ job.command # "STOP" => mono < policy_deadline]_serviceVars

\* An acknowledgement counts for the motion only if the link it was awaited on lived.
AcknowledgedOnLink ==
  [][\A i \in Ids : /\ ledger'[i] # NoEntry /\ ledger[i] # NoEntry
                    /\ ledger'[i].status = "acknowledged" /\ ledger[i].status # "acknowledged"
       => connected /\ jobs[i] = connection_generation /\ sent[ledger[i].env] > 0]_serviceVars

\* A report completes the motion that was sent last on its shade, never an earlier one
\* that a later datagram, a STOP perhaps, has replaced.
CompletesNewest ==
  [][\A i \in Ids :
       /\ session' = session /\ ledger[i] # NoEntry /\ ledger'[i] # NoEntry
       /\ ledger'[i].status = "target_observed" /\ ledger[i].status # "target_observed"
       => LET e == ledger[i].env IN sent[e] > 0 => newest[e.shade] = e]_serviceVars

\* Every STOP that is queued is finally decided, dispatched or refused or withdrawn,
\* whether or not the bridge is ready, a motion waits for its answer, a discovery is under
\* way or the connection is lost: it never stays queued, nor selected by a loop that left it.
StopIsServed ==
  \A i \in Ids :
    ledger[i].status \in Waiting /\ ledger[i].env.command = "STOP"
      ~> ledger[i].status \notin Waiting
=============================================================================
