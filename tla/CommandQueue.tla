---------------------------- MODULE CommandQueue ----------------------------
(***************************************************************************)
(* The bounded dispatch queue of src/src/dooya_openhab/commands.py (class  *)
(* CommandQueue): the request ledger, the pending queue, the owner policy  *)
(* in force and the import of a saved ledger after a restart.              *)
(*                                                                         *)
(* Every method body runs under the queue's lock, so one action is one     *)
(* call.  A caller reads its clocks before it takes that lock: a call      *)
(* carries a wall-clock reading w, which may be any member of WallReadings *)
(* (the wall clock may jump and roll back), and a monotonic reading m,     *)
(* which may be up to Lag behind mono.  Wall and monotonic time are in one *)
(* unit (the code converts milliseconds to seconds).                       *)
(*                                                                         *)
(* Signature checks have been passed by every envelope and policy here     *)
(* (verify_command, verify_policy); the reason texts of receipts and the   *)
(* return values are left out.                                             *)
(***************************************************************************)
EXTENDS Integers, FiniteSets

CONSTANTS
  Ids,             \* request identities
  NoId,            \* no request identity
  Shades,          \* keys of shade_zones
  ZoneOf,          \* shade_zones
  Envelopes,       \* the signed commands that may be submitted
  Policies,        \* the signed policy snapshots that may be delivered
  NoPolicy,        \* self.policy is None
  Owners,          \* owner sessions
  Generations,     \* policy generation identities
  PendingLimit,    \* limit
  LedgerLimit,     \* ledger_limit
  HistoryLimit,    \* 512: remembered policy generations, retired owners
  MaxTTL,          \* MAX_TTL_MS
  Released,        \* automatic_released
  WallReadings,    \* what the wall clock may read
  Recorded,        \* the outcomes callers record
  Lag,             \* how old a caller's monotonic reading may be
  MaxMono,         \* bound on the monotonic clock
  MaxGeneration,   \* bound on connection generations
  MaxSession       \* bound on adapter sessions (restarts)

Zones == {"kitchen", "living", "bathroom", "bedroom"}
Nightly == {"bathroom", "bedroom"}

Waiting  == {"queued", "selected"}
InFlight == {"dispatched", "acknowledged"}
Final    == {"rejected", "target_observed", "stopped", "interrupted",
             "superseded", "expired"}
Outcomes == Waiting \cup InFlight \cup Final \cup {"uncertain"}

\* A command: STOP, or MOVE for UP, DOWN and a position.  Only automatic STOPs
\* name the request whose movement they end (source_context.owned_request_id).
EnvelopeType ==
  [id : Ids, shade : Shades \cup {"unknown"}, origin : {"manual", "automatic"},
   command : {"STOP", "MOVE"}, adapter : Nat, owner : Owners,
   generation : Generations, owned : Ids \cup {NoId},
   created : Nat, expires : Nat]

PolicyType ==
  [generation : Generations, owner : Owners, adapter : Nat,
   issued : Nat, expires : Nat, released : BOOLEAN,
   zones : SUBSET Zones, override_off : BOOLEAN]

ASSUME QueueAssumption ==
  /\ NoId \notin Ids
  /\ IsFiniteSet(Shades) /\ ZoneOf \in [Shades -> Zones]
  /\ "unknown" \notin Shades
  /\ Envelopes \subseteq EnvelopeType
  /\ \A e \in Envelopes : e.created < e.expires /\ e.expires <= e.created + MaxTTL
  /\ Policies \subseteq PolicyType
  /\ \A p \in Policies : p.issued < p.expires /\ p.expires <= p.issued + MaxTTL
  /\ NoPolicy \notin Policies
  /\ PendingLimit \in Nat \ {0}
  /\ LedgerLimit \in Nat /\ PendingLimit <= LedgerLimit
  /\ HistoryLimit \in Nat \ {0}
  /\ MaxTTL \in Nat
  /\ Released \in BOOLEAN
  /\ WallReadings \subseteq Nat
  /\ Recorded \subseteq Outcomes \ (Waiting \cup {"dispatched"})
  /\ Lag \in Nat /\ MaxMono \in Nat /\ MaxGeneration \in Nat /\ MaxSession \in Nat

VARIABLES
  session,                \* adapter_session: a fresh one for every process
  connection_generation,
  policy, policy_deadline, policy_generations, retired_owners,
  ledger,                 \* _ledger: request identity -> entry
  jobs,                   \* _jobs: request identity -> its connection generation
  pending, ahead,         \* the OrderedDict pending: its keys, and their order
  latest_dispatched,
  utc_highwater,
  mono,                   \* the monotonic clock
  saved,                  \* the ledger last exported to the journal
  \* history variables, read by the properties only
  dispatches,             \* how often each envelope was dispatched
  last_on,                \* the envelope last dispatched on each shade
  displaced,              \* policy snapshots another one has replaced
  first_effective         \* monotonic time each snapshot first took effect

policyVars  == <<policy, policy_deadline, policy_generations, retired_owners>>
queueVars   == <<ledger, jobs, pending, ahead>>
historyVars == <<dispatches, last_on, displaced, first_effective>>
vars == <<session, connection_generation, policyVars, queueVars,
          latest_dispatched, utc_highwater, mono, saved, historyVars>>

NoEntry    == [status |-> "absent"]
NoJob      == -1
NoDeadline == -1
NoInterval == [until |-> -1, mono |-> -1]
NoneOn     == [id |-> NoId]
NeverEffective == -1

\* A ledger entry.  Its Job, if there is one, has the same envelope and deadline.
Entry == [env : Envelopes, status : Outcomes,
          class : {"normal", "manual_stop_reserve"},
          deadline : Nat \cup {NoDeadline}]

Known(l) == {i \in Ids : l[i] # NoEntry}

(***************************************************************************)
(* Helpers of the class.                                                   *)
(***************************************************************************)
Later(a, b) == IF a >= b THEN a ELSE b

\* Slip: the highwater of the wall clock is forgotten.
NowUnclamped(w) == w

\* _time: dispatch decisions see a wall clock that never goes back.
Now(w) == Later(utc_highwater, w)

MonoSamples == {m \in (mono - Lag) .. mono : m >= 0}

ManualStop(e) == e.origin = "manual" /\ e.command = "STOP"

\* _set on every identity of S.
Settle(l, S, status) ==
  [i \in Ids |-> IF i \in S THEN [l[i] EXCEPT !.status = status] ELSE l[i]]

\* Slip: _set changes the receipt only.
SurvivingAll(l) == pending

\* What _set leaves pending, once the statuses are those of l.
Surviving(l) == {i \in pending : l[i].status \in Waiting}

\* _prune
Lapsed(l, now, m) ==
  {i \in Ids : /\ l[i].status \in Waiting
               /\ \/ l[i].env.expires <= now
                  \/ l[i].deadline # NoDeadline /\ m >= l[i].deadline}
Prune(l, now, m) == Settle(l, Lapsed(l, now, m), "expired")

\* _evict_expired: what it may delete, and the deletion.  The code takes the
\* oldest entry of the class it is asked for; here any one of them may go.
Evictable(l, now, m) ==
  {i \in Known(l) : /\ l[i].status \notin Waiting \cup InFlight
                    /\ l[i].env.expires <= now
                    /\ l[i].deadline = NoDeadline \/ m >= l[i].deadline}
Normal(l) == {i \in Known(l) : l[i].class = "normal"}
Reserve(l, shade) ==
  {i \in Known(l) : l[i].class = "manual_stop_reserve" /\ l[i].env.shade = shade}
OneOf(S) == IF S = {} THEN {{}} ELSE {{i} : i \in S}
\* Slip: the job of an evicted entry is kept.
EvictJobsKept(V) == jobs
Evict(l, V) == [i \in Ids |-> IF i \in V THEN NoEntry ELSE l[i]]
EvictJobs(V) == [i \in Ids |-> IF i \in V THEN NoJob ELSE jobs[i]]

\* has_stop(shade), and has_stop() over every shade
StopOn(l, j, shade) ==
  \E i \in Ids : /\ j[i] # NoJob /\ l[i].status \in Waiting
                 /\ l[i].env.command = "STOP" /\ l[i].env.shade = shade
HasStop(l, j) ==
  \E i \in Ids : j[i] # NoJob /\ l[i].status \in Waiting /\ l[i].env.command = "STOP"

\* Slip: any earlier movement of the owner counts, also one overridden since.
OwnsAnyMovement(l, e) ==
  /\ e.owned \in Ids
  /\ jobs[e.owned] = connection_generation
  /\ l[e.owned].env.origin = "automatic"
  /\ l[e.owned].env.shade = e.shade
  /\ l[e.owned].env.owner = e.owner
  /\ l[e.owned].status \in InFlight \cup {"uncertain"}

\* An automatic STOP ends only the movement its own owner's automation caused,
\* and only while nothing else was dispatched on that shade since.
OwnsMovement(l, e) ==
  /\ e.owned \in Ids
  /\ jobs[e.owned] = connection_generation
  /\ l[e.owned].env.origin = "automatic"
  /\ l[e.owned].env.shade = e.shade
  /\ l[e.owned].env.owner = e.owner
  /\ latest_dispatched[e.shade] \in {e.owned, e.id}
  /\ l[e.owned].status \in InFlight \cup {"uncertain"}

PolicyPermits(e, now, m) ==
  /\ policy # NoPolicy
  /\ m < policy_deadline
  /\ policy.issued <= now /\ now < policy.expires
  /\ e.generation = policy.generation
  /\ Released /\ policy.released
  /\ ZoneOf[e.shade] \in policy.zones
  /\ ZoneOf[e.shade] \in Nightly => policy.override_off

\* _admission_reason is None
Admissible(l, e, now, m) ==
  /\ e.adapter = session
  /\ e.shade \in Shades
  /\ e.created <= now /\ now < e.expires
  /\ policy # NoPolicy => e.owner = policy.owner
  /\ \/ e.origin = "manual"
     \/ e.origin = "automatic" /\ e.command = "STOP" /\ OwnsMovement(l, e)
     \/ e.origin = "automatic" /\ e.command = "MOVE" /\ PolicyPermits(e, now, m)

(***************************************************************************)
(* submit                                                                  *)
(***************************************************************************)
\* Slip: the request a worker has already popped is overlooked.
CoalescedPending(l, j, e) ==
  {i \in pending : /\ l[i].env.shade = e.shade
                   /\ \/ e.command = "STOP"
                      \/ l[i].env.command # "STOP" /\ l[i].env.origin = e.origin}

\* The waiting requests a newly admitted one replaces.
Coalesced(l, j, e) ==
  {i \in Ids : /\ j[i] # NoJob /\ l[i].status \in Waiting
               /\ l[i].env.shade = e.shade
               /\ \/ e.command = "STOP"
                  \/ l[i].env.command # "STOP" /\ l[i].env.origin = e.origin}

OrdinaryPending(l, p) == {i \in p : ~ManualStop(l[i].env)}

\* Slip: one request too many.
RoomForOneMore(l, p, e) ==
  ManualStop(e) \/ Cardinality(OrdinaryPending(l, p)) <= PendingLimit

\* Operator STOPs have a place of their own beside the ordinary work.
HasRoom(l, p, e) ==
  ManualStop(e) \/ Cardinality(OrdinaryPending(l, p)) < PendingLimit

\* Slip: a STOP queues up behind the movements.
LinkLast(p, e) == p \X {e.id}

\* The newest STOP goes to the head of the queue, anything else to its tail.
Link(p, e) == IF e.command = "STOP" THEN {e.id} \X p ELSE p \X {e.id}

Enqueue(p, e) ==
  /\ pending' = p \cup {e.id}
  /\ ahead' = (ahead \cap (p \X p)) \cup Link(p, e)

\* submit from the stop_pending check on: what is replaced stays replaced even
\* when the queue then turns out to be full.
Store(l, j, e, class, admissible, now, m) ==
  LET welcome   == admissible /\ (e.command # "STOP" => ~StopOn(l, j, e.shade))
      coalesced == Settle(l, IF welcome THEN Coalesced(l, j, e) ELSE {}, "superseded")
      left      == Surviving(coalesced)
      queued    == welcome /\ HasRoom(coalesced, left, e)
  IN  /\ ledger' = [coalesced EXCEPT ![e.id] =
            [env |-> e, status |-> IF queued THEN "queued" ELSE "rejected",
             class |-> class, deadline |-> m + Later(0, e.expires - now)]]
      /\ IF queued
         THEN jobs' = [j EXCEPT ![e.id] = connection_generation] /\ Enqueue(left, e)
         ELSE jobs' = j /\ pending' = left /\ ahead' = ahead \cap (left \X left)

\* The ledger is full of identities that may still matter: nothing is stored.
TurnAway(l) ==
  /\ ledger' = l /\ jobs' = jobs
  /\ pending' = Surviving(l) /\ ahead' = ahead \cap (pending' \X pending')

StoreOrTurnAway(l, e, admissible, now, m) ==
  \E V \in OneOf(Evictable(l, now, m) \cap Normal(l)) :
    \/ V # {} /\ Store(Evict(l, V), EvictJobs(V), e, "normal", admissible, now, m)
    \/ V = {} /\ TurnAway(l)

\* A manual STOP that finds the ledger full may take its shade's reserve entry.
StoreStop(l, e, now, m) ==
  \E V \in OneOf(Evictable(l, now, m) \cap Reserve(l, e.shade)) :
    \/ /\ Reserve(l, e.shade) \ V = {}
       /\ Store(Evict(l, V), EvictJobs(V), e, "manual_stop_reserve", TRUE, now, m)
    \/ /\ Reserve(l, e.shade) \ V # {}
       /\ StoreOrTurnAway(l, e, TRUE, now, m)

\* Slip: one entry too many.
FullPlusOne(l) == Cardinality(Normal(l)) > LedgerLimit
Full(l) == Cardinality(Normal(l)) >= LedgerLimit

SubmitNew(e, now, m) ==
  LET l == Prune(ledger, now, m)
      admissible == Admissible(l, e, now, m)
  IN  \/ ~Full(l) /\ Store(l, jobs, e, "normal", admissible, now, m)
      \/ Full(l) /\ admissible /\ ManualStop(e) /\ StoreStop(l, e, now, m)
      \/ Full(l) /\ ~(admissible /\ ManualStop(e))
         /\ StoreOrTurnAway(l, e, admissible, now, m)

\* A known identity gets its existing receipt, or an identity conflict.
Submit(e, w, m) ==
  /\ utc_highwater' = Now(w)
  /\ \/ ledger[e.id] # NoEntry /\ UNCHANGED queueVars
     \/ ledger[e.id] = NoEntry /\ SubmitNew(e, Now(w), m)
  /\ UNCHANGED <<session, connection_generation, policyVars, latest_dispatched,
                 mono, saved, historyVars>>

(***************************************************************************)
(* The dispatching caller: pop, mark_dispatched, record_result             *)
(***************************************************************************)
First(i) == i \in pending /\ \A k \in pending \ {i} : <<i, k>> \in ahead

Pop ==
  \E i \in pending :
    /\ First(i)
    /\ ledger' = Settle(ledger, {i}, "selected")
    /\ pending' = pending \ {i}
    /\ ahead' = ahead \cap (pending' \X pending')
    /\ UNCHANGED <<session, connection_generation, policyVars, jobs,
                   latest_dispatched, utc_highwater, mono, saved, historyVars>>

\* Callers hold only Jobs that pop has returned.
Popped(i) == jobs[i] # NoJob /\ ledger[i].status # "queued"

\* The outcome validate_for_send gives a waiting job, "selected" if it may go.
Verdict(i, now, m) ==
  LET e == ledger[i].env IN
  IF jobs[i] # connection_generation THEN "rejected"
  ELSE IF m >= ledger[i].deadline \/ now >= e.expires THEN "expired"
  ELSE IF (e.command # "STOP" => ~HasStop(ledger, jobs)) /\ Admissible(ledger, e, now, m)
  THEN "selected" ELSE "rejected"

MarkDispatched(i, w) ==
  LET now == Now(w)
      verdict == Verdict(i, now, mono)
      e == ledger[i].env
  IN  /\ Popped(i)
      /\ utc_highwater' = now
      /\ \/ ledger[i].status \notin Waiting /\ UNCHANGED <<ledger, latest_dispatched, historyVars>>
         \/ /\ ledger[i].status \in Waiting /\ verdict # "selected"
            /\ ledger' = Settle(ledger, {i}, verdict)
            /\ UNCHANGED <<latest_dispatched, historyVars>>
         \/ /\ ledger[i].status \in Waiting /\ verdict = "selected"
            /\ ledger' = Settle(ledger, {i}, "dispatched")
            /\ latest_dispatched' = [latest_dispatched EXCEPT ![e.shade] = i]
            /\ dispatches' = [dispatches EXCEPT ![e] = @ + 1]
            /\ last_on' = [last_on EXCEPT ![e.shade] = e]
            /\ UNCHANGED <<displaced, first_effective>>
      /\ pending' = Surviving(ledger') /\ ahead' = ahead \cap (pending' \X pending')
      /\ UNCHANGED <<session, connection_generation, policyVars, jobs, mono, saved>>

\* Outcomes a caller may record; from a waiting job only a withdrawal.
RecordResult(i, status, w) ==
  /\ Popped(i)
  /\ ledger[i].status \in Waiting => status \in {"rejected", "expired", "superseded"}
  /\ utc_highwater' = Now(w)
  /\ ledger' = IF ledger[i].status \in Final THEN ledger ELSE Settle(ledger, {i}, status)
  /\ pending' = Surviving(ledger') /\ ahead' = ahead \cap (pending' \X pending')
  /\ UNCHANGED <<session, connection_generation, policyVars, jobs,
                 latest_dispatched, mono, saved, historyVars>>

\* Slip: whatever does not wait becomes uncertain.
WithdrawAll(l, S, outcome) ==
  [i \in Ids |-> IF i \notin S THEN l[i]
                 ELSE [l[i] EXCEPT !.status = IF @ \in Waiting THEN outcome ELSE "uncertain"]]

\* What a withdrawal makes of the entries of S: work not sent is withdrawn with
\* the given outcome, work that was sent becomes uncertain.
Withdraw(l, S, outcome) ==
  [i \in Ids |-> IF i \notin S THEN l[i] ELSE
      CASE l[i].status \in Waiting  -> [l[i] EXCEPT !.status = outcome]
        [] l[i].status \in InFlight -> [l[i] EXCEPT !.status = "uncertain"]
        [] OTHER -> l[i]]

\* Slip: STOPs are not preserved.
AffectedStopsToo(automatic_only, preserve_stops) ==
  {i \in Ids : jobs[i] # NoJob /\ (automatic_only => ledger[i].env.origin = "automatic")}

Affected(automatic_only, preserve_stops) ==
  {i \in Ids : /\ jobs[i] # NoJob
               /\ automatic_only => ledger[i].env.origin = "automatic"
               /\ preserve_stops => ledger[i].env.command # "STOP"}

Invalidate(automatic_only, preserve_stops) ==
  /\ IF automatic_only \/ preserve_stops
     THEN UNCHANGED connection_generation
     ELSE /\ connection_generation < MaxGeneration
          /\ connection_generation' = connection_generation + 1
  /\ ledger' = Withdraw(ledger, Affected(automatic_only, preserve_stops), "rejected")
  /\ pending' = Surviving(ledger') /\ ahead' = ahead \cap (pending' \X pending')
  /\ UNCHANGED <<session, policyVars, jobs, latest_dispatched, utc_highwater,
                 mono, saved, historyVars>>

(***************************************************************************)
(* update_policy                                                           *)
(***************************************************************************)
Permission(p) == <<p.owner, p.adapter, p.released, p.zones, p.override_off>>

Remembered(g) == {x \in Generations : g[x] # NoInterval}

\* Slip: the snapshot in force is taken again as if it were new.
StaleUnlessRepeated(p) ==
  /\ policy # NoPolicy
  /\ \/ p.issued < policy.issued
     \/ p.generation = policy.generation /\ Permission(p) # Permission(policy)
     \/ p.generation # policy.generation /\ p.generation \in Remembered(policy_generations)

\* What a snapshot may not do against the one in force: be older, change the
\* permissions of its generation, repeat it, or bring back a replaced generation.
\* (An exact repeat is answered from the snapshot in force and changes nothing.)
Stale(p) ==
  /\ policy # NoPolicy
  /\ \/ p.issued < policy.issued
     \/ p.generation = policy.generation /\ Permission(p) # Permission(policy)
     \/ p.generation = policy.generation /\ p.issued = policy.issued
     \/ p.generation # policy.generation /\ p.generation \in Remembered(policy_generations)

\* Slip: a replaced generation is forgotten at once.
ReclaimAtOnce(now, m) ==
  [g \in Generations |->
    IF policy # NoPolicy /\ g # policy.generation THEN NoInterval ELSE policy_generations[g]]

\* Replaced generations are forgotten once no snapshot of theirs can be fresh.
Reclaim(now, m) ==
  [g \in Generations |->
    IF /\ policy # NoPolicy /\ g # policy.generation
       /\ now >= policy_generations[g].until /\ m >= policy_generations[g].mono
    THEN NoInterval ELSE policy_generations[g]]

\* Slip: only another owner's snapshot withdraws the work of the one before.
ReplacesOtherOwner(p) == policy # NoPolicy /\ p.owner # policy.owner

Replaces(p) == policy # NoPolicy /\ p.generation # policy.generation
ReplacesOwner(p) == Replaces(p) /\ p.owner # policy.owner

Room(p, remembered) ==
  /\ p.generation \in remembered \/ Cardinality(remembered) < HistoryLimit
  /\ ReplacesOwner(p) => Cardinality(retired_owners) < HistoryLimit

\* A generation is remembered for the lifetime of every snapshot signed for it.
Remember(p, generations, now, m) ==
  [generations EXCEPT ![p.generation] =
    [until |-> p.issued + MaxTTL, mono |-> m + (p.issued + MaxTTL - now)]]

Adopt(p, generations, now, m) ==
  LET automatic == {i \in Ids : jobs[i] # NoJob /\ ledger[i].env.origin = "automatic"}
  IN  /\ ledger' = Withdraw(ledger, IF Replaces(p) THEN automatic ELSE {}, "superseded")
      /\ pending' = Surviving(ledger') /\ ahead' = ahead \cap (pending' \X pending')
      /\ retired_owners' = retired_owners \cup IF ReplacesOwner(p) THEN {policy.owner} ELSE {}
      /\ policy' = p
      /\ policy_deadline' = m + (p.expires - now)
      /\ policy_generations' = Remember(p, generations, now, m)
      /\ displaced' = displaced \cup ({policy} \ {NoPolicy})
      /\ first_effective' = [first_effective EXCEPT ![p] =
                               IF @ = NeverEffective THEN mono ELSE @]

UpdatePolicy(p, w, m) ==
  LET now == Now(w)
      fresh == /\ p.adapter = session
               /\ p.issued <= now /\ now < p.expires
               /\ p.owner \notin retired_owners
      generations == Reclaim(now, m)
  IN  /\ utc_highwater' = now
      /\ \/ /\ ~fresh \/ Stale(p)
            /\ UNCHANGED <<policyVars, ledger, pending, ahead, displaced, first_effective>>
         \/ /\ fresh /\ ~Stale(p) /\ ~Room(p, Remembered(generations))
            /\ policy_generations' = generations
            /\ UNCHANGED <<policy, policy_deadline, retired_owners, ledger, pending,
                           ahead, displaced, first_effective>>
         \/ /\ fresh /\ ~Stale(p) /\ Room(p, Remembered(generations))
            /\ Adopt(p, generations, now, m)
      /\ UNCHANGED <<session, connection_generation, jobs, latest_dispatched, mono,
                     saved, dispatches, last_on>>

(***************************************************************************)
(* export_ledger, and a new process that imports what was exported         *)
(***************************************************************************)
Export ==
  /\ session < MaxSession
  /\ saved' = ledger
  /\ UNCHANGED <<session, connection_generation, policyVars, queueVars,
                 latest_dispatched, utc_highwater, mono, historyVars>>

\* The checks of import_ledger.
Importable(l) ==
  /\ Cardinality(Known(l)) <= LedgerLimit + Cardinality(Shades)
  /\ Cardinality(Normal(l)) <= LedgerLimit
  /\ \A i \in Known(l) \ Normal(l) :
        /\ ManualStop(l[i].env) /\ l[i].env.shade \in Shades
        /\ Reserve(l, l[i].env.shade) = {i}

EmptyLedger == [i \in Ids |-> NoEntry]

\* No work is restored: waiting requests expired, what was sent is uncertain.
Restored(l) ==
  [i \in Ids |->
    IF l[i] = NoEntry THEN NoEntry
    ELSE [l[i] EXCEPT !.deadline = NoDeadline,
                      !.status = IF l[i].status \in Waiting THEN "expired"
                                 ELSE IF l[i].status \in InFlight THEN "uncertain"
                                 ELSE l[i].status]]

\* A journal that cannot be read leaves the queue empty, as one that cannot be imported.
\* The clock highwater is rebuilt from the receipts' updated_at_ms, which this
\* model leaves out: it may be any reading up to the present highwater.
Start(read) ==
  /\ session < MaxSession
  /\ session' = session + 1
  /\ connection_generation' = 0
  /\ policy' = NoPolicy /\ policy_deadline' = 0
  /\ policy_generations' = [g \in Generations |-> NoInterval]
  /\ retired_owners' = {}
  /\ ledger' = IF read /\ Importable(saved) THEN Restored(saved) ELSE EmptyLedger
  /\ jobs' = [i \in Ids |-> NoJob]
  /\ pending' = {} /\ ahead' = {}
  /\ latest_dispatched' = [s \in Shades |-> NoId]
  /\ utc_highwater' \in {0} \cup {w \in WallReadings : w <= utc_highwater}
  /\ UNCHANGED <<mono, saved, historyVars>>

Restart == \E read \in BOOLEAN : Start(read)

Tick ==
  /\ mono < MaxMono
  /\ mono' = mono + 1
  /\ UNCHANGED <<session, connection_generation, policyVars, queueVars,
                 latest_dispatched, utc_highwater, saved, historyVars>>

(***************************************************************************)
Init ==
  /\ session = 0 /\ connection_generation = 0
  /\ policy = NoPolicy /\ policy_deadline = 0
  /\ policy_generations = [g \in Generations |-> NoInterval]
  /\ retired_owners = {}
  /\ ledger = EmptyLedger
  /\ jobs = [i \in Ids |-> NoJob]
  /\ pending = {} /\ ahead = {}
  /\ latest_dispatched = [s \in Shades |-> NoId]
  /\ utc_highwater = 0 /\ mono = 0
  /\ saved = EmptyLedger
  /\ dispatches = [e \in Envelopes |-> 0]
  /\ last_on = [s \in Shades |-> NoneOn]
  /\ displaced = {}
  /\ first_effective = [p \in Policies |-> NeverEffective]

Next ==
  \/ \E e \in Envelopes, w \in WallReadings, m \in MonoSamples : Submit(e, w, m)
  \/ Pop
  \/ \E i \in Ids, w \in WallReadings : MarkDispatched(i, w)
  \/ \E i \in Ids, s \in Recorded, w \in WallReadings : RecordResult(i, s, w)
  \/ \E a, s \in BOOLEAN : Invalidate(a, s)
  \/ \E p \in Policies, w \in WallReadings, m \in MonoSamples : UpdatePolicy(p, w, m)
  \/ Export
  \/ Restart
  \/ Tick

Spec == Init /\ [][Next]_vars

(***************************************************************************)
(* Properties                                                              *)
(***************************************************************************)
LedgerOK(l) ==
  /\ l \in [Ids -> Entry \cup {NoEntry}]
  /\ \A i \in Known(l) : l[i].env.id = i

JobsOK(j, l) ==
  /\ j \in [Ids -> Nat \cup {NoJob}]
  /\ \A i \in Ids : j[i] # NoJob => i \in Known(l) /\ l[i].deadline # NoDeadline

\* Every variable keeps its type; a job always has a ledger entry to report in,
\* so no method of the queue fails on a missing key.
TypeOK ==
  /\ session \in Nat /\ connection_generation \in Nat
  /\ policy \in Policies \cup {NoPolicy} /\ policy_deadline \in Nat
  /\ policy_generations \in
       [Generations -> [until : Nat, mono : Nat] \cup {NoInterval}]
  /\ retired_owners \subseteq Owners
  /\ LedgerOK(ledger) /\ JobsOK(jobs, ledger)
  /\ pending \subseteq Ids /\ ahead \subseteq pending \X pending
  /\ latest_dispatched \in [Shades -> Ids \cup {NoId}]
  /\ utc_highwater \in Nat /\ mono \in Nat
  /\ LedgerOK(saved)
  /\ dispatches \in [Envelopes -> Nat]
  /\ last_on \in [Shades -> Envelopes \cup {NoneOn}]
  /\ displaced \subseteq Policies
  /\ first_effective \in [Policies -> Nat \cup {NeverEffective}]

\* A signed command is dispatched at most once, ever: not again when it is
\* delivered again, when its identity was evicted from the full ledger and the
\* wall clock then rolled back, or after a restart from an old journal.
AtMostOnceDispatch == \A e \in Envelopes : dispatches[e] <= 1

\* The pending queue holds exactly the requests whose receipt says "queued", in
\* one order, and whatever waits has a job that can be popped or withdrawn.
PendingIsQueued ==
  /\ pending = {i \in Ids : ledger[i].status = "queued"}
  /\ \A i \in Ids : ledger[i].status \in Waiting => jobs[i] # NoJob
  /\ \A i, k \in pending : i # k => (<<i, k>> \in ahead <=> <<k, i>> \notin ahead)
  /\ \A i, k, n \in pending : <<i, k>> \in ahead /\ <<k, n>> \in ahead => <<i, n>> \in ahead

\* Every pending STOP is popped before any pending movement, although moves and
\* STOPs of all shades and origins share one queue.
StopsFirst ==
  \A i, k \in pending :
    ledger[i].env.command = "STOP" /\ ledger[k].env.command # "STOP" => <<i, k>> \in ahead

\* At most one STOP waits on a shade, no movement waits beside it, and of the
\* movements there at most one of each origin (selected ones included).
OneWaitingPerShade ==
  \A i, k \in Ids :
    /\ i # k /\ ledger[i].status \in Waiting /\ ledger[k].status \in Waiting
    /\ ledger[i].env.shade = ledger[k].env.shade
    => /\ ledger[i].env.command = "MOVE" /\ ledger[k].env.command = "MOVE"
       /\ ledger[i].env.origin # ledger[k].env.origin

\* Ordinary work never fills more than the limit, whatever the STOPs.
OrdinaryWithinLimit == Cardinality(OrdinaryPending(ledger, pending)) <= PendingLimit

\* Whatever is exported, at any moment, a restart accepts: the normal entries and
\* the STOP reserves stay within the bounds import_ledger enforces.  (A refused
\* import would leave the service without history and inhibit every command.)
ExportImportable == Importable(ledger) /\ Importable(saved)

\* Within a process a final outcome is never changed and nothing sent or
\* uncertain goes back to waiting, whatever withdrawals and results race.
OutcomeAbsorbing ==
  [][session' = session =>
       \A i \in Ids : ledger[i] # NoEntry /\ ledger'[i] # NoEntry =>
         /\ ledger[i].status \in Final => ledger'[i].status = ledger[i].status
         /\ ledger[i].status \notin Waiting => ledger'[i].status \notin Waiting]_vars

\* An automatic movement that still waits, or was dispatched and not yet answered,
\* was admitted under the generation and owner of the policy now in force: a
\* policy change leaves none behind that a later step could send.
AutomationIsCurrent ==
  \A i \in Ids :
    /\ jobs[i] # NoJob /\ ledger[i].status \in Waiting \cup {"dispatched"}
    /\ ledger[i].env.origin = "automatic" /\ ledger[i].env.command = "MOVE"
    => /\ policy # NoPolicy
       /\ ledger[i].env.generation = policy.generation
       /\ ledger[i].env.owner = policy.owner

\* A queued manual STOP is never displaced by movements, by policy changes or by a
\* bridge failure: it stays until it is popped, its time is really over, a newer STOP
\* of its shade is taken into the ledger, or the connection is replaced.
ManualStopKept ==
  [][session' = session =>
       \A i \in Ids : ledger[i].status = "queued" /\ ManualStop(ledger[i].env) =>
         \/ ledger'[i].status \in Waiting
         \/ /\ ledger'[i].status \in {"expired", "absent"}
            /\ ledger[i].env.expires <= utc_highwater' \/ mono >= ledger[i].deadline
         \/ /\ ledger'[i].status = "superseded"
            /\ \E k \in Known(ledger') \ Known(ledger) :
                 /\ ledger'[k].env.command = "STOP"
                 /\ ledger'[k].env.shade = ledger[i].env.shade
         \/ ledger'[i].status = "rejected" /\ connection_generation' # connection_generation]_vars

\* An operator STOP has a waiting slot of its own, "separate from ordinary work" (the
\* comment in submit): it gives way to a newer STOP only if that one waits in its place,
\* however full the queue of ordinary work is.
SupersededByWaitingStop ==
  [][\A i \in Ids :
       /\ ledger[i].status = "queued" /\ ManualStop(ledger[i].env)
       /\ ledger'[i].status = "superseded"
       => \E k \in pending' : /\ ledger'[k].env.command = "STOP"
                              /\ ledger'[k].env.shade = ledger[i].env.shade]_vars

\* An automatic STOP goes out only while the last command dispatched on its shade
\* is the automatic movement of its own owner: it never stops a movement a person
\* or another owner asked for since.
AutomaticStopOwnsMovement ==
  [][\A e \in Envelopes :
       /\ dispatches'[e] # dispatches[e]
       /\ e.origin = "automatic" /\ e.command = "STOP"
       => LET moved == last_on[e.shade] IN
          /\ moved.id = e.owned /\ moved.origin = "automatic" /\ moved.owner = e.owner]_vars

\* A snapshot that another one replaced never takes effect again, also after its
\* generation was forgotten and although the wall clock may roll back.
ReplacedPolicyStaysOut == policy \notin displaced

\* Redelivering the snapshot in force never prolongs it: its monotonic deadline
\* stays within its signed lifetime of the moment it first took effect.
PolicyNotProlonged ==
  policy # NoPolicy =>
    policy_deadline <= first_effective[policy] + (policy.expires - policy.issued)
=============================================================================
