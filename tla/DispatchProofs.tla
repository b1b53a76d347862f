---------------------------- MODULE DispatchProofs ----------------------------
(***************************************************************************)
(* What the two threads around the queue keep, for every set of commands,  *)
(* policies and shades, every limit, every reading of the clocks, every    *)
(* failure of the journal and any number of restarts.                      *)
(*                                                                         *)
(* Every step of Dispatch is for the queue a step of CommandQueue, a write *)
(* of its ledger or a reading of its clock (QueueStep), so that what       *)
(* CommandQueueProofs proves of the queue holds here.  The lemmas of the   *)
(* second part say what each call does to the receipt of a command, in     *)
(* the terms of the promise made to its owner (module Custody).            *)
(***************************************************************************)
EXTENDS Dispatch, CommandQueueProofs

(***************************************************************************)
(* Steps of the queue                                                      *)
(***************************************************************************)
\* _persist writes the ledger, or leaves the file, and touches nothing else.
Written ==
  /\ saved' \in {saved, ledger}
  /\ UNCHANGED <<session, connection_generation, policyVars, queueVars, latest_dispatched,
                 utc_highwater, mono, historyVars>>

Clocked == \E w \in WallReadings : ReadClock(w)

QueueStep == [Next]_vars \/ Written \/ Clocked

LEMMA WrittenKeepsBase == ASSUME Base, Written \/ Clocked PROVE Base'
<1>1. TypeRest
  BY TypeParts
<1>2. UNCHANGED queueVars
  BY DEF Written, Clocked, ReadClock, queueVars
<1>3. Sound
  BY <1>2, LedgerUnchanged
<1>4. CASE Written
  <2>1. LedgerOK(saved')
    BY <1>4 DEF Written, Base, TypeOK, LedgerOK, Known
  <2>2. TypeRest'
    BY <1>1, <1>4, <2>1 DEF Written, TypeRest, policyVars, historyVars
  <2> QED BY <1>3, <2>2, BaseFromParts
<1>5. CASE Clocked
  <2>1. utc_highwater' \in Nat
    BY <1>5, NowFacts DEF Clocked, ReadClock
  <2>2. TypeRest'
    BY <1>1, <1>5, <2>1 DEF Clocked, ReadClock, TypeRest, LedgerOK, Known
  <2> QED BY <1>3, <2>2, BaseFromParts
<1> QED BY <1>4, <1>5

LEMMA QueueBase == Base /\ QueueStep => Base'
BY BaseStep, WrittenKeepsBase DEF QueueStep

LEMMA QueueOnce == OnceInv /\ QueueStep => OnceInv'
<1> SUFFICES ASSUME OnceInv, Written \/ Clocked PROVE OnceInv'
  BY OnceStep DEF QueueStep
<1>1. Base'
  BY WrittenKeepsBase DEF OnceInv
<1>2. ledger' = ledger /\ session' = session /\ dispatches' = dispatches
  BY DEF Written, Clocked, ReadClock, queueVars, historyVars
<1>3. utc_highwater <= utc_highwater'
  <2>1. utc_highwater \in Nat
    BY DEF OnceInv, Base, TypeOK
  <2> QED BY <2>1, NowFacts DEF Written, Clocked, ReadClock, OnceInv
<1>4. \A i \in Ids : Carried(i)
  BY <1>2, TurnsFacts DEF Carried, Known
<1> QED BY <1>1, <1>2, <1>3, <1>4, CarriedKeepsOnce

LEMMA QueueBounded == LedgerInv /\ QueueStep => LedgerInv'
<1> SUFFICES ASSUME LedgerInv, Written \/ Clocked PROVE LedgerInv'
  BY LedgerStep DEF QueueStep
<1>1. Base'
  BY WrittenKeepsBase DEF LedgerInv
<1>2. ledger' = ledger /\ saved' \in {saved, ledger}
  BY DEF Written, Clocked, ReadClock, queueVars
<1>3. Bounded(ledger) /\ Bounded(saved)
  BY DEF LedgerInv
<1>4. Bounded(ledger') /\ Bounded(saved')
  BY <1>2, <1>3
<1> QED BY <1>1, <1>4 DEF LedgerInv

(***************************************************************************)
(* What a call does to a receipt                                           *)
(***************************************************************************)
\* How a status goes on without the dispatching loop's word: work that waits is selected
\* or denied, work that was sent and is unanswered becomes uncertain.
Withdrawn(a, b) ==
  \/ b = a
  \/ a = "queued" /\ b = "selected"
  \/ a \in Waiting /\ b \in Denied
  \/ a \in InFlight /\ b = "uncertain"

\* Receipt i is still there, for the same command.
Same(i) ==
  /\ i \in Known(ledger') <=> i \in Known(ledger)
  /\ i \in Known(ledger) => ledger'[i].env = ledger[i].env

Left(i) == Same(i) /\ Withdrawn(ledger[i].status, ledger'[i].status)

\* Receipt i was evicted; its command was not out.
Forgotten(i) ==
  /\ i \in Known(ledger) /\ ledger[i].status \notin InFlight /\ ledger'[i] = NoEntry

\* Receipt i is that of a command just submitted.
Received(i) ==
  /\ ledger[i] = NoEntry
  /\ \/ ledger'[i] = NoEntry
     \/ ledger'[i].env \in Envelopes /\ ledger'[i].status \in {"queued", "rejected"}

\* Receipt i took status st.
Told(i, st) == Same(i) /\ ledger'[i].status = st

LEMMA UnchangedLeft == ASSUME ledger' = ledger, NEW i \in Ids PROVE Left(i)
BY DEF Left, Same, Withdrawn, Known

LEMMA AbsentFacts ==
  /\ "absent" \notin Waiting \cup InFlight \cup Denied \cup {"uncertain", "queued", "selected"}
  /\ NoEntry.status = "absent"
  /\ Denied \subseteq Outcomes \ Waiting /\ Waiting \cap InFlight = {}
BY DEF NoEntry, Waiting, InFlight, Denied, Outcomes, Final

\* Setting the status of one known entry.
LEMMA SettledTold ==
  ASSUME LedgerOK(ledger), NEW i \in Known(ledger), NEW st \in Outcomes,
         ledger' = Settle(ledger, {i}, st)
  PROVE  Told(i, st) /\ \A k \in Ids \ {i} : ledger'[k] = ledger[k]
<1>1. {i} \subseteq Known(ledger) /\ i \in {i} /\ i \in Ids
  BY DEF Known
<1>2. Known(ledger') = Known(ledger)
  BY <1>1, SettleOK
<1>3. ledger'[i].status = st /\ ledger'[i].env = ledger[i].env
  BY <1>1, SettleIn
<1>4. \A k \in Ids \ {i} : ledger'[k] = ledger[k]
  BY SettleOut
<1> QED BY <1>2, <1>3, <1>4 DEF Told, Same

LEMMA PopLeft ==
  ASSUME Base, Pop, NEW k \in Ids PROVE Left(k)
<1>1. PICK i \in pending : ledger' = Settle(ledger, {i}, "selected")
  BY DEF Pop
<1>2. i \in Known(ledger) /\ ledger[i].status = "queued" /\ LedgerOK(ledger)
  BY EntryFacts DEF Base, Queued, TypeOK, Waiting
<1>3. Told(i, "selected") /\ \A n \in Ids \ {i} : ledger'[n] = ledger[n]
  BY <1>1, <1>2, SettledTold DEF Outcomes, Waiting
<1>4. CASE k = i
  BY <1>2, <1>3, <1>4 DEF Left, Told, Withdrawn
<1>5. CASE k # i
  BY <1>3, <1>5 DEF Left, Same, Withdrawn, Known
<1> QED BY <1>4, <1>5

LEMMA WithdrawLeft ==
  ASSUME LedgerOK(ledger), NEW S, NEW outcome \in Denied,
         ledger' = Withdraw(ledger, S, outcome), NEW i \in Ids
  PROVE  Left(i)
<1>1. ledger[i] = NoEntry \/ ledger[i] \in Entry
  BY DEF LedgerOK
<1>2. Same(i)
  <2>1. LedgerOK(ledger') /\ Follows(ledger, ledger')
    BY WithdrawFollows, AbsentFacts
  <2> QED BY <2>1 DEF Follows, Kept, Same
<1>3. \/ ledger'[i] = ledger[i]
      \/ ledger'[i] = [ledger[i] EXCEPT !.status = outcome] /\ ledger[i].status \in Waiting
      \/ ledger'[i] = [ledger[i] EXCEPT !.status = "uncertain"] /\ ledger[i].status \in InFlight
  BY DEF Withdraw
<1>4. CASE ledger[i] = NoEntry
  <2>1. ledger'[i] = ledger[i]
    BY <1>3, <1>4, AbsentFacts
  <2> QED BY <1>2, <2>1 DEF Left, Withdrawn
<1>5. CASE ledger[i] \in Entry
  <2>1. \/ ledger'[i].status = ledger[i].status
        \/ ledger'[i].status = outcome /\ ledger[i].status \in Waiting
        \/ ledger'[i].status = "uncertain" /\ ledger[i].status \in InFlight
    BY <1>3, <1>5 DEF Entry
  <2> QED BY <1>2, <2>1 DEF Left, Withdrawn
<1> QED BY <1>1, <1>4, <1>5

LEMMA InvalidateLeft ==
  ASSUME Base, NEW a, NEW s, Invalidate(a, s), NEW i \in Ids PROVE Left(i)
<1>1. LedgerOK(ledger) /\ "rejected" \in Denied
  BY DEF Base, TypeOK, Denied
<1> QED BY <1>1, WithdrawLeft DEF Invalidate

LEMMA UpdatePolicyLeft ==
  ASSUME Base, NEW p, NEW w, NEW m, UpdatePolicy(p, w, m), NEW i \in Ids PROVE Left(i)
<1>1. LedgerOK(ledger) /\ "superseded" \in Denied
  BY DEF Base, TypeOK, Denied
<1>2. CASE ledger' = ledger
  BY <1>2, UnchangedLeft
<1>3. ASSUME NEW g, Adopt(p, g, Now(w), m) PROVE Left(i)
  BY <1>1, <1>3, WithdrawLeft DEF Adopt
<1> QED BY <1>2, <1>3 DEF UpdatePolicy

\* mark_dispatched denies the job it was called with, or commits to send it.
LEMMA MarkDispatchedTold ==
  ASSUME Base, NEW i \in Ids, NEW w \in WallReadings, MarkDispatched(i, w)
  PROVE  /\ \A k \in Ids \ {i} : ledger'[k] = ledger[k]
         /\ \/ Left(i) /\ dispatches' = dispatches
            \/ /\ ledger[i].status \in Waiting /\ Told(i, "dispatched")
               /\ dispatches' = [dispatches EXCEPT ![ledger[i].env] = @ + 1]
<1>1. i \in Known(ledger) /\ LedgerOK(ledger)
  BY MarkDispatchedFacts DEF Base, TypeOK
<1>2. /\ {"rejected", "expired"} \subseteq Outcomes \cap Denied /\ "dispatched" \in Outcomes
  BY DEF Outcomes, Final, InFlight, Denied
<1>3. \/ ledger' = ledger /\ dispatches' = dispatches
      \/ /\ ledger[i].status \in Waiting /\ dispatches' = dispatches
         /\ \E st \in {"rejected", "expired"} : ledger' = Settle(ledger, {i}, st)
      \/ /\ ledger[i].status \in Waiting /\ ledger' = Settle(ledger, {i}, "dispatched")
         /\ dispatches' = [dispatches EXCEPT ![ledger[i].env] = @ + 1]
  BY DEF MarkDispatched, Verdict, historyVars
<1>4. CASE ledger' = ledger /\ dispatches' = dispatches
  BY <1>4, UnchangedLeft
<1>5. ASSUME ledger[i].status \in Waiting, dispatches' = dispatches,
             NEW st \in {"rejected", "expired"}, ledger' = Settle(ledger, {i}, st)
      PROVE  /\ \A k \in Ids \ {i} : ledger'[k] = ledger[k]
             /\ Left(i) /\ dispatches' = dispatches
  <2>1. Told(i, st) /\ \A k \in Ids \ {i} : ledger'[k] = ledger[k]
    BY <1>1, <1>2, <1>5, SettledTold
  <2> QED BY <1>2, <1>5, <2>1 DEF Told, Left, Withdrawn
<1>6. CASE /\ ledger[i].status \in Waiting /\ ledger' = Settle(ledger, {i}, "dispatched")
           /\ dispatches' = [dispatches EXCEPT ![ledger[i].env] = @ + 1]
  BY <1>1, <1>2, <1>6, SettledTold
<1> QED BY <1>3, <1>4, <1>5, <1>6

LEMMA RecordResultTold ==
  ASSUME Base, NEW i \in Ids, NEW st \in Outcomes, NEW w, RecordResult(i, st, w)
  PROVE  /\ \A k \in Ids \ {i} : ledger'[k] = ledger[k]
         /\ ledger'[i] = ledger[i] \/ Told(i, st)
         /\ i \in Known(ledger)
<1>1. i \in Known(ledger) /\ LedgerOK(ledger)
  BY DEF RecordResult, Popped, Base, TypeOK, JobsOK
<1>2. ledger' = ledger \/ ledger' = Settle(ledger, {i}, st)
  BY DEF RecordResult
<1> QED BY <1>1, <1>2, SettledTold

\* Pruning only lets waiting work expire.
LEMMA PruneLeft ==
  ASSUME LedgerOK(ledger), NEW now, NEW m, NEW i \in Ids
  PROVE  LET p == Prune(ledger, now, m) IN
         /\ i \in Known(p) <=> i \in Known(ledger)
         /\ i \in Known(ledger) => p[i].env = ledger[i].env
         /\ \/ p[i] = ledger[i]
            \/ ledger[i].status \in Waiting /\ p[i].status = "expired"
<1> DEFINE p == Prune(ledger, now, m)
           S == Lapsed(ledger, now, m)
<1>1. S \subseteq Known(ledger) /\ "expired" \in Outcomes
  BY EntryFacts DEF Lapsed, Outcomes, Final
<1>2. Known(p) = Known(ledger)
  BY <1>1, SettleOK DEF Prune
<1>3. CASE i \in S
  <2>1. p[i].status = "expired" /\ p[i].env = ledger[i].env
    BY <1>1, <1>3, SettleIn DEF Prune
  <2>2. ledger[i].status \in Waiting
    BY <1>3 DEF Lapsed
  <2> QED BY <1>2, <2>1, <2>2
<1>4. CASE i \notin S
  <2>1. p[i] = ledger[i]
    BY <1>4, SettleOut DEF Prune
  <2> QED BY <1>2, <2>1
<1> QED BY <1>3, <1>4

\* A job is given to the command submitted, for the present connection, and else only lost.
JobLeft(i) ==
  \/ jobs'[i] \in {NoJob, jobs[i]}
  \/ ledger[i] = NoEntry /\ jobs'[i] = connection_generation

LEMMA StoreLeft ==
  ASSUME Base, NEW e \in Envelopes, NEW now \in Nat, NEW m \in Nat, ledger[e.id] = NoEntry,
         NEW V, V \subseteq Evictable(Prune(ledger, now, m), now, m),
         NEW class \in {"normal", "manual_stop_reserve"}, NEW ok,
         Store(Evict(Prune(ledger, now, m), V), EvictJobs(V), e, class, ok, now, m),
         NEW i \in Ids
  PROVE  (Left(i) \/ (i \in V /\ Forgotten(i)) \/ Received(i)) /\ JobLeft(i)
<1> DEFINE p == Prune(ledger, now, m)
           l == Evict(p, V)
<1>1. LedgerOK(ledger) /\ JobsOK(jobs, ledger) /\ LedgerOK(p) /\ JobsOK(jobs, p) /\ e.id \in Ids
  BY PruneFollows, JobsFollow, EnvelopeFacts DEF Base, TypeOK
<1>2. /\ LedgerOK(l) /\ \A k \in Ids : l[k] = IF k \in V THEN NoEntry ELSE p[k]
  BY <1>1, EvictFacts
<1>3. /\ i \in Known(p) <=> i \in Known(ledger)
      /\ i \in Known(ledger) => p[i].env = ledger[i].env
      /\ p[i] = ledger[i] \/ (ledger[i].status \in Waiting /\ p[i].status = "expired")
  BY <1>1, PruneLeft
<1>4. i \in V => i \in Known(p) /\ p[i].status \notin Waiting \cup InFlight
  BY DEF Evictable
<1>5. /\ KeptOrGoneBeside(e, now) /\ Stored(e, ok) /\ KeptBeside(l, e)
  BY EvictedStore
<1>6. JobLeft(i)
  <2>1. EvictJobs(V)[i] \in {NoJob, jobs[i]} /\ EvictJobs(V) = [k \in Ids |-> EvictJobs(V)[k]]
    BY DEF EvictJobs
  <2>2. \/ jobs' = EvictJobs(V)
        \/ jobs' = [EvictJobs(V) EXCEPT ![e.id] = connection_generation]
    BY DEF Store
  <2> HIDE DEF p, l
  <2> QED BY <2>1, <2>2 DEF JobLeft
<1>7. Store(l, EvictJobs(V), e, class, ok, now, m)
  OBVIOUS
<1> HIDE DEF p, l
<1>8. CASE i = e.id
  <2>1. ledger'[i].env \in Envelopes /\ ledger'[i].status \in {"queued", "rejected"}
    BY <1>5, <1>8 DEF Stored
  <2> QED BY <1>6, <1>8, <2>1 DEF Received
<1>9. CASE i # e.id
  <2>1. ledger'[i] = l[i] \/ (i \in Coalesced(l, EvictJobs(V), e) /\ ledger'[i].status = "superseded")
    BY <1>1, <1>2, <1>7, <1>9, StoredBeside
  <2>2. /\ i \in Known(ledger') <=> i \in Known(l)
        /\ i \in Known(l) => ledger'[i].env = l[i].env
    BY <1>5, <1>9 DEF KeptBeside, Kept
  <2>3. CASE i \in V
    <3>1. l[i] = NoEntry
      BY <1>2, <2>3
    <3>2. ledger'[i] = NoEntry
      BY <2>2, <3>1 DEF Known
    <3>3. ledger[i].status \notin InFlight
      BY <1>3, <1>4, <2>3, AbsentFacts
    <3> QED BY <1>3, <1>4, <1>6, <2>3, <3>2, <3>3 DEF Forgotten
  <2>4. CASE i \notin V
    <3>1. l[i] = p[i]
      BY <1>2, <2>4
    <3>2. Same(i)
      BY <1>3, <2>2, <3>1 DEF Same, Known
    <3>3. CASE ledger'[i] = l[i]
      BY <1>3, <1>6, <3>1, <3>2, <3>3 DEF Left, Withdrawn, Denied
    <3>4. CASE i \in Coalesced(l, EvictJobs(V), e) /\ ledger'[i].status = "superseded"
      <4>1. p[i].status \in Waiting
        BY <3>1, <3>4 DEF Coalesced
      <4>2. ledger[i].status \in Waiting
        BY <1>3, <4>1
      <4> QED BY <1>6, <3>2, <3>4, <4>2 DEF Left, Withdrawn, Denied
    <3> QED BY <2>1, <3>3, <3>4
  <2> QED BY <2>3, <2>4
<1> QED BY <1>8, <1>9

\* A ledger with a place for every identity forgets none.
RoomForAll == IsFiniteSet(Ids) /\ Cardinality(Ids) <= LedgerLimit

LEMMA SubmitLeft ==
  ASSUME Base, NEW e \in Envelopes, NEW w \in WallReadings, NEW m \in MonoSamples,
         Submit(e, w, m), NEW i \in Ids
  PROVE  (Left(i) \/ (Forgotten(i) /\ ~RoomForAll) \/ Received(i)) /\ JobLeft(i)
<1> DEFINE now == Now(w)
           p == Prune(ledger, now, m)
           ok == Admissible(p, e, now, m)
<1>1. now \in Nat /\ m \in Nat /\ e.id \in Ids /\ LedgerOK(ledger)
  BY NowFacts, SampleFacts, EnvelopeFacts DEF Base, TypeOK
<1>2. CASE UNCHANGED queueVars
  BY <1>2, UnchangedLeft DEF JobLeft, queueVars
<1>3. CASE ledger[e.id] = NoEntry /\ SubmitNew(e, now, m)
  <2>1. \/ TurnAway(p)
        \/ \E V \in SUBSET Evictable(p, now, m), class \in {"normal", "manual_stop_reserve"} :
             Store(Evict(p, V), EvictJobs(V), e, class, ok, now, m)
    <3> HIDE DEF ok, now
    <3> QED BY <1>3, SubmitNewCases DEF ok
  <2>2. CASE TurnAway(p)
    <3>1. ledger' = p /\ jobs' = jobs
      BY <2>2 DEF TurnAway
    <3>2. /\ i \in Known(p) <=> i \in Known(ledger)
          /\ i \in Known(ledger) => p[i].env = ledger[i].env
          /\ p[i] = ledger[i] \/ (ledger[i].status \in Waiting /\ p[i].status = "expired")
      BY <1>1, PruneLeft
    <3> HIDE DEF p, ok, now
    <3> QED BY <3>1, <3>2 DEF Left, Same, Withdrawn, Denied, JobLeft
  <2>3. ASSUME NEW V \in SUBSET Evictable(p, now, m),
               NEW class \in {"normal", "manual_stop_reserve"},
               Store(Evict(p, V), EvictJobs(V), e, class, ok, now, m)
        PROVE  (Left(i) \/ Forgotten(i) \/ Received(i)) /\ JobLeft(i)
    <3>1. V \subseteq Evictable(p, now, m)
      OBVIOUS
    <3> HIDE DEF now, ok
    <3> QED BY <1>1, <1>3, <2>3, <3>1, StoreLeft
  <2>4. ASSUME RoomForAll PROVE (Left(i) \/ Received(i)) /\ JobLeft(i)
    <3>1. ~Full(p)
      <4>1. LedgerOK(p) /\ Known(p) = Known(ledger)
        BY <1>1, PruneFollows DEF Follows, Kept, Known
      <4>2. Normal(p) \subseteq Ids \ {e.id}
        BY <1>3, <4>1 DEF Normal, Known
      <4> HIDE DEF p, now
      <4>3. IsFiniteSet(Ids) /\ Cardinality(Ids) \in Nat /\ Cardinality(Ids) <= LedgerLimit
        BY <2>4, FS_CardinalityType DEF RoomForAll
      <4>4. IsFiniteSet(Ids \ {e.id}) /\ Cardinality(Ids \ {e.id}) = Cardinality(Ids) - 1
        BY <1>1, <4>3, FS_RemoveElement
      <4>5. IsFiniteSet(Normal(p)) /\ Cardinality(Normal(p)) <= Cardinality(Ids \ {e.id})
        BY <4>2, <4>4, FS_Subset
      <4>6. Cardinality(Normal(p)) \in Nat /\ LedgerLimit \in Nat
        BY <4>5, FS_CardinalityType, QueueAssumption
      <4> QED BY <4>3, <4>4, <4>5, <4>6 DEF Full
    <3>2. Store(p, jobs, e, "normal", ok, now, m)
      BY <1>3, <3>1 DEF SubmitNew
    <3>3. Evict(p, {}) = p /\ EvictJobs({}) = jobs
      <4>1. LedgerOK(p) /\ jobs \in [Ids -> Nat \cup {NoJob}]
        BY <1>1, PruneFollows DEF Base, TypeOK, JobsOK
      <4> QED BY <4>1 DEF Evict, EvictJobs, LedgerOK
    <3>4. Store(Evict(p, {}), EvictJobs({}), e, "normal", ok, now, m)
      BY <3>2, <3>3, Zenon
    <3>5. {} \subseteq Evictable(p, now, m) /\ "normal" \in {"normal", "manual_stop_reserve"}
      OBVIOUS
    <3> HIDE DEF now, ok
    <3>6. (Left(i) \/ (i \in {} /\ Forgotten(i)) \/ Received(i)) /\ JobLeft(i)
      BY <1>1, <1>3, <3>4, <3>5, StoreLeft
    <3> QED BY <3>6
  <2> QED BY <2>1, <2>2, <2>3, <2>4
<1> QED BY <1>2, <1>3 DEF Submit

\* A job that may still be sent or answered was accepted on the present connection.
JobsCurrent ==
  \A i \in Ids : jobs[i] # NoJob /\ ledger[i].status \in Waiting \cup {"dispatched"}
                   => jobs[i] = connection_generation

LEMMA LeftCurrent ==
  ASSUME JobsCurrent, NEW i \in Ids, Left(i), jobs' = jobs,
         connection_generation' = connection_generation,
         jobs'[i] # NoJob, ledger'[i].status \in Waiting \cup {"dispatched"}
  PROVE  jobs'[i] = connection_generation'
<1>1. ledger[i].status \in Waiting \cup {"dispatched"}
  BY DEF Left, Withdrawn, Waiting, Denied, InFlight
<1> QED BY <1>1 DEF JobsCurrent

LEMMA QueueJobs == Base /\ JobsCurrent /\ QueueStep => JobsCurrent'
<1> SUFFICES ASSUME Base, JobsCurrent, QueueStep, NEW i \in Ids,
                    jobs'[i] # NoJob, ledger'[i].status \in Waiting \cup {"dispatched"}
             PROVE  jobs'[i] = connection_generation'
  BY DEF JobsCurrent
<1> DEFINE Goal == jobs'[i] = connection_generation'
<1>1. ASSUME NEW e \in Envelopes, NEW w \in WallReadings, NEW m \in MonoSamples, Submit(e, w, m)
      PROVE  Goal
  <2>1. (Left(i) \/ Forgotten(i) \/ Received(i)) /\ JobLeft(i)
    BY <1>1, SubmitLeft
  <2>2. connection_generation' = connection_generation
    BY <1>1 DEF Submit
  <2>3. CASE ledger[i] = NoEntry /\ jobs'[i] = connection_generation
    BY <2>2, <2>3
  <2>4. CASE jobs'[i] = jobs[i] /\ i \in Known(ledger)
    <3>1. Left(i)
      BY <2>1, <2>4, AbsentFacts DEF Forgotten, Received, Known
    <3>2. ledger[i].status \in Waiting \cup {"dispatched"}
      BY <3>1 DEF Left, Withdrawn, Waiting, Denied, InFlight
    <3> QED BY <2>2, <2>4, <3>2 DEF JobsCurrent
  <2>5. i \notin Known(ledger) => jobs[i] = NoJob
    BY DEF Base, TypeOK, JobsOK
  <2> QED BY <2>1, <2>3, <2>4, <2>5 DEF JobLeft
<1>2. CASE Pop
  BY <1>2, PopLeft, LeftCurrent DEF Pop
<1>3. ASSUME NEW k \in Ids, NEW w \in WallReadings, MarkDispatched(k, w) PROVE Goal
  <2>1. jobs' = jobs /\ connection_generation' = connection_generation
    BY <1>3 DEF MarkDispatched
  <2>2. CASE Left(i)
    BY <2>1, <2>2, LeftCurrent
  <2>3. CASE i = k /\ ledger[i].status \in Waiting
    BY <2>1, <2>3 DEF JobsCurrent
  <2>4. CASE ledger'[i] = ledger[i]
    BY <2>1, <2>4 DEF JobsCurrent
  <2> QED BY <1>3, <2>2, <2>3, <2>4, MarkDispatchedTold
<1>4. ASSUME NEW k \in Ids, NEW st \in Recorded, NEW w \in WallReadings, RecordResult(k, st, w)
      PROVE  Goal
  <2>1. jobs' = jobs /\ connection_generation' = connection_generation
    BY <1>4 DEF RecordResult
  <2>2. st \in Outcomes /\ st \notin Waiting \cup {"dispatched"}
    BY QueueAssumption
  <2>3. ledger'[i] = ledger[i]
    BY <1>4, <2>2, RecordResultTold DEF Told
  <2> QED BY <2>1, <2>3 DEF JobsCurrent
<1>5. ASSUME NEW a \in BOOLEAN, NEW s \in BOOLEAN, Invalidate(a, s) PROVE Goal
  <2>1. jobs' = jobs /\ Left(i)
    BY <1>5, InvalidateLeft DEF Invalidate
  <2>2. CASE a \/ s
    BY <1>5, <2>1, <2>2, LeftCurrent DEF Invalidate
  <2>3. CASE ~a /\ ~s
    <3>1. ledger' = Withdraw(ledger, Affected(a, s), "rejected") /\ i \in Affected(a, s)
      BY <1>5, <2>1, <2>3 DEF Invalidate, Affected
    <3>2. ledger[i] \in Entry
      BY <2>1, EntryFacts DEF Base, TypeOK, JobsOK
    <3>3. ledger'[i].status \notin Waiting \cup {"dispatched"}
      BY <3>1, <3>2 DEF Withdraw, Entry, Waiting, InFlight
    <3> QED BY <3>3
  <2> QED BY <2>2, <2>3
<1>6. ASSUME NEW p \in Policies, NEW w \in WallReadings, NEW m \in MonoSamples,
             UpdatePolicy(p, w, m)
      PROVE  Goal
  BY <1>6, UpdatePolicyLeft, LeftCurrent DEF UpdatePolicy
<1>7. CASE UNCHANGED <<ledger, jobs, connection_generation>>
  BY <1>7 DEF JobsCurrent
<1>8. CASE Restart
  BY <1>8, RestartFacts
<1>9. CASE Export \/ Tick \/ Written \/ Clocked \/ UNCHANGED vars
  BY <1>7, <1>9 DEF Export, Tick, Written, Clocked, ReadClock, vars, queueVars
<1> QED BY <1>1, <1>2, <1>3, <1>4, <1>5, <1>6, <1>8, <1>9 DEF QueueStep, Next

\* What the queue keeps through the steps of the service.
QueueInv == OnceInv /\ LedgerInv /\ JobsCurrent

LEMMA QueueKept == QueueInv /\ QueueStep => QueueInv'
BY QueueOnce, QueueBounded, QueueJobs DEF QueueInv, OnceInv

LEMMA QueueInit == Init => QueueInv
<1> SUFFICES ASSUME Init PROVE QueueInv
  OBVIOUS
<1>1. OnceInv /\ Base
  BY OnceInit, BaseInit
<1>2. Bounded(ledger) /\ Bounded(saved)
  BY EmptyBounded DEF Init
<1>3. JobsCurrent
  BY DEF Init, JobsCurrent
<1> QED BY <1>1, <1>2, <1>3 DEF QueueInv, LedgerInv

(***************************************************************************)
(* Types and the lock                                                      *)
(***************************************************************************)
\* Where the loop has a job in its hands.
Working == {"popped", "refusing", "asking", "denied", "recording", "unrecorded", "rechecking",
            "sending", "waiting", "answered", "failed", "withdrawing"}

JobKnown == pc \in Working => job \in Envelopes

TypeInv == QueueInv /\ ServiceTypeOK /\ JobKnown

LEMMA JobFacts ==
  /\ NobodysJob \notin Envelopes
  /\ \A e \in Envelopes : e.id \in Ids /\ e.id # NoId
  /\ {"rejected", "uncertain", "acknowledged", "target_observed"}
       \subseteq Recorded \cap (Outcomes \ Waiting)
<1>1. \A e \in Envelopes : e.id \in Ids
  BY EnvelopeFacts
<1>2. NoId \notin Ids /\ NobodysJob.id = NoId
  BY QueueAssumption DEF NobodysJob
<1>3. {"rejected", "uncertain", "acknowledged", "target_observed"} \subseteq Recorded
  BY DispatchAssumption
<1>4. {"rejected", "uncertain", "acknowledged", "target_observed"} \subseteq Outcomes \ Waiting
  BY DEF Outcomes, Final, Waiting, InFlight
<1> QED BY <1>1, <1>2, <1>3, <1>4

\* Outcome st is recorded for job e, which the ledger still has.
Records(e, st) ==
  /\ e \in Envelopes /\ Recordable(e, st)
  /\ \E w \in WallReadings : RecordResult(e.id, st, w)

Someone == Envelopes \cup {NobodysJob}

LEMMA RecordCases ==
  ASSUME NEW e \in Someone, NEW st
  PROVE  /\ Record(e, st) => UNCHANGED commands \/ Records(e, st)
         /\ RecordActive(e, st) =>
              UNCHANGED commands \/ (Records(e, st) /\ ledger[e.id].status \notin Waiting)
         /\ \A w \in WallReadings : Relieve(e, w) =>
              ReadClock(w) \/ (Records(e, "uncertain") /\ ledger[e.id].status \notin Waiting)
BY DEF Record, RecordActive, Relieve, Records, Recordable, Owns, Someone

LEMMA RecordsStep ==
  ASSUME NEW e, NEW st \in {"rejected", "uncertain", "acknowledged", "target_observed"},
         Records(e, st)
  PROVE  Next
BY JobFacts DEF Records, Next

LEMMA PersistStep == ASSUME NEW healthy, Persist(healthy) PROVE Written
BY DEF Persist, Written, policyVars, queueVars, historyVars

LEMMA InvalidateStep == ASSUME NEW a \in BOOLEAN, NEW s \in BOOLEAN, Invalidate(a, s) PROVE Next
BY DEF Next

\* A new process either restores the ledger it finds, or has none and no journal either.
LEMMA RestartFinds ==
  ASSUME ServiceRestart
  PROVE  /\ Restart /\ UNCHANGED <<sent, newest>> /\ session' = session + 1 /\ saved' = saved
         /\ informed' \in BOOLEAN /\ journal_ok' \in BOOLEAN
         /\ informed' => Start(TRUE)
         /\ ~informed' => ~journal_ok' /\ ledger' = EmptyLedger
<1>1. PICK read \in BOOLEAN : Start(read) /\ informed' = (read /\ Importable(saved))
  BY DEF ServiceRestart
<1>2. informed' \in BOOLEAN /\ (informed' => read)
  BY <1>1 DEF Importable
<1>3. journal_ok' \in BOOLEAN /\ (~informed' => ~journal_ok')
  <2>1. journal_ok' = informed' \/ journal_ok' = FALSE
    BY DEF ServiceRestart
  <2>2. CASE journal_ok' = informed'
    BY <1>2, <2>2, Zenon
  <2> QED BY <2>1, <2>2, Zenon
<1>4. ~informed' => ledger' = EmptyLedger
  BY <1>1 DEF Start
<1>5. informed' => Start(TRUE)
  BY <1>1, <1>2
<1>6. Restart /\ session' = session + 1 /\ saved' = saved
  BY <1>1 DEF Restart, Start
<1> QED BY <1>2, <1>3, <1>4, <1>5, <1>6 DEF ServiceRestart

\* For the queue every step of the service is one of its own, a write or a clock reading.
LEMMA ServiceQueueStep ==
  ASSUME ServiceTypeOK, JobKnown, [ServiceNext]_serviceVars
  PROVE  QueueStep
<1> DEFINE Quietly == UNCHANGED commands
<1>0. Quietly => QueueStep
  BY DEF QueueStep, commands
<1>1. job \in Someone /\ \A s \in Shades : active[s].env \in Someone
  BY DEF ServiceTypeOK, Someone
<1>2. CASE ClearReset \/ Discover \/ BridgeSilent \/ Choose \/ PopNone \/ NotAsked \/ Send
           \/ SendFailed \/ Acknowledged \/ NotAcknowledged \/ ConnectionRefused
  BY <1>0, <1>2 DEF ClearReset, Discover, BridgeSilent, Choose, PopNone, NotAsked, Send,
       SendFailed, Acknowledged, NotAcknowledged, ConnectionRefused, serviceVars
<1>3. CASE CallbackPersists \/ LoopPersists \/ Finish \/ RecordDispatch
  BY <1>3, PersistStep DEF CallbackPersists, LoopPersists, Finish, RecordDispatch, QueueStep
<1>4. CASE OnConnect \/ OnDisconnect \/ DiscoveryFailed \/ TokenRotated \/ WithdrawAfterError
  BY <1>4, InvalidateStep DEF OnConnect, OnDisconnect, DiscoveryFailed, TokenRotated,
       WithdrawAfterError, QueueStep
<1>5. ASSUME NEW changed \in BOOLEAN, Discovered(changed) PROVE QueueStep
  BY <1>0, <1>5, InvalidateStep DEF Discovered, QueueStep
<1>6. CASE PopCommand
  BY <1>6 DEF PopCommand, QueueStep, Next
<1>7. CASE Refuse \/ Deny \/ Unrecorded \/ TakeAnswer \/ Fail
  <2>1. PICK st \in {"rejected", "uncertain", "acknowledged", "target_observed"} : Record(job, st)
    BY <1>7 DEF Refuse, Deny, Unrecorded, TakeAnswer, RecordAnswer, Fail, FailureOutcome
  <2> QED BY <1>0, <1>1, <2>1, RecordCases, RecordsStep DEF QueueStep
<1>8. ASSUME NEW qualified \in BOOLEAN, Execute(qualified) PROVE QueueStep
  BY <1>0, <1>8 DEF Execute
<1>9. ASSUME NEW qualified \in BOOLEAN, Admit(qualified) PROVE QueueStep
  <2>1. job.id \in Ids
    BY <1>9, JobFacts DEF Admit, JobKnown, Working
  <2> QED BY <1>0, <1>9, <2>1 DEF Admit, QueueStep, Next
<1>10. ASSUME NEW qualified \in BOOLEAN, Recheck(qualified) PROVE QueueStep
  <2>1. PICK w \in WallReadings :
          \/ job.shade \in Shades /\ Relieve(active[job.shade].env, w)
          \/ ReadClock(w)
    BY <1>10 DEF Recheck, Gate
  <2>2. CASE ReadClock(w)
    BY <2>2 DEF Clocked, QueueStep
  <2>3. CASE job.shade \in Shades /\ Relieve(active[job.shade].env, w)
    BY <1>1, <2>2, <2>3, RecordCases, RecordsStep DEF QueueStep
  <2> QED BY <2>1, <2>2, <2>3
<1>11. ASSUME NEW s \in Shades, TargetObserved(s) \/ EvidenceLapsed(s) PROVE QueueStep
  <2>1. PICK st \in {"rejected", "uncertain", "acknowledged", "target_observed"} :
          RecordActive(active[s].env, st)
    BY <1>11 DEF TargetObserved, EvidenceLapsed
  <2> QED BY <1>0, <1>1, <2>1, RecordCases, RecordsStep DEF QueueStep
<1>12. ASSUME NEW e \in Envelopes, Deliver(e) PROVE QueueStep
  BY <1>12 DEF Deliver, QueueStep, Next
<1>13. ASSUME NEW p \in Policies, DeliverPolicy(p) PROVE QueueStep
  BY <1>13 DEF DeliverPolicy, QueueStep, Next
<1>14. CASE ServiceTick \/ ServiceRestart
  BY <1>14, RestartFinds DEF ServiceTick, QueueStep, Next
<1>15. CASE UNCHANGED serviceVars
  BY <1>0, <1>15 DEF serviceVars
<1> QED BY <1>2, <1>3, <1>4, <1>5, <1>6, <1>7, <1>8, <1>9, <1>10, <1>11, <1>12, <1>13, <1>14,
           <1>15 DEF ServiceNext, LoopStep, Callback

\* The loop's place and the lock: the handlers' steps follow each other under it.
LockOK ==
  /\ lock \in {Loop, Network, Nobody}
  /\ pc \in Locked \cup Unlocked /\ (pc \in Locked <=> lock = Loop)

LEMMA LockStep ==
  ASSUME LockOK, [ServiceNext]_serviceVars
  PROVE  LockOK'
<1> USE DispatchAssumption DEF LockOK, Locked, Unlocked
<1>1. CASE ClearReset \/ BridgeSilent \/ ConnectionRefused \/ ServiceTick
  BY <1>1 DEF ClearReset, BridgeSilent, ConnectionRefused, ServiceTick, serviceVars, execVars
<1>2. CASE Discover \/ Choose \/ PopNone \/ PopCommand \/ NotAsked \/ Acknowledged \/ NotAcknowledged
  BY <1>2 DEF Discover, Choose, PopNone, PopCommand, NotAsked, Acknowledged, NotAcknowledged,
              Goto, Done, Use, Available
<1>3. CASE \/ Send \/ SendFailed \/ Deny \/ RecordDispatch \/ Unrecorded \/ WithdrawAfterError
           \/ LoopPersists
  BY <1>3 DEF Send, SendFailed, Deny, RecordDispatch, Unrecorded, WithdrawAfterError,
              LoopPersists, Goto, Done, Onward
<1>4. CASE Refuse \/ TakeAnswer \/ Fail \/ Finish \/ DiscoveryFailed \/ TokenRotated
  BY <1>4 DEF Refuse, TakeAnswer, Fail, Finish, DiscoveryFailed, TokenRotated, Goto, Done, Use,
              Take, Available
<1>5. CASE OnConnect \/ OnDisconnect \/ CallbackPersists
  BY <1>5 DEF OnConnect, OnDisconnect, CallbackPersists, Take, Available, execVars
<1>7. ASSUME NEW changed \in BOOLEAN, Discovered(changed) PROVE LockOK'
  BY <1>7 DEF Discovered, Take, Available
<1>8. ASSUME NEW q \in BOOLEAN, Execute(q) PROVE LockOK'
  BY <1>8 DEF Execute
<1>9. ASSUME NEW q \in BOOLEAN, Admit(q) PROVE LockOK'
  BY <1>9 DEF Admit, Take, Available, Goto
<1>10. ASSUME NEW q \in BOOLEAN, Recheck(q) PROVE LockOK'
  BY <1>10 DEF Recheck, Goto
<1>11. ASSUME NEW s \in Shades, TargetObserved(s) \/ EvidenceLapsed(s) PROVE LockOK'
  BY <1>11 DEF TargetObserved, EvidenceLapsed, Take, Use, Available, Goto
<1>12. CASE ServiceRestart \/ UNCHANGED serviceVars
  BY <1>12 DEF ServiceRestart, Idle, serviceVars, execVars
<1>13. ASSUME NEW e \in Envelopes, Deliver(e) PROVE LockOK'
  BY <1>13 DEF Deliver, Take, Available, execVars
<1>14. ASSUME NEW p \in Policies, DeliverPolicy(p) PROVE LockOK'
  BY <1>14 DEF DeliverPolicy, Take, Available, execVars
<1> QED BY <1>1, <1>2, <1>3, <1>4, <1>5, <1>7, <1>8, <1>9, <1>10, <1>11, <1>12, <1>13, <1>14
       DEF ServiceNext, LoopStep, Callback

\* The rest of the types.
LinkTypes ==
  /\ connected \in BOOLEAN /\ ready \in BOOLEAN /\ reset \in BOOLEAN /\ bound \in BOOLEAN
  /\ generation \in Nat /\ source_generation \in Nat /\ journal_ok \in BOOLEAN

ExecTypes ==
  /\ job \in Someone /\ seen \in Nat \X Nat /\ dispatched \in BOOLEAN /\ JobKnown

FollowTypes ==
  /\ active \in [Shades -> [env : Someone, until : Nat]]
  /\ sent \in [Envelopes -> Nat] /\ newest \in [Shades -> Someone]
  /\ informed \in BOOLEAN

LEMMA LinkStep ==
  ASSUME LinkTypes, QueueInv, [ServiceNext]_serviceVars
  PROVE  LinkTypes'
<1> USE DEF LinkTypes, linkVars
<1>1. CASE ClearReset \/ BridgeSilent \/ ConnectionRefused \/ ServiceTick
  BY <1>1 DEF ClearReset, BridgeSilent, ConnectionRefused, ServiceTick, serviceVars
<1>2. CASE Discover \/ Choose \/ PopNone \/ PopCommand \/ NotAsked \/ Acknowledged \/ NotAcknowledged
  BY <1>2 DEF Discover, Choose, PopNone, PopCommand, NotAsked, Acknowledged, NotAcknowledged
<1>3. CASE Send \/ SendFailed \/ Deny \/ Unrecorded \/ WithdrawAfterError
  BY <1>3 DEF Send, SendFailed, Deny, Unrecorded, WithdrawAfterError
<1>4. CASE LoopPersists \/ Finish \/ RecordDispatch \/ CallbackPersists
  BY <1>4 DEF LoopPersists, Finish, RecordDispatch, CallbackPersists, Persist
<1>5. CASE Refuse \/ TakeAnswer \/ Fail \/ DiscoveryFailed
  BY <1>5 DEF Refuse, TakeAnswer, Fail, DiscoveryFailed
<1>6. CASE OnConnect \/ OnDisconnect
  <2>0. generation' = generation + 1 /\ generation \in Nat
    BY <1>6, Zenon DEF OnConnect, OnDisconnect
  <2>1. generation' \in Nat
    BY <2>0
  <2>2. CASE OnConnect
    BY <2>1, <2>2, Zenon DEF OnConnect
  <2>3. CASE OnDisconnect
    BY <2>1, <2>3, Zenon DEF OnDisconnect
  <2> QED BY <1>6, <2>2, <2>3
<1>7. ASSUME NEW changed \in BOOLEAN, Discovered(changed) PROVE LinkTypes'
  <2>1. ready' = TRUE /\ UNCHANGED <<connected, reset, generation, journal_ok>>
    BY <1>7, Zenon DEF Discovered
  <2>2. bound' \in BOOLEAN /\ source_generation' \in {source_generation, source_generation + 1}
    BY <1>7, Zenon DEF Discovered
  <2>3. source_generation' \in Nat
    BY <2>2
  <2> QED BY <2>1, <2>2, <2>3, Zenon
<1>14. CASE TokenRotated
  <2>1. source_generation' \in Nat
    BY <1>14 DEF TokenRotated
  <2> QED BY <1>14, <2>1, Zenon DEF TokenRotated
<1>8. ASSUME NEW q \in BOOLEAN, Execute(q) \/ Admit(q) \/ Recheck(q) PROVE LinkTypes'
  BY <1>8 DEF Execute, Admit, Recheck
<1>9. ASSUME NEW s \in Shades, TargetObserved(s) \/ EvidenceLapsed(s) PROVE LinkTypes'
  BY <1>9 DEF TargetObserved, EvidenceLapsed
<1>10. CASE ServiceRestart
  <2>1. journal_ok' \in BOOLEAN
    BY <1>10, RestartFinds
  <2> QED BY <1>10, <2>1 DEF ServiceRestart, Idle
<1>11. CASE UNCHANGED serviceVars
  BY <1>11 DEF serviceVars
<1>12. ASSUME NEW e \in Envelopes, Deliver(e) PROVE LinkTypes'
  BY <1>12 DEF Deliver
<1>13. ASSUME NEW p \in Policies, DeliverPolicy(p) PROVE LinkTypes'
  BY <1>13 DEF DeliverPolicy
<1> QED BY <1>1, <1>2, <1>3, <1>4, <1>5, <1>6, <1>7, <1>8, <1>9, <1>10, <1>11, <1>12, <1>13,
           <1>14 DEF ServiceNext, LoopStep, Callback

LEMMA PoppedFacts ==
  ASSUME Base, PopCommand
  PROVE  job' \in Envelopes /\ ledger[job'.id].status = "queued" /\ ledger[job'.id].env = job'
<1>1. PICK i \in pending \ pending' : job' = ledger[i].env
  BY DEF PopCommand
<1>2. i \in Ids /\ ledger[i].status = "queued"
  BY <1>1 DEF Base, Queued
<1>3. i \in Known(ledger) /\ ledger[i] \in Entry
  BY <1>2, EntryFacts DEF Base, TypeOK, Waiting
<1>4. ledger[i].env.id = i
  BY <1>3 DEF Base, TypeOK, LedgerOK
<1> QED BY <1>1, <1>2, <1>3, <1>4 DEF Entry

LEMMA ExecStep ==
  ASSUME ExecTypes, LinkTypes, Base, [ServiceNext]_serviceVars
  PROVE  ExecTypes'
<1> USE DEF ExecTypes, JobKnown, Working
<1>1. CASE ClearReset \/ BridgeSilent \/ ConnectionRefused \/ ServiceTick \/ OnConnect \/ OnDisconnect
           \/ CallbackPersists
  BY <1>1, Zenon DEF ClearReset, BridgeSilent, ConnectionRefused, ServiceTick, serviceVars, execVars,
              OnConnect, OnDisconnect, CallbackPersists
<1>2. CASE PopNone \/ LoopPersists \/ Finish \/ DiscoveryFailed \/ ServiceRestart
  <2>1. job' = NobodysJob /\ seen' = <<0, 0>> /\ dispatched' = FALSE /\ pc' \in {"loop", "persisting"}
    BY <1>2 DEF PopNone, LoopPersists, Finish, DiscoveryFailed, ServiceRestart, Idle, Done
  <2>2. <<0, 0>> \in Nat \X Nat
    OBVIOUS
  <2> QED BY <2>1, <2>2 DEF Someone
<1>3. CASE TokenRotated \/ Choose \/ NotAsked \/ Acknowledged \/ NotAcknowledged \/ Send \/ SendFailed
           \/ WithdrawAfterError
  BY <1>3 DEF TokenRotated, Choose, NotAsked, Acknowledged, NotAcknowledged, Send, SendFailed,
              WithdrawAfterError, Goto
<1>4. CASE Refuse \/ Deny \/ Unrecorded \/ TakeAnswer \/ Fail \/ RecordDispatch
  BY <1>4 DEF Refuse, Deny, Unrecorded, TakeAnswer, Fail, RecordDispatch, Goto, Onward
<1>5. Here \in Nat \X Nat
  BY DEF LinkTypes, Here
<1>6. CASE Discover
  BY <1>5, <1>6 DEF Discover
<1>7. ASSUME NEW changed \in BOOLEAN, Discovered(changed) PROVE ExecTypes'
  BY <1>7 DEF Discovered
<1>8. CASE PopCommand
  <2>1. job' \in Envelopes
    BY <1>8, PoppedFacts
  <2> QED BY <1>8, <2>1 DEF PopCommand, Someone
<1>9. ASSUME NEW q \in BOOLEAN, Execute(q) PROVE ExecTypes'
  BY <1>5, <1>9 DEF Execute
<1>10. ASSUME NEW q \in BOOLEAN, Admit(q) PROVE ExecTypes'
  BY <1>10 DEF Admit, Goto
<1>11. ASSUME NEW q \in BOOLEAN, Recheck(q) PROVE ExecTypes'
  BY <1>11 DEF Recheck, Goto
<1>12. ASSUME NEW s \in Shades, TargetObserved(s) \/ EvidenceLapsed(s) PROVE ExecTypes'
  BY <1>12 DEF TargetObserved, EvidenceLapsed, Goto
<1>13. ASSUME NEW e \in Envelopes, Deliver(e) PROVE ExecTypes'
  BY <1>13, Zenon DEF Deliver, execVars
<1>14. ASSUME NEW p \in Policies, DeliverPolicy(p) PROVE ExecTypes'
  BY <1>14, Zenon DEF DeliverPolicy, execVars
<1>15. CASE UNCHANGED serviceVars
  BY <1>15, Zenon DEF serviceVars, execVars
<1> QED BY <1>1, <1>2, <1>3, <1>4, <1>6, <1>7, <1>8, <1>9, <1>10, <1>11, <1>12, <1>13, <1>14,
           <1>15 DEF ServiceNext, LoopStep, Callback

\* Only these steps write what is followed or what was sent.
LEMMA FollowCases ==
  ASSUME [ServiceNext]_serviceVars
  PROVE  \/ UNCHANGED <<active, pastVars>>
         \/ Send
         \/ ServiceRestart
         \/ \E q \in BOOLEAN : Recheck(q)
         \/ \E s \in Shades : TargetObserved(s) \/ EvidenceLapsed(s)
<1>1. CASE ClearReset \/ BridgeSilent \/ ConnectionRefused \/ ServiceTick \/ OnConnect \/ OnDisconnect
           \/ CallbackPersists \/ UNCHANGED serviceVars
  BY <1>1 DEF ClearReset, BridgeSilent, ConnectionRefused, ServiceTick, serviceVars,
              OnConnect, OnDisconnect, CallbackPersists
<1>2. CASE PopNone \/ LoopPersists \/ Finish \/ DiscoveryFailed \/ PopCommand \/ Discover
  BY <1>2 DEF PopNone, LoopPersists, Finish, DiscoveryFailed, PopCommand, Discover
<1>3. CASE TokenRotated \/ Choose \/ NotAsked \/ Acknowledged \/ NotAcknowledged \/ SendFailed
           \/ WithdrawAfterError
  BY <1>3 DEF TokenRotated, Choose, NotAsked, Acknowledged, NotAcknowledged, SendFailed,
              WithdrawAfterError
<1>4. CASE Refuse \/ Deny \/ Unrecorded \/ TakeAnswer \/ Fail \/ RecordDispatch
  BY <1>4 DEF Refuse, Deny, Unrecorded, TakeAnswer, Fail, RecordDispatch
<1>5. ASSUME NEW b \in BOOLEAN, Discovered(b) \/ Execute(b) \/ Admit(b)
      PROVE  UNCHANGED <<active, pastVars>>
  BY <1>5 DEF Discovered, Execute, Admit
<1>6. ASSUME NEW e \in Envelopes, Deliver(e) PROVE UNCHANGED <<active, pastVars>>
  BY <1>6 DEF Deliver
<1>7. ASSUME NEW p \in Policies, DeliverPolicy(p) PROVE UNCHANGED <<active, pastVars>>
  BY <1>7 DEF DeliverPolicy
<1> QED BY <1>1, <1>2, <1>3, <1>4, <1>5, <1>6, <1>7 DEF ServiceNext, LoopStep, Callback

LEMMA FollowStep ==
  ASSUME FollowTypes, ExecTypes, Base, [ServiceNext]_serviceVars
  PROVE  FollowTypes'
<1> USE DEF FollowTypes
<1>1. CASE UNCHANGED <<active, pastVars>>
  BY <1>1 DEF pastVars
<1>2. CASE Send
  <2>1. job \in Envelopes
    BY <1>2 DEF Send, ExecTypes, JobKnown, Working
  <2>2. sent' \in [Envelopes -> Nat]
    BY <1>2, <2>1 DEF Send
  <2>3. newest' \in [Shades -> Someone]
    BY <1>2, <2>1 DEF Send, Someone
  <2> QED BY <1>2, <2>2, <2>3 DEF Send
<1>3. CASE ServiceRestart
  BY <1>3, RestartFinds DEF ServiceRestart, Idle, NotActive, Someone
<1>4. ASSUME NEW q \in BOOLEAN, Recheck(q) PROVE FollowTypes'
  <2>1. mono + Evidence \in Nat
    BY DispatchAssumption DEF Base, TypeOK
  <2>2. job \in Someone
    BY DEF ExecTypes
  <2>3. active' = active \/ active' = Followed(job)
    BY <1>4 DEF Recheck
  <2>4. active' \in [Shades -> [env : Someone, until : Nat]]
    BY <2>1, <2>2, <2>3 DEF Followed
  <2> QED BY <1>4, <2>4 DEF Recheck, pastVars
<1>5. ASSUME NEW s \in Shades, TargetObserved(s) \/ EvidenceLapsed(s) PROVE FollowTypes'
  <2>1. NotActive \in [env : Someone, until : Nat]
    BY DEF NotActive, Someone
  <2> QED BY <1>5, <2>1 DEF TargetObserved, EvidenceLapsed, pastVars
<1> QED BY <1>1, <1>2, <1>3, <1>4, <1>5, FollowCases

LEMMA TypeParted == TypeInv <=> QueueInv /\ LockOK /\ LinkTypes /\ ExecTypes /\ FollowTypes
BY DEF TypeInv, ServiceTypeOK, LockOK, LinkTypes, ExecTypes, FollowTypes, Someone

LEMMA TypeStep == TypeInv /\ [ServiceNext]_serviceVars => TypeInv'
<1> SUFFICES ASSUME TypeInv, [ServiceNext]_serviceVars PROVE TypeInv'
  OBVIOUS
<1>1. QueueInv /\ LockOK /\ LinkTypes /\ ExecTypes /\ FollowTypes /\ Base
  BY TypeParted DEF QueueInv, OnceInv
<1>2. QueueStep
  BY ServiceQueueStep DEF TypeInv
<1>3. QueueInv' /\ LockOK' /\ LinkTypes' /\ ExecTypes' /\ FollowTypes'
  BY <1>1, <1>2, QueueKept, LockStep, LinkStep, ExecStep, FollowStep
<1> QED BY <1>3 DEF TypeInv, ServiceTypeOK, LockOK, LinkTypes, ExecTypes, FollowTypes, Someone

LEMMA TypeInit == ServiceInit => TypeInv
<1> SUFFICES ASSUME ServiceInit PROVE TypeInv
  OBVIOUS
<1>1. QueueInv
  BY QueueInit DEF ServiceInit
<1>2. LockOK /\ LinkTypes /\ ExecTypes
  BY DispatchAssumption DEF ServiceInit, LockOK, LinkTypes, ExecTypes, Someone, JobKnown, Working,
       Locked, Unlocked
<1>3. FollowTypes
  BY DEF ServiceInit, FollowTypes, Someone, NotActive
<1> QED BY <1>1, <1>2, <1>3, TypeParted

\* Whatever the threads do, no call fails on a missing entry and the lock is held exactly
\* while a handler that took it is under way (service.py execute, on_message and the
\* callbacks).
THEOREM ServiceTypeCorrect == ServiceSpec => []ServiceTypeOK
<1>1. ServiceInit => TypeInv
  BY TypeInit
<1>2. TypeInv /\ [ServiceNext]_serviceVars => TypeInv'
  BY TypeStep
<1>3. TypeInv => ServiceTypeOK
  BY DEF TypeInv
<1> QED BY <1>1, <1>2, <1>3, PTL DEF ServiceSpec

(***************************************************************************)
(* What becomes of a receipt in a step of the service                      *)
(***************************************************************************)
\* Why an outcome is recorded for command e.
Reason(e, st) ==
  \/ st = "uncertain"
  \/ st = "rejected" /\ e = job /\ pc \in {"refusing", "denied", "failed"} /\ (pc = "failed" => ~dispatched)
  \/ st = "acknowledged" /\ e = job /\ pc = "answered" /\ connected
  \/ st = "target_observed" /\ ledger[e.id].status \notin Waiting
     /\ \E s \in Shades : e = active[s].env

\* Receipt i is settled for its command.
Settled(i) ==
  \E e \in Envelopes, st \in {"rejected", "uncertain", "acknowledged", "target_observed"} :
    i = e.id /\ Recordable(e, st) /\ Reason(e, st) /\ Told(i, st)

\* The command of receipt i is the loop's, and is committed to be sent.
Committed(i) ==
  /\ pc = "asking" /\ pc' = "recording" /\ Owns(job) /\ i = job.id
  /\ ledger[i].status \in Waiting /\ Told(i, "dispatched")
  /\ journal_ok

LEMMA RecordsSettle ==
  ASSUME Base, NEW e \in Someone, NEW st \in {"rejected", "uncertain", "acknowledged", "target_observed"},
         UNCHANGED commands \/ Records(e, st), Reason(e, st), NEW i \in Ids
  PROVE  Left(i) \/ Settled(i)
<1>1. CASE UNCHANGED commands
  BY <1>1, UnchangedLeft DEF commands, vars, queueVars
<1>2. CASE Records(e, st)
  <2>1. e \in Envelopes /\ e.id \in Ids /\ st \in Outcomes /\ Recordable(e, st)
    BY <1>2, JobFacts DEF Records
  <2>2. PICK w \in WallReadings : RecordResult(e.id, st, w)
    BY <1>2 DEF Records
  <2>3. /\ \A k \in Ids \ {e.id} : ledger'[k] = ledger[k]
        /\ ledger'[e.id] = ledger[e.id] \/ Told(e.id, st)
        /\ e.id \in Known(ledger)
    BY <2>1, <2>2, RecordResultTold
  <2>4. CASE ledger'[i] = ledger[i]
    BY <2>4 DEF Left, Same, Withdrawn, Known
  <2>5. CASE i = e.id /\ Told(e.id, st)
    BY <2>1, <2>5 DEF Settled
  <2> QED BY <2>3, <2>4, <2>5
<1> QED BY <1>1, <1>2

LEMMA AdmitFacts ==
  ASSUME Base, JobKnown, NEW q \in BOOLEAN, Admit(q)
  PROVE  \/ /\ pc' = "denied" /\ dispatches' = dispatches
            /\ \A i \in Ids : Left(i)
         \/ /\ pc' = "recording" /\ Committed(job.id)
            /\ dispatches' = [dispatches EXCEPT ![job] = @ + 1]
            /\ \A i \in Ids \ {job.id} : ledger'[i] = ledger[i]
<1>1. pc = "asking" /\ job.id \in Ids
  BY JobFacts DEF Admit, JobKnown, Working
<1>2. CASE UNCHANGED commands /\ Goto("denied")
  BY <1>2, UnchangedLeft DEF commands, vars, queueVars, historyVars, Goto
<1>3. CASE /\ Owns(job) /\ journal_ok /\ \E w \in WallReadings : MarkDispatched(job.id, w)
           /\ Goto(IF ledger[job.id].status \in Waiting /\ ledger'[job.id].status = "dispatched"
                   THEN "recording" ELSE "denied")
  <2>1. /\ \A k \in Ids \ {job.id} : ledger'[k] = ledger[k]
        /\ \/ Left(job.id) /\ dispatches' = dispatches
           \/ /\ ledger[job.id].status \in Waiting /\ Told(job.id, "dispatched")
              /\ dispatches' = [dispatches EXCEPT ![ledger[job.id].env] = @ + 1]
    BY <1>1, <1>3, MarkDispatchedTold
  <2>2. CASE Left(job.id) /\ dispatches' = dispatches
    <3>1. ~(ledger[job.id].status \in Waiting /\ ledger'[job.id].status = "dispatched")
      BY <2>2 DEF Left, Withdrawn, Waiting, Denied, InFlight
    <3>2. \A k \in Ids : Left(k)
      BY <2>1, <2>2 DEF Left, Same, Withdrawn, Known
    <3> QED BY <1>3, <2>2, <3>1, <3>2 DEF Goto
  <2>3. CASE /\ ledger[job.id].status \in Waiting /\ Told(job.id, "dispatched")
             /\ dispatches' = [dispatches EXCEPT ![ledger[job.id].env] = @ + 1]
    <3>1. ledger[job.id].env = job
      BY <1>3 DEF Owns
    <3>2. ledger'[job.id].status = "dispatched"
      BY <2>3 DEF Told
    <3> QED BY <1>1, <1>3, <2>1, <2>3, <3>1, <3>2 DEF Goto, Committed
  <2> QED BY <2>1, <2>2, <2>3
<1> QED BY <1>2, <1>3 DEF Admit, Gate

LEMMA ReceiptCases ==
  ASSUME TypeInv, [ServiceNext]_serviceVars, NEW i \in Ids
  PROVE  \/ ServiceRestart
         \/ Left(i) \/ (Forgotten(i) /\ ~RoomForAll) \/ (Received(i) /\ session' = session)
         \/ Settled(i) \/ Committed(i)
<1>0. /\ Base /\ JobKnown /\ job \in Someone /\ dispatched \in BOOLEAN
      /\ \A s \in Shades : active[s].env \in Someone
  BY DEF TypeInv, QueueInv, OnceInv, ServiceTypeOK, Someone
<1>1. ledger' = ledger => Left(i)
  BY UnchangedLeft
<1>2. CASE ClearReset \/ Discover \/ BridgeSilent \/ Choose \/ PopNone \/ NotAsked \/ Send
           \/ SendFailed \/ Acknowledged \/ NotAcknowledged \/ ConnectionRefused
           \/ UNCHANGED serviceVars
  BY <1>1, <1>2 DEF ClearReset, Discover, BridgeSilent, Choose, PopNone, NotAsked, Send,
       SendFailed, Acknowledged, NotAcknowledged, ConnectionRefused, serviceVars, commands, vars,
       queueVars
<1>3. CASE CallbackPersists \/ LoopPersists \/ Finish \/ RecordDispatch \/ ServiceTick
  BY <1>1, <1>3 DEF CallbackPersists, LoopPersists, Finish, RecordDispatch, Persist, ServiceTick,
       Tick, queueVars
<1>4. CASE OnConnect \/ OnDisconnect \/ DiscoveryFailed \/ TokenRotated \/ WithdrawAfterError
  BY <1>0, <1>4, InvalidateLeft DEF OnConnect, OnDisconnect, DiscoveryFailed, TokenRotated,
       WithdrawAfterError
<1>5. ASSUME NEW changed \in BOOLEAN, Discovered(changed) PROVE Left(i)
  BY <1>0, <1>1, <1>5, InvalidateLeft DEF Discovered, commands, vars, queueVars
<1>6. CASE PopCommand
  BY <1>0, <1>6, PopLeft DEF PopCommand
<1>7. CASE Refuse \/ Deny \/ (Fail /\ ~dispatched)
  <2>1. Record(job, "rejected") /\ Reason(job, "rejected")
    BY <1>7 DEF Refuse, Deny, Fail, FailureOutcome, Reason
  <2> QED BY <1>0, <2>1, RecordCases, RecordsSettle
<1>8. CASE Unrecorded \/ (Fail /\ dispatched) \/ (TakeAnswer /\ ~Counts)
  <2>1. Record(job, "uncertain") /\ Reason(job, "uncertain")
    BY <1>8 DEF Unrecorded, Fail, FailureOutcome, TakeAnswer, RecordAnswer, Reason
  <2> QED BY <1>0, <2>1, RecordCases, RecordsSettle
<1>9. CASE TakeAnswer /\ Counts
  <2>1. Record(job, "acknowledged") /\ Reason(job, "acknowledged")
    BY <1>9 DEF TakeAnswer, RecordAnswer, Counts, Reason
  <2> QED BY <1>0, <2>1, RecordCases, RecordsSettle
<1>10. ASSUME NEW q \in BOOLEAN, Execute(q) PROVE Left(i)
  BY <1>1, <1>10 DEF Execute, commands, vars, queueVars
<1>11. ASSUME NEW q \in BOOLEAN, Admit(q) PROVE Left(i) \/ Committed(i)
  <2>1. ASSUME ledger'[i] = ledger[i] PROVE Left(i)
    BY <2>1 DEF Left, Same, Withdrawn, Known
  <2> QED BY <1>0, <1>11, <2>1, AdmitFacts
<1>12. ASSUME NEW q \in BOOLEAN, Recheck(q) PROVE Left(i) \/ Settled(i)
  <2>1. PICK w \in WallReadings :
          \/ job.shade \in Shades /\ Relieve(active[job.shade].env, w)
          \/ ReadClock(w)
    BY <1>12 DEF Recheck, Gate
  <2>2. CASE ReadClock(w)
    BY <1>1, <2>2 DEF ReadClock
  <2>3. CASE job.shade \in Shades /\ Relieve(active[job.shade].env, w) /\ ~ReadClock(w)
    <3>1. Records(active[job.shade].env, "uncertain") /\ Reason(active[job.shade].env, "uncertain")
      BY <1>0, <2>3, RecordCases DEF Reason
    <3> QED BY <1>0, <2>3, <3>1, RecordsSettle
  <2> QED BY <2>1, <2>2, <2>3
<1>13. ASSUME NEW s \in Shades, TargetObserved(s) PROVE Left(i) \/ Settled(i)
  <2>1. RecordActive(active[s].env, "target_observed")
    BY <1>13 DEF TargetObserved
  <2>2. CASE UNCHANGED commands
    BY <1>1, <2>2 DEF commands, vars, queueVars
  <2>3. CASE ~(UNCHANGED commands)
    <3>1. /\ Records(active[s].env, "target_observed")
          /\ ledger[active[s].env.id].status \notin Waiting
      BY <1>0, <2>1, <2>3, RecordCases
    <3>2. Reason(active[s].env, "target_observed")
      BY <3>1 DEF Reason
    <3> QED BY <1>0, <3>1, <3>2, RecordsSettle
  <2> QED BY <2>2, <2>3
<1>14. ASSUME NEW s \in Shades, EvidenceLapsed(s) PROVE Left(i) \/ Settled(i)
  <2>1. RecordActive(active[s].env, "uncertain") /\ Reason(active[s].env, "uncertain")
    BY <1>14 DEF EvidenceLapsed, Reason
  <2> QED BY <1>0, <2>1, RecordCases, RecordsSettle
<1>15. ASSUME NEW e \in Envelopes, Deliver(e)
       PROVE  Left(i) \/ (Forgotten(i) /\ ~RoomForAll) \/ (Received(i) /\ session' = session)
  <2>1. PICK w \in WallReadings, m \in MonoSamples : Submit(e, w, m)
    BY <1>15 DEF Deliver
  <2>2. session' = session
    BY <2>1 DEF Submit
  <2> QED BY <1>0, <2>1, <2>2, SubmitLeft
<1>16. ASSUME NEW p \in Policies, DeliverPolicy(p) PROVE Left(i)
  BY <1>0, <1>16, UpdatePolicyLeft DEF DeliverPolicy
<1>17. Fail \/ TakeAnswer => \/ (Fail /\ ~dispatched) \/ (Fail /\ dispatched)
                             \/ (TakeAnswer /\ ~Counts) \/ (TakeAnswer /\ Counts)
  OBVIOUS
<1> QED BY <1>2, <1>3, <1>4, <1>5, <1>6, <1>7, <1>8, <1>9, <1>10, <1>11, <1>12, <1>13, <1>14,
           <1>15, <1>16, <1>17 DEF ServiceNext, LoopStep, Callback

(***************************************************************************)
(* Control: what the loop knows of its job, place by place                 *)
(***************************************************************************)
\* Places of the loop where its job has no claim on the wire, nor on an answer.
Resting == {"loop", "discovering", "popping", "finishing", "persisting", "withdrawing"}

\* A step of the other thread or of the clock, outside the lock the loop may hold.
Beside ==
  /\ UNCHANGED <<pc, job, dispatched, active, sent, newest, dispatches>>
  /\ lock = Loop => UNCHANGED <<ledger, jobs, saved, connection_generation, policy, connected,
                                source_generation>>

LEMMA MoveCases ==
  ASSUME LockOK, [ServiceNext]_serviceVars
  PROVE  \/ pc' \in Resting
         \/ Beside
         \/ PopCommand \/ NotAsked \/ Deny \/ RecordDispatch \/ Unrecorded
         \/ Send \/ SendFailed \/ Acknowledged \/ NotAcknowledged
         \/ \E q \in BOOLEAN : Execute(q) \/ Admit(q) \/ Recheck(q)
<1>1. CASE ClearReset \/ BridgeSilent \/ Discover \/ DiscoveryFailed \/ TokenRotated \/ LoopPersists
           \/ Choose \/ PopNone \/ Refuse \/ TakeAnswer \/ Fail \/ WithdrawAfterError \/ Finish
           \/ ServiceRestart
  BY <1>1 DEF ClearReset, BridgeSilent, Discover, DiscoveryFailed, TokenRotated, LoopPersists,
              Choose, PopNone, Refuse, TakeAnswer, Fail, WithdrawAfterError, Finish,
              ServiceRestart, Idle, Goto, Done, Resting, execVars
<1>2. ASSUME NEW changed \in BOOLEAN, Discovered(changed) PROVE pc' \in Resting
  BY <1>2 DEF Discovered, Resting
<1>3. ASSUME NEW s \in Shades, TargetObserved(s) \/ EvidenceLapsed(s) PROVE pc' \in Resting
  BY <1>3 DEF TargetObserved, EvidenceLapsed, Goto, Resting
<1>4. CASE OnConnect \/ OnDisconnect
  BY <1>4, DispatchAssumption DEF OnConnect, OnDisconnect, Take, Available, Invalidate,
       execVars, pastVars, historyVars, Beside
<1>5. CASE CallbackPersists
  BY <1>5, DispatchAssumption DEF CallbackPersists, Persist, execVars, pastVars, Beside
<1>6. CASE ConnectionRefused \/ UNCHANGED serviceVars
  BY <1>6 DEF ConnectionRefused, serviceVars, commands, vars, queueVars, policyVars, historyVars,
              linkVars, execVars, pastVars, Beside
<1>7. CASE ServiceTick
  BY <1>7 DEF ServiceTick, Tick, queueVars, policyVars, historyVars, linkVars, execVars, pastVars, Beside
<1>8. ASSUME NEW e \in Envelopes, Deliver(e) PROVE Beside
  BY <1>8, DispatchAssumption DEF Deliver, Submit, Take, Available, execVars, pastVars, historyVars, Beside
<1>9. ASSUME NEW p \in Policies, DeliverPolicy(p) PROVE Beside
  BY <1>9, DispatchAssumption DEF DeliverPolicy, UpdatePolicy, Take, Available, execVars, pastVars,
       historyVars, Beside
<1> QED BY <1>1, <1>2, <1>3, <1>4, <1>5, <1>6, <1>7, <1>8, <1>9 DEF ServiceNext, LoopStep, Callback

\* Until its datagram a job was never sent.
Unsent ==
  \/ pc \in {"popped", "refusing", "asking", "denied", "recording", "unrecorded", "rechecking",
             "sending"}
  \/ pc = "failed" /\ ~dispatched
  => sent[job] = 0

\* An answer is awaited for a datagram.
Answering == pc \in {"waiting", "answered"} => dispatched /\ sent[job] > 0

\* What is committed was dispatched by the queue, and no shade is followed for it yet.
Pledged ==
  /\ pc \in {"recording", "rechecking", "sending"} => dispatches[job] > 0
  /\ pc \in {"recording", "rechecking"} => \A s \in Shades : active[s].env # job

\* Once the commitment is written the journal is the ledger until the recheck is over.
Journalled == pc = "rechecking" => saved = ledger

\* On the point of sending, everything the command rests on holds.
Authorised(e) ==
  /\ connected /\ SourceOf[e] = source_generation
  /\ jobs[e.id] = connection_generation
  /\ e.id \in Known(ledger) /\ ledger[e.id].env = e /\ ledger[e.id].status = "dispatched"
  /\ e.command # "STOP" =>
       /\ ~HasStop(ledger, jobs)
       /\ e.origin = "automatic" => policy # NoPolicy /\ e.generation = policy.generation

Poised ==
  pc = "sending" =>
    /\ dispatched /\ Authorised(job) /\ GoneOut(saved, job)
    /\ job.shade \in Shades /\ active[job.shade].env = job

\* A shade is followed for a command of its own, and for the one sent last.
FollowsOwn ==
  \A s \in Shades : active[s].env \in Envelopes =>
    /\ active[s].env.shade = s /\ dispatches[active[s].env] > 0
    /\ sent[active[s].env] > 0 => newest[s] = active[s].env

\* Only what the queue dispatched was sent.
Counted == \A e \in Envelopes : sent[e] > 0 => dispatches[e] > 0

\* Only what was sent is acknowledged, and what was sent is on record as sent.
HeardWasSent ==
  \A i \in Known(ledger) : ledger[i].status = "acknowledged" => sent[ledger[i].env] > 0

SentOnRecord == \A e \in Envelopes : sent[e] > 0 /\ GoneOut(ledger, e) => GoneOut(saved, e)

\* A process that did not find its record writes none and has dispatched nothing.
Uninformed ==
  ~informed => ~journal_ok /\ \A i \in Known(ledger) : ledger[i].status \in Waiting \cup Denied

Control == Unsent /\ Answering /\ Pledged /\ Journalled /\ Poised
History == FollowsOwn /\ Counted /\ HeardWasSent /\ SentOnRecord /\ Uninformed

ServiceInv == TypeInv /\ Control /\ History

LEMMA TypeFacts ==
  ASSUME TypeInv
  PROVE  /\ Base /\ OnceInv /\ LockOK /\ LinkTypes /\ ExecTypes /\ FollowTypes /\ JobKnown
         /\ LedgerOK(ledger) /\ LedgerOK(saved)
         /\ dispatches \in [Envelopes -> Nat] /\ sent \in [Envelopes -> Nat]
<1>1. QueueInv /\ LockOK /\ LinkTypes /\ ExecTypes /\ FollowTypes
  BY TypeParted
<1> QED BY <1>1 DEF QueueInv, OnceInv, Base, TypeOK, ExecTypes, FollowTypes

\* What was never dispatched was never sent.
LEMMA PoppedUnsent ==
  ASSUME TypeInv, Counted, PopCommand PROVE sent[job'] = 0
<1>1. /\ job' \in Envelopes /\ ledger[job'.id].status = "queued" /\ ledger[job'.id].env = job'
      /\ job'.id \in Ids
  BY TypeFacts, PoppedFacts, JobFacts
<1>2. job'.adapter = session /\ ledger[job'.id] # NoEntry
  BY <1>1, AbsentFacts, TypeFacts DEF OnceInv, WaitingIsCurrent, Waiting
<1>3. ~Spent(job')
  BY <1>1, <1>2, TypeFacts DEF Spent, Holds, Known, Waiting, Base, TypeOK
<1>4. dispatches[job'] \in Nat /\ dispatches[job'] <= 1 /\ dispatches[job'] # 1
  BY <1>1, <1>3, TypeFacts DEF OnceInv, DispatchedIsSpent
<1>5. sent[job'] \in Nat
  BY <1>1, TypeFacts
<1> QED BY <1>1, <1>4, <1>5 DEF Counted

LEMMA UnsentStep == ASSUME ServiceInv, [ServiceNext]_serviceVars PROVE Unsent'
<1> USE DEF Unsent
<1>0. TypeInv /\ Control /\ Counted /\ LockOK
  BY TypeFacts DEF ServiceInv, History
<1>1. CASE pc' \in Resting
  BY <1>1 DEF Resting
<1>2. CASE Beside
  BY <1>0, <1>2 DEF Beside, Control
<1>3. CASE PopCommand
  BY <1>0, <1>3, PoppedUnsent DEF PopCommand, pastVars
<1>4. CASE NotAsked \/ Deny \/ RecordDispatch \/ Unrecorded \/ SendFailed
  BY <1>0, <1>4 DEF NotAsked, Deny, RecordDispatch, Unrecorded, SendFailed, Goto, Onward, pastVars, Control
<1>5. CASE Send \/ Acknowledged
  BY <1>5 DEF Send, Acknowledged, Goto
<1>6. CASE NotAcknowledged
  BY <1>0, <1>6 DEF NotAcknowledged, Goto, Control, Answering
<1>7. ASSUME NEW q \in BOOLEAN, Execute(q) PROVE Unsent'
  BY <1>0, <1>7 DEF Execute, pastVars, Control
<1>8. ASSUME NEW q \in BOOLEAN, Admit(q) PROVE Unsent'
  BY <1>0, <1>8 DEF Admit, Goto, pastVars, Control
<1>9. ASSUME NEW q \in BOOLEAN, Recheck(q) PROVE Unsent'
  BY <1>0, <1>9 DEF Recheck, Goto, pastVars, Control
<1> QED BY <1>0, <1>1, <1>2, <1>3, <1>4, <1>5, <1>6, <1>7, <1>8, <1>9, MoveCases

LEMMA AnsweringStep == ASSUME ServiceInv, [ServiceNext]_serviceVars PROVE Answering'
<1> USE DEF Answering
<1>0. TypeInv /\ Control /\ LockOK
  BY TypeFacts DEF ServiceInv
<1>1. CASE pc' \in Resting
  BY <1>1 DEF Resting
<1>2. CASE Beside
  BY <1>0, <1>2 DEF Beside, Control
<1>3. CASE PopCommand \/ NotAsked \/ Deny \/ RecordDispatch \/ Unrecorded \/ SendFailed \/ NotAcknowledged
  BY <1>3 DEF PopCommand, NotAsked, Deny, RecordDispatch, Unrecorded, SendFailed, NotAcknowledged,
              Goto, Onward
<1>4. CASE Acknowledged
  BY <1>0, <1>4 DEF Acknowledged, Goto, pastVars, Control
<1>5. CASE Send
  <2>1. job \in Envelopes /\ sent[job] \in Nat
    BY <1>0, <1>5, TypeFacts DEF Send, JobKnown, Working
  <2>2. sent'[job] = sent[job] + 1
    BY <1>5, <2>1, TypeFacts, <1>0 DEF Send
  <2>3. dispatched
    BY <1>0, <1>5 DEF Send, Control, Poised
  <2> QED BY <1>5, <2>1, <2>2, <2>3 DEF Send, Goto
<1>6. ASSUME NEW q \in BOOLEAN, Execute(q) \/ Admit(q) \/ Recheck(q) PROVE Answering'
  BY <1>6 DEF Execute, Admit, Recheck, Goto
<1> QED BY <1>0, <1>1, <1>2, <1>3, <1>4, <1>5, <1>6, MoveCases

LEMMA PledgedStep == ASSUME ServiceInv, [ServiceNext]_serviceVars PROVE Pledged'
<1> USE DEF Pledged
<1>0. /\ TypeInv /\ Control /\ LockOK /\ Base /\ JobKnown /\ FollowsOwn /\ Pledged
      /\ dispatches \in [Envelopes -> Nat]
  BY TypeFacts DEF ServiceInv, History, Control
<1>1. CASE pc' \in Resting
  BY <1>1 DEF Resting
<1>2. CASE Beside
  BY <1>0, <1>2 DEF Beside
<1>3. CASE PopCommand \/ NotAsked \/ Deny \/ Unrecorded \/ Send \/ SendFailed \/ Acknowledged
           \/ NotAcknowledged
  BY <1>3 DEF PopCommand, NotAsked, Deny, Unrecorded, Send, SendFailed, Acknowledged,
              NotAcknowledged, Goto
<1>4. CASE RecordDispatch
  BY <1>0, <1>4 DEF RecordDispatch, Persist, Goto, Onward
<1>5. ASSUME NEW q \in BOOLEAN, Execute(q) PROVE Pledged'
  BY <1>5 DEF Execute
<1>6. ASSUME NEW q \in BOOLEAN, Admit(q) PROVE Pledged'
  <2>1. CASE pc' = "denied"
    BY <2>1
  <2>2. CASE pc' = "recording" /\ dispatches' = [dispatches EXCEPT ![job] = @ + 1]
    <3>1. job' = job /\ active' = active /\ job \in Envelopes
      BY <1>0, <1>6, <2>2 DEF Admit, Goto, JobKnown, Working
    <3>2. dispatches[job] \in Nat /\ dispatches'[job] = dispatches[job] + 1
      BY <1>0, <2>2, <3>1
    <3>3. dispatches'[job] <= 1
      <4>1. QueueStep
        BY ServiceQueueStep DEF ServiceInv, TypeInv
      <4>2. OnceInv'
        BY <4>1, QueueOnce, TypeFacts, <1>0
      <4> QED BY <3>1, <4>2 DEF OnceInv, DispatchedIsSpent
    <3>4. dispatches[job] = 0
      BY <3>2, <3>3
    <3>5. \A s \in Shades : active[s].env # job
      BY <1>0, <3>1, <3>4 DEF FollowsOwn
    <3>6. dispatches'[job] > 0
      BY <3>2
    <3> QED BY <3>1, <3>5, <3>6
  <2> QED BY <1>0, <1>6, <2>1, <2>2, AdmitFacts
<1>7. ASSUME NEW q \in BOOLEAN, Recheck(q) PROVE Pledged'
  <2>1. CASE pc' = "denied"
    BY <2>1
  <2>2. CASE pc' = "sending" /\ job' = job
    <3>1. dispatches' = dispatches
      BY <1>7 DEF Recheck, Relieve, RecordResult, ReadClock, historyVars
    <3> QED BY <1>0, <1>7, <2>2, <3>1 DEF Recheck
  <2> QED BY <1>7, <2>1, <2>2 DEF Recheck, Goto
<1> QED BY <1>0, <1>1, <1>2, <1>3, <1>4, <1>5, <1>6, <1>7, MoveCases

LEMMA JournalledStep == ASSUME ServiceInv, [ServiceNext]_serviceVars PROVE Journalled'
<1> USE DEF Journalled
<1>0. LockOK /\ Journalled
  BY TypeFacts DEF ServiceInv, Control
<1>1. CASE pc' \in Resting
  BY <1>1 DEF Resting
<1>2. CASE Beside
  BY <1>0, <1>2 DEF Beside, LockOK, Locked
<1>3. CASE PopCommand \/ NotAsked \/ Deny \/ Unrecorded \/ Send \/ SendFailed \/ Acknowledged
           \/ NotAcknowledged
  BY <1>3 DEF PopCommand, NotAsked, Deny, Unrecorded, Send, SendFailed, Acknowledged,
              NotAcknowledged, Goto
<1>4. CASE RecordDispatch
  BY <1>4 DEF RecordDispatch, Persist, Goto, Onward
<1>5. ASSUME NEW q \in BOOLEAN, Execute(q) \/ Admit(q) \/ Recheck(q) PROVE Journalled'
  BY <1>5 DEF Execute, Admit, Recheck, Goto
<1> QED BY <1>0, <1>1, <1>2, <1>3, <1>4, <1>5, MoveCases

\* Relieving a shade of an earlier command leaves the others' entries, and no STOP waits
\* that did not.
LEMMA RelieveFacts ==
  ASSUME Base, NEW e \in Someone, NEW j \in Envelopes, e # j, j.id \in Known(ledger),
         ledger[j.id].env = j, NEW w \in WallReadings, Relieve(e, w)
  PROVE  /\ UNCHANGED <<jobs, saved, connection_generation, policyVars, historyVars, mono, session>>
         /\ ledger'[j.id] = ledger[j.id] /\ j.id \in Known(ledger')
         /\ HasStop(ledger', jobs') => HasStop(ledger, jobs)
<1>1. CASE ReadClock(w)
  BY <1>1, Zenon DEF ReadClock, Known, policyVars, historyVars, queueVars
<1>2. CASE e.id \in Ids /\ ledger[e.id].env = e /\ RecordResult(e.id, "uncertain", w)
  <2>1. "uncertain" \in Outcomes \ Waiting
    BY JobFacts
  <2>2. /\ \A k \in Ids \ {e.id} : ledger'[k] = ledger[k]
        /\ ledger'[e.id] = ledger[e.id] \/ ledger'[e.id].status = "uncertain"
    BY <1>2, <2>1, RecordResultTold DEF Told
  <2>3. UNCHANGED <<jobs, saved, connection_generation, policyVars, historyVars, mono, session>>
    BY <1>2 DEF RecordResult
  <2>4. j.id # e.id /\ j.id \in Ids
    BY <1>2 DEF Known
  <2>5. ledger'[j.id] = ledger[j.id] /\ j.id \in Known(ledger')
    BY <2>2, <2>4 DEF Known
  <2>6. HasStop(ledger', jobs') => HasStop(ledger, jobs)
    BY <2>1, <2>2, <2>3 DEF HasStop
  <2> QED BY <2>3, <2>5, <2>6
<1>3. e \in Envelopes => e.id \in Ids
  BY JobFacts
<1> QED BY <1>1, <1>2, <1>3 DEF Relieve, Recordable, Owns, Someone

LEMMA RecheckFacts ==
  ASSUME ServiceInv, NEW q \in BOOLEAN, Recheck(q)
  PROVE  \/ pc' = "denied" /\ active' = active
         \/ /\ pc' = "sending" /\ dispatched' /\ UNCHANGED <<job, linkVars, jobs, saved, mono, policyVars>>
            /\ Authorised(job)' /\ GoneOut(saved, job) /\ job.shade \in Shades
            /\ active' = Followed(job)
            /\ mono < ledger[job.id].deadline
            /\ job.origin = "automatic" /\ job.command # "STOP" => mono < policy_deadline
<1>0. /\ Base /\ job \in Envelopes /\ job.id \in Ids /\ saved = ledger /\ JobsOK(jobs, ledger)
      /\ \A s \in Shades : active[s].env \in Someone /\ active[s].env # job
  BY TypeFacts, JobFacts DEF ServiceInv, Control, Recheck, ExecTypes, JobKnown, Working, Journalled,
       Pledged, FollowTypes, Base, TypeOK
<1>1. PICK w \in WallReadings :
        \/ pc' = "denied" /\ active' = active
        \/ /\ StillValid(job, w) /\ Gate(job, q) /\ Relieve(active[job.shade].env, w)
           /\ active' = Followed(job) /\ pc' = "sending" /\ dispatched' = TRUE /\ UNCHANGED <<job, linkVars>>
  BY DEF Recheck, Goto
<1>2. CASE /\ StillValid(job, w) /\ Gate(job, q) /\ Relieve(active[job.shade].env, w)
           /\ active' = Followed(job) /\ pc' = "sending" /\ dispatched' = TRUE /\ UNCHANGED <<job, linkVars>>
  <2>1. /\ jobs[job.id] # NoJob /\ ledger[job.id].env = job /\ ledger[job.id].status = "dispatched"
        /\ jobs[job.id] = connection_generation /\ mono < ledger[job.id].deadline
        /\ job.command = "STOP" \/ ~HasStop(ledger, jobs)
        /\ Admissible(ledger, job, Now(w), mono)
    BY <1>2 DEF StillValid, Owns
  <2>2. job.id \in Known(ledger)
    BY <1>0, <2>1 DEF JobsOK
  <2>3. job.shade \in Shades /\ connected /\ SourceOf[job] = source_generation
    BY <1>2 DEF Gate
  <2>4. /\ UNCHANGED <<jobs, saved, connection_generation, policyVars, historyVars, mono, session>>
        /\ ledger'[job.id] = ledger[job.id] /\ job.id \in Known(ledger')
        /\ HasStop(ledger', jobs') => HasStop(ledger, jobs)
    BY <1>0, <1>2, <2>1, <2>2, <2>3, RelieveFacts
  <2>5. job.command \in {"STOP", "MOVE"}
    BY <1>0, QueueAssumption DEF EnvelopeType
  <2>6. job.origin = "automatic" /\ job.command # "STOP" =>
          policy # NoPolicy /\ job.generation = policy.generation /\ mono < policy_deadline
    BY <2>1, <2>5 DEF Admissible, PolicyPermits
  <2>7. GoneOut(saved, job)
    BY <1>0, <2>1, <2>2 DEF GoneOut, Waiting, Denied
  <2>8. Authorised(job)'
    BY <1>2, <2>1, <2>3, <2>4, <2>6 DEF Authorised, policyVars, linkVars
  <2> QED BY <1>2, <2>1, <2>3, <2>4, <2>6, <2>7, <2>8
<1> QED BY <1>1, <1>2

LEMMA PoisedStep == ASSUME ServiceInv, [ServiceNext]_serviceVars PROVE Poised'
<1> USE DEF Poised
<1>0. LockOK /\ Poised /\ FollowTypes
  BY TypeFacts DEF ServiceInv, Control
<1>1. CASE pc' \in Resting
  BY <1>1 DEF Resting
<1>2. CASE Beside
  <2>1. pc = "sending" => UNCHANGED <<ledger, jobs, saved, connection_generation, policy, connected,
                                      source_generation>>
    BY <1>0, <1>2 DEF Beside, LockOK, Locked
  <2> QED BY <1>0, <1>2, <2>1 DEF Beside, Authorised, GoneOut, Known, HasStop
<1>3. CASE PopCommand \/ NotAsked \/ Deny \/ RecordDispatch \/ Unrecorded \/ Send \/ SendFailed
           \/ Acknowledged \/ NotAcknowledged
  BY <1>3 DEF PopCommand, NotAsked, Deny, RecordDispatch, Unrecorded, Send, SendFailed,
              Acknowledged, NotAcknowledged, Goto, Onward
<1>4. ASSUME NEW q \in BOOLEAN, Execute(q) \/ Admit(q) PROVE Poised'
  BY <1>4 DEF Execute, Admit, Goto
<1>5. ASSUME NEW q \in BOOLEAN, Recheck(q) PROVE Poised'
  <2>1. CASE pc' = "denied"
    BY <2>1
  <2>2. CASE /\ pc' = "sending" /\ dispatched' /\ UNCHANGED <<job, saved>>
             /\ Authorised(job)' /\ GoneOut(saved, job) /\ job.shade \in Shades
             /\ active' = Followed(job)
    <3>1. active'[job.shade].env = job
      BY <1>0, <2>2 DEF Followed, FollowTypes
    <3>2. GoneOut(saved, job)'
      BY <2>2 DEF GoneOut, Known
    <3> QED BY <2>2, <3>1, <3>2
  <2> QED BY <1>5, <2>1, <2>2, RecheckFacts
<1> QED BY <1>0, <1>1, <1>2, <1>3, <1>4, <1>5, MoveCases

(***************************************************************************)
(* History: what was sent, and what is told of it                          *)
(***************************************************************************)
LEMMA QueueHistory ==
  ASSUME TypeInv, [ServiceNext]_serviceVars
  PROVE  /\ \A e \in Envelopes : dispatches'[e] >= dispatches[e]
         /\ saved' \in {saved, ledger}
<1>1. QueueStep /\ dispatches \in [Envelopes -> Nat] /\ Base
  BY ServiceQueueStep, TypeFacts DEF TypeInv
<1>2. CASE Written \/ Clocked \/ UNCHANGED vars
  BY <1>1, <1>2 DEF Written, Clocked, ReadClock, vars, historyVars
<1>3. ASSUME NEW i \in Ids, NEW w \in WallReadings, MarkDispatched(i, w)
      PROVE  /\ \A e \in Envelopes : dispatches'[e] >= dispatches[e]
             /\ saved' = saved
  <2>1. saved' = saved
    BY <1>3 DEF MarkDispatched
  <2>2. \/ dispatches' = dispatches
        \/ dispatches' = [dispatches EXCEPT ![ledger[i].env] = @ + 1]
    BY <1>1, <1>3, MarkDispatchedTold
  <2> QED BY <1>1, <2>1, <2>2
<1>4. CASE Pop \/ Export \/ Restart \/ Tick
  <2>1. dispatches' = dispatches /\ saved' \in {saved, ledger}
    BY <1>4 DEF Pop, Export, Restart, Start, Tick, historyVars
  <2> QED BY <1>1, <2>1
<1>5. ASSUME NEW e \in Envelopes, NEW w \in WallReadings, NEW m \in MonoSamples, Submit(e, w, m)
      PROVE  UNCHANGED <<dispatches, saved>>
  BY <1>5 DEF Submit, historyVars
<1>6. ASSUME NEW i \in Ids, NEW st \in Recorded, NEW w \in WallReadings, RecordResult(i, st, w)
      PROVE  UNCHANGED <<dispatches, saved>>
  BY <1>6 DEF RecordResult, historyVars
<1>7. ASSUME NEW a \in BOOLEAN, NEW s \in BOOLEAN, Invalidate(a, s)
      PROVE  UNCHANGED <<dispatches, saved>>
  BY <1>7 DEF Invalidate, historyVars
<1>8. ASSUME NEW p \in Policies, NEW w \in WallReadings, NEW m \in MonoSamples,
             UpdatePolicy(p, w, m)
      PROVE  UNCHANGED <<dispatches, saved>>
  BY <1>8 DEF UpdatePolicy
<1>9. UNCHANGED <<dispatches, saved>> => /\ \A e \in Envelopes : dispatches'[e] >= dispatches[e]
                                         /\ saved' \in {saved, ledger}
  BY <1>1
<1> QED BY <1>1, <1>2, <1>3, <1>4, <1>5, <1>6, <1>7, <1>8, <1>9 DEF QueueStep, Next

\* A datagram is counted once, for the loop's job.
LEMMA SentCases ==
  ASSUME TypeInv, [ServiceNext]_serviceVars
  PROVE  \/ sent' = sent
         \/ /\ Send /\ job \in Envelopes /\ sent'[job] = sent[job] + 1
            /\ \A e \in Envelopes \ {job} : sent'[e] = sent[e]
<1>1. CASE Send
  <2>1. job \in Envelopes
    BY <1>1, TypeFacts DEF Send, JobKnown, Working
  <2> QED BY <1>1, <2>1, TypeFacts DEF Send
<1>2. CASE UNCHANGED pastVars
  BY <1>2 DEF pastVars
<1>3. ASSUME NEW q \in BOOLEAN, Recheck(q) PROVE UNCHANGED pastVars
  BY <1>3 DEF Recheck
<1> QED BY <1>1, <1>2, <1>3, FollowCases, RestartFinds DEF TargetObserved, EvidenceLapsed

LEMMA SentGrows ==
  ASSUME TypeInv, [ServiceNext]_serviceVars, NEW e \in Envelopes, sent[e] > 0
  PROVE  sent'[e] > 0
<1>1. sent[e] \in Nat
  BY TypeFacts
<1> QED BY <1>1, SentCases

LEMMA CountedStep == ASSUME ServiceInv, [ServiceNext]_serviceVars PROVE Counted'
<1> SUFFICES ASSUME NEW e \in Envelopes, sent'[e] > 0 PROVE dispatches'[e] > 0
  BY DEF Counted
<1>0. /\ TypeInv /\ Counted /\ Pledged /\ dispatches \in [Envelopes -> Nat]
      /\ dispatches' \in [Envelopes -> Nat]
  <2>1. TypeInv'
    BY TypeStep DEF ServiceInv
  <2>2. dispatches' \in [Envelopes -> Nat]
    BY <2>1 DEF TypeInv, QueueInv, OnceInv, Base, TypeOK
  <2> QED BY <2>2, TypeFacts DEF ServiceInv, Control, History
<1>1. dispatches[e] > 0
  BY <1>0, SentCases DEF Counted, Pledged, Send
<1> QED BY <1>0, <1>1, QueueHistory

LEMMA FollowsOwnStep == ASSUME ServiceInv, [ServiceNext]_serviceVars PROVE FollowsOwn'
<1> SUFFICES ASSUME NEW s \in Shades, active'[s].env \in Envelopes
             PROVE  /\ active'[s].env.shade = s /\ dispatches'[active'[s].env] > 0
                    /\ sent'[active'[s].env] > 0 => newest'[s] = active'[s].env
  BY DEF FollowsOwn
<1>0. /\ TypeInv /\ FollowsOwn /\ Unsent /\ Pledged /\ Poised /\ FollowTypes /\ JobKnown
      /\ dispatches \in [Envelopes -> Nat]
  BY TypeFacts DEF ServiceInv, Control, History
<1>1. \A e \in Envelopes : dispatches[e] > 0 => dispatches'[e] > 0
  <2>1. TypeInv'
    BY TypeStep DEF ServiceInv
  <2>2. dispatches' \in [Envelopes -> Nat]
    BY <2>1 DEF TypeInv, QueueInv, OnceInv, Base, TypeOK
  <2> QED BY <1>0, <2>2, QueueHistory
<1>2. CASE UNCHANGED <<active, pastVars>>
  BY <1>0, <1>1, <1>2 DEF FollowsOwn, pastVars
<1>3. CASE Send
  <2>1. /\ active' = active /\ job \in Envelopes /\ job.shade \in Shades /\ active[job.shade].env = job
        /\ newest' = [newest EXCEPT ![job.shade] = job]
    BY <1>0, <1>3 DEF Send, Poised, JobKnown, Working
  <2>2. CASE active[s].env = job
    <3>1. s = job.shade
      BY <1>0, <2>1, <2>2 DEF FollowsOwn
    <3>2. newest'[s] = job
      BY <1>0, <2>1, <3>1 DEF FollowTypes
    <3> QED BY <1>0, <1>1, <2>1, <2>2, <3>2 DEF FollowsOwn
  <2>3. CASE active[s].env # job
    <3>1. sent'[active[s].env] = sent[active[s].env]
      BY <1>0, <1>3, <2>1, <2>3 DEF Send, FollowTypes
    <3>2. newest'[s] = newest[s]
      BY <1>0, <2>1, <2>3 DEF FollowTypes
    <3> QED BY <1>0, <1>1, <2>1, <3>1, <3>2 DEF FollowsOwn
  <2> QED BY <2>2, <2>3
<1>4. CASE ServiceRestart
  BY <1>4, JobFacts DEF ServiceRestart, Idle, NotActive
<1>5. ASSUME NEW q \in BOOLEAN, Recheck(q)
      PROVE  /\ active'[s].env.shade = s /\ dispatches'[active'[s].env] > 0
             /\ sent'[active'[s].env] > 0 => newest'[s] = active'[s].env
  <2>1. UNCHANGED pastVars /\ pc = "rechecking"
    BY <1>5 DEF Recheck
  <2>2. CASE active' = active
    BY <1>0, <1>1, <2>1, <2>2 DEF FollowsOwn, pastVars
  <2>3. CASE active' = Followed(job) /\ job.shade \in Shades
    <3>1. job \in Envelopes /\ sent[job] = 0 /\ dispatches[job] > 0
      BY <1>0, <2>1 DEF Unsent, Pledged, JobKnown, Working
    <3>2. active'[s].env = IF s = job.shade THEN job ELSE active[s].env
      BY <1>0, <2>3 DEF Followed, FollowTypes
    <3> QED BY <1>0, <1>1, <2>1, <3>1, <3>2 DEF FollowsOwn, pastVars
  <2> QED BY <1>5, <2>2, <2>3, RecheckFacts
<1>6. ASSUME NEW t \in Shades, TargetObserved(t) \/ EvidenceLapsed(t)
      PROVE  /\ active'[s].env.shade = s /\ dispatches'[active'[s].env] > 0
             /\ sent'[active'[s].env] > 0 => newest'[s] = active'[s].env
  <2>1. UNCHANGED pastVars /\ active' = [active EXCEPT ![t] = NotActive]
    BY <1>6 DEF TargetObserved, EvidenceLapsed
  <2>2. active'[s] = active[s]
    BY <1>0, <2>1, JobFacts DEF FollowTypes, NotActive
  <2> QED BY <1>0, <1>1, <2>1, <2>2 DEF FollowsOwn, pastVars
<1> QED BY <1>2, <1>3, <1>4, <1>5, <1>6, FollowCases

\* What a new process tells of what was saved.
LEMMA RestartTold ==
  ASSUME Base, Restart, NEW i \in Known(ledger')
  PROVE  /\ i \in Known(saved) /\ ledger'[i].env = saved[i].env /\ saved' = saved
         /\ ledger'[i].status = IF saved[i].status \in Waiting THEN "expired"
                                ELSE IF saved[i].status \in InFlight THEN "uncertain"
                                ELSE saved[i].status
<1>1. LedgerOK(saved) /\ i \in Ids /\ ledger'[i] # NoEntry /\ saved' = saved
  BY DEF Base, TypeOK, Known, Restart, Start
<1>2. ledger' = Restored(saved)
  BY <1>1, EmptyLedgerOK DEF Restart, Start
<1>3. saved[i] # NoEntry
  BY <1>1, <1>2 DEF Restored
<1>4. saved[i] \in Entry
  BY <1>1, <1>3 DEF LedgerOK
<1>5. ledger'[i] = [saved[i] EXCEPT !.deadline = NoDeadline,
                      !.status = IF saved[i].status \in Waiting THEN "expired"
                                 ELSE IF saved[i].status \in InFlight THEN "uncertain"
                                 ELSE saved[i].status]
  BY <1>1, <1>2, <1>3 DEF Restored
<1> QED BY <1>1, <1>3, <1>4, <1>5 DEF Entry, Known

LEMMA StatusFacts ==
  /\ "acknowledged" \in InFlight /\ "dispatched" \in InFlight /\ "rejected" \in Denied
  /\ "target_observed" \notin Waiting \cup InFlight \cup Denied
  /\ "uncertain" \notin Waiting \cup InFlight \cup Denied
  /\ Denied \cap (Waiting \cup InFlight) = {} /\ Waiting \cap InFlight = {}
  /\ Waiting = {"queued", "selected"} /\ InFlight = {"dispatched", "acknowledged"}
  /\ Denied = {"rejected", "expired", "superseded"}
BY DEF Waiting, InFlight, Denied

LEMMA HeardStep == ASSUME ServiceInv, [ServiceNext]_serviceVars PROVE HeardWasSent'
<1> SUFFICES ASSUME NEW i \in Known(ledger'), ledger'[i].status = "acknowledged"
             PROVE  sent'[ledger'[i].env] > 0
  BY DEF HeardWasSent
<1>0. /\ TypeInv /\ Base /\ HeardWasSent /\ Answering /\ i \in Ids /\ LedgerOK(ledger)
      /\ ledger'[i] # NoEntry
  BY TypeFacts DEF ServiceInv, Control, History, Known
<1>1. CASE ServiceRestart
  BY <1>0, <1>1, RestartTold, RestartFinds, StatusFacts
<1>2. CASE Left(i)
  <2>1. i \in Known(ledger) /\ ledger'[i].env = ledger[i].env /\ ledger[i].status = "acknowledged"
    BY <1>2, StatusFacts DEF Left, Same, Withdrawn
  <2>2. ledger[i].env \in Envelopes /\ sent[ledger[i].env] > 0
    BY <1>0, <2>1, EntryFacts DEF HeardWasSent
  <2> QED BY <1>0, <2>1, <2>2, SentGrows
<1>3. CASE Forgotten(i) \/ Received(i) \/ Committed(i)
  BY <1>0, <1>3 DEF Forgotten, Received, Committed, Told
<1>4. CASE Settled(i)
  <2>1. PICK e \in Envelopes, st \in {"rejected", "uncertain", "acknowledged", "target_observed"} :
          i = e.id /\ Recordable(e, st) /\ Reason(e, st) /\ Told(i, st)
    BY <1>4 DEF Settled
  <2>2. st = "acknowledged" /\ e = job /\ pc = "answered"
    BY <1>0, <2>1 DEF Told, Reason
  <2>3. ledger'[i].env = e
    BY <2>1 DEF Recordable, Owns, Told, Same
  <2>4. sent[e] > 0
    BY <1>0, <2>2 DEF Answering
  <2> QED BY <1>0, <2>3, <2>4, SentGrows
<1> QED BY <1>0, <1>1, <1>2, <1>3, <1>4, ReceiptCases

\* A receipt that says a command went out, of one that was sent, said so before.
LEMMA GoneOutBefore ==
  ASSUME ServiceInv, [ServiceNext]_serviceVars, ~ServiceRestart,
         NEW e \in Envelopes, sent[e] > 0, GoneOut(ledger', e)
  PROVE  GoneOut(ledger, e)
<1> DEFINE i == e.id
<1>0. /\ TypeInv /\ Unsent /\ i \in Ids /\ i \in Known(ledger') /\ ledger'[i].env = e
      /\ ledger'[i].status \notin Waiting \cup Denied /\ ledger'[i] # NoEntry
  BY JobFacts DEF ServiceInv, Control, GoneOut, Known
<1> HIDE DEF i
<1>1. CASE Left(i)
  BY <1>0, <1>1, StatusFacts DEF Left, Same, Withdrawn, GoneOut, i
<1>2. CASE Forgotten(i) \/ Received(i)
  BY <1>0, <1>2, StatusFacts DEF Forgotten, Received
<1>3. CASE Committed(i)
  <2>1. ledger'[i].env = job
    BY <1>0, <1>3 DEF Committed, Told, Same, Owns
  <2>2. sent[job] = 0
    BY <1>0, <1>3 DEF Committed, Unsent
  <2> QED BY <1>0, <2>1, <2>2
<1>4. CASE Settled(i)
  <2>1. PICK e1 \in Envelopes, st \in {"rejected", "uncertain", "acknowledged", "target_observed"} :
          i = e1.id /\ Recordable(e1, st) /\ Told(i, st)
    BY <1>4 DEF Settled
  <2>2. i \in Known(ledger) /\ ledger[i].env = e
    BY <1>0, <2>1 DEF Told, Same
  <2>3. ledger[i].status \in InFlight \cup {"uncertain"}
    BY <1>0, <2>1, StatusFacts DEF Recordable, Told
  <2> QED BY <2>2, <2>3, StatusFacts DEF GoneOut, i
<1> QED BY <1>0, <1>1, <1>2, <1>3, <1>4, ReceiptCases

LEMMA OnRecordStep == ASSUME ServiceInv, [ServiceNext]_serviceVars PROVE SentOnRecord'
<1> SUFFICES ASSUME NEW e \in Envelopes, sent'[e] > 0, GoneOut(ledger', e)
             PROVE  GoneOut(saved', e)
  BY DEF SentOnRecord, GoneOut, Known
<1>0. TypeInv /\ Base /\ SentOnRecord /\ Poised
  BY TypeFacts DEF ServiceInv, Control, History
<1>1. CASE ServiceRestart
  <2>1. /\ e.id \in Known(ledger') /\ ledger'[e.id].env = e
        /\ ledger'[e.id].status \notin Waiting \cup Denied
    BY DEF GoneOut
  <2>2. e.id \in Known(saved) /\ saved[e.id].env = e /\ saved' = saved
    BY <1>0, <1>1, <2>1, RestartTold, RestartFinds
  <2>3. saved[e.id].status \notin Waiting \cup Denied
    BY <1>0, <1>1, <2>1, RestartTold, RestartFinds, StatusFacts
  <2> QED BY <2>2, <2>3 DEF GoneOut
<1>2. CASE Send /\ e = job
  <2>1. saved' = saved /\ GoneOut(saved, job)
    BY <1>0, <1>2 DEF Send, Poised, commands, vars
  <2> QED BY <1>2, <2>1 DEF GoneOut
<1>3. CASE ~ServiceRestart /\ ~(Send /\ e = job)
  <2>1. sent[e] > 0
    BY <1>0, <1>3, SentCases
  <2>2. GoneOut(ledger, e)
    BY <1>3, <2>1, GoneOutBefore
  <2>3. GoneOut(saved, e)
    BY <1>0, <2>1, <2>2 DEF SentOnRecord
  <2>4. saved' \in {saved, ledger}
    BY <1>0, QueueHistory
  <2> QED BY <2>2, <2>3, <2>4
<1> QED BY <1>1, <1>2, <1>3

\* A life that found its record goes on knowing it; a journal that failed stays as it is.
LEMMA JournalLeft ==
  ASSUME [ServiceNext]_serviceVars, ~ServiceRestart
  PROVE  informed' = informed /\ (~journal_ok => ~journal_ok' /\ saved' = saved)
<1> DEFINE Aside == UNCHANGED <<informed, journal_ok, saved>>
<1>1. CASE ClearReset \/ Discover \/ BridgeSilent \/ Choose \/ PopNone \/ NotAsked \/ Send
           \/ SendFailed \/ Acknowledged \/ NotAcknowledged \/ ConnectionRefused
           \/ UNCHANGED serviceVars
  BY <1>1 DEF ClearReset, Discover, BridgeSilent, Choose, PopNone, NotAsked, Send,
       SendFailed, Acknowledged, NotAcknowledged, ConnectionRefused, serviceVars, commands, vars,
       pastVars
<1>2. CASE CallbackPersists \/ LoopPersists \/ Finish \/ RecordDispatch
  BY <1>2 DEF CallbackPersists, LoopPersists, Finish, RecordDispatch, Persist, pastVars
<1>3. CASE OnConnect \/ OnDisconnect \/ DiscoveryFailed \/ TokenRotated \/ WithdrawAfterError
           \/ PopCommand \/ ServiceTick
  <2>1. saved' = saved
    BY <1>3 DEF OnConnect, OnDisconnect, DiscoveryFailed, TokenRotated, WithdrawAfterError,
         Invalidate, PopCommand, Pop, ServiceTick, Tick
  <2>2. UNCHANGED <<journal_ok, pastVars>>
    BY <1>3, Zenon DEF OnConnect, OnDisconnect, DiscoveryFailed, TokenRotated, WithdrawAfterError,
         PopCommand, ServiceTick
  <2> QED BY <2>1, <2>2 DEF pastVars
<1>4. ASSUME NEW b \in BOOLEAN, Discovered(b) \/ Execute(b) PROVE Aside
  BY <1>4 DEF Discovered, Execute, Invalidate, commands, vars, pastVars
<1>5. CASE Refuse \/ Deny \/ Unrecorded \/ TakeAnswer \/ Fail
  BY <1>5 DEF Refuse, Deny, Unrecorded, TakeAnswer, RecordAnswer, Fail, Record, RecordResult,
       commands, vars, pastVars
<1>6. ASSUME NEW q \in BOOLEAN, Admit(q) PROVE Aside
  BY <1>6 DEF Admit, MarkDispatched, commands, vars, pastVars
<1>7. ASSUME NEW q \in BOOLEAN, Recheck(q) PROVE Aside
  BY <1>7 DEF Recheck, Relieve, RecordResult, ReadClock, pastVars
<1>8. ASSUME NEW s \in Shades, TargetObserved(s) \/ EvidenceLapsed(s) PROVE Aside
  BY <1>8 DEF TargetObserved, EvidenceLapsed, RecordActive, RecordResult, commands, vars, pastVars
<1>9. ASSUME NEW e \in Envelopes, Deliver(e) PROVE Aside
  BY <1>9 DEF Deliver, Submit, pastVars
<1>10. ASSUME NEW p \in Policies, DeliverPolicy(p) PROVE Aside
  BY <1>10 DEF DeliverPolicy, UpdatePolicy, pastVars
<1> QED BY <1>1, <1>2, <1>3, <1>4, <1>5, <1>6, <1>7, <1>8, <1>9, <1>10
       DEF ServiceNext, LoopStep, Callback

LEMMA UninformedStep == ASSUME ServiceInv, [ServiceNext]_serviceVars PROVE Uninformed'
<1> SUFFICES ASSUME ~informed' PROVE Uninformed'
  BY DEF Uninformed
<1>0. TypeInv /\ Uninformed /\ LedgerOK(ledger)
  BY TypeFacts DEF ServiceInv, History
<1>1. CASE ServiceRestart
  <2>1. ~journal_ok' /\ Known(ledger') = {}
    BY <1>1, RestartFinds, EmptyLedgerOK DEF Known
  <2> QED BY <2>1 DEF Uninformed, Known
<1>2. CASE ~ServiceRestart
  <2>1. ~informed /\ ~journal_ok /\ ~journal_ok'
    BY <1>0, <1>2, JournalLeft DEF Uninformed
  <2>2. ASSUME NEW i \in Known(ledger') PROVE ledger'[i].status \in Waiting \cup Denied
    <3>1. i \in Ids /\ ledger'[i] # NoEntry
      BY <2>2 DEF Known
    <3>2. i \in Known(ledger) => ledger[i].status \in Waiting \cup Denied
      BY <1>0, <2>1 DEF Uninformed
    <3>3. CASE Left(i)
      BY <2>2, <3>2, <3>3, StatusFacts DEF Left, Same, Withdrawn
    <3>4. CASE Settled(i)
      <4>1. PICK e \in Envelopes, st \in {"rejected", "uncertain", "acknowledged", "target_observed"} :
              i = e.id /\ Recordable(e, st) /\ Told(i, st)
        BY <3>4 DEF Settled
      <4>2. ledger[i].status \in Waiting
        BY <2>2, <3>2, <4>1, StatusFacts DEF Recordable, Told, Same
      <4> QED BY <4>1, <4>2, StatusFacts DEF Recordable, Told
    <3>5. CASE Forgotten(i) \/ Received(i)
      BY <3>1, <3>5, StatusFacts DEF Forgotten, Received
    <3> QED BY <1>0, <1>2, <2>1, <3>1, <3>3, <3>4, <3>5, ReceiptCases DEF Committed
  <2> QED BY <2>1, <2>2 DEF Uninformed, Known
<1> QED BY <1>1, <1>2

LEMMA ServiceStep == ServiceInv /\ [ServiceNext]_serviceVars => ServiceInv'
<1> SUFFICES ASSUME ServiceInv, [ServiceNext]_serviceVars PROVE ServiceInv'
  OBVIOUS
<1>1. TypeInv'
  BY TypeStep DEF ServiceInv
<1>2. Unsent' /\ Answering' /\ Pledged' /\ Journalled' /\ Poised'
  BY UnsentStep, AnsweringStep, PledgedStep, JournalledStep, PoisedStep
<1>3. FollowsOwn' /\ Counted' /\ HeardWasSent' /\ SentOnRecord' /\ Uninformed'
  BY FollowsOwnStep, CountedStep, HeardStep, OnRecordStep, UninformedStep
<1> QED BY <1>1, <1>2, <1>3 DEF ServiceInv, Control, History

LEMMA ServiceStart == ServiceInit => ServiceInv
<1> SUFFICES ASSUME ServiceInit PROVE ServiceInv
  OBVIOUS
<1>1. TypeInv
  BY TypeInit
<1>2. Control
  BY DEF ServiceInit, Control, Unsent, Answering, Pledged, Journalled, Poised
<1>3. FollowsOwn
  BY JobFacts DEF ServiceInit, FollowsOwn, NotActive
<1>4. HeardWasSent
  BY EmptyLedgerOK DEF ServiceInit, Init, HeardWasSent, Known
<1>5. Counted /\ SentOnRecord /\ Uninformed
  BY DEF ServiceInit, Counted, SentOnRecord, Uninformed
<1> QED BY <1>1, <1>2, <1>3, <1>4, <1>5 DEF ServiceInv, History

LEMMA ServiceAlways == ServiceSpec => []ServiceInv
BY ServiceStart, ServiceStep, PTL DEF ServiceSpec

(***************************************************************************)
(* The action properties                                                   *)
(***************************************************************************)
LEMMA RecheckDispatches ==
  ASSUME TypeInv, [ServiceNext]_serviceVars, dispatched', ~dispatched
  PROVE  \E q \in BOOLEAN : Recheck(q)
<1>1. ~(dispatched' = FALSE) /\ ~(UNCHANGED dispatched)
  OBVIOUS
<1>2. CASE ClearReset \/ BridgeSilent \/ ConnectionRefused \/ ServiceTick \/ OnConnect \/ OnDisconnect
           \/ CallbackPersists \/ UNCHANGED serviceVars
  BY <1>1, <1>2, Zenon DEF ClearReset, BridgeSilent, ConnectionRefused, ServiceTick, serviceVars,
       execVars, OnConnect, OnDisconnect, CallbackPersists
<1>3. CASE PopNone \/ LoopPersists \/ Finish \/ DiscoveryFailed \/ ServiceRestart
  BY <1>1, <1>3, Zenon DEF PopNone, LoopPersists, Finish, DiscoveryFailed, ServiceRestart, Idle, Done
<1>4. CASE TokenRotated \/ Choose \/ NotAsked \/ Acknowledged \/ NotAcknowledged \/ Send \/ SendFailed
           \/ WithdrawAfterError \/ Discover \/ PopCommand
  BY <1>1, <1>4, Zenon DEF TokenRotated, Choose, NotAsked, Acknowledged, NotAcknowledged, Send,
       SendFailed, WithdrawAfterError, Discover, PopCommand, Goto
<1>5. CASE Refuse \/ Deny \/ Unrecorded \/ TakeAnswer \/ Fail \/ RecordDispatch
  BY <1>1, <1>5, Zenon DEF Refuse, Deny, Unrecorded, TakeAnswer, Fail, RecordDispatch, Goto
<1>6. ASSUME NEW b \in BOOLEAN, Discovered(b) PROVE FALSE
  BY <1>1, <1>6, Zenon DEF Discovered
<1>7. ASSUME NEW b \in BOOLEAN, Execute(b) PROVE FALSE
  BY <1>1, <1>7, Zenon DEF Execute
<1>8. ASSUME NEW b \in BOOLEAN, Admit(b) PROVE FALSE
  BY <1>1, <1>8, Zenon DEF Admit, Goto
<1>9. ASSUME NEW s \in Shades, TargetObserved(s) \/ EvidenceLapsed(s) PROVE FALSE
  BY <1>1, <1>9, Zenon DEF TargetObserved, EvidenceLapsed, Goto
<1>10. ASSUME NEW e \in Envelopes, Deliver(e) PROVE FALSE
  BY <1>1, <1>10, Zenon DEF Deliver, execVars
<1>11. ASSUME NEW p \in Policies, DeliverPolicy(p) PROVE FALSE
  BY <1>1, <1>11, Zenon DEF DeliverPolicy, execVars
<1> QED BY <1>2, <1>3, <1>4, <1>5, <1>6, <1>7, <1>8, <1>9, <1>10, <1>11
       DEF ServiceNext, LoopStep, Callback

LEMMA AuthorityStep ==
  ASSUME ServiceInv, [ServiceNext]_serviceVars
  PROVE  /\ \A e \in Envelopes : sent'[e] > sent[e] =>
              /\ connected /\ SourceOf[e] = source_generation
              /\ jobs[e.id] = connection_generation /\ ledger[e.id].status = "dispatched"
              /\ e.command # "STOP" =>
                   /\ ~HasStop(ledger, jobs)
                   /\ e.origin = "automatic" =>
                        policy # NoPolicy /\ e.generation = policy.generation
         /\ dispatched' /\ ~dispatched =>
              /\ mono < ledger[job.id].deadline
              /\ job.origin = "automatic" /\ job.command # "STOP" => mono < policy_deadline
<1>0. TypeInv /\ Poised /\ sent \in [Envelopes -> Nat]
  BY TypeFacts DEF ServiceInv, Control
<1>1. ASSUME NEW e \in Envelopes, sent'[e] > sent[e] PROVE Authorised(e)
  <2>1. Send /\ e = job
    BY <1>0, <1>1, SentCases
  <2> QED BY <1>0, <2>1 DEF Send, Poised
<1>2. ASSUME dispatched', ~dispatched
      PROVE  /\ mono < ledger[job.id].deadline
             /\ job.origin = "automatic" /\ job.command # "STOP" => mono < policy_deadline
  <2>1. PICK q \in BOOLEAN : Recheck(q)
    BY <1>0, <1>2, RecheckDispatches
  <2>2. pc' # "denied"
    BY <1>0, <1>2, <2>1, Zenon DEF Recheck, Goto
  <2> QED BY <2>1, <2>2, RecheckFacts
<1> QED BY <1>1, <1>2 DEF Authorised

\* At the moment of its datagram a command's connection, source, policy and precedence
\* hold, and its time was not over when that was decided: the recheck of service.py
\* execute under the lock, whatever the network thread did before it.
THEOREM AuthorityWhole == ServiceSpec => SentWithAuthority
<1> DEFINE A == /\ \A e \in Envelopes : sent'[e] > sent[e] =>
                     /\ connected /\ SourceOf[e] = source_generation
                     /\ jobs[e.id] = connection_generation /\ ledger[e.id].status = "dispatched"
                     /\ e.command # "STOP" =>
                          /\ ~HasStop(ledger, jobs)
                          /\ e.origin = "automatic" =>
                               policy # NoPolicy /\ e.generation = policy.generation
                /\ dispatched' /\ ~dispatched =>
                     /\ mono < ledger[job.id].deadline
                     /\ job.origin = "automatic" /\ job.command # "STOP" => mono < policy_deadline
<1>1. ServiceInv /\ [ServiceNext]_serviceVars => A
  BY AuthorityStep
<1> HIDE DEF A
<1>2. ServiceSpec => [][A]_serviceVars
  BY <1>1, ServiceAlways, PTL DEF ServiceSpec
<1> QED BY <1>2 DEF SentWithAuthority, A

LEMMA AcknowledgedStep ==
  ASSUME ServiceInv, [ServiceNext]_serviceVars, NEW i \in Ids,
         ledger'[i] # NoEntry, ledger[i] # NoEntry,
         ledger'[i].status = "acknowledged", ledger[i].status # "acknowledged"
  PROVE  connected /\ jobs[i] = connection_generation /\ sent[ledger[i].env] > 0
<1>0. /\ TypeInv /\ Base /\ Answering /\ JobsCurrent /\ i \in Known(ledger')
  BY TypeFacts DEF ServiceInv, Control, TypeInv, QueueInv, Known
<1>1. ~ServiceRestart
  BY <1>0, RestartTold, RestartFinds, StatusFacts
<1>2. ~Left(i) /\ ~Forgotten(i) /\ ~Received(i) /\ ~Committed(i)
  BY <1>0, StatusFacts DEF Left, Withdrawn, Forgotten, Received, Committed, Told
<1>3. Settled(i)
  BY <1>0, <1>1, <1>2, ReceiptCases
<1>4. PICK e \in Envelopes, st \in {"rejected", "uncertain", "acknowledged", "target_observed"} :
        i = e.id /\ Recordable(e, st) /\ Reason(e, st) /\ Told(i, st)
  BY <1>3 DEF Settled
<1>5. st = "acknowledged" /\ e = job /\ pc = "answered" /\ connected
  BY <1>4 DEF Told, Reason
<1>6. jobs[i] # NoJob /\ ledger[i].env = e /\ ledger[i].status = "dispatched"
  BY <1>4, <1>5 DEF Recordable, Owns
<1>7. jobs[i] = connection_generation
  BY <1>0, <1>6 DEF JobsCurrent
<1> QED BY <1>0, <1>5, <1>6, <1>7 DEF Answering

\* An acknowledgement counts only for a motion that was sent, while the connection lives
\* under which it was accepted (service.py execute after the wait for the bridge).
THEOREM AcknowledgedTrue == ServiceSpec => AcknowledgedOnLink
<1> DEFINE A == \A i \in Ids : /\ ledger'[i] # NoEntry /\ ledger[i] # NoEntry
                               /\ ledger'[i].status = "acknowledged" /\ ledger[i].status # "acknowledged"
                  => connected /\ jobs[i] = connection_generation /\ sent[ledger[i].env] > 0
<1>1. ServiceInv /\ [ServiceNext]_serviceVars => A
  BY AcknowledgedStep
<1> HIDE DEF A
<1>2. ServiceSpec => [][A]_serviceVars
  BY <1>1, ServiceAlways, PTL DEF ServiceSpec
<1> QED BY <1>2 DEF AcknowledgedOnLink, A

LEMMA SessionCases ==
  ASSUME [ServiceNext]_serviceVars
  PROVE  ServiceRestart \/ session' = session
<1>1. CASE ClearReset \/ Discover \/ BridgeSilent \/ Choose \/ PopNone \/ NotAsked \/ Send
           \/ SendFailed \/ Acknowledged \/ NotAcknowledged \/ ConnectionRefused
           \/ UNCHANGED serviceVars
  BY <1>1 DEF ClearReset, Discover, BridgeSilent, Choose, PopNone, NotAsked, Send,
       SendFailed, Acknowledged, NotAcknowledged, ConnectionRefused, serviceVars, commands, vars
<1>2. CASE CallbackPersists \/ LoopPersists \/ Finish \/ RecordDispatch \/ ServiceTick
  BY <1>2 DEF CallbackPersists, LoopPersists, Finish, RecordDispatch, Persist, ServiceTick, Tick
<1>3. CASE OnConnect \/ OnDisconnect \/ DiscoveryFailed \/ TokenRotated \/ WithdrawAfterError
           \/ PopCommand
  BY <1>3 DEF OnConnect, OnDisconnect, DiscoveryFailed, TokenRotated, WithdrawAfterError,
       Invalidate, PopCommand, Pop
<1>4. ASSUME NEW b \in BOOLEAN, Discovered(b) \/ Execute(b) PROVE session' = session
  BY <1>4 DEF Discovered, Execute, Invalidate, commands, vars
<1>5. CASE Refuse \/ Deny \/ Unrecorded \/ TakeAnswer \/ Fail
  BY <1>5 DEF Refuse, Deny, Unrecorded, TakeAnswer, RecordAnswer, Fail, Record, RecordResult,
       commands, vars
<1>6. ASSUME NEW q \in BOOLEAN, Admit(q) PROVE session' = session
  BY <1>6 DEF Admit, MarkDispatched, commands, vars
<1>7. ASSUME NEW q \in BOOLEAN, Recheck(q) PROVE session' = session
  BY <1>7 DEF Recheck, Relieve, RecordResult, ReadClock
<1>8. ASSUME NEW s \in Shades, TargetObserved(s) \/ EvidenceLapsed(s) PROVE session' = session
  BY <1>8 DEF TargetObserved, EvidenceLapsed, RecordActive, RecordResult, commands, vars
<1>9. ASSUME NEW e \in Envelopes, Deliver(e) PROVE session' = session
  BY <1>9 DEF Deliver, Submit
<1>10. ASSUME NEW p \in Policies, DeliverPolicy(p) PROVE session' = session
  BY <1>10 DEF DeliverPolicy, UpdatePolicy
<1> QED BY <1>1, <1>2, <1>3, <1>4, <1>5, <1>6, <1>7, <1>8, <1>9, <1>10
       DEF ServiceNext, LoopStep, Callback

LEMMA CompletesStep ==
  ASSUME ServiceInv, [ServiceNext]_serviceVars, session' = session, NEW i \in Ids,
         ledger[i] # NoEntry, ledger'[i] # NoEntry,
         ledger'[i].status = "target_observed", ledger[i].status # "target_observed",
         sent[ledger[i].env] > 0
  PROVE  newest[ledger[i].env.shade] = ledger[i].env
<1>0. TypeInv /\ Base /\ FollowsOwn
  BY TypeFacts DEF ServiceInv, History
<1>1. ~ServiceRestart
  <2> SUFFICES ASSUME ServiceRestart PROVE FALSE
    OBVIOUS
  <2>1. session \in Nat /\ session' = session
    BY <1>0 DEF Base, TypeOK
  <2>2. session' = session + 1
    BY RestartFinds
  <2> QED BY <2>1, <2>2
<1>2. ~Left(i) /\ ~Forgotten(i) /\ ~Received(i) /\ ~Committed(i)
  BY StatusFacts DEF Left, Withdrawn, Forgotten, Received, Committed, Told
<1>3. PICK e \in Envelopes, st \in {"rejected", "uncertain", "acknowledged", "target_observed"} :
        i = e.id /\ Recordable(e, st) /\ Reason(e, st) /\ Told(i, st)
  BY <1>0, <1>1, <1>2, ReceiptCases DEF Settled
<1>4. ledger[i].env = e /\ \E s \in Shades : e = active[s].env
  BY <1>3 DEF Told, Reason, Recordable, Owns
<1> QED BY <1>0, <1>4 DEF FollowsOwn

\* A report completes the motion sent last on its shade (service.py handle_report), whether
\* a later command of the shade has been withdrawn, refused or sent meanwhile.
THEOREM NewestCompleted == ServiceSpec => CompletesNewest
<1> DEFINE A == \A i \in Ids :
                  /\ session' = session /\ ledger[i] # NoEntry /\ ledger'[i] # NoEntry
                  /\ ledger'[i].status = "target_observed" /\ ledger[i].status # "target_observed"
                  => LET e == ledger[i].env IN sent[e] > 0 => newest[e.shade] = e
<1>1. ServiceInv /\ [ServiceNext]_serviceVars => A
  BY CompletesStep
<1> HIDE DEF A
<1>2. ServiceSpec => [][A]_serviceVars
  BY <1>1, ServiceAlways, PTL DEF ServiceSpec
<1> QED BY <1>2 DEF CompletesNewest, A

(***************************************************************************)
(* Custody: the service implements the promise of module Custody           *)
(***************************************************************************)
\* What a receipt with a status says of its command.
Word(st) ==
  CASE st \in Waiting      -> "waiting"
    [] st \in Denied         -> "denied"
    [] st = "dispatched"     -> "out"
    [] st = "acknowledged"   -> "heard"
    [] st = "uncertain"      -> "unsure"
    [] OTHER                 -> "done"

Names(l, e) == e.id \in Known(l) /\ l[e.id].env = e

Says(l, e) == IF Names(l, e) THEN Word(l[e.id].status) ELSE "nothing"

LEMMA WordFacts ==
  /\ \A st : st \in Waiting => Word(st) = "waiting"
  /\ \A st : st \in Denied => Word(st) = "denied"
  /\ Word("dispatched") = "out" /\ Word("acknowledged") = "heard"
  /\ Word("uncertain") = "unsure" /\ Word("target_observed") = "done"
  /\ \A st : Word(st) \in {"waiting", "denied", "out", "heard", "unsure", "done"}
  /\ \A st : Word(st) = "out" => st = "dispatched"
  /\ \A st : Word(st) = "heard" => st = "acknowledged"
  /\ \A st : st \notin Waiting \cup InFlight => Word(st) \in {"denied", "unsure", "done"}
  /\ \A st : Word(st) \in {"out", "heard", "unsure", "done"} => st \notin Waiting \cup Denied
  /\ \A st : st \notin Waiting \cup InFlight \cup Denied => Word(st) \in {"unsure", "done"}
BY DEF Word, Waiting, InFlight, Denied

LEMMA SaysFacts ==
  ASSUME NEW l, NEW e
  PROVE  /\ Names(l, e) => Says(l, e) = Word(l[e.id].status)
         /\ ~Names(l, e) => Says(l, e) = "nothing"
BY DEF Says

LEMMA SaysTold ==
  ASSUME NEW e \in Envelopes
  PROVE  ToldOf(e) = Says(ledger, e) /\ ToldOf(e)' = Says(ledger', e)
<1>1. e.id \in Ids
  BY JobFacts
<1> QED BY <1>1 DEF ToldOf, Says, Names, Known, Word

\* A queued command was never sent.
LEMMA QueuedUnsent ==
  ASSUME ServiceInv, ServiceInv', [ServiceNext]_serviceVars, NEW e \in Envelopes,
         Names(ledger', e), ledger'[e.id].status = "queued"
  PROVE  sent[e] = 0
<1>1. /\ TypeInv /\ e.id \in Ids /\ e.id \in Known(ledger') /\ ledger'[e.id].env = e
      /\ sent[e] \in Nat
  BY JobFacts, TypeFacts DEF Names, ServiceInv
<1>2. /\ WaitingIsCurrent' /\ DispatchedIsSpent' /\ Counted' /\ session' \in Nat
      /\ dispatches' \in [Envelopes -> Nat] /\ sent' \in [Envelopes -> Nat]
  BY DEF ServiceInv, TypeInv, QueueInv, OnceInv, Base, TypeOK, History, ServiceTypeOK
<1>3. e.adapter = session'
  BY <1>1, <1>2 DEF WaitingIsCurrent, Waiting
<1>4. ~(Spent(e)')
  BY <1>1, <1>2, <1>3 DEF Spent, Holds, Known, Waiting
<1>5. dispatches'[e] = 0
  BY <1>1, <1>2, <1>4 DEF DispatchedIsSpent
<1>6. ~(sent'[e] > 0)
  BY <1>2, <1>5 DEF Counted
<1> QED BY <1>1, <1>6, SentGrows

\* The steps of Custody, on what the receipts say.
Moves(e, from, to) == Says(ledger, e) \in from /\ Says(ledger', e) = to /\ sent'[e] = sent[e]

Custodial(e) ==
  \/ Says(ledger', e) = Says(ledger, e) /\ sent'[e] = sent[e]
  \/ sent[e] = 0 /\ Moves(e, {"nothing"}, "waiting")
  \/ Moves(e, {"nothing", "waiting"}, "denied")
  \/ sent[e] = 0 /\ Moves(e, {"out"}, "denied")
  \/ informed /\ Moves(e, {"waiting"}, "out")
  \/ /\ sent[e] = 0 /\ sent'[e] = 1
     /\ Says(ledger, e) = "out" /\ Says(ledger', e) = "out"
  \/ sent[e] > 0 /\ Moves(e, {"out"}, "heard")
  \/ Moves(e, {"out", "heard"}, "unsure")
  \/ Moves(e, {"out", "heard", "unsure"}, "done")
  \/ Moves(e, {"waiting", "denied", "unsure", "done"}, "nothing")

LEMMA SettledCustodial ==
  ASSUME ServiceInv, NEW e \in Envelopes, Settled(e.id), sent'[e] = sent[e]
  PROVE  Custodial(e)
<1> USE DEF Custodial, Moves
<1>0. /\ HeardWasSent /\ Unsent /\ Answering /\ e.id \in Ids
  BY JobFacts DEF ServiceInv, Control, History
<1>1. PICK e1 \in Envelopes, st \in {"rejected", "uncertain", "acknowledged", "target_observed"} :
        e.id = e1.id /\ Recordable(e1, st) /\ Reason(e1, st) /\ Told(e.id, st)
  BY DEF Settled
<1>2. CASE e1 # e \/ e.id \notin Known(ledger)
  <2>1. ~Names(ledger, e) /\ ~Names(ledger', e)
    BY <1>1, <1>2 DEF Names, Recordable, Owns, Told, Same
  <2> QED BY <2>1, SaysFacts
<1>3. CASE e1 = e /\ e.id \in Known(ledger)
  <2>1. Names(ledger, e) /\ Names(ledger', e)
    BY <1>1, <1>3 DEF Names, Recordable, Owns, Told, Same
  <2>2. /\ Says(ledger, e) = Word(ledger[e.id].status) /\ Says(ledger', e) = Word(st)
    BY <1>1, <2>1, SaysFacts DEF Told
  <2>3. CASE st = "rejected"
    <3>1. sent[e] = 0
      BY <1>0, <1>1, <1>3, <2>3 DEF Reason, Unsent
    <3>2. ledger[e.id].status # "acknowledged"
      BY <1>0, <2>1, <3>1 DEF HeardWasSent, Names
    <3>3. ledger[e.id].status \in Waiting \cup {"dispatched"}
      BY <1>1, <1>3, <2>3, <3>2, StatusFacts DEF Recordable
    <3>4. Says(ledger, e) \in {"waiting", "out"} /\ Says(ledger', e) = "denied"
      BY <2>2, <2>3, <3>3, WordFacts, StatusFacts
    <3> QED BY <3>1, <3>4
  <2>4. CASE st = "uncertain"
    <3>1. ledger[e.id].status \in InFlight
      BY <1>1, <1>3, <2>4 DEF Recordable
    <3>2. Says(ledger, e) \in {"out", "heard"} /\ Says(ledger', e) = "unsure"
      BY <2>2, <2>4, <3>1, WordFacts, StatusFacts
    <3> QED BY <3>2
  <2>5. CASE st = "acknowledged"
    <3>1. ledger[e.id].status = "dispatched" /\ sent[e] > 0
      BY <1>0, <1>1, <1>3, <2>5 DEF Recordable, Reason, Answering
    <3>2. Says(ledger, e) = "out" /\ Says(ledger', e) = "heard"
      BY <2>2, <2>5, <3>1, WordFacts
    <3> QED BY <3>1, <3>2
  <2>6. CASE st = "target_observed"
    <3>1. ledger[e.id].status \in InFlight \cup {"uncertain"}
      BY <1>1, <1>3, <2>6 DEF Recordable
    <3>2. Says(ledger, e) \in {"out", "heard", "unsure"} /\ Says(ledger', e) = "done"
      BY <2>2, <2>6, <3>1, WordFacts, StatusFacts
    <3> QED BY <3>2
  <2> QED BY <2>3, <2>4, <2>5, <2>6
<1> QED BY <1>2, <1>3

LEMMA HandleCustodial ==
  ASSUME ServiceInv, ServiceInv', [ServiceNext]_serviceVars, ~ServiceRestart, NEW e \in Envelopes
  PROVE  Custodial(e)
<1> USE DEF Custodial, Moves
<1>0. TypeInv /\ Unsent /\ Poised /\ e.id \in Ids /\ sent \in [Envelopes -> Nat]
  BY JobFacts, TypeFacts DEF ServiceInv, Control
<1>1. CASE Send /\ e = job
  <2>1. sent[e] = 0 /\ sent'[e] = 1
    BY <1>0, <1>1 DEF Send, Unsent
  <2>2. Names(ledger, e) /\ ledger[e.id].status = "dispatched" /\ ledger' = ledger
    BY <1>0, <1>1 DEF Send, Poised, Authorised, Names, commands, vars, queueVars
  <2>3. Says(ledger, e) = "out" /\ Says(ledger', e) = "out"
    BY <2>2, SaysFacts, WordFacts
  <2> QED BY <2>1, <2>3
<1>2. CASE ~(Send /\ e = job)
  <2>0. sent'[e] = sent[e]
    BY <1>0, <1>2, SentCases
  <2>1. CASE Left(e.id)
    <3>1. Names(ledger, e) <=> Names(ledger', e)
      BY <2>1 DEF Names, Left, Same
    <3>2. CASE ~Names(ledger, e)
      BY <2>0, <3>1, <3>2, SaysFacts
    <3>3. CASE Names(ledger, e)
      <4>1. /\ Says(ledger, e) = Word(ledger[e.id].status)
            /\ Says(ledger', e) = Word(ledger'[e.id].status)
        BY <3>1, <3>3, SaysFacts
      <4>2. Withdrawn(ledger[e.id].status, ledger'[e.id].status)
        BY <2>1 DEF Left
      <4>3. \/ Says(ledger', e) = Says(ledger, e)
            \/ Says(ledger, e) = "waiting" /\ Says(ledger', e) = "denied"
            \/ Says(ledger, e) \in {"out", "heard"} /\ Says(ledger', e) = "unsure"
        BY <4>1, <4>2, WordFacts, StatusFacts DEF Withdrawn
      <4> QED BY <2>0, <4>3
    <3> QED BY <3>2, <3>3
  <2>2. CASE Forgotten(e.id)
    <3>1. Says(ledger', e) = "nothing"
      BY <2>2, SaysFacts DEF Forgotten, Names, Known
    <3>2. Says(ledger, e) \in {"nothing", "waiting", "denied", "unsure", "done"}
      BY <2>2, SaysFacts, WordFacts, StatusFacts DEF Forgotten
    <3> QED BY <2>0, <3>1, <3>2
  <2>3. CASE Received(e.id)
    <3>1. Says(ledger, e) = "nothing"
      BY <2>3, SaysFacts DEF Received, Names, Known
    <3>2. CASE ~Names(ledger', e)
      BY <2>0, <3>1, <3>2, SaysFacts
    <3>3. CASE Names(ledger', e) /\ ledger'[e.id].status = "queued"
      <4>1. Says(ledger', e) = "waiting"
        BY <3>3, SaysFacts, WordFacts, StatusFacts
      <4> QED BY <2>0, <3>1, <3>3, <4>1, QueuedUnsent
    <3>4. CASE Names(ledger', e) /\ ledger'[e.id].status = "rejected"
      <4>1. Says(ledger', e) = "denied"
        BY <3>4, SaysFacts, WordFacts, StatusFacts
      <4> QED BY <2>0, <3>1, <4>1
    <3> QED BY <2>3, <3>2, <3>3, <3>4 DEF Received, Names, Known
  <2>4. CASE Settled(e.id)
    BY <2>0, <2>4, SettledCustodial
  <2>5. CASE Committed(e.id)
    <3>1. Names(ledger, e) <=> Names(ledger', e)
      BY <2>5 DEF Names, Committed, Told, Same
    <3>2. CASE ~Names(ledger, e)
      BY <2>0, <3>1, <3>2, SaysFacts
    <3>3. CASE Names(ledger, e)
      <4>1. Says(ledger, e) = "waiting" /\ Says(ledger', e) = "out"
        BY <2>5, <3>1, <3>3, SaysFacts, WordFacts DEF Committed, Told
      <4>2. informed
        BY <2>5 DEF Committed, ServiceInv, History, Uninformed
      <4> QED BY <2>0, <4>1, <4>2
    <3> QED BY <3>2, <3>3
  <2> QED BY <1>0, <2>1, <2>2, <2>3, <2>4, <2>5, ReceiptCases
<1> QED BY <1>1, <1>2

\* A restart finds again what was on record as sent.
LEMMA RestartKeeps ==
  ASSUME ServiceInv, Start(TRUE), NEW e \in Envelopes, GoneOut(saved, e)
  PROVE  Names(ledger', e) /\ ledger'[e.id].status \notin Waiting \cup InFlight \cup Denied
<1>1. /\ Base /\ Bounded(saved) /\ LedgerOK(saved) /\ e.id \in Ids /\ e.id \in Known(saved)
      /\ saved[e.id].env = e /\ saved[e.id].status \notin Waiting \cup Denied
  BY JobFacts, TypeFacts DEF ServiceInv, TypeInv, QueueInv, LedgerInv, GoneOut
<1>2. ledger' = Restored(saved)
  BY <1>1, BoundedImportable DEF Start
<1>3. saved[e.id] \in Entry /\ saved[e.id] # NoEntry
  BY <1>1, EntryFacts DEF Known
<1>4. PICK st \in {"uncertain", saved[e.id].status} :
        Restored(saved)[e.id] = [saved[e.id] EXCEPT !.deadline = NoDeadline, !.status = st]
  BY <1>1, <1>3 DEF Restored
<1>5. st \in Outcomes
  BY <1>3, <1>4, JobFacts DEF Entry
<1>6. ledger'[e.id] \in Entry
  BY <1>2, <1>3, <1>4, <1>5 DEF Entry
<1>7. e.id \in Known(ledger')
  BY <1>1, <1>6, EntryFacts DEF Known
<1>8. /\ ledger'[e.id].env = saved[e.id].env
      /\ ledger'[e.id].status = IF saved[e.id].status \in Waiting THEN "expired"
                                ELSE IF saved[e.id].status \in InFlight THEN "uncertain"
                                ELSE saved[e.id].status
  BY <1>1, <1>7, RestartTold DEF Restart
<1> QED BY <1>1, <1>7, <1>8, StatusFacts DEF Names

LEMMA RestartCustodial ==
  ASSUME ServiceInv, ServiceRestart, NEW e \in Envelopes
  PROVE  /\ informed' => Says(ledger', e) \in IF GoneOut(saved, e) THEN {"unsure", "done"}
                                              ELSE {"nothing", "denied"}
         /\ ~informed' => Says(ledger', e) = "nothing"
<1>0. Base
  BY TypeFacts DEF ServiceInv
<1>1. ASSUME informed', GoneOut(saved, e) PROVE Says(ledger', e) \in {"unsure", "done"}
  <2>1. Names(ledger', e) /\ ledger'[e.id].status \notin Waiting \cup InFlight \cup Denied
    BY <1>1, RestartFinds, RestartKeeps
  <2> QED BY <2>1, SaysFacts, WordFacts
<1>2. ASSUME ~GoneOut(saved, e), Names(ledger', e) PROVE Says(ledger', e) = "denied"
  <2>1. /\ e.id \in Known(saved) /\ saved[e.id].env = e
        /\ ledger'[e.id].status = IF saved[e.id].status \in Waiting THEN "expired"
                                  ELSE IF saved[e.id].status \in InFlight THEN "uncertain"
                                  ELSE saved[e.id].status
    BY <1>0, <1>2, RestartTold, RestartFinds DEF Names
  <2>2. saved[e.id].status \in Waiting \cup Denied
    BY <1>2, <2>1 DEF GoneOut
  <2>3. ledger'[e.id].status \in Denied
    BY <2>1, <2>2, StatusFacts
  <2> QED BY <1>2, <2>3, SaysFacts, WordFacts
<1>3. ~informed' => ~Names(ledger', e)
  BY RestartFinds, EmptyLedgerOK DEF Names, Known
<1> QED BY <1>1, <1>2, <1>3, SaysFacts

\* One step of the service is a step of Custody.
LEMMA CustodyStep ==
  ASSUME ServiceInv, ServiceInv', [ServiceNext]_serviceVars
  PROVE  [Owed!Next]_(Owed!vars)
<1> DEFINE T == [e \in Envelopes |-> ToldOf(e)]
           OnFile == {e \in Envelopes : GoneOut(saved, e)}
<1>1. \A e \in Envelopes : T[e] = Says(ledger, e) /\ (T[e])' = Says(ledger', e)
  BY SaysTold
<1>2. CASE ~ServiceRestart
  <2>1. session' = session
    BY <1>2, SessionCases
  <2>2. ASSUME NEW e \in Envelopes
        PROVE  \/ Owed!Stay(e) \/ Owed!Accept(e) \/ Owed!Deny(e) \/ Owed!Commit(e) \/ Owed!Send(e)
               \/ Owed!Hear(e) \/ Owed!Doubt(e) \/ Owed!Observe(e) \/ Owed!Forget(e)
    <3>1. Custodial(e)
      BY <1>2, <2>2, HandleCustodial
    <3>2. ToldOf(e) = Says(ledger, e) /\ ToldOf(e)' = Says(ledger', e)
      BY <2>2, SaysTold
    <3> QED BY <3>1, <3>2 DEF Custodial, Moves, Owed!Stay, Owed!Accept, Owed!Deny, Owed!Commit,
              Owed!Send, Owed!Hear, Owed!Doubt, Owed!Observe, Owed!Forget, Owed!Becomes
  <2>3. ASSUME NEW e \in Envelopes, sent'[e] > 0, ToldOf(e)' \in Owed!Gone
        PROVE  GoneOut(saved', e)
    <3>1. Says(ledger', e) \in {"out", "heard", "unsure", "done"}
      BY <2>3, SaysTold DEF Owed!Gone
    <3>2. GoneOut(ledger', e)
      BY <3>1, SaysFacts, WordFacts DEF GoneOut, Names
    <3> QED BY <2>3, <3>2 DEF ServiceInv, History, SentOnRecord, GoneOut, Known
  <2>4. informed' = informed /\ (~informed => saved' = saved)
    BY <1>2, JournalLeft DEF ServiceInv, History, Uninformed
  <2>5. ~informed => OnFile' = OnFile
    BY <2>4 DEF GoneOut, Known
  <2>6. \A e \in Envelopes : sent'[e] > 0 /\ (T[e])' \in Owed!Gone => e \in OnFile'
    BY <2>3 DEF GoneOut, Known
  <2>7. Owed!Handle
    BY <2>1, <2>2, <2>4, <2>5, <2>6 DEF Owed!Handle
  <2> QED BY <2>7 DEF Owed!Next
<1>3. CASE ServiceRestart
  <2>1. session' = session + 1 /\ sent' = sent /\ informed' \in BOOLEAN
    BY <1>3, RestartFinds
  <2>2. OnFile' = OnFile
    BY <1>3, RestartFinds DEF GoneOut, Known
  <2>3. ASSUME NEW e \in Envelopes
        PROVE  /\ informed' => ToldOf(e)' \in IF e \in OnFile THEN {"unsure", "done"}
                                              ELSE {"nothing", "denied"}
               /\ ~informed' => ToldOf(e)' = "nothing"
    BY <1>3, <2>3, SaysTold, RestartCustodial
  <2>4. ASSUME informed' PROVE Owed!Resume
    <3>1. informed' = TRUE
      BY <2>1, <2>4, Zenon
    <3>2. \A e \in Envelopes : (T[e])' \in IF e \in OnFile THEN {"unsure", "done"}
                                              ELSE {"nothing", "denied"}
      BY <2>3, <2>4
    <3> QED BY <3>1, <3>2, Zenon DEF Owed!Resume
  <2>5. ASSUME ~informed' PROVE Owed!StartBlind
    <3>1. informed' = FALSE
      BY <2>1, <2>5, Zenon
    <3>2. T' = [e \in Envelopes |-> "nothing"]
      BY <2>3, <2>5
    <3> QED BY <3>1, <3>2, Zenon DEF Owed!StartBlind
  <2>6. Owed!Resume \/ Owed!StartBlind
    BY <2>4, <2>5, Zenon
  <2>7. Owed!Restart
    BY <2>1, <2>2, <2>6, Zenon DEF Owed!Restart
  <2> QED BY <2>7 DEF Owed!Next
<1> QED BY <1>2, <1>3

LEMMA CustodyInit == ServiceInit => Owed!Init
<1> SUFFICES ASSUME ServiceInit PROVE Owed!Init
  OBVIOUS
<1>1. ASSUME NEW e \in Envelopes PROVE ToldOf(e) = "nothing"
  <2>1. e.id \in Ids /\ ledger[e.id] = NoEntry
    BY JobFacts, EmptyLedgerOK DEF ServiceInit, Init
  <2>2. ~Names(ledger, e)
    BY <2>1 DEF Names, Known
  <2> QED BY <1>1, <2>2, SaysFacts, SaysTold
<1>2. {e \in Envelopes : GoneOut(saved, e)} = {}
  BY EmptyLedgerOK DEF ServiceInit, Init, GoneOut, Known
<1> QED BY <1>1, <1>2 DEF ServiceInit, Init, Owed!Init

\* The service keeps custody of every command (module Custody), with a ledger of any size,
\* any clocks, any failures of the journal and any number of restarts.
THEOREM CustodyImplemented == ServiceSpec => CustodyKept
<1>1. ServiceInit => Owed!Init
  BY CustodyInit
<1>2. ServiceInv /\ ServiceInv' /\ [ServiceNext]_serviceVars => [Owed!Next]_(Owed!vars)
  BY CustodyStep
<1>3. ServiceSpec => Owed!Init /\ [][Owed!Next]_(Owed!vars)
  BY <1>1, <1>2, ServiceAlways, PTL DEF ServiceSpec
<1> QED BY <1>3 DEF CustodyKept, Owed!Spec

(***************************************************************************)
(* A ledger that forgets nothing                                           *)
(***************************************************************************)
SentKnown ==
  \A e \in Envelopes : sent[e] > 0 => (informed => GoneOut(ledger, e)) /\ GoneOut(saved, e)

LEMMA KnownInLedger ==
  ASSUME RoomForAll, SentKnown, ServiceInv, [ServiceNext]_serviceVars, NEW e \in Envelopes,
         sent'[e] > 0, informed'
  PROVE  GoneOut(ledger', e)
<1>0. /\ TypeInv /\ Unsent /\ Poised /\ SentOnRecord /\ e.id \in Ids
  BY JobFacts DEF ServiceInv, Control, History
<1>1. CASE Send /\ e = job
  <2>1. Authorised(job) /\ ledger' = ledger
    BY <1>0, <1>1 DEF Send, Poised, commands, vars, queueVars
  <2> QED BY <1>1, <2>1, StatusFacts DEF Authorised, GoneOut
<1>2. CASE ServiceRestart
  <2>1. sent[e] > 0 /\ Start(TRUE)
    BY <1>2, RestartFinds
  <2>2. GoneOut(saved, e)
    BY <2>1 DEF SentKnown
  <2> QED BY <2>1, <2>2, RestartKeeps DEF Names, GoneOut
<1>3. CASE ~(Send /\ e = job) /\ ~ServiceRestart
  <2>1. sent[e] > 0
    BY <1>0, <1>3, SentCases
  <2>2. /\ e.id \in Known(ledger) /\ ledger[e.id].env = e /\ ledger[e.id] # NoEntry
        /\ ledger[e.id].status \notin Waiting \cup Denied
    BY <1>3, <2>1, JournalLeft DEF SentKnown, GoneOut, Known
  <2>3. CASE Left(e.id)
    BY <2>2, <2>3, StatusFacts DEF Left, Same, Withdrawn, GoneOut
  <2>4. CASE Settled(e.id)
    <3>1. PICK e1 \in Envelopes, st \in {"rejected", "uncertain", "acknowledged", "target_observed"} :
            e.id = e1.id /\ Recordable(e1, st) /\ Reason(e1, st) /\ Told(e.id, st)
      BY <2>4 DEF Settled
    <3>2. e1 = e
      BY <2>2, <3>1 DEF Recordable, Owns
    <3>3. st # "rejected"
      BY <1>0, <2>1, <3>1, <3>2 DEF Reason, Unsent
    <3> QED BY <2>2, <3>1, <3>3, StatusFacts DEF Told, Same, GoneOut
  <2>5. ~Committed(e.id)
    BY <2>2 DEF Committed
  <2> QED BY <1>0, <1>3, <2>2, <2>3, <2>4, <2>5, ReceiptCases DEF Received
<1> QED BY <1>1, <1>2, <1>3

LEMMA KnownStep ==
  ASSUME RoomForAll, SentKnown, ServiceInv, [ServiceNext]_serviceVars
  PROVE  SentKnown'
<1> SUFFICES ASSUME NEW e \in Envelopes, sent'[e] > 0
             PROVE  (informed' => GoneOut(ledger', e)) /\ GoneOut(saved', e)
  BY DEF SentKnown, GoneOut, Known
<1>0. TypeInv /\ Base /\ Poised /\ Uninformed
  BY TypeFacts DEF ServiceInv, Control, History
<1>1. informed' => GoneOut(ledger', e)
  BY KnownInLedger
<1>2. CASE Send /\ e = job
  <2>1. saved' = saved /\ GoneOut(saved, job)
    BY <1>0, <1>2 DEF Send, Poised, commands, vars
  <2> QED BY <1>1, <1>2, <2>1 DEF GoneOut
<1>3. CASE ~(Send /\ e = job)
  <2>1. sent[e] > 0
    BY <1>0, <1>3, SentCases
  <2>2. GoneOut(saved, e) /\ (informed => GoneOut(ledger, e))
    BY <2>1 DEF SentKnown
  <2>3. saved' = saved \/ (saved' = ledger /\ informed)
    BY <1>0, JournalLeft, RestartFinds, QueueHistory DEF Uninformed
  <2> QED BY <1>1, <2>2, <2>3
<1> QED BY <1>2, <1>3

\* While the ledger has a place for every identity, no receipt of a process that found its
\* record, and no journal, ever says of a command that was sent that it was not, also after
\* lives that could not read the journal (execute writes the commitment before the
\* datagram, no withdrawal undoes it, and a journal that failed is left alone).
THEOREM SentNeverDenied == RoomForAll => (ServiceSpec => []SentIsNeverDenied)
<1> SUFFICES ASSUME RoomForAll PROVE ServiceSpec => []SentIsNeverDenied
  OBVIOUS
<1>1. ServiceInit => SentKnown
  BY DEF ServiceInit, SentKnown
<1>2. SentKnown /\ ServiceInv /\ [ServiceNext]_serviceVars => SentKnown'
  BY KnownStep
<1>3. SentKnown /\ ServiceInv => SentIsNeverDenied
  <2> SUFFICES ASSUME SentKnown, ServiceInv, NEW e \in Envelopes, sent[e] > 0
               PROVE  /\ informed /\ ledger[e.id] # NoEntry
                           => ledger[e.id].status \notin Waiting \cup Denied
                      /\ saved[e.id] # NoEntry /\ saved[e.id].status \notin Waiting \cup Denied
    BY DEF SentIsNeverDenied
  <2>1. (informed => GoneOut(ledger, e)) /\ GoneOut(saved, e)
    BY DEF SentKnown
  <2> QED BY <2>1 DEF GoneOut, Known
<1> QED BY <1>1, <1>2, <1>3, ServiceAlways, PTL DEF ServiceSpec

(***************************************************************************)
(* The queue's promises, kept by the service                               *)
(***************************************************************************)
\* A write of the journal and a reading of the clock leave the queue as it was.
LEMMA AsideFacts ==
  ASSUME Base, Written \/ Clocked
  PROVE  /\ Base' /\ UNCHANGED <<session, connection_generation, policy, policy_deadline,
                                 policy_generations, ledger, jobs, pending, ahead, mono,
                                 latest_dispatched, dispatches, last_on, displaced,
                                 first_effective>>
         /\ utc_highwater \in Nat /\ utc_highwater' \in Nat /\ utc_highwater <= utc_highwater'
<1>1. Base'
  BY WrittenKeepsBase
<1>2. UNCHANGED <<session, connection_generation, policyVars, queueVars, mono,
                  latest_dispatched, historyVars>>
  <2>1. CASE Written
    BY <2>1 DEF Written, policyVars, queueVars, historyVars
  <2>2. CASE Clocked
    BY <2>2 DEF Clocked, ReadClock, policyVars, queueVars, historyVars
  <2> QED BY <2>1, <2>2
<1>3. utc_highwater \in Nat /\ utc_highwater' \in Nat
  BY <1>1 DEF Base, TypeOK
<1>4. utc_highwater <= utc_highwater'
  BY <1>3, NowFacts DEF Written, Clocked, ReadClock
<1> QED BY <1>1, <1>2, <1>3, <1>4 DEF policyVars, queueVars, historyVars

LEMMA QueueLine == LineInv /\ QueueStep => LineInv'
<1> SUFFICES ASSUME LineInv, Written \/ Clocked PROVE LineInv'
  BY LineStep DEF QueueStep
<1>1. Base' /\ UNCHANGED <<ledger, jobs, pending, ahead>>
  BY AsideFacts DEF LineInv
<1> QED BY <1>1 DEF LineInv, HasJobs, InOneOrder, StopsFirst, OneWaitingPerShade,
                OrdinaryWithinLimit

LEMMA QueueCurrent == CurrentInv /\ QueueStep => CurrentInv'
<1> SUFFICES ASSUME CurrentInv, Written \/ Clocked PROVE CurrentInv'
  BY CurrentStep DEF QueueStep
<1>1. Base' /\ UNCHANGED <<ledger, jobs, policy>>
  BY AsideFacts DEF CurrentInv
<1> QED BY <1>1 DEF CurrentInv, AutomationIsCurrent

LEMMA QueuePolicy == PolicyInv /\ QueueStep => PolicyInv'
<1> SUFFICES ASSUME PolicyInv, Written \/ Clocked PROVE PolicyInv'
  BY PolicyStep DEF QueueStep
<1>1. /\ Base' /\ UNCHANGED <<session, policy, policy_deadline, policy_generations, displaced,
                              first_effective>>
      /\ utc_highwater \in Nat /\ utc_highwater' \in Nat /\ utc_highwater <= utc_highwater'
  BY AsideFacts DEF PolicyInv
<1>2. DisplacedOvertaken'
  <2> SUFFICES ASSUME NEW d \in displaced, d.expires <= utc_highwater
               PROVE  d.expires <= utc_highwater'
    BY <1>1 DEF PolicyInv, DisplacedOvertaken, Overtaken
  <2>1. d.expires \in Nat
    BY PolicyFacts DEF PolicyInv, Base, TypeOK
  <2> QED BY <1>1, <2>1
<1>3. GenerationRemembered' /\ ReplacedPolicyStaysOut' /\ EffectiveKnown' /\ PolicyNotProlonged'
  BY <1>1 DEF PolicyInv, GenerationRemembered, ReplacedPolicyStaysOut, EffectiveKnown,
              PolicyNotProlonged
<1> QED BY <1>1, <1>2, <1>3 DEF PolicyInv

LEMMA QueueOwn == OwnInv /\ QueueStep => OwnInv'
<1> SUFFICES ASSUME OwnInv, Written \/ Clocked PROVE OwnInv'
  BY OwnStep DEF QueueStep
<1>1. OnceInv' /\ Base
  BY QueueOnce DEF QueueStep, OwnInv, OnceInv
<1>2. UNCHANGED <<latest_dispatched, last_on, dispatches>>
  BY <1>1, AsideFacts
<1> QED BY <1>1, <1>2 DEF OwnInv, LastKnown

LEMMA ServiceSteps == ServiceInv /\ [ServiceNext]_serviceVars => QueueStep
BY ServiceQueueStep DEF ServiceInv, TypeInv

LEMMA InServiceAlways == ServiceSpec => [](LineInv /\ CurrentInv /\ PolicyInv /\ OwnInv)
<1> DEFINE Whole == LineInv /\ CurrentInv /\ PolicyInv /\ OwnInv
<1>1. ServiceInit => Whole
  <2> SUFFICES ASSUME ServiceInit, Init PROVE Whole
    BY DEF ServiceInit
  <2>1. CurrentInv
    BY BaseInit DEF Init, CurrentInv, AutomationIsCurrent
  <2>2. OwnInv
    BY OnceInit DEF Init, OwnInv, LastKnown
  <2> QED BY <2>1, <2>2, LineInit, PolicyInit
<1>2. Whole /\ QueueStep => Whole'
  BY QueueLine, QueueCurrent, QueuePolicy, QueueOwn
<1> HIDE DEF Whole
<1>3. ServiceSpec => []Whole
  BY <1>1, <1>2, ServiceSteps, ServiceAlways, PTL DEF ServiceSpec
<1> QED BY <1>3 DEF Whole

\* In the service, too, whatever the threads interleave and the journal loses, nothing is
\* dispatched twice, the queue is in order and within its bounds, and what is written can be
\* read back (commands.py submit, pop, mark_dispatched and import_ledger as service.py calls
\* them).
THEOREM QueueInOrder ==
  ServiceSpec => [](/\ AtMostOnceDispatch /\ PendingIsQueued /\ StopsFirst
                    /\ OneWaitingPerShade /\ OrdinaryWithinLimit /\ ExportImportable)
<1> DEFINE P == /\ AtMostOnceDispatch /\ PendingIsQueued /\ StopsFirst
                /\ OneWaitingPerShade /\ OrdinaryWithinLimit /\ ExportImportable
<1>1. LineInv /\ ServiceInv => P
  <2> SUFFICES ASSUME LineInv, ServiceInv PROVE P
    OBVIOUS
  <2>1. OnceInv /\ LedgerInv
    BY DEF ServiceInv, TypeInv, QueueInv
  <2>2. AtMostOnceDispatch
    BY <2>1 DEF OnceInv, DispatchedIsSpent, AtMostOnceDispatch
  <2>3. ExportImportable
    BY <2>1, BoundedImportable DEF LedgerInv, Base, TypeOK, ExportImportable
  <2>4. PendingIsQueued
    BY DEF LineInv, PendingIsQueued, HasJobs, InOneOrder, Base, Queued
  <2> QED BY <2>2, <2>3, <2>4 DEF LineInv
<1> HIDE DEF P
<1>2. ServiceSpec => []P
  BY <1>1, InServiceAlways, ServiceAlways, PTL
<1> QED BY <1>2 DEF P

\* In the service no automatic movement that waits or is out outlives its policy, and no
\* policy returns or lasts longer than it was signed for (update_policy as on_message calls
\* it, between the steps of execute).
THEOREM QueueUnderPolicy ==
  ServiceSpec => [](AutomationIsCurrent /\ ReplacedPolicyStaysOut /\ PolicyNotProlonged)
<1>1. CurrentInv /\ PolicyInv
        => AutomationIsCurrent /\ ReplacedPolicyStaysOut /\ PolicyNotProlonged
  BY DEF CurrentInv, PolicyInv
<1> QED BY <1>1, InServiceAlways, PTL

\* In the service a final outcome stays, nothing sent waits again, and a queued operator
\* STOP goes only for the reasons ManualStopKept gives, the failing journal not among them.
THEOREM QueueKeepsWord == ServiceSpec => OutcomeAbsorbing /\ ManualStopKept
<1> DEFINE Keeps == session' = session =>
             \A i \in Ids :
               /\ ledger[i] # NoEntry /\ ledger'[i] # NoEntry =>
                    /\ ledger[i].status \in Final => ledger'[i].status = ledger[i].status
                    /\ ledger[i].status \notin Waiting => ledger'[i].status \notin Waiting
               /\ QueuedStop(i) => MayBecome(i)
<1>1. ServiceInv /\ [ServiceNext]_serviceVars => Keeps
  <2> SUFFICES ASSUME ServiceInv, QueueStep PROVE Keeps
    BY ServiceSteps
  <2>1. Base /\ Base'
    BY TypeFacts, QueueBase DEF ServiceInv
  <2>2. CASE [Next]_vars
    BY <2>1, <2>2, OutcomesStep, ManualStopStep
  <2>3. CASE Written \/ Clocked
    <3>1. ledger' = ledger
      BY <2>1, <2>3, AsideFacts
    <3> QED BY <3>1 DEF QueuedStop, MayBecome, Waiting
  <2> QED BY <2>2, <2>3 DEF QueueStep
<1> HIDE DEF Keeps
<1>2. ServiceSpec => [][Keeps]_vars
  BY <1>1, ServiceAlways, PTL DEF ServiceSpec
<1>3. [Keeps]_vars => /\ [session' = session =>
                            \A i \in Ids : ledger[i] # NoEntry /\ ledger'[i] # NoEntry =>
                              /\ ledger[i].status \in Final => ledger'[i].status = ledger[i].status
                              /\ ledger[i].status \notin Waiting
                                   => ledger'[i].status \notin Waiting]_vars
                      /\ [session' = session => \A i \in Ids : QueuedStop(i) => MayBecome(i)]_vars
  BY DEF Keeps
<1> QED BY <1>2, <1>3, PTL DEF OutcomeAbsorbing, ManualStopKept, QueuedStop, MayBecome

\* If no two signed commands share an identity, an automatic STOP goes out in the service
\* only while its owner's own movement is the last thing sent for its shade.
THEOREM QueueStopsOwn == OneCommandPerId => (ServiceSpec => AutomaticStopOwnsMovement)
<1> DEFINE MovedLast ==
      \A e \in Envelopes :
        /\ dispatches'[e] # dispatches[e]
        /\ e.origin = "automatic" /\ e.command = "STOP"
        => LET moved == last_on[e.shade] IN
           /\ moved.id = e.owned /\ moved.origin = "automatic" /\ moved.owner = e.owner
<1> SUFFICES ASSUME OneCommandPerId PROVE ServiceSpec => AutomaticStopOwnsMovement
  OBVIOUS
<1>1. OwnInv /\ QueueStep => MovedLast
  <2>1. ASSUME OwnInv, Written \/ Clocked PROVE dispatches' = dispatches
    BY <2>1, AsideFacts DEF OwnInv, OnceInv
  <2> QED BY <2>1, OwnsLast DEF QueueStep
<1> HIDE DEF MovedLast
<1>2. ServiceSpec => [][MovedLast]_vars
  BY <1>1, ServiceSteps, InServiceAlways, ServiceAlways, PTL DEF ServiceSpec
<1> QED BY <1>2 DEF AutomaticStopOwnsMovement, MovedLast

(***************************************************************************)
(* The datagram                                                            *)
(***************************************************************************)
OneDatagram == \A e \in Envelopes : sent[e] \in {0, 1}

\* The journal has a command as gone out when its datagram leaves.
CommittedFirst == [][\A e \in Envelopes : sent'[e] > sent[e] => GoneOut(saved, e)]_serviceVars

\* No command's datagram leaves twice, in all lives of the service and with a ledger of any
\* size: it follows from Custody alone (execute, its journal and on_message).
THEOREM DatagramOnce == ServiceSpec => []OneDatagram
<1>1. Owed!Init => OneDatagram
  BY DEF Owed!Init, OneDatagram
<1>2. OneDatagram /\ [Owed!Next]_(Owed!vars) => OneDatagram'
  BY DEF OneDatagram, Owed!Next, Owed!vars, Owed!Restart, Owed!Resume, Owed!StartBlind, Owed!Handle, Owed!Stay, Owed!Accept,
         Owed!Deny, Owed!Commit, Owed!Send, Owed!Hear, Owed!Doubt, Owed!Observe, Owed!Forget,
         Owed!Becomes
<1>3. Owed!Spec => []OneDatagram
  BY <1>1, <1>2, PTL DEF Owed!Spec
<1> QED BY <1>3, CustodyImplemented, PTL DEF CustodyKept

\* Whenever a datagram leaves, the journal on disk already says that it did, with a ledger of
\* any size and after any failed writes before (execute: persist, recheck, then send).
THEOREM JournalGoesFirst == ServiceSpec => CommittedFirst
<1> DEFINE A == \A e \in Envelopes : sent'[e] > sent[e] => GoneOut(saved, e)
<1>1. ServiceInv /\ [ServiceNext]_serviceVars => A
  <2> SUFFICES ASSUME ServiceInv, [ServiceNext]_serviceVars, NEW e \in Envelopes,
                      sent'[e] > sent[e]
               PROVE  GoneOut(saved, e)
    OBVIOUS
  <2>0. TypeInv /\ Poised /\ sent \in [Envelopes -> Nat]
    BY TypeFacts DEF ServiceInv, Control
  <2>1. Send /\ e = job
    BY <2>0, SentCases
  <2> QED BY <2>0, <2>1 DEF Send, Poised
<1> HIDE DEF A
<1>2. ServiceSpec => [][A]_serviceVars
  BY <1>1, ServiceAlways, PTL DEF ServiceSpec
<1> QED BY <1>2 DEF CommittedFirst, A

===============================================================================
