------------------------- MODULE CommandQueueProofs -------------------------
(***************************************************************************)
(* Theorems about CommandQueue, for every set of commands, policies and    *)
(* shades, every limit and every reading of the clocks.                    *)
(*                                                                         *)
(* The lemmas of the first part say what the helpers of the queue do to a  *)
(* ledger; the steps of the proofs cite them instead of expanding the      *)
(* helpers again.                                                          *)
(***************************************************************************)
EXTENDS CommandQueue, FiniteSetTheorems, TLAPS

\* How a receipt's status may go from a to b, other than by pop: what does not wait
\* never waits again, a final one stays, and only what waited is dispatched.
Ages(a, b) ==
  \/ b = a
  \/ b \notin Waiting /\ a \in Waiting
  \/ b \notin Waiting \cup {"dispatched"} /\ a \notin Final

\* Entry i of l2 is that of l with the same command, class and deadline, and a
\* status that may follow.
Kept(l, l2, i) ==
  /\ i \in Known(l2) => i \in Known(l)
  /\ i \in Known(l) =>
       /\ i \in Known(l2)
       /\ l2[i].env = l[i].env /\ l2[i].class = l[i].class
       /\ l2[i].deadline = l[i].deadline
       /\ Ages(l[i].status, l2[i].status)

Follows(l, l2) == \A i \in Ids : Kept(l, l2, i)

\* The pending queue and a ledger agree on what is queued; the queue may still
\* hold requests that no longer wait.
PendingFits(l) ==
  \A i \in Ids : /\ l[i].status = "queued" => i \in pending
                 /\ i \in pending /\ l[i].status \in Waiting => l[i].status = "queued"

Queued(l) == {i \in Ids : l[i].status = "queued"}

\* What holds before every step: types, and pending is what is queued.
Base == TypeOK /\ pending = Queued(ledger)

\* A set with one element more.
LEMMA OneMore ==
  ASSUME NEW S, NEW x, IsFiniteSet(S)
  PROVE  IsFiniteSet(S \cup {x}) /\ Cardinality(S \cup {x}) <= Cardinality(S) + 1
<1> DEFINE n == Cardinality(S)
           more == Cardinality(S \cup {x})
<1>1. n \in Nat
  BY FS_CardinalityType
<1>2. IsFiniteSet(S \cup {x}) /\ (more = n \/ more = n + 1)
  BY FS_AddElement
<1> HIDE DEF n, more
<1>3. more <= n + 1
  BY <1>1, <1>2
<1> QED BY <1>2, <1>3 DEF n, more

\* The empty entry is told from an entry by its status.
LEMMA EntryFacts ==
  /\ NoEntry \notin Entry
  /\ \A r \in Entry : r.status \in Outcomes /\ r.env \in Envelopes
                      /\ r.deadline \in Nat \cup {NoDeadline}
  /\ \A l : LedgerOK(l) => \A i \in Ids : l[i].status \in Waiting \cup InFlight
                                            => i \in Known(l) /\ l[i] \in Entry
  /\ \A l : LedgerOK(l) => \A i \in Known(l) : i \in Ids /\ l[i] \in Entry /\ l[i].env.id = i
BY DEF NoEntry, Entry, LedgerOK, Known, Outcomes, Waiting, InFlight, Final

\* Setting a status changes nothing else of an entry, and only the chosen ones.
LEMMA SettleIn ==
  ASSUME NEW l, LedgerOK(l), NEW S, S \subseteq Known(l),
         NEW st \in Outcomes, NEW i \in S
  PROVE  /\ i \in Ids /\ Settle(l, S, st)[i] \in Entry
         /\ Settle(l, S, st)[i].status = st
         /\ Settle(l, S, st)[i].env = l[i].env
         /\ Settle(l, S, st)[i].class = l[i].class
         /\ Settle(l, S, st)[i].deadline = l[i].deadline
<1>1. l[i] \in Entry /\ i \in Ids
  BY EntryFacts
<1>2. Settle(l, S, st)[i] = [l[i] EXCEPT !.status = st]
  BY <1>1 DEF Settle
<1> QED BY <1>1, <1>2 DEF Entry

LEMMA SettleOut ==
  ASSUME NEW l, NEW S, NEW st, NEW i \in Ids, i \notin S
  PROVE  Settle(l, S, st)[i] = l[i]
BY DEF Settle

LEMMA SettleOK ==
  ASSUME NEW l, LedgerOK(l), NEW S, S \subseteq Known(l), NEW st \in Outcomes
  PROVE  LedgerOK(Settle(l, S, st)) /\ Known(Settle(l, S, st)) = Known(l)
<1> DEFINE s == Settle(l, S, st)
<1>1. ASSUME NEW i \in Ids
      PROVE  s[i] \in Entry \cup {NoEntry} /\ (s[i] = NoEntry => l[i] = NoEntry)
             /\ (l[i] = NoEntry => s[i] = NoEntry)
             /\ (i \in Known(l) => s[i].env = l[i].env)
  <2>1. CASE i \in S
    BY <2>1, SettleIn, EntryFacts DEF Known
  <2>2. CASE i \notin S
    BY <2>2, SettleOut DEF LedgerOK
  <2> QED BY <2>1, <2>2
<1>2. s \in [Ids -> Entry \cup {NoEntry}]
  BY <1>1 DEF Settle
<1>3. Known(s) = Known(l)
  BY <1>1 DEF Known
<1>4. \A i \in Known(s) : s[i].env.id = i
  BY <1>1, <1>3, EntryFacts
<1> QED BY <1>2, <1>3, <1>4 DEF LedgerOK

\* A final status makes a ledger follow the one before.
LEMMA SettleFollows ==
  ASSUME NEW l, LedgerOK(l), NEW S, S \subseteq Known(l),
         NEW st \in Outcomes \ Waiting, \A i \in S : Ages(l[i].status, st)
  PROVE  Follows(l, Settle(l, S, st))
<1>1. st \in Outcomes /\ st \notin Waiting
  OBVIOUS
<1>2. ASSUME NEW i \in Known(l)
      PROVE  /\ Settle(l, S, st)[i].env = l[i].env
             /\ Settle(l, S, st)[i].class = l[i].class
             /\ Settle(l, S, st)[i].deadline = l[i].deadline
             /\ Ages(l[i].status, Settle(l, S, st)[i].status)
  <2>1. CASE i \in S
    BY <1>1, <2>1, SettleIn
  <2>2. CASE i \notin S
    BY <2>2, SettleOut, EntryFacts DEF Ages
  <2> QED BY <2>1, <2>2
<1> QED BY <1>1, <1>2, SettleOK DEF Follows, Kept, Ages

LEMMA PruneFollows ==
  ASSUME NEW l, LedgerOK(l), NEW now, NEW m
  PROVE  LedgerOK(Prune(l, now, m)) /\ Follows(l, Prune(l, now, m))
<1>1. Lapsed(l, now, m) \subseteq Known(l)
  BY EntryFacts DEF Lapsed
<1>2. "expired" \in Outcomes \ Waiting
  BY DEF Outcomes, Final, Waiting, InFlight
<1>3. \A i \in Lapsed(l, now, m) : Ages(l[i].status, "expired")
  BY <1>2 DEF Lapsed, Ages
<1> QED BY <1>1, <1>2, <1>3, SettleOK, SettleFollows DEF Prune

\* Jobs stay with the entries of a ledger that follows.
LEMMA JobsFollow ==
  ASSUME NEW j, NEW l, NEW l2, JobsOK(j, l), Follows(l, l2)
  PROVE  JobsOK(j, l2)
BY DEF JobsOK, Follows, Kept, Ages, Known

LEMMA WithdrawFollows ==
  ASSUME NEW l, LedgerOK(l), NEW S, NEW outcome \in Outcomes \ Waiting
  PROVE  LedgerOK(Withdraw(l, S, outcome)) /\ Follows(l, Withdraw(l, S, outcome))
<1> DEFINE w == Withdraw(l, S, outcome)
<1>0. "uncertain" \in Outcomes \ Waiting
  BY DEF Outcomes, Waiting, Final, InFlight
<1>1. ASSUME NEW i \in Ids, l[i] \in Entry
      PROVE  /\ w[i] \in Entry /\ w[i].env = l[i].env /\ w[i].class = l[i].class
             /\ w[i].deadline = l[i].deadline
             /\ Ages(l[i].status, w[i].status)
  <2>1. \/ w[i] = l[i]
        \/ w[i] = [l[i] EXCEPT !.status = outcome] /\ l[i].status \in Waiting
        \/ w[i] = [l[i] EXCEPT !.status = "uncertain"] /\ l[i].status \in InFlight
    BY DEF Withdraw
  <2>2. CASE w[i] = l[i]
    BY <2>2, <1>1 DEF Ages
  <2>3. CASE w[i] = [l[i] EXCEPT !.status = outcome] /\ l[i].status \in Waiting
    BY <2>3, <1>1 DEF Entry, Ages
  <2>4. CASE w[i] = [l[i] EXCEPT !.status = "uncertain"] /\ l[i].status \in InFlight
    BY <2>4, <1>0, <1>1 DEF Entry, Ages, InFlight, Final, Waiting
  <2> QED BY <2>1, <2>2, <2>3, <2>4
<1>2. ASSUME NEW i \in Ids, l[i] = NoEntry PROVE w[i] = NoEntry
  <2>1. l[i].status \notin Waiting /\ l[i].status \notin InFlight
    BY <1>2 DEF NoEntry, Waiting, InFlight
  <2> QED BY <1>2, <2>1 DEF Withdraw
<1>3. w \in [Ids -> Entry \cup {NoEntry}]
  <2>1. w = [i \in Ids |-> w[i]]
    BY DEF Withdraw
  <2>2. \A i \in Ids : w[i] \in Entry \cup {NoEntry}
    BY <1>1, <1>2 DEF LedgerOK
  <2> QED BY <2>1, <2>2
<1>4. Known(w) = Known(l)
  BY <1>1, <1>2, EntryFacts DEF Known, LedgerOK
<1>5. Follows(l, w)
  BY <1>1, <1>4, EntryFacts DEF Follows, Kept, Ages, Known
<1>6. LedgerOK(w)
  BY <1>3, <1>5 DEF LedgerOK, Follows, Kept, Ages, Known
<1> QED BY <1>5, <1>6

\* Once what no longer waits has left it, the queue is what is queued.
LEMMA FitsFollows ==
  ASSUME NEW l, NEW l2, LedgerOK(l2), Follows(l, l2), PendingFits(l)
  PROVE  PendingFits(l2)
<1> SUFFICES ASSUME NEW i \in Ids, l2[i].status \in Waiting
             PROVE  l[i].status = l2[i].status
  BY DEF PendingFits, Waiting
<1>1. i \in Known(l2)
  BY EntryFacts
<1> QED BY <1>1 DEF Follows, Kept, Ages

LEMMA SurvivingFits ==
  ASSUME NEW l, pending \subseteq Ids, PendingFits(l)
  PROVE  Surviving(l) = Queued(l)
BY DEF PendingFits, Surviving, Queued, Waiting

LEMMA BaseFits == Base => PendingFits(ledger)
BY DEF Base, PendingFits, Queued, Waiting

\* Deleting entries leaves the others as they were.
LEMMA EvictFacts ==
  ASSUME NEW l, LedgerOK(l), NEW V, JobsOK(jobs, l)
  PROVE  /\ LedgerOK(Evict(l, V)) /\ JobsOK(EvictJobs(V), Evict(l, V))
         /\ \A i \in Ids : Evict(l, V)[i] = IF i \in V THEN NoEntry ELSE l[i]
<1>1. \A i \in Ids : Evict(l, V)[i] = IF i \in V THEN NoEntry ELSE l[i]
  BY DEF Evict
<1>2. LedgerOK(Evict(l, V))
  BY <1>1 DEF LedgerOK, Known, Evict
<1>3. JobsOK(EvictJobs(V), Evict(l, V))
  BY <1>1 DEF JobsOK, EvictJobs, Known, NoJob
<1> QED BY <1>1, <1>2, <1>3

\* The step leaves a sound queue and ledger ...
Sound ==
  /\ LedgerOK(ledger') /\ JobsOK(jobs', ledger')
  /\ pending' = Queued(ledger') /\ ahead' \subseteq pending' \X pending'

\* ... in which e is recorded, waiting only if it was admissible.
Stored(e, ok) ==
  /\ ledger'[e.id].env = e /\ ledger'[e.id] # NoEntry
  /\ \/ ledger'[e.id].status = "rejected"
     \/ ledger'[e.id].status = "queued" /\ ok

KeptBeside(l, e) == \A i \in Ids \ {e.id} : Kept(l, ledger', i)

\* Whatever waits has a job.
HasJobs(l, j) == \A i \in Ids : l[i].status \in Waiting => j[i] # NoJob

\* Of the queue only waiting work has left, and e may have been put in its place.
Joined(e) ==
  \E left \in SUBSET pending :
    /\ e.id \notin left
    /\ \/ pending' = left /\ ahead' = ahead \cap (left \X left)
       \/ Enqueue(left, e)

\* What waits on a shade beside a command just queued there.
Alone(e) ==
  ledger'[e.id].status = "queued" =>
    \A k \in Ids \ {e.id} :
      ledger'[k].status \in Waiting /\ ledger'[k].env.shade = e.shade
      => /\ e.command = "MOVE" /\ ledger'[k].env.command = "MOVE"
         /\ ledger'[k].env.origin # e.origin

HadRoom(e) ==
  ledger'[e.id].status = "queued" =>
    \/ ManualStop(e)
    \/ Cardinality(OrdinaryPending(ledger', pending' \ {e.id})) < PendingLimit

\* e was stored beside ledger l and jobs j as the queue's rules want it.
Placed(l, j, e) ==
  /\ Joined(e) /\ HadRoom(e)
  /\ HasJobs(l, j) => HasJobs(ledger', jobs') /\ Alone(e)
  /\ \A k \in Ids \ {e.id} : jobs'[k] # NoJob => j[k] # NoJob

\* What storing a command does to the ledger, the jobs and the queue.
LEMMA StoreFacts ==
  ASSUME NEW l, NEW j, LedgerOK(l), JobsOK(j, l), NEW e \in Envelopes, l[e.id] = NoEntry,
         NEW class \in {"normal", "manual_stop_reserve"}, NEW ok,
         NEW now \in Nat, NEW m \in Nat, connection_generation \in Nat,
         pending \subseteq Ids, ahead \subseteq pending \X pending, PendingFits(l),
         Store(l, j, e, class, ok, now, m)
  PROVE  /\ Sound /\ KeptBeside(l, e) /\ Stored(e, ok) /\ ledger'[e.id].class = class
         /\ Placed(l, j, e)
<1> DEFINE welcome == ok /\ (e.command # "STOP" => ~StopOn(l, j, e.shade))
           S == IF welcome THEN Coalesced(l, j, e) ELSE {}
           c == Settle(l, S, "superseded")
           left == Surviving(c)
           queued == welcome /\ HasRoom(c, left, e)
           new == [env |-> e, status |-> IF queued THEN "queued" ELSE "rejected",
                   class |-> class, deadline |-> m + Later(0, e.expires - now)]
<1>1. e.id \in Ids /\ e.expires \in Nat
  BY QueueAssumption DEF EnvelopeType
<1>2. LedgerOK(c) /\ Follows(l, c) /\ Known(c) = Known(l)
  <2>1. S \subseteq Known(l)
    BY EntryFacts DEF Coalesced
  <2>2. "superseded" \in Outcomes \ Waiting
    BY DEF Outcomes, Final, Waiting, InFlight
  <2>3. \A i \in S : Ages(l[i].status, "superseded")
    BY <2>2 DEF Coalesced, Ages
  <2> QED BY <2>1, <2>2, <2>3, SettleOK, SettleFollows
<1>3. new \in Entry /\ new # NoEntry /\ new.deadline # NoDeadline
  <2>1. m + Later(0, e.expires - now) \in Nat
    BY <1>1 DEF Later
  <2>2. (IF queued THEN "queued" ELSE "rejected") \in Outcomes
    BY DEF Outcomes, Final, Waiting
  <2>3. new \in Entry
    BY <2>1, <2>2 DEF Entry
  <2> QED BY <2>1, <2>3, EntryFacts DEF NoDeadline
<1>4. ledger' = [c EXCEPT ![e.id] = new]
  BY DEF Store
<1>5. /\ ledger'[e.id] = new
      /\ \A i \in Ids \ {e.id} : ledger'[i] = c[i]
  BY <1>1, <1>2, <1>4 DEF LedgerOK
<1>6. LedgerOK(ledger')
  <2>1. ledger' \in [Ids -> Entry \cup {NoEntry}]
    BY <1>1, <1>2, <1>3, <1>4 DEF LedgerOK
  <2>2. \A i \in Known(ledger') : ledger'[i].env.id = i
    BY <1>2, <1>5 DEF LedgerOK, Known
  <2> QED BY <2>1, <2>2 DEF LedgerOK
<1>7. \A i \in Ids \ {e.id} : Kept(l, ledger', i)
  <2> TAKE i \in Ids \ {e.id}
  <2>1. Kept(l, c, i) /\ ledger'[i] = c[i]
    BY <1>2, <1>5 DEF Follows
  <2> QED BY <2>1 DEF Kept, Known
<1>8. JobsOK(jobs', ledger')
  <2>1. j \in [Ids -> Nat \cup {NoJob}]
    BY DEF JobsOK
  <2>2. jobs' = j \/ jobs' = [j EXCEPT ![e.id] = connection_generation]
    BY DEF Store
  <2>3. jobs' \in [Ids -> Nat \cup {NoJob}]
    BY <2>1, <2>2
  <2>4. ASSUME NEW i \in Ids, jobs'[i] # NoJob
        PROVE  i \in Known(ledger') /\ ledger'[i].deadline # NoDeadline
    <3>1. CASE i = e.id
      BY <1>3, <1>5, <3>1 DEF Known
    <3>2. CASE i # e.id
      <4>1. j[i] # NoJob
        BY <2>1, <2>2, <2>4, <3>2
      <4>2. i \in Known(l) /\ l[i].deadline # NoDeadline
        BY <4>1 DEF JobsOK
      <4> QED BY <4>2, <3>2, <1>7 DEF Kept, Ages
    <3> QED BY <3>1, <3>2
  <2> QED BY <2>3, <2>4 DEF JobsOK
<1>9. left = Queued(c)
  <2>1. PendingFits(c)
    BY <1>2, FitsFollows
  <2> QED BY <1>2, <2>1, SurvivingFits
<1>10. c[e.id] = NoEntry /\ c[e.id].status # "queued"
  BY <1>1, <1>2 DEF Known, NoEntry
<1>11. pending' = Queued(ledger') /\ ahead' \subseteq pending' \X pending'
  <2>1. CASE queued
    <3>1. pending' = left \cup {e.id} /\ ahead' = (ahead \cap (left \X left)) \cup Link(left, e)
      BY <2>1 DEF Store, Enqueue
    <3>2. Link(left, e) \subseteq pending' \X pending'
      BY <3>1 DEF Link
    <3>3. ledger'[e.id].status = "queued"
      BY <1>5, <2>1
    <3>4. Queued(ledger') = Queued(c) \cup {e.id}
      BY <1>1, <1>5, <3>3 DEF Queued
    <3> QED BY <1>9, <3>1, <3>2, <3>4
  <2>2. CASE ~queued
    <3>1. pending' = left /\ ahead' = ahead \cap (left \X left)
      BY <2>2 DEF Store
    <3>2. ledger'[e.id].status # "queued"
      BY <1>5, <2>2
    <3>3. Queued(ledger') = Queued(c)
      BY <1>1, <1>5, <1>10, <3>2 DEF Queued
    <3> QED BY <1>9, <3>1, <3>3
  <2> QED BY <2>1, <2>2
<1>12. c[e.id].status \notin Waiting /\ left \subseteq pending /\ e.id \notin left
  BY <1>1, <1>2 DEF Known, NoEntry, Waiting, Surviving
<1>13. \A k \in Ids \ {e.id} : jobs'[k] = j[k]
  BY DEF Store, JobsOK
<1>14. queued => jobs'[e.id] # NoJob
  BY <1>1 DEF Store, JobsOK, NoJob
<1>15. HasJobs(l, j) => HasJobs(ledger', jobs')
  <2>1. SUFFICES ASSUME HasJobs(l, j), NEW k \in Ids, ledger'[k].status \in Waiting
                 PROVE  jobs'[k] # NoJob
    BY DEF HasJobs
  <2>2. CASE k = e.id
    BY <1>5, <1>14, <2>1, <2>2 DEF Waiting
  <2>3. CASE k # e.id
    <3>1. l[k].status \in Waiting
      BY <1>6, <1>7, <2>1, <2>3, EntryFacts DEF Kept, Ages
    <3> QED BY <1>13, <2>1, <2>3, <3>1 DEF HasJobs
  <2> QED BY <2>2, <2>3
<1>16. Joined(e)
  BY <1>12 DEF Joined, Store
<1>17. HasJobs(l, j) => Alone(e)
  <2>1. SUFFICES ASSUME HasJobs(l, j), queued, NEW k \in Ids \ {e.id},
                        ledger'[k].status \in Waiting, ledger'[k].env.shade = e.shade
                 PROVE  /\ e.command = "MOVE" /\ ledger'[k].env.command = "MOVE"
                        /\ ledger'[k].env.origin # e.origin
    BY <1>5 DEF Alone
  <2>2. /\ k \in Known(l) /\ l[k].status \in Waiting /\ ledger'[k].env = l[k].env
        /\ l[k].env \in Envelopes
    BY <1>6, <1>7, <2>1, EntryFacts DEF Kept, Ages
  <2>3. k \notin S
    <3>1. k \in S => c[k].status = "superseded"
      BY <2>1, <2>2 DEF Settle
    <3> QED BY <1>5, <2>1, <3>1 DEF Waiting
  <2>4. j[k] # NoJob
    BY <2>1, <2>2 DEF HasJobs
  <2>5. /\ e.command # "STOP"
        /\ l[k].env.command # "STOP" => l[k].env.origin # e.origin
    BY <2>1, <2>2, <2>3, <2>4 DEF Coalesced
  <2>6. e.command # "STOP" /\ ~StopOn(l, j, e.shade)
    <3>1. welcome
      BY <2>1
    <3> QED BY <2>5, <3>1
  <2>7. l[k].env.command # "STOP"
    BY <2>1, <2>2, <2>4, <2>6 DEF StopOn
  <2>8. \A x \in Envelopes : x.command \in {"STOP", "MOVE"}
    BY QueueAssumption DEF EnvelopeType
  <2>9. e.command = "MOVE" /\ l[k].env.command = "MOVE" /\ l[k].env.origin # e.origin
    BY <2>2, <2>5, <2>6, <2>7, <2>8
  <2> HIDE DEF c
  <2> QED BY <2>2, <2>9
<1>18. HadRoom(e)
  <2>1. SUFFICES ASSUME queued, ~ManualStop(e)
                 PROVE  Cardinality(OrdinaryPending(ledger', pending' \ {e.id})) < PendingLimit
    BY <1>5 DEF HadRoom
  <2>2. Cardinality(OrdinaryPending(c, left)) < PendingLimit
    BY <2>1 DEF HasRoom
  <2>3. pending' \ {e.id} = left
    BY <1>12, <2>1 DEF Store, Enqueue
  <2>4. OrdinaryPending(ledger', left) = OrdinaryPending(c, left)
    BY <1>5, <1>12 DEF OrdinaryPending
  <2> QED BY <2>2, <2>3, <2>4
<1>19. ledger'[e.id].class = class
  BY <1>5
<1>20. Placed(l, j, e)
  BY <1>13, <1>15, <1>16, <1>17, <1>18 DEF Placed
<1> QED BY <1>3, <1>5, <1>6, <1>7, <1>8, <1>11, <1>19, <1>20 DEF Sound, KeptBeside, Stored

\* An entry of the ledger that a submission may have deleted: its command is over.
Gone(i, now) ==
  i \in Known(ledger) /\ ledger'[i] = NoEntry /\ ledger[i].env.expires <= now

KeptOrGoneBeside(e, now) ==
  \A i \in Ids \ {e.id} : Kept(ledger, ledger', i) \/ Gone(i, now)

LEMMA EvictedStore ==
  ASSUME Base, NEW e \in Envelopes, NEW now \in Nat, NEW m \in Nat, ledger[e.id] = NoEntry,
         NEW V, V \subseteq Evictable(Prune(ledger, now, m), now, m),
         NEW class \in {"normal", "manual_stop_reserve"}, NEW ok,
         Store(Evict(Prune(ledger, now, m), V), EvictJobs(V), e, class, ok, now, m)
  PROVE  /\ Sound /\ KeptOrGoneBeside(e, now) /\ Stored(e, ok) /\ ledger'[e.id].class = class
         /\ Placed(ledger, jobs, e) /\ KeptBeside(Evict(Prune(ledger, now, m), V), e)
<1> DEFINE p == Prune(ledger, now, m)
           l == Evict(p, V)
<1>1. LedgerOK(p) /\ Follows(ledger, p) /\ JobsOK(jobs, p)
  BY PruneFollows, JobsFollow DEF Base, TypeOK
<1>2. /\ LedgerOK(l) /\ JobsOK(EvictJobs(V), l)
      /\ \A i \in Ids : l[i] = IF i \in V THEN NoEntry ELSE p[i]
  BY <1>1, EvictFacts
<1>3. e.id \in Ids /\ p[e.id] = NoEntry /\ l[e.id] = NoEntry
  <2>1. e.id \in Ids
    BY QueueAssumption DEF EnvelopeType
  <2> QED BY <2>1, <1>1, <1>2 DEF Follows, Kept, Ages, Known
<1>4. /\ Sound /\ KeptBeside(l, e) /\ Stored(e, ok) /\ ledger'[e.id].class = class
      /\ Placed(l, EvictJobs(V), e)
  <2>1. connection_generation \in Nat /\ pending \subseteq Ids /\ ahead \subseteq pending \X pending
    BY DEF Base, TypeOK
  <2>3. PendingFits(l)
    <3>1. PendingFits(p)
      BY <1>1, BaseFits, FitsFollows
    <3>2. \A i \in Ids : i \in V => p[i].status \notin Waiting
      BY DEF Evictable
    <3> HIDE DEF p, l
    <3> QED BY <1>2, <3>1, <3>2 DEF PendingFits, NoEntry, Waiting
  <2> HIDE DEF l
  <2>2. Store(l, EvictJobs(V), e, class, ok, now, m)
    BY DEF l
  <2> QED BY <1>2, <1>3, <2>1, <2>2, <2>3, StoreFacts
<1>5. ASSUME NEW i \in Ids \ {e.id} PROVE Kept(ledger, ledger', i) \/ Gone(i, now)
  <2>1. CASE i \in V
    <3>1. i \in Known(p) /\ p[i].env.expires <= now
      BY <2>1 DEF Evictable
    <3>2. i \in Known(ledger) /\ ledger[i].env = p[i].env
      BY <1>1, <3>1 DEF Follows, Kept, Ages
    <3>3. ledger'[i] = NoEntry
      BY <1>2, <1>4, <2>1 DEF Kept, Ages, Known, KeptBeside, Sound, LedgerOK
    <3> QED BY <3>1, <3>2, <3>3 DEF Gone
  <2>2. CASE i \notin V
    <3>1. l[i] = p[i]
      BY <1>2, <2>2
    <3>2. Kept(ledger, p, i) /\ Kept(l, ledger', i)
      BY <1>1, <1>4 DEF Follows, KeptBeside
    <3> HIDE DEF l, p
    <3>3. Kept(ledger, ledger', i)
      BY <3>1, <3>2 DEF Kept, Ages, Known
    <3> QED BY <3>3
  <2> QED BY <2>1, <2>2
<1>6. Placed(ledger, jobs, e)
  <2>1. HasJobs(ledger, jobs) => HasJobs(l, EvictJobs(V))
    <3>1. SUFFICES ASSUME HasJobs(ledger, jobs), NEW i \in Ids, l[i].status \in Waiting
                   PROVE  EvictJobs(V)[i] # NoJob
      BY DEF HasJobs
    <3>2. i \notin V /\ l[i] = p[i]
      BY <1>2, <3>1 DEF NoEntry, Waiting
    <3>3. ledger[i].status \in Waiting
      BY <1>1, <3>1, <3>2, EntryFacts DEF Follows, Kept, Ages
    <3> QED BY <3>1, <3>2, <3>3 DEF HasJobs, EvictJobs
  <2>2. \A k \in Ids : EvictJobs(V)[k] # NoJob => jobs[k] # NoJob
    BY DEF EvictJobs
  <2> HIDE DEF l, p
  <2> QED BY <1>4, <2>1, <2>2 DEF Placed
<1> QED BY <1>4, <1>5, <1>6 DEF KeptOrGoneBeside

\* Where a command may be stored after the entries of V were deleted from ledger l.
Admits(l, V, e, class) ==
  \/ class = "normal" /\ (~Full(l) \/ (V # {} /\ V \subseteq Normal(l)))
  \/ /\ class = "manual_stop_reserve" /\ ManualStop(e) /\ e.shade \in Shades
     /\ V \subseteq Reserve(l, e.shade) /\ Reserve(l, e.shade) \ V = {}

\* Submitting an unknown command stores it, after one deletion at most, or turns it away.
LEMMA SubmitNewCases ==
  ASSUME Base, NEW e, NEW now, NEW m, SubmitNew(e, now, m)
  PROVE  LET p == Prune(ledger, now, m) IN
         \/ TurnAway(p)
         \/ \E V \in SUBSET Evictable(p, now, m), class \in {"normal", "manual_stop_reserve"} :
              /\ Admits(p, V, e, class)
              /\ Store(Evict(p, V), EvictJobs(V), e, class, Admissible(p, e, now, m), now, m)
<1> DEFINE p == Prune(ledger, now, m)
           ok == Admissible(p, e, now, m)
           Goal(class) == \E V \in SUBSET Evictable(p, now, m) :
                            /\ Admits(p, V, e, class)
                            /\ Store(Evict(p, V), EvictJobs(V), e, class, ok, now, m)
<1>1. LedgerOK(p) /\ jobs \in [Ids -> Nat \cup {NoJob}]
  BY PruneFollows DEF Base, TypeOK, JobsOK
<1>2. Evict(p, {}) = p /\ EvictJobs({}) = jobs
  BY <1>1 DEF Evict, EvictJobs, LedgerOK
<1>3. \A A, B : \A V \in OneOf(A \cap B) : V \in SUBSET A /\ V \subseteq B
  BY DEF OneOf
<1> SUFFICES TurnAway(p) \/ Goal("normal") \/ Goal("manual_stop_reserve")
  OBVIOUS
<1>4. ASSUME NEW a, a = ok, StoreOrTurnAway(p, e, a, now, m)
      PROVE  TurnAway(p) \/ Goal("normal")
  <2>1. PICK V \in OneOf(Evictable(p, now, m) \cap Normal(p)) :
           \/ V # {} /\ Store(Evict(p, V), EvictJobs(V), e, "normal", a, now, m)
           \/ V = {} /\ TurnAway(p)
    BY <1>4 DEF StoreOrTurnAway
  <2> HIDE DEF p, ok
  <2> QED BY <1>3, <1>4, <2>1 DEF Admits
<1>5. CASE ~Full(p) /\ Store(p, jobs, e, "normal", ok, now, m)
  <2>1. {} \in SUBSET Evictable(p, now, m) /\ Admits(p, {}, e, "normal")
    BY <1>5 DEF Admits
  <2>2. Store(Evict(p, {}), EvictJobs({}), e, "normal", ok, now, m)
    BY <1>2, <1>5, Zenon
  <2> HIDE DEF p, ok
  <2> QED BY <2>1, <2>2
<1>6. CASE ok /\ ManualStop(e) /\ StoreStop(p, e, now, m)
  <2>1. TRUE = ok /\ e.shade \in Shades
    BY <1>6 DEF Admissible
  <2>2. PICK V \in OneOf(Evictable(p, now, m) \cap Reserve(p, e.shade)) :
           \/ /\ Reserve(p, e.shade) \ V = {}
              /\ Store(Evict(p, V), EvictJobs(V), e, "manual_stop_reserve", TRUE, now, m)
           \/ StoreOrTurnAway(p, e, TRUE, now, m)
    BY <1>6 DEF StoreStop
  <2>3. CASE StoreOrTurnAway(p, e, TRUE, now, m)
    <3> HIDE DEF p, ok
    <3> QED BY <1>4, <2>1, <2>3
  <2>4. CASE /\ Reserve(p, e.shade) \ V = {}
             /\ Store(Evict(p, V), EvictJobs(V), e, "manual_stop_reserve", TRUE, now, m)
    <3>1. V \in SUBSET Evictable(p, now, m) /\ V \subseteq Reserve(p, e.shade)
      BY <1>3
    <3>2. Admits(p, V, e, "manual_stop_reserve")
      BY <1>6, <2>1, <2>4, <3>1 DEF Admits
    <3> HIDE DEF p, ok
    <3> QED BY <2>1, <2>4, <3>1, <3>2
  <2> QED BY <2>2, <2>3, <2>4
<1>7. CASE StoreOrTurnAway(p, e, ok, now, m)
  BY <1>4, <1>7
<1> QED BY <1>5, <1>6, <1>7 DEF SubmitNew

\* What that does.
LEMMA SubmitNewFacts ==
  ASSUME Base, NEW e \in Envelopes, NEW now \in Nat, NEW m \in Nat, ledger[e.id] = NoEntry,
         SubmitNew(e, now, m)
  PROVE  /\ Sound /\ KeptOrGoneBeside(e, now) /\ Placed(ledger, jobs, e)
         /\ \/ ledger'[e.id] = NoEntry
            \/ Stored(e, Admissible(Prune(ledger, now, m), e, now, m))
<1> DEFINE p == Prune(ledger, now, m)
           ok == Admissible(p, e, now, m)
<1>1. LedgerOK(p) /\ Follows(ledger, p) /\ JobsOK(jobs, p)
  BY PruneFollows, JobsFollow DEF Base, TypeOK
<1>2. e.id \in Ids /\ p[e.id] = NoEntry
  <2>1. e.id \in Ids
    BY QueueAssumption DEF EnvelopeType
  <2> QED BY <2>1, <1>1 DEF Follows, Kept, Ages, Known
<1>3. \/ TurnAway(p)
      \/ \E V \in SUBSET Evictable(p, now, m), class \in {"normal", "manual_stop_reserve"} :
           Store(Evict(p, V), EvictJobs(V), e, class, ok, now, m)
  <2> HIDE DEF ok
  <2> QED BY SubmitNewCases DEF ok
<1>4. CASE TurnAway(p)
  <2>1. ledger' = p /\ jobs' = jobs /\ pending' = Surviving(p)
        /\ ahead' = ahead \cap (pending' \X pending')
    BY <1>4 DEF TurnAway
  <2> HIDE DEF p, ok
  <2>2. KeptOrGoneBeside(e, now)
    BY <1>1, <2>1 DEF Follows, KeptOrGoneBeside
  <2>3. pending' = Queued(p)
    BY <1>1, <2>1, BaseFits, FitsFollows, SurvivingFits DEF Base, TypeOK
  <2>4. e.id \notin pending' /\ pending' \subseteq pending /\ ledger'[e.id].status # "queued"
    BY <1>2, <2>1, <2>3 DEF Queued, NoEntry, Surviving
  <2>5. Joined(e) /\ HadRoom(e) /\ Alone(e)
    BY <2>1, <2>4 DEF Joined, HadRoom, Alone
  <2>6. HasJobs(ledger, jobs) => HasJobs(ledger', jobs')
    <3>1. \A i \in Ids : p[i].status \in Waiting => ledger[i].status \in Waiting
      BY <1>1, EntryFacts DEF Follows, Kept, Ages
    <3> QED BY <2>1, <3>1 DEF HasJobs
  <2> QED BY <1>1, <1>2, <2>1, <2>2, <2>3, <2>5, <2>6 DEF Sound, Placed
<1>5. ASSUME NEW V \in SUBSET Evictable(p, now, m),
             NEW class \in {"normal", "manual_stop_reserve"},
             Store(Evict(p, V), EvictJobs(V), e, class, ok, now, m)
      PROVE  Sound /\ KeptOrGoneBeside(e, now) /\ Stored(e, ok) /\ Placed(ledger, jobs, e)
  <2> HIDE DEF ok
  <2>1. V \subseteq Evictable(p, now, m)
    OBVIOUS
  <2> QED BY <1>5, <2>1, EvictedStore
<1> HIDE DEF p, ok
<1> QED BY <1>3, <1>4, <1>5 DEF p, ok

\* A restored ledger is sound and nothing in it waits.
LEMMA RestoredFacts ==
  ASSUME NEW l, LedgerOK(l)
  PROVE  /\ LedgerOK(Restored(l))
         /\ \A i \in Ids : Restored(l)[i].status \notin Waiting
<1> DEFINE r == Restored(l)
<1>1. ASSUME NEW i \in Ids
      PROVE  /\ r[i] \in Entry \cup {NoEntry} /\ r[i].status \notin Waiting
             /\ i \in Known(r) => i \in Known(l) /\ r[i].env = l[i].env
  <2>1. CASE l[i] = NoEntry
    <3>1. r[i] = NoEntry
      BY <2>1 DEF Restored
    <3> QED BY <3>1 DEF NoEntry, Waiting, Known
  <2>2. CASE l[i] # NoEntry
    <3>1. l[i] \in Entry
      BY <2>2 DEF LedgerOK
    <3> DEFINE st == IF l[i].status \in Waiting THEN "expired"
                     ELSE IF l[i].status \in InFlight THEN "uncertain"
                     ELSE l[i].status
    <3>2. st \in Outcomes /\ st \notin Waiting
      BY <3>1 DEF Entry, Outcomes, Final, Waiting, InFlight
    <3>3. r[i] = [l[i] EXCEPT !.deadline = NoDeadline, !.status = st]
      BY <2>2 DEF Restored
    <3> HIDE DEF st
    <3>4. r[i] \in Entry /\ r[i].status = st /\ r[i].env = l[i].env
      BY <3>1, <3>2, <3>3 DEF Entry
    <3> QED BY <2>2, <3>2, <3>4 DEF Known
  <2> QED BY <2>1, <2>2
<1>2. r \in [Ids -> Entry \cup {NoEntry}]
  BY <1>1 DEF Restored
<1>3. \A i \in Known(r) : r[i].env.id = i
  BY <1>1, EntryFacts DEF Known
<1> QED BY <1>1, <1>2, <1>3 DEF LedgerOK

LEMMA EmptyLedgerOK == LedgerOK(EmptyLedger) /\ \A i \in Ids : EmptyLedger[i] = NoEntry
BY DEF EmptyLedger, LedgerOK, Known

LEMMA NowFacts ==
  ASSUME Base, NEW w \in WallReadings
  PROVE  Now(w) \in Nat /\ utc_highwater <= Now(w)
BY QueueAssumption DEF Base, TypeOK, Now, Later

LEMMA SampleFacts ==
  ASSUME Base, NEW m \in MonoSamples PROVE m \in Nat /\ m <= mono
BY QueueAssumption DEF Base, TypeOK, MonoSamples

\* A step that only lets entries of the ledger follow keeps the queue sound.
LEMMA FollowSound ==
  ASSUME Base, LedgerOK(ledger'), Follows(ledger, ledger'), jobs' = jobs,
         pending' = Surviving(ledger'), ahead' = ahead \cap (pending' \X pending')
  PROVE  Sound
<1>1. JobsOK(jobs', ledger')
  BY JobsFollow DEF Base, TypeOK
<1>2. pending' = Queued(ledger')
  BY BaseFits, FitsFollows, SurvivingFits DEF TypeOK, Base
<1> QED BY <1>1, <1>2 DEF Sound

LEMMA MarkDispatchedFacts ==
  ASSUME Base, NEW i \in Ids, NEW w \in WallReadings, MarkDispatched(i, w)
  PROVE  /\ LedgerOK(ledger') /\ Follows(ledger, ledger')
         /\ i \in Known(ledger) /\ ledger[i].env \in Envelopes /\ Sound
<1>1. i \in Known(ledger) /\ ledger[i].env \in Envelopes
  BY EntryFacts DEF MarkDispatched, Popped, Base, TypeOK, JobsOK
<1>2. /\ {"rejected", "expired", "dispatched"} \subseteq Outcomes \ Waiting
  BY DEF Outcomes, Final, Waiting, InFlight
<1>3. \/ ledger' = ledger
      \/ /\ ledger[i].status \in Waiting
         /\ \E st \in {"rejected", "expired", "dispatched"} : ledger' = Settle(ledger, {i}, st)
  BY DEF MarkDispatched, Verdict
<1>4. LedgerOK(ledger') /\ Follows(ledger, ledger')
  <2>1. CASE ledger' = ledger
    BY <2>1 DEF Base, TypeOK, Follows, Kept, Ages
  <2>2. ASSUME NEW st \in {"rejected", "expired", "dispatched"},
               ledger[i].status \in Waiting, ledger' = Settle(ledger, {i}, st)
        PROVE  LedgerOK(ledger') /\ Follows(ledger, ledger')
    <3>1. st \in Outcomes \ Waiting /\ {i} \subseteq Known(ledger) /\ LedgerOK(ledger)
      BY <1>1, <1>2 DEF Base, TypeOK
    <3>2. Ages(ledger[i].status, st)
      BY <2>2, <3>1 DEF Ages
    <3> QED BY <2>2, <3>1, <3>2, SettleOK, SettleFollows
  <2> QED BY <1>3, <2>1, <2>2
<1>5. Sound
  BY <1>4, FollowSound DEF MarkDispatched
<1> QED BY <1>1, <1>4, <1>5

LEMMA RecordResultFacts ==
  ASSUME Base, NEW i \in Ids, NEW st \in Recorded, NEW w, RecordResult(i, st, w)
  PROVE  LedgerOK(ledger') /\ Follows(ledger, ledger') /\ Sound
<1>1. i \in Known(ledger)
  BY DEF RecordResult, Popped, Base, TypeOK, JobsOK
<1>2. st \in Outcomes \ Waiting /\ st # "dispatched"
  BY QueueAssumption
<1>3. LedgerOK(ledger') /\ Follows(ledger, ledger')
  <2>1. CASE ledger' = ledger
    BY <2>1 DEF Base, TypeOK, Follows, Kept, Ages
  <2>2. CASE ledger[i].status \notin Final /\ ledger' = Settle(ledger, {i}, st)
    <3>1. {i} \subseteq Known(ledger) /\ LedgerOK(ledger)
      BY <1>1 DEF Base, TypeOK
    <3>2. Ages(ledger[i].status, st)
      BY <1>2, <2>2 DEF Ages
    <3> QED BY <1>2, <2>2, <3>1, <3>2, SettleOK, SettleFollows
  <2> QED BY <2>1, <2>2 DEF RecordResult
<1>4. Sound
  BY <1>3, FollowSound DEF RecordResult
<1> QED BY <1>3, <1>4

LEMMA InvalidateFacts ==
  ASSUME Base, NEW a \in BOOLEAN, NEW s \in BOOLEAN, Invalidate(a, s)
  PROVE  LedgerOK(ledger') /\ Follows(ledger, ledger') /\ Sound
<1>1. "rejected" \in Outcomes \ Waiting
  BY DEF Outcomes, Final, Waiting
<1>2. LedgerOK(ledger') /\ Follows(ledger, ledger')
  BY <1>1, WithdrawFollows DEF Invalidate, Base, TypeOK
<1>3. Sound
  BY <1>2, FollowSound DEF Invalidate
<1> QED BY <1>2, <1>3

LEMMA UpdatePolicyFacts ==
  ASSUME Base, NEW p \in Policies, NEW w \in WallReadings, NEW m \in MonoSamples,
         UpdatePolicy(p, w, m)
  PROVE  LedgerOK(ledger') /\ Follows(ledger, ledger') /\ Sound
<1>1. CASE UNCHANGED <<ledger, pending, ahead>>
  BY <1>1 DEF Base, TypeOK, Follows, Kept, Ages, Sound, UpdatePolicy
<1>2. ASSUME NEW g, Adopt(p, g, Now(w), m)
      PROVE  LedgerOK(ledger') /\ Follows(ledger, ledger') /\ Sound
  <2>1. "superseded" \in Outcomes \ Waiting
    BY DEF Outcomes, Final, Waiting
  <2>2. LedgerOK(ledger') /\ Follows(ledger, ledger')
    BY <1>2, <2>1, WithdrawFollows DEF Adopt, Base, TypeOK
  <2>3. Sound
    BY <1>2, <2>2, FollowSound DEF Adopt, UpdatePolicy
  <2> QED BY <2>2, <2>3
<1> QED BY <1>1, <1>2 DEF UpdatePolicy

\* The same with pop among the steps.
Turns(a, b) == Ages(a, b) \/ (a = "queued" /\ b = "selected")

LEMMA TurnsFacts ==
  /\ \A a : Turns(a, a)
  /\ \A a, b : Ages(a, b) => Turns(a, b)
  /\ \A a, b : Turns(a, b) /\ b \in Waiting => a \in Waiting
<1>1. \A a : Ages(a, a)
  BY DEF Ages
<1>2. \A a, b : Ages(a, b) => Turns(a, b)
  BY DEF Turns
<1>3. \A a, b : Turns(a, b) /\ b \in Waiting => a \in Waiting
  BY DEF Turns, Ages, Waiting
<1> QED BY <1>1, <1>2, <1>3

\* pop changes nothing of an entry but turns "queued" into "selected".
LEMMA PopFacts ==
  ASSUME Base, NEW i \in pending, ledger' = Settle(ledger, {i}, "selected"), jobs' = jobs,
         pending' = pending \ {i}, ahead' = ahead \cap (pending' \X pending')
  PROVE  /\ Sound /\ Known(ledger') = Known(ledger)
         /\ \A k \in Known(ledger) :
              /\ ledger'[k].env = ledger[k].env /\ ledger'[k].class = ledger[k].class
              /\ Turns(ledger[k].status, ledger'[k].status)
<1>1. i \in Ids /\ {i} \subseteq Known(ledger) /\ LedgerOK(ledger) /\ "selected" \in Outcomes
  BY EntryFacts DEF Base, Queued, TypeOK, Outcomes, Waiting
<1>2. LedgerOK(ledger') /\ Known(ledger') = Known(ledger)
  BY <1>1, SettleOK
<1>3. ASSUME NEW k \in Known(ledger)
      PROVE  /\ ledger'[k].env = ledger[k].env /\ ledger'[k].class = ledger[k].class
             /\ ledger'[k].deadline = ledger[k].deadline
             /\ Turns(ledger[k].status, ledger'[k].status)
  <2>1. CASE k = i
    <3>1. i \in {i} /\ ledger[i].status = "queued"
      BY DEF Base, Queued
    <3> QED BY <1>1, <2>1, <3>1, SettleIn DEF Turns
  <2>2. CASE k # i
    BY <1>1, <2>2, SettleOut, TurnsFacts DEF Known
  <2> QED BY <2>1, <2>2
<1>4. JobsOK(jobs', ledger')
  BY <1>2, <1>3 DEF Base, TypeOK, JobsOK
<1>5. pending' = Queued(ledger')
  <2>1. ledger'[i].status = "selected" /\ \A k \in Ids \ {i} : ledger'[k] = ledger[k]
    BY <1>1, SettleIn, SettleOut
  <2> QED BY <1>1, <2>1 DEF Base, Queued
<1> QED BY <1>2, <1>3, <1>4, <1>5 DEF Sound

\* The part of the type invariant that Sound does not speak of.
TypeRest ==
  /\ session \in Nat /\ connection_generation \in Nat
  /\ policy \in Policies \cup {NoPolicy} /\ policy_deadline \in Nat
  /\ policy_generations \in
       [Generations -> [until : Nat, mono : Nat] \cup {NoInterval}]
  /\ retired_owners \subseteq Owners
  /\ latest_dispatched \in [Shades -> Ids \cup {NoId}]
  /\ utc_highwater \in Nat /\ mono \in Nat
  /\ LedgerOK(saved)
  /\ dispatches \in [Envelopes -> Nat]
  /\ last_on \in [Shades -> Envelopes \cup {NoneOn}]
  /\ displaced \subseteq Policies
  /\ first_effective \in [Policies -> Nat \cup {NeverEffective}]

LEMMA TypeParts == Base => TypeRest
BY DEF Base, TypeOK, TypeRest

LEMMA BaseFromParts == Sound /\ TypeRest' => Base'
BY DEF Base, Queued, TypeOK, TypeRest, Sound, LedgerOK, JobsOK, Known

LEMMA UpdatePolicyType ==
  ASSUME Base, NEW p \in Policies, NEW w \in WallReadings, NEW m \in MonoSamples,
         UpdatePolicy(p, w, m)
  PROVE  TypeRest'
<1>1. /\ Now(w) \in Nat /\ m \in Nat
  BY NowFacts, SampleFacts
<1>2. /\ p.issued \in Nat /\ p.expires \in Nat /\ p.generation \in Generations
      /\ p.owner \in Owners /\ p.expires <= p.issued + MaxTTL /\ MaxTTL \in Nat
  BY QueueAssumption DEF PolicyType
<1> DEFINE now == Now(w)
           g == Reclaim(now, m)
<1>3. g \in [Generations -> [until : Nat, mono : Nat] \cup {NoInterval}]
  BY DEF Reclaim, Base, TypeOK
<1>4. CASE /\ UNCHANGED <<policy, policy_deadline, retired_owners, displaced, first_effective>>
           /\ policy_generations' = g \/ policy_generations' = policy_generations
  BY <1>1, <1>3, <1>4 DEF UpdatePolicy, Base, TypeOK, TypeRest, LedgerOK, Known
<1>5. CASE Adopt(p, g, now, m) /\ now < p.expires
  <2> HIDE DEF g
  <2>1. p.expires - now \in Nat /\ p.issued + MaxTTL - now \in Nat /\ p.issued + MaxTTL \in Nat
    BY <1>1, <1>2, <1>5
  <2>2. m + (p.expires - now) \in Nat /\ m + (p.issued + MaxTTL - now) \in Nat
    BY <1>1, <2>1
  <2>3. policy' \in Policies \cup {NoPolicy} /\ policy_deadline' \in Nat
    BY <1>5, <2>2 DEF Adopt
  <2>4. policy_generations' \in [Generations -> [until : Nat, mono : Nat] \cup {NoInterval}]
    <3>1. [until |-> p.issued + MaxTTL, mono |-> m + (p.issued + MaxTTL - now)]
            \in [until : Nat, mono : Nat]
      BY <2>1, <2>2
    <3>2. policy_generations' = Remember(p, g, now, m)
      BY <1>5 DEF Adopt
    <3> QED BY <1>2, <1>3, <3>1, <3>2 DEF Remember
  <2>5. retired_owners' \subseteq Owners
    BY <1>5, QueueAssumption DEF Adopt, Base, TypeOK, ReplacesOwner, Replaces, PolicyType
  <2>6. displaced' \subseteq Policies
    BY <1>5 DEF Adopt, Base, TypeOK
  <2>7. first_effective' \in [Policies -> Nat \cup {NeverEffective}]
    BY <1>5 DEF Adopt, Base, TypeOK
  <2> QED BY <1>1, <2>3, <2>4, <2>5, <2>6, <2>7 DEF UpdatePolicy, Base, TypeOK, TypeRest, LedgerOK, Known
<1> QED BY <1>4, <1>5 DEF UpdatePolicy, policyVars

LEMMA BaseInit == Init => Base
<1> SUFFICES ASSUME Init PROVE Base
  OBVIOUS
<1>1. LedgerOK(ledger) /\ LedgerOK(saved) /\ JobsOK(jobs, ledger)
  BY EmptyLedgerOK DEF Init, JobsOK, NoJob
<1>2. policy_generations \in [Generations -> [until : Nat, mono : Nat] \cup {NoInterval}]
  BY DEF Init
<1>3. first_effective \in [Policies -> Nat \cup {NeverEffective}] /\ dispatches \in [Envelopes -> Nat]
  BY DEF Init
<1>4. pending = Queued(ledger)
  BY EmptyLedgerOK DEF Init, Queued, NoEntry
<1> QED BY <1>1, <1>2, <1>3, <1>4 DEF Init, Base, TypeOK

LEMMA LedgerUnchanged ==
  ASSUME Base, UNCHANGED queueVars PROVE Sound
BY DEF Base, Queued, TypeOK, LedgerOK, JobsOK, Known, Sound, queueVars

LEMMA SubmitSound ==
  ASSUME Base, NEW e \in Envelopes, NEW w \in WallReadings, NEW m \in MonoSamples,
         Submit(e, w, m)
  PROVE  Sound
<1>1. CASE UNCHANGED queueVars
  BY <1>1, LedgerUnchanged
<1>2. CASE ledger[e.id] = NoEntry /\ SubmitNew(e, Now(w), m)
  BY <1>2, NowFacts, SampleFacts, SubmitNewFacts
<1> QED BY <1>1, <1>2 DEF Submit

LEMMA BaseStep == Base /\ [Next]_vars => Base'
<1> SUFFICES ASSUME Base, [Next]_vars PROVE Sound /\ TypeRest'
  BY BaseFromParts
<1> USE DEF policyVars, historyVars
<1>1. TypeRest
  BY TypeParts
<1>2. ASSUME NEW e \in Envelopes, NEW w \in WallReadings, NEW m \in MonoSamples, Submit(e, w, m)
      PROVE  Sound /\ TypeRest'
  <2>1. TypeRest'
    BY <1>1, <1>2, NowFacts DEF Submit, TypeRest, LedgerOK, Known
  <2> QED BY <1>2, <2>1, SubmitSound
<1>3. CASE Pop
  <2>1. Sound
    BY <1>3, PopFacts DEF Pop
  <2>2. TypeRest'
    BY <1>1, <1>3 DEF Pop, TypeRest, LedgerOK, Known
  <2> QED BY <2>1, <2>2
<1>4. ASSUME NEW i \in Ids, NEW w \in WallReadings, MarkDispatched(i, w)
      PROVE  Sound /\ TypeRest'
  <2>1. ledger[i].env \in Envelopes /\ Sound
    BY <1>4, MarkDispatchedFacts
  <2>2. /\ latest_dispatched' \in [Shades -> Ids \cup {NoId}]
        /\ dispatches' \in [Envelopes -> Nat]
        /\ last_on' \in [Shades -> Envelopes \cup {NoneOn}]
    BY <1>1, <1>4, <2>1 DEF MarkDispatched, TypeRest
  <2>3. TypeRest'
    BY <1>1, <1>4, <2>2, NowFacts DEF MarkDispatched, TypeRest, LedgerOK, Known
  <2> QED BY <2>1, <2>3
<1>5. ASSUME NEW i \in Ids, NEW st \in Recorded, NEW w \in WallReadings, RecordResult(i, st, w)
      PROVE  Sound /\ TypeRest'
  <2>1. TypeRest'
    BY <1>1, <1>5, NowFacts DEF RecordResult, TypeRest, LedgerOK, Known
  <2> QED BY <1>5, <2>1, RecordResultFacts
<1>6. ASSUME NEW a \in BOOLEAN, NEW s \in BOOLEAN, Invalidate(a, s)
      PROVE  Sound /\ TypeRest'
  <2>1. TypeRest'
    BY <1>1, <1>6 DEF Invalidate, TypeRest, LedgerOK, Known
  <2> QED BY <1>6, <2>1, InvalidateFacts
<1>7. ASSUME NEW p \in Policies, NEW w \in WallReadings, NEW m \in MonoSamples,
             UpdatePolicy(p, w, m)
      PROVE  Sound /\ TypeRest'
  BY <1>7, UpdatePolicyFacts, UpdatePolicyType
<1>8. CASE Export
  <2>1. Sound
    BY <1>8, LedgerUnchanged DEF Export
  <2>2. TypeRest'
    BY <1>1, <1>8 DEF Export, TypeRest, Base, TypeOK, LedgerOK, Known
  <2> QED BY <2>1, <2>2
<1>9. CASE Restart
  <2>1. LedgerOK(ledger') /\ \A i \in Ids : ledger'[i].status \notin Waiting
    <3>1. LedgerOK(saved)
      BY <1>1 DEF TypeRest
    <3>2. CASE ledger' = Restored(saved)
      BY <3>1, <3>2, RestoredFacts
    <3>3. CASE ledger' = EmptyLedger
      BY <3>3, EmptyLedgerOK DEF NoEntry, Waiting
    <3> QED BY <1>9, <3>2, <3>3 DEF Restart, Start
  <2>2. JobsOK(jobs', ledger')
    BY <1>9 DEF Restart, Start, JobsOK, NoJob
  <2>3. pending' = Queued(ledger') /\ ahead' = {}
    BY <1>9, <2>1 DEF Restart, Start, Queued, Waiting
  <2>4. TypeRest'
    BY <1>1, <1>9, QueueAssumption DEF Restart, Start, TypeRest, LedgerOK, Known
  <2> QED BY <2>1, <2>2, <2>3, <2>4 DEF Sound
<1>10. CASE Tick
  <2>1. Sound
    BY <1>10, LedgerUnchanged DEF Tick
  <2>2. TypeRest'
    BY <1>1, <1>10 DEF Tick, TypeRest, LedgerOK, Known
  <2> QED BY <2>1, <2>2
<1>11. CASE UNCHANGED vars
  <2>1. Sound
    BY <1>11, LedgerUnchanged DEF vars
  <2>2. TypeRest'
    BY <1>1, <1>11 DEF vars, TypeRest, LedgerOK, Known
  <2> QED BY <2>1, <2>2
<1> QED BY <1>2, <1>3, <1>4, <1>5, <1>6, <1>7, <1>8, <1>9, <1>10, <1>11 DEF Next

\* Type correctness: in every reachable state the queue's variables have their
\* types and a job has an entry in the ledger, so that no method of the queue
\* fails on a missing key, for every set of commands and every limit.
THEOREM TypeCorrect == Spec => []TypeOK
<1>1. Init => Base
  BY BaseInit
<1>2. Base /\ [Next]_vars => Base'
  BY BaseStep
<1>3. Base => TypeOK
  BY DEF Base
<1> QED BY <1>1, <1>2, <1>3, PTL DEF Spec

(***************************************************************************)
(* A signed command is dispatched at most once.                            *)
(*                                                                         *)
(* The invariant that carries the argument: what was dispatched is spent.  *)
(* It belongs to an earlier process, or it is no longer waiting and either *)
(* its identity is still in the ledger with that very command, or its time *)
(* is over on the wall clock's highwater, which never goes back while the  *)
(* process runs; so it is not admitted again.                              *)
(***************************************************************************)
Holds(e) == e.id \in Known(ledger) /\ ledger[e.id].env = e

Spent(e) ==
  \/ e.adapter < session
  \/ /\ e.adapter = session
     /\ Holds(e) => ledger[e.id].status \notin Waiting
     /\ Holds(e) \/ e.expires <= utc_highwater

\* What waits was signed for the running process.
WaitingIsCurrent ==
  \A i \in Ids : ledger[i].status \in Waiting => ledger[i].env.adapter = session

DispatchedIsSpent ==
  \A e \in Envelopes : dispatches[e] <= 1 /\ (dispatches[e] = 1 => Spent(e))

OnceInv == Base /\ WaitingIsCurrent /\ DispatchedIsSpent

LEMMA EnvelopeFacts ==
  ASSUME NEW e \in Envelopes
  PROVE  e.id \in Ids /\ e.adapter \in Nat /\ e.expires \in Nat
BY QueueAssumption DEF EnvelopeType

\* The step leaves entry i with its command, and waiting only if it waited before.
Carried(i) ==
  /\ i \in Known(ledger) <=> i \in Known(ledger')
  /\ i \in Known(ledger) => /\ ledger'[i].env = ledger[i].env
                            /\ ledger'[i].class = ledger[i].class
                            /\ Turns(ledger[i].status, ledger'[i].status)
  /\ ledger'[i].status \in Waiting => ledger[i].status \in Waiting

LEMMA KeptCarried ==
  ASSUME LedgerOK(ledger'), NEW i \in Ids, Kept(ledger, ledger', i)
  PROVE  Carried(i)
<1>1. ledger'[i].status \in Waiting => i \in Known(ledger')
  BY EntryFacts
<1> QED BY <1>1, TurnsFacts DEF Kept, Carried

LEMMA FollowsCarried ==
  ASSUME LedgerOK(ledger'), Follows(ledger, ledger'), NEW i \in Ids
  PROVE  Carried(i)
BY KeptCarried DEF Follows

LEMMA PopCarried ==
  ASSUME Base, Base', Pop, NEW k \in Ids PROVE Carried(k)
<1>1. PICK i \in pending : ledger' = Settle(ledger, {i}, "selected")
  BY DEF Pop
<1>2. /\ Known(ledger') = Known(ledger)
      /\ \A n \in Known(ledger) :
           /\ ledger'[n].env = ledger[n].env /\ ledger'[n].class = ledger[n].class
           /\ Turns(ledger[n].status, ledger'[n].status)
  BY <1>1, PopFacts DEF Pop
<1>3. ledger'[k].status \in Waiting => k \in Known(ledger')
  BY EntryFacts DEF Base, TypeOK
<1> QED BY <1>2, <1>3, TurnsFacts DEF Carried

\* While the session lasts and the highwater only rises, a command stays spent if
\* its entry is carried over or is gone because its time is over.
LEMMA StaysSpent ==
  ASSUME Base, Base', session' = session, utc_highwater <= utc_highwater',
         NEW e \in Envelopes, Spent(e), Carried(e.id) \/ Gone(e.id, utc_highwater')
  PROVE  Spent(e)'
<1>1. /\ session \in Nat /\ utc_highwater \in Nat /\ utc_highwater' \in Nat
      /\ e.id \in Ids /\ e.adapter \in Nat /\ e.expires \in Nat
  BY EnvelopeFacts DEF Base, TypeOK
<1>2. CASE e.adapter < session
  BY <1>2 DEF Spent
<1>3. CASE e.adapter = session
  <2>1. /\ Holds(e) => ledger[e.id].status \notin Waiting
        /\ Holds(e) \/ e.expires <= utc_highwater
    BY <1>1, <1>3 DEF Spent
  <2>2. CASE Gone(e.id, utc_highwater')
    <3>1. ~Holds(e)'
      BY <2>2 DEF Gone, Holds, Known
    <3>2. e.expires <= utc_highwater'
      BY <1>1, <2>1, <2>2 DEF Gone, Holds
    <3> QED BY <1>3, <3>1, <3>2 DEF Spent
  <2>3. CASE Carried(e.id)
    <3>1. Holds(e)' = Holds(e)
      BY <2>3 DEF Holds, Carried
    <3>2. (Holds(e) => ledger[e.id].status \notin Waiting)'
      BY <2>1, <2>3, <3>1 DEF Carried
    <3>3. Holds(e)' \/ e.expires <= utc_highwater'
      BY <1>1, <2>1, <3>1
    <3> QED BY <1>3, <3>2, <3>3 DEF Spent
  <2> QED BY <2>2, <2>3
<1> QED BY <1>2, <1>3 DEF Spent

\* The same for what waits: a waiting entry was waiting before, with its command.
LEMMA StaysCurrent ==
  ASSUME Base', WaitingIsCurrent, session' = session, NEW i \in Ids, Carried(i),
         ledger'[i].status \in Waiting
  PROVE  ledger'[i].env.adapter = session'
<1>1. i \in Known(ledger')
  BY EntryFacts DEF Base, TypeOK
<1> QED BY <1>1 DEF Carried, WaitingIsCurrent

\* A step that carries every entry over, dispatches nothing and stays in its
\* process keeps the invariant.
LEMMA CarriedKeepsOnce ==
  ASSUME OnceInv, Base', session' = session, utc_highwater <= utc_highwater',
         dispatches' = dispatches, \A i \in Ids : Carried(i)
  PROVE  OnceInv'
<1>1. WaitingIsCurrent'
  <2>1. ASSUME NEW i \in Ids, ledger'[i].status \in Waiting
        PROVE  ledger'[i].env.adapter = session'
    BY <2>1, StaysCurrent DEF OnceInv
  <2> QED BY <2>1 DEF WaitingIsCurrent
<1>2. ASSUME NEW e \in Envelopes
      PROVE  dispatches'[e] <= 1 /\ (dispatches'[e] = 1 => Spent(e)')
  <2>1. Carried(e.id)
    BY EnvelopeFacts
  <2>2. dispatches[e] <= 1 /\ (dispatches[e] = 1 => Spent(e))
    BY DEF OnceInv, DispatchedIsSpent
  <2> QED BY <2>1, <2>2, StaysSpent DEF OnceInv
<1> QED BY <1>1, <1>2 DEF OnceInv, DispatchedIsSpent

\* Storing a command adds at most that one to what waits, with its time not over,
\* and a dispatched one is never the one stored as waiting.
LEMMA SubmitOnce ==
  ASSUME OnceInv, Base', NEW e \in Envelopes, NEW w \in WallReadings, NEW m \in MonoSamples,
         Submit(e, w, m)
  PROVE  OnceInv'
<1> DEFINE now == Now(w)
           p == Prune(ledger, now, m)
<1>1. /\ now \in Nat /\ m \in Nat /\ utc_highwater <= utc_highwater' /\ utc_highwater' = now
      /\ session' = session /\ dispatches' = dispatches
  BY NowFacts, SampleFacts DEF Submit, OnceInv, historyVars
<1>2. CASE UNCHANGED queueVars
  <2>1. \A i \in Ids : Carried(i)
    BY <1>2, TurnsFacts DEF Carried, Known, queueVars
  <2> QED BY <1>1, <2>1, CarriedKeepsOnce
<1>3. CASE ledger[e.id] = NoEntry /\ SubmitNew(e, now, m)
  <2> HIDE DEF now
  <2>1. /\ Sound /\ KeptOrGoneBeside(e, now)
        /\ \/ ledger'[e.id] = NoEntry
           \/ Stored(e, Admissible(p, e, now, m))
    BY <1>1, <1>3, SubmitNewFacts DEF OnceInv
  <2>2. e.id \in Ids /\ LedgerOK(ledger') /\ utc_highwater' = now
    BY <1>1, <2>1, EnvelopeFacts DEF Sound
  <2>3. ASSUME NEW i \in Ids \ {e.id} PROVE Carried(i) \/ Gone(i, now)
    <3>1. Kept(ledger, ledger', i) \/ Gone(i, now)
      BY <2>1 DEF KeptOrGoneBeside
    <3> QED BY <2>2, <3>1, KeptCarried
  <2>4. ledger'[e.id].status \in Waiting => /\ e.adapter = session /\ now < e.expires
                                           /\ ledger'[e.id].env = e
    BY <2>1 DEF Stored, Admissible, NoEntry, Waiting
  <2>5. ASSUME NEW i \in Ids, ledger'[i].status \in Waiting
        PROVE  ledger'[i].env.adapter = session'
    <3>1. CASE i = e.id
      BY <1>1, <2>4, <2>5, <3>1
    <3>2. CASE i # e.id
      <4>1. ~Gone(i, now)
        BY <2>5 DEF Gone, NoEntry, Waiting
      <4> QED BY <1>1, <2>3, <2>5, <3>2, <4>1, StaysCurrent DEF OnceInv
    <3> QED BY <3>1, <3>2
  <2>6. ASSUME NEW x \in Envelopes, dispatches[x] = 1 PROVE Spent(x)'
    <3>1. Spent(x) /\ x.id \in Ids /\ x.adapter \in Nat /\ x.expires \in Nat
      BY <2>6, EnvelopeFacts DEF OnceInv, DispatchedIsSpent
    <3>2. CASE x.id # e.id
      <4>1. Carried(x.id) \/ Gone(x.id, utc_highwater')
        BY <2>2, <2>3, <3>1, <3>2
      <4> QED BY <1>1, <3>1, <4>1, StaysSpent DEF OnceInv
    <3>3. CASE x.id = e.id
      <4>1. CASE x.adapter < session
        BY <1>1, <4>1 DEF Spent
      <4>2. CASE x.adapter = session
        <5>1. ~Holds(x)
          BY <1>3, <3>3 DEF Holds, Known
        <5>2. x.expires <= utc_highwater /\ utc_highwater \in Nat /\ session \in Nat
          BY <3>1, <4>2, <5>1 DEF Spent, OnceInv, Base, TypeOK
        <5>3. x.expires <= utc_highwater' /\ utc_highwater' \in Nat
          BY <1>1, <2>2, <3>1, <5>2
        <5>4. Holds(x)' => ledger'[x.id].status \notin Waiting
          <6>1. SUFFICES ASSUME Holds(x)', ledger'[e.id].status \in Waiting PROVE FALSE
            BY <3>3
          <6>2. ledger'[e.id].env = x /\ ledger'[e.id].env = e
            BY <3>3, <6>1, <2>4 DEF Holds
          <6> QED BY <1>1, <2>2, <2>4, <3>1, <5>3, <6>1, <6>2
        <5> QED BY <1>1, <4>2, <5>3, <5>4 DEF Spent
      <4> QED BY <3>1, <4>1, <4>2 DEF Spent
    <3> QED BY <3>2, <3>3
  <2> QED BY <1>1, <2>5, <2>6 DEF OnceInv, WaitingIsCurrent, DispatchedIsSpent
<1> QED BY <1>2, <1>3 DEF Submit

\* The dispatched command was waiting, so it was never dispatched before, and from
\* now on its entry says that it was.
LEMMA DispatchOnce ==
  ASSUME OnceInv, Base', NEW i \in Ids, NEW w \in WallReadings, MarkDispatched(i, w)
  PROVE  OnceInv'
<1>0. PICK e \in Envelopes : e = ledger[i].env
  BY MarkDispatchedFacts DEF OnceInv
<1>1. /\ LedgerOK(ledger') /\ Follows(ledger, ledger')
      /\ i \in Known(ledger) /\ e \in Envelopes
  BY MarkDispatchedFacts DEF OnceInv
<1>2. /\ utc_highwater <= utc_highwater' /\ session' = session
  BY NowFacts DEF MarkDispatched, OnceInv
<1>3. \A k \in Ids : Carried(k)
  BY <1>1, FollowsCarried
<1>4. CASE UNCHANGED historyVars
  BY <1>2, <1>3, <1>4, CarriedKeepsOnce DEF historyVars
<1>5. CASE /\ ledger[i].status \in Waiting
           /\ ledger' = Settle(ledger, {i}, "dispatched")
           /\ dispatches' = [dispatches EXCEPT ![e] = @ + 1]
  <2>1. e.id = i /\ e.adapter = session /\ dispatches \in [Envelopes -> Nat]
    BY <1>0, <1>1, <1>5, EntryFacts DEF OnceInv, WaitingIsCurrent, Base, TypeOK
  <2>2. ~Spent(e)
    <3>1. Holds(e) /\ session \in Nat
      BY <1>0, <1>1, <2>1 DEF Holds, OnceInv, Base, TypeOK
    <3> QED BY <1>5, <2>1, <3>1 DEF Spent
  <2>3. dispatches[e] = 0
    <3>1. dispatches[e] <= 1 /\ dispatches[e] # 1 /\ dispatches[e] \in Nat
      BY <1>1, <2>1, <2>2 DEF OnceInv, DispatchedIsSpent
    <3> QED BY <3>1
  <2>4. ledger'[i].status = "dispatched" /\ ledger'[i].env = e /\ i \in Known(ledger')
    <3>1. {i} \subseteq Known(ledger) /\ i \in {i} /\ LedgerOK(ledger) /\ "dispatched" \in Outcomes
      BY <1>1 DEF OnceInv, Base, TypeOK, Outcomes, InFlight
    <3>2. Known(ledger') = Known(ledger)
      BY <1>5, <3>1, SettleOK
    <3> QED BY <1>0, <1>1, <1>5, <3>1, <3>2, SettleIn
  <2>5. Spent(e)'
    BY <1>2, <2>1, <2>4 DEF Spent, Holds, Waiting
  <2>6. ASSUME NEW x \in Envelopes
        PROVE  dispatches'[x] <= 1 /\ (dispatches'[x] = 1 => Spent(x)')
    <3>1. CASE x = e
      BY <1>1, <1>5, <2>1, <2>3, <2>5, <3>1
    <3>2. CASE x # e
      <4>1. dispatches'[x] = dispatches[x]
        BY <1>5, <2>1, <3>2
      <4>2. Carried(x.id)
        BY <1>3, EnvelopeFacts
      <4>3. dispatches[x] <= 1 /\ (dispatches[x] = 1 => Spent(x))
        BY DEF OnceInv, DispatchedIsSpent
      <4> QED BY <1>2, <4>1, <4>2, <4>3, StaysSpent DEF OnceInv
    <3> QED BY <3>1, <3>2
  <2>7. ASSUME NEW k \in Ids, ledger'[k].status \in Waiting
        PROVE  ledger'[k].env.adapter = session'
    BY <1>2, <1>3, <2>7, StaysCurrent DEF OnceInv
  <2> QED BY <2>6, <2>7 DEF OnceInv, WaitingIsCurrent, DispatchedIsSpent
<1> QED BY <1>0, <1>4, <1>5 DEF MarkDispatched, historyVars

\* A new process dispatches nothing that was signed for an earlier one.
LEMMA RestartOnce ==
  ASSUME OnceInv, Base', Restart PROVE OnceInv'
<1>1. session \in Nat /\ session' = session + 1 /\ dispatches' = dispatches
  BY DEF Restart, Start, OnceInv, Base, TypeOK, historyVars
<1>2. ASSUME NEW i \in Ids PROVE ledger'[i].status \notin Waiting
  <2>1. jobs'[i] = NoJob /\ LedgerOK(saved)
    BY DEF Restart, Start, OnceInv, Base, TypeOK
  <2>2. CASE ledger' = Restored(saved)
    BY <2>1, <2>2, RestoredFacts
  <2>3. CASE ledger' = EmptyLedger
    BY <2>3, EmptyLedgerOK DEF NoEntry, Waiting
  <2> QED BY <2>2, <2>3 DEF Restart, Start
<1>3. ASSUME NEW e \in Envelopes, dispatches[e] = 1 PROVE Spent(e)'
  <2>1. Spent(e) /\ e.adapter \in Nat
    BY <1>3, EnvelopeFacts DEF OnceInv, DispatchedIsSpent
  <2>2. e.adapter < session'
    BY <1>1, <2>1 DEF Spent
  <2> QED BY <2>2 DEF Spent
<1> QED BY <1>1, <1>2, <1>3 DEF OnceInv, WaitingIsCurrent, DispatchedIsSpent

LEMMA OnceInit == Init => OnceInv
<1> SUFFICES ASSUME Init PROVE OnceInv
  OBVIOUS
<1>1. Base
  BY BaseInit
<1>2. WaitingIsCurrent
  BY EmptyLedgerOK DEF Init, WaitingIsCurrent, NoEntry, Waiting
<1>3. DispatchedIsSpent
  BY DEF Init, DispatchedIsSpent
<1> QED BY <1>1, <1>2, <1>3 DEF OnceInv

LEMMA OnceStep == OnceInv /\ [Next]_vars => OnceInv'
<1> SUFFICES ASSUME OnceInv, [Next]_vars PROVE OnceInv'
  OBVIOUS
<1>1. Base /\ Base'
  BY BaseStep DEF OnceInv
<1>2. utc_highwater \in Nat
  BY <1>1 DEF Base, TypeOK
<1>3. ASSUME NEW e \in Envelopes, NEW w \in WallReadings, NEW m \in MonoSamples, Submit(e, w, m)
      PROVE  OnceInv'
  BY <1>1, <1>3, SubmitOnce
<1>4. CASE Pop
  <2>1. \A i \in Ids : Carried(i)
    BY <1>1, <1>4, PopCarried
  <2> QED BY <1>1, <1>2, <1>4, <2>1, CarriedKeepsOnce DEF Pop, historyVars
<1>5. ASSUME NEW i \in Ids, NEW w \in WallReadings, MarkDispatched(i, w) PROVE OnceInv'
  BY <1>1, <1>5, DispatchOnce
<1>6. ASSUME NEW i \in Ids, NEW st \in Recorded, NEW w \in WallReadings, RecordResult(i, st, w)
      PROVE  OnceInv'
  <2>1. \A k \in Ids : Carried(k)
    BY <1>1, <1>6, RecordResultFacts, FollowsCarried
  <2>2. /\ utc_highwater <= utc_highwater' /\ session' = session /\ dispatches' = dispatches
    BY <1>1, <1>6, NowFacts DEF RecordResult, historyVars
  <2> QED BY <1>1, <2>1, <2>2, CarriedKeepsOnce
<1>7. ASSUME NEW a \in BOOLEAN, NEW s \in BOOLEAN, Invalidate(a, s) PROVE OnceInv'
  <2>1. \A k \in Ids : Carried(k)
    BY <1>1, <1>7, InvalidateFacts, FollowsCarried
  <2> QED BY <1>1, <1>2, <1>7, <2>1, CarriedKeepsOnce DEF Invalidate, historyVars
<1>8. ASSUME NEW p \in Policies, NEW w \in WallReadings, NEW m \in MonoSamples,
             UpdatePolicy(p, w, m)
      PROVE  OnceInv'
  <2>1. \A k \in Ids : Carried(k)
    BY <1>1, <1>8, UpdatePolicyFacts, FollowsCarried
  <2>2. /\ utc_highwater <= utc_highwater' /\ session' = session /\ dispatches' = dispatches
    BY <1>1, <1>8, NowFacts DEF UpdatePolicy
  <2> QED BY <1>1, <2>1, <2>2, CarriedKeepsOnce
<1>9. CASE UNCHANGED <<ledger, session, utc_highwater, dispatches>>
  <2>1. \A k \in Ids : Carried(k)
    BY <1>9, TurnsFacts DEF Carried, Known
  <2> QED BY <1>1, <1>2, <1>9, <2>1, CarriedKeepsOnce
<1>10. CASE Restart
  BY <1>1, <1>10, RestartOnce
<1> QED BY <1>3, <1>4, <1>5, <1>6, <1>7, <1>8, <1>9, <1>10
       DEF Next, Export, Tick, vars, queueVars, historyVars

\* A signed command is dispatched at most once, however often it is delivered,
\* whatever the ledger evicts, wherever the wall clock jumps and however often
\* the process restarts.
THEOREM AtMostOnce == Spec => []AtMostOnceDispatch
<1>1. Init => OnceInv
  BY OnceInit
<1>2. OnceInv /\ [Next]_vars => OnceInv'
  BY OnceStep
<1>3. OnceInv => AtMostOnceDispatch
  BY DEF OnceInv, DispatchedIsSpent, AtMostOnceDispatch
<1> QED BY <1>1, <1>2, <1>3, PTL DEF Spec

(***************************************************************************)
(* What one step does to the queue: three kinds of step.                   *)
(***************************************************************************)

\* A command the ledger does not know is submitted at the wall clock's now.
Arrives(e, now, m) ==
  /\ ledger[e.id] = NoEntry /\ SubmitNew(e, now, m) /\ utc_highwater' = now
  /\ UNCHANGED <<session, connection_generation, policyVars>>

\* Entries are carried over, and work may only leave the queue.
Quiet ==
  /\ \A i \in Ids : Carried(i)
  /\ jobs' = jobs /\ pending' \subseteq pending /\ ahead' = ahead \cap (pending' \X pending')
  /\ session' = session /\ utc_highwater <= utc_highwater'

\* Nothing of the queue changes.
Still == UNCHANGED <<queueVars, session, utc_highwater>>

LEMMA StillQuiet ==
  ASSUME Base, Still
  PROVE  Quiet
<1>1. \A i \in Ids : Carried(i)
  BY TurnsFacts DEF Still, Carried, Known, queueVars
<1>2. utc_highwater \in Nat /\ ahead \subseteq pending \X pending
  BY DEF Base, TypeOK
<1> QED BY <1>1, <1>2 DEF Still, Quiet, queueVars

LEMMA FollowsQuiet ==
  ASSUME Base, LedgerOK(ledger'), Follows(ledger, ledger'), jobs' = jobs,
         pending' = Surviving(ledger'), ahead' = ahead \cap (pending' \X pending'),
         session' = session, utc_highwater <= utc_highwater'
  PROVE  Quiet
BY FollowsCarried DEF Quiet, Surviving

LEMMA StepKinds ==
  ASSUME Base, Base', [Next]_vars
  PROVE  \/ \E e \in Envelopes, now \in Nat, m \in Nat : Arrives(e, now, m) /\ m <= mono
         \/ Quiet
         \/ Restart
<1> USE DEF policyVars
<1>0. utc_highwater \in Nat
  BY DEF Base, TypeOK
<1>1. ASSUME NEW e \in Envelopes, NEW w \in WallReadings, NEW m \in MonoSamples, Submit(e, w, m)
      PROVE  \/ Arrives(e, Now(w), m) /\ Now(w) \in Nat /\ m \in Nat /\ m <= mono
             \/ Quiet
  <2>1. CASE UNCHANGED queueVars
    <3>1. /\ Now(w) \in Nat /\ utc_highwater <= Now(w)
      BY NowFacts
    <3>2. \A i \in Ids : Carried(i)
      BY <2>1, TurnsFacts DEF Carried, Known, queueVars
    <3>3. ahead \subseteq pending \X pending
      BY DEF Base, TypeOK
    <3> QED BY <1>1, <2>1, <3>1, <3>2, <3>3 DEF Submit, Quiet, queueVars
  <2>2. CASE ledger[e.id] = NoEntry /\ SubmitNew(e, Now(w), m)
    BY <1>1, <2>2, NowFacts, SampleFacts DEF Submit, Arrives
  <2> QED BY <1>1, <2>1, <2>2 DEF Submit
<1>2. CASE Pop
  <2>1. \A i \in Ids : Carried(i)
    BY <1>2, PopCarried
  <2> QED BY <1>0, <1>2, <2>1 DEF Pop, Quiet
<1>3. ASSUME NEW i \in Ids, NEW w \in WallReadings, MarkDispatched(i, w) PROVE Quiet
  <2>1. LedgerOK(ledger') /\ Follows(ledger, ledger') /\ utc_highwater <= Now(w)
    BY <1>3, MarkDispatchedFacts, NowFacts
  <2> QED BY <1>3, <2>1, FollowsQuiet DEF MarkDispatched
<1>4. ASSUME NEW i \in Ids, NEW st \in Recorded, NEW w \in WallReadings, RecordResult(i, st, w)
      PROVE  Quiet
  <2>1. LedgerOK(ledger') /\ Follows(ledger, ledger') /\ utc_highwater <= Now(w)
    BY <1>4, RecordResultFacts, NowFacts
  <2> QED BY <1>4, <2>1, FollowsQuiet DEF RecordResult
<1>5. ASSUME NEW a \in BOOLEAN, NEW s \in BOOLEAN, Invalidate(a, s) PROVE Quiet
  <2>1. LedgerOK(ledger') /\ Follows(ledger, ledger')
    BY <1>5, InvalidateFacts
  <2> QED BY <1>0, <1>5, <2>1, FollowsQuiet DEF Invalidate
<1>6. ASSUME NEW p \in Policies, NEW w \in WallReadings, NEW m \in MonoSamples,
             UpdatePolicy(p, w, m)
      PROVE  Quiet
  <2>1. LedgerOK(ledger') /\ Follows(ledger, ledger') /\ utc_highwater <= Now(w)
    BY <1>6, UpdatePolicyFacts, NowFacts
  <2>2. /\ pending' = Surviving(ledger') /\ ahead' = ahead \cap (pending' \X pending')
    <3>1. CASE UNCHANGED <<ledger, pending, ahead>>
      <4>1. Surviving(ledger) = pending /\ ahead \subseteq pending \X pending
        BY BaseFits, SurvivingFits DEF Base, TypeOK
      <4> QED BY <3>1, <4>1 DEF Surviving
    <3>2. CASE \E g : Adopt(p, g, Now(w), m)
      BY <3>2 DEF Adopt
    <3> QED BY <1>6, <3>1, <3>2 DEF UpdatePolicy
  <2> QED BY <1>6, <2>1, <2>2, FollowsQuiet DEF UpdatePolicy
<1>7. CASE Export \/ Tick \/ UNCHANGED vars
  BY <1>7, StillQuiet DEF Export, Tick, vars, Still
<1> QED BY <1>1, <1>2, <1>3, <1>4, <1>5, <1>6, <1>7 DEF Next

\* What a new command's arrival does, in the terms of the lemmas above.
LEMMA ArrivalFacts ==
  ASSUME Base, NEW e \in Envelopes, NEW now \in Nat, NEW m \in Nat, Arrives(e, now, m)
  PROVE  /\ e.id \in Ids /\ Placed(ledger, jobs, e)
         /\ LedgerOK(ledger') /\ pending' = Queued(ledger')
         /\ \A i \in Ids \ {e.id} : Carried(i) \/ Gone(i, now)
         /\ \/ ledger'[e.id] = NoEntry
            \/ Stored(e, Admissible(Prune(ledger, now, m), e, now, m))
<1>1. /\ Sound /\ KeptOrGoneBeside(e, now) /\ Placed(ledger, jobs, e)
      /\ \/ ledger'[e.id] = NoEntry
         \/ Stored(e, Admissible(Prune(ledger, now, m), e, now, m))
  BY SubmitNewFacts DEF Arrives
<1>2. e.id \in Ids /\ LedgerOK(ledger') /\ pending' = Queued(ledger')
  BY <1>1, EnvelopeFacts DEF Sound
<1>3. \A i \in Ids \ {e.id} : Carried(i) \/ Gone(i, now)
  BY <1>1, <1>2, KeptCarried DEF KeptOrGoneBeside
<1> QED BY <1>1, <1>2, <1>3

\* A new process has nothing that waits and no jobs.
LEMMA RestartFacts ==
  ASSUME Base, Restart
  PROVE  /\ \A i \in Ids : jobs'[i] = NoJob /\ ledger'[i].status \notin Waiting
         /\ pending' = {} /\ session' = session + 1 /\ session \in Nat
<1>1. LedgerOK(saved) /\ session \in Nat
  BY DEF Base, TypeOK
<1>2. ASSUME NEW i \in Ids PROVE ledger'[i].status \notin Waiting
  <2>1. CASE ledger' = Restored(saved)
    BY <1>1, <2>1, RestoredFacts
  <2>2. CASE ledger' = EmptyLedger
    BY <2>2, EmptyLedgerOK DEF NoEntry, Waiting
  <2> QED BY <2>1, <2>2 DEF Restart, Start
<1> QED BY <1>1, <1>2 DEF Restart, Start

(***************************************************************************)
(* Outcomes.                                                               *)
(***************************************************************************)

\* Within a process a final outcome stays and nothing that was sent waits again.
LEMMA OutcomesStep ==
  ASSUME Base, Base', [Next]_vars, session' = session,
         NEW i \in Ids, ledger[i] # NoEntry, ledger'[i] # NoEntry
  PROVE  /\ ledger[i].status \in Final => ledger'[i].status = ledger[i].status
         /\ ledger[i].status \notin Waiting => ledger'[i].status \notin Waiting
<1>1. CASE Carried(i)
  <2>1. Turns(ledger[i].status, ledger'[i].status)
    BY <1>1 DEF Carried, Known
  <2> QED BY <2>1 DEF Turns, Ages, Final, Waiting
<1>2. ASSUME NEW e \in Envelopes, NEW now \in Nat, NEW m \in Nat, Arrives(e, now, m)
      PROVE  Carried(i)
  <2>1. i # e.id
    BY <1>2 DEF Arrives
  <2> QED BY <1>2, <2>1, ArrivalFacts DEF Gone
<1>3. ~Restart
  BY RestartFacts
<1>4. Quiet => Carried(i)
  BY DEF Quiet
<1> QED BY <1>1, <1>2, <1>3, <1>4, StepKinds

\* Within a process a final outcome is never changed, and nothing sent or uncertain
\* goes back to waiting, whatever withdrawals and results race.
THEOREM OutcomesAbsorb == Spec => OutcomeAbsorbing
<1> DEFINE Absorbs ==
      session' = session =>
        \A i \in Ids : ledger[i] # NoEntry /\ ledger'[i] # NoEntry =>
          /\ ledger[i].status \in Final => ledger'[i].status = ledger[i].status
          /\ ledger[i].status \notin Waiting => ledger'[i].status \notin Waiting
<1>1. Init => Base
  BY BaseInit
<1>2. Base /\ [Next]_vars => Base'
  BY BaseStep
<1>3. Base /\ Base' /\ [Next]_vars => Absorbs
  BY OutcomesStep
<1>4. Base /\ Base' /\ [Next]_vars => [Absorbs]_vars
  BY <1>3
<1> HIDE DEF Absorbs
<1>5. Spec => [][Absorbs]_vars
  BY <1>1, <1>2, <1>4, PTL DEF Spec
<1> QED BY <1>5 DEF OutcomeAbsorbing, Absorbs

(***************************************************************************)
(* The line: what is queued, in which order, and what waits beside what.   *)
(***************************************************************************)

\* The pending queue is in one order.
InOneOrder ==
  /\ \A i, k \in pending : i # k => (<<i, k>> \in ahead <=> <<k, i>> \notin ahead)
  /\ \A i, k, n \in pending : <<i, k>> \in ahead /\ <<k, n>> \in ahead => <<i, n>> \in ahead

LineInv ==
  /\ Base /\ HasJobs(ledger, jobs) /\ InOneOrder
  /\ StopsFirst /\ OneWaitingPerShade
  /\ IsFiniteSet(pending) /\ OrdinaryWithinLimit

\* Leaving the queue and joining it at either end keep the order.
LEMMA LeavingOrder ==
  ASSUME InOneOrder, NEW left, left \subseteq pending, pending' = left,
         ahead' = ahead \cap (left \X left)
  PROVE  InOneOrder'
BY DEF InOneOrder

LEMMA JoiningOrder ==
  ASSUME InOneOrder, NEW left, left \subseteq pending, NEW e, e.id \notin left, Enqueue(left, e)
  PROVE  InOneOrder'
<1>1. /\ pending' = left \cup {e.id}
      /\ \A i, k \in left : <<i, k>> \in ahead' <=> <<i, k>> \in ahead
      /\ \A i \in left : <<i, e.id>> \in ahead' <=> e.command # "STOP"
      /\ \A i \in left : <<e.id, i>> \in ahead' <=> e.command = "STOP"
      /\ <<e.id, e.id>> \notin ahead'
  BY DEF Enqueue, Link
<1>2. ASSUME NEW i \in pending', NEW k \in pending', i # k
      PROVE  <<i, k>> \in ahead' <=> <<k, i>> \notin ahead'
  BY <1>1, <1>2 DEF InOneOrder
<1>3. ASSUME NEW i \in pending', NEW k \in pending', NEW n \in pending',
             <<i, k>> \in ahead', <<k, n>> \in ahead'
      PROVE  <<i, n>> \in ahead'
  <2>1. CASE i = e.id
    BY <1>1, <1>3, <2>1
  <2>2. CASE k = e.id
    BY <1>1, <1>3, <2>2
  <2>3. CASE n = e.id
    BY <1>1, <1>3, <2>3
  <2>4. CASE i \in left /\ k \in left /\ n \in left
    BY <1>1, <1>3, <2>4 DEF InOneOrder
  <2> QED BY <1>1, <2>1, <2>2, <2>3, <2>4
<1> QED BY <1>2, <1>3 DEF InOneOrder

\* What waits after a step that only carries entries over waited before.
LEMMA WaitedBefore ==
  ASSUME Base, Base', NEW i \in Ids, Carried(i) \/ (\E now : Gone(i, now)),
         ledger'[i].status \in Waiting
  PROVE  /\ ledger[i].status \in Waiting /\ i \in Known(ledger)
         /\ ledger'[i].env = ledger[i].env
<1>1. i \in Known(ledger')
  BY EntryFacts DEF Base, TypeOK
<1> QED BY <1>1 DEF Carried, Gone, Known

LEMMA QuietLine ==
  ASSUME LineInv, Base', Quiet
  PROVE  LineInv'
<1>1. Base
  BY DEF LineInv
<1>2. ASSUME NEW i \in Ids, ledger'[i].status \in Waiting
      PROVE  ledger[i].status \in Waiting /\ ledger'[i].env = ledger[i].env
  BY <1>1, <1>2, WaitedBefore DEF Quiet
<1>3. HasJobs(ledger', jobs')
  BY <1>2 DEF LineInv, HasJobs, Quiet
<1>4. InOneOrder'
  BY LeavingOrder DEF LineInv, Quiet
<1>5. /\ \A i \in pending' : i \in pending /\ ledger'[i].env = ledger[i].env
      /\ \A i, k \in pending' : <<i, k>> \in ahead => <<i, k>> \in ahead'
  BY <1>1, <1>2 DEF Quiet, Base, Queued, Waiting
<1>6. StopsFirst'
  BY <1>5 DEF LineInv, StopsFirst
<1>7. OneWaitingPerShade'
  BY <1>2 DEF LineInv, OneWaitingPerShade
<1>8. IsFiniteSet(pending')
  BY FS_Subset DEF LineInv, Quiet
<1>9. OrdinaryWithinLimit'
  <2>1. OrdinaryPending(ledger', pending') \subseteq OrdinaryPending(ledger, pending)
    BY <1>5 DEF OrdinaryPending
  <2>2. IsFiniteSet(OrdinaryPending(ledger, pending))
    BY FS_Subset DEF LineInv, OrdinaryPending
  <2>3. /\ Cardinality(OrdinaryPending(ledger', pending')) <= Cardinality(OrdinaryPending(ledger, pending))
        /\ Cardinality(OrdinaryPending(ledger', pending')) \in Nat
        /\ Cardinality(OrdinaryPending(ledger, pending)) \in Nat
    BY <2>1, <2>2, FS_Subset, FS_CardinalityType
  <2> QED BY <2>3, QueueAssumption DEF LineInv, OrdinaryWithinLimit
<1> QED BY <1>3, <1>4, <1>6, <1>7, <1>8, <1>9 DEF LineInv

LEMMA ArrivalLine ==
  ASSUME LineInv, Base', NEW e \in Envelopes, NEW now \in Nat, NEW m \in Nat,
         Arrives(e, now, m)
  PROVE  LineInv'
<1>1. /\ Base /\ e.id \in Ids /\ Placed(ledger, jobs, e) /\ pending' = Queued(ledger')
      /\ HasJobs(ledger, jobs)
  BY ArrivalFacts DEF LineInv
<1>2. /\ \A i \in Ids \ {e.id} : Carried(i) \/ Gone(i, now)
      /\ \/ ledger'[e.id] = NoEntry
         \/ Stored(e, Admissible(Prune(ledger, now, m), e, now, m))
  BY ArrivalFacts DEF LineInv
<1>3. ASSUME NEW i \in Ids \ {e.id}, ledger'[i].status \in Waiting
      PROVE  ledger[i].status \in Waiting /\ ledger'[i].env = ledger[i].env
  BY <1>1, <1>2, <1>3, WaitedBefore
<1>4. ledger'[e.id].status \in Waiting =>
        ledger'[e.id].status = "queued" /\ ledger'[e.id].env = e
  BY <1>2 DEF Stored, NoEntry, Waiting
<1>5. HasJobs(ledger', jobs') /\ Alone(e) /\ HadRoom(e)
  BY <1>1 DEF Placed
<1>6. PICK left \in SUBSET pending :
         /\ e.id \notin left
         /\ \/ pending' = left /\ ahead' = ahead \cap (left \X left)
            \/ Enqueue(left, e)
  BY <1>1 DEF Placed, Joined
<1>7. InOneOrder'
  BY <1>6, LeavingOrder, JoiningOrder DEF LineInv
<1>8. pending' \subseteq left \cup {e.id} /\ left \subseteq pending'
  BY <1>6 DEF Enqueue
<1>9. /\ \A i \in pending' : ledger'[i].status = "queued" /\ i \in Ids
      /\ \A i \in pending' \ {e.id} : ledger'[i].env = ledger[i].env /\ i \in left
  BY <1>1, <1>3, <1>8 DEF Queued, Waiting
<1>10. StopsFirst'
  <2>1. SUFFICES ASSUME NEW i \in pending', NEW k \in pending',
                        ledger'[i].env.command = "STOP", ledger'[k].env.command # "STOP"
                 PROVE  <<i, k>> \in ahead'
    BY DEF StopsFirst
  <2>2. CASE i # e.id /\ k # e.id
    <3>1. <<i, k>> \in ahead
      BY <1>9, <2>1, <2>2, <1>6 DEF LineInv, StopsFirst
    <3> QED BY <1>6, <1>9, <2>2, <3>1 DEF Enqueue
  <2>3. CASE i = e.id \/ k = e.id
    <3>1. Enqueue(left, e) /\ ledger'[e.id].env = e
      BY <1>4, <1>6, <1>9, <2>3 DEF Waiting
    <3> QED BY <1>9, <2>1, <2>3, <3>1 DEF Enqueue, Link
  <2> QED BY <2>2, <2>3
<1>11. OneWaitingPerShade'
  <2>1. SUFFICES ASSUME NEW i \in Ids, NEW k \in Ids, i # k,
                        ledger'[i].status \in Waiting, ledger'[k].status \in Waiting,
                        ledger'[i].env.shade = ledger'[k].env.shade
                 PROVE  /\ ledger'[i].env.command = "MOVE" /\ ledger'[k].env.command = "MOVE"
                        /\ ledger'[i].env.origin # ledger'[k].env.origin
    BY DEF OneWaitingPerShade
  <2>2. CASE i # e.id /\ k # e.id
    BY <1>3, <2>1, <2>2 DEF LineInv, OneWaitingPerShade
  <2>3. CASE i = e.id
    BY <1>4, <1>5, <2>1, <2>3 DEF Alone
  <2>4. CASE k = e.id
    BY <1>4, <1>5, <2>1, <2>4 DEF Alone
  <2> QED BY <2>2, <2>3, <2>4
<1>12. IsFiniteSet(pending')
  <2>1. IsFiniteSet(left \cup {e.id})
    <3>1. IsFiniteSet(left)
      BY FS_Subset DEF LineInv
    <3> QED BY <3>1, OneMore
  <2> QED BY <1>8, <2>1, FS_Subset
<1>13. OrdinaryWithinLimit'
  <2> DEFINE old == OrdinaryPending(ledger, pending)
             others == OrdinaryPending(ledger', pending' \ {e.id})
             new == OrdinaryPending(ledger', pending')
  <2>1. others \subseteq old
    BY <1>6, <1>9 DEF OrdinaryPending
  <2>2. IsFiniteSet(old) /\ Cardinality(old) <= PendingLimit
    BY FS_Subset DEF LineInv, OrdinaryPending, OrdinaryWithinLimit
  <2>3. new \subseteq others \cup {e.id}
    BY DEF OrdinaryPending
  <2>4. e.id \in new => ledger'[e.id].status = "queued" /\ ~ManualStop(e)
    BY <1>4, <1>9 DEF OrdinaryPending, Waiting
  <2>5. e.id \in new => Cardinality(others) < PendingLimit
    BY <1>5, <2>4 DEF HadRoom
  <2> HIDE DEF old, others, new
  <2>6. /\ IsFiniteSet(others) /\ Cardinality(others) <= Cardinality(old)
        /\ Cardinality(others) \in Nat /\ Cardinality(old) \in Nat
    BY <2>1, <2>2, FS_Subset, FS_CardinalityType
  <2>7. CASE e.id \in new
    <3>1. /\ IsFiniteSet(others \cup {e.id})
          /\ Cardinality(others \cup {e.id}) <= Cardinality(others) + 1
      BY <2>6, OneMore
    <3>2. /\ Cardinality(new) <= Cardinality(others \cup {e.id})
          /\ Cardinality(new) \in Nat /\ Cardinality(others \cup {e.id}) \in Nat
      BY <2>3, <3>1, FS_Subset, FS_CardinalityType
    <3>3. Cardinality(new) <= PendingLimit
      BY <2>5, <2>6, <2>7, <3>1, <3>2, QueueAssumption
    <3> QED BY <3>3 DEF OrdinaryWithinLimit, new
  <2>8. CASE e.id \notin new
    <3>1. new \subseteq others
      BY <2>3, <2>8
    <3>2. Cardinality(new) <= Cardinality(others) /\ Cardinality(new) \in Nat
      BY <2>6, <3>1, FS_Subset, FS_CardinalityType
    <3>3. Cardinality(new) <= PendingLimit
      BY <2>2, <2>6, <3>2, QueueAssumption
    <3> QED BY <3>3 DEF OrdinaryWithinLimit, new
  <2> QED BY <2>7, <2>8
<1> QED BY <1>5, <1>7, <1>10, <1>11, <1>12, <1>13 DEF LineInv

LEMMA RestartLine ==
  ASSUME LineInv, Base', Restart
  PROVE  LineInv'
<1>1. pending' = {} /\ \A i \in Ids : ledger'[i].status \notin Waiting
  BY RestartFacts DEF LineInv
<1>2. InOneOrder' /\ StopsFirst' /\ OneWaitingPerShade' /\ HasJobs(ledger', jobs')
  BY <1>1 DEF InOneOrder, StopsFirst, OneWaitingPerShade, HasJobs
<1>3. IsFiniteSet(pending') /\ OrdinaryPending(ledger', pending') = {}
  BY <1>1, FS_EmptySet DEF OrdinaryPending
<1>4. OrdinaryWithinLimit'
  BY <1>3, FS_EmptySet, QueueAssumption DEF OrdinaryWithinLimit
<1> QED BY <1>2, <1>3, <1>4 DEF LineInv

LEMMA LineInit == Init => LineInv
<1> SUFFICES ASSUME Init PROVE LineInv
  OBVIOUS
<1>1. \A i \in Ids : ledger[i].status \notin Waiting
  BY EmptyLedgerOK DEF Init, NoEntry, Waiting
<1>2. pending = {}
  BY DEF Init
<1>3. InOneOrder /\ StopsFirst /\ OneWaitingPerShade /\ HasJobs(ledger, jobs)
  BY <1>1, <1>2 DEF InOneOrder, StopsFirst, OneWaitingPerShade, HasJobs
<1>4. IsFiniteSet(pending) /\ OrdinaryPending(ledger, pending) = {}
  BY <1>2, FS_EmptySet DEF OrdinaryPending
<1>5. OrdinaryWithinLimit
  BY <1>4, FS_EmptySet, QueueAssumption DEF OrdinaryWithinLimit
<1> QED BY <1>3, <1>4, <1>5, BaseInit DEF LineInv

LEMMA LineStep == LineInv /\ [Next]_vars => LineInv'
<1> SUFFICES ASSUME LineInv, [Next]_vars PROVE LineInv'
  OBVIOUS
<1>1. Base /\ Base'
  BY BaseStep DEF LineInv
<1> QED BY <1>1, StepKinds, QuietLine, ArrivalLine, RestartLine

LEMMA LineAlways == Spec => []LineInv
BY LineInit, LineStep, PTL DEF Spec

\* The pending queue holds exactly the queued requests, in one order, and whatever
\* waits has a job that pop can return or a withdrawal reach.
THEOREM PendingQueued == Spec => []PendingIsQueued
<1>1. LineInv => PendingIsQueued
  BY DEF LineInv, PendingIsQueued, HasJobs, InOneOrder, Base, Queued
<1> QED BY <1>1, LineAlways, PTL

\* Every pending STOP is popped before any pending movement.
THEOREM StopsGoFirst == Spec => []StopsFirst
<1>1. LineInv => StopsFirst
  BY DEF LineInv
<1> QED BY <1>1, LineAlways, PTL

\* At most one STOP waits on a shade and no movement beside it, and of the movements
\* there at most one of each origin, those a worker has already popped included.
THEOREM OneWaits == Spec => []OneWaitingPerShade
<1>1. LineInv => OneWaitingPerShade
  BY DEF LineInv
<1> QED BY <1>1, LineAlways, PTL

\* The ordinary work in the queue never exceeds its limit.
THEOREM OrdinaryBounded == Spec => []OrdinaryWithinLimit
<1>1. LineInv => OrdinaryWithinLimit
  BY DEF LineInv
<1> QED BY <1>1, LineAlways, PTL

(***************************************************************************)
(* The policy and the automation it permits.                               *)
(***************************************************************************)

\* Automation that waits, or was sent and not answered, belongs to the policy in force.
Live(l, j, i) ==
  /\ j[i] # NoJob /\ l[i].status \in Waiting \cup {"dispatched"}
  /\ l[i].env.origin = "automatic" /\ l[i].env.command = "MOVE"

CurrentInv == Base /\ AutomationIsCurrent

\* Without a change of policy and with the jobs it had, live automation was live before.
LEMMA LiveBefore ==
  ASSUME Base, Base', NEW i \in Ids, Carried(i) \/ (\E now : Gone(i, now)),
         jobs'[i] # NoJob => jobs[i] # NoJob, Live(ledger', jobs', i)
  PROVE  Live(ledger, jobs, i) /\ ledger'[i].env = ledger[i].env
<1>1. i \in Known(ledger')
  BY EntryFacts DEF Live, Base, TypeOK, InFlight, Waiting
<1>2. Carried(i)
  BY <1>1 DEF Gone, Known
<1>3. /\ ledger'[i].env = ledger[i].env
      /\ Turns(ledger[i].status, ledger'[i].status)
  BY <1>1, <1>2 DEF Carried
<1>4. ledger[i].status \in Waiting \cup {"dispatched"}
  BY <1>3 DEF Live, Turns, Ages, Waiting
<1> QED BY <1>3, <1>4 DEF Live

LEMMA ArrivalCurrent ==
  ASSUME CurrentInv, Base', NEW e \in Envelopes, NEW now \in Nat, NEW m \in Nat,
         Arrives(e, now, m)
  PROVE  AutomationIsCurrent'
<1>1. SUFFICES ASSUME NEW i \in Ids, Live(ledger', jobs', i)
               PROVE  /\ policy # NoPolicy
                      /\ ledger'[i].env.generation = policy.generation
                      /\ ledger'[i].env.owner = policy.owner
  BY DEF AutomationIsCurrent, Live, Arrives, policyVars
<1>2. /\ Base /\ Placed(ledger, jobs, e)
      /\ \A k \in Ids \ {e.id} : Carried(k) \/ Gone(k, now)
      /\ \/ ledger'[e.id] = NoEntry
         \/ Stored(e, Admissible(Prune(ledger, now, m), e, now, m))
  BY ArrivalFacts DEF CurrentInv
<1>3. CASE i = e.id
  <2>1. ledger'[i].env = e /\ Admissible(Prune(ledger, now, m), e, now, m)
    BY <1>1, <1>2, <1>3 DEF Live, Stored, NoEntry, Waiting
  <2>2. e.origin = "automatic" /\ e.command = "MOVE"
    BY <1>1, <2>1 DEF Live
  <2> QED BY <2>1, <2>2 DEF Admissible, PolicyPermits
<1>4. CASE i # e.id
  <2>1. Live(ledger, jobs, i) /\ ledger'[i].env = ledger[i].env
    <3>1. Carried(i) \/ Gone(i, now)
      BY <1>2, <1>4
    <3>2. jobs'[i] # NoJob => jobs[i] # NoJob
      BY <1>2, <1>4 DEF Placed
    <3> QED BY <1>1, <1>2, <3>1, <3>2, LiveBefore
  <2> QED BY <2>1 DEF CurrentInv, AutomationIsCurrent, Live
<1> QED BY <1>3, <1>4

\* A policy of another generation withdraws what the one before it permitted.
LEMMA AdoptCurrent ==
  ASSUME CurrentInv, Base', NEW p \in Policies, NEW g, NEW now, NEW m,
         ~Stale(p), Adopt(p, g, now, m), jobs' = jobs
  PROVE  AutomationIsCurrent'
<1>1. SUFFICES ASSUME NEW i \in Ids, Live(ledger', jobs', i)
               PROVE  /\ p # NoPolicy
                      /\ ledger'[i].env.generation = p.generation
                      /\ ledger'[i].env.owner = p.owner
  BY DEF AutomationIsCurrent, Live, Adopt
<1>2. Base /\ LedgerOK(ledger)
  BY DEF CurrentInv, Base, TypeOK
<1> DEFINE automatic == {k \in Ids : jobs[k] # NoJob /\ ledger[k].env.origin = "automatic"}
           S == IF Replaces(p) THEN automatic ELSE {}
<1>3. "superseded" \in Outcomes \ Waiting
  BY DEF Outcomes, Final, Waiting
<1>4. ledger' = Withdraw(ledger, S, "superseded")
  BY DEF Adopt
<1>5. Live(ledger, jobs, i) /\ ledger'[i].env = ledger[i].env
  <2>1. LedgerOK(ledger') /\ Follows(ledger, ledger')
    BY <1>2, <1>3, <1>4, WithdrawFollows
  <2>2. Carried(i)
    BY <2>1, FollowsCarried
  <2> QED BY <1>1, <1>2, <2>2, LiveBefore
<1> HIDE DEF S
<1>6. i \notin S
  <2>1. SUFFICES ASSUME i \in S PROVE FALSE
    OBVIOUS
  <2>2. ledger[i] \in Entry
    BY <1>2, <1>5, EntryFacts DEF Live, Waiting, InFlight
  <2>3. CASE ledger[i].status \in Waiting
    <3>1. ledger'[i] = [ledger[i] EXCEPT !.status = "superseded"]
      BY <1>4, <2>1, <2>3 DEF Withdraw, Waiting, InFlight
    <3>2. ledger'[i].status = "superseded"
      BY <2>2, <3>1 DEF Entry
    <3> QED BY <1>1, <3>2 DEF Live, Waiting
  <2>4. CASE ledger[i].status = "dispatched"
    <3>1. ledger'[i] = [ledger[i] EXCEPT !.status = "uncertain"]
      BY <1>4, <2>1, <2>4 DEF Withdraw, InFlight, Waiting
    <3>2. ledger'[i].status = "uncertain"
      BY <2>2, <3>1 DEF Entry
    <3> QED BY <1>1, <3>2 DEF Live, Waiting
  <2> QED BY <1>5, <2>3, <2>4 DEF Live
<1>7. ~Replaces(p)
  BY <1>5, <1>6 DEF Live, S
<1>8. /\ policy # NoPolicy
      /\ ledger[i].env.generation = policy.generation
      /\ ledger[i].env.owner = policy.owner
  BY <1>5 DEF CurrentInv, AutomationIsCurrent, Live
<1>9. p.generation = policy.generation /\ Permission(p) = Permission(policy)
  BY <1>7, <1>8 DEF Replaces, Stale
<1>10. p.owner = policy.owner
  BY <1>9 DEF Permission
<1>11. p # NoPolicy
  BY QueueAssumption
<1> QED BY <1>5, <1>8, <1>9, <1>10, <1>11

LEMMA CurrentStep == CurrentInv /\ [Next]_vars => CurrentInv'
<1> SUFFICES ASSUME CurrentInv, [Next]_vars PROVE AutomationIsCurrent'
  BY BaseStep DEF CurrentInv
<1>1. Base /\ Base'
  BY BaseStep DEF CurrentInv
<1>2. ASSUME Quiet, UNCHANGED policy PROVE AutomationIsCurrent'
  <2>1. SUFFICES ASSUME NEW i \in Ids, Live(ledger', jobs', i)
                 PROVE  /\ policy # NoPolicy
                        /\ ledger'[i].env.generation = policy.generation
                        /\ ledger'[i].env.owner = policy.owner
    BY <1>2 DEF AutomationIsCurrent, Live
  <2>2. Live(ledger, jobs, i) /\ ledger'[i].env = ledger[i].env
    BY <1>1, <1>2, <2>1, LiveBefore DEF Quiet
  <2> QED BY <2>2 DEF CurrentInv, AutomationIsCurrent, Live
<1>3. ASSUME NEW e \in Envelopes, NEW now \in Nat, NEW m \in Nat, Arrives(e, now, m)
      PROVE  AutomationIsCurrent'
  BY <1>1, <1>3, ArrivalCurrent
<1>4. CASE Restart
  BY <1>1, <1>4, RestartFacts DEF AutomationIsCurrent
<1>5. ASSUME NEW p \in Policies, NEW w \in WallReadings, NEW m \in MonoSamples,
             UpdatePolicy(p, w, m), policy' # policy
      PROVE  AutomationIsCurrent'
  BY <1>1, <1>5, AdoptCurrent DEF UpdatePolicy, policyVars
<1>6. \/ UNCHANGED policy
      \/ Restart
      \/ \E p \in Policies, w \in WallReadings, m \in MonoSamples : UpdatePolicy(p, w, m)
  BY DEF Next, Submit, Pop, MarkDispatched, RecordResult, Invalidate, Export, Tick, vars, policyVars
<1> QED BY <1>1, <1>2, <1>3, <1>4, <1>5, <1>6, StepKinds

\* Automatic movements that wait, or were sent and are unanswered, belong to the
\* generation and the owner of the policy now in force.
THEOREM AutomationCurrent == Spec => []AutomationIsCurrent
<1>1. Init => CurrentInv
  BY BaseInit DEF Init, CurrentInv, AutomationIsCurrent
<1>2. CurrentInv => AutomationIsCurrent
  BY DEF CurrentInv
<1> QED BY <1>1, <1>2, CurrentStep, PTL DEF Spec

(***************************************************************************)
(* A policy that was replaced stays out, and one in force is not prolonged *)
(* by being delivered again.                                               *)
(***************************************************************************)

\* The generation of the policy in force is remembered for all its snapshots.
GenerationRemembered ==
  policy # NoPolicy =>
    /\ policy.adapter = session
    /\ policy_generations[policy.generation].until = policy.issued + MaxTTL

\* A snapshot of this process that was replaced is older than the one in force of its
\* generation, or of a generation still remembered, or its time is over.
Overtaken(d) ==
  \/ /\ d.generation = policy.generation
     /\ d.issued < policy.issued
  \/ /\ d.generation # policy.generation
     /\ policy_generations[d.generation].until >= d.issued + MaxTTL
  \/ d.expires <= utc_highwater

DisplacedOvertaken ==
  \A d \in displaced :
    /\ d.adapter <= session
    /\ d.adapter = session => policy # NoPolicy /\ Overtaken(d)

\* Only the policy in force and those replaced have taken effect in this process.
EffectiveKnown ==
  \A p \in Policies :
    first_effective[p] # NeverEffective =>
      p = policy \/ p \in displaced \/ p.adapter < session

PolicyInv ==
  /\ Base
  /\ GenerationRemembered /\ DisplacedOvertaken /\ ReplacedPolicyStaysOut
  /\ EffectiveKnown /\ PolicyNotProlonged
  /\ policy # NoPolicy => first_effective[policy] # NeverEffective

LEMMA PolicyFacts ==
  ASSUME NEW p \in Policies
  PROVE  /\ p.generation \in Generations /\ p.adapter \in Nat
         /\ p.issued \in Nat /\ p.expires \in Nat /\ MaxTTL \in Nat
         /\ p.issued < p.expires /\ p.expires <= p.issued + MaxTTL
         /\ p.issued + MaxTTL \in Nat
         /\ p # NoPolicy
BY QueueAssumption DEF PolicyType

\* What reclaiming leaves of the generations that are remembered.
LEMMA ReclaimFacts ==
  ASSUME Base, NEW now, NEW m, NEW g \in Generations
  PROVE  /\ policy # NoPolicy /\ g = policy.generation
              => Reclaim(now, m)[g] = policy_generations[g]
         /\ \/ Reclaim(now, m)[g] = policy_generations[g]
            \/ now >= policy_generations[g].until
BY DEF Reclaim

\* Dropping generations whose time is over keeps the invariant.
LEMMA ReclaimKeeps ==
  ASSUME PolicyInv, Base', NEW now \in Nat, NEW m, utc_highwater <= now, utc_highwater' = now,
         policy_generations' \in {policy_generations, Reclaim(now, m)},
         UNCHANGED <<session, policy, policy_deadline, displaced, first_effective>>
  PROVE  PolicyInv'
<1>1. Base /\ utc_highwater \in Nat /\ policy \in Policies \cup {NoPolicy} /\ displaced \subseteq Policies
  BY DEF PolicyInv, Base, TypeOK
<1>2. GenerationRemembered'
  BY <1>1, PolicyFacts, ReclaimFacts DEF PolicyInv, GenerationRemembered
<1>3. ASSUME NEW d \in displaced, d.adapter = session PROVE Overtaken(d)'
  <2>1. Overtaken(d) /\ d \in Policies
    BY <1>1, <1>3 DEF PolicyInv, DisplacedOvertaken
  <2>2. CASE d.generation = policy.generation /\ d.issued < policy.issued
    BY <2>2 DEF Overtaken
  <2>3. CASE d.expires <= utc_highwater
    <3>1. d.expires <= utc_highwater'
      BY <1>1, <2>1, <2>3, PolicyFacts
    <3> QED BY <3>1 DEF Overtaken
  <2>4. CASE /\ d.generation # policy.generation
             /\ policy_generations[d.generation].until >= d.issued + MaxTTL
    <3> DEFINE until == policy_generations[d.generation].until
    <3>1. policy_generations'[d.generation] = policy_generations[d.generation] \/ now >= until
      BY <1>1, <2>1, PolicyFacts, ReclaimFacts
    <3>2. CASE policy_generations'[d.generation] = policy_generations[d.generation]
      BY <2>4, <3>2 DEF Overtaken
    <3>3. CASE now >= until
      <4>1. until \in Int
        BY <2>1, PolicyFacts DEF PolicyInv, Base, TypeOK, NoInterval
      <4>2. until >= d.issued + MaxTTL
        BY <2>4
      <4> HIDE DEF until
      <4>3. d.expires <= now
        BY <2>1, <3>3, <4>1, <4>2, PolicyFacts
      <4> QED BY <4>3 DEF Overtaken
    <3> QED BY <3>1, <3>2, <3>3
  <2> QED BY <2>1, <2>2, <2>3, <2>4 DEF Overtaken
<1>4. DisplacedOvertaken'
  BY <1>3 DEF PolicyInv, DisplacedOvertaken
<1>5. ReplacedPolicyStaysOut' /\ EffectiveKnown' /\ PolicyNotProlonged'
  BY DEF PolicyInv, ReplacedPolicyStaysOut, EffectiveKnown, PolicyNotProlonged
<1> QED BY <1>2, <1>4, <1>5 DEF PolicyInv

\* A snapshot that is adopted is new, and leaves the one before it overtaken.
LEMMA AdoptKeeps ==
  ASSUME PolicyInv, Base', NEW p \in Policies, NEW now \in Nat, NEW m \in Nat, m <= mono,
         utc_highwater <= now, utc_highwater' = now, session' = session,
         p.adapter = session, p.issued <= now, now < p.expires, ~Stale(p),
         Adopt(p, Reclaim(now, m), now, m)
  PROVE  PolicyInv'
<1> DEFINE g == Reclaim(now, m)
           till == p.issued + MaxTTL
<1>1. /\ Base /\ utc_highwater \in Nat /\ session \in Nat /\ mono \in Nat
      /\ policy \in Policies \cup {NoPolicy} /\ displaced \subseteq Policies
      /\ first_effective \in [Policies -> Nat \cup {NeverEffective}]
      /\ policy_generations \in [Generations -> [until : Nat, mono : Nat] \cup {NoInterval}]
  BY DEF PolicyInv, Base, TypeOK
<1>2. /\ policy' = p /\ policy_deadline' = m + (p.expires - now)
      /\ displaced' = displaced \cup ({policy} \ {NoPolicy})
      /\ policy_generations' = Remember(p, g, now, m)
      /\ first_effective' = [first_effective EXCEPT ![p] =
                               IF @ = NeverEffective THEN mono ELSE @]
  BY DEF Adopt
<1>3. /\ policy_generations'[p.generation].until = till
      /\ \A x \in Generations : x # p.generation => policy_generations'[x] = g[x]
  BY PolicyFacts, <1>2 DEF Remember, Reclaim
<1>4. p # policy
  BY PolicyFacts DEF Stale
<1>5. ASSUME NEW d \in displaced, d.adapter = session
      PROVE  /\ d # p
             /\ \/ d.generation = p.generation /\ d.issued < p.issued
                \/ d.generation # p.generation /\ policy_generations'[d.generation].until >= d.issued + MaxTTL
                \/ d.expires <= now
  <2>1. Overtaken(d) /\ policy # NoPolicy /\ d \in Policies /\ policy \in Policies
    BY <1>1, <1>5 DEF PolicyInv, DisplacedOvertaken
  <2>2. CASE d.generation = policy.generation /\ d.issued < policy.issued
    <3>1. CASE p.generation = policy.generation
      BY <2>1, <2>2, <3>1, PolicyFacts DEF Stale
    <3>2. CASE p.generation # policy.generation
      <4>1. g[policy.generation] = policy_generations[policy.generation]
        BY <1>1, <2>1, ReclaimFacts, PolicyFacts
      <4>2. policy_generations'[policy.generation].until = policy.issued + MaxTTL
        BY <1>3, <2>1, <3>2, <4>1, PolicyFacts DEF PolicyInv, GenerationRemembered
      <4>3. policy_generations'[d.generation].until >= d.issued + MaxTTL
        BY <2>1, <2>2, <4>2, PolicyFacts
      <4> QED BY <2>2, <3>2, <4>3
    <3> QED BY <3>1, <3>2
  <2>3. CASE d.expires <= utc_highwater
    BY <1>1, <2>1, <2>3, PolicyFacts
  <2>4. CASE /\ d.generation # policy.generation
             /\ policy_generations[d.generation].until >= d.issued + MaxTTL
    <3> DEFINE until == policy_generations[d.generation].until
    <3>0. until >= d.issued + MaxTTL /\ d.generation \in Generations
      BY <2>1, <2>4, PolicyFacts
    <3>1. policy_generations[d.generation] # NoInterval /\ until \in Nat
      <4>1. d.issued + MaxTTL \in Nat
        BY <2>1, PolicyFacts
      <4>2. policy_generations[d.generation] = NoInterval => until = -1
        BY DEF NoInterval
      <4>3. policy_generations[d.generation] # NoInterval
        <5> HIDE DEF until
        <5> QED BY <3>0, <4>1, <4>2
      <4>4. until \in Nat
        BY <1>1, <3>0, <4>3
      <4> QED BY <4>3, <4>4
    <3>2. p.generation # d.generation
      BY <2>1, <2>4, <3>0, <3>1 DEF Stale, Remembered
    <3>3. policy_generations'[d.generation] = g[d.generation]
      BY <1>3, <3>0, <3>2
    <3>4. g[d.generation] = policy_generations[d.generation] \/ now >= until
      BY <1>1, <3>0, ReclaimFacts
    <3>5. CASE g[d.generation] = policy_generations[d.generation]
      <4>1. d # p
        BY <3>2
      <4> QED BY <2>4, <3>2, <3>3, <3>5, <4>1
    <3>6. CASE now >= until
      <4> HIDE DEF until
      <4> QED BY <2>1, <3>0, <3>1, <3>2, <3>6, PolicyFacts
    <3> QED BY <3>4, <3>5, <3>6
  <2>5. d = p => ~(d.expires <= now)
    BY PolicyFacts
  <2> QED BY <2>1, <2>2, <2>3, <2>4, <2>5 DEF Overtaken
<1>6. p \notin displaced'
  BY <1>2, <1>4, <1>5
<1>7. GenerationRemembered'
  BY <1>2, <1>3 DEF GenerationRemembered
<1>8. ASSUME policy # NoPolicy
      PROVE  \/ policy.generation = p.generation /\ policy.issued < p.issued
             \/ policy.generation # p.generation /\ policy_generations'[policy.generation].until >= policy.issued + MaxTTL
  <2>0. policy \in Policies
    BY <1>1, <1>8
  <2>1. CASE p.generation = policy.generation
    BY <2>0, <2>1, <1>8, PolicyFacts DEF Stale
  <2>2. CASE p.generation # policy.generation
    <3>1. g[policy.generation] = policy_generations[policy.generation]
      BY <1>1, <1>8, <2>0, ReclaimFacts, PolicyFacts
    <3>2. policy_generations'[policy.generation].until = policy.issued + MaxTTL
      BY <1>3, <1>8, <2>0, <2>2, <3>1, PolicyFacts DEF PolicyInv, GenerationRemembered
    <3>3. policy.issued + MaxTTL \in Nat
      BY <2>0, PolicyFacts
    <3> QED BY <2>2, <3>2, <3>3
  <2> QED BY <2>1, <2>2
<1>9. DisplacedOvertaken'
  <2>1. SUFFICES ASSUME NEW d \in displaced'
                 PROVE  /\ d.adapter <= session
                        /\ d.adapter = session => p # NoPolicy /\ Overtaken(d)'
    BY <1>2 DEF DisplacedOvertaken
  <2>2. CASE d \in displaced
    BY <1>2, <1>5, <2>2, PolicyFacts DEF PolicyInv, DisplacedOvertaken, Overtaken
  <2>3. CASE d = policy /\ policy # NoPolicy
    <3>1. d.adapter = session
      BY <2>3 DEF PolicyInv, GenerationRemembered
    <3> QED BY <1>1, <1>2, <1>8, <2>3, <3>1, PolicyFacts DEF Overtaken
  <2> QED BY <1>2, <2>1, <2>2, <2>3
<1>10. first_effective[p] = NeverEffective
  BY <1>1, <1>4, <1>6, <1>2 DEF PolicyInv, EffectiveKnown
<1>11. /\ first_effective'[p] = mono
       /\ \A x \in Policies \ {p} : first_effective'[x] = first_effective[x]
  BY <1>1, <1>2, <1>10
<1>12. EffectiveKnown'
  <2>1. SUFFICES ASSUME NEW x \in Policies, first_effective'[x] # NeverEffective, x # p
                 PROVE  x \in displaced' \/ x.adapter < session
    BY <1>2 DEF EffectiveKnown
  <2>2. x = policy \/ x \in displaced \/ x.adapter < session
    BY <1>11, <2>1 DEF PolicyInv, EffectiveKnown
  <2> QED BY <1>2, <2>2, PolicyFacts
<1>13. PolicyNotProlonged'
  <2>1. m + (p.expires - now) <= mono + (p.expires - p.issued)
    BY <1>1, PolicyFacts
  <2> QED BY <1>2, <1>11, <2>1 DEF PolicyNotProlonged
<1>14. first_effective'[policy'] # NeverEffective
  BY <1>1, <1>2, <1>11 DEF NeverEffective
<1>15. ReplacedPolicyStaysOut'
  BY <1>2, <1>6 DEF ReplacedPolicyStaysOut
<1> QED BY <1>7, <1>9, <1>12, <1>13, <1>14, <1>15 DEF PolicyInv

LEMMA PolicyStep == PolicyInv /\ [Next]_vars => PolicyInv'
<1> SUFFICES ASSUME PolicyInv, [Next]_vars PROVE PolicyInv'
  OBVIOUS
<1>1. Base /\ Base'
  BY BaseStep DEF PolicyInv
<1>2. utc_highwater \in Nat /\ session \in Nat
  BY <1>1 DEF Base, TypeOK
<1>3. ASSUME UNCHANGED <<session, policyVars, displaced, first_effective>>,
             utc_highwater <= utc_highwater'
      PROVE  PolicyInv'
  <2>1. utc_highwater' \in Nat
    BY <1>1 DEF Base, TypeOK
  <2> QED BY <1>1, <1>3, <2>1, ReclaimKeeps DEF policyVars
<1>4. ASSUME NEW p \in Policies, NEW w \in WallReadings, NEW m \in MonoSamples,
             UpdatePolicy(p, w, m)
      PROVE  PolicyInv'
  <2>1. Now(w) \in Nat /\ utc_highwater <= Now(w) /\ m \in Nat /\ m <= mono
    BY <1>1, NowFacts, SampleFacts
  <2>2. CASE UNCHANGED <<policyVars, displaced, first_effective>>
    BY <1>3, <1>4, <2>1, <2>2 DEF UpdatePolicy
  <2>3. CASE /\ policy_generations' = Reclaim(Now(w), m)
             /\ UNCHANGED <<policy, policy_deadline, retired_owners, displaced, first_effective>>
    BY <1>1, <1>4, <2>1, <2>3, ReclaimKeeps DEF UpdatePolicy
  <2>4. CASE /\ p.adapter = session /\ p.issued <= Now(w) /\ Now(w) < p.expires /\ ~Stale(p)
             /\ Adopt(p, Reclaim(Now(w), m), Now(w), m)
    BY <1>1, <1>4, <2>1, <2>4, AdoptKeeps DEF UpdatePolicy
  <2> QED BY <1>4, <2>2, <2>3, <2>4 DEF UpdatePolicy
<1>5. CASE Restart
  <2>1. /\ session' = session + 1 /\ policy' = NoPolicy
        /\ UNCHANGED <<displaced, first_effective>>
    BY <1>5 DEF Restart, Start, historyVars
  <2>2. NoPolicy \notin displaced /\ displaced \subseteq Policies
    BY <1>1, QueueAssumption DEF Base, TypeOK
  <2>3. \A p \in Policies : p.adapter \in Nat
    BY PolicyFacts
  <2>4. DisplacedOvertaken'
    <3>1. ASSUME NEW d \in displaced PROVE d.adapter <= session' /\ d.adapter # session'
      BY <1>2, <2>1, <2>2, <2>3 DEF PolicyInv, DisplacedOvertaken
    <3> QED BY <2>1, <3>1 DEF DisplacedOvertaken
  <2>5. EffectiveKnown'
    <3>1. SUFFICES ASSUME NEW p \in Policies, first_effective[p] # NeverEffective
                   PROVE  p \in displaced \/ p.adapter < session'
      BY <2>1 DEF EffectiveKnown
    <3>2. p = policy => p.adapter = session
      BY PolicyFacts DEF PolicyInv, GenerationRemembered
    <3> QED BY <1>2, <2>1, <2>3, <3>1, <3>2 DEF PolicyInv, EffectiveKnown
  <2> QED BY <1>1, <2>1, <2>2, <2>4, <2>5
         DEF PolicyInv, GenerationRemembered, ReplacedPolicyStaysOut, PolicyNotProlonged
<1>6. \/ UNCHANGED <<session, policyVars, displaced, first_effective>> /\ utc_highwater <= utc_highwater'
      \/ Restart
      \/ \E p \in Policies, w \in WallReadings, m \in MonoSamples : UpdatePolicy(p, w, m)
  <2> DEFINE same == /\ UNCHANGED <<session, policyVars, displaced, first_effective>>
                     /\ utc_highwater <= utc_highwater'
  <2>1. ASSUME NEW e \in Envelopes, NEW w \in WallReadings, NEW m \in MonoSamples, Submit(e, w, m)
        PROVE  same
    BY <1>1, <2>1, NowFacts DEF Submit, historyVars
  <2>2. ASSUME NEW i \in Ids, NEW w \in WallReadings, MarkDispatched(i, w) PROVE same
    <3>1. UNCHANGED <<displaced, first_effective>>
      BY <2>2 DEF MarkDispatched, historyVars
    <3> QED BY <1>1, <2>2, <3>1, NowFacts DEF MarkDispatched
  <2>3. ASSUME NEW i \in Ids, NEW st \in Recorded, NEW w \in WallReadings, RecordResult(i, st, w)
        PROVE  same
    BY <1>1, <2>3, NowFacts DEF RecordResult, historyVars
  <2>4. ASSUME \/ Pop
               \/ \E a, s \in BOOLEAN : Invalidate(a, s)
               \/ Export \/ Tick \/ UNCHANGED vars
        PROVE  same
    <3>1. Pop => same
      BY <1>2 DEF Pop, historyVars
    <3>2. \A a, s \in BOOLEAN : Invalidate(a, s) => same
      BY <1>2 DEF Invalidate, historyVars
    <3>3. Export \/ Tick \/ UNCHANGED vars => same
      BY <1>2 DEF Export, Tick, vars, historyVars
    <3> HIDE DEF same
    <3> QED BY <2>4, <3>1, <3>2, <3>3
  <2> HIDE DEF same
  <2>5. \/ same \/ Restart
        \/ \E p \in Policies, w \in WallReadings, m \in MonoSamples : UpdatePolicy(p, w, m)
    BY <2>1, <2>2, <2>3, <2>4 DEF Next
  <2> QED BY <2>5 DEF same
<1> QED BY <1>3, <1>4, <1>5, <1>6

LEMMA PolicyInit == Init => PolicyInv
<1> SUFFICES ASSUME Init PROVE PolicyInv
  OBVIOUS
<1>1. /\ policy = NoPolicy /\ displaced = {}
      /\ first_effective = [p \in Policies |-> NeverEffective]
  BY DEF Init
<1> QED BY <1>1, BaseInit
       DEF PolicyInv, GenerationRemembered, DisplacedOvertaken, ReplacedPolicyStaysOut,
           EffectiveKnown, PolicyNotProlonged

\* A snapshot that another one replaced never takes effect again, also after its
\* generation was forgotten and wherever the wall clock jumps.
THEOREM ReplacedStaysOut == Spec => []ReplacedPolicyStaysOut
<1>1. PolicyInv => ReplacedPolicyStaysOut
  BY DEF PolicyInv
<1> QED BY <1>1, PolicyInit, PolicyStep, PTL DEF Spec

\* Delivering the snapshot in force again never prolongs it.
THEOREM NotProlonged == Spec => []PolicyNotProlonged
<1>1. PolicyInv => PolicyNotProlonged
  BY DEF PolicyInv
<1> QED BY <1>1, PolicyInit, PolicyStep, PTL DEF Spec

(***************************************************************************)
(* Whatever is exported, a restart accepts.                                *)
(***************************************************************************)

\* Entry i outside the ordinary ledger is an operator STOP alone in its shade's place.
AloneInReserve(l, i) ==
  /\ ManualStop(l[i].env) /\ l[i].env.shade \in Shades
  /\ Reserve(l, l[i].env.shade) = {i}

\* The bounds a ledger keeps: the ordinary entries within their limit and, beside
\* them, one reserved operator STOP for each shade.
Bounded(l) ==
  /\ IsFiniteSet(Normal(l)) /\ Cardinality(Normal(l)) <= LedgerLimit
  /\ \A i \in Known(l) \ Normal(l) : AloneInReserve(l, i)

LedgerInv == Base /\ Bounded(ledger) /\ Bounded(saved)

\* Those bounds are the ones import_ledger checks.
LEMMA BoundedImportable ==
  ASSUME NEW l, LedgerOK(l), Bounded(l)
  PROVE  Importable(l)
<1> DEFINE stops == Known(l) \ Normal(l)
           f == [i \in stops |-> l[i].env.shade]
<1>1. f \in [stops -> Shades]
  BY DEF Bounded, AloneInReserve
<1>2. \A i \in stops : i \in Reserve(l, f[i])
  BY DEF Bounded, AloneInReserve
<1>3. ASSUME NEW i \in stops, NEW k \in stops, f[i] = f[k] PROVE i = k
  <2>1. Reserve(l, f[i]) = {i} /\ Reserve(l, f[k]) = {k}
    BY DEF Bounded, AloneInReserve
  <2> QED BY <1>3, <2>1
<1>4. IsFiniteSet(Shades) /\ Cardinality(Shades) \in Nat /\ LedgerLimit \in Nat
  BY QueueAssumption, FS_CardinalityType
<1>5. IsFiniteSet(stops) /\ Cardinality(stops) <= Cardinality(Shades)
  <2> HIDE DEF stops, f
  <2>1. f \in Injection(stops, Shades)
    BY <1>1, <1>3 DEF Injection, IsInjective
  <2> QED BY <1>4, <2>1, FS_Injection
<1>6. Known(l) = Normal(l) \cup stops /\ Normal(l) \cap stops = {}
  BY DEF Normal
<1>7. IsFiniteSet(Normal(l)) /\ Cardinality(Normal(l)) <= LedgerLimit
  BY DEF Bounded
<1>8. \A i \in stops : AloneInReserve(l, i)
  BY DEF Bounded
<1> HIDE DEF stops, f
<1>9. Cardinality(Known(l)) = Cardinality(Normal(l)) + Cardinality(stops)
  <2>1. Cardinality(Known(l)) = Cardinality(Normal(l)) + Cardinality(stops) - Cardinality({})
    BY <1>5, <1>6, <1>7, FS_Union
  <2> QED BY <1>5, <1>7, <2>1, FS_EmptySet, FS_CardinalityType
<1>10. Cardinality(Known(l)) <= LedgerLimit + Cardinality(Shades)
  <2>1. Cardinality(Normal(l)) \in Nat /\ Cardinality(stops) \in Nat
    BY <1>5, <1>7, FS_CardinalityType
  <2> QED BY <1>4, <1>5, <1>7, <1>9, <2>1
<1> QED BY <1>7, <1>8, <1>10 DEF Importable, AloneInReserve, stops

\* Two ledgers with the same entries, classes and commands keep the same bounds.
LEMMA BoundedSame ==
  ASSUME NEW l, NEW l2, Bounded(l), Known(l2) = Known(l),
         \A i \in Known(l) : l2[i].class = l[i].class /\ l2[i].env = l[i].env
  PROVE  Bounded(l2)
<1>1. Normal(l2) = Normal(l)
  BY DEF Normal
<1>2. \A s : Reserve(l2, s) = Reserve(l, s)
  BY DEF Reserve
<1> QED BY <1>1, <1>2 DEF Bounded, AloneInReserve

LEMMA FollowsBounded ==
  ASSUME NEW l, NEW l2, Bounded(l), Follows(l, l2)
  PROVE  Bounded(l2)
<1>1. Known(l2) = Known(l)
  BY DEF Follows, Kept, Known
<1>2. \A i \in Known(l) : l2[i].class = l[i].class /\ l2[i].env = l[i].env
  BY DEF Follows, Kept, Known
<1> QED BY <1>1, <1>2, BoundedSame

\* A command stored where the queue's rules admit it keeps the bounds.
LEMMA StoredBounded ==
  ASSUME NEW l, Bounded(l), NEW V, NEW e, e.id \in Ids, l[e.id] = NoEntry,
         LedgerOK(ledger'), KeptBeside(Evict(l, V), e),
         NEW class \in {"normal", "manual_stop_reserve"}, Admits(l, V, e, class),
         ledger'[e.id] # NoEntry, ledger'[e.id].env = e, ledger'[e.id].class = class
  PROVE  Bounded(ledger')
<1>1. ASSUME NEW i \in Ids \ {e.id}
      PROVE  /\ i \in Known(ledger') <=> i \in Known(l) /\ i \notin V
             /\ i \in Known(ledger') => /\ ledger'[i].env = l[i].env
                                        /\ ledger'[i].class = l[i].class
  <2>1. Kept(Evict(l, V), ledger', i)
    BY DEF KeptBeside
  <2>2. Evict(l, V)[i] = IF i \in V THEN NoEntry ELSE l[i]
    BY DEF Evict
  <2> QED BY <2>1, <2>2 DEF Kept, Known
<1>2. e.id \in Known(ledger') /\ e.id \notin Known(l) /\ Known(l) \subseteq Ids
      /\ Known(ledger') \subseteq Ids
  BY DEF Known
<1>3. IsFiniteSet(Normal(l)) /\ Cardinality(Normal(l)) <= LedgerLimit
      /\ Cardinality(Normal(l)) \in Nat /\ LedgerLimit \in Nat
  BY FS_CardinalityType, QueueAssumption DEF Bounded
<1>4. ASSUME NEW i \in Known(ledger') \ Normal(ledger'), i # e.id
      PROVE  /\ i \in Known(l) \ Normal(l) /\ i \notin V
             /\ ledger'[i].env = l[i].env /\ AloneInReserve(l, i)
             /\ Reserve(ledger', l[i].env.shade) \ {e.id} = {i}
  <2>1. /\ i \in Known(l) \ Normal(l) /\ i \notin V
        /\ ledger'[i].env = l[i].env
    BY <1>1, <1>2, <1>4 DEF Normal
  <2>2. AloneInReserve(l, i)
    BY <2>1 DEF Bounded
  <2>3. i \in Reserve(ledger', l[i].env.shade)
    <3>1. i \in Reserve(l, l[i].env.shade)
      BY <2>2 DEF AloneInReserve
    <3> QED BY <1>1, <1>2, <1>4, <2>1, <3>1 DEF Reserve
  <2>4. Reserve(ledger', l[i].env.shade) \ {e.id} \subseteq Reserve(l, l[i].env.shade)
    BY <1>1, <1>2 DEF Reserve
  <2> QED BY <1>4, <2>1, <2>2, <2>3, <2>4 DEF AloneInReserve
<1>5. CASE class = "normal"
  <2>1. Normal(ledger') \subseteq (Normal(l) \ V) \cup {e.id}
    BY <1>1, <1>2 DEF Normal
  <2>2. IsFiniteSet(Normal(l) \ V) /\ Cardinality(Normal(l) \ V) < LedgerLimit
        /\ Cardinality(Normal(l) \ V) \in Nat
    <3>1. /\ IsFiniteSet(Normal(l) \ V) /\ Cardinality(Normal(l) \ V) <= Cardinality(Normal(l))
          /\ Cardinality(Normal(l) \ V) = Cardinality(Normal(l)) => Normal(l) \ V = Normal(l)
      BY <1>3, FS_Subset
    <3>2. Cardinality(Normal(l) \ V) \in Nat
      BY <3>1, FS_CardinalityType
    <3>3. CASE ~Full(l)
      BY <1>3, <3>1, <3>2, <3>3 DEF Full
    <3>4. CASE V # {} /\ V \subseteq Normal(l)
      <4>1. Normal(l) \ V # Normal(l)
        BY <3>4
      <4> QED BY <1>3, <3>1, <3>2, <4>1
    <3> QED BY <1>5, <3>1, <3>2, <3>3, <3>4 DEF Admits
  <2>3. IsFiniteSet(Normal(ledger')) /\ Cardinality(Normal(ledger')) <= LedgerLimit
    <3>1. /\ IsFiniteSet((Normal(l) \ V) \cup {e.id})
          /\ Cardinality((Normal(l) \ V) \cup {e.id}) <= Cardinality(Normal(l) \ V) + 1
      <4> DEFINE rest == Normal(l) \ V
      <4>1. IsFiniteSet(rest) /\ Cardinality(rest) \in Nat
        BY <2>2
      <4> HIDE DEF rest
      <4>2. IsFiniteSet(rest \cup {e.id}) /\ Cardinality(rest \cup {e.id}) <= Cardinality(rest) + 1
        BY <4>1, OneMore
      <4> QED BY <4>2 DEF rest
    <3>2. /\ IsFiniteSet(Normal(ledger'))
          /\ Cardinality(Normal(ledger')) <= Cardinality((Normal(l) \ V) \cup {e.id})
          /\ Cardinality(Normal(ledger')) \in Nat
          /\ Cardinality((Normal(l) \ V) \cup {e.id}) \in Nat
      BY <2>1, <3>1, FS_Subset, FS_CardinalityType
    <3> QED BY <1>3, <2>2, <3>1, <3>2
  <2>4. e.id \in Normal(ledger') /\ \A s : e.id \notin Reserve(ledger', s)
    BY <1>2, <1>5 DEF Normal, Reserve
  <2>5. ASSUME NEW i \in Known(ledger') \ Normal(ledger') PROVE AloneInReserve(ledger', i)
    <3>1. i # e.id
      BY <2>4
    <3> QED BY <1>4, <2>4, <3>1 DEF AloneInReserve
  <2> QED BY <2>3, <2>5 DEF Bounded
<1>6. CASE class = "manual_stop_reserve"
  <2>1. ManualStop(e) /\ e.shade \in Shades /\ Reserve(l, e.shade) \ V = {}
    BY <1>6 DEF Admits
  <2>2. Normal(ledger') \subseteq Normal(l)
    BY <1>1, <1>2, <1>6 DEF Normal
  <2>3. IsFiniteSet(Normal(ledger')) /\ Cardinality(Normal(ledger')) <= LedgerLimit
    <3>1. /\ IsFiniteSet(Normal(ledger')) /\ Cardinality(Normal(ledger')) <= Cardinality(Normal(l))
          /\ Cardinality(Normal(ledger')) \in Nat
      BY <1>3, <2>2, FS_Subset, FS_CardinalityType
    <3> QED BY <1>3, <3>1
  <2>4. ASSUME NEW i \in Known(ledger') \ Normal(ledger'), i # e.id
        PROVE  AloneInReserve(ledger', i)
    <3>1. i \in Known(l) \ Normal(l) /\ i \notin V /\ ledger'[i].env = l[i].env
          /\ AloneInReserve(l, i) /\ Reserve(ledger', l[i].env.shade) \ {e.id} = {i}
      BY <1>4, <2>4
    <3>2. i \in Reserve(l, l[i].env.shade)
      BY <3>1 DEF AloneInReserve
    <3>3. l[i].env.shade # e.shade
      BY <2>1, <3>1, <3>2
    <3>4. e.id \notin Reserve(ledger', l[i].env.shade)
      BY <3>3 DEF Reserve
    <3> QED BY <3>1, <3>4 DEF AloneInReserve
  <2>5. AloneInReserve(ledger', e.id)
    <3>1. e.id \in Reserve(ledger', e.shade)
      BY <1>2, <1>6 DEF Reserve
    <3>2. ASSUME NEW i \in Reserve(ledger', e.shade), i # e.id PROVE FALSE
      <4>1. i \in Reserve(l, e.shade) /\ i \notin V
        BY <1>1, <1>2, <3>2 DEF Reserve
      <4> QED BY <2>1, <4>1
    <3> QED BY <2>1, <3>1, <3>2 DEF AloneInReserve
  <2> QED BY <2>3, <2>4, <2>5 DEF Bounded
<1> QED BY <1>5, <1>6

LEMMA ArrivalBounded ==
  ASSUME Base, Bounded(ledger), NEW e \in Envelopes, NEW now \in Nat, NEW m \in Nat,
         Arrives(e, now, m)
  PROVE  Bounded(ledger')
<1> DEFINE p == Prune(ledger, now, m)
           ok == Admissible(p, e, now, m)
<1>1. LedgerOK(p) /\ Follows(ledger, p)
  BY PruneFollows DEF Base, TypeOK
<1>2. Bounded(p)
  BY <1>1, FollowsBounded
<1>3. e.id \in Ids /\ p[e.id] = NoEntry /\ ledger[e.id] = NoEntry
  BY <1>1, EnvelopeFacts DEF Arrives, Follows, Kept, Known
<1>4. CASE TurnAway(p)
  BY <1>2, <1>4 DEF TurnAway
<1>5. ASSUME NEW V \in SUBSET Evictable(p, now, m),
             NEW class \in {"normal", "manual_stop_reserve"}, Admits(p, V, e, class),
             Store(Evict(p, V), EvictJobs(V), e, class, ok, now, m)
      PROVE  Bounded(ledger')
  <2> HIDE DEF ok
  <2>1. V \subseteq Evictable(p, now, m)
    OBVIOUS
  <2>2. Sound /\ Stored(e, ok) /\ ledger'[e.id].class = class /\ KeptBeside(Evict(p, V), e)
    BY <1>3, <1>5, <2>1, EvictedStore
  <2> HIDE DEF p
  <2> QED BY <1>2, <1>3, <1>5, <2>2, StoredBounded DEF Sound, Stored
<1>6. \/ TurnAway(p)
      \/ \E V \in SUBSET Evictable(p, now, m), class \in {"normal", "manual_stop_reserve"} :
           /\ Admits(p, V, e, class)
           /\ Store(Evict(p, V), EvictJobs(V), e, class, ok, now, m)
  <2> HIDE DEF ok
  <2> QED BY SubmitNewCases DEF ok, Arrives
<1> HIDE DEF p, ok
<1> QED BY <1>4, <1>5, <1>6

LEMMA RestoredBounded ==
  ASSUME NEW l, LedgerOK(l), Bounded(l)
  PROVE  Bounded(Restored(l))
<1>1. ASSUME NEW i \in Ids
      PROVE  /\ i \in Known(Restored(l)) <=> i \in Known(l)
             /\ i \in Known(l) => /\ Restored(l)[i].class = l[i].class
                                  /\ Restored(l)[i].env = l[i].env
  <2>1. CASE l[i] = NoEntry
    BY <2>1 DEF Restored, Known
  <2>2. CASE l[i] # NoEntry
    <3> DEFINE st == IF l[i].status \in Waiting THEN "expired"
                     ELSE IF l[i].status \in InFlight THEN "uncertain"
                     ELSE l[i].status
    <3>1. l[i] \in Entry
      BY <2>2 DEF LedgerOK
    <3>2. Restored(l)[i] = [l[i] EXCEPT !.deadline = NoDeadline, !.status = st]
      BY <2>2 DEF Restored
    <3>3. st \in Outcomes
      BY <3>1 DEF Entry, Outcomes, Final, InFlight
    <3> HIDE DEF st
    <3>4. Restored(l)[i].class = l[i].class /\ Restored(l)[i].env = l[i].env
          /\ Restored(l)[i].deadline = NoDeadline
      BY <3>1, <3>2 DEF Entry
    <3>5. Restored(l)[i] # NoEntry
      <4>1. Restored(l)[i].status \in Outcomes
        BY <3>1, <3>2, <3>3 DEF Entry
      <4> QED BY <4>1 DEF NoEntry, Outcomes, Waiting, InFlight, Final
    <3> QED BY <2>2, <3>4, <3>5 DEF Known
  <2> QED BY <2>1, <2>2
<1>2. Known(Restored(l)) = Known(l)
  BY <1>1 DEF Known
<1> QED BY <1>1, <1>2, BoundedSame DEF Known

LEMMA EmptyBounded == Bounded(EmptyLedger)
<1>1. Known(EmptyLedger) = {} /\ Normal(EmptyLedger) = {}
  BY EmptyLedgerOK DEF Known, Normal
<1> QED BY <1>1, FS_EmptySet, QueueAssumption DEF Bounded

LEMMA LedgerStep == LedgerInv /\ [Next]_vars => LedgerInv'
<1> SUFFICES ASSUME LedgerInv, [Next]_vars PROVE Bounded(ledger') /\ Bounded(saved')
  BY BaseStep DEF LedgerInv
<1>1. Base /\ Base'
  BY BaseStep DEF LedgerInv
<1>2. Quiet => Bounded(ledger')
  <2>1. SUFFICES ASSUME Quiet PROVE Bounded(ledger')
    OBVIOUS
  <2>2. Known(ledger') = Known(ledger)
    BY <2>1 DEF Quiet, Carried, Known
  <2>3. \A i \in Known(ledger) : ledger'[i].class = ledger[i].class /\ ledger'[i].env = ledger[i].env
    BY <2>1 DEF Quiet, Carried, Known
  <2> QED BY <2>2, <2>3, BoundedSame DEF LedgerInv
<1>3. Restart => Bounded(ledger')
  BY EmptyBounded, RestoredBounded DEF LedgerInv, Base, TypeOK, Restart, Start
<1>4. Bounded(ledger')
  BY <1>1, <1>2, <1>3, StepKinds, ArrivalBounded DEF LedgerInv
<1>5. saved' = saved \/ saved' = ledger
  BY DEF Next, Submit, Pop, MarkDispatched, RecordResult, Invalidate, UpdatePolicy,
         Export, Restart, Start, Tick, vars
<1> QED BY <1>4, <1>5 DEF LedgerInv

\* Whatever is exported, at any moment, a restart accepts: no legal history fills the
\* ledger beyond what import_ledger takes back.
THEOREM ExportImports == Spec => []ExportImportable
<1>1. Init => LedgerInv
  BY BaseInit, EmptyBounded DEF Init, LedgerInv
<1>2. LedgerInv => ExportImportable
  BY BoundedImportable DEF LedgerInv, Base, TypeOK, ExportImportable
<1> QED BY <1>1, <1>2, LedgerStep, PTL DEF Spec

(***************************************************************************)
(* A queued operator STOP stays.                                           *)
(***************************************************************************)

\* What may become of the queued operator STOP i.
MayBecome(i) ==
  \/ ledger'[i].status \in Waiting
  \/ /\ ledger'[i].status \in {"expired", "absent"}
     /\ ledger[i].env.expires <= utc_highwater' \/ mono >= ledger[i].deadline
  \/ /\ ledger'[i].status = "superseded"
     /\ \E k \in Known(ledger') \ Known(ledger) :
          /\ ledger'[k].env.command = "STOP"
          /\ ledger'[k].env.shade = ledger[i].env.shade
  \/ ledger'[i].status = "rejected" /\ connection_generation' # connection_generation

QueuedStop(i) == ledger[i].status = "queued" /\ ManualStop(ledger[i].env)

\* Storing a command leaves another entry alone or coalesces it.
LEMMA StoredBeside ==
  ASSUME NEW l, LedgerOK(l), NEW j, NEW e, e.id \in Ids, NEW class, NEW ok, NEW now, NEW m,
         Store(l, j, e, class, ok, now, m), NEW i \in Ids \ {e.id}
  PROVE  \/ ledger'[i] = l[i]
         \/ i \in Coalesced(l, j, e) /\ ledger'[i].status = "superseded"
<1> DEFINE welcome == ok /\ (e.command # "STOP" => ~StopOn(l, j, e.shade))
           S == IF welcome THEN Coalesced(l, j, e) ELSE {}
           c == Settle(l, S, "superseded")
<1>1. c \in [Ids -> Entry \cup {NoEntry}]
  <2>1. S \subseteq Known(l) /\ "superseded" \in Outcomes
    BY EntryFacts DEF Coalesced, Outcomes, Final
  <2> QED BY <2>1, SettleOK DEF LedgerOK
<1>2. ledger'[i] = c[i]
  BY <1>1 DEF Store
<1>3. CASE i \in S
  <2>1. l[i] \in Entry
    BY <1>3, EntryFacts DEF Coalesced
  <2>2. c[i] = [l[i] EXCEPT !.status = "superseded"]
    BY <1>3 DEF Settle
  <2>3. c[i].status = "superseded"
    BY <2>1, <2>2 DEF Entry
  <2> QED BY <1>2, <1>3, <2>3
<1>4. CASE i \notin S
  <2>1. c[i] = l[i]
    BY <1>4 DEF Settle
  <2> QED BY <1>2, <2>1
<1> QED BY <1>3, <1>4

LEMMA ArrivalStop ==
  ASSUME Base, NEW e \in Envelopes, NEW now \in Nat, NEW m \in Nat, m <= mono,
         Arrives(e, now, m), NEW i \in Ids, QueuedStop(i)
  PROVE  MayBecome(i)
<1> DEFINE p == Prune(ledger, now, m)
           ok == Admissible(p, e, now, m)
           over == ledger[i].env.expires <= utc_highwater' \/ mono >= ledger[i].deadline
<1>1. LedgerOK(ledger) /\ i \in Known(ledger) /\ ledger[i] \in Entry /\ mono \in Nat
  BY EntryFacts DEF QueuedStop, Base, TypeOK, Waiting
<1>2. LedgerOK(p) /\ e.id \in Ids /\ i # e.id /\ ledger[e.id] = NoEntry
  BY <1>1, PruneFollows, EnvelopeFacts DEF Arrives, Known
<1>3. \/ p[i] = ledger[i]
      \/ p[i].status = "expired" /\ over
  <2>1. Lapsed(ledger, now, m) \subseteq Known(ledger) /\ "expired" \in Outcomes
    BY <1>1, EntryFacts DEF Lapsed, Outcomes, Final
  <2>2. CASE i \in Lapsed(ledger, now, m)
    <3>1. p[i].status = "expired"
      BY <1>1, <2>1, <2>2, SettleIn DEF Prune
    <3>2. \/ ledger[i].env.expires <= now
          \/ ledger[i].deadline # NoDeadline /\ m >= ledger[i].deadline
      BY <2>2 DEF Lapsed
    <3>3. ledger[i].deadline # NoDeadline => ledger[i].deadline \in Nat
      BY <1>1 DEF Entry
    <3>4. over
      BY <1>1, <3>2, <3>3 DEF Arrives
    <3> QED BY <3>1, <3>4
  <2>3. CASE i \notin Lapsed(ledger, now, m)
    BY <2>3, SettleOut DEF Prune
  <2> QED BY <2>2, <2>3
<1>4. CASE TurnAway(p)
  BY <1>3, <1>4 DEF TurnAway, MayBecome, QueuedStop, Waiting
<1>5. ASSUME NEW V \in SUBSET Evictable(p, now, m),
             NEW class \in {"normal", "manual_stop_reserve"},
             Store(Evict(p, V), EvictJobs(V), e, class, ok, now, m)
      PROVE  MayBecome(i)
  <2> DEFINE l == Evict(p, V)
  <2>1. LedgerOK(l) /\ l[i] = IF i \in V THEN NoEntry ELSE p[i]
    <3>1. JobsOK(jobs, p)
      BY PruneFollows, JobsFollow DEF Base, TypeOK
    <3> QED BY <1>2, <3>1, EvictFacts
  <2>2. \/ ledger'[i] = l[i]
        \/ i \in Coalesced(l, EvictJobs(V), e) /\ ledger'[i].status = "superseded"
    <3> HIDE DEF l, ok
    <3>1. Store(l, EvictJobs(V), e, class, ok, now, m)
      BY <1>5 DEF l
    <3> QED BY <1>2, <2>1, <3>1, StoredBeside
  <2>3. i \in V => p[i].status \notin Waiting
    BY DEF Evictable
  <2>4. e.id \in Known(ledger') \ Known(ledger) /\ ledger'[e.id].env = e
    <3> HIDE DEF ok
    <3>1. Stored(e, ok)
      BY <1>2, <1>5, EvictedStore
    <3> QED BY <1>2, <3>1 DEF Stored, Known
  <2> HIDE DEF l, p, over
  <2>5. CASE i \in V
    <3>1. over /\ l[i].status = "absent"
      BY <1>3, <2>1, <2>3, <2>5 DEF QueuedStop, Waiting, NoEntry
    <3>2. ledger'[i].status = "absent"
      BY <2>2, <3>1 DEF Coalesced, Waiting
    <3> QED BY <3>1, <3>2 DEF MayBecome, over
  <2>6. CASE i \notin V /\ p[i].status = "expired" /\ over
    <3>1. ledger'[i].status = "expired"
      BY <2>1, <2>2, <2>6 DEF Coalesced, Waiting
    <3> QED BY <2>6, <3>1 DEF MayBecome, over
  <2>7. CASE i \notin V /\ p[i] = ledger[i]
    <3>1. l[i] = ledger[i]
      BY <2>1, <2>7
    <3>2. CASE ledger'[i] = l[i]
      BY <3>1, <3>2 DEF MayBecome, QueuedStop, Waiting
    <3>3. CASE i \in Coalesced(l, EvictJobs(V), e) /\ ledger'[i].status = "superseded"
      <4>1. e.command = "STOP" /\ e.shade = ledger[i].env.shade
        BY <3>1, <3>3 DEF Coalesced, QueuedStop, ManualStop
      <4> QED BY <2>4, <3>3, <4>1 DEF MayBecome
    <3> QED BY <2>2, <3>2, <3>3
  <2> QED BY <1>3, <2>5, <2>6, <2>7
<1>6. \/ TurnAway(p)
      \/ \E V \in SUBSET Evictable(p, now, m), class \in {"normal", "manual_stop_reserve"} :
           Store(Evict(p, V), EvictJobs(V), e, class, ok, now, m)
  <2> HIDE DEF ok
  <2> QED BY SubmitNewCases DEF ok, Arrives
<1> HIDE DEF p, ok
<1> QED BY <1>4, <1>5, <1>6

LEMMA ManualStopStep ==
  ASSUME Base, [Next]_vars, session' = session, NEW i \in Ids, QueuedStop(i)
  PROVE  MayBecome(i)
<1>1. ledger'[i] = ledger[i] => MayBecome(i)
  BY DEF MayBecome, QueuedStop, Waiting
<1>2. LedgerOK(ledger) /\ i \in Known(ledger) /\ ledger[i] \in Entry
  BY EntryFacts DEF QueuedStop, Base, TypeOK, Waiting
<1>3. ASSUME NEW e \in Envelopes, NEW w \in WallReadings, NEW m \in MonoSamples, Submit(e, w, m)
      PROVE  MayBecome(i)
  <2>1. CASE UNCHANGED queueVars
    BY <1>1, <2>1 DEF queueVars
  <2>2. CASE ledger[e.id] = NoEntry /\ SubmitNew(e, Now(w), m)
    <3>1. Arrives(e, Now(w), m) /\ Now(w) \in Nat /\ m \in Nat /\ m <= mono
      BY <1>3, <2>2, NowFacts, SampleFacts DEF Submit, Arrives
    <3> QED BY <3>1, ArrivalStop
  <2> QED BY <1>3, <2>1, <2>2 DEF Submit
<1>4. CASE Pop
  <2>1. PICK k \in pending : ledger' = Settle(ledger, {k}, "selected")
    BY <1>4 DEF Pop
  <2>2. CASE k = i
    <3>1. ledger'[i] = [ledger[i] EXCEPT !.status = "selected"]
      BY <2>1, <2>2 DEF Settle
    <3>2. ledger'[i].status = "selected"
      BY <1>2, <3>1 DEF Entry
    <3> QED BY <3>2 DEF MayBecome, Waiting
  <2>3. CASE k # i
    BY <1>1, <2>1, <2>3, SettleOut
  <2> QED BY <2>2, <2>3
<1>5. ASSUME NEW k \in Ids, NEW w \in WallReadings, MarkDispatched(k, w) PROVE MayBecome(i)
  <2>1. k # i
    BY <1>5 DEF MarkDispatched, Popped, QueuedStop
  <2>2. ledger' = ledger \/ \E st : ledger' = Settle(ledger, {k}, st)
    BY <1>5 DEF MarkDispatched
  <2> QED BY <1>1, <2>1, <2>2, SettleOut
<1>6. ASSUME NEW k \in Ids, NEW st \in Recorded, NEW w \in WallReadings, RecordResult(k, st, w)
      PROVE  MayBecome(i)
  <2>1. k # i
    BY <1>6 DEF RecordResult, Popped, QueuedStop
  <2>2. ledger' = ledger \/ ledger' = Settle(ledger, {k}, st)
    BY <1>6 DEF RecordResult
  <2> QED BY <1>1, <2>1, <2>2, SettleOut
<1>7. ASSUME NEW a \in BOOLEAN, NEW s \in BOOLEAN, Invalidate(a, s) PROVE MayBecome(i)
  <2> DEFINE S == Affected(a, s)
  <2>1. ledger' = Withdraw(ledger, S, "rejected")
    BY <1>7 DEF Invalidate
  <2>2. CASE i \notin S
    BY <1>1, <2>1, <2>2 DEF Withdraw
  <2>3. CASE i \in S
    <3>1. ~a /\ ~s
      BY <2>3 DEF Affected, QueuedStop, ManualStop
    <3>2. connection_generation' = connection_generation + 1 /\ connection_generation \in Nat
      BY <1>7, <3>1 DEF Invalidate, Base, TypeOK
    <3> HIDE DEF S
    <3>3. ledger'[i] = [ledger[i] EXCEPT !.status = "rejected"]
      BY <2>1, <2>3 DEF Withdraw, QueuedStop, Waiting, InFlight
    <3>4. ledger'[i].status = "rejected"
      BY <1>2, <3>3 DEF Entry
    <3> QED BY <3>2, <3>4 DEF MayBecome
  <2> QED BY <2>2, <2>3
<1>8. ASSUME NEW p \in Policies, NEW w \in WallReadings, NEW m \in MonoSamples,
             UpdatePolicy(p, w, m)
      PROVE  MayBecome(i)
  <2>1. ASSUME NEW g, Adopt(p, g, Now(w), m) PROVE ledger'[i] = ledger[i]
    <3> DEFINE automatic == {k \in Ids : jobs[k] # NoJob /\ ledger[k].env.origin = "automatic"}
               S == IF Replaces(p) THEN automatic ELSE {}
    <3>1. i \notin S /\ ledger' = Withdraw(ledger, S, "superseded")
      BY <2>1 DEF Adopt, QueuedStop, ManualStop
    <3> HIDE DEF S
    <3> QED BY <3>1 DEF Withdraw
  <2> QED BY <1>1, <1>8, <2>1 DEF UpdatePolicy
<1>9. CASE Export \/ Tick \/ UNCHANGED vars
  BY <1>1, <1>9 DEF Export, Tick, vars, queueVars
<1>10. ~Restart
  BY RestartFacts
<1> QED BY <1>3, <1>4, <1>5, <1>6, <1>7, <1>8, <1>9, <1>10 DEF Next

\* Within a process a queued operator STOP stays until it is popped, its time is over, a
\* newer STOP of its shade is taken into the ledger, or the connection is replaced.
THEOREM StopsKept == Spec => ManualStopKept
<1> DEFINE Keeps == session' = session => \A i \in Ids : QueuedStop(i) => MayBecome(i)
<1>1. Base /\ [Next]_vars => [Keeps]_vars
  BY ManualStopStep
<1> HIDE DEF Keeps
<1>2. Spec => [][Keeps]_vars
  BY <1>1, BaseInit, BaseStep, PTL DEF Spec
<1> QED BY <1>2 DEF ManualStopKept, Keeps, QueuedStop, MayBecome

(***************************************************************************)
(* An automatic STOP ends its owner's own movement only.                   *)
(***************************************************************************)

\* No two signed commands carry one identity.
OneCommandPerId == \A a, b \in Envelopes : a.id = b.id => a = b

\* The request last dispatched on a shade is that of the command last dispatched there.
LastKnown ==
  \A s \in Shades :
    latest_dispatched[s] # NoId =>
      /\ last_on[s] \in Envelopes /\ last_on[s].id = latest_dispatched[s]
      /\ dispatches[last_on[s]] # 0

OwnInv == OnceInv /\ LastKnown

\* The command that a dispatch sends: it waited, and was admissible.
LEMMA DispatchFacts ==
  ASSUME Base, NEW i \in Ids, NEW w \in WallReadings, MarkDispatched(i, w)
  PROVE  \/ UNCHANGED <<latest_dispatched, historyVars>>
         \/ \E e \in Envelopes :
              /\ e = ledger[i].env /\ e.id = i /\ Holds(e) /\ ledger[i].status \in Waiting
              /\ e.shade \in Shades /\ Admissible(ledger, e, Now(w), mono)
              /\ latest_dispatched' = [latest_dispatched EXCEPT ![e.shade] = i]
              /\ dispatches' = [dispatches EXCEPT ![e] = @ + 1]
              /\ last_on' = [last_on EXCEPT ![e.shade] = e]
<1>1. i \in Known(ledger) /\ ledger[i].env \in Envelopes /\ ledger[i].env.id = i
  BY MarkDispatchedFacts, EntryFacts DEF Base, TypeOK
<1>2. Verdict(i, Now(w), mono) = "selected" => Admissible(ledger, ledger[i].env, Now(w), mono)
  BY DEF Verdict
<1>3. Admissible(ledger, ledger[i].env, Now(w), mono) => ledger[i].env.shade \in Shades
  BY DEF Admissible
<1> QED BY <1>1, <1>2, <1>3 DEF MarkDispatched, Holds

LEMMA OwnStep == OwnInv /\ [Next]_vars => OwnInv'
<1> SUFFICES ASSUME OwnInv, [Next]_vars PROVE LastKnown'
  BY OnceStep DEF OwnInv
<1>1. Base /\ dispatches \in [Envelopes -> Nat] /\ latest_dispatched \in [Shades -> Ids \cup {NoId}]
      /\ last_on \in [Shades -> Envelopes \cup {NoneOn}]
  BY DEF OwnInv, OnceInv, Base, TypeOK
<1>2. CASE UNCHANGED <<latest_dispatched, historyVars>>
  BY <1>2 DEF OwnInv, LastKnown, historyVars
<1>3. CASE Restart
  <2>1. latest_dispatched' = [s \in Shades |-> NoId]
    BY <1>3 DEF Restart, Start
  <2> QED BY <2>1 DEF LastKnown
<1>4. ASSUME NEW i \in Ids, NEW w \in WallReadings, MarkDispatched(i, w) PROVE LastKnown'
  <2>1. CASE \E e \in Envelopes :
              /\ e.id = i /\ e.shade \in Shades
              /\ latest_dispatched' = [latest_dispatched EXCEPT ![e.shade] = i]
              /\ dispatches' = [dispatches EXCEPT ![e] = @ + 1]
              /\ last_on' = [last_on EXCEPT ![e.shade] = e]
    <3>1. PICK e \in Envelopes :
              /\ e.id = i /\ e.shade \in Shades
              /\ latest_dispatched' = [latest_dispatched EXCEPT ![e.shade] = i]
              /\ dispatches' = [dispatches EXCEPT ![e] = @ + 1]
              /\ last_on' = [last_on EXCEPT ![e.shade] = e]
      BY <2>1
    <3>2. dispatches'[e] # 0 /\ \A x \in Envelopes : dispatches[x] # 0 => dispatches'[x] # 0
      BY <1>1, <3>1
    <3>3. ASSUME NEW s \in Shades, latest_dispatched'[s] # NoId
          PROVE  /\ last_on'[s] \in Envelopes /\ last_on'[s].id = latest_dispatched'[s]
                 /\ dispatches'[last_on'[s]] # 0
      <4>1. CASE s = e.shade
        BY <1>1, <3>1, <3>2, <4>1
      <4>2. CASE s # e.shade
        <5>1. last_on'[s] = last_on[s] /\ latest_dispatched'[s] = latest_dispatched[s]
          BY <1>1, <3>1, <4>2
        <5> QED BY <3>2, <3>3, <5>1 DEF OwnInv, LastKnown
      <4> QED BY <4>1, <4>2
    <3> QED BY <3>3 DEF LastKnown
  <2> QED BY <1>1, <1>2, <1>4, <2>1, DispatchFacts
<1>5. \/ UNCHANGED <<latest_dispatched, last_on, dispatches>> \/ Restart
      \/ \E i \in Ids, w \in WallReadings : MarkDispatched(i, w)
  <2>1. CASE \E i \in Ids, w \in WallReadings : MarkDispatched(i, w)
    BY <2>1
  <2>2. CASE Restart
    BY <2>2
  <2>3. ASSUME NEW e \in Envelopes, NEW w \in WallReadings, NEW m \in MonoSamples, Submit(e, w, m)
        PROVE  UNCHANGED <<latest_dispatched, last_on, dispatches>>
    BY <2>3 DEF Submit, historyVars
  <2>4. ASSUME NEW p \in Policies, NEW w \in WallReadings, NEW m \in MonoSamples, UpdatePolicy(p, w, m)
        PROVE  UNCHANGED <<latest_dispatched, last_on, dispatches>>
    BY <2>4 DEF UpdatePolicy, historyVars
  <2>5. ASSUME NEW i \in Ids, NEW st \in Recorded, NEW w \in WallReadings, RecordResult(i, st, w)
        PROVE  UNCHANGED <<latest_dispatched, last_on, dispatches>>
    BY <2>5 DEF RecordResult, historyVars
  <2>6. ASSUME NEW a \in BOOLEAN, NEW b \in BOOLEAN, Invalidate(a, b)
        PROVE  UNCHANGED <<latest_dispatched, last_on, dispatches>>
    BY <2>6 DEF Invalidate, historyVars
  <2>7. CASE Pop
    BY <2>7 DEF Pop, historyVars
  <2>8. CASE Export \/ Tick \/ UNCHANGED vars
    BY <2>8 DEF Export, Tick, vars, historyVars
  <2> QED BY <2>1, <2>2, <2>3, <2>4, <2>5, <2>6, <2>7, <2>8 DEF Next
<1>6. CASE UNCHANGED <<latest_dispatched, last_on, dispatches>>
  BY <1>6 DEF OwnInv, LastKnown
<1> QED BY <1>3, <1>4, <1>5, <1>6

\* A dispatched automatic STOP finds its owner's movement last on its shade.
LEMMA OwnsLast ==
  ASSUME OneCommandPerId, OwnInv, [Next]_vars, NEW e \in Envelopes,
         dispatches'[e] # dispatches[e], e.origin = "automatic", e.command = "STOP"
  PROVE  /\ last_on[e.shade].id = e.owned /\ last_on[e.shade].origin = "automatic"
         /\ last_on[e.shade].owner = e.owner
<1>1. Base /\ dispatches \in [Envelopes -> Nat] /\ latest_dispatched \in [Shades -> Ids \cup {NoId}]
      /\ connection_generation \in Nat /\ session \in Nat
  BY DEF OwnInv, OnceInv, Base, TypeOK
<1>2. PICK i \in Ids, w \in WallReadings : MarkDispatched(i, w)
  BY DEF Next, Submit, Pop, RecordResult, Invalidate, UpdatePolicy, Export, Restart, Start, Tick,
         vars, historyVars
<1>3. /\ e = ledger[i].env /\ e.id = i /\ Holds(e) /\ ledger[i].status \in Waiting
      /\ e.shade \in Shades /\ Admissible(ledger, e, Now(w), mono)
  BY <1>1, <1>2, DispatchFacts DEF historyVars
<1>4. OwnsMovement(ledger, e) /\ e.adapter = session
  BY <1>3 DEF Admissible
<1>5. /\ latest_dispatched[e.shade] \in {e.owned, e.id} /\ e.owned \in Ids
      /\ jobs[e.owned] # NoJob
      /\ ledger[e.owned].env.origin = "automatic" /\ ledger[e.owned].env.owner = e.owner
  BY <1>1, <1>4 DEF OwnsMovement, NoJob
<1>6. /\ last_on[e.shade] \in Envelopes
      /\ last_on[e.shade].id = latest_dispatched[e.shade]
      /\ dispatches[last_on[e.shade]] # 0
  BY <1>3, <1>5, QueueAssumption DEF OwnInv, LastKnown
<1>7. latest_dispatched[e.shade] # e.id
  <2>1. SUFFICES ASSUME latest_dispatched[e.shade] = e.id PROVE FALSE
    OBVIOUS
  <2>2. dispatches[e] # 0
    BY <1>6, <2>1 DEF OneCommandPerId
  <2>3. dispatches[e] = 1
    <3>1. dispatches[e] <= 1 /\ dispatches[e] \in Nat
      BY <1>1 DEF OwnInv, OnceInv, DispatchedIsSpent
    <3> QED BY <2>2, <3>1
  <2>4. Spent(e)
    BY <2>3 DEF OwnInv, OnceInv, DispatchedIsSpent
  <2> QED BY <1>1, <1>3, <1>4, <2>4 DEF Spent
<1>8. ledger[e.owned].env \in Envelopes /\ ledger[e.owned].env.id = e.owned
  BY <1>1, <1>5, EntryFacts DEF Base, TypeOK, JobsOK
<1>9. last_on[e.shade] = ledger[e.owned].env
  BY <1>5, <1>6, <1>7, <1>8 DEF OneCommandPerId
<1> QED BY <1>5, <1>8, <1>9

\* If no two signed commands carry one identity, an automatic STOP goes out only while
\* the last command dispatched on its shade is its own owner's automatic movement.
THEOREM StopsOwnMovement == OneCommandPerId => (Spec => AutomaticStopOwnsMovement)
<1> DEFINE Owns ==
      \A e \in Envelopes :
        /\ dispatches'[e] # dispatches[e]
        /\ e.origin = "automatic" /\ e.command = "STOP"
        => LET moved == last_on[e.shade] IN
           /\ moved.id = e.owned /\ moved.origin = "automatic" /\ moved.owner = e.owner
<1> SUFFICES ASSUME OneCommandPerId PROVE Spec => AutomaticStopOwnsMovement
  OBVIOUS
<1>1. OwnInv /\ [Next]_vars => [Owns]_vars
  BY OwnsLast
<1>2. Init => OwnInv
  BY OnceInit DEF Init, OwnInv, LastKnown
<1> HIDE DEF Owns
<1>3. Spec => [][Owns]_vars
  BY <1>1, <1>2, OwnStep, PTL DEF Spec
<1> QED BY <1>3 DEF AutomaticStopOwnsMovement, Owns
=============================================================================
