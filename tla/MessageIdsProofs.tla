--------------------------- MODULE MessageIdsProofs ---------------------------
(***************************************************************************)
(* Identities strictly increase for any number of processes, any calendar, *)
(* any clock, and any sequence of failures, crashes and power losses.      *)
(*                                                                         *)
(* The inductive invariant follows one identity through next(): only the   *)
(* lock's holder is between its steps, the identity it drew is above all   *)
(* that were returned, and each completed step puts it in one more place   *)
(* (the file, the disk, the directory) before the last one returns it.     *)
(***************************************************************************)
EXTENDS MessageIds, TLAPS

DrawnSteps == {"advanced", "written", "synced", "durable"}
WrittenSteps == {"written", "synced", "durable"}
SyncedSteps == {"synced", "durable"}

Covers(f) == f = Damaged \/ \A n \in issued : f >= n

Alone == \A p \in Procs : pc[p] # "idle" => holder = p
Kept == /\ Covers(file) /\ Covers(disk)
        /\ issued # {} => named
Fresh == \A p \in Procs : pc[p] \in DrawnSteps =>
           value[p] \in Stamps /\ \A n \in issued : value[p] > n
Placed == \A p \in Procs :
            /\ pc[p] \in WrittenSteps => file = value[p]
            /\ pc[p] \in SyncedSteps => disk = value[p]
            /\ pc[p] = "durable" => named

IdsInv == TypeOK /\ Alone /\ Kept /\ Fresh /\ Placed

\* Nothing is in progress and nothing was returned at the start.
LEMMA IdsInit == Init => IdsInv
  BY MessageIdsAssumption DEF Init, IdsInv, TypeOK, Alone, Kept, Fresh, Placed, Covers,
       Record, Steps, Empty, DrawnSteps, WrittenSteps, SyncedSteps, Stamps

\* The identity drawn is above the floor the process knows, and so above all returned.
LEMMA AdvancedAbove ==
  ASSUME NEW now \in Nat, NEW a \in Nat, NEW b \in Nat
  PROVE /\ Advanced(now, Later(a, b)) \in Nat
        /\ Advanced(now, Later(a, b)) > a
        /\ Advanced(now, Later(a, b)) > b
  BY DEF Advanced, Later

\* Taking the lock, when nobody holds it, and the steps that only move the holder on.
LEMMA OpenKeeps ==
  ASSUME IdsInv, NEW p \in Procs, Open(p)
  PROVE IdsInv'
<1>1. \A q \in Procs : pc[q] = "idle"
  BY MessageIdsAssumption DEF IdsInv, TypeOK, Alone, Open
<1>2. /\ \A q \in Procs : pc'[q] # "idle" => q = p
      /\ \A q \in Procs : pc'[q] \notin DrawnSteps
  BY <1>1 DEF IdsInv, TypeOK, Open, DrawnSteps
<1> QED
  BY <1>2 DEF IdsInv, TypeOK, Alone, Kept, Fresh, Placed, Covers, Open, Steps, DrawnSteps, WrittenSteps, SyncedSteps

LEMMA AdvanceKeeps ==
  ASSUME IdsInv, NEW p \in Procs, NEW now \in Readings, Advance(p, now)
  PROVE IdsInv'
<1> DEFINE v == Advanced(now, Later(last[p], file))
<1>1. file \in Nat /\ last[p] \in Nat /\ now \in Nat /\ MaxStamp \in Nat
  BY MessageIdsAssumption DEF IdsInv, TypeOK, Advance, Record, Stamps, Empty
<1>2. v \in Nat /\ v > last[p] /\ v > file
  BY <1>1, AdvancedAbove
<1>3. last' = [last EXCEPT ![p] = v] /\ value' = [value EXCEPT ![p] = v] /\ v <= MaxStamp
  BY DEF Advance, InCalendar
<1> HIDE DEF v
<1>4. v \in Stamps
  BY <1>1, <1>2, <1>3 DEF Stamps
<1>5. \A n \in issued : v > n
  <2> TAKE n \in issued
  <2>1. file >= n
    BY <1>1, MessageIdsAssumption DEF IdsInv, Kept, Covers
  <2>2. n \in Nat
    BY <1>1 DEF IdsInv, TypeOK, Stamps
  <2> QED BY <1>1, <1>2, <2>1, <2>2
<1>6. \A q \in Procs : q # p => pc[q] = "idle" /\ pc'[q] = "idle"
  BY DEF IdsInv, Alone, TypeOK, Advance
<1>7. pc'[p] = "advanced" /\ value'[p] = v
  BY <1>3 DEF IdsInv, TypeOK, Advance
<1>8. TypeOK'
  BY <1>3, <1>4 DEF IdsInv, TypeOK, Advance, Steps
<1>9. Alone' /\ Kept' /\ Fresh' /\ Placed'
  BY <1>4, <1>5, <1>6, <1>7 DEF IdsInv, Alone, Kept, Fresh, Placed, Covers, Advance, DrawnSteps, WrittenSteps, SyncedSteps
<1> QED BY <1>8, <1>9 DEF IdsInv

\* Writing, syncing and naming put the drawn identity in one more place.
LEMMA PlaceKeeps ==
  ASSUME IdsInv, NEW p \in Procs, Write(p) \/ Sync(p) \/ SyncDirectory(p)
  PROVE IdsInv'
<1>1. \A q \in Procs : q # p => pc[q] = "idle" /\ pc'[q] = "idle"
  BY DEF IdsInv, Alone, TypeOK, Write, Sync, SyncDirectory
<1>2. holder = p /\ value[p] \in Record /\ \A n \in issued : value[p] > n
  BY DEF IdsInv, Alone, TypeOK, Fresh, Write, Sync, SyncDirectory, DrawnSteps, Record
<1>3. CASE Write(p)
  <2>1. pc'[p] = "written"
    BY <1>3 DEF IdsInv, TypeOK, Write
  <2>2. TypeOK'
    BY <1>2, <1>3 DEF IdsInv, TypeOK, Write, Steps
  <2>3. Covers(value[p])
    <3> SUFFICES ASSUME NEW n \in issued PROVE value[p] >= n
      BY DEF Covers
    <3>1. n \in Nat /\ value[p] \in Nat
      BY MessageIdsAssumption DEF IdsInv, TypeOK, Stamps, Empty
    <3> QED BY <1>2, <3>1
  <2> QED
    BY <1>1, <1>2, <1>3, <2>1, <2>2, <2>3
    DEF IdsInv, Alone, Kept, Fresh, Placed, Covers, Write, DrawnSteps, WrittenSteps, SyncedSteps
<1>4. CASE Sync(p)
  <2>1. pc'[p] = "synced"
    BY <1>4 DEF IdsInv, TypeOK, Sync
  <2>2. TypeOK'
    BY <1>4 DEF IdsInv, TypeOK, Sync, Steps
  <2>3. file = value[p]
    BY <1>4 DEF IdsInv, Placed, Sync, WrittenSteps
  <2> QED
    BY <1>1, <1>2, <1>4, <2>1, <2>2, <2>3
    DEF IdsInv, Alone, Kept, Fresh, Placed, Covers, Sync, DrawnSteps, WrittenSteps, SyncedSteps
<1>5. CASE SyncDirectory(p)
  <2>1. pc'[p] = "durable"
    BY <1>5 DEF IdsInv, TypeOK, SyncDirectory
  <2>2. TypeOK'
    BY <1>5 DEF IdsInv, TypeOK, SyncDirectory, Steps
  <2>3. file = value[p] /\ disk = value[p]
    BY <1>5 DEF IdsInv, Placed, SyncDirectory, WrittenSteps, SyncedSteps
  <2> QED
    BY <1>1, <1>2, <1>5, <2>1, <2>2, <2>3
    DEF IdsInv, Alone, Kept, Fresh, Placed, Covers, SyncDirectory, DrawnSteps, WrittenSteps, SyncedSteps
<1> QED BY <1>3, <1>4, <1>5

\* What is returned is above all returned before, and is already in every place.
LEMMA ReturnKeeps ==
  ASSUME IdsInv, NEW p \in Procs, Return(p)
  PROVE IdsInv' /\ \A n \in issued : value[p] > n
<1>1. \A q \in Procs : pc'[q] = "idle"
  BY DEF IdsInv, Alone, TypeOK, Return, MayReturn
<1>2. /\ file = value[p] /\ disk = value[p] /\ named
      /\ \A n \in issued : value[p] > n
  BY DEF IdsInv, Fresh, Placed, Return, MayReturn, DrawnSteps, WrittenSteps, SyncedSteps
<1>3. value[p] \in Nat /\ issued \subseteq Nat
  BY MessageIdsAssumption DEF IdsInv, TypeOK, Stamps, Empty
<1>4. value[p] \in Stamps
  BY DEF IdsInv, Fresh, Return, MayReturn, DrawnSteps
<1>5. TypeOK'
  BY <1>4, MessageIdsAssumption DEF IdsInv, TypeOK, Return, Steps
<1>6. Kept'
  BY <1>2, <1>3 DEF Kept, Covers, Return
<1> QED
  BY <1>1, <1>2, <1>5, <1>6
  DEF IdsInv, Alone, Fresh, Placed, DrawnSteps, WrittenSteps, SyncedSteps

\* An error, a crash: the process leaves the lock, and the places keep what they have.
LEMMA FailKeeps ==
  ASSUME IdsInv, NEW p \in Procs, Fail(p) \/ Crash(p)
  PROVE IdsInv'
<1>1. pc'[p] = "idle" /\ \A q \in Procs : q # p => pc'[q] = pc[q]
  BY DEF IdsInv, TypeOK, Fail, Crash
<1>2. \A q \in Procs : q # p /\ pc[q] # "idle" => holder' = holder
  BY DEF IdsInv, Alone, Fail, Crash, Unlock
<1>3. TypeOK'
  BY DEF IdsInv, TypeOK, Fail, Crash, Unlock, Steps
<1>4. UNCHANGED <<file, disk, named, value, issued>>
  BY DEF Fail, Crash
<1> QED
  BY <1>1, <1>2, <1>3, <1>4
  DEF IdsInv, Alone, Kept, Fresh, Placed, Covers, DrawnSteps, WrittenSteps, SyncedSteps

\* A power loss leaves a file that is one of the two records, unusable, or gone, and
\* gone only if nothing was returned.
LEMMA SurvivorCovers ==
  ASSUME IdsInv, NEW f, NEW b, Survives(f, b)
  PROVE Covers(f) /\ f \in Record /\ b \in BOOLEAN /\ (issued # {} => b)
  BY DEF IdsInv, TypeOK, Kept, Covers, Survives, Record

LEMMA PowerLossKeeps ==
  ASSUME IdsInv, PowerLoss
  PROVE IdsInv'
<1>1. Covers(file') /\ file' \in Record /\ named' \in BOOLEAN /\ (issued # {} => named')
  BY SurvivorCovers DEF PowerLoss
<1>2. TypeOK'
  BY <1>1 DEF IdsInv, TypeOK, PowerLoss, Steps
<1>3. \A q \in Procs : pc'[q] = "idle"
  BY DEF PowerLoss
<1> QED
  BY <1>1, <1>2, <1>3
  DEF IdsInv, Alone, Kept, Fresh, Placed, Covers, PowerLoss, DrawnSteps, WrittenSteps, SyncedSteps

LEMMA IdsStep == IdsInv /\ [Next]_vars => IdsInv'
<1> SUFFICES ASSUME IdsInv, [Next]_vars PROVE IdsInv'
  OBVIOUS
<1>1. CASE \E p \in Procs : Open(p)
  BY <1>1, OpenKeeps
<1>2. CASE \E p \in Procs : Write(p) \/ Sync(p) \/ SyncDirectory(p)
  BY <1>2, PlaceKeeps
<1>3. CASE \E p \in Procs : Return(p)
  BY <1>3, ReturnKeeps
<1>4. CASE \E p \in Procs : Fail(p) \/ Crash(p)
  BY <1>4, FailKeeps
<1>5. CASE \E p \in Procs, now \in Readings : Advance(p, now)
  BY <1>5, AdvanceKeeps
<1>6. CASE PowerLoss
  BY <1>6, PowerLossKeeps
<1>7. CASE UNCHANGED vars
  BY <1>7 DEF vars, IdsInv, TypeOK, Alone, Kept, Fresh, Placed, Covers
<1> QED BY <1>1, <1>2, <1>3, <1>4, <1>5, <1>6, <1>7 DEF Next

LEMMA IdsInvariant == Spec => []IdsInv
  BY IdsInit, IdsStep, PTL DEF Spec

\* Every identity drawn is a calendar time, and every variable keeps its type
\* (MessageIDs.next refuses a clock past the calendar's end).
THEOREM IdsTypeCorrect == Spec => []TypeOK
<1>1. IdsInv => TypeOK
  BY DEF IdsInv
<1> QED BY <1>1, IdsInvariant, PTL

\* What a power loss may leave of the high-water file is unusable or at least every
\* identity that MessageIDs.next has returned.
THEOREM HighWaterIsDurable == Spec => []HighWaterDurable
<1>1. ASSUME IdsInv PROVE HighWaterDurable
  <2> SUFFICES ASSUME NEW n \in issued, NEW f \in Record, NEW b \in BOOLEAN, Survives(f, b)
               PROVE f = Damaged \/ f >= n
    BY DEF HighWaterDurable
  <2> QED BY <1>1, SurvivorCovers DEF Covers
<1> QED BY <1>1, IdsInvariant, PTL

\* MessageIDs.next issues identities as UniqueIds promises: a return is an issue of a
\* later identity, and every other step, failure and crash leaves the promise alone.
THEOREM IdsStrictlyIncrease == Spec => IdsIncrease
<1>1. Init => Promise!Init
  BY DEF Init, Promise!Init
<1>2. IdsInv /\ [Next]_vars => [Promise!Next]_issued
  <2> SUFFICES ASSUME IdsInv, [Next]_vars PROVE Promise!Next \/ issued' = issued
    OBVIOUS
  <2>1. ASSUME NEW p \in Procs, Return(p) PROVE Promise!Next
    <3>1. \A n \in issued : value[p] > n
      BY <2>1, ReturnKeeps
    <3>2. value[p] \in Stamps
      BY <2>1 DEF IdsInv, Fresh, Return, MayReturn, DrawnSteps
    <3>3. Promise!Issue(value[p])
      BY <2>1, <3>1 DEF Return, Promise!Issue
    <3> QED BY <3>2, <3>3 DEF Promise!Next
  <2>2. ASSUME NEW p \in Procs,
               Open(p) \/ Write(p) \/ Sync(p) \/ SyncDirectory(p) \/ Fail(p) \/ Crash(p)
        PROVE issued' = issued
    BY <2>2 DEF Open, Write, Sync, SyncDirectory, Fail, Crash
  <2>3. ASSUME NEW p \in Procs, NEW now \in Readings, Advance(p, now) PROVE issued' = issued
    BY <2>3 DEF Advance
  <2>4. PowerLoss \/ UNCHANGED vars => issued' = issued
    BY DEF PowerLoss, vars
  <2> QED BY <2>1, <2>2, <2>3, <2>4 DEF Next
<1> QED BY <1>1, <1>2, IdsInvariant, PTL DEF Spec, Promise!Spec, IdsIncrease
===============================================================================
