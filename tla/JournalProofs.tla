---------------------------- MODULE JournalProofs ----------------------------
(* Journal's step by step replacement implements the atomic Snapshot.        *)
EXTENDS Journal, TLAPS

\* What may be at the path is whole, and what a write has renamed is what it wrote.
Whole ==
  /\ TypeOK
  /\ Torn \notin possible /\ path \in possible
  /\ stage \in {"synced", "replaced"} => synced
  /\ stage = "replaced" => path = snapshot

LEMMA InitWhole ==
  ASSUME Nothing \in Values, Torn \notin Values, Init
  PROVE  Whole
BY DEF Init, Whole, TypeOK

LEMMA NextWhole ==
  ASSUME Nothing \in Values, Torn \notin Values, Whole, [Next]_vars
  PROVE  Whole'
<1> USE DEF Whole, TypeOK
<1>1. ASSUME NEW v \in Values, Create(v) PROVE Whole'
  BY <1>1 DEF Create
<1>2. CASE WriteFile
  BY <1>2 DEF WriteFile
<1>3. CASE SyncFile
  BY <1>3 DEF SyncFile
<1>4. CASE Replace
  BY <1>4 DEF Replace
<1>5. CASE SyncDirectory
  BY <1>5 DEF SyncDirectory
<1>6. CASE Fail
  BY <1>6 DEF Fail
<1>7. CASE Crash
  BY <1>7 DEF Crash, Read
<1>8. CASE PowerLoss
  BY <1>8 DEF PowerLoss, Read
<1>9. CASE UNCHANGED vars
  BY <1>9 DEF vars
<1>10. QED
  BY <1>1, <1>2, <1>3, <1>4, <1>5, <1>6, <1>7, <1>8, <1>9 DEF Next

LEMMA StepImplemented ==
  ASSUME Torn \notin Values, Whole, [Next]_vars
  PROVE  [Store!Next]_(Store!vars)
<1> USE DEF Whole, TypeOK, Store!vars
<1>1. CASE Replace
  BY <1>1 DEF Replace, Store!Next, Store!Replace
<1>2. CASE SyncDirectory
  BY <1>2 DEF SyncDirectory, Store!Next, Store!Acknowledge
<1>3. CASE PowerLoss
  BY <1>3 DEF PowerLoss, Store!Next, Store!Recover
<1>4. ASSUME NEW v \in Values, Create(v) PROVE UNCHANGED Store!vars
  BY <1>4 DEF Create
<1>5. CASE WriteFile \/ SyncFile \/ Fail \/ Crash \/ UNCHANGED vars
  BY <1>5 DEF WriteFile, SyncFile, Fail, Crash, vars
<1>6. QED
  BY <1>1, <1>2, <1>3, <1>4, <1>5 DEF Next

\* Journal.write replaces the snapshot atomically: whatever step fails and whenever the
\* process dies or the power goes, the journal holds one whole snapshot, and once write has
\* returned True no power loss brings back an earlier one.
THEOREM JournalImplementsSnapshot ==
  ASSUME Nothing \in Values, Torn \notin Values
  PROVE  Spec => JournalIsAtomic
<1>1. Init => Store!Init
  BY DEF Init, Store!Init
<1>2. Init => Whole
  BY InitWhole
<1>3. Whole /\ [Next]_vars => Whole'
  BY NextWhole
<1>4. Whole /\ [Next]_vars => [Store!Next]_(Store!vars)
  BY StepImplemented
<1>5. QED
  BY <1>1, <1>2, <1>3, <1>4, PTL DEF Spec, JournalIsAtomic, Store!Spec
=============================================================================
