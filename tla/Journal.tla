------------------------------- MODULE Journal -------------------------------
(***************************************************************************)
(* Journal.write and Journal.read of src/src/dooya_openhab/service.py, and *)
(* the journal_ok flag of the Service that calls them: a snapshot goes to  *)
(* a temporary file, which is synced, renamed over the journal and made    *)
(* durable with a sync of the directory.  Any step may fail, the process   *)
(* may die at any step, and the power may go: then a file that was not     *)
(* synced may be torn, and a rename may be undone while the directory has  *)
(* not been synced.                                                        *)
(***************************************************************************)
CONSTANTS
  Values,        \* what a snapshot may hold
  Nothing,       \* the snapshot of a journal that does not exist yet
  Torn           \* a file that holds no whole snapshot

VARIABLES
  path,          \* what a process reads from the journal's path
  possible,      \* what a power loss may leave at the path
  stage,         \* how far write has come
  snapshot,      \* what it writes
  synced,        \* the temporary file's content is durable
  healthy,       \* journal_ok
  acknowledged   \* history: the snapshot for which write last returned True

vars == <<path, possible, stage, snapshot, synced, healthy, acknowledged>>

\* A journal that failed is left alone.
Create(v) ==
  /\ stage = "idle" /\ healthy
  /\ stage' = "created" /\ snapshot' = v /\ synced' = FALSE
  /\ UNCHANGED <<path, possible, healthy, acknowledged>>

WriteFile ==
  /\ stage = "created" /\ stage' = "written"
  /\ UNCHANGED <<path, possible, snapshot, synced, healthy, acknowledged>>

\* Slip: the file is flushed but not synced.
SyncNothing ==
  /\ stage = "written" /\ stage' = "synced"
  /\ UNCHANGED <<path, possible, snapshot, synced, healthy, acknowledged>>

SyncFile ==
  /\ stage = "written" /\ stage' = "synced" /\ synced' = TRUE
  /\ UNCHANGED <<path, possible, snapshot, healthy, acknowledged>>

Replace ==
  /\ stage = "synced" /\ stage' = "replaced"
  /\ path' = snapshot
  /\ possible' = possible \cup {snapshot} \cup (IF synced THEN {} ELSE {Torn})
  /\ UNCHANGED <<snapshot, synced, healthy, acknowledged>>

\* Slip: the directory is not synced.
ReturnAtOnce ==
  /\ stage = "replaced" /\ stage' = "idle"
  /\ acknowledged' = snapshot
  /\ UNCHANGED <<path, possible, snapshot, synced, healthy>>

SyncDirectory ==
  /\ stage = "replaced" /\ stage' = "idle"
  /\ possible' = {path} \cup (IF synced THEN {} ELSE {Torn})
  /\ acknowledged' = snapshot
  /\ UNCHANGED <<path, snapshot, synced, healthy>>

\* An error of any step; the temporary file is removed.
Fail ==
  /\ stage # "idle" /\ stage' = "idle"
  /\ healthy' = FALSE
  /\ UNCHANGED <<path, possible, snapshot, synced, acknowledged>>

\* A new process reads what the path names, and a file it cannot use is left alone.
Read(f) == stage' = "idle" /\ path' = f /\ healthy' \in {f # Torn, FALSE}

Crash ==
  /\ Read(path)
  /\ UNCHANGED <<possible, snapshot, synced, acknowledged>>

PowerLoss ==
  /\ \E f \in possible : Read(f) /\ possible' = {f}
  /\ UNCHANGED <<snapshot, synced, acknowledged>>

Init ==
  /\ path = Nothing /\ possible = {Nothing}
  /\ stage = "idle" /\ snapshot = Nothing /\ synced = FALSE
  /\ healthy = TRUE /\ acknowledged = Nothing

Next ==
  \/ \E v \in Values : Create(v)
  \/ WriteFile \/ SyncFile \/ Replace \/ SyncDirectory \/ Fail \/ Crash \/ PowerLoss

Spec == Init /\ [][Next]_vars

(***************************************************************************)
(* Properties                                                              *)
(***************************************************************************)
TypeOK ==
  /\ path \in Values \cup {Torn} /\ possible \subseteq Values \cup {Torn}
  /\ stage \in {"idle", "created", "written", "synced", "replaced"}
  /\ snapshot \in Values /\ acknowledged \in Values
  /\ synced \in BOOLEAN /\ healthy \in BOOLEAN

\* Whatever fails and whenever the power goes, the journal is one whole snapshot: the one
\* last acknowledged or one offered since, and once write has returned that one alone.
Store == INSTANCE Snapshot WITH outcomes <- possible, committed <- acknowledged
JournalIsAtomic == Store!Spec
=============================================================================
