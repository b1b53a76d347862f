------------------------------ MODULE MessageIds ------------------------------
(***************************************************************************)
(* MessageIDs of src/src/dooya_openhab/protocol.py with a state path:      *)
(* processes draw time-shaped identities from their clocks and one         *)
(* high-water file, which they lock, read, write in place and sync.        *)
(*                                                                         *)
(* The clock may read anything at every call.  A process may fail at any   *)
(* step with an error (the file is then closed and unlocked) or crash; a   *)
(* power loss stops all processes and may lose or tear what was written    *)
(* and not synced, and the directory entry of a file just created.         *)
(* Identities are milliseconds; calls within a process are serialised by   *)
(* its own lock.                                                           *)
(***************************************************************************)
EXTENDS Naturals

CONSTANTS
  Procs,       \* processes that share the high-water file
  NoProc,
  MaxStamp,    \* the calendar's last millisecond
  Readings,    \* what a clock may read
  Damaged      \* a file that holds no valid record

Stamps == 1..MaxStamp
Empty == 0     \* no record in the file, and no last identity in a process

ASSUME MessageIdsAssumption ==
  /\ NoProc \notin Procs
  /\ MaxStamp \in Nat
  /\ Readings \subseteq Stamps
  /\ Damaged \notin Nat

VARIABLES
  file,        \* the record as processes read it
  disk,        \* the record as it was last synced
  named,       \* the file's directory entry is durable
  holder,      \* who holds the lock on the file
  last,        \* self.last of each process
  pc, value,   \* where a process is in next(), and the identity it drew
  issued       \* history: identities returned to callers

vars == <<file, disk, named, holder, last, pc, value, issued>>

Later(a, b) == IF a >= b THEN a ELSE b

\* _advance: a clock that does not pass what is known is replaced by one more.
Advanced(now, floor) == IF now <= floor THEN floor + 1 ELSE now

Open(p) ==
  /\ pc[p] = "idle" /\ holder = NoProc
  /\ holder' = p /\ pc' = [pc EXCEPT ![p] = "locked"]
  /\ UNCHANGED <<file, disk, named, last, value, issued>>

\* Slip: the calendar's end is not noticed.
NoOverflow(v) == TRUE

\* Beyond it, datetime raises OverflowError before last is set.
InCalendar(v) == v <= MaxStamp

Advance(p, now) ==
  /\ pc[p] = "locked" /\ file # Damaged
  /\ LET v == Advanced(now, Later(last[p], file)) IN
     /\ InCalendar(v)
     /\ last' = [last EXCEPT ![p] = v] /\ value' = [value EXCEPT ![p] = v]
  /\ pc' = [pc EXCEPT ![p] = "advanced"]
  /\ UNCHANGED <<file, disk, named, holder, issued>>

Write(p) ==
  /\ pc[p] = "advanced"
  /\ file' = value[p] /\ pc' = [pc EXCEPT ![p] = "written"]
  /\ UNCHANGED <<disk, named, holder, last, value, issued>>

Sync(p) ==
  /\ pc[p] = "written"
  /\ disk' = file /\ pc' = [pc EXCEPT ![p] = "synced"]
  /\ UNCHANGED <<file, named, holder, last, value, issued>>

SyncDirectory(p) ==
  /\ pc[p] = "synced"
  /\ named' = TRUE /\ pc' = [pc EXCEPT ![p] = "durable"]
  /\ UNCHANGED <<file, disk, holder, last, value, issued>>

\* Slip: the directory is not synced before the identity is used.
ReturnsUnnamed(p) == pc[p] \in {"synced", "durable"}

\* Slip: nor is the record.
ReturnsUnsynced(p) == pc[p] \in {"written", "durable"}

MayReturn(p) == pc[p] = "durable"

Return(p) ==
  /\ MayReturn(p)
  /\ issued' = issued \cup {value[p]}
  /\ holder' = NoProc /\ pc' = [pc EXCEPT ![p] = "idle"]
  /\ UNCHANGED <<file, disk, named, last, value>>

Unlock(p) == holder' = IF holder = p THEN NoProc ELSE holder

\* ProtocolError, from whichever step.
Fail(p) ==
  /\ pc[p] # "idle"
  /\ Unlock(p) /\ pc' = [pc EXCEPT ![p] = "idle"]
  /\ UNCHANGED <<file, disk, named, last, value, issued>>

Crash(p) ==
  /\ Unlock(p) /\ pc' = [pc EXCEPT ![p] = "idle"]
  /\ last' = [last EXCEPT ![p] = Empty]
  /\ UNCHANGED <<file, disk, named, value, issued>>

\* What may be left of the file.
Survives(f, isNamed) ==
  \/ /\ f \in {disk, file} \cup (IF file = disk THEN {} ELSE {Damaged})
     /\ isNamed = TRUE
  \/ ~named /\ f = Empty /\ isNamed = FALSE

PowerLoss ==
  /\ Survives(file', named') /\ disk' = file'
  /\ holder' = NoProc
  /\ pc' = [p \in Procs |-> "idle"] /\ last' = [p \in Procs |-> Empty]
  /\ UNCHANGED <<value, issued>>

Init ==
  /\ file = Empty /\ disk = Empty /\ named = FALSE
  /\ holder = NoProc
  /\ last = [p \in Procs |-> Empty]
  /\ pc = [p \in Procs |-> "idle"] /\ value = [p \in Procs |-> Empty]
  /\ issued = {}

Next ==
  \/ \E p \in Procs : \/ Open(p) \/ Write(p) \/ Sync(p) \/ SyncDirectory(p)
                      \/ Return(p) \/ Fail(p) \/ Crash(p)
  \/ \E p \in Procs, now \in Readings : Advance(p, now)
  \/ PowerLoss

Spec == Init /\ [][Next]_vars

(***************************************************************************)
(* Properties                                                              *)
(***************************************************************************)
Record == Stamps \cup {Empty, Damaged}
Steps  == {"idle", "locked", "advanced", "written", "synced", "durable"}

\* Every variable keeps its type: an identity is always a calendar time.
TypeOK ==
  /\ file \in Record /\ disk \in Record /\ named \in BOOLEAN
  /\ holder \in Procs \cup {NoProc}
  /\ last \in [Procs -> Stamps \cup {Empty}] /\ value \in [Procs -> Stamps \cup {Empty}]
  /\ pc \in [Procs -> Steps]
  /\ issued \subseteq Stamps

\* No identity is lost: what the file says after a power loss, as before one, is at
\* least every identity any process has used, unless the file is unusable.
HighWaterDurable ==
  \A n \in issued : \A f \in Record, b \in BOOLEAN :
    Survives(f, b) => f = Damaged \/ f >= n

\* Identities strictly increase across calls, processes, failures, clock rollbacks,
\* crashes and power losses.
Promise == INSTANCE UniqueIds
IdsIncrease == Promise!Spec
=============================================================================
