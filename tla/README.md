# TLA+ models of the Dooya/openHAB adapter

The adapter (`src/src/dooya_openhab`) is a single service between an MQTT broker and a
Connector bridge that moves shades by radio. It takes signed commands and policies of a
household owner from MQTT, sends at most one UDP request per command to the bridge, listens
to the bridge's multicast reports, and publishes what it knows. Its promise is negative: a
command is never sent twice, never without its authority, never reported as something it was
not; a position is never called usable unless the bridge has just said so.

## Inventory

| Part | Code | State | Operations | Hard about it | Module |
|---|---|---|---|---|---|
| Command queue | `commands.py` 234-640 | ledger of receipts, jobs, ordered pending queue, policy in force and its past generations, latest command per shade, wall-clock highwater | submit, pop, mark_dispatched, record_result, invalidate, update_policy, export, import | redelivery, eviction, clock jumps, limits, races of results and withdrawals | `CommandQueue` |
| Owner contract | `commands.py` 36-224 | none | verify and validate envelopes | pure | - |
| State provenance | `model.py` 96-419 | observation, session, watermark, one per shade | begin_session, accept, motion_admitted, invalidate, snapshot, import/export | reordered and repeated reports, restart | `Sources` |
| Legacy queue | `model.py` 84-94, 422-446 | pending dictionary | put, pop, clear | not used by the service | - |
| Message identities | `protocol.py` 62-114 | last identity, high-water file | next | several processes, crash, power loss, clock | `MessageIds`, `UniqueIds`, `Requests` |
| UDP transport | `protocol.py` 223-292 | none between requests | request | which answer is whose, cancellation, final check before the datagram | `Requests`, `Dispatch` |
| Connector | `protocol.py` 295-402 | bridge, token, devices, device profiles | discover, observe, device_request, command | commits before its caller checks the connection | `Sources`, `Requests` |
| Report socket, codec | `protocol.py` 18-221, 405-433 | none | receive, decode | pure or I/O | - |
| Receipt journal | `service.py` 31-82 | a file | read, write | crash, power loss, failing writes | `Journal`, `Snapshot`, `Requests` |
| Publications | `service.py` 160-220 | desired, sent, pending, starting, early acks | publish, on_publish, invalidate | two locks, early and late acknowledgements, will | `Publications` |
| Dispatch and outcomes | `service.py` 226-313, 404-495 | active commands and their deadlines, connection generation | execute, callbacks, outcomes | two threads around one lock, fsync before send | `Dispatch`, `Custody` |
| Sources and reports | `service.py` 315-402 | session bound, source generation, ready | discover_once, poll_once, handle_report | waits during which callbacks run | `Sources`, `Dispatch` |
| Main loop | `service.py` 497-578 | schedule | run, publish_states | priorities, pacing, shutdown | `MainLoop`, and actions in `Dispatch`, `Sources`, `Publications` |
| Command line | `cli.py` | none that lasts | discover, inspect, serve | its requests and the service's at once | `Requests`, `MainLoop` |
| Configuration, owner publisher | `config.py`, `owner_publish.py` | none that lasts | load, publish once | sequential | - |

Threads: the main loop runs `Service.run`; the MQTT client's network thread runs
`on_connect`, `on_disconnect`, `on_message` and `on_publish`. They share the queue under
`commands.lock` (reentrant) and the publication tables under `_publish_lock`; the client has
an outbound mutex of its own. The loop waits for the bridge without a lock.

What makes each part correct: the queue dispatches a signed command at most once, keeps STOPs
first and bounded, and lets no replaced policy act; dispatch sends with whole authority and
reports truthfully; a usable position is the bridge's last word; identities increase for ever
and an answer is taken only for its own request; the journal is replaced as a whole; no kind of
request starves another; the publisher neither deadlocks nor believes something retained that is not.

## Modules and how they correspond to the code

`PROJECT.json` maps every definition to its lines. In each module an action carries the name
of its method or of the step of it; operators introduced by a comment *Slip* are mistakes a
programmer could make, kept beside the right definition so that each property can be shown to
notice one. They are not part of `Next`.

**CommandQueue** has one action per method of the class, since each runs under the lock. A
call carries the wall-clock reading and the monotonic sample its caller took before the lock;
the wall clock may read anything in `WallReadings`, the sample may be `Lag` old. `pending` and
`ahead` are the keys and the order of the ordered dictionary. Where the code evicts the oldest
entry that may go, the model evicts any, which allows more. `Restart` is a new process, whose
journal can be read or not (`Start(read)`): it imports the last export, or goes on with an empty
ledger (`service.py` 124-126). The clock highwater rebuilt from receipts' times is any earlier
reading. `Released` is the constructor's `automatic_released`. The instances set it, as the
class's tests do; the shipped service does not yet (`service.py` 100-101), so what is said of
automation here, in Dispatch and in Sources is said of the class, and matters to the service once
it does. `dispatches`, `last_on`, `displaced`, `first_effective` are history variables.

**Dispatch** extends the queue (`EXTENDS CommandQueue`; `commands` are the queue's variables) with
the two threads; its specification is `ServiceSpec`. `pc` is where the loop is; `lock` is
`commands.lock`. A handler that makes several calls under the lock is one step per call and keeps
the lock, so the clock or a crash may fall between them. `Deliver`, `DeliverPolicy`, `OnConnect`,
`OnDisconnect` begin a callback and `CallbackPersists` ends it. `Choose`, `PopCommand`, `Execute`,
`Admit`, `RecordDispatch`, `Recheck`, `Send`, `Acknowledged` / `NotAcknowledged`, `TakeAnswer` /
`Fail`, `Finish` follow `execute` and `UDPTransport.request`. What the gate asks beyond the
connection, readiness, the journal and the source generation is the parameter `qualified`, open in
every call; whether the bridge answers is open too. A command whose gate reads differ between
steps is therefore covered. `ServiceRestart` is the constructor with its exception branch: the
journal is read and imported; or it cannot be read or imported, and the service goes on with an
empty ledger, no journal and every command inhibited; or only the source history in it is
refused, which inhibits everything too but leaves the restored ledger. `journal_ok` is false in
the last two, `informed` (history) only in the second. From then on that process leaves the file
alone, so the next one may find it readable again. `sent` and `newest` are history.

**Custody** is what the service owes the owner for each command, without threads, locks or
clocks: what is told of it moves from nothing through waiting and out to one end, it is sent at
most once and only while it is out, and is on record as gone out from before it leaves for as
long as it is told of. A new life (`Restart`) carries over no work: `Resume` tells of what is on
record as gone out that it is uncertain or how it ended, of all else nothing or that it was
denied; `StartBlind`, the life that cannot read the record, knows of nothing, may deny a command
that an earlier life sent, commits and sends none, and leaves the record to the next life.
`CustodyKept` of Dispatch is the refinement: `ToldOf` reads a command's receipt off the ledger,
the record is what the journal has as gone out (`GoneOut`), `sent` counts datagrams, a life is a
`session`. Custody allows a forgotten identity to be told anew; what was sent is then still not
sent again.

**Sources** is one shade's `State` with the handlers that feed it. The loop's order is left
open, its waits for a discovery and a poll are states of `pc`; a report is any record of a
stamp, a kind of data and a type, delivered any number of times in any order. The journal may
fail to be written, having replaced the file or not, and may be unreadable at a start. Left
out: devices whose profile is never learned, the bridge identity (always the configured one),
what is only displayed (reason, movement, motor contact, target, cache), and the check that a
report is not from before its session in monotonic time, which a process cannot violate.
`proof`, `spent`, `recorded` and `moves` are history variables.

**Publications** is one retained topic, the callers of `publish`, the client's network thread, its
queue and the broker. A lock is held between steps only where the code takes the other lock with
it. Taken from how the code uses the client and the broker: unacknowledged messages are sent again
first and in order on a new connection; the will is published before a new connection is made. The
256 places of `_pending` are never all needed, since an entry lasts no longer than its message is
out and the client keeps at most 256; their eviction is left out. `_early_acks` may fill while one
call is inside `client.publish()`, and an acknowledgement is then dropped (`EarlyLimit`, see
*Proofs*).

**MessageIds** opens, locks, reads, writes in place, syncs file and directory, step by step,
for processes that share the file. **UniqueIds** is its abstract promise: whatever is issued
is later than everything issued before. `IdsIncrease` is the refinement, `issued` being the
identities returned. Times are plain numbers up to the calendar's end.

**Requests** extends MessageIds with one request from its identity to its answer
(`_request`, `UDPTransport.request`), made by the service and by a diagnostic command that
shares the identities' file. The answers the network may deliver are those to any request that
was ever sent, with or without msgID, any number of times: sockets are closed and their ports
given out again. A movement is recorded in the ledger and the ledger written to the journal
before the datagram (`RecordDispatch`, `JournalWritten`, `Send`); a power loss takes identities'
file and journal together. `known` is the ledger reduced to the movements it keeps as
dispatched. It grows by what is recorded and shrinks by eviction: a submission to a full ledger
deletes an identity whose time is over and whose outcome is told (`commands.py` 313-328), and the
export that follows lacks it. How full the ledger is and which entries may go is CommandQueue's
matter; `Persist` lets any movement go, one at a time, except while one is being sent, when the
queue's lock is held. `Reload` is the ledger of a new process: the journal's, or the empty one
with `healthy` false if it could not be read. `asked`, `sent` and `forgotten`, the movements that
were evicted, are history. `SentIsOnRecord` speaks of a movement until it is forgotten.

**Journal** is `Journal.write` step by step: the temporary file, its sync, the rename, the sync
of the directory. `possible` is what a power loss may leave at the path: an unsynced file may
be torn, a rename undone until the directory is synced. **Snapshot** is its promise: a value
replaced as a whole. Nothing removes a temporary file that a crash leaves behind; it is never
read and not modelled.

**MainLoop** is `run`. Deadlines are counted down in units of the least spacing of requests;
time passes in requests and in the waits. `task` is the request under way, `urgent` that it was
popped as a STOP ahead of everything else; commands are counted by kind, since the schedule
asks only whether there are any. `overtaken` is history: requests sent since the STOPs now
waiting arrived.

## Runs

| Run | Instance | Shows |
|---|---|---|
| MCQueue | an automatic move and its own STOP, operator STOPs of its shade and a move of another, ledger of 2, one ordinary place, one restart with the journal or without | no double dispatch, outcomes absorb, queue and ledger agree, STOPs first, coalescing, bounds, exports importable, STOPs kept, an automatic STOP stops only its own movement |
| MCDisplaced | the same commands, a ledger with room for all, no restart | **violation**, see below |
| MCPolicy | 6 snapshots, 3 generations, history of 2, automatic moves of 2 generations, wall clock that jumps, stale samples | a replaced policy stays out, the present one is not prolonged, automation follows the policy in force |
| MCDispatch | automatic move and STOP, 2 policies, journal failures, one restart with a journal that can or cannot be read, 3 queue generations | sent with authority, never denied, custody kept |
| MCServed | move and STOP, connection lost and regained (4 generations) | STOPs are served (liveness), late answers count for nothing, reports complete the newest motion |
| MCEvidence | 2 stamps and an opaque one, 5 kinds, 2 report types, clock 0..2, restarts without limit | what usable means, no report counted or acted on twice |
| MCRetyped | the same with two discoverable types | **violation**, see below |
| MCCache | one publishing loop and the network thread, will, reconnection | no deadlock, no leak, the cache is true |
| MCRetained | the loop under fairness, one refusal, one reconnection, will | the broker finally retains the state (liveness) |
| MCOvertaken | two threads publish one topic | **violation**, see below |
| MCRequests | the service and a tool, 3 milliseconds of calendar, one kind of device request, the pinned profile, crashes, power losses and evictions without limit | identities increase, answers answer their request, the journal is whole and holds every movement that left until it is evicted |
| MCLoop | 2 shades, requests of 0 or 1 unit, streak limit 3, 2 STOPs, 1 move | a STOP goes next, polls and moves are not starved (liveness) |

Bounds. The limits of the code (64, 256, 512) are parameters: instances give them the smallest
values at which the full, the last free and the reserved place are all met. Each identity clash,
eviction and coalescing needs two or three commands; a clock that jumps both ways needs three
readings. `MaxGeneration`, `MaxSession`, `MaxMono`, `MaxRefusals` bound the counters in guards. In
MCDispatch three queue generations allow a connection, a discovery and one withdrawal, and the
restart meets what such a history leaves; that a process finds its record again after one that
could not read it takes two restarts and is left to the proof of `CustodyImplemented`, and to
Requests, where restarts have no bound. MCServed adds the regained connection. Reports of two
stamps meet every order; `moves` is counted to two. `StartingLimit = 1` in MCCache makes the limit
bite; elsewhere it is 64 because a reservation is then never refused, as in the code.

In MCRequests three identities are enough for two requests of each process to overlap, and one
beyond the calendar's end; the fourth draw overflows as the code's would. In MCLoop a poll
cycle (2) is no longer than its two polls, the case in which polls could keep the bridge to
themselves; `StreakLimit` is 3 for the code's 4 and only delays a poll by one command less.
MCDispatch has a ledger with room for every identity because `SentIsNeverDenied` asks for it: with
less the code may forget a command that was sent and tell a redelivered copy that it expired.
It is not sent again (`AtMostOnceDispatch`), and custody is kept (`CustodyImplemented` is proved
for every size). `SentIsNeverDenied` also asks for the record: a process that could not read its
journal tells a redelivered command what its empty ledger lets it, that it was rejected, though an
earlier process sent it. The property excepts the receipts of such a process, not the journals.

Three cfgs give a VIEW, so that states no property and no step tells apart are one:
`LastJournalAside` (MCQueue) leaves out the export in the last process of the instance, which
is not read again; `ExportImportable` sees every export of the first process there, and every
ledger of both, and what is exported is the ledger. `QueueHistoryAside` (MCDispatch) leaves out
the queue's history variables, which guide no step and which no property of that run reads.
`WhatCounts` (MCRequests) leaves out the snapshot when none is being written, the ledger of a
process whose journal has failed, which it never writes, and of `forgotten` what never left,
which `SentIsOnRecord` does not ask about.

Fairness. MCServed (`LiveSpec` of Dispatch): the loop goes on, as a thread does whose waits
all have timeouts (0.05 s polls, the request timeout); callbacks end; and the loop, asking for
the lock again and again, finally gets it (strong fairness: Python's lock is not first come,
first served, but the callbacks' traffic pauses). MCRetained (`LiveSpec` of Publications):
`publish_states` publishes in every round, the network thread, the broker and time go on, and
the client's `publish()` does not raise or find its queue full for ever. It has no unretained
traffic, which could keep the queue occupied.

MCLoop (`Spec` of MainLoop): the loop goes on, its short waits add up to time, and, of
discoveries tried again and again, one gets its identity, leaves and is answered: without that
the bridge is never ready. Nothing is assumed of polls and moves; each may fail for ever.
`PollsNotStarved` and `MovesNotStarved` speak of a time after which the connection holds and no
new STOP is waiting: STOPs reset the streak and may starve polls, which the comment "STOP
preempts discovery, normal pacing, and pending polling" (`service.py:543`) accepts.

Three runs end in a violation, each of a comment in the code.

* MCDisplaced, `commands.py:418-419`: "Every known shade has one operator STOP waiting slot,
  separate from ordinary work; coalescing above keeps that bound exact." `submit` lets any
  admissible STOP supersede what waits on its shade (lines 408-415), and only then tests the
  ordinary limit, which an automatic STOP is subject to (416-421). With the queue full of other
  shades' work the automatic STOP is rejected as `queue_full` and the operator STOP it displaced
  stays superseded: no STOP is sent. The test at `test_command_contract.py:521`,
  `test_full_normal_queue_for_other_shades_cannot_block_operator_stop`, has no automatic STOP. The
  proof of `ManualStopKept` found this: the conjunct that the newer STOP waits cannot be shown,
  and the property says only that the newer STOP was taken into the ledger. The fault is latent:
  the shipped service makes the queue with `automatic_released=False` (`service.py:100-101`), so
  that no automatic movement is dispatched, no automatic STOP owns one, and every one is turned
  away before it supersedes anything. It becomes real with the flag.

* MCOvertaken, `service.py:216-217`: "Concurrent callers can reach Paho in a different order.
  An older retained payload must not hide the next repair." `publish` caches an early
  acknowledged payload (line 199) without noticing that an older one was acknowledged after
  it. The service itself publishes retained topics from one thread, for which MCCache
  shows and `CacheTrue` proves the promise kept.
* MCRetyped, `model.py:335`: "Repeated/older datagrams never update observation or receipt."
  A shade listed under another type and then under its first again has lost its watermark
  (`model.py:137-139`), and a report already accepted is accepted again. With one
  type MCEvidence shows the promise kept.

## Proofs

Eight modules hold theorems, for every value of the constants that satisfies the assumptions of
the module they are about. `PROJECT.json` lists the theorems. The assumptions are named
(`QueueAssumption`, `DispatchAssumption`, `SourcesAssumption`, `PublicationsAssumption`,
`MessageIdsAssumption`, `RequestsAssumption`, `MainLoopAssumption`; `Journal` needs none) and TLC
evaluates them in the runs. Five further hypotheses belong to single theorems and are defined
where they are used:

| Hypothesis | Theorems | Why |
|---|---|---|
| `OneCommandPerId`: no two signed commands have one identity | `StopsOwnMovement`, `QueueStopsOwn` | the queue knows a movement by its identity; once evicted, the identity signed anew would stand for another command. The contract makes identities UUIDs (`commands.py` 142), and an owner does not sign two commands with one |
| `OneInventory`: discoveries list one type of device | `OneMotion`, `NoReportTwice` | without it the second is false, MCRetyped |
| `OneWriter`: retained topics are published by one thread | `CacheTrue` | so it is in the service; without it false, MCOvertaken |
| `EarlyHasRoom`: an early acknowledgement finds a place | `PendingOutstanding`, `CacheTrue` | see below |
| `RoomForAll`: the ledger has a place for every identity | `SentNeverDenied` | see *Bounds* above |

**CommandQueueProofs.** First what each helper keeps of a ledger (`Follows`, `Sound`), then
invariants that grow from one another:

* `Base` is `TypeOK` and that the pending queue is the set of queued entries. `TypeOK` is not
  inductive alone: that a job keeps its entry depends on it (`TypeCorrect`).
* `OnceInv` adds `WaitingIsCurrent` (what waits was signed for this process's session) and
  `DispatchedIsSpent`: an envelope once dispatched is spent, because its entry no longer waits, or
  its time is over by the wall-clock highwater that never goes back, or it was signed for an
  earlier session. Eviction leads from the first to the second, a restart to the third
  (`AtMostOnce`).
* `LineInv` adds that the order is total and that what waits has a job, and holds `StopsFirst`,
  `OneWaitingPerShade` and `OrdinaryWithinLimit` in one: `submit` keeps each only because of the
  others (`PendingQueued`, `StopsGoFirst`, `OneWaits`, `OrdinaryBounded`).
* `CurrentInv` is `AutomationIsCurrent` over `Base` (`AutomationCurrent`).
* `PolicyInv`: the generation in force is remembered, a displaced snapshot is overtaken by one in
  force or by a retired owner, and the effective time of a snapshot in force is known. The history
  of generations forgets; what keeps a forgotten snapshot out is that it was issued earlier
  (`ReplacedStaysOut`, `NotProlonged`).
* `LedgerInv`: the ledger and the export are within the bounds `import_ledger` checks, the
  reserved places for STOPs counted per shade (`ExportImports`). It needs finitely many shades.
* `OwnInv`: the identity last dispatched on a shade is that of the command last dispatched there
  (`StopsOwnMovement`).

`OutcomesAbsorb` and `StopsKept` are facts of single steps from `Base`.

**DispatchProofs.** A step of the service is a step of the queue, a write of the journal or a
reading of the clock (`QueueStep`), so the queue's lemmas carry over (`QueueInv`). `TypeInv` adds
the threads' types and that the job in hand is known to the queue. `ServiceInv` adds what the
loop may rely on at each step of `execute`: before its datagram a job was never sent (`Unsent`),
while an answer is awaited it was (`Answering`), between commitment and recheck the journal is
the ledger (`Journalled`), and on the point of sending everything the command rests on holds
(`Poised`), which no callback can undo because the loop has the lock. `History` says what that
leaves behind: a shade is followed for the command last sent on it, nothing was sent that was
not dispatched, nothing acknowledged that was not sent, what the ledger has as sent the
journal has (`SentOnRecord`), and a process that did not find its record has no journal to write
and nothing in its ledger that went out (`Uninformed`). `AuthorityWhole`, `AcknowledgedTrue` and
`NewestCompleted` follow for each step. `CustodyImplemented` takes the commands one at a time:
what a step does to a receipt (`ReceiptCases`) is one move of Custody for that command, by
`SentOnRecord` what is told as gone out is on record after it, and by `Uninformed` a life without
the record commits nothing and leaves it alone. A restart is Custody's, `Resume` or `StartBlind`
according to `informed` (`RestartCustodial`). `SentNeverDenied` needs `SentKnown`, that the ledger
of an informed process and every journal have what was sent as gone out.

The queue's promises hold in the service too, where the queue's calls come from both threads in
any order and the journal fails and restarts: `InServiceAlways` has `LineInv`, `CurrentInv`,
`PolicyInv` and `OwnInv` carried through every `QueueStep` (a write of the journal and a reading
of the clock leave the queue as it was), and from them `QueueInOrder`, `QueueUnderPolicy`,
`QueueKeepsWord` and `QueueStopsOwn` state for `ServiceSpec` what CommandQueueProofs states for
`Spec`. Two results need no bound on the ledger: `JournalGoesFirst`, that the journal on disk says
a command went out before its datagram leaves, is `Poised` at the step `Send`; `DatagramOnce`, that
no datagram leaves twice in all lives of the service, is proved of Custody and carried over by
`CustodyImplemented`, so it shows what the abstract specification is worth. Neither, nor the
promises of the queue as invariants of `ServiceSpec`, is checked by a run of its own.

**SourcesProofs.** `BeliefInv` (`UsableLastWord`, `UsableInventoried`): a current observation is of
the session over this connection and is the report accepted last; while the loop waits for a
discovery that a callback has interrupted, either `reset` or a lost connection stands in for the
missing `ready`. `WatermarkInv` (`OneMotion`, `NoReportTwice`): whatever was accepted is behind the
watermark of this process, whatever moved a shade behind the journal's too, and the journal is
not ahead of the process while it can be written.

**PublicationsProofs.** `TypeInv` has the discipline of the two locks (`NobodyWaitsInACircle`).
`OutInv`: an identity belongs to one call or one pending entry, and its message is out
(`PendingOutstanding`). `CacheInv` (`CacheTrue`) accounts for every message out: each identity is
out once (`QueueInv`), is about what its entry or its call says (`MatchInv`), the broker retains
the last that landed (`BrokerInv`), a call from before an invalidation finds nothing cached or
pending (`StaleInv`), and once one retained message is accounted for, so are those after it
(`AccountInv`), until nothing is out and the cache is what the broker has (`PromiseInv`, `SentInv`).

`EarlyHasRoom` was found by the proof. An acknowledgement that comes before its `publish()` has
returned is kept in `_early_acks` only if there are fewer than 256 (`service.py:219`). If it is
dropped, the entry recorded afterwards waits for an acknowledgement that never comes, and
with `EarlyLimit = 1` TLC shows the broker and the cache part. In the code this takes 256 other
acknowledgements, of receipts, while one call is inside `client.publish()`; the runs leave the
code's limit.

**MessageIdsProofs.** `IdsTypeCorrect`, `HighWaterIsDurable`, `IdsStrictlyIncrease` from `IdsInv`:
only the lock's holder is under way (`Alone`), file and disk cover all that was issued (`Kept`),
an identity drawn is above it (`Fresh`) and is in one place more after each step (`Placed`). The
last theorem is the refinement of `UniqueIds`.

**JournalProofs.** `JournalImplementsSnapshot`: every step of `Journal` is a step of `Snapshot` or
none. The invariant it needs says that a file is named only after it was synced, so that nothing
torn is ever possible, and that what is read is one of what is possible.

**RequestsProofs.** `RequestIdsIncrease`: each step of `Requests` is one of `MessageIds` or leaves
its variables alone, so `IdsInv` and every theorem of `MessageIdsProofs` carry over.
`AnswersAreOwn` rests on `IdentityInv`: whatever request was given an identity (`Given`) has it
alone (`Paired`), because a new identity is above all issued, and there were no more requests than
identities (`Counted`), so that their numbers fit a snapshot. `SentStaysOnRecord` rests on
`RecordInv`, which follows a movement from the ledger to the file: while it is being recorded it
is in the ledger and in what is written, and when it may leave it is in all that a power loss can
leave and nothing is being written (`Committing`); what left stays there until it is forgotten
(`OnRecord`): an export lacks only what was evicted before it, and a process whose ledger is empty
because it could not read the journal writes no journal.
`RequestsJournalAtomic` is the refinement of `Snapshot` in this composition.

**MainLoopProofs.** `StopIsNext`: `Overtaking` says that requests are counted only while a STOP
waits, and that a request past its look at the queue, other than a STOP, has overtaken none yet.
`Cancelled` is what makes it inductive. `LoopTypeCorrect` adds that the shades still to be polled
are always an end of the order.

Every invariant and action property the passing runs check is proved, and every refinement. What
stays with TLC is liveness: `StopIsServed` (MCServed), `FinallyRetained` (MCRetained),
`PollsNotStarved` and `MovesNotStarved` (MCLoop). They rest on fairness, hence on ENABLED, which
the prover cannot reason about here.

## Not modelled

Signatures, parsing, encryption and configuration (pure functions over strings), sockets and
packet sizes, the legacy `Commands` queue, which nothing calls, and the owner's publisher, one
sequential process without retry: what it can do to the service, a message late, twice or
never, is what the network thread of `CommandQueue` and `Dispatch` does. Of the service: several
shades at once in `Sources`, the offline messages of a shutdown, temporary files left by a
crash, and a journal that somebody removes while the service is down, which the next process takes
for a first start (`service.py` 39-40). An entry can be evicted while its answer is awaited, once
a withdrawal has made it uncertain; the model has this, the runs' ledgers are too large to meet
it, and the theorems hold for any size. Races below a step (iterating a dictionary another thread
changes) are listed as hazards without a property.

## Plan

1. The core, done: `CommandQueue`, then `MessageIds`, `Publications`, `Sources`, and `Dispatch`,
   which composes the queue with the threads; type correctness, at-most-once dispatch and the
   identities proved.
2. The extension, done: `Requests` with `Journal` and `Snapshot`, `MainLoop`, and `Custody`,
   which `Dispatch` implements.
3. Proofs, done: every safety property of the passing runs and every refinement. Left: several
   shades in `Sources`, with its theorems; and what holds of the cache when an early
   acknowledgement is dropped.
