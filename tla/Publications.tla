----------------------------- MODULE Publications -----------------------------
(***************************************************************************)
(* The deduplicating publisher of src/src/dooya_openhab/service.py         *)
(* (publish, on_publish, _invalidate_publications) between the threads     *)
(* that call it and the MQTT client's network thread.                      *)
(*                                                                         *)
(* A call of publish holds the service's _publish_lock twice, around the   *)
(* client's publish(), which takes the client's outbound mutex.  The       *)
(* network thread holds that mutex when it calls on_publish, which takes   *)
(* _publish_lock.  A step stands for what a thread does under a lock it    *)
(* takes and releases, so that a lock is held between steps only where the *)
(* code takes the other one with it.                                       *)
(*                                                                         *)
(* One retained topic is modelled: entries of different topics meet only   *)
(* in the tables' limits.  What callers publish there is cur, the present  *)
(* state.  The network thread publishes too (receipts, events), but never  *)
(* retained.  The oldest entry that publish() drops from a table of more   *)
(* than 256 is left out: an entry lasts no longer than its message is out  *)
(* (PendingIsOutstanding), and the client keeps at most 256.               *)
(***************************************************************************)
EXTENDS Integers, Sequences, FiniteSets

CONSTANTS
  Workers,        \* threads that publish retained state
  Network,        \* the client's network thread
  Unretained,     \* callers that publish to topics that are not retained
  Payloads,
  NoPayload,
  Will,           \* the payload of the topic's last will, NoPayload if it has none
  Mids,           \* message identities of the client
  NoMid,
  Free,           \* a lock nobody holds
  StartingLimit,  \* 64
  EarlyLimit,     \* 256
  QueueLimit,     \* messages the client keeps unacknowledged
  MaxGeneration,  \* bound on invalidations
  MaxRefusals     \* bound on negative acknowledgements

Callers == Workers \cup {Network}

ASSUME PublicationsAssumption ==
  /\ Network \notin Workers /\ Free \notin Callers /\ Unretained \subseteq Callers
  /\ NoPayload \notin Payloads /\ Will \in Payloads \cup {NoPayload}
  /\ NoMid \notin Mids
  /\ StartingLimit \in Nat \ {0} /\ QueueLimit \in Nat \ {0}
  /\ EarlyLimit \in Nat
  /\ MaxGeneration \in Nat /\ MaxRefusals \in Nat

VARIABLES
  cur,           \* what a caller of publish would publish now
  connected, reset,
  generation,    \* _publication_generation
  desired, sent, \* _desired, sent
  pending,       \* _pending: message identity -> [payload, old]
  starting,      \* _starting: caller -> its entry
  early,         \* _early_acks: message identity -> [generation, failure]
  publish_lock, out_mutex,
  pc, call,      \* per caller: where it is, and its call
  net,           \* what the network thread is doing, beside its own calls
  up, out, taken, broker, refusals   \* the client's queue and the broker

cacheVars   == <<generation, desired, sent, pending, starting, early>>
callVars    == <<pc, call>>
clientVars  == <<up, out, taken, broker, refusals>>
vars == <<cur, connected, reset, cacheVars, publish_lock, out_mutex, callVars,
          net, clientVars>>

NoPending == [payload |-> NoPayload, old |-> FALSE]
NoStart   == [payload |-> NoPayload, retain |-> FALSE]
NoAck     == [generation |-> -1, failure |-> FALSE]
NoCall    == [payload |-> NoPayload, retain |-> FALSE, generation |-> 0,
              mid |-> NoMid, result |-> "none"]

Started(s) == {c \in Callers : s[c] # NoStart}
NoEarly == [m \in Mids |-> NoAck]

\* Early acknowledgements matter only while some call is under way.
EarlyAfter(s, acks) == IF Started(s) = {} THEN NoEarly ELSE acks

Unlocked(t) == publish_lock \in {Free, t}      \* an RLock

(***************************************************************************)
(* publish                                                                 *)
(***************************************************************************)
Begin(c, retain) ==
  /\ pc[c] = "idle" /\ connected
  /\ c \in IF retain THEN Workers ELSE Unretained
  /\ c = Network => net = "idle"
  /\ call' = [call EXCEPT ![c] = [NoCall EXCEPT !.payload = cur, !.retain = retain]]
  /\ pc' = [pc EXCEPT ![c] = "reserve"]
  /\ UNCHANGED <<cur, connected, reset, cacheVars, publish_lock, out_mutex, net, clientVars>>

\* The payload is retained already, or on its way for less than five seconds.
Covered(c) ==
  LET p == call[c].payload IN
  /\ call[c].retain
  /\ \/ sent = p
     \/ \E m \in Mids : pending[m].payload = p /\ ~pending[m].old
     \/ \E k \in Callers : starting[k].payload = p /\ starting[k].retain

\* Slip: the lock is kept across the client's publish().
HeldAfterReserve(c) == c

HolderAfterReserve(c) == Free

Reserve(c) ==
  /\ pc[c] = "reserve" /\ Unlocked(c)
  /\ desired' = IF call[c].retain THEN call[c].payload ELSE desired
  /\ \/ /\ Covered(c) \/ Cardinality(Started(starting)) >= StartingLimit
        /\ pc' = [pc EXCEPT ![c] = "idle"] /\ call' = [call EXCEPT ![c] = NoCall]
        /\ publish_lock' = Free
        /\ UNCHANGED starting
     \/ /\ ~Covered(c) /\ Cardinality(Started(starting)) < StartingLimit
        /\ starting' = [starting EXCEPT ![c] = [payload |-> call[c].payload,
                                                retain |-> call[c].retain]]
        /\ call' = [call EXCEPT ![c].generation = generation]
        /\ pc' = [pc EXCEPT ![c] = "send"]
        /\ publish_lock' = HolderAfterReserve(c)
  /\ UNCHANGED <<cur, connected, reset, generation, sent, pending, early, out_mutex, net,
                 clientVars>>

Unused(m) ==
  /\ \A k \in 1..Len(out) : out[k].mid # m
  /\ \A c \in Callers : call[c].mid # m
  /\ pending[m] = NoPending /\ early[m] = NoAck

\* The client's publish(): it may raise, refuse a message because its queue is
\* full, or queue it; a message queued while the link is down reports an error.
Send(c) ==
  /\ pc[c] = "send" /\ out_mutex = Free
  /\ pc' = [pc EXCEPT ![c] = "record"]
  /\ \/ call' = [call EXCEPT ![c].result = "raised"] /\ UNCHANGED clientVars
     \/ /\ Len(out) >= QueueLimit
        /\ call' = [call EXCEPT ![c].result = "error"] /\ UNCHANGED clientVars
     \/ /\ Len(out) < QueueLimit
        /\ \E m \in Mids :
             /\ Unused(m)
             /\ out' = Append(out, [mid |-> m, payload |-> call[c].payload,
                                    retain |-> call[c].retain, failure |-> FALSE])
             /\ call' = [call EXCEPT ![c].mid = m,
                                     ![c].result = IF up THEN "success" ELSE "error"]
        /\ UNCHANGED <<up, taken, broker, refusals>>
  /\ UNCHANGED <<cur, connected, reset, cacheVars, publish_lock, out_mutex, net>>

\* Slip: an acknowledgement that came first is forgotten.
EarlyIgnored(c) == NoAck

\* The acknowledgement that came before publish() returned.
Early(c) == IF call[c].mid \in Mids THEN early[call[c].mid] ELSE NoAck

\* The publication belongs to the present connection and may be recorded.
Records(c) ==
  call[c].retain /\ call[c].result = "success" /\ call[c].generation = generation

\* An acknowledged payload is cached, unless another one was asked for since.
Cached(p) == IF desired = p THEN p ELSE NoPayload

\* Slip: a call whose publish() raised leaves its reservation.
EndedUnlessRaised(c) ==
  IF call[c].result = "raised" THEN starting ELSE [starting EXCEPT ![c] = NoStart]

Ended(c) == [starting EXCEPT ![c] = NoStart]

Record(c) ==
  LET mid == call[c].mid
      ack == Early(c)
      left == Ended(c)
  IN  /\ pc[c] = "record" /\ Unlocked(c)
      /\ starting' = left
      /\ early' = EarlyAfter(left, [m \in Mids |-> IF m = mid THEN NoAck ELSE early[m]])
      /\ sent' = IF /\ Records(c) /\ ack # NoAck
                    /\ ack.generation = call[c].generation /\ ~ack.failure
                 THEN Cached(call[c].payload) ELSE sent
      /\ pending' = IF Records(c) /\ ack = NoAck
                    THEN [pending EXCEPT ![mid] = [payload |-> call[c].payload, old |-> FALSE]]
                    ELSE pending
      /\ pc' = [pc EXCEPT ![c] = "idle"] /\ call' = [call EXCEPT ![c] = NoCall]
      /\ publish_lock' = Free
      /\ UNCHANGED <<cur, connected, reset, generation, desired, out_mutex, net, clientVars>>

(***************************************************************************)
(* The network thread: acknowledgements                                    *)
(***************************************************************************)
\* The client takes its mutex when an acknowledgement arrives ...
TakeAck ==
  /\ net = "idle" /\ pc[Network] = "idle"
  /\ taken > 0 /\ out_mutex = Free
  /\ out_mutex' = Network /\ net' = "ack"
  /\ UNCHANGED <<cur, connected, reset, cacheVars, publish_lock, callVars, clientVars>>

\* ... and calls on_publish with it held.
OnPublish ==
  LET msg == Head(out) IN
  /\ net = "ack" /\ Unlocked(Network)
  /\ IF pending[msg.mid] # NoPending
     THEN /\ pending' = [pending EXCEPT ![msg.mid] = NoPending]
          /\ sent' = IF msg.failure THEN sent ELSE Cached(pending[msg.mid].payload)
          /\ UNCHANGED early
     ELSE /\ early' = IF /\ Started(starting) # {}
                         /\ Cardinality({m \in Mids : early[m] # NoAck}) < EarlyLimit
                      THEN [early EXCEPT ![msg.mid] = [generation |-> generation,
                                                       failure |-> msg.failure]]
                      ELSE early
          /\ UNCHANGED <<pending, sent>>
  /\ out' = Tail(out) /\ taken' = IF taken > 0 THEN taken - 1 ELSE 0
  /\ publish_lock' = Free /\ out_mutex' = Free /\ net' = "idle"
  /\ UNCHANGED <<cur, connected, reset, generation, desired, starting, callVars, up,
                 broker, refusals>>

(***************************************************************************)
(* Connections                                                             *)
(***************************************************************************)
\* Slip: what was acknowledged before is believed on the new connection.
ForgetPendingOnly ==
  /\ pending' = [m \in Mids |-> NoPending]
  /\ starting' = [c \in Callers |-> NoStart] /\ early' = NoEarly
  /\ UNCHANGED <<sent, desired>>

Forget ==
  /\ sent' = NoPayload /\ desired' = NoPayload
  /\ pending' = [m \in Mids |-> NoPending]
  /\ starting' = [c \in Callers |-> NoStart] /\ early' = NoEarly

\* _invalidate_publications, called by thread t
Invalidate(t) ==
  /\ Unlocked(t)
  /\ generation' = generation + 1
  /\ Forget
  /\ UNCHANGED <<cur, connected, publish_lock, out_mutex, callVars, clientVars>>

OnDisconnect ==
  /\ net = "idle" /\ pc[Network] = "idle" /\ ~up /\ connected
  /\ connected' = FALSE /\ net' = "callback"
  /\ UNCHANGED <<cur, reset, cacheVars, publish_lock, out_mutex, callVars, clientVars>>

OnConnect ==
  /\ net = "idle" /\ pc[Network] = "idle" /\ ~up /\ ~connected
  /\ up' = TRUE /\ connected' = TRUE /\ reset' = TRUE /\ net' = "callback"
  /\ UNCHANGED <<cur, cacheVars, publish_lock, out_mutex, callVars, out, taken, broker, refusals>>

CallbackInvalidates ==
  net = "callback" /\ net' = "idle" /\ Invalidate(Network) /\ UNCHANGED reset

\* The main loop sees reset at the top of its next round.
LoopInvalidates(c) ==
  c \in Workers /\ pc[c] = "idle" /\ reset /\ reset' = FALSE /\ Invalidate(c) /\ UNCHANGED net

(***************************************************************************)
(* The environment: the client keeps unacknowledged messages in order and  *)
(* sends them again, first, on a new connection; the broker takes them in  *)
(* order and may refuse one; an abrupt loss of the link publishes the will *)
(* before a new connection is made.                                        *)
(***************************************************************************)
Take ==
  /\ up /\ taken < Len(out)
  /\ taken' = taken + 1
  /\ LET msg == out[taken + 1] IN
     \/ broker' = (IF msg.retain THEN msg.payload ELSE broker) /\ UNCHANGED <<out, refusals>>
     \/ /\ refusals < MaxRefusals /\ refusals' = refusals + 1
        /\ out' = [out EXCEPT ![taken + 1].failure = TRUE]
        /\ UNCHANGED broker
  /\ UNCHANGED <<cur, connected, reset, cacheVars, publish_lock, out_mutex, callVars, net, up>>

LinkLoss ==
  /\ up /\ net = "idle"
  /\ generation <= MaxGeneration - 5   \* a reconnection stays possible
  /\ up' = FALSE /\ taken' = 0
  /\ out' = [k \in 1..Len(out) |-> [out[k] EXCEPT !.failure = FALSE]]
  /\ broker' \in {broker} \cup ({Will} \ {NoPayload})
  /\ UNCHANGED <<cur, connected, reset, cacheVars, publish_lock, out_mutex, callVars, net, refusals>>

FiveSeconds ==
  /\ \E m \in Mids : pending[m] # NoPending /\ ~pending[m].old
  /\ pending' = [m \in Mids |-> IF pending[m] = NoPending THEN NoPending
                                ELSE [pending[m] EXCEPT !.old = TRUE]]
  /\ UNCHANGED <<cur, connected, reset, generation, desired, sent, starting, early,
                 publish_lock, out_mutex, callVars, net, clientVars>>

Change(p) ==
  /\ p # cur /\ cur' = p
  /\ UNCHANGED <<connected, reset, cacheVars, publish_lock, out_mutex, callVars, net, clientVars>>

(***************************************************************************)
Init ==
  /\ cur \in Payloads
  /\ connected = FALSE /\ reset = FALSE /\ generation = 0
  /\ desired = NoPayload /\ sent = NoPayload
  /\ pending = [m \in Mids |-> NoPending]
  /\ starting = [c \in Callers |-> NoStart] /\ early = NoEarly
  /\ publish_lock = Free /\ out_mutex = Free
  /\ pc = [c \in Callers |-> "idle"] /\ call = [c \in Callers |-> NoCall]
  /\ net = "idle"
  /\ up = FALSE /\ out = <<>> /\ taken = 0 /\ broker = NoPayload /\ refusals = 0

Proceed(c) == Reserve(c) \/ Send(c) \/ Record(c)
Acknowledge == TakeAck \/ OnPublish
Connection == OnDisconnect \/ OnConnect \/ CallbackInvalidates

Next ==
  \/ \E c \in Callers : Proceed(c) \/ LoopInvalidates(c)
  \/ \E c \in Callers, retain \in BOOLEAN : Begin(c, retain)
  \/ Acknowledge \/ Connection \/ Take \/ LinkLoss \/ FiveSeconds
  \/ \E p \in Payloads : Change(p)

Spec == Init /\ [][Next]_vars

\* The main loop publishes every state in every round; the network thread, the
\* broker and time go on.  That the client's publish() neither raises nor finds
\* its queue full for ever is part of the environment's fairness.
Sends(c) == Send(c) /\ call'[c].result = "success"

Fairness ==
  /\ \A c \in Callers : SF_vars(Proceed(c)) /\ SF_vars(Sends(c)) /\ WF_vars(LoopInvalidates(c))
  /\ \A c \in Workers : SF_vars(Begin(c, TRUE))
  /\ SF_vars(Acknowledge) /\ WF_vars(Connection) /\ WF_vars(Take) /\ WF_vars(FiveSeconds)

LiveSpec == Spec /\ Fairness

(***************************************************************************)
(* Properties                                                              *)
(***************************************************************************)
MessageType == [mid : Mids, payload : Payloads, retain : BOOLEAN, failure : BOOLEAN]

\* Every variable keeps its type, and a reservation belongs to a call under way: none
\* is left to use up the limit of reservations, after which nothing is published.
TypeOK ==
  /\ cur \in Payloads /\ connected \in BOOLEAN /\ reset \in BOOLEAN
  /\ generation \in Nat
  /\ desired \in Payloads \cup {NoPayload} /\ sent \in Payloads \cup {NoPayload}
  /\ pending \in [Mids -> [payload : Payloads \cup {NoPayload}, old : BOOLEAN]]
  /\ starting \in [Callers -> [payload : Payloads \cup {NoPayload}, retain : BOOLEAN]]
  /\ \A c \in Started(starting) : pc[c] \in {"send", "record"}
  /\ DOMAIN early = Mids
  /\ publish_lock \in Callers \cup {Free} /\ out_mutex \in {Free, Network}
  /\ pc \in [Callers -> {"idle", "reserve", "send", "record"}]
  /\ net \in {"idle", "callback", "ack"}
  /\ up \in BOOLEAN /\ out \in Seq(MessageType) /\ taken \in 0..Len(out)
  /\ broker \in Payloads \cup {NoPayload} /\ refusals \in 0..MaxRefusals

\* No circular wait: while the network thread holds the client's mutex and waits
\* for the publish lock, the lock's holder is not itself waiting for that mutex.
NoCircularWait ==
  net = "ack" => \A c \in Callers : publish_lock = c => pc[c] # "send"

\* A publication is pending only while its acknowledgement is outstanding, also if
\* that came before publish() returned: so the table stays within the client's queue
\* and no payload is held back by an entry nobody will remove.
PendingIsOutstanding ==
  \A m \in Mids : pending[m] # NoPending => \E k \in 1..Len(out) : out[k].mid = m

\* Nothing is on its way.
Settled ==
  /\ up /\ connected /\ net = "idle" /\ out = <<>>
  /\ \A c \in Callers : pc[c] # "record"

\* When nothing is on its way, what the cache calls sent is what the broker retains:
\* also after a will, a refusal, an early acknowledgement or one of the connection
\* before.  The comment in on_publish extends this to concurrent callers: "Concurrent
\* callers can reach Paho in a different order.  An older retained payload must not
\* hide the next repair."
CacheIsTrue == Settled /\ sent # NoPayload => broker = sent

\* Once the state stays the same, the broker comes to retain it for good: neither a
\* late acknowledgement, a refusal, a reconnection nor the will leaves another payload
\* behind a cache that believes the right one was sent.
FinallyRetained ==
  \A p \in Payloads : <>[](cur = p) => <>[](up => broker = p)
=============================================================================
