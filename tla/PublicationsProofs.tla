-------------------------- MODULE PublicationsProofs --------------------------
(***************************************************************************)
(* What the deduplicating publisher keeps, for every set of callers,       *)
(* payloads and message identities, every length of the client's queue,    *)
(* every number of refusals and of connections.                            *)
(*                                                                         *)
(* Types (TypeInv) give that nobody waits with the publish lock.  That     *)
(* pending entries and calls under way own messages that are still out     *)
(* (OutInv) needs room in the table of early acknowledgements: a full one  *)
(* drops the acknowledgement of a call that has not returned.  For a       *)
(* single publisher of retained state, CacheInv then relates the cache,    *)
(* the client's queue and the broker.                                      *)
(***************************************************************************)
EXTENDS Publications, TLAPS

CallType ==
  [payload : Payloads \cup {NoPayload}, retain : BOOLEAN, generation : Nat,
   mid : Mids \cup {NoMid}, result : {"none", "raised", "error", "success"}]

AckType == [generation : Nat \cup {-1}, failure : BOOLEAN]

\* A call's fields are those of the phase it is in.
CallOK(c) ==
  /\ pc[c] # "idle" => call[c].payload \in Payloads
  /\ call[c].generation <= generation
  /\ call[c].mid # NoMid => pc[c] = "record"
  /\ call[c].result = "success" => call[c].mid # NoMid
  /\ call[c].retain => c \in Workers

TypeInv ==
  /\ TypeOK
  /\ publish_lock = Free
  /\ early \in [Mids -> AckType]
  /\ call \in [Callers -> CallType]
  /\ \A c \in Callers : CallOK(c)
  /\ net = "ack" => taken > 0

(***************************************************************************)
(* Messages that are out                                                   *)
(***************************************************************************)
\* The table of early acknowledgements is not full.
EarlyHasRoom == Cardinality({m \in Mids : early[m] # NoAck}) < EarlyLimit

Out(m) == \E k \in 1..Len(out) : out[k].mid = m

\* The publication of c will be recorded as pending when publish() has returned.
Awaits(c) ==
  /\ pc[c] = "record" /\ Records(c) /\ early[call[c].mid] = NoAck

\* The identity of a call is its own: no entry and no other call has it.
OwnMid(c) ==
  call[c].mid \in Mids =>
    /\ pending[call[c].mid] = NoPending
    /\ \A d \in Callers : call[d].mid = call[c].mid => d = c

OutInv ==
  /\ PendingIsOutstanding
  /\ \A c \in Callers :
       /\ OwnMid(c)
       /\ Awaits(c) => Out(call[c].mid)
       /\ pc[c] \in {"send", "record"} /\ call[c].generation = generation
            => c \in Started(starting)

(***************************************************************************)
(* The cache and the broker, with one publisher of retained state          *)
(***************************************************************************)
\* Message k is one the broker retained on this connection.
Landed(k) == k <= taken /\ out[k].retain /\ ~out[k].failure

\* The connection's state has been forgotten, and the link is there.
Fresh == up /\ net # "callback"

\* Message k is pending, or will be once its publish() has returned.
Accounted(k) ==
  \/ pending[out[k].mid] # NoPending
  \/ \E c \in Callers : pc[c] = "record" /\ Records(c) /\ call[c].mid = out[k].mid

\* The acknowledgement came first, and caller c will cache its payload.
Promised(c) ==
  /\ pc[c] = "record" /\ Records(c)
  /\ early[call[c].mid].generation = generation /\ ~early[call[c].mid].failure

\* Each identity is out once, and has no early acknowledgement while it is; only what
\* the broker has taken can have been refused.
QueueInv ==
  /\ \A j, k \in 1..Len(out) : out[j].mid = out[k].mid => j = k
  /\ \A k \in 1..Len(out) : early[out[k].mid] = NoAck /\ (k > taken => ~out[k].failure)

\* A message is the one its pending entry or its call is about; a call's message is
\* the last retained one.
MatchInv ==
  \A k \in 1..Len(out) :
    /\ pending[out[k].mid] # NoPending =>
         out[k].retain /\ out[k].payload = pending[out[k].mid].payload
    /\ \A c \in Callers : call[c].mid = out[k].mid =>
         /\ out[k].retain = call[c].retain /\ out[k].payload = call[c].payload
         /\ call[c].retain => \A j \in k+1..Len(out) : ~out[j].retain

\* The broker retains the last message that landed.
BrokerInv ==
  \A k \in 1..Len(out) :
    Landed(k) /\ (\A j \in k+1..Len(out) : ~Landed(j)) => broker = out[k].payload

\* A call of an earlier generation is the first since: nothing is cached or pending.
StaleInv ==
  \A c \in Workers :
    pc[c] \in {"send", "record"} /\ call[c].generation # generation =>
      sent = NoPayload /\ \A m \in Mids : pending[m] = NoPending

\* Once a message is accounted for, or something is cached, so are the retained
\* messages after it.
AccountInv ==
  Fresh => \A k \in 1..Len(out) :
    out[k].retain /\ (sent # NoPayload \/ \E j \in 1..k : out[j].retain /\ Accounted(j))
      => Accounted(k)

PromiseInv ==
  Fresh => \A c \in Callers : Promised(c) =>
    broker = call[c].payload /\ \A k \in 1..Len(out) : ~out[k].retain

SentInv ==
  Fresh /\ sent # NoPayload /\ (\A k \in 1..Len(out) : ~Landed(k)) =>
    broker = sent \/ \E c \in Callers : Promised(c)

CacheInv ==
  /\ QueueInv /\ MatchInv /\ BrokerInv /\ StaleInv
  /\ AccountInv /\ PromiseInv /\ SentInv

(***************************************************************************)
(* What the steps do to the client's queue                                 *)
(***************************************************************************)
LEMMA TailOut ==
  ASSUME NEW s \in Seq(MessageType), s # <<>>
  PROVE  /\ Head(s) = s[1] /\ Head(s) \in MessageType
         /\ Tail(s) \in Seq(MessageType) /\ Len(s) \in Nat \ {0}
         /\ Len(Tail(s)) = Len(s) - 1
         /\ \A k \in 1..Len(s) - 1 : Tail(s)[k] = s[k + 1] /\ k + 1 \in 1..Len(s)
OBVIOUS

LEMMA AppendOut ==
  ASSUME NEW s \in Seq(MessageType), NEW m \in MessageType
  PROVE  /\ Append(s, m) \in Seq(MessageType) /\ Len(s) \in Nat
         /\ Len(Append(s, m)) = Len(s) + 1 /\ Append(s, m)[Len(s) + 1] = m
         /\ \A k \in 1..Len(s) : Append(s, m)[k] = s[k]
OBVIOUS

LEMMA MarkedMessage ==
  ASSUME NEW s \in Seq(MessageType), NEW k \in 1..Len(s), NEW b \in BOOLEAN
  PROVE  [s[k] EXCEPT !.failure = b] \in MessageType
<1>1. s[k] \in MessageType
  OBVIOUS
<1> QED BY <1>1 DEF MessageType

\* A refusal marks a message; a lost link removes the marks.
LEMMA RefusedOut ==
  ASSUME NEW s \in Seq(MessageType), NEW n \in 1..Len(s)
  PROVE  LET r == [s EXCEPT ![n].failure = TRUE] IN
         /\ r \in Seq(MessageType) /\ Len(r) = Len(s)
         /\ \A k \in 1..Len(s) : r[k] = IF k = n THEN [s[k] EXCEPT !.failure = TRUE] ELSE s[k]
<1> DEFINE marked == [s[n] EXCEPT !.failure = TRUE]
           r == [s EXCEPT ![n].failure = TRUE]
<1>1. marked \in MessageType
  BY MarkedMessage
<1>2. r = [s EXCEPT ![n] = marked]
  OBVIOUS
<1>3. marked = [s[n] EXCEPT !.failure = TRUE]
  OBVIOUS
<1> HIDE DEF marked, r
<1>4. /\ r \in Seq(MessageType) /\ Len(r) = Len(s)
      /\ \A k \in 1..Len(s) : r[k] = IF k = n THEN marked ELSE s[k]
  BY <1>1, <1>2
<1>5. \A k \in 1..Len(s) : r[k] = IF k = n THEN [s[k] EXCEPT !.failure = TRUE] ELSE s[k]
  BY <1>3, <1>4
<1> QED BY <1>4, <1>5 DEF r

LEMMA UnmarkedOut ==
  ASSUME NEW s \in Seq(MessageType)
  PROVE  LET u == [k \in 1..Len(s) |-> [s[k] EXCEPT !.failure = FALSE]] IN
         /\ u \in Seq(MessageType) /\ Len(u) = Len(s)
         /\ \A k \in 1..Len(s) : u[k] = [s[k] EXCEPT !.failure = FALSE]
<1> DEFINE u == [k \in 1..Len(s) |-> [s[k] EXCEPT !.failure = FALSE]]
<1>1. \A k \in 1..Len(s) : u[k] \in MessageType
  BY MarkedMessage
<1>2. u \in Seq(MessageType) /\ Len(u) = Len(s)
  BY <1>1
<1> QED BY <1>2

LEMMA OutIsMessage ==
  ASSUME NEW s \in Seq(MessageType), NEW k \in 1..Len(s)
  PROVE  /\ s[k] \in MessageType /\ s[k].mid \in Mids /\ s[k].payload \in Payloads
         /\ s[k].retain \in BOOLEAN /\ s[k].failure \in BOOLEAN
<1>1. s[k] \in MessageType
  OBVIOUS
<1> QED BY <1>1 DEF MessageType

(***************************************************************************)
(* Types                                                                   *)
(***************************************************************************)
LEMMA ForgetTypes ==
  ASSUME TypeInv, Forget
  PROVE  /\ desired' = NoPayload /\ sent' = NoPayload
         /\ pending' \in [Mids -> [payload : Payloads \cup {NoPayload}, old : BOOLEAN]]
         /\ starting' \in [Callers -> [payload : Payloads \cup {NoPayload}, retain : BOOLEAN]]
         /\ Started(starting)' = {}
         /\ early' \in [Mids -> AckType] /\ DOMAIN early' = Mids
BY DEF Forget, NoPending, NoStart, NoAck, NoEarly, AckType, Started

LEMMA TypeInit == Init => TypeInv
<1> SUFFICES ASSUME Init PROVE TypeInv
  OBVIOUS
<1> USE PublicationsAssumption
<1>1. out \in Seq(MessageType) /\ Len(out) = 0
  BY DEF Init
<1>2. NoCall \in CallType
  BY DEF NoCall, CallType
<1>3. NoAck \in AckType
  BY DEF NoAck, AckType
<1>4. TypeOK
  <2>1. /\ pending \in [Mids -> [payload : Payloads \cup {NoPayload}, old : BOOLEAN]]
        /\ starting \in [Callers -> [payload : Payloads \cup {NoPayload}, retain : BOOLEAN]]
        /\ DOMAIN early = Mids /\ pc \in [Callers -> {"idle", "reserve", "send", "record"}]
    BY DEF Init, NoEarly, NoPending, NoStart
  <2>2. Started(starting) = {}
    BY DEF Init, Started
  <2>3. taken \in 0..Len(out) /\ refusals \in 0..MaxRefusals
    BY <1>1 DEF Init
  <2> QED BY <1>1, <2>1, <2>2, <2>3 DEF Init, TypeOK
<1>5. \A c \in Callers : CallOK(c)
  BY DEF Init, CallOK, NoCall
<1> QED BY <1>2, <1>3, <1>4, <1>5 DEF Init, TypeInv, NoEarly

\* What a caller that keeps its phase and its call needs.
LEMMA CallKept ==
  ASSUME TypeInv, NEW c \in Callers, pc'[c] = pc[c], call'[c] = call[c],
         generation' \in Nat, generation' >= generation
  PROVE  CallOK(c)'
<1>1. CallOK(c) /\ generation \in Nat /\ call[c].generation \in Nat
  BY DEF TypeInv, TypeOK, CallType
<1> QED BY <1>1 DEF CallOK

LEMMA BeginTypes ==
  ASSUME TypeInv, NEW c \in Callers, NEW retain \in BOOLEAN, Begin(c, retain)
  PROVE  TypeInv'
<1> USE PublicationsAssumption
<1> DEFINE new == [NoCall EXCEPT !.payload = cur, !.retain = retain]
<1>1. /\ call' = [call EXCEPT ![c] = new] /\ pc' = [pc EXCEPT ![c] = "reserve"]
      /\ pc[c] = "idle" /\ (retain => c \in Workers)
  BY DEF Begin
<1>2. new \in CallType /\ new.payload \in Payloads /\ new.generation = 0 /\ new.mid = NoMid
      /\ new.result = "none" /\ new.retain = retain
  BY DEF NoCall, CallType, TypeInv, TypeOK
<1> HIDE DEF new
<1>3. call' \in [Callers -> CallType] /\ call'[c] = new /\ pc'[c] = "reserve"
      /\ \A d \in Callers \ {c} : call'[d] = call[d] /\ pc'[d] = pc[d]
  BY <1>1, <1>2 DEF TypeInv, TypeOK
<1>4. TypeOK'
  <2>1. pc' \in [Callers -> {"idle", "reserve", "send", "record"}]
    BY <1>1 DEF TypeInv, TypeOK
  <2>2. \A d \in Started(starting)' : pc'[d] \in {"send", "record"}
    <3>1. Started(starting)' = Started(starting) /\ Started(starting) \subseteq Callers
      BY DEF Begin, cacheVars, Started
    <3>2. \A d \in Started(starting) : pc[d] \in {"send", "record"} /\ d # c
      BY <1>1 DEF TypeInv, TypeOK
    <3> QED BY <3>1, <3>2, <1>3
  <2> QED BY <2>1, <2>2 DEF Begin, cacheVars, clientVars, TypeInv, TypeOK
<1>5. \A d \in Callers : CallOK(d)'
  <2> TAKE d \in Callers
  <2>1. generation' = generation /\ generation \in Nat
    BY DEF Begin, cacheVars, TypeInv, TypeOK
  <2>2. CASE d = c
    BY <2>1, <2>2, <1>1, <1>2, <1>3 DEF CallOK
  <2>3. CASE d # c
    BY <2>1, <2>3, <1>3, CallKept
  <2> QED BY <2>2, <2>3
<1> QED BY <1>3, <1>4, <1>5 DEF Begin, cacheVars, clientVars, TypeInv

LEMMA ReserveTypes ==
  ASSUME TypeInv, NEW c \in Callers, Reserve(c)
  PROVE  TypeInv'
<1> USE PublicationsAssumption
<1>1. /\ pc[c] = "reserve" /\ CallOK(c) /\ call[c] \in CallType /\ call[c].payload \in Payloads
      /\ generation \in Nat /\ generation' = generation /\ call[c].mid = NoMid
      /\ call[c].result # "success"
  BY DEF Reserve, TypeInv, TypeOK, CallOK
<1>2. /\ pc' \in [Callers -> {"idle", "reserve", "send", "record"}]
      /\ call' \in [Callers -> CallType] /\ CallOK(c)'
      /\ \A d \in Callers \ {c} : call'[d] = call[d] /\ pc'[d] = pc[d]
      /\ starting' \in [Callers -> [payload : Payloads \cup {NoPayload}, retain : BOOLEAN]]
      /\ \A d \in Callers : starting'[d] # starting[d] => d = c /\ pc'[c] = "send"
      /\ publish_lock' = Free
  <2>1. CASE /\ pc' = [pc EXCEPT ![c] = "idle"] /\ call' = [call EXCEPT ![c] = NoCall]
             /\ publish_lock' = Free /\ starting' = starting
    <3>1. NoCall \in CallType /\ NoCall.mid = NoMid /\ NoCall.generation = 0
          /\ NoCall.result = "none" /\ ~NoCall.retain
      BY DEF NoCall, CallType
    <3> QED BY <1>1, <2>1, <3>1 DEF CallOK, TypeInv, TypeOK
  <2>2. CASE /\ starting' = [starting EXCEPT ![c] = [payload |-> call[c].payload,
                                                     retain |-> call[c].retain]]
             /\ call' = [call EXCEPT ![c].generation = generation]
             /\ pc' = [pc EXCEPT ![c] = "send"]
             /\ publish_lock' = HolderAfterReserve(c)
    <3>1. /\ call' = [call EXCEPT ![c] = [call[c] EXCEPT !.generation = generation]]
          /\ [call[c] EXCEPT !.generation = generation] \in CallType
      BY <1>1, <2>2 DEF CallType
    <3>2. call' \in [Callers -> CallType]
          /\ call'[c] = [call[c] EXCEPT !.generation = generation] /\ pc'[c] = "send"
          /\ \A d \in Callers \ {c} : call'[d] = call[d] /\ pc'[d] = pc[d]
      BY <2>2, <3>1 DEF TypeInv, TypeOK
    <3>3. CallOK(c)'
      <4>1. /\ call'[c].payload = call[c].payload /\ call'[c].generation = generation
            /\ call'[c].mid = call[c].mid /\ call'[c].result = call[c].result
            /\ call'[c].retain = call[c].retain
        BY <1>1, <3>2 DEF CallType
      <4> QED BY <1>1, <3>2, <4>1 DEF CallOK
    <3>4. [payload |-> call[c].payload, retain |-> call[c].retain]
            \in [payload : Payloads \cup {NoPayload}, retain : BOOLEAN]
      BY <1>1 DEF CallType
    <3>5. starting' \in [Callers -> [payload : Payloads \cup {NoPayload}, retain : BOOLEAN]]
          /\ \A d \in Callers : starting'[d] # starting[d] => d = c
      BY <2>2, <3>4 DEF TypeInv, TypeOK
    <3> QED BY <2>2, <3>2, <3>3, <3>5 DEF HolderAfterReserve, TypeInv, TypeOK
  <2> QED BY <2>1, <2>2 DEF Reserve
<1>3. \A d \in Started(starting)' : pc'[d] \in {"send", "record"}
  <2>1. \A d \in Started(starting) : pc[d] \in {"send", "record"} /\ d # c
    BY <1>1 DEF TypeInv, TypeOK
  <2> QED BY <1>2, <2>1 DEF Started
<1>4. desired' \in Payloads \cup {NoPayload}
  BY <1>1 DEF Reserve, TypeInv, TypeOK
<1>5. TypeOK'
  BY <1>2, <1>3, <1>4 DEF Reserve, clientVars, TypeInv, TypeOK
<1>6. \A d \in Callers : CallOK(d)'
  BY <1>1, <1>2, CallKept
<1> QED BY <1>2, <1>5, <1>6 DEF Reserve, clientVars, TypeInv

\* What publish() does to the queue: nothing, or one message more.
LEMMA SendQueue ==
  ASSUME TypeInv, NEW c \in Callers, Send(c)
  PROVE  /\ pc[c] = "send" /\ pc' = [pc EXCEPT ![c] = "record"]
         /\ \A d \in Callers \ {c} : call'[d] = call[d] /\ pc'[d] = pc[d]
         /\ call'[c].payload = call[c].payload /\ call'[c].retain = call[c].retain
         /\ call'[c].generation = call[c].generation
         /\ call' \in [Callers -> CallType] /\ taken' = taken
         /\ \/ out' = out /\ call'[c].mid = NoMid /\ call'[c].result \in {"raised", "error"}
            \/ \E m \in Mids :
                 /\ Unused(m) /\ call'[c].mid = m
                 /\ call'[c].result = IF up THEN "success" ELSE "error"
                 /\ out' = Append(out, [mid |-> m, payload |-> call[c].payload,
                                        retain |-> call[c].retain, failure |-> FALSE])
<1> USE PublicationsAssumption
<1>1. /\ call \in [Callers -> CallType] /\ call[c] \in CallType /\ call[c].mid = NoMid
      /\ pc[c] = "send"
  BY DEF Send, TypeInv, CallOK
<1>2. /\ pc' = [pc EXCEPT ![c] = "record"]
      /\ \A d \in Callers \ {c} : pc'[d] = pc[d]
  BY DEF Send, TypeInv, TypeOK
<1>3. ASSUME NEW r \in {"raised", "error"}, call' = [call EXCEPT ![c].result = r],
             UNCHANGED clientVars
      PROVE  /\ call' \in [Callers -> CallType] /\ taken' = taken
             /\ \A d \in Callers \ {c} : call'[d] = call[d]
             /\ call'[c].payload = call[c].payload /\ call'[c].retain = call[c].retain
             /\ call'[c].generation = call[c].generation
             /\ out' = out /\ call'[c].mid = NoMid /\ call'[c].result = r
  <2> DEFINE new == [call[c] EXCEPT !.result = r]
  <2>1. /\ new \in CallType /\ new.payload = call[c].payload /\ new.retain = call[c].retain
        /\ new.generation = call[c].generation /\ new.mid = NoMid /\ new.result = r
    BY <1>1 DEF CallType
  <2>2. call' = [call EXCEPT ![c] = new]
    BY <1>3
  <2> HIDE DEF new
  <2>3. call' \in [Callers -> CallType] /\ call'[c] = new
        /\ \A d \in Callers \ {c} : call'[d] = call[d]
    BY <1>1, <2>1, <2>2
  <2> QED BY <1>3, <2>1, <2>3 DEF clientVars
<1>4. ASSUME NEW m \in Mids, NEW r, r = IF up THEN "success" ELSE "error",
             call' = [call EXCEPT ![c].mid = m, ![c].result = r]
      PROVE  /\ call' \in [Callers -> CallType]
             /\ \A d \in Callers \ {c} : call'[d] = call[d]
             /\ call'[c].payload = call[c].payload /\ call'[c].retain = call[c].retain
             /\ call'[c].generation = call[c].generation
             /\ call'[c].mid = m /\ call'[c].result = r
  <2> DEFINE new == [call[c] EXCEPT !.mid = m, !.result = r]
  <2>1. /\ new \in CallType /\ new.payload = call[c].payload /\ new.retain = call[c].retain
        /\ new.generation = call[c].generation /\ new.mid = m /\ new.result = r
    <3>1. r \in {"none", "raised", "error", "success"}
      BY <1>4
    <3> QED BY <1>1, <3>1 DEF CallType
  <2>2. call' = [call EXCEPT ![c] = new]
    BY <1>1, <1>4
  <2> HIDE DEF new
  <2>3. call' \in [Callers -> CallType] /\ call'[c] = new
        /\ \A d \in Callers \ {c} : call'[d] = call[d]
    BY <1>1, <2>1, <2>2
  <2> QED BY <2>1, <2>3
<1>5. CASE call' = [call EXCEPT ![c].result = "raised"] /\ UNCHANGED clientVars
  BY <1>1, <1>2, <1>3, <1>5
<1>6. CASE call' = [call EXCEPT ![c].result = "error"] /\ UNCHANGED clientVars
  BY <1>1, <1>2, <1>3, <1>6
<1>7. ASSUME NEW m \in Mids, Unused(m), taken' = taken,
             call' = [call EXCEPT ![c].mid = m, ![c].result = IF up THEN "success" ELSE "error"],
             out' = Append(out, [mid |-> m, payload |-> call[c].payload,
                                 retain |-> call[c].retain, failure |-> FALSE])
      PROVE  /\ call' \in [Callers -> CallType]
             /\ \A d \in Callers \ {c} : call'[d] = call[d]
             /\ call'[c].payload = call[c].payload /\ call'[c].retain = call[c].retain
             /\ call'[c].generation = call[c].generation
             /\ call'[c].mid = m /\ call'[c].result = IF up THEN "success" ELSE "error"
  BY <1>4, <1>7
<1>8. \/ call' = [call EXCEPT ![c].result = "raised"] /\ UNCHANGED clientVars
      \/ call' = [call EXCEPT ![c].result = "error"] /\ UNCHANGED clientVars
      \/ \E m \in Mids :
           /\ Unused(m) /\ taken' = taken
           /\ call' = [call EXCEPT ![c].mid = m,
                                   ![c].result = IF up THEN "success" ELSE "error"]
           /\ out' = Append(out, [mid |-> m, payload |-> call[c].payload,
                                  retain |-> call[c].retain, failure |-> FALSE])
  BY DEF Send
<1> QED BY <1>1, <1>2, <1>5, <1>6, <1>7, <1>8

\* What a call inside client.publish() leaves alone.
LEMMA SendAside ==
  ASSUME TypeInv, NEW c \in Callers, Send(c)
  PROVE  /\ UNCHANGED <<generation, sent, pending, starting, early, taken, broker, up, net>>
         /\ pc[c] = "send" /\ pc'[c] = "record"
         /\ \A d \in Callers \ {c} : call'[d] = call[d] /\ pc'[d] = pc[d]
         /\ call'[c].payload = call[c].payload /\ call'[c].retain = call[c].retain
         /\ call'[c].generation = call[c].generation
<1>1. UNCHANGED <<generation, sent, pending, starting, early, net>>
  BY DEF Send, cacheVars
<1>2. UNCHANGED <<taken, broker, up>>
  BY DEF Send, clientVars
<1>3. /\ pc[c] = "send" /\ pc' = [pc EXCEPT ![c] = "record"]
      /\ \A d \in Callers \ {c} : call'[d] = call[d] /\ pc'[d] = pc[d]
      /\ call'[c].payload = call[c].payload /\ call'[c].retain = call[c].retain
      /\ call'[c].generation = call[c].generation
  BY SendQueue
<1>4. pc \in [Callers -> {"idle", "reserve", "send", "record"}]
  BY DEF TypeInv, TypeOK
<1>5. pc'[c] = "record"
  BY <1>3, <1>4
<1> QED BY <1>1, <1>2, <1>3, <1>5

LEMMA SendTypes ==
  ASSUME TypeInv, NEW c \in Callers, Send(c)
  PROVE  TypeInv'
<1> USE PublicationsAssumption
<1>1. /\ pc' \in [Callers -> {"idle", "reserve", "send", "record"}] /\ pc'[c] = "record"
      /\ \A d \in Callers : pc'[d] # pc[d] => pc'[d] = "record"
  BY SendQueue DEF TypeInv, TypeOK
<1>2. /\ out \in Seq(MessageType) /\ call[c] \in CallType /\ call[c].payload \in Payloads
      /\ call[c].retain \in BOOLEAN /\ CallOK(c) /\ taken \in 0..Len(out)
  BY SendQueue DEF TypeInv, TypeOK, CallOK, CallType
<1>3. out' \in Seq(MessageType) /\ taken' \in 0..Len(out')
  <2>1. \A m \in Mids : [mid |-> m, payload |-> call[c].payload, retain |-> call[c].retain,
                         failure |-> FALSE] \in MessageType
    BY <1>2 DEF MessageType
  <2>2. CASE out' = out
    BY <1>2, <2>2, SendQueue
  <2>3. ASSUME NEW m \in MessageType, out' = Append(out, m)
        PROVE  out' \in Seq(MessageType) /\ taken' \in 0..Len(out')
    BY <1>2, <2>3, AppendOut, SendQueue
  <2>4. out' = out \/ \E m \in MessageType : out' = Append(out, m)
    BY <2>1, SendQueue, Zenon
  <2> QED BY <2>2, <2>3, <2>4
<1>4. up' = up /\ broker' = broker /\ refusals' = refusals
  BY DEF Send, clientVars
<1>5. \A d \in Started(starting)' : pc'[d] \in {"send", "record"}
  <2>1. Started(starting)' = Started(starting) /\ Started(starting) \subseteq Callers
    BY DEF Send, cacheVars, Started
  <2> QED BY <1>1, <2>1 DEF TypeInv, TypeOK
<1>6. TypeOK'
  BY <1>1, <1>3, <1>4, <1>5 DEF Send, cacheVars, TypeInv, TypeOK
<1>7. \A d \in Callers : CallOK(d)'
  <2> TAKE d \in Callers
  <2>1. generation' = generation /\ generation \in Nat
    BY DEF Send, cacheVars, TypeInv, TypeOK
  <2>2. CASE d = c
    <3>1. /\ call'[c].payload = call[c].payload /\ call'[c].generation = call[c].generation
          /\ call'[c].retain = call[c].retain
          /\ call'[c].result = "success" => call'[c].mid \in Mids
      BY SendQueue
    <3> QED BY <1>1, <1>2, <2>1, <2>2, <3>1 DEF CallOK
  <2>3. CASE d # c
    BY <2>1, <2>3, CallKept, SendQueue
  <2> QED BY <2>2, <2>3
<1> QED BY <1>6, <1>7, SendQueue DEF Send, cacheVars, TypeInv

LEMMA RecordTypes ==
  ASSUME TypeInv, NEW c \in Callers, Record(c)
  PROVE  TypeInv'
<1> USE PublicationsAssumption
<1>1. /\ pc[c] = "record" /\ pc' = [pc EXCEPT ![c] = "idle"]
      /\ call' = [call EXCEPT ![c] = NoCall] /\ CallOK(c) /\ call[c] \in CallType
      /\ call[c].payload \in Payloads
  BY DEF Record, TypeInv, CallOK
<1>2. /\ NoCall \in CallType /\ NoCall.mid = NoMid /\ NoCall.generation = 0
      /\ NoCall.result = "none" /\ ~NoCall.retain
  BY DEF NoCall, CallType
<1>3. /\ pc' \in [Callers -> {"idle", "reserve", "send", "record"}] /\ pc'[c] = "idle"
      /\ call' \in [Callers -> CallType] /\ call'[c] = NoCall
      /\ \A d \in Callers \ {c} : call'[d] = call[d] /\ pc'[d] = pc[d]
  BY <1>1, <1>2 DEF TypeInv, TypeOK
<1>4. /\ starting' = [starting EXCEPT ![c] = NoStart]
      /\ starting' \in [Callers -> [payload : Payloads \cup {NoPayload}, retain : BOOLEAN]]
      /\ Started(starting)' = Started(starting) \ {c}
  BY DEF Record, Ended, NoStart, Started, TypeInv, TypeOK
<1>5. early' \in [Mids -> AckType] /\ DOMAIN early' = Mids
  <2>1. NoAck \in AckType
    BY DEF NoAck, AckType
  <2>2. [m \in Mids |-> IF m = call[c].mid THEN NoAck ELSE early[m]] \in [Mids -> AckType]
    BY <2>1 DEF TypeInv
  <2> QED BY <2>1, <2>2 DEF Record, EarlyAfter, NoEarly
<1>6. sent' \in Payloads \cup {NoPayload}
  BY <1>1 DEF Record, Cached, TypeInv, TypeOK
<1>7. pending' \in [Mids -> [payload : Payloads \cup {NoPayload}, old : BOOLEAN]]
  BY <1>1 DEF Record, TypeInv, TypeOK
<1>8. TypeOK'
  BY <1>3, <1>4, <1>5, <1>6, <1>7 DEF Record, clientVars, Started, TypeInv, TypeOK
<1>9. \A d \in Callers : CallOK(d)'
  <2> TAKE d \in Callers
  <2>1. generation' = generation /\ generation \in Nat
    BY DEF Record, TypeInv, TypeOK
  <2>2. CASE d = c
    BY <1>2, <1>3, <2>1, <2>2 DEF CallOK
  <2>3. CASE d # c
    BY <1>3, <2>1, <2>3, CallKept
  <2> QED BY <2>2, <2>3
<1> QED BY <1>3, <1>5, <1>8, <1>9 DEF Record, clientVars, TypeInv

LEMMA OnPublishTypes ==
  ASSUME TypeInv, OnPublish
  PROVE  TypeInv'
<1> USE PublicationsAssumption
<1>1. /\ out \in Seq(MessageType) /\ taken \in 0..Len(out) /\ taken > 0 /\ out # <<>>
  BY DEF OnPublish, TypeInv, TypeOK
<1>2. /\ Head(out) \in MessageType /\ Head(out).mid \in Mids /\ Head(out).failure \in BOOLEAN
  BY <1>1, TailOut DEF MessageType
<1>3. out' \in Seq(MessageType) /\ taken' \in 0..Len(out')
  BY <1>1, TailOut DEF OnPublish
<1>4. early' \in [Mids -> AckType] /\ DOMAIN early' = Mids
  <2>1. [generation |-> generation, failure |-> Head(out).failure] \in AckType
    BY <1>2 DEF AckType, TypeInv, TypeOK
  <2>2. \/ early' = early
        \/ early' = [early EXCEPT ![Head(out).mid] =
                       [generation |-> generation, failure |-> Head(out).failure]]
    BY DEF OnPublish
  <2> QED BY <1>2, <2>1, <2>2 DEF TypeInv
<1>5. /\ pending' \in [Mids -> [payload : Payloads \cup {NoPayload}, old : BOOLEAN]]
      /\ sent' \in Payloads \cup {NoPayload}
  <2>1. NoPending \in [payload : Payloads \cup {NoPayload}, old : BOOLEAN]
    BY DEF NoPending
  <2>2. pending[Head(out).mid].payload \in Payloads \cup {NoPayload}
    BY <1>2 DEF TypeInv, TypeOK
  <2>3. /\ pending' = pending \/ pending' = [pending EXCEPT ![Head(out).mid] = NoPending]
        /\ sent' \in {sent, NoPayload, pending[Head(out).mid].payload}
    BY DEF OnPublish, Cached
  <2>4. /\ pending \in [Mids -> [payload : Payloads \cup {NoPayload}, old : BOOLEAN]]
        /\ sent \in Payloads \cup {NoPayload}
    BY DEF TypeInv, TypeOK
  <2> QED BY <2>1, <2>2, <2>3, <2>4
<1>6. TypeOK'
  BY <1>3, <1>4, <1>5 DEF OnPublish, callVars, Started, TypeInv, TypeOK
<1>7. \A d \in Callers : CallOK(d)'
  BY CallKept DEF OnPublish, callVars, TypeInv, TypeOK
<1> QED BY <1>4, <1>6, <1>7 DEF OnPublish, callVars, TypeInv

LEMMA InvalidateTypes ==
  ASSUME TypeInv, NEW t \in Callers, Invalidate(t),
         net' \in {"idle", net}, reset' \in BOOLEAN
  PROVE  TypeInv'
<1> USE PublicationsAssumption
<1>1. /\ generation \in Nat /\ generation' = generation + 1
  BY DEF Invalidate, TypeInv, TypeOK
<1>2. /\ desired' = NoPayload /\ sent' = NoPayload
      /\ pending' \in [Mids -> [payload : Payloads \cup {NoPayload}, old : BOOLEAN]]
      /\ starting' \in [Callers -> [payload : Payloads \cup {NoPayload}, retain : BOOLEAN]]
      /\ Started(starting)' = {}
      /\ early' \in [Mids -> AckType] /\ DOMAIN early' = Mids
  BY ForgetTypes DEF Invalidate
<1>3. TypeOK'
  BY <1>1, <1>2 DEF Invalidate, callVars, clientVars, TypeInv, TypeOK
<1>4. \A d \in Callers : CallOK(d)'
  BY <1>1, CallKept DEF Invalidate, callVars
<1> QED BY <1>2, <1>3, <1>4 DEF Invalidate, callVars, clientVars, TypeInv

\* Steps of the client, the broker, time and the state that is published.
LEMMA AroundTypes ==
  ASSUME TypeInv,
         TakeAck \/ OnDisconnect \/ OnConnect \/ Take \/ LinkLoss \/ FiveSeconds
           \/ (\E p \in Payloads : Change(p)) \/ UNCHANGED vars
  PROVE  TypeInv'
<1> USE PublicationsAssumption
<1>1. /\ UNCHANGED <<generation, desired, sent, starting, early, publish_lock, callVars>>
  BY DEF TakeAck, OnDisconnect, OnConnect, Take, LinkLoss, FiveSeconds, Change, cacheVars, vars
<1>2. /\ cur' \in Payloads /\ connected' \in BOOLEAN /\ reset' \in BOOLEAN
      /\ out_mutex' \in {Free, Network} /\ net' \in {"idle", "callback", "ack"}
      /\ up' \in BOOLEAN
  BY DEF TakeAck, OnDisconnect, OnConnect, Take, LinkLoss, FiveSeconds, Change, clientVars, vars,
         TypeInv, TypeOK
<1>3. pending' \in [Mids -> [payload : Payloads \cup {NoPayload}, old : BOOLEAN]]
  <2>1. CASE FiveSeconds
    <3> DEFINE T == [payload : Payloads \cup {NoPayload}, old : BOOLEAN]
               old(m) == [pending[m] EXCEPT !.old = TRUE]
    <3>1. NoPending \in T /\ \A r \in T : [r EXCEPT !.old = TRUE] \in T
      BY DEF NoPending
    <3>2. pending \in [Mids -> T]
      BY DEF TypeInv, TypeOK
    <3>3. \A m \in Mids : old(m) \in T
      BY <3>1, <3>2
    <3>4. pending' = [m \in Mids |-> IF pending[m] = NoPending THEN NoPending ELSE old(m)]
      BY <2>1 DEF FiveSeconds
    <3>5. NoPending \in T
      BY <3>1
    <3> HIDE DEF T, old
    <3>6. pending' \in [Mids -> T]
      BY <3>3, <3>4, <3>5
    <3> QED BY <3>6 DEF T
  <2> QED BY <2>1 DEF TakeAck, OnDisconnect, OnConnect, Take, LinkLoss, Change, cacheVars, vars,
                      TypeInv, TypeOK
<1>4. /\ out' \in Seq(MessageType) /\ taken' \in 0..Len(out')
      /\ broker' \in Payloads \cup {NoPayload} /\ refusals' \in 0..MaxRefusals
      /\ net' = "ack" => taken' > 0
  <2>1. out \in Seq(MessageType) /\ Len(out) \in Nat /\ taken \in 0..Len(out)
        /\ (net = "ack" => taken > 0) /\ refusals \in 0..MaxRefusals
        /\ broker \in Payloads \cup {NoPayload}
    BY DEF TypeInv, TypeOK
  <2>2. CASE Take
    <3>1. taken + 1 \in 1..Len(out) /\ taken' = taken + 1 /\ taken' > 0
          /\ out[taken + 1] \in MessageType /\ out[taken + 1].payload \in Payloads
      BY <2>1, <2>2, OutIsMessage DEF Take
    <3>2. out' \in Seq(MessageType) /\ Len(out') = Len(out)
      <4>1. out' = out \/ out' = [out EXCEPT ![taken + 1].failure = TRUE]
        BY <2>2 DEF Take
      <4>2. LET r == [out EXCEPT ![taken + 1].failure = TRUE]
            IN  r \in Seq(MessageType) /\ Len(r) = Len(out)
        BY <2>1, <3>1, RefusedOut
      <4> QED BY <2>1, <4>1, <4>2
    <3>3. broker' \in Payloads \cup {NoPayload} /\ refusals' \in 0..MaxRefusals
      <4>1. broker' \in {broker, out[taken + 1].payload}
        BY <2>2 DEF Take
      <4>2. refusals' = refusals \/ (refusals < MaxRefusals /\ refusals' = refusals + 1)
        BY <2>2 DEF Take
      <4> QED BY <2>1, <3>1, <4>1, <4>2
    <3> QED BY <2>1, <3>1, <3>2, <3>3
  <2>3. CASE LinkLoss
    <3>1. out' \in Seq(MessageType) /\ Len(out') = Len(out)
      BY <2>1, <2>3, UnmarkedOut DEF LinkLoss
    <3> QED BY <2>1, <2>3, <3>1 DEF LinkLoss
  <2>4. CASE TakeAck
    BY <2>1, <2>4 DEF TakeAck, clientVars
  <2>5. ASSUME UNCHANGED <<out, taken, broker, refusals>>, net' = "ack" => net = "ack"
        PROVE  /\ out' \in Seq(MessageType) /\ taken' \in 0..Len(out')
               /\ broker' \in Payloads \cup {NoPayload} /\ refusals' \in 0..MaxRefusals
               /\ net' = "ack" => taken' > 0
    BY <2>1, <2>5
  <2> QED BY <2>2, <2>3, <2>4, <2>5 DEF OnDisconnect, OnConnect, FiveSeconds, Change, clientVars,
                                        vars
<1>5. TypeOK'
  BY <1>1, <1>2, <1>3, <1>4 DEF callVars, Started, TypeInv, TypeOK
<1>6. \A d \in Callers : CallOK(d)'
  BY <1>1, CallKept DEF callVars, TypeInv, TypeOK
<1> QED BY <1>1, <1>4, <1>5, <1>6 DEF callVars, TypeInv

LEMMA TypeStep == TypeInv /\ [Next]_vars => TypeInv'
<1> SUFFICES ASSUME TypeInv, [Next]_vars PROVE TypeInv'
  OBVIOUS
<1>1. ASSUME NEW c \in Callers, Proceed(c) PROVE TypeInv'
  BY <1>1, ReserveTypes, SendTypes, RecordTypes DEF Proceed
<1>2. ASSUME NEW c \in Callers, LoopInvalidates(c) PROVE TypeInv'
  BY <1>2, InvalidateTypes DEF LoopInvalidates
<1>3. CASE Acknowledge
  BY <1>3, AroundTypes, OnPublishTypes DEF Acknowledge
<1>4. CASE Connection
  BY <1>4, AroundTypes, InvalidateTypes DEF Connection, CallbackInvalidates, Callers, TypeInv,
                                            TypeOK
<1> QED BY <1>1, <1>2, <1>3, <1>4, BeginTypes, AroundTypes DEF Next

\* Types, and each reservation belongs to a call under way (`_starting` in publish).
THEOREM PublicationsTypeCorrect == Spec => []TypeOK
<1>1. Spec => []TypeInv
  BY TypeInit, TypeStep, PTL DEF Spec
<1>2. TypeInv => TypeOK
  BY DEF TypeInv
<1> QED BY <1>1, <1>2, PTL

\* No circular wait of the publish lock and the client's mutex, for any number of callers.
THEOREM NobodyWaitsInACircle == Spec => []NoCircularWait
<1>1. Spec => []TypeInv
  BY TypeInit, TypeStep, PTL DEF Spec
<1>2. TypeInv => NoCircularWait
  BY PublicationsAssumption DEF TypeInv, NoCircularWait
<1> QED BY <1>1, <1>2, PTL

(***************************************************************************)
(* Pending entries and the messages that are out                           *)
(***************************************************************************)
\* A step that neither queues nor acknowledges a message, nor ends a call or a
\* connection: messages keep all but their marks, entries all but their age, and a
\* call is kept or has not sent its message yet.
QuietStep ==
  /\ UNCHANGED <<generation, early>>
  /\ Len(out') = Len(out)
  /\ \A k \in 1..Len(out) : /\ out'[k].mid = out[k].mid /\ out'[k].payload = out[k].payload
                            /\ out'[k].retain = out[k].retain
  /\ \A m \in Mids : /\ (pending'[m] = NoPending) <=> (pending[m] = NoPending)
                     /\ pending'[m].payload = pending[m].payload
  /\ \A c \in Callers :
       \/ pc'[c] = pc[c] /\ call'[c] = call[c] /\ starting'[c] = starting[c]
       \/ pc[c] # "record" /\ pc'[c] \in {"idle", "reserve"}
       \/ /\ pc[c] # "record" /\ pc'[c] = "send"
          /\ call'[c].generation = generation /\ c \in Started(starting)'

LEMMA FreshCallQuiet ==
  ASSUME TypeInv, NEW c \in Callers,
         Reserve(c) \/ \E retain \in BOOLEAN : Begin(c, retain)
  PROVE  QuietStep
<1> USE PublicationsAssumption
<1>1. /\ UNCHANGED <<generation, early, out, pending>>
      /\ \A d \in Callers \ {c} : /\ pc'[d] = pc[d] /\ call'[d] = call[d]
                                  /\ starting'[d] = starting[d]
  <2>1. /\ pc \in [Callers -> {"idle", "reserve", "send", "record"}] /\ DOMAIN starting = Callers
        /\ DOMAIN call = Callers
    BY DEF TypeInv, TypeOK
  <2>2. CASE Reserve(c)
    BY <2>1, <2>2 DEF Reserve, clientVars
  <2>3. CASE \E retain \in BOOLEAN : Begin(c, retain)
    BY <2>1, <2>3 DEF Begin, cacheVars, clientVars
  <2> QED BY <2>2, <2>3
<1>2. CASE \E retain \in BOOLEAN : Begin(c, retain)
  <2>1. pc'[c] = "reserve" /\ pc[c] = "idle"
    BY <1>2 DEF Begin, TypeInv, TypeOK
  <2> QED BY <1>1, <2>1 DEF QuietStep
<1>3. CASE Reserve(c) /\ pc' = [pc EXCEPT ![c] = "idle"]
  <2>1. pc'[c] = "idle" /\ pc[c] = "reserve"
    BY <1>3 DEF Reserve, TypeInv, TypeOK
  <2> QED BY <1>1, <2>1 DEF QuietStep
<1>4. CASE /\ Reserve(c)
           /\ starting' = [starting EXCEPT ![c] = [payload |-> call[c].payload,
                                                   retain |-> call[c].retain]]
           /\ call' = [call EXCEPT ![c].generation = generation]
           /\ pc' = [pc EXCEPT ![c] = "send"]
  <2>1. pc'[c] = "send" /\ pc[c] = "reserve"
    BY <1>4 DEF Reserve, TypeInv, TypeOK
  <2>2. call'[c].generation = generation
    BY <1>4 DEF TypeInv, CallType
  <2>3. starting'[c] = [payload |-> call[c].payload, retain |-> call[c].retain]
    BY <1>4 DEF TypeInv, TypeOK
  <2>4. call[c].payload \in Payloads
    BY <1>4 DEF Reserve, TypeInv, CallOK
  <2>5. starting'[c] # NoStart
    BY <2>3, <2>4 DEF NoStart
  <2> QED BY <1>1, <2>1, <2>2, <2>5 DEF QuietStep, Started
<1> QED BY <1>2, <1>3, <1>4 DEF Reserve

LEMMA AroundQuiet ==
  ASSUME TypeInv,
         TakeAck \/ OnDisconnect \/ OnConnect \/ Take \/ LinkLoss \/ FiveSeconds
           \/ (\E p \in Payloads : Change(p)) \/ UNCHANGED vars
  PROVE  QuietStep
<1>1. UNCHANGED <<generation, early, starting, callVars>>
  BY DEF TakeAck, OnDisconnect, OnConnect, Take, LinkLoss, FiveSeconds, Change, cacheVars, vars
<1>2. \A m \in Mids : /\ (pending'[m] = NoPending) <=> (pending[m] = NoPending)
                      /\ pending'[m].payload = pending[m].payload
  <2>1. CASE FiveSeconds
    <3> SUFFICES ASSUME NEW m \in Mids
                 PROVE  /\ (pending'[m] = NoPending) <=> (pending[m] = NoPending)
                        /\ pending'[m].payload = pending[m].payload
      OBVIOUS
    <3>1. pending'[m] = IF pending[m] = NoPending THEN NoPending
                        ELSE [pending[m] EXCEPT !.old = TRUE]
      BY <2>1 DEF FiveSeconds
    <3>2. pending[m] \in [payload : Payloads \cup {NoPayload}, old : BOOLEAN]
      BY DEF TypeInv, TypeOK
    <3>3. /\ [pending[m] EXCEPT !.old = TRUE].old
          /\ [pending[m] EXCEPT !.old = TRUE].payload = pending[m].payload
          /\ ~NoPending.old
      BY <3>2 DEF NoPending
    <3> QED BY <3>1, <3>3
  <2> QED BY <2>1 DEF TakeAck, OnDisconnect, OnConnect, Take, LinkLoss, Change, cacheVars, vars
<1>3. /\ Len(out') = Len(out)
      /\ \A k \in 1..Len(out) : /\ out'[k].mid = out[k].mid /\ out'[k].payload = out[k].payload
                                /\ out'[k].retain = out[k].retain
  <2>1. out \in Seq(MessageType) /\ \A k \in 1..Len(out) : out[k] \in MessageType
    BY DEF TypeInv, TypeOK
  <2>2. \A k \in 1..Len(out), b \in BOOLEAN :
          LET o == [out[k] EXCEPT !.failure = b] IN
          o.mid = out[k].mid /\ o.payload = out[k].payload /\ o.retain = out[k].retain
    BY <2>1 DEF MessageType
  <2>3. CASE Take
    <3>1. taken + 1 \in 1..Len(out)
      BY <2>1, <2>3 DEF Take, TypeInv, TypeOK
    <3>2. CASE out' = [out EXCEPT ![taken + 1].failure = TRUE]
      <4>1. /\ Len(out') = Len(out)
            /\ \A k \in 1..Len(out) :
                 out'[k] = out[k] \/ out'[k] = [out[k] EXCEPT !.failure = TRUE]
        BY <2>1, <3>1, <3>2, RefusedOut
      <4> QED BY <2>2, <4>1
    <3> QED BY <2>3, <3>2 DEF Take
  <2>4. CASE LinkLoss
    <3>1. /\ Len(out') = Len(out)
          /\ \A k \in 1..Len(out) : out'[k] = [out[k] EXCEPT !.failure = FALSE]
      BY <2>1, <2>4, UnmarkedOut DEF LinkLoss
    <3> QED BY <2>2, <3>1
  <2> QED BY <2>3, <2>4 DEF TakeAck, OnDisconnect, OnConnect, FiveSeconds, Change, clientVars,
                            vars
<1> QED BY <1>1, <1>2, <1>3 DEF QuietStep, callVars

LEMMA QuietOut ==
  ASSUME TypeInv, TypeInv', OutInv, QuietStep
  PROVE  OutInv'
<1> USE PublicationsAssumption
<1>1. \A m : Out(m)' <=> Out(m)
  BY DEF QuietStep, Out
<1>2. \A c \in Callers : call'[c].mid # NoMid => pc[c] = "record" /\ pc'[c] = "record"
                                               /\ call'[c] = call[c]
  BY DEF QuietStep, TypeInv, CallOK
<1>3. PendingIsOutstanding'
  BY <1>1 DEF QuietStep, OutInv, PendingIsOutstanding, Out
<1>4. \A c \in Callers : OwnMid(c)'
  BY <1>2 DEF QuietStep, OutInv, OwnMid
<1>5. \A c \in Callers : Awaits(c)' => Out(call[c].mid)' /\ call'[c] = call[c]
  BY <1>1 DEF QuietStep, OutInv, Awaits, Records
<1>6. \A c \in Callers : pc'[c] \in {"send", "record"} /\ call'[c].generation = generation'
                           => c \in Started(starting)'
  BY DEF QuietStep, OutInv, Started
<1> QED BY <1>3, <1>4, <1>5, <1>6 DEF OutInv, Out

LEMMA OutInit == Init => OutInv
BY PublicationsAssumption
DEF Init, OutInv, PendingIsOutstanding, OwnMid, Awaits, NoCall

LEMMA SendOut ==
  ASSUME TypeInv, TypeInv', OutInv, NEW c \in Callers, Send(c)
  PROVE  OutInv'
<1> USE PublicationsAssumption
<1>1. /\ UNCHANGED <<generation, pending, early, starting>> /\ out \in Seq(MessageType)
      /\ pc[c] = "send" /\ pc'[c] = "record"
      /\ \A d \in Callers \ {c} : call'[d] = call[d] /\ pc'[d] = pc[d]
      /\ call'[c].generation = call[c].generation
  <2>1. out \in Seq(MessageType)
    BY DEF TypeInv, TypeOK
  <2> QED BY <2>1, SendAside
<1>2. CASE out' = out /\ call'[c].mid = NoMid /\ call'[c].result \in {"raised", "error"}
  <2>1. ~Awaits(c)'
    BY <1>2 DEF Awaits, Records
  <2>2. \A d \in Callers \ {c} : Awaits(d)' => Awaits(d)
    BY <1>1 DEF Awaits, Records
  <2>3. PendingIsOutstanding' /\ \A m : Out(m)' <=> Out(m)
    BY <1>1, <1>2 DEF OutInv, PendingIsOutstanding, Out
  <2>4. \A d \in Callers : OwnMid(d)'
    BY <1>1, <1>2 DEF OutInv, OwnMid
  <2>5. \A d \in Callers : Awaits(d)' => d # c /\ Out(call[d].mid) /\ call'[d] = call[d]
    BY <1>1, <2>1, <2>2 DEF OutInv
  <2>6. \A d \in Callers : pc'[d] \in {"send", "record"} /\ call'[d].generation = generation'
                             => d \in Started(starting)'
    BY <1>1 DEF OutInv, Started
  <2> QED BY <2>3, <2>4, <2>5, <2>6 DEF OutInv
<1>3. ASSUME NEW m \in Mids, Unused(m), call'[c].mid = m, NEW r \in MessageType,
             r.mid = m, out' = Append(out, r)
      PROVE  OutInv'
  <2>1. /\ \A k \in 1..Len(out) : out'[k] = out[k] /\ k \in 1..Len(out')
        /\ Len(out) + 1 \in 1..Len(out') /\ out'[Len(out) + 1].mid = m
    BY <1>1, <1>3, AppendOut
  <2>2. \A i : Out(i) => Out(i)'
    BY <2>1 DEF Out
  <2>3. Out(m)'
    BY <2>1 DEF Out
  <2>4. PendingIsOutstanding'
    BY <1>1, <2>1 DEF OutInv, PendingIsOutstanding
  <2>5. \A d \in Callers : OwnMid(d)'
    BY <1>1, <1>3 DEF OutInv, OwnMid, Unused
  <2>6. \A d \in Callers \ {c} : Awaits(d)' => Awaits(d)
    BY <1>1 DEF Awaits, Records
  <2> QED BY <1>1, <1>3, <2>2, <2>3, <2>4, <2>5, <2>6 DEF OutInv, Out, Started
<1>4. \A m \in Mids : [mid |-> m, payload |-> call[c].payload, retain |-> call[c].retain,
                       failure |-> FALSE] \in MessageType
  BY <1>1 DEF MessageType, TypeInv, CallOK, CallType
<1> QED
  <2>1. \A m \in Mids : [mid |-> m, payload |-> call[c].payload, retain |-> call[c].retain,
                         failure |-> FALSE].mid = m
    OBVIOUS
  <2>2. \/ out' = out /\ call'[c].mid = NoMid /\ call'[c].result \in {"raised", "error"}
        \/ \E m \in Mids : \E r \in MessageType :
             Unused(m) /\ call'[c].mid = m /\ r.mid = m /\ out' = Append(out, r)
    <3>1. CASE out' = out /\ call'[c].mid = NoMid /\ call'[c].result \in {"raised", "error"}
      BY <3>1
    <3>2. ASSUME NEW m \in Mids, Unused(m), call'[c].mid = m,
                 out' = Append(out, [mid |-> m, payload |-> call[c].payload,
                                     retain |-> call[c].retain, failure |-> FALSE])
          PROVE  \E r \in MessageType :
                   Unused(m) /\ call'[c].mid = m /\ r.mid = m /\ out' = Append(out, r)
      BY <1>4, <2>1, <3>2
    <3> QED BY <3>1, <3>2, SendQueue, Zenon
  <2> QED BY <1>2, <1>3, <2>2

\* What Record leaves of the tables.
LEMMA RecordTables ==
  ASSUME TypeInv, OutInv, NEW c \in Callers, Record(c)
  PROVE  /\ UNCHANGED <<generation, desired, clientVars, net>>
         /\ pc[c] = "record" /\ pc'[c] = "idle" /\ call'[c] = NoCall
         /\ \A d \in Callers \ {c} : call'[d] = call[d] /\ pc'[d] = pc[d]
         /\ starting'[c] = NoStart /\ \A d \in Callers \ {c} : starting'[d] = starting[d]
         /\ \A m \in Mids : early'[m] # NoAck => early'[m] = early[m] /\ m # call[c].mid
         /\ \A d \in Callers \ {c} :
              pc[d] = "record" /\ Records(d) => early'[call[d].mid] = early[call[d].mid]
         /\ pending' = IF Awaits(c)
                       THEN [pending EXCEPT ![call[c].mid] =
                               [payload |-> call[c].payload, old |-> FALSE]]
                       ELSE pending
         /\ Records(c) => call[c].mid \in Mids /\ Early(c) = early[call[c].mid]
<1> USE PublicationsAssumption
<1>1. Records(c) => call[c].mid \in Mids /\ Early(c) = early[call[c].mid]
  BY DEF Records, Early, TypeInv, CallOK, CallType
<1>2. /\ UNCHANGED <<generation, desired, clientVars, net>>
      /\ pc[c] = "record" /\ pc'[c] = "idle" /\ call'[c] = NoCall
      /\ \A d \in Callers \ {c} : call'[d] = call[d] /\ pc'[d] = pc[d]
      /\ starting'[c] = NoStart /\ \A d \in Callers \ {c} : starting'[d] = starting[d]
  BY DEF Record, Ended, TypeInv, TypeOK
<1> DEFINE rest == [m \in Mids |-> IF m = call[c].mid THEN NoAck ELSE early[m]]
<1>3. early' = IF Started(starting') = {} THEN NoEarly ELSE rest
  BY DEF Record, EarlyAfter, Ended, Started
<1>4. \A m \in Mids : early'[m] # NoAck => early'[m] = early[m] /\ m # call[c].mid
  BY <1>3 DEF NoEarly
<1>5. \A d \in Callers \ {c} :
        pc[d] = "record" /\ Records(d) => early'[call[d].mid] = early[call[d].mid]
  <2> SUFFICES ASSUME NEW d \in Callers \ {c}, pc[d] = "record", Records(d)
               PROVE  early'[call[d].mid] = early[call[d].mid]
    OBVIOUS
  <2>1. d \in Started(starting)
    BY DEF OutInv, Records
  <2>2. d \in Started(starting')
    BY <1>2, <2>1 DEF Started
  <2>3. call[d].mid \in Mids
    BY DEF Records, TypeInv, CallOK, CallType
  <2>4. call[d].mid # call[c].mid
    BY <2>3 DEF OutInv, OwnMid
  <2> QED BY <1>3, <2>2, <2>3, <2>4
<1>6. Awaits(c) <=> Records(c) /\ Early(c) = NoAck
  BY <1>1, <1>2 DEF Awaits
<1>7. pending' = IF Awaits(c)
                 THEN [pending EXCEPT ![call[c].mid] =
                         [payload |-> call[c].payload, old |-> FALSE]]
                 ELSE pending
  BY <1>6 DEF Record
<1> QED BY <1>1, <1>2, <1>4, <1>5, <1>7

LEMMA RecordOut ==
  ASSUME TypeInv, OutInv, NEW c \in Callers, Record(c)
  PROVE  OutInv'
<1> USE PublicationsAssumption
<1>1. /\ generation' = generation /\ out' = out
      /\ pc'[c] = "idle" /\ call'[c].mid = NoMid
      /\ \A d \in Callers \ {c} : call'[d] = call[d] /\ pc'[d] = pc[d]
      /\ \A d \in Callers \ {c} : starting'[d] = starting[d]
  <2>1. NoCall.mid = NoMid
    BY DEF NoCall
  <2> QED BY <2>1, RecordTables DEF clientVars
<1>2. \A m \in Mids : pending'[m] # NoPending => pending[m] # NoPending
                                               \/ (m = call[c].mid /\ Awaits(c))
  <2>1. pending' = IF Awaits(c)
                   THEN [pending EXCEPT ![call[c].mid] =
                           [payload |-> call[c].payload, old |-> FALSE]]
                   ELSE pending
    BY RecordTables
  <2> QED BY <2>1 DEF TypeInv, TypeOK
<1>3. PendingIsOutstanding'
  <2> SUFFICES ASSUME NEW m \in Mids, pending'[m] # NoPending
               PROVE  \E k \in 1..Len(out) : out[k].mid = m
    BY <1>1 DEF PendingIsOutstanding
  <2> QED BY <1>2 DEF OutInv, PendingIsOutstanding, Out
<1>4. \A d \in Callers : OwnMid(d)'
  <2> SUFFICES ASSUME NEW d \in Callers, call'[d].mid \in Mids
               PROVE  /\ pending'[call'[d].mid] = NoPending
                      /\ \A e \in Callers : call'[e].mid = call'[d].mid => e = d
    BY DEF OwnMid
  <2>1. d # c /\ call'[d] = call[d] /\ OwnMid(d)
    BY <1>1 DEF OutInv
  <2>2. call[c].mid # call[d].mid
    BY <2>1 DEF OwnMid
  <2>3. pending'[call[d].mid] = NoPending
    BY <1>2, <2>1, <2>2 DEF OwnMid
  <2> QED BY <1>1, <2>1, <2>3 DEF OwnMid
<1>5. \A d \in Callers : Awaits(d)' => Out(call[d].mid)' /\ call'[d] = call[d]
  <2> SUFFICES ASSUME NEW d \in Callers, Awaits(d)'
               PROVE  Out(call[d].mid)' /\ call'[d] = call[d]
    OBVIOUS
  <2>1. d # c /\ call'[d] = call[d] /\ pc'[d] = pc[d]
    BY <1>1 DEF Awaits
  <2>2. pc[d] = "record" /\ Records(d) /\ early'[call[d].mid] = NoAck
    BY <1>1, <2>1 DEF Awaits, Records
  <2>3. Awaits(d)
    BY <2>1, <2>2, RecordTables DEF Awaits
  <2> QED BY <1>1, <2>1, <2>3 DEF OutInv, Out
<1>6. \A d \in Callers : pc'[d] \in {"send", "record"} /\ call'[d].generation = generation'
                           => d \in Started(starting)'
  BY <1>1 DEF OutInv, Started
<1> QED BY <1>3, <1>4, <1>5, <1>6 DEF OutInv, Out

\* What an acknowledgement of the first message out does to the tables.
LEMMA OnPublishTables ==
  ASSUME TypeInv, OnPublish
  PROVE  /\ out[1] \in MessageType /\ out[1].mid \in Mids /\ Len(out) \in Nat \ {0}
         /\ Len(out') = Len(out) - 1
         /\ \A k \in 1..Len(out) - 1 : out'[k] = out[k + 1] /\ k + 1 \in 1..Len(out)
         /\ \A k \in 2..Len(out) : out'[k - 1] = out[k] /\ k - 1 \in 1..Len(out')
         /\ taken >= 1 /\ taken' = taken - 1 /\ net = "ack" /\ net' = "idle"
         /\ UNCHANGED <<generation, desired, starting, callVars, up, broker>>
         /\ pending' = [pending EXCEPT ![out[1].mid] = NoPending]
         /\ sent' = IF pending[out[1].mid] # NoPending /\ ~out[1].failure
                    THEN Cached(pending[out[1].mid].payload) ELSE sent
         /\ \/ early' = early
            \/ early' = [early EXCEPT ![out[1].mid] =
                           [generation |-> generation, failure |-> out[1].failure]]
         /\ pending[out[1].mid] # NoPending => early' = early
         /\ pending[out[1].mid] = NoPending /\ Started(starting) # {} /\ EarlyHasRoom
              => early' = [early EXCEPT ![out[1].mid] =
                             [generation |-> generation, failure |-> out[1].failure]]
<1> USE PublicationsAssumption
<1>1. /\ out \in Seq(MessageType) /\ taken \in 0..Len(out) /\ taken > 0 /\ out # <<>>
  BY DEF OnPublish, TypeInv, TypeOK
<1>2. Head(out) = out[1] /\ out[1] \in MessageType /\ Len(out) \in Nat \ {0}
      /\ Len(Tail(out)) = Len(out) - 1
      /\ \A k \in 1..Len(out) - 1 : Tail(out)[k] = out[k + 1] /\ k + 1 \in 1..Len(out)
  BY <1>1, TailOut
<1>3. out[1].mid \in Mids
  BY <1>2 DEF MessageType
<1>4. /\ out' = Tail(out) /\ taken' = taken - 1 /\ net = "ack" /\ net' = "idle"
      /\ UNCHANGED <<generation, desired, starting, callVars, up, broker>>
  BY <1>1 DEF OnPublish
<1>5. \A k \in 2..Len(out) : out'[k - 1] = out[k] /\ k - 1 \in 1..Len(out')
  <2> SUFFICES ASSUME NEW k \in 2..Len(out)
               PROVE  out'[k - 1] = out[k] /\ k - 1 \in 1..Len(out')
    OBVIOUS
  <2>1. k - 1 \in 1..Len(out) - 1 /\ (k - 1) + 1 = k
    BY <1>2
  <2> QED BY <1>2, <1>4, <2>1
<1>6. CASE pending[out[1].mid] # NoPending
  <2>1. /\ pending' = [pending EXCEPT ![out[1].mid] = NoPending] /\ early' = early
        /\ sent' = IF out[1].failure THEN sent ELSE Cached(pending[out[1].mid].payload)
    BY <1>2, <1>6 DEF OnPublish
  <2>2. sent' = IF pending[out[1].mid] # NoPending /\ ~out[1].failure
                THEN Cached(pending[out[1].mid].payload) ELSE sent
    BY <1>6, <2>1
  <2> QED BY <1>1, <1>2, <1>3, <1>4, <1>5, <1>6, <2>1, <2>2
<1>7. CASE pending[out[1].mid] = NoPending
  <2>1. /\ pending' = pending /\ sent' = sent
        /\ early' = IF Started(starting) # {} /\ EarlyHasRoom
                    THEN [early EXCEPT ![out[1].mid] =
                            [generation |-> generation, failure |-> out[1].failure]]
                    ELSE early
    BY <1>2, <1>7 DEF OnPublish, EarlyHasRoom
  <2>2. [pending EXCEPT ![out[1].mid] = NoPending] = pending
    BY <1>3, <1>7 DEF TypeInv, TypeOK
  <2> QED BY <1>1, <1>2, <1>3, <1>4, <1>5, <1>7, <2>1, <2>2
<1> QED BY <1>6, <1>7

LEMMA OnPublishOut ==
  ASSUME TypeInv, OutInv, EarlyHasRoom, OnPublish
  PROVE  OutInv'
<1> USE PublicationsAssumption
<1> DEFINE h == out[1].mid
<1>1. /\ UNCHANGED <<generation, starting, pc, call>> /\ h \in Mids
      /\ pending' = [pending EXCEPT ![h] = NoPending]
  BY OnPublishTables DEF callVars
<1>2. \A m : Out(m) /\ m # h => Out(m)'
  <2> SUFFICES ASSUME NEW m, NEW k \in 1..Len(out), out[k].mid = m, m # h
               PROVE  \E j \in 1..Len(out') : out'[j].mid = m
    BY DEF Out
  <2>1. k \in 2..Len(out)
    BY OnPublishTables
  <2> QED BY <2>1, OnPublishTables
<1>3. /\ pending' \in [Mids -> [payload : Payloads \cup {NoPayload}, old : BOOLEAN]]
      /\ \A m \in Mids : pending'[m] # NoPending => pending[m] # NoPending /\ m # h
  <2>1. pending \in [Mids -> [payload : Payloads \cup {NoPayload}, old : BOOLEAN]]
        /\ NoPending \in [payload : Payloads \cup {NoPayload}, old : BOOLEAN]
    BY DEF TypeInv, TypeOK, NoPending
  <2> QED BY <1>1, <2>1
<1>4. PendingIsOutstanding'
  <2> SUFFICES ASSUME NEW m \in Mids, pending'[m] # NoPending
               PROVE  Out(m)'
    BY DEF PendingIsOutstanding, Out
  <2>1. Out(m) /\ m # h
    BY <1>3 DEF OutInv, PendingIsOutstanding, Out
  <2> QED BY <1>2, <2>1
<1>5. \A c \in Callers : OwnMid(c)'
  BY <1>1, <1>3 DEF OutInv, OwnMid
<1>6. \A c \in Callers : Awaits(c)' => Awaits(c) /\ call[c].mid # h
  <2> SUFFICES ASSUME NEW c \in Callers, Awaits(c)'
               PROVE  Awaits(c) /\ call[c].mid # h
    OBVIOUS
  <2>1. pc[c] = "record" /\ Records(c) /\ early'[call[c].mid] = NoAck
    BY <1>1 DEF Awaits, Records
  <2>2. call[c].mid \in Mids /\ c \in Started(starting)
    BY <2>1 DEF Records, TypeInv, CallOK, CallType, OutInv
  <2>3. call[c].mid # h
    <3> SUFFICES ASSUME call[c].mid = h PROVE FALSE
      OBVIOUS
    <3>1. pending[h] = NoPending
      BY <2>2 DEF OutInv, OwnMid
    <3>2. early' = [early EXCEPT ![h] = [generation |-> generation, failure |-> out[1].failure]]
      BY <2>2, <3>1, OnPublishTables
    <3>3. early'[h] = [generation |-> generation, failure |-> out[1].failure]
      BY <1>1, <3>2 DEF TypeInv
    <3>4. generation # -1
      BY DEF TypeInv, TypeOK
    <3> QED BY <2>1, <3>3, <3>4 DEF NoAck
  <2>4. early'[call[c].mid] = early[call[c].mid]
    BY <2>2, <2>3, OnPublishTables DEF TypeInv
  <2> QED BY <2>1, <2>3, <2>4 DEF Awaits
<1>7. \A c \in Callers : Awaits(c)' => Out(call[c].mid)'
  BY <1>1, <1>2, <1>6 DEF OutInv, Out
<1>8. \A c \in Callers : pc'[c] \in {"send", "record"} /\ call'[c].generation = generation'
                           => c \in Started(starting)'
  BY <1>1 DEF OutInv, Started
<1> QED BY <1>1, <1>4, <1>5, <1>7, <1>8 DEF OutInv, Out

LEMMA InvalidateOut ==
  ASSUME TypeInv, OutInv, NEW t \in Callers, Invalidate(t)
  PROVE  OutInv'
<1>1. /\ generation \in Nat /\ generation' = generation + 1 /\ UNCHANGED <<pc, call>>
      /\ \A m \in Mids : pending'[m] = NoPending
      /\ \A c \in Callers : call[c].generation \in Nat /\ call[c].generation <= generation
  BY DEF Invalidate, Forget, callVars, TypeInv, TypeOK, CallOK, CallType
<1>2. \A c \in Callers : call'[c].generation # generation'
  BY <1>1
<1>3. \A c \in Callers : OwnMid(c)'
  BY <1>1 DEF OutInv, OwnMid
<1>4. PendingIsOutstanding'
  BY <1>1 DEF PendingIsOutstanding
<1>5. \A c \in Callers : ~Awaits(c)'
  BY <1>2 DEF Awaits, Records
<1> QED BY <1>2, <1>3, <1>4, <1>5 DEF OutInv

LEMMA OutStep == TypeInv /\ OutInv /\ EarlyHasRoom /\ [Next]_vars => OutInv'
<1> SUFFICES ASSUME TypeInv, OutInv, EarlyHasRoom, [Next]_vars PROVE OutInv'
  OBVIOUS
<1> USE TypeStep
<1>1. ASSUME NEW c \in Callers, Proceed(c) PROVE OutInv'
  BY <1>1, FreshCallQuiet, QuietOut, SendOut, RecordOut DEF Proceed
<1>2. ASSUME NEW c \in Callers, LoopInvalidates(c) PROVE OutInv'
  BY <1>2, InvalidateOut DEF LoopInvalidates
<1>3. CASE Acknowledge
  BY <1>3, AroundQuiet, QuietOut, OnPublishOut DEF Acknowledge
<1>4. CASE Connection
  BY <1>4, AroundQuiet, QuietOut, InvalidateOut DEF Connection, CallbackInvalidates, Callers
<1> QED BY <1>1, <1>2, <1>3, <1>4, FreshCallQuiet, AroundQuiet, QuietOut DEF Next

\* While the table of early acknowledgements has room, a publication is pending only
\* while its message is out, however many threads publish (`_pending` in publish and
\* on_publish).
THEOREM PendingOutstanding == Spec /\ []EarlyHasRoom => []PendingIsOutstanding
<1>1. Spec => []TypeInv
  BY TypeInit, TypeStep, PTL DEF Spec
<1>2. Spec /\ []EarlyHasRoom => []OutInv
  BY <1>1, OutInit, OutStep, PTL DEF Spec
<1>3. OutInv => PendingIsOutstanding
  BY DEF OutInv
<1> QED BY <1>2, <1>3, PTL

(***************************************************************************)
(* The cache and the broker                                                *)
(***************************************************************************)
\* Retained state has one publisher, as in the service, whose loop thread it is.
OneWriter == \A v, w \in Workers : v = w

\* Only the one publisher's calls are recorded.
LEMMA WriterRecords ==
  ASSUME TypeInv, OneWriter
  PROVE  /\ \A c \in Callers : Records(c) => c \in Workers /\ call[c].mid \in Mids
         /\ \A c, d \in Callers : call[c].retain /\ call[d].retain => c = d
BY DEF TypeInv, CallOK, CallType, Records, OneWriter

LEMMA OutTyped ==
  ASSUME TypeInv
  PROVE  /\ out \in Seq(MessageType) /\ Len(out) \in Nat /\ taken \in Nat /\ taken <= Len(out)
         /\ \A k \in 1..Len(out) : /\ out[k] \in MessageType /\ out[k].mid \in Mids
                                   /\ out[k].payload \in Payloads
                                   /\ out[k].retain \in BOOLEAN /\ out[k].failure \in BOOLEAN
<1>1. out \in Seq(MessageType) /\ Len(out) \in Nat /\ taken \in Nat /\ taken <= Len(out)
  BY DEF TypeInv, TypeOK
<1> QED BY <1>1, OutIsMessage

LEMMA CacheInit == Init => CacheInv
BY DEF Init, CacheInv, QueueInv, MatchInv, BrokerInv, StaleInv, AccountInv, PromiseInv, SentInv,
       Fresh

\* A quiet step changes neither what is accounted for nor what is promised.
LEMMA QuietCalls ==
  ASSUME TypeInv, TypeInv', QuietStep
  PROVE  /\ \A c \in Callers : call'[c].mid # NoMid => call'[c] = call[c]
         /\ \A c \in Callers : Promised(c)' <=> Promised(c)
         /\ \A c \in Callers : Promised(c)' => call'[c] = call[c]
         /\ \A k \in 1..Len(out) : Accounted(k)' <=> Accounted(k)
<1> USE PublicationsAssumption
<1>1. \A c \in Callers : call'[c].mid # NoMid => call'[c] = call[c]
  BY DEF QuietStep, TypeInv, CallOK
<1>2. \A c \in Callers : pc[c] = "record" \/ pc'[c] = "record" =>
                           pc'[c] = pc[c] /\ call'[c] = call[c]
  BY DEF QuietStep
<1>3. \A c \in Callers : pc[c] = "record" \/ pc'[c] = "record" => (Records(c)' <=> Records(c))
  BY <1>2 DEF QuietStep, Records
<1>4. \A c \in Callers : /\ Promised(c)' <=> Promised(c)
                         /\ Promised(c)' => call'[c] = call[c]
  BY <1>2, <1>3 DEF Promised, QuietStep
<1>5. ASSUME NEW k \in 1..Len(out)
      PROVE  Accounted(k)' <=> Accounted(k)
  <2>1. out'[k].mid = out[k].mid /\ out[k].mid \in Mids
    BY OutTyped DEF QuietStep
  <2>2. (pending'[out[k].mid] = NoPending) <=> (pending[out[k].mid] = NoPending)
    BY <2>1 DEF QuietStep
  <2> QED BY <1>2, <1>3, <2>1, <2>2 DEF Accounted
<1> QED BY <1>1, <1>4, <1>5

LEMMA QuietMatch ==
  ASSUME TypeInv, TypeInv', QuietStep, MatchInv
  PROVE  MatchInv'
<1> USE PublicationsAssumption
<1> SUFFICES ASSUME NEW k \in 1..Len(out)
             PROVE  /\ pending'[out'[k].mid] # NoPending =>
                         out'[k].retain /\ out'[k].payload = pending'[out'[k].mid].payload
                    /\ \A c \in Callers : call'[c].mid = out'[k].mid =>
                         /\ out'[k].retain = call'[c].retain
                         /\ out'[k].payload = call'[c].payload
                         /\ call'[c].retain => \A j \in k+1..Len(out') : ~out'[j].retain
  BY DEF MatchInv, QuietStep
<1>1. /\ out'[k].mid = out[k].mid /\ out[k].mid \in Mids /\ out'[k].retain = out[k].retain
      /\ out'[k].payload = out[k].payload /\ Len(out') = Len(out)
  BY OutTyped DEF QuietStep
<1>2. pending'[out'[k].mid] # NoPending =>
        out'[k].retain /\ out'[k].payload = pending'[out'[k].mid].payload
  BY <1>1 DEF QuietStep, MatchInv
<1>3. ASSUME NEW c \in Callers, call'[c].mid = out'[k].mid
      PROVE  /\ out'[k].retain = call'[c].retain /\ out'[k].payload = call'[c].payload
             /\ call'[c].retain => \A j \in k+1..Len(out') : ~out'[j].retain
  <2>1. call'[c] = call[c]
    BY <1>1, <1>3, QuietCalls
  <2>2. call[c].retain => \A j \in k+1..Len(out) : ~out[j].retain
    BY <1>1, <1>3, <2>1 DEF MatchInv
  <2>3. \A j \in k+1..Len(out) : j \in 1..Len(out)
    BY OutTyped
  <2>4. \A j \in k+1..Len(out) : out'[j].retain = out[j].retain
    BY <2>3 DEF QuietStep
  <2> QED BY <1>1, <1>3, <2>1, <2>2, <2>4 DEF MatchInv
<1> QED BY <1>2, <1>3

LEMMA QuietCache ==
  ASSUME TypeInv, TypeInv', QuietStep, CacheInv, sent' = sent, Fresh' => Fresh
  PROVE  MatchInv' /\ StaleInv' /\ AccountInv'
<1> USE PublicationsAssumption
<1>1. StaleInv'
  <2> SUFFICES ASSUME NEW c \in Workers, pc'[c] \in {"send", "record"},
                      call'[c].generation # generation'
               PROVE  sent' = NoPayload /\ \A m \in Mids : pending'[m] = NoPending
    BY DEF StaleInv
  <2>1. pc'[c] = pc[c] /\ call'[c] = call[c] /\ generation' = generation
    BY DEF QuietStep, Callers
  <2> QED BY <2>1 DEF CacheInv, StaleInv, QuietStep
<1>2. AccountInv'
  <2> SUFFICES ASSUME Fresh', NEW k \in 1..Len(out'), out'[k].retain,
                      sent' # NoPayload \/ \E j \in 1..k : out'[j].retain /\ Accounted(j)'
               PROVE  Accounted(k)'
    BY DEF AccountInv
  <2>1. Len(out') = Len(out) /\ \A j \in 1..Len(out) : out'[j].retain = out[j].retain
    BY DEF QuietStep
  <2>2. \A j \in 1..k : j \in 1..Len(out)
    BY <2>1, OutTyped
  <2>3. sent # NoPayload \/ \E j \in 1..k : out[j].retain /\ Accounted(j)
    BY <2>1, <2>2, QuietCalls
  <2> QED BY <2>1, <2>3, QuietCalls DEF CacheInv, AccountInv
<1> QED BY <1>1, <1>2, QuietMatch DEF CacheInv

LEMMA RestCache ==
  ASSUME TypeInv, TypeInv', CacheInv, QuietStep, UNCHANGED <<out, sent, taken, broker>>,
         Fresh' => Fresh
  PROVE  CacheInv'
<1>1. QueueInv'
  BY DEF CacheInv, QueueInv, QuietStep
<1>2. BrokerInv'
  BY DEF CacheInv, BrokerInv, Landed
<1>3. PromiseInv'
  BY QuietCalls DEF CacheInv, PromiseInv
<1>4. SentInv'
  <2>1. \A k : Landed(k)' <=> Landed(k)
    BY DEF Landed
  <2> QED BY <2>1, QuietCalls DEF CacheInv, SentInv
<1> QED BY <1>1, <1>2, <1>3, <1>4, QuietCache DEF CacheInv

LEMMA TakeCache ==
  ASSUME TypeInv, TypeInv', CacheInv, Take
  PROVE  CacheInv'
<1>0. PICK n \in 1..Len(out) : n = taken + 1 /\ n > taken
  BY OutTyped DEF Take
<1>1. QuietStep
  BY AroundQuiet
<1>2. /\ taken' = n /\ out \in Seq(MessageType)
      /\ UNCHANGED <<sent, up, net, early, pending, generation, call, pc>>
  BY <1>0, OutTyped DEF Take, cacheVars, callVars
<1>3. \/ /\ out' = out /\ broker' = IF out[n].retain THEN out[n].payload ELSE broker
      \/ /\ out' = [out EXCEPT ![n].failure = TRUE] /\ broker' = broker
  BY <1>0 DEF Take
<1>4. /\ Len(out') = Len(out)
      /\ \A k \in 1..Len(out) : /\ out'[k].mid = out[k].mid /\ out'[k].retain = out[k].retain
                                /\ out'[k].payload = out[k].payload
  BY <1>1 DEF QuietStep
<1>5. \A k \in 1..Len(out) : k # n => out'[k].failure = out[k].failure
  BY <1>2, <1>3, RefusedOut
<1>6. ~out[n].failure
  BY <1>0 DEF CacheInv, QueueInv
\* The broker took the message, or there is nothing new to retain.
<1>7. \/ out[n].retain /\ ~out'[n].failure /\ broker' = out[n].payload
      \/ (~out[n].retain \/ out'[n].failure) /\ broker' = broker
  <2>1. CASE out' = out /\ broker' = IF out[n].retain THEN out[n].payload ELSE broker
    BY <1>6, <2>1
  <2>2. CASE out' = [out EXCEPT ![n].failure = TRUE] /\ broker' = broker
    <3>1. out'[n] = [out[n] EXCEPT !.failure = TRUE] /\ out[n] \in MessageType
      BY <1>2, <2>2, RefusedOut, OutTyped
    <3>2. out'[n].failure
      BY <3>1 DEF MessageType
    <3> QED BY <2>2, <3>2
  <2> QED BY <1>3, <2>1, <2>2
<1>8. \A k \in 1..Len(out) : k # n => (Landed(k)' <=> Landed(k))
  <2> SUFFICES ASSUME NEW k \in 1..Len(out), k # n PROVE Landed(k)' <=> Landed(k)
    OBVIOUS
  <2>1. k <= taken' <=> k <= taken
    BY <1>0, <1>2, OutTyped
  <2> QED BY <1>4, <1>5, <2>1 DEF Landed
<1>9. /\ Landed(n)' <=> out[n].retain /\ ~out'[n].failure
      /\ \A k \in 1..Len(out) : Landed(k)' => k <= n
      /\ \A k \in 1..Len(out) : Landed(k) => k < n
  BY <1>0, <1>2, <1>4, OutTyped DEF Landed
<1>10. QueueInv'
  <2>1. \A k \in 1..Len(out) : k > n => k > taken
    BY <1>0, <1>2, OutTyped
  <2>2. \A k \in 1..Len(out) : k > n => ~out'[k].failure
    BY <1>2, <1>5, <2>1 DEF CacheInv, QueueInv
  <2> QED BY <1>2, <1>4, <2>2 DEF CacheInv, QueueInv
<1>11. BrokerInv'
  <2> SUFFICES ASSUME NEW k \in 1..Len(out), Landed(k)',
                      \A j \in k+1..Len(out) : ~Landed(j)'
               PROVE  broker' = out[k].payload
    BY <1>4 DEF BrokerInv
  <2>1. CASE k = n
    BY <1>7, <1>9, <2>1
  <2>2. CASE k # n
    <3>1. Landed(k) /\ k < n
      BY <1>8, <1>9, <2>2
    <3>2. n \in k+1..Len(out)
      BY <1>2, <3>1
    <3>3. ~Landed(n)' /\ broker' = broker
      BY <1>7, <1>9, <3>2
    <3>4. \A j \in k+1..Len(out) : j \in 1..Len(out) /\ ~Landed(j)
      BY <1>8, <1>9, <1>2
    <3> QED BY <3>1, <3>3, <3>4 DEF CacheInv, BrokerInv
  <2> QED BY <2>1, <2>2
<1>12. PromiseInv'
  <2> SUFFICES ASSUME Fresh', NEW c \in Callers, Promised(c)'
               PROVE  broker' = call'[c].payload /\ \A k \in 1..Len(out) : ~out[k].retain
    BY <1>4 DEF PromiseInv
  <2>1. Fresh /\ Promised(c) /\ call'[c] = call[c]
    BY <1>1, <1>2, QuietCalls DEF Fresh
  <2>2. broker = call[c].payload /\ \A k \in 1..Len(out) : ~out[k].retain
    BY <2>1 DEF CacheInv, PromiseInv
  <2> QED BY <1>2, <1>7, <2>1, <2>2
<1>13. SentInv'
  <2> SUFFICES ASSUME Fresh', sent' # NoPayload, \A k \in 1..Len(out) : ~Landed(k)'
               PROVE  broker' = sent' \/ \E c \in Callers : Promised(c)'
    BY <1>4 DEF SentInv
  <2>1. broker' = broker
    BY <1>2, <1>7, <1>9
  <2>2. \A k \in 1..Len(out) : ~Landed(k)
    BY <1>8, <1>9, <1>2
  <2>3. broker = sent \/ \E c \in Callers : Promised(c)
    BY <1>2, <2>2 DEF CacheInv, SentInv, Fresh
  <2> QED BY <1>1, <1>2, <2>1, <2>3, QuietCalls
<1>14. Fresh' => Fresh
  BY <1>2 DEF Fresh
<1> QED BY <1>1, <1>2, <1>10, <1>11, <1>12, <1>13, <1>14, QuietCache DEF CacheInv

LEMMA LinkLossCache ==
  ASSUME TypeInv, TypeInv', CacheInv, LinkLoss
  PROVE  CacheInv'
<1>1. QuietStep
  BY AroundQuiet
<1>2. /\ ~up' /\ taken' = 0 /\ sent' = sent /\ early' = early
  BY DEF LinkLoss, cacheVars
<1>3. ~Fresh'
  BY <1>2 DEF Fresh
<1>4. \A k \in 1..Len(out) : ~out'[k].failure
  <2>1. \A k \in 1..Len(out) : /\ out'[k] = [out[k] EXCEPT !.failure = FALSE]
                               /\ out[k] \in MessageType
    BY OutTyped, UnmarkedOut DEF LinkLoss
  <2> QED BY <2>1 DEF MessageType
<1>5. QueueInv'
  BY <1>1, <1>2, <1>4 DEF QuietStep, CacheInv, QueueInv
<1>6. \A k \in 1..Len(out') : ~Landed(k)'
  BY <1>2 DEF Landed
<1>7. BrokerInv' /\ PromiseInv' /\ SentInv'
  BY <1>3, <1>6 DEF BrokerInv, PromiseInv, SentInv
<1> QED BY <1>1, <1>2, <1>3, <1>5, <1>7, QuietCache DEF CacheInv

LEMMA InvalidateCache ==
  ASSUME TypeInv, CacheInv, NEW t \in Callers, Invalidate(t)
  PROVE  CacheInv'
<1>1. /\ generation \in Nat /\ generation' = generation + 1
      /\ UNCHANGED <<pc, call, out, taken, broker>>
      /\ sent' = NoPayload /\ \A m \in Mids : pending'[m] = NoPending /\ early'[m] = NoAck
      /\ \A c \in Callers : call[c].generation \in Nat /\ call[c].generation <= generation
  BY DEF Invalidate, Forget, NoEarly, callVars, clientVars, TypeInv, TypeOK, CallOK, CallType
<1>2. \A c \in Callers : ~Records(c)' /\ ~Promised(c)'
  BY <1>1 DEF Records, Promised
<1>3. \A k \in 1..Len(out) : out[k].mid \in Mids /\ ~Accounted(k)' /\ (Landed(k)' <=> Landed(k))
  BY <1>1, <1>2, OutTyped DEF Accounted, Landed
<1>4. QueueInv'
  BY <1>1, <1>3 DEF CacheInv, QueueInv
<1>5. MatchInv'
  BY <1>1, <1>3 DEF CacheInv, MatchInv
<1>6. BrokerInv'
  BY <1>1 DEF CacheInv, BrokerInv, Landed
<1>7. StaleInv' /\ SentInv'
  BY <1>1 DEF StaleInv, SentInv
<1>8. AccountInv'
  <2>1. \A k \in 1..Len(out) : \A j \in 1..k : j \in 1..Len(out)
    BY OutTyped
  <2> QED BY <1>1, <1>3, <2>1 DEF AccountInv
<1>9. PromiseInv'
  BY <1>2 DEF PromiseInv
<1> QED BY <1>4, <1>5, <1>6, <1>7, <1>8, <1>9 DEF CacheInv

\* A call that queued nothing.
LEMMA SendNothingCache ==
  ASSUME TypeInv, CacheInv, NEW c \in Callers, Send(c), out' = out,
         call'[c].mid = NoMid, call'[c].result \in {"raised", "error"}
  PROVE  CacheInv'
<1> USE PublicationsAssumption
<1>1. /\ UNCHANGED <<generation, sent, pending, early, out, taken, broker, up, net>>
      /\ pc[c] = "send" /\ pc'[c] = "record" /\ call'[c].generation = call[c].generation
      /\ \A d \in Callers \ {c} : call'[d] = call[d] /\ pc'[d] = pc[d]
  BY SendAside
<1>2. ~Records(c)'
  BY DEF Records
<1>3. \A d \in Callers : pc[d] = "record" /\ Records(d) => d # c
  BY <1>1
<1>4. \A d \in Callers \ {c} : Records(d)' <=> Records(d)
  BY <1>1 DEF Records
<1>5. \A d \in Callers : /\ Promised(d)' <=> Promised(d)
                         /\ Promised(d)' => call'[d] = call[d]
  BY <1>1, <1>2, <1>3, <1>4 DEF Promised
<1>6. \A k \in 1..Len(out) : Accounted(k)' <=> Accounted(k)
  BY <1>1, <1>2, <1>3, <1>4 DEF Accounted
<1>7. \A k \in 1..Len(out) : Landed(k)' <=> Landed(k)
  BY <1>1 DEF Landed
<1>8. QueueInv'
  BY <1>1 DEF CacheInv, QueueInv
<1>9. MatchInv'
  <2>1. \A k \in 1..Len(out), d \in Callers : call'[d].mid = out[k].mid => d # c
    BY OutTyped
  <2> QED BY <1>1, <2>1 DEF CacheInv, MatchInv
<1>10. BrokerInv'
  BY <1>1 DEF CacheInv, BrokerInv, Landed
<1>11. StaleInv'
  BY <1>1 DEF CacheInv, StaleInv, Callers
<1>12. AccountInv'
  <2>1. \A k \in 1..Len(out) : \A j \in 1..k : j \in 1..Len(out)
    BY OutTyped
  <2> QED BY <1>1, <1>6, <2>1 DEF CacheInv, AccountInv, Fresh
<1>13. PromiseInv'
  BY <1>1, <1>5 DEF CacheInv, PromiseInv, Fresh
<1>14. SentInv'
  BY <1>1, <1>5, <1>7 DEF CacheInv, SentInv, Fresh
<1> QED BY <1>8, <1>9, <1>10, <1>11, <1>12, <1>13, <1>14 DEF CacheInv

\* A call that queued message r, with an identity of its own.
LEMMA SendOneCache ==
  ASSUME TypeInv, CacheInv, OneWriter, NEW c \in Callers, Send(c),
         NEW m \in Mids, Unused(m), call'[c].mid = m,
         call'[c].result = IF up THEN "success" ELSE "error",
         NEW r \in MessageType, r.mid = m, r.payload = call[c].payload,
         r.retain = call[c].retain, ~r.failure, out' = Append(out, r)
  PROVE  CacheInv'
<1> USE PublicationsAssumption
<1>0. PICK n \in Nat : /\ n = Len(out) + 1 /\ Len(out') = n /\ n \in 1..Len(out') /\ out'[n] = r
                       /\ taken < n
                       /\ \A k \in 1..Len(out) : out'[k] = out[k]
                       /\ \A k \in 1..n : k \in 1..Len(out) \/ k = n
                       /\ \A k \in 1..Len(out) : k \in 1..n /\ k < n
  BY AppendOut, OutTyped
<1>1. /\ UNCHANGED <<generation, sent, pending, early, taken, broker, up, net>>
      /\ pc[c] = "send" /\ pc'[c] = "record" /\ call'[c].generation = call[c].generation
      /\ call'[c].payload = call[c].payload /\ call'[c].retain = call[c].retain
      /\ \A d \in Callers \ {c} : call'[d] = call[d] /\ pc'[d] = pc[d]
  BY SendAside
<1>2. /\ \A k \in 1..Len(out) : out[k].mid # m
      /\ \A d \in Callers : call[d].mid # m
      /\ pending[m] = NoPending /\ early[m] = NoAck
  BY DEF Unused
<1>3. \A d \in Callers \ {c} : Records(d)' <=> Records(d)
  BY <1>1 DEF Records
<1>4. \A d \in Callers : Promised(d)' <=> Promised(d)
  <2>1. ~Promised(c)
    BY <1>1 DEF Promised
  <2>2. ~Promised(c)'
    <3>1. NoAck.generation # generation
      BY DEF NoAck, TypeInv, TypeOK
    <3> QED BY <1>1, <1>2, <3>1 DEF Promised
  <2>3. ASSUME NEW d \in Callers \ {c} PROVE Promised(d)' <=> Promised(d)
    BY <1>1, <1>3 DEF Promised
  <2> QED BY <2>1, <2>2, <2>3
<1>5. \A k \in 1..Len(out) : Accounted(k)' <=> Accounted(k)
  <2> SUFFICES ASSUME NEW k \in 1..Len(out) PROVE Accounted(k)' <=> Accounted(k)
    OBVIOUS
  <2>1. out'[k].mid = out[k].mid /\ out[k].mid # m
    BY <1>0, <1>2
  <2> QED BY <1>1, <1>3, <2>1 DEF Accounted
<1>6. /\ \A k \in 1..Len(out) : Landed(k)' <=> Landed(k)
      /\ ~Landed(n)'
  BY <1>0, <1>1, OutTyped DEF Landed
<1>7. QueueInv'
  <2>1. \A j, k \in 1..n : out'[j].mid = out'[k].mid => j = k
    BY <1>0, <1>2 DEF CacheInv, QueueInv
  <2>2. \A k \in 1..n : early'[out'[k].mid] = NoAck /\ (k > taken' => ~out'[k].failure)
    BY <1>0, <1>1, <1>2 DEF CacheInv, QueueInv
  <2> QED BY <1>0, <2>1, <2>2 DEF QueueInv
<1>8. MatchInv'
  <2> SUFFICES ASSUME NEW k \in 1..n
               PROVE  /\ pending'[out'[k].mid] # NoPending =>
                           /\ out'[k].retain
                           /\ out'[k].payload = pending'[out'[k].mid].payload
                      /\ \A d \in Callers : call'[d].mid = out'[k].mid =>
                           /\ out'[k].retain = call'[d].retain
                           /\ out'[k].payload = call'[d].payload
                           /\ call'[d].retain => \A j \in k+1..n : ~out'[j].retain
    BY <1>0 DEF MatchInv
  <2>1. CASE k = n
    <3>1. \A d \in Callers : call'[d].mid = m => d = c
      BY <1>1, <1>2
    <3>2. k+1..n = {}
      BY <2>1
    <3> QED BY <1>0, <1>1, <1>2, <2>1, <3>1, <3>2
  <2>2. CASE k \in 1..Len(out)
    <3>1. out'[k] = out[k] /\ out[k].mid # m
      BY <1>0, <1>2, <2>2
    <3>2. pending'[out'[k].mid] # NoPending =>
            out'[k].retain /\ out'[k].payload = pending'[out'[k].mid].payload
      BY <1>1, <2>2, <3>1 DEF CacheInv, MatchInv
    <3>3. ASSUME NEW d \in Callers, call'[d].mid = out'[k].mid
          PROVE  /\ out'[k].retain = call'[d].retain /\ out'[k].payload = call'[d].payload
                 /\ call'[d].retain => \A j \in k+1..n : ~out'[j].retain
      <4>1. d # c /\ call'[d] = call[d]
        BY <1>1, <3>1, <3>3
      <4>2. /\ out[k].retain = call[d].retain /\ out[k].payload = call[d].payload
            /\ call[d].retain => \A j \in k+1..Len(out) : ~out[j].retain
        BY <2>2, <3>1, <3>3, <4>1 DEF CacheInv, MatchInv
      <4>3. call[d].retain => ~r.retain
        BY <4>1, WriterRecords
      <4>4. \A j \in k+1..n : j = n \/ (j \in k+1..Len(out) /\ j \in 1..Len(out))
        BY <1>0, OutTyped
      <4> QED BY <1>0, <3>1, <4>1, <4>2, <4>3, <4>4
    <3> QED BY <3>2, <3>3
  <2> QED BY <1>0, <2>1, <2>2
<1>9. BrokerInv'
  <2> SUFFICES ASSUME NEW k \in 1..n, Landed(k)', \A j \in k+1..n : ~Landed(j)'
               PROVE  broker' = out'[k].payload
    BY <1>0 DEF BrokerInv
  <2>1. k \in 1..Len(out) /\ Landed(k)
    BY <1>0, <1>6
  <2>2. \A j \in k+1..Len(out) : j \in k+1..n /\ j \in 1..Len(out)
    BY <1>0, OutTyped
  <2>3. \A j \in k+1..Len(out) : ~Landed(j)
    BY <1>6, <2>2
  <2> QED BY <1>0, <1>1, <2>1, <2>3 DEF CacheInv, BrokerInv
<1>10. StaleInv'
  BY <1>1 DEF CacheInv, StaleInv, Callers
<1>11. AccountInv'
  <2> SUFFICES ASSUME Fresh', NEW k \in 1..n, out'[k].retain,
                      sent' # NoPayload \/ \E j \in 1..k : out'[j].retain /\ Accounted(j)'
               PROVE  Accounted(k)'
    BY <1>0 DEF AccountInv
  <2>1. Fresh /\ up
    BY <1>1 DEF Fresh
  <2>2. CASE k \in 1..Len(out)
    <3>1. \A j \in 1..k : j \in 1..Len(out)
      BY <2>2, OutTyped
    <3>2. sent # NoPayload \/ \E j \in 1..k : out[j].retain /\ Accounted(j)
      BY <1>0, <1>1, <1>5, <3>1
    <3> QED BY <1>0, <1>5, <2>1, <2>2, <3>2 DEF CacheInv, AccountInv
  <2>3. CASE k = n /\ call[c].generation = generation
    <3>1. Records(c)'
      BY <1>0, <1>1, <2>1, <2>3 DEF Records
    <3> QED BY <1>0, <1>1, <2>3, <3>1 DEF Accounted
  <2>4. CASE k = n /\ call[c].generation # generation
    <3>1. c \in Workers /\ call[c].retain
      BY <1>0, <2>4 DEF TypeInv, CallOK
    <3>2. sent = NoPayload /\ \A i \in Mids : pending[i] = NoPending
      BY <1>1, <2>4, <3>1 DEF CacheInv, StaleInv
    <3>3. \A d \in Callers : ~(pc'[d] = "record" /\ Records(d)')
      <4>1. ~Records(c)'
        BY <1>1, <2>4 DEF Records
      <4>2. \A d \in Callers \ {c} : ~Records(d)
        BY <3>1, WriterRecords DEF Records
      <4> QED BY <1>3, <4>1, <4>2
    <3>4. \A j \in 1..n : out'[j].mid \in Mids
      BY <1>0, OutTyped
    <3>5. \A j \in 1..n : ~Accounted(j)'
      BY <1>1, <3>2, <3>3, <3>4 DEF Accounted
    <3> QED BY <1>1, <2>4, <3>2, <3>5
  <2> QED BY <1>0, <2>2, <2>3, <2>4
<1>12. PromiseInv'
  <2> SUFFICES ASSUME Fresh', NEW d \in Callers, Promised(d)'
               PROVE  broker' = call'[d].payload /\ \A k \in 1..n : ~out'[k].retain
    BY <1>0 DEF PromiseInv
  <2>1. Fresh /\ Promised(d) /\ d # c
    BY <1>1, <1>4 DEF Fresh, Promised
  <2>2. broker = call[d].payload /\ \A k \in 1..Len(out) : ~out[k].retain
    BY <2>1 DEF CacheInv, PromiseInv
  <2>3. ~r.retain
    BY <2>1, WriterRecords DEF Promised, Records
  <2> QED BY <1>0, <1>1, <2>1, <2>2, <2>3
<1>13. SentInv'
  <2> SUFFICES ASSUME Fresh', sent' # NoPayload, \A k \in 1..n : ~Landed(k)'
               PROVE  broker' = sent' \/ \E d \in Callers : Promised(d)'
    BY <1>0 DEF SentInv
  <2>1. \A k \in 1..Len(out) : ~Landed(k)
    BY <1>0, <1>6
  <2> QED BY <1>1, <1>4, <2>1 DEF CacheInv, SentInv, Fresh
<1> QED BY <1>7, <1>8, <1>9, <1>10, <1>11, <1>12, <1>13 DEF CacheInv

LEMMA SendCache ==
  ASSUME TypeInv, CacheInv, OneWriter, NEW c \in Callers, Send(c)
  PROVE  CacheInv'
<1>1. \A m \in Mids :
        LET r == [mid |-> m, payload |-> call[c].payload, retain |-> call[c].retain,
                  failure |-> FALSE] IN
        /\ r \in MessageType /\ r.mid = m /\ r.payload = call[c].payload
        /\ r.retain = call[c].retain /\ ~r.failure
  <2>1. call[c].payload \in Payloads /\ call[c].retain \in BOOLEAN
    BY SendQueue DEF TypeInv, CallOK, CallType
  <2> QED BY <2>1 DEF MessageType
<1>2. ASSUME NEW m \in Mids, Unused(m), call'[c].mid = m,
             call'[c].result = IF up THEN "success" ELSE "error",
             out' = Append(out, [mid |-> m, payload |-> call[c].payload,
                                 retain |-> call[c].retain, failure |-> FALSE])
      PROVE  CacheInv'
  BY <1>1, <1>2, SendOneCache
<1> QED BY <1>2, SendNothingCache, SendQueue, Zenon

LEMMA RecordCache ==
  ASSUME TypeInv, OutInv, CacheInv, OneWriter, NEW c \in Callers, Record(c)
  PROVE  CacheInv'
<1> USE PublicationsAssumption
<1>1. /\ UNCHANGED <<generation, desired, out, taken, broker, up, net>>
      /\ pc[c] = "record" /\ pc'[c] = "idle" /\ call'[c].mid = NoMid
      /\ \A d \in Callers \ {c} : call'[d] = call[d] /\ pc'[d] = pc[d]
  <2>1. NoCall.mid = NoMid
    BY DEF NoCall
  <2> QED BY <2>1, RecordTables DEF clientVars
<1>2. \A m \in Mids : early'[m] # NoAck => early'[m] = early[m]
  BY RecordTables
<1>3. /\ \A d \in Callers \ {c} :
           pc[d] = "record" /\ Records(d) => early'[call[d].mid] = early[call[d].mid]
      /\ \A m \in Mids : pending'[m] = IF Awaits(c) /\ m = call[c].mid
                                       THEN [payload |-> call[c].payload, old |-> FALSE]
                                       ELSE pending[m]
  <2>1. pending' = IF Awaits(c)
                   THEN [pending EXCEPT ![call[c].mid] =
                           [payload |-> call[c].payload, old |-> FALSE]]
                   ELSE pending
    BY RecordTables
  <2>2. \A m \in Mids : pending'[m] = IF Awaits(c) /\ m = call[c].mid
                                      THEN [payload |-> call[c].payload, old |-> FALSE]
                                      ELSE pending[m]
    BY <2>1 DEF TypeInv, TypeOK
  <2> QED BY <2>2, RecordTables
<1>4. sent' = IF Promised(c) THEN Cached(call[c].payload) ELSE sent
  <2>1. Records(c) => Early(c) = early[call[c].mid] /\ call[c].generation = generation
    BY RecordTables DEF Records
  <2>2. generation # NoAck.generation
    BY DEF NoAck, TypeInv, TypeOK
  <2>3. Promised(c) <=> /\ Records(c) /\ Early(c) # NoAck
                        /\ Early(c).generation = call[c].generation /\ ~Early(c).failure
    BY <1>1, <2>1, <2>2 DEF Promised
  <2> QED BY <2>3 DEF Record
<1>5. [payload |-> call[c].payload, old |-> FALSE] # NoPending
  BY <1>1 DEF NoPending, TypeInv, CallOK
<1>6. \A d \in Callers \ {c} : Records(d)' <=> Records(d)
  BY <1>1 DEF Records
<1>7. \A d \in Callers : Promised(d)' <=> d # c /\ Promised(d)
  BY <1>1, <1>3, <1>6 DEF Promised
\* The call's message, while it is out, becomes the pending one.
<1>8. \A k \in 1..Len(out) : Accounted(k)' <=> Accounted(k)
  <2> SUFFICES ASSUME NEW k \in 1..Len(out) PROVE Accounted(k)' <=> Accounted(k)
    OBVIOUS
  <2>1. out[k].mid \in Mids /\ early[out[k].mid] = NoAck
    BY OutTyped DEF CacheInv, QueueInv
  <2>2. Awaits(c) <=> Records(c) /\ early[call[c].mid] = NoAck
    BY <1>1 DEF Awaits
  <2>3. pending'[out[k].mid] # NoPending <=>
          pending[out[k].mid] # NoPending \/ (Records(c) /\ call[c].mid = out[k].mid)
    BY <1>3, <1>5, <2>1, <2>2
  <2> QED BY <1>1, <1>6, <2>1, <2>3 DEF Accounted
<1>9. QueueInv'
  <2>1. \A k \in 1..Len(out) : out[k].mid \in Mids /\ early'[out[k].mid] = NoAck
    BY <1>2, OutTyped DEF CacheInv, QueueInv
  <2> QED BY <1>1, <2>1 DEF CacheInv, QueueInv
<1>10. MatchInv'
  <2> SUFFICES ASSUME NEW k \in 1..Len(out)
               PROVE  /\ pending'[out[k].mid] # NoPending =>
                           out[k].retain /\ out[k].payload = pending'[out[k].mid].payload
                      /\ \A d \in Callers : call'[d].mid = out[k].mid =>
                           /\ out[k].retain = call'[d].retain
                           /\ out[k].payload = call'[d].payload
                           /\ call'[d].retain => \A j \in k+1..Len(out) : ~out[j].retain
    BY <1>1 DEF MatchInv
  <2>1. out[k].mid \in Mids
    BY OutTyped
  <2>2. ASSUME NEW d \in Callers, call'[d].mid = out[k].mid
        PROVE  /\ out[k].retain = call'[d].retain /\ out[k].payload = call'[d].payload
               /\ call'[d].retain => \A j \in k+1..Len(out) : ~out[j].retain
    <3>1. call'[d] = call[d]
      BY <1>1, <2>1, <2>2
    <3> QED BY <2>2, <3>1 DEF CacheInv, MatchInv
  <2>3. ASSUME pending'[out[k].mid] # NoPending
        PROVE  out[k].retain /\ out[k].payload = pending'[out[k].mid].payload
    <3>1. CASE Awaits(c) /\ out[k].mid = call[c].mid
      <4>1. out[k].retain /\ out[k].payload = call[c].payload
        BY <3>1 DEF CacheInv, MatchInv, Awaits, Records
      <4>2. pending'[out[k].mid].payload = call[c].payload
        BY <1>3, <2>1, <3>1
      <4> QED BY <4>1, <4>2
    <3>2. CASE ~(Awaits(c) /\ out[k].mid = call[c].mid)
      <4>1. pending'[out[k].mid] = pending[out[k].mid]
        BY <1>3, <2>1, <3>2
      <4> QED BY <2>3, <4>1 DEF CacheInv, MatchInv
    <3> QED BY <3>1, <3>2
  <2> QED BY <2>2, <2>3
<1>11. BrokerInv'
  BY <1>1 DEF CacheInv, BrokerInv, Landed
<1>12. StaleInv'
  <2> SUFFICES ASSUME NEW v \in Workers, pc'[v] \in {"send", "record"},
                      call'[v].generation # generation'
               PROVE  sent' = NoPayload /\ \A m \in Mids : pending'[m] = NoPending
    BY DEF StaleInv
  <2>1. v # c /\ pc[v] \in {"send", "record"} /\ call[v].generation # generation
    BY <1>1 DEF Callers
  <2>2. ~Records(c)
    BY <2>1, WriterRecords DEF OneWriter
  <2>3. \A m \in Mids : pending'[m] = pending[m]
    BY <1>3, <2>2 DEF Awaits
  <2>4. sent' = sent
    BY <1>4, <2>2 DEF Promised
  <2> QED BY <2>1, <2>3, <2>4 DEF CacheInv, StaleInv
<1>13. AccountInv'
  <2> SUFFICES ASSUME Fresh', NEW k \in 1..Len(out), out[k].retain,
                      sent' # NoPayload \/ \E j \in 1..k : out[j].retain /\ Accounted(j)'
               PROVE  Accounted(k)'
    BY <1>1 DEF AccountInv
  <2>1. Fresh
    BY <1>1 DEF Fresh
  <2>2. ~Promised(c)
    BY <2>1 DEF CacheInv, PromiseInv
  <2>3. \A j \in 1..k : j \in 1..Len(out)
    BY OutTyped
  <2>4. sent # NoPayload \/ \E j \in 1..k : out[j].retain /\ Accounted(j)
    BY <1>4, <1>8, <2>2, <2>3
  <2> QED BY <1>8, <2>1, <2>4 DEF CacheInv, AccountInv
<1>14. PromiseInv'
  <2> SUFFICES ASSUME Fresh', NEW d \in Callers, Promised(d)'
               PROVE  broker' = call'[d].payload /\ \A k \in 1..Len(out) : ~out[k].retain
    BY <1>1 DEF PromiseInv
  <2>1. Fresh /\ d # c /\ Promised(d)
    BY <1>1, <1>7 DEF Fresh
  <2> QED BY <1>1, <2>1 DEF CacheInv, PromiseInv
<1>15. SentInv'
  <2> SUFFICES ASSUME Fresh', sent' # NoPayload, \A k \in 1..Len(out) : ~Landed(k)'
               PROVE  broker' = sent' \/ \E d \in Callers : Promised(d)'
    BY <1>1 DEF SentInv
  <2>1. Fresh /\ \A k \in 1..Len(out) : ~Landed(k)
    BY <1>1 DEF Fresh, Landed
  <2>2. CASE Promised(c)
    <3>1. broker = call[c].payload
      BY <2>1, <2>2 DEF CacheInv, PromiseInv
    <3> QED BY <1>1, <1>4, <2>2, <3>1 DEF Cached
  <2>3. CASE ~Promised(c)
    <3>1. broker = sent \/ \E d \in Callers : Promised(d)
      BY <1>4, <2>1, <2>3 DEF CacheInv, SentInv
    <3> QED BY <1>1, <1>4, <1>7, <2>3, <3>1
  <2> QED BY <2>2, <2>3
<1> QED BY <1>9, <1>10, <1>11, <1>12, <1>13, <1>14, <1>15 DEF CacheInv

\* An acknowledgement caches the payload of a pending message, and is kept for a call
\* that has not returned; the messages behind it move up.
LEMMA OnPublishCache ==
  ASSUME TypeInv, OutInv, CacheInv, OneWriter, EarlyHasRoom, OnPublish
  PROVE  CacheInv'
<1> USE PublicationsAssumption
<1>0. PICK h \in MessageType : h = out[1]
  BY OnPublishTables
<1>1. /\ UNCHANGED <<generation, desired, starting, pc, call, up, broker>>
      /\ h.mid \in Mids /\ taken >= 1 /\ taken' = taken - 1 /\ net = "ack" /\ net' = "idle"
      /\ Len(out) \in Nat \ {0} /\ 1 \in 1..Len(out) /\ taken \in Nat
      /\ Len(out') = Len(out) - 1
      /\ \A k \in 1..Len(out') : k + 1 \in 1..Len(out) /\ out'[k] = out[k + 1] /\ k + 1 # 1
      /\ \A k \in 2..Len(out) : k - 1 \in 1..Len(out') /\ out'[k - 1] = out[k]
  BY <1>0, OnPublishTables, OutTyped DEF callVars
<1>2. /\ \A m \in Mids : pending'[m] = IF m = h.mid THEN NoPending ELSE pending[m]
      /\ \A m \in Mids : m # h.mid => early'[m] = early[m]
  <2>1. pending' = [pending EXCEPT ![h.mid] = NoPending]
    BY <1>0, OnPublishTables
  <2>2. \/ early' = early
        \/ early' = [early EXCEPT ![h.mid] = [generation |-> generation, failure |-> h.failure]]
    BY <1>0, OnPublishTables
  <2> QED BY <1>1, <2>1, <2>2 DEF TypeInv, TypeOK
<1>3. sent' = IF pending[h.mid] # NoPending /\ ~h.failure
              THEN Cached(pending[h.mid].payload) ELSE sent
  BY <1>0, OnPublishTables
<1>4. \/ early'[h.mid] = early[h.mid]
      \/ early'[h.mid] = [generation |-> generation, failure |-> h.failure]
  <2>1. \/ early' = early
        \/ early' = [early EXCEPT ![h.mid] = [generation |-> generation, failure |-> h.failure]]
    BY <1>0, OnPublishTables
  <2> QED BY <1>1, <2>1 DEF TypeInv
<1>5. ASSUME NEW c \in Callers, pc[c] = "record", Records(c), call[c].mid = h.mid
      PROVE  early'[h.mid] = [generation |-> generation, failure |-> h.failure]
  <2>1. pending[h.mid] = NoPending
    BY <1>1, <1>5 DEF OutInv, OwnMid
  <2>2. c \in Started(starting)
    BY <1>5 DEF OutInv, Records
  <2>3. early' = [early EXCEPT ![h.mid] = [generation |-> generation, failure |-> h.failure]]
    BY <1>0, <2>1, <2>2, OnPublishTables
  <2> QED BY <1>1, <2>3 DEF TypeInv
<1>6. early[h.mid] = NoAck /\ NoAck.generation # generation
  BY <1>0, <1>1 DEF CacheInv, QueueInv, NoAck, TypeInv, TypeOK
<1>7. \A k \in 1..Len(out') : out'[k].mid \in Mids /\ out'[k].mid # h.mid
  BY <1>0, <1>1, OutTyped DEF CacheInv, QueueInv
<1>8. \A c \in Callers : Records(c)' <=> Records(c)
  BY <1>1 DEF Records
<1>9. \A k \in 1..Len(out') : /\ Accounted(k)' <=> Accounted(k + 1)
                              /\ Landed(k)' <=> Landed(k + 1)
  <2> SUFFICES ASSUME NEW k \in 1..Len(out')
               PROVE  (Accounted(k)' <=> Accounted(k + 1)) /\ (Landed(k)' <=> Landed(k + 1))
    OBVIOUS
  <2>1. out'[k] = out[k + 1] /\ pending'[out'[k].mid] = pending[out'[k].mid]
    BY <1>1, <1>2, <1>7
  <2>2. k <= taken' <=> k + 1 <= taken
    BY <1>1
  <2>3. Accounted(k)' <=> Accounted(k + 1)
    BY <1>1, <1>8, <2>1 DEF Accounted
  <2>4. Landed(k)' <=> Landed(k + 1)
    BY <2>1, <2>2 DEF Landed
  <2> QED BY <2>3, <2>4
<1>10. Fresh' <=> Fresh
  BY <1>1 DEF Fresh
<1>11. QueueInv'
  <2>1. \A j, k \in 1..Len(out') : out'[j].mid = out'[k].mid => j = k
    <3> SUFFICES ASSUME NEW j \in 1..Len(out'), NEW k \in 1..Len(out'),
                        out'[j].mid = out'[k].mid
                 PROVE  j = k
      OBVIOUS
    <3>1. j + 1 = k + 1
      BY <1>1 DEF CacheInv, QueueInv
    <3> QED BY <3>1
  <2>2. ASSUME NEW k \in 1..Len(out')
        PROVE  early'[out'[k].mid] = NoAck /\ (k > taken' => ~out'[k].failure)
    <3>1. early'[out'[k].mid] = early[out[k + 1].mid] /\ out'[k] = out[k + 1]
      BY <1>1, <1>2, <1>7
    <3>2. k > taken' => k + 1 > taken
      BY <1>1
    <3> QED BY <1>1, <3>1, <3>2 DEF CacheInv, QueueInv
  <2> QED BY <2>1, <2>2 DEF QueueInv
<1>12. MatchInv'
  <2> SUFFICES ASSUME NEW k \in 1..Len(out')
               PROVE  /\ pending'[out'[k].mid] # NoPending =>
                           /\ out'[k].retain
                           /\ out'[k].payload = pending'[out'[k].mid].payload
                      /\ \A d \in Callers : call[d].mid = out'[k].mid =>
                           /\ out'[k].retain = call[d].retain
                           /\ out'[k].payload = call[d].payload
                           /\ call[d].retain => \A j \in k+1..Len(out') : ~out'[j].retain
    BY <1>1 DEF MatchInv
  <2>1. out'[k] = out[k + 1] /\ k + 1 \in 1..Len(out)
        /\ pending'[out'[k].mid] = pending[out'[k].mid]
    BY <1>1, <1>2, <1>7
  <2>2. \A j \in k+1..Len(out') : j \in 1..Len(out') /\ j + 1 \in (k+1)+1..Len(out)
    BY <1>1
  <2>3. \A j \in k+1..Len(out') : out'[j] = out[j + 1] /\ j + 1 \in (k+1)+1..Len(out)
    BY <1>1, <2>2
  <2> QED BY <2>1, <2>3 DEF CacheInv, MatchInv
<1>13. BrokerInv'
  <2> SUFFICES ASSUME NEW k \in 1..Len(out'), Landed(k)',
                      \A j \in k+1..Len(out') : ~Landed(j)'
               PROVE  broker = out'[k].payload
    BY <1>1 DEF BrokerInv
  <2>1. out'[k] = out[k + 1] /\ k + 1 \in 1..Len(out) /\ Landed(k + 1)
    BY <1>1, <1>9
  <2>2. ASSUME NEW j \in (k+1)+1..Len(out) PROVE ~Landed(j)
    <3>1. j - 1 \in k+1..Len(out') /\ j - 1 \in 1..Len(out') /\ (j - 1) + 1 = j
      BY <1>1, <2>2
    <3>2. ~Landed((j - 1) + 1)
      BY <1>9, <3>1
    <3> QED BY <3>1, <3>2
  <2> QED BY <2>1, <2>2 DEF CacheInv, BrokerInv
<1>14. StaleInv'
  <2> SUFFICES ASSUME NEW v \in Workers, pc[v] \in {"send", "record"},
                      call[v].generation # generation
               PROVE  sent' = NoPayload /\ \A m \in Mids : pending'[m] = NoPending
    BY <1>1 DEF StaleInv
  <2>1. sent = NoPayload /\ \A m \in Mids : pending[m] = NoPending
    BY DEF CacheInv, StaleInv
  <2> QED BY <1>1, <1>2, <1>3, <2>1
<1>15. AccountInv'
  <2> SUFFICES ASSUME Fresh', NEW k \in 1..Len(out'), out'[k].retain,
                      sent' # NoPayload \/ \E j \in 1..k : out'[j].retain /\ Accounted(j)'
               PROVE  Accounted(k)'
    BY DEF AccountInv
  <2>1. k + 1 \in 1..Len(out) /\ out[k + 1].retain /\ Fresh
    BY <1>1, <1>10
  <2>2. sent # NoPayload \/ \E j \in 1..k+1 : out[j].retain /\ Accounted(j)
    <3>1. CASE sent' # NoPayload /\ sent = NoPayload
      <4>1. pending[h.mid] # NoPending
        BY <1>3, <3>1
      <4>2. out[1].retain /\ Accounted(1)
        BY <1>0, <1>1, <4>1 DEF CacheInv, MatchInv, Accounted
      <4> QED BY <4>2
    <3>2. ASSUME NEW j \in 1..k, out'[j].retain, Accounted(j)'
          PROVE  \E i \in 1..k+1 : out[i].retain /\ Accounted(i)
      <4>1. j \in 1..Len(out') /\ j + 1 \in 1..k+1
        BY <1>1
      <4>2. out[j + 1].retain /\ Accounted(j + 1)
        BY <1>1, <1>9, <3>2, <4>1
      <4> QED BY <4>1, <4>2
    <3> QED BY <3>1, <3>2
  <2>3. Accounted(k + 1)
    BY <2>1, <2>2 DEF CacheInv, AccountInv
  <2> QED BY <1>9, <2>3
<1>16. PromiseInv'
  <2> SUFFICES ASSUME Fresh', NEW c \in Callers, Promised(c)'
               PROVE  broker = call[c].payload /\ \A k \in 1..Len(out') : ~out'[k].retain
    BY <1>1 DEF PromiseInv
  <2>1. /\ pc[c] = "record" /\ Records(c) /\ call[c].mid \in Mids /\ call[c].retain
        /\ early'[call[c].mid].generation = generation /\ ~early'[call[c].mid].failure
    BY <1>1, <1>8, WriterRecords DEF Promised, Records
  <2>2. CASE call[c].mid = h.mid
    <3>1. ~h.failure
      <4>1. early'[h.mid] = [generation |-> generation, failure |-> h.failure]
        BY <1>5, <2>1, <2>2
      <4> QED BY <2>1, <2>2, <4>1
    <3>2. /\ h.retain /\ h.payload = call[c].payload
          /\ \A j \in 1+1..Len(out) : ~out[j].retain
      <4>1. MatchInv /\ 1 \in 1..Len(out) /\ call[c].mid = out[1].mid
        BY <1>0, <1>1, <2>2 DEF CacheInv
      <4>2. /\ out[1].retain = call[c].retain /\ out[1].payload = call[c].payload
            /\ call[c].retain => \A j \in 1+1..Len(out) : ~out[j].retain
        BY <4>1 DEF MatchInv
      <4> QED BY <1>0, <2>1, <4>2
    <3>3. Landed(1) /\ \A j \in 1+1..Len(out) : ~Landed(j)
      BY <1>0, <1>1, <3>1, <3>2 DEF Landed
    <3>4. broker = h.payload
      BY <1>0, <1>1, <3>3 DEF CacheInv, BrokerInv
    <3>5. \A k \in 1..Len(out') : k + 1 \in 1+1..Len(out)
      BY <1>1
    <3> QED BY <1>1, <3>2, <3>4, <3>5
  <2>3. CASE call[c].mid # h.mid
    <3>1. Promised(c)
      BY <1>2, <2>1, <2>3 DEF Promised
    <3>2. broker = call[c].payload /\ \A k \in 1..Len(out) : ~out[k].retain
      BY <1>10, <3>1 DEF CacheInv, PromiseInv
    <3> QED BY <1>1, <3>2
  <2> QED BY <2>2, <2>3
<1>17. SentInv'
  <2> SUFFICES ASSUME Fresh', sent' # NoPayload, \A k \in 1..Len(out') : ~Landed(k)'
               PROVE  broker = sent' \/ \E c \in Callers : Promised(c)'
    BY <1>1 DEF SentInv
  <2>1. \A j \in 1+1..Len(out) : ~Landed(j)
    <3> SUFFICES ASSUME NEW j \in 1+1..Len(out) PROVE ~Landed(j)
      OBVIOUS
    <3>1. j - 1 \in 1..Len(out') /\ (j - 1) + 1 = j
      BY <1>1
    <3>2. ~Landed((j - 1) + 1)
      BY <1>9, <3>1
    <3> QED BY <3>1, <3>2
  <2>2. CASE Landed(1)
    <3>1. broker = h.payload /\ h.retain /\ ~h.failure
      BY <1>0, <1>1, <2>1, <2>2 DEF CacheInv, BrokerInv, Landed
    <3>2. CASE pending[h.mid] # NoPending
      <4>1. h.payload = pending[h.mid].payload
        BY <1>0, <1>1, <3>2 DEF CacheInv, MatchInv
      <4> QED BY <1>3, <3>1, <3>2, <4>1 DEF Cached
    <3>3. CASE pending[h.mid] = NoPending
      <4>1. sent # NoPayload
        BY <1>3, <3>3
      <4>2. Accounted(1)
        BY <1>0, <1>1, <1>10, <3>1, <4>1 DEF CacheInv, AccountInv
      <4>3. PICK c \in Callers : pc[c] = "record" /\ Records(c) /\ call[c].mid = h.mid
        BY <1>0, <3>3, <4>2 DEF Accounted
      <4>4. early'[h.mid] = [generation |-> generation, failure |-> h.failure]
        BY <1>5, <4>3
      <4>5. early'[h.mid].generation = generation /\ ~early'[h.mid].failure
        BY <3>1, <4>4
      <4>6. Promised(c)'
        BY <1>1, <1>8, <4>3, <4>5 DEF Promised
      <4> QED BY <4>6
    <3> QED BY <3>2, <3>3
  <2>3. CASE ~Landed(1)
    <3>1. pending[h.mid] # NoPending => h.failure
      BY <1>0, <1>1, <2>3 DEF CacheInv, MatchInv, Landed
    <3>2. sent' = sent
      BY <1>3, <3>1
    <3>3. \A k \in 1..Len(out) : k = 1 \/ k \in 1+1..Len(out)
      BY <1>1
    <3>4. broker = sent \/ \E c \in Callers : Promised(c)
      BY <1>10, <2>1, <2>3, <3>2, <3>3 DEF CacheInv, SentInv
    <3>5. ASSUME NEW c \in Callers, Promised(c) PROVE Promised(c)'
      <4>1. call[c].mid \in Mids /\ call[c].mid # h.mid
        BY <1>6, <3>5, WriterRecords DEF Promised
      <4> QED BY <1>1, <1>2, <1>8, <3>5, <4>1 DEF Promised
    <3> QED BY <3>2, <3>4, <3>5
  <2> QED BY <2>2, <2>3
<1> QED BY <1>11, <1>12, <1>13, <1>14, <1>15, <1>16, <1>17 DEF CacheInv

LEMMA CacheStep ==
  TypeInv /\ OutInv /\ CacheInv /\ OneWriter /\ EarlyHasRoom /\ [Next]_vars => CacheInv'
<1> SUFFICES ASSUME TypeInv, OutInv, CacheInv, OneWriter, EarlyHasRoom, [Next]_vars
             PROVE  CacheInv'
  OBVIOUS
<1> USE TypeStep
<1>1. ASSUME NEW c \in Callers, Reserve(c) \/ \E retain \in BOOLEAN : Begin(c, retain)
      PROVE  CacheInv'
  <2>1. UNCHANGED <<out, sent, taken, broker, up, net>>
    BY <1>1 DEF Reserve, Begin, cacheVars, clientVars
  <2>2. QuietStep
    BY <1>1, FreshCallQuiet
  <2>3. TypeInv'
    BY <1>1, ReserveTypes, BeginTypes
  <2> QED BY <2>1, <2>2, <2>3, RestCache DEF Fresh
<1>2. ASSUME NEW c \in Callers, Proceed(c) PROVE CacheInv'
  BY <1>1, <1>2, SendCache, RecordCache DEF Proceed
<1>3. CASE TakeAck \/ OnDisconnect \/ OnConnect \/ FiveSeconds
             \/ (\E p \in Payloads : Change(p)) \/ UNCHANGED vars
  <2>1. UNCHANGED <<out, sent, taken, broker>>
    BY <1>3 DEF TakeAck, OnDisconnect, OnConnect, FiveSeconds, Change, cacheVars, clientVars, vars
  <2>2. Fresh' => Fresh
    BY <1>3 DEF TakeAck, OnDisconnect, OnConnect, FiveSeconds, Change, cacheVars, clientVars, vars,
                Fresh
  <2>3. QuietStep
    BY <1>3, AroundQuiet
  <2> QED BY <1>3, <2>1, <2>2, <2>3, RestCache, AroundTypes
<1>4. CASE Take \/ LinkLoss
  BY <1>4, TakeCache, LinkLossCache
<1>5. ASSUME NEW c \in Callers, LoopInvalidates(c) PROVE CacheInv'
  BY <1>5, InvalidateCache DEF LoopInvalidates
<1>6. CASE CallbackInvalidates
  BY <1>6, InvalidateCache DEF CallbackInvalidates, Callers
<1>7. CASE OnPublish
  BY <1>7, OnPublishCache
<1> QED BY <1>1, <1>2, <1>3, <1>4, <1>5, <1>6, <1>7 DEF Next, Acknowledge, Connection

LEMMA InvCache == TypeInv /\ CacheInv => CacheIsTrue
<1> SUFFICES ASSUME TypeInv, CacheInv, Settled, sent # NoPayload PROVE broker = sent
  BY DEF CacheIsTrue
<1>1. Fresh /\ \A k \in 1..Len(out) : ~Landed(k)
  BY DEF Settled, Fresh
<1>2. \A c \in Callers : ~Promised(c)
  BY DEF Settled, Promised
<1> QED BY <1>1, <1>2 DEF CacheInv, SentInv

\* One loop thread publishes the retained state, any number of others only what is not
\* retained: while the table of early acknowledgements has room, the cache never calls
\* sent what the broker does not retain (`sent` in publish and on_publish), for every
\* order of calls, acknowledgements, refusals and lost links.
THEOREM CacheTrue == OneWriter => (Spec /\ []EarlyHasRoom => []CacheIsTrue)
<1> SUFFICES ASSUME OneWriter PROVE Spec /\ []EarlyHasRoom => []CacheIsTrue
  OBVIOUS
<1>1. Spec => []TypeInv
  BY TypeInit, TypeStep, PTL DEF Spec
<1>2. Spec /\ []EarlyHasRoom => []OutInv
  BY <1>1, OutInit, OutStep, PTL DEF Spec
<1>3. TypeInv /\ OutInv /\ CacheInv /\ EarlyHasRoom /\ [Next]_vars => CacheInv'
  BY CacheStep
<1>4. Spec /\ []EarlyHasRoom => []CacheInv
  BY <1>1, <1>2, <1>3, CacheInit, PTL DEF Spec
<1> QED BY <1>1, <1>4, InvCache, PTL

===============================================================================
