------------------------ MODULE QuicTransportProofs ------------------------
(***************************************************************************)
(* The safety of the two parts of QuicTransport (transport/quic.rs): the    *)
(* calls and their response channels (QuicRpc), and the connection pool     *)
(* (ConnPool), which share no state.                                        *)
(*                                                                          *)
(* QuicRpc, for any calls, numbers of addresses and limits: the table of    *)
(* response channels stays bounded and holds no orphan, and the caller's    *)
(* view implements Rpc.  Inv is the inductive invariant; what it adds says  *)
(* where a request can be (Placed), that an answer stands for a handled     *)
(* message (Earned) and that attempts are not repeated (Fresh).             *)
(*                                                                          *)
(* ConnPool, for any number of addresses, calls and connections:            *)
(* PoolBounded and StalePoolHarmless.  The size of the pool needs no more   *)
(* than that it is finite.  For the second property what matters is where   *)
(* the connection of a second attempt comes from: it is lent, or it was     *)
(* opened by the call itself and is open as long as nothing goes wrong.     *)
(***************************************************************************)
EXTENDS QuicRpc, ConnPool, FiniteSetTheorems, TLAPS

(* The calls and their response channels *)

\* The call of s has been handled at least once.
Done(s) == \E t \in handled : CallOf(t) = CallOf(s)

\* Every answer, in a channel or on the wire, comes from a handled request, and
\* a channel that holds one is no longer registered.
Earned ==
    /\ \A s \in answered : /\ Done(s)
                           /\ senders[CallOf(s)] # s
                           /\ stream[s] \in {"registered", "waiting"}
    /\ \A s \in Stream : stream[s] = "written" => Done(s)

\* A request is in one place: with its task, in the queue, with a handler, or
\* handled.
Queued == {queue[i] : i \in 1..Len(queue)}
Placed ==
    /\ \A i, j \in 1..Len(queue) : queue[i] = queue[j] => i = j
    /\ Queued \cap (handlers \cup handled) = {}
    /\ handlers \cap handled = {}
    /\ \A s \in Stream : stream[s] \in {"none", "arrived", "registered"}
                           => s \notin Queued \cup handlers \cup handled

\* The address an attempt goes over.
Over(s) == <<s[1], s[2]>>

\* No stream exists before its attempt.
Fresh ==
    /\ \A s \in Stream : stream[s] # "none" => call[CallOf(s)] # "idle"
    /\ \A s \in Stream : s[3] = 1 /\ path[Over(s)] = "idle" => stream[s] = "none"
    /\ \A s \in Stream : s[3] = 2 /\ path[Over(s)] \in {"idle", "first", "again"}
                           => stream[s] = "none"

Inv ==
    /\ TypeOK
    /\ NoOrphanSender
    /\ IsFiniteSet(Pending) /\ PendingBounded
    /\ Earned
    /\ Placed
    /\ Fresh

-----------------------------------------------------------------------------
\* A stream is an attempt of a call.
LEMMA StreamFacts ==
    /\ \A c \in Call : \A a \in 1..Addrs[c] :
        /\ <<c, a>> \in Path
        /\ \A n \in 1..2 : <<c, a, n>> \in Stream
    /\ \A s \in Stream : /\ CallOf(s) \in Call
                         /\ Over(s) \in Path /\ s[3] \in 1..2
                         /\ s = <<s[1], s[2], s[3]>>
<1>1. ASSUME NEW s \in Stream
      PROVE  /\ CallOf(s) \in Call
             /\ Over(s) \in Path /\ s[3] \in 1..2
             /\ s = <<s[1], s[2], s[3]>>
  <2>1. PICK c \in Call : s \in {<<c, a, n>> : a \in 1..Addrs[c], n \in 1..2}
    BY DEF Stream
  <2>2. PICK a \in 1..Addrs[c], n \in 1..2 : s = <<c, a, n>>
    BY <2>1
  <2>3. <<c, a>> \in {<<c, b>> : b \in 1..Addrs[c]}
    OBVIOUS
  <2> QED
    BY <2>2, <2>3 DEF CallOf, Over, Path
<1>2. ASSUME NEW c \in Call, NEW a \in 1..Addrs[c], NEW n \in 1..2
      PROVE  <<c, a>> \in Path /\ <<c, a, n>> \in Stream
  <2>1. /\ <<c, a>> \in {<<c, b>> : b \in 1..Addrs[c]}
        /\ <<c, a, n>> \in {<<c, b, m>> : b \in 1..Addrs[c], m \in 1..2}
    OBVIOUS
  <2> QED
    BY <2>1 DEF Path, Stream
<1> QED
  BY <1>1, <1>2

\* A node starts with an empty table, queue and set of handlers.
LEMMA InitInv == Init => Inv
<1> SUFFICES ASSUME Init PROVE Inv
  OBVIOUS
<1> USE RpcAssumption, NoneAssumption DEF Init
<1>1. TypeOK
  BY DEF TypeOK
<1>2. Pending = {}
  BY DEF Pending
<1>3. NoOrphanSender
  BY <1>2 DEF NoOrphanSender
<1>4. IsFiniteSet(Pending) /\ PendingBounded
  BY <1>2, FS_EmptySet DEF PendingBounded
<1>5. Earned
  BY DEF Earned
<1>6. Placed
  BY DEF Placed, Queued
<1>7. Fresh
  BY StreamFacts DEF Fresh
<1> QED
  BY <1>1, <1>3, <1>4, <1>5, <1>6, <1>7 DEF Inv

-----------------------------------------------------------------------------
\* What the caller does leaves the node alone, but for the arrival of a stream:
\* no request is repeated and the table keeps its entries.
LEMMA CallerKeeps ==
    ASSUME Inv, NEW c \in Call, NEW a \in 1..Addrs[c],
           \/ Send(c) \/ Abandon(c) \/ Open(c, a) \/ AttemptFails(c, a)
           \/ AttemptBreaks(c, a) \/ \E n \in 1..2 : AttemptAnswered(c, a, n)
    PROVE  Inv'
<1>1. TypeOK /\ <<c, a>> \in Path
  BY StreamFacts DEF Inv
<1>2. CASE Open(c, a)
  <2>1. ASSUME NEW n \in {1, 2},
               path[<<c, a>>] = <<"idle", "again">>[n],
               stream' = [stream EXCEPT ![<<c, a, n>>] = "arrived"],
               path' = [path EXCEPT ![<<c, a>>] = <<"first", "second">>[n]]
        PROVE  Inv'
    <3> DEFINE s == <<c, a, n>>
    <3>1. /\ s \in Stream /\ CallOf(s) = c /\ Over(s) = <<c, a>> /\ s[3] = n
          /\ \A t \in Stream : Over(t) = <<c, a>> /\ t[3] = n => t = s
      <4>1. s \in Stream
        <5>1. n \in 1..2
          OBVIOUS
        <5> QED
          BY <5>1, StreamFacts, Zenon
      <4>2. CallOf(s) = c /\ Over(s) = <<c, a>> /\ s[3] = n
        BY DEF CallOf, Over
      <4>3. ASSUME NEW t \in Stream, Over(t) = <<c, a>>, t[3] = n
            PROVE  t = s
        <5>1. t = <<t[1], t[2], t[3]>>
          BY StreamFacts
        <5>2. t[1] = c /\ t[2] = a
          BY <4>3 DEF Over
        <5> QED
          BY <4>3, <5>1, <5>2
      <4> QED
        BY <4>1, <4>2, <4>3
    <3>2. /\ call[c] = "sent"
          /\ UNCHANGED <<call, senders, answered, queue, handlers, handled>>
      BY <1>2 DEF Open, node
    <3>3. stream[s] = "none"
      BY <2>1, <3>1 DEF Inv, Fresh
    <3>4. stream' = [stream EXCEPT ![s] = "arrived"]
      BY <2>1
    <3> HIDE DEF s
    <3>5. TypeOK'
      <4>1. stream' \in [Stream -> {"none", "arrived", "registered", "waiting",
                                   "expired", "written", "closed"}]
        BY <1>1, <3>1, <3>4 DEF TypeOK
      <4>2. path' \in [Path -> {"idle", "first", "again", "second", "failed"}]
        BY <1>1, <2>1 DEF TypeOK
      <4> QED
        BY <1>1, <3>2, <4>1, <4>2 DEF TypeOK
    <3>6. NoOrphanSender' /\ IsFiniteSet(Pending)' /\ PendingBounded'
      BY <1>1, <3>1, <3>2, <3>3, <3>4
      DEF Inv, NoOrphanSender, Pending, PendingBounded, TypeOK
    <3>7. Earned'
      <4>1. \A t \in Stream : t # s => stream'[t] = stream[t]
        BY <1>1, <3>1, <3>4 DEF TypeOK
      <4>2. stream'[s] = "arrived" /\ s \notin answered
        BY <1>1, <3>1, <3>3, <3>4 DEF Inv, Earned, TypeOK
      <4> QED
        BY <1>1, <3>1, <3>2, <4>1, <4>2 DEF Inv, Earned, Done, TypeOK
    <3>8. Placed'
      <4>1. Queued' = Queued
        BY <3>2 DEF Queued
      <4>2. \A t \in Stream : stream'[t] \in {"none", "arrived", "registered"}
              => stream[t] \in {"none", "arrived", "registered"}
        BY <1>1, <3>1, <3>3, <3>4 DEF TypeOK
      <4> QED
        BY <3>2, <4>1, <4>2 DEF Inv, Placed
    <3>9. Fresh'
      <4>1. \A t \in Stream : stream'[t] # "none" => call'[CallOf(t)] # "idle"
        BY <1>1, <3>1, <3>2, <3>4 DEF Inv, Fresh, TypeOK
      <4>2. ASSUME NEW t \in Stream, t # s
            PROVE  stream'[t] = stream[t]
        BY <1>1, <3>1, <3>4, <4>2 DEF TypeOK
      <4>3. ASSUME NEW t \in Stream, Over(t) # <<c, a>>
            PROVE  path'[Over(t)] = path[Over(t)]
        BY <1>1, <2>1, <4>3, StreamFacts DEF TypeOK
      <4>4. path'[<<c, a>>] = <<"first", "second">>[n]
        BY <1>1, <2>1 DEF TypeOK
      <4>5. ASSUME NEW t \in Stream, t[3] = 1, path'[Over(t)] = "idle"
            PROVE  stream'[t] = "none"
        BY <2>1, <3>1, <4>2, <4>3, <4>4, <4>5 DEF Inv, Fresh
      <4>6. ASSUME NEW t \in Stream, t[3] = 2,
                   path'[Over(t)] \in {"idle", "first", "again"}
            PROVE  stream'[t] = "none"
        BY <2>1, <3>1, <4>2, <4>3, <4>4, <4>6 DEF Inv, Fresh
      <4> QED
        BY <4>1, <4>5, <4>6 DEF Fresh
    <3> QED
      BY <3>5, <3>6, <3>7, <3>8, <3>9 DEF Inv
  <2>2. \E n \in {1, 2} :
          /\ path[<<c, a>>] = <<"idle", "again">>[n]
          /\ stream' = [stream EXCEPT ![<<c, a, n>>] = "arrived"]
          /\ path' = [path EXCEPT ![<<c, a>>] = <<"first", "second">>[n]]
    BY <1>2 DEF Open
  <2> QED
    BY <2>1, <2>2
<1>3. ASSUME UNCHANGED <<stream, senders, answered, queue, handlers, handled>>,
             call' \in [Call -> {"idle", "sent", "ok", "failed"}],
             \A d \in Call : call[d] # "idle" => call'[d] # "idle",
             path' \in [Path -> {"idle", "first", "again", "second", "failed"}],
             \A p \in Path : \/ path'[p] \in {path[p], "failed"}
                             \/ path[p] = "first" /\ path'[p] = "again"
      PROVE  Inv'
  <2>1. TypeOK'
    BY <1>1, <1>3 DEF TypeOK
  <2>2. NoOrphanSender' /\ IsFiniteSet(Pending)' /\ PendingBounded'
    BY <1>3 DEF Inv, NoOrphanSender, Pending, PendingBounded
  <2>3. Earned' /\ Placed'
    BY <1>3 DEF Inv, Earned, Done, Placed, Queued
  <2>4. \A s \in Stream : stream'[s] # "none" => call'[CallOf(s)] # "idle"
    BY <1>3, StreamFacts DEF Inv, Fresh
  <2>5. ASSUME NEW s \in Stream, s[3] = 1, path'[Over(s)] = "idle"
        PROVE  stream'[s] = "none"
    BY <1>3, <2>5, StreamFacts DEF Inv, Fresh
  <2>6. ASSUME NEW s \in Stream, s[3] = 2,
               path'[Over(s)] \in {"idle", "first", "again"}
        PROVE  stream'[s] = "none"
    <3>1. path[Over(s)] \in {"idle", "first", "again"}
      BY <1>3, <2>6, StreamFacts
    <3> QED
      BY <1>3, <2>6, <3>1 DEF Inv, Fresh
  <2>7. Fresh'
    BY <2>4, <2>5, <2>6 DEF Fresh
  <2> QED
    BY <2>1, <2>2, <2>3, <2>7 DEF Inv
<1>4. ASSUME NEW outcome \in {"ok", "failed"}, Return(c, outcome),
             UNCHANGED <<stream, senders, answered, queue, handlers, handled>>
      PROVE  Inv'
  <2>1. path' \in [Path -> {"idle", "first", "again", "second", "failed"}]
    BY <1>1, <1>4 DEF Return, TypeOK
  <2> QED
    BY <1>1, <1>3, <1>4, <2>1 DEF Return, TypeOK
<1>5. CASE Send(c)
  BY <1>1, <1>3, <1>5 DEF Send, node, TypeOK
<1>6. CASE Abandon(c)
  BY <1>4, <1>6 DEF Abandon, node
<1>7. CASE \E n \in 1..2 : AttemptAnswered(c, a, n)
  BY <1>4, <1>7 DEF AttemptAnswered, node
<1>8. ASSUME GiveUp(c, a),
             UNCHANGED <<stream, senders, answered, queue, handlers, handled>>
      PROVE  Inv'
  BY <1>1, <1>3, <1>4, <1>8 DEF GiveUp, TypeOK
<1>9. CASE AttemptFails(c, a)
  BY <1>8, <1>9 DEF AttemptFails, node
<1>10. CASE AttemptBreaks(c, a)
  <2>1. CASE Trying(c, a, 1) /\ path' = [path EXCEPT ![<<c, a>>] = "again"]
             /\ UNCHANGED call
    <3>1. path[<<c, a>>] = "first"
      BY <2>1 DEF Trying
    <3> QED
      BY <1>1, <1>3, <1>10, <2>1, <3>1 DEF AttemptBreaks, node, TypeOK
  <2> QED
    BY <1>8, <1>10, <2>1 DEF AttemptBreaks, node
<1> QED
  BY <1>2, <1>5, <1>6, <1>7, <1>9, <1>10

-----------------------------------------------------------------------------
StreamState == {"none", "arrived", "registered", "waiting", "expired",
                "written", "closed"}

\* A task that moves on, without touching the table or a request, keeps the
\* invariant: Reject, Expire, WriteAnswer.
LEMMA TaskKeeps ==
    ASSUME Inv, NEW s \in Stream, NEW v \in StreamState,
           stream' = [stream EXCEPT ![s] = v],
           UNCHANGED <<call, path, queue, handlers, handled>>,
           UNCHANGED senders,
           answered' \subseteq answered, s \notin answered',
           stream[s] \notin {"none", "registered"},
           v \notin {"none", "arrived", "registered"},
           v = "written" => s \in answered,
           senders[CallOf(s)] = s => v = "expired"
    PROVE  Inv'
<1>1. /\ TypeOK
      /\ \A t \in Stream : stream'[t] = IF t = s THEN v ELSE stream[t]
  BY DEF Inv, TypeOK
<1>2. TypeOK'
  BY <1>1 DEF TypeOK, StreamState
<1>3. NoOrphanSender'
  <2>1. Pending' = Pending
    BY DEF Pending
  <2>2. ASSUME NEW c \in Pending
        PROVE  /\ senders[c] \in Stream /\ CallOf(senders[c]) = c
               /\ stream[senders[c]] \in {"registered", "waiting", "expired"}
    BY <1>1 DEF Inv, NoOrphanSender, Pending, TypeOK
  <2> QED
    BY <1>1, <2>1, <2>2 DEF NoOrphanSender
<1>4. IsFiniteSet(Pending)' /\ PendingBounded'
  BY DEF Inv, Pending, PendingBounded
<1>5. Earned'
  BY <1>1 DEF Inv, Earned, Done, TypeOK
<1>6. Placed'
  <2>1. Queued' = Queued
    BY DEF Queued
  <2> QED
    BY <1>1, <2>1 DEF Inv, Placed
<1>7. Fresh'
  <2>1. \A t \in Stream : stream[t] = "none" => stream'[t] = "none"
    BY <1>1
  <2>2. \A t \in Stream : stream'[t] # "none" => stream[t] # "none"
    BY <1>1
  <2> QED
    BY <2>1, <2>2 DEF Inv, Fresh
<1> QED
  BY <1>2, <1>3, <1>4, <1>5, <1>6, <1>7 DEF Inv

\* A task that ends or expires outside the table.
LEMMA QuietTask ==
    ASSUME Inv, NEW s \in Stream, Reject(s) \/ Expire(s) \/ WriteAnswer(s)
    PROVE  Inv'
<1>1. /\ TypeOK /\ CallOf(s) \in Call
      /\ senders[CallOf(s)] = s =>
           stream[s] \in {"registered", "waiting", "expired"} /\ s \notin answered
  <2>1. CallOf(s) \in Call /\ s # None
    BY StreamFacts, NoneAssumption
  <2> QED
    BY <2>1 DEF Inv, NoOrphanSender, Pending, Earned
<1>2. CASE Reject(s)
  <2>1. s \notin answered /\ senders[CallOf(s)] # s
    BY <1>1, <1>2 DEF Reject, Inv, Earned
  <2> QED
    BY <1>2, <2>1, TaskKeeps DEF Reject, client, node, StreamState
<1>3. CASE Expire(s)
  BY <1>3, TaskKeeps DEF Expire, client, node, StreamState
<1>4. CASE WriteAnswer(s)
  <2>1. senders[CallOf(s)] # s
    BY <1>1, <1>4 DEF WriteAnswer
  <2>2. PICK v \in {"written", "closed"} : stream' = [stream EXCEPT ![s] = v]
    BY <1>4 DEF WriteAnswer
  <2> QED
    BY <1>4, <2>1, <2>2, TaskKeeps DEF WriteAnswer, client, node, StreamState
<1> QED
  BY <1>2, <1>3, <1>4

\* Register adds at most one entry, and only below the limit.
LEMMA RegisterKeeps ==
    ASSUME Inv, NEW s \in Stream, Register(s)
    PROVE  Inv'
<1> DEFINE c == CallOf(s)
<1>1. /\ TypeOK /\ c \in Call /\ s # None /\ stream[s] = "arrived"
      /\ UNCHANGED <<call, path, answered, queue, handlers, handled>>
      /\ s \notin answered
  BY StreamFacts, NoneAssumption DEF Inv, Register, client, node, Earned
<1>2. CASE UNCHANGED senders /\ stream' = [stream EXCEPT ![s] = "closed"]
  <2>1. senders[c] # s
    BY <1>1 DEF Inv, NoOrphanSender, Pending
  <2> QED
    BY <1>1, <1>2, <2>1, TaskKeeps DEF StreamState
<1>3. CASE /\ Cardinality(Pending) < MaxPending /\ senders[c] = None
           /\ stream' = [stream EXCEPT ![s] = "registered"]
           /\ senders' = [senders EXCEPT ![c] = s]
  <2>1. /\ \A t \in Stream : stream'[t] = IF t = s THEN "registered" ELSE stream[t]
        /\ \A d \in Call : senders'[d] = IF d = c THEN s ELSE senders[d]
    BY <1>1, <1>3 DEF TypeOK
  <2>2. TypeOK'
    BY <1>1, <1>3 DEF TypeOK
  <2>3. Pending' = Pending \cup {c} /\ c \notin Pending
    BY <1>1, <1>3, <2>1 DEF Pending
  <2>4. IsFiniteSet(Pending)' /\ PendingBounded'
    <3>1. IsFiniteSet(Pending \cup {c})
          /\ Cardinality(Pending \cup {c}) = Cardinality(Pending) + 1
      BY <2>3, FS_AddElement DEF Inv
    <3>2. Cardinality(Pending) \in Nat
      BY FS_CardinalityType DEF Inv
    <3> QED
      BY <1>3, <2>3, <3>1, <3>2, RpcAssumption DEF PendingBounded
  <2>5. NoOrphanSender'
    <3>1. ASSUME NEW d \in Call, d # c, senders[d] # None
          PROVE  /\ CallOf(senders'[d]) = d
                 /\ stream'[senders'[d]] \in {"registered", "waiting", "expired"}
      BY <1>1, <2>1, <3>1 DEF Inv, NoOrphanSender, Pending, TypeOK
    <3> QED
      BY <1>1, <2>1, <2>3, <3>1 DEF NoOrphanSender, Pending
  <2>6. Earned'
    BY <1>1, <2>1, StreamFacts DEF Inv, Earned, Done, TypeOK
  <2>7. Placed'
    <3>1. Queued' = Queued
      BY <1>1 DEF Queued
    <3> QED
      BY <1>1, <2>1, <3>1 DEF Inv, Placed
  <2>8. Fresh'
    <3>1. \A t \in Stream : stream[t] = "none" <=> stream'[t] = "none"
      BY <1>1, <2>1
    <3> QED
      BY <1>1, <3>1 DEF Inv, Fresh
  <2> QED
    BY <2>2, <2>4, <2>5, <2>6, <2>7, <2>8 DEF Inv
<1>4. Cardinality(Pending) \in Nat /\ MaxPending \in Nat
  BY FS_CardinalityType, RpcAssumption DEF Inv
<1> QED
  BY <1>2, <1>3, <1>4 DEF Register

\* Forward puts a request into the queue that was nowhere before.
LEMMA ForwardKeeps ==
    ASSUME Inv, NEW s \in Stream, Forward(s)
    PROVE  Inv'
<1>1. /\ TypeOK /\ stream[s] = "registered" /\ Len(queue) < QueueSize
      /\ queue' = Append(queue, s)
      /\ stream' = [stream EXCEPT ![s] = "waiting"]
      /\ UNCHANGED <<call, path, senders, answered, handlers, handled>>
  BY DEF Inv, Forward, client
<1>2. \A t \in Stream : stream'[t] = IF t = s THEN "waiting" ELSE stream[t]
  BY <1>1 DEF TypeOK
<1>3. /\ queue' \in Seq(Stream) /\ Len(queue') = Len(queue) + 1
      /\ Len(queue) \in Nat
      /\ \A i \in 1..Len(queue) : queue'[i] = queue[i]
      /\ queue'[Len(queue) + 1] = s
  BY <1>1 DEF TypeOK
<1>4. TypeOK'
  BY <1>1, <1>3, RpcAssumption DEF TypeOK
<1>5. NoOrphanSender' /\ IsFiniteSet(Pending)' /\ PendingBounded'
  <2>1. Pending' = Pending
    BY <1>1 DEF Pending
  <2>2. \A c \in Pending : senders[c] \in Stream
    BY <1>1 DEF Pending, TypeOK
  <2> QED
    BY <1>1, <1>2, <2>1, <2>2 DEF Inv, NoOrphanSender, PendingBounded
<1>6. Earned'
  BY <1>1, <1>2 DEF Inv, Earned, Done, TypeOK
<1>7. Placed'
  <2>1. s \notin Queued \cup handlers \cup handled
    BY <1>1 DEF Inv, Placed
  <2>2. Queued' = Queued \cup {s}
    <3>1. ASSUME NEW i \in 1..Len(queue') PROVE queue'[i] \in Queued \cup {s}
      BY <1>3 DEF Queued
    <3>2. ASSUME NEW i \in 1..Len(queue) PROVE queue[i] \in Queued'
      BY <1>3 DEF Queued
    <3>3. s \in Queued'
      BY <1>3 DEF Queued
    <3> QED
      BY <3>1, <3>2, <3>3 DEF Queued
  <2>3. ASSUME NEW i \in 1..Len(queue'), NEW j \in 1..Len(queue'),
               queue'[i] = queue'[j]
        PROVE  i = j
    <3>1. \A k \in 1..Len(queue) : queue[k] # s
      BY <2>1 DEF Queued
    <3>2. i \in 1..Len(queue) \/ i = Len(queue) + 1
      BY <1>3
    <3>3. j \in 1..Len(queue) \/ j = Len(queue) + 1
      BY <1>3
    <3> QED
      BY <1>3, <2>3, <3>1, <3>2, <3>3 DEF Inv, Placed
  <2>4. Queued' \cap (handlers \cup handled)' = {}
    BY <1>1, <2>1, <2>2 DEF Inv, Placed
  <2>5. ASSUME NEW t \in Stream, stream'[t] \in {"none", "arrived", "registered"}
        PROVE  t \notin (Queued \cup handlers \cup handled)'
    <3>1. t # s /\ stream[t] \in {"none", "arrived", "registered"}
      BY <1>2, <2>5
    <3> QED
      BY <1>1, <2>2, <3>1 DEF Inv, Placed
  <2> QED
    BY <1>1, <2>3, <2>4, <2>5 DEF Inv, Placed
<1>8. Fresh'
  <2>1. \A t \in Stream : stream[t] = "none" <=> stream'[t] = "none"
    BY <1>1, <1>2
  <2> QED
    BY <1>1, <2>1 DEF Inv, Fresh
<1> QED
  BY <1>4, <1>5, <1>6, <1>7, <1>8 DEF Inv

\* RemoveExpired frees the entry of the msg_id, whichever task it belongs to.
LEMMA RemoveKeeps ==
    ASSUME Inv, NEW s \in Stream, RemoveExpired(s)
    PROVE  Inv'
<1> DEFINE c == CallOf(s)
<1>1. /\ TypeOK /\ c \in Call /\ stream[s] = "expired"
      /\ senders' = [senders EXCEPT ![c] = None]
      /\ stream' = [stream EXCEPT ![s] = "closed"]
      /\ UNCHANGED <<call, path, answered, queue, handlers, handled>>
  BY StreamFacts DEF Inv, RemoveExpired, client, node
<1>2. /\ \A t \in Stream : stream'[t] = IF t = s THEN "closed" ELSE stream[t]
      /\ \A d \in Call : senders'[d] = IF d = c THEN None ELSE senders[d]
  BY <1>1 DEF TypeOK
<1>3. TypeOK'
  BY <1>1 DEF TypeOK
<1>4. NoOrphanSender'
  <2>1. ASSUME NEW d \in Call, senders'[d] # None
        PROVE  /\ CallOf(senders'[d]) = d
               /\ stream'[senders'[d]] \in {"registered", "waiting", "expired"}
    <3>1. d # c /\ senders'[d] = senders[d] /\ senders[d] \in Stream
      BY <1>1, <1>2, <2>1 DEF TypeOK
    <3>2. /\ CallOf(senders[d]) = d
          /\ stream[senders[d]] \in {"registered", "waiting", "expired"}
      BY <2>1, <3>1 DEF Inv, NoOrphanSender, Pending
    <3> QED
      BY <1>2, <3>1, <3>2
  <2> QED
    BY <2>1 DEF NoOrphanSender, Pending
<1>5. IsFiniteSet(Pending)' /\ PendingBounded'
  <2>1. Pending' \subseteq Pending
    BY <1>2 DEF Pending
  <2>2. /\ IsFiniteSet(Pending') /\ Cardinality(Pending') <= Cardinality(Pending)
        /\ Cardinality(Pending) \in Nat /\ Cardinality(Pending') \in Nat
    BY <2>1, FS_Subset, FS_CardinalityType DEF Inv
  <2> QED
    BY <2>2, RpcAssumption DEF Inv, PendingBounded
<1>6. Earned'
  <2>1. \A t \in answered : /\ t \in Stream /\ t # s /\ CallOf(t) \in Call
                            /\ t # None
    BY <1>1, StreamFacts, NoneAssumption DEF Inv, Earned, TypeOK
  <2> QED
    BY <1>1, <1>2, <2>1 DEF Inv, Earned, Done
<1>7. Placed'
  <2>1. Queued' = Queued
    BY <1>1 DEF Queued
  <2> QED
    BY <1>1, <1>2, <2>1 DEF Inv, Placed
<1>8. Fresh'
  <2>1. \A t \in Stream : stream[t] = "none" <=> stream'[t] = "none"
    BY <1>1, <1>2
  <2> QED
    BY <1>1, <2>1 DEF Inv, Fresh
<1> QED
  BY <1>3, <1>4, <1>5, <1>6, <1>7, <1>8 DEF Inv

\* Dispatch moves the first request from the queue to a handler or drops it.
LEMMA DispatchKeeps ==
    ASSUME Inv, Dispatch
    PROVE  Inv'
<1> DEFINE h == queue[1]
<1>1. /\ TypeOK /\ queue # <<>> /\ queue' = Tail(queue)
      /\ handlers' \subseteq handlers \cup {h}
      /\ UNCHANGED <<call, path, stream, senders, answered, handled>>
  BY DEF Inv, Dispatch, client, TypeOK
<1>2. /\ Len(queue) \in Nat /\ 1 \in 1..Len(queue) /\ h \in Stream
      /\ queue' \in Seq(Stream) /\ Len(queue') = Len(queue) - 1
      /\ \A i \in 1..Len(queue') : queue'[i] = queue[i + 1]
  BY <1>1 DEF TypeOK
<1>3. TypeOK'
  BY <1>1, <1>2, RpcAssumption DEF TypeOK
<1>4. NoOrphanSender' /\ IsFiniteSet(Pending)' /\ PendingBounded'
  BY <1>1 DEF Inv, NoOrphanSender, Pending, PendingBounded
<1>5. Earned' /\ Fresh'
  BY <1>1 DEF Inv, Earned, Done, Fresh
<1>6. Placed'
  <2>1. h \in Queued
    BY <1>2 DEF Queued
  <2>2. \A i \in 1..Len(queue') : i + 1 \in 1..Len(queue) /\ i + 1 # 1
    BY <1>2
  <2>3. Queued' \subseteq Queued \ {h}
    <3>1. ASSUME NEW i \in 1..Len(queue') PROVE queue'[i] \in Queued \ {h}
      <4>1. queue'[i] = queue[i + 1] /\ queue[i + 1] # queue[1]
        BY <1>2, <2>2 DEF Inv, Placed
      <4> QED
        BY <2>2, <4>1 DEF Queued
    <3> QED
      BY <3>1 DEF Queued
  <2>4. ASSUME NEW i \in 1..Len(queue'), NEW j \in 1..Len(queue'),
               queue'[i] = queue'[j]
        PROVE  i = j
    <3>1. queue[i + 1] = queue[j + 1]
      BY <1>2, <2>4
    <3>2. i + 1 = j + 1
      BY <2>2, <3>1 DEF Inv, Placed
    <3> QED
      BY <3>2
  <2>5. h \notin handled /\ Queued' \cap (handlers \cup handled)' = {}
    BY <1>1, <2>1, <2>3 DEF Inv, Placed
  <2>6. (handlers \cap handled)' = {}
    BY <1>1, <2>5 DEF Inv, Placed
  <2>7. \A t \in Stream : stream'[t] \in {"none", "arrived", "registered"}
          => t \notin (Queued \cup handlers \cup handled)'
    BY <1>1, <2>1, <2>3 DEF Inv, Placed
  <2> QED
    BY <2>4, <2>5, <2>6, <2>7 DEF Placed
<1> QED
  BY <1>3, <1>4, <1>5, <1>6 DEF Inv

\* Handle ends a request and hands its answer to the registered channel.
LEMMA HandleKeeps ==
    ASSUME Inv, NEW s \in Stream, Handle(s)
    PROVE  Inv'
<1> DEFINE c == CallOf(s)
           r == senders[c]
<1>1. /\ TypeOK /\ c \in Call /\ s \in handlers /\ handlers' = handlers \ {s}
      /\ UNCHANGED <<call, path, stream, queue>>
  BY StreamFacts DEF Inv, Handle, client
<1>2. CASE UNCHANGED <<senders, answered, handled>>
  <2>1. TypeOK'
    BY <1>1, <1>2 DEF TypeOK
  <2>2. NoOrphanSender' /\ IsFiniteSet(Pending)' /\ PendingBounded'
    BY <1>1, <1>2 DEF Inv, NoOrphanSender, Pending, PendingBounded
  <2>3. Earned' /\ Fresh'
    BY <1>1, <1>2 DEF Inv, Earned, Done, Fresh
  <2>4. Placed'
    <3>1. Queued' = Queued
      BY <1>1 DEF Queued
    <3> QED
      BY <1>1, <1>2, <3>1 DEF Inv, Placed
  <2> QED
    BY <2>1, <2>2, <2>3, <2>4 DEF Inv
<1>3. CASE handled' = handled \cup {s} /\ Respond(s)
  <2>1. /\ senders' = [senders EXCEPT ![c] = None]
        /\ answered' = IF r # None /\ stream[r] \in {"registered", "waiting"}
                       THEN answered \cup {r} ELSE answered
    BY <1>3 DEF Respond
  <2>2. \A d \in Call : senders'[d] = IF d = c THEN None ELSE senders[d]
    BY <1>1, <2>1 DEF TypeOK
  <2>3. r # None => r \in Stream /\ CallOf(r) = c
    BY <1>1 DEF Inv, TypeOK, NoOrphanSender, Pending
  <2>4. TypeOK'
    BY <1>1, <1>3, <2>1, <2>3 DEF TypeOK
  <2>5. NoOrphanSender'
    BY <1>1, <2>2 DEF Inv, NoOrphanSender, Pending
  <2>6. IsFiniteSet(Pending)' /\ PendingBounded'
    <3>1. Pending' \subseteq Pending
      BY <2>2 DEF Pending
    <3>2. /\ IsFiniteSet(Pending') /\ Cardinality(Pending') <= Cardinality(Pending)
          /\ Cardinality(Pending) \in Nat /\ Cardinality(Pending') \in Nat
      BY <3>1, FS_Subset, FS_CardinalityType DEF Inv
    <3> QED
      BY <3>2, RpcAssumption DEF Inv, PendingBounded
  <2>7. Earned'
    <3>1. \A t \in Stream : CallOf(t) = c \/ Done(t) => Done(t)'
      BY <1>3 DEF Done
    <3>2. ASSUME NEW t \in answered'
          PROVE  /\ t \in Stream
                 /\ CallOf(t) = c \/ Done(t)
                 /\ stream[t] \in {"registered", "waiting"}
                 /\ CallOf(t) = c \/ senders[CallOf(t)] # t
      BY <1>1, <2>1, <2>3 DEF Inv, Earned, TypeOK
    <3>3. ASSUME NEW t \in answered' PROVE senders'[CallOf(t)] # t
      BY <2>2, <3>2, StreamFacts, NoneAssumption
    <3> QED
      BY <1>1, <3>1, <3>2, <3>3 DEF Inv, Earned
  <2>8. Placed'
    <3>1. Queued' = Queued /\ s \notin Queued
      BY <1>1 DEF Queued, Inv, Placed
    <3> QED
      BY <1>1, <1>3, <3>1 DEF Inv, Placed
  <2>9. Fresh'
    BY <1>1 DEF Inv, Fresh
  <2> QED
    BY <2>4, <2>5, <2>6, <2>7, <2>8, <2>9 DEF Inv
<1> QED
  BY <1>2, <1>3 DEF Handle

\* Every step of callers, tasks, actor and handlers keeps the invariant.
LEMMA StepInv ==
    ASSUME Inv, [Next]_vars
    PROVE  Inv'
<1>1. ASSUME NEW c \in Call, Send(c) \/ Abandon(c)
      PROVE  Inv'
  <2>1. 1 \in 1..Addrs[c]
    BY RpcAssumption
  <2> QED
    BY <1>1, <2>1, CallerKeeps
<1>2. ASSUME NEW c \in Call, NEW a \in 1..Addrs[c],
             \/ Open(c, a) \/ AttemptFails(c, a) \/ AttemptBreaks(c, a)
             \/ \E n \in 1..2 : AttemptAnswered(c, a, n)
      PROVE  Inv'
  BY <1>2, CallerKeeps
<1>3. ASSUME NEW s \in Stream,
             \/ Reject(s) \/ Register(s) \/ Forward(s) \/ Expire(s)
             \/ RemoveExpired(s) \/ WriteAnswer(s) \/ Handle(s)
      PROVE  Inv'
  BY <1>3, QuietTask, RegisterKeeps, ForwardKeeps, RemoveKeeps, HandleKeeps
<1>4. CASE Dispatch
  BY <1>4, DispatchKeeps
<1>5. CASE UNCHANGED vars
  BY <1>5 DEF vars, Inv, TypeOK, NoOrphanSender, Pending, PendingBounded,
     Earned, Done, Placed, Queued, Fresh
<1> QED
  BY <1>1, <1>2, <1>3, <1>4, <1>5 DEF Next

-----------------------------------------------------------------------------
\* Inv holds in every reachable state.
THEOREM Invariance == Spec => []Inv
<1>1. Init => Inv
  BY InitInv
<1>2. Inv /\ [Next]_vars => Inv'
  BY StepInv
<1> QED
  BY <1>1, <1>2, PTL DEF Spec

\* The table of response channels never exceeds MAX_PENDING_RESPONSES.
THEOREM TableBounded == Spec => []PendingBounded
<1>1. Inv => PendingBounded
  BY DEF Inv
<1> QED
  BY <1>1, Invariance, PTL

\* Every entry of the table belongs to a task that will remove it.
THEOREM NoOrphan == Spec => []NoOrphanSender
<1>1. Inv => NoOrphanSender
  BY DEF Inv
<1> QED
  BY <1>1, Invariance, PTL

-----------------------------------------------------------------------------
(* Refinement *)

Runs == [c \in Call |-> {s \in handled : CallOf(s) = c}]

\* The end of a call, as its caller sees it, is a step of Rpc; an answer only
\* when the message was handled.
LEMMA ReturnRefines ==
    ASSUME Inv, NEW c \in Call, NEW outcome \in {"ok", "failed"},
           call[c] = "sent", Return(c, outcome), UNCHANGED handled,
           outcome = "ok" => \E t \in handled : CallOf(t) = c
    PROVE  Abstract!Next
<1>1. /\ call' = [call EXCEPT ![c] = outcome]
      /\ Runs' = Runs
  BY DEF Return, Runs
<1>2. CASE outcome = "failed"
  BY <1>1, <1>2 DEF Abstract!Next, Abstract!Fail, Runs
<1>3. CASE outcome = "ok"
  <2>1. Runs[c] # {}
    BY <1>3 DEF Runs
  <2> QED
    BY <1>1, <1>3, <2>1 DEF Abstract!Next, Abstract!Answer, Runs
<1> QED
  BY <1>2, <1>3

\* Every step of QuicRpc is a step of Rpc or leaves the caller's view alone.
LEMMA StepRefines ==
    ASSUME Inv, [Next]_vars
    PROVE  Abstract!Next \/ (UNCHANGED call /\ Runs' = Runs)
<1>1. TypeOK
  BY DEF Inv
<1>2. ASSUME UNCHANGED <<call, handled>>
      PROVE  UNCHANGED call /\ Runs' = Runs
  BY <1>2 DEF Runs
<1>3. ASSUME NEW c \in Call, Send(c)
      PROVE  Abstract!Next
  <2>1. Runs' = Runs
    BY <1>3 DEF Send, node, Runs
  <2> QED
    BY <1>3, <2>1 DEF Send, Abstract!Next, Abstract!Start, Runs
<1>4. ASSUME NEW c \in Call, Abandon(c)
      PROVE  Abstract!Next
  BY <1>4, ReturnRefines DEF Abandon, node
<1>5. ASSUME NEW c \in Call, NEW a \in 1..Addrs[c], call[c] = "sent",
             GiveUp(c, a), UNCHANGED handled
      PROVE  Abstract!Next \/ UNCHANGED call
  BY <1>5, ReturnRefines DEF GiveUp
<1>6. ASSUME NEW c \in Call, NEW a \in 1..Addrs[c],
             AttemptFails(c, a) \/ AttemptBreaks(c, a)
      PROVE  Abstract!Next \/ (UNCHANGED call /\ Runs' = Runs)
  <2>1. UNCHANGED handled
    BY <1>6 DEF AttemptFails, AttemptBreaks, node
  <2>2. Abstract!Next \/ UNCHANGED call
    BY <1>5, <1>6, <2>1 DEF AttemptFails, AttemptBreaks, Trying
  <2> QED
    BY <1>2, <2>1, <2>2
<1>7. ASSUME NEW c \in Call, NEW a \in 1..Addrs[c], NEW n \in 1..2,
             AttemptAnswered(c, a, n)
      PROVE  Abstract!Next
  <2>1. <<c, a, n>> \in Stream /\ CallOf(<<c, a, n>>) = c
    BY StreamFacts, Zenon DEF CallOf
  <2>2. \E t \in handled : CallOf(t) = c
    BY <1>7, <2>1 DEF AttemptAnswered, Inv, Earned, Done
  <2> QED
    BY <1>7, <2>2, ReturnRefines DEF AttemptAnswered, Trying, node
<1>8. ASSUME NEW s \in Stream, Handle(s), UNCHANGED call,
             handled' = handled \cup {s}
      PROVE  Abstract!Next
  <2> DEFINE c == CallOf(s)
  <2>1. c \in Call /\ s \in handlers /\ s \notin handled
    BY <1>8, StreamFacts DEF Handle, Inv, Placed
  <2>2. call[c] # "idle"
    BY <2>1 DEF Inv, Placed, Fresh
  <2>3. s \in {t \in Stream : CallOf(t) = c} \ Runs[c]
    BY <2>1 DEF Runs
  <2>4. Runs' = [Runs EXCEPT ![c] = @ \cup {s}]
    BY <1>8, <2>1 DEF Runs
  <2> QED
    BY <1>8, <2>1, <2>2, <2>3, <2>4
    DEF Abstract!Next, Abstract!Run, Runs
<1>9. ASSUME NEW s \in Stream, Handle(s)
      PROVE  Abstract!Next \/ (UNCHANGED call /\ Runs' = Runs)
  BY <1>2, <1>8, <1>9 DEF Handle, client
<1>10. ASSUME NEW s \in Stream,
              \/ Reject(s) \/ Register(s) \/ Forward(s) \/ Expire(s)
              \/ RemoveExpired(s) \/ WriteAnswer(s)
       PROVE  UNCHANGED call /\ Runs' = Runs
  BY <1>2, <1>10 DEF Reject, Register, Forward, Expire, RemoveExpired,
     WriteAnswer, client, node
<1>11. ASSUME NEW c \in Call, NEW a \in 1..Addrs[c], Open(c, a)
       PROVE  UNCHANGED call /\ Runs' = Runs
  BY <1>2, <1>11 DEF Open, node
<1>12. ASSUME Dispatch \/ UNCHANGED vars
       PROVE  UNCHANGED call /\ Runs' = Runs
  BY <1>2, <1>12 DEF Dispatch, client, vars
<1> QED
  BY <1>3, <1>4, <1>6, <1>7, <1>9, <1>10, <1>11, <1>12 DEF Next

\* The QUIC transport with send_request_any implements Rpc: whatever attempts,
\* timeouts, duplicates and removals, a call is answered only after the node
\* has handled its message, and each attempt is handled at most once.
THEOREM Refinement == Spec => RefinesRpc
<1>1. Init => Abstract!Init
  BY DEF Init, Abstract!Init
<1>2. Inv /\ [Next]_vars => [Abstract!Next]_<<call, Runs>>
  BY StepRefines
<1> QED
  BY <1>1, <1>2, Invariance, PTL DEF Spec, RefinesRpc, Abstract!Spec, Runs

-----------------------------------------------------------------------------
(* The connection pool *)

PoolOK ==
    /\ pool = [a \in Addr |-> pool[a]]
    /\ IsFiniteSet(Pooled)
    /\ PoolBounded

In(p) == {b \in Addr : p[b] # NoConn}

CallOK ==
    /\ conn \in Seq({"open", "lost", "closed"}) /\ clean \subseteq Request
    /\ st = [c \in Request |-> st[c]] /\ try = [c \in Request |-> try[c]]
    /\ held = [c \in Request |-> held[c]]
    /\ \A c \in Request :
         /\ held[c] \in 0 .. Len(conn)
         /\ st[c] \notin {"idle", "lookup", "connect", "ok", "failed"} => held[c] # 0
         /\ st[c] # "idle" => try[c] \in {1, 2}

\* A connection is in the pool at most once, under the address of every call
\* that has it, and not yet while the call that opened it, the only one to have
\* it, is still to insert it.
InPlace ==
    /\ \A a \in Pooled : pool[a].k \in 1 .. Len(conn)
    /\ \A a, b \in Pooled : pool[a].k = pool[b].k => a = b
    /\ \A a \in Pooled, c \in Request :
         pool[a].k = held[c] => AddrOf[c] = a /\ st[c] # "insert"
    /\ \A c, d \in Request : st[c] = "insert" /\ c # d => held[c] # held[d]

\* What a call that nothing has happened to holds in its second attempt is lent
\* or open, and it has given up waiting only for a connection that is dead.
SecondIsFresh ==
    \A c \in clean :
        /\ (st[c] \in {"insert", "send"} /\ try[c] # 1) => c \in lent \/ conn[held[c]] = "open"
        /\ st[c] = "expired" => try[c] = 1 /\ conn[held[c]] # "open"
        /\ st[c] = "failed" => c \in lent \/ held[c] # 0

\* Inserting under any address leaves the pool within its size: RoomFor has
\* taken a connection out of a full pool, or there was room.
LEMMA InsertedOK ==
    ASSUME PoolOK, NEW a \in Addr, NEW k, Inserted(a, k)
    PROVE  PoolOK'
<1>1. PICK p \in RoomFor(pool) : pool' = [p EXCEPT ![a] = [k |-> k, age |-> 0]]
  BY DEF Inserted
<1>2. /\ p = [b \in Addr |-> p[b]]
      /\ IsFiniteSet(In(p)) /\ Cardinality(In(p)) < MaxPool
  <2>0. IsFiniteSet(Pooled) /\ Cardinality(Pooled) \in Nat /\ MaxPool \in Nat
    BY FS_CardinalityType, ConnPoolAssumption DEF PoolOK
  <2>1. CASE Cardinality(Pooled) < MaxPool
    <3>1. p = pool
      BY <1>1, <2>1 DEF RoomFor, Pooled
    <3> QED BY <2>0, <2>1, <3>1 DEF PoolOK, Pooled, In
  <2>2. CASE ~(Cardinality(Pooled) < MaxPool)
    <3>1. PICK b \in Pooled : p = [pool EXCEPT ![b] = NoConn]
      BY <1>1, <2>2 DEF RoomFor, Pooled
    <3>2. In(p) = Pooled \ {b} /\ p = [c \in Addr |-> p[c]]
      BY <3>1 DEF PoolOK, Pooled, In
    <3>3. /\ IsFiniteSet(Pooled \ {b})
          /\ Cardinality(Pooled \ {b}) = Cardinality(Pooled) - 1
      BY <2>0, <3>1, FS_RemoveElement
    <3> QED BY <2>0, <3>2, <3>3 DEF PoolOK, PoolBounded
  <2> QED BY <2>1, <2>2
<1>3. pool' = [b \in Addr |-> pool'[b]] /\ Pooled' \subseteq In(p) \cup {a}
  BY <1>1, <1>2 DEF Pooled, In
<1>4. /\ IsFiniteSet(In(p) \cup {a})
      /\ Cardinality(In(p) \cup {a}) <= Cardinality(In(p)) + 1
  <2>1. Cardinality(In(p)) \in Nat
    BY <1>2, FS_CardinalityType
  <2>2. /\ IsFiniteSet(In(p) \cup {a})
        /\ \/ Cardinality(In(p) \cup {a}) = Cardinality(In(p))
           \/ Cardinality(In(p) \cup {a}) = Cardinality(In(p)) + 1
    BY <1>2, FS_AddElement, Zenon
  <2> QED BY <2>1, <2>2
<1>5. /\ IsFiniteSet(Pooled')
      /\ Cardinality(Pooled') <= Cardinality(In(p) \cup {a})
  BY <1>3, <1>4, FS_Subset
<1>6. {Cardinality(Pooled'), Cardinality(In(p) \cup {a}), Cardinality(In(p)), MaxPool}
        \subseteq Nat
  BY <1>2, <1>4, <1>5, FS_CardinalityType, ConnPoolAssumption
<1>7. Cardinality(Pooled') <= MaxPool
  BY <1>2, <1>4, <1>5, <1>6
<1> QED BY <1>3, <1>5, <1>7 DEF PoolOK, PoolBounded

\* Steps that only take connections out of the pool, or change their age.
LEMMA ShrinkOK ==
    ASSUME PoolOK, pool' = [a \in Addr |-> pool'[a]], Pooled' \subseteq Pooled
    PROVE  PoolOK'
<1>1. IsFiniteSet(Pooled') /\ Cardinality(Pooled') <= Cardinality(Pooled)
  BY FS_Subset DEF PoolOK
<1>2. Cardinality(Pooled') \in Nat /\ Cardinality(Pooled) \in Nat /\ MaxPool \in Nat
  BY <1>1, FS_CardinalityType, ConnPoolAssumption DEF PoolOK
<1> QED BY <1>1, <1>2 DEF PoolOK, PoolBounded

LEMMA PoolStep == PoolOK /\ [PoolNext]_poolVars => PoolOK'
<1> SUFFICES ASSUME PoolOK, [PoolNext]_poolVars PROVE PoolOK'
  OBVIOUS
<1>1. CASE UNCHANGED pool
  BY <1>1 DEF PoolOK, PoolBounded, Pooled
<1>2. ASSUME NEW c \in Request, Lookup(c) PROVE PoolOK'
  <2>1. AddrOf[c] \in Addr
    BY ConnPoolAssumption
  <2>2. CASE Usable(AddrOf[c])
    <3>1. /\ pool' = [pool EXCEPT ![AddrOf[c]].age = 0]
          /\ pool[AddrOf[c]] # NoConn
      BY <1>2, <2>2 DEF Lookup, Usable
    <3>2. pool' = [a \in Addr |-> pool'[a]] /\ Pooled' \subseteq Pooled
      BY <2>1, <3>1 DEF PoolOK, Pooled
    <3> QED BY <3>2, ShrinkOK
  <2>3. CASE ~Usable(AddrOf[c])
    <3>1. pool' = [pool EXCEPT ![AddrOf[c]] = NoConn]
      BY <1>2, <2>3 DEF Lookup
    <3>2. pool' = [a \in Addr |-> pool'[a]] /\ Pooled' \subseteq Pooled
      BY <2>1, <3>1 DEF PoolOK, Pooled
    <3> QED BY <3>2, ShrinkOK
  <2> QED BY <2>2, <2>3
<1>3. ASSUME NEW c \in Request, EvictConnection(c) PROVE PoolOK'
  <2>1. pool' = [a \in Addr |-> pool'[a]] /\ Pooled' \subseteq Pooled
    BY <1>3, ConnPoolAssumption DEF EvictConnection, PoolOK, Pooled
  <2> QED BY <2>1, ShrinkOK
<1>4. ASSUME NEW c \in Request, Insert(c) PROVE PoolOK'
  BY <1>4, InsertedOK, ConnPoolAssumption DEF Insert
<1>5. ASSUME NEW a \in Addr, Accept(a) PROVE PoolOK'
  BY <1>5, InsertedOK DEF Accept
<1>6. CASE Cleanup
  <2>1. pool' = [a \in Addr |-> pool'[a]] /\ Pooled' \subseteq Pooled
    BY <1>6 DEF Cleanup, Retained, Pooled
  <2> QED BY <2>1, ShrinkOK
<1>7. CASE Tick
  <2>1. pool' = [a \in Addr |-> pool'[a]] /\ Pooled' \subseteq Pooled
    BY <1>7 DEF Tick, Pooled
  <2> QED BY <2>1, ShrinkOK
<1> QED
  BY <1>1, <1>2, <1>3, <1>4, <1>5, <1>6, <1>7
  DEF PoolNext, poolVars, SendRequest, Connect, ConnectFails, Answered, ConnectionError,
      StreamError, AnswerTimeout, CallerLeaves, LoseConnection, NoticeLoss, Shutdown

LEMMA PoolInitOK == PoolInit => PoolOK
<1> SUFFICES ASSUME PoolInit PROVE PoolOK
  OBVIOUS
<1>1. pool = [a \in Addr |-> pool[a]] /\ Pooled = {}
  BY DEF PoolInit, Pooled
<1> QED BY <1>1, FS_EmptySet, ConnPoolAssumption DEF PoolOK, PoolBounded

\* THEOREM: the pool never holds more than MAX_POOL_SIZE connections, for any
\* number of tasks that open connections at once (get_or_create_connection,
\* the acceptor).
THEOREM Bounded == PoolSpec => []PoolBounded
<1>1. PoolOK => PoolBounded
  BY DEF PoolOK
<1> QED BY <1>1, PoolInitOK, PoolStep, PTL DEF PoolSpec
-----------------------------------------------------------------------------
Contained == CallOK /\ InPlace /\ SecondIsFresh /\ StaleHarmContained

\* Connections do not come to life again: where none is added, the calls that
\* are left as they are keep what they hold, and so does the pool.
LEMMA LeftAlone ==
    ASSUME PoolOK, Contained,
           conn' \in Seq({"open", "lost", "closed"}), Len(conn') = Len(conn),
           \A k \in 1 .. Len(conn) : conn[k] # "open" => conn'[k] # "open",
           \A c \in clean' : /\ c \in clean
                             /\ c \in Running /\ conn[held[c]] = "open"
                                  => conn'[held[c]] = "open",
           Pooled' \subseteq Pooled, \A a \in Pooled' : pool'[a].k = pool[a].k,
           UNCHANGED <<st, held, try, lent>>
    PROVE  Contained'
<1> USE DEF Contained
<1>1. CallOK'
  BY DEF CallOK
<1>2. InPlace'
  BY DEF InPlace
<1>3. SecondIsFresh'
  <2>1. ASSUME NEW c \in clean', st[c] \in {"insert", "send"}, try[c] # 1
        PROVE  c \in lent \/ conn'[held[c]] = "open"
    BY <2>1 DEF SecondIsFresh, CallOK, Running
  <2>2. ASSUME NEW c \in clean', st[c] = "expired"
        PROVE  try[c] = 1 /\ conn'[held[c]] # "open"
    <3>1. c \in clean /\ c \in Request /\ held[c] \in 0 .. Len(conn) /\ held[c] # 0
      BY <2>2 DEF CallOK
    <3>2. Len(conn) \in Nat /\ held[c] \in 1 .. Len(conn)
      BY <3>1 DEF CallOK
    <3> QED BY <2>2, <3>1, <3>2 DEF SecondIsFresh
  <2>3. \A c \in clean' : st[c] = "failed" => c \in lent \/ held[c] # 0
    BY DEF SecondIsFresh
  <2> QED BY <2>1, <2>2, <2>3 DEF SecondIsFresh
<1>4. StaleHarmContained'
  <2> SUFFICES ASSUME NEW c \in clean', st[c] = "failed", c \notin lent
               PROVE  /\ try[c] = 1 /\ conn'[held[c]] # "open"
                      /\ \A a \in Pooled' : pool'[a].k # held[c]
    BY DEF StaleHarmContained
  <2>1. /\ try[c] = 1 /\ conn[held[c]] # "open"
        /\ \A a \in Pooled : pool[a].k # held[c]
    BY DEF StaleHarmContained
  <2>2. conn'[held[c]] # "open"
    <3>1. held[c] \in 1 .. Len(conn)
      <4>1. c \in clean /\ c \in Request /\ held[c] \in 0 .. Len(conn) /\ held[c] # 0
        BY DEF CallOK, SecondIsFresh
      <4>2. Len(conn) \in Nat
        BY DEF CallOK
      <4> QED BY <4>1, <4>2
    <3> QED BY <2>1, <3>1
  <2> QED BY <2>1, <2>2
<1> QED BY <1>1, <1>2, <1>3, <1>4

\* An attempt ends: only what call c does next changes.
LEMMA MovesOn ==
    ASSUME PoolOK, Contained, NEW c \in Request, NEW to,
           st[c] \notin {"idle", "insert"},
           st' = [st EXCEPT ![c] = to],
           to \notin {"idle", "insert", "send"}, held[c] = 0 => to \in {"connect", "failed"},
           c \in clean' /\ to = "expired" => try[c] = 1 /\ conn[held[c]] # "open",
           c \in clean' /\ to = "failed" =>
               \/ c \in lent
               \/ /\ try[c] = 1 /\ held[c] # 0 /\ conn[held[c]] # "open"
                  /\ \A a \in Pooled' : pool'[a].k # held[c],
           clean' \subseteq clean, Pooled' \subseteq Pooled,
           \A a \in Pooled' : pool'[a].k = pool[a].k,
           UNCHANGED <<held, conn, try, lent>>
    PROVE  Contained'
<1> USE DEF Contained
<1>0. st'[c] = to /\ \A d \in Request : d # c => st'[d] = st[d]
  BY DEF CallOK
<1>1. CallOK'
  BY <1>0 DEF CallOK
<1>2. InPlace'
  BY <1>0 DEF InPlace
<1>3. SecondIsFresh'
  <2> SUFFICES ASSUME NEW d \in clean'
               PROVE  /\ (st'[d] \in {"insert", "send"} /\ try[d] # 1)
                            => d \in lent \/ conn[held[d]] = "open"
                      /\ st'[d] = "expired" => try[d] = 1 /\ conn[held[d]] # "open"
                      /\ st'[d] = "failed" => d \in lent \/ held[d] # 0
    BY DEF SecondIsFresh
  <2>1. CASE d = c
    BY <1>0, <2>1
  <2>2. CASE d # c
    BY <1>0, <2>2 DEF SecondIsFresh, CallOK
  <2> QED BY <2>1, <2>2
<1>4. StaleHarmContained'
  <2> SUFFICES ASSUME NEW d \in clean', st'[d] = "failed", d \notin lent
               PROVE  /\ try[d] = 1 /\ conn[held[d]] # "open"
                      /\ \A a \in Pooled' : pool'[a].k # held[d]
    BY DEF StaleHarmContained
  <2>1. CASE d = c
    BY <1>0, <2>1
  <2>2. CASE d # c
    <3>1. d \in clean /\ d \in Request /\ st[d] = "failed"
      BY <1>0, <2>2 DEF CallOK
    <3>2. /\ try[d] = 1 /\ conn[held[d]] # "open"
          /\ \A a \in Pooled : pool[a].k # held[d]
      BY <3>1 DEF StaleHarmContained
    <3> QED BY <3>2
  <2> QED BY <2>1, <2>2
<1> QED BY <1>1, <1>2, <1>3, <1>4

\* Another connection is made, and goes to a call or into the pool.
LEMMA ConnAdded ==
    ASSUME Contained, conn' = Append(conn, "open")
    PROVE  /\ conn' \in Seq({"open", "lost", "closed"})
           /\ Len(conn) \in Nat /\ Len(conn') = Len(conn) + 1 /\ conn'[Len(conn) + 1] = "open"
           /\ \A k \in 1 .. Len(conn) : conn'[k] = conn[k]
BY DEF Contained, CallOK

\* What the pool holds after an insertion.
LEMMA InsertedWhat ==
    ASSUME PoolOK, NEW a \in Addr, NEW k, Inserted(a, k)
    PROVE  /\ pool'[a].k = k
           /\ \A b \in Pooled' : b # a => b \in Pooled /\ pool'[b].k = pool[b].k
<1>1. PICK p \in RoomFor(pool) : pool' = [p EXCEPT ![a] = [k |-> k, age |-> 0]]
  BY DEF Inserted
<1>2. /\ p = [b \in Addr |-> p[b]]
      /\ \A b \in Addr : p[b] # NoConn => p[b] = pool[b]
  BY <1>1 DEF RoomFor, PoolOK
<1> QED BY <1>1, <1>2 DEF Pooled

LEMMA ConnectContained ==
    ASSUME PoolOK, Contained, NEW c \in Request, Connect(c) PROVE Contained'
<1> USE DEF Contained
<1>1. /\ conn' \in Seq({"open", "lost", "closed"})
      /\ Len(conn) \in Nat /\ Len(conn') = Len(conn) + 1 /\ conn'[Len(conn) + 1] = "open"
      /\ \A k \in 1 .. Len(conn) : conn'[k] = conn[k]
  BY ConnAdded DEF Connect
<1>2. /\ st' = [st EXCEPT ![c] = "insert"] /\ held' = [held EXCEPT ![c] = Len(conn) + 1]
      /\ UNCHANGED <<try, clean, lent, pool>> /\ st[c] = "connect"
  BY DEF Connect
<1>3. /\ st'[c] = "insert" /\ held'[c] = Len(conn) + 1
      /\ \A d \in Request : d # c => st'[d] = st[d] /\ held'[d] = held[d]
  BY <1>2 DEF CallOK
<1>4. CallOK'
  <2>1. /\ st' = [d \in Request |-> st'[d]] /\ held' = [d \in Request |-> held'[d]]
        /\ try' = [d \in Request |-> try'[d]]
    BY <1>2 DEF CallOK
  <2>2. ASSUME NEW d \in Request
        PROVE  /\ held'[d] \in 0 .. Len(conn')
               /\ st'[d] \notin {"idle", "lookup", "connect", "ok", "failed"} => held'[d] # 0
               /\ st'[d] # "idle" => try'[d] \in {1, 2}
    <3>1. CASE d = c
      BY <1>1, <1>2, <1>3, <3>1 DEF CallOK
    <3>2. CASE d # c
      <4>1. /\ held[d] \in 0 .. Len(conn) /\ st'[d] = st[d] /\ held'[d] = held[d]
            /\ st[d] \notin {"idle", "lookup", "connect", "ok", "failed"} => held[d] # 0
            /\ st[d] # "idle" => try[d] \in {1, 2}
        BY <1>3, <3>2 DEF CallOK
      <4> QED BY <1>1, <1>2, <4>1
    <3> QED BY <3>1, <3>2
  <2> QED BY <1>1, <1>2, <2>1, <2>2 DEF CallOK
<1>5. InPlace'
  <2>1. \A a \in Pooled' : a \in Pooled /\ pool'[a].k = pool[a].k /\ pool[a].k \in 1 .. Len(conn)
    BY <1>2 DEF InPlace, Pooled
  <2>2. \A d \in Request : d # c => held'[d] \in 0 .. Len(conn)
    BY <1>3 DEF CallOK
  <2> QED BY <1>1, <1>3, <2>1, <2>2 DEF InPlace
<1>6. \A d \in clean : d # c => /\ d \in Request /\ st'[d] = st[d] /\ held'[d] = held[d]
                                /\ held[d] # 0 => conn'[held[d]] = conn[held[d]]
  BY <1>1, <1>3 DEF CallOK
<1>7. SecondIsFresh'
  <2> SUFFICES ASSUME NEW d \in clean
               PROVE  /\ (st'[d] \in {"insert", "send"} /\ try[d] # 1)
                            => d \in lent \/ conn'[held'[d]] = "open"
                      /\ st'[d] = "expired" => try[d] = 1 /\ conn'[held'[d]] # "open"
                      /\ st'[d] = "failed" => d \in lent \/ held'[d] # 0
    BY <1>2 DEF SecondIsFresh
  <2>1. CASE d = c
    BY <1>1, <1>3, <2>1
  <2>2. CASE d # c
    <3>1. /\ d \in Request /\ st'[d] = st[d] /\ held'[d] = held[d]
          /\ held[d] # 0 => conn'[held[d]] = conn[held[d]]
          /\ st[d] \notin {"idle", "lookup", "connect", "ok", "failed"} => held[d] # 0
      BY <1>6, <2>2 DEF CallOK
    <3> QED BY <3>1 DEF SecondIsFresh
  <2> QED BY <2>1, <2>2
<1>8. StaleHarmContained'
  BY <1>2, <1>3, <1>6 DEF StaleHarmContained, SecondIsFresh, Pooled
<1> QED BY <1>4, <1>5, <1>7, <1>8

LEMMA InsertContained ==
    ASSUME PoolOK, Contained, NEW c \in Request, Insert(c) PROVE Contained'
<1> USE DEF Contained
<1>1. /\ st' = [st EXCEPT ![c] = "send"] /\ st[c] = "insert"
      /\ UNCHANGED <<held, try, conn, clean, lent>> /\ AddrOf[c] \in Addr
  BY ConnPoolAssumption DEF Insert
<1>2. st'[c] = "send" /\ \A d \in Request : d # c => st'[d] = st[d]
  BY <1>1 DEF CallOK
<1>3. /\ pool'[AddrOf[c]].k = held[c]
      /\ \A b \in Pooled' : b # AddrOf[c] => b \in Pooled /\ pool'[b].k = pool[b].k
  BY <1>1, InsertedWhat DEF Insert
<1>4. CallOK'
  BY <1>1, <1>2 DEF CallOK
<1>5. InPlace'
  <2>1. held[c] \in 1 .. Len(conn)
    BY <1>1 DEF CallOK
  <2>2. \A a \in Pooled : pool[a].k # held[c]
    BY <1>1 DEF InPlace
  <2>3. \A d \in Request : d # c => held[d] # held[c]
    BY <1>1 DEF InPlace
  <2> QED BY <1>1, <1>2, <1>3, <2>1, <2>2, <2>3 DEF InPlace
<1>6. SecondIsFresh'
  BY <1>1, <1>2 DEF SecondIsFresh, CallOK
<1>7. StaleHarmContained'
  <2> SUFFICES ASSUME NEW d \in clean, st'[d] = "failed", d \notin lent
               PROVE  /\ try[d] = 1 /\ conn[held[d]] # "open"
                      /\ \A a \in Pooled' : pool'[a].k # held[d]
    BY <1>1 DEF StaleHarmContained
  <2>1. d \in Request /\ d # c /\ st[d] = "failed"
    BY <1>2 DEF CallOK
  <2>2. held[d] # held[c]
    BY <1>1, <2>1 DEF InPlace
  <2> QED BY <1>3, <2>1, <2>2 DEF StaleHarmContained
<1> QED BY <1>4, <1>5, <1>6, <1>7

LEMMA AcceptContained ==
    ASSUME PoolOK, Contained, NEW a \in Addr, Accept(a) PROVE Contained'
<1> USE DEF Contained
<1>1. /\ conn' \in Seq({"open", "lost", "closed"})
      /\ Len(conn) \in Nat /\ Len(conn') = Len(conn) + 1
      /\ \A k \in 1 .. Len(conn) : conn'[k] = conn[k]
  BY ConnAdded DEF Accept
<1>2. UNCHANGED <<st, held, try, clean, lent>>
  BY DEF Accept
<1>3. /\ pool'[a].k = Len(conn) + 1
      /\ \A b \in Pooled' : b # a => b \in Pooled /\ pool'[b].k = pool[b].k
  BY InsertedWhat DEF Accept
<1>4. \A d \in Request : held[d] \in 0 .. Len(conn)
  BY DEF CallOK
<1>5. CallOK'
  BY <1>1, <1>2 DEF CallOK
<1>6. InPlace'
  BY <1>1, <1>2, <1>3, <1>4 DEF InPlace
<1>7. \A d \in clean : d \in Request /\ (held[d] # 0 => conn'[held[d]] = conn[held[d]])
  BY <1>1, <1>4 DEF CallOK
<1>8. SecondIsFresh'
  BY <1>2, <1>7 DEF SecondIsFresh, CallOK
<1>9. StaleHarmContained'
  BY <1>1, <1>2, <1>3, <1>4, <1>7 DEF StaleHarmContained, SecondIsFresh
<1> QED BY <1>5, <1>6, <1>8, <1>9

LEMMA LookupContained ==
    ASSUME PoolOK, Contained, NEW c \in Request, Lookup(c) PROVE Contained'
<1> USE DEF Contained
<1>0. /\ st[c] = "lookup" /\ AddrOf[c] \in Addr /\ UNCHANGED <<conn, try, clean>>
  BY ConnPoolAssumption DEF Lookup
<1>1. CASE ~Usable(AddrOf[c])
  <2>1. /\ pool' = [pool EXCEPT ![AddrOf[c]] = NoConn]
        /\ st' = [st EXCEPT ![c] = "connect"] /\ UNCHANGED <<held, lent>>
    BY <1>1 DEF Lookup
  <2>2. Pooled' \subseteq Pooled /\ \A a \in Pooled' : pool'[a].k = pool[a].k
    BY <1>0, <2>1 DEF PoolOK, Pooled
  <2> QED BY <1>0, <2>1, <2>2, MovesOn
<1>2. CASE Usable(AddrOf[c])
  <2> DEFINE k == pool[AddrOf[c]].k
  <2>1. /\ pool' = [pool EXCEPT ![AddrOf[c]].age = 0]
        /\ st' = [st EXCEPT ![c] = "send"] /\ held' = [held EXCEPT ![c] = k]
        /\ lent' = IF try[c] = 2 THEN lent \cup {c} ELSE lent
        /\ AddrOf[c] \in Pooled
    BY <1>0, <1>2 DEF Lookup, Usable, Pooled
  <2>2. Pooled' \subseteq Pooled /\ \A a \in Pooled' : pool'[a].k = pool[a].k
    BY <1>0, <2>1 DEF PoolOK, Pooled
  <2>3. /\ st'[c] = "send" /\ held'[c] = k
        /\ \A d \in Request : d # c => st'[d] = st[d] /\ held'[d] = held[d]
    BY <2>1 DEF CallOK
  <2>4. k \in 1 .. Len(conn) /\ Len(conn) \in Nat
    BY <2>1 DEF InPlace, CallOK
  <2> HIDE DEF k
  <2>5. CallOK'
    <3>1. /\ st' = [d \in Request |-> st'[d]] /\ held' = [d \in Request |-> held'[d]]
          /\ try' = [d \in Request |-> try'[d]]
      BY <1>0, <2>1 DEF CallOK
    <3>2. ASSUME NEW d \in Request
          PROVE  /\ held'[d] \in 0 .. Len(conn)
                 /\ st'[d] \notin {"idle", "lookup", "connect", "ok", "failed"} => held'[d] # 0
                 /\ st'[d] # "idle" => try[d] \in {1, 2}
      <4>1. CASE d = c
        BY <1>0, <2>3, <2>4, <4>1 DEF CallOK
      <4>2. CASE d # c
        BY <2>3, <4>2 DEF CallOK
      <4> QED BY <4>1, <4>2
    <3> QED BY <1>0, <3>1, <3>2 DEF CallOK
  <2>6. InPlace'
    <3>1. /\ \A a \in Pooled : pool[a].k = k => a = AddrOf[c]
          /\ \A d \in Request : k = held[d] => st[d] # "insert"
      BY <2>1 DEF InPlace, k
    <3> QED BY <1>0, <2>2, <2>3, <3>1 DEF InPlace
  <2>7. SecondIsFresh'
    <3> SUFFICES ASSUME NEW d \in clean
                 PROVE  /\ (st'[d] \in {"insert", "send"} /\ try[d] # 1)
                              => d \in lent' \/ conn[held'[d]] = "open"
                        /\ st'[d] = "expired" => try[d] = 1 /\ conn[held'[d]] # "open"
                        /\ st'[d] = "failed" => d \in lent' \/ held'[d] # 0
      BY <1>0 DEF SecondIsFresh
    <3>1. CASE d = c
      BY <1>0, <2>1, <2>3, <3>1 DEF CallOK
    <3>2. CASE d # c
      BY <2>1, <2>3, <3>2 DEF SecondIsFresh, CallOK
    <3> QED BY <3>1, <3>2
  <2>8. StaleHarmContained'
    <3> SUFFICES ASSUME NEW d \in clean, st'[d] = "failed", d \notin lent'
                 PROVE  /\ try[d] = 1 /\ conn[held'[d]] # "open"
                        /\ \A a \in Pooled' : pool'[a].k # held'[d]
      BY <1>0 DEF StaleHarmContained
    <3>1. d \in Request /\ d # c /\ d \notin lent /\ st[d] = "failed" /\ held'[d] = held[d]
      BY <2>1, <2>3 DEF CallOK
    <3> QED BY <2>2, <3>1 DEF StaleHarmContained
  <2> QED BY <2>5, <2>6, <2>7, <2>8
<1> QED BY <1>1, <1>2

LEMMA ConnectionErrorContained ==
    ASSUME PoolOK, Contained, NEW c \in Request, ConnectionError(c) PROVE Contained'
<1> USE DEF Contained
<1>1. /\ st[c] = "send" /\ conn[held[c]] # "open" /\ held[c] \in 1 .. Len(conn)
      /\ st' = [st EXCEPT ![c] = OnError(c)]
      /\ conn' = [conn EXCEPT ![held[c]] = "closed"]
      /\ UNCHANGED <<held, try, pool, clean, lent>>
  <2>1. held[c] \in 0 .. Len(conn) /\ st[c] = "send" /\ held[c] # 0 /\ Len(conn) \in Nat
    BY DEF ConnectionError, CallOK
  <2> QED BY <2>1 DEF ConnectionError
<1>2. /\ conn' \in Seq({"open", "lost", "closed"}) /\ Len(conn') = Len(conn)
      /\ \A k \in 1 .. Len(conn) : (conn'[k] = "open") <=> (conn[k] = "open")
  BY <1>1 DEF CallOK
<1>3. c \in clean /\ try[c] # 1 => c \in lent
  BY <1>1 DEF SecondIsFresh
<1>4. /\ st'[c] = OnError(c) /\ OnError(c) \in {"evict", "failed"}
      /\ OnError(c) = "failed" => try[c] # 1
      /\ \A d \in Request : d # c => st'[d] = st[d]
  BY <1>1 DEF OnError, CallOK
<1>5. CallOK'
  BY <1>1, <1>2, <1>4 DEF CallOK
<1>6. InPlace'
  BY <1>1, <1>2, <1>4 DEF InPlace, Pooled
<1>7. \A d \in clean : /\ d \in Request
                       /\ held[d] # 0 => ((conn'[held[d]] = "open") <=> (conn[held[d]] = "open"))
  BY <1>2 DEF CallOK
<1>8. SecondIsFresh'
  <2> SUFFICES ASSUME NEW d \in clean
               PROVE  /\ (st'[d] \in {"insert", "send"} /\ try[d] # 1)
                            => d \in lent \/ conn'[held[d]] = "open"
                      /\ st'[d] = "expired" => try[d] = 1 /\ conn'[held[d]] # "open"
                      /\ st'[d] = "failed" => d \in lent \/ held[d] # 0
    BY <1>1 DEF SecondIsFresh
  <2>1. CASE d = c
    BY <1>3, <1>4, <2>1
  <2>2. CASE d # c
    BY <1>4, <1>7, <2>2 DEF SecondIsFresh, CallOK
  <2> QED BY <2>1, <2>2
<1>9. StaleHarmContained'
  <2> SUFFICES ASSUME NEW d \in clean, st'[d] = "failed", d \notin lent
               PROVE  /\ try[d] = 1 /\ conn'[held[d]] # "open"
                      /\ \A a \in Pooled : pool[a].k # held[d]
    BY <1>1 DEF StaleHarmContained, Pooled
  <2>1. d \in Request /\ d # c /\ st[d] = "failed"
    BY <1>3, <1>4 DEF CallOK
  <2> QED BY <1>7, <2>1 DEF StaleHarmContained, SecondIsFresh
<1> QED BY <1>5, <1>6, <1>8, <1>9

\* ConnectFails, CallerLeaves: the call is given up, and not clean any more.
LEMMA GivesUp ==
    ASSUME PoolOK, Contained, NEW c \in Request, ConnectFails(c) \/ CallerLeaves(c)
    PROVE  Contained'
<1> USE DEF Contained
<1>1. /\ st[c] \notin {"idle", "failed"} /\ st' = [st EXCEPT ![c] = "failed"]
      /\ clean' = clean \ {c} /\ UNCHANGED <<held, try, conn, pool, lent>>
  BY DEF ConnectFails, CallerLeaves, Running
<1>2. st'[c] = "failed" /\ \A d \in Request : d # c => st'[d] = st[d]
  BY <1>1 DEF CallOK
<1>3. CallOK'
  BY <1>1, <1>2 DEF CallOK
<1>4. InPlace'
  BY <1>1, <1>2 DEF InPlace, Pooled
<1>5. \A d \in clean' : d \in clean /\ d \in Request /\ st'[d] = st[d]
  BY <1>1, <1>2 DEF CallOK
<1>6. SecondIsFresh'
  BY <1>1, <1>5 DEF SecondIsFresh
<1>7. StaleHarmContained'
  BY <1>1, <1>5 DEF StaleHarmContained, Pooled
<1> QED BY <1>3, <1>4, <1>6, <1>7

LEMMA EvictContained ==
    ASSUME PoolOK, Contained, NEW c \in Request, EvictConnection(c) PROVE Contained'
<1> USE DEF Contained
<1>1. /\ st[c] \in {"evict", "expired"} /\ pool' = [pool EXCEPT ![AddrOf[c]] = NoConn]
      /\ UNCHANGED <<held, conn, clean, lent>> /\ AddrOf[c] \in Addr
  BY ConnPoolAssumption DEF EvictConnection
<1>2. Pooled' \subseteq Pooled \ {AddrOf[c]} /\ \A a \in Pooled' : pool'[a].k = pool[a].k
  BY <1>1 DEF PoolOK, Pooled
<1>3. \A a \in Pooled' : pool'[a].k # held[c]
  BY <1>2 DEF InPlace
<1>4. CASE st[c] = "evict"
  <2>1. st' = [st EXCEPT ![c] = "lookup"] /\ try' = [try EXCEPT ![c] = 2]
    BY <1>4 DEF EvictConnection
  <2>2. /\ st'[c] = "lookup" /\ try'[c] = 2
        /\ \A d \in Request : d # c => st'[d] = st[d] /\ try'[d] = try[d]
    BY <2>1 DEF CallOK
  <2>3. CallOK'
    BY <1>1, <2>1, <2>2 DEF CallOK
  <2>4. InPlace'
    BY <1>1, <1>2, <2>2 DEF InPlace
  <2>5. SecondIsFresh'
    BY <1>1, <2>2 DEF SecondIsFresh, CallOK
  <2>6. StaleHarmContained'
    <3> SUFFICES ASSUME NEW d \in clean, st'[d] = "failed", d \notin lent
                 PROVE  /\ try'[d] = 1 /\ conn[held[d]] # "open"
                        /\ \A a \in Pooled' : pool'[a].k # held[d]
      BY <1>1 DEF StaleHarmContained
    <3>1. d \in Request /\ d # c /\ st[d] = "failed" /\ try'[d] = try[d]
      BY <2>2 DEF CallOK
    <3>2. /\ try[d] = 1 /\ conn[held[d]] # "open"
          /\ \A a \in Pooled : pool[a].k # held[d]
      BY <3>1 DEF StaleHarmContained
    <3> QED BY <1>2, <3>1, <3>2
  <2> QED BY <2>3, <2>4, <2>5, <2>6
<1>5. CASE st[c] = "expired"
  <2>1. st' = [st EXCEPT ![c] = "failed"] /\ try' = try /\ held[c] # 0
    BY <1>5 DEF EvictConnection, CallOK
  <2>2. c \in clean => try[c] = 1 /\ conn[held[c]] # "open"
    BY <1>5 DEF SecondIsFresh
  <2> QED BY <1>1, <1>2, <1>3, <1>5, <2>1, <2>2, MovesOn
<1> QED BY <1>1, <1>4, <1>5

LEMMA ContainedStep == PoolOK /\ Contained /\ [PoolNext]_poolVars => Contained'
<1> SUFFICES ASSUME PoolOK, Contained, [PoolNext]_poolVars PROVE Contained'
  OBVIOUS
<1>1. CASE UNCHANGED poolVars
  BY <1>1, LeftAlone DEF poolVars, Pooled, Contained, CallOK
<1>2. ASSUME NEW c \in Request, SendRequest(c) PROVE Contained'
  <2>1. /\ st[c] = "idle" /\ st' = [st EXCEPT ![c] = "lookup"]
        /\ try' = [try EXCEPT ![c] = 1] /\ clean' = clean \cup {c}
        /\ UNCHANGED <<held, conn, pool, lent>>
    BY <1>2 DEF SendRequest
  <2>2. /\ st'[c] = "lookup" /\ try'[c] = 1 /\ held'[c] = held[c]
        /\ \A d \in Request : d # c => st'[d] = st[d] /\ try'[d] = try[d]
    BY <2>1 DEF Contained, CallOK
  <2>3. CallOK'
    BY <2>1, <2>2 DEF Contained, CallOK
  <2>4. InPlace'
    BY <2>1, <2>2 DEF Contained, InPlace, Pooled
  <2>5. \A d \in clean' : /\ d \in Request
                          /\ d # c => d \in clean /\ st'[d] = st[d] /\ try'[d] = try[d]
    BY <2>1, <2>2 DEF Contained, CallOK
  <2>6. SecondIsFresh'
    BY <2>1, <2>2, <2>5 DEF Contained, SecondIsFresh
  <2>7. StaleHarmContained'
    BY <2>1, <2>2, <2>5 DEF Contained, StaleHarmContained, Pooled
  <2> QED BY <2>3, <2>4, <2>6, <2>7 DEF Contained
<1>3. ASSUME NEW c \in Request, ConnectFails(c) \/ CallerLeaves(c) PROVE Contained'
  BY <1>3, GivesUp
<1>4. ASSUME NEW c \in Request, Answered(c) PROVE Contained'
  <2>1. /\ st[c] = "send" /\ st' = [st EXCEPT ![c] = "ok"] /\ held[c] # 0
        /\ UNCHANGED <<held, try, conn, pool, clean, lent>>
    BY <1>4 DEF Answered, Contained, CallOK
  <2> QED BY <2>1, MovesOn DEF Pooled
<1>5. ASSUME NEW c \in Request, StreamError(c) PROVE Contained'
  <2>1. /\ st[c] = "send" /\ st' = [st EXCEPT ![c] = OnError(c)] /\ held[c] # 0
        /\ OnError(c) \in {"evict", "failed"} /\ clean' = clean \ {c}
        /\ UNCHANGED <<held, try, conn, pool, lent>>
    BY <1>5 DEF StreamError, OnError, Contained, CallOK
  <2> QED BY <2>1, MovesOn DEF Pooled
<1>6. ASSUME NEW c \in Request, AnswerTimeout(c) PROVE Contained'
  <2> DEFINE to == IF try[c] = 1 THEN "expired" ELSE "failed"
  <2>1. /\ st[c] = "send" /\ st' = [st EXCEPT ![c] = to] /\ held[c] # 0
        /\ clean' \subseteq clean /\ (c \in clean' => conn[held[c]] # "open" /\ c \in clean)
        /\ UNCHANGED <<held, try, conn, pool, lent>>
    BY <1>6 DEF AnswerTimeout, Contained, CallOK
  <2>2. c \in clean' /\ try[c] # 1 => c \in lent
    BY <2>1 DEF Contained, SecondIsFresh
  <2>3. Pooled' = Pooled /\ to \in {"expired", "failed"}
        /\ (to = "expired" => try[c] = 1) /\ (to = "failed" => try[c] # 1)
    BY <2>1 DEF Pooled
  <2> HIDE DEF to
  <2> QED BY <2>1, <2>2, <2>3, MovesOn
<1>7. ASSUME NEW c \in Request, EvictConnection(c) PROVE Contained'
  BY <1>7, EvictContained
<1>8. ASSUME NEW k \in DOMAIN conn, LoseConnection(k) \/ NoticeLoss(k) PROVE Contained'
  <2>1. /\ k \in 1 .. Len(conn) /\ \E v \in {"lost", "closed"} : conn' = [conn EXCEPT ![k] = v]
        /\ UNCHANGED <<pool, st, held, try, lent>>
    BY <1>8 DEF LoseConnection, NoticeLoss, Contained, CallOK
  <2>2. /\ conn' \in Seq({"open", "lost", "closed"}) /\ Len(conn') = Len(conn)
        /\ \A i \in 1 .. Len(conn) : /\ conn[i] # "open" => conn'[i] # "open"
                                     /\ i # k => conn'[i] = conn[i]
    BY <2>1 DEF Contained, CallOK
  <2>3. CASE LoseConnection(k)
    <3>1. clean' = clean \ {c \in Running : held[c] = k}
      BY <2>3 DEF LoseConnection
    <3>2. \A c \in clean' : /\ c \in clean
                            /\ c \in Running => held[c] # k
      BY <3>1
    <3>3. \A i : i # k => conn'[i] = conn[i]
      BY <2>3 DEF LoseConnection, Contained, CallOK
    <3> QED BY <2>1, <2>2, <3>2, <3>3, LeftAlone DEF Pooled
  <2>4. CASE NoticeLoss(k)
    <3>1. \A i : conn[i] = "open" => conn'[i] = "open"
      BY <2>4 DEF NoticeLoss, Contained, CallOK
    <3>2. clean' = clean
      BY <2>4 DEF NoticeLoss
    <3> QED BY <2>1, <2>2, <3>1, <3>2, LeftAlone DEF Pooled
  <2> QED BY <1>8, <2>3, <2>4
<1>9. CASE Cleanup \/ Tick
  <2>1. /\ UNCHANGED <<conn, st, held, try, clean, lent>>
        /\ Pooled' \subseteq Pooled /\ \A a \in Pooled' : pool'[a].k = pool[a].k
    <3>1. CASE Cleanup
      BY <3>1 DEF Cleanup, Retained, Pooled
    <3>2. CASE Tick
      <4>1. /\ UNCHANGED <<conn, st, held, try, clean, lent>>
            /\ pool' = [a \in Addr |->
                          IF pool[a] # NoConn /\ pool[a].age < Stale
                          THEN [pool[a] EXCEPT !.age = @ + 1] ELSE pool[a]]
        BY <3>2 DEF Tick
      <4>2. ASSUME NEW a \in Pooled' PROVE a \in Pooled /\ pool'[a].k = pool[a].k
        BY <4>1 DEF Pooled
      <4> QED BY <4>1, <4>2
    <3> QED BY <1>9, <3>1, <3>2
  <2> QED BY <2>1, LeftAlone DEF Contained, CallOK
<1>10. CASE Shutdown
  <2>1. /\ conn' \in Seq({"open", "lost", "closed"}) /\ Len(conn') = Len(conn)
        /\ \A k \in 1 .. Len(conn) : conn'[k] = "closed"
    BY <1>10 DEF Shutdown, Contained, CallOK
  <2>2. clean' = clean \ Running /\ UNCHANGED <<pool, st, held, try, lent>>
    BY <1>10 DEF Shutdown
  <2> QED BY <2>1, <2>2, LeftAlone DEF Pooled
<1> QED
  BY <1>1, <1>2, <1>3, <1>4, <1>5, <1>6, <1>7, <1>8, <1>9, <1>10, LookupContained,
     ConnectContained, InsertContained, ConnectionErrorContained, AcceptContained
  DEF PoolNext

\* THEOREM: what dead connections in the pool do is contained, for any number of
\* calls, addresses and connections: apart from a connection that another task
\* puts in for its second attempt, a call that nobody gave up fails only because
\* its first attempt waited over a dead connection, and that connection has
\* left the pool for good (send_request, get_or_create_connection).
THEOREM StaleContained == PoolSpec => []StaleHarmContained
<1>1. PoolInit => PoolOK /\ Contained
  BY PoolInitOK DEF PoolInit, Contained, CallOK, InPlace, SecondIsFresh, StaleHarmContained, Pooled
<1>2. Contained => StaleHarmContained
  BY DEF Contained
<1> QED BY <1>1, <1>2, PoolStep, ContainedStep, PTL DEF PoolSpec
=============================================================================
