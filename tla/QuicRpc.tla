------------------------------ MODULE QuicRpc ------------------------------
(***************************************************************************)
(* Calls to one node over QUIC, from the caller's first attempt to the      *)
(* handler's answer (transport/quic.rs, send_request_any, the inbound       *)
(* branch of NodeActor::run).                                               *)
(*                                                                          *)
(* A call sends one message, with one msg_id, over every address of the     *)
(* node and twice over an address whose connection breaks.  Each attempt is *)
(* a stream of its own, with a task at the node that registers a response   *)
(* channel under the msg_id, forwards the message to the node's queue and   *)
(* waits, with a timeout.  The handler's answer goes to whatever channel is *)
(* registered under the msg_id by then.                                     *)
(***************************************************************************)
EXTENDS Naturals, Sequences, FiniteSets

CONSTANTS
    Call,         \* calls; the msg_id of a call is the call itself
    Addrs,        \* number of addresses each call tries
    Silent,       \* calls whose message the handler drops without an answer
    MaxPending,   \* MAX_PENDING_RESPONSES
    QueueSize,    \* capacity of the request channel
    MaxHandlers,  \* max_concurrent_handlers
    None

ASSUME RpcAssumption ==
    /\ Addrs \in [Call -> Nat \ {0}]
    /\ Silent \subseteq Call
    /\ MaxPending \in Nat /\ QueueSize \in Nat \ {0} /\ MaxHandlers \in Nat \ {0}

\* The addresses a call tries, and its attempts: over which address, and which
\* try it is.
Path == UNION {{<<c, a>> : a \in 1..Addrs[c]} : c \in Call}
Stream == UNION {{<<c, a, n>> : a \in 1..Addrs[c], n \in 1..2} : c \in Call}
CallOf(s) == s[1]

ASSUME NoneAssumption == None \notin Stream

VARIABLES
    call,      \* the call as its caller sees it
    path,      \* the attempts of a call over one of its addresses
    stream,    \* the task of each stream at the node
    senders,   \* inbound_response_senders: the stream registered per msg_id
    answered,  \* streams whose response channel holds an answer to read
    queue,     \* requests forwarded to the node, by their stream
    handlers,  \* requests being handled, each with a permit
    handled    \* history: requests that were handled

vars == <<call, path, stream, senders, answered, queue, handlers, handled>>
client == <<call, path>>
node == <<queue, handlers, handled>>

Init ==
    /\ call = [c \in Call |-> "idle"]
    /\ path = [p \in Path |-> "idle"]
    /\ stream = [s \in Stream |-> "none"]
    /\ senders = [c \in Call |-> None]
    /\ answered = {}
    /\ queue = <<>>
    /\ handlers = {}
    /\ handled = {}

-----------------------------------------------------------------------------
(* The caller *)

Send(c) ==
    /\ call[c] = "idle"
    /\ call' = [call EXCEPT ![c] = "sent"]
    /\ UNCHANGED <<path, stream, senders, answered, node>>

\* An attempt over address a of call c is under way.
Trying(c, a, n) == call[c] = "sent" /\ path[<<c, a>>] = <<"first", "second">>[n]

\* send_request over address a gets a connection and sends the message; the
\* addresses are launched in order.  The second try takes a new stream.
Open(c, a) ==
    /\ call[c] = "sent"
    /\ \/ /\ path[<<c, a>>] = "idle"
          /\ a > 1 => path[<<c, a - 1>>] # "idle"
          /\ path' = [path EXCEPT ![<<c, a>>] = "first"]
          /\ stream' = [stream EXCEPT ![<<c, a, 1>>] = "arrived"]
       \/ /\ path[<<c, a>>] = "again"
          /\ path' = [path EXCEPT ![<<c, a>>] = "second"]
          /\ stream' = [stream EXCEPT ![<<c, a, 2>>] = "arrived"]
    /\ UNCHANGED <<call, senders, answered, node>>

\* The call returns; attempts that are still under way are dropped.
Return(c, outcome) ==
    /\ call' = [call EXCEPT ![c] = outcome]
    /\ path' = [p \in Path |-> IF p[1] = c THEN "failed" ELSE path[p]]

\* Fault: nobody notices that the last attempt has failed.
GiveUpQuietly(c, a) ==
    /\ path' = [path EXCEPT ![<<c, a>>] = "failed"]
    /\ UNCHANGED call

\* The attempt over address a has failed for good; with the last address the
\* call fails.
GiveUp(c, a) ==
    IF \A b \in 1..Addrs[c] : b = a \/ path[<<c, b>>] = "failed"
    THEN Return(c, "failed")
    ELSE /\ path' = [path EXCEPT ![<<c, a>>] = "failed"]
         /\ UNCHANGED call

\* No connection, or no answer in time: send_request does not try again.
AttemptFails(c, a) ==
    /\ call[c] = "sent"
    /\ path[<<c, a>>] # "failed"
    /\ a > 1 => path[<<c, a - 1>>] # "idle"
    /\ GiveUp(c, a)
    /\ UNCHANGED <<stream, senders, answered, node>>

\* The connection breaks, or the node ends the stream without an answer: the
\* connection is evicted and send_request tries once more.
AttemptBreaks(c, a) ==
    /\ \/ /\ Trying(c, a, 1)
          /\ path' = [path EXCEPT ![<<c, a>>] = "again"]
          /\ UNCHANGED call
       \/ /\ Trying(c, a, 2)
          /\ GiveUp(c, a)
    /\ UNCHANGED <<stream, senders, answered, node>>

\* The first response wins, the other attempts are dropped.
AttemptAnswered(c, a, n) ==
    /\ Trying(c, a, n)
    /\ stream[<<c, a, n>>] = "written"
    /\ Return(c, "ok")
    /\ UNCHANGED <<stream, senders, answered, node>>

\* The caller's own timeout drops send_request_any.
Abandon(c) ==
    /\ call[c] = "sent"
    /\ Return(c, "failed")
    /\ UNCHANGED <<stream, senders, answered, node>>

-----------------------------------------------------------------------------
(* The task of a stream at the node *)

Pending == {c \in Call : senders[c] # None}

\* The rate limit refuses the stream, or its message cannot be read.
Reject(s) ==
    /\ stream[s] = "arrived"
    /\ stream' = [stream EXCEPT ![s] = "closed"]
    /\ UNCHANGED <<client, senders, answered, node>>

\* A response channel is registered, unless there are too many or one has the
\* msg_id already.
Register(s) ==
    /\ stream[s] = "arrived"
    /\ IF Cardinality(Pending) >= MaxPending \/ senders[CallOf(s)] # None
       THEN /\ stream' = [stream EXCEPT ![s] = "closed"]
            /\ UNCHANGED senders
       ELSE /\ stream' = [stream EXCEPT ![s] = "registered"]
            /\ senders' = [senders EXCEPT ![CallOf(s)] = s]
    /\ UNCHANGED <<client, answered, node>>

\* The message goes into the node's queue; a full queue makes the task wait,
\* without a timeout.
Forward(s) ==
    /\ stream[s] = "registered"
    /\ Len(queue) < QueueSize
    /\ queue' = Append(queue, s)
    /\ stream' = [stream EXCEPT ![s] = "waiting"]
    /\ UNCHANGED <<client, senders, answered, handlers, handled>>

\* The timeout fires, or the channel's other end was dropped unused.
Expire(s) ==
    /\ stream[s] = "waiting"
    /\ s \notin answered
    /\ stream' = [stream EXCEPT ![s] = "expired"]
    /\ UNCHANGED <<client, senders, answered, node>>

\* Fault: the entry stays.
RemoveNothing(s) ==
    /\ stream[s] = "expired"
    /\ stream' = [stream EXCEPT ![s] = "closed"]
    /\ UNCHANGED <<client, senders, answered, node>>

\* After the timeout, under the lock: the entry of the msg_id is removed.
RemoveExpired(s) ==
    /\ stream[s] = "expired"
    /\ senders' = [senders EXCEPT ![CallOf(s)] = None]
    /\ stream' = [stream EXCEPT ![s] = "closed"]
    /\ UNCHANGED <<client, answered, node>>

\* The answer has come in time and is written to the stream, or cannot be.
WriteAnswer(s) ==
    /\ stream[s] = "waiting"
    /\ s \in answered
    /\ answered' = answered \ {s}
    /\ \E end \in {"written", "closed"} :
         stream' = [stream EXCEPT ![s] = end]
    /\ UNCHANGED <<client, senders, node>>

-----------------------------------------------------------------------------
(* The node *)

\* send_response: the channel registered under the msg_id gets the answer, if
\* its task still listens.
Respond(s) ==
    LET t == senders[CallOf(s)]
    IN  /\ senders' = [senders EXCEPT ![CallOf(s)] = None]
        /\ answered' = IF t # None /\ stream[t] \in {"registered", "waiting"}
                       THEN answered \cup {t} ELSE answered

\* Fault: a request without a permit is answered.
DispatchOrRespond ==
    /\ queue # <<>>
    /\ queue' = Tail(queue)
    /\ IF Cardinality(handlers) < MaxHandlers
       THEN /\ handlers' = handlers \cup {Head(queue)}
            /\ UNCHANGED <<senders, answered>>
       ELSE /\ Respond(Head(queue))
            /\ UNCHANGED handlers
    /\ UNCHANGED <<client, stream, handled>>

\* The actor takes the next request and spawns a handler; without a permit the
\* request is dropped.
Dispatch ==
    /\ queue # <<>>
    /\ queue' = Tail(queue)
    /\ handlers' = IF Cardinality(handlers) < MaxHandlers
                   THEN handlers \cup {Head(queue)} ELSE handlers
    /\ UNCHANGED <<client, stream, senders, answered, handled>>

\* A handler ends and returns its permit.  It drops a message it cannot verify
\* and one that is no request.
Handle(s) ==
    /\ s \in handlers
    /\ handlers' = handlers \ {s}
    /\ IF CallOf(s) \in Silent
       THEN UNCHANGED <<senders, answered, handled>>
       ELSE /\ handled' = handled \cup {s}
            /\ Respond(s)
    /\ UNCHANGED <<client, stream, queue>>

-----------------------------------------------------------------------------
Next ==
    \/ \E c \in Call :
        \/ Send(c)
        \/ Abandon(c)
        \/ \E a \in 1..Addrs[c] :
            \/ Open(c, a)
            \/ AttemptFails(c, a)
            \/ AttemptBreaks(c, a)
            \/ \E n \in 1..2 : AttemptAnswered(c, a, n)
    \/ \E s \in Stream :
        \/ Reject(s)
        \/ Register(s)
        \/ Forward(s)
        \/ Expire(s)
        \/ RemoveExpired(s)
        \/ WriteAnswer(s)
        \/ Handle(s)
    \/ Dispatch

\* Timers fire, tasks that can go on do, the actor comes back to its queue and
\* handlers end, since whatever they wait for has a timeout.  Nothing else is
\* assumed: no attempt need arrive, no message need be sent.
Fairness ==
    /\ \A c \in Call : \A a \in 1..Addrs[c] : WF_vars(AttemptFails(c, a))
    /\ \A s \in Stream :
        /\ WF_vars(Register(s))
        /\ WF_vars(Forward(s))
        /\ WF_vars(Expire(s))
        /\ WF_vars(RemoveExpired(s))
        /\ WF_vars(WriteAnswer(s))
        /\ WF_vars(Handle(s))
    /\ WF_vars(Dispatch)

Spec == Init /\ [][Next]_vars /\ Fairness
-----------------------------------------------------------------------------
(* Properties *)

\* Type invariant.
TypeOK ==
    /\ call \in [Call -> {"idle", "sent", "ok", "failed"}]
    /\ path \in [Path -> {"idle", "first", "again", "second", "failed"}]
    /\ stream \in [Stream -> {"none", "arrived", "registered", "waiting",
                              "expired", "written", "closed"}]
    /\ senders \in [Call -> Stream \cup {None}]
    /\ answered \subseteq Stream
    /\ queue \in Seq(Stream) /\ Len(queue) <= QueueSize
    /\ handlers \subseteq Stream
    /\ handled \subseteq Stream

\* The table of response channels stays within MAX_PENDING_RESPONSES.
PendingBounded == Cardinality(Pending) <= MaxPending

\* No entry of the table outlives its task: the stream registered under a
\* msg_id carries that message and will answer or remove its entry, so dropped
\* requests cannot fill the table.
NoOrphanSender ==
    \A c \in Pending : /\ CallOf(senders[c]) = c
                       /\ stream[senders[c]] \in {"registered", "waiting",
                                                  "expired"}

\* The caller's view implements Rpc: a call is answered only after its message
\* was handled, at most once per attempt, although the answer may come over
\* another attempt than the one that was handled.
Abstract == INSTANCE Rpc WITH
    Attempt <- [c \in Call |-> {s \in Stream : CallOf(s) = c}],
    runs <- [c \in Call |-> {s \in handled : CallOf(s) = c}]
RefinesRpc == Abstract!Spec

\* Every call ends, whatever is lost, dropped or refused on the way.
CallsEnd == \A c \in Call : call[c] = "sent" ~> call[c] \in {"ok", "failed"}

\* When no more calls come the table drains, also of requests the actor has
\* dropped for lack of a permit.
TableDrains == <>[](Pending = {})

\* "For routing responses back to the correct inbound stream" (quic.rs): a
\* stream that waits for an answer is registered or has its answer.
WaiterRegistered ==
    \A s \in Stream : stream[s] = "waiting" /\ s \notin answered
                        => senders[CallOf(s)] = s
=============================================================================
