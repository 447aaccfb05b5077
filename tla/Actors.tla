------------------------------- MODULE Actors -------------------------------
(***************************************************************************)
(* Several nodes at once: the loop of each actor (NodeActor::run), which     *)
(* executes commands and starts a handler task for every inbound request,    *)
(* the handlers, which may call other nodes before they answer, and the      *)
(* commands, of which GetProviders traverses NATs.  Everybody waits for      *)
(* somebody; the question is who is released, and by what.                   *)
(*                                                                           *)
(* What an answer says is left out, except whether it is the one hoped for.  *)
(* A call made by the command c in step s is <<c, s, i>>; the call that the  *)
(* handler of the call q makes is q with "lrs" or "fwd" appended.            *)
(***************************************************************************)
EXTENDS Naturals, Sequences, FiniteSets

CONSTANTS
    Node, None,
    Command,      \* calls of NodeHandle, with
    KindOf,       \* "bootstrap", "inline", "get" or "shutdown",
    NodeOf,       \* the node that is asked to execute it, and
    TargetOf,     \* the peer it is about
    Public,       \* nodes that accept connections from anybody
    Links,        \* connections at the start, symmetric
    Relays,       \* closest_nodes to its own identifier, for each node
    Contacts,     \* the peers each node finds in its routing table
    BucketOf,     \* the bucket of each node's table that a peer belongs to
    Crowded,      \* for each node, the LRS peer of the full bucket that a
                  \* newcomer belongs to: the tables it may start with
    Gone,         \* nodes that have stopped before
    MaxHandlers,  \* max_concurrent_handlers
    QueueSize,    \* command_channel_size
    MaxLosses     \* bound: requests or answers lost on the way, or relays that
                  \* refuse

ASSUME ActorsAssumption ==
    /\ KindOf \in [Command -> {"bootstrap", "inline", "get", "shutdown"}]
    /\ NodeOf \in [Command -> Node] /\ TargetOf \in [Command -> Node]
    /\ Public \subseteq Node
    /\ Links \subseteq Node \X Node /\ \A l \in Links : <<l[2], l[1]>> \in Links
    /\ Relays \in [Node -> Seq(Node)]
    /\ Contacts \in [Node -> SUBSET Node]
    /\ Crowded \subseteq [Node -> [Node -> Node \cup {None}]]
    /\ Gone \subseteq Node
    /\ {MaxHandlers, QueueSize} \subseteq Nat \ {0} /\ MaxLosses \in Nat
    /\ None \notin Node /\ {"ready", "stopped"} \cap Command = {}

\* Buckets hold one peer: a bucket has room for everybody that belongs in it,
\* or it has the one peer y, which all others find there.
OneEach(n, table) ==
    \A m \in Node : table[m] # None =>
        LET y == table[m] IN
        /\ BucketOf[n][y] = BucketOf[n][m] /\ table[y] = None
        /\ \A o \in Node \ {y} : BucketOf[n][o] = BucketOf[n][m] => table[o] = y

ASSUME CrowdedAssumption == \A t \in Crowded : \A n \in Node : OneEach(n, t[n])

VARIABLES
    cmd,     \* state, step, candidate and outcome of each command
    queue,   \* cmd_rx of each node
    loop,    \* "ready", the command it awaits, or "stopped"
    req,     \* the calls made so far
    link,    \* pairs of nodes with an open connection
    lrs,     \* the table of Crowded, kept up to date
    losses,
    absent   \* history: <<n, m>> if m was not in the table of n at some time

vars == <<cmd, queue, loop, req, link, lrs, losses, absent>>

\* The handler tasks of n that have not ended; each holds a permit.
Handlers(n) == {q \in DOMAIN req : req[q].to = n /\ req[q].serve \in {"lrs", "fwd"}}

Request ==
    [from : Node, sender : Node, to : Node, target : Node \cup {None},
     kind : {"ping", "lookup", "get", "relay", "connect"},
     inner : {"none", "get", "connect"}, brief : BOOLEAN,
     want : {"waiting", "ok", "no", "failed"},
     serve : {"unsent", "inbox", "lrs", "fwd", "done", "dropped"}]
             \* "dropped": the request or the answer to it

\* Types; no more handlers than permits, no more commands than the channel holds.
TypeOK ==
    /\ cmd \in [Command -> [state : {"idle", "queued", "running", "done", "stopped"},
                            step : {"none", "ping", "lookup", "direct", "reverse",
                                    "retry", "relay"},
                            i : Nat,
                            how : {"none", "direct", "reversed", "relayed"}]]
    /\ queue \in [Node -> Seq(Command)]
    /\ loop \in [Node -> {"ready", "stopped"} \cup Command]
    /\ \A q \in DOMAIN req : req[q] \in Request
    /\ link \subseteq Node \X Node
    /\ lrs \in [Node -> [Node -> Node \cup {None}]]
    /\ losses \in 0 .. MaxLosses
    /\ absent \subseteq Node \X Node
    /\ \A n \in Node : Cardinality(Handlers(n)) <= MaxHandlers /\ Len(queue[n]) <= QueueSize

\* The peers that n does not have, because another has the place.
Out(n, table) == {<<n, m>> : m \in {o \in Node : table[o] # None}}

Init ==
    /\ cmd = [c \in Command |-> [state |-> "idle", step |-> "none", i |-> 0, how |-> "none"]]
    /\ queue = [n \in Node |-> <<>>]
    /\ loop = [n \in Node |-> IF n \in Gone THEN "stopped" ELSE "ready"]
    /\ req = <<>>
    /\ link = Links
    /\ lrs \in Crowded
    /\ losses = 0
    /\ absent = UNION {Out(n, lrs[n]) : n \in Node}
-----------------------------------------------------------------------------
(* Calls *)

\* send_request(_any) finds a way to y: y is public, or has connected to x
\* before and the inbound connection is in x's pool.
Reaches(x, y) == y \in Public \/ <<x, y>> \in link

Opened(x, y) == IF Reaches(x, y) THEN {<<x, y>>, <<y, x>>} ELSE {}

\* A call is made, or fails because no connection comes about.
Made(m) ==
    IF Reaches(m.from, m.to) THEN m
    ELSE [m EXCEPT !.want = "failed", !.serve = "unsent"]

With(calls, q, m) == [o \in DOMAIN calls \cup {q} |-> IF o = q THEN Made(m) ELSE calls[o]]

\* A request of kind from x, sent for s, to y.
Message(x, s, y, kind, inner, target, brief) ==
    [from |-> x, sender |-> s, to |-> y, kind |-> kind, inner |-> inner,
     target |-> target, brief |-> brief, want |-> "waiting", serve |-> "inbox"]

Ping(x, y, brief) == Message(x, x, y, "ping", "none", None, brief)

\* The handler of q ends; its answer finds the caller still waiting or not.
Answered(q, ok) ==
    [req[q] EXCEPT !.serve = "done",
                   !.want = IF @ # "waiting" THEN @ ELSE IF ok THEN "ok" ELSE "no"]

\* The handler of q ends, but its answer cannot be sent, is lost or comes too
\* late: the caller hears nothing of what was done for it.
Unanswered(q) ==
    /\ losses < MaxLosses
    /\ losses' = losses + 1
    /\ req' = [req EXCEPT ![q].serve = "dropped"]
    /\ UNCHANGED link

Waiting == {q \in DOMAIN req : req[q].want = "waiting"}
-----------------------------------------------------------------------------
(* The handler of an inbound request *)

\* match msg.payload: the handler answers, or calls another node first.
Forward(q) ==
    LET r == req[q] IN
    CASE r.kind = "relay" ->
           Message(r.to, r.sender, r.target, r.inner, "none", r.sender, FALSE)
      [] r.kind = "connect" -> Ping(r.to, r.sender, TRUE)

Forwards(q, table) ==
    LET r == req[q] IN
    \/ r.kind = "relay" /\ r.target \in Contacts[r.to] /\ table[r.target] = None
    \/ r.kind = "connect"

\* The handler of q waits for the answer to a call of its own.
HandlerCalls(q, as, m) ==
    /\ req' = With([req EXCEPT ![q].serve = as], Append(q, as), m)
    /\ link' = link \cup Opened(m.from, m.to)
    /\ UNCHANGED losses

\* The guards of RelayRequest: above all the relay limiter, which may have had
\* its fill of other requests.
Refused(q) ==
    /\ req[q].kind = "relay" /\ losses < MaxLosses
    /\ losses' = losses + 1
    /\ req' = [req EXCEPT ![q] = Answered(q, FALSE)]
    /\ UNCHANGED link

Dispatch(q, table) ==
    \/ Refused(q)
    \/ Forwards(q, table) /\ HandlerCalls(q, "fwd", Forward(q))
    \/ /\ ~Forwards(q, table)
       /\ \/ /\ req' = [req EXCEPT ![q] = Answered(q, req[q].kind # "relay")]
             /\ UNCHANGED <<link, losses>>
          \/ Unanswered(q)

\* try_acquire_owned finds no permit.
Full(n) == Cardinality(Handlers(n)) >= MaxHandlers

\* recv_request in the loop: take a permit or drop the message, and ping the
\* least recently seen peer if the sender finds its bucket full.
Admit(q) ==
    LET r == req[q] IN
    /\ r.serve = "inbox"
    /\ loop[r.to] = "ready"
    /\ IF Full(r.to)
       THEN /\ req' = [req EXCEPT ![q].serve = "dropped"]
            /\ UNCHANGED <<link, losses>>
       ELSE IF lrs[r.to][r.sender] # None
       THEN HandlerCalls(q, "lrs", Ping(r.to, lrs[r.to][r.sender], TRUE))
       ELSE Dispatch(q, lrs[r.to])
    /\ UNCHANGED <<cmd, queue, loop, lrs, absent>>

\* evict_and_insert, for buckets that hold one peer; nothing happens if the
\* old peer has lost its place already.
Replaced(n, old, new) ==
    IF \E m \in Node : lrs[n][m] = old
    THEN [m \in Node |-> IF m = new THEN None
                         ELSE IF m = old \/ lrs[n][m] = old THEN new
                         ELSE lrs[n][m]]
    ELSE lrs[n]

\* The outcome of the ping decides who stays.  (FaultStays evicts the peer
\* that has answered.)
FaultStays(p) == req[p].want = "failed"
Stays(p) == req[p].want = "ok"

LrsPinged(q) ==
    LET p == Append(q, "lrs")
        n == req[q].to
        table == IF Stays(p) THEN lrs[n] ELSE Replaced(n, req[p].to, req[q].sender)
    IN
    /\ req[q].serve = "lrs"
    /\ req[p].want # "waiting"
    /\ lrs' = [lrs EXCEPT ![n] = table]
    /\ absent' = absent \cup Out(n, table)
    /\ Dispatch(q, table)
    /\ UNCHANGED <<cmd, queue, loop>>

\* The relay passes the answer on; ConnectRequest reports how its ping went.
\* (FaultForwarded has no way on when the call has failed.)
FaultForwarded(q) ==
    LET f == Append(q, "fwd") IN
    /\ req[q].serve = "fwd"
    /\ req[f].want \in {"ok", "no"}
    /\ \/ /\ req' = [req EXCEPT ![q] = Answered(q, req[f].want = "ok")]
          /\ UNCHANGED <<link, losses>>
       \/ Unanswered(q)
    /\ UNCHANGED <<cmd, queue, loop, lrs, absent>>
Forwarded(q) ==
    LET f == Append(q, "fwd") IN
    /\ req[q].serve = "fwd"
    /\ req[f].want # "waiting"
    /\ \/ /\ req' = [req EXCEPT ![q] = Answered(q, req[f].want = "ok")]
          /\ UNCHANGED <<link, losses>>
       \/ Unanswered(q)
    /\ UNCHANGED <<cmd, queue, loop, lrs, absent>>
-----------------------------------------------------------------------------
(* Commands *)

\* A method of NodeHandle: send on the command channel, wait for the reply.
Call(c) ==
    LET n == NodeOf[c] IN
    /\ cmd[c].state = "idle"
    /\ \/ /\ loop[n] = "stopped"
          /\ cmd' = [cmd EXCEPT ![c].state = "stopped"]
          /\ UNCHANGED queue
       \/ /\ loop[n] # "stopped"
          /\ Len(queue[n]) < QueueSize
          /\ cmd' = [cmd EXCEPT ![c].state = "queued"]
          /\ queue' = [queue EXCEPT ![n] = Append(@, c)]
    /\ UNCHANGED <<loop, req, link, lrs, losses, absent>>

FirstStep(c) ==
    CASE KindOf[c] = "bootstrap" -> "ping"
      [] KindOf[c] = "inline" -> "lookup"
      [] KindOf[c] = "get" -> "direct"

\* Bootstrap runs in a task of its own, the others keep the loop waiting.
\* (FaultSpawned awaits it in the loop as well.)
FaultSpawned(c) == FALSE
Spawned(c) == KindOf[c] = "bootstrap"

Take(n) ==
    LET c == Head(queue[n]) IN
    /\ loop[n] = "ready"
    /\ queue[n] # <<>>
    /\ KindOf[c] # "shutdown"
    /\ queue' = [queue EXCEPT ![n] = Tail(@)]
    /\ loop' = [loop EXCEPT ![n] = IF Spawned(c) THEN @ ELSE c]
    /\ cmd' = [cmd EXCEPT ![c].state = "running", ![c].step = FirstStep(c), ![c].i = 1]
    /\ UNCHANGED <<req, link, lrs, losses, absent>>

\* Command::Shutdown breaks the loop; the receiver and with it the reply
\* channels of the commands still queued are dropped.  (FaultReleased keeps
\* them.)
FaultReleased(n) == {}
Released(n) == {queue[n][i] : i \in 2 .. Len(queue[n])}

TakeShutdown(n) ==
    LET c == Head(queue[n]) IN
    /\ loop[n] = "ready"
    /\ queue[n] # <<>>
    /\ KindOf[c] = "shutdown"
    /\ queue' = [queue EXCEPT ![n] = <<>>]
    /\ loop' = [loop EXCEPT ![n] = "stopped"]
    /\ cmd' = [d \in Command |->
                 IF d = c THEN [cmd[d] EXCEPT !.state = "done"]
                 ELSE IF d \in Released(n) THEN [cmd[d] EXCEPT !.state = "stopped"]
                 ELSE cmd[d]]
    /\ UNCHANGED <<req, link, lrs, losses, absent>>

Current(c) == <<c, cmd[c].step, cmd[c].i>>

\* The loop over the relay candidates: it has passed the last, or it is at one
\* that it skips, the target or the node itself.
Candidates(c) == Relays[NodeOf[c]]
AtCandidate(c) == cmd[c].step \in {"reverse", "relay"}
Tried(c) == AtCandidate(c) /\ cmd[c].i > Len(Candidates(c))
Skipped(c) ==
    AtCandidate(c) /\ ~Tried(c) /\ Candidates(c)[cmd[c].i] \in {TargetOf[c], NodeOf[c]}

\* The call that a command makes in its present step.
Outgoing(c) ==
    LET n == NodeOf[c] IN
    CASE AtCandidate(c) ->
           Message(n, n, Candidates(c)[cmd[c].i], "relay",
                   IF cmd[c].step = "reverse" THEN "connect" ELSE "get", TargetOf[c], FALSE)
      [] cmd[c].step = "ping" -> Ping(n, TargetOf[c], FALSE)
      [] OTHER ->
           Message(n, n, TargetOf[c], IF cmd[c].step = "lookup" THEN "lookup" ELSE "get",
                   "none", None, FALSE)

Issue(c) ==
    /\ cmd[c].state = "running"
    /\ ~Tried(c) /\ ~Skipped(c)
    /\ Current(c) \notin DOMAIN req
    /\ req' = With(req, Current(c), Outgoing(c))
    /\ link' = link \cup Opened(NodeOf[c], Outgoing(c).to)
    /\ UNCHANGED <<cmd, queue, loop, lrs, losses, absent>>

Goto(c, step, i) ==
    /\ cmd' = [cmd EXCEPT ![c].step = step, ![c].i = i]
    /\ UNCHANGED loop

Reply(c, how) ==
    /\ cmd' = [cmd EXCEPT ![c].state = "done", ![c].how = how]
    /\ loop' = IF loop[NodeOf[c]] = c THEN [loop EXCEPT ![NodeOf[c]] = "ready"] ELSE loop

\* do_bootstrap pings and then looks itself up; if the ping has failed, the
\* table may have nobody to ask.  The other commands that are executed inline
\* end with their last answer or failure.
Proceed(c) ==
    /\ cmd[c].state = "running"
    /\ cmd[c].step \in {"ping", "lookup"}
    /\ Current(c) \in DOMAIN req \ Waiting
    /\ \/ cmd[c].step = "ping" /\ Goto(c, "lookup", 1)
       \/ /\ cmd[c].step = "lookup" \/ req[Current(c)].want # "ok"
          /\ Reply(c, "none")
    /\ UNCHANGED <<queue, req, link, lrs, losses, absent>>

\* send_with_nat_traversal: direct, then a reversed connection and direct
\* again, then through a relay.  (FaultTraverse gives up after the first
\* relay that fails.)
FaultTraverse(c, ok) ==
    CASE cmd[c].step = "direct" -> IF ok THEN Reply(c, "direct") ELSE Goto(c, "reverse", 1)
      [] cmd[c].step = "retry" -> IF ok THEN Reply(c, "reversed") ELSE Goto(c, "relay", 1)
      [] cmd[c].step = "reverse" -> IF ok THEN Goto(c, "retry", 1) ELSE Goto(c, "relay", 1)
      [] cmd[c].step = "relay" -> IF ok THEN Reply(c, "relayed") ELSE Reply(c, "none")
Traverse(c, ok) ==
    CASE cmd[c].step = "direct" -> IF ok THEN Reply(c, "direct") ELSE Goto(c, "reverse", 1)
      [] cmd[c].step = "retry" -> IF ok THEN Reply(c, "reversed") ELSE Goto(c, "relay", 1)
      [] cmd[c].step = "reverse" ->
           IF Tried(c) THEN Goto(c, "relay", 1)
           ELSE IF ok THEN Goto(c, "retry", 1) ELSE Goto(c, "reverse", cmd[c].i + 1)
      [] cmd[c].step = "relay" ->
           IF Tried(c) THEN Reply(c, "none")
           ELSE IF ok THEN Reply(c, "relayed") ELSE Goto(c, "relay", cmd[c].i + 1)

SendWithNatTraversal(c) ==
    /\ cmd[c].state = "running"
    /\ cmd[c].step \in {"direct", "reverse", "retry", "relay"}
    /\ LET none == Tried(c) \/ Skipped(c) IN
       /\ none \/ Current(c) \in DOMAIN req \ Waiting
       /\ Traverse(c, ~none /\ req[Current(c)].want = "ok")
    /\ UNCHANGED <<queue, req, link, lrs, losses, absent>>
-----------------------------------------------------------------------------
Work ==
    \/ \E q \in DOMAIN req : Admit(q) \/ LrsPinged(q) \/ Forwarded(q)
    \/ \E n \in Node : Take(n) \/ TakeShutdown(n)
    \/ \E c \in Command : Issue(c) \/ Proceed(c) \/ SendWithNatTraversal(c)

\* Somebody can go on: the loop of a node, a handler or a command.
Busy ==
    \/ \E q \in DOMAIN req :
         \/ req[q].serve = "inbox" /\ loop[req[q].to] = "ready"
         \/ req[q].serve \in {"lrs", "fwd"} /\ Append(q, req[q].serve) \notin Waiting
    \/ \E n \in Node : loop[n] = "ready" /\ queue[n] # <<>>
    \/ \E c \in Command :
         cmd[c].state = "running" /\ (Tried(c) \/ Skipped(c) \/ Current(c) \notin Waiting)

\* Time passes only while nobody has anything to do.  The five-second pings
\* of handlers run out before the calls of thirty seconds, and of two calls
\* with the same time the one that was made first.
Due(q) ==
    /\ q \in Waiting
    /\ \A o \in Waiting :
         /\ req[o].brief => req[q].brief
         /\ (req[o].brief = req[q].brief /\ Len(o) < Len(q)) => SubSeq(q, 1, Len(o)) # o

Timeout(q) ==
    /\ Due(q)
    /\ ~Busy
    /\ req' = [req EXCEPT ![q].want = "failed"]
    /\ UNCHANGED <<cmd, queue, loop, link, lrs, losses, absent>>

\* The request is lost, or the handler drops it because identity, proof of
\* work, signature or protocol version do not verify.
Lose(q) ==
    /\ req[q].serve = "inbox"
    /\ losses < MaxLosses
    /\ losses' = losses + 1
    /\ req' = [req EXCEPT ![q].serve = "dropped"]
    /\ UNCHANGED <<cmd, queue, loop, link, lrs, absent>>

Next ==
    \/ Work
    \/ \E c \in Command : Call(c)
    \/ \E q \in DOMAIN req : Timeout(q) \/ Lose(q)

\* Tasks are scheduled and, when all of them wait, timers run out; nobody has
\* to call.
Spec ==
    /\ Init /\ [][Next]_vars
    /\ WF_vars(Work \/ \E q \in DOMAIN req : Timeout(q))
-----------------------------------------------------------------------------
\* Whoever calls a method of NodeHandle gets an answer: the command's, or
\* that the node has stopped.  Nodes that wait for each other are released,
\* so that time and again nobody is left waiting.
CallersReleased ==
    []<>(\A c \in Command : cmd[c].state \in {"idle", "done", "stopped"})

\* Handlers give their permits back, also those that wait for other nodes: time
\* and again all permits are there.
PermitsReturned == []<>(\A n \in Node : Handlers(n) = {})

\* The answer to q is not coming: it or the request was dropped, or its node
\* has stopped or is executing a command in its loop that is not a bootstrap,
\* or its handler waits for somebody else.
Held(q) ==
    \/ req[q].serve \in {"dropped", "lrs", "fwd"}
    \/ loop[req[q].to] = "stopped"
    \/ loop[req[q].to] \in Command /\ KindOf[loop[req[q].to]] # "bootstrap"

\* Nodes that bootstrap from each other answer each other: no call runs into
\* its timeout because its peer is bootstrapping.
BootstrapsDoNotBlock ==
    [][\A q \in Waiting : req'[q].want = "failed" => Held(q)]_vars

\* A peer that loses its place to a newcomer has been pinged for it, was not
\* heard within five seconds and still could not be: no connection came about,
\* the ping was lost or the answer to it, it has stopped or is busy with a
\* command, or it is itself waiting for its own least recently seen peer to
\* answer.  A peer that is merely bootstrapping keeps its place.
Evicted(n, y) == \E m \in Node : lrs[n][m] = y /\ lrs'[n][m] # y

OnlyUnheardPeersEvicted ==
    [][\A n, y \in Node :
         Evicted(n, y) =>
           \E p \in DOMAIN req :
             /\ Len(p) > 3 /\ p[Len(p)] = "lrs" /\ req[p].from = n /\ req[p].to = y
             /\ req[p].want = "failed"
             /\ Held(p) \/ req[p].serve = "unsent"]_vars

\* Nothing has gone wrong on the way and no node but c's is kept from its loop.
Undisturbed(c) ==
    /\ losses = 0
    /\ \A q \in DOMAIN req : req[q].serve # "dropped"
    /\ \A n \in Node \ Gone : loop[n] # "stopped"
    /\ \A d \in Command :
         cmd[d].state # "idle" /\ ~Spawned(d) => NodeOf[d] = NodeOf[c]

\* The relay r is up, is in contact with c's peer and has had it in its table
\* all the time.
Helps(c, r) ==
    /\ r \in Public \ (Gone \cup {TargetOf[c], NodeOf[c]})
    /\ TargetOf[c] \in Contacts[r] /\ <<r, TargetOf[c]>> \notin absent
    /\ <<r, TargetOf[c]>> \in Links

\* GetProviders gets its answer, however the peer is hidden behind its NAT,
\* if the peer is up and one of the relay candidates helps.
RelayReaches ==
    \A c \in Command :
        /\ KindOf[c] = "get" /\ cmd[c].state = "done" /\ Undisturbed(c)
        /\ TargetOf[c] \notin Gone \cup {NodeOf[c]}
        /\ \E i \in DOMAIN Candidates(c) : Helps(c, Candidates(c)[i])
        => cmd[c].how # "none"

\* "direct, connection reversal, relay": the relay carries the call only if
\* the peer cannot connect back to the node that asks.
ReversalBeforeRelay ==
    \A c \in Command :
        /\ KindOf[c] = "get" /\ cmd[c].state = "done" /\ Undisturbed(c)
        /\ NodeOf[c] \in Public
        => cmd[c].how # "relayed"
=============================================================================
