------------------------------ MODULE ConnPool ------------------------------
(***************************************************************************)
(* The connection pool of QuicTransport (src/src/transport/quic.rs).  Calls  *)
(* look connections up, open them without the lock and put them in; the      *)
(* acceptor puts inbound connections in under the address they come from;    *)
(* whoever meets an error takes out whatever is there by then.               *)
(*                                                                           *)
(* A connection is its number.  It is lost once the other side has dropped   *)
(* it and closed once this side knows (close_reason).  Ages count up to      *)
(* Stale, the threshold at which an idle connection is not used any more.    *)
(* QuicTransportProofs extends this module and QuicRpc, so their names       *)
(* differ.                                                                   *)
(***************************************************************************)
EXTENDS Naturals, FiniteSets, Sequences

CONSTANTS
    Addr, NoConn,
    Request,      \* calls of send_request
    AddrOf,       \* the address each of them is for
    MaxPool,      \* MAX_POOL_SIZE
    Stale,        \* POOL_STALE_THRESHOLD
    MaxConns      \* bound: connections that are made

ASSUME ConnPoolAssumption ==
    /\ AddrOf \in [Request -> Addr]
    /\ {MaxPool, Stale} \subseteq Nat \ {0} /\ MaxConns \in Nat

VARIABLES
    up,
    conn,    \* the connections made so far, each with its state
    pool,    \* connection and age under each address, or NoConn
    st,      \* where each call is,
    held,    \* the connection it has
    try,     \* and which attempt it is at
    (* only for the properties *)
    clean,   \* calls to which nothing has happened but what they found in the pool
    lent     \* calls that got another's connection for their second attempt

poolVars == <<up, conn, pool, st, held, try, clean, lent>>

Pooled == {a \in Addr : pool[a] # NoConn}
Running == {c \in Request : st[c] \notin {"idle", "ok", "failed"}}

PoolTypeOK ==
    /\ up \in BOOLEAN
    /\ conn \in Seq({"open", "lost", "closed"}) /\ Len(conn) <= MaxConns
    /\ pool \in [Addr -> [k : 1 .. Len(conn), age : 0 .. Stale] \cup {NoConn}]
    /\ st \in [Request -> {"idle", "lookup", "connect", "insert", "send", "evict", "expired",
                        "ok", "failed"}]
    /\ held \in [Request -> 0 .. Len(conn)] /\ try \in [Request -> 0 .. 2]
    /\ clean \subseteq Request /\ lent \subseteq Request

PoolInit ==
    /\ up = TRUE
    /\ conn = <<>>
    /\ pool = [a \in Addr |-> NoConn]
    /\ st = [c \in Request |-> "idle"]
    /\ held = [c \in Request |-> 0] /\ try = [c \in Request |-> 0]
    /\ clean = {} /\ lent = {}
-----------------------------------------------------------------------------
\* "Evict LRU if pool is full": whether or not the address is in it already.
\* (FaultRoomFor looks only at pools that are too large already.)
FaultRoomFor(p) ==
    IF Cardinality({a \in Addr : p[a] # NoConn}) <= MaxPool THEN {p}
    ELSE {[p EXCEPT ![a] = NoConn] : a \in {b \in Addr : p[b] # NoConn}}
RoomFor(p) ==
    LET in == {a \in Addr : p[a] # NoConn}
        oldest == {a \in in : \A b \in in : p[b].age <= p[a].age}
    IN IF Cardinality(in) < MaxPool THEN {p}
       ELSE {[p EXCEPT ![a] = NoConn] : a \in oldest}

\* pool.insert with last_used = now
Inserted(a, k) == \E p \in RoomFor(pool) : pool' = [p EXCEPT ![a] = [k |-> k, age |-> 0]]

Usable(a) == pool[a] # NoConn /\ conn[pool[a].k] # "closed" /\ pool[a].age < Stale

-----------------------------------------------------------------------------
(* send_request *)

SendRequest(c) ==
    /\ st[c] = "idle"
    /\ st' = [st EXCEPT ![c] = "lookup"] /\ try' = [try EXCEPT ![c] = 1]
    /\ clean' = clean \cup {c}
    /\ UNCHANGED <<held, up, conn, pool, lent>>

\* get_or_create_connection, first lock: take the connection, or take it out
Lookup(c) ==
    LET a == AddrOf[c] IN
    /\ st[c] = "lookup"
    /\ IF Usable(a)
       THEN /\ pool' = [pool EXCEPT ![a].age = 0]
            /\ st' = [st EXCEPT ![c] = "send"] /\ held' = [held EXCEPT ![c] = pool[a].k]
            /\ lent' = IF try[c] = 2 THEN lent \cup {c} ELSE lent
       ELSE /\ pool' = [pool EXCEPT ![a] = NoConn]
            /\ st' = [st EXCEPT ![c] = "connect"]
            /\ UNCHANGED <<held, lent>>
    /\ UNCHANGED <<up, conn, try, clean>>

\* endpoint.connect, without the lock
Connect(c) ==
    /\ st[c] = "connect"
    /\ up /\ Len(conn) < MaxConns
    /\ conn' = Append(conn, "open")
    /\ st' = [st EXCEPT ![c] = "insert"] /\ held' = [held EXCEPT ![c] = Len(conn) + 1]
    /\ UNCHANGED <<try, up, pool, clean, lent>>

\* It fails, as always with a peer behind a NAT, or runs into its timeout;
\* send_request returns at once.
ConnectFails(c) ==
    /\ st[c] = "connect"
    /\ st' = [st EXCEPT ![c] = "failed"]
    /\ clean' = clean \ {c}
    /\ UNCHANGED <<held, try, up, conn, pool, lent>>

\* second lock
Insert(c) ==
    /\ st[c] = "insert"
    /\ Inserted(AddrOf[c], held[c])
    /\ st' = [st EXCEPT ![c] = "send"]
    /\ UNCHANGED <<held, try, up, conn, clean, lent>>

\* send_on_connection
Answered(c) ==
    /\ st[c] = "send" /\ conn[held[c]] = "open"
    /\ st' = [st EXCEPT ![c] = "ok"]
    /\ UNCHANGED <<held, try, up, conn, pool, clean, lent>>

\* After an error: the second one is returned, the first leads to another
\* attempt.  (FaultOnError returns the first at once.)
FaultOnError(c) == "failed"
OnError(c) == IF try[c] = 1 THEN "evict" ELSE "failed"

\* The connection is found closed, or the peer resets what it does not know.
ConnectionError(c) ==
    /\ st[c] = "send" /\ conn[held[c]] # "open"
    /\ conn' = [conn EXCEPT ![held[c]] = "closed"]
    /\ st' = [st EXCEPT ![c] = OnError(c)]
    /\ UNCHANGED <<held, try, up, pool, clean, lent>>

\* The peer ends the stream without an answer.
StreamError(c) ==
    /\ st[c] = "send" /\ conn[held[c]] = "open"
    /\ st' = [st EXCEPT ![c] = OnError(c)]
    /\ clean' = clean \ {c}
    /\ UNCHANGED <<held, try, up, conn, pool, lent>>

\* No answer in time, not tried again.  Over an open connection the peer is
\* to blame, over a lost one the pool that handed it out.
AnswerTimeout(c) ==
    /\ st[c] = "send" /\ conn[held[c]] # "closed"
    /\ st' = [st EXCEPT ![c] = IF try[c] = 1 THEN "expired" ELSE "failed"]
    /\ clean' = IF conn[held[c]] = "open" THEN clean \ {c} ELSE clean
    /\ UNCHANGED <<held, try, up, conn, pool, lent>>

\* The caller's own timeout drops the call wherever it is; the pool stays.
CallerLeaves(c) ==
    /\ c \in Running
    /\ st' = [st EXCEPT ![c] = "failed"]
    /\ clean' = clean \ {c}
    /\ UNCHANGED <<held, try, up, conn, pool, lent>>

\* evict_connection: whichever connection the address has now
EvictConnection(c) ==
    /\ st[c] \in {"evict", "expired"}
    /\ pool' = [pool EXCEPT ![AddrOf[c]] = NoConn]
    /\ st' = [st EXCEPT ![c] = IF @ = "evict" THEN "lookup" ELSE "failed"]
    /\ try' = [try EXCEPT ![c] = IF st[c] = "evict" THEN 2 ELSE @]
    /\ UNCHANGED <<held, up, conn, clean, lent>>
-----------------------------------------------------------------------------
(* The acceptor, the cleanup task, and what happens to connections *)

Accept(a) ==
    /\ up /\ Len(conn) < MaxConns
    /\ conn' = Append(conn, "open")
    /\ Inserted(a, Len(conn) + 1)
    /\ UNCHANGED <<up, st, held, try, clean, lent>>

\* pool.retain(close_reason().is_none()).  (FaultRetained keeps the dead ones.)
FaultRetained(a) == TRUE
Retained(a) == pool[a] # NoConn /\ conn[pool[a].k] # "closed"

Cleanup ==
    /\ up
    /\ pool' = [a \in Addr |-> IF Retained(a) THEN pool[a] ELSE NoConn]
    /\ UNCHANGED <<up, conn, st, held, try, clean, lent>>

\* The other side of connection k disappears.
LoseConnection(k) ==
    /\ conn[k] = "open"
    /\ conn' = [conn EXCEPT ![k] = "lost"]
    /\ clean' = clean \ {c \in Running : held[c] = k}
    /\ UNCHANGED <<up, pool, st, held, try, lent>>

\* A lost connection is closed when its idle timer runs out.
NoticeLoss(k) ==
    /\ conn[k] = "lost"
    /\ conn' = [conn EXCEPT ![k] = "closed"]
    /\ UNCHANGED <<up, pool, st, held, try, clean, lent>>

Tick ==
    /\ pool' = [a \in Addr |->
                  IF pool[a] # NoConn /\ pool[a].age < Stale
                  THEN [pool[a] EXCEPT !.age = @ + 1] ELSE pool[a]]
    /\ UNCHANGED <<up, conn, st, held, try, clean, lent>>

\* QuicTransport::shutdown closes all connections and stops the tasks.
Shutdown ==
    /\ up
    /\ up' = FALSE
    /\ conn' = [k \in DOMAIN conn |-> "closed"]
    /\ clean' = clean \ Running
    /\ UNCHANGED <<pool, st, held, try, lent>>
-----------------------------------------------------------------------------
PoolNext ==
    \/ \E c \in Request :
         \/ SendRequest(c) \/ Lookup(c) \/ Connect(c) \/ ConnectFails(c) \/ Insert(c)
         \/ Answered(c) \/ ConnectionError(c) \/ StreamError(c) \/ AnswerTimeout(c)
         \/ EvictConnection(c) \/ CallerLeaves(c)
    \/ \E a \in Addr : Accept(a)
    \/ \E k \in DOMAIN conn : LoseConnection(k) \/ NoticeLoss(k)
    \/ Cleanup \/ Tick \/ Shutdown

\* The cleanup task has a timer.
PoolSpec == PoolInit /\ [][PoolNext]_poolVars /\ WF_poolVars(Cleanup)
-----------------------------------------------------------------------------
\* The pool stays within MAX_POOL_SIZE, though the decision to open another
\* connection is taken under one lock and the insertion made under another,
\* and the acceptor inserts in between.
PoolBounded == Cardinality(Pooled) <= MaxPool

\* What a dead connection in the pool can do to a call is contained.  A call
\* that neither its peer nor its caller gave up, and that lost no connection it
\* was using, fails in two cases only: its first attempt has waited in vain over
\* a connection that was dead when the pool handed it out, which is then out of
\* the pool for good, whatever was looked up, inserted or evicted meanwhile; or
\* the connection of its second attempt is one that another task has put into
\* the pool after this call had evicted the first.
StaleHarmContained ==
    \A c \in clean : st[c] = "failed" =>
        \/ c \in lent
        \/ /\ try[c] = 1 /\ conn[held[c]] # "open"
           /\ \A a \in Pooled : pool[a].k # held[c]

\* "Evict stale connection and retry once with a fresh one", as the comment in
\* send_request says: what the pool holds when a call begins does not make it
\* fail.
StaleConnectionRetried == \A c \in clean : st[c] = "failed" => c \in lent

\* Connections that are known to be dead leave the pool, used or not.
DeadConnectionsLeave ==
    \A a \in Addr, k \in 1 .. MaxConns :
        (pool[a] # NoConn /\ pool[a].k = k /\ conn[k] = "closed")
            ~> (~up \/ pool[a] = NoConn \/ pool[a].k # k)
=============================================================================
