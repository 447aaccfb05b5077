----------------------------- MODULE Providers -----------------------------
(***************************************************************************)
(* What a node keeps in SQLite (src/src/storage/sqlite.rs) and the timers    *)
(* of NodeActor::run that maintain it: provider records, which expire unless *)
(* do_provider_maintenance renews them at the node and announces them again, *)
(* and the peers of the routing table, which are saved now and then and      *)
(* loaded by spawn_node.  The node may stop or crash in between.             *)
(*                                                                           *)
(* Time is counted in ticks of which a republish interval has several; an    *)
(* RPC takes none.  A record is the time it has left, 0 if its row has       *)
(* expired and -1 if there is no row.                                        *)
(***************************************************************************)
EXTENDS Integers, FiniteSets

CONSTANTS
    Key, Peer,
    Alpha,        \* config.alpha
    Others,       \* peers in the table that are not followed any further
    Proactive,    \* config.proactive_replication
    TTL,          \* provider_ttl
    Republish,    \* provider_republish_interval
    MaxDelay,     \* bound: time that commands keep the loop from its timers
    Tolerated,    \* lost announcements in a row that do no harm
    MaxLosses,    \* bound: announcements that are lost
    MaxStops      \* bound: crashes and shutdowns

ASSUME ProvidersAssumption ==
    /\ {TTL, Republish} \subseteq Nat \ {0}
    /\ {Alpha, Others} \subseteq Nat /\ Proactive \in BOOLEAN
    /\ {MaxDelay, Tolerated, MaxLosses, MaxStops} \subseteq Nat
    /\ MaxDelay < Republish
    /\ (Tolerated + 1) * Republish + MaxDelay < TTL

VARIABLES
    up,
    own,       \* the node's own records
    remote,    \* its records at each peer
    ann,       \* announcements under way
    due,       \* time to the next tick of provider_tick, negative if overdue
    phase,     \* "replicate" in step 4 of do_provider_maintenance, else "idle"
    todo,      \* the keys that step 4 has not come to
    table,     \* peers in the routing table, no more than config.k
    waiting,   \* peers in a replacement cache, or whose handler pings another
    saved,     \* peers in the database
    fresh,     \* peers with last_seen > last_maintenance_time
    newcomers, \* tasks of replicate_chunks_to_node
    offered,   \* chunks that have been sent to peers
    losses, stops,
    (* only for the properties *)
    snap,      \* the table when it was last saved
    met,       \* <<p, k>> if p has joined or was heard of while k was provided,
               \* or was new when k was stored
    overlooked,\* of these, the ones that step 4 will not find
    outage,    \* keys whose record was last renewed before the last outage
    cut,       \* announcements that have not arrived since the peer was lost
               \* from the table or the node was down
    missed     \* announcements lost since the last that arrived

vars == <<up, own, remote, ann, due, phase, todo, table, waiting, saved, fresh,
          newcomers, offered, losses, stops, snap, met, overlooked, outage, cut, missed>>

Record == -1 .. TTL
Live(r) == r > 0
LiveKeys == {k \in Key : Live(own[k])}

TypeOK ==
    /\ up \in BOOLEAN
    /\ own \in [Key -> Record] /\ remote \in [Peer -> [Key -> Record]]
    /\ ann \subseteq Peer \X Key 
    /\ UNION {offered, met, overlooked} \subseteq Peer \X Key
    /\ phase \in {"idle", "replicate"} /\ todo \subseteq Key
    /\ due \in -MaxDelay .. Republish
    /\ UNION {table, waiting, saved, fresh, newcomers, snap} \subseteq Peer
    /\ losses \in 0 .. MaxLosses /\ stops \in 0 .. MaxStops
    /\ outage \subseteq Key /\ cut \subseteq Peer \X Key
    /\ missed \in [Peer -> [Key -> Nat]]

Init ==
    /\ up = TRUE
    /\ own = [k \in Key |-> -1]
    /\ remote = [p \in Peer |-> [k \in Key |-> -1]]
    /\ ann = {} /\ offered = {}
    /\ due = Republish
    /\ phase = "idle" /\ todo = {}
    /\ table = {} /\ waiting = {} /\ saved = {} /\ fresh = {} /\ newcomers = {} /\ snap = {}
    /\ losses = 0 /\ stops = 0
    /\ met = {} /\ overlooked = {} /\ outage = {}
    /\ cut = Peer \X Key
    /\ missed = [p \in Peer |-> [k \in Key |-> 0]]
-----------------------------------------------------------------------------
(* Provider records *)

\* Which of the peers are among the alpha closest depends on the key.
Recipients ==
    {S \in SUBSET table : /\ Cardinality(S) <= Alpha
                          /\ S = table \/ Cardinality(S) + Others >= Alpha}

\* do_store_tessera for one chunk: PutChunk and AddProvider to the closest
\* peers, and the record of the node itself.
StoreChunk(k) ==
    /\ up /\ phase = "idle" /\ ~Live(own[k])
    /\ own' = [own EXCEPT ![k] = TTL]
    /\ \E S \in Recipients :
         /\ offered' = (offered \ (Peer \X {k})) \cup (S \X {k})
         /\ ann' = ann \cup (S \X {k})
    /\ met' = (met \ (Peer \X {k})) \cup ((table \cap fresh) \X {k})
    /\ overlooked' = overlooked \ (Peer \X {k})
    /\ outage' = outage \ {k}
    /\ UNCHANGED <<up, remote, due, phase, todo, table, waiting, saved, fresh, newcomers,
                   losses, stops, snap, cut, missed>>

\* The handler of AddProvider at the peer: INSERT OR REPLACE with a new TTL.
Deliver(p, k) ==
    /\ <<p, k>> \in ann
    /\ ann' = ann \ {<<p, k>>}
    /\ remote' = [remote EXCEPT ![p][k] = TTL]
    /\ cut' = IF p \in table THEN cut \ {<<p, k>>} ELSE cut
    /\ missed' = [missed EXCEPT ![p][k] = 0]
    /\ UNCHANGED <<up, own, due, phase, todo, table, waiting, saved, fresh, newcomers,
                   offered, losses, stops, snap, met, overlooked, outage>>

\* "let _ = send_request_any": nobody looks at the outcome.
Lose(p, k) ==
    /\ <<p, k>> \in ann /\ losses < MaxLosses
    /\ losses' = losses + 1
    /\ ann' = ann \ {<<p, k>>}
    /\ missed' = [missed EXCEPT ![p][k] = @ + 1]
    /\ UNCHANGED <<up, own, remote, due, phase, todo, table, waiting, saved, fresh,
                   newcomers, offered, stops, snap, met, overlooked, outage, cut>>

\* The records after maintenance: expired rows are deleted, the others get a
\* new TTL.  (FaultRenewed announces without renewing.)
FaultRenewed == [k \in Key |-> IF own[k] = 0 THEN -1 ELSE own[k]]
Renewed == [k \in Key |-> IF Live(own[k]) THEN TTL ELSE -1]

\* Whom the records are announced to.  (FaultAudience takes only the peers
\* that are new, as the replication of chunks does.)
FaultAudience == table \cap fresh
Audience == table

\* Steps 1 to 3 of do_provider_maintenance.  Without a live record it returns
\* early, and last_maintenance_time stays as it is.
Maintain ==
    /\ up /\ phase = "idle" /\ due <= 0
    /\ due' = due + Republish
    /\ own' = Renewed
    /\ ann' = ann \cup (Audience \X LiveKeys)
    /\ phase' = IF LiveKeys = {} THEN "idle" ELSE "replicate"
    /\ todo' = IF Proactive THEN LiveKeys ELSE {}
    /\ outage' = outage \ LiveKeys
    /\ UNCHANGED <<up, remote, table, waiting, saved, fresh, newcomers, offered, losses,
                   stops, snap, met, overlooked, cut, missed>>

\* Step 4 for one key.  Handlers and lookups go on in the meantime.
ReplicateKey(k) ==
    /\ phase = "replicate" /\ k \in todo
    /\ todo' = todo \ {k}
    /\ offered' = offered \cup ((table \cap fresh) \X {k})
    /\ UNCHANGED <<up, own, remote, ann, due, phase, table, waiting, saved, fresh,
                   newcomers, losses, stops, snap, met, overlooked, outage, cut, missed>>

\* self.last_maintenance_time = Instant::now()
EndMaintenance ==
    /\ phase = "replicate" /\ todo = {}
    /\ phase' = "idle"
    /\ fresh' = {}
    /\ UNCHANGED <<up, own, remote, ann, due, todo, table, waiting, saved, newcomers,
                   offered, losses, stops, snap, met, overlooked, outage, cut, missed>>

Aged(r) == IF r > 0 THEN r - 1 ELSE r

\* RPCs end and the loop comes back to an overdue timer before time passes.
Tick ==
    /\ ann = {} /\ phase = "idle"
    /\ up => due > -MaxDelay
    /\ own' = [k \in Key |-> Aged(own[k])]
    /\ remote' = [p \in Peer |-> [k \in Key |-> Aged(remote[p][k])]]
    /\ due' = IF up THEN due - 1 ELSE due
    /\ UNCHANGED <<up, ann, phase, todo, table, waiting, saved, fresh, newcomers, offered,
                   losses, stops, snap, met, overlooked, outage, cut, missed>>
-----------------------------------------------------------------------------
(* The routing table and its copy in the database *)

\* The keys that a maintenance under way has done with.
Passed == IF phase = "idle" THEN {} ELSE LiveKeys \ todo

\* History: p has joined or was heard of, too late for the keys in K.
Noticed(p, K) ==
    /\ met' = met \cup ({p} \X LiveKeys)
    /\ overlooked' = (overlooked \ ({p} \X Key)) \cup ({p} \X K)

\* A message from p: insert, and replicate in a task of its own if p is new.
Seen(p) ==
    /\ up
    /\ table' = table \cup {p} /\ waiting' = waiting \ {p}
    /\ fresh' = fresh \cup {p}
    /\ newcomers' = IF Proactive /\ p \notin table THEN newcomers \cup {p} ELSE newcomers
    /\ Noticed(p, IF p \in table THEN Passed ELSE {})
    /\ UNCHANGED <<up, own, remote, ann, due, phase, todo, saved, offered, losses, stops,
                   snap, outage, cut, missed>>

\* A lookup or bootstrap inserts p or marks it as seen; nobody replicates.
Learned(p) ==
    /\ up
    /\ table' = table \cup {p} /\ waiting' = waiting \ {p}
    /\ fresh' = fresh \cup {p}
    /\ Noticed(p, Passed)
    /\ UNCHANGED <<up, own, remote, ann, due, phase, todo, saved, newcomers, offered,
                   losses, stops, snap, outage, cut, missed>>

\* p finds its bucket full.
TurnedAway(p) ==
    /\ up /\ p \notin table
    /\ waiting' = waiting \cup {p}
    /\ fresh' = fresh \cup {p}
    /\ UNCHANGED <<up, own, remote, ann, due, phase, todo, table, saved, newcomers,
                   offered, losses, stops, snap, met, overlooked, outage, cut, missed>>

\* p is promoted from the cache, or evict_and_insert takes it after the ping;
\* its last_seen is that of its message.
Admitted(p) ==
    /\ up /\ p \in waiting
    /\ table' = table \cup {p} /\ waiting' = waiting \ {p}
    /\ Noticed(p, IF p \in fresh THEN Passed ELSE LiveKeys)
    /\ UNCHANGED <<up, own, remote, ann, due, phase, todo, saved, fresh, newcomers,
                   offered, losses, stops, snap, outage, cut, missed>>

\* replicate_chunks_to_node sends a newcomer every chunk that the node
\* provides.  (FaultReplicated leaves it to the next maintenance.)
FaultReplicated(p) == {}
Replicated(p) == IF p \in table THEN {p} \X LiveKeys ELSE {}

ReplicateTo(p) ==
    /\ p \in newcomers
    /\ newcomers' = newcomers \ {p}
    /\ offered' = offered \cup Replicated(p)
    /\ UNCHANGED <<up, own, remote, ann, due, phase, todo, table, waiting, saved, fresh,
                   losses, stops, snap, met, overlooked, outage, cut, missed>>

\* record_failure has seen too many, or evict_and_insert removes p.
Forget(p) ==
    /\ up /\ p \in table
    /\ table' = table \ {p}
    /\ fresh' = fresh \ {p}
    /\ offered' = offered \ ({p} \X Key)
    /\ met' = met \ ({p} \X Key)
    /\ cut' = cut \cup ({p} \X Key)
    /\ UNCHANGED <<up, own, remote, ann, due, phase, todo, waiting, saved, newcomers,
                   losses, stops, snap, overlooked, outage, missed>>

\* save_peers_batch, one transaction: insert or replace, then delete the rows
\* of peers that are not in the list.  (FaultSavedPeers does not delete.)
FaultSavedPeers == saved \cup table
SavedPeers == table

\* save_routing_table, unless the database has an error, which is logged
SaveRoutingTable ==
    /\ up /\ phase = "idle"
    /\ saved' = SavedPeers
    /\ snap' = table
    /\ UNCHANGED <<up, own, remote, ann, due, phase, todo, table, waiting, fresh,
                   newcomers, offered, losses, stops, met, overlooked, outage, cut, missed>>

\* Down: what was in memory is gone, and so are the tasks under way.
Stop ==
    /\ up /\ stops < MaxStops
    /\ up' = FALSE
    /\ stops' = stops + 1
    /\ table' = {} /\ waiting' = {} /\ fresh' = {} /\ newcomers' = {}
    /\ phase' = "idle" /\ todo' = {} /\ ann' = {}
    /\ offered' = {} /\ met' = {} /\ overlooked' = {}
    /\ outage' = Key
    /\ cut' = Peer \X Key
    /\ UNCHANGED <<own, remote, due, losses, missed>>

Crash == Stop /\ UNCHANGED <<saved, snap>>

\* save_routing_table_sync at the end of run
Shutdown == Stop /\ phase = "idle" /\ saved' = SavedPeers /\ snap' = table

\* spawn_node loads the peers, and run consumes the first tick of each timer.
Restart ==
    /\ ~up
    /\ up' = TRUE
    /\ table' = saved
    /\ due' = Republish
    /\ UNCHANGED <<own, remote, ann, phase, todo, waiting, saved, fresh, newcomers, offered,
                   losses, stops, snap, met, overlooked, outage, cut, missed>>
-----------------------------------------------------------------------------
Next ==
    \/ \E k \in Key : StoreChunk(k) \/ ReplicateKey(k)
    \/ \E p \in Peer, k \in Key : Deliver(p, k) \/ Lose(p, k)
    \/ \E p \in Peer : \/ Seen(p) \/ Learned(p) \/ TurnedAway(p) \/ Admitted(p)
                       \/ ReplicateTo(p) \/ Forget(p)
    \/ Maintain \/ EndMaintenance \/ Tick \/ SaveRoutingTable \/ Crash \/ Shutdown \/ Restart

\* Time passes, and the loop comes to its timers.
Spec ==
    /\ Init /\ [][Next]_vars
    /\ WF_vars(Tick) /\ WF_vars(Maintain)
    /\ WF_vars(EndMaintenance \/ \E k \in Key : ReplicateKey(k))
    /\ WF_vars(\E p \in Peer, k \in Key : Deliver(p, k))
-----------------------------------------------------------------------------
\* A node that has not been down since a record was written does not lose it:
\* maintenance finds it alive however late it comes.
OwnRecordKept == \A k \in Key \ outage : own[k] # -1 => Live(own[k])

\* A peer that the node knows keeps the record alive from one announcement
\* to the next, even if some of them in a row are lost.
PeersKeepRecord ==
    \A p \in Peer, k \in Key :
        <<p, k>> \notin cut /\ missed[p][k] <= Tolerated => Live(remote[p][k])

\* A peer that has joined, or was heard of, while the node provided a chunk is
\* sent it by replicate_chunks_to_node or in step 4 of the next maintenance,
\* unless step 4 could not find it: it was heard of for the last time before
\* last_maintenance_time, or became known without a message of its own in a
\* maintenance that had passed the chunk.
NewcomersOffered ==
    Proactive => \A p \in table \ (fresh \cup newcomers), k \in LiveKeys :
                     <<p, k>> \in met \ overlooked => <<p, k>> \in offered

\* "replicate chunks to nodes that joined since the last maintenance cycle",
\* without exception.
JoinersOffered ==
    Proactive => \A p \in table \ (fresh \cup newcomers), k \in LiveKeys :
                     <<p, k>> \in met => <<p, k>> \in offered

\* After a restart the node knows the peers of its last save, and no peer
\* that it had given up before.
RestoresLastSave == [][~up /\ up' => table' = snap]_vars

\* A record that is alive at the node gets to the peers the node knows, also
\* to those that were down or unknown when it was announced first.
Reannounced ==
    \A p \in Peer, k \in Key :
        (up /\ Live(own[k]) /\ p \in table)
            ~> (Live(remote[p][k]) \/ ~up \/ ~Live(own[k]) \/ p \notin table)
=============================================================================
