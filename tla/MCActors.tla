------------------------------ MODULE MCActors ------------------------------
(***************************************************************************)
(* A public node, asker, a public relay and a node behind a NAT, hidden,     *)
(* that has contacted the relay.  The node dead has gone, but the routing    *)
(* table of hidden still has it.  When asker contacts the relay, that asks   *)
(* hidden whether it is still there; when the relay contacts hidden, that    *)
(* asks dead.                                                                *)
(***************************************************************************)
EXTENDS Actors, TLC

CONSTANTS asker, hidden, relay1, dead, boot, find, get, stop

MCKindOf ==
    [c \in Command |->
        CASE c = boot -> "bootstrap" [] c = find -> "inline"
          [] c = get -> "get" [] c = stop -> "shutdown"]
MCNodeOf == [c \in Command |-> IF c \in {boot, get} THEN asker ELSE relay1]
MCTargetOf ==
    [c \in Command |-> IF c = boot THEN relay1 ELSE IF c = get THEN hidden ELSE asker]

MCLinks == {<<hidden, relay1>>, <<relay1, hidden>>}
MCRelays == [n \in Node |-> IF n = asker THEN <<dead, hidden, relay1>> ELSE <<>>]
MCContacts ==
    (asker :> {hidden, dead, relay1}) @@ (relay1 :> {asker, hidden})
        @@ (hidden :> {dead}) @@ (dead :> {})

\* The relay keeps asker and hidden in one bucket, hidden has all but itself
\* in one.
MCBucketOf ==
    [n \in Node |-> [m \in Node |->
        CASE n = relay1 -> IF m \in {asker, hidden} THEN 1 ELSE 0
          [] n = hidden -> IF m # hidden THEN 1 ELSE 0
          [] OTHER -> 0]]

\* At relay1 the newcomer asker finds hidden in its place; at hidden there is
\* room, or both relay1 and asker find dead.
Table(full) ==
    [n \in Node |-> [m \in Node |->
        CASE n = relay1 /\ m = asker -> hidden
          [] n \in full /\ m \in {asker, relay1} -> dead
          [] OTHER -> None]]
MCCrowded == {Table({}), Table({hidden})}
MCUncrowded == {[n \in Node |-> [m \in Node |-> None]]}
=============================================================================
