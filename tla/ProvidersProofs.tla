-------------------------- MODULE ProvidersProofs --------------------------
(***************************************************************************)
(* For every TTL and interval that satisfy the assumption, any number of     *)
(* peers and keys, and any number of outages and losses.  A record that was  *)
(* renewed since the last outage has more time left than can pass before     *)
(* the next maintenance, however late the loop comes to it.                  *)
(***************************************************************************)
EXTENDS Providers, TLAPS

Ahead(k) == k \notin outage /\ own[k] # -1 => own[k] > due + MaxDelay

\* A pair that step 4 can still find, or replicate_chunks_to_node will offer.
Expected(p, k) ==
    \/ <<p, k>> \in offered
    \/ p \in newcomers
    \/ p \in fresh /\ (phase = "idle" \/ k \in todo)

Owed ==
    Proactive => \A p \in table, k \in LiveKeys :
                     <<p, k>> \in met \ overlooked => Expected(p, k)

Inv ==
    /\ own \in [Key -> Int]
    /\ due \in Int /\ -MaxDelay <= due /\ due <= Republish
    /\ \A k \in Key : Ahead(k)
    /\ ~up => outage = Key /\ met = {}
    /\ saved = snap /\ table \subseteq Peer /\ saved \subseteq Peer
    /\ phase \in {"idle", "replicate"}
    /\ Owed

\* One interval and the delay fit into the TTL.
LEMMA TTLSuffices ==
  /\ TTL \in Nat /\ Republish \in Nat /\ MaxDelay \in Nat
  /\ Republish + MaxDelay < TTL /\ MaxDelay < Republish /\ 0 < TTL
<1>1. /\ TTL \in Nat /\ Republish \in Nat /\ MaxDelay \in Nat /\ Tolerated \in Nat
      /\ (Tolerated + 1) * Republish + MaxDelay < TTL /\ MaxDelay < Republish
  BY ProvidersAssumption
<1>2. \A t, r \in Nat : r <= (t + 1) * r
  BY SMT
<1>3. Republish <= (Tolerated + 1) * Republish
  BY <1>1, <1>2
<1>4. (Tolerated + 1) * Republish \in Nat
  BY <1>1
<1> QED
  BY <1>1, <1>3, <1>4

LEMMA InitInv == Init => Inv
  BY TTLSuffices DEF Init, Inv, Ahead, Owed

\* What maintenance makes of the records.
LEMMA RenewedLive ==
  ASSUME own \in [Key -> Int]
  PROVE  /\ Renewed \in [Key -> Int]
         /\ \A k \in Key : Renewed[k] = -1 \/ Renewed[k] = TTL
         /\ \A k \in Key : Live(Renewed[k]) <=> Live(own[k])
  BY TTLSuffices DEF Renewed, Live

LEMMA MaintainInv == ASSUME Inv, Maintain PROVE Inv'
<1> USE TTLSuffices DEF Inv, Maintain
<1>1. own' \in [Key -> Int] /\ LiveKeys' = LiveKeys
  BY RenewedLive DEF LiveKeys
<1>2. due' \in Int /\ -MaxDelay <= due' /\ due' <= Republish
  OBVIOUS
<1>3. \A k \in Key : Ahead(k)'
  BY <1>2, RenewedLive DEF Ahead
<1>4. Owed'
  BY <1>1 DEF Owed, Expected
<1> QED
  BY <1>1, <1>2, <1>3, <1>4

\* Whoever enters the table, or is heard of, is one that step 4 finds, that has
\* a task of its own or that is overlooked.
LEMMA JoinInv ==
  ASSUME Inv, NEW p \in Peer, Seen(p) \/ Learned(p) \/ Admitted(p)
  PROVE  Owed'
<1>1. /\ UNCHANGED <<own, phase, todo, offered>> /\ table' = table \cup {p}
      /\ newcomers \subseteq newcomers' /\ fresh \subseteq fresh'
  BY DEF Seen, Learned, Admitted
<1>2. LiveKeys' = LiveKeys
  BY <1>1 DEF LiveKeys
<1> SUFFICES ASSUME Proactive, NEW q \in table', NEW k \in LiveKeys,
                    <<q, k>> \in met' \ overlooked'
             PROVE  Expected(q, k)'
  BY <1>2 DEF Owed
<1>3. CASE q # p
  <2>1. q \in table /\ <<q, k>> \in met \ overlooked
    BY <1>1, <1>3 DEF Seen, Learned, Admitted, Noticed
  <2> QED
    BY <1>1, <2>1 DEF Inv, Owed, Expected
<1>4. CASE q = p
  <2>1. k \notin Passed => phase = "idle" \/ k \in todo
    BY DEF Passed
  <2>2. CASE Seen(p) /\ p \notin table
    BY <1>4, <2>2 DEF Seen, Expected
  <2>3. CASE (Seen(p) /\ p \in table) \/ Learned(p)
    <3>1. k \notin Passed /\ p \in fresh'
      BY <1>4, <2>3 DEF Seen, Learned, Noticed
    <3> QED
      BY <1>1, <1>4, <2>1, <3>1 DEF Expected
  <2>4. CASE Admitted(p)
    <3>1. p \in fresh /\ k \notin Passed
      BY <1>4, <2>4 DEF Admitted, Noticed
    <3> QED
      BY <1>1, <1>4, <2>1, <3>1 DEF Expected
  <2> QED
    BY <2>2, <2>3, <2>4
<1> QED
  BY <1>3, <1>4

LEMMA NextInv == Inv /\ [Next]_vars => Inv'
<1> SUFFICES ASSUME Inv, [Next]_vars PROVE Inv'
  OBVIOUS
<1> USE TTLSuffices DEF Inv, Ahead
<1>1. ASSUME NEW k \in Key, StoreChunk(k) PROVE Inv'
  <2>1. LiveKeys' \subseteq LiveKeys \cup {k}
    BY <1>1 DEF StoreChunk, LiveKeys
  <2>2. Owed'
    <3> SUFFICES ASSUME Proactive, NEW p \in table, NEW l \in LiveKeys',
                        <<p, l>> \in met' \ overlooked'
                 PROVE  Expected(p, l)'
      BY <1>1 DEF Owed, StoreChunk
    <3>1. CASE l = k
      BY <1>1, <3>1 DEF StoreChunk, Expected
    <3>2. CASE l # k
      <4>1. l \in LiveKeys /\ <<p, l>> \in met \ overlooked
        BY <1>1, <2>1, <3>2 DEF StoreChunk
      <4>2. Expected(p, l)
        BY <4>1 DEF Owed
      <4> QED
        BY <1>1, <3>2, <4>2 DEF StoreChunk, Expected
    <3> QED
      BY <3>1, <3>2
  <2> QED
    BY <1>1, <2>2 DEF StoreChunk
<1>2. ASSUME NEW p \in Peer, NEW k \in Key, Deliver(p, k) \/ Lose(p, k) PROVE Inv'
  BY <1>2 DEF Deliver, Lose, Owed, Expected, LiveKeys
<1>3. ASSUME NEW p \in Peer, Seen(p) \/ Learned(p) \/ Admitted(p) PROVE Inv'
  <2>1. Owed'
    BY <1>3, JoinInv
  <2>2. UNCHANGED <<own, due, up, outage, saved, snap, phase>> /\ up
    BY <1>3 DEF Seen, Learned, Admitted
  <2>3. table' = table \cup {p}
    BY <1>3 DEF Seen, Learned, Admitted
  <2> QED
    BY <2>1, <2>2, <2>3
<1>4. ASSUME NEW p \in Peer, TurnedAway(p) \/ Forget(p) \/ ReplicateTo(p) PROVE Inv'
  <2>1. LiveKeys' = LiveKeys
    BY <1>4 DEF TurnedAway, Forget, ReplicateTo, LiveKeys
  <2>2. CASE TurnedAway(p)
    BY <2>1, <2>2 DEF TurnedAway, Owed, Expected
  <2>3. CASE Forget(p)
    BY <2>1, <2>3 DEF Forget, Owed, Expected
  <2>4. CASE ReplicateTo(p)
    BY <2>1, <2>4 DEF ReplicateTo, Replicated, Owed, Expected
  <2> QED
    BY <1>4, <2>2, <2>3, <2>4
<1>5. CASE Maintain
  BY <1>5, MaintainInv
<1>11. ASSUME NEW k \in Key, ReplicateKey(k) PROVE Inv'
  <2>1. LiveKeys' = LiveKeys
    BY <1>11 DEF ReplicateKey, LiveKeys
  <2>2. Owed'
    BY <1>11, <2>1 DEF ReplicateKey, Owed, Expected
  <2> QED
    BY <1>11, <2>2 DEF ReplicateKey
<1>12. CASE EndMaintenance
  <2>1. LiveKeys' = LiveKeys
    BY <1>12 DEF EndMaintenance, LiveKeys
  <2>2. Owed'
    BY <1>12, <2>1 DEF EndMaintenance, Owed, Expected
  <2> QED
    BY <1>12, <2>2 DEF EndMaintenance
<1>6. CASE Tick
  <2>1. own' \in [Key -> Int] /\ \A k \in Key : own'[k] = own[k] \/ own'[k] = own[k] - 1
    BY <1>6 DEF Tick, Aged
  <2>2. LiveKeys' \subseteq LiveKeys
    BY <1>6 DEF Tick, Aged, LiveKeys, Live
  <2>3. Owed'
    BY <1>6, <2>2 DEF Tick, Owed, Expected
  <2>4. CASE up
    <3>1. \A k \in Key : Ahead(k)'
      BY <1>6, <2>4 DEF Tick, Aged
    <3> QED
      BY <1>6, <2>1, <2>3, <2>4, <3>1 DEF Tick
  <2>5. CASE ~up
    BY <1>6, <2>1, <2>3, <2>5 DEF Tick
  <2> QED
    BY <2>4, <2>5
<1>7. CASE SaveRoutingTable
  BY <1>7 DEF SaveRoutingTable, SavedPeers, Owed, Expected, LiveKeys
<1>8. CASE Crash \/ Shutdown
  BY <1>8 DEF Crash, Shutdown, Stop, SavedPeers, Owed
<1>9. CASE Restart
  BY <1>9 DEF Restart, Owed
<1>10. CASE UNCHANGED vars
  BY <1>10 DEF vars, Owed, Expected, LiveKeys
<1> QED
  BY <1>1, <1>2, <1>3, <1>4, <1>5, <1>6, <1>7, <1>8, <1>9, <1>10, <1>11, <1>12 DEF Next

LEMMA Invariance == Spec => []Inv
  BY InitInv, NextInv, PTL DEF Spec

\* Maintenance comes in time: no own record lapses while the node stays up.
THEOREM OwnRecords == Spec => []OwnRecordKept
<1>1. Inv => OwnRecordKept
  BY TTLSuffices DEF Inv, Ahead, OwnRecordKept, Live
<1> QED
  BY <1>1, Invariance, PTL

\* Reactive and periodic replication together leave out only the peers that
\* step 4 cannot tell from old ones, for any peers, keys and alpha, and however
\* lookups and handlers interleave with the maintenance.
THEOREM Newcomers == Spec => []NewcomersOffered
<1>1. Inv => NewcomersOffered
  BY DEF Inv, Owed, Expected, NewcomersOffered
<1> QED
  BY <1>1, Invariance, PTL

\* spawn_node restores exactly the table of the last save.
THEOREM Restored == Spec => RestoresLastSave
<1>1. Inv /\ [Next]_vars => [~up /\ up' => table' = snap]_vars
  <2> SUFFICES ASSUME Inv, Next, ~up, up' PROVE table' = snap
    OBVIOUS
  <2>1. Restart
    BY DEF Next, StoreChunk, ReplicateKey, Deliver, Lose, Seen, Learned, TurnedAway,
           Admitted, ReplicateTo, Forget, Maintain, EndMaintenance, Tick,
           SaveRoutingTable, Crash, Shutdown, Stop
  <2> QED
    BY <2>1 DEF Restart, Inv
<1> QED
  BY <1>1, Invariance, PTL DEF Spec, RestoresLastSave
-----------------------------------------------------------------------------
(* The records at the peers *)

\* Time that the announcements still allowed to be lost may cost.
Slack(m) == (Tolerated - m) * Republish

LEMMA SlackFacts ==
  /\ \A m \in Nat : Slack(m) \in Int /\ Slack(m + 1) = Slack(m) - Republish
  /\ \A m \in Nat : m <= Tolerated => 0 <= Slack(m)
  /\ Slack(0) + Republish + MaxDelay < TTL
<1>1. /\ TTL \in Nat /\ Republish \in Nat /\ MaxDelay \in Nat /\ Tolerated \in Nat
      /\ (Tolerated + 1) * Republish + MaxDelay < TTL
  BY ProvidersAssumption
<1>2. \A a, r \in Int : a * r \in Int /\ (a - 1) * r = a * r - r /\ (a + 1) * r = a * r + r
  BY SMT
<1>3. \A a, r \in Nat : 0 <= a * r
  BY SMT
<1>4. ASSUME NEW m \in Nat PROVE Slack(m) \in Int /\ Slack(m + 1) = Slack(m) - Republish
  <2>1. Tolerated - m \in Int /\ Tolerated - (m + 1) = (Tolerated - m) - 1
    BY <1>1
  <2> QED
    BY <1>1, <1>2, <2>1 DEF Slack
<1>5. ASSUME NEW m \in Nat, m <= Tolerated PROVE 0 <= Slack(m)
  <2>1. Tolerated - m \in Nat
    BY <1>1, <1>5
  <2> QED
    BY <1>1, <1>3, <2>1 DEF Slack
<1>6. Slack(0) + Republish + MaxDelay < TTL
  <2>1. Slack(0) = Tolerated * Republish /\ (Tolerated + 1) * Republish = Slack(0) + Republish
    BY <1>1, <1>2 DEF Slack
  <2> QED
    BY <1>1, <1>2, <2>1
<1> QED
  BY <1>4, <1>5, <1>6

\* The record at p outlives the announcements that may still be lost; while
\* one is under way, maintenance has just been.
Enough(p, k) ==
    missed[p][k] <= Tolerated =>
        /\ remote[p][k] > 0
        /\ IF <<p, k>> \in ann
           THEN due > 0 /\ remote[p][k] > Slack(missed[p][k]) + due - Republish + MaxDelay
           ELSE remote[p][k] > Slack(missed[p][k]) + due + MaxDelay

Reached(p, k) == p \in table /\ k \notin outage /\ own[k] # -1 /\ Enough(p, k)

PeerInv ==
    /\ remote \in [Peer -> [Key -> Int]] /\ missed \in [Peer -> [Key -> Nat]]
    /\ \A p \in Peer, k \in Key : <<p, k>> \in ann => k \notin outage /\ own[k] # -1
    /\ \A p \in Peer, k \in Key : <<p, k>> \notin cut => Reached(p, k)
    /\ ~up => ann = {} /\ \A p \in Peer, k \in Key : <<p, k>> \in cut

LEMMA InitPeerInv == Init => PeerInv
  BY DEF Init, PeerInv

\* An own record that was renewed since the last outage is alive.
LEMMA OwnLive ==
  ASSUME Inv, NEW k \in Key, k \notin outage, own[k] # -1
  PROVE  Live(own[k])
  BY TTLSuffices DEF Inv, Ahead, Live

LEMMA MaintainPeerInv == ASSUME Inv, PeerInv, Maintain PROVE PeerInv'
<1> USE TTLSuffices, SlackFacts DEF PeerInv
<1>1. \A k \in LiveKeys : k \in Key /\ k \notin outage' /\ own'[k] # -1
  BY RenewedLive DEF Maintain, LiveKeys, Live, Inv
<1>3. ASSUME NEW p \in Peer, NEW k \in Key, <<p, k>> \in ann'
      PROVE  k \notin outage' /\ own'[k] # -1
  <2>1. CASE <<p, k>> \in ann
    <3>1. k \in LiveKeys
      BY <2>1, OwnLive DEF LiveKeys
    <3> QED
      BY <1>1, <3>1
  <2>2. CASE <<p, k>> \notin ann
    BY <1>1, <1>3, <2>2 DEF Maintain, Audience
  <2> QED
    BY <2>1, <2>2
<1>4. ASSUME NEW p \in Peer, NEW k \in Key, <<p, k>> \notin cut'
      PROVE  Reached(p, k)'
  <2>1. Reached(p, k)
    BY <1>4 DEF Maintain
  <2>2. k \in LiveKeys
    BY <2>1, OwnLive DEF Reached, LiveKeys
  <2>3. <<p, k>> \in ann'
    BY <2>1, <2>2 DEF Reached, Maintain, Audience
  <2>4. due' = due + Republish /\ due' > 0 /\ due \in Int /\ due <= 0 /\ due >= -MaxDelay
    BY DEF Maintain, Inv
  <2>5. Enough(p, k)'
    <3> SUFFICES ASSUME missed[p][k] <= Tolerated
                 PROVE  remote[p][k] > 0
                        /\ remote[p][k] > Slack(missed[p][k]) + due' - Republish + MaxDelay
      BY <2>3, <2>4 DEF Enough, Maintain
    <3>1. remote[p][k] > 0 /\ remote[p][k] > Slack(missed[p][k]) + due + MaxDelay
      BY <2>1, <2>4 DEF Reached, Enough
    <3>2. remote[p][k] \in Int /\ Slack(missed[p][k]) \in Int
      OBVIOUS
    <3> QED
      BY <2>4, <3>1, <3>2
  <2> QED
    BY <1>1, <2>1, <2>2, <2>5 DEF Reached, Maintain
<1> QED
  BY <1>3, <1>4 DEF Maintain

LEMMA DeliverPeerInv ==
  ASSUME Inv, PeerInv, NEW p \in Peer, NEW k \in Key, Deliver(p, k)
  PROVE  PeerInv'
<1> USE TTLSuffices, SlackFacts DEF PeerInv, Deliver
<1>1. ASSUME NEW q \in Peer, NEW l \in Key, <<q, l>> \notin cut'
      PROVE  Reached(q, l)'
  <2>1. CASE q = p /\ l = k
    <3>1. remote'[p][k] = TTL /\ missed'[p][k] = 0 /\ <<p, k>> \notin ann'
      OBVIOUS
    <3>2. Enough(p, k)'
      BY <3>1 DEF Enough, Inv
    <3>3. p \in table \/ <<p, k>> \notin cut
      BY <1>1, <2>1
    <3>4. p \in table
      BY <3>3 DEF Reached
    <3> QED
      BY <2>1, <3>2, <3>4 DEF Reached
  <2>2. CASE ~(q = p /\ l = k)
    <3>1. <<q, l>> # <<p, k>> /\ <<q, l>> \notin cut
      BY <1>1, <2>2
    <3>2. remote'[q][l] = remote[q][l] /\ missed'[q][l] = missed[q][l]
      BY <2>2
    <3>3. <<q, l>> \in ann' <=> <<q, l>> \in ann
      BY <3>1
    <3> QED
      BY <3>1, <3>2, <3>3 DEF Reached, Enough
  <2> QED
    BY <2>1, <2>2
<1> QED
  BY <1>1

LEMMA LosePeerInv ==
  ASSUME Inv, PeerInv, NEW p \in Peer, NEW k \in Key, Lose(p, k)
  PROVE  PeerInv'
<1> USE TTLSuffices, SlackFacts DEF PeerInv, Lose
<1>1. ASSUME NEW q \in Peer, NEW l \in Key, <<q, l>> \notin cut
      PROVE  Enough(q, l)'
  <2>0. Enough(q, l) /\ due \in Int
    BY <1>1 DEF Reached, Inv
  <2>1. CASE q = p /\ l = k
    <3>1. missed'[p][k] = missed[p][k] + 1 /\ <<p, k>> \notin ann' /\ <<p, k>> \in ann
      OBVIOUS
    <3> SUFFICES ASSUME missed[p][k] + 1 <= Tolerated
                 PROVE  remote[p][k] > 0
                        /\ remote[p][k] > Slack(missed[p][k] + 1) + due + MaxDelay
      BY <2>1, <3>1 DEF Enough
    <3>2. missed[p][k] <= Tolerated
      BY ProvidersAssumption
    <3>3. remote[p][k] > 0
          /\ remote[p][k] > Slack(missed[p][k]) + due - Republish + MaxDelay
      BY <2>0, <2>1, <3>1, <3>2 DEF Enough
    <3>4. /\ remote[p][k] \in Int /\ Slack(missed[p][k]) \in Int
          /\ Slack(missed[p][k] + 1) = Slack(missed[p][k]) - Republish
      OBVIOUS
    <3> QED
      BY <2>0, <3>3, <3>4
  <2>2. CASE ~(q = p /\ l = k)
    <3>1. missed'[q][l] = missed[q][l] /\ (<<q, l>> \in ann' <=> <<q, l>> \in ann)
      BY <2>2
    <3> QED
      BY <2>0, <3>1 DEF Enough
  <2> QED
    BY <2>1, <2>2
<1> QED
  BY <1>1 DEF Reached

LEMMA TickPeerInv == ASSUME Inv, PeerInv, Tick PROVE PeerInv'
<1> USE TTLSuffices, SlackFacts DEF PeerInv
<1>1. remote' \in [Peer -> [Key -> Int]]
      /\ \A p \in Peer, k \in Key : remote'[p][k] >= remote[p][k] - 1
  BY DEF Tick, Aged
<1>2. own \in [Key -> Int] /\ due \in Int /\ due >= -MaxDelay
  BY DEF Inv
<1>3. \A k \in Key : own'[k] = own[k] \/ own'[k] # -1
  BY <1>2 DEF Tick, Aged
<1>4. ASSUME NEW p \in Peer, NEW k \in Key, <<p, k>> \notin cut PROVE Enough(p, k)'
  <2>1. up /\ due' = due - 1 /\ due' >= -MaxDelay /\ ann = {} /\ ann' = {} /\ missed' = missed
    BY <1>2, <1>4 DEF Tick
  <2>2. Enough(p, k)
    BY <1>4 DEF Reached
  <2> SUFFICES ASSUME missed[p][k] <= Tolerated
               PROVE  /\ remote'[p][k] > 0
                      /\ remote'[p][k] > Slack(missed[p][k]) + due' + MaxDelay
    BY <2>1 DEF Enough
  <2>3. remote[p][k] > Slack(missed[p][k]) + due + MaxDelay
    BY <2>1, <2>2 DEF Enough
  <2>4. /\ remote[p][k] \in Int /\ remote'[p][k] \in Int
        /\ remote'[p][k] >= remote[p][k] - 1
        /\ Slack(missed[p][k]) \in Int /\ 0 <= Slack(missed[p][k])
    BY <1>1
  <2> QED
    BY <1>2, <2>1, <2>3, <2>4
<1> QED
  BY <1>1, <1>3, <1>4 DEF Reached, Tick

LEMMA NextPeerInv == Inv /\ PeerInv /\ [Next]_vars => PeerInv'
<1> SUFFICES ASSUME Inv, PeerInv, [Next]_vars PROVE PeerInv'
  OBVIOUS
<1> USE DEF PeerInv
<1>1. ASSUME NEW k \in Key, StoreChunk(k) PROVE PeerInv'
  <2>1. own' = [own EXCEPT ![k] = TTL] /\ own \in [Key -> Int] /\ TTL # -1
    BY <1>1, TTLSuffices DEF StoreChunk, Inv
  <2>2. ASSUME NEW p \in Peer, NEW l \in Key, <<p, l>> \notin cut PROVE l # k
    BY <1>1, <2>2, OwnLive DEF StoreChunk, Reached
  <2>3. \A p \in Peer, l \in Key : l # k => (<<p, l>> \in ann' <=> <<p, l>> \in ann)
    BY <1>1 DEF StoreChunk
  <2>4. \A p \in Peer, l \in Key : <<p, l>> \notin cut' => Reached(p, l)'
    BY <1>1, <2>1, <2>2, <2>3 DEF StoreChunk, Reached, Enough
  <2> QED
    BY <1>1, <2>1, <2>3, <2>4 DEF StoreChunk
<1>2. ASSUME NEW p \in Peer, NEW k \in Key, Deliver(p, k) \/ Lose(p, k) PROVE PeerInv'
  BY <1>2, DeliverPeerInv, LosePeerInv
<1>3. ASSUME NEW p \in Peer, Seen(p) \/ Learned(p) \/ Admitted(p) PROVE PeerInv'
  <2>1. /\ UNCHANGED <<up, own, remote, ann, due, outage, cut, missed>> /\ up
        /\ table \subseteq table'
    BY <1>3 DEF Seen, Learned, Admitted
  <2> QED
    BY <2>1 DEF Reached, Enough
<1>4. ASSUME NEW p \in Peer, Forget(p) PROVE PeerInv'
  BY <1>4 DEF Forget, Reached, Enough
<1>5. CASE Maintain
  BY <1>5, MaintainPeerInv
<1>6. CASE Tick
  BY <1>6, TickPeerInv
<1>7. CASE SaveRoutingTable
  BY <1>7 DEF SaveRoutingTable, Reached, Enough
<1>8. CASE Crash \/ Shutdown
  BY <1>8 DEF Crash, Shutdown, Stop
<1>9. CASE Restart
  BY <1>9 DEF Restart
<1>10. CASE UNCHANGED vars
  BY <1>10 DEF vars, Reached, Enough
<1>11. ASSUME (\E p \in Peer : TurnedAway(p) \/ ReplicateTo(p))
              \/ EndMaintenance \/ \E k \in Key : ReplicateKey(k)
       PROVE  PeerInv'
  <2>1. UNCHANGED <<up, own, remote, ann, due, table, outage, cut, missed>>
    BY <1>11 DEF TurnedAway, ReplicateTo, EndMaintenance, ReplicateKey
  <2> QED
    BY <2>1 DEF Reached, Enough
<1> QED
  BY <1>1, <1>2, <1>3, <1>4, <1>5, <1>6, <1>7, <1>8, <1>9, <1>10, <1>11 DEF Next

\* A peer's record is renewed in time, unless more announcements in a row are
\* lost than the TTL was chosen for.
THEOREM PeerRecords == Spec => []PeersKeepRecord
<1>1. PeerInv => PeersKeepRecord
  BY DEF PeerInv, PeersKeepRecord, Reached, Enough, Live
<1>2. Spec => []PeerInv
  BY Invariance, InitPeerInv, NextPeerInv, PTL DEF Spec
<1> QED
  BY <1>1, <1>2, PTL
=============================================================================
