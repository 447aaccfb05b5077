------------------------------- MODULE Lookup -------------------------------
(***************************************************************************)
(* The iterative FIND_NODE lookup (lookup/mod.rs).  Round by round it picks *)
(* the alpha nearest peers it has not asked, asks them all at once (one     *)
(* spawned task per RPC), and merges what comes back, in the order in which *)
(* the tasks were spawned, whatever order they finish in.                   *)
(*                                                                          *)
(* A node is an identifier and whether it comes with an address.  What a    *)
(* peer answers is arbitrary: any list of Answer, or no answer at all.      *)
(***************************************************************************)
EXTENDS NodeIds, Sequences, SequencesExt

CONSTANTS
    Self,        \* self_id
    Target,      \* target
    Limit,       \* k, the length of the result
    Alpha,       \* parallel queries per round
    MaxRounds,   \* MAX_ROUNDS
    Seeds,       \* lists the routing table may give the lookup to start with
    Answer       \* lists of nodes a FindNodeResponse may carry

Node == [node_id : NodeId, has_addr : BOOLEAN]

ASSUME LookupAssumption ==
    /\ Self \in NodeId /\ Target \in NodeId
    /\ Limit \in Nat \ {0} /\ Alpha \in Nat \ {0} /\ MaxRounds \in Nat
    /\ Seeds \subseteq Seq(Node) /\ Answer \subseteq Seq(Node)

\* A list in the order of the distance to the target.
InOrder(s) ==
    \A i, j \in 1..Len(s) : i < j => ~Closer(Target, s[j].node_id, s[i].node_id)

\* The seeds come from closest_nodes, which sorts.
ASSUME SeedsAssumption == \A s \in Seeds : InOrder(s)

VARIABLES
    closest,    \* candidates found so far
    queried,    \* peers asked so far, and Self
    round,      \* rounds begun
    handles,    \* how many tasks of this round have not been awaited
    reply,      \* what the tasks of this round have returned
    improved,   \* this round has added a candidate
    phase,      \* "round", "collect" or "done"
    heard       \* history: every node seeded or returned, Self left out

vars == <<closest, queried, round, handles, reply, improved, phase, heard>>

\* The state of an RPC: under way, returned None (or its task panicked), or
\* returned a list of nodes.
Pending == [status |-> "pending", nodes |-> <<>>]
Failed == [status |-> "failed", nodes |-> <<>>]
Answered(nodes) == [status |-> "ok", nodes |-> nodes]

-----------------------------------------------------------------------------
IdsIn(s) == {s[i].node_id : i \in 1..Len(s)}
Sorted(s) == SortedPrefix(Target, s, Len(s))
Truncated(s, n) == SubSeq(s, 1, Min({n, Len(s)}))

\* The first n of a set of positions.
FirstOf(P, n) == {i \in P : Cardinality({j \in P : j < i}) < n}

\* The candidates that have an address.
WithAddr(s) == {i \in 1..Len(s) : s[i].has_addr}

\* The first Alpha candidates that have an address and have not been asked, by
\* their positions.  An identifier the seeds hold twice is picked twice.
ToQuery ==
    FirstOf({i \in WithAddr(closest) : closest[i].node_id \notin queried}, Alpha)

\* Fault: room is not made use of.
WantedIfCloser(list, node) ==
    /\ Closer(Target, node.node_id, Last(list).node_id)
    /\ node.node_id \notin IdsIn(list)

\* A returned node is taken when there is room, or when it is closer than the
\* candidate at the END of the list: the list is sorted only between rounds.
Wanted(list, node) ==
    /\ \/ Len(list) < Limit
       \/ Closer(Target, node.node_id, Last(list).node_id)
    /\ node.node_id \notin IdsIn(list)

Consider(list, node) ==
    IF node.node_id # Self /\ Wanted(list, node) THEN Append(list, node) ELSE list

Merge(list, nodes) == FoldLeft(Consider, list, nodes)

-----------------------------------------------------------------------------
Init ==
    /\ closest \in Seeds
    /\ queried = {Self}
    /\ round = 0
    /\ handles = 0
    /\ reply = <<>>
    /\ improved = FALSE
    /\ phase = "round"
    /\ heard = IdsIn(closest)

\* The top of the for loop: pick the peers and spawn their RPCs, or stop.
BeginRound ==
    /\ phase = "round"
    /\ round < MaxRounds
    /\ ToQuery # {}
    /\ queried' = queried \cup {closest[i].node_id : i \in ToQuery}
    /\ handles' = Cardinality(ToQuery)
    /\ reply' = [i \in 1..Cardinality(ToQuery) |-> Pending]
    /\ improved' = FALSE
    /\ round' = round + 1
    /\ phase' = "collect"
    /\ UNCHANGED <<closest, heard>>

Stop ==
    /\ phase = "round"
    /\ round >= MaxRounds \/ ToQuery = {}
    /\ phase' = "done"
    /\ UNCHANGED <<closest, queried, round, handles, reply, improved, heard>>

\* The i-th RPC of this round finishes.
Reply(i) ==
    /\ reply[i] = Pending
    /\ \E r \in {Answered(a) : a \in Answer} \cup {Failed} : reply' = [reply EXCEPT ![i] = r]
    /\ UNCHANGED <<closest, queried, round, handles, improved, phase, heard>>

\* The next task of this round: handles are awaited in order.
Awaited == Len(reply) - handles + 1

\* Faults: only the last answer decides whether there was an improvement; a
\* failed RPC is waited for again.
CollectLastImprovement ==
    /\ phase = "collect"
    /\ handles > 0
    /\ reply[Awaited] # Pending
    /\ closest' = Merge(closest, reply[Awaited].nodes)
    /\ improved' = (closest' # closest)
    /\ heard' = heard \cup (IdsIn(reply[Awaited].nodes) \ {Self})
    /\ handles' = handles - 1
    /\ UNCHANGED <<queried, round, reply, phase>>
CollectAnswersOnly ==
    /\ phase = "collect"
    /\ handles > 0
    /\ reply[Awaited].status = "ok"
    /\ closest' = Merge(closest, reply[Awaited].nodes)
    /\ improved' = (improved \/ closest' # closest)
    /\ heard' = heard \cup (IdsIn(reply[Awaited].nodes) \ {Self})
    /\ handles' = handles - 1
    /\ UNCHANGED <<queried, round, reply, phase>>

\* The task awaited next has finished: take its result up.
Collect ==
    /\ phase = "collect"
    /\ handles > 0
    /\ reply[Awaited] # Pending
    /\ closest' = Merge(closest, reply[Awaited].nodes)
    /\ improved' = (improved \/ closest' # closest)
    /\ heard' = heard \cup (IdsIn(reply[Awaited].nodes) \ {Self})
    /\ handles' = handles - 1
    /\ UNCHANGED <<queried, round, reply, phase>>

\* Faults: the list is cut but not sorted, or cut before it is sorted.
EndRoundUnsorted ==
    /\ phase = "collect"
    /\ handles = 0
    /\ closest' = Truncated(closest, Limit)
    /\ phase' = IF improved THEN "round" ELSE "done"
    /\ reply' = <<>>
    /\ UNCHANGED <<queried, round, handles, improved, heard>>
EndRoundCutFirst ==
    /\ phase = "collect"
    /\ handles = 0
    /\ closest' = Sorted(Truncated(closest, Limit))
    /\ phase' = IF improved THEN "round" ELSE "done"
    /\ reply' = <<>>
    /\ UNCHANGED <<queried, round, handles, improved, heard>>

\* All tasks of the round are in: sort, cut, and go on unless nothing was
\* added.
EndRound ==
    /\ phase = "collect"
    /\ handles = 0
    /\ closest' = Truncated(Sorted(closest), Limit)
    /\ phase' = IF improved THEN "round" ELSE "done"
    /\ reply' = <<>>
    /\ UNCHANGED <<queried, round, handles, improved, heard>>

Done == phase = "done" /\ UNCHANGED vars

Next ==
    \/ BeginRound
    \/ Stop
    \/ \E i \in DOMAIN reply : Reply(i)
    \/ Collect
    \/ EndRound
    \/ Done

\* The loop runs on, and every RPC finishes: requests time out.
Fairness ==
    /\ WF_vars(BeginRound \/ Stop \/ Collect \/ EndRound)
    /\ \A i \in 1..Alpha : WF_vars(i \in DOMAIN reply /\ Reply(i))

Spec == Init /\ [][Next]_vars /\ Fairness
-----------------------------------------------------------------------------
(* Properties *)

BetweenRounds == phase \in {"round", "done"}

Farther(x, y) == Closer(Target, y.node_id, x.node_id)

\* Type invariant.
TypeOK ==
    /\ closest \in Seq(Node)
    /\ queried \subseteq NodeId
    /\ round \in 0..MaxRounds
    /\ reply \in Seq({Answered(a) : a \in Answer} \cup {Pending, Failed})
    /\ Len(reply) <= Alpha /\ handles \in 0..Len(reply)
    /\ improved \in BOOLEAN
    /\ phase \in {"round", "collect", "done"}
    /\ heard \subseteq NodeId

\* Although most answers are judged against a list that is not sorted, the
\* nearest node anyone ever mentioned is never dropped: it heads the list after
\* every round.
NearestHeardKept ==
    BetweenRounds /\ heard # {} =>
        \A id \in heard : ~Closer(Target, id, closest[1].node_id)

\* A node that was mentioned is missing only from a result that is full: a
\* lookup in a network smaller than Limit returns everything it heard of, unless
\* the seeds repeat an identifier (each copy takes a place).
NothingLostWhileRoom == IdsIn(closest) # heard => Len(closest) >= Limit

\* A lookup that ends before it runs out of rounds has asked the Alpha nearest
\* candidates that can be asked: a round without improvement is not taken for
\* convergence while a nearer peer is still to be asked.
NearestWereAsked ==
    phase = "done" /\ round < MaxRounds =>
        \A i \in FirstOf(WithAddr(closest), Alpha) : closest[i].node_id \in queried

\* A lookup never moves away from its target: no answer, failure or truncation
\* replaces the i-th nearest candidate by a farther one.
NeverRetreats ==
    [][LET old == Sorted(closest)
           new == Sorted(closest')
       IN  \A i \in 1..Min({Limit, Len(old)}) :
            i <= Len(new) /\ ~Farther(new[i], old[i])]_vars

\* Every lookup ends, whichever RPCs fail.
Termination == <>(phase = "done")

\* The module documentation: the lookup "collects closer nodes, and converges
\* on the `k` closest nodes to a target", so the result is the Limit nearest of
\* the nodes it heard of.
KeepsNearestHeard ==
    phase = "done" =>
        \A id \in heard \ IdsIn(closest) :
            /\ Len(closest) = Limit
            /\ ~Closer(Target, id, Last(closest).node_id)
=============================================================================
