---------------------------- MODULE ActorsProofs ----------------------------
(***************************************************************************)
(* Who keeps whom waiting, for any nodes, commands, tables and limits.       *)
(*                                                                           *)
(* Basic says what the state is like: every call has the name and the        *)
(* message that its caller gave it, a handler that waits has made the call   *)
(* it waits for, a loop awaits a command of its own, and each bucket has one *)
(* place.  From it follow the types and that bootstraps keep nobody waiting. *)
(*                                                                           *)
(* That an evicted peer still could not answer needs Frozen: between the     *)
(* timeout of a ping and the eviction other steps are taken, and none of     *)
(* them frees the peer, because all that waited when time passed waits for   *)
(* each other.  That a relay reaches the peer needs RelayInv, which follows  *)
(* the call from the command through the relay to the peer and back.         *)
(***************************************************************************)
EXTENDS Actors, FiniteSetTheorems, TLAPS

\* What the names of calls are made of.
Word == {"ping", "lookup", "direct", "reverse", "retry", "relay", "none", "lrs", "fwd"}
Part == Command \cup Word \cup Nat

\* A call is <<c, s, i>> or that of a handler of another call.
Keyed(r) ==
    /\ IsFiniteSet(DOMAIN r)
    /\ \A q \in DOMAIN r : q \in Seq(Part) /\ Len(q) >= 3
    /\ \A q \in Seq(Part), as \in {"lrs", "fwd"} :
         Len(q) >= 3 /\ Append(q, as) \in DOMAIN r => q \in DOMAIN r

\* A handler that waits has made the call it waits for, once.
Served(r) ==
    \A q \in DOMAIN r :
        /\ r[q].serve = "inbox" => Append(q, "lrs") \notin DOMAIN r
        /\ r[q].serve \in {"inbox", "lrs"} => Append(q, "fwd") \notin DOMAIN r
        /\ r[q].serve = "lrs" => Append(q, "lrs") \in DOMAIN r
        /\ r[q].serve = "fwd" => Append(q, "fwd") \in DOMAIN r

\* What a call looks like, apart from its types.
Sensible(m) ==
    /\ m.kind = "relay" => m.inner # "none" /\ m.target \in Node
    /\ m.want = "waiting" => m.serve \notin {"unsent", "done"}
    /\ m.kind = "ping" => m.want # "no" /\ m.serve # "fwd"

Requests(r) == \A q \in DOMAIN r : r[q] \in Request /\ Sensible(r[q])

\* The ping of a handler goes to the peer that the sender wants to replace.
Pinged(m, p) ==
    /\ p.kind = "ping" /\ p.brief /\ p.from = m.to
    /\ BucketOf[m.to][p.to] = BucketOf[m.to][m.sender]

Pings(r) == \A q \in DOMAIN r : r[q].serve = "lrs" => Pinged(r[q], r[Append(q, "lrs")])

ReqInv(r) == Keyed(r) /\ Served(r) /\ Requests(r) /\ Pings(r)

-----------------------------------------------------------------------------
\* Append makes a longer sequence, from which the shorter one can be told.
LEMMA AppendGeneral ==
    ASSUME NEW S, NEW q \in Seq(S), NEW a \in S
    PROVE  /\ Append(q, a) \in Seq(S) /\ Len(Append(q, a)) = Len(q) + 1
           /\ Append(q, a) # q
           /\ \A o \in Seq(S), b \in S : Append(o, b) = Append(q, a) => o = q /\ b = a
<1>1. Append(q, a) \in Seq(S) /\ Len(Append(q, a)) = Len(q) + 1
  OBVIOUS
<1>2. Append(q, a) # q
  BY <1>1
<1>3. ASSUME NEW o \in Seq(S), NEW b \in S, Append(o, b) = Append(q, a)
      PROVE  o = q /\ b = a
  BY <1>3
<1> QED
  BY <1>1, <1>2, <1>3

LEMMA Parts == "lrs" \in Part /\ "fwd" \in Part
BY Zenon DEF Part, Word

\* The names of the calls that handlers make, for the calls handled.
LEMMA AppendFacts ==
    ASSUME NEW q \in Seq(Part)
    PROVE  \A as \in {"lrs", "fwd"} :
           /\ Append(q, as) \in Seq(Part) /\ Len(Append(q, as)) = Len(q) + 1
           /\ Append(q, as) # q
           /\ \A o \in Seq(Part), bs \in {"lrs", "fwd"} :
                Append(o, bs) = Append(q, as) => o = q /\ bs = as
<1>1. SUFFICES ASSUME NEW as \in {"lrs", "fwd"}
      PROVE  /\ Append(q, as) \in Seq(Part) /\ Len(Append(q, as)) = Len(q) + 1
             /\ Append(q, as) # q
             /\ \A o \in Seq(Part), bs \in {"lrs", "fwd"} :
                  Append(o, bs) = Append(q, as) => o = q /\ bs = as
  BY Zenon
<1>2. as \in Part /\ \A bs \in {"lrs", "fwd"} : bs \in Part
  BY Parts, Zenon
<1> QED
  BY <1>2, AppendGeneral, Zenon

\* Made changes nothing but whether the call gets through.
LEMMA MadeFacts ==
    ASSUME NEW m \in Request, m.want = "waiting", m.serve = "inbox",
           m.kind = "relay" => m.inner # "none" /\ m.target \in Node
    PROVE  /\ Made(m) \in Request /\ Sensible(Made(m))
           /\ Made(m).kind = m.kind /\ Made(m).brief = m.brief /\ Made(m).from = m.from
           /\ Made(m).to = m.to /\ Made(m).sender = m.sender /\ Made(m).target = m.target
           /\ Made(m).inner = m.inner
           /\ Made(m).serve \in {"inbox", "unsent"}
           /\ Made(m).want = "failed" => Made(m).serve = "unsent"
           /\ Reaches(m.from, m.to) => Made(m) = m
<1>1. CASE Reaches(m.from, m.to)
  BY <1>1 DEF Made, Sensible
<1>2. CASE ~Reaches(m.from, m.to)
  <2> DEFINE f == [m EXCEPT !.want = "failed"]
             g == [f EXCEPT !.serve = "unsent"]
  <2>1. Made(m) = g
    BY <1>2 DEF Made
  <2>2. f \in Request /\ f.want = "failed" /\ f.kind = m.kind /\ f.brief = m.brief
        /\ f.from = m.from /\ f.to = m.to /\ f.sender = m.sender /\ f.target = m.target
        /\ f.inner = m.inner
    BY DEF Request
  <2> HIDE DEF f
  <2>3. g \in Request /\ g.want = f.want /\ g.serve = "unsent" /\ g.kind = f.kind
        /\ g.brief = f.brief /\ g.from = f.from /\ g.to = f.to /\ g.sender = f.sender
        /\ g.target = f.target /\ g.inner = f.inner
    BY <2>2 DEF Request
  <2> QED
    BY <1>2, <2>1, <2>2, <2>3 DEF Sensible
<1> QED
  BY <1>1, <1>2

\* A message is what it is made of.
LEMMA MessageFacts ==
    ASSUME NEW x \in Node, NEW s \in Node, NEW y \in Node,
           NEW kind \in {"ping", "lookup", "get", "relay", "connect"},
           NEW inner \in {"none", "get", "connect"}, NEW target \in Node \cup {None},
           NEW brief \in BOOLEAN
    PROVE  LET m == Message(x, s, y, kind, inner, target, brief) IN
           /\ m \in Request /\ m.want = "waiting" /\ m.serve = "inbox"
           /\ m.kind = kind /\ m.inner = inner /\ m.target = target /\ m.brief = brief
           /\ m.from = x /\ m.sender = s /\ m.to = y
BY DEF Message, Request
-----------------------------------------------------------------------------
\* The same call in another state.
Same(m, n) ==
    /\ m.from = n.from /\ m.sender = n.sender /\ m.to = n.to /\ m.target = n.target
    /\ m.kind = n.kind /\ m.inner = n.inner /\ m.brief = n.brief

\* A handler ends, or something else happens to one call.
LEMMA ChangeOne ==
    ASSUME NEW r, ReqInv(r), NEW q \in DOMAIN r, NEW m \in Request, Sensible(m),
           Same(m, r[q]), m.serve = r[q].serve \/ m.serve \in {"done", "dropped"}
    PROVE  ReqInv([r EXCEPT ![q] = m])
<1> DEFINE s == [r EXCEPT ![q] = m]
<1>1. DOMAIN s = DOMAIN r /\ s[q] = m /\ \A o \in DOMAIN r : o # q => s[o] = r[o]
  OBVIOUS
<1> HIDE DEF s
<1>2. Keyed(s)
  BY <1>1 DEF ReqInv, Keyed
<1>3. Served(s)
  <2> SUFFICES ASSUME NEW o \in DOMAIN r
      PROVE  /\ s[o].serve = "inbox" => Append(o, "lrs") \notin DOMAIN r
             /\ s[o].serve \in {"inbox", "lrs"} => Append(o, "fwd") \notin DOMAIN r
             /\ s[o].serve = "lrs" => Append(o, "lrs") \in DOMAIN r
             /\ s[o].serve = "fwd" => Append(o, "fwd") \in DOMAIN r
    BY <1>1, Zenon DEF Served
  <2>1. s[o].serve = r[o].serve \/ s[o].serve \in {"done", "dropped"}
    BY <1>1, Zenon
  <2> QED
    BY <2>1 DEF ReqInv, Served
<1>4. Requests(s)
  BY <1>1, Zenon DEF ReqInv, Requests
<1>5. Pings(s)
  <2> SUFFICES ASSUME NEW o \in DOMAIN r, s[o].serve = "lrs"
      PROVE  Pinged(s[o], s[Append(o, "lrs")])
    BY <1>1, Zenon DEF Pings
  <2>1. r[o].serve = "lrs"
    BY <1>1
  <2>2. Append(o, "lrs") \in DOMAIN r /\ Pinged(r[o], r[Append(o, "lrs")])
    BY <2>1, Zenon DEF ReqInv, Served, Pings
  <2>3. Same(s[o], r[o]) /\ Same(s[Append(o, "lrs")], r[Append(o, "lrs")])
    BY <1>1, <2>2 DEF Same
  <2> QED
    BY <2>2, <2>3 DEF Same, Pinged
<1> QED
  BY <1>2, <1>3, <1>4, <1>5, Zenon DEF ReqInv, s

\* A message before it is sent.
Fresh(m) ==
    /\ m \in Request /\ m.want = "waiting" /\ m.serve = "inbox"
    /\ m.kind = "relay" => m.inner # "none" /\ m.target \in Node

\* A command makes a call.
LEMMA AddCall ==
    ASSUME NEW r, ReqInv(r), NEW k \in Seq(Part), Len(k) = 3, k \notin DOMAIN r,
           NEW m, Fresh(m)
    PROVE  ReqInv(With(r, k, m))
<1> DEFINE s == With(r, k, m)
<1>1. DOMAIN s = DOMAIN r \cup {k} /\ s[k] = Made(m) /\ \A o \in DOMAIN r : s[o] = r[o]
  BY DEF With
<1>2. /\ Made(m) \in Request /\ Sensible(Made(m))
      /\ Made(m).serve \in {"inbox", "unsent"}
  BY MadeFacts, Zenon DEF Fresh
<1> HIDE DEF s
<1>3. \A o \in DOMAIN r \cup {k} : o \in Seq(Part) /\ Len(o) >= 3
  <2>1. Len(k) >= 3
    OBVIOUS
  <2> QED
    BY <2>1, Zenon DEF ReqInv, Keyed
<1>4. \A o \in Seq(Part), as \in {"lrs", "fwd"} : Len(o) >= 3 => Append(o, as) # k
  <2> SUFFICES ASSUME NEW o \in Seq(Part), NEW as \in {"lrs", "fwd"}, Len(o) >= 3,
                      Append(o, as) = k
      PROVE  FALSE
    BY Zenon
  <2>1. Len(k) = Len(o) + 1
    BY AppendFacts, Zenon
  <2> QED
    BY <2>1
<1>5. Keyed(s)
  <2>1. IsFiniteSet(DOMAIN s)
    BY <1>1, FS_AddElement DEF ReqInv, Keyed
  <2>2. \A o \in Seq(Part), as \in {"lrs", "fwd"} :
          Len(o) >= 3 /\ Append(o, as) \in DOMAIN s => o \in DOMAIN s
    BY <1>1, <1>4, Zenon DEF ReqInv, Keyed
  <2> QED
    BY <1>1, <1>3, <2>1, <2>2, Zenon DEF Keyed
<1>6. Served(s)
  <2>1. ASSUME NEW o \in DOMAIN r
        PROVE  /\ s[o].serve = "inbox" => Append(o, "lrs") \notin DOMAIN s
               /\ s[o].serve \in {"inbox", "lrs"} => Append(o, "fwd") \notin DOMAIN s
               /\ s[o].serve = "lrs" => Append(o, "lrs") \in DOMAIN s
               /\ s[o].serve = "fwd" => Append(o, "fwd") \in DOMAIN s
    <3>1. Append(o, "lrs") # k /\ Append(o, "fwd") # k /\ s[o] = r[o]
      BY <1>1, <1>3, <1>4, Zenon
    <3> QED
      BY <1>1, <3>1, Zenon DEF ReqInv, Served
  <2>2. Append(k, "lrs") \notin DOMAIN s /\ Append(k, "fwd") \notin DOMAIN s
    <3>1. Len(k) >= 3
      OBVIOUS
    <3> QED
      BY <3>1, <1>1, <1>4, Zenon DEF ReqInv, Keyed
  <2>3. s[k].serve # "lrs" /\ s[k].serve # "fwd"
    BY <1>1, <1>2
  <2> QED
    BY <1>1, <2>1, <2>2, <2>3, Zenon DEF Served
<1>7. Requests(s)
  BY <1>1, <1>2, Zenon DEF ReqInv, Requests
<1>8. Pings(s)
  <2> SUFFICES ASSUME NEW o \in DOMAIN s, s[o].serve = "lrs"
      PROVE  Pinged(s[o], s[Append(o, "lrs")])
    BY Zenon DEF Pings
  <2>1. o \in DOMAIN r /\ s[o] = r[o]
    <3>1. o # k
      BY <1>1, <1>2
    <3> QED
      BY <1>1, <3>1, Zenon
  <2>2. Append(o, "lrs") \in DOMAIN r /\ Pinged(r[o], r[Append(o, "lrs")])
    BY <2>1, Zenon DEF ReqInv, Served, Pings
  <2> QED
    BY <1>1, <2>1, <2>2, Zenon
<1> QED
  BY <1>5, <1>6, <1>7, <1>8, Zenon DEF ReqInv, s

\* A handler makes a call and waits for it.
LEMMA AddChild ==
    ASSUME NEW r, ReqInv(r), NEW q \in DOMAIN r, NEW as \in {"lrs", "fwd"},
           r[q].serve = "inbox" \/ (r[q].serve = "lrs" /\ as = "fwd"),
           NEW m, Fresh(m),
           as = "lrs" => Pinged(r[q], m),
           as = "fwd" => r[q].kind # "ping"
    PROVE  /\ ReqInv(With([r EXCEPT ![q].serve = as], Append(q, as), m))
           /\ Append(q, as) \notin DOMAIN r
<1> DEFINE k == Append(q, as)
           t == [r EXCEPT ![q].serve = as]
           s == With(t, k, m)
<1>0. q \in Seq(Part) /\ Len(q) >= 3 /\ r[q] \in Request /\ Sensible(r[q])
  BY Zenon DEF ReqInv, Keyed, Requests
<1>1. k \in Seq(Part) /\ Len(k) = Len(q) + 1 /\ k # q
  BY <1>0, AppendFacts, Zenon
<1>2. k \notin DOMAIN r
  BY Zenon DEF ReqInv, Served
<1> HIDE DEF k
<1>3. DOMAIN t = DOMAIN r /\ t[q] = [r[q] EXCEPT !.serve = as]
      /\ \A o \in DOMAIN r : o # q => t[o] = r[o]
  OBVIOUS
<1> HIDE DEF t
<1>4. /\ DOMAIN s = DOMAIN r \cup {k} /\ s[k] = Made(m) /\ s[q] = [r[q] EXCEPT !.serve = as]
      /\ \A o \in DOMAIN r : o # q => s[o] = r[o]
  BY <1>1, <1>2, <1>3 DEF With
<1> HIDE DEF s
<1>5. /\ s[q] \in Request /\ s[q].serve = as /\ Same(s[q], r[q]) /\ s[q].want = r[q].want
      /\ as = "fwd" => s[q].kind # "ping"
  BY <1>0, <1>4 DEF Request, Same
<1>6. /\ Made(m) \in Request /\ Sensible(Made(m)) /\ Made(m).serve \in {"inbox", "unsent"}
      /\ Made(m).kind = m.kind /\ Made(m).brief = m.brief /\ Made(m).from = m.from
      /\ Made(m).to = m.to
  BY MadeFacts, Zenon DEF Fresh
<1>7. \A o \in Seq(Part), bs \in {"lrs", "fwd"} : Append(o, bs) = k => o = q /\ bs = as
  BY <1>0, AppendFacts, Zenon DEF k
<1>8. Len(k) >= 3
  BY <1>0, <1>1
<1>9. Keyed(s)
  <2>1. IsFiniteSet(DOMAIN s)
    BY <1>4, FS_AddElement DEF ReqInv, Keyed
  <2>2. \A o \in Seq(Part), bs \in {"lrs", "fwd"} :
          Len(o) >= 3 /\ Append(o, bs) \in DOMAIN s => o \in DOMAIN s
    BY <1>4, <1>7, Zenon DEF ReqInv, Keyed
  <2>3. \A o \in DOMAIN s : o \in Seq(Part) /\ Len(o) >= 3
    BY <1>1, <1>4, <1>8, Zenon DEF ReqInv, Keyed
  <2> QED
    BY <2>1, <2>2, <2>3, Zenon DEF Keyed
<1>10. Served(s)
  <2>1. ASSUME NEW o \in DOMAIN r, o # q
        PROVE  /\ s[o].serve = "inbox" => Append(o, "lrs") \notin DOMAIN s
               /\ s[o].serve \in {"inbox", "lrs"} => Append(o, "fwd") \notin DOMAIN s
               /\ s[o].serve = "lrs" => Append(o, "lrs") \in DOMAIN s
               /\ s[o].serve = "fwd" => Append(o, "fwd") \in DOMAIN s
    <3>1. Append(o, "lrs") # k /\ Append(o, "fwd") # k /\ s[o] = r[o]
      BY <1>4, <1>7, <2>1, Zenon DEF ReqInv, Keyed
    <3> QED
      BY <1>4, <3>1, Zenon DEF ReqInv, Served
  <2>2. /\ as = "lrs" => Append(q, "fwd") \notin DOMAIN s
        /\ Append(q, as) \in DOMAIN s
    <3>1. as = "lrs" => Append(q, "fwd") # k
      BY <1>0, <1>7, Zenon
    <3>2. Append(q, "fwd") \notin DOMAIN r
      BY Zenon DEF ReqInv, Served
    <3> QED
      BY <1>4, <3>1, <3>2, Zenon DEF k
  <2>3. Append(k, "lrs") \notin DOMAIN s /\ Append(k, "fwd") \notin DOMAIN s
    <3>1. Append(k, "lrs") # k /\ Append(k, "fwd") # k
      BY <1>1, AppendFacts, Zenon
    <3> QED
      BY <3>1, <1>1, <1>2, <1>4, <1>8, Zenon DEF ReqInv, Keyed
  <2>4. s[k].serve # "lrs" /\ s[k].serve # "fwd"
    BY <1>4, <1>6
  <2>5. s[q].serve # "inbox" /\ (s[q].serve = "lrs" => as = "lrs") /\ (s[q].serve = "fwd" => as = "fwd")
    BY <1>5
  <2> SUFFICES ASSUME NEW o \in DOMAIN s
        PROVE  /\ s[o].serve = "inbox" => Append(o, "lrs") \notin DOMAIN s
               /\ s[o].serve \in {"inbox", "lrs"} => Append(o, "fwd") \notin DOMAIN s
               /\ s[o].serve = "lrs" => Append(o, "lrs") \in DOMAIN s
               /\ s[o].serve = "fwd" => Append(o, "fwd") \in DOMAIN s
    BY Zenon DEF Served
  <2>6. CASE o = k
    BY <2>6, <2>3, <2>4, Zenon
  <2>7. CASE o = q
    BY <2>7, <2>2, <2>5, Zenon
  <2> QED
    BY <1>4, <2>1, <2>6, <2>7, Zenon
<1>11. Requests(s)
  <2>1. Sensible(s[q])
    BY <1>0, <1>5 DEF Sensible, Same
  <2> QED
    BY <1>4, <1>5, <1>6, <2>1, Zenon DEF ReqInv, Requests
<1>12. Pings(s)
  <2> SUFFICES ASSUME NEW o \in DOMAIN s, s[o].serve = "lrs"
      PROVE  Pinged(s[o], s[Append(o, "lrs")])
    BY Zenon DEF Pings
  <2>1. CASE o = q
    <3>1. as = "lrs" /\ Pinged(r[q], m) /\ s[Append(o, "lrs")] = Made(m)
      BY <1>4, <1>5, <2>1, Zenon DEF k
    <3> QED
      BY <1>5, <1>6, <2>1, <3>1 DEF Pinged, Same
  <2>2. CASE o # q
    <3>1. o \in DOMAIN r /\ s[o] = r[o]
      <4>1. o # k
        BY <1>4, <1>6
      <4> QED
        BY <1>4, <2>2, <4>1, Zenon
    <3>2. Append(o, "lrs") \in DOMAIN r /\ Pinged(r[o], r[Append(o, "lrs")])
      BY <3>1, Zenon DEF ReqInv, Served, Pings
    <3>3. Same(s[Append(o, "lrs")], r[Append(o, "lrs")])
      BY <1>4, <1>5, <3>2, Zenon DEF Same
    <3> QED
      BY <3>1, <3>2, <3>3 DEF Pinged, Same
  <2> QED
    BY <2>1, <2>2
<1> QED
  BY <1>2, <1>9, <1>10, <1>11, <1>12, Zenon DEF ReqInv, s, t, k
-----------------------------------------------------------------------------
(* Commands *)

State == [state : {"idle", "queued", "running", "done", "stopped"},
          step : {"none", "ping", "lookup", "direct", "reverse", "retry", "relay"},
          i : Nat, how : {"none", "direct", "reversed", "relayed"}]

\* The step that a command of some kind can be in while it is executed.
Fitting(c, m) ==
    m.state = "running" =>
        /\ KindOf[c] # "shutdown" /\ m.i >= 1
        /\ KindOf[c] = "get" => m.step \in {"direct", "reverse", "retry", "relay"}
        /\ KindOf[c] # "get" => m.step \in {"ping", "lookup"}

Commands(cm) == cm \in [Command -> State] /\ \A c \in Command : Fitting(c, cm[c])

\* A loop awaits a command of its own that is executed and is not a bootstrap.
Loops(cm, lo) ==
    /\ lo \in [Node -> {"ready", "stopped"} \cup Command]
    /\ \A n \in Node : lo[n] \in Command =>
         /\ cm[lo[n]].state = "running" /\ NodeOf[lo[n]] = n
         /\ KindOf[lo[n]] # "bootstrap"

\* The commands in a queue wait there once.
Lines(cm, s, n) ==
    /\ s \in Seq(Command) /\ Len(s) <= QueueSize
    /\ \A i \in 1 .. Len(s) : NodeOf[s[i]] = n /\ cm[s[i]].state = "queued"
    /\ \A i, j \in 1 .. Len(s) : s[i] = s[j] => i = j
Queues(cm, qu) == qu \in [Node -> Seq(Command)] /\ \A n \in Node : Lines(cm, qu[n], n)

CmdInv(cm, qu, lo) == Commands(cm) /\ Loops(cm, lo) /\ Queues(cm, qu)

\* The loops only mind the commands that are executed,
LEMMA LoopsKept ==
    ASSUME NEW cm, NEW dm, NEW lo, Loops(cm, lo),
           \A d \in Command : cm[d].state = "running" => dm[d].state = "running"
    PROVE  Loops(dm, lo)
BY Zenon DEF Loops

\* and a queue only those of its own node that wait.
LEMMA LinesKept ==
    ASSUME NEW cm, NEW dm, NEW s, NEW n, Lines(cm, s, n),
           \A d \in Command : cm[d].state = "queued" => NodeOf[d] # n \/ dm[d].state = "queued"
    PROVE  Lines(dm, s, n)
<1>1. s \in Seq(Command)
  BY DEF Lines
<1>2. \A i \in 1 .. Len(s) : s[i] \in Command
  BY <1>1
<1> QED
  BY <1>2, Zenon DEF Lines

\* A command is sent to a loop, or finds it stopped.
LEMMA CallKeeps ==
    ASSUME CmdInv(cmd, queue, loop), NEW c \in Command, Call(c)
    PROVE  CmdInv(cmd', queue', loop')
<1> DEFINE n == NodeOf[c]
           as(st) == [cmd EXCEPT ![c] = [cmd[c] EXCEPT !.state = st]]
<1>0. n \in Node /\ QueueSize \in Nat
  BY ActorsAssumption
<1>1. cmd[c].state = "idle" /\ loop' = loop /\ cmd[c] \in State
  BY DEF Call, CmdInv, Commands
<1>2. ASSUME NEW st \in {"stopped", "queued"}
      PROVE  /\ Commands(as(st)) /\ Loops(as(st), loop) /\ as(st)[c].state = st
             /\ \A d \in Command : d # c => as(st)[d] = cmd[d]
  <2>1. [cmd[c] EXCEPT !.state = st] \in State /\ [cmd[c] EXCEPT !.state = st].state = st
    BY <1>1 DEF State
  <2>2. Fitting(c, [cmd[c] EXCEPT !.state = st])
    BY <2>1 DEF Fitting
  <2>3. /\ as(st) \in [Command -> State] /\ as(st)[c] = [cmd[c] EXCEPT !.state = st]
        /\ \A d \in Command : d # c => as(st)[d] = cmd[d]
    BY <2>1 DEF CmdInv, Commands
  <2> HIDE DEF as
  <2>4. \A d \in Command : cmd[d].state = "running" => as(st)[d].state = "running"
    BY <1>1, <2>3
  <2>5. Loops(as(st), loop)
    BY <2>4, Zenon DEF Loops, CmdInv
  <2> QED
    BY <2>1, <2>2, <2>3, <2>5, Zenon DEF CmdInv, Commands
<1>3. CASE cmd' = as("stopped") /\ queue' = queue
  <2>1. \A d \in Command : cmd[d].state = "queued" => cmd'[d].state = "queued"
    BY <1>1, <1>2, <1>3
  <2>2. Queues(cmd', queue)
    BY <2>1, LinesKept, Zenon DEF Queues, CmdInv
  <2> QED
    BY <1>1, <1>2, <1>3, <2>2, Zenon DEF CmdInv
<1>4. CASE /\ loop[n] # "stopped" /\ Len(queue[n]) < QueueSize
           /\ cmd' = as("queued") /\ queue' = [queue EXCEPT ![n] = Append(@, c)]
  <2>0. queue[n] \in Seq(Command) /\ Lines(cmd, queue[n], n)
    BY <1>0 DEF CmdInv, Queues
  <2>1. /\ queue' \in [Node -> Seq(Command)] /\ queue'[n] = Append(queue[n], c)
        /\ \A m \in Node : m # n => queue'[m] = queue[m]
    BY <1>0, <1>4, <2>0 DEF CmdInv, Queues
  <2>2. \A d \in Command : cmd[d].state = "queued" => cmd'[d].state = "queued"
    BY <1>1, <1>2, <1>4
  <2>3. \A m \in Node : Lines(cmd', queue[m], m)
    BY <2>2, LinesKept, Zenon DEF Queues, CmdInv
  <2>4. Lines(cmd', Append(queue[n], c), n)
    <3> DEFINE s == queue[n]
               t == Append(queue[n], c)
    <3>1. /\ t \in Seq(Command) /\ Len(t) = Len(s) + 1 /\ t[Len(s) + 1] = c /\ Len(s) \in Nat
          /\ \A i \in 1 .. Len(s) : t[i] = s[i] /\ s[i] \in Command
      BY <2>0
    <3>2. \A i \in 1 .. Len(s) : s[i] # c
      BY <1>1, <2>0 DEF Lines
    <3>3. cmd'[c].state = "queued" /\ Lines(cmd', s, n) /\ Len(s) < QueueSize
      BY <1>2, <1>4, <2>3, <1>0
    <3> HIDE DEF s, t
    <3> QED
      BY <1>0, <3>1, <3>2, <3>3 DEF Lines, n, t
  <2>5. Queues(cmd', queue')
    BY <2>1, <2>3, <2>4, Zenon DEF Queues
  <2> QED
    BY <1>1, <1>2, <1>4, <2>5, Zenon DEF CmdInv
<1> QED
  BY <1>3, <1>4 DEF Call

\* What is left of a queue.
LEMMA TakeFacts ==
    ASSUME CmdInv(cmd, queue, loop), NEW n \in Node, queue[n] # <<>>
    PROVE  /\ Head(queue[n]) \in Command /\ NodeOf[Head(queue[n])] = n
           /\ cmd[Head(queue[n])].state = "queued" /\ Head(queue[n]) = queue[n][1]
           /\ Len(queue[n]) >= 1 /\ Tail(queue[n]) \in Seq(Command)
           /\ Len(Tail(queue[n])) = Len(queue[n]) - 1
           /\ \A i \in 1 .. Len(Tail(queue[n])) :
                Tail(queue[n])[i] = queue[n][i + 1] /\ Tail(queue[n])[i] # Head(queue[n])
<1>1. queue[n] \in Seq(Command) /\ Lines(cmd, queue[n], n)
  BY DEF CmdInv, Queues
<1>2. Len(queue[n]) \in Nat /\ Len(queue[n]) >= 1 /\ Head(queue[n]) = queue[n][1]
  BY <1>1
<1>3. Tail(queue[n]) \in Seq(Command) /\ Len(Tail(queue[n])) = Len(queue[n]) - 1
      /\ \A i \in 1 .. Len(Tail(queue[n])) : Tail(queue[n])[i] = queue[n][i + 1]
  BY <1>1, <1>2
<1>4. 1 \in 1 .. Len(queue[n]) /\ queue[n][1] \in Command
  BY <1>1, <1>2
<1>5. \A i \in 1 .. Len(Tail(queue[n])) : queue[n][i + 1] # queue[n][1]
  <2> SUFFICES ASSUME NEW i \in 1 .. Len(Tail(queue[n])), queue[n][i + 1] = queue[n][1]
      PROVE  FALSE
    OBVIOUS
  <2>1. i + 1 \in 1 .. Len(queue[n])
    BY <1>2, <1>3
  <2> QED
    BY <2>1, <1>1, <1>4 DEF Lines
<1> QED
  BY <1>1, <1>2, <1>3, <1>4, <1>5 DEF Lines

\* The loop takes the first command of its queue, which is nowhere else in it.
LEMMA TakeKeeps ==
    ASSUME CmdInv(cmd, queue, loop), NEW n \in Node, Take(n)
    PROVE  CmdInv(cmd', queue', loop')
<1> DEFINE c == Head(queue[n])
<1>1. /\ loop[n] = "ready" /\ queue[n] # <<>> /\ KindOf[c] # "shutdown"
      /\ queue' = [queue EXCEPT ![n] = Tail(@)]
      /\ loop' = [loop EXCEPT ![n] = IF Spawned(c) THEN @ ELSE c]
      /\ cmd' = [cmd EXCEPT ![c].state = "running", ![c].step = FirstStep(c), ![c].i = 1]
  BY Zenon DEF Take
<1>2. /\ c \in Command /\ NodeOf[c] = n /\ cmd[c].state = "queued" /\ c = queue[n][1]
      /\ Len(queue[n]) >= 1 /\ Tail(queue[n]) \in Seq(Command)
      /\ Len(Tail(queue[n])) = Len(queue[n]) - 1
      /\ \A i \in 1 .. Len(Tail(queue[n])) :
           Tail(queue[n])[i] = queue[n][i + 1] /\ Tail(queue[n])[i] # c
  BY <1>1, TakeFacts, Zenon
<1> HIDE DEF c
<1>3. /\ FirstStep(c) \in {"ping", "lookup", "direct"}
      /\ KindOf[c] = "get" => FirstStep(c) = "direct"
      /\ KindOf[c] # "get" => FirstStep(c) \in {"ping", "lookup"}
  BY <1>1, <1>2, ActorsAssumption DEF FirstStep
<1>4. /\ cmd' \in [Command -> State] /\ cmd'[c].state = "running"
      /\ cmd'[c].step = FirstStep(c) /\ cmd'[c].i = 1
      /\ \A d \in Command : d # c => cmd'[d] = cmd[d]
  <2>1. cmd \in [Command -> State]
    BY DEF CmdInv, Commands
  <2> HIDE DEF CmdInv
  <2> DEFINE s1 == [cmd EXCEPT ![c].state = "running"]
             s2 == [s1 EXCEPT ![c].step = FirstStep(c)]
             s3 == [s2 EXCEPT ![c].i = 1]
  <2>2. /\ s1 \in [Command -> State] /\ s1[c].state = "running"
        /\ \A d \in Command : d # c => s1[d] = cmd[d]
    BY <1>2, <2>1 DEF State
  <2> HIDE DEF s1
  <2>3. /\ s2 \in [Command -> State] /\ s2[c].state = "running" /\ s2[c].step = FirstStep(c)
        /\ \A d \in Command : d # c => s2[d] = s1[d]
    BY <1>2, <1>3, <2>2 DEF State
  <2> HIDE DEF s2
  <2>4. /\ s3 \in [Command -> State] /\ s3[c].state = "running" /\ s3[c].step = FirstStep(c)
        /\ s3[c].i = 1 /\ \A d \in Command : d # c => s3[d] = s2[d]
    BY <1>2, <1>3, <2>3 DEF State
  <2>5. cmd' = s3
    BY <1>1 DEF s1, s2
  <2> HIDE DEF s3
  <2> QED
    BY <2>2, <2>3, <2>4, <2>5, Zenon
<1>5. Commands(cmd')
  <2>1. Fitting(c, cmd'[c])
    BY <1>1, <1>3, <1>4 DEF Fitting
  <2> QED
    BY <1>4, <2>1, Zenon DEF Commands, CmdInv
<1>6. Loops(cmd', loop')
  <2>1. Loops(cmd', loop)
    <3>1. \A d \in Command : cmd[d].state = "running" => cmd'[d].state = "running"
      BY <1>4
    <3> QED
      BY <3>1, Zenon DEF Loops, CmdInv
  <2>2. CASE Spawned(c)
    <3>1. loop' = loop
      BY <1>1, <2>1, <2>2 DEF Loops
    <3> QED
      BY <2>1, <3>1, Zenon
  <2>3. CASE ~Spawned(c)
    <3>1. /\ loop' \in [Node -> {"ready", "stopped"} \cup Command] /\ loop'[n] = c
          /\ \A m \in Node : m # n => loop'[m] = loop[m]
      BY <1>1, <1>2, <2>1, <2>3 DEF Loops
    <3>2. KindOf[c] # "bootstrap"
      BY <2>3 DEF Spawned
    <3> QED
      <4>1. ASSUME NEW m \in Node, loop'[m] \in Command
            PROVE  /\ cmd'[loop'[m]].state = "running" /\ NodeOf[loop'[m]] = m
                   /\ KindOf[loop'[m]] # "bootstrap"
        <5>1. CASE m = n
          BY <5>1, <1>2, <1>4, <3>1, <3>2
        <5>2. CASE m # n
          BY <5>2, <4>1, <2>1, <3>1 DEF Loops
        <5> QED
          BY <5>1, <5>2
      <4> QED
        BY <3>1, <4>1, Zenon DEF Loops
  <2> QED
    BY <2>2, <2>3
<1>7. Queues(cmd', queue')
  <2>1. /\ queue \in [Node -> Seq(Command)] /\ \A m \in Node : Lines(cmd, queue[m], m)
    BY DEF CmdInv, Queues
  <2>2. /\ queue' \in [Node -> Seq(Command)] /\ queue'[n] = Tail(queue[n])
        /\ \A m \in Node : m # n => queue'[m] = queue[m]
    BY <1>1, <1>2, <2>1
  <2>3. \A m \in Node : m # n => Lines(cmd', queue[m], m)
    <3> SUFFICES ASSUME NEW m \in Node, m # n
        PROVE  Lines(cmd', queue[m], m)
      BY Zenon
    <3>1. \A d \in Command : cmd[d].state = "queued" => NodeOf[d] # m \/ cmd'[d].state = "queued"
      BY <1>2, <1>4
    <3> QED
      BY <2>1, <3>1, LinesKept, Zenon
  <2>4. Lines(cmd', Tail(queue[n]), n)
    <3> DEFINE s == queue[n]
               t == Tail(queue[n])
    <3>1. s \in Seq(Command) /\ Lines(cmd, s, n) /\ Len(s) \in Nat
      BY <2>1
    <3>2. /\ t \in Seq(Command) /\ Len(t) = Len(s) - 1 /\ Len(s) >= 1
          /\ \A i \in 1 .. Len(t) : t[i] = s[i + 1] /\ t[i] # c
      BY <1>2
    <3> HIDE DEF s, t
    <3>3. \A i \in 1 .. Len(t) : i + 1 \in 1 .. Len(s) /\ s[i + 1] \in Command
      BY <3>1, <3>2
    <3>4. \A i \in 1 .. Len(t) : NodeOf[t[i]] = n /\ cmd'[t[i]].state = "queued"
      BY <1>4, <3>1, <3>2, <3>3 DEF Lines
    <3>5. \A i, j \in 1 .. Len(t) : t[i] = t[j] => i = j
      <4> SUFFICES ASSUME NEW i \in 1 .. Len(t), NEW j \in 1 .. Len(t), t[i] = t[j]
          PROVE  i = j
        OBVIOUS
      <4>1. s[i + 1] = s[j + 1]
        BY <3>2
      <4>2. i + 1 = j + 1
        BY <4>1, <3>1, <3>3 DEF Lines
      <4> QED
        BY <4>2
    <3>6. Len(t) <= QueueSize
      BY <3>1, <3>2, ActorsAssumption DEF Lines
    <3> QED
      BY <3>2, <3>4, <3>5, <3>6 DEF Lines, t
  <2> QED
    BY <2>2, <2>3, <2>4, Zenon DEF Queues
<1> QED
  BY <1>5, <1>6, <1>7, Zenon DEF CmdInv

\* Nothing is left in a queue, nor waits for a loop, when the loop has stopped.
LEMMA TakeShutdownKeeps ==
    ASSUME CmdInv(cmd, queue, loop), NEW n \in Node, TakeShutdown(n)
    PROVE  CmdInv(cmd', queue', loop')
<1> DEFINE c == Head(queue[n])
<1>1. /\ loop[n] = "ready" /\ queue[n] # <<>> /\ KindOf[c] = "shutdown"
      /\ queue' = [queue EXCEPT ![n] = <<>>]
      /\ loop' = [loop EXCEPT ![n] = "stopped"]
      /\ cmd' = [d \in Command |->
                   IF d = c THEN [cmd[d] EXCEPT !.state = "done"]
                   ELSE IF d \in Released(n) THEN [cmd[d] EXCEPT !.state = "stopped"]
                   ELSE cmd[d]]
  BY Zenon DEF TakeShutdown
<1>2. c \in Command /\ NodeOf[c] = n /\ cmd[c].state = "queued"
  BY <1>1, TakeFacts, Zenon
<1>3. /\ queue \in [Node -> Seq(Command)] /\ \A m \in Node : Lines(cmd, queue[m], m)
      /\ cmd \in [Command -> State] /\ \A d \in Command : Fitting(d, cmd[d])
  BY DEF CmdInv, Queues, Commands
<1>4. \A d \in Released(n) : d \in Command /\ cmd[d].state = "queued" /\ NodeOf[d] = n
  <2> SUFFICES ASSUME NEW i \in 2 .. Len(queue[n])
      PROVE  /\ queue[n][i] \in Command /\ cmd[queue[n][i]].state = "queued"
             /\ NodeOf[queue[n][i]] = n
    BY DEF Released
  <2>1. i \in 1 .. Len(queue[n]) /\ queue[n][i] \in Command
    BY <1>3
  <2> QED
    BY <1>3, <2>1 DEF Lines
<1> HIDE DEF c
<1>5. \A d \in Command :
        /\ cmd'[d] \in State /\ Fitting(d, cmd'[d])
        /\ NodeOf[d] # n \/ cmd[d].state # "queued" => cmd'[d] = cmd[d]
  <2> SUFFICES ASSUME NEW d \in Command
      PROVE  /\ cmd'[d] \in State /\ Fitting(d, cmd'[d])
             /\ NodeOf[d] # n \/ cmd[d].state # "queued" => cmd'[d] = cmd[d]
    BY Zenon
  <2>0. cmd[d] \in State
    BY <1>3
  <2>1. CASE d = c
    <3>1. cmd'[d] = [cmd[d] EXCEPT !.state = "done"]
      BY <1>1, <2>1
    <3>2. cmd'[d] \in State /\ cmd'[d].state = "done"
      BY <3>1, <2>0 DEF State
    <3> QED
      BY <3>2, <1>2, <2>1 DEF Fitting
  <2>2. CASE d # c /\ d \in Released(n)
    <3>1. cmd'[d] = [cmd[d] EXCEPT !.state = "stopped"]
      BY <1>1, <2>2
    <3>2. cmd'[d] \in State /\ cmd'[d].state = "stopped"
      BY <3>1, <2>0 DEF State
    <3> QED
      BY <3>2, <1>4, <2>2 DEF Fitting
  <2>3. CASE d # c /\ d \notin Released(n)
    <3>1. cmd'[d] = cmd[d]
      BY <1>1, <2>3
    <3> QED
      BY <3>1, <1>3
  <2> QED
    BY <2>1, <2>2, <2>3
<1>6. Commands(cmd')
  <2>1. cmd' \in [Command -> State]
    <3>1. /\ cmd' = [d \in Command |-> cmd'[d]] 
      BY <1>1
    <3> QED
      BY <3>1, <1>5
  <2> QED
    BY <1>5, <2>1, Zenon DEF Commands
<1>7. Loops(cmd', loop')
  <2>1. Loops(cmd', loop)
    <3>1. \A d \in Command : cmd[d].state = "running" => cmd'[d].state = "running"
      BY <1>5
    <3> QED
      BY <3>1, Zenon DEF Loops, CmdInv
  <2>2. /\ loop' \in [Node -> {"ready", "stopped"} \cup Command] /\ loop'[n] = "stopped"
        /\ \A m \in Node : m # n => loop'[m] = loop[m]
    BY <1>1, <2>1 DEF Loops
  <2>3. "stopped" \notin Command
    BY ActorsAssumption
  <2>4. ASSUME NEW m \in Node, loop'[m] \in Command
        PROVE  /\ cmd'[loop'[m]].state = "running" /\ NodeOf[loop'[m]] = m
               /\ KindOf[loop'[m]] # "bootstrap"
    <3>1. m # n
      BY <2>2, <2>3, <2>4
    <3> QED
      BY <3>1, <2>4, <2>1, <2>2 DEF Loops
  <2> QED
    BY <2>2, <2>4, Zenon DEF Loops
<1>8. Queues(cmd', queue')
  <2>1. /\ queue' \in [Node -> Seq(Command)] /\ queue'[n] = <<>>
        /\ \A m \in Node : m # n => queue'[m] = queue[m]
    BY <1>1, <1>3
  <2>2. \A m \in Node : m # n => Lines(cmd', queue[m], m)
    <3> SUFFICES ASSUME NEW m \in Node, m # n
        PROVE  Lines(cmd', queue[m], m)
      BY Zenon
    <3>1. \A d \in Command : cmd[d].state = "queued" => NodeOf[d] # m \/ cmd'[d].state = "queued"
      BY <1>5
    <3> QED
      BY <1>3, <3>1, LinesKept, Zenon
  <2>3. Lines(cmd', <<>>, n)
    BY ActorsAssumption DEF Lines
  <2> QED
    BY <2>1, <2>2, <2>3, Zenon DEF Queues
<1> QED
  BY <1>6, <1>7, <1>8, Zenon DEF CmdInv
\* A command goes on to its next step.
LEMMA GotoKeeps ==
    ASSUME CmdInv(cmd, queue, loop), NEW c \in Command, cmd[c].state = "running",
           NEW step \in {"ping", "lookup", "direct", "reverse", "retry", "relay"},
           NEW i \in Nat, i >= 1, Goto(c, step, i), queue' = queue,
           KindOf[c] = "get" => step \in {"direct", "reverse", "retry", "relay"},
           KindOf[c] # "get" => step \in {"ping", "lookup"}
    PROVE  /\ CmdInv(cmd', queue', loop') /\ loop' = loop
           /\ cmd'[c].state = "running" /\ cmd'[c].step = step /\ cmd'[c].i = i
           /\ cmd'[c].how = cmd[c].how
           /\ \A d \in Command : d # c => cmd'[d] = cmd[d]
<1>0. cmd \in [Command -> State] /\ Fitting(c, cmd[c])
  BY DEF CmdInv, Commands
<1> DEFINE s1 == [cmd EXCEPT ![c].step = step]
           s2 == [s1 EXCEPT ![c].i = i]
<1>1. /\ s1 \in [Command -> State] /\ s1[c].state = "running" /\ s1[c].step = step
      /\ s1[c].how = cmd[c].how /\ \A d \in Command : d # c => s1[d] = cmd[d]
  BY <1>0 DEF State
<1> HIDE DEF s1
<1>2. /\ s2 \in [Command -> State] /\ s2[c].state = "running" /\ s2[c].step = step
      /\ s2[c].how = cmd[c].how /\ s2[c].i = i /\ \A d \in Command : d # c => s2[d] = s1[d]
  BY <1>1 DEF State
<1>3. cmd' = s2 /\ loop' = loop
  BY DEF Goto, s1
<1> HIDE DEF s2
<1>4. /\ cmd' \in [Command -> State] /\ cmd'[c].state = "running" /\ cmd'[c].step = step
      /\ cmd'[c].i = i /\ cmd'[c].how = cmd[c].how
      /\ \A d \in Command : d # c => cmd'[d] = cmd[d]
  BY <1>1, <1>2, <1>3, Zenon
<1>5. Commands(cmd')
  <2>1. Fitting(c, cmd'[c])
    BY <1>0, <1>4 DEF Fitting
  <2> QED
    BY <1>4, <2>1, Zenon DEF Commands, CmdInv
<1>6. \A d \in Command : /\ cmd[d].state = "running" => cmd'[d].state = "running"
                         /\ cmd[d].state = "queued" => cmd'[d].state = "queued"
  BY <1>4
<1>7. Loops(cmd', loop')
  BY <1>3, <1>6, Zenon DEF Loops, CmdInv
<1>8. Queues(cmd', queue')
  BY <1>6, LinesKept, Zenon DEF Queues, CmdInv
<1> QED
  BY <1>3, <1>4, <1>5, <1>7, <1>8, Zenon DEF CmdInv

\* A command ends, and its loop is ready again.
LEMMA ReplyKeeps ==
    ASSUME CmdInv(cmd, queue, loop), NEW c \in Command, cmd[c].state = "running",
           NEW how \in {"none", "direct", "reversed", "relayed"},
           Reply(c, how), queue' = queue
    PROVE  /\ CmdInv(cmd', queue', loop')
           /\ \A n \in Node : loop[n] # c => loop'[n] = loop[n]
           /\ \A n \in Node : loop[n] = c => loop'[n] = "ready"
           /\ cmd'[c].state = "done" /\ cmd'[c].how = how
           /\ \A d \in Command : d # c => cmd'[d] = cmd[d]
<1>0. /\ cmd \in [Command -> State] /\ Loops(cmd, loop) /\ NodeOf[c] \in Node
      /\ "ready" \notin Command
  BY ActorsAssumption DEF CmdInv, Commands
<1> DEFINE s1 == [cmd EXCEPT ![c].state = "done"]
           s2 == [s1 EXCEPT ![c].how = how]
           n == NodeOf[c]
<1>1. /\ s1 \in [Command -> State] /\ s1[c].state = "done"
      /\ \A d \in Command : d # c => s1[d] = cmd[d]
  BY <1>0 DEF State
<1> HIDE DEF s1
<1>2. /\ s2 \in [Command -> State] /\ s2[c].state = "done" /\ s2[c].how = how
      /\ \A d \in Command : d # c => s2[d] = s1[d]
  BY <1>1 DEF State
<1>3. cmd' = s2 /\ loop' = IF loop[n] = c THEN [loop EXCEPT ![n] = "ready"] ELSE loop
  BY DEF Reply, s1
<1> HIDE DEF s2
<1>4. /\ cmd' \in [Command -> State] /\ cmd'[c].state = "done" /\ cmd'[c].how = how
      /\ \A d \in Command : d # c => cmd'[d] = cmd[d]
  BY <1>1, <1>2, <1>3, Zenon
<1>5. Commands(cmd')
  <2>1. Fitting(c, cmd'[c])
    BY <1>4 DEF Fitting
  <2> QED
    BY <1>4, <2>1, Zenon DEF Commands, CmdInv
<1>6. \A m \in Node : loop[m] = c => m = n
  BY <1>0 DEF Loops
<1>7. /\ loop' \in [Node -> {"ready", "stopped"} \cup Command]
      /\ \A m \in Node : loop[m] # c => loop'[m] = loop[m]
      /\ \A m \in Node : loop[m] = c => loop'[m] = "ready"
  <2>1. CASE loop[n] = c
    <3>1. loop' = [loop EXCEPT ![n] = "ready"]
      BY <1>3, <2>1
    <3> QED
      BY <1>0, <1>6, <2>1, <3>1 DEF Loops
  <2>2. CASE loop[n] # c
    <3>1. loop' = loop
      BY <1>3, <2>2
    <3> QED
      BY <1>0, <1>6, <2>2, <3>1 DEF Loops
  <2> QED
    BY <2>1, <2>2
<1>8. Loops(cmd', loop')
  <2>1. ASSUME NEW m \in Node, loop'[m] \in Command
        PROVE  /\ cmd'[loop'[m]].state = "running" /\ NodeOf[loop'[m]] = m
               /\ KindOf[loop'[m]] # "bootstrap"
    <3>1. loop[m] # c /\ loop'[m] = loop[m]
      BY <1>0, <1>7, <2>1
    <3> QED
      BY <1>0, <1>4, <2>1, <3>1 DEF Loops
  <2> QED
    BY <1>7, <2>1, Zenon DEF Loops
<1>9. Queues(cmd', queue')
  <2>1. \A d \in Command : cmd[d].state = "queued" => cmd'[d].state = "queued"
    BY <1>4
  <2> QED
    BY <2>1, LinesKept, Zenon DEF Queues, CmdInv
<1> QED
  BY <1>4, <1>5, <1>7, <1>8, <1>9, Zenon DEF CmdInv

\* Which commands a step of a loop or of a caller touches.
LEMMA TakeCommand ==
    ASSUME CmdInv(cmd, queue, loop), NEW n \in Node, Take(n), NEW d \in Command
    PROVE  \/ cmd'[d] = cmd[d]
           \/ /\ cmd[d].state = "queued"
              /\ cmd'[d].state = "running" /\ cmd'[d].step = FirstStep(d)
<1> DEFINE c == Head(queue[n])
<1>1. /\ queue[n] # <<>>
      /\ cmd' = [cmd EXCEPT ![c].state = "running", ![c].step = FirstStep(c), ![c].i = 1]
  BY Zenon DEF Take
<1>2. c \in Command /\ cmd[c].state = "queued"
  BY <1>1, TakeFacts, Zenon
<1> HIDE DEF c
<1>3. cmd \in [Command -> State]
  BY DEF CmdInv, Commands
<1> DEFINE st == FirstStep(c)
           s1 == [cmd EXCEPT ![c].state = "running"]
           s2 == [s1 EXCEPT ![c].step = st]
           s3 == [s2 EXCEPT ![c].i = 1]
<1>5. cmd' = s3
  BY <1>1
<1> HIDE DEF st
<1>6. /\ DOMAIN s1 = Command /\ s1[c].state = "running" /\ DOMAIN s1[c] = DOMAIN cmd[c]
      /\ \A e \in Command : e # c => s1[e] = cmd[e]
  BY <1>2, <1>3 DEF State
<1>7. DOMAIN cmd[c] = {"state", "step", "i", "how"}
  BY <1>2, <1>3 DEF State
<1> HIDE DEF s1
<1>8. /\ DOMAIN s2 = Command /\ s2[c].state = "running" /\ s2[c].step = st
      /\ DOMAIN s2[c] = DOMAIN s1[c] /\ \A e \in Command : e # c => s2[e] = s1[e]
  BY <1>2, <1>6, <1>7
<1> HIDE DEF s2
<1>9. /\ s3[c].state = "running" /\ s3[c].step = st
      /\ \A e \in Command : e # c => s3[e] = s2[e]
  BY <1>2, <1>6, <1>7, <1>8
<1> HIDE DEF s3
<1>10. CASE d = c
  BY <1>2, <1>5, <1>9, <1>10 DEF st
<1>11. CASE d # c
  BY <1>5, <1>6, <1>8, <1>9, <1>11
<1> QED
  BY <1>10, <1>11

LEMMA ShutdownCommand ==
    ASSUME CmdInv(cmd, queue, loop), NEW n \in Node, TakeShutdown(n), NEW d \in Command
    PROVE  \/ cmd'[d] = cmd[d]
           \/ /\ cmd[d].state = "queued"
              /\ \/ cmd'[d].state = "stopped"
                 \/ cmd'[d].state = "done" /\ KindOf[d] = "shutdown"
<1> DEFINE c == Head(queue[n])
<1>1. /\ KindOf[c] = "shutdown" /\ queue[n] # <<>>
      /\ cmd' = [e \in Command |->
                   IF e = c THEN [cmd[e] EXCEPT !.state = "done"]
                   ELSE IF e \in Released(n) THEN [cmd[e] EXCEPT !.state = "stopped"]
                   ELSE cmd[e]]
  BY Zenon DEF TakeShutdown
<1>2. c \in Command /\ cmd[c].state = "queued"
  BY <1>1, TakeFacts, Zenon
<1> HIDE DEF c
<1>3. cmd[d] \in State
  BY DEF CmdInv, Commands
<1>4. d \in Released(n) => cmd[d].state = "queued"
  <2> SUFFICES ASSUME NEW i \in 2 .. Len(queue[n]), d = queue[n][i]
      PROVE  cmd[d].state = "queued"
    BY DEF Released
  <2>1. queue[n] \in Seq(Command) /\ Lines(cmd, queue[n], n)
    BY DEF CmdInv, Queues
  <2>2. i \in 1 .. Len(queue[n])
    BY <2>1
  <2> QED
    BY <2>1, <2>2 DEF Lines
<1> QED
  BY <1>1, <1>2, <1>3, <1>4 DEF State

LEMMA CallCommand ==
    ASSUME CmdInv(cmd, queue, loop), NEW c \in Command, Call(c), NEW d \in Command
    PROVE  \/ cmd'[d] = cmd[d]
           \/ cmd[d].state = "idle" /\ cmd'[d].state \in {"queued", "stopped"}
BY DEF Call, CmdInv, Commands, State

\* What a command that goes on leaves alone.
Advanced(c) ==
    /\ CmdInv(cmd', queue', loop')
    /\ cmd[c].state = "running" /\ (Tried(c) \/ Skipped(c) \/ Current(c) \notin Waiting)
    /\ \A n \in Node : loop[n] # c => loop'[n] = loop[n]
    /\ \A d \in Command : d # c => cmd'[d] = cmd[d]
    /\ UNCHANGED <<queue, req, link, lrs, losses, absent>>

\* A command that makes its next step, or ends, is only what it was allowed to be.
LEMMA GotoAdvances ==
    ASSUME CmdInv(cmd, queue, loop), NEW c \in Command, cmd[c].state = "running",
           NEW step \in {"ping", "lookup", "direct", "reverse", "retry", "relay"},
           NEW i \in Nat, i >= 1, Goto(c, step, i),
           KindOf[c] = "get" => step \in {"direct", "reverse", "retry", "relay"},
           KindOf[c] # "get" => step \in {"ping", "lookup"},
           Tried(c) \/ Skipped(c) \/ Current(c) \notin Waiting,
           UNCHANGED <<queue, req, link, lrs, losses, absent>>
    PROVE  Advanced(c)
<1>1. queue' = queue
  OBVIOUS
<1>2. /\ CmdInv(cmd', queue', loop') /\ loop' = loop
      /\ \A d \in Command : d # c => cmd'[d] = cmd[d]
  BY <1>1, GotoKeeps, Zenon
<1> QED
  BY <1>2, Zenon DEF Advanced

LEMMA ReplyAdvances ==
    ASSUME CmdInv(cmd, queue, loop), NEW c \in Command, cmd[c].state = "running",
           NEW how \in {"none", "direct", "reversed", "relayed"}, Reply(c, how),
           Tried(c) \/ Skipped(c) \/ Current(c) \notin Waiting,
           UNCHANGED <<queue, req, link, lrs, losses, absent>>
    PROVE  Advanced(c)
<1>1. queue' = queue
  OBVIOUS
<1>2. /\ CmdInv(cmd', queue', loop') /\ \A n \in Node : loop[n] # c => loop'[n] = loop[n]
      /\ \A d \in Command : d # c => cmd'[d] = cmd[d]
  BY <1>1, ReplyKeeps, Zenon
<1> QED
  BY <1>2, Zenon DEF Advanced

LEMMA ProceedAdvances ==
    ASSUME CmdInv(cmd, queue, loop), NEW c \in Command, Proceed(c)
    PROVE  Advanced(c)
<1>1. /\ cmd[c].state = "running" /\ cmd[c].step \in {"ping", "lookup"}
      /\ Current(c) \notin Waiting
      /\ UNCHANGED <<queue, req, link, lrs, losses, absent>>
      /\ Goto(c, "lookup", 1) \/ Reply(c, "none")
  BY DEF Proceed
<1>2. Fitting(c, cmd[c])
  BY DEF CmdInv, Commands
<1>3. KindOf[c] # "get"
  BY <1>1, <1>2 DEF Fitting
<1>4. CASE Goto(c, "lookup", 1)
  <2>1. 1 \in Nat /\ 1 >= 1 /\ "lookup" \in {"ping", "lookup"}
        /\ "lookup" \in {"ping", "lookup", "direct", "reverse", "retry", "relay"}
    OBVIOUS
  <2> QED
    BY <1>1, <1>3, <1>4, <2>1, GotoAdvances, Zenon
<1>5. CASE Reply(c, "none")
  <2>1. "none" \in {"none", "direct", "reversed", "relayed"}
    OBVIOUS
  <2> QED
    BY <1>1, <1>5, <2>1, ReplyAdvances, Zenon
<1> QED
  BY <1>1, <1>4, <1>5

\* What Traverse comes to: the next step, or the end.
LEMMA TraverseCases ==
    ASSUME NEW c \in Command, NEW ok \in BOOLEAN, Traverse(c, ok),
           cmd[c].step \in {"direct", "reverse", "retry", "relay"}
    PROVE  \/ cmd[c].step = "direct" /\ ok /\ Reply(c, "direct")
           \/ cmd[c].step = "direct" /\ ~ok /\ Goto(c, "reverse", 1)
           \/ cmd[c].step = "retry" /\ ok /\ Reply(c, "reversed")
           \/ cmd[c].step = "retry" /\ ~ok /\ Goto(c, "relay", 1)
           \/ cmd[c].step = "reverse" /\ Tried(c) /\ Goto(c, "relay", 1)
           \/ cmd[c].step = "reverse" /\ ~Tried(c) /\ ok /\ Goto(c, "retry", 1)
           \/ cmd[c].step = "reverse" /\ ~Tried(c) /\ ~ok /\ Goto(c, "reverse", cmd[c].i + 1)
           \/ cmd[c].step = "relay" /\ Tried(c) /\ Reply(c, "none")
           \/ cmd[c].step = "relay" /\ ~Tried(c) /\ ok /\ Reply(c, "relayed")
           \/ cmd[c].step = "relay" /\ ~Tried(c) /\ ~ok /\ Goto(c, "relay", cmd[c].i + 1)
<1>1. CASE cmd[c].step = "direct"
  BY <1>1 DEF Traverse
<1>2. CASE cmd[c].step = "retry"
  BY <1>2 DEF Traverse
<1>3. CASE cmd[c].step = "reverse"
  BY <1>3 DEF Traverse
<1>4. CASE cmd[c].step = "relay"
  BY <1>4 DEF Traverse
<1> QED
  BY <1>1, <1>2, <1>3, <1>4

LEMMA TraverseAdvances ==
    ASSUME CmdInv(cmd, queue, loop), NEW c \in Command, SendWithNatTraversal(c)
    PROVE  Advanced(c)
<1> DEFINE none == Tried(c) \/ Skipped(c)
           ok == ~none /\ req[Current(c)].want = "ok"
<1>1. /\ cmd[c].state = "running" /\ cmd[c].step \in {"direct", "reverse", "retry", "relay"}
      /\ Tried(c) \/ Skipped(c) \/ Current(c) \notin Waiting
      /\ UNCHANGED <<queue, req, link, lrs, losses, absent>>
      /\ Traverse(c, ok) /\ ok \in BOOLEAN
  BY DEF SendWithNatTraversal
<1>2. Fitting(c, cmd[c]) /\ cmd[c] \in State
  BY DEF CmdInv, Commands
<1>3. KindOf[c] = "get" /\ cmd[c].i + 1 \in Nat /\ cmd[c].i + 1 >= 1 /\ 1 \in Nat /\ 1 >= 1
  BY <1>1, <1>2 DEF Fitting, State
<1> HIDE DEF ok
<1>4. \/ \E how \in {"none", "direct", "reversed", "relayed"} : Reply(c, how)
      \/ \E step \in {"direct", "reverse", "retry", "relay"}, i \in Nat :
           i >= 1 /\ Goto(c, step, i)
  BY <1>1, <1>3, TraverseCases
<1>5. ASSUME NEW how \in {"none", "direct", "reversed", "relayed"}, Reply(c, how)
      PROVE  Advanced(c)
  BY <1>1, <1>5, ReplyAdvances, Zenon
<1>6. ASSUME NEW step \in {"direct", "reverse", "retry", "relay"}, NEW i \in Nat, i >= 1,
             Goto(c, step, i)
      PROVE  Advanced(c)
  <2>1. step \in {"ping", "lookup", "direct", "reverse", "retry", "relay"}
    BY Zenon
  <2> QED
    BY <1>1, <1>3, <1>6, <2>1, GotoAdvances, Zenon
<1> QED
  BY <1>4, <1>5, <1>6, Zenon
-----------------------------------------------------------------------------
(* Handlers *)

\* An answer changes what the caller waits for only if it still waits.
LEMMA AnsweredFacts ==
    ASSUME ReqInv(req), NEW q \in DOMAIN req, NEW ok \in BOOLEAN,
           req[q].kind = "ping" => ok
    PROVE  LET m == Answered(q, ok) IN
           /\ m \in Request /\ Sensible(m) /\ Same(m, req[q]) /\ m.serve = "done"
           /\ req[q].want # "waiting" => m.want = req[q].want
           /\ req[q].want = "waiting" => m.want = IF ok THEN "ok" ELSE "no"
<1> DEFINE w == IF req[q].want # "waiting" THEN req[q].want ELSE IF ok THEN "ok" ELSE "no"
           m == Answered(q, ok)
           f == [req[q] EXCEPT !.serve = "done"]
           g == [f EXCEPT !.want = w]
<1>0. req[q] \in Request /\ Sensible(req[q])
  BY Zenon DEF ReqInv, Requests
<1>1. w \in {"waiting", "ok", "no", "failed"} /\ w # "waiting"
      /\ (req[q].kind = "ping" => w # "no")
  BY <1>0 DEF Request, Sensible
<1>2. f \in Request /\ f.serve = "done" /\ Same(f, req[q]) /\ f.want = req[q].want
  BY <1>0 DEF Request, Same
<1>3. m = g
  BY <1>0, <1>2 DEF Answered, Request
<1> HIDE DEF f, m
<1>4. w = IF req[q].want # "waiting" THEN req[q].want ELSE IF ok THEN "ok" ELSE "no"
  OBVIOUS
<1> HIDE DEF w
<1>5. g \in Request /\ g.serve = "done" /\ Same(g, f) /\ g.want = w
  BY <1>1, <1>2 DEF Request, Same
<1>6. m \in Request /\ m.serve = "done" /\ Same(m, req[q]) /\ m.want = w
  BY <1>2, <1>3, <1>5 DEF Same
<1>7. Sensible(m)
  BY <1>0, <1>1, <1>6 DEF Sensible, Same
<1> QED
  BY <1>1, <1>4, <1>6, <1>7 DEF m

\* One call is changed: its handler has ended, or waits for a call that it has
\* made, or something has gone wrong.
Handles(q) ==
    /\ DOMAIN req \subseteq DOMAIN req'
    /\ \A o \in DOMAIN req : o # q => req'[o] = req[o]
    /\ req'[q].want # req[q].want =>
         req[q].want = "waiting" /\ req'[q].want \in {"ok", "no"} /\ req'[q].serve = "done"
    /\ req'[q].serve \in {"lrs", "fwd", "done", "dropped"}
    /\ \A o \in DOMAIN req' \ DOMAIN req :
         /\ o = Append(q, req'[q].serve) /\ req'[q].serve \in {"lrs", "fwd"}
         /\ req'[o].want = "failed" => req'[o].serve = "unsent"
         /\ req'[o].serve \in {"inbox", "unsent"}
    /\ Same(req'[q], req[q])
    /\ req[q].serve \in {"inbox", "lrs", "fwd"}
    /\ req'[q].serve = "lrs" => req[q].serve = "inbox"
    /\ link \subseteq link' /\ link' \subseteq Node \X Node /\ losses <= losses'

\* A handler ends.
LEMMA EndHandles ==
    ASSUME ReqInv(req), NEW q \in DOMAIN req, NEW ok \in BOOLEAN,
           req[q].kind = "ping" => ok, req[q].serve \in {"inbox", "lrs", "fwd"},
           req' = [req EXCEPT ![q] = Answered(q, ok)],
           link' = link, link \subseteq Node \X Node, losses <= losses'
    PROVE  ReqInv(req') /\ Handles(q)
<1> DEFINE m == Answered(q, ok)
<1>1. /\ m \in Request /\ Sensible(m) /\ Same(m, req[q]) /\ m.serve = "done"
      /\ req[q].want # "waiting" => m.want = req[q].want
      /\ req[q].want = "waiting" => m.want = IF ok THEN "ok" ELSE "no"
  BY AnsweredFacts, Zenon
<1>2. req' = [req EXCEPT ![q] = m]
  OBVIOUS
<1> HIDE DEF m
<1>3. ReqInv([req EXCEPT ![q] = m])
  <2>1. m.serve \in {"done", "dropped"}
    BY <1>1
  <2> QED
    BY <1>1, <2>1, ChangeOne, Zenon
<1>4. DOMAIN req' = DOMAIN req /\ req'[q] = m /\ \A o \in DOMAIN req : o # q => req'[o] = req[o]
  BY <1>2
<1>5. Handles(q)
  BY <1>1, <1>4 DEF Handles, Same
<1> QED
  BY <1>2, <1>3, <1>5, Zenon

\* A handler makes a call.
LEMMA HandlerCallsHandles ==
    ASSUME ReqInv(req), losses \in Nat, link \subseteq Node \X Node,
           NEW q \in DOMAIN req, NEW as \in {"lrs", "fwd"},
           req[q].serve = "inbox" \/ (req[q].serve = "lrs" /\ as = "fwd"),
           NEW m, Fresh(m),
           as = "lrs" => Pinged(req[q], m),
           as = "fwd" => req[q].kind # "ping",
           HandlerCalls(q, as, m)
    PROVE  /\ ReqInv(req') /\ Handles(q)
           /\ DOMAIN req' = DOMAIN req \cup {Append(q, as)}
           /\ req'[Append(q, as)] = Made(m) /\ req'[q].serve = as
           /\ Same(req'[q], req[q]) /\ req'[q].want = req[q].want
<1> DEFINE k == Append(q, as)
           t == [req EXCEPT ![q].serve = as]
<1>0. link' = link \cup Opened(m.from, m.to) /\ m.from \in Node /\ m.to \in Node
  BY DEF HandlerCalls, Fresh, Request
<1>1. /\ req' = With(t, k, m) /\ link \subseteq link' /\ losses' = losses
      /\ link' \subseteq Node \X Node
  BY <1>0 DEF HandlerCalls, Opened
<1>2. ReqInv(With(t, k, m)) /\ k \notin DOMAIN req
  BY AddChild, Zenon
<1>3. req[q] \in Request /\ q \in Seq(Part)
  BY Zenon DEF ReqInv, Requests, Keyed
<1>4. k # q
  BY <1>3, AppendFacts, Zenon
<1> HIDE DEF k
<1>5. /\ DOMAIN t = DOMAIN req /\ t[q] = [req[q] EXCEPT !.serve = as]
      /\ \A o \in DOMAIN req : o # q => t[o] = req[o]
  OBVIOUS
<1> HIDE DEF t
<1>6. /\ DOMAIN req' = DOMAIN req \cup {k} /\ req'[k] = Made(m)
      /\ req'[q] = [req[q] EXCEPT !.serve = as]
      /\ \A o \in DOMAIN req : o # q => req'[o] = req[o]
  BY <1>1, <1>2, <1>4, <1>5 DEF With
<1>7. req'[q].serve = as /\ Same(req'[q], req[q]) /\ req'[q].want = req[q].want
  BY <1>3, <1>6 DEF Request, Same
<1>8. /\ Made(m).want = "failed" => Made(m).serve = "unsent"
      /\ Made(m).serve \in {"inbox", "unsent"}
  BY MadeFacts, Zenon DEF Fresh
<1>9. Handles(q)
  <2>1. losses <= losses'
    BY <1>1
  <2>2. /\ req'[q].serve \in {"lrs", "fwd", "done", "dropped"}
        /\ req[q].serve \in {"inbox", "lrs", "fwd"}
        /\ req'[q].serve = "lrs" => req[q].serve = "inbox"
    BY <1>7
  <2> QED
    BY <1>1, <1>6, <1>7, <1>8, <2>1, <2>2, Zenon DEF Handles, k
<1> QED
  BY <1>1, <1>2, <1>6, <1>7, <1>9, Zenon DEF k

\* The call that a handler passes on is a new one.
LEMMA ForwardFresh ==
    ASSUME ReqInv(req), NEW q \in DOMAIN req, NEW table, Forwards(q, table)
    PROVE  Fresh(Forward(q)) /\ req[q].kind # "ping"
<1> DEFINE r == req[q]
<1>0. r \in Request /\ Sensible(r)
  BY Zenon DEF ReqInv, Requests
<1>1. r.from \in Node /\ r.to \in Node /\ r.sender \in Node /\ None \in Node \cup {None}
      /\ r.sender \in Node \cup {None}
  BY <1>0 DEF Request
<1>2. CASE r.kind = "relay" /\ r.target \in Contacts[r.to]
  <2>1. r.target \in Node /\ r.inner \in {"get", "connect"}
    BY <1>0, <1>1, <1>2 DEF Request, Sensible
  <2>2. Forward(q) = Message(r.to, r.sender, r.target, r.inner, "none", r.sender, FALSE)
    BY <1>2 DEF Forward
  <2>3. /\ r.inner \in {"ping", "lookup", "get", "relay", "connect"} /\ FALSE \in BOOLEAN
        /\ "none" \in {"none", "get", "connect"} /\ r.inner # "relay"
    BY <2>1
  <2> HIDE DEF r
  <2>4. /\ Forward(q) \in Request /\ Forward(q).want = "waiting" /\ Forward(q).serve = "inbox"
        /\ Forward(q).kind = r.inner
    BY <1>1, <2>1, <2>2, <2>3 DEF Message, Request
  <2> QED
    BY <1>2, <2>3, <2>4 DEF Fresh, r
<1>3. CASE r.kind = "connect"
  <2>1. Forward(q) = Message(r.to, r.to, r.sender, "ping", "none", None, TRUE)
    BY <1>3 DEF Forward, Ping
  <2>2. /\ "ping" \in {"ping", "lookup", "get", "relay", "connect"} /\ TRUE \in BOOLEAN
        /\ "none" \in {"none", "get", "connect"}
    OBVIOUS
  <2> HIDE DEF r
  <2>3. /\ Forward(q) \in Request /\ Forward(q).want = "waiting" /\ Forward(q).serve = "inbox"
        /\ Forward(q).kind = "ping"
    BY <1>1, <2>1 DEF Message, Request
  <2> QED
    BY <1>3, <2>3 DEF Fresh, r
<1> QED
  BY <1>2, <1>3 DEF Forwards

\* A request is dropped, or the answer to it.
LEMMA DropKeeps ==
    ASSUME ReqInv(req), NEW q \in DOMAIN req, req' = [req EXCEPT ![q].serve = "dropped"],
           link' = link, link \subseteq Node \X Node, losses <= losses',
           req[q].serve \in {"inbox", "lrs", "fwd"}
    PROVE  /\ ReqInv(req') /\ Handles(q) /\ DOMAIN req' = DOMAIN req
           /\ req'[q].want = req[q].want /\ req'[q].serve = "dropped"
<1> DEFINE m == [req[q] EXCEPT !.serve = "dropped"]
<1>0. req[q] \in Request /\ Sensible(req[q])
  BY Zenon DEF ReqInv, Requests
<1>1. m \in Request /\ Same(m, req[q]) /\ m.serve = "dropped" /\ m.want = req[q].want
  BY <1>0 DEF Request, Same
<1>2. req' = [req EXCEPT ![q] = m]
  OBVIOUS
<1> HIDE DEF m
<1>3. Sensible(m)
  BY <1>0, <1>1 DEF Sensible, Same
<1>4. m.serve \in {"done", "dropped"}
  BY <1>1
<1>5. ReqInv([req EXCEPT ![q] = m])
  BY <1>1, <1>3, <1>4, ChangeOne, Zenon
<1>6. DOMAIN req' = DOMAIN req /\ req'[q] = m /\ \A o \in DOMAIN req : o # q => req'[o] = req[o]
  BY <1>2
<1>7. Handles(q)
  BY <1>1, <1>6 DEF Handles
<1> QED
  BY <1>1, <1>2, <1>5, <1>6, <1>7, Zenon

LEMMA UnansweredHandles ==
    ASSUME ReqInv(req), losses \in 0 .. MaxLosses, link \subseteq Node \X Node,
           NEW q \in DOMAIN req, req[q].serve \in {"inbox", "lrs", "fwd"}, Unanswered(q)
    PROVE  /\ ReqInv(req') /\ Handles(q) /\ losses' \in 0 .. MaxLosses
           /\ losses' > 0 /\ req'[q].serve = "dropped" /\ link' = link
<1>1. /\ losses < MaxLosses /\ losses' = losses + 1 /\ link' = link
      /\ req' = [req EXCEPT ![q].serve = "dropped"]
  BY DEF Unanswered
<1>2. losses <= losses' /\ losses' \in 0 .. MaxLosses /\ losses' > 0
  BY <1>1, ActorsAssumption
<1> QED
  BY <1>1, <1>2, DropKeeps, Zenon

\* The match on the payload does no more than a handler may.
LEMMA DispatchHandles ==
    ASSUME ReqInv(req), losses \in 0 .. MaxLosses, link \subseteq Node \X Node,
           NEW q \in DOMAIN req,
           req[q].serve \in {"inbox", "lrs"}, NEW table, Dispatch(q, table)
    PROVE  ReqInv(req') /\ Handles(q) /\ losses' \in 0 .. MaxLosses
<1>0. MaxLosses \in Nat /\ losses \in Nat /\ req[q].serve \in {"inbox", "lrs", "fwd"}
  BY ActorsAssumption
<1>1. CASE Refused(q)
  <2>1. /\ req[q].kind = "relay" /\ losses < MaxLosses /\ losses' = losses + 1
        /\ req' = [req EXCEPT ![q] = Answered(q, FALSE)] /\ link' = link
    BY <1>1 DEF Refused
  <2>2. /\ req[q].kind # "ping" /\ losses <= losses' /\ losses' \in 0 .. MaxLosses
        /\ FALSE \in BOOLEAN
    BY <1>0, <2>1
  <2> QED
    BY <1>0, <2>1, <2>2, EndHandles, Zenon
<1>2. CASE Forwards(q, table) /\ HandlerCalls(q, "fwd", Forward(q))
  <2>1. Fresh(Forward(q)) /\ req[q].kind # "ping"
    BY <1>2, ForwardFresh
  <2>2. /\ "fwd" \in {"lrs", "fwd"} /\ "fwd" # "lrs" /\ losses' = losses
        /\ req[q].serve = "inbox" \/ req[q].serve = "lrs"
    BY <1>2 DEF HandlerCalls
  <2>3. ReqInv(req') /\ Handles(q)
    BY <1>0, <1>2, <2>1, <2>2, HandlerCallsHandles, Zenon
  <2> QED
    BY <2>2, <2>3
<1>3. CASE /\ ~Forwards(q, table) /\ UNCHANGED <<link, losses>>
           /\ req' = [req EXCEPT ![q] = Answered(q, req[q].kind # "relay")]
  <2>1. /\ (req[q].kind # "relay") \in BOOLEAN /\ link' = link /\ losses <= losses'
        /\ req[q].kind = "ping" => req[q].kind # "relay"
    BY <1>0, <1>3
  <2>2. ReqInv(req') /\ Handles(q)
    BY <1>0, <1>3, <2>1, EndHandles, Zenon
  <2> QED
    BY <1>3, <2>2
<1>4. CASE Unanswered(q)
  BY <1>0, <1>4, UnansweredHandles, Zenon
<1> QED
  BY <1>1, <1>2, <1>3, <1>4 DEF Dispatch

\* A call runs into its timeout.
LEMMA TimeoutKeeps ==
    ASSUME ReqInv(req), NEW q \in DOMAIN req, req' = [req EXCEPT ![q].want = "failed"],
           req[q].want = "waiting"
    PROVE  /\ ReqInv(req') /\ DOMAIN req' = DOMAIN req
           /\ \A o \in DOMAIN req : o # q => req'[o] = req[o]
           /\ Same(req'[q], req[q]) /\ req'[q].serve = req[q].serve
           /\ req'[q].want = "failed"
<1> DEFINE m == [req[q] EXCEPT !.want = "failed"]
<1>0. req[q] \in Request /\ Sensible(req[q])
  BY Zenon DEF ReqInv, Requests
<1>1. m \in Request /\ Same(m, req[q]) /\ m.serve = req[q].serve /\ m.want = "failed"
  BY <1>0 DEF Request, Same
<1>2. req' = [req EXCEPT ![q] = m]
  OBVIOUS
<1> HIDE DEF m
<1>3. Sensible(m)
  BY <1>0, <1>1 DEF Sensible, Same
<1>5. ReqInv([req EXCEPT ![q] = m])
  BY <1>1, <1>3, ChangeOne, Zenon
<1>6. DOMAIN req' = DOMAIN req /\ req'[q] = m /\ \A o \in DOMAIN req : o # q => req'[o] = req[o]
  BY <1>2
<1> QED
  BY <1>1, <1>2, <1>5, <1>6, Zenon
-----------------------------------------------------------------------------
(* The tables *)

\* Buckets that hold one peer each, and the history of who was not in them.
Tables(t, ab) ==
    /\ t \in [Node -> [Node -> Node \cup {None}]]
    /\ \A n \in Node : OneEach(n, t[n])
    /\ ab \subseteq Node \X Node
    /\ \A n, m \in Node : t[n][m] # None => <<n, m>> \in ab

\* An eviction puts the newcomer into the place of the old peer; nobody else
\* loses a place.
LEMMA ReplacedFacts ==
    ASSUME Tables(lrs, absent), NEW n \in Node, NEW old \in Node, NEW new \in Node,
           BucketOf[n][old] = BucketOf[n][new]
    PROVE  /\ Replaced(n, old, new) \in [Node -> Node \cup {None}]
           /\ OneEach(n, Replaced(n, old, new))
           /\ \A m \in Node : lrs[n][m] \in Node /\ Replaced(n, old, new)[m] # lrs[n][m] =>
                lrs[n][m] = old
<1>0. /\ lrs[n] \in [Node -> Node \cup {None}] /\ OneEach(n, lrs[n]) /\ None \notin Node
  BY ActorsAssumption DEF Tables
<1>1. CASE ~\E m \in Node : lrs[n][m] = old
  BY <1>0, <1>1 DEF Replaced
<1>2. CASE \E m \in Node : lrs[n][m] = old
  <2> DEFINE t == lrs[n]
             b == BucketOf[n]
             s == [m \in Node |-> IF m = new THEN None
                                  ELSE IF m = old \/ t[m] = old THEN new ELSE t[m]]
  <2>1. Replaced(n, old, new) = s
    BY <1>2 DEF Replaced
  <2>2. PICK m0 \in Node : t[m0] = old
    BY <1>2
  <2>3. /\ b[old] = b[m0] /\ t[old] = None
        /\ \A o \in Node \ {old} : b[o] = b[m0] => t[o] = old
    BY <1>0, <2>2 DEF OneEach
  <2>4. \A m \in Node : t[m] \in Node => b[t[m]] = b[m] /\ t[t[m]] = None
          /\ \A o \in Node \ {t[m]} : b[o] = b[m] => t[o] = t[m]
    BY <1>0 DEF OneEach
  <2>5. \A m \in Node : t[m] \in Node \cup {None}
    BY <1>0
  <2> HIDE DEF t, b
  <2>6. \A m \in Node : /\ s[m] \in Node \cup {None}
                        /\ m = new => s[m] = None
                        /\ m # new /\ (m = old \/ t[m] = old) => s[m] = new
                        /\ m # new /\ m # old /\ t[m] # old => s[m] = t[m]
    BY <2>5
  <2>7. s \in [Node -> Node \cup {None}]
    BY <2>5
  <2> HIDE DEF s
  <2>8. b[old] = b[new]
    BY DEF b
  <2>9. \A m \in Node : t[m] = old <=> b[m] = b[old] /\ m # old
    <3>1. ASSUME NEW m \in Node, t[m] = old
          PROVE  b[m] = b[old] /\ m # old
      BY <3>1, <2>3, <2>4, <1>0
    <3>2. ASSUME NEW m \in Node, b[m] = b[old], m # old
          PROVE  t[m] = old
      BY <3>2, <2>3
    <3> QED
      BY <3>1, <3>2
  <2>10. OneEach(n, s)
    <3> SUFFICES ASSUME NEW m \in Node, s[m] # None
        PROVE  /\ b[s[m]] = b[m] /\ s[s[m]] = None
               /\ \A o \in Node \ {s[m]} : b[o] = b[m] => s[o] = s[m]
      BY DEF OneEach, b
    <3>1. CASE b[m] = b[old]
      <4>1. s[m] = new
        BY <3>1, <2>6, <2>9
      <4>2. s[new] = None
        BY <2>6
      <4>3. ASSUME NEW o \in Node \ {new}, b[o] = b[m] PROVE s[o] = new
        BY <4>3, <3>1, <2>6, <2>9
      <4> QED
        BY <3>1, <4>1, <4>2, <4>3, <2>8
    <3>2. CASE b[m] # b[old]
      <4>1. m # new /\ m # old /\ t[m] # old /\ s[m] = t[m] /\ t[m] \in Node
        BY <3>2, <2>5, <2>6, <2>8, <2>9
      <4>2. /\ b[t[m]] = b[m] /\ t[t[m]] = None
            /\ \A o \in Node \ {t[m]} : b[o] = b[m] => t[o] = t[m]
        BY <4>1, <2>4
      <4>3. \A o \in Node : b[o] = b[m] => s[o] = t[o]
        BY <3>2, <2>6, <2>8, <2>9
      <4> QED
        BY <4>1, <4>2, <4>3
    <3> QED
      BY <3>1, <3>2
  <2>11. \A m \in Node : t[m] \in Node /\ s[m] # t[m] => t[m] = old
    <3> SUFFICES ASSUME NEW m \in Node, t[m] \in Node, s[m] # t[m], t[m] # old
        PROVE  FALSE
      BY Zenon
    <3>1. m = new \/ m = old
      BY <2>6
    <3>2. m # old
      BY <2>3, <1>0
    <3>3. new # old /\ t[new] = old
      BY <3>1, <3>2, <2>8, <2>9
    <3> QED
      BY <3>1, <3>2, <3>3
  <2> QED
    BY <2>1, <2>7, <2>10, <2>11 DEF t
<1> QED
  BY <1>1, <1>2
-----------------------------------------------------------------------------
(* Steps *)

Bounded == \A n \in Node : Cardinality(Handlers(n)) <= MaxHandlers

Basic ==
    /\ ReqInv(req) /\ CmdInv(cmd, queue, loop) /\ Tables(lrs, absent)
    /\ Links \subseteq link /\ link \subseteq Node \X Node /\ losses \in 0 .. MaxLosses
    /\ Bounded

\* A new handler had a permit; the call that it makes has no handler yet.
LEMMA HandlersBounded ==
    ASSUME ReqInv(req), ReqInv(req'), Bounded, NEW q \in DOMAIN req, Handles(q),
           \/ req[q].serve \in {"lrs", "fwd"} \/ ~Full(req[q].to)
           \/ req'[q].serve \notin {"lrs", "fwd"}
    PROVE  Bounded'
<1> SUFFICES ASSUME NEW n \in Node
    PROVE  Cardinality(Handlers(n)') <= MaxHandlers
  BY DEF Bounded
<1> DEFINE H == Handlers(n)
           G == Handlers(n)'
<1>0. req[q].to \in Node /\ MaxHandlers \in Nat
  BY ActorsAssumption DEF ReqInv, Requests, Request
<1>1. IsFiniteSet(DOMAIN req) /\ H \subseteq DOMAIN req
  BY DEF ReqInv, Keyed, Handlers
<1>2. IsFiniteSet(H) /\ Cardinality(H) \in Nat
  BY <1>1, FS_Subset, FS_CardinalityType
<1>3. G = {o \in DOMAIN req' : req'[o].to = n /\ req'[o].serve \in {"lrs", "fwd"}}
  BY DEF Handlers
<1>4. \A o \in G : o \in DOMAIN req
  <2> SUFFICES ASSUME NEW o \in DOMAIN req' \ DOMAIN req, req'[o].serve \in {"lrs", "fwd"}
      PROVE  FALSE
    BY <1>3
  <2> QED
    BY DEF Handles
<1>5. \A o \in G : o # q => o \in H
  BY <1>3, <1>4 DEF Handles, Handlers
<1>6. q \in G => req[q].to = n
  BY <1>3 DEF Handles, Same
<1>7. CASE q \notin G \/ q \in H
  <2>1. G \subseteq H
    BY <1>5, <1>7
  <2>2. Cardinality(G) <= Cardinality(H) /\ Cardinality(G) \in Nat
    BY <1>2, <2>1, FS_Subset, FS_CardinalityType
  <2> HIDE DEF G, H
  <2> QED
    BY <1>0, <1>2, <2>2 DEF Bounded, H, G
<1>8. CASE q \in G /\ q \notin H
  <2>1. req[q].serve \notin {"lrs", "fwd"} /\ ~Full(n)
    <3>1. req[q].to = n
      BY <1>6, <1>8
    <3>2. req[q].serve \notin {"lrs", "fwd"}
      BY <3>1, <1>8 DEF Handlers
    <3>3. req'[q].serve \in {"lrs", "fwd"}
      BY <1>3, <1>8
    <3> QED
      BY <3>1, <3>2, <3>3
  <2>2. G \subseteq H \cup {q}
    BY <1>5
  <2>3. IsFiniteSet(H \cup {q}) /\ Cardinality(H \cup {q}) = Cardinality(H) + 1
    BY <1>2, <1>8, FS_AddElement
  <2>4. Cardinality(G) <= Cardinality(H) + 1 /\ Cardinality(G) \in Nat
    BY <2>2, <2>3, FS_Subset, FS_CardinalityType
  <2>5. Cardinality(H) < MaxHandlers
    BY <2>1, <1>0, <1>2 DEF Full
  <2> HIDE DEF G, H
  <2> QED
    BY <1>0, <1>2, <2>4, <2>5 DEF G
<1> QED
  BY <1>7, <1>8

\* What the loop does with a request, and what its handler does next.
LEMMA AdmitHandles ==
    ASSUME Basic, NEW q \in DOMAIN req, Admit(q)
    PROVE  /\ ReqInv(req') /\ Handles(q) /\ losses' \in 0 .. MaxLosses /\ Bounded'
           /\ req[q].serve = "inbox" /\ loop[req[q].to] = "ready"
           /\ UNCHANGED <<cmd, queue, loop, lrs, absent>>
<1> DEFINE r == req[q]
           y == lrs[r.to][r.sender]
<1>0. /\ ReqInv(req) /\ losses \in 0 .. MaxLosses /\ MaxLosses \in Nat /\ losses \in Nat
      /\ link \subseteq Node \X Node /\ Tables(lrs, absent) /\ Bounded
  BY ActorsAssumption DEF Basic
<1>1. /\ r.serve = "inbox" /\ loop[r.to] = "ready"
      /\ UNCHANGED <<cmd, queue, loop, lrs, absent>>
  BY DEF Admit
<1>2. r \in Request /\ r.to \in Node /\ r.sender \in Node
  BY <1>0 DEF ReqInv, Requests, Request
<1>3. CASE Full(r.to)
  <2>1. req' = [req EXCEPT ![q].serve = "dropped"] /\ link' = link /\ losses' = losses
    BY <1>3 DEF Admit
  <2>2. losses <= losses' /\ r.serve \in {"inbox", "lrs", "fwd"}
    BY <1>0, <1>1, <2>1
  <2>3. ReqInv(req') /\ Handles(q) /\ req'[q].serve = "dropped"
    BY <1>0, <1>1, <2>1, <2>2, DropKeeps, Zenon
  <2>4. req'[q].serve \notin {"lrs", "fwd"}
    BY <2>3
  <2>5. Bounded'
    BY <1>0, <2>3, <2>4, HandlersBounded, Zenon
  <2> QED
    BY <1>0, <1>1, <2>1, <2>3, <2>5
<1>4. CASE ~Full(r.to) /\ y # None
  <2>1. HandlerCalls(q, "lrs", Ping(r.to, y, TRUE)) /\ losses' = losses
    BY <1>4 DEF Admit, HandlerCalls
  <2>2. y \in Node /\ BucketOf[r.to][y] = BucketOf[r.to][r.sender]
    BY <1>0, <1>2, <1>4 DEF Tables, OneEach
  <2>3. Fresh(Ping(r.to, y, TRUE)) /\ Pinged(r, Ping(r.to, y, TRUE))
    BY <1>2, <2>2 DEF Fresh, Ping, Message, Request, Pinged
  <2>4. "lrs" \in {"lrs", "fwd"} /\ "lrs" # "fwd"
    OBVIOUS
  <2>5. ReqInv(req') /\ Handles(q)
    BY <1>0, <1>1, <2>1, <2>3, <2>4, HandlerCallsHandles, Zenon
  <2>6. Bounded'
    BY <1>0, <1>4, <2>5, HandlersBounded, Zenon
  <2> QED
    BY <1>0, <1>1, <2>1, <2>5, <2>6
<1>5. CASE ~Full(r.to) /\ y = None
  <2>1. Dispatch(q, lrs[r.to]) /\ r.serve \in {"inbox", "lrs"}
    BY <1>1, <1>5 DEF Admit
  <2>2. ReqInv(req') /\ Handles(q) /\ losses' \in 0 .. MaxLosses
    BY <1>0, <2>1, DispatchHandles, Zenon
  <2>3. Bounded'
    BY <1>0, <1>5, <2>2, HandlersBounded, Zenon
  <2> QED
    BY <1>1, <2>2, <2>3
<1> QED
  BY <1>3, <1>4, <1>5

\* The handler has heard of its ping; it evicts at most the peer it has pinged.
LEMMA LrsPingedHandles ==
    ASSUME Basic, NEW q \in DOMAIN req, LrsPinged(q)
    PROVE  /\ ReqInv(req') /\ Handles(q) /\ losses' \in 0 .. MaxLosses /\ Bounded'
           /\ Tables(lrs', absent') /\ absent \subseteq absent'
           /\ req[q].serve = "lrs" /\ Append(q, "lrs") \in DOMAIN req \ Waiting
           /\ UNCHANGED <<cmd, queue, loop>>
           /\ \A n, y \in Node : Evicted(n, y) =>
                /\ req[Append(q, "lrs")].from = n /\ req[Append(q, "lrs")].to = y
                /\ req[Append(q, "lrs")].want = "failed"
<1> DEFINE p == Append(q, "lrs")
           n == req[q].to
           old == req[p].to
           new == req[q].sender
           table == IF Stays(p) THEN lrs[n] ELSE Replaced(n, old, new)
<1>0. /\ ReqInv(req) /\ losses \in 0 .. MaxLosses
      /\ link \subseteq Node \X Node /\ Tables(lrs, absent) /\ Bounded
  BY DEF Basic
<1>1. /\ req[q].serve = "lrs" /\ req[p].want # "waiting" /\ lrs' = [lrs EXCEPT ![n] = table]
      /\ absent' = absent \cup Out(n, table) /\ Dispatch(q, table)
      /\ UNCHANGED <<cmd, queue, loop>>
  BY Zenon DEF LrsPinged
<1>2. /\ p \in DOMAIN req /\ Pinged(req[q], req[p]) /\ req[p] \in Request /\ Sensible(req[p])
      /\ req[q] \in Request
  BY <1>0, <1>1, Zenon DEF ReqInv, Served, Pings, Requests
<1>3. n \in Node /\ old \in Node /\ new \in Node /\ BucketOf[n][old] = BucketOf[n][new]
      /\ req[p].from = n /\ req[p].want \in {"ok", "failed"}
  BY <1>1, <1>2 DEF Request, Pinged, Sensible
<1>4. ReqInv(req') /\ Handles(q) /\ losses' \in 0 .. MaxLosses
  <2>1. req[q].serve \in {"inbox", "lrs"}
    BY <1>1
  <2> HIDE DEF table
  <2> QED
    BY <1>0, <1>1, <2>1, DispatchHandles, Zenon
<1>5. Bounded'
  <2>1. req[q].serve \in {"lrs", "fwd"}
    BY <1>1
  <2> QED
    BY <1>0, <1>4, <2>1, HandlersBounded, Zenon
<1>6. /\ table \in [Node -> Node \cup {None}] /\ OneEach(n, table)
      /\ \A m \in Node : lrs[n][m] \in Node /\ table[m] # lrs[n][m] => lrs[n][m] = old
      /\ Stays(p) => table = lrs[n]
  <2>1. CASE Stays(p)
    BY <2>1, <1>0, <1>3 DEF Tables
  <2>2. CASE ~Stays(p)
    <3>1. table = Replaced(n, old, new)
      BY <2>2
    <3> HIDE DEF table, n, old, new
    <3>2. /\ Replaced(n, old, new) \in [Node -> Node \cup {None}]
          /\ OneEach(n, Replaced(n, old, new))
          /\ \A m \in Node : lrs[n][m] \in Node /\ Replaced(n, old, new)[m] # lrs[n][m] =>
               lrs[n][m] = old
      <4>1. ASSUME NEW a \in Node, NEW b \in Node, NEW d \in Node,
                   BucketOf[a][b] = BucketOf[a][d]
            PROVE  /\ Replaced(a, b, d) \in [Node -> Node \cup {None}]
                   /\ OneEach(a, Replaced(a, b, d))
                   /\ \A m \in Node : lrs[a][m] \in Node /\ Replaced(a, b, d)[m] # lrs[a][m] =>
                        lrs[a][m] = b
        BY <1>0, <4>1, ReplacedFacts
      <4>2. PICK a \in Node, b \in Node, d \in Node : a = n /\ b = old /\ d = new
        BY <1>3, Zenon
      <4>3. BucketOf[a][b] = BucketOf[a][d]
        BY <1>3, <4>2
      <4>4. /\ Replaced(a, b, d) \in [Node -> Node \cup {None}]
            /\ OneEach(a, Replaced(a, b, d))
            /\ \A m \in Node : lrs[a][m] \in Node /\ Replaced(a, b, d)[m] # lrs[a][m] =>
                 lrs[a][m] = b
        BY <4>1, <4>3
      <4> QED
        BY <4>2, <4>4
    <3> QED
      BY <2>2, <3>1, <3>2, Zenon
  <2> QED
    BY <2>1, <2>2
<1> HIDE DEF table
<1>7. /\ lrs' \in [Node -> [Node -> Node \cup {None}]] /\ lrs'[n] = table
      /\ \A m \in Node : m # n => lrs'[m] = lrs[m]
  BY <1>0, <1>1, <1>3, <1>6 DEF Tables
<1>8. Tables(lrs', absent')
  <2>1. \A m \in Node : OneEach(m, lrs'[m])
    BY <1>0, <1>6, <1>7, Zenon DEF Tables
  <2>2. absent' \subseteq Node \X Node
    BY <1>0, <1>1, <1>3 DEF Tables, Out
  <2>3. ASSUME NEW a \in Node, NEW b \in Node, lrs'[a][b] # None
        PROVE  <<a, b>> \in absent'
    <3>1. CASE a = n
      BY <1>1, <1>7, <2>3, <3>1 DEF Out
    <3>2. CASE a # n
      BY <1>0, <1>1, <1>7, <2>3, <3>2 DEF Tables
    <3> QED
      BY <3>1, <3>2
  <2> QED
    BY <1>7, <2>1, <2>2, <2>3, Zenon DEF Tables
<1>9. ASSUME NEW a \in Node, NEW y \in Node, Evicted(a, y)
      PROVE  req[p].from = a /\ req[p].to = y /\ req[p].want = "failed"
  <2>1. PICK m \in Node : lrs[a][m] = y /\ lrs'[a][m] # y
    BY <1>9 DEF Evicted
  <2>2. a = n /\ table[m] # lrs[n][m] /\ lrs[n][m] = y
    BY <1>7, <2>1
  <2>3. y = old /\ ~Stays(p)
    BY <1>6, <2>2
  <2> QED
    BY <1>3, <2>2, <2>3 DEF Stays
<1>10. p \in DOMAIN req \ Waiting
  BY <1>1, <1>2 DEF Waiting
<1> QED
  BY <1>1, <1>4, <1>5, <1>8, <1>9, <1>10
\* The answer to the handler's call is in; its own is sent, and may be lost.
LEMMA ForwardedHandles ==
    ASSUME Basic, NEW q \in DOMAIN req, Forwarded(q)
    PROVE  /\ ReqInv(req') /\ Handles(q) /\ Bounded' /\ losses' \in 0 .. MaxLosses
           /\ req[q].serve = "fwd" /\ Append(q, "fwd") \in DOMAIN req \ Waiting
           /\ \/ req'[q] = Answered(q, req[Append(q, "fwd")].want = "ok")
              \/ req'[q].serve = "dropped" /\ losses' > 0
           /\ UNCHANGED <<cmd, queue, loop, link, lrs, absent>>
<1> DEFINE f == Append(q, "fwd")
           ok == req[f].want = "ok"
<1>0. /\ ReqInv(req) /\ losses \in 0 .. MaxLosses /\ losses \in Nat
      /\ link \subseteq Node \X Node /\ Bounded /\ req[q] \in Request
  BY ActorsAssumption DEF Basic, ReqInv, Requests
<1>1. /\ req[q].serve = "fwd" /\ req[f].want # "waiting"
      /\ UNCHANGED <<cmd, queue, loop, lrs, absent>>
      /\ \/ req' = [req EXCEPT ![q] = Answered(q, ok)] /\ UNCHANGED <<link, losses>>
         \/ Unanswered(q)
  BY DEF Forwarded
<1>2. f \in DOMAIN req
  BY <1>0, <1>1, Zenon DEF ReqInv, Served
<1>3. ok \in BOOLEAN /\ req[q].kind # "ping" /\ req[q].serve \in {"inbox", "lrs", "fwd"}
  BY <1>0, <1>1 DEF ReqInv, Requests, Sensible
<1> HIDE DEF ok
<1>6. /\ ReqInv(req') /\ Handles(q) /\ losses' \in 0 .. MaxLosses /\ link' = link
      /\ req'[q] = Answered(q, ok) \/ (req'[q].serve = "dropped" /\ losses' > 0)
  <2>1. CASE req' = [req EXCEPT ![q] = Answered(q, ok)] /\ UNCHANGED <<link, losses>>
    <3>1. link' = link /\ losses' \in 0 .. MaxLosses /\ losses <= losses'
      BY <1>0, <2>1
    <3>2. ReqInv(req') /\ Handles(q)
      BY <1>0, <1>3, <2>1, <3>1, EndHandles, Zenon
    <3>3. req'[q] = Answered(q, ok)
      BY <2>1
    <3> QED
      BY <3>1, <3>2, <3>3
  <2>2. CASE Unanswered(q)
    BY <1>0, <1>3, <2>2, UnansweredHandles, Zenon
  <2> QED
    BY <1>1, <2>1, <2>2
<1>7. req[q].serve \in {"lrs", "fwd"}
  BY <1>1
<1>8. Bounded'
  BY <1>0, <1>6, <1>7, HandlersBounded, Zenon
<1>9. f \in DOMAIN req \ Waiting
  BY <1>1, <1>2 DEF Waiting
<1> QED
  BY <1>1, <1>6, <1>8, <1>9 DEF ok

LEMMA LoseHandles ==
    ASSUME Basic, NEW q \in DOMAIN req, Lose(q)
    PROVE  /\ ReqInv(req') /\ Handles(q) /\ Bounded' /\ losses' \in 0 .. MaxLosses
           /\ req[q].serve = "inbox" /\ losses' > 0
           /\ DOMAIN req' = DOMAIN req /\ req'[q].want = req[q].want
           /\ req'[q].serve = "dropped"
           /\ UNCHANGED <<cmd, queue, loop, link, lrs, absent>>
<1>0. /\ ReqInv(req) /\ losses \in 0 .. MaxLosses /\ MaxLosses \in Nat
      /\ link \subseteq Node \X Node /\ Bounded
  BY ActorsAssumption DEF Basic
<1>1. /\ req[q].serve = "inbox" /\ losses < MaxLosses /\ losses' = losses + 1
      /\ req' = [req EXCEPT ![q].serve = "dropped"]
      /\ UNCHANGED <<cmd, queue, loop, link, lrs, absent>>
  BY DEF Lose
<1>2. /\ losses <= losses' /\ losses' \in 0 .. MaxLosses /\ losses' > 0 /\ link' = link
      /\ req[q].serve \in {"inbox", "lrs", "fwd"}
  BY <1>0, <1>1
<1>3. /\ ReqInv(req') /\ Handles(q) /\ DOMAIN req' = DOMAIN req
      /\ req'[q].want = req[q].want /\ req'[q].serve = "dropped"
  BY <1>0, <1>1, <1>2, DropKeeps, Zenon
<1>4. req'[q].serve \notin {"lrs", "fwd"}
  BY <1>3
<1>5. Bounded'
  BY <1>0, <1>3, <1>4, HandlersBounded, Zenon
<1> QED
  BY <1>1, <1>2, <1>3, <1>5

\* The call of a command, and what it asks for.
LEMMA CurrentKey ==
    ASSUME CmdInv(cmd, queue, loop), NEW c \in Command
    PROVE  Current(c) \in Seq(Part) /\ Len(Current(c)) = 3
<1>1. cmd[c] \in State
  BY DEF CmdInv, Commands
<1>2. cmd[c].step \in Word /\ cmd[c].i \in Nat
  BY <1>1 DEF State, Word
<1>3. c \in Part /\ cmd[c].step \in Part /\ cmd[c].i \in Part
  BY <1>2, Zenon DEF Part
<1> DEFINE a == cmd[c].step
           b == cmd[c].i
<1> HIDE DEF a, b
<1>4. <<c, a, b>> \in Seq(Part) /\ Len(<<c, a, b>>) = 3
  <2>1. a \in Part /\ b \in Part
    BY <1>3 DEF a, b
  <2> QED
    BY <1>3, <2>1
<1> QED
  BY <1>4 DEF Current, a, b

LEMMA OutgoingFresh ==
    ASSUME CmdInv(cmd, queue, loop), NEW c \in Command, cmd[c].state = "running", ~Tried(c)
    PROVE  /\ Fresh(Outgoing(c)) /\ Outgoing(c).from = NodeOf[c]
           /\ Outgoing(c).sender = NodeOf[c] /\ ~Outgoing(c).brief
           /\ AtCandidate(c) => Outgoing(c).to = Candidates(c)[cmd[c].i]
           /\ cmd[c].step = "relay" =>
                /\ Outgoing(c).kind = "relay" /\ Outgoing(c).inner = "get"
                /\ Outgoing(c).target = TargetOf[c]
           /\ AtCandidate(c) => cmd[c].i \in 1 .. Len(Candidates(c))
<1>0. cmd[c] \in State /\ Fitting(c, cmd[c]) /\ NodeOf[c] \in Node /\ TargetOf[c] \in Node
      /\ Relays[NodeOf[c]] \in Seq(Node)
  BY ActorsAssumption DEF CmdInv, Commands
<1>1. CASE AtCandidate(c)
  <2>1. cmd[c].i \in 1 .. Len(Candidates(c)) /\ Candidates(c)[cmd[c].i] \in Node
    <3>1. cmd[c].i \in Nat /\ cmd[c].i >= 1 /\ Len(Candidates(c)) \in Nat
      BY <1>0 DEF State, Fitting, Candidates
    <3>2. cmd[c].i <= Len(Candidates(c))
      BY <1>1, <3>1 DEF Tried
    <3> QED
      BY <1>0, <3>1, <3>2 DEF Candidates
  <2> DEFINE r == Candidates(c)[cmd[c].i]
             inner == IF cmd[c].step = "reverse" THEN "connect" ELSE "get"
  <2>0. cmd[c].step # "ping"
    BY <1>1 DEF AtCandidate
  <2>2. Outgoing(c) = Message(NodeOf[c], NodeOf[c], r, "relay", inner, TargetOf[c], FALSE)
    BY <1>1, <2>0 DEF Outgoing
  <2>3. inner \in {"connect", "get"} /\ r \in Node /\ (cmd[c].step = "relay" => inner = "get")
    BY <2>1
  <2> HIDE DEF r, inner
  <2>4. Fresh(Outgoing(c)) /\ Outgoing(c).from = NodeOf[c] /\ Outgoing(c).to = r
        /\ Outgoing(c).sender = NodeOf[c] /\ ~Outgoing(c).brief
        /\ Outgoing(c).kind = "relay" /\ Outgoing(c).inner = inner
        /\ Outgoing(c).target = TargetOf[c]
    BY <1>0, <2>2, <2>3 DEF Message, Fresh, Request
  <2> QED
    BY <2>1, <2>3, <2>4 DEF r
<1>2. CASE ~AtCandidate(c) /\ cmd[c].step = "ping"
  <2>1. Outgoing(c) = Message(NodeOf[c], NodeOf[c], TargetOf[c], "ping", "none", None, FALSE)
    BY <1>2 DEF Outgoing, Ping
  <2>2. /\ Fresh(Outgoing(c)) /\ Outgoing(c).from = NodeOf[c]
        /\ Outgoing(c).sender = NodeOf[c] /\ ~Outgoing(c).brief
    BY <1>0, <2>1 DEF Message, Fresh, Request
  <2> QED
    BY <1>2, <2>2
<1>3. CASE ~AtCandidate(c) /\ cmd[c].step # "ping"
  <2> DEFINE kind == IF cmd[c].step = "lookup" THEN "lookup" ELSE "get"
  <2>1. Outgoing(c) = Message(NodeOf[c], NodeOf[c], TargetOf[c], kind, "none", None, FALSE)
    BY <1>3 DEF Outgoing
  <2>2. kind \in {"lookup", "get"}
    OBVIOUS
  <2> HIDE DEF kind
  <2>3. /\ Fresh(Outgoing(c)) /\ Outgoing(c).from = NodeOf[c]
        /\ Outgoing(c).sender = NodeOf[c] /\ ~Outgoing(c).brief
    BY <1>0, <2>1, <2>2 DEF Message, Fresh, Request
  <2>4. cmd[c].step # "relay"
    BY <1>3 DEF AtCandidate
  <2> QED
    BY <1>3, <2>3, <2>4
<1> QED
  BY <1>1, <1>2, <1>3

\* A command makes its call; nothing else changes.
LEMMA IssueKeeps ==
    ASSUME Basic, NEW c \in Command, Issue(c)
    PROVE  /\ ReqInv(req') /\ Bounded' /\ cmd[c].state = "running" /\ ~Tried(c) /\ ~Skipped(c)
           /\ Current(c) \notin DOMAIN req /\ DOMAIN req' = DOMAIN req \cup {Current(c)}
           /\ \A o \in DOMAIN req : req'[o] = req[o]
           /\ req'[Current(c)] = Made(Outgoing(c))
           /\ req'[Current(c)].want = "failed" => req'[Current(c)].serve = "unsent"
           /\ req'[Current(c)].serve \in {"inbox", "unsent"}
           /\ link \subseteq link' /\ link' \subseteq Node \X Node
           /\ UNCHANGED <<cmd, queue, loop, lrs, losses, absent>>
<1> DEFINE k == Current(c)
           m == Outgoing(c)
<1>0. /\ ReqInv(req) /\ CmdInv(cmd, queue, loop) /\ link \subseteq Node \X Node /\ Bounded
  BY DEF Basic
<1>1. /\ cmd[c].state = "running" /\ ~Tried(c) /\ ~Skipped(c) /\ k \notin DOMAIN req
      /\ req' = With(req, k, m) /\ link' = link \cup Opened(NodeOf[c], m.to)
      /\ UNCHANGED <<cmd, queue, loop, lrs, losses, absent>>
  BY DEF Issue
<1>2. k \in Seq(Part) /\ Len(k) = 3
  BY <1>0, CurrentKey, Zenon
<1>3. Fresh(m)
  BY <1>0, <1>1, OutgoingFresh, Zenon
<1> HIDE DEF k, m
<1>4. ReqInv(req')
  <2>1. ReqInv(With(req, k, m))
    BY <1>0, <1>1, <1>2, <1>3, AddCall, Zenon
  <2> QED
    BY <1>1, <2>1
<1>5. DOMAIN req' = DOMAIN req \cup {k} /\ req'[k] = Made(m) /\ \A o \in DOMAIN req : req'[o] = req[o]
  BY <1>1 DEF With
<1>6. /\ Made(m).want = "failed" => Made(m).serve = "unsent"
      /\ Made(m).serve \in {"inbox", "unsent"}
  BY <1>3, MadeFacts, Zenon DEF Fresh
<1>7. link \subseteq link' /\ link' \subseteq Node \X Node
  <2>1. NodeOf[c] \in Node /\ m.to \in Node
    BY <1>3, ActorsAssumption DEF Fresh, Request
  <2> QED
    BY <1>0, <1>1, <2>1 DEF Opened
<1>8. \A n \in Node : Handlers(n)' = Handlers(n)
  <2>1. \A o \in DOMAIN req' : req'[o].serve \in {"lrs", "fwd"} => o \in DOMAIN req
    BY <1>5, <1>6
  <2> QED
    BY <1>5, <2>1 DEF Handlers
<1>9. Bounded'
  BY <1>0, <1>8 DEF Bounded
<1> QED
  BY <1>1, <1>4, <1>5, <1>6, <1>7, <1>9 DEF k, m

\* Nobody could go on: time passes.
LEMMA TimeoutFacts ==
    ASSUME Basic, NEW q \in DOMAIN req, Timeout(q)
    PROVE  /\ ReqInv(req') /\ Bounded' /\ DOMAIN req' = DOMAIN req
           /\ Due(q) /\ ~Busy /\ q \in Waiting
           /\ \A o \in DOMAIN req : o # q => req'[o] = req[o]
           /\ Same(req'[q], req[q]) /\ req'[q].serve = req[q].serve
           /\ req'[q].want = "failed"
           /\ UNCHANGED <<cmd, queue, loop, link, lrs, losses, absent>>
<1>0. ReqInv(req) /\ Bounded
  BY DEF Basic
<1>1. /\ Due(q) /\ ~Busy /\ q \in Waiting /\ req' = [req EXCEPT ![q].want = "failed"]
      /\ UNCHANGED <<cmd, queue, loop, link, lrs, losses, absent>>
  BY DEF Timeout, Due
<1>2. req[q].want = "waiting"
  BY <1>1 DEF Waiting
<1>3. /\ ReqInv(req') /\ DOMAIN req' = DOMAIN req
      /\ \A o \in DOMAIN req : o # q => req'[o] = req[o]
      /\ Same(req'[q], req[q]) /\ req'[q].serve = req[q].serve
      /\ req'[q].want = "failed"
  BY <1>0, <1>1, <1>2, TimeoutKeeps, Zenon
<1>4. \A n \in Node : Handlers(n)' = Handlers(n)
  BY <1>3 DEF Handlers, Same
<1>5. Bounded'
  BY <1>0, <1>4 DEF Bounded
<1> QED
  BY <1>1, <1>3, <1>5
-----------------------------------------------------------------------------
\* Basic is inductive.
LEMMA InitBasic == Init => Basic
<1> SUFFICES ASSUME Init
    PROVE  Basic
  OBVIOUS
<1>1. ReqInv(req)
  <2>1. DOMAIN req = {}
    BY DEF Init
  <2>2. IsFiniteSet({})
    BY FS_EmptySet
  <2> QED
    BY <2>1, <2>2, Zenon DEF ReqInv, Keyed, Served, Requests, Pings
<1>2. CmdInv(cmd, queue, loop)
  <2>1. Commands(cmd)
    BY DEF Init, Commands, State, Fitting
  <2>2. Loops(cmd, loop)
    BY ActorsAssumption DEF Init, Loops
  <2>3. Queues(cmd, queue)
    <3>1. queue \in [Node -> Seq(Command)] /\ \A n \in Node : queue[n] = <<>>
      BY DEF Init
    <3>2. \A n \in Node : Lines(cmd, <<>>, n)
      BY ActorsAssumption DEF Lines
    <3> QED
      BY <3>1, <3>2, Zenon DEF Queues
  <2> QED
    BY <2>1, <2>2, <2>3, Zenon DEF CmdInv
<1>3. Tables(lrs, absent)
  <2>1. lrs \in Crowded /\ absent = UNION {Out(n, lrs[n]) : n \in Node}
    BY DEF Init
  <2>2. lrs \in [Node -> [Node -> Node \cup {None}]] /\ \A n \in Node : OneEach(n, lrs[n])
    BY <2>1, ActorsAssumption, CrowdedAssumption
  <2>3. absent \subseteq Node \X Node
    BY <2>1 DEF Out
  <2>4. \A n, m \in Node : lrs[n][m] # None => <<n, m>> \in absent
    BY <2>1 DEF Out
  <2> QED
    BY <2>2, <2>3, <2>4, Zenon DEF Tables
<1>4. /\ Links \subseteq link /\ link \subseteq Node \X Node /\ losses \in 0 .. MaxLosses
  BY ActorsAssumption DEF Init
<1>5. Bounded
  <2>1. \A n \in Node : Handlers(n) = {}
    BY DEF Init, Handlers
  <2>2. Cardinality({}) = 0 /\ MaxHandlers \in Nat
    BY FS_EmptySet, ActorsAssumption
  <2> QED
    BY <2>1, <2>2 DEF Bounded
<1> QED
  BY <1>1, <1>2, <1>3, <1>4, <1>5 DEF Basic

\* Which action has been taken.
LEMMA NextCases ==
    ASSUME Next
    PROVE  \/ \E q \in DOMAIN req : Admit(q) \/ LrsPinged(q) \/ Forwarded(q)
           \/ \E n \in Node : Take(n) \/ TakeShutdown(n)
           \/ \E c \in Command : Issue(c) \/ Proceed(c) \/ SendWithNatTraversal(c) \/ Call(c)
           \/ \E q \in DOMAIN req : Timeout(q) \/ Lose(q)
BY Zenon DEF Next, Work

LEMMA BasicKept == Basic /\ [Next]_vars => Basic'
<1> SUFFICES ASSUME Basic, [Next]_vars
    PROVE  Basic'
  OBVIOUS
<1>0. /\ ReqInv(req) /\ CmdInv(cmd, queue, loop) /\ Tables(lrs, absent)
      /\ Links \subseteq link /\ link \subseteq Node \X Node /\ losses \in 0 .. MaxLosses
      /\ Bounded
  BY DEF Basic
<1>1. CASE UNCHANGED vars
  <2>1. \A n \in Node : Handlers(n)' = Handlers(n)
    BY <1>1 DEF vars, Handlers
  <2>2. Bounded'
    BY <1>0, <2>1 DEF Bounded
  <2>3. UNCHANGED <<cmd, queue, loop, req, link, lrs, losses, absent>>
    BY <1>1 DEF vars
  <2> QED
    BY <1>0, <2>2, <2>3 DEF Basic
<1>2. ASSUME UNCHANGED <<req, link, lrs, losses, absent>>, CmdInv(cmd', queue', loop')
      PROVE  Basic'
  <2>1. \A n \in Node : Handlers(n)' = Handlers(n)
    BY <1>2 DEF Handlers
  <2>2. Bounded'
    BY <1>0, <2>1 DEF Bounded
  <2> QED
    BY <1>0, <1>2, <2>2 DEF Basic
<1>3. ASSUME NEW q \in DOMAIN req, Admit(q)
      PROVE  Basic'
  <2>1. /\ ReqInv(req') /\ Handles(q) /\ losses' \in 0 .. MaxLosses /\ Bounded'
        /\ UNCHANGED <<cmd, queue, loop, lrs, absent>>
    BY <1>3, AdmitHandles, Zenon
  <2>2. Links \subseteq link' /\ link' \subseteq Node \X Node
    BY <1>0, <2>1 DEF Handles
  <2> QED
    BY <1>0, <2>1, <2>2 DEF Basic
<1>4. ASSUME NEW q \in DOMAIN req, LrsPinged(q)
      PROVE  Basic'
  <2>1. /\ ReqInv(req') /\ Handles(q) /\ losses' \in 0 .. MaxLosses /\ Bounded'
        /\ Tables(lrs', absent') /\ UNCHANGED <<cmd, queue, loop>>
    BY <1>4, LrsPingedHandles, Zenon
  <2>2. Links \subseteq link' /\ link' \subseteq Node \X Node
    BY <1>0, <2>1 DEF Handles
  <2> QED
    BY <1>0, <2>1, <2>2 DEF Basic
<1>5. ASSUME NEW q \in DOMAIN req, Forwarded(q)
      PROVE  Basic'
  <2>1. /\ ReqInv(req') /\ Bounded' /\ losses' \in 0 .. MaxLosses
        /\ UNCHANGED <<cmd, queue, loop, link, lrs, absent>>
    BY <1>5, ForwardedHandles, Zenon
  <2> QED
    BY <1>0, <2>1 DEF Basic
<1>6. ASSUME NEW q \in DOMAIN req, Timeout(q)
      PROVE  Basic'
  <2>1. /\ ReqInv(req') /\ Bounded'
        /\ UNCHANGED <<cmd, queue, loop, link, lrs, losses, absent>>
    BY <1>6, TimeoutFacts, Zenon
  <2> QED
    BY <1>0, <2>1 DEF Basic
<1>7. ASSUME NEW q \in DOMAIN req, Lose(q)
      PROVE  Basic'
  <2>1. /\ ReqInv(req') /\ Bounded' /\ losses' \in 0 .. MaxLosses
        /\ UNCHANGED <<cmd, queue, loop, link, lrs, absent>>
    BY <1>7, LoseHandles, Zenon
  <2> QED
    BY <1>0, <2>1 DEF Basic
<1>8. ASSUME NEW c \in Command, Issue(c)
      PROVE  Basic'
  <2>1. /\ ReqInv(req') /\ Bounded' /\ link \subseteq link' /\ link' \subseteq Node \X Node
        /\ UNCHANGED <<cmd, queue, loop, lrs, losses, absent>>
    BY <1>8, IssueKeeps, Zenon
  <2> QED
    BY <1>0, <2>1 DEF Basic
<1>9. ASSUME NEW c \in Command, Proceed(c) \/ SendWithNatTraversal(c)
      PROVE  Basic'
  <2>1. Advanced(c)
    BY <1>0, <1>9, ProceedAdvances, TraverseAdvances, Zenon
  <2> QED
    BY <1>2, <2>1 DEF Advanced
<1>10. ASSUME NEW c \in Command, Call(c)
       PROVE  Basic'
  <2>1. UNCHANGED <<req, link, lrs, losses, absent>>
    BY <1>10 DEF Call
  <2> QED
    BY <1>0, <1>2, <1>10, <2>1, CallKeeps, Zenon
<1>11. ASSUME NEW n \in Node, Take(n) \/ TakeShutdown(n)
       PROVE  Basic'
  <2>1. UNCHANGED <<req, link, lrs, losses, absent>>
    BY <1>11 DEF Take, TakeShutdown
  <2> QED
    BY <1>0, <1>2, <1>11, <2>1, TakeKeeps, TakeShutdownKeeps, Zenon
<1> QED
  BY <1>1, <1>3, <1>4, <1>5, <1>6, <1>7, <1>8, <1>9, <1>10, <1>11, NextCases, Zenon

LEMMA BasicTypes == Basic => TypeOK
<1> SUFFICES ASSUME Basic
    PROVE  TypeOK
  OBVIOUS
<1>1. /\ cmd \in [Command -> State] /\ queue \in [Node -> Seq(Command)]
      /\ loop \in [Node -> {"ready", "stopped"} \cup Command]
      /\ \A n \in Node : Lines(cmd, queue[n], n)
  BY DEF Basic, CmdInv, Commands, Loops, Queues
<1>2. \A q \in DOMAIN req : req[q] \in Request
  BY DEF Basic, ReqInv, Requests
<1>3. /\ link \subseteq Node \X Node /\ losses \in 0 .. MaxLosses
      /\ lrs \in [Node -> [Node -> Node \cup {None}]] /\ absent \subseteq Node \X Node
  BY DEF Basic, Tables
<1>4. \A n \in Node : Cardinality(Handlers(n)) <= MaxHandlers /\ Len(queue[n]) <= QueueSize
  BY <1>1 DEF Basic, Bounded, Lines
<1> QED
  BY <1>1, <1>2, <1>3, <1>4, Zenon DEF TypeOK, State

\* The types of Actors, with the bounds on handlers (the permits of
\* NodeActor::run) and on queued commands, for any nodes, commands and tables.
THEOREM ActorsTypeCorrect == Spec => []TypeOK
BY InitBasic, BasicKept, BasicTypes, PTL DEF Spec
-----------------------------------------------------------------------------
(* Bootstraps *)

\* Nobody whose answer could still come runs into a timeout.
LEMMA TimeoutHeld ==
    ASSUME Basic, NEW q \in DOMAIN req, Timeout(q)
    PROVE  Held(q)
<1>1. q \in Waiting /\ ~Busy
  BY TimeoutFacts, Zenon
<1>2. req[q] \in Request /\ req[q].serve \notin {"unsent", "done"} /\ req[q].to \in Node
  BY <1>1 DEF Basic, ReqInv, Requests, Request, Sensible, Waiting
<1>3. CASE req[q].serve = "inbox"
  <2>1. loop[req[q].to] # "ready"
    BY <1>1, <1>3 DEF Busy
  <2> QED
    BY <1>2, <2>1 DEF Basic, CmdInv, Loops, Held
<1> QED
  BY <1>2, <1>3 DEF Request, Held

\* Handlers answer, and only time makes a call fail.
LEMMA HandlesFailsNobody ==
    ASSUME NEW q \in DOMAIN req, Handles(q), NEW o \in Waiting
    PROVE  req'[o].want # "failed"
BY DEF Handles, Waiting

LEMMA BootstrapStep ==
    Basic /\ [Next]_vars => \A q \in Waiting : req'[q].want = "failed" => Held(q)
<1> SUFFICES ASSUME Basic, [Next]_vars, NEW q \in Waiting, req'[q].want = "failed"
    PROVE  Held(q)
  OBVIOUS
<1>0. q \in DOMAIN req /\ req[q].want = "waiting" /\ CmdInv(cmd, queue, loop)
  BY DEF Waiting, Basic
<1>1. req'[q] # req[q]
  BY <1>0
<1>2. ASSUME NEW o \in DOMAIN req, Admit(o) \/ LrsPinged(o) \/ Forwarded(o) \/ Lose(o)
      PROVE  FALSE
  BY <1>2, AdmitHandles, LrsPingedHandles, ForwardedHandles, LoseHandles,
     HandlesFailsNobody, Zenon
<1>3. ASSUME NEW o \in DOMAIN req, Timeout(o)
      PROVE  Held(q)
  <2>1. o # q => req'[q] = req[q]
    BY <1>0, <1>3, TimeoutFacts, Zenon
  <2> QED
    BY <1>1, <1>3, <2>1, TimeoutHeld, Zenon
<1>4. ASSUME NEW c \in Command, Issue(c)
      PROVE  FALSE
  BY <1>0, <1>1, <1>4, IssueKeeps, Zenon
<1>5. req' # req
  BY <1>1
<1>6. ASSUME NEW c \in Command, Proceed(c) \/ SendWithNatTraversal(c) \/ Call(c)
      PROVE  FALSE
  BY <1>5, <1>6 DEF Proceed, SendWithNatTraversal, Call
<1>7. ASSUME NEW n \in Node, Take(n) \/ TakeShutdown(n)
      PROVE  FALSE
  BY <1>5, <1>7 DEF Take, TakeShutdown
<1>8. CASE UNCHANGED vars
  BY <1>5, <1>8 DEF vars
<1> QED
  BY <1>2, <1>3, <1>4, <1>6, <1>7, <1>8, NextCases, Zenon

\* BootstrapsDoNotBlock for any nodes, commands and tables: a call times out
\* only if its request was lost, its node has stopped or executes another
\* command, or its handler itself waits, since Bootstrap runs in a task
\* (NodeActor::run) and does not keep the loop from the requests of others.
THEOREM PeersAnswerBootstraps == Spec => BootstrapsDoNotBlock
BY InitBasic, BasicKept, BootstrapStep, PTL DEF Spec, BootstrapsDoNotBlock
-----------------------------------------------------------------------------
(* Evictions *)

\* Nodes whose loop has stopped, or awaits a command whose call is in B.
Blocked(B) ==
    {n \in Node :
       \/ loop[n] = "stopped"
       \/ /\ loop[n] \in Command
          /\ ~Tried(loop[n]) /\ ~Skipped(loop[n]) /\ Current(loop[n]) \in B}

\* Nothing can happen to p and the calls in B before the caller of p goes on:
\* they wait for each other, or for an answer that will not come.
Stuck(p, B) ==
    /\ B \subseteq Waiting
    /\ \A b \in B \cup {p} :
         \/ req[b].serve = "dropped"
         \/ req[b].serve \in {"lrs", "fwd"} /\ Append(b, req[b].serve) \in B \cup {p}
         \/ req[b].serve = "inbox" /\ req[b].to \in Blocked(B)

\* The ping of a handler has timed out, and the handler has not seen it yet.
TimedOut(q) ==
    /\ req[q].serve = "lrs"
    /\ req[Append(q, "lrs")].want = "failed" /\ req[Append(q, "lrs")].serve # "unsent"

\* Whatever kept the pinged peer from answering keeps it until the eviction.
Frozen ==
    \A q \in DOMAIN req : TimedOut(q) =>
        /\ \E B : Stuck(Append(q, "lrs"), B)
        /\ \A o \in DOMAIN req : TimedOut(o) => o = q

\* A step leaves alone the loops that are blocked.
LoopsStay ==
    \A n \in Node :
        /\ loop[n] = "stopped" => loop'[n] = "stopped"
        /\ /\ loop[n] \in Command /\ ~Tried(loop[n]) /\ ~Skipped(loop[n])
           /\ Current(loop[n]) \in Waiting
           => loop'[n] = loop[n] /\ cmd'[loop[n]] = cmd[loop[n]]

\* A node that is blocked stays so.
LEMMA BlockedKept ==
    ASSUME LoopsStay, NEW B, B \subseteq Waiting
    PROVE  Blocked(B) \subseteq Blocked(B)'
<1> SUFFICES ASSUME NEW n \in Node, n \in Blocked(B)
    PROVE  n \in Blocked(B)'
  BY DEF Blocked
<1>1. CASE loop[n] = "stopped"
  BY <1>1 DEF LoopsStay, Blocked
<1>2. CASE /\ loop[n] \in Command
           /\ ~Tried(loop[n]) /\ ~Skipped(loop[n]) /\ Current(loop[n]) \in B
  <2> DEFINE e == loop[n]
  <2>1. loop'[n] = e /\ cmd'[e] = cmd[e] /\ e \in Command
    BY <1>2 DEF LoopsStay
  <2>2. PICK d \in Command : d = e
    BY <2>1
  <2>3. /\ ~Tried(d) /\ ~Skipped(d) /\ Current(d) \in B /\ cmd'[d] = cmd[d] /\ loop'[n] = d
    BY <1>2, <2>1, <2>2
  <2>4. ~Tried(d)' /\ ~Skipped(d)' /\ Current(d)' \in B
    BY <2>3 DEF Tried, Skipped, AtCandidate, Candidates, Current
  <2>5. ~(Tried(loop[n])') /\ ~(Skipped(loop[n])') /\ Current(loop[n])' \in B
    BY <2>3, <2>4 DEF Tried, Skipped, AtCandidate, Candidates, Current
  <2> QED
    BY <2>2, <2>3, <2>5 DEF Blocked
<1> QED
  BY <1>1, <1>2 DEF Blocked

\* What is stuck stays so if nobody in it is answered.
LEMMA StuckKept ==
    ASSUME ReqInv(req), LoopsStay, NEW p \in DOMAIN req, NEW B, Stuck(p, B),
           DOMAIN req \subseteq DOMAIN req',
           \A b \in B \cup {p} :
             \/ req'[b] = req[b]
             \/ req'[b].serve = "dropped" /\ req'[b].want = req[b].want
    PROVE  Stuck(p, B)'
<1>1. B \subseteq Waiting /\ B \subseteq DOMAIN req /\ \A b \in B : req[b].want = "waiting"
  BY DEF Stuck, Waiting
<1>2. (B \subseteq Waiting)'
  <2>1. \A b \in B : b \in DOMAIN req' /\ req'[b].want = "waiting"
    BY <1>1
  <2> QED
    BY <2>1 DEF Waiting
<1>3. Blocked(B) \subseteq Blocked(B)'
  BY <1>1, BlockedKept
<1>4. ASSUME NEW b \in B \cup {p}
      PROVE  (\/ req[b].serve = "dropped"
              \/ req[b].serve \in {"lrs", "fwd"} /\ Append(b, req[b].serve) \in B \cup {p}
              \/ req[b].serve = "inbox" /\ req[b].to \in Blocked(B))'
  <2>1. CASE req'[b].serve = "dropped"
    BY <2>1
  <2>2. CASE req'[b] = req[b]
    <3>1. \/ req[b].serve = "dropped"
          \/ req[b].serve \in {"lrs", "fwd"} /\ Append(b, req[b].serve) \in B \cup {p}
          \/ req[b].serve = "inbox" /\ req[b].to \in Blocked(B)
      BY DEF Stuck
    <3> QED
      BY <1>3, <2>2, <3>1
  <2> QED
    BY <2>1, <2>2
<1> QED
  BY <1>2, <1>4 DEF Stuck

\* No step wakes a loop that awaits a call.
LEMMA EveryStepLoopsStay == Basic /\ [Next]_vars => LoopsStay
<1> SUFFICES ASSUME Basic, [Next]_vars
    PROVE  LoopsStay
  OBVIOUS
<1>0. CmdInv(cmd, queue, loop) /\ Loops(cmd, loop) /\ {"ready", "stopped"} \cap Command = {}
  BY ActorsAssumption DEF Basic, CmdInv
<1>1. \A n \in Node : loop[n] \in Command => cmd[loop[n]].state = "running"
  BY <1>0 DEF Loops
<1>2. CASE UNCHANGED <<cmd, loop>>
  BY <1>2 DEF LoopsStay
<1>3. ASSUME NEW c \in Command, Advanced(c)
      PROVE  LoopsStay
  <2> SUFFICES ASSUME NEW n \in Node
      PROVE  /\ loop[n] = "stopped" => loop'[n] = "stopped"
             /\ /\ loop[n] \in Command /\ ~Tried(loop[n]) /\ ~Skipped(loop[n])
                /\ Current(loop[n]) \in Waiting
                => loop'[n] = loop[n] /\ cmd'[loop[n]] = cmd[loop[n]]
    BY Zenon DEF LoopsStay
  <2>1. loop[n] # c => loop'[n] = loop[n] /\ (loop[n] \in Command => cmd'[loop[n]] = cmd[loop[n]])
    BY <1>3, Zenon DEF Advanced
  <2>2. loop[n] = c => Tried(loop[n]) \/ Skipped(loop[n]) \/ Current(loop[n]) \notin Waiting
    BY <1>3, Zenon DEF Advanced
  <2>3. loop[n] = "stopped" => loop[n] # c
    BY <1>0
  <2> QED
    BY <2>1, <2>2, <2>3, Zenon
<1>4. ASSUME NEW c \in Command, Call(c)
      PROVE  LoopsStay
  <2>1. /\ loop' = loop /\ cmd[c].state = "idle"
        /\ \A d \in Command : d # c => cmd'[d] = cmd[d]
    BY <1>4 DEF Call, Basic, CmdInv, Commands
  <2>2. \A n \in Node : loop[n] \in Command => cmd'[loop[n]] = cmd[loop[n]]
    BY <1>1, <2>1
  <2> QED
    BY <2>1, <2>2 DEF LoopsStay
<1>5. ASSUME NEW n \in Node, Take(n) \/ TakeShutdown(n)
      PROVE  LoopsStay
  <2>1. loop[n] = "ready"
    BY <1>5 DEF Take, TakeShutdown
  <2>3. \A m \in Node : m # n => loop'[m] = loop[m]
    BY <1>0, <1>5 DEF Take, TakeShutdown, Loops
  <2>4. ASSUME NEW d \in Command, cmd[d].state = "running"
        PROVE  cmd'[d] = cmd[d]
    BY <1>0, <1>5, <2>4, TakeCommand, ShutdownCommand
  <2>5. loop[n] # "stopped" /\ loop[n] \notin Command
    BY <1>0, <2>1
  <2> QED
    BY <1>1, <2>3, <2>4, <2>5 DEF LoopsStay
<1>6. ASSUME NEW q \in DOMAIN req, \/ Admit(q) \/ LrsPinged(q) \/ Forwarded(q)
                                   \/ Timeout(q) \/ Lose(q)
      PROVE  LoopsStay
  BY <1>2, <1>6 DEF Admit, LrsPinged, Forwarded, Timeout, Lose
<1>7. ASSUME NEW c \in Command, Issue(c)
      PROVE  LoopsStay
  BY <1>2, <1>7 DEF Issue
<1>8. ASSUME NEW c \in Command, Proceed(c) \/ SendWithNatTraversal(c)
      PROVE  LoopsStay
  BY <1>0, <1>3, <1>8, ProceedAdvances, TraverseAdvances, Zenon
<1>9. CASE UNCHANGED vars
  BY <1>2, <1>9 DEF vars
<1> QED
  BY <1>4, <1>5, <1>6, <1>7, <1>8, <1>9, NextCases, Zenon

\* While a handler has not seen that its ping has timed out, that is so for no
\* other, and no time passes.
LEMMA TimedOutBusy ==
    ASSUME ReqInv(req), NEW q \in DOMAIN req, TimedOut(q)
    PROVE  Busy /\ Append(q, "lrs") \in DOMAIN req \ Waiting
<1>1. req[q].serve = "lrs" /\ Append(q, "lrs") \in DOMAIN req
  BY Zenon DEF TimedOut, ReqInv, Served
<1>2. Append(q, "lrs") \notin Waiting
  BY DEF TimedOut, Waiting
<1> QED
  BY <1>1, <1>2 DEF Busy

\* No step but a timeout makes another ping time out.
LEMMA TimedOutBefore ==
    ASSUME ReqInv(req), ReqInv(req'), NEW a \in DOMAIN req, Handles(a),
           NEW q \in DOMAIN req', TimedOut(q)'
    PROVE  q \in DOMAIN req /\ TimedOut(q) /\ q # a
<1> DEFINE p == Append(q, "lrs")
<1>1. req'[q].serve = "lrs" /\ req'[p].want = "failed" /\ req'[p].serve # "unsent"
  BY DEF TimedOut
<1>2. p \in DOMAIN req'
  BY <1>1, Zenon DEF ReqInv, Served
<1> HIDE DEF p
<1>3. p \in DOMAIN req
  BY <1>1, <1>2 DEF Handles
<1>4. q \in DOMAIN req
  BY <1>1 DEF Handles
<1>5. q # a
  <2> SUFFICES ASSUME q = a
      PROVE  FALSE
    OBVIOUS
  <2>1. req[q].serve = "inbox"
    BY <1>1 DEF Handles
  <2> QED
    BY <1>3, <1>4, <2>1, Zenon DEF p, ReqInv, Served
<1>6. req[q].serve = "lrs"
  BY <1>1, <1>4, <1>5 DEF Handles
<1>7. req[p].want = "failed" /\ req[p].serve # "unsent"
  <2>1. CASE p # a
    BY <1>1, <1>3, <2>1 DEF Handles
  <2>2. CASE p = a
    BY <1>1, <2>2 DEF Handles
  <2> QED
    BY <2>1, <2>2
<1> QED
  BY <1>4, <1>5, <1>6, <1>7 DEF TimedOut, p
\* The handlers that can go on are none of those that are stuck.
LEMMA StuckAway ==
    ASSUME Basic, NEW q \in DOMAIN req, TimedOut(q), NEW B, Stuck(Append(q, "lrs"), B),
           NEW a \in DOMAIN req, a # q, Admit(a) \/ LrsPinged(a) \/ Forwarded(a)
    PROVE  a \notin B \cup {Append(q, "lrs")}
<1> DEFINE p == Append(q, "lrs")
<1> SUFFICES ASSUME a \in B \cup {p}
    PROVE  FALSE
  OBVIOUS
<1>0. /\ {"ready", "stopped"} \cap Command = {} /\ q \in Seq(Part) /\ a \in Seq(Part)
      /\ B \subseteq Waiting
  BY ActorsAssumption DEF Basic, ReqInv, Keyed, Stuck
<1>1. \/ req[a].serve = "dropped"
      \/ req[a].serve \in {"lrs", "fwd"} /\ Append(a, req[a].serve) \in B \cup {p}
      \/ req[a].serve = "inbox" /\ req[a].to \in Blocked(B)
  BY Zenon DEF Stuck
<1>2. ASSUME NEW as \in {"lrs", "fwd"}, Append(a, as) = p
      PROVE  a = q /\ as = "lrs"
  <2>1. "lrs" \in {"lrs", "fwd"}
    OBVIOUS
  <2> QED
    BY <1>0, <1>2, <2>1, AppendFacts, Zenon
<1> HIDE DEF p
<1>3. CASE Admit(a)
  <2>1. req[a].serve = "inbox" /\ loop[req[a].to] = "ready"
    BY <1>3, AdmitHandles, Zenon
  <2> QED
    BY <1>0, <1>1, <2>1 DEF Blocked
<1>4. CASE LrsPinged(a)
  <2>1. req[a].serve = "lrs" /\ Append(a, "lrs") \notin Waiting
    BY <1>4, LrsPingedHandles, Zenon
  <2>2. Append(a, "lrs") = p
    BY <1>0, <1>1, <2>1
  <2> QED
    BY <1>2, <2>2
<1>5. CASE Forwarded(a)
  <2>1. req[a].serve = "fwd" /\ Append(a, "fwd") \notin Waiting
    BY <1>5, ForwardedHandles, Zenon
  <2>2. Append(a, "fwd") = p
    BY <1>0, <1>1, <2>1
  <2> QED
    BY <1>2, <2>2
<1> QED
  BY <1>3, <1>4, <1>5

\* When a ping times out, everybody waits for everybody else: all calls that
\* wait are stuck.
LEMMA AllStuck ==
    ASSUME Basic, NEW p \in DOMAIN req, Len(p) > 3, Timeout(p)
    PROVE  \E B : Stuck(p, B)'
<1>b. PICK B : B = Waiting \ {p}
  OBVIOUS
<1>0. /\ ReqInv(req) /\ CmdInv(cmd, queue, loop) /\ Loops(cmd, loop)
  BY DEF Basic, CmdInv
<1>1. /\ DOMAIN req' = DOMAIN req /\ ~Busy /\ p \in Waiting
      /\ \A o \in DOMAIN req : o # p => req'[o] = req[o]
      /\ Same(req'[p], req[p]) /\ req'[p].serve = req[p].serve
      /\ UNCHANGED <<cmd, loop>>
  BY TimeoutFacts, Zenon
<1>2. Waiting' \ {p} = B
  BY <1>1, <1>b DEF Waiting
<1>3. Blocked(B) \subseteq Blocked(B)'
  BY <1>1, <1>b, BlockedKept, EveryStepLoopsStay DEF Next
<1>4. ASSUME NEW b \in Waiting
      PROVE  /\ b \in DOMAIN req /\ b \in Waiting
             /\ req'[b].serve = req[b].serve /\ req'[b].to = req[b].to
             /\ req[b].serve \in {"dropped", "lrs", "fwd", "inbox"} /\ req[b].to \in Node
  <2>1. b \in DOMAIN req /\ req[b].want = "waiting"
    BY <1>4 DEF Waiting
  <2>2. req[b] \in Request /\ Sensible(req[b])
    BY <1>0, <2>1, Zenon DEF ReqInv, Requests
  <2> QED
    BY <1>1, <1>4, <2>1, <2>2 DEF Request, Sensible, Same
<1>5. ASSUME NEW b \in Waiting, req[b].serve = "inbox"
      PROVE  req[b].to \in Blocked(B)
  <2> DEFINE n == req[b].to
  <2>1. n \in Node /\ loop[n] # "ready"
    BY <1>1, <1>4, <1>5 DEF Busy
  <2>2. CASE loop[n] = "stopped"
    BY <2>1, <2>2 DEF Blocked
  <2>3. CASE loop[n] \in Command
    <3>1. PICK e \in Command : e = loop[n]
      BY <2>3
    <3>2. cmd[e].state = "running"
      BY <1>0, <2>1, <3>1 DEF Loops
    <3>3. ~Tried(e) /\ ~Skipped(e) /\ Current(e) \in Waiting
      BY <1>1, <3>2 DEF Busy
    <3>4. PICK k : k = Current(e)
      OBVIOUS
    <3>5. Len(k) = 3
      BY <1>0, <3>4, CurrentKey, Zenon
    <3>6. Current(e) \in B
      <4>1. Len(p) # 3
        <5>1. p \in Seq(Part)
          BY <1>0 DEF ReqInv, Keyed
        <5> QED
          BY <5>1
      <4>2. k # p
        BY <3>5, <4>1, Zenon
      <4> QED
        BY <1>b, <3>3, <3>4, <4>2
    <3> QED
      BY <2>1, <3>1, <3>3, <3>6 DEF Blocked
  <2> QED
    BY <1>0, <2>1, <2>2, <2>3 DEF Loops
<1>6. ASSUME NEW b \in Waiting, req[b].serve \in {"lrs", "fwd"}
      PROVE  Append(b, req[b].serve) \in Waiting
  BY <1>1, <1>4, <1>6 DEF Busy
<1>7. \A b \in Waiting :
         \/ req[b].serve = "dropped"
         \/ req[b].serve \in {"lrs", "fwd"} /\ Append(b, req[b].serve) \in Waiting
         \/ req[b].serve = "inbox" /\ req[b].to \in Blocked(B)
  BY <1>4, <1>5, <1>6
<1>8. B \cup {p} = Waiting
  BY <1>1, <1>b
<1>9. B \subseteq Waiting'
  BY <1>2
<1>10. \A b \in Waiting :
         \/ req'[b].serve = "dropped"
         \/ req'[b].serve \in {"lrs", "fwd"} /\ Append(b, req'[b].serve) \in B \cup {p}
         \/ req'[b].serve = "inbox" /\ req'[b].to \in Blocked(B)'
  BY <1>3, <1>4, <1>7, <1>8
<1> QED
  BY <1>8, <1>9, <1>10 DEF Stuck

\* Frozen is inductive: what is stuck stays, and what times out was stuck.
LEMMA FrozenKept == Basic /\ Frozen /\ [Next]_vars => Frozen'
<1> SUFFICES ASSUME Basic, Frozen, [Next]_vars
    PROVE  Frozen'
  OBVIOUS
<1>0. ReqInv(req) /\ ReqInv(req') /\ LoopsStay /\ CmdInv(cmd, queue, loop)
  BY BasicKept, EveryStepLoopsStay, Zenon DEF Basic
<1>1. ASSUME \A q \in DOMAIN req' : TimedOut(q)' => q \in DOMAIN req /\ TimedOut(q),
             \A q \in DOMAIN req : \A B : TimedOut(q) /\ TimedOut(q)' /\ Stuck(Append(q, "lrs"), B)
                 => Stuck(Append(q, "lrs"), B)'
      PROVE  Frozen'
  <2>1. ASSUME NEW q \in DOMAIN req', TimedOut(q)'
        PROVE  /\ \E B : Stuck(Append(q, "lrs"), B)'
               /\ \A o \in DOMAIN req' : TimedOut(o)' => o = q
    <3>1. q \in DOMAIN req /\ TimedOut(q)
      BY <1>1, <2>1
    <3>2. /\ \E B : Stuck(Append(q, "lrs"), B)
          /\ \A o \in DOMAIN req : TimedOut(o) => o = q
      BY <3>1, Zenon DEF Frozen
    <3>3. PICK B : Stuck(Append(q, "lrs"), B)
      BY <3>2
    <3>4. Stuck(Append(q, "lrs"), B)'
      BY <1>1, <2>1, <3>1, <3>3, Zenon
    <3> QED
      BY <1>1, <3>2, <3>4, Zenon
  <2> QED
    BY <2>1, Zenon DEF Frozen
<1>2. CASE req' = req
  <2>1. \A q \in DOMAIN req' : TimedOut(q)' => q \in DOMAIN req /\ TimedOut(q)
    BY <1>2 DEF TimedOut
  <2>2. ASSUME NEW q \in DOMAIN req, NEW B, TimedOut(q), Stuck(Append(q, "lrs"), B)
        PROVE  Stuck(Append(q, "lrs"), B)'
    <3> DEFINE p == Append(q, "lrs")
    <3>1. p \in DOMAIN req
      BY <1>0, <2>2, TimedOutBusy, Zenon
    <3>2. DOMAIN req \subseteq DOMAIN req' /\ \A b \in B \cup {p} : req'[b] = req[b]
      BY <1>2
    <3> HIDE DEF p
    <3> QED
      BY <1>0, <2>2, <3>1, <3>2, StuckKept, Zenon DEF p
  <2> QED
    BY <1>1, <2>1, <2>2
<1>3. ASSUME NEW a \in DOMAIN req, Handles(a),
             \/ Admit(a) \/ LrsPinged(a) \/ Forwarded(a)
             \/ req'[a].serve = "dropped" /\ req'[a].want = req[a].want
      PROVE  Frozen'
  <2>1. \A q \in DOMAIN req' : TimedOut(q)' => q \in DOMAIN req /\ TimedOut(q) /\ q # a
    BY <1>0, <1>3, TimedOutBefore, Zenon
  <2>2. ASSUME NEW q \in DOMAIN req, NEW B, TimedOut(q), TimedOut(q)',
               Stuck(Append(q, "lrs"), B)
        PROVE  Stuck(Append(q, "lrs"), B)'
    <3> DEFINE p == Append(q, "lrs")
    <3>1. p \in DOMAIN req
      BY <1>0, <2>2, TimedOutBusy, Zenon
    <3>2. DOMAIN req \subseteq DOMAIN req' /\ \A o \in DOMAIN req : o # a => req'[o] = req[o]
      BY <1>3 DEF Handles
    <3>3. a # q
      BY <2>1, <2>2, <3>2
    <3>4. \/ a \notin B \cup {p}
          \/ req'[a].serve = "dropped" /\ req'[a].want = req[a].want
      BY <1>3, <2>2, <3>3, StuckAway, Zenon
    <3>5. B \cup {p} \subseteq DOMAIN req
      BY <2>2, <3>1 DEF Stuck, Waiting
    <3> HIDE DEF p
    <3>6. \A b \in B \cup {p} :
             \/ req'[b] = req[b]
             \/ req'[b].serve = "dropped" /\ req'[b].want = req[b].want
      BY <3>2, <3>4, <3>5, Zenon
    <3> QED
      BY <1>0, <2>2, <3>1, <3>2, <3>6, StuckKept, Zenon DEF p
  <2> QED
    BY <1>1, <2>1, <2>2
<1>4. ASSUME NEW c \in Command, Issue(c)
      PROVE  Frozen'
  <2> DEFINE k == Current(c)
  <2>0. /\ DOMAIN req' = DOMAIN req \cup {k} /\ \A o \in DOMAIN req : req'[o] = req[o]
        /\ req'[k].want = "failed" => req'[k].serve = "unsent"
        /\ req'[k].serve \in {"inbox", "unsent"}
    BY <1>4, IssueKeeps, Zenon
  <2>1. ASSUME NEW q \in DOMAIN req', TimedOut(q)'
        PROVE  q \in DOMAIN req /\ TimedOut(q)
    <3> DEFINE p == Append(q, "lrs")
    <3>1. req'[q].serve = "lrs" /\ req'[p].want = "failed" /\ req'[p].serve # "unsent"
      BY <2>1 DEF TimedOut
    <3>2. p \in DOMAIN req'
      BY <1>0, <3>1, Zenon DEF ReqInv, Served
    <3> HIDE DEF p, k
    <3>3. q \in DOMAIN req /\ p \in DOMAIN req
      BY <2>0, <3>1, <3>2
    <3> QED
      BY <2>0, <3>1, <3>3 DEF TimedOut, p
  <2>2. ASSUME NEW q \in DOMAIN req, NEW B, TimedOut(q), Stuck(Append(q, "lrs"), B)
        PROVE  Stuck(Append(q, "lrs"), B)'
    <3> DEFINE p == Append(q, "lrs")
    <3>1. p \in DOMAIN req
      BY <1>0, <2>2, TimedOutBusy, Zenon
    <3>2. B \cup {p} \subseteq DOMAIN req
      BY <2>2, <3>1 DEF Stuck, Waiting
    <3>3. DOMAIN req \subseteq DOMAIN req' /\ \A b \in B \cup {p} : req'[b] = req[b]
      BY <2>0, <3>2
    <3> HIDE DEF p
    <3> QED
      BY <1>0, <2>2, <3>1, <3>3, StuckKept, Zenon DEF p
  <2> QED
    BY <1>1, <2>1, <2>2
<1>5. ASSUME NEW a \in DOMAIN req, Timeout(a)
      PROVE  Frozen'
  <2>0. /\ DOMAIN req' = DOMAIN req /\ ~Busy
        /\ \A o \in DOMAIN req : o # a => req'[o] = req[o]
        /\ req'[a].serve = req[a].serve
    BY <1>5, TimeoutFacts, Zenon
  <2>1. \A q \in DOMAIN req : ~TimedOut(q)
    BY <1>0, <2>0, TimedOutBusy, Zenon
  <2>2. ASSUME NEW q \in DOMAIN req, TimedOut(q)'
        PROVE  Append(q, "lrs") = a
    <3> DEFINE p == Append(q, "lrs")
    <3>1. req'[q].serve = "lrs" /\ req'[p].want = "failed" /\ req'[p].serve # "unsent"
      BY <2>2 DEF TimedOut
    <3>2. p \in DOMAIN req
      BY <1>0, <2>0, <3>1, Zenon DEF ReqInv, Served
    <3>3. req[q].serve = "lrs"
      BY <2>0, <3>1, Zenon
    <3> HIDE DEF p
    <3>4. p # a => TimedOut(q)
      BY <2>0, <3>1, <3>2, <3>3 DEF TimedOut, p
    <3> QED
      BY <2>1, <3>4 DEF p
  <2>3. \A q \in DOMAIN req : q \in Seq(Part) /\ Len(q) >= 3
    BY <1>0 DEF ReqInv, Keyed
  <2>4. ASSUME NEW q \in DOMAIN req, TimedOut(q)'
        PROVE  /\ \E B : Stuck(Append(q, "lrs"), B)'
               /\ \A o \in DOMAIN req : TimedOut(o)' => o = q
    <3>1. Append(q, "lrs") = a
      BY <2>2, <2>4
    <3>2. "lrs" \in {"lrs", "fwd"}
      OBVIOUS
    <3>3. Len(Append(q, "lrs")) = Len(q) + 1
      BY <2>3, <3>2, AppendFacts, Zenon
    <3>4. Len(a) > 3
      BY <2>3, <3>1, <3>3
    <3>5. \E B : Stuck(a, B)'
      BY <1>5, <3>4, AllStuck
    <3>6. \A o \in DOMAIN req : TimedOut(o)' => o = q
      BY <2>2, <2>3, <3>1, <3>2, AppendFacts, Zenon
    <3> QED
      BY <3>1, <3>5, <3>6
  <2> QED
    BY <2>0, <2>4 DEF Frozen
<1>6. ASSUME NEW a \in DOMAIN req, Admit(a) \/ LrsPinged(a) \/ Forwarded(a) \/ Lose(a)
      PROVE  Frozen'
  BY <1>3, <1>6, AdmitHandles, LrsPingedHandles, ForwardedHandles, LoseHandles, Zenon
<1>7. ASSUME NEW c \in Command, Proceed(c) \/ SendWithNatTraversal(c) \/ Call(c)
      PROVE  req' = req
  BY <1>7 DEF Proceed, SendWithNatTraversal, Call
<1>8. ASSUME NEW n \in Node, Take(n) \/ TakeShutdown(n)
      PROVE  req' = req
  BY <1>8 DEF Take, TakeShutdown
<1>9. CASE UNCHANGED vars
  BY <1>2, <1>9 DEF vars
<1> QED
  BY <1>2, <1>4, <1>5, <1>6, <1>7, <1>8, <1>9, NextCases, Zenon
\* The last part of a name.
LEMMA LastAppend ==
    ASSUME NEW S, NEW q \in Seq(S), NEW a \in S
    PROVE  Append(q, a)[Len(Append(q, a))] = a
OBVIOUS

LEMMA InitFrozen == Init => Frozen
BY DEF Init, Frozen

\* A step evicts nobody but the peer whose ping has failed, and what kept that
\* peer from answering is still there.
LEMMA EvictionStep ==
    ASSUME Basic, Frozen, [Next]_vars, NEW n \in Node, NEW y \in Node, Evicted(n, y)
    PROVE  \E p \in DOMAIN req :
             /\ Len(p) > 3 /\ p[Len(p)] = "lrs" /\ req[p].from = n /\ req[p].to = y
             /\ req[p].want = "failed"
             /\ Held(p) \/ req[p].serve = "unsent"
<1>0. ReqInv(req) /\ Loops(cmd, loop)
  BY DEF Basic, CmdInv
<1>1. lrs' # lrs
  BY DEF Evicted
<1>2. PICK q \in DOMAIN req : LrsPinged(q)
  <2>1. ASSUME NEW q \in DOMAIN req, Admit(q) \/ Forwarded(q) \/ Timeout(q) \/ Lose(q)
        PROVE  lrs' = lrs
    BY <2>1 DEF Admit, Forwarded, Timeout, Lose
  <2>2. ASSUME NEW c \in Command, Issue(c) \/ Proceed(c) \/ SendWithNatTraversal(c) \/ Call(c)
        PROVE  lrs' = lrs
    BY <2>2 DEF Issue, Proceed, SendWithNatTraversal, Call
  <2>3. ASSUME NEW m \in Node, Take(m) \/ TakeShutdown(m)
        PROVE  lrs' = lrs
    BY <2>3 DEF Take, TakeShutdown
  <2>4. UNCHANGED vars => lrs' = lrs
    BY DEF vars
  <2> QED
    BY <1>1, <2>1, <2>2, <2>3, <2>4, NextCases, Zenon
<1> DEFINE p == Append(q, "lrs")
<1>3. /\ req[q].serve = "lrs" /\ p \in DOMAIN req \ Waiting
      /\ req[p].from = n /\ req[p].to = y /\ req[p].want = "failed"
  BY <1>2, LrsPingedHandles, Zenon
<1>4. q \in Seq(Part) /\ Len(q) >= 3 /\ "lrs" \in {"lrs", "fwd"} /\ "lrs" \in Part
  BY <1>0, Parts DEF ReqInv, Keyed
<1>5. Len(p) = Len(q) + 1
  BY <1>4, AppendFacts, Zenon
<1>6. p[Len(p)] = "lrs"
  BY <1>4, LastAppend, Zenon
<1>7. Held(p) \/ req[p].serve = "unsent"
  <2> SUFFICES ASSUME req[p].serve # "unsent"
      PROVE  Held(p)
    OBVIOUS
  <2>1. TimedOut(q)
    BY <1>3 DEF TimedOut
  <2>2. PICK B : Stuck(p, B)
    BY <2>1 DEF Frozen
  <2> HIDE DEF p
  <2>3. \/ req[p].serve \in {"dropped", "lrs", "fwd"}
        \/ req[p].to \in Blocked(B)
    BY <2>2 DEF Stuck
  <2> QED
    BY <1>0, <2>3 DEF Held, Blocked, Loops
<1> HIDE DEF p
<1>8. Len(p) > 3
  BY <1>4, <1>5
<1> QED
  BY <1>3, <1>6, <1>7, <1>8, Zenon

\* OnlyUnheardPeersEvicted for any nodes, commands, tables and limits, whether
\* requests or answers are lost.  That the ping has failed is not enough: what
\* kept the peer from being heard must still be there when the handler goes on
\* and evicts it (evict_and_insert after the ping in handle_message).  Frozen
\* carries this over the steps in between.
THEOREM OnlyUnheardEvicted == Spec => OnlyUnheardPeersEvicted
<1>1. Init => Basic /\ Frozen
  BY InitBasic, InitFrozen
<1>2. Basic /\ Frozen /\ [Next]_vars => (Basic /\ Frozen)'
  BY BasicKept, FrozenKept
<1>3. Basic /\ Frozen /\ [Next]_vars =>
        \A n, y \in Node :
          Evicted(n, y) =>
            \E p \in DOMAIN req :
              /\ Len(p) > 3 /\ p[Len(p)] = "lrs" /\ req[p].from = n /\ req[p].to = y
              /\ req[p].want = "failed"
              /\ Held(p) \/ req[p].serve = "unsent"
  BY EvictionStep, Zenon
<1> QED
  BY <1>1, <1>2, <1>3, PTL DEF Spec, OnlyUnheardPeersEvicted
-----------------------------------------------------------------------------
(* Relays *)

\* No command becomes idle again, and a GetProviders goes on by traversing.
LEMMA CommandStep ==
    ASSUME Basic, [Next]_vars, NEW d \in Command
    PROVE  /\ cmd[d].state # "idle" => cmd'[d].state # "idle"
           /\ KindOf[d] = "get" =>
                \/ cmd'[d] = cmd[d]
                \/ cmd'[d].state \in {"queued", "stopped"}
                \/ cmd'[d].state = "running" /\ cmd'[d].step = "direct"
                \/ SendWithNatTraversal(d)
<1>0. CmdInv(cmd, queue, loop)
  BY DEF Basic
<1>1. CASE cmd' = cmd
  BY <1>1
<1>2. ASSUME NEW c \in Command, Call(c)
      PROVE  cmd'[d] = cmd[d] \/ cmd'[d].state \in {"queued", "stopped"}
  BY <1>0, <1>2, CallCommand, Zenon
<1>3. ASSUME NEW n \in Node, Take(n)
      PROVE  cmd'[d] = cmd[d] \/ (cmd'[d].state = "running" /\ cmd'[d].step = FirstStep(d))
  BY <1>0, <1>3, TakeCommand, Zenon
<1>4. KindOf[d] = "get" => FirstStep(d) = "direct"
  BY DEF FirstStep
<1>5. ASSUME NEW n \in Node, TakeShutdown(n)
      PROVE  \/ cmd'[d] = cmd[d] \/ cmd'[d].state = "stopped"
             \/ cmd'[d].state = "done" /\ KindOf[d] = "shutdown"
  BY <1>0, <1>5, ShutdownCommand, Zenon
<1>6. ASSUME NEW c \in Command, Proceed(c) \/ SendWithNatTraversal(c)
      PROVE  /\ d # c => cmd'[d] = cmd[d]
             /\ cmd'[d].state # "idle" \/ cmd'[d] = cmd[d]
             /\ KindOf[d] = "get" => cmd'[d] = cmd[d] \/ SendWithNatTraversal(d)
  <2>1. \A e \in Command : e # c => cmd'[e] = cmd[e]
    BY <1>0, <1>6, ProceedAdvances, TraverseAdvances, Zenon DEF Advanced
  <2>2. cmd[c].state = "running" /\ Fitting(c, cmd[c]) /\ cmd[c] \in State
    BY <1>0, <1>6 DEF CmdInv, Commands, Proceed, SendWithNatTraversal
  <2>3. CASE Proceed(c)
    <3>1. KindOf[c] # "get" /\ (Goto(c, "lookup", 1) \/ Reply(c, "none"))
      BY <2>2, <2>3 DEF Proceed, Fitting
    <3>2. cmd'[c].state # "idle"
      BY <1>0, <2>2, <3>1 DEF Goto, Reply, CmdInv, Commands, State
    <3> QED
      BY <2>1, <3>1, <3>2
  <2>4. CASE SendWithNatTraversal(c)
    <3>1. cmd'[c].state # "idle"
      <4>1. \/ \E how \in {"none", "direct", "reversed", "relayed"} : Reply(c, how)
            \/ \E step \in {"direct", "reverse", "retry", "relay"}, i \in Nat : Goto(c, step, i)
        <5>1. /\ cmd[c].step \in {"direct", "reverse", "retry", "relay"}
              /\ \E ok \in BOOLEAN : Traverse(c, ok)
          BY <2>4 DEF SendWithNatTraversal
        <5>2. cmd[c].i + 1 \in Nat /\ 1 \in Nat
          BY <2>2 DEF State
        <5> QED
          BY <5>1, <5>2, TraverseCases
      <4> QED
        BY <1>0, <2>2, <4>1 DEF Goto, Reply, CmdInv, Commands, State
    <3> QED
      BY <2>1, <2>4, <3>1
  <2> QED
    BY <1>6, <2>3, <2>4
<1>7. ASSUME NEW q \in DOMAIN req, \/ Admit(q) \/ LrsPinged(q) \/ Forwarded(q)
                                   \/ Timeout(q) \/ Lose(q)
      PROVE  cmd' = cmd
  BY <1>7 DEF Admit, LrsPinged, Forwarded, Timeout, Lose
<1>8. ASSUME NEW c \in Command, Issue(c)
      PROVE  cmd' = cmd
  BY <1>8 DEF Issue
<1>9. UNCHANGED vars => cmd' = cmd
  BY DEF vars
<1>10. \/ cmd' = cmd
       \/ \E c \in Command : Call(c)
       \/ \E n \in Node : Take(n)
       \/ \E n \in Node : TakeShutdown(n)
       \/ \E c \in Command : Proceed(c) \/ SendWithNatTraversal(c)
  BY <1>7, <1>8, <1>9, NextCases, Zenon
<1>11. CASE \E n \in Node : Take(n)
  BY <1>3, <1>4, <1>11
<1>12. CASE \E n \in Node : TakeShutdown(n)
  BY <1>5, <1>12
<1>13. CASE \E c \in Command : Call(c)
  BY <1>2, <1>13
<1>14. CASE \E c \in Command : Proceed(c) \/ SendWithNatTraversal(c)
  BY <1>6, <1>14
<1> QED
  BY <1>1, <1>10, <1>11, <1>12, <1>13, <1>14, Zenon
\* The relay call of the command c to its candidate i.
Route(c, i) == <<c, "relay", i>>

\* A call that is being answered, and not with a refusal.
Answering(m) ==
    /\ ~m.brief /\ m.serve \in {"inbox", "lrs", "fwd", "done"}
    /\ m.want = IF m.serve = "done" THEN "ok" ELSE "waiting"

RelayCall(c, i, m) ==
    /\ m.kind = "relay" /\ m.inner = "get" /\ m.sender = NodeOf[c]
    /\ m.to = Candidates(c)[i] /\ m.target = TargetOf[c] /\ Answering(m)

PassedOn(c, m) ==
    m.kind = "get" /\ m.to = TargetOf[c] /\ Answering(m) /\ m.serve # "fwd"

\* The call to a candidate that helps is answered by c's peer, if it is made.
Underway(c, i) ==
    Route(c, i) \in DOMAIN req =>
        /\ RelayCall(c, i, req[Route(c, i)])
        /\ req[Route(c, i)].serve = "fwd" => PassedOn(c, req[Append(Route(c, i), "fwd")])

\* The command does not get past a candidate that helps.
Promising(c, i) ==
    /\ cmd[c].state = "running" /\ cmd[c].step = "relay" => cmd[c].i <= i
    /\ cmd[c].state = "done" => cmd[c].how # "none"

Calm(c, i) ==
    /\ Undisturbed(c) /\ TargetOf[c] \notin Gone \cup {NodeOf[c]}
    /\ Helps(c, Candidates(c)[i])

RelayInv ==
    \A c \in Command : KindOf[c] = "get" =>
        \A i \in DOMAIN Candidates(c) : Calm(c, i) => Underway(c, i) /\ Promising(c, i)

LEMMA HandlesKeepsDropped ==
    ASSUME NEW a \in DOMAIN req, Handles(a), NEW q \in DOMAIN req, req[q].serve = "dropped"
    PROVE  q \in DOMAIN req' /\ req'[q].serve = "dropped"
BY DEF Handles

\* What has gone wrong stays so.
LEMMA NothingHeals ==
    ASSUME Basic, [Next]_vars
    PROVE  /\ losses' = 0 => losses = 0
           /\ \A q \in DOMAIN req : q \in DOMAIN req'
                /\ (req[q].serve = "dropped" => req'[q].serve = "dropped")
           /\ absent \subseteq absent'
<1>0. losses \in Nat
  BY ActorsAssumption DEF Basic
<1>1. CASE UNCHANGED <<req, losses, absent>>
  BY <1>1
<1>2. ASSUME NEW a \in DOMAIN req, Handles(a), absent \subseteq absent'
      PROVE  /\ losses' = 0 => losses = 0
             /\ \A q \in DOMAIN req : q \in DOMAIN req'
                  /\ (req[q].serve = "dropped" => req'[q].serve = "dropped")
             /\ absent \subseteq absent'
  <2>1. losses <= losses'
    BY <1>2 DEF Handles
  <2>2. losses' = 0 => losses = 0
    BY <1>0, <2>1
  <2>3. DOMAIN req \subseteq DOMAIN req'
    BY <1>2 DEF Handles
  <2> QED
    BY <1>2, <2>2, <2>3, HandlesKeepsDropped, Zenon
<1>3. ASSUME NEW a \in DOMAIN req, Admit(a) \/ Forwarded(a) \/ Lose(a)
      PROVE  Handles(a) /\ absent \subseteq absent'
  <2>1. absent' = absent
    BY <1>3 DEF Admit, Forwarded, Lose
  <2> QED
    BY <1>3, <2>1, AdmitHandles, ForwardedHandles, LoseHandles
<1>4. ASSUME NEW a \in DOMAIN req, LrsPinged(a)
      PROVE  Handles(a) /\ absent \subseteq absent'
  BY <1>4, LrsPingedHandles, Zenon
<1>5. ASSUME NEW a \in DOMAIN req, Timeout(a)
      PROVE  /\ DOMAIN req' = DOMAIN req /\ UNCHANGED <<losses, absent>>
             /\ \A q \in DOMAIN req : req'[q].serve = req[q].serve
  <2>1. /\ DOMAIN req' = DOMAIN req /\ UNCHANGED <<losses, absent>>
        /\ \A o \in DOMAIN req : o # a => req'[o] = req[o]
        /\ req'[a].serve = req[a].serve
    BY <1>5, TimeoutFacts, Zenon
  <2> QED
    BY <2>1
<1>6. ASSUME NEW c \in Command, Issue(c)
      PROVE  /\ DOMAIN req \subseteq DOMAIN req' /\ UNCHANGED <<losses, absent>>
             /\ \A q \in DOMAIN req : req'[q] = req[q]
  BY <1>6, IssueKeeps
<1>7. ASSUME NEW c \in Command, Proceed(c) \/ SendWithNatTraversal(c) \/ Call(c)
      PROVE  UNCHANGED <<req, losses, absent>>
  BY <1>7 DEF Proceed, SendWithNatTraversal, Call
<1>8. ASSUME NEW n \in Node, Take(n) \/ TakeShutdown(n)
      PROVE  UNCHANGED <<req, losses, absent>>
  BY <1>8 DEF Take, TakeShutdown
<1>9. CASE UNCHANGED vars
  BY <1>1, <1>9 DEF vars
<1>10. CASE \E a \in DOMAIN req : Timeout(a)
  BY <1>5, <1>10
<1>11. CASE \E c \in Command : Issue(c)
  BY <1>6, <1>11
<1>12. CASE \E a \in DOMAIN req : Admit(a) \/ LrsPinged(a) \/ Forwarded(a) \/ Lose(a)
  BY <1>2, <1>3, <1>4, <1>12, Zenon
<1> QED
  BY <1>1, <1>7, <1>8, <1>9, <1>10, <1>11, <1>12, NextCases, Zenon

\* What holds nobody up now has not done so before.
LEMMA CalmBefore ==
    ASSUME Basic, [Next]_vars, NEW c \in Command, NEW i \in DOMAIN Candidates(c), Calm(c, i)'
    PROVE  Calm(c, i)
<1>0. LoopsStay
  BY EveryStepLoopsStay
<1>1. /\ losses' = 0
      /\ \A q \in DOMAIN req' : req'[q].serve # "dropped"
      /\ \A n \in Node \ Gone : loop'[n] # "stopped"
      /\ \A d \in Command : cmd'[d].state # "idle" /\ ~Spawned(d) => NodeOf[d] = NodeOf[c]
  BY DEF Calm, Undisturbed, Spawned
<1>2. /\ losses = 0
      /\ \A q \in DOMAIN req : req[q].serve # "dropped"
      /\ absent \subseteq absent'
  BY <1>1, NothingHeals
<1>3. \A n \in Node \ Gone : loop[n] # "stopped"
  BY <1>0, <1>1 DEF LoopsStay
<1>4. \A d \in Command : cmd[d].state # "idle" => cmd'[d].state # "idle"
  BY CommandStep, Zenon
<1>5. Undisturbed(c)
  BY <1>1, <1>2, <1>3, <1>4 DEF Undisturbed
<1>6. Helps(c, Candidates(c)[i])
  BY <1>2 DEF Calm, Helps, Candidates
<1> QED
  BY <1>5, <1>6 DEF Calm

\* The name of the call and the candidate.
LEMMA RouteFacts ==
    ASSUME NEW c \in Command, NEW i \in DOMAIN Candidates(c)
    PROVE  /\ Route(c, i) \in Seq(Part) /\ Len(Route(c, i)) = 3
           /\ i \in Nat /\ i >= 1 /\ i <= Len(Candidates(c)) /\ Len(Candidates(c)) \in Nat
           /\ Candidates(c)[i] \in Node /\ NodeOf[c] \in Node /\ TargetOf[c] \in Node
<1>1. Candidates(c) \in Seq(Node) /\ NodeOf[c] \in Node /\ TargetOf[c] \in Node
  BY ActorsAssumption DEF Candidates
<1> HIDE DEF Candidates
<1>2. /\ i \in Nat /\ i >= 1 /\ i <= Len(Candidates(c)) /\ Len(Candidates(c)) \in Nat
      /\ Candidates(c)[i] \in Node
  BY <1>1
<1>3. c \in Part /\ "relay" \in Part /\ i \in Part
  BY <1>2, Zenon DEF Part, Word
<1>4. <<c, "relay", i>> \in Seq(Part) /\ Len(<<c, "relay", i>>) = 3
  BY <1>3
<1> QED
  BY <1>1, <1>2, <1>4 DEF Route

\* A handler that is not dropped pings the peer in its way, or gets to the match.
LEMMA HandledHow ==
    ASSUME Basic, NEW q \in DOMAIN req, Admit(q) \/ LrsPinged(q), req'[q].serve # "dropped"
    PROVE  \/ /\ req'[q].serve = "lrs" /\ req'[q].want = req[q].want /\ Same(req'[q], req[q])
              /\ req[q].serve = "inbox"
           \/ \E table : /\ Dispatch(q, table) /\ Out(req[q].to, table) \subseteq absent'
                         /\ req[q].serve \in {"inbox", "lrs"}
<1> DEFINE r == req[q]
           y == lrs[r.to][r.sender]
<1>0. /\ ReqInv(req) /\ losses \in Nat
      /\ link \subseteq Node \X Node /\ Tables(lrs, absent)
  BY ActorsAssumption DEF Basic
<1>1. r \in Request /\ r.to \in Node /\ r.sender \in Node
  BY <1>0 DEF ReqInv, Requests, Request
<1>2. CASE Admit(q)
  <2>1. r.serve = "inbox" /\ UNCHANGED <<lrs, absent>>
    BY <1>2 DEF Admit
  <2>2. CASE Full(r.to)
    <3>1. req' = [req EXCEPT ![q].serve = "dropped"]
      BY <1>2, <2>2 DEF Admit
    <3>2. req'[q].serve = "dropped"
      BY <1>1, <3>1 DEF Request
    <3> QED
      BY <3>2
  <2>3. CASE ~Full(r.to) /\ y # None
    <3>1. HandlerCalls(q, "lrs", Ping(r.to, y, TRUE))
      BY <1>2, <2>3 DEF Admit
    <3>2. y \in Node /\ BucketOf[r.to][y] = BucketOf[r.to][r.sender]
      BY <1>0, <1>1, <2>3 DEF Tables, OneEach
    <3>3. Fresh(Ping(r.to, y, TRUE)) /\ Pinged(r, Ping(r.to, y, TRUE))
      BY <1>1, <3>2 DEF Fresh, Ping, Message, Request, Pinged
    <3>4. "lrs" \in {"lrs", "fwd"} /\ "lrs" # "fwd"
      OBVIOUS
    <3>5. req'[q].serve = "lrs" /\ Same(req'[q], req[q]) /\ req'[q].want = req[q].want
      BY <1>0, <2>1, <3>1, <3>3, <3>4, HandlerCallsHandles, Zenon
    <3> QED
      BY <2>1, <3>5
  <2>4. CASE ~Full(r.to) /\ y = None
    <3>1. Dispatch(q, lrs[r.to])
      BY <1>2, <2>4 DEF Admit
    <3>2. Out(r.to, lrs[r.to]) \subseteq absent'
      BY <1>0, <1>1, <2>1 DEF Tables, Out
    <3> QED
      BY <2>1, <3>1, <3>2
  <2> QED
    BY <2>2, <2>3, <2>4
<1>3. CASE LrsPinged(q)
  <2> DEFINE p == Append(q, "lrs")
             table == IF Stays(p) THEN lrs[r.to] ELSE Replaced(r.to, req[p].to, r.sender)
  <2>1. r.serve = "lrs" /\ absent' = absent \cup Out(r.to, table) /\ Dispatch(q, table)
    BY <1>3, Zenon DEF LrsPinged
  <2> HIDE DEF table
  <2>2. Out(r.to, table) \subseteq absent' /\ r.serve \in {"inbox", "lrs"}
    BY <2>1
  <2> QED
    BY <2>1, <2>2
<1> QED
  BY <1>2, <1>3

\* A good answer finds its caller waiting.
LEMMA AnsweringEnds ==
    ASSUME ReqInv(req), NEW q \in DOMAIN req, Answering(req[q]), req[q].serve # "done"
    PROVE  /\ Answering(Answered(q, TRUE)) /\ Same(Answered(q, TRUE), req[q])
           /\ Answered(q, TRUE).serve = "done"
<1>1. req[q].want = "waiting" /\ ~req[q].brief
  BY DEF Answering
<1>2. LET m == Answered(q, TRUE) IN
      /\ m \in Request /\ Sensible(m) /\ Same(m, req[q]) /\ m.serve = "done"
      /\ req[q].want # "waiting" => m.want = req[q].want
      /\ req[q].want = "waiting" => m.want = IF TRUE THEN "ok" ELSE "no"
  BY AnsweredFacts
<1> DEFINE m == Answered(q, TRUE)
<1>3. Same(m, req[q]) /\ m.serve = "done" /\ m.want = "ok"
  BY <1>1, <1>2
<1> HIDE DEF m
<1>4. Answering(m)
  BY <1>1, <1>3 DEF Answering, Same
<1> QED
  BY <1>3, <1>4 DEF m

\* The peer answers the call that the relay has passed on.
LEMMA PassedOnKept ==
    ASSUME Basic, NEW c \in Command, NEW q \in DOMAIN req, PassedOn(c, req[q]),
           Admit(q) \/ LrsPinged(q), req'[q].serve # "dropped"
    PROVE  PassedOn(c, req'[q])
<1>0. ReqInv(req) /\ req[q].kind = "get" /\ Answering(req[q]) /\ req[q] \in Request
  BY DEF Basic, PassedOn, ReqInv, Requests
<1>1. CASE /\ req'[q].serve = "lrs" /\ req'[q].want = req[q].want /\ Same(req'[q], req[q])
           /\ req[q].serve = "inbox"
  BY <1>1 DEF PassedOn, Same, Answering
<1>2. ASSUME NEW table, Dispatch(q, table), req[q].serve \in {"inbox", "lrs"}
      PROVE  PassedOn(c, req'[q])
  <2>0. ~Unanswered(q)
    BY <1>0 DEF Unanswered, Request
  <2>1. req' = [req EXCEPT ![q] = Answered(q, req[q].kind # "relay")]
    BY <1>0, <1>2, <2>0 DEF Dispatch, Refused, Forwards
  <2>2. (req[q].kind # "relay") = TRUE
    BY <1>0
  <2>3. req'[q] = Answered(q, TRUE)
    BY <2>1, <2>2
  <2>4. Answering(req'[q]) /\ Same(req'[q], req[q]) /\ req'[q].serve = "done"
    BY <1>0, <1>2, <2>3, AnsweringEnds
  <2> QED
    BY <2>4 DEF PassedOn, Same
<1> QED
  BY <1>1, <1>2, HandledHow, Zenon

\* The relay has the peer in its table and a connection to it.
LEMMA RelayPassesOn ==
    ASSUME Basic, losses' = 0, NEW c \in Command, NEW i \in DOMAIN Candidates(c),
           TargetOf[c] \in Contacts[Candidates(c)[i]],
           <<Candidates(c)[i], TargetOf[c]>> \in Links,
           <<Candidates(c)[i], TargetOf[c]>> \notin absent',
           NEW q \in DOMAIN req, RelayCall(c, i, req[q]),
           Admit(q) \/ LrsPinged(q), req'[q].serve # "dropped"
    PROVE  /\ RelayCall(c, i, req'[q])
           /\ req'[q].serve = "fwd" => PassedOn(c, req'[Append(q, "fwd")])
<1> DEFINE r == Candidates(c)[i]
           T == TargetOf[c]
<1>0. /\ ReqInv(req) /\ losses \in Nat /\ link \subseteq Node \X Node /\ Links \subseteq link
      /\ r \in Node /\ T \in Node /\ NodeOf[c] \in Node
  BY RouteFacts, ActorsAssumption DEF Basic
<1>1. /\ req[q].kind = "relay" /\ req[q].inner = "get" /\ req[q].sender = NodeOf[c]
      /\ req[q].to = r /\ req[q].target = T /\ Answering(req[q])
  BY DEF RelayCall
<1>2. CASE /\ req'[q].serve = "lrs" /\ req'[q].want = req[q].want /\ Same(req'[q], req[q])
           /\ req[q].serve = "inbox"
  BY <1>1, <1>2 DEF RelayCall, Same, Answering
<1>3. ASSUME NEW table, Dispatch(q, table), Out(req[q].to, table) \subseteq absent',
             req[q].serve \in {"inbox", "lrs"}
      PROVE  /\ RelayCall(c, i, req'[q])
             /\ req'[q].serve = "fwd" => PassedOn(c, req'[Append(q, "fwd")])
  <2>1. table[T] = None
    BY <1>0, <1>1, <1>3 DEF Out
  <2>2. Forwards(q, table)
    BY <1>1, <2>1 DEF Forwards
  <2>3. ~Refused(q)
    <3>1. Refused(q) => losses' = losses + 1
      BY DEF Refused
    <3>2. losses + 1 # 0
      BY <1>0
    <3> QED
      BY <3>1, <3>2, Zenon
  <2>4. HandlerCalls(q, "fwd", Forward(q))
    BY <1>3, <2>2, <2>3 DEF Dispatch
  <2>5. Fresh(Forward(q)) /\ req[q].kind # "ping"
    BY <1>0, <2>2, ForwardFresh, Zenon
  <2>6. /\ "fwd" \in {"lrs", "fwd"} /\ "fwd" # "lrs"
        /\ req[q].serve = "inbox" \/ req[q].serve = "lrs"
    BY <1>3
  <2>7. /\ req'[Append(q, "fwd")] = Made(Forward(q)) /\ req'[q].serve = "fwd"
        /\ Same(req'[q], req[q]) /\ req'[q].want = req[q].want
    BY <1>0, <2>4, <2>5, <2>6, HandlerCallsHandles, Zenon
  <2>8. RelayCall(c, i, req'[q])
    BY <1>1, <1>3, <2>7 DEF RelayCall, Same, Answering
  <2>9. Forward(q) = Message(r, NodeOf[c], T, "get", "none", NodeOf[c], FALSE)
    BY <1>1 DEF Forward
  <2> DEFINE m == Message(r, NodeOf[c], T, "get", "none", NodeOf[c], FALSE)
  <2>10. /\ m.from = r /\ m.to = T /\ m.kind = "get" /\ ~m.brief /\ m.want = "waiting"
         /\ m.serve = "inbox"
    BY DEF Message
  <2> HIDE DEF m
  <2>11. Reaches(m.from, m.to)
    BY <1>0, <2>10 DEF Reaches
  <2>12. Made(m) = m
    BY <2>11 DEF Made
  <2>13. PassedOn(c, m)
    BY <2>10 DEF PassedOn, Answering
  <2> QED
    BY <2>7, <2>8, <2>9, <2>12, <2>13 DEF m
<1> QED
  BY <1>2, <1>3, HandledHow, Zenon
\* When everybody waits, a node that is up and executes nothing has seen its
\* requests, and its handlers wait for pings, which run out first.
LEMMA CalmWaits ==
    ASSUME Basic, NEW c \in Command, Undisturbed(c), ~Busy, NEW b \in Waiting,
           req[b].to \notin Gone \cup {NodeOf[c]}
    PROVE  /\ req[b].serve # "inbox"
           /\ req[b].serve = "lrs" => \E o \in Waiting : req[o].brief
<1>0. /\ ReqInv(req) /\ Loops(cmd, loop) /\ b \in DOMAIN req /\ req[b].to \in Node
  BY DEF Basic, CmdInv, Waiting, ReqInv, Requests, Request
<1>1. req[b].serve # "inbox"
  <2> SUFFICES ASSUME req[b].serve = "inbox"
      PROVE  FALSE
    OBVIOUS
  <2> DEFINE n == req[b].to
  <2>1. loop[n] # "ready" /\ loop[n] # "stopped"
    BY <1>0 DEF Busy, Undisturbed
  <2>2. PICK e \in Command : e = loop[n]
    BY <1>0, <2>1 DEF Loops
  <2>3. cmd[e].state = "running" /\ NodeOf[e] = n /\ ~Spawned(e)
    BY <1>0, <2>2 DEF Loops, Spawned
  <2>4. NodeOf[e] = NodeOf[c]
    BY <2>3 DEF Undisturbed
  <2> QED
    BY <2>3, <2>4
<1>2. ASSUME req[b].serve = "lrs"
      PROVE  \E o \in Waiting : req[o].brief
  <2>1. Append(b, "lrs") \in Waiting
    BY <1>0, <1>2 DEF Busy
  <2>2. req[Append(b, "lrs")].brief
    BY <1>0, <1>2, Zenon DEF ReqInv, Pings, Pinged
  <2> QED
    BY <2>1, <2>2
<1> QED
  BY <1>1, <1>2

\* Neither the call to the relay nor the one passed on runs into its timeout.
LEMMA NoTimeout ==
    ASSUME Basic, NEW c \in Command, NEW i \in DOMAIN Candidates(c), Calm(c, i),
           Underway(c, i), NEW a \in DOMAIN req, Timeout(a), Route(c, i) \in DOMAIN req
    PROVE  /\ a # Route(c, i)
           /\ req[Route(c, i)].serve = "fwd" => a # Append(Route(c, i), "fwd")
<1> DEFINE R == Route(c, i)
           F == Append(R, "fwd")
<1>0. /\ ReqInv(req) /\ ~Busy /\ a \in Waiting /\ \A o \in Waiting : req[o].brief => req[a].brief
  BY TimeoutFacts DEF Basic, Due
<1>1. /\ RelayCall(c, i, req[R]) /\ (req[R].serve = "fwd" => PassedOn(c, req[F]))
      /\ Undisturbed(c) /\ TargetOf[c] \notin Gone \cup {NodeOf[c]}
      /\ Candidates(c)[i] \notin Gone \cup {NodeOf[c]}
  BY DEF Underway, Calm, Helps
<1> HIDE DEF R, F
<1>2. ASSUME NEW b \in Waiting, ~req[a].brief, req[b].to \notin Gone \cup {NodeOf[c]}
      PROVE  req[b].serve \notin {"inbox", "lrs"}
  BY <1>0, <1>1, <1>2, CalmWaits
<1>3. ASSUME ~req[a].brief, req[R].serve = "fwd"
      PROVE  F \notin Waiting
  <2> SUFFICES ASSUME F \in Waiting
      PROVE  FALSE
    OBVIOUS
  <2>1. PassedOn(c, req[F]) /\ req[F].want = "waiting"
    BY <1>1, <1>3 DEF Waiting
  <2>2. req[F].serve \in {"inbox", "lrs"} /\ req[F].to = TargetOf[c]
    BY <2>1 DEF PassedOn, Answering
  <2> QED
    BY <1>1, <1>2, <1>3, <2>2
<1>4. a # R
  <2> SUFFICES ASSUME a = R
      PROVE  FALSE
    OBVIOUS
  <2>1. req[R].want = "waiting"
    BY <1>0 DEF Waiting
  <2>2. /\ ~req[R].brief /\ req[R].serve \in {"inbox", "lrs", "fwd"}
        /\ req[R].to = Candidates(c)[i]
    BY <1>1, <2>1 DEF RelayCall, Answering
  <2>3. req[R].serve = "fwd"
    BY <1>0, <1>1, <1>2, <2>2
  <2>4. F \in Waiting
    BY <1>0, <2>3 DEF Busy, F, R
  <2> QED
    BY <1>3, <2>2, <2>3, <2>4
<1>5. ASSUME req[R].serve = "fwd"
      PROVE  a # F
  <2> SUFFICES ASSUME a = F
      PROVE  FALSE
    OBVIOUS
  <2>1. ~req[a].brief
    BY <1>1, <1>5 DEF PassedOn, Answering
  <2> QED
    BY <1>0, <1>3, <1>5, <2>1
<1> QED
  BY <1>4, <1>5 DEF F, R

\* A step that touches neither the call to the relay nor the one it passes on.
LEMMA UnderwayAway ==
    ASSUME NEW c \in Command, NEW i \in DOMAIN Candidates(c), ReqInv(req), Underway(c, i),
           Route(c, i) \in DOMAIN req' => Route(c, i) \in DOMAIN req,
           Route(c, i) \in DOMAIN req =>
             /\ req'[Route(c, i)] = req[Route(c, i)]
             /\ req[Route(c, i)].serve = "fwd" =>
                  req'[Append(Route(c, i), "fwd")] = req[Append(Route(c, i), "fwd")]
    PROVE  Underway(c, i)'
<1> DEFINE R == Route(c, i)
           F == Append(R, "fwd")
<1> SUFFICES ASSUME R \in DOMAIN req'
    PROVE  RelayCall(c, i, req'[R]) /\ (req'[R].serve = "fwd" => PassedOn(c, req'[F]))
  BY DEF Underway, Route, RelayCall, PassedOn, Answering, Candidates
<1>1. /\ R \in DOMAIN req /\ req'[R] = req[R] /\ (req[R].serve = "fwd" => req'[F] = req[F])
      /\ RelayCall(c, i, req[R]) /\ (req[R].serve = "fwd" => PassedOn(c, req[F]))
  BY DEF Underway
<1> HIDE DEF R, F
<1> QED
  BY <1>1

\* The call makes its way, whatever step is taken.
LEMMA UnderwayKept ==
    ASSUME Basic, [Next]_vars, NEW c \in Command, NEW i \in DOMAIN Candidates(c),
           Calm(c, i), Calm(c, i)', Underway(c, i)
    PROVE  Underway(c, i)'
<1> DEFINE R == Route(c, i)
           F == Append(R, "fwd")
<1>0. /\ ReqInv(req) /\ CmdInv(cmd, queue, loop) /\ losses' = 0
      /\ \A q \in DOMAIN req' : req'[q].serve # "dropped"
      /\ \A q \in DOMAIN req : q \in DOMAIN req'
      /\ TargetOf[c] \in Contacts[Candidates(c)[i]]
      /\ <<Candidates(c)[i], TargetOf[c]>> \in Links
      /\ <<Candidates(c)[i], TargetOf[c]>> \notin absent'
      /\ Candidates(c)[i] \in Public
  BY NothingHeals DEF Basic, Calm, Undisturbed, Helps, Candidates
<1>1. R \in Seq(Part) /\ Len(R) = 3 /\ F # R
  <2>1. R \in Seq(Part) /\ Len(R) = 3 /\ "fwd" \in {"lrs", "fwd"}
    BY RouteFacts
  <2> QED
    BY <2>1, AppendFacts, Zenon
<1>2. R \in DOMAIN req =>
        /\ RelayCall(c, i, req[R]) /\ (req[R].serve = "fwd" => PassedOn(c, req[F]))
        /\ req[R].serve = "fwd" => F \in DOMAIN req
  BY <1>0, Zenon DEF Underway, ReqInv, Served
<1>3. ASSUME RelayCall(c, i, req'[R]), req'[R].serve = "fwd" => PassedOn(c, req'[F])
      PROVE  Underway(c, i)'
  BY <1>3 DEF Underway, Route, RelayCall, PassedOn, Answering, Candidates
<1>4. ASSUME R \in DOMAIN req' => R \in DOMAIN req,
             R \in DOMAIN req => /\ req'[R] = req[R]
                                 /\ req[R].serve = "fwd" => req'[F] = req[F]
      PROVE  Underway(c, i)'
  BY <1>0, <1>4, UnderwayAway
<1> HIDE DEF R, F
<1>5. CASE req' = req
  BY <1>4, <1>5
<1>6. ASSUME NEW a \in DOMAIN req, Timeout(a)
      PROVE  Underway(c, i)'
  <2>1. DOMAIN req' = DOMAIN req /\ \A o \in DOMAIN req : o # a => req'[o] = req[o]
    BY <1>6, TimeoutFacts, Zenon
  <2>2. R \in DOMAIN req => a # R /\ (req[R].serve = "fwd" => a # F)
    BY <1>6, NoTimeout, Zenon DEF R, F
  <2> QED
    BY <1>2, <1>4, <2>1, <2>2, Zenon
<1>7. ASSUME NEW d \in Command, Issue(d)
      PROVE  Underway(c, i)'
  <2>1. /\ cmd[d].state = "running" /\ ~Tried(d) /\ DOMAIN req' = DOMAIN req \cup {Current(d)}
        /\ \A o \in DOMAIN req : req'[o] = req[o]
        /\ req'[Current(d)] = Made(Outgoing(d))
    BY <1>7, IssueKeeps, Zenon
  <2>2. CASE Current(d) = R
    <3>1. d = c /\ cmd[c].step = "relay" /\ cmd[c].i = i
      BY <2>2 DEF Current, R, Route
    <3>2. AtCandidate(c)
      BY <3>1 DEF AtCandidate
    <3>3. /\ Fresh(Outgoing(c)) /\ Outgoing(c).sender = NodeOf[c] /\ ~Outgoing(c).brief
          /\ Outgoing(c).to = Candidates(c)[i] /\ Outgoing(c).kind = "relay"
          /\ Outgoing(c).inner = "get" /\ Outgoing(c).target = TargetOf[c]
      BY <1>0, <2>1, <3>1, <3>2, OutgoingFresh, Zenon
    <3>4. Reaches(Outgoing(c).from, Outgoing(c).to)
      BY <1>0, <3>3 DEF Reaches
    <3>5. req'[R] = Outgoing(c)
      BY <2>1, <2>2, <3>1, <3>4, Zenon DEF Made
    <3>6. RelayCall(c, i, Outgoing(c)) /\ Outgoing(c).serve # "fwd"
      BY <3>3 DEF RelayCall, Answering, Fresh
    <3> QED
      BY <1>3, <3>5, <3>6, Zenon
  <2>3. CASE Current(d) # R
    BY <1>2, <1>4, <2>1, <2>3
  <2> QED
    BY <2>2, <2>3
<1>8. ASSUME NEW a \in DOMAIN req, Admit(a) \/ LrsPinged(a) \/ Forwarded(a)
      PROVE  Underway(c, i)'
  <2>1. Handles(a)
    BY <1>8, AdmitHandles, LrsPingedHandles, ForwardedHandles, Zenon
  <2>2. \A o \in DOMAIN req : o # a => req'[o] = req[o]
    BY <2>1 DEF Handles
  <2>3. R \in DOMAIN req' => R \in DOMAIN req
    <3> SUFFICES ASSUME R \in DOMAIN req', R \notin DOMAIN req
        PROVE  FALSE
      OBVIOUS
    <3>1. PICK as \in {"lrs", "fwd"} : R = Append(a, as)
      BY <2>1 DEF Handles
    <3>2. a \in Seq(Part) /\ Len(a) >= 3
      BY <1>0 DEF ReqInv, Keyed
    <3>3. Len(Append(a, as)) = Len(a) + 1
      BY <3>2, AppendFacts, Zenon
    <3> QED
      BY <1>1, <3>1, <3>2, <3>3
  <2>4. req'[a].serve # "dropped"
    BY <1>0
  <2>5. CASE a = R /\ ~Forwarded(a)
    <3>1. Admit(a) \/ LrsPinged(a)
      BY <1>8, <2>5
    <3>2. RelayCall(c, i, req[a])
      BY <1>2, <2>5
    <3>3. /\ RelayCall(c, i, req'[a])
          /\ req'[a].serve = "fwd" => PassedOn(c, req'[Append(a, "fwd")])
      BY <1>0, <2>4, <3>1, <3>2, RelayPassesOn, Zenon
    <3> QED
      BY <1>3, <2>5, <3>3 DEF F
  <2>6. CASE a = R /\ Forwarded(a)
    <3>1. /\ req[a].serve = "fwd" /\ F \notin Waiting
          /\ req'[a] = Answered(a, req[F].want = "ok") \/ req'[a].serve = "dropped"
      BY <2>6, ForwardedHandles, Zenon DEF F
    <3>2. RelayCall(c, i, req[a]) /\ PassedOn(c, req[F]) /\ F \in DOMAIN req
      BY <1>2, <2>6, <3>1
    <3>3. (req[F].want = "ok") = TRUE
      BY <3>1, <3>2 DEF PassedOn, Answering, Waiting
    <3>4. req'[a] = Answered(a, TRUE)
      BY <2>4, <3>1, <3>3
    <3>5. Answering(req[a]) /\ req[a].serve # "done"
      BY <3>1, <3>2 DEF RelayCall
    <3>6. Answering(req'[a]) /\ Same(req'[a], req[a]) /\ req'[a].serve = "done"
      BY <1>0, <3>4, <3>5, AnsweringEnds
    <3>7. RelayCall(c, i, req'[a])
      BY <3>2, <3>6 DEF RelayCall, Same
    <3> QED
      BY <1>3, <2>6, <3>6, <3>7
  <2>7. CASE a # R /\ a = F /\ R \in DOMAIN req /\ req[R].serve = "fwd"
    <3>1. PassedOn(c, req[a]) /\ RelayCall(c, i, req[R])
      BY <1>2, <2>7
    <3>2. ~Forwarded(a)
      <4>1. req[a].serve # "fwd"
        BY <3>1 DEF PassedOn
      <4> QED
        BY <4>1 DEF Forwarded
    <3>3. PassedOn(c, req'[a])
      BY <1>8, <2>4, <3>1, <3>2, PassedOnKept, Zenon
    <3> QED
      BY <1>3, <2>2, <2>7, <3>1, <3>3
  <2>8. CASE a # R /\ (R \in DOMAIN req /\ req[R].serve = "fwd" => a # F)
    BY <1>2, <1>4, <2>2, <2>3, <2>8, Zenon
  <2> QED
    BY <2>5, <2>6, <2>7, <2>8, Zenon
<1>9. ASSUME NEW a \in DOMAIN req, Lose(a)
      PROVE  FALSE
  <2>1. losses' > 0
    BY <1>9, LoseHandles, Zenon
  <2> QED
    BY <1>0, <2>1
<1>10. ASSUME NEW d \in Command, Proceed(d) \/ SendWithNatTraversal(d) \/ Call(d)
       PROVE  req' = req
  BY <1>10 DEF Proceed, SendWithNatTraversal, Call
<1>11. ASSUME NEW n \in Node, Take(n) \/ TakeShutdown(n)
       PROVE  req' = req
  BY <1>11 DEF Take, TakeShutdown
<1>12. CASE UNCHANGED vars
  BY <1>5, <1>12 DEF vars
<1> QED
  BY <1>5, <1>6, <1>7, <1>8, <1>9, <1>10, <1>11, <1>12, NextCases, Zenon

\* The command gets its answer from the candidate or an earlier one.
LEMMA PromisingKept ==
    ASSUME Basic, [Next]_vars, NEW c \in Command, KindOf[c] = "get",
           NEW i \in DOMAIN Candidates(c), Calm(c, i), Underway(c, i), Promising(c, i)
    PROVE  Promising(c, i)'
<1>0. /\ CmdInv(cmd, queue, loop) /\ cmd[c] \in State
      /\ i \in Nat /\ i >= 1 /\ i <= Len(Candidates(c)) /\ Len(Candidates(c)) \in Nat
      /\ Candidates(c)[i] \notin {TargetOf[c], NodeOf[c]}
  BY RouteFacts DEF Basic, CmdInv, Commands, Calm, Helps
<1>1. CASE cmd'[c] = cmd[c]
  BY <1>1 DEF Promising
<1>2. CASE cmd'[c].state \in {"queued", "stopped"}
  BY <1>2 DEF Promising
<1>3. CASE cmd'[c].state = "running" /\ cmd'[c].step = "direct"
  BY <1>3 DEF Promising
<1>4. CASE SendWithNatTraversal(c)
  <2> DEFINE none == Tried(c) \/ Skipped(c)
             ok == ~none /\ req[Current(c)].want = "ok"
  <2>1. /\ cmd[c].state = "running" /\ cmd[c].step \in {"direct", "reverse", "retry", "relay"}
        /\ none \/ Current(c) \in DOMAIN req \ Waiting
        /\ Traverse(c, ok) /\ ok \in BOOLEAN /\ queue' = queue
    BY <1>4 DEF SendWithNatTraversal
  <2>2. cmd[c].step = "relay" => ~Tried(c)
    <3>1. cmd[c].step = "relay" => cmd[c].i <= i
      BY <2>1 DEF Promising
    <3>2. cmd[c].i \in Nat
      BY <1>0 DEF State
    <3> QED
      BY <1>0, <3>1, <3>2 DEF Tried
  <2>3. cmd[c].step = "relay" /\ ~ok => cmd[c].i + 1 <= i
    <3> SUFFICES ASSUME cmd[c].step = "relay", ~ok
        PROVE  cmd[c].i + 1 <= i
      OBVIOUS
    <3>1. cmd[c].i <= i /\ cmd[c].i \in Nat
      BY <1>0, <2>1 DEF Promising, State
    <3>2. cmd[c].i # i
      <4> SUFFICES ASSUME cmd[c].i = i
          PROVE  FALSE
        OBVIOUS
      <4>1. ~Tried(c) /\ ~Skipped(c)
        BY <1>0, <2>2 DEF Skipped
      <4>2. Current(c) = Route(c, i)
        BY DEF Current, Route
      <4>3. Current(c) \in DOMAIN req \ Waiting /\ req[Current(c)].want # "ok"
        BY <2>1, <4>1
      <4>4. req[Route(c, i)].want # "waiting" /\ Route(c, i) \in DOMAIN req
        BY <4>2, <4>3 DEF Waiting
      <4>5. req[Route(c, i)].want = "ok"
        BY <4>4 DEF Underway, RelayCall, Answering
      <4> QED
        BY <4>2, <4>3, <4>5
    <3> QED
      BY <1>0, <3>1, <3>2
  <2> HIDE DEF ok
  <2>4. ASSUME NEW how \in {"direct", "reversed", "relayed"}, Reply(c, how)
        PROVE  Promising(c, i)'
    <3>1. cmd'[c].state = "done" /\ cmd'[c].how = how
      BY <1>0, <2>1, <2>4, ReplyKeeps
    <3> QED
      BY <3>1 DEF Promising
  <2>5. ASSUME NEW step \in {"direct", "reverse", "retry", "relay"}, NEW j \in Nat, j >= 1,
               Goto(c, step, j), step = "relay" => j <= i
        PROVE  Promising(c, i)'
    <3>1. cmd'[c].state = "running" /\ cmd'[c].step = step /\ cmd'[c].i = j
      <4>1. step \in {"ping", "lookup", "direct", "reverse", "retry", "relay"}
        BY Zenon
      <4> QED
        BY <1>0, <2>1, <2>5, <4>1, GotoKeeps, Zenon
    <3> QED
      BY <2>5, <3>1 DEF Promising
  <2>6. 1 \in Nat /\ 1 >= 1 /\ 1 <= i /\ cmd[c].i + 1 \in Nat /\ cmd[c].i + 1 >= 1
    BY <1>0 DEF State
  <2>7. \/ \E how \in {"direct", "reversed", "relayed"} : Reply(c, how)
        \/ \E step \in {"direct", "reverse", "retry", "relay"}, j \in Nat :
             j >= 1 /\ Goto(c, step, j) /\ (step = "relay" => j <= i)
    <3>1. \/ Reply(c, "direct") \/ Reply(c, "reversed") \/ Reply(c, "relayed")
          \/ Goto(c, "reverse", 1) \/ Goto(c, "relay", 1) \/ Goto(c, "retry", 1)
          \/ Goto(c, "reverse", cmd[c].i + 1)
          \/ (Goto(c, "relay", cmd[c].i + 1) /\ cmd[c].i + 1 <= i)
      BY <2>1, <2>2, <2>3, TraverseCases, Zenon
    <3>2. ASSUME NEW step \in {"reverse", "retry", "relay"}, NEW j \in Nat, j >= 1,
                 Goto(c, step, j), step = "relay" => j <= i
          PROVE  \E s \in {"direct", "reverse", "retry", "relay"}, k \in Nat :
                   k >= 1 /\ Goto(c, s, k) /\ (s = "relay" => k <= i)
      BY <3>2, Zenon
    <3> QED
      BY <2>6, <3>1, <3>2
  <2> QED
    BY <2>4, <2>5, <2>7, Zenon
<1> QED
  BY <1>1, <1>2, <1>3, <1>4, CommandStep, Zenon

\* RelayInv is inductive.
LEMMA InitRelay == Init => RelayInv
<1> SUFFICES ASSUME Init, NEW c \in Command, NEW i \in DOMAIN Candidates(c)
    PROVE  Underway(c, i) /\ Promising(c, i)
  BY DEF RelayInv
<1>1. DOMAIN req = {} /\ cmd[c].state = "idle"
  BY DEF Init
<1> QED
  BY <1>1, Zenon DEF Underway, Promising

LEMMA RelayKept == Basic /\ RelayInv /\ [Next]_vars => RelayInv'
<1> SUFFICES ASSUME Basic, RelayInv, [Next]_vars, NEW c \in Command, KindOf[c] = "get",
                    NEW i \in DOMAIN Candidates(c), Calm(c, i)'
    PROVE  Underway(c, i)' /\ Promising(c, i)'
  BY DEF RelayInv, Candidates
<1>1. Calm(c, i)
  BY CalmBefore
<1>2. Underway(c, i) /\ Promising(c, i)
  BY <1>1 DEF RelayInv
<1> QED
  BY <1>1, <1>2, UnderwayKept, PromisingKept

LEMMA RelayInvReaches == RelayInv => RelayReaches
BY DEF RelayInv, RelayReaches, Calm, Promising

\* RelayReaches for any nodes, NATs, tables and relay candidates
\* (send_with_nat_traversal): a candidate that helps never refuses or keeps
\* the call, so the loop over the candidates does not get past it.  RelayInv
\* says where the call is on its way: the relay's handler waits for the peer's,
\* and no timeout comes between, since the pings of both run out earlier.
THEOREM RelaysReach == Spec => []RelayReaches
<1>1. Init => Basic /\ RelayInv
  BY InitBasic, InitRelay
<1>2. Basic /\ RelayInv /\ [Next]_vars => (Basic /\ RelayInv)'
  BY BasicKept, RelayKept
<1>3. RelayInv => RelayReaches
  BY RelayInvReaches
<1> QED
  BY <1>1, <1>2, <1>3, PTL DEF Spec
=============================================================================
