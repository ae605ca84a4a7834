-------------------------- MODULE FmpPeers_proofs --------------------------
(***************************************************************************)
(* For any number of paths and any environment: the types and the limit of *)
(* staged responders hold, no handshake message brings a peer that is live *)
(* back to a life it had left, and a link that is displaced is not lost.   *)
(***************************************************************************)
EXTENDS FmpPeers, FiniteSetTheorems, SequenceTheorems, TLAPS

-----------------------------------------------------------------------------
(* The inductive invariant                                                 *)

LinkState ==
    [st : {"none", "init", "handshaking", "established", "closed"},
     role : {"initiator", "responder"}, idx : Nat, far : Nat, epoch : Nat, tx : Nat,
     rx : SUBSET Nat]

PeerState ==
    [known : BOOLEAN, link : LinkState, pend : LinkState, drain : SUBSET LinkState,
     hs : {"none", "msg1", "sending", "sent"}, got : BOOLEAN, via : Path \cup {NoPath}]

NodeState ==
    [epoch : Nat, drawn : Nat, peers : [Path -> PeerState],
     active : Path \cup {NoPath, Gone}, hist : Seq(Nat)]

Message ==
    [type : {"Msg1", "Msg2", "Frame"}, from : Node, idx : Nat, to : Nat, epoch : Nat,
     c : Nat, path : Path \cup {NoPath}]

\* A link knows the epoch of its remote exactly when it is established; one that was
\* drawn has an index of its own.
LinkOK(l, d, v) ==
    /\ l \in LinkState
    /\ l.idx <= d /\ l.far <= v.idx /\ l.epoch <= v.restarts + 1
    /\ l.tx <= v.tx /\ l.rx \subseteq 0 .. v.tx
    /\ (l.epoch # 0) <=> Established(l)
    /\ l.st \in {"init", "handshaking", "established"} => l.idx # 0

\* The handshake m that a link of n was made with was sent by the life it names.
Told(l, n, nt) ==
    Established(l) => \E m \in nt : /\ m.type # "Frame" /\ m.from = Other(n)
                                    /\ m.idx = l.far /\ m.epoch = l.epoch

PeerOK(peer, d, n, nt, v) ==
    /\ peer \in PeerState
    /\ LinkOK(peer.link, d, v) /\ LinkOK(peer.pend, d, v) /\ \A l \in peer.drain : LinkOK(l, d, v)
    /\ Told(peer.link, n, nt) /\ Told(peer.pend, n, nt)
    /\ peer.pend = NoLink \/ Established(peer.pend)
    /\ peer.hs # "none" => peer.pend = NoLink /\ peer.link.role = "initiator"
    /\ peer.hs = "msg1" => peer.link.st = "handshaking"
    /\ peer.hs \in {"sending", "sent"} => Established(peer.link)

\* The indexes of the links of a path that a message may still name.
Indexes(peer) == {peer.link.idx, peer.pend.idx} \ {0}

Staged(s) == {p \in Path : s.peers[p].pend # NoLink}

Fits(s) == IsFiniteSet(Staged(s)) /\ Cardinality(Staged(s)) <= MaxPending

StateOK(s, n, nt, v) ==
    /\ s \in NodeState
    /\ s.epoch \in 1 .. v.restarts + 1 /\ s.drawn <= v.idx
    /\ Len(s.hist) <= HistoryLimit
    /\ \A p \in Path : PeerOK(s.peers[p], s.drawn, n, nt, v)
    /\ \A p, q \in Path : p # q => Indexes(s.peers[p]) \cap Indexes(s.peers[q]) = {}
    /\ Fits(s)

\* What n has sent: an index is of one life, and that of a link it holds of the present.
SentOK(s, n, nt) ==
    \A m \in nt : m.type # "Frame" /\ m.from = n =>
        /\ m.idx <= s.drawn /\ m.epoch \in 1 .. s.epoch
        /\ \A p \in Path : m.idx \in Indexes(s.peers[p]) => m.epoch = s.epoch

NetOK(nt, v) ==
    /\ nt \subseteq Message
    /\ \A m \in nt : m.idx <= v.idx /\ m.c <= v.tx
    /\ \A m1, m2 \in nt :
          m1.type # "Frame" /\ m2.type # "Frame" /\ m1.from = m2.from /\ m1.idx = m2.idx
          => m1.epoch = m2.epoch

Inv ==
    /\ env \in Environment /\ nodes \in [Node -> NodeState]
    /\ NetOK(net, env)
    /\ \A n \in Node : StateOK(nodes[n], n, net, env) /\ SentOK(nodes[n], n, net)

-----------------------------------------------------------------------------
(* What a handler makes of a node                                          *)

\* From s to t a node with a live peer does not go back: the step that NoRollback allows.
Forward(s, t) ==
    Live(s) /\ Live(t) /\ OneLife(s) =>
        \/ t.peers[t.active].link.epoch = s.peers[s.active].link.epoch
        \/ t.peers[t.active].link.rx # {}
        \/ ~\E i \in DOMAIN s.hist : s.hist[i] = t.peers[t.active].link.epoch

\* A peer object receives with link l, or with what has become of it.
Carries(peer, l) ==
    \E k \in {peer.link, peer.pend} \cup peer.drain :
        Established(k) /\ k.idx = l.idx /\ l.rx \subseteq k.rx

\* From s to t the link in use is not lost: the step that DisplacedDrains allows.
Keeps(s, t) ==
    LET old == s.peers[s.active].link IN
    Live(s) /\ Live(t) /\ t.peers[t.active].link.epoch = old.epoch
    /\ OneLife(s) /\ s.peers[s.active].hs = "none" /\ Room(s)
    => \E q \in Path : Carries(t.peers[q], old)

\* A state u on the way of a handler that works on path p.
Near(s, u, p) ==
    /\ u \in NodeState
    /\ u.epoch = s.epoch /\ u.active = s.active /\ u.hist = s.hist /\ s.drawn <= u.drawn
    /\ \A q \in Path \ {p} : u.peers[q] = s.peers[q]

\* What every handler leaves behind: other paths as they were or removed, on its own
\* path links it had or has just drawn.
Good(s, t, p, n, nt, v) ==
    /\ t \in NodeState /\ t.epoch = s.epoch /\ s.drawn <= t.drawn
    /\ Len(t.hist) <= HistoryLimit
    /\ \A q \in Path \ {p} : t.peers[q] = s.peers[q] \/ t.peers[q] = NoPeer
    /\ PeerOK(t.peers[p], t.drawn, n, nt, v)
    /\ Indexes(t.peers[p]) \subseteq Indexes(s.peers[p]) \cup (s.drawn + 1 .. t.drawn)
    /\ Fits(t)
    /\ Forward(s, t)

LEMMA Bounds ==
  /\ Node \subseteq Nat /\ MaxPending \in Nat /\ HistoryLimit \in Nat
  /\ NoPath \notin Path /\ Gone \notin Path /\ NoPath # Gone
  BY FmpAssumption

LEMMA TwoNodes ==
  ASSUME NEW n \in Node
  PROVE  Other(n) \in Node /\ Other(n) # n
  <1>1. \E m \in Node : m # n
    BY FmpAssumption
  <1> QED
    BY <1>1 DEF Other

LEMMA EnvTypes ==
  ASSUME NEW v \in Environment
  PROVE  v.idx \in Nat /\ v.dialIdx \in Nat /\ v.tx \in Nat /\ v.tx >= 1 /\ v.restarts \in Nat
         /\ v.drops \in Nat
  BY DEF Environment

LEMMA NewLinkFields ==
  ASSUME NEW st \in {"none", "init", "handshaking", "established", "closed"},
         NEW role \in {"initiator", "responder"}, NEW idx \in Nat, NEW far \in Nat,
         NEW epoch \in Nat
  PROVE  LET l == NewLink(st, role, idx, far, epoch) IN
         /\ l \in LinkState
         /\ l.st = st /\ l.role = role /\ l.idx = idx /\ l.far = far /\ l.epoch = epoch
         /\ l.tx = 0 /\ l.rx = {}
  BY DEF NewLink, LinkState

LEMMA NoLinkFields ==
  /\ NoLink \in LinkState /\ NoLink.st = "none" /\ NoLink.role = "responder"
  /\ NoLink.idx = 0 /\ NoLink.far = 0 /\ NoLink.epoch = 0 /\ NoLink.tx = 0 /\ NoLink.rx = {}
  /\ ~Established(NoLink)
  BY NewLinkFields DEF NoLink, Established

LEMMA NoLinkOK ==
  ASSUME NEW d \in Nat, NEW v \in Environment
  PROVE  LinkOK(NoLink, d, v)
  BY NoLinkFields, EnvTypes DEF LinkOK

LEMMA NoPeerFields ==
  /\ NoPeer \in PeerState /\ NoPeer.known = FALSE /\ NoPeer.link = NoLink
  /\ NoPeer.pend = NoLink /\ NoPeer.drain = {} /\ NoPeer.hs = "none" /\ NoPeer.got = FALSE
  /\ NoPeer.via = NoPath /\ Indexes(NoPeer) = {}
  <1>1. /\ NoPeer.known = FALSE /\ NoPeer.link = NoLink
        /\ NoPeer.pend = NoLink /\ NoPeer.drain = {} /\ NoPeer.hs = "none"
        /\ NoPeer.got = FALSE /\ NoPeer.via = NoPath
    BY DEF NoPeer
  <1>2. NoPeer \in PeerState
    BY NoLinkFields DEF NoPeer, PeerState
  <1>3. Indexes(NoPeer) = {}
    BY <1>1, NoLinkFields DEF Indexes
  <1> QED
    BY <1>1, <1>2, <1>3

LEMMA NoPeerOK ==
  ASSUME NEW d \in Nat, NEW v \in Environment, NEW n, NEW nt
  PROVE  PeerOK(NoPeer, d, n, nt, v)
  BY NoPeerFields, NoLinkFields, NoLinkOK DEF PeerOK, Told

LEMMA PeerGrows ==
  ASSUME NEW peer, NEW d \in Nat, NEW e \in Nat, d <= e, NEW n, NEW nt, NEW nu, nt \subseteq nu,
         NEW v, PeerOK(peer, d, n, nt, v)
  PROVE  PeerOK(peer, e, n, nu, v)
  <1>1. \A l : LinkOK(l, d, v) => LinkOK(l, e, v)
    BY DEF LinkOK, LinkState
  <1>2. \A l : Told(l, n, nt) => Told(l, n, nu)
    BY DEF Told
  <1> QED
    BY <1>1, <1>2 DEF PeerOK

LEMMA SetPeerFields ==
  ASSUME NEW s \in NodeState, NEW p \in Path, NEW peer \in PeerState
  PROVE  LET u == SetPeer(s, p, peer) IN
         /\ u \in NodeState
         /\ u.epoch = s.epoch /\ u.active = s.active /\ u.hist = s.hist /\ u.drawn = s.drawn
         /\ u.peers[p] = peer
         /\ \A q \in Path \ {p} : u.peers[q] = s.peers[q]
  <1> DEFINE ps == [s.peers EXCEPT ![p] = peer]
             u == [s EXCEPT !.peers = ps]
  <1>1. SetPeer(s, p, peer) = u
    BY DEF SetPeer
  <1>2. /\ ps \in [Path -> PeerState] /\ ps[p] = peer
        /\ \A q \in Path \ {p} : ps[q] = s.peers[q]
    BY DEF NodeState
  <1> HIDE DEF ps
  <1>3. u \in NodeState
    BY <1>2 DEF NodeState
  <1>4. u.epoch = s.epoch /\ u.active = s.active /\ u.hist = s.hist /\ u.drawn = s.drawn /\ u.peers = ps
    BY DEF NodeState
  <1> QED
    BY <1>1, <1>2, <1>3, <1>4

LEMMA ActiveFields ==
  ASSUME NEW s \in NodeState, NEW a \in Path \cup {NoPath, Gone}
  PROVE  LET u == [s EXCEPT !.active = a] IN
         /\ u \in NodeState /\ u.active = a
         /\ u.epoch = s.epoch /\ u.hist = s.hist /\ u.drawn = s.drawn /\ u.peers = s.peers
  BY DEF NodeState

LEMMA RememberedHistory ==
  ASSUME NEW h \in Seq(Nat), NEW e \in Nat, Len(h) <= HistoryLimit
  PROVE  Remembered(h, e) \in Seq(Nat) /\ Len(Remembered(h, e)) <= HistoryLimit
  <1> DEFINE a == Append(h, e)
  <1>1. a \in Seq(Nat) /\ Len(a) = Len(h) + 1 /\ a # <<>>
    BY AppendProperties
  <1> HIDE DEF a
  <1>2. Tail(a) \in Seq(Nat) /\ Len(Tail(a)) = Len(a) - 1
    BY <1>1
  <1>3. Remembered(h, e) = h \/ Remembered(h, e) = Tail(a)
        \/ (Remembered(h, e) = a /\ Len(h) < HistoryLimit)
    BY DEF Remembered, a
  <1>4. Len(h) \in Nat /\ HistoryLimit \in Nat
    BY Bounds
  <1>5. CASE Remembered(h, e) = h
    BY <1>5
  <1>6. CASE Remembered(h, e) = Tail(a)
    <2>1. Len(Tail(a)) <= HistoryLimit
      BY <1>1, <1>2, <1>4
    <2> QED
      BY <1>2, <1>6, <2>1
  <1>7. CASE Remembered(h, e) = a /\ Len(h) < HistoryLimit
    BY <1>1, <1>4, <1>7
  <1> QED
    BY <1>3, <1>5, <1>6, <1>7

LEMMA RememberFields ==
  ASSUME NEW s \in NodeState, NEW p \in Path, Len(s.hist) <= HistoryLimit
  PROVE  LET u == Remember(s, p) IN
         /\ u \in NodeState /\ Len(u.hist) <= HistoryLimit
         /\ u.active = p
         /\ u.epoch = s.epoch /\ u.drawn = s.drawn /\ u.peers = s.peers
  <1> DEFINE h == Remembered(s.hist, s.peers[p].link.epoch)
             u == [s EXCEPT !.active = p, !.hist = h]
  <1>1. Remember(s, p) = u
    BY DEF Remember
  <1>2. s.hist \in Seq(Nat) /\ s.peers[p].link.epoch \in Nat
    BY DEF NodeState, PeerState, LinkState
  <1>3. h \in Seq(Nat) /\ Len(h) <= HistoryLimit
    BY <1>2, RememberedHistory
  <1> HIDE DEF h
  <1>4. u \in NodeState
    BY <1>3 DEF NodeState
  <1>5. u.hist = h /\ u.active = p /\ u.epoch = s.epoch /\ u.drawn = s.drawn /\ u.peers = s.peers
    BY DEF NodeState
  <1> QED
    BY <1>1, <1>3, <1>4, <1>5

LEMMA FitsLess ==
  ASSUME NEW s, NEW t, Fits(s), Staged(t) \subseteq Staged(s)
  PROVE  Fits(t)
  <1> HIDE DEF Staged
  <1>1. IsFiniteSet(Staged(s)) /\ Cardinality(Staged(s)) <= MaxPending
    BY DEF Fits
  <1>2. IsFiniteSet(Staged(t)) /\ Cardinality(Staged(t)) <= Cardinality(Staged(s))
    BY <1>1, FS_Subset
  <1>3. Cardinality(Staged(t)) \in Nat /\ Cardinality(Staged(s)) \in Nat
    BY <1>1, <1>2, FS_CardinalityType
  <1> QED
    BY <1>1, <1>2, <1>3, Bounds DEF Fits

\* The limit of PendingFmpResponders.set: room for one more, or none is added.
LEMMA FitsMore ==
  ASSUME NEW s, NEW t, NEW p, Fits(s), ~Full(s), Staged(t) \subseteq Staged(s) \cup {p}
  PROVE  Fits(t)
  <1>1. IsFiniteSet(Staged(s)) /\ Cardinality(Staged(s)) \in Nat
    BY FS_CardinalityType DEF Fits
  <1>2. Cardinality(Staged(s)) < MaxPending
    BY <1>1, Bounds DEF Full, PendingCount, Staged
  <1> HIDE DEF Staged
  <1>3. /\ IsFiniteSet(Staged(s) \cup {p})
        /\ Cardinality(Staged(s) \cup {p}) =
              IF p \in Staged(s) THEN Cardinality(Staged(s)) ELSE Cardinality(Staged(s)) + 1
    BY <1>1, FS_AddElement
  <1>4. IsFiniteSet(Staged(t)) /\ Cardinality(Staged(t)) <= Cardinality(Staged(s) \cup {p})
    BY <1>3, FS_Subset
  <1>5. Cardinality(Staged(t)) \in Nat
    BY <1>4, FS_CardinalityType
  <1> QED
    BY <1>1, <1>2, <1>3, <1>4, <1>5, Bounds DEF Fits

\* The active path stays, and so does its link unless it is down.
LEMMA StaysForward ==
  ASSUME NEW s, NEW t, t.active = s.active,
         s.active \in Path => \/ ~Established(s.peers[s.active].link)
                              \/ ~Established(t.peers[s.active].link)
                              \/ t.peers[s.active].link.epoch = s.peers[s.active].link.epoch
                              \/ t.peers[s.active].link.rx # {}
  PROVE  Forward(s, t)
  BY DEF Forward, Live

\* Another carrier that was established takes over: it is of the same life.
LEMMA OtherForward ==
  ASSUME NEW s, NEW t, t.active \in Path, Established(s.peers[t.active].link),
         t.peers[t.active].link.epoch = s.peers[t.active].link.epoch
  PROVE  Forward(s, t)
  BY DEF Forward, Live, OneLife

\* A step on path p keeps the link in use if it keeps the one of p.
LEMMA KeepsPath ==
  ASSUME NEW s, NEW t, NEW p \in Path, \A q \in Path \ {p} : t.peers[q] = s.peers[q],
         s.active = p /\ Established(s.peers[p].link) /\ s.peers[p].hs = "none"
            => Carries(t.peers[p], s.peers[p].link)
  PROVE  Keeps(s, t)
  <1> DEFINE a == s.active
  <1>1. SUFFICES ASSUME a \in Path, Established(s.peers[a].link), s.peers[a].hs = "none"
                 PROVE  Carries(t.peers[a], s.peers[a].link)
    BY DEF Keeps, Live
  <1>2. CASE a = p
    BY <1>1, <1>2
  <1>3. CASE a # p
    <2>1. t.peers[a] = s.peers[a]
      BY <1>1, <1>3
    <2> QED
      BY <1>1, <2>1 DEF Carries
  <1> QED
    BY <1>2, <1>3

-----------------------------------------------------------------------------
(* From a node's step to the invariant                                     *)

\* What n may send with a step on path p: handshake messages of links it has, or has
\* just drawn, in its present life.
Sendable(s, t, p, n, m, v) ==
    /\ m \in Message /\ m.from = n /\ m.idx <= t.drawn /\ m.c <= v.tx
    /\ m.type # "Frame" =>
          /\ m.epoch = s.epoch
          /\ m.idx \in Indexes(s.peers[p]) \cup (s.drawn + 1 .. t.drawn)

LEMMA GoodState ==
  ASSUME NEW v \in Environment, NEW n, NEW nt, NEW nu, nt \subseteq nu, NEW s, NEW t, NEW p \in Path,
         StateOK(s, n, nt, v), Good(s, t, p, n, nt, v), t.drawn <= v.idx
  PROVE  StateOK(t, n, nu, v)
  <1>1. s \in NodeState /\ t \in NodeState /\ s.drawn \in Nat /\ t.drawn \in Nat
    BY DEF StateOK, Good, NodeState
  <1>2. \A q \in Path : PeerOK(t.peers[q], t.drawn, n, nu, v)
    <2>1. PeerOK(t.peers[p], t.drawn, n, nu, v)
      BY <1>1, PeerGrows DEF Good
    <2>2. ASSUME NEW q \in Path \ {p} PROVE PeerOK(t.peers[q], t.drawn, n, nu, v)
      <3>1. CASE t.peers[q] = s.peers[q]
        BY <1>1, <3>1, PeerGrows DEF Good, StateOK
      <3>2. CASE t.peers[q] = NoPeer
        BY <1>1, <3>2, NoPeerOK
      <3> QED
        BY <3>1, <3>2 DEF Good
    <2> QED
      BY <2>1, <2>2
  <1>3. \A q \in Path : \A i \in Indexes(s.peers[q]) : i \in Nat /\ i <= s.drawn
    BY <1>1 DEF StateOK, PeerOK, LinkOK, LinkState, Indexes
  <1>4. \A q \in Path \ {p} : Indexes(t.peers[q]) \subseteq Indexes(s.peers[q])
    BY NoPeerFields DEF Good
  <1>5. ASSUME NEW q \in Path, NEW r \in Path, q # r
        PROVE  Indexes(t.peers[q]) \cap Indexes(t.peers[r]) = {}
    <2>1. Indexes(s.peers[q]) \cap Indexes(s.peers[r]) = {}
      BY <1>5 DEF StateOK
    <2>2. Indexes(t.peers[p]) \subseteq Indexes(s.peers[p]) \cup (s.drawn + 1 .. t.drawn)
      BY DEF Good
    <2> QED
      BY <1>1, <1>3, <1>4, <1>5, <2>1, <2>2
  <1> QED
    BY <1>1, <1>2, <1>5 DEF StateOK, Good

LEMMA GoodSent ==
  ASSUME NEW v \in Environment, NEW n \in Node, NEW nt, NEW nu, NEW s, NEW t, NEW p \in Path,
         NetOK(nt, v), StateOK(s, n, nt, v), SentOK(s, n, nt), Good(s, t, p, n, nt, v),
         t.drawn <= v.idx, nt \subseteq nu,
         \A m \in nu : m \in nt \/ Sendable(s, t, p, n, m, v)
  PROVE  SentOK(t, n, nu)
  <1>1. /\ s \in NodeState /\ t \in NodeState /\ s.drawn \in Nat /\ t.drawn \in Nat
        /\ s.epoch \in Nat /\ s.epoch >= 1 /\ t.epoch = s.epoch /\ s.drawn <= t.drawn
    BY DEF StateOK, Good, NodeState
  <1>2. \A q \in Path \ {p} : Indexes(t.peers[q]) \subseteq Indexes(s.peers[q])
    BY NoPeerFields DEF Good
  <1>3. Indexes(t.peers[p]) \subseteq Indexes(s.peers[p]) \cup (s.drawn + 1 .. t.drawn)
    BY DEF Good
  <1>4. SUFFICES ASSUME NEW m \in nu, m.type # "Frame", m.from = n
                 PROVE  /\ m.idx <= t.drawn /\ m.epoch \in 1 .. t.epoch
                        /\ \A q \in Path : m.idx \in Indexes(t.peers[q]) => m.epoch = t.epoch
    BY DEF SentOK
  <1>5. CASE m \in nt
    <2>1. /\ m.idx <= s.drawn /\ m.epoch \in 1 .. s.epoch /\ m.idx \in Nat
          /\ \A q \in Path : m.idx \in Indexes(s.peers[q]) => m.epoch = s.epoch
      BY <1>4, <1>5 DEF SentOK, NetOK, Message
    <2> QED
      BY <1>1, <1>2, <1>3, <2>1
  <1>6. CASE Sendable(s, t, p, n, m, v)
    BY <1>1, <1>4, <1>6 DEF Sendable
  <1> QED
    BY <1>5, <1>6

LEMMA GoodNet ==
  ASSUME NEW v \in Environment, NEW n \in Node, NEW nt, NEW nu, NEW s, NEW t, NEW p \in Path,
         NEW m, NetOK(nt, v), StateOK(s, n, nt, v), SentOK(s, n, nt), Good(s, t, p, n, nt, v),
         t.drawn <= v.idx, nu = nt \/ (nu = nt \cup {m} /\ Sendable(s, t, p, n, m, v))
  PROVE  NetOK(nu, v)
  <1>1. CASE nu = nt
    BY <1>1
  <1>2. CASE nu = nt \cup {m} /\ Sendable(s, t, p, n, m, v)
    <2>1. /\ s.drawn \in Nat /\ t.drawn \in Nat /\ s.epoch \in Nat /\ v.idx \in Nat
      BY EnvTypes DEF StateOK, Good, NodeState
    <2>2. m \in Message /\ m.idx \in Nat /\ m.idx <= v.idx /\ m.c <= v.tx /\ m.from = n
      BY <1>2, <2>1 DEF Sendable, Message
    <2>3. ASSUME NEW k \in nt, k.type # "Frame", m.type # "Frame", k.from = n, k.idx = m.idx
          PROVE  k.epoch = m.epoch
      <3>1. /\ k.idx <= s.drawn /\ k.idx \in Nat
            /\ \A q \in Path : k.idx \in Indexes(s.peers[q]) => k.epoch = s.epoch
        BY <2>3 DEF SentOK, NetOK, Message
      <3>2. m.epoch = s.epoch /\ m.idx \in Indexes(s.peers[p]) \cup (s.drawn + 1 .. t.drawn)
        BY <1>2, <2>3 DEF Sendable
      <3> QED
        BY <2>1, <2>3, <3>1, <3>2
    <2>4. nu \subseteq Message /\ \A k \in nu : k.idx <= v.idx /\ k.c <= v.tx
      BY <1>2, <2>2 DEF NetOK
    <2>5. ASSUME NEW k \in nu, NEW l \in nu, k.type # "Frame", l.type # "Frame",
                 k.from = l.from, k.idx = l.idx
          PROVE  k.epoch = l.epoch
      BY <1>2, <2>2, <2>3, <2>5 DEF NetOK
    <2> QED
      BY <2>4, <2>5 DEF NetOK
  <1> QED
    BY <1>1, <1>2

\* Environments that differ in the disconnections that may still come.
LEMMA SameEnvironment ==
  ASSUME NEW v, NEW w, v.idx = w.idx, v.tx = w.tx, v.restarts = w.restarts
  PROVE  /\ \A nt : NetOK(nt, v) => NetOK(nt, w)
         /\ \A s, n, nt : StateOK(s, n, nt, v) => StateOK(s, n, nt, w)
  <1>1. \A l, d : LinkOK(l, d, v) => LinkOK(l, d, w)
    BY DEF LinkOK
  <1>2. \A peer, d, n, nt : PeerOK(peer, d, n, nt, v) => PeerOK(peer, d, n, nt, w)
    BY <1>1 DEF PeerOK
  <1> QED
    BY <1>2 DEF NetOK, StateOK

LEMMA StepOK ==
  ASSUME Inv, NEW n \in Node, NEW p \in Path, NEW t, NEW m,
         Good(nodes[n], t, p, n, net, env), Become(n, t),
         net' = net \/ (net' = net \cup {m} /\ Sendable(nodes[n], t, p, n, m, env)),
         env' \in Environment,
         env'.idx = env.idx, env'.tx = env.tx, env'.restarts = env.restarts
  PROVE  Inv' /\ \A k \in Node : k = n \/ nodes'[k] = nodes[k]
  <1> DEFINE s == nodes[n]
  <1>1. /\ env \in Environment /\ nodes \in [Node -> NodeState] /\ NetOK(net, env)
        /\ StateOK(s, n, net, env) /\ SentOK(s, n, net)
    BY DEF Inv
  <1>2. t.drawn <= env.idx /\ nodes' = [nodes EXCEPT ![n] = t]
    BY DEF Become
  <1>3. nodes'[n] = t /\ \A k \in Node : k # n => nodes'[k] = nodes[k]
    BY <1>1, <1>2
  <1>4. nodes' \in [Node -> NodeState]
    BY <1>1, <1>2 DEF Good
  <1>5. net \subseteq net' /\ \A k \in net' : k \in net \/ Sendable(s, t, p, n, k, env)
    OBVIOUS
  <1> HIDE DEF s
  <1>6. NetOK(net', env) /\ StateOK(t, n, net', env) /\ SentOK(t, n, net')
    <2>1. NetOK(net', env)
      BY <1>1, <1>2, GoodNet DEF s
    <2>2. StateOK(t, n, net', env)
      BY <1>1, <1>2, <1>5, GoodState DEF s
    <2>3. SentOK(t, n, net')
      BY <1>1, <1>2, <1>5, GoodSent DEF s
    <2> QED
      BY <2>1, <2>2, <2>3
  <1>7. ASSUME NEW k \in Node, k # n
        PROVE  StateOK(nodes[k], k, net', env) /\ SentOK(nodes[k], k, net')
    <2>1. StateOK(nodes[k], k, net, env) /\ SentOK(nodes[k], k, net)
      BY DEF Inv
    <2>2. \A q \in Path : PeerOK(nodes[k].peers[q], nodes[k].drawn, k, net', env)
      <3>1. nodes[k].drawn \in Nat
        BY <1>1 DEF NodeState
      <3> QED
        BY <1>5, <2>1, <3>1, PeerGrows DEF StateOK
    <2>3. \A j \in net' : j \in net \/ j.from = n
      BY <1>5 DEF Sendable
    <2> QED
      BY <1>7, <2>1, <2>2, <2>3 DEF StateOK, SentOK
  <1>8. NetOK(net', env') /\ \A k \in Node : StateOK(nodes'[k], k, net', env')
                                             /\ SentOK(nodes'[k], k, net')
    BY <1>3, <1>6, <1>7, SameEnvironment
  <1> QED
    BY <1>3, <1>4, <1>8 DEF Inv

-----------------------------------------------------------------------------
(* Parts of the handlers                                                   *)

LEMMA StateFacts ==
  ASSUME NEW s, NEW n, NEW nt, NEW v, StateOK(s, n, nt, v)
  PROVE  /\ s \in NodeState /\ s.drawn \in Nat /\ s.epoch \in Nat
         /\ s.peers \in [Path -> PeerState] /\ s.active \in Path \cup {NoPath, Gone}
         /\ Len(s.hist) <= HistoryLimit /\ Fits(s)
         /\ \A q \in Path : PeerOK(s.peers[q], s.drawn, n, nt, v)
  BY DEF StateOK, NodeState

\* A path is set and nothing else: what is left to show is about that path.
LEMMA SetPeerGood ==
  ASSUME NEW v \in Environment, NEW n, NEW nt, NEW s, NEW p \in Path, NEW peer,
         StateOK(s, n, nt, v), PeerOK(peer, s.drawn, n, nt, v),
         Indexes(peer) \subseteq Indexes(s.peers[p]),
         peer.pend # NoLink => s.peers[p].pend # NoLink,
         \/ s.active # p
         \/ ~Established(s.peers[p].link) \/ ~Established(peer.link)
         \/ peer.link.epoch = s.peers[p].link.epoch
         \/ peer.link.rx # {}
  PROVE  Good(s, SetPeer(s, p, peer), p, n, nt, v)
  <1> DEFINE t == SetPeer(s, p, peer)
  <1>1. s \in NodeState /\ peer \in PeerState /\ s.drawn \in Nat
    BY StateFacts DEF PeerOK
  <1>2. /\ t \in NodeState
        /\ t.epoch = s.epoch /\ t.active = s.active /\ t.hist = s.hist /\ t.drawn = s.drawn
        /\ t.peers[p] = peer
        /\ \A q \in Path \ {p} : t.peers[q] = s.peers[q]
    BY <1>1, SetPeerFields
  <1> HIDE DEF t
  <1>3. Fits(t)
    <2>1. Staged(t) \subseteq Staged(s)
      BY <1>2 DEF Staged
    <2> QED
      BY <2>1, FitsLess, StateFacts
  <1>4. Forward(s, t)
    BY <1>2, StaysForward
  <1>5. Good(s, t, p, n, nt, v)
    BY <1>1, <1>2, <1>3, <1>4, StateFacts DEF Good
  <1> QED
    BY <1>5 DEF t

LEMMA SetPeerKeeps ==
  ASSUME NEW s \in NodeState, NEW p \in Path, NEW peer \in PeerState,
         Established(s.peers[p].link) => Carries(peer, s.peers[p].link)
  PROVE  Keeps(s, SetPeer(s, p, peer))
  <1> DEFINE t == SetPeer(s, p, peer)
  <1>1. t.peers[p] = peer /\ \A q \in Path \ {p} : t.peers[q] = s.peers[q]
    BY SetPeerFields
  <1> HIDE DEF t
  <1>2. Keeps(s, t)
    <2>1. s.active = p /\ Established(s.peers[p].link) /\ s.peers[p].hs = "none"
            => Carries(t.peers[p], s.peers[p].link)
      BY <1>1
    <2>2. \A q \in Path \ {p} : t.peers[q] = s.peers[q]
      BY <1>1
    <2> QED
      BY <2>1, <2>2, KeepsPath
  <1> QED
    BY <1>2 DEF t

\* removePeerPath, from a state u that the handler of path p has reached.
LEMMA RemovedGood ==
  ASSUME NEW v \in Environment, NEW n, NEW nt, NEW s, NEW u, NEW p \in Path,
         StateOK(s, n, nt, v), Near(s, u, p), Fits(u), NEW t \in Removed(u, p)
  PROVE  Good(s, t, p, n, nt, v) /\ \A q \in Path \ {p} : t.peers[q] = s.peers[q]
  <1> DEFINE left == SetPeer(u, p, NoPeer)
  <1>1. /\ left \in NodeState
        /\ left.epoch = s.epoch /\ left.active = s.active /\ left.hist = s.hist
        /\ s.drawn <= left.drawn /\ left.peers[p] = NoPeer
        /\ \A q \in Path \ {p} : left.peers[q] = s.peers[q] /\ left.peers[q] = u.peers[q]
    BY SetPeerFields, NoPeerFields DEF Near
  <1>2. PICK a \in Path \cup {NoPath, Gone} :
           /\ t = [left EXCEPT !.active = a]
           /\ \/ a \in Path \ {p} /\ Established(left.peers[a].link)
              \/ a = IF left.active = p THEN NoPath ELSE left.active
    <2> DEFINE alternates == {q \in Path : /\ u.peers[p].known
                                           /\ Established(left.peers[q].link)
                                           /\ left.peers[q].hs = "none"}
               stays == IF left.active = p THEN NoPath ELSE left.active
    <2>1. \/ \E q \in alternates : t = [left EXCEPT !.active = q]
          \/ t = [left EXCEPT !.active = stays]
      BY DEF Removed
    <2>2. \A q \in alternates : q \in Path \ {p} /\ Established(left.peers[q].link)
      BY <1>1, NoPeerFields, NoLinkFields
    <2>3. stays \in Path \cup {NoPath, Gone}
      BY <1>1, StateFacts
    <2> HIDE DEF left, alternates
    <2>4. CASE \E q \in alternates : t = [left EXCEPT !.active = q]
      BY <2>2, <2>4
    <2>5. CASE t = [left EXCEPT !.active = stays]
      BY <2>3, <2>5
    <2> QED
      BY <2>1, <2>4, <2>5
  <1> HIDE DEF left
  <1>3. /\ t \in NodeState /\ t.active = a
        /\ t.epoch = s.epoch /\ t.hist = s.hist /\ t.drawn = left.drawn /\ t.peers = left.peers
    BY <1>1, <1>2, ActiveFields
  <1>4. t.drawn \in Nat /\ s.drawn <= t.drawn
    BY <1>1, <1>3 DEF NodeState
  <1>5. Fits(t)
    <2>1. Staged(t) \subseteq Staged(u)
      BY <1>1, <1>3, NoPeerFields DEF Staged
    <2> QED
      BY <2>1, FitsLess
  <1>6. Forward(s, t)
    <2>1. CASE a \in Path \ {p} /\ Established(left.peers[a].link)
      BY <1>1, <1>3, <2>1, OtherForward
    <2>2. CASE a = s.active /\ a # p
      BY <1>1, <1>3, <2>2, StaysForward
    <2>3. CASE a = NoPath
      BY <1>3, <2>3, Bounds DEF Forward, Live
    <2> QED
      BY <1>1, <1>2, <2>1, <2>2, <2>3
  <1> QED
    BY <1>1, <1>3, <1>4, <1>5, <1>6, NoPeerOK, NoPeerFields, StateFacts DEF Good

\* removeRestartedPeerPaths
LEMMA WithoutPathsFields ==
  ASSUME NEW s \in NodeState
  PROVE  LET u == WithoutPaths(s) IN
         /\ u \in NodeState /\ u.active = NoPath
         /\ u.epoch = s.epoch /\ u.hist = s.hist /\ u.drawn = s.drawn
         /\ \A q \in Path : u.peers[q] = s.peers[q] \/ u.peers[q] = NoPeer
  <1> DEFINE ps == [p \in Path |-> IF s.peers[p].known THEN NoPeer ELSE s.peers[p]]
             u == [s EXCEPT !.peers = ps, !.active = NoPath]
  <1>1. WithoutPaths(s) = u
    BY DEF WithoutPaths
  <1>2. ps \in [Path -> PeerState] /\ \A q \in Path : ps[q] = s.peers[q] \/ ps[q] = NoPeer
    BY NoPeerFields DEF NodeState
  <1> HIDE DEF ps
  <1>3. u \in NodeState
    BY <1>2 DEF NodeState
  <1>4. u.active = NoPath /\ u.epoch = s.epoch /\ u.hist = s.hist /\ u.drawn = s.drawn /\ u.peers = ps
    BY DEF NodeState
  <1> QED
    BY <1>1, <1>2, <1>3, <1>4

\* A node keeps nothing of its earlier life but the indexes it has drawn.
LEMMA Reborn ==
  ASSUME NEW e \in Nat, NEW d \in Nat
  PROVE  LET u == FreshNode(e, d) IN
         /\ u \in NodeState /\ u.epoch = e /\ u.drawn = d /\ u.active = NoPath /\ u.hist = <<>>
         /\ \A q \in Path : u.peers[q] = NoPeer
  <1> DEFINE ps == [p \in Path |-> NoPeer]
  <1>1. ps \in [Path -> PeerState] /\ \A q \in Path : ps[q] = NoPeer
    BY NoPeerFields
  <1>2. <<>> \in Seq(Nat)
    OBVIOUS
  <1>3. FreshNode(e, d) = [epoch |-> e, drawn |-> d, peers |-> ps, active |-> NoPath, hist |-> <<>>]
    BY DEF FreshNode
  <1> HIDE DEF ps
  <1> QED
    BY <1>1, <1>2, <1>3 DEF NodeState

LEMMA PeerFields ==
  ASSUME NEW peer, NEW d, NEW n, NEW nt, NEW v, PeerOK(peer, d, n, nt, v)
  PROVE  /\ peer \in PeerState /\ peer.link \in LinkState /\ peer.pend \in LinkState
         /\ peer.drain \in SUBSET LinkState /\ peer.known \in BOOLEAN /\ peer.got \in BOOLEAN
         /\ peer.hs \in {"none", "msg1", "sending", "sent"} /\ peer.via \in Path \cup {NoPath}
  BY DEF PeerOK, PeerState

LEMMA DrainOK ==
  ASSUME NEW peer, NEW d, NEW n, NEW nt, NEW v, PeerOK(peer, d, n, nt, v),
         NEW D, \A l \in D : LinkOK(l, d, v)
  PROVE  LET new == [peer EXCEPT !.drain = D] IN
         /\ PeerOK(new, d, n, nt, v) /\ new.link = peer.link /\ new.pend = peer.pend
         /\ new.hs = peer.hs /\ new.drain = D /\ Indexes(new) = Indexes(peer)
  <1> DEFINE new == [peer EXCEPT !.drain = D]
  <1>1. D \in SUBSET LinkState
    BY DEF LinkOK
  <1>2. new \in PeerState
    BY <1>1, PeerFields DEF PeerState
  <1>3. new.link = peer.link /\ new.pend = peer.pend /\ new.hs = peer.hs /\ new.drain = D
    BY PeerFields DEF PeerState
  <1> HIDE DEF new
  <1>4. PeerOK(new, d, n, nt, v) /\ Indexes(new) = Indexes(peer)
    BY <1>2, <1>3 DEF PeerOK, Indexes
  <1> QED
    BY <1>3, <1>4 DEF new

\* drainAuthenticatedLink
LEMMA DrainedOK ==
  ASSUME NEW peer, NEW d, NEW n, NEW nt, NEW v, PeerOK(peer, d, n, nt, v),
         NEW l, LinkOK(l, d, v)
  PROVE  LET new == Drained(peer, l) IN
         /\ PeerOK(new, d, n, nt, v) /\ new.link = peer.link /\ new.pend = peer.pend
         /\ new.hs = peer.hs /\ Indexes(new) = Indexes(peer)
         /\ peer.drain \subseteq new.drain
         /\ Established(l) => l \in new.drain
  <1> DEFINE D == peer.drain \cup {l}
             new == [peer EXCEPT !.drain = D]
  <1>1. \A k \in D : LinkOK(k, d, v)
    BY DEF PeerOK
  <1>2. Drained(peer, l) = new \/ (Drained(peer, l) = peer /\ ~Established(l))
    BY DEF Drained
  <1>3. /\ PeerOK(new, d, n, nt, v) /\ new.link = peer.link /\ new.pend = peer.pend
        /\ new.hs = peer.hs /\ Indexes(new) = Indexes(peer) /\ new.drain = D
    BY <1>1, DrainOK
  <1> HIDE DEF new
  <1> QED
    BY <1>2, <1>3

\* The displaced path is gone, its links drain with p.
Cleared(u, t, p, n, nt, v) ==
    /\ t \in NodeState /\ t.epoch = u.epoch /\ t.drawn = u.drawn /\ t.hist = u.hist
    /\ PeerOK(t.peers[p], u.drawn, n, nt, v)
    /\ t.peers[p].link = u.peers[p].link /\ t.peers[p].pend = u.peers[p].pend
    /\ Indexes(t.peers[p]) = Indexes(u.peers[p])
    /\ \A q \in Path \ {p} :
          \/ t.peers[q] = u.peers[q]
          \/ /\ t.peers[q] = NoPeer
             /\ Established(u.peers[q].link) => u.peers[q].link \in t.peers[p].drain

\* retireDisplacedMsg2Peer
LEMMA DisplacedFields ==
  ASSUME NEW v \in Environment, NEW n, NEW nt, NEW u \in NodeState, NEW p \in Path,
         \A q \in Path : PeerOK(u.peers[q], u.drawn, n, nt, v)
  PROVE  Cleared(u, Displaced(u, p), p, n, nt, v)
  <1> DEFINE t == Displaced(u, p)
             q == u.peers[p].via
             old == u.peers[q]
             peer == Drained(Drained(u.peers[p], old.link), old.pend)
             D == peer.drain \cup old.drain
             new == [peer EXCEPT !.drain = D]
             gone == SetPeer(u, q, NoPeer)
             set == SetPeer(gone, p, new)
             a == IF set.active = q THEN NoPath ELSE set.active
  <1>1. CASE q \notin Path \/ q = p \/ ~Present(u.peers[q])
    <2>1. t = u
      BY <1>1 DEF Displaced
    <2> QED
      BY <2>1 DEF Cleared
  <1>2. CASE ~(q \notin Path \/ q = p \/ ~Present(u.peers[q]))
    <2>1. t = [set EXCEPT !.active = a]
      BY <1>2 DEF Displaced
    <2>2. q \in Path /\ q # p /\ u.drawn \in Nat
      BY <1>2 DEF NodeState
    <2>3. /\ PeerOK(old, u.drawn, n, nt, v) /\ LinkOK(old.link, u.drawn, v)
          /\ LinkOK(old.pend, u.drawn, v) /\ \A l \in old.drain : LinkOK(l, u.drawn, v)
      BY <2>2 DEF PeerOK
    <2> HIDE DEF old
    <2>4. /\ PeerOK(peer, u.drawn, n, nt, v) /\ peer.link = u.peers[p].link
          /\ peer.pend = u.peers[p].pend /\ Indexes(peer) = Indexes(u.peers[p])
          /\ Established(old.link) => old.link \in peer.drain
      <3> DEFINE first == Drained(u.peers[p], old.link)
      <3>1. /\ PeerOK(first, u.drawn, n, nt, v) /\ first.link = u.peers[p].link
            /\ first.pend = u.peers[p].pend /\ Indexes(first) = Indexes(u.peers[p])
            /\ Established(old.link) => old.link \in first.drain
        BY <2>3, DrainedOK
      <3> HIDE DEF first
      <3>2. /\ PeerOK(Drained(first, old.pend), u.drawn, n, nt, v)
            /\ Drained(first, old.pend).link = first.link
            /\ Drained(first, old.pend).pend = first.pend
            /\ Indexes(Drained(first, old.pend)) = Indexes(first)
            /\ first.drain \subseteq Drained(first, old.pend).drain
        BY <2>3, <3>1, DrainedOK
      <3> QED
        BY <3>1, <3>2 DEF first
    <2> HIDE DEF peer
    <2>5. /\ PeerOK(new, u.drawn, n, nt, v) /\ new.link = peer.link
          /\ new.pend = peer.pend /\ Indexes(new) = Indexes(peer)
          /\ Established(old.link) => old.link \in new.drain
      <3>1. \A l \in D : LinkOK(l, u.drawn, v)
        BY <2>3, <2>4 DEF PeerOK
      <3>2. peer.drain \subseteq D
        OBVIOUS
      <3> HIDE DEF D
      <3>3. /\ PeerOK(new, u.drawn, n, nt, v) /\ new.link = peer.link
            /\ new.pend = peer.pend /\ Indexes(new) = Indexes(peer) /\ new.drain = D
        BY <2>4, <3>1, DrainOK
      <3> QED
        BY <2>4, <3>2, <3>3
    <2> HIDE DEF new
    <2>6. /\ gone \in NodeState
          /\ gone.epoch = u.epoch /\ gone.active = u.active /\ gone.hist = u.hist
          /\ gone.drawn = u.drawn /\ gone.peers[q] = NoPeer
          /\ \A r \in Path \ {q} : gone.peers[r] = u.peers[r]
      <3> HIDE DEF q
      <3> QED
        BY <2>2, SetPeerFields, NoPeerFields
    <2> HIDE DEF gone
    <2>7. /\ set \in NodeState
          /\ set.epoch = u.epoch /\ set.active = u.active /\ set.hist = u.hist
          /\ set.drawn = u.drawn /\ set.peers[p] = new
          /\ \A r \in Path \ {p} : set.peers[r] = gone.peers[r]
      BY <2>5, <2>6, SetPeerFields, PeerFields
    <2> HIDE DEF set
    <2>8. a \in Path \cup {NoPath, Gone}
      BY <2>7 DEF NodeState
    <2> HIDE DEF a, t
    <2>9. /\ t \in NodeState
          /\ t.epoch = set.epoch /\ t.hist = set.hist /\ t.drawn = set.drawn
          /\ t.peers = set.peers
      BY <2>1, <2>7, <2>8, ActiveFields
    <2> HIDE DEF q
    <2> QED
      BY <2>2, <2>4, <2>5, <2>6, <2>7, <2>9 DEF t, Cleared, old
  <1> QED
    BY <1>1, <1>2

\* complete of confirmOutgoingHandshake: the dialled link comes into use.
LEMMA CompleteGood ==
  ASSUME NEW v \in Environment, NEW n, NEW nt, NEW s, NEW u, NEW p \in Path,
         StateOK(s, n, nt, v), Near(s, u, p), u.drawn = s.drawn,
         PeerOK(u.peers[p], s.drawn, n, nt, v),
         Indexes(u.peers[p]) \subseteq Indexes(s.peers[p]),
         u.peers[p].pend # NoLink => s.peers[p].pend # NoLink,
         u.peers[p].link.epoch = s.peers[p].link.epoch,
         u.peers[p].link.st = s.peers[p].link.st, u.peers[p].link.idx = s.peers[p].link.idx,
         s.peers[p].link.rx \subseteq u.peers[p].link.rx
  PROVE  Good(s, Complete(u, p), p, n, nt, v) /\ Keeps(s, Complete(u, p))
  <1> DEFINE t == Complete(u, p)
             d == Displaced(u, p)
             r == Remember(d, p)
             peer == [r.peers[p] EXCEPT !.hs = "none", !.got = FALSE, !.via = NoPath]
  <1>1. /\ s \in NodeState /\ u \in NodeState /\ s.drawn \in Nat /\ Fits(s)
        /\ Len(u.hist) <= HistoryLimit
    BY StateFacts DEF Near
  <1>a. Established(s.peers[p].link) => Carries(u.peers[p], s.peers[p].link)
    BY DEF Carries, Established
  <1>2. CASE t = u
    <2>1. Fits(u)
      <3>1. Staged(u) \subseteq Staged(s)
        BY DEF Staged, Near
      <3> QED
        BY <1>1, <3>1, FitsLess
    <2>2. Forward(s, u)
      <3>1. u.active = s.active /\ (s.active \in Path =>
                u.peers[s.active].link.epoch = s.peers[s.active].link.epoch)
        BY DEF Near
      <3> QED
        BY <3>1, StaysForward
    <2>3. Good(s, u, p, n, nt, v)
      BY <1>1, <2>1, <2>2 DEF Good, Near
    <2>4. Keeps(s, u)
      BY <1>a, KeepsPath DEF Near
    <2> HIDE DEF t
    <2> QED
      BY <1>2, <2>3, <2>4 DEF t
  <1>3. CASE t # u
    <2>1. u.peers[p].hs = "sent" /\ t = SetPeer(r, p, peer)
      BY <1>3 DEF Complete
    <2>2. \A q \in Path : PeerOK(u.peers[q], u.drawn, n, nt, v)
      BY StateFacts DEF Near
    <2> HIDE DEF r, peer, t
    <2>3. /\ d \in NodeState /\ d.epoch = u.epoch /\ d.drawn = u.drawn /\ d.hist = u.hist
          /\ PeerOK(d.peers[p], u.drawn, n, nt, v)
          /\ d.peers[p].link = u.peers[p].link /\ d.peers[p].pend = u.peers[p].pend
          /\ Indexes(d.peers[p]) = Indexes(u.peers[p])
          /\ \A q \in Path \ {p} :
                \/ d.peers[q] = u.peers[q]
                \/ /\ d.peers[q] = NoPeer
                   /\ Established(u.peers[q].link) => u.peers[q].link \in d.peers[p].drain
      <3>1. Cleared(u, Displaced(u, p), p, n, nt, v)
        BY <1>1, <2>2, DisplacedFields, Zenon
      <3> QED
        BY <3>1 DEF Cleared
    <2> HIDE DEF d
    <2>4. /\ r \in NodeState /\ Len(r.hist) <= HistoryLimit /\ r.active = p
          /\ r.epoch = d.epoch /\ r.drawn = d.drawn /\ r.peers = d.peers
      BY <1>1, <2>3, RememberFields DEF r
    <2> HIDE DEF r
    <2>5. /\ peer \in PeerState /\ peer.link = u.peers[p].link /\ peer.pend = u.peers[p].pend
          /\ peer.drain = d.peers[p].drain /\ peer.hs = "none"
      <3>1. r.peers[p] \in PeerState
        BY <2>3, <2>4, PeerFields
      <3>2. peer \in PeerState
        BY <3>1 DEF PeerState, peer
      <3>3. peer.link = r.peers[p].link /\ peer.pend = r.peers[p].pend
            /\ peer.drain = r.peers[p].drain /\ peer.hs = "none"
        BY <3>1 DEF PeerState, peer
      <3> QED
        BY <2>3, <2>4, <3>2, <3>3
    <2> HIDE DEF peer
    <2>6. PeerOK(peer, s.drawn, n, nt, v) /\ Indexes(peer) = Indexes(u.peers[p])
      BY <2>3, <2>5 DEF PeerOK, Indexes
    <2>7. /\ t \in NodeState
          /\ t.epoch = r.epoch /\ t.active = p /\ t.hist = r.hist /\ t.drawn = r.drawn
          /\ t.peers[p] = peer /\ \A q \in Path \ {p} : t.peers[q] = r.peers[q]
      BY <2>1, <2>4, <2>5, SetPeerFields DEF t
    <2>8. Fits(t)
      <3>1. Staged(t) \subseteq Staged(s)
        BY <2>3, <2>4, <2>5, <2>7, NoPeerFields DEF Staged, Near
      <3> QED
        BY <1>1, <3>1, FitsLess
    <2>9. Forward(s, t)
      <3>1. Established(u.peers[p].link) /\ u.peers[p].link.epoch # 0
        BY <2>1 DEF PeerOK, LinkOK
      <3>2. Established(s.peers[p].link)
        BY <3>1, StateFacts DEF PeerOK, LinkOK
      <3> QED
        BY <2>5, <2>7, <3>2, OtherForward
    <2>10. Good(s, t, p, n, nt, v)
      BY <1>1, <2>3, <2>4, <2>6, <2>7, <2>8, <2>9 DEF Good, Near
    <2>11. Keeps(s, t)
      <3> DEFINE a == s.active
                 old == s.peers[a].link
      <3>1. SUFFICES ASSUME a \in Path, Established(old) PROVE \E q \in Path : Carries(t.peers[q], old)
        BY DEF Keeps, Live
      <3>2. CASE a = p
        <4>1. t.peers[p].link = u.peers[p].link
          BY <2>5, <2>7
        <4> QED
          BY <3>1, <3>2, <4>1 DEF Carries, Established
      <3>3. CASE a # p /\ d.peers[a] = u.peers[a]
        <4>1. t.peers[a] = s.peers[a]
          BY <2>4, <2>7, <3>1, <3>3 DEF Near
        <4> QED
          BY <3>1, <4>1 DEF Carries
      <3>4. CASE a # p /\ d.peers[a] # u.peers[a]
        <4>1. u.peers[a] = s.peers[a]
          BY <3>1, <3>4 DEF Near
        <4>2. old \in t.peers[p].drain
          BY <2>3, <2>5, <2>7, <3>1, <3>4, <4>1
        <4> QED
          BY <3>1, <4>2 DEF Carries
      <3> QED
        BY <3>2, <3>3, <3>4
    <2> QED
      BY <2>10, <2>11 DEF t
  <1> QED
    BY <1>2, <1>3

-----------------------------------------------------------------------------
(* The handlers                                                            *)

\* The step is one that StepOK speaks of.
Handled(n, p) ==
    /\ env' \in Environment
    /\ env'.idx = env.idx /\ env'.tx = env.tx /\ env'.restarts = env.restarts
    /\ \E t, m :
          /\ Good(nodes[n], t, p, n, net, env) /\ Become(n, t)
          /\ env' = env => Keeps(nodes[n], t)
          /\ net' = net \/ (net' = net \cup {m} /\ Sendable(nodes[n], t, p, n, m, env))

LEMMA HandlerFacts ==
  ASSUME Inv, NEW n \in Node
  PROVE  /\ env \in Environment /\ nodes[n] \in NodeState
         /\ StateOK(nodes[n], n, net, env) /\ SentOK(nodes[n], n, net) /\ NetOK(net, env)
  BY DEF Inv

LEMMA SameEnv ==
  ASSUME Inv, env' = env \/ (env.drops > 0 /\ env' = [env EXCEPT !.drops = @ - 1])
  PROVE  /\ env' \in Environment
         /\ env'.idx = env.idx /\ env'.tx = env.tx /\ env'.restarts = env.restarts
  BY DEF Inv, Environment

LEMMA ConnectGood ==
  ASSUME Inv, NEW n \in Node, NEW p \in Path, Connect(n, p)
  PROVE  Handled(n, p)
  <1> DEFINE s == nodes[n]
             i == s.drawn + 1
             link == NewLink("handshaking", "initiator", i, 0, 0)
             peer == [NoPeer EXCEPT !.known = TRUE, !.link = link, !.hs = "msg1"]
             u == SetPeer(s, p, peer)
             a == IF u.active = p THEN Gone ELSE u.active
             e == u.drawn + 1
             t == [u EXCEPT !.drawn = e, !.active = a]
             m == Msg1(n, link, s.epoch, p)
  <1>1. /\ env \in Environment /\ s \in NodeState /\ StateOK(s, n, net, env)
        /\ s.drawn \in Nat /\ s.epoch \in Nat /\ Fits(s) /\ Len(s.hist) <= HistoryLimit
    BY HandlerFacts, StateFacts
  <1>2. /\ ~Established(s.peers[p].link) /\ Become(n, t) /\ net' = net \cup {m} /\ env' = env
    BY DEF Connect
  <1> HIDE DEF s
  <1>3. /\ link \in LinkState /\ link.st = "handshaking" /\ link.role = "initiator"
        /\ link.idx = s.drawn + 1 /\ link.far = 0 /\ link.epoch = 0 /\ link.tx = 0 /\ link.rx = {}
    <2>1. i \in Nat /\ i = s.drawn + 1 /\ 0 \in Nat
      BY <1>1
    <2> HIDE DEF i
    <2> QED
      BY <2>1, NewLinkFields
  <1> HIDE DEF link
  <1>4. /\ peer \in PeerState /\ peer.link = link /\ peer.pend = NoLink /\ peer.drain = {}
        /\ peer.hs = "msg1"
    <2>1. peer \in PeerState
      BY <1>3, NoPeerFields DEF PeerState
    <2>2. peer.link = link /\ peer.pend = NoLink /\ peer.drain = {} /\ peer.hs = "msg1"
      BY NoPeerFields DEF PeerState
    <2> QED
      BY <2>1, <2>2
  <1> HIDE DEF peer
  <1>5. PeerOK(peer, s.drawn + 1, n, net, env)
    <2>1. LinkOK(link, s.drawn + 1, env) /\ ~Established(link)
      BY <1>1, <1>3, EnvTypes DEF LinkOK, Established
    <2>2. LinkOK(NoLink, s.drawn + 1, env) /\ ~Established(NoLink)
      BY <1>1, NoLinkOK, NoLinkFields
    <2> QED
      BY <1>3, <1>4, <2>1, <2>2 DEF PeerOK, Told
  <1>6. Indexes(peer) = {s.drawn + 1}
    BY <1>1, <1>3, <1>4, NoLinkFields DEF Indexes
  <1>7. /\ u \in NodeState
        /\ u.epoch = s.epoch /\ u.active = s.active /\ u.hist = s.hist /\ u.drawn = s.drawn
        /\ u.peers[p] = peer /\ \A q \in Path \ {p} : u.peers[q] = s.peers[q]
    BY <1>1, <1>4, SetPeerFields
  <1> HIDE DEF u
  <1>8. a \in Path \cup {NoPath, Gone} /\ (a = s.active \/ a = Gone) /\ (s.active = p => a = Gone)
    BY <1>7 DEF NodeState
  <1> HIDE DEF a
  <1>9. e \in Nat /\ e = s.drawn + 1
    BY <1>1, <1>7
  <1> HIDE DEF e
  <1>10. /\ t \in NodeState
         /\ t.epoch = s.epoch /\ t.active = a /\ t.hist = s.hist /\ t.drawn = s.drawn + 1
         /\ t.peers = u.peers
    <2>1. t \in NodeState
      BY <1>7, <1>8, <1>9 DEF NodeState
    <2>2. t.epoch = u.epoch /\ t.active = a /\ t.hist = u.hist /\ t.drawn = e /\ t.peers = u.peers
      BY <1>7 DEF NodeState
    <2> QED
      BY <1>7, <1>9, <2>1, <2>2
  <1> HIDE DEF t
  <1>11. Fits(t)
    <2>1. Staged(t) \subseteq Staged(s)
      BY <1>4, <1>7, <1>10 DEF Staged
    <2> QED
      BY <1>1, <2>1, FitsLess
  <1>12. Forward(s, t)
    <2>1. CASE a = Gone
      BY <1>10, <2>1, Bounds DEF Forward, Live
    <2>2. CASE a # Gone
      <3>1. a = s.active /\ s.active # p
        BY <1>8, <2>2
      <3> QED
        BY <1>7, <1>10, <3>1, StaysForward
    <2> QED
      BY <2>1, <2>2
  <1>13. Good(s, t, p, n, net, env)
    <2>1. Indexes(t.peers[p]) \subseteq Indexes(s.peers[p]) \cup (s.drawn + 1 .. t.drawn)
      BY <1>1, <1>6, <1>7, <1>10
    <2> QED
      BY <1>1, <1>5, <1>7, <1>9, <1>10, <1>11, <1>12, <2>1 DEF Good
  <1>14. Sendable(s, t, p, n, m, env)
    <2>1. /\ m \in Message /\ m.from = n /\ m.idx = s.drawn + 1 /\ m.c = 0 /\ m.epoch = s.epoch
      BY <1>1, <1>3 DEF Msg1, Message
    <2> QED
      BY <1>1, <1>10, <2>1, EnvTypes DEF Sendable
  <1>15. Keeps(s, t)
    <2>1. \A q \in Path \ {p} : t.peers[q] = s.peers[q]
      BY <1>7, <1>10
    <2>2. s.active = p /\ Established(s.peers[p].link) /\ s.peers[p].hs = "none"
            => Carries(t.peers[p], s.peers[p].link)
      BY <1>2
    <2> QED
      BY <2>1, <2>2, KeepsPath
  <1> HIDE DEF m
  <1> QED
    BY <1>1, <1>2, <1>13, <1>14, <1>15 DEF Handled, s

LEMMA RemovalGood ==
  ASSUME Inv, NEW n \in Node, NEW p \in Path, HandshakeFails(n, p) \/ Disconnect(n, p)
  PROVE  Handled(n, p)
  <1> DEFINE s == nodes[n]
  <1>1. /\ env \in Environment /\ s \in NodeState /\ StateOK(s, n, net, env)
        /\ s.drawn \in Nat /\ Fits(s)
    BY HandlerFacts, StateFacts
  <1>2. Near(s, s, p)
    BY <1>1 DEF Near
  <1>3. PICK t \in Removed(s, p) : Become(n, t)
    BY DEF HandshakeFails, Disconnect
  <1>4. net' = net /\ env.drops > 0 /\ env' = [env EXCEPT !.drops = @ - 1]
    BY DEF HandshakeFails, Disconnect
  <1> HIDE DEF s
  <1>5. Good(s, t, p, n, net, env)
    BY <1>1, <1>2, RemovedGood
  <1>6. env' # env
    BY <1>1, <1>4, EnvTypes DEF Environment
  <1> QED
    BY <1>3, <1>4, <1>5, <1>6, SameEnv DEF Handled, s

LEMMA PendingExpiresGood ==
  ASSUME Inv, NEW n \in Node, NEW p \in Path, PendingExpires(n, p)
  PROVE  Handled(n, p)
  <1> DEFINE s == nodes[n]
             peer == s.peers[p]
             new == [peer EXCEPT !.pend = NoLink]
  <1>1. /\ env \in Environment /\ s \in NodeState /\ StateOK(s, n, net, env)
        /\ s.drawn \in Nat /\ Fits(s) /\ PeerOK(peer, s.drawn, n, net, env)
    BY HandlerFacts, StateFacts
  <1>2. Near(s, s, p)
    BY <1>1 DEF Near
  <1>3. PICK t : /\ Become(n, t)
                  /\ \/ t \in Removed(s, p) /\ ~Established(peer.link)
                     \/ t = SetPeer(s, p, new)
    BY DEF PendingExpires
  <1>4. net' = net /\ env' = env
    BY DEF PendingExpires
  <1> HIDE DEF s, peer
  <1>5. ASSUME t = SetPeer(s, p, new) PROVE Good(s, t, p, n, net, env) /\ Keeps(s, t)
    <2>1. new \in PeerState
      BY <1>1, PeerFields, NoLinkFields DEF PeerState
    <2>2. new.link = peer.link /\ new.pend = NoLink /\ new.drain = peer.drain /\ new.hs = peer.hs
      BY <1>1, PeerFields DEF PeerState
    <2> HIDE DEF new
    <2>3. PeerOK(new, s.drawn, n, net, env)
      BY <1>1, <2>1, <2>2, NoLinkOK, NoLinkFields DEF PeerOK, Told
    <2>4. Indexes(new) \subseteq Indexes(peer)
      BY <2>2, NoLinkFields DEF Indexes
    <2>5. Good(s, t, p, n, net, env)
      BY <1>1, <1>5, <2>2, <2>3, <2>4, SetPeerGood DEF peer
    <2>6. Established(peer.link) => Carries(new, peer.link)
      BY <2>2 DEF Carries
    <2> QED
      BY <1>1, <1>5, <2>1, <2>5, <2>6, SetPeerKeeps DEF peer
  <1>6. ASSUME t \in Removed(s, p), ~Established(peer.link)
        PROVE  Good(s, t, p, n, net, env) /\ Keeps(s, t)
    <2>1. Good(s, t, p, n, net, env) /\ \A q \in Path \ {p} : t.peers[q] = s.peers[q]
      BY <1>1, <1>2, <1>6, RemovedGood
    <2>2. s.active = p /\ Established(s.peers[p].link) /\ s.peers[p].hs = "none"
            => Carries(t.peers[p], s.peers[p].link)
      BY <1>6 DEF peer
    <2>3. \A q \in Path \ {p} : t.peers[q] = s.peers[q]
      BY <2>1
    <2>4. Keeps(s, t)
      BY <2>2, <2>3, KeepsPath
    <2> QED
      BY <2>1, <2>4
  <1>7. Good(s, t, p, n, net, env) /\ Keeps(s, t)
    BY <1>3, <1>5, <1>6
  <1> QED
    BY <1>1, <1>3, <1>4, <1>7 DEF Handled, s

LEMMA DrainExpiresGood ==
  ASSUME Inv, NEW n \in Node, NEW p \in Path, DrainExpires(n, p)
  PROVE  Handled(n, p)
  <1> DEFINE s == nodes[n]
             peer == s.peers[p]
  <1>1. /\ env \in Environment /\ s \in NodeState /\ StateOK(s, n, net, env)
        /\ PeerOK(peer, s.drawn, n, net, env)
    BY HandlerFacts, StateFacts
  <1>2. PICK l \in peer.drain : Become(n, [s EXCEPT !.peers[p].drain = @ \ {l}])
    BY DEF DrainExpires
  <1>3. net' = net /\ env' = env
    BY DEF DrainExpires
  <1> DEFINE D == peer.drain \ {l}
             new == [peer EXCEPT !.drain = D]
             t == SetPeer(s, p, new)
  <1>4. [s EXCEPT !.peers[p].drain = @ \ {l}] = t
    BY <1>1 DEF NodeState, SetPeer
  <1> HIDE DEF s, peer, D
  <1>5. \A k \in D : LinkOK(k, s.drawn, env)
    BY <1>1 DEF PeerOK, D
  <1>6. /\ PeerOK(new, s.drawn, n, net, env) /\ new.link = peer.link /\ new.pend = peer.pend
        /\ Indexes(new) = Indexes(peer)
    BY <1>1, <1>5, DrainOK
  <1> HIDE DEF new
  <1>7. Good(s, t, p, n, net, env)
    BY <1>1, <1>6, SetPeerGood DEF peer
  <1>8. Keeps(s, t)
    <2>1. Established(peer.link) => Carries(new, peer.link)
      BY <1>6 DEF Carries
    <2> QED
      BY <1>1, <1>6, <2>1, SetPeerKeeps, PeerFields DEF peer
  <1> HIDE DEF t
  <1> QED
    BY <1>1, <1>2, <1>3, <1>4, <1>7, <1>8 DEF Handled, s

\* A link that differs in its counters alone takes the place of another.
LEMMA SameLinkOK ==
  ASSUME NEW peer, NEW d, NEW n, NEW nt, NEW v, PeerOK(peer, d, n, nt, v),
         NEW new \in PeerState, LinkOK(new.link, d, v),
         new.link.st = peer.link.st, new.link.role = peer.link.role,
         new.link.idx = peer.link.idx, new.link.far = peer.link.far,
         new.link.epoch = peer.link.epoch,
         new.pend = peer.pend, new.drain = peer.drain, new.hs = peer.hs
  PROVE  PeerOK(new, d, n, nt, v) /\ Indexes(new) = Indexes(peer)
  <1>1. Established(new.link) <=> Established(peer.link)
    BY DEF Established
  <1>2. Told(new.link, n, nt)
    BY <1>1 DEF PeerOK, Told
  <1> QED
    BY <1>1, <1>2 DEF PeerOK, Indexes

LEMMA SendFrameGood ==
  ASSUME Inv, NEW n \in Node, NEW p \in Path, SendFrame(n, p)
  PROVE  Handled(n, p)
  <1> DEFINE s == nodes[n]
             peer == s.peers[p]
             l == peer.link
             c == l.tx + 1
             k == [l EXCEPT !.tx = c]
             new == [peer EXCEPT !.link = k]
             t == SetPeer(s, p, new)
             m == Frame(n, l)
  <1>1. /\ env \in Environment /\ s \in NodeState /\ StateOK(s, n, net, env) /\ s.drawn \in Nat
        /\ PeerOK(peer, s.drawn, n, net, env) /\ LinkOK(l, s.drawn, env) /\ l \in LinkState
    <2>1. /\ env \in Environment /\ s \in NodeState /\ StateOK(s, n, net, env) /\ s.drawn \in Nat
          /\ PeerOK(peer, s.drawn, n, net, env)
      BY HandlerFacts, StateFacts
    <2> QED
      BY <2>1 DEF PeerOK, LinkOK
  <1>2. /\ l.tx < env.tx /\ Become(n, [s EXCEPT !.peers[p].link.tx = @ + 1])
        /\ net' = net \cup {m} /\ env' = env
    BY DEF SendFrame
  <1>3. [s EXCEPT !.peers[p].link.tx = @ + 1] = t
    BY <1>1 DEF NodeState, SetPeer
  <1> HIDE DEF s, peer, l
  <1>4. c \in Nat /\ c <= env.tx /\ l.tx \in Nat /\ l.tx <= env.tx
    BY <1>1, <1>2, EnvTypes DEF LinkState
  <1> HIDE DEF c
  <1>5. /\ k \in LinkState /\ k.st = l.st /\ k.role = l.role /\ k.idx = l.idx /\ k.far = l.far
        /\ k.epoch = l.epoch /\ k.tx = c /\ k.rx = l.rx
    <2>1. k \in LinkState
      BY <1>1, <1>4 DEF LinkState
    <2>2. /\ k.st = l.st /\ k.role = l.role /\ k.idx = l.idx /\ k.far = l.far
          /\ k.epoch = l.epoch /\ k.tx = c /\ k.rx = l.rx
      BY <1>1 DEF LinkState
    <2> QED
      BY <2>1, <2>2
  <1> HIDE DEF k
  <1>6. LinkOK(k, s.drawn, env)
    BY <1>1, <1>4, <1>5 DEF LinkOK, Established
  <1>7. /\ new \in PeerState /\ new.link = k /\ new.pend = peer.pend /\ new.drain = peer.drain
        /\ new.hs = peer.hs
    <2>1. new \in PeerState
      BY <1>1, <1>5, PeerFields DEF PeerState
    <2>2. /\ new.link = k /\ new.pend = peer.pend /\ new.drain = peer.drain /\ new.hs = peer.hs
      BY <1>1, PeerFields DEF PeerState
    <2> QED
      BY <2>1, <2>2
  <1> HIDE DEF new
  <1>8. PeerOK(new, s.drawn, n, net, env) /\ Indexes(new) = Indexes(peer)
    BY <1>1, <1>5, <1>6, <1>7, SameLinkOK DEF l
  <1>9. Good(s, t, p, n, net, env) /\ t.drawn = s.drawn
    <2>1. t.drawn = s.drawn
      BY <1>1, <1>7, SetPeerFields
    <2> QED
      BY <1>1, <1>5, <1>7, <1>8, <2>1, SetPeerGood DEF peer, l
  <1>11. Keeps(s, t)
    <2>1. Established(l) => Carries(new, l)
      BY <1>5, <1>7 DEF Carries, Established
    <2> QED
      BY <1>1, <1>7, <2>1, SetPeerKeeps DEF l, peer
  <1>10. Sendable(s, t, p, n, m, env)
    <2>1. m \in Message /\ m.from = n /\ m.idx = l.idx /\ m.c = l.tx /\ m.type = "Frame"
      <3>1. 0 \in Nat
        OBVIOUS
      <3> QED
        BY <1>1, <3>1 DEF Frame, Message, LinkState
    <2> QED
      BY <1>1, <1>4, <1>9, <2>1 DEF Sendable, LinkOK
  <1> HIDE DEF m, t
  <1> QED
    BY <1>1, <1>2, <1>3, <1>9, <1>10, <1>11 DEF Handled, s

LEMMA ConfirmSentGood ==
  ASSUME Inv, NEW n \in Node, NEW p \in Path, ConfirmSent(n, p)
  PROVE  Handled(n, p)
  <1> DEFINE s == nodes[n]
             peer == s.peers[p]
             new == [peer EXCEPT !.hs = "sent"]
             u == SetPeer(s, p, new)
             t == Complete(u, p)
  <1>1. /\ env \in Environment /\ s \in NodeState /\ StateOK(s, n, net, env) /\ s.drawn \in Nat
        /\ PeerOK(peer, s.drawn, n, net, env)
    BY HandlerFacts, StateFacts
  <1>2. /\ peer.hs = "sending" /\ Become(n, Complete([s EXCEPT !.peers[p].hs = "sent"], p))
        /\ net' = net /\ env' = env
    BY DEF ConfirmSent
  <1>3. [s EXCEPT !.peers[p].hs = "sent"] = u
    BY <1>1 DEF NodeState, SetPeer
  <1> HIDE DEF s, peer
  <1>4. /\ new \in PeerState /\ new.link = peer.link /\ new.pend = peer.pend
        /\ new.drain = peer.drain /\ new.hs = "sent"
    <2>1. new \in PeerState
      BY <1>1, PeerFields DEF PeerState
    <2>2. /\ new.link = peer.link /\ new.pend = peer.pend
          /\ new.drain = peer.drain /\ new.hs = "sent"
      BY <1>1, PeerFields DEF PeerState
    <2> QED
      BY <2>1, <2>2
  <1> HIDE DEF new
  <1>5. PeerOK(new, s.drawn, n, net, env) /\ Indexes(new) = Indexes(peer)
    BY <1>1, <1>2, <1>4 DEF PeerOK, Indexes
  <1>6. /\ u \in NodeState
        /\ u.epoch = s.epoch /\ u.active = s.active /\ u.hist = s.hist /\ u.drawn = s.drawn
        /\ u.peers[p] = new /\ \A q \in Path \ {p} : u.peers[q] = s.peers[q]
    BY <1>1, <1>4, SetPeerFields
  <1> HIDE DEF u
  <1>7. Near(s, u, p)
    BY <1>1, <1>6 DEF Near
  <1>8. Good(s, t, p, n, net, env) /\ Keeps(s, t)
    BY <1>1, <1>4, <1>5, <1>6, <1>7, CompleteGood DEF peer
  <1> HIDE DEF t
  <1> QED
    BY <1>1, <1>2, <1>3, <1>8 DEF Handled, s, t

\* rememberPeer on the path that was handled.
LEMMA RememberGood ==
  ASSUME NEW v \in Environment, NEW n, NEW nt, NEW s, NEW u, NEW p \in Path,
         StateOK(s, n, nt, v), Good(s, u, p, n, nt, v),
         \/ u.peers[p].link.rx # {}
         \/ Established(s.peers[p].link) /\ u.peers[p].link.epoch = s.peers[p].link.epoch
         \/ Live(s) /\ OneLife(s) => u.peers[p].link.epoch = s.peers[s.active].link.epoch
         \/ ~\E i \in DOMAIN s.hist : s.hist[i] = u.peers[p].link.epoch
  PROVE  Good(s, Remember(u, p), p, n, nt, v)
  <1> DEFINE t == Remember(u, p)
  <1>1. u \in NodeState /\ Len(u.hist) <= HistoryLimit /\ s.drawn \in Nat
    BY StateFacts DEF Good
  <1>2. /\ t \in NodeState /\ Len(t.hist) <= HistoryLimit /\ t.active = p
        /\ t.epoch = u.epoch /\ t.drawn = u.drawn /\ t.peers = u.peers
    BY <1>1, RememberFields
  <1> HIDE DEF t
  <1>3. Fits(t)
    BY <1>2 DEF Fits, Staged, Good
  <1>4. Forward(s, t)
    BY <1>2 DEF Forward, Live, OneLife
  <1>5. Good(s, t, p, n, nt, v)
    BY <1>1, <1>2, <1>3, <1>4 DEF Good
  <1> QED
    BY <1>5 DEF t

LEMMA ReceivedFields ==
  ASSUME NEW l, NEW d, NEW v \in Environment, LinkOK(l, d, v), NEW f, f.c \in Nat, f.c <= v.tx
  PROVE  LET k == Received(l, f) IN
         /\ LinkOK(k, d, v) /\ k.st = l.st /\ k.role = l.role /\ k.idx = l.idx /\ k.far = l.far
         /\ k.epoch = l.epoch /\ k.rx # {} /\ l.rx \subseteq k.rx
  <1> DEFINE r == l.rx \cup {f.c}
             k == [l EXCEPT !.rx = r]
  <1>1. l \in LinkState /\ l.rx \subseteq Nat
    BY DEF LinkOK, LinkState
  <1>2. r \in SUBSET Nat /\ r \subseteq 0 .. v.tx /\ r # {} /\ l.rx \subseteq r
    BY <1>1, EnvTypes DEF LinkOK
  <1> HIDE DEF r
  <1>3. k \in LinkState
    BY <1>1, <1>2 DEF LinkState
  <1>4. /\ k.st = l.st /\ k.role = l.role /\ k.idx = l.idx /\ k.far = l.far
        /\ k.epoch = l.epoch /\ k.tx = l.tx /\ k.rx = r
    BY <1>1 DEF LinkState
  <1>5. Received(l, f) = k
    BY DEF Received, r
  <1> HIDE DEF k
  <1>6. LinkOK(k, d, v)
    BY <1>2, <1>3, <1>4 DEF LinkOK, Established
  <1> QED
    BY <1>2, <1>4, <1>5, <1>6

LEMMA RecvFrameGood ==
  ASSUME Inv, NEW n \in Node, NEW p \in Path, NEW f \in net, RecvFrame(n, p, f)
  PROVE  Handled(n, p)
  <1> DEFINE s == nodes[n]
             peer == s.peers[p]
  <1>1. /\ env \in Environment /\ s \in NodeState /\ StateOK(s, n, net, env) /\ s.drawn \in Nat
        /\ PeerOK(peer, s.drawn, n, net, env)
    BY HandlerFacts, StateFacts
  <1>2. f.c \in Nat /\ f.c <= env.tx
    BY HandlerFacts DEF NetOK, Message
  <1>3. net' = net /\ env' = env
    BY DEF RecvFrame
  <1>4. ASSUME NEW t, Become(n, t), Good(s, t, p, n, net, env), Keeps(s, t) PROVE Handled(n, p)
    BY <1>1, <1>3, <1>4 DEF Handled
  <1>5. ASSUME NEW g \in BOOLEAN, NEW k, k = Received(peer.link, f),
               Become(n, Complete(SetPeer(s, p, [peer EXCEPT !.link = k, !.got = g]), p))
        PROVE  Handled(n, p)
    <2> DEFINE new == [peer EXCEPT !.link = k, !.got = g]
               u == SetPeer(s, p, new)
               t == Complete(u, p)
    <2> HIDE DEF s, peer
    <2>1. LinkOK(peer.link, s.drawn, env)
      BY <1>1 DEF PeerOK
    <2>2. /\ LinkOK(k, s.drawn, env) /\ k.st = peer.link.st /\ k.role = peer.link.role
          /\ k.idx = peer.link.idx /\ k.far = peer.link.far
          /\ k.epoch = peer.link.epoch /\ peer.link.rx \subseteq k.rx
      BY <1>1, <1>2, <1>5, <2>1, ReceivedFields
    <2>3. k \in LinkState
      BY <2>2 DEF LinkOK
    <2>4. new \in PeerState
      BY <1>1, <1>5, <2>3, PeerFields DEF PeerState
    <2>5. new.link = k /\ new.pend = peer.pend /\ new.drain = peer.drain /\ new.hs = peer.hs
      BY <1>1, PeerFields DEF PeerState
    <2> HIDE DEF new
    <2>6. PeerOK(new, s.drawn, n, net, env) /\ Indexes(new) = Indexes(peer)
      BY <1>1, <2>2, <2>4, <2>5, SameLinkOK
    <2>7. /\ u \in NodeState
          /\ u.epoch = s.epoch /\ u.active = s.active /\ u.hist = s.hist /\ u.drawn = s.drawn
          /\ u.peers[p] = new /\ \A q \in Path \ {p} : u.peers[q] = s.peers[q]
      BY <1>1, <2>4, SetPeerFields
    <2> HIDE DEF u
    <2>8. Near(s, u, p)
      BY <1>1, <2>7 DEF Near
    <2>9. Good(s, t, p, n, net, env) /\ Keeps(s, t)
      BY <1>1, <2>2, <2>5, <2>6, <2>7, <2>8, CompleteGood DEF peer
    <2> QED
      BY <1>4, <1>5, <2>9 DEF t, u, new
  <1>6. ASSUME NEW k, k = Received(peer.pend, f), Established(peer.pend),
               NEW new, new = [peer EXCEPT !.link = k, !.pend = NoLink],
               \/ Become(n, SetPeer(s, p, Drained(new, peer.link)))
               \/ ~Established(peer.link) /\ Become(n, Remember(SetPeer(s, p, new), p))
        PROVE  Handled(n, p)
    <2> HIDE DEF s, peer
    <2>1. /\ LinkOK(peer.link, s.drawn, env) /\ LinkOK(peer.pend, s.drawn, env)
          /\ peer.hs = "none" /\ peer.pend # NoLink
      BY <1>1, <1>6, NoLinkFields DEF PeerOK
    <2>2. /\ LinkOK(k, s.drawn, env) /\ k.st = peer.pend.st /\ k.role = peer.pend.role
          /\ k.idx = peer.pend.idx /\ k.far = peer.pend.far
          /\ k.epoch = peer.pend.epoch /\ k.rx # {}
      BY <1>1, <1>2, <1>6, <2>1, ReceivedFields
    <2>3. k \in LinkState
      BY <2>2 DEF LinkOK
    <2>4. new \in PeerState
      <3>1. peer \in PeerState /\ new = [peer EXCEPT !.link = k, !.pend = NoLink]
        BY <1>1, <1>6, PeerFields
      <3> QED
        BY <2>3, <3>1, NoLinkFields DEF PeerState
    <2>5. new.link = k /\ new.pend = NoLink /\ new.drain = peer.drain /\ new.hs = peer.hs
      BY <1>1, <1>6, PeerFields DEF PeerState
    <2>6. Told(k, n, net)
      BY <1>1, <1>6, <2>2 DEF PeerOK, Told
    <2>7. PeerOK(new, s.drawn, n, net, env) /\ Indexes(new) \subseteq Indexes(peer)
      <3>1. LinkOK(NoLink, s.drawn, env) /\ Told(NoLink, n, net)
        BY <1>1, NoLinkOK, NoLinkFields DEF Told
      <3>2. PeerOK(new, s.drawn, n, net, env)
        BY <1>1, <2>1, <2>2, <2>4, <2>5, <2>6, <3>1 DEF PeerOK
      <3>3. Indexes(new) \subseteq Indexes(peer)
        BY <2>2, <2>5, NoLinkFields DEF Indexes
      <3> QED
        BY <3>2, <3>3
    <2>8. ASSUME Become(n, SetPeer(s, p, Drained(new, peer.link))) PROVE Handled(n, p)
      <3> DEFINE over == Drained(new, peer.link)
      <3>1. /\ PeerOK(over, s.drawn, n, net, env) /\ over.link = new.link
            /\ over.pend = new.pend /\ Indexes(over) = Indexes(new)
            /\ Established(peer.link) => peer.link \in over.drain
        BY <2>1, <2>7, DrainedOK
      <3> HIDE DEF over
      <3>2. Good(s, SetPeer(s, p, over), p, n, net, env)
        BY <1>1, <2>2, <2>5, <2>7, <3>1, SetPeerGood DEF peer
      <3>3. Keeps(s, SetPeer(s, p, over))
        <4>1. Established(peer.link) => Carries(over, peer.link)
          BY <3>1 DEF Carries
        <4> QED
          BY <1>1, <3>1, <4>1, SetPeerKeeps, PeerFields DEF peer
      <3> QED
        BY <1>4, <2>8, <3>2, <3>3 DEF over
    <2>9. ASSUME ~Established(peer.link), Become(n, Remember(SetPeer(s, p, new), p))
          PROVE  Handled(n, p)
      <3> DEFINE u == SetPeer(s, p, new)
      <3>1. Good(s, u, p, n, net, env)
        BY <1>1, <2>2, <2>5, <2>7, SetPeerGood DEF peer
      <3>2. u.peers[p] = new /\ \A q \in Path \ {p} : u.peers[q] = s.peers[q]
        BY <1>1, <2>4, SetPeerFields
      <3> HIDE DEF u
      <3>3. Good(s, Remember(u, p), p, n, net, env)
        BY <1>1, <2>2, <2>5, <3>1, <3>2, RememberGood
      <3>4. Keeps(s, Remember(u, p))
        <4>1. u \in NodeState /\ Len(u.hist) <= HistoryLimit
          BY <3>1 DEF Good
        <4> DEFINE t == Remember(u, p)
        <4>2. t.peers = u.peers
          BY <4>1, RememberFields
        <4> HIDE DEF t
        <4>3. \A q \in Path \ {p} : t.peers[q] = s.peers[q]
          BY <3>2, <4>2
        <4>4. s.active = p /\ Established(s.peers[p].link) /\ s.peers[p].hs = "none"
                => Carries(t.peers[p], s.peers[p].link)
          BY <2>9 DEF peer
        <4>5. Keeps(s, t)
          BY <4>3, <4>4, KeepsPath
        <4> QED
          BY <4>5 DEF t
      <3> QED
        BY <1>4, <2>9, <3>3, <3>4 DEF u
    <2> QED
      BY <1>6, <2>8, <2>9
  <1>7. ASSUME NEW l \in peer.drain, NEW k, k = Received(l, f), NEW D,
               D = (peer.drain \ {l}) \cup {k},
               Become(n, SetPeer(s, p, [peer EXCEPT !.drain = D]))
        PROVE  Handled(n, p)
    <2> DEFINE new == [peer EXCEPT !.drain = D]
    <2> HIDE DEF s, peer
    <2>1. \A j \in peer.drain : LinkOK(j, s.drawn, env)
      BY <1>1 DEF PeerOK
    <2>2. LinkOK(k, s.drawn, env)
      BY <1>1, <1>2, <1>7, <2>1, ReceivedFields
    <2>3. \A j \in D : LinkOK(j, s.drawn, env)
      BY <1>7, <2>1, <2>2
    <2>4. /\ PeerOK(new, s.drawn, n, net, env) /\ new.link = peer.link /\ new.pend = peer.pend
          /\ Indexes(new) = Indexes(peer)
      BY <1>1, <2>3, DrainOK
    <2> HIDE DEF new
    <2>5. Good(s, SetPeer(s, p, new), p, n, net, env)
      BY <1>1, <2>4, SetPeerGood DEF peer
    <2>6. Keeps(s, SetPeer(s, p, new))
      <3>1. Established(peer.link) => Carries(new, peer.link)
        BY <2>4 DEF Carries
      <3> QED
        BY <1>1, <2>4, <3>1, SetPeerKeeps, PeerFields DEF peer
    <2> QED
      BY <1>4, <1>7, <2>5, <2>6 DEF new
  <1>8. CASE /\ Opens(peer.link, f)
             /\ Become(n, Complete(SetPeer(s, p, [peer EXCEPT !.link = Received(@, f),
                                                     !.got = peer.hs \in {"sending", "sent"}]), p))
    <2> DEFINE g == peer.hs \in {"sending", "sent"}
    <2>1. g \in BOOLEAN
      OBVIOUS
    <2>2. Become(n, Complete(SetPeer(s, p, [peer EXCEPT !.link = Received(peer.link, f),
                                                        !.got = g]), p))
      BY <1>8
    <2> HIDE DEF g, s, peer
    <2> QED
      BY <1>5, <2>1, <2>2
  <1>9. CASE /\ Opens(peer.pend, f)
             /\ LET promoted == [peer EXCEPT !.link = Received(peer.pend, f), !.pend = NoLink] IN
                Become(n, IF Established(peer.link)
                          THEN SetPeer(s, p, Drained(promoted, peer.link))
                          ELSE Remember(SetPeer(s, p, promoted), p))
    <2>1. Established(peer.pend)
      BY <1>9 DEF Opens
    <2> HIDE DEF s, peer
    <2> QED
      BY <1>6, <1>9, <2>1
  <1>10. CASE \E l \in peer.drain :
                 /\ Opens(l, f)
                 /\ Become(n, SetPeer(s, p, [peer EXCEPT !.drain =
                                               (@ \ {l}) \cup {Received(l, f)}]))
    <2>1. PICK l \in peer.drain : Become(n, SetPeer(s, p, [peer EXCEPT !.drain =
                                            (peer.drain \ {l}) \cup {Received(l, f)}]))
      BY <1>10
    <2> HIDE DEF s, peer
    <2> QED
      BY <1>7, <2>1
  <1> QED
    BY <1>8, <1>9, <1>10 DEF RecvFrame

\* A handshake message that arrives names a life and a link of the remote node.
LEMMA HandshakeFacts ==
  ASSUME Inv, NEW n \in Node, NEW m \in net, m.type # "Frame", m.from = Other(n)
  PROVE  /\ m \in Message /\ m.idx \in Nat /\ m.idx <= env.idx /\ m.to \in Nat
         /\ m.epoch \in Nat /\ m.epoch # 0 /\ m.epoch <= env.restarts + 1
  <1> DEFINE o == Other(n)
  <1>1. o \in Node
    BY TwoNodes
  <1> HIDE DEF o
  <1>2. /\ StateOK(nodes[o], o, net, env) /\ SentOK(nodes[o], o, net) /\ NetOK(net, env)
        /\ env \in Environment
    BY <1>1, HandlerFacts
  <1>3. m \in Message /\ m.idx \in Nat /\ m.idx <= env.idx /\ m.to \in Nat /\ m.epoch \in Nat
    BY <1>2 DEF NetOK, Message
  <1>4. nodes[o].epoch \in 1 .. env.restarts + 1 /\ env.restarts \in Nat
    BY <1>2, EnvTypes DEF StateOK
  <1>5. m.epoch \in 1 .. nodes[o].epoch
    BY <1>2 DEF SentOK, o
  <1> QED
    BY <1>3, <1>4, <1>5

\* rejectRetiredMsg2Peer
LEMMA RejectedMsg2Good ==
  ASSUME NEW v \in Environment, NEW n, NEW nt, NEW s, NEW p \in Path,
         StateOK(s, n, nt, v), NEW t \in RejectedMsg2(s, p)
  PROVE  Good(s, t, p, n, nt, v) /\ \A q \in Path \ {p} : t.peers[q] = s.peers[q]
  <1> DEFINE left == SetPeer(s, p, NoPeer)
             stays == IF left.active = p THEN NoPath ELSE left.active
  <1>1. s \in NodeState /\ s.drawn \in Nat /\ Fits(s) /\ Len(s.hist) <= HistoryLimit
        /\ s.active \in Path \cup {NoPath, Gone}
    BY StateFacts
  <1>2. /\ left \in NodeState
        /\ left.epoch = s.epoch /\ left.active = s.active /\ left.hist = s.hist
        /\ s.drawn = left.drawn /\ left.peers[p] = NoPeer
        /\ \A q \in Path \ {p} : left.peers[q] = s.peers[q]
    BY <1>1, SetPeerFields, NoPeerFields
  <1>3. \/ \E q \in Path : Established(left.peers[q].link) /\ t = Remember(left, q)
        \/ t = [left EXCEPT !.active = stays]
    BY DEF RejectedMsg2
  <1> HIDE DEF left
  <1>4. stays \in Path \cup {NoPath, Gone}
    BY <1>1, <1>2
  <1>5. Fits(left)
    <2>1. Staged(left) \subseteq Staged(s)
      BY <1>2, NoPeerFields DEF Staged
    <2> QED
      BY <1>1, <2>1, FitsLess
  <1> DEFINE Kept == /\ t \in NodeState /\ t.epoch = s.epoch /\ t.drawn = s.drawn
                     /\ t.peers = left.peers /\ Len(t.hist) <= HistoryLimit /\ Forward(s, t)
  <1>6. Kept
    <2>1. ASSUME NEW q \in Path, Established(left.peers[q].link), t = Remember(left, q)
          PROVE  Kept
      <3>1. /\ t \in NodeState /\ Len(t.hist) <= HistoryLimit /\ t.active = q
            /\ t.epoch = left.epoch /\ t.drawn = left.drawn /\ t.peers = left.peers
        BY <1>1, <1>2, <2>1, RememberFields
      <3>2. q # p
        BY <1>2, <2>1, NoPeerFields, NoLinkFields
      <3>3. Forward(s, t)
        BY <1>2, <2>1, <3>1, <3>2, OtherForward
      <3> QED
        BY <1>2, <3>1, <3>3
    <2>2. ASSUME t = [left EXCEPT !.active = stays] PROVE Kept
      <3> HIDE DEF stays
      <3>1. /\ t \in NodeState /\ t.active = stays /\ t.hist = left.hist
            /\ t.epoch = left.epoch /\ t.drawn = left.drawn /\ t.peers = left.peers
        BY <1>2, <1>4, <2>2, ActiveFields
      <3>2. Forward(s, t)
        <4>1. CASE stays = NoPath
          BY <3>1, <4>1, Bounds DEF Forward, Live
        <4>2. CASE stays = s.active /\ s.active # p
          BY <1>2, <3>1, <4>2, StaysForward
        <4> QED
          BY <1>2, <4>1, <4>2 DEF stays
      <3> QED
        BY <1>1, <1>2, <3>1, <3>2
    <2> QED
      BY <1>3, <2>1, <2>2
  <1>7. Fits(t)
    BY <1>5, <1>6 DEF Fits, Staged
  <1> QED
    BY <1>1, <1>2, <1>6, <1>7, NoPeerOK, NoPeerFields DEF Good

\* A path is set after the others are removed, and no path is in use: whatever its link,
\* nothing is rolled back by it.
LEMMA RestartedGood ==
  ASSUME NEW v \in Environment, NEW n, NEW nt, NEW s, NEW u, NEW p \in Path, NEW peer,
         StateOK(s, n, nt, v), Near(s, u, p), PeerOK(peer, u.drawn, n, nt, v), u.drawn \in Nat,
         Indexes(peer) \subseteq Indexes(s.peers[p]) \cup (s.drawn + 1 .. u.drawn),
         peer.pend = NoLink
  PROVE  LET t == SetPeer(WithoutPaths(u), p, peer) IN
         /\ Good(s, t, p, n, nt, v) /\ t.peers[p] = peer /\ t.drawn = u.drawn
         /\ t.active = NoPath /\ t.hist = s.hist
  <1> DEFINE w == WithoutPaths(u)
             t == SetPeer(w, p, peer)
  <1>1. /\ s \in NodeState /\ u \in NodeState /\ s.drawn \in Nat /\ Fits(s)
        /\ Len(s.hist) <= HistoryLimit /\ peer \in PeerState
    BY StateFacts DEF Near, PeerOK
  <1>2. /\ w \in NodeState /\ w.active = NoPath
        /\ w.epoch = u.epoch /\ w.hist = u.hist /\ w.drawn = u.drawn
        /\ \A q \in Path : w.peers[q] = u.peers[q] \/ w.peers[q] = NoPeer
    BY <1>1, WithoutPathsFields
  <1> HIDE DEF w
  <1>3. /\ t \in NodeState
        /\ t.epoch = w.epoch /\ t.active = w.active /\ t.hist = w.hist /\ t.drawn = w.drawn
        /\ t.peers[p] = peer /\ \A q \in Path \ {p} : t.peers[q] = w.peers[q]
    BY <1>1, <1>2, SetPeerFields
  <1> HIDE DEF t
  <1>4. Fits(t)
    <2>1. Staged(t) \subseteq Staged(s)
      BY <1>2, <1>3, NoPeerFields DEF Staged, Near
    <2> QED
      BY <1>1, <2>1, FitsLess
  <1>5. Forward(s, t)
    BY <1>2, <1>3, Bounds DEF Forward, Live
  <1>6. Good(s, t, p, n, nt, v)
    BY <1>1, <1>2, <1>3, <1>4, <1>5 DEF Good, Near
  <1> QED
    BY <1>2, <1>3, <1>6 DEF t, w, Near

LEMMA AnsweredFields ==
  ASSUME NEW m, m.to \in Nat, m.idx \in Nat, m.epoch \in Nat
  PROVE  LET l == Answered(m) IN
         /\ l \in LinkState /\ l.st = "established" /\ l.role = "initiator" /\ l.idx = m.to
         /\ l.far = m.idx /\ l.epoch = m.epoch /\ l.tx = 1 /\ l.rx = {}
  <1> DEFINE k == NewLink("established", "initiator", m.to, m.idx, m.epoch)
             l == [k EXCEPT !.tx = 1]
  <1>1. /\ k \in LinkState /\ k.st = "established" /\ k.role = "initiator" /\ k.idx = m.to
        /\ k.far = m.idx /\ k.epoch = m.epoch /\ k.rx = {}
    BY DEF NewLink, LinkState
  <1>2. Answered(m) = l
    BY DEF Answered
  <1> HIDE DEF k
  <1>3. l \in LinkState
    BY <1>1 DEF LinkState
  <1>4. /\ l.st = k.st /\ l.role = k.role /\ l.idx = k.idx
        /\ l.far = k.far /\ l.epoch = k.epoch /\ l.tx = 1 /\ l.rx = k.rx
    BY <1>1 DEF LinkState
  <1> QED
    BY <1>1, <1>2, <1>3, <1>4

\* The peer as handleMsg2 leaves it, dialled link answered.
LEMMA ConfirmedOK ==
  ASSUME Inv, NEW n \in Node, NEW p \in Path, NEW q \in Path, NEW m \in net,
         m.type = "Msg2", m.from = Other(n), Awaits(nodes[n].peers[p], m),
         nodes[n].peers[p].hs = "msg1"
  PROVE  LET s == nodes[n]
             new == [s.peers[p] EXCEPT !.link = Answered(m), !.hs = "sending", !.via = q]
         IN  /\ PeerOK(new, s.drawn, n, net, env) /\ Indexes(new) \subseteq Indexes(s.peers[p])
             /\ new.pend = NoLink /\ ~Established(s.peers[p].link)
             /\ m.to <= s.drawn
  <1> DEFINE s == nodes[n]
             peer == s.peers[p]
             l == Answered(m)
             new == [peer EXCEPT !.link = l, !.hs = "sending", !.via = q]
  <1>1. /\ env \in Environment /\ s \in NodeState /\ StateOK(s, n, net, env) /\ s.drawn \in Nat
        /\ PeerOK(peer, s.drawn, n, net, env)
    BY HandlerFacts, StateFacts
  <1>2. /\ m \in Message /\ m.idx \in Nat /\ m.idx <= env.idx /\ m.to \in Nat
        /\ m.epoch \in Nat /\ m.epoch # 0 /\ m.epoch <= env.restarts + 1
    BY HandshakeFacts
  <1>3. peer.hs = "msg1" /\ peer.link.idx = m.to
    BY DEF Awaits
  <1> HIDE DEF s, peer
  <1>4. /\ peer.link.st = "handshaking" /\ ~Established(peer.link) /\ peer.pend = NoLink
        /\ m.to # 0 /\ m.to <= s.drawn
    BY <1>1, <1>3 DEF PeerOK, LinkOK, Established
  <1>5. /\ l \in LinkState /\ l.st = "established" /\ l.role = "initiator" /\ l.idx = m.to
        /\ l.far = m.idx /\ l.epoch = m.epoch /\ l.tx = 1 /\ l.rx = {}
    BY <1>2, AnsweredFields
  <1> HIDE DEF l
  <1>6. LinkOK(l, s.drawn, env) /\ Told(l, n, net) /\ Established(l)
    BY <1>1, <1>2, <1>4, <1>5, EnvTypes DEF LinkOK, Told, Established
  <1>7. new \in PeerState
    <2>1. peer \in PeerState
      BY <1>1, PeerFields
    <2> QED
      BY <1>5, <2>1 DEF PeerState
  <1>8. new.link = l /\ new.hs = "sending" /\ new.pend = peer.pend /\ new.drain = peer.drain
    BY <1>1, PeerFields DEF PeerState
  <1> HIDE DEF new
  <1>9. PeerOK(new, s.drawn, n, net, env)
    BY <1>1, <1>4, <1>5, <1>6, <1>7, <1>8 DEF PeerOK
  <1>10. Indexes(new) \subseteq Indexes(peer)
    BY <1>3, <1>5, <1>8 DEF Indexes
  <1> QED
    BY <1>4, <1>8, <1>9, <1>10 DEF s, peer, new, l

LEMMA RecvMsg2Good ==
  ASSUME Inv, NEW n \in Node, NEW p \in Path, NEW q \in Path, NEW m \in net, RecvMsg2(n, p, q, m)
  PROVE  Handled(n, p)
  <1> DEFINE s == nodes[n]
             peer == s.peers[p]
             link == Answered(m)
             confirmed == IF peer.hs = "msg1"
                          THEN [peer EXCEPT !.link = link, !.hs = "sending", !.via = q]
                          ELSE peer
             alone == [confirmed EXCEPT !.pend = NoLink, !.drain = {}]
             first == peer.hs = "msg1"
             f == Frame(n, [link EXCEPT !.tx = 0])
  <1>1. /\ env \in Environment /\ s \in NodeState /\ StateOK(s, n, net, env) /\ s.drawn \in Nat
        /\ PeerOK(peer, s.drawn, n, net, env)
    BY HandlerFacts, StateFacts
  <1>2. m.type = "Msg2" /\ m.from = Other(n) /\ Awaits(peer, m) /\ env' = env
    BY DEF RecvMsg2
  <1>3. \/ \E t \in RejectedMsg2(s, p) : Become(n, t) /\ net' = net
        \/ /\ Become(n, SetPeer(WithoutPaths(s), p, alone)) \/ Become(n, SetPeer(s, p, confirmed))
           /\ net' = IF first THEN net \cup {f} ELSE net
    BY DEF RecvMsg2
  <1>4. /\ PeerOK(confirmed, s.drawn, n, net, env) /\ Indexes(confirmed) \subseteq Indexes(peer)
        /\ confirmed.pend = NoLink
        /\ \/ ~Established(peer.link)
           \/ confirmed.link.epoch = peer.link.epoch
        /\ first => m.to <= s.drawn
    <2>1. CASE first
      BY <1>2, <2>1, ConfirmedOK
    <2>2. CASE ~first
      BY <1>1, <1>2, <2>2 DEF Awaits, PeerOK
    <2> QED
      BY <2>1, <2>2
  <1> HIDE DEF s, peer, confirmed, first, link
  <1>5. PeerOK(alone, s.drawn, n, net, env) /\ Indexes(alone) \subseteq Indexes(peer)
        /\ alone.pend = NoLink
    <2>1. confirmed \in PeerState
      BY <1>4 DEF PeerOK
    <2>2. alone \in PeerState
      BY <2>1, NoLinkFields DEF PeerState
    <2>3. alone.link = confirmed.link /\ alone.pend = NoLink /\ alone.drain = {}
          /\ alone.hs = confirmed.hs
      BY <2>1 DEF PeerState
    <2> HIDE DEF alone
    <2>4. PeerOK(alone, s.drawn, n, net, env)
      BY <1>1, <1>4, <2>2, <2>3 DEF PeerOK
    <2>5. Indexes(alone) \subseteq Indexes(peer)
      BY <1>4, <2>3 DEF Indexes
    <2> QED
      BY <2>3, <2>4, <2>5
  <1> HIDE DEF alone, f
  <1>6. ASSUME NEW t, t.drawn = s.drawn
        PROVE  first => Sendable(s, t, p, n, f, env)
    <2>1. SUFFICES ASSUME first PROVE Sendable(s, t, p, n, f, env)
      OBVIOUS
    <2>2. /\ m \in Message /\ m.idx \in Nat /\ m.to \in Nat /\ m.epoch \in Nat
      BY <1>2, HandshakeFacts
    <2> DEFINE k == [link EXCEPT !.tx = 0]
    <2>3. k.idx = m.to /\ k.far = m.idx /\ k.tx = 0
      <3>1. link \in LinkState /\ link.idx = m.to /\ link.far = m.idx
        BY <2>2, AnsweredFields DEF link
      <3> QED
        BY <3>1 DEF LinkState
    <2> HIDE DEF k
    <2>4. f.idx = m.to /\ f.c = 0 /\ f.type = "Frame" /\ f.from = n
      BY <2>3 DEF f, Frame, k
    <2>5. f \in Message
      <3>1. f = Frame(n, k) /\ 0 \in Nat
        BY DEF f, k
      <3> QED
        BY <2>2, <2>3, <3>1 DEF Frame, Message
    <2> QED
      BY <1>1, <1>4, <1>6, <2>1, <2>4, <2>5, EnvTypes DEF Sendable
  <1>7. CASE \E t \in RejectedMsg2(s, p) : Become(n, t) /\ net' = net
    <2>1. PICK t \in RejectedMsg2(s, p) : Become(n, t) /\ net' = net
      BY <1>7
    <2>2. Good(s, t, p, n, net, env) /\ \A r \in Path \ {p} : t.peers[r] = s.peers[r]
      BY <1>1, RejectedMsg2Good
    <2>3. \A r \in Path \ {p} : t.peers[r] = s.peers[r]
      BY <2>2
    <2>4. s.active = p /\ Established(s.peers[p].link) /\ s.peers[p].hs = "none"
            => Carries(t.peers[p], s.peers[p].link)
      BY <1>2 DEF Awaits, peer
    <2>5. Keeps(s, t)
      BY <2>3, <2>4, KeepsPath
    <2> QED
      BY <1>1, <1>2, <2>1, <2>2, <2>5 DEF Handled, s
  <1>8. ASSUME NEW t, Become(n, t), Good(s, t, p, n, net, env), t.drawn = s.drawn, Keeps(s, t),
               net' = IF first THEN net \cup {f} ELSE net
        PROVE  Handled(n, p)
    <2>1. net' = net \/ (net' = net \cup {f} /\ Sendable(s, t, p, n, f, env))
      BY <1>6, <1>8
    <2> QED
      BY <1>1, <1>2, <1>8, <2>1 DEF Handled, s
  <1>9. CASE Become(n, SetPeer(WithoutPaths(s), p, alone))
             /\ net' = IF first THEN net \cup {f} ELSE net
    <2> DEFINE t == SetPeer(WithoutPaths(s), p, alone)
    <2>1. Near(s, s, p)
      BY <1>1 DEF Near
    <2>2. Good(s, t, p, n, net, env) /\ t.drawn = s.drawn /\ t.active = NoPath
      BY <1>1, <1>5, <2>1, RestartedGood DEF peer
    <2> HIDE DEF t
    <2>3. Keeps(s, t)
      BY <2>2, Bounds DEF Keeps, Live
    <2> QED
      BY <1>8, <1>9, <2>2, <2>3 DEF t
  <1>10. CASE Become(n, SetPeer(s, p, confirmed))
             /\ net' = IF first THEN net \cup {f} ELSE net
    <2> DEFINE t == SetPeer(s, p, confirmed)
    <2>1. Good(s, t, p, n, net, env)
      BY <1>1, <1>4, SetPeerGood DEF peer
    <2>2. t.drawn = s.drawn /\ \A r \in Path \ {p} : t.peers[r] = s.peers[r]
      BY <1>1, <1>4, SetPeerFields DEF PeerOK
    <2> HIDE DEF t
    <2>3. \A r \in Path \ {p} : t.peers[r] = s.peers[r]
      BY <2>2
    <2>4. s.active = p /\ Established(s.peers[p].link) /\ s.peers[p].hs = "none"
            => Carries(t.peers[p], s.peers[p].link)
      BY <1>2 DEF Awaits, peer
    <2>5. Keeps(s, t)
      BY <2>3, <2>4, KeepsPath
    <2> QED
      BY <1>8, <1>10, <2>1, <2>2, <2>5 DEF t
  <1> QED
    BY <1>3, <1>7, <1>9, <1>10

-----------------------------------------------------------------------------
(* Msg1                                                                    *)

\* The state w in which link l has answered Msg1 m on path p, beside the link of the
\* path or as that link, and before the answer is reconciled with what was known.
AnswerOK(s, w, l, m, p, n, nt, v, staging) ==
    /\ Near(s, w, p) /\ w.drawn \in Nat /\ Fits(w)
    /\ LinkOK(l, w.drawn, v) /\ Established(l) /\ Told(l, n, nt) /\ l.epoch = m.epoch
    /\ l.idx \in Indexes(s.peers[p]) \cup (s.drawn + 1 .. w.drawn)
    /\ w.peers[p] \in PeerState
    /\ w.peers[p].drain = s.peers[p].drain /\ w.peers[p].hs = s.peers[p].hs
    /\ staging => w.peers[p].link = s.peers[p].link /\ w.peers[p].pend = l
    /\ ~staging => /\ w.peers[p].link = l /\ w.peers[p].pend = s.peers[p].pend
                   /\ s.peers[p].hs = "none"
                   /\ ~Established(s.peers[p].link) \/ s.peers[p].link = l

\* What holds of the path in it.
Drafted(s, w, l, p, n, nt, v) ==
    LET peer == w.peers[p]
        mine == Indexes(s.peers[p]) \cup (s.drawn + 1 .. w.drawn)
    IN  /\ LinkOK(peer.link, w.drawn, v) /\ LinkOK(peer.pend, w.drawn, v)
        /\ \A k \in peer.drain : LinkOK(k, w.drawn, v)
        /\ Told(peer.link, n, nt) /\ Told(peer.pend, n, nt)
        /\ peer.pend = NoLink \/ Established(peer.pend)
        /\ Indexes(peer) \subseteq mine /\ l.idx # 0 /\ l \in LinkState
        /\ peer.hs = "msg1" => peer.link.st = "handshaking"
        /\ peer.hs \in {"sending", "sent"} => Established(peer.link)
        /\ peer.hs # "none" => peer.link.role = "initiator"
        /\ \/ ~Established(s.peers[p].link) \/ ~Established(peer.link)
           \/ peer.link.epoch = s.peers[p].link.epoch

LEMMA DrawnFields ==
  ASSUME NEW s \in NodeState, NEW d \in Nat
  PROVE  LET u == [s EXCEPT !.drawn = d] IN
         /\ u \in NodeState /\ u.drawn = d
         /\ u.epoch = s.epoch /\ u.hist = s.hist /\ u.active = s.active /\ u.peers = s.peers
  BY DEF NodeState

\* The handler leaves t, the path in use is the same.
LEMMA NearGood ==
  ASSUME NEW v \in Environment, NEW n, NEW nt, NEW s, NEW w, NEW p \in Path, NEW t \in NodeState,
         StateOK(s, n, nt, v), Near(s, w, p), w.drawn \in Nat,
         t.epoch = w.epoch, t.active = w.active, t.hist = w.hist, w.drawn <= t.drawn,
         \A q \in Path \ {p} : t.peers[q] = w.peers[q],
         PeerOK(t.peers[p], t.drawn, n, nt, v),
         Indexes(t.peers[p]) \subseteq Indexes(s.peers[p]) \cup (s.drawn + 1 .. t.drawn),
         Fits(t),
         \/ ~Established(s.peers[p].link) \/ ~Established(t.peers[p].link)
         \/ t.peers[p].link.epoch = s.peers[p].link.epoch
  PROVE  Good(s, t, p, n, nt, v)
  <1>1. s.drawn \in Nat /\ t.drawn \in Nat /\ Len(s.hist) <= HistoryLimit
    BY StateFacts DEF NodeState
  <1>2. Forward(s, t)
    <2>1. t.active = s.active
      BY DEF Near
    <2>2. s.active \in Path \ {p} => t.peers[s.active] = s.peers[s.active]
      BY DEF Near
    <2> QED
      BY <2>1, <2>2, StaysForward
  <1> QED
    BY <1>1, <1>2 DEF Good, Near

LEMMA SetNearGood ==
  ASSUME NEW v \in Environment, NEW n, NEW nt, NEW s, NEW w, NEW p \in Path, NEW new,
         StateOK(s, n, nt, v), Near(s, w, p), w.drawn \in Nat, Fits(w),
         PeerOK(new, w.drawn, n, nt, v),
         Indexes(new) \subseteq Indexes(s.peers[p]) \cup (s.drawn + 1 .. w.drawn),
         new.pend # NoLink => w.peers[p].pend # NoLink,
         \/ ~Established(s.peers[p].link) \/ ~Established(new.link)
         \/ new.link.epoch = s.peers[p].link.epoch
  PROVE  LET t == SetPeer(w, p, new) IN
         /\ Good(s, t, p, n, nt, v) /\ Fits(t) /\ t.peers[p] = new /\ t.drawn = w.drawn
         /\ Near(s, t, p)
  <1> DEFINE t == SetPeer(w, p, new)
  <1>1. w \in NodeState /\ new \in PeerState
    BY DEF Near, PeerOK
  <1>2. /\ t \in NodeState
        /\ t.epoch = w.epoch /\ t.active = w.active /\ t.hist = w.hist /\ t.drawn = w.drawn
        /\ t.peers[p] = new /\ \A q \in Path \ {p} : t.peers[q] = w.peers[q]
    BY <1>1, SetPeerFields
  <1> HIDE DEF t
  <1>3. Fits(t)
    <2>1. Staged(t) \subseteq Staged(w)
      BY <1>2 DEF Staged
    <2> QED
      BY <2>1, FitsLess
  <1>4. Good(s, t, p, n, nt, v)
    BY <1>2, <1>3, NearGood
  <1>5. Near(s, t, p)
    BY <1>2 DEF Near
  <1> QED
    BY <1>2, <1>3, <1>4, <1>5 DEF t

\* A state on the way of a handler, whose path in use holds the link it had.
LEMMA NearKeeps ==
  ASSUME NEW s, NEW t, NEW u, NEW p \in Path, Near(s, u, p), t.peers = u.peers,
         Established(s.peers[p].link) /\ s.peers[p].hs = "none"
            => Carries(u.peers[p], s.peers[p].link)
  PROVE  Keeps(s, t)
  <1>1. \A q \in Path \ {p} : t.peers[q] = s.peers[q]
    BY DEF Near
  <1>2. s.active = p /\ Established(s.peers[p].link) /\ s.peers[p].hs = "none"
          => Carries(t.peers[p], s.peers[p].link)
    OBVIOUS
  <1> QED
    BY <1>1, <1>2, KeepsPath

\* An answer does not touch the link in use.
LEMMA AnswerKeeps ==
  ASSUME NEW v, NEW n, NEW nt, NEW s, NEW w, NEW l, NEW m, NEW p \in Path, NEW staging \in BOOLEAN,
         AnswerOK(s, w, l, m, p, n, nt, v, staging), NEW peer, peer.link = w.peers[p].link,
         Established(s.peers[p].link)
  PROVE  Carries(peer, s.peers[p].link)
  <1>1. peer.link = s.peers[p].link
    BY DEF AnswerOK
  <1> QED
    BY <1>1 DEF Carries

LEMMA AnswerFacts ==
  ASSUME NEW v \in Environment, NEW n, NEW nt, NEW s, NEW w, NEW l, NEW m, NEW p \in Path,
         NEW staging \in BOOLEAN, StateOK(s, n, nt, v), AnswerOK(s, w, l, m, p, n, nt, v, staging)
  PROVE  Drafted(s, w, l, p, n, nt, v)
  <1> DEFINE old == s.peers[p]
             peer == w.peers[p]
  <1>1. PeerOK(old, s.drawn, n, nt, v) /\ s.drawn \in Nat /\ s.drawn <= w.drawn /\ w.drawn \in Nat
    BY StateFacts DEF AnswerOK, Near
  <1>2. PeerOK(old, w.drawn, n, nt, v)
    BY <1>1, PeerGrows
  <1> HIDE DEF old, peer
  <1>3. /\ LinkOK(old.link, w.drawn, v) /\ LinkOK(old.pend, w.drawn, v)
        /\ \A k \in old.drain : LinkOK(k, w.drawn, v)
        /\ Told(old.link, n, nt) /\ Told(old.pend, n, nt)
        /\ old.pend = NoLink \/ Established(old.pend)
        /\ old.hs = "msg1" => old.link.st = "handshaking"
        /\ old.hs \in {"sending", "sent"} => Established(old.link)
        /\ old.hs # "none" => old.link.role = "initiator"
    BY <1>2 DEF PeerOK
  <1>4. LinkOK(l, w.drawn, v) /\ Told(l, n, nt) /\ Established(l) /\ l.idx # 0 /\ l \in LinkState
        /\ l.idx \in Indexes(old) \cup (s.drawn + 1 .. w.drawn)
    BY DEF AnswerOK, LinkOK, Established, old
  <1>5. peer.drain = old.drain /\ peer.hs = old.hs
    BY DEF AnswerOK, old, peer
  <1>6. CASE staging
    <2>1. peer.link = old.link /\ peer.pend = l
      BY <1>6 DEF AnswerOK, old, peer
    <2>2. Indexes(peer) \subseteq Indexes(old) \cup (s.drawn + 1 .. w.drawn)
      BY <1>4, <2>1 DEF Indexes
    <2> QED
      BY <1>3, <1>4, <1>5, <2>1, <2>2 DEF old, peer, Drafted
  <1>7. CASE ~staging
    <2>1. /\ peer.link = l /\ peer.pend = old.pend /\ old.hs = "none"
          /\ ~Established(old.link) \/ old.link = l
      BY <1>7 DEF AnswerOK, old, peer
    <2>2. Indexes(peer) \subseteq Indexes(old) \cup (s.drawn + 1 .. w.drawn)
      BY <1>4, <2>1 DEF Indexes
    <2> QED
      BY <1>3, <1>4, <1>5, <2>1, <2>2 DEF old, peer, Drafted
  <1> QED
    BY <1>6, <1>7

\* rejectRetiredEpoch: the answer is dropped.
LEMMA RejectedMsg1Good ==
  ASSUME NEW v \in Environment, NEW n, NEW nt, NEW s, NEW w, NEW l, NEW m, NEW p \in Path,
         NEW staging \in BOOLEAN, StateOK(s, n, nt, v), AnswerOK(s, w, l, m, p, n, nt, v, staging),
         Established(s.peers[p].link) => s.peers[p].link.epoch # m.epoch
  PROVE  LET t == RejectedMsg1(w, p, l) IN
         Good(s, t, p, n, nt, v) /\ t.drawn = w.drawn /\ Keeps(s, t)
  <1> DEFINE peer == w.peers[p]
             mine == Indexes(s.peers[p]) \cup (s.drawn + 1 .. w.drawn)
             free == [peer EXCEPT !.pend = NoLink]
             shut == [peer EXCEPT !.link = Closed(l)]
  <1>1. /\ LinkOK(peer.link, w.drawn, v) /\ LinkOK(peer.pend, w.drawn, v)
        /\ \A k \in peer.drain : LinkOK(k, w.drawn, v)
        /\ Told(peer.link, n, nt) /\ Told(peer.pend, n, nt)
        /\ peer.pend = NoLink \/ Established(peer.pend)
        /\ Indexes(peer) \subseteq mine /\ l.idx # 0 /\ l \in LinkState
        /\ peer.hs = "msg1" => peer.link.st = "handshaking"
        /\ peer.hs \in {"sending", "sent"} => Established(peer.link)
        /\ peer.hs # "none" => peer.link.role = "initiator"
        /\ \/ ~Established(s.peers[p].link) \/ ~Established(peer.link)
           \/ peer.link.epoch = s.peers[p].link.epoch
    <2>1. Drafted(s, w, l, p, n, nt, v)
      BY AnswerFacts, Zenon
    <2> QED
      BY <2>1 DEF Drafted
  <1>2. /\ Near(s, w, p) /\ w.drawn \in Nat /\ Fits(w) /\ peer \in PeerState
        /\ staging => peer.pend = l
        /\ ~staging => peer.hs = "none"
    BY DEF AnswerOK
  <1>3. \/ RejectedMsg1(w, p, l) = SetPeer(w, p, free)
        \/ peer.pend # l /\ RejectedMsg1(w, p, l) = SetPeer(w, p, shut)
    BY DEF RejectedMsg1
  <1> HIDE DEF peer, mine
  <1>4. CASE RejectedMsg1(w, p, l) = SetPeer(w, p, free)
    <2>1. free \in PeerState
      BY <1>2, NoLinkFields DEF PeerState
    <2>2. free.link = peer.link /\ free.pend = NoLink /\ free.drain = peer.drain /\ free.hs = peer.hs
      BY <1>2 DEF PeerState
    <2> HIDE DEF free
    <2>3. PeerOK(free, w.drawn, n, nt, v)
      BY <1>1, <1>2, <2>1, <2>2, NoLinkOK, NoLinkFields DEF PeerOK, Told
    <2>4. Indexes(free) \subseteq mine
      BY <1>1, <2>2, NoLinkFields DEF Indexes
    <2> DEFINE t == SetPeer(w, p, free)
    <2>5. /\ Good(s, t, p, n, nt, v) /\ t.drawn = w.drawn
          /\ t.peers[p] = free /\ Near(s, t, p)
      BY <1>1, <1>2, <2>2, <2>3, <2>4, SetNearGood DEF mine
    <2> HIDE DEF t
    <2>6. Established(s.peers[p].link) => Carries(t.peers[p], s.peers[p].link)
      BY <2>2, <2>5, AnswerKeeps DEF peer
    <2>7. Keeps(s, t)
      BY <2>5, <2>6, NearKeeps
    <2> QED
      BY <1>4, <2>5, <2>7 DEF t
  <1>5. CASE peer.pend # l /\ RejectedMsg1(w, p, l) = SetPeer(w, p, shut)
    <2> DEFINE k == Closed(l)
    <2>1. /\ k \in LinkState /\ k.st = "closed" /\ k.idx = 0 /\ k.far = 0 /\ k.epoch = 0
          /\ k.tx = 0 /\ k.rx = {}
      <3>1. l.role \in {"initiator", "responder"}
        BY <1>1 DEF LinkState
      <3> QED
        BY <3>1 DEF Closed, NewLink, LinkState
    <2> HIDE DEF k
    <2>2. LinkOK(k, w.drawn, v) /\ Told(k, n, nt) /\ ~Established(k)
      BY <1>2, <2>1, EnvTypes DEF LinkOK, Established, Told
    <2>3. shut \in PeerState
      BY <1>2, <2>1 DEF PeerState, k
    <2>4. shut.link = k /\ shut.pend = peer.pend /\ shut.drain = peer.drain /\ shut.hs = peer.hs
      BY <1>2 DEF PeerState, k
    <2> HIDE DEF shut
    <2>5. PeerOK(shut, w.drawn, n, nt, v)
      BY <1>1, <1>2, <1>5, <2>2, <2>3, <2>4 DEF PeerOK
    <2>6. Indexes(shut) \subseteq mine
      BY <1>1, <2>1, <2>4 DEF Indexes
    <2> DEFINE t == SetPeer(w, p, shut)
    <2>7. Good(s, t, p, n, nt, v) /\ t.drawn = w.drawn /\ Near(s, t, p)
      BY <1>2, <2>2, <2>4, <2>5, <2>6, SetNearGood DEF mine, peer
    <2> HIDE DEF t
    <2>8. ~Established(s.peers[p].link)
      BY <1>2, <1>5 DEF AnswerOK
    <2>9. Keeps(s, t)
      BY <2>7, <2>8, NearKeeps
    <2> QED
      BY <1>5, <2>7, <2>9 DEF t
  <1> QED
    BY <1>3, <1>4, <1>5

\* Two of the outcomes of reconcileAuthenticatedMsg1.
NewLife(w, p, l) ==
    Remember(SetPeer(WithoutPaths(w), p, [NoPeer EXCEPT !.known = TRUE, !.link = l]), p)

Crossed(w, p, l) ==
    LET known == SetPeer(w, p, [w.peers[p] EXCEPT !.known = TRUE]) IN
    Remember(SetPeer(known, p, [known.peers[p] EXCEPT !.link = l, !.pend = NoLink,
                                   !.hs = "none", !.got = FALSE, !.via = NoPath]), p)

\* The remote has restarted: the answer is all that is kept, and its life one that the
\* node does not remember.
LEMMA NewLifeGood ==
  ASSUME NEW v \in Environment, NEW n, NEW nt, NEW s, NEW w, NEW l, NEW m, NEW p \in Path,
         NEW staging \in BOOLEAN, StateOK(s, n, nt, v), AnswerOK(s, w, l, m, p, n, nt, v, staging),
         ~Retired(w, m.epoch),
         Live(s) /\ OneLife(s) => m.epoch # s.peers[s.active].link.epoch
  PROVE  /\ Good(s, NewLife(w, p, l), p, n, nt, v) /\ NewLife(w, p, l).drawn = w.drawn
         /\ Keeps(s, NewLife(w, p, l))
  <1> DEFINE t == NewLife(w, p, l)
             new == [NoPeer EXCEPT !.known = TRUE, !.link = l]
             u == SetPeer(WithoutPaths(w), p, new)
  <1>0. t = Remember(u, p)
    BY DEF NewLife
  <1> HIDE DEF t
  <1>1. /\ Near(s, w, p) /\ w.drawn \in Nat /\ LinkOK(l, w.drawn, v) /\ l \in LinkState
        /\ Established(l) /\ Told(l, n, nt) /\ l.epoch = m.epoch
        /\ l.idx \in Indexes(s.peers[p]) \cup (s.drawn + 1 .. w.drawn)
    BY DEF AnswerOK, LinkOK
  <1>2. new \in PeerState
    BY <1>1, NoPeerFields DEF PeerState
  <1>3. new.link = l /\ new.pend = NoLink /\ new.drain = {} /\ new.hs = "none"
    BY NoPeerFields DEF PeerState
  <1> HIDE DEF new
  <1>4. PeerOK(new, w.drawn, n, nt, v)
    BY <1>1, <1>2, <1>3, NoLinkOK, NoLinkFields DEF PeerOK, Told
  <1>5. Indexes(new) \subseteq Indexes(s.peers[p]) \cup (s.drawn + 1 .. w.drawn)
    BY <1>1, <1>3, NoLinkFields DEF Indexes
  <1>6. /\ Good(s, u, p, n, nt, v) /\ u.peers[p] = new /\ u.drawn = w.drawn
    BY <1>1, <1>3, <1>4, <1>5, RestartedGood
  <1> HIDE DEF u
  <1>7. ~\E i \in DOMAIN s.hist : s.hist[i] = u.peers[p].link.epoch
    BY <1>1, <1>3, <1>6 DEF Retired, Near
  <1>8. Good(s, t, p, n, nt, v)
    BY <1>0, <1>6, <1>7, RememberGood
  <1>9. t.drawn = w.drawn /\ t.active = p /\ t.peers = u.peers
    <2>1. u \in NodeState /\ Len(u.hist) <= HistoryLimit
      BY <1>6 DEF Good
    <2> QED
      BY <1>0, <1>6, <2>1, RememberFields
  <1>10. Keeps(s, t)
    BY <1>1, <1>3, <1>6, <1>9 DEF Keeps
  <1> QED
    BY <1>8, <1>9, <1>10 DEF t

\* The life is the one known, and the answer's link takes the place of the dialled one.
LEMMA CrossingGood ==
  ASSUME NEW v \in Environment, NEW n, NEW nt, NEW s, NEW w, NEW l, NEW m, NEW p \in Path,
         NEW staging \in BOOLEAN, StateOK(s, n, nt, v), AnswerOK(s, w, l, m, p, n, nt, v, staging),
         Live(s) /\ OneLife(s) => m.epoch = s.peers[s.active].link.epoch,
         ~Established(s.peers[p].link) \/ s.peers[p].link.epoch = m.epoch,
         s.peers[p].hs # "none"
  PROVE  /\ Good(s, Crossed(w, p, l), p, n, nt, v) /\ Crossed(w, p, l).drawn = w.drawn
         /\ Keeps(s, Crossed(w, p, l))
  <1> DEFINE t == Crossed(w, p, l)
             peer == w.peers[p]
             mine == Indexes(s.peers[p]) \cup (s.drawn + 1 .. w.drawn)
             named == [peer EXCEPT !.known = TRUE]
             known == SetPeer(w, p, named)
             new == [known.peers[p] EXCEPT !.link = l, !.pend = NoLink,
                             !.hs = "none", !.got = FALSE, !.via = NoPath]
             u == SetPeer(known, p, new)
  <1>0. t = Remember(u, p)
    BY DEF Crossed
  <1> HIDE DEF t
  <1>1. /\ Near(s, w, p) /\ w.drawn \in Nat /\ Fits(w) /\ LinkOK(l, w.drawn, v) /\ l \in LinkState
        /\ Established(l) /\ Told(l, n, nt) /\ l.epoch = m.epoch /\ l.idx \in mine
        /\ peer \in PeerState /\ w \in NodeState
    BY DEF AnswerOK, LinkOK, Near
  <1>2. \A k \in peer.drain : LinkOK(k, w.drawn, v)
    <2>1. Drafted(s, w, l, p, n, nt, v)
      BY AnswerFacts, Zenon
    <2> QED
      BY <2>1 DEF Drafted
  <1> HIDE DEF peer, mine
  <1>3. /\ named \in PeerState /\ named.drain = peer.drain /\ named.pend = peer.pend
    BY <1>1 DEF PeerState
  <1>4. /\ known \in NodeState
        /\ known.epoch = w.epoch /\ known.active = w.active /\ known.hist = w.hist
        /\ known.drawn = w.drawn /\ known.peers[p] = named
        /\ \A q \in Path \ {p} : known.peers[q] = w.peers[q]
    <2>1. w \in NodeState /\ named \in PeerState
      BY <1>1, <1>3
    <2> HIDE DEF named
    <2> QED
      BY <2>1, SetPeerFields
  <1> HIDE DEF named, known
  <1>5. Near(s, known, p) /\ Fits(known)
    <2>1. Staged(known) \subseteq Staged(w)
      BY <1>3, <1>4 DEF Staged, peer
    <2> QED
      BY <1>1, <1>4, <2>1, FitsLess DEF Near
  <1>6. new \in PeerState
    BY <1>1, <1>3, <1>4, NoLinkFields DEF PeerState
  <1>7. new.link = l /\ new.pend = NoLink /\ new.hs = "none" /\ new.drain = peer.drain
    BY <1>3, <1>4 DEF PeerState
  <1> HIDE DEF new
  <1>8. PeerOK(new, known.drawn, n, nt, v) /\ Indexes(new) \subseteq mine
    BY <1>1, <1>2, <1>4, <1>6, <1>7, NoLinkOK, NoLinkFields DEF PeerOK, Told, Indexes
  <1>9. Good(s, u, p, n, nt, v) /\ u.peers[p] = new /\ u.drawn = known.drawn /\ Near(s, u, p)
    BY <1>1, <1>4, <1>5, <1>7, <1>8, SetNearGood DEF mine
  <1> HIDE DEF u
  <1>10. Good(s, t, p, n, nt, v)
    BY <1>0, <1>1, <1>7, <1>9, RememberGood
  <1>11. t.drawn = w.drawn /\ t.peers = u.peers
    <2>1. u \in NodeState /\ Len(u.hist) <= HistoryLimit
      BY <1>9 DEF Good
    <2> QED
      BY <1>0, <1>4, <1>9, <2>1, RememberFields
  <1>12. Keeps(s, t)
    BY <1>9, <1>11, NearKeeps
  <1> QED
    BY <1>10, <1>11, <1>12 DEF t

\* The answered path, once its identity is on record.
Known(s, w, t, p, n, nt, v) ==
    /\ Good(s, t, p, n, nt, v) /\ Fits(t) /\ Near(s, t, p) /\ t.drawn = w.drawn
    /\ t.peers[p] \in PeerState /\ t.peers[p].link = w.peers[p].link
    /\ t.peers[p].pend = w.peers[p].pend /\ t.peers[p].drain = w.peers[p].drain
    /\ t.peers[p].hs = "none"

LEMMA KnownGood ==
  ASSUME NEW v \in Environment, NEW n, NEW nt, NEW s, NEW w, NEW l, NEW m, NEW p \in Path,
         NEW staging \in BOOLEAN, StateOK(s, n, nt, v), AnswerOK(s, w, l, m, p, n, nt, v, staging),
         s.peers[p].hs = "none"
  PROVE  Known(s, w, SetPeer(w, p, [w.peers[p] EXCEPT !.known = TRUE]), p, n, nt, v)
  <1> DEFINE peer == w.peers[p]
             new == [peer EXCEPT !.known = TRUE]
             t == SetPeer(w, p, new)
  <1>1. Drafted(s, w, l, p, n, nt, v)
    BY AnswerFacts, Zenon
  <1>2. /\ LinkOK(peer.link, w.drawn, v) /\ LinkOK(peer.pend, w.drawn, v)
        /\ \A k \in peer.drain : LinkOK(k, w.drawn, v)
        /\ Told(peer.link, n, nt) /\ Told(peer.pend, n, nt)
        /\ peer.pend = NoLink \/ Established(peer.pend)
        /\ Indexes(peer) \subseteq Indexes(s.peers[p]) \cup (s.drawn + 1 .. w.drawn)
        /\ \/ ~Established(s.peers[p].link) \/ ~Established(peer.link)
           \/ peer.link.epoch = s.peers[p].link.epoch
    BY <1>1 DEF Drafted
  <1>3. /\ Near(s, w, p) /\ w.drawn \in Nat /\ Fits(w) /\ peer \in PeerState /\ peer.hs = "none"
    BY DEF AnswerOK
  <1> HIDE DEF peer
  <1>4. new \in PeerState
    BY <1>3 DEF PeerState
  <1>5. new.link = peer.link /\ new.pend = peer.pend /\ new.drain = peer.drain /\ new.hs = "none"
    BY <1>3 DEF PeerState
  <1> HIDE DEF new
  <1>6. PeerOK(new, w.drawn, n, nt, v) /\ Indexes(new) = Indexes(peer)
    BY <1>2, <1>4, <1>5 DEF PeerOK, Indexes
  <1>7. /\ Good(s, t, p, n, nt, v) /\ Fits(t) /\ t.peers[p] = new /\ t.drawn = w.drawn
        /\ Near(s, t, p)
    BY <1>2, <1>3, <1>5, <1>6, SetNearGood DEF peer
  <1> HIDE DEF t
  <1>8. Known(s, w, t, p, n, nt, v)
    BY <1>4, <1>5, <1>7 DEF Known, peer
  <1> QED
    BY <1>8 DEF t, new, peer

LEMMA KnownKeeps ==
  ASSUME NEW v, NEW n, NEW nt, NEW s, NEW w, NEW l, NEW m, NEW p \in Path, NEW staging \in BOOLEAN,
         AnswerOK(s, w, l, m, p, n, nt, v, staging), NEW u, Known(s, w, u, p, n, nt, v),
         NEW t, t.peers = u.peers
  PROVE  Keeps(s, t)
  <1>1. Near(s, u, p) /\ u.peers[p].link = w.peers[p].link
    BY DEF Known
  <1>2. Established(s.peers[p].link) => Carries(u.peers[p], s.peers[p].link)
    BY <1>1, AnswerKeeps
  <1> QED
    BY <1>1, <1>2, NearKeeps

LEMMA RememberKnownGood ==
  ASSUME NEW v \in Environment, NEW n, NEW nt, NEW s, NEW w, NEW l, NEW m, NEW p \in Path,
         NEW staging \in BOOLEAN, StateOK(s, n, nt, v), AnswerOK(s, w, l, m, p, n, nt, v, staging),
         NEW u, Known(s, w, u, p, n, nt, v), Established(u.peers[p].link),
         Live(s) /\ OneLife(s) => m.epoch = s.peers[s.active].link.epoch
  PROVE  /\ Good(s, Remember(u, p), p, n, nt, v) /\ Remember(u, p).drawn = w.drawn
         /\ Keeps(s, Remember(u, p))
  <1>1. u \in NodeState /\ Len(u.hist) <= HistoryLimit /\ u.drawn = w.drawn
    BY DEF Known, Good
  <1>2. Remember(u, p).drawn = w.drawn
    BY <1>1, RememberFields
  <1>3. \/ Established(s.peers[p].link) /\ u.peers[p].link.epoch = s.peers[p].link.epoch
        \/ Live(s) /\ OneLife(s) => u.peers[p].link.epoch = s.peers[s.active].link.epoch
    <2>1. CASE staging
      BY <2>1 DEF AnswerOK, Known
    <2>2. CASE ~staging
      BY <2>2 DEF AnswerOK, Known
    <2> QED
      BY <2>1, <2>2
  <1>4. Good(s, u, p, n, nt, v)
    BY DEF Known
  <1>5. Good(s, Remember(u, p), p, n, nt, v)
    BY <1>3, <1>4, RememberGood
  <1> DEFINE t == Remember(u, p)
  <1>6. t.peers = u.peers
    BY <1>1, RememberFields
  <1> HIDE DEF t
  <1>7. Keeps(s, t)
    BY <1>6, KnownKeeps
  <1> QED
    BY <1>2, <1>5, <1>7 DEF t

\* A second carrier: it waits for its first frame, or there is no room for it.
LEMMA StageGood ==
  ASSUME NEW v \in Environment, NEW n, NEW nt, NEW s, NEW w, NEW l, NEW m, NEW p \in Path,
         StateOK(s, n, nt, v), AnswerOK(s, w, l, m, p, n, nt, v, FALSE),
         NEW known, Known(s, w, known, p, n, nt, v),
         NEW free, free = SetPeer(known, p, [known.peers[p] EXCEPT !.pend = NoLink])
  PROVE  /\ \A t \in Removed(free, p) : Good(s, t, p, n, nt, v) /\ (Full(free) => Keeps(s, t))
         /\ ~Full(free) => /\ Good(s, StageCarrier(free, p, l), p, n, nt, v)
                           /\ w.drawn <= StageCarrier(free, p, l).drawn
                           /\ Keeps(s, StageCarrier(free, p, l))
  <1> DEFINE peer == known.peers[p]
             bare == [peer EXCEPT !.pend = NoLink]
             mine == Indexes(s.peers[p]) \cup (s.drawn + 1 .. w.drawn)
  <1>1. /\ Near(s, known, p) /\ Fits(known) /\ known.drawn = w.drawn /\ w.drawn \in Nat
        /\ peer \in PeerState /\ peer.drain = w.peers[p].drain /\ peer.hs = "none"
        /\ known \in NodeState /\ s.drawn <= w.drawn
    BY DEF Known, AnswerOK, Near
  <1>2. \A k \in peer.drain : LinkOK(k, w.drawn, v)
    <2>1. Drafted(s, w, l, p, n, nt, v)
      BY AnswerFacts, Zenon
    <2> QED
      BY <1>1, <2>1 DEF Drafted
  <1>3. /\ LinkOK(l, w.drawn, v) /\ Established(l) /\ Told(l, n, nt) /\ l \in LinkState
        /\ l.idx \in mine /\ s.drawn \in Nat
    BY StateFacts DEF AnswerOK, LinkOK
  <1> HIDE DEF peer, mine
  <1>4. bare \in PeerState
    BY <1>1, NoLinkFields DEF PeerState
  <1>5. bare.pend = NoLink /\ bare.drain = peer.drain /\ bare.hs = "none"
    BY <1>1 DEF PeerState
  <1> HIDE DEF bare
  <1>6. /\ free \in NodeState
        /\ free.epoch = known.epoch /\ free.active = known.active /\ free.hist = known.hist
        /\ free.drawn = known.drawn /\ free.peers[p] = bare
        /\ \A q \in Path \ {p} : free.peers[q] = known.peers[q]
    <2>1. free = SetPeer(known, p, bare)
      BY DEF peer, bare
    <2> DEFINE t == SetPeer(known, p, bare)
    <2>2. /\ t \in NodeState
          /\ t.epoch = known.epoch /\ t.active = known.active /\ t.hist = known.hist
          /\ t.drawn = known.drawn /\ t.peers[p] = bare
          /\ \A q \in Path \ {p} : t.peers[q] = known.peers[q]
      BY <1>1, <1>4, SetPeerFields
    <2> QED
      BY <2>1, <2>2
  <1>7. Near(s, free, p) /\ Fits(free)
    <2>1. Staged(free) \subseteq Staged(known)
      BY <1>5, <1>6 DEF Staged
    <2> QED
      BY <1>1, <1>6, <2>1, FitsLess DEF Near
  <1>8. ASSUME NEW t \in Removed(free, p)
        PROVE  Good(s, t, p, n, nt, v) /\ (Full(free) => Keeps(s, t))
    <2>1. Good(s, t, p, n, nt, v) /\ \A q \in Path \ {p} : t.peers[q] = s.peers[q]
      BY <1>7, RemovedGood
    <2>2. ASSUME Full(free) PROVE Keeps(s, t)
      <3>1. CASE s.active = p
        <4> DEFINE x == SetPeer(s, p, [s.peers[p] EXCEPT !.pend = NoLink])
        <4>1. x.peers[p].pend = NoLink /\ \A q \in Path \ {p} : x.peers[q] = s.peers[q]
          <5> DEFINE y == [s.peers[p] EXCEPT !.pend = NoLink]
          <5>1. s \in NodeState /\ s.peers[p] \in PeerState
            BY StateFacts
          <5>2. y \in PeerState /\ y.pend = NoLink
            BY <5>1, NoLinkFields DEF PeerState
          <5> HIDE DEF y
          <5> QED
            BY <5>1, <5>2, SetPeerFields DEF y
        <4> HIDE DEF x
        <4>2. Staged(x) = Staged(free)
          BY <1>5, <1>6, <1>7, <4>1 DEF Staged, Near
        <4>3. Full(x)
          BY <2>2, <4>2 DEF Full, PendingCount, Staged
        <4>4. ~Room(s)
          BY <3>1, <4>3 DEF Room, x
        <4> QED
          BY <4>4 DEF Keeps
      <3>2. CASE s.active # p
        <4>1. \A q \in Path \ {p} : t.peers[q] = s.peers[q]
          BY <2>1
        <4>2. s.active = p /\ Established(s.peers[p].link) /\ s.peers[p].hs = "none"
                => Carries(t.peers[p], s.peers[p].link)
          BY <3>2
        <4> QED
          BY <4>1, <4>2, KeepsPath
      <3> QED
        BY <3>1, <3>2
    <2> QED
      BY <2>1, <2>2
  <1>9. ASSUME ~Full(free)
        PROVE  /\ Good(s, StageCarrier(free, p, l), p, n, nt, v)
               /\ w.drawn <= StageCarrier(free, p, l).drawn
               /\ Keeps(s, StageCarrier(free, p, l))
    <2> DEFINE i == free.drawn + 1
               k == NewLink("init", "responder", i, 0, 0)
               new == [bare EXCEPT !.pend = l, !.link = k]
               u == SetPeer(free, p, new)
               d == u.drawn + 1
               t == [u EXCEPT !.drawn = d]
    <2>1. StageCarrier(free, p, l) = t
      BY <1>6 DEF StageCarrier
    <2>2. i \in Nat /\ i = w.drawn + 1 /\ 0 \in Nat
      BY <1>1, <1>6
    <2> HIDE DEF i
    <2>3. /\ k \in LinkState /\ k.st = "init" /\ k.idx = i /\ k.far = 0 /\ k.epoch = 0
          /\ k.tx = 0 /\ k.rx = {}
      BY <2>2 DEF NewLink, LinkState
    <2> HIDE DEF k
    <2>4. new \in PeerState
      BY <1>3, <1>4, <2>3 DEF PeerState
    <2>5. new.link = k /\ new.pend = l /\ new.drain = bare.drain /\ new.hs = bare.hs
      BY <1>4 DEF PeerState
    <2> HIDE DEF new
    <2>6. /\ u \in NodeState
          /\ u.epoch = free.epoch /\ u.active = free.active /\ u.hist = free.hist
          /\ u.drawn = free.drawn /\ u.peers[p] = new
          /\ \A q \in Path \ {p} : u.peers[q] = free.peers[q]
      BY <1>6, <2>4, SetPeerFields
    <2> HIDE DEF u
    <2>7. d \in Nat /\ d = w.drawn + 1
      BY <1>1, <1>6, <2>6
    <2> HIDE DEF d
    <2>8. /\ t \in NodeState /\ t.drawn = d
          /\ t.epoch = u.epoch /\ t.hist = u.hist /\ t.active = u.active /\ t.peers = u.peers
      BY <2>6, <2>7, DrawnFields
    <2> HIDE DEF t
    <2>9. \A j : LinkOK(j, w.drawn, v) => LinkOK(j, t.drawn, v)
      BY <1>1, <2>7, <2>8 DEF LinkOK, LinkState
    <2>10. LinkOK(k, t.drawn, v) /\ Told(k, n, nt) /\ ~Established(k)
      <3>1. k.idx <= t.drawn /\ k.idx # 0
        BY <1>1, <2>2, <2>3, <2>7, <2>8
      <3> QED
        BY <2>3, <3>1, EnvTypes DEF LinkOK, Established, Told
    <2>11. PeerOK(new, t.drawn, n, nt, v)
      BY <1>2, <1>3, <1>5, <2>4, <2>5, <2>9, <2>10 DEF PeerOK
    <2>12. Indexes(new) \subseteq Indexes(s.peers[p]) \cup (s.drawn + 1 .. t.drawn)
      BY <1>1, <1>3, <2>2, <2>3, <2>5, <2>7, <2>8 DEF Indexes, mine
    <2>13. Fits(t)
      <3>1. Staged(t) \subseteq Staged(free) \cup {p}
        BY <2>6, <2>8 DEF Staged
      <3> QED
        BY <1>7, <1>9, <3>1, FitsMore
    <2>14. free.drawn <= t.drawn /\ w.drawn <= t.drawn /\ free.drawn \in Nat
      BY <1>1, <1>6, <2>7, <2>8
    <2>15. \A q \in Path \ {p} : t.peers[q] = free.peers[q]
      BY <2>6, <2>8
    <2>16. t.peers[p] = new /\ ~Established(new.link)
      BY <2>5, <2>6, <2>8, <2>10
    <2>17. Good(s, t, p, n, nt, v)
      BY <1>7, <2>6, <2>8, <2>11, <2>12, <2>13, <2>14, <2>15, <2>16, NearGood
    <2>18. Keeps(s, t)
      <3>1. t.active = s.active /\ \A q \in Path \ {p} : t.peers[q] = s.peers[q]
        BY <1>7, <2>6, <2>8, <2>15 DEF Near
      <3>2. CASE s.active = p
        BY <2>16, <3>1, <3>2 DEF Keeps, Live
      <3>3. CASE s.active # p
        <4>1. \A q \in Path \ {p} : t.peers[q] = s.peers[q]
          BY <3>1
        <4>2. s.active = p /\ Established(s.peers[p].link) /\ s.peers[p].hs = "none"
                => Carries(t.peers[p], s.peers[p].link)
          BY <3>3
        <4> QED
          BY <4>1, <4>2, KeepsPath
      <3> QED
        BY <3>2, <3>3
    <2> QED
      BY <2>1, <2>14, <2>17, <2>18
  <1> QED
    BY <1>8, <1>9

\* reconcileAuthenticatedMsg1
LEMMA ReconciledGood ==
  ASSUME NEW v \in Environment, NEW n, NEW nt, NEW s, NEW w, NEW l, NEW m, NEW p \in Path,
         NEW staging \in BOOLEAN, StateOK(s, n, nt, v), AnswerOK(s, w, l, m, p, n, nt, v, staging),
         NEW prev, NEW crossing \in BOOLEAN, crossing <=> s.peers[p].hs # "none",
         Live(s) /\ OneLife(s) => prev = s.peers[s.active].link.epoch,
         Established(s.peers[p].link) => prev = s.peers[p].link.epoch,
         NEW r \in Reconciled(w, p, l, m, prev, crossing)
  PROVE  Good(s, r[1], p, n, nt, v) /\ (r[2] => w.drawn <= r[1].drawn) /\ Keeps(s, r[1])
  <1> DEFINE peer == w.peers[p]
             known == SetPeer(w, p, [peer EXCEPT !.known = TRUE])
             free == SetPeer(known, p, [known.peers[p] EXCEPT !.pend = NoLink])
  <1>0. w.drawn \in Nat /\ w.drawn <= w.drawn
    BY DEF AnswerOK
  <1>1. \/ prev # m.epoch /\ r = <<RejectedMsg1(w, p, l), FALSE>>
        \/ prev # m.epoch /\ ~Retired(w, m.epoch) /\ r = <<NewLife(w, p, l), TRUE>>
        \/ prev = m.epoch /\ crossing /\ r = <<Crossed(w, p, l), TRUE>>
        \/ /\ prev = m.epoch /\ ~crossing
           /\ \/ r = <<known, TRUE>>
              \/ Established(peer.link) /\ r = <<Remember(known, p), TRUE>>
              \/ peer.pend # l /\ r = <<Remember(known, p), TRUE>>
              \/ peer.pend # l /\ Full(free) /\ \E t \in Removed(free, p) : r = <<t, FALSE>>
              \/ peer.pend # l /\ ~Full(free) /\ r = <<StageCarrier(free, p, l), TRUE>>
    BY DEF Reconciled, NewLife, Crossed
  <1>2. CASE prev # m.epoch /\ r = <<RejectedMsg1(w, p, l), FALSE>>
    <2> DEFINE t == RejectedMsg1(w, p, l)
    <2>0. Established(s.peers[p].link) => s.peers[p].link.epoch # m.epoch
      BY <1>2
    <2>1. Good(s, t, p, n, nt, v) /\ Keeps(s, t)
      BY <2>0, RejectedMsg1Good
    <2> HIDE DEF t
    <2> QED
      BY <1>2, <2>1 DEF t
  <1>3. CASE prev # m.epoch /\ ~Retired(w, m.epoch) /\ r = <<NewLife(w, p, l), TRUE>>
    <2>0. Live(s) /\ OneLife(s) => m.epoch # s.peers[s.active].link.epoch
      BY <1>3
    <2>1. /\ Good(s, NewLife(w, p, l), p, n, nt, v) /\ NewLife(w, p, l).drawn = w.drawn
          /\ Keeps(s, NewLife(w, p, l))
      BY <1>3, <2>0, NewLifeGood
    <2> QED
      BY <1>0, <1>3, <2>1
  <1>4. CASE prev = m.epoch /\ crossing /\ r = <<Crossed(w, p, l), TRUE>>
    <2>1. /\ Good(s, Crossed(w, p, l), p, n, nt, v) /\ Crossed(w, p, l).drawn = w.drawn
          /\ Keeps(s, Crossed(w, p, l))
      BY <1>4, CrossingGood
    <2> QED
      BY <1>0, <1>4, <2>1
  <1>5. CASE prev = m.epoch /\ ~crossing
    <2>1. Known(s, w, known, p, n, nt, v)
      BY <1>5, KnownGood
    <2> HIDE DEF known
    <2>2. CASE r = <<known, TRUE>>
      <3>1. Good(s, known, p, n, nt, v) /\ known.drawn = w.drawn
        BY <2>1 DEF Known
      <3>2. Keeps(s, known)
        BY <2>1, KnownKeeps
      <3> QED
        BY <1>0, <2>2, <3>1, <3>2
    <2>3. ASSUME peer.pend # l PROVE staging = FALSE /\ peer.link = l /\ Established(peer.link)
      <3>1. staging => peer.pend = l
        BY DEF AnswerOK
      <3>2. staging = FALSE
        BY <2>3, <3>1
      <3> QED
        BY <3>2 DEF AnswerOK
    <2>4. CASE Established(peer.link) /\ r = <<Remember(known, p), TRUE>>
      <3>1. Established(known.peers[p].link)
        BY <2>1, <2>4 DEF Known
      <3>2. /\ Good(s, Remember(known, p), p, n, nt, v) /\ Remember(known, p).drawn = w.drawn
            /\ Keeps(s, Remember(known, p))
        BY <1>5, <2>1, <3>1, RememberKnownGood
      <3> QED
        BY <1>0, <2>4, <3>2
    <2>5. ASSUME peer.pend # l
          PROVE  /\ \A t \in Removed(free, p) : /\ Good(s, t, p, n, nt, v)
                                                /\ Full(free) => Keeps(s, t)
                 /\ ~Full(free) => /\ Good(s, StageCarrier(free, p, l), p, n, nt, v)
                                   /\ w.drawn <= StageCarrier(free, p, l).drawn
                                   /\ Keeps(s, StageCarrier(free, p, l))
      <3>1. AnswerOK(s, w, l, m, p, n, nt, v, FALSE)
        BY <2>3, <2>5
      <3> QED
        BY <2>1, <3>1, StageGood
    <2> HIDE DEF free
    <2>6. CASE peer.pend # l /\ Full(free) /\ \E t \in Removed(free, p) : r = <<t, FALSE>>
      BY <2>5, <2>6
    <2>7. CASE peer.pend # l /\ ~Full(free) /\ r = <<StageCarrier(free, p, l), TRUE>>
      BY <2>5, <2>7
    <2> QED
      BY <1>1, <1>5, <2>2, <2>3, <2>4, <2>6, <2>7
  <1> QED
    BY <1>1, <1>2, <1>3, <1>4, <1>5

\* The epoch known when Msg1 arrives, or that of the message if none is.
KnownBefore(s, w, l, m, p) ==
    IF s.peers[p].link.epoch # 0 THEN {s.peers[p].link.epoch}
    ELSE OneOf(EpochElsewhere(w, l), m.epoch)

\* It is that of the path in use, if all carriers are of one life.
LEMMA KnownLife ==
  ASSUME NEW v \in Environment, NEW n, NEW nt, NEW s, NEW w, NEW l, NEW m, NEW p \in Path,
         NEW staging \in BOOLEAN, StateOK(s, n, nt, v), AnswerOK(s, w, l, m, p, n, nt, v, staging),
         NEW prev \in KnownBefore(s, w, l, m, p)
  PROVE  /\ Live(s) /\ OneLife(s) => prev = s.peers[s.active].link.epoch
         /\ Established(s.peers[p].link) => prev = s.peers[p].link.epoch
  <1> DEFINE old == s.peers[p]
             a == s.active
  <1>1. \A q \in Path : PeerOK(s.peers[q], s.drawn, n, nt, v)
    BY StateFacts
  <1>2. \A q \in Path : Established(s.peers[q].link) <=> s.peers[q].link.epoch # 0
    BY <1>1 DEF PeerOK, LinkOK
  <1>3. CASE Established(old.link)
    <2>1. prev = old.link.epoch
      BY <1>2, <1>3 DEF KnownBefore
    <2> QED
      BY <1>3, <2>1 DEF Live, OneLife
  <1>4. CASE ~Established(old.link)
    <2>1. prev \in OneOf(EpochElsewhere(w, l), m.epoch)
      BY <1>2, <1>4 DEF KnownBefore
    <2>2. SUFFICES ASSUME Live(s), OneLife(s) PROVE prev = s.peers[a].link.epoch
      BY <1>4
    <2>3. a \in Path /\ a # p /\ Established(s.peers[a].link)
      BY <1>4, <2>2 DEF Live
    <2>4. /\ \A q \in Path \ {p} : w.peers[q] = s.peers[q]
          /\ l.idx \in Indexes(old) \cup (s.drawn + 1 .. w.drawn) /\ w.drawn \in Nat
          /\ (w.peers[p].link = old.link \/ w.peers[p].link = l) /\ s.drawn \in Nat
      BY StateFacts DEF AnswerOK, Near
    <2>5. l.idx # s.peers[a].link.idx
      <3>1. /\ s.peers[a].link.idx \in Nat /\ s.peers[a].link.idx <= s.drawn
            /\ s.peers[a].link.idx # 0
        BY <1>1, <2>3 DEF PeerOK, LinkOK, LinkState, Established
      <3>2. s.peers[a].link.idx \in Indexes(s.peers[a])
        BY <3>1 DEF Indexes
      <3>3. Indexes(s.peers[a]) \cap Indexes(old) = {}
        BY <2>3 DEF StateOK
      <3>4. s.peers[a].link.idx \notin s.drawn + 1 .. w.drawn
        BY <2>4, <3>1
      <3> QED
        BY <2>4, <3>2, <3>3, <3>4
    <2>6. s.peers[a].link.epoch \in EpochElsewhere(w, l)
      BY <2>3, <2>4, <2>5 DEF EpochElsewhere
    <2>7. prev \in EpochElsewhere(w, l)
      BY <2>1, <2>6 DEF OneOf
    <2>8. PICK r \in Path : /\ Established(w.peers[r].link) /\ w.peers[r].link.idx # l.idx
                            /\ prev = w.peers[r].link.epoch
      BY <2>7 DEF EpochElsewhere
    <2>9. r # p
      BY <1>4, <2>4, <2>8
    <2> QED
      BY <2>2, <2>3, <2>4, <2>8, <2>9 DEF OneLife
  <1> QED
    BY <1>3, <1>4

\* The life a link was told of is the one every handshake message of its far end names.
LEMMA SameLife ==
  ASSUME NEW nt, NEW v, NetOK(nt, v), NEW n, NEW m \in nt, m.type # "Frame", m.from = Other(n),
         NEW l, Established(l), Told(l, n, nt), l.far = m.idx
  PROVE  l.epoch = m.epoch
  BY DEF NetOK, Told

LEMMA AnsweringOK ==
  ASSUME Inv, NEW n \in Node, NEW m \in net, m.type = "Msg1", m.from = Other(n),
         NEW i \in Nat, i # 0, NEW d \in Nat, i <= d
  PROVE  LET l == Answering(i, m) IN
         LinkOK(l, d, env) /\ Established(l) /\ Told(l, n, net) /\ l.epoch = m.epoch /\ l.idx = i
  <1> DEFINE l == Answering(i, m)
  <1>1. /\ m.idx \in Nat /\ m.idx <= env.idx
        /\ m.epoch \in Nat /\ m.epoch # 0 /\ m.epoch <= env.restarts + 1
    BY HandshakeFacts
  <1>2. l \in LinkState
    BY <1>1 DEF Answering, NewLink, LinkState
  <1>3. /\ l.st = "established" /\ l.idx = i /\ l.far = m.idx /\ l.epoch = m.epoch /\ l.tx = 0
        /\ l.rx = {}
    BY DEF Answering, NewLink
  <1>4. env \in Environment
    BY DEF Inv
  <1> HIDE DEF l
  <1>5. LinkOK(l, d, env) /\ Established(l) /\ Told(l, n, net)
    BY <1>1, <1>2, <1>3, <1>4, EnvTypes DEF LinkOK, Established, Told
  <1> QED
    BY <1>3, <1>5 DEF l

Discarded(s, p) == SetPeer(s, p, [s.peers[p] EXCEPT !.pend = NoLink])

\* handleMsg1, when pendingResponders.set throws.
LEMMA NoRoomGood ==
  ASSUME NEW v \in Environment, NEW n, NEW nt, NEW s, NEW p \in Path, StateOK(s, n, nt, v)
  PROVE  /\ Good(s, [Discarded(s, p) EXCEPT !.drawn = @ + 1], p, n, nt, v)
         /\ Keeps(s, [Discarded(s, p) EXCEPT !.drawn = @ + 1])
         /\ Fits(Discarded(s, p)) /\ Staged(s) \subseteq Staged(Discarded(s, p)) \cup {p}
  <1> DEFINE peer == s.peers[p]
             bare == [peer EXCEPT !.pend = NoLink]
             u == Discarded(s, p)
             d == u.drawn + 1
             t == [u EXCEPT !.drawn = d]
  <1>1. s \in NodeState /\ s.drawn \in Nat /\ PeerOK(peer, s.drawn, n, nt, v) /\ Fits(s)
    BY StateFacts
  <1>2. u = SetPeer(s, p, bare)
    BY DEF Discarded
  <1> HIDE DEF peer, u
  <1>3. bare \in PeerState
    BY <1>1, PeerFields, NoLinkFields DEF PeerState
  <1>4. bare.link = peer.link /\ bare.pend = NoLink /\ bare.drain = peer.drain /\ bare.hs = peer.hs
    BY <1>1, PeerFields DEF PeerState
  <1> HIDE DEF bare
  <1>5. PeerOK(bare, s.drawn, n, nt, v) /\ Indexes(bare) \subseteq Indexes(peer)
    <2>1. PeerOK(bare, s.drawn, n, nt, v)
      BY <1>1, <1>3, <1>4, NoLinkOK, NoLinkFields DEF PeerOK, Told
    <2>2. Indexes(bare) \subseteq Indexes(peer)
      BY <1>4, NoLinkFields DEF Indexes
    <2> QED
      BY <2>1, <2>2
  <1>6. /\ u \in NodeState
        /\ u.epoch = s.epoch /\ u.active = s.active /\ u.hist = s.hist /\ u.drawn = s.drawn
        /\ u.peers[p] = bare /\ \A q \in Path \ {p} : u.peers[q] = s.peers[q]
    <2> DEFINE x == SetPeer(s, p, bare)
    <2>1. /\ x \in NodeState
          /\ x.epoch = s.epoch /\ x.active = s.active /\ x.hist = s.hist /\ x.drawn = s.drawn
          /\ x.peers[p] = bare /\ \A q \in Path \ {p} : x.peers[q] = s.peers[q]
      BY <1>1, <1>3, SetPeerFields
    <2> QED
      BY <1>2, <2>1
  <1>7. d \in Nat /\ d = s.drawn + 1
    BY <1>1, <1>6
  <1> HIDE DEF d
  <1>8. /\ t \in NodeState /\ t.drawn = d
        /\ t.epoch = u.epoch /\ t.hist = u.hist /\ t.active = u.active /\ t.peers = u.peers
    BY <1>6, <1>7, DrawnFields
  <1>9. [u EXCEPT !.drawn = @ + 1] = t
    BY DEF d
  <1> HIDE DEF t
  <1>10. Fits(u) /\ Staged(s) \subseteq Staged(u) \cup {p}
    <2>1. Staged(u) \subseteq Staged(s) /\ Staged(s) \subseteq Staged(u) \cup {p}
      BY <1>4, <1>6 DEF Staged
    <2> QED
      BY <1>1, <2>1, FitsLess
  <1>11. Fits(t)
    BY <1>8, <1>10 DEF Fits, Staged
  <1>12. Near(s, s, p)
    BY <1>1 DEF Near
  <1>13. PeerOK(t.peers[p], t.drawn, n, nt, v)
    <2>1. s.drawn <= d /\ nt \subseteq nt
      BY <1>1, <1>7
    <2> QED
      BY <1>1, <1>5, <1>6, <1>7, <1>8, <2>1, PeerGrows
  <1>14. /\ s.drawn <= t.drawn /\ \A q \in Path \ {p} : t.peers[q] = s.peers[q]
         /\ Indexes(t.peers[p]) \subseteq Indexes(s.peers[p]) \cup (s.drawn + 1 .. t.drawn)
         /\ t.peers[p].link.epoch = s.peers[p].link.epoch
    BY <1>1, <1>4, <1>5, <1>6, <1>7, <1>8 DEF peer
  <1>15. Good(s, t, p, n, nt, v)
    BY <1>1, <1>6, <1>8, <1>11, <1>12, <1>13, <1>14, NearGood
  <1>16. Keeps(s, t)
    <2>1. Near(s, u, p)
      BY <1>1, <1>6 DEF Near
    <2>2. Established(s.peers[p].link) => Carries(u.peers[p], s.peers[p].link)
      BY <1>4, <1>6 DEF Carries, peer
    <2> QED
      BY <1>8, <2>1, <2>2, NearKeeps
  <1> QED
    BY <1>9, <1>10, <1>15, <1>16 DEF u

\* The state in which the answer stands, x being the number of links drawn for it.
LEMMA AnswerStaged ==
  ASSUME NEW v \in Environment, NEW n, NEW nt, NEW s, NEW l, NEW m, NEW p \in Path, NEW x \in {0, 1},
         StateOK(s, n, nt, v), LinkOK(l, s.drawn + x, v), Established(l), Told(l, n, nt),
         l.epoch = m.epoch, l.idx \in Indexes(s.peers[p]) \cup (s.drawn + 1 .. s.drawn + x),
         \/ s.peers[p].pend # NoLink
         \/ ~Full(Discarded(s, p))
  PROVE  AnswerOK(s, [SetPeer(s, p, [s.peers[p] EXCEPT !.pend = l]) EXCEPT !.drawn = @ + x],
                  l, m, p, n, nt, v, TRUE)
  <1> DEFINE peer == s.peers[p]
             new == [peer EXCEPT !.pend = l]
             u == SetPeer(s, p, new)
             d == u.drawn + x
             w == [u EXCEPT !.drawn = d]
  <1>1. s \in NodeState /\ s.drawn \in Nat /\ PeerOK(peer, s.drawn, n, nt, v) /\ Fits(s)
    BY StateFacts
  <1>2. l \in LinkState /\ peer \in PeerState
    BY <1>1, PeerFields DEF LinkOK
  <1>3. [SetPeer(s, p, [s.peers[p] EXCEPT !.pend = l]) EXCEPT !.drawn = @ + x] = w
    OBVIOUS
  <1> HIDE DEF peer
  <1>4. new \in PeerState
    BY <1>2 DEF PeerState
  <1>5. new.link = peer.link /\ new.pend = l /\ new.drain = peer.drain /\ new.hs = peer.hs
    BY <1>2 DEF PeerState
  <1> HIDE DEF new
  <1>6. /\ u \in NodeState
        /\ u.epoch = s.epoch /\ u.active = s.active /\ u.hist = s.hist /\ u.drawn = s.drawn
        /\ u.peers[p] = new /\ \A q \in Path \ {p} : u.peers[q] = s.peers[q]
    BY <1>1, <1>4, SetPeerFields
  <1> HIDE DEF u
  <1>7. d \in Nat /\ d = s.drawn + x /\ s.drawn <= d
    BY <1>1, <1>6
  <1> HIDE DEF d
  <1>8. /\ w \in NodeState /\ w.drawn = d
        /\ w.epoch = u.epoch /\ w.hist = u.hist /\ w.active = u.active /\ w.peers = u.peers
    BY <1>6, <1>7, DrawnFields
  <1> HIDE DEF w
  <1>9. Fits(w)
    <2>1. CASE peer.pend # NoLink
      <3>1. Staged(w) \subseteq Staged(s)
        BY <1>6, <1>8, <2>1 DEF Staged, peer
      <3> QED
        BY <1>1, <3>1, FitsLess
    <2>2. CASE ~Full(Discarded(s, p))
      <3> DEFINE bare == Discarded(s, p)
      <3>2. Fits(bare) /\ Staged(s) \subseteq Staged(bare) \cup {p}
        BY NoRoomGood
      <3>3. Staged(w) \subseteq Staged(s) \cup {p}
        BY <1>6, <1>8 DEF Staged
      <3>4. Staged(w) \subseteq Staged(bare) \cup {p}
        BY <3>2, <3>3
      <3> QED
        BY <2>2, <3>2, <3>4, FitsMore
    <2> QED
      BY <2>1, <2>2 DEF peer
  <1>10. Near(s, w, p)
    BY <1>6, <1>7, <1>8 DEF Near
  <1>11. AnswerOK(s, w, l, m, p, n, nt, v, TRUE)
    BY <1>4, <1>5, <1>6, <1>7, <1>8, <1>9, <1>10 DEF AnswerOK, peer
  <1> QED
    BY <1>3, <1>11

LEMMA AnswerInPlace ==
  ASSUME NEW v \in Environment, NEW n, NEW nt, NEW s, NEW l, NEW m, NEW p \in Path, NEW x \in {0, 1},
         StateOK(s, n, nt, v), LinkOK(l, s.drawn + x, v), Established(l), Told(l, n, nt),
         l.epoch = m.epoch, l.idx \in Indexes(s.peers[p]) \cup (s.drawn + 1 .. s.drawn + x),
         s.peers[p].hs = "none", ~Established(s.peers[p].link) \/ s.peers[p].link = l
  PROVE  AnswerOK(s, [SetPeer(s, p, [s.peers[p] EXCEPT !.link = l]) EXCEPT !.drawn = @ + x],
                  l, m, p, n, nt, v, FALSE)
  <1> DEFINE peer == s.peers[p]
             new == [peer EXCEPT !.link = l]
             u == SetPeer(s, p, new)
             d == u.drawn + x
             w == [u EXCEPT !.drawn = d]
  <1>1. s \in NodeState /\ s.drawn \in Nat /\ PeerOK(peer, s.drawn, n, nt, v) /\ Fits(s)
    BY StateFacts
  <1>2. l \in LinkState /\ peer \in PeerState
    BY <1>1, PeerFields DEF LinkOK
  <1>3. [SetPeer(s, p, [s.peers[p] EXCEPT !.link = l]) EXCEPT !.drawn = @ + x] = w
    OBVIOUS
  <1> HIDE DEF peer
  <1>4. new \in PeerState
    BY <1>2 DEF PeerState
  <1>5. new.link = l /\ new.pend = peer.pend /\ new.drain = peer.drain /\ new.hs = peer.hs
    BY <1>2 DEF PeerState
  <1> HIDE DEF new
  <1>6. /\ u \in NodeState
        /\ u.epoch = s.epoch /\ u.active = s.active /\ u.hist = s.hist /\ u.drawn = s.drawn
        /\ u.peers[p] = new /\ \A q \in Path \ {p} : u.peers[q] = s.peers[q]
    BY <1>1, <1>4, SetPeerFields
  <1> HIDE DEF u
  <1>7. d \in Nat /\ d = s.drawn + x /\ s.drawn <= d
    BY <1>1, <1>6
  <1> HIDE DEF d
  <1>8. /\ w \in NodeState /\ w.drawn = d
        /\ w.epoch = u.epoch /\ w.hist = u.hist /\ w.active = u.active /\ w.peers = u.peers
    BY <1>6, <1>7, DrawnFields
  <1> HIDE DEF w
  <1>9. Fits(w)
    <2>1. Staged(w) \subseteq Staged(s)
      BY <1>5, <1>6, <1>8 DEF Staged, peer
    <2> QED
      BY <1>1, <2>1, FitsLess
  <1>10. Near(s, w, p)
    BY <1>6, <1>7, <1>8 DEF Near
  <1>11. AnswerOK(s, w, l, m, p, n, nt, v, FALSE)
    BY <1>4, <1>5, <1>6, <1>7, <1>8, <1>9, <1>10 DEF AnswerOK, peer
  <1> QED
    BY <1>3, <1>11

LEMMA RecvMsg1Good ==
  ASSUME Inv, NEW n \in Node, NEW p \in Path, NEW m \in net, RecvMsg1(n, p, m)
  PROVE  Handled(n, p)
  <1> DEFINE s == nodes[n]
             peer == s.peers[p]
             staging == Staging(peer, m)
             crossing == Crossing(peer)
             again == staging /\ StagedAlready(peer, m)
             cached == ~staging /\ Established(peer.link)
             inPlace == ~staging /\ peer.link.st = "init"
             x == IF again \/ cached \/ inPlace THEN 0 ELSE 1
             i == IF x = 0 THEN peer.link.idx ELSE s.drawn + 1
             l == CASE again -> peer.pend
                    [] cached -> peer.link
                    [] OTHER -> Answering(i, m)
             discarded == Discarded(s, p)
             w == [IF staging THEN SetPeer(s, p, [peer EXCEPT !.pend = l])
                   ELSE SetPeer(s, p, [peer EXCEPT !.link = l]) EXCEPT !.drawn = @ + x]
             before == KnownBefore(s, w, l, m, p)
             answer == Msg2(n, l, s.epoch, p)
  <1>1. /\ env \in Environment /\ s \in NodeState /\ StateOK(s, n, net, env) /\ s.drawn \in Nat
        /\ PeerOK(peer, s.drawn, n, net, env) /\ NetOK(net, env) /\ s.epoch \in Nat
    BY HandlerFacts, StateFacts
  <1>2. m.type = "Msg1" /\ m.from = Other(n) /\ env' = env
    BY DEF RecvMsg1
  <1>3. \/ Become(n, [discarded EXCEPT !.drawn = @ + 1]) /\ net' = net
        \/ /\ staging /\ ~again => ~Full(discarded)
           /\ \E prev \in before : \E r \in Reconciled(w, p, l, m, prev, crossing) :
                 /\ Become(n, r[1])
                 /\ net' = IF r[2] THEN net \cup {answer} ELSE net
    BY DEF RecvMsg1, Discarded, KnownBefore
  <1>4. CASE Become(n, [discarded EXCEPT !.drawn = @ + 1]) /\ net' = net
    <2> HIDE DEF s, peer
    <2>2. /\ Good(s, [discarded EXCEPT !.drawn = @ + 1], p, n, net, env)
          /\ Keeps(s, [discarded EXCEPT !.drawn = @ + 1])
      BY <1>1, NoRoomGood
    <2> QED
      BY <1>1, <1>2, <1>4, <2>2 DEF Handled, s
  <1>5. CASE /\ staging /\ ~again => ~Full(discarded)
             /\ \E prev \in before : \E r \in Reconciled(w, p, l, m, prev, crossing) :
                   /\ Become(n, r[1])
                   /\ net' = IF r[2] THEN net \cup {answer} ELSE net
    <2>0. PICK prev \in before : \E r \in Reconciled(w, p, l, m, prev, crossing) :
             Become(n, r[1]) /\ net' = IF r[2] THEN net \cup {answer} ELSE net
      BY <1>5
    <2>1. PICK r \in Reconciled(w, p, l, m, prev, crossing) :
             Become(n, r[1]) /\ net' = IF r[2] THEN net \cup {answer} ELSE net
      BY <2>0
    <2>2. x \in {0, 1} /\ staging \in BOOLEAN /\ crossing \in BOOLEAN
      BY DEF Staging, Crossing
    <2>3. /\ LinkOK(l, s.drawn + x, env) /\ Established(l) /\ Told(l, n, net)
          /\ l.epoch = m.epoch /\ l.idx \in Indexes(peer) \cup (s.drawn + 1 .. s.drawn + x)
      <3>1. CASE again
        <4>1. x = 0 /\ l = peer.pend /\ peer.pend # NoLink /\ peer.pend.far = m.idx
          BY <3>1 DEF StagedAlready
        <4> HIDE DEF s, peer, x, l
        <4>2. /\ LinkOK(l, s.drawn, env) /\ Established(l) /\ Told(l, n, net) /\ l.far = m.idx
              /\ l.idx # 0
          BY <1>1, <4>1 DEF PeerOK, LinkOK, Established
        <4>3. l.epoch = m.epoch
          BY <1>1, <1>2, <4>2, SameLife
        <4>4. l.idx \in Indexes(peer)
          BY <4>1, <4>2 DEF Indexes
        <4>5. s.drawn + x = s.drawn
          BY <1>1, <4>1
        <4> QED
          BY <4>2, <4>3, <4>4, <4>5
      <3>2. CASE cached
        <4>1. x = 0 /\ l = peer.link /\ Established(peer.link) /\ peer.link.far = m.idx
          BY <3>2 DEF Staging
        <4> HIDE DEF s, peer, x, l
        <4>2. /\ LinkOK(l, s.drawn, env) /\ Established(l) /\ Told(l, n, net) /\ l.far = m.idx
              /\ l.idx # 0
          BY <1>1, <4>1 DEF PeerOK, LinkOK, Established
        <4>3. l.epoch = m.epoch
          BY <1>1, <1>2, <4>2, SameLife
        <4>4. l.idx \in Indexes(peer)
          BY <4>1, <4>2 DEF Indexes
        <4>5. s.drawn + x = s.drawn
          BY <1>1, <4>1
        <4> QED
          BY <4>2, <4>3, <4>4, <4>5
      <3>3. CASE ~again /\ ~cached
        <4>1. l = Answering(i, m)
          BY <3>3
        <4>2. /\ i \in Nat /\ i # 0 /\ i <= s.drawn + x /\ s.drawn + x \in Nat
              /\ i \in Indexes(peer) \cup (s.drawn + 1 .. s.drawn + x)
          <5>1. CASE inPlace
            <6>1. x = 0 /\ i = peer.link.idx /\ peer.link.st = "init"
              BY <5>1
            <6> HIDE DEF s, peer, x, i
            <6>2. i \in Nat /\ i # 0 /\ i <= s.drawn /\ i \in Indexes(peer)
              BY <1>1, <6>1 DEF PeerOK, LinkOK, LinkState, Indexes
            <6> QED
              BY <1>1, <6>1, <6>2
          <5>2. CASE ~inPlace
            <6>1. x = 1
              BY <3>3, <5>2
            <6> HIDE DEF s, peer, x
            <6>2. i = s.drawn + 1
              BY <6>1
            <6> HIDE DEF i
            <6> QED
              BY <1>1, <6>1, <6>2
          <5> QED
            BY <5>1, <5>2
        <4> HIDE DEF s, peer, x, l, i
        <4> DEFINE d == s.drawn + x
        <4>3. d \in Nat /\ i <= d
          BY <4>2
        <4> HIDE DEF d
        <4>4. /\ LinkOK(l, d, env) /\ Established(l) /\ Told(l, n, net) /\ l.epoch = m.epoch
              /\ l.idx = i
          BY <1>2, <4>1, <4>2, <4>3, AnsweringOK
        <4> QED
          BY <4>2, <4>4 DEF d
      <3> QED
        BY <3>1, <3>2, <3>3
    <2>4. crossing <=> peer.hs # "none"
      <3> HIDE DEF peer
      <3> QED
        BY <1>1 DEF Crossing, PeerOK
    <2>5. AnswerOK(s, w, l, m, p, n, net, env, staging)
      <3>1. CASE staging
        <4>1. \/ peer.pend # NoLink
              \/ ~Full(Discarded(s, p))
          BY <1>5, <3>1 DEF StagedAlready
        <4>2. w = [SetPeer(s, p, [s.peers[p] EXCEPT !.pend = l]) EXCEPT !.drawn = @ + x]
          BY <3>1
        <4>3. staging = TRUE
          BY <2>2, <3>1
        <4> HIDE DEF s, x, l, w, staging
        <4>4. AnswerOK(s, [SetPeer(s, p, [s.peers[p] EXCEPT !.pend = l]) EXCEPT !.drawn = @ + x],
                       l, m, p, n, net, env, TRUE)
          BY <1>1, <2>2, <2>3, <4>1, AnswerStaged
        <4> QED
          BY <4>2, <4>3, <4>4
      <3>2. CASE ~staging
        <4>1. peer.hs = "none"
          <5>1. peer.link.role # "initiator"
            BY <3>2 DEF Staging
          <5> HIDE DEF peer
          <5> QED
            BY <1>1, <5>1 DEF PeerOK
        <4>2. w = [SetPeer(s, p, [s.peers[p] EXCEPT !.link = l]) EXCEPT !.drawn = @ + x]
          BY <3>2
        <4>3. staging = FALSE
          BY <2>2, <3>2
        <4>4. ~Established(peer.link) \/ peer.link = l
          BY <3>2
        <4> HIDE DEF s, x, l, w, staging
        <4>5. AnswerOK(s, [SetPeer(s, p, [s.peers[p] EXCEPT !.link = l]) EXCEPT !.drawn = @ + x],
                       l, m, p, n, net, env, FALSE)
          BY <1>1, <2>2, <2>3, <4>1, <4>4, AnswerInPlace
        <4> QED
          BY <4>2, <4>3, <4>5
      <3> QED
        BY <3>1, <3>2
    <2> HIDE DEF s, l, w, staging, crossing, x
    <2>6. Good(s, r[1], p, n, net, env) /\ (r[2] => w.drawn <= r[1].drawn) /\ Keeps(s, r[1])
      <3>1. /\ Live(s) /\ OneLife(s) => prev = s.peers[s.active].link.epoch
            /\ Established(s.peers[p].link) => prev = s.peers[p].link.epoch
        BY <1>1, <2>0, <2>2, <2>5, KnownLife
      <3> QED
        BY <1>1, <2>1, <2>2, <2>4, <2>5, <3>1, ReconciledGood
    <2>7. r[2] => Sendable(s, r[1], p, n, answer, env)
      <3>1. SUFFICES ASSUME r[2] PROVE Sendable(s, r[1], p, n, answer, env)
        OBVIOUS
      <3>2. /\ l \in LinkState /\ l.idx \in Nat /\ l.far \in Nat /\ l.idx <= w.drawn
            /\ l.idx \in Indexes(peer) \cup (s.drawn + 1 .. w.drawn) /\ w.drawn \in Nat
        BY <2>5 DEF AnswerOK, LinkOK, LinkState
      <3>3. w.drawn <= r[1].drawn /\ r[1].drawn \in Nat
        BY <2>6, <3>1 DEF Good, NodeState
      <3>4. /\ answer \in Message /\ answer.from = n /\ answer.idx = l.idx /\ answer.c = 0
            /\ answer.epoch = s.epoch
        BY <1>1, <3>2 DEF Msg2, Message
      <3> HIDE DEF answer
      <3> QED
        BY <1>1, <3>2, <3>3, <3>4, EnvTypes DEF Sendable
    <2> HIDE DEF answer
    <2>8. net' = net \/ (net' = net \cup {answer} /\ Sendable(s, r[1], p, n, answer, env))
      BY <2>1, <2>7
    <2> QED
      BY <1>1, <1>2, <2>1, <2>6, <2>8 DEF Handled, s
  <1> QED
    BY <1>3, <1>4, <1>5

-----------------------------------------------------------------------------
(* A new life                                                              *)

LEMMA RestartOK ==
  ASSUME Inv, NEW n \in Node, Restart(n)
  PROVE  /\ Inv' /\ nodes'[n].epoch # nodes[n].epoch
         /\ \A k \in Node : k = n \/ nodes'[k] = nodes[k]
  <1> DEFINE s == nodes[n]
             o == Other(n)
             e == s.epoch + 1
             t == FreshNode(e, s.drawn)
  <1>1. /\ env \in Environment /\ nodes \in [Node -> NodeState] /\ NetOK(net, env)
        /\ StateOK(s, n, net, env) /\ SentOK(s, n, net) /\ s.drawn \in Nat /\ s.epoch \in Nat
        /\ s.drawn <= env.idx
    BY StateFacts DEF Inv, StateOK
  <1>2. /\ s.epoch + nodes[o].epoch < env.restarts + 2 /\ Become(n, t) /\ net' = net /\ env' = env
    BY DEF Restart
  <1>3. o \in Node /\ env.restarts \in Nat /\ nodes[o].epoch \in Nat /\ nodes[o].epoch >= 1
        /\ s.epoch >= 1
    <2>1. o \in Node
      BY TwoNodes
    <2> HIDE DEF o
    <2>2. StateOK(nodes[o], o, net, env) /\ env.restarts \in Nat
      BY <1>1, <2>1, EnvTypes DEF Inv
    <2> QED
      BY <1>1, <2>1, <2>2 DEF StateOK, NodeState
  <1> HIDE DEF o
  <1>4. e \in Nat /\ e \in 1 .. env.restarts + 1 /\ e = s.epoch + 1
    BY <1>1, <1>2, <1>3
  <1> HIDE DEF e
  <1>5. nodes' = [nodes EXCEPT ![n] = t]
    BY <1>2 DEF Become
  <1> HIDE DEF s
  <1>6. /\ t \in NodeState /\ t.epoch = e /\ t.drawn = s.drawn /\ t.active = NoPath /\ t.hist = <<>>
        /\ \A q \in Path : t.peers[q] = NoPeer
    BY <1>1, <1>4, Reborn
  <1> HIDE DEF t
  <1>7. nodes' \in [Node -> NodeState] /\ nodes'[n] = t /\ \A k \in Node : k = n \/ nodes'[k] = nodes[k]
    BY <1>1, <1>5, <1>6
  <1>8. StateOK(t, n, net, env)
    <2>1. \A q \in Path : PeerOK(t.peers[q], t.drawn, n, net, env)
      BY <1>1, <1>6, NoPeerOK
    <2>2. \A q, r \in Path : Indexes(t.peers[q]) \cap Indexes(t.peers[r]) = {}
      BY <1>6, NoPeerFields
    <2>3. Fits(t)
      <3>1. Staged(t) = {}
        BY <1>6, NoPeerFields DEF Staged
      <3> QED
        BY <3>1, FS_EmptySet, Bounds DEF Fits
    <2>4. Len(t.hist) <= HistoryLimit
      BY <1>6, Bounds
    <2> QED
      BY <1>1, <1>4, <1>6, <2>1, <2>2, <2>3, <2>4 DEF StateOK
  <1>9. SentOK(t, n, net)
    BY <1>1, <1>4, <1>6, NoPeerFields DEF SentOK
  <1>10. \A k \in Node : StateOK(nodes'[k], k, net, env) /\ SentOK(nodes'[k], k, net)
    BY <1>7, <1>8, <1>9 DEF Inv
  <1>11. Inv'
    BY <1>1, <1>2, <1>7, <1>10 DEF Inv
  <1>12. t.epoch # s.epoch
    BY <1>1, <1>4, <1>6
  <1> QED
    BY <1>7, <1>11, <1>12 DEF s

-----------------------------------------------------------------------------
(* Theorems                                                                *)

LEMMA InitOK ==
  ASSUME Init
  PROVE  Inv
  <1> DEFINE t == FreshNode(1, 0)
  <1>1. env \in Environment /\ net = {} /\ nodes = [n \in Node |-> t]
    BY FmpAssumption DEF Init
  <1>2. 1 \in Nat /\ 0 \in Nat
    OBVIOUS
  <1>3. /\ t \in NodeState /\ t.epoch = 1 /\ t.drawn = 0 /\ t.active = NoPath /\ t.hist = <<>>
        /\ \A q \in Path : t.peers[q] = NoPeer
    BY <1>2, Reborn
  <1> HIDE DEF t
  <1>4. NetOK(net, env)
    BY <1>1 DEF NetOK
  <1>5. ASSUME NEW n \in Node PROVE StateOK(t, n, net, env) /\ SentOK(t, n, net)
    <2>1. \A q \in Path : PeerOK(t.peers[q], t.drawn, n, net, env)
      BY <1>1, <1>2, <1>3, NoPeerOK
    <2>2. \A q, r \in Path : Indexes(t.peers[q]) \cap Indexes(t.peers[r]) = {}
      BY <1>3, NoPeerFields
    <2>3. Fits(t)
      <3>1. Staged(t) = {}
        BY <1>3, NoPeerFields DEF Staged
      <3> QED
        BY <3>1, FS_EmptySet, Bounds DEF Fits
    <2>4. /\ Len(t.hist) <= HistoryLimit /\ t.drawn <= env.idx
          /\ t.epoch \in 1 .. env.restarts + 1
      BY <1>1, <1>3, Bounds, EnvTypes
    <2> QED
      BY <1>1, <1>3, <2>1, <2>2, <2>3, <2>4 DEF StateOK, SentOK
  <1> QED
    BY <1>1, <1>3, <1>4, <1>5 DEF Inv

\* What a step that StepOK speaks of does.
LEMMA HandledOK ==
  ASSUME Inv, NEW n \in Node, NEW p \in Path, Handled(n, p)
  PROVE  /\ Inv' /\ Forward(nodes[n], nodes'[n])
         /\ env' = env => Keeps(nodes[n], nodes'[n])
         /\ \A k \in Node : k = n \/ nodes'[k] = nodes[k]
  <1>1. PICK t, m : /\ Good(nodes[n], t, p, n, net, env) /\ Become(n, t)
                    /\ env' = env => Keeps(nodes[n], t)
                    /\ \/ net' = net
                       \/ net' = net \cup {m} /\ Sendable(nodes[n], t, p, n, m, env)
    BY DEF Handled
  <1>2. Inv' /\ \A k \in Node : k = n \/ nodes'[k] = nodes[k]
    BY <1>1, StepOK DEF Handled
  <1>3. nodes'[n] = t
    BY <1>1 DEF Become, Inv
  <1>4. Forward(nodes[n], t)
    BY <1>1 DEF Good
  <1> QED
    BY <1>1, <1>2, <1>3, <1>4

\* Only one node changes, and it starts a new life or does not go back and keeps the
\* link in use.
LEMMA NextOK ==
  ASSUME Inv, [Next]_vars
  PROVE  /\ Inv'
         /\ \A k \in Node : \/ nodes'[k] = nodes[k] \/ nodes'[k].epoch # nodes[k].epoch
                            \/ /\ Forward(nodes[k], nodes'[k])
                               /\ env' = env => Keeps(nodes[k], nodes'[k])
  <1>1. CASE UNCHANGED vars
    <2>1. nodes' = nodes /\ net' = net /\ env' = env
      BY <1>1 DEF vars
    <2> QED
      BY <2>1 DEF Inv
  <1>2. CASE Next
    <2>1. PICK n \in Node : Restart(n) \/ \E p \in Path :
              \/ Connect(n, p) \/ HandshakeFails(n, p) \/ Disconnect(n, p)
              \/ ConfirmSent(n, p) \/ SendFrame(n, p)
              \/ PendingExpires(n, p) \/ DrainExpires(n, p)
              \/ \E m \in net : RecvMsg1(n, p, m) \/ RecvFrame(n, p, m)
              \/ \E m \in net, q \in Path : RecvMsg2(n, p, q, m)
      BY <1>2 DEF Next
    <2>2. CASE Restart(n)
      BY <2>2, RestartOK
    <2>3. ASSUME NEW p \in Path, Handled(n, p)
          PROVE  /\ Inv'
                 /\ \A k \in Node : \/ nodes'[k] = nodes[k]
                                    \/ /\ Forward(nodes[k], nodes'[k])
                                       /\ env' = env => Keeps(nodes[k], nodes'[k])
      BY <2>3, HandledOK
    <2>4. ASSUME NEW p \in Path,
              \/ Connect(n, p) \/ HandshakeFails(n, p) \/ Disconnect(n, p)
              \/ ConfirmSent(n, p) \/ SendFrame(n, p)
              \/ PendingExpires(n, p) \/ DrainExpires(n, p)
              \/ \E m \in net : RecvMsg1(n, p, m) \/ RecvFrame(n, p, m)
              \/ \E m \in net, q \in Path : RecvMsg2(n, p, q, m)
          PROVE  Handled(n, p)
      BY <2>4, ConnectGood, RemovalGood, ConfirmSentGood, SendFrameGood, PendingExpiresGood,
         DrainExpiresGood, RecvMsg1Good, RecvFrameGood, RecvMsg2Good
    <2> QED
      BY <2>1, <2>2, <2>3, <2>4
  <1> QED
    BY <1>1, <1>2

\* The inductive invariant: links know the life of their remote exactly when they are
\* established, a path's links have indexes of their own, and the messages under way name
\* one life per index.
THEOREM Invariance == Spec => []Inv
  <1>1. Inv /\ [Next]_vars => Inv'
    BY NextOK
  <1> QED
    BY <1>1, InitOK, PTL DEF Spec

\* Every field of every peer, link and index stays within its type whatever the carriers
\* do, and the responders that await their first frame within MAX_PENDING_FMP_RESPONDERS.
THEOREM TypeCorrect == Spec => []TypeOK
  <1>1. ASSUME Inv PROVE TypeOK
    <2>1. SUFFICES ASSUME NEW n \in Node
                   PROVE  /\ nodes[n].epoch \in 1 .. env.restarts + 1
                          /\ nodes[n].drawn \in 0 .. env.idx
                          /\ \A p \in Path : nodes[n].peers[p] \in Peer
                          /\ nodes[n].active \in Path \cup {NoPath, Gone}
                          /\ Len(nodes[n].hist) <= HistoryLimit
                          /\ PendingCount(nodes[n]) <= MaxPending
      BY DEF TypeOK
    <2> DEFINE s == nodes[n]
    <2>2. /\ env \in Environment /\ StateOK(s, n, net, env) /\ s.drawn \in Nat
          /\ env.idx \in Nat /\ env.tx \in Nat /\ env.restarts \in Nat
      BY <1>1, HandlerFacts, StateFacts, EnvTypes
    <2> HIDE DEF s
    <2>3. s.drawn <= env.idx
      BY <2>2 DEF StateOK
    <2>4. \A l : LinkOK(l, s.drawn, env) => l \in Link
      BY <2>2, <2>3 DEF LinkOK, LinkState, Link
    <2>5. ASSUME NEW p \in Path PROVE s.peers[p] \in Peer
      <3> DEFINE peer == s.peers[p]
      <3>1. PeerOK(peer, s.drawn, n, net, env)
        BY <2>2, StateFacts
      <3> HIDE DEF peer
      <3>2. /\ peer \in PeerState /\ peer.link \in Link /\ peer.pend \in Link
            /\ peer.drain \in SUBSET Link
        BY <2>4, <3>1 DEF PeerOK
      <3>3. peer \in Peer
        BY <3>2 DEF PeerState, Peer
      <3> QED
        BY <3>3 DEF peer
    <2>6. PendingCount(s) <= MaxPending
      BY <2>2 DEF PendingCount, StateOK, Fits, Staged
    <2> QED
      BY <2>2, <2>3, <2>5, <2>6 DEF s, StateOK, NodeState
  <1> QED
    BY <1>1, Invariance, PTL

\* A late or repeated handshake, a time-out and a disconnection never bring a node whose
\* peer is live, with carriers of one life, to an earlier life that it still remembers.
THEOREM NeverRolledBack == Spec => NoRollback
  <1> DEFINE A == \A n \in Node :
                     LET s == nodes[n]
                         t == nodes'[n]
                         now == t.peers[t.active].link
                     IN  Live(s) /\ Live(t) /\ t.epoch = s.epoch /\ OneLife(s) =>
                             \/ now.epoch = s.peers[s.active].link.epoch
                             \/ now.rx # {}
                             \/ ~\E i \in DOMAIN s.hist : s.hist[i] = now.epoch
  <1>1. Inv /\ [Next]_vars => A
    <2>1. SUFFICES ASSUME Inv, [Next]_vars PROVE A
      OBVIOUS
    <2>2. \A k \in Node : \/ nodes'[k] = nodes[k] \/ nodes'[k].epoch # nodes[k].epoch
                          \/ Forward(nodes[k], nodes'[k])
      BY <2>1, NextOK
    <2> QED
      BY <2>2 DEF Forward
  <1>2. NoRollback <=> [][A]_vars
    BY DEF NoRollback
  <1> HIDE DEF A
  <1> QED
    BY <1>1, <1>2, Invariance, PTL DEF Spec

\* Whatever handshake messages and frames of the same life arrive, the link in use goes on
\* receiving, in use, staged or draining, unless its path was dialled and not confirmed,
\* the carriers are of two lives or no responder more can be staged.
THEOREM DisplacedKept == Spec => DisplacedDrains
  <1> DEFINE A == \A n \in Node :
                     LET s == nodes[n]
                         t == nodes'[n]
                         old == s.peers[s.active].link
                     IN  Live(s) /\ Live(t) /\ t.epoch = s.epoch /\ env' = env
                         /\ t.peers[t.active].link.epoch = old.epoch
                         /\ OneLife(s) /\ s.peers[s.active].hs = "none" /\ Room(s)
                         => \E l \in Held(t) : /\ Established(l) /\ l.idx = old.idx
                                                /\ old.rx \subseteq l.rx
  <1>1. Inv /\ [Next]_vars => A
    <2>1. SUFFICES ASSUME Inv, [Next]_vars, NEW n \in Node,
                          Live(nodes[n]), Live(nodes'[n]), nodes'[n].epoch = nodes[n].epoch,
                          env' = env,
                          nodes'[n].peers[nodes'[n].active].link.epoch =
                             nodes[n].peers[nodes[n].active].link.epoch,
                          OneLife(nodes[n]), nodes[n].peers[nodes[n].active].hs = "none",
                          Room(nodes[n])
                   PROVE  \E l \in Held(nodes'[n]) :
                             /\ Established(l) /\ l.idx = nodes[n].peers[nodes[n].active].link.idx
                             /\ nodes[n].peers[nodes[n].active].link.rx \subseteq l.rx
      OBVIOUS
    <2> DEFINE s == nodes[n]
               t == nodes'[n]
               old == s.peers[s.active].link
    <2>2. t = s \/ Keeps(s, t)
      BY <2>1, NextOK
    <2>3. \E q \in Path : Carries(t.peers[q], old)
      <3>1. CASE t = s
        BY <2>1, <3>1 DEF Live, Carries
      <3>2. CASE Keeps(s, t)
        BY <2>1, <3>2 DEF Keeps
      <3> QED
        BY <2>2, <3>1, <3>2
    <2> QED
      BY <2>3 DEF Carries, Held
  <1>2. DisplacedDrains <=> [][A]_vars
    BY DEF DisplacedDrains
  <1> HIDE DEF A
  <1> QED
    BY <1>1, <1>2, Invariance, PTL DEF Spec
=============================================================================
