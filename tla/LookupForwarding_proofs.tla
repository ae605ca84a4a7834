---------------------- MODULE LookupForwarding_proofs ----------------------
(***************************************************************************)
(* What the relays' tables say of a path holds, for every mesh: however    *)
(* requests, responses and datagrams cross, are lost or wait, whatever     *)
(* links come up, and whatever entry expires or is evicted.                *)
(***************************************************************************)
EXTENDS LookupForwarding, SequenceTheorems, TLAPS

----------------------------------------------------------------------------
(* The inductive invariant *)

Id == [origin : Node, target : Node, lookup : Nat, try : Nat]

Requests ==
    [kind : {"request"}, from : Node, to : Node, id : Id, target : Node, origin : Node,
     ttl : Int, mtu : Nat]

Responses ==
    [kind : {"response"}, from : Node, to : Node, id : Id, target : Node, mtu : Nat]

Datagrams ==
    [kind : {"datagram"}, from : Node, to : Node, data : mesh.datagrams, ttl : Int]

Entry ==
    [id : Id, target : Node, peer : Node, sent : SUBSET Node, origin : Node, ttl : Int,
     mtu : Nat]

Lookups ==
    [target : Node, excluded : Node \cup {Nobody}, minMtu : Nat, tries : Nat, lookup : Nat]

Waiter ==
    [data : mesh.datagrams, prev : Node \cup {Nobody}, ttl : Int, need : Nat,
     resumed : BOOLEAN, via : Node \cup {Nobody}, verified : Nat]

\* The mesh and the links of it that are up.
MeshOK == mesh \in Meshes /\ up \subseteq DOMAIN mesh.cap

\* Frames travel on links that are up, and a request is for the target of its id.
FrameOK(msg) ==
    /\ msg \in Requests \cup Responses \cup Datagrams
    /\ {msg.from, msg.to} \in up
    /\ msg.kind # "datagram" => msg.target = msg.id.target

NetOK == \A msg \in net : FrameOK(msg)

PendingOK ==
    /\ DOMAIN pending = Node
    /\ \A n \in Node :
        /\ DOMAIN pending[n] \subseteq Node
        /\ \A t \in DOMAIN pending[n] : pending[n][t] \in Lookups /\ pending[n][t].target = t
    /\ DOMAIN spent = {"losses", "expiries", "lookups", "broken", "evicted"}
    /\ spent.lookups \in Nat

\* A reverse path e of node n.
PathOK(n, e) == e \in Entry /\ e.target = e.id.target /\ {n, e.peer} \in DOMAIN mesh.cap

\* The reverse paths s of node n.
PathsOK(n, s) ==
    /\ s \in Seq(Entry)
    /\ Len(s) <= mesh.maxReverse
    /\ \A i \in DOMAIN s : PathOK(n, s[i])
    /\ \A i, j \in DOMAIN s : s[i].id = s[j].id => i = j

ReverseOK == DOMAIN reverse = Node /\ \A n \in Node : PathsOK(n, reverse[n])

RouteOK(n, r) ==
    /\ r \in [dest : Node, hop : Node, mtu : Nat]
    /\ r.dest \notin {n, r.hop}

LearnedOK == DOMAIN learned = Node /\ \A n \in Node : \A r \in learned[n] : RouteOK(n, r)

WaitingOK == DOMAIN waiting = Node /\ \A n \in Node : waiting[n] \subseteq Waiter

\* What has come to node to over its link to node from, a frame of the given
\* size, may go back: to from itself, or through it.
Leads(from, to, size, dest) ==
    dest = from \/ (from \in mesh.relays /\ Reaches(from, to, size, dest))

\* The datagram d at n is n's own, or came from prev.
Came(n, prev, d) ==
    d.src = n \/ (n \in mesh.relays /\ {n, prev} \in up /\ Leads(prev, n, 0, d.src))

\* A response tells the MTU of the path behind it; a datagram has come from
\* its source.
FrameLeads(msg) ==
    /\ msg.kind = "response" => Leads(msg.from, msg.to, msg.mtu, msg.target)
    /\ msg.kind = "datagram" => Leads(msg.from, msg.to, 0, msg.data.src)

RouteHolds(n, r) ==
    /\ mesh.cap[{n, r.hop}] >= r.mtu
    /\ r.hop \in mesh.relays
    /\ Reaches(r.hop, n, r.mtu, r.dest)

FramesLead == \A msg \in net : FrameLeads(msg)
WaitersCame == \A n \in Node : \A w \in waiting[n] : Came(n, w.prev, w.data)
RoutesHold == \A n \in Node : \A r \in learned[n] : RouteHolds(n, r)

Types == MeshOK /\ NetOK /\ PendingOK /\ ReverseOK /\ LearnedOK /\ WaitingOK

\* Paths stay as they are told only while no link breaks.
Truthful == spent.broken = {} => FramesLead /\ WaitersCame /\ RoutesHold

Inv == Types /\ Truthful

----------------------------------------------------------------------------
(* Meshes, minima and sequences *)

LEMMA MeshFacts ==
    ASSUME MeshOK
    PROVE  /\ mesh.relays \subseteq Node
           /\ \A n, m : {n, m} \in DOMAIN mesh.cap =>
                 n \in Node /\ m \in Node /\ mesh.cap[{n, m}] \in Nat
           /\ \A l \in DOMAIN mesh.cap : l \subseteq Node /\ mesh.cap[l] \in Nat
           /\ \A n, m : {n, m} \in up => {n, m} \in DOMAIN mesh.cap
           /\ mesh.maxReverse \in Nat \ {0}
           /\ mesh.start \subseteq DOMAIN mesh.cap
           /\ \A a \in mesh.asks : a.origin \in Node /\ a.target \in Node
           /\ \A d \in mesh.datagrams : d.src \in Node /\ d.dst \in Node /\ d.size \in Nat
  BY LookupForwardingAssumption DEF MeshOK, Node

LEMMA LinkFacts ==
    ASSUME MeshOK, NEW n, NEW m, {n, m} \in DOMAIN mesh.cap
    PROVE  n \in Node /\ m \in Node /\ mesh.cap[{n, m}] \in Nat
  BY MeshFacts

LEMMA UpLinkFacts ==
    ASSUME MeshOK, NEW n, NEW m, {n, m} \in up
    PROVE  {n, m} \in DOMAIN mesh.cap /\ n \in Node /\ m \in Node /\ mesh.cap[{n, m}] \in Nat
  BY LinkFacts DEF MeshOK

\* The minimum of two numbers.
LEMMA MinOfTwo ==
    ASSUME NEW a \in Nat, NEW b \in Nat
    PROVE  Min({a, b}) \in Nat /\ Min({a, b}) <= a /\ Min({a, b}) <= b
  <1>1. \E x \in {a, b} : \A y \in {a, b} : x =< y
    BY SMT
  <1>2. Min({a, b}) \in {a, b} /\ \A y \in {a, b} : Min({a, b}) =< y
    BY <1>1 DEF Min
  <1> QED
    BY <1>2

\* Removing the i-th element keeps the order of the others.
LEMMA RemoveAtFacts ==
    ASSUME NEW S, NEW s \in Seq(S), NEW i \in 1 .. Len(s)
    PROVE  /\ RemoveAt(s, i) \in Seq(S)
           /\ Len(RemoveAt(s, i)) = Len(s) - 1
           /\ \A j \in 1 .. Len(s) - 1 :
                 RemoveAt(s, i)[j] = IF j < i THEN s[j] ELSE s[j + 1]
  <1> DEFINE a == SubSeq(s, 1, i - 1)
             b == SubSeq(s, i + 1, Len(s))
  <1>0. Len(s) \in Nat /\ i \in Nat
    BY LenProperties
  <1>1. a \in Seq(S) /\ Len(a) = i - 1 /\ \A j \in 1 .. i - 1 : a[j] = s[j]
    BY <1>0
  <1>2. b \in Seq(S) /\ Len(b) = Len(s) - i /\ \A j \in 1 .. Len(s) - i : b[j] = s[i + j]
    BY <1>0
  <1> HIDE DEF a, b
  <1> DEFINE c == a \o b
  <1>3. /\ c \in Seq(S)
        /\ Len(c) = Len(a) + Len(b)
        /\ \A j \in 1 .. Len(a) + Len(b) :
              c[j] = IF j <= Len(a) THEN a[j] ELSE b[j - Len(a)]
    BY <1>1, <1>2, ConcatProperties
  <1>5. RemoveAt(s, i) = c
    BY DEF RemoveAt, a, b
  <1> HIDE DEF c
  <1>6. Len(a) + Len(b) = Len(s) - 1 /\ Len(a) \in Nat
    BY <1>0, <1>1, <1>2
  <1>4. ASSUME NEW j \in 1 .. Len(s) - 1
        PROVE  c[j] = IF j < i THEN s[j] ELSE s[j + 1]
    <2>1. CASE j < i
      <3>1. c[j] = a[j]
        BY <1>0, <1>1, <1>3, <1>6, <2>1
      <3> QED
        BY <1>0, <1>1, <3>1, <2>1
    <2>2. CASE ~(j < i)
      <3>0. j \in 1 .. Len(a) + Len(b) /\ ~(j <= Len(a))
        BY <1>0, <1>1, <1>6, <2>2
      <3>1. c[j] = b[j - Len(a)]
        BY <1>3, <3>0
      <3>2. j - Len(a) \in 1 .. Len(s) - i /\ i + (j - Len(a)) = j + 1
        BY <1>0, <1>1, <2>2
      <3>3. b[j - Len(a)] = s[i + (j - Len(a))]
        BY <1>2, <3>2
      <3> QED
        BY <3>1, <3>2, <3>3, <2>2
    <2> QED
      BY <2>1, <2>2
  <1> QED
    BY <1>3, <1>4, <1>5, <1>6

----------------------------------------------------------------------------
(* Paths *)

\* A wide link leads to its other end.
LEMMA LinkReaches ==
    ASSUME NEW n, NEW f \in Node, NEW x, NEW size, {n, f} \in Wide(size), f # x
    PROVE  Reaches(n, x, size, f)
  BY DEF Reaches

\* ... and to all that the relay there leads to.
LEMMA RelayReaches ==
    ASSUME NEW n, NEW f \in Node \cap mesh.relays, NEW x, NEW y, NEW size, NEW d,
           {n, f} \in Wide(size), f # x, Reaches(f, y, size, d)
    PROVE  Reaches(n, x, size, d)
  <1> SUFFICES ASSUME NEW S \in SUBSET (Node \ {d})
               PROVE  \E m \in Node \ S :
                         \/ m # x /\ {n, m} \in Wide(size)
                         \/ \E j \in S \cap mesh.relays : {j, m} \in Wide(size)
    BY DEF Reaches
  <1>1. CASE f \notin S
    BY <1>1
  <1>2. CASE f \in S
    <2>1. PICK m \in Node \ S : \/ m # y /\ {f, m} \in Wide(size)
                                \/ \E j \in S \cap mesh.relays : {j, m} \in Wide(size)
      BY DEF Reaches
    <2> QED
      BY <1>2, <2>1
  <1> QED
    BY <1>1, <1>2

\* A path for large frames is one for small frames, and stays one as links
\* come up.
LEMMA ReachesMore ==
    ASSUME MeshOK, NEW n, NEW x, NEW large \in Nat, NEW small \in Nat, NEW d,
           small <= large, Reaches(n, x, large, d), mesh' = mesh, up \subseteq up'
    PROVE  Reaches(n, x, small, d) /\ Reaches(n, x, small, d)'
  <1>1. Wide(large) \subseteq Wide(small) /\ Wide(small) \subseteq Wide(small)'
    BY MeshFacts DEF Wide, MeshOK
  <1> QED
    BY <1>1 DEF Reaches, Node

\* What came over a wide link from f may be sent on by a relay to m.
LEMMA LeadsOn ==
    ASSUME MeshOK, NEW n, NEW f, NEW m, NEW large \in Nat, NEW small \in Nat, NEW d,
           Leads(f, n, large, d), small <= large, {n, f} \in up, small <= mesh.cap[{n, f}],
           f # m, n \in mesh.relays
    PROVE  Leads(n, m, small, d)
  <1>1. {n, f} \in Wide(small) /\ f \in Node
    BY MeshFacts DEF Wide
  <1>2. CASE d = f
    BY <1>1, <1>2, LinkReaches DEF Leads
  <1>3. CASE f \in mesh.relays /\ Reaches(f, n, large, d)
    <2>1. Reaches(f, n, small, d)
      <3>1. Wide(large) \subseteq Wide(small)
        BY MeshFacts DEF Wide, MeshOK
      <3> QED
        BY <3>1, <1>3 DEF Reaches
    <2> QED
      BY <1>1, <1>3, <2>1, RelayReaches DEF Leads
  <1> QED
    BY <1>2, <1>3 DEF Leads

\* While no link breaks, what led somewhere still does.
LEMMA LeadsStays ==
    ASSUME MeshOK, NEW f, NEW t, NEW size \in Nat, NEW d, Leads(f, t, size, d),
           mesh' = mesh, up \subseteq up'
    PROVE  Leads(f, t, size, d)'
  BY ReachesMore DEF Leads

----------------------------------------------------------------------------
(* Reverse paths *)

\* The entries of t are entries of s.
Drawn(t, s) == \A i \in DOMAIN t : \E j \in DOMAIN s : t[i] = s[j]

\* Entries may be rewritten under their ids.
LEMMA RewrittenPaths ==
    ASSUME NEW n, NEW s, PathsOK(n, s), NEW t, DOMAIN t = DOMAIN s, t \in [DOMAIN s -> Entry],
           \A i \in DOMAIN s : PathOK(n, t[i]) /\ t[i].id = s[i].id
    PROVE  PathsOK(n, t)
  <1>1. s \in Seq(Entry) /\ Len(s) \in Nat /\ DOMAIN s = 1 .. Len(s)
    BY LenProperties DEF PathsOK
  <1>2. t \in [1 .. Len(s) -> Entry]
    BY <1>1
  <1>3. t \in Seq(Entry) /\ Len(t) = Len(s)
    BY <1>1, <1>2
  <1> QED
    BY <1>1, <1>3 DEF PathsOK

LEMMA TailPaths ==
    ASSUME MeshOK, NEW n, NEW s, PathsOK(n, s), s # <<>>
    PROVE  /\ PathsOK(n, Tail(s)) /\ Len(Tail(s)) = Len(s) - 1
           /\ Drawn(Tail(s), s)
  <1> DEFINE t == Tail(s)
  <1>1. /\ s \in Seq(Entry) /\ Len(s) \in Nat /\ DOMAIN s = 1 .. Len(s)
        /\ t \in Seq(Entry) /\ Len(t) = Len(s) - 1
        /\ \A i \in 1 .. Len(t) : t[i] = s[i + 1]
    BY LenProperties, HeadTailProperties DEF PathsOK
  <1>2. DOMAIN t = 1 .. Len(t) /\ Len(t) \in Nat
    BY <1>1, LenProperties
  <1> HIDE DEF t
  <1>3. \A i \in DOMAIN t : i + 1 \in DOMAIN s /\ t[i] = s[i + 1]
    BY <1>1, <1>2
  <1>4. \A i \in DOMAIN t : PathOK(n, t[i])
    BY <1>3 DEF PathsOK
  <1>5. \A i, j \in DOMAIN t : t[i].id = t[j].id => i = j
    <2> SUFFICES ASSUME NEW i \in DOMAIN t, NEW j \in DOMAIN t, t[i].id = t[j].id
                 PROVE  i = j
      OBVIOUS
    <2>1. i + 1 = j + 1
      BY <1>3 DEF PathsOK
    <2> QED
      BY <1>2, <2>1
  <1>6. Len(t) <= mesh.maxReverse
    BY <1>1, <1>2, MeshFacts DEF PathsOK
  <1> QED
    BY <1>1, <1>3, <1>4, <1>5, <1>6 DEF PathsOK, Drawn, t

\* reserveLookupReversePath leaves room for one entry.
LEMMA ReservedPaths ==
    ASSUME MeshOK, NEW n, NEW s, PathsOK(n, s)
    PROVE  /\ PathsOK(n, Reserved(s)) /\ Len(Reserved(s)) < mesh.maxReverse
           /\ Drawn(Reserved(s), s)
  <1>1. s \in Seq(Entry) /\ Len(s) \in Nat /\ Len(s) <= mesh.maxReverse
    BY LenProperties DEF PathsOK
  <1>2. CASE Len(s) < mesh.maxReverse
    BY <1>2 DEF Reserved, Drawn
  <1>3. CASE ~(Len(s) < mesh.maxReverse)
    <2>1. s # <<>> /\ Len(s) = mesh.maxReverse /\ Reserved(s) = Tail(s)
      BY <1>1, <1>3, MeshFacts, EmptySeq DEF Reserved
    <2> QED
      BY <1>1, <2>1, TailPaths
  <1> QED
    BY <1>2, <1>3

LEMMA RemovedPaths ==
    ASSUME MeshOK, NEW n, NEW s, PathsOK(n, s), NEW k \in DOMAIN s
    PROVE  PathsOK(n, RemoveAt(s, k))
  <1> DEFINE t == RemoveAt(s, k)
  <1>0. s \in Seq(Entry)
    BY DEF PathsOK
  <1>1. s \in Seq(Entry) /\ Len(s) \in Nat /\ DOMAIN s = 1 .. Len(s) /\ k \in 1 .. Len(s)
    BY <1>0, LenProperties, SMTT(30)
  <1>2. /\ t \in Seq(Entry) /\ Len(t) = Len(s) - 1
        /\ \A i \in 1 .. Len(s) - 1 : t[i] = IF i < k THEN s[i] ELSE s[i + 1]
    BY <1>1, RemoveAtFacts
  <1>3. DOMAIN t = 1 .. Len(t)
    BY <1>2, LenProperties
  <1> HIDE DEF t
  <1>4. ASSUME NEW i \in DOMAIN t
        PROVE  \/ i < k /\ i \in DOMAIN s /\ t[i] = s[i]
               \/ ~(i < k) /\ i + 1 \in DOMAIN s /\ t[i] = s[i + 1]
    <2>1. i \in 1 .. Len(s) - 1
      BY <1>2, <1>3
    <2>2. t[i] = IF i < k THEN s[i] ELSE s[i + 1]
      BY <1>2, <2>1
    <2>3. i \in DOMAIN s /\ i + 1 \in DOMAIN s
      BY <1>1, <2>1
    <2> QED
      BY <2>2, <2>3
  <1>5. \A i \in DOMAIN t : PathOK(n, t[i])
    BY <1>4 DEF PathsOK
  <1>6. ASSUME NEW i \in DOMAIN t, NEW j \in DOMAIN t, t[i].id = t[j].id
        PROVE  i = j
    <2>1. i \in Int /\ j \in Int /\ k \in Int
      BY <1>1, <1>2, <1>3
    <2>2. \A x, y \in DOMAIN s : s[x].id = s[y].id => x = y
      BY DEF PathsOK
    <2> QED
      BY <1>4, <1>6, <2>1, <2>2
  <1>7. Len(t) <= mesh.maxReverse
    BY <1>1, <1>2, MeshFacts DEF PathsOK
  <1> QED
    BY <1>2, <1>5, <1>6, <1>7 DEF PathsOK, t

\* A path of a new id goes to the end.
LEMMA AppendedPaths ==
    ASSUME MeshOK, NEW n, NEW s, PathsOK(n, s), Len(s) < mesh.maxReverse,
           NEW e, PathOK(n, e), \A i \in DOMAIN s : s[i].id # e.id
    PROVE  PathsOK(n, Append(s, e))
  <1> DEFINE t == Append(s, e)
  <1>1. s \in Seq(Entry) /\ Len(s) \in Nat /\ DOMAIN s = 1 .. Len(s) /\ e \in Entry
    BY LenProperties DEF PathsOK, PathOK
  <1>2. /\ t \in Seq(Entry) /\ Len(t) = Len(s) + 1
        /\ \A i \in 1 .. Len(s) : t[i] = s[i]
        /\ t[Len(s) + 1] = e
    BY <1>1, AppendProperties
  <1>3. DOMAIN t = 1 .. Len(s) + 1
    BY <1>2, LenProperties
  <1> HIDE DEF t
  <1>4. ASSUME NEW i \in DOMAIN t
        PROVE  \/ i \in DOMAIN s /\ t[i] = s[i]
               \/ i = Len(s) + 1 /\ t[i] = e
    BY <1>1, <1>2, <1>3
  <1>5. \A i \in DOMAIN t : PathOK(n, t[i])
    BY <1>4 DEF PathsOK
  <1>6. ASSUME NEW i \in DOMAIN t, NEW j \in DOMAIN t, t[i].id = t[j].id
        PROVE  i = j
    <2>1. \A x, y \in DOMAIN s : s[x].id = s[y].id => x = y
      BY DEF PathsOK
    <2> QED
      BY <1>4, <1>6, <2>1
  <1>7. Len(t) <= mesh.maxReverse
    BY <1>1, <1>2, MeshFacts
  <1> QED
    BY <1>2, <1>5, <1>6, <1>7 DEF PathsOK, t

----------------------------------------------------------------------------
(* Parts of a step *)

\* The tables of a step that replaces reverse paths.
LEMMA ReverseStep ==
    ASSUME mesh' = mesh, DOMAIN reverse' = Node, \A n \in Node : PathsOK(n, reverse'[n])
    PROVE  ReverseOK'
  <1>1. Entry' = Entry /\ Node' = Node
    BY DEF Entry, Id, Node
  <1> QED
    BY <1>1 DEF ReverseOK, PathsOK, PathOK

\* Frames are delivered, lost and sent.
LEMMA NetStep ==
    ASSUME NetOK, mesh' = mesh, up \subseteq up', \A msg \in net' \ net : FrameOK(msg)
    PROVE  NetOK'
  <1>1. ASSUME NEW msg, FrameOK(msg)
        PROVE  FrameOK(msg)'
    BY <1>1 DEF FrameOK, Requests, Responses, Datagrams, Id, Node
  <1> QED
    BY <1>1 DEF NetOK

\* The kinds of frames.
LEMMA KindFacts ==
    ASSUME NEW msg, FrameOK(msg)
    PROVE  /\ msg.from \in Node /\ msg.to \in Node
           /\ msg.kind = "request" => msg \in Requests
           /\ msg.kind = "response" => msg \in Responses
           /\ msg.kind = "datagram" => msg \in Datagrams
  BY DEF FrameOK, Requests, Responses, Datagrams

LEMMA ResponseMtu ==
    ASSUME NEW msg, FrameOK(msg), msg.kind = "response"
    PROVE  msg.mtu \in Nat
  <1>1. msg \in Responses
    BY KindFacts
  <1> QED
    BY <1>1 DEF Responses

LEMMA FramesStep ==
    ASSUME MeshOK, NetOK, FramesLead, mesh' = mesh, up \subseteq up',
           \A msg \in net' \ net : FrameOK(msg) /\ FrameLeads(msg)
    PROVE  FramesLead'
  <1>1. ASSUME NEW msg, FrameOK(msg), FrameLeads(msg)
        PROVE  FrameLeads(msg)'
    <2>1. CASE msg.kind = "response"
      <3>1. msg.mtu \in Nat
        BY <1>1, <2>1, ResponseMtu
      <3> QED
        BY <1>1, <2>1, <3>1, LeadsStays DEF FrameLeads
    <2>2. CASE msg.kind = "datagram"
      BY <1>1, <2>2, LeadsStays DEF FrameLeads
    <2> QED
      BY <2>1, <2>2 DEF FrameLeads
  <1> QED
    BY <1>1 DEF FramesLead, NetOK

LEMMA CameStays ==
    ASSUME MeshOK, NEW n, NEW prev, NEW d, Came(n, prev, d), mesh' = mesh, up \subseteq up'
    PROVE  Came(n, prev, d)'
  BY LeadsStays DEF Came

LEMMA RouteStays ==
    ASSUME MeshOK, NEW n, NEW r, RouteOK(n, r), RouteHolds(n, r), mesh' = mesh, up \subseteq up'
    PROVE  RouteHolds(n, r)'
  <1>1. r.mtu \in Nat
    BY DEF RouteOK
  <1> QED
    BY <1>1, ReachesMore DEF RouteHolds

----------------------------------------------------------------------------
(* Lookups begin *)

\* The frame of a request to a peer.
LEMMA RequestSent ==
    ASSUME NEW n \in Node, NEW m \in Peers(n), NEW id \in Id, NEW origin \in Node,
           NEW ttl \in Int, NEW mtu \in Nat
    PROVE  /\ FrameOK(Request(n, m, id, id.target, origin, ttl, mtu))
           /\ FrameLeads(Request(n, m, id, id.target, origin, ttl, mtu))
  <1> DEFINE msg == Request(n, m, id, id.target, origin, ttl, mtu)
  <1>1. /\ msg.kind = "request" /\ msg.from = n /\ msg.to = m /\ msg.id = id
        /\ msg.target = id.target
    BY DEF Request
  <1>2. m \in Node /\ {n, m} \in up /\ id.target \in Node
    BY DEF Peers, Id
  <1>3. msg \in Requests
    BY <1>2 DEF Request, Requests
  <1> HIDE DEF msg
  <1>4. FrameOK(msg) /\ FrameLeads(msg)
    BY <1>1, <1>2, <1>3 DEF FrameOK, FrameLeads
  <1> QED
    BY <1>4 DEF msg

LEMMA AttemptSent ==
    ASSUME MeshOK, NEW n \in Node, NEW p \in Lookups, NEW try \in Nat
    PROVE  \A msg \in AttemptFrames(n, p, try) : FrameOK(msg) /\ FrameLeads(msg)
  <1> SUFFICES ASSUME NEW m \in originLookupPeers(n, p.excluded, p.minMtu)
               PROVE  LET msg == Request(n, m, Attempt(n, p, try), p.target, n, OriginTtl, p.minMtu)
                      IN  FrameOK(msg) /\ FrameLeads(msg)
    BY DEF AttemptFrames
  <1>1. Attempt(n, p, try) \in Id /\ Attempt(n, p, try).target = p.target
    BY DEF Attempt, Id, Lookups
  <1>2. m \in Peers(n) /\ p.minMtu \in Nat /\ OriginTtl \in Int
    BY LookupForwardingAssumption DEF originLookupPeers, Lookups
  <1> QED
    BY <1>1, <1>2, RequestSent

LEMMA LookupMade ==
    ASSUME PendingOK, NEW n, NEW t \in Node, NEW x \in Node \cup {Nobody}, NEW mtu \in Nat
    PROVE  Lookup(n, t, x, mtu) \in Lookups /\ Lookup(n, t, x, mtu).target = t
  BY DEF PendingOK, Lookup, Lookups

LEMMA LookupStarts ==
    ASSUME PendingOK, mesh' = mesh, NEW n \in Node, NEW p \in Lookups, StartLookup(n, p)
    PROVE  PendingOK' /\ spent'.broken = spent.broken
  <1>1. spent' = [spent EXCEPT !.lookups = @ + 1]
    BY DEF StartLookup
  <1>2. /\ DOMAIN spent' = {"losses", "expiries", "lookups", "broken", "evicted"}
        /\ spent'.lookups = spent.lookups + 1 /\ spent'.broken = spent.broken
    BY <1>1 DEF PendingOK
  <1>3. pending' = [pending EXCEPT ![n] = [t \in DOMAIN pending[n] \cup {p.target} |->
                                              IF t = p.target THEN p ELSE pending[n][t]]]
    BY DEF StartLookup
  <1>4. DOMAIN pending' = Node /\ p.target \in Node
    BY <1>3 DEF PendingOK, Lookups
  <1>5. ASSUME NEW x \in Node
        PROVE  /\ DOMAIN pending'[x] \subseteq Node
               /\ \A t \in DOMAIN pending'[x] :
                     pending'[x][t] \in Lookups /\ pending'[x][t].target = t
    <2>1. CASE x = n
      BY <1>3, <1>4, <2>1 DEF PendingOK
    <2>2. CASE x # n
      <3>1. pending'[x] = pending[x]
        BY <1>3, <2>2 DEF PendingOK
      <3> QED
        BY <3>1 DEF PendingOK
    <2> QED
      BY <2>1, <2>2
  <1>6. Lookups' = Lookups /\ Node' = Node
    BY DEF Lookups, Node, Nobody
  <1> QED
    BY <1>2, <1>4, <1>5, <1>6 DEF PendingOK

----------------------------------------------------------------------------
(* What becomes of a datagram *)

\* What every outcome of sendSessionDatagram keeps.
Handled ==
    /\ NetOK' /\ PendingOK' /\ WaitingOK'
    /\ spent'.broken = spent.broken
    /\ spent.broken = {} => FramesLead' /\ WaitersCame'

\* The datagram d at n may have come from prev.
At(n, prev, d) ==
    /\ n \in Node /\ d \in mesh.datagrams /\ prev \in Node \cup {Nobody}
    /\ spent.broken = {} => Came(n, prev, d)

LEMMA NextHopsArePeers ==
    ASSUME NEW n, NEW dest, NEW x, NEW mtu, NEW m \in NextHops(n, dest, x, mtu)
    PROVE  m \in Peers(n) /\ m # x
  BY DEF NextHops, Usable

\* Waiting datagrams may leave, or wait for something else.
LEMMA WaitersStep ==
    ASSUME MeshOK, WaitingOK, mesh' = mesh, up' = up, NEW n \in Node, DOMAIN waiting' = Node,
           \A x \in Node \ {n} : waiting'[x] = waiting[x],
           \A w \in waiting'[n] \ waiting[n] :
               w \in Waiter /\ (spent.broken = {} => Came(n, w.prev, w.data))
    PROVE  WaitingOK' /\ (spent.broken = {} /\ WaitersCame => WaitersCame')
  <1>1. Waiter' = Waiter /\ Node' = Node
    BY DEF Waiter, Node, Nobody
  <1>2. WaitingOK'
    BY <1>1 DEF WaitingOK
  <1>3. ASSUME spent.broken = {}, WaitersCame, NEW x \in Node, NEW w \in waiting'[x]
        PROVE  Came(x, w.prev, w.data)'
    <2>1. Came(x, w.prev, w.data)
      BY <1>3 DEF WaitersCame
    <2> QED
      BY <2>1, CameStays
  <1> QED
    BY <1>1, <1>2, <1>3 DEF WaitersCame

LEMMA EmitHandles ==
    ASSUME Inv, mesh' = mesh, up' = up, NEW n, NEW prev, NEW d, At(n, prev, d),
           NEW m \in Peers(n), m # prev, NEW ttl \in Int, NEW msgs, NEW ws,
           Emit(n, d, m, ttl, msgs, ws)
    PROVE  Handled
  <1> DEFINE msg == Datagram(n, m, d, ttl)
  <1>0. /\ MeshOK /\ NetOK /\ PendingOK /\ WaitingOK
        /\ spent.broken = {} => FramesLead /\ WaitersCame
        /\ n \in Node /\ d \in mesh.datagrams
        /\ UNCHANGED <<pending, spent>>
    BY DEF Inv, Types, Truthful, At, Emit
  <1>1. FrameOK(msg)
    BY <1>0 DEF FrameOK, Datagram, Datagrams, Peers
  <1>2. ASSUME spent.broken = {}
        PROVE  FrameLeads(msg)
    <2>1. Leads(n, m, 0, d.src)
      <3>1. CASE d.src = n
        BY <3>1 DEF Leads
      <3>2. CASE n \in mesh.relays /\ {n, prev} \in up /\ Leads(prev, n, 0, d.src)
        <4>1. mesh.cap[{n, prev}] >= 0
          BY <1>0, <3>2, UpLinkFacts
        <4> QED
          BY <1>0, <3>2, <4>1, LeadsOn
      <3> QED
        BY <1>2, <3>1, <3>2 DEF At, Came
    <2> QED
      BY <2>1 DEF FrameLeads, Datagram
  <1>3. \A x \in net' \ net : x = msg
    BY DEF Emit
  <1> HIDE DEF msg
  <1>4. NetOK'
    BY <1>0, <1>1, <1>3, NetStep
  <1>5. spent.broken = {} => FramesLead'
    BY <1>0, <1>1, <1>2, <1>3, FramesStep
  <1>6. PendingOK'
    BY <1>0 DEF PendingOK, Lookups, Node, Nobody
  <1>7. /\ DOMAIN waiting' = Node /\ waiting'[n] \ waiting[n] = {}
        /\ \A x \in Node \ {n} : waiting'[x] = waiting[x]
    BY <1>0 DEF Emit, WaitingOK
  <1>8. WaitingOK' /\ (spent.broken = {} => WaitersCame')
    BY <1>0, <1>7, WaitersStep
  <1> QED
    BY <1>0, <1>4, <1>5, <1>6, <1>8 DEF Handled

LEMMA GiveUpHandles ==
    ASSUME Inv, mesh' = mesh, up' = up, NEW n \in Node, NEW prev, NEW d, NEW why,
           NEW msgs, NEW ws, GiveUp(n, d, prev, why, msgs, ws)
    PROVE  Handled
  <1>0. /\ MeshOK /\ NetOK /\ PendingOK /\ WaitingOK
        /\ spent.broken = {} => FramesLead /\ WaitersCame
        /\ UNCHANGED <<pending, spent>>
    BY DEF Inv, Types, Truthful, GiveUp
  <1>3. net' \ net = {}
    BY DEF GiveUp
  <1>4. NetOK'
    BY <1>0, <1>3, NetStep
  <1>5. spent.broken = {} => FramesLead'
    BY <1>0, <1>3, FramesStep
  <1>6. PendingOK'
    BY <1>0 DEF PendingOK, Lookups, Node, Nobody
  <1>7. /\ DOMAIN waiting' = Node /\ waiting'[n] \ waiting[n] = {}
        /\ \A x \in Node \ {n} : waiting'[x] = waiting[x]
    BY <1>0 DEF GiveUp, WaitingOK
  <1>8. WaitingOK' /\ (spent.broken = {} => WaitersCame')
    BY <1>0, <1>7, WaitersStep
  <1> QED
    BY <1>0, <1>4, <1>5, <1>6, <1>8 DEF Handled

LEMMA RefreshHandles ==
    ASSUME Inv, mesh' = mesh, up' = up, NEW n, NEW prev, NEW d, At(n, prev, d),
           NEW ttl \in Int, NEW mtu \in Nat, NEW msgs, NEW ws,
           Refresh(n, d, prev, ttl, mtu, msgs, ws)
    PROVE  Handled
  <1> DEFINE p == Lookup(n, d.dst, prev, mtu)
             w == [data |-> d, prev |-> prev, ttl |-> ttl, need |-> mtu,
                   resumed |-> FALSE, via |-> Nobody, verified |-> 0]
             joins == d.dst \in DOMAIN pending[n]
             frames == IF joins THEN {} ELSE AttemptFrames(n, p, 1)
  <1>0. /\ MeshOK /\ NetOK /\ PendingOK /\ WaitingOK
        /\ spent.broken = {} => FramesLead /\ WaitersCame
        /\ n \in Node /\ d \in mesh.datagrams /\ prev \in Node \cup {Nobody}
    BY DEF Inv, Types, Truthful, At
  <1>1. CASE GiveUp(n, d, prev, "no way", msgs, ws)
    BY <1>0, <1>1, GiveUpHandles
  <1>2. CASE /\ waiting' = [waiting EXCEPT ![n] = (@ \ ws) \cup {w}]
             /\ net' = (net \ msgs) \cup frames
             /\ IF joins THEN UNCHANGED <<pending, spent>> ELSE StartLookup(n, p)
    <2>1. p \in Lookups
      BY <1>0, MeshFacts, LookupMade
    <2> HIDE DEF p
    <2>2. \A msg \in frames : FrameOK(msg) /\ FrameLeads(msg)
      BY <1>0, <2>1, AttemptSent
    <2>3. net' \ net \subseteq frames
      BY <1>2
    <2>4. PendingOK' /\ spent'.broken = spent.broken
      <3>1. CASE joins
        BY <1>0, <1>2, <3>1 DEF PendingOK, Lookups, Node, Nobody
      <3>2. CASE ~joins
        BY <1>0, <1>2, <2>1, <3>2, LookupStarts
      <3> QED
        BY <3>1, <3>2
    <2> HIDE DEF frames, joins
    <2>5. NetOK'
      BY <1>0, <2>2, <2>3, NetStep
    <2>6. spent.broken = {} => FramesLead'
      BY <1>0, <2>2, <2>3, FramesStep
    <2>7. w \in Waiter /\ w.prev = prev /\ w.data = d
      BY <1>0 DEF Waiter
    <2> HIDE DEF w
    <2>8. /\ DOMAIN waiting' = Node /\ \A x \in waiting'[n] \ waiting[n] : x = w
          /\ \A x \in Node \ {n} : waiting'[x] = waiting[x]
      BY <1>0, <1>2 DEF WaitingOK
    <2>9. WaitingOK' /\ (spent.broken = {} => WaitersCame')
      BY <1>0, <2>7, <2>8, WaitersStep DEF At
    <2> QED
      BY <2>4, <2>5, <2>6, <2>9 DEF Handled
  <1> QED
    BY <1>1, <1>2 DEF Refresh

LEMMA FitHandles ==
    ASSUME Inv, mesh' = mesh, up' = up, NEW n, NEW prev, NEW d, At(n, prev, d),
           NEW m \in Peers(n), m # prev, NEW ttl \in Int, NEW msgs, NEW ws,
           Fit(n, d, prev, ttl, m, msgs, ws)
    PROVE  Handled
  <1>1. CASE Emit(n, d, m, ttl, msgs, ws)
    BY <1>1, EmitHandles
  <1>2. ASSUME NEW h \in NextHops(n, d.dst, prev, d.size), Emit(n, d, h, ttl, msgs, ws)
        PROVE  Handled
    BY <1>2, NextHopsArePeers, EmitHandles
  <1>3. CASE Refresh(n, d, prev, ttl, d.size, msgs, ws)
    <2>1. d.size \in Nat
      BY MeshFacts DEF At, Inv, Types
    <2> QED
      BY <1>3, <2>1, RefreshHandles
  <1> QED
    BY <1>1, <1>2, <1>3 DEF Fit

----------------------------------------------------------------------------
(* Tables a step leaves alone, and routes it learns *)

LEMMA SameReverse ==
    ASSUME ReverseOK, mesh' = mesh, reverse' = reverse
    PROVE  ReverseOK'
  BY ReverseStep DEF ReverseOK

LEMMA SamePending ==
    ASSUME PendingOK, mesh' = mesh, pending' = pending, DOMAIN spent' = DOMAIN spent,
           spent'.lookups = spent.lookups
    PROVE  PendingOK'
  <1>1. Lookups' = Lookups /\ Node' = Node
    BY DEF Lookups, Node, Nobody
  <1> QED
    BY <1>1 DEF PendingOK

LEMMA SameWaiting ==
    ASSUME MeshOK, WaitingOK, mesh' = mesh, up \subseteq up', waiting' = waiting
    PROVE  WaitingOK' /\ (WaitersCame => WaitersCame')
  <1>1. WaitingOK' /\ Node' = Node
    BY DEF WaitingOK, Waiter, Node, Nobody
  <1> QED
    BY <1>1, CameStays DEF WaitersCame

LEMMA LearnedStep ==
    ASSUME MeshOK, LearnedOK, mesh' = mesh, up \subseteq up', DOMAIN learned' = Node,
           \A n \in Node : \A r \in learned'[n] \ learned[n] :
               RouteOK(n, r) /\ (spent.broken = {} => RouteHolds(n, r))
    PROVE  LearnedOK' /\ (spent.broken = {} /\ RoutesHold => RoutesHold')
  <1>1. \A n \in Node : \A r \in learned'[n] :
           RouteOK(n, r) /\ (spent.broken = {} /\ RoutesHold => RouteHolds(n, r))
    BY DEF LearnedOK, RoutesHold
  <1>2. Node' = Node /\ \A n, r : RouteOK(n, r) => RouteOK(n, r)'
    BY DEF RouteOK, Node
  <1>3. LearnedOK'
    BY <1>1, <1>2 DEF LearnedOK
  <1> QED
    BY <1>1, <1>2, <1>3, RouteStays DEF RoutesHold

LEMMA SameLearned ==
    ASSUME MeshOK, LearnedOK, mesh' = mesh, up \subseteq up', learned' = learned
    PROVE  LearnedOK' /\ (spent.broken = {} /\ RoutesHold => RoutesHold')
  BY LearnedStep DEF LearnedOK

LEMMA SameMesh ==
    ASSUME MeshOK, mesh' = mesh, up' = up
    PROVE  MeshOK'
  BY DEF MeshOK

\* A route over the link a response or a datagram came by.
LEMMA RouteLearned ==
    ASSUME MeshOK, LearnedOK, mesh' = mesh, up' = up, NEW n \in Node, NEW dest \in Node,
           NEW hop, {n, hop} \in up, NEW mtu \in Nat, mtu <= mesh.cap[{n, hop}],
           spent.broken = {} => Leads(hop, n, mtu, dest),
           learned' = [learned EXCEPT ![n] = Learn(n, dest, hop, mtu)]
    PROVE  LearnedOK' /\ (spent.broken = {} /\ RoutesHold => RoutesHold')
  <1> DEFINE r == [dest |-> dest, hop |-> hop, mtu |-> mtu]
  <1>1. /\ DOMAIN learned' = Node
        /\ \A x \in Node \ {n} : learned'[x] = learned[x]
        /\ learned'[n] = Learn(n, dest, hop, mtu)
    BY DEF LearnedOK
  <1>2. CASE dest \in {hop, n}
    <2>1. \A x \in Node : learned'[x] \ learned[x] = {}
      BY <1>1, <1>2 DEF Learn
    <2> QED
      BY <1>1, <2>1, LearnedStep
  <1>3. CASE dest \notin {hop, n}
    <2>1. \A q \in learned'[n] \ learned[n] : q = r
      BY <1>1, <1>3 DEF Learn
    <2>2. RouteOK(n, r)
      BY <1>3, UpLinkFacts DEF RouteOK
    <2>3. spent.broken = {} => RouteHolds(n, r)
      BY <1>3 DEF RouteHolds, Leads
    <2> HIDE DEF r
    <2> QED
      BY <1>1, <2>1, <2>2, <2>3, LearnedStep
  <1> QED
    BY <1>2, <1>3

----------------------------------------------------------------------------
(* Lookups and their timers *)

\* The parts of Inv, and what each step that only sends requests, drops
\* frames and moves pending lookups and reverse paths keeps.
LEMMA LookupStep ==
    ASSUME Inv, UNCHANGED <<mesh, up, learned, waiting>>, PendingOK', ReverseOK',
           spent'.broken = spent.broken,
           \A msg \in net' \ net : FrameOK(msg) /\ (spent.broken = {} => FrameLeads(msg))
    PROVE  Inv'
  <1>0. MeshOK /\ NetOK /\ LearnedOK /\ WaitingOK
    BY DEF Inv, Types
  <1>1. MeshOK'
    BY <1>0, SameMesh
  <1>2. NetOK'
    BY <1>0, NetStep
  <1>3. LearnedOK' /\ (spent.broken = {} /\ RoutesHold => RoutesHold')
    BY <1>0, SameLearned
  <1>4. WaitingOK' /\ (WaitersCame => WaitersCame')
    BY <1>0, SameWaiting
  <1>5. spent.broken = {} /\ FramesLead => FramesLead'
    BY <1>0, FramesStep
  <1> QED
    BY <1>1, <1>2, <1>3, <1>4, <1>5 DEF Inv, Types, Truthful

LEMMA AskKeeps ==
    ASSUME Inv, NEW a, Ask(a)
    PROVE  Inv'
  <1> DEFINE p == Lookup(a.origin, a.target, Nobody, 0)
  <1>0. MeshOK /\ PendingOK /\ ReverseOK
    BY DEF Inv, Types
  <1>1. /\ UNCHANGED <<mesh, up, learned, waiting, reverse>>
        /\ a \in mesh.asks /\ StartLookup(a.origin, p)
        /\ net' = net \cup AttemptFrames(a.origin, p, 1)
    BY DEF Ask
  <1>2. a.origin \in Node /\ a.target \in Node
    BY <1>0, <1>1, MeshFacts
  <1>3. p \in Lookups
    BY <1>0, <1>2, LookupMade
  <1> HIDE DEF p
  <1>4. PendingOK' /\ spent'.broken = spent.broken
    BY <1>0, <1>1, <1>2, <1>3, LookupStarts
  <1>5. ReverseOK'
    BY <1>0, <1>1, SameReverse
  <1>6. \A msg \in net' \ net : FrameOK(msg) /\ FrameLeads(msg)
    BY <1>0, <1>1, <1>2, <1>3, AttemptSent
  <1> QED
    BY <1>1, <1>4, <1>5, <1>6, LookupStep

LEMMA RetryKeeps ==
    ASSUME Inv, NEW n \in Node, NEW t, Retry(n, t)
    PROVE  Inv'
  <1> DEFINE p == pending[n][t]
  <1>0. MeshOK /\ PendingOK /\ ReverseOK
    BY DEF Inv, Types
  <1>1. /\ UNCHANGED <<mesh, up, learned, waiting, reverse, spent>>
        /\ t \in DOMAIN pending[n]
        /\ pending' = [pending EXCEPT ![n] = [pending[n] EXCEPT ![t] = [p EXCEPT !.tries = @ + 1]]]
        /\ net' = net \cup AttemptFrames(n, p, p.tries + 1)
    BY DEF Retry
  <1>2. p \in Lookups /\ p.target = t /\ p.tries + 1 \in Nat
    BY <1>0, <1>1 DEF PendingOK, Lookups
  <1>3. [p EXCEPT !.tries = @ + 1] \in Lookups /\ [p EXCEPT !.tries = @ + 1].target = t
    BY <1>2 DEF Lookups
  <1> HIDE DEF p
  <1>4. PendingOK'
    <2>1. DOMAIN pending' = Node /\ \A x \in Node : DOMAIN pending'[x] = DOMAIN pending[x]
      BY <1>0, <1>1 DEF PendingOK
    <2>2. ASSUME NEW x \in Node, NEW y \in DOMAIN pending[x]
          PROVE  pending'[x][y] \in Lookups /\ pending'[x][y].target = y
      <3>1. CASE x = n /\ y = t
        BY <1>0, <1>1, <1>3, <3>1 DEF PendingOK
      <3>2. CASE ~(x = n /\ y = t)
        <4>1. pending'[x][y] = pending[x][y]
          BY <1>0, <1>1, <3>2 DEF PendingOK
        <4> QED
          BY <1>0, <4>1 DEF PendingOK
      <3> QED
        BY <3>1, <3>2
    <2>3. Lookups' = Lookups /\ Node' = Node
      BY <1>1 DEF Lookups, Node, Nobody
    <2> QED
      BY <1>0, <1>1, <2>1, <2>2, <2>3 DEF PendingOK
  <1>5. ReverseOK'
    BY <1>0, <1>1, SameReverse
  <1>6. \A msg \in net' \ net : FrameOK(msg) /\ FrameLeads(msg)
    BY <1>0, <1>1, <1>2, AttemptSent
  <1> QED
    BY <1>1, <1>4, <1>5, <1>6, LookupStep

\* A lookup ends.
LEMMA LookupEnds ==
    ASSUME PendingOK, mesh' = mesh, spent' = spent, NEW n \in Node, NEW t,
           pending' = [pending EXCEPT ![n] = Without(pending[n], t)]
    PROVE  PendingOK'
  <1>1. DOMAIN pending' = Node /\ \A x \in Node : DOMAIN pending'[x] \subseteq DOMAIN pending[x]
    BY DEF PendingOK, Without
  <1>2. \A x \in Node : \A y \in DOMAIN pending'[x] : pending'[x][y] = pending[x][y]
    BY DEF PendingOK, Without
  <1>3. Lookups' = Lookups /\ Node' = Node
    BY DEF Lookups, Node, Nobody
  <1> QED
    BY <1>1, <1>2, <1>3 DEF PendingOK

LEMMA DeadlineKeeps ==
    ASSUME Inv, NEW n \in Node, NEW t, Deadline(n, t)
    PROVE  Inv'
  <1>0. MeshOK /\ NetOK /\ PendingOK /\ ReverseOK /\ LearnedOK /\ WaitingOK
    BY DEF Inv, Types
  <1>1. /\ UNCHANGED <<mesh, up, net, reverse, learned, spent>>
        /\ pending' = [pending EXCEPT ![n] = Without(pending[n], t)]
        /\ waiting' = [waiting EXCEPT ![n] = @ \ {w \in waiting[n] : w.data.dst = t /\ ~w.resumed}]
    BY DEF Deadline
  <1>2. PendingOK'
    BY <1>0, <1>1, LookupEnds
  <1>3. MeshOK' /\ ReverseOK' /\ LearnedOK' /\ NetOK'
    BY <1>0, <1>1, SameMesh, SameReverse, SameLearned, NetStep
  <1>4. spent.broken = {} /\ RoutesHold => RoutesHold'
    BY <1>0, <1>1, SameLearned
  <1>5. spent.broken = {} /\ FramesLead => FramesLead'
    BY <1>0, <1>1, FramesStep
  <1>6. /\ DOMAIN waiting' = Node /\ waiting'[n] \ waiting[n] = {}
        /\ \A x \in Node \ {n} : waiting'[x] = waiting[x]
    BY <1>0, <1>1 DEF WaitingOK
  <1>7. WaitingOK' /\ (spent.broken = {} /\ WaitersCame => WaitersCame')
    BY <1>0, <1>1, <1>6, WaitersStep
  <1> QED
    BY <1>1, <1>2, <1>3, <1>4, <1>5, <1>7 DEF Inv, Types, Truthful

----------------------------------------------------------------------------
(* Requests *)

LEMMA DropKeeps ==
    ASSUME Inv, NEW msg, Drop(msg), UNCHANGED <<mesh, up, pending, learned, waiting>>
    PROVE  Inv'
  <1>1. PendingOK' /\ ReverseOK' /\ spent' = spent /\ net' \ net = {}
    BY SamePending, SameReverse DEF Inv, Types, Drop
  <1> QED
    BY <1>1, LookupStep

\* The reverse path of a request, known or new, before it is sent on.
LEMMA ForwardKeeps ==
    ASSUME MeshOK, NetOK, ReverseOK, UNCHANGED <<mesh, up>>, NEW n \in Node,
           NEW msg \in net, msg.kind = "request", msg.to = n,
           NEW hops, hops \subseteq Peers(n), NEW bad, Forward(n, msg, hops, bad)
    PROVE  /\ ReverseOK'
           /\ \A x \in net' \ net : FrameOK(x) /\ FrameLeads(x)
  <1> DEFINE old == Entries(n, msg)
             i == CHOOSE j \in old : TRUE
             new == [id |-> msg.id, target |-> msg.target, peer |-> msg.from, sent |-> {},
                     origin |-> msg.origin, ttl |-> msg.ttl - 1, mtu |-> msg.mtu]
             entry == IF old # {} THEN reverse[n][i] ELSE new
             after == [entry EXCEPT !.sent = @ \cup (hops \ bad)]
             s == reverse[n]
             next == IF hops # {} /\ bad = hops /\ after.sent = {}
                     THEN IF old # {} THEN RemoveAt(s, i) ELSE Reserved(s)
                     ELSE IF old # {} THEN ReplaceAt(s, i, after)
                     ELSE Append(Reserved(s), after)
  <1>1. /\ reverse' = [reverse EXCEPT ![n] = next]
        /\ net' = (net \ {msg}) \cup
               {Request(n, m, msg.id, msg.target, entry.origin, entry.ttl, entry.mtu) :
                   m \in hops \ bad}
    BY DEF Forward
  <1>2. /\ msg \in Requests /\ msg.target = msg.id.target
        /\ {n, msg.from} \in up /\ msg.from \in Node
        /\ msg.id \in Id
    <2>1. FrameOK(msg)
      BY DEF NetOK
    <2>2. msg \in Requests /\ msg.from \in Node
      BY <2>1, KindFacts
    <2> QED
      BY <2>1, <2>2 DEF FrameOK, Requests
  <1>3. PathsOK(n, s) /\ DOMAIN reverse = Node
    BY DEF ReverseOK
  <1>4. old # {} => /\ i \in DOMAIN s /\ s[i].id = msg.id
    <2>1. \A j \in old : j \in DOMAIN s /\ s[j].id = msg.id
      BY DEF Entries
    <2> QED
      BY <2>1
  <1>5. PathOK(n, new) /\ new.id = msg.id
    <2>1. {n, msg.from} \in DOMAIN mesh.cap
      BY <1>2, UpLinkFacts
    <2>2. new \in Entry
      BY <1>2 DEF Entry, Requests
    <2> QED
      BY <1>2, <2>1, <2>2 DEF PathOK
  <1>6. old = {} => \A j \in DOMAIN s : s[j].id # msg.id
    <2>1. \A j \in DOMAIN s : s[j].target = s[j].id.target
      BY <1>3 DEF PathsOK, PathOK
    <2> QED
      BY <1>2, <2>1 DEF Entries
  <1> HIDE DEF new, old, i
  <1>7. PathOK(n, entry) /\ entry.id = msg.id
    BY <1>3, <1>4, <1>5 DEF PathsOK
  <1> HIDE DEF entry
  <1>8. PathOK(n, after) /\ after.id = msg.id
    <2>1. hops \subseteq Node
      BY DEF Peers
    <2>2. after \in Entry /\ after.target = entry.target /\ after.peer = entry.peer
                          /\ after.id = entry.id
      BY <1>7, <2>1 DEF PathOK, Entry
    <2> QED
      BY <1>7, <2>2 DEF PathOK
  <1> HIDE DEF after
  <1>9. PathsOK(n, next)
    <2>1. CASE old # {}
      <3>1. PathsOK(n, RemoveAt(s, i))
        BY <1>3, <1>4, <2>1, RemovedPaths
      <3>2. PathsOK(n, ReplaceAt(s, i, after))
        <4> DEFINE t == ReplaceAt(s, i, after)
        <4>1. s \in Seq(Entry)
          BY <1>3 DEF PathsOK
        <4>2. /\ DOMAIN t = DOMAIN s
              /\ \A j \in DOMAIN s : t[j] = IF j = i THEN after ELSE s[j]
          BY <1>4, <2>1, <4>1 DEF ReplaceAt
        <4>3. \A j \in DOMAIN s : PathOK(n, t[j]) /\ t[j].id = s[j].id
          BY <1>3, <1>4, <1>8, <2>1, <4>2 DEF PathsOK
        <4>4. t \in [DOMAIN s -> Entry]
          BY <1>8, <2>1, <4>1, <4>3 DEF ReplaceAt, PathOK
        <4> HIDE DEF t
        <4>5. PathsOK(n, t)
          BY <1>3, <4>2, <4>3, <4>4, RewrittenPaths
        <4> QED
          BY <4>5 DEF t
      <3> QED
        BY <2>1, <3>1, <3>2
    <2>2. CASE old = {}
      <3>0. /\ PathsOK(n, Reserved(s)) /\ Len(Reserved(s)) < mesh.maxReverse
            /\ Drawn(Reserved(s), s)
        BY <1>3, ReservedPaths
      <3>1. \A j \in DOMAIN Reserved(s) : Reserved(s)[j].id # after.id
        BY <1>6, <1>8, <2>2, <3>0 DEF Drawn
      <3>2. PathsOK(n, Append(Reserved(s), after))
        BY <1>8, <3>0, <3>1, AppendedPaths
      <3> QED
        BY <2>2, <3>0, <3>2
    <2> QED
      BY <2>1, <2>2
  <1> HIDE DEF next
  <1>10. ReverseOK'
    <2>1. DOMAIN reverse' = Node /\ \A x \in Node : PathsOK(x, reverse'[x])
      BY <1>1, <1>3, <1>9 DEF ReverseOK
    <2> QED
      BY <2>1, ReverseStep
  <1>11. ASSUME NEW m \in hops \ bad
         PROVE  LET x == Request(n, m, msg.id, msg.target, entry.origin, entry.ttl, entry.mtu)
                IN  FrameOK(x) /\ FrameLeads(x)
    <2>1. entry.origin \in Node /\ entry.ttl \in Int /\ entry.mtu \in Nat
      BY <1>7 DEF PathOK, Entry
    <2>2. m \in Peers(n)
      BY <1>11
    <2> QED
      BY <1>2, <2>1, <2>2, RequestSent
  <1> QED
    BY <1>1, <1>10, <1>11

LEMMA RelayKeeps ==
    ASSUME Inv, UNCHANGED <<mesh, up, pending, learned, waiting>>, NEW n \in Node,
           NEW msg \in net, msg.kind = "request", msg.to = n, RelayRequest(n, msg)
    PROVE  Inv'
  <1> DEFINE old == Entries(n, msg)
             sent == UNION {reverse[n][i].sent : i \in old}
             known == NextHops(n, msg.target, msg.from, msg.mtu)
             canResolve == known = {} /\ Fallback(n, msg) = {} /\ n \in mesh.resolvers
             choices == IF known # {} THEN {{m} \ sent : m \in known}
                        ELSE {Fallback(n, msg) \ sent}
  <1>1. CASE Drop(msg)
    BY <1>1, DropKeeps
  <1>2. ASSUME NEW hops \in choices, NEW bad \in SUBSET hops,
               spent' = [spent EXCEPT !.losses = @ + Cardinality(bad),
                           !.evicted = @ \/ (old = {} /\ Reserved(reverse[n]) # reverse[n])],
               Forward(n, msg, hops, bad)
        PROVE  Inv'
    <2>1. hops \subseteq Peers(n)
      <3>1. known \subseteq Peers(n) /\ Fallback(n, msg) \subseteq Peers(n)
        BY NextHopsArePeers DEF Fallback
      <3> HIDE DEF known, sent
      <3> QED
        BY <1>2, <3>1
    <2>2. MeshOK /\ NetOK /\ ReverseOK /\ PendingOK
      BY DEF Inv, Types
    <2>3. ReverseOK' /\ \A x \in net' \ net : FrameOK(x) /\ FrameLeads(x)
      BY <1>2, <2>1, <2>2, ForwardKeeps
    <2>4. /\ DOMAIN spent' = DOMAIN spent
          /\ spent'.lookups = spent.lookups /\ spent'.broken = spent.broken
      BY <1>2, <2>2 DEF PendingOK
    <2>5. PendingOK'
      BY <2>2, <2>4, SamePending
    <2> QED
      BY <2>3, <2>4, <2>5, LookupStep
  <1> HIDE DEF choices
  <1>3. \/ Drop(msg)
        \/ \E hops \in choices : \E bad \in SUBSET hops :
              /\ spent' = [spent EXCEPT !.losses = @ + Cardinality(bad),
                             !.evicted = @ \/ (old = {} /\ Reserved(reverse[n]) # reverse[n])]
              /\ Forward(n, msg, hops, bad)
    BY DEF RelayRequest, choices
  <1> QED
    BY <1>1, <1>2, <1>3

LEMMA ReceiveRequestKeeps ==
    ASSUME Inv, NEW n \in Node, NEW msg \in net, ReceiveRequest(n, msg)
    PROVE  Inv'
  <1>0. /\ UNCHANGED <<mesh, up, pending, learned, waiting>>
        /\ msg.to = n /\ msg.kind = "request"
    BY DEF ReceiveRequest
  <1>1. CASE Drop(msg)
    BY <1>0, <1>1, DropKeeps
  <1>2. CASE RelayRequest(n, msg)
    BY <1>0, <1>2, RelayKeeps
  <1> DEFINE answer == Response(n, msg.from, msg.id, n, frameCapacity(n, msg.from))
  <1>3. CASE /\ msg.target = n
             /\ net' = (net \ {msg}) \cup {answer}
             /\ UNCHANGED <<reverse, resolving, spent>>
    <2>1. MeshOK /\ PendingOK /\ ReverseOK /\ FrameOK(msg)
      BY DEF Inv, Types, NetOK
    <2>2. msg \in Requests /\ msg.from \in Node
      BY <1>0, <2>1, KindFacts
    <2>3. /\ {n, msg.from} \in up /\ msg.id \in Id /\ msg.id.target = n
          /\ mesh.cap[{n, msg.from}] \in Nat
      <3>1. {n, msg.from} \in up /\ msg.id \in Id /\ msg.id.target = n
        BY <1>0, <1>3, <2>1, <2>2 DEF FrameOK, Requests
      <3> QED
        BY <2>1, <3>1, UpLinkFacts
    <2>4. answer \in Responses
      BY <2>2, <2>3 DEF Response, Responses, frameCapacity
    <2>5. /\ answer.kind = "response" /\ answer.from = n /\ answer.to = msg.from
          /\ answer.target = n /\ answer.id = msg.id
      BY DEF Response
    <2> HIDE DEF answer
    <2>6. FrameOK(answer) /\ FrameLeads(answer)
      BY <2>3, <2>4, <2>5 DEF FrameOK, FrameLeads, Leads
    <2>7. PendingOK' /\ ReverseOK'
      BY <1>0, <1>3, <2>1, SamePending, SameReverse
    <2> QED
      BY <1>0, <1>3, <2>6, <2>7, LookupStep
  <1> QED
    BY <1>1, <1>2, <1>3 DEF ReceiveRequest

----------------------------------------------------------------------------
(* Responses *)

\* What a response that has arrived says.
LEMMA ResponseFacts ==
    ASSUME Inv, NEW n \in Node, NEW msg \in net, msg.to = n, msg.kind = "response"
    PROVE  /\ msg.from \in Node /\ msg.target \in Node /\ msg.id \in Id
           /\ msg.target = msg.id.target
           /\ {n, msg.from} \in up /\ mesh.cap[{n, msg.from}] \in Nat
           /\ Mtu(n, msg) \in Nat /\ Mtu(n, msg) <= mesh.cap[{n, msg.from}]
           /\ spent.broken = {} => Leads(msg.from, n, Mtu(n, msg), msg.target)
  <1>0. MeshOK /\ FrameOK(msg)
    BY DEF Inv, Types, NetOK
  <1>1. msg \in Responses
    BY <1>0, KindFacts
  <1>2. /\ msg.from \in Node /\ msg.target \in Node /\ msg.id \in Id /\ msg.mtu \in Nat
        /\ msg.target = msg.id.target /\ {n, msg.from} \in up
    BY <1>0, <1>1 DEF FrameOK, Responses
  <1>3. mesh.cap[{n, msg.from}] \in Nat
    BY <1>0, <1>2, UpLinkFacts
  <1>4. Mtu(n, msg) \in Nat /\ Mtu(n, msg) <= mesh.cap[{n, msg.from}] /\ Mtu(n, msg) <= msg.mtu
    BY <1>2, <1>3, MinOfTwo DEF Mtu, frameCapacity
  <1>5. ASSUME spent.broken = {}
        PROVE  Leads(msg.from, n, Mtu(n, msg), msg.target)
    <2>1. Leads(msg.from, n, msg.mtu, msg.target)
      BY <1>5 DEF Inv, Truthful, FramesLead, FrameLeads
    <2>2. Wide(msg.mtu) \subseteq Wide(Mtu(n, msg))
      BY <1>0, <1>2, <1>4, MeshFacts DEF Wide, MeshOK
    <2> QED
      BY <2>1, <2>2 DEF Leads, Reaches
  <1> QED
    BY <1>2, <1>3, <1>4, <1>5

LEMMA AcceptKeeps ==
    ASSUME Inv, NEW n \in Node, NEW msg \in net, msg.to = n, msg.kind = "response",
           Owns(n, msg.id), AcceptResponse(n, msg), net' = net \ {msg},
           UNCHANGED <<mesh, up, reverse, spent>>
    PROVE  Inv'
  <1> DEFINE p == pending[n][msg.target]
             told(w) == IF w.data.dst = msg.target /\ ~w.resumed
                        THEN [w EXCEPT !.resumed = TRUE, !.via = msg.from, !.verified = p.minMtu]
                        ELSE w
  <1>0. MeshOK /\ NetOK /\ PendingOK /\ ReverseOK /\ LearnedOK /\ WaitingOK
    BY DEF Inv, Types
  <1>1. MeshOK' /\ ReverseOK' /\ NetOK'
    BY <1>0, SameMesh, SameReverse, NetStep
  <1>2. spent.broken = {} /\ FramesLead => FramesLead'
    BY <1>0, FramesStep
  <1>3. CASE UNCHANGED <<pending, learned, waiting>>
    <2>1. PendingOK' /\ LearnedOK' /\ WaitingOK'
      BY <1>0, <1>3, SamePending, SameLearned, SameWaiting
    <2>2. spent.broken = {} /\ RoutesHold /\ WaitersCame => RoutesHold' /\ WaitersCame'
      BY <1>0, <1>3, SameLearned, SameWaiting
    <2> QED
      BY <1>1, <1>2, <2>1, <2>2 DEF Inv, Types, Truthful
  <1>4. CASE /\ learned' = [learned EXCEPT ![n] = Learn(n, msg.target, msg.from, Mtu(n, msg))]
             /\ pending' = [pending EXCEPT ![n] = Without(pending[n], msg.target)]
             /\ waiting' = [waiting EXCEPT ![n] = {told(w) : w \in waiting[n]}]
    <2>1. /\ msg.from \in Node /\ msg.target \in Node /\ msg.target = msg.id.target
          /\ {n, msg.from} \in up
          /\ Mtu(n, msg) \in Nat /\ Mtu(n, msg) <= mesh.cap[{n, msg.from}]
          /\ spent.broken = {} => Leads(msg.from, n, Mtu(n, msg), msg.target)
      BY ResponseFacts
    <2>2. LearnedOK' /\ (spent.broken = {} /\ RoutesHold => RoutesHold')
      BY <1>0, <1>4, <2>1, RouteLearned
    <2>3. PendingOK'
      BY <1>0, <1>4, LookupEnds
    <2>4. p.minMtu \in Nat
      <3>1. msg.target \in DOMAIN pending[n]
        BY <2>1 DEF Owns
      <3> QED
        BY <1>0, <3>1 DEF PendingOK, Lookups
    <2> HIDE DEF p
    <2>5. ASSUME NEW w \in waiting[n]
          PROVE  told(w) \in Waiter /\ told(w).prev = w.prev /\ told(w).data = w.data
      <3>1. w \in Waiter
        BY <1>0 DEF WaitingOK
      <3> QED
        BY <2>1, <2>4, <3>1 DEF Waiter
    <2> HIDE DEF told
    <2>6. /\ DOMAIN waiting' = Node /\ waiting'[n] = {told(w) : w \in waiting[n]}
          /\ \A x \in Node \ {n} : waiting'[x] = waiting[x]
      BY <1>0, <1>4 DEF WaitingOK
    <2>7. \A w \in waiting'[n] : w \in Waiter /\ (spent.broken = {} => Came(n, w.prev, w.data))
      <3>1. \A w \in waiting[n] : spent.broken = {} => Came(n, w.prev, w.data)
        BY DEF Inv, Truthful, WaitersCame
      <3> QED
        BY <2>5, <2>6, <3>1
    <2>8. WaitingOK' /\ (spent.broken = {} /\ WaitersCame => WaitersCame')
      BY <1>0, <2>6, <2>7, WaitersStep
    <2> QED
      BY <1>1, <1>2, <2>2, <2>3, <2>8 DEF Inv, Types, Truthful
  <1> QED
    BY <1>3, <1>4 DEF AcceptResponse

LEMMA ForwardResponseKeeps ==
    ASSUME Inv, NEW n \in Node, NEW msg \in net, msg.to = n, msg.kind = "response",
           ForwardResponse(n, msg), UNCHANGED <<mesh, up, pending, waiting, spent>>
    PROVE  Inv'
  <1> DEFINE old == {j \in Entries(n, msg) : reverse[n][j].peer # msg.from}
             i == CHOOSE j \in old : TRUE
             entry == reverse[n][i]
             back == BackMtu(n, msg, entry)
             answer == Response(n, entry.peer, msg.id, msg.target, back)
  <1>0. MeshOK /\ NetOK /\ PendingOK /\ ReverseOK /\ LearnedOK /\ WaitingOK
    BY DEF Inv, Types
  <1>1. MeshOK' /\ PendingOK' /\ WaitingOK' /\ (WaitersCame => WaitersCame')
    BY <1>0, SameMesh, SamePending, SameWaiting
  <1>2. CASE net' = net \ {msg} /\ UNCHANGED <<reverse, learned>>
    BY <1>1, <1>0, <1>2, SameReverse, LookupStep
  <1>3. CASE /\ n \in mesh.relays /\ old # {}
             /\ learned' = [learned EXCEPT ![n] = Learn(n, msg.target, msg.from, Mtu(n, msg))]
             /\ reverse' = [reverse EXCEPT ![n] = RemoveAt(reverse[n], i)]
             /\ net' = (net \ {msg}) \cup Carried({answer})
    <2>1. /\ msg.from \in Node /\ msg.target \in Node /\ msg.id \in Id
          /\ msg.target = msg.id.target
          /\ {n, msg.from} \in up /\ mesh.cap[{n, msg.from}] \in Nat
          /\ Mtu(n, msg) \in Nat /\ Mtu(n, msg) <= mesh.cap[{n, msg.from}]
          /\ spent.broken = {} => Leads(msg.from, n, Mtu(n, msg), msg.target)
      BY ResponseFacts
    <2>2. LearnedOK' /\ (spent.broken = {} /\ RoutesHold => RoutesHold')
      BY <1>0, <1>3, <2>1, RouteLearned
    <2>3. i \in DOMAIN reverse[n] /\ entry.peer # msg.from
      <3>1. \A j \in old : j \in DOMAIN reverse[n] /\ reverse[n][j].peer # msg.from
        BY DEF Entries
      <3> HIDE DEF old
      <3> QED
        BY <1>3, <3>1
    <2>4. PathsOK(n, reverse[n]) /\ PathOK(n, entry)
      BY <1>0, <2>3 DEF ReverseOK, PathsOK
    <2> HIDE DEF old, i
    <2>5. ReverseOK'
      <3>1. PathsOK(n, RemoveAt(reverse[n], i))
        BY <1>0, <2>3, <2>4, RemovedPaths
      <3>2. DOMAIN reverse' = Node /\ \A x \in Node : PathsOK(x, reverse'[x])
        BY <1>0, <1>3, <3>1 DEF ReverseOK
      <3> QED
        BY <3>2, ReverseStep
    <2> HIDE DEF entry
    <2>6. /\ entry.peer \in Node /\ mesh.cap[{n, entry.peer}] \in Nat
      BY <1>0, <2>4, LinkFacts DEF PathOK
    <2>7. back \in Nat /\ back <= Mtu(n, msg)
      BY <2>1, <2>6, MinOfTwo DEF BackMtu, frameCapacity
    <2> HIDE DEF back
    <2>8. back <= mesh.cap[{n, msg.from}]
      BY <2>1, <2>7
    <2>9. /\ answer \in Responses /\ answer.kind = "response" /\ answer.from = n
          /\ answer.to = entry.peer /\ answer.target = msg.target /\ answer.id = msg.id
          /\ answer.mtu = back
      BY <2>1, <2>6, <2>7 DEF Response, Responses
    <2> HIDE DEF answer
    <2>10. \A x \in net' \ net : x = answer /\ {n, entry.peer} \in up
      BY <1>3, <2>9 DEF Carried
    <2>11. {n, entry.peer} \in up => FrameOK(answer)
      BY <2>1, <2>9 DEF FrameOK
    <2>12. spent.broken = {} => FrameLeads(answer)
      <3>1. spent.broken = {} => Leads(n, entry.peer, back, msg.target)
        BY <1>0, <1>3, <2>1, <2>3, <2>7, <2>8, LeadsOn
      <3> QED
        BY <2>9, <3>1 DEF FrameLeads
    <2>13. NetOK'
      BY <1>0, <2>10, <2>11, NetStep
    <2>14. spent.broken = {} /\ FramesLead => FramesLead'
      BY <1>0, <2>10, <2>11, <2>12, FramesStep
    <2> QED
      BY <1>1, <2>2, <2>5, <2>13, <2>14 DEF Inv, Types, Truthful
  <1> QED
    BY <1>2, <1>3 DEF ForwardResponse

LEMMA ReceiveResponseKeeps ==
    ASSUME Inv, NEW n \in Node, NEW msg \in net, ReceiveResponse(n, msg)
    PROVE  Inv'
  <1>1. /\ msg.to = n /\ msg.kind = "response" /\ UNCHANGED <<mesh, up, spent>>
        /\ \/ Owns(n, msg.id) /\ AcceptResponse(n, msg) /\ net' = net \ {msg} /\ reverse' = reverse
           \/ ForwardResponse(n, msg) /\ UNCHANGED <<pending, waiting>>
    BY DEF ReceiveResponse
  <1> QED
    BY <1>1, AcceptKeeps, ForwardResponseKeeps

----------------------------------------------------------------------------
(* Datagrams *)

\* A step that handles a datagram and learns nothing.
LEMMA HandledKeeps ==
    ASSUME Inv, Handled, UNCHANGED <<mesh, up, reverse, learned>>
    PROVE  Inv'
  <1>0. MeshOK /\ ReverseOK /\ LearnedOK
    BY DEF Inv, Types
  <1>1. MeshOK' /\ ReverseOK' /\ LearnedOK' /\ (spent.broken = {} /\ RoutesHold => RoutesHold')
    BY <1>0, SameMesh, SameReverse, SameLearned
  <1> QED
    BY <1>1 DEF Inv, Types, Truthful, Handled

LEMMA SendKeeps ==
    ASSUME Inv, NEW d, Send(d)
    PROVE  Inv'
  <1>0. UNCHANGED <<mesh, up, reverse, learned>> /\ d \in mesh.datagrams
    BY DEF Send
  <1>1. At(d.src, Nobody, d)
    BY <1>0, MeshFacts DEF At, Came, Inv, Types
  <1>2. CASE GiveUp(d.src, d, Nobody, "unknown", {}, {})
    BY <1>0, <1>1, <1>2, GiveUpHandles, HandledKeeps DEF At
  <1>3. ASSUME NEW m \in NextHops(d.src, d.dst, Nobody, 0),
               Fit(d.src, d, Nobody, SessionTtl, m, {}, {})
        PROVE  Inv'
    <2>1. m \in Peers(d.src) /\ m # Nobody /\ SessionTtl \in Int
      BY LookupForwardingAssumption, NextHopsArePeers
    <2>2. Handled
      BY <1>0, <1>1, <1>3, <2>1, FitHandles
    <2> QED
      BY <1>0, <2>2, HandledKeeps
  <1> QED
    BY <1>2, <1>3 DEF Send

\* A datagram that has arrived came over its link.
LEMMA DatagramFacts ==
    ASSUME Inv, NEW n \in Node, NEW msg \in net, msg.to = n, msg.kind = "datagram"
    PROVE  /\ msg.from \in Node /\ msg.data \in mesh.datagrams /\ msg.ttl \in Int
           /\ {n, msg.from} \in up /\ mesh.cap[{n, msg.from}] \in Nat
           /\ spent.broken = {} => Leads(msg.from, n, 0, msg.data.src)
           /\ n \in mesh.relays => At(n, msg.from, msg.data)
  <1>0. MeshOK /\ FrameOK(msg)
    BY DEF Inv, Types, NetOK
  <1>1. msg \in Datagrams
    BY <1>0, KindFacts
  <1>2. /\ msg.from \in Node /\ msg.data \in mesh.datagrams /\ msg.ttl \in Int
        /\ {n, msg.from} \in up
    BY <1>0, <1>1 DEF FrameOK, Datagrams
  <1>3. mesh.cap[{n, msg.from}] \in Nat
    BY <1>0, <1>2, UpLinkFacts
  <1>4. spent.broken = {} => Leads(msg.from, n, 0, msg.data.src)
    BY DEF Inv, Truthful, FramesLead, FrameLeads
  <1> QED
    BY <1>2, <1>3, <1>4 DEF At, Came

LEMMA ReceiveDatagramKeeps ==
    ASSUME Inv, NEW n \in Node, NEW msg \in net, ReceiveDatagram(n, msg)
    PROVE  Inv'
  <1> DEFINE d == msg.data
  <1>0. /\ UNCHANGED <<mesh, up, reverse>>
        /\ msg.to = n /\ msg.kind = "datagram"
    BY DEF ReceiveDatagram
  <1>1. /\ msg.from \in Node /\ d \in mesh.datagrams /\ msg.ttl \in Int
        /\ {n, msg.from} \in up /\ mesh.cap[{n, msg.from}] \in Nat
        /\ spent.broken = {} => Leads(msg.from, n, 0, d.src)
        /\ n \in mesh.relays => At(n, msg.from, d)
    BY <1>0, DatagramFacts
  <1>2. CASE /\ net' = net \ {msg}
             /\ learned' = [learned EXCEPT ![n] =
                    IF d.dst = n THEN LearnSeen(n, d.src, msg.from) ELSE @]
             /\ UNCHANGED <<pending, waiting, failed, spent>>
    <2>0. MeshOK /\ NetOK /\ PendingOK /\ ReverseOK /\ LearnedOK /\ WaitingOK
      BY DEF Inv, Types
    <2>1. MeshOK' /\ NetOK' /\ PendingOK' /\ ReverseOK' /\ WaitingOK'
      BY <1>0, <1>2, <2>0, SameMesh, SamePending, SameReverse, SameWaiting, NetStep
    <2>2. spent.broken = {} /\ FramesLead /\ WaitersCame => FramesLead' /\ WaitersCame'
      BY <1>0, <1>2, <2>0, FramesStep, SameWaiting
    <2>3. LearnedOK' /\ (spent.broken = {} /\ RoutesHold => RoutesHold')
      <3>1. CASE learned' = [learned EXCEPT ![n] = Learn(n, d.src, msg.from, 0)]
        <4>1. d.src \in Node
          BY <1>1, <2>0, MeshFacts
        <4>2. 0 <= mesh.cap[{n, msg.from}]
          BY <1>1
        <4> QED
          BY <1>0, <1>1, <2>0, <3>1, <4>1, <4>2, RouteLearned
      <3>2. CASE learned' = [learned EXCEPT ![n] = learned[n]]
        <4>1. DOMAIN learned' = Node /\ \A x \in Node : learned'[x] \ learned[x] = {}
          BY <2>0, <3>2 DEF LearnedOK
        <4> QED
          BY <1>0, <2>0, <4>1, LearnedStep
      <3> QED
        BY <1>2, <3>1, <3>2 DEF LearnSeen
    <2> QED
      BY <1>2, <2>1, <2>2, <2>3 DEF Inv, Types, Truthful
  <1>3. CASE /\ n \in mesh.relays /\ UNCHANGED learned
             /\ Refresh(n, d, msg.from, msg.ttl - 1, 0, {msg}, {})
    <2>1. Handled
      BY <1>0, <1>1, <1>3, RefreshHandles
    <2> QED
      BY <1>0, <1>3, <2>1, HandledKeeps
  <1>4. ASSUME n \in mesh.relays, UNCHANGED learned, NEW m \in NextHops(n, d.dst, msg.from, 0),
               Fit(n, d, msg.from, msg.ttl - 1, m, {msg}, {})
        PROVE  Inv'
    <2>1. m \in Peers(n) /\ m # msg.from /\ msg.ttl - 1 \in Int
      BY <1>1, NextHopsArePeers
    <2>2. Handled
      BY <1>0, <1>1, <1>4, <2>1, FitHandles
    <2> QED
      BY <1>0, <1>4, <2>2, HandledKeeps
  <1> QED
    BY <1>2, <1>3, <1>4 DEF ReceiveDatagram

LEMMA ResumeKeeps ==
    ASSUME Inv, NEW n \in Node, NEW w \in waiting[n], Resume(n, w)
    PROVE  Inv'
  <1> DEFINE d == w.data
  <1>0. UNCHANGED <<mesh, up, reverse, learned>>
    BY DEF Resume
  <1>1. w \in Waiter
    BY DEF Inv, Types, WaitingOK
  <1>2. d \in mesh.datagrams /\ w.ttl \in Int /\ w.need \in Nat /\ w.prev \in Node \cup {Nobody}
    BY <1>1 DEF Waiter
  <1>3. At(n, w.prev, d)
    BY <1>2 DEF At, Inv, Truthful, WaitersCame
  <1>4. CASE GiveUp(n, d, w.prev, "no way", {}, {w})
    BY <1>0, <1>4, GiveUpHandles, HandledKeeps
  <1>5. ASSUME NEW m \in NextHops(n, d.dst, w.prev, 0), Fit(n, d, w.prev, w.ttl, m, {}, {w})
        PROVE  Inv'
    <2>1. m \in Peers(n) /\ m # w.prev
      BY NextHopsArePeers
    <2>2. Handled
      BY <1>0, <1>2, <1>3, <1>5, <2>1, FitHandles
    <2> QED
      BY <1>0, <2>2, HandledKeeps
  <1>6. CASE Refresh(n, d, w.prev, w.ttl, w.need, {}, {w})
    BY <1>0, <1>2, <1>3, <1>6, RefreshHandles, HandledKeeps
  <1>7. CASE Usable(n, w.via, w.prev, d.size) /\ Emit(n, d, w.via, w.ttl, {}, {w})
    <2>1. w.via \in Peers(n) /\ w.via # w.prev
      BY <1>7 DEF Usable
    <2>2. Handled
      BY <1>0, <1>2, <1>3, <1>7, <2>1, EmitHandles
    <2> QED
      BY <1>0, <2>2, HandledKeeps
  <1> QED
    BY <1>4, <1>5, <1>6, <1>7 DEF Resume

----------------------------------------------------------------------------
(* Links *)

\* A link comes up: its ends send it the requests that wait for it.
LEMMA ConnectKeeps ==
    ASSUME Inv, NEW n \in Node, NEW m \in Node, Connect(n, m)
    PROVE  Inv'
  <1> DEFINE other(x) == IF x = n THEN m ELSE n
  <1>0. MeshOK /\ NetOK /\ PendingOK /\ ReverseOK /\ LearnedOK /\ WaitingOK
    BY DEF Inv, Types
  <1>1. /\ UNCHANGED <<mesh, pending, learned, waiting>>
        /\ {n, m} \in DOMAIN mesh.cap /\ up' = up \cup {{n, m}}
    BY DEF Connect
  <1>2. PICK bad \in SUBSET {n, m} :
            /\ spent' = [spent EXCEPT !.losses = @ + Cardinality(bad)]
            /\ reverse' = [x \in Node |-> IF x \in {n, m} \ bad THEN AfterReplay(x, other(x))
                                          ELSE reverse[x]]
            /\ net' = net \cup UNION {ReplayFrames(x, other(x)) : x \in {n, m} \ bad}
    BY DEF Connect
  <1>3. /\ DOMAIN spent' = DOMAIN spent
        /\ spent'.lookups = spent.lookups /\ spent'.broken = spent.broken
    BY <1>0, <1>2 DEF PendingOK
  <1>4. MeshOK' /\ PendingOK' /\ LearnedOK' /\ WaitingOK'
    BY <1>0, <1>1, <1>3, SamePending, SameLearned, SameWaiting DEF MeshOK
  <1>5. spent.broken = {} /\ RoutesHold /\ WaitersCame => RoutesHold' /\ WaitersCame'
    BY <1>0, <1>1, SameLearned, SameWaiting
  <1>6. ASSUME NEW x \in Node, NEW y \in Node
        PROVE  PathsOK(x, AfterReplay(x, y))
    <2> DEFINE s == reverse[x]
               t == AfterReplay(x, y)
    <2>1. PathsOK(x, s)
      BY <1>0 DEF ReverseOK
    <2>2. DOMAIN t = DOMAIN s /\ t = [i \in DOMAIN s |-> t[i]]
      BY DEF AfterReplay
    <2>3. ASSUME NEW i \in DOMAIN s
          PROVE  PathOK(x, t[i]) /\ t[i].id = s[i].id /\ t[i] \in Entry
      <3>1. PathOK(x, s[i]) /\ s[i] \in Entry
        BY <2>1 DEF PathsOK, PathOK
      <3>2. CASE t[i] = s[i]
        BY <3>1, <3>2
      <3>3. CASE t[i] = [s[i] EXCEPT !.sent = @ \cup {y}]
        <4>1. /\ t[i] \in Entry /\ t[i].id = s[i].id /\ t[i].target = s[i].target
              /\ t[i].peer = s[i].peer
          BY <3>1, <3>3 DEF Entry
        <4> QED
          BY <3>1, <4>1 DEF PathOK
      <3> QED
        BY <3>2, <3>3 DEF AfterReplay
    <2> HIDE DEF t
    <2>4. t \in [DOMAIN s -> Entry]
      BY <2>2, <2>3
    <2>5. PathsOK(x, t)
      BY <2>1, <2>2, <2>3, <2>4, RewrittenPaths
    <2> QED
      BY <2>5 DEF t
  <1>7. ReverseOK'
    <2>1. \A x \in Node : other(x) \in Node
      OBVIOUS
    <2>2. DOMAIN reverse' = Node /\ \A x \in Node : PathsOK(x, reverse'[x])
      BY <1>0, <1>2, <1>6, <2>1 DEF ReverseOK
    <2> QED
      BY <1>1, <2>2, ReverseStep
  <1>8. ASSUME NEW msg \in net' \ net
        PROVE  FrameOK(msg)' /\ msg.kind = "request"
    <2>1. PICK x \in {n, m} : msg \in ReplayFrames(x, other(x))
      BY <1>2, <1>8
    <2> DEFINE y == other(x)
    <2>2. x \in Node /\ y \in Node /\ {x, y} = {n, m}
      OBVIOUS
    <2> HIDE DEF y
    <2>3. PICK i \in DOMAIN reverse[x] :
             /\ reverse[x][i].target = y
             /\ msg = Request(x, y, reverse[x][i].id, y, reverse[x][i].origin,
                              reverse[x][i].ttl, reverse[x][i].mtu)
      BY <2>1 DEF ReplayFrames, Replayed, y
    <2> DEFINE e == reverse[x][i]
    <2>4. e \in Entry /\ e.target = e.id.target
      BY <1>0, <2>2 DEF ReverseOK, PathsOK, PathOK
    <2> HIDE DEF e
    <2>5. /\ msg \in Requests /\ msg.kind = "request" /\ msg.from = x /\ msg.to = y
          /\ msg.target = msg.id.target
      BY <2>2, <2>3, <2>4 DEF Request, Requests, Entry, e
    <2>6. {msg.from, msg.to} \in up'
      BY <1>1, <2>2, <2>5
    <2>7. Requests' = Requests
      BY <1>1 DEF Requests, Id, Node
    <2> QED
      BY <2>5, <2>6, <2>7 DEF FrameOK
  <1>9. \A msg \in net : FrameOK(msg)'
    BY <1>0, <1>1 DEF NetOK, FrameOK, Requests, Responses, Datagrams, Id, Node
  <1>10. NetOK'
    BY <1>8, <1>9 DEF NetOK
  <1>11. spent.broken = {} /\ FramesLead => FramesLead'
    <2> SUFFICES ASSUME spent.broken = {}, FramesLead, NEW msg \in net'
                 PROVE  FrameLeads(msg)'
      BY DEF FramesLead
    <2>1. CASE msg \notin net
      BY <1>8, <2>1 DEF FrameLeads
    <2>2. CASE msg \in net
      <3>1. FrameOK(msg) /\ FrameLeads(msg)
        BY <1>0, <2>2 DEF NetOK, FramesLead
      <3>3. msg.kind = "response" => msg.mtu \in Nat
        BY <3>1, ResponseMtu
      <3> QED
        BY <1>0, <1>1, <3>1, <3>3, LeadsStays DEF FrameLeads
    <2> QED
      BY <2>1, <2>2
  <1> QED
    BY <1>3, <1>4, <1>5, <1>7, <1>10, <1>11 DEF Inv, Types, Truthful

LEMMA ResolveEndsKeeps ==
    ASSUME Inv, NEW n \in Node, NEW r, ResolveEnds(n, r)
    PROVE  Inv'
  <1> DEFINE old == {j \in DOMAIN reverse[n] : reverse[n][j].id = r.id}
             i == CHOOSE j \in old : TRUE
             entry == reverse[n][i]
             hops == NextHops(n, r.target, entry.peer, entry.mtu) \ entry.sent
  <1>0. MeshOK /\ PendingOK /\ ReverseOK /\ PathsOK(n, reverse[n])
    BY DEF Inv, Types, ReverseOK
  <1>1. UNCHANGED <<mesh, up, pending, learned, waiting>>
    BY DEF ResolveEnds
  <1>5. /\ DOMAIN spent' = DOMAIN spent
        /\ spent'.lookups = spent.lookups /\ spent'.broken = spent.broken
    <2>1. spent' = spent \/ spent' = [spent EXCEPT !.losses = @ + 1]
      BY DEF ResolveEnds
    <2> QED
      BY <1>0, <2>1 DEF PendingOK
  <1>2. PendingOK'
    BY <1>0, <1>1, <1>5, SamePending
  <1>3. CASE UNCHANGED <<net, reverse>>
    BY <1>0, <1>1, <1>2, <1>3, <1>5, SameReverse, LookupStep
  <1>4. ASSUME old # {}, NEW m \in hops,
               reverse' = [reverse EXCEPT ![n] = [reverse[n] EXCEPT ![i] =
                              [reverse[n][i] EXCEPT !.sent = @ \cup {m}]]],
               net' = net \cup {Request(n, m, entry.id, entry.target, entry.origin,
                                        entry.ttl, entry.mtu)}
        PROVE  Inv'
    <2>1. i \in DOMAIN reverse[n]
      <3>1. old # {} /\ \A j \in old : j \in DOMAIN reverse[n]
        BY <1>4
      <3> HIDE DEF old
      <3> QED
        BY <3>1
    <2>2. m \in Peers(n) /\ m \in Node
      BY <1>4, NextHopsArePeers DEF Peers
    <2> HIDE DEF old, i, hops
    <2> DEFINE s == reverse[n]
               e == [s[i] EXCEPT !.sent = @ \cup {m}]
               t == [s EXCEPT ![i] = e]
    <2>3. PathOK(n, s[i]) /\ s[i] \in Entry
      BY <1>0, <2>1 DEF PathsOK, PathOK
    <2>4. e \in Entry /\ e.id = s[i].id /\ e.target = s[i].target /\ e.peer = s[i].peer
      BY <2>2, <2>3 DEF Entry
    <2>5. PathOK(n, e)
      BY <2>3, <2>4 DEF PathOK
    <2> HIDE DEF e
    <2>6. s \in Seq(Entry)
      BY <1>0 DEF PathsOK
    <2>7. DOMAIN t = DOMAIN s /\ \A j \in DOMAIN s : t[j] = IF j = i THEN e ELSE s[j]
      BY <2>1, <2>6
    <2>9. \A j \in DOMAIN s : PathOK(n, t[j]) /\ t[j].id = s[j].id
      BY <1>0, <2>4, <2>5, <2>7 DEF PathsOK
    <2>8. t \in [DOMAIN s -> Entry]
      BY <2>6, <2>9 DEF PathOK
    <2>10. reverse' = [reverse EXCEPT ![n] = t]
      BY <1>4 DEF e
    <2> HIDE DEF t
    <2>11. PathsOK(n, t)
      BY <1>0, <2>7, <2>8, <2>9, RewrittenPaths
    <2>12. DOMAIN reverse' = Node /\ \A x \in Node : PathsOK(x, reverse'[x])
      BY <1>0, <2>10, <2>11 DEF ReverseOK
    <2>13. ReverseOK'
      BY <1>1, <2>12, ReverseStep
    <2>14. /\ entry.id \in Id /\ entry.target = entry.id.target /\ entry.origin \in Node
           /\ entry.ttl \in Int /\ entry.mtu \in Nat
      BY <2>3 DEF PathOK, Entry
    <2> HIDE DEF entry
    <2>15. \A x \in net' \ net : FrameOK(x) /\ FrameLeads(x)
      BY <1>4, <2>2, <2>14, RequestSent
    <2> QED
      BY <1>1, <1>2, <1>5, <2>13, <2>15, LookupStep, SMTT(30)
  <1> QED
    BY <1>3, <1>4 DEF ResolveEnds

\* When a link breaks, nothing is promised of paths any more.
LEMMA BreakKeeps ==
    ASSUME Inv, NEW n \in Node, NEW m \in Node, Break(n, m)
    PROVE  Inv'
  <1>0. MeshOK /\ NetOK /\ PendingOK /\ ReverseOK /\ LearnedOK /\ WaitingOK
    BY DEF Inv, Types
  <1>1. /\ UNCHANGED <<mesh, pending, reverse, learned, waiting>>
        /\ up' = up \ {{n, m}} /\ net' = {msg \in net : {msg.from, msg.to} # {n, m}}
        /\ spent' = [spent EXCEPT !.broken = @ \cup {{n, m}}]
    BY DEF Break
  <1>2. /\ DOMAIN spent' = DOMAIN spent
        /\ spent'.lookups = spent.lookups /\ spent'.broken # {}
    BY <1>0, <1>1 DEF PendingOK
  <1>3. MeshOK' /\ PendingOK' /\ ReverseOK'
    BY <1>0, <1>1, <1>2, SamePending, SameReverse DEF MeshOK
  <1>4. LearnedOK' /\ WaitingOK'
    BY <1>0, <1>1 DEF LearnedOK, RouteOK, WaitingOK, Waiter, Node, Nobody
  <1>5. NetOK'
    BY <1>0, <1>1 DEF NetOK, FrameOK, Requests, Responses, Datagrams, Id, Node
  <1> QED
    BY <1>2, <1>3, <1>4, <1>5 DEF Inv, Types, Truthful

LEMMA LoseKeeps ==
    ASSUME Inv, NEW msg, Lose(msg)
    PROVE  Inv'
  <1>0. PendingOK /\ ReverseOK
    BY DEF Inv, Types
  <1>1. /\ UNCHANGED <<mesh, up, pending, reverse, learned, waiting>>
        /\ net' = net \ {msg} /\ spent' = [spent EXCEPT !.losses = @ + 1]
    BY DEF Lose
  <1>2. /\ DOMAIN spent' = DOMAIN spent
        /\ spent'.lookups = spent.lookups /\ spent'.broken = spent.broken
    BY <1>0, <1>1 DEF PendingOK
  <1> QED
    BY <1>0, <1>1, <1>2, SamePending, SameReverse, LookupStep

LEMMA ExpireKeeps ==
    ASSUME Inv, NEW n \in Node, Expire(n)
    PROVE  Inv'
  <1>0. MeshOK /\ NetOK /\ PendingOK /\ ReverseOK /\ LearnedOK /\ WaitingOK
    BY DEF Inv, Types
  <1>1. /\ UNCHANGED <<mesh, up, net, pending, waiting>>
        /\ spent' = [spent EXCEPT !.expiries = @ + 1]
    BY DEF Expire
  <1>2. /\ DOMAIN spent' = DOMAIN spent
        /\ spent'.lookups = spent.lookups /\ spent'.broken = spent.broken
    BY <1>0, <1>1 DEF PendingOK
  <1>3. MeshOK' /\ NetOK' /\ PendingOK' /\ WaitingOK'
    BY <1>0, <1>1, <1>2, SameMesh, SamePending, SameWaiting, NetStep
  <1>4. spent.broken = {} /\ FramesLead /\ WaitersCame => FramesLead' /\ WaitersCame'
    BY <1>0, <1>1, FramesStep, SameWaiting
  <1>5. ASSUME NEW r, learned' = [learned EXCEPT ![n] = @ \ {r}], UNCHANGED reverse
        PROVE  Inv'
    <2>1. DOMAIN learned' = Node /\ \A x \in Node : learned'[x] \ learned[x] = {}
      BY <1>0, <1>5 DEF LearnedOK
    <2>2. LearnedOK' /\ (spent.broken = {} /\ RoutesHold => RoutesHold')
      BY <1>0, <1>1, <2>1, LearnedStep
    <2>3. ReverseOK'
      BY <1>0, <1>1, <1>5, SameReverse
    <2> QED
      BY <1>2, <1>3, <1>4, <2>2, <2>3 DEF Inv, Types, Truthful
  <1>6. CASE /\ reverse[n] # <<>> /\ UNCHANGED learned
             /\ reverse' = [reverse EXCEPT ![n] = Tail(reverse[n])]
    <2>1. PathsOK(n, Tail(reverse[n]))
      BY <1>0, <1>6, TailPaths DEF ReverseOK
    <2>2. DOMAIN reverse' = Node /\ \A x \in Node : PathsOK(x, reverse'[x])
      BY <1>0, <1>6, <2>1 DEF ReverseOK
    <2>3. ReverseOK'
      BY <1>1, <2>2, ReverseStep
    <2> QED
      BY <1>1, <1>2, <1>3, <1>6, <2>3, LookupStep
  <1> QED
    BY <1>5, <1>6 DEF Expire

----------------------------------------------------------------------------
LEMMA InitOK ==
    ASSUME Init
    PROVE  Inv
  <1>1. /\ mesh \in Meshes /\ up = mesh.start /\ net = {}
        /\ pending = [n \in Node |-> <<>>] /\ reverse = [n \in Node |-> <<>>]
        /\ learned = [n \in Node |-> {}] /\ waiting = [n \in Node |-> {}]
        /\ spent = [losses |-> 0, expiries |-> 0, lookups |-> 0, broken |-> {},
                    evicted |-> FALSE]
    BY DEF Init
  <1>2. MeshOK /\ mesh.maxReverse \in Nat
    BY <1>1, LookupForwardingAssumption DEF MeshOK
  <1>3. PendingOK
    BY <1>1 DEF PendingOK
  <1>4. ReverseOK
    <2>1. <<>> \in Seq(Entry) /\ Len(<<>>) = 0 /\ DOMAIN <<>> = {}
      BY EmptySeq
    <2>2. \A n : PathsOK(n, <<>>)
      BY <1>2, <2>1 DEF PathsOK
    <2> QED
      BY <1>1, <2>2 DEF ReverseOK
  <1>5. NetOK /\ LearnedOK /\ WaitingOK /\ FramesLead /\ WaitersCame /\ RoutesHold
    BY <1>1 DEF NetOK, LearnedOK, WaitingOK, FramesLead, WaitersCame, RoutesHold
  <1> QED
    BY <1>2, <1>3, <1>4, <1>5 DEF Inv, Types, Truthful

LEMMA StutterKeeps ==
    ASSUME Inv, UNCHANGED vars
    PROVE  Inv'
  <1>1. /\ UNCHANGED <<mesh, up, net, pending, reverse, learned, waiting, spent>>
    BY DEF vars
  <1>2. PendingOK' /\ ReverseOK'
    BY <1>1, SamePending, SameReverse DEF Inv, Types
  <1> QED
    BY <1>1, <1>2, LookupStep

LEMMA NextOK ==
    ASSUME Inv, [Next]_vars
    PROVE  Inv'
  <1>0. \A msg \in net : msg.to \in Node
    BY KindFacts DEF Inv, Types, NetOK
  <1>1. ASSUME NEW msg \in net, Receive(msg) \/ Lose(msg)
        PROVE  Inv'
    BY <1>0, <1>1, ReceiveRequestKeeps, ReceiveResponseKeeps, ReceiveDatagramKeeps, LoseKeeps
       DEF Receive
  <1>2. CASE Timers
    BY <1>2, RetryKeeps, DeadlineKeeps DEF Timers
  <1>3. CASE Resumes
    BY <1>3, ResumeKeeps, ResolveEndsKeeps DEF Resumes
  <1>4. ASSUME NEW x \in todo, Ask(x) \/ Send(x)
        PROVE  Inv'
    BY <1>4, AskKeeps, SendKeeps
  <1>5. ASSUME NEW n \in Node, NEW m \in Node, Connect(n, m) \/ Break(n, m)
        PROVE  Inv'
    BY <1>5, ConnectKeeps, BreakKeeps
  <1>6. ASSUME NEW n \in Node, Expire(n)
        PROVE  Inv'
    BY <1>6, ExpireKeeps
  <1>7. CASE UNCHANGED vars
    BY <1>7, StutterKeeps
  <1> QED
    BY <1>1, <1>2, <1>3, <1>4, <1>5, <1>6, <1>7 DEF Next

LEMMA Invariance == Spec => []Inv
  <1>1. Init => Inv
    BY InitOK
  <1>2. Inv /\ [Next]_vars => Inv'
    BY NextOK
  <1> QED
    BY <1>1, <1>2, PTL DEF Spec

LEMMA InvGivesForwarding ==
    ASSUME Inv
    PROVE  ForwardingInv
  <1>1. TypeOK
    BY DEF Inv, Types, MeshOK, PendingOK, ReverseOK, PathsOK, LearnedOK, RouteOK, TypeOK
  <1>2. PathMtuHolds
    BY DEF Inv, Truthful, RoutesHold, RouteHolds, PathMtuHolds
  <1> QED
    BY <1>1, <1>2 DEF ForwardingInv

\* For every mesh, table limit and hop limit: reserveLookupReversePath keeps the
\* reverse paths within MAX_LOOKUP_REVERSE_PATHS and one per request, no learned
\* route points at its own node or destination, and the path MTU learned from a
\* lookup response is one that relays carry all the way to the destination.
THEOREM ForwardingHolds == Spec => []ForwardingInv
  BY Invariance, InvGivesForwarding, PTL

=============================================================================
