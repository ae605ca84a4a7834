---------------------------- MODULE SpanningTree ----------------------------
(***************************************************************************)
(* The spanning tree and the reachability filters of a mesh: TreeState,    *)
(* the routing-role messages of FipsRouting, and BloomRouting.             *)
(*                                                                         *)
(* Every node tells its adjacent peers the path from itself to the root it *)
(* has chosen (TreeAnnounce) and the set of nodes it can reach without     *)
(* them (FilterAnnounce); a strict client tells them only that it is one   *)
(* (ClientSupport, ClientOnly).  Announcements are not acknowledged: they  *)
(* are sent when a link comes up and when the state they describe changes. *)
(* Frames of a link may overtake each other; a link may break, each end    *)
(* noticing on its own, and a node may restart with its counters at their  *)
(* first value.                                                            *)
(*                                                                         *)
(* A node is its address, a number, because the tree orders nodes by       *)
(* address.  An ancestry is the sequence of nodes from the announcer to    *)
(* its root, its per-entry sequence numbers and timestamps left out: no    *)
(* decision reads them.  A Bloom filter is the set of what was inserted.   *)
(* 0 and {} stand for a sequence number or a filter not yet set.           *)
(***************************************************************************)
EXTENDS Integers, Sequences, FiniteSets, FiniteSetsExt, Functions

CONSTANTS Node,   \* the nodes, by address
          Meshes  \* the configurations a behaviour may be of

Root(ancestry) == ancestry[Len(ancestry)]

(* What encodeTreeAnnounce demands of an ancestry before it is sent, and   *)
(* that it is a path without repetition.                                   *)
ValidAncestry(n, ancestry) ==
    /\ Len(ancestry) > 0 /\ ancestry[1] = n
    /\ IsInjective(ancestry)
    /\ \A i \in 1..Len(ancestry) : Root(ancestry) <= ancestry[i]

(* A configuration: the pairs {a, b} that may have a carrier (links), the  *)
(* ones that are up to begin with and the ancestries of the nodes then     *)
(* (starts, of which any may be the case), whether its nodes forward, its  *)
(* strict clients, and three bounds on a behaviour: its breaks and         *)
(* restarts, the links established in it, and the heartbeats on which each *)
(* client repeats its role.                                                *)
ASSUME SpanningTreeAssumption ==
    /\ Node \subseteq Nat /\ IsFiniteSet(Node)
    /\ \A h \in Meshes :
        /\ h.links \subseteq SUBSET Node /\ \A l \in h.links : Cardinality(l) = 2
        /\ \A s \in h.starts :
            /\ s.up \subseteq h.links
            /\ s.paths \in [Node -> Seq(Node)]
            /\ \A n \in Node : ValidAncestry(n, s.paths[n])
        /\ h.clients \subseteq Node
        /\ h.forwarding \in BOOLEAN
        /\ {h.maxFaults, h.maxRepairs, h.maxRefreshes} \subseteq Nat

VARIABLES mesh,     \* the configuration
          carrier,  \* the links whose frames arrive
          net,      \* the frames in flight
          adj,      \* adj[n]: node -> AdjacentPeer of n's established links
          tree,     \* tree[n]: TreeState's own sequence and ancestry
          known,    \* known[n]: node -> TreeState.peers entry
          count,    \* count[n]: BloomRouting.sequence and clientSequence
          owed,     \* owed[n]: handleTreeAnnounce has yet to send filters
          faults, repairs, refreshes

treeVars == <<mesh, carrier, net, adj, tree, known, count, owed, faults, repairs, refreshes>>

Client == mesh.clients

----------------------------------------------------------------------------
(* TreeState *)

Parent(ancestry) == IF Len(ancestry) = 1 THEN ancestry[1] ELSE ancestry[2]

(* The order evaluateParent sorts its candidates in. *)
Before(p, a, q, b) ==
    \/ Root(a) < Root(b)
    \/ Root(a) = Root(b) /\ Len(a) < Len(b)
    \/ Root(a) = Root(b) /\ Len(a) = Len(b) /\ p <= q

CandidatesAll(n, k) == DOMAIN k \* mutant: paths through n itself stay

Candidates(n, k) == {p \in DOMAIN k : n \notin Range(k[p].ancestry)}

Best(n, k) ==
    CHOOSE p \in Candidates(n, k) :
        \A q \in Candidates(n, k) : Before(p, k[p].ancestry, q, k[q].ancestry)

ShouldRoot(n, k) ==
    Candidates(n, k) = {} \/ n <= Root(k[Best(n, k)].ancestry)

NextAncestry(n, k) ==
    IF ShouldRoot(n, k) THEN <<n>> ELSE <<n>> \o k[Best(n, k)].ancestry

Neighbours(n, up) == {m \in Node : {n, m} \in up}

(* What a node has heard of its peers in the start s. *)
Heard(n, s, clients) ==
    [m \in Neighbours(n, s.up) \ clients |-> [seq |-> 1, ancestry |-> s.paths[m]]]

(* A mesh starts at rest: evaluateParent has chosen every place. *)
ASSUME StartsAtRest ==
    \A h \in Meshes : \A s \in h.starts : \A n \in Node :
        s.paths[n] = NextAncestry(n, Heard(n, s, h.clients))

(* evaluateParent: the own entry that follows from the peers' entries k. *)
Evaluated(n, t, k) ==
    IF NextAncestry(n, k) = t.ancestry
    THEN t
    ELSE [seq |-> t.seq + 1, ancestry |-> NextAncestry(n, k)]

(* updatePeer's guard against an announcement that was overtaken. *)
Newer(k, m, msg) == m \notin DOMAIN k \/ msg.seq > k[m].seq

Updated(k, m, msg) ==
    IF Newer(k, m, msg)
    THEN [p \in DOMAIN k \cup {m} |->
             IF p = m THEN [seq |-> msg.seq, ancestry |-> msg.ancestry] ELSE k[p]]
    ELSE k

Without(f, m) == [p \in DOMAIN f \ {m} |-> f[p]]

IsTreePeer(n, t, k, m) ==
    \/ Parent(t.ancestry) # n /\ Parent(t.ancestry) = m
    \/ m \in DOMAIN k /\ Parent(k[m].ancestry) = n

(* The length of the common end of two ancestries. *)
Common(a, b) ==
    Max({i \in 0..Min({Len(a), Len(b)}) :
            \A j \in 0..(i - 1) : a[Len(a) - j] = b[Len(b) - j]})

treeDistance(a, b) == Len(a) + Len(b) - 2 * Common(a, b)

Closer(n, d) ==
    {p \in DOMAIN known[n] \cap DOMAIN adj[n] :
        /\ Root(known[n][p].ancestry) = Root(d)
        /\ treeDistance(known[n][p].ancestry, d) < treeDistance(tree[n].ancestry, d)}

(* nextHop: the usable peer nearest to the coordinates d. *)
NextHops(n, d) ==
    IF Root(tree[n].ancestry) # Root(d)
    THEN {}
    ELSE {p \in Closer(n, d) : \A q \in Closer(n, d) :
             LET dp == treeDistance(known[n][p].ancestry, d)
                 dq == treeDistance(known[n][q].ancestry, d)
             IN  dp < dq \/ (dp = dq /\ p <= q)}

----------------------------------------------------------------------------
(* Sending *)

Frame(n, m, type, seq, ancestry, filter) ==
    [from |-> n, to |-> m, type |-> type, seq |-> seq,
     ancestry |-> ancestry, filter |-> filter]

(* Frames of a carrier that is gone are lost. *)
Carried(msgs) == {msg \in msgs : {msg.from, msg.to} \in carrier}

(* sendTreeAnnounce of a strict client to each of the peers ms: it asks    *)
(* whether the peer knows the role, and declares it once the peer does.    *)
Supported(a, ms) == {m \in ms : a[m].supported}

RoleFrames(n, a, ms, c) ==
    {IF a[m].supported
     THEN Frame(n, m, "ClientOnly",
                c.role + Cardinality({j \in Supported(a, ms) : j <= m}), <<>>, {})
     ELSE Frame(n, m, "ClientSupport", 0, <<>>, {}) : m \in ms}

TreeFrames(n, t, a, ms, c) ==
    IF n \in Client
    THEN RoleFrames(n, a, ms, c)
    ELSE {Frame(n, m, "TreeAnnounce", t.seq, t.ancestry, {}) : m \in ms}

RoleCount(n, a, ms) == IF n \in Client THEN Cardinality(Supported(a, ms)) ELSE 0

(* outgoingFilterFor: what n reaches without m. *)
OutgoingFilter(n, t, k, a, m) ==
    IF ~mesh.forwarding
    THEN {n}
    ELSE {n} \cup {p \in DOMAIN a \ {m} : a[p].client}
             \cup UNION {a[p].inFilter : p \in {q \in DOMAIN a \ {m} :
                             ~a[q].client /\ IsTreePeer(n, t, k, q)}}

(* BloomRouting.sendAll and send: the peers whose filter has changed. *)
FilterChanged(n, t, k, a, ms) ==
    IF n \in Client
    THEN {}
    ELSE {m \in ms : OutgoingFilter(n, t, k, a, m) # a[m].outFilter}

Announced(n, t, k, a, ms) ==
    [m \in DOMAIN a |->
        IF m \in FilterChanged(n, t, k, a, ms)
        THEN [a[m] EXCEPT !.outFilter = OutgoingFilter(n, t, k, a, m)]
        ELSE a[m]]

(* One number serves a whole batch: a receiver compares only the numbers   *)
(* of the frames it gets from this sender.                                 *)
FilterFrames(n, t, k, a, ms, c) ==
    {Frame(n, m, "FilterAnnounce", c.filter + 1, <<>>, OutgoingFilter(n, t, k, a, m)) :
        m \in FilterChanged(n, t, k, a, ms)}

(* Node n's state becomes t, k, a; it sends its role or its place in the   *)
(* tree to the peers trees and its filter to those of filters.             *)
Become(n, rcvd, t, k, a, trees, filters) ==
    /\ tree' = [tree EXCEPT ![n] = t]
    /\ known' = [known EXCEPT ![n] = k]
    /\ adj' = [adj EXCEPT ![n] = Announced(n, t, k, a, filters)]
    /\ count' = [count EXCEPT ![n] =
           [role |-> @.role + RoleCount(n, a, trees),
            filter |-> IF FilterChanged(n, t, k, a, filters) = {}
                       THEN @.filter ELSE @.filter + 1]]
    /\ net' = (net \ rcvd) \cup Carried(TreeFrames(n, t, a, trees, count[n])
                                \cup FilterFrames(n, t, k, a, filters, count[n]))

----------------------------------------------------------------------------
NewTree(n) == [seq |-> 1, ancestry |-> <<n>>]

NewPeer == [supported |-> FALSE, client |-> FALSE, roleSeq |-> 0,
            inFilter |-> {}, inSeq |-> 0, outFilter |-> {}]

NewCount == [role |-> 0, filter |-> 0]

Core == Node \ Client

(* The nodes of the core within i hops of n over the given links. *)
Ball(core, n, links) ==
    LET b[i \in 0..Cardinality(Node)] ==
            IF i = 0 THEN {n}
            ELSE LET inner == b[i - 1]
                 IN  inner \cup {m \in core : \E j \in inner : {j, m} \in links}
    IN  b

Component(core, n, links) == Ball(core, n, links)[Cardinality(Node)]

Hops(core, n, m, links) ==
    Min({i \in 0..Cardinality(Node) : m \in Ball(core, n, links)[i]})

Lowest(core, n, links) == Min(Component(core, n, links))

TreeLinks(up, a) == {l \in up : \E n \in l \cap Core : Parent(a[n]) \in l \ {n}}

(* The nodes on n's side of its link to m, the clients among them, in the  *)
(* mesh with the links up whose tree is a.                                 *)
Side(n, m, up, a) ==
    LET side == Component(Core, n, TreeLinks(up, a) \ {{n, m}})
    IN  IF ~mesh.forwarding THEN {n}
        ELSE {x \in Node : \/ x \in side
                           \/ x \in Client \ {m} /\ \E j \in side : {j, x} \in up}

SettledPeer(n, m, up, a) ==
    [supported |-> {n, m} \cap Client # {}, client |-> m \in Client, roleSeq |-> 1,
     inFilter |-> IF m \in Client THEN {} ELSE Side(m, n, up, a),
     inSeq |-> IF m \in Client THEN 0 ELSE 1,
     outFilter |-> IF n \in Client THEN {} ELSE Side(n, m, up, a)]

(* A mesh whose nodes have announced the ancestries it starts with. *)
TreeInit ==
    /\ mesh \in Meshes
    /\ \E s \in mesh.starts :
        /\ carrier = s.up
        /\ tree = [n \in Node |-> [seq |-> 1, ancestry |-> s.paths[n]]]
        /\ known = [n \in Node |-> Heard(n, s, Client)]
        /\ adj = [n \in Node |-> [m \in Neighbours(n, s.up) |->
                                      SettledPeer(n, m, s.up, s.paths)]]
    /\ net = {}
    /\ count = [n \in Node |-> [role |-> 1, filter |-> 1]]
    /\ owed = [n \in Node |-> FALSE]
    /\ faults = 0 /\ repairs = 0
    /\ refreshes = [n \in Client |-> 0]

(* A handshake of the link layer ends: both ends have a new AdjacentPeer,  *)
(* and the timers of scheduleTreeAnnounce, set to no delay, send the       *)
(* filter and the tree.  One step for both ends and their timers; a link   *)
(* that replaces a standing one is left to FmpPeers.                       *)
Connected(a, n, m) ==
    [p \in DOMAIN a \cup {m} |-> IF p = m THEN NewPeer ELSE a[p]]

Greeting(n, m) ==
    LET a == Connected(adj[n], n, m)
    IN  TreeFrames(n, tree[n], a, {m}, count[n])
        \cup FilterFrames(n, tree[n], known[n], a, {m}, count[n])

Greeted(n, m) == Announced(n, tree[n], known[n], Connected(adj[n], n, m), {m})

Establish(a, b) ==
    /\ repairs < mesh.maxRepairs
    /\ {a, b} \in mesh.links \ carrier
    /\ b \notin DOMAIN adj[a] /\ a \notin DOMAIN adj[b]
    /\ repairs' = repairs + 1
    /\ carrier' = carrier \cup {{a, b}}
    /\ adj' = [adj EXCEPT ![a] = Greeted(a, b), ![b] = Greeted(b, a)]
    /\ net' = net \cup Greeting(a, b) \cup Greeting(b, a)
    /\ count' = [n \in Node |->
           IF n \in {a, b} \ Client
           THEN [count[n] EXCEPT !.filter = @ + 1] ELSE count[n]]
    /\ UNCHANGED <<mesh, tree, known, owed, faults, refreshes>>

(* handleTreeAnnounce.  What the new ancestry changes is told to all peers *)
(* at once; the filters follow when those sends have settled.              *)
ReceiveTree(n, msg) ==
    /\ msg \in net /\ msg.to = n /\ msg.type = "TreeAnnounce"
    /\ LET m == msg.from
           stale == msg.seq <= adj[n][m].roleSeq
           a == IF stale THEN adj[n]
                ELSE [adj[n] EXCEPT ![m].roleSeq = msg.seq, ![m].client = FALSE]
           k == IF stale THEN known[n] ELSE Updated(known[n], m, msg)
           t == IF stale \/ ~Newer(known[n], m, msg) THEN tree[n]
                ELSE Evaluated(n, tree[n], k)
           changed == t # tree[n]
           turned == \/ ~stale /\ adj[n][m].client
                     \/ IsTreePeer(n, tree[n], known[n], m) # IsTreePeer(n, t, k, m)
       IN  /\ Become(n, {msg}, t, k, a, IF changed THEN DOMAIN a ELSE {},
                     IF turned /\ ~changed THEN DOMAIN a ELSE {})
           /\ owed' = [owed EXCEPT ![n] = @ \/ changed]
    /\ UNCHANGED <<mesh, carrier, faults, repairs, refreshes>>

(* The end of handleTreeAnnounce, after the await. *)
SendFilters(n) ==
    /\ owed[n]
    /\ owed' = [owed EXCEPT ![n] = FALSE]
    /\ Become(n, {}, tree[n], known[n], adj[n], {}, DOMAIN adj[n])
    /\ UNCHANGED <<mesh, carrier, faults, repairs, refreshes>>

(* BloomRouting.handle. *)
ReceiveFilter(n, msg) ==
    /\ msg \in net /\ msg.to = n /\ msg.type = "FilterAnnounce"
    /\ LET m == msg.from
           fresh == msg.seq > adj[n][m].inSeq
           a == IF fresh
                THEN [adj[n] EXCEPT ![m].inFilter = msg.filter, ![m].inSeq = msg.seq]
                ELSE adj[n]
       IN  Become(n, {msg}, tree[n], known[n], a, {},
                  IF fresh /\ IsTreePeer(n, tree[n], known[n], m) THEN DOMAIN a \ {m} ELSE {})
    /\ UNCHANGED <<mesh, carrier, owed, faults, repairs, refreshes>>

(* A ClientSupport, the first time: a client declares its role, any other  *)
(* node answers that it knows the role.                                    *)
ReceiveSupport(n, msg) ==
    /\ msg \in net /\ msg.to = n /\ msg.type = "ClientSupport"
    /\ LET m == msg.from
           a == [adj[n] EXCEPT ![m].supported = TRUE]
       IN  IF adj[n][m].supported
           THEN net' = net \ {msg} /\ UNCHANGED <<adj, tree, known, count>>
           ELSE IF n \in Client
           THEN Become(n, {msg}, tree[n], known[n], a, {m}, {})
           ELSE /\ adj' = [adj EXCEPT ![n] = a]
                /\ net' = (net \ {msg})
                          \cup Carried({Frame(n, m, "ClientSupport", 0, <<>>, {})})
                /\ UNCHANGED <<tree, known, count>>
    /\ UNCHANGED <<mesh, carrier, owed, faults, repairs, refreshes>>

(* A ClientOnly: the peer leaves the tree and enters the filters. *)
ReceiveClientOnly(n, msg) ==
    /\ msg \in net /\ msg.to = n /\ msg.type = "ClientOnly"
    /\ LET m == msg.from
           p == adj[n][m]
           stale == p.roleSeq > 0 /\ (msg.seq < p.roleSeq \/ (msg.seq = p.roleSeq /\ ~p.client))
           k == Without(known[n], m)
           t == IF m \in DOMAIN known[n] THEN Evaluated(n, tree[n], k) ELSE tree[n]
           a == [adj[n] EXCEPT ![m].roleSeq = msg.seq, ![m].supported = TRUE,
                               ![m].client = TRUE]
       IN  IF stale
           THEN net' = net \ {msg} /\ UNCHANGED <<adj, tree, known, count>>
           ELSE IF p.client
           THEN Become(n, {msg}, tree[n], known[n], a, {}, {})
           ELSE Become(n, {msg}, t, k, a,
                       IF t # tree[n] THEN DOMAIN a ELSE {}, DOMAIN a)
    /\ UNCHANGED <<mesh, carrier, owed, faults, repairs, refreshes>>

(* refreshClientRole, on the heartbeat. *)
RefreshClientRole(n) ==
    /\ n \in Client
    /\ refreshes[n] < mesh.maxRefreshes
    /\ refreshes' = [refreshes EXCEPT ![n] = @ + 1]
    /\ Become(n, {}, tree[n], known[n], adj[n], DOMAIN adj[n], {})
    /\ UNCHANGED <<mesh, carrier, owed, faults, repairs>>

ForgetQuietly(n, m) == \* mutant: a changed place is not announced
    LET k == Without(known[n], m)
        a == Without(adj[n], m)
        t == IF m \in DOMAIN known[n] THEN Evaluated(n, tree[n], k) ELSE tree[n]
    IN  Become(n, {msg \in net : {msg.from, msg.to} = {n, m}}, t, k, a, {}, DOMAIN a)

ForgetPath(n, m) == \* mutant: the peer's path stays in the peer map
    LET k == Without(known[n], m)
        t == IF m \in DOMAIN known[n] THEN Evaluated(n, tree[n], k) ELSE tree[n]
    IN  Become(n, {msg \in net : {msg.from, msg.to} = {n, m}}, t, k, adj[n],
               IF t # tree[n] THEN DOMAIN adj[n] ELSE {}, DOMAIN adj[n])

(* removePeerPath and removePeer, when n finds its link to m gone. *)
Forget(n, m) ==
    LET k == Without(known[n], m)
        a == Without(adj[n], m)
        t == IF m \in DOMAIN known[n] THEN Evaluated(n, tree[n], k) ELSE tree[n]
        changed == t # tree[n]
    IN  Become(n, {msg \in net : {msg.from, msg.to} = {n, m}}, t, k, a,
               IF changed THEN DOMAIN a ELSE {},
               IF changed \/ IsTreePeer(n, tree[n], known[n], m) THEN DOMAIN a ELSE {})

(* The carrier of a link fails: its frames are lost, one end notices. *)
Break(n, m) ==
    /\ faults < mesh.maxFaults
    /\ {n, m} \in carrier
    /\ faults' = faults + 1
    /\ carrier' = carrier \ {{n, m}}
    /\ Forget(n, m)
    /\ UNCHANGED <<mesh, owed, repairs, refreshes>>

(* The other end notices. *)
Notice(n, m) ==
    /\ m \in DOMAIN adj[n]
    /\ {n, m} \notin carrier
    /\ Forget(n, m)
    /\ UNCHANGED <<mesh, carrier, owed, faults, repairs, refreshes>>

(* The process of node n restarts. *)
Restart(n) ==
    /\ faults < mesh.maxFaults
    /\ faults' = faults + 1
    /\ carrier' = {l \in carrier : n \notin l}
    /\ net' = {msg \in net : n \notin {msg.from, msg.to}}
    /\ adj' = [adj EXCEPT ![n] = <<>>]
    /\ tree' = [tree EXCEPT ![n] = NewTree(n)]
    /\ known' = [known EXCEPT ![n] = <<>>]
    /\ count' = [count EXCEPT ![n] = NewCount]
    /\ owed' = [owed EXCEPT ![n] = FALSE]
    /\ UNCHANGED <<mesh, repairs, refreshes>>

Receive(n, msg) ==
    \/ ReceiveTree(n, msg)
    \/ ReceiveFilter(n, msg)
    \/ ReceiveSupport(n, msg)
    \/ ReceiveClientOnly(n, msg)

(* Work that is there is done: a frame of a standing carrier arrives, an   *)
(* end of a broken link finds out, a handler ends.  Which work comes first *)
(* is left open.                                                           *)
Work ==
    \/ \E n, m \in Node : Notice(n, m)
    \/ \E msg \in net : Receive(msg.to, msg)
    \/ \E n \in Node : SendFilters(n)

TreeNext ==
    \/ Work
    \/ \E a, b \in Node : Establish(a, b) \/ Break(a, b)
    \/ \E n \in Node : RefreshClientRole(n) \/ Restart(n)

TreeSpec == TreeInit /\ [][TreeNext]_treeVars

TreeFairness == WF_treeVars(Work)

FairTreeSpec == TreeSpec /\ TreeFairness

----------------------------------------------------------------------------
Frames ==
    [from : Node, to : Node,
     type : {"TreeAnnounce", "FilterAnnounce", "ClientSupport", "ClientOnly"},
     seq : Nat, ancestry : Seq(Node), filter : SUBSET Node]

(* Type invariant; also, what the tree knows of a peer goes with the peer, *)
(* so that a peer that comes back is heard from its first announcement on. *)
TreeTypeOK ==
    /\ carrier \subseteq mesh.links
    /\ net \subseteq Frames
    /\ \A n \in Node :
        /\ DOMAIN adj[n] \subseteq Node /\ DOMAIN known[n] \subseteq DOMAIN adj[n]
        /\ \A m \in DOMAIN adj[n] : {n, m} \in mesh.links
        /\ tree[n] \in [seq : Nat \ {0}, ancestry : Seq(Node)]
        /\ \A m \in DOMAIN known[n] : known[n][m] \in [seq : Nat \ {0}, ancestry : Seq(Node)]
    /\ \A l \in carrier : \A n, m \in l : n # m => m \in DOMAIN adj[n]

(* Whatever order announcements arrive in, and whatever was lost, no node  *)
(* ever puts itself on a path to the root that leads through itself, and   *)
(* every announcement it builds passes encodeTreeAnnounce's own checks: an *)
(* announcement that throws would leave the peers with the old place.      *)
AncestriesValid ==
    /\ \A n \in Node : ValidAncestry(n, tree[n].ancestry)
    /\ \A msg \in net :
        msg.type = "TreeAnnounce" => ValidAncestry(msg.from, msg.ancestry)

(* What a node knows is about present peers only, and what it announces is *)
(* well-formed.                                                            *)
WellFormed == TreeTypeOK /\ AncestriesValid

(* Nothing is in flight, owed or unnoticed. *)
Quiet ==
    /\ net = {}
    /\ \A n \in Node :
        /\ ~owed[n]
        /\ \A m \in DOMAIN adj[n] : {n, m} \in carrier

(* Once nothing is left to deliver, every node is on a shortest path to    *)
(* the lowest node it can reach over the links that stand, and its parent  *)
(* agrees: no node still follows a root that is gone, and no overtaken     *)
(* announcement has the last word (evaluateParent, handleTreeAnnounce,     *)
(* removePeer).                                                            *)
SettledTree ==
    Quiet => \A n \in Core :
        LET r == Lowest(Core, n, carrier)
            p == Parent(tree[n].ancestry)
        IN  /\ Root(tree[n].ancestry) = r
            /\ Len(tree[n].ancestry) = Hops(Core, n, r, carrier) + 1
            /\ n # r => {n, p} \in carrier /\ Tail(tree[n].ancestry) = tree[p].ancestry

(* ... and the filter a node has from a peer names every node on the       *)
(* peer's side of the tree, and nothing that is gone except strict         *)
(* clients: removePeer resends the filters for a tree peer or a changed    *)
(* parent, and a client that leaves is neither (outgoingFilterFor).        *)
SettledFilters ==
    Quiet => LET a == [n \in Node |-> tree[n].ancestry]
             IN  \A n, m \in Core :
                    m \in DOMAIN adj[n] =>
                        /\ Side(n, m, carrier, a) \subseteq adj[m][n].inFilter
                        /\ adj[m][n].inFilter \subseteq Side(n, m, carrier, a) \cup Client

(* Where a datagram for d is after i hops from n. *)
NextHopFor(n, d) ==
    IF d \in DOMAIN adj[n] THEN {d} ELSE NextHops(n, tree[d].ancestry)

Walk(n, d) ==
    LET w[i \in 0..Cardinality(Node)] ==
            IF i = 0 THEN {n} ELSE UNION {IF j = d THEN {d} ELSE NextHopFor(j, d) : j \in w[i - 1]}
    IN  w

(* ... and hop by hop, each node asking its own TreeState.nextHop, a       *)
(* datagram for the coordinates of any node of the mesh arrives.           *)
SettledRoutes ==
    Quiet => \A n \in Core : \A d \in Component(Core, n, carrier) :
        Walk(n, d)[Cardinality(Node)] = {d}

(* At rest the tree, the filters and the routes are right: no order of     *)
(* announcements, losses of links and restarts leaves a mesh that rests on *)
(* something else than what its links say.                                 *)
SettledRight == SettledTree /\ SettledFilters /\ SettledRoutes

(* Announcements answer announcements, and stale paths are tried before    *)
(* they are given up; still, after the last fault, the mesh falls silent.  *)
Settles == <>[]Quiet

============================================================================
