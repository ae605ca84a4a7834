------------------------------ MODULE FmpPeers ------------------------------
(***************************************************************************)
(* Adjacent peers: node/FmpTransportPacketProcessor.ts over fmp/link.ts,   *)
(* node/PendingFmpResponders.ts and the connect and path-removal code of   *)
(* node/FipsNode.ts.                                                       *)
(*                                                                         *)
(* Two nodes reach each other over several paths (carriers).  On each path *)
(* a node keeps a peer object with a link, perhaps a responder link that   *)
(* awaits its first frame, and links that drain; peersByPubkey names the   *)
(* path in use.  Handshakes cross, frames are lost, repeated and delayed,  *)
(* nodes restart with a new epoch, and a handshake message may turn up on  *)
(* another path than the one it was sent on.                               *)
(*                                                                         *)
(* A link draws one session index and one Noise ephemeral, so the index    *)
(* stands for both and "this message decrypts" is an equality of indexes.  *)
(***************************************************************************)
EXTENDS Integers, FiniteSets, Sequences

CONSTANTS
    Node,         \* two numbers, ordered like the node addresses
    Path,         \* carriers between the two, as keys of the peers map
    MaxPending,   \* MAX_PENDING_FMP_RESPONDERS
    HistoryLimit, \* FMP_REMOTE_EPOCH_HISTORY_LIMIT
    Environments, \* what the environment of a behaviour may do (see Environment)
    NoPath, Gone  \* peersByPubkey has no entry; its object is in no peers map

(* The nodes whose application calls connect; whether a handshake message  *)
(* may arrive on another path; and bounds: the links a node makes, those it *)
(* makes up to its last dial, the frames a link sends, the restarts of both *)
(* nodes, and the failed handshakes and disconnections.                    *)
Environment == [dialers : SUBSET Node, roaming : BOOLEAN, idx : Nat, dialIdx : Nat,
                tx : Nat \ {0}, restarts : Nat, drops : Nat]

ASSUME FmpAssumption ==
    /\ Node \subseteq Nat /\ \E a, b \in Node : a # b /\ Node = {a, b}
    /\ {MaxPending, HistoryLimit} \subseteq Nat
    /\ Environments \subseteq Environment
    /\ NoPath \notin Path /\ Gone \notin Path /\ NoPath # Gone

VARIABLES
    nodes,  \* nodes[n]: epoch, links drawn, peers by path, active path, epoch history
    net,    \* every message and frame ever sent: lost, repeated, late or in any order
    env     \* the environment; env.drops are those that may still come

vars == <<nodes, net, env>>

Other(n) == CHOOSE m \in Node : m # n

-----------------------------------------------------------------------------
(* Links and peers.  An absent link or peer is one in state "none".        *)

NewLink(st, role, idx, far, epoch) ==
    [st |-> st, role |-> role, idx |-> idx, far |-> far, epoch |-> epoch,
     tx |-> 0, rx |-> {}]

NoLink == NewLink("none", "responder", 0, 0, 0)

\* What is left of a link of which only its role is still read.
Closed(l) == NewLink("closed", l.role, 0, 0, 0)

NoPeer == [known |-> FALSE, link |-> NoLink, pend |-> NoLink, drain |-> {},
           hs |-> "none", got |-> FALSE, via |-> NoPath]

FreshNode(epoch, drawn) ==
    [epoch |-> epoch, drawn |-> drawn, peers |-> [p \in Path |-> NoPeer],
     active |-> NoPath, hist |-> <<>>]

Init ==
    /\ nodes = [n \in Node |-> FreshNode(1, 0)]
    /\ net = {}
    /\ env \in Environments

Established(l) == l.st = "established"

Present(peer) == peer.link.st # "none"

\* Msg1 and Msg2 carry the sender's index and epoch; Msg2 and frames the receiver's
\* index as well; a frame its counter.
Msg1(n, l, epoch, p) ==
    [type |-> "Msg1", from |-> n, idx |-> l.idx, to |-> 0, epoch |-> epoch, c |-> 0,
     path |-> p]
Msg2(n, l, epoch, p) ==
    [type |-> "Msg2", from |-> n, idx |-> l.idx, to |-> l.far, epoch |-> epoch, c |-> 0,
     path |-> p]
Frame(n, l) ==
    [type |-> "Frame", from |-> n, idx |-> l.idx, to |-> l.far, epoch |-> 0, c |-> l.tx,
     path |-> NoPath]

Arrives(m, p) == m.path = p \/ env.roaming

-----------------------------------------------------------------------------
(* Bookkeeping on a node's state s                                         *)

\* rememberRemoteEpoch
Remembered(hist, e) ==
    IF e = 0 \/ \E i \in DOMAIN hist : hist[i] = e THEN hist
    ELSE IF Len(hist) < HistoryLimit THEN Append(hist, e)
    ELSE Tail(Append(hist, e))

\* no history: the epochs of live links are all that counts
NotRetired(s, e) == FALSE

\* isRetiredRemoteEpoch
Retired(s, e) == \E i \in DOMAIN s.hist : s.hist[i] = e

\* rememberPeer of the processor: index the path, and remember its epoch.
Remember(s, p) ==
    [s EXCEPT !.active = p, !.hist = Remembered(@, s.peers[p].link.epoch)]

SetPeer(s, p, peer) == [s EXCEPT !.peers[p] = peer]

\* establishedRemoteEpoch: what other established links say (any of them is taken).
EpochElsewhere(s, l) ==
    {s.peers[p].link.epoch : p \in {q \in Path : /\ Established(s.peers[q].link)
                                                 /\ s.peers[q].link.idx # l.idx}}

\* The first one found, or e if there is none.
OneOf(epochs, e) == IF epochs = {} THEN {e} ELSE epochs

\* removePeerPath: the states after it, one for each alternate it may take.
Removed(s, p) ==
    LET left == SetPeer(s, p, NoPeer)
        alternates == {q \in Path : /\ s.peers[p].known
                                    /\ Established(left.peers[q].link)
                                    /\ left.peers[q].hs = "none"}
    IN  IF alternates # {} THEN {[left EXCEPT !.active = q] : q \in alternates}
        ELSE {[left EXCEPT !.active = IF @ = p THEN NoPath ELSE @]}

\* removeRestartedPeerPaths: every path of the identity goes.
WithoutPaths(s) ==
    [s EXCEPT !.peers = [p \in Path |-> IF s.peers[p].known THEN NoPeer ELSE s.peers[p]],
              !.active = NoPath]

\* the displaced link is closed
NotDrained(peer, l) == peer

\* drainAuthenticatedLink
Drained(peer, l) == IF Established(l) THEN [peer EXCEPT !.drain = @ \cup {l}] ELSE peer

PendingCount(s) == Cardinality({p \in Path : s.peers[p].pend # NoLink})

\* one entry too many
OverFull(s) == PendingCount(s) > MaxPending

\* The limit of PendingFmpResponders.set.
Full(s) == PendingCount(s) >= MaxPending

\* Make t the state of n.
Become(n, t) ==
    /\ t.drawn <= env.idx
    /\ nodes' = [nodes EXCEPT ![n] = t]

-----------------------------------------------------------------------------
(* Dialling                                                                *)

\* connectAdjacentPeer after its transport is up.  Whatever is on the path and not
\* established is closed and overwritten; an index that named it now dangles.
Connect(n, p) ==
    LET s == nodes[n]
        link == NewLink("handshaking", "initiator", s.drawn + 1, 0, 0)
    IN  /\ n \in env.dialers /\ s.drawn < env.dialIdx
        /\ s.peers[p].hs = "none"
        /\ ~Established(s.peers[p].link)
        /\ Become(n, [SetPeer(s, p, [NoPeer EXCEPT !.known = TRUE, !.link = link,
                                                   !.hs = "msg1"])
                        EXCEPT !.drawn = @ + 1, !.active = IF @ = p THEN Gone ELSE @])
        /\ net' = net \cup {Msg1(n, link, s.epoch, p)}
        /\ UNCHANGED env

\* The handshake is rejected, by its timer or because a send failed.
HandshakeFails(n, p) ==
    /\ env.drops > 0
    /\ nodes[n].peers[p].hs # "none"
    /\ \E t \in Removed(nodes[n], p) : Become(n, t)
    /\ env' = [env EXCEPT !.drops = @ - 1]
    /\ UNCHANGED net

\* onTransportConn
Disconnect(n, p) ==
    /\ env.drops > 0
    /\ Present(nodes[n].peers[p])
    /\ \E t \in Removed(nodes[n], p) : Become(n, t)
    /\ env' = [env EXCEPT !.drops = @ - 1]
    /\ UNCHANGED net

-----------------------------------------------------------------------------
(* Msg1                                                                    *)

Crossing(peer) == peer.link.role = "initiator" /\ peer.hs # "none"

\* Both ends wait for the other: each thinks the other one wins.
EitherYields(n) == TRUE

\* compareNodeAddr: the lower address keeps its own handshake.
Yields(n) == n > Other(n)

\* prepareMsg1Peer and the choice of branch: is the answer a link beside peer.link?
Staging(peer, m) ==
    \/ peer.link.role = "initiator"
    \/ peer.pend # NoLink /\ ~Established(peer.link)
    \/ Established(peer.link) /\ peer.link.far # m.idx

\* FmpLink.handleMsg1 for a link with this index.
Answering(idx, m) == NewLink("established", "responder", idx, m.idx, m.epoch)

\* stageUnconfirmedCarrier, peer.link being the link that answered: with another
\* carrier established this one waits for its first frame.
StageCarrier(s, p, l) ==
    [SetPeer(s, p, [s.peers[p] EXCEPT !.pend = l,
                       !.link = NewLink("init", "responder", s.drawn + 1, 0, 0)])
        EXCEPT !.drawn = @ + 1]

\* stageResponderReplacement: the pending link has answered this Msg1 already.
StagedAlready(peer, m) == peer.pend # NoLink /\ peer.pend.far = m.idx

\* rejectRetiredEpoch
RejectedMsg1(s, p, l) ==
    LET peer == s.peers[p] IN
    SetPeer(s, p, IF peer.pend = l THEN [peer EXCEPT !.pend = NoLink]
                  ELSE [peer EXCEPT !.link = Closed(l)])

\* reconcileAuthenticatedMsg1 for answer l, held by the peer of s as its link or as
\* its pending link; prev is the epoch known before.  Pairs of a state and whether
\* Msg2 is sent.
Reconciled(s, p, l, m, prev, crossing) ==
    LET peer == s.peers[p]
        known == SetPeer(s, p, [peer EXCEPT !.known = TRUE])
        changed == prev # m.epoch
    IN
    IF changed /\ Retired(s, m.epoch) THEN
        {<<RejectedMsg1(s, p, l), FALSE>>}
    ELSE IF changed THEN
        {<<Remember(SetPeer(WithoutPaths(s), p,
                            [NoPeer EXCEPT !.known = TRUE, !.link = l]), p), TRUE>>}
    ELSE IF crossing THEN
        {<<Remember(SetPeer(known, p, [known.peers[p] EXCEPT !.link = l, !.pend = NoLink,
                       !.hs = "none", !.got = FALSE, !.via = NoPath]), p), TRUE>>}
    ELSE IF peer.pend = l THEN
        {<<IF Established(peer.link) THEN Remember(known, p) ELSE known, TRUE>>}
    ELSE IF EpochElsewhere(s, l) = {} THEN
        {<<Remember(known, p), TRUE>>}
    ELSE LET free == SetPeer(known, p, [known.peers[p] EXCEPT !.pend = NoLink]) IN
         IF Full(free) THEN {<<t, FALSE>> : t \in Removed(free, p)}
         ELSE {<<StageCarrier(free, p, l), TRUE>>}

\* handleMsg1.  A responder link that was closed in place answers no more.
RecvMsg1(n, p, m) ==
    LET s == nodes[n]
        peer == s.peers[p]
        crossing == Crossing(peer)
        again == Staging(peer, m) /\ StagedAlready(peer, m)
        cached == ~Staging(peer, m) /\ Established(peer.link)
        draws == IF again \/ cached \/ (~Staging(peer, m) /\ peer.link.st = "init") THEN 0 ELSE 1
        l == CASE again -> peer.pend
               [] cached -> peer.link
               [] OTHER -> Answering(IF draws = 0 THEN peer.link.idx ELSE s.drawn + 1, m)
        discarded == SetPeer(s, p, [peer EXCEPT !.pend = NoLink])
        answered == [IF Staging(peer, m) THEN SetPeer(s, p, [peer EXCEPT !.pend = l])
                     ELSE SetPeer(s, p, [peer EXCEPT !.link = l]) EXCEPT !.drawn = @ + draws]
        before == IF peer.link.epoch # 0 THEN {peer.link.epoch}
                  ELSE OneOf(EpochElsewhere(answered, l), m.epoch)
    IN
    /\ m.type = "Msg1" /\ m.from = Other(n) /\ Arrives(m, p)
    /\ crossing => Yields(n)
    /\ Staging(peer, m) \/ peer.link.st # "closed"
    /\ UNCHANGED env
    /\ \/ \* pendingResponders.set throws
          /\ Staging(peer, m) /\ ~again
          /\ Full(discarded)
          /\ Become(n, [discarded EXCEPT !.drawn = @ + 1])
          /\ UNCHANGED net
       \/ /\ Staging(peer, m) /\ ~again => ~Full(discarded)
          /\ \E prev \in before : \E r \in Reconciled(answered, p, l, m, prev, crossing) :
                /\ Become(n, r[1])
                /\ net' = IF r[2] THEN net \cup {Msg2(n, l, s.epoch, p)} ELSE net

-----------------------------------------------------------------------------
(* Msg2 and its confirmation                                               *)

\* retireDisplacedMsg2Peer: the peer that stood where Msg2 came from makes way, its
\* links drain with p.
Displaced(s, p) ==
    LET q == s.peers[p].via IN
    IF q \notin Path \/ q = p \/ ~Present(s.peers[q]) THEN s
    ELSE LET old == s.peers[q]
             peer == Drained(Drained(s.peers[p], old.link), old.pend)
         IN  [SetPeer(SetPeer(s, q, NoPeer), p, [peer EXCEPT !.drain = @ \cup old.drain])
                EXCEPT !.active = IF @ = q THEN NoPath ELSE @]

\* Another path is in use and healthy.
HealthyElsewhere(s, p) ==
    /\ s.active \in Path \ {p}
    /\ Established(s.peers[s.active].link)

\* complete, once the confirmation was sent.
Complete(s, p) ==
    IF s.peers[p].hs = "sent" /\ (s.peers[p].got \/ ~HealthyElsewhere(s, p))
    THEN LET t == Remember(Displaced(s, p), p) IN
         SetPeer(t, p, [t.peers[p] EXCEPT !.hs = "none", !.got = FALSE, !.via = NoPath])
    ELSE s

\* rejectRetiredMsg2Peer: an established alternate, dialled or not, takes over.
RejectedMsg2(s, p) ==
    LET left == SetPeer(s, p, NoPeer)
        alternates == {q \in Path : Established(left.peers[q].link)}
    IN  IF alternates # {} THEN {Remember(left, q) : q \in alternates}
        ELSE {[left EXCEPT !.active = IF @ = p THEN NoPath ELSE @]}

\* matchMsg2Peer
Awaits(peer, m) == peer.hs # "none" /\ peer.link.idx = m.to

\* FmpLink.handleMsg2, and the counter of the keepalive that confirms.
Answered(m) == [NewLink("established", "initiator", m.to, m.idx, m.epoch) EXCEPT !.tx = 1]

\* handleMsg2, found by its receiver index whichever path it came on; prev is the epoch
\* of an established link on another path.  The first Msg2 ends with the keepalive that
\* confirms the link; complete waits for that send.  A repeated one is checked again.
RecvMsg2(n, p, q, m) ==
    LET s == nodes[n]
        peer == s.peers[p]
        first == peer.hs = "msg1"
        link == Answered(m)
        confirmed == IF first THEN [peer EXCEPT !.link = link, !.hs = "sending", !.via = q]
                     ELSE peer
    IN
    /\ m.type = "Msg2" /\ m.from = Other(n) /\ Arrives(m, q)
    /\ Awaits(peer, m)
    /\ first \/ peer.link.far = m.idx
    /\ \E prev \in OneOf(EpochElsewhere(s, peer.link), m.epoch) :
          IF prev # m.epoch /\ Retired(s, m.epoch)
          THEN /\ \E t \in RejectedMsg2(s, p) : Become(n, t)
               /\ UNCHANGED net
          ELSE /\ Become(n, IF prev # m.epoch
                            THEN SetPeer(WithoutPaths(s), p,
                                         [confirmed EXCEPT !.pend = NoLink, !.drain = {}])
                            ELSE SetPeer(s, p, confirmed))
               /\ net' = IF first THEN net \cup {Frame(n, [link EXCEPT !.tx = 0])} ELSE net
    /\ UNCHANGED env

\* The send of the keepalive has settled.
ConfirmSent(n, p) ==
    /\ nodes[n].peers[p].hs = "sending"
    /\ Become(n, Complete([nodes[n] EXCEPT !.peers[p].hs = "sent"], p))
    /\ UNCHANGED <<net, env>>

-----------------------------------------------------------------------------
(* Established frames                                                      *)

\* Heartbeats, announcements and data: the frames of an established link.
SendFrame(n, p) ==
    LET l == nodes[n].peers[p].link IN
    /\ Established(l) /\ l.tx < env.tx
    /\ Become(n, [nodes[n] EXCEPT !.peers[p].link.tx = @ + 1])
    /\ net' = net \cup {Frame(n, l)}
    /\ UNCHANGED env

\* decryptIncoming accepts frame f on link l.
Opens(l, f) == Established(l) /\ l.idx = f.to /\ l.far = f.idx /\ f.c \notin l.rx

Received(l, f) == [l EXCEPT !.rx = @ \cup {f.c}]

\* handleEstablished.  A first frame promotes the pending link: what it replaces drains
\* if it was established, and otherwise makes this the path in use.
RecvFrame(n, p, f) ==
    LET s == nodes[n]
        peer == s.peers[p]
        promoted == [peer EXCEPT !.link = Received(peer.pend, f), !.pend = NoLink]
    IN
    /\ f.type = "Frame" /\ f.from = Other(n)
    /\ UNCHANGED <<net, env>>
    /\ \/ /\ Opens(peer.link, f)
          /\ Become(n, Complete(SetPeer(s, p, [peer EXCEPT !.link = Received(@, f),
                                                 !.got = peer.hs \in {"sending", "sent"}]), p))
       \/ /\ Opens(peer.pend, f)
          /\ Become(n, IF Established(peer.link)
                       THEN SetPeer(s, p, Drained(promoted, peer.link))
                       ELSE Remember(SetPeer(s, p, promoted), p))
       \/ \E l \in peer.drain :
             /\ Opens(l, f)
             /\ Become(n, SetPeer(s, p, [peer EXCEPT !.drain =
                                            (@ \ {l}) \cup {Received(l, f)}]))

\* The timer of a pending responder.
PendingExpires(n, p) ==
    LET s == nodes[n]
        peer == s.peers[p]
    IN  /\ peer.pend # NoLink
        /\ \E t \in IF ~Established(peer.link) /\ peer.hs = "none"
                    THEN Removed(s, p)
                    ELSE {SetPeer(s, p, [peer EXCEPT !.pend = NoLink])} : Become(n, t)
        /\ UNCHANGED <<net, env>>

\* pruneDrainingResponderLinks
DrainExpires(n, p) ==
    /\ \E l \in nodes[n].peers[p].drain :
          Become(n, [nodes[n] EXCEPT !.peers[p].drain = @ \ {l}])
    /\ UNCHANGED <<net, env>>

\* stop and start, or a new process: a new epoch, nothing else is kept.  The departure
\* frames of a graceful stop are SendFrame steps before it; the receiver takes them for
\* any other frame.
Restart(n) ==
    /\ nodes[n].epoch + nodes[Other(n)].epoch < env.restarts + 2
    /\ Become(n, FreshNode(nodes[n].epoch + 1, nodes[n].drawn))
    /\ UNCHANGED <<net, env>>

Next ==
    \E n \in Node :
        \/ Restart(n)
        \/ \E p \in Path :
              \/ Connect(n, p) \/ HandshakeFails(n, p) \/ Disconnect(n, p)
              \/ ConfirmSent(n, p) \/ SendFrame(n, p)
              \/ PendingExpires(n, p) \/ DrainExpires(n, p)
              \/ \E m \in net : RecvMsg1(n, p, m) \/ RecvFrame(n, p, m)
              \/ \E m \in net, q \in Path : RecvMsg2(n, p, q, m)

Spec == Init /\ [][Next]_vars

\* What the network and the timers keep doing: handshake messages are sent again until
\* answered, heartbeats follow one another, and so each message of each link gets through;
\* a send settles.
Fairness ==
    \A n \in Node, p \in Path :
        /\ WF_vars(ConfirmSent(n, p))
        /\ WF_vars(SendFrame(n, p))
        /\ \A i \in UNION {1 .. e.idx : e \in Environments} :
              /\ WF_vars(\E m \in net : m.idx = i /\ RecvMsg1(n, p, m))
              /\ WF_vars(\E m \in net, q \in Path : m.idx = i /\ RecvMsg2(n, p, q, m))
              /\ WF_vars(\E m \in net : m.idx = i /\ RecvFrame(n, p, m))

FairSpec == Spec /\ Fairness

-----------------------------------------------------------------------------
(* Properties                                                              *)

Link == [st : {"none", "init", "handshaking", "established", "closed"},
         role : {"initiator", "responder"}, idx : 0 .. env.idx, far : 0 .. env.idx,
         epoch : 0 .. env.restarts + 1, tx : 0 .. env.tx, rx : SUBSET (0 .. env.tx)]

Peer == [known : BOOLEAN, link : Link, pend : Link, drain : SUBSET Link,
         hs : {"none", "msg1", "sending", "sent"}, got : BOOLEAN,
         via : Path \cup {NoPath}]

\* Every field has its type, and at most MAX_PENDING_FMP_RESPONDERS links are pending.
TypeOK ==
    \A n \in Node :
        /\ nodes[n].epoch \in 1 .. env.restarts + 1
        /\ nodes[n].drawn \in 0 .. env.idx
        /\ \A p \in Path : nodes[n].peers[p] \in Peer
        /\ nodes[n].active \in Path \cup {NoPath, Gone}
        /\ Len(nodes[n].hist) <= HistoryLimit
        /\ PendingCount(nodes[n]) <= MaxPending

\* The established links of s are of one life of the peer.  A responder of another life,
\* staged while nothing is established, may break this with its first frame.
OneLife(s) ==
    \A p, q \in Path : Established(s.peers[p].link) /\ Established(s.peers[q].link)
        => s.peers[p].link.epoch = s.peers[q].link.epoch

Live(s) == s.active \in Path /\ Established(s.peers[s.active].link)

\* "replayed relay handshakes cannot roll a live same-identity peer back in either
\* handshake role": while the path in use works, no handshake message, time-out or
\* disconnection alone brings a node to a life of the peer it had left before; only a
\* frame that the link of that life opens can.  Where carriers of two lives are
\* established (see OneLife), the loss of one makes the other the path in use.
NoRollback ==
    [][\A n \in Node :
          LET s == nodes[n]
              t == nodes'[n]
              now == t.peers[t.active].link
          IN  Live(s) /\ Live(t) /\ t.epoch = s.epoch /\ OneLife(s) =>
                  \/ now.epoch = s.peers[s.active].link.epoch
                  \/ now.rx # {}
                  \/ ~\E i \in DOMAIN s.hist : s.hist[i] = now.epoch]_vars

\* One more responder may await its first frame on the path in use.  Where it may not,
\* a repeated Msg1 on that path removes it, as PendingFmpResponders.set does.
Room(s) == ~Full(SetPeer(s, s.active, [s.peers[s.active] EXCEPT !.pend = NoLink]))

Held(s) == UNION {LET peer == s.peers[p] IN {peer.link, peer.pend} \cup peer.drain : p \in Path}

\* "Drain an authenticated link displaced by a same-address replacement": whatever
\* handshake messages and frames of the same life arrive, a node still holds, and can
\* still receive with, the link that was in use.  Three links may be lost: one whose path
\* has no Room, one that its remote has not confirmed and a crossing Msg1 replaces (it
\* is in use after rejectRetiredMsg2Peer), and one beside carriers of another life, if
\* the history has forgotten its own.
DisplacedDrains ==
    [][\A n \in Node :
          LET s == nodes[n]
              t == nodes'[n]
              old == s.peers[s.active].link
          IN  Live(s) /\ Live(t) /\ t.epoch = s.epoch /\ env' = env
              /\ t.peers[t.active].link.epoch = old.epoch
              /\ OneLife(s) /\ s.peers[s.active].hs = "none" /\ Room(s)
              => \E l \in Held(t) : /\ Established(l) /\ l.idx = old.idx
                                     /\ old.rx \subseteq l.rx]_vars

\* n uses a link that works, and its peer still receives what n sends on it.
Heard(n) ==
    LET l == nodes[n].peers[nodes[n].active].link IN
    /\ Live(nodes[n])
    /\ \E k \in Held(nodes[Other(n)]) : Established(k) /\ k.idx = l.far /\ k.far = l.idx

\* Whoever dials, and however the two handshakes cross, both ends come to hear each other.
Converges ==
    (\E n \in Node, p \in Path : nodes[n].peers[p].hs = "msg1") ~> \A n \in Node : Heard(n)
=============================================================================
