---------------------------- MODULE NodeLifecycle ----------------------------
(***************************************************************************)
(* start(), stop(), setBlockedPeerPubkeys() and connect() of               *)
(* node/FipsNode.ts, at the granularity of their awaits.                   *)
(*                                                                         *)
(* startNode and stopNode each run one shared task.  A start waits for a   *)
(* stop in progress and for a policy update; a stop waits for the start it *)
(* interrupts, for dials and for the update; an update stops and starts    *)
(* the node in turn, after the update before it.  discoveryGeneration is   *)
(* bumped by each of them, and whatever awaited across a bump is void.     *)
(*                                                                         *)
(* A settled promise is delivered to its waiters in the step that settles  *)
(* it; when they go on is up to the scheduler.                             *)
(***************************************************************************)
EXTENDS Naturals, FiniteSets

CONSTANTS
    N,           \* number of transports, started in the order 1 .. N
    Carrier,     \* the transports over which other nodes are reached
    Key,         \* identities of other nodes
    StartCall, StopCall, BlockCall,   \* calls of the three operations
    Dial,        \* calls of connect and connectDiscoveredPeer
    MaxFailures, \* transport starts and stops that fail, together
    None

Call == StartCall \cup StopCall \cup BlockCall
Transports == 1 .. N
Addr == Carrier \X Key

ASSUME NodeAssumption ==
    /\ N \in Nat \ {0}
    /\ Carrier \subseteq Transports
    /\ MaxFailures \in Nat
    /\ None \notin Call \cup Dial
    /\ StartCall \cap StopCall = {}
    /\ StartCall \cap BlockCall = {}
    /\ StopCall \cap BlockCall = {}

VARIABLES
    node,       \* desiredRunning, started, discoveryGeneration, the deny set ...
    starting,   \* the task of startTransports
    stopping,   \* the task of stopTransports
    transport,  \* transport[t]: open, and the generation of its context
    calls,      \* calls[c]: where a caller is
    dials,      \* dials[d]: a connectAdjacentPeer in progress
    pending,    \* pendingPeerConnects
    peers,      \* the peers map
    failures    \* transport failures so far

vars == <<node, starting, stopping, transport, calls, dials, pending, peers, failures>>

NoPeer == [state |-> "none", dial |-> None, orphaned |-> FALSE]
NoStart == [phase |-> "none", gen |-> 0, i |-> 0, closed |-> TRUE]
NoStop == [phase |-> "none", i |-> 0, failed |-> FALSE, dials |-> {}, start |-> FALSE]

Init ==
    /\ node = [desired |-> FALSE, started |-> FALSE, heartbeat |-> FALSE, cleanup |-> FALSE,
               gen |-> 0, blocked |-> {}, updating |-> FALSE, latest |-> None,
               overlapped |-> FALSE]
    /\ starting = NoStart
    /\ stopping = NoStop
    /\ transport = [t \in Transports |-> [open |-> FALSE, gen |-> 0]]
    /\ calls = [c \in Call |-> [pc |-> "idle", on |-> None, failed |-> FALSE,
                                overruled |-> FALSE]]
    /\ dials = [d \in Dial |-> [pc |-> "idle", addr |-> None, gen |-> 0]]
    /\ pending = [a \in Addr |-> None]
    /\ peers = [a \in Addr |-> NoPeer]
    /\ failures = 0

At(c, pc) == calls[c].pc = pc

\* A start() whose first await found nothing to wait for goes on in the next microtask,
\* before anything the tasks await can settle.
Prompt == \A c \in StartCall : calls[c].pc # "ready"

\* Caller c moves to pc.
To(cs, c, pc) == [cs EXCEPT ![c].pc = pc]

Finished(c) == calls[c].pc \in {"returned", "rejected"}

\* The update a caller has to wait for: admissionUpdate, if it has not settled.
Unsettled == node.latest # None /\ ~Finished(node.latest)

-----------------------------------------------------------------------------
(* startNode and stopNode, as called by c                                  *)

\* startNode joins the task in progress, returns when the node is up, or begins.
StartNode(c) ==
    \/ /\ starting.phase # "none"
       /\ calls' = To(calls, c, "awaitStart")
       /\ UNCHANGED <<node, starting>>
    \/ /\ starting.phase = "none"
       /\ node.started
       /\ calls' = To(calls, c, "started")
       /\ UNCHANGED <<node, starting>>
    \/ /\ starting.phase = "none"
       /\ ~node.started
       /\ node' = [node EXCEPT !.cleanup = TRUE, !.gen = @ + 1,
                               !.overlapped = @ \/ stopping.phase # "none"]
       /\ starting' = [phase |-> "starting", gen |-> node.gen + 1, i |-> 1, closed |-> TRUE]
       /\ calls' = To(calls, c, "awaitStart")

\* Peers that are told of the departure.
Departures(n) == {a \in Addr : peers[a].state = "established" /\ a[2] \notin n.blocked}

\* The links are closed and the handshakes under way rejected.
PeersClosed(p) == [a \in Addr |-> IF p[a].state = "none" THEN p[a]
                                  ELSE [p[a] EXCEPT !.state = "closed"]]

DialsRejected(ds) ==
    [d \in Dial |-> IF ds[d].pc = "handshake" /\ peers[ds[d].addr].dial = d
                    THEN [ds[d] EXCEPT !.pc = "rejected"] ELSE ds[d]]

\* stopNode, with the node record n the caller has already updated.
StopNode(c, n) ==
    \/ /\ stopping.phase # "none"
       /\ node' = n
       /\ calls' = To(calls, c, "awaitStop")
       /\ UNCHANGED <<stopping, dials, peers>>
    \/ /\ stopping.phase = "none"
       /\ ~n.cleanup /\ ~n.started /\ starting.phase = "none"
       /\ node' = n
       /\ calls' = [calls EXCEPT ![c].pc = "stopped", ![c].failed = FALSE]
       /\ UNCHANGED <<stopping, dials, peers>>
    \/ /\ stopping.phase = "none"
       /\ n.cleanup \/ n.started \/ starting.phase # "none"
       /\ node' = [n EXCEPT !.started = FALSE, !.heartbeat = FALSE, !.gen = @ + 1]
       /\ calls' = To(calls, c, "awaitStop")
       /\ IF Departures(n) # {}
          THEN /\ stopping' = [NoStop EXCEPT !.phase = "departing"]
               /\ UNCHANGED <<dials, peers>>
          ELSE /\ stopping' = [NoStop EXCEPT !.phase = "closing", !.i = 1]
               /\ dials' = DialsRejected(dials)
               /\ peers' = PeersClosed(peers)

-----------------------------------------------------------------------------
(* start()                                                                 *)

CallStart(c) ==
    /\ At(c, "idle")
    /\ node' = [node EXCEPT !.desired = TRUE]
    /\ calls' = [[x \in Call |-> [calls[x] EXCEPT !.overruled = @ \/ ~At(x, "idle")]]
                    EXCEPT ![c].pc = IF stopping.phase # "none" THEN "awaitStop" ELSE "ready"]
    /\ UNCHANGED <<starting, stopping, transport, dials, pending, peers, failures>>

\* Start, unless stop() was called meanwhile.
Proceed(c) ==
    \/ /\ ~node.desired
       /\ calls' = To(calls, c, "returned")
       /\ UNCHANGED <<node, starting>>
    \/ node.desired /\ StartNode(c)

\* The stop is over: wait for a policy update, if one is in progress, or start.
StartReady(c) ==
    /\ At(c, "ready")
    /\ \/ /\ node.updating
          /\ Unsettled
          /\ calls' = [calls EXCEPT ![c].pc = "awaitUpdate", ![c].on = node.latest]
          /\ UNCHANGED <<node, starting>>
       \/ ~(node.updating /\ Unsettled) /\ Proceed(c)
    /\ UNCHANGED <<stopping, transport, dials, pending, peers, failures>>

\* The update is over.
StartGo(c) ==
    /\ At(c, "go")
    /\ Proceed(c)
    /\ UNCHANGED <<stopping, transport, dials, pending, peers, failures>>

StartReturns(c) ==
    /\ At(c, "started")
    /\ calls' = To(calls, c, "returned")
    /\ UNCHANGED <<node, starting, stopping, transport, dials, pending, peers, failures>>

-----------------------------------------------------------------------------
(* stop()                                                                  *)

CallStop(c) ==
    /\ At(c, "idle")
    /\ StopNode(c, [node EXCEPT !.desired = FALSE])
    /\ UNCHANGED <<starting, transport, pending, failures>>

StopStopped(c) ==
    /\ At(c, "stopped")
    /\ calls' = [calls EXCEPT ![c].pc = IF Unsettled THEN "awaitUpdate" ELSE "returned",
                              ![c].on = node.latest]
    /\ UNCHANGED <<node, starting, stopping, transport, dials, pending, peers, failures>>

-----------------------------------------------------------------------------
(* setBlockedPeerPubkeys()                                                 *)

\* A set that differs from the one in force.  The deny set changes at once; the rest
\* is chained to the update before.
CallBlock(c, keys) ==
    /\ At(c, "idle")
    /\ keys # node.blocked
    /\ node' = [node EXCEPT !.blocked = keys, !.updating = TRUE, !.gen = @ + 1, !.latest = c]
    /\ calls' = [calls EXCEPT ![c].pc = IF Unsettled THEN "awaitUpdate" ELSE "stop",
                              ![c].on = node.latest]
    /\ UNCHANGED <<starting, stopping, transport, dials, pending, peers, failures>>

BlockStop(c) ==
    /\ At(c, "stop")
    /\ StopNode(c, node)
    /\ UNCHANGED <<starting, transport, pending, failures>>

\* wakes nobody but callers of start()
WakeStarts(x, ok) ==
    CASE x \in StartCall -> IF ok THEN "go" ELSE "rejected"
      [] OTHER -> "awaitUpdate"

\* Where a caller that awaited an update goes on.
AfterUpdate(x, ok) ==
    CASE x \in StartCall -> IF ok THEN "go" ELSE "rejected"
      [] x \in StopCall -> "returned"
      [] x \in BlockCall -> "stop"

\* The update of c is over: its waiters go on, and the latest one ends the updating.
UpdateSettles(c, ok) ==
    /\ calls' = [x \in Call |->
          CASE x = c -> [calls[x] EXCEPT !.pc = IF ok THEN "returned" ELSE "rejected"]
            [] x # c /\ At(x, "awaitUpdate") /\ calls[x].on = c ->
                  [calls[x] EXCEPT !.pc = AfterUpdate(x, ok)]
            [] OTHER -> calls[x]]
    /\ node' = [node EXCEPT !.updating = @ /\ node.latest # c]

BlockStopped(c) ==
    /\ At(c, "stopped")
    /\ \/ calls[c].failed /\ UpdateSettles(c, FALSE) /\ UNCHANGED starting
       \/ ~calls[c].failed /\ ~node.desired /\ UpdateSettles(c, TRUE) /\ UNCHANGED starting
       \/ ~calls[c].failed /\ node.desired /\ StartNode(c)
    /\ UNCHANGED <<stopping, transport, dials, pending, peers, failures>>

\* The start the update asked for is over.
BlockStarted(c) ==
    /\ calls[c].pc \in {"started", "startFailed"}
    /\ UpdateSettles(c, At(c, "started"))
    /\ UNCHANGED <<starting, stopping, transport, dials, pending, peers, failures>>

-----------------------------------------------------------------------------
(* The task of startTransports                                             *)

\* The callers of startNode learn how it ended; a stop that waits for it goes on.
StartSettles(ok) ==
    /\ starting' = NoStart
    /\ stopping' = [stopping EXCEPT !.start = FALSE]
    /\ calls' = [x \in Call |->
          IF At(x, "awaitStart")
          THEN [calls[x] EXCEPT !.pc =
                  IF x \in BlockCall THEN IF ok THEN "started" ELSE "startFailed"
                  ELSE IF ok THEN "returned" ELSE "rejected"]
          ELSE calls[x]]

\* if (!current() || !this.desiredRunning) throw
StillWanted == starting.gen = node.gen /\ node.desired

\* The loop over the transports is done.
AllStarted == starting.i = N

\* t.start() is fulfilled.  The last one makes the node run.
TransportStarts ==
    /\ starting.phase = "starting"
    /\ Prompt
    /\ transport' = [transport EXCEPT ![starting.i] = [open |-> TRUE, gen |-> starting.gen]]
    /\ \/ /\ ~StillWanted
          /\ starting' = [starting EXCEPT !.phase = "unwinding"]
          /\ node' = [node EXCEPT !.gen = @ + 1]
          /\ UNCHANGED <<stopping, calls>>
       \/ /\ StillWanted
          /\ ~AllStarted
          /\ starting' = [starting EXCEPT !.i = @ + 1]
          /\ UNCHANGED <<node, stopping, calls>>
       \/ /\ StillWanted
          /\ AllStarted
          /\ node' = [node EXCEPT !.started = TRUE, !.heartbeat = TRUE]
          /\ StartSettles(TRUE)
    /\ UNCHANGED <<dials, pending, peers, failures>>

TransportStartFails ==
    /\ starting.phase = "starting"
    /\ Prompt
    /\ failures < MaxFailures
    /\ failures' = failures + 1
    /\ node' = [node EXCEPT !.gen = @ + 1]
    /\ starting' = [starting EXCEPT !.phase = "unwinding"]
    /\ UNCHANGED <<stopping, transport, calls, dials, pending, peers>>

\* t.stop() settles: it closes the transport, or fails and leaves it open.
Closes(t, closed) ==
    /\ closed \/ failures < MaxFailures
    /\ failures' = IF closed THEN failures ELSE failures + 1
    /\ transport' = [transport EXCEPT ![t].open = @ /\ ~closed]

\* One t.stop() of the cleanup after a failed or cancelled start, last started first.
\* Peers that connected meanwhile stay in the map (they are marked for the properties).
Unwind(closed) ==
    /\ starting.phase = "unwinding"
    /\ Prompt
    /\ Closes(starting.i, closed)
    /\ \/ /\ starting.i > 1
          /\ starting' = [starting EXCEPT !.i = @ - 1, !.closed = @ /\ closed]
          /\ UNCHANGED <<node, stopping, calls, peers>>
       \/ /\ starting.i = 1
          /\ peers' = [a \in Addr |-> [peers[a] EXCEPT !.orphaned = peers[a].state # "none"]]
          /\ node' = [node EXCEPT !.cleanup = ~(starting.closed /\ closed)]
          /\ StartSettles(FALSE)
    /\ UNCHANGED <<dials, pending>>

-----------------------------------------------------------------------------
(* The task of stopTransports                                              *)

\* The departures are sent, or 100 ms are over.
Departed ==
    /\ stopping.phase = "departing"
    /\ Prompt
    /\ stopping' = [stopping EXCEPT !.phase = "closing", !.i = 1]
    /\ dials' = DialsRejected(dials)
    /\ peers' = PeersClosed(peers)
    /\ UNCHANGED <<node, starting, transport, calls, pending, failures>>

StopTransport(closed) ==
    /\ stopping.phase = "closing"
    /\ Prompt
    /\ Closes(stopping.i, closed)
    /\ stopping' = [stopping EXCEPT !.failed = @ \/ ~closed,
                                    !.phase = IF stopping.i = N THEN "draining" ELSE @,
                                    !.i = IF @ = N THEN 0 ELSE @ + 1]
    /\ UNCHANGED <<node, starting, calls, dials, pending, peers>>

\* without the start it interrupted
AwaitsDials ==
    /\ stopping.phase = "draining"
    /\ Prompt
    /\ stopping' = [stopping EXCEPT !.phase = "settling",
                                    !.dials = {pending[a] : a \in Addr} \ {None}]
    /\ UNCHANGED <<node, starting, transport, calls, dials, pending, peers, failures>>

\* Discovery has ended.  The dials and the start in progress now are awaited.
AwaitsOthers ==
    /\ stopping.phase = "draining"
    /\ Prompt
    /\ stopping' = [stopping EXCEPT !.phase = "settling",
                                    !.dials = {pending[a] : a \in Addr} \ {None},
                                    !.start = starting.phase # "none"]
    /\ UNCHANGED <<node, starting, transport, calls, dials, pending, peers, failures>>

\* the maps are left to the dials' own cleanup
StopSettlesKeepingPeers ==
    /\ stopping.phase = "settling"
    /\ Prompt
    /\ ~stopping.start
    /\ \A d \in stopping.dials : dials[d].pc = "done"
    /\ node' = [node EXCEPT !.cleanup = stopping.failed]
    /\ stopping' = NoStop
    /\ calls' = [x \in Call |->
          IF At(x, "awaitStop")
          THEN [calls[x] EXCEPT !.pc = IF x \in StartCall THEN "ready" ELSE "stopped",
                                !.failed = stopping.failed]
          ELSE calls[x]]
    /\ UNCHANGED <<starting, transport, dials, pending, peers, failures>>

\* All maps are cleared; whoever waited for the stop goes on.
StopSettles ==
    /\ stopping.phase = "settling"
    /\ Prompt
    /\ ~stopping.start
    /\ \A d \in stopping.dials : dials[d].pc = "done"
    /\ peers' = [a \in Addr |-> NoPeer]
    /\ pending' = [a \in Addr |-> None]
    /\ node' = [node EXCEPT !.cleanup = stopping.failed]
    /\ stopping' = NoStop
    /\ calls' = [x \in Call |->
          IF At(x, "awaitStop")
          THEN [calls[x] EXCEPT !.pc = IF x \in StartCall THEN "ready" ELSE "stopped",
                                !.failed = stopping.failed]
          ELSE calls[x]]
    /\ UNCHANGED <<starting, transport, dials, failures>>

-----------------------------------------------------------------------------
(* Dials and peers                                                         *)

\* connect, connectDiscoveredPeer, a route resolver: a dial to an address nobody
\* dials yet.  Only connect refuses while the policy is updated, so a dial may begin
\* then too.
CallConnect(d, a) ==
    /\ dials[d].pc = "idle"
    /\ a[2] \notin node.blocked
    /\ pending[a] = None
    /\ peers[a].state # "established"
    /\ dials' = [dials EXCEPT ![d] = [pc |-> "transport", addr |-> a, gen |-> node.gen]]
    /\ pending' = [pending EXCEPT ![a] = d]
    /\ UNCHANGED <<node, starting, stopping, transport, calls, peers, failures>>

DialEnds(d) ==
    /\ dials' = [dials EXCEPT ![d].pc = "done"]
    /\ pending' = [a \in Addr |-> IF pending[a] = d THEN None ELSE pending[a]]

\* what connectKnownPeer checked is still true
NeverRevoked(d) == FALSE

\* The deny set or the generation changed while the transport connected.
Revoked(d) == dials[d].addr[2] \in node.blocked \/ dials[d].gen # node.gen

\* transport.connect() settles.
DialTransport(d) ==
    LET a == dials[d].addr IN
    /\ dials[d].pc = "transport"
    /\ \/ UNCHANGED peers /\ DialEnds(d)   \* the transport fails, or is not open
       \/ /\ transport[a[1]].open
          /\ ~Revoked(d)
          /\ peers[a].state # "established"
          /\ peers' = [peers EXCEPT ![a] = [state |-> "handshaking", dial |-> d,
                                          orphaned |-> FALSE]]
          /\ dials' = [dials EXCEPT ![d].pc = "handshake"]
          /\ UNCHANGED pending
    /\ UNCHANGED <<node, starting, stopping, transport, calls, failures>>

\* The context of an open transport is the current one.
Live(t) == transport[t].open /\ transport[t].gen = node.gen

\* Msg2 arrives: the link is established, and a keepalive is sent to confirm it.
Msg2Arrives(d) ==
    LET a == dials[d].addr IN
    /\ dials[d].pc = "handshake"
    /\ peers[a].state = "handshaking" /\ peers[a].dial = d
    /\ Live(a[1])
    /\ a[2] \notin node.blocked
    /\ peers' = [peers EXCEPT ![a].state = "established"]
    /\ UNCHANGED <<node, starting, stopping, transport, calls, dials, pending, failures>>

\* The keepalive is out: the dial succeeds if its link still stands.
DialSucceeds(d) ==
    LET a == dials[d].addr IN
    /\ dials[d].pc = "handshake"
    /\ peers[a].state = "established" /\ peers[a].dial = d
    /\ a[2] \notin node.blocked
    /\ DialEnds(d)
    /\ UNCHANGED <<node, starting, stopping, transport, calls, peers, failures>>

\* The handshake timer fires, or Msg1 or the keepalive cannot be sent.
DialFails(d) ==
    /\ dials[d].pc = "handshake"
    /\ dials' = [dials EXCEPT ![d].pc = "rejected"]
    /\ UNCHANGED <<node, starting, stopping, transport, calls, pending, peers, failures>>

\* The finally block: the peer goes, unless another one has taken its place.
DialFinally(d) ==
    /\ dials[d].pc = "rejected"
    /\ peers' = [a \in Addr |-> IF peers[a].dial = d THEN NoPeer ELSE peers[a]]
    /\ DialEnds(d)
    /\ UNCHANGED <<node, starting, stopping, transport, calls, failures>>

\* A peer dials in; its Msg1 is accepted.
PeerConnects(a) ==
    /\ Live(a[1])
    /\ a[2] \notin node.blocked
    /\ peers[a].state = "none"
    /\ peers' = [peers EXCEPT ![a] = [state |-> "established", dial |-> None,
                                          orphaned |-> FALSE]]
    /\ UNCHANGED <<node, starting, stopping, transport, calls, dials, pending, failures>>

\* onTransportConn: the connection is gone.
PeerDisconnects(a) ==
    /\ Live(a[1])
    /\ peers[a].state # "none"
    /\ peers' = [peers EXCEPT ![a] = NoPeer]
    /\ dials' = [d \in Dial |-> IF peers[a].dial = d /\ dials[d].pc = "handshake"
                                THEN [dials[d] EXCEPT !.pc = "rejected"] ELSE dials[d]]
    /\ UNCHANGED <<node, starting, stopping, transport, calls, pending, failures>>

-----------------------------------------------------------------------------
Next ==
    \/ \E c \in StartCall : CallStart(c) \/ StartReady(c) \/ StartGo(c) \/ StartReturns(c)
    \/ \E c \in StopCall : CallStop(c) \/ StopStopped(c)
    \/ \E c \in BlockCall :
          \/ \E keys \in SUBSET Key : CallBlock(c, keys)
          \/ BlockStop(c) \/ BlockStopped(c) \/ BlockStarted(c)
    \/ TransportStarts
    \/ TransportStartFails
    \/ \E closed \in BOOLEAN : Unwind(closed) \/ StopTransport(closed)
    \/ Departed
    \/ AwaitsOthers
    \/ StopSettles
    \/ \E d \in Dial :
          \/ \E a \in Addr : CallConnect(d, a)
          \/ DialTransport(d) \/ Msg2Arrives(d) \/ DialSucceeds(d)
          \/ DialFails(d) \/ DialFinally(d)
    \/ \E a \in Addr : PeerConnects(a) \/ PeerDisconnects(a)

Spec == Init /\ [][Next]_vars

\* Promise continuations run, transports settle what they are asked, timers fire.
\* Nobody has to call anything, and no peer has to answer.
Fairness ==
    /\ \A c \in StartCall : WF_vars(StartReady(c) \/ StartGo(c) \/ StartReturns(c))
    /\ \A c \in StopCall : WF_vars(StopStopped(c))
    /\ \A c \in BlockCall : WF_vars(BlockStop(c) \/ BlockStopped(c) \/ BlockStarted(c))
    /\ WF_vars(TransportStarts \/ \E closed \in BOOLEAN : Unwind(closed))
    /\ WF_vars(Departed \/ AwaitsOthers \/ StopSettles
               \/ \E closed \in BOOLEAN : StopTransport(closed))
    /\ \A d \in Dial : WF_vars(DialTransport(d) \/ DialFails(d) \/ DialFinally(d))

FairSpec == Spec /\ Fairness

-----------------------------------------------------------------------------
(* Properties                                                              *)

\* Every variable has its type.
TypeOK ==
    /\ node \in [desired : BOOLEAN, started : BOOLEAN, heartbeat : BOOLEAN, cleanup : BOOLEAN,
                 gen : Nat, blocked : SUBSET Key, updating : BOOLEAN,
                 latest : BlockCall \cup {None}, overlapped : BOOLEAN]
    /\ starting \in [phase : {"none", "starting", "unwinding"}, gen : Nat, i : 0 .. N,
                     closed : BOOLEAN]
    /\ stopping \in [phase : {"none", "departing", "closing", "draining", "settling"},
                     i : 0 .. N, failed : BOOLEAN, dials : SUBSET Dial, start : BOOLEAN]
    /\ transport \in [Transports -> [open : BOOLEAN, gen : Nat]]
    /\ calls \in [Call -> [pc : {"idle", "ready", "go", "stop", "stopped", "started", "startFailed",
                                 "awaitStop", "awaitStart", "awaitUpdate", "returned", "rejected"},
                           on : BlockCall \cup {None}, failed : BOOLEAN, overruled : BOOLEAN]]
    /\ dials \in [Dial -> [pc : {"idle", "transport", "handshake", "rejected", "done"},
                           addr : Addr \cup {None}, gen : Nat]]
    /\ pending \in [Addr -> Dial \cup {None}]
    /\ peers \in [Addr -> [state : {"none", "handshaking", "established", "closed"},
                           dial : Dial \cup {None}, orphaned : BOOLEAN]]
    /\ failures \in 0 .. MaxFailures

\* No path at this address, unless a start that failed or was cancelled left it behind.
Gone(a) == peers[a].state = "none" \/ peers[a].orphaned

\* Once stop() has returned and nobody has called start() since, the node is down and
\* stays down: no heartbeat, no start in progress and, unless a transport failed to
\* close, no transport open and no peer.  Policy updates and interrupted starts that were
\* under way, or come later, do not bring it up again (README: "stopping the node
\* during an update prevents it from restarting").  The exception: a start that began
\* while a stop was closing the transports; a second stop() that joins the first one's
\* task then returns although the node runs, or is about to.
StoppedStaysDown ==
    \A c \in StopCall :
        At(c, "returned") /\ ~calls[c].overruled /\ ~node.overlapped =>
            /\ ~node.started /\ ~node.heartbeat
            /\ starting.phase = "none"
            /\ failures = 0 => /\ \A t \in Transports : ~transport[t].open
                               /\ \A a \in Addr : Gone(a)

\* A node that runs, and is not being stopped, has all its transports open under
\* contexts it listens to, unless a policy update has just voided them.  The exception:
\* start(), stop(), start() on a running node without awaiting, where the first start
\* begins while the stop is closing the transports.
RunningHasTransports ==
    node.started /\ stopping.phase = "none" /\ ~node.overlapped =>
        \A t \in Transports : transport[t].open /\ (node.updating \/ Live(t))

\* Whatever is called and resumes in whatever order, a node is down for good after a
\* stop and has its transports while it runs (startTransports, stopTransports).
LifecycleInv == TypeOK /\ StoppedStaysDown /\ RunningHasTransports

\* An update that was acknowledged, and is still the last one, has taken effect: no
\* path of a denied identity is left, and none comes back.  Two exceptions: a path
\* that came up during a start that was then cancelled (stopTransports finds nothing
\* to clean up and leaves it in the map), and a transport that failed to close.
RevocationHolds ==
    \A c \in BlockCall :
        At(c, "returned") /\ node.latest = c /\ failures = 0 =>
            \A a \in Addr : a[2] \in node.blocked =>
                Gone(a)

\* The deny set changes synchronously: from then on no path of a denied identity
\* comes up, though it was dialed, or its packet awaited, before.
DeniedAtOnce ==
    [][\A a \in Addr : a[2] \in node.blocked /\ peers'[a].state # peers[a].state =>
            peers'[a].state \in {"none", "closed"}]_vars

\* However calls overlap, nobody waits forever for somebody who waits for him.
CallsReturn == \A c \in Call : ~At(c, "idle") ~> Finished(c)
=============================================================================
