------------------------ MODULE NodeLifecycle_proofs ------------------------
(***************************************************************************)
(* For any number of transports, identities, overlapping calls and dials   *)
(* and of failures: a stopped node stays down, a running one has its       *)
(* transports, an acknowledged update has taken effect, and no path of a   *)
(* denied identity comes up.                                               *)
(***************************************************************************)
EXTENDS NodeLifecycle, TLAPS

-----------------------------------------------------------------------------
(* The inductive invariant                                                 *)

\* The loops over the transports are at one of them.
LoopsOK ==
    /\ starting.phase # "none" => starting.i \in Transports
    /\ stopping.phase = "closing" => stopping.i \in Transports

\* Where calls of stop() and of setBlockedPeerPubkeys() may be.
PlacesOK ==
    /\ \A c \in StopCall : calls[c].pc \in {"idle", "awaitStop", "stopped", "awaitUpdate", "returned"}
    /\ \A c \in BlockCall : calls[c].pc # "ready" /\ calls[c].pc # "go"
    /\ node.updating <=> Unsettled
    /\ \A c \in Call : At(c, "awaitStop") => stopping.phase # "none"

\* Something went wrong whenever somebody noted so.
FailuresNoted ==
    failures = 0 => ~stopping.failed /\ starting.closed

\* A start in progress has not made the node run; one that a stop interrupted is void.
StartsOK ==
    /\ node.heartbeat <=> node.started
    /\ node.started => starting.phase = "none"
    /\ starting.phase # "none" => starting.gen <= node.gen
    /\ stopping.phase # "none" /\ ~node.overlapped =>
          /\ ~node.started
          /\ starting.phase # "none" => starting.gen < node.gen
          /\ stopping.phase = "settling" /\ ~stopping.start => starting.phase = "none"

Active == node.started \/ starting.phase # "none" \/ stopping.phase # "none"

\* The transports that are open are the running node's, those a start has reached, and
\* those a stop has not reached.
OpenOK ==
    failures = 0 => \A t \in Transports : transport[t].open =>
        \/ node.started
        \/ starting.phase # "none" /\ t <= starting.i
        \/ stopping.phase = "departing"
        \/ stopping.phase = "closing" /\ t >= stopping.i

\* With nothing in progress a node that is down has nothing to clean up.
IdleOK ==
    failures = 0 /\ ~Active => ~node.cleanup /\ \A a \in Addr : Gone(a)

\* A start that is still wanted has its transports; so does a node that runs, under its
\* present generation unless an update bumped that and is yet to stop the node.
ContextsOK ==
    ~node.overlapped =>
        /\ starting.phase = "starting" /\ starting.gen = node.gen =>
              \A t \in Transports : t < starting.i =>
                  transport[t].open /\ transport[t].gen = node.gen
        /\ node.started /\ stopping.phase = "none" =>
              /\ \A t \in Transports : transport[t].open
              /\ \/ \A t \in Transports : transport[t].gen = node.gen
                 \/ node.latest # None /\ calls[node.latest].pc \in {"awaitUpdate", "stop"}

\* From its stop to its end, and on, a stop() that no start() followed has the node down.
StopsOK ==
    \A c \in StopCall :
        ~At(c, "idle") /\ ~calls[c].overruled =>
            /\ ~node.desired
            /\ ~At(c, "awaitStop") /\ ~node.overlapped =>
                  /\ ~node.started /\ starting.phase = "none"
                  /\ failures = 0 => stopping.phase = "none"

\* Once the latest update has stopped the node no path of a denied identity is left.
UpdateOK ==
    /\ node.latest # None
    /\ calls[node.latest].pc \in {"stopped", "awaitStart", "started", "startFailed", "returned"}
    /\ failures = 0
    => \A a \in Addr : a[2] \in node.blocked => Gone(a)

Inv == /\ TypeOK /\ LoopsOK /\ PlacesOK /\ FailuresNoted /\ StartsOK /\ OpenOK /\ IdleOK
       /\ ContextsOK /\ StopsOK /\ UpdateOK

-----------------------------------------------------------------------------
(* Calls                                                                   *)

CallState ==
    [pc : {"idle", "ready", "go", "stop", "stopped", "started", "startFailed",
           "awaitStop", "awaitStart", "awaitUpdate", "returned", "rejected"},
     on : BlockCall \cup {None}, failed : BOOLEAN, overruled : BOOLEAN]

NodeState ==
    [desired : BOOLEAN, started : BOOLEAN, heartbeat : BOOLEAN, cleanup : BOOLEAN,
     gen : Nat, blocked : SUBSET Key, updating : BOOLEAN,
     latest : BlockCall \cup {None}, overlapped : BOOLEAN]

StartState ==
    [phase : {"none", "starting", "unwinding"}, gen : Nat, i : 0 .. N, closed : BOOLEAN]

StopState ==
    [phase : {"none", "departing", "closing", "draining", "settling"},
     i : 0 .. N, failed : BOOLEAN, dials : SUBSET Dial, start : BOOLEAN]

PeerState ==
    [state : {"none", "handshaking", "established", "closed"},
     dial : Dial \cup {None}, orphaned : BOOLEAN]

DialState ==
    [pc : {"idle", "transport", "handshake", "rejected", "done"},
     addr : Addr \cup {None}, gen : Nat]

LEMMA Types ==
  TypeOK <=> /\ node \in NodeState /\ starting \in StartState /\ stopping \in StopState
             /\ transport \in [Transports -> [open : BOOLEAN, gen : Nat]]
             /\ calls \in [Call -> CallState] /\ dials \in [Dial -> DialState]
             /\ pending \in [Addr -> Dial \cup {None}] /\ peers \in [Addr -> PeerState]
             /\ failures \in 0 .. MaxFailures
  BY DEF TypeOK, NodeState, StartState, StopState, CallState, DialState, PeerState

LEMMA PrimedTypes ==
  TypeOK' <=> /\ node' \in NodeState /\ starting' \in StartState /\ stopping' \in StopState
              /\ transport' \in [Transports -> [open : BOOLEAN, gen : Nat]]
              /\ calls' \in [Call -> CallState] /\ dials' \in [Dial -> DialState]
              /\ pending' \in [Addr -> Dial \cup {None}] /\ peers' \in [Addr -> PeerState]
              /\ failures' \in 0 .. MaxFailures
  BY DEF TypeOK, NodeState, StartState, StopState, CallState, DialState, PeerState

LEMMA Kinds ==
  /\ StartCall \subseteq Call /\ StopCall \subseteq Call /\ BlockCall \subseteq Call
  /\ \A c \in StartCall : c \notin StopCall /\ c \notin BlockCall
  /\ \A c \in StopCall : c \notin StartCall /\ c \notin BlockCall
  /\ \A c \in Call : c \in StartCall \/ c \in StopCall \/ c \in BlockCall
  /\ None \notin Call /\ None \notin BlockCall
  BY NodeAssumption DEF Call

\* A step of dials and peers: a path comes up only over an open transport, and only
\* to an identity that is not denied.
LEMMA PeerStep ==
  ASSUME Inv, TypeOK',
         UNCHANGED <<node, starting, stopping, transport, calls, failures>>,
         \A a \in Addr : peers[a].state = "none" \/ peers[a].orphaned =>
             \/ peers'[a].state = "none" \/ peers'[a].orphaned
             \/ a[2] \notin node.blocked /\ transport[a[1]].open
  PROVE  Inv'
  <1> USE DEF Inv
  <1>1. /\ LoopsOK' /\ PlacesOK' /\ FailuresNoted' /\ StartsOK' /\ OpenOK' /\ ContextsOK'
        /\ StopsOK'
    BY DEF LoopsOK, PlacesOK, FailuresNoted, StartsOK, OpenOK, ContextsOK, StopsOK, Unsettled,
           Finished, At, Live
  <1>2. IdleOK'
    <2>1. SUFFICES ASSUME failures = 0, ~Active
                   PROVE  /\ ~node.cleanup
                          /\ \A a \in Addr : peers'[a].state = "none" \/ peers'[a].orphaned
      BY DEF IdleOK, Active, Gone
    <2>2. /\ ~node.cleanup
          /\ \A a \in Addr : peers[a].state = "none" \/ peers[a].orphaned
      BY <2>1 DEF IdleOK, Gone
    <2>3. \A t \in Transports : ~transport[t].open
      BY <2>1 DEF OpenOK, Active
    <2>4. \A a \in Addr : a[1] \in Transports
      BY NodeAssumption DEF Addr
    <2> QED
      BY <2>2, <2>3, <2>4
  <1>3. UpdateOK'
    BY DEF UpdateOK, Gone
  <1> QED
    BY <1>1, <1>2, <1>3

\* A step of one caller of start() or stop().
LEMMA CallerStep ==
  ASSUME Inv, NEW c \in StartCall \cup StopCall, calls' \in [Call -> CallState],
         \A x \in Call : x # c => calls'[x] = calls[x],
         calls'[c].pc # "awaitStop", calls'[c].overruled = calls[c].overruled,
         c \in StopCall => /\ At(c, "stopped")
                           /\ calls'[c].pc \in {"awaitUpdate", "returned"},
         UNCHANGED <<node, starting, stopping, transport, dials, pending, peers, failures>>
  PROVE  Inv'
  <1> USE DEF Inv
  <1>1. TypeOK'
    BY Types, PrimedTypes
  <1>2. LoopsOK' /\ FailuresNoted' /\ StartsOK' /\ OpenOK' /\ IdleOK'
    BY DEF LoopsOK, FailuresNoted, StartsOK, OpenOK, IdleOK, Active, Gone
  <1>3. node.latest # None => calls'[node.latest] = calls[node.latest]
    BY Types, Kinds DEF NodeState
  <1>4. PlacesOK'
    BY <1>3, Kinds DEF PlacesOK, Unsettled, Finished, At
  <1>5. ContextsOK'
    BY <1>3 DEF ContextsOK
  <1>6. StopsOK'
    BY Kinds DEF StopsOK, At
  <1>7. UpdateOK'
    BY <1>3 DEF UpdateOK, Gone
  <1> QED
    BY <1>1, <1>2, <1>4, <1>5, <1>6, <1>7

LEMMA ToFacts ==
  ASSUME calls \in [Call -> CallState], NEW c \in Call,
         NEW pc \in {"idle", "ready", "go", "stop", "stopped", "started", "startFailed",
                     "awaitStop", "awaitStart", "awaitUpdate", "returned", "rejected"},
         calls' = To(calls, c, pc)
  PROVE  /\ calls' \in [Call -> CallState]
         /\ \A x \in Call : x # c => calls'[x] = calls[x]
         /\ calls'[c].pc = pc /\ calls'[c].overruled = calls[c].overruled
  BY DEF To, CallState

\* startNode, as called by start() and by an update.
LEMMA StartNodeStep ==
  ASSUME Inv, NEW c \in StartCall \cup BlockCall, node.desired,
         c \in BlockCall => At(c, "stopped"),
         StartNode(c), UNCHANGED <<stopping, transport, dials, pending, peers, failures>>
  PROVE  Inv'
  <1> USE DEF Inv
  <1>0. c \in Call /\ c \notin StopCall
    BY Kinds
  <1>1. /\ calls' \in [Call -> CallState]
        /\ \A x \in Call : x # c => calls'[x] = calls[x]
        /\ calls'[c].pc \in {"awaitStart", "started"}
        /\ calls'[c].overruled = calls[c].overruled
    <2>1. CASE calls' = To(calls, c, "awaitStart")
      BY <1>0, <2>1, ToFacts, Types
    <2>2. CASE calls' = To(calls, c, "started")
      BY <1>0, <2>2, ToFacts, Types
    <2> QED
      BY <2>1, <2>2 DEF StartNode
  <1>2. /\ node' \in NodeState /\ starting' \in StartState
        /\ node'.desired = node.desired /\ node'.started = node.started
        /\ node'.heartbeat = node.heartbeat /\ node'.blocked = node.blocked
        /\ node'.updating = node.updating /\ node'.latest = node.latest
        /\ \/ /\ starting' = starting
              /\ node'.gen = node.gen /\ node'.overlapped = node.overlapped
              /\ node'.cleanup = node.cleanup
           \/ /\ starting.phase = "none" /\ ~node.started
              /\ starting'.phase = "starting" /\ starting'.gen = node.gen + 1
              /\ starting'.i = 1 /\ starting'.closed = TRUE
              /\ node'.gen = node.gen + 1
              /\ node'.overlapped = (node.overlapped \/ stopping.phase # "none")
    <2>1. CASE UNCHANGED <<node, starting>>
      BY <2>1, Types
    <2>2. CASE /\ starting.phase = "none" /\ ~node.started
               /\ node' = [node EXCEPT !.cleanup = TRUE, !.gen = @ + 1,
                                       !.overlapped = @ \/ stopping.phase # "none"]
               /\ starting' = [phase |-> "starting", gen |-> node.gen + 1, i |-> 1, closed |-> TRUE]
      <3>1. starting' \in StartState
        BY <2>2, Types, NodeAssumption DEF StartState, NodeState
      <3>2. node' \in NodeState
        <4> DEFINE g == node.gen + 1
                   o == node.overlapped \/ stopping.phase # "none"
        <4>1. g \in Nat /\ o \in BOOLEAN /\ node \in NodeState
          BY Types DEF NodeState
        <4>2. node' = [node EXCEPT !.cleanup = TRUE, !.gen = g, !.overlapped = o]
          BY <2>2
        <4> HIDE DEF g, o
        <4> QED
          BY ONLY <4>1, <4>2 DEF NodeState
      <3> QED
        BY <2>2, <3>1, <3>2, Types DEF NodeState
    <2> QED
      BY <2>1, <2>2 DEF StartNode
  <1>3. TypeOK'
    BY <1>1, <1>2, Types, PrimedTypes
  <1>4. /\ node.latest # None /\ node.latest # c => calls'[node.latest] = calls[node.latest]
        /\ node.latest = c => calls[node.latest].pc = "stopped"
    BY <1>1, Types, Kinds DEF NodeState, At
  <1>5. LoopsOK' /\ FailuresNoted'
    BY <1>2, NodeAssumption DEF LoopsOK, FailuresNoted, Transports
  <1>6. PlacesOK'
    BY <1>1, <1>2, <1>4, Kinds DEF PlacesOK, Unsettled, Finished, At
  <1>7. StartsOK'
    BY <1>2, Types DEF StartsOK, NodeState
  <1>8. OpenOK'
    BY <1>2 DEF OpenOK
  <1>9. IdleOK'
    BY <1>2 DEF IdleOK, Active, Gone
  <1>10. ContextsOK'
    BY <1>1, <1>2, <1>4, Types DEF ContextsOK, NodeState, Transports
  <1>11. StopsOK'
    BY <1>0, <1>1, <1>2, Kinds DEF StopsOK, At
  <1>12. UpdateOK'
    BY <1>1, <1>2, <1>4 DEF UpdateOK, Gone
  <1> QED
    BY <1>3, <1>5, <1>6, <1>7, <1>8, <1>9, <1>10, <1>11, <1>12

\* Closing the links and rejecting the handshakes leaves gone what is gone.
LEMMA ClosedFacts ==
  ASSUME TypeOK, peers' = PeersClosed(peers), dials' = DialsRejected(dials)
  PROVE  /\ peers' \in [Addr -> PeerState] /\ dials' \in [Dial -> DialState]
         /\ \A a \in Addr : /\ peers'[a].orphaned = peers[a].orphaned
                            /\ peers[a].state = "none" <=> peers'[a].state = "none"
  <1>1. dials' \in [Dial -> DialState]
    BY Types DEF DialsRejected, DialState
  <1>2. peers' \in [Addr -> PeerState]
    BY Types DEF PeersClosed, PeerState
  <1> QED
    BY <1>1, <1>2, Types DEF PeersClosed, PeerState

\* stopNode, as called by stop() and by an update.
LEMMA StopNodeStep ==
  ASSUME Inv, NEW c \in StopCall \cup BlockCall, NEW n \in NodeState,
         n.started = node.started, n.heartbeat = node.heartbeat, n.cleanup = node.cleanup,
         n.gen = node.gen, n.blocked = node.blocked, n.updating = node.updating,
         n.latest = node.latest, n.overlapped = node.overlapped,
         n.desired => node.desired,
         c \in StopCall => At(c, "idle") /\ ~n.desired,
         c \in BlockCall => At(c, "stop"),
         StopNode(c, n), UNCHANGED <<starting, transport, pending, failures>>
  PROVE  Inv'
  <1> USE DEF Inv
  <1>0. c \in Call /\ c \notin StartCall /\ (c \in StopCall => c \notin BlockCall)
    BY Kinds
  <1>1. /\ calls' \in [Call -> CallState]
        /\ \A x \in Call : x # c => calls'[x] = calls[x]
        /\ calls'[c].overruled = calls[c].overruled
    <2>1. CASE calls' = To(calls, c, "awaitStop")
      BY <1>0, <2>1, ToFacts, Types
    <2>2. CASE calls' = [calls EXCEPT ![c].pc = "stopped", ![c].failed = FALSE]
      <3>1. calls \in [Call -> CallState]
        BY Types
      <3>2. calls' = [calls EXCEPT ![c] = [calls[c] EXCEPT !.pc = "stopped", !.failed = FALSE]]
        BY ONLY <1>0, <3>1, <2>2 DEF CallState
      <3>3. /\ [calls[c] EXCEPT !.pc = "stopped", !.failed = FALSE] \in CallState
            /\ [calls[c] EXCEPT !.pc = "stopped", !.failed = FALSE].overruled = calls[c].overruled
        BY ONLY <1>0, <3>1 DEF CallState
      <3> QED
        BY ONLY <1>0, <3>1, <3>2, <3>3
    <2> QED
      BY <2>1, <2>2 DEF StopNode
  <1>2. /\ node.latest # None /\ node.latest # c => calls'[node.latest] = calls[node.latest]
        /\ node.latest = c => calls[node.latest].pc = "stop"
    BY <1>1, Types, Kinds DEF NodeState, At
  <1>3. CASE stopping.phase # "none"
    <2>1. /\ node' = n /\ calls'[c].pc = "awaitStop"
          /\ UNCHANGED <<stopping, dials, peers>>
      BY <1>0, <1>3, Types DEF StopNode, To, CallState
    <2>2. TypeOK'
      BY <1>1, <2>1, Types, PrimedTypes
    <2>3. LoopsOK' /\ FailuresNoted' /\ StartsOK' /\ OpenOK'
      BY <2>1 DEF LoopsOK, FailuresNoted, StartsOK, OpenOK
    <2>4. IdleOK' /\ ContextsOK'
      BY <1>2, <2>1, <1>3, Types DEF IdleOK, Active, Gone, ContextsOK, StartsOK, NodeState, StartState
    <2>5. PlacesOK'
      BY <1>0, <1>1, <1>2, <2>1, <1>3, Kinds DEF PlacesOK, Unsettled, Finished, At
    <2>6. StopsOK'
      BY <1>0, <1>1, <2>1, Kinds DEF StopsOK, At
    <2>7. UpdateOK'
      BY <1>2, <2>1 DEF UpdateOK, Gone
    <2> QED
      BY <2>2, <2>3, <2>4, <2>5, <2>6, <2>7
  <1>4. CASE /\ stopping.phase = "none"
             /\ ~n.cleanup /\ ~n.started /\ starting.phase = "none"
    <2>1. /\ node' = n /\ calls'[c].pc = "stopped"
          /\ UNCHANGED <<stopping, dials, peers>>
      BY <1>0, <1>4, Types DEF StopNode, CallState
    <2>2. TypeOK'
      BY <1>1, <2>1, Types, PrimedTypes
    <2>3. LoopsOK' /\ FailuresNoted' /\ StartsOK' /\ OpenOK' /\ IdleOK' /\ ContextsOK'
      BY <1>4, <2>1 DEF LoopsOK, FailuresNoted, StartsOK, OpenOK, IdleOK, Active, Gone, ContextsOK
    <2>5. PlacesOK'
      BY <1>0, <1>1, <1>2, <2>1, <1>4, Kinds DEF PlacesOK, Unsettled, Finished, At
    <2>6. StopsOK'
      BY <1>0, <1>1, <1>4, <2>1, Kinds DEF StopsOK, At
    <2>7. UpdateOK'
      BY <1>4, <2>1 DEF UpdateOK, IdleOK, Active, Gone
    <2> QED
      BY <2>2, <2>3, <2>5, <2>6, <2>7
  <1>5. CASE /\ stopping.phase = "none"
             /\ n.cleanup \/ n.started \/ starting.phase # "none"
    <2>1. /\ node' = [n EXCEPT !.started = FALSE, !.heartbeat = FALSE, !.gen = @ + 1]
          /\ calls' = To(calls, c, "awaitStop")
          /\ \/ /\ stopping' = [NoStop EXCEPT !.phase = "departing"]
                /\ UNCHANGED <<dials, peers>>
             \/ /\ stopping' = [NoStop EXCEPT !.phase = "closing", !.i = 1]
                /\ dials' = DialsRejected(dials)
                /\ peers' = PeersClosed(peers)
      BY <1>5 DEF StopNode
    <2>2. calls'[c].pc = "awaitStop"
      BY <1>0, <2>1, Types, ToFacts
    <2>3. /\ peers' \in [Addr -> PeerState] /\ dials' \in [Dial -> DialState]
          /\ \A a \in Addr : /\ peers'[a].orphaned = peers[a].orphaned
                             /\ peers[a].state = "none" <=> peers'[a].state = "none"
      BY <2>1, Types, ClosedFacts
    <2>4. /\ stopping' \in StopState /\ ~stopping'.failed
          /\ \/ stopping'.phase = "departing"
             \/ stopping'.phase = "closing" /\ stopping'.i = 1
      <3>1. CASE stopping' = [NoStop EXCEPT !.phase = "departing"]
        <4>1. stopping' = [phase |-> "departing", i |-> 0, failed |-> FALSE, dials |-> {},
                           start |-> FALSE]
          BY ONLY <3>1 DEF NoStop
        <4>2. 0 \in 0 .. N
          BY NodeAssumption
        <4> QED
          BY ONLY <4>1, <4>2 DEF StopState
      <3>2. CASE stopping' = [NoStop EXCEPT !.phase = "closing", !.i = 1]
        <4>1. stopping' = [phase |-> "closing", i |-> 1, failed |-> FALSE, dials |-> {},
                           start |-> FALSE]
          BY ONLY <3>2 DEF NoStop
        <4>2. 1 \in 0 .. N
          BY NodeAssumption
        <4> QED
          BY ONLY <4>1, <4>2 DEF StopState
      <3> QED
        BY <2>1, <3>1, <3>2
    <2>5. /\ node' \in NodeState
          /\ node'.started = FALSE /\ node'.heartbeat = FALSE /\ node'.gen = node.gen + 1
          /\ node'.desired = n.desired /\ node'.cleanup = node.cleanup
          /\ node'.blocked = node.blocked /\ node'.updating = node.updating
          /\ node'.latest = node.latest /\ node'.overlapped = node.overlapped
      <3>1. node' \in NodeState
        <4> DEFINE g == n.gen + 1
        <4>1. g \in Nat /\ node' = [n EXCEPT !.started = FALSE, !.heartbeat = FALSE, !.gen = g]
          BY <2>1 DEF NodeState
        <4> HIDE DEF g
        <4> QED
          BY ONLY n \in NodeState, <4>1 DEF NodeState
      <3> QED
        BY <2>1, <3>1 DEF NodeState
    <2>6. TypeOK'
      BY <1>1, <2>3, <2>4, <2>5, Types, PrimedTypes
    <2>7. LoopsOK' /\ FailuresNoted'
      BY <2>4, NodeAssumption DEF LoopsOK, FailuresNoted, Transports
    <2>8. PlacesOK'
      BY <1>0, <1>1, <1>2, <2>2, <2>4, <2>5, <1>5, Kinds DEF PlacesOK, Unsettled, Finished, At
    <2>9. StartsOK'
      BY <2>4, <2>5, Types DEF StartsOK, NodeState, StartState
    <2>10. OpenOK'
      BY <2>4 DEF OpenOK, Transports
    <2>11. IdleOK'
      BY <2>4 DEF IdleOK, Active
    <2>12. ContextsOK'
      BY <2>5, Types DEF ContextsOK, StartsOK, NodeState, StartState
    <2>13. StopsOK'
      <3> SUFFICES ASSUME NEW x \in StopCall, ~At(x, "idle")', ~calls'[x].overruled
                   PROVE  /\ ~node'.desired
                          /\ ~At(x, "awaitStop")' /\ ~node'.overlapped =>
                                /\ ~node'.started /\ starting'.phase = "none"
                                /\ failures' = 0 => stopping'.phase = "none"
        BY DEF StopsOK
      <3>1. CASE x = c
        BY <3>1, <2>2, <2>5 DEF At
      <3>2. CASE x # c
        <4>1. calls'[x] = calls[x]
          BY <3>2, <1>1, Kinds
        <4>2. /\ ~node.desired
              /\ ~At(x, "awaitStop") /\ ~node.overlapped =>
                    /\ ~node.started /\ starting.phase = "none"
          BY <4>1 DEF StopsOK, At
        <4>3. ~At(x, "awaitStop") /\ ~node.overlapped /\ failures = 0 => FALSE
          BY <4>2, <1>5 DEF IdleOK, Active
        <4> QED
          BY <4>1, <4>2, <4>3, <2>5 DEF At
      <3> QED
        BY <3>1, <3>2
    <2>14. UpdateOK'
      BY <1>2, <2>2, <2>3, <2>5 DEF UpdateOK, Gone
    <2> QED
      BY <2>6, <2>7, <2>8, <2>9, <2>10, <2>11, <2>12, <2>13, <2>14
  <1> QED
    BY <1>3, <1>4, <1>5

-----------------------------------------------------------------------------
(* The steps of callers                                                    *)

LEMMA CallStartOK ==
  ASSUME Inv, NEW c \in StartCall, CallStart(c)
  PROVE  Inv'
  <1> USE DEF Inv
  <1>1. /\ node' \in NodeState /\ node'.desired
        /\ node'.started = node.started /\ node'.heartbeat = node.heartbeat
        /\ node'.cleanup = node.cleanup /\ node'.gen = node.gen
        /\ node'.blocked = node.blocked /\ node'.updating = node.updating
        /\ node'.latest = node.latest /\ node'.overlapped = node.overlapped
    BY Types DEF CallStart, NodeState
  <1>2. UNCHANGED <<starting, stopping, transport, dials, pending, peers, failures>>
    BY DEF CallStart
  <1>3. /\ calls' \in [Call -> CallState]
        /\ \A x \in Call : /\ x # c => calls'[x].pc = calls[x].pc
                           /\ ~At(x, "idle") => calls'[x].overruled
        /\ calls'[c].pc \in {"awaitStop", "ready"}
        /\ calls'[c].pc = "awaitStop" => stopping.phase # "none"
    <2> DEFINE cs == [x \in Call |-> [calls[x] EXCEPT !.overruled = @ \/ ~At(x, "idle")]]
               p == IF stopping.phase # "none" THEN "awaitStop" ELSE "ready"
    <2>1. /\ cs \in [Call -> CallState]
          /\ \A x \in Call : /\ cs[x].pc = calls[x].pc
                             /\ ~At(x, "idle") => cs[x].overruled
      <3>1. ASSUME NEW x \in Call
            PROVE  /\ [calls[x] EXCEPT !.overruled = @ \/ ~At(x, "idle")] \in CallState
                   /\ cs[x].pc = calls[x].pc
                   /\ ~At(x, "idle") => cs[x].overruled
        BY Types DEF CallState
      <3> QED
        BY <3>1
    <2>2. /\ p \in {"awaitStop", "ready"}
          /\ p = "awaitStop" => stopping.phase # "none"
      OBVIOUS
    <2>3. calls' = [cs EXCEPT ![c].pc = p]
      BY DEF CallStart
    <2>4. At(c, "idle") /\ c \in Call
      BY Kinds DEF CallStart
    <2> HIDE DEF cs, p
    <2>5. calls' = [cs EXCEPT ![c] = [cs[c] EXCEPT !.pc = p]]
      BY <2>1, <2>3
    <2>6. [cs[c] EXCEPT !.pc = p] \in CallState /\ [cs[c] EXCEPT !.pc = p].pc = p
      BY ONLY <2>1, <2>2, <2>4 DEF CallState
    <2> QED
      BY <2>1, <2>2, <2>4, <2>5, <2>6 DEF At
  <1>4. node.latest # None => calls'[node.latest].pc = calls[node.latest].pc
    BY <1>3, Types, Kinds DEF NodeState
  <1>5. TypeOK'
    BY <1>1, <1>2, <1>3, Types, PrimedTypes
  <1>6. LoopsOK' /\ FailuresNoted' /\ StartsOK' /\ OpenOK' /\ IdleOK'
    BY <1>1, <1>2 DEF LoopsOK, FailuresNoted, StartsOK, OpenOK, IdleOK, Active, Gone
  <1>7. PlacesOK'
    BY <1>1, <1>2, <1>3, <1>4, Kinds DEF PlacesOK, Unsettled, Finished, At
  <1>8. ContextsOK'
    BY <1>1, <1>2, <1>4 DEF ContextsOK
  <1>9. StopsOK'
    BY <1>3, Kinds DEF StopsOK, At
  <1>10. UpdateOK'
    BY <1>1, <1>2, <1>4 DEF UpdateOK, Gone
  <1> QED
    BY <1>5, <1>6, <1>7, <1>8, <1>9, <1>10

\* A caller of start() that does not start, or has started, the node.
LEMMA StartMoves ==
  ASSUME Inv, NEW c \in StartCall, NEW pc \in {"awaitUpdate", "returned"},
         NEW on \in BlockCall \cup {None},
         \/ calls' = To(calls, c, pc)
         \/ calls' = [calls EXCEPT ![c].pc = pc, ![c].on = on],
         UNCHANGED <<node, starting, stopping, transport, dials, pending, peers, failures>>
  PROVE  Inv'
  <1>1. c \in Call /\ calls \in [Call -> CallState] /\ c \notin StopCall
    BY Kinds, Types DEF Inv
  <1>2. /\ calls' \in [Call -> CallState]
        /\ \A x \in Call : x # c => calls'[x] = calls[x]
        /\ calls'[c].pc = pc /\ calls'[c].overruled = calls[c].overruled
    <2>1. CASE calls' = To(calls, c, pc)
      BY <1>1, <2>1, ToFacts
    <2>2. CASE calls' = [calls EXCEPT ![c].pc = pc, ![c].on = on]
      <3>1. calls' = [calls EXCEPT ![c] = [calls[c] EXCEPT !.pc = pc, !.on = on]]
        BY ONLY <1>1, <2>2 DEF CallState
      <3>2. /\ [calls[c] EXCEPT !.pc = pc, !.on = on] \in CallState
            /\ [calls[c] EXCEPT !.pc = pc, !.on = on].pc = pc
            /\ [calls[c] EXCEPT !.pc = pc, !.on = on].overruled = calls[c].overruled
        BY ONLY <1>1, pc \in {"awaitUpdate", "returned"}, on \in BlockCall \cup {None}
           DEF CallState
      <3> QED
        BY ONLY <1>1, <3>1, <3>2
    <2> QED
      BY <2>1, <2>2
  <1> QED
    BY <1>1, <1>2, CallerStep

LEMMA ProceedOK ==
  ASSUME Inv, NEW c \in StartCall, Proceed(c),
         UNCHANGED <<stopping, transport, dials, pending, peers, failures>>
  PROVE  Inv'
  <1>1. CASE calls' = To(calls, c, "returned") /\ UNCHANGED <<node, starting>>
    BY <1>1, StartMoves
  <1>2. CASE node.desired /\ StartNode(c)
    BY <1>2, StartNodeStep, Kinds
  <1> QED
    BY <1>1, <1>2 DEF Proceed

LEMMA StartReadyOK ==
  ASSUME Inv, NEW c \in StartCall, StartReady(c)
  PROVE  Inv'
  <1>1. CASE /\ calls' = [calls EXCEPT ![c].pc = "awaitUpdate", ![c].on = node.latest]
             /\ UNCHANGED <<node, starting>>
    <2>1. node.latest \in BlockCall \cup {None}
      BY Types DEF Inv, NodeState
    <2>2. UNCHANGED <<node, starting, stopping, transport, dials, pending, peers, failures>>
      BY <1>1 DEF StartReady
    <2> QED
      BY <1>1, <2>1, <2>2, StartMoves
  <1>2. CASE Proceed(c)
    BY <1>2, ProceedOK DEF StartReady
  <1> QED
    BY <1>1, <1>2 DEF StartReady

LEMMA StartGoOK ==
  ASSUME Inv, NEW c \in StartCall, StartGo(c)
  PROVE  Inv'
  BY ProceedOK DEF StartGo

LEMMA StartReturnsOK ==
  ASSUME Inv, NEW c \in StartCall, StartReturns(c)
  PROVE  Inv'
  BY StartMoves DEF StartReturns

LEMMA CallStopOK ==
  ASSUME Inv, NEW c \in StopCall, CallStop(c)
  PROVE  Inv'
  <1> DEFINE n == [node EXCEPT !.desired = FALSE]
  <1>1. /\ n \in NodeState /\ ~n.desired
        /\ n.started = node.started /\ n.heartbeat = node.heartbeat
        /\ n.cleanup = node.cleanup /\ n.gen = node.gen
        /\ n.blocked = node.blocked /\ n.updating = node.updating
        /\ n.latest = node.latest /\ n.overlapped = node.overlapped
    BY Types DEF Inv, NodeState
  <1>2. /\ At(c, "idle") /\ c \notin BlockCall /\ StopNode(c, n)
        /\ UNCHANGED <<starting, transport, pending, failures>>
    BY Kinds DEF CallStop
  <1> HIDE DEF n
  <1> QED
    BY <1>1, <1>2, StopNodeStep

LEMMA StopStoppedOK ==
  ASSUME Inv, NEW c \in StopCall, StopStopped(c)
  PROVE  Inv'
  <1> DEFINE p == IF Unsettled THEN "awaitUpdate" ELSE "returned"
  <1>1. /\ c \in Call /\ calls \in [Call -> CallState] /\ At(c, "stopped")
        /\ node.latest \in BlockCall \cup {None}
    BY Kinds, Types DEF Inv, NodeState, StopStopped
  <1>2. p \in {"awaitUpdate", "returned"}
    OBVIOUS
  <1>3. calls' = [calls EXCEPT ![c].pc = p, ![c].on = node.latest]
    BY DEF StopStopped
  <1> HIDE DEF p
  <1>4. calls' = [calls EXCEPT ![c] = [calls[c] EXCEPT !.pc = p, !.on = node.latest]]
    BY ONLY <1>1, <1>3 DEF CallState
  <1>5. /\ [calls[c] EXCEPT !.pc = p, !.on = node.latest] \in CallState
        /\ [calls[c] EXCEPT !.pc = p, !.on = node.latest].pc = p
        /\ [calls[c] EXCEPT !.pc = p, !.on = node.latest].overruled = calls[c].overruled
    BY ONLY <1>1, <1>2 DEF CallState
  <1>6. /\ calls' \in [Call -> CallState]
        /\ \A x \in Call : x # c => calls'[x] = calls[x]
        /\ calls'[c].pc = p /\ calls'[c].overruled = calls[c].overruled
    BY ONLY <1>1, <1>4, <1>5
  <1>7. UNCHANGED <<node, starting, stopping, transport, dials, pending, peers, failures>>
    BY DEF StopStopped
  <1> QED
    BY <1>1, <1>2, <1>6, <1>7, CallerStep

LEMMA CallBlockOK ==
  ASSUME Inv, NEW c \in BlockCall, NEW keys \in SUBSET Key, CallBlock(c, keys)
  PROVE  Inv'
  <1> USE DEF Inv
  <1>0. c \in Call /\ c \notin StopCall /\ c \notin StartCall /\ c # None
    BY Kinds
  <1>1. /\ node' \in NodeState /\ node'.desired = node.desired
        /\ node'.started = node.started /\ node'.heartbeat = node.heartbeat
        /\ node'.cleanup = node.cleanup /\ node'.gen = node.gen + 1
        /\ node'.blocked = keys /\ node'.updating = TRUE
        /\ node'.latest = c /\ node'.overlapped = node.overlapped
    <2> DEFINE g == node.gen + 1
    <2>1. /\ g \in Nat /\ node \in NodeState
          /\ node' = [node EXCEPT !.blocked = keys, !.updating = TRUE, !.gen = g, !.latest = c]
      BY Types DEF NodeState, CallBlock
    <2> HIDE DEF g
    <2>2. node' \in NodeState
      BY ONLY <2>1, c \in BlockCall, keys \in SUBSET Key DEF NodeState
    <2>3. /\ node'.desired = node.desired
          /\ node'.started = node.started /\ node'.heartbeat = node.heartbeat
          /\ node'.cleanup = node.cleanup /\ node'.gen = g
          /\ node'.blocked = keys /\ node'.updating = TRUE
          /\ node'.latest = c /\ node'.overlapped = node.overlapped
      BY ONLY <2>1 DEF NodeState
    <2> QED
      BY <2>2, <2>3 DEF g
  <1>2. UNCHANGED <<starting, stopping, transport, dials, pending, peers, failures>>
    BY DEF CallBlock
  <1>3. /\ calls' \in [Call -> CallState]
        /\ \A x \in Call : x # c => calls'[x] = calls[x]
        /\ calls'[c].pc \in {"awaitUpdate", "stop"}
    <2> DEFINE p == IF Unsettled THEN "awaitUpdate" ELSE "stop"
    <2>1. calls \in [Call -> CallState] /\ node.latest \in BlockCall \cup {None}
      BY Types DEF NodeState
    <2>2. p \in {"awaitUpdate", "stop"}
      OBVIOUS
    <2>3. calls' = [calls EXCEPT ![c].pc = p, ![c].on = node.latest]
      BY DEF CallBlock
    <2> HIDE DEF p
    <2>4. calls' = [calls EXCEPT ![c] = [calls[c] EXCEPT !.pc = p, !.on = node.latest]]
      BY ONLY <1>0, <2>1, <2>3 DEF CallState
    <2>5. /\ [calls[c] EXCEPT !.pc = p, !.on = node.latest] \in CallState
          /\ [calls[c] EXCEPT !.pc = p, !.on = node.latest].pc = p
      BY ONLY <1>0, <2>1, <2>2 DEF CallState
    <2> QED
      BY ONLY <1>0, <2>1, <2>2, <2>4, <2>5
  <1>4. TypeOK'
    BY <1>1, <1>2, <1>3, Types, PrimedTypes
  <1>5. LoopsOK' /\ FailuresNoted' /\ OpenOK' /\ IdleOK'
    BY <1>1, <1>2 DEF LoopsOK, FailuresNoted, OpenOK, IdleOK, Active, Gone
  <1>6. StartsOK'
    BY <1>1, <1>2, Types DEF StartsOK, NodeState, StartState
  <1>7. PlacesOK'
    BY <1>0, <1>1, <1>2, <1>3, Kinds DEF PlacesOK, Unsettled, Finished, At
  <1>8. ContextsOK'
    <2>1. starting.phase # "none" => starting'.gen # node'.gen
      BY <1>1, <1>2, Types DEF StartsOK, NodeState, StartState
    <2> QED
      BY <2>1, <1>0, <1>1, <1>2, <1>3 DEF ContextsOK
  <1>9. StopsOK'
    BY <1>0, <1>1, <1>2, <1>3, Kinds DEF StopsOK, At
  <1>10. UpdateOK'
    BY <1>1, <1>3 DEF UpdateOK
  <1> QED
    BY <1>4, <1>5, <1>6, <1>7, <1>8, <1>9, <1>10

LEMMA BlockStopOK ==
  ASSUME Inv, NEW c \in BlockCall, BlockStop(c)
  PROVE  Inv'
  <1>1. node \in NodeState /\ c \notin StopCall
    BY Types, Kinds DEF Inv
  <1> QED
    BY <1>1, StopNodeStep DEF BlockStop

\* The end of an update that has stopped the node.
LEMMA UpdateSettlesOK ==
  ASSUME Inv, NEW c \in BlockCall, NEW ok \in BOOLEAN, UpdateSettles(c, ok),
         calls[c].pc \in {"stopped", "started", "startFailed"},
         UNCHANGED <<starting, stopping, transport, dials, pending, peers, failures>>
  PROVE  Inv'
  <1> USE DEF Inv
  <1>0. c \in Call /\ c \notin StopCall /\ c \notin StartCall /\ c # None
    BY Kinds
  <1>1. /\ node' \in NodeState /\ node'.desired = node.desired
        /\ node'.started = node.started /\ node'.heartbeat = node.heartbeat
        /\ node'.cleanup = node.cleanup /\ node'.gen = node.gen
        /\ node'.blocked = node.blocked
        /\ node'.updating <=> node.updating /\ node.latest # c
        /\ node'.latest = node.latest /\ node'.overlapped = node.overlapped
    <2> DEFINE u == node.updating /\ node.latest # c
    <2>1. u \in BOOLEAN /\ node \in NodeState /\ node' = [node EXCEPT !.updating = u]
      BY Types DEF NodeState, UpdateSettles
    <2> HIDE DEF u
    <2>2. node' \in NodeState
      BY ONLY <2>1 DEF NodeState
    <2>3. /\ node'.desired = node.desired
          /\ node'.started = node.started /\ node'.heartbeat = node.heartbeat
          /\ node'.cleanup = node.cleanup /\ node'.gen = node.gen
          /\ node'.blocked = node.blocked /\ node'.updating = u
          /\ node'.latest = node.latest /\ node'.overlapped = node.overlapped
      BY ONLY <2>1 DEF NodeState
    <2> QED
      BY <2>2, <2>3 DEF u
  <1>3. ASSUME NEW x \in Call
        PROVE  /\ calls'[x] \in CallState
               /\ calls'[x].overruled = calls[x].overruled
               /\ x = c => calls'[x].pc \in {"returned", "rejected"}
               /\ x # c => \/ calls'[x] = calls[x]
                           \/ /\ At(x, "awaitUpdate")
                              /\ x \in StopCall => calls'[x].pc = "returned"
                              /\ x \in BlockCall => calls'[x].pc = "stop"
                              /\ x \in StartCall => calls'[x].pc \in {"go", "rejected"}
    <2>1. calls[x] \in CallState
      BY Types
    <2>2. CASE x = c
      <3>1. calls'[x] = [calls[x] EXCEPT !.pc = IF ok THEN "returned" ELSE "rejected"]
        BY <2>2 DEF UpdateSettles
      <3> QED
        BY <3>1, <2>1, <2>2 DEF CallState
    <2>3. CASE x # c /\ At(x, "awaitUpdate") /\ calls[x].on = c
      <3> DEFINE p == AfterUpdate(x, ok)
      <3>1. calls'[x] = [calls[x] EXCEPT !.pc = p]
        BY <2>3 DEF UpdateSettles
      <3>2. /\ x \in StopCall => p = "returned"
            /\ x \in BlockCall => p = "stop"
            /\ x \in StartCall => p \in {"go", "rejected"}
            /\ p \in {"returned", "stop", "go", "rejected"}
        BY Kinds DEF AfterUpdate
      <3> HIDE DEF p
      <3>3. calls'[x] \in CallState /\ calls'[x].pc = p /\ calls'[x].overruled = calls[x].overruled
        BY ONLY <3>1, <3>2, <2>1 DEF CallState
      <3> QED
        BY <2>3, <3>2, <3>3
    <2>4. CASE x # c /\ ~(At(x, "awaitUpdate") /\ calls[x].on = c)
      BY <2>1, <2>4 DEF UpdateSettles
    <2> QED
      BY <2>2, <2>3, <2>4
  <1>4. calls' \in [Call -> CallState]
    BY <1>3 DEF UpdateSettles
  <1>5. TypeOK'
    BY <1>1, <1>4, Types, PrimedTypes
  <1>6. LoopsOK' /\ FailuresNoted' /\ StartsOK' /\ OpenOK' /\ IdleOK'
    BY <1>1 DEF LoopsOK, FailuresNoted, StartsOK, OpenOK, IdleOK, Active, Gone
  <1>7. \/ node.latest = None
        \/ node.latest = c
        \/ /\ node.latest \in BlockCall /\ node.latest # c
           /\ \/ calls'[node.latest] = calls[node.latest]
              \/ calls[node.latest].pc = "awaitUpdate" /\ calls'[node.latest].pc = "stop"
    BY <1>3, Types, Kinds DEF NodeState, At
  <1>8. PlacesOK'
    <2>1. \A x \in StopCall : calls'[x].pc \in {"idle", "awaitStop", "stopped", "awaitUpdate", "returned"}
      BY <1>0, <1>3, Kinds DEF PlacesOK
    <2>2. \A x \in BlockCall : calls'[x].pc # "ready" /\ calls'[x].pc # "go"
      BY <1>0, <1>3, Kinds DEF PlacesOK
    <2>3. node'.updating <=> Unsettled'
      BY <1>0, <1>1, <1>3, <1>7 DEF PlacesOK, Unsettled, Finished
    <2>4. \A x \in Call : calls'[x].pc = "awaitStop" => stopping.phase # "none"
      BY <1>3, Kinds DEF PlacesOK, At
    <2> QED
      BY <2>1, <2>2, <2>3, <2>4 DEF PlacesOK, At
  <1>9. ContextsOK'
    BY <1>0, <1>1, <1>7 DEF ContextsOK
  <1>10. StopsOK'
    <2>1. \A x \in StopCall : /\ calls'[x].overruled = calls[x].overruled
                              /\ calls'[x].pc = "idle" <=> calls[x].pc = "idle"
                              /\ calls'[x].pc = "awaitStop" <=> calls[x].pc = "awaitStop"
      BY <1>0, <1>3, Kinds DEF At
    <2> QED
      BY <2>1, <1>1 DEF StopsOK, At
  <1>11. UpdateOK'
    BY <1>0, <1>1, <1>7 DEF UpdateOK, Gone
  <1> QED
    BY <1>5, <1>6, <1>8, <1>9, <1>10, <1>11

LEMMA BlockStoppedOK ==
  ASSUME Inv, NEW c \in BlockCall, BlockStopped(c)
  PROVE  Inv'
  <1>1. CASE UpdateSettles(c, FALSE) /\ UNCHANGED starting
    BY <1>1, UpdateSettlesOK DEF BlockStopped, At
  <1>2. CASE UpdateSettles(c, TRUE) /\ UNCHANGED starting
    BY <1>2, UpdateSettlesOK DEF BlockStopped, At
  <1>3. CASE node.desired /\ StartNode(c)
    BY <1>3, StartNodeStep DEF BlockStopped
  <1> QED
    BY <1>1, <1>2, <1>3 DEF BlockStopped

LEMMA BlockStartedOK ==
  ASSUME Inv, NEW c \in BlockCall, BlockStarted(c)
  PROVE  Inv'
  <1>1. At(c, "started") \in BOOLEAN
    BY DEF At
  <1>2. calls[c].pc \in {"stopped", "started", "startFailed"}
    BY DEF BlockStarted
  <1> QED
    BY <1>1, <1>2, UpdateSettlesOK DEF BlockStarted

-----------------------------------------------------------------------------
(* The steps of the two tasks                                              *)

LEMMA StartSettlesFacts ==
  ASSUME Inv, NEW ok \in BOOLEAN, StartSettles(ok)
  PROVE  /\ starting' \in StartState /\ starting'.phase = "none" /\ starting'.closed
         /\ stopping' \in StopState /\ stopping'.phase = stopping.phase
         /\ stopping'.i = stopping.i /\ stopping'.failed = stopping.failed
         /\ calls' \in [Call -> CallState]
         /\ \A x \in Call : ~At(x, "awaitStart") => calls'[x] = calls[x]
         /\ \A x \in Call : At(x, "awaitStart") =>
               calls'[x].pc \in IF x \in BlockCall THEN {"started", "startFailed"}
                                ELSE {"returned", "rejected"}
         /\ \A x \in StopCall : calls'[x] = calls[x]
  <1> USE DEF Inv
  <1>1. starting' \in StartState /\ starting'.phase = "none" /\ starting'.closed
    BY NodeAssumption DEF StartSettles, NoStart, StartState
  <1>2. /\ stopping' \in StopState /\ stopping'.phase = stopping.phase
        /\ stopping'.i = stopping.i /\ stopping'.failed = stopping.failed
    BY Types DEF StartSettles, StopState
  <1>3. ASSUME NEW x \in Call
        PROVE  /\ calls'[x] \in CallState
               /\ ~At(x, "awaitStart") => calls'[x] = calls[x]
               /\ At(x, "awaitStart") =>
                     calls'[x].pc \in IF x \in BlockCall THEN {"started", "startFailed"}
                                      ELSE {"returned", "rejected"}
    <2>1. calls[x] \in CallState
      BY Types
    <2>2. CASE At(x, "awaitStart")
      <3> DEFINE p == IF x \in BlockCall THEN IF ok THEN "started" ELSE "startFailed"
                      ELSE IF ok THEN "returned" ELSE "rejected"
      <3>1. calls'[x] = [calls[x] EXCEPT !.pc = p]
        BY <2>2 DEF StartSettles
      <3>2. /\ p \in {"started", "startFailed", "returned", "rejected"}
            /\ p \in IF x \in BlockCall THEN {"started", "startFailed"}
                     ELSE {"returned", "rejected"}
        OBVIOUS
      <3> HIDE DEF p
      <3>3. calls'[x] \in CallState /\ calls'[x].pc = p
        BY ONLY <2>1, <3>1, <3>2 DEF CallState
      <3> QED
        BY <2>2, <3>2, <3>3
    <2>3. CASE ~At(x, "awaitStart")
      BY <2>1, <2>3 DEF StartSettles
    <2> QED
      BY <2>2, <2>3
  <1>4. calls' \in [Call -> CallState]
    BY <1>3 DEF StartSettles
  <1>5. \A x \in StopCall : ~At(x, "awaitStart")
    BY DEF PlacesOK, At
  <1> QED
    BY <1>1, <1>2, <1>3, <1>4, <1>5, Kinds

\* Who waits for the start, or does not, keeps the rest of the invariant.
LEMMA StartSettlesPlaces ==
  ASSUME Inv, NEW ok \in BOOLEAN, StartSettles(ok),
         node'.updating = node.updating, node'.latest = node.latest
  PROVE  /\ PlacesOK'
         /\ node.latest # None =>
               \/ calls'[node.latest] = calls[node.latest]
               \/ /\ calls[node.latest].pc = "awaitStart"
                  /\ calls'[node.latest].pc \in {"started", "startFailed"}
  <1> USE DEF Inv
  <1>1. /\ stopping'.phase = stopping.phase
        /\ \A x \in Call : ~At(x, "awaitStart") => calls'[x] = calls[x]
        /\ \A x \in Call : At(x, "awaitStart") =>
              calls'[x].pc \in IF x \in BlockCall THEN {"started", "startFailed"}
                               ELSE {"returned", "rejected"}
        /\ \A x \in StopCall : calls'[x] = calls[x]
    BY StartSettlesFacts
  <1>2. node.latest # None =>
               \/ calls'[node.latest] = calls[node.latest]
               \/ /\ calls[node.latest].pc = "awaitStart"
                  /\ calls'[node.latest].pc \in {"started", "startFailed"}
    BY <1>1, Types, Kinds DEF NodeState, At
  <1>3. \A x \in StopCall : calls'[x].pc \in {"idle", "awaitStop", "stopped", "awaitUpdate", "returned"}
    BY <1>1 DEF PlacesOK
  <1>4. \A x \in BlockCall : calls'[x].pc # "ready" /\ calls'[x].pc # "go"
    BY <1>1, Kinds DEF PlacesOK
  <1>5. node'.updating <=> Unsettled'
    BY <1>2 DEF PlacesOK, Unsettled, Finished
  <1>6. \A x \in Call : calls'[x].pc = "awaitStop" => stopping'.phase # "none"
    BY <1>1 DEF PlacesOK, At
  <1> QED
    BY <1>2, <1>3, <1>4, <1>5, <1>6 DEF PlacesOK, At

LEMMA Bumped ==
  ASSUME node \in NodeState, node' = [node EXCEPT !.gen = @ + 1]
  PROVE  /\ node' \in NodeState /\ node'.desired = node.desired
         /\ node'.started = node.started /\ node'.heartbeat = node.heartbeat
         /\ node'.cleanup = node.cleanup /\ node'.gen = node.gen + 1
         /\ node'.blocked = node.blocked /\ node'.updating = node.updating
         /\ node'.latest = node.latest /\ node'.overlapped = node.overlapped
  BY DEF NodeState

\* A start that failed, or that is no longer wanted, begins to unwind.
LEMMA UnwindBegins ==
  ASSUME Inv, starting.phase = "starting",
         starting' = [starting EXCEPT !.phase = "unwinding"],
         node' = [node EXCEPT !.gen = @ + 1],
         transport' \in [Transports -> [open : BOOLEAN, gen : Nat]],
         \A t \in Transports : t # starting.i => transport'[t] = transport[t],
         failures' \in 0 .. MaxFailures, failures' = 0 => failures = 0,
         UNCHANGED <<stopping, calls, dials, pending, peers>>
  PROVE  Inv'
  <1> USE DEF Inv
  <1>1. /\ node' \in NodeState /\ node'.desired = node.desired
        /\ node'.started = node.started /\ node'.heartbeat = node.heartbeat
        /\ node'.cleanup = node.cleanup /\ node'.gen = node.gen + 1
        /\ node'.blocked = node.blocked /\ node'.updating = node.updating
        /\ node'.latest = node.latest /\ node'.overlapped = node.overlapped
    BY Bumped, Types
  <1>2. /\ starting' \in StartState /\ starting'.phase = "unwinding"
        /\ starting'.i = starting.i /\ starting'.gen = starting.gen
        /\ starting'.closed = starting.closed
    BY Types DEF StartState
  <1>3. TypeOK'
    BY <1>1, <1>2, Types, PrimedTypes
  <1>4. LoopsOK' /\ FailuresNoted'
    BY <1>2 DEF LoopsOK, FailuresNoted
  <1>5. PlacesOK'
    BY <1>1 DEF PlacesOK, Unsettled, Finished, At
  <1>6. StartsOK'
    BY <1>1, <1>2, Types DEF StartsOK, NodeState, StartState
  <1>7. OpenOK'
    <2>1. starting.i \in Transports
      BY DEF LoopsOK
    <2> QED
      BY <1>1, <1>2, <2>1 DEF OpenOK, Transports
  <1>8. IdleOK'
    BY <1>2 DEF IdleOK, Active
  <1>9. ContextsOK'
    BY <1>1, <1>2 DEF ContextsOK, StartsOK
  <1>10. StopsOK'
    BY <1>1, <1>2 DEF StopsOK, At
  <1>11. UpdateOK'
    BY <1>1 DEF UpdateOK, Gone
  <1> QED
    BY <1>3, <1>4, <1>5, <1>6, <1>7, <1>8, <1>9, <1>10, <1>11

LEMMA TransportStartFailsOK ==
  ASSUME Inv, TransportStartFails
  PROVE  Inv'
  <1>1. /\ transport' \in [Transports -> [open : BOOLEAN, gen : Nat]]
        /\ transport' = transport
        /\ failures' \in 0 .. MaxFailures /\ failures' # 0
    BY Types, NodeAssumption DEF TransportStartFails, Inv
  <1> QED
    BY <1>1, UnwindBegins DEF TransportStartFails

LEMMA TransportStartsOK ==
  ASSUME Inv, TransportStarts
  PROVE  Inv'
  <1> USE DEF Inv
  <1>0. /\ starting.phase = "starting" /\ starting.i \in Transports
        /\ UNCHANGED <<dials, pending, peers, failures>> /\ starting \in StartState
        /\ node \in NodeState
    BY Types DEF TransportStarts, LoopsOK
  <1>1. /\ transport' \in [Transports -> [open : BOOLEAN, gen : Nat]]
        /\ \A t \in Transports : t # starting.i => transport'[t] = transport[t]
        /\ transport'[starting.i].open /\ transport'[starting.i].gen = starting.gen
    BY <1>0, Types DEF TransportStarts, StartState
  <1>2. CASE /\ starting' = [starting EXCEPT !.phase = "unwinding"]
             /\ node' = [node EXCEPT !.gen = @ + 1]
             /\ UNCHANGED <<stopping, calls>>
    BY <1>0, <1>1, <1>2, Types, UnwindBegins
  <1>3. CASE /\ StillWanted /\ ~AllStarted
             /\ starting' = [starting EXCEPT !.i = @ + 1]
             /\ UNCHANGED <<node, stopping, calls>>
    <2>1. /\ starting' \in StartState /\ starting'.phase = "starting"
          /\ starting'.i = starting.i + 1 /\ starting'.gen = starting.gen
          /\ starting'.closed = starting.closed /\ starting'.i \in Transports
      BY <1>0, <1>3, NodeAssumption DEF StartState, AllStarted, Transports
    <2>2. TypeOK'
      BY <1>0, <1>1, <1>3, <2>1, Types, PrimedTypes
    <2>3. LoopsOK' /\ FailuresNoted'
      BY <1>0, <1>3, <2>1 DEF LoopsOK, FailuresNoted
    <2>4. PlacesOK' /\ UpdateOK'
      BY <1>0, <1>3 DEF PlacesOK, Unsettled, Finished, At, UpdateOK, Gone
    <2>5. StartsOK' /\ StopsOK'
      BY <1>0, <1>3, <2>1 DEF StartsOK, StopsOK, At
    <2>6. OpenOK'
      BY <1>0, <1>1, <1>3, <2>1 DEF OpenOK, Transports
    <2>7. IdleOK'
      BY <2>1 DEF IdleOK, Active
    <2>8. ContextsOK'
      BY <1>0, <1>1, <1>3, <2>1 DEF ContextsOK, Transports, StartsOK
    <2> QED
      BY <2>2, <2>3, <2>4, <2>5, <2>6, <2>7, <2>8
  <1>4. CASE /\ StillWanted /\ AllStarted
             /\ node' = [node EXCEPT !.started = TRUE, !.heartbeat = TRUE]
             /\ StartSettles(TRUE)
    <2>1. /\ node' \in NodeState /\ node'.desired = node.desired
          /\ node'.started = TRUE /\ node'.heartbeat = TRUE
          /\ node'.cleanup = node.cleanup /\ node'.gen = node.gen
          /\ node'.blocked = node.blocked /\ node'.updating = node.updating
          /\ node'.latest = node.latest /\ node'.overlapped = node.overlapped
      BY <1>0, <1>4 DEF NodeState
    <2>2. /\ starting' \in StartState /\ starting'.phase = "none" /\ starting'.closed
          /\ stopping' \in StopState /\ stopping'.phase = stopping.phase
          /\ stopping'.i = stopping.i /\ stopping'.failed = stopping.failed
          /\ calls' \in [Call -> CallState]
          /\ \A x \in StopCall : calls'[x] = calls[x]
      BY <1>4, StartSettlesFacts
    <2>3. /\ PlacesOK'
          /\ node.latest # None =>
                \/ calls'[node.latest] = calls[node.latest]
                \/ /\ calls[node.latest].pc = "awaitStart"
                   /\ calls'[node.latest].pc \in {"started", "startFailed"}
      BY <1>4, <2>1, StartSettlesPlaces
    <2>4. TypeOK'
      BY <1>0, <1>1, <2>1, <2>2, Types, PrimedTypes
    <2>5. LoopsOK' /\ FailuresNoted'
      BY <1>0, <2>2 DEF LoopsOK, FailuresNoted
    <2>6. stopping.phase = "none" \/ node.overlapped
      BY <1>0, <1>4 DEF StartsOK, StillWanted, NodeState, StartState
    <2>7. StartsOK'
      BY <2>1, <2>2, <2>6 DEF StartsOK
    <2>8. OpenOK' /\ IdleOK'
      BY <2>1 DEF OpenOK, IdleOK, Active
    <2>9. ContextsOK'
      <3>1. ~node.overlapped =>
               \A t \in Transports : transport'[t].open /\ transport'[t].gen = node.gen
        <4>1. \A t \in Transports : t = starting.i \/ t < starting.i
          BY <1>4, NodeAssumption DEF AllStarted, Transports
        <4> QED
          BY <4>1, <1>0, <1>1, <1>4 DEF ContextsOK, StillWanted
      <3> QED
        BY <3>1, <2>1, <2>2 DEF ContextsOK
    <2>10. StopsOK'
      BY <1>4, <2>2 DEF StopsOK, StillWanted, At
    <2>11. UpdateOK'
      BY <1>0, <2>1, <2>3 DEF UpdateOK, Gone
    <2> QED
      BY <2>3, <2>4, <2>5, <2>7, <2>8, <2>9, <2>10, <2>11
  <1> QED
    BY <1>2, <1>3, <1>4 DEF TransportStarts

\* A t.stop() that fails is counted; one that does not closes the transport.
LEMMA ClosesFacts ==
  ASSUME TypeOK, NEW t \in Transports, NEW closed \in BOOLEAN, Closes(t, closed)
  PROVE  /\ failures' \in 0 .. MaxFailures
         /\ failures' = 0 => closed /\ failures = 0
         /\ transport' \in [Transports -> [open : BOOLEAN, gen : Nat]]
         /\ \A u \in Transports : u # t => transport'[u] = transport[u]
         /\ closed => ~transport'[t].open
         /\ \A u \in Transports : transport'[u].open => transport[u].open
  <1>1. /\ failures' \in 0 .. MaxFailures
        /\ failures' = 0 => closed /\ failures = 0
    BY Types, NodeAssumption DEF Closes
  <1> DEFINE o == transport[t].open /\ ~closed
  <1>2. /\ transport \in [Transports -> [open : BOOLEAN, gen : Nat]]
        /\ transport' = [transport EXCEPT ![t].open = o]
        /\ o \in BOOLEAN /\ (closed => ~o) /\ (o => transport[t].open)
    BY Types DEF Closes
  <1> HIDE DEF o
  <1>3. /\ transport' \in [Transports -> [open : BOOLEAN, gen : Nat]]
        /\ \A u \in Transports : u # t => transport'[u] = transport[u]
        /\ transport'[t].open = o
    BY <1>2
  <1> QED
    BY <1>1, <1>2, <1>3

LEMMA UnwindOK ==
  ASSUME Inv, NEW closed \in BOOLEAN, Unwind(closed)
  PROVE  Inv'
  <1> USE DEF Inv
  <1>0. /\ starting.phase = "unwinding" /\ starting.i \in Transports
        /\ starting \in StartState /\ node \in NodeState /\ ~node.started
        /\ UNCHANGED <<dials, pending>>
    BY Types DEF Unwind, LoopsOK, StartsOK
  <1>1. /\ failures' \in 0 .. MaxFailures
        /\ failures' = 0 => closed /\ failures = 0
        /\ transport' \in [Transports -> [open : BOOLEAN, gen : Nat]]
        /\ \A u \in Transports : u # starting.i => transport'[u] = transport[u]
        /\ closed => ~transport'[starting.i].open
    BY <1>0, ClosesFacts DEF Unwind
  <1>2. CASE /\ starting.i > 1
             /\ starting' = [starting EXCEPT !.i = @ - 1, !.closed = @ /\ closed]
             /\ UNCHANGED <<node, stopping, calls, peers>>
    <2>1. /\ starting' \in StartState /\ starting'.phase = "unwinding"
          /\ starting'.i = starting.i - 1 /\ starting'.gen = starting.gen
          /\ starting'.closed = (starting.closed /\ closed) /\ starting'.i \in Transports
      <3> DEFINE k == starting.closed /\ closed
                 j == starting.i - 1
      <3>1. /\ k \in BOOLEAN /\ j \in Transports /\ j \in 0 .. N
            /\ starting' = [starting EXCEPT !.i = j, !.closed = k]
        BY <1>0, <1>2, NodeAssumption DEF StartState, Transports
      <3> HIDE DEF k, j
      <3>2. /\ starting' \in StartState /\ starting'.phase = starting.phase
            /\ starting'.i = j /\ starting'.gen = starting.gen /\ starting'.closed = k
        BY ONLY <1>0, <3>1 DEF StartState
      <3> QED
        BY <1>0, <3>1, <3>2 DEF k, j
    <2>2. TypeOK'
      BY <1>0, <1>1, <1>2, <2>1, Types, PrimedTypes
    <2>3. LoopsOK' /\ FailuresNoted'
      BY <1>1, <1>2, <2>1 DEF LoopsOK, FailuresNoted
    <2>4. PlacesOK' /\ UpdateOK'
      BY <1>1, <1>2 DEF PlacesOK, Unsettled, Finished, At, UpdateOK, Gone
    <2>5. StartsOK' /\ StopsOK'
      BY <1>0, <1>1, <1>2, <2>1 DEF StartsOK, StopsOK, At
    <2>6. OpenOK'
      BY <1>0, <1>1, <1>2, <2>1 DEF OpenOK, Transports
    <2>7. IdleOK'
      BY <2>1 DEF IdleOK, Active
    <2>8. ContextsOK'
      BY <1>0, <1>2, <2>1 DEF ContextsOK
    <2> QED
      BY <2>2, <2>3, <2>4, <2>5, <2>6, <2>7, <2>8
  <1>3. CASE /\ starting.i = 1
             /\ peers' = [a \in Addr |-> [peers[a] EXCEPT !.orphaned = peers[a].state # "none"]]
             /\ node' = [node EXCEPT !.cleanup = ~(starting.closed /\ closed)]
             /\ StartSettles(FALSE)
    <2>1. /\ node' \in NodeState /\ node'.desired = node.desired
          /\ node'.started = node.started /\ node'.heartbeat = node.heartbeat
          /\ node'.cleanup = ~(starting.closed /\ closed) /\ node'.gen = node.gen
          /\ node'.blocked = node.blocked /\ node'.updating = node.updating
          /\ node'.latest = node.latest /\ node'.overlapped = node.overlapped
      <3> DEFINE k == ~(starting.closed /\ closed)
      <3>1. k \in BOOLEAN /\ node' = [node EXCEPT !.cleanup = k]
        BY <1>3
      <3> HIDE DEF k
      <3>2. node' \in NodeState
        BY ONLY <1>0, <3>1 DEF NodeState
      <3>3. /\ node'.desired = node.desired
            /\ node'.started = node.started /\ node'.heartbeat = node.heartbeat
            /\ node'.cleanup = k /\ node'.gen = node.gen
            /\ node'.blocked = node.blocked /\ node'.updating = node.updating
            /\ node'.latest = node.latest /\ node'.overlapped = node.overlapped
        BY ONLY <1>0, <3>1 DEF NodeState
      <3> QED
        BY <3>2, <3>3 DEF k
    <2>2. /\ starting' \in StartState /\ starting'.phase = "none" /\ starting'.closed
          /\ stopping' \in StopState /\ stopping'.phase = stopping.phase
          /\ stopping'.i = stopping.i /\ stopping'.failed = stopping.failed
          /\ calls' \in [Call -> CallState]
          /\ \A x \in StopCall : calls'[x] = calls[x]
      BY <1>3, StartSettlesFacts
    <2>3. PlacesOK'
      BY <1>3, <2>1, StartSettlesPlaces
    <2>4. /\ peers' \in [Addr -> PeerState]
          /\ \A a \in Addr : peers'[a].state = "none" \/ peers'[a].orphaned
      BY <1>3, Types DEF PeerState
    <2>5. TypeOK'
      BY <1>0, <1>1, <2>1, <2>2, <2>4, Types, PrimedTypes
    <2>6. LoopsOK' /\ FailuresNoted'
      BY <1>1, <2>2 DEF LoopsOK, FailuresNoted
    <2>7. StartsOK'
      BY <1>0, <2>1, <2>2 DEF StartsOK
    <2>8. OpenOK'
      BY <1>0, <1>1, <1>3, <2>1, <2>2 DEF OpenOK, Transports
    <2>9. IdleOK' /\ UpdateOK'
      BY <1>0, <1>1, <2>1, <2>4 DEF IdleOK, UpdateOK, Gone, FailuresNoted
    <2>10. ContextsOK'
      BY <1>0, <2>1, <2>2 DEF ContextsOK
    <2>11. StopsOK'
      BY <1>0, <1>1, <2>1, <2>2 DEF StopsOK, At
    <2> QED
      BY <2>3, <2>5, <2>6, <2>7, <2>8, <2>9, <2>10, <2>11
  <1> QED
    BY <1>2, <1>3 DEF Unwind

LEMMA DepartedOK ==
  ASSUME Inv, Departed
  PROVE  Inv'
  <1> USE DEF Inv
  <1>0. /\ stopping.phase = "departing" /\ stopping \in StopState
        /\ UNCHANGED <<node, starting, transport, calls, pending, failures>>
    BY Types DEF Departed
  <1>1. /\ stopping' \in StopState /\ stopping'.phase = "closing" /\ stopping'.i = 1
        /\ stopping'.failed = stopping.failed
    <2>1. 1 \in 0 .. N /\ stopping' = [stopping EXCEPT !.phase = "closing", !.i = 1]
      BY NodeAssumption DEF Departed
    <2> QED
      BY ONLY <1>0, <2>1 DEF StopState
  <1>2. /\ peers' \in [Addr -> PeerState] /\ dials' \in [Dial -> DialState]
        /\ \A a \in Addr : /\ peers'[a].orphaned = peers[a].orphaned
                           /\ peers[a].state = "none" <=> peers'[a].state = "none"
    BY ClosedFacts DEF Departed
  <1>3. TypeOK'
    BY <1>0, <1>1, <1>2, Types, PrimedTypes
  <1>4. LoopsOK' /\ FailuresNoted'
    BY <1>0, <1>1, NodeAssumption DEF LoopsOK, FailuresNoted, Transports
  <1>5. PlacesOK' /\ StopsOK'
    BY <1>0, <1>1 DEF PlacesOK, Unsettled, Finished, At, StopsOK
  <1>6. StartsOK' /\ IdleOK'
    BY <1>0, <1>1 DEF StartsOK, IdleOK, Active
  <1>7. OpenOK'
    BY <1>0, <1>1 DEF OpenOK, Transports
  <1>8. ContextsOK'
    BY <1>0, <1>1 DEF ContextsOK
  <1>9. UpdateOK'
    BY <1>0, <1>2 DEF UpdateOK, Gone
  <1> QED
    BY <1>3, <1>4, <1>5, <1>6, <1>7, <1>8, <1>9

LEMMA StopTransportOK ==
  ASSUME Inv, NEW closed \in BOOLEAN, StopTransport(closed)
  PROVE  Inv'
  <1> USE DEF Inv
  <1>0. /\ stopping.phase = "closing" /\ stopping.i \in Transports
        /\ stopping \in StopState
        /\ UNCHANGED <<node, starting, calls, dials, pending, peers>>
    BY Types DEF StopTransport, LoopsOK
  <1>1. /\ failures' \in 0 .. MaxFailures
        /\ failures' = 0 => closed /\ failures = 0
        /\ transport' \in [Transports -> [open : BOOLEAN, gen : Nat]]
        /\ \A u \in Transports : u # stopping.i => transport'[u] = transport[u]
        /\ closed => ~transport'[stopping.i].open
    BY <1>0, ClosesFacts DEF StopTransport
  <1>2. /\ stopping' \in StopState
        /\ stopping'.failed = (stopping.failed \/ ~closed)
        /\ \/ /\ stopping.i = N /\ stopping'.phase = "draining"
           \/ /\ stopping.i # N /\ stopping'.phase = "closing"
              /\ stopping'.i = stopping.i + 1 /\ stopping'.i \in Transports
    <2> DEFINE f == stopping.failed \/ ~closed
               p == IF stopping.i = N THEN "draining" ELSE stopping.phase
               j == IF stopping.i = N THEN 0 ELSE stopping.i + 1
    <2>1. stopping' = [stopping EXCEPT !.failed = f, !.phase = p, !.i = j]
      BY DEF StopTransport
    <2>2. f \in BOOLEAN /\ j \in 0 .. N
      BY <1>0, NodeAssumption DEF Transports
    <2>3. /\ p \in {"draining", "closing"}
          /\ stopping.i = N => p = "draining"
          /\ stopping.i # N => /\ p = "closing" /\ j = stopping.i + 1 /\ j \in Transports
      BY <1>0, NodeAssumption DEF Transports
    <2>4. f = (stopping.failed \/ ~closed)
      OBVIOUS
    <2> HIDE DEF f, p, j
    <2>5. /\ stopping' \in StopState
          /\ stopping'.failed = f /\ stopping'.phase = p /\ stopping'.i = j
      BY ONLY <1>0, <2>1, <2>2, <2>3 DEF StopState
    <2> QED
      BY <2>3, <2>4, <2>5
  <1>3. TypeOK'
    BY <1>0, <1>1, <1>2, Types, PrimedTypes
  <1>4. LoopsOK' /\ FailuresNoted'
    BY <1>0, <1>1, <1>2 DEF LoopsOK, FailuresNoted
  <1>5. PlacesOK' /\ UpdateOK'
    BY <1>0, <1>1, <1>2 DEF PlacesOK, Unsettled, Finished, At, UpdateOK, Gone
  <1>6. StartsOK'
    BY <1>0, <1>2 DEF StartsOK
  <1>7. IdleOK'
    BY <1>2 DEF IdleOK, Active
  <1>8. OpenOK'
    BY <1>0, <1>1, <1>2, NodeAssumption DEF OpenOK, Transports
  <1>9. ContextsOK'
    <2>1. ~node.overlapped /\ starting.phase # "none" => starting.gen # node.gen
      BY <1>0, Types DEF StartsOK, NodeState, StartState
    <2> QED
      BY <1>0, <1>2, <2>1 DEF ContextsOK
  <1>10. StopsOK'
    BY <1>0, <1>1 DEF StopsOK, At
  <1> QED
    BY <1>3, <1>4, <1>5, <1>6, <1>7, <1>8, <1>9, <1>10

LEMMA AwaitsOthersOK ==
  ASSUME Inv, AwaitsOthers
  PROVE  Inv'
  <1> USE DEF Inv
  <1>0. /\ stopping.phase = "draining" /\ stopping \in StopState
        /\ UNCHANGED <<node, starting, transport, calls, dials, pending, peers, failures>>
    BY Types DEF AwaitsOthers
  <1>1. /\ stopping' \in StopState /\ stopping'.phase = "settling"
        /\ stopping'.failed = stopping.failed
        /\ stopping'.start = (starting.phase # "none")
    <2> DEFINE D == {pending[a] : a \in Addr} \ {None}
               s == starting.phase # "none"
    <2>1. D \in SUBSET Dial /\ s \in BOOLEAN
      BY Types
    <2>2. stopping' = [stopping EXCEPT !.phase = "settling", !.dials = D, !.start = s]
      BY DEF AwaitsOthers
    <2> HIDE DEF D, s
    <2>3. /\ stopping' \in StopState /\ stopping'.phase = "settling"
          /\ stopping'.failed = stopping.failed /\ stopping'.start = s
      BY ONLY <1>0, <2>1, <2>2 DEF StopState
    <2> QED
      BY <2>3 DEF s
  <1>2. TypeOK'
    BY <1>0, <1>1, Types, PrimedTypes
  <1>3. LoopsOK' /\ FailuresNoted' /\ OpenOK'
    BY <1>0, <1>1 DEF LoopsOK, FailuresNoted, OpenOK
  <1>4. PlacesOK' /\ UpdateOK'
    BY <1>0, <1>1 DEF PlacesOK, Unsettled, Finished, At, UpdateOK, Gone
  <1>5. StartsOK' /\ IdleOK'
    BY <1>0, <1>1 DEF StartsOK, IdleOK, Active
  <1>6. ContextsOK' /\ StopsOK'
    BY <1>0, <1>1 DEF ContextsOK, StopsOK, At
  <1> QED
    BY <1>2, <1>3, <1>4, <1>5, <1>6

LEMMA StopSettlesOK ==
  ASSUME Inv, StopSettles
  PROVE  Inv'
  <1> USE DEF Inv
  <1>0. /\ stopping.phase = "settling" /\ ~stopping.start
        /\ stopping \in StopState /\ node \in NodeState
        /\ UNCHANGED <<starting, transport, dials, failures>>
    BY Types DEF StopSettles
  <1>1. /\ peers' \in [Addr -> PeerState] /\ pending' \in [Addr -> Dial \cup {None}]
        /\ \A a \in Addr : peers'[a].state = "none"
    BY DEF StopSettles, NoPeer, PeerState
  <1>2. /\ stopping' \in StopState /\ stopping'.phase = "none" /\ ~stopping'.failed
    <2>1. 0 \in 0 .. N
      BY NodeAssumption
    <2>2. stopping' = [phase |-> "none", i |-> 0, failed |-> FALSE, dials |-> {}, start |-> FALSE]
      BY ONLY StopSettles DEF StopSettles, NoStop
    <2> QED
      BY ONLY <2>1, <2>2 DEF StopState
  <1>3. /\ node' \in NodeState /\ node'.desired = node.desired
        /\ node'.started = node.started /\ node'.heartbeat = node.heartbeat
        /\ node'.cleanup = stopping.failed /\ node'.gen = node.gen
        /\ node'.blocked = node.blocked /\ node'.updating = node.updating
        /\ node'.latest = node.latest /\ node'.overlapped = node.overlapped
    <2>1. stopping.failed \in BOOLEAN /\ node' = [node EXCEPT !.cleanup = stopping.failed]
      BY <1>0 DEF StopSettles, StopState
    <2>2. node' \in NodeState
      BY ONLY <1>0, <2>1 DEF NodeState
    <2> QED
      BY ONLY <1>0, <2>1, <2>2 DEF NodeState
  <1>4. ASSUME NEW x \in Call
        PROVE  /\ calls'[x] \in CallState /\ calls'[x].overruled = calls[x].overruled
               /\ ~At(x, "awaitStop") => calls'[x] = calls[x]
               /\ At(x, "awaitStop") =>
                     calls'[x].pc = IF x \in StartCall THEN "ready" ELSE "stopped"
    <2>1. calls[x] \in CallState /\ stopping.failed \in BOOLEAN
      BY <1>0, Types DEF StopState
    <2>2. CASE At(x, "awaitStop")
      <3> DEFINE p == IF x \in StartCall THEN "ready" ELSE "stopped"
      <3>1. calls'[x] = [calls[x] EXCEPT !.pc = p, !.failed = stopping.failed]
        BY <2>2 DEF StopSettles
      <3>2. p \in {"ready", "stopped"}
        OBVIOUS
      <3> HIDE DEF p
      <3>3. /\ calls'[x] \in CallState /\ calls'[x].pc = p
            /\ calls'[x].overruled = calls[x].overruled
        BY ONLY <2>1, <3>1, <3>2 DEF CallState
      <3> QED
        BY <2>2, <3>3 DEF p
    <2>3. CASE ~At(x, "awaitStop")
      BY <2>1, <2>3 DEF StopSettles
    <2> QED
      BY <2>2, <2>3
  <1>5. calls' \in [Call -> CallState]
    BY <1>4 DEF StopSettles
  <1>6. TypeOK'
    BY <1>0, <1>1, <1>2, <1>3, <1>5, Types, PrimedTypes
  <1>7. LoopsOK' /\ FailuresNoted'
    BY <1>0, <1>2 DEF LoopsOK, FailuresNoted
  <1>8. node.latest # None =>
           \/ calls'[node.latest] = calls[node.latest]
           \/ calls[node.latest].pc = "awaitStop" /\ calls'[node.latest].pc = "stopped"
    BY <1>0, <1>4, Types, Kinds DEF NodeState, At
  <1>9. PlacesOK'
    <2>1. \A x \in StopCall : calls'[x].pc \in {"idle", "awaitStop", "stopped", "awaitUpdate", "returned"}
      BY <1>4, Kinds DEF PlacesOK
    <2>2. \A x \in BlockCall : calls'[x].pc # "ready" /\ calls'[x].pc # "go"
      BY <1>4, Kinds DEF PlacesOK
    <2>3. node'.updating <=> Unsettled'
      BY <1>3, <1>8 DEF PlacesOK, Unsettled, Finished
    <2>4. \A x \in Call : calls'[x].pc # "awaitStop"
      BY <1>4 DEF At
    <2> QED
      BY <2>1, <2>2, <2>3, <2>4 DEF PlacesOK, At
  <1>10. ~node.overlapped => ~node.started /\ starting.phase = "none"
    BY <1>0 DEF StartsOK
  <1>11. StartsOK'
    BY <1>0, <1>2, <1>3 DEF StartsOK
  <1>12. OpenOK'
    BY <1>0, <1>3 DEF OpenOK
  <1>13. IdleOK' /\ UpdateOK'
    BY <1>0, <1>1, <1>3 DEF IdleOK, UpdateOK, Gone, FailuresNoted
  <1>14. ContextsOK'
    BY <1>0, <1>3, <1>10 DEF ContextsOK
  <1>15. StopsOK'
    BY <1>0, <1>2, <1>3, <1>4, <1>10, Kinds DEF StopsOK, At
  <1> QED
    BY <1>6, <1>7, <1>9, <1>11, <1>12, <1>13, <1>14, <1>15

-----------------------------------------------------------------------------
(* Dials and peers                                                         *)

LEMMA DialEndsFacts ==
  ASSUME dials \in [Dial -> DialState], pending \in [Addr -> Dial \cup {None}],
         NEW d \in Dial, DialEnds(d)
  PROVE  dials' \in [Dial -> DialState] /\ pending' \in [Addr -> Dial \cup {None}]
  BY DEF DialEnds, DialState

LEMMA CallConnectOK ==
  ASSUME Inv, NEW d \in Dial, NEW a \in Addr, CallConnect(d, a)
  PROVE  Inv'
  <1>1. dials' \in [Dial -> DialState] /\ pending' \in [Addr -> Dial \cup {None}]
    BY Types DEF Inv, CallConnect, DialState, NodeState
  <1>2. TypeOK'
    BY <1>1, Types, PrimedTypes DEF Inv, CallConnect
  <1> QED
    BY <1>2, PeerStep DEF CallConnect

LEMMA DialTransportOK ==
  ASSUME Inv, NEW d \in Dial, DialTransport(d)
  PROVE  Inv'
  <1> DEFINE b == dials[d].addr
  <1>1. CASE UNCHANGED peers /\ DialEnds(d)
    <2>1. TypeOK'
      BY <1>1, DialEndsFacts, Types, PrimedTypes DEF Inv, DialTransport
    <2> QED
      BY <1>1, <2>1, PeerStep DEF DialTransport
  <1>2. CASE /\ transport[b[1]].open
             /\ ~Revoked(d)
             /\ peers' = [peers EXCEPT ![b] = [state |-> "handshaking", dial |-> d,
                                             orphaned |-> FALSE]]
             /\ dials' = [dials EXCEPT ![d].pc = "handshake"]
             /\ UNCHANGED pending
    <2>1. dials' \in [Dial -> DialState] /\ peers' \in [Addr -> PeerState]
      BY <1>2, Types DEF Inv, DialState, PeerState
    <2>2. TypeOK'
      BY <1>2, <2>1, Types, PrimedTypes DEF Inv, DialTransport
    <2>3. \A x \in Addr : \/ peers'[x] = peers[x]
                          \/ x[2] \notin node.blocked /\ transport[x[1]].open
      BY <1>2, Types DEF Inv, Revoked
    <2> QED
      BY <2>2, <2>3, PeerStep DEF DialTransport
  <1> QED
    BY <1>1, <1>2 DEF DialTransport

LEMMA Msg2ArrivesOK ==
  ASSUME Inv, NEW d \in Dial, Msg2Arrives(d)
  PROVE  Inv'
  <1> DEFINE b == dials[d].addr
  <1>1. peers' = [peers EXCEPT ![b].state = "established"] /\ peers[b].state = "handshaking"
    BY DEF Msg2Arrives
  <1>2. peers' \in [Addr -> PeerState]
    BY <1>1, Types DEF Inv, PeerState
  <1>3. TypeOK'
    BY <1>2, Types, PrimedTypes DEF Inv, Msg2Arrives
  <1>4. \A x \in Addr : peers[x].state = "none" \/ peers[x].orphaned =>
                           peers'[x].state = "none" \/ peers'[x].orphaned
    BY <1>1, Types DEF Inv, PeerState
  <1> QED
    BY <1>3, <1>4, PeerStep DEF Msg2Arrives

LEMMA DialSucceedsOK ==
  ASSUME Inv, NEW d \in Dial, DialSucceeds(d)
  PROVE  Inv'
  <1>1. dials' \in [Dial -> DialState] /\ pending' \in [Addr -> Dial \cup {None}]
    BY DialEndsFacts, Types DEF Inv, DialSucceeds
  <1>2. TypeOK'
    BY <1>1, Types, PrimedTypes DEF Inv, DialSucceeds
  <1> QED
    BY <1>2, PeerStep DEF DialSucceeds

LEMMA DialFailsOK ==
  ASSUME Inv, NEW d \in Dial, DialFails(d)
  PROVE  Inv'
  <1>1. dials' \in [Dial -> DialState]
    BY Types DEF Inv, DialFails, DialState
  <1>2. TypeOK'
    BY <1>1, Types, PrimedTypes DEF Inv, DialFails
  <1> QED
    BY <1>2, PeerStep DEF DialFails

LEMMA DialFinallyOK ==
  ASSUME Inv, NEW d \in Dial, DialFinally(d)
  PROVE  Inv'
  <1>1. dials' \in [Dial -> DialState] /\ pending' \in [Addr -> Dial \cup {None}]
    BY DialEndsFacts, Types DEF Inv, DialFinally
  <1>2. /\ peers' \in [Addr -> PeerState]
        /\ \A x \in Addr : peers'[x] = peers[x] \/ peers'[x].state = "none"
    BY Types DEF Inv, DialFinally, NoPeer, PeerState
  <1>3. TypeOK'
    BY <1>1, <1>2, Types, PrimedTypes DEF Inv, DialFinally
  <1> QED
    BY <1>2, <1>3, PeerStep DEF DialFinally

LEMMA PeerConnectsOK ==
  ASSUME Inv, NEW a \in Addr, PeerConnects(a)
  PROVE  Inv'
  <1>1. /\ peers' \in [Addr -> PeerState]
        /\ \A x \in Addr : x # a => peers'[x] = peers[x]
    BY Types DEF Inv, PeerConnects, PeerState
  <1>2. TypeOK'
    BY <1>1, Types, PrimedTypes DEF Inv, PeerConnects
  <1>3. a[2] \notin node.blocked /\ transport[a[1]].open
    BY DEF PeerConnects, Live
  <1> QED
    BY <1>1, <1>2, <1>3, PeerStep DEF PeerConnects

LEMMA PeerDisconnectsOK ==
  ASSUME Inv, NEW a \in Addr, PeerDisconnects(a)
  PROVE  Inv'
  <1>1. dials' \in [Dial -> DialState]
    BY Types DEF Inv, PeerDisconnects, DialState
  <1>2. /\ peers' \in [Addr -> PeerState]
        /\ \A x \in Addr : peers'[x] = peers[x] \/ peers'[x].state = "none"
    BY Types DEF Inv, PeerDisconnects, NoPeer, PeerState
  <1>3. TypeOK'
    BY <1>1, <1>2, Types, PrimedTypes DEF Inv, PeerDisconnects
  <1> QED
    BY <1>2, <1>3, PeerStep DEF PeerDisconnects

-----------------------------------------------------------------------------
(* The theorems                                                            *)

LEMMA InitOK ==
  ASSUME Init
  PROVE  Inv
  <1>1. TypeOK
    BY NodeAssumption DEF Init, TypeOK, NoStart, NoStop, NoPeer
  <1>2. /\ node.heartbeat = FALSE /\ node.started = FALSE /\ node.cleanup = FALSE
        /\ node.updating = FALSE /\ node.latest = None
        /\ starting.phase = "none" /\ starting.closed = TRUE
        /\ stopping.phase = "none" /\ stopping.failed = FALSE
        /\ \A t \in Transports : ~transport[t].open
        /\ \A a \in Addr : peers[a].state = "none"
        /\ \A c \in Call : calls[c].pc = "idle"
    BY DEF Init, NoStart, NoStop, NoPeer
  <1>3. PlacesOK
    BY <1>2, Kinds DEF PlacesOK, Unsettled, At
  <1>4. LoopsOK /\ FailuresNoted /\ StartsOK /\ OpenOK /\ IdleOK
    BY <1>2 DEF LoopsOK, FailuresNoted, StartsOK, OpenOK, IdleOK, Gone
  <1>5. ContextsOK /\ StopsOK /\ UpdateOK
    BY <1>2, Kinds DEF ContextsOK, StopsOK, UpdateOK, At
  <1> QED
    BY <1>1, <1>3, <1>4, <1>5 DEF Inv

LEMMA StutterOK ==
  ASSUME Inv, UNCHANGED vars
  PROVE  Inv'
  BY PeerStep, Types, PrimedTypes DEF vars, Inv

LEMMA NextOK ==
  ASSUME Inv, [Next]_vars
  PROVE  Inv'
  <1>1. CASE UNCHANGED vars
    BY <1>1, StutterOK
  <1>2. ASSUME NEW c \in StartCall, CallStart(c) \/ StartReady(c) \/ StartGo(c) \/ StartReturns(c)
        PROVE  Inv'
    BY <1>2, CallStartOK, StartReadyOK, StartGoOK, StartReturnsOK
  <1>3. ASSUME NEW c \in StopCall, CallStop(c) \/ StopStopped(c)
        PROVE  Inv'
    BY <1>3, CallStopOK, StopStoppedOK
  <1>4. ASSUME NEW c \in BlockCall, NEW keys \in SUBSET Key, CallBlock(c, keys)
        PROVE  Inv'
    BY <1>4, CallBlockOK
  <1>5. ASSUME NEW c \in BlockCall, BlockStop(c) \/ BlockStopped(c) \/ BlockStarted(c)
        PROVE  Inv'
    BY <1>5, BlockStopOK, BlockStoppedOK, BlockStartedOK
  <1>6. CASE TransportStarts \/ TransportStartFails
    BY <1>6, TransportStartsOK, TransportStartFailsOK
  <1>7. ASSUME NEW closed \in BOOLEAN, Unwind(closed) \/ StopTransport(closed)
        PROVE  Inv'
    BY <1>7, UnwindOK, StopTransportOK
  <1>8. CASE Departed \/ AwaitsOthers \/ StopSettles
    BY <1>8, DepartedOK, AwaitsOthersOK, StopSettlesOK
  <1>9. ASSUME NEW d \in Dial, NEW a \in Addr, CallConnect(d, a)
        PROVE  Inv'
    BY <1>9, CallConnectOK
  <1>10. ASSUME NEW d \in Dial,
                \/ DialTransport(d) \/ Msg2Arrives(d) \/ DialSucceeds(d)
                \/ DialFails(d) \/ DialFinally(d)
         PROVE  Inv'
    BY <1>10, DialTransportOK, Msg2ArrivesOK, DialSucceedsOK, DialFailsOK, DialFinallyOK
  <1>11. ASSUME NEW a \in Addr, PeerConnects(a) \/ PeerDisconnects(a)
         PROVE  Inv'
    BY <1>11, PeerConnectsOK, PeerDisconnectsOK
  <1> QED
    BY <1>1, <1>2, <1>3, <1>4, <1>5, <1>6, <1>7, <1>8, <1>9, <1>10, <1>11 DEF Next

\* The inductive invariant holds of every behaviour.
THEOREM Invariance == Spec => []Inv
  BY InitOK, NextOK, PTL DEF Spec

\* Whatever calls of start(), stop() and setBlockedPeerPubkeys() overlap, and whatever
\* transports fail: a node whose stop() returned, with no start() since, is down and
\* stays down, and a node that runs has its transports under contexts it listens to
\* (startTransports, stopTransports; the exceptions are the ones of the two invariants).
THEOREM LifecycleHolds == Spec => []LifecycleInv
  <1>1. Inv => LifecycleInv
    <2> SUFFICES ASSUME Inv
                 PROVE  LifecycleInv
      OBVIOUS
    <2> USE DEF Inv
    <2>1. ASSUME NEW c \in StopCall, At(c, "returned"), ~calls[c].overruled, ~node.overlapped
          PROVE  /\ ~node.started /\ ~node.heartbeat
                 /\ starting.phase = "none"
                 /\ failures = 0 => /\ \A t \in Transports : ~transport[t].open
                                    /\ \A a \in Addr : Gone(a)
      <3>1. ~node.started /\ starting.phase = "none" /\ (failures = 0 => stopping.phase = "none")
        BY <2>1 DEF StopsOK, At
      <3>2. ~node.heartbeat
        BY <3>1 DEF StartsOK
      <3>3. failures = 0 => ~Active
        BY <3>1 DEF Active
      <3>4. failures = 0 => \A t \in Transports : ~transport[t].open
        BY <3>1 DEF OpenOK
      <3>5. failures = 0 => \A a \in Addr : Gone(a)
        BY <3>3 DEF IdleOK
      <3> QED
        BY <3>1, <3>2, <3>4, <3>5
    <2>2. StoppedStaysDown
      BY <2>1 DEF StoppedStaysDown
    <2>3. RunningHasTransports
      BY Types DEF RunningHasTransports, ContextsOK, PlacesOK, Unsettled, Finished, Live
    <2> QED
      BY <2>2, <2>3 DEF LifecycleInv
  <1> QED
    BY <1>1, Invariance, PTL

\* Once setBlockedPeerPubkeys() has resolved, and while its deny set is in force, no
\* path of a denied identity is left and none comes back, however many updates, stops,
\* starts and dials overlap (the exceptions are the ones of RevocationHolds).
THEOREM RevocationTakesEffect == Spec => []RevocationHolds
  <1>1. Inv => RevocationHolds
    BY Kinds DEF Inv, RevocationHolds, UpdateOK, At
  <1> QED
    BY <1>1, Invariance, PTL

\* From the call of setBlockedPeerPubkeys() on, before anything it awaits settles, no
\* path of a denied identity comes up: not by a dial under way, not by an accepted one.
THEOREM DenialIsImmediate == Spec => DeniedAtOnce
  <1> DEFINE A == \A a \in Addr : a[2] \in node.blocked /\ peers'[a].state # peers[a].state =>
                      peers'[a].state \in {"none", "closed"}
  <1>1. ASSUME Inv, [Next]_vars
        PROVE  A
    <2>1. CASE UNCHANGED peers
      BY <2>1
    <2>2. CASE peers' = PeersClosed(peers)
      BY <2>2, <1>1, Types DEF PeersClosed, Inv, PeerState
    <2>3. CASE peers' = [a \in Addr |-> NoPeer]
      BY <2>3 DEF NoPeer
    <2>4. CASE peers' = [a \in Addr |-> [peers[a] EXCEPT !.orphaned = peers[a].state # "none"]]
      <3>1. ASSUME NEW a \in Addr
            PROVE  peers'[a].state = peers[a].state
        <4> DEFINE o == peers[a].state # "none"
        <4>1. peers[a] \in PeerState /\ peers'[a] = [peers[a] EXCEPT !.orphaned = o]
          BY <2>4, <1>1, Types DEF Inv
        <4> HIDE DEF o
        <4> QED
          BY ONLY <4>1 DEF PeerState
      <3> QED
        BY <3>1
    <2>5. ASSUME NEW d \in Dial, DialTransport(d) \/ Msg2Arrives(d) \/ DialFinally(d)
          PROVE  A
      <3>1. CASE DialTransport(d)
        <4> DEFINE b == dials[d].addr
        <4>1. CASE /\ ~Revoked(d)
                   /\ peers' = [peers EXCEPT ![b] = [state |-> "handshaking", dial |-> d,
                                                   orphaned |-> FALSE]]
          <5>1. \A x \in Addr : peers'[x] = peers[x] \/ x[2] \notin node.blocked
            BY <4>1, <1>1, Types DEF Inv, Revoked
          <5> QED
            BY <5>1
        <4> QED
          BY <2>1, <3>1, <4>1 DEF DialTransport
      <3>2. CASE Msg2Arrives(d)
        BY <3>2, <1>1, Types DEF Msg2Arrives, Inv, PeerState
      <3>3. CASE DialFinally(d)
        BY <3>3, <1>1, Types DEF DialFinally, Inv, NoPeer
      <3> QED
        BY <2>5, <3>1, <3>2, <3>3
    <2>6. ASSUME NEW a \in Addr, PeerConnects(a) \/ PeerDisconnects(a)
          PROVE  A
      <3>1. peers \in [Addr -> PeerState]
        BY <1>1, Types DEF Inv
      <3>2. CASE PeerConnects(a)
        BY <3>1, <3>2 DEF PeerConnects
      <3>3. CASE PeerDisconnects(a)
        BY <3>1, <3>3 DEF PeerDisconnects, NoPeer
      <3> QED
        BY <2>6, <3>2, <3>3
    <2> HIDE DEF A
    <2>7. A
      <3>1. CASE UNCHANGED vars
        BY <3>1, <2>1 DEF vars
      <3>2. ASSUME NEW c \in StartCall,
                   CallStart(c) \/ StartReady(c) \/ StartGo(c) \/ StartReturns(c)
            PROVE  A
        BY <3>2, <2>1 DEF CallStart, StartReady, StartGo, StartReturns
      <3>3. ASSUME NEW c \in StopCall, CallStop(c) \/ StopStopped(c)
            PROVE  A
        BY <3>3, <2>1, <2>2 DEF CallStop, StopStopped, StopNode
      <3>4. ASSUME NEW c \in BlockCall, NEW keys \in SUBSET Key, CallBlock(c, keys)
            PROVE  A
        BY <3>4, <2>1 DEF CallBlock
      <3>5. ASSUME NEW c \in BlockCall, BlockStop(c) \/ BlockStopped(c) \/ BlockStarted(c)
            PROVE  A
        BY <3>5, <2>1, <2>2 DEF BlockStop, BlockStopped, BlockStarted, StopNode
      <3>6. CASE TransportStarts \/ TransportStartFails
        BY <3>6, <2>1 DEF TransportStarts, TransportStartFails
      <3>7. ASSUME NEW closed \in BOOLEAN, Unwind(closed) \/ StopTransport(closed)
            PROVE  A
        BY <3>7, <2>1, <2>4 DEF Unwind, StopTransport
      <3>8. CASE Departed \/ AwaitsOthers \/ StopSettles
        BY <3>8, <2>1, <2>2, <2>3 DEF Departed, AwaitsOthers, StopSettles
      <3>9. ASSUME NEW d \in Dial, \/ \E a \in Addr : CallConnect(d, a)
                                   \/ DialSucceeds(d) \/ DialFails(d)
            PROVE  A
        BY <3>9, <2>1 DEF CallConnect, DialSucceeds, DialFails
      <3> QED
        BY <3>1, <3>2, <3>3, <3>4, <3>5, <3>6, <3>7, <3>8, <3>9, <2>5, <2>6, <1>1 DEF Next
    <2> QED
      BY <2>7
  <1> QED
    BY <1>1, Invariance, PTL DEF Spec, DeniedAtOnce

=============================================================================
