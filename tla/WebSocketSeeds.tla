--------------------------- MODULE WebSocketSeeds ---------------------------
(***************************************************************************)
(* The WebSocket transport of                                              *)
(* packages/transport-websocket/src/WebSocketTransport.ts.                 *)
(*                                                                         *)
(* Every configured seed has at most one socket, which asks the far end    *)
(* for its key before it carries records, and is dialed again with a       *)
(* growing delay whenever it ends.  Sockets are known by the generation    *)
(* that made them: events of earlier ones may still arrive, and messages   *)
(* wait in the seed's receive chain, across a Blob's arrayBuffer(), while  *)
(* the connection ends, the transport stops, or both start again.          *)
(*                                                                         *)
(* A message says which socket it came in on.  Time is left out: a timer   *)
(* that is set may fire at any moment, the reconnect timer however long    *)
(* its delay has grown.                                                    *)
(***************************************************************************)
EXTENDS Naturals, Sequences, FiniteSets

CONSTANTS
    Seed,      \* configured URLs
    Key,       \* identities the far end of a seed may have, the local one among them
    Local,     \* the identity of this node
    Connect,   \* calls of connect()
    MaxRecords,\* bound: calls of send(), each with a record of its own
    Deniable,  \* the identities that the node may come to block
    MaxQueue,  \* maxSendQueue
    MaxDials,  \* bound: sockets made per seed
    MaxChain,  \* bound: messages waiting in a receive chain
    MaxStops,  \* bound: calls of stop()
    None

ASSUME SeedAssumption ==
    /\ Local \in Key
    /\ Deniable \subseteq Key \ {Local}
    /\ None \notin Key \cup Seed
    /\ MaxQueue \in Nat \ {0}
    /\ {MaxRecords, MaxDials, MaxChain, MaxStops} \subseteq Nat

VARIABLES
    running,   \* ~stopping
    stops,     \* calls of stop() so far
    blocked,   \* identities allowPeer refuses
    seeds,     \* seeds[s]: the SeedState
    sockets,   \* sockets[s][g]: the WebSocket of generation g
    connects,  \* connects[c]: the seed awaited and how the call ended
    records    \* records[m]: the seed, the peer it was meant for, and how it ended

vars == <<running, stops, blocked, seeds, sockets, connects, records>>

Record == 1 .. MaxRecords

Generation == 0 .. MaxDials   \* 0: none

\* "hint" is a key hint request, which is answered and forgotten, or a response to a
\* nonce that this transport did not draw.
Kind == {"response", "hint", "record", "text", "malformed"}

NoSocket == [state |-> "unused", key |-> None]

NewSeed ==
    [socket |-> 0, generation |-> 0, nonce |-> 0, remote |-> None, got |-> None, chain |-> <<>>, stage |-> "idle",
     queue |-> <<>>, connectTimer |-> 0, hintTimer |-> 0, sendTimer |-> FALSE,
     reconnectTimer |-> FALSE, told |-> "nothing"]

Init ==
    /\ running = FALSE
    /\ stops = 0
    /\ blocked = {}
    /\ seeds = [s \in Seed |-> NewSeed]
    /\ sockets = [s \in Seed |-> [g \in 1 .. MaxDials |-> NoSocket]]
    /\ connects = [c \in Connect |-> [state |-> "idle", seed |-> None]]
    /\ records = [m \in Record |-> [state |-> "idle", to |-> None, via |-> None]]

IsCurrent(s, g) == seeds[s].socket = g /\ seeds[s].generation = g

IsReady(s) ==
    /\ seeds[s].socket # 0
    /\ sockets[s][seeds[s].socket].state = "open"
    /\ seeds[s].remote # None

Waiters(s) == {c \in Connect : connects[c].state = "waiting" /\ connects[c].seed = s}

Settle(W) ==
    [c \in Connect |-> IF c \in W THEN [connects[c] EXCEPT !.state = "settled"] ELSE connects[c]]

Failed == [state |-> "failed", to |-> None, via |-> None]

FailRecords(recs, M) == [m \in Record |-> IF m \in M THEN Failed ELSE recs[m]]

Queued(s) == {seeds[s].queue[i] : i \in DOMAIN seeds[s].queue}

-----------------------------------------------------------------------------
(* The end of a connection                                                 *)

\* the records wait for the next connection
EndedKeepingQueue(r, on) ==
    [r EXCEPT !.socket = 0, !.remote = None, !.connectTimer = 0, !.hintTimer = 0,
              !.sendTimer = FALSE, !.told = IF on THEN "disconnected" ELSE @,
              !.reconnectTimer = @ \/ on, !.nonce = 0, !.got = None]

\* The SeedState r after connectionEnded: everything of the connection is dropped, the
\* node is told, and the next dial is scheduled unless the transport is stopping.
Ended(r, on) ==
    [r EXCEPT !.socket = 0, !.remote = None, !.connectTimer = 0, !.hintTimer = 0,
              !.sendTimer = FALSE, !.queue = <<>>, !.told = IF on THEN "disconnected" ELSE @,
              !.reconnectTimer = @ \/ on, !.nonce = 0, !.got = None]

\* connectionEnded for the connection of seed s, whose record is r by now.
ConnectionEnded(s, r) ==
    /\ seeds' = [seeds EXCEPT ![s] = Ended(r, running)]
    /\ connects' = Settle(Waiters(s))
    /\ records' = FailRecords(records, Queued(s))
    /\ UNCHANGED <<running, stops, blocked>>

\* close() of the socket; whatever it still says is not listened to.
Closing(s, g) == [sockets EXCEPT ![s][g] = [state |-> "closing", key |-> None]]

\* failSocket: nothing, when the generation has moved on.
FailSocket(s, r, g) ==
    IF g = r.generation
    THEN /\ sockets' = IF r.socket = 0 THEN sockets ELSE Closing(s, r.socket)
         /\ ConnectionEnded(s, r)
    ELSE /\ seeds' = [seeds EXCEPT ![s] = r]
         /\ UNCHANGED <<running, stops, blocked, sockets, connects, records>>

-----------------------------------------------------------------------------
(* dial                                                                    *)

\* nobody waits for the socket to open
DialedUntimed(r, made) ==
    IF r.socket # 0 \/ r.reconnectTimer THEN r
    ELSE IF made THEN [r EXCEPT !.generation = @ + 1, !.socket = r.generation + 1,
                                !.told = "connecting"]
    ELSE Ended([r EXCEPT !.generation = @ + 1], TRUE)

\* The SeedState after dial while the transport runs: the socket it made, or the end of
\* the attempt when the constructor throws.
Dialed(r, made) ==
    IF r.socket # 0 \/ r.reconnectTimer THEN r
    ELSE IF made THEN [r EXCEPT !.generation = @ + 1, !.socket = r.generation + 1,
                                !.connectTimer = r.generation + 1, !.told = "connecting"]
    ELSE Ended([r EXCEPT !.generation = @ + 1], TRUE)

\* The socket the dial made, if any, reaches a far end with key k.
SocketMade(ss, r, k) ==
    IF r.socket # 0 /\ ss[r.socket].state = "unused"
    THEN [ss EXCEPT ![r.socket] = [state |-> "connecting", key |-> k]]
    ELSE ss

Start ==
    /\ ~running
    /\ \A s \in Seed : seeds[s].generation < MaxDials
    /\ running' = TRUE
    /\ \E made \in [Seed -> BOOLEAN], key \in [Seed -> Key] :
          /\ seeds' = [s \in Seed |-> Dialed(seeds[s], made[s])]
          /\ sockets' = [s \in Seed |->
                SocketMade(sockets[s], Dialed(seeds[s], made[s]), key[s])]
    /\ UNCHANGED <<stops, blocked, connects, records>>

\* the timers run on
StoppedKeepingTimers(r) ==
    [r EXCEPT !.socket = 0, !.remote = None, !.queue = <<>>, !.nonce = 0, !.got = None,
              !.told = "nothing"]

\* The SeedState after stop(); its context is gone with everything it was told.
Stopped(r) ==
    [r EXCEPT !.socket = 0, !.remote = None, !.queue = <<>>, !.connectTimer = 0, !.hintTimer = 0,
              !.sendTimer = FALSE, !.reconnectTimer = FALSE, !.nonce = 0, !.got = None,
              !.told = "nothing"]

Stop ==
    /\ running
    /\ stops < MaxStops
    /\ stops' = stops + 1
    /\ running' = FALSE
    /\ seeds' = [s \in Seed |-> Stopped(seeds[s])]
    /\ sockets' = [s \in Seed |-> IF seeds[s].socket = 0 THEN sockets[s]
                                  ELSE Closing(s, seeds[s].socket)[s]]
    /\ connects' = Settle(UNION {Waiters(s) : s \in Seed})
    /\ records' = FailRecords(records, UNION {Queued(s) : s \in Seed})
    /\ UNCHANGED blocked

ReconnectTimer(s) ==
    /\ seeds[s].reconnectTimer
    /\ seeds[s].generation < MaxDials
    /\ LET r == [seeds[s] EXCEPT !.reconnectTimer = FALSE] IN
       \E made \in BOOLEAN, k \in Key :
          /\ seeds' = [seeds EXCEPT ![s] = IF running THEN Dialed(r, made) ELSE r]
          /\ sockets' = [sockets EXCEPT ![s] = SocketMade(@, seeds'[s], k)]
          /\ connects' = IF seeds'[s].socket = 0 THEN Settle(Waiters(s))
                         ELSE connects
    /\ UNCHANGED <<running, stops, blocked, records>>

-----------------------------------------------------------------------------
(* Events of sockets and timers                                            *)

\* "open": the key hint request is sent, or the socket refuses it.  randomNonce gives a
\* nonce: one that throws, the application's own, is not modelled.
OpenEvent(s, g) ==
    LET opened == [sockets EXCEPT ![s][g].state = "open"]
        r == [seeds[s] EXCEPT !.connectTimer = 0, !.nonce = g] IN
    /\ sockets[s][g].state = "connecting"
    /\ IsCurrent(s, g)
    /\ \/ /\ sockets' = opened
          /\ seeds' = [seeds EXCEPT ![s] = [r EXCEPT !.hintTimer = g]]
          /\ UNCHANGED <<running, stops, blocked, connects, records>>
       \/ FailSocket(s, r, g)

\* connectTimer and keyHintTimer.
ConnectTimeout(s) ==
    \E g \in {seeds[s].connectTimer, seeds[s].hintTimer} \ {0} : FailSocket(s, seeds[s], g)

\* "error" of the current socket.
ErrorEvent(s, g) ==
    /\ sockets[s][g].state \in {"connecting", "open"}
    /\ IsCurrent(s, g)
    /\ FailSocket(s, seeds[s], g)

\* The far end closes an open connection (one that does not come about is an "error"
\* first): readyState is CLOSING before the event comes.
FarEndCloses(s, g) ==
    /\ sockets[s][g].state = "open"
    /\ sockets' = [sockets EXCEPT ![s][g].state = "closing"]
    /\ UNCHANGED <<running, stops, blocked, seeds, connects, records>>

\* "close": of no interest unless the socket is still the current one.
CloseEvent(s, g) ==
    /\ sockets[s][g].state = "closing"
    /\ sockets' = [sockets EXCEPT ![s][g] = [state |-> "closed", key |-> None]]
    /\ IF IsCurrent(s, g) THEN ConnectionEnded(s, seeds[s])
       ELSE UNCHANGED <<running, stops, blocked, seeds, connects, records>>

\* "message": it joins the seed's receive chain.
MessageEvent(s, g, kind) ==
    /\ sockets[s][g].state = "open"
    /\ IsCurrent(s, g)
    /\ Len(seeds[s].chain) < MaxChain
    /\ seeds' = [seeds EXCEPT ![s].chain = Append(@, [from |-> g, kind |-> kind])]
    /\ UNCHANGED <<running, stops, blocked, sockets, connects, records>>

-----------------------------------------------------------------------------
(* receive                                                                 *)

Popped(s) == [seeds[s] EXCEPT !.chain = Tail(@), !.stage = "idle"]

\* Up to the await of binaryMessage.
ReceiveBegins(s) ==
    /\ seeds[s].chain # <<>>
    /\ seeds[s].stage = "idle"
    /\ seeds' = [seeds EXCEPT ![s] = IF IsCurrent(s, Head(@.chain).from)
                                     THEN [@ EXCEPT !.stage = "await"] ELSE Popped(s)]
    /\ UNCHANGED <<running, stops, blocked, sockets, connects, records>>

\* The peer is known: whoever waits for the connection goes on, and the node is told.
\* (The send queue is empty: records are queued for a known peer only.)
Identified(s, k) ==
    /\ seeds' = [seeds EXCEPT ![s] = [Popped(s) EXCEPT !.hintTimer = 0, !.remote = k,
                                                       !.told = "connected"]]
    /\ connects' = Settle(Waiters(s))

\* The bytes are there.  Text throws before the second check, the rest after it.
ReceiveRest(s) ==
    LET m == Head(seeds[s].chain)
        k == sockets[s][m.from].key
        answers == m.kind = "response" /\ seeds[s].nonce = m.from /\ seeds[s].remote = None
        Throws == \/ m.kind = "text"
                  \/ /\ IsCurrent(s, m.from)
                     /\ \/ m.kind = "malformed"
                        \/ m.kind = "record" /\ seeds[s].remote = None
                        \/ answers /\ k \in blocked \cup {Local}
    IN
    /\ seeds[s].stage = "await"
    /\ \/ /\ Throws
          /\ seeds' = [seeds EXCEPT ![s].stage = "threw"]
          /\ UNCHANGED connects
       \/ /\ ~Throws /\ IsCurrent(s, m.from) /\ answers
          /\ Identified(s, k)
       \/ /\ ~Throws /\ ~(IsCurrent(s, m.from) /\ answers)
          /\ seeds' = [seeds EXCEPT ![s] =
                [Popped(s) EXCEPT !.got = IF m.kind = "record" /\ IsCurrent(s, m.from)
                                          THEN k ELSE @]]
          /\ UNCHANGED connects
    /\ UNCHANGED <<running, stops, blocked, sockets, records>>

\* The catch handler of the chain.
ReceiveThrew(s) ==
    /\ seeds[s].stage = "threw"
    /\ FailSocket(s, Popped(s), Head(seeds[s].chain).from)

-----------------------------------------------------------------------------
(* connect, send, pump                                                     *)

\* A seed of a running transport has a socket or a reconnect timer (SeedCovered), so
\* connect never has to dial.  It is not called from within onConnectionState.
CallConnect(c, s) ==
    /\ connects[c].state = "idle"
    /\ connects' = [connects EXCEPT ![c] =
          [state |-> IF running /\ ~IsReady(s) THEN "waiting" ELSE "settled",
           seed |-> s]]
    /\ UNCHANGED <<running, stops, blocked, seeds, sockets, records>>

Prefix(q, n) == {q[i] : i \in 1 .. n}

Sent(recs, M, k) ==
    [m \in Record |-> IF m \in M THEN [recs[m] EXCEPT !.state = "sent", !.via = k] ELSE recs[m]]

\* pump with the queue q and the records recs: as much as the buffer has room for goes out
\* and a timer is set for the rest, or the peer was blocked, or the socket throws.  How much
\* room there is depends on the records and on the browser.
Pump(s, q, recs) ==
    LET g == seeds[s].socket
        k == sockets[s][g].key IN
    \/ /\ seeds[s].remote \in blocked
       /\ seeds' = [seeds EXCEPT ![s].queue = <<>>, ![s].sendTimer = FALSE]
       /\ records' = FailRecords(recs, Prefix(q, Len(q)))
       /\ UNCHANGED <<sockets, connects>>
    \/ /\ seeds[s].remote \notin blocked
       /\ \E n \in 0 .. Len(q) :
             /\ seeds' = [seeds EXCEPT ![s].queue = SubSeq(q, n + 1, Len(q)),
                                       ![s].sendTimer = n < Len(q)]
             /\ records' = Sent(recs, Prefix(q, n), k)
       /\ UNCHANGED <<sockets, connects>>
    \/ /\ seeds[s].remote \notin blocked
       /\ \E n \in 0 .. Len(q) - 1 :
             /\ records' = FailRecords(Sent(recs, Prefix(q, n), k),
                                       Prefix(q, Len(q)) \ Prefix(q, n))
             /\ sockets' = Closing(s, g)
             /\ seeds' = [seeds EXCEPT ![s] = Ended(@, running)]
             /\ connects' = Settle(Waiters(s))

HasRoom(q) == Len(q) < MaxQueue

Send(m, s) ==
    LET q == Append(seeds[s].queue, m)
        recs == [records EXCEPT ![m] = [state |-> "queued", to |-> seeds[s].remote, via |-> None]] IN
    /\ records[m].state = "idle"
    /\ \A n \in 1 .. m - 1 : records[n].state # "idle"
    /\ \/ /\ ~IsReady(s) \/ ~HasRoom(seeds[s].queue)
          /\ records' = [records EXCEPT ![m] = Failed]
          /\ UNCHANGED <<seeds, sockets, connects>>
       \/ /\ IsReady(s) /\ HasRoom(seeds[s].queue)
          /\ IF seeds[s].sendTimer
             THEN /\ seeds' = [seeds EXCEPT ![s].queue = q]
                  /\ records' = recs
                  /\ UNCHANGED <<sockets, connects>>
             ELSE Pump(s, q, recs)
    /\ UNCHANGED <<running, stops, blocked>>

\* sendTimer: look again.  A socket that is closing keeps the queue until its close event.
SendTimer(s) ==
    /\ seeds[s].sendTimer
    /\ \/ /\ ~IsReady(s)
          /\ seeds' = [seeds EXCEPT ![s].sendTimer = FALSE]
          /\ UNCHANGED <<sockets, connects, records>>
       \/ IsReady(s) /\ Pump(s, seeds[s].queue, records)
    /\ UNCHANGED <<running, stops, blocked>>

-----------------------------------------------------------------------------
(* The environment                                                         *)

\* The node's policy denies k.
Block(k) ==
    /\ k \in Deniable \ blocked
    /\ blocked' = blocked \cup {k}
    /\ UNCHANGED <<running, stops, seeds, sockets, connects, records>>

Next ==
    \/ Start \/ Stop
    \/ \E k \in Key : Block(k)
    \/ \E s \in Seed :
          \/ ReconnectTimer(s) \/ ConnectTimeout(s) \/ SendTimer(s)
          \/ ReceiveBegins(s) \/ ReceiveRest(s) \/ ReceiveThrew(s)
          \/ \E g \in 1 .. MaxDials :
                \/ OpenEvent(s, g) \/ ErrorEvent(s, g) \/ FarEndCloses(s, g) \/ CloseEvent(s, g)
                \/ \E kind \in Kind : MessageEvent(s, g, kind)
          \/ \E c \in Connect : CallConnect(c, s)
          \/ \E m \in Record : Send(m, s)

Spec == Init /\ [][Next]_vars

\* Timers fire, the chain goes on, a closing socket ends, and the buffer of a socket drains
\* at last.  The far end need not answer.
Fairness ==
    \A s \in Seed :
        /\ WF_vars(ReconnectTimer(s))
        /\ WF_vars(ConnectTimeout(s))
        /\ WF_vars(SendTimer(s) /\ ~(seeds'[s].sendTimer /\ seeds'[s].queue = seeds[s].queue))
        /\ WF_vars(ReceiveBegins(s) \/ ReceiveRest(s) \/ ReceiveThrew(s))
        /\ \A g \in 1 .. MaxDials : WF_vars(CloseEvent(s, g))

FairSpec == Spec /\ Fairness

-----------------------------------------------------------------------------
(* Properties                                                              *)

\* Every variable has its type, and a seed queues no more than maxSendQueue records.
TypeOK ==
    /\ running \in BOOLEAN
    /\ stops \in 0 .. MaxStops
    /\ blocked \subseteq Key
    /\ seeds \in [Seed ->
          [socket : Generation, generation : Generation, nonce : Generation,
           remote : Key \cup {None}, got : Key \cup {None},
           chain : UNION {[1 .. n -> [from : Generation, kind : Kind]] : n \in 0 .. MaxChain},
           stage : {"idle", "await", "threw"},
           queue : UNION {[1 .. n -> Record] : n \in 0 .. MaxQueue},
           connectTimer : Generation, hintTimer : Generation, sendTimer : BOOLEAN,
           reconnectTimer : BOOLEAN,
           told : {"nothing", "connecting", "connected", "disconnected"}]]
    /\ sockets \in [Seed -> [1 .. MaxDials ->
          [state : {"unused", "connecting", "open", "closing", "closed"},
           key : Key \cup {None}]]]
    /\ connects \in [Connect -> [state : {"idle", "waiting", "settled"},
                                 seed : Seed \cup {None}]]
    /\ records \in [Record -> [state : {"idle", "queued", "sent", "failed"},
                               to : Key \cup {None}, via : Key \cup {None}]]

\* While the transport runs no seed is forgotten: it waits for its next dial, or has a
\* socket that something will end or identify.  A stopped transport has no socket, no
\* timer and nobody waiting, whatever was under way when stop() was called.
SeedCovered ==
    \A s \in Seed :
        LET r == seeds[s] IN
        IF running
        THEN \/ r.socket = 0 /\ r.reconnectTimer
             \/ /\ r.socket # 0 /\ ~r.reconnectTimer
                /\ \/ r.socket \in {r.connectTimer, r.hintTimer}
                   \/ r.remote # None
        ELSE /\ r.socket = 0 /\ ~r.reconnectTimer /\ ~r.sendTimer
             /\ r.connectTimer = 0 /\ r.hintTimer = 0
             /\ Waiters(s) = {} /\ r.queue = <<>>

\* The transport's bookkeeping is sound: the queue keeps its limit, and each seed has
\* what will move it on, or nothing once the transport is stopped.
SeedInv == TypeOK /\ SeedCovered

\* The records that reach the node since it was told of a connection come from the peer
\* the connection was announced with, though a seed's far end may be another one after
\* each dial and messages of earlier sockets are still in the chain.
RecordsFromAnnouncedPeer ==
    \A s \in Seed : seeds[s].got # None => seeds[s].told = "connected" /\ seeds[s].got = seeds[s].remote

\* A record goes out to the peer that was connected when send() accepted it, or not at all.
RecordsReachTheirPeer == \A m \in Record : records[m].state = "sent" => records[m].via = records[m].to

\* Records stay with the peer they are for, though the far end of a seed may change with
\* every dial: neither a late message nor a queued record crosses over.
RecordsKeepPeer == RecordsFromAnnouncedPeer /\ RecordsReachTheirPeer

\* All MaxDials dials are used up.
Exhausted(s) == seeds[s].generation = MaxDials /\ seeds[s].reconnectTimer

\* connect() and send() settle, though the far end stays silent, closes or stalls.
CallsSettle ==
    /\ \A c \in Connect, s \in Seed : c \in Waiters(s) ~> c \notin Waiters(s) \/ Exhausted(s)
    /\ \A m \in Record : records[m].state = "queued" ~> records[m].state # "queued"
=============================================================================
