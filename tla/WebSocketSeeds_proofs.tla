----------------------- MODULE WebSocketSeeds_proofs -----------------------
(***************************************************************************)
(* For any number of seeds, identities, calls and records and for any      *)
(* limits: no seed of a running transport is forgotten, nothing of a       *)
(* stopped one is left, and records stay with the peer they are for.       *)
(***************************************************************************)
EXTENDS WebSocketSeeds, SequenceTheorems, TLAPS

-----------------------------------------------------------------------------
(* The inductive invariant                                                 *)

SeedState ==
    [socket : Generation, generation : Generation, nonce : Generation,
     remote : Key \cup {None}, got : Key \cup {None},
     chain : Seq([from : Generation, kind : Kind]),
     stage : {"idle", "await", "threw"},
     queue : Seq(Record),
     connectTimer : Generation, hintTimer : Generation, sendTimer : BOOLEAN,
     reconnectTimer : BOOLEAN,
     told : {"nothing", "connecting", "connected", "disconnected"}]

Socket ==
    [state : {"unused", "connecting", "open", "closing", "closed"}, key : Key \cup {None}]

ConnectState == [state : {"idle", "waiting", "settled"}, seed : Seed \cup {None}]

RecordState ==
    [state : {"idle", "queued", "sent", "failed"},
     to : Key \cup {None}, via : Key \cup {None}]

\* What outlives a connection: the counter of generations, of which no later one has
\* been used, and the receive chain, whose messages came in on earlier sockets.
Frame(r, ss) ==
    /\ r \in SeedState /\ ss \in [1 .. MaxDials -> Socket]
    /\ \A g \in 1 .. MaxDials : g > r.generation => ss[g].state = "unused"
    /\ \A i \in DOMAIN r.chain : r.chain[i].from > 0
    /\ Len(r.chain) <= MaxChain /\ Len(r.queue) <= MaxQueue
    /\ r.stage # "idle" => r.chain # <<>>

\* A seed without a socket keeps nothing of a connection.
Bare(r) ==
    /\ r.remote = None /\ r.got = None /\ r.queue = <<>>
    /\ r.connectTimer = 0 /\ r.hintTimer = 0 /\ ~r.sendTimer

\* The socket of a seed is the one of its last generation, its timers are set for that
\* one, the peer announced is its far end, and the node has records of nobody else.
Joined(r, ss) ==
    /\ r.socket = r.generation
    /\ ss[r.socket].state \in {"connecting", "open", "closing"}
    /\ ss[r.socket].key \in Key
    /\ r.connectTimer \in {0, r.socket} /\ r.hintTimer \in {0, r.socket}
    /\ r.remote # None => r.remote = ss[r.socket].key /\ r.told = "connected"
    /\ r.got # None => r.got = r.remote
    /\ r.remote = None => r.queue = <<>>

\* What will move the seed on.
Covered(r, on) ==
    /\ on /\ r.socket = 0 => r.reconnectTimer
    /\ r.socket # 0 => /\ on /\ ~r.reconnectTimer
                       /\ r.socket \in {r.connectTimer, r.hintTimer} \/ r.remote # None
    /\ ~on => ~r.reconnectTimer

SeedOK(r, ss, on) ==
    /\ Frame(r, ss)
    /\ r.socket = 0 => Bare(r)
    /\ r.socket # 0 => Joined(r, ss)
    /\ Covered(r, on)

\* A queued record is meant for the peer that its seed is connected to.
QueuesFit ==
    \A s \in Seed : \A m \in Queued(s) :
        records[m].state # "idle" /\ records[m].to = seeds[s].remote

\* No record waits with two seeds.
QueuesDisjoint ==
    \A s, t \in Seed : s # t => Queued(s) \cap Queued(t) = {}

Rest ==
    /\ running \in BOOLEAN /\ stops \in 0 .. MaxStops /\ blocked \subseteq Key
    /\ connects \in [Connect -> ConnectState]
    /\ records \in [Record -> RecordState]
    /\ ~running => \A s \in Seed : Waiters(s) = {}

SeedsOK ==
    /\ seeds \in [Seed -> SeedState]
    /\ sockets \in [Seed -> [1 .. MaxDials -> Socket]]
    /\ \A s \in Seed : SeedOK(seeds[s], sockets[s], running)

Inv == Rest /\ SeedsOK /\ QueuesFit /\ QueuesDisjoint /\ RecordsReachTheirPeer

-----------------------------------------------------------------------------
(* One seed                                                                *)

LEMMA Bounds ==
    /\ 0 \in Generation /\ Generation \subseteq Nat /\ MaxDials \in Nat
    /\ MaxQueue \in Nat /\ MaxChain \in Nat /\ MaxStops \in Nat /\ MaxRecords \in Nat
    /\ None \notin Key /\ Local \in Key
  BY SeedAssumption DEF Generation

LEMMA EndedFields ==
  ASSUME NEW r \in SeedState, NEW on \in BOOLEAN
  PROVE  LET e == Ended(r, on) IN
         /\ e \in SeedState
         /\ e.socket = 0 /\ e.remote = None /\ e.got = None /\ e.queue = <<>>
         /\ e.connectTimer = 0 /\ e.hintTimer = 0 /\ ~e.sendTimer
         /\ e.reconnectTimer = (r.reconnectTimer \/ on)
         /\ e.generation = r.generation /\ e.chain = r.chain /\ e.stage = r.stage
  <1> DEFINE word == IF on THEN "disconnected" ELSE r.told
             timer == r.reconnectTimer \/ on
             e == [r EXCEPT !.socket = 0, !.remote = None, !.connectTimer = 0,
                            !.hintTimer = 0, !.sendTimer = FALSE, !.queue = <<>>,
                            !.told = word, !.reconnectTimer = timer, !.nonce = 0,
                            !.got = None]
  <1>1. word \in {"nothing", "connecting", "connected", "disconnected"}
    BY DEF SeedState
  <1>2. timer \in BOOLEAN
    BY DEF SeedState
  <1>3. Ended(r, on) = e
    BY Zenon DEF Ended
  <1>4. <<>> \in Seq(Record)
    OBVIOUS
  <1>5. timer = (r.reconnectTimer \/ on)
    OBVIOUS
  <1> HIDE DEF word, timer
  <1>6. e \in SeedState
    BY <1>1, <1>2, <1>4, Bounds, Zenon DEF SeedState
  <1>7. /\ e.socket = 0 /\ e.remote = None /\ e.got = None /\ e.queue = <<>>
        /\ e.connectTimer = 0 /\ e.hintTimer = 0 /\ ~e.sendTimer
        /\ e.reconnectTimer = timer
        /\ e.generation = r.generation /\ e.chain = r.chain /\ e.stage = r.stage
    BY DEF SeedState
  <1> HIDE DEF e
  <1> QED
    BY <1>3, <1>5, <1>6, <1>7

\* connectionEnded leaves a seed without a socket that waits for its next dial, or has
\* nothing at all when the transport is stopping.
LEMMA EndedOK ==
  ASSUME NEW r, NEW ss, NEW on \in BOOLEAN, Frame(r, ss), ~on => ~r.reconnectTimer
  PROVE  SeedOK(Ended(r, on), ss, on)
  <1>1. r \in SeedState
    BY DEF Frame
  <1> DEFINE e == Ended(r, on)
  <1>2. /\ e \in SeedState
        /\ e.socket = 0 /\ Bare(e)
        /\ e.reconnectTimer = (r.reconnectTimer \/ on)
        /\ e.generation = r.generation /\ e.chain = r.chain /\ e.stage = r.stage
        /\ e.queue = <<>>
    BY <1>1, EndedFields DEF Bare
  <1> HIDE DEF e
  <1>3. Len(e.queue) <= MaxQueue
    BY <1>2, Bounds
  <1>4. Frame(e, ss)
    BY <1>2, <1>3 DEF Frame
  <1>5. Covered(e, on)
    BY <1>2, Zenon DEF Covered
  <1> QED
    BY <1>2, <1>4, <1>5 DEF SeedOK, e

\* The sockets may change where a generation has been used.
LEMMA FrameSockets ==
  ASSUME NEW r, NEW ss, Frame(r, ss), NEW g \in 1 .. MaxDials, g <= r.generation,
         NEW x \in Socket
  PROVE  Frame(r, [ss EXCEPT ![g] = x])
  <1> DEFINE new == [ss EXCEPT ![g] = x]
  <1>1. new \in [1 .. MaxDials -> Socket]
    BY DEF Frame
  <1>2. \A h \in 1 .. MaxDials : h # g => new[h] = ss[h]
    BY DEF Frame
  <1>3. r.generation \in Nat
    BY Bounds DEF Frame, SeedState
  <1> HIDE DEF new
  <1>4. \A h \in 1 .. MaxDials : h > r.generation => new[h].state = "unused"
    BY <1>2, <1>3, Bounds DEF Frame
  <1> QED
    BY <1>1, <1>4 DEF Frame, new

LEMMA ClosedSocket ==
  [state |-> "closing", key |-> None] \in Socket /\ [state |-> "closed", key |-> None] \in Socket
  BY DEF Socket

-----------------------------------------------------------------------------
(* What a step does to one seed, to the queues and to the callers          *)

LEMMA SeedStep ==
  ASSUME SeedsOK, NEW s \in Seed, NEW r, NEW ss,
         seeds' = [seeds EXCEPT ![s] = r], sockets' = [sockets EXCEPT ![s] = ss],
         SeedOK(r, ss, running), UNCHANGED running
  PROVE  SeedsOK'
  <1>1. r \in SeedState /\ ss \in [1 .. MaxDials -> Socket]
    BY DEF SeedOK, Frame
  <1>2. /\ seeds' \in [Seed -> SeedState]
        /\ sockets' \in [Seed -> [1 .. MaxDials -> Socket]]
    BY <1>1 DEF SeedsOK
  <1>3. ASSUME NEW t \in Seed
        PROVE  SeedOK(seeds'[t], sockets'[t], running')
    <2>1. CASE t = s
      <3>1. seeds'[t] = r /\ sockets'[t] = ss
        BY <2>1 DEF SeedsOK
      <3> QED
        BY <3>1
    <2>2. CASE t # s
      <3>1. seeds'[t] = seeds[t] /\ sockets'[t] = sockets[t]
        BY <2>2 DEF SeedsOK
      <3> QED
        BY <3>1 DEF SeedsOK
    <2> QED
      BY <2>1, <2>2
  <1> QED
    BY <1>2, <1>3 DEF SeedsOK

\* Records of M change, and what seed s has queued afterwards is for its peer.
LEMMA QueueStep ==
  ASSUME Inv, NEW s \in Seed, NEW r \in SeedState, seeds' = [seeds EXCEPT ![s] = r],
         NEW M, \A t \in Seed \ {s} : M \cap Queued(t) = {},
         \A m \in Record \ M : records'[m] = records[m],
         \A i \in DOMAIN r.queue :
            /\ r.queue[i] \in M \cup Queued(s)
            /\ records'[r.queue[i]].state # "idle"
            /\ records'[r.queue[i]].to = r.remote
  PROVE  QueuesFit' /\ QueuesDisjoint'
  <1>1. /\ seeds'[s] = r
        /\ \A t \in Seed \ {s} : seeds'[t] = seeds[t]
    BY DEF Inv, SeedsOK
  <1>2. Queued(s)' = {r.queue[i] : i \in DOMAIN r.queue}
    BY <1>1 DEF Queued
  <1>3. \A t \in Seed \ {s} : Queued(t)' = Queued(t) /\ Queued(t) \subseteq Record
    <2> SUFFICES ASSUME NEW t \in Seed \ {s}
                 PROVE  Queued(t)' = Queued(t) /\ Queued(t) \subseteq Record
      OBVIOUS
    <2>1. seeds[t].queue \in Seq(Record)
      BY DEF Inv, SeedsOK, SeedState
    <2> QED
      BY <1>1, <2>1 DEF Queued
  <1>4. QueuesFit'
    BY <1>1, <1>2, <1>3 DEF QueuesFit, Inv
  <1>5. \A t \in Seed \ {s} : Queued(s)' \cap Queued(t)' = {}
    BY <1>2, <1>3 DEF Inv, QueuesDisjoint
  <1>6. QueuesDisjoint'
    BY <1>3, <1>5 DEF Inv, QueuesDisjoint
  <1> QED
    BY <1>4, <1>6

\* The queue and the peer of the seed stay as they are.
LEMMA SameQueue ==
  ASSUME Inv, NEW s \in Seed, NEW r \in SeedState, seeds' = [seeds EXCEPT ![s] = r],
         r.queue = seeds[s].queue, r.remote = seeds[s].remote \/ r.queue = <<>>,
         UNCHANGED records
  PROVE  QueuesFit' /\ QueuesDisjoint'
  <1>1. \A i \in DOMAIN r.queue :
            /\ r.queue[i] \in {} \cup Queued(s)
            /\ records'[r.queue[i]].state # "idle"
            /\ records'[r.queue[i]].to = r.remote
    BY DEF Inv, QueuesFit, Queued
  <1>2. \A t \in Seed \ {s} : {} \cap Queued(t) = {}
    OBVIOUS
  <1> QED
    BY <1>1, <1>2, QueueStep

\* connectionEnded: the queue is rejected.
LEMMA QueueFails ==
  ASSUME Inv, NEW s \in Seed, NEW r \in SeedState, seeds' = [seeds EXCEPT ![s] = r],
         r.queue = <<>>, records' = FailRecords(records, Queued(s))
  PROVE  QueuesFit' /\ QueuesDisjoint'
  <1>1. \A m \in Record \ Queued(s) : records'[m] = records[m]
    BY DEF FailRecords
  <1>2. \A t \in Seed \ {s} : Queued(s) \cap Queued(t) = {}
    BY DEF Inv, QueuesDisjoint
  <1>3. \A i \in DOMAIN r.queue : FALSE
    OBVIOUS
  <1> QED
    BY <1>1, <1>2, <1>3, QueueStep

LEMMA FailedOf ==
  ASSUME NEW recs \in [Record -> RecordState], NEW M, records' = FailRecords(recs, M),
         \A m \in Record : recs[m].state = "sent" => recs[m].via = recs[m].to
  PROVE  records' \in [Record -> RecordState] /\ RecordsReachTheirPeer'
  <1>1. Failed \in RecordState /\ Failed.state = "failed"
    BY DEF Failed, RecordState
  <1> QED
    BY <1>1 DEF FailRecords, RecordsReachTheirPeer

LEMMA SettledCalls ==
  ASSUME Rest, NEW W, connects' = Settle(W)
  PROVE  /\ connects' \in [Connect -> ConnectState]
         /\ \A s \in Seed : Waiters(s)' = Waiters(s) \ W
  <1>1. ASSUME NEW c \in Connect
        PROVE  /\ connects'[c] \in ConnectState
               /\ c \in W => connects'[c].state = "settled"
               /\ c \notin W => connects'[c] = connects[c]
    BY DEF Settle, Rest, ConnectState
  <1>2. connects' \in [Connect -> ConnectState]
    BY <1>1 DEF Settle
  <1> QED
    BY <1>1, <1>2 DEF Waiters

-----------------------------------------------------------------------------
(* The end of a connection                                                 *)

LEMMA EndStep ==
  ASSUME Inv, NEW s \in Seed, NEW r, NEW ss, Frame(r, ss), ~running => ~r.reconnectTimer,
         sockets' = [sockets EXCEPT ![s] = ss], ConnectionEnded(s, r)
  PROVE  Inv'
  <1> DEFINE e == Ended(r, running)
  <1>1. running \in BOOLEAN
    BY DEF Inv, Rest
  <1>2. SeedOK(e, ss, running)
    BY <1>1, EndedOK
  <1>3. e \in SeedState /\ e.queue = <<>>
    BY <1>1, EndedFields DEF Frame
  <1>4. /\ seeds' = [seeds EXCEPT ![s] = e]
        /\ connects' = Settle(Waiters(s))
        /\ records' = FailRecords(records, Queued(s))
        /\ UNCHANGED <<running, stops, blocked>>
    BY DEF ConnectionEnded
  <1> HIDE DEF e
  <1>5. SeedsOK'
    BY <1>2, <1>4, SeedStep DEF Inv
  <1>6. QueuesFit' /\ QueuesDisjoint'
    BY <1>3, <1>4, QueueFails
  <1>7. /\ connects' \in [Connect -> ConnectState]
        /\ \A t \in Seed : Waiters(t)' \subseteq Waiters(t)
    BY <1>4, SettledCalls DEF Inv
  <1>8. /\ records' \in [Record -> RecordState]
        /\ RecordsReachTheirPeer'
    BY <1>4, FailedOf DEF Inv, Rest, RecordsReachTheirPeer
  <1>9. Rest'
    BY <1>4, <1>7, <1>8 DEF Inv, Rest
  <1> QED
    BY <1>5, <1>6, <1>8, <1>9 DEF Inv

\* A step of one seed that leaves its queue, its peer and everybody else alone.
LEMMA QuietStep ==
  ASSUME Inv, NEW s \in Seed, NEW r, NEW ss,
         seeds' = [seeds EXCEPT ![s] = r], sockets' = [sockets EXCEPT ![s] = ss],
         SeedOK(r, ss, running),
         r.queue = seeds[s].queue, r.remote = seeds[s].remote \/ r.queue = <<>>,
         UNCHANGED <<running, stops, blocked, records>>,
         connects' = connects \/ \E W : connects' = Settle(W)
  PROVE  Inv'
  <1>1. r \in SeedState
    BY DEF SeedOK, Frame
  <1>2. SeedsOK'
    BY SeedStep DEF Inv
  <1>3. QueuesFit' /\ QueuesDisjoint'
    BY <1>1, SameQueue
  <1>4. RecordsReachTheirPeer'
    BY DEF Inv, RecordsReachTheirPeer
  <1>5. /\ connects' \in [Connect -> ConnectState]
        /\ \A t \in Seed : Waiters(t)' \subseteq Waiters(t)
    <2>1. CASE connects' = connects
      BY <2>1 DEF Inv, Rest, Waiters
    <2>2. ASSUME NEW W, connects' = Settle(W)
          PROVE  /\ connects' \in [Connect -> ConnectState]
                 /\ \A t \in Seed : Waiters(t)' \subseteq Waiters(t)
      BY <2>2, SettledCalls DEF Inv
    <2> QED
      BY <2>1, <2>2
  <1>6. Rest'
    BY <1>5 DEF Inv, Rest
  <1> QED
    BY <1>2, <1>3, <1>4, <1>6 DEF Inv

LEMMA SameSockets ==
  ASSUME Inv, NEW s \in Seed
  PROVE  sockets = [sockets EXCEPT ![s] = sockets[s]]
  BY DEF Inv, SeedsOK

\* failSocket, with the record r the seed has by then.
LEMMA FailStep ==
  ASSUME Inv, NEW s \in Seed, NEW r, NEW g,
         Frame(r, sockets[s]), ~running => ~r.reconnectTimer,
         r.socket \in {0, r.generation},
         g # r.generation => /\ SeedOK(r, sockets[s], running)
                             /\ r.queue = seeds[s].queue /\ r.remote = seeds[s].remote,
         FailSocket(s, r, g)
  PROVE  Inv'
  <1>1. CASE g # r.generation
    <2>1. /\ seeds' = [seeds EXCEPT ![s] = r]
          /\ UNCHANGED <<running, stops, blocked, sockets, connects, records>>
      BY <1>1 DEF FailSocket
    <2>2. sockets' = [sockets EXCEPT ![s] = sockets[s]]
      BY <2>1, SameSockets
    <2> QED
      BY <1>1, <2>1, <2>2, QuietStep
  <1>2. CASE g = r.generation /\ r.socket = 0
    <2>1. sockets' = sockets /\ ConnectionEnded(s, r)
      BY <1>2 DEF FailSocket
    <2>2. sockets' = [sockets EXCEPT ![s] = sockets[s]]
      BY <2>1, SameSockets
    <2> QED
      BY <2>1, <2>2, EndStep
  <1>3. CASE g = r.generation /\ r.socket # 0
    <2> DEFINE ss == [sockets[s] EXCEPT ![r.socket] = [state |-> "closing", key |-> None]]
    <2>1. ConnectionEnded(s, r)
      BY <1>3 DEF FailSocket
    <2>2. sockets' = [sockets EXCEPT ![s] = ss]
      BY <1>3 DEF FailSocket, Closing, Inv, SeedsOK
    <2>3. r.socket \in 1 .. MaxDials /\ r.socket <= r.generation
      BY <1>3, Bounds DEF Frame, SeedState, Generation
    <2>4. Frame(r, ss)
      BY <2>3, FrameSockets, ClosedSocket
    <2> HIDE DEF ss
    <2> QED
      BY <2>1, <2>2, <2>4, EndStep
  <1> QED
    BY <1>1, <1>2, <1>3

\* What is known of a seed before a step.
LEMMA SeedFacts ==
  ASSUME Inv, NEW s \in Seed
  PROVE  /\ SeedOK(seeds[s], sockets[s], running)
         /\ Frame(seeds[s], sockets[s])
         /\ seeds[s] \in SeedState /\ sockets[s] \in [1 .. MaxDials -> Socket]
         /\ ~running => ~seeds[s].reconnectTimer
         /\ seeds[s].socket \in {0, seeds[s].generation}
         /\ seeds[s].generation \in Nat
         /\ running \in BOOLEAN
  <1>1. SeedOK(seeds[s], sockets[s], running)
    BY DEF Inv, SeedsOK
  <1>2. seeds[s] \in SeedState
    BY DEF Inv, SeedsOK
  <1> QED
    BY <1>1, <1>2, Bounds DEF SeedOK, Frame, Covered, Joined, SeedState, Inv, Rest

-----------------------------------------------------------------------------
(* Events of sockets and timers                                            *)

LEMMA OpenOK ==
  ASSUME Inv, NEW s \in Seed, NEW g \in 1 .. MaxDials, OpenEvent(s, g)
  PROVE  Inv'
  <1> DEFINE r == [seeds[s] EXCEPT !.connectTimer = 0, !.nonce = g]
             q == [r EXCEPT !.hintTimer = g]
             ss == [sockets[s] EXCEPT ![g] = [sockets[s][g] EXCEPT !.state = "open"]]
  <1>1. /\ seeds[s].socket = g /\ seeds[s].generation = g
        /\ sockets[s][g].state = "connecting"
    BY DEF OpenEvent, IsCurrent
  <1>2. g \in Generation /\ g # 0
    BY DEF Generation
  <1>3. /\ r \in SeedState
        /\ r.socket = g /\ r.generation = g
        /\ r.chain = seeds[s].chain /\ r.queue = seeds[s].queue /\ r.stage = seeds[s].stage
        /\ r.reconnectTimer = seeds[s].reconnectTimer
        /\ r.remote = seeds[s].remote /\ r.got = seeds[s].got /\ r.told = seeds[s].told
        /\ r.connectTimer = 0
    BY <1>1, <1>2, SeedFacts, Bounds DEF SeedState
  <1>4. Frame(r, sockets[s])
    BY <1>1, <1>3, SeedFacts DEF Frame
  <1>5. ~running => ~r.reconnectTimer
    BY <1>3, SeedFacts
  <1>6. \/ FailSocket(s, r, g)
        \/ /\ sockets' = [sockets EXCEPT ![s] = ss]
           /\ seeds' = [seeds EXCEPT ![s] = q]
           /\ UNCHANGED <<running, stops, blocked, connects, records>>
    BY DEF OpenEvent, Inv, SeedsOK
  <1> HIDE DEF r
  <1>7. /\ q \in SeedState
        /\ q.socket = g /\ q.generation = g
        /\ q.chain = seeds[s].chain /\ q.queue = seeds[s].queue /\ q.stage = seeds[s].stage
        /\ q.reconnectTimer = seeds[s].reconnectTimer
        /\ q.remote = seeds[s].remote /\ q.got = seeds[s].got /\ q.told = seeds[s].told
        /\ q.connectTimer = 0 /\ q.hintTimer = g
    BY <1>2, <1>3 DEF SeedState
  <1> HIDE DEF q
  <1>8. [sockets[s][g] EXCEPT !.state = "open"] \in Socket
    <2>1. sockets[s][g] \in Socket
      BY SeedFacts
    <2> QED
      BY <2>1 DEF Socket
  <1>9. /\ ss[g].state = "open" /\ ss[g].key = sockets[s][g].key
        /\ Frame(seeds[s], ss)
    <2>1. ss[g].state = "open" /\ ss[g].key = sockets[s][g].key
      BY SeedFacts DEF Socket
    <2>2. g <= seeds[s].generation
      BY <1>1
    <2> QED
      BY <2>1, <2>2, <1>8, SeedFacts, FrameSockets
  <1> HIDE DEF ss
  <1>10. Frame(q, ss)
    BY <1>1, <1>7, <1>9 DEF Frame
  <1>11. SeedOK(q, ss, running)
    BY <1>1, <1>2, <1>7, <1>9, <1>10, SeedFacts DEF SeedOK, Joined, Covered
  <1>12. CASE FailSocket(s, r, g)
    BY <1>3, <1>4, <1>5, <1>12, FailStep
  <1> QED
    BY <1>6, <1>7, <1>11, <1>12, QuietStep

LEMMA ConnectTimeoutOK ==
  ASSUME Inv, NEW s \in Seed, ConnectTimeout(s)
  PROVE  Inv'
  <1>1. PICK g \in {seeds[s].connectTimer, seeds[s].hintTimer} \ {0} :
            FailSocket(s, seeds[s], g)
    BY DEF ConnectTimeout
  <1> QED
    BY <1>1, FailStep, SeedFacts

LEMMA ErrorOK ==
  ASSUME Inv, NEW s \in Seed, NEW g \in 1 .. MaxDials, ErrorEvent(s, g)
  PROVE  Inv'
  BY FailStep, SeedFacts DEF ErrorEvent

\* A socket that is not current may be anything but unused.
LEMMA SocketOK ==
  ASSUME Inv, NEW s \in Seed, NEW g \in 1 .. MaxDials, NEW x \in Socket,
         sockets[s][g].state # "unused",
         seeds[s].socket = g => /\ x.state \in {"open", "closing"}
                                /\ x.key = sockets[s][g].key
  PROVE  SeedOK(seeds[s], [sockets[s] EXCEPT ![g] = x], running)
  <1> DEFINE ss == [sockets[s] EXCEPT ![g] = x]
  <1>1. g <= seeds[s].generation
    BY SeedFacts DEF Frame
  <1>2. Frame(seeds[s], ss)
    BY <1>1, SeedFacts, FrameSockets
  <1>3. /\ ss[g] = x
        /\ \A h \in 1 .. MaxDials : h # g => ss[h] = sockets[s][h]
    BY SeedFacts
  <1>4. seeds[s].socket # 0 => seeds[s].socket \in 1 .. MaxDials
    BY SeedFacts, Bounds DEF SeedState, Generation
  <1> HIDE DEF ss
  <1>5. seeds[s].socket # 0 => Joined(seeds[s], ss)
    BY <1>3, <1>4, SeedFacts DEF SeedOK, Joined
  <1> QED
    BY <1>2, <1>5, SeedFacts DEF SeedOK, ss

LEMMA SameSeeds ==
  ASSUME Inv, NEW s \in Seed
  PROVE  seeds = [seeds EXCEPT ![s] = seeds[s]]
  BY DEF Inv, SeedsOK

LEMMA FarEndClosesOK ==
  ASSUME Inv, NEW s \in Seed, NEW g \in 1 .. MaxDials, FarEndCloses(s, g)
  PROVE  Inv'
  <1> DEFINE x == [sockets[s][g] EXCEPT !.state = "closing"]
  <1>1. x \in Socket /\ x.state = "closing" /\ x.key = sockets[s][g].key
    BY SeedFacts DEF Socket
  <1>2. /\ sockets' = [sockets EXCEPT ![s] = [sockets[s] EXCEPT ![g] = x]]
        /\ UNCHANGED <<running, stops, blocked, seeds, connects, records>>
        /\ sockets[s][g].state = "open"
    BY DEF FarEndCloses, Inv, SeedsOK
  <1>3. SeedOK(seeds[s], [sockets[s] EXCEPT ![g] = x], running)
    BY <1>1, <1>2, SocketOK
  <1>4. seeds' = [seeds EXCEPT ![s] = seeds[s]]
    BY <1>2, SameSeeds
  <1> HIDE DEF x
  <1> QED
    BY <1>2, <1>3, <1>4, QuietStep

LEMMA CloseOK ==
  ASSUME Inv, NEW s \in Seed, NEW g \in 1 .. MaxDials, CloseEvent(s, g)
  PROVE  Inv'
  <1> DEFINE x == [state |-> "closed", key |-> None]
             ss == [sockets[s] EXCEPT ![g] = x]
  <1>1. /\ sockets' = [sockets EXCEPT ![s] = ss]
        /\ sockets[s][g].state = "closing"
    BY DEF CloseEvent, Inv, SeedsOK
  <1>2. CASE IsCurrent(s, g)
    <2>1. g <= seeds[s].generation
      BY <1>2 DEF IsCurrent
    <2>2. Frame(seeds[s], ss)
      BY <2>1, SeedFacts, FrameSockets, ClosedSocket
    <2>3. ConnectionEnded(s, seeds[s])
      BY <1>2 DEF CloseEvent
    <2> HIDE DEF ss
    <2> QED
      BY <1>1, <2>2, <2>3, SeedFacts, EndStep
  <1>3. CASE ~IsCurrent(s, g)
    <2>1. UNCHANGED <<running, stops, blocked, seeds, connects, records>>
      BY <1>3 DEF CloseEvent
    <2>2. seeds[s].socket # g
      BY <1>3, SeedFacts DEF IsCurrent
    <2>3. SeedOK(seeds[s], ss, running)
      BY <1>1, <2>2, SocketOK, ClosedSocket
    <2>4. seeds' = [seeds EXCEPT ![s] = seeds[s]]
      BY <2>1, SameSeeds
    <2> HIDE DEF ss
    <2> QED
      BY <1>1, <2>1, <2>3, <2>4, QuietStep
  <1> QED
    BY <1>2, <1>3

LEMMA MessageOK ==
  ASSUME Inv, NEW s \in Seed, NEW g \in 1 .. MaxDials, NEW kind \in Kind,
         MessageEvent(s, g, kind)
  PROVE  Inv'
  <1> DEFINE m == [from |-> g, kind |-> kind]
             ch == Append(seeds[s].chain, m)
             r == [seeds[s] EXCEPT !.chain = ch]
  <1>1. /\ seeds' = [seeds EXCEPT ![s] = r]
        /\ Len(seeds[s].chain) < MaxChain
        /\ UNCHANGED <<running, stops, blocked, sockets, connects, records>>
    BY DEF MessageEvent, Inv, SeedsOK
  <1>2. m \in [from : Generation, kind : Kind] /\ m.from > 0
    BY DEF Generation
  <1>3. seeds[s].chain \in Seq([from : Generation, kind : Kind])
    BY SeedFacts DEF SeedState
  <1> HIDE DEF m
  <1>4. /\ ch \in Seq([from : Generation, kind : Kind])
        /\ Len(ch) = Len(seeds[s].chain) + 1
        /\ ch # <<>>
    BY <1>2, <1>3
  <1>5. \A i \in DOMAIN ch : ch[i].from > 0
    <2>1. \A i \in 1 .. Len(seeds[s].chain) : seeds[s].chain[i].from > 0
      BY <1>3, SeedFacts DEF Frame
    <2>2. \A i \in 1 .. Len(ch) : ch[i] = m \/ /\ i \in 1 .. Len(seeds[s].chain)
                                               /\ ch[i] = seeds[s].chain[i]
      BY <1>2, <1>3
    <2> QED
      BY <1>2, <1>4, <2>1, <2>2
  <1> HIDE DEF ch
  <1>6. Len(ch) <= MaxChain
    BY <1>1, <1>3, <1>4, Bounds
  <1>7. SeedOK(r, sockets[s], running) /\ r.queue = seeds[s].queue /\ r.remote = seeds[s].remote
    <2>1. /\ r \in SeedState /\ r.chain = ch
          /\ r.socket = seeds[s].socket /\ r.generation = seeds[s].generation
          /\ r.queue = seeds[s].queue /\ r.remote = seeds[s].remote /\ r.got = seeds[s].got
          /\ r.connectTimer = seeds[s].connectTimer /\ r.hintTimer = seeds[s].hintTimer
          /\ r.sendTimer = seeds[s].sendTimer /\ r.told = seeds[s].told
          /\ r.reconnectTimer = seeds[s].reconnectTimer
      BY <1>4, SeedFacts DEF SeedState
    <2> HIDE DEF r
    <2>2. Frame(r, sockets[s])
      BY <1>4, <1>5, <1>6, <2>1, SeedFacts DEF Frame
    <2> QED
      BY <2>1, <2>2, SeedFacts DEF SeedOK, Bare, Joined, Covered
  <1>8. sockets' = [sockets EXCEPT ![s] = sockets[s]]
    BY <1>1, SameSockets
  <1> HIDE DEF r
  <1> QED
    BY <1>1, <1>7, <1>8, QuietStep

-----------------------------------------------------------------------------
(* receive                                                                 *)

\* Taking the message from the chain, or marking how far it got, is no more than that.
LEMMA ChainOK ==
  ASSUME Inv, NEW s \in Seed, NEW r \in SeedState, NEW st,
         r = Popped(s) \/ r = [seeds[s] EXCEPT !.stage = st], seeds[s].chain # <<>>
  PROVE  /\ SeedOK(r, sockets[s], running)
         /\ r.socket = seeds[s].socket /\ r.generation = seeds[s].generation
         /\ r.queue = seeds[s].queue /\ r.remote = seeds[s].remote /\ r.got = seeds[s].got
         /\ r.connectTimer = seeds[s].connectTimer /\ r.hintTimer = seeds[s].hintTimer
         /\ r.sendTimer = seeds[s].sendTimer /\ r.told = seeds[s].told
         /\ r.reconnectTimer = seeds[s].reconnectTimer
  <1> DEFINE ch == seeds[s].chain
  <1>1. ch \in Seq([from : Generation, kind : Kind]) /\ Len(ch) <= MaxChain
    BY SeedFacts DEF SeedState, Frame
  <1>2. /\ (r.chain = Tail(ch) /\ r.stage = "idle") \/ r.chain = ch
        /\ r.socket = seeds[s].socket /\ r.generation = seeds[s].generation
        /\ r.queue = seeds[s].queue /\ r.remote = seeds[s].remote /\ r.got = seeds[s].got
        /\ r.connectTimer = seeds[s].connectTimer /\ r.hintTimer = seeds[s].hintTimer
        /\ r.sendTimer = seeds[s].sendTimer /\ r.told = seeds[s].told
        /\ r.reconnectTimer = seeds[s].reconnectTimer
    BY SeedFacts DEF SeedState, Popped
  <1>3. \A i \in 1 .. Len(ch) : ch[i].from > 0
    BY <1>1, SeedFacts DEF Frame
  <1>4. Len(r.chain) <= MaxChain /\ \A i \in DOMAIN r.chain : r.chain[i].from > 0
    <2>1. CASE r.chain = ch
      BY <1>1, <1>3, <2>1
    <2>2. CASE r.chain = Tail(ch)
      <3>1. /\ Len(r.chain) = Len(ch) - 1 /\ DOMAIN r.chain = 1 .. Len(ch) - 1
            /\ \A i \in 1 .. Len(ch) - 1 : r.chain[i] = ch[i + 1]
        BY <1>1, <2>2
      <3>2. Len(ch) \in Nat
        BY <1>1
      <3> HIDE DEF ch
      <3>3. Len(r.chain) <= MaxChain
        BY <1>1, <3>1, <3>2, Bounds
      <3>4. \A i \in 1 .. Len(ch) - 1 : i + 1 \in 1 .. Len(ch)
        BY <3>2
      <3>5. \A i \in 1 .. Len(ch) - 1 : r.chain[i].from > 0
        BY <1>3, <3>1, <3>4
      <3> QED
        BY <3>1, <3>3, <3>5
    <2> QED
      BY <1>2, <2>1, <2>2
  <1>5. Frame(r, sockets[s])
    BY <1>2, <1>4, SeedFacts DEF Frame
  <1> QED
    BY <1>2, <1>5, SeedFacts DEF SeedOK, Bare, Joined, Covered

LEMMA PoppedType ==
  ASSUME Inv, NEW s \in Seed, seeds[s].chain # <<>>
  PROVE  Popped(s) \in SeedState
  <1>1. seeds[s].chain \in Seq([from : Generation, kind : Kind])
    BY SeedFacts DEF SeedState
  <1>2. Tail(seeds[s].chain) \in Seq([from : Generation, kind : Kind])
    BY <1>1
  <1> QED
    BY <1>2, SeedFacts DEF Popped, SeedState

LEMMA ReceiveBeginsOK ==
  ASSUME Inv, NEW s \in Seed, ReceiveBegins(s)
  PROVE  Inv'
  <1>1. PICK r : /\ seeds' = [seeds EXCEPT ![s] = r]
                 /\ r = Popped(s) \/ r = [seeds[s] EXCEPT !.stage = "await"]
    BY DEF ReceiveBegins, Inv, SeedsOK
  <1>2. /\ seeds[s].chain # <<>>
        /\ UNCHANGED <<running, stops, blocked, sockets, connects, records>>
    BY DEF ReceiveBegins
  <1>3. r \in SeedState
    BY <1>1, <1>2, SeedFacts, PoppedType DEF SeedState
  <1>4. sockets' = [sockets EXCEPT ![s] = sockets[s]]
    BY <1>2, SameSockets
  <1> QED
    BY <1>1, <1>2, <1>3, <1>4, ChainOK, QuietStep

LEMMA ReceiveThrewOK ==
  ASSUME Inv, NEW s \in Seed, ReceiveThrew(s)
  PROVE  Inv'
  <1>1. seeds[s].chain # <<>> /\ FailSocket(s, Popped(s), Head(seeds[s].chain).from)
    BY SeedFacts DEF ReceiveThrew, Frame
  <1> DEFINE r == Popped(s)
  <1>2. r \in SeedState
    BY <1>1, PoppedType
  <1>3. /\ SeedOK(r, sockets[s], running)
        /\ r.socket = seeds[s].socket /\ r.generation = seeds[s].generation
        /\ r.queue = seeds[s].queue /\ r.remote = seeds[s].remote
        /\ r.reconnectTimer = seeds[s].reconnectTimer
    BY <1>1, <1>2, ChainOK
  <1> HIDE DEF r
  <1>4. FailSocket(s, r, Head(seeds[s].chain).from)
    BY <1>1 DEF r
  <1> QED
    BY <1>3, <1>4, FailStep, SeedFacts DEF SeedOK

LEMMA ReceiveRestOK ==
  ASSUME Inv, NEW s \in Seed, ReceiveRest(s)
  PROVE  Inv'
  <1> DEFINE m == Head(seeds[s].chain)
             k == sockets[s][m.from].key
  <1>1. /\ seeds[s].chain # <<>>
        /\ UNCHANGED <<running, stops, blocked, sockets, records>>
    BY SeedFacts DEF ReceiveRest, Frame
  <1>2. sockets' = [sockets EXCEPT ![s] = sockets[s]]
    BY <1>1, SameSockets
  <1>3. m \in [from : Generation, kind : Kind] /\ m.from > 0
    <2>1. seeds[s].chain \in Seq([from : Generation, kind : Kind])
      BY SeedFacts DEF SeedState
    <2>2. 1 \in DOMAIN seeds[s].chain /\ m = seeds[s].chain[1]
      BY <1>1, <2>1
    <2>3. \A i \in DOMAIN seeds[s].chain : seeds[s].chain[i].from > 0
      BY SeedFacts DEF Frame
    <2>4. m \in [from : Generation, kind : Kind]
      BY <1>1, <2>1, HeadTailProperties
    <2> HIDE DEF m
    <2> QED
      BY <2>2, <2>3, <2>4
  <1>4. IsCurrent(s, m.from) =>
          /\ seeds[s].socket = m.from /\ seeds[s].socket # 0
          /\ k \in Key
          /\ seeds[s].remote # None => seeds[s].remote = k
    BY <1>3, Bounds, SeedFacts DEF IsCurrent, SeedOK, Joined
  <1> HIDE DEF m, k
  <1>5. Popped(s) \in SeedState
    BY <1>1, PoppedType
  <1> DEFINE p == Popped(s)
  <1>6. /\ SeedOK(p, sockets[s], running)
        /\ p.socket = seeds[s].socket /\ p.generation = seeds[s].generation
        /\ p.queue = seeds[s].queue /\ p.remote = seeds[s].remote /\ p.got = seeds[s].got
        /\ p.connectTimer = seeds[s].connectTimer /\ p.hintTimer = seeds[s].hintTimer
        /\ p.sendTimer = seeds[s].sendTimer /\ p.told = seeds[s].told
        /\ p.reconnectTimer = seeds[s].reconnectTimer
    BY <1>1, <1>5, ChainOK
  <1> HIDE DEF p
  <1>7. CASE /\ seeds' = [seeds EXCEPT ![s].stage = "threw"]
             /\ UNCHANGED connects
    <2> DEFINE r == [seeds[s] EXCEPT !.stage = "threw"]
    <2>1. seeds' = [seeds EXCEPT ![s] = r]
      BY <1>7 DEF Inv, SeedsOK
    <2>2. r \in SeedState
      BY SeedFacts DEF SeedState
    <2>3. SeedOK(r, sockets[s], running) /\ r.queue = seeds[s].queue /\ r.remote = seeds[s].remote
      BY <1>1, <2>2, ChainOK
    <2> HIDE DEF r
    <2> QED
      BY <1>1, <1>2, <1>7, <2>1, <2>3, QuietStep
  <1>8. CASE /\ IsCurrent(s, m.from) /\ seeds[s].remote = None
             /\ Identified(s, k)
    <2> DEFINE r == [p EXCEPT !.hintTimer = 0, !.remote = k, !.told = "connected"]
    <2>1. seeds' = [seeds EXCEPT ![s] = r] /\ connects' = Settle(Waiters(s))
      BY <1>8 DEF Identified, p
    <2>2. p \in SeedState
      BY <1>5 DEF p
    <2>3. /\ r \in SeedState
          /\ r.remote = k /\ r.told = "connected" /\ r.hintTimer = 0
          /\ r.socket = p.socket /\ r.generation = p.generation
          /\ r.queue = p.queue /\ r.got = p.got /\ r.chain = p.chain /\ r.stage = p.stage
          /\ r.connectTimer = p.connectTimer
          /\ r.sendTimer = p.sendTimer
          /\ r.reconnectTimer = p.reconnectTimer
      BY <1>4, <1>8, <2>2, Bounds DEF SeedState
    <2> HIDE DEF r
    <2>4. Frame(r, sockets[s])
      BY <1>6, <2>3 DEF SeedOK, Frame
    <2>5. p.queue = <<>> /\ p.got = None /\ p.socket # 0 /\ p.socket = m.from
      BY <1>4, <1>6, <1>8, SeedFacts DEF SeedOK, Joined
    <2>6. k \in Key /\ k = sockets[s][r.socket].key /\ k # None
      BY <1>4, <1>8, <2>3, <2>5, Bounds DEF k
    <2>7. Joined(r, sockets[s])
      BY <1>6, <2>3, <2>5, <2>6 DEF SeedOK, Joined
    <2>8. Covered(r, running)
      BY <1>6, <2>3, <2>5, <2>6 DEF SeedOK, Covered
    <2>9. SeedOK(r, sockets[s], running)
      BY <2>3, <2>4, <2>5, <2>7, <2>8 DEF SeedOK
    <2> QED
      BY <1>1, <1>2, <1>6, <2>1, <2>3, <2>5, <2>9, QuietStep
  <1>9. ASSUME NEW x, seeds' = [seeds EXCEPT ![s] = [p EXCEPT !.got = x]],
               x = seeds[s].got \/ /\ IsCurrent(s, m.from) /\ seeds[s].remote # None
                                   /\ x = k,
               UNCHANGED connects
        PROVE  Inv'
    <2> DEFINE r == [p EXCEPT !.got = x]
    <2>1. seeds' = [seeds EXCEPT ![s] = r]
      BY <1>9
    <2>2. p \in SeedState /\ x \in Key \cup {None}
      BY <1>4, <1>5, <1>9, SeedFacts DEF p, SeedState
    <2>3. /\ r \in SeedState
          /\ r.remote = p.remote /\ r.told = p.told /\ r.hintTimer = p.hintTimer
          /\ r.socket = p.socket /\ r.generation = p.generation
          /\ r.queue = p.queue /\ r.got = x /\ r.chain = p.chain /\ r.stage = p.stage
          /\ r.connectTimer = p.connectTimer
          /\ r.sendTimer = p.sendTimer
          /\ r.reconnectTimer = p.reconnectTimer
      BY <2>2 DEF SeedState
    <2> HIDE DEF r
    <2>4. Frame(r, sockets[s])
      BY <1>6, <2>3 DEF SeedOK, Frame
    <2>5. r.got # seeds[s].got => r.got = r.remote /\ r.socket # 0
      BY <1>4, <1>6, <1>9, <2>3
    <2>6. SeedOK(r, sockets[s], running)
      BY <1>6, <2>3, <2>4, <2>5 DEF SeedOK, Bare, Joined, Covered
    <2> QED
      BY <1>1, <1>2, <1>6, <1>9, <2>1, <2>3, <2>6, QuietStep
  <1>10. \/ seeds' = [seeds EXCEPT ![s].stage = "threw"] /\ UNCHANGED connects
         \/ IsCurrent(s, m.from) /\ seeds[s].remote = None /\ Identified(s, k)
         \/ /\ UNCHANGED connects
            /\ \E x : /\ seeds' = [seeds EXCEPT ![s] = [p EXCEPT !.got = x]]
                      /\ \/ x = seeds[s].got
                         \/ IsCurrent(s, m.from) /\ seeds[s].remote # None /\ x = k
    BY <1>6 DEF ReceiveRest, m, k, p
  <1> QED
    BY <1>7, <1>8, <1>9, <1>10

-----------------------------------------------------------------------------
(* connect, send, pump                                                     *)

LEMMA SeedsAlone ==
  ASSUME Inv, UNCHANGED <<running, seeds, sockets, records>>
  PROVE  SeedsOK' /\ QueuesFit' /\ QueuesDisjoint' /\ RecordsReachTheirPeer'
  <1>1. SeedsOK'
    BY DEF Inv, SeedsOK
  <1>2. \A s \in Seed : Queued(s)' = Queued(s)
    BY DEF Queued
  <1>3. QueuesFit' /\ QueuesDisjoint'
    BY <1>2 DEF Inv, QueuesFit, QueuesDisjoint
  <1>4. RecordsReachTheirPeer'
    BY DEF Inv, RecordsReachTheirPeer
  <1> QED
    BY <1>1, <1>3, <1>4

LEMMA CallConnectOK ==
  ASSUME Inv, NEW s \in Seed, NEW c \in Connect, CallConnect(c, s)
  PROVE  Inv'
  <1> DEFINE x == [state |-> IF running /\ ~IsReady(s) THEN "waiting" ELSE "settled",
                   seed |-> s]
  <1>1. /\ connects' = [connects EXCEPT ![c] = x]
        /\ UNCHANGED <<running, stops, blocked, seeds, sockets, records>>
    BY DEF CallConnect
  <1>2. /\ x \in ConnectState
        /\ ~running => x.state = "settled"
    BY DEF ConnectState
  <1> HIDE DEF x
  <1>3. connects' \in [Connect -> ConnectState]
    BY <1>1, <1>2 DEF Inv, Rest
  <1>4. ~running => \A t \in Seed : Waiters(t)' \subseteq Waiters(t)
    BY <1>1, <1>2 DEF Waiters, Inv, Rest
  <1>5. Rest'
    BY <1>1, <1>3, <1>4 DEF Inv, Rest
  <1>6. SeedsOK' /\ QueuesFit' /\ QueuesDisjoint' /\ RecordsReachTheirPeer'
    BY <1>1, SeedsAlone
  <1> QED
    BY <1>5, <1>6 DEF Inv

LEMMA BlockOK ==
  ASSUME Inv, NEW k \in Key, Block(k)
  PROVE  Inv'
  <1>1. /\ blocked' = blocked \cup {k}
        /\ UNCHANGED <<running, stops, seeds, sockets, connects, records>>
    BY DEF Block
  <1>2. Rest'
    BY <1>1 DEF Inv, Rest, Waiters
  <1> QED
    BY <1>1, <1>2, SeedsAlone DEF Inv

\* A seed whose queue and send timer change keeps everything else.
LEMMA QueueChanged ==
  ASSUME Inv, NEW s \in Seed, NEW q \in Seq(Record), Len(q) <= MaxQueue, NEW b \in BOOLEAN,
         seeds[s].remote # None
  PROVE  LET r == [seeds[s] EXCEPT !.queue = q, !.sendTimer = b]
         IN  /\ r \in SeedState /\ SeedOK(r, sockets[s], running)
             /\ r.queue = q /\ r.remote = seeds[s].remote
  <1> DEFINE r == [seeds[s] EXCEPT !.queue = q, !.sendTimer = b]
  <1>1. /\ r \in SeedState /\ r.queue = q
        /\ r.chain = seeds[s].chain /\ r.stage = seeds[s].stage
        /\ r.socket = seeds[s].socket /\ r.generation = seeds[s].generation
        /\ r.remote = seeds[s].remote /\ r.got = seeds[s].got
        /\ r.connectTimer = seeds[s].connectTimer /\ r.hintTimer = seeds[s].hintTimer
        /\ r.told = seeds[s].told
        /\ r.reconnectTimer = seeds[s].reconnectTimer
    BY SeedFacts DEF SeedState
  <1> HIDE DEF r
  <1>2. Frame(r, sockets[s])
    BY <1>1, SeedFacts DEF Frame
  <1>3. seeds[s].socket # 0
    BY SeedFacts DEF SeedOK, Bare
  <1>4. SeedOK(r, sockets[s], running)
    BY <1>1, <1>2, <1>3, SeedFacts DEF SeedOK, Joined, Covered
  <1> QED
    BY <1>1, <1>4 DEF r

LEMMA SentRecords ==
  ASSUME NEW recs \in [Record -> RecordState],
         NEW M, NEW k \in Key
  PROVE  LET new == Sent(recs, M, k)
         IN  /\ new \in [Record -> RecordState]
             /\ \A m \in Record :
                   /\ new[m].to = recs[m].to
                   /\ m \in M => new[m].state = "sent" /\ new[m].via = k
                   /\ m \notin M => new[m] = recs[m]
  <1> DEFINE new == Sent(recs, M, k)
  <1>1. ASSUME NEW m \in Record
        PROVE  /\ new[m] \in RecordState /\ new[m].to = recs[m].to
               /\ m \in M => new[m].state = "sent" /\ new[m].via = k
               /\ m \notin M => new[m] = recs[m]
    BY DEF Sent, RecordState
  <1>2. new \in [Record -> RecordState]
    BY <1>1 DEF Sent
  <1> QED
    BY <1>1, <1>2

\* pump, called with the queue q when the socket is open and the peer known.  Whatever
\* of q and of the queue it had belongs to M, and no other seed has queued any of it.
LEMMA PumpOK ==
  ASSUME Inv, NEW s \in Seed, seeds[s].remote # None,
         NEW q \in Seq(Record), Len(q) <= MaxQueue,
         NEW recs \in [Record -> RecordState], NEW M,
         \A t \in Seed \ {s} : M \cap Queued(t) = {},
         \A m \in Record \ M : recs[m] = records[m],
         \A i \in 1 .. Len(q) : /\ q[i] \in M
                                /\ recs[q[i]].state # "idle"
                                /\ recs[q[i]].to = seeds[s].remote,
         \A m \in Record : recs[m].state = "sent" => recs[m].via = recs[m].to,
         Pump(s, q, recs), UNCHANGED <<running, stops, blocked>>
  PROVE  Inv'
  <1> DEFINE g == seeds[s].socket
             k == sockets[s][g].key
  <1>1. /\ g # 0 /\ g = seeds[s].generation /\ g \in 1 .. MaxDials
        /\ k \in Key /\ k = seeds[s].remote
    BY SeedFacts, Bounds DEF SeedOK, Bare, Joined, SeedState, Generation
  <1>2. Len(q) \in Nat /\ \A i \in 1 .. Len(q) : q[i] \in Record
    OBVIOUS
  <1>3. \A n \in 0 .. Len(q) : Prefix(q, n) \subseteq M \cap Record
    BY <1>2 DEF Prefix
  <1> HIDE DEF g, k
  <1>4. CASE /\ seeds' = [seeds EXCEPT ![s].queue = <<>>, ![s].sendTimer = FALSE]
             /\ records' = FailRecords(recs, Prefix(q, Len(q)))
             /\ UNCHANGED <<sockets, connects>>
    <2> DEFINE r == [seeds[s] EXCEPT !.queue = <<>>, !.sendTimer = FALSE]
    <2>1. seeds' = [seeds EXCEPT ![s] = r]
      BY <1>4 DEF Inv, SeedsOK
    <2>2. <<>> \in Seq(Record) /\ Len(<<>>) <= MaxQueue
      BY Bounds
    <2>3. /\ r \in SeedState /\ SeedOK(r, sockets[s], running)
          /\ r.queue = <<>> /\ r.remote = seeds[s].remote
      BY <2>2, QueueChanged
    <2> HIDE DEF r
    <2>4. SeedsOK'
      BY <1>4, <2>1, <2>3, SameSockets, SeedStep DEF Inv
    <2>5. \A m \in Record \ M : records'[m] = records[m]
      BY <1>2, <1>3, <1>4 DEF FailRecords
    <2>6. QueuesFit' /\ QueuesDisjoint'
      <3>1. \A i \in DOMAIN r.queue : FALSE
        BY <2>3
      <3> QED
        BY <2>1, <2>3, <2>5, <3>1, QueueStep
    <2>7. records' \in [Record -> RecordState] /\ RecordsReachTheirPeer'
      BY <1>4, FailedOf
    <2>8. Rest'
      BY <1>4, <2>7 DEF Inv, Rest, Waiters
    <2> QED
      BY <2>4, <2>6, <2>7, <2>8 DEF Inv
  <1>5. ASSUME NEW n \in 0 .. Len(q),
               seeds' = [seeds EXCEPT ![s].queue = SubSeq(q, n + 1, Len(q)),
                                      ![s].sendTimer = n < Len(q)],
               records' = Sent(recs, Prefix(q, n), k),
               UNCHANGED <<sockets, connects>>
        PROVE  Inv'
    <2> DEFINE left == SubSeq(q, n + 1, Len(q))
               b == n < Len(q)
               r == [seeds[s] EXCEPT !.queue = left, !.sendTimer = b]
    <2>1. seeds' = [seeds EXCEPT ![s] = r]
      BY <1>5 DEF Inv, SeedsOK
    <2>2. /\ left \in Seq(Record) /\ Len(left) <= MaxQueue
          /\ \A i \in 1 .. Len(left) : \E j \in 1 .. Len(q) : left[i] = q[j]
      <3>1. /\ left \in Seq(Record)
            /\ Len(left) = IF n + 1 <= Len(q) THEN Len(q) - (n + 1) + 1 ELSE 0
            /\ \A i \in 1 .. Len(q) - (n + 1) + 1 : left[i] = q[(n + 1) + i - 1]
        BY <1>2, SubSeqProperties
      <3> HIDE DEF left
      <3>2. Len(left) = Len(q) - n
        BY <1>2, <3>1
      <3>3. Len(left) <= MaxQueue
        BY <1>2, <3>2, Bounds
      <3>4. \A i \in 1 .. Len(left) : i + n \in 1 .. Len(q) /\ left[i] = q[i + n]
        BY <1>2, <3>1, <3>2
      <3> QED
        BY <3>1, <3>3, <3>4
    <2>3. b \in BOOLEAN
      OBVIOUS
    <2> HIDE DEF left, b
    <2>4. /\ r \in SeedState /\ SeedOK(r, sockets[s], running)
          /\ r.queue = left /\ r.remote = seeds[s].remote
      BY <2>2, <2>3, QueueChanged
    <2> HIDE DEF r
    <2>5. SeedsOK'
      BY <1>5, <2>1, <2>4, SameSockets, SeedStep DEF Inv
    <2>6. /\ records' \in [Record -> RecordState]
          /\ \A m \in Record :
                /\ records'[m].to = recs[m].to
                /\ m \in Prefix(q, n) => records'[m].state = "sent" /\ records'[m].via = k
                /\ m \notin Prefix(q, n) => records'[m] = recs[m]
      BY <1>1, <1>5, SentRecords
    <2>7. \A m \in Record \ M : records'[m] = records[m]
      BY <1>3, <2>6
    <2>8. \A i \in DOMAIN r.queue :
             /\ r.queue[i] \in M \cup Queued(s)
             /\ records'[r.queue[i]].state # "idle"
             /\ records'[r.queue[i]].to = r.remote
      <3> SUFFICES ASSUME NEW i \in 1 .. Len(left)
                   PROVE  /\ left[i] \in M
                          /\ records'[left[i]].state # "idle"
                          /\ records'[left[i]].to = seeds[s].remote
        BY <2>2, <2>4
      <3>1. PICK j \in 1 .. Len(q) : left[i] = q[j]
        BY <2>2
      <3>2. q[j] \in Record
        BY <1>2
      <3> QED
        BY <2>6, <3>1, <3>2
    <2>9. QueuesFit' /\ QueuesDisjoint'
      <3>1. r \in SeedState
        BY <2>4
      <3> QED
        BY <2>1, <2>7, <2>8, <3>1, QueueStep, ZenonT(30)
    <2>10. RecordsReachTheirPeer'
      <3> SUFFICES ASSUME NEW m \in Record, records'[m].state = "sent"
                   PROVE  records'[m].via = records'[m].to
        BY DEF RecordsReachTheirPeer
      <3>1. CASE m \in Prefix(q, n)
        <4>1. PICK i \in 1 .. Len(q) : m = q[i]
          BY <1>2, <3>1 DEF Prefix
        <4> QED
          BY <1>1, <2>6, <3>1, <4>1
      <3>2. CASE m \notin Prefix(q, n)
        BY <2>6, <3>2
      <3> QED
        BY <3>1, <3>2
    <2>11. Rest'
      BY <1>5, <2>6 DEF Inv, Rest, Waiters
    <2> QED
      BY <2>5, <2>9, <2>10, <2>11 DEF Inv
  <1>6. ASSUME NEW n \in 0 .. Len(q) - 1,
               records' = FailRecords(Sent(recs, Prefix(q, n), k),
                                      Prefix(q, Len(q)) \ Prefix(q, n)),
               sockets' = Closing(s, g),
               seeds' = [seeds EXCEPT ![s] = Ended(seeds[s], running)],
               connects' = Settle(Waiters(s))
        PROVE  Inv'
    <2> DEFINE e == Ended(seeds[s], running)
               ss == [sockets[s] EXCEPT ![g] = [state |-> "closing", key |-> None]]
               mid == Sent(recs, Prefix(q, n), k)
    <2>1. sockets' = [sockets EXCEPT ![s] = ss]
      BY <1>1, <1>6 DEF Closing, Inv, SeedsOK
    <2>2. Frame(seeds[s], ss)
      BY <1>1, SeedFacts, FrameSockets, ClosedSocket
    <2>3. SeedOK(e, ss, running)
      BY <2>2, SeedFacts, EndedOK
    <2>4. e \in SeedState /\ e.queue = <<>>
      BY SeedFacts, EndedFields
    <2> HIDE DEF ss, e
    <2>5. SeedsOK'
      BY <1>6, <2>1, <2>3, SeedStep DEF Inv, e
    <2>6. n \in 0 .. Len(q)
      BY <1>2
    <2>7. /\ mid \in [Record -> RecordState]
          /\ \A m \in Record :
                /\ mid[m].to = recs[m].to
                /\ m \in Prefix(q, n) => mid[m].state = "sent" /\ mid[m].via = k
                /\ m \notin Prefix(q, n) => mid[m] = recs[m]
      BY <1>1, SentRecords
    <2>8. records' = FailRecords(mid, Prefix(q, Len(q)) \ Prefix(q, n))
      BY <1>6
    <2> HIDE DEF mid
    <2>9. \A m \in Record : mid[m].state = "sent" => mid[m].via = mid[m].to
      <3> SUFFICES ASSUME NEW m \in Record, mid[m].state = "sent"
                   PROVE  mid[m].via = mid[m].to
        OBVIOUS
      <3>1. CASE m \in Prefix(q, n)
        <4>1. PICK i \in 1 .. Len(q) : m = q[i]
          BY <1>2, <3>1, <2>6 DEF Prefix
        <4> QED
          BY <1>1, <2>7, <3>1, <4>1
      <3>2. CASE m \notin Prefix(q, n)
        BY <2>7, <3>2
      <3> QED
        BY <3>1, <3>2
    <2>10. records' \in [Record -> RecordState] /\ RecordsReachTheirPeer'
      BY <2>7, <2>8, <2>9, FailedOf
    <2>11. \A m \in Record \ M : records'[m] = records[m]
      BY <1>2, <1>3, <2>6, <2>7, <2>8 DEF FailRecords
    <2>12. \A i \in DOMAIN e.queue : FALSE
      BY <2>4
    <2>13. QueuesFit' /\ QueuesDisjoint'
      BY <1>6, <2>4, <2>11, <2>12, QueueStep DEF e
    <2>14. connects' \in [Connect -> ConnectState] /\ \A t \in Seed : Waiters(t)' \subseteq Waiters(t)
      BY <1>6, SettledCalls DEF Inv
    <2>15. Rest'
      BY <2>10, <2>14 DEF Inv, Rest
    <2> QED
      BY <2>5, <2>10, <2>13, <2>15 DEF Inv
  <1> QED
    BY <1>4, <1>5, <1>6 DEF Pump, g, k

LEMMA ReadyFacts ==
  ASSUME Inv, NEW s \in Seed, IsReady(s)
  PROVE  seeds[s].remote # None
  BY DEF IsReady

LEMMA SendTimerOK ==
  ASSUME Inv, NEW s \in Seed, SendTimer(s)
  PROVE  Inv'
  <1> DEFINE q == seeds[s].queue
  <1>1. q \in Seq(Record) /\ Len(q) <= MaxQueue
    BY SeedFacts DEF SeedState, Frame
  <1>2. UNCHANGED <<running, stops, blocked>>
    BY DEF SendTimer
  <1>3. CASE /\ seeds' = [seeds EXCEPT ![s].sendTimer = FALSE]
             /\ UNCHANGED <<sockets, connects, records>>
    <2> DEFINE r == [seeds[s] EXCEPT !.sendTimer = FALSE]
    <2>1. seeds' = [seeds EXCEPT ![s] = r]
      BY <1>3 DEF Inv, SeedsOK
    <2>2. /\ r \in SeedState /\ r.queue = q /\ ~r.sendTimer
          /\ r.chain = seeds[s].chain /\ r.stage = seeds[s].stage
          /\ r.socket = seeds[s].socket /\ r.generation = seeds[s].generation
          /\ r.remote = seeds[s].remote /\ r.got = seeds[s].got
          /\ r.connectTimer = seeds[s].connectTimer /\ r.hintTimer = seeds[s].hintTimer
          /\ r.told = seeds[s].told /\ r.reconnectTimer = seeds[s].reconnectTimer
      BY SeedFacts DEF SeedState
    <2> HIDE DEF r
    <2>3. Frame(r, sockets[s])
      BY <2>2, SeedFacts DEF Frame
    <2>4. SeedOK(r, sockets[s], running)
      BY <2>2, <2>3, SeedFacts DEF SeedOK, Bare, Joined, Covered
    <2>5. sockets' = [sockets EXCEPT ![s] = sockets[s]]
      BY <1>3, SameSockets
    <2> QED
      BY <1>2, <1>3, <2>1, <2>2, <2>4, <2>5, QuietStep
  <1>4. CASE IsReady(s) /\ Pump(s, q, records)
    <2>1. seeds[s].remote # None
      BY <1>4, ReadyFacts
    <2>2. \A t \in Seed \ {s} : Queued(s) \cap Queued(t) = {}
      BY DEF Inv, QueuesDisjoint
    <2>3. \A i \in 1 .. Len(q) : /\ q[i] \in Queued(s)
                                 /\ records[q[i]].state # "idle"
                                 /\ records[q[i]].to = seeds[s].remote
      BY <1>1 DEF Inv, QueuesFit, Queued
    <2>4. /\ records \in [Record -> RecordState]
          /\ \A m \in Record : records[m].state = "sent" => records[m].via = records[m].to
      BY DEF Inv, Rest, RecordsReachTheirPeer
    <2>5. Pump(s, q, records)
      BY <1>4
    <2> HIDE DEF q
    <2> QED
      BY <1>1, <1>2, <2>1, <2>2, <2>3, <2>4, <2>5, PumpOK
  <1> QED
    BY <1>3, <1>4 DEF SendTimer

LEMMA SendOK ==
  ASSUME Inv, NEW s \in Seed, NEW m \in Record, Send(m, s)
  PROVE  Inv'
  <1> DEFINE old == seeds[s].queue
             q == Append(old, m)
             x == [state |-> "queued", to |-> seeds[s].remote, via |-> None]
             recs == [records EXCEPT ![m] = x]
  <1>1. records[m].state = "idle" /\ UNCHANGED <<running, stops, blocked>>
    BY DEF Send
  <1>2. /\ records \in [Record -> RecordState]
        /\ \A n \in Record : records[n].state = "sent" => records[n].via = records[n].to
    BY DEF Inv, Rest, RecordsReachTheirPeer
  <1>3. \A t \in Seed : m \notin Queued(t)
    BY <1>1 DEF Inv, QueuesFit
  <1>4. CASE records' = [records EXCEPT ![m] = Failed] /\ UNCHANGED <<seeds, sockets, connects>>
    <2>1. seeds' = [seeds EXCEPT ![s] = seeds[s]] /\ seeds[s] \in SeedState
      BY <1>4, SameSeeds, SeedFacts
    <2>2. \A n \in Record \ {m} : records'[n] = records[n]
      BY <1>2, <1>4
    <2>3. \A t \in Seed \ {s} : {m} \cap Queued(t) = {}
      BY <1>3
    <2>4. \A i \in DOMAIN old :
             /\ old[i] \in {m} \cup Queued(s)
             /\ records'[old[i]].state # "idle"
             /\ records'[old[i]].to = seeds[s].remote
      <3> SUFFICES ASSUME NEW i \in DOMAIN old
                   PROVE  /\ old[i] \in Queued(s)
                          /\ records'[old[i]].state # "idle"
                          /\ records'[old[i]].to = seeds[s].remote
        OBVIOUS
      <3>1. old[i] \in Queued(s)
        BY DEF Queued
      <3>2. old \in Seq(Record)
        BY SeedFacts DEF SeedState
      <3>3. old[i] \in Record /\ old[i] # m
        BY <1>3, <3>1, <3>2
      <3>4. records[old[i]].state # "idle" /\ records[old[i]].to = seeds[s].remote
        BY <3>1 DEF Inv, QueuesFit
      <3>5. records'[old[i]] = records[old[i]]
        BY <2>2, <3>3
      <3> QED
        BY <3>1, <3>4, <3>5
    <2>5. QueuesFit' /\ QueuesDisjoint'
      BY <2>1, <2>2, <2>3, <2>4, QueueStep
    <2>6. Failed \in RecordState /\ Failed.state = "failed"
      BY DEF Failed, RecordState
    <2>7. records' \in [Record -> RecordState] /\ RecordsReachTheirPeer'
      BY <1>2, <1>4, <2>6 DEF RecordsReachTheirPeer
    <2>8. Rest'
      BY <1>1, <1>4, <2>7 DEF Inv, Rest, Waiters
    <2>9. SeedsOK'
      BY <1>1, <1>4 DEF Inv, SeedsOK
    <2> QED
      BY <2>5, <2>7, <2>8, <2>9 DEF Inv
  <1>5. ASSUME IsReady(s), HasRoom(old)
        PROVE  /\ seeds[s].remote # None
               /\ q \in Seq(Record) /\ Len(q) <= MaxQueue
               /\ recs \in [Record -> RecordState]
               /\ \A t \in Seed \ {s} : (Queued(s) \cup {m}) \cap Queued(t) = {}
               /\ \A n \in Record \ (Queued(s) \cup {m}) : recs[n] = records[n]
               /\ \A i \in 1 .. Len(q) : /\ q[i] \in Queued(s) \cup {m}
                                         /\ recs[q[i]].state # "idle"
                                         /\ recs[q[i]].to = seeds[s].remote
               /\ \A n \in Record : recs[n].state = "sent" => recs[n].via = recs[n].to
    <2>1. old \in Seq(Record) /\ Len(old) < MaxQueue
      BY <1>5, SeedFacts DEF SeedState, HasRoom
    <2>2. q \in Seq(Record) /\ Len(q) = Len(old) + 1
      BY <2>1
    <2>3. Len(q) <= MaxQueue
      BY <2>1, <2>2, Bounds
    <2>4. x \in RecordState /\ x.state = "queued" /\ x.to = seeds[s].remote
      BY SeedFacts DEF RecordState, SeedState
    <2> HIDE DEF x
    <2>5. /\ recs \in [Record -> RecordState] /\ recs[m] = x
          /\ \A n \in Record \ {m} : recs[n] = records[n]
      BY <1>2, <2>4
    <2> HIDE DEF recs
    <2>6. \A n \in Record : recs[n].state = "sent" => recs[n].via = recs[n].to
      BY <1>2, <2>4, <2>5
    <2>7. \A t \in Seed \ {s} : (Queued(s) \cup {m}) \cap Queued(t) = {}
      BY <1>3 DEF Inv, QueuesDisjoint
    <2>8. ASSUME NEW i \in 1 .. Len(q)
          PROVE  /\ q[i] \in Queued(s) \cup {m}
                 /\ recs[q[i]].state # "idle"
                 /\ recs[q[i]].to = seeds[s].remote
      <3>1. q[i] = m \/ \E j \in DOMAIN old : q[i] = old[j] /\ old[j] \in Record
        BY <2>1
      <3>2. CASE q[i] = m
        BY <2>4, <2>5, <3>2
      <3>3. ASSUME NEW j \in DOMAIN old, q[i] = old[j], old[j] \in Record
            PROVE  /\ q[i] \in Queued(s) \cup {m}
                   /\ recs[q[i]].state # "idle"
                   /\ recs[q[i]].to = seeds[s].remote
        <4>1. q[i] \in Queued(s)
          BY <3>3 DEF Queued
        <4>2. recs[q[i]] = records[q[i]]
          BY <1>3, <2>5, <3>3, <4>1
        <4> QED
          BY <4>1, <4>2 DEF Inv, QueuesFit
      <3> QED
        BY <3>1, <3>2, <3>3
    <2> QED
      BY <1>5, <2>2, <2>3, <2>5, <2>6, <2>7, <2>8, ReadyFacts
  <1>6. CASE /\ IsReady(s) /\ HasRoom(old)
             /\ seeds' = [seeds EXCEPT ![s].queue = q]
             /\ records' = recs
             /\ UNCHANGED <<sockets, connects>>
    <2> DEFINE r == [seeds[s] EXCEPT !.queue = q, !.sendTimer = seeds[s].sendTimer]
    <2>1. seeds' = [seeds EXCEPT ![s] = r]
      <3>1. [seeds[s] EXCEPT !.queue = q] = r
        BY SeedFacts DEF SeedState
      <3>2. seeds' = [seeds EXCEPT ![s] = [seeds[s] EXCEPT !.queue = q]]
        BY <1>6 DEF Inv, SeedsOK
      <3> QED
        BY <3>1, <3>2
    <2>2. seeds[s].sendTimer \in BOOLEAN
      BY SeedFacts DEF SeedState
    <2>3. /\ r \in SeedState /\ SeedOK(r, sockets[s], running)
          /\ r.queue = q /\ r.remote = seeds[s].remote
      <3>1. seeds[s].remote # None /\ q \in Seq(Record) /\ Len(q) <= MaxQueue
        BY <1>5, <1>6
      <3> HIDE DEF q
      <3> QED
        BY <2>2, <3>1, QueueChanged
    <2> HIDE DEF r
    <2>4. SeedsOK'
      BY <1>1, <1>6, <2>1, <2>3, SameSockets, SeedStep DEF Inv
    <2>5. \A n \in Record \ (Queued(s) \cup {m}) : records'[n] = records[n]
      BY <1>5, <1>6
    <2>6. \A i \in DOMAIN r.queue :
             /\ r.queue[i] \in (Queued(s) \cup {m}) \cup Queued(s)
             /\ records'[r.queue[i]].state # "idle"
             /\ records'[r.queue[i]].to = r.remote
      <3> HIDE DEF q, recs
      <3>1. DOMAIN q = 1 .. Len(q)
        BY <1>5, <1>6
      <3> QED
        BY <1>5, <1>6, <2>3, <3>1
    <2>7. r \in SeedState /\ \A t \in Seed \ {s} : (Queued(s) \cup {m}) \cap Queued(t) = {}
      BY <1>5, <1>6, <2>3
    <2>8. QueuesFit' /\ QueuesDisjoint'
      BY <2>1, <2>5, <2>6, <2>7, QueueStep
    <2> HIDE DEF recs
    <2>9. records' \in [Record -> RecordState] /\ RecordsReachTheirPeer'
      BY <1>5, <1>6 DEF RecordsReachTheirPeer
    <2>10. Rest'
      BY <1>1, <1>6, <2>9 DEF Inv, Rest, Waiters
    <2> QED
      BY <2>4, <2>8, <2>9, <2>10 DEF Inv
  <1>7. CASE IsReady(s) /\ HasRoom(old) /\ Pump(s, q, recs)
    <2> HIDE DEF q, recs, old
    <2> QED
      BY <1>1, <1>5, <1>7, PumpOK
  <1> QED
    BY <1>4, <1>6, <1>7 DEF Send

-----------------------------------------------------------------------------
(* dial, start and stop                                                    *)

\* dial makes the socket of the next generation, or its constructor throws and the
\* next attempt is scheduled.
LEMMA DialedOK ==
  ASSUME NEW r, NEW ss, Frame(r, ss), r.socket = 0, Bare(r), ~r.reconnectTimer,
         r.generation < MaxDials, NEW made \in BOOLEAN, NEW k \in Key
  PROVE  LET d == Dialed(r, made) IN
         /\ SeedOK(d, SocketMade(ss, d, k), TRUE)
         /\ d \in SeedState /\ d.queue = <<>>
  <1> DEFINE g == r.generation + 1
  <1>1. r \in SeedState /\ ss \in [1 .. MaxDials -> Socket]
    BY DEF Frame
  <1>2. r.generation \in Nat
    BY <1>1, Bounds DEF SeedState
  <1>3. g \in 1 .. MaxDials /\ g \in Generation /\ g # 0 /\ g > r.generation
    BY <1>2, Bounds DEF Generation
  <1>4. CASE made
    <2> DEFINE d == [r EXCEPT !.generation = g, !.socket = g, !.connectTimer = g,
                              !.told = "connecting"]
               x == [state |-> "connecting", key |-> k]
               new == [ss EXCEPT ![g] = x]
    <2>1. Dialed(r, made) = d
      BY <1>1, <1>4 DEF Dialed, SeedState
    <2>2. /\ d \in SeedState /\ d.queue = r.queue
          /\ d.chain = r.chain /\ d.stage = r.stage
          /\ d.socket = g /\ d.generation = g /\ d.connectTimer = g
          /\ d.remote = r.remote /\ d.got = r.got /\ d.hintTimer = r.hintTimer
          /\ d.reconnectTimer = r.reconnectTimer
      <3> HIDE DEF g
      <3> QED
        BY <1>1, <1>3 DEF SeedState
    <2> HIDE DEF d
    <2>3. ss[g].state = "unused"
      BY <1>3 DEF Frame
    <2> HIDE DEF g
    <2>4. SocketMade(ss, d, k) = new
      BY <1>3, <2>2, <2>3 DEF SocketMade
    <2>5. x \in Socket /\ x.state = "connecting" /\ x.key = k
      BY DEF Socket
    <2> HIDE DEF x
    <2>6. /\ new \in [1 .. MaxDials -> Socket] /\ new[g] = x
          /\ \A h \in 1 .. MaxDials : h # g => new[h] = ss[h]
      BY <1>1, <1>3, <2>5
    <2> HIDE DEF new
    <2>7. \A h \in 1 .. MaxDials : h > g => new[h].state = "unused"
      <3> SUFFICES ASSUME NEW h \in 1 .. MaxDials, h > g
                   PROVE  new[h].state = "unused"
        OBVIOUS
      <3>1. h > r.generation /\ h # g
        BY <1>2, <1>3, Bounds
      <3> QED
        BY <2>6, <3>1 DEF Frame
    <2>8. Frame(d, new)
      BY <2>2, <2>6, <2>7 DEF Frame
    <2>9. Joined(d, new)
      BY <1>3, <2>2, <2>5, <2>6 DEF Joined, Bare
    <2>10. Covered(d, TRUE)
      BY <1>3, <2>2 DEF Covered
    <2>11. SeedOK(d, new, TRUE)
      BY <1>3, <2>2, <2>8, <2>9, <2>10 DEF SeedOK
    <2> QED
      BY <2>1, <2>2, <2>4, <2>11 DEF Bare
  <1>5. CASE ~made
    <2> DEFINE q == [r EXCEPT !.generation = g]
               e == Ended(q, TRUE)
    <2>1. Dialed(r, made) = e
      BY <1>1, <1>5 DEF Dialed, SeedState
    <2>2. /\ q \in SeedState /\ q.generation = g /\ q.queue = r.queue
          /\ q.chain = r.chain /\ q.stage = r.stage
      <3> HIDE DEF g
      <3> QED
        BY <1>1, <1>3 DEF SeedState
    <2>3. \A h \in 1 .. MaxDials : h > g => ss[h].state = "unused"
      <3> SUFFICES ASSUME NEW h \in 1 .. MaxDials, h > g
                   PROVE  ss[h].state = "unused"
        OBVIOUS
      <3>1. h > r.generation
        BY <1>2, <1>3, Bounds
      <3> QED
        BY <3>1 DEF Frame
    <2> HIDE DEF g, q
    <2>4. Frame(q, ss)
      BY <1>1, <2>2, <2>3 DEF Frame
    <2>5. SeedOK(e, ss, TRUE)
      BY <2>4, EndedOK
    <2>6. e \in SeedState /\ e.queue = <<>> /\ e.socket = 0
      BY <2>2, EndedFields
    <2> HIDE DEF e
    <2>7. SocketMade(ss, e, k) = ss
      BY <2>6 DEF SocketMade
    <2> QED
      BY <2>1, <2>5, <2>6, <2>7
  <1> QED
    BY <1>4, <1>5

LEMMA StartOK == Inv /\ Start => Inv'
  <1> SUFFICES ASSUME Inv, Start
               PROVE  Inv'
    OBVIOUS
  <1>1. PICK made \in [Seed -> BOOLEAN], key \in [Seed -> Key] :
          /\ seeds' = [s \in Seed |-> Dialed(seeds[s], made[s])]
          /\ sockets' = [s \in Seed |->
                SocketMade(sockets[s], Dialed(seeds[s], made[s]), key[s])]
    BY DEF Start
  <1>2. /\ ~running /\ running' = TRUE
        /\ \A s \in Seed : seeds[s].generation < MaxDials
        /\ UNCHANGED <<stops, blocked, connects, records>>
    BY DEF Start
  <1>3. ASSUME NEW s \in Seed
        PROVE  /\ SeedOK(seeds'[s], sockets'[s], TRUE)
               /\ seeds'[s] \in SeedState /\ seeds'[s].queue = <<>>
    <2>1. /\ Frame(seeds[s], sockets[s]) /\ seeds[s].socket = 0
          /\ Bare(seeds[s]) /\ ~seeds[s].reconnectTimer
      BY <1>2, <1>3, SeedFacts DEF SeedOK, Covered
    <2>2. made[s] \in BOOLEAN /\ key[s] \in Key
      OBVIOUS
    <2> DEFINE d == Dialed(seeds[s], made[s])
    <2>3. seeds'[s] = d /\ sockets'[s] = SocketMade(sockets[s], d, key[s])
      BY <1>1
    <2>4. /\ SeedOK(d, SocketMade(sockets[s], d, key[s]), TRUE)
          /\ d \in SeedState /\ d.queue = <<>>
      BY <1>2, <2>1, <2>2, DialedOK
    <2> HIDE DEF d
    <2> QED
      BY <2>3, <2>4
  <1>4. /\ seeds' \in [Seed -> SeedState]
        /\ sockets' \in [Seed -> [1 .. MaxDials -> Socket]]
    <2>1. \A s \in Seed : seeds'[s] \in SeedState /\ sockets'[s] \in [1 .. MaxDials -> Socket]
      BY <1>3 DEF SeedOK, Frame
    <2>2. seeds' = [s \in Seed |-> seeds'[s]] /\ sockets' = [s \in Seed |-> sockets'[s]]
      BY <1>1
    <2> QED
      BY <2>1, <2>2
  <1>5. SeedsOK'
    BY <1>2, <1>3, <1>4 DEF SeedsOK
  <1>6. \A s \in Seed : Queued(s)' = {}
    <2> SUFFICES ASSUME NEW s \in Seed, NEW m, m \in Queued(s)'
                 PROVE  FALSE
      OBVIOUS
    <2>1. PICK i \in DOMAIN seeds'[s].queue : m = seeds'[s].queue[i]
      BY DEF Queued
    <2>2. seeds'[s].queue = <<>>
      BY <1>3
    <2>3. DOMAIN <<>> = {}
      OBVIOUS
    <2> QED
      BY <2>1, <2>2, <2>3
  <1>7. QueuesFit' /\ QueuesDisjoint'
    BY <1>6 DEF QueuesFit, QueuesDisjoint
  <1>8. Rest' /\ RecordsReachTheirPeer'
    BY <1>2 DEF Inv, Rest, RecordsReachTheirPeer
  <1> QED
    BY <1>5, <1>7, <1>8 DEF Inv

LEMMA ReconnectOK ==
  ASSUME Inv, NEW s \in Seed, ReconnectTimer(s)
  PROVE  Inv'
  <1> DEFINE r == [seeds[s] EXCEPT !.reconnectTimer = FALSE]
  <1>1. running /\ seeds[s].socket = 0 /\ Bare(seeds[s])
    BY SeedFacts DEF ReconnectTimer, SeedOK, Covered
  <1>2. PICK made \in BOOLEAN, k \in Key :
          /\ seeds' = [seeds EXCEPT ![s] = Dialed(r, made)]
          /\ sockets' = [sockets EXCEPT ![s] = SocketMade(sockets[s], seeds'[s], k)]
          /\ connects' = IF seeds'[s].socket = 0 THEN Settle(Waiters(s)) ELSE connects
    BY <1>1 DEF ReconnectTimer, Inv, SeedsOK
  <1>3. /\ seeds[s].generation < MaxDials
        /\ UNCHANGED <<running, stops, blocked, records>>
    BY DEF ReconnectTimer
  <1>4. /\ r \in SeedState /\ ~r.reconnectTimer
        /\ r.chain = seeds[s].chain /\ r.stage = seeds[s].stage
        /\ r.socket = seeds[s].socket /\ r.generation = seeds[s].generation
        /\ r.remote = seeds[s].remote /\ r.got = seeds[s].got
        /\ r.queue = seeds[s].queue /\ r.sendTimer = seeds[s].sendTimer
        /\ r.connectTimer = seeds[s].connectTimer /\ r.hintTimer = seeds[s].hintTimer
    BY SeedFacts DEF SeedState
  <1> HIDE DEF r
  <1>5. Frame(r, sockets[s]) /\ Bare(r)
    BY <1>1, <1>4, SeedFacts DEF Frame, Bare
  <1> DEFINE d == Dialed(r, made)
             ss == SocketMade(sockets[s], d, k)
  <1>6. SeedOK(d, ss, TRUE) /\ d.queue = <<>>
    BY <1>1, <1>3, <1>4, <1>5, DialedOK
  <1>7. seeds' = [seeds EXCEPT ![s] = d] /\ sockets' = [sockets EXCEPT ![s] = ss]
    BY <1>2 DEF Inv, SeedsOK
  <1> HIDE DEF d, ss
  <1>8. running = TRUE /\ d.queue = seeds[s].queue
    BY <1>1, <1>6, SeedFacts DEF Bare
  <1>9. connects' = connects \/ \E W : connects' = Settle(W)
    BY <1>2
  <1> QED
    BY <1>3, <1>6, <1>7, <1>8, <1>9, QuietStep

LEMMA StoppedFields ==
  ASSUME NEW r \in SeedState
  PROVE  LET e == Stopped(r) IN
         /\ e \in SeedState
         /\ e.socket = 0 /\ e.remote = None /\ e.got = None /\ e.queue = <<>>
         /\ e.connectTimer = 0 /\ e.hintTimer = 0 /\ ~e.sendTimer /\ ~e.reconnectTimer
         /\ e.generation = r.generation /\ e.chain = r.chain /\ e.stage = r.stage
  <1> DEFINE e == Stopped(r)
  <1>1. <<>> \in Seq(Record)
    OBVIOUS
  <1>2. e \in SeedState
    BY <1>1, Bounds, Zenon DEF SeedState, Stopped
  <1>3. /\ e.socket = 0 /\ e.remote = None /\ e.got = None /\ e.queue = <<>>
        /\ e.connectTimer = 0 /\ e.hintTimer = 0 /\ ~e.sendTimer /\ ~e.reconnectTimer
        /\ e.generation = r.generation /\ e.chain = r.chain /\ e.stage = r.stage
    BY DEF SeedState, Stopped
  <1> QED
    BY <1>2, <1>3

LEMMA StopOK == Inv /\ Stop => Inv'
  <1> SUFFICES ASSUME Inv, Stop
               PROVE  Inv'
    OBVIOUS
  <1>1. /\ running /\ running' = FALSE
        /\ stops' \in 0 .. MaxStops
        /\ UNCHANGED blocked
        /\ seeds' = [s \in Seed |-> Stopped(seeds[s])]
        /\ connects' = Settle(UNION {Waiters(s) : s \in Seed})
        /\ records' = FailRecords(records, UNION {Queued(s) : s \in Seed})
    BY Bounds DEF Stop, Inv, Rest
  <1>2. sockets' = [s \in Seed |-> IF seeds[s].socket = 0 THEN sockets[s]
                                   ELSE Closing(s, seeds[s].socket)[s]]
    BY DEF Stop
  <1>3. ASSUME NEW s \in Seed
        PROVE  /\ SeedOK(seeds'[s], sockets'[s], FALSE)
               /\ seeds'[s].queue = <<>>
    <2> DEFINE e == Stopped(seeds[s])
    <2>1. seeds'[s] = e
      BY <1>1
    <2>2. /\ e \in SeedState
          /\ e.socket = 0 /\ Bare(e) /\ ~e.reconnectTimer /\ e.queue = <<>>
          /\ e.generation = seeds[s].generation
          /\ e.chain = seeds[s].chain /\ e.stage = seeds[s].stage
      BY SeedFacts, StoppedFields DEF Bare
    <2> HIDE DEF e
    <2>3. Frame(seeds[s], sockets'[s])
      <3>1. CASE seeds[s].socket = 0
        BY <1>2, <3>1, SeedFacts
      <3>2. CASE seeds[s].socket # 0
        <4> DEFINE g == seeds[s].socket
        <4>1. sockets'[s] = [sockets[s] EXCEPT ![g] = [state |-> "closing", key |-> None]]
          BY <1>2, <3>2 DEF Closing, Inv, SeedsOK
        <4>2. g \in 1 .. MaxDials /\ g <= seeds[s].generation
          BY <3>2, SeedFacts, Bounds DEF SeedState, Generation
        <4> QED
          BY <4>1, <4>2, SeedFacts, FrameSockets, ClosedSocket
      <3> QED
        BY <3>1, <3>2
    <2>4. Len(<<>>) <= MaxQueue
      BY Bounds
    <2>5. Frame(e, sockets'[s])
      BY <2>2, <2>3, <2>4 DEF Frame
    <2>6. SeedOK(e, sockets'[s], FALSE)
      BY <2>2, <2>5 DEF SeedOK, Covered
    <2> QED
      BY <2>1, <2>2, <2>6
  <1>4. /\ seeds' \in [Seed -> SeedState]
        /\ sockets' \in [Seed -> [1 .. MaxDials -> Socket]]
    <2>1. \A s \in Seed : seeds'[s] \in SeedState /\ sockets'[s] \in [1 .. MaxDials -> Socket]
      BY <1>3 DEF SeedOK, Frame
    <2>2. seeds' = [s \in Seed |-> seeds'[s]] /\ sockets' = [s \in Seed |-> sockets'[s]]
      BY <1>1, <1>2
    <2> QED
      BY <2>1, <2>2
  <1>5. SeedsOK'
    BY <1>1, <1>3, <1>4 DEF SeedsOK
  <1>6. \A s \in Seed : Queued(s)' = {}
    <2> SUFFICES ASSUME NEW s \in Seed, NEW m, m \in Queued(s)'
                 PROVE  FALSE
      OBVIOUS
    <2>1. PICK i \in DOMAIN seeds'[s].queue : m = seeds'[s].queue[i]
      BY DEF Queued
    <2>2. seeds'[s].queue = <<>>
      BY <1>3
    <2>3. DOMAIN <<>> = {}
      OBVIOUS
    <2> QED
      BY <2>1, <2>2, <2>3
  <1>7. QueuesFit' /\ QueuesDisjoint'
    BY <1>6 DEF QueuesFit, QueuesDisjoint
  <1>8. records' \in [Record -> RecordState] /\ RecordsReachTheirPeer'
    BY <1>1, FailedOf DEF Inv, Rest, RecordsReachTheirPeer
  <1>9. connects' \in [Connect -> ConnectState] /\ \A s \in Seed : Waiters(s)' = {}
    <2>1. /\ connects' \in [Connect -> ConnectState]
          /\ \A s \in Seed : Waiters(s)' = Waiters(s) \ UNION {Waiters(t) : t \in Seed}
      BY <1>1, SettledCalls DEF Inv
    <2> QED
      BY <2>1
  <1>10. Rest'
    BY <1>1, <1>8, <1>9 DEF Inv, Rest
  <1> QED
    BY <1>5, <1>7, <1>8, <1>10 DEF Inv

-----------------------------------------------------------------------------
(* The specification                                                       *)

LEMMA InitOK == Init => Inv
  <1> SUFFICES ASSUME Init
               PROVE  Inv
    OBVIOUS
  <1>1. <<>> \in Seq(Record) /\ <<>> \in Seq([from : Generation, kind : Kind])
    OBVIOUS
  <1>2. NewSeed \in SeedState
    BY <1>1, Bounds DEF NewSeed, SeedState
  <1>3. /\ NewSeed.socket = 0 /\ NewSeed.generation = 0 /\ NewSeed.chain = <<>>
        /\ NewSeed.queue = <<>> /\ NewSeed.stage = "idle" /\ ~NewSeed.reconnectTimer
        /\ Bare(NewSeed)
    BY DEF NewSeed, Bare
  <1>4. NoSocket \in Socket /\ NoSocket.state = "unused"
    BY DEF NoSocket, Socket
  <1>5. ASSUME NEW s \in Seed
        PROVE  SeedOK(seeds[s], sockets[s], running)
    <2>1. seeds[s] = NewSeed /\ sockets[s] = [g \in 1 .. MaxDials |-> NoSocket]
      BY DEF Init
    <2>2. sockets[s] \in [1 .. MaxDials -> Socket]
      BY <1>4, <2>1
    <2>3. Len(<<>>) = 0
      OBVIOUS
    <2>4. Frame(seeds[s], sockets[s])
      BY <1>2, <1>3, <1>4, <2>1, <2>2, <2>3, Bounds DEF Frame
    <2>5. ~running
      BY DEF Init
    <2> QED
      BY <1>3, <2>1, <2>4, <2>5 DEF SeedOK, Covered
  <1>6. SeedsOK
    BY <1>2, <1>4, <1>5 DEF SeedsOK, Init
  <1>7. \A s \in Seed : Queued(s) = {}
    BY <1>3 DEF Init, Queued
  <1>8. QueuesFit /\ QueuesDisjoint
    BY <1>7 DEF QueuesFit, QueuesDisjoint
  <1>9. RecordsReachTheirPeer
    BY DEF RecordsReachTheirPeer, Init
  <1>10. connects \in [Connect -> ConnectState] /\ records \in [Record -> RecordState]
    BY DEF Init, ConnectState, RecordState
  <1>11. \A s \in Seed : Waiters(s) = {}
    BY DEF Init, Waiters
  <1>12. Rest
    <2>1. running = FALSE /\ stops = 0 /\ blocked = {}
      BY DEF Init
    <2>2. running \in BOOLEAN /\ blocked \subseteq Key
      BY <2>1
    <2>3. stops \in 0 .. MaxStops
      BY <2>1, Bounds
    <2> QED
      BY <1>10, <1>11, <2>2, <2>3 DEF Rest
  <1> QED
    BY <1>6, <1>8, <1>9, <1>12 DEF Inv

LEMMA NextOK == Inv /\ [Next]_vars => Inv'
  <1> SUFFICES ASSUME Inv, [Next]_vars
               PROVE  Inv'
    OBVIOUS
  <1>1. ASSUME NEW s \in Seed,
               ReconnectTimer(s) \/ ConnectTimeout(s) \/ SendTimer(s)
               \/ ReceiveBegins(s) \/ ReceiveRest(s) \/ ReceiveThrew(s)
        PROVE  Inv'
    BY <1>1, ReconnectOK, ConnectTimeoutOK, SendTimerOK, ReceiveBeginsOK, ReceiveRestOK,
       ReceiveThrewOK
  <1>2. ASSUME NEW s \in Seed, NEW g \in 1 .. MaxDials,
               OpenEvent(s, g) \/ ErrorEvent(s, g) \/ FarEndCloses(s, g) \/ CloseEvent(s, g)
        PROVE  Inv'
    BY <1>2, OpenOK, ErrorOK, FarEndClosesOK, CloseOK
  <1>3. ASSUME NEW s \in Seed, NEW g \in 1 .. MaxDials, NEW kind \in Kind,
               MessageEvent(s, g, kind)
        PROVE  Inv'
    BY <1>3, MessageOK
  <1>4. ASSUME NEW s \in Seed, NEW c \in Connect, CallConnect(c, s)
        PROVE  Inv'
    BY <1>4, CallConnectOK
  <1>5. ASSUME NEW s \in Seed, NEW m \in Record, Send(m, s)
        PROVE  Inv'
    BY <1>5, SendOK
  <1>6. ASSUME NEW k \in Key, Block(k)
        PROVE  Inv'
    BY <1>6, BlockOK
  <1>7. CASE UNCHANGED vars
    <2>1. UNCHANGED <<running, stops, blocked, seeds, sockets, connects, records>>
      BY <1>7 DEF vars
    <2>2. Rest'
      BY <2>1 DEF Inv, Rest, Waiters
    <2> QED
      BY <2>1, <2>2, SeedsAlone DEF Inv
  <1> QED
    BY <1>1, <1>2, <1>3, <1>4, <1>5, <1>6, <1>7, StartOK, StopOK DEF Next

LEMMA Invariance == Spec => []Inv
  BY InitOK, NextOK, PTL DEF Spec

LEMMA ShortSequences ==
  ASSUME NEW S, NEW n \in Nat, NEW q \in Seq(S), Len(q) <= n
  PROVE  q \in UNION {[1 .. k -> S] : k \in 0 .. n}
  <1>1. Len(q) \in 0 .. n /\ q \in [1 .. Len(q) -> S]
    OBVIOUS
  <1> QED
    BY <1>1

LEMMA InvType == Inv => TypeOK
  <1> SUFFICES ASSUME Inv
               PROVE  TypeOK
    OBVIOUS
  <1> DEFINE Chains == UNION {[1 .. n -> [from : Generation, kind : Kind]] : n \in 0 .. MaxChain}
             Queues == UNION {[1 .. n -> Record] : n \in 0 .. MaxQueue}
  <1>1. ASSUME NEW s \in Seed
        PROVE  /\ seeds[s] \in SeedState
               /\ seeds[s].chain \in Chains /\ seeds[s].queue \in Queues
    <2>1. /\ seeds[s] \in SeedState
          /\ Len(seeds[s].chain) <= MaxChain /\ Len(seeds[s].queue) <= MaxQueue
      BY SeedFacts DEF Frame
    <2>2. /\ seeds[s].chain \in Seq([from : Generation, kind : Kind])
          /\ seeds[s].queue \in Seq(Record)
      BY <2>1 DEF SeedState
    <2> QED
      BY <2>1, <2>2, ShortSequences, Bounds
  <1> HIDE DEF Chains, Queues
  <1>2. seeds \in [Seed ->
          [socket : Generation, generation : Generation, nonce : Generation,
           remote : Key \cup {None}, got : Key \cup {None},
           chain : Chains, stage : {"idle", "await", "threw"}, queue : Queues,
           connectTimer : Generation, hintTimer : Generation, sendTimer : BOOLEAN,
           reconnectTimer : BOOLEAN,
           told : {"nothing", "connecting", "connected", "disconnected"}]]
    BY <1>1 DEF Inv, SeedsOK, SeedState
  <1> QED
    BY <1>2 DEF TypeOK, Inv, SeedsOK, Rest, Socket, ConnectState, RecordState, Chains, Queues

\* Every seed of a running transport has what will move it on (a reconnect timer, or a
\* socket with a timer or a known peer), a stopped one has no socket, timer, waiting
\* caller or queued record, and no queue outgrows maxSendQueue: however the events of
\* sockets, timers and the receive chain interleave with start(), stop(), connect() and
\* send(), for any number of seeds, dials and messages.
THEOREM NoSeedForgotten == Spec => []SeedInv
  <1>1. Inv => SeedCovered
    <2> SUFFICES ASSUME Inv, NEW s \in Seed
                 PROVE  LET r == seeds[s] IN
                        IF running
                        THEN \/ r.socket = 0 /\ r.reconnectTimer
                             \/ /\ r.socket # 0 /\ ~r.reconnectTimer
                                /\ \/ r.socket \in {r.connectTimer, r.hintTimer}
                                   \/ r.remote # None
                        ELSE /\ r.socket = 0 /\ ~r.reconnectTimer /\ ~r.sendTimer
                             /\ r.connectTimer = 0 /\ r.hintTimer = 0
                             /\ Waiters(s) = {} /\ r.queue = <<>>
      BY DEF SeedCovered
    <2>1. ~running => Waiters(s) = {}
      BY DEF Inv, Rest
    <2> QED
      BY <2>1, SeedFacts DEF SeedOK, Covered, Bare
  <1>2. Inv => SeedInv
    BY <1>1, InvType DEF SeedInv
  <1> QED
    BY <1>2, Invariance, PTL

\* A record that the node gets comes from the peer that the connection was announced
\* with, and a record that send() accepted goes out to the peer that was connected then,
\* whatever far end a seed has after each dial and whatever is left in its chain.
THEOREM RecordsStayWithPeer == Spec => []RecordsKeepPeer
  <1>1. Inv => RecordsFromAnnouncedPeer
    <2> SUFFICES ASSUME Inv, NEW s \in Seed, seeds[s].got # None
                 PROVE  seeds[s].told = "connected" /\ seeds[s].got = seeds[s].remote
      BY DEF RecordsFromAnnouncedPeer
    <2> QED
      BY SeedFacts DEF SeedOK, Bare, Joined
  <1>2. Inv => RecordsKeepPeer
    BY <1>1 DEF RecordsKeepPeer, Inv
  <1> QED
    BY <1>2, Invariance, PTL
=============================================================================
