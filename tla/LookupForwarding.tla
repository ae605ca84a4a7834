-------------------------- MODULE LookupForwarding --------------------------
(***************************************************************************)
(* Finding and using a route in reply_learned mode: FipsRouting's lookup   *)
(* requests, their reverse paths, the responses and the routes they teach  *)
(* (LearnedRouteTable), and the session datagrams that follow them.        *)
(*                                                                         *)
(* The endpoints of a mesh are strict clients: they do not forward, and    *)
(* their coordinates name no root, so TreeState yields no next hop for     *)
(* them (SpanningTree models it).  Relays forward.  A link has a frame     *)
(* capacity.  Frames may be lost and may overtake each other.  A request   *)
(* is named by its origin and attempt: the registry draws a fresh id for   *)
(* each (OriginLookup models the registry itself).  Where the learned      *)
(* table picks one of several live routes by weight, the model picks any.  *)
(***************************************************************************)
EXTENDS Integers, Sequences, FiniteSets, FiniteSetsExt, SequencesExt

CONSTANTS Meshes,      \* the configurations a behaviour may be of
          OriginTtl,   \* LOOKUP_ORIGIN_TTL
          SessionTtl,  \* the hops a datagram may take
          DefaultMtu   \* FSP_DEFAULT_PATH_MTU

(* A configuration: its nodes, which of them relay and which have a        *)
(* transport that resolves identities; its links with their capacities,    *)
(* and those that are up to begin with; the first-contact lookups and the  *)
(* datagrams of its endpoints; MAX_LOOKUP_REVERSE_PATHS and the attempts a  *)
(* lookup has before its deadline; and bounds on lost frames, broken links *)
(* and expired table entries.                                              *)
ASSUME LookupForwardingAssumption ==
    /\ {OriginTtl, SessionTtl, DefaultMtu} \subseteq Nat \ {0}
    /\ \A h \in Meshes :
        /\ h.relays \subseteq h.nodes /\ h.resolvers \subseteq h.relays
        /\ \A l \in DOMAIN h.cap : l \subseteq h.nodes /\ Cardinality(l) = 2 /\ h.cap[l] \in Nat
        /\ h.start \subseteq DOMAIN h.cap
        /\ \A a \in h.asks : a.origin \in h.nodes /\ a.target \in h.nodes
        /\ \A d \in h.datagrams : d.src \in h.nodes /\ d.dst \in h.nodes /\ d.size \in Nat
        /\ {h.maxReverse, h.maxTries} \subseteq Nat \ {0}
        /\ {h.maxLosses, h.maxBreaks, h.maxExpiries} \subseteq Nat

VARIABLES mesh,
          up,         \* the links that are up
          net,        \* the frames in flight
          pending,    \* pending[n]: target -> the lookup n has started
          reverse,    \* reverse[n]: lookupReversePaths, oldest first
          learned,    \* learned[n]: routes [dest, hop, mtu], mtu 0 if not known
          resolving,  \* resolving[n]: the requests that wait for resolveRoute
          waiting,    \* waiting[n]: the datagrams that wait for a lookup
          todo,       \* the lookups and datagrams not yet begun
          failed,     \* the datagrams given up for want of a route, and by whom
          arrived,    \* the datagrams that have come to their destination
          spent       \* losses, breaks, expiries and evictions so far

vars == <<mesh, up, net, pending, reverse, learned, resolving, waiting, todo, failed, arrived,
          spent>>

Node == mesh.nodes
Nobody == 0

----------------------------------------------------------------------------
(* Peers and routes *)

Peers(n) == {m \in Node : {n, m} \in up}

frameCapacity(n, m) == mesh.cap[{n, m}]

Routes(n, dest) == {r \in learned[n] : r.dest = dest}

pathMtuFor(n, dest, m) ==
    LET mtus == {r.mtu : r \in {q \in Routes(n, dest) : q.hop = m}}
    IN  IF dest = m THEN frameCapacity(n, m)
        ELSE Min({frameCapacity(n, m), IF mtus \subseteq {0} THEN DefaultMtu ELSE Max(mtus)})

Usable(n, m, excluded, minMtu) ==
    m \in Peers(n) \ {excluded} /\ frameCapacity(n, m) >= minMtu

(* nextHopFor: the target itself, or one of the learned routes. *)
NextHops(n, dest, excluded, minMtu) ==
    LET fits(m) == Usable(n, m, excluded, minMtu) /\ pathMtuFor(n, dest, m) >= minMtu
    IN  IF fits(dest) THEN {dest}
        ELSE {m \in {r.hop : r \in Routes(n, dest)} : fits(m)}

(* learnReverseRoute and LearnedRouteTable.learn. *)
Learn(n, dest, hop, mtu) ==
    IF dest \in {hop, n} THEN learned[n]
    ELSE {r \in learned[n] : r.dest # dest \/ r.hop # hop}
         \cup {[dest |-> dest, hop |-> hop, mtu |-> mtu]}

(* The route of authenticated session traffic, which tells no path MTU. *)
LearnSeen(n, dest, hop) ==
    IF \E r \in Routes(n, dest) : r.hop = hop THEN learned[n] ELSE Learn(n, dest, hop, 0)

----------------------------------------------------------------------------
(* Frames *)

Request(n, m, id, target, origin, ttl, mtu) ==
    [kind |-> "request", from |-> n, to |-> m, id |-> id, target |-> target,
     origin |-> origin, ttl |-> ttl, mtu |-> mtu]

Response(n, m, id, target, mtu) ==
    [kind |-> "response", from |-> n, to |-> m, id |-> id, target |-> target, mtu |-> mtu]

Datagram(n, m, d, ttl) ==
    [kind |-> "datagram", from |-> n, to |-> m, data |-> d, ttl |-> ttl]

Carried(msgs) == {msg \in msgs : {msg.from, msg.to} \in up}

----------------------------------------------------------------------------
(* Lookups *)

originLookupPeers(n, excluded, minMtu) ==
    {m \in Peers(n) \ {excluded} : frameCapacity(n, m) >= minMtu}

Attempt(n, p, try) == [origin |-> n, target |-> p.target, lookup |-> p.lookup, try |-> try]

(* The frames of retryOriginLookup's next attempt. *)
AttemptFrames(n, p, try) ==
    {Request(n, m, Attempt(n, p, try), p.target, n, OriginTtl, p.minMtu) :
        m \in originLookupPeers(n, p.excluded, p.minMtu)}

(* findRequest: earlier ids of a lookup stay valid while it is pending. *)
Owns(n, id) ==
    \E t \in DOMAIN pending[n] :
        /\ id.origin = n /\ id.target = t /\ id.lookup = pending[n][t].lookup
        /\ id.try <= pending[n][t].tries

Without(f, x) == [y \in DOMAIN f \ {x} |-> f[y]]

Lookup(n, target, excluded, minMtu) ==
    [target |-> target, excluded |-> excluded, minMtu |-> minMtu, tries |-> 1,
     lookup |-> spent.lookups + 1]

(* create and the first attempt. *)
StartLookup(n, p) ==
    /\ pending' = [pending EXCEPT ![n] =
           [t \in DOMAIN @ \cup {p.target} |-> IF t = p.target THEN p ELSE @[t]]]
    /\ spent' = [spent EXCEPT !.lookups = @ + 1]

(* ensureFirstContactRoute. *)
Ask(a) ==
    /\ a \in todo /\ a \in mesh.asks
    /\ a.target \notin DOMAIN pending[a.origin]
    /\ NextHops(a.origin, a.target, Nobody, 0) = {}
    /\ todo' = todo \ {a}
    /\ LET p == Lookup(a.origin, a.target, Nobody, 0)
       IN  StartLookup(a.origin, p) /\ net' = net \cup AttemptFrames(a.origin, p, 1)
    /\ UNCHANGED <<mesh, up, reverse, learned, resolving, waiting, failed, arrived>>

Retry(n, t) ==
    /\ t \in DOMAIN pending[n]
    /\ pending[n][t].tries < mesh.maxTries
    /\ pending' = [pending EXCEPT ![n][t].tries = @ + 1]
    /\ net' = net \cup AttemptFrames(n, pending[n][t], pending[n][t].tries + 1)
    /\ UNCHANGED <<mesh, up, reverse, learned, resolving, waiting, todo, failed, arrived, spent>>

(* Node n, which had it from prev, gives datagram d up: as there is no     *)
(* way for it (no way), for want of a first contact (unknown), or at the   *)
(* deadline of a lookup (late).                                            *)
Refusal(n, d, prev, why) == [node |-> n, data |-> d, prev |-> prev, why |-> why]

(* The deadline of a lookup: those who wait for it get an error. *)
Deadline(n, t) ==
    LET dropped == {w \in waiting[n] : w.data.dst = t /\ ~w.resumed} IN
    /\ t \in DOMAIN pending[n]
    /\ pending[n][t].tries = mesh.maxTries
    /\ pending' = [pending EXCEPT ![n] = Without(@, t)]
    /\ failed' = failed \cup {Refusal(n, w.data, w.prev, "late") : w \in dropped}
    /\ waiting' = [waiting EXCEPT ![n] = @ \ dropped]
    /\ UNCHANGED <<mesh, up, net, reverse, learned, resolving, todo, spent, arrived>>

----------------------------------------------------------------------------
(* Requests at a relay *)

Entries(n, msg) ==
    {i \in DOMAIN reverse[n] : reverse[n][i].id = msg.id /\ reverse[n][i].target = msg.target}

Fallback(n, msg) ==
    {m \in Peers(n) \ {msg.from, msg.origin} : frameCapacity(n, m) >= msg.mtu}

(* reserveLookupReversePath: the oldest makes room. *)
Reserved(s) == IF Len(s) < mesh.maxReverse THEN s ELSE Tail(s)

(* The request goes to hops; the sends to bad are rejected, which the code *)
(* learns when all of them have settled.                                   *)
Forward(n, msg, hops, bad) ==
    LET old == Entries(n, msg)
        i == CHOOSE j \in old : TRUE
        entry == IF old # {} THEN reverse[n][i]
                 ELSE [id |-> msg.id, target |-> msg.target, peer |-> msg.from, sent |-> {},
                       origin |-> msg.origin, ttl |-> msg.ttl - 1, mtu |-> msg.mtu]
        after == [entry EXCEPT !.sent = @ \cup (hops \ bad)]
    IN  /\ reverse' = [reverse EXCEPT ![n] =
               IF hops # {} /\ bad = hops /\ after.sent = {}
               THEN IF old # {} THEN RemoveAt(@, i) ELSE Reserved(@)
               ELSE IF old # {} THEN ReplaceAt(@, i, after) ELSE Append(Reserved(@), after)]
        /\ net' = (net \ {msg}) \cup
               {Request(n, m, msg.id, msg.target, entry.origin, entry.ttl, entry.mtu) :
                   m \in hops \ bad}

Drop(msg) == net' = net \ {msg} /\ UNCHANGED <<reverse, resolving, spent>>

RelayRequest(n, msg) ==
    LET old == Entries(n, msg)
        sent == UNION {reverse[n][i].sent : i \in old}
        known == NextHops(n, msg.target, msg.from, msg.mtu)
        canResolve == known = {} /\ Fallback(n, msg) = {} /\ n \in mesh.resolvers
    IN  IF \E i \in old : reverse[n][i].peer # msg.from
        THEN Drop(msg)
        ELSE \E hops \in IF known # {} THEN {{m} \ sent : m \in known}
                         ELSE {Fallback(n, msg) \ sent} :
                IF hops = {} /\ ~canResolve
                THEN Drop(msg)
                ELSE \E bad \in SUBSET hops :
                        /\ spent.losses + Cardinality(bad) <= mesh.maxLosses
                        /\ spent' = [spent EXCEPT !.losses = @ + Cardinality(bad),
                               !.evicted = @ \/ (old = {} /\ Reserved(reverse[n]) # reverse[n])]
                        /\ Forward(n, msg, hops, bad)
                        /\ resolving' = [resolving EXCEPT ![n] =
                               IF canResolve THEN @ \cup {[id |-> msg.id, target |-> msg.target]}
                               ELSE @]

(* handleLinkMessage and handleLookupRequest. *)
ReceiveRequest(n, msg) ==
    /\ msg \in net /\ msg.to = n /\ msg.kind = "request"
    /\ IF Owns(n, msg.id) \/ frameCapacity(n, msg.from) < msg.mtu
       THEN Drop(msg)
       ELSE IF msg.target = n
       THEN /\ net' = (net \ {msg}) \cup
                   {Response(n, msg.from, msg.id, n, frameCapacity(n, msg.from))}
            /\ UNCHANGED <<reverse, resolving, spent>>
       ELSE IF n \notin mesh.relays \/ msg.ttl = 0
       THEN Drop(msg)
       ELSE RelayRequest(n, msg)
    /\ UNCHANGED <<mesh, up, pending, learned, waiting, todo, failed, arrived>>

----------------------------------------------------------------------------
(* Responses *)

Mtu(n, msg) == Min({msg.mtu, frameCapacity(n, msg.from)})

(* Mutant: those who wait for the lookup are not told. *)
AcceptQuietly(n, msg) ==
    LET p == pending[n][msg.target]
    IN  IF Mtu(n, msg) < p.minMtu
        THEN UNCHANGED <<pending, learned, waiting>>
        ELSE /\ learned' = [learned EXCEPT ![n] = Learn(n, msg.target, msg.from, Mtu(n, msg))]
             /\ pending' = [pending EXCEPT ![n] = Without(@, msg.target)]
             /\ UNCHANGED waiting

(* handleOriginLookupResponse: the lookup completes, those who wait for it *)
(* go on.                                                                  *)
AcceptResponse(n, msg) ==
    LET p == pending[n][msg.target]
    IN  IF Mtu(n, msg) < p.minMtu
        THEN UNCHANGED <<pending, learned, waiting>>
        ELSE /\ learned' = [learned EXCEPT ![n] = Learn(n, msg.target, msg.from, Mtu(n, msg))]
             /\ pending' = [pending EXCEPT ![n] = Without(@, msg.target)]
             /\ waiting' = [waiting EXCEPT ![n] =
                    {IF w.data.dst = msg.target /\ ~w.resumed
                     THEN [w EXCEPT !.resumed = TRUE, !.via = msg.from, !.verified = p.minMtu]
                     ELSE w : w \in @}]

(* Mutant: the capacity of the reverse peer replaces the MTU so far. *)
BackMtuOwn(n, msg, entry) == frameCapacity(n, entry.peer)

(* forwardLookupResponse. *)
BackMtu(n, msg, entry) == Min({Mtu(n, msg), frameCapacity(n, entry.peer)})

ForwardResponse(n, msg) ==
    LET old == {i \in Entries(n, msg) : reverse[n][i].peer # msg.from}
        i == CHOOSE j \in old : TRUE
        entry == reverse[n][i]
    IN  IF n \notin mesh.relays \/ old = {} \/ BackMtu(n, msg, entry) < entry.mtu
        THEN net' = net \ {msg} /\ UNCHANGED <<reverse, learned>>
        ELSE /\ learned' = [learned EXCEPT ![n] = Learn(n, msg.target, msg.from, Mtu(n, msg))]
             /\ reverse' = [reverse EXCEPT ![n] = RemoveAt(@, i)]
             /\ net' = (net \ {msg}) \cup
                   Carried({Response(n, entry.peer, msg.id, msg.target, BackMtu(n, msg, entry))})

ReceiveResponse(n, msg) ==
    /\ msg \in net /\ msg.to = n /\ msg.kind = "response"
    /\ IF Owns(n, msg.id)
       THEN AcceptResponse(n, msg) /\ net' = net \ {msg} /\ UNCHANGED reverse
       ELSE ForwardResponse(n, msg) /\ UNCHANGED <<pending, waiting>>
    /\ UNCHANGED <<mesh, up, resolving, todo, failed, spent, arrived>>

----------------------------------------------------------------------------
(* Datagrams.  The operators below say what sendSessionDatagram does with  *)
(* the datagram d at node n, which has come from prev; msgs and ws are the *)
(* frame or the waiting entry it comes from.                               *)

Emit(n, d, m, ttl, msgs, ws) ==
    /\ net' = (net \ msgs) \cup {Datagram(n, m, d, ttl)}
    /\ waiting' = [waiting EXCEPT ![n] = @ \ ws]
    /\ UNCHANGED <<pending, failed, spent>>

GiveUp(n, d, prev, why, msgs, ws) ==
    /\ failed' = failed \cup {Refusal(n, d, prev, why)}
    /\ net' = net \ msgs
    /\ waiting' = [waiting EXCEPT ![n] = @ \ ws]
    /\ UNCHANGED <<pending, spent>>

(* Mutant: a datagram that finds a lookup pending is given up. *)
RefreshAlone(n, d, prev, ttl, minMtu, msgs, ws) ==
    LET p == Lookup(n, d.dst, prev, minMtu)
        w == [data |-> d, prev |-> prev, ttl |-> ttl, need |-> minMtu,
              resumed |-> FALSE, via |-> Nobody, verified |-> 0]
    IN  IF d.dst \in DOMAIN pending[n] \/ originLookupPeers(n, prev, minMtu) = {}
        THEN GiveUp(n, d, prev, "no way", msgs, ws)
        ELSE /\ waiting' = [waiting EXCEPT ![n] = (@ \ ws) \cup {w}]
             /\ net' = (net \ msgs) \cup AttemptFrames(n, p, 1)
             /\ StartLookup(n, p)
             /\ UNCHANGED failed

(* refreshTransitRoute: join the lookup there is, or start one. *)
Refresh(n, d, prev, ttl, minMtu, msgs, ws) ==
    LET p == Lookup(n, d.dst, prev, minMtu)
        w == [data |-> d, prev |-> prev, ttl |-> ttl, need |-> minMtu,
              resumed |-> FALSE, via |-> Nobody, verified |-> 0]
        joins == d.dst \in DOMAIN pending[n]
    IN  IF ~joins /\ originLookupPeers(n, prev, minMtu) = {}
        THEN GiveUp(n, d, prev, "no way", msgs, ws)
        ELSE /\ waiting' = [waiting EXCEPT ![n] = (@ \ ws) \cup {w}]
             /\ net' = (net \ msgs) \cup (IF joins THEN {} ELSE AttemptFrames(n, p, 1))
             /\ IF joins THEN UNCHANGED <<pending, spent>> ELSE StartLookup(n, p)
             /\ UNCHANGED failed

(* A next hop is there: is its path wide enough? *)
Fit(n, d, prev, ttl, m, msgs, ws) ==
    LET wider == NextHops(n, d.dst, prev, d.size)
    IN  IF pathMtuFor(n, d.dst, m) >= d.size
        THEN Emit(n, d, m, ttl, msgs, ws)
        ELSE IF wider # {}
        THEN \E h \in wider : Emit(n, d, h, ttl, msgs, ws)
        ELSE Refresh(n, d, prev, ttl, d.size, msgs, ws)

(* Send begins the datagrams of an endpoint, which has no resolver; the    *)
(* first contact with the target, if there is one, has ended by then.      *)
Send(d) ==
    /\ d \in todo /\ d \in mesh.datagrams
    /\ [origin |-> d.src, target |-> d.dst] \notin todo
    /\ d.dst \in DOMAIN pending[d.src] => pending[d.src][d.dst].minMtu > 0
    /\ todo' = todo \ {d}
    /\ IF NextHops(d.src, d.dst, Nobody, 0) = {}
       THEN GiveUp(d.src, d, Nobody, "unknown", {}, {})
       ELSE \E m \in NextHops(d.src, d.dst, Nobody, 0) :
                Fit(d.src, d, Nobody, SessionTtl, m, {}, {})
    /\ UNCHANGED <<mesh, up, reverse, learned, resolving, arrived>>

(* Mutant: the hop limit is taken one hop early. *)
ExhaustedEarly(ttl) == ttl <= 2

Exhausted(ttl) == ttl <= 1

ReceiveDatagram(n, msg) ==
    /\ msg \in net /\ msg.to = n /\ msg.kind = "datagram"
    /\ LET d == msg.data
           hops == NextHops(n, d.dst, msg.from, 0)
       IN  IF d.dst = n \/ n \notin mesh.relays \/ Exhausted(msg.ttl)
           THEN /\ net' = net \ {msg}
                /\ learned' = [learned EXCEPT ![n] =
                       IF d.dst = n THEN LearnSeen(n, d.src, msg.from) ELSE @]
                /\ UNCHANGED <<pending, waiting, failed, spent>>
           ELSE IF hops = {}
           THEN Refresh(n, d, msg.from, msg.ttl - 1, 0, {msg}, {}) /\ UNCHANGED learned
           ELSE /\ \E m \in hops : Fit(n, d, msg.from, msg.ttl - 1, m, {msg}, {})
                /\ UNCHANGED learned
    /\ arrived' = IF msg.data.dst = n THEN arrived \cup {msg.data} ELSE arrived
    /\ UNCHANGED <<mesh, up, reverse, resolving, todo>>

(* The lookup a datagram waited for has completed. *)
Resume(n, w) ==
    /\ w \in waiting[n] /\ w.resumed
    /\ LET d == w.data
           hops == NextHops(n, d.dst, w.prev, 0)
       IN  IF w.need = 0
           THEN IF hops = {} THEN GiveUp(n, d, w.prev, "no way", {}, {w})
                ELSE \E m \in hops : Fit(n, d, w.prev, w.ttl, m, {}, {w})
           ELSE IF w.verified < w.need
           THEN Refresh(n, d, w.prev, w.ttl, w.need, {}, {w})
           ELSE IF Usable(n, w.via, w.prev, d.size)
           THEN Emit(n, d, w.via, w.ttl, {}, {w})
           ELSE GiveUp(n, d, w.prev, "no way", {}, {w})
    /\ UNCHANGED <<mesh, up, reverse, learned, resolving, todo, arrived>>

----------------------------------------------------------------------------
(* Links *)

(* Mutant: the request stays with the peers it was first sent to. *)
ReplayedNever(n, m) == {}

(* replayPendingLookupsFor: the requests for m that came before m did. *)
Replayed(n, m) ==
    {i \in DOMAIN reverse[n] :
        /\ reverse[n][i].target = m /\ reverse[n][i].peer # m
        /\ m \notin reverse[n][i].sent
        /\ frameCapacity(n, m) >= reverse[n][i].mtu}

ReplayFrames(n, m) ==
    {Request(n, m, reverse[n][i].id, m, reverse[n][i].origin, reverse[n][i].ttl,
             reverse[n][i].mtu) : i \in Replayed(n, m)}

AfterReplay(n, m) ==
    [i \in DOMAIN reverse[n] |->
        IF i \in Replayed(n, m) THEN [reverse[n][i] EXCEPT !.sent = @ \cup {m}]
        ELSE reverse[n][i]]

(* The replays of the ends in bad are rejected by their link. *)
Connect(n, m) ==
    /\ {n, m} \in DOMAIN mesh.cap \ (up \cup spent.broken)
    /\ up' = up \cup {{n, m}}
    /\ \E bad \in SUBSET {n, m} :
        LET other(x) == IF x = n THEN m ELSE n
        IN  /\ spent.losses + Cardinality(bad) <= mesh.maxLosses
            /\ spent' = [spent EXCEPT !.losses = @ + Cardinality(bad)]
            /\ reverse' = [x \in Node |-> IF x \in {n, m} \ bad THEN AfterReplay(x, other(x))
                                          ELSE reverse[x]]
            /\ net' = net \cup UNION {ReplayFrames(x, other(x)) : x \in {n, m} \ bad}
    /\ UNCHANGED <<mesh, pending, learned, resolving, waiting, todo, failed, arrived>>

(* resolveAndForwardLookup, once resolveRoute has connected the target or  *)
(* has not found it; the link may reject the request.  (A reverse path     *)
(* that was dropped and made again under the same id is another object     *)
(* there, and is left alone: a request comes once to a relay in a line,    *)
(* where the configurations have their resolvers.)                         *)
ResolveEnds(n, r) ==
    /\ r \in resolving[n]
    /\ resolving' = [resolving EXCEPT ![n] = @ \ {r}]
    /\ LET old == {i \in DOMAIN reverse[n] : reverse[n][i].id = r.id}
           i == CHOOSE j \in old : TRUE
           entry == reverse[n][i]
           hops == NextHops(n, r.target, entry.peer, entry.mtu) \ entry.sent
       IN  IF {n, r.target} \notin up \/ old = {} \/ hops = {}
           THEN UNCHANGED <<net, reverse, spent>>
           ELSE \/ \E m \in hops :
                    /\ reverse' = [reverse EXCEPT ![n][i].sent = @ \cup {m}]
                    /\ net' = net \cup {Request(n, m, entry.id, entry.target, entry.origin,
                                                entry.ttl, entry.mtu)}
                    /\ UNCHANGED spent
                \/ /\ spent.losses < mesh.maxLosses
                   /\ spent' = [spent EXCEPT !.losses = @ + 1]
                   /\ UNCHANGED <<net, reverse>>
    /\ UNCHANGED <<mesh, up, pending, learned, waiting, todo, failed, arrived>>

Break(n, m) ==
    /\ {n, m} \in up
    /\ Cardinality(spent.broken) < mesh.maxBreaks
    /\ up' = up \ {{n, m}}
    /\ net' = {msg \in net : {msg.from, msg.to} # {n, m}}
    /\ spent' = [spent EXCEPT !.broken = @ \cup {{n, m}}]
    /\ UNCHANGED <<mesh, pending, reverse, learned, resolving, waiting, todo, failed, arrived>>

Lose(msg) ==
    /\ msg \in net
    /\ spent.losses < mesh.maxLosses
    /\ net' = net \ {msg}
    /\ spent' = [spent EXCEPT !.losses = @ + 1]
    /\ UNCHANGED <<mesh, up, pending, reverse, learned, resolving, waiting, todo, failed, arrived>>

(* retainLive and pruneLookupReversePaths, which the next use of the table *)
(* begins with.                                                            *)
Expire(n) ==
    /\ spent.expiries < mesh.maxExpiries
    /\ spent' = [spent EXCEPT !.expiries = @ + 1]
    /\ \/ \E r \in learned[n] :
             learned' = [learned EXCEPT ![n] = @ \ {r}] /\ UNCHANGED reverse
       \/ /\ reverse[n] # <<>>
          /\ reverse' = [reverse EXCEPT ![n] = Tail(@)] /\ UNCHANGED learned
    /\ UNCHANGED <<mesh, up, net, pending, resolving, waiting, todo, failed, arrived>>

----------------------------------------------------------------------------
Init ==
    /\ mesh \in Meshes
    /\ up = mesh.start
    /\ net = {}
    /\ pending = [n \in Node |-> <<>>]
    /\ reverse = [n \in Node |-> <<>>]
    /\ learned = [n \in Node |-> {}]
    /\ resolving = [n \in Node |-> {}]
    /\ waiting = [n \in Node |-> {}]
    /\ todo = mesh.asks \cup mesh.datagrams
    /\ failed = {}
    /\ arrived = {}
    /\ spent = [losses |-> 0, expiries |-> 0, lookups |-> 0, broken |-> {},
                evicted |-> FALSE]

Receive(msg) ==
    \/ ReceiveRequest(msg.to, msg)
    \/ ReceiveResponse(msg.to, msg)
    \/ ReceiveDatagram(msg.to, msg)

Timers ==
    \E n \in Node : \E t \in DOMAIN pending[n] : Retry(n, t) \/ Deadline(n, t)

Resumes ==
    \E n \in Node : (\E w \in waiting[n] : Resume(n, w)) \/ (\E r \in resolving[n] : ResolveEnds(n, r))

Next ==
    \/ \E msg \in net : Receive(msg) \/ Lose(msg)
    \/ Timers
    \/ Resumes
    \/ \E x \in todo : Ask(x) \/ Send(x)
    \/ \E n, m \in Node : Connect(n, m) \/ Break(n, m)
    \/ \E n \in Node : Expire(n)

Spec == Init /\ [][Next]_vars

FairSpec == Spec /\ WF_vars(\E msg \in net : Receive(msg)) /\ WF_vars(Timers) /\ WF_vars(Resumes)

----------------------------------------------------------------------------
Wide(size) == {l \in up : mesh.cap[l] >= size}

(* The nodes that frames of the given size reach from n over relays within *)
(* the lookup TTL, the first hop not being excluded.                       *)
Within(n, excluded, size) ==
    LET b[i \in 0..OriginTtl] ==
            IF i = 0 THEN {m \in Node \ {excluded} : {n, m} \in Wide(size)}
            ELSE LET inner == b[i - 1]
                 IN  inner \cup {m \in Node : \E j \in inner \cap mesh.relays : {j, m} \in Wide(size)}
    IN  b[OriginTtl]

(* Frames of the given size lead from n to dest over relays, the first hop *)
(* not being excluded: every set of nodes without dest has a way out.      *)
Reaches(n, excluded, size, dest) ==
    \A S \in SUBSET (Node \ {dest}) : \E m \in Node \ S :
        \/ m # excluded /\ {n, m} \in Wide(size)
        \/ \E j \in S \cap mesh.relays : {j, m} \in Wide(size)

(* The type invariant. A relay keeps at most MAX_LOOKUP_REVERSE_PATHS      *)
(* reverse paths (reserveLookupReversePath) and one per request, and no    *)
(* learned route leads to the node itself or to its own next hop.          *)
TypeOK ==
    /\ up \subseteq DOMAIN mesh.cap
    /\ \A n \in Node :
        /\ DOMAIN pending[n] \subseteq Node
        /\ Len(reverse[n]) <= mesh.maxReverse
        /\ \A i, j \in DOMAIN reverse[n] : reverse[n][i].id = reverse[n][j].id => i = j
        /\ \A r \in learned[n] : r.dest \notin {n, r.hop} /\ r.hop \in Node

Undisturbed ==
    spent.losses = 0 /\ spent.expiries = 0 /\ spent.broken = {} /\ ~spent.evicted

(* Nothing is under way but timers.                                        *)
Quiet == net = {} /\ \A n \in Node : resolving[n] = {} /\ \A w \in waiting[n] : ~w.resumed

(* A lookup whose target can be reached is answered: when no frame was     *)
(* lost and no entry was evicted or expired, and nothing is under way any  *)
(* more, no lookup is still pending at its origin while a path of relays   *)
(* wide enough for it leads to its target. The target may have connected   *)
(* to a relay after the request had passed (replayPendingLookupsFor), a    *)
(* relay may have had to resolve it first (resolveAndForwardLookup), other *)
(* lookups for the same target may share the relays                        *)
(* (forwardLookupResponse), and frames may have overtaken each other.      *)
AnswersComeBack ==
    Quiet /\ Undisturbed =>
        \A n \in Node : \A t \in DOMAIN pending[n] :
            t \notin Within(n, pending[n][t].excluded, pending[n][t].minMtu)

(* The path MTU a node has learned for a route is one the route carries:   *)
(* the next hop forwards, and from it, not back over this node's link,     *)
(* relays with links at least that wide lead to the destination            *)
(* (handleOriginLookupResponse and forwardLookupResponse take the minimum  *)
(* on the way back). Where it fails, a datagram is sent down a path that   *)
(* cannot carry it.                                                        *)
PathMtuHolds ==
    spent.broken = {} => \A n \in Node : \A r \in learned[n] :
        /\ mesh.cap[{n, r.hop}] >= r.mtu
        /\ r.hop \in mesh.relays
        /\ Reaches(r.hop, n, r.mtu, r.dest)

(* The relays' tables keep their limits, and what they say of a path holds. *)
ForwardingInv == TypeOK /\ PathMtuHolds

(* A datagram is refused with 'no route' after a route was sought only if  *)
(* there is none: sendSessionDatagram and refreshTransitRoute give up at   *)
(* once only where no path of relays wide enough leads to the destination, *)
(* even when the lookup they waited for was begun for another datagram     *)
(* with a smaller frame. It compares past refusals with the links that are *)
(* up now: a link that connected after a refusal would make it false, and  *)
(* in the configurations checked none that matters does.                   *)
GivenUpRightly ==
    Undisturbed => \A f \in failed : f.why = "no way" =>
        f.data.dst \notin Within(f.node, f.prev, f.data.size)

(* No datagram vanishes: when nothing was lost and nothing is under way    *)
(* any more, every datagram that was sent has come to its destination, or  *)
(* its own sender has an error for it, or a node still seeks a route for   *)
(* it. No relay drops it, for want of hops (ttl), of a way on or of an     *)
(* answer in time (refreshTransitRoute), though each takes the next hop    *)
(* from a table that was filled by other lookups than its neighbours'      *)
(* (nextHopFor). This is a statement about the ten configurations, not     *)
(* about every mesh.                                                       *)
DatagramsArrive ==
    Quiet /\ Undisturbed =>
        \A d \in mesh.datagrams \ todo :
            \/ d \in arrived
            \/ \E f \in failed : f.data = d /\ f.node = d.src
            \/ \E n \in Node : \E w \in waiting[n] : w.data = d

(* Every lookup and every datagram that waits for one ends: the lookup is  *)
(* answered or meets its deadline, and refreshTransitRoute's callers go    *)
(* on, also those that joined a lookup for a smaller frame and must begin  *)
(* another. Timers that run out fire, and frames that are not lost are     *)
(* delivered.                                                              *)
WaitersSettle ==
    (\E n \in Node : waiting[n] # {} \/ pending[n] # <<>>)
        ~> (\A n \in Node : waiting[n] = {} /\ pending[n] = <<>>)

============================================================================
