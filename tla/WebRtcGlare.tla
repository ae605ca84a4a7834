---------------------------- MODULE WebRtcGlare ----------------------------
(***************************************************************************)
(* Two nodes negotiate a WebRTC connection with each other:                *)
(* packages/transport-webrtc/src/WebRtcTransport.ts with WebRtcDial.ts,    *)
(* WebRtcConnection.ts, WebRtcSignal.ts and WebRtcAutoConnectPolicy.ts.    *)
(*                                                                         *)
(* Nodes are numbered in the order of their x-only keys.  Either may dial  *)
(* the other, on request or because it was discovered, so offers cross;    *)
(* offer, answer and reject travel over the FIPS session, in order unless  *)
(* a fault makes one late, and may be lost or repeated.                    *)
(* A negotiation n has one RTCPeerConnection at each end, pcs[n][i].       *)
(*                                                                         *)
(* One peer is all a node knows here: the limits on the number of          *)
(* connections and the ranking of candidates never bind, and a peer is     *)
(* not blocked.  The wire time of signals (60 s) is longer than any dial.  *)
(***************************************************************************)
EXTENDS Naturals, Sequences, FiniteSets

CONSTANTS
    Settings,         \* the configurations that the two nodes may have been given
    MaxEvents         \* bound: dials of both nodes and faults, all together

\* calls: the application calls connect().  allowIncomingPeer: it is given, and asked.
Setting == [calls : BOOLEAN, autoConnect : BOOLEAN, acceptConnections : BOOLEAN, allowIncomingPeer : BOOLEAN]

ASSUME GlareAssumption ==
    /\ Settings \subseteq [{1, 2} -> Setting]
    /\ MaxEvents \in Nat

VARIABLES
    cfg,        \* cfg[i]: the configuration of node i, chosen once
    asked,      \* asked[i]: offers about which allowIncomingPeer of node i has not answered
    dials,      \* dials[i]: the pending dial of node i; its pendingConnects entry lives as long
    inbounds,   \* inbounds[i]: the pending inbound negotiation of node i
    conns,      \* conns[i]: the negotiation whose connection node i uses, 0 if none
    pcs,        \* pcs[n][i]: the RTCPeerConnection of negotiation n at node i
    initiator,  \* initiator[n]: the node that dialed, 0 for an unused negotiation
    answered,   \* negotiations whose answer was applied
    net,        \* net[i]: signals on their way to node i
    seen,       \* seen[i]: seenSessionIds
    auto,       \* auto[i]: the autoConnect state of node i
    stale,      \* stale[i]: the peer has restarted and node i does not know yet
    lostConns,  \* history: connections that left a node's map though they were up
    timedOut,   \* history: a dial or an inbound negotiation has timed out
    faults      \* history: faults so far

vars ==
    <<cfg, asked, dials, inbounds, conns, pcs, initiator, answered, net, seen, auto, stale,
      lostConns, timedOut, faults>>

Node == {1, 2}

FaultKind == {"lost", "late", "again", "down", "close", "refusal", "restart", "denied"}

Other(i) == 3 - i

Negotiation == 1 .. MaxEvents

\* orphan: an answer on its way whose RTCPeerConnection ended with the process that sent it.
Kind == {"offer", "answer", "reject", "orphan"}

Signal == [kind : Kind, id : Negotiation]

NoDial == [id |-> 0, phase |-> "none", wired |-> FALSE, rejected |-> 0, again |-> FALSE]

NoInbound == [id |-> 0, sent |-> FALSE, handoff |-> FALSE]

\* partitionByInitiator: of two nodes that accept connections only the lower identity dials a
\* discovered peer; a node that accepts none dials every one.
DialsDiscovered(i) == cfg[i].autoConnect /\ (cfg[i].acceptConnections => i < Other(i))

\* The peer's advert has been handled: it is queued for the node to dial.  It is published again
\* so seldom (half of its time to live) that this is left out.
\* timer: "soon", or "late" when it is due at the end of the cooldown.  proven: a connection of
\* the peer was up, so that peersWithTraffic may hold it.
Advertised(i) == [queued |-> DialsDiscovered(i), timer |-> "none", cooldown |-> "none", proven |-> FALSE]

Init ==
    /\ cfg \in Settings
    /\ asked = [i \in Node |-> {}]
    /\ dials = [i \in Node |-> NoDial]
    /\ inbounds = [i \in Node |-> NoInbound]
    /\ conns = [i \in Node |-> 0]
    /\ pcs = [n \in Negotiation |-> [i \in Node |-> "none"]]
    /\ initiator = [n \in Negotiation |-> 0]
    /\ answered = {}
    /\ net = [i \in Node |-> <<>>]
    /\ seen = [i \in Node |-> {}]
    /\ auto = [i \in Node |-> Advertised(i)]
    /\ stale = [i \in Node |-> FALSE]
    /\ lostConns = {}
    /\ timedOut = FALSE
    /\ faults = {}

Free == {n \in Negotiation : initiator[n] = 0}

\* Another dial or fault is within the bound.
Within == Cardinality(faults) < Cardinality(Free)

\* A fault of each kind happens once.
Fault(k) ==
    /\ k \notin faults
    /\ Within
    /\ faults' = faults \cup {k}
    /\ UNCHANGED timedOut

\* A signal of node i reaches the session of its peer; keys the peer no longer has are no use.
Sent(i, m) == IF stale[i] THEN net ELSE [net EXCEPT ![Other(i)] = Append(@, m)]

Closed(ps, n, i) == IF n = 0 THEN ps ELSE [ps EXCEPT ![n][i] = "closed"]

-----------------------------------------------------------------------------
(* Automatic connections                                                   *)

\* fillAutoConnectSlots queues the peer of node i unless something for it is there or under
\* way; a is the autoConnect state.
Filled(i, a, dial, inbound, conn) ==
    [a EXCEPT !.queued = \/ @
                         \/ /\ DialsDiscovered(i)
                            /\ conn = 0 /\ dial = NoDial /\ inbound = NoInbound
                            /\ a.cooldown = "none"]

\* scheduleAutoReconnect: a timer that runs is left alone.
Scheduled(i, a) ==
    [a EXCEPT !.queued = FALSE,
              !.timer = IF ~cfg[i].autoConnect \/ @ # "none" THEN @
                        ELSE IF a.cooldown = "none" THEN "soon" ELSE "late"]

\* handleAutoConnectFailure: a new cooldown, which a timer that runs does not know of.
FailedAuto(i, a, recovery) ==
    IF ~cfg[i].autoConnect THEN a
    ELSE Scheduled(i, [a EXCEPT !.cooldown = IF recovery THEN "recovery" ELSE "plain",
                                !.timer = IF @ = "none" THEN @ ELSE "soon"])

\* The finally of connect, for a dial that ended with the connection conn in the map.  (The
\* slots it fills are not for this peer: it has a connection, an inbound negotiation or a
\* cooldown.)
Finally(a, conn) == [a EXCEPT !.queued = @ /\ conn # 0]

\* connect was rejected with anything but IncomingOfferHandoff.
DialLost(i, a, recovery, conn) == Finally(FailedAuto(i, a, recovery), conn)

-----------------------------------------------------------------------------
(* connect and startInitiatorHandshake                                     *)

\* connect: the reservation made for a discovered peer is used up.
Dial(i) ==
    /\ conns[i] = 0
    /\ dials[i] = NoDial
    /\ Within
    /\ \E n \in Free :
       /\ \A k \in Free : n <= k
       /\ dials' = [dials EXCEPT ![i] = [NoDial EXCEPT !.id = n, !.phase = "preparing"]]
       /\ initiator' = [initiator EXCEPT ![n] = i]
       /\ pcs' = [pcs EXCEPT ![n][i] = "open"]
    /\ auto' = [auto EXCEPT ![i].queued = FALSE]
    /\ UNCHANGED <<cfg, asked, inbounds, conns, answered, net, seen, stale, lostConns, timedOut, faults>>

\* The application asks for the peer, or the node takes it from the discovery stream.
Connect(i) ==
    /\ cfg[i].calls \/ auto[i].queued
    /\ Dial(i)

\* It is connected already: the reservation ends.
ConnectAgain(i) ==
    /\ auto[i].queued
    /\ conns[i] # 0
    /\ auto' = [auto EXCEPT ![i].queued = FALSE]
    /\ UNCHANGED <<cfg, asked, dials, inbounds, conns, pcs, initiator, answered, net, seen, stale, lostConns, timedOut, faults>>

\* The offer is ready and goes out.  (A node that has just started opens a session first.)
SendOffer(i) ==
    /\ dials[i].phase = "preparing" \/ (dials[i].phase = "sending" /\ dials[i].again)
    /\ ~stale[Other(i)]
    /\ dials' = [dials EXCEPT ![i].phase = "sending", ![i].again = FALSE]
    /\ net' = Sent(i, [kind |-> "offer", id |-> dials[i].id])
    /\ UNCHANGED <<cfg, asked, inbounds, conns, pcs, initiator, answered, seen, auto, stale, lostConns, timedOut, faults>>

\* The write has settled; an answer may have come meanwhile.
OfferSent(i) ==
    /\ dials[i].phase \in {"sending", "answered"}
    /\ ~dials[i].wired \/ dials[i].phase = "sending"
    /\ dials[i].phase = "sending" => ~dials[i].again
    /\ dials' = [dials EXCEPT ![i].phase = IF @ = "sending" THEN "awaiting" ELSE @, ![i].wired = TRUE]
    /\ UNCHANGED <<cfg, asked, inbounds, conns, pcs, initiator, answered, net, seen, auto, stale, lostConns, timedOut, faults>>

\* An offer sent again is refused: the one before it still awaits its answer.
ResendFails(i) ==
    /\ dials[i].phase = "sending" /\ dials[i].wired
    /\ Fault("refusal")
    /\ dials' = [dials EXCEPT ![i].phase = "awaiting", ![i].again = FALSE]
    /\ UNCHANGED <<cfg, asked, inbounds, conns, pcs, initiator, answered, net, seen, auto, stale, lostConns>>

\* The pending dial of node i ends without a connection.
EndDial(i, recovery) ==
    /\ dials' = [dials EXCEPT ![i] = NoDial]
    /\ pcs' = Closed(pcs, dials[i].id, i)
    /\ auto' = [auto EXCEPT ![i] = DialLost(i, @, recovery, conns[i])]

\* The offer cannot be made or sent.
DialFails(i) ==
    /\ dials[i].phase = "preparing" \/ (dials[i].phase = "sending" /\ ~dials[i].wired)
    /\ Fault("refusal")
    /\ EndDial(i, dials[i].phase = "sending")
    /\ UNCHANGED <<cfg, asked, inbounds, conns, initiator, answered, net, seen, stale, lostConns>>

DialTimeout(i) ==
    /\ dials[i] # NoDial
    /\ timedOut' = TRUE
    /\ EndDial(i, FALSE)
    /\ UNCHANGED <<cfg, asked, faults, inbounds, conns, initiator, answered, net, seen, stale, lostConns>>

-----------------------------------------------------------------------------
(* handleIncomingSignal                                                    *)

\* What seenSessionIds keeps of a signal.
Key(m) == IF m.kind = "orphan" THEN [m EXCEPT !.kind = "answer"] ELSE m

\* The first signal on its way to node i is m; seenSessionIds gets it.
Receive(i, m) ==
    /\ net[i] # <<>> /\ m = Head(net[i])
    /\ seen' = [seen EXCEPT ![i] = @ \cup {Key(m)}]

\* isRetryOfRejectedOffer: the peer has given up the offer that lost, and ours is unanswered.
RetryOfRejected(dial, n) == dial.rejected \notin {0, n} /\ dial.phase = "awaiting"

\* both ends yield
YieldsAlways(i, n) == TRUE

\* Whether the pending dial of node i gives way to offer n.
Yields(i, n) == i > Other(i) \/ RetryOfRejected(dials[i], n)

\* seenSessionIds: a signal is handled once.
Duplicate(i, m) ==
    /\ Key(m) \in seen[i]
    /\ Receive(i, m)
    /\ net' = [net EXCEPT ![i] = Tail(@)]
    /\ UNCHANGED <<cfg, asked, dials, inbounds, conns, pcs, initiator, answered, auto, stale, lostConns, timedOut, faults>>

\* Node i takes the offer off the net and answers it with a reject.
Rejected(i, n) == [Sent(i, [kind |-> "reject", id |-> n]) EXCEPT ![i] = Tail(net[i])]

\* acceptConnections is off: only an offer that crosses a dial of the node's own is considered.
Unsolicited(i) == dials[i] = NoDial /\ ~cfg[i].acceptConnections

RejectUnsolicited(i, m) ==
    /\ Receive(i, m)
    /\ m.kind = "offer" /\ m \notin seen[i]
    /\ Unsolicited(i)
    /\ net' = Rejected(i, m.id)
    /\ UNCHANGED <<cfg, asked, dials, inbounds, conns, pcs, initiator, answered, auto, stale, lostConns, timedOut, faults>>

\* Offers that cross no dial are for allowIncomingPeer to judge, if there is one.
Asks(i) == dials[i] = NoDial /\ cfg[i].allowIncomingPeer

AskAboutOffer(i, m) ==
    /\ Receive(i, m)
    /\ m.kind = "offer" /\ m \notin seen[i]
    /\ ~Unsolicited(i) /\ Asks(i)
    /\ asked' = [asked EXCEPT ![i] = @ \cup {m.id}]
    /\ net' = [net EXCEPT ![i] = Tail(@)]
    /\ UNCHANGED <<cfg, dials, inbounds, conns, pcs, initiator, answered, auto, stale, lostConns, timedOut, faults>>

\* The peer is negotiating another offer already, or our dial goes first.
RejectOffer(i, m) ==
    /\ Receive(i, m)
    /\ m.kind = "offer" /\ m \notin seen[i]
    /\ ~Unsolicited(i) /\ ~Asks(i)
    /\ inbounds[i] # NoInbound \/ (dials[i] # NoDial /\ ~Yields(i, m.id))
    /\ dials' = IF inbounds[i] # NoInbound \/ dials[i].rejected # 0 THEN dials
                ELSE [dials EXCEPT ![i].rejected = m.id]
    /\ net' = Rejected(i, m.id)
    /\ UNCHANGED <<cfg, asked, inbounds, conns, pcs, initiator, answered, auto, stale, lostConns, timedOut, faults>>

\* The pending dial, if there is one, is handed off: no failure, no cooldown.
AcceptOffer(i, m) ==
    LET inbound == [id |-> m.id, sent |-> FALSE, handoff |-> dials[i] # NoDial] IN
    /\ Receive(i, m)
    /\ m.kind = "offer" /\ m \notin seen[i]
    /\ ~Unsolicited(i) /\ ~Asks(i)
    /\ inbounds[i] = NoInbound
    /\ dials[i] # NoDial => Yields(i, m.id)
    /\ inbounds' = [inbounds EXCEPT ![i] = inbound]
    /\ dials' = [dials EXCEPT ![i] = NoDial]
    /\ pcs' = [Closed(pcs, dials[i].id, i) EXCEPT ![m.id][i] = "open"]
    /\ auto' = [auto EXCEPT ![i] = IF dials[i] = NoDial THEN @ ELSE Finally(@, conns[i])]
    /\ net' = [net EXCEPT ![i] = Tail(@)]
    /\ UNCHANGED <<cfg, asked, conns, initiator, answered, stale, lostConns, timedOut, faults>>

\* allowIncomingPeer admits offer n.  A dial that the node began meanwhile is not looked at: the
\* offer has crossed none when it came.
Admit(i, n) ==
    /\ n \in asked[i]
    /\ inbounds[i] = NoInbound
    /\ asked' = [asked EXCEPT ![i] = @ \ {n}]
    /\ inbounds' = [inbounds EXCEPT ![i] = [id |-> n, sent |-> FALSE, handoff |-> FALSE]]
    /\ pcs' = [pcs EXCEPT ![n][i] = "open"]
    /\ UNCHANGED <<cfg, dials, conns, initiator, answered, net, seen, auto, stale, lostConns, timedOut, faults>>

\* The question about offer n ends with a reject.
TurnDown(i, n) ==
    /\ n \in asked[i]
    /\ asked' = [asked EXCEPT ![i] = @ \ {n}]
    /\ net' = Sent(i, [kind |-> "reject", id |-> n])
    /\ UNCHANGED <<cfg, dials, inbounds, conns, pcs, initiator, answered, seen, auto, stale, lostConns>>

\* It admits the offer, but another one of the peer has been accepted in the meantime.
AdmitTooLate(i, n) ==
    /\ inbounds[i] # NoInbound
    /\ TurnDown(i, n)
    /\ UNCHANGED <<timedOut, faults>>

Deny(i, n) ==
    /\ Fault("denied")
    /\ TurnDown(i, n)

\* allowIncomingPeer throws: the offer gets no reply.
AskingFails(i, n) ==
    /\ n \in asked[i]
    /\ Fault("refusal")
    /\ asked' = [asked EXCEPT ![i] = @ \ {n}]
    /\ UNCHANGED <<cfg, dials, inbounds, conns, pcs, initiator, answered, net, seen, auto, stale, lostConns>>

ReceiveAnswer(i, m) ==
    /\ Receive(i, m)
    /\ m.kind \in {"answer", "orphan"} /\ Key(m) \notin seen[i]
    /\ IF dials[i].id = m.id
       THEN /\ dials' = [dials EXCEPT ![i].phase = "answered"]
            /\ answered' = IF m.kind = "answer" THEN answered \cup {m.id} ELSE answered
       ELSE UNCHANGED <<dials, answered>>
    /\ net' = [net EXCEPT ![i] = Tail(@)]
    /\ UNCHANGED <<cfg, asked, inbounds, conns, pcs, initiator, auto, stale, lostConns, timedOut, faults>>

ReceiveReject(i, m) ==
    /\ Receive(i, m)
    /\ m.kind = "reject" /\ m \notin seen[i]
    /\ IF dials[i].id = m.id THEN EndDial(i, FALSE) ELSE UNCHANGED <<dials, pcs, auto>>
    /\ net' = [net EXCEPT ![i] = Tail(@)]
    /\ UNCHANGED <<cfg, asked, inbounds, conns, initiator, answered, stale, lostConns, timedOut, faults>>

-----------------------------------------------------------------------------
(* The rest of handleIncomingOffer                                         *)

SendAnswer(i) ==
    /\ inbounds[i] # NoInbound /\ ~inbounds[i].sent
    /\ ~stale[Other(i)]
    /\ inbounds' = [inbounds EXCEPT ![i].sent = TRUE]
    /\ net' = Sent(i, [kind |-> "answer", id |-> inbounds[i].id])
    /\ UNCHANGED <<cfg, asked, dials, conns, pcs, initiator, answered, seen, auto, stale, lostConns, timedOut, faults>>

\* a failed handoff is not followed up
EndInboundSilently(i) ==
    /\ inbounds' = [inbounds EXCEPT ![i] = NoInbound]
    /\ pcs' = Closed(pcs, inbounds[i].id, i)
    /\ UNCHANGED auto

\* The inbound negotiation fails; the dial it replaced is to be tried again.
EndInbound(i) ==
    /\ inbounds' = [inbounds EXCEPT ![i] = NoInbound]
    /\ pcs' = Closed(pcs, inbounds[i].id, i)
    /\ auto' = [auto EXCEPT ![i] = IF inbounds[i].handoff THEN Scheduled(i, @) ELSE @]

\* The answer cannot be made or, after its retries, sent.
AnswerFails(i) ==
    /\ inbounds[i] # NoInbound /\ ~inbounds[i].sent
    /\ Fault("refusal")
    /\ EndInbound(i)
    /\ UNCHANGED <<cfg, asked, dials, conns, initiator, answered, net, seen, stale, lostConns>>

InboundTimeout(i) ==
    /\ inbounds[i] # NoInbound
    /\ timedOut' = TRUE
    /\ EndInbound(i)
    /\ UNCHANGED <<cfg, asked, faults, dials, conns, initiator, answered, net, seen, stale, lostConns>>

-----------------------------------------------------------------------------
(* WebRtcConnection: what the two ends of a negotiation see                *)

\* Node i listens to its end of negotiation n.
Listens(i, n) ==
    \/ conns[i] = n
    \/ dials[i].id = n /\ dials[i].wired

\* The answering end listens from ondatachannel on, some time after its answer was applied.
MayListen(i, n) == inbounds[i].id = n /\ inbounds[i].sent

Live(n, i) == pcs[n][i] \in {"open", "up"}

\* The data channel is open and the peer ready, or the grace period over: the dialing end.
OutboundUp(i, n) ==
    /\ n \in answered /\ Live(n, 1) /\ Live(n, 2)
    /\ dials[i].id = n /\ dials[i].wired
    /\ conns' = [conns EXCEPT ![i] = n]
    /\ dials' = [dials EXCEPT ![i] = NoDial]
    /\ pcs' = [pcs EXCEPT ![n][i] = "up"]
    /\ lostConns' = IF conns[i] = 0 THEN lostConns ELSE lostConns \cup {<<i, conns[i]>>}
    /\ auto' = [auto EXCEPT ![i] = [Finally(@, n) EXCEPT !.proven = TRUE]]
    /\ UNCHANGED <<cfg, asked, inbounds, initiator, answered, net, seen, stale, timedOut, faults>>

\* the connection that the new one replaces is left open
SupersededLeftOpen(i, ps) == ps

\* The connection that the new one replaces is closed.
Superseded(i, ps) == Closed(ps, conns[i], i)

\* The answering end: it switches, and retires the connection it had.
InboundUp(i, n) ==
    /\ n \in answered /\ Live(n, 1) /\ Live(n, 2)
    /\ inbounds[i].id = n /\ inbounds[i].sent
    /\ conns' = [conns EXCEPT ![i] = n]
    /\ inbounds' = [inbounds EXCEPT ![i] = NoInbound]
    /\ pcs' = [Superseded(i, pcs) EXCEPT ![n][i] = "up"]
    /\ auto' = [auto EXCEPT ![i].proven = TRUE]
    /\ UNCHANGED <<cfg, asked, dials, initiator, answered, net, seen, stale, lostConns, timedOut, faults>>

\* "failed" or "disconnected" at an end that node i listens to.
DownAt(i, n) ==
    /\ pcs' = [pcs EXCEPT ![n][i] = "closed"]
    /\ IF initiator[n] # i /\ conns[i] \notin {0, n}
       THEN /\ inbounds' = [inbounds EXCEPT ![i] = NoInbound]
            /\ UNCHANGED <<dials, conns, auto, lostConns>>
       ELSE /\ conns' = [conns EXCEPT ![i] = 0]
            /\ lostConns' = IF conns[i] \in {0, n} THEN lostConns ELSE lostConns \cup {<<i, conns[i]>>}
            /\ inbounds' = IF inbounds[i].id = n THEN [inbounds EXCEPT ![i] = NoInbound] ELSE inbounds
            /\ dials' = IF dials[i].id = n THEN [dials EXCEPT ![i] = NoDial] ELSE dials
            /\ auto' = [auto EXCEPT ![i] = IF dials[i].id = n
                                           THEN DialLost(i, Scheduled(i, @), FALSE, 0)
                                           ELSE Scheduled(i, @)]

DownEvent(i, n) ==
    /\ \/ /\ Listens(i, n) \/ MayListen(i, n)
          /\ DownAt(i, n)
       \/ /\ ~Listens(i, n)
          /\ pcs' = [pcs EXCEPT ![n][i] = "closed"]
          /\ UNCHANGED <<dials, conns, inbounds, auto, lostConns>>
    /\ UNCHANGED <<cfg, asked, initiator, answered, net, seen, stale>>

\* The other end has closed.
PeerGone(i, n) ==
    /\ n \in answered /\ Live(n, i)
    /\ pcs[n][Other(i)] = "closed"
    /\ DownEvent(i, n)
    /\ UNCHANGED <<timedOut, faults>>

\* The path between the ends breaks.
PathBreaks(i, n) ==
    /\ n \in answered /\ Live(n, i)
    /\ pcs[n][Other(i)] # "closed"
    /\ Fault("down")
    /\ DownEvent(i, n)

-----------------------------------------------------------------------------
(* Timers, close, stop, and a session that is established again            *)

ReconnectTimer(i) ==
    /\ auto[i].timer = "soon" \/ (auto[i].timer = "late" /\ auto[i].cooldown = "none")
    /\ auto' = [auto EXCEPT ![i] = Filled(i, [@ EXCEPT !.timer = "none"], dials[i], inbounds[i], conns[i])]
    /\ UNCHANGED <<cfg, asked, dials, inbounds, conns, pcs, initiator, answered, net, seen, stale, lostConns, timedOut, faults>>

CooldownEnds(i) ==
    /\ auto[i].cooldown # "none"
    /\ auto' = [auto EXCEPT ![i].cooldown = "none"]
    /\ UNCHANGED <<cfg, asked, dials, inbounds, conns, pcs, initiator, answered, net, seen, stale, lostConns, timedOut, faults>>

\* close(): every dial, negotiation and connection of the peer.
Close(i) ==
    /\ Fault("close")
    /\ dials' = [dials EXCEPT ![i] = NoDial]
    /\ inbounds' = [inbounds EXCEPT ![i] = NoInbound]
    /\ conns' = [conns EXCEPT ![i] = 0]
    /\ pcs' = Closed(Closed(Closed(pcs, dials[i].id, i), inbounds[i].id, i), conns[i], i)
    /\ \E proven \in {FALSE, auto[i].proven} :
          LET a == [auto[i] EXCEPT !.proven = FALSE]
              b == IF proven \/ a.timer # "none" THEN Scheduled(i, a) ELSE FailedAuto(i, a, FALSE)
          IN auto' = [auto EXCEPT ![i] = IF dials[i] = NoDial THEN b ELSE DialLost(i, b, FALSE, 0)]
    /\ UNCHANGED <<cfg, asked, initiator, answered, net, seen, stale, lostConns>>

Orphaned(m) == IF m.kind = "answer" THEN [m EXCEPT !.kind = "orphan"] ELSE m

\* The process of node i ends, and starts again knowing nothing.  What is on its way to it is for
\* keys it no longer has; what it had sent still arrives.
Restart(i) ==
    /\ Fault("restart")
    /\ dials' = [dials EXCEPT ![i] = NoDial]
    /\ inbounds' = [inbounds EXCEPT ![i] = NoInbound]
    /\ conns' = [conns EXCEPT ![i] = 0]
    /\ pcs' = [n \in Negotiation |-> IF pcs[n][i] = "none" THEN pcs[n] ELSE [pcs[n] EXCEPT ![i] = "closed"]]
    /\ seen' = [seen EXCEPT ![i] = {}]
    /\ auto' = [auto EXCEPT ![i] = Advertised(i)]
    /\ net' = [net EXCEPT ![i] = <<>>, ![Other(i)] = [k \in DOMAIN @ |-> Orphaned(@[k])]]
    /\ asked' = [asked EXCEPT ![i] = {}]
    /\ stale' = [stale EXCEPT ![Other(i)] = TRUE, ![i] = FALSE]
    /\ UNCHANGED <<cfg, initiator, answered, lostConns>>

\* the offer is left to its deadline
ResentNever(dial) == dial

\* retryOffersAfterRestart for a dial: its offer goes out (again), or follows the one being sent.
Resent(dial) ==
    IF dial.phase \in {"sending", "awaiting"} THEN [dial EXCEPT !.phase = "sending", !.again = TRUE] ELSE dial

\* handleSessionEstablished with the peer's new epoch.
SessionEstablished(i) ==
    LET a == auto[i] IN
    /\ stale[i]
    /\ stale' = [stale EXCEPT ![i] = FALSE]
    /\ dials' = [dials EXCEPT ![i] = Resent(@)]
    /\ auto' = [auto EXCEPT ![i] = IF a.cooldown = "recovery"
                                   THEN Scheduled(i, [a EXCEPT !.cooldown = "none", !.timer = "none"]) ELSE a]
    /\ UNCHANGED <<cfg, asked, inbounds, conns, pcs, initiator, answered, net, seen, lostConns, timedOut, faults>>

Lose(i) ==
    /\ net[i] # <<>>
    /\ Fault("lost")
    /\ net' = [net EXCEPT ![i] = Tail(@)]
    /\ UNCHANGED <<cfg, asked, dials, inbounds, conns, pcs, initiator, answered, seen, auto, stale, lostConns>>

\* A signal is overtaken by the one sent after it.
Overtake(i) ==
    /\ Len(net[i]) >= 2
    /\ Fault("late")
    /\ net' = [net EXCEPT ![i] = <<@[2], @[1]>> \o SubSeq(@, 3, Len(@))]
    /\ UNCHANGED <<cfg, asked, dials, inbounds, conns, pcs, initiator, answered, seen, auto, stale, lostConns>>

\* A signal that was handled arrives a second time.
Repeat(i) ==
    /\ Fault("again")
    /\ \E m \in seen[i] : net' = [net EXCEPT ![i] = Append(@, m)]
    /\ UNCHANGED <<cfg, asked, dials, inbounds, conns, pcs, initiator, answered, seen, auto, stale, lostConns>>

Deliver(i) ==
    LET m == Head(net[i]) IN
    /\ net[i] # <<>>
    /\ \/ Duplicate(i, m) \/ RejectUnsolicited(i, m) \/ AskAboutOffer(i, m)
       \/ RejectOffer(i, m) \/ AcceptOffer(i, m)
       \/ ReceiveAnswer(i, m) \/ ReceiveReject(i, m)

Next ==
    \E i \in Node :
          \/ Deliver(i) \/ Lose(i) \/ Overtake(i) \/ Repeat(i)
          \/ Connect(i) \/ ConnectAgain(i) \/ SendOffer(i) \/ OfferSent(i)
          \/ ResendFails(i) \/ DialFails(i) \/ DialTimeout(i)
          \/ SendAnswer(i) \/ AnswerFails(i) \/ InboundTimeout(i)
          \/ \E n \in Negotiation : \/ Admit(i, n) \/ AdmitTooLate(i, n) \/ Deny(i, n) \/ AskingFails(i, n)
                                     \/ OutboundUp(i, n) \/ InboundUp(i, n)
                                     \/ PeerGone(i, n) \/ PathBreaks(i, n)
          \/ ReconnectTimer(i) \/ CooldownEnds(i)
          \/ Close(i) \/ Restart(i) \/ SessionEstablished(i)

Spec == Init /\ [][Next]_vars

\* What is begun goes on: writes settle, signals that are not lost arrive, allowIncomingPeer
\* answers, the two ends of an answered negotiation find each other or learn that the other is
\* gone, a discovered peer is dialed, the reconnect timer fires.  Nobody has to dial, and the
\* deadlines of dials and inbound negotiations are left to the properties that need them.
Proceeds(i) ==
    \/ Deliver(i)
    \/ SendOffer(i) \/ OfferSent(i) \/ SendAnswer(i)
    \/ auto[i].queued /\ (Connect(i) \/ ConnectAgain(i))
    \/ ReconnectTimer(i) \/ CooldownEnds(i) \/ SessionEstablished(i)
    \/ \E n \in Negotiation : \/ Admit(i, n) \/ AdmitTooLate(i, n)
                               \/ OutboundUp(i, n) \/ InboundUp(i, n) \/ PeerGone(i, n)

\* Nothing repeats without end, so that a node which keeps proceeding leaves no step out for good.
Fairness == \A i \in Node : WF_vars(Proceeds(i))

FairSpec == Spec /\ Fairness

-----------------------------------------------------------------------------
(* Properties                                                              *)

\* Every variable has its type; an inbound negotiation has its RTCPeerConnection, and one whose
\* answer is not sent yet an open one.  (It may outlive the RTCPeerConnection, and so may a dial:
\* nobody listens before the offer is sent, or before the data channel comes.)
TypeOK ==
    /\ dials \in [Node -> [id : 0 .. MaxEvents,
                           phase : {"none", "preparing", "sending", "awaiting", "answered"},
                           wired : BOOLEAN, rejected : 0 .. MaxEvents, again : BOOLEAN]]
    /\ inbounds \in [Node -> [id : 0 .. MaxEvents, sent : BOOLEAN, handoff : BOOLEAN]]
    /\ conns \in [Node -> 0 .. MaxEvents]
    /\ pcs \in [Negotiation -> [Node -> {"none", "open", "up", "closed"}]]
    /\ initiator \in [Negotiation -> 0 .. 2]
    /\ answered \subseteq Negotiation
    /\ net \in [Node -> Seq(Signal)]
    /\ seen \in [Node -> SUBSET Signal]
    /\ auto \in [Node -> [queued : BOOLEAN, timer : {"none", "soon", "late"},
                          cooldown : {"none", "plain", "recovery"}, proven : BOOLEAN]]
    /\ asked \in [Node -> SUBSET Negotiation]
    /\ stale \in [Node -> BOOLEAN]
    /\ faults \subseteq FaultKind
    /\ \A i \in Node : inbounds[i] # NoInbound =>
          pcs[inbounds[i].id][i] \in (IF inbounds[i].sent THEN {"open", "closed"} ELSE {"open"})

Quiet ==
    /\ net = [i \in Node |-> <<>>]
    /\ dials = [i \in Node |-> NoDial] /\ inbounds = [i \in Node |-> NoInbound]
    /\ asked = [i \in Node |-> {}]
    /\ \A n \in answered, i \in Node : Live(n, i) => Live(n, Other(i))

\* When nothing is under way the nodes use the same connection, or none: after crossed
\* dials, rejects that overtake offers, deadlines on one side only, restarts.  Not after a
\* connection was lost from the map of one end, which goes on dropping its packets.
BothEndsAgree == Quiet /\ lostConns = {} => conns[1] = conns[2]

\* An inbound negotiation has its peer connection, and at rest both nodes use the same
\* connection.
GlareInv == TypeOK /\ BothEndsAgree

NoFaults == faults = {} /\ ~timedOut

Met == conns[1] = conns[2] /\ conns[1] # 0

\* No node has dialed twice.
FirstDials == \A m, n \in Negotiation : m # n /\ initiator[m] = initiator[n] => initiator[m] = 0

\* Every node that was dialed has acceptConnections.
Welcome == \A n \in Negotiation : initiator[n] # 0 => cfg[Other(initiator[n])].acceptConnections

\* Without faults first dials between nodes that accept connections lead to a connection that
\* both use, though both may dial at the same time and each offer may meet the dial of its
\* receiver in any phase, or begin while allowIncomingPeer is asked about the other's (it says
\* no to none: that is a fault here).  A node without acceptConnections may dial one that has
\* it; it must not be dialed itself, as it rejects offers that cross no dial of its own.  (A node
\* that dials again after a reject, before it sees the offer that caused it, may yield to
\* that offer while its peer yields to the new one: both then wait for their deadlines.)
CrossedDialsMeet == [](NoFaults /\ FirstDials /\ Welcome) => (dials # [i \in Node |-> NoDial] ~> Met)

\* Restarts of the peer do not leave an offer without an answer, before its deadline, as long
\* as no write of a signal is refused.
OffersSurviveRestarts ==
    [](~timedOut /\ faults \subseteq {"restart"})
        => []<>(\A i \in Node : dials[i].phase # "awaiting")

Deadlines == \A i \in Node : WF_vars(DialTimeout(i) \/ InboundTimeout(i))

\* A discovered peer whose offer took the place of our dial is dialed again unless the
\* connection comes about: at the lower identity, where only the retry of a rejected offer takes
\* that place, and at a higher one without acceptConnections, which gives way to the first.
HandoffContinues ==
    Deadlines => \A i \in Node : DialsDiscovered(i) /\ inbounds[i].handoff
                                    ~> conns[i] # 0 \/ dials[i] # NoDial \/ auto[i].queued
=============================================================================
