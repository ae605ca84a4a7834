# A TLA+ verification of the FIPS TypeScript runtime

FIPS is an overlay network: every node has a key pair, its address is derived
from the public key, and nodes that share a carrier (WebSocket, WebRTC, ...)
forward each other's traffic. This directory holds TLA+ models of the runtime in
`packages/`, the TLC configurations that check them on small instances, and
TLAPS proofs of what matters most for instances of any size.

## The system

| part | state it keeps | operations | hard because |
|---|---|---|---|
| Replay window (`crypto/replay.ts`) | highest counter, one slot per residue | check, accept, reset | slots are reused and never pruned |
| FSP session object (`fsp/session.ts`) | Noise XK handshake, keys, counters, cached handshake frames | Setup, Ack, Msg3, encrypt, decrypt, close | frames are lost, repeated, reordered |
| FSP session manager (`node/FspSessionManager.ts`) | one record per remote: current, pending and draining session, K bit, early queue, set-up waiters; missing-session recoveries | ensureSession, incoming frames, rekey, restart, recovery, time-out, close, stop | both ends initiate; every await lets other handlers run; peers restart |
| FMP link (`fmp/link.ts`) and packet processor (`node/FmpTransportPacketProcessor.ts`) | hop-by-hop Noise IK links, staged responders, retired epochs, draining links | Msg1, Msg2, established frames, confirmation, reconciliation | handshakes cross on several carriers; mutable addresses; restarts |
| Node (`node/FipsNode.ts`) | peers by path, by key and by address, transports, block list | start, stop, connect, discovery, path removal, heartbeats | stop during start, dial or discovery |
| Lookup registry (`node/OriginLookupRegistry.ts`) | pending lookups by target and by request id | create, retry, complete, fail, stop | retries resume after awaits |
| Routing (`node/FipsRouting.ts`, `LearnedRouteTable.ts`, `TreeState.ts`, `BloomRouting.ts`) | coordinates, learned routes, reverse paths, filters | announcements, lookups, forwarding, transit refresh | stale announcements, loops, bounded tables |
| Direct FSP transport (`fsp/directTransport.ts`) | partial records | segment, ingest | interleaved fragments, eviction |
| Transports (`transport-websocket`, `transport-webrtc`, `-memory`, `-ethernet`) | sockets, peer connections, dials, timers | dial, accept, send, fail, reconnect, stop | callbacks after close, crossing offers |
| Codecs, identities, stores, receiver reports, demo | none that decides anything | | sequential |

The application calls `sendDatagram`; the session manager makes sure a session
exists (asking the router for a route, and the router asking the network), seals
a record and hands it to the router, which picks the next peer; the node seals it
again for that hop and the transport carries it. Incoming packets climb the same
ladder. Everything runs on one event loop: a handler is atomic up to its next
`await`, and after it anything may have happened. That is the granularity of the
actions here.

## Modules

| module | what it is |
|---|---|
| `ReplayWindow` | the window as pure operators (`Check`, `Accept`), used by the others |
| `ReplayHistory` | the abstract specification: what a replay window promises |
| `ReplayReceiver` | one receiver with the history of what it accepted; it implements `ReplayHistory`, for every size (proved in `DirectRecords_proofs`) |
| `DirectRecords`, `DirectRecords_proofs` | records cut, lost, reassembled and opened by that receiver; it implements `ReplayReceiver`, and so the promise; what it hands up is whole, what arrived is opened |
| `FspSessions`, `FspSessions_proofs` | the session manager over session objects: nodes, an unreliable network, restarts; types, keys, K bits, cutovers, lives and deliveries for any nodes |
| `OriginLookup`, `Routing_proofs` | the lookup registry, its retry loops and the two callers that share lookups; indexes, answers and requests for any callers and limits |
| `FmpPeers`, `FmpPeers_proofs` | adjacent peers: links, paths, staged responders, retired epochs, draining links; all its safety for any paths and environments |
| `NodeLifecycle`, `NodeLifecycle_proofs` | start, stop, block-list updates, connects and discovery at the grain of their awaits; all its safety for any calls, transports and failures |
| `SpanningTree`, `Routing_proofs` | tree announcements, client roles and reachability filters over links that come and go; all its safety for any mesh: ancestries and tables, and at rest the tree, the filters and the routes |
| `LookupForwarding`, `LookupForwarding_proofs` | lookups, answers, learned routes and datagrams through relays; tables, reverse paths and learned widths for any mesh |
| `WebSocketSeeds`, `WebSocketSeeds_proofs` | the WebSocket transport: sockets, key hints, receive chain, send queue, timers; all its safety for any seeds and limits |
| `WebRtcGlare`, `WebRtcGlare_proofs` | the WebRTC transport between two nodes: dials, offers, answers, rejects, hand-offs; its safety for any dials and faults |
| `MC...` | the modules TLC runs: model values, meshes, environments |

`DirectRecords` composes segmentation and reassembly with the session's replay
window by extending `ReplayReceiver`; the window's operators are also the ones
`FspSessions` decrypts with. `LookupForwarding` and `OriginLookup` look at one
protocol from two sides: the first has the relays and one lookup per target, the
second the registry at one origin with its retry loops and its callers at the grain of
their awaits, the network reduced to answers that may come at any time.

### FspSessions and the code

`sessions[n][m]` is the `Session` object in n's map for m: `fsp`, `pending`
(`pendingResponderFsp`) and `prev` (`previousFsp`) are `FspSession` objects, `k`
is `currentKBit`, `early` is `earlyEstablishedRecords`, `setup` says that somebody
awaits `setupPromise`, `known` that `remotePubkeyHex` is set. Absent objects are
records in state `"none"`. A handshake is named by the two ephemerals, which their
owners draw once, so "this frame decrypts" is an equality of names: the
cryptography is assumed, the bookkeeping around it is what is checked. `net` holds
every frame ever sent; receiving does not remove it, so each frame may arrive
never, late, twice or in any order, and a resend of cached bytes needs no action of
its own. `draining` is the local list of `drainEarlyEstablishedRecords`, which the
code walks one `await` at a time; a second drain that starts before the first has
ended is taken to follow it. `orphaned` marks callers that await the promise of a
record that a later Setup has replaced (line 514): only that record's own timer
releases them. `resolving` and `recovery` model `recoverMissingSession`, `ensuring`
the callers suspended in `ensureFirstContactRoute`.

The actions are the handlers: `EnsureSession`, `RouteFound`, `RouteFailed`,
`RejectSetup`, `RejectOrphan`, `CloseSession`, `RecvSetup`, `RecvAck`, `RecvMsg3`,
`SendRecord`, `RecvRecord`, `DrainEarly`, `PrunePrevious`, `RecvUnknown`,
`Resolved`, `Unresolved`, `RecoverySettles`, `BackoffExpires`, `Restart`. A step
that the code answers with an exception and no state change has no action.

Left out of `FspSessions`: a peer that claims an address it does not own and the
block list (the two ways to reach the `catch` of `handleSessionMsg3`), receiver
reports, traversal offers, the choice between direct and routed carriers, the byte
limit beside the record limit of the early queue, the cap of 64 recoveries.

### OriginLookup and the code

`lookups[c]` is the `PendingOriginLookup` object that call c created, `byTarget`
and `byRequest` are the two maps, `calls[c]` is how far the call is. The retry loop
of a lookup is `sending` (awaiting its sends), `sleeping` (in the race between its
timer and the promise) or `done`; `left` and `age` are the two timers, in units of
250 ms. `requests` holds every request ever sent: an answer to any of them may come
at any later time, from any path (`Respond`). A response that fails its checks is
dropped by the code and has no action. Request ids may be drawn again once their
lookup is gone, as the code allows. What a caller does with the route is not part
of this module, nor are the peers a request goes to.

### FmpPeers and the code

`nodes[n].peers[p]` is the `AdjacentPeer` that n keeps in `peers` for path p: `link`,
`pend` (`pendingResponderLink`) and `drain` (`drainingResponderLinks`) are `FmpLink`
objects, `hs` is how far `outgoingHandshake` is (Msg1 sent, keepalive being sent,
keepalive sent), `got` and `via` are what the closure of `confirmOutgoingHandshake`
remembers, `known` says that the peer's key is. `active` is the entry of
`peersByPubkey` and `peersByNodeAddr`, which the code always sets together; `Gone`
is an entry whose object was overwritten in `peers` by a new dial. `hist` is
`remoteEpochHistory`. As in `FspSessions`, `net` keeps everything ever sent, and an
index stands for the link's ephemeral too. An environment with `roaming` lets a handshake message arrive
on a path it was not sent on: a mutable address, or a captured copy.

The actions: `Connect` (connectAdjacentPeer), `HandshakeFails`, `Disconnect`
(onTransportConn with removePeerPath), `RecvMsg1`, `RecvMsg2`, `ConfirmSent`,
`SendFrame`, `RecvFrame`, `PendingExpires`, `DrainExpires`, `Restart` (stop and start
as one step). Where the code takes the first of several peers in the order of its
map, any of them is taken. Left out: a path whose remote identity changes, the block
list, direct FSP packets, and the sessions and routes that a removed path or a
restarted peer costs, which belong to other modules.

### DirectRecords and the code

`net` holds every packet sent; `entries` is the reassembler's map, keyed by counter
because there is one source. `Send` is `sendDirectFsp` with
`segmentDirectFspTransportRecord`, `Ingest` and `ReceiveWhole` are the two ways a
packet gets to the session, `Open` decrypts and drives the window. A record's bytes
are left out but their number is kept: counts, sizes and the record length are
those of the code's arithmetic over small numbers. Where the code drops the first
of several oldest entries in the order of its map, any of them is dropped. A
record put together from two records does not authenticate. The checks of a
fragment header that no sender of this code fails are left out.

### NodeLifecycle and the code

`starting` and `stopping` are the shared tasks of `startTransports` and
`stopTransports`, one step per `await`; `calls[c]` is where a caller of `start`,
`stop` or `setBlockedPeerPubkeys` is, `node` holds `desiredRunning`, `started`, the
heartbeat, `needsTransportCleanup`, `discoveryGeneration` and the deny set.
`dials[d]` is a `connectAdjacentPeer` (a connect or a discovered peer), `peers` and
`pending` are the two maps. A promise that settles is delivered to all its
waiters in the same step; when each goes on is open, except that the
continuations already queued run before the next transport event (`Prompt`).
`overlapped`, `orphaned` and `overruled` are history: a start that ran beside a
stop, a peer that an unwound start left behind, a stop after which somebody
called start. `Msg2Arrives` and `DialSucceeds` are the two sides of the awaited keepalive
that confirms a dial. A dial may begin while the policy is updated, as that of a
discovered peer does; the one key of the run is then denied, so this is for the
proofs. Left out: `pendingSends` (which stop awaits), services, listeners.

### WebSocketSeeds and the code

`seeds[s]` is the `SeedState`, `sockets[s][g]` the socket of generation g: events of
an earlier generation may come at any time. A message waits in the seed's
receive chain and is handled in two steps, before and after the `await` of
`binaryMessage`. Time is left out: a timer that is set may fire. `Kind` is what
`decodeLocalKeyHint` and `validateFipsRecord` make of a message. `told` and `got` are
what the node has been told of the connection and from whom the last record came.
Two things the application can do are left out: a `randomNonce` of its own that throws
or is not a nonce (`WebSocketTransport.ts:296`), which leaves an open socket with
neither timer, and a call of `connect` from within the callback that reports a
disconnection (`:429`), which dials before the reconnect timer is set.

### WebRtcGlare and the code

Two nodes numbered in the order of their keys. `dials`, `inbounds` and `conns` are
the three maps, `pcs[n][i]` the peer connection of negotiation n at node i, `auto`
the state of the automatic connector with its timer and cool-down. Signals travel
over the FIPS session in order; the faults of a behaviour (lost, late, repeated,
path down, close, refusal, denial, restart) are counted with the dials under one bound.
`cfg` is the configuration of each node: whether the application calls `connect`,
`autoConnect`, `acceptConnections` (off by default: an offer that crosses no dial of
the node is then rejected) and whether `allowIncomingPeer` is given. The last is
awaited, so an offer may be in `asked` while dials begin and other offers arrive; it is
then judged as one that crossed no dial. What a process had sent before it restarts
still arrives; an answer of it is an `orphan`, whose peer connection is gone.
`lostConns` and `timedOut` are history. Left out: capacity among several peers,
`resolve` and its waiters, the advert cache; a peer that is blocked.

### SpanningTree and the code

`tree[n]` and `known[n]` are `TreeState`'s own declaration and its `peers`; `adj[n]`
the established links with each peer's client role and incoming filter; `count[n]`
the sequences of filters and of client messages. The handlers of `FipsRouting`
(`handleTreeAnnounce`, client roles, filter announcements, peer added and removed)
are actions with the announcements they send; `owed` is the continuation of
`handleTreeAnnounce` that sends the filters after its `await`. A node is its address,
because the tree orders nodes by address; a Bloom filter is the set of its members,
so false positives are left out. Each end of a broken link notices on its own
(`Notice`); a restart begins with the first sequence number. `Establish` is less than the
code: both ends come up in one step, the two zero timers of `scheduleTreeAnnounce` fire
within it, and a new link that takes the place of a standing one, which forgets the
role and the filter of the peer (`FmpTransportPacketProcessor.ts:624-628`), is in
`FmpPeers` only.

### LookupForwarding and the code

A configuration (`mesh`) has endpoints, which are strict clients, relays, links with
capacities, and what its endpoints ask for and send. `pending` is the origin's
lookup, `reverse[n]` the reverse paths of a relay in their order of age,
`learned[n]` the routes with their path MTUs, `waiting[n]` the datagrams suspended in
`refreshTransitRoute` or `ensureFirstContactRoute`, `resolving[n]` the requests
suspended in `resolveAndForwardLookup`. Frames overtake each other and may be lost.
The weighted choice among live learned routes is any of them. Left out: the default
route, the limits on parallel resolutions, 16 lookup peers and four routes per destination (never
reached here); next hops from coordinates, which `SpanningTree` has.

## Runs

| run | shows | bounds and why | states |
|---|---|---|---|
| `direct_records` | `DirectInv`: the reassembler keeps its limit and hands up whole records only; `ArrivedIsOpened`: what arrived completely is opened; `KeepsPromise`: the refinement of `ReplayHistory` | window 2, counters to 3 (the ring turns, the reserved counter is reached), 3 records of three lengths, two MTUs, room for 2 reassemblies, 2 lives | 1.08 M |
| `fsp_lifecycle` | `TypeOK`; `KeysInOrder`; `KBitsAgreeUnlessDiscarded`; `NoDuplicateDelivery`; `AuthenticatedCutover`; `RemoteEpochNeverRollsBack`; `DeliveredFromAuthenticatedLife` | 2 nodes, 3 handshake objects each (initiate, rekey, answer a rekey), 1 restart or close, 1 failed set-up, an early queue of 1 | 0.99 M |
| `fsp_liveness` | `HandshakeConverges`, `SetupSettles` | both may initiate; no restart, since it may destroy what converged; more time-outs than sessions, so that the bound never stops a timer | 111 k |
| `fsp_setup_retry` | a violation of `KBitsAgree` | one set-up time-out is enough | |
| `lookup` | `RegistryOK` with the limit of pending lookups, `IndexesAgree`, `AnswerFitsCaller`, `RequestsAnswerable`, `CallersReleased` | 2 callers, 2 targets, room for 1 lookup, 2 ids, narrow and wide paths: sharing, refusal, starting again and reuse of an id all happen | 120 k |
| `fmp_restart` | `TypeOK` with the limit of staged responders, `NoRollback`, `DisplacedDrains` | 2 paths; either both dial with 1 restart and 1 failed handshake or disconnection, or one dials and handshake messages turn up on the other path; room for 1 staged responder | 652 k |
| `fmp_crossing` | `Converges` | 1 path, both dial, no faults; 8 links and 2 frames each, more than the handshakes need | 0.9 k |
| `node_lifecycle` | `LifecycleInv` (down after a stop, transports while running), `RevocationHolds`, `DeniedAtOnce`, `CallsReturn` | 2 transports, 2 starts, 1 stop, 1 update, 1 dial, 1 failing transport: start, stop, start and an update in every order | 507 k |
| `websocket_seeds` | `SeedInv` (no seed forgotten, nothing left after stop), `RecordsKeepPeer`, `CallsSettle` | 1 seed (seeds share nothing but the stop), 2 sockets, 3 identities, a queue of 2 for 3 records | 390 k |
| `webrtc_glare` | `GlareInv` (both ends hold the same connection at rest), `CrossedDialsMeet`, `OffersSurviveRestarts`, `HandoffContinues` | 2 nodes, one dials on request, one automatically, as the lower or the higher identity; both accept connections and one asks `allowIncomingPeer`, or the automatic one accepts none; 3 dials and faults together | 391 k |
| `spanning_tree` | `WellFormed`, `SettledRight` (tree, filters and routes of a mesh at rest), `Settles` | seven meshes of up to 4 nodes: the root is lost or found, rings that open and close, a line that heals, strict clients | 106 k |
| `lookup_forwarding` | `ForwardingInv` (tables within limits, learned MTUs hold), `AnswersComeBack`, `GivenUpRightly`, `DatagramsArrive`, `WaitersSettle` | ten meshes of up to 6 nodes, one per difficulty: late targets, resolution, wide frames, retries, loss, breaks, expiry, shared relays, full tables, joined lookups | 149 k |

Several properties are conjunctions of named parts (`DirectInv`, `KeysInOrder`,
`RegistryOK`, `LifecycleInv`, `SeedInv`, `RecordsKeepPeer`, `GlareInv`, `WellFormed`,
`SettledRight`, `ForwardingInv`); each part is stated and explained on its own where
it is defined. Deadlock is not checked: with its bounds used up, or with everything
idle, nothing has to happen.

Fairness. `FspSessions`: `ResendsArrive` (while an initiator still handshakes its Setup is
sent again, up to the deadline, and every copy is answered with the same Ack: one of
each gets through) and `DrainEarly` (a loop that is not blocked goes on). Msg3 is not
part of it: once the Ack has established the initiator nothing sends Setup or Msg3 again,
so a lost Msg3 stays lost. `HandshakeConverges` promises a key at one end from the
resends alone, and the same key at both under the premise `Msg3Arrives`, an assumption
about the carrier. Nor are the timers part of it: `SetupSettles`
states as its premise that they fire (`Deadlines`), `HandshakeConverges` that no
caller gives up. `OriginLookup`: time passes, the deadline's timer fires,
continuations run, and awaited sends settle (`SendSettles`). The last is an
assumption about other code: a transport whose `send` never settles would keep the
creator of a lookup waiting in its `finally`, deadline or not. `FmpPeers`: each
message of each link gets through (Msg1 is resent until answered, a repeated Msg1
is answered with the same Msg2), heartbeats follow one another, the send of the
confirming keepalive settles; the timer of a staged responder may fire or not.
`NodeLifecycle`: continuations run and transports settle their start, stop and dial
calls, either way. `WebSocketSeeds`: timers fire, the receive chain goes on, a socket
that is closing emits its close event, and the pump's timer makes progress now and
then, that is, `bufferedAmount` of a live socket does drain. `WebRtcGlare`: signals
that are not lost arrive, `allowIncomingPeer` answers, an answered negotiation whose two
ends live comes up, a restarted peer is noticed by its session, timers of the automatic
connector fire; the deadlines of dials are a premise of the one property that needs them.
`SpanningTree`: frames on standing links arrive and broken links are noticed
(heartbeats). `LookupForwarding`: frames that are not lost arrive, timers fire,
continuations run.

## What the runs found

`fsp_setup_retry`. If Msg3 is lost, the initiator is established while the
responder still handshakes. A sender at the responder then times out after 15
seconds, its session is discarded, and the retry that the change log promises
(`CHANGELOG.md:98-101`) starts a new session with K bit 0. The surviving end takes
it for a rekey and flips its own bit to 1. The two hold the same key under
different K bits and refuse each other's records; nothing in the code repairs it.

The following were met while modelling. The properties are stated so as to hold
beside them, each with the exception named in its comment.

Sessions and records
- Records that reach an initiator before its Ack are queued and never drained (only
  `handleSessionMsg3` drains). The branch of `handleEstablished` that promotes an
  established pending session is never taken (proved, `PendingUnfinished`).
- The reassembler's key is source and counter, and a restart of the peer does not
  clear it: a late fragment of the earlier life fits the entry of the new life's
  record of that counter. The result fails to authenticate and both are lost.
- A record that cannot be cut to the path has used its counter up.

Peers
- `CHANGELOG.md:42-45` says that a replacement carrier must decrypt a frame before it
  becomes active. A Msg1 that wins over an outgoing dial on its path is exempt:
  `reconcileAuthenticatedMsg1` indexes the path at once
  (`FmpTransportPacketProcessor.ts:321`), also when another path is established and
  healthy. A fresh Msg1 beside an established link that was not in use does the
  same, through the first lines of `stageUnconfirmedCarrier`.
- A Msg1 that is resent because its Msg2 is late reaches a responder link that is
  already in use. If another path is established, `stageUnconfirmedCarrier` takes the
  link for a new carrier: it becomes the pending responder, an empty link takes its
  place, and the index goes on naming the path, against the comment at
  `FipsNode.ts:622`. `selectCarrier` then sends on the other path; if no frame comes
  in time, the timer removes a path that worked. If the registry of staged responders
  is full as well, `PendingFmpResponders.set` removes that path at once (line 34) and
  what its peer sends on the link in use is lost. TLC shows it with three paths and one
  dialler; `DisplacedDrains` asks for `Room`.
- A responder that was staged for an earlier life may outlive every established link.
  `establishedRemoteEpoch` looks at established links only
  (`FmpTransportPacketProcessor.ts:769`), so a handshake of another life is then no
  restart, and the first frame on the staged link puts carriers of two lives side by
  side. When one of them disconnects, the other is in use, a life back or not. TLC
  shows it with two disconnections and a restart; `NoRollback` asks for `OneLife`.
- `rejectRetiredMsg2Peer` takes any established alternate (line 728), a dialled one that
  its remote has not confirmed included, where `removePeerPath` does not. A Msg1 that
  crosses that dial replaces the link without draining it. A behaviour of fifteen steps
  shows it; `DisplacedDrains` is about confirmed links.
- `NoRollback` is about lives a node has met. A delayed Msg1 of an earlier life that
  it never met counts as a restart, and the epoch of the real life, being in the
  history, is refused until the path drops. A Msg1 of a retired life on a fresh path
  leaves a closed responder link in `peers`, which answers no Msg1 any more, until
  the path drops or is dialled.

Node
- `start(); stop(); start()` on a running node without awaiting: the last start may
  begin while the stop is closing transports, and the node then counts as started
  with its transports closed. A second `stop()` called at that time joins the stop in
  progress (`FipsNode.ts:266-276`) and returns while the node is started, or about to
  be: its `desiredRunning = false` is seen by nobody once the start has passed its
  checks. The proof of `StoppedStaysDown` failed at this place; TLC shows the behaviour
  with two starts and two stops, and the property now names the exception.
- A peer that connected during a start that fails or is cancelled stays in `peers`:
  the stop finds nothing to clean up (`FipsNode.ts:281`), while `README.md:101-103`
  promises the opposite of interrupted starts.
- A transport that fails to close in the clean-up of a start is forgotten when a
  stop runs at the same time (`FipsNode.ts:333-336`).

WebRTC
- A pending dial that fails removes the peer's entry from `conns` without asking
  whether it is its own (`WebRtcTransport.ts:560`, `:566`): an established connection
  of another negotiation is dropped from the map and stays open, against
  `CHANGELOG.md:11` ("Preserve ... established carriers"). The inbound side asks.
- An answer may be applied before the write of its offer has settled; the connection
  of the dial is made only then (`:540`). A peer connection that fails in between has
  no listener, and the dial stays pending until its deadline.
- A node without `acceptConnections` considers an offer only beside a dial of its own
  (`:627`). Dialled, it rejects; if it is the lower identity its own dial goes first, if
  the higher it gives way. `CrossedDialsMeet` therefore asks that whoever was dialled
  accepts connections, and leaves out nodes that dialled twice.
- A dial that begins while `allowIncomingPeer` is asked is not the `competingDial` of
  that offer: both negotiations go on, and the later of the two connections takes the
  place of the other in the map. `CrossedDialsMeet` covers it.
- A node that dials again after a reject (`:647`) may yield to the offer that caused
  it while its peer yields to the new one; both then wait for their deadlines.
- A reconnect timer set before a cool-down may fire in it; nothing is scheduled until
  the next advert.

Routing
- When a strict client disconnects no filter is sent (`FipsRouting.ts:174-179`): its
  neighbours' peers keep it in the filters they were told.
- `sendTreeAnnounceToAll` ignores a send that fails, and nothing repeats it until the
  place changes.
- `LearnedRouteTable.recordFailure` has no caller: a learned next hop that leads
  nowhere is used until it expires after 300 s. In meshes with three or more relays in
  a cycle, routes learned at different times can send a datagram round until its hops
  are spent. `DatagramsArrive` asks that none is lost so while nothing is disturbed, and
  only in the ten meshes of the run.
- The table of reverse paths drops its oldest entry at the limit, whose answer then
  has no way back; the retry of the origin repairs it.

## Proofs

`DirectRecords_proofs`, first part: the window. The invariant is `SlotsTrackHistory`: every slot holds an
accepted counter of its residue and every accepted counter still in the window is
in its slot. The arithmetic core is that two counters less than WINDOW apart that
share a slot are equal. From it, `NeverReplayed` and `NeverFalselyRefused`, and
`WindowKeepsPromise`: under the mapping that forgets the slots, every step of the
receiver is a step of `ReplayHistory` or leaves it alone. All for every window size.

Second part: the records. `DirectDrivesWindow` shows that whatever the fragments do, the
window only sees receptions and resets, so that `DirectSpec` implements
`ReplayReceiver`; `DirectKeepsPromise` is the composition of the two refinements. The
proof needs no invariant of the reassembler, which is the point: the window is
safe against whatever reassembly hands up. `ReassemblyHolds` is about the reassembler
itself. That a complete entry is the whole record needs that a counter is used once
in a life and that a record has no more packets than each of them counts
(`RecordsOK`): an entry that holds as many distinct ones then holds all. `RoomIsMade`
shows that eviction keeps the limit, also when the fragment replaces an entry that
does not fit it.

Third part: `ArrivalsOpened`, that a record is opened once all its packets are there.
`Complete` compares the sum of the fragments' lengths with the length of the record, and
a sum over a set is a recursive function of it. The induction theorems of the library
cannot be used here; `MinimalSet` takes their place (a collection of subsets of a finite
set has a minimal member, from the well-foundedness of the naturals), and gives
`BytesAdd`: one more packet adds its length, in whatever order the sum is taken. With
`CountBounds`, the arithmetic of rounding up, `FragmentsWhole` then shows that cutting
leaves no byte out and sends none twice, for every length and MTU. The invariant is
`Arrivals`: every record was sent whole, and while nothing was dropped, each packet that
came is in the entry of its record unless the window is done with the counter (`Held`). A
repeated packet changes nothing because two packets of one record in the same place are
the same; one that comes after its record was completed starts an entry that stays
incomplete, which does no harm because `Done` is never undone in a life (`DoneStays`).

`FspSessions_proofs`. `TypeOK` alone is not inductive, and neither are the other
two: that the draining key differs from the current one needs that a pending
handshake was drawn after the current one, which needs that no record holds an
ephemeral its owner has not drawn. `SessionOK(s, drawn)` says all of it about one
record, each handler is shown to preserve it by a lemma of its own, and
`SessionStep` lifts that to the map. Results: `TypeCorrect`, `PendingUnfinished` and
`DrainingDistinguished`, together `KeysDistinguished`, for any set of nodes, any
bounds and any limit of the early queue.

The second invariant, `History`, is about what has happened. A record could be
delivered twice if two session objects that hold its key existed one after the
other (a window is lost with its object), and an old life could speak again if a
handshake of it could still complete. Both are excluded by ephemerals: one belongs to
a single life of its owner (`OneLife`), no frame or object names one that was not
drawn (`FramesOK`, `ObjectsOK`), and every object with a given ephemeral of its own is
the same one, further on. Therefore whatever was delivered is refused by every object
made with the same ephemeral, now and later (`DeliveredOK`), a waiting record is one
that was sent (`QueuesOK`), and a pending handshake is of no earlier life of the
remote than the session it will replace (`RenewalsOK`). The handlers reduce to a few
kinds of change (`Moves`: an object advances, is promoted, or is made with a new
ephemeral), and each part of `History` is preserved by every such change, so a handler
only has to show which change it makes. Deliveries rest on the replay window:
`WindowAdvances` shows that a counter once refused stays refused. Results:
`DeliveredOnce`, `CutoverAuthenticated`, `EpochsMoveForward`, `OldLivesSilenced`.

The third, `Bits`, is about the K bit while no live end has discarded a session. An
established end never starts a handshake (`ensureSession` reuses the session), so a
Msg3 that completes a pending handshake comes from an end that had nothing
authenticated before. Such an end has told the remote its epoch in no earlier Ack or
Msg3 of this life (`Silent`, `Told`), while the session the handshake renews holds an
epoch it was told: the two differ, `handleSessionMsg3` takes the restart branch, and
the bit goes back to FALSE at both ends. So without discards the bit never flips;
`fsp_setup_retry` shows that one discard is enough to break the agreement, as the
condition of `BitsAgreed` says.

`WebSocketSeeds_proofs`. `SeedInv` says that something will move a seed on; to
keep that, the invariant says what a seed without a socket has dropped (`Bare`), and
that the socket of a seed is the one of its last generation, with timers set for that
one and the announced peer at its far end (`Joined`): events of earlier sockets are
recognised by their generation and change nothing. `RecordsKeepPeer` needs in addition
that a queued record is meant for the peer its seed is connected to (`QueuesFit`) and
waits with one seed only (`QueuesDisjoint`). Results: `NoSeedForgotten`,
`RecordsStayWithPeer`.

`NodeLifecycle_proofs`. What a stop has to clean up depends on how far the two loops
over the transports are, so `OpenOK` says which transports may be open at each point
of either, `IdleOK` that nothing is left when neither runs. `StartsOK` says that a start
which a stop interrupted is void by its generation, `ContextsOK` that one still wanted
has the transports it has passed. `StopsOK` follows a stop from its call, and
`UpdateOK` an update from the moment its stop has ended. Results: `LifecycleHolds`,
`RevocationTakesEffect`, `DenialIsImmediate`; the exceptions are those named in the
properties. Each of these invariants was model-checked before it was proved.

`FmpPeers_proofs`. `NoRollback` compares the epoch of the link that comes into use with
a history, so the invariant `Inv` has to say where epochs come from: a link has the epoch
of its remote exactly when it is established (`LinkOK`), a handshake message of that life
and that index was sent (`Told`), and an index is named with one life only (`NetOK`,
`SentOK`), which needs that the links of a node have indexes of their own across all
paths (`StateOK`). From the last the epoch that `reconcileAuthenticatedMsg1` compares with
is that of the path in use (`KnownLife`), so that a Msg1 of another life is recognised. Every
handler works on one path and leaves a state that is `Good`, or `Near` while it is under
way: other paths as they were or removed, its own path with links it had or has just
drawn, the limit kept (`Fits`), no step back (`Forward`); and `Keeps` says that the link
in use is still held. Each handler has a lemma that says so, `StepOK` derives `Inv'` from
it once. Results: `TypeCorrect`, `NeverRolledBack`, `DisplacedKept`. Both action
properties turned out to be false as first stated, where the proof stopped; TLC confirmed
the cases listed above under Peers. That `DisplacedDrains` asks for `OneLife` as well is
for a history that forgets: a Msg1 of the life in use, on a carrier of another life, is
then taken for a restart. It takes more lives than the code's history of eight and was
not searched for.

`Routing_proofs`, first part: the registry. `IndexesAgree` needs `Targeted` (a loop that runs belongs to
a lookup with a target) to show that a loop which goes on is that of a pending
lookup. `AnswerFitsCaller` relates a caller to a lookup that may have been settled
long ago and is no longer in the registry, so the invariant follows it there: a
resolved lookup was answered for its target and its capacity (`AnswersOK`), a caller
waits on a lookup for its own target (`WaitersOK`), nothing is ever created twice
under one name (`CreatedOnce`). `RequestsFindable` proves the action property from
the same invariant.
`RegistryWithinLimit` adds the limit: a step that makes a lookup pending found room,
and every other step leaves no more of them pending.

Second part: the tree. `AnnouncementsWellFormed` rests on `TreeInv`. A node's place is
valid if the places its peers announced are: `Candidates` leaves out the paths that name
the node itself, and `ShouldRoot` those whose root is not lower, so that prefixing the
node to the best of the others repeats nobody and keeps the root lowest (`BelowValid`).
That `Best` is one of them needs that the sort has a first element, for which three least
numbers are taken one after the other (`FirstCandidate`; `LeastNumber` follows from the
well-foundedness of the naturals). An announcement in flight is valid because it was built
from a valid place, and stays usable because a frame travels only where both ends have an
`AdjacentPeer` (`EndsHeld`); `Forget` drops the frames between its two nodes along with
the peer and the path. `BecomeOK` says once what every handler leaves (`Left`).

Third part: the mesh at rest, `TreeSettlesRight`, and first its tree and its routes. The
invariant for them is `Telling`. A node's
place is always the one that follows from what it knows (`Placed`), and of every core peer
that a carrier joins it to, a node knows the present place, or the announcement of that
place is in flight and newer than what it knows (`Told`). Sequence numbers begin again
with a restart, so that this has to hold link by link: `Restart` takes the links down, and
a link comes back only when both ends have forgotten each other. A handler that changes
its node's place tells all its peers (`SpeakKeeps`); an announcement that was overtaken is
older than the place it is about (`Tells`). When nothing is in flight the places are then
a fixed point of `evaluateParent` (`AtRest`, from `QuietIsAtRest`), and the rest is about
graphs: every end of a path is the path of the node it begins with (`EndsOfPath`),
neighbours have one root (`RootsAgree`), and a node is at most one hop further from it
than a neighbour (`OneFurther`). So the root is the lowest node within reach and the path
to it a shortest one (`RestIsShortest`). For the routes, two paths that meet go on
together (`MeetOnce`), which makes `treeDistance` less than the number of nodes
(`DistanceFits`); a node has a neighbour that is nearer, down the other's path or up its
own (`NearerPeer`), the sort of `nextHop` has one first element (`FirstIsOne`), and the
datagram comes nearer with each hop (`WalkArrives`). `Ball` and `Walk` are recursive
functions; that they exist is shown by iterating a step (`Iterates`), by induction over a
set of numbers (`Climb`). A mesh is assumed to start at rest (`StartsAtRest`), which TLC
evaluates for the meshes of the run.

The filters need one invariant more, `Filtering`. On every link between core nodes the
receiver has the last filter that was sent to it, or that filter is in flight under a
number newer than all it has seen (`Delivers`). What a core node sent last is what
`outgoingFilterFor` gives for what it has now, up to clients that have left, or it owes its
filters and `SendFilters` will send them (`Current`): so each handler has to renew them
when something that feeds them changes, a place, a filter or a role, and may leave them
when nothing does (`CurrentNew`, `CurrentStill`). A client on a link is known for one, or
the next message of the exchange by which a peer learns it is in flight (`Asked`). A peer
on a new link feeds no filter yet because a node has its parent from an announcement
(`ParentKnown`). At rest a filter is then what the sender makes of the filters it has
itself, a system of equations over the links (`QuietFilters`). That it has only the right
solution is about the tree: a link of the tree has two sides (`Parted`), and what is on a
node's side of one link is what is on the far side of its other links of the tree and its
clients (`SideDivides`). `Rank` counts the directed links so that each depends on smaller
ones only (`RankLess`), and a filter of least rank that is wrong cannot exist
(`RestIsFiltered`).

`LookupForwarding_proofs`. The tables keep their types and limits (`Types`), and while no
link has broken what is said of a path is true (`Truthful`). A learned route comes from a
response or from a datagram, so the invariant follows both back: a response at a node says
the MTU of the path behind the link it came by (`FramesLead`), each relay on the way takes
the minimum with its own link (`BackMtu`), and a datagram that waits at a relay has come
from the neighbour it is noted under (`WaitersCame`). `Reaches` says that a path of relays
exists without counting its hops: a set of nodes that holds the hop's neighbours and is
closed under forwarding contains the destination. A datagram may travel further than the
lookup TTL, so a bound on the hops would be false. Prefixing one relay to a path then is
one step of set reasoning, and a link that comes up only adds ways. Result:
`ForwardingHolds`.

`WebRtcGlare_proofs`. That both ends agree at rest (`BothEndsAgree`) is a fact about what
each node has done with every `RTCPeerConnection` it ever made. `EndOK` says it node by
node: one that is open belongs to the pending dial or inbound negotiation, one that is up
to the connection in use unless `lostConns` has it (`PcsOK`), and the connection in use is
up and answered (`ConnOK`). At rest nothing is open, and what is live at one end is live
at the other, so the connection of one node is up, and used, at its peer. A step could
break this by accepting an offer a second time, or by a failure that reaches a responder
before its answer is sent and it listens. The first is kept out by `seenSessionIds`, which
a restart empties; the invariant therefore says what can still be on the way after one
(`SignalsOK`, `AnswersOK`): the offer of an answered negotiation only if it has been seen,
a new answer only from a node that has seen the offer; answers of a process that has
ended are told apart (`orphan`), since no peer connection stands behind them. An offer
in the hands of `allowIncomingPeer` has been seen and has no peer connection yet
(`AskedOK`), so that admitting it makes the first. The signals are sequences, of which
the proof uses the members alone. `EndsGivenUp` covers every way of giving something up
(deadline, reject, refusal, failure, close); `GlareHolds` is the result. It holds for
every `MaxEvents`, so for any number of dials, and every set of configurations; each kind of fault happens once, as in the
model.

The assumptions are those in the modules: sizes are positive naturals, the absent
value is no member of the sets it is added to.

Only model-checked: every liveness property (outside this prover's reach, as is
ENABLED), and `AnswersComeBack`, `GivenUpRightly` and `DatagramsArrive`, which ask that what could have been reached was reached, on the ten
meshes of the run (a link that connects later can make `GivenUpRightly` false in others).

## Not modelled

- Wire codecs, identities and key derivation, Noise itself: sequential functions of
  bytes with test vectors; the models assume what they provide (a frame opens under
  its key and no other).
- Receiver reports: statistics that no decision reads.
- Nostr discovery: relays and their events are outside the repository's control; what
  it delivers (a discovered peer) is an input of `NodeLifecycle` and `WebRtcGlare`.
- Memory and Ethernet transports: the first a queue for tests, the second a device
  driver's frame format over a bus of discovery beacons; neither negotiates.
- Peer cache and browser stores: input and output of saved records.
- The demo application and its test harness.

## What remains

1. The composition of `FmpPeers` with `FspSessions`: a restart that the link detects
   closes sessions; whether an initiator learns that its Msg3 was refused
   (`FspSessionManager.ts:528`).
2. WebRTC among three nodes, with `maxConnections` and preferred slots.
