---------------------------- MODULE FspSessions ----------------------------
(***************************************************************************)
(* The end-to-end session layer: node/FspSessionManager.ts (one session    *)
(* record per remote node) over fsp/session.ts (one Noise XK handshake and *)
(* the keys it yields).                                                    *)
(*                                                                         *)
(* A frame carries what authentication depends on.  An ephemeral is a      *)
(* number its owner draws once; a handshake is named by the initiator's    *)
(* and the responder's ephemerals, and a key by its initiator and that     *)
(* pair, so a frame opens exactly under the key that sealed it.  Carriers  *)
(* are unreliable: a frame sent stays in net and may be received never,    *)
(* late, out of order or repeatedly, which is also what resending the same *)
(* bytes (the Setup retry timer, the cached Ack and Msg3) amounts to.      *)
(*                                                                         *)
(* An absent FspSession or Session object is a record in state "none".     *)
(***************************************************************************)
EXTENDS ReplayWindow, Sequences, FiniteSets, Bags

CONSTANTS
    Node,          \* node addresses: compareNodeAddr is the order of the naturals
    MaxEarly,      \* MAX_EARLY_ESTABLISHED_RECORDS
    MaxEphemeral,  \* bound: handshake objects each node may create
    MaxTx,         \* bound: records encrypted under one key by one side
    MaxUpsets,     \* bound: restarts and sessions closed for want of a route, together
    MaxTimeouts    \* bound: session set-ups that fail

ASSUME FspAssumption ==
    /\ Node \subseteq Nat
    /\ MaxEarly \in Nat
    /\ MaxEphemeral \in Nat
    /\ MaxTx \in Nat
    /\ MaxTx <= Exhausted
    /\ MaxUpsets \in Nat
    /\ MaxTimeouts \in Nat

VARIABLES
    epoch,      \* epoch[n]: localEpoch; a restart changes it
    ephemerals, \* ephemerals[n]: how many ephemerals n has drawn
    sessions,   \* sessions[n][m]: n's Session record for m
    ensuring,   \* ensuring[n][m]: a caller of ensureSession awaits a first-contact route
    recovery,   \* recovery[n][m]: entry of missingSessionRecoveries
    resolving,  \* identity lookups in flight: <<node, remote, generation>>
    orphaned,   \* orphaned[n][m]: somebody awaits the setup of a record since replaced
    draining,   \* draining[n][m]: early records still to be handled after Msg3
    net,        \* every frame ever sent
    delivered,  \* history: bag of <<receiver, record>> given to the application
    faults      \* how many restarts, timeouts and closes happened (bounded)

vars == <<epoch, ephemerals, sessions, ensuring, recovery, resolving, orphaned,
          draining, net, delivered, faults>>

-----------------------------------------------------------------------------
(* FspSession objects and Session records.                                 *)

NoFsp == [role |-> "none", state |-> "none", e |-> 0, re |-> 0,
          remoteEpoch |-> 0, tx |-> 0, rx |-> EmptyWindow]

\* new FspSession, in the state its first handshake call leaves it
NewFsp(role, e, re) ==
    [role |-> role, state |-> "handshaking", e |-> e, re |-> re,
     remoteEpoch |-> 0, tx |-> 0, rx |-> EmptyWindow]

\* role "initiator" after buildSessionSetup
Initiator(e) == NewFsp("initiator", e, 0)

\* role "responder" after handleSessionSetup
Responder(e, re) == NewFsp("responder", e, re)

\* finalize(): the transport keys exist
Finalized(fsp, remoteEpoch) ==
    [fsp EXCEPT !.state = "established", !.remoteEpoch = remoteEpoch]

\* setup: somebody awaits setupPromise; known: remotePubkeyHex is set.
NewSession(fsp, setup, known) ==
    [fsp |-> fsp, k |-> FALSE, pending |-> NoFsp, prev |-> NoFsp, prevK |-> FALSE,
     early |-> <<>>, setup |-> setup, known |-> known]

NoSession == NewSession(NoFsp, FALSE, FALSE)

\* The key fsp, held by n for remote m, seals and opens with.
KeyOf(n, m, fsp) == IF fsp.role = "initiator" THEN <<n, fsp.e, fsp.re>>
                                             ELSE <<m, fsp.re, fsp.e>>

\* matchesSessionSetup
MatchesSetup(fsp, ei) == fsp.role = "responder" /\ fsp.re = ei

SetupFrame(n, m, ei) == [type |-> "setup", src |-> n, dst |-> m, ei |-> ei]

AckFrame(n, m, ei, er) ==
    [type |-> "ack", src |-> n, dst |-> m, ei |-> ei, er |-> er, epoch |-> epoch[n]]

Msg3Frame(n, m, ei, er) ==
    [type |-> "msg3", src |-> n, dst |-> m, ei |-> ei, er |-> er, epoch |-> epoch[n]]

\* One encrypted record.  Its epoch is history: which life of the sender sealed it.
Record(n, m, s) == [type |-> "data", src |-> n, dst |-> m,
                    key |-> KeyOf(n, m, s.fsp), k |-> s.k, ctr |-> s.fsp.tx,
                    epoch |-> epoch[n]]

Established(s) == s.fsp.state = "established"
Handshaking(s) == s.fsp.state = "handshaking"
Absent(s) == s.fsp.state = "none"

-----------------------------------------------------------------------------
Init ==
    /\ epoch = [n \in Node |-> 1]
    /\ ephemerals = [n \in Node |-> 0]
    /\ sessions = [n \in Node |-> [m \in Node |-> NoSession]]
    /\ ensuring = [n \in Node |-> [m \in Node |-> FALSE]]
    /\ recovery = [n \in Node |-> [m \in Node |-> "none"]]
    /\ resolving = {}
    /\ orphaned = [n \in Node |-> [m \in Node |-> FALSE]]
    /\ draining = [n \in Node |-> [m \in Node |-> <<>>]]
    /\ net = {}
    /\ delivered = EmptyBag
    /\ faults = [restarts |-> 0, timeouts |-> 0, closes |-> 0]

SetSession(n, m, s) == sessions' = [sessions EXCEPT ![n][m] = s]

-----------------------------------------------------------------------------
(* ensureSession                                                           *)

\* No session: register an initiator, share one setup promise, send Setup.
Initiate(n, m) ==
    LET e == ephemerals[n] + 1 IN
    /\ Absent(sessions[n][m])
    /\ ephemerals[n] < MaxEphemeral
    /\ ephemerals' = [ephemerals EXCEPT ![n] = e]
    /\ SetSession(n, m, NewSession(Initiator(e), TRUE, TRUE))
    /\ net' = net \cup {SetupFrame(n, m, e)}

\* A session is already being set up: wait on its (shared) setup promise.
Join(n, m) ==
    /\ Handshaking(sessions[n][m])
    /\ SetSession(n, m, [sessions[n][m] EXCEPT !.setup = TRUE])
    /\ UNCHANGED <<ephemerals, net>>

Reuse(n, m) ==
    /\ Established(sessions[n][m])
    /\ UNCHANGED <<ephemerals, sessions, net>>

\* The part of ensureSession that runs once the route is known to be usable.
JoinOrInitiate(n, m) == Reuse(n, m) \/ Join(n, m) \/ Initiate(n, m)

\* The call itself.  hasUsableRoute belongs to the router: either answer is possible.
Ensure(n, m) ==
    \/ /\ JoinOrInitiate(n, m)
       /\ UNCHANGED ensuring
    \/ /\ Absent(sessions[n][m])
       /\ ensuring' = [ensuring EXCEPT ![n][m] = TRUE]
       /\ UNCHANGED <<ephemerals, sessions, net>>

\* An application send needs a session.
EnsureSession(n, m) ==
    /\ ~Established(sessions[n][m])
    /\ Ensure(n, m)
    /\ UNCHANGED <<epoch, recovery, resolving, orphaned, draining, delivered,
                   faults>>

\* resume without looking at the session map again
ResumeBlindly(n, m) ==
    LET e == ephemerals[n] + 1 IN
    /\ ephemerals[n] < MaxEphemeral
    /\ ephemerals' = [ephemerals EXCEPT ![n] = e]
    /\ SetSession(n, m, NewSession(Initiator(e), TRUE, TRUE))
    /\ net' = net \cup {SetupFrame(n, m, e)}

Resume(n, m) == JoinOrInitiate(n, m)

\* ensureFirstContactRoute resolves: look the session up again, since the await
\* let incoming handshakes and other senders run.
RouteFound(n, m) ==
    /\ ensuring[n][m]
    /\ ensuring' = [ensuring EXCEPT ![n][m] = FALSE]
    /\ Resume(n, m)
    /\ UNCHANGED <<epoch, recovery, resolving, orphaned, draining, delivered,
                   faults>>

\* ensureFirstContactRoute rejects.
RouteFailed(n, m) ==
    /\ ensuring[n][m]
    /\ ensuring' = [ensuring EXCEPT ![n][m] = FALSE]
    /\ UNCHANGED <<epoch, ephemerals, sessions, recovery, resolving, orphaned,
                   draining, net, delivered, faults>>

\* The session and its three handshake objects are closed and forgotten.
Discard(n, m) ==
    /\ SetSession(n, m, NoSession)
    /\ draining' = [draining EXCEPT ![n][m] = <<>>]

\* only the caller that initiated has a deadline
RejectOwnSetup(n, m) ==
    /\ faults.timeouts < MaxTimeouts
    /\ sessions[n][m].setup
    /\ sessions[n][m].fsp.role = "initiator"
    /\ faults' = [faults EXCEPT !.timeouts = @ + 1]
    /\ Discard(n, m)
    /\ UNCHANGED <<epoch, ephemerals, ensuring, recovery, resolving, orphaned, net,
                   delivered>>

\* rejectSessionSetup: the 15 s setup timer fires, or sending Setup fails.
RejectSetup(n, m) ==
    /\ faults.timeouts < MaxTimeouts
    /\ sessions[n][m].setup
    /\ faults' = [faults EXCEPT !.timeouts = @ + 1]
    /\ Discard(n, m)
    /\ UNCHANGED <<epoch, ephemerals, ensuring, recovery, resolving, orphaned, net,
                   delivered>>

\* The setup timer of a replaced record fires: it is no longer the one in the map,
\* so its waiters are rejected and nothing is closed.  A recovery may be among them.
RejectOrphan(n, m) ==
    /\ orphaned[n][m]
    /\ orphaned' = [orphaned EXCEPT ![n][m] = FALSE]
    /\ \/ UNCHANGED recovery
       \/ /\ recovery[n][m] = "running"
          /\ <<n, m, epoch[n]>> \notin resolving
          /\ recovery' = [recovery EXCEPT ![n][m] = "backoff"]
    /\ UNCHANGED <<epoch, ephemerals, sessions, ensuring, resolving, draining, net,
                   delivered, faults>>

\* closePeerSessions: the last carrier is gone and no route is usable.  A responder
\* that has not authenticated its remote has no remotePubkeyHex to be found by.
CloseSession(n, m) ==
    /\ faults.restarts + faults.closes < MaxUpsets
    /\ sessions[n][m].known
    /\ faults' = [faults EXCEPT !.closes = @ + 1]
    /\ Discard(n, m)
    /\ UNCHANGED <<epoch, ephemerals, ensuring, recovery, resolving, orphaned, net,
                   delivered>>

-----------------------------------------------------------------------------
(* Incoming handshake frames                                               *)

\* The session handleSessionSetup leaves at n for a Setup it does not already know;
\* fresh is the ephemeral of the responder it would create.
AfterSetup(n, m, ei, fresh) ==
    LET s == sessions[n][m] IN
    IF Established(s) THEN [s EXCEPT !.pending = Responder(fresh, ei)]
    ELSE IF Handshaking(s) /\ s.fsp.role = "initiator"
         THEN [s EXCEPT !.fsp = Responder(fresh, ei)]
         ELSE NewSession(Responder(fresh, ei), FALSE, FALSE)

\* The record AfterSetup replaces by another still has waiters.
Orphans(s) == Handshaking(s) /\ s.fsp.role = "responder" /\ s.setup

\* both ends give way
NobodyWins(n, m) == FALSE

\* The lower address keeps its own handshake when both initiate.
LocalInitiatorWins(n, m) ==
    /\ Handshaking(sessions[n][m])
    /\ sessions[n][m].fsp.role = "initiator"
    /\ n < m

\* handleSessionSetup.  A Setup that matches the pending or the current responder
\* only repeats the Ack, which net still holds.
RecvSetup(n, f) ==
    LET m == f.src
        fresh == ephemerals[n] + 1 IN
    /\ f.type = "setup" /\ f.dst = n
    /\ ~MatchesSetup(sessions[n][m].pending, f.ei)
    /\ ~MatchesSetup(sessions[n][m].fsp, f.ei)
    /\ ~LocalInitiatorWins(n, m)
    /\ ephemerals[n] < MaxEphemeral
    /\ ephemerals' = [ephemerals EXCEPT ![n] = fresh]
    /\ SetSession(n, m, AfterSetup(n, m, f.ei, fresh))
    /\ orphaned' = [orphaned EXCEPT ![n][m] = @ \/ Orphans(sessions[n][m])]
    /\ net' = net \cup {AckFrame(n, m, f.ei, fresh)}
    /\ UNCHANGED <<epoch, ensuring, recovery, resolving, draining, delivered, faults>>

\* handleSessionAck: only the initiator that sent this Setup can read it, once.
\* A repeated Ack only repeats Msg3, which net still holds.
RecvAck(n, f) ==
    LET m == f.src
        s == sessions[n][m] IN
    /\ f.type = "ack" /\ f.dst = n
    /\ s.fsp.role = "initiator"
    /\ Handshaking(s)
    /\ s.fsp.e = f.ei
    /\ SetSession(n, m, [s EXCEPT !.fsp = Finalized([s.fsp EXCEPT !.re = f.er], f.epoch),
                                  !.setup = FALSE])
    /\ net' = net \cup {Msg3Frame(n, m, f.ei, f.er)}
    /\ UNCHANGED <<epoch, ephemerals, ensuring, recovery, resolving, orphaned,
                   draining, delivered, faults>>

\* the old key drains under the new key's epoch bit
PromoteSameBit(s, fsp, k) ==
    [s EXCEPT !.prev = s.fsp, !.prevK = k, !.fsp = fsp, !.k = k, !.pending = NoFsp]

\* promotePendingSession: the old key drains behind the new one.
PromotePending(s, fsp, k) ==
    [s EXCEPT !.prev = s.fsp, !.prevK = s.k, !.fsp = fsp, !.k = k, !.pending = NoFsp]

\* a restart treated like any other rekey
ReplaceAsRekey(s, fsp) == PromotePending(s, fsp, ~s.k)

\* replaceRestartedSession: the remote process is new, nothing drains.
ReplaceRestarted(s, fsp) ==
    [s EXCEPT !.fsp = fsp, !.k = FALSE, !.pending = NoFsp, !.prev = NoFsp,
              !.prevK = FALSE]

\* The responder handshake a Msg3 is read with.
HandshakeFsp(s) == IF s.pending.state # "none" THEN s.pending ELSE s.fsp

\* The session after handleSessionMsg3 read the final message with HandshakeFsp.
AfterMsg3(s, remoteEpoch) ==
    LET fsp == Finalized(HandshakeFsp(s), remoteEpoch) IN
    IF s.pending.state = "none" THEN [s EXCEPT !.fsp = fsp]
    ELSE IF s.fsp.remoteEpoch # 0 /\ s.fsp.remoteEpoch # remoteEpoch
         THEN ReplaceRestarted(s, fsp)
         ELSE PromotePending(s, fsp, ~s.k)

\* only the Setup it answers is compared, not the whole transcript
MatchesMsg3Loosely(h, f) == h.role = "responder" /\ h.re = f.ei

\* The Noise transcript of h is the one this Msg3 was written under.
MatchesMsg3(h, f) == h.role = "responder" /\ h.re = f.ei /\ h.e = f.er

\* handleSessionMsg3: authenticated by the handshake it completes, or byte-equal
\* to the one that completed it.  Waiters are released and the early records
\* taken for draining.
RecvMsg3(n, f) ==
    LET m == f.src
        s == sessions[n][m]
        h == HandshakeFsp(s) IN
    /\ f.type = "msg3" /\ f.dst = n
    /\ ~Absent(s)
    /\ MatchesMsg3(h, f)
    /\ SetSession(n, m, [(IF h.state = "established" THEN s ELSE AfterMsg3(s, f.epoch))
                            EXCEPT !.setup = FALSE, !.early = <<>>, !.known = TRUE])
    /\ draining' = [draining EXCEPT ![n][m] = @ \o s.early]
    /\ UNCHANGED <<epoch, ephemerals, ensuring, recovery, resolving, orphaned, net,
                   delivered, faults>>

-----------------------------------------------------------------------------
(* Records: encryptMessage, decryptIncoming, handleEstablished             *)

\* sendSessionMessage: the key and its K bit are read together, after routing.
SendRecord(n, m) ==
    LET s == sessions[n][m] IN
    /\ Established(s)
    /\ s.fsp.tx < MaxTx
    /\ net' = net \cup {Record(n, m, s)}
    /\ SetSession(n, m, [s EXCEPT !.fsp.tx = @ + 1])
    /\ UNCHANGED <<epoch, ephemerals, ensuring, recovery, resolving, orphaned,
                   draining, delivered, faults>>

\* Which of the session's keys handleEstablished tries on a record: by state first,
\* then by the record's K bit.
Selects(s, f) ==
    IF Handshaking(s) THEN "early"
    ELSE IF f.k = s.k THEN "fsp"
    ELSE IF s.pending.state = "established" THEN "pending"
    ELSE IF s.pending.state = "handshaking" THEN "early"
    ELSE IF s.prev.state # "none" /\ s.prevK = f.k THEN "prev"
    ELSE "none"

\* the replay window is not consulted
OpensReplayed(n, m, fsp, f) == fsp.state = "established" /\ KeyOf(n, m, fsp) = f.key

\* decryptIncoming: the replay window admits the counter and the key opens it.
Opens(n, m, fsp, f) ==
    /\ fsp.state = "established"
    /\ KeyOf(n, m, fsp) = f.key
    /\ Check(fsp.rx, f.ctr)

Recorded(fsp, f) == [fsp EXCEPT !.rx = Accept(@, f.ctr)]

\* the limit is forgotten
QueueEarlyUnbounded(s, f) == [s EXCEPT !.early = Append(@, f)]

\* queueEarlyEstablishedRecord: a full queue refuses the record.
QueueEarly(s, f) ==
    IF Len(s.early) < MaxEarly THEN [s EXCEPT !.early = Append(@, f)] ELSE s

\* handleEstablished on the session record s: whether the record is delivered ...
Delivers(n, m, s, f) ==
    CASE Selects(s, f) = "fsp"     -> Opens(n, m, s.fsp, f)
      [] Selects(s, f) = "pending" -> Opens(n, m, s.pending, f)
      [] Selects(s, f) = "prev"    -> Opens(n, m, s.prev, f)
      [] OTHER                     -> FALSE

\* ... and the session record afterwards.
AfterRecord(n, m, s, f) ==
    CASE Selects(s, f) = "early" -> QueueEarly(s, f)
      [] Selects(s, f) = "fsp" /\ Delivers(n, m, s, f) ->
            [s EXCEPT !.fsp = Recorded(@, f)]
      [] Selects(s, f) = "pending" /\ Delivers(n, m, s, f) ->
            PromotePending(s, Recorded(s.pending, f), f.k)
      [] Selects(s, f) = "prev" /\ Delivers(n, m, s, f) ->
            [s EXCEPT !.prev = Recorded(@, f)]
      [] OTHER -> s

HandleRecord(n, m, f) ==
    LET s == sessions[n][m] IN
    /\ SetSession(n, m, AfterRecord(n, m, s, f))
    /\ delivered' = IF Delivers(n, m, s, f) THEN delivered (+) SetToBag({<<n, f>>})
                                            ELSE delivered

\* handleFromPeer, phase established, for a known session.
RecvRecord(n, f) ==
    /\ f.type = "data" /\ f.dst = n
    /\ ~Absent(sessions[n][f.src])
    /\ HandleRecord(n, f.src, f)
    /\ UNCHANGED <<epoch, ephemerals, ensuring, recovery, resolving, orphaned,
                   draining, net, faults>>

\* drainEarlyEstablishedRecords handles one record per turn of its loop; the awaits
\* between the turns let every other handler run.
DrainEarly(n, m) ==
    /\ draining[n][m] # <<>>
    /\ HandleRecord(n, m, Head(draining[n][m]))
    /\ draining' = [draining EXCEPT ![n][m] = Tail(@)]
    /\ UNCHANGED <<epoch, ephemerals, ensuring, recovery, resolving, orphaned, net,
                   faults>>

\* prunePreviousFsp: FSP_REKEY_DRAIN_MS after the cutover the old key is closed.
PrunePrevious(n, m) ==
    /\ sessions[n][m].prev.state # "none"
    /\ SetSession(n, m, [sessions[n][m] EXCEPT !.prev = NoFsp, !.prevK = FALSE])
    /\ UNCHANGED <<epoch, ephemerals, ensuring, recovery, resolving, orphaned,
                   draining, net, delivered, faults>>

-----------------------------------------------------------------------------
(* recoverMissingSession                                                   *)

\* A record for which no session exists: the sender holds keys from before our
\* restart.  One lookup of its identity at a time.
RecvUnknown(n, f) ==
    /\ f.type = "data" /\ f.dst = n
    /\ Absent(sessions[n][f.src])
    /\ recovery[n][f.src] = "none"
    /\ recovery' = [recovery EXCEPT ![n][f.src] = "running"]
    /\ resolving' = resolving \cup {<<n, f.src, epoch[n]>>}
    /\ UNCHANGED <<epoch, ephemerals, sessions, ensuring, orphaned, draining, net,
                   delivered, faults>>

\* recoveryGeneration moves with every stop, as localEpoch does with every start.
CurrentGeneration(t) == t[3] = epoch[t[1]]

\* resolveIdentity succeeds: a lookup from before a stop does nothing.
Resolved(t) ==
    /\ resolving' = resolving \ {t}
    /\ IF CurrentGeneration(t) THEN Ensure(t[1], t[2])
                               ELSE UNCHANGED <<ephemerals, sessions, ensuring, net>>
    /\ UNCHANGED <<epoch, recovery, orphaned, draining, delivered, faults>>

\* resolveIdentity fails, or is aborted: retry no sooner than MISSING_SESSION_RETRY_MS.
Unresolved(t) ==
    /\ resolving' = resolving \ {t}
    /\ recovery' = IF CurrentGeneration(t)
                   THEN [recovery EXCEPT ![t[1]][t[2]] = "backoff"] ELSE recovery
    /\ UNCHANGED <<epoch, ephemerals, sessions, ensuring, orphaned, draining, net,
                   delivered, faults>>

\* The ensureSession of a recovery returns or throws.
RecoverySettles(n, m) ==
    /\ recovery[n][m] = "running"
    /\ <<n, m, epoch[n]>> \notin resolving
    /\ ~ensuring[n][m]
    /\ ~sessions[n][m].setup
    /\ recovery' = [recovery EXCEPT ![n][m] = IF Established(sessions[n][m])
                                              THEN "none" ELSE "backoff"]
    /\ UNCHANGED <<epoch, ephemerals, sessions, ensuring, resolving, orphaned,
                   draining, net, delivered, faults>>

\* expiresAtMs passes: the next missing-session record may start a lookup.
BackoffExpires(n, m) ==
    /\ recovery[n][m] = "backoff"
    /\ recovery' = [recovery EXCEPT ![n][m] = "none"]
    /\ UNCHANGED <<epoch, ephemerals, sessions, ensuring, resolving, orphaned,
                   draining, net, delivered, faults>>

-----------------------------------------------------------------------------
\* The process, or the node object, stops and starts again: stop() closes every
\* session and clears the recoveries, start() runs under a new epoch.
Restart(n) ==
    /\ faults.restarts + faults.closes < MaxUpsets
    /\ faults' = [faults EXCEPT !.restarts = @ + 1]
    /\ epoch' = [epoch EXCEPT ![n] = @ + 1]
    /\ sessions' = [sessions EXCEPT ![n] = [m \in Node |-> NoSession]]
    /\ ensuring' = [ensuring EXCEPT ![n] = [m \in Node |-> FALSE]]
    /\ recovery' = [recovery EXCEPT ![n] = [m \in Node |-> "none"]]
    /\ draining' = [draining EXCEPT ![n] = [m \in Node |-> <<>>]]
    /\ UNCHANGED <<ephemerals, resolving, orphaned, net, delivered>>

RecvHandshake(n, f) == RecvSetup(n, f) \/ RecvAck(n, f) \/ RecvMsg3(n, f)

Receive(n) ==
    \E f \in net : RecvHandshake(n, f) \/ RecvRecord(n, f) \/ RecvUnknown(n, f)

Next ==
    \/ \E n \in Node :
          \/ Receive(n)
          \/ Restart(n)
    \/ \E n \in Node : \E m \in Node \ {n} :
          \/ EnsureSession(n, m) \/ RouteFound(n, m) \/ RouteFailed(n, m)
          \/ RejectSetup(n, m) \/ RejectOrphan(n, m) \/ CloseSession(n, m)
          \/ SendRecord(n, m) \/ DrainEarly(n, m) \/ PrunePrevious(n, m)
          \/ RecoverySettles(n, m) \/ BackoffExpires(n, m)
    \/ \E t \in resolving : Resolved(t) \/ Unresolved(t)

Spec == Init /\ [][Next]_vars

\* stillInitiating: the retry timer of n goes on sending its Setup to m.
StillInitiating(n, m) == Handshaking(sessions[n][m]) /\ sessions[n][m].fsp.role = "initiator"

\* A Setup that is sent again and again arrives in the end, and so does the Ack that answers
\* every copy of it.
ResendsArrive(n, m) ==
    /\ StillInitiating(n, m)
    /\ \E f \in net :
        \/ RecvSetup(m, f) /\ f.src = n /\ f.ei = sessions[n][m].fsp.e
        \/ RecvAck(n, f) /\ f.src = m

\* What the code earns by sending again, and its loop over the early records.  Nobody sends a
\* Msg3 again: the Ack that causes it ends the resends of Setup.
Fairness ==
    \A n \in Node : \A m \in Node \ {n} :
        WF_vars(ResendsArrive(n, m)) /\ WF_vars(DrainEarly(n, m))

FairSpec == Spec /\ Fairness

-----------------------------------------------------------------------------
(* Properties                                                              *)

Fsp == [role : {"none", "initiator", "responder"},
        state : {"none", "handshaking", "established"},
        e : Nat, re : Nat, remoteEpoch : Nat, tx : 0 .. MaxTx, rx : Window]

DataFrame == [type : {"data"}, src : Node, dst : Node, key : Node \X Nat \X Nat,
              k : BOOLEAN, ctr : 0 .. MaxTx, epoch : Nat]

Frame == [type : {"setup"}, src : Node, dst : Node, ei : Nat]
         \cup [type : {"ack", "msg3"}, src : Node, dst : Node, ei : Nat, er : Nat,
               epoch : Nat]
         \cup DataFrame

Session == [fsp : Fsp, k : BOOLEAN, pending : Fsp, prev : Fsp, prevK : BOOLEAN,
            early : Seq(DataFrame), setup : BOOLEAN, known : BOOLEAN]

\* Every variable has its type, and the early queue respects its bound.
TypeOK ==
    /\ epoch \in [Node -> Nat]
    /\ ephemerals \in [Node -> 0 .. MaxEphemeral]
    /\ sessions \in [Node -> [Node -> Session]]
    /\ \A n, m \in Node : Len(sessions[n][m].early) <= MaxEarly
    /\ ensuring \in [Node -> [Node -> BOOLEAN]]
    /\ recovery \in [Node -> [Node -> {"none", "running", "backoff"}]]
    /\ resolving \subseteq Node \X Node \X Nat
    /\ orphaned \in [Node -> [Node -> BOOLEAN]]
    /\ draining \in [Node -> [Node -> Seq(DataFrame)]]
    /\ net \subseteq Frame

SameKey(n, m) ==
    KeyOf(n, m, sessions[n][m].fsp) = KeyOf(m, n, sessions[m][n].fsp)

\* Both ends send under one key.
BothCurrent(n, m) ==
    /\ Established(sessions[n][m])
    /\ Established(sessions[m][n])
    /\ SameKey(n, m)

\* Two ends whose current sessions share a key also agree on its K bit, so that
\* handleEstablished tries that key on what the other end sends.
KBitsAgree ==
    \A n \in Node : \A m \in Node \ {n} :
        BothCurrent(n, m) => sessions[n][m].k = sessions[m][n].k

\* The same as long as no live end has discarded its session; a restart of a node, which
\* its peer sees by the epoch, resets the bit at both ends.
KBitsAgreeUnlessDiscarded == faults.timeouts + faults.closes = 0 => KBitsAgree

\* No record reaches the application twice, whatever path its copies take: the
\* carrier, the early queue, the current, the draining key.
NoDuplicateDelivery == \A x \in DOMAIN delivered : delivered[x] = 1

\* A pending responder exists only beside an established session and is still
\* waiting for its Msg3; handleSessionMsg3 promotes it in the step that completes it.
PendingAwaitsMsg3 ==
    \A n, m \in Node :
        LET s == sessions[n][m] IN
        s.pending.state # "none" =>
            /\ Established(s)
            /\ s.pending.state = "handshaking"
            /\ s.pending.role = "responder"

\* The K bit tells the draining key from the current one.
DrainingKeyDistinct ==
    \A n \in Node : \A m \in Node \ {n} :
        LET s == sessions[n][m] IN
        s.prev.state # "none" =>
            /\ s.prev.state = "established"
            /\ s.prevK # s.k
            /\ KeyOf(n, m, s.prev) # KeyOf(n, m, s.fsp)

\* A frame's K bit names one key of a session at most: a pending handshake cannot open
\* frames before its Msg3, and a key that drains has the other bit (handleEstablished).
KeysInOrder == PendingAwaitsMsg3 /\ DrainingKeyDistinct

\* The step replaces the established key of n's session with m.
CutsOver(n, m) ==
    /\ Established(sessions[n][m])
    /\ ~Absent(sessions'[n][m])
    /\ KeyOf(n, m, sessions[n][m].fsp) # KeyOf(n, m, sessions'[n][m].fsp)

\* An established key gives way only to another established key of the same remote,
\* and then drains, unless the remote authenticated a new epoch.  An unauthenticated
\* Setup, or a sender that resumes from an await, never displaces it.
AuthenticatedCutover ==
    [][\A n \in Node : \A m \in Node \ {n} :
          LET s == sessions[n][m]
              t == sessions'[n][m] IN
          CutsOver(n, m) =>
              /\ Established(t)
              /\ \/ KeyOf(n, m, t.prev) = KeyOf(n, m, s.fsp) /\ t.prevK = s.k
                 \/ t.fsp.remoteEpoch # s.fsp.remoteEpoch]_vars

\* While a session lives, the remote epoch it authenticated never moves back.
RemoteEpochNeverRollsBack ==
    [][\A n, m \in Node :
          ~Absent(sessions[n][m]) /\ ~Absent(sessions'[n][m]) =>
              sessions'[n][m].fsp.remoteEpoch >= sessions[n][m].fsp.remoteEpoch]_vars

\* A record is delivered only while the session still authenticates the life of the
\* remote that sealed it: once a restart is authenticated, old records are dead.
DeliveredFromAuthenticatedLife ==
    [][\A x \in DOMAIN delivered' :
          (x \notin DOMAIN delivered \/ delivered'[x] > delivered[x]) =>
              x[2].epoch = sessions'[x[1]][x[2].src].fsp.remoteEpoch]_vars

\* Somebody at n awaits a session with m.
Waiting(n, m) == sessions[n][m].setup \/ orphaned[n][m]

\* Timers of the event loop fire.
Deadlines ==
    \A n \in Node : \A m \in Node \ {n} :
        WF_vars(RejectSetup(n, m)) /\ WF_vars(RejectOrphan(n, m))

\* A caller that waits for a session is released: by Ack, by Msg3 or by a deadline,
\* its own record's even when a later Setup has replaced that record.
SetupSettles ==
    Deadlines => \A n \in Node : \A m \in Node \ {n} : Waiting(n, m) ~> ~Waiting(n, m)

\* The carrier loses no Msg3 that its receiver can use: an assumption, not earned by resends.
Msg3Arrives == \A n \in Node : WF_vars(\E f \in net : RecvMsg3(n, f))

\* However the two ends' handshakes cross, and whatever Setup and Ack are lost, once somebody
\* wants a session one end has a key, if no caller gives up; and both ends finish with the
\* same key for good if no Msg3 is lost either.  (What follows the loss of a Msg3 is the subject
\* of KBitsAgree.)
HandshakeConverges ==
    [](faults.timeouts = 0) =>
        \A n \in Node : \A m \in Node \ {n} :
            /\ sessions[n][m].setup ~> Established(sessions[n][m]) \/ Established(sessions[m][n])
            /\ Msg3Arrives => (sessions[n][m].setup ~> []BothCurrent(n, m))

=============================================================================
