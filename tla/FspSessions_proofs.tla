------------------------- MODULE FspSessions_proofs -------------------------
(***************************************************************************)
(* For any set of nodes and any bounds: sessions keep their types, a       *)
(* pending responder is always an unfinished handshake beside an           *)
(* established session, and the K bit always tells the draining key from   *)
(* the current one.  From a second invariant on top: no record is          *)
(* delivered twice or from a life of the remote that is over, a key gives  *)
(* way only to an authenticated one, and epochs never move back.  From a   *)
(* third: while no live end discards a session, the K bits of both ends of *)
(* a key agree.                                                            *)
(***************************************************************************)
EXTENDS FspSessions, SequenceTheorems, TLAPS

-----------------------------------------------------------------------------
(* The inductive invariant, one session record at a time.  drawn is the    *)
(* number of ephemerals the record's owner has drawn: a new handshake      *)
(* object is younger than every other one of the record.                   *)

PendingOK(s) ==
    s.pending.state # "none" =>
        /\ s.fsp.state = "established"
        /\ s.pending.state = "handshaking"
        /\ s.pending.role = "responder"
        /\ s.pending.e # s.fsp.e

PrevOK(s) ==
    s.prev.state # "none" =>
        /\ s.prev.state = "established"
        /\ s.fsp.state = "established"
        /\ s.prevK # s.k
        /\ s.prev.e # s.fsp.e

DrawnOK(s, drawn) == s.fsp.e <= drawn /\ s.pending.e <= drawn

SessionOK(s, drawn) ==
    /\ s \in Session
    /\ Len(s.early) <= MaxEarly
    /\ PendingOK(s)
    /\ PrevOK(s)
    /\ DrawnOK(s, drawn)

\* Everything TypeOK says of the variables other than sessions.
RestOK ==
    /\ epoch \in [Node -> Nat]
    /\ ephemerals \in [Node -> 0 .. MaxEphemeral]
    /\ ensuring \in [Node -> [Node -> BOOLEAN]]
    /\ recovery \in [Node -> [Node -> {"none", "running", "backoff"}]]
    /\ resolving \subseteq Node \X Node \X Nat
    /\ orphaned \in [Node -> [Node -> BOOLEAN]]
    /\ draining \in [Node -> [Node -> Seq(DataFrame)]]
    /\ net \subseteq Frame

SessionsOK ==
    /\ sessions \in [Node -> [Node -> Session]]
    /\ \A n, m \in Node : SessionOK(sessions[n][m], ephemerals[n])

Inv == RestOK /\ SessionsOK

-----------------------------------------------------------------------------
(* Handshake objects and session records                                   *)

LEMMA EmptyWindowType == EmptyWindow \in Window
  BY WindowAssumption DEF EmptyWindow, Window, Acceptable, Counter, Undefined

LEMMA NoFspType == NoFsp \in Fsp
  BY EmptyWindowType, FspAssumption DEF NoFsp, Fsp

LEMMA InitiatorType ==
    ASSUME NEW e \in Nat
    PROVE  /\ Initiator(e) \in Fsp
           /\ Initiator(e).state = "handshaking"
           /\ Initiator(e).e = e
  BY EmptyWindowType, FspAssumption DEF Initiator, NewFsp, Fsp

LEMMA ResponderType ==
    ASSUME NEW e \in Nat, NEW re \in Nat
    PROVE  /\ Responder(e, re) \in Fsp
           /\ Responder(e, re).state = "handshaking"
           /\ Responder(e, re).role = "responder"
           /\ Responder(e, re).e = e
  BY EmptyWindowType, FspAssumption DEF Responder, NewFsp, Fsp

LEMMA FinalizedType ==
    ASSUME NEW fsp \in Fsp, NEW x \in Nat
    PROVE  /\ Finalized(fsp, x) \in Fsp
           /\ Finalized(fsp, x).state = "established"
           /\ Finalized(fsp, x).e = fsp.e
  BY DEF Finalized, Fsp

LEMMA RecordedType ==
    ASSUME NEW fsp \in Fsp, NEW f \in DataFrame, Check(fsp.rx, f.ctr)
    PROVE  /\ Recorded(fsp, f) \in Fsp
           /\ Recorded(fsp, f).state = fsp.state
           /\ Recorded(fsp, f).role = fsp.role
           /\ Recorded(fsp, f).e = fsp.e
  <1>1. fsp.rx \in Window /\ f.ctr \in Nat /\ f.ctr < Exhausted
    BY FspAssumption DEF Fsp, DataFrame, Check
  <1>2. Accept(fsp.rx, f.ctr) \in Window
    BY <1>1, WindowAssumption DEF Accept, Window, Acceptable, Counter
  <1> QED
    BY <1>2 DEF Recorded, Fsp

\* A record that was just created carries no pending and no draining key.
LEMMA NewSessionOK ==
    ASSUME NEW fsp \in Fsp, NEW setup \in BOOLEAN, NEW known \in BOOLEAN,
           NEW drawn \in Nat, fsp.e <= drawn
    PROVE  SessionOK(NewSession(fsp, setup, known), drawn)
  <1> DEFINE s == NewSession(fsp, setup, known)
  <1>1. s \in Session /\ Len(s.early) <= MaxEarly
    BY NoFspType, FspAssumption DEF NewSession, Session
  <1>2. PendingOK(s) /\ PrevOK(s) /\ DrawnOK(s, drawn)
    BY DEF NewSession, PendingOK, PrevOK, DrawnOK, NoFsp
  <1> QED
    BY <1>1, <1>2 DEF SessionOK

LEMMA NoSessionOK ==
    ASSUME NEW drawn \in Nat
    PROVE  SessionOK(NoSession, drawn)
  <1>1. NoFsp.e <= drawn
    BY DEF NoFsp
  <1> QED
    BY <1>1, NoFspType, NewSessionOK DEF NoSession

\* More ephemerals drawn by the owner do not disturb a record.
LEMMA DrawnMonotone ==
    ASSUME NEW s, NEW d1 \in Nat, NEW d2 \in Nat, d1 <= d2, SessionOK(s, d1)
    PROVE  SessionOK(s, d2)
  BY DEF SessionOK, DrawnOK, Session, Fsp

-----------------------------------------------------------------------------
(* What each handler leaves in the session record                          *)

LEMMA AfterSetupOK ==
    ASSUME Inv, NEW n \in Node, NEW m \in Node, NEW ei \in Nat
    PROVE  SessionOK(AfterSetup(n, m, ei, ephemerals[n] + 1), ephemerals[n] + 1)
  <1> DEFINE s == sessions[n][m]
             d == ephemerals[n]
             r == Responder(d + 1, ei)
  <1>1. SessionOK(s, d) /\ d \in Nat /\ s \in Session
    BY FspAssumption DEF Inv, SessionsOK, RestOK
  <1>2. r \in Fsp /\ r.state = "handshaking" /\ r.role = "responder" /\ r.e = d + 1
    BY <1>1, ResponderType
  <1> HIDE DEF r, d
  <1>3. CASE Established(s)
    <2> DEFINE t == [s EXCEPT !.pending = r]
    <2>1. t \in Session /\ Len(t.early) <= MaxEarly
      BY <1>1, <1>2 DEF SessionOK, Session
    <2>2. /\ t.fsp = s.fsp /\ t.prev = s.prev /\ t.k = s.k /\ t.prevK = s.prevK
          /\ t.pending = r /\ s.fsp.e \in Nat
      BY <1>1 DEF Session, Fsp
    <2>3. PendingOK(t) /\ PrevOK(t) /\ DrawnOK(t, d + 1)
      BY <1>1, <1>2, <1>3, <2>2 DEF PendingOK, PrevOK, DrawnOK, SessionOK, Established
    <2> QED
      BY <1>3, <2>1, <2>3 DEF AfterSetup, SessionOK, r, d
  <1>4. CASE Handshaking(s) /\ s.fsp.role = "initiator"
    <2> DEFINE t == [s EXCEPT !.fsp = r]
    <2>1. t \in Session /\ Len(t.early) <= MaxEarly
      BY <1>1, <1>2 DEF SessionOK, Session
    <2>2. t.fsp = r /\ t.prev = s.prev /\ t.pending = s.pending
      BY <1>1 DEF Session
    <2>3. s.prev.state = "none" /\ s.pending.state = "none"
      BY <1>1, <1>4 DEF SessionOK, PendingOK, PrevOK, Handshaking
    <2>a. s.pending \in Fsp
      BY <1>1 DEF Session
    <2>b. s.pending.e \in Nat
      BY <2>a DEF Fsp
    <2>c. s.pending.e <= d
      BY <1>1 DEF SessionOK, DrawnOK
    <2>d. s.pending.e <= d + 1
      BY <1>1, <2>b, <2>c
    <2>4. PendingOK(t) /\ PrevOK(t) /\ DrawnOK(t, d + 1)
      BY <1>1, <1>2, <2>2, <2>3, <2>d DEF PendingOK, PrevOK, DrawnOK
    <2>5. ~Established(s)
      BY <1>4 DEF Established, Handshaking
    <2> QED
      BY <1>4, <2>1, <2>4, <2>5 DEF AfterSetup, SessionOK, r, d
  <1>5. CASE ~Established(s) /\ ~(Handshaking(s) /\ s.fsp.role = "initiator")
    <2>1. d + 1 \in Nat /\ r.e <= d + 1 /\ FALSE \in BOOLEAN
      BY <1>1, <1>2
    <2>2. SessionOK(NewSession(r, FALSE, FALSE), d + 1)
      BY <1>2, <2>1, NewSessionOK
    <2> QED
      BY <1>5, <2>2 DEF AfterSetup, r, d
  <1> QED
    BY <1>3, <1>4, <1>5

LEMMA PromotePendingOK ==
    ASSUME NEW s, NEW drawn \in Nat, SessionOK(s, drawn), Established(s),
           NEW fsp \in Fsp, fsp.state = "established", fsp.e # s.fsp.e, fsp.e <= drawn,
           NEW k \in BOOLEAN, k # s.k
    PROVE  SessionOK(PromotePending(s, fsp, k), drawn)
  <1> DEFINE t == PromotePending(s, fsp, k)
  <1>1. /\ t.prev = s.fsp /\ t.prevK = s.k /\ t.fsp = fsp /\ t.k = k
        /\ t.pending = NoFsp /\ t.early = s.early /\ t.setup = s.setup
        /\ t \in Session
    BY NoFspType DEF SessionOK, Session, PromotePending
  <1>2. PendingOK(t) /\ PrevOK(t) /\ DrawnOK(t, drawn)
    BY <1>1 DEF PendingOK, PrevOK, DrawnOK, NoFsp, Established
  <1> HIDE DEF t
  <1> QED
    BY <1>1, <1>2 DEF SessionOK, t

LEMMA ReplaceRestartedOK ==
    ASSUME NEW s, NEW drawn \in Nat, SessionOK(s, drawn),
           NEW fsp \in Fsp, fsp.state = "established", fsp.e <= drawn
    PROVE  SessionOK(ReplaceRestarted(s, fsp), drawn)
  <1> DEFINE t == ReplaceRestarted(s, fsp)
  <1>1. /\ t.prev = NoFsp /\ t.fsp = fsp /\ t.pending = NoFsp /\ t.early = s.early
        /\ t \in Session
    BY NoFspType DEF SessionOK, Session, ReplaceRestarted
  <1>2. PendingOK(t) /\ PrevOK(t) /\ DrawnOK(t, drawn)
    BY <1>1 DEF PendingOK, PrevOK, DrawnOK, NoFsp
  <1> HIDE DEF t
  <1> QED
    BY <1>1, <1>2 DEF SessionOK, t

LEMMA AfterMsg3OK ==
    ASSUME NEW s, NEW drawn \in Nat, SessionOK(s, drawn), NEW x \in Nat,
           HandshakeFsp(s).state = "handshaking"
    PROVE  SessionOK(AfterMsg3(s, x), drawn)
  <1> DEFINE fsp == Finalized(HandshakeFsp(s), x)
  <1>1. s \in Session /\ HandshakeFsp(s) \in Fsp /\ s.fsp \in Fsp /\ s.k \in BOOLEAN
    BY DEF SessionOK, Session, HandshakeFsp
  <1>2. fsp \in Fsp /\ fsp.state = "established" /\ fsp.e = HandshakeFsp(s).e
    BY <1>1, FinalizedType
  <1>3. fsp.e <= drawn
    BY <1>2 DEF SessionOK, DrawnOK, HandshakeFsp
  <1> HIDE DEF fsp
  <1>4. CASE s.pending.state = "none"
    <2> DEFINE t == [s EXCEPT !.fsp = fsp]
    <2>1. /\ t \in Session /\ t.fsp = fsp /\ t.pending = s.pending /\ t.prev = s.prev
          /\ t.early = s.early
      BY <1>1, <1>2 DEF Session
    <2>2. s.fsp.state = "handshaking"
      BY <1>4 DEF HandshakeFsp
    <2>3. s.prev.state = "none"
      BY <2>2 DEF SessionOK, PrevOK
    <2>4. PendingOK(t) /\ PrevOK(t) /\ DrawnOK(t, drawn)
      BY <1>3, <1>4, <2>1, <2>3 DEF PendingOK, PrevOK, DrawnOK, SessionOK
    <2>5. SessionOK(t, drawn)
      BY <2>1, <2>4 DEF SessionOK
    <2> QED
      BY <1>4, <2>5 DEF AfterMsg3, fsp
  <1>5. CASE s.pending.state # "none"
    <2>1. Established(s) /\ fsp.e # s.fsp.e
      BY <1>2, <1>5 DEF SessionOK, PendingOK, HandshakeFsp, Established
    <2>2. (~s.k) \in BOOLEAN /\ (~s.k) # s.k
      BY <1>1
    <2>3. SessionOK(PromotePending(s, fsp, ~s.k), drawn)
      BY <1>2, <1>3, <2>1, <2>2, PromotePendingOK
    <2>4. SessionOK(ReplaceRestarted(s, fsp), drawn)
      BY <1>2, <1>3, ReplaceRestartedOK
    <2> QED
      BY <1>5, <2>3, <2>4 DEF AfterMsg3, fsp
  <1> QED
    BY <1>4, <1>5

\* Releasing the waiters and taking the early queue away.
LEMMA ReleaseOK ==
    ASSUME NEW s, NEW drawn \in Nat, SessionOK(s, drawn)
    PROVE  SessionOK([s EXCEPT !.setup = FALSE, !.early = <<>>, !.known = TRUE], drawn)
  <1> DEFINE t == [s EXCEPT !.setup = FALSE, !.early = <<>>, !.known = TRUE]
  <1>0. <<>> \in Seq(DataFrame)
    OBVIOUS
  <1>1. /\ t \in Session /\ t.fsp = s.fsp /\ t.pending = s.pending /\ t.prev = s.prev
        /\ t.k = s.k /\ t.prevK = s.prevK /\ t.early = <<>>
    BY <1>0 DEF SessionOK, Session
  <1>2. PendingOK(t) /\ PrevOK(t) /\ DrawnOK(t, drawn)
    BY <1>1 DEF PendingOK, PrevOK, DrawnOK, SessionOK
  <1>3. Len(t.early) <= MaxEarly
    BY <1>1, FspAssumption
  <1> HIDE DEF t
  <1>4. SessionOK(t, drawn)
    BY <1>1, <1>2, <1>3 DEF SessionOK
  <1> QED
    BY <1>4 DEF t

\* An update of one handshake object that keeps its identity and its state.
LEMMA SameFspOK ==
    ASSUME NEW s, NEW drawn \in Nat, SessionOK(s, drawn), NEW fsp \in Fsp
    PROVE  /\ fsp.state = s.fsp.state /\ fsp.e = s.fsp.e =>
                SessionOK([s EXCEPT !.fsp = fsp], drawn)
           /\ fsp.state = s.prev.state /\ fsp.e = s.prev.e =>
                SessionOK([s EXCEPT !.prev = fsp], drawn)
  <1> DEFINE t == [s EXCEPT !.fsp = fsp]
             u == [s EXCEPT !.prev = fsp]
  <1>1. /\ t \in Session /\ t.fsp = fsp /\ t.pending = s.pending /\ t.prev = s.prev
        /\ t.k = s.k /\ t.prevK = s.prevK /\ t.early = s.early
    BY DEF SessionOK, Session
  <1>2. /\ u \in Session /\ u.fsp = s.fsp /\ u.pending = s.pending /\ u.prev = fsp
        /\ u.k = s.k /\ u.prevK = s.prevK /\ u.early = s.early
    BY DEF SessionOK, Session
  <1> HIDE DEF t, u
  <1>3. fsp.state = s.fsp.state /\ fsp.e = s.fsp.e => SessionOK(t, drawn)
    BY <1>1 DEF PendingOK, PrevOK, DrawnOK, SessionOK
  <1>4. fsp.state = s.prev.state /\ fsp.e = s.prev.e => SessionOK(u, drawn)
    BY <1>2 DEF PendingOK, PrevOK, DrawnOK, SessionOK
  <1> QED
    BY <1>3, <1>4 DEF t, u

LEMMA QueueEarlyOK ==
    ASSUME NEW s, NEW drawn \in Nat, SessionOK(s, drawn), NEW f \in DataFrame
    PROVE  SessionOK(QueueEarly(s, f), drawn)
  <1>1. CASE Len(s.early) < MaxEarly
    <2> DEFINE t == [s EXCEPT !.early = Append(s.early, f)]
    <2>1. s.early \in Seq(DataFrame)
      BY DEF SessionOK, Session
    <2>2. /\ Append(s.early, f) \in Seq(DataFrame)
          /\ Len(Append(s.early, f)) <= MaxEarly
      BY <1>1, <2>1, FspAssumption, AppendProperties
    <2>3. /\ t \in Session /\ t.fsp = s.fsp /\ t.pending = s.pending /\ t.prev = s.prev
          /\ t.k = s.k /\ t.prevK = s.prevK /\ t.early = Append(s.early, f)
      BY <2>2 DEF SessionOK, Session
    <2> HIDE DEF t
    <2>4. SessionOK(t, drawn)
      BY <2>2, <2>3 DEF PendingOK, PrevOK, DrawnOK, SessionOK
    <2> QED
      BY <1>1, <2>4 DEF QueueEarly, t
  <1>2. CASE ~(Len(s.early) < MaxEarly)
    BY <1>2 DEF QueueEarly
  <1> QED
    BY <1>1, <1>2

LEMMA AfterRecordOK ==
    ASSUME NEW n, NEW m, NEW s, NEW drawn \in Nat, SessionOK(s, drawn),
           NEW f \in DataFrame
    PROVE  SessionOK(AfterRecord(n, m, s, f), drawn)
  <1>1. s \in Session /\ s.fsp \in Fsp /\ s.prev \in Fsp /\ f.k \in BOOLEAN
    BY DEF SessionOK, Session, DataFrame
  <1>2. Selects(s, f) # "pending"
    BY DEF SessionOK, PendingOK, Selects
  <1>3. CASE Selects(s, f) = "early"
    BY <1>3, QueueEarlyOK DEF AfterRecord
  <1>4. CASE Selects(s, f) = "fsp" /\ Delivers(n, m, s, f)
    <2>1. Check(s.fsp.rx, f.ctr)
      BY <1>4 DEF Delivers, Opens
    <2>2. SessionOK([s EXCEPT !.fsp = Recorded(s.fsp, f)], drawn)
      BY <1>1, <2>1, RecordedType, SameFspOK
    <2> QED
      BY <1>4, <2>2 DEF AfterRecord
  <1>5. CASE Selects(s, f) = "prev" /\ Delivers(n, m, s, f)
    <2>1. Check(s.prev.rx, f.ctr)
      BY <1>5 DEF Delivers, Opens
    <2>2. SessionOK([s EXCEPT !.prev = Recorded(s.prev, f)], drawn)
      BY <1>1, <2>1, RecordedType, SameFspOK
    <2> QED
      BY <1>5, <2>2 DEF AfterRecord
  <1>6. CASE /\ Selects(s, f) # "early"
             /\ ~(Selects(s, f) = "fsp" /\ Delivers(n, m, s, f))
             /\ ~(Selects(s, f) = "prev" /\ Delivers(n, m, s, f))
    BY <1>2, <1>6 DEF AfterRecord
  <1> QED
    BY <1>3, <1>4, <1>5, <1>6

-----------------------------------------------------------------------------
(* Steps                                                                   *)

\* A step that gives n a new record for m, and may let n draw more ephemerals.
LEMMA SessionStep ==
    ASSUME Inv, NEW n \in Node, NEW m \in Node, NEW s,
           SetSession(n, m, s),
           ephemerals' \in [Node -> 0 .. MaxEphemeral],
           \A x \in Node : ephemerals[x] <= ephemerals'[x],
           SessionOK(s, ephemerals'[n])
    PROVE  SessionsOK'
  <1>1. /\ sessions \in [Node -> [Node -> Session]]
        /\ s \in Session
        /\ sessions' = [sessions EXCEPT ![n][m] = s]
    BY DEF Inv, SessionsOK, SessionOK, SetSession
  <1>2. sessions' \in [Node -> [Node -> Session]]
    BY <1>1
  <1>3. ASSUME NEW x \in Node, NEW y \in Node
        PROVE  SessionOK(sessions'[x][y], ephemerals'[x])
    <2>1. CASE x = n /\ y = m
      BY <1>1, <2>1
    <2>2. CASE ~(x = n /\ y = m)
      <3>1. sessions'[x][y] = sessions[x][y]
        BY <1>1, <2>2
      <3>2. ephemerals[x] \in Nat /\ ephemerals'[x] \in Nat
        BY FspAssumption DEF Inv, RestOK
      <3>3. SessionOK(sessions[x][y], ephemerals'[x])
        BY <3>2, DrawnMonotone DEF Inv, SessionsOK
      <3> QED
        BY <3>1, <3>3
    <2> QED
      BY <2>1, <2>2
  <1> QED
    BY <1>2, <1>3 DEF SessionsOK

\* A step that leaves sessions and ephemerals alone.
LEMMA QuietStep ==
    ASSUME Inv, UNCHANGED <<sessions, ephemerals>>
    PROVE  SessionsOK'
  BY DEF Inv, SessionsOK

\* The facts every action uses.
LEMMA SessionFacts ==
    ASSUME Inv, NEW n \in Node, NEW m \in Node
    PROVE  /\ SessionOK(sessions[n][m], ephemerals[n])
           /\ sessions[n][m] \in Session
           /\ ephemerals[n] \in Nat
           /\ ephemerals \in [Node -> 0 .. MaxEphemeral]
           /\ epoch[n] \in Nat
  BY FspAssumption DEF Inv, SessionsOK, RestOK

\* Drawing one ephemeral within the bound.
LEMMA DrawStep ==
    ASSUME Inv, NEW n \in Node, ephemerals[n] < MaxEphemeral,
           ephemerals' = [ephemerals EXCEPT ![n] = ephemerals[n] + 1]
    PROVE  /\ ephemerals' \in [Node -> 0 .. MaxEphemeral]
           /\ \A x \in Node : ephemerals[x] <= ephemerals'[x]
           /\ ephemerals'[n] = ephemerals[n] + 1
  BY FspAssumption DEF Inv, RestOK

\* What a received frame of each type carries.
LEMMA FrameTypes ==
    ASSUME NEW f \in Frame
    PROVE  /\ f.src \in Node
           /\ f.type = "setup" => f.ei \in Nat
           /\ f.type \in {"ack", "msg3"} => f.ei \in Nat /\ f.er \in Nat /\ f.epoch \in Nat
           /\ f.type = "data" => f \in DataFrame
  BY DEF Frame, DataFrame

LEMMA JoinOrInitiateStep ==
    ASSUME Inv, NEW n \in Node, NEW m \in Node, JoinOrInitiate(n, m)
    PROVE  /\ SessionsOK'
           /\ ephemerals' \in [Node -> 0 .. MaxEphemeral]
           /\ net' \subseteq Frame
  <1> USE SessionFacts
  <1>0. net \subseteq Frame
    BY DEF Inv, RestOK
  <1>1. CASE Reuse(n, m)
    BY <1>0, <1>1, QuietStep DEF Reuse
  <1>2. CASE Join(n, m)
    <2> DEFINE t == [sessions[n][m] EXCEPT !.setup = TRUE]
    <2>1. SetSession(n, m, t) /\ UNCHANGED <<ephemerals, net>>
      BY <1>2 DEF Join
    <2>2. /\ t \in Session /\ t.fsp = sessions[n][m].fsp
          /\ t.pending = sessions[n][m].pending /\ t.prev = sessions[n][m].prev
          /\ t.k = sessions[n][m].k /\ t.prevK = sessions[n][m].prevK
          /\ t.early = sessions[n][m].early
      BY DEF Session
    <2> HIDE DEF t
    <2>3. SessionOK(t, ephemerals'[n])
      BY <2>1, <2>2 DEF SessionOK, PendingOK, PrevOK, DrawnOK
    <2>4. \A x \in Node : ephemerals[x] <= ephemerals'[x]
      BY <2>1
    <2> QED
      BY <1>0, <2>1, <2>3, <2>4, SessionStep
  <1>3. CASE Initiate(n, m)
    <2> DEFINE e == ephemerals[n] + 1
    <2>1. /\ ephemerals[n] < MaxEphemeral
          /\ ephemerals' = [ephemerals EXCEPT ![n] = e]
          /\ SetSession(n, m, NewSession(Initiator(e), TRUE, TRUE))
          /\ net' = net \cup {SetupFrame(n, m, e)}
      BY <1>3 DEF Initiate
    <2>2. /\ ephemerals' \in [Node -> 0 .. MaxEphemeral]
          /\ \A x \in Node : ephemerals[x] <= ephemerals'[x]
          /\ ephemerals'[n] = e
      BY <2>1, DrawStep
    <2>3. e \in Nat
      OBVIOUS
    <2> HIDE DEF e
    <2>a. Initiator(e) \in Fsp /\ Initiator(e).e <= e /\ TRUE \in BOOLEAN
      BY <2>3, InitiatorType
    <2>4. SessionOK(NewSession(Initiator(e), TRUE, TRUE), e)
      BY <2>3, <2>a, NewSessionOK
    <2>5. SetupFrame(n, m, e) \in Frame
      BY <2>3 DEF SetupFrame, Frame
    <2> QED
      BY <1>0, <2>1, <2>2, <2>4, <2>5, SessionStep
  <1> QED
    BY <1>1, <1>2, <1>3 DEF JoinOrInitiate

LEMMA EnsureStep ==
    ASSUME Inv, NEW n \in Node, NEW m \in Node, Ensure(n, m)
    PROVE  /\ SessionsOK'
           /\ ephemerals' \in [Node -> 0 .. MaxEphemeral]
           /\ net' \subseteq Frame
           /\ ensuring' \in [Node -> [Node -> BOOLEAN]]
  <1>0. ensuring \in [Node -> [Node -> BOOLEAN]] /\ net \subseteq Frame
    BY DEF Inv, RestOK
  <1>1. CASE JoinOrInitiate(n, m) /\ UNCHANGED ensuring
    BY <1>0, <1>1, JoinOrInitiateStep
  <1>2. CASE /\ ensuring' = [ensuring EXCEPT ![n][m] = TRUE]
             /\ UNCHANGED <<ephemerals, sessions, net>>
    BY <1>0, <1>2, QuietStep DEF Inv, RestOK
  <1> QED
    BY <1>1, <1>2 DEF Ensure

LEMMA DiscardStep ==
    ASSUME Inv, NEW n \in Node, NEW m \in Node, Discard(n, m), UNCHANGED ephemerals
    PROVE  /\ SessionsOK'
           /\ draining' \in [Node -> [Node -> Seq(DataFrame)]]
  <1>1. draining \in [Node -> [Node -> Seq(DataFrame)]] /\ <<>> \in Seq(DataFrame)
    BY DEF Inv, RestOK
  <1>2. SessionOK(NoSession, ephemerals'[n])
    BY SessionFacts, NoSessionOK
  <1>3. \A x \in Node : ephemerals[x] <= ephemerals'[x]
    BY FspAssumption DEF Inv, RestOK
  <1>4. SessionsOK'
    BY <1>2, <1>3, SessionFacts, SessionStep DEF Discard
  <1> QED
    BY <1>1, <1>4 DEF Discard

LEMMA RecvSetupStep ==
    ASSUME Inv, NEW n \in Node, NEW f \in net, RecvSetup(n, f)
    PROVE  Inv'
  <1> DEFINE m == f.src
             e == ephemerals[n] + 1
  <1>1. f \in Frame /\ m \in Node /\ f.ei \in Nat
    BY FrameTypes DEF Inv, RestOK, RecvSetup
  <1>2. /\ ephemerals[n] < MaxEphemeral
        /\ ephemerals' = [ephemerals EXCEPT ![n] = e]
        /\ SetSession(n, m, AfterSetup(n, m, f.ei, e))
        /\ net' = net \cup {AckFrame(n, m, f.ei, e)}
    BY DEF RecvSetup
  <1>3. SessionOK(AfterSetup(n, m, f.ei, e), e)
    BY <1>1, AfterSetupOK
  <1>4. e \in Nat /\ epoch[n] \in Nat
    BY <1>1, SessionFacts
  <1>5. /\ ephemerals' \in [Node -> 0 .. MaxEphemeral]
        /\ \A x \in Node : ephemerals[x] <= ephemerals'[x]
        /\ ephemerals'[n] = e
    BY <1>2, DrawStep
  <1> HIDE DEF e, m
  <1>6. SessionsOK'
    BY <1>1, <1>2, <1>3, <1>5, SessionStep
  <1>7. AckFrame(n, m, f.ei, e) \in Frame
    BY <1>1, <1>4 DEF AckFrame, Frame
  <1>8. orphaned' \in [Node -> [Node -> BOOLEAN]]
    BY <1>1 DEF RecvSetup, Inv, RestOK
  <1> QED
    BY <1>2, <1>5, <1>6, <1>7, <1>8 DEF Inv, RestOK, RecvSetup

LEMMA RecvAckStep ==
    ASSUME Inv, NEW n \in Node, NEW f \in net, RecvAck(n, f)
    PROVE  Inv'
  <1> DEFINE m == f.src
             s == sessions[n][m]
             g == Finalized([s.fsp EXCEPT !.re = f.er], f.epoch)
             t == [s EXCEPT !.fsp = g, !.setup = FALSE]
  <1>1. f \in Frame /\ m \in Node /\ f.ei \in Nat /\ f.er \in Nat /\ f.epoch \in Nat
    BY FrameTypes DEF Inv, RestOK, RecvAck
  <1>2. SetSession(n, m, t) /\ Handshaking(s) /\ UNCHANGED ephemerals
        /\ net' = net \cup {Msg3Frame(n, m, f.ei, f.er)}
    BY DEF RecvAck
  <1>3. SessionOK(s, ephemerals[n]) /\ s \in Session /\ ephemerals[n] \in Nat
        /\ epoch[n] \in Nat /\ ephemerals \in [Node -> 0 .. MaxEphemeral]
    BY <1>1, SessionFacts
  <1>4. [s.fsp EXCEPT !.re = f.er] \in Fsp /\ [s.fsp EXCEPT !.re = f.er].e = s.fsp.e
    BY <1>1, <1>3 DEF Session, Fsp
  <1>5. g \in Fsp /\ g.state = "established" /\ g.e = s.fsp.e
    BY <1>1, <1>4, FinalizedType
  <1> HIDE DEF g, s
  <1>6. /\ t \in Session /\ t.fsp = g /\ t.pending = s.pending /\ t.prev = s.prev
        /\ t.early = s.early
    BY <1>3, <1>5 DEF Session
  <1>7. s.pending.state = "none" /\ s.prev.state = "none"
    BY <1>2, <1>3 DEF SessionOK, PendingOK, PrevOK, Handshaking
  <1> HIDE DEF t
  <1>8. SessionOK(t, ephemerals[n])
    BY <1>3, <1>5, <1>6, <1>7 DEF SessionOK, PendingOK, PrevOK, DrawnOK
  <1>9. \A x \in Node : ephemerals[x] <= ephemerals'[x]
    BY <1>2, <1>3
  <1> HIDE DEF m
  <1>10. SessionsOK'
    BY <1>1, <1>2, <1>3, <1>8, <1>9, SessionStep
  <1>11. Msg3Frame(n, m, f.ei, f.er) \in Frame
    BY <1>1, <1>3 DEF Msg3Frame, Frame
  <1> QED
    BY <1>2, <1>10, <1>11 DEF Inv, RestOK, RecvAck

LEMMA RecvMsg3Step ==
    ASSUME Inv, NEW n \in Node, NEW f \in net, RecvMsg3(n, f)
    PROVE  Inv'
  <1> DEFINE m == f.src
             s == sessions[n][m]
             a == IF HandshakeFsp(s).state = "established" THEN s ELSE AfterMsg3(s, f.epoch)
             t == [a EXCEPT !.setup = FALSE, !.early = <<>>, !.known = TRUE]
  <1>1. f \in Frame /\ m \in Node /\ f.epoch \in Nat
    BY FrameTypes DEF Inv, RestOK, RecvMsg3
  <1>2. /\ SetSession(n, m, t)
        /\ ~Absent(s)
        /\ UNCHANGED ephemerals
        /\ draining' = [draining EXCEPT ![n][m] = draining[n][m] \o s.early]
    BY DEF RecvMsg3
  <1>3. SessionOK(s, ephemerals[n]) /\ s \in Session /\ ephemerals[n] \in Nat
        /\ ephemerals \in [Node -> 0 .. MaxEphemeral]
    BY <1>1, SessionFacts
  <1>4. HandshakeFsp(s) \in Fsp
    BY <1>3 DEF Session, HandshakeFsp
  <1>5. HandshakeFsp(s).state # "established" => SessionOK(AfterMsg3(s, f.epoch), ephemerals[n])
    <2> SUFFICES ASSUME HandshakeFsp(s).state # "established"
                 PROVE  SessionOK(AfterMsg3(s, f.epoch), ephemerals[n])
      OBVIOUS
    <2>1. CASE HandshakeFsp(s).state = "handshaking"
      BY <1>1, <1>3, <2>1, AfterMsg3OK
    <2>2. CASE HandshakeFsp(s).state = "none"
      BY <1>2, <2>2 DEF HandshakeFsp, Absent
    <2> QED
      BY <1>4, <2>1, <2>2 DEF Fsp
  <1>6. SessionOK(a, ephemerals[n])
    BY <1>3, <1>5
  <1> HIDE DEF a
  <1>7. SessionOK(t, ephemerals[n])
    BY <1>3, <1>6, ReleaseOK
  <1> HIDE DEF t
  <1>8. \A x \in Node : ephemerals[x] <= ephemerals'[x]
    BY <1>2, <1>3
  <1>9. SessionsOK'
    BY <1>1, <1>2, <1>3, <1>7, <1>8, SessionStep
  <1>10. draining' \in [Node -> [Node -> Seq(DataFrame)]]
    <2>1. /\ draining \in [Node -> [Node -> Seq(DataFrame)]]
          /\ s.early \in Seq(DataFrame)
      BY <1>3 DEF Inv, RestOK, Session
    <2>2. draining[n][m] \o s.early \in Seq(DataFrame)
      BY <1>1, <2>1, ConcatProperties
    <2> QED
      BY <1>1, <1>2, <2>1, <2>2
  <1> QED
    BY <1>9, <1>10 DEF Inv, RestOK, RecvMsg3

LEMMA KeyType ==
    ASSUME NEW n \in Node, NEW m \in Node, NEW fsp \in Fsp
    PROVE  KeyOf(n, m, fsp) \in Node \X Nat \X Nat
  BY DEF KeyOf, Fsp

LEMMA SendRecordStep ==
    ASSUME Inv, NEW n \in Node, NEW m \in Node, SendRecord(n, m)
    PROVE  Inv'
  <1> DEFINE s == sessions[n][m]
             g == [s.fsp EXCEPT !.tx = s.fsp.tx + 1]
  <1>1. SessionOK(s, ephemerals[n]) /\ s \in Session /\ ephemerals[n] \in Nat
        /\ ephemerals \in [Node -> 0 .. MaxEphemeral] /\ epoch[n] \in Nat
    BY SessionFacts
  <1>2. /\ s.fsp.tx < MaxTx
        /\ net' = net \cup {Record(n, m, s)}
        /\ sessions' = [sessions EXCEPT ![n][m] = [s EXCEPT !.fsp = g]]
        /\ UNCHANGED ephemerals
    BY <1>1 DEF SendRecord, SetSession
  <1>3. s.fsp \in Fsp /\ s.k \in BOOLEAN
    BY <1>1 DEF Session
  <1>4. g \in Fsp /\ g.state = s.fsp.state /\ g.e = s.fsp.e
    BY <1>2, <1>3, FspAssumption DEF Fsp
  <1>5. Record(n, m, s) \in Frame
    <2>1. KeyOf(n, m, s.fsp) \in Node \X Nat \X Nat
      BY <1>3, KeyType
    <2>2. s.fsp.tx \in 0 .. MaxTx
      BY <1>3 DEF Fsp
    <2> HIDE DEF s
    <2> QED
      BY <1>1, <1>3, <2>1, <2>2 DEF Record, Frame, DataFrame
  <1> HIDE DEF g
  <1>6. SessionOK([s EXCEPT !.fsp = g], ephemerals[n])
    BY <1>1, <1>4, SameFspOK
  <1>7. \A x \in Node : ephemerals[x] <= ephemerals'[x]
    BY <1>1, <1>2
  <1>8. SessionsOK'
    BY <1>1, <1>2, <1>6, <1>7, SessionStep DEF SetSession
  <1> QED
    BY <1>2, <1>5, <1>8 DEF Inv, RestOK, SendRecord

LEMMA HandleRecordStep ==
    ASSUME Inv, NEW n \in Node, NEW m \in Node, NEW f \in DataFrame,
           HandleRecord(n, m, f), UNCHANGED ephemerals
    PROVE  SessionsOK'
  <1>1. SessionOK(sessions[n][m], ephemerals[n]) /\ ephemerals[n] \in Nat
        /\ ephemerals \in [Node -> 0 .. MaxEphemeral]
    BY SessionFacts
  <1>2. SessionOK(AfterRecord(n, m, sessions[n][m], f), ephemerals'[n])
    BY <1>1, AfterRecordOK
  <1>3. \A x \in Node : ephemerals[x] <= ephemerals'[x]
    BY <1>1
  <1>4. SetSession(n, m, AfterRecord(n, m, sessions[n][m], f))
    BY DEF HandleRecord
  <1> QED
    BY <1>1, <1>2, <1>3, <1>4, SessionStep

LEMMA PrunePreviousStep ==
    ASSUME Inv, NEW n \in Node, NEW m \in Node, PrunePrevious(n, m)
    PROVE  Inv'
  <1> DEFINE s == sessions[n][m]
             t == [s EXCEPT !.prev = NoFsp, !.prevK = FALSE]
  <1>1. SessionOK(s, ephemerals[n]) /\ s \in Session /\ ephemerals[n] \in Nat
        /\ ephemerals \in [Node -> 0 .. MaxEphemeral]
    BY SessionFacts
  <1>2. SetSession(n, m, t) /\ UNCHANGED ephemerals
    BY DEF PrunePrevious
  <1>3. /\ t \in Session /\ t.fsp = s.fsp /\ t.pending = s.pending /\ t.prev = NoFsp
        /\ t.early = s.early
    BY <1>1, NoFspType DEF Session
  <1> HIDE DEF t
  <1>4. SessionOK(t, ephemerals[n])
    BY <1>1, <1>3 DEF SessionOK, PendingOK, PrevOK, DrawnOK, NoFsp
  <1>5. \A x \in Node : ephemerals[x] <= ephemerals'[x]
    BY <1>1, <1>2
  <1>6. SessionsOK'
    BY <1>1, <1>2, <1>4, <1>5, SessionStep
  <1> QED
    BY <1>6 DEF Inv, RestOK, PrunePrevious

LEMMA RestartStep ==
    ASSUME Inv, NEW n \in Node, Restart(n)
    PROVE  Inv'
  <1>1. /\ sessions' = [sessions EXCEPT ![n] = [m \in Node |-> NoSession]]
        /\ UNCHANGED ephemerals
    BY DEF Restart
  <1>2. /\ sessions \in [Node -> [Node -> Session]]
        /\ ephemerals \in [Node -> 0 .. MaxEphemeral]
        /\ \A x \in Node : ephemerals[x] \in Nat
    BY FspAssumption DEF Inv, SessionsOK, RestOK
  <1>3. \A x \in Node : SessionOK(NoSession, ephemerals[x])
    BY <1>2, NoSessionOK
  <1>4. NoSession \in Session
    BY NoSessionOK DEF SessionOK
  <1>5. SessionsOK'
    <2>1. sessions' \in [Node -> [Node -> Session]]
      BY <1>1, <1>2, <1>4
    <2>2. \A x, y \in Node : sessions'[x][y] = IF x = n THEN NoSession ELSE sessions[x][y]
      BY <1>1, <1>2
    <2>3. \A x, y \in Node : SessionOK(sessions'[x][y], ephemerals'[x])
      BY <1>1, <1>3, <2>2 DEF Inv, SessionsOK
    <2> QED
      BY <2>1, <2>3 DEF SessionsOK
  <1>6. RestOK'
    <2>1. epoch' \in [Node -> Nat]
      BY DEF Restart, Inv, RestOK
    <2>2. ensuring' \in [Node -> [Node -> BOOLEAN]]
      BY DEF Restart, Inv, RestOK
    <2>3. recovery' \in [Node -> [Node -> {"none", "running", "backoff"}]]
      BY DEF Restart, Inv, RestOK
    <2>4. draining' \in [Node -> [Node -> Seq(DataFrame)]]
      <3>1. <<>> \in Seq(DataFrame)
        OBVIOUS
      <3> QED
        BY <3>1 DEF Restart, Inv, RestOK
    <2> QED
      BY <2>1, <2>2, <2>3, <2>4 DEF Restart, Inv, RestOK
  <1> QED
    BY <1>5, <1>6 DEF Inv

-----------------------------------------------------------------------------
(* The theorems                                                            *)

\* The initial state satisfies the invariant.
LEMMA InitOK == Init => Inv
  <1> SUFFICES ASSUME Init
               PROVE  Inv
    OBVIOUS
  <1>1. RestOK
    BY FspAssumption DEF Init, RestOK
  <1>2. /\ \A n, m \in Node : sessions[n][m] = NoSession /\ ephemerals[n] = 0
        /\ sessions = [n \in Node |-> [m \in Node |-> NoSession]]
    BY DEF Init
  <1>3. SessionOK(NoSession, 0) /\ NoSession \in Session
    BY NoSessionOK DEF SessionOK
  <1>4. SessionsOK
    BY <1>2, <1>3 DEF SessionsOK
  <1> QED
    BY <1>1, <1>4 DEF Inv

\* Every step, and every stutter, preserves the invariant.
LEMMA NextOK == Inv /\ [Next]_vars => Inv'
  <1> SUFFICES ASSUME Inv, [Next]_vars
               PROVE  Inv'
    OBVIOUS
  <1>1. ASSUME NEW n \in Node, NEW m \in Node, EnsureSession(n, m)
        PROVE  Inv'
    BY <1>1, EnsureStep DEF EnsureSession, Inv, RestOK
  <1>2. ASSUME NEW n \in Node, NEW m \in Node, RouteFound(n, m)
        PROVE  Inv'
    <2>1. /\ SessionsOK'
          /\ ephemerals' \in [Node -> 0 .. MaxEphemeral]
          /\ net' \subseteq Frame
      BY <1>2, JoinOrInitiateStep DEF RouteFound, Resume
    <2>2. ensuring' \in [Node -> [Node -> BOOLEAN]]
      BY <1>2 DEF RouteFound, Inv, RestOK
    <2> QED
      BY <1>2, <2>1, <2>2 DEF RouteFound, Inv, RestOK
  <1>3. ASSUME NEW n \in Node, NEW m \in Node, RouteFailed(n, m)
        PROVE  Inv'
    <2>1. ensuring' \in [Node -> [Node -> BOOLEAN]]
      BY <1>3 DEF RouteFailed, Inv, RestOK
    <2> QED
      BY <1>3, <2>1, QuietStep DEF RouteFailed, Inv, RestOK
  <1>4. ASSUME NEW n \in Node, NEW m \in Node, RejectSetup(n, m) \/ CloseSession(n, m)
        PROVE  Inv'
    BY <1>4, DiscardStep DEF RejectSetup, CloseSession, Inv, RestOK
  <1>5. ASSUME NEW n \in Node, NEW f \in net, RecvHandshake(n, f)
        PROVE  Inv'
    BY <1>5, RecvSetupStep, RecvAckStep, RecvMsg3Step DEF RecvHandshake
  <1>6. ASSUME NEW n \in Node, NEW m \in Node, SendRecord(n, m)
        PROVE  Inv'
    BY <1>6, SendRecordStep
  <1>7. ASSUME NEW n \in Node, NEW f \in net, RecvRecord(n, f)
        PROVE  Inv'
    <2>1. f \in DataFrame /\ f.src \in Node
      BY <1>7, FrameTypes DEF RecvRecord, Inv, RestOK
    <2>2. SessionsOK'
      BY <1>7, <2>1, HandleRecordStep DEF RecvRecord
    <2> QED
      BY <1>7, <2>2 DEF RecvRecord, Inv, RestOK
  <1>8. ASSUME NEW n \in Node, NEW m \in Node, DrainEarly(n, m)
        PROVE  Inv'
    <2>1. draining[n][m] \in Seq(DataFrame) /\ draining[n][m] # <<>>
      BY <1>8 DEF DrainEarly, Inv, RestOK
    <2>2. Head(draining[n][m]) \in DataFrame /\ Tail(draining[n][m]) \in Seq(DataFrame)
      BY <2>1, HeadTailProperties
    <2>3. SessionsOK'
      BY <1>8, <2>2, HandleRecordStep DEF DrainEarly
    <2>4. draining' \in [Node -> [Node -> Seq(DataFrame)]]
      BY <1>8, <2>2 DEF DrainEarly, Inv, RestOK
    <2> QED
      BY <1>8, <2>3, <2>4 DEF DrainEarly, Inv, RestOK
  <1>9. ASSUME NEW n \in Node, NEW m \in Node, PrunePrevious(n, m)
        PROVE  Inv'
    BY <1>9, PrunePreviousStep
  <1>10. ASSUME NEW n \in Node, NEW f \in net, RecvUnknown(n, f)
         PROVE  Inv'
    <2>1. f.src \in Node /\ epoch[n] \in Nat
      BY FrameTypes DEF Inv, RestOK
    <2>2. recovery' \in [Node -> [Node -> {"none", "running", "backoff"}]]
      BY <1>10, <2>1 DEF RecvUnknown, Inv, RestOK
    <2>3. resolving' \subseteq Node \X Node \X Nat
      BY <1>10, <2>1 DEF RecvUnknown, Inv, RestOK
    <2> QED
      BY <1>10, <2>2, <2>3, QuietStep DEF RecvUnknown, Inv, RestOK
  <1>11. ASSUME NEW t \in resolving, Resolved(t)
         PROVE  Inv'
    <2>1. t[1] \in Node /\ t[2] \in Node
      BY DEF Inv, RestOK
    <2>2. /\ SessionsOK'
          /\ ephemerals' \in [Node -> 0 .. MaxEphemeral]
          /\ net' \subseteq Frame
          /\ ensuring' \in [Node -> [Node -> BOOLEAN]]
      <3>1. CASE CurrentGeneration(t)
        BY <1>11, <2>1, <3>1, EnsureStep DEF Resolved
      <3>2. CASE ~CurrentGeneration(t)
        BY <1>11, <3>2, QuietStep DEF Resolved, Inv, RestOK
      <3> QED
        BY <3>1, <3>2
    <2> QED
      BY <1>11, <2>2 DEF Resolved, Inv, RestOK
  <1>12. ASSUME NEW t \in resolving, Unresolved(t)
         PROVE  Inv'
    <2>1. t[1] \in Node /\ t[2] \in Node
      BY DEF Inv, RestOK
    <2>2. recovery' \in [Node -> [Node -> {"none", "running", "backoff"}]]
      BY <1>12, <2>1 DEF Unresolved, Inv, RestOK
    <2> QED
      BY <1>12, <2>2, QuietStep DEF Unresolved, Inv, RestOK
  <1>13. ASSUME NEW n \in Node, NEW m \in Node, RecoverySettles(n, m)
         PROVE  Inv'
    <2>1. recovery' \in [Node -> [Node -> {"none", "running", "backoff"}]]
      BY <1>13 DEF RecoverySettles, Inv, RestOK
    <2> QED
      BY <1>13, <2>1, QuietStep DEF RecoverySettles, Inv, RestOK
  <1>14. ASSUME NEW n \in Node, NEW m \in Node, BackoffExpires(n, m)
         PROVE  Inv'
    <2>1. recovery' \in [Node -> [Node -> {"none", "running", "backoff"}]]
      BY <1>14 DEF BackoffExpires, Inv, RestOK
    <2> QED
      BY <1>14, <2>1, QuietStep DEF BackoffExpires, Inv, RestOK
  <1>15. ASSUME NEW n \in Node, Restart(n)
         PROVE  Inv'
    BY <1>15, RestartStep
  <1>16. ASSUME NEW n \in Node, NEW m \in Node, RejectOrphan(n, m)
         PROVE  Inv'
    <2>1. recovery' \in [Node -> [Node -> {"none", "running", "backoff"}]]
      <3>1. \/ UNCHANGED recovery
            \/ recovery' = [recovery EXCEPT ![n][m] = "backoff"]
        BY <1>16 DEF RejectOrphan
      <3>2. recovery \in [Node -> [Node -> {"none", "running", "backoff"}]]
        BY DEF Inv, RestOK
      <3> QED
        BY <3>1, <3>2
    <2>2. orphaned' \in [Node -> [Node -> BOOLEAN]]
      BY <1>16 DEF RejectOrphan, Inv, RestOK
    <2> QED
      BY <1>16, <2>1, <2>2, QuietStep DEF RejectOrphan, Inv, RestOK
  <1>17. CASE UNCHANGED vars
    BY <1>17 DEF vars, Inv, RestOK, SessionsOK
  <1> QED
    BY <1>1, <1>2, <1>3, <1>4, <1>5, <1>6, <1>7, <1>8, <1>9, <1>10, <1>11, <1>12,
       <1>13, <1>14, <1>15, <1>16, <1>17
    DEF Next, Receive

\* The inductive invariant holds of every behaviour.
THEOREM Invariance == Spec => []Inv
  BY InitOK, NextOK, PTL DEF Spec

\* FspSessionManager never confuses its record shapes, and the early queue never
\* exceeds MAX_EARLY_ESTABLISHED_RECORDS, for any number of nodes.
THEOREM TypeCorrect == Spec => []TypeOK
  <1>1. Inv => TypeOK
    BY DEF Inv, RestOK, SessionsOK, SessionOK, TypeOK
  <1> QED
    BY <1>1, Invariance, PTL

\* A pending responder is always an unfinished handshake beside an established
\* session: the branch of handleEstablished that would receive with an established
\* pending key is never taken.
THEOREM PendingUnfinished == Spec => []PendingAwaitsMsg3
  <1>1. Inv => PendingAwaitsMsg3
    BY DEF Inv, SessionsOK, SessionOK, PendingOK, PendingAwaitsMsg3, Established
  <1> QED
    BY <1>1, Invariance, PTL

\* The draining key differs from the current one, in the key and in the K bit, so
\* handleEstablished never tries the wrong one of the two.
THEOREM DrainingDistinguished == Spec => []DrainingKeyDistinct
  <1>1. Inv => DrainingKeyDistinct
    <2> SUFFICES ASSUME Inv, NEW n \in Node, NEW m \in Node \ {n},
                        sessions[n][m].prev.state # "none"
                 PROVE  /\ sessions[n][m].prev.state = "established"
                        /\ sessions[n][m].prevK # sessions[n][m].k
                        /\ KeyOf(n, m, sessions[n][m].prev) # KeyOf(n, m, sessions[n][m].fsp)
      BY DEF DrainingKeyDistinct
    <2>1. /\ sessions[n][m].prev.state = "established"
          /\ sessions[n][m].prevK # sessions[n][m].k
          /\ sessions[n][m].prev.e # sessions[n][m].fsp.e
      BY DEF Inv, SessionsOK, SessionOK, PrevOK
    <2> QED
      BY <2>1 DEF KeyOf
  <1> QED
    BY <1>1, Invariance, PTL

\* Hence the K bit of a frame selects one established key at most, however handshakes,
\* rekeys and restarts interleave.
THEOREM KeysDistinguished == Spec => []KeysInOrder
  BY PendingUnfinished, DrainingDistinguished, PTL DEF KeysInOrder

-----------------------------------------------------------------------------
(* A second invariant, on top of the first: which life of a node every     *)
(* ephemeral belongs to, and what every key has delivered.                 *)

\* The handshake objects of a record.
LiveIn(s) == {o \in {s.fsp, s.pending, s.prev} : o.state # "none"}

\* The ephemeral of n that a key is made of.
Own(n, key) == IF key[1] = n THEN key[2] ELSE key[3]

\* The ephemeral of its sender that a frame is made with.
Mine(f) == IF f.type = "ack" THEN f.er
           ELSE IF f.type = "data" THEN Own(f.src, f.key) ELSE f.ei

\* The frames that carry the epoch of their sender.
Sealed(nt) == {f \in nt : f.type # "setup"}

FramesOK(nt, ep, eph) ==
    \A f \in nt :
        /\ f.src # f.dst
        /\ Mine(f) <= eph[f.src]
        /\ f.type # "setup" => 1 <= f.epoch /\ f.epoch <= ep[f.src]
        /\ f.type = "msg3" => f.er <= eph[f.dst]

ObjectsOK(ss, ep, eph) ==
    \A n, m \in Node : \A o \in LiveIn(ss[n][m]) :
        o.e <= eph[n] /\ o.re <= eph[m] /\ o.remoteEpoch <= ep[m]

\* An ephemeral is of one life of its owner: of the present one while an object with it
\* is left, and of the one that whoever completed a handshake with it was told.
OneLife(ss, nt, ep) ==
    /\ \A f, g \in Sealed(nt) : f.src = g.src /\ Mine(f) = Mine(g) => f.epoch = g.epoch
    /\ \A f \in Sealed(nt) : \A m \in Node : \A o \in LiveIn(ss[f.src][m]) :
           o.e = Mine(f) => f.epoch = ep[f.src]
    /\ \A n, m \in Node : \A o \in LiveIn(ss[n][m]) : o.state = "established" =>
           /\ \A f \in Sealed(nt) : f.src = m /\ Mine(f) = o.re => f.epoch = o.remoteEpoch
           /\ \A x \in Node : \A p \in LiveIn(ss[m][x]) : p.e = o.re => o.remoteEpoch = ep[m]

\* A window whose slots hold no counter above the highest.
WindowOK(w) == \A i \in 0 .. WINDOW - 1 : w.seen[i] <= w.high

RecordOK(s) ==
    /\ \A o \in LiveIn(s) :
          /\ WindowOK(o.rx)
          /\ o.state = "handshaking" => o.remoteEpoch = 0
          /\ o.state = "established" => o.remoteEpoch >= 1
    /\ s.prev.state # "none" => /\ s.prev.remoteEpoch = s.fsp.remoteEpoch
                                /\ s.pending.state # "none" => s.pending.e # s.prev.e

\* A handshake that is to renew a session is of no earlier life of the remote.
RenewalsOK(ss, nt) ==
    \A n, m \in Node : ss[n][m].pending.state # "none" =>
        \A g \in nt : g.type = "msg3" /\ g.src = m /\ g.dst = n /\ g.er = ss[n][m].pending.e =>
            g.epoch >= ss[n][m].fsp.remoteEpoch

\* What was delivered is refused by the key that opened it, wherever that is now, and by
\* whatever else is made with the same ephemeral.
RefusedBy(ss, eph, n, f) ==
    /\ Own(n, f.key) <= eph[n]
    /\ \A o \in LiveIn(ss[n][f.src]) : o.e = Own(n, f.key) =>
           /\ o.state = "established"
           /\ KeyOf(n, f.src, o) = f.key => ~Check(o.rx, f.ctr)

DeliveredOK(ss, dl, eph) ==
    \A x \in DOMAIN dl :
        /\ x \in Node \X DataFrame /\ x[1] # x[2].src /\ dl[x] = 1
        /\ RefusedBy(ss, eph, x[1], x[2])

\* The records of m for n.
Into(nt, n, m) == {f \in nt : f.type = "data" /\ f.src = m /\ f.dst = n}

\* Everything that waits came from the remote it waits for.
QueuesOK(ss, dr, nt) ==
    \A n, m \in Node : /\ ss[n][m].early \in Seq(Into(nt, n, m))
                       /\ dr[n][m] \in Seq(Into(nt, n, m))

Core(ss, nt, ep, eph) ==
    /\ FramesOK(nt, ep, eph)
    /\ ObjectsOK(ss, ep, eph)
    /\ OneLife(ss, nt, ep)
    /\ RenewalsOK(ss, nt)
    /\ \A n, m \in Node : RecordOK(ss[n][m])

Living ==
    /\ \A t \in resolving : t[1] # t[2]
    /\ \A n \in Node : epoch[n] >= 1

History ==
    /\ Living
    /\ Core(sessions, net, epoch, ephemerals)
    /\ DeliveredOK(sessions, delivered, ephemerals)
    /\ QueuesOK(sessions, draining, net)

\* One object after a step: one of before that at most has received more, a handshake
\* that has just begun, or one that has just been completed by a frame of the remote.
Kept(s, o) ==
    \E p \in LiveIn(s) :
        /\ o.role = p.role /\ o.state = p.state /\ o.e = p.e /\ o.re = p.re
        /\ o.remoteEpoch = p.remoteEpoch
        /\ \A c \in Nat : Check(o.rx, c) => Check(p.rx, c)

Fresh(o, drawn, draws, reDrawn) ==
    /\ o.state = "handshaking"
    /\ drawn < o.e
    /\ o.e <= draws
    /\ o.re <= reDrawn
    /\ o.remoteEpoch = 0

Completed(s, nt, m, o) ==
    \E p \in LiveIn(s) : \E f \in Sealed(nt) :
        /\ p.state = "handshaking" /\ o.state = "established" /\ o.e = p.e
        /\ f.src = m /\ Mine(f) = o.re /\ f.epoch = o.remoteEpoch

\* The objects tt of a step that began with ss, in which eph grew to eph2.
Evolved(ss, tt, nt, eph, eph2) ==
    \A n, m \in Node : \A o \in LiveIn(tt[n][m]) :
        \/ Kept(ss[n][m], o)
        \/ Fresh(o, eph[n], eph2[n], eph[m])
        \/ Completed(ss[n][m], nt, m, o)

Typed(ss, nt, ep, eph) ==
    /\ ss \in [Node -> [Node -> Session]]
    /\ nt \subseteq Frame
    /\ ep \in [Node -> Nat]
    /\ eph \in [Node -> Nat]

-----------------------------------------------------------------------------
LEMMA LiveTypes ==
    ASSUME NEW s \in Session, NEW o \in LiveIn(s)
    PROVE  /\ o \in Fsp
           /\ o.e \in Nat /\ o.re \in Nat /\ o.remoteEpoch \in Nat /\ o.rx \in Window
           /\ o.state # "none"
           /\ o.state \in {"handshaking", "established"}
  BY DEF LiveIn, Session, Fsp

LEMMA MineTypes ==
    ASSUME NEW f \in Frame
    PROVE  /\ f.src \in Node /\ f.dst \in Node
           /\ Mine(f) \in Nat
           /\ f.type # "setup" => f.epoch \in Nat
           /\ f.type = "msg3" => f.er \in Nat
  <1>1. CASE f \in DataFrame
    BY <1>1 DEF DataFrame, Mine, Own
  <1>2. CASE f \notin DataFrame
    BY <1>2 DEF Frame, Mine
  <1> QED
    BY <1>1, <1>2

\* The two ephemerals of a key, seen from its two ends.
LEMMA KeyEphemerals ==
    ASSUME NEW n, NEW m, n # m, NEW o
    PROVE  /\ Own(n, KeyOf(n, m, o)) = o.e
           /\ Own(m, KeyOf(n, m, o)) = o.re
  BY DEF Own, KeyOf

\* Every object of a step has the ephemeral of one of before, or one drawn since.
LEMMA EvolvedEphemeral ==
    ASSUME NEW ss, NEW tt, NEW nt, NEW eph, NEW eph2, Evolved(ss, tt, nt, eph, eph2),
           NEW n \in Node, NEW m \in Node, NEW o \in LiveIn(tt[n][m])
    PROVE  \/ \E p \in LiveIn(ss[n][m]) : p.e = o.e
           \/ eph[n] < o.e
  BY DEF Evolved, Kept, Fresh, Completed

LEMMA FramesMove ==
    ASSUME NEW ss, NEW nt, NEW ep, NEW eph, Typed(ss, nt, ep, eph), FramesOK(nt, ep, eph),
           NEW eph2 \in [Node -> Nat], \A n \in Node : eph[n] <= eph2[n]
    PROVE  FramesOK(nt, ep, eph2)
  <1> SUFFICES ASSUME NEW f \in nt
               PROVE  /\ f.src # f.dst
                      /\ Mine(f) <= eph2[f.src]
                      /\ f.type # "setup" => 1 <= f.epoch /\ f.epoch <= ep[f.src]
                      /\ f.type = "msg3" => f.er <= eph2[f.dst]
    BY DEF FramesOK
  <1>1. /\ f.src \in Node /\ f.dst \in Node /\ Mine(f) \in Nat
        /\ f.type = "msg3" => f.er \in Nat
    BY MineTypes DEF Typed
  <1>2. /\ f.src # f.dst
        /\ Mine(f) <= eph[f.src]
        /\ f.type # "setup" => 1 <= f.epoch /\ f.epoch <= ep[f.src]
        /\ f.type = "msg3" => f.er <= eph[f.dst]
    BY DEF FramesOK
  <1>3. /\ eph[f.src] <= eph2[f.src] /\ eph[f.dst] <= eph2[f.dst]
        /\ eph[f.src] \in Nat /\ eph[f.dst] \in Nat /\ eph2[f.src] \in Nat /\ eph2[f.dst] \in Nat
    BY <1>1 DEF Typed
  <1> QED
    BY <1>1, <1>2, <1>3

LEMMA ObjectsMove ==
    ASSUME NEW ss, NEW nt, NEW ep, NEW eph, Typed(ss, nt, ep, eph), FramesOK(nt, ep, eph),
           NEW eph2 \in [Node -> Nat], \A n \in Node : eph[n] <= eph2[n],
           NEW tt \in [Node -> [Node -> Session]], Evolved(ss, tt, nt, eph, eph2),
           ObjectsOK(ss, ep, eph)
    PROVE  ObjectsOK(tt, ep, eph2)
  <1> SUFFICES ASSUME NEW n \in Node, NEW m \in Node, NEW o \in LiveIn(tt[n][m])
               PROVE  o.e <= eph2[n] /\ o.re <= eph2[m] /\ o.remoteEpoch <= ep[m]
    BY DEF ObjectsOK
  <1>1. /\ eph[n] \in Nat /\ eph[m] \in Nat /\ eph2[n] \in Nat /\ eph2[m] \in Nat
        /\ eph[n] <= eph2[n] /\ eph[m] <= eph2[m] /\ ep[m] \in Nat
        /\ tt[n][m] \in Session /\ ss[n][m] \in Session
    BY DEF Typed
  <1>2. o.e \in Nat /\ o.re \in Nat /\ o.remoteEpoch \in Nat
    BY <1>1, LiveTypes
  <1>3. CASE Kept(ss[n][m], o)
    <2>1. PICK p \in LiveIn(ss[n][m]) : o.e = p.e /\ o.re = p.re /\ o.remoteEpoch = p.remoteEpoch
      BY <1>3 DEF Kept
    <2>2. p.e <= eph[n] /\ p.re <= eph[m] /\ p.remoteEpoch <= ep[m]
      BY DEF ObjectsOK
    <2> QED
      BY <1>1, <1>2, <2>1, <2>2
  <1>4. CASE Fresh(o, eph[n], eph2[n], eph[m])
    BY <1>1, <1>2, <1>4 DEF Fresh
  <1>5. CASE Completed(ss[n][m], nt, m, o)
    <2>1. PICK p \in LiveIn(ss[n][m]), f \in Sealed(nt) :
              o.e = p.e /\ f.src = m /\ Mine(f) = o.re /\ f.epoch = o.remoteEpoch
      BY <1>5 DEF Completed
    <2>2. p.e <= eph[n] /\ p.e \in Nat
      BY <1>1, LiveTypes DEF ObjectsOK
    <2>3. Mine(f) <= eph[m] /\ f.epoch <= ep[m]
      BY <2>1 DEF FramesOK, Sealed
    <2> QED
      BY <1>1, <1>2, <2>1, <2>2, <2>3
  <1> QED
    BY <1>3, <1>4, <1>5 DEF Evolved

LEMMA LivesMove ==
    ASSUME NEW ss, NEW nt, NEW ep, NEW eph, Typed(ss, nt, ep, eph), FramesOK(nt, ep, eph),
           NEW eph2 \in [Node -> Nat], \A n \in Node : eph[n] <= eph2[n],
           NEW tt \in [Node -> [Node -> Session]], Evolved(ss, tt, nt, eph, eph2),
           ObjectsOK(ss, ep, eph), OneLife(ss, nt, ep)
    PROVE  OneLife(tt, nt, ep)
  <1>0. \A f \in Sealed(nt) : /\ f \in nt /\ f.src \in Node /\ Mine(f) \in Nat
                              /\ Mine(f) <= eph[f.src] /\ eph[f.src] \in Nat
    BY MineTypes DEF Typed, FramesOK, Sealed
  <1>1. ASSUME NEW f \in Sealed(nt), NEW m \in Node, NEW o \in LiveIn(tt[f.src][m]),
               o.e = Mine(f)
        PROVE  f.epoch = ep[f.src]
    <2>1. \/ \E p \in LiveIn(ss[f.src][m]) : p.e = o.e
          \/ eph[f.src] < o.e
      BY <1>0, EvolvedEphemeral
    <2>2. ~(eph[f.src] < o.e)
      BY <1>0, <1>1
    <2>3. PICK p \in LiveIn(ss[f.src][m]) : p.e = Mine(f)
      BY <1>1, <2>1, <2>2
    <2> QED
      BY <2>3 DEF OneLife
  <1>2. ASSUME NEW n \in Node, NEW m \in Node, NEW o \in LiveIn(tt[n][m]),
               o.state = "established"
        PROVE  /\ \A f \in Sealed(nt) : f.src = m /\ Mine(f) = o.re => f.epoch = o.remoteEpoch
               /\ \A x \in Node : \A p \in LiveIn(tt[m][x]) : p.e = o.re => o.remoteEpoch = ep[m]
    <2>0. o.re \in Nat /\ eph[m] \in Nat /\ ss[n][m] \in Session
      BY LiveTypes DEF Typed
    <2>1. CASE Kept(ss[n][m], o)
      <3>1. PICK q \in LiveIn(ss[n][m]) :
                q.state = "established" /\ o.re = q.re /\ o.remoteEpoch = q.remoteEpoch
        BY <1>2, <2>1 DEF Kept
      <3>2. /\ \A f \in Sealed(nt) : f.src = m /\ Mine(f) = q.re => f.epoch = q.remoteEpoch
            /\ \A x \in Node : \A p \in LiveIn(ss[m][x]) : p.e = q.re => q.remoteEpoch = ep[m]
            /\ q.re <= eph[m]
        BY <3>1 DEF OneLife, ObjectsOK
      <3>3. ASSUME NEW x \in Node, NEW p \in LiveIn(tt[m][x]), p.e = o.re
            PROVE  o.remoteEpoch = ep[m]
        <4>1. \/ \E p0 \in LiveIn(ss[m][x]) : p0.e = p.e
              \/ eph[m] < p.e
          BY EvolvedEphemeral
        <4>2. ~(eph[m] < p.e)
          BY <2>0, <3>1, <3>2, <3>3
        <4> QED
          BY <3>1, <3>2, <3>3, <4>1, <4>2
      <3> QED
        BY <3>1, <3>2, <3>3
    <2>2. CASE Completed(ss[n][m], nt, m, o)
      <3>1. PICK f \in Sealed(nt) : f.src = m /\ Mine(f) = o.re /\ f.epoch = o.remoteEpoch
        BY <2>2 DEF Completed
      <3>2. \A g \in Sealed(nt) : g.src = m /\ Mine(g) = o.re => g.epoch = o.remoteEpoch
        BY <3>1 DEF OneLife
      <3>3. ASSUME NEW x \in Node, NEW p \in LiveIn(tt[m][x]), p.e = o.re
            PROVE  o.remoteEpoch = ep[m]
        BY <1>1, <3>1, <3>3
      <3> QED
        BY <3>2, <3>3
    <2>3. CASE Fresh(o, eph[n], eph2[n], eph[m])
      BY <1>2, <2>3 DEF Fresh
    <2> QED
      BY <2>1, <2>2, <2>3 DEF Evolved
  <1>3. \A f, g \in Sealed(nt) : f.src = g.src /\ Mine(f) = Mine(g) => f.epoch = g.epoch
    BY DEF OneLife
  <1> QED
    BY <1>1, <1>2, <1>3 DEF OneLife

\* How a record may come to have a pending handshake.
Renewed(s, t, drawn) ==
    t.pending.state # "none" =>
        \/ drawn < t.pending.e
        \/ /\ s.pending.state # "none"
           /\ t.pending.e = s.pending.e
           /\ t.fsp.remoteEpoch = s.fsp.remoteEpoch

LEMMA RenewalsMove ==
    ASSUME NEW ss, NEW nt, NEW ep, NEW eph, Typed(ss, nt, ep, eph), FramesOK(nt, ep, eph),
           NEW tt \in [Node -> [Node -> Session]], RenewalsOK(ss, nt),
           \A n, m \in Node : Renewed(ss[n][m], tt[n][m], eph[n])
    PROVE  RenewalsOK(tt, nt)
  <1> SUFFICES ASSUME NEW n \in Node, NEW m \in Node, tt[n][m].pending.state # "none",
                      NEW g \in nt, g.type = "msg3", g.src = m, g.dst = n,
                      g.er = tt[n][m].pending.e
               PROVE  g.epoch >= tt[n][m].fsp.remoteEpoch
    BY DEF RenewalsOK
  <1>1. g.er \in Nat /\ g.er <= eph[n] /\ eph[n] \in Nat
    BY MineTypes DEF Typed, FramesOK
  <1>2. /\ ss[n][m].pending.state # "none"
        /\ tt[n][m].pending.e = ss[n][m].pending.e
        /\ tt[n][m].fsp.remoteEpoch = ss[n][m].fsp.remoteEpoch
    BY <1>1 DEF Renewed
  <1> QED
    BY <1>2 DEF RenewalsOK

LEMMA RefusedMove ==
    ASSUME NEW ss, NEW nt, NEW ep, NEW eph, Typed(ss, nt, ep, eph),
           NEW eph2 \in [Node -> Nat], \A n \in Node : eph[n] <= eph2[n],
           NEW tt \in [Node -> [Node -> Session]], Evolved(ss, tt, nt, eph, eph2),
           NEW n \in Node, NEW f \in DataFrame, RefusedBy(ss, eph, n, f)
    PROVE  RefusedBy(tt, eph2, n, f)
  <1> DEFINE m == f.src
  <1>0. m \in Node /\ Own(n, f.key) \in Nat /\ eph[n] \in Nat /\ eph2[n] \in Nat /\ f.ctr \in Nat
    BY FspAssumption DEF DataFrame, Own, Typed
  <1>1. Own(n, f.key) <= eph2[n]
    BY <1>0 DEF RefusedBy
  <1>2. ASSUME NEW o \in LiveIn(tt[n][m]), o.e = Own(n, f.key)
        PROVE  /\ o.state = "established"
               /\ KeyOf(n, m, o) = f.key => ~Check(o.rx, f.ctr)
    <2>0. o.e \in Nat /\ o.e <= eph[n]
      BY <1>0, <1>2 DEF RefusedBy
    <2>1. CASE Kept(ss[n][m], o)
      <3>1. PICK p \in LiveIn(ss[n][m]) :
                /\ o.role = p.role /\ o.state = p.state /\ o.e = p.e /\ o.re = p.re
                /\ \A c \in Nat : Check(o.rx, c) => Check(p.rx, c)
        BY <2>1 DEF Kept
      <3>2. p.state = "established" /\ (KeyOf(n, m, p) = f.key => ~Check(p.rx, f.ctr))
        BY <1>2, <3>1 DEF RefusedBy
      <3>3. KeyOf(n, m, o) = KeyOf(n, m, p)
        BY <3>1 DEF KeyOf
      <3> QED
        BY <1>0, <3>1, <3>2, <3>3
    <2>2. CASE Fresh(o, eph[n], eph2[n], eph[m])
      BY <1>0, <2>0, <2>2 DEF Fresh
    <2>3. CASE Completed(ss[n][m], nt, m, o)
      <3>1. PICK p \in LiveIn(ss[n][m]) : p.state = "handshaking" /\ o.e = p.e
        BY <2>3 DEF Completed
      <3> QED
        BY <1>2, <3>1 DEF RefusedBy
    <2> QED
      BY <1>0, <2>1, <2>2, <2>3 DEF Evolved
  <1> QED
    BY <1>1, <1>2 DEF RefusedBy

\* A frame may be sent: its sender holds the ephemeral it was made with.
MaySend(ss, ep, eph, g) ==
    /\ g \in Frame
    /\ g.src # g.dst
    /\ Mine(g) <= eph[g.src]
    /\ g.type # "setup" => /\ g.epoch = ep[g.src]
                           /\ \E x \in Node : \E o \in LiveIn(ss[g.src][x]) : o.e = Mine(g)
    /\ g.type = "msg3" => g.er <= eph[g.dst]

LEMMA FramesGrow ==
    ASSUME NEW ss, NEW nt, NEW ep, NEW eph, Typed(ss, nt, ep, eph), FramesOK(nt, ep, eph),
           \A n \in Node : ep[n] >= 1, NEW g, MaySend(ss, ep, eph, g)
    PROVE  FramesOK(nt \cup {g}, ep, eph)
  <1>1. g.src \in Node
    BY MineTypes DEF MaySend
  <1>2. g.type # "setup" => 1 <= g.epoch /\ g.epoch <= ep[g.src]
    BY <1>1 DEF MaySend, Typed
  <1> QED
    BY <1>2 DEF FramesOK, MaySend

LEMMA LivesGrow ==
    ASSUME NEW ss, NEW nt, NEW ep, NEW eph, Typed(ss, nt, ep, eph), OneLife(ss, nt, ep),
           NEW g, MaySend(ss, ep, eph, g)
    PROVE  OneLife(ss, nt \cup {g}, ep)
  <1>1. CASE g.type = "setup"
    <2>1. Sealed(nt \cup {g}) = Sealed(nt)
      BY <1>1 DEF Sealed
    <2> QED
      BY <2>1 DEF OneLife
  <1>2. CASE g.type # "setup"
    <2>0. \A f \in Sealed(nt \cup {g}) : f \in Sealed(nt) \/ f = g
      BY DEF Sealed
    <2>a. PICK x \in Node : \E o \in LiveIn(ss[g.src][x]) : o.e = Mine(g)
      BY <1>2 DEF MaySend
    <2>1. PICK o \in LiveIn(ss[g.src][x]) : o.e = Mine(g)
      BY <2>a
    <2>2. g.epoch = ep[g.src] /\ g.src \in Node
      BY <1>2, MineTypes DEF MaySend
    <2>3. ASSUME NEW f \in Sealed(nt), f.src = g.src, Mine(f) = Mine(g)
          PROVE  f.epoch = g.epoch
      BY <2>1, <2>2, <2>3 DEF OneLife
    <2>4. \A f, h \in Sealed(nt \cup {g}) : f.src = h.src /\ Mine(f) = Mine(h) => f.epoch = h.epoch
      <3> SUFFICES ASSUME NEW f \in Sealed(nt \cup {g}), NEW h \in Sealed(nt \cup {g}),
                          f.src = h.src, Mine(f) = Mine(h)
                   PROVE  f.epoch = h.epoch
        OBVIOUS
      <3>1. CASE f \in Sealed(nt) /\ h \in Sealed(nt)
        BY <3>1 DEF OneLife
      <3>2. CASE f = g \/ h = g
        BY <2>0, <2>3, <3>2
      <3> QED
        BY <2>0, <3>1, <3>2
    <2>5. \A f \in Sealed(nt \cup {g}) : \A m \in Node : \A p \in LiveIn(ss[f.src][m]) :
             p.e = Mine(f) => f.epoch = ep[f.src]
      BY <2>0, <2>2 DEF OneLife
    <2>6. ASSUME NEW n \in Node, NEW m \in Node, NEW p \in LiveIn(ss[n][m]),
                 p.state = "established"
          PROVE  /\ \A f \in Sealed(nt \cup {g}) :
                        f.src = m /\ Mine(f) = p.re => f.epoch = p.remoteEpoch
                 /\ \A y \in Node : \A q \in LiveIn(ss[m][y]) : q.e = p.re => p.remoteEpoch = ep[m]
      <3>1. /\ \A f \in Sealed(nt) : f.src = m /\ Mine(f) = p.re => f.epoch = p.remoteEpoch
            /\ \A y \in Node : \A q \in LiveIn(ss[m][y]) : q.e = p.re => p.remoteEpoch = ep[m]
        BY <2>6 DEF OneLife
      <3>2. g.src = m /\ Mine(g) = p.re => g.epoch = p.remoteEpoch
        BY <2>1, <2>2, <3>1
      <3> QED
        BY <2>0, <3>1, <3>2
    <2> QED
      BY <2>4, <2>5, <2>6 DEF OneLife
  <1> QED
    BY <1>1, <1>2

LEMMA RenewalsGrow ==
    ASSUME NEW ss, NEW nt, NEW ep, NEW eph, Typed(ss, nt, ep, eph), RenewalsOK(ss, nt),
           ObjectsOK(ss, ep, eph), NEW g, MaySend(ss, ep, eph, g),
           \A n, m \in Node : ss[n][m].pending.state # "none" => ss[n][m].fsp.state # "none"
    PROVE  RenewalsOK(ss, nt \cup {g})
  <1> SUFFICES ASSUME NEW n \in Node, NEW m \in Node, ss[n][m].pending.state # "none",
                      g.type = "msg3", g.src = m
               PROVE  g.epoch >= ss[n][m].fsp.remoteEpoch
    BY DEF RenewalsOK
  <1>1. ss[n][m].fsp \in LiveIn(ss[n][m])
    BY DEF LiveIn
  <1>2. ss[n][m].fsp.remoteEpoch <= ep[m]
    BY <1>1 DEF ObjectsOK
  <1>3. g.epoch = ep[m]
    BY DEF MaySend
  <1>4. ss[n][m].fsp.remoteEpoch \in Nat /\ ep[m] \in Nat
    BY <1>1, LiveTypes DEF Typed
  <1> QED
    BY <1>2, <1>3, <1>4

-----------------------------------------------------------------------------
(* Windows                                                                 *)

\* Two counters less than WINDOW apart that share a slot are the same counter.
LEMMA OneCounterPerSlot ==
    ASSUME NEW a \in Nat, NEW b \in Nat, a % WINDOW = b % WINDOW,
           a - b < WINDOW, b - a < WINDOW
    PROVE  a = b
  <1> DEFINE x == a \div WINDOW
             y == b \div WINDOW
  <1>1. /\ a = WINDOW * x + (a % WINDOW)
        /\ b = WINDOW * y + (b % WINDOW)
        /\ x \in Int
        /\ y \in Int
    BY WindowAssumption
  <1> HIDE DEF x, y
  <1>2. a - b = WINDOW * (x - y)
    BY <1>1, WindowAssumption
  <1>3. x - y < 1 /\ x - y > -1
    BY <1>1, <1>2, WindowAssumption
  <1> QED
    BY <1>1, <1>2, <1>3, WindowAssumption

\* A window that accepts a counter refuses it from then on, and everything that it
\* refused before.
LEMMA WindowAdvances ==
    ASSUME NEW w \in Window, WindowOK(w), NEW c \in Nat, Check(w, c)
    PROVE  /\ WindowOK(Accept(w, c))
           /\ ~Check(Accept(w, c), c)
           /\ \A x \in Nat : Check(Accept(w, c), x) => Check(w, x)
  <1> DEFINE v == Accept(w, c)
             i == c % WINDOW
  <1>0. /\ i \in 0 .. WINDOW - 1
        /\ w.high \in Int /\ w.seen \in [0 .. WINDOW - 1 -> Int]
    BY WindowAssumption DEF Window, Acceptable, Counter, Undefined
  <1>1. /\ v.high = IF c > w.high THEN c ELSE w.high
        /\ v.high \in Int /\ v.high >= w.high /\ v.high >= c
        /\ v.seen = [w.seen EXCEPT ![i] = c]
    BY <1>0 DEF Accept
  <1>2. v.seen[i] = c /\ \A j \in 0 .. WINDOW - 1 : j # i => v.seen[j] = w.seen[j]
    BY <1>0, <1>1
  <1> HIDE DEF v
  <1>3. WindowOK(v)
    <2> SUFFICES ASSUME NEW j \in 0 .. WINDOW - 1
                 PROVE  v.seen[j] <= v.high
      BY DEF WindowOK
    <2>1. w.seen[j] <= w.high /\ w.seen[j] \in Int
      BY <1>0 DEF WindowOK
    <2> QED
      BY <1>0, <1>1, <1>2, <2>1
  <1>4. ~Check(v, c)
    BY <1>2 DEF Check
  <1>5. ASSUME NEW x \in Nat, Check(v, x)
        PROVE  Check(w, x)
    <2>1. x < Exhausted /\ v.high - x < WINDOW /\ v.seen[x % WINDOW] # x
      BY <1>5 DEF Check
    <2>0. /\ w.high \in Int /\ v.high \in Int /\ v.high >= w.high /\ v.high >= c
          /\ x \in Int /\ c \in Int /\ WINDOW \in Int
      BY <1>0, <1>1, WindowAssumption
    <2>2. w.high - x < WINDOW
      BY ONLY <2>0, <2>1
    <2>3. x % WINDOW \in 0 .. WINDOW - 1
      BY WindowAssumption
    <2>4. CASE x % WINDOW # i
      BY <1>2, <2>1, <2>2, <2>3, <2>4 DEF Check
    <2>5. CASE x % WINDOW = i
      <3> HIDE DEF i
      <3>1. c # x
        BY <1>2, <2>1, <2>5
      <3>2. w.seen[i] # x
        <4> SUFFICES ASSUME w.seen[i] = x
                     PROVE  FALSE
          OBVIOUS
        <4>1. x <= w.high
          BY <1>0 DEF WindowOK
        <4>2. w.high - c < WINDOW
          BY DEF Check
        <4>3. x - c < WINDOW /\ c - x < WINDOW
          BY ONLY <2>0, <2>1, <4>1, <4>2
        <4> QED
          BY <2>5, <3>1, <4>3, OneCounterPerSlot DEF i
      <3> QED
        BY <2>1, <2>2, <2>5, <3>2 DEF Check
    <2> QED
      BY <2>4, <2>5
  <1> QED
    BY <1>3, <1>4, <1>5 DEF v

-----------------------------------------------------------------------------
(* Steps of one record                                                     *)

\* The objects of t come from those of n's record for m.
Follows(n, m, t) ==
    \A o \in LiveIn(t) :
        \/ Kept(sessions[n][m], o)
        \/ Fresh(o, ephemerals[n], ephemerals'[n], ephemerals[m])
        \/ Completed(sessions[n][m], net, m, o)

LEMMA KeptItself ==
    ASSUME NEW s, NEW o \in LiveIn(s)
    PROVE  Kept(s, o)
  BY DEF Kept

LEMMA RecordMoves ==
    ASSUME Inv, Inv', History, NEW n \in Node, NEW m \in Node, NEW t, SetSession(n, m, t),
           UNCHANGED epoch, \A x \in Node : ephemerals[x] <= ephemerals'[x],
           Follows(n, m, t), RecordOK(t), Renewed(sessions[n][m], t, ephemerals[n])
    PROVE  /\ Core(sessions', net, epoch', ephemerals')
           /\ \A x \in DOMAIN delivered : RefusedBy(sessions', ephemerals', x[1], x[2])
  <1> DEFINE ss == sessions
             tt == sessions'
             eph == ephemerals
             eph2 == ephemerals'
  <1>1. Typed(ss, net, epoch, eph)
    <2>1. ss \in [Node -> [Node -> Session]]
      BY DEF Inv, SessionsOK
    <2>2. eph \in [Node -> Nat]
      <3>1. eph \in [Node -> 0 .. MaxEphemeral]
        BY DEF Inv, RestOK
      <3> QED
        BY <3>1, FspAssumption
    <2>3. net \subseteq Frame /\ epoch \in [Node -> Nat]
      BY DEF Inv, RestOK
    <2> QED
      BY <2>1, <2>2, <2>3 DEF Typed
  <1>2. tt \in [Node -> [Node -> Session]] /\ eph2 \in [Node -> Nat]
    <2>1. tt \in [Node -> [Node -> Session]]
      BY DEF Inv, SessionsOK
    <2>2. eph2 \in [Node -> 0 .. MaxEphemeral]
      BY DEF Inv, RestOK
    <2>3. eph2 \in [Node -> Nat]
      BY <2>2, FspAssumption
    <2> QED
      BY <2>1, <2>3
  <1>3. \A x, y \in Node : tt[x][y] = IF x = n /\ y = m THEN t ELSE ss[x][y]
    BY <1>1 DEF SetSession, Typed
  <1>4. Evolved(ss, tt, net, eph, eph2)
    <2> SUFFICES ASSUME NEW x \in Node, NEW y \in Node, NEW o \in LiveIn(tt[x][y])
                 PROVE  \/ Kept(ss[x][y], o)
                        \/ Fresh(o, eph[x], eph2[x], eph[y])
                        \/ Completed(ss[x][y], net, y, o)
      BY DEF Evolved
    <2>1. CASE x = n /\ y = m
      BY <1>3, <2>1 DEF Follows
    <2>2. CASE ~(x = n /\ y = m)
      <3>1. o \in LiveIn(ss[x][y])
        BY <1>3, <2>2
      <3> QED
        BY <3>1, KeptItself
    <2> QED
      BY <2>1, <2>2
  <1>5. \A x, y \in Node : Renewed(ss[x][y], tt[x][y], eph[x])
    BY <1>3 DEF Renewed
  <1>6. \A x, y \in Node : RecordOK(tt[x][y])
    BY <1>3 DEF History, Core
  <1>7. Core(ss, net, epoch, eph) /\ DeliveredOK(ss, delivered, eph)
    BY DEF History
  <1>8. \A x \in Node : eph[x] <= eph2[x]
    OBVIOUS
  <1>9. \A x \in DOMAIN delivered : x[1] \in Node /\ x[2] \in DataFrame /\ RefusedBy(ss, eph, x[1], x[2])
    BY <1>7 DEF DeliveredOK
  <1> HIDE DEF ss, tt, eph, eph2
  <1>10. FramesOK(net, epoch, eph2)
    BY <1>1, <1>2, <1>7, <1>8, FramesMove DEF Core
  <1>11. ObjectsOK(tt, epoch, eph2)
    BY <1>1, <1>2, <1>4, <1>7, <1>8, ObjectsMove DEF Core
  <1>12. OneLife(tt, net, epoch)
    BY <1>1, <1>2, <1>4, <1>7, <1>8, LivesMove DEF Core
  <1>13. RenewalsOK(tt, net)
    BY <1>1, <1>2, <1>5, <1>7, RenewalsMove DEF Core
  <1>14. \A x \in DOMAIN delivered : RefusedBy(tt, eph2, x[1], x[2])
    <2> SUFFICES ASSUME NEW x \in DOMAIN delivered
                 PROVE  RefusedBy(tt, eph2, x[1], x[2])
      OBVIOUS
    <2> DEFINE a == x[1]
               b == x[2]
    <2>1. a \in Node /\ b \in DataFrame /\ RefusedBy(ss, eph, a, b)
      BY <1>9
    <2> HIDE DEF a, b
    <2>2. RefusedBy(tt, eph2, a, b)
      BY <1>1, <1>2, <1>4, <1>8, <2>1, RefusedMove
    <2> QED
      BY <2>2 DEF a, b
  <1>15. Core(tt, net, epoch, eph2)
    BY <1>6, <1>10, <1>11, <1>12, <1>13 DEF Core
  <1> QED
    BY <1>14, <1>15 DEF tt, eph2

LEMMA CoreGrows ==
    ASSUME NEW ss, NEW nt, NEW ep, NEW eph, Typed(ss, nt, ep, eph), Core(ss, nt, ep, eph),
           \A n \in Node : ep[n] >= 1,
           \A n, m \in Node : ss[n][m].pending.state # "none" => ss[n][m].fsp.state # "none",
           NEW g, MaySend(ss, ep, eph, g)
    PROVE  Core(ss, nt \cup {g}, ep, eph)
  <1>1. FramesOK(nt \cup {g}, ep, eph)
    BY FramesGrow DEF Core
  <1>2. OneLife(ss, nt \cup {g}, ep)
    BY LivesGrow DEF Core
  <1>3. RenewalsOK(ss, nt \cup {g})
    BY RenewalsGrow DEF Core
  <1> QED
    BY <1>1, <1>2, <1>3 DEF Core

LEMMA IntoGrows ==
    ASSUME NEW nt, NEW nt2, nt \subseteq nt2, NEW n, NEW m, NEW q \in Seq(Into(nt, n, m))
    PROVE  q \in Seq(Into(nt2, n, m))
  <1>1. Into(nt, n, m) \subseteq Into(nt2, n, m)
    BY DEF Into
  <1> QED
    BY <1>1

LEMMA QueuesMove ==
    ASSUME Inv, QueuesOK(sessions, draining, net), net \subseteq net',
           NEW n \in Node, NEW m \in Node, NEW t, SetSession(n, m, t),
           t.early \in Seq(Into(net', n, m)),
           \A x, y \in Node : \/ draining'[x][y] = draining[x][y]
                              \/ draining'[x][y] \in Seq(Into(net', x, y))
    PROVE  QueuesOK(sessions', draining', net')
  <1>1. sessions \in [Node -> [Node -> Session]]
    BY DEF Inv, SessionsOK
  <1>2. \A x, y \in Node : sessions'[x][y] = IF x = n /\ y = m THEN t ELSE sessions[x][y]
    BY <1>1 DEF SetSession
  <1>3. ASSUME NEW x \in Node, NEW y \in Node
        PROVE  sessions'[x][y].early \in Seq(Into(net', x, y))
    <2>1. CASE x = n /\ y = m
      BY <1>2, <2>1
    <2>2. CASE ~(x = n /\ y = m)
      <3>1. sessions'[x][y].early = sessions[x][y].early
        BY <1>2, <2>2
      <3>2. sessions[x][y].early \in Seq(Into(net, x, y))
        BY DEF QueuesOK
      <3> QED
        BY <3>1, <3>2, IntoGrows
    <2> QED
      BY <2>1, <2>2
  <1>4. ASSUME NEW x \in Node, NEW y \in Node
        PROVE  draining'[x][y] \in Seq(Into(net', x, y))
    <2>1. CASE draining'[x][y] = draining[x][y]
      <3>1. draining[x][y] \in Seq(Into(net, x, y))
        BY DEF QueuesOK
      <3> QED
        BY <2>1, <3>1, IntoGrows
    <2>2. CASE draining'[x][y] \in Seq(Into(net', x, y))
      BY <2>2
    <2> QED
      BY <2>1, <2>2
  <1> QED
    BY <1>3, <1>4 DEF QueuesOK

\* The parts of a step of n's record for m that goes from t on.
Grows == \A x \in Node : ephemerals[x] <= ephemerals'[x]

Waits ==
    \A x, y \in Node : \/ draining'[x][y] = draining[x][y]
                       \/ draining'[x][y] \in Seq(Into(net', x, y))

Moves(n, m, t) ==
    /\ SetSession(n, m, t)
    /\ UNCHANGED <<epoch, delivered>>
    /\ Grows
    /\ Follows(n, m, t)
    /\ RecordOK(t)
    /\ Renewed(sessions[n][m], t, ephemerals[n])
    /\ \/ t.early = sessions[n][m].early
       \/ t.early \in Seq(Into(net', n, m))
    /\ Waits
    /\ Living'

\* A step that moves one record and sends one frame.
LEMMA MovesAndSends ==
    ASSUME Inv, Inv', History, NEW n \in Node, NEW m \in Node, NEW t, Moves(n, m, t),
           NEW g, net' = net \cup {g}, MaySend(sessions', epoch', ephemerals', g)
    PROVE  History'
  <1>1. /\ Core(sessions', net, epoch', ephemerals')
        /\ \A x \in DOMAIN delivered : RefusedBy(sessions', ephemerals', x[1], x[2])
    BY RecordMoves DEF Moves, Grows
  <1>2. Core(sessions', net', epoch', ephemerals')
    <2>a. net \subseteq Frame
      BY DEF Inv, RestOK
    <2>b. sessions' \in [Node -> [Node -> Session]]
      BY DEF Inv, SessionsOK
    <2>d. ephemerals' \in [Node -> Nat]
      <3>1. ephemerals' \in [Node -> 0 .. MaxEphemeral]
        BY DEF Inv, RestOK
      <3> QED
        BY <3>1, FspAssumption
    <2>c. epoch' \in [Node -> Nat]
      BY DEF Inv, RestOK
    <2>1. Typed(sessions', net, epoch', ephemerals')
      BY <2>a, <2>b, <2>c, <2>d DEF Typed
    <2>2. \A x, y \in Node : sessions'[x][y].pending.state # "none" => sessions'[x][y].fsp.state # "none"
      BY DEF Inv, SessionsOK, SessionOK, PendingOK
    <2>3. \A x \in Node : epoch'[x] >= 1
      BY DEF Living, Moves
    <2> QED
      BY <1>1, <2>1, <2>2, <2>3, CoreGrows
  <1>3. DeliveredOK(sessions', delivered', ephemerals')
    BY <1>1 DEF History, DeliveredOK, Moves
  <1>4. QueuesOK(sessions', draining', net')
    <2>1. QueuesOK(sessions, draining, net) /\ net \subseteq net'
      BY DEF History
    <2>2. t.early \in Seq(Into(net', n, m))
      <3>1. sessions[n][m].early \in Seq(Into(net, n, m))
        BY <2>1 DEF QueuesOK
      <3>2. sessions[n][m].early \in Seq(Into(net', n, m))
        BY <2>1, <3>1, IntoGrows
      <3> QED
        BY <3>2 DEF Moves
    <2> QED
      BY <2>1, <2>2, QueuesMove DEF Moves, Waits
  <1> QED
    BY <1>2, <1>3, <1>4 DEF History, Moves

\* A step that moves one record and sends nothing.
LEMMA MovesOnly ==
    ASSUME Inv, Inv', History, NEW n \in Node, NEW m \in Node, NEW t, Moves(n, m, t),
           UNCHANGED net
    PROVE  History'
  <1>1. /\ Core(sessions', net, epoch', ephemerals')
        /\ \A x \in DOMAIN delivered : RefusedBy(sessions', ephemerals', x[1], x[2])
    BY RecordMoves DEF Moves, Grows
  <1>2. DeliveredOK(sessions', delivered', ephemerals')
    BY <1>1 DEF History, DeliveredOK, Moves
  <1>3. QueuesOK(sessions', draining', net')
    <2>1. QueuesOK(sessions, draining, net) /\ net \subseteq net'
      BY DEF History
    <2>2. t.early \in Seq(Into(net', n, m))
      <3>1. sessions[n][m].early \in Seq(Into(net, n, m))
        BY <2>1 DEF QueuesOK
      <3> QED
        BY <3>1 DEF Moves
    <2> QED
      BY <2>1, <2>2, QueuesMove DEF Moves, Waits
  <1> QED
    BY <1>1, <1>2, <1>3 DEF History, Moves

\* The same for a step that leaves the records, the frames and what waits alone.
LEMMA RestSteps ==
    ASSUME History, UNCHANGED <<epoch, ephemerals, sessions, draining, net, delivered>>, Living'
    PROVE  History'
  BY DEF History

-----------------------------------------------------------------------------
(* One action at a time                                                    *)

\* What the actions use of the two invariants about one record.
LEMMA RecordFacts ==
    ASSUME Inv, History, NEW n \in Node, NEW m \in Node
    PROVE  /\ sessions[n][m] \in Session
           /\ sessions[n][m].fsp \in Fsp /\ sessions[n][m].pending \in Fsp
           /\ sessions[n][m].prev \in Fsp
           /\ PendingOK(sessions[n][m]) /\ PrevOK(sessions[n][m])
           /\ RecordOK(sessions[n][m])
           /\ \A o \in LiveIn(sessions[n][m]) :
                  o.e <= ephemerals[n] /\ o.re <= ephemerals[m] /\ o.remoteEpoch <= epoch[m]
           /\ ephemerals[n] \in Nat /\ ephemerals[m] \in Nat /\ epoch[n] \in Nat
           /\ epoch[m] \in Nat
  <1>1. /\ sessions[n][m] \in Session
        /\ PendingOK(sessions[n][m]) /\ PrevOK(sessions[n][m])
        /\ ephemerals[n] \in Nat /\ ephemerals[m] \in Nat /\ epoch[n] \in Nat
        /\ epoch[m] \in Nat
    BY SessionFacts DEF SessionOK
  <1>2. RecordOK(sessions[n][m])
    BY DEF History, Core
  <1>3. \A o \in LiveIn(sessions[n][m]) :
            o.e <= ephemerals[n] /\ o.re <= ephemerals[m] /\ o.remoteEpoch <= epoch[m]
    BY DEF History, Core, ObjectsOK
  <1> QED
    BY <1>1, <1>2, <1>3 DEF Session

\* A record whose handshake objects are those of before.
LEMMA SameObjects ==
    ASSUME Inv, History, NEW n \in Node, NEW m \in Node, NEW t,
           t.fsp = sessions[n][m].fsp, t.pending = sessions[n][m].pending,
           t.prev = sessions[n][m].prev
    PROVE  Follows(n, m, t) /\ RecordOK(t) /\ Renewed(sessions[n][m], t, ephemerals[n])
  <1>1. LiveIn(t) = LiveIn(sessions[n][m])
    BY DEF LiveIn
  <1>2. RecordOK(sessions[n][m])
    BY RecordFacts
  <1> QED
    BY <1>1, <1>2, KeptItself DEF Follows, RecordOK, Renewed

\* A new record with one object that has just begun.
LEMMA BeginsRecord ==
    ASSUME Inv, History, NEW n \in Node, NEW m \in Node,
           ephemerals'[n] = ephemerals[n] + 1, NEW o, NEW t,
           o.state = "handshaking", o.e = ephemerals[n] + 1, o.re <= ephemerals[m],
           o.remoteEpoch = 0, o.rx = EmptyWindow,
           t.fsp = o, t.pending.state = "none", t.prev.state = "none"
    PROVE  /\ LiveIn(t) = {o}
           /\ Follows(n, m, t) /\ RecordOK(t) /\ Renewed(sessions[n][m], t, ephemerals[n])
  <1>1. LiveIn(t) = {o}
    BY DEF LiveIn
  <1>2. ephemerals[n] \in Nat
    BY RecordFacts
  <1>3. Fresh(o, ephemerals[n], ephemerals'[n], ephemerals[m])
    BY <1>2 DEF Fresh
  <1>4. WindowOK(EmptyWindow)
    BY WindowAssumption DEF WindowOK, EmptyWindow, Undefined
  <1>5. RecordOK(t)
    BY <1>1, <1>4 DEF RecordOK
  <1>6. Renewed(sessions[n][m], t, ephemerals[n])
    BY DEF Renewed
  <1> QED
    BY <1>1, <1>3, <1>5, <1>6 DEF Follows

LEMMA InitiateKeeps ==
    ASSUME Inv, Inv', History, NEW n \in Node, NEW m \in Node, n # m, Initiate(n, m),
           UNCHANGED <<epoch, draining, delivered>>, Living'
    PROVE  History'
  <1> DEFINE e == ephemerals[n] + 1
             t == NewSession(NewFsp("initiator", e, 0), TRUE, TRUE)
             g == SetupFrame(n, m, e)
  <1>1. /\ ephemerals' = [ephemerals EXCEPT ![n] = e]
        /\ SetSession(n, m, t)
        /\ net' = net \cup {g}
    BY DEF Initiate, Initiator
  <1>2. /\ \A x \in Node : ephemerals[x] <= ephemerals'[x]
        /\ ephemerals'[n] = e
    BY DrawStep DEF Initiate
  <1>3. e \in Nat /\ 0 <= ephemerals[m]
    BY RecordFacts
  <1>4. /\ Follows(n, m, t) /\ RecordOK(t) /\ Renewed(sessions[n][m], t, ephemerals[n])
        /\ t.early = <<>>
    <2> DEFINE o == NewFsp("initiator", e, 0)
    <2>1. /\ o.state = "handshaking" /\ o.e = e /\ o.re = 0 /\ o.remoteEpoch = 0
          /\ o.rx = EmptyWindow
      BY DEF NewFsp
    <2>2. t.fsp = o /\ t.pending.state = "none" /\ t.prev.state = "none" /\ t.early = <<>>
      BY DEF NewSession, NoFsp
    <2> HIDE DEF o, t
    <2> QED
      BY <1>2, <1>3, <2>1, <2>2, BeginsRecord
  <1>5. MaySend(sessions', epoch', ephemerals', g)
    <2> HIDE DEF e
    <2>1. g \in Frame /\ g.src = n /\ g.dst = m /\ g.type = "setup" /\ g.ei = e
      BY <1>3 DEF SetupFrame, Frame
    <2>2. Mine(g) = e
      BY <2>1 DEF Mine
    <2> QED
      BY <1>2, <1>3, <2>1, <2>2 DEF MaySend
  <1> HIDE DEF t, g
  <1>6. Moves(n, m, t)
    BY <1>1, <1>2, <1>4 DEF Moves, Grows, Waits
  <1> QED
    BY <1>1, <1>5, <1>6, MovesAndSends

LEMMA JoinKeeps ==
    ASSUME Inv, Inv', History, NEW n \in Node, NEW m \in Node, Join(n, m),
           UNCHANGED <<epoch, draining, delivered>>, Living'
    PROVE  History'
  <1> DEFINE s == sessions[n][m]
             t == [s EXCEPT !.setup = TRUE]
  <1>1. SetSession(n, m, t) /\ UNCHANGED <<ephemerals, net>>
    BY DEF Join
  <1>2. s \in Session /\ \A x \in Node : ephemerals[x] \in Nat
    BY RecordFacts
  <1>3. t.fsp = s.fsp /\ t.pending = s.pending /\ t.prev = s.prev /\ t.early = s.early
    BY <1>2 DEF Session
  <1> HIDE DEF t
  <1>4. Follows(n, m, t) /\ RecordOK(t) /\ Renewed(sessions[n][m], t, ephemerals[n])
    BY <1>3, SameObjects
  <1>5. \A x \in Node : ephemerals[x] <= ephemerals'[x]
    BY <1>1, <1>2
  <1>6. Moves(n, m, t)
    BY <1>1, <1>3, <1>4, <1>5 DEF Moves, Grows, Waits
  <1> QED
    BY <1>1, <1>6, MovesOnly

LEMMA JoinOrInitiateKeeps ==
    ASSUME Inv, Inv', History, NEW n \in Node, NEW m \in Node, n # m, JoinOrInitiate(n, m),
           UNCHANGED <<epoch, draining, delivered>>, Living'
    PROVE  History'
  <1>1. CASE Reuse(n, m)
    BY <1>1, RestSteps DEF Reuse
  <1>2. CASE Join(n, m)
    BY <1>2, JoinKeeps
  <1>3. CASE Initiate(n, m)
    BY <1>3, InitiateKeeps
  <1> QED
    BY <1>1, <1>2, <1>3 DEF JoinOrInitiate

LEMMA EnsureKeeps ==
    ASSUME Inv, Inv', History, NEW n \in Node, NEW m \in Node, n # m, Ensure(n, m),
           UNCHANGED <<epoch, draining, delivered>>, Living'
    PROVE  History'
  <1>1. CASE JoinOrInitiate(n, m)
    BY <1>1, JoinOrInitiateKeeps
  <1>2. CASE UNCHANGED <<ephemerals, sessions, net>>
    BY <1>2, RestSteps
  <1> QED
    BY <1>1, <1>2 DEF Ensure

\* Nothing is left of a record.
LEMMA EmptyRecord ==
    ASSUME NEW n, NEW m
    PROVE  /\ LiveIn(NoSession) = {} /\ Follows(n, m, NoSession) /\ RecordOK(NoSession)
           /\ \A d : Renewed(sessions[n][m], NoSession, d)
           /\ NoSession.early = <<>>
  <1>1. /\ NoSession.fsp = NoFsp /\ NoSession.pending = NoFsp /\ NoSession.prev = NoFsp
        /\ NoSession.early = <<>> /\ NoFsp.state = "none"
    BY DEF NoSession, NewSession, NoFsp
  <1>2. LiveIn(NoSession) = {}
    BY <1>1 DEF LiveIn
  <1> QED
    BY <1>1, <1>2 DEF Follows, RecordOK, Renewed

LEMMA DiscardKeeps ==
    ASSUME Inv, Inv', History, NEW n \in Node, NEW m \in Node, Discard(n, m),
           UNCHANGED <<epoch, ephemerals, net, delivered>>, Living'
    PROVE  History'
  <1>1. SetSession(n, m, NoSession) /\ draining' = [draining EXCEPT ![n][m] = <<>>]
    BY DEF Discard
  <1>2. \A x \in Node : ephemerals[x] <= ephemerals'[x]
    BY RecordFacts
  <1>3. \A x, y \in Node : \/ draining'[x][y] = draining[x][y]
                           \/ draining'[x][y] \in Seq(Into(net', x, y))
    <2>1. draining \in [Node -> [Node -> Seq(DataFrame)]]
      BY DEF Inv, RestOK
    <2> QED
      BY <1>1, <2>1
  <1>4. /\ Follows(n, m, NoSession) /\ RecordOK(NoSession)
        /\ Renewed(sessions[n][m], NoSession, ephemerals[n])
        /\ NoSession.early = <<>>
    BY EmptyRecord
  <1>5. Moves(n, m, NoSession)
    BY <1>1, <1>2, <1>3, <1>4 DEF Moves, Grows, Waits
  <1> QED
    BY <1>5, MovesOnly

LEMMA RecvSetupKeeps ==
    ASSUME Inv, Inv', History, NEW n \in Node, NEW f \in net, RecvSetup(n, f), Living'
    PROVE  History'
  <1> DEFINE m == f.src
             s == sessions[n][m]
             e == ephemerals[n] + 1
             r == Responder(e, f.ei)
             t == AfterSetup(n, m, f.ei, e)
             g == AckFrame(n, m, f.ei, e)
  <1>1. f \in Frame /\ f.type = "setup" /\ f.dst = n /\ m \in Node /\ f.ei \in Nat
    BY FrameTypes DEF Inv, RestOK, RecvSetup
  <1>2. /\ ephemerals' = [ephemerals EXCEPT ![n] = e]
        /\ SetSession(n, m, t)
        /\ net' = net \cup {g}
        /\ UNCHANGED <<epoch, draining, delivered>>
    BY DEF RecvSetup
  <1>3. /\ \A x \in Node : ephemerals[x] <= ephemerals'[x]
        /\ ephemerals'[n] = e
    BY DrawStep DEF RecvSetup
  <1>4. n # m /\ f.ei <= ephemerals[m]
    BY <1>1 DEF History, Core, FramesOK, Mine
  <1>5. /\ s \in Session /\ PendingOK(s) /\ PrevOK(s) /\ RecordOK(s)
        /\ \A o \in LiveIn(s) : o.e <= ephemerals[n]
        /\ ephemerals[n] \in Nat /\ epoch[n] \in Nat /\ e \in Nat
    BY <1>1, RecordFacts
  <1>6. /\ r.state = "handshaking" /\ r.e = e /\ r.re = f.ei /\ r.remoteEpoch = 0
        /\ r.rx = EmptyWindow
    BY DEF Responder, NewFsp
  <1>7. Fresh(r, ephemerals[n], ephemerals'[n], ephemerals[m])
    BY <1>3, <1>4, <1>5, <1>6 DEF Fresh
  <1> HIDE DEF r
  <1>8. /\ Follows(n, m, t) /\ RecordOK(t) /\ Renewed(s, t, ephemerals[n])
        /\ t.early = s.early \/ t.early = <<>>
        /\ r \in LiveIn(t)
    <2>1. CASE Established(s)
      <3>1. t = [s EXCEPT !.pending = r]
        BY <2>1 DEF AfterSetup, r
      <3> HIDE DEF t
      <3>2. t.fsp = s.fsp /\ t.pending = r /\ t.prev = s.prev /\ t.early = s.early
        BY <1>5, <3>1 DEF Session
      <3>3. \A o \in LiveIn(t) : o \in LiveIn(s) \/ o = r
        BY <3>2 DEF LiveIn
      <3>4. Follows(n, m, t)
        BY <1>7, <3>3, KeptItself DEF Follows
      <3>5. WindowOK(EmptyWindow)
        BY WindowAssumption DEF WindowOK, EmptyWindow, Undefined
      <3>6. s.prev.state # "none" => r.e # s.prev.e
        <4> SUFFICES ASSUME s.prev.state # "none"
                     PROVE  r.e # s.prev.e
          OBVIOUS
        <4>1. s.prev \in LiveIn(s)
          BY DEF LiveIn
        <4>2. s.prev.e <= ephemerals[n] /\ s.prev.e \in Nat
          BY <1>5, <4>1, LiveTypes
        <4> QED
          BY <1>5, <1>6, <4>2
      <3>7. RecordOK(t)
        BY <1>5, <1>6, <3>2, <3>3, <3>5, <3>6 DEF RecordOK
      <3>8. Renewed(s, t, ephemerals[n])
        BY <1>5, <1>6, <3>2 DEF Renewed
      <3>9. r \in LiveIn(t)
        BY <1>6, <3>2 DEF LiveIn
      <3> QED
        BY <3>2, <3>4, <3>7, <3>8, <3>9
    <2>2. CASE Handshaking(s) /\ s.fsp.role = "initiator"
      <3>1. t = [s EXCEPT !.fsp = r] /\ s.prev.state = "none" /\ s.pending.state = "none"
        BY <1>5, <2>2 DEF AfterSetup, r, Established, Handshaking, PendingOK, PrevOK
      <3> HIDE DEF t
      <3>2. t.fsp = r /\ t.pending = s.pending /\ t.prev = s.prev /\ t.early = s.early
        BY <1>5, <3>1 DEF Session
      <3>3. t.pending.state = "none" /\ t.prev.state = "none"
        BY <3>1, <3>2
      <3>4. LiveIn(t) = {r} /\ Follows(n, m, t) /\ RecordOK(t) /\ Renewed(s, t, ephemerals[n])
        BY <1>1, <1>3, <1>4, <1>6, <3>2, <3>3, BeginsRecord
      <3> QED
        BY <3>2, <3>4
    <2>3. CASE ~Established(s) /\ ~(Handshaking(s) /\ s.fsp.role = "initiator")
      <3>1. t = NewSession(r, FALSE, FALSE)
        BY <2>3 DEF AfterSetup, r
      <3> HIDE DEF t
      <3>2. /\ t.fsp = r /\ t.pending.state = "none" /\ t.prev.state = "none" /\ t.early = <<>>
        BY <3>1 DEF NewSession, NoFsp
      <3>3. LiveIn(t) = {r} /\ Follows(n, m, t) /\ RecordOK(t) /\ Renewed(s, t, ephemerals[n])
        BY <1>1, <1>3, <1>4, <1>6, <3>2, BeginsRecord
      <3> QED
        BY <3>2, <3>3
    <2> QED
      BY <2>1, <2>2, <2>3
  <1> HIDE DEF t
  <1>9. MaySend(sessions', epoch', ephemerals', g)
    <2>0. sessions'[n][m] = t
      BY <1>1, <1>2 DEF SetSession, Inv, SessionsOK
    <2> HIDE DEF e, s
    <2>1. /\ g \in Frame /\ g.src = n /\ g.dst = m /\ g.type = "ack" /\ g.er = e
          /\ g.epoch = epoch[n]
      BY <1>1, <1>5 DEF AckFrame, Frame
    <2>2. Mine(g) = e
      BY <2>1 DEF Mine
    <2> HIDE DEF g
    <2>3. \E x \in Node : \E o \in LiveIn(sessions'[g.src][x]) : o.e = Mine(g)
      BY <1>1, <1>6, <1>8, <2>0, <2>1, <2>2
    <2> QED
      BY <1>2, <1>3, <1>4, <1>5, <2>1, <2>2, <2>3 DEF MaySend
  <1> HIDE DEF g
  <1>10. Moves(n, m, t)
    <2>1. t.early = s.early \/ t.early \in Seq(Into(net', n, m))
      <3>1. <<>> \in Seq(Into(net', n, m))
        OBVIOUS
      <3>2. t.early = s.early \/ t.early = <<>>
        BY <1>8
      <3>3. CASE t.early = <<>>
        BY <3>1, <3>3
      <3> QED
        BY <3>2, <3>3
    <2>2. Grows /\ Waits
      BY <1>2, <1>3 DEF Grows, Waits
    <2> QED
      BY <1>2, <1>8, <2>1, <2>2 DEF Moves
  <1> HIDE DEF m
  <1> QED
    BY <1>1, <1>2, <1>9, <1>10, MovesAndSends

LEMMA RecvAckKeeps ==
    ASSUME Inv, Inv', History, NEW n \in Node, NEW f \in net, RecvAck(n, f), Living'
    PROVE  History'
  <1> DEFINE m == f.src
             s == sessions[n][m]
             o == Finalized([s.fsp EXCEPT !.re = f.er], f.epoch)
             t == [s EXCEPT !.fsp = o, !.setup = FALSE]
             g == Msg3Frame(n, m, f.ei, f.er)
  <1>1. /\ f \in Frame /\ f.type = "ack" /\ f.dst = n /\ m \in Node /\ f.ei \in Nat
        /\ f.er \in Nat /\ f.epoch \in Nat
    BY FrameTypes DEF Inv, RestOK, RecvAck
  <1>2. /\ Handshaking(s) /\ s.fsp.e = f.ei
        /\ SetSession(n, m, t)
        /\ net' = net \cup {g}
        /\ UNCHANGED <<epoch, ephemerals, draining, delivered>>
    BY DEF RecvAck
  <1>4. n # m /\ f.er <= ephemerals[m] /\ f.epoch >= 1
    BY <1>1 DEF History, Core, FramesOK, Mine
  <1>5. /\ s \in Session /\ s.fsp \in Fsp /\ PendingOK(s) /\ PrevOK(s) /\ RecordOK(s)
        /\ \A p \in LiveIn(s) : p.e <= ephemerals[n]
        /\ ephemerals[n] \in Nat /\ epoch[n] \in Nat
        /\ \A x \in Node : ephemerals[x] \in Nat
    BY <1>1, RecordFacts
  <1>6. /\ o.state = "established" /\ o.e = s.fsp.e /\ o.re = f.er /\ o.remoteEpoch = f.epoch
        /\ o.rx = s.fsp.rx
    BY <1>5 DEF Finalized, Fsp
  <1>7. s.pending.state = "none" /\ s.prev.state = "none"
    BY <1>2, <1>5 DEF PendingOK, PrevOK, Handshaking
  <1> HIDE DEF o
  <1>8. t.fsp = o /\ t.pending = s.pending /\ t.prev = s.prev /\ t.early = s.early
    BY <1>5 DEF Session
  <1> HIDE DEF t
  <1>9. LiveIn(t) = {o} /\ s.fsp \in LiveIn(s)
    BY <1>2, <1>6, <1>7, <1>8 DEF LiveIn, Handshaking
  <1>10. Completed(s, net, m, o)
    <2>1. f \in Sealed(net) /\ Mine(f) = f.er
      BY <1>1 DEF Sealed, Mine
    <2> QED
      BY <1>2, <1>6, <1>9, <2>1 DEF Completed, Handshaking
  <1>11. Follows(n, m, t)
    BY <1>9, <1>10 DEF Follows
  <1>12. RecordOK(t)
    BY <1>4, <1>5, <1>6, <1>7, <1>8, <1>9 DEF RecordOK
  <1>13. Renewed(s, t, ephemerals[n])
    BY <1>7, <1>8 DEF Renewed
  <1>14. MaySend(sessions', epoch', ephemerals', g)
    <2>0. sessions'[n][m] = t
      BY <1>1, <1>2 DEF SetSession, Inv, SessionsOK
    <2>1. /\ g \in Frame /\ g.src = n /\ g.dst = m /\ g.type = "msg3" /\ g.ei = f.ei
          /\ g.er = f.er /\ g.epoch = epoch[n]
      BY <1>1, <1>5 DEF Msg3Frame, Frame
    <2>2. Mine(g) = f.ei
      BY <2>1 DEF Mine
    <2> HIDE DEF g
    <2>3. \E x \in Node : \E p \in LiveIn(sessions'[g.src][x]) : p.e = Mine(g)
      BY <1>1, <1>2, <1>6, <1>9, <2>0, <2>1, <2>2
    <2>4. f.ei <= ephemerals[n]
      BY <1>2, <1>5, <1>9
    <2> QED
      BY <1>2, <1>4, <2>1, <2>2, <2>3, <2>4 DEF MaySend
  <1> HIDE DEF g
  <1>15. Moves(n, m, t)
    <2>1. \A x \in Node : ephemerals[x] <= ephemerals'[x]
      BY <1>2, <1>5
    <2> QED
      BY <1>2, <1>8, <1>11, <1>12, <1>13, <2>1 DEF Moves, Grows, Waits
  <1> HIDE DEF m
  <1> QED
    BY <1>1, <1>2, <1>14, <1>15, MovesAndSends

\* The record after the final handshake message.
LEMMA FinishesRecord ==
    ASSUME Inv, History, NEW n \in Node, NEW f \in net, f.type = "msg3", f.dst = n,
           MatchesMsg3(HandshakeFsp(sessions[n][f.src]), f),
           ~Absent(sessions[n][f.src]),
           HandshakeFsp(sessions[n][f.src]).state # "established",
           NEW t, t = AfterMsg3(sessions[n][f.src], f.epoch)
    PROVE  /\ Follows(n, f.src, t) /\ RecordOK(t)
           /\ t.pending.state = "none"
           /\ t \in Session
           /\ t.fsp.remoteEpoch = f.epoch
           /\ t.fsp.state = "established"
  <1> DEFINE m == f.src
             s == sessions[n][m]
             h == HandshakeFsp(s)
             o == Finalized(h, f.epoch)
  <1>1. f \in Frame /\ m \in Node /\ f.ei \in Nat /\ f.epoch \in Nat
    BY FrameTypes DEF Inv, RestOK
  <1>2. f.epoch >= 1
    BY DEF History, Core, FramesOK
  <1>3. /\ s \in Session /\ s.fsp \in Fsp /\ s.pending \in Fsp /\ s.prev \in Fsp
        /\ PendingOK(s) /\ PrevOK(s) /\ RecordOK(s)
    BY <1>1, RecordFacts
  <1>4. h \in Fsp /\ h.state = "handshaking" /\ h \in LiveIn(s) /\ h.re = f.ei
    <2>1. h \in Fsp /\ h.state # "none"
      BY <1>3 DEF HandshakeFsp, Absent
    <2>2. h \in LiveIn(s)
      BY <2>1 DEF LiveIn, HandshakeFsp
    <2> QED
      BY <2>1, <2>2 DEF Fsp, MatchesMsg3
  <1>5. /\ o.state = "established" /\ o.e = h.e /\ o.re = h.re /\ o.remoteEpoch = f.epoch
        /\ o.rx = h.rx /\ o \in Fsp
    BY <1>1, <1>4 DEF Finalized, Fsp
  <1>6. Completed(s, net, m, o)
    <2>1. f \in Sealed(net) /\ Mine(f) = f.ei
      BY DEF Sealed, Mine
    <2> QED
      BY <1>4, <1>5, <2>1 DEF Completed
  <1>7. WindowOK(o.rx)
    BY <1>3, <1>4, <1>5 DEF RecordOK
  <1>8. CASE s.pending.state = "none"
    <2>1. t = [s EXCEPT !.fsp = o] /\ h = s.fsp
      BY <1>8 DEF AfterMsg3, HandshakeFsp
    <2>2. s.prev.state = "none"
      BY <1>3, <1>4, <2>1 DEF PrevOK
    <2> HIDE DEF o, h
    <2>3. t.fsp = o /\ t.pending = s.pending /\ t.prev = s.prev /\ t \in Session
      BY <1>3, <1>5, <2>1 DEF Session
    <2>4. LiveIn(t) = {o}
      BY <1>5, <1>8, <2>2, <2>3 DEF LiveIn
    <2>5. Follows(n, m, t)
      BY <1>6, <2>4 DEF Follows
    <2>6. RecordOK(t)
      BY <1>2, <1>5, <1>7, <2>2, <2>3, <2>4 DEF RecordOK
    <2> QED
      BY <1>5, <1>8, <2>3, <2>5, <2>6
  <1>9. CASE s.pending.state # "none" /\ s.fsp.remoteEpoch # 0 /\ s.fsp.remoteEpoch # f.epoch
    <2>1. t = ReplaceRestarted(s, o)
      BY <1>9 DEF AfterMsg3
    <2> HIDE DEF o, h
    <2>2. t.fsp = o /\ t.pending = NoFsp /\ t.prev = NoFsp /\ t \in Session
      BY <1>3, <1>5, <2>1, NoFspType DEF ReplaceRestarted, Session
    <2>3. NoFsp.state = "none"
      BY DEF NoFsp
    <2>4. LiveIn(t) = {o}
      BY <1>5, <2>2, <2>3 DEF LiveIn
    <2>5. Follows(n, m, t)
      BY <1>6, <2>4 DEF Follows
    <2>6. RecordOK(t)
      BY <1>2, <1>5, <1>7, <2>2, <2>3, <2>4 DEF RecordOK
    <2> QED
      BY <1>5, <2>2, <2>3, <2>5, <2>6
  <1>10. CASE s.pending.state # "none" /\ ~(s.fsp.remoteEpoch # 0 /\ s.fsp.remoteEpoch # f.epoch)
    <2>1. t = PromotePending(s, o, ~s.k)
      BY <1>10 DEF AfterMsg3
    <2>2. s.fsp.state = "established" /\ s.fsp \in LiveIn(s)
      BY <1>3, <1>10 DEF PendingOK, LiveIn
    <2>3. s.fsp.remoteEpoch = f.epoch
      BY <1>3, <1>10, <2>2 DEF RecordOK
    <2> HIDE DEF o, h
    <2>4. t.fsp = o /\ t.pending = NoFsp /\ t.prev = s.fsp /\ t \in Session
      BY <1>3, <1>5, <2>1, NoFspType DEF PromotePending, Session
    <2>5. NoFsp.state = "none"
      BY DEF NoFsp
    <2>6. \A p \in LiveIn(t) : p = o \/ p = s.fsp
      BY <2>4, <2>5 DEF LiveIn
    <2>7. Follows(n, m, t)
      BY <1>6, <2>2, <2>6, KeptItself DEF Follows
    <2>8. RecordOK(t)
      BY <1>2, <1>3, <1>5, <1>7, <2>2, <2>3, <2>4, <2>5, <2>6 DEF RecordOK
    <2> QED
      BY <1>5, <2>4, <2>5, <2>7, <2>8
  <1> QED
    BY <1>8, <1>9, <1>10

LEMMA RecvMsg3Keeps ==
    ASSUME Inv, Inv', History, NEW n \in Node, NEW f \in net, RecvMsg3(n, f), Living'
    PROVE  History'
  <1> DEFINE m == f.src
             s == sessions[n][m]
             a == IF HandshakeFsp(s).state = "established" THEN s ELSE AfterMsg3(s, f.epoch)
             t == [a EXCEPT !.setup = FALSE, !.early = <<>>, !.known = TRUE]
  <1>1. f \in Frame /\ m \in Node
    BY FrameTypes DEF Inv, RestOK
  <1>2. /\ SetSession(n, m, t)
        /\ f.type = "msg3" /\ f.dst = n /\ MatchesMsg3(HandshakeFsp(s), f) /\ ~Absent(s)
        /\ UNCHANGED <<epoch, ephemerals, net, delivered>>
        /\ draining' = [draining EXCEPT ![n][m] = draining[n][m] \o s.early]
    BY DEF RecvMsg3
  <1>3. Follows(n, m, a) /\ RecordOK(a) /\ Renewed(s, a, ephemerals[n]) /\ a \in Session
    <2>1. CASE HandshakeFsp(s).state = "established"
      BY <1>1, <2>1, SameObjects, RecordFacts
    <2>2. CASE HandshakeFsp(s).state # "established"
      <3>1. a = AfterMsg3(s, f.epoch)
        BY <2>2
      <3> HIDE DEF a
      <3>2. Follows(n, m, a) /\ RecordOK(a) /\ a.pending.state = "none" /\ a \in Session
        BY <1>2, <2>2, <3>1, FinishesRecord
      <3> QED
        BY <3>2 DEF Renewed
    <2> QED
      BY <2>1, <2>2
  <1> HIDE DEF a
  <1>4. t.fsp = a.fsp /\ t.pending = a.pending /\ t.prev = a.prev /\ t.early = <<>>
    BY <1>3 DEF Session
  <1> HIDE DEF t
  <1>5. Follows(n, m, t) /\ RecordOK(t) /\ Renewed(s, t, ephemerals[n])
    <2>1. LiveIn(t) = LiveIn(a)
      BY <1>4 DEF LiveIn
    <2> QED
      BY <1>3, <1>4, <2>1 DEF Follows, RecordOK, Renewed
  <1>6. Grows
    BY <1>2, RecordFacts DEF Grows
  <1>7. Waits
    <2>1. draining \in [Node -> [Node -> Seq(DataFrame)]]
      BY DEF Inv, RestOK
    <2>2. s.early \in Seq(Into(net', n, m)) /\ draining[n][m] \in Seq(Into(net', n, m))
      BY <1>1, <1>2 DEF History, QueuesOK
    <2> HIDE DEF s, m
    <2>3. draining[n][m] \o s.early \in Seq(Into(net', n, m))
      BY <2>2, ConcatProperties
    <2>4. \A x, y \in Node : draining'[x][y] = IF x = n /\ y = m THEN draining[n][m] \o s.early
                                              ELSE draining[x][y]
      BY <1>1, <1>2, <2>1
    <2> QED
      BY <2>3, <2>4 DEF Waits
  <1>8. t.early \in Seq(Into(net', n, m))
    <2>1. <<>> \in Seq(Into(net', n, m))
      OBVIOUS
    <2> QED
      BY <1>4, <2>1
  <1>9. Moves(n, m, t)
    BY <1>2, <1>5, <1>6, <1>7, <1>8 DEF Moves
  <1> HIDE DEF m, s
  <1> QED
    BY <1>1, <1>2, <1>9, MovesOnly

LEMMA SendRecordKeeps ==
    ASSUME Inv, Inv', History, NEW n \in Node, NEW m \in Node, n # m, SendRecord(n, m), Living'
    PROVE  History'
  <1> DEFINE s == sessions[n][m]
             o == [s.fsp EXCEPT !.tx = s.fsp.tx + 1]
             t == [s EXCEPT !.fsp = o]
             g == Record(n, m, s)
  <1>1. /\ s \in Session /\ s.fsp \in Fsp /\ RecordOK(s)
        /\ PendingOK(s) /\ PrevOK(s)
        /\ \A p \in LiveIn(s) : p.e <= ephemerals[n]
        /\ ephemerals[n] \in Nat /\ epoch[n] \in Nat
    BY RecordFacts
  <1>2. /\ Established(s)
        /\ net' = net \cup {g}
        /\ SetSession(n, m, t)
        /\ UNCHANGED <<epoch, ephemerals, draining, delivered>>
    BY <1>1 DEF SendRecord, SetSession
  <1>3. /\ o.role = s.fsp.role /\ o.state = s.fsp.state /\ o.e = s.fsp.e /\ o.re = s.fsp.re
        /\ o.remoteEpoch = s.fsp.remoteEpoch /\ o.rx = s.fsp.rx
    BY <1>1 DEF Fsp
  <1> HIDE DEF o
  <1>4. t.fsp = o /\ t.pending = s.pending /\ t.prev = s.prev /\ t.early = s.early
    BY <1>1 DEF Session
  <1> HIDE DEF t
  <1>5. s.fsp \in LiveIn(s) /\ \A p \in LiveIn(t) : p \in LiveIn(s) \/ p = o
    BY <1>2, <1>4 DEF LiveIn, Established
  <1>6. Kept(s, o)
    BY <1>3, <1>5 DEF Kept
  <1>7. Follows(n, m, t)
    BY <1>5, <1>6, KeptItself DEF Follows
  <1>8. RecordOK(t)
    BY <1>1, <1>2, <1>3, <1>4, <1>5 DEF RecordOK, Established
  <1>9. Renewed(s, t, ephemerals[n])
    BY <1>3, <1>4 DEF Renewed
  <1>10. MaySend(sessions', epoch', ephemerals', g)
    <2>0. sessions'[n][m] = t
      BY <1>2 DEF SetSession, Inv, SessionsOK
    <2>1. /\ g.src = n /\ g.dst = m /\ g.type = "data" /\ g.key = KeyOf(n, m, s.fsp)
          /\ g.epoch = epoch[n]
      BY DEF Record
    <2>2. g \in Frame
      BY <1>2 DEF Inv, RestOK
    <2> HIDE DEF g
    <2>3. Mine(g) = s.fsp.e
      BY <2>1, KeyEphemerals DEF Mine
    <2>4. o \in LiveIn(t)
      BY <1>2, <1>3, <1>4 DEF LiveIn, Established
    <2>5. \E x \in Node : \E p \in LiveIn(sessions'[g.src][x]) : p.e = Mine(g)
      BY <1>3, <2>0, <2>1, <2>3, <2>4
    <2> QED
      BY <1>1, <1>2, <1>5, <2>1, <2>2, <2>3, <2>5 DEF MaySend
  <1> HIDE DEF g
  <1>11. Moves(n, m, t)
    <2>1. Grows /\ Waits
      BY <1>2, RecordFacts DEF Grows, Waits
    <2> QED
      BY <1>2, <1>4, <1>7, <1>8, <1>9, <2>1 DEF Moves
  <1> QED
    BY <1>2, <1>10, <1>11, MovesAndSends

LEMMA PrunePreviousKeeps ==
    ASSUME Inv, Inv', History, NEW n \in Node, NEW m \in Node, PrunePrevious(n, m), Living'
    PROVE  History'
  <1> DEFINE s == sessions[n][m]
             t == [s EXCEPT !.prev = NoFsp, !.prevK = FALSE]
  <1>1. s \in Session /\ RecordOK(s)
    BY RecordFacts
  <1>2. /\ SetSession(n, m, t)
        /\ UNCHANGED <<epoch, ephemerals, net, draining, delivered>>
    BY DEF PrunePrevious
  <1>3. /\ t.fsp = s.fsp /\ t.pending = s.pending /\ t.prev = NoFsp /\ t.early = s.early
        /\ NoFsp.state = "none"
    BY <1>1 DEF Session, NoFsp
  <1> HIDE DEF t
  <1>4. \A p \in LiveIn(t) : p \in LiveIn(s)
    BY <1>3 DEF LiveIn
  <1>5. Follows(n, m, t) /\ RecordOK(t) /\ Renewed(s, t, ephemerals[n])
    BY <1>1, <1>3, <1>4, KeptItself DEF Follows, RecordOK, Renewed
  <1>6. Grows /\ Waits
    BY <1>2, RecordFacts DEF Grows, Waits
  <1>7. Moves(n, m, t)
    BY <1>2, <1>3, <1>5, <1>6 DEF Moves
  <1> QED
    BY <1>2, <1>7, MovesOnly

\* What is known of a record that a key opens.
LEMMA OpenedRecord ==
    ASSUME Inv, History, NEW n \in Node, NEW m \in Node, n # m, NEW f \in Into(net, n, m),
           NEW o \in LiveIn(sessions[n][m]), Opens(n, m, o, f)
    PROVE  /\ f \in DataFrame /\ f.src = m /\ f.ctr \in Nat
           /\ o.state = "established"
           /\ KeyOf(n, m, o) = f.key
           /\ o.e = Own(n, f.key)
           /\ f.epoch = o.remoteEpoch
           /\ <<n, f>> \notin DOMAIN delivered
           /\ Recorded(o, f).role = o.role /\ Recorded(o, f).state = o.state
           /\ Recorded(o, f).e = o.e /\ Recorded(o, f).re = o.re
           /\ Recorded(o, f).remoteEpoch = o.remoteEpoch
           /\ Kept(sessions[n][m], Recorded(o, f))
           /\ WindowOK(Recorded(o, f).rx)
           /\ ~Check(Recorded(o, f).rx, f.ctr)
  <1>1. f \in net /\ f.type = "data" /\ f.src = m /\ f \in DataFrame
    BY FrameTypes DEF Into, Inv, RestOK
  <1>2. f.ctr \in Nat
    BY <1>1, FspAssumption DEF DataFrame
  <1>3. o.state = "established" /\ KeyOf(n, m, o) = f.key /\ Check(o.rx, f.ctr)
    BY DEF Opens
  <1>4. Own(n, f.key) = o.e /\ Own(m, f.key) = o.re
    BY <1>3, KeyEphemerals
  <1>5. f.epoch = o.remoteEpoch
    <2>1. f \in Sealed(net) /\ Mine(f) = o.re
      BY <1>1, <1>4 DEF Sealed, Mine
    <2>2. OneLife(sessions, net, epoch)
      BY DEF History, Core
    <2> QED
      BY <1>1, <1>3, <2>1, <2>2 DEF OneLife
  <1>6. <<n, f>> \notin DOMAIN delivered
    <2> SUFFICES ASSUME <<n, f>> \in DOMAIN delivered
                 PROVE  FALSE
      OBVIOUS
    <2>1. RefusedBy(sessions, ephemerals, n, f)
      BY DEF History, DeliveredOK
    <2> QED
      BY <1>1, <1>3, <1>4, <2>1 DEF RefusedBy
  <1>7. o \in Fsp /\ o.rx \in Window /\ WindowOK(o.rx)
    BY LiveTypes, RecordFacts DEF RecordOK
  <1> DEFINE w == Accept(o.rx, f.ctr)
             p == Recorded(o, f)
  <1>8. /\ p.role = o.role /\ p.state = o.state /\ p.e = o.e /\ p.re = o.re
        /\ p.remoteEpoch = o.remoteEpoch /\ p.rx = w
    BY <1>7 DEF Recorded, Fsp
  <1>9. WindowOK(w) /\ ~Check(w, f.ctr) /\ \A x \in Nat : Check(w, x) => Check(o.rx, x)
    BY <1>2, <1>3, <1>7, WindowAdvances
  <1> HIDE DEF w, p
  <1>10. Kept(sessions[n][m], p)
    BY <1>8, <1>9 DEF Kept
  <1> QED
    BY <1>1, <1>2, <1>3, <1>4, <1>5, <1>6, <1>8, <1>9, <1>10 DEF p

\* One more record in the bag of those delivered.
LEMMA BagGainsOne ==
    ASSUME NEW d, NEW z, \A x \in DOMAIN d : d[x] = 1, z \notin DOMAIN d
    PROVE  /\ DOMAIN (d (+) SetToBag({z})) = DOMAIN d \cup {z}
           /\ (d (+) SetToBag({z}))[z] = 1
           /\ \A x \in DOMAIN d : (d (+) SetToBag({z}))[x] = d[x]
  <1> DEFINE B == SetToBag({z})
             c == d (+) B
  <1>1. DOMAIN B = {z} /\ B[z] = 1
    BY DEF SetToBag
  <1>2. c = [x \in DOMAIN d \cup DOMAIN B |-> (IF x \in DOMAIN d THEN d[x] ELSE 0)
                                            + (IF x \in DOMAIN B THEN B[x] ELSE 0)]
    BY DEF (+)
  <1> HIDE DEF B, c
  <1>3. DOMAIN c = DOMAIN d \cup {z}
    BY <1>1, <1>2
  <1>4. c[z] = 1
    <2>1. c[z] = (IF z \in DOMAIN d THEN d[z] ELSE 0) + (IF z \in DOMAIN B THEN B[z] ELSE 0)
      BY ONLY <1>1, <1>2
    <2>2. (IF z \in DOMAIN d THEN d[z] ELSE 0) = 0
      OBVIOUS
    <2>3. (IF z \in DOMAIN B THEN B[z] ELSE 0) = 1
      BY <1>1
    <2> QED
      BY ONLY <2>1, <2>2, <2>3
  <1>5. ASSUME NEW x \in DOMAIN d
        PROVE  c[x] = d[x]
    <2>1. c[x] = (IF x \in DOMAIN d THEN d[x] ELSE 0) + (IF x \in DOMAIN B THEN B[x] ELSE 0)
      BY ONLY <1>2, <1>5
    <2>2. (IF x \in DOMAIN d THEN d[x] ELSE 0) = 1 /\ d[x] = 1
      BY <1>5
    <2>3. (IF x \in DOMAIN B THEN B[x] ELSE 0) = 0
      BY <1>1, <1>5
    <2> QED
      BY ONLY <2>1, <2>2, <2>3
  <1> QED
    BY <1>3, <1>4, <1>5 DEF c, B

LEMMA DeliveryKeeps ==
    ASSUME Inv, Inv', History, NEW n \in Node, NEW m \in Node, n # m,
           NEW f \in Into(net, n, m), NEW o \in LiveIn(sessions[n][m]), Opens(n, m, o, f),
           NEW t, SetSession(n, m, t), Follows(n, m, t), RecordOK(t),
           Renewed(sessions[n][m], t, ephemerals[n]), t.early = sessions[n][m].early,
           \A p \in LiveIn(t) : p.e = o.e => p = Recorded(o, f),
           delivered' = delivered (+) SetToBag({<<n, f>>}),
           UNCHANGED <<epoch, ephemerals, net>>, Waits, Living'
    PROVE  History'
  <1>1. /\ f \in DataFrame /\ f.src = m /\ o.state = "established" /\ o.e = Own(n, f.key)
        /\ <<n, f>> \notin DOMAIN delivered
        /\ Recorded(o, f).state = o.state /\ ~Check(Recorded(o, f).rx, f.ctr)
    BY OpenedRecord
  <1>2. \A x \in Node : ephemerals[x] <= ephemerals'[x]
    BY RecordFacts
  <1>3. /\ Core(sessions', net, epoch', ephemerals')
        /\ \A x \in DOMAIN delivered : RefusedBy(sessions', ephemerals', x[1], x[2])
    BY <1>2, RecordMoves
  <1>4. RefusedBy(sessions', ephemerals', n, f)
    <2>1. sessions'[n][m] = t
      BY DEF SetSession, Inv, SessionsOK
    <2>2. o.e <= ephemerals'[n]
      BY RecordFacts
    <2> QED
      BY <1>1, <2>1, <2>2 DEF RefusedBy
  <1>5. /\ DOMAIN delivered' = DOMAIN delivered \cup {<<n, f>>}
        /\ delivered'[<<n, f>>] = 1
        /\ \A x \in DOMAIN delivered : delivered'[x] = delivered[x]
    <2>1. \A x \in DOMAIN delivered : delivered[x] = 1
      BY DEF History, DeliveredOK
    <2> DEFINE z == <<n, f>>
               c == delivered (+) SetToBag({z})
    <2>2. z \notin DOMAIN delivered /\ delivered' = c
      BY <1>1
    <2> HIDE DEF z
    <2>3. /\ DOMAIN c = DOMAIN delivered \cup {z} /\ c[z] = 1
          /\ \A x \in DOMAIN delivered : c[x] = delivered[x]
      <3> DEFINE d == delivered
      <3>1. (\A x \in DOMAIN d : d[x] = 1) /\ z \notin DOMAIN d
        BY <2>1, <2>2
      <3> HIDE DEF d
      <3>2. /\ DOMAIN (d (+) SetToBag({z})) = DOMAIN d \cup {z}
            /\ (d (+) SetToBag({z}))[z] = 1
            /\ \A x \in DOMAIN d : (d (+) SetToBag({z}))[x] = d[x]
        BY ONLY <3>1, BagGainsOne, ZenonT(60)
      <3> QED
        BY <3>2 DEF d
    <2> HIDE DEF c
    <2> QED
      BY <2>2, <2>3 DEF z
  <1>6. DeliveredOK(sessions', delivered', ephemerals')
    <2> SUFFICES ASSUME NEW x \in DOMAIN delivered'
                 PROVE  /\ x \in Node \X DataFrame /\ x[1] # x[2].src /\ delivered'[x] = 1
                        /\ RefusedBy(sessions', ephemerals', x[1], x[2])
      BY DEF DeliveredOK
    <2>1. CASE x \in DOMAIN delivered
      BY <1>3, <1>5, <2>1 DEF History, DeliveredOK
    <2>2. CASE x = <<n, f>>
      BY <1>1, <1>4, <1>5, <2>2
    <2> QED
      BY <1>5, <2>1, <2>2
  <1>7. QueuesOK(sessions', draining', net')
    <2>1. QueuesOK(sessions, draining, net) /\ net \subseteq net'
      BY DEF History
    <2>2. t.early \in Seq(Into(net', n, m))
      BY <2>1 DEF QueuesOK
    <2> QED
      BY <2>1, <2>2, QueuesMove DEF Waits
  <1> QED
    BY <1>3, <1>6, <1>7 DEF History

LEMMA HandleRecordKeeps ==
    ASSUME Inv, Inv', History, NEW n \in Node, NEW m \in Node, n # m,
           NEW f \in Into(net, n, m), HandleRecord(n, m, f),
           UNCHANGED <<epoch, ephemerals, net>>, Waits, Living'
    PROVE  History'
  <1> DEFINE s == sessions[n][m]
             t == AfterRecord(n, m, s, f)
  <1>1. SetSession(n, m, t)
    BY DEF HandleRecord
  <1>2. delivered' = IF Delivers(n, m, s, f) THEN delivered (+) SetToBag({<<n, f>>})
                                             ELSE delivered
    BY DEF HandleRecord
  <1>3. /\ s \in Session /\ s.fsp \in Fsp /\ s.prev \in Fsp /\ PendingOK(s) /\ PrevOK(s)
        /\ RecordOK(s)
    BY RecordFacts
  <1>4. Selects(s, f) # "pending"
    BY <1>3 DEF PendingOK, Selects
  <1>5. Grows
    BY RecordFacts DEF Grows
  <1>6. CASE Selects(s, f) = "early"
    <2>1. ~Delivers(n, m, s, f) /\ t = QueueEarly(s, f)
      BY <1>6 DEF Delivers, AfterRecord
    <2> HIDE DEF t
    <2>2. /\ t.fsp = s.fsp /\ t.pending = s.pending /\ t.prev = s.prev
          /\ t.early = s.early \/ t.early = Append(s.early, f)
      BY <1>3, <2>1 DEF QueueEarly, Session
    <2>3. s.early \in Seq(Into(net', n, m)) /\ f \in Into(net', n, m)
      BY DEF History, QueuesOK
    <2>4. Append(s.early, f) \in Seq(Into(net', n, m))
      BY <2>3, AppendProperties
    <2>5. Follows(n, m, t) /\ RecordOK(t) /\ Renewed(s, t, ephemerals[n])
      BY <2>2, SameObjects
    <2>6. delivered' = delivered
      BY <1>2, <2>1
    <2>7. Moves(n, m, t)
      <3>1. t.early = s.early \/ t.early \in Seq(Into(net', n, m))
        BY <2>2, <2>4
      <3> QED
        BY <1>1, <1>5, <2>5, <2>6, <3>1 DEF Moves
    <2> QED
      BY <2>7, MovesOnly
  <1>7. CASE Selects(s, f) = "fsp" /\ Delivers(n, m, s, f)
    <2> DEFINE o == s.fsp
               p == Recorded(o, f)
    <2>1. Opens(n, m, o, f)
      BY <1>7 DEF Delivers
    <2>a. t = [s EXCEPT !.fsp = p]
      BY <1>7 DEF AfterRecord
    <2> HIDE DEF t
    <2>2. o \in LiveIn(s) /\ o.state = "established"
      BY <2>1 DEF LiveIn, Opens
    <2>3. /\ p.state = o.state /\ p.e = o.e /\ p.remoteEpoch = o.remoteEpoch
          /\ Kept(s, p) /\ WindowOK(p.rx)
      <3>0. o \in Fsp
        BY <1>3
      <3> HIDE DEF o
      <3>1. o \in LiveIn(sessions[n][m]) /\ Opens(n, m, o, f)
        BY <2>1, <2>2
      <3>2. Recorded(o, f).state = o.state /\ Recorded(o, f).e = o.e
        BY <3>0 DEF Recorded, Fsp
      <3>3. Recorded(o, f).remoteEpoch = o.remoteEpoch
        BY <3>0 DEF Recorded, Fsp
      <3>4. Kept(sessions[n][m], Recorded(o, f))
        BY <3>1, OpenedRecord
      <3>5. WindowOK(Recorded(o, f).rx)
        BY <3>1, OpenedRecord
      <3> QED
        BY <3>2, <3>3, <3>4, <3>5
    <2> HIDE DEF p
    <2>4. t.fsp = p /\ t.pending = s.pending /\ t.prev = s.prev /\ t.early = s.early
      BY <1>3, <2>a DEF Session
    <2>5. \A q \in LiveIn(t) : q \in LiveIn(s) \/ q = p
      BY <2>4 DEF LiveIn
    <2>6. Follows(n, m, t)
      BY <2>3, <2>5, KeptItself DEF Follows
    <2>7. RecordOK(t)
      BY <1>3, <2>2, <2>3, <2>4, <2>5 DEF RecordOK
    <2>8. Renewed(s, t, ephemerals[n])
      BY <2>3, <2>4 DEF Renewed
    <2>9. \A q \in LiveIn(t) : q.e = o.e => q = p
      BY <1>3, <2>4 DEF LiveIn, PendingOK, PrevOK
    <2>10. delivered' = delivered (+) SetToBag({<<n, f>>})
      BY <1>2, <1>7
    <2> QED
      BY <1>1, <2>1, <2>2, <2>4, <2>6, <2>7, <2>8, <2>9, <2>10, DeliveryKeeps DEF p
  <1>8. CASE Selects(s, f) = "prev" /\ Delivers(n, m, s, f)
    <2> DEFINE o == s.prev
               p == Recorded(o, f)
    <2>1. Opens(n, m, o, f)
      BY <1>8 DEF Delivers
    <2>a. t = [s EXCEPT !.prev = p]
      BY <1>8 DEF AfterRecord
    <2> HIDE DEF t
    <2>2. o \in LiveIn(s) /\ o.state = "established"
      BY <2>1 DEF LiveIn, Opens
    <2>3. /\ p.state = o.state /\ p.e = o.e /\ p.remoteEpoch = o.remoteEpoch
          /\ Kept(s, p) /\ WindowOK(p.rx)
      <3>0. o \in Fsp
        BY <1>3
      <3> HIDE DEF o
      <3>1. o \in LiveIn(sessions[n][m]) /\ Opens(n, m, o, f)
        BY <2>1, <2>2
      <3>2. Recorded(o, f).state = o.state /\ Recorded(o, f).e = o.e
        BY <3>0 DEF Recorded, Fsp
      <3>3. Recorded(o, f).remoteEpoch = o.remoteEpoch
        BY <3>0 DEF Recorded, Fsp
      <3>4. Kept(sessions[n][m], Recorded(o, f))
        BY <3>1, OpenedRecord
      <3>5. WindowOK(Recorded(o, f).rx)
        BY <3>1, OpenedRecord
      <3> QED
        BY <3>2, <3>3, <3>4, <3>5
    <2> HIDE DEF p
    <2>4. t.fsp = s.fsp /\ t.pending = s.pending /\ t.prev = p /\ t.early = s.early
      BY <1>3, <2>a DEF Session
    <2>5. \A q \in LiveIn(t) : q \in LiveIn(s) \/ q = p
      BY <2>4 DEF LiveIn
    <2>6. Follows(n, m, t)
      BY <2>3, <2>5, KeptItself DEF Follows
    <2>7. RecordOK(t)
      BY <1>3, <2>2, <2>3, <2>4, <2>5 DEF RecordOK
    <2>8. Renewed(s, t, ephemerals[n])
      BY <2>4 DEF Renewed
    <2>9. \A q \in LiveIn(t) : q.e = o.e => q = p
      BY <1>3, <2>2, <2>4 DEF LiveIn, PrevOK, RecordOK
    <2>10. delivered' = delivered (+) SetToBag({<<n, f>>})
      BY <1>2, <1>8
    <2> QED
      BY <1>1, <2>1, <2>2, <2>4, <2>6, <2>7, <2>8, <2>9, <2>10, DeliveryKeeps DEF p
  <1>9. CASE /\ Selects(s, f) # "early"
             /\ ~(Selects(s, f) = "fsp" /\ Delivers(n, m, s, f))
             /\ ~(Selects(s, f) = "prev" /\ Delivers(n, m, s, f))
    <2>1. t = s
      BY <1>4, <1>9 DEF AfterRecord
    <2>2. ~Delivers(n, m, s, f)
      BY <1>4, <1>9 DEF Delivers
    <2> HIDE DEF t
    <2>3. Follows(n, m, t) /\ RecordOK(t) /\ Renewed(s, t, ephemerals[n])
      BY <2>1, SameObjects
    <2>4. delivered' = delivered
      BY <1>2, <2>2
    <2>5. Moves(n, m, t)
      BY <1>1, <1>5, <2>1, <2>3, <2>4 DEF Moves
    <2> QED
      BY <2>5, MovesOnly
  <1> QED
    BY <1>6, <1>7, <1>8, <1>9

LEMMA RestartKeeps ==
    ASSUME Inv, Inv', History, NEW n \in Node, Restart(n), Living'
    PROVE  History'
  <1>1. /\ epoch' = [epoch EXCEPT ![n] = epoch[n] + 1]
        /\ sessions' = [sessions EXCEPT ![n] = [m \in Node |-> NoSession]]
        /\ draining' = [draining EXCEPT ![n] = [m \in Node |-> <<>>]]
        /\ UNCHANGED <<ephemerals, net, delivered>>
    BY DEF Restart
  <1>2. \A x, y \in Node : sessions'[x][y] = IF x = n THEN NoSession ELSE sessions[x][y]
    BY <1>1 DEF Inv, SessionsOK
  <1>3. /\ LiveIn(NoSession) = {} /\ RecordOK(NoSession) /\ NoSession.early = <<>>
        /\ NoSession.pending.state = "none"
    BY EmptyRecord DEF NoSession, NewSession, NoFsp
  <1>4. \A x, y \in Node : \A o \in LiveIn(sessions'[x][y]) : x # n /\ o \in LiveIn(sessions[x][y])
    BY <1>2, <1>3
  <1>5. \A x \in Node : /\ epoch[x] \in Nat /\ epoch'[x] \in Nat /\ epoch[x] <= epoch'[x]
                        /\ x # n => epoch'[x] = epoch[x]
    BY <1>1 DEF Inv, RestOK
  <1>6. /\ FramesOK(net, epoch, ephemerals) /\ ObjectsOK(sessions, epoch, ephemerals)
        /\ OneLife(sessions, net, epoch) /\ RenewalsOK(sessions, net)
        /\ \A x, y \in Node : RecordOK(sessions[x][y])
        /\ DeliveredOK(sessions, delivered, ephemerals) /\ QueuesOK(sessions, draining, net)
    BY DEF History, Core
  <1>7. net \subseteq Frame /\ sessions \in [Node -> [Node -> Session]]
    BY DEF Inv, RestOK, SessionsOK
  <1>8. FramesOK(net, epoch', ephemerals)
    <2> SUFFICES ASSUME NEW f \in net
                 PROVE  /\ f.src # f.dst
                        /\ Mine(f) <= ephemerals[f.src]
                        /\ f.type # "setup" => 1 <= f.epoch /\ f.epoch <= epoch'[f.src]
                        /\ f.type = "msg3" => f.er <= ephemerals[f.dst]
      BY DEF FramesOK
    <2>1. f.src \in Node /\ (f.type # "setup" => f.epoch \in Nat)
      BY <1>7, MineTypes
    <2> QED
      BY <1>5, <1>6, <2>1 DEF FramesOK
  <1>9. ObjectsOK(sessions', epoch', ephemerals)
    <2> SUFFICES ASSUME NEW x \in Node, NEW y \in Node, NEW o \in LiveIn(sessions'[x][y])
                 PROVE  o.e <= ephemerals[x] /\ o.re <= ephemerals[y] /\ o.remoteEpoch <= epoch'[y]
      BY DEF ObjectsOK
    <2>1. o \in LiveIn(sessions[x][y])
      BY <1>4
    <2>2. o.remoteEpoch \in Nat
      BY <1>7, <2>1, LiveTypes
    <2> QED
      BY <1>5, <1>6, <2>1, <2>2 DEF ObjectsOK
  <1>10. OneLife(sessions', net, epoch')
    <2>1. \A f \in Sealed(net) : f.src \in Node
      BY <1>7, MineTypes DEF Sealed
    <2>2. \A f, g \in Sealed(net) : f.src = g.src /\ Mine(f) = Mine(g) => f.epoch = g.epoch
      BY <1>6 DEF OneLife
    <2>3. \A f \in Sealed(net) : \A m \in Node : \A o \in LiveIn(sessions'[f.src][m]) :
              o.e = Mine(f) => f.epoch = epoch'[f.src]
      BY <1>4, <1>5, <1>6, <2>1 DEF OneLife
    <2>4. \A x, y \in Node : \A o \in LiveIn(sessions'[x][y]) : o.state = "established" =>
              \A f \in Sealed(net) : f.src = y /\ Mine(f) = o.re => f.epoch = o.remoteEpoch
      BY <1>4, <1>6 DEF OneLife
    <2>5. \A x, y \in Node : \A o \in LiveIn(sessions'[x][y]) : o.state = "established" =>
              \A z \in Node : \A p \in LiveIn(sessions'[y][z]) : p.e = o.re => o.remoteEpoch = epoch'[y]
      BY <1>4, <1>5, <1>6 DEF OneLife
    <2> QED
      BY <2>2, <2>3, <2>4, <2>5 DEF OneLife
  <1>11. RenewalsOK(sessions', net)
    BY <1>2, <1>3, <1>6 DEF RenewalsOK
  <1>12. \A x, y \in Node : RecordOK(sessions'[x][y])
    BY <1>2, <1>3, <1>6
  <1>13. DeliveredOK(sessions', delivered, ephemerals)
    <2> SUFFICES ASSUME NEW x \in DOMAIN delivered
                 PROVE  RefusedBy(sessions', ephemerals, x[1], x[2])
      BY <1>6 DEF DeliveredOK
    <2>1. x[1] \in Node /\ x[2] \in DataFrame /\ RefusedBy(sessions, ephemerals, x[1], x[2])
      BY <1>6 DEF DeliveredOK
    <2>2. x[2].src \in Node
      BY <2>1 DEF DataFrame
    <2> QED
      BY <1>4, <2>1, <2>2 DEF RefusedBy
  <1>14. QueuesOK(sessions', draining', net)
    <2>1. draining \in [Node -> [Node -> Seq(DataFrame)]]
      BY DEF Inv, RestOK
    <2>2. \A x, y \in Node : draining'[x][y] = IF x = n THEN <<>> ELSE draining[x][y]
      BY <1>1, <2>1
    <2> SUFFICES ASSUME NEW x \in Node, NEW y \in Node
                 PROVE  /\ sessions'[x][y].early \in Seq(Into(net, x, y))
                        /\ draining'[x][y] \in Seq(Into(net, x, y))
      BY DEF QueuesOK
    <2>3. CASE x = n
      <3>1. <<>> \in Seq(Into(net, x, y))
        OBVIOUS
      <3>2. sessions'[x][y].early = <<>> /\ draining'[x][y] = <<>>
        BY <1>2, <1>3, <2>2, <2>3
      <3> QED
        BY <3>1, <3>2
    <2>4. CASE x # n
      BY <1>2, <1>6, <2>2, <2>4 DEF QueuesOK
    <2> QED
      BY <2>3, <2>4
  <1> QED
    BY <1>1, <1>8, <1>9, <1>10, <1>11, <1>12, <1>13, <1>14 DEF History, Core

LEMMA InitHistory == Init => History
  <1> SUFFICES ASSUME Init
               PROVE  History
    OBVIOUS
  <1>1. /\ \A n, m \in Node : sessions[n][m] = NoSession /\ draining[n][m] = <<>>
        /\ net = {} /\ delivered = EmptyBag /\ resolving = {}
        /\ \A n \in Node : epoch[n] = 1
    BY DEF Init
  <1>2. /\ LiveIn(NoSession) = {} /\ RecordOK(NoSession) /\ NoSession.early = <<>>
        /\ NoSession.pending.state = "none"
    BY EmptyRecord DEF NoSession, NewSession, NoFsp
  <1>3. Living
    BY <1>1 DEF Living
  <1>4. FramesOK(net, epoch, ephemerals) /\ RenewalsOK(sessions, net)
    BY <1>1 DEF FramesOK, RenewalsOK
  <1>5. ObjectsOK(sessions, epoch, ephemerals)
    BY <1>1, <1>2 DEF ObjectsOK
  <1>6. OneLife(sessions, net, epoch)
    BY <1>1, <1>2 DEF OneLife, Sealed
  <1>7. DeliveredOK(sessions, delivered, ephemerals)
    BY <1>1 DEF DeliveredOK, EmptyBag, SetToBag
  <1>8. QueuesOK(sessions, draining, net)
    <2>1. ASSUME NEW n \in Node, NEW m \in Node
          PROVE  sessions[n][m].early = <<>> /\ draining[n][m] = <<>>
      BY <1>1, <1>2
    <2>2. \A n, m \in Node : <<>> \in Seq(Into(net, n, m))
      OBVIOUS
    <2> QED
      BY <2>1, <2>2 DEF QueuesOK
  <1> QED
    BY <1>1, <1>2, <1>3, <1>4, <1>5, <1>6, <1>7, <1>8 DEF History, Core

LEMMA LivingStep ==
    ASSUME Inv, History, Next
    PROVE  Living'
  <1>1. Living /\ epoch \in [Node -> Nat] /\ FramesOK(net, epoch, ephemerals)
    BY DEF History, Core, Inv, RestOK
  <1>2. ASSUME NEW n \in Node, Restart(n)
        PROVE  Living'
    BY <1>1, <1>2 DEF Restart, Living
  <1>3. ASSUME NEW n \in Node, NEW f \in net, RecvUnknown(n, f)
        PROVE  Living'
    <2>1. f.src # n
      BY <1>1, <1>3 DEF RecvUnknown, FramesOK
    <2> QED
      BY <1>1, <1>3, <2>1 DEF RecvUnknown, Living
  <1>4. ASSUME NEW t \in resolving, Resolved(t) \/ Unresolved(t)
        PROVE  Living'
    BY <1>1, <1>4 DEF Resolved, Unresolved, Living
  <1>5. ASSUME UNCHANGED <<epoch, resolving>>
        PROVE  Living'
    BY <1>1, <1>5, SMTT(30) DEF Living
  <1>6. ASSUME NEW n \in Node, NEW f \in net, RecvHandshake(n, f) \/ RecvRecord(n, f)
        PROVE  Living'
    BY <1>5, <1>6 DEF RecvHandshake, RecvSetup, RecvAck, RecvMsg3, RecvRecord
  <1>7. ASSUME NEW n \in Node, NEW m \in Node,
               \/ EnsureSession(n, m) \/ RouteFound(n, m) \/ RouteFailed(n, m)
               \/ RejectSetup(n, m) \/ RejectOrphan(n, m) \/ CloseSession(n, m)
        PROVE  Living'
    BY <1>5, <1>7 DEF EnsureSession, RouteFound, RouteFailed, RejectSetup, RejectOrphan, CloseSession
  <1>8. ASSUME NEW n \in Node, NEW m \in Node,
               \/ SendRecord(n, m) \/ DrainEarly(n, m) \/ PrunePrevious(n, m)
               \/ RecoverySettles(n, m) \/ BackoffExpires(n, m)
        PROVE  Living'
    BY <1>5, <1>8 DEF SendRecord, DrainEarly, PrunePrevious, RecoverySettles, BackoffExpires
  <1> QED
    BY <1>2, <1>3, <1>4, <1>6, <1>7, <1>8 DEF Next, Receive

LEMMA NextHistory == Inv /\ Inv' /\ History /\ [Next]_vars => History'
  <1> SUFFICES ASSUME Inv, Inv', History, [Next]_vars
               PROVE  History'
    OBVIOUS
  <1>0. CASE UNCHANGED vars
    BY <1>0 DEF vars, History, Living
  <1> SUFFICES ASSUME Next
               PROVE  History'
    BY <1>0
  <1>1. Living'
    BY LivingStep
  <1>2. ASSUME NEW n \in Node, NEW m \in Node \ {n}, EnsureSession(n, m)
        PROVE  History'
    BY <1>1, <1>2, EnsureKeeps DEF EnsureSession
  <1>3. ASSUME NEW n \in Node, NEW m \in Node \ {n}, RouteFound(n, m)
        PROVE  History'
    BY <1>1, <1>3, JoinOrInitiateKeeps DEF RouteFound, Resume
  <1>4. ASSUME NEW n \in Node, NEW m \in Node \ {n},
               \/ RouteFailed(n, m) \/ RejectOrphan(n, m) \/ RecoverySettles(n, m)
               \/ BackoffExpires(n, m)
        PROVE  History'
    BY <1>1, <1>4, RestSteps DEF RouteFailed, RejectOrphan, RecoverySettles, BackoffExpires
  <1>5. ASSUME NEW n \in Node, NEW m \in Node \ {n}, RejectSetup(n, m) \/ CloseSession(n, m)
        PROVE  History'
    BY <1>1, <1>5, DiscardKeeps DEF RejectSetup, CloseSession
  <1>6. ASSUME NEW n \in Node, NEW f \in net, RecvHandshake(n, f)
        PROVE  History'
    BY <1>1, <1>6, RecvSetupKeeps, RecvAckKeeps, RecvMsg3Keeps DEF RecvHandshake
  <1>7. ASSUME NEW n \in Node, NEW f \in net, RecvUnknown(n, f)
        PROVE  History'
    BY <1>1, <1>7, RestSteps DEF RecvUnknown
  <1>8. ASSUME NEW n \in Node, NEW f \in net, RecvRecord(n, f)
        PROVE  History'
    <2>1. f.src \in Node /\ f.src # n /\ f \in Into(net, n, f.src)
      <3>1. f.src \in Node
        BY MineTypes DEF Inv, RestOK
      <3> QED
        BY <1>8, <3>1 DEF RecvRecord, Into, History, Core, FramesOK
    <2>2. HandleRecord(n, f.src, f) /\ UNCHANGED <<epoch, ephemerals, net, draining>>
      BY <1>8 DEF RecvRecord
    <2>3. Waits
      BY <2>2 DEF Waits
    <2> QED
      BY <1>1, <2>1, <2>2, <2>3, HandleRecordKeeps
  <1>9. ASSUME NEW n \in Node, NEW m \in Node \ {n}, DrainEarly(n, m)
        PROVE  History'
    <2> DEFINE q == draining[n][m]
    <2>1. /\ q # <<>> /\ HandleRecord(n, m, Head(q))
          /\ draining' = [draining EXCEPT ![n][m] = Tail(q)]
          /\ UNCHANGED <<epoch, ephemerals, net>>
      BY <1>9 DEF DrainEarly
    <2>2. q \in Seq(Into(net, n, m)) /\ draining \in [Node -> [Node -> Seq(DataFrame)]]
      BY DEF History, QueuesOK, Inv, RestOK
    <2>3. Head(q) \in Into(net, n, m) /\ Tail(q) \in Seq(Into(net', n, m))
      <3> HIDE DEF q
      <3> QED
        BY <2>1, <2>2, HeadTailProperties
    <2>4. Waits
      <3>1. \A x, y \in Node : draining'[x][y] = IF x = n /\ y = m THEN Tail(q)
                                                ELSE draining[x][y]
        BY <2>1, <2>2
      <3> QED
        BY <2>3, <3>1 DEF Waits
    <2> QED
      BY <1>1, <2>1, <2>3, <2>4, HandleRecordKeeps
  <1>10. ASSUME NEW n \in Node, NEW m \in Node \ {n}, SendRecord(n, m)
         PROVE  History'
    BY <1>1, <1>10, SendRecordKeeps
  <1>11. ASSUME NEW n \in Node, NEW m \in Node \ {n}, PrunePrevious(n, m)
         PROVE  History'
    BY <1>1, <1>11, PrunePreviousKeeps
  <1>12. ASSUME NEW t \in resolving, Resolved(t)
         PROVE  History'
    <2>1. t[1] \in Node /\ t[2] \in Node /\ t[1] # t[2]
      BY DEF Inv, RestOK, History, Living
    <2>2. CASE CurrentGeneration(t)
      BY <1>1, <1>12, <2>1, <2>2, EnsureKeeps DEF Resolved
    <2>3. CASE ~CurrentGeneration(t)
      BY <1>1, <1>12, <2>3, RestSteps DEF Resolved
    <2> QED
      BY <2>2, <2>3
  <1>13. ASSUME NEW t \in resolving, Unresolved(t)
         PROVE  History'
    BY <1>1, <1>13, RestSteps DEF Unresolved
  <1>14. ASSUME NEW n \in Node, Restart(n)
         PROVE  History'
    BY <1>1, <1>14, RestartKeeps
  <1> QED
    BY <1>2, <1>3, <1>4, <1>5, <1>6, <1>7, <1>8, <1>9, <1>10, <1>11, <1>12, <1>13, <1>14
    DEF Next, Receive

\* The second invariant holds of every behaviour.
THEOREM HistoryHolds == Spec => []History
  <1>1. Inv /\ Inv' /\ History /\ [Next]_vars => History'
    BY NextHistory
  <1> QED
    BY <1>1, InitHistory, Invariance, PTL DEF Spec

-----------------------------------------------------------------------------
(* What a step may do to a record                                          *)

\* The current key stays; or there was none to lose, or none is left; or it gives way to
\* one that the remote has authenticated since.
SameFsp(s, t) ==
    /\ t.fsp.role = s.fsp.role /\ t.fsp.e = s.fsp.e /\ t.fsp.re = s.fsp.re
    /\ t.fsp.remoteEpoch = s.fsp.remoteEpoch

Supersedes(s, t) ==
    /\ Established(t)
    /\ t.fsp.remoteEpoch >= s.fsp.remoteEpoch
    /\ \/ t.prev = s.fsp /\ t.prevK = s.k
       \/ t.fsp.remoteEpoch # s.fsp.remoteEpoch

Shape(s, t) ==
    \/ SameFsp(s, t)
    \/ Absent(s)
    \/ Absent(t)
    \/ Handshaking(s)
    \/ Supersedes(s, t)

LEMMA ShapesFrom ==
    ASSUME Inv, NEW n \in Node, NEW m \in Node, NEW t, SetSession(n, m, t),
           Shape(sessions[n][m], t)
    PROVE  \A x, y \in Node : Shape(sessions[x][y], sessions'[x][y])
  <1>1. \A x, y \in Node : sessions'[x][y] = IF x = n /\ y = m THEN t ELSE sessions[x][y]
    BY DEF SetSession, Inv, SessionsOK
  <1> SUFFICES ASSUME NEW x \in Node, NEW y \in Node
               PROVE  Shape(sessions[x][y], sessions'[x][y])
    OBVIOUS
  <1>2. CASE x = n /\ y = m
    BY <1>1, <1>2
  <1>3. CASE ~(x = n /\ y = m)
    BY <1>1, <1>3 DEF Shape, SameFsp
  <1> QED
    BY <1>2, <1>3

LEMMA UnchangedShapes ==
    ASSUME UNCHANGED sessions
    PROVE  \A x, y \in Node : Shape(sessions[x][y], sessions'[x][y])
  BY DEF Shape, SameFsp

LEMMA JoinOrInitiateShape ==
    ASSUME Inv, History, NEW n \in Node, NEW m \in Node, JoinOrInitiate(n, m)
    PROVE  \A x, y \in Node : Shape(sessions[x][y], sessions'[x][y])
  <1>1. CASE Reuse(n, m)
    BY <1>1, UnchangedShapes DEF Reuse
  <1>2. CASE Join(n, m)
    <2> DEFINE t == [sessions[n][m] EXCEPT !.setup = TRUE]
    <2>1. SetSession(n, m, t) /\ Handshaking(sessions[n][m])
      BY <1>2 DEF Join
    <2> HIDE DEF t
    <2> QED
      BY <2>1, ShapesFrom DEF Shape
  <1>3. CASE Initiate(n, m)
    <2> DEFINE t == NewSession(Initiator(ephemerals[n] + 1), TRUE, TRUE)
    <2>1. SetSession(n, m, t) /\ Absent(sessions[n][m])
      BY <1>3 DEF Initiate
    <2> HIDE DEF t
    <2> QED
      BY <2>1, ShapesFrom DEF Shape
  <1> QED
    BY <1>1, <1>2, <1>3 DEF JoinOrInitiate

LEMMA EnsureShape ==
    ASSUME Inv, History, NEW n \in Node, NEW m \in Node, Ensure(n, m)
    PROVE  \A x, y \in Node : Shape(sessions[x][y], sessions'[x][y])
  <1>1. CASE JoinOrInitiate(n, m)
    BY <1>1, JoinOrInitiateShape
  <1>2. CASE UNCHANGED sessions
    BY <1>2, UnchangedShapes
  <1> QED
    BY <1>1, <1>2 DEF Ensure

LEMMA DiscardShape ==
    ASSUME Inv, NEW n \in Node, NEW m \in Node, Discard(n, m)
    PROVE  \A x, y \in Node : Shape(sessions[x][y], sessions'[x][y])
  <1>1. SetSession(n, m, NoSession) /\ Absent(NoSession)
    BY DEF Discard, Absent, NoSession, NewSession, NoFsp
  <1>2. Shape(sessions[n][m], NoSession)
    BY <1>1 DEF Shape
  <1> QED
    BY <1>1, <1>2, ShapesFrom

LEMMA RecvSetupShape ==
    ASSUME Inv, History, NEW n \in Node, NEW f \in net, RecvSetup(n, f)
    PROVE  \A x, y \in Node : Shape(sessions[x][y], sessions'[x][y])
  <1> DEFINE m == f.src
             s == sessions[n][m]
             r == Responder(ephemerals[n] + 1, f.ei)
             t == AfterSetup(n, m, f.ei, ephemerals[n] + 1)
  <1>1. m \in Node /\ SetSession(n, m, t)
    BY FrameTypes DEF Inv, RestOK, RecvSetup
  <1>2. s \in Session /\ s.fsp \in Fsp
    BY <1>1, RecordFacts
  <1>3. Shape(s, t)
    <2>1. CASE Established(s)
      <3>1. t = [s EXCEPT !.pending = r]
        BY <2>1 DEF AfterSetup
      <3> HIDE DEF t, r
      <3>2. t.fsp = s.fsp
        BY <1>2, <3>1 DEF Session
      <3> QED
        BY <3>2 DEF Shape, SameFsp
    <2>2. CASE ~Established(s)
      <3>1. Handshaking(s) \/ Absent(s)
        BY <1>2, <2>2 DEF Established, Handshaking, Absent, Fsp
      <3> HIDE DEF t
      <3> QED
        BY <3>1 DEF Shape
    <2> QED
      BY <2>1, <2>2
  <1> HIDE DEF t, m
  <1> QED
    BY <1>1, <1>3, ShapesFrom

LEMMA RecvMsg3Shape ==
    ASSUME Inv, History, NEW n \in Node, NEW f \in net, RecvMsg3(n, f)
    PROVE  \A x, y \in Node : Shape(sessions[x][y], sessions'[x][y])
  <1> DEFINE m == f.src
             s == sessions[n][m]
             h == HandshakeFsp(s)
             a == IF h.state = "established" THEN s ELSE AfterMsg3(s, f.epoch)
             t == [a EXCEPT !.setup = FALSE, !.early = <<>>, !.known = TRUE]
  <1>1. /\ m \in Node /\ SetSession(n, m, t) /\ f.type = "msg3" /\ f.dst = n
        /\ MatchesMsg3(h, f) /\ ~Absent(s) /\ f.epoch \in Nat
    BY FrameTypes DEF Inv, RestOK, RecvMsg3
  <1>2. /\ s \in Session /\ s.fsp \in Fsp /\ PendingOK(s) /\ PrevOK(s) /\ RecordOK(s)
    BY <1>1, RecordFacts
  <1>3. Shape(s, a) /\ a \in Session
    <2>1. CASE h.state = "established"
      BY <1>2, <2>1 DEF Shape, SameFsp
    <2>2. CASE h.state # "established" /\ s.pending.state = "none"
      <3>1. Handshaking(s)
        BY <1>1, <1>2, <2>2 DEF HandshakeFsp, Handshaking, Absent, Fsp
      <3>2. a = AfterMsg3(s, f.epoch)
        BY <2>2
      <3> HIDE DEF a
      <3>3. a \in Session
        BY <1>1, <2>2, <3>2, FinishesRecord
      <3> QED
        BY <3>1, <3>3 DEF Shape
    <2>3. CASE h.state # "established" /\ s.pending.state # "none"
      <3> DEFINE o == Finalized(h, f.epoch)
      <3>1. a = AfterMsg3(s, f.epoch)
        BY <2>3
      <3>2. \/ a = ReplaceRestarted(s, o) /\ s.fsp.remoteEpoch # f.epoch
            \/ a = PromotePending(s, o, ~s.k)
        BY <2>3, <3>1 DEF AfterMsg3
      <3> HIDE DEF a, o
      <3>3. /\ a \in Session /\ a.fsp.remoteEpoch = f.epoch /\ a.fsp.state = "established"
        BY <1>1, <2>3, <3>1, FinishesRecord
      <3>4. f.epoch >= s.fsp.remoteEpoch
        <4>1. h = s.pending
          BY <2>3 DEF HandshakeFsp
        <4>2. f.er = s.pending.e
          BY <1>1, <4>1 DEF MatchesMsg3
        <4>3. RenewalsOK(sessions, net)
          BY DEF History, Core
        <4> QED
          BY <1>1, <2>3, <4>2, <4>3 DEF RenewalsOK
      <3>5. \/ a.prev = s.fsp /\ a.prevK = s.k
            \/ s.fsp.remoteEpoch # f.epoch
        <4>1. CASE a = PromotePending(s, o, ~s.k)
          BY <1>2, <4>1 DEF PromotePending, Session
        <4> QED
          BY <3>2, <4>1
      <3>6. Supersedes(s, a)
        BY <3>3, <3>4, <3>5 DEF Supersedes, Established
      <3> QED
        BY <3>3, <3>6 DEF Shape
    <2> QED
      BY <2>1, <2>2, <2>3
  <1> HIDE DEF a
  <1>4. t.fsp = a.fsp /\ t.prev = a.prev /\ t.prevK = a.prevK
    BY <1>3 DEF Session
  <1> HIDE DEF t
  <1>5. Shape(s, t)
    BY <1>3, <1>4 DEF Shape, SameFsp, Supersedes, Established, Absent
  <1> HIDE DEF m
  <1> QED
    BY <1>1, <1>5, ShapesFrom

LEMMA HandleRecordShape ==
    ASSUME Inv, History, NEW n \in Node, NEW m \in Node, NEW f, HandleRecord(n, m, f)
    PROVE  /\ SameFsp(sessions[n][m], sessions'[n][m])
           /\ \A x, y \in Node : Shape(sessions[x][y], sessions'[x][y])
  <1> DEFINE s == sessions[n][m]
             t == AfterRecord(n, m, s, f)
  <1>1. SetSession(n, m, t)
    BY DEF HandleRecord
  <1>2. s \in Session /\ s.fsp \in Fsp /\ PendingOK(s)
    BY RecordFacts
  <1>3. Selects(s, f) # "pending"
    BY <1>2 DEF PendingOK, Selects
  <1>4. SameFsp(s, t)
    <2>1. CASE Selects(s, f) = "early"
      <3>1. t = QueueEarly(s, f)
        BY <2>1 DEF AfterRecord
      <3> HIDE DEF t
      <3>2. t.fsp = s.fsp
        BY <1>2, <3>1 DEF QueueEarly, Session
      <3> QED
        BY <3>2 DEF SameFsp
    <2>2. CASE Selects(s, f) = "fsp" /\ Delivers(n, m, s, f)
      <3> DEFINE o == Recorded(s.fsp, f)
      <3>1. t = [s EXCEPT !.fsp = o]
        BY <2>2 DEF AfterRecord
      <3>2. /\ o.role = s.fsp.role /\ o.e = s.fsp.e /\ o.re = s.fsp.re
            /\ o.remoteEpoch = s.fsp.remoteEpoch
        BY <1>2 DEF Recorded, Fsp
      <3> HIDE DEF t, o
      <3>3. t.fsp = o
        BY <1>2, <3>1 DEF Session
      <3> QED
        BY <3>2, <3>3 DEF SameFsp
    <2>3. CASE Selects(s, f) = "prev" /\ Delivers(n, m, s, f)
      <3> DEFINE o == Recorded(s.prev, f)
      <3>1. t = [s EXCEPT !.prev = o]
        BY <2>3 DEF AfterRecord
      <3> HIDE DEF t, o
      <3>2. t.fsp = s.fsp
        BY <1>2, <3>1 DEF Session
      <3> QED
        BY <3>2 DEF SameFsp
    <2>4. CASE /\ Selects(s, f) # "early"
               /\ ~(Selects(s, f) = "fsp" /\ Delivers(n, m, s, f))
               /\ ~(Selects(s, f) = "prev" /\ Delivers(n, m, s, f))
      <3>1. t = s
        BY <1>3, <2>4 DEF AfterRecord
      <3> HIDE DEF t
      <3> QED
        BY <3>1 DEF SameFsp
    <2> QED
      BY <2>1, <2>2, <2>3, <2>4
  <1> HIDE DEF t
  <1>5. sessions'[n][m] = t
    BY <1>1 DEF SetSession, Inv, SessionsOK
  <1>6. Shape(s, t)
    BY <1>4 DEF Shape
  <1> QED
    BY <1>1, <1>4, <1>5, <1>6, ShapesFrom

LEMMA StepShapes ==
    ASSUME Inv, History, [Next]_vars
    PROVE  \A x, y \in Node : Shape(sessions[x][y], sessions'[x][y])
  <1> DEFINE Goal == \A x, y \in Node : Shape(sessions[x][y], sessions'[x][y])
  <1>0. ASSUME UNCHANGED sessions
        PROVE  Goal
    BY <1>0, UnchangedShapes
  <1>1. ASSUME UNCHANGED vars
        PROVE  Goal
    BY <1>0, <1>1 DEF vars
  <1>2. ASSUME NEW n \in Node, NEW m \in Node, EnsureSession(n, m)
        PROVE  Goal
    BY <1>2, EnsureShape DEF EnsureSession
  <1>3. ASSUME NEW n \in Node, NEW m \in Node, RouteFound(n, m)
        PROVE  Goal
    BY <1>3, JoinOrInitiateShape DEF RouteFound, Resume
  <1>4. ASSUME NEW n \in Node, NEW m \in Node,
               \/ RouteFailed(n, m) \/ RejectOrphan(n, m) \/ RecoverySettles(n, m)
               \/ BackoffExpires(n, m)
        PROVE  Goal
    BY <1>0, <1>4 DEF RouteFailed, RejectOrphan, RecoverySettles, BackoffExpires
  <1>5. ASSUME NEW n \in Node, NEW m \in Node, RejectSetup(n, m) \/ CloseSession(n, m)
        PROVE  Goal
    BY <1>5, DiscardShape DEF RejectSetup, CloseSession
  <1>6. ASSUME NEW n \in Node, NEW f \in net, RecvAck(n, f)
        PROVE  Goal
    <2> DEFINE m == f.src
               s == sessions[n][m]
               t == [s EXCEPT !.fsp = Finalized([s.fsp EXCEPT !.re = f.er], f.epoch),
                              !.setup = FALSE]
    <2>1. m \in Node /\ SetSession(n, m, t) /\ Handshaking(s)
      BY <1>6, FrameTypes DEF RecvAck, Inv, RestOK
    <2> HIDE DEF t
    <2>2. Shape(s, t)
      BY <2>1 DEF Shape
    <2> HIDE DEF m
    <2> QED
      BY <2>1, <2>2, ShapesFrom
  <1>7. ASSUME NEW n \in Node, NEW f \in net, RecvHandshake(n, f)
        PROVE  Goal
    BY <1>6, <1>7, RecvSetupShape, RecvMsg3Shape DEF RecvHandshake
  <1>8. ASSUME NEW n \in Node, NEW f \in net, RecvRecord(n, f)
        PROVE  Goal
    <2>1. f.src \in Node /\ HandleRecord(n, f.src, f)
      BY <1>8, FrameTypes DEF RecvRecord, Inv, RestOK
    <2> QED
      BY <2>1, HandleRecordShape
  <1>9. ASSUME NEW n \in Node, NEW f \in net, RecvUnknown(n, f)
        PROVE  Goal
    BY <1>0, <1>9 DEF RecvUnknown
  <1>10. ASSUME NEW n \in Node, NEW m \in Node, DrainEarly(n, m)
         PROVE  Goal
    BY <1>10, HandleRecordShape DEF DrainEarly
  <1>11. ASSUME NEW n \in Node, NEW m \in Node, SendRecord(n, m)
         PROVE  Goal
    <2> DEFINE s == sessions[n][m]
               o == [s.fsp EXCEPT !.tx = s.fsp.tx + 1]
               t == [s EXCEPT !.fsp = o]
    <2>1. s \in Session /\ s.fsp \in Fsp
      BY RecordFacts
    <2>2. SetSession(n, m, t)
      BY <1>11, <2>1 DEF SendRecord, SetSession
    <2>3. /\ o.role = s.fsp.role /\ o.e = s.fsp.e /\ o.re = s.fsp.re
          /\ o.remoteEpoch = s.fsp.remoteEpoch
      BY <2>1 DEF Fsp
    <2> HIDE DEF o
    <2>4. t.fsp = o
      BY <2>1 DEF Session
    <2> HIDE DEF t
    <2>5. Shape(s, t)
      BY <2>3, <2>4 DEF Shape, SameFsp
    <2> QED
      BY <2>2, <2>5, ShapesFrom
  <1>12. ASSUME NEW n \in Node, NEW m \in Node, PrunePrevious(n, m)
         PROVE  Goal
    <2> DEFINE s == sessions[n][m]
               t == [s EXCEPT !.prev = NoFsp, !.prevK = FALSE]
    <2>1. s \in Session
      BY RecordFacts
    <2>2. SetSession(n, m, t)
      BY <1>12 DEF PrunePrevious
    <2>3. t.fsp = s.fsp
      BY <2>1 DEF Session
    <2> HIDE DEF t
    <2>4. Shape(s, t)
      BY <2>3 DEF Shape, SameFsp
    <2> QED
      BY <2>2, <2>4, ShapesFrom
  <1>13. ASSUME NEW t \in resolving, Resolved(t) \/ Unresolved(t)
         PROVE  Goal
    <2>1. t[1] \in Node /\ t[2] \in Node
      BY DEF Inv, RestOK
    <2>2. Ensure(t[1], t[2]) \/ UNCHANGED sessions
      BY <1>13 DEF Resolved, Unresolved
    <2> QED
      BY <1>0, <2>1, <2>2, EnsureShape
  <1>14. ASSUME NEW n \in Node, Restart(n)
         PROVE  Goal
    <2>1. Absent(NoSession)
      BY DEF Absent, NoSession, NewSession, NoFsp
    <2>2. \A x, y \in Node : sessions'[x][y] = IF x = n THEN NoSession ELSE sessions[x][y]
      BY <1>14 DEF Restart, Inv, SessionsOK
    <2> QED
      BY <2>1, <2>2 DEF Shape, SameFsp
  <1> HIDE DEF Goal
  <1>15. Goal
    <2>1. ASSUME NEW n \in Node, Receive(n) \/ Restart(n)
          PROVE  Goal
      BY <1>7, <1>8, <1>9, <1>14, <2>1 DEF Receive
    <2>2. ASSUME NEW n \in Node, NEW m \in Node \ {n},
                 \/ EnsureSession(n, m) \/ RouteFound(n, m) \/ RouteFailed(n, m)
                 \/ RejectSetup(n, m) \/ RejectOrphan(n, m) \/ CloseSession(n, m)
                 \/ SendRecord(n, m) \/ DrainEarly(n, m) \/ PrunePrevious(n, m)
                 \/ RecoverySettles(n, m) \/ BackoffExpires(n, m)
          PROVE  Goal
      BY <1>2, <1>3, <1>4, <1>5, <1>10, <1>11, <1>12, <2>2
    <2> QED
      BY <1>1, <1>13, <2>1, <2>2 DEF Next
  <1> QED
    BY <1>15 DEF Goal

\* What a step adds to the bag of delivered records.
LEMMA NewlyDelivered ==
    ASSUME Inv, History, NEW n \in Node, NEW m \in Node, n # m, NEW f \in Into(net, n, m),
           HandleRecord(n, m, f), NEW x \in DOMAIN delivered',
           x \notin DOMAIN delivered \/ delivered'[x] > delivered[x]
    PROVE  x[2].epoch = sessions'[x[1]][x[2].src].fsp.remoteEpoch
  <1> DEFINE s == sessions[n][m]
             d == delivered
             z == <<n, f>>
  <1>1. d' = IF Delivers(n, m, s, f) THEN d (+) SetToBag({z}) ELSE d
    BY DEF HandleRecord
  <1>2. \A y \in DOMAIN d : d[y] = 1
    BY DEF History, DeliveredOK
  <1>3. Delivers(n, m, s, f)
    BY <1>1, <1>2
  <1>4. s \in Session /\ PendingOK(s) /\ PrevOK(s) /\ RecordOK(s)
    BY RecordFacts
  <1>5. PICK o \in LiveIn(s) : Opens(n, m, o, f) /\ o.remoteEpoch = s.fsp.remoteEpoch
    <2>1. Selects(s, f) # "pending"
      BY <1>4 DEF PendingOK, Selects
    <2>2. CASE Selects(s, f) = "fsp"
      BY <1>3, <2>2 DEF Delivers, Opens, LiveIn
    <2>3. CASE Selects(s, f) = "prev"
      <3>1. Opens(n, m, s.prev, f)
        BY <1>3, <2>3 DEF Delivers
      <3> QED
        BY <1>4, <3>1 DEF Opens, LiveIn, RecordOK
    <2> QED
      BY <1>3, <2>1, <2>2, <2>3 DEF Delivers
  <1>6. z \notin DOMAIN d /\ f.src = m /\ f.epoch = o.remoteEpoch
    BY <1>5, OpenedRecord
  <1>7. SameFsp(s, sessions'[n][m])
    BY HandleRecordShape
  <1>8. x = z
    <2>1. d' = d (+) SetToBag({z})
      BY <1>1, <1>3
    <2> DEFINE c == d (+) SetToBag({z})
    <2> HIDE DEF d, z
    <2>2. /\ DOMAIN c = DOMAIN d \cup {z} /\ c[z] = 1
          /\ \A y \in DOMAIN d : c[y] = d[y]
      <3>1. (\A y \in DOMAIN d : d[y] = 1) /\ z \notin DOMAIN d
        BY <1>2, <1>6
      <3>2. /\ DOMAIN (d (+) SetToBag({z})) = DOMAIN d \cup {z}
            /\ (d (+) SetToBag({z}))[z] = 1
            /\ \A y \in DOMAIN d : (d (+) SetToBag({z}))[y] = d[y]
        BY ONLY <3>1, BagGainsOne, ZenonT(60)
      <3> QED
        BY <3>2
    <2> HIDE DEF c
    <2>3. x \in DOMAIN c /\ (x \notin DOMAIN d \/ c[x] > d[x])
      BY <2>1 DEF c, d
    <2>4. x \notin DOMAIN d
      BY <1>2, <2>2, <2>3
    <2> QED
      BY <2>2, <2>3, <2>4
  <1>9. x[1] = n /\ x[2] = f
    BY <1>8
  <1> QED
    BY <1>5, <1>6, <1>7, <1>9 DEF SameFsp

-----------------------------------------------------------------------------
(* The theorems                                                            *)

\* For any number of nodes, restarts and handshakes, however the carriers lose, delay,
\* reorder and repeat frames: decryptIncoming and the early queue give a record to the
\* application once at most.
THEOREM DeliveredOnce == Spec => []NoDuplicateDelivery
  <1>1. History => NoDuplicateDelivery
    BY DEF History, DeliveredOK, NoDuplicateDelivery
  <1> QED
    BY <1>1, HistoryHolds, PTL

\* An established key gives way only to a key that the remote authenticated, and drains
\* unless the remote is a new process (handleSessionMsg3, promotePendingSession,
\* replaceRestartedSession).
THEOREM CutoverAuthenticated == Spec => AuthenticatedCutover
  <1> DEFINE A == \A n \in Node : \A m \in Node \ {n} :
                     LET s == sessions[n][m]
                         t == sessions'[n][m] IN
                     CutsOver(n, m) =>
                         /\ Established(t)
                         /\ \/ KeyOf(n, m, t.prev) = KeyOf(n, m, s.fsp) /\ t.prevK = s.k
                            \/ t.fsp.remoteEpoch # s.fsp.remoteEpoch
  <1>1. ASSUME Inv, History, [Next]_vars
        PROVE  A
    <2> SUFFICES ASSUME NEW n \in Node, NEW m \in Node \ {n}, CutsOver(n, m)
                 PROVE  /\ Established(sessions'[n][m])
                        /\ \/ /\ KeyOf(n, m, sessions'[n][m].prev) = KeyOf(n, m, sessions[n][m].fsp)
                              /\ sessions'[n][m].prevK = sessions[n][m].k
                           \/ sessions'[n][m].fsp.remoteEpoch # sessions[n][m].fsp.remoteEpoch
      OBVIOUS
    <2> DEFINE s == sessions[n][m]
               t == sessions'[n][m]
    <2>1. Shape(s, t)
      BY <1>1, StepShapes
    <2>2. Established(s) /\ ~Absent(t) /\ KeyOf(n, m, s.fsp) # KeyOf(n, m, t.fsp)
      BY DEF CutsOver
    <2> HIDE DEF s, t
    <2>3. ~SameFsp(s, t)
      BY <2>2 DEF SameFsp, KeyOf
    <2>4. ~Absent(s) /\ ~Handshaking(s)
      BY <2>2 DEF Established, Absent, Handshaking
    <2>5. Supersedes(s, t)
      BY <2>1, <2>2, <2>3, <2>4 DEF Shape
    <2> QED
      BY <2>5 DEF Supersedes, s, t
  <1>2. Spec => []Inv /\ []History
    BY Invariance, HistoryHolds, PTL
  <1> HIDE DEF A
  <1>3. Spec => [][A]_vars
    BY <1>1, <1>2, PTL DEF Spec
  <1> QED
    BY <1>3 DEF A, AuthenticatedCutover

\* While a session lives, the epoch it holds of the remote never moves back, whatever
\* delayed Setup, Ack or Msg3 of an earlier life of the remote arrives.
THEOREM EpochsMoveForward == Spec => RemoteEpochNeverRollsBack
  <1> DEFINE A == \A n, m \in Node :
                     ~Absent(sessions[n][m]) /\ ~Absent(sessions'[n][m]) =>
                         sessions'[n][m].fsp.remoteEpoch >= sessions[n][m].fsp.remoteEpoch
  <1>1. ASSUME Inv, Inv', History, [Next]_vars
        PROVE  A
    <2> SUFFICES ASSUME NEW n \in Node, NEW m \in Node,
                        ~Absent(sessions[n][m]), ~Absent(sessions'[n][m])
                 PROVE  sessions'[n][m].fsp.remoteEpoch >= sessions[n][m].fsp.remoteEpoch
      OBVIOUS
    <2> DEFINE s == sessions[n][m]
               t == sessions'[n][m]
    <2>1. Shape(s, t)
      BY <1>1, StepShapes
    <2>2. s \in Session /\ RecordOK(s)
      BY <1>1, RecordFacts
    <2>3. t \in Session
      BY <1>1 DEF Inv, SessionsOK
    <2> HIDE DEF s, t
    <2>4. s.fsp.remoteEpoch \in Nat /\ t.fsp.remoteEpoch \in Nat
      BY <2>2, <2>3 DEF Session, Fsp
    <2>5. Handshaking(s) => s.fsp.remoteEpoch = 0
      BY <2>2 DEF RecordOK, LiveIn, Handshaking
    <2>6. t.fsp.remoteEpoch >= s.fsp.remoteEpoch
      BY <2>1, <2>4, <2>5 DEF Shape, SameFsp, Supersedes, s, t
    <2> QED
      BY <2>6 DEF s, t
  <1>2. Spec => []Inv /\ []History
    BY Invariance, HistoryHolds, PTL
  <1> HIDE DEF A
  <1>3. Spec => [][A]_vars
    BY <1>1, <1>2, PTL DEF Spec
  <1> QED
    BY <1>3 DEF A, RemoteEpochNeverRollsBack

\* A record that is delivered was sealed by the life of the remote that the session
\* authenticates at that moment: handleEstablished gives nothing to the application that
\* was sealed before a restart of the remote which the session has seen.
THEOREM OldLivesSilenced == Spec => DeliveredFromAuthenticatedLife
  <1> DEFINE A == \A x \in DOMAIN delivered' :
                     (x \notin DOMAIN delivered \/ delivered'[x] > delivered[x]) =>
                         x[2].epoch = sessions'[x[1]][x[2].src].fsp.remoteEpoch
  <1>1. ASSUME Inv, History, [Next]_vars
        PROVE  A
    <2> SUFFICES ASSUME NEW x \in DOMAIN delivered',
                        x \notin DOMAIN delivered \/ delivered'[x] > delivered[x]
                 PROVE  x[2].epoch = sessions'[x[1]][x[2].src].fsp.remoteEpoch
      OBVIOUS
    <2>1. delivered' # delivered
      <3>1. \A y \in DOMAIN delivered : delivered[y] = 1
        BY <1>1 DEF History, DeliveredOK
      <3> QED
        BY <3>1
    <2>2. \/ \E n \in Node : \E f \in net : RecvRecord(n, f)
          \/ \E n \in Node : \E m \in Node \ {n} : DrainEarly(n, m)
      <3>1. Next
        BY <1>1, <2>1 DEF vars
      <3>2. ASSUME NEW n \in Node, NEW f \in net, RecvHandshake(n, f) \/ RecvUnknown(n, f)
            PROVE  FALSE
        BY <2>1, <3>2 DEF RecvHandshake, RecvSetup, RecvAck, RecvMsg3, RecvUnknown
      <3>3. ASSUME NEW n \in Node, NEW m \in Node,
                   \/ EnsureSession(n, m) \/ RouteFound(n, m) \/ RouteFailed(n, m)
                   \/ RejectSetup(n, m) \/ RejectOrphan(n, m) \/ CloseSession(n, m)
            PROVE  FALSE
        BY <2>1, <3>3 DEF EnsureSession, RouteFound, RouteFailed, RejectSetup, RejectOrphan,
                          CloseSession
      <3>4. ASSUME NEW n \in Node, NEW m \in Node,
                   \/ SendRecord(n, m) \/ PrunePrevious(n, m)
                   \/ RecoverySettles(n, m) \/ BackoffExpires(n, m) \/ Restart(n)
            PROVE  FALSE
        BY <2>1, <3>4 DEF SendRecord, PrunePrevious, RecoverySettles, BackoffExpires, Restart
      <3>5. ASSUME NEW t \in resolving, Resolved(t) \/ Unresolved(t)
            PROVE  FALSE
        BY <2>1, <3>5 DEF Resolved, Unresolved
      <3> QED
        BY <3>1, <3>2, <3>3, <3>4, <3>5 DEF Next, Receive
    <2>3. CASE \E n \in Node : \E f \in net : RecvRecord(n, f)
      <3>1. PICK n \in Node, f \in net : RecvRecord(n, f)
        BY <2>3
      <3>2. f.src \in Node
        BY <1>1, MineTypes DEF Inv, RestOK
      <3>3. f.src # n /\ f \in Into(net, n, f.src) /\ HandleRecord(n, f.src, f)
        BY <1>1, <3>1, <3>2 DEF RecvRecord, Into, History, Core, FramesOK
      <3> QED
        BY <1>1, <3>2, <3>3, NewlyDelivered
    <2>4. CASE \E n \in Node : \E m \in Node \ {n} : DrainEarly(n, m)
      <3>1. PICK n \in Node : \E m \in Node \ {n} : DrainEarly(n, m)
        BY <2>4
      <3>2. PICK m \in Node \ {n} : DrainEarly(n, m)
        BY <3>1
      <3> DEFINE q == draining[n][m]
      <3>3. q # <<>> /\ HandleRecord(n, m, Head(q)) /\ q \in Seq(Into(net, n, m))
        BY <1>1, <3>2 DEF DrainEarly, History, QueuesOK
      <3> HIDE DEF q
      <3>4. Head(q) \in Into(net, n, m)
        BY <3>3, HeadTailProperties
      <3> QED
        BY <1>1, <3>3, <3>4, NewlyDelivered
    <2> QED
      BY <2>2, <2>3, <2>4
  <1>2. Spec => []Inv /\ []History
    BY Invariance, HistoryHolds, PTL
  <1> HIDE DEF A
  <1>3. Spec => [][A]_vars
    BY <1>1, <1>2, PTL DEF Spec
  <1> QED
    BY <1>3 DEF A, DeliveredFromAuthenticatedLife

-----------------------------------------------------------------------------
(* The K bit.  A bit flips when a handshake renews a session and both      *)
(* lives stay the same.  For that a node with no authenticated session     *)
(* must set one up with a remote that it has told its epoch before, and it *)
(* loses such a session only by a restart or by discarding it.             *)

\* m has told n, in an Ack or a Msg3, that its epoch is ep.
Told(nt, n, m, ep) ==
    \E g \in nt : g.type \in {"ack", "msg3"} /\ g.src = m /\ g.dst = n /\ g.epoch = ep

\* The owner of the record has not answered the remote yet.
Silent(s) == Absent(s) \/ (Handshaking(s) /\ s.fsp.role = "initiator")

\* Whoever completes a handshake was told an epoch; whoever has not answered told none;
\* and what completes a pending handshake is of another life than the current session.
BitsOK(ss, nt, ep) ==
    \A n, m \in Node :
        LET s == ss[n][m] IN
        /\ Established(s) => Told(nt, n, m, s.fsp.remoteEpoch)
        /\ Silent(s) => ~Told(nt, m, n, ep[n])
        /\ s.pending.state # "none" =>
              \A g \in nt : g.type = "msg3" /\ g.src = m /\ g.dst = n /\ g.er = s.pending.e =>
                  g.epoch # s.fsp.remoteEpoch
        /\ s.k = FALSE

FaultsOK == faults \in [restarts : Nat, timeouts : Nat, closes : Nat]

NothingDiscarded == faults.timeouts + faults.closes = 0

Bits == BitsOK(sessions, net, epoch)

\* n may exchange its record for m for t and send the frames nt: an Ack or a Msg3 ends
\* its silence, and a new pending handshake is younger than every Msg3.
Answers(n, m, t, nt) ==
    /\ \A g \in nt : g.type \in {"ack", "msg3"} =>
           g.src = n /\ g.dst = m /\ g.epoch = epoch[n] /\ ~Silent(t)
    /\ \A g \in nt : g.type = "msg3" => Silent(sessions[n][m])
    /\ Silent(t) => Silent(sessions[n][m])
    /\ Established(t) => Told(net, n, m, t.fsp.remoteEpoch)
    /\ t.pending.state # "none" =>
           /\ t.fsp.remoteEpoch = sessions[n][m].fsp.remoteEpoch
           /\ \/ t.pending = sessions[n][m].pending
              \/ t.pending.e > ephemerals[n] /\ t.pending.e \in Nat
    /\ t.k = FALSE

\* A step that gives n a new record t for m and sends the frames nt.
LEMMA BitsMove ==
    ASSUME Inv, History, Bits, NEW n \in Node, NEW m \in Node, n # m, NEW t, NEW nt,
           SetSession(n, m, t), net' = net \cup nt, UNCHANGED epoch,
           Answers(n, m, t, nt)
    PROVE  Bits'
  <1> USE DEF Answers
  <1>1. \A x, y \in Node : sessions'[x][y] = IF x = n /\ y = m THEN t ELSE sessions[x][y]
    BY DEF SetSession, Inv, SessionsOK
  <1> SUFFICES ASSUME NEW x \in Node, NEW y \in Node
               PROVE  /\ Established(sessions'[x][y]) =>
                            Told(net', x, y, sessions'[x][y].fsp.remoteEpoch)
                      /\ Silent(sessions'[x][y]) => ~Told(net', y, x, epoch[x])
                      /\ sessions'[x][y].pending.state # "none" =>
                            \A g \in net' : /\ g.type = "msg3" /\ g.src = y /\ g.dst = x
                                            /\ g.er = sessions'[x][y].pending.e
                                => g.epoch # sessions'[x][y].fsp.remoteEpoch
                      /\ sessions'[x][y].k = FALSE
    BY ZenonT(40) DEF Bits, BitsOK
  <1>2. /\ Established(sessions[x][y]) => Told(net, x, y, sessions[x][y].fsp.remoteEpoch)
        /\ Silent(sessions[x][y]) => ~Told(net, y, x, epoch[x])
        /\ sessions[x][y].pending.state # "none" =>
              \A g \in net : /\ g.type = "msg3" /\ g.src = y /\ g.dst = x
                             /\ g.er = sessions[x][y].pending.e
                  => g.epoch # sessions[x][y].fsp.remoteEpoch
        /\ sessions[x][y].k = FALSE
    BY DEF Bits, BitsOK
  <1>3. Silent(sessions[n][m]) => ~Told(net, m, n, epoch[n])
    BY DEF Bits, BitsOK
  <1>4. Established(sessions'[x][y]) => Told(net', x, y, sessions'[x][y].fsp.remoteEpoch)
    <2>1. Established(sessions'[x][y]) => Told(net, x, y, sessions'[x][y].fsp.remoteEpoch)
      BY <1>1, <1>2
    <2> QED
      BY <2>1 DEF Told
  <1>5. Silent(sessions'[x][y]) => ~Told(net', y, x, epoch[x])
    <2>1. Silent(sessions'[x][y]) => Silent(sessions[x][y])
      BY <1>1
    <2>2. ASSUME Silent(sessions'[x][y]), NEW g \in nt, g.type \in {"ack", "msg3"},
                 g.src = x, g.dst = y
          PROVE  FALSE
      BY <1>1, <2>2
    <2> QED
      BY <1>2, <2>1, <2>2 DEF Told
  <1>6. sessions'[x][y].pending.state # "none" =>
            \A g \in net' : /\ g.type = "msg3" /\ g.src = y /\ g.dst = x
                            /\ g.er = sessions'[x][y].pending.e
                => g.epoch # sessions'[x][y].fsp.remoteEpoch
    <2> SUFFICES ASSUME sessions'[x][y].pending.state # "none", NEW g \in net',
                        g.type = "msg3", g.src = y, g.dst = x,
                        g.er = sessions'[x][y].pending.e,
                        g.epoch = sessions'[x][y].fsp.remoteEpoch
                 PROVE  FALSE
      OBVIOUS
    <2>1. CASE x = n /\ y = m
      <3>1. g \in net
        BY <2>1
      <3>2. g.er <= ephemerals[n] /\ g.er \in Nat /\ ephemerals[n] \in Nat
        BY <2>1, <3>1, MineTypes, RecordFacts DEF History, Core, FramesOK, Inv, RestOK
      <3>3. sessions'[x][y] = t
        BY <1>1, <2>1
      <3>4. t.pending = sessions[n][m].pending
        BY <3>2, <3>3
      <3> QED
        BY <1>2, <2>1, <3>1, <3>3, <3>4
    <2>2. CASE ~(x = n /\ y = m)
      <3>1. sessions'[x][y] = sessions[x][y]
        BY <1>1, <2>2
      <3>2. CASE g \in net
        BY <1>2, <3>1, <3>2
      <3>3. CASE g \in nt
        <4>1. y = n /\ x = m /\ g.epoch = epoch[n] /\ Silent(sessions[n][m])
          BY <3>3
        <4>2. PendingOK(sessions[x][y])
          BY RecordFacts
        <4>3. Told(net, x, y, sessions[x][y].fsp.remoteEpoch)
          BY <1>2, <3>1, <4>2 DEF PendingOK, Established
        <4> QED
          BY <1>3, <3>1, <4>1, <4>3
      <3> QED
        BY <3>2, <3>3
    <2> QED
      BY <2>1, <2>2
  <1>7. sessions'[x][y].k = FALSE
    BY <1>1, <1>2
  <1> QED
    BY <1>4, <1>5, <1>6, <1>7

\* A step that leaves the record of n for m as it was but for what Bits does not see,
\* and sends no Ack and no Msg3.
LEMMA BitsStay ==
    ASSUME Inv, History, Bits, NEW n \in Node, NEW m \in Node, n # m, NEW t, NEW nt,
           SetSession(n, m, t), net' = net \cup nt, UNCHANGED epoch,
           \A g \in nt : g.type \notin {"ack", "msg3"},
           t.fsp.state = sessions[n][m].fsp.state, t.fsp.role = sessions[n][m].fsp.role,
           t.fsp.remoteEpoch = sessions[n][m].fsp.remoteEpoch,
           t.pending = sessions[n][m].pending, t.k = sessions[n][m].k
    PROVE  Bits'
  <1>1. /\ Established(sessions[n][m]) => Told(net, n, m, sessions[n][m].fsp.remoteEpoch)
        /\ sessions[n][m].k = FALSE
    BY DEF Bits, BitsOK
  <1>2. Established(t) => Told(net, n, m, t.fsp.remoteEpoch)
    BY <1>1 DEF Established
  <1>3. Silent(t) => Silent(sessions[n][m])
    BY DEF Silent, Absent, Handshaking
  <1>4. Answers(n, m, t, nt)
    BY <1>1, <1>2, <1>3 DEF Answers
  <1> QED
    BY <1>4, BitsMove

\* The same, and nothing is sent at all.
LEMMA BitsQuiet ==
    ASSUME Inv, History, Bits, NEW n \in Node, NEW m \in Node, n # m, NEW t,
           SetSession(n, m, t), UNCHANGED <<net, epoch>>,
           t.fsp.state = sessions[n][m].fsp.state, t.fsp.role = sessions[n][m].fsp.role,
           t.fsp.remoteEpoch = sessions[n][m].fsp.remoteEpoch,
           t.pending = sessions[n][m].pending, t.k = sessions[n][m].k
    PROVE  Bits'
  <1> DEFINE nt == {}
  <1>1. net' = net \cup nt /\ \A g \in nt : g.type \notin {"ack", "msg3"}
    OBVIOUS
  <1> HIDE DEF nt
  <1> QED
    BY <1>1, BitsStay

LEMMA BitsUnchanged ==
    ASSUME Bits, UNCHANGED <<sessions, net, epoch>>
    PROVE  Bits'
  BY DEF Bits, BitsOK

LEMMA JoinOrInitiateBits ==
    ASSUME Inv, History, Bits, NEW n \in Node, NEW m \in Node, n # m,
           JoinOrInitiate(n, m), UNCHANGED epoch
    PROVE  Bits'
  <1> DEFINE s == sessions[n][m]
  <1>0. s \in Session
    BY RecordFacts
  <1>1. CASE Reuse(n, m)
    BY <1>1, BitsUnchanged DEF Reuse
  <1>2. CASE Join(n, m)
    <2> DEFINE t == [s EXCEPT !.setup = TRUE]
    <2>1. SetSession(n, m, t) /\ UNCHANGED net
      BY <1>2 DEF Join
    <2>2. t.fsp = s.fsp /\ t.pending = s.pending /\ t.k = s.k
      BY <1>0 DEF Session
    <2> HIDE DEF t
    <2> QED
      BY <2>1, <2>2, BitsQuiet
  <1>3. CASE Initiate(n, m)
    <2> DEFINE t == NewSession(Initiator(ephemerals[n] + 1), TRUE, TRUE)
               nt == {SetupFrame(n, m, ephemerals[n] + 1)}
    <2>1. SetSession(n, m, t) /\ Silent(s) /\ net' = net \cup nt
      BY <1>3 DEF Initiate, Silent
    <2>2. t.fsp.state = "handshaking" /\ t.pending.state = "none" /\ t.k = FALSE
      BY DEF NewSession, Initiator, NewFsp, NoFsp
    <2>3. \A g \in nt : g.type \notin {"ack", "msg3"}
      BY DEF SetupFrame
    <2>4. ~Established(t)
      BY <2>2 DEF Established
    <2> HIDE DEF t, nt
    <2>5. Answers(n, m, t, nt)
      BY <2>1, <2>2, <2>3, <2>4 DEF Answers
    <2> QED
      BY <2>1, <2>5, BitsMove
  <1> QED
    BY <1>1, <1>2, <1>3 DEF JoinOrInitiate

LEMMA EnsureBits ==
    ASSUME Inv, History, Bits, NEW n \in Node, NEW m \in Node, n # m, Ensure(n, m),
           UNCHANGED epoch
    PROVE  Bits'
  <1>1. CASE JoinOrInitiate(n, m)
    BY <1>1, JoinOrInitiateBits
  <1>2. CASE UNCHANGED <<sessions, net>>
    BY <1>2, BitsUnchanged
  <1> QED
    BY <1>1, <1>2 DEF Ensure

LEMMA RecvSetupBits ==
    ASSUME Inv, History, Bits, NEW n \in Node, NEW f \in net, RecvSetup(n, f)
    PROVE  Bits'
  <1> DEFINE m == f.src
             s == sessions[n][m]
             r == Responder(ephemerals[n] + 1, f.ei)
             t == AfterSetup(n, m, f.ei, ephemerals[n] + 1)
             nt == {AckFrame(n, m, f.ei, ephemerals[n] + 1)}
  <1>1. /\ m \in Node /\ n # m /\ SetSession(n, m, t) /\ net' = net \cup nt
        /\ UNCHANGED epoch
    BY FrameTypes DEF Inv, RestOK, RecvSetup, History, Core, FramesOK
  <1>2. s \in Session /\ s.fsp \in Fsp /\ ephemerals[n] \in Nat
    BY <1>1, RecordFacts
  <1>3. /\ r.state = "handshaking" /\ r.role = "responder" /\ r.e = ephemerals[n] + 1
    BY DEF Responder, NewFsp
  <1>4. \A g \in nt : g.type = "ack" /\ g.src = n /\ g.dst = m /\ g.epoch = epoch[n]
    BY DEF AckFrame
  <1>5. /\ Established(s) => Told(net, n, m, s.fsp.remoteEpoch)
        /\ s.k = FALSE
    BY <1>1 DEF Bits, BitsOK
  <1>6. /\ ~Silent(t)
        /\ Established(t) => Told(net, n, m, t.fsp.remoteEpoch)
        /\ t.pending.state # "none" =>
               /\ t.fsp.remoteEpoch = s.fsp.remoteEpoch
               /\ t.pending.e > ephemerals[n] /\ t.pending.e \in Nat
        /\ t.k = FALSE
    <2>1. CASE Established(s)
      <3>1. t = [s EXCEPT !.pending = r]
        BY <2>1 DEF AfterSetup
      <3> HIDE DEF t, r, m
      <3>2. t.fsp = s.fsp /\ t.pending = r /\ t.k = s.k
        BY <1>2, <3>1 DEF Session
      <3> QED
        BY <1>2, <1>3, <1>5, <2>1, <3>2 DEF Silent, Absent, Handshaking, Established
    <2>2. CASE ~Established(s) /\ Handshaking(s) /\ s.fsp.role = "initiator"
      <3>1. t = [s EXCEPT !.fsp = r]
        BY <2>2 DEF AfterSetup
      <3>2. PendingOK(s)
        BY <1>1, RecordFacts
      <3> HIDE DEF t, r, m
      <3>3. t.fsp = r /\ t.pending = s.pending /\ t.k = s.k
        BY <1>2, <3>1 DEF Session
      <3>4. s.pending.state = "none"
        BY <2>2, <3>2 DEF PendingOK, Established
      <3> QED
        BY <1>2, <1>3, <1>5, <3>3, <3>4 DEF Silent, Absent, Handshaking, Established
    <2>3. CASE ~Established(s) /\ ~(Handshaking(s) /\ s.fsp.role = "initiator")
      <3>1. t = NewSession(r, FALSE, FALSE)
        BY <2>3 DEF AfterSetup
      <3> HIDE DEF t, r, m
      <3>2. t.fsp = r /\ t.pending.state = "none" /\ t.k = FALSE
        BY <3>1 DEF NewSession, NoFsp
      <3> QED
        BY <1>3, <3>2 DEF Silent, Absent, Handshaking, Established
    <2> QED
      BY <2>1, <2>2, <2>3
  <1> HIDE DEF t, m, nt, r
  <1>7. Answers(n, m, t, nt)
    BY <1>4, <1>6 DEF Answers
  <1> QED
    BY <1>1, <1>7, BitsMove

LEMMA RecvAckBits ==
    ASSUME Inv, History, Bits, NEW n \in Node, NEW f \in net, RecvAck(n, f)
    PROVE  Bits'
  <1> DEFINE m == f.src
             s == sessions[n][m]
             o == Finalized([s.fsp EXCEPT !.re = f.er], f.epoch)
             t == [s EXCEPT !.fsp = o, !.setup = FALSE]
             nt == {Msg3Frame(n, m, f.ei, f.er)}
  <1>1. /\ m \in Node /\ n # m /\ SetSession(n, m, t) /\ net' = net \cup nt
        /\ UNCHANGED epoch /\ f.type = "ack" /\ f.dst = n /\ Handshaking(s)
        /\ s.fsp.role = "initiator"
    BY FrameTypes DEF Inv, RestOK, RecvAck, History, Core, FramesOK
  <1>2. s \in Session /\ s.fsp \in Fsp /\ PendingOK(s)
    BY <1>1, RecordFacts
  <1>3. o.state = "established" /\ o.remoteEpoch = f.epoch
    BY <1>2 DEF Finalized, Fsp
  <1>4. \A g \in nt : g.type = "msg3" /\ g.src = n /\ g.dst = m /\ g.epoch = epoch[n]
    BY DEF Msg3Frame
  <1>5. Told(net, n, m, f.epoch)
    BY <1>1 DEF Told
  <1>6. s.k = FALSE
    BY <1>1 DEF Bits, BitsOK
  <1> HIDE DEF o
  <1>7. t.fsp = o /\ t.pending = s.pending /\ t.k = s.k
    BY <1>2 DEF Session
  <1>8. s.pending.state = "none"
    BY <1>1, <1>2 DEF PendingOK, Handshaking
  <1> HIDE DEF t, m, nt
  <1>9. Silent(s) /\ ~Silent(t)
    BY <1>1, <1>3, <1>7 DEF Silent, Absent, Handshaking
  <1>10. /\ Established(t) => Told(net, n, m, t.fsp.remoteEpoch)
         /\ t.pending.state = "none" /\ t.k = FALSE
    BY <1>3, <1>5, <1>6, <1>7, <1>8
  <1>11. Answers(n, m, t, nt)
    BY <1>4, <1>9, <1>10 DEF Answers
  <1> QED
    BY <1>1, <1>11, BitsMove

\* A Msg3 completes a first handshake, or tells of a new life of the remote.
LEMMA RecvMsg3Bits ==
    ASSUME Inv, History, Bits, NEW n \in Node, NEW f \in net, RecvMsg3(n, f)
    PROVE  Bits'
  <1> DEFINE m == f.src
             s == sessions[n][m]
             h == HandshakeFsp(s)
             a == IF h.state = "established" THEN s ELSE AfterMsg3(s, f.epoch)
             t == [a EXCEPT !.setup = FALSE, !.early = <<>>, !.known = TRUE]
             nt == {}
  <1>1. /\ m \in Node /\ n # m /\ SetSession(n, m, t) /\ f.type = "msg3" /\ f.dst = n
        /\ MatchesMsg3(h, f) /\ ~Absent(s) /\ f.epoch \in Nat
        /\ net' = net \cup nt /\ UNCHANGED epoch
    BY FrameTypes DEF Inv, RestOK, RecvMsg3, History, Core, FramesOK
  <1>2. /\ s \in Session /\ s.fsp \in Fsp /\ PendingOK(s) /\ RecordOK(s)
    BY <1>1, RecordFacts
  <1>3. /\ Established(s) => Told(net, n, m, s.fsp.remoteEpoch)
        /\ s.k = FALSE
        /\ s.pending.state # "none" /\ f.er = s.pending.e => f.epoch # s.fsp.remoteEpoch
    BY <1>1 DEF Bits, BitsOK
  <1>4. Told(net, n, m, f.epoch)
    BY <1>1 DEF Told
  <1>5. /\ a \in Session
        /\ Silent(a) => Silent(s)
        /\ Established(a) => Told(net, n, m, a.fsp.remoteEpoch)
        /\ a.pending.state # "none" =>
               a.fsp.remoteEpoch = s.fsp.remoteEpoch /\ a.pending = s.pending
        /\ a.k = FALSE
    <2>1. CASE h.state = "established"
      BY <1>2, <1>3, <2>1
    <2>2. CASE h.state # "established"
      <3> DEFINE o == Finalized(h, f.epoch)
      <3>1. a = AfterMsg3(s, f.epoch)
        BY <2>2
      <3>2. \/ a = [s EXCEPT !.fsp = o]
            \/ a = ReplaceRestarted(s, o)
        <4>1. CASE s.pending.state = "none"
          BY <3>1, <4>1 DEF AfterMsg3
        <4>2. CASE s.pending.state # "none"
          <5>1. f.er = s.pending.e
            BY <1>1, <4>2 DEF HandshakeFsp, MatchesMsg3
          <5>2. s.fsp.remoteEpoch # 0
            BY <1>2, <4>2 DEF PendingOK, RecordOK, LiveIn
          <5> QED
            BY <1>3, <3>1, <4>2, <5>1, <5>2 DEF AfterMsg3
        <4> QED
          BY <4>1, <4>2
      <3> HIDE DEF a, o
      <3>3. /\ a \in Session /\ a.fsp.remoteEpoch = f.epoch /\ a.fsp.state = "established"
            /\ a.pending.state = "none"
        BY <1>1, <2>2, <3>1, FinishesRecord
      <3>4. a.k = FALSE
        BY <1>2, <1>3, <3>2 DEF ReplaceRestarted, Session
      <3> QED
        BY <1>4, <3>3, <3>4 DEF Silent, Absent, Handshaking
    <2> QED
      BY <2>1, <2>2
  <1> HIDE DEF a
  <1>6. t.fsp = a.fsp /\ t.pending = a.pending /\ t.k = a.k
    BY <1>5 DEF Session
  <1>7. \A g \in nt : FALSE
    OBVIOUS
  <1> HIDE DEF t, m, nt
  <1>8. /\ Silent(t) => Silent(s)
        /\ Established(t) => Told(net, n, m, t.fsp.remoteEpoch)
        /\ t.pending.state # "none" =>
               t.fsp.remoteEpoch = s.fsp.remoteEpoch /\ t.pending = s.pending
        /\ t.k = FALSE
    BY <1>5, <1>6 DEF Silent, Absent, Handshaking, Established
  <1>9. Answers(n, m, t, nt)
    BY <1>7, <1>8 DEF Answers
  <1> QED
    BY <1>1, <1>9, BitsMove

LEMMA SendRecordBits ==
    ASSUME Inv, History, Bits, NEW n \in Node, NEW m \in Node, n # m, SendRecord(n, m)
    PROVE  Bits'
  <1> DEFINE s == sessions[n][m]
             o == [s.fsp EXCEPT !.tx = s.fsp.tx + 1]
             t == [s EXCEPT !.fsp = o]
             nt == {Record(n, m, s)}
  <1>1. s \in Session /\ s.fsp \in Fsp
    BY RecordFacts
  <1>2. SetSession(n, m, t) /\ net' = net \cup nt /\ UNCHANGED epoch
    BY <1>1 DEF SendRecord, SetSession
  <1>3. o.role = s.fsp.role /\ o.state = s.fsp.state /\ o.remoteEpoch = s.fsp.remoteEpoch
    BY <1>1 DEF Fsp
  <1>4. \A g \in nt : g.type \notin {"ack", "msg3"}
    BY DEF Record
  <1> HIDE DEF o
  <1>5. t.fsp = o /\ t.pending = s.pending /\ t.k = s.k
    BY <1>1 DEF Session
  <1> HIDE DEF t, nt
  <1> QED
    BY <1>2, <1>3, <1>4, <1>5, BitsStay

LEMMA HandleRecordBits ==
    ASSUME Inv, History, Bits, NEW n \in Node, NEW m \in Node, n # m, NEW f,
           HandleRecord(n, m, f), UNCHANGED <<net, epoch>>
    PROVE  Bits'
  <1> DEFINE s == sessions[n][m]
             t == AfterRecord(n, m, s, f)
  <1>1. SetSession(n, m, t)
    BY DEF HandleRecord
  <1>2. s \in Session /\ s.fsp \in Fsp /\ PendingOK(s)
    BY RecordFacts
  <1>3. /\ t.fsp.state = s.fsp.state /\ t.fsp.role = s.fsp.role
        /\ t.fsp.remoteEpoch = s.fsp.remoteEpoch
        /\ t.pending = s.pending /\ t.k = s.k
    <2>1. Selects(s, f) # "pending"
      BY <1>2 DEF PendingOK, Selects
    <2> DEFINE o == Recorded(s.fsp, f)
               p == Recorded(s.prev, f)
    <2>2. o.role = s.fsp.role /\ o.state = s.fsp.state /\ o.remoteEpoch = s.fsp.remoteEpoch
      BY <1>2 DEF Recorded, Fsp
    <2>3. \/ t = s
          \/ t = [s EXCEPT !.early = Append(s.early, f)]
          \/ t = [s EXCEPT !.fsp = o]
          \/ t = [s EXCEPT !.prev = p]
      BY <1>2, <2>1 DEF AfterRecord, QueueEarly
    <2> HIDE DEF o, p, t
    <2> QED
      BY <1>2, <2>2, <2>3 DEF Session
  <1> HIDE DEF t
  <1> QED
    BY <1>1, <1>3, BitsQuiet

LEMMA PrunePreviousBits ==
    ASSUME Inv, History, Bits, NEW n \in Node, NEW m \in Node, n # m, PrunePrevious(n, m)
    PROVE  Bits'
  <1> DEFINE s == sessions[n][m]
             t == [s EXCEPT !.prev = NoFsp, !.prevK = FALSE]
  <1>1. s \in Session
    BY RecordFacts
  <1>2. SetSession(n, m, t) /\ UNCHANGED <<net, epoch>>
    BY DEF PrunePrevious
  <1>3. t.fsp = s.fsp /\ t.pending = s.pending /\ t.k = s.k
    BY <1>1 DEF Session
  <1> HIDE DEF t
  <1> QED
    BY <1>2, <1>3, BitsQuiet

\* A new life has told nobody anything.
LEMMA RestartBits ==
    ASSUME Inv, History, Bits, NEW n \in Node, Restart(n)
    PROVE  Bits'
  <1>1. /\ \A x, y \in Node : sessions'[x][y] = IF x = n THEN NoSession ELSE sessions[x][y]
        /\ UNCHANGED net
        /\ \A x \in Node : epoch'[x] = IF x = n THEN epoch[n] + 1 ELSE epoch[x]
    BY DEF Restart, Inv, SessionsOK, RestOK
  <1>2. /\ ~Established(NoSession) /\ NoSession.pending.state = "none" /\ NoSession.k = FALSE
    BY DEF NoSession, NewSession, NoFsp, Established
  <1>3. \A y \in Node : ~Told(net, y, n, epoch[n] + 1)
    <2> SUFFICES ASSUME NEW g \in net, g.type \in {"ack", "msg3"}, g.src = n,
                        g.epoch = epoch[n] + 1
                 PROVE  FALSE
      BY DEF Told
    <2>1. epoch[n] \in Nat
      BY DEF Inv, RestOK
    <2>2. g.epoch <= epoch[n]
      BY DEF History, Core, FramesOK
    <2> QED
      BY <2>1, <2>2
  <1> SUFFICES ASSUME NEW x \in Node, NEW y \in Node
               PROVE  /\ Established(sessions'[x][y]) =>
                            Told(net, x, y, sessions'[x][y].fsp.remoteEpoch)
                      /\ Silent(sessions'[x][y]) => ~Told(net, y, x, epoch'[x])
                      /\ sessions'[x][y].pending.state # "none" =>
                            \A g \in net : /\ g.type = "msg3" /\ g.src = y /\ g.dst = x
                                           /\ g.er = sessions'[x][y].pending.e
                                => g.epoch # sessions'[x][y].fsp.remoteEpoch
                      /\ sessions'[x][y].k = FALSE
    BY <1>1, ZenonT(40) DEF Bits, BitsOK
  <1>4. CASE x = n
    BY <1>1, <1>2, <1>3, <1>4
  <1>5. CASE x # n
    <2>1. sessions'[x][y] = sessions[x][y] /\ epoch'[x] = epoch[x]
      BY <1>1, <1>5
    <2> QED
      BY <2>1 DEF Bits, BitsOK
  <1> QED
    BY <1>4, <1>5

\* Faults are counted up, and a step that discards a session counts.
LEMMA FaultsStep ==
    ASSUME FaultsOK, [Next]_vars
    PROVE  /\ FaultsOK'
           /\ NothingDiscarded' => NothingDiscarded
           /\ \A n, m \in Node : RejectSetup(n, m) \/ CloseSession(n, m) => ~NothingDiscarded'
  <1> DEFINE Counted == /\ FaultsOK'
                        /\ NothingDiscarded' => NothingDiscarded
  <1>1. ASSUME UNCHANGED faults
        PROVE  Counted
    BY <1>1 DEF FaultsOK, NothingDiscarded
  <1>2. ASSUME NEW n \in Node, NEW m \in Node, RejectSetup(n, m)
        PROVE  Counted /\ ~NothingDiscarded'
    BY <1>2 DEF RejectSetup, FaultsOK, NothingDiscarded
  <1>3. ASSUME NEW n \in Node, NEW m \in Node, CloseSession(n, m)
        PROVE  Counted /\ ~NothingDiscarded'
    BY <1>3 DEF CloseSession, FaultsOK, NothingDiscarded
  <1>4. ASSUME NEW n \in Node, Restart(n)
        PROVE  Counted
    BY <1>4 DEF Restart, FaultsOK, NothingDiscarded
  <1>5. ASSUME NEW n \in Node, Receive(n)
        PROVE  UNCHANGED faults
    <2>1. \A f \in net : RecvSetup(n, f) => UNCHANGED faults
      BY DEF RecvSetup
    <2>2. \A f \in net : RecvAck(n, f) => UNCHANGED faults
      BY DEF RecvAck
    <2>3. \A f \in net : RecvMsg3(n, f) => UNCHANGED faults
      BY DEF RecvMsg3
    <2>4. \A f \in net : RecvRecord(n, f) \/ RecvUnknown(n, f) => UNCHANGED faults
      BY DEF RecvRecord, RecvUnknown
    <2> QED
      BY <1>5, <2>1, <2>2, <2>3, <2>4 DEF Receive, RecvHandshake
  <1>6. ASSUME NEW n \in Node, NEW m \in Node,
               \/ EnsureSession(n, m) \/ RouteFound(n, m) \/ RouteFailed(n, m)
               \/ RejectOrphan(n, m) \/ SendRecord(n, m) \/ DrainEarly(n, m)
               \/ PrunePrevious(n, m) \/ RecoverySettles(n, m) \/ BackoffExpires(n, m)
        PROVE  UNCHANGED faults
    BY <1>6 DEF EnsureSession, RouteFound, RouteFailed, RejectOrphan, SendRecord, DrainEarly,
                PrunePrevious, RecoverySettles, BackoffExpires
  <1>7. ASSUME NEW t \in resolving, Resolved(t) \/ Unresolved(t)
        PROVE  UNCHANGED faults
    BY <1>7 DEF Resolved, Unresolved
  <1> HIDE DEF Counted
  <1>8. Counted
    <2>1. CASE UNCHANGED vars
      BY <1>1, <2>1 DEF vars
    <2>2. CASE Next
      BY <1>1, <1>2, <1>3, <1>4, <1>5, <1>6, <1>7, <2>2 DEF Next
    <2> QED
      BY <2>1, <2>2
  <1> QED
    BY <1>2, <1>3, <1>8 DEF Counted

LEMMA NextBits ==
    ASSUME Inv, History, FaultsOK, Bits, NothingDiscarded', [Next]_vars
    PROVE  Bits'
  <1>1. ASSUME UNCHANGED vars
        PROVE  Bits'
    BY <1>1, BitsUnchanged DEF vars
  <1>2. ASSUME NEW n \in Node, NEW m \in Node \ {n}, EnsureSession(n, m) \/ RouteFound(n, m)
        PROVE  Bits'
    BY <1>2, EnsureBits, JoinOrInitiateBits DEF EnsureSession, RouteFound, Resume
  <1>3. ASSUME NEW n \in Node, NEW m \in Node,
               \/ RouteFailed(n, m) \/ RejectOrphan(n, m) \/ RecoverySettles(n, m)
               \/ BackoffExpires(n, m)
        PROVE  Bits'
    BY <1>3, BitsUnchanged DEF RouteFailed, RejectOrphan, RecoverySettles, BackoffExpires
  <1>4. ASSUME NEW n \in Node, NEW m \in Node, RejectSetup(n, m) \/ CloseSession(n, m)
        PROVE  Bits'
    BY <1>4, FaultsStep
  <1>5. ASSUME NEW n \in Node, NEW f \in net, RecvHandshake(n, f)
        PROVE  Bits'
    BY <1>5, RecvSetupBits, RecvAckBits, RecvMsg3Bits DEF RecvHandshake
  <1>6. ASSUME NEW n \in Node, NEW f \in net, RecvRecord(n, f) \/ RecvUnknown(n, f)
        PROVE  Bits'
    <2>1. CASE RecvRecord(n, f)
      <3>1. /\ f.src \in Node /\ n # f.src /\ HandleRecord(n, f.src, f)
            /\ UNCHANGED <<net, epoch>>
        BY <2>1, FrameTypes DEF RecvRecord, Inv, RestOK, History, Core, FramesOK
      <3> QED
        BY <3>1, HandleRecordBits
    <2>2. CASE RecvUnknown(n, f)
      BY <2>2, BitsUnchanged DEF RecvUnknown
    <2> QED
      BY <1>6, <2>1, <2>2
  <1>7. ASSUME NEW n \in Node, NEW m \in Node \ {n},
               SendRecord(n, m) \/ DrainEarly(n, m) \/ PrunePrevious(n, m)
        PROVE  Bits'
    <2>1. CASE DrainEarly(n, m)
      BY <2>1, HandleRecordBits DEF DrainEarly
    <2> QED
      BY <1>7, <2>1, SendRecordBits, PrunePreviousBits
  <1>8. ASSUME NEW t \in resolving, Resolved(t) \/ Unresolved(t)
        PROVE  Bits'
    <2>1. t[1] \in Node /\ t[2] \in Node /\ t[1] # t[2]
      BY DEF Inv, RestOK, History, Living
    <2>2. UNCHANGED epoch /\ (Ensure(t[1], t[2]) \/ UNCHANGED <<sessions, net>>)
      BY <1>8 DEF Resolved, Unresolved
    <2> QED
      BY <2>1, <2>2, EnsureBits, BitsUnchanged
  <1>9. ASSUME NEW n \in Node, Restart(n)
        PROVE  Bits'
    BY <1>9, RestartBits
  <1>10. ASSUME NEW n \in Node, NEW m \in Node \ {n},
                \/ EnsureSession(n, m) \/ RouteFound(n, m) \/ RouteFailed(n, m)
                \/ RejectSetup(n, m) \/ RejectOrphan(n, m) \/ CloseSession(n, m)
                \/ SendRecord(n, m) \/ DrainEarly(n, m) \/ PrunePrevious(n, m)
                \/ RecoverySettles(n, m) \/ BackoffExpires(n, m)
         PROVE  Bits'
    BY <1>2, <1>3, <1>4, <1>7, <1>10
  <1>11. ASSUME NEW n \in Node, Receive(n) \/ Restart(n)
         PROVE  Bits'
    BY <1>5, <1>6, <1>9, <1>11 DEF Receive
  <1> QED
    BY <1>1, <1>8, <1>10, <1>11 DEF Next

\* For any number of nodes, restarts and handshakes, however the carriers treat frames: as
\* long as no live end gives up or closes a session, two ends that share a current key
\* agree on its K bit, so that handleEstablished tries that key on what the other end
\* sends.  A restart is the only way left to renew a session, and replaceRestartedSession
\* puts the bit back.
THEOREM BitsAgreed == Spec => []KBitsAgreeUnlessDiscarded
  <1> DEFINE K == FaultsOK /\ (NothingDiscarded => Bits)
  <1>1. Init => K
    <2> SUFFICES ASSUME Init
                 PROVE  FaultsOK /\ Bits
      OBVIOUS
    <2>1. FaultsOK
      BY DEF Init, FaultsOK
    <2>2. /\ \A n, m \in Node : sessions[n][m] = NoSession
          /\ net = {}
      BY DEF Init
    <2>3. ~Established(NoSession) /\ NoSession.pending.state = "none" /\ NoSession.k = FALSE
      BY DEF NoSession, NewSession, NoFsp, Established
    <2>4. Bits
      BY <2>2, <2>3 DEF Bits, BitsOK, Told
    <2> QED
      BY <2>1, <2>4
  <1>2. Inv /\ History /\ K /\ [Next]_vars => K'
    BY FaultsStep, NextBits
  <1>3. K => KBitsAgreeUnlessDiscarded
    BY DEF Bits, BitsOK, NothingDiscarded, KBitsAgreeUnlessDiscarded, KBitsAgree
  <1> HIDE DEF K
  <1> QED
    BY <1>1, <1>2, <1>3, Invariance, HistoryHolds, PTL DEF Spec

=============================================================================
