------------------------ MODULE WebRtcGlare_proofs ------------------------
(***************************************************************************)
(* For any number of dials and faults, within any bound: when nothing is   *)
(* under way two nodes use the same connection, or none.                   *)
(***************************************************************************)
EXTENDS WebRtcGlare, TLAPS, SequenceTheorems

-----------------------------------------------------------------------------
(* The inductive invariant                                                 *)

DialState ==
    [id : 0 .. MaxEvents, phase : {"none", "preparing", "sending", "awaiting", "answered"},
     wired : BOOLEAN, rejected : 0 .. MaxEvents, again : BOOLEAN]

InboundState == [id : 0 .. MaxEvents, sent : BOOLEAN, handoff : BOOLEAN]

PcState == {"none", "open", "up", "closed"}

AutoState ==
    [queued : BOOLEAN, timer : {"none", "soon", "late"}, cooldown : {"none", "plain", "recovery"},
     proven : BOOLEAN]

\* What TypeOK says of each variable by itself.
Types ==
    /\ asked \in [Node -> SUBSET Negotiation]
    /\ dials \in [Node -> DialState]
    /\ inbounds \in [Node -> InboundState]
    /\ conns \in [Node -> 0 .. MaxEvents]
    /\ pcs \in [Negotiation -> [Node -> PcState]]
    /\ initiator \in [Negotiation -> 0 .. 2]
    /\ answered \subseteq Negotiation
    /\ net \in [Node -> Seq(Signal)]
    /\ seen \in [Node -> SUBSET Signal]
    /\ auto \in [Node -> AutoState]
    /\ stale \in [Node -> BOOLEAN]
    /\ faults \subseteq FaultKind

Offer(n) == [kind |-> "offer", id |-> n]

Answer(n) == [kind |-> "answer", id |-> n]

Members(s) == {s[k] : k \in DOMAIN s}

OnWay(i) == Members(net[i])

\* A dial is of a negotiation its node began, is not up, and stops sending once answered.
DialOK(i) ==
    /\ dials[i].id = 0 => dials[i] = NoDial
    /\ dials[i].id # 0 =>
          /\ initiator[dials[i].id] = i
          /\ pcs[dials[i].id][i] \in {"open", "closed"}
          /\ dials[i].id \in answered => dials[i].phase = "answered"

\* An inbound negotiation is of an offer that was seen; before its answer is sent nobody
\* can have applied it, nor will (one that still arrives is known there).
InboundOK(i) ==
    /\ inbounds[i].id = 0 => inbounds[i] = NoInbound
    /\ inbounds[i].id # 0 =>
          /\ initiator[inbounds[i].id] = Other(i)
          /\ pcs[inbounds[i].id][i] \in {"open", "closed"}
          /\ Offer(inbounds[i].id) \in seen[i]
          /\ ~inbounds[i].sent =>
                /\ pcs[inbounds[i].id][i] = "open"
                /\ inbounds[i].id \notin answered
                /\ Answer(inbounds[i].id) \in OnWay(Other(i))
                      => Answer(inbounds[i].id) \in seen[Other(i)]

\* An offer that allowIncomingPeer has not judged was seen and is not negotiated yet; nobody
\* has an answer to it, nor will get one that is new.
AskedOK(i) ==
    \A n \in asked[i] :
        /\ initiator[n] = Other(i)
        /\ Offer(n) \in seen[i]
        /\ n \notin answered /\ n # inbounds[i].id
        /\ Answer(n) \in OnWay(Other(i)) => Answer(n) \in seen[Other(i)]

\* A connection in use is up, and will not be accepted a second time.
ConnOK(i) ==
    conns[i] # 0 =>
        /\ conns[i] \in answered
        /\ pcs[conns[i]][i] = "up"
        /\ initiator[conns[i]] = i \/ Offer(conns[i]) \in seen[i]

\* No RTCPeerConnection is left behind: one that is open is of a pending dial or inbound
\* negotiation, one that is up is the node's connection, or is known to be lost.
PcsOK(i) ==
    \A n \in Negotiation :
        /\ pcs[n][i] = "open" => n \in {dials[i].id, inbounds[i].id}
        /\ pcs[n][i] = "up" => conns[i] = n \/ <<i, n>> \in lostConns
        /\ initiator[n] = 0 => pcs[n][i] = "none" /\ n \notin answered

EndOK(i) == DialOK(i) /\ InboundOK(i) /\ AskedOK(i) /\ ConnOK(i) /\ PcsOK(i)

\* Offers go to the peer of the node that dialed, answers and rejects to that node.
SignalsOK ==
    \A i \in Node : \A m \in OnWay(i) \cup seen[i] :
        initiator[m.id] = IF m.kind = "offer" THEN Other(i) ELSE i

\* Once a negotiation is answered its offer is not accepted again; an answer that is new
\* comes from a node that has seen the offer and has not restarted since (or is an orphan).
AnswersOK ==
    \A i \in Node, n \in Negotiation :
        /\ n \in answered /\ Offer(n) \in OnWay(i) => Offer(n) \in seen[i]
        /\ Answer(n) \in OnWay(Other(i)) => Answer(n) \in seen[Other(i)] \/ Offer(n) \in seen[i]

IInv == Types /\ (\A i \in Node : EndOK(i)) /\ SignalsOK /\ AnswersOK

-----------------------------------------------------------------------------
(* The two nodes, the signals between them and the operators of the module *)

LEMMA Others ==
  ASSUME NEW i \in Node
  PROVE  /\ Other(i) \in Node /\ Other(i) # i /\ Other(Other(i)) = i
         /\ \A j \in Node : j = i \/ j = Other(i)
         /\ i # 0 /\ i \in 0 .. 2
  BY DEF Node, Other

LEMMA Negotiations ==
  /\ 0 \notin Negotiation
  /\ 0 .. MaxEvents = Negotiation \cup {0}
  /\ \A n \in 0 .. MaxEvents : n # 0 => n \in Negotiation
  BY GlareAssumption DEF GlareAssumption, Negotiation

LEMMA Signals ==
  ASSUME NEW n \in Negotiation
  PROVE  /\ Offer(n) \in Signal /\ Offer(n).id = n /\ Offer(n).kind = "offer"
         /\ Answer(n) \in Signal /\ Answer(n).id = n /\ Answer(n).kind = "answer"
         /\ \A m \in Signal : m.id \in Negotiation
         /\ \A m \in Signal : m.kind = "offer" => m = Offer(m.id)
         /\ \A m \in Signal : m.kind = "answer" => m = Answer(m.id)
  BY DEF Offer, Answer, Signal, Kind

LEMMA Keys ==
  ASSUME NEW m \in Signal
  PROVE  /\ Key(m) \in Signal /\ Key(m).id = m.id /\ (Key(m).kind = "offer" <=> m.kind = "offer")
         /\ m.kind # "orphan" => Key(m) = m
         /\ m.kind = "orphan" => Key(m) = Answer(m.id)
         /\ Orphaned(m) \in Signal /\ Orphaned(m).id = m.id
         /\ Orphaned(m).kind # "answer"
         /\ Orphaned(m).kind = "offer" <=> m.kind = "offer"
         /\ m.kind = "offer" => Orphaned(m) = m
  BY DEF Key, Orphaned, Signal, Kind, Answer

LEMMA MembersTail ==
  ASSUME NEW s \in Seq(Signal), s # <<>>
  PROVE  /\ Tail(s) \in Seq(Signal)
         /\ Members(Tail(s)) \subseteq Members(s)
         /\ Head(s) \in Members(s)
         /\ Head(s) \in Signal
  <1>1. Len(s) \in Nat /\ Len(s) >= 1 /\ DOMAIN s = 1 .. Len(s)
    OBVIOUS
  <1>2. Tail(s) \in Seq(Signal) /\ DOMAIN Tail(s) = 1 .. (Len(s) - 1)
    BY <1>1
  <1>3. \A k \in DOMAIN Tail(s) : Tail(s)[k] = s[k + 1] /\ k + 1 \in DOMAIN s
    BY <1>1, <1>2
  <1>4. Head(s) = s[1] /\ 1 \in DOMAIN s
    BY <1>1
  <1> QED
    BY <1>2, <1>3, <1>4 DEF Members

LEMMA MembersAppend ==
  ASSUME NEW s \in Seq(Signal), NEW m \in Signal
  PROVE  /\ Append(s, m) \in Seq(Signal)
         /\ Members(Append(s, m)) \subseteq Members(s) \cup {m}
  <1>1. Append(s, m) \in Seq(Signal) /\ DOMAIN Append(s, m) = 1 .. (Len(s) + 1) /\ DOMAIN s = 1 .. Len(s)
    OBVIOUS
  <1>2. \A k \in DOMAIN Append(s, m) :
            Append(s, m)[k] = m \/ (k \in DOMAIN s /\ Append(s, m)[k] = s[k])
    BY <1>1
  <1> QED
    BY <1>1, <1>2 DEF Members

LEMMA MembersOvertaken ==
  ASSUME NEW s \in Seq(Signal), Len(s) >= 2
  PROVE  /\ <<s[2], s[1]>> \o SubSeq(s, 3, Len(s)) \in Seq(Signal)
         /\ Members(<<s[2], s[1]>> \o SubSeq(s, 3, Len(s))) \subseteq Members(s)
  <1> DEFINE a == <<s[2], s[1]>>
             b == SubSeq(s, 3, Len(s))
             c == a \o b
  <1>1. Len(s) \in Nat /\ DOMAIN s = 1 .. Len(s)
    OBVIOUS
  <1>2. a \in Seq(Signal) /\ Len(a) = 2 /\ a[1] = s[2] /\ a[2] = s[1]
    BY <1>1
  <1>3. b \in Seq(Signal) /\ Len(b) = Len(s) - 2 /\ \A k \in 1 .. Len(b) : b[k] = s[k + 2]
    BY <1>1
  <1> HIDE DEF a, b
  <1>4. /\ c \in Seq(Signal) /\ Len(c) = Len(a) + Len(b)
        /\ \A k \in 1 .. Len(a) + Len(b) : c[k] = IF k <= Len(a) THEN a[k] ELSE b[k - Len(a)]
    <2>1. a \in Seq(Signal) /\ b \in Seq(Signal)
      BY <1>2, <1>3
    <2>2. a \o b \in Seq(Signal) /\ Len(a \o b) = Len(a) + Len(b)
      BY <2>1, ConcatProperties
    <2>3. \A k \in 1 .. Len(a) + Len(b) :
              (a \o b)[k] = IF k <= Len(a) THEN a[k] ELSE b[k - Len(a)]
      BY <2>1, ConcatProperties
    <2> QED
      BY <2>2, <2>3
  <1> HIDE DEF c
  <1>5. /\ DOMAIN c = 1 .. Len(s)
        /\ \A k \in 1 .. Len(s) : c[k] = IF k <= 2 THEN a[k] ELSE b[k - 2]
    BY <1>1, <1>2, <1>3, <1>4
  <1>6. \A k \in 1 .. Len(s) : \E l \in 1 .. Len(s) : c[k] = s[l]
    <2> TAKE k \in 1 .. Len(s)
    <2>1. CASE k = 1
      BY <2>1, <1>1, <1>2, <1>5
    <2>2. CASE k = 2
      BY <2>2, <1>1, <1>2, <1>5
    <2>3. CASE k >= 3
      <3>1. c[k] = b[k - 2] /\ k - 2 \in 1 .. Len(b)
        BY <2>3, <1>1, <1>3, <1>5
      <3>2. b[k - 2] = s[(k - 2) + 2]
        BY <3>1, <1>3
      <3>3. (k - 2) + 2 = k
        BY <1>1
      <3> QED
        BY <3>1, <3>2, <3>3
    <2> QED
      BY <2>1, <2>2, <2>3, <1>1
  <1>7. Members(c) \subseteq Members(s)
    <2>1. DOMAIN c = DOMAIN s /\ \A k \in DOMAIN s : \E l \in DOMAIN s : c[k] = s[l]
      BY <1>1, <1>5, <1>6
    <2> QED
      BY <2>1 DEF Members
  <1> QED
    BY <1>4, <1>7 DEF a, b, c

LEMMA ClosedPcs ==
  ASSUME NEW ps \in [Negotiation -> [Node -> PcState]], NEW n \in 0 .. MaxEvents, NEW i \in Node
  PROVE  /\ Closed(ps, n, i) \in [Negotiation -> [Node -> PcState]]
         /\ \A k \in Negotiation, j \in Node :
               Closed(ps, n, i)[k][j] = IF k = n /\ j = i THEN "closed" ELSE ps[k][j]
  BY Negotiations DEF Closed, PcState

LEMMA AutoTypes ==
  ASSUME NEW i \in Node, NEW a \in AutoState, NEW recovery \in BOOLEAN, NEW conn \in Nat,
         NEW dial, NEW inbound
  PROVE  /\ Filled(i, a, dial, inbound, conn) \in AutoState
         /\ Scheduled(i, a) \in AutoState
         /\ FailedAuto(i, a, recovery) \in AutoState
         /\ Finally(a, conn) \in AutoState
         /\ DialLost(i, a, recovery, conn) \in AutoState
  <1>1. \A b \in AutoState : Scheduled(i, b) \in AutoState
    BY DEF Scheduled, AutoState
  <1>2. [a EXCEPT !.cooldown = IF recovery THEN "recovery" ELSE "plain",
                  !.timer = IF @ = "none" THEN @ ELSE "soon"] \in AutoState
    BY DEF AutoState
  <1>3. FailedAuto(i, a, recovery) \in AutoState
    BY <1>1, <1>2 DEF FailedAuto
  <1>4. \A b \in AutoState : Finally(b, conn) \in AutoState
    BY DEF Finally, AutoState
  <1>5. Filled(i, a, dial, inbound, conn) \in AutoState
    BY DEF Filled, AutoState, DialsDiscovered
  <1> QED
    BY <1>1, <1>3, <1>4, <1>5 DEF DialLost

-----------------------------------------------------------------------------
(* Signals                                                                 *)

\* Node i has sent m, and nothing else is new.
Sends(i, m) ==
    /\ OnWay(Other(i))' \subseteq OnWay(Other(i)) \cup {m}
    /\ OnWay(i)' \subseteq OnWay(i)

\* No signal is new on the wire.
NoneSent == \A j \in Node : OnWay(j)' \subseteq OnWay(j)

\* What a node has seen it has seen for good; what it sees had been on the way.
SeesMore ==
    \A j \in Node : seen[j] \subseteq seen[j]' /\ seen[j]' \subseteq seen[j] \cup {Key(m) : m \in OnWay(j)}

LEMMA OnWaySignals ==
  ASSUME Types, NEW i \in Node
  PROVE  OnWay(i) \subseteq Signal
  BY DEF Types, OnWay, Members

LEMMA SentStep ==
  ASSUME Types, NEW i \in Node, NEW m \in Signal, net' = Sent(i, m)
  PROVE  net' \in [Node -> Seq(Signal)] /\ Sends(i, m)
  <1>1. net[Other(i)] \in Seq(Signal)
    BY Others DEF Types
  <1> DEFINE s == Append(net[Other(i)], m)
  <1>2. s \in Seq(Signal) /\ Members(s) \subseteq OnWay(Other(i)) \cup {m}
    BY <1>1, MembersAppend DEF OnWay
  <1> HIDE DEF s
  <1>3. net' = net \/ net' = [net EXCEPT ![Other(i)] = s]
    BY DEF Sent, s
  <1>4. CASE net' = net
    BY <1>4 DEF Sends, OnWay, Types
  <1>5. CASE net' = [net EXCEPT ![Other(i)] = s]
    <2>1. net'[Other(i)] = s /\ net'[i] = net[i] /\ net' \in [Node -> Seq(Signal)]
      BY <1>5, <1>2, Others DEF Types
    <2> QED
      BY <2>1, <1>2 DEF Sends, OnWay
  <1> QED
    BY <1>3, <1>4, <1>5

\* The signal that node i receives is off the wire.
LEMMA ReceiveStep ==
  ASSUME Types, NEW i \in Node, NEW m \in Signal, Receive(i, m)
  PROVE  /\ m \in OnWay(i)
         /\ seen' \in [Node -> SUBSET Signal]
         /\ Key(m) \in seen[i]'
         /\ SeesMore
         /\ net' = [net EXCEPT ![i] = Tail(@)] => net' \in [Node -> Seq(Signal)] /\ NoneSent
  <1>1. net[i] \in Seq(Signal) /\ net[i] # <<>> /\ m = Head(net[i])
    BY DEF Types, Receive
  <1>2. m \in OnWay(i) /\ Tail(net[i]) \in Seq(Signal) /\ Members(Tail(net[i])) \subseteq OnWay(i)
    BY <1>1, MembersTail DEF OnWay
  <1>3. seen' \in [Node -> SUBSET Signal] /\ Key(m) \in seen'[i] /\ SeesMore
    <2>1. Key(m) \in Signal /\ Key(m) \in {Key(x) : x \in OnWay(i)}
      BY <1>2, Keys
    <2> QED
      BY <2>1 DEF Receive, Types, SeesMore
  <1>4. ASSUME net' = [net EXCEPT ![i] = Tail(@)]
        PROVE  net' \in [Node -> Seq(Signal)] /\ NoneSent
    BY <1>4, <1>2 DEF Types, NoneSent, OnWay
  <1> QED
    BY <1>2, <1>3, <1>4

\* What a node sees anew is to the right node too.
LEMMA SeenOK ==
  ASSUME IInv, SeesMore, UNCHANGED initiator
  PROVE  \A j \in Node : \A m \in seen[j]' : initiator'[m.id] = IF m.kind = "offer" THEN Other(j) ELSE j
  <1> TAKE j \in Node
  <1> TAKE m \in seen[j]'
  <1>1. CASE m \in seen[j]
    BY <1>1 DEF IInv, SignalsOK
  <1>2. CASE m \notin seen[j]
    <2>1. PICK x \in OnWay(j) : m = Key(x)
      BY <1>2 DEF SeesMore
    <2>2. x \in Signal
      BY OnWaySignals DEF IInv
    <2>3. initiator[x.id] = IF x.kind = "offer" THEN Other(j) ELSE j
      BY DEF IInv, SignalsOK
    <2> QED
      BY <2>1, <2>2, <2>3, Keys
  <1> QED
    BY <1>1, <1>2

\* Nothing is sent and nothing answered: what is on the wire is as it was.
LEMMA WireKept ==
  ASSUME IInv, Types', UNCHANGED <<initiator, answered>>, NoneSent, SeesMore
  PROVE  SignalsOK' /\ AnswersOK'
  <1>1. SignalsOK'
    BY SeenOK DEF IInv, SignalsOK, NoneSent
  <1>2. AnswersOK'
    BY Others DEF IInv, AnswersOK, NoneSent, SeesMore
  <1> QED
    BY <1>1, <1>2

LEMMA SendWire ==
  ASSUME IInv, Types', UNCHANGED <<initiator, answered, seen>>,
         NEW i \in Node, NEW m \in Signal, Sends(i, m),
         initiator[m.id] = IF m.kind = "offer" THEN i ELSE Other(i),
         m.kind = "offer" => m.id \notin answered,
         m.kind = "answer" => Offer(m.id) \in seen[i]
  PROVE  SignalsOK' /\ AnswersOK'
  <1>1. \A j \in Node : \A x \in OnWay(j)' : x \in OnWay(j) \/ (j = Other(i) /\ x = m)
    BY Others DEF Sends
  <1>2. SignalsOK'
    BY <1>1, Others DEF IInv, SignalsOK
  <1>3. ASSUME NEW j \in Node, NEW n \in Negotiation
        PROVE  /\ n \in answered /\ Offer(n) \in OnWay(j)' => Offer(n) \in seen[j]
               /\ Answer(n) \in OnWay(Other(j))' => Answer(n) \in seen[Other(j)] \/ Offer(n) \in seen[j]
    BY <1>1, Others, Signals DEF IInv, AnswersOK
  <1> QED
    BY <1>2, <1>3 DEF AnswersOK

-----------------------------------------------------------------------------
(* One step of each action                                                 *)

\* No answer is new to the peer of node i.
NoNewAnswer(i) ==
    \A n \in Negotiation : Answer(n) \in OnWay(Other(i))' => Answer(n) \in OnWay(Other(i))

LEMMA AskedKept ==
  ASSUME IInv, NEW i \in Node, UNCHANGED <<initiator, answered>>, SeesMore, NoNewAnswer(i),
         asked'[i] \subseteq asked[i], inbounds'[i].id \in {inbounds[i].id, 0}
  PROVE  AskedOK(i)'
  <1>1. AskedOK(i) /\ asked[i] \subseteq Negotiation /\ 0 \notin Negotiation
    BY Negotiations DEF IInv, EndOK, Types
  <1>2. ASSUME NEW n \in asked'[i]
        PROVE  /\ initiator'[n] = Other(i)
               /\ Offer(n) \in seen'[i]
               /\ n \notin answered' /\ n # inbounds'[i].id
               /\ Answer(n) \in OnWay(Other(i))' => Answer(n) \in seen'[Other(i)]
    <2>1. n \in asked[i] /\ n \in Negotiation /\ n # 0
      BY <1>1
    <2> QED
      BY <1>1, <2>1, Others DEF AskedOK, SeesMore, NoNewAnswer
  <1> QED
    BY <1>2 DEF AskedOK

LEMMA EndKept ==
  ASSUME IInv, NEW i \in Node, UNCHANGED <<initiator, answered>>, lostConns \subseteq lostConns',
         SeesMore, NoNewAnswer(i),
         asked'[i] \subseteq asked[i],
         dials'[i] = dials[i], inbounds'[i] = inbounds[i], conns'[i] = conns[i],
         \A n \in Negotiation : pcs'[n][i] = pcs[n][i]
  PROVE  EndOK(i)'
  <1>0. /\ dials[i].id \in 0 .. MaxEvents /\ inbounds[i].id \in 0 .. MaxEvents
        /\ conns[i] \in 0 .. MaxEvents /\ EndOK(i)
    BY DEF IInv, Types, DialState, InboundState
  <1>1. DialOK(i)'
    BY <1>0, Negotiations DEF EndOK, DialOK
  <1>2. InboundOK(i)'
    BY <1>0, Negotiations, Others DEF EndOK, InboundOK, SeesMore, NoNewAnswer
  <1>3. ConnOK(i)'
    BY <1>0, Negotiations DEF EndOK, ConnOK, SeesMore
  <1>4. PcsOK(i)'
    BY <1>0 DEF EndOK, PcsOK
  <1>5. AskedOK(i)'
    BY AskedKept
  <1> QED
    BY <1>1, <1>2, <1>3, <1>4, <1>5 DEF EndOK

LEMMA Together ==
  ASSUME NEW i \in Node, Types', EndOK(i)', EndOK(Other(i))', SignalsOK', AnswersOK'
  PROVE  IInv'
  BY Others DEF IInv

LEMMA EndFacts ==
  ASSUME IInv, NEW i \in Node
  PROVE  /\ dials[i] \in DialState /\ dials[i].id \in 0 .. MaxEvents
         /\ inbounds[i] \in InboundState /\ inbounds[i].id \in 0 .. MaxEvents
         /\ conns[i] \in 0 .. MaxEvents
         /\ DialOK(i) /\ InboundOK(i) /\ AskedOK(i) /\ ConnOK(i) /\ PcsOK(i)
         /\ dials[i] # NoDial <=> dials[i].id # 0
         /\ inbounds[i] # NoInbound <=> inbounds[i].id # 0
         /\ dials[i].id # 0 => dials[i].id \notin {inbounds[i].id, conns[i]}
         /\ inbounds[i].id # 0 => inbounds[i].id # conns[i]
  <1>1. /\ dials[i] \in DialState /\ dials[i].id \in 0 .. MaxEvents
        /\ inbounds[i] \in InboundState /\ inbounds[i].id \in 0 .. MaxEvents
        /\ conns[i] \in 0 .. MaxEvents
    BY DEF IInv, Types, DialState, InboundState
  <1>2. DialOK(i) /\ InboundOK(i) /\ AskedOK(i) /\ ConnOK(i) /\ PcsOK(i)
    BY DEF IInv, EndOK
  <1>3. NoDial.id = 0 /\ NoInbound.id = 0
    BY DEF NoDial, NoInbound
  <1>4. dials[i] # NoDial <=> dials[i].id # 0
    BY <1>2, <1>3 DEF DialOK
  <1>5. inbounds[i] # NoInbound <=> inbounds[i].id # 0
    BY <1>2, <1>3 DEF InboundOK
  <1>6. dials[i].id # 0 => dials[i].id \notin {inbounds[i].id, conns[i]}
    BY <1>2, Others DEF DialOK, InboundOK, ConnOK
  <1>7. inbounds[i].id # 0 => inbounds[i].id # conns[i]
    BY <1>2 DEF InboundOK, ConnOK
  <1> QED
    BY <1>1, <1>2, <1>4, <1>5, <1>6, <1>7

\* The dial of node i goes on.
LEMMA DialGoesOn ==
  ASSUME IInv, NEW i \in Node, UNCHANGED <<initiator, answered>>, lostConns \subseteq lostConns',
         SeesMore, NoNewAnswer(i),
         dials'[i].id = dials[i].id, dials[i].id = 0 => dials'[i] = NoDial,
         dials[i].phase = "answered" => dials'[i].phase = "answered",
         asked'[i] \subseteq asked[i], inbounds'[i] = inbounds[i], conns'[i] = conns[i],
         \A n \in Negotiation : pcs'[n][i] = pcs[n][i]
  PROVE  EndOK(i)'
  <1>1. DialOK(i)'
    BY EndFacts, Negotiations DEF DialOK
  <1>2. InboundOK(i)'
    BY EndFacts, Negotiations, Others DEF InboundOK, SeesMore, NoNewAnswer
  <1>3. ConnOK(i)'
    BY EndFacts, Negotiations DEF ConnOK, SeesMore
  <1>4. PcsOK(i)'
    BY EndFacts DEF PcsOK
  <1>5. AskedOK(i)'
    BY AskedKept
  <1> QED
    BY <1>1, <1>2, <1>3, <1>4, <1>5 DEF EndOK

\* What node i gives up of its dial, its inbound negotiation and its connection has its
\* RTCPeerConnection closed, or is noted as lost; the rest stays.
LEMMA EndsGivenUp ==
  ASSUME IInv, NEW i \in Node, UNCHANGED <<initiator, answered>>, lostConns \subseteq lostConns',
         SeesMore, NoNewAnswer(i),
         NEW gone \in SUBSET Negotiation,
         \A n \in gone : initiator[n] # 0,
         dials'[i] \in {dials[i], NoDial}, dials'[i] # dials[i] => dials[i].id \in gone,
         inbounds'[i] \in {inbounds[i], NoInbound},
         inbounds'[i] # inbounds[i] => inbounds[i].id \in gone,
         inbounds[i].id \in gone /\ ~inbounds[i].sent => inbounds'[i] # inbounds[i],
         asked'[i] \subseteq asked[i],
         conns'[i] \in {conns[i], 0},
         conns[i] \in gone => conns'[i] = 0,
         conns[i] # 0 /\ conns'[i] = 0 => conns[i] \in gone \/ <<i, conns[i]>> \in lostConns',
         \A n \in Negotiation : pcs'[n][i] = IF n \in gone THEN "closed" ELSE pcs[n][i]
  PROVE  EndOK(i)'
  <1>0. NoDial.id = 0 /\ NoInbound.id = 0
    BY DEF NoDial, NoInbound
  <1>1. DialOK(i)'
    BY <1>0, EndFacts, Negotiations DEF DialOK
  <1>2. InboundOK(i)'
    BY <1>0, EndFacts, Negotiations, Others DEF InboundOK, SeesMore, NoNewAnswer
  <1>3. ConnOK(i)'
    BY <1>0, EndFacts, Negotiations DEF ConnOK, SeesMore
  <1>4. PcsOK(i)'
    BY <1>0, EndFacts, Negotiations DEF PcsOK
  <1>5. AskedOK(i)'
    BY <1>0, AskedKept
  <1> QED
    BY <1>1, <1>2, <1>3, <1>4, <1>5 DEF EndOK

LEMMA NoAnswer ==
  ASSUME NoneSent PROVE \A j \in Node : NoNewAnswer(j)
  BY Others DEF NoneSent, NoNewAnswer

LEMMA Calm ==
  ASSUME UNCHANGED <<net, seen>>
  PROVE  NoneSent /\ SeesMore /\ \A j \in Node : NoNewAnswer(j)
  <1>1. NoneSent /\ SeesMore
    BY DEF NoneSent, SeesMore, OnWay
  <1> QED
    BY <1>1, NoAnswer

\* Only node i has changed, and neither it nor its peer has sent anything new.
LEMMA QuietStep ==
  ASSUME IInv, NEW i \in Node, Types', UNCHANGED <<initiator, answered>>, NoneSent, SeesMore,
         lostConns \subseteq lostConns', EndOK(i)',
         asked'[Other(i)] = asked[Other(i)],
         dials'[Other(i)] = dials[Other(i)], inbounds'[Other(i)] = inbounds[Other(i)],
         conns'[Other(i)] = conns[Other(i)],
         \A n \in Negotiation : pcs'[n][Other(i)] = pcs[n][Other(i)]
  PROVE  IInv'
  <1>1. EndOK(Other(i))'
    BY EndKept, NoAnswer, Others
  <1>2. SignalsOK' /\ AnswersOK'
    BY WireKept
  <1> QED
    BY <1>1, <1>2, Together

LEMMA ConnectStep ==
  ASSUME IInv, NEW i \in Node, Dial(i)
  PROVE  IInv'
  <1> PICK n \in Free :
        /\ dials' = [dials EXCEPT ![i] = [NoDial EXCEPT !.id = n, !.phase = "preparing"]]
        /\ initiator' = [initiator EXCEPT ![n] = i]
        /\ pcs' = [pcs EXCEPT ![n][i] = "open"]
    BY DEF Dial
  <1> DEFINE j == Other(i)
  <1>0. n \in Negotiation /\ initiator[n] = 0 /\ n \in 0 .. MaxEvents /\ n # 0
    BY Negotiations DEF Free
  <1>1. NoneSent /\ SeesMore /\ \A k \in Node : NoNewAnswer(k)
    BY Calm DEF Dial
  <1>2. /\ [NoDial EXCEPT !.id = n, !.phase = "preparing"] \in DialState
        /\ [NoDial EXCEPT !.id = n, !.phase = "preparing"].id = n
    <2>1. NoDial \in DialState
      BY GlareAssumption DEF NoDial, DialState, GlareAssumption
    <2> QED
      BY <2>1, <1>0 DEF DialState
  <1>3. /\ dials'[i].id = n
        /\ dials'[j] = dials[j] /\ inbounds' = inbounds /\ conns' = conns
        /\ \A k \in Negotiation : pcs'[k][i] = IF k = n THEN "open" ELSE pcs[k][i]
        /\ \A k \in Negotiation : pcs'[k][j] = pcs[k][j]
        /\ \A k \in Negotiation : initiator'[k] = IF k = n THEN i ELSE initiator[k]
        /\ answered' = answered /\ lostConns' = lostConns /\ seen' = seen /\ asked' = asked
    <2>1. /\ dials \in [Node -> DialState] /\ pcs \in [Negotiation -> [Node -> PcState]]
          /\ initiator \in [Negotiation -> 0 .. 2] /\ j \in Node /\ i # j
      BY Others DEF IInv, Types
    <2>2. /\ inbounds' = inbounds /\ conns' = conns
          /\ answered' = answered /\ lostConns' = lostConns /\ seen' = seen /\ asked' = asked
      BY DEF Dial
    <2>3. dials'[i].id = n /\ dials'[j] = dials[j]
      BY <1>2, <2>1
    <2>4. /\ \A k \in Negotiation : pcs'[k][i] = IF k = n THEN "open" ELSE pcs[k][i]
          /\ \A k \in Negotiation : pcs'[k][j] = pcs[k][j]
      BY <1>0, <2>1
    <2>5. \A k \in Negotiation : initiator'[k] = IF k = n THEN i ELSE initiator[k]
      BY <1>0, <2>1
    <2> QED
      BY <2>2, <2>3, <2>4, <2>5
  <1>4. Types'
    <2>1. dials' \in [Node -> DialState]
      BY <1>2 DEF IInv, Types
    <2>2. auto' \in [Node -> AutoState]
      <3>1. auto' = [auto EXCEPT ![i].queued = FALSE]
        BY DEF Dial
      <3> QED
        BY <3>1 DEF IInv, Types, AutoState
    <2>3. pcs' \in [Negotiation -> [Node -> PcState]] /\ initiator' \in [Negotiation -> 0 .. 2]
      BY <1>0, Others DEF IInv, Types, PcState
    <2> QED
      BY <2>1, <2>2, <2>3 DEF IInv, Types, Dial
  <1>5. \A k \in Node : /\ dials[k].id # n /\ inbounds[k].id # n /\ conns[k] # n
                        /\ n \notin answered /\ pcs[n][k] = "none"
    <2> TAKE k \in Node
    <2>1. DialOK(k) /\ InboundOK(k) /\ ConnOK(k) /\ PcsOK(k)
      BY EndFacts
    <2>2. n \notin answered /\ pcs[n][k] = "none"
      BY <2>1, <1>0 DEF PcsOK
    <2>3. dials[k].id # n
      BY <2>1, <2>2, <1>0 DEF DialOK
    <2>4. inbounds[k].id # n
      BY <2>1, <2>2, <1>0 DEF InboundOK
    <2>5. conns[k] # n
      BY <2>1, <2>2, <1>0 DEF ConnOK
    <2> QED
      BY <2>2, <2>3, <2>4, <2>5
  <1>A. \A k \in Node : AskedOK(k)'
    <2> TAKE k \in Node
    <2>1. /\ AskedOK(k) /\ asked[k] \subseteq Negotiation /\ n \notin asked[k]
          /\ Other(k) \in Node /\ k # 0 /\ Other(k) # 0
      BY <1>0, EndFacts, Others DEF IInv, Types, AskedOK, Node
    <2> QED
      BY <2>1, <1>1, <1>3 DEF AskedOK, NoNewAnswer
  <1>6. EndOK(i)'
    <2>1. DialOK(i)'
      BY <1>0, <1>3, <1>5 DEF DialOK
    <2>2. InboundOK(i)'
      BY <1>0, <1>1, <1>3, <1>5, EndFacts, Negotiations, Others DEF InboundOK, SeesMore, NoNewAnswer
    <2>3. ConnOK(i)'
      BY <1>0, <1>1, <1>3, <1>5, EndFacts, Negotiations DEF ConnOK, SeesMore
    <2>4. PcsOK(i)'
      <3>1. \A k \in Negotiation : initiator'[k] = 0 => initiator[k] = 0 /\ k # n
        BY <1>0, <1>3, Others
      <3>2. dials[i].id = 0
        BY EndFacts DEF Dial
      <3> QED
        BY <3>1, <3>2, <1>0, <1>3, <1>5, EndFacts, Negotiations DEF PcsOK
    <2> QED
      BY <2>1, <2>2, <2>3, <2>4, <1>A, Others DEF EndOK
  <1>7. EndOK(j)'
    <2>0. j \in Node /\ j # i
      BY Others
    <2>1. DialOK(j)'
      BY <2>0, <1>0, <1>3, <1>5, EndFacts, Negotiations DEF DialOK
    <2>2. InboundOK(j)'
      BY <2>0, <1>0, <1>1, <1>3, <1>5, EndFacts, Negotiations, Others DEF InboundOK, SeesMore, NoNewAnswer
    <2>3. ConnOK(j)'
      BY <2>0, <1>0, <1>1, <1>3, <1>5, EndFacts, Negotiations DEF ConnOK, SeesMore
    <2>4. PcsOK(j)'
      <3>1. \A k \in Negotiation : initiator'[k] = 0 => initiator[k] = 0
        BY <1>0, <1>3, Others
      <3> QED
        BY <3>1, <2>0, <1>3, EndFacts DEF PcsOK
    <2> QED
      BY <2>1, <2>2, <2>3, <2>4, <1>A, Others DEF EndOK
  <1>8. SignalsOK'
    <2>1. ASSUME NEW k \in Node, NEW m \in OnWay(k)' \cup seen[k]'
          PROVE  initiator'[m.id] = IF m.kind = "offer" THEN Other(k) ELSE k
      <3>1. m \in OnWay(k) \cup seen[k]
        BY <1>1, <1>3 DEF NoneSent
      <3>2. initiator[m.id] = (IF m.kind = "offer" THEN Other(k) ELSE k) /\ initiator[m.id] # 0
        BY <3>1, Others DEF IInv, SignalsOK
      <3>3. initiator'[m.id] = initiator[m.id]
        BY <3>2, <1>0 DEF IInv, Types
      <3> QED
        BY <3>2, <3>3
    <2> QED
      BY <2>1 DEF SignalsOK
  <1>9. AnswersOK'
    BY <1>1, <1>3, Others DEF IInv, AnswersOK, NoneSent
  <1> QED
    BY <1>4, <1>6, <1>7, <1>8, <1>9, Together

LEMMA ConnectAgainStep ==
  ASSUME IInv, NEW i \in Node, ConnectAgain(i)
  PROVE  IInv'
  <1>1. auto' \in [Node -> AutoState]
    BY DEF IInv, Types, ConnectAgain, AutoState
  <1>2. Types'
    BY <1>1 DEF IInv, Types, ConnectAgain
  <1>3. NoneSent /\ SeesMore /\ \A k \in Node : NoNewAnswer(k)
    BY Calm DEF ConnectAgain
  <1>4. EndOK(i)'
    BY <1>3, EndKept DEF ConnectAgain
  <1> QED
    BY <1>2, <1>3, <1>4, QuietStep DEF ConnectAgain

LEMMA ResendFailsStep ==
  ASSUME IInv, NEW i \in Node, ResendFails(i)
  PROVE  IInv'
  <1>0. dials[i] \in DialState /\ dials[i].id # 0 /\ dials[i].phase = "sending"
    BY EndFacts DEF ResendFails, DialOK, NoDial
  <1>1. /\ dials' \in [Node -> DialState] /\ dials'[Other(i)] = dials[Other(i)]
        /\ dials'[i].id = dials[i].id
    BY <1>0, Others DEF IInv, Types, ResendFails, DialState
  <1>2. Types'
    BY <1>1 DEF IInv, Types, ResendFails, Fault, FaultKind
  <1>3. NoneSent /\ SeesMore /\ \A k \in Node : NoNewAnswer(k)
    BY Calm DEF ResendFails
  <1>4. EndOK(i)'
    BY <1>0, <1>1, <1>3, DialGoesOn DEF ResendFails
  <1> QED
    BY <1>1, <1>2, <1>3, <1>4, QuietStep DEF ResendFails

LEMMA OfferSentStep ==
  ASSUME IInv, NEW i \in Node, OfferSent(i)
  PROVE  IInv'
  <1>0. dials[i] \in DialState /\ dials[i].id # 0
    BY EndFacts DEF OfferSent, DialOK, NoDial
  <1>1. /\ dials' \in [Node -> DialState] /\ dials'[Other(i)] = dials[Other(i)]
        /\ dials'[i].id = dials[i].id
        /\ dials[i].phase = "answered" => dials'[i].phase = "answered"
    BY <1>0, Others DEF IInv, Types, OfferSent, DialState
  <1>2. Types'
    BY <1>1 DEF IInv, Types, OfferSent
  <1>3. NoneSent /\ SeesMore /\ \A k \in Node : NoNewAnswer(k)
    BY Calm DEF OfferSent
  <1>4. EndOK(i)'
    BY <1>0, <1>1, <1>3, DialGoesOn DEF OfferSent
  <1> QED
    BY <1>1, <1>2, <1>3, <1>4, QuietStep DEF OfferSent

LEMMA SessionEstablishedStep ==
  ASSUME IInv, NEW i \in Node, SessionEstablished(i)
  PROVE  IInv'
  <1>0. dials[i] \in DialState /\ (dials[i].id = 0 => dials[i] = NoDial)
    BY EndFacts
  <1>1. /\ Resent(dials[i]) \in DialState /\ Resent(dials[i]).id = dials[i].id
        /\ dials[i].phase = "answered" => Resent(dials[i]).phase = "answered"
        /\ dials[i].id = 0 => Resent(dials[i]) = NoDial
    <2>1. CASE dials[i].phase \in {"sending", "awaiting"}
      <3>1. Resent(dials[i]) = [dials[i] EXCEPT !.phase = "sending", !.again = TRUE]
        BY <2>1 DEF Resent
      <3>2. dials[i].id # 0
        BY <2>1, <1>0 DEF NoDial
      <3> QED
        BY <2>1, <3>1, <3>2, <1>0 DEF DialState
    <2>2. CASE dials[i].phase \notin {"sending", "awaiting"}
      BY <2>2, <1>0 DEF Resent
    <2> QED
      BY <2>1, <2>2
  <1>2. /\ dials' \in [Node -> DialState] /\ dials'[Other(i)] = dials[Other(i)]
        /\ dials'[i] = Resent(dials[i])
    BY <1>1, Others DEF IInv, Types, SessionEstablished
  <1>3. auto' \in [Node -> AutoState]
    <2>1. auto[i] \in AutoState /\ [auto[i] EXCEPT !.cooldown = "none", !.timer = "none"] \in AutoState
      BY DEF IInv, Types, AutoState
    <2>2. Scheduled(i, [auto[i] EXCEPT !.cooldown = "none", !.timer = "none"]) \in AutoState
      BY <2>1, AutoTypes
    <2> QED
      BY <2>1, <2>2 DEF IInv, Types, SessionEstablished
  <1>4. Types'
    BY <1>2, <1>3 DEF IInv, Types, SessionEstablished
  <1>5. NoneSent /\ SeesMore /\ \A k \in Node : NoNewAnswer(k)
    BY Calm DEF SessionEstablished
  <1>6. EndOK(i)'
    BY <1>1, <1>2, <1>5, DialGoesOn DEF SessionEstablished
  <1> QED
    BY <1>2, <1>4, <1>5, <1>6, QuietStep DEF SessionEstablished

LEMMA SendOfferStep ==
  ASSUME IInv, NEW i \in Node, SendOffer(i)
  PROVE  IInv'
  <1> DEFINE m == Offer(dials[i].id)
  <1>0. dials[i] \in DialState /\ dials[i].id # 0 /\ dials[i].id \in Negotiation
    BY EndFacts, Negotiations DEF SendOffer, DialOK, NoDial
  <1>1. /\ dials' \in [Node -> DialState] /\ dials'[Other(i)] = dials[Other(i)]
        /\ dials'[i].id = dials[i].id
    BY <1>0, Others DEF IInv, Types, SendOffer, DialState
  <1>2. m \in Signal /\ m.kind = "offer" /\ m.id = dials[i].id /\ net' = Sent(i, m)
    BY <1>0, Signals DEF SendOffer, Offer
  <1>3. net' \in [Node -> Seq(Signal)] /\ Sends(i, m)
    BY <1>2, SentStep DEF IInv
  <1>4. Types'
    BY <1>1, <1>3 DEF IInv, Types, SendOffer
  <1>5. SeesMore /\ \A k \in Node : NoNewAnswer(k)
    <2>1. \A n \in Negotiation : Answer(n) # m
      BY <1>2, Signals
    <2> QED
      BY <2>1, <1>3, Others DEF SeesMore, NoNewAnswer, Sends, SendOffer
  <1>6. initiator[m.id] = i /\ m.id \notin answered /\ dials[i].phase # "answered"
    BY <1>0, <1>2, EndFacts DEF DialOK, SendOffer
  <1>7. EndOK(i)'
    BY <1>0, <1>1, <1>5, <1>6, DialGoesOn DEF SendOffer
  <1>8. EndOK(Other(i))'
    BY <1>1, <1>5, EndKept, Others DEF SendOffer
  <1>9. SignalsOK' /\ AnswersOK'
    BY <1>2, <1>3, <1>4, <1>6, SendWire DEF SendOffer
  <1> QED
    BY <1>4, <1>7, <1>8, <1>9, Together

\* A dial ends without a connection, its RTCPeerConnection closed.
LEMMA EndDialStep ==
  ASSUME IInv, NEW i \in Node, NEW recovery \in BOOLEAN, EndDial(i, recovery),
         UNCHANGED <<asked, inbounds, conns, initiator, answered, lostConns>>,
         SeesMore, NoneSent
  PROVE  /\ EndOK(i)'
         /\ dials' \in [Node -> DialState] /\ auto' \in [Node -> AutoState]
         /\ pcs' \in [Negotiation -> [Node -> PcState]]
         /\ dials'[Other(i)] = dials[Other(i)]
         /\ \A n \in Negotiation : pcs'[n][Other(i)] = pcs[n][Other(i)]
  <1> DEFINE gone == {dials[i].id} \ {0}
  <1>1. NoDial \in DialState
    BY GlareAssumption DEF NoDial, DialState, GlareAssumption
  <1>2. dials' \in [Node -> DialState] /\ dials'[i] = NoDial /\ dials'[Other(i)] = dials[Other(i)]
    BY <1>1, Others DEF IInv, Types, EndDial
  <1>3. auto' \in [Node -> AutoState]
    <2>1. auto[i] \in AutoState /\ conns[i] \in Nat
      BY GlareAssumption DEF IInv, Types, GlareAssumption
    <2>2. DialLost(i, auto[i], recovery, conns[i]) \in AutoState
      BY <2>1, AutoTypes
    <2> QED
      BY <2>2 DEF IInv, Types, EndDial
  <1>4. /\ pcs' \in [Negotiation -> [Node -> PcState]]
        /\ \A n \in Negotiation, j \in Node :
              pcs'[n][j] = IF n = dials[i].id /\ j = i THEN "closed" ELSE pcs[n][j]
    <2>1. pcs \in [Negotiation -> [Node -> PcState]] /\ dials[i].id \in 0 .. MaxEvents
      BY EndFacts DEF IInv, Types
    <2>2. pcs' = Closed(pcs, dials[i].id, i)
      BY DEF EndDial
    <2> QED
      BY <2>1, <2>2, ClosedPcs
  <1>5. gone \in SUBSET Negotiation /\ \A n \in gone : initiator[n] # 0
    BY EndFacts, Negotiations, Others DEF DialOK
  <1>6. \A n \in Negotiation : pcs'[n][i] = IF n \in gone THEN "closed" ELSE pcs[n][i]
    BY <1>4, Negotiations
  <1>7. /\ dials'[i] # dials[i] => dials[i].id \in gone
        /\ inbounds[i].id # 0 => inbounds[i].id \notin gone
        /\ conns[i] \notin gone
    BY <1>2, EndFacts
  <1>8. EndOK(i)'
    <2> HIDE DEF gone
    <2>1. NoNewAnswer(i)
      BY NoAnswer
    <2>2. /\ inbounds'[i] = inbounds[i] /\ asked'[i] = asked[i] /\ conns'[i] = conns[i]
          /\ dials'[i] \in {dials[i], NoDial} /\ lostConns' = lostConns
      BY <1>2
    <2>3. inbounds[i].id \notin gone
      BY <1>5, <1>7, Negotiations
    <2>4. ~(conns[i] # 0 /\ conns'[i] = 0)
      BY <2>2
    <2> QED
      BY <1>5, <1>6, <1>7, <2>1, <2>2, <2>3, <2>4, EndsGivenUp
  <1> QED
    BY <1>2, <1>3, <1>4, <1>8, Others

LEMMA DialFailsStep ==
  ASSUME IInv, NEW i \in Node, DialFails(i) \/ DialTimeout(i)
  PROVE  IInv'
  <1>1. PICK recovery \in BOOLEAN : EndDial(i, recovery)
    BY DEF DialFails, DialTimeout
  <1>2. UNCHANGED <<asked, inbounds, conns, initiator, answered, net, seen, stale, lostConns>>
    BY DEF DialFails, DialTimeout
  <1>3. NoneSent /\ SeesMore
    BY <1>2, Calm
  <1>4. /\ EndOK(i)'
        /\ dials' \in [Node -> DialState] /\ auto' \in [Node -> AutoState]
        /\ pcs' \in [Negotiation -> [Node -> PcState]]
        /\ dials'[Other(i)] = dials[Other(i)]
        /\ \A n \in Negotiation : pcs'[n][Other(i)] = pcs[n][Other(i)]
    BY <1>1, <1>2, <1>3, EndDialStep
  <1>5. faults' \subseteq FaultKind
    BY DEF IInv, Types, DialFails, DialTimeout, Fault, FaultKind
  <1>6. Types'
    BY <1>2, <1>4, <1>5 DEF IInv, Types
  <1> QED
    BY <1>2, <1>3, <1>4, <1>6, QuietStep

\* An inbound negotiation ends without a connection.
LEMMA InboundEndsStep ==
  ASSUME IInv, NEW i \in Node, AnswerFails(i) \/ InboundTimeout(i)
  PROVE  IInv'
  <1> DEFINE n == inbounds[i].id
  <1>0. n \in Negotiation /\ initiator[n] # 0
    BY EndFacts, Negotiations, Others DEF AnswerFails, InboundTimeout, InboundOK
  <1>1. UNCHANGED <<asked, dials, conns, initiator, answered, net, seen, stale, lostConns>> /\ EndInbound(i)
    BY DEF AnswerFails, InboundTimeout
  <1>2. NoneSent /\ SeesMore /\ \A k \in Node : NoNewAnswer(k)
    BY <1>1, Calm
  <1>3. /\ inbounds' \in [Node -> InboundState] /\ inbounds'[i] = NoInbound
        /\ inbounds'[Other(i)] = inbounds[Other(i)]
    <2>1. NoInbound \in InboundState
      BY GlareAssumption DEF NoInbound, InboundState, GlareAssumption
    <2> QED
      BY <1>1, <2>1, Others DEF IInv, Types, EndInbound
  <1>4. auto' \in [Node -> AutoState]
    <2>1. auto[i] \in AutoState /\ Scheduled(i, auto[i]) \in AutoState
      BY AutoTypes DEF IInv, Types
    <2> QED
      BY <1>1, <2>1 DEF IInv, Types, EndInbound
  <1>5. /\ pcs' \in [Negotiation -> [Node -> PcState]]
        /\ \A k \in Negotiation, j \in Node :
              pcs'[k][j] = IF k = n /\ j = i THEN "closed" ELSE pcs[k][j]
    <2>1. pcs \in [Negotiation -> [Node -> PcState]] /\ n \in 0 .. MaxEvents
      BY EndFacts DEF IInv, Types
    <2>2. pcs' = Closed(pcs, n, i)
      BY <1>1 DEF EndInbound
    <2> QED
      BY <2>1, <2>2, ClosedPcs
  <1>6. faults' \subseteq FaultKind
    BY DEF IInv, Types, AnswerFails, InboundTimeout, Fault, FaultKind
  <1>7. Types'
    BY <1>1, <1>3, <1>4, <1>5, <1>6 DEF IInv, Types
  <1>8. EndOK(i)'
    <2>1. /\ {n} \in SUBSET Negotiation /\ \A k \in {n} : initiator[k] # 0
          /\ \A k \in Negotiation : pcs'[k][i] = IF k \in {n} THEN "closed" ELSE pcs[k][i]
          /\ conns[i] \notin {n}
          /\ inbounds'[i] # inbounds[i] /\ inbounds[i].id \in {n}
      BY <1>0, <1>3, <1>5, EndFacts, Negotiations DEF NoInbound
    <2> QED
      BY <1>1, <1>2, <1>3, <2>1, EndsGivenUp
  <1> QED
    BY <1>1, <1>2, <1>3, <1>5, <1>7, <1>8, QuietStep, Others

LEMMA SendAnswerStep ==
  ASSUME IInv, NEW i \in Node, SendAnswer(i)
  PROVE  IInv'
  <1> DEFINE n == inbounds[i].id
             m == Answer(n)
  <1>0. n \in Negotiation /\ inbounds[i] \in InboundState
    BY EndFacts, Negotiations DEF SendAnswer
  <1>1. /\ inbounds' \in [Node -> InboundState] /\ inbounds'[Other(i)] = inbounds[Other(i)]
        /\ inbounds'[i].id = n /\ inbounds'[i].sent
    BY <1>0, Others DEF IInv, Types, SendAnswer, InboundState
  <1>2. m \in Signal /\ m.kind = "answer" /\ m.id = n /\ net' = Sent(i, m)
    BY <1>0, Signals DEF SendAnswer, Answer
  <1>3. net' \in [Node -> Seq(Signal)] /\ Sends(i, m)
    BY <1>2, SentStep DEF IInv
  <1>4. Types'
    BY <1>1, <1>3 DEF IInv, Types, SendAnswer
  <1>5. SeesMore /\ NoNewAnswer(Other(i))
    BY <1>3, Others DEF SeesMore, NoNewAnswer, Sends, SendAnswer
  <1>6. initiator[n] = Other(i) /\ Offer(n) \in seen[i]
    BY <1>0, EndFacts, Negotiations DEF InboundOK
  <1>7. EndOK(i)'
    <2>1. DialOK(i)' /\ ConnOK(i)' /\ PcsOK(i)'
      BY <1>1, EndFacts DEF DialOK, ConnOK, PcsOK, SendAnswer
    <2>2. InboundOK(i)'
      BY <1>0, <1>1, EndFacts, Negotiations DEF InboundOK, SendAnswer
    <2>3. AskedOK(i)'
      <3>1. AskedOK(i) /\ asked[i] \subseteq Negotiation
        BY EndFacts DEF IInv, Types
      <3>2. \A x \in asked[i] : Answer(x) # m
        BY <3>1, <1>0, <1>2, Signals DEF AskedOK
      <3> QED
        BY <3>1, <3>2, <1>1, <1>3 DEF AskedOK, Sends, SendAnswer
    <2> QED
      BY <2>1, <2>2, <2>3 DEF EndOK
  <1>8. EndOK(Other(i))'
    BY <1>1, <1>5, EndKept, Others DEF SendAnswer
  <1>9. SignalsOK' /\ AnswersOK'
    <2>1. initiator[m.id] = (IF m.kind = "offer" THEN i ELSE Other(i))
      BY <1>2, <1>6
    <2> QED
      BY <1>2, <1>3, <1>4, <1>6, <2>1, SendWire DEF SendAnswer
  <1> QED
    BY <1>4, <1>7, <1>8, <1>9, Together

LEMMA DuplicateStep ==
  ASSUME IInv, NEW i \in Node, NEW m \in Signal, Duplicate(i, m)
  PROVE  IInv'
  <1>1. Types /\ Receive(i, m) /\ net' = [net EXCEPT ![i] = Tail(@)]
    BY DEF IInv, Duplicate
  <1>2. /\ seen' \in [Node -> SUBSET Signal] /\ SeesMore
        /\ net' \in [Node -> Seq(Signal)] /\ NoneSent
    BY <1>1, ReceiveStep
  <1>3. Types'
    BY <1>2 DEF IInv, Types, Duplicate
  <1>4. EndOK(i)'
    BY <1>2, NoAnswer, EndKept DEF Duplicate
  <1> QED
    BY <1>2, <1>3, <1>4, QuietStep DEF Duplicate

LEMMA ReceiveRejectStep ==
  ASSUME IInv, NEW i \in Node, NEW m \in Signal, ReceiveReject(i, m)
  PROVE  IInv'
  <1>1. Types /\ Receive(i, m) /\ net' = [net EXCEPT ![i] = Tail(@)]
    BY DEF IInv, ReceiveReject
  <1>2. /\ seen' \in [Node -> SUBSET Signal] /\ SeesMore
        /\ net' \in [Node -> Seq(Signal)] /\ NoneSent
    BY <1>1, ReceiveStep
  <1>3. UNCHANGED <<asked, inbounds, conns, initiator, answered, stale, lostConns, timedOut, faults>>
    BY DEF ReceiveReject
  <1>4. CASE dials[i].id = m.id
    <2>1. /\ EndOK(i)'
          /\ dials' \in [Node -> DialState] /\ auto' \in [Node -> AutoState]
          /\ pcs' \in [Negotiation -> [Node -> PcState]]
          /\ dials'[Other(i)] = dials[Other(i)]
          /\ \A n \in Negotiation : pcs'[n][Other(i)] = pcs[n][Other(i)]
      BY <1>2, <1>3, <1>4, EndDialStep DEF ReceiveReject
    <2>2. Types'
      BY <1>2, <1>3, <2>1 DEF IInv, Types
    <2> QED
      BY <1>2, <1>3, <2>1, <2>2, QuietStep
  <1>5. CASE dials[i].id # m.id
    <2>1. UNCHANGED <<dials, pcs, auto>>
      BY <1>5 DEF ReceiveReject
    <2>2. Types'
      BY <1>2, <1>3, <2>1 DEF IInv, Types
    <2>3. EndOK(i)'
      BY <1>2, <1>3, <2>1, NoAnswer, EndKept
    <2> QED
      BY <1>2, <1>3, <2>1, <2>2, <2>3, QuietStep
  <1> QED
    BY <1>4, <1>5

LEMMA RejectOfferStep ==
  ASSUME IInv, NEW i \in Node, NEW m \in Signal, RejectOffer(i, m) \/ RejectUnsolicited(i, m)
  PROVE  IInv'
  <1> DEFINE r == [kind |-> "reject", id |-> m.id]
  <1>1. Types /\ Receive(i, m) /\ m.kind = "offer"
    BY DEF IInv, RejectOffer, RejectUnsolicited
  <1>2. seen' \in [Node -> SUBSET Signal] /\ SeesMore /\ m \in OnWay(i)
    BY <1>1, ReceiveStep
  <1>3. r \in Signal /\ r.kind = "reject" /\ r.id = m.id /\ m.id \in Negotiation
    BY DEF Signal, Kind
  <1> HIDE DEF r
  <1>4. net' \in [Node -> Seq(Signal)] /\ Sends(i, r)
    <2>1. net[i] \in Seq(Signal) /\ net[i] # <<>> /\ net[Other(i)] \in Seq(Signal)
      BY <1>1, Others DEF Types, Receive
    <2>2. /\ Tail(net[i]) \in Seq(Signal) /\ Members(Tail(net[i])) \subseteq Members(net[i])
          /\ Append(net[Other(i)], r) \in Seq(Signal)
          /\ Members(Append(net[Other(i)], r)) \subseteq Members(net[Other(i)]) \cup {r}
      BY <2>1, <1>3, MembersTail, MembersAppend
    <2>3. \/ net' = [net EXCEPT ![i] = Tail(net[i])]
          \/ net' = [[net EXCEPT ![Other(i)] = Append(@, r)] EXCEPT ![i] = Tail(net[i])]
      BY DEF RejectOffer, RejectUnsolicited, Rejected, Sent, r
    <2>4. /\ net' \in [Node -> Seq(Signal)]
          /\ net'[i] = Tail(net[i]) /\ net'[Other(i)] \in {net[Other(i)], Append(net[Other(i)], r)}
      <3>1. net \in [Node -> Seq(Signal)] /\ Other(i) \in Node /\ Other(i) # i
        BY <1>1, Others DEF Types
      <3>2. CASE net' = [net EXCEPT ![i] = Tail(net[i])]
        BY <3>1, <3>2, <2>2
      <3>3. CASE net' = [[net EXCEPT ![Other(i)] = Append(@, r)] EXCEPT ![i] = Tail(net[i])]
        <4> DEFINE sent == [net EXCEPT ![Other(i)] = Append(@, r)]
        <4>1. /\ sent \in [Node -> Seq(Signal)]
              /\ sent[Other(i)] = Append(net[Other(i)], r) /\ net' = [sent EXCEPT ![i] = Tail(net[i])]
          BY <3>1, <3>3, <2>2
        <4> HIDE DEF sent
        <4> QED
          BY <4>1, <3>1, <2>2
      <3> QED
        BY <2>3, <3>2, <3>3
    <2> QED
      BY <2>2, <2>4 DEF Sends, OnWay
  <1>5. \A k \in Node : NoNewAnswer(k)
    <2>1. \A n \in Negotiation : Answer(n) # r
      BY <1>3, Signals
    <2> QED
      BY <2>1, <1>4, Others DEF NoNewAnswer, Sends
  <1>6. /\ dials' \in [Node -> DialState] /\ dials'[Other(i)] = dials[Other(i)]
        /\ dials'[i].id = dials[i].id /\ dials'[i].phase = dials[i].phase
        /\ dials[i].id = 0 => dials'[i] = NoDial
    <2>1. m.id \in 0 .. MaxEvents /\ dials[i] \in DialState
      BY <1>3, Negotiations, EndFacts
    <2>2. CASE dials' = dials
      BY <2>2, EndFacts DEF IInv, Types
    <2>3. CASE dials' # dials
      <3>1. dials' = [dials EXCEPT ![i].rejected = m.id] /\ dials[i].id # 0
        BY <2>3, EndFacts DEF RejectOffer, RejectUnsolicited
      <3> QED
        BY <2>1, <3>1, Others DEF IInv, Types, DialState
    <2> QED
      BY <2>2, <2>3
  <1>7. Types'
    BY <1>2, <1>4, <1>6 DEF IInv, Types, RejectOffer, RejectUnsolicited
  <1>8. EndOK(i)'
    BY <1>2, <1>5, <1>6, DialGoesOn DEF RejectOffer, RejectUnsolicited
  <1>9. EndOK(Other(i))'
    BY <1>2, <1>5, <1>6, EndKept, Others DEF RejectOffer, RejectUnsolicited
  <1>10. \A j \in Node : \A x \in OnWay(j)' : x \in OnWay(j) \/ (j = Other(i) /\ x = r)
    BY <1>4, Others DEF Sends
  <1>11. SignalsOK'
    <2>1. initiator[r.id] = Other(i)
      BY <1>1, <1>2, <1>3 DEF IInv, SignalsOK
    <2>2. initiator' = initiator
      BY DEF RejectOffer, RejectUnsolicited
    <2> QED
      BY <2>1, <2>2, <1>2, <1>3, <1>10, Others, SeenOK DEF IInv, SignalsOK
  <1>12. AnswersOK'
    <2>1. ASSUME NEW j \in Node, NEW n \in Negotiation
          PROVE  /\ n \in answered /\ Offer(n) \in OnWay(j)' => Offer(n) \in seen[j]
                 /\ Answer(n) \in OnWay(Other(j))' => Answer(n) \in seen[Other(j)] \/ Offer(n) \in seen[j]
      BY <1>3, <1>10, Others, Signals DEF IInv, AnswersOK
    <2>2. answered' = answered
      BY DEF RejectOffer, RejectUnsolicited
    <2> QED
      BY <2>1, <2>2, <1>2, Others DEF AnswersOK, SeesMore
  <1> QED
    BY <1>7, <1>8, <1>9, <1>11, <1>12, Together

LEMMA AcceptOfferStep ==
  ASSUME IInv, NEW i \in Node, NEW m \in Signal, AcceptOffer(i, m)
  PROVE  IInv'
  <1> DEFINE n == m.id
             d == dials[i].id
             j == Other(i)
  <1>1. Types /\ Receive(i, m) /\ net' = [net EXCEPT ![i] = Tail(@)]
    BY DEF IInv, AcceptOffer
  <1>2. /\ seen' \in [Node -> SUBSET Signal] /\ SeesMore /\ m \in OnWay(i) /\ m \in seen'[i]
        /\ net' \in [Node -> Seq(Signal)] /\ NoneSent
    BY <1>1, ReceiveStep, Keys DEF AcceptOffer
  <1>3. /\ m = Offer(n) /\ n \in Negotiation /\ n # 0 /\ n \in 0 .. MaxEvents /\ m \notin seen[i]
        /\ initiator[n] = j
    <2>1. m.kind = "offer" /\ m \notin seen[i]
      BY DEF AcceptOffer
    <2>2. n \in Negotiation
      BY DEF Signal
    <2>3. m = Offer(n)
      BY <2>1, <2>2, Signals
    <2>4. initiator[n] = j
      BY <2>1, <1>2 DEF IInv, SignalsOK
    <2> QED
      BY <2>1, <2>2, <2>3, <2>4, Negotiations
  <1>4. n # d /\ n # conns[i] /\ n \notin answered /\ inbounds[i].id = 0
    BY <1>2, <1>3, EndFacts, Others DEF DialOK, ConnOK, AcceptOffer, IInv, AnswersOK
  <1>5. /\ dials' \in [Node -> DialState] /\ dials'[i] = NoDial /\ dials'[j] = dials[j]
    <2>1. NoDial \in DialState
      BY GlareAssumption DEF NoDial, DialState, GlareAssumption
    <2> QED
      BY <1>1, <2>1, Others DEF Types, AcceptOffer
  <1>6. /\ inbounds' \in [Node -> InboundState] /\ inbounds'[j] = inbounds[j]
        /\ inbounds'[i].id = n /\ ~inbounds'[i].sent
    <2> DEFINE inbound == [id |-> n, sent |-> FALSE, handoff |-> dials[i] # NoDial]
    <2>1. inbound \in InboundState /\ inbound.id = n /\ ~inbound.sent
      BY <1>3 DEF InboundState
    <2>2. inbounds' = [inbounds EXCEPT ![i] = inbound]
      BY DEF AcceptOffer
    <2> HIDE DEF inbound
    <2> QED
      BY <1>1, <2>1, <2>2, Others DEF Types
  <1>7. auto' \in [Node -> AutoState]
    <2>1. auto[i] \in AutoState /\ conns[i] \in Nat
      BY <1>1, GlareAssumption DEF Types, GlareAssumption
    <2>2. Finally(auto[i], conns[i]) \in AutoState
      BY <2>1, AutoTypes
    <2> QED
      BY <2>1, <2>2, <1>1 DEF Types, AcceptOffer
  <1>8. /\ pcs' \in [Negotiation -> [Node -> PcState]]
        /\ \A k \in Negotiation : pcs'[k][i] = IF k = n THEN "open" ELSE IF k = d THEN "closed" ELSE pcs[k][i]
        /\ \A k \in Negotiation : pcs'[k][j] = pcs[k][j]
    <2> DEFINE ps == Closed(pcs, d, i)
    <2>1. /\ ps \in [Negotiation -> [Node -> PcState]]
          /\ \A k \in Negotiation, l \in Node : ps[k][l] = IF k = d /\ l = i THEN "closed" ELSE pcs[k][l]
      <3>1. pcs \in [Negotiation -> [Node -> PcState]] /\ d \in 0 .. MaxEvents
        BY <1>1, EndFacts DEF Types
      <3> QED
        BY <3>1, ClosedPcs
    <2>2. pcs' = [ps EXCEPT ![n][i] = "open"]
      BY DEF AcceptOffer
    <2> HIDE DEF ps
    <2> QED
      BY <1>3, <2>1, <2>2, Others DEF PcState
  <1>9. Types'
    BY <1>1, <1>2, <1>5, <1>6, <1>7, <1>8 DEF Types, AcceptOffer
  <1>10. EndOK(i)'
    <2>1. DialOK(i)'
      BY <1>5 DEF DialOK, NoDial
    <2>2. InboundOK(i)'
      <3>1. Answer(n) \in OnWay(j)' => Answer(n) \in seen'[j]
        <4>1. Answer(n) \in OnWay(j) => Answer(n) \in seen[j]
          BY <1>3 DEF IInv, AnswersOK
        <4> QED
          BY <4>1, <1>2, Others DEF NoneSent, SeesMore
      <3> QED
        BY <3>1, <1>2, <1>3, <1>4, <1>6, <1>8 DEF InboundOK, AcceptOffer
    <2>3. ConnOK(i)'
      <3>1. conns'[i] = conns[i] /\ answered' = answered /\ initiator' = initiator
        BY DEF AcceptOffer
      <3>2. conns[i] # 0 => conns[i] \in Negotiation /\ conns[i] \notin {n, d}
        BY <1>4, EndFacts, Negotiations
      <3> QED
        BY <3>1, <3>2, <1>2, <1>8, EndFacts DEF ConnOK, SeesMore
    <2>4. PcsOK(i)'
      <3>1. /\ conns'[i] = conns[i] /\ answered' = answered /\ initiator' = initiator
            /\ lostConns' = lostConns
        BY DEF AcceptOffer
      <3>2. d # 0 => initiator[d] # 0
        BY EndFacts, Others DEF DialOK
      <3>3. \A k \in Negotiation : k = d => d # 0
        BY Negotiations
      <3> QED
        BY <3>1, <3>2, <3>3, <1>3, <1>4, <1>6, <1>8, EndFacts, Negotiations, Others DEF PcsOK
    <2>5. AskedOK(i)'
      <3>1. AskedOK(i) /\ asked[i] \subseteq Negotiation /\ n \notin asked[i] /\ NoNewAnswer(i)
        BY <1>2, <1>3, EndFacts, NoAnswer DEF IInv, Types, AskedOK
      <3>2. asked' = asked /\ answered' = answered /\ initiator' = initiator
        BY DEF AcceptOffer
      <3> QED
        BY <3>1, <3>2, <1>2, <1>6, Others DEF AskedOK, SeesMore, NoNewAnswer
    <2> QED
      BY <2>1, <2>2, <2>3, <2>4, <2>5 DEF EndOK
  <1> QED
    BY <1>2, <1>5, <1>6, <1>8, <1>9, <1>10, QuietStep DEF AcceptOffer

\* The offer is put to allowIncomingPeer.
LEMMA AskStep ==
  ASSUME IInv, NEW i \in Node, NEW m \in Signal, AskAboutOffer(i, m)
  PROVE  IInv'
  <1> DEFINE n == m.id
  <1>1. Types /\ Receive(i, m) /\ net' = [net EXCEPT ![i] = Tail(@)]
    BY DEF IInv, AskAboutOffer
  <1>2. /\ m = Offer(n) /\ n \in Negotiation /\ m \notin seen[i] /\ Key(m) = m
    BY Signals, Keys DEF AskAboutOffer, Signal
  <1>3. /\ seen' \in [Node -> SUBSET Signal] /\ SeesMore /\ m \in OnWay(i) /\ m \in seen'[i]
        /\ net' \in [Node -> Seq(Signal)] /\ NoneSent /\ NoNewAnswer(i)
    BY <1>1, <1>2, ReceiveStep, NoAnswer
  <1>4. /\ UNCHANGED <<dials, inbounds, conns, pcs, initiator, answered, auto, stale, lostConns, faults>>
        /\ asked' \in [Node -> SUBSET Negotiation]
        /\ asked'[i] = asked[i] \cup {n} /\ asked'[Other(i)] = asked[Other(i)]
    BY <1>1, <1>2, Others DEF AskAboutOffer, Types
  <1>5. Types'
    BY <1>3, <1>4 DEF IInv, Types
  <1>6. DialOK(i)' /\ InboundOK(i)' /\ ConnOK(i)' /\ PcsOK(i)'
    <2>1. DialOK(i)' /\ PcsOK(i)'
      BY <1>4, EndFacts DEF DialOK, PcsOK
    <2>2. InboundOK(i)' /\ ConnOK(i)'
      BY <1>3, <1>4, EndFacts, Negotiations, Others DEF InboundOK, ConnOK, SeesMore, NoNewAnswer
    <2> QED
      BY <2>1, <2>2
  <1>7. AskedOK(i)'
    <2>1. ASSUME NEW x \in asked'[i]
          PROVE  /\ initiator[x] = Other(i) /\ Offer(x) \in seen'[i]
                 /\ x \notin answered /\ x # inbounds[i].id
                 /\ Answer(x) \in OnWay(Other(i)) => Answer(x) \in seen[Other(i)]
      <3>1. CASE x \in asked[i]
        BY <3>1, <1>3, EndFacts DEF AskedOK, SeesMore
      <3>2. CASE x = n
        <4>1. initiator[n] = Other(i)
          BY <1>2, <1>3, Signals DEF IInv, SignalsOK
        <4>2. n \notin answered /\ (Answer(n) \in OnWay(Other(i)) => Answer(n) \in seen[Other(i)])
          BY <1>2, <1>3 DEF IInv, AnswersOK
        <4>3. n # inbounds[i].id
          BY <1>2, EndFacts, Negotiations DEF InboundOK
        <4> QED
          BY <3>2, <4>1, <4>2, <4>3, <1>2, <1>3
      <3> QED
        BY <3>1, <3>2, <1>4
    <2>2. asked'[i] \subseteq Negotiation
      BY <1>4
    <2> QED
      BY <2>1, <2>2, <1>3, <1>4, Others DEF AskedOK, SeesMore, NoNewAnswer
  <1>8. EndOK(i)'
    BY <1>6, <1>7 DEF EndOK
  <1> QED
    BY <1>3, <1>4, <1>5, <1>8, QuietStep

\* allowIncomingPeer admits it: nobody has or will get an answer that is not of this negotiation.
LEMMA AdmitStep ==
  ASSUME IInv, NEW i \in Node, NEW n \in Negotiation, Admit(i, n)
  PROVE  IInv'
  <1> DEFINE j == Other(i)
             inbound == [id |-> n, sent |-> FALSE, handoff |-> FALSE]
  <1>1. /\ Types /\ UNCHANGED <<dials, conns, initiator, answered, net, seen, auto, stale, lostConns, faults>>
        /\ n # 0 /\ n \in 0 .. MaxEvents /\ j \in Node /\ j # i /\ j # 0
    BY Negotiations, Others DEF IInv, Admit, Node
  <1>2. NoneSent /\ SeesMore /\ \A k \in Node : NoNewAnswer(k)
    BY <1>1, Calm
  <1>3. /\ n \in asked[i] /\ initiator[n] = j /\ Offer(n) \in seen[i] /\ n \notin answered
        /\ Answer(n) \in OnWay(j) => Answer(n) \in seen[j]
        /\ inbounds[i].id = 0
    BY EndFacts DEF AskedOK, Admit
  <1>4. n # conns[i] /\ n # dials[i].id
    BY <1>1, <1>3, EndFacts DEF ConnOK, DialOK
  <1>5. /\ inbounds' \in [Node -> InboundState] /\ inbounds'[j] = inbounds[j]
        /\ inbounds'[i].id = n /\ ~inbounds'[i].sent
    <2>1. inbound \in InboundState /\ inbound.id = n /\ ~inbound.sent
      BY <1>1 DEF InboundState
    <2>2. inbounds' = [inbounds EXCEPT ![i] = inbound]
      BY DEF Admit
    <2> HIDE DEF inbound
    <2> QED
      BY <1>1, <2>1, <2>2 DEF Types
  <1>6. /\ pcs' \in [Negotiation -> [Node -> PcState]]
        /\ \A k \in Negotiation : pcs'[k][i] = IF k = n THEN "open" ELSE pcs[k][i]
        /\ \A k \in Negotiation : pcs'[k][j] = pcs[k][j]
    BY <1>1 DEF Types, Admit, PcState
  <1>7. /\ asked' \in [Node -> SUBSET Negotiation]
        /\ asked'[i] = asked[i] \ {n} /\ asked'[j] = asked[j]
    BY <1>1 DEF Types, Admit
  <1>8. Types'
    BY <1>1, <1>5, <1>6, <1>7 DEF Types
  <1>9. EndOK(i)'
    <2>1. DialOK(i)'
      BY <1>1, <1>4, <1>6, EndFacts, Negotiations DEF DialOK
    <2>2. InboundOK(i)'
      BY <1>1, <1>2, <1>3, <1>5, <1>6 DEF InboundOK, NoneSent
    <2>3. ConnOK(i)'
      BY <1>1, <1>4, <1>6, EndFacts, Negotiations DEF ConnOK
    <2>4. PcsOK(i)'
      BY <1>1, <1>3, <1>5, <1>6, EndFacts, Negotiations DEF PcsOK
    <2>5. AskedOK(i)'
      BY <1>1, <1>2, <1>5, <1>7, EndFacts, Others DEF AskedOK, NoneSent
    <2> QED
      BY <2>1, <2>2, <2>3, <2>4, <2>5 DEF EndOK
  <1> QED
    BY <1>1, <1>2, <1>5, <1>6, <1>7, <1>8, <1>9, QuietStep

\* The question ends with a reject, or without any reply.
LEMMA NotAdmittedStep ==
  ASSUME IInv, NEW i \in Node, NEW n \in Negotiation,
         AdmitTooLate(i, n) \/ Deny(i, n) \/ AskingFails(i, n)
  PROVE  IInv'
  <1> DEFINE r == [kind |-> "reject", id |-> n]
  <1>1. /\ Types /\ faults' \subseteq FaultKind
        /\ UNCHANGED <<dials, inbounds, conns, pcs, initiator, answered, seen, auto, stale, lostConns>>
    BY DEF IInv, Types, AdmitTooLate, Deny, AskingFails, TurnDown, Fault, FaultKind
  <1>2. r \in Signal /\ r.kind = "reject" /\ r.id = n
    BY DEF Signal, Kind
  <1>3. net' = Sent(i, r) \/ net' = net
    BY DEF AdmitTooLate, Deny, AskingFails, TurnDown
  <1>4. n \in asked[i] /\ asked' = [asked EXCEPT ![i] = @ \ {n}]
    BY DEF AdmitTooLate, Deny, AskingFails, TurnDown
  <1> HIDE DEF r
  <1>5. net' \in [Node -> Seq(Signal)] /\ Sends(i, r)
    <2>1. CASE net' = Sent(i, r)
      BY <2>1, <1>1, <1>2, SentStep
    <2>2. CASE net' = net
      BY <2>2, <1>1 DEF Types, Sends, OnWay
    <2> QED
      BY <1>3, <2>1, <2>2
  <1>6. /\ asked' \in [Node -> SUBSET Negotiation] /\ \A k \in Node : asked'[k] \subseteq asked[k]
    BY <1>1, <1>4 DEF Types
  <1>7. Types'
    BY <1>1, <1>5, <1>6 DEF Types
  <1>8. SeesMore /\ \A k \in Node : NoNewAnswer(k)
    <2>1. \A x \in Negotiation : Answer(x) # r
      BY <1>2, Signals
    <2> QED
      BY <2>1, <1>1, <1>5, Others DEF SeesMore, NoNewAnswer, Sends
  <1>9. EndOK(i)' /\ EndOK(Other(i))'
    BY <1>1, <1>6, <1>8, EndKept, Others
  <1>10. SignalsOK' /\ AnswersOK'
    <2>1. initiator[r.id] = IF r.kind = "offer" THEN i ELSE Other(i)
      BY <1>2, <1>4, EndFacts DEF AskedOK
    <2> QED
      BY <2>1, <1>1, <1>2, <1>5, <1>7, SendWire
  <1> QED
    BY <1>7, <1>9, <1>10, Together

LEMMA ReceiveAnswerStep ==
  ASSUME IInv, NEW i \in Node, NEW m \in Signal, ReceiveAnswer(i, m)
  PROVE  IInv'
  <1> DEFINE n == m.id
             j == Other(i)
  <1>1. Types /\ Receive(i, m) /\ net' = [net EXCEPT ![i] = Tail(@)]
    BY DEF IInv, ReceiveAnswer
  <1>2. /\ seen' \in [Node -> SUBSET Signal] /\ SeesMore /\ m \in OnWay(i) /\ Key(m) \in seen'[i]
        /\ net' \in [Node -> Seq(Signal)] /\ NoneSent
    BY <1>1, ReceiveStep
  <1>3. UNCHANGED <<asked, inbounds, conns, pcs, initiator, auto, stale, lostConns, timedOut, faults>>
    BY DEF ReceiveAnswer
  <1>4. CASE dials[i].id # n
    <2>1. UNCHANGED <<dials, answered>>
      BY <1>4 DEF ReceiveAnswer
    <2>2. Types'
      BY <1>2, <1>3, <2>1 DEF IInv, Types
    <2>3. EndOK(i)'
      BY <1>2, <1>3, <2>1, NoAnswer, EndKept
    <2> QED
      BY <1>2, <1>3, <2>1, <2>2, <2>3, QuietStep
  <1>6. CASE dials[i].id = n /\ m.kind = "orphan"
    <2>1. answered' = answered /\ dials' = [dials EXCEPT ![i].phase = "answered"]
      BY <1>6 DEF ReceiveAnswer
    <2>2. /\ dials' \in [Node -> DialState] /\ dials'[j] = dials[j]
          /\ dials'[i].id = n /\ dials'[i].phase = "answered" /\ n # 0
      <3>1. dials \in [Node -> DialState] /\ j \in Node /\ j # i
        BY <1>1, Others DEF Types
      <3>2. n # 0
        BY Negotiations DEF Signal
      <3> QED
        BY <2>1, <1>6, <3>1, <3>2 DEF DialState
    <2>3. Types'
      BY <1>2, <1>3, <2>1, <2>2 DEF IInv, Types
    <2>4. EndOK(i)'
      BY <1>2, <1>3, <1>6, <2>1, <2>2, NoAnswer, DialGoesOn
    <2> QED
      BY <1>2, <1>3, <2>1, <2>2, <2>3, <2>4, QuietStep
  <1>5. CASE dials[i].id = n /\ m.kind = "answer"
    <2>1. n \in Negotiation /\ n # 0 /\ m = Answer(n) /\ m \notin seen[i] /\ j \in Node
          /\ Other(j) = i /\ i # j
      <3>1. m.kind = "answer" /\ m \notin seen[i] /\ n \in Negotiation
        BY <1>5, Keys DEF ReceiveAnswer, Signal
      <3> QED
        BY <3>1, Signals, Negotiations, Others
    <2>2. Offer(n) \in seen[j] /\ initiator[n] = i
      BY <2>1, <1>2, <1>5, EndFacts DEF IInv, AnswersOK, DialOK
    <2>3. answered' = answered \cup {n} /\ dials' = [dials EXCEPT ![i].phase = "answered"]
      BY <1>5 DEF ReceiveAnswer
    <2>4. /\ dials' \in [Node -> DialState] /\ dials'[j] = dials[j]
          /\ dials'[i].id = n /\ dials'[i].phase = "answered"
      <3>1. dials \in [Node -> DialState] /\ dials[i] \in DialState
        BY <1>1 DEF Types
      <3> DEFINE d == [dials[i] EXCEPT !.phase = "answered"]
      <3>2. d \in DialState /\ d.id = n /\ d.phase = "answered"
        BY <1>5, <3>1 DEF DialState
      <3>3. dials' = [dials EXCEPT ![i] = d]
        BY <2>3
      <3> HIDE DEF d
      <3> QED
        BY <2>1, <3>1, <3>2, <3>3
    <2>5. Types'
      BY <1>2, <1>3, <2>1, <2>3, <2>4 DEF IInv, Types
    <2>6. EndOK(i)'
      <3>1. DialOK(i)'
        BY <2>1, <2>4, <1>3, <1>5, EndFacts DEF DialOK
      <3>2. InboundOK(i)'
        <4>1. inbounds[i].id # n
          BY <2>1, <1>5, EndFacts
        <4> QED
          BY <4>1, <2>1, <2>3, <1>2, <1>3, EndFacts DEF InboundOK, SeesMore, NoneSent
      <3>3. ConnOK(i)'
        BY <2>3, <1>2, <1>3, EndFacts DEF ConnOK, SeesMore
      <3>4. PcsOK(i)'
        BY <2>1, <2>2, <2>3, <2>4, <1>3, <1>5, EndFacts, Others DEF PcsOK
      <3>5. AskedOK(i)'
        <4>1. AskedOK(i) /\ n \notin asked[i] /\ asked[i] \subseteq Negotiation /\ NoNewAnswer(i)
          BY <2>1, <2>2, EndFacts, NoAnswer, <1>2 DEF IInv, Types, AskedOK
        <4> QED
          BY <4>1, <2>1, <2>3, <1>2, <1>3, Others DEF AskedOK, SeesMore, NoNewAnswer
      <3> QED
        BY <3>1, <3>2, <3>3, <3>4, <3>5 DEF EndOK
    <2>7. EndOK(j)'
      <3>1. DialOK(j)'
        <4>1. dials[j].id # n
          BY <2>1, <2>2, EndFacts DEF DialOK
        <4> QED
          BY <4>1, <2>1, <2>3, <2>4, <1>3, EndFacts DEF DialOK
      <3>2. InboundOK(j)'
        <4>1. inbounds[j].id = n => inbounds[j].sent
          BY <2>1, <1>2, EndFacts DEF InboundOK
        <4> QED
          BY <4>1, <2>1, <2>3, <1>2, <1>3, EndFacts DEF InboundOK, SeesMore, NoneSent
      <3>3. ConnOK(j)'
        BY <2>1, <2>3, <1>2, <1>3, EndFacts DEF ConnOK, SeesMore
      <3>4. PcsOK(j)'
        BY <2>1, <2>2, <2>3, <2>4, <1>3, EndFacts, Others DEF PcsOK
      <3>5. AskedOK(j)'
        <4>1. AskedOK(j) /\ n \notin asked[j] /\ asked[j] \subseteq Negotiation /\ NoNewAnswer(j)
          BY <2>1, EndFacts, NoAnswer, <1>2 DEF IInv, Types, AskedOK
        <4> QED
          BY <4>1, <2>1, <2>3, <1>2, <1>3, Others DEF AskedOK, SeesMore, NoNewAnswer
      <3> QED
        BY <3>1, <3>2, <3>3, <3>4, <3>5 DEF EndOK
    <2>8. SignalsOK'
      BY <1>2, <1>3, SeenOK DEF IInv, SignalsOK, NoneSent
    <2>9. AnswersOK'
      <3>1. ASSUME NEW k \in Node, NEW x \in Negotiation
            PROVE  /\ x \in answered' /\ Offer(x) \in OnWay(k)' => Offer(x) \in seen'[k]
                   /\ Answer(x) \in OnWay(Other(k))' => Answer(x) \in seen'[Other(k)] \/ Offer(x) \in seen'[k]
        <4>1. Answer(x) \in OnWay(Other(k))' => Answer(x) \in seen'[Other(k)] \/ Offer(x) \in seen'[k]
          BY <1>2, Others DEF IInv, AnswersOK, NoneSent, SeesMore
        <4>2. x \in answered /\ Offer(x) \in OnWay(k)' => Offer(x) \in seen'[k]
          BY <1>2 DEF IInv, AnswersOK, NoneSent, SeesMore
        <4>3. Offer(n) \in OnWay(k)' => Offer(n) \in seen'[k]
          <5>1. Offer(n) \in OnWay(k)' => initiator[n] = Other(k)
            BY <2>1, <1>2, Signals DEF IInv, SignalsOK, NoneSent
          <5>2. Offer(n) \in OnWay(k)' => k = j
            BY <5>1, <2>1, <2>2, Others
          <5> QED
            BY <5>2, <2>1, <2>2, <1>2 DEF SeesMore
        <4> QED
          BY <4>1, <4>2, <4>3, <2>3
      <3> QED
        BY <3>1 DEF AnswersOK
    <2> QED
      BY <2>5, <2>6, <2>7, <2>8, <2>9, Together
  <1> QED
    BY <1>4, <1>5, <1>6 DEF ReceiveAnswer

LEMMA OutboundUpStep ==
  ASSUME IInv, NEW i \in Node, NEW n \in Negotiation, OutboundUp(i, n)
  PROVE  IInv'
  <1> DEFINE j == Other(i)
  <1>1. Types /\ n # 0 /\ n \in 0 .. MaxEvents /\ dials[i].id = n /\ n \in answered
    BY Negotiations DEF IInv, OutboundUp
  <1>2. NoneSent /\ SeesMore
    BY Calm DEF OutboundUp
  <1>3. dials' \in [Node -> DialState] /\ dials'[i] = NoDial /\ dials'[j] = dials[j]
    <2>1. NoDial \in DialState
      BY GlareAssumption DEF NoDial, DialState, GlareAssumption
    <2> QED
      BY <1>1, <2>1, Others DEF Types, OutboundUp
  <1>4. conns' \in [Node -> 0 .. MaxEvents] /\ conns'[i] = n /\ conns'[j] = conns[j]
    BY <1>1, Others DEF Types, OutboundUp
  <1>5. /\ pcs' \in [Negotiation -> [Node -> PcState]]
        /\ \A k \in Negotiation : pcs'[k][i] = IF k = n THEN "up" ELSE pcs[k][i]
        /\ \A k \in Negotiation : pcs'[k][j] = pcs[k][j]
    BY <1>1, Others DEF Types, OutboundUp, PcState
  <1>6. auto' \in [Node -> AutoState]
    <2>1. auto[i] \in AutoState /\ n \in Nat
      BY <1>1, GlareAssumption DEF Types, GlareAssumption
    <2>2. Finally(auto[i], n) \in AutoState
      BY <2>1, AutoTypes
    <2>3. [Finally(auto[i], n) EXCEPT !.proven = TRUE] \in AutoState
      BY <2>2 DEF AutoState
    <2> QED
      BY <2>3, <1>1 DEF Types, OutboundUp
  <1>7. Types'
    BY <1>1, <1>3, <1>4, <1>5, <1>6 DEF Types, OutboundUp
  <1>8. /\ lostConns \subseteq lostConns'
        /\ conns[i] # 0 => <<i, conns[i]>> \in lostConns'
        /\ UNCHANGED <<asked, inbounds, initiator, answered, seen>>
    BY DEF OutboundUp
  <1>9. EndOK(i)'
    <2>1. DialOK(i)'
      BY <1>3 DEF DialOK, NoDial
    <2>2. InboundOK(i)'
      BY <1>1, <1>2, <1>5, <1>8, EndFacts, Negotiations, Others DEF InboundOK, NoneSent
    <2>3. ConnOK(i)'
      BY <1>1, <1>4, <1>5, <1>8, EndFacts DEF ConnOK, DialOK
    <2>4. PcsOK(i)'
      <3>1. initiator[n] # 0
        BY <1>1, EndFacts, Others DEF DialOK
      <3>2. ASSUME NEW k \in Negotiation
            PROVE  /\ pcs'[k][i] = "open" => k = inbounds'[i].id
                   /\ pcs'[k][i] = "up" => conns'[i] = k \/ <<i, k>> \in lostConns'
                   /\ initiator'[k] = 0 => pcs'[k][i] = "none" /\ k \notin answered'
        <4>1. PcsOK(i) /\ k # 0
          BY EndFacts, Negotiations
        <4>2. CASE k = n
          BY <4>2, <3>1, <1>4, <1>5, <1>8
        <4>3. CASE k # n
          BY <4>1, <4>3, <1>1, <1>5, <1>8 DEF PcsOK
        <4> QED
          BY <4>2, <4>3
      <3> QED
        BY <3>2 DEF PcsOK
    <2>5. AskedOK(i)'
      BY <1>2, <1>8, NoAnswer, AskedKept
    <2> QED
      BY <2>1, <2>2, <2>3, <2>4, <2>5 DEF EndOK
  <1> QED
    BY <1>2, <1>3, <1>4, <1>5, <1>7, <1>8, <1>9, QuietStep

LEMMA InboundUpStep ==
  ASSUME IInv, NEW i \in Node, NEW n \in Negotiation, InboundUp(i, n)
  PROVE  IInv'
  <1> DEFINE j == Other(i)
             c == conns[i]
  <1>1. Types /\ n # 0 /\ n \in 0 .. MaxEvents /\ inbounds[i].id = n /\ n \in answered
    BY Negotiations DEF IInv, InboundUp
  <1>2. NoneSent /\ SeesMore
    BY Calm DEF InboundUp
  <1>3. inbounds' \in [Node -> InboundState] /\ inbounds'[i] = NoInbound /\ inbounds'[j] = inbounds[j]
    <2>1. NoInbound \in InboundState
      BY GlareAssumption DEF NoInbound, InboundState, GlareAssumption
    <2> QED
      BY <1>1, <2>1, Others DEF Types, InboundUp
  <1>4. conns' \in [Node -> 0 .. MaxEvents] /\ conns'[i] = n /\ conns'[j] = conns[j]
    BY <1>1, Others DEF Types, InboundUp
  <1>5. /\ pcs' \in [Negotiation -> [Node -> PcState]]
        /\ \A k \in Negotiation : pcs'[k][i] = IF k = n THEN "up" ELSE IF k = c THEN "closed" ELSE pcs[k][i]
        /\ \A k \in Negotiation : pcs'[k][j] = pcs[k][j]
    <2> DEFINE ps == Closed(pcs, c, i)
    <2>1. /\ ps \in [Negotiation -> [Node -> PcState]]
          /\ \A k \in Negotiation, l \in Node : ps[k][l] = IF k = c /\ l = i THEN "closed" ELSE pcs[k][l]
      <3>1. pcs \in [Negotiation -> [Node -> PcState]] /\ c \in 0 .. MaxEvents
        BY <1>1 DEF Types
      <3> QED
        BY <3>1, ClosedPcs
    <2>2. pcs' = [ps EXCEPT ![n][i] = "up"]
      BY DEF InboundUp, Superseded
    <2> HIDE DEF ps
    <2> QED
      BY <2>1, <2>2, Others DEF PcState
  <1>A. auto' \in [Node -> AutoState]
    BY <1>1 DEF Types, AutoState, InboundUp
  <1>6. Types'
    BY <1>1, <1>3, <1>4, <1>5, <1>A DEF Types, InboundUp
  <1>7. UNCHANGED <<asked, dials, initiator, answered, seen, lostConns>>
    BY DEF InboundUp
  <1>8. c # n /\ dials[i].id # n
    BY <1>1, EndFacts
  <1>9. EndOK(i)'
    <2>1. DialOK(i)'
      BY <1>5, <1>7, <1>8, EndFacts, Negotiations DEF DialOK
    <2>2. InboundOK(i)'
      BY <1>3 DEF InboundOK, NoInbound
    <2>3. ConnOK(i)'
      BY <1>1, <1>4, <1>5, <1>7, EndFacts DEF ConnOK, InboundOK
    <2>4. PcsOK(i)'
      <3>1. initiator[n] # 0 /\ (c # 0 => initiator[c] # 0)
        <4>1. /\ InboundOK(i) /\ ConnOK(i) /\ PcsOK(i) /\ c \in 0 .. MaxEvents
              /\ j \in Node /\ j # 0
          BY EndFacts, Others DEF Node
        <4>2. initiator[n] = j
          BY <1>1, <4>1 DEF InboundOK
        <4>3. c # 0 => c \in Negotiation
          BY <4>1, Negotiations
        <4>4. c # 0 => initiator[c] # 0
          BY <4>1, <4>3 DEF ConnOK, PcsOK
        <4> QED
          BY <4>1, <4>2, <4>4
      <3> QED
        BY <3>1, <1>1, <1>3, <1>4, <1>5, <1>7, EndFacts, Negotiations DEF PcsOK
    <2>5. AskedOK(i)'
      BY <1>2, <1>3, <1>7, NoAnswer, AskedKept DEF NoInbound
    <2> QED
      BY <2>1, <2>2, <2>3, <2>4, <2>5 DEF EndOK
  <1> QED
    BY <1>2, <1>3, <1>4, <1>5, <1>6, <1>7, <1>9, QuietStep

LEMMA DownStep ==
  ASSUME IInv, NEW i \in Node, NEW n \in Negotiation, n \in answered, DownEvent(i, n),
         UNCHANGED timedOut, faults' \subseteq FaultKind
  PROVE  IInv'
  <1> DEFINE j == Other(i)
  <1>1. Types /\ n # 0 /\ n \in 0 .. MaxEvents /\ UNCHANGED <<asked, initiator, answered, net, seen, stale>>
    BY Negotiations DEF IInv, DownEvent
  <1>2. NoneSent /\ SeesMore /\ \A k \in Node : NoNewAnswer(k)
    BY <1>1, Calm
  <1>3. pcs' = [pcs EXCEPT ![n][i] = "closed"]
    BY DEF DownEvent, DownAt
  <1>4. /\ pcs' \in [Negotiation -> [Node -> PcState]]
        /\ \A k \in Negotiation : pcs'[k][i] = IF k \in {n} THEN "closed" ELSE pcs[k][i]
        /\ \A k \in Negotiation : pcs'[k][j] = pcs[k][j]
    BY <1>1, <1>3, Others DEF Types, PcState
  <1>5. initiator[n] # 0 /\ {n} \in SUBSET Negotiation
    BY EndFacts DEF PcsOK
  <1>6. NoDial \in DialState /\ NoInbound \in InboundState /\ 0 \in 0 .. MaxEvents
    BY GlareAssumption DEF NoDial, DialState, NoInbound, InboundState, GlareAssumption
  <1>7. /\ auto[i] \in AutoState /\ Scheduled(i, auto[i]) \in AutoState
        /\ DialLost(i, Scheduled(i, auto[i]), FALSE, 0) \in AutoState
    <2>1. auto[i] \in AutoState /\ 0 \in Nat
      BY <1>1 DEF Types
    <2>2. Scheduled(i, auto[i]) \in AutoState
      BY <2>1, AutoTypes
    <2> QED
      BY <2>1, <2>2, AutoTypes
  <1>B. \/ ~Listens(i, n) /\ UNCHANGED <<dials, conns, inbounds, auto, lostConns>>
        \/ (Listens(i, n) \/ MayListen(i, n)) /\ DownAt(i, n)
    BY DEF DownEvent
  <1>8. CASE ~Listens(i, n) /\ UNCHANGED <<dials, conns, inbounds, auto, lostConns>>
    <2>1. UNCHANGED <<dials, conns, inbounds, auto, lostConns>>
      BY <1>8
    <2>2. Types'
      BY <1>1, <1>4, <2>1 DEF Types
    <2>3. conns[i] # n /\ (inbounds[i].id = n => inbounds[i].sent)
      BY <1>1, <1>8, EndFacts DEF Listens, InboundOK
    <2>4. EndOK(i)'
      BY <1>1, <1>2, <1>4, <1>5, <2>1, <2>3, EndsGivenUp
    <2> QED
      BY <1>1, <1>2, <1>4, <2>1, <2>2, <2>4, QuietStep
  <1> DEFINE hears == (Listens(i, n) \/ MayListen(i, n)) /\ DownAt(i, n)
  <1>9. CASE hears /\ initiator[n] # i /\ conns[i] \notin {0, n}
    <2>1. inbounds' = [inbounds EXCEPT ![i] = NoInbound] /\ UNCHANGED <<dials, conns, auto, lostConns>>
      BY <1>9 DEF DownAt
    <2>2. inbounds' \in [Node -> InboundState] /\ inbounds'[i] = NoInbound /\ inbounds'[j] = inbounds[j]
      BY <1>1, <1>6, <2>1, Others DEF Types
    <2>3. Types'
      BY <1>1, <1>4, <2>1, <2>2 DEF Types
    <2>4. inbounds[i].id = n /\ inbounds[i] # NoInbound
      BY <1>1, <1>9, EndFacts DEF Listens, MayListen, DialOK
    <2>5. EndOK(i)'
      BY <1>1, <1>2, <1>4, <1>5, <1>9, <2>1, <2>2, <2>4, EndsGivenUp
    <2> QED
      BY <1>1, <1>2, <1>4, <2>1, <2>2, <2>3, <2>5, QuietStep
  <1>10. CASE hears /\ ~(initiator[n] # i /\ conns[i] \notin {0, n})
    <2>1. /\ conns' = [conns EXCEPT ![i] = 0]
          /\ lostConns' = IF conns[i] \in {0, n} THEN lostConns ELSE lostConns \cup {<<i, conns[i]>>}
          /\ inbounds' = IF inbounds[i].id = n THEN [inbounds EXCEPT ![i] = NoInbound] ELSE inbounds
          /\ dials' = IF dials[i].id = n THEN [dials EXCEPT ![i] = NoDial] ELSE dials
          /\ auto' = [auto EXCEPT ![i] = IF dials[i].id = n
                                         THEN DialLost(i, Scheduled(i, @), FALSE, 0)
                                         ELSE Scheduled(i, @)]
      BY <1>10 DEF DownAt
    <2>2. /\ conns' \in [Node -> 0 .. MaxEvents] /\ conns'[i] = 0 /\ conns'[j] = conns[j]
          /\ inbounds' \in [Node -> InboundState] /\ inbounds'[j] = inbounds[j]
          /\ inbounds'[i] = IF inbounds[i].id = n THEN NoInbound ELSE inbounds[i]
          /\ dials' \in [Node -> DialState] /\ dials'[j] = dials[j]
          /\ dials'[i] = IF dials[i].id = n THEN NoDial ELSE dials[i]
      BY <1>1, <1>6, <2>1, Others DEF Types
    <2>3. auto' \in [Node -> AutoState]
      BY <1>1, <1>7, <2>1 DEF Types
    <2>4. Types'
      BY <1>1, <1>4, <2>2, <2>3 DEF Types
    <2>5. inbounds[i].id = n => inbounds[i] # NoInbound
      BY <1>1, EndFacts
    <2>6. /\ lostConns \subseteq lostConns'
          /\ conns[i] # 0 /\ conns'[i] = 0 => conns[i] \in {n} \/ <<i, conns[i]>> \in lostConns'
      BY <2>1
    <2>7. EndOK(i)'
      BY <1>1, <1>2, <1>4, <1>5, <2>2, <2>5, <2>6, EndsGivenUp
    <2> QED
      BY <1>1, <1>2, <1>4, <2>2, <2>4, <2>6, <2>7, QuietStep
  <1> QED
    BY <1>8, <1>9, <1>10, <1>B

LEMMA TimerStep ==
  ASSUME IInv, NEW i \in Node, ReconnectTimer(i) \/ CooldownEnds(i)
  PROVE  IInv'
  <1>1. /\ UNCHANGED <<asked, dials, inbounds, conns, pcs, initiator, answered, net, seen, stale, lostConns>>
        /\ UNCHANGED <<timedOut, faults>>
    BY DEF ReconnectTimer, CooldownEnds
  <1>2. auto' \in [Node -> AutoState]
    <2>1. auto[i] \in AutoState /\ [auto[i] EXCEPT !.timer = "none"] \in AutoState
      BY DEF IInv, Types, AutoState
    <2>2. Filled(i, [auto[i] EXCEPT !.timer = "none"], dials[i], inbounds[i], conns[i]) \in AutoState
      <3>1. conns[i] \in Nat
        BY GlareAssumption DEF IInv, Types, GlareAssumption
      <3> QED
        BY <2>1, <3>1, AutoTypes
    <2>3. CASE ReconnectTimer(i)
      BY <2>2, <2>3 DEF IInv, Types, ReconnectTimer
    <2>4. CASE CooldownEnds(i)
      BY <2>4 DEF IInv, Types, CooldownEnds, AutoState
    <2> QED
      BY <2>3, <2>4
  <1>3. Types'
    BY <1>1, <1>2 DEF IInv, Types
  <1>4. NoneSent /\ SeesMore /\ \A k \in Node : NoNewAnswer(k)
    BY <1>1, Calm
  <1>5. EndOK(i)'
    BY <1>1, <1>4, EndKept
  <1> QED
    BY <1>1, <1>3, <1>4, <1>5, QuietStep

LEMMA CloseStep ==
  ASSUME IInv, NEW i \in Node, Close(i)
  PROVE  IInv'
  <1> DEFINE j == Other(i)
             d == dials[i].id
             b == inbounds[i].id
             c == conns[i]
             gone == {d, b, c} \ {0}
  <1>1. /\ Types /\ UNCHANGED <<asked, initiator, answered, net, seen, stale, lostConns>>
        /\ faults' \subseteq FaultKind
    BY DEF IInv, Types, Close, Fault, FaultKind
  <1>2. NoneSent /\ SeesMore /\ \A k \in Node : NoNewAnswer(k)
    BY <1>1, Calm
  <1>3. d \in 0 .. MaxEvents /\ b \in 0 .. MaxEvents /\ c \in 0 .. MaxEvents
    BY EndFacts
  <1>4. /\ dials' \in [Node -> DialState] /\ dials'[i] = NoDial /\ dials'[j] = dials[j]
        /\ inbounds' \in [Node -> InboundState] /\ inbounds'[i] = NoInbound /\ inbounds'[j] = inbounds[j]
        /\ conns' \in [Node -> 0 .. MaxEvents] /\ conns'[i] = 0 /\ conns'[j] = conns[j]
    <2>1. NoDial \in DialState /\ NoInbound \in InboundState /\ 0 \in 0 .. MaxEvents
      BY GlareAssumption DEF NoDial, DialState, NoInbound, InboundState, GlareAssumption
    <2> QED
      BY <1>1, <2>1, Others DEF Types, Close
  <1>5. /\ pcs' \in [Negotiation -> [Node -> PcState]]
        /\ \A k \in Negotiation, l \in Node :
              pcs'[k][l] = IF k \in {d, b, c} /\ l = i THEN "closed" ELSE pcs[k][l]
    <2> DEFINE ps == Closed(pcs, d, i)
               qs == Closed(ps, b, i)
               rs == Closed(qs, c, i)
    <2>1. /\ ps \in [Negotiation -> [Node -> PcState]]
          /\ \A k \in Negotiation, l \in Node : ps[k][l] = IF k = d /\ l = i THEN "closed" ELSE pcs[k][l]
      <3>1. pcs \in [Negotiation -> [Node -> PcState]]
        BY <1>1 DEF Types
      <3> QED
        BY <1>3, <3>1, ClosedPcs
    <2> HIDE DEF ps
    <2>2. /\ qs \in [Negotiation -> [Node -> PcState]]
          /\ \A k \in Negotiation, l \in Node : qs[k][l] = IF k = b /\ l = i THEN "closed" ELSE ps[k][l]
      BY <1>3, <2>1, ClosedPcs
    <2> HIDE DEF qs
    <2>3. /\ rs \in [Negotiation -> [Node -> PcState]]
          /\ \A k \in Negotiation, l \in Node : rs[k][l] = IF k = c /\ l = i THEN "closed" ELSE qs[k][l]
      BY <1>3, <2>2, ClosedPcs
    <2>4. pcs' = rs
      BY DEF Close, ps, qs
    <2> HIDE DEF rs
    <2> QED
      BY <2>1, <2>2, <2>3, <2>4
  <1>6. auto' \in [Node -> AutoState]
    <2> DEFINE a == [auto[i] EXCEPT !.proven = FALSE]
    <2>1. a \in AutoState /\ 0 \in Nat
      BY <1>1 DEF Types, AutoState
    <2>2. PICK proven \in {FALSE, auto[i].proven} :
             auto' = [auto EXCEPT ![i] =
                         LET e == IF proven \/ a.timer # "none" THEN Scheduled(i, a) ELSE FailedAuto(i, a, FALSE)
                         IN IF dials[i] = NoDial THEN e ELSE DialLost(i, e, FALSE, 0)]
      BY DEF Close
    <2> HIDE DEF a
    <2> DEFINE e == IF proven \/ a.timer # "none" THEN Scheduled(i, a) ELSE FailedAuto(i, a, FALSE)
    <2>3. e \in AutoState
      BY <2>1, AutoTypes
    <2>4. auto' = [auto EXCEPT ![i] = IF dials[i] = NoDial THEN e ELSE DialLost(i, e, FALSE, 0)]
      BY <2>2
    <2> HIDE DEF e
    <2>5. DialLost(i, e, FALSE, 0) \in AutoState
      BY <2>1, <2>3, AutoTypes
    <2> QED
      BY <1>1, <2>3, <2>4, <2>5 DEF Types
  <1>7. Types'
    BY <1>1, <1>4, <1>5, <1>6 DEF Types
  <1>8. EndOK(i)'
    <2>1. gone \in SUBSET Negotiation
      BY <1>3, Negotiations
    <2>2. \A k \in gone : initiator[k] # 0
      <3>1. DialOK(i) /\ InboundOK(i) /\ ConnOK(i) /\ PcsOK(i)
        BY EndFacts
      <3>2. c # 0 => c \in Negotiation /\ c \in answered
        BY <3>1, <1>3, Negotiations DEF ConnOK
      <3>3. c # 0 => initiator[c] # 0
        BY <3>1, <3>2 DEF PcsOK
      <3>4. d # 0 => initiator[d] # 0
        BY <3>1, Others DEF DialOK
      <3>5. b # 0 => initiator[b] # 0
        BY <3>1, Others DEF InboundOK
      <3> QED
        BY <3>3, <3>4, <3>5
    <2>3. \A k \in Negotiation : pcs'[k][i] = IF k \in gone THEN "closed" ELSE pcs[k][i]
      BY <1>5, Negotiations
    <2>4. /\ dials'[i] # dials[i] => dials[i].id \in gone
          /\ inbounds[i].id # 0 => inbounds'[i] # inbounds[i] /\ inbounds[i].id \in gone
          /\ conns[i] # 0 => conns[i] \in gone
      BY <1>4, EndFacts
    <2> HIDE DEF gone
    <2>5. /\ dials'[i] \in {dials[i], NoDial} /\ inbounds'[i] \in {inbounds[i], NoInbound}
          /\ conns'[i] = 0 /\ lostConns' = lostConns /\ asked'[i] = asked[i] /\ NoNewAnswer(i)
      BY <1>1, <1>2, <1>4
    <2>6. /\ inbounds'[i] # inbounds[i] => inbounds[i].id \in gone
          /\ inbounds[i].id \in gone => inbounds'[i] # inbounds[i]
      <3>1. inbounds[i] # NoInbound <=> inbounds[i].id # 0
        BY EndFacts
      <3>2. inbounds[i].id \in gone => inbounds[i].id # 0
        BY <2>1, Negotiations
      <3> QED
        BY <2>4, <2>5, <3>1, <3>2
    <2> QED
      BY <1>1, <1>2, <2>1, <2>2, <2>3, <2>4, <2>5, <2>6, EndsGivenUp
  <1> QED
    BY <1>1, <1>2, <1>4, <1>5, <1>7, <1>8, QuietStep, Others

\* A restart forgets what was seen; nothing is on the way to the node any more, and no answer
\* from it but orphans.
LEMMA RestartStep ==
  ASSUME IInv, NEW i \in Node, Restart(i)
  PROVE  IInv'
  <1> DEFINE j == Other(i)
  <1>1. /\ Types /\ UNCHANGED <<initiator, answered, lostConns>> /\ faults' \subseteq FaultKind
        /\ j \in Node /\ j # i /\ Other(j) = i
    BY Others DEF IInv, Types, Restart, Fault, FaultKind
  <1> DEFINE left == [k \in DOMAIN net[j] |-> Orphaned(net[j][k])]
  <1>0. /\ left \in Seq(Signal)
        /\ \A m \in Members(left) : \E x \in OnWay(j) : x \in Signal /\ m = Orphaned(x)
    <2>1. net[j] \in Seq(Signal) /\ DOMAIN net[j] = 1 .. Len(net[j]) /\ Len(net[j]) \in Nat
      BY <1>1 DEF Types
    <2>2. \A k \in DOMAIN net[j] : net[j][k] \in Signal /\ Orphaned(net[j][k]) \in Signal
      BY <2>1, Keys
    <2>3. left \in [1 .. Len(net[j]) -> Signal]
      BY <2>1, <2>2
    <2>4. left \in Seq(Signal)
      BY <2>1, <2>3
    <2>5. DOMAIN left = DOMAIN net[j]
      OBVIOUS
    <2> QED
      BY <2>2, <2>4, <2>5 DEF Members, OnWay
  <1>2. /\ dials' \in [Node -> DialState] /\ dials'[i] = NoDial /\ dials'[j] = dials[j]
        /\ inbounds' \in [Node -> InboundState] /\ inbounds'[i] = NoInbound /\ inbounds'[j] = inbounds[j]
        /\ conns' \in [Node -> 0 .. MaxEvents] /\ conns'[i] = 0 /\ conns'[j] = conns[j]
    <2>1. NoDial \in DialState /\ NoInbound \in InboundState /\ 0 \in 0 .. MaxEvents
      BY GlareAssumption DEF NoDial, DialState, NoInbound, InboundState, GlareAssumption
    <2> QED
      BY <1>1, <2>1 DEF Types, Restart
  <1>3. /\ pcs' \in [Negotiation -> [Node -> PcState]]
        /\ \A k \in Negotiation : pcs'[k][i] = IF pcs[k][i] = "none" THEN "none" ELSE "closed"
        /\ \A k \in Negotiation : pcs'[k][j] = pcs[k][j]
    BY <1>1 DEF Types, Restart, PcState
  <1>4. /\ seen' \in [Node -> SUBSET Signal] /\ seen'[j] = seen[j]
        /\ net' \in [Node -> Seq(Signal)] /\ net'[i] = <<>> /\ net'[j] = left
        /\ stale' \in [Node -> BOOLEAN]
        /\ asked' \in [Node -> SUBSET Negotiation] /\ asked'[i] = {} /\ asked'[j] = asked[j]
    <2>1. seen' = [seen EXCEPT ![i] = {}] /\ net' = [net EXCEPT ![i] = <<>>, ![j] = left]
          /\ stale' = [stale EXCEPT ![j] = TRUE, ![i] = FALSE]
          /\ asked' = [asked EXCEPT ![i] = {}]
      BY DEF Restart
    <2>2. seen' \in [Node -> SUBSET Signal] /\ seen'[j] = seen[j]
      BY <2>1, <1>1 DEF Types
    <2>3. net' \in [Node -> Seq(Signal)] /\ net'[i] = <<>> /\ net'[j] = left
      <3>1. <<>> \in Seq(Signal)
        OBVIOUS
      <3> HIDE DEF left
      <3> QED
        BY <2>1, <3>1, <1>0, <1>1 DEF Types
    <2>4. stale' \in [Node -> BOOLEAN]
      BY <2>1, <1>1 DEF Types
    <2>5. asked' \in [Node -> SUBSET Negotiation] /\ asked'[i] = {} /\ asked'[j] = asked[j]
      BY <2>1, <1>1 DEF Types
    <2> QED
      BY <2>2, <2>3, <2>4, <2>5
  <1>5. auto' \in [Node -> AutoState]
    <2>1. Advertised(i) \in AutoState
      BY DEF Advertised, AutoState, DialsDiscovered
    <2> QED
      BY <1>1, <2>1 DEF Types, Restart
  <1>6. Types'
    BY <1>1, <1>2, <1>3, <1>4, <1>5 DEF Types
  <1>7. /\ OnWay(i)' = {}
        /\ \A m \in OnWay(j)' : /\ m.kind # "answer"
                                 /\ \E x \in OnWay(j) :
                                       m.id = x.id /\ (m.kind = "offer" <=> x.kind = "offer")
                                         /\ (m.kind = "offer" => m = x)
    <2>1. OnWay(i)' = {} /\ OnWay(j)' = Members(left)
      BY <1>4 DEF OnWay, Members
    <2> HIDE DEF left
    <2> QED
      BY <2>1, <1>0, Keys
  <1> HIDE DEF left
  <1>8. EndOK(i)'
    <2>1. NoDial.id = 0 /\ NoInbound.id = 0
      BY DEF NoDial, NoInbound
    <2>2. DialOK(i)' /\ InboundOK(i)' /\ ConnOK(i)'
      BY <1>2, <2>1 DEF DialOK, InboundOK, ConnOK
    <2>3. PcsOK(i)'
      BY <1>1, <1>3, EndFacts DEF PcsOK
    <2>4. AskedOK(i)'
      BY <1>4 DEF AskedOK
    <2> QED
      BY <2>2, <2>3, <2>4 DEF EndOK
  <1>9. EndOK(j)'
    <2>0. /\ InboundOK(j) /\ (inbounds[j].id # 0 => inbounds[j].id \in Negotiation)
          /\ ConnOK(j) /\ (conns[j] # 0 => conns[j] \in Negotiation)
      BY <1>1, EndFacts, Negotiations
    <2>1. DialOK(j)'
      BY <1>1, <1>2, <1>3, EndFacts, Negotiations DEF DialOK
    <2>2. InboundOK(j)'
      BY <1>1, <1>2, <1>3, <1>4, <1>7, <2>0 DEF InboundOK
    <2>3. ConnOK(j)'
      BY <1>1, <1>2, <1>3, <1>4, <2>0 DEF ConnOK
    <2>4. PcsOK(j)'
      BY <1>1, <1>2, <1>3, EndFacts DEF PcsOK
    <2>5. AskedOK(j)'
      BY <1>1, <1>2, <1>4, <1>7, EndFacts DEF AskedOK
    <2> QED
      BY <2>1, <2>2, <2>3, <2>4, <2>5 DEF EndOK
  <1>10. SignalsOK'
    <2>1. seen'[i] = {}
      BY <1>1 DEF Types, Restart
    <2>2. ASSUME NEW k \in Node, NEW m \in OnWay(k)' \cup seen'[k]
          PROVE  initiator'[m.id] = IF m.kind = "offer" THEN Other(k) ELSE k
      <3>1. k = j
        BY <2>1, <1>7, Others
      <3>2. \A x \in OnWay(j) \cup seen[j] : initiator[x.id] = IF x.kind = "offer" THEN i ELSE j
        BY <1>1 DEF IInv, SignalsOK
      <3>3. CASE m \in seen'[j]
        BY <3>1, <3>2, <3>3, <1>1, <1>4
      <3>4. CASE m \in OnWay(j)'
        <4>1. PICK x \in OnWay(j) : m.id = x.id /\ (m.kind = "offer" <=> x.kind = "offer")
          BY <3>4, <1>7
        <4> QED
          BY <3>1, <3>2, <4>1, <1>1
      <3> QED
        BY <3>1, <3>3, <3>4
    <2> QED
      BY <2>2 DEF SignalsOK
  <1>11. AnswersOK'
    <2>1. ASSUME NEW k \in Node, NEW n \in Negotiation
          PROVE  /\ n \in answered' /\ Offer(n) \in OnWay(k)' => Offer(n) \in seen'[k]
                 /\ Answer(n) \notin OnWay(k)'
      <3>1. CASE k = i
        BY <3>1, <1>7
      <3>2. CASE k = j
        <4>1. Offer(n) \in OnWay(j)' => Offer(n) \in OnWay(j)
          BY <1>7, Signals
        <4>2. Answer(n) \notin OnWay(j)'
          BY <1>7, Signals
        <4> QED
          BY <3>2, <4>1, <4>2, <1>1, <1>4 DEF IInv, AnswersOK
      <3> QED
        BY <3>1, <3>2, Others
    <2> QED
      BY <2>1, Others DEF AnswersOK
  <1> QED
    BY <1>6, <1>8, <1>9, <1>10, <1>11, Together

\* Signals are lost, late or repeated.
LEMMA NetStep ==
  ASSUME IInv, NEW i \in Node, Lose(i) \/ Overtake(i) \/ Repeat(i)
  PROVE  IInv'
  <1>1. /\ Types /\ faults' \subseteq FaultKind
        /\ UNCHANGED <<asked, dials, inbounds, conns, pcs, initiator, answered, seen, auto, stale, lostConns>>
    BY DEF IInv, Types, Lose, Overtake, Repeat, Fault, FaultKind
  <1>2. net[i] \in Seq(Signal) /\ SeesMore
    BY <1>1 DEF Types, SeesMore
  <1>3. ASSUME NEW s \in Seq(Signal), net' = [net EXCEPT ![i] = s]
        PROVE  /\ Types' /\ OnWay(i)' = Members(s)
               /\ \A k \in Node : k # i => OnWay(k)' = OnWay(k)
    <2>1. net' \in [Node -> Seq(Signal)]
      BY <1>1, <1>3 DEF Types
    <2> QED
      BY <1>1, <1>3, <2>1 DEF Types, OnWay
  <1>4. ASSUME NEW s \in Seq(Signal), net' = [net EXCEPT ![i] = s], Members(s) \subseteq Members(net[i])
        PROVE  IInv'
    <2>1. NoneSent /\ Types'
      BY <1>3, <1>4 DEF NoneSent, OnWay
    <2>2. EndOK(i)'
      BY <1>1, <1>2, <2>1, NoAnswer, EndKept
    <2> QED
      BY <1>1, <1>2, <2>1, <2>2, QuietStep
  <1>5. CASE Lose(i)
    <2>1. net[i] # <<>> /\ net' = [net EXCEPT ![i] = Tail(net[i])]
      BY <1>5 DEF Lose
    <2>2. Tail(net[i]) \in Seq(Signal) /\ Members(Tail(net[i])) \subseteq Members(net[i])
      BY <1>2, <2>1, MembersTail
    <2> QED
      BY <1>4, <2>1, <2>2
  <1>6. CASE Overtake(i)
    <2> DEFINE s == <<net[i][2], net[i][1]>> \o SubSeq(net[i], 3, Len(net[i]))
    <2>1. Len(net[i]) >= 2 /\ net' = [net EXCEPT ![i] = s]
      BY <1>6 DEF Overtake
    <2>2. s \in Seq(Signal) /\ Members(s) \subseteq Members(net[i])
      BY <1>2, <2>1, MembersOvertaken
    <2> HIDE DEF s
    <2> QED
      BY <1>4, <2>1, <2>2
  <1>7. CASE Repeat(i)
    <2>1. PICK m \in seen[i] : net' = [net EXCEPT ![i] = Append(net[i], m)]
      BY <1>7 DEF Repeat
    <2>2. m \in Signal
      BY <1>1 DEF Types
    <2>3. /\ Append(net[i], m) \in Seq(Signal)
          /\ Members(Append(net[i], m)) \subseteq Members(net[i]) \cup {m}
      BY <1>2, <2>2, MembersAppend
    <2>4. Types' /\ \A k \in Node : \A x \in OnWay(k)' : x \in OnWay(k) \/ x \in seen[k]
      BY <1>3, <2>1, <2>3 DEF OnWay
    <2>5. ASSUME NEW k \in Node PROVE EndOK(k)'
      <3>1. DialOK(k)' /\ ConnOK(k)' /\ PcsOK(k)'
        BY <1>1, EndFacts DEF DialOK, ConnOK, PcsOK
      <3>2. InboundOK(k)' /\ AskedOK(k)'
        BY <1>1, <2>4, EndFacts, Others DEF InboundOK, AskedOK
      <3> QED
        BY <3>1, <3>2 DEF EndOK
    <2>6. SignalsOK'
      BY <1>1, <2>4 DEF IInv, SignalsOK
    <2>7. AnswersOK'
      BY <1>1, <2>4, Others DEF IInv, AnswersOK
    <2> QED
      BY <2>4, <2>5, <2>6, <2>7 DEF IInv
  <1> QED
    BY <1>5, <1>6, <1>7

-----------------------------------------------------------------------------
(* The theorem                                                             *)

LEMMA Initially == Init => IInv
  <1> SUFFICES ASSUME Init PROVE IInv
    OBVIOUS
  <1>1. NoDial \in DialState /\ NoInbound \in InboundState /\ 0 \in 0 .. MaxEvents
    BY GlareAssumption DEF NoDial, DialState, NoInbound, InboundState, GlareAssumption
  <1>2. NoDial.id = 0 /\ NoInbound.id = 0
    BY DEF NoDial, NoInbound
  <1>3. \A i \in Node : Advertised(i) \in AutoState
    BY DEF Advertised, AutoState, DialsDiscovered
  <1>4. Types
    BY <1>1, <1>3 DEF Init, Types, PcState
  <1>5. ASSUME NEW i \in Node PROVE EndOK(i)
    BY <1>2 DEF Init, EndOK, DialOK, InboundOK, AskedOK, ConnOK, PcsOK
  <1>6. \A i \in Node : OnWay(i) = {} /\ seen[i] = {}
    BY DEF Init, OnWay, Members
  <1>7. SignalsOK /\ AnswersOK
    BY <1>6, Others DEF SignalsOK, AnswersOK, Init
  <1> QED
    BY <1>4, <1>5, <1>7 DEF IInv

LEMMA Preserved == IInv /\ [Next]_vars => IInv'
  <1> SUFFICES ASSUME IInv, [Next]_vars PROVE IInv'
    OBVIOUS
  <1>1. CASE UNCHANGED vars
    BY <1>1 DEF vars, IInv, Types, EndOK, DialOK, InboundOK, AskedOK, ConnOK, PcsOK, SignalsOK, AnswersOK, OnWay
  <1>2. ASSUME NEW i \in Node, Deliver(i) PROVE IInv'
    <2> DEFINE m == Head(net[i])
    <2>1. m \in Signal
      BY <1>2, MembersTail DEF Deliver, IInv, Types
    <2>2. \/ Duplicate(i, m) \/ RejectUnsolicited(i, m) \/ AskAboutOffer(i, m)
          \/ RejectOffer(i, m) \/ AcceptOffer(i, m)
          \/ ReceiveAnswer(i, m) \/ ReceiveReject(i, m)
      BY <1>2 DEF Deliver
    <2> HIDE DEF m
    <2> QED
      BY <2>1, <2>2, DuplicateStep, AskStep, RejectOfferStep, AcceptOfferStep, ReceiveAnswerStep,
         ReceiveRejectStep
  <1>3. ASSUME NEW i \in Node, Lose(i) \/ Overtake(i) \/ Repeat(i) PROVE IInv'
    BY <1>3, NetStep
  <1>4. ASSUME NEW i \in Node, Connect(i) \/ ConnectAgain(i) \/ SendOffer(i) \/ OfferSent(i) PROVE IInv'
    BY <1>4, ConnectStep, ConnectAgainStep, SendOfferStep, OfferSentStep DEF Connect
  <1>5. ASSUME NEW i \in Node, ResendFails(i) \/ DialFails(i) \/ DialTimeout(i) PROVE IInv'
    BY <1>5, ResendFailsStep, DialFailsStep
  <1>6. ASSUME NEW i \in Node, SendAnswer(i) \/ AnswerFails(i) \/ InboundTimeout(i) PROVE IInv'
    BY <1>6, SendAnswerStep, InboundEndsStep
  <1>11. ASSUME NEW i \in Node, NEW n \in Negotiation,
                Admit(i, n) \/ AdmitTooLate(i, n) \/ Deny(i, n) \/ AskingFails(i, n)
         PROVE  IInv'
    BY <1>11, AdmitStep, NotAdmittedStep
  <1>7. ASSUME NEW i \in Node, NEW n \in Negotiation, OutboundUp(i, n) \/ InboundUp(i, n) PROVE IInv'
    BY <1>7, OutboundUpStep, InboundUpStep
  <1>8. ASSUME NEW i \in Node, NEW n \in Negotiation, PeerGone(i, n) \/ PathBreaks(i, n) PROVE IInv'
    <2>1. n \in answered /\ DownEvent(i, n) /\ UNCHANGED timedOut
      BY <1>8 DEF PeerGone, PathBreaks, Fault
    <2>2. faults' \subseteq FaultKind
      BY <1>8 DEF IInv, Types, PeerGone, PathBreaks, Fault, FaultKind
    <2> QED
      BY <2>1, <2>2, DownStep
  <1>9. ASSUME NEW i \in Node, ReconnectTimer(i) \/ CooldownEnds(i) PROVE IInv'
    BY <1>9, TimerStep
  <1>10. ASSUME NEW i \in Node, Close(i) \/ Restart(i) \/ SessionEstablished(i) PROVE IInv'
    BY <1>10, CloseStep, RestartStep, SessionEstablishedStep
  <1> QED
    BY <1>1, <1>2, <1>3, <1>4, <1>5, <1>6, <1>7, <1>8, <1>9, <1>10, <1>11 DEF Next

\* When nothing is under way an RTCPeerConnection of an answered negotiation is used by both
\* ends or by none: the one that node i uses is live at its peer too, is not open there, since
\* nothing is pending, so is up and used.
LEMMA Agreement == IInv => GlareInv
  <1> SUFFICES ASSUME IInv PROVE GlareInv
    OBVIOUS
  <1>1. TypeOK
    <2>1. \A i \in Node : inbounds[i] # NoInbound =>
              pcs[inbounds[i].id][i] \in (IF inbounds[i].sent THEN {"open", "closed"} ELSE {"open"})
      BY EndFacts DEF InboundOK
    <2> QED
      BY <2>1 DEF IInv, Types, TypeOK, DialState, InboundState, PcState, AutoState
  <1>2. ASSUME NEW i \in Node, Quiet, lostConns = {}, conns[i] # 0
        PROVE  conns[Other(i)] = conns[i]
    <2> DEFINE j == Other(i)
               n == conns[i]
    <2>1. n \in Negotiation /\ n \in answered /\ pcs[n][i] = "up"
      BY <1>2, EndFacts, Negotiations DEF ConnOK
    <2>2. j \in Node /\ Live(n, j)
      BY <1>2, <2>1, Others DEF Quiet, Live
    <2>3. dials[j].id = 0 /\ inbounds[j].id = 0
      BY <1>2, <2>2 DEF Quiet, NoDial, NoInbound
    <2>4. PcsOK(j)
      BY <2>2, EndFacts
    <2>5. n # 0
      BY <1>2
    <2> HIDE DEF j, n
    <2>6. pcs[n][j] = "up"
      BY <2>1, <2>2, <2>3, <2>4, <2>5 DEF Live, PcsOK
    <2>7. conns[j] = n
      BY <1>2, <2>1, <2>4, <2>6 DEF PcsOK
    <2> QED
      BY <2>7 DEF j, n
  <1>3. BothEndsAgree
    <2>1. 1 \in Node /\ 2 \in Node /\ Other(1) = 2 /\ Other(2) = 1
      BY DEF Node, Other
    <2> QED
      BY <1>2, <2>1 DEF BothEndsAgree
  <1> QED
    BY <1>1, <1>3 DEF GlareInv

\* For every bound on dials and faults and every configuration of the two nodes: each inbound
\* negotiation has its RTCPeerConnection, open until its answer is sent, and when no dial, inbound negotiation or signal
\* is under way both nodes use the same connection or none (handleIncomingOffer's tie-break,
\* its replacement of the connection it had, close() and the deadlines), unless a connection
\* was lost from the map of one end.
THEOREM GlareHolds == Spec => []GlareInv
  <1>1. Init => IInv
    BY Initially
  <1>2. IInv /\ [Next]_vars => IInv'
    BY Preserved
  <1>3. IInv => GlareInv
    BY Agreement
  <1> QED
    BY <1>1, <1>2, <1>3, PTL DEF Spec
=============================================================================
