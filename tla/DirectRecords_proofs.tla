------------------------ MODULE DirectRecords_proofs ------------------------
(***************************************************************************)
(* The direct path drives the replay window as ReplayReceiver says: what   *)
(* is proved of the window holds of records that are cut, repeated,        *)
(* delayed and put together again, for every window, limit and length.     *)
(* The reassembler keeps its limit, hands up whole records only, and every *)
(* record that has arrived is opened.                                      *)
(***************************************************************************)
EXTENDS DirectRecords, FiniteSetTheorems, WellFoundedInduction, TLAPS

----------------------------------------------------------------------------
(* The replay window itself: for every size, the slot array is exactly as  *)
(* good as remembering every counter ever accepted.                        *)

\* Two counters less than WINDOW apart that share a slot are the same counter.
LEMMA SameSlotSameCounter ==
    ASSUME NEW W \in Nat \ {0}, NEW a \in Nat, NEW b \in Nat,
           a % W = b % W, a - b < W, b - a < W
    PROVE  a = b
  <1> DEFINE x == a \div W
             y == b \div W
  <1>1. /\ a = W * x + (a % W)
        /\ b = W * y + (b % W)
        /\ x \in Int
        /\ y \in Int
    OBVIOUS
  <1> HIDE DEF x, y
  <1>2. a - b = W * (x - y)
    BY <1>1
  <1>3. x - y < 1 /\ x - y > -1
    BY <1>1, <1>2
  <1> QED
    BY <1>1, <1>2, <1>3

\* A residue modulo WINDOW is a slot index.
LEMMA ResidueIsSlot ==
    ASSUME NEW c \in Nat
    PROVE  c % WINDOW \in 0 .. WINDOW - 1
  BY WindowAssumption

\* What the induction carries: types and the slot discipline.
Inv == TypeOK /\ SlotsTrackHistory

\* The empty window tracks the empty history.
LEMMA EmptyWindowTracks ==
    ASSUME win = EmptyWindow, accepted = {}
    PROVE  Inv
  <1>1. TypeOK
    BY WindowAssumption DEF TypeOK, EmptyWindow, Window, Acceptable, Counter, Undefined
  <1>2. SlotsTrackHistory
    BY DEF SlotsTrackHistory, EmptyWindow, Undefined
  <1> QED
    BY <1>1, <1>2 DEF Inv

\* Accepting a counter that passes check keeps the slots in step with the history.
LEMMA ReceiveTracks ==
    ASSUME Inv, NEW c \in Counter, Receive(c)
    PROVE  Inv'
  <1> DEFINE s == c % WINDOW
  <1>1. /\ c \in Nat
        /\ s \in 0 .. WINDOW - 1
        /\ win \in Window
        /\ accepted \subseteq Acceptable
        /\ WINDOW \in Nat \ {0}
    BY WindowAssumption, ResidueIsSlot DEF Acceptable, Counter, Inv, TypeOK
  <1>2. /\ win'.high = IF c > win.high THEN c ELSE win.high
        /\ win'.seen = [win.seen EXCEPT ![s] = c]
        /\ win' = [high |-> win'.high, seen |-> win'.seen]
        /\ accepted' = accepted \cup {c}
        /\ c < Exhausted
        /\ win.high - c < WINDOW
    BY DEF Receive, Accept, Check
  <1>3. win.high \in Int /\ win'.high \in {-1} \cup Acceptable /\ win'.high \in Int
    BY <1>1, <1>2, WindowAssumption DEF Window, Acceptable, Counter
  <1>a. c \in Acceptable
    BY <1>1, <1>2 DEF Acceptable
  <1>4. /\ win'.seen \in [0 .. WINDOW - 1 -> {Undefined} \cup Acceptable]
        /\ win'.seen[s] = c
        /\ \A i \in 0 .. WINDOW - 1 : i # s => win'.seen[i] = win.seen[i]
    BY <1>1, <1>2, <1>a DEF Window
  <1>5. TypeOK'
    BY <1>1, <1>2, <1>3, <1>4, <1>a DEF TypeOK, Window
  <1>6. \A d \in accepted' : d <= win'.high
    BY <1>1, <1>2, <1>3 DEF Inv, SlotsTrackHistory, Acceptable, Counter
  <1>7. win'.high # -1 => win'.high \in accepted'
    BY <1>1, <1>2, <1>3 DEF Inv, SlotsTrackHistory
  <1>8. \A i \in 0 .. WINDOW - 1 :
           win'.seen[i] # Undefined => win'.seen[i] \in accepted' /\ win'.seen[i] % WINDOW = i
    BY <1>1, <1>2, <1>4 DEF Inv, SlotsTrackHistory
  <1>9. ASSUME NEW d \in accepted', win'.high - d < WINDOW
        PROVE  win'.seen[d % WINDOW] = d
    <2>1. CASE d = c
      BY <2>1, <1>4
    <2>2. CASE d # c
      <3>1. d \in accepted /\ d \in Nat /\ d % WINDOW \in 0 .. WINDOW - 1
        BY <2>2, <1>1, <1>2, ResidueIsSlot DEF Acceptable, Counter
      <3>2. win.seen[d % WINDOW] = d
        BY <3>1, <1>1, <1>2, <1>3, <1>9 DEF Inv, SlotsTrackHistory
      <3>3. d <= win'.high
        BY <1>6
      \* d and c lie in the new window together, so they cannot share a slot.
      <3>4. d - c < WINDOW /\ c - d < WINDOW
        BY <3>1, <1>1, <1>2, <1>3, <1>9 DEF Inv, SlotsTrackHistory
      <3>5. d % WINDOW # s
        BY <3>1, <3>4, <2>2, <1>1, SameSlotSameCounter
      <3> QED
        BY <3>1, <3>2, <3>5, <1>4
    <2> QED
      BY <2>1, <2>2
  <1> QED
    BY <1>5, <1>6, <1>7, <1>8, <1>9 DEF Inv, SlotsTrackHistory

\* The slot discipline holds in every reachable state.
THEOREM InvHolds == Spec => []Inv
  <1>1. Init => Inv
    BY EmptyWindowTracks DEF Init
  <1>2. Inv /\ [Next]_vars => Inv'
    <2> SUFFICES ASSUME Inv, [Next]_vars
                 PROVE  Inv'
      OBVIOUS
    <2>1. ASSUME NEW c \in Counter, Receive(c)
          PROVE  Inv'
      BY <2>1, ReceiveTracks
    <2>2. CASE Reset
      <3>1. win' = EmptyWindow /\ accepted' = {}
        BY <2>2 DEF Reset
      <3>2. TypeOK'
        BY <3>1, WindowAssumption DEF TypeOK, EmptyWindow, Window, Acceptable, Counter, Undefined
      <3>3. SlotsTrackHistory'
        BY <3>1 DEF SlotsTrackHistory, EmptyWindow, Undefined
      <3> QED
        BY <3>2, <3>3 DEF Inv
    <2>3. CASE UNCHANGED vars
      BY <2>3 DEF Inv, TypeOK, SlotsTrackHistory, vars
    <2> QED
      BY <2>1, <2>2, <2>3 DEF Next
  <1> QED
    BY <1>1, <1>2, PTL DEF Spec

\* No counter is accepted twice by one window, for every window size: what
\* decryptIncoming of FMP links and FSP sessions relies on to drop replays.
THEOREM NeverReplayed == Spec => []NoReplay
  <1>1. Inv => NoReplay
    <2> SUFFICES ASSUME Inv, NEW c \in accepted, Check(win, c)
                 PROVE  FALSE
      BY DEF NoReplay
    <2> QED
      BY DEF Inv, SlotsTrackHistory, Check
  <1> QED
    BY <1>1, InvHolds, PTL

\* A counter inside the window that was not yet accepted is never refused, for
\* every window size: a stale slot cannot be mistaken for a duplicate.
THEOREM NeverFalselyRefused == Spec => []NoFalseRefusal
  <1>1. Inv => NoFalseRefusal
    <2> SUFFICES ASSUME Inv, NEW c \in Counter \ (accepted \cup {Exhausted}),
                        win.high - c < WINDOW
                 PROVE  Check(win, c)
      BY DEF NoFalseRefusal
    <2>1. c \in Nat /\ c < Exhausted /\ c % WINDOW \in 0 .. WINDOW - 1
      BY WindowAssumption, ResidueIsSlot DEF Counter
    <2>2. win.seen[c % WINDOW] # c
      BY <2>1 DEF Inv, SlotsTrackHistory, Undefined
    <2> QED
      BY <2>1, <2>2 DEF Check
  <1> QED
    BY <1>1, InvHolds, PTL

\* The window implements its promise, for every window size: each step of the
\* receiver takes a counter as ReplayHistory allows, or forgets them all.
THEOREM WindowKeepsPromise == Spec => KeepsPromise
  <1>1. Init => Promise!Init
    BY DEF Init, Promise!Init
  <1>2. Inv /\ [Next]_vars => [Promise!Next]_(Promise!vars)
    <2> SUFFICES ASSUME Inv, [Next]_vars
                 PROVE  Promise!Next \/ UNCHANGED Promise!vars
      OBVIOUS
    <2>1. ASSUME NEW c \in Counter, Receive(c)
          PROVE  Promise!Next
      <3>1. c \in 0 .. Exhausted - 1
        BY <2>1, WindowAssumption DEF Receive, Check, Counter
      <3>2. c \notin accepted
        BY <2>1 DEF Receive, Check, Inv, SlotsTrackHistory
      <3>3. \A a \in accepted : a - c < WINDOW
        <4> SUFFICES ASSUME NEW a \in accepted
                     PROVE  a - c < WINDOW
          OBVIOUS
        <4>1. a \in Int /\ win.high \in Int /\ a <= win.high
          BY WindowAssumption DEF Inv, TypeOK, SlotsTrackHistory, Window, Acceptable, Counter
        <4> QED
          BY <2>1, <3>1, <4>1, WindowAssumption DEF Receive, Check
      <3>4. Promise!Take(c)
        BY <2>1, <3>2, <3>3 DEF Receive, Promise!Take
      <3> QED
        BY <3>1, <3>4 DEF Promise!Next
    <2>2. CASE Reset
      BY <2>2 DEF Reset, Promise!Next, Promise!Forget
    <2>3. CASE UNCHANGED vars
      BY <2>3 DEF vars, Promise!vars
    <2> QED
      BY <2>1, <2>2, <2>3 DEF Next
  <1> QED
    BY <1>1, <1>2, InvHolds, PTL DEF Spec, KeepsPromise, Promise!Spec

----------------------------------------------------------------------------
(* The direct path.                                                        *)

\* Every packet carries a counter its session has used.
NetOK == next \in 0 .. Exhausted /\ \A f \in net : f.ctr \in 0 .. Exhausted - 1

LEMMA NewLifeKeepsNet ==
  ASSUME NetOK, NewLife, UNCHANGED net
  PROVE  NetOK'
  BY WindowAssumption DEF NetOK, NewLife

LEMMA SendKeepsNet ==
  ASSUME NetOK, NEW len \in Length, NEW mtu \in Mtu, Send(len, mtu)
  PROVE  NetOK'
  <1>1. next \in 0 .. Exhausted - 1 /\ next' = next + 1 /\ next' \in 0 .. Exhausted
    BY WindowAssumption DEF NetOK, Send
  <1>2. \A f \in Whole(next, len) : f.ctr = next
    BY DEF Whole
  <1>3. \A f \in Fragments(next, len, mtu) : f.ctr = next
    <2>1. \A i : Fragment(next, len, mtu, i).ctr = next
      BY DEF Fragment
    <2> QED
      BY <2>1 DEF Fragments
  <1>4. \A f \in net' : f \in net \/ f.ctr = next
    BY <1>2, <1>3 DEF Send
  <1> QED
    BY <1>1, <1>4 DEF NetOK

LEMMA NetAlwaysOK == DirectSpec => []NetOK
  <1>1. DirectInit => NetOK
    BY WindowAssumption DEF DirectInit, NetOK
  <1>2. NetOK /\ [DirectNext]_directVars => NetOK'
    <2> SUFFICES ASSUME NetOK, [DirectNext]_directVars
                 PROVE  NetOK'
      OBVIOUS
    <2>1. ASSUME NEW len \in Length, NEW mtu \in Mtu, Send(len, mtu)
          PROVE  NetOK'
      BY <2>1, SendKeepsNet
    <2>2. ASSUME NEW f \in net, Ingest(f) \/ ReceiveWhole(f)
          PROVE  NetOK'
      BY <2>2 DEF NetOK, Ingest, ReceiveWhole
    <2>3. CASE SenderRestarts \/ ReceiverRestarts
      BY <2>3, NewLifeKeepsNet DEF SenderRestarts, ReceiverRestarts
    <2>4. CASE Tick \/ UNCHANGED directVars
      BY <2>4 DEF NetOK, Tick, directVars
    <2> QED
      BY <2>1, <2>2, <2>3, <2>4 DEF DirectNext
  <1> QED
    BY <1>1, <1>2, PTL DEF DirectSpec

LEMMA OpenReceives ==
  ASSUME NetOK, NEW f \in net, NEW parts, Open(f.ctr, parts)
  PROVE  [Next]_vars
  <1>1. f.ctr \in Counter
    BY WindowAssumption DEF NetOK, Counter
  <1>2. Receive(f.ctr) \/ UNCHANGED vars
    BY DEF Open, vars
  <1> QED
    BY <1>1, <1>2 DEF Next

\* Every step of the direct path is a step of ReplayReceiver or leaves the window
\* alone, whatever fragments arrive (processTransportPacket, ingest, decryptIncoming).
THEOREM DirectDrivesWindow == DirectSpec => Spec
  <1>1. DirectInit => Init
    BY DEF DirectInit
  <1>2. NetOK /\ [DirectNext]_directVars => [Next]_vars
    <2> SUFFICES ASSUME NetOK, [DirectNext]_directVars
                 PROVE  [Next]_vars
      OBVIOUS
    <2>1. ASSUME NEW len \in Length, NEW mtu \in Mtu, Send(len, mtu)
          PROVE  [Next]_vars
      BY <2>1 DEF Send, vars
    <2>2. ASSUME NEW f \in net, Ingest(f)
          PROVE  [Next]_vars
      <3>1. (\E parts : Open(f.ctr, parts)) \/ UNCHANGED vars
        BY <2>2 DEF Ingest, vars
      <3> QED
        BY <3>1, OpenReceives
    <2>3. ASSUME NEW f \in net, ReceiveWhole(f)
          PROVE  [Next]_vars
      BY <2>3, OpenReceives DEF ReceiveWhole
    <2>4. CASE SenderRestarts \/ ReceiverRestarts
      BY <2>4 DEF SenderRestarts, ReceiverRestarts, NewLife, Next
    <2>5. CASE Tick \/ UNCHANGED directVars
      BY <2>5 DEF Tick, directVars, vars
    <2> QED
      BY <2>1, <2>2, <2>3, <2>4, <2>5 DEF DirectNext
  <1> QED
    BY <1>1, <1>2, NetAlwaysOK, PTL DEF DirectSpec, Spec

\* A record that is cut, repeated, delayed or put together twice is opened at most
\* once, and only while its counter is in the window, for every value of the limits.
THEOREM DirectKeepsPromise == DirectSpec => KeepsPromise
  BY DirectDrivesWindow, WindowKeepsPromise, PTL
-----------------------------------------------------------------------------
(* The reassembler                                                         *)

\* The packets of one record.
Group(nt, f) == {g \in nt : g.life = f.life /\ g.ctr = f.ctr}

\* A counter is used once in a life, and the packets of a record are no more than it
\* counts: a reassembly that has as many has them all.
RecordsOK(nt) ==
    \A f \in nt :
        /\ f.life \in 1 .. life /\ (f.life = life => f.ctr < next)
        /\ f.total \in Nat /\ f.count \in Nat /\ f.index \in Nat /\ f.index < f.count
        /\ IsFiniteSet(Group(nt, f)) /\ Cardinality(Group(nt, f)) <= f.count

EntryOK(e, c, nt) ==
    /\ e \in [born : Nat, total : Nat, count : Nat, parts : SUBSET nt]
    /\ e.parts # {} /\ ~(Bytes(e.parts) > e.total) /\ ~Complete(e)
    /\ \A f \in e.parts : f.ctr = c /\ f.count = e.count

EntriesOK(es, nt) ==
    /\ IsFiniteSet(DOMAIN es) /\ Cardinality(DOMAIN es) <= MaxEntries
    /\ \A c \in DOMAIN es : EntryOK(es[c], c, nt)

Reassembly ==
    /\ NetOK /\ life \in Nat \ {0} /\ now \in Nat
    /\ RecordsOK(net)
    /\ EntriesOK(entries, net)
    /\ HandedAsSent

LEMMA FragmentsFew ==
  ASSUME NEW c, NEW len \in Nat, NEW mtu \in Nat, Segmentable(len, mtu)
  PROVE  /\ IsFiniteSet(Fragments(c, len, mtu))
         /\ \A f \in Fragments(c, len, mtu) :
                /\ f.life = life /\ f.ctr = c /\ f.total = len
                /\ f.count \in Nat /\ f.index \in Nat /\ f.index < f.count
                /\ Cardinality(Fragments(c, len, mtu)) <= f.count
  <1> DEFINE n == FragmentCount(len, mtu)
             S == 0 .. n - 1
             T == Fragments(c, len, mtu)
             F == [i \in S |-> Fragment(c, len, mtu, i)]
  <1>1. n \in Nat /\ n > 1
    BY DirectAssumption DEF Segmentable
  <1>2. \A i \in S : /\ F[i].life = life /\ F[i].ctr = c /\ F[i].total = len
                     /\ F[i].count = n /\ F[i].index = i
    BY DEF Fragment
  <1>3. T = {F[i] : i \in S}
    BY DEF Fragments
  <1> HIDE DEF n, F, T
  <1>4. IsFiniteSet(S) /\ Cardinality(S) = n
    BY <1>1, FS_Interval
  <1>5. F \in Surjection(S, T)
    <2>1. F \in [S -> T]
      BY <1>3 DEF F
    <2>2. \A t \in T : \E i \in S : F[i] = t
      BY <1>3
    <2> QED
      BY <2>1, <2>2 DEF Surjection
  <1>6. IsFiniteSet(T) /\ Cardinality(T) <= n
    <2>1. IsFiniteSet(T) /\ Cardinality(T) <= Cardinality(S)
      <3> HIDE DEF S
      <3> QED
        BY <1>4, <1>5, FS_Surjection
    <2> QED
      BY <2>1, <1>4
  <1>7. \A f \in T : /\ f.life = life /\ f.ctr = c /\ f.total = len
                     /\ f.count = n /\ f.index \in S
    BY <1>2, <1>3
  <1> QED
    BY <1>1, <1>6, <1>7 DEF T

\* sendDirectFsp uses a counter once, so the packets of earlier records stay the same.
LEMMA SendKeepsRecords ==
  ASSUME Reassembly, NEW len \in Length, NEW mtu \in Mtu, Send(len, mtu)
  PROVE  Reassembly'
  <1> DEFINE new == net' \ net
             sent == IF len <= mtu THEN Whole(next, len)
                     ELSE IF Segmentable(len, mtu) THEN Fragments(next, len, mtu)
                     ELSE {}
  <1>1. len \in Nat /\ mtu \in Nat /\ len > 0
    BY DirectAssumption
  <1>2. next \in Nat /\ next' = next + 1 /\ life' = life /\ life \in Nat \ {0} /\ now' = now
    BY WindowAssumption DEF Reassembly, NetOK, Send
  <1>3. /\ IsFiniteSet(sent)
        /\ \A f \in sent :
              /\ f.life = life /\ f.ctr = next /\ f.total = len
              /\ f.count \in Nat /\ f.index \in Nat /\ f.index < f.count
              /\ Cardinality(sent) <= f.count
    <2>1. CASE len <= mtu
      <3> DEFINE w == [life |-> life, ctr |-> next, total |-> len, count |-> 1,
                       index |-> 0, bytes |-> len]
      <3>1. sent = {w}
        BY <2>1 DEF Whole
      <3>2. IsFiniteSet(sent) /\ Cardinality(sent) = 1
        BY <3>1, FS_Singleton
      <3> QED
        BY <3>1, <3>2
    <2>2. CASE ~(len <= mtu) /\ Segmentable(len, mtu)
      <3>1. sent = Fragments(next, len, mtu)
        BY <2>2
      <3> QED
        BY <2>2, <3>1, <1>1, FragmentsFew
    <2>3. CASE ~(len <= mtu) /\ ~Segmentable(len, mtu)
      <3>1. sent = {}
        BY <2>3
      <3> QED
        BY <3>1, FS_EmptySet
    <2> QED
      BY <2>1, <2>2, <2>3
  <1>4. net' = net \cup sent /\ entries' = entries /\ handed' = handed
    BY DEF Send
  <1> HIDE DEF sent
  <1>5. \A f \in net : /\ f.life \in 1 .. life /\ (f.life = life => f.ctr < next)
                       /\ f.ctr \in Nat
    BY WindowAssumption DEF Reassembly, RecordsOK, NetOK
  <1>6. \A f \in net : Group(net', f) = Group(net, f)
    BY <1>2, <1>3, <1>4, <1>5 DEF Group
  <1>7. \A f \in sent : Group(net', f) = sent
    BY <1>2, <1>3, <1>4, <1>5 DEF Group
  <1>8. RecordsOK(net)'
    <2> SUFFICES ASSUME NEW f \in net'
                 PROVE  /\ f.life \in 1 .. life' /\ (f.life = life' => f.ctr < next')
                        /\ f.total \in Nat /\ f.count \in Nat /\ f.index \in Nat
                        /\ f.index < f.count
                        /\ IsFiniteSet(Group(net', f))
                        /\ Cardinality(Group(net', f)) <= f.count
      BY DEF RecordsOK, Group
    <2>1. CASE f \in net
      BY <2>1, <1>2, <1>5, <1>6 DEF Reassembly, RecordsOK
    <2>2. CASE f \in sent
      BY <2>2, <1>1, <1>2, <1>3, <1>7
    <2> QED
      BY <2>1, <2>2, <1>4
  <1>9. EntriesOK(entries, net)'
    <2>1. ASSUME NEW c \in DOMAIN entries PROVE EntryOK(entries[c], c, net')
      <3>1. EntryOK(entries[c], c, net)
        BY DEF Reassembly, EntriesOK
      <3> DEFINE e == entries[c]
      <3>2. e \in [born : Nat, total : Nat, count : Nat, parts : SUBSET net']
        <4>1. SUBSET net \subseteq SUBSET net'
          BY <1>4
        <4> QED
          BY <3>1, <4>1 DEF EntryOK
      <3> QED
        BY <3>1, <3>2 DEF EntryOK
    <2> QED
      BY <1>4, <2>1 DEF Reassembly, EntriesOK
  <1>10. HandedAsSent'
    <2> SUFFICES ASSUME life = 1, NEW parts \in handed
                 PROVE  \E f \in net' : parts = Group(net', f)
      BY <1>2, <1>4 DEF HandedAsSent, SentAsRecord, Group
    <2>1. PICK f \in net : parts = Group(net, f)
      BY DEF Reassembly, HandedAsSent, SentAsRecord, Group
    <2> QED
      BY <1>4, <1>6, <2>1
  <1> QED
    BY <1>2, <1>8, <1>9, <1>10, SendKeepsNet DEF Reassembly

\* The limit: reserveEntry makes room for the entry that ingest then sets.
LEMMA RoomIsMade ==
  ASSUME EntriesOK(entries, net), NEW f \in net, NEW kept \in Kept(f)
  PROVE  /\ kept \subseteq DOMAIN entries
         /\ IsFiniteSet(kept \cup {f.ctr}) /\ Cardinality(kept \cup {f.ctr}) <= MaxEntries
         /\ IsFiniteSet(kept \ {f.ctr}) /\ Cardinality(kept \ {f.ctr}) <= MaxEntries
  <1>1. MaxEntries \in Nat \ {0}
    BY DirectAssumption
  <1>2. Live \subseteq DOMAIN entries
    BY DEF Live
  <1>3. IsFiniteSet(Live) /\ Cardinality(Live) <= MaxEntries /\ Cardinality(Live) \in Nat
    <2>1. /\ IsFiniteSet(DOMAIN entries) /\ Cardinality(DOMAIN entries) <= MaxEntries
          /\ Cardinality(DOMAIN entries) \in Nat
      BY FS_CardinalityType DEF EntriesOK
    <2>2. IsFiniteSet(Live) /\ Cardinality(Live) <= Cardinality(DOMAIN entries)
      BY <1>2, <2>1, FS_Subset
    <2>3. Cardinality(Live) \in Nat
      BY <2>2, FS_CardinalityType
    <2> QED
      BY <1>1, <2>1, <2>2, <2>3
  <1>4. /\ kept \subseteq Live /\ IsFiniteSet(kept) /\ Cardinality(kept) \in Nat
        /\ f.ctr \in kept \/ Cardinality(kept) < MaxEntries
        /\ Cardinality(kept) <= MaxEntries
    <2>1. CASE Joins(f)
      <3>1. kept = Live /\ f.ctr \in Live
        BY <2>1 DEF Kept, Joins
      <3> QED
        BY <3>1, <1>3
    <2>2. CASE Cardinality(Live) < MaxEntries
      <3>1. kept = Live
        BY <2>2 DEF Kept
      <3> QED
        BY <3>1, <1>3, <2>2
    <2>3. CASE ~Joins(f) /\ ~(Cardinality(Live) < MaxEntries)
      <3>1. PICK c \in Live : kept = Live \ {c}
        BY <2>3 DEF Kept
      <3>2. IsFiniteSet(kept) /\ Cardinality(kept) = Cardinality(Live) - 1
        BY <3>1, <1>3, FS_RemoveElement
      <3>3. Cardinality(kept) \in Nat
        BY <3>2, FS_CardinalityType
      <3> QED
        BY <3>1, <3>2, <3>3, <1>1, <1>3
    <2> QED
      BY <2>1, <2>2, <2>3
  <1>5. IsFiniteSet(kept \cup {f.ctr}) /\ Cardinality(kept \cup {f.ctr}) <= MaxEntries
    <2>1. /\ IsFiniteSet(kept \cup {f.ctr})
          /\ Cardinality(kept \cup {f.ctr}) =
                IF f.ctr \in kept THEN Cardinality(kept) ELSE Cardinality(kept) + 1
      BY <1>4, FS_AddElement
    <2> QED
      BY <2>1, <1>1, <1>4
  <1>6. IsFiniteSet(kept \ {f.ctr}) /\ Cardinality(kept \ {f.ctr}) <= MaxEntries
    <2>1. IsFiniteSet(kept \ {f.ctr}) /\ Cardinality(kept \ {f.ctr}) <= Cardinality(kept)
      BY <1>4, FS_Subset
    <2>2. Cardinality(kept \ {f.ctr}) \in Nat
      BY <2>1, FS_CardinalityType
    <2> QED
      BY <2>1, <2>2, <1>1, <1>4
  <1> QED
    BY <1>2, <1>4, <1>5, <1>6

\* A complete reassembly of the first life has every packet of its record.
LEMMA CompleteIsWhole ==
  ASSUME RecordsOK(net), life = 1, NEW f \in net, NEW parts \in SUBSET net,
         \A g \in parts : g.ctr = f.ctr, Cardinality(parts) = f.count
  PROVE  parts = Group(net, f)
  <1>1. parts \subseteq Group(net, f)
    <2>1. \A g \in net : g.life = 1
      BY DEF RecordsOK
    <2> QED
      BY <2>1 DEF Group
  <1>2. /\ IsFiniteSet(Group(net, f)) /\ Cardinality(Group(net, f)) <= f.count
        /\ f.count \in Nat /\ Cardinality(Group(net, f)) \in Nat
    BY FS_CardinalityType DEF RecordsOK
  <1> HIDE DEF Group
  <1>3. /\ Cardinality(parts) <= Cardinality(Group(net, f))
        /\ Cardinality(Group(net, f)) = Cardinality(parts) => Group(net, f) = parts
    BY <1>1, <1>2, FS_Subset
  <1>4. Cardinality(Group(net, f)) = Cardinality(parts)
    BY <1>2, <1>3
  <1> QED
    BY <1>3, <1>4

LEMMA IngestKeeps ==
  ASSUME Reassembly, NEW f \in net, Ingest(f)
  PROVE  Reassembly'
  <1> DEFINE entry == IF Joins(f) THEN entries[f.ctr] ELSE Entry(f)
             after == Added(entry, f)
             over == Bytes(after.parts) > f.total
  <1>1. PICK kept \in Kept(f) :
           /\ entries' = IF over \/ Complete(after) THEN [c \in kept \ {f.ctr} |-> entries[c]]
                         ELSE [c \in kept \cup {f.ctr} |-> IF c = f.ctr THEN after ELSE entries[c]]
           /\ IF Complete(after) THEN handed' = handed \cup {after.parts} ELSE handed' = handed
    BY DEF Ingest
  <1>2. UNCHANGED <<life, next, net, now>>
    BY DEF Ingest
  <1>3. f.total \in Nat /\ f.count \in Nat /\ now \in Nat /\ EntriesOK(entries, net)
    BY DEF Reassembly, RecordsOK
  <1>4. /\ entry \in [born : Nat, total : Nat, count : Nat, parts : SUBSET net]
        /\ entry.total = f.total /\ entry.count = f.count
        /\ \A g \in entry.parts : g.ctr = f.ctr /\ g.count = f.count
    <2>1. CASE Joins(f)
      <3>1. f.ctr \in DOMAIN entries /\ entry = entries[f.ctr]
        BY <2>1 DEF Joins, Live
      <3>2. EntryOK(entry, f.ctr, net)
        BY <3>1, <1>3 DEF EntriesOK
      <3>3. entry.total = f.total /\ entry.count = f.count
        BY <2>1, <3>1 DEF Joins
      <3> QED
        BY <3>2, <3>3 DEF EntryOK
    <2>2. CASE ~Joins(f)
      <3>1. entry = [born |-> now, total |-> f.total, count |-> f.count, parts |-> {}]
        BY <2>2 DEF Entry
      <3> QED
        BY <3>1, <1>3
    <2> QED
      BY <2>1, <2>2
  <1> HIDE DEF entry
  <1>5. /\ after \in [born : Nat, total : Nat, count : Nat, parts : SUBSET net]
        /\ after.total = f.total /\ after.count = f.count
        /\ \A g \in after.parts : g.ctr = f.ctr /\ g.count = f.count
        /\ after.parts # {}
    <2>1. CASE \E g \in entry.parts : g.index = f.index
      <3>1. after = entry
        BY <2>1 DEF Added
      <3> QED
        BY <2>1, <3>1, <1>4
    <2>2. CASE ~\E g \in entry.parts : g.index = f.index
      <3> DEFINE ps == entry.parts \cup {f}
      <3>1. after = [entry EXCEPT !.parts = ps]
        BY <2>2 DEF Added
      <3>2. ps \in SUBSET net /\ ps # {} /\ \A g \in ps : g.ctr = f.ctr /\ g.count = f.count
        BY <1>4
      <3> HIDE DEF ps
      <3>3. after \in [born : Nat, total : Nat, count : Nat, parts : SUBSET net]
        BY <3>1, <3>2, <1>4
      <3>4. after.total = entry.total /\ after.count = entry.count /\ after.parts = ps
        BY <3>1, <1>4
      <3> QED
        BY <3>2, <3>3, <3>4, <1>4
    <2> QED
      BY <2>1, <2>2
  <1> HIDE DEF after
  <1>6. /\ kept \subseteq DOMAIN entries
        /\ IsFiniteSet(kept \cup {f.ctr}) /\ Cardinality(kept \cup {f.ctr}) <= MaxEntries
        /\ IsFiniteSet(kept \ {f.ctr}) /\ Cardinality(kept \ {f.ctr}) <= MaxEntries
    BY <1>3, RoomIsMade
  <1>7. EntriesOK(entries', net)
    <2>1. CASE over \/ Complete(after)
      <3>1. entries' = [c \in kept \ {f.ctr} |-> entries[c]]
        BY <1>1, <2>1
      <3> QED
        BY <3>1, <1>3, <1>6 DEF EntriesOK
    <2>2. CASE ~(over \/ Complete(after))
      <3>1. entries' = [c \in kept \cup {f.ctr} |-> IF c = f.ctr THEN after ELSE entries[c]]
        BY <1>1, <2>2
      <3>2. EntryOK(after, f.ctr, net)
        BY <1>5, <2>2 DEF EntryOK
      <3> QED
        BY <3>1, <3>2, <1>3, <1>6 DEF EntriesOK
    <2> QED
      BY <2>1, <2>2
  <1>8. \A parts \in handed' : life = 1 => \E g \in net : parts = Group(net, g)
    <2>1. \A parts \in handed : life = 1 => \E g \in net : parts = Group(net, g)
      BY DEF Reassembly, HandedAsSent, SentAsRecord, Group
    <2>2. ASSUME Complete(after), life = 1 PROVE after.parts = Group(net, f)
      <3>1. Cardinality(after.parts) = f.count /\ after.parts \in SUBSET net
        BY <2>2, <1>5 DEF Complete
      <3> QED
        BY <2>2, <3>1, <1>5, CompleteIsWhole DEF Reassembly
    <2> QED
      BY <1>1, <2>1, <2>2
  <1>9. HandedAsSent'
    BY <1>2, <1>8 DEF HandedAsSent, SentAsRecord, Group
  <1>10. EntriesOK(entries, net)'
    BY <1>2, <1>7 DEF EntriesOK
  <1> QED
    BY <1>2, <1>9, <1>10 DEF Reassembly, RecordsOK, NetOK, Group

LEMMA RestartKeeps ==
  ASSUME Reassembly, SenderRestarts \/ ReceiverRestarts
  PROVE  Reassembly'
  <1>1. /\ life' = life + 1 /\ next' = 0 /\ UNCHANGED <<net, now, handed>>
        /\ entries' = entries \/ entries' = <<>>
    BY DEF SenderRestarts, ReceiverRestarts, NewLife
  <1>2. life \in Nat \ {0} /\ now \in Nat
    BY DEF Reassembly
  <1>3. RecordsOK(net)'
    BY <1>1, <1>2 DEF Reassembly, RecordsOK, Group
  <1>4. EntriesOK(entries, net)'
    <2>1. CASE entries' = entries
      BY <2>1, <1>1 DEF Reassembly, EntriesOK
    <2>2. CASE entries' = <<>>
      <3>1. DOMAIN entries' = {}
        BY <2>2
      <3>2. MaxEntries \in Nat
        BY DirectAssumption
      <3> QED
        BY <3>1, <3>2, FS_EmptySet DEF EntriesOK
    <2> QED
      BY <1>1, <2>1, <2>2
  <1>5. HandedAsSent'
    BY <1>1, <1>2 DEF HandedAsSent
  <1>6. NetOK'
    BY <1>1, NewLifeKeepsNet DEF Reassembly, SenderRestarts, ReceiverRestarts
  <1> QED
    BY <1>1, <1>2, <1>3, <1>4, <1>5, <1>6 DEF Reassembly

LEMMA ReassemblyAlways == DirectSpec => []Reassembly
  <1>1. DirectInit => Reassembly
    <2> SUFFICES ASSUME DirectInit PROVE Reassembly
      OBVIOUS
    <2>1. NetOK
      BY WindowAssumption DEF DirectInit, NetOK
    <2>2. DOMAIN entries = {} /\ MaxEntries \in Nat
      BY DirectAssumption DEF DirectInit
    <2>3. EntriesOK(entries, net)
      BY <2>2, FS_EmptySet DEF EntriesOK
    <2> QED
      BY <2>1, <2>3 DEF DirectInit, Reassembly, RecordsOK, HandedAsSent
  <1>2. Reassembly /\ [DirectNext]_directVars => Reassembly'
    <2> SUFFICES ASSUME Reassembly, [DirectNext]_directVars
                 PROVE  Reassembly'
      OBVIOUS
    <2>1. ASSUME NEW len \in Length, NEW mtu \in Mtu, Send(len, mtu)
          PROVE  Reassembly'
      BY <2>1, SendKeepsRecords
    <2>2. ASSUME NEW f \in net, Ingest(f)
          PROVE  Reassembly'
      BY <2>2, IngestKeeps
    <2>3. ASSUME UNCHANGED <<life, next, net, entries, handed>>, now' \in Nat
          PROVE  Reassembly'
      BY <2>3 DEF Reassembly, NetOK, RecordsOK, Group, EntriesOK, HandedAsSent, SentAsRecord
    <2>4. ASSUME NEW f \in net, ReceiveWhole(f)
          PROVE  Reassembly'
      BY <2>3, <2>4 DEF ReceiveWhole, Reassembly
    <2>5. CASE SenderRestarts \/ ReceiverRestarts
      BY <2>5, RestartKeeps
    <2>6. CASE Tick \/ UNCHANGED directVars
      BY <2>3, <2>6 DEF Tick, directVars, Reassembly
    <2> QED
      BY <2>1, <2>2, <2>4, <2>5, <2>6 DEF DirectNext
  <1> QED
    BY <1>1, <1>2, PTL DEF DirectSpec

\* The reassembler never keeps more entries than MAX_REASSEMBLY_RECORDS nor an entry that
\* is complete, overfull or has another record's fragments, and what ingest hands up in
\* the first life of a session is a record as it was sent: for every limit, length and
\* MTU, however fragments are lost, repeated, reordered and aged.
THEOREM ReassemblyHolds == DirectSpec => []DirectInv
  <1>1. Reassembly => DirectInv
    BY DEF Reassembly, EntriesOK, EntryOK, RecordsOK, DirectInv, DirectTypeOK
  <1> QED
    BY <1>1, ReassemblyAlways, PTL

-----------------------------------------------------------------------------
(* Sums over finite sets                                                   *)

LEMMA LessIsWellFounded ==
  \E R : IsWellFoundedOn(R, Nat) /\ \A a, b \in Nat : a < b => <<a, b>> \in R
  <1> DEFINE R == OpToRel(<, Nat)
  <1>1. IsWellFoundedOn(R, Nat)
    BY NatLessThanWellFounded, Zenon
  <1>2. \A a, b \in Nat : a < b => <<a, b>> \in R
    BY DEF OpToRel
  <1> HIDE DEF R
  <1> QED
    BY <1>1, <1>2, Zenon

\* A set of numbers that is not empty has a least element.
LEMMA LeastNumber ==
  ASSUME NEW T \in SUBSET Nat, T # {}
  PROVE  \E x \in T : \A y \in T : x <= y
  <1>1. PICK R : IsWellFoundedOn(R, Nat) /\ \A a, b \in Nat : a < b => <<a, b>> \in R
    BY LessIsWellFounded
  <1>2. PICK x \in T : \A y \in T : ~(<<y, x>> \in R)
    <2>1. T \subseteq Nat
      OBVIOUS
    <2>2. IsWellFoundedOn(R, Nat)
      BY <1>1
    <2> QED
      BY <2>1, <2>2, WFMin, Zenon
  <1>3. \A y \in T : x \in Nat /\ y \in Nat /\ ~(y < x)
    BY <1>1, <1>2
  <1> QED
    BY <1>3

\* A collection of subsets of a finite set has a minimal one: the induction over
\* finite sets that the proofs below are by.
LEMMA MinimalSet ==
  ASSUME NEW S, IsFiniteSet(S), NEW B \in SUBSET SUBSET S, B # {}
  PROVE  \E s \in B : \A t \in B : t \subseteq s => t = s
  <1> DEFINE C == {Cardinality(s) : s \in B}
  <1>1. \A s \in B : IsFiniteSet(s) /\ Cardinality(s) \in Nat
    BY FS_Subset, FS_CardinalityType
  <1>2. C \in SUBSET Nat /\ C # {}
    BY <1>1
  <1>3. PICK n \in C : \A y \in C : n <= y
    <2> HIDE DEF C
    <2> QED
      BY <1>2, LeastNumber
  <1>4. PICK s \in B : n = Cardinality(s)
    OBVIOUS
  <1>5. ASSUME NEW t \in B, t \subseteq s
        PROVE  t = s
    <2>1. Cardinality(t) <= Cardinality(s) /\ (Cardinality(s) = Cardinality(t) => s = t)
      BY <1>1, <1>5, FS_Subset
    <2>2. Cardinality(s) <= Cardinality(t)
      BY <1>3, <1>4
    <2> QED
      BY <1>1, <2>1, <2>2
  <1> QED
    BY <1>5

Pick(s) == CHOOSE x \in s : TRUE

\* h adds up the bytes of every subset of S, in the order of Pick.
Adds(h, S) ==
    h = [s \in SUBSET S |-> IF s = {} THEN 0 ELSE Pick(s).bytes + h[s \ {Pick(s)}]]

\* Packets whose length is known.
Sized(S) == \A x \in S : x.bytes \in Nat

Sum(S) == (CHOOSE h : Adds(h, S))[S]

LEMMA BytesIsSum == \A S : Bytes(S) = Sum(S)
  BY DEF Bytes, MapThenSumSet, MapThenFoldSet, Sum, Adds, Pick

LEMMA PickIn ==
  ASSUME NEW s, s # {}
  PROVE  Pick(s) \in s
  BY DEF Pick

LEMMA AddsEmpty ==
  ASSUME NEW S, NEW h, Adds(h, S)
  PROVE  h[{}] = 0
  BY DEF Adds

LEMMA AddsStep ==
  ASSUME NEW S, NEW h, Adds(h, S), NEW s \in SUBSET S, s # {}
  PROVE  h[s] = Pick(s).bytes + h[s \ {Pick(s)}]
  BY DEF Adds

\* Two that add up the same set agree.
LEMMA AddsUnique ==
  ASSUME NEW S, IsFiniteSet(S), NEW T \in SUBSET S, NEW h, Adds(h, S), NEW g, Adds(g, T)
  PROVE  \A s \in SUBSET T : h[s] = g[s]
  <1> DEFINE B == {s \in SUBSET T : h[s] # g[s]}
  <1>1. SUFFICES ASSUME B # {} PROVE FALSE
    OBVIOUS
  <1>2. IsFiniteSet(T)
    BY FS_Subset
  <1>3. PICK s \in B : \A t \in B : t \subseteq s => t = s
    <2>1. B \in SUBSET SUBSET T
      OBVIOUS
    <2> HIDE DEF B
    <2> QED
      BY <1>1, <1>2, <2>1, MinimalSet
  <1>4. s \in SUBSET T /\ s \in SUBSET S /\ h[s] # g[s]
    OBVIOUS
  <1>5. s # {}
    BY <1>4, AddsEmpty
  <1> DEFINE u == s \ {Pick(s)}
  <1>6. u \in SUBSET T /\ u # s /\ u \subseteq s
    BY <1>4, <1>5, PickIn
  <1>7. h[u] = g[u]
    BY <1>3, <1>6
  <1>8. h[s] = Pick(s).bytes + h[u] /\ g[s] = Pick(s).bytes + g[u]
    BY <1>4, <1>5, AddsStep
  <1> QED
    BY <1>4, <1>7, <1>8

LEMMA AddsExists ==
  ASSUME NEW S, IsFiniteSet(S)
  PROVE  \E h : Adds(h, S)
  <1> DEFINE B == {s \in SUBSET S : ~\E h : Adds(h, s)}
  <1>1. SUFFICES ASSUME B # {} PROVE FALSE
    OBVIOUS
  <1>2. PICK s \in B : \A t \in B : t \subseteq s => t = s
    <2>1. B \in SUBSET SUBSET S
      OBVIOUS
    <2> HIDE DEF B
    <2> QED
      BY <1>1, <2>1, MinimalSet
  <1>3. s \in SUBSET S /\ ~\E h : Adds(h, s)
    OBVIOUS
  <1> DEFINE F(v) == CHOOSE h : Adds(h, v)
  <1>4. ASSUME NEW v \in SUBSET s, v # s
        PROVE  Adds(F(v), v) /\ IsFiniteSet(v)
    <2>1. v \in SUBSET S
      BY <1>3
    <2>2. \E h : Adds(h, v)
      BY <1>2, <1>4, <2>1
    <2> QED
      BY <2>1, <2>2, FS_Subset
  <1>5. ASSUME NEW v \in SUBSET s, v # s, v # {}
        PROVE  F(v)[v] = Pick(v).bytes + F(v \ {Pick(v)})[v \ {Pick(v)}]
    <2> DEFINE u == v \ {Pick(v)}
    <2>1. u \in SUBSET v /\ u \in SUBSET s /\ u # s
      BY <1>5, PickIn
    <2>2. Adds(F(v), v) /\ IsFiniteSet(v) /\ Adds(F(u), u)
      BY <1>4, <1>5, <2>1
    <2> HIDE DEF F
    <2>3. F(v)[v] = Pick(v).bytes + F(v)[u]
      BY <1>5, <2>2, AddsStep
    <2>4. F(v)[u] = F(u)[u]
      BY <2>1, <2>2, AddsUnique
    <2> QED
      BY <2>3, <2>4
  <1>6. ASSUME {} # s
        PROVE  F({})[{}] = 0
    <2>1. Adds(F({}), {})
      BY <1>4, <1>6
    <2> HIDE DEF F
    <2> QED
      BY <2>1, AddsEmpty
  <1> HIDE DEF F
  <1> DEFINE h == [u \in SUBSET s |-> IF u = {} THEN 0
                                     ELSE Pick(u).bytes + F(u \ {Pick(u)})[u \ {Pick(u)}]]
  <1>7. ASSUME NEW u \in SUBSET s, u # {}
        PROVE  h[u] = Pick(u).bytes + h[u \ {Pick(u)}]
    <2> DEFINE v == u \ {Pick(u)}
    <2>1. v \in SUBSET s /\ v # s
      BY <1>7, PickIn
    <2>2. h[v] = F(v)[v]
      <3>1. CASE v = {}
        <4>1. s # {}
          BY <1>7
        <4> QED
          BY <1>6, <3>1, <4>1
      <3>2. CASE v # {}
        BY <1>5, <2>1, <3>2
      <3> QED
        BY <3>1, <3>2
    <2>3. h[u] = Pick(u).bytes + F(v)[v]
      BY <1>7
    <2> QED
      BY <2>2, <2>3
  <1>8. Adds(h, s)
    <2>1. h = [u \in SUBSET s |-> h[u]]
      OBVIOUS
    <2>2. h[{}] = 0
      OBVIOUS
    <2> HIDE DEF h
    <2> QED
      BY <1>7, <2>1, <2>2, Zenon DEF Adds
  <1> QED
    BY <1>3, <1>8

\* The sums of a finite set and of its subsets.
LEMMA SumsOf ==
  ASSUME NEW S, IsFiniteSet(S)
  PROVE  \E h : Adds(h, S) /\ \A s \in SUBSET S : Bytes(s) = h[s]
  <1> DEFINE F(v) == CHOOSE h : Adds(h, v)
  <1>1. \A s \in SUBSET S : IsFiniteSet(s) /\ Adds(F(s), s)
    BY AddsExists, FS_Subset
  <1>2. Adds(F(S), S)
    BY <1>1
  <1>3. \A s \in SUBSET S : Bytes(s) = F(s)[s]
    BY BytesIsSum DEF Sum
  <1> HIDE DEF F
  <1>4. \A s \in SUBSET S : F(S)[s] = F(s)[s]
    BY <1>1, <1>2, AddsUnique
  <1> QED
    BY <1>2, <1>3, <1>4

\* The sum does not depend on the order.
LEMMA AddsAny ==
  ASSUME NEW S, IsFiniteSet(S), Sized(S), NEW h, Adds(h, S)
  PROVE  \A s \in SUBSET S : h[s] \in Nat /\ \A y \in s : h[s] = y.bytes + h[s \ {y}]
  <1> DEFINE P(s) == h[s] \in Nat /\ \A y \in s : h[s] = y.bytes + h[s \ {y}]
             B == {s \in SUBSET S : ~P(s)}
  <1>1. SUFFICES ASSUME B # {} PROVE FALSE
    OBVIOUS
  <1>2. PICK s \in B : \A t \in B : t \subseteq s => t = s
    <2>1. B \in SUBSET SUBSET S
      OBVIOUS
    <2> HIDE DEF B
    <2> QED
      BY <1>1, <2>1, MinimalSet
  <1>3. s \in SUBSET S /\ ~P(s)
    OBVIOUS
  <1>4. \A t \in SUBSET s : t # s => P(t)
    BY <1>2, <1>3
  <1> HIDE DEF B
  <1>5. s # {}
    <2>1. h[{}] = 0
      BY AddsEmpty
    <2>2. P({})
      BY <2>1
    <2> HIDE DEF P
    <2> QED
      BY <1>3, <2>2
  <1> DEFINE z == Pick(s)
  <1>6. z \in s /\ z.bytes \in Nat
    BY <1>3, <1>5, PickIn DEF Sized
  <1>7. h[s] = z.bytes + h[s \ {z}]
    <2>1. s \in SUBSET S
      BY <1>3
    <2> HIDE DEF P
    <2>2. h[s] = Pick(s).bytes + h[s \ {Pick(s)}]
      BY <1>5, <2>1 DEF Adds
    <2> QED
      BY <2>2
  <1> HIDE DEF z
  <1>8. h[s \ {z}] \in Nat
    BY <1>4, <1>6
  <1>9. ASSUME NEW y \in s
        PROVE  h[s] = y.bytes + h[s \ {y}]
    <2>1. CASE y = z
      BY <1>7, <2>1
    <2>2. CASE y # z
      <3>1. P(s \ {z}) /\ P(s \ {y})
        BY <1>4, <1>6
      <3>2. P((s \ {z}) \ {y})
        BY <1>4, <1>6
      <3>3. (s \ {z}) \ {y} = (s \ {y}) \ {z}
        OBVIOUS
      <3>4. h[s \ {z}] = y.bytes + h[(s \ {z}) \ {y}]
        BY <2>2, <3>1
      <3>5. h[s \ {y}] = z.bytes + h[(s \ {z}) \ {y}]
        BY <1>6, <2>2, <3>1, <3>3
      <3>6. y.bytes \in Nat /\ h[(s \ {z}) \ {y}] \in Nat
        BY <1>3, <3>2 DEF Sized
      <3> HIDE DEF P
      <3> QED
        BY <1>6, <1>7, <3>4, <3>5, <3>6
    <2> QED
      BY <2>1, <2>2
  <1> QED
    BY <1>3, <1>6, <1>7, <1>8, <1>9

LEMMA BytesEmpty == Bytes({}) = 0
  <1>1. IsFiniteSet({})
    BY FS_EmptySet
  <1>2. PICK h : Adds(h, {}) /\ \A s \in SUBSET {} : Bytes(s) = h[s]
    BY <1>1, SumsOf
  <1> QED
    BY <1>2, AddsEmpty

LEMMA BytesAdd ==
  ASSUME NEW S, IsFiniteSet(S), NEW x, x \notin S, Sized(S \cup {x})
  PROVE  Bytes(S) \in Nat /\ Bytes(S \cup {x}) = x.bytes + Bytes(S)
  <1> DEFINE T == S \cup {x}
  <1>1. IsFiniteSet(T)
    BY FS_AddElement
  <1>2. PICK h : Adds(h, T) /\ \A s \in SUBSET T : Bytes(s) = h[s]
    BY <1>1, SumsOf
  <1>3. T \ {x} = S /\ S \in SUBSET T /\ T \in SUBSET T /\ x \in T
    OBVIOUS
  <1>4. Sized(T)
    OBVIOUS
  <1> HIDE DEF T
  <1>5. \A s \in SUBSET T : h[s] \in Nat /\ \A y \in s : h[s] = y.bytes + h[s \ {y}]
    BY <1>1, <1>2, <1>4, AddsAny
  <1>6. h[T] = x.bytes + h[S] /\ h[S] \in Nat
    BY <1>3, <1>5
  <1> QED
    BY <1>2, <1>3, <1>6 DEF T

\* A part of the fragments has no more bytes.
LEMMA BytesPart ==
  ASSUME NEW S, IsFiniteSet(S), Sized(S), NEW T \in SUBSET S
  PROVE  Bytes(T) \in Nat /\ Bytes(T) <= Bytes(S)
  <1> DEFINE B == {s \in SUBSET S : T \subseteq s /\ ~(Bytes(T) <= Bytes(s))}
  <1>1. PICK h : Adds(h, S) /\ \A s \in SUBSET S : Bytes(s) = h[s]
    BY SumsOf
  <1>2. \A s \in SUBSET S : Bytes(s) \in Nat /\ \A y \in s : Bytes(s) = y.bytes + Bytes(s \ {y})
    <2>1. \A s \in SUBSET S : h[s] \in Nat /\ \A y \in s : h[s] = y.bytes + h[s \ {y}]
      <3>1. Adds(h, S)
        BY <1>1
      <3> HIDE DEF B
      <3> QED
        BY <3>1, AddsAny
    <2> QED
      BY <1>1, <2>1
  <1>3. B = {}
    <2>1. SUFFICES ASSUME B # {} PROVE FALSE
      OBVIOUS
    <2>2. PICK s \in B : \A t \in B : t \subseteq s => t = s
      <3>1. B \in SUBSET SUBSET S
        OBVIOUS
      <3> HIDE DEF B
      <3> QED
        BY <2>1, <3>1, MinimalSet
    <2>3. s \in SUBSET S /\ T \subseteq s /\ ~(Bytes(T) <= Bytes(s))
      OBVIOUS
    <2>4. s # T
      BY <1>2, <2>3
    <2>5. PICK y \in s : y \notin T
      BY <2>3, <2>4
    <2>6. s \ {y} \in SUBSET S /\ T \subseteq s \ {y}
      BY <2>3, <2>5
    <2>7. Bytes(T) <= Bytes(s \ {y})
      BY <2>2, <2>6
    <2>8. /\ Bytes(s) = y.bytes + Bytes(s \ {y}) /\ y.bytes \in Nat
          /\ Bytes(s \ {y}) \in Nat /\ Bytes(T) \in Nat
      BY <1>2, <2>3, <2>6 DEF Sized
    <2> HIDE DEF B
    <2> QED
      BY <2>3, <2>7, <2>8
  <1> QED
    BY <1>2, <1>3

\* A record in as many packets as each of them counts, which together have its length
\* and no two of which are in the same place.
WholeRecord(S) ==
    /\ IsFiniteSet(S)
    /\ \A g, h \in S : /\ g.total = h.total /\ g.count = h.count
                       /\ g.index = h.index => g = h
    /\ \A g \in S : Cardinality(S) = g.count /\ Bytes(S) = g.total

LEMMA FewerTimes ==
  ASSUME NEW a \in Nat, NEW b \in Nat, NEW p \in Nat, a <= b
  PROVE  a * p \in Nat /\ b * p \in Nat /\ a * p <= b * p /\ (a + 1) * p = a * p + p
  <1>1. a * p \in Nat /\ b * p \in Nat /\ (b - a) * p \in Nat
    OBVIOUS
  <1>2. b * p = a * p + (b - a) * p
    OBVIOUS
  <1>3. (a + 1) * p = a * p + p
    OBVIOUS
  <1> QED
    BY <1>1, <1>2, <1>3

\* The record fills all fragments but the last, and that one has a byte at least.
LEMMA CountBounds ==
  ASSUME NEW len \in Nat \ {0}, NEW mtu \in Nat, mtu > HeaderLen
  PROVE  LET p == mtu - HeaderLen
             n == FragmentCount(len, mtu)
         IN  /\ p \in Nat \ {0} /\ n \in Nat \ {0}
             /\ (n - 1) * p < len /\ len <= n * p
  <1> DEFINE p == mtu - HeaderLen
             n == FragmentCount(len, mtu)
             a == len + p - 1
  <1>1. p \in Nat \ {0}
    BY DirectAssumption
  <1> HIDE DEF p
  <1>2. a \in Nat /\ n = a \div p
    BY <1>1 DEF FragmentCount, p
  <1> HIDE DEF n
  <1>3. n \in Int /\ a % p \in 0 .. p - 1 /\ a = (p * n) + (a % p)
    BY <1>1, <1>2
  <1>4. n * p \in Int /\ n * p = p * n /\ (n - 1) * p = n * p - p
    BY <1>1, <1>3
  <1>5. n > 0
    <2>1. ASSUME n <= 0 PROVE n * p <= 0
      BY <2>1, <1>1, <1>3
    <2>2. n * p > 0
      BY <1>1, <1>2, <1>3, <1>4
    <2> QED
      BY <2>1, <2>2, <1>3, <1>4
  <1>6. (n - 1) * p < len /\ len <= n * p
    BY <1>1, <1>2, <1>3, <1>4
  <1> QED
    BY <1>1, <1>3, <1>5, <1>6 DEF p, n

\* The fragments of a record are a whole record: segmentDirectFspTransportRecord
\* leaves no byte out and sends none twice.
LEMMA FragmentsWhole ==
  ASSUME NEW c, NEW len \in Nat \ {0}, NEW mtu \in Nat, Segmentable(len, mtu)
  PROVE  WholeRecord(Fragments(c, len, mtu)) /\ Sized(Fragments(c, len, mtu))
  <1> DEFINE p == mtu - HeaderLen
             n == FragmentCount(len, mtu)
             F(i) == Fragment(c, len, mtu, i)
             First(j) == {F(i) : i \in 0 .. j - 1}
             Have(j) == IF j < n THEN j * p ELSE len
             P(j) == /\ IsFiniteSet(First(j)) /\ Cardinality(First(j)) = j
                     /\ Bytes(First(j)) = Have(j)
             B == {j \in 0 .. n : ~P(j)}
  <1>1. p \in Nat \ {0} /\ n \in Nat \ {0} /\ (n - 1) * p < len /\ len <= n * p
    <2>1. mtu > HeaderLen
      BY DEF Segmentable
    <2> QED
      BY <2>1, CountBounds
  <1>2. \A i : F(i).total = len /\ F(i).count = n /\ F(i).index = i
    BY DEF Fragment
  <1>3. ASSUME NEW i \in 0 .. n - 1
        PROVE  /\ F(i).bytes \in Nat
               /\ Have(i) = i * p /\ Have(i) \in Nat /\ Have(i + 1) = F(i).bytes + Have(i)
    <2>1. F(i).bytes = Min({p, len - i * p})
      BY DEF Fragment
    <2> HIDE DEF p, n, F
    <2>2. i * p \in Nat /\ i * p <= (n - 1) * p /\ (n - 1) * p \in Nat
      BY <1>1, FewerTimes
    <2>3. len - i * p \in Nat
      BY <1>1, <2>2
    <2>4. CASE i < n - 1
      <3>1. (i + 1) * p <= (n - 1) * p /\ (i + 1) * p = i * p + p
        <4>1. i + 1 \in Nat /\ n - 1 \in Nat /\ i + 1 <= n - 1 /\ p \in Nat /\ i \in Nat /\ i <= i
          BY <1>1, <2>4
        <4> QED
          BY <4>1, FewerTimes
      <3>2. p <= len - i * p
        BY <1>1, <2>2, <3>1
      <3>3. Min({p, len - i * p}) = p
        BY <1>1, <2>3, <3>2 DEF Min
      <3>4. i < n /\ i + 1 < n
        BY <1>1, <2>4
      <3> QED
        BY <2>1, <2>2, <3>1, <3>3, <3>4, <1>1
    <2>5. CASE i = n - 1
      <3>1. n * p = i * p + p
        BY <2>5, <1>1, FewerTimes
      <3>2. len - i * p <= p
        BY <1>1, <2>2, <3>1
      <3>3. Min({p, len - i * p}) = len - i * p
        BY <1>1, <2>3, <3>2 DEF Min
      <3>4. i < n /\ ~(i + 1 < n)
        BY <1>1, <2>5
      <3> QED
        BY <2>1, <2>2, <2>3, <3>3, <3>4, <1>1
    <2> QED
      BY <1>1, <2>4, <2>5
  <1> HIDE DEF p, n, F
  <1>4. \A j \in 0 .. n : Sized(First(j))
    <2> TAKE j \in 0 .. n
    <2>1. \A i \in 0 .. j - 1 : F(i).bytes \in Nat
      BY <1>1, <1>3
    <2> QED
      BY <2>1 DEF Sized
  <1>5. B = {}
    <2> SUFFICES ASSUME B # {} PROVE FALSE
      OBVIOUS
    <2>1. B \in SUBSET Nat
      BY <1>1
    <2>2. PICK j \in B : \A k \in B : j <= k
      <3> HIDE DEF B
      <3> QED
        BY <2>1, LeastNumber
    <2>3. P(0)
      <3>1. First(0) = {}
        OBVIOUS
      <3>2. Have(0) = 0
        BY <1>1
      <3> QED
        BY <3>1, <3>2, FS_EmptySet, BytesEmpty
    <2>4. j \in 1 .. n /\ ~P(j)
      BY <2>2, <2>3, <1>1
    <2> DEFINE i == j - 1
               S == First(i)
    <2>5. i \in 0 .. n - 1 /\ i + 1 = j /\ i \in 0 .. n
      BY <2>4, <1>1
    <2>6. P(i)
      BY <2>2, <2>5, <1>1
    <2>7. First(j) = S \cup {F(i)} /\ F(i) \notin S
      <3>1. 0 .. j - 1 = (0 .. i - 1) \cup {i} /\ i \notin 0 .. i - 1
        BY <2>5, <1>1
      <3> QED
        BY <3>1, <1>2
    <2>8. Sized(S \cup {F(i)})
      BY <2>4, <2>7, <1>4, <1>1
    <2>9. IsFiniteSet(S) /\ Cardinality(S) = i /\ Bytes(S) = Have(i)
      BY <2>6
    <2> HIDE DEF S, i
    <2>10. /\ IsFiniteSet(S \cup {F(i)}) /\ Cardinality(S \cup {F(i)}) = i + 1
      BY <2>7, <2>9, FS_AddElement
    <2>11. Bytes(S \cup {F(i)}) = F(i).bytes + Bytes(S)
      BY <2>7, <2>8, <2>9, BytesAdd
    <2>12. Have(j) = F(i).bytes + Have(i)
      BY <2>5, <1>3
    <2>13. P(j)
      <3>1. Bytes(First(j)) = Have(j)
        BY <2>7, <2>9, <2>11, <2>12
      <3> QED
        BY <3>1, <2>5, <2>7, <2>10
    <2> QED
      BY <2>4, <2>13
  <1>6. P(n) /\ Have(n) = len
    <2>1. n \in 0 .. n /\ ~(n < n) /\ n \notin B
      <3>1. n \in 0 .. n /\ ~(n < n)
        BY <1>1
      <3> HIDE DEF B
      <3> QED
        BY <3>1, <1>5
    <2>2. P(n)
      BY <2>1
    <2> QED
      BY <2>1, <2>2
  <1>7. Fragments(c, len, mtu) = First(n)
    BY DEF Fragments, F, n
  <1>8. Sized(First(n))
    BY <1>4, <1>1
  <1>9. WholeRecord(First(n))
    <2>1. /\ \A g, h \in First(n) : /\ g.total = h.total /\ g.count = h.count
                                    /\ g.index = h.index => g = h
      BY <1>2
    <2>2. \A g \in First(n) : g.count = n /\ g.total = len
      BY <1>2
    <2> QED
      BY <2>1, <2>2, <1>6 DEF WholeRecord
  <1> QED
    BY <1>7, <1>8, <1>9

-----------------------------------------------------------------------------
(* What has arrived is opened                                              *)

\* Every record was sent whole.
WholeRecords(nt) == \A f \in nt : WholeRecord(Group(nt, f))

\* The window has taken the counter, or has moved past it.
Done(c) == c \in accepted \/ ~(win.high - c < WINDOW)

\* While calm, entries hold fragments of the present life, and every packet that
\* arrived is in the entry of its record unless the window is done with it.
Held ==
    /\ \A c \in DOMAIN entries : \A g \in entries[c].parts :
          g.life = life /\ g.total = entries[c].total
    /\ \A f \in got :
          Done(f.ctr) \/ (f.ctr \in DOMAIN entries /\ f \in entries[f.ctr].parts)

Arrivals ==
    /\ WholeRecords(net)
    /\ got \subseteq {f \in net : f.life = life}
    /\ calm => Held

LEMMA SendKeepsWhole ==
  ASSUME Reassembly, WholeRecords(net),
         NEW len \in Length, NEW mtu \in Mtu, Send(len, mtu)
  PROVE  WholeRecords(net')
  <1> DEFINE sent == IF len <= mtu THEN Whole(next, len)
                     ELSE IF Segmentable(len, mtu) THEN Fragments(next, len, mtu)
                     ELSE {}
  <1>1. len \in Nat \ {0} /\ mtu \in Nat
    BY DirectAssumption
  <1>2. \A f \in sent : f.life = life /\ f.ctr = next
    <2>1. \A i : /\ Fragment(next, len, mtu, i).life = life
                 /\ Fragment(next, len, mtu, i).ctr = next
      BY DEF Fragment
    <2> QED
      BY <2>1 DEF Whole, Fragments
  <1>3. \A f \in net : /\ f.life \in 1 .. life /\ (f.life = life => f.ctr < next)
                       /\ f.ctr \in Nat /\ next \in Nat
    BY WindowAssumption DEF Reassembly, RecordsOK, NetOK
  <1>4. WholeRecord(sent)
    <2>1. CASE len <= mtu
      <3> DEFINE w == [life |-> life, ctr |-> next, total |-> len, count |-> 1,
                       index |-> 0, bytes |-> len]
      <3>1. sent = {w}
        BY <2>1 DEF Whole
      <3>2. IsFiniteSet({w}) /\ Cardinality({w}) = 1
        BY FS_Singleton
      <3>3. Bytes({w}) = len
        <4>1. Sized({} \cup {w}) /\ w.bytes = len
          BY <1>1 DEF Sized
        <4>2. IsFiniteSet({}) /\ w \notin {}
          BY FS_EmptySet
        <4> HIDE DEF w
        <4>3. Bytes({} \cup {w}) = w.bytes + Bytes({})
          BY <4>1, <4>2, BytesAdd
        <4>4. {} \cup {w} = {w}
          OBVIOUS
        <4> QED
          BY <4>1, <4>3, <4>4, BytesEmpty, <1>1
      <3>4. w.total = len /\ w.count = 1
        OBVIOUS
      <3> HIDE DEF w
      <3> QED
        BY <3>1, <3>2, <3>3, <3>4 DEF WholeRecord
    <2>2. CASE ~(len <= mtu) /\ Segmentable(len, mtu)
      BY <2>2, <1>1, FragmentsWhole
    <2>3. CASE ~(len <= mtu) /\ ~Segmentable(len, mtu)
      <3>1. sent = {}
        BY <2>3
      <3> QED
        BY <3>1, FS_EmptySet DEF WholeRecord
    <2> QED
      BY <2>1, <2>2, <2>3
  <1>5. net' = net \cup sent
    BY DEF Send
  <1> HIDE DEF sent
  <1>6. \A f \in net : Group(net', f) = Group(net, f)
    BY <1>2, <1>3, <1>5 DEF Group
  <1>7. \A f \in sent : Group(net', f) = sent
    BY <1>2, <1>3, <1>5 DEF Group
  <1> QED
    BY <1>4, <1>5, <1>6, <1>7 DEF WholeRecords

\* The window stays done with a counter while the session lives.
LEMMA DoneStays ==
  ASSUME Inv, NEW c \in Counter, NEW parts, Open(c, parts)
  PROVE  \A d \in Counter : Done(d) => Done(d)'
  <1> SUFFICES ASSUME NEW d \in Counter, Done(d), Opens(parts), Check(win, c)
               PROVE  Done(d)'
    BY DEF Open, Done
  <1>1. accepted' = accepted \cup {c} /\ win' = Accept(win, c)
    BY DEF Open, Receive
  <1>2. win'.high = IF c > win.high THEN c ELSE win.high
    BY <1>1 DEF Accept
  <1>3. win.high \in Int /\ c \in Int /\ d \in Int /\ WINDOW \in Nat
    BY WindowAssumption DEF Inv, TypeOK, Window, Counter, Acceptable
  <1>4. ASSUME ~(win.high - d < WINDOW) PROVE ~(win'.high - d < WINDOW)
    BY <1>2, <1>3, <1>4
  <1> QED
    BY <1>1, <1>4 DEF Done

\* A record of the present life that decryptIncoming is given is one the window is done
\* with: it is taken, or it was taken before, or the window is past it.
LEMMA OpenDone ==
  ASSUME Inv, NEW c \in Acceptable, NEW parts, Opens(parts), Open(c, parts)
  PROVE  Done(c)'
  <1>1. CASE Check(win, c)
    BY <1>1 DEF Open, Receive, Done
  <1>2. CASE ~Check(win, c)
    <2>1. c \in Nat /\ c < Exhausted /\ c % WINDOW \in 0 .. WINDOW - 1
      BY WindowAssumption, ResidueIsSlot DEF Counter, Acceptable
    <2>2. ~(win.high - c < WINDOW) \/ win.seen[c % WINDOW] = c
      BY <1>2, <2>1 DEF Check
    <2>3. Done(c)
      BY <2>1, <2>2 DEF Inv, SlotsTrackHistory, Undefined, Done
    <2> QED
      BY <1>2, <2>3 DEF Open, Done
  <1> QED
    BY <1>1, <1>2


\* ingest puts a fragment with the others of its record, or gives the window the record.
LEMMA IngestHolds ==
  ASSUME Inv, Reassembly, Arrivals, NEW f \in net, Ingest(f), calm'
  PROVE  Held'
  <1> DEFINE entry == IF Joins(f) THEN entries[f.ctr] ELSE Entry(f)
             after == Added(entry, f)
             over == Bytes(after.parts) > f.total
  <1>1. PICK kept \in Kept(f) :
           /\ entries' = IF over \/ Complete(after) THEN [c \in kept \ {f.ctr} |-> entries[c]]
                         ELSE [c \in kept \cup {f.ctr} |-> IF c = f.ctr THEN after ELSE entries[c]]
           /\ IF Complete(after) THEN Open(f.ctr, after.parts) ELSE UNCHANGED <<win, accepted>>
           /\ calm' = (calm /\ ~over /\ kept = DOMAIN entries /\ f.life = life)
    BY DEF Ingest
  <1>2. /\ got' = got \cup {f} /\ life' = life /\ f.ctr \in Acceptable /\ f.ctr \in Counter
        /\ \A g \in got : g \in net /\ g.ctr \in Counter
    <2>1. got' = IF f.life = life THEN got \cup {f} ELSE got
      BY DEF Ingest
    <2>2. f.life = life
      BY <1>1
    <2>3. life' = life
      BY DEF Ingest
    <2>4. \A g \in net : g.ctr \in Acceptable /\ g.ctr \in Counter
      BY WindowAssumption DEF Reassembly, NetOK, Acceptable, Counter
    <2> QED
      BY <2>1, <2>2, <2>3, <2>4 DEF Arrivals
  <1>3. ~over /\ kept = DOMAIN entries /\ f.life = life /\ Held
    <2>1. calm /\ ~over /\ kept = DOMAIN entries /\ f.life = life
      BY <1>1
    <2> QED
      BY <2>1 DEF Arrivals
  <1>4. Live = DOMAIN entries
    <2>1. kept \subseteq Live
      BY DEF Kept
    <2> QED
      BY <2>1, <1>3 DEF Live
  <1>5. \A g \in net : g.life = life /\ g.ctr = f.ctr =>
            /\ g.total = f.total /\ g.count = f.count
            /\ g.index = f.index => g = f
    <2>1. f \in Group(net, f) /\ WholeRecord(Group(net, f))
      BY DEF Group, Arrivals, WholeRecords
    <2>2. \A g \in net : g.life = life /\ g.ctr = f.ctr => g \in Group(net, f)
      BY <1>3 DEF Group
    <2> QED
      BY <2>1, <2>2 DEF WholeRecord
  <1>6. /\ \A g \in entry.parts : g \in net /\ g.life = life /\ g.ctr = f.ctr
        /\ entry.total = f.total /\ entry.count = f.count
        /\ f.ctr \in DOMAIN entries => entry = entries[f.ctr]
    <2>1. CASE f.ctr \in DOMAIN entries
      <3> DEFINE e == entries[f.ctr]
      <3>1. EntryOK(e, f.ctr, net)
        BY <2>1 DEF Reassembly, EntriesOK
      <3>2. \A g \in e.parts : /\ g \in net /\ g.life = life /\ g.ctr = f.ctr
                               /\ g.total = e.total /\ g.count = e.count
        BY <2>1, <3>1, <1>3 DEF EntryOK, Held
      <3>3. e.parts # {}
        BY <3>1 DEF EntryOK
      <3>4. e.total = f.total /\ e.count = f.count
        BY <3>2, <3>3, <1>5
      <3>5. Joins(f)
        BY <2>1, <3>4, <1>4 DEF Joins
      <3> QED
        BY <3>2, <3>4, <3>5
    <2>2. CASE f.ctr \notin DOMAIN entries
      <3>1. ~Joins(f)
        BY <2>2, <1>4 DEF Joins
      <3> QED
        BY <2>2, <3>1 DEF Entry
    <2> QED
      BY <2>1, <2>2
  <1>7. /\ after.parts = entry.parts \cup {f} /\ after.total = f.total
    <2>1. CASE \E g \in entry.parts : g.index = f.index
      <3>1. after = entry
        BY <2>1 DEF Added
      <3>2. f \in entry.parts
        BY <2>1, <1>5, <1>6
      <3> QED
        BY <3>1, <3>2, <1>6
    <2>2. CASE ~\E g \in entry.parts : g.index = f.index
      <3>1. after = [entry EXCEPT !.parts = @ \cup {f}]
        BY <2>2 DEF Added
      <3>2. entry \in [born : Nat, total : Nat, count : Nat, parts : SUBSET net]
        <4>1. CASE Joins(f)
          <5>1. f.ctr \in DOMAIN entries /\ entry = entries[f.ctr]
            BY <4>1 DEF Joins, Live
          <5> QED
            BY <5>1 DEF Reassembly, EntriesOK, EntryOK
        <4>2. CASE ~Joins(f)
          <5>1. now \in Nat /\ f.total \in Nat /\ f.count \in Nat
            BY DEF Reassembly, RecordsOK
          <5> QED
            BY <4>2, <5>1 DEF Entry
        <4> QED
          BY <4>1, <4>2
      <3> HIDE DEF entry
      <3> QED
        BY <3>1, <3>2, <1>6
    <2> QED
      BY <2>1, <2>2
  <1>8. \A g \in after.parts : g.life = life /\ g.total = f.total
    BY <1>3, <1>5, <1>6, <1>7
  <1> HIDE DEF entry, after, over
  <1>9. \A g \in got : Done(g.ctr) => Done(g.ctr)'
    <2>1. CASE Complete(after)
      <3>1. Open(f.ctr, after.parts)
        BY <1>1, <2>1
      <3> QED
        BY <3>1, <1>2, DoneStays
    <2>2. CASE ~Complete(after)
      BY <2>2, <1>1 DEF Done
    <2> QED
      BY <2>1, <2>2
  <1>10. CASE Complete(after)
    <2>1. Done(f.ctr)'
      <3>1. Open(f.ctr, after.parts) /\ Opens(after.parts)
        BY <1>1, <1>8, <1>10 DEF Opens
      <3> QED
        BY <3>1, <1>2, OpenDone
    <2>2. entries' = [c \in DOMAIN entries \ {f.ctr} |-> entries[c]]
      BY <1>1, <1>3, <1>10
    <2>3. \A c \in DOMAIN entries' : \A g \in entries'[c].parts :
             g.life = life' /\ g.total = entries'[c].total
      BY <2>2, <1>2, <1>3 DEF Held
    <2>4. ASSUME NEW g \in got'
          PROVE  Done(g.ctr)' \/ (g.ctr \in DOMAIN entries' /\ g \in entries'[g.ctr].parts)
      <3>1. CASE g.ctr = f.ctr
        BY <3>1, <2>1 DEF Done
      <3>2. CASE g.ctr # f.ctr
        <4>1. g \in got
          BY <3>2, <1>2
        <4> QED
          BY <3>2, <4>1, <2>2, <1>3, <1>9 DEF Held
      <3> QED
        BY <3>1, <3>2
    <2> QED
      BY <2>3, <2>4 DEF Held, Done
  <1>11. CASE ~Complete(after)
    <2>1. entries' = [c \in DOMAIN entries \cup {f.ctr} |-> IF c = f.ctr THEN after ELSE entries[c]]
      BY <1>1, <1>3, <1>11
    <2>2. \A c \in DOMAIN entries' : \A g \in entries'[c].parts :
             g.life = life' /\ g.total = entries'[c].total
      <3> TAKE c \in DOMAIN entries'
      <3>1. CASE c = f.ctr
        BY <3>1, <2>1, <1>2, <1>7, <1>8
      <3>2. CASE c # f.ctr
        <4>1. c \in DOMAIN entries /\ entries'[c] = entries[c]
          BY <3>2, <2>1
        <4> QED
          BY <4>1, <1>2, <1>3 DEF Held
      <3> QED
        BY <3>1, <3>2
    <2>3. ASSUME NEW g \in got'
          PROVE  Done(g.ctr)' \/ (g.ctr \in DOMAIN entries' /\ g \in entries'[g.ctr].parts)
      <3>1. CASE g = f
        BY <3>1, <2>1, <1>7
      <3>2. CASE g \in got
        <4>1. CASE Done(g.ctr)
          BY <4>1, <3>2, <1>9
        <4>2. CASE g.ctr \in DOMAIN entries /\ g \in entries[g.ctr].parts
          <5>1. CASE g.ctr = f.ctr
            BY <5>1, <4>2, <2>1, <1>6, <1>7
          <5>2. CASE g.ctr # f.ctr
            BY <5>2, <4>2, <2>1
          <5> QED
            BY <5>1, <5>2
        <4> QED
          BY <3>2, <4>1, <4>2, <1>3 DEF Held
      <3> QED
        BY <3>1, <3>2, <1>2
    <2> QED
      BY <2>2, <2>3 DEF Held, Done
  <1> QED
    BY <1>10, <1>11

LEMMA WholeHolds ==
  ASSUME Inv, Reassembly, Arrivals, NEW f \in net, ReceiveWhole(f), calm
  PROVE  Held'
  <1>1. /\ Open(f.ctr, {f}) /\ UNCHANGED <<life, entries>>
        /\ got' = IF f.life = life THEN got \cup {f} ELSE got
    BY DEF ReceiveWhole
  <1>2. Held /\ \A g \in got : g \in net
    BY DEF Arrivals
  <1>3. \A g \in net : g.ctr \in Acceptable /\ g.ctr \in Counter
    BY WindowAssumption DEF Reassembly, NetOK, Acceptable, Counter
  <1>4. \A g \in got : Done(g.ctr) => Done(g.ctr)'
    BY <1>1, <1>2, <1>3, DoneStays
  <1>5. f.life = life => Done(f.ctr)'
    BY <1>1, <1>3, OpenDone DEF Opens
  <1>6. ASSUME NEW g \in got'
        PROVE  Done(g.ctr)' \/ (g.ctr \in DOMAIN entries' /\ g \in entries'[g.ctr].parts)
    <2>1. g \in got \/ (g = f /\ f.life = life)
      BY <1>1
    <2>2. CASE g \in got
      BY <2>2, <1>1, <1>2, <1>4 DEF Held
    <2>3. CASE g = f /\ f.life = life
      BY <2>3, <1>5
    <2> QED
      BY <2>1, <2>2, <2>3
  <1> QED
    BY <1>1, <1>2, <1>6 DEF Held, Done

LEMMA RestartHolds ==
  ASSUME Arrivals, SenderRestarts \/ ReceiverRestarts
  PROVE  Arrivals'
  <1>1. got' = {} /\ net' = net
    BY DEF SenderRestarts, ReceiverRestarts, NewLife
  <1>2. ASSUME calm' PROVE DOMAIN entries' = {}
    <2>1. CASE SenderRestarts
      <3>1. calm' = (calm /\ entries = <<>>) /\ entries' = entries
        BY <2>1 DEF SenderRestarts
      <3>2. entries' = <<>>
        BY <3>1, <1>2
      <3> QED
        BY <3>2
    <2>2. CASE ReceiverRestarts
      BY <2>2 DEF ReceiverRestarts
    <2> QED
      BY <2>1, <2>2
  <1> QED
    BY <1>1, <1>2 DEF Arrivals, WholeRecords, Group, Held

LEMMA ArrivalsAlways == DirectSpec => []Arrivals
  <1>1. DirectInit => Arrivals
    <2> SUFFICES ASSUME DirectInit PROVE Arrivals
      OBVIOUS
    <2>1. net = {} /\ got = {} /\ DOMAIN entries = {}
      BY DEF DirectInit
    <2> QED
      BY <2>1 DEF Arrivals, WholeRecords, Held
  <1>2. Inv /\ Reassembly /\ Arrivals /\ [DirectNext]_directVars => Arrivals'
    <2> SUFFICES ASSUME Inv, Reassembly, Arrivals, [DirectNext]_directVars
                 PROVE  Arrivals'
      OBVIOUS
    <2>1. ASSUME UNCHANGED <<win, accepted, life, entries, got, calm>>,
                 net \subseteq net', WholeRecords(net')
          PROVE  Arrivals'
      <3>1. (calm => Held)'
        BY <2>1 DEF Arrivals, Held, Done
      <3>2. (got \subseteq {f \in net : f.life = life})'
        BY <2>1 DEF Arrivals
      <3> QED
        BY <2>1, <3>1, <3>2 DEF Arrivals, WholeRecords, Group
    <2>2. ASSUME net' = net PROVE WholeRecords(net')
      BY <2>2 DEF Arrivals
    <2>3. ASSUME NEW len \in Length, NEW mtu \in Mtu, Send(len, mtu)
          PROVE  Arrivals'
      <3>1. WholeRecords(net')
        BY <2>3, SendKeepsWhole DEF Arrivals
      <3>2. UNCHANGED <<win, accepted, life, entries, got, calm>> /\ net \subseteq net'
        BY <2>3 DEF Send
      <3> QED
        BY <2>1, <3>1, <3>2
    <2>4. ASSUME NEW f \in net, Ingest(f) \/ ReceiveWhole(f)
          PROVE  Arrivals'
      <3>1. /\ net' = net /\ life' = life
            /\ got' = IF f.life = life THEN got \cup {f} ELSE got
        BY <2>4 DEF Ingest, ReceiveWhole
      <3>2. (got \subseteq {g \in net : g.life = life})'
        BY <3>1 DEF Arrivals
      <3>3. WholeRecords(net)'
        BY <3>1 DEF Arrivals, WholeRecords, Group
      <3>4. ASSUME calm' PROVE Held'
        <4>1. CASE Ingest(f)
          BY <4>1, <3>4, IngestHolds
        <4>2. CASE ReceiveWhole(f)
          <5>1. calm
            BY <3>4, <4>2 DEF ReceiveWhole
          <5> QED
            BY <5>1, <4>2, WholeHolds
        <4> QED
          BY <2>4, <4>1, <4>2
      <3> QED
        BY <3>2, <3>3, <3>4 DEF Arrivals
    <2>5. CASE SenderRestarts \/ ReceiverRestarts
      BY <2>5, RestartHolds
    <2>6. CASE Tick \/ UNCHANGED directVars
      BY <2>1, <2>2, <2>6 DEF Tick, directVars
    <2> QED
      BY <2>3, <2>4, <2>5, <2>6 DEF DirectNext
  <1>3. DirectSpec => []Inv
    BY DirectDrivesWindow, InvHolds, PTL
  <1> QED
    BY <1>1, <1>2, <1>3, ReassemblyAlways, PTL DEF DirectSpec

\* A record of which every packet has arrived is opened, or the window has moved past it,
\* as long as ingest had to drop no entry: for every length, MTU, limit and window, in
\* whatever order its fragments came and however often (ingest, decryptIncoming).
THEOREM ArrivalsOpened == DirectSpec => []ArrivedIsOpened
  <1>1. Reassembly /\ Arrivals => ArrivedIsOpened
    <2> SUFFICES ASSUME Reassembly, Arrivals, calm, NEW f \in got,
                        {g \in net : g.life = life /\ g.ctr = f.ctr} \subseteq got,
                        win.high - f.ctr < WINDOW, f.ctr \notin accepted
                 PROVE  FALSE
      BY DEF ArrivedIsOpened
    <2> DEFINE e == entries[f.ctr]
    <2>1. Held /\ f \in net /\ f.life = life /\ ~Done(f.ctr)
      BY DEF Arrivals, Done
    <2>2. f.ctr \in DOMAIN entries /\ f \in e.parts
      BY <2>1 DEF Held
    <2>3. EntryOK(e, f.ctr, net)
      BY <2>2 DEF Reassembly, EntriesOK
    <2>4. Group(net, f) \subseteq e.parts
      <3> SUFFICES ASSUME NEW g \in Group(net, f) PROVE g \in e.parts
        OBVIOUS
      <3>1. g \in got /\ g.ctr = f.ctr
        BY <2>1 DEF Group
      <3> QED
        BY <3>1, <2>1 DEF Held, Done
    <2>5. e.parts \subseteq Group(net, f)
      BY <2>1, <2>2, <2>3 DEF EntryOK, Held, Group
    <2>6. e.parts = Group(net, f) /\ f \in Group(net, f)
      BY <2>2, <2>4, <2>5
    <2>7. e.total = f.total /\ e.count = f.count
      BY <2>1, <2>2, <2>3 DEF Held, EntryOK
    <2>8. Cardinality(Group(net, f)) = f.count /\ Bytes(Group(net, f)) = f.total
      BY <2>1, <2>6 DEF Arrivals, WholeRecords, WholeRecord
    <2>9. Complete(e)
      BY <2>6, <2>7, <2>8 DEF Complete
    <2> QED
      BY <2>3, <2>9 DEF EntryOK
  <1> QED
    BY <1>1, ReassemblyAlways, ArrivalsAlways, PTL

=============================================================================
