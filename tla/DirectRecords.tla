---------------------------- MODULE DirectRecords ----------------------------
(***************************************************************************)
(* The direct FSP path between two adjacent nodes, in one direction: the   *)
(* sender encrypts records and cuts them to the path MTU, the receiver     *)
(* puts them together (fsp/directTransport.ts) and opens them with the     *)
(* session's replay window (ReplayReceiver).                               *)
(*                                                                         *)
(* Packets may be lost, repeated, delayed and overtaken: what was sent     *)
(* stays in net, and any of it may arrive at any time.  A record is named  *)
(* by the life of its session and its counter; its bytes are left out, but *)
(* their number is kept.  A record whose parts come from different records *)
(* fails to authenticate.                                                  *)
(***************************************************************************)
EXTENDS ReplayReceiver, FiniteSets, FiniteSetsExt

CONSTANTS Length,      \* the lengths of records
          Mtu,         \* the path MTUs
          HeaderLen,   \* DIRECT_FSP_TRANSPORT_FRAGMENT_HEADER_LEN
          MaxLen,      \* DIRECT_FSP_TRANSPORT_MAX_REASSEMBLED_LEN
          MaxFragments,\* DIRECT_FSP_TRANSPORT_MAX_FRAGMENTS
          MaxEntries,  \* MAX_REASSEMBLY_RECORDS
          Ttl,         \* REASSEMBLY_TTL_MS
          MaxTime, MaxSends, MaxLives   \* bounds on a behaviour

ASSUME DirectAssumption ==
    /\ Length \subseteq Nat \ {0} /\ Mtu \subseteq Nat \ {0}
    /\ {HeaderLen, MaxLen, MaxFragments, MaxEntries} \subseteq Nat \ {0}
    /\ {Ttl, MaxTime, MaxSends, MaxLives} \subseteq Nat

VARIABLES life,     \* the lives of the session so far
          next,     \* the sender's next counter
          net,      \* the packets sent
          entries,  \* the reassembler's entries: counter -> entry
          now,      \* the receiver's clock
          got,      \* history: the packets of this life that have arrived
          handed,   \* history: the records put together, as sets of fragments
          calm      \* history: no entry has been dropped before it was complete

directVars == <<win, accepted, taken, life, next, net, entries, now, got, handed, calm>>

-----------------------------------------------------------------------------
(* segmentDirectFspTransportRecord *)

(* Mutant: the last, shorter fragment is not counted. *)
FragmentCountFloor(len, mtu) == len \div (mtu - HeaderLen)

FragmentCount(len, mtu) ==
    LET p == mtu - HeaderLen IN (len + p - 1) \div p

Segmentable(len, mtu) ==
    /\ len <= MaxLen /\ mtu > HeaderLen
    /\ FragmentCount(len, mtu) \in 2 .. MaxFragments

Fragment(c, len, mtu, i) ==
    LET p == mtu - HeaderLen
    IN  [life |-> life, ctr |-> c, total |-> len, count |-> FragmentCount(len, mtu),
         index |-> i, bytes |-> Min({p, len - i * p})]

Fragments(c, len, mtu) ==
    {Fragment(c, len, mtu, i) : i \in 0 .. FragmentCount(len, mtu) - 1}

(* A record that fits goes as it is. *)
Whole(c, len) == {[life |-> life, ctr |-> c, total |-> len, count |-> 1, index |-> 0, bytes |-> len]}

(* sendDirectFsp.  The record has its counter before it is cut, so one that *)
(* cannot be cut leaves a gap.                                             *)
Send(len, mtu) ==
    /\ next < Exhausted /\ Cardinality({<<f.life, f.ctr>> : f \in net}) < MaxSends
    /\ next' = next + 1
    /\ net' = net \cup (IF len <= mtu THEN Whole(next, len)
                        ELSE IF Segmentable(len, mtu) THEN Fragments(next, len, mtu)
                        ELSE {})
    /\ UNCHANGED <<win, accepted, taken, life, entries, now, got, handed, calm>>

-----------------------------------------------------------------------------
(* DirectFspTransportReassembler *)

Bytes(parts) == MapThenSumSet(LAMBDA f : f.bytes, parts)

Entry(f) == [born |-> now, total |-> f.total, count |-> f.count, parts |-> {}]

(* prune *)
Live == {c \in DOMAIN entries : now - entries[c].born <= Ttl}

(* Is there an entry this fragment may join? *)
Joins(f) ==
    /\ f.ctr \in Live
    /\ entries[f.ctr].total = f.total /\ entries[f.ctr].count = f.count

(* reserveEntry: the counters that keep their entries.  Of several that are *)
(* the oldest, the code drops the first in the map; the model drops any.   *)
Kept(f) ==
    IF Joins(f) \/ Cardinality(Live) < MaxEntries THEN {Live}
    ELSE {Live \ {c} : c \in {d \in Live : \A e \in Live : entries[d].born <= entries[e].born}}

(* The entry after the fragment; a fragment that is already there changes  *)
(* nothing.                                                                *)
Added(entry, f) ==
    IF \E g \in entry.parts : g.index = f.index THEN entry
    ELSE [entry EXCEPT !.parts = @ \cup {f}]

(* Mutant: the fragments are taken to come in order. *)
CompleteAtLast(entry) == \E f \in entry.parts : f.index = entry.count - 1

Complete(entry) == Bytes(entry.parts) = entry.total /\ Cardinality(entry.parts) = entry.count

(* All parts are of one record, of the session's present life. *)
Opens(parts) == \A f \in parts : f.life = life

(* decryptIncoming of a record put together from parts. *)
Open(c, parts) ==
    IF Opens(parts) /\ Check(win, c) THEN Receive(c) ELSE UNCHANGED <<win, accepted, taken>>

(* process and ingest, for a fragment that passes ingest's checks. *)
Ingest(f) ==
    /\ f \in net /\ f.count > 1
    /\ \E kept \in Kept(f) :
        LET entry == IF Joins(f) THEN entries[f.ctr] ELSE Entry(f)
            after == Added(entry, f)
            over == Bytes(after.parts) > f.total
            rest == [c \in kept \ {f.ctr} |-> entries[c]]
        IN  /\ entries' = IF over \/ Complete(after) THEN rest
                          ELSE [c \in kept \cup {f.ctr} |-> IF c = f.ctr THEN after ELSE entries[c]]
            /\ IF Complete(after)
               THEN handed' = handed \cup {after.parts} /\ Open(f.ctr, after.parts)
               ELSE UNCHANGED <<handed, win, accepted, taken>>
            /\ calm' = (calm /\ ~over /\ kept = DOMAIN entries /\ f.life = life)
    /\ got' = IF f.life = life THEN got \cup {f} ELSE got
    /\ UNCHANGED <<life, next, net, now>>

(* process, for a record that came in one packet. *)
ReceiveWhole(f) ==
    /\ f \in net /\ f.count = 1
    /\ Open(f.ctr, {f})
    /\ got' = IF f.life = life THEN got \cup {f} ELSE got
    /\ UNCHANGED <<life, next, net, entries, now, handed, calm>>

-----------------------------------------------------------------------------
(* Restarts and time *)

NewLife == life' = life + 1 /\ next' = 0 /\ got' = {} /\ Reset

(* The sender restarts: replaceRestartedSession gives the receiver a new   *)
(* session; the reassembler still has what it had from the same address.   *)
SenderRestarts ==
    /\ life < MaxLives
    /\ NewLife
    /\ calm' = (calm /\ entries = <<>>)
    /\ UNCHANGED <<net, entries, now, handed>>

(* The receiver restarts: clear. *)
ReceiverRestarts ==
    /\ life < MaxLives
    /\ NewLife
    /\ entries' = <<>>
    /\ UNCHANGED <<net, now, handed, calm>>

Tick ==
    /\ now < MaxTime
    /\ now' = now + 1
    /\ UNCHANGED <<win, accepted, taken, life, next, net, entries, got, handed, calm>>

DirectInit ==
    /\ Init
    /\ life = 1 /\ next = 0 /\ now = 0
    /\ net = {} /\ got = {} /\ handed = {}
    /\ entries = <<>>
    /\ calm = TRUE

DirectNext ==
    \/ \E len \in Length, mtu \in Mtu : Send(len, mtu)
    \/ \E f \in net : Ingest(f) \/ ReceiveWhole(f)
    \/ SenderRestarts \/ ReceiverRestarts
    \/ Tick

DirectSpec == DirectInit /\ [][DirectNext]_directVars

-----------------------------------------------------------------------------
(* The type invariant of the reassembler: it keeps at most                 *)
(* MAX_REASSEMBLY_RECORDS entries; an entry holds fragments of its own     *)
(* counter, never more bytes than the record has, and is gone once it is   *)
(* complete.                                                               *)
DirectTypeOK ==
    /\ Cardinality(DOMAIN entries) <= MaxEntries
    /\ \A c \in DOMAIN entries :
        /\ entries[c].parts # {} /\ ~(Bytes(entries[c].parts) > entries[c].total)
        /\ ~Complete(entries[c])
        /\ \A f \in entries[c].parts : f.ctr = c /\ f.index < entries[c].count

SentAsRecord(parts) ==
    \E f \in net : parts = {g \in net : g.life = f.life /\ g.ctr = f.ctr}

(* What ingest hands up in the first life of a session is a record as it   *)
(* was sent, whatever order its fragments came in and however often: all   *)
(* its fragments, and no other's. (In a later life it may mix the two      *)
(* lives' fragments of one counter; such a record fails to authenticate.)  *)
HandedAsSent == life = 1 => \A parts \in handed : SentAsRecord(parts)

(* The reassembler holds no more than it may, and what it hands up is whole. *)
DirectInv == DirectTypeOK /\ HandedAsSent

(* A record whose fragments have all arrived is opened, unless the window  *)
(* has moved past it: duplicates that came before or after the rest do not *)
(* hold it up. It is promised while no entry was dropped for its age or    *)
(* for want of room, and no fragment of an earlier life has come.          *)
ArrivedIsOpened ==
    calm => \A f \in got :
        /\ {g \in net : g.life = life /\ g.ctr = f.ctr} \subseteq got
        /\ win.high - f.ctr < WINDOW
        => f.ctr \in accepted

=============================================================================
