--------------------------- MODULE Routing_proofs ---------------------------
(***************************************************************************)
(* The two halves of FipsRouting that share no state.                      *)
(*                                                                         *)
(* The lookup registry, for any number of callers, targets, request ids    *)
(* and any limits: the two indexes hold exactly the pending lookups, and a *)
(* caller only ever returns with an answer that fits what it asked for.    *)
(*                                                                         *)
(* The spanning tree, for any mesh, addresses and faults: every ancestry   *)
(* that a node holds or announces is a path without repetition to the      *)
(* lowest node on it, and once nothing is in flight every node is on a     *)
(* shortest path to the lowest node within reach, has exact filters up to  *)
(* clients that left, and routes that arrive.                              *)
(***************************************************************************)
EXTENDS OriginLookup, SpanningTree, FiniteSetTheorems, WellFoundedInduction, TLAPS

-----------------------------------------------------------------------------
(* The registry: the inductive invariant                                   *)

\* A call that has not created a lookup has none under its name.
CreatedOnce ==
    \A c \in Call :
        \/ calls[c].state = "idle"
        \/ calls[c].state = "awaiting" /\ calls[c].on # c
        => lookups[c].status = "none"

\* A resolved lookup was answered for its target, with the capacity it asked for.
AnswersOK ==
    \A o \in Call :
        lookups[o].status = "resolved" =>
            /\ lookups[o].answer \in Target \X Mtu
            /\ lookups[o].answer[1] = lookups[o].target
            /\ lookups[o].answer[2] >= lookups[o].minMtu

\* A caller waits on a lookup for its target, and its own asks for what it asked.
WaitersOK ==
    \A c \in Call :
        calls[c].state \in {"awaiting", "returned"} =>
            /\ calls[c].on \in Call
            /\ lookups[calls[c].on].status # "none"
            /\ lookups[calls[c].on].target = calls[c].target
            /\ calls[c].target \in Target
            /\ calls[c].on = c => lookups[c].minMtu = calls[c].mtu

ReturnedOK ==
    \A c \in Call :
        calls[c].state = "returned" =>
            /\ lookups[calls[c].on].status = "resolved"
            /\ Enough(c)

\* A lookup that was created has a target; a loop runs only for such a lookup.
Targeted ==
    \A o \in Call :
        lookups[o].status # "none" \/ lookups[o].loop # "none" =>
            lookups[o].target \in Target

Inv == /\ TypeOK /\ IndexesAgree /\ Targeted
       /\ CreatedOnce /\ AnswersOK /\ WaitersOK /\ ReturnedOK

-----------------------------------------------------------------------------
LEMMA InitOK == Init => Inv
  <1> SUFFICES ASSUME Init
               PROVE  Inv
    OBVIOUS
  <1>1. NoLookup \in Lookup
    BY LookupAssumption DEF NoLookup, Lookup
  <1>2. TypeOK
    BY <1>1, LookupAssumption DEF Init, TypeOK, CallState
  <1>3. \A o \in Call : lookups[o] = NoLookup /\ calls[o].state = "idle"
    BY DEF Init
  <1>4. \A o \in Call : /\ ~Pending(o)
                        /\ lookups[o].status = "none" /\ lookups[o].loop = "none"
    BY <1>3 DEF NoLookup, Pending
  <1>5. IndexesAgree
    BY <1>4, LookupAssumption DEF Init, IndexesAgree
  <1> QED
    BY <1>2, <1>3, <1>4, <1>5
    DEF Inv, Targeted, CreatedOnce, AnswersOK, WaitersOK, ReturnedOK

\* A step that changes nothing of a lookup but its loop and its clocks.
LEMMA LoopStep ==
    ASSUME Inv, lookups' \in [Call -> Lookup],
           \A o \in Call :
               /\ lookups'[o].status = lookups[o].status
               /\ lookups'[o].target = lookups[o].target
               /\ lookups'[o].minMtu = lookups[o].minMtu
               /\ lookups'[o].ids = lookups[o].ids
               /\ lookups'[o].answer = lookups[o].answer
               /\ lookups'[o].loop # "none" => lookups[o].loop # "none",
           UNCHANGED <<calls, byTarget, byRequest, requests>>
    PROVE  Inv'
  <1>1. TypeOK'
    BY DEF Inv, TypeOK
  <1>2. \A o \in Call : Pending(o)' <=> Pending(o)
    BY DEF Pending
  <1>3. IndexesAgree' /\ Targeted'
    BY <1>2 DEF Inv, IndexesAgree, Targeted
  <1>4. CreatedOnce' /\ AnswersOK'
    BY DEF Inv, CreatedOnce, AnswersOK
  <1>5. WaitersOK' /\ ReturnedOK'
    BY DEF Inv, WaitersOK, ReturnedOK, Enough
  <1> QED
    BY <1>1, <1>3, <1>4, <1>5 DEF Inv

\* A pending lookup leaves both indexes and becomes l.
LEMMA SettleStep ==
    ASSUME Inv, NEW o \in Call, Pending(o), Remove(o),
           NEW l \in Lookup, lookups' = [lookups EXCEPT ![o] = l],
           l.status \in {"resolved", "rejected"}, l.ids = {},
           l.target = lookups[o].target, l.minMtu = lookups[o].minMtu,
           l.status = "resolved" => /\ l.answer \in Target \X Mtu
                                    /\ l.answer[1] = l.target
                                    /\ l.answer[2] >= l.minMtu,
           UNCHANGED <<calls, requests>>
    PROVE  Inv'
  <1>1. /\ lookups \in [Call -> Lookup]
        /\ byTarget \in [Target -> Call \cup {None}]
        /\ byRequest \in [RequestId -> Call \cup {None}]
        /\ lookups[o].target \in Target
        /\ lookups[o].status = "pending"
    BY DEF Inv, TypeOK, Targeted, Pending
  <1>2. /\ lookups' \in [Call -> Lookup]
        /\ lookups'[o] = l
        /\ \A x \in Call : x # o => lookups'[x] = lookups[x]
    BY <1>1
  <1>3. TypeOK'
    BY <1>1, <1>2 DEF Remove, Inv, TypeOK
  <1>4. ~Pending(o)' /\ \A x \in Call : x # o => (Pending(x)' <=> Pending(x))
    BY <1>2 DEF Pending
  <1>5. ASSUME NEW x \in Call, NEW t \in Target
        PROVE  byTarget'[t] = x <=> Pending(x)' /\ lookups'[x].target = t
    BY <1>1, <1>2, <1>4, LookupAssumption DEF Remove, Inv, IndexesAgree
  <1>6. ASSUME NEW x \in Call, NEW i \in RequestId
        PROVE  byRequest'[i] = x <=> Pending(x)' /\ i \in lookups'[x].ids
    <2>1. byRequest'[i] = IF i \in lookups[o].ids THEN None ELSE byRequest[i]
      BY DEF Remove
    <2>2. byRequest[i] = o <=> i \in lookups[o].ids
      BY <1>1 DEF Inv, IndexesAgree, Pending
    <2>3. CASE x = o
      BY <1>4, <2>1, <2>2, <2>3, LookupAssumption
    <2>4. CASE x # o
      BY <1>2, <1>4, <2>1, <2>2, <2>4, LookupAssumption DEF Inv, IndexesAgree
    <2> QED
      BY <2>3, <2>4
  <1>7. IndexesAgree'
    BY <1>5, <1>6 DEF IndexesAgree
  <1>8. Targeted' /\ AnswersOK'
    <2>1. Targeted'
      BY <1>1, <1>2 DEF Inv, Targeted
    <2>2. AnswersOK'
      BY <1>2 DEF Inv, AnswersOK
    <2> QED
      BY <2>1, <2>2
  <1>9. CreatedOnce'
    BY <1>1, <1>2 DEF Inv, CreatedOnce
  <1>10. WaitersOK'
    BY <1>1, <1>2 DEF Inv, WaitersOK
  <1>11. ReturnedOK'
    <2> SUFFICES ASSUME NEW c \in Call, calls'[c].state = "returned"
                 PROVE  lookups'[calls'[c].on].status = "resolved" /\ Enough(c)'
      BY DEF ReturnedOK
    <2>1. calls[c].on \in Call /\ lookups[calls[c].on].status = "resolved" /\ Enough(c)
      BY DEF Inv, WaitersOK, ReturnedOK
    <2>2. calls[c].on # o
      BY <1>1, <2>1
    <2> QED
      BY <1>2, <2>1, <2>2 DEF Enough
  <1> QED
    BY <1>3, <1>7, <1>8, <1>9, <1>10, <1>11 DEF Inv

\* What Settled leaves of a pending lookup.
LEMMA SettledType ==
    ASSUME Inv, NEW o \in Call, NEW status \in {"resolved", "rejected"},
           NEW answer \in (Target \X Mtu) \cup {None},
           NEW loop \in {"none", "sending", "sleeping", "done"}
    PROVE  /\ Settled(o, status, answer, loop) \in Lookup
           /\ Settled(o, status, answer, loop).status = status
           /\ Settled(o, status, answer, loop).ids = {}
           /\ Settled(o, status, answer, loop).target = lookups[o].target
           /\ Settled(o, status, answer, loop).minMtu = lookups[o].minMtu
           /\ Settled(o, status, answer, loop).answer = answer
  <1>1. lookups[o] \in Lookup
    BY DEF Inv, TypeOK
  <1>2. 1 \in 1 .. MaxInterval /\ 0 \in 0 .. MaxInterval /\ 0 \in 0 .. Timeout
    BY LookupAssumption
  <1> QED
    BY <1>1, <1>2 DEF Settled, Lookup

LEMMA ShareOK ==
    ASSUME Inv, NEW c \in Call, NEW kind \in {"first", "transit"}, NEW t \in Target,
           NEW mtu \in Mtu, lookups[c].status = "none", Share(c, kind, t, mtu)
    PROVE  Inv'
  <1> DEFINE o == byTarget[t]
  <1>1. /\ calls \in [Call -> CallState]
        /\ lookups \in [Call -> Lookup]
        /\ o \in Call
    BY DEF Inv, TypeOK, Share
  <1>2. Pending(o) /\ lookups[o].target = t
    BY <1>1 DEF Inv, IndexesAgree
  <1>3. o # c
    BY <1>2 DEF Pending
  <1> HIDE DEF o
  <1>4. CallRecord("awaiting", kind, t, mtu, o) \in CallState
    BY <1>1 DEF CallRecord, CallState
  <1>5. /\ calls' \in [Call -> CallState]
        /\ calls'[c] = CallRecord("awaiting", kind, t, mtu, o)
        /\ \A x \in Call : x # c => calls'[x] = calls[x]
    BY <1>1, <1>4 DEF Share, o
  <1>6. UNCHANGED <<lookups, byTarget, byRequest, requests>>
    BY DEF Share
  <1>7. TypeOK'
    BY <1>5, <1>6 DEF Inv, TypeOK
  <1>8. IndexesAgree' /\ Targeted' /\ AnswersOK'
    BY <1>6 DEF Inv, IndexesAgree, Targeted, AnswersOK, Pending
  <1>9. CreatedOnce'
    BY <1>5, <1>6 DEF Inv, CreatedOnce, CallRecord
  <1>10. WaitersOK'
    BY <1>1, <1>2, <1>3, <1>5, <1>6 DEF Inv, WaitersOK, CallRecord, Pending
  <1>11. ReturnedOK'
    BY <1>5, <1>6 DEF Inv, ReturnedOK, CallRecord, Enough
  <1> QED
    BY <1>7, <1>8, <1>9, <1>10, <1>11 DEF Inv

LEMMA RefuseOK ==
    ASSUME Inv, NEW c \in Call, NEW kind \in {"first", "transit"}, NEW t \in Target,
           NEW mtu \in Mtu, Refuse(c, kind, t, mtu)
    PROVE  Inv'
  <1>1. calls \in [Call -> CallState] /\ lookups \in [Call -> Lookup]
    BY DEF Inv, TypeOK
  <1>2. CallRecord("failed", kind, t, mtu, None) \in CallState
    BY DEF CallRecord, CallState
  <1>3. /\ calls' \in [Call -> CallState]
        /\ calls'[c].state = "failed"
        /\ \A x \in Call : x # c => calls'[x] = calls[x]
        /\ UNCHANGED <<lookups, byTarget, byRequest, requests>>
    BY <1>1, <1>2 DEF Refuse, CallRecord
  <1>4. TypeOK'
    BY <1>3 DEF Inv, TypeOK
  <1>5. IndexesAgree' /\ Targeted' /\ AnswersOK'
    BY <1>3 DEF Inv, IndexesAgree, Targeted, AnswersOK, Pending
  <1>6. CreatedOnce' /\ WaitersOK'
    BY <1>3 DEF Inv, CreatedOnce, WaitersOK
  <1>7. ReturnedOK'
    BY <1>3 DEF Inv, ReturnedOK, Enough
  <1> QED
    BY <1>4, <1>5, <1>6, <1>7 DEF Inv

LEMMA FinishOK ==
    ASSUME Inv, NEW c \in Call, NEW state \in {"returned", "failed"}, Finish(c, state),
           calls[c].state = "awaiting",
           state = "returned" => /\ lookups[calls[c].on].status = "resolved"
                                 /\ calls[c].on = c \/ Enough(c)
    PROVE  Inv'
  <1>1. calls \in [Call -> CallState] /\ lookups \in [Call -> Lookup]
    BY DEF Inv, TypeOK
  <1>2. /\ calls' \in [Call -> CallState]
        /\ calls'[c].state = state
        /\ calls'[c].kind = calls[c].kind /\ calls'[c].target = calls[c].target
        /\ calls'[c].mtu = calls[c].mtu /\ calls'[c].on = calls[c].on
        /\ \A x \in Call : x # c => calls'[x] = calls[x]
        /\ UNCHANGED <<lookups, byTarget, byRequest, requests>>
    BY <1>1 DEF Finish, CallState
  <1>3. TypeOK'
    BY <1>2 DEF Inv, TypeOK
  <1>4. IndexesAgree' /\ Targeted' /\ AnswersOK'
    BY <1>2 DEF Inv, IndexesAgree, Targeted, AnswersOK, Pending
  <1>5. CreatedOnce'
    BY <1>2 DEF Inv, CreatedOnce
  <1>6. WaitersOK'
    BY <1>2 DEF Inv, WaitersOK
  <1>7. state = "returned" => Enough(c)
    <2>1. CASE calls[c].on = c
      <3>1. lookups[c].minMtu = calls[c].mtu
        BY <2>1 DEF Inv, WaitersOK
      <3>2. calls[c].mtu \in Nat
        BY <1>1, LookupAssumption DEF CallState
      <3> QED
        BY <2>1, <3>1, <3>2 DEF Enough
    <2> QED
      BY <2>1
  <1>8. ReturnedOK'
    BY <1>2, <1>7 DEF Inv, ReturnedOK, Enough
  <1> QED
    BY <1>3, <1>4, <1>5, <1>6, <1>8 DEF Inv

LEMMA CreateOK ==
    ASSUME Inv, NEW c \in Call, NEW kind \in {"first", "transit"}, NEW t \in Target,
           NEW mtu \in Mtu, lookups[c].status = "none", Create(c, kind, t, mtu)
    PROVE  Inv'
  <1>1. /\ calls \in [Call -> CallState]
        /\ lookups \in [Call -> Lookup]
        /\ byTarget \in [Target -> Call \cup {None}]
        /\ byRequest \in [RequestId -> Call \cup {None}]
    BY DEF Inv, TypeOK
  <1>2. PICK i \in RequestId :
          /\ byRequest[i] = None
          /\ byRequest' = [byRequest EXCEPT ![i] = c]
          /\ requests' = requests \cup {<<i, t>>}
          /\ lookups' = [lookups EXCEPT ![c] =
                [status |-> "pending", target |-> t, minMtu |-> mtu, ids |-> {i},
                 id |-> i, loop |-> "sending", interval |-> 1, left |-> 0, age |-> 0,
                 answer |-> None]]
    BY DEF Create
  <1> DEFINE l == [status |-> "pending", target |-> t, minMtu |-> mtu, ids |-> {i},
                   id |-> i, loop |-> "sending", interval |-> 1, left |-> 0, age |-> 0,
                   answer |-> None]
             k == CallRecord("awaiting", kind, t, mtu, c)
  <1>3. l \in Lookup
    <2>1. 1 \in 1 .. MaxInterval /\ 0 \in 0 .. MaxInterval /\ 0 \in 0 .. Timeout
      BY LookupAssumption
    <2> QED
      BY <2>1 DEF Lookup
  <1>4. k \in CallState
    BY DEF CallRecord, CallState
  <1>5. /\ l.status = "pending" /\ l.target = t /\ l.minMtu = mtu /\ l.ids = {i}
        /\ k.state = "awaiting" /\ k.target = t /\ k.mtu = mtu /\ k.on = c
    BY DEF CallRecord
  <1>6. lookups' = [lookups EXCEPT ![c] = l] /\ calls' = [calls EXCEPT ![c] = k]
    BY <1>2 DEF Create
  <1> HIDE DEF l, k
  <1>7. /\ lookups' \in [Call -> Lookup] /\ calls' \in [Call -> CallState]
        /\ lookups'[c] = l /\ calls'[c] = k
        /\ \A x \in Call : x # c => lookups'[x] = lookups[x] /\ calls'[x] = calls[x]
    BY <1>1, <1>3, <1>4, <1>6
  <1>8. TypeOK'
    <2>1. byTarget' \in [Target -> Call \cup {None}]
      BY <1>1 DEF Create
    <2>2. byRequest' \in [RequestId -> Call \cup {None}]
      BY <1>1, <1>2
    <2>3. requests' \subseteq RequestId \X Target
      BY <1>2 DEF Inv, TypeOK
    <2> QED
      BY <1>7, <2>1, <2>2, <2>3 DEF TypeOK
  <1>9. /\ Pending(c)' /\ ~Pending(c)
        /\ \A x \in Call : x # c => (Pending(x)' <=> Pending(x))
    BY <1>5, <1>7 DEF Pending
  <1>10. ASSUME NEW x \in Call, NEW u \in Target
         PROVE  byTarget'[u] = x <=> Pending(x)' /\ lookups'[x].target = u
    <2>1. byTarget'[u] = IF u = t THEN c ELSE byTarget[u]
      BY <1>1 DEF Create
    <2>2. byTarget[u] = x <=> Pending(x) /\ lookups[x].target = u
      BY DEF Inv, IndexesAgree
    <2>3. byTarget[t] = None
      BY DEF Create
    <2>4. CASE x = c
      BY <1>5, <1>7, <1>9, <2>1, <2>2, <2>4
    <2>5. CASE x # c
      BY <1>7, <1>9, <2>1, <2>2, <2>3, <2>5, LookupAssumption
    <2> QED
      BY <2>4, <2>5
  <1>11. ASSUME NEW x \in Call, NEW j \in RequestId
         PROVE  byRequest'[j] = x <=> Pending(x)' /\ j \in lookups'[x].ids
    <2>1. byRequest'[j] = IF j = i THEN c ELSE byRequest[j]
      BY <1>1, <1>2
    <2>2. byRequest[j] = x <=> Pending(x) /\ j \in lookups[x].ids
      BY DEF Inv, IndexesAgree
    <2>3. CASE x = c
      BY <1>5, <1>7, <1>9, <2>1, <2>2, <2>3
    <2>4. CASE x # c
      BY <1>2, <1>7, <1>9, <2>1, <2>2, <2>4, LookupAssumption
    <2> QED
      BY <2>3, <2>4
  <1>12. IndexesAgree'
    BY <1>10, <1>11 DEF IndexesAgree
  <1>13. Targeted' /\ AnswersOK'
    BY <1>5, <1>7, <1>9 DEF Inv, Targeted, AnswersOK
  <1>14. CreatedOnce'
    BY <1>5, <1>7 DEF Inv, CreatedOnce
  <1>15. WaitersOK'
    <2> SUFFICES ASSUME NEW x \in Call, calls'[x].state \in {"awaiting", "returned"}
                 PROVE  /\ calls'[x].on \in Call
                        /\ lookups'[calls'[x].on].status # "none"
                        /\ lookups'[calls'[x].on].target = calls'[x].target
                        /\ calls'[x].target \in Target
                        /\ calls'[x].on = x => lookups'[x].minMtu = calls'[x].mtu
      BY DEF WaitersOK
    <2>1. CASE x = c
      BY <1>5, <1>7, <2>1
    <2>2. CASE x # c
      <3>1. calls[x].on # c
        BY <1>7, <2>2 DEF Inv, WaitersOK
      <3> QED
        BY <1>7, <2>2, <3>1 DEF Inv, WaitersOK
    <2> QED
      BY <2>1, <2>2
  <1>16. ReturnedOK'
    <2> SUFFICES ASSUME NEW x \in Call, calls'[x].state = "returned"
                 PROVE  lookups'[calls'[x].on].status = "resolved" /\ Enough(x)'
      BY DEF ReturnedOK
    <2>1. x # c
      BY <1>5, <1>7
    <2>2. /\ calls'[x] = calls[x] /\ calls[x].on \in Call
          /\ lookups[calls[x].on].status = "resolved" /\ Enough(x)
      BY <1>7, <2>1 DEF Inv, WaitersOK, ReturnedOK
    <2>3. lookups'[calls[x].on] = lookups[calls[x].on]
      BY <1>7, <2>2
    <2> QED
      BY <2>2, <2>3 DEF Enough
  <1> QED
    BY <1>8, <1>12, <1>13, <1>14, <1>15, <1>16 DEF Inv

LEMMA BeginOK ==
    ASSUME Inv, NEW c \in Call, NEW kind \in {"first", "transit"}, NEW t \in Target,
           NEW mtu \in Mtu, lookups[c].status = "none", Begin(c, kind, t, mtu)
    PROVE  Inv'
  BY ShareOK, CreateOK, RefuseOK DEF Begin

LEMMA InvokeOK ==
    ASSUME Inv, NEW c \in Call, Invoke(c)
    PROVE  Inv'
  <1>1. lookups[c].status = "none"
    BY DEF Invoke, Inv, CreatedOnce
  <1>2. PICK t \in Target : \/ Begin(c, "first", t, 0)
                            \/ \E mtu \in Mtu : Begin(c, "transit", t, mtu)
    BY DEF Invoke
  <1> QED
    BY <1>1, <1>2, BeginOK, LookupAssumption

LEMMA ResumeOK ==
    ASSUME Inv, NEW c \in Call, Resume(c)
    PROVE  Inv'
  <1> DEFINE o == calls[c].on
  <1>1. /\ calls[c].state = "awaiting" /\ calls[c].kind \in {"first", "transit"}
        /\ calls[c].target \in Target /\ calls[c].mtu \in Mtu
    BY DEF Resume, Inv, TypeOK, CallState, WaitersOK
  <1>2. CASE lookups[o].status = "rejected" /\ Finish(c, "failed")
    BY <1>1, <1>2, FinishOK
  <1>3. CASE lookups[o].status = "resolved" /\ (o = c \/ Enough(c)) /\ Finish(c, "returned")
    BY <1>1, <1>3, FinishOK
  <1>4. CASE o # c /\ Begin(c, calls[c].kind, calls[c].target, calls[c].mtu)
    <2>1. lookups[c].status = "none"
      BY <1>1, <1>4 DEF Inv, CreatedOnce
    <2> QED
      BY <1>1, <1>4, <2>1, BeginOK
  <1> QED
    BY <1>2, <1>3, <1>4 DEF Resume

LEMMA SendSettlesOK ==
    ASSUME Inv, NEW o \in Call, SendSettles(o)
    PROVE  Inv'
  <1>1. lookups \in [Call -> Lookup] /\ lookups[o] \in Lookup
    BY DEF Inv, TypeOK
  <1>2. lookups[o].interval \in 0 .. MaxInterval /\ 0 \in 0 .. MaxInterval
    BY <1>1, LookupAssumption DEF Lookup
  <1>3. lookups' \in [Call -> Lookup]
    BY <1>1, <1>2 DEF SendSettles, Lookup
  <1>4. \A x \in Call : /\ lookups'[x].status = lookups[x].status
                        /\ lookups'[x].target = lookups[x].target
                        /\ lookups'[x].minMtu = lookups[x].minMtu
                        /\ lookups'[x].ids = lookups[x].ids
                        /\ lookups'[x].answer = lookups[x].answer
                        /\ lookups'[x].loop # "none" => lookups[x].loop # "none"
    BY <1>1 DEF SendSettles, Lookup
  <1> QED
    BY <1>3, <1>4, LoopStep DEF SendSettles

LEMMA LoopEndsOK ==
    ASSUME Inv, NEW o \in Call, LoopEnds(o)
    PROVE  Inv'
  <1>1. lookups \in [Call -> Lookup] /\ lookups[o] \in Lookup
    BY DEF Inv, TypeOK
  <1>2. lookups' \in [Call -> Lookup]
    BY <1>1 DEF LoopEnds, Lookup
  <1>3. \A x \in Call : /\ lookups'[x].status = lookups[x].status
                        /\ lookups'[x].target = lookups[x].target
                        /\ lookups'[x].minMtu = lookups[x].minMtu
                        /\ lookups'[x].ids = lookups[x].ids
                        /\ lookups'[x].answer = lookups[x].answer
                        /\ lookups'[x].loop # "none" => lookups[x].loop # "none"
    BY <1>1 DEF LoopEnds, Lookup
  <1> QED
    BY <1>2, <1>3, LoopStep DEF LoopEnds

LEMMA TickOK ==
    ASSUME Inv, Tick
    PROVE  Inv'
  <1>1. lookups \in [Call -> Lookup]
    BY DEF Inv, TypeOK
  <1>2. ASSUME NEW x \in Call
        PROVE  /\ lookups'[x] \in Lookup
               /\ lookups'[x].status = lookups[x].status
               /\ lookups'[x].target = lookups[x].target
               /\ lookups'[x].minMtu = lookups[x].minMtu
               /\ lookups'[x].ids = lookups[x].ids
               /\ lookups'[x].answer = lookups[x].answer
               /\ lookups'[x].loop # "none" => lookups[x].loop # "none"
    <2>1. CASE ~Pending(x)
      BY <1>1, <2>1 DEF Tick
    <2>2. CASE Pending(x)
      <3> DEFINE left == IF lookups[x].left > 0 THEN lookups[x].left - 1 ELSE 0
      <3>1. lookups[x].age \in 0 .. Timeout /\ lookups[x].left \in 0 .. MaxInterval
        BY <1>1 DEF Lookup
      <3>2. lookups[x].age < Timeout
        BY <2>2 DEF Tick
      <3>3. lookups[x].age + 1 \in 0 .. Timeout /\ left \in 0 .. MaxInterval
        BY <3>1, <3>2, LookupAssumption
      <3>4. lookups'[x] = [lookups[x] EXCEPT !.age = lookups[x].age + 1, !.left = left]
        BY <2>2 DEF Tick
      <3> HIDE DEF left
      <3>5. lookups[x] \in Lookup
        BY <1>1
      <3>6. [lookups[x] EXCEPT !.age = lookups[x].age + 1] \in Lookup
        BY <3>3, <3>5 DEF Lookup
      <3>7. lookups'[x] \in Lookup
        BY <3>3, <3>4, <3>6 DEF Lookup
      <3> QED
        BY <3>4, <3>5, <3>7 DEF Lookup
    <2> QED
      BY <2>1, <2>2
  <1>3. lookups' \in [Call -> Lookup]
    BY <1>2 DEF Tick
  <1> QED
    BY <1>2, <1>3, LoopStep DEF Tick

LEMMA RetryFailsOK ==
    ASSUME Inv, NEW o \in Call, RetryFails(o)
    PROVE  Inv'
  <1>1. PICK l \in Lookup : l = Settled(o, "rejected", None, "done")
    BY SettledType
  <1>2. /\ l.status = "rejected" /\ l.ids = {} /\ l.target = lookups[o].target
        /\ l.minMtu = lookups[o].minMtu
    BY <1>1 DEF Settled
  <1>3. /\ Pending(o) /\ Remove(o) /\ lookups' = [lookups EXCEPT ![o] = l]
        /\ UNCHANGED <<calls, requests>>
    BY <1>1 DEF RetryFails
  <1> QED
    BY <1>2, <1>3, SettleStep

LEMMA DeadlineOK ==
    ASSUME Inv, NEW o \in Call, Deadline(o)
    PROVE  Inv'
  <1>1. lookups[o].loop \in {"none", "sending", "sleeping", "done"}
    BY DEF Inv, TypeOK, Lookup
  <1>2. PICK l \in Lookup : l = Settled(o, "rejected", None, lookups[o].loop)
    BY <1>1, SettledType
  <1>3. /\ l.status = "rejected" /\ l.ids = {} /\ l.target = lookups[o].target
        /\ l.minMtu = lookups[o].minMtu
    BY <1>2 DEF Settled
  <1>4. /\ Pending(o) /\ Remove(o) /\ lookups' = [lookups EXCEPT ![o] = l]
        /\ UNCHANGED <<calls, requests>>
    BY <1>2 DEF Deadline, Indexed
  <1> QED
    BY <1>3, <1>4, SettleStep

LEMMA RespondOK ==
    ASSUME Inv, NEW q \in requests, NEW mtu \in Mtu, Respond(q, mtu)
    PROVE  Inv'
  <1>1. q[1] \in RequestId /\ q[2] \in Target
    BY DEF Inv, TypeOK
  <1>2. PICK o \in Call : o = byRequest[q[1]]
    BY <1>1 DEF Respond, Inv, TypeOK
  <1>3. lookups[o].loop \in {"none", "sending", "sleeping", "done"}
    BY <1>2 DEF Inv, TypeOK, Lookup
  <1>4. PICK l \in Lookup : l = Settled(o, "resolved", <<q[2], mtu>>, lookups[o].loop)
    BY <1>1, <1>3, SettledType
  <1>5. lookups[o].target = q[2] /\ mtu >= lookups[o].minMtu
    BY <1>2 DEF Respond, MatchesTarget
  <1>6. /\ Pending(o) /\ Remove(o) /\ lookups' = [lookups EXCEPT ![o] = l]
        /\ UNCHANGED <<calls, requests>>
    BY <1>2, <1>4 DEF Respond, Indexed
  <1>7. /\ l.status = "resolved" /\ l.ids = {} /\ l.target = lookups[o].target
        /\ l.minMtu = lookups[o].minMtu /\ l.answer = <<q[2], mtu>>
    BY <1>4 DEF Settled
  <1>8. /\ l.answer \in Target \X Mtu
        /\ l.answer[1] = l.target
        /\ l.answer[2] >= l.minMtu
    BY <1>1, <1>5, <1>7
  <1> QED
    BY <1>6, <1>7, <1>8, SettleStep

LEMMA RetryOK ==
    ASSUME Inv, NEW o \in Call, Retry(o)
    PROVE  Inv'
  <1>1. /\ lookups \in [Call -> Lookup] /\ lookups[o] \in Lookup
        /\ byTarget \in [Target -> Call \cup {None}]
        /\ byRequest \in [RequestId -> Call \cup {None}]
    BY DEF Inv, TypeOK
  <1>2. byTarget[lookups[o].target] = o
    BY DEF Retry, LoopGoesOn
  <1>3. PICK i \in RequestId :
          /\ byRequest[i] = None
          /\ byRequest' = [byRequest EXCEPT ![i] = o]
          /\ lookups' = [[lookups EXCEPT ![o].ids = @ \cup {i}, ![o].id = i]
                            EXCEPT ![o].loop = "sending",
                                   ![o].interval = NextInterval(lookups[o].interval)]
    BY <1>2 DEF Retry
  <1> DEFINE n == NextInterval(lookups[o].interval)
  <1>4. n \in 1 .. MaxInterval
    <2>1. lookups[o].interval \in 1 .. MaxInterval
      BY <1>1 DEF Lookup
    <2> QED
      BY <2>1, LookupAssumption DEF NextInterval
  <1> DEFINE mid == [lookups EXCEPT ![o].ids = @ \cup {i}, ![o].id = i]
             run == [mid EXCEPT ![o].loop = "sending"]
  <1>5. /\ mid \in [Call -> Lookup]
        /\ mid[o].ids = lookups[o].ids \cup {i} /\ mid[o].id = i
        /\ mid[o].status = lookups[o].status /\ mid[o].target = lookups[o].target
        /\ mid[o].minMtu = lookups[o].minMtu /\ mid[o].answer = lookups[o].answer
        /\ \A x \in Call : x # o => mid[x] = lookups[x]
    <2> DEFINE rec == [lookups[o] EXCEPT !.ids = @ \cup {i}, !.id = i]
    <2>1. lookups[o] \in Lookup
      BY <1>1
    <2>2. rec \in Lookup
      BY <1>1, <2>1 DEF Lookup
    <2>3. /\ rec.ids = lookups[o].ids \cup {i} /\ rec.id = i
          /\ rec.status = lookups[o].status /\ rec.target = lookups[o].target
          /\ rec.minMtu = lookups[o].minMtu /\ rec.answer = lookups[o].answer
      BY <2>1 DEF Lookup
    <2>4. mid = [lookups EXCEPT ![o] = rec]
      BY <1>1, Zenon
    <2> HIDE DEF mid, rec
    <2> QED
      BY <1>1, <2>2, <2>3, <2>4
  <1>6. lookups' = [run EXCEPT ![o].interval = n]
    BY <1>3, <1>5
  <1> HIDE DEF mid, n
  <1>7. /\ run \in [Call -> Lookup]
        /\ run[o].ids = mid[o].ids /\ run[o].id = mid[o].id
        /\ run[o].status = mid[o].status /\ run[o].target = mid[o].target
        /\ run[o].minMtu = mid[o].minMtu /\ run[o].answer = mid[o].answer
        /\ \A x \in Call : x # o => run[x] = mid[x]
    BY <1>5 DEF Lookup
  <1> HIDE DEF run
  <1>8. /\ lookups' \in [Call -> Lookup]
        /\ lookups'[o].ids = run[o].ids /\ lookups'[o].id = run[o].id
        /\ lookups'[o].status = run[o].status /\ lookups'[o].target = run[o].target
        /\ lookups'[o].minMtu = run[o].minMtu /\ lookups'[o].answer = run[o].answer
        /\ \A x \in Call : x # o => lookups'[x] = run[x]
    BY <1>4, <1>6, <1>7 DEF Lookup
  <1>9. lookups[o].target \in Target
    BY DEF Retry, Inv, Targeted
  <1>10. Pending(o)
    <2>1. \A x \in Call, t \in Target : byTarget[t] = x => Pending(x)
      BY DEF Inv, IndexesAgree
    <2> QED
      BY <1>2, <1>9, <2>1
  <1>11. UNCHANGED <<calls, byTarget>>
    BY DEF Retry
  <1>12. TypeOK'
    <2>1. byRequest' \in [RequestId -> Call \cup {None}]
      <3>1. /\ byRequest \in [RequestId -> Call \cup {None}]
            /\ byRequest' = [byRequest EXCEPT ![i] = o]
        BY <1>1, <1>3
      <3> QED
        BY <3>1
    <2>2. requests' = requests \cup {<<i, lookups[o].target>>}
      BY <1>5, <1>7, <1>8 DEF Retry
    <2>3. requests' \subseteq RequestId \X Target
      BY <1>9, <2>2 DEF Inv, TypeOK
    <2> QED
      BY <1>8, <1>11, <2>1, <2>3 DEF Inv, TypeOK
  <1>13. \A x \in Call : /\ lookups'[x].status = lookups[x].status
                         /\ lookups'[x].target = lookups[x].target
                         /\ lookups'[x].minMtu = lookups[x].minMtu
                         /\ lookups'[x].answer = lookups[x].answer
                         /\ Pending(x)' <=> Pending(x)
    BY <1>5, <1>7, <1>8 DEF Pending
  <1>14. ASSUME NEW x \in Call, NEW j \in RequestId
         PROVE  byRequest'[j] = x <=> Pending(x)' /\ j \in lookups'[x].ids
    <2>1. byRequest'[j] = IF j = i THEN o ELSE byRequest[j]
      BY <1>1, <1>3
    <2>2. byRequest[j] = x <=> Pending(x) /\ j \in lookups[x].ids
      BY DEF Inv, IndexesAgree
    <2>3. CASE x = o
      BY <1>5, <1>7, <1>8, <1>10, <1>13, <2>1, <2>2, <2>3
    <2>4. CASE x # o
      BY <1>3, <1>5, <1>7, <1>8, <1>13, <2>1, <2>2, <2>4, LookupAssumption
    <2> QED
      BY <2>3, <2>4
  <1>15. IndexesAgree'
    BY <1>11, <1>13, <1>14 DEF Inv, IndexesAgree
  <1>16. Targeted'
    BY <1>5, <1>7, <1>8, <1>9, <1>13 DEF Inv, Targeted
  <1>17. CreatedOnce' /\ AnswersOK'
    BY <1>11, <1>13 DEF Inv, CreatedOnce, AnswersOK
  <1>18. WaitersOK'
    BY <1>11, <1>13 DEF Inv, WaitersOK
  <1>19. ReturnedOK'
    BY <1>11, <1>13 DEF Inv, WaitersOK, ReturnedOK, Enough
  <1> QED
    BY <1>12, <1>15, <1>16, <1>17, <1>18, <1>19 DEF Inv

LEMMA StopOK ==
    ASSUME Inv, Stop
    PROVE  Inv'
  <1>1. lookups \in [Call -> Lookup]
    BY DEF Inv, TypeOK
  <1>2. ASSUME NEW x \in Call
        PROVE  /\ lookups'[x] \in Lookup
               /\ lookups'[x].status =
                     IF lookups[x].status = "pending" THEN "rejected" ELSE lookups[x].status
               /\ lookups'[x].target = lookups[x].target
               /\ lookups'[x].minMtu = lookups[x].minMtu
               /\ ~Pending(x) => lookups'[x] = lookups[x]
    <2>1. lookups[x].loop \in {"none", "sending", "sleeping", "done"}
      BY <1>1 DEF Lookup
    <2>2. CASE Pending(x)
      <3>1. lookups'[x] = Settled(x, "rejected", None, lookups[x].loop)
        BY <2>2 DEF Stop
      <3> QED
        BY <2>1, <2>2, <3>1, SettledType DEF Pending
    <2>3. CASE ~Pending(x)
      BY <1>1, <2>3 DEF Stop, Pending
    <2> QED
      BY <2>2, <2>3
  <1>3. lookups' \in [Call -> Lookup]
    BY <1>2 DEF Stop
  <1>4. TypeOK'
    BY <1>3 DEF Stop, Inv, TypeOK
  <1>5. \A x \in Call : ~Pending(x)'
    BY <1>2 DEF Pending
  <1>6. IndexesAgree' /\ Targeted'
    <2>1. IndexesAgree'
      BY <1>5, LookupAssumption DEF Stop, IndexesAgree
    <2>2. ASSUME NEW x \in Call, lookups'[x].status # "none" \/ lookups'[x].loop # "none"
          PROVE  lookups'[x].target \in Target
      BY <1>2, <2>2 DEF Inv, Targeted, Pending
    <2> QED
      BY <2>1, <2>2 DEF Targeted
  <1>7. AnswersOK'
    BY <1>2 DEF Inv, AnswersOK, Pending
  <1>8. CreatedOnce' /\ WaitersOK'
    BY <1>2 DEF Stop, Inv, CreatedOnce, WaitersOK
  <1>9. ReturnedOK'
    BY <1>2 DEF Stop, Inv, WaitersOK, ReturnedOK, Enough
  <1> QED
    BY <1>4, <1>6, <1>7, <1>8, <1>9 DEF Inv

-----------------------------------------------------------------------------
(* Theorems                                                                *)

LEMMA NextOK == Inv /\ [Next]_vars => Inv'
  <1> SUFFICES ASSUME Inv, [Next]_vars
               PROVE  Inv'
    OBVIOUS
  <1>1. CASE UNCHANGED vars
    BY <1>1 DEF vars, Inv, TypeOK, IndexesAgree, Targeted, CreatedOnce, AnswersOK,
                WaitersOK, ReturnedOK, Pending, Enough
  <1>2. CASE Next
    BY <1>2, InvokeOK, ResumeOK, SendSettlesOK, RetryOK, RetryFailsOK, LoopEndsOK,
       DeadlineOK, RespondOK, StopOK, TickOK DEF Next
  <1> QED
    BY <1>1, <1>2

\* The inductive invariant holds of every behaviour.
THEOREM Invariance == Spec => []Inv
  BY InitOK, NextOK, PTL DEF Spec

\* However calls, retries, answers, deadlines and stop interleave, the two maps of the
\* registry hold exactly the pending lookups and all the ids these have used.
THEOREM IndexesConsistent == Spec => []IndexesAgree
  <1>1. Inv => IndexesAgree
    BY DEF Inv
  <1> QED
    BY <1>1, Invariance, PTL

\* A call of ensureFirstContactRoute or refreshTransitRoute returns only with an answer
\* for its target over a path wide enough for it, also when it shared another's lookup.
THEOREM AnswersFit == Spec => []AnswerFitsCaller
  <1>1. Inv => AnswerFitsCaller
    <2> SUFFICES ASSUME Inv, NEW c \in Call, calls[c].state = "returned"
                 PROVE  LET answer == lookups[calls[c].on].answer IN
                        /\ answer \in Target \X Mtu
                        /\ answer[1] = calls[c].target
                        /\ calls[c].kind = "transit" => answer[2] >= calls[c].mtu
      BY DEF AnswerFitsCaller
    <2> DEFINE o == calls[c].on
    <2>1. /\ o \in Call /\ lookups[o].target = calls[c].target
          /\ lookups[o].status = "resolved" /\ Enough(c)
      BY DEF Inv, WaitersOK, ReturnedOK
    <2>2. /\ lookups[o].answer \in Target \X Mtu
          /\ lookups[o].answer[1] = lookups[o].target
          /\ lookups[o].answer[2] >= lookups[o].minMtu
      BY <2>1 DEF Inv, AnswersOK
    <2>3. lookups[o].minMtu \in Nat /\ calls[c].mtu \in Nat /\ lookups[o].answer[2] \in Nat
      BY <2>1, <2>2, LookupAssumption DEF Inv, TypeOK, Lookup, CallState
    <2>4. calls[c].kind = "transit" => lookups[o].answer[2] >= calls[c].mtu
      BY <2>1, <2>2, <2>3 DEF Enough
    <2> QED
      BY <2>1, <2>2, <2>4
  <1> QED
    BY <1>1, Invariance, PTL

\* Whatever a retry loop sends, it sends for its own lookup, pending and indexed under
\* the id and the target of the request: no retry loop outlives its lookup.
THEOREM RequestsFindable == Spec => RequestsAnswerable
  <1> DEFINE Sends(o) == lookups[o].loop # "sending" /\ lookups'[o].loop = "sending"
             A == \A o \in Call : Sends(o) => /\ byRequest'[lookups'[o].id] = o
                                              /\ byTarget'[lookups'[o].target] = o
  <1>1. ASSUME Inv, [Next]_vars
        PROVE  A
    <2>1. /\ byTarget \in [Target -> Call \cup {None}]
          /\ byRequest \in [RequestId -> Call \cup {None}]
          /\ lookups \in [Call -> Lookup]
      BY <1>1 DEF Inv, TypeOK
    <2>2. ASSUME \A x \in Call : lookups'[x].loop # "sending" \/ lookups'[x].loop = lookups[x].loop
          PROVE  A
      BY <2>2
    <2>3. ASSUME NEW c \in Call, NEW kind, NEW t \in Target, NEW mtu,
                 Create(c, kind, t, mtu)
          PROVE  A
      <3>1. PICK i \in RequestId :
              /\ byRequest' = [byRequest EXCEPT ![i] = c]
              /\ lookups' = [lookups EXCEPT ![c] =
                    [status |-> "pending", target |-> t, minMtu |-> mtu, ids |-> {i},
                     id |-> i, loop |-> "sending", interval |-> 1, left |-> 0, age |-> 0,
                     answer |-> None]]
        BY <2>3 DEF Create
      <3>2. byTarget' = [byTarget EXCEPT ![t] = c]
        BY <2>3 DEF Create
      <3>3. /\ lookups'[c].id = i /\ lookups'[c].target = t
            /\ \A x \in Call : x # c => lookups'[x] = lookups[x]
        BY <2>1, <3>1
      <3> QED
        BY <2>1, <3>1, <3>2, <3>3
    <2>4. ASSUME NEW c \in Call, NEW kind, NEW t \in Target, NEW mtu,
                 Begin(c, kind, t, mtu)
          PROVE  A
      BY <2>2, <2>3, <2>4 DEF Begin, Share, Refuse
    <2>5. ASSUME NEW c \in Call, Invoke(c)
          PROVE  A
      <3>1. PICK t \in Target : \/ Begin(c, "first", t, 0)
                                \/ \E mtu \in Mtu : Begin(c, "transit", t, mtu)
        BY <2>5 DEF Invoke
      <3> QED
        BY <2>4, <3>1
    <2>6. ASSUME NEW c \in Call, Resume(c)
          PROVE  A
      <3>1. calls[c].target \in Target
        BY <1>1, <2>6 DEF Resume, Inv, WaitersOK
      <3>2. PICK t \in Target, kind \in {calls[c].kind}, mtu \in {calls[c].mtu} :
               t = calls[c].target
        BY <3>1
      <3> QED
        BY <2>2, <2>4, <2>6, <3>2 DEF Resume, Finish
    <2>7. ASSUME NEW o \in Call, Retry(o)
          PROVE  A
      <3>1. byTarget[lookups[o].target] = o /\ byTarget' = byTarget
        BY <2>7 DEF Retry, LoopGoesOn
      <3>2. PICK i \in RequestId :
              /\ byRequest' = [byRequest EXCEPT ![i] = o]
              /\ lookups' = [[lookups EXCEPT ![o].ids = @ \cup {i}, ![o].id = i]
                                EXCEPT ![o].loop = "sending",
                                       ![o].interval = NextInterval(lookups[o].interval)]
        BY <2>7, <3>1 DEF Retry
      <3>3. /\ lookups'[o].id = i /\ lookups'[o].target = lookups[o].target
            /\ \A x \in Call : x # o => lookups'[x] = lookups[x]
        BY <2>1, <3>2 DEF Lookup
      <3> QED
        BY <2>1, <3>1, <3>2, <3>3
    <2>8. ASSUME NEW o \in Call,
                 SendSettles(o) \/ RetryFails(o) \/ LoopEnds(o) \/ Deadline(o)
          PROVE  A
      <3>1. CASE SendSettles(o)
        <4>1. lookups'[o].loop # "sending" /\ \A x \in Call : x # o => lookups'[x] = lookups[x]
          BY <2>1, <3>1 DEF SendSettles, Lookup
        <4> QED
          BY <2>2, <4>1
      <3>2. CASE RetryFails(o)
        <4>1. lookups'[o].loop # "sending" /\ \A x \in Call : x # o => lookups'[x] = lookups[x]
          BY <2>1, <3>2 DEF RetryFails, Settled
        <4> QED
          BY <2>2, <4>1
      <3>3. CASE LoopEnds(o)
        <4>1. lookups'[o].loop # "sending" /\ \A x \in Call : x # o => lookups'[x] = lookups[x]
          BY <2>1, <3>3 DEF LoopEnds, Lookup
        <4> QED
          BY <2>2, <4>1
      <3>4. CASE Deadline(o)
        BY <2>1, <2>2, <3>4 DEF Deadline, Settled
      <3> QED
        BY <2>8, <3>1, <3>2, <3>3, <3>4
    <2>9. ASSUME NEW q \in requests, NEW mtu \in Mtu, Respond(q, mtu)
          PROVE  A
      <3>1. PICK o \in Call : o = byRequest[q[1]]
        BY <1>1, <2>9 DEF Respond, Inv, TypeOK
      <3> QED
        BY <2>1, <2>2, <2>9, <3>1 DEF Respond, Settled
    <2>10. ASSUME Stop \/ Tick
           PROVE  A
      <3>1. CASE Stop
        BY <2>1, <2>2, <3>1 DEF Stop, Settled
      <3>2. CASE Tick
        <4>1. ASSUME NEW x \in Call
              PROVE  lookups'[x].loop = lookups[x].loop
          <5>1. \/ lookups'[x] = lookups[x]
                \/ \E age, left : lookups'[x] = [lookups[x] EXCEPT !.age = age, !.left = left]
            BY <3>2 DEF Tick
          <5>2. lookups[x] \in Lookup
            BY <2>1
          <5> QED
            BY <5>1, <5>2 DEF Lookup
        <4> QED
          BY <2>2, <4>1
      <3> QED
        BY <2>10, <3>1, <3>2
    <2> QED
      BY <1>1, <2>2, <2>5, <2>6, <2>7, <2>8, <2>9, <2>10 DEF Next, vars
  <1> QED
    BY <1>1, Invariance, PTL DEF Spec, RequestsAnswerable

-----------------------------------------------------------------------------
(* The limit                                                               *)

\* The targets that have a pending lookup: the size of the first map.
Taken == {t \in Target : byTarget[t] # None}

Bounded == IsFiniteSet(Taken) /\ Cardinality(Taken) <= MaxLookups

\* A step that begins nothing keeps within the limit.
LEMMA FewerTaken ==
  ASSUME Bounded, Taken' \subseteq Taken
  PROVE  Bounded'
  <1> DEFINE S == Taken
             T == Taken'
  <1>1. /\ IsFiniteSet(S) /\ Cardinality(S) <= MaxLookups /\ T \in SUBSET S
    BY DEF Bounded
  <1> HIDE DEF S, T
  <1>2. IsFiniteSet(T) /\ Cardinality(T) <= Cardinality(S)
    BY <1>1, FS_Subset
  <1>3. Cardinality(S) \in Nat /\ Cardinality(T) \in Nat /\ MaxLookups \in Nat
    BY <1>1, <1>2, FS_CardinalityType, LookupAssumption
  <1>4. Cardinality(T) <= MaxLookups
    BY <1>1, <1>2, <1>3
  <1> QED
    BY <1>2, <1>4 DEF Bounded, T

\* create looks at the size of the map before it adds to it.
LEMMA CreateBounded ==
  ASSUME Inv, Bounded, NEW c \in Call, NEW kind, NEW t \in Target, NEW mtu,
         Create(c, kind, t, mtu)
  PROVE  Bounded'
  <1> DEFINE S == Taken
  <1>1. IsFiniteSet(S) /\ ~(Cardinality(S) >= MaxLookups)
    BY DEF Create, CapacityExceeded, Bounded, Taken
  <1>2. Taken' = S \cup {t}
    <2>1. byTarget' = [byTarget EXCEPT ![t] = c]
      BY DEF Create
    <2> QED
      BY <2>1, LookupAssumption DEF Inv, TypeOK, Taken
  <1> HIDE DEF S
  <1>3. /\ IsFiniteSet(S \cup {t})
        /\ Cardinality(S \cup {t}) = IF t \in S THEN Cardinality(S) ELSE Cardinality(S) + 1
    BY <1>1, FS_AddElement
  <1>4. Cardinality(S) \in Nat /\ MaxLookups \in Nat
    BY <1>1, FS_CardinalityType, LookupAssumption
  <1>5. Cardinality(S \cup {t}) <= MaxLookups
    BY <1>1, <1>3, <1>4
  <1> QED
    BY <1>2, <1>3, <1>5 DEF Bounded

LEMMA BeginBounded ==
  ASSUME Inv, Bounded, NEW c \in Call, NEW kind, NEW t \in Target, NEW mtu,
         Begin(c, kind, t, mtu)
  PROVE  Bounded'
  <1>1. CASE Create(c, kind, t, mtu)
    BY <1>1, CreateBounded
  <1>2. CASE UNCHANGED byTarget
    BY <1>2, FewerTaken DEF Taken
  <1> QED
    BY <1>1, <1>2 DEF Begin, Share, Refuse

LEMMA RemoveBounded ==
  ASSUME Inv, Bounded, NEW o \in Call, Remove(o)
  PROVE  Bounded'
  <1>1. Taken' \subseteq Taken
    BY LookupAssumption DEF Remove, Inv, TypeOK, Taken
  <1> QED
    BY <1>1, FewerTaken

LEMMA NextBounded == Inv /\ Bounded /\ [Next]_vars => Bounded'
  <1> SUFFICES ASSUME Inv, Bounded, [Next]_vars
               PROVE  Bounded'
    OBVIOUS
  <1>1. CASE UNCHANGED byTarget
    BY <1>1, FewerTaken DEF Taken
  <1>2. ASSUME NEW c \in Call, Invoke(c)
        PROVE  Bounded'
    <2>1. PICK t \in Target : \/ Begin(c, "first", t, 0)
                              \/ \E mtu \in Mtu : Begin(c, "transit", t, mtu)
      BY <1>2 DEF Invoke
    <2> QED
      BY <2>1, BeginBounded
  <1>3. ASSUME NEW c \in Call, Resume(c)
        PROVE  Bounded'
    <2>1. calls[c].target \in Target
      BY <1>3 DEF Resume, Inv, WaitersOK
    <2> QED
      BY <1>1, <1>3, <2>1, BeginBounded DEF Resume, Finish
  <1>4. ASSUME NEW o \in Call, RetryFails(o) \/ Deadline(o)
        PROVE  Bounded'
    BY <1>4, RemoveBounded DEF RetryFails, Deadline
  <1>5. ASSUME NEW q \in requests, NEW mtu \in Mtu, Respond(q, mtu)
        PROVE  Bounded'
    <2>1. PICK o \in Call : o = byRequest[q[1]]
      BY <1>5 DEF Respond, Inv, TypeOK
    <2> QED
      BY <1>5, <2>1, RemoveBounded DEF Respond
  <1>6. CASE Stop
    <2>1. Taken' \subseteq Taken
      BY <1>6 DEF Stop, Taken
    <2> QED
      BY <2>1, FewerTaken
  <1>7. ASSUME NEW o \in Call, SendSettles(o) \/ Retry(o) \/ LoopEnds(o)
        PROVE  Bounded'
    <2>1. UNCHANGED byTarget
      BY <1>7 DEF SendSettles, Retry, LoopEnds
    <2> QED
      BY <1>1, <2>1
  <1>8. CASE Tick
    BY <1>1, <1>8 DEF Tick
  <1>9. CASE UNCHANGED vars
    BY <1>1, <1>9 DEF vars
  <1> QED
    BY <1>2, <1>3, <1>4, <1>5, <1>6, <1>7, <1>8, <1>9 DEF Next

\* Since a target has one pending lookup, the size of the map bounds the lookups.
LEMMA BoundedSuffices == Inv /\ Bounded => RegistryOK
  <1> SUFFICES ASSUME Inv, Bounded
               PROVE  RegistryOK
    OBVIOUS
  <1> DEFINE P == {o \in Call : Pending(o)}
             f == [o \in P |-> lookups[o].target]
  <1>1. \A o \in P : lookups[o].target \in Taken /\ byTarget[lookups[o].target] = o
    BY LookupAssumption DEF Inv, Targeted, IndexesAgree, Pending, Taken
  <1>2. f \in Injection(P, Taken)
    <2>1. f \in [P -> Taken]
      BY <1>1
    <2>2. \A o, x \in P : f[o] = f[x] => o = x
      BY <1>1
    <2> HIDE DEF f, P
    <2> QED
      BY <2>1, <2>2 DEF Injection, IsInjective
  <1> HIDE DEF f
  <1>3. IsFiniteSet(P) /\ Cardinality(P) <= Cardinality(Taken)
    BY <1>2, FS_Injection DEF Bounded
  <1>4. Cardinality(P) \in Nat /\ Cardinality(Taken) \in Nat /\ MaxLookups \in Nat
    BY <1>3, FS_CardinalityType, LookupAssumption DEF Bounded
  <1>5. Cardinality(P) <= MaxLookups
    BY <1>3, <1>4 DEF Bounded
  <1> QED
    BY <1>5 DEF RegistryOK, WithinCapacity, Inv

\* However callers create, share and start lookups again and whichever of these end,
\* the registry never holds more than MAX_PENDING_ORIGIN_LOOKUPS of them.
THEOREM RegistryWithinLimit == Spec => []RegistryOK
  <1>1. Init => Bounded
    <2> SUFFICES ASSUME Init
                 PROVE  Bounded
      OBVIOUS
    <2>1. Taken = {}
      BY DEF Init, Taken
    <2> QED
      BY <2>1, FS_EmptySet, LookupAssumption DEF Bounded
  <1>2. Spec => []Bounded
    BY <1>1, Invariance, NextBounded, PTL DEF Spec
  <1> QED
    BY <1>2, Invariance, BoundedSuffices, PTL

----------------------------------------------------------------------------
(* The spanning tree: the inductive invariant *)

TreeEntry == [seq : Nat \ {0}, ancestry : Seq(Node)]

\* An entry of TreeState about node n.
EntryOK(n, e) == e \in TreeEntry /\ ValidAncestry(n, e.ancestry)

\* What is read of an AdjacentPeer p is there, its filter names nodes.
PeerOK(p) == "inFilter" \in DOMAIN p /\ p.inFilter \in SUBSET Node

\* Node n with the own entry t, the peers' entries k and the adjacent peers a.
NodeOK(n, t, k, a) ==
    /\ EntryOK(n, t)
    /\ DOMAIN a \subseteq Node
    /\ \A m \in DOMAIN a : {n, m} \in mesh.links /\ PeerOK(a[m])
    /\ DOMAIN k \subseteq DOMAIN a
    /\ \A m \in DOMAIN k : EntryOK(m, k[m])

FrameOK(msg) ==
    /\ msg \in Frames
    /\ msg.type = "TreeAnnounce" => msg.seq > 0 /\ ValidAncestry(msg.from, msg.ancestry)

Tables ==
    /\ DOMAIN tree = Node /\ DOMAIN known = Node /\ DOMAIN adj = Node /\ DOMAIN count = Node
    /\ \A n \in Node : NodeOK(n, tree[n], known[n], adj[n])
    /\ \A n \in Node : count[n] \in [role : Nat, filter : Nat]

\* Both ends of a link that carries frames have an AdjacentPeer for it.
EndsHeld == \A l \in carrier : \A n, m \in l : n # m => m \in DOMAIN adj[n]

FramesFit == \A msg \in net : FrameOK(msg) /\ {msg.from, msg.to} \in carrier

TreeInv ==
    /\ mesh \in Meshes /\ carrier \subseteq mesh.links
    /\ Tables
    /\ FramesFit
    /\ EndsHeld

----------------------------------------------------------------------------
(* Numbers and sets of them *)

LEMMA LessIsWellFounded ==
    \E R : IsWellFoundedOn(R, Nat) /\ \A a, b \in Nat : a < b => <<a, b>> \in R
  <1> DEFINE R == OpToRel(<, Nat)
  <1>1. IsWellFoundedOn(R, Nat)
    BY NatLessThanWellFounded, Zenon
  <1>2. \A a, b \in Nat : a < b => <<a, b>> \in R
    BY DEF OpToRel
  <1> HIDE DEF R
  <1> QED
    BY <1>1, <1>2, Zenon

\* A set of numbers that is not empty has a least element.
LEMMA LeastNumber ==
    ASSUME NEW T \in SUBSET Nat, T # {}
    PROVE  \E x \in T : \A y \in T : x <= y
  <1>1. PICK R : IsWellFoundedOn(R, Nat) /\ \A a, b \in Nat : a < b => <<a, b>> \in R
    BY LessIsWellFounded
  <1>2. PICK x \in T : \A y \in T : ~(<<y, x>> \in R)
    <2>1. T \subseteq Nat
      OBVIOUS
    <2>2. IsWellFoundedOn(R, Nat)
      BY <1>1
    <2> QED
      BY <2>1, <2>2, WFMin, Zenon
  <1>3. \A y \in T : x \in Nat /\ y \in Nat /\ ~(y < x)
    BY <1>1, <1>2
  <1> QED
    BY <1>3

LEMMA NodesAreNumbers == \A n \in Node : n \in Nat
  BY SpanningTreeAssumption

LEMMA PartsCounted ==
    ASSUME NEW S \in SUBSET Node
    PROVE  Cardinality(S) \in Nat
  <1>1. IsFiniteSet(S)
    BY SpanningTreeAssumption, FS_Subset
  <1> QED
    BY <1>1, FS_CardinalityType

\* The two ends of a link are two nodes.
LEMMA LinkEnds ==
    ASSUME mesh \in Meshes, NEW a, NEW b, {a, b} \in mesh.links
    PROVE  a \in Node /\ b \in Node /\ a # b
  <1>1. {a, b} \in SUBSET Node /\ Cardinality({a, b}) = 2
    BY SpanningTreeAssumption
  <1>2. a # b
    <2>1. SUFFICES ASSUME a = b PROVE FALSE
      OBVIOUS
    <2>2. {a, b} = {a}
      BY <2>1
    <2>3. Cardinality({a}) = 1
      BY FS_Singleton
    <2> QED
      BY <1>1, <2>2, <2>3
  <1> QED
    BY <1>1, <1>2

\* A link is given by its two ends.
LEMMA PairIsLink ==
    ASSUME NEW l \in SUBSET Node, Cardinality(l) = 2, NEW n \in l, NEW m \in l, n # m
    PROVE  l = {n, m}
  <1>1. IsFiniteSet(l)
    BY SpanningTreeAssumption, FS_Subset
  <1>2. {n, m} \subseteq l /\ IsFiniteSet({n, m}) /\ Cardinality({n, m}) = 2
    <2>1. IsFiniteSet({n}) /\ Cardinality({n}) = 1
      BY FS_Singleton
    <2>2. IsFiniteSet({n} \cup {m}) /\ Cardinality({n} \cup {m}) = 1 + 1
      BY <2>1, FS_AddElement
    <2>3. {n} \cup {m} = {n, m}
      OBVIOUS
    <2> QED
      BY <2>2, <2>3
  <1>3. Cardinality({n, m}) = Cardinality(l) => {n, m} = l
    BY <1>1, <1>2, FS_Subset
  <1> QED
    BY <1>2, <1>3

----------------------------------------------------------------------------
(* evaluateParent *)

LEMMA RootIsNode ==
    ASSUME NEW n, NEW s \in Seq(Node), ValidAncestry(n, s)
    PROVE  Root(s) \in Node /\ Root(s) \in Nat /\ Len(s) \in Nat \ {0}
  <1>1. Len(s) \in Nat /\ Len(s) > 0
    BY DEF ValidAncestry
  <1>2. Len(s) \in 1..Len(s)
    BY <1>1
  <1>3. s[Len(s)] \in Node
    BY <1>2
  <1>4. Root(s) \in Node
    BY <1>3 DEF Root
  <1> QED
    BY <1>1, <1>4, NodesAreNumbers

\* A node alone is a root.
LEMMA AloneValid ==
    ASSUME NEW n \in Node
    PROVE  <<n>> \in Seq(Node) /\ ValidAncestry(n, <<n>>)
  BY NodesAreNumbers DEF ValidAncestry, Root, IsInjective

\* A node below a path that does not name it and whose root is lower.
LEMMA BelowValid ==
    ASSUME NEW n \in Node, NEW p, NEW s \in Seq(Node), ValidAncestry(p, s),
           n \notin Range(s), Root(s) < n
    PROVE  <<n>> \o s \in Seq(Node) /\ ValidAncestry(n, <<n>> \o s)
  <1> DEFINE q == <<n>> \o s
  <1>1. q \in Seq(Node) /\ Len(q) = Len(s) + 1 /\ Len(s) \in Nat \ {0}
    BY RootIsNode
  <1>2. q[1] = n
    OBVIOUS
  <1>3. \A i \in 2..Len(q) : q[i] = s[i - 1] /\ i - 1 \in 1..Len(s)
    BY <1>1
  <1>4. Root(q) = Root(s)
    BY <1>1, <1>3 DEF Root
  <1>5. \A i \in 1..Len(s) : s[i] # n
    BY DEF Range
  <1>6. IsInjective(q)
    <2>1. SUFFICES ASSUME NEW i \in 1..Len(q), NEW j \in 1..Len(q), q[i] = q[j]
                   PROVE  i = j
      BY <1>1 DEF IsInjective
    <2>2. CASE i = 1 \/ j = 1
      BY <1>1, <1>2, <1>3, <1>5, <2>1, <2>2
    <2>3. CASE i # 1 /\ j # 1
      <3>1. i - 1 \in 1..Len(s) /\ j - 1 \in 1..Len(s) /\ s[i - 1] = s[j - 1]
        BY <1>1, <1>3, <2>1, <2>3
      <3>2. i - 1 = j - 1
        BY <3>1 DEF ValidAncestry, IsInjective
      <3> QED
        BY <1>1, <3>2
    <2> QED
      BY <2>2, <2>3
  <1>7. \A i \in 1..Len(q) : Root(q) <= q[i]
    <2>1. TAKE i \in 1..Len(q)
    <2>2. CASE i = 1
      BY <1>2, <1>4, <2>2, RootIsNode, NodesAreNumbers
    <2>3. CASE i # 1
      BY <1>1, <1>3, <1>4, <2>3 DEF ValidAncestry
    <2> QED
      BY <2>2, <2>3
  <1> HIDE DEF q
  <1>8. ValidAncestry(n, q)
    BY <1>1, <1>2, <1>6, <1>7 DEF ValidAncestry
  <1> QED
    BY <1>1, <1>8 DEF q

\* The sort of evaluateParent has a first element.
LEMMA FirstCandidate ==
    ASSUME NEW n, NEW k, DOMAIN k \subseteq Node, \A m \in DOMAIN k : EntryOK(m, k[m]),
           Candidates(n, k) # {}
    PROVE  /\ Best(n, k) \in Candidates(n, k)
           /\ \A q \in Candidates(n, k) :
                Before(Best(n, k), k[Best(n, k)].ancestry, q, k[q].ancestry)
  <1> DEFINE C == Candidates(n, k)
             root(p) == Root(k[p].ancestry)
             len(p) == Len(k[p].ancestry)
  <1>1. C \subseteq DOMAIN k /\ C # {}
    BY DEF Candidates
  <1>2. \A p \in C : root(p) \in Nat /\ len(p) \in Nat /\ p \in Nat
    <2>1. TAKE p \in C
    <2>2. p \in Node /\ k[p].ancestry \in Seq(Node) /\ ValidAncestry(p, k[p].ancestry)
      BY <1>1 DEF EntryOK, TreeEntry
    <2> QED
      BY <2>2, RootIsNode, NodesAreNumbers
  <1> HIDE DEF C, root, len
  <1>3. PICK r \in {root(p) : p \in C} : \A y \in {root(p) : p \in C} : r <= y
    <2>1. {root(p) : p \in C} \in SUBSET Nat /\ {root(p) : p \in C} # {}
      BY <1>1, <1>2
    <2> HIDE <1>1, <1>2
    <2> QED
      BY <2>1, LeastNumber
  <1> DEFINE C1 == {p \in C : root(p) = r}
  <1>4. C1 # {} /\ C1 \subseteq C
    BY <1>3
  <1>5. PICK d \in {len(p) : p \in C1} : \A y \in {len(p) : p \in C1} : d <= y
    <2>1. {len(p) : p \in C1} \in SUBSET Nat /\ {len(p) : p \in C1} # {}
      BY <1>4, <1>2
    <2> QED
      BY <2>1, LeastNumber
  <1> DEFINE C2 == {p \in C1 : len(p) = d}
  <1>6. C2 # {} /\ C2 \subseteq C1
    BY <1>5
  <1>7. PICK p \in C2 : \A q \in C2 : p <= q
    <2>1. C2 \in SUBSET Nat /\ C2 # {}
      BY <1>2, <1>4, <1>6
    <2> QED
      BY <2>1, LeastNumber
  <1>8. \A q \in C : \/ root(p) < root(q)
                     \/ root(p) = root(q) /\ len(p) < len(q)
                     \/ root(p) = root(q) /\ len(p) = len(q) /\ p <= q
    <2>1. TAKE q \in C
    <2>2. p \in C /\ root(p) = r /\ len(p) = d
      BY <1>4, <1>6
    <2>3. r <= root(q)
      BY <1>3
    <2>4. root(q) = r => d <= len(q)
      BY <1>5
    <2>5. root(q) = r /\ len(q) = d => p <= q
      BY <1>7
    <2> HIDE DEF C1, C2
    <2> QED
      BY <1>2, <2>2, <2>3, <2>4, <2>5
  <1>9. p \in C
    BY <1>4, <1>6
  <1>10. \A q \in C : Before(p, k[p].ancestry, q, k[q].ancestry)
    BY <1>8 DEF Before, root, len
  <1> QED
    BY <1>9, <1>10 DEF Best, C

\* The place a node takes is a valid one, whatever valid ones its peers have.
LEMMA EvaluatedOK ==
    ASSUME NEW n \in Node, NEW t, EntryOK(n, t), NEW k, DOMAIN k \subseteq Node,
           \A m \in DOMAIN k : EntryOK(m, k[m])
    PROVE  EntryOK(n, Evaluated(n, t, k))
  <1> DEFINE q == NextAncestry(n, k)
  <1>1. q \in Seq(Node) /\ ValidAncestry(n, q)
    <2>1. CASE ShouldRoot(n, k)
      BY <2>1, AloneValid DEF NextAncestry
    <2>2. CASE ~ShouldRoot(n, k)
      <3> DEFINE p == Best(n, k)
      <3>1. p \in Candidates(n, k) /\ ~(n <= Root(k[p].ancestry))
        BY <2>2, FirstCandidate DEF ShouldRoot
      <3>2. p \in DOMAIN k /\ n \notin Range(k[p].ancestry)
        BY <3>1 DEF Candidates
      <3> HIDE DEF p
      <3>3. k[p].ancestry \in Seq(Node) /\ ValidAncestry(p, k[p].ancestry)
        BY <3>2 DEF EntryOK, TreeEntry
      <3>4. Root(k[p].ancestry) < n
        BY <3>1, <3>3, RootIsNode, NodesAreNumbers
      <3>5. q = <<n>> \o k[p].ancestry
        BY <2>2 DEF NextAncestry, p
      <3> QED
        BY <3>2, <3>3, <3>4, <3>5, BelowValid
    <2> QED
      BY <2>1, <2>2
  <1> HIDE DEF q
  <1>2. CASE q = t.ancestry
    BY <1>2 DEF Evaluated, q
  <1>3. CASE q # t.ancestry
    <2>1. Evaluated(n, t, k) = [seq |-> t.seq + 1, ancestry |-> q]
      BY <1>3 DEF Evaluated, q
    <2>2. t.seq + 1 \in Nat \ {0}
      BY DEF EntryOK, TreeEntry
    <2> QED
      BY <1>1, <2>1, <2>2 DEF EntryOK, TreeEntry
  <1> QED
    BY <1>2, <1>3

----------------------------------------------------------------------------
(* Sending *)

LEMMA OutgoingOK ==
    ASSUME NEW n \in Node, NEW t, NEW k, NEW a, NodeOK(n, t, k, a), NEW m
    PROVE  OutgoingFilter(n, t, k, a, m) \in SUBSET Node
  <1>1. \A p \in DOMAIN a : p \in Node /\ a[p].inFilter \subseteq Node
    BY DEF NodeOK, PeerOK
  <1> QED
    BY <1>1 DEF OutgoingFilter

LEMMA AnnouncedOK ==
    ASSUME NEW n, NEW t, NEW k, NEW a, NodeOK(n, t, k, a), NEW ms
    PROVE  NodeOK(n, t, k, Announced(n, t, k, a, ms))
           /\ DOMAIN Announced(n, t, k, a, ms) = DOMAIN a
  <1> DEFINE b == Announced(n, t, k, a, ms)
  <1>1. DOMAIN b = DOMAIN a
    BY DEF Announced
  <1>2. \A m \in DOMAIN a : PeerOK(b[m])
    <2>1. TAKE m \in DOMAIN a
    <2>2. PeerOK(a[m])
      BY DEF NodeOK
    <2>3. \/ b[m] = a[m]
          \/ b[m] = [a[m] EXCEPT !.outFilter = OutgoingFilter(n, t, k, a, m)]
      BY DEF Announced
    <2> HIDE DEF b
    <2> QED
      BY <2>2, <2>3 DEF PeerOK
  <1> HIDE DEF b
  <1>3. NodeOK(n, t, k, b)
    BY <1>1, <1>2 DEF NodeOK
  <1> QED
    BY <1>1, <1>3 DEF b

\* msg is a frame that node n may send to one of the peers ms.
SentTo(n, ms, msg) == FrameOK(msg) /\ msg.from = n /\ msg.to \in ms

LEMMA RoleFramesOK ==
    ASSUME NEW n \in Node, NEW a, NEW ms \in SUBSET Node,
           NEW c \in [role : Nat, filter : Nat],
           NEW msg \in RoleFrames(n, a, ms, c)
    PROVE  SentTo(n, ms, msg)
  <1> DEFINE below(m) == {j \in Supported(a, ms) : j <= m}
  <1>1. PICK m \in ms :
          msg = IF a[m].supported
                THEN Frame(n, m, "ClientOnly", c.role + Cardinality(below(m)), <<>>, {})
                ELSE Frame(n, m, "ClientSupport", 0, <<>>, {})
    BY DEF RoleFrames
  <1>2. c.role + Cardinality(below(m)) \in Nat
    <2>1. below(m) \in SUBSET Node
      BY DEF Supported
    <2>2. c.role \in Nat
      OBVIOUS
    <2> HIDE DEF below
    <2> QED
      BY <2>1, <2>2, PartsCounted
  <1> HIDE DEF below
  <1>3. m \in Node /\ <<>> \in Seq(Node) /\ {} \in SUBSET Node /\ 0 \in Nat
    OBVIOUS
  <1>4. CASE msg = Frame(n, m, "ClientOnly", c.role + Cardinality(below(m)), <<>>, {})
    <2>1. msg \in Frames /\ msg.from = n /\ msg.to = m /\ msg.type = "ClientOnly"
      BY <1>2, <1>3, <1>4 DEF Frame, Frames
    <2> QED
      BY <2>1 DEF SentTo, FrameOK
  <1>5. CASE msg = Frame(n, m, "ClientSupport", 0, <<>>, {})
    <2>1. msg \in Frames /\ msg.from = n /\ msg.to = m /\ msg.type = "ClientSupport"
      BY <1>3, <1>5 DEF Frame, Frames
    <2> QED
      BY <2>1 DEF SentTo, FrameOK
  <1> QED
    BY <1>1, <1>4, <1>5

LEMMA TreeFramesOK ==
    ASSUME NEW n \in Node, NEW t, EntryOK(n, t), NEW a, NEW ms \in SUBSET Node,
           NEW c \in [role : Nat, filter : Nat],
           NEW msg \in TreeFrames(n, t, a, ms, c)
    PROVE  SentTo(n, ms, msg)
  <1>1. CASE n \in Client
    BY <1>1, RoleFramesOK DEF TreeFrames
  <1>2. CASE n \notin Client
    <2>1. PICK m \in ms : msg = Frame(n, m, "TreeAnnounce", t.seq, t.ancestry, {})
      BY <1>2 DEF TreeFrames
    <2>2. t.seq \in Nat \ {0} /\ t.ancestry \in Seq(Node) /\ ValidAncestry(n, t.ancestry)
      BY DEF EntryOK, TreeEntry
    <2>3. m \in Node /\ t.seq \in Nat /\ {} \in SUBSET Node
      BY <2>2
    <2>4. /\ msg \in Frames /\ msg.from = n /\ msg.to = m
          /\ msg.seq = t.seq /\ msg.ancestry = t.ancestry
      BY <2>1, <2>2, <2>3 DEF Frame, Frames
    <2>5. msg.seq > 0
      BY <2>2, <2>4
    <2> QED
      BY <2>2, <2>4, <2>5 DEF SentTo, FrameOK
  <1> QED
    BY <1>1, <1>2

LEMMA FilterFramesOK ==
    ASSUME NEW n \in Node, NEW t, NEW k, NEW a, NodeOK(n, t, k, a), NEW ms \in SUBSET Node,
           NEW c \in [role : Nat, filter : Nat],
           NEW msg \in FilterFrames(n, t, k, a, ms, c)
    PROVE  SentTo(n, ms, msg)
  <1>1. PICK m \in FilterChanged(n, t, k, a, ms) :
          msg = Frame(n, m, "FilterAnnounce", c.filter + 1, <<>>, OutgoingFilter(n, t, k, a, m))
    BY DEF FilterFrames
  <1>2. m \in ms /\ m \in Node
    BY DEF FilterChanged
  <1>3. OutgoingFilter(n, t, k, a, m) \in SUBSET Node
    BY OutgoingOK
  <1>4. c.filter + 1 \in Nat /\ <<>> \in Seq(Node)
    OBVIOUS
  <1>5. msg \in Frames /\ msg.from = n /\ msg.to = m /\ msg.type = "FilterAnnounce"
    BY <1>1, <1>2, <1>3, <1>4 DEF Frame, Frames
  <1> QED
    BY <1>2, <1>5 DEF SentTo, FrameOK

\* What a handler of node n leaves, when its entries are t, k and a: those of
\* other nodes are as they were, and what it sends goes to the peers in a.
Left(n, rcvd, t, k, a) ==
    /\ DOMAIN tree' = Node /\ DOMAIN known' = Node /\ DOMAIN adj' = Node /\ DOMAIN count' = Node
    /\ tree'[n] = t /\ known'[n] = k
    /\ NodeOK(n, t, k, adj'[n]) /\ DOMAIN adj'[n] = DOMAIN a
    /\ \A j \in Node \ {n} : tree'[j] = tree[j] /\ known'[j] = known[j] /\ adj'[j] = adj[j]
    /\ \A j \in Node : count'[j] \in [role : Nat, filter : Nat]
    /\ \A msg \in net' :
        \/ msg \in net \ rcvd
        \/ SentTo(n, DOMAIN a, msg) /\ {msg.from, msg.to} \in carrier

LEMMA BecomeOK ==
    ASSUME TreeInv, NEW n \in Node, NEW rcvd, NEW t, NEW k, NEW a, NodeOK(n, t, k, a),
           NEW trees \in SUBSET DOMAIN a, NEW filters \in SUBSET DOMAIN a,
           Become(n, rcvd, t, k, a, trees, filters)
    PROVE  Left(n, rcvd, t, k, a)
  <1>1. /\ DOMAIN tree = Node /\ DOMAIN known = Node /\ DOMAIN adj = Node /\ DOMAIN count = Node
        /\ \A j \in Node : count[j] \in [role : Nat, filter : Nat]
    BY DEF TreeInv, Tables
  <1>2. /\ tree' = [tree EXCEPT ![n] = t] /\ known' = [known EXCEPT ![n] = k]
        /\ adj' = [adj EXCEPT ![n] = Announced(n, t, k, a, filters)]
    BY DEF Become
  <1>3. NodeOK(n, t, k, adj'[n]) /\ DOMAIN adj'[n] = DOMAIN a
    BY <1>1, <1>2, AnnouncedOK
  <1>4. trees \in SUBSET Node /\ filters \in SUBSET Node /\ EntryOK(n, t)
    BY DEF NodeOK
  <1>5. DOMAIN count' = Node /\ \A j \in Node : count'[j] \in [role : Nat, filter : Nat]
    <2>1. RoleCount(n, a, trees) \in Nat
      <3>1. Supported(a, trees) \in SUBSET Node
        BY <1>4 DEF Supported
      <3>2. Cardinality(Supported(a, trees)) \in Nat
        BY <3>1, PartsCounted
      <3> QED
        BY <3>2 DEF RoleCount
    <2>2. PICK f : count' = [count EXCEPT ![n] = [role |-> @.role + RoleCount(n, a, trees),
                                                  filter |-> f]]
                   /\ f \in {count[n].filter, count[n].filter + 1}
      <3> DEFINE f == IF FilterChanged(n, t, k, a, filters) = {}
                      THEN count[n].filter ELSE count[n].filter + 1
      <3>1. count' = [count EXCEPT ![n] = [role |-> @.role + RoleCount(n, a, trees),
                                           filter |-> f]]
        BY DEF Become
      <3>2. f \in {count[n].filter, count[n].filter + 1}
        OBVIOUS
      <3> QED
        BY <3>1, <3>2
    <2>3. f \in Nat /\ count[n].role + RoleCount(n, a, trees) \in Nat
      BY <1>1, <2>1, <2>2
    <2> QED
      BY <1>1, <2>2, <2>3
  <1>6. \A msg \in net' :
          \/ msg \in net \ rcvd
          \/ SentTo(n, DOMAIN a, msg) /\ {msg.from, msg.to} \in carrier
    <2>1. TAKE msg \in net'
    <2>2. \/ msg \in net \ rcvd
          \/ /\ {msg.from, msg.to} \in carrier
             /\ \/ msg \in TreeFrames(n, t, a, trees, count[n])
                \/ msg \in FilterFrames(n, t, k, a, filters, count[n])
      BY DEF Become, Carried
    <2>3. ASSUME msg \in TreeFrames(n, t, a, trees, count[n])
          PROVE  SentTo(n, trees, msg)
      BY <1>1, <1>4, <2>3, TreeFramesOK
    <2>4. ASSUME msg \in FilterFrames(n, t, k, a, filters, count[n])
          PROVE  SentTo(n, filters, msg)
      BY <1>1, <1>4, <2>4, FilterFramesOK
    <2> QED
      BY <2>2, <2>3, <2>4 DEF SentTo
  <1> QED
    BY <1>1, <1>2, <1>3, <1>5, <1>6 DEF Left

\* A handler that keeps the adjacent peers, while the carriers stay.
LEMMA HandlerKeeps ==
    ASSUME TreeInv, NEW n \in Node, NEW rcvd, NEW t, NEW k, NEW a, Left(n, rcvd, t, k, a),
           DOMAIN adj[n] \subseteq DOMAIN a, mesh' = mesh, carrier' = carrier
    PROVE  TreeInv'
  <1>1. mesh' \in Meshes /\ carrier' \subseteq mesh'.links
    BY DEF TreeInv
  <1>2. \A j \in Node : NodeOK(j, tree'[j], known'[j], adj'[j])
    BY DEF TreeInv, Tables, Left
  <1>3. Tables'
    BY <1>2 DEF Left, Tables, NodeOK, EntryOK, PeerOK
  <1>4. FramesFit'
    BY DEF TreeInv, FramesFit, Left, SentTo, FrameOK
  <1>5. EndsHeld'
    <2>1. \A j \in Node : DOMAIN adj[j] \subseteq DOMAIN adj'[j]
      BY DEF Left
    <2>2. \A l \in carrier : l \subseteq Node
      BY SpanningTreeAssumption DEF TreeInv
    <2> QED
      BY <2>1, <2>2 DEF TreeInv, EndsHeld
  <1> QED
    BY <1>1, <1>3, <1>4, <1>5 DEF TreeInv

----------------------------------------------------------------------------
(* The handlers *)

LEMMA Present ==
    ASSUME TreeInv, NEW n \in Node
    PROVE  NodeOK(n, tree[n], known[n], adj[n])
  BY DEF TreeInv, Tables

\* A frame is from a present peer of the node it comes to.
LEMMA FromPeer ==
    ASSUME TreeInv, NEW msg \in net
    PROVE  /\ FrameOK(msg) /\ msg.from \in Node /\ msg.to \in Node
           /\ msg.from \in DOMAIN adj[msg.to]
  <1>1. FrameOK(msg) /\ {msg.from, msg.to} \in carrier
    BY DEF TreeInv, FramesFit
  <1>2. {msg.from, msg.to} \in mesh.links /\ mesh \in Meshes
    BY <1>1 DEF TreeInv
  <1>3. msg.from \in Node /\ msg.to \in Node /\ msg.from # msg.to
    BY <1>2, LinkEnds
  <1> QED
    BY <1>1, <1>3 DEF TreeInv, EndsHeld

\* A handler may change what is kept of a peer, other than its filter.
LEMMA Edited ==
    ASSUME NEW n, NEW t, NEW k, NEW a, NodeOK(n, t, k, a), NEW b, DOMAIN b = DOMAIN a,
           \A m \in DOMAIN a : PeerOK(b[m])
    PROVE  NodeOK(n, t, k, b)
  BY DEF NodeOK

\* The peers' entries k change, and with them the own one.
LEMMA Moved ==
    ASSUME NEW n \in Node, NEW t, NEW k, NEW a, NodeOK(n, t, k, a),
           NEW l, DOMAIN l \subseteq DOMAIN a, \A m \in DOMAIN l : EntryOK(m, l[m]),
           NEW u \in {t, Evaluated(n, t, l)}
    PROVE  NodeOK(n, u, l, a)
  <1>1. DOMAIN l \subseteq Node /\ EntryOK(n, t)
    BY DEF NodeOK
  <1>2. EntryOK(n, Evaluated(n, t, l))
    BY <1>1, EvaluatedOK
  <1>3. EntryOK(n, u)
    BY <1>1, <1>2
  <1> QED
    BY <1>3 DEF NodeOK

LEMMA ReceiveTreeOK ==
    ASSUME TreeInv, NEW msg \in net, NEW n, ReceiveTree(n, msg)
    PROVE  TreeInv'
  <1> DEFINE m == msg.from
             stale == msg.seq <= adj[n][m].roleSeq
             a == IF stale THEN adj[n]
                  ELSE [adj[n] EXCEPT ![m].roleSeq = msg.seq, ![m].client = FALSE]
             k == IF stale THEN known[n] ELSE Updated(known[n], m, msg)
             t == IF stale \/ ~Newer(known[n], m, msg) THEN tree[n]
                  ELSE Evaluated(n, tree[n], k)
             trees == IF t # tree[n] THEN DOMAIN a ELSE {}
             turned == \/ ~stale /\ adj[n][m].client
                       \/ IsTreePeer(n, tree[n], known[n], m) # IsTreePeer(n, t, k, m)
             filters == IF turned /\ ~(t # tree[n]) THEN DOMAIN a ELSE {}
  <1>1. /\ msg.to = n /\ msg.type = "TreeAnnounce"
        /\ Become(n, {msg}, t, k, a, trees, filters)
        /\ mesh' = mesh /\ carrier' = carrier
    BY DEF ReceiveTree
  <1>2. n \in Node /\ m \in Node /\ m \in DOMAIN adj[n] /\ FrameOK(msg)
    BY <1>1, FromPeer
  <1>3. NodeOK(n, tree[n], known[n], adj[n])
    BY <1>2, Present
  <1>4. DOMAIN a = DOMAIN adj[n]
    OBVIOUS
  <1>5. \A j \in DOMAIN adj[n] : PeerOK(a[j])
    BY <1>3 DEF NodeOK, PeerOK
  <1>6. DOMAIN k \subseteq DOMAIN adj[n] /\ \A j \in DOMAIN k : EntryOK(j, k[j])
    <2>1. CASE stale \/ ~Newer(known[n], m, msg)
      <3>1. k = known[n]
        BY <2>1 DEF Updated
      <3> HIDE DEF k
      <3> QED
        BY <1>3, <3>1 DEF NodeOK
    <2>2. CASE ~stale /\ Newer(known[n], m, msg)
      <3> DEFINE e == [seq |-> msg.seq, ancestry |-> msg.ancestry]
      <3>1. k = [p \in DOMAIN known[n] \cup {m} |-> IF p = m THEN e ELSE known[n][p]]
        BY <2>2 DEF Updated
      <3>2. EntryOK(m, e)
        BY <1>1, <1>2 DEF FrameOK, Frames, EntryOK, TreeEntry
      <3> HIDE DEF k, e, m
      <3> QED
        BY <1>2, <1>3, <3>1, <3>2 DEF NodeOK
    <2> QED
      BY <2>1, <2>2
  <1>7. t \in {tree[n], Evaluated(n, tree[n], k)}
    OBVIOUS
  <1>8. trees \in SUBSET DOMAIN a /\ filters \in SUBSET DOMAIN a
    OBVIOUS
  <1> HIDE DEF m, stale, a, k, t, trees, turned, filters
  <1>9. NodeOK(n, tree[n], known[n], a)
    BY <1>3, <1>4, <1>5, Edited
  <1>10. NodeOK(n, t, k, a)
    BY <1>2, <1>4, <1>6, <1>7, <1>9, Moved
  <1>11. Left(n, {msg}, t, k, a)
    BY <1>1, <1>2, <1>8, <1>10, BecomeOK
  <1> QED
    BY <1>1, <1>2, <1>4, <1>11, HandlerKeeps

LEMMA SendFiltersOK ==
    ASSUME TreeInv, NEW n \in Node, SendFilters(n)
    PROVE  TreeInv'
  <1>1. /\ Become(n, {}, tree[n], known[n], adj[n], {}, DOMAIN adj[n])
        /\ mesh' = mesh /\ carrier' = carrier
    BY DEF SendFilters
  <1>2. NodeOK(n, tree[n], known[n], adj[n])
    BY Present
  <1>3. {} \in SUBSET DOMAIN adj[n] /\ DOMAIN adj[n] \in SUBSET DOMAIN adj[n]
    OBVIOUS
  <1>4. Left(n, {}, tree[n], known[n], adj[n])
    BY <1>1, <1>2, <1>3, BecomeOK
  <1> QED
    BY <1>1, <1>4, HandlerKeeps

LEMMA RefreshClientRoleOK ==
    ASSUME TreeInv, NEW n \in Node, RefreshClientRole(n)
    PROVE  TreeInv'
  <1>1. /\ Become(n, {}, tree[n], known[n], adj[n], DOMAIN adj[n], {})
        /\ mesh' = mesh /\ carrier' = carrier
    BY DEF RefreshClientRole
  <1>2. NodeOK(n, tree[n], known[n], adj[n])
    BY Present
  <1>3. {} \in SUBSET DOMAIN adj[n] /\ DOMAIN adj[n] \in SUBSET DOMAIN adj[n]
    OBVIOUS
  <1>4. Left(n, {}, tree[n], known[n], adj[n])
    BY <1>1, <1>2, <1>3, BecomeOK
  <1> QED
    BY <1>1, <1>4, HandlerKeeps

LEMMA ReceiveFilterOK ==
    ASSUME TreeInv, NEW msg \in net, NEW n, ReceiveFilter(n, msg)
    PROVE  TreeInv'
  <1> DEFINE m == msg.from
             fresh == msg.seq > adj[n][m].inSeq
             a == IF fresh
                  THEN [adj[n] EXCEPT ![m].inFilter = msg.filter, ![m].inSeq = msg.seq]
                  ELSE adj[n]
             filters == IF fresh /\ IsTreePeer(n, tree[n], known[n], m)
                        THEN DOMAIN a \ {m} ELSE {}
  <1>1. /\ msg.to = n
        /\ Become(n, {msg}, tree[n], known[n], a, {}, filters)
        /\ mesh' = mesh /\ carrier' = carrier
    BY DEF ReceiveFilter
  <1>2. n \in Node /\ m \in DOMAIN adj[n] /\ msg.filter \in SUBSET Node
    BY <1>1, FromPeer DEF FrameOK, Frames
  <1>3. NodeOK(n, tree[n], known[n], adj[n])
    BY <1>2, Present
  <1>4. DOMAIN a = DOMAIN adj[n]
    OBVIOUS
  <1>5. \A j \in DOMAIN adj[n] : PeerOK(a[j])
    BY <1>2, <1>3 DEF NodeOK, PeerOK
  <1>6. {} \in SUBSET DOMAIN a /\ filters \in SUBSET DOMAIN a
    OBVIOUS
  <1> HIDE DEF m, fresh, a, filters
  <1>7. NodeOK(n, tree[n], known[n], a)
    BY <1>3, <1>4, <1>5, Edited
  <1>8. Left(n, {msg}, tree[n], known[n], a)
    BY <1>1, <1>2, <1>6, <1>7, BecomeOK
  <1> QED
    BY <1>1, <1>2, <1>4, <1>8, HandlerKeeps

\* A message that is dropped.
LEMMA Dropped ==
    ASSUME TreeInv, NEW msg, net' = net \ {msg}, UNCHANGED <<adj, tree, known, count>>,
           mesh' = mesh, carrier' = carrier
    PROVE  TreeInv'
  <1>1. mesh' \in Meshes /\ carrier' \subseteq mesh'.links /\ EndsHeld'
    BY DEF TreeInv, EndsHeld
  <1>2. Tables'
    BY DEF TreeInv, Tables, NodeOK, EntryOK, PeerOK
  <1>3. FramesFit'
    BY DEF TreeInv, FramesFit, FrameOK
  <1> QED
    BY <1>1, <1>2, <1>3 DEF TreeInv

LEMMA ReceiveSupportOK ==
    ASSUME TreeInv, NEW msg \in net, NEW n, ReceiveSupport(n, msg)
    PROVE  TreeInv'
  <1> DEFINE m == msg.from
             a == [adj[n] EXCEPT ![m].supported = TRUE]
             answer == Frame(n, m, "ClientSupport", 0, <<>>, {})
  <1>1. msg.to = n /\ mesh' = mesh /\ carrier' = carrier
    BY DEF ReceiveSupport
  <1>2. n \in Node /\ m \in Node /\ m \in DOMAIN adj[n]
    BY <1>1, FromPeer
  <1>3. NodeOK(n, tree[n], known[n], adj[n])
    BY <1>2, Present
  <1>4. DOMAIN a = DOMAIN adj[n]
    OBVIOUS
  <1>5. \A j \in DOMAIN adj[n] : PeerOK(a[j])
    BY <1>3 DEF NodeOK, PeerOK
  <1>6. \/ net' = net \ {msg} /\ UNCHANGED <<adj, tree, known, count>>
        \/ Become(n, {msg}, tree[n], known[n], a, {m}, {})
        \/ /\ adj' = [adj EXCEPT ![n] = a]
           /\ net' = (net \ {msg}) \cup Carried({answer})
           /\ UNCHANGED <<tree, known, count>>
    BY DEF ReceiveSupport
  <1>7. {m} \in SUBSET DOMAIN a /\ {} \in SUBSET DOMAIN a
    BY <1>2, <1>4
  <1>8. SentTo(n, DOMAIN a, answer)
    BY <1>2, <1>4 DEF SentTo, FrameOK, Frame, Frames
  <1> HIDE DEF m, a, answer
  <1>9. NodeOK(n, tree[n], known[n], a)
    BY <1>3, <1>4, <1>5, Edited
  <1>10. CASE net' = net \ {msg} /\ UNCHANGED <<adj, tree, known, count>>
    BY <1>1, <1>10, Dropped
  <1>11. CASE Become(n, {msg}, tree[n], known[n], a, {m}, {})
    <2>1. Left(n, {msg}, tree[n], known[n], a)
      BY <1>2, <1>7, <1>9, <1>11, BecomeOK
    <2> QED
      BY <1>1, <1>2, <1>4, <2>1, HandlerKeeps
  <1>12. CASE /\ adj' = [adj EXCEPT ![n] = a]
              /\ net' = (net \ {msg}) \cup Carried({answer})
              /\ UNCHANGED <<tree, known, count>>
    <2>1. \A f \in net' : \/ f \in net \ {msg}
                          \/ SentTo(n, DOMAIN a, f) /\ {f.from, f.to} \in carrier
      BY <1>8, <1>12 DEF Carried
    <2>2. Left(n, {msg}, tree[n], known[n], a)
      BY <1>2, <1>9, <1>12, <2>1 DEF TreeInv, Tables, Left
    <2> QED
      BY <1>1, <1>2, <1>4, <2>2, HandlerKeeps
  <1> QED
    BY <1>6, <1>10, <1>11, <1>12

LEMMA WithoutOK ==
    ASSUME NEW n \in Node, NEW m, NEW t, NEW k, NEW a, NodeOK(n, t, k, a),
           NEW u \in {t, Evaluated(n, t, Without(k, m))}
    PROVE  NodeOK(n, u, Without(k, m), a)
  <1> DEFINE l == Without(k, m)
  <1>1. DOMAIN l \subseteq DOMAIN a /\ \A j \in DOMAIN l : EntryOK(j, l[j])
    BY DEF NodeOK, Without
  <1> HIDE DEF l
  <1>2. u \in {t, Evaluated(n, t, l)}
    BY DEF l
  <1>3. NodeOK(n, u, l, a)
    BY <1>1, <1>2, Moved
  <1> QED
    BY <1>3 DEF l

LEMMA ReceiveClientOnlyOK ==
    ASSUME TreeInv, NEW msg \in net, NEW n, ReceiveClientOnly(n, msg)
    PROVE  TreeInv'
  <1> DEFINE m == msg.from
             k == Without(known[n], m)
             t == IF m \in DOMAIN known[n] THEN Evaluated(n, tree[n], k) ELSE tree[n]
             a == [adj[n] EXCEPT ![m].roleSeq = msg.seq, ![m].supported = TRUE,
                                 ![m].client = TRUE]
             trees == IF t # tree[n] THEN DOMAIN a ELSE {}
  <1>1. msg.to = n /\ mesh' = mesh /\ carrier' = carrier
    BY DEF ReceiveClientOnly
  <1>2. n \in Node /\ m \in Node /\ m \in DOMAIN adj[n]
    BY <1>1, FromPeer
  <1>3. NodeOK(n, tree[n], known[n], adj[n])
    BY <1>2, Present
  <1>4. DOMAIN a = DOMAIN adj[n]
    OBVIOUS
  <1>5. \A j \in DOMAIN adj[n] : PeerOK(a[j])
    BY <1>3 DEF NodeOK, PeerOK
  <1>6. \/ net' = net \ {msg} /\ UNCHANGED <<adj, tree, known, count>>
        \/ Become(n, {msg}, tree[n], known[n], a, {}, {})
        \/ Become(n, {msg}, t, k, a, trees, DOMAIN a)
    BY DEF ReceiveClientOnly
  <1>7. trees \in SUBSET DOMAIN a /\ {} \in SUBSET DOMAIN a /\ DOMAIN a \in SUBSET DOMAIN a
    OBVIOUS
  <1>8. t \in {tree[n], Evaluated(n, tree[n], Without(known[n], m))}
    OBVIOUS
  <1> HIDE DEF m, a, t, trees
  <1>9. NodeOK(n, tree[n], known[n], a)
    BY <1>3, <1>4, <1>5, Edited
  <1>10. NodeOK(n, t, k, a)
    BY <1>2, <1>8, <1>9, WithoutOK
  <1> HIDE DEF k
  <1>11. CASE net' = net \ {msg} /\ UNCHANGED <<adj, tree, known, count>>
    BY <1>1, <1>11, Dropped
  <1>12. CASE Become(n, {msg}, tree[n], known[n], a, {}, {})
    <2>1. Left(n, {msg}, tree[n], known[n], a)
      BY <1>2, <1>7, <1>9, <1>12, BecomeOK
    <2> QED
      BY <1>1, <1>2, <1>4, <2>1, HandlerKeeps
  <1>13. CASE Become(n, {msg}, t, k, a, trees, DOMAIN a)
    <2>1. Left(n, {msg}, t, k, a)
      BY <1>2, <1>7, <1>10, <1>13, BecomeOK
    <2> QED
      BY <1>1, <1>2, <1>4, <2>1, HandlerKeeps
  <1> QED
    BY <1>6, <1>11, <1>12, <1>13

----------------------------------------------------------------------------
(* Links that go and come *)

\* What Forget leaves: the frames between the two nodes are gone, and the one
\* that forgets has nothing of the other.
LEMMA Forgotten ==
    ASSUME TreeInv, NEW n \in Node, NEW m, Forget(n, m)
    PROVE  \E t, k, a :
              /\ Left(n, {msg \in net : {msg.from, msg.to} = {n, m}}, t, k, a)
              /\ DOMAIN a = DOMAIN adj[n] \ {m}
  <1> DEFINE k == Without(known[n], m)
             a == Without(adj[n], m)
             t == IF m \in DOMAIN known[n] THEN Evaluated(n, tree[n], k) ELSE tree[n]
             changed == t # tree[n]
             trees == IF changed THEN DOMAIN a ELSE {}
             filters == IF changed \/ IsTreePeer(n, tree[n], known[n], m) THEN DOMAIN a ELSE {}
             rcvd == {msg \in net : {msg.from, msg.to} = {n, m}}
  <1>1. Become(n, rcvd, t, k, a, trees, filters)
    BY DEF Forget
  <1>2. NodeOK(n, tree[n], known[n], adj[n])
    BY Present
  <1>3. trees \in SUBSET DOMAIN a /\ filters \in SUBSET DOMAIN a
    OBVIOUS
  <1>4. t \in {tree[n], Evaluated(n, tree[n], Without(known[n], m))}
    OBVIOUS
  <1>5. /\ DOMAIN a = DOMAIN adj[n] \ {m} /\ \A j \in DOMAIN a : a[j] = adj[n][j]
        /\ DOMAIN k = DOMAIN known[n] \ {m}
    BY DEF Without
  <1> HIDE DEF a, t, changed, trees, filters, rcvd
  <1>6. NodeOK(n, t, k, adj[n])
    BY <1>2, <1>4, WithoutOK
  <1> HIDE DEF k
  <1>7. NodeOK(n, t, k, a)
    <2>1. DOMAIN k \subseteq DOMAIN a
      BY <1>2, <1>5 DEF NodeOK
    <2> QED
      BY <1>5, <1>6, <2>1 DEF NodeOK
  <1>8. Left(n, rcvd, t, k, a)
    BY <1>1, <1>3, <1>7, BecomeOK
  <1> QED
    BY <1>5, <1>8 DEF rcvd

\* The link of n and m has no carrier any more, and n has nothing of m.
LEMMA ForgetKeeps ==
    ASSUME TreeInv, NEW n \in Node, NEW m \in Node, {n, m} \in mesh.links, Forget(n, m),
           mesh' = mesh, carrier' = carrier \ {{n, m}}
    PROVE  TreeInv'
  <1> DEFINE rcvd == {msg \in net : {msg.from, msg.to} = {n, m}}
  <1>1. PICK t, k, a : Left(n, rcvd, t, k, a) /\ DOMAIN a = DOMAIN adj[n] \ {m}
    BY Forgotten
  <1>2. n # m
    BY LinkEnds DEF TreeInv
  <1>3. \A j \in Node : NodeOK(j, tree'[j], known'[j], adj'[j])
    BY <1>1 DEF TreeInv, Tables, Left
  <1>4. Tables'
    BY <1>1, <1>3 DEF Left, Tables, NodeOK, EntryOK, PeerOK
  <1>5. FramesFit'
    <2>1. SUFFICES ASSUME NEW msg \in net'
                   PROVE  FrameOK(msg) /\ {msg.from, msg.to} \in carrier \ {{n, m}}
      BY DEF FramesFit, FrameOK
    <2>2. CASE msg \in net \ rcvd
      BY <2>2 DEF TreeInv, FramesFit
    <2>3. CASE SentTo(n, DOMAIN a, msg) /\ {msg.from, msg.to} \in carrier
      <3>1. FrameOK(msg) /\ msg.from = n /\ msg.to # m
        BY <1>1, <2>3 DEF SentTo
      <3>2. {msg.from, msg.to} # {n, m}
        BY <1>2, <3>1
      <3> QED
        BY <2>3, <3>1, <3>2
    <2> QED
      BY <1>1, <2>2, <2>3 DEF Left
  <1>6. EndsHeld'
    <2>1. SUFFICES ASSUME NEW l \in carrier, l # {n, m}, NEW i \in l, NEW j \in l, i # j
                   PROVE  j \in DOMAIN adj'[i]
      BY DEF EndsHeld
    <2>2. l \in SUBSET Node /\ Cardinality(l) = 2
      BY SpanningTreeAssumption DEF TreeInv
    <2>3. j \in DOMAIN adj[i]
      BY <2>1 DEF TreeInv, EndsHeld
    <2>4. CASE i # n
      BY <1>1, <2>2, <2>3, <2>4 DEF Left
    <2>5. CASE i = n /\ j # m
      BY <1>1, <2>3, <2>5 DEF Left
    <2>6. CASE i = n /\ j = m
      <3>1. l = {n, m}
        BY <1>2, <2>1, <2>2, <2>6, PairIsLink
      <3> QED
        BY <2>1, <3>1
    <2> QED
      BY <2>4, <2>5, <2>6
  <1> QED
    BY <1>4, <1>5, <1>6 DEF TreeInv

LEMMA BreakOK ==
    ASSUME TreeInv, NEW n \in Node, NEW m \in Node, Break(n, m)
    PROVE  TreeInv'
  <1>1. {n, m} \in mesh.links /\ Forget(n, m) /\ mesh' = mesh /\ carrier' = carrier \ {{n, m}}
    BY DEF Break, TreeInv
  <1> QED
    BY <1>1, ForgetKeeps

LEMMA NoticeOK ==
    ASSUME TreeInv, NEW n \in Node, NEW m \in Node, Notice(n, m)
    PROVE  TreeInv'
  <1>1. Forget(n, m) /\ mesh' = mesh /\ carrier' = carrier \ {{n, m}}
    BY DEF Notice
  <1>2. {n, m} \in mesh.links
    BY Present DEF Notice, NodeOK
  <1> QED
    BY <1>1, <1>2, ForgetKeeps

LEMMA RestartOK ==
    ASSUME TreeInv, NEW n \in Node, Restart(n)
    PROVE  TreeInv'
  <1>1. /\ mesh' = mesh /\ carrier' = {l \in carrier : n \notin l}
        /\ net' = {msg \in net : n \notin {msg.from, msg.to}}
        /\ adj' = [adj EXCEPT ![n] = <<>>]
        /\ tree' = [tree EXCEPT ![n] = NewTree(n)]
        /\ known' = [known EXCEPT ![n] = <<>>]
        /\ count' = [count EXCEPT ![n] = NewCount]
    BY DEF Restart
  <1>2. EntryOK(n, NewTree(n))
    BY AloneValid DEF EntryOK, TreeEntry, NewTree
  <1>3. NodeOK(n, NewTree(n), <<>>, <<>>)
    BY <1>2 DEF NodeOK
  <1>4. \A j \in Node : NodeOK(j, tree'[j], known'[j], adj'[j])
    BY <1>1, <1>3 DEF TreeInv, Tables
  <1>5. DOMAIN count' = Node /\ \A j \in Node : count'[j] \in [role : Nat, filter : Nat]
    BY <1>1 DEF TreeInv, Tables, NewCount
  <1>6. DOMAIN tree' = Node /\ DOMAIN known' = Node /\ DOMAIN adj' = Node
    BY <1>1 DEF TreeInv, Tables
  <1>7. Tables'
    <2>1. mesh' = mesh
      BY <1>1
    <2> QED
      BY <1>4, <1>5, <1>6, <2>1 DEF Tables, NodeOK, EntryOK, PeerOK
  <1>8. FramesFit'
    BY <1>1 DEF TreeInv, FramesFit, FrameOK
  <1>9. EndsHeld'
    <2>1. SUFFICES ASSUME NEW l \in carrier, n \notin l, NEW i \in l, NEW j \in l, i # j
                   PROVE  j \in DOMAIN adj'[i]
      BY <1>1 DEF EndsHeld
    <2>2. i \in Node /\ i # n
      BY <2>1, SpanningTreeAssumption DEF TreeInv
    <2>3. adj'[i] = adj[i]
      BY <1>1, <2>2 DEF TreeInv, Tables
    <2> QED
      BY <2>1, <2>3 DEF TreeInv, EndsHeld
  <1> QED
    BY <1>1, <1>7, <1>8, <1>9 DEF TreeInv

\* One end of a new link.
LEMMA GreetedOK ==
    ASSUME TreeInv, NEW n \in Node, NEW m \in Node, {n, m} \in mesh.links
    PROVE  /\ NodeOK(n, tree[n], known[n], Greeted(n, m))
           /\ DOMAIN Greeted(n, m) = DOMAIN adj[n] \cup {m}
           /\ \A msg \in Greeting(n, m) : SentTo(n, {m}, msg)
  <1> DEFINE a == Connected(adj[n], n, m)
  <1>1. NodeOK(n, tree[n], known[n], adj[n])
    BY Present
  <1>2. DOMAIN a = DOMAIN adj[n] \cup {m}
    BY DEF Connected
  <1>3. \A j \in DOMAIN a : PeerOK(a[j])
    BY <1>1 DEF Connected, NodeOK, PeerOK, NewPeer
  <1> HIDE DEF a
  <1>4. NodeOK(n, tree[n], known[n], a)
    BY <1>1, <1>2, <1>3 DEF NodeOK
  <1>5. NodeOK(n, tree[n], known[n], Announced(n, tree[n], known[n], a, {m}))
        /\ DOMAIN Announced(n, tree[n], known[n], a, {m}) = DOMAIN a
    BY <1>4, AnnouncedOK
  <1>6. ASSUME NEW msg \in Greeting(n, m)
        PROVE  SentTo(n, {m}, msg)
    <2>1. count[n] \in [role : Nat, filter : Nat] /\ {m} \in SUBSET Node
      BY DEF TreeInv, Tables
    <2>2. \/ msg \in TreeFrames(n, tree[n], a, {m}, count[n])
          \/ msg \in FilterFrames(n, tree[n], known[n], a, {m}, count[n])
      BY DEF Greeting, a
    <2>3. CASE msg \in TreeFrames(n, tree[n], a, {m}, count[n])
      <3>1. EntryOK(n, tree[n])
        BY <1>1 DEF NodeOK
      <3> QED
        BY <2>1, <2>3, <3>1, TreeFramesOK
    <2>4. CASE msg \in FilterFrames(n, tree[n], known[n], a, {m}, count[n])
      BY <1>4, <2>1, <2>4, FilterFramesOK
    <2> QED
      BY <2>2, <2>3, <2>4
  <1> QED
    BY <1>2, <1>5, <1>6 DEF Greeted, a

LEMMA EstablishOK ==
    ASSUME TreeInv, NEW a \in Node, NEW b \in Node, Establish(a, b)
    PROVE  TreeInv'
  <1>1. /\ {a, b} \in mesh.links
        /\ mesh' = mesh /\ carrier' = carrier \cup {{a, b}}
        /\ adj' = [adj EXCEPT ![a] = Greeted(a, b), ![b] = Greeted(b, a)]
        /\ net' = net \cup Greeting(a, b) \cup Greeting(b, a)
        /\ count' = [n \in Node |-> IF n \in {a, b} \ Client
                                    THEN [count[n] EXCEPT !.filter = @ + 1] ELSE count[n]]
        /\ tree' = tree /\ known' = known
    BY DEF Establish
  <1>2. a # b /\ {b, a} = {a, b}
    BY <1>1, LinkEnds DEF TreeInv
  <1>3. /\ NodeOK(a, tree[a], known[a], Greeted(a, b))
        /\ DOMAIN Greeted(a, b) = DOMAIN adj[a] \cup {b}
        /\ \A msg \in Greeting(a, b) : SentTo(a, {b}, msg)
    BY <1>1, GreetedOK
  <1>4. /\ NodeOK(b, tree[b], known[b], Greeted(b, a))
        /\ DOMAIN Greeted(b, a) = DOMAIN adj[b] \cup {a}
        /\ \A msg \in Greeting(b, a) : SentTo(b, {a}, msg)
    BY <1>1, <1>2, GreetedOK
  <1>5. DOMAIN adj = Node /\ DOMAIN tree = Node /\ DOMAIN known = Node
    BY DEF TreeInv, Tables
  <1>6. /\ DOMAIN adj' = Node /\ adj'[a] = Greeted(a, b) /\ adj'[b] = Greeted(b, a)
        /\ \A n \in Node \ {a, b} : adj'[n] = adj[n]
    BY <1>1, <1>2, <1>5
  <1>7. \A n \in Node : NodeOK(n, tree'[n], known'[n], adj'[n])
    <2>1. TAKE n \in Node
    <2>2. CASE n \in {a, b}
      BY <1>1, <1>3, <1>4, <1>6, <2>2
    <2>3. CASE n \notin {a, b}
      BY <1>1, <1>6, <2>3, Present
    <2> QED
      BY <2>2, <2>3
  <1>8. DOMAIN count' = Node /\ \A n \in Node : count'[n] \in [role : Nat, filter : Nat]
    <2>1. \A n \in Node : count[n] \in [role : Nat, filter : Nat]
      BY DEF TreeInv, Tables
    <2> QED
      BY <1>1, <2>1
  <1>9. Tables'
    <2>1. mesh' = mesh /\ DOMAIN tree' = Node /\ DOMAIN known' = Node
      BY <1>1, <1>5
    <2> QED
      BY <1>6, <1>7, <1>8, <2>1 DEF Tables, NodeOK, EntryOK, PeerOK
  <1>10. FramesFit'
    <2>1. SUFFICES ASSUME NEW msg \in net'
                   PROVE  FrameOK(msg) /\ {msg.from, msg.to} \in carrier \cup {{a, b}}
      BY <1>1 DEF FramesFit, FrameOK
    <2>2. CASE msg \in net
      BY <2>2 DEF TreeInv, FramesFit
    <2>3. CASE msg \in Greeting(a, b)
      BY <1>3, <2>3 DEF SentTo
    <2>4. CASE msg \in Greeting(b, a)
      BY <1>2, <1>4, <2>4 DEF SentTo
    <2> QED
      BY <1>1, <2>2, <2>3, <2>4
  <1>11. EndsHeld'
    <2>1. \A n \in Node : DOMAIN adj[n] \subseteq DOMAIN adj'[n]
      BY <1>3, <1>4, <1>6
    <2>2. \A l \in carrier : l \subseteq Node
      BY SpanningTreeAssumption DEF TreeInv
    <2>3. \A l \in carrier : \A n, m \in l : n # m => m \in DOMAIN adj'[n]
      BY <2>1, <2>2 DEF TreeInv, EndsHeld
    <2>4. \A n, m \in {a, b} : n # m => m \in DOMAIN adj'[n]
      BY <1>3, <1>4, <1>6
    <2> QED
      BY <1>1, <2>3, <2>4 DEF EndsHeld
  <1> QED
    BY <1>1, <1>9, <1>10, <1>11 DEF TreeInv

----------------------------------------------------------------------------
(* The theorem *)

LEMMA TreeInitOK == TreeInit => TreeInv
  <1> SUFFICES ASSUME TreeInit PROVE TreeInv
    OBVIOUS
  <1>1. PICK s \in mesh.starts :
          /\ carrier = s.up
          /\ tree = [n \in Node |-> [seq |-> 1, ancestry |-> s.paths[n]]]
          /\ known = [n \in Node |-> Heard(n, s, Client)]
          /\ adj = [n \in Node |-> [m \in Neighbours(n, s.up) |->
                                        SettledPeer(n, m, s.up, s.paths)]]
    BY DEF TreeInit
  <1>2. mesh \in Meshes /\ net = {} /\ count = [n \in Node |-> [role |-> 1, filter |-> 1]]
    BY DEF TreeInit
  <1>3. /\ s.up \subseteq mesh.links
        /\ s.paths \in [Node -> Seq(Node)]
        /\ \A n \in Node : ValidAncestry(n, s.paths[n])
        /\ mesh.links \subseteq SUBSET Node
    BY <1>2, SpanningTreeAssumption
  <1>4. \A n \in Node : EntryOK(n, [seq |-> 1, ancestry |-> s.paths[n]])
    BY <1>3 DEF EntryOK, TreeEntry
  <1>5. ASSUME NEW n \in Node
        PROVE  NodeOK(n, tree[n], known[n], adj[n])
    <2>1. /\ tree[n] = [seq |-> 1, ancestry |-> s.paths[n]]
          /\ DOMAIN adj[n] = Neighbours(n, s.up)
          /\ DOMAIN known[n] = Neighbours(n, s.up) \ Client
          /\ \A m \in DOMAIN known[n] : known[n][m] = [seq |-> 1, ancestry |-> s.paths[m]]
          /\ \A m \in DOMAIN adj[n] : adj[n][m] = SettledPeer(n, m, s.up, s.paths)
      BY <1>1 DEF Heard
    <2>2. \A m \in Neighbours(n, s.up) : m \in Node /\ {n, m} \in mesh.links
      BY <1>3 DEF Neighbours
    <2>3. ASSUME NEW m \in Node
          PROVE  PeerOK(SettledPeer(n, m, s.up, s.paths))
      <3>1. Side(m, n, s.up, s.paths) \in SUBSET Node
        BY DEF Side
      <3> QED
        BY <3>1 DEF PeerOK, SettledPeer
    <2> QED
      BY <1>4, <2>1, <2>2, <2>3 DEF NodeOK
  <1>6. Tables
    <2>1. DOMAIN tree = Node /\ DOMAIN known = Node /\ DOMAIN adj = Node /\ DOMAIN count = Node
      BY <1>1, <1>2
    <2>2. \A n \in Node : count[n] \in [role : Nat, filter : Nat]
      BY <1>2
    <2> QED
      BY <1>5, <2>1, <2>2 DEF Tables
  <1>7. EndsHeld
    <2>1. SUFFICES ASSUME NEW l \in carrier, NEW n \in l, NEW m \in l, n # m
                   PROVE  m \in DOMAIN adj[n]
      BY DEF EndsHeld
    <2>2. l \in SUBSET Node /\ Cardinality(l) = 2
      BY <1>1, <1>2, SpanningTreeAssumption
    <2>3. l = {n, m}
      BY <2>1, <2>2, PairIsLink
    <2>4. m \in Neighbours(n, s.up) /\ n \in Node
      BY <1>1, <2>2, <2>3 DEF Neighbours
    <2> QED
      BY <1>1, <2>4
  <1> QED
    BY <1>1, <1>2, <1>3, <1>6, <1>7 DEF TreeInv, FramesFit

LEMMA TreeStep == TreeInv /\ [TreeNext]_treeVars => TreeInv'
  <1> SUFFICES ASSUME TreeInv, [TreeNext]_treeVars
               PROVE  TreeInv'
    OBVIOUS
  <1>1. ASSUME NEW n \in Node, NEW m \in Node, Notice(n, m)
        PROVE  TreeInv'
    BY <1>1, NoticeOK
  <1>2. ASSUME NEW msg \in net, Receive(msg.to, msg)
        PROVE  TreeInv'
    BY <1>2, ReceiveTreeOK, ReceiveFilterOK, ReceiveSupportOK, ReceiveClientOnlyOK DEF Receive
  <1>3. ASSUME NEW n \in Node, SendFilters(n)
        PROVE  TreeInv'
    BY <1>3, SendFiltersOK
  <1>4. ASSUME NEW a \in Node, NEW b \in Node, Establish(a, b) \/ Break(a, b)
        PROVE  TreeInv'
    BY <1>4, EstablishOK, BreakOK
  <1>5. ASSUME NEW n \in Node, RefreshClientRole(n) \/ Restart(n)
        PROVE  TreeInv'
    BY <1>5, RefreshClientRoleOK, RestartOK
  <1>6. CASE UNCHANGED treeVars
    BY <1>6 DEF treeVars, TreeInv, Tables, NodeOK, EntryOK, PeerOK, FramesFit, FrameOK, EndsHeld
  <1> QED
    BY <1>1, <1>2, <1>3, <1>4, <1>5, <1>6 DEF TreeNext, Work

LEMMA TreeInvGivesWellFormed == TreeInv => WellFormed
  <1> SUFFICES ASSUME TreeInv PROVE WellFormed
    OBVIOUS
  <1>1. \A msg \in net : FrameOK(msg)
    BY DEF TreeInv, FramesFit
  <1>2. \A n \in Node : NodeOK(n, tree[n], known[n], adj[n])
    BY Present
  <1>3. AncestriesValid
    BY <1>1, <1>2 DEF AncestriesValid, FrameOK, NodeOK, EntryOK
  <1>4. net \subseteq Frames
    BY <1>1 DEF FrameOK
  <1>5. TreeTypeOK
    BY <1>2, <1>4 DEF TreeInv, EndsHeld, TreeTypeOK, NodeOK, EntryOK, TreeEntry
  <1> QED
    BY <1>3, <1>5 DEF WellFormed

(* For every mesh, every order of addresses, and any number of broken      *)
(* links, restarts and repairs, however announcements overtake each other: *)
(* no node puts itself on a path through itself, every announcement passes *)
(* the checks of encodeTreeAnnounce, and evaluateParent works on the       *)
(* entries of present peers only.                                          *)
THEOREM AnnouncementsWellFormed == TreeSpec => []WellFormed
  <1>1. TreeInit => TreeInv
    BY TreeInitOK
  <1>2. TreeInv /\ [TreeNext]_treeVars => TreeInv'
    BY TreeStep
  <1>3. TreeInv => WellFormed
    BY TreeInvGivesWellFormed
  <1> QED
    BY <1>1, <1>2, <1>3, PTL DEF TreeSpec

----------------------------------------------------------------------------
(* What a node has heard of its peers *)

PlaceFrame(n, m, e) == Frame(n, m, "TreeAnnounce", e.seq, e.ancestry, {})

\* The sequence number of what is known of node n, 0 before its first announcement.
Seen(k, n) == IF n \in DOMAIN k THEN k[n].seq ELSE 0

\* Node m, with the entries k and the AdjacentPeer p for node n whose own entry is e,
\* has heard the last of n or will.
Told(e, n, m, k, p, frames) ==
    /\ "roleSeq" \in DOMAIN p /\ p.roleSeq = Seen(k, n)
    /\ Seen(k, n) <= e.seq
    /\ Seen(k, n) = e.seq => k[n] = e
    /\ Seen(k, n) < e.seq => PlaceFrame(n, m, e) \in frames

\* No announcement is newer than the place of its sender, and only a client says that it
\* is one.
Tells(msg, trees) ==
    /\ msg.type = "TreeAnnounce" =>
        /\ msg.from \in Core /\ msg.seq <= trees[msg.from].seq
        /\ msg.seq = trees[msg.from].seq => msg.ancestry = trees[msg.from].ancestry
    /\ msg.type = "ClientOnly" => msg.from \in Client

\* A node's place is the one that follows from what it knows.
Placed(n, t, k) ==
    /\ DOMAIN k \subseteq Core /\ k = [m \in DOMAIN k |-> k[m]]
    /\ t.ancestry = NextAncestry(n, k)

Telling ==
    /\ \A n \in Core, m \in Node :
          {n, m} \in carrier => Told(tree[n], n, m, known[m], adj[m][n], net)
    /\ \A msg \in net : Tells(msg, tree)
    /\ \A n \in Node : Placed(n, tree[n], known[n])

\* What a handler of node n has done that became t, k, a and told its place to the
\* peers told.
Spoke(n, rcvd, t, k, a, told) ==
    /\ tree'[n] = t /\ known'[n] = k
    /\ \A j \in Node \ {n} : tree'[j] = tree[j] /\ known'[j] = known[j] /\ adj'[j] = adj[j]
    /\ \A m \in DOMAIN a : /\ "roleSeq" \in DOMAIN a[m] => "roleSeq" \in DOMAIN adj'[n][m]
                           /\ adj'[n][m].roleSeq = a[m].roleSeq
    /\ net \ rcvd \subseteq net'
    /\ \A msg \in net' :
        \/ msg \in net \ rcvd
        \/ /\ msg.from = n
           /\ msg.type = "TreeAnnounce" =>
                 n \in Core /\ msg.seq = t.seq /\ msg.ancestry = t.ancestry
           /\ msg.type = "ClientOnly" => n \in Client
    /\ n \in Core => \A m \in told : {n, m} \in carrier => PlaceFrame(n, m, t) \in net'

LEMMA AnnouncedRole ==
    ASSUME NEW n, NEW t, NEW k, NEW a, NEW ms, NEW m \in DOMAIN a
    PROVE  LET b == Announced(n, t, k, a, ms)
           IN  /\ "roleSeq" \in DOMAIN a[m] => "roleSeq" \in DOMAIN b[m]
               /\ b[m].roleSeq = a[m].roleSeq
  <1> DEFINE b == Announced(n, t, k, a, ms)
  <1>1. \/ b[m] = [a[m] EXCEPT !.outFilter = OutgoingFilter(n, t, k, a, m)]
        \/ b[m] = a[m]
    BY DEF Announced
  <1> HIDE DEF b
  <1>2. "outFilter" # "roleSeq"
    OBVIOUS
  <1>3. CASE b[m] = [a[m] EXCEPT !.outFilter = OutgoingFilter(n, t, k, a, m)]
    <2>1. DOMAIN b[m] = DOMAIN a[m]
      BY <1>3
    <2>2. b[m].roleSeq = a[m].roleSeq
      BY <1>3
    <2> QED
      BY <2>1, <2>2 DEF b
  <1>4. CASE b[m] = a[m]
    BY <1>4 DEF b
  <1> QED
    BY <1>1, <1>3, <1>4

LEMMA TreeFramesSay ==
    ASSUME NEW n, NEW t, NEW a, NEW ms, NEW c, NEW msg \in TreeFrames(n, t, a, ms, c), n \in Node
    PROVE  /\ msg.from = n
           /\ msg.type = "TreeAnnounce" =>
                 n \in Core /\ msg.seq = t.seq /\ msg.ancestry = t.ancestry
           /\ msg.type = "ClientOnly" => n \in Client
  <1>1. CASE n \in Client
    <2>1. \E m, seq : \/ msg = Frame(n, m, "ClientOnly", seq, <<>>, {})
                      \/ msg = Frame(n, m, "ClientSupport", seq, <<>>, {})
      BY <1>1 DEF TreeFrames, RoleFrames
    <2> QED
      BY <1>1, <2>1 DEF Frame
  <1>2. CASE n \notin Client
    <2>1. PICK m \in ms : msg = Frame(n, m, "TreeAnnounce", t.seq, t.ancestry, {})
      BY <1>2 DEF TreeFrames
    <2> QED
      BY <1>2, <2>1 DEF Frame, Core
  <1> QED
    BY <1>1, <1>2

LEMMA FilterFramesSay ==
    ASSUME NEW n, NEW t, NEW k, NEW a, NEW ms, NEW c, NEW msg \in FilterFrames(n, t, k, a, ms, c)
    PROVE  msg.from = n /\ msg.type = "FilterAnnounce"
  <1>1. \E m, seq, f : msg = Frame(n, m, "FilterAnnounce", seq, <<>>, f)
    BY DEF FilterFrames
  <1> QED
    BY <1>1 DEF Frame

LEMMA BecomeSpoke ==
    ASSUME TreeInv, NEW n \in Node, NEW rcvd, NEW t, NEW k, NEW a, NEW told, NEW filters,
           Become(n, rcvd, t, k, a, told, filters)
    PROVE  Spoke(n, rcvd, t, k, a, told)
  <1>1. DOMAIN tree = Node /\ DOMAIN known = Node /\ DOMAIN adj = Node
    BY DEF TreeInv, Tables
  <1> DEFINE sent == TreeFrames(n, t, a, told, count[n])
             others == FilterFrames(n, t, k, a, filters, count[n])
  <1>2. /\ tree' = [tree EXCEPT ![n] = t] /\ known' = [known EXCEPT ![n] = k]
        /\ adj' = [adj EXCEPT ![n] = Announced(n, t, k, a, filters)]
        /\ net' = (net \ rcvd) \cup Carried(sent \cup others)
    BY DEF Become
  <1>3. adj'[n] = Announced(n, t, k, a, filters)
    BY <1>1, <1>2
  <1>4. \A m \in DOMAIN a : /\ "roleSeq" \in DOMAIN a[m] => "roleSeq" \in DOMAIN adj'[n][m]
                            /\ adj'[n][m].roleSeq = a[m].roleSeq
    BY <1>3, AnnouncedRole
  <1>5. \A msg \in sent : /\ msg.from = n
                          /\ msg.type = "TreeAnnounce" =>
                                n \in Core /\ msg.seq = t.seq /\ msg.ancestry = t.ancestry
                          /\ msg.type = "ClientOnly" => n \in Client
    BY TreeFramesSay
  <1>6. \A msg \in others : msg.from = n /\ msg.type = "FilterAnnounce"
    BY FilterFramesSay
  <1>7. n \in Core => \A m \in told : {n, m} \in carrier => PlaceFrame(n, m, t) \in Carried(sent)
    <2> SUFFICES ASSUME n \in Core, NEW m \in told, {n, m} \in carrier
                 PROVE  PlaceFrame(n, m, t) \in Carried(sent)
      OBVIOUS
    <2>1. PlaceFrame(n, m, t) \in sent
      BY DEF TreeFrames, Core, PlaceFrame
    <2>2. PlaceFrame(n, m, t).from = n /\ PlaceFrame(n, m, t).to = m
      BY DEF PlaceFrame, Frame
    <2> HIDE DEF sent
    <2> QED
      BY <2>1, <2>2 DEF Carried
  <1> HIDE DEF sent, others
  <1>8. Carried(sent) \subseteq Carried(sent \cup others)
    BY DEF Carried
  <1>9. \A msg \in net' : msg \in net \ rcvd \/ msg \in sent \/ msg \in others
    BY <1>2 DEF Carried
  <1>10. \A msg \in net' :
          \/ msg \in net \ rcvd
          \/ /\ msg.from = n
             /\ msg.type = "TreeAnnounce" =>
                   n \in Core /\ msg.seq = t.seq /\ msg.ancestry = t.ancestry
             /\ msg.type = "ClientOnly" => n \in Client
    BY <1>5, <1>6, <1>9
  <1>11. tree'[n] = t /\ known'[n] = k
         /\ \A j \in Node \ {n} : tree'[j] = tree[j] /\ known'[j] = known[j] /\ adj'[j] = adj[j]
    BY <1>1, <1>2
  <1>12. net \ rcvd \subseteq net'
    BY <1>2
  <1>13. n \in Core => \A m \in told : {n, m} \in carrier => PlaceFrame(n, m, t) \in net'
    BY <1>2, <1>7, <1>8
  <1> QED
    BY <1>4, <1>10, <1>11, <1>12, <1>13 DEF Spoke

\* A handler keeps its peers told if what it tells is new or as before, and if it keeps
\* what it was told.
LEMMA SpeakKeeps ==
    ASSUME TreeInv, Telling, mesh' = mesh, carrier' \subseteq carrier,
           NEW n \in Node, NEW rcvd, NEW t, NEW k, NEW a, NEW told,
           Spoke(n, rcvd, t, k, a, told),
           \/ t = tree[n]
           \/ t.seq = tree[n].seq + 1 /\ \A m \in Node : {n, m} \in carrier' => m \in told,
           \A msg \in rcvd : msg.to = n \/ {msg.from, msg.to} \notin carrier',
           \A m \in Core : {m, n} \in carrier' =>
              m \in DOMAIN a /\ Told(tree[m], m, n, k, a[m], net \ rcvd),
           Placed(n, t, k)
    PROVE  Telling'
  <1>1. \A j, m : {j, m} \in carrier => j \in Node /\ m \in Node /\ j # m
    BY LinkEnds DEF TreeInv
  <1>2. Core' = Core /\ Client' = Client
    BY DEF Core, Client
  <1>3. \A j \in Node : tree[j].seq \in Nat \ {0}
    BY DEF TreeInv, Tables, NodeOK, EntryOK, TreeEntry
  <1>4. \A j \in Node : Placed(j, tree'[j], known'[j])
    BY DEF Telling, Spoke
  <1>5. \A j \in Node : Placed(j, tree[j], known[j])'
    BY <1>2, <1>4 DEF Placed
  <1>6. \A msg \in net' : Tells(msg, tree')
    <2> TAKE msg \in net'
    <2>1. CASE msg \in net \ rcvd
      <3>1. Tells(msg, tree)
        BY <2>1 DEF Telling
      <3>2. CASE msg.from # n
        <4>1. msg.from \in Core => tree'[msg.from] = tree[msg.from]
          BY <3>2 DEF Spoke, Core
        <4> QED
          BY <3>1, <4>1 DEF Tells
      <3>3. CASE msg.from = n
        <4>1. tree'[n] = t
          BY DEF Spoke
        <4>2. CASE t = tree[n]
          BY <3>1, <3>3, <4>1, <4>2 DEF Tells
        <4>3. CASE t.seq = tree[n].seq + 1
          <5>1. msg \in Frames
            BY <2>1 DEF TreeInv, FramesFit, FrameOK
          <5>2. msg.seq \in Nat
            BY <5>1 DEF Frames
          <5>3. msg.type = "TreeAnnounce" => msg.seq <= t.seq /\ msg.seq # t.seq
            BY <1>3, <3>1, <3>3, <4>3, <5>2 DEF Tells
          <5> QED
            BY <3>1, <3>3, <4>1, <5>3 DEF Tells
        <4> QED
          BY <4>2, <4>3
      <3> QED
        BY <3>2, <3>3
    <2>2. CASE msg \notin net \ rcvd
      <3>1. /\ msg.from = n /\ tree'[n] = t
            /\ msg.type = "TreeAnnounce" =>
                  n \in Core /\ msg.seq = t.seq /\ msg.ancestry = t.ancestry
            /\ msg.type = "ClientOnly" => n \in Client
        BY <2>2 DEF Spoke
      <3>2. t.seq \in Nat
        BY <1>3
      <3> QED
        BY <3>1, <3>2 DEF Tells
    <2> QED
      BY <2>1, <2>2
  <1>7. \A msg \in net' : Tells(msg, tree)'
    BY <1>2, <1>6 DEF Tells
  <1>8. ASSUME NEW j \in Core, NEW m \in Node, {j, m} \in carrier'
        PROVE  Told(tree'[j], j, m, known'[m], adj'[m][j], net')
    <2>1. j \in Node /\ j # m /\ {j, m} \in carrier
      BY <1>1, <1>8
    <2>2. PlaceFrame(j, m, tree[j]).to = m /\ PlaceFrame(j, m, tree[j]).from = j
      BY DEF PlaceFrame, Frame
    <2>3. net \ rcvd \subseteq net'
      BY DEF Spoke
    <2>4. Told(tree[j], j, m, known[m], adj[m][j], net)
      BY <2>1 DEF Telling
    <2>5. CASE m = n
      <3>1. j \in DOMAIN a /\ Told(tree[j], j, n, k, a[j], net \ rcvd)
        BY <1>8, <2>5
      <3>2. /\ tree'[j] = tree[j] /\ known'[n] = k
            /\ "roleSeq" \in DOMAIN a[j] => "roleSeq" \in DOMAIN adj'[n][j]
            /\ adj'[n][j].roleSeq = a[j].roleSeq
        BY <2>1, <2>5, <3>1 DEF Spoke
      <3> QED
        BY <2>3, <2>5, <3>1, <3>2 DEF Told
    <2>6. CASE m # n /\ j # n
      <3>1. tree'[j] = tree[j] /\ known'[m] = known[m] /\ adj'[m] = adj[m]
        BY <2>1, <2>6 DEF Spoke
      <3>2. PlaceFrame(j, m, tree[j]) \notin rcvd
        BY <1>8, <2>2, <2>6
      <3> QED
        BY <2>3, <2>4, <3>1, <3>2 DEF Told
    <2>7. CASE m # n /\ j = n
      <3>1. tree'[n] = t /\ known'[m] = known[m] /\ adj'[m] = adj[m]
        BY <2>7 DEF Spoke
      <3>2. PlaceFrame(j, m, tree[j]) \notin rcvd
        BY <1>8, <2>2, <2>7
      <3>3. CASE t = tree[n]
        BY <2>3, <2>4, <2>7, <3>1, <3>2, <3>3 DEF Told
      <3>4. CASE t.seq = tree[n].seq + 1 /\ \A i \in Node : {n, i} \in carrier' => i \in told
        <4>1. m \in told /\ {n, m} \in carrier
          BY <1>8, <2>1, <2>7, <3>4
        <4>2. PlaceFrame(n, m, t) \in net'
          BY <1>8, <2>7, <4>1 DEF Spoke
        <4>3. Seen(known[m], n) \in Nat
          BY <2>1, <2>7 DEF Seen, TreeInv, Tables, NodeOK, EntryOK, TreeEntry
        <4>4. Seen(known[m], n) < t.seq
          BY <1>3, <2>4, <2>7, <3>4, <4>3 DEF Told
        <4> QED
          BY <1>3, <2>4, <2>7, <3>1, <3>4, <4>2, <4>3, <4>4 DEF Told
      <3> QED
        BY <3>3, <3>4
    <2> QED
      BY <2>5, <2>6, <2>7
  <1>9. (\A j \in Core, m \in Node :
            {j, m} \in carrier => Told(tree[j], j, m, known[m], adj[m][j], net))'
    BY <1>2, <1>8 DEF Told, Seen, PlaceFrame
  <1> QED
    BY <1>5, <1>7, <1>9 DEF Telling

LEMMA CarrierHeld ==
    ASSUME TreeInv, NEW m, NEW n, {m, n} \in carrier
    PROVE  m \in Node /\ n \in Node /\ m # n /\ m \in DOMAIN adj[n] /\ n \in DOMAIN adj[m]
  <1>1. m \in Node /\ n \in Node /\ m # n
    BY LinkEnds DEF TreeInv
  <1> QED
    BY <1>1 DEF TreeInv, EndsHeld

\* A handler that leaves the places alone.
LEMMA StillTelling ==
    ASSUME TreeInv, Telling, mesh' = mesh, carrier' = carrier,
           NEW n \in Node, NEW rcvd, NEW a, NEW told,
           Spoke(n, rcvd, tree[n], known[n], a, told),
           DOMAIN a = DOMAIN adj[n],
           \A m \in Core \cap DOMAIN a :
              /\ "roleSeq" \in DOMAIN adj[n][m] => "roleSeq" \in DOMAIN a[m]
              /\ a[m].roleSeq = adj[n][m].roleSeq,
           \A msg \in rcvd : msg.to = n /\ msg.type # "TreeAnnounce"
    PROVE  Telling'
  <1>1. \A m \in Core : {m, n} \in carrier =>
           m \in DOMAIN a /\ Told(tree[m], m, n, known[n], a[m], net \ rcvd)
    <2> SUFFICES ASSUME NEW m \in Core, {m, n} \in carrier
                 PROVE  m \in DOMAIN a /\ Told(tree[m], m, n, known[n], a[m], net \ rcvd)
      OBVIOUS
    <2>1. m \in DOMAIN a
      BY CarrierHeld
    <2>2. Told(tree[m], m, n, known[n], adj[n][m], net)
      BY DEF Telling
    <2>3. PlaceFrame(m, n, tree[m]) \notin rcvd
      BY DEF PlaceFrame, Frame
    <2> QED
      BY <2>1, <2>2, <2>3 DEF Told
  <1>2. Placed(n, tree[n], known[n])
    BY DEF Telling
  <1>3. \A msg \in rcvd : msg.to = n \/ {msg.from, msg.to} \notin carrier'
    OBVIOUS
  <1> QED
    BY <1>1, <1>2, <1>3, SpeakKeeps

\* evaluateParent takes the place that follows, under a new number.
LEMMA EvaluatedPlace ==
    ASSUME NEW n, NEW t, NEW k
    PROVE  LET u == Evaluated(n, t, k)
           IN  u.ancestry = NextAncestry(n, k) /\ (u = t \/ u.seq = t.seq + 1)
  BY DEF Evaluated

LEMMA ReceiveTreeTells ==
    ASSUME TreeInv, Telling, NEW msg \in net, NEW n, ReceiveTree(n, msg)
    PROVE  Telling'
  <1> DEFINE m == msg.from
             stale == msg.seq <= adj[n][m].roleSeq
             a == IF stale THEN adj[n]
                  ELSE [adj[n] EXCEPT ![m].roleSeq = msg.seq, ![m].client = FALSE]
             k == IF stale THEN known[n] ELSE Updated(known[n], m, msg)
             t == IF stale \/ ~Newer(known[n], m, msg) THEN tree[n]
                  ELSE Evaluated(n, tree[n], k)
             told == IF t # tree[n] THEN DOMAIN a ELSE {}
             turned == \/ ~stale /\ adj[n][m].client
                       \/ IsTreePeer(n, tree[n], known[n], m) # IsTreePeer(n, t, k, m)
             filters == IF turned /\ ~(t # tree[n]) THEN DOMAIN a ELSE {}
             e == [seq |-> msg.seq, ancestry |-> msg.ancestry]
  <1>1. /\ msg.to = n /\ msg.type = "TreeAnnounce"
        /\ Become(n, {msg}, t, k, a, told, filters)
        /\ mesh' = mesh /\ carrier' = carrier
    BY DEF ReceiveTree
  <1>2. /\ n \in Node /\ m \in Node /\ m \in DOMAIN adj[n] /\ FrameOK(msg)
        /\ {m, n} \in carrier /\ m # n
    <2>1. {m, n} \in carrier
      BY <1>1 DEF TreeInv, FramesFit
    <2> QED
      BY <1>1, <2>1, FromPeer, CarrierHeld
  <1>3. m \in Core /\ Tells(msg, tree) /\ Told(tree[m], m, n, known[n], adj[n][m], net)
    BY <1>1, <1>2 DEF Telling, Tells
  <1>4. /\ msg.seq \in Nat \ {0} /\ tree[m] \in TreeEntry /\ Seen(known[n], m) \in Nat
    <2>1. msg.seq \in Nat \ {0}
      BY <1>1, <1>2 DEF FrameOK, Frames
    <2>2. tree[m] \in TreeEntry
      BY <1>2 DEF TreeInv, Tables, NodeOK, EntryOK
    <2>3. Seen(known[n], m) \in Nat
      BY <1>2 DEF Seen, TreeInv, Tables, NodeOK, EntryOK, TreeEntry
    <2> QED
      BY <2>1, <2>2, <2>3
  <1>5. /\ msg.seq <= tree[m].seq /\ (msg.seq = tree[m].seq => e = tree[m])
        /\ stale <=> msg.seq <= Seen(known[n], m)
    <2>1. msg.seq <= tree[m].seq /\ (msg.seq = tree[m].seq => msg.ancestry = tree[m].ancestry)
      BY <1>1, <1>3 DEF Tells
    <2>2. msg.seq = tree[m].seq => e = tree[m]
      BY <1>4, <2>1 DEF TreeEntry
    <2> QED
      BY <1>3, <2>1, <2>2 DEF Told
  <1>6. PlaceFrame(m, n, tree[m]).seq = tree[m].seq
    BY DEF PlaceFrame, Frame
  <1>7. /\ Spoke(n, {msg}, t, k, a, told) /\ DOMAIN a = DOMAIN adj[n]
    BY <1>1, <1>2, BecomeSpoke
  <1>8. Placed(n, tree[n], known[n])
    BY <1>2 DEF Telling
  <1>9. ASSUME NEW j \in Core, {j, n} \in carrier, j # m
        PROVE  /\ j \in DOMAIN adj[n] /\ Told(tree[j], j, n, known[n], adj[n][j], net \ {msg})
    <2>1. j \in DOMAIN adj[n]
      BY <1>9, CarrierHeld
    <2>2. PlaceFrame(j, n, tree[j]) # msg
      BY <1>9 DEF PlaceFrame, Frame
    <2>3. Told(tree[j], j, n, known[n], adj[n][j], net)
      BY <1>2, <1>9 DEF Telling
    <2> QED
      BY <2>1, <2>2, <2>3 DEF Told
  <1>10. \A f \in {msg} : f.to = n \/ {f.from, f.to} \notin carrier'
    BY <1>1
  <1>11. CASE stale
    <2>1. t = tree[n] /\ k = known[n] /\ a = adj[n]
      BY <1>11
    <2>2. Told(tree[m], m, n, known[n], adj[n][m], net \ {msg})
      <3>1. Seen(known[n], m) < tree[m].seq => PlaceFrame(m, n, tree[m]) # msg
        BY <1>4, <1>5, <1>6, <1>11 DEF TreeEntry
      <3> QED
        BY <1>3, <3>1 DEF Told
    <2> HIDE DEF a, k, t, told, stale, m, e
    <2>3. \A j \in Core : {j, n} \in carrier' =>
             j \in DOMAIN a /\ Told(tree[j], j, n, k, a[j], net \ {msg})
      BY <1>1, <1>2, <1>9, <2>1, <2>2
    <2>4. t = tree[n] /\ Placed(n, t, k)
      BY <1>8, <2>1
    <2> QED
      BY <1>1, <1>2, <1>7, <1>10, <2>3, <2>4, SpeakKeeps
  <1>12. CASE ~stale
    <2>1. Newer(known[n], m, msg) /\ msg.seq > Seen(known[n], m)
      BY <1>4, <1>5, <1>12 DEF Newer, Seen
    <2>2. k = [p \in DOMAIN known[n] \cup {m} |-> IF p = m THEN e ELSE known[n][p]]
      BY <1>12, <2>1 DEF Updated
    <2>3. t = Evaluated(n, tree[n], k)
      BY <1>12, <2>1
    <2>4. /\ a[m].roleSeq = msg.seq /\ "roleSeq" \in DOMAIN a[m]
          /\ \A j \in DOMAIN adj[n] : j # m => a[j] = adj[n][j]
      <3>1. a = [adj[n] EXCEPT ![m].roleSeq = msg.seq, ![m].client = FALSE]
        BY <1>12
      <3>2. "roleSeq" \in DOMAIN adj[n][m]
        BY <1>3 DEF Told
      <3> HIDE DEF a, m
      <3> QED
        BY <1>2, <3>1, <3>2
    <2>5. told = IF t # tree[n] THEN DOMAIN a ELSE {}
      OBVIOUS
    <2>6. e.seq = msg.seq
      OBVIOUS
    <2> HIDE DEF a, k, t, told, stale, m, e
    <2>7. Told(tree[m], m, n, k, a[m], net \ {msg})
      <3>1. Seen(k, m) = msg.seq /\ k[m] = e
        BY <2>2, <2>6 DEF Seen
      <3>2. msg.seq < tree[m].seq => PlaceFrame(m, n, tree[m]) \in net \ {msg}
        <4>1. tree[m].seq \in Nat
          BY <1>4 DEF TreeEntry
        <4>2. msg.seq < tree[m].seq => Seen(known[n], m) < tree[m].seq
          BY <1>4, <2>1, <4>1
        <4>3. msg.seq < tree[m].seq => PlaceFrame(m, n, tree[m]) # msg
          BY <1>4, <1>6, <4>1
        <4> QED
          BY <1>3, <4>2, <4>3 DEF Told
      <3> QED
        BY <1>5, <2>4, <3>1, <3>2 DEF Told
    <2>8. ASSUME NEW j \in Core, {j, n} \in carrier, j # m
          PROVE  j \in DOMAIN a /\ Told(tree[j], j, n, k, a[j], net \ {msg})
      <3>1. j \in DOMAIN adj[n] /\ Told(tree[j], j, n, known[n], adj[n][j], net \ {msg})
        BY <1>9, <2>8
      <3>2. Seen(k, j) = Seen(known[n], j) /\ (j \in DOMAIN known[n] => k[j] = known[n][j])
        BY <2>2, <2>8 DEF Seen
      <3>3. Seen(known[n], j) = tree[j].seq => j \in DOMAIN known[n]
        <4>1. tree[j].seq # 0
          BY DEF TreeInv, Tables, NodeOK, EntryOK, TreeEntry, Core
        <4> QED
          BY <4>1 DEF Seen
      <3> QED
        BY <1>7, <2>4, <2>8, <3>1, <3>2, <3>3 DEF Told
    <2>9. \A j \in Core : {j, n} \in carrier' =>
             j \in DOMAIN a /\ Told(tree[j], j, n, k, a[j], net \ {msg})
      BY <1>1, <1>2, <1>7, <2>7, <2>8
    <2>10. Placed(n, t, k)
      <3>1. t.ancestry = NextAncestry(n, k)
        BY <2>3, EvaluatedPlace
      <3>2. DOMAIN k \subseteq Core /\ k = [p \in DOMAIN k |-> k[p]]
        BY <1>3, <1>8, <2>2 DEF Placed
      <3> QED
        BY <3>1, <3>2 DEF Placed
    <2>11. \/ t = tree[n]
           \/ t.seq = tree[n].seq + 1 /\ \A j \in Node : {n, j} \in carrier' => j \in told
      <3>1. t = tree[n] \/ t.seq = tree[n].seq + 1
        BY <2>3, EvaluatedPlace
      <3>2. \A j \in Node : {n, j} \in carrier' => j \in DOMAIN a
        BY <1>1, <1>7, CarrierHeld
      <3> QED
        BY <2>5, <3>1, <3>2
    <2>12. carrier' \subseteq carrier /\ mesh' = mesh /\ n \in Node
      BY <1>1, <1>2
    <2> QED
      BY <1>7, <1>10, <2>9, <2>10, <2>11, <2>12, SpeakKeeps
  <1> QED
    BY <1>11, <1>12

LEMMA SendFiltersTells ==
    ASSUME TreeInv, Telling, NEW n \in Node, SendFilters(n)
    PROVE  Telling'
  <1>1. /\ Become(n, {}, tree[n], known[n], adj[n], {}, DOMAIN adj[n])
        /\ mesh' = mesh /\ carrier' = carrier
    BY DEF SendFilters
  <1>2. Spoke(n, {}, tree[n], known[n], adj[n], {})
    BY <1>1, BecomeSpoke
  <1> QED
    BY <1>1, <1>2, StillTelling

LEMMA RefreshClientRoleTells ==
    ASSUME TreeInv, Telling, NEW n \in Node, RefreshClientRole(n)
    PROVE  Telling'
  <1>1. /\ Become(n, {}, tree[n], known[n], adj[n], DOMAIN adj[n], {})
        /\ mesh' = mesh /\ carrier' = carrier
    BY DEF RefreshClientRole
  <1>2. Spoke(n, {}, tree[n], known[n], adj[n], DOMAIN adj[n])
    BY <1>1, BecomeSpoke
  <1> QED
    BY <1>1, <1>2, StillTelling

LEMMA ReceiveFilterTells ==
    ASSUME TreeInv, Telling, NEW msg \in net, NEW n, ReceiveFilter(n, msg)
    PROVE  Telling'
  <1> DEFINE m == msg.from
             fresh == msg.seq > adj[n][m].inSeq
             a == IF fresh
                  THEN [adj[n] EXCEPT ![m].inFilter = msg.filter, ![m].inSeq = msg.seq]
                  ELSE adj[n]
             filters == IF fresh /\ IsTreePeer(n, tree[n], known[n], m)
                        THEN DOMAIN a \ {m} ELSE {}
  <1>1. /\ msg.to = n /\ msg.type = "FilterAnnounce"
        /\ Become(n, {msg}, tree[n], known[n], a, {}, filters)
        /\ mesh' = mesh /\ carrier' = carrier
    BY DEF ReceiveFilter
  <1>2. n \in Node
    BY <1>1, FromPeer
  <1>3. Spoke(n, {msg}, tree[n], known[n], a, {})
    BY <1>1, <1>2, BecomeSpoke
  <1>4. DOMAIN a = DOMAIN adj[n]
    OBVIOUS
  <1>5. \A j \in Core \cap DOMAIN a :
           /\ "roleSeq" \in DOMAIN adj[n][j] => "roleSeq" \in DOMAIN a[j]
           /\ a[j].roleSeq = adj[n][j].roleSeq
    OBVIOUS
  <1>6. \A f \in {msg} : f.to = n /\ f.type # "TreeAnnounce"
    BY <1>1
  <1> HIDE DEF m, fresh, a, filters
  <1> QED
    BY <1>1, <1>2, <1>3, <1>4, <1>5, <1>6, StillTelling

\* A message that says nothing of a place is dropped.
LEMMA DroppedTells ==
    ASSUME TreeInv, Telling, NEW msg, msg.type # "TreeAnnounce", net' = net \ {msg},
           UNCHANGED <<adj, tree, known>>, mesh' = mesh, carrier' = carrier
    PROVE  Telling'
  <1>1. \A n, m : PlaceFrame(n, m, tree[n]) # msg
    BY DEF PlaceFrame, Frame
  <1>2. \A n \in Core, m \in Node :
          {n, m} \in carrier => Told(tree[n], n, m, known[m], adj[m][n], net')
    BY <1>1 DEF Telling, Told
  <1>3. \A f \in net' : Tells(f, tree)
    BY DEF Telling
  <1>4. (\A n \in Core, m \in Node :
          {n, m} \in carrier => Told(tree[n], n, m, known[m], adj[m][n], net))'
    BY <1>2 DEF Core, Client, Told, Seen, PlaceFrame
  <1>5. (\A f \in net : Tells(f, tree))'
    BY <1>3 DEF Core, Client, Tells
  <1>6. (\A n \in Node : Placed(n, tree[n], known[n]))'
    BY DEF Telling, Placed, Core, Client
  <1> QED
    BY <1>4, <1>5, <1>6 DEF Telling

LEMMA ReceiveSupportTells ==
    ASSUME TreeInv, Telling, NEW msg \in net, NEW n, ReceiveSupport(n, msg)
    PROVE  Telling'
  <1> DEFINE m == msg.from
             a == [adj[n] EXCEPT ![m].supported = TRUE]
             answer == Frame(n, m, "ClientSupport", 0, <<>>, {})
  <1>1. msg.to = n /\ msg.type = "ClientSupport" /\ mesh' = mesh /\ carrier' = carrier
    BY DEF ReceiveSupport
  <1>2. n \in Node /\ m \in Node /\ m \in DOMAIN adj[n]
    BY <1>1, FromPeer
  <1>3. \/ net' = net \ {msg} /\ UNCHANGED <<adj, tree, known, count>>
        \/ Become(n, {msg}, tree[n], known[n], a, {m}, {})
        \/ /\ adj' = [adj EXCEPT ![n] = a]
           /\ net' = (net \ {msg}) \cup Carried({answer})
           /\ UNCHANGED <<tree, known, count>>
    BY DEF ReceiveSupport
  <1>4. /\ DOMAIN a = DOMAIN adj[n]
        /\ \A j \in Core \cap DOMAIN a :
             /\ "roleSeq" \in DOMAIN adj[n][j] => "roleSeq" \in DOMAIN a[j]
             /\ a[j].roleSeq = adj[n][j].roleSeq
    OBVIOUS
  <1>5. answer.from = n /\ answer.type = "ClientSupport"
    BY DEF Frame
  <1>6. \A f \in {msg} : f.to = n /\ f.type # "TreeAnnounce"
    BY <1>1
  <1> HIDE DEF m, a, answer
  <1>7. CASE net' = net \ {msg} /\ UNCHANGED <<adj, tree, known, count>>
    BY <1>1, <1>7, DroppedTells
  <1>8. ASSUME NEW ms, NEW fs, Become(n, {msg}, tree[n], known[n], a, ms, fs)
        PROVE  Telling'
    <2>1. Spoke(n, {msg}, tree[n], known[n], a, ms)
      BY <1>2, <1>8, BecomeSpoke
    <2> QED
      BY <1>1, <1>2, <1>4, <1>6, <2>1, StillTelling
  <1>9. CASE /\ adj' = [adj EXCEPT ![n] = a]
             /\ net' = (net \ {msg}) \cup Carried({answer})
             /\ UNCHANGED <<tree, known, count>>
    <2>1. DOMAIN adj = Node
      BY DEF TreeInv, Tables
    <2>2. /\ net \ {msg} \subseteq net'
          /\ \A f \in net' : f \in net \ {msg} \/ f = answer
      BY <1>9 DEF Carried
    <2>3. adj'[n] = a /\ \A j \in Node \ {n} : adj'[j] = adj[j]
      BY <1>2, <1>9, <2>1
    <2>4. Spoke(n, {msg}, tree[n], known[n], a, {})
      BY <1>5, <1>9, <2>2, <2>3 DEF Spoke
    <2> QED
      BY <1>1, <1>2, <1>4, <1>6, <2>4, StillTelling
  <1> QED
    BY <1>3, <1>7, <1>8, <1>9

\* A client was never in the tree.
LEMMA ReceiveClientOnlyTells ==
    ASSUME TreeInv, Telling, NEW msg \in net, NEW n, ReceiveClientOnly(n, msg)
    PROVE  Telling'
  <1> DEFINE m == msg.from
             k == Without(known[n], m)
             t == IF m \in DOMAIN known[n] THEN Evaluated(n, tree[n], k) ELSE tree[n]
             a == [adj[n] EXCEPT ![m].roleSeq = msg.seq, ![m].supported = TRUE,
                                 ![m].client = TRUE]
             told == IF t # tree[n] THEN DOMAIN a ELSE {}
  <1>1. msg.to = n /\ msg.type = "ClientOnly" /\ mesh' = mesh /\ carrier' = carrier
    BY DEF ReceiveClientOnly
  <1>2. n \in Node /\ m \in Node /\ m \in DOMAIN adj[n]
    BY <1>1, FromPeer
  <1>3. \/ net' = net \ {msg} /\ UNCHANGED <<adj, tree, known, count>>
        \/ Become(n, {msg}, tree[n], known[n], a, {}, {})
        \/ Become(n, {msg}, t, k, a, told, DOMAIN a)
    BY DEF ReceiveClientOnly
  <1>4. m \notin Core /\ Placed(n, tree[n], known[n])
    BY <1>1, <1>2 DEF Telling, Tells, Core
  <1>5. k = known[n] /\ t = tree[n]
    <2>1. m \notin DOMAIN known[n] /\ known[n] = [j \in DOMAIN known[n] |-> known[n][j]]
      BY <1>4 DEF Placed
    <2>2. DOMAIN known[n] \ {m} = DOMAIN known[n]
      BY <2>1
    <2> HIDE DEF m
    <2> QED
      BY <2>1, <2>2 DEF Without
  <1>6. /\ DOMAIN a = DOMAIN adj[n]
        /\ \A j \in DOMAIN a : j # m => a[j] = adj[n][j]
    OBVIOUS
  <1>7. \A f \in {msg} : f.to = n /\ f.type # "TreeAnnounce"
    BY <1>1
  <1> HIDE DEF m, a, k, t, told
  <1>8. \A j \in Core \cap DOMAIN a :
             /\ "roleSeq" \in DOMAIN adj[n][j] => "roleSeq" \in DOMAIN a[j]
             /\ a[j].roleSeq = adj[n][j].roleSeq
    BY <1>4, <1>6
  <1>9. CASE net' = net \ {msg} /\ UNCHANGED <<adj, tree, known, count>>
    BY <1>1, <1>9, DroppedTells
  <1>10. ASSUME NEW ms, NEW fs, Become(n, {msg}, tree[n], known[n], a, ms, fs)
         PROVE  Telling'
    <2>1. Spoke(n, {msg}, tree[n], known[n], a, ms)
      BY <1>2, <1>10, BecomeSpoke
    <2> QED
      BY <1>1, <1>2, <1>6, <1>7, <1>8, <2>1, StillTelling
  <1> QED
    BY <1>3, <1>5, <1>9, <1>10

\* The node that forgets m leaves the others as they were, and takes the place that
\* follows from the rest.
LEMMA ForgetTells ==
    ASSUME TreeInv, Telling, NEW n \in Node, NEW m \in Node, {n, m} \in mesh.links,
           Forget(n, m), mesh' = mesh, carrier' = carrier \ {{n, m}}
    PROVE  Telling'
  <1> DEFINE k == Without(known[n], m)
             a == Without(adj[n], m)
             t == IF m \in DOMAIN known[n] THEN Evaluated(n, tree[n], k) ELSE tree[n]
             changed == t # tree[n]
             told == IF changed THEN DOMAIN a ELSE {}
             filters == IF changed \/ IsTreePeer(n, tree[n], known[n], m) THEN DOMAIN a ELSE {}
             rcvd == {msg \in net : {msg.from, msg.to} = {n, m}}
  <1>1. Become(n, rcvd, t, k, a, told, filters)
    BY DEF Forget
  <1>2. Spoke(n, rcvd, t, k, a, told)
    BY <1>1, BecomeSpoke
  <1>3. /\ DOMAIN a = DOMAIN adj[n] \ {m} /\ \A j \in DOMAIN a : a[j] = adj[n][j]
        /\ DOMAIN k = DOMAIN known[n] \ {m} /\ \A j \in DOMAIN k : k[j] = known[n][j]
        /\ k = [j \in DOMAIN k |-> k[j]]
    BY DEF Without
  <1>4. Placed(n, tree[n], known[n])
    BY DEF Telling
  <1>5. t = tree[n] \/ (t.seq = tree[n].seq + 1 /\ told = DOMAIN a)
    BY EvaluatedPlace
  <1>6. t.ancestry = NextAncestry(n, k)
    <2>1. CASE m \in DOMAIN known[n]
      BY <2>1, EvaluatedPlace
    <2>2. CASE m \notin DOMAIN known[n]
      <3>1. k = known[n]
        BY <1>3, <1>4, <2>2 DEF Placed
      <3> QED
        BY <1>4, <2>2, <3>1 DEF Placed
    <2> QED
      BY <2>1, <2>2
  <1>7. \A msg \in rcvd : {msg.from, msg.to} \notin carrier'
    OBVIOUS
  <1>8. ASSUME NEW j \in Core, {j, n} \in carrier'
        PROVE  j \in DOMAIN a /\ Told(tree[j], j, n, k, a[j], net \ rcvd)
    <2>1. {j, n} \in carrier /\ j # m
      BY <1>8
    <2>2. j \in DOMAIN a /\ j \in Node
      BY <1>3, <2>1, CarrierHeld
    <2>3. Told(tree[j], j, n, known[n], adj[n][j], net)
      BY <2>1 DEF Telling
    <2>4. PlaceFrame(j, n, tree[j]) \notin rcvd
      <3>1. PlaceFrame(j, n, tree[j]).from = j /\ PlaceFrame(j, n, tree[j]).to = n
        BY DEF PlaceFrame, Frame
      <3> QED
        BY <1>8, <3>1
    <2> HIDE DEF a, k, t, changed, told, filters, rcvd
    <2>5. Seen(k, j) = Seen(known[n], j) /\ (j \in DOMAIN known[n] => k[j] = known[n][j])
      BY <1>3, <2>1 DEF Seen
    <2>6. Seen(known[n], j) = tree[j].seq => j \in DOMAIN known[n]
      <3>1. tree[j].seq # 0
        BY <2>2 DEF TreeInv, Tables, NodeOK, EntryOK, TreeEntry
      <3> QED
        BY <3>1 DEF Seen
    <2> QED
      BY <1>3, <2>2, <2>3, <2>4, <2>5, <2>6 DEF Told
  <1> HIDE DEF a, k, t, changed, told, filters, rcvd
  <1>9. Placed(n, t, k)
    BY <1>3, <1>4, <1>6 DEF Placed
  <1>10. \/ t = tree[n]
         \/ t.seq = tree[n].seq + 1 /\ \A j \in Node : {n, j} \in carrier' => j \in told
    <2>1. \A j \in Node : {n, j} \in carrier' => j \in DOMAIN a
      <3> SUFFICES ASSUME NEW j \in Node, {n, j} \in carrier' PROVE j \in DOMAIN a
        OBVIOUS
      <3>1. {n, j} \in carrier /\ j # m
        OBVIOUS
      <3> QED
        BY <1>3, <3>1, CarrierHeld
    <2> QED
      BY <1>5, <2>1
  <1>11. carrier' \subseteq carrier
    OBVIOUS
  <1> QED
    BY <1>2, <1>7, <1>8, <1>9, <1>10, <1>11, SpeakKeeps

LEMMA BreakTells ==
    ASSUME TreeInv, Telling, NEW n \in Node, NEW m \in Node, Break(n, m)
    PROVE  Telling'
  <1>1. {n, m} \in mesh.links /\ Forget(n, m) /\ mesh' = mesh /\ carrier' = carrier \ {{n, m}}
    BY DEF Break, TreeInv
  <1> QED
    BY <1>1, ForgetTells

LEMMA NoticeTells ==
    ASSUME TreeInv, Telling, NEW n \in Node, NEW m \in Node, Notice(n, m)
    PROVE  Telling'
  <1>1. Forget(n, m) /\ mesh' = mesh /\ carrier' = carrier \ {{n, m}}
    BY DEF Notice
  <1>2. {n, m} \in mesh.links
    BY Present DEF Notice, NodeOK
  <1> QED
    BY <1>1, <1>2, ForgetTells

LEMMA AlonePlaced ==
    ASSUME NEW n
    PROVE  Placed(n, NewTree(n), <<>>)
  <1>1. Candidates(n, <<>>) = {}
    BY DEF Candidates
  <1>2. NextAncestry(n, <<>>) = <<n>>
    BY <1>1 DEF NextAncestry, ShouldRoot
  <1> QED
    BY <1>2 DEF Placed, NewTree

LEMMA RestartTells ==
    ASSUME TreeInv, Telling, NEW n \in Node, Restart(n)
    PROVE  Telling'
  <1>1. /\ mesh' = mesh /\ carrier' = {l \in carrier : n \notin l}
        /\ net' = {msg \in net : n \notin {msg.from, msg.to}}
        /\ adj' = [adj EXCEPT ![n] = <<>>]
        /\ tree' = [tree EXCEPT ![n] = NewTree(n)]
        /\ known' = [known EXCEPT ![n] = <<>>]
    BY DEF Restart
  <1>2. DOMAIN tree = Node /\ DOMAIN known = Node /\ DOMAIN adj = Node
    BY DEF TreeInv, Tables
  <1>3. /\ tree'[n] = NewTree(n) /\ known'[n] = <<>>
        /\ \A j \in Node \ {n} : tree'[j] = tree[j] /\ known'[j] = known[j] /\ adj'[j] = adj[j]
    BY <1>1, <1>2
  <1>4. Core' = Core /\ Client' = Client
    BY <1>1 DEF Core, Client
  <1>5. \A j \in Node : Placed(j, tree'[j], known'[j])
    BY <1>3, AlonePlaced DEF Telling
  <1>6. \A msg \in net' : Tells(msg, tree')
    <2> TAKE msg \in net'
    <2>1. Tells(msg, tree) /\ msg.from # n
      BY <1>1 DEF Telling
    <2>2. msg.from \in Core => tree'[msg.from] = tree[msg.from]
      BY <1>3, <2>1 DEF Core
    <2> QED
      BY <2>1, <2>2 DEF Tells
  <1>7. ASSUME NEW j \in Core, NEW m \in Node, {j, m} \in carrier'
        PROVE  Told(tree'[j], j, m, known'[m], adj'[m][j], net')
    <2>1. {j, m} \in carrier /\ j # n /\ m # n
      BY <1>1, <1>7
    <2>2. Told(tree[j], j, m, known[m], adj[m][j], net)
      BY <2>1 DEF Telling
    <2>3. tree'[j] = tree[j] /\ known'[m] = known[m] /\ adj'[m] = adj[m]
      BY <1>3, <2>1 DEF Core
    <2>4. PlaceFrame(j, m, tree[j]) \in net => PlaceFrame(j, m, tree[j]) \in net'
      <3>1. PlaceFrame(j, m, tree[j]).from = j /\ PlaceFrame(j, m, tree[j]).to = m
        BY DEF PlaceFrame, Frame
      <3> QED
        BY <1>1, <2>1, <3>1
    <2> QED
      BY <2>2, <2>3, <2>4 DEF Told
  <1>8. (\A j \in Core, m \in Node :
          {j, m} \in carrier => Told(tree[j], j, m, known[m], adj[m][j], net))'
    BY <1>4, <1>7 DEF Told, Seen, PlaceFrame
  <1>9. (\A f \in net : Tells(f, tree))'
    BY <1>4, <1>6 DEF Tells
  <1>10. (\A j \in Node : Placed(j, tree[j], known[j]))'
    BY <1>4, <1>5 DEF Placed
  <1> QED
    BY <1>8, <1>9, <1>10 DEF Telling

\* One end of a new link tells the other its place.
LEMMA GreetingTells ==
    ASSUME TreeInv, NEW n \in Node, NEW m \in Node
    PROVE  /\ \A msg \in Greeting(n, m) :
                /\ msg.from = n
                /\ msg.type = "TreeAnnounce" =>
                      n \in Core /\ msg.seq = tree[n].seq /\ msg.ancestry = tree[n].ancestry
                /\ msg.type = "ClientOnly" => n \in Client
           /\ n \in Core => PlaceFrame(n, m, tree[n]) \in Greeting(n, m)
           /\ "roleSeq" \in DOMAIN Greeted(n, m)[m] /\ Greeted(n, m)[m].roleSeq = 0
           /\ \A j \in DOMAIN adj[n] \ {m} :
                /\ "roleSeq" \in DOMAIN adj[n][j] => "roleSeq" \in DOMAIN Greeted(n, m)[j]
                /\ Greeted(n, m)[j].roleSeq = adj[n][j].roleSeq
  <1> DEFINE a == Connected(adj[n], n, m)
             sent == TreeFrames(n, tree[n], a, {m}, count[n])
             others == FilterFrames(n, tree[n], known[n], a, {m}, count[n])
  <1>1. Greeting(n, m) = sent \cup others
        /\ Greeted(n, m) = Announced(n, tree[n], known[n], a, {m})
    BY DEF Greeting, Greeted
  <1>2. \A msg \in sent : /\ msg.from = n
                          /\ msg.type = "TreeAnnounce" =>
                                n \in Core /\ msg.seq = tree[n].seq /\ msg.ancestry = tree[n].ancestry
                          /\ msg.type = "ClientOnly" => n \in Client
    BY TreeFramesSay
  <1>3. \A msg \in others : msg.from = n /\ msg.type = "FilterAnnounce"
    BY FilterFramesSay
  <1>4. n \in Core => PlaceFrame(n, m, tree[n]) \in sent
    BY DEF TreeFrames, Core, PlaceFrame
  <1>5. /\ DOMAIN a = DOMAIN adj[n] \cup {m} /\ a[m] = NewPeer
        /\ \A j \in DOMAIN adj[n] \ {m} : a[j] = adj[n][j]
    BY DEF Connected
  <1>6. NewPeer.roleSeq = 0 /\ "roleSeq" \in DOMAIN NewPeer
    BY DEF NewPeer
  <1> HIDE DEF a, sent, others
  <1>7. \A j \in DOMAIN a : /\ "roleSeq" \in DOMAIN a[j] => "roleSeq" \in DOMAIN Greeted(n, m)[j]
                            /\ Greeted(n, m)[j].roleSeq = a[j].roleSeq
    BY <1>1, AnnouncedRole
  <1>8. "roleSeq" \in DOMAIN Greeted(n, m)[m] /\ Greeted(n, m)[m].roleSeq = 0
    BY <1>5, <1>6, <1>7
  <1>9. \A j \in DOMAIN adj[n] \ {m} :
                /\ "roleSeq" \in DOMAIN adj[n][j] => "roleSeq" \in DOMAIN Greeted(n, m)[j]
                /\ Greeted(n, m)[j].roleSeq = adj[n][j].roleSeq
    BY <1>5, <1>7
  <1>10. \A msg \in Greeting(n, m) :
                /\ msg.from = n
                /\ msg.type = "TreeAnnounce" =>
                      n \in Core /\ msg.seq = tree[n].seq /\ msg.ancestry = tree[n].ancestry
                /\ msg.type = "ClientOnly" => n \in Client
    BY <1>1, <1>2, <1>3
  <1>11. n \in Core => PlaceFrame(n, m, tree[n]) \in Greeting(n, m)
    BY <1>1, <1>4
  <1> QED
    BY <1>8, <1>9, <1>10, <1>11

LEMMA EstablishTells ==
    ASSUME TreeInv, Telling, NEW a \in Node, NEW b \in Node, Establish(a, b)
    PROVE  Telling'
  <1>1. /\ {a, b} \in mesh.links /\ {a, b} \notin carrier
        /\ b \notin DOMAIN adj[a] /\ a \notin DOMAIN adj[b]
        /\ mesh' = mesh /\ carrier' = carrier \cup {{a, b}}
        /\ adj' = [adj EXCEPT ![a] = Greeted(a, b), ![b] = Greeted(b, a)]
        /\ net' = net \cup Greeting(a, b) \cup Greeting(b, a)
        /\ tree' = tree /\ known' = known
    BY DEF Establish
  <1>2. a # b
    BY <1>1, LinkEnds DEF TreeInv
  <1>3. DOMAIN adj = Node
    BY DEF TreeInv, Tables
  <1>4. /\ adj'[a] = Greeted(a, b) /\ adj'[b] = Greeted(b, a)
        /\ \A n \in Node \ {a, b} : adj'[n] = adj[n]
    BY <1>1, <1>2, <1>3
  <1>5. Core' = Core /\ Client' = Client
    BY <1>1 DEF Core, Client
  <1>6. \A n \in Node : tree[n].seq \in Nat \ {0}
    BY DEF TreeInv, Tables, NodeOK, EntryOK, TreeEntry
  \* Told again: the two have nothing of each other, and a greeting is on its way.
  <1>7. ASSUME NEW n \in Core, NEW m \in Node, n # m, n \notin DOMAIN adj[m],
               adj'[m] = Greeted(m, n), Greeting(n, m) \subseteq net'
        PROVE  Told(tree[n], n, m, known[m], adj'[m][n], net')
    <2>1. n \in Node
      BY DEF Core
    <2>2. n \notin DOMAIN known[m]
      BY <1>7, Present DEF NodeOK
    <2>3. Seen(known[m], n) = 0
      BY <2>2 DEF Seen
    <2>4. "roleSeq" \in DOMAIN Greeted(m, n)[n] /\ Greeted(m, n)[n].roleSeq = 0
      BY <2>1, GreetingTells
    <2>5. PlaceFrame(n, m, tree[n]) \in net'
      BY <1>7, <2>1, GreetingTells
    <2>6. tree[n].seq > 0 /\ 0 <= tree[n].seq /\ 0 # tree[n].seq
      BY <1>6, <2>1
    <2> QED
      BY <1>7, <2>3, <2>4, <2>5, <2>6 DEF Told
  <1>8. ASSUME NEW n \in Core, NEW m \in Node, {n, m} \in carrier
        PROVE  Told(tree[n], n, m, known[m], adj'[m][n], net')
    <2>1. Told(tree[n], n, m, known[m], adj[m][n], net)
      BY <1>8 DEF Telling
    <2>2. n \in DOMAIN adj[m]
      BY <1>8, CarrierHeld
    <2>3. /\ "roleSeq" \in DOMAIN adj[m][n] => "roleSeq" \in DOMAIN adj'[m][n]
          /\ adj'[m][n].roleSeq = adj[m][n].roleSeq
      <3>1. CASE m = a
        BY <1>1, <1>4, <2>2, <3>1, GreetingTells
      <3>2. CASE m = b
        BY <1>1, <1>4, <2>2, <3>2, GreetingTells
      <3>3. CASE m \notin {a, b}
        BY <1>4, <3>3
      <3> QED
        BY <3>1, <3>2, <3>3
    <2>4. net \subseteq net'
      BY <1>1
    <2> QED
      BY <2>1, <2>3, <2>4 DEF Told
  <1>9. ASSUME NEW n \in Core, NEW m \in Node, {n, m} \in carrier'
        PROVE  Told(tree[n], n, m, known[m], adj'[m][n], net')
    <2>1. CASE {n, m} \in carrier
      BY <1>8, <2>1
    <2>2. CASE n = a /\ m = b
      <3>1. Greeting(a, b) \subseteq net'
        BY <1>1
      <3> QED
        BY <1>1, <1>2, <1>4, <1>7, <2>2, <3>1
    <2>3. CASE n = b /\ m = a
      <3>1. Greeting(b, a) \subseteq net'
        BY <1>1
      <3> QED
        BY <1>1, <1>2, <1>4, <1>7, <2>3, <3>1
    <2> QED
      BY <1>1, <1>2, <1>9, <2>1, <2>2, <2>3
  <1>10. \A msg \in net' : Tells(msg, tree)
    <2> TAKE msg \in net'
    <2>1. CASE msg \in net
      BY <2>1 DEF Telling
    <2>2. ASSUME NEW n \in Node, NEW m \in Node, msg \in Greeting(n, m)
          PROVE  Tells(msg, tree)
      <3>1. /\ msg.from = n
            /\ msg.type = "TreeAnnounce" =>
                  n \in Core /\ msg.seq = tree[n].seq /\ msg.ancestry = tree[n].ancestry
            /\ msg.type = "ClientOnly" => n \in Client
        BY <2>2, GreetingTells
      <3>2. tree[n].seq \in Nat
        BY <1>6
      <3> QED
        BY <3>1, <3>2 DEF Tells
    <2> QED
      BY <1>1, <2>1, <2>2
  <1>11. (\A n \in Core, m \in Node :
          {n, m} \in carrier => Told(tree[n], n, m, known[m], adj[m][n], net))'
    <2>1. \A n \in Core, m \in Node :
             {n, m} \in carrier' => Told(tree[n], n, m, known[m], adj'[m][n], net')
      BY <1>9
    <2>2. tree' = tree /\ known' = known
      BY <1>1
    <2> QED
      BY <1>5, <2>1, <2>2 DEF Told, Seen, PlaceFrame
  <1>12. (\A msg \in net : Tells(msg, tree))'
    BY <1>1, <1>5, <1>10 DEF Tells
  <1>13. (\A n \in Node : Placed(n, tree[n], known[n]))'
    BY <1>1, <1>5 DEF Telling, Placed
  <1> QED
    BY <1>11, <1>12, <1>13 DEF Telling

LEMMA TellingInit == TreeInit => Telling
  <1> SUFFICES ASSUME TreeInit PROVE Telling
    OBVIOUS
  <1>1. PICK s \in mesh.starts :
          /\ carrier = s.up
          /\ tree = [n \in Node |-> [seq |-> 1, ancestry |-> s.paths[n]]]
          /\ known = [n \in Node |-> Heard(n, s, Client)]
          /\ adj = [n \in Node |-> [m \in Neighbours(n, s.up) |->
                                        SettledPeer(n, m, s.up, s.paths)]]
    BY DEF TreeInit
  <1>2. mesh \in Meshes /\ net = {} /\ TreeInv
    BY TreeInitOK DEF TreeInit
  <1>3. ASSUME NEW n \in Node
        PROVE  Placed(n, tree[n], known[n])
    <2>1. tree[n].ancestry = s.paths[n] /\ known[n] = Heard(n, s, Client)
      BY <1>1
    <2>2. s.paths[n] = NextAncestry(n, Heard(n, s, Client))
      BY <1>2, StartsAtRest DEF Client
    <2>3. /\ DOMAIN known[n] \subseteq Core
          /\ known[n] = [m \in DOMAIN known[n] |-> known[n][m]]
      BY <2>1 DEF Heard, Neighbours, Core
    <2> QED
      BY <2>1, <2>2, <2>3 DEF Placed
  <1>4. ASSUME NEW n \in Core, NEW m \in Node, {n, m} \in carrier
        PROVE  Told(tree[n], n, m, known[m], adj[m][n], net)
    <2>1. n \in Node /\ n \notin Client
      BY DEF Core
    <2>2. {m, n} = {n, m}
      OBVIOUS
    <2>3. n \in Neighbours(m, s.up)
      BY <1>1, <1>4, <2>1, <2>2 DEF Neighbours
    <2>4. /\ n \in DOMAIN known[m] /\ known[m][n] = [seq |-> 1, ancestry |-> s.paths[n]]
          /\ adj[m][n] = SettledPeer(m, n, s.up, s.paths) /\ tree[n] = known[m][n]
      BY <1>1, <2>1, <2>3 DEF Heard
    <2>5. Seen(known[m], n) = 1 /\ tree[n].seq = 1
      BY <2>4 DEF Seen
    <2>6. "roleSeq" \in DOMAIN adj[m][n] /\ adj[m][n].roleSeq = 1
      BY <2>4 DEF SettledPeer
    <2> QED
      BY <2>4, <2>5, <2>6 DEF Told
  <1> QED
    BY <1>2, <1>3, <1>4 DEF Telling

LEMMA TellingStep == TreeInv /\ Telling /\ [TreeNext]_treeVars => Telling'
  <1> SUFFICES ASSUME TreeInv, Telling, [TreeNext]_treeVars
               PROVE  Telling'
    OBVIOUS
  <1>1. ASSUME NEW n \in Node, NEW m \in Node, Notice(n, m)
        PROVE  Telling'
    BY <1>1, NoticeTells
  <1>2. ASSUME NEW msg \in net, Receive(msg.to, msg)
        PROVE  Telling'
    BY <1>2, ReceiveTreeTells, ReceiveFilterTells, ReceiveSupportTells, ReceiveClientOnlyTells
       DEF Receive
  <1>3. ASSUME NEW n \in Node, SendFilters(n)
        PROVE  Telling'
    BY <1>3, SendFiltersTells
  <1>4. ASSUME NEW a \in Node, NEW b \in Node, Establish(a, b) \/ Break(a, b)
        PROVE  Telling'
    BY <1>4, EstablishTells, BreakTells
  <1>5. ASSUME NEW n \in Node, RefreshClientRole(n) \/ Restart(n)
        PROVE  Telling'
    BY <1>5, RefreshClientRoleTells, RestartTells
  <1>6. CASE UNCHANGED treeVars
    BY <1>6 DEF treeVars, Telling, Told, Seen, PlaceFrame, Tells, Placed, Core, Client
  <1> QED
    BY <1>1, <1>2, <1>3, <1>4, <1>5, <1>6 DEF TreeNext, Work

----------------------------------------------------------------------------
(* A mesh at rest *)

\* The places a of the nodes of the core follow from those of their neighbours over the
\* links: a node is its own root when no path it may take has a lower one, and else is
\* below the first of the neighbours whose path does not lead through it.
Rooted(core, links, a, n) ==
    /\ a[n] = <<n>>
    /\ \A m \in core : {n, m} \in links /\ n \notin Range(a[m]) => n <= Root(a[m])

Below(core, links, a, n, p) ==
    /\ p \in core /\ {n, p} \in links /\ a[n] = <<n>> \o a[p]
    /\ \A m \in core : {n, m} \in links /\ n \notin Range(a[m]) => Before(p, a[p], m, a[m])

AtRest(core, links, a) ==
    /\ core \subseteq Node
    /\ \A n \in core :
        /\ a[n] \in Seq(Node) /\ ValidAncestry(n, a[n])
        /\ Rooted(core, links, a, n) \/ \E p \in core : Below(core, links, a, n, p)

\* Once all is delivered a node knows the places its neighbours have.
LEMMA QuietKnows ==
    ASSUME TreeInv, Telling, Quiet, NEW n \in Core
    PROVE  /\ DOMAIN known[n] = {m \in Core : {n, m} \in carrier}
           /\ \A m \in DOMAIN known[n] : known[n][m].ancestry = tree[m].ancestry
  <1>1. n \in Node
    BY DEF Core
  <1>2. \A m \in DOMAIN known[n] : m \in Core /\ {n, m} \in carrier
    <2>1. DOMAIN known[n] \subseteq Core
      BY <1>1 DEF Telling, Placed
    <2>2. DOMAIN known[n] \subseteq DOMAIN adj[n]
      BY <1>1, Present DEF NodeOK
    <2> QED
      BY <1>1, <2>1, <2>2 DEF Quiet
  <1>3. ASSUME NEW m \in Core, {n, m} \in carrier
        PROVE  m \in DOMAIN known[n] /\ known[n][m].ancestry = tree[m].ancestry
    <2>1. {m, n} \in carrier /\ m \in Node
      <3>1. {m, n} = {n, m}
        OBVIOUS
      <3> QED
        BY <1>3, <3>1 DEF Core
    <2>2. Told(tree[m], m, n, known[n], adj[n][m], net)
      BY <1>1, <2>1 DEF Telling
    <2>3. net = {}
      BY DEF Quiet
    <2>4. tree[m].seq \in Nat \ {0}
      BY <2>1, Present DEF NodeOK, EntryOK, TreeEntry
    <2>5. m \in DOMAIN known[n] => known[n][m].seq \in Nat
      BY <1>1, Present DEF NodeOK, EntryOK, TreeEntry
    <2>6. Seen(known[n], m) \in Nat
      BY <2>5 DEF Seen
    <2>7. Seen(known[n], m) = tree[m].seq /\ known[n][m] = tree[m]
      BY <2>2, <2>3, <2>4, <2>6 DEF Told
    <2>8. m \in DOMAIN known[n]
      BY <2>4, <2>7 DEF Seen
    <2> QED
      BY <2>1, <2>7, <2>8
  <1> QED
    BY <1>2, <1>3

LEMMA QuietIsAtRest ==
    ASSUME TreeInv, Telling, Quiet
    PROVE  AtRest(Core, carrier, [n \in Node |-> tree[n].ancestry])
  <1> DEFINE a == [n \in Node |-> tree[n].ancestry]
  <1>1. Core \subseteq Node
    BY DEF Core
  <1>2. ASSUME NEW n \in Core
        PROVE  /\ DOMAIN known[n] = {m \in Core : {n, m} \in carrier}
               /\ \A m \in DOMAIN known[n] : known[n][m].ancestry = a[m]
    BY <1>1, QuietKnows
  <1>3. ASSUME NEW n \in Core
        PROVE  /\ a[n] \in Seq(Node) /\ ValidAncestry(n, a[n])
               /\ Rooted(Core, carrier, a, n) \/ \E p \in Core : Below(Core, carrier, a, n, p)
    <2> DEFINE k == known[n]
    <2>1. n \in Node
      BY <1>1
    <2>2. NodeOK(n, tree[n], known[n], adj[n])
      BY <2>1, Present
    <2>3. a[n] \in Seq(Node) /\ ValidAncestry(n, a[n]) /\ a[n] = tree[n].ancestry
      BY <2>1, <2>2 DEF NodeOK, EntryOK, TreeEntry
    <2>4. a[n] = NextAncestry(n, k)
      BY <2>1, <2>3 DEF Telling, Placed
    <2>5. DOMAIN k \subseteq Node /\ \A m \in DOMAIN k : EntryOK(m, k[m])
      BY <2>2 DEF NodeOK
    <2>6. /\ DOMAIN k = {m \in Core : {n, m} \in carrier}
          /\ \A m \in DOMAIN k : k[m].ancestry = a[m]
      BY <1>2
    <2> HIDE DEF a, k
    <2>7. \A m \in Core : {n, m} \in carrier /\ n \notin Range(a[m]) => m \in Candidates(n, k)
      BY <2>6 DEF Candidates
    <2>8. \A m \in Candidates(n, k) : m \in Core /\ {n, m} \in carrier /\ k[m].ancestry = a[m]
                                      /\ n \notin Range(a[m])
      BY <2>6 DEF Candidates
    <2>9. CASE Candidates(n, k) = {}
      <3>1. a[n] = <<n>>
        BY <2>4, <2>9 DEF NextAncestry, ShouldRoot
      <3> QED
        BY <2>3, <2>7, <2>9, <3>1 DEF Rooted
    <2>10. CASE Candidates(n, k) # {}
      <3> DEFINE b == Best(n, k)
      <3>1. /\ b \in Candidates(n, k)
            /\ \A q \in Candidates(n, k) : Before(b, k[b].ancestry, q, k[q].ancestry)
        BY <2>5, <2>10, FirstCandidate
      <3>2. b \in Core /\ {n, b} \in carrier /\ k[b].ancestry = a[b]
        BY <2>8, <3>1
      <3>3. \A m \in Core : {n, m} \in carrier /\ n \notin Range(a[m]) => Before(b, a[b], m, a[m])
        BY <2>7, <2>8, <3>1, <3>2
      <3>4. \/ a[n] = <<n>> /\ n <= Root(a[b])
            \/ a[n] = <<n>> \o a[b]
        BY <2>4, <2>10, <3>2 DEF NextAncestry, ShouldRoot
      <3> HIDE DEF b
      <3>5. CASE a[n] = <<n>> /\ n <= Root(a[b])
        <4>1. ASSUME NEW m \in Core, {n, m} \in carrier /\ n \notin Range(a[m])
              PROVE  n <= Root(a[m])
          <5>1. \A q \in Core : {n, q} \in carrier => Root(a[q]) \in Nat
            <6> TAKE q \in Core
            <6> HAVE {n, q} \in carrier
            <6>1. EntryOK(q, k[q]) /\ k[q].ancestry = a[q]
              BY <2>5, <2>6
            <6> QED
              BY <6>1, RootIsNode DEF EntryOK, TreeEntry
          <5>2. Root(a[b]) <= Root(a[m])
            BY <3>2, <3>3, <4>1, <5>1 DEF Before
          <5> QED
            BY <2>1, <3>2, <3>5, <4>1, <5>1, <5>2, NodesAreNumbers
        <4> QED
          BY <2>3, <3>5, <4>1 DEF Rooted
      <3>6. CASE a[n] = <<n>> \o a[b]
        BY <2>3, <3>2, <3>3, <3>6 DEF Below
      <3> QED
        BY <3>4, <3>5, <3>6
    <2> QED
      BY <2>9, <2>10
  <1> QED
    BY <1>1, <1>3 DEF AtRest

\* Induction up to a bound, over a set of numbers.
LEMMA Climb ==
    ASSUME NEW N \in Nat, NEW S, 0 \in S, \A i \in 0..(N - 1) : i \in S => i + 1 \in S
    PROVE  0..N \subseteq S
  <1> DEFINE T == (0..N) \ S
  <1>1. SUFFICES ASSUME T # {} PROVE FALSE
    OBVIOUS
  <1>2. PICK x \in T : \A y \in T : x <= y
    <2>1. T \in SUBSET Nat
      OBVIOUS
    <2> HIDE DEF T
    <2> QED
      BY <1>1, <2>1, LeastNumber
  <1>3. x \in 0..N /\ x \notin S /\ x # 0
    BY <1>2
  <1>4. x - 1 \in 0..(N - 1) /\ ~(x <= x - 1)
    BY <1>3
  <1>5. x - 1 \in S
    BY <1>2, <1>3, <1>4
  <1>6. (x - 1) + 1 \in S
    BY <1>4, <1>5
  <1> QED
    BY <1>3, <1>6

\* A node that is no root is below its parent.
LEMMA ParentOf ==
    ASSUME NEW core, NEW links, NEW a, AtRest(core, links, a), NEW n \in core, Len(a[n]) > 1,
           NEW q, q = a[n][2]
    PROVE  /\ q \in core /\ Below(core, links, a, n, q)
           /\ Len(a[n]) = Len(a[q]) + 1
           /\ \A j \in 1..Len(a[q]) : a[q][j] = a[n][j + 1]
           /\ Tail(a[n]) = a[q]
  <1>1. a[n] # <<n>>
    <2>1. Len(<<n>>) = 1
      OBVIOUS
    <2> QED
      BY <2>1
  <1>2. PICK p \in core : Below(core, links, a, n, p)
    BY <1>1 DEF AtRest, Rooted
  <1>3. a[n] = <<n>> \o a[p] /\ a[p] \in Seq(Node) /\ ValidAncestry(p, a[p]) /\ n \in Node
    BY <1>2 DEF AtRest, Below
  <1>4. Len(a[p]) \in Nat /\ Len(a[p]) > 0 /\ a[p][1] = p
    BY <1>3 DEF ValidAncestry
  <1>5. Len(a[n]) = Len(a[p]) + 1 /\ \A j \in 1..Len(a[p]) : a[p][j] = a[n][j + 1]
    BY <1>3
  <1>6. a[n][2] = p
    <2>1. 1 \in 1..Len(a[p]) /\ 1 + 1 = 2
      BY <1>4
    <2> QED
      BY <1>4, <1>5, <2>1
  <1>7. Tail(a[n]) = a[p]
    <2>1. a[n] \in Seq(Node) /\ Tail(a[n]) = [j \in 1..(Len(a[n]) - 1) |-> a[n][j + 1]]
      BY DEF AtRest
    <2>2. a[p] = [j \in 1..Len(a[p]) |-> a[p][j]]
      BY <1>3
    <2>3. Len(a[n]) - 1 = Len(a[p])
      BY <1>4, <1>5
    <2> QED
      BY <1>5, <2>1, <2>2, <2>3
  <1> QED
    BY <1>2, <1>5, <1>6, <1>7

\* The sequence t is the end of s from the i-th element on.
IsEnd(s, i, t) == Len(t) = Len(s) - i + 1 /\ \A j \in 1..Len(t) : t[j] = s[i + j - 1]

\* Every end of a path is the path of the node it begins with.
LEMMA EndsOfPath ==
    ASSUME NEW core, NEW links, NEW a, AtRest(core, links, a), NEW n \in core,
           NEW i \in 1..Len(a[n]), NEW x, x = a[n][i]
    PROVE  x \in core /\ IsEnd(a[n], i, a[x])
  <1> DEFINE L == Len(a[n])
             OK(z, h) == /\ z \in core /\ Len(a[z]) = L - h
                         /\ \A j \in 1..Len(a[z]) : a[z][j] = a[n][h + j]
             S == {h \in 0..(L - 1) : OK(a[n][h + 1], h)}
  <1>1. L \in Nat \ {0} /\ a[n][1] = n
    BY RootIsNode DEF AtRest, ValidAncestry
  <1>2. 0 \in S
    BY <1>1
  <1>3. ASSUME NEW h \in 0..(L - 2), h \in S
        PROVE  h + 1 \in S
    <2> DEFINE y == a[n][h + 1]
               z == a[n][h + 2]
    <2>1. OK(y, h)
      BY <1>3
    <2>2. Len(a[y]) > 1 /\ Len(a[y]) = L - h /\ h \in Nat
      BY <1>1, <2>1
    <2>3. 2 \in 1..Len(a[y])
      BY <2>2, <1>1
    <2>4. a[y][2] = z
      BY <2>1, <2>3
    <2>5. y \in core
      BY <2>1
    <2> HIDE DEF z, y
    <2>6. /\ z \in core /\ Len(a[y]) = Len(a[z]) + 1
          /\ \A j \in 1..Len(a[z]) : a[z][j] = a[y][j + 1]
      <3>1. z = a[y][2] /\ Len(a[y]) > 1
        BY <2>2, <2>4
      <3>2. /\ z \in core /\ Len(a[y]) = Len(a[z]) + 1
            /\ \A j \in 1..Len(a[z]) : a[z][j] = a[y][j + 1]
        BY <2>5, <3>1, ParentOf
      <3> QED
        BY <3>2
    <2>7. a[z] \in Seq(Node)
      BY <2>6 DEF AtRest
    <2>8. Len(a[z]) \in Nat /\ Len(a[z]) = L - (h + 1)
      <3>1. Len(a[z]) \in Nat
        BY <2>7
      <3>2. Len(a[z]) + 1 = L - h
        BY <2>2, <2>6
      <3> HIDE DEF L
      <3> QED
        BY <1>1, <2>2, <3>1, <3>2
    <2>9. ASSUME NEW j \in 1..Len(a[z])
          PROVE  a[z][j] = a[n][(h + 1) + j]
      <3>1. j + 1 \in 1..Len(a[y]) /\ h + (j + 1) = (h + 1) + j
        BY <2>2, <2>6, <2>8
      <3>2. a[y][j + 1] = a[n][h + (j + 1)]
        BY <2>1, <3>1
      <3> QED
        BY <2>6, <3>1, <3>2
    <2>10. h + 1 \in 0..(L - 1) /\ (h + 1) + 1 = h + 2
      BY <1>1
    <2>11. OK(z, h + 1)
      BY <2>6, <2>8, <2>9
    <2> HIDE DEF OK
    <2> QED
      BY <2>10, <2>11 DEF z
  <1> HIDE DEF S
  <1>4. 0..(L - 1) \subseteq S
    <2>1. L - 1 \in Nat /\ (L - 1) - 1 = L - 2
      BY <1>1
    <2> HIDE DEF L
    <2> QED
      BY <1>2, <1>3, <2>1, Climb
  <1>5. i - 1 \in 0..(L - 1) /\ (i - 1) + 1 = i
    BY <1>1
  <1>6. OK(x, i - 1)
    BY <1>4, <1>5 DEF S
  <1>7. Len(a[x]) \in Nat /\ Len(a[x]) = L - i + 1
    <2>1. Len(a[x]) \in Nat
      BY <1>6 DEF AtRest
    <2>2. Len(a[x]) = L - (i - 1) /\ i \in Nat
      BY <1>6
    <2> HIDE DEF L
    <2> QED
      BY <1>1, <2>1, <2>2
  <1>8. ASSUME NEW j \in 1..Len(a[x])
        PROVE  a[x][j] = a[n][i + j - 1]
    <2>1. (i - 1) + j = i + j - 1
      BY <1>7
    <2>2. a[x][j] = a[n][(i - 1) + j]
      BY <1>6
    <2> QED
      BY <2>1, <2>2
  <1> QED
    BY <1>6, <1>7, <1>8 DEF IsEnd

\* The nodes of a path share its root, and are nearer to it the later they come.
LEMMA OnPath ==
    ASSUME NEW core, NEW links, NEW a, AtRest(core, links, a), NEW n \in core,
           NEW x \in Range(a[n])
    PROVE  x \in core /\ Root(a[x]) = Root(a[n]) /\ Len(a[x]) <= Len(a[n])
  <1>1. PICK i \in 1..Len(a[n]) : x = a[n][i]
    BY DEF AtRest, Range
  <1>2. /\ x \in core /\ Len(a[x]) = Len(a[n]) - i + 1
        /\ \A j \in 1..Len(a[x]) : a[x][j] = a[n][i + j - 1]
    <2>1. x \in core /\ IsEnd(a[n], i, a[x])
      BY <1>1, EndsOfPath
    <2> QED
      BY <2>1 DEF IsEnd
  <1>3. Len(a[n]) \in Nat /\ Len(a[x]) \in Nat
    BY <1>2 DEF AtRest
  <1>4. Len(a[x]) \in 1..Len(a[x]) /\ i + Len(a[x]) - 1 = Len(a[n])
    BY <1>2, <1>3
  <1>5. a[x][Len(a[x])] = a[n][Len(a[n])]
    BY <1>2, <1>4
  <1> QED
    BY <1>2, <1>3, <1>5 DEF Root

LEMMA Numbers ==
    ASSUME NEW core, NEW links, NEW a, AtRest(core, links, a), NEW n \in core
    PROVE  /\ n \in Node /\ n \in Nat /\ a[n] \in Seq(Node) /\ ValidAncestry(n, a[n])
           /\ Root(a[n]) \in Nat /\ Len(a[n]) \in Nat \ {0} /\ a[n][1] = n /\ Root(a[n]) <= n
  <1>1. n \in Node /\ a[n] \in Seq(Node) /\ ValidAncestry(n, a[n])
    BY DEF AtRest
  <1>2. Root(a[n]) \in Nat /\ Len(a[n]) \in Nat \ {0} /\ n \in Nat
    BY <1>1, RootIsNode, NodesAreNumbers
  <1>3. 1 \in 1..Len(a[n])
    BY <1>2
  <1> QED
    BY <1>1, <1>2, <1>3 DEF ValidAncestry

\* No node of a path has a root higher than a neighbour's.
LEMMA RootNoHigher ==
    ASSUME NEW core, NEW links, NEW a, AtRest(core, links, a), NEW n \in core, NEW m \in core,
           {n, m} \in links
    PROVE  Root(a[n]) <= Root(a[m])
  <1>1. CASE n \in Range(a[m])
    BY <1>1, OnPath, Numbers
  <1>2. CASE n \notin Range(a[m])
    <2>1. CASE Rooted(core, links, a, n)
      <3>1. n <= Root(a[m])
        BY <1>2, <2>1 DEF Rooted
      <3> QED
        BY <3>1, Numbers
    <2>2. ASSUME NEW p \in core, Below(core, links, a, n, p)
          PROVE  Root(a[n]) <= Root(a[m])
      <3>1. Before(p, a[p], m, a[m]) /\ a[n] = <<n>> \o a[p]
        BY <1>2, <2>2 DEF Below
      <3>2. /\ a[p] \in Seq(Node) /\ Len(a[p]) \in Nat \ {0} /\ n \in Node
            /\ Root(a[p]) \in Nat /\ Root(a[m]) \in Nat
        BY Numbers
      <3>3. Len(a[n]) = Len(a[p]) + 1 /\ a[n][Len(a[p]) + 1] = a[p][Len(a[p])]
        BY <3>1, <3>2
      <3>4. Root(a[n]) = Root(a[p])
        BY <3>3 DEF Root
      <3> QED
        BY <3>1, <3>2, <3>4 DEF Before
    <2> QED
      BY <2>1, <2>2 DEF AtRest
  <1> QED
    BY <1>1, <1>2

LEMMA RootsAgree ==
    ASSUME NEW core, NEW links, NEW a, AtRest(core, links, a), NEW n \in core, NEW m \in core,
           {n, m} \in links
    PROVE  Root(a[n]) = Root(a[m])
  <1>1. {m, n} \in links
    <2>1. {m, n} = {n, m}
      OBVIOUS
    <2> QED
      BY <2>1
  <1>2. Root(a[n]) <= Root(a[m]) /\ Root(a[m]) <= Root(a[n])
    BY <1>1, RootNoHigher
  <1> QED
    BY <1>2, Numbers

\* A node is at most one hop further from the root than a neighbour.
LEMMA OneFurther ==
    ASSUME NEW core, NEW links, NEW a, AtRest(core, links, a), NEW n \in core, NEW m \in core,
           {n, m} \in links
    PROVE  Len(a[n]) <= Len(a[m]) + 1
  <1>0. Len(a[n]) \in Nat \ {0} /\ Len(a[m]) \in Nat \ {0}
    BY Numbers
  <1>1. CASE n \in Range(a[m])
    BY <1>0, <1>1, OnPath
  <1>2. CASE n \notin Range(a[m])
    <2>1. CASE Rooted(core, links, a, n)
      <3>1. Len(a[n]) = 1
        BY <2>1 DEF Rooted
      <3> QED
        BY <1>0, <3>1
    <2>2. ASSUME NEW p \in core, Below(core, links, a, n, p)
          PROVE  Len(a[n]) <= Len(a[m]) + 1
      <3>1. Before(p, a[p], m, a[m]) /\ a[n] = <<n>> \o a[p] /\ {n, p} \in links
        BY <1>2, <2>2 DEF Below
      <3>2. /\ a[p] \in Seq(Node) /\ Len(a[p]) \in Nat \ {0} /\ n \in Node
            /\ Root(a[p]) \in Nat /\ Root(a[m]) \in Nat
        BY Numbers
      <3>3. Len(a[n]) = Len(a[p]) + 1
        BY <3>1, <3>2
      <3>4. Root(a[p]) = Root(a[m])
        BY <3>1, RootsAgree
      <3>5. Len(a[p]) <= Len(a[m])
        BY <1>0, <3>1, <3>2, <3>4 DEF Before
      <3> QED
        BY <1>0, <3>2, <3>3, <3>5
    <2> QED
      BY <2>1, <2>2 DEF AtRest
  <1> QED
    BY <1>1, <1>2

----------------------------------------------------------------------------
(* What a node reaches *)

\* The sequence b of what N steps of G make of s.
Iterated(b, s, G, N) == b[0] = s /\ \A i \in 0..(N - 1) : b[i + 1] = G[b[i]]

LEMMA Iterates ==
    ASSUME NEW D, NEW s \in D, NEW G \in [D -> D], NEW N \in Nat
    PROVE  \E b \in [0..N -> D] : Iterated(b, s, G, N)
  <1> DEFINE S == {h \in 0..N : \E b \in [0..h -> D] : Iterated(b, s, G, h)}
  <1>1. 0 \in S
    <2> DEFINE b == [i \in 0..0 |-> s]
    <2>1. b \in [0..0 -> D] /\ Iterated(b, s, G, 0)
      BY DEF Iterated
    <2> HIDE DEF b
    <2> QED
      BY <2>1
  <1>2. ASSUME NEW h \in 0..(N - 1), h \in S
        PROVE  h + 1 \in S
    <2>1. PICK b \in [0..h -> D] : Iterated(b, s, G, h)
      BY <1>2
    <2> DEFINE c == [i \in 0..(h + 1) |-> IF i = h + 1 THEN G[b[h]] ELSE b[i]]
    <2>2. h \in 0..h /\ (h + 1) - 1 = h /\ 0 # h + 1 /\ 0 \in 0..h
      OBVIOUS
    <2>3. c \in [0..(h + 1) -> D]
      <3> SUFFICES ASSUME NEW i \in 0..(h + 1), i # h + 1 PROVE i \in 0..h
        BY <2>2
      <3> QED
        OBVIOUS
    <2>4. c[0] = s
      BY <2>1, <2>2 DEF Iterated
    <2>5. ASSUME NEW i \in 0..h
          PROVE  c[i + 1] = G[c[i]]
      <3>1. i \in 0..(h + 1) /\ i + 1 \in 0..(h + 1) /\ i # h + 1
        OBVIOUS
      <3>2. CASE i = h
        BY <3>1, <3>2
      <3>3. CASE i # h
        <4>1. i \in 0..(h - 1) /\ i + 1 # h + 1
          BY <3>3
        <4>2. c[i + 1] = b[i + 1] /\ c[i] = b[i]
          BY <3>1, <4>1
        <4>3. b[i + 1] = G[b[i]]
          BY <2>1, <4>1 DEF Iterated
        <4> HIDE DEF c
        <4> QED
          BY <4>2, <4>3
      <3> QED
        BY <3>2, <3>3
    <2> HIDE DEF c
    <2>6. Iterated(c, s, G, h + 1)
      BY <2>2, <2>4, <2>5 DEF Iterated
    <2>7. h + 1 \in 0..N
      OBVIOUS
    <2> QED
      BY <2>3, <2>6, <2>7
  <1>3. 0..N \subseteq S
    <2> HIDE DEF S
    <2> QED
      BY <1>1, <1>2, Climb
  <1> QED
    BY <1>3

LEMMA NodesCounted == Cardinality(Node) \in Nat
  BY PartsCounted

Grow(core, links, s) == s \cup {m \in core : \E j \in s : {j, m} \in links}

Grows(b, core, n, links) ==
    b[0] = {n} /\ \A i \in 0..(Cardinality(Node) - 1) : b[i + 1] = Grow(core, links, b[i])

\* Hop by hop what a node reaches grows.
LEMMA BallGrows ==
    ASSUME NEW core, core \subseteq Node, NEW n \in Node, NEW links
    PROVE  Grows(Ball(core, n, links), core, n, links)
  <1> DEFINE N == Cardinality(Node)
             Is(f) == f = [i \in 0..N |-> IF i = 0 THEN {n} ELSE Grow(core, links, f[i - 1])]
             G == [s \in SUBSET Node |-> Grow(core, links, s)]
             ball == Ball(core, n, links)
             parts == SUBSET Node
             first == {n}
  <1>1. N \in Nat
    BY NodesCounted
  <1>2. ball = CHOOSE f : Is(f)
    BY DEF Ball, Grow
  <1>3. G \in [SUBSET Node -> SUBSET Node] /\ {n} \in SUBSET Node
    BY DEF Grow
  <1> HIDE DEF ball, N
  <1>4. PICK b \in [0..N -> SUBSET Node] :
          Iterated(b, {n}, G, N)
    <2>1. G \in [parts -> parts] /\ first \in parts
      BY <1>3
    <2> HIDE DEF G, parts, first
    <2>2. \E b \in [0..N -> parts] : Iterated(b, first, G, N)
      BY <1>1, <2>1, Iterates
    <2> QED
      BY <2>2 DEF parts, first
  <1>5. Is(b)
    <2> DEFINE c == [i \in 0..N |-> IF i = 0 THEN {n} ELSE Grow(core, links, b[i - 1])]
    <2>1. ASSUME NEW i \in 0..N PROVE b[i] = c[i]
      <3>1. CASE i = 0
        BY <1>4, <3>1 DEF Iterated
      <3>2. CASE i # 0
        <4>1. i - 1 \in 0..(N - 1) /\ (i - 1) + 1 = i /\ i - 1 \in 0..N
          BY <1>1, <3>2
        <4>2. b[i] = G[b[i - 1]] /\ b[i - 1] \in SUBSET Node
          BY <1>4, <4>1 DEF Iterated
        <4>3. c[i] = Grow(core, links, b[i - 1])
          BY <3>2
        <4> QED
          BY <4>2, <4>3
      <3> QED
        BY <3>1, <3>2
    <2>2. b = c
      BY <2>1
    <2> QED
      BY <2>2
  <1> HIDE DEF G
  <1>6. Is(ball)
    <2> HIDE DEF Is
    <2> QED
      BY <1>2, <1>5
  <1>7. ball[0] = {n}
    BY <1>1, <1>6
  <1>8. ASSUME NEW i \in 0..(N - 1)
        PROVE  ball[i + 1] = Grow(core, links, ball[i])
    <2>1. i + 1 \in 0..N /\ i + 1 # 0 /\ (i + 1) - 1 = i
      BY <1>1
    <2>2. ball[i + 1] = Grow(core, links, ball[(i + 1) - 1])
      BY <1>6, <2>1
    <2> QED
      BY <2>1, <2>2
  <1> QED
    BY <1>7, <1>8 DEF Grows, ball, N

\* A ball holds the smaller ones.
LEMMA BallsNested ==
    ASSUME NEW core, core \subseteq Node, NEW n \in Node, NEW links,
           NEW i \in 0..Cardinality(Node)
    PROVE  Ball(core, n, links)[i] \subseteq Component(core, n, links)
  <1> DEFINE N == Cardinality(Node)
             b == Ball(core, n, links)
             S == {h \in 0..N : \A x \in b[N - h] : x \in b[N]}
  <1>1. N \in Nat
    BY NodesCounted
  <1>2. \A h \in 0..(N - 1) : b[h + 1] = Grow(core, links, b[h])
    <2>1. Grows(b, core, n, links)
      BY BallGrows
    <2> HIDE DEF b
    <2> QED
      BY <2>1 DEF Grows
  <1> HIDE DEF N, b
  <1>3. 0 \in S
    BY <1>1
  <1>4. ASSUME NEW h \in 0..(N - 1), h \in S
        PROVE  h + 1 \in S
    <2> DEFINE e == N - (h + 1)
    <2>1. e \in 0..(N - 1) /\ e + 1 = N - h /\ h + 1 \in 0..N
      BY <1>1
    <2>2. b[e + 1] = Grow(core, links, b[e])
      BY <1>2, <2>1
    <2>3. b[e] \subseteq b[N - h]
      BY <2>1, <2>2 DEF Grow
    <2> HIDE DEF e
    <2>4. \A x \in b[e] : x \in b[N]
      BY <1>4, <2>3
    <2> QED
      BY <2>1, <2>4 DEF e
  <1>5. 0..N \subseteq S
    <2> HIDE DEF S
    <2> QED
      BY <1>1, <1>3, <1>4, Climb
  <1>6. N - i \in 0..N /\ N - (N - i) = i
    BY <1>1 DEF N
  <1>7. N - i \in S
    BY <1>5, <1>6
  <1> QED
    BY <1>6, <1>7 DEF Component, b, N

LEMMA OneMore ==
    ASSUME NEW x \in Nat, NEW y \in Nat, NEW z \in Nat, NEW i \in Nat, x <= y + i, y <= z + 1
    PROVE  x <= z + (i + 1)
  OBVIOUS

\* What a node reaches in i hops is of its root, and at most i hops nearer to it.
LEMMA WithinBall ==
    ASSUME NEW core, NEW links, NEW a, AtRest(core, links, a), NEW n \in core,
           NEW i \in 0..Cardinality(Node), NEW x \in Ball(core, n, links)[i]
    PROVE  x \in core /\ Root(a[x]) = Root(a[n]) /\ Len(a[n]) <= Len(a[x]) + i
  <1> DEFINE N == Cardinality(Node)
             b == Ball(core, n, links)
             OK(z, h) == z \in core /\ Root(a[z]) = Root(a[n]) /\ Len(a[n]) <= Len(a[z]) + h
             S == {h \in 0..N : \A z \in b[h] : OK(z, h)}
  <1>1. N \in Nat
    BY NodesCounted
  <1>2. b[0] = {n} /\ \A h \in 0..(N - 1) : b[h + 1] = Grow(core, links, b[h])
    <2>1. core \subseteq Node /\ n \in Node
      BY DEF AtRest
    <2>2. Grows(b, core, n, links)
      BY <2>1, BallGrows
    <2> HIDE DEF b
    <2> QED
      BY <2>2 DEF Grows
  <1>3. \A z \in core : Len(a[z]) \in Nat
    BY Numbers
  <1> HIDE DEF N, b
  <1>4. 0 \in S
    <2>1. OK(n, 0)
      BY <1>3
    <2> HIDE DEF OK
    <2> QED
      BY <1>1, <1>2, <2>1
  <1>5. ASSUME NEW h \in 0..(N - 1), h \in S
        PROVE  h + 1 \in S
    <2>1. ASSUME NEW z \in b[h + 1]
          PROVE  OK(z, h + 1)
      <3>1. CASE z \in b[h]
        <4>1. OK(z, h)
          BY <1>5, <3>1
        <4>2. Len(a[n]) <= Len(a[z]) + (h + 1)
          <5>1. Len(a[n]) \in Nat /\ Len(a[z]) \in Nat /\ h \in Nat
            BY <1>3, <4>1
          <5>2. Len(a[n]) <= Len(a[z]) + h
            BY <4>1
          <5>3. Len(a[z]) <= Len(a[z]) + 1
            BY <5>1
          <5> QED
            BY <5>1, <5>2, <5>3, OneMore
        <4> QED
          BY <4>1, <4>2
      <3>2. CASE z \notin b[h]
        <4>1. z \in core /\ \E j \in b[h] : {j, z} \in links
          BY <1>2, <2>1, <3>2 DEF Grow
        <4>2. PICK j \in b[h] : {j, z} \in links
          BY <4>1
        <4>3. OK(j, h)
          BY <1>5
        <4>4. j \in core
          BY <4>3
        <4>5. Root(a[j]) = Root(a[z]) /\ Len(a[j]) <= Len(a[z]) + 1
          BY <4>1, <4>2, <4>4, RootsAgree, OneFurther
        <4>6. Len(a[n]) <= Len(a[z]) + (h + 1)
          <5>1. Len(a[n]) \in Nat /\ Len(a[z]) \in Nat /\ Len(a[j]) \in Nat /\ h \in Nat
            BY <1>3, <4>1, <4>4
          <5>2. Len(a[n]) <= Len(a[j]) + h
            BY <4>3
          <5> QED
            BY <4>5, <5>1, <5>2, OneMore
        <4> QED
          BY <4>1, <4>3, <4>5, <4>6
      <3> QED
        BY <3>1, <3>2
    <2>2. h + 1 \in 0..N
      BY <1>1
    <2> HIDE DEF OK
    <2> QED
      BY <2>1, <2>2
  <1>6. 0..N \subseteq S
    <2> HIDE DEF S
    <2> QED
      BY <1>1, <1>4, <1>5, Climb
  <1>7. i \in S
    BY <1>6 DEF N
  <1> QED
    BY <1>7 DEF b

\* A path has no more nodes than there are.
LEMMA PathFits ==
    ASSUME NEW core, NEW links, NEW a, AtRest(core, links, a), NEW n \in core
    PROVE  Len(a[n]) <= Cardinality(Node)
  <1>1. a[n] \in Seq(Node) /\ IsInjective(a[n]) /\ Len(a[n]) \in Nat \ {0}
    BY Numbers DEF ValidAncestry
  <1> DEFINE L == Len(a[n])
  <1>2. a[n] \in Injection(1..L, Node)
    <2>1. a[n] \in [1..L -> Node]
      BY <1>1
    <2> QED
      BY <1>1, <2>1 DEF Injection
  <1>3. Cardinality(1..L) <= Cardinality(Node)
    BY <1>2, SpanningTreeAssumption, FS_Injection
  <1>4. Cardinality(1..L) = L
    <2> HIDE DEF L
    <2>1. L \in Int /\ 1 \in Int /\ ~(1 > L) /\ L - 1 + 1 = L
      BY <1>1 DEF L
    <2> QED
      BY <2>1, FS_Interval
  <1> QED
    BY <1>3, <1>4

\* A path is walked over the links, a hop at a time.
LEMMA PathWalked ==
    ASSUME NEW core, NEW links, NEW a, AtRest(core, links, a), NEW n \in core,
           NEW i \in 0..(Len(a[n]) - 1)
    PROVE  a[n][i + 1] \in Ball(core, n, links)[i]
  <1> DEFINE N == Cardinality(Node)
             b == Ball(core, n, links)
             L == Len(a[n])
             S == {h \in 0..(L - 1) : a[n][h + 1] \in b[h]}
  <1>1. L \in Nat \ {0} /\ N \in Nat /\ L <= N /\ a[n][1] = n
    BY NodesCounted, Numbers, PathFits
  <1>2. b[0] = {n} /\ \A h \in 0..(N - 1) : b[h + 1] = Grow(core, links, b[h])
    <2>1. core \subseteq Node /\ n \in Node
      BY DEF AtRest
    <2>2. Grows(b, core, n, links)
      BY <2>1, BallGrows
    <2> HIDE DEF b
    <2> QED
      BY <2>2 DEF Grows
  <1>3. \A h \in 0..(L - 1) : h + 1 \in 1..L
    BY <1>1
  <1>4. ASSUME NEW h \in 0..(L - 2)
        PROVE  {a[n][h + 1], a[n][h + 2]} \in links /\ a[n][h + 2] \in core
    <2> DEFINE y == a[n][h + 1]
               z == a[n][h + 2]
               e == h + 1
    <2>1. e \in 1..L /\ L - e + 1 > 1 /\ e + 2 - 1 = h + 2
      BY <1>1
    <2>2. /\ y \in core /\ Len(a[y]) = L - e + 1
          /\ \A j \in 1..Len(a[y]) : a[y][j] = a[n][e + j - 1]
      <3>1. y = a[n][e] /\ e \in 1..Len(a[n])
        BY <2>1
      <3> HIDE DEF y, e
      <3>2. /\ y \in core /\ Len(a[y]) = Len(a[n]) - e + 1
            /\ \A j \in 1..Len(a[y]) : a[y][j] = a[n][e + j - 1]
        <4>1. y \in core /\ IsEnd(a[n], e, a[y])
          BY <3>1, EndsOfPath
        <4> QED
          BY <4>1 DEF IsEnd
      <3> QED
        BY <3>2
    <2> HIDE DEF y, L, e
    <2>3. Len(a[y]) \in Nat /\ Len(a[y]) > 1 /\ 2 \in 1..Len(a[y])
      BY <2>1, <2>2, Numbers
    <2>4. a[y][2] = z
      BY <2>1, <2>2, <2>3
    <2> HIDE DEF z
    <2>5. z \in core /\ Below(core, links, a, y, z)
      BY <2>2, <2>3, <2>4, ParentOf
    <2> QED
      BY <2>5 DEF Below, y, z
  <1> HIDE DEF N, b, L
  <1>5. 0 \in S
    BY <1>1, <1>2
  <1>6. ASSUME NEW h \in 0..(L - 2), h \in S
        PROVE  h + 1 \in S
    <2>1. h \in 0..(N - 1) /\ h + 1 \in 0..(L - 1) /\ (h + 1) + 1 = h + 2
      BY <1>1
    <2>2. a[n][h + 1] \in b[h]
      BY <1>6
    <2>3. a[n][h + 2] \in Grow(core, links, b[h])
      BY <1>4, <2>2 DEF Grow
    <2>4. a[n][h + 2] \in b[h + 1]
      BY <1>2, <2>1, <2>3
    <2> QED
      BY <2>1, <2>4
  <1>7. 0..(L - 1) \subseteq S
    <2>1. L - 1 \in Nat /\ (L - 1) - 1 = L - 2
      BY <1>1
    <2> HIDE DEF S
    <2> QED
      BY <1>5, <1>6, <2>1, Climb
  <1>8. i \in S
    BY <1>7 DEF L
  <1> QED
    BY <1>8 DEF b

\* The root is the lowest node there is within reach, and the path to it a shortest one.
LEMMA RestIsShortest ==
    ASSUME NEW core, NEW links, NEW a, AtRest(core, links, a), NEW n \in core
    PROVE  /\ Root(a[n]) = Lowest(core, n, links)
           /\ Len(a[n]) = Hops(core, n, Root(a[n]), links) + 1
  <1> DEFINE N == Cardinality(Node)
             b == Ball(core, n, links)
             L == Len(a[n])
             r == Root(a[n])
  <1>1. L \in Nat \ {0} /\ N \in Nat /\ L <= N /\ r \in Nat
    BY NodesCounted, Numbers, PathFits
  <1>2. r \in b[L - 1]
    <2>1. L - 1 \in 0..(L - 1) /\ (L - 1) + 1 = L
      BY <1>1
    <2>2. a[n][(L - 1) + 1] \in b[L - 1]
      BY <2>1, PathWalked
    <2> QED
      BY <2>1, <2>2 DEF Root
  <1>3. L - 1 \in 0..N /\ N \in 0..N
    BY <1>1
  <1>4. r \in Component(core, n, links)
    <2>1. core \subseteq Node /\ n \in Node
      BY DEF AtRest
    <2> QED
      BY <1>2, <1>3, <2>1, BallsNested
  <1>5. \A x \in Component(core, n, links) : r <= x /\ x \in Nat
    <2> TAKE x \in Component(core, n, links)
    <2>1. x \in b[N]
      BY DEF Component
    <2>2. x \in core /\ Root(a[x]) = r
      BY <1>3, <2>1, WithinBall
    <2> QED
      BY <2>2, Numbers
  <1>6. r \in core /\ Len(a[r]) = 1
    <2>1. r = a[n][L] /\ L \in 1..Len(a[n]) /\ L - L + 1 = 1
      BY <1>1 DEF Root
    <2> HIDE DEF r, L
    <2>2. r \in core /\ Len(a[r]) = Len(a[n]) - L + 1
      <3>1. r \in core /\ IsEnd(a[n], L, a[r])
        BY <2>1, EndsOfPath
      <3> QED
        BY <3>1 DEF IsEnd
    <2> QED
      BY <2>1, <2>2 DEF L
  <1>7. \A i \in 0..N : r \in b[i] => L - 1 <= i
    <2> TAKE i \in 0..N
    <2> HAVE r \in b[i]
    <2>1. L <= Len(a[r]) + i
      BY WithinBall
    <2> QED
      BY <1>1, <1>6, <2>1
  <1> HIDE DEF N, b, L, r
  <1>8. r = Lowest(core, n, links)
    <2> DEFINE C == Component(core, n, links)
    <2>1. \A x \in C : (\A y \in C : x <= y) => x = r
      BY <1>1, <1>4, <1>5
    <2> HIDE DEF C
    <2> QED
      BY <1>4, <1>5, <2>1 DEF Lowest, Min, C
  <1>9. L - 1 = Hops(core, n, r, links)
    <2> DEFINE C == {i \in 0..N : r \in b[i]}
    <2>1. L - 1 \in C /\ \A i \in C : L - 1 <= i
      BY <1>2, <1>3, <1>7
    <2>2. \A i \in C : i \in Nat
      OBVIOUS
    <2>3. Hops(core, n, r, links) = Min(C)
      BY DEF Hops, b, N
    <2> HIDE DEF C
    <2>4. \A i \in C : (\A j \in C : i <= j) => i = L - 1
      BY <2>1, <2>2
    <2> QED
      BY <2>1, <2>3, <2>4 DEF Min
  <1>10. L = Hops(core, n, r, links) + 1
    BY <1>1, <1>9
  <1> QED
    BY <1>8, <1>10 DEF L, r

LEMMA RestIsSettled == TreeInv /\ Telling => SettledTree
  <1> SUFFICES ASSUME TreeInv, Telling, Quiet, NEW n \in Core
               PROVE  LET r == Lowest(Core, n, carrier)
                          p == Parent(tree[n].ancestry)
                      IN  /\ Root(tree[n].ancestry) = r
                          /\ Len(tree[n].ancestry) = Hops(Core, n, r, carrier) + 1
                          /\ n # r => {n, p} \in carrier /\ Tail(tree[n].ancestry) = tree[p].ancestry
    BY DEF SettledTree
  <1> DEFINE a == [m \in Node |-> tree[m].ancestry]
             r == Lowest(Core, n, carrier)
             p == Parent(a[n])
  <1>1. AtRest(Core, carrier, a)
    BY QuietIsAtRest
  <1>2. n \in Node /\ a[n] = tree[n].ancestry /\ Core \subseteq Node
    BY DEF Core
  <1> HIDE DEF a, r, p
  <1>3. Root(a[n]) = r /\ Len(a[n]) = Hops(Core, n, r, carrier) + 1
    BY <1>1, RestIsShortest DEF r
  <1>4. ASSUME n # r
        PROVE  {n, p} \in carrier /\ Tail(a[n]) = tree[p].ancestry
    <2>1. Len(a[n]) \in Nat \ {0} /\ a[n][1] = n
      BY <1>1, Numbers
    <2>2. Len(a[n]) > 1
      BY <1>3, <1>4, <2>1 DEF Root
    <2>3. p = a[n][2]
      BY <2>1, <2>2 DEF p, Parent
    <2>4. p \in Core /\ Below(Core, carrier, a, n, p) /\ Tail(a[n]) = a[p]
      BY <1>1, <2>2, <2>3, ParentOf
    <2>5. a[p] = tree[p].ancestry
      BY <1>2, <2>4 DEF a
    <2> QED
      BY <2>4, <2>5 DEF Below
  <1> QED
    BY <1>2, <1>3, <1>4 DEF p, r

----------------------------------------------------------------------------
(* Distances in the tree *)

Agree(s, t, i) == \A j \in 0..(i - 1) : s[Len(s) - j] = t[Len(t) - j]

LEMMA GreatestNumber ==
    ASSUME NEW T \in SUBSET Nat, T # {}, NEW N \in Nat, \A x \in T : x <= N
    PROVE  \E x \in T : \A y \in T : y <= x
  <1> DEFINE U == {N - x : x \in T}
  <1>1. U \in SUBSET Nat /\ U # {}
    <2>1. \A x \in T : x \in Nat /\ x <= N
      OBVIOUS
    <2>2. \A x \in T : N - x \in Nat
      BY <2>1
    <2>3. \E x : x \in T
      OBVIOUS
    <2> QED
      BY <2>2, <2>3
  <1>2. PICK u \in U : \A v \in U : u <= v
    <2> HIDE DEF U
    <2> QED
      BY <1>1, LeastNumber
  <1>3. PICK x \in T : u = N - x
    OBVIOUS
  <1>4. ASSUME NEW y \in T PROVE y <= x
    <2>1. N - x <= N - y
      BY <1>2, <1>3
    <2> QED
      BY <2>1
  <1> QED
    BY <1>4

LEMMA CommonIs ==
    ASSUME NEW s \in Seq(Node), NEW t \in Seq(Node)
    PROVE  /\ Common(s, t) \in Nat /\ Common(s, t) <= Len(s) /\ Common(s, t) <= Len(t)
           /\ Agree(s, t, Common(s, t))
           /\ \A i \in Nat : i <= Len(s) /\ i <= Len(t) /\ Agree(s, t, i) => i <= Common(s, t)
  <1> DEFINE least == Min({Len(s), Len(t)})
             T == {i \in 0..least : Agree(s, t, i)}
  <1>1. Len(s) \in Nat /\ Len(t) \in Nat
    OBVIOUS
  <1>2. least \in {Len(s), Len(t)} /\ least <= Len(s) /\ least <= Len(t)
    <2>1. \E x \in {Len(s), Len(t)} : \A y \in {Len(s), Len(t)} : x <= y
      BY <1>1
    <2> QED
      BY <2>1 DEF Min
  <1> HIDE DEF least
  <1>3. least \in Nat
    BY <1>1, <1>2
  <1>4. \E x \in T : \A y \in T : y <= x
    <2>1. 0 \in T
      BY <1>3 DEF Agree
    <2>2. T \in SUBSET Nat /\ T # {} /\ \A x \in T : x <= least
      BY <1>3, <2>1
    <2> HIDE DEF T
    <2> QED
      BY <1>3, <2>2, GreatestNumber
  <1>5. Common(s, t) = Max(T)
    BY DEF Common, least, Agree
  <1>6. \A x, y \in T : (x >= y) <=> (y <= x)
    BY <1>3
  <1>7. Common(s, t) \in T /\ \A y \in T : y <= Common(s, t)
    <2>1. \E x \in T : \A y \in T : x >= y
      BY <1>4, <1>6
    <2> HIDE DEF T
    <2>2. Max(T) \in T /\ \A y \in T : Max(T) >= y
      BY <2>1 DEF Max
    <2> QED
      BY <1>5, <1>6, <2>2
  <1>8. \A i \in Nat : i <= Len(s) /\ i <= Len(t) => i \in 0..least
    BY <1>1, <1>2, <1>3
  <1> HIDE DEF Common
  <1>9. Common(s, t) \in 0..least /\ Agree(s, t, Common(s, t))
    BY <1>7
  <1>10. Common(s, t) \in Nat /\ Common(s, t) <= Len(s) /\ Common(s, t) <= Len(t)
    BY <1>1, <1>2, <1>3, <1>9
  <1> QED
    BY <1>7, <1>8, <1>9, <1>10

LEMMA DistanceIs ==
    ASSUME NEW s \in Seq(Node), NEW t \in Seq(Node)
    PROVE  treeDistance(s, t) = Len(s) + Len(t) - 2 * Common(s, t) /\ treeDistance(s, t) \in Nat
  <1>1. Len(s) \in Nat /\ Len(t) \in Nat
    OBVIOUS
  <1>2. Common(s, t) \in Nat /\ Common(s, t) <= Len(s) /\ Common(s, t) <= Len(t)
    BY CommonIs
  <1> QED
    BY <1>1, <1>2 DEF treeDistance

\* Two paths that meet go on together.
LEMMA MeetOnce ==
    ASSUME NEW core, NEW links, NEW a, AtRest(core, links, a), NEW n \in core, NEW d \in core,
           NEW i \in 1..Len(a[n]), a[n][i] \in Range(a[d])
    PROVE  Len(a[n]) - i + 1 <= Common(a[n], a[d])
  <1> DEFINE x == a[n][i]
             A == a[n]
             D == a[d]
             X == a[x]
  <1>1. PICK k \in 1..Len(D) : x = D[k]
    BY DEF AtRest, Range
  <1>2. A \in Seq(Node) /\ D \in Seq(Node) /\ Len(A) \in Nat /\ Len(D) \in Nat
    BY Numbers
  <1>3. x = A[i]
    OBVIOUS
  <1> HIDE DEF x
  <1>4. /\ Len(X) = Len(A) - i + 1 /\ Len(X) = Len(D) - k + 1
        /\ \A j \in 1..Len(X) : X[j] = A[i + j - 1] /\ X[j] = D[k + j - 1]
    <2>1. IsEnd(A, i, X)
      BY <1>3, EndsOfPath
    <2>2. IsEnd(D, k, X)
      BY <1>1, EndsOfPath
    <2> HIDE DEF A, D, X
    <2> QED
      BY <2>1, <2>2 DEF IsEnd
  <1>5. Len(X) \in Nat /\ i \in Nat /\ k \in Nat
    BY <1>2, <1>4
  <1> HIDE DEF A, D, X
  <1>6. Agree(A, D, Len(X))
    <2> SUFFICES ASSUME NEW j \in 0..(Len(X) - 1)
                 PROVE  A[Len(A) - j] = D[Len(D) - j]
      BY DEF Agree
    <2> DEFINE e == Len(X) - j
    <2>1. e \in 1..Len(X) /\ i + e - 1 = Len(A) - j /\ k + e - 1 = Len(D) - j
      <3>1. j \in Nat /\ e \in Nat /\ e \in 1..Len(X)
        BY <1>5
      <3>2. Len(X) = Len(A) - i + 1 /\ Len(X) = Len(D) - k + 1
        BY <1>4
      <3> QED
        BY <1>2, <1>5, <3>1, <3>2
    <2>2. X[e] = A[i + e - 1] /\ X[e] = D[k + e - 1]
      BY <1>4, <2>1
    <2> QED
      BY <2>1, <2>2
  <1>7. Len(X) <= Len(A) /\ Len(X) <= Len(D)
    BY <1>2, <1>4
  <1>8. Len(X) <= Common(A, D)
    BY <1>2, <1>5, <1>6, <1>7, CommonIs
  <1> QED
    BY <1>4, <1>8 DEF A, D

\* The distance to a node further up the own path.
LEMMA AlongPath ==
    ASSUME NEW core, NEW links, NEW a, AtRest(core, links, a), NEW d \in core,
           NEW i \in 1..Len(a[d]), NEW x, x = a[d][i]
    PROVE  treeDistance(a[x], a[d]) = i - 1
  <1> DEFINE D == a[d]
             X == a[x]
             c == Common(X, D)
  <1>1. x \in core /\ Len(X) = Len(D) - i + 1
    <2>1. x \in core /\ IsEnd(D, i, X)
      BY EndsOfPath
    <2> QED
      BY <2>1 DEF IsEnd
  <1>2. D \in Seq(Node) /\ Len(D) \in Nat /\ X \in Seq(Node) /\ Len(X) \in Nat \ {0} /\ X[1] = x
    BY <1>1, Numbers
  <1>3. X[1] \in Range(D) /\ 1 \in 1..Len(X)
    BY <1>2 DEF Range
  <1>4. Len(X) - 1 + 1 <= c
    BY <1>1, <1>3, MeetOnce
  <1>5. c \in Nat /\ c <= Len(X) /\ treeDistance(X, D) = Len(X) + Len(D) - 2 * c
    BY <1>2, CommonIs, DistanceIs
  <1> HIDE DEF X, D, c
  <1>6. c = Len(X)
    BY <1>2, <1>4, <1>5
  <1>7. i \in Nat
    OBVIOUS
  <1> QED
    BY <1>1, <1>2, <1>5, <1>6, <1>7 DEF X, D

\* Two nodes of one root are less apart than there are nodes: no node is on the way twice.
LEMMA DistanceFits ==
    ASSUME NEW core, NEW links, NEW a, AtRest(core, links, a), NEW n \in core, NEW d \in core,
           Root(a[n]) = Root(a[d])
    PROVE  treeDistance(a[n], a[d]) < Cardinality(Node)
  <1> DEFINE A == a[n]
             D == a[d]
             c == Common(A, D)
             N == Cardinality(Node)
             M == Len(D) + (Len(A) - c)
             f == [i \in 1..M |-> IF i <= Len(D) THEN D[i] ELSE A[i - Len(D)]]
  <1>1. /\ A \in Seq(Node) /\ D \in Seq(Node)
        /\ Len(A) \in Nat \ {0} /\ Len(D) \in Nat \ {0} /\ N \in Nat
    BY Numbers, NodesCounted
  <1>2. /\ c \in Nat /\ c <= Len(A) /\ c <= Len(D)
        /\ treeDistance(A, D) = Len(A) + Len(D) - 2 * c
    BY <1>1, CommonIs, DistanceIs
  <1>3. c >= 1
    <2>1. Agree(A, D, 1)
      <3>1. A[Len(A)] = D[Len(D)]
        BY DEF Root
      <3>2. \A j \in 0..(1 - 1) : j = 0
        OBVIOUS
      <3>3. Len(A) - 0 = Len(A) /\ Len(D) - 0 = Len(D)
        BY <1>1
      <3> HIDE DEF A, D
      <3> QED
        BY <3>1, <3>2, <3>3 DEF Agree
    <2>2. 1 \in Nat /\ 1 <= Len(A) /\ 1 <= Len(D)
      BY <1>1
    <2> HIDE DEF A, D
    <2>3. 1 <= c
      BY <1>1, <2>1, <2>2, CommonIs
    <2> QED
      BY <1>2, <2>3
  <1>4. ASSUME NEW i \in 1..(Len(A) - c)
        PROVE  i \in 1..Len(A) /\ A[i] \notin Range(D)
    <2>1. i \in 1..Len(A) /\ ~(Len(A) - i + 1 <= c)
      BY <1>1, <1>2
    <2>2. A[i] \in Range(D) => Len(A) - i + 1 <= c
      BY <2>1, MeetOnce
    <2> QED
      BY <2>1, <2>2
  <1>5. IsInjective(A) /\ IsInjective(D)
    BY Numbers DEF ValidAncestry
  <1>6. DOMAIN A = 1..Len(A) /\ DOMAIN D = 1..Len(D)
    BY <1>1
  <1> HIDE DEF A, D, c, N
  <1>7. M \in Nat /\ Len(A) - c \in Nat
    BY <1>1, <1>2
  <1>8. ASSUME NEW i \in 1..M
        PROVE  \/ i \in 1..Len(D) /\ f[i] = D[i]
               \/ i - Len(D) \in 1..(Len(A) - c) /\ f[i] = A[i - Len(D)] /\ ~(i <= Len(D))
    BY <1>1, <1>7
  <1>9. \A i \in 1..Len(D) : D[i] \in Range(D) /\ D[i] \in Node
    BY <1>1, <1>6 DEF Range
  <1>10. \A i \in 1..(Len(A) - c) : A[i] \in Node /\ A[i] \notin Range(D) /\ i \in 1..Len(A)
    BY <1>1, <1>4
  <1>11. \A i \in 1..M : f[i] \in Node
    BY <1>8, <1>9, <1>10
  <1>12. f \in [1..M -> Node]
    <2>1. f = [i \in 1..M |-> f[i]]
      OBVIOUS
    <2> HIDE DEF f
    <2> QED
      BY <1>11, <2>1
  <1> HIDE DEF f, M
  <1>13. ASSUME NEW i \in 1..M, NEW j \in 1..M, f[i] = f[j]
         PROVE  i = j
    <2>1. CASE i <= Len(D) /\ j <= Len(D)
      <3>1. i \in 1..Len(D) /\ j \in 1..Len(D) /\ D[i] = D[j]
        BY <1>1, <1>8, <1>13, <2>1
      <3> QED
        BY <1>5, <1>6, <3>1 DEF IsInjective
    <2>2. CASE ~(i <= Len(D)) /\ ~(j <= Len(D))
      <3>1. /\ i - Len(D) \in 1..(Len(A) - c) /\ j - Len(D) \in 1..(Len(A) - c)
            /\ A[i - Len(D)] = A[j - Len(D)]
        BY <1>1, <1>8, <1>13, <2>2
      <3>2. i - Len(D) \in 1..Len(A) /\ j - Len(D) \in 1..Len(A)
        BY <1>10, <3>1
      <3>3. i - Len(D) = j - Len(D)
        BY <1>5, <1>6, <3>1, <3>2 DEF IsInjective
      <3> QED
        BY <1>1, <3>3
    <2>3. ASSUME NEW u \in 1..M, NEW v \in 1..M, u <= Len(D), ~(v <= Len(D)), f[u] = f[v]
          PROVE  FALSE
      <3>1. u \in 1..Len(D) /\ f[u] = D[u]
        BY <1>1, <1>8, <2>3
      <3>2. v - Len(D) \in 1..(Len(A) - c) /\ f[v] = A[v - Len(D)]
        BY <1>1, <1>8, <2>3
      <3> QED
        BY <1>9, <1>10, <2>3, <3>1, <3>2
    <2> QED
      BY <1>13, <2>1, <2>2, <2>3
  <1>14. f \in Injection(1..M, Node)
    <2>1. DOMAIN f = 1..M
      BY <1>12
    <2>2. IsInjective(f)
      BY <1>13, <2>1 DEF IsInjective
    <2> QED
      BY <1>12, <2>2 DEF Injection
  <1>15. Cardinality(1..M) <= N
    BY <1>14, SpanningTreeAssumption, FS_Injection DEF N
  <1>16. Cardinality(1..M) = M
    <2>1. M \in Int /\ 1 \in Int
      BY <1>7
    <2>2. Cardinality(1..M) = IF 1 > M THEN 0 ELSE M - 1 + 1
      BY <2>1, FS_Interval
    <2> QED
      BY <1>7, <2>2
  <1>17. Len(D) + (Len(A) - c) <= N
    BY <1>15, <1>16 DEF M
  <1>18. treeDistance(A, D) < N
    BY <1>1, <1>2, <1>3, <1>17
  <1> QED
    BY <1>18 DEF A, D, N

\* On the way to another node of the tree a neighbour is nearer: the next one down its path,
\* or else the own parent.
LEMMA NearerPeer ==
    ASSUME NEW core, NEW links, NEW a, AtRest(core, links, a), NEW n \in core, NEW d \in core,
           Root(a[n]) = Root(a[d]), n # d
    PROVE  \E p \in core : /\ {n, p} \in links /\ Root(a[p]) = Root(a[d])
                           /\ treeDistance(a[p], a[d]) < treeDistance(a[n], a[d])
  <1> DEFINE A == a[n]
             D == a[d]
  <1>1. /\ A \in Seq(Node) /\ D \in Seq(Node) /\ A[1] = n /\ D[1] = d
        /\ Len(A) \in Nat \ {0} /\ Len(D) \in Nat \ {0}
        /\ DOMAIN A = 1..Len(A) /\ DOMAIN D = 1..Len(D)
    BY Numbers
  <1>2. CASE n \in Range(D)
    <2>1. PICK i \in 1..Len(D) : n = D[i]
      BY <1>1, <1>2 DEF Range
    <2>2. i # 1
      BY <1>1, <2>1
    <2> DEFINE h == i - 1
               y == D[h]
    <2>3. h \in 1..Len(D) /\ h + 1 = i /\ h + 2 - 1 = i
      BY <1>1, <2>2
    <2>4. y = D[h]
      OBVIOUS
    <2> HIDE DEF h, y
    <2>5. y \in core /\ IsEnd(D, h, a[y])
      BY <2>3, <2>4, EndsOfPath
    <2>6. Len(a[y]) \in Nat /\ Len(a[y]) = Len(D) - h + 1
      BY <2>5, Numbers DEF IsEnd
    <2>7. Len(a[y]) > 1 /\ 2 \in 1..Len(a[y])
      <3> HIDE DEF D
      <3> QED
        BY <1>1, <2>3, <2>6
    <2>8. a[y][2] = n
      BY <2>1, <2>3, <2>5, <2>7 DEF IsEnd
    <2>9. Below(core, links, a, y, n)
      BY <2>5, <2>7, <2>8, ParentOf
    <2>10. {n, y} \in links
      <3>1. {n, y} = {y, n}
        OBVIOUS
      <3> QED
        BY <2>9, <3>1 DEF Below
    <2>11. treeDistance(a[y], D) = h - 1 /\ treeDistance(A, D) = i - 1
      BY <2>1, <2>3, <2>4, AlongPath
    <2>12. treeDistance(a[y], D) < treeDistance(A, D)
      <3> HIDE DEF D, A
      <3> QED
        BY <2>3, <2>11
    <2>13. Root(a[y]) = Root(D)
      BY <2>5, <2>10, RootsAgree
    <2> QED
      BY <2>5, <2>10, <2>12, <2>13
  <1>3. CASE n \notin Range(D)
    <2> DEFINE c == Common(A, D)
               p == A[2]
    <2>1. c \in Nat /\ c <= Len(A) /\ c <= Len(D) /\ Agree(A, D, c)
      BY <1>1, CommonIs
    <2>2. c < Len(A)
      <3>1. SUFFICES ASSUME c = Len(A) PROVE FALSE
        BY <1>1, <2>1
      <3> DEFINE j == Len(A) - 1
      <3>2. j \in 0..(c - 1) /\ Len(A) - j = 1 /\ Len(D) - j \in 1..Len(D)
        <4> HIDE DEF A, D, c
        <4> QED
          BY <1>1, <2>1, <3>1
      <3> HIDE DEF j, A, D, c
      <3>3. A[1] = D[Len(D) - j]
        BY <2>1, <3>2 DEF Agree
      <3> QED
        BY <1>1, <1>3, <3>2, <3>3 DEF Range
    <2>3. c # 0
      <3>1. A[Len(A)] = D[Len(D)]
        BY DEF Root
      <3>2. Agree(A, D, 1)
        <4>1. Len(A) - 0 = Len(A) /\ Len(D) - 0 = Len(D) /\ \A j \in 0..(1 - 1) : j = 0
          BY <1>1
        <4> HIDE DEF A, D
        <4> QED
          BY <3>1, <4>1 DEF Agree
      <3> HIDE DEF A, D
      <3>3. 1 <= c
        BY <1>1, <3>2, CommonIs
      <3> QED
        BY <3>3
    <2>4. Len(A) > 1 /\ p = A[2]
      BY <1>1, <2>1, <2>2, <2>3
    <2> HIDE DEF c, p
    <2>5. /\ p \in core /\ Below(core, links, a, n, p) /\ Len(A) = Len(a[p]) + 1
          /\ \A j \in 1..Len(a[p]) : a[p][j] = A[j + 1]
      BY <2>4, ParentOf
    <2> DEFINE P == a[p]
    <2>6. P \in Seq(Node) /\ Len(P) \in Nat
      BY <2>5, Numbers
    <2>7. {n, p} \in links /\ Root(P) = Root(D)
      <3>1. {n, p} \in links
        BY <2>5 DEF Below
      <3>2. Root(A) = Root(P)
        BY <2>5, <3>1, RootsAgree
      <3>3. Root(A) = Root(D)
        OBVIOUS
      <3> QED
        BY <3>1, <3>2, <3>3
    <2>8. p \in core
      BY <2>5
    <2> HIDE DEF P, A, D
    <2>9. Len(A) = Len(P) + 1 /\ \A j \in 1..Len(P) : P[j] = A[j + 1]
      BY <2>5 DEF P
    <2>10. Agree(P, D, c)
      <3> SUFFICES ASSUME NEW j \in 0..(c - 1) PROVE P[Len(P) - j] = D[Len(D) - j]
        BY DEF Agree
      <3>1. Len(P) - j \in 1..Len(P) /\ (Len(P) - j) + 1 = Len(A) - j
        BY <2>1, <2>2, <2>6, <2>9
      <3>2. P[Len(P) - j] = A[Len(A) - j]
        BY <2>9, <3>1
      <3>3. A[Len(A) - j] = D[Len(D) - j]
        BY <2>1 DEF Agree
      <3> QED
        BY <3>2, <3>3
    <2>11. c <= Common(P, D) /\ Common(P, D) \in Nat
      <3>1. c <= Len(P)
        BY <2>1, <2>2, <2>6, <2>9
      <3> QED
        BY <1>1, <2>1, <2>6, <2>10, <3>1, CommonIs
    <2>12. /\ treeDistance(A, D) = Len(A) + Len(D) - 2 * c
           /\ treeDistance(P, D) = Len(P) + Len(D) - 2 * Common(P, D)
      BY <1>1, <2>6, DistanceIs DEF c
    <2>13. treeDistance(P, D) < treeDistance(A, D)
      BY <1>1, <2>1, <2>6, <2>9, <2>11, <2>12
    <2> QED
      BY <2>7, <2>8, <2>13 DEF P, A, D
  <1> QED
    BY <1>2, <1>3

----------------------------------------------------------------------------
(* The way of a datagram *)

\* The sort of nextHop has one first element.
LEMMA FirstIsOne ==
    ASSUME NEW C \in SUBSET Nat, C # {}, NEW f \in [C -> Nat]
    PROVE  \E p \in C : {x \in C : \A q \in C : f[x] < f[q] \/ (f[x] = f[q] /\ x <= q)} = {p}
  <1> DEFINE F == {f[x] : x \in C}
  <1>1. PICK e \in F : \A v \in F : e <= v
    <2>1. F \in SUBSET Nat /\ F # {}
      <3>1. \E x : x \in C
        OBVIOUS
      <3> QED
        BY <3>1
    <2> HIDE DEF F
    <2> QED
      BY <2>1, LeastNumber
  <1> DEFINE B == {x \in C : f[x] = e}
  <1>2. PICK p \in B : \A x \in B : p <= x
    <2>1. B \in SUBSET Nat /\ B # {}
      BY <1>1
    <2> HIDE DEF B
    <2> QED
      BY <2>1, LeastNumber
  <1>3. p \in C /\ f[p] = e /\ e \in Nat
    BY <1>2
  <1>4. \A q \in C : f[q] \in Nat /\ q \in Nat
    OBVIOUS
  <1>5. ASSUME NEW q \in C
        PROVE  f[p] < f[q] \/ (f[p] = f[q] /\ p <= q)
    <2>1. e <= f[q]
      BY <1>1
    <2>2. f[q] = e => p <= q
      BY <1>2
    <2> QED
      BY <1>3, <1>4, <2>1, <2>2
  <1>6. ASSUME NEW x \in C, \A q \in C : f[x] < f[q] \/ (f[x] = f[q] /\ x <= q)
        PROVE  x = p
    <2>1. f[x] < f[p] \/ (f[x] = f[p] /\ x <= p)
      BY <1>3, <1>6
    <2>2. f[p] < f[x] \/ (f[p] = f[x] /\ p <= x)
      BY <1>5
    <2>3. f[x] \in Nat /\ f[p] \in Nat /\ x \in Nat /\ p \in Nat
      BY <1>3, <1>4
    <2> QED
      BY <2>1, <2>2, <2>3
  <1> QED
    BY <1>3, <1>5, <1>6

\* At rest every node has one next hop for another node of its tree, and it is nearer.
LEMMA NextHopIs ==
    ASSUME TreeInv, Telling, Quiet, NEW a, a = [m \in Node |-> tree[m].ancestry],
           NEW n \in Core, NEW d \in Core, n # d, Root(a[n]) = Root(a[d])
    PROVE  \E p \in Core :
             /\ NextHopFor(n, d) = {p} /\ Root(a[p]) = Root(a[d])
             /\ p = d \/ treeDistance(a[p], a[d]) < treeDistance(a[n], a[d])
  <1>1. AtRest(Core, carrier, a)
    BY QuietIsAtRest
  <1>2. Core \subseteq Node /\ \A m \in Core : a[m] = tree[m].ancestry
    BY DEF Core
  <1>3. CASE d \in DOMAIN adj[n]
    <2>1. NextHopFor(n, d) = {d}
      BY <1>3 DEF NextHopFor
    <2> QED
      BY <2>1
  <1>4. CASE d \notin DOMAIN adj[n]
    <2> DEFINE D == a[d]
               C == Closer(n, D)
               f == [p \in C |-> treeDistance(a[p], D)]
    <2>1. NextHopFor(n, d) = NextHops(n, D)
      BY <1>2, <1>4 DEF NextHopFor
    <2>2. /\ DOMAIN known[n] = {m \in Core : {n, m} \in carrier}
          /\ \A m \in DOMAIN known[n] : known[n][m].ancestry = a[m]
      BY <1>2, QuietKnows
    <2>3. DOMAIN known[n] \subseteq DOMAIN adj[n]
      BY <1>2, Present DEF NodeOK
    <2>4. C = {p \in Core : /\ {n, p} \in carrier /\ Root(a[p]) = Root(D)
                            /\ treeDistance(a[p], D) < treeDistance(a[n], D)}
      BY <1>2, <2>2, <2>3 DEF Closer
    <2>5. C # {}
      <3>1. \E p \in Core : /\ {n, p} \in carrier /\ Root(a[p]) = Root(a[d])
                            /\ treeDistance(a[p], a[d]) < treeDistance(a[n], a[d])
        BY <1>1, NearerPeer
      <3> HIDE DEF C
      <3> QED
        BY <2>4, <3>1
    <2> HIDE DEF C, D
    <2>6. C \in SUBSET Nat
      BY <1>2, <2>4, NodesAreNumbers
    <2>7. f \in [C -> Nat]
      <3>1. D \in Seq(Node) /\ \A p \in Core : a[p] \in Seq(Node)
        BY <1>1, Numbers DEF D
      <3>2. \A p \in C : treeDistance(a[p], D) \in Nat
        BY <2>4, <3>1, DistanceIs
      <3> QED
        BY <3>2
    <2>8. \A p \in C : f[p] = treeDistance(known[n][p].ancestry, D)
      BY <2>2, <2>4
    <2>9. NextHops(n, D) = {x \in C : \A q \in C : f[x] < f[q] \/ (f[x] = f[q] /\ x <= q)}
      <3>1. Root(tree[n].ancestry) = Root(D)
        BY <1>2 DEF D
      <3> HIDE DEF f
      <3> QED
        BY <2>8, <3>1 DEF NextHops, C
    <2> HIDE DEF f
    <2>10. PICK p \in C : NextHops(n, D) = {p}
      BY <2>5, <2>6, <2>7, <2>9, FirstIsOne
    <2> QED
      BY <2>1, <2>4, <2>10 DEF D
  <1> QED
    BY <1>3, <1>4

Hop(s, d) == UNION {IF j = d THEN {d} ELSE NextHopFor(j, d) : j \in s}

Walks(w, n, d) ==
    w[0] = {n} /\ \A i \in 0..(Cardinality(Node) - 1) : w[i + 1] = Hop(w[i], d)

LEMMA WalkGoes ==
    ASSUME TreeInv, NEW n \in Node, NEW d \in Node
    PROVE  Walks(Walk(n, d), n, d)
  <1> DEFINE N == Cardinality(Node)
             Is(f) == f = [i \in 0..N |-> IF i = 0 THEN {n} ELSE Hop(f[i - 1], d)]
             G == [s \in SUBSET Node |-> Hop(s, d)]
             walk == Walk(n, d)
             parts == SUBSET Node
             first == {n}
  <1>1. N \in Nat
    BY NodesCounted
  <1>2. walk = CHOOSE f : Is(f)
    BY DEF Walk, Hop
  <1>3. G \in [SUBSET Node -> SUBSET Node] /\ {n} \in SUBSET Node
    <2>1. ASSUME NEW j \in Node PROVE NextHopFor(j, d) \subseteq Node
      <3>1. DOMAIN adj[j] \subseteq Node
        BY Present DEF NodeOK
      <3>2. NextHops(j, tree[d].ancestry) \subseteq Node
        BY <3>1 DEF NextHops, Closer
      <3> QED
        BY <3>2 DEF NextHopFor
    <2>2. \A s \in SUBSET Node : Hop(s, d) \in SUBSET Node
      BY <2>1 DEF Hop
    <2> QED
      BY <2>2
  <1> HIDE DEF walk, N
  <1>4. PICK b \in [0..N -> SUBSET Node] : Iterated(b, {n}, G, N)
    <2>1. G \in [parts -> parts] /\ first \in parts
      BY <1>3
    <2> HIDE DEF G, parts, first
    <2>2. \E b \in [0..N -> parts] : Iterated(b, first, G, N)
      BY <1>1, <2>1, Iterates
    <2> QED
      BY <2>2 DEF parts, first
  <1>5. Is(b)
    <2> DEFINE c == [i \in 0..N |-> IF i = 0 THEN {n} ELSE Hop(b[i - 1], d)]
    <2>1. ASSUME NEW i \in 0..N PROVE b[i] = c[i]
      <3>1. CASE i = 0
        BY <1>4, <3>1 DEF Iterated
      <3>2. CASE i # 0
        <4>1. i - 1 \in 0..(N - 1) /\ (i - 1) + 1 = i /\ i - 1 \in 0..N
          BY <1>1, <3>2
        <4>2. b[i] = G[b[i - 1]] /\ b[i - 1] \in SUBSET Node
          BY <1>4, <4>1 DEF Iterated
        <4>3. c[i] = Hop(b[i - 1], d)
          BY <3>2
        <4> QED
          BY <4>2, <4>3
      <3> QED
        BY <3>1, <3>2
    <2>2. b = c
      BY <2>1
    <2> QED
      BY <2>2
  <1> HIDE DEF G
  <1>6. Is(walk)
    <2> HIDE DEF Is
    <2> QED
      BY <1>2, <1>5
  <1>7. walk[0] = {n}
    BY <1>1, <1>6
  <1>8. ASSUME NEW i \in 0..(N - 1)
        PROVE  walk[i + 1] = Hop(walk[i], d)
    <2>1. i + 1 \in 0..N /\ i + 1 # 0 /\ (i + 1) - 1 = i
      BY <1>1
    <2>2. walk[i + 1] = Hop(walk[(i + 1) - 1], d)
      BY <1>6, <2>1
    <2> QED
      BY <2>1, <2>2
  <1> QED
    BY <1>7, <1>8 DEF Walks, walk, N

\* Hop by hop the datagram is at one node, and nearer each time.
LEMMA WalkArrives ==
    ASSUME TreeInv, Telling, Quiet, NEW n \in Core, NEW d \in Core,
           Root(tree[n].ancestry) = Root(tree[d].ancestry)
    PROVE  Walk(n, d)[Cardinality(Node)] = {d}
  <1> DEFINE a == [m \in Node |-> tree[m].ancestry]
             N == Cardinality(Node)
             w == Walk(n, d)
             far(x) == treeDistance(a[x], a[d])
             At(i, x) == /\ w[i] = {x} /\ Root(a[x]) = Root(a[d])
                         /\ x = d \/ far(x) + i <= far(n)
             S == {i \in 0..N : \E x \in Core : At(i, x)}
  <1>1. AtRest(Core, carrier, a) /\ n \in Node /\ d \in Node /\ N \in Nat
    BY QuietIsAtRest, NodesCounted DEF Core
  <1>2. \A x \in Core : far(x) \in Nat
    BY <1>1, Numbers, DistanceIs
  <1>3. Root(a[n]) = Root(a[d])
    BY <1>1
  <1>4. far(n) < N
    BY <1>1, <1>3, DistanceFits
  <1>5. \A x \in Core : x # d /\ Root(a[x]) = Root(a[d]) =>
          \E p \in Core : /\ NextHopFor(x, d) = {p} /\ Root(a[p]) = Root(a[d])
                          /\ p = d \/ far(p) < far(x)
    BY NextHopIs
  <1>6. Walks(w, n, d)
    BY <1>1, WalkGoes
  <1> HIDE DEF a, N, w, far
  <1>7. w[0] = {n} /\ \A i \in 0..(N - 1) : w[i + 1] = Hop(w[i], d)
    BY <1>6 DEF Walks, N
  <1>8. 0 \in S
    <2>1. At(0, n)
      BY <1>2, <1>3, <1>7
    <2> HIDE DEF At
    <2> QED
      BY <1>1, <2>1
  <1>9. ASSUME NEW i \in 0..(N - 1), i \in S
        PROVE  i + 1 \in S
    <2>1. PICK x \in Core : At(i, x)
      BY <1>9
    <2>2. w[i + 1] = IF x = d THEN {d} ELSE NextHopFor(x, d)
      <3>1. w[i + 1] = Hop({x}, d)
        BY <1>7, <2>1
      <3>2. Hop({x}, d) = IF x = d THEN {d} ELSE NextHopFor(x, d)
        BY DEF Hop
      <3> QED
        BY <3>1, <3>2
    <2>3. i + 1 \in 0..N
      BY <1>1
    <2>4. \E p \in Core : At(i + 1, p)
      <3>1. CASE x = d
        BY <2>1, <2>2, <3>1
      <3>2. CASE x # d
        <4>1. PICK p \in Core : /\ NextHopFor(x, d) = {p} /\ Root(a[p]) = Root(a[d])
                                /\ p = d \/ far(p) < far(x)
          BY <1>5, <2>1, <3>2
        <4>2. p = d \/ far(p) + (i + 1) <= far(n)
          <5>1. far(p) \in Nat /\ far(x) \in Nat /\ far(n) \in Nat /\ i \in Nat
            BY <1>2
          <5>2. far(x) + i <= far(n)
            BY <2>1, <3>2
          <5> QED
            BY <4>1, <5>1, <5>2
        <4> QED
          BY <2>2, <3>2, <4>1, <4>2
      <3> QED
        BY <3>1, <3>2
    <2> HIDE DEF At
    <2> QED
      BY <2>3, <2>4
  <1>10. 0..N \subseteq S
    <2> HIDE DEF S
    <2> QED
      BY <1>1, <1>8, <1>9, Climb
  <1>11. PICK x \in Core : At(N, x)
    <2>1. N \in 0..N
      BY <1>1
    <2> HIDE DEF At
    <2> QED
      BY <1>10, <2>1
  <1>12. x = d
    <2>1. far(x) \in Nat /\ far(n) \in Nat
      BY <1>2
    <2> QED
      BY <1>1, <1>4, <1>11, <2>1
  <1> QED
    BY <1>11, <1>12 DEF w, N

LEMMA RestIsRouted == TreeInv /\ Telling => SettledRoutes
  <1> SUFFICES ASSUME TreeInv, Telling, Quiet,
                      NEW n \in Core, NEW d \in Component(Core, n, carrier)
               PROVE  Walk(n, d)[Cardinality(Node)] = {d}
    BY DEF SettledRoutes
  <1> DEFINE a == [m \in Node |-> tree[m].ancestry]
  <1>1. AtRest(Core, carrier, a)
    BY QuietIsAtRest
  <1>2. d \in Ball(Core, n, carrier)[Cardinality(Node)]
    BY DEF Component
  <1>3. Cardinality(Node) \in 0..Cardinality(Node)
    BY NodesCounted
  <1> HIDE DEF a
  <1>4. d \in Core /\ Root(a[d]) = Root(a[n])
    BY <1>1, <1>2, <1>3, WithinBall
  <1>5. a[d] = tree[d].ancestry /\ a[n] = tree[n].ancestry
    BY <1>4 DEF a, Core
  <1> QED
    BY <1>4, <1>5, WalkArrives

----------------------------------------------------------------------------
(* The filters: what a node knows of its peers' filters and roles *)

AdjacentPeer == [supported : BOOLEAN, client : BOOLEAN, roleSeq : Nat,
                 inFilter : SUBSET Node, inSeq : Nat, outFilter : SUBSET Node]

\* What a node has of its peer m: only a client is taken for one, and no other role of a
\* client was ever accepted.
RoleFits(p, m) ==
    /\ p \in AdjacentPeer
    /\ p.client => m \in Client
    /\ m \in Client => p.roleSeq = 0 \/ p.client

SupportFrame(n, m) == Frame(n, m, "ClientSupport", 0, <<>>, {})

\* Node n, with the AdjacentPeer p for the client c that has q for n, knows c's role or the
\* next frame of the exchange that ends with it is in flight.
Asked(n, c, p, q, frames) ==
    \/ p.client
    \/ q.supported /\ \E msg \in frames : msg.from = c /\ msg.to = n /\ msg.type = "ClientOnly"
    \/ ~q.supported /\ p.supported /\ SupportFrame(n, c) \in frames
    \/ ~q.supported /\ ~p.supported /\ SupportFrame(c, n) \in frames

FilterFrame(n, m, s, f) == Frame(n, m, "FilterAnnounce", s, <<>>, f)

\* The last filter that n sent to m has the number s, and m has it or will.
LastSent(s, n, m, p, q, frames) ==
    /\ q.inSeq <= s
    /\ q.inSeq = s => q.inFilter = p.outFilter
    /\ q.inSeq < s => FilterFrame(n, m, s, p.outFilter) \in frames
    /\ \A msg \in frames : msg.from = n /\ msg.to = m /\ msg.type = "FilterAnnounce" =>
          msg.seq <= s /\ (msg.seq = s => msg.filter = p.outFilter)

Delivers(n, m, p, q, c, frames) ==
    \E s \in Nat : s <= c /\ LastSent(s, n, m, p, q, frames)

\* The filters that n sent last are those that follow from what it has, except for clients
\* that have left.
Current(n, t, k, a) ==
    \A m \in Core \cap DOMAIN a :
        /\ OutgoingFilter(n, t, k, a, m) \subseteq a[m].outFilter
        /\ a[m].outFilter \subseteq OutgoingFilter(n, t, k, a, m) \cup Client

Filtering ==
    /\ \A n \in Node : \A m \in DOMAIN adj[n] : RoleFits(adj[n][m], m)
    /\ \A n \in Core, c \in Client :
          {n, c} \in carrier => Asked(n, c, adj[n][c], adj[c][n], net)
    /\ \A n, m \in Core :
          {n, m} \in carrier => Delivers(n, m, adj[n][m], adj[m][n], count[n].filter, net)
    /\ \A n \in Core : owed[n] \/ Current(n, tree[n], known[n], adj[n])

----------------------------------------------------------------------------
(* outgoingFilterFor *)

\* The filter of peer p is part of what n announces to m.
Feeds(n, t, k, a, m, p) == p \in DOMAIN a \ {m} /\ ~a[p].client /\ IsTreePeer(n, t, k, p)

LEMMA OutgoingMembers ==
    ASSUME NEW n, NEW t, NEW k, NEW a, NEW m, NEW x
    PROVE  x \in OutgoingFilter(n, t, k, a, m) <=>
              \/ x = n
              \/ /\ mesh.forwarding
                 /\ \/ x \in DOMAIN a \ {m} /\ a[x].client
                    \/ \E p : Feeds(n, t, k, a, m, p) /\ x \in a[p].inFilter
  BY DEF OutgoingFilter, Feeds

LEMMA OutgoingNodes ==
    ASSUME NEW n \in Node, NEW t, NEW k, NEW a, NEW m,
           \A p \in DOMAIN a : p \in Node /\ a[p] \in AdjacentPeer
    PROVE  OutgoingFilter(n, t, k, a, m) \in SUBSET Node
  <1>1. \A p \in DOMAIN a : a[p].inFilter \subseteq Node
    BY DEF AdjacentPeer
  <1> QED
    BY <1>1 DEF OutgoingFilter

\* Less feeds it, less is announced.
LEMMA OutgoingLess ==
    ASSUME NEW n, NEW t, NEW k, NEW a, NEW u, NEW l, NEW b, NEW m,
           \A p \in DOMAIN a \ {m} : a[p].client => p \in DOMAIN b /\ b[p].client,
           \A p : Feeds(n, t, k, a, m, p) => Feeds(n, u, l, b, m, p) /\ a[p].inFilter = b[p].inFilter
    PROVE  OutgoingFilter(n, t, k, a, m) \subseteq OutgoingFilter(n, u, l, b, m)
  <1> SUFFICES ASSUME NEW x \in OutgoingFilter(n, t, k, a, m)
               PROVE  x \in OutgoingFilter(n, u, l, b, m)
    OBVIOUS
  <1>1. \/ x = n
        \/ /\ mesh.forwarding
           /\ \/ x \in DOMAIN a \ {m} /\ a[x].client
              \/ \E p : Feeds(n, t, k, a, m, p) /\ x \in a[p].inFilter
    BY OutgoingMembers
  <1>2. \/ x = n
        \/ /\ mesh.forwarding
           /\ \/ x \in DOMAIN b \ {m} /\ b[x].client
              \/ \E p : Feeds(n, u, l, b, m, p) /\ x \in b[p].inFilter
    BY <1>1
  <1> QED
    BY <1>2, OutgoingMembers

\* ... up to clients.
LEMMA OutgoingButClients ==
    ASSUME NEW n, NEW t, NEW k, NEW a, NEW u, NEW l, NEW b, NEW m,
           \A p \in DOMAIN a : a[p].client => p \in Client,
           \A p : Feeds(n, t, k, a, m, p) => Feeds(n, u, l, b, m, p) /\ a[p].inFilter = b[p].inFilter
    PROVE  OutgoingFilter(n, t, k, a, m) \subseteq OutgoingFilter(n, u, l, b, m) \cup Client
  <1> SUFFICES ASSUME NEW x \in OutgoingFilter(n, t, k, a, m), x \notin Client
               PROVE  x \in OutgoingFilter(n, u, l, b, m)
    OBVIOUS
  <1>1. \/ x = n
        \/ /\ mesh.forwarding
           /\ \/ x \in DOMAIN a \ {m} /\ a[x].client
              \/ \E p : Feeds(n, t, k, a, m, p) /\ x \in a[p].inFilter
    BY OutgoingMembers
  <1>2. \/ x = n
        \/ /\ mesh.forwarding
           /\ \E p : Feeds(n, u, l, b, m, p) /\ x \in b[p].inFilter
    BY <1>1
  <1> QED
    BY <1>2, OutgoingMembers

\* What n announces depends on no filter it has announced.
SameButOut(p, q) ==
    /\ p \in AdjacentPeer
    /\ p.supported = q.supported /\ p.client = q.client /\ p.roleSeq = q.roleSeq
    /\ p.inFilter = q.inFilter /\ p.inSeq = q.inSeq

LEMMA OutgoingSame ==
    ASSUME NEW n, NEW t, NEW k, NEW a, NEW b, NEW m, DOMAIN b = DOMAIN a,
           \A p \in DOMAIN a : SameButOut(b[p], a[p])
    PROVE  OutgoingFilter(n, t, k, b, m) = OutgoingFilter(n, t, k, a, m)
  <1>1. \A p \in DOMAIN a : b[p].client = a[p].client /\ b[p].inFilter = a[p].inFilter
    BY DEF SameButOut
  <1>2. \A p : Feeds(n, t, k, b, m, p) <=> Feeds(n, t, k, a, m, p)
    BY <1>1 DEF Feeds
  <1>3. \A p : Feeds(n, t, k, a, m, p) => p \in DOMAIN a
    BY DEF Feeds
  <1>4. OutgoingFilter(n, t, k, b, m) \subseteq OutgoingFilter(n, t, k, a, m)
    BY <1>1, <1>2, <1>3, OutgoingLess
  <1>5. OutgoingFilter(n, t, k, a, m) \subseteq OutgoingFilter(n, t, k, b, m)
    BY <1>1, <1>2, <1>3, OutgoingLess
  <1> QED
    BY <1>4, <1>5

\* A filter is right if it was just made, or if what feeds it is as it was.
LEMMA CurrentKept ==
    ASSUME NEW n, NEW t, NEW k, NEW a, NEW u, NEW l, NEW b, Current(n, t, k, a),
           \A p \in DOMAIN a : a[p].client => p \in Client,
           \A m \in Core \cap DOMAIN b :
              \/ b[m].outFilter = OutgoingFilter(n, u, l, b, m)
              \/ /\ m \in DOMAIN a /\ b[m].outFilter = a[m].outFilter
                 /\ \A p \in DOMAIN b \ {m} : b[p].client => p \in DOMAIN a /\ a[p].client
                 /\ \A p : Feeds(n, t, k, a, m, p) <=> Feeds(n, u, l, b, m, p)
                 /\ \A p : Feeds(n, t, k, a, m, p) => a[p].inFilter = b[p].inFilter
    PROVE  Current(n, u, l, b)
  <1> SUFFICES ASSUME NEW m \in Core \cap DOMAIN b
               PROVE  /\ OutgoingFilter(n, u, l, b, m) \subseteq b[m].outFilter
                      /\ b[m].outFilter \subseteq OutgoingFilter(n, u, l, b, m) \cup Client
    BY DEF Current
  <1>1. CASE b[m].outFilter = OutgoingFilter(n, u, l, b, m)
    BY <1>1
  <1>2. CASE /\ m \in DOMAIN a /\ b[m].outFilter = a[m].outFilter
             /\ \A p \in DOMAIN b \ {m} : b[p].client => p \in DOMAIN a /\ a[p].client
             /\ \A p : Feeds(n, t, k, a, m, p) <=> Feeds(n, u, l, b, m, p)
             /\ \A p : Feeds(n, t, k, a, m, p) => a[p].inFilter = b[p].inFilter
    <2>1. OutgoingFilter(n, u, l, b, m) \subseteq OutgoingFilter(n, t, k, a, m)
      BY <1>2, OutgoingLess
    <2>2. OutgoingFilter(n, t, k, a, m) \subseteq OutgoingFilter(n, u, l, b, m) \cup Client
      BY <1>2, OutgoingButClients
    <2>3. /\ OutgoingFilter(n, t, k, a, m) \subseteq a[m].outFilter
          /\ a[m].outFilter \subseteq OutgoingFilter(n, t, k, a, m) \cup Client
      BY <1>2 DEF Current
    <2> QED
      BY <1>2, <2>1, <2>2, <2>3
  <1> QED
    BY <1>1, <1>2

----------------------------------------------------------------------------
(* The two sides of a link of the tree *)

\* The nodes s reach no others over the links.
Closed(core, links, s) == \A z \in s : \A y \in core : {z, y} \in links => y \in s

\* A component is the least set that reaches no others.
LEMMA ComponentLeast ==
    ASSUME NEW core, core \subseteq Node, NEW n \in Node, NEW links,
           NEW s, n \in s, Closed(core, links, s)
    PROVE  Component(core, n, links) \subseteq s
  <1> DEFINE N == Cardinality(Node)
             b == Ball(core, n, links)
             S == {h \in 0..N : \A x \in b[h] : x \in s}
  <1>1. N \in Nat
    BY NodesCounted
  <1>2. b[0] = {n} /\ \A h \in 0..(N - 1) : b[h + 1] = Grow(core, links, b[h])
    <2>1. Grows(b, core, n, links)
      BY BallGrows
    <2> HIDE DEF b
    <2> QED
      BY <2>1 DEF Grows
  <1> HIDE DEF N, b
  <1>3. 0 \in S
    BY <1>1, <1>2
  <1>4. ASSUME NEW h \in 0..(N - 1), h \in S
        PROVE  h + 1 \in S
    <2>1. h + 1 \in 0..N /\ b[h + 1] = Grow(core, links, b[h])
      BY <1>1, <1>2
    <2>2. \A x \in b[h] : x \in s
      BY <1>4
    <2>3. \A x \in Grow(core, links, b[h]) : x \in s
      BY <2>2 DEF Grow, Closed
    <2> QED
      BY <2>1, <2>3
  <1>5. 0..N \subseteq S
    <2> HIDE DEF S
    <2> QED
      BY <1>1, <1>3, <1>4, Climb
  <1>6. N \in S
    BY <1>1, <1>5
  <1> QED
    BY <1>6 DEF Component, b, N

LEMMA ComponentNodes ==
    ASSUME NEW core, core \subseteq Node, NEW n \in Node, NEW links
    PROVE  n \in Component(core, n, links) /\ Component(core, n, links) \subseteq core \cup {n}
  <1>1. Closed(core, links, core \cup {n})
    BY DEF Closed
  <1>2. Component(core, n, links) \subseteq core \cup {n}
    BY <1>1, ComponentLeast
  <1>3. Ball(core, n, links)[0] = {n}
    BY BallGrows DEF Grows
  <1>4. 0 \in 0..Cardinality(Node)
    BY NodesCounted
  <1> QED
    BY <1>2, <1>3, <1>4, BallsNested

\* As many hops as there are nodes reach all that can be reached.
LEMMA ComponentClosed ==
    ASSUME NEW core, core \subseteq Node, NEW n \in Node, NEW links
    PROVE  Closed(core, links, Component(core, n, links))
  <1> DEFINE N == Cardinality(Node)
             b == Ball(core, n, links)
             S == {h \in 0..N : Cardinality(b[h]) > h}
             C == Component(core, n, links)
  <1>1. N \in Nat /\ IsFiniteSet(Node)
    BY NodesCounted, SpanningTreeAssumption
  <1>2. b[0] = {n} /\ \A h \in 0..(N - 1) : b[h + 1] = Grow(core, links, b[h])
    <2>1. Grows(b, core, n, links)
      BY BallGrows
    <2> HIDE DEF b
    <2> QED
      BY <2>1 DEF Grows
  <1>3. C \subseteq Node /\ \A h \in 0..N : b[h] \subseteq C
    <2>1. C \subseteq Node
      BY ComponentNodes
    <2>2. \A h \in 0..N : b[h] \subseteq C
      BY BallsNested
    <2> QED
      BY <2>1, <2>2
  <1>4. C = b[N]
    BY DEF Component
  <1>5. \A s : n \in s /\ Closed(core, links, s) => C \subseteq s
    BY ComponentLeast
  <1> HIDE DEF N, b, C
  <1>6. SUFFICES ASSUME ~Closed(core, links, C) PROVE FALSE
    BY DEF C
  <1>7. \A h \in 0..N : IsFiniteSet(b[h]) /\ Cardinality(b[h]) \in Nat
    <2> TAKE h \in 0..N
    <2>1. b[h] \subseteq Node
      BY <1>3
    <2>2. IsFiniteSet(b[h])
      BY <1>1, <2>1, FS_Subset
    <2> QED
      BY <2>2, FS_CardinalityType
  <1>8. 0 \in S
    <2>1. Cardinality(b[0]) = 1
      BY <1>2, FS_Singleton
    <2> QED
      BY <1>1, <2>1
  <1>9. ASSUME NEW h \in 0..(N - 1), h \in S
        PROVE  h + 1 \in S
    <2>1. h \in 0..N /\ h + 1 \in 0..N /\ b[h + 1] = Grow(core, links, b[h])
      BY <1>1, <1>2
    <2>2. b[h] \subseteq b[h + 1]
      BY <2>1 DEF Grow
    <2>3. b[h] # b[h + 1]
      <3> SUFFICES ASSUME b[h] = Grow(core, links, b[h]) PROVE FALSE
        BY <2>1
      <3>1. Closed(core, links, b[h])
        BY DEF Grow, Closed
      <3>2. n \in b[h]
        <4>1. Cardinality(b[h]) > h /\ h \in Nat
          BY <1>9
        <4> DEFINE Z == {i \in 0..N : n \in b[i]}
        <4>2. 0 \in Z
          BY <1>1, <1>2
        <4>3. \A i \in 0..(N - 1) : i \in Z => i + 1 \in Z
          <5> TAKE i \in 0..(N - 1)
          <5>1. i + 1 \in 0..N /\ b[i + 1] = Grow(core, links, b[i])
            BY <1>1, <1>2
          <5> QED
            BY <5>1 DEF Grow
        <4>4. 0..N \subseteq Z
          <5> HIDE DEF Z
          <5> QED
            BY <1>1, <4>2, <4>3, Climb
        <4> QED
          BY <2>1, <4>4
      <3>3. C = b[h]
        BY <1>3, <1>5, <2>1, <3>1, <3>2
      <3> QED
        BY <1>6, <3>1, <3>3
    <2>4. Cardinality(b[h]) < Cardinality(b[h + 1])
      <3>1. /\ Cardinality(b[h]) <= Cardinality(b[h + 1])
            /\ Cardinality(b[h]) = Cardinality(b[h + 1]) => b[h] = b[h + 1]
        BY <1>7, <2>1, <2>2, FS_Subset
      <3> QED
        BY <1>7, <2>1, <2>3, <3>1
    <2>5. Cardinality(b[h]) > h
      BY <1>9
    <2>6. Cardinality(b[h + 1]) > h + 1
      BY <1>7, <2>1, <2>4, <2>5
    <2> QED
      BY <2>1, <2>6
  <1>10. 0..N \subseteq S
    <2> HIDE DEF S
    <2> QED
      BY <1>1, <1>8, <1>9, Climb
  <1>11. Cardinality(b[N]) > N
    BY <1>1, <1>10
  <1>12. Cardinality(b[N]) <= N
    BY <1>1, <1>3, <1>4, FS_Subset DEF N
  <1> QED
    BY <1>1, <1>7, <1>11, <1>12

\* Node p is below node n in the tree a.
Kid(a, p, n) == Len(a[p]) > 1 /\ a[p][2] = n

LEMMA KidPath ==
    ASSUME TreeInv, NEW a, AtRest(Core, carrier, a), NEW p \in Core, NEW n, Kid(a, p, n)
    PROVE  /\ n \in Core /\ n # p /\ {p, n} \in carrier /\ Parent(a[p]) = n
           /\ Len(a[p]) = Len(a[n]) + 1
           /\ \A x : x \in Range(a[p]) <=> x = p \/ x \in Range(a[n])
           /\ p \notin Range(a[n])
  <1>1. Len(a[p]) > 1 /\ n = a[p][2]
    BY DEF Kid
  <1>2. n \in Core /\ Below(Core, carrier, a, p, n) /\ Len(a[p]) = Len(a[n]) + 1
    BY <1>1, ParentOf
  <1>3. {p, n} \in carrier /\ a[p] = <<p>> \o a[n]
    BY <1>2 DEF Below
  <1>4. n # p
    BY <1>3, CarrierHeld
  <1>5. /\ a[n] \in Seq(Node) /\ p \in Node /\ Len(a[p]) \in Nat /\ Len(a[n]) \in Nat
        /\ a[p][1] = p /\ IsInjective(a[p]) /\ a[p] \in Seq(Node)
    BY <1>2, Numbers DEF ValidAncestry
  <1>6. Parent(a[p]) = n
    BY <1>1, <1>5 DEF Parent
  <1>7. \A j \in 1..Len(a[n]) : a[n][j] = a[p][j + 1] /\ j + 1 \in 1..Len(a[p]) /\ j + 1 # 1
    BY <1>2, <1>3, <1>5
  <1>8. \A x : x \in Range(a[p]) <=> \E i \in 1..Len(a[p]) : x = a[p][i]
    BY <1>5 DEF Range
  <1>9. \A x : x \in Range(a[n]) <=> \E i \in 1..Len(a[n]) : x = a[n][i]
    BY <1>5 DEF Range
  <1>10. 1 \in 1..Len(a[p])
    BY <1>1, <1>5
  <1>11. \A i \in 1..Len(a[p]) : i = 1 \/ (i - 1 \in 1..Len(a[n]) /\ (i - 1) + 1 = i)
    BY <1>2, <1>5
  <1>12. ASSUME NEW x
         PROVE  x \in Range(a[p]) <=> x = p \/ x \in Range(a[n])
    <2>1. ASSUME x \in Range(a[p]) PROVE x = p \/ x \in Range(a[n])
      <3>1. PICK i \in 1..Len(a[p]) : x = a[p][i]
        BY <1>8, <2>1
      <3>2. CASE i = 1
        BY <1>5, <3>1, <3>2
      <3>3. CASE i - 1 \in 1..Len(a[n]) /\ (i - 1) + 1 = i
        <4>1. a[n][i - 1] = a[p][(i - 1) + 1]
          BY <1>7, <3>3
        <4> QED
          BY <1>9, <3>1, <3>3, <4>1
      <3> QED
        BY <1>11, <3>2, <3>3
    <2>2. ASSUME x = p \/ x \in Range(a[n]) PROVE x \in Range(a[p])
      <3>1. p \in Range(a[p])
        BY <1>5, <1>8, <1>10
      <3>2. ASSUME x \in Range(a[n]) PROVE x \in Range(a[p])
        BY <1>7, <1>8, <1>9, <3>2
      <3> QED
        BY <2>2, <3>1, <3>2
    <2> QED
      BY <2>1, <2>2
  <1>13. p \notin Range(a[n])
    <2> SUFFICES ASSUME p \in Range(a[n]) PROVE FALSE
      OBVIOUS
    <2>1. PICK j \in 1..Len(a[n]) : p = a[n][j]
      BY <1>9
    <2>2. a[p][j + 1] = a[p][1] /\ j + 1 \in DOMAIN a[p] /\ 1 \in DOMAIN a[p] /\ j + 1 # 1
      BY <1>5, <1>7, <1>10, <2>1
    <2> QED
      BY <1>5, <2>2 DEF IsInjective
  <1> QED
    BY <1>2, <1>3, <1>4, <1>6, <1>12, <1>13

\* A node below its parent.
LEMMA ParentKid ==
    ASSUME NEW a, AtRest(Core, carrier, a), NEW j \in Core, NEW i, Parent(a[j]) = i, i # j
    PROVE  Kid(a, j, i)
  <1>1. Len(a[j]) \in Nat \ {0} /\ a[j][1] = j
    BY Numbers
  <1>2. Len(a[j]) # 1 /\ a[j][2] = i
    BY <1>1, Zenon DEF Parent
  <1> DEFINE L == Len(a[j])
  <1>3. L \in Nat /\ L # 0 /\ L # 1
    BY <1>1, <1>2
  <1> HIDE DEF L
  <1>4. L > 1
    BY <1>3
  <1> QED
    BY <1>2, <1>4 DEF L, Kid

\* A link of the tree joins a node of the core and its parent.
LEMMA TreeLinkIs ==
    ASSUME TreeInv, NEW a, AtRest(Core, carrier, a), NEW n, NEW p
    PROVE  {n, p} \in TreeLinks(carrier, a) <=>
              n \in Core /\ p \in Core /\ (Kid(a, n, p) \/ Kid(a, p, n))
  <1>1. ASSUME {n, p} \in TreeLinks(carrier, a)
        PROVE  n \in Core /\ p \in Core /\ (Kid(a, n, p) \/ Kid(a, p, n))
    <2>1. {n, p} \in carrier
      BY <1>1 DEF TreeLinks
    <2>2. n # p
      BY <2>1, CarrierHeld
    <2>3. ASSUME NEW j \in Core, NEW i, Parent(a[j]) = i, i # j
          PROVE  i \in Core /\ Kid(a, j, i)
      <3>1. Kid(a, j, i)
        BY <2>3, ParentKid
      <3> QED
        BY <3>1, KidPath
    <2>4. PICK j \in {n, p} \cap Core : Parent(a[j]) \in {n, p} \ {j}
      BY <1>1 DEF TreeLinks
    <2>5. CASE j = n
      <3>1. n \in Core /\ Parent(a[n]) = p
        BY <2>4, <2>5
      <3> QED
        BY <2>2, <2>3, <3>1
    <2>6. CASE j = p
      <3>1. p \in Core /\ Parent(a[p]) = n
        BY <2>4, <2>6
      <3> QED
        BY <2>2, <2>3, <3>1
    <2> QED
      BY <2>4, <2>5, <2>6
  <1>2. ASSUME NEW i \in Core, NEW j, Kid(a, i, j)
        PROVE  {i, j} \in TreeLinks(carrier, a)
    <2>1. {i, j} \in carrier /\ Parent(a[i]) = j /\ j # i
      BY <1>2, KidPath
    <2> QED
      BY <2>1 DEF TreeLinks
  <1>3. {n, p} = {p, n}
    OBVIOUS
  <1> QED
    BY <1>1, <1>2, <1>3

\* The nodes of the core on n's side of its link to m.
Half(n, m, a) == Component(Core, n, TreeLinks(carrier, a) \ {{n, m}})

LEMMA HalfIs ==
    ASSUME NEW n \in Core, NEW m, NEW a
    PROVE  /\ n \in Half(n, m, a) /\ Half(n, m, a) \subseteq Core
           /\ Closed(Core, TreeLinks(carrier, a) \ {{n, m}}, Half(n, m, a))
           /\ \A s : n \in s /\ Closed(Core, TreeLinks(carrier, a) \ {{n, m}}, s) =>
                       Half(n, m, a) \subseteq s
  <1> DEFINE links == TreeLinks(carrier, a) \ {{n, m}}
  <1>1. Core \subseteq Node /\ n \in Node
    BY DEF Core
  <1> HIDE DEF links
  <1>2. /\ n \in Component(Core, n, links) /\ Component(Core, n, links) \subseteq Core \cup {n}
        /\ Closed(Core, links, Component(Core, n, links))
    BY <1>1, ComponentNodes, ComponentClosed
  <1>3. \A s : n \in s /\ Closed(Core, links, s) => Component(Core, n, links) \subseteq s
    BY <1>1, ComponentLeast
  <1> QED
    BY <1>2, <1>3 DEF Half, links

\* The two ends of a link of the tree are on different sides.
LEMMA Parted ==
    ASSUME TreeInv, NEW a, AtRest(Core, carrier, a), NEW p, NEW n,
           {p, n} \in TreeLinks(carrier, a)
    PROVE  n \notin Half(p, n, a)
  <1> DEFINE links == TreeLinks(carrier, a) \ {{p, n}}
  <1>1. p \in Core /\ n \in Core /\ (Kid(a, p, n) \/ Kid(a, n, p))
    BY TreeLinkIs
  <1>2. \A z, y : {z, y} \in links =>
           /\ z \in Core /\ y \in Core /\ (Kid(a, z, y) \/ Kid(a, y, z))
           /\ {z, y} # {p, n}
    BY TreeLinkIs
  <1>3. \A z, y, w : Kid(a, z, y) /\ Kid(a, z, w) => y = w
    BY DEF Kid
  <1>4. \A s : p \in s /\ Closed(Core, links, s) => Half(p, n, a) \subseteq s
    BY <1>1, HalfIs
  <1> HIDE DEF links
  <1>5. CASE Kid(a, p, n)
    <2> DEFINE s == {z \in Core : p \in Range(a[z])}
    <2>1. p \in s /\ n \notin s
      BY <1>1, <1>5, KidPath
    <2>2. Closed(Core, links, s)
      <3> SUFFICES ASSUME NEW z \in s, NEW y \in Core, {z, y} \in links PROVE p \in Range(a[y])
        BY DEF Closed
      <3>1. z \in Core /\ p \in Range(a[z]) /\ (Kid(a, z, y) \/ Kid(a, y, z)) /\ {z, y} # {p, n}
        BY <1>2
      <3>2. CASE Kid(a, y, z)
        BY <3>1, <3>2, KidPath
      <3>3. CASE Kid(a, z, y)
        <4>1. p = z \/ p \in Range(a[y])
          BY <3>1, <3>3, KidPath
        <4>2. p # z
          BY <1>3, <1>5, <3>1, <3>3
        <4> QED
          BY <4>1, <4>2
      <3> QED
        BY <3>1, <3>2, <3>3
    <2> HIDE DEF s
    <2> QED
      BY <1>4, <2>1, <2>2
  <1>6. CASE Kid(a, n, p)
    <2> DEFINE s == {z \in Core : n \notin Range(a[z])}
    <2>1. p \in s /\ n \notin s
      BY <1>1, <1>6, KidPath
    <2>2. Closed(Core, links, s)
      <3> SUFFICES ASSUME NEW z \in s, NEW y \in Core, {z, y} \in links PROVE n \notin Range(a[y])
        BY DEF Closed
      <3>1. z \in Core /\ n \notin Range(a[z]) /\ (Kid(a, z, y) \/ Kid(a, y, z)) /\ {z, y} # {p, n}
        BY <1>2
      <3>2. CASE Kid(a, z, y)
        BY <3>1, <3>2, KidPath
      <3>3. CASE Kid(a, y, z)
        <4>1. n \in Range(a[y]) => n = y \/ n \in Range(a[z])
          BY <3>3, KidPath
        <4>2. n # y
          BY <1>3, <1>6, <3>1, <3>3
        <4> QED
          BY <3>1, <4>1, <4>2
      <3> QED
        BY <3>1, <3>2, <3>3
    <2> HIDE DEF s
    <2> QED
      BY <1>4, <2>1, <2>2
  <1> QED
    BY <1>1, <1>5, <1>6

\* What is on a node's side of a link is on the far side of its other links of the tree.
LEMMA HalfDivides ==
    ASSUME TreeInv, NEW a, AtRest(Core, carrier, a), NEW n \in Core, NEW m, NEW x
    PROVE  x \in Half(n, m, a) <=>
              x = n \/ \E p : p # m /\ {n, p} \in TreeLinks(carrier, a) /\ x \in Half(p, n, a)
  <1> DEFINE tl == TreeLinks(carrier, a)
             s == {n} \cup UNION {Half(p, n, a) : p \in {q \in Core : q # m /\ {n, q} \in tl}}
  <1>1. \A p, q : {p, q} \in tl => p \in Core /\ q \in Core
    BY TreeLinkIs
  <1>2. ASSUME NEW p, p # m, {n, p} \in tl
        PROVE  /\ p \in Half(p, n, a) /\ Half(p, n, a) \subseteq Core
               /\ Closed(Core, tl \ {{p, n}}, Half(p, n, a))
               /\ \A r : p \in r /\ Closed(Core, tl \ {{p, n}}, r) => Half(p, n, a) \subseteq r
               /\ n \notin Half(p, n, a)
    <2>1. p \in Core /\ {p, n} \in tl
      <3>1. {p, n} = {n, p}
        OBVIOUS
      <3> QED
        BY <1>1, <1>2, <3>1
    <2> QED
      BY <2>1, HalfIs, Parted
  <1>3. /\ n \in Half(n, m, a) /\ Closed(Core, tl \ {{n, m}}, Half(n, m, a))
        /\ \A r : n \in r /\ Closed(Core, tl \ {{n, m}}, r) => Half(n, m, a) \subseteq r
    BY HalfIs
  <1> HIDE DEF tl
  <1>4. \A z : z \in s <=> z = n \/ \E p : p # m /\ {n, p} \in tl /\ z \in Half(p, n, a)
    BY <1>1
  <1> HIDE DEF s
  <1>5. Closed(Core, tl \ {{n, m}}, s)
    <2> SUFFICES ASSUME NEW z \in s, NEW y \in Core, {z, y} \in tl \ {{n, m}} PROVE y \in s
      BY DEF Closed
    <2>1. CASE z = n
      <3>1. y # m /\ {n, y} \in tl
        BY <2>1
      <3>2. y \in Half(y, n, a)
        BY <1>2, <3>1
      <3> QED
        BY <1>4, <3>1, <3>2
    <2>2. ASSUME NEW p, p # m, {n, p} \in tl, z \in Half(p, n, a) PROVE y \in s
      <3>1. CASE {z, y} = {p, n}
        <4>1. y = p \/ y = n
          BY <3>1
        <4>2. p \in Half(p, n, a)
          BY <1>2, <2>2
        <4> QED
          BY <1>4, <2>2, <4>1, <4>2
      <3>2. CASE {z, y} # {p, n}
        <4>1. Closed(Core, tl \ {{p, n}}, Half(p, n, a))
          BY <1>2, <2>2
        <4>2. y \in Half(p, n, a)
          BY <2>2, <3>2, <4>1 DEF Closed
        <4> QED
          BY <1>4, <2>2, <4>2
      <3> QED
        BY <3>1, <3>2
    <2> QED
      BY <1>4, <2>1, <2>2
  <1>6. Half(n, m, a) \subseteq s
    BY <1>3, <1>4, <1>5
  <1>7. ASSUME NEW p, p # m, {n, p} \in tl
        PROVE  Half(p, n, a) \subseteq Half(n, m, a)
    <2> DEFINE r == Half(p, n, a) \cap Half(n, m, a)
    <2>1. p \in r
      <3>1. {n, p} \in tl \ {{n, m}} /\ p \in Core
        BY <1>1, <1>7
      <3> QED
        BY <1>2, <1>3, <1>7, <3>1 DEF Closed
    <2>2. Closed(Core, tl \ {{p, n}}, r)
      <3> SUFFICES ASSUME NEW z \in r, NEW y \in Core, {z, y} \in tl \ {{p, n}}
                   PROVE  y \in r
        BY DEF Closed
      <3>1. y \in Half(p, n, a)
        BY <1>2, <1>7 DEF Closed
      <3>2. z # n /\ y # n
        BY <1>2, <1>7, <3>1
      <3>3. {z, y} # {n, m}
        BY <3>2
      <3> QED
        BY <1>3, <3>1, <3>3 DEF Closed
    <2> HIDE DEF r
    <2>3. Half(p, n, a) \subseteq r
      BY <1>2, <1>7, <2>1, <2>2
    <2> QED
      BY <2>3 DEF r
  <1> QED
    BY <1>3, <1>4, <1>6, <1>7 DEF tl

\* With its clients, a node's side of a link is what is on the far side of its other links
\* of the tree, and the clients it has itself.
LEMMA SideMembers ==
    ASSUME TreeInv, mesh.forwarding, NEW a, NEW n \in Core, NEW m \in Core, NEW x
    PROVE  x \in Side(n, m, carrier, a) <=>
              \/ x \in Half(n, m, a)
              \/ x \in Client /\ \E j \in Half(n, m, a) : {j, x} \in carrier
  <1>1. Half(n, m, a) \subseteq Node
    BY HalfIs DEF Core
  <1>2. \A j : {j, x} \in carrier => x \in Node
    BY CarrierHeld
  <1>3. m \notin Client
    BY DEF Core
  <1> DEFINE half == Component(Core, n, TreeLinks(carrier, a) \ {{n, m}})
  <1>4. Side(n, m, carrier, a) =
           {y \in Node : \/ y \in half
                         \/ y \in Client \ {m} /\ \E j \in half : {j, y} \in carrier}
    BY Zenon DEF Side
  <1>5. half = Half(n, m, a)
    BY DEF Half
  <1> HIDE DEF half
  <1>6. x \in Side(n, m, carrier, a) <=>
           /\ x \in Node
           /\ \/ x \in half
              \/ x \in Client \ {m} /\ \E j \in half : {j, x} \in carrier
    BY <1>4, Zenon
  <1> QED
    BY <1>1, <1>2, <1>3, <1>5, <1>6

LEMMA SideDivides ==
    ASSUME TreeInv, mesh.forwarding, NEW a, AtRest(Core, carrier, a), NEW n \in Core,
           NEW m \in Core, NEW x
    PROVE  x \in Side(n, m, carrier, a) <=>
              \/ x = n
              \/ x \in Client /\ {n, x} \in carrier
              \/ \E p : p # m /\ {n, p} \in TreeLinks(carrier, a) /\ x \in Side(p, n, carrier, a)
  <1> DEFINE On(p) == p # m /\ {n, p} \in TreeLinks(carrier, a)
  <1>1. \A z : z \in Half(n, m, a) <=> z = n \/ \E p : On(p) /\ z \in Half(p, n, a)
    BY HalfDivides
  <1>2. \A p : On(p) => p \in Core
    BY TreeLinkIs
  <1>3. \A p : On(p) => (x \in Side(p, n, carrier, a) <=>
              \/ x \in Half(p, n, a)
              \/ x \in Client /\ \E j \in Half(p, n, a) : {j, x} \in carrier)
    BY <1>2, SideMembers
  <1>4. x \in Side(n, m, carrier, a) <=>
              \/ x \in Half(n, m, a)
              \/ x \in Client /\ \E j \in Half(n, m, a) : {j, x} \in carrier
    BY SideMembers
  <1> HIDE DEF On
  <1>5. x \in Side(n, m, carrier, a) <=>
              \/ x = n
              \/ x \in Client /\ {n, x} \in carrier
              \/ \E p : On(p) /\ x \in Side(p, n, carrier, a)
    BY <1>1, <1>3, <1>4
  <1> QED
    BY <1>5 DEF On

\* At rest a node has the peers its links lead to, and its tree peers are those over links
\* of the tree.
LEMMA QuietPeers ==
    ASSUME TreeInv, Telling, Quiet, NEW n \in Core,
           NEW a, a = [j \in Node |-> tree[j].ancestry]
    PROVE  /\ DOMAIN adj[n] = {p \in Node : {n, p} \in carrier}
           /\ \A p \in Core : IsTreePeer(n, tree[n], known[n], p) <=>
                                 {n, p} \in TreeLinks(carrier, a)
  <1>1. AtRest(Core, carrier, a)
    BY QuietIsAtRest
  <1>2. n \in Node /\ a[n] = tree[n].ancestry
    BY DEF Core
  <1>3. DOMAIN adj[n] = {p \in Node : {n, p} \in carrier}
    <2>1. DOMAIN adj[n] \subseteq Node
      BY <1>2, Present DEF NodeOK
    <2>2. \A p \in DOMAIN adj[n] : {n, p} \in carrier
      BY <1>2 DEF Quiet
    <2>3. \A p : {n, p} \in carrier => p \in DOMAIN adj[n]
      BY CarrierHeld
    <2> QED
      BY <2>1, <2>2, <2>3
  <1>4. /\ DOMAIN known[n] = {m \in Core : {n, m} \in carrier}
        /\ \A m \in DOMAIN known[n] : known[n][m].ancestry = tree[m].ancestry
    BY QuietKnows
  <1>5. ASSUME NEW p \in Core
        PROVE  IsTreePeer(n, tree[n], known[n], p) <=> {n, p} \in TreeLinks(carrier, a)
    <2>1. {n, p} \in TreeLinks(carrier, a) <=> Kid(a, n, p) \/ Kid(a, p, n)
      BY <1>1, TreeLinkIs
    <2>2. (Parent(a[n]) # n /\ Parent(a[n]) = p) <=> Kid(a, n, p)
      <3>1. ASSUME Kid(a, n, p) PROVE Parent(a[n]) # n /\ Parent(a[n]) = p
        <4>1. p # n /\ Parent(a[n]) = p
          BY <1>1, <3>1, KidPath
        <4> QED
          BY <4>1
      <3>2. Parent(a[n]) # n /\ Parent(a[n]) = p => Kid(a, n, p)
        BY <1>1, ParentKid
      <3> QED
        BY <3>1, <3>2
    <2>3. a[p] = tree[p].ancestry
      BY DEF Core
    <2>4. p \in DOMAIN known[n] /\ Parent(known[n][p].ancestry) = n <=> Kid(a, p, n)
      <3>1. ASSUME Kid(a, p, n) PROVE p \in DOMAIN known[n] /\ Parent(known[n][p].ancestry) = n
        <4>1. {p, n} \in carrier /\ Parent(a[p]) = n
          BY <1>1, <3>1, KidPath
        <4>2. {n, p} = {p, n}
          OBVIOUS
        <4> QED
          BY <1>4, <2>3, <4>1, <4>2
      <3>2. ASSUME p \in DOMAIN known[n], Parent(known[n][p].ancestry) = n PROVE Kid(a, p, n)
        <4>1. {n, p} \in carrier /\ Parent(a[p]) = n
          BY <1>4, <2>3, <3>2
        <4>2. n # p
          BY <4>1, CarrierHeld
        <4> QED
          BY <1>1, <4>1, <4>2, ParentKid
      <3> QED
        BY <3>1, <3>2
    <2> QED
      BY <1>2, <2>1, <2>2, <2>4 DEF IsTreePeer
  <1> QED
    BY <1>3, <1>5

\* What a node at rest that knows its clients announces.
LEMMA QuietOutgoing ==
    ASSUME TreeInv, Telling, Quiet, NEW n \in Core, NEW m \in Core, NEW x,
           \A p \in DOMAIN adj[n] : adj[n][p].client <=> p \in Client,
           NEW a, a = [j \in Node |-> tree[j].ancestry]
    PROVE  x \in OutgoingFilter(n, tree[n], known[n], adj[n], m) <=>
              \/ x = n
              \/ /\ mesh.forwarding
                 /\ \/ x \in Client /\ {n, x} \in carrier
                    \/ \E p : p # m /\ {n, p} \in TreeLinks(carrier, a) /\ x \in adj[n][p].inFilter
  <1>1. AtRest(Core, carrier, a)
    BY QuietIsAtRest
  <1>2. /\ DOMAIN adj[n] = {p \in Node : {n, p} \in carrier}
        /\ \A p \in Core : IsTreePeer(n, tree[n], known[n], p) <=>
                              {n, p} \in TreeLinks(carrier, a)
    BY QuietPeers
  <1>3. \A p : {n, p} \in TreeLinks(carrier, a) => p \in Core /\ {n, p} \in carrier
    BY <1>1, TreeLinkIs DEF TreeLinks
  <1>4. Core = Node \ Client
    BY DEF Core
  <1> HIDE DEF Core, Client
  <1>5. \A p : Feeds(n, tree[n], known[n], adj[n], m, p) <=>
                  p # m /\ {n, p} \in TreeLinks(carrier, a)
    BY <1>2, <1>3, <1>4 DEF Feeds
  <1>6. (x \in DOMAIN adj[n] \ {m} /\ adj[n][x].client) <=> x \in Client /\ {n, x} \in carrier
    <2>1. \A j : {n, j} \in carrier => j \in Node
      BY CarrierHeld
    <2> QED
      BY <1>2, <1>4, <2>1
  <1> QED
    BY <1>5, <1>6, OutgoingMembers

\* At rest what a node has of a peer's filter is what the peer made of the filters it has.
LEMMA QuietFilters ==
    ASSUME TreeInv, Telling, Filtering, Quiet, NEW n \in Core, NEW m \in Core,
           {n, m} \in carrier
    PROVE  /\ \A p \in DOMAIN adj[n] : adj[n][p].client <=> p \in Client
           /\ OutgoingFilter(n, tree[n], known[n], adj[n], m) \subseteq adj[m][n].inFilter
           /\ adj[m][n].inFilter \subseteq
                 OutgoingFilter(n, tree[n], known[n], adj[n], m) \cup Client
  <1>1. n \in Node /\ m \in Node /\ m \in DOMAIN adj[n] /\ n \in DOMAIN adj[m]
    BY CarrierHeld
  <1>2. net = {} /\ ~owed[n]
    BY <1>1 DEF Quiet
  <1>3. ASSUME NEW p \in DOMAIN adj[n]
        PROVE  adj[n][p].client <=> p \in Client
    <2>1. RoleFits(adj[n][p], p) /\ {n, p} \in carrier
      BY <1>1 DEF Filtering, Quiet
    <2>2. ASSUME p \in Client PROVE adj[n][p].client
      <3>1. Asked(n, p, adj[n][p], adj[p][n], net)
        BY <2>1, <2>2 DEF Filtering
      <3> QED
        BY <1>2, <3>1 DEF Asked
    <2> QED
      BY <2>1, <2>2 DEF RoleFits
  <1>4. adj[m][n].inFilter = adj[n][m].outFilter
    <2>1. RoleFits(adj[m][n], n)
      BY <1>1 DEF Filtering
    <2>2. adj[m][n].inSeq \in Nat
      BY <2>1 DEF RoleFits, AdjacentPeer
    <2>3. PICK s \in Nat : LastSent(s, n, m, adj[n][m], adj[m][n], net)
      BY DEF Filtering, Delivers
    <2> QED
      BY <1>2, <2>2, <2>3 DEF LastSent
  <1>5. Current(n, tree[n], known[n], adj[n])
    BY <1>2 DEF Filtering
  <1> QED
    BY <1>1, <1>3, <1>4, <1>5 DEF Current

\* The nodes below n are counted from the leaves, the ones above it from the root.
Rank(a, n, m) ==
    IF Kid(a, n, m) THEN Cardinality(Node) - Len(a[n]) ELSE Cardinality(Node) + 1 + Len(a[n])

LEMMA RankLess ==
    ASSUME TreeInv, NEW a, AtRest(Core, carrier, a), NEW n \in Core, NEW m, NEW p,
           {n, p} \in TreeLinks(carrier, a), p # m
    PROVE  Rank(a, n, m) \in Nat /\ Rank(a, p, n) \in Nat /\ Rank(a, p, n) < Rank(a, n, m)
  <1> DEFINE N == Cardinality(Node)
             ln == Len(a[n])
             lp == Len(a[p])
  <1>1. p \in Core /\ (Kid(a, n, p) \/ Kid(a, p, n))
    BY TreeLinkIs
  <1>2. N \in Nat /\ ln \in Nat \ {0} /\ lp \in Nat \ {0} /\ ln <= N /\ lp <= N
    BY <1>1, NodesCounted, PathFits, Numbers
  <1>3. /\ Rank(a, n, m) = IF Kid(a, n, m) THEN N - ln ELSE N + 1 + ln
        /\ Rank(a, p, n) = IF Kid(a, p, n) THEN N - lp ELSE N + 1 + lp
    BY DEF Rank
  <1>4. Kid(a, p, n) => lp = ln + 1
    BY <1>1, KidPath
  <1>5. Kid(a, n, p) => ln = lp + 1
    BY <1>1, KidPath
  <1>6. Kid(a, n, m) => ~Kid(a, n, p)
    BY DEF Kid
  <1> HIDE DEF N, ln, lp
  <1>7. CASE Kid(a, p, n)
    BY <1>2, <1>3, <1>4, <1>7
  <1>8. CASE Kid(a, n, p)
    <2>1. ~Kid(a, n, m)
      BY <1>6, <1>8
    <2>2. ~Kid(a, p, n)
      BY <1>2, <1>4, <1>5, <1>8
    <2> QED
      BY <1>2, <1>3, <1>5, <1>8, <2>1, <2>2
  <1> QED
    BY <1>1, <1>7, <1>8

LEMMA RestIsFiltered == TreeInv /\ Telling /\ Filtering => SettledFilters
  <1> SUFFICES ASSUME TreeInv, Telling, Filtering, Quiet
               PROVE  LET a == [n \in Node |-> tree[n].ancestry]
                      IN  \A n, m \in Core :
                             m \in DOMAIN adj[n] =>
                                 /\ Side(n, m, carrier, a) \subseteq adj[m][n].inFilter
                                 /\ adj[m][n].inFilter \subseteq Side(n, m, carrier, a) \cup Client
    BY DEF SettledFilters
  <1> DEFINE a == [n \in Node |-> tree[n].ancestry]
             Right(n, m) == /\ Side(n, m, carrier, a) \subseteq adj[m][n].inFilter
                            /\ adj[m][n].inFilter \subseteq Side(n, m, carrier, a) \cup Client
  <1>1. AtRest(Core, carrier, a)
    BY QuietIsAtRest
  <1>2. a = [j \in Node |-> tree[j].ancestry]
    OBVIOUS
  <1> HIDE DEF a
  <1>3. \A n, m \in Core : m \in DOMAIN adj[n] => {n, m} \in carrier
    BY DEF Quiet, Core
  <1>4. CASE ~mesh.forwarding
    <2> SUFFICES ASSUME NEW n \in Core, NEW m \in Core, m \in DOMAIN adj[n]
                 PROVE  Right(n, m)
      BY DEF a
    <2>1. Side(n, m, carrier, a) = {n} /\ OutgoingFilter(n, tree[n], known[n], adj[n], m) = {n}
      BY <1>4 DEF Side, OutgoingFilter
    <2>2. {n, m} \in carrier
      BY <1>3
    <2>3. /\ OutgoingFilter(n, tree[n], known[n], adj[n], m) \subseteq adj[m][n].inFilter
          /\ adj[m][n].inFilter \subseteq
                 OutgoingFilter(n, tree[n], known[n], adj[n], m) \cup Client
      BY <2>2, QuietFilters
    <2> QED
      BY <2>1, <2>3
  <1>5. CASE mesh.forwarding
    <2>1. ASSUME NEW n \in Core, NEW m \in Core, {n, m} \in carrier,
                 \A p : p # m /\ {n, p} \in TreeLinks(carrier, a) => Right(p, n)
          PROVE  Right(n, m)
      <3> DEFINE out == OutgoingFilter(n, tree[n], known[n], adj[n], m)
                 On(p) == p # m /\ {n, p} \in TreeLinks(carrier, a)
      <3>1. /\ out \subseteq adj[m][n].inFilter /\ adj[m][n].inFilter \subseteq out \cup Client
            /\ \A p \in DOMAIN adj[n] : adj[n][p].client <=> p \in Client
        BY <2>1, QuietFilters
      <3>2. \A x : x \in out <=> \/ x = n
                                 \/ x \in Client /\ {n, x} \in carrier
                                 \/ \E p : On(p) /\ x \in adj[n][p].inFilter
        BY <1>2, <1>5, <3>1, QuietOutgoing
      <3>3. \A x : x \in Side(n, m, carrier, a) <=>
                                 \/ x = n
                                 \/ x \in Client /\ {n, x} \in carrier
                                 \/ \E p : On(p) /\ x \in Side(p, n, carrier, a)
        BY <1>1, <1>5, SideDivides
      <3>4. \A p : On(p) => /\ Side(p, n, carrier, a) \subseteq adj[n][p].inFilter
                            /\ adj[n][p].inFilter \subseteq Side(p, n, carrier, a) \cup Client
        BY <2>1
      <3> HIDE DEF out, On
      <3>5. Side(n, m, carrier, a) \subseteq out
        BY <3>2, <3>3, <3>4
      <3>6. out \subseteq Side(n, m, carrier, a) \cup Client
        BY <3>2, <3>3, <3>4
      <3> QED
        BY <3>1, <3>5, <3>6
    <2> DEFINE Wrong == {i \in Nat : \E n, m \in Core :
                            {n, m} \in carrier /\ ~Right(n, m) /\ i = Rank(a, n, m)}
    <2> HIDE DEF Right
    <2>2. ASSUME NEW n \in Core, NEW m \in Core, {n, m} \in carrier, ~Right(n, m)
          PROVE  /\ Rank(a, n, m) \in Nat
                 /\ \E p : /\ p \in Core /\ {p, n} \in carrier /\ ~Right(p, n)
                           /\ Rank(a, p, n) \in Nat /\ Rank(a, p, n) < Rank(a, n, m)
      <3>1. PICK p : p # m /\ {n, p} \in TreeLinks(carrier, a) /\ ~Right(p, n)
        BY <2>1, <2>2
      <3>2. p \in Core /\ {p, n} \in carrier
        <4>1. {n, p} = {p, n}
          OBVIOUS
        <4> QED
          BY <1>1, <3>1, <4>1, TreeLinkIs DEF TreeLinks
      <3> QED
        BY <1>1, <3>1, <3>2, RankLess
    <2>3. Wrong = {}
      <3> SUFFICES ASSUME Wrong # {} PROVE FALSE
        OBVIOUS
      <3>1. Wrong \in SUBSET Nat
        OBVIOUS
      <3>2. PICK i \in Wrong : \A j \in Wrong : i <= j
        <4> HIDE DEF Wrong
        <4> QED
          BY <3>1, LeastNumber
      <3>3. PICK n \in Core, m \in Core : {n, m} \in carrier /\ ~Right(n, m) /\ i = Rank(a, n, m)
        BY <3>2
      <3>4. PICK p : /\ p \in Core /\ {p, n} \in carrier /\ ~Right(p, n)
                     /\ Rank(a, p, n) \in Nat /\ Rank(a, p, n) < Rank(a, n, m)
        BY <2>2, <3>3
      <3>5. Rank(a, p, n) \in Wrong
        BY <3>4
      <3>6. i \in Nat /\ i <= Rank(a, p, n)
        BY <3>1, <3>2, <3>5
      <3> QED
        BY <3>3, <3>4, <3>6
    <2>4. \A n, m \in Core : {n, m} \in carrier => Right(n, m)
      <3> SUFFICES ASSUME NEW n \in Core, NEW m \in Core, {n, m} \in carrier, ~Right(n, m)
                   PROVE  FALSE
        OBVIOUS
      <3>1. Rank(a, n, m) \in Nat
        BY <2>2
      <3> QED
        BY <2>3, <3>1
    <2> QED
      BY <1>3, <2>4 DEF Right, a
  <1> QED
    BY <1>4, <1>5

\* A mesh starts with the filters that follow from its tree.
LEMMA FilteringInit == TreeInit => Filtering
  <1> SUFFICES ASSUME TreeInit PROVE Filtering
    OBVIOUS
  <1>1. PICK s \in mesh.starts :
          /\ carrier = s.up
          /\ tree = [n \in Node |-> [seq |-> 1, ancestry |-> s.paths[n]]]
          /\ adj = [n \in Node |-> [m \in Neighbours(n, s.up) |->
                                        SettledPeer(n, m, s.up, s.paths)]]
    BY DEF TreeInit
  <1>2. /\ mesh \in Meshes /\ net = {} /\ TreeInv /\ Telling
        /\ count = [n \in Node |-> [role |-> 1, filter |-> 1]]
        /\ owed = [n \in Node |-> FALSE]
    BY TreeInitOK, TellingInit DEF TreeInit
  <1> DEFINE a == [n \in Node |-> tree[n].ancestry]
  <1>3. s.paths = a
    <2>1. s.paths \in [Node -> Seq(Node)]
      BY <1>2, SpanningTreeAssumption
    <2>2. \A n \in Node : a[n] = s.paths[n]
      BY <1>1
    <2> QED
      BY <2>1, <2>2
  <1> HIDE DEF a
  <1>4. \A n \in Node : /\ DOMAIN adj[n] = {m \in Node : {n, m} \in carrier}
                        /\ \A m \in DOMAIN adj[n] : adj[n][m] = SettledPeer(n, m, carrier, a)
    BY <1>1, <1>3 DEF Neighbours
  <1>5. Quiet
    <2>1. \A n \in Node : \A m \in DOMAIN adj[n] : {n, m} \in carrier
      BY <1>4
    <2> QED
      BY <1>2, <2>1 DEF Quiet
  <1>6. AtRest(Core, carrier, a)
    BY <1>2, <1>5, QuietIsAtRest DEF a
  <1>7. \A n, m \in Node : Side(n, m, carrier, a) \subseteq Node
    BY DEF Side
  <1>8. ASSUME NEW n \in Node, NEW m \in DOMAIN adj[n]
        PROVE  /\ RoleFits(adj[n][m], m)
               /\ adj[n][m].client <=> m \in Client
               /\ m \in Core => adj[n][m].inFilter = Side(m, n, carrier, a) /\ adj[n][m].inSeq = 1
               /\ n \in Core => adj[n][m].outFilter = Side(n, m, carrier, a)
    <2> DEFINE p == SettledPeer(n, m, carrier, a)
    <2>1. adj[n][m] = p /\ m \in Node
      BY <1>4
    <2>2. Side(n, m, carrier, a) \in SUBSET Node /\ Side(m, n, carrier, a) \in SUBSET Node
      BY <1>7, <2>1
    <2>3. p \in AdjacentPeer
      BY <2>2 DEF SettledPeer, AdjacentPeer
    <2>4. /\ p.client = (m \in Client) /\ p.roleSeq = 1
          /\ m \notin Client => p.inFilter = Side(m, n, carrier, a) /\ p.inSeq = 1
          /\ n \notin Client => p.outFilter = Side(n, m, carrier, a)
      BY DEF SettledPeer
    <2> HIDE DEF p
    <2> QED
      BY <2>1, <2>3, <2>4 DEF RoleFits, Core
  <1>9. ASSUME NEW n \in Core, NEW c \in Client, {n, c} \in carrier
        PROVE  Asked(n, c, adj[n][c], adj[c][n], net)
    <2>1. n \in Node /\ c \in DOMAIN adj[n]
      BY <1>2, <1>9, CarrierHeld
    <2> QED
      BY <1>8, <2>1 DEF Asked
  <1>10. ASSUME NEW n \in Core, NEW m \in Core, {n, m} \in carrier
         PROVE  Delivers(n, m, adj[n][m], adj[m][n], count[n].filter, net)
    <2>1. n \in Node /\ m \in Node /\ m \in DOMAIN adj[n] /\ n \in DOMAIN adj[m]
      BY <1>2, <1>10, CarrierHeld
    <2>2. adj[m][n].inSeq = 1 /\ adj[m][n].inFilter = adj[n][m].outFilter /\ count[n].filter = 1
      BY <1>2, <1>8, <2>1
    <2>3. LastSent(1, n, m, adj[n][m], adj[m][n], net)
      BY <1>2, <2>2 DEF LastSent
    <2> QED
      BY <2>2, <2>3 DEF Delivers
  <1>11. ASSUME NEW n \in Core
         PROVE  Current(n, tree[n], known[n], adj[n])
    <2> SUFFICES ASSUME NEW m \in Core \cap DOMAIN adj[n]
                 PROVE  OutgoingFilter(n, tree[n], known[n], adj[n], m) = adj[n][m].outFilter
      BY DEF Current
    <2>1. n \in Node /\ m \in Core
      BY DEF Core
    <2>2. adj[n][m].outFilter = Side(n, m, carrier, a)
      BY <1>8, <2>1
    <2>3. \A p \in DOMAIN adj[n] : adj[n][p].client <=> p \in Client
      BY <1>8, <2>1
    <2> DEFINE out == OutgoingFilter(n, tree[n], known[n], adj[n], m)
               On(p) == p # m /\ {n, p} \in TreeLinks(carrier, a)
    <2>4. CASE mesh.forwarding
      <3>1. \A x : x \in out <=> \/ x = n
                                 \/ x \in Client /\ {n, x} \in carrier
                                 \/ \E p : On(p) /\ x \in adj[n][p].inFilter
        BY <1>2, <1>5, <2>1, <2>3, <2>4, QuietOutgoing DEF a
      <3>2. \A x : x \in Side(n, m, carrier, a) <=>
                                 \/ x = n
                                 \/ x \in Client /\ {n, x} \in carrier
                                 \/ \E p : On(p) /\ x \in Side(p, n, carrier, a)
        BY <1>2, <1>6, <2>1, <2>4, SideDivides
      <3>3. ASSUME NEW p, On(p) PROVE adj[n][p].inFilter = Side(p, n, carrier, a)
        <4>1. p \in Core /\ {n, p} \in carrier
          BY <1>2, <1>6, <3>3, TreeLinkIs DEF TreeLinks
        <4>2. p \in DOMAIN adj[n]
          BY <1>2, <4>1, CarrierHeld
        <4> QED
          BY <1>8, <2>1, <4>1, <4>2
      <3> HIDE DEF out, On
      <3>4. out = Side(n, m, carrier, a)
        BY <3>1, <3>2, <3>3
      <3> QED
        BY <2>2, <3>4 DEF out
    <2>5. CASE ~mesh.forwarding
      BY <2>2, <2>5 DEF OutgoingFilter, Side
    <2> QED
      BY <2>4, <2>5
  <1> QED
    BY <1>8, <1>9, <1>10, <1>11 DEF Filtering

----------------------------------------------------------------------------
(* What a handler announces *)

LEMMA AnnouncedPeer ==
    ASSUME NEW n \in Node, NEW t, NEW k, NEW a, NEW ms, NEW m \in DOMAIN a, a[m] \in AdjacentPeer,
           NEW out, out = OutgoingFilter(n, t, k, a, m), out \in SUBSET Node,
           NEW b, b = Announced(n, t, k, a, ms)[m]
    PROVE  /\ SameButOut(b, a[m])
           /\ b.outFilter = IF n \in Core /\ m \in ms THEN out ELSE a[m].outFilter
           /\ m \in FilterChanged(n, t, k, a, ms) <=>
                 m \in ms /\ n \in Core /\ b.outFilter # a[m].outFilter
  <1>1. m \in FilterChanged(n, t, k, a, ms) <=> m \in ms /\ n \in Core /\ out # a[m].outFilter
    BY DEF FilterChanged, Core
  <1>2. b = IF m \in FilterChanged(n, t, k, a, ms)
            THEN [a[m] EXCEPT !.outFilter = out] ELSE a[m]
    BY DEF Announced
  <1>3. CASE m \in FilterChanged(n, t, k, a, ms)
    <2>1. b = [a[m] EXCEPT !.outFilter = out]
      BY <1>2, <1>3
    <2>2. SameButOut(b, a[m]) /\ b.outFilter = out
      BY <2>1 DEF SameButOut, AdjacentPeer
    <2> QED
      BY <1>1, <1>3, <2>2
  <1>4. CASE m \notin FilterChanged(n, t, k, a, ms)
    <2>1. b = a[m]
      BY <1>2, <1>4
    <2>2. SameButOut(b, a[m])
      BY <2>1 DEF SameButOut
    <2> QED
      BY <1>1, <1>4, <2>1, <2>2
  <1> QED
    BY <1>3, <1>4

\* What a handler of node n has done that became t, k, a and announced its filters to the
\* peers ms.
Filtered(n, rcvd, t, k, a, ms) ==
    /\ tree'[n] = t /\ known'[n] = k /\ DOMAIN adj'[n] = DOMAIN a
    /\ \A m \in DOMAIN a :
        /\ SameButOut(adj'[n][m], a[m])
        /\ adj'[n][m].outFilter = IF n \in Core /\ m \in ms
                                  THEN OutgoingFilter(n, t, k, a, m) ELSE a[m].outFilter
        /\ adj'[n][m].outFilter # a[m].outFilter =>
              /\ count'[n].filter = count[n].filter + 1
              /\ {n, m} \in carrier =>
                    FilterFrame(n, m, count[n].filter + 1, adj'[n][m].outFilter) \in net'
    /\ \A j \in Node \ {n} : /\ tree'[j] = tree[j] /\ known'[j] = known[j]
                             /\ adj'[j] = adj[j] /\ count'[j] = count[j]
    /\ count'[n].filter \in {count[n].filter, count[n].filter + 1}
    /\ net \ rcvd \subseteq net'
    /\ \A msg \in net' : msg.type = "FilterAnnounce" =>
        \/ msg \in net \ rcvd
        \/ /\ msg.from = n /\ msg.to \in DOMAIN a
           /\ adj'[n][msg.to].outFilter # a[msg.to].outFilter
           /\ msg.seq = count[n].filter + 1 /\ msg.filter = adj'[n][msg.to].outFilter

LEMMA TreeFramesAre ==
    ASSUME NEW n, NEW t, NEW a, NEW ms, NEW c, NEW msg \in TreeFrames(n, t, a, ms, c)
    PROVE  msg.type # "FilterAnnounce"
  <1>1. \E m, seq, e : \/ msg = Frame(n, m, "ClientOnly", seq, <<>>, {})
                       \/ msg = Frame(n, m, "ClientSupport", seq, <<>>, {})
                       \/ msg = Frame(n, m, "TreeAnnounce", seq, e, {})
    BY DEF TreeFrames, RoleFrames
  <1> QED
    BY <1>1 DEF Frame

LEMMA BecomeFiltered ==
    ASSUME TreeInv, NEW n \in Node, NEW rcvd, NEW t, NEW k, NEW a, NEW told,
           \A p \in DOMAIN a : p \in Node /\ a[p] \in AdjacentPeer,
           NEW ms \in SUBSET DOMAIN a, Become(n, rcvd, t, k, a, told, ms)
    PROVE  Filtered(n, rcvd, t, k, a, ms)
  <1> DEFINE sent == FilterFrames(n, t, k, a, ms, count[n])
             others == TreeFrames(n, t, a, told, count[n])
             fc == FilterChanged(n, t, k, a, ms)
             c == count[n].filter
  <1>1. /\ DOMAIN tree = Node /\ DOMAIN known = Node /\ DOMAIN adj = Node /\ DOMAIN count = Node
        /\ c \in Nat
    BY DEF TreeInv, Tables
  <1>2. /\ tree' = [tree EXCEPT ![n] = t] /\ known' = [known EXCEPT ![n] = k]
        /\ adj' = [adj EXCEPT ![n] = Announced(n, t, k, a, ms)]
        /\ net' = (net \ rcvd) \cup Carried(others \cup sent)
    BY DEF Become
  <1>3. /\ \A j \in Node \ {n} : count'[j] = count[j]
        /\ count'[n].filter = IF fc = {} THEN c ELSE c + 1
    <2>1. count' = [count EXCEPT ![n] =
           [role |-> @.role + RoleCount(n, a, told),
            filter |-> IF fc = {} THEN @.filter ELSE @.filter + 1]]
      BY DEF Become
    <2> HIDE DEF fc
    <2> QED
      BY <1>1, <2>1
  <1>4. adj'[n] = Announced(n, t, k, a, ms) /\ DOMAIN adj'[n] = DOMAIN a
    BY <1>1, <1>2 DEF Announced
  <1>5. /\ tree'[n] = t /\ known'[n] = k
        /\ \A j \in Node \ {n} : tree'[j] = tree[j] /\ known'[j] = known[j] /\ adj'[j] = adj[j]
    BY <1>1, <1>2
  <1>6. ASSUME NEW m \in DOMAIN a
        PROVE  /\ SameButOut(adj'[n][m], a[m])
               /\ adj'[n][m].outFilter = IF n \in Core /\ m \in ms
                                         THEN OutgoingFilter(n, t, k, a, m) ELSE a[m].outFilter
               /\ m \in fc <=> m \in ms /\ n \in Core /\ adj'[n][m].outFilter # a[m].outFilter
    <2>1. a[m] \in AdjacentPeer /\ OutgoingFilter(n, t, k, a, m) \in SUBSET Node
      BY OutgoingNodes
    <2> QED
      BY <1>4, <2>1, AnnouncedPeer
  <1>7. \A msg \in others : msg.type # "FilterAnnounce"
    BY TreeFramesAre
  <1>8. ASSUME NEW m \in fc
        PROVE  /\ m \in DOMAIN a /\ adj'[n][m].outFilter # a[m].outFilter
               /\ adj'[n][m].outFilter = OutgoingFilter(n, t, k, a, m)
    <2>1. m \in ms
      BY DEF FilterChanged
    <2> HIDE DEF fc
    <2> QED
      BY <1>6, <1>8, <2>1
  <1>9. sent = {FilterFrame(n, m, c + 1, OutgoingFilter(n, t, k, a, m)) : m \in fc}
    BY DEF FilterFrames, FilterFrame
  <1> HIDE DEF sent, others, fc, c
  <1>10. ASSUME NEW m \in DOMAIN a, adj'[n][m].outFilter # a[m].outFilter
         PROVE  /\ count'[n].filter = c + 1
                /\ {n, m} \in carrier => FilterFrame(n, m, c + 1, adj'[n][m].outFilter) \in net'
    <2>1. m \in fc
      BY <1>6, <1>10
    <2>2. FilterFrame(n, m, c + 1, adj'[n][m].outFilter) \in sent
      BY <1>8, <1>9, <2>1
    <2>3. \A f, s : FilterFrame(n, m, s, f).from = n /\ FilterFrame(n, m, s, f).to = m
      BY DEF FilterFrame, Frame
    <2> QED
      BY <1>2, <1>3, <2>1, <2>2, <2>3 DEF Carried
  <1>11. ASSUME NEW msg \in net', msg.type = "FilterAnnounce"
         PROVE  \/ msg \in net \ rcvd
                \/ /\ msg.from = n /\ msg.to \in DOMAIN a
                   /\ adj'[n][msg.to].outFilter # a[msg.to].outFilter
                   /\ msg.seq = c + 1 /\ msg.filter = adj'[n][msg.to].outFilter
    <2>1. msg \in net \ rcvd \/ msg \in sent
      BY <1>2, <1>7, <1>11 DEF Carried
    <2>2. CASE msg \in sent
      <3>1. PICK m \in fc : msg = FilterFrame(n, m, c + 1, OutgoingFilter(n, t, k, a, m))
        BY <1>9, <2>2
      <3>2. /\ msg.from = n /\ msg.to = m /\ msg.seq = c + 1
            /\ msg.filter = OutgoingFilter(n, t, k, a, m)
        BY <3>1 DEF FilterFrame, Frame
      <3> QED
        BY <1>8, <3>2
    <2> QED
      BY <2>1, <2>2
  <1>12. count'[n].filter \in {c, c + 1} /\ net \ rcvd \subseteq net'
    BY <1>2, <1>3
  <1> QED
    BY <1>3, <1>4, <1>5, <1>6, <1>10, <1>11, <1>12 DEF Filtered, c

\* A client that sends its role.
LEMMA RoleSent ==
    ASSUME NEW n \in Client, NEW rcvd, NEW t, NEW k, NEW a, NEW told, NEW ms,
           Become(n, rcvd, t, k, a, told, ms), NEW m \in told, {n, m} \in carrier
    PROVE  IF a[m].supported
           THEN \E msg \in net' : msg.from = n /\ msg.to = m /\ msg.type = "ClientOnly"
           ELSE SupportFrame(n, m) \in net'
  <1> DEFINE sent == TreeFrames(n, t, a, told, count[n])
             seq == count[n].role + Cardinality({j \in Supported(a, told) : j <= m})
  <1>1. (IF a[m].supported THEN Frame(n, m, "ClientOnly", seq, <<>>, {})
         ELSE SupportFrame(n, m)) \in sent
    BY DEF TreeFrames, RoleFrames, SupportFrame
  <1>2. Carried(sent) \subseteq net'
    BY DEF Become, Carried
  <1> HIDE DEF sent, seq
  <1>3. /\ SupportFrame(n, m).from = n /\ SupportFrame(n, m).to = m
        /\ Frame(n, m, "ClientOnly", seq, <<>>, {}).from = n
        /\ Frame(n, m, "ClientOnly", seq, <<>>, {}).to = m
        /\ Frame(n, m, "ClientOnly", seq, <<>>, {}).type = "ClientOnly"
    BY DEF SupportFrame, Frame
  <1>4. CASE a[m].supported
    BY <1>1, <1>2, <1>3, <1>4 DEF Carried
  <1>5. CASE ~a[m].supported
    BY <1>1, <1>2, <1>3, <1>5 DEF Carried
  <1> QED
    BY <1>4, <1>5

\* The filter sent last stays the last, and is not lost.
LEMMA DeliversKept ==
    ASSUME NEW n, NEW m, NEW p, NEW q, NEW u, NEW v, NEW c \in Nat, NEW d \in Nat, c <= d,
           NEW frames, NEW after, Delivers(n, m, p, q, c, frames),
           u.outFilter = p.outFilter, v.inSeq = q.inSeq, v.inFilter = q.inFilter,
           \A msg \in frames : msg.from = n /\ msg.to = m /\ msg.type = "FilterAnnounce" =>
              msg \in after,
           \A msg \in after : msg.from = n /\ msg.to = m /\ msg.type = "FilterAnnounce" =>
              msg \in frames
    PROVE  Delivers(n, m, u, v, d, after)
  <1>1. PICK s \in Nat : s <= c /\ LastSent(s, n, m, p, q, frames)
    BY DEF Delivers
  <1>2. /\ FilterFrame(n, m, s, p.outFilter).from = n /\ FilterFrame(n, m, s, p.outFilter).to = m
        /\ FilterFrame(n, m, s, p.outFilter).type = "FilterAnnounce"
    BY DEF FilterFrame, Frame
  <1>3. LastSent(s, n, m, u, v, after)
    BY <1>1, <1>2 DEF LastSent
  <1>4. s <= d
    BY <1>1
  <1> QED
    BY <1>3, <1>4 DEF Delivers

\* A new filter takes the place of the one sent last.
LEMMA DeliversNew ==
    ASSUME NEW n, NEW m, NEW p, NEW q, NEW u, NEW c \in Nat, NEW frames, NEW after,
           Delivers(n, m, p, q, c, frames), q.inSeq \in Nat,
           \A msg \in frames : msg.seq \in Nat,
           FilterFrame(n, m, c + 1, u.outFilter) \in after,
           \A msg \in after : msg.from = n /\ msg.to = m /\ msg.type = "FilterAnnounce" =>
              msg \in frames \/ (msg.seq = c + 1 /\ msg.filter = u.outFilter)
    PROVE  Delivers(n, m, u, q, c + 1, after)
  <1>1. PICK s \in Nat : s <= c /\ LastSent(s, n, m, p, q, frames)
    BY DEF Delivers
  <1>2. q.inSeq <= s
    BY <1>1 DEF LastSent
  <1>3. q.inSeq < c + 1 /\ q.inSeq <= c + 1 /\ q.inSeq # c + 1
    BY <1>1, <1>2
  <1>4. ASSUME NEW msg \in after, msg.from = n, msg.to = m, msg.type = "FilterAnnounce"
        PROVE  msg.seq <= c + 1 /\ (msg.seq = c + 1 => msg.filter = u.outFilter)
    <2>1. CASE msg \in frames
      <3>1. msg.seq <= s /\ msg.seq \in Nat
        BY <1>1, <1>4, <2>1 DEF LastSent
      <3>2. msg.seq <= c + 1 /\ msg.seq # c + 1
        BY <1>1, <3>1
      <3> QED
        BY <3>2
    <2>2. CASE msg.seq = c + 1 /\ msg.filter = u.outFilter
      BY <2>2
    <2> QED
      BY <1>4, <2>1, <2>2
  <1>5. LastSent(c + 1, n, m, u, q, after)
    BY <1>3, <1>4 DEF LastSent
  <1>6. c + 1 \in Nat /\ c + 1 <= c + 1
    OBVIOUS
  <1> QED
    BY <1>5, <1>6 DEF Delivers

LEMMA AskedKept ==
    ASSUME NEW n, NEW c, NEW p, NEW q, NEW u, NEW v, NEW frames, NEW after,
           Asked(n, c, p, q, frames),
           u.client = p.client, u.supported = p.supported, v.supported = q.supported,
           \A msg \in frames :
              (/\ msg.type \in {"ClientOnly", "ClientSupport"}
               /\ msg.from \in {n, c} /\ msg.to \in {n, c}) => msg \in after
    PROVE  Asked(n, c, u, v, after)
  <1>1. /\ SupportFrame(n, c).from = n /\ SupportFrame(n, c).to = c
        /\ SupportFrame(n, c).type = "ClientSupport"
        /\ SupportFrame(c, n).from = c /\ SupportFrame(c, n).to = n
        /\ SupportFrame(c, n).type = "ClientSupport"
    BY DEF SupportFrame, Frame
  <1> QED
    BY <1>1 DEF Asked

LEMMA FilteringAfter ==
    ASSUME mesh' = mesh,
           \A j \in Node : \A m \in DOMAIN adj'[j] : RoleFits(adj'[j][m], m),
           \A j \in Core, c \in Client :
              {j, c} \in carrier' => Asked(j, c, adj'[j][c], adj'[c][j], net'),
           \A j, m \in Core :
              {j, m} \in carrier' => Delivers(j, m, adj'[j][m], adj'[m][j], count'[j].filter, net'),
           \A j \in Core : owed'[j] \/ Current(j, tree'[j], known'[j], adj'[j])
    PROVE  Filtering'
  <1>1. Core' = Core /\ Client' = Client
    BY DEF Core, Client
  <1>2. (\A j \in Node : \A m \in DOMAIN adj[j] : RoleFits(adj[j][m], m))'
    BY <1>1 DEF RoleFits, AdjacentPeer
  <1>3. (\A j \in Core, c \in Client :
            {j, c} \in carrier => Asked(j, c, adj[j][c], adj[c][j], net))'
    BY <1>1 DEF Asked, SupportFrame
  <1>4. (\A j, m \in Core :
            {j, m} \in carrier => Delivers(j, m, adj[j][m], adj[m][j], count[j].filter, net))'
    BY <1>1 DEF Delivers, LastSent, FilterFrame
  <1>5. (\A j \in Core : owed[j] \/ Current(j, tree[j], known[j], adj[j]))'
    BY <1>1 DEF Current, OutgoingFilter
  <1> QED
    BY <1>2, <1>3, <1>4, <1>5 DEF Filtering

LEMMA FilterKeeps ==
    ASSUME TreeInv, Filtering, mesh' = mesh, carrier' \subseteq carrier,
           NEW n \in Node, NEW rcvd, NEW t, NEW k, NEW a, NEW ms,
           Filtered(n, rcvd, t, k, a, ms),
           \A p \in DOMAIN a : RoleFits(a[p], p),
           \A msg \in rcvd : msg.to = n \/ {msg.from, msg.to} \notin carrier',
           \A m : {n, m} \in carrier' => m \in DOMAIN a,
           \A m \in Core : n \in Core /\ {n, m} \in carrier' =>
              a[m].outFilter = adj[n][m].outFilter,
           \A m \in Core : n \in Core /\ {m, n} \in carrier' =>
              Delivers(m, n, adj[m][n], a[m], count[m].filter, net \ rcvd),
           \A c \in Client : n \in Core /\ {n, c} \in carrier' =>
              Asked(n, c, a[c], adj[c][n], net'),
           \A m \in Core : n \in Client /\ {m, n} \in carrier' =>
              Asked(m, n, adj[m][n], a[m], net'),
           n \in Core => owed'[n] \/ Current(n, t, k, adj'[n]),
           \A j \in Node \ {n} : owed'[j] = owed[j]
    PROVE  Filtering'
  <1>1. \A j, m : {j, m} \in carrier =>
           j \in Node /\ m \in Node /\ j # m /\ m \in DOMAIN adj[j] /\ j \in DOMAIN adj[m]
    BY CarrierHeld
  <1>2. Core' = Core /\ Client' = Client /\ Core \cap Client = {} /\ Core \subseteq Node
    BY DEF Core, Client
  <1>3. \A j \in Node : count[j].filter \in Nat
    BY DEF TreeInv, Tables
  <1>4. ASSUME NEW j \in Node, NEW m \in DOMAIN adj'[j]
        PROVE  RoleFits(adj'[j][m], m)
    <2>1. CASE j = n
      <3>1. m \in DOMAIN a /\ SameButOut(adj'[n][m], a[m])
        BY <1>4, <2>1 DEF Filtered
      <3> QED
        BY <2>1, <3>1 DEF RoleFits, SameButOut
    <2>2. CASE j # n
      <3>1. adj'[j] = adj[j]
        BY <2>2 DEF Filtered
      <3> QED
        BY <3>1 DEF Filtering
    <2> QED
      BY <2>1, <2>2
  <1>5. net \ rcvd \subseteq net'
    BY DEF Filtered
  <1>6. ASSUME NEW j \in Core, NEW c \in Client, {j, c} \in carrier'
        PROVE  Asked(j, c, adj'[j][c], adj'[c][j], net')
    <2>1. {j, c} \in carrier /\ j # c /\ j \in Node /\ c \in Node
      BY <1>1, <1>6
    <2>2. CASE j = n
      <3>1. /\ c \in DOMAIN a /\ Asked(n, c, a[c], adj[c][n], net') /\ adj'[c] = adj[c]
            /\ SameButOut(adj'[n][c], a[c])
        BY <1>6, <2>1, <2>2 DEF Filtered
      <3>2. adj'[n][c].client = a[c].client /\ adj'[n][c].supported = a[c].supported
        BY <3>1 DEF SameButOut
      <3> QED
        BY <2>2, <3>1, <3>2 DEF Asked
    <2>3. CASE c = n
      <3>0. {n, j} = {j, c}
        BY <2>3
      <3>1. /\ j \in DOMAIN a /\ Asked(j, n, adj[j][n], a[j], net') /\ adj'[j] = adj[j]
            /\ SameButOut(adj'[n][j], a[j])
        BY <1>6, <2>1, <2>3, <3>0 DEF Filtered
      <3>2. adj'[n][j].supported = a[j].supported
        BY <3>1 DEF SameButOut
      <3> QED
        BY <2>3, <3>1, <3>2 DEF Asked
    <2>4. CASE j # n /\ c # n
      <3>1. adj'[j] = adj[j] /\ adj'[c] = adj[c]
        BY <2>1, <2>4 DEF Filtered
      <3>2. Asked(j, c, adj[j][c], adj[c][j], net)
        BY <2>1 DEF Filtering
      <3>3. ASSUME NEW msg \in net, msg.from \in {j, c}, msg.to \in {j, c} PROVE msg \in net'
        <4>1. {msg.from, msg.to} \in carrier
          BY DEF TreeInv, FramesFit
        <4>2. msg.from # msg.to
          BY <1>1, <4>1
        <4>3. {msg.from, msg.to} = {j, c}
          BY <3>3, <4>2
        <4>4. msg \notin rcvd
          BY <1>6, <2>4, <3>3, <4>3
        <4> QED
          BY <1>5, <4>4
      <3>4. Asked(j, c, adj[j][c], adj[c][j], net')
        BY <3>2, <3>3, AskedKept
      <3> QED
        BY <3>1, <3>4
    <2> QED
      BY <2>2, <2>3, <2>4
  <1>7. ASSUME NEW j \in Core, NEW m \in Core, {j, m} \in carrier'
        PROVE  Delivers(j, m, adj'[j][m], adj'[m][j], count'[j].filter, net')
    <2>1. {j, m} \in carrier /\ j # m /\ j \in Node /\ m \in Node
      BY <1>1, <1>7
    <2>2. Delivers(j, m, adj[j][m], adj[m][j], count[j].filter, net)
      BY <2>1 DEF Filtering
    <2>3. \A msg \in rcvd : ~(msg.from = j /\ msg.to = m /\ m # n)
      BY <1>7
    <2>4. \A msg \in net' : msg.type = "FilterAnnounce" /\ msg.from # n => msg \in net \ rcvd
      BY DEF Filtered
    <2>5. CASE m = n
      <3>1. /\ Delivers(j, n, adj[j][n], a[j], count[j].filter, net \ rcvd)
            /\ j \in DOMAIN a
        <4>1. {n, j} = {j, m}
          BY <2>5
        <4> QED
          BY <1>7, <2>5, <4>1
      <3>2. adj'[j] = adj[j] /\ count'[j] = count[j] /\ SameButOut(adj'[n][j], a[j])
        BY <2>1, <2>5, <3>1 DEF Filtered
      <3>3. /\ adj'[n][j].inSeq = a[j].inSeq /\ adj'[n][j].inFilter = a[j].inFilter
            /\ count[j].filter \in Nat /\ count[j].filter <= count[j].filter
        BY <1>3, <2>1, <3>2 DEF SameButOut
      <3>4. \A msg \in net' : msg.type = "FilterAnnounce" /\ msg.from = j => msg \in net \ rcvd
        BY <2>1, <2>4, <2>5
      <3>5. Delivers(j, n, adj[j][n], adj'[n][j], count[j].filter, net')
        BY <1>5, <3>1, <3>3, <3>4, DeliversKept
      <3> QED
        BY <2>5, <3>2, <3>5
    <2>6. CASE j # n /\ m # n
      <3>1. adj'[j] = adj[j] /\ adj'[m] = adj[m] /\ count'[j] = count[j]
        BY <2>1, <2>6 DEF Filtered
      <3>2. count[j].filter \in Nat /\ count[j].filter <= count[j].filter
        BY <1>3, <2>1
      <3>3. \A msg \in net : msg.from = j /\ msg.to = m /\ msg.type = "FilterAnnounce" =>
              msg \in net'
        BY <1>5, <2>3, <2>6
      <3>4. \A msg \in net' : msg.from = j /\ msg.to = m /\ msg.type = "FilterAnnounce" =>
              msg \in net
        BY <2>4, <2>6
      <3>5. Delivers(j, m, adj[j][m], adj[m][j], count[j].filter, net')
        BY <2>2, <3>2, <3>3, <3>4, DeliversKept
      <3> QED
        BY <3>1, <3>5
    <2>7. CASE j = n
      <3> DEFINE p == adj'[n][m]
                 c == count[n].filter
      <3>1. adj'[m] = adj[m] /\ m \in DOMAIN a /\ a[m].outFilter = adj[n][m].outFilter
        BY <1>7, <2>1, <2>7 DEF Filtered
      <3>2. c \in Nat /\ count'[n].filter \in {c, c + 1}
        BY <1>3 DEF Filtered
      <3>3. /\ adj[m][n].inSeq \in Nat
        <4>1. RoleFits(adj[m][n], n)
          BY <1>1, <2>1, <2>7 DEF Filtering
        <4> QED
          BY <4>1 DEF RoleFits, AdjacentPeer
      <3>4. \A msg \in net : msg.seq \in Nat
        BY DEF TreeInv, FramesFit, FrameOK, Frames
      <3>5. \A msg \in net : msg.from = n /\ msg.to = m /\ msg.type = "FilterAnnounce" =>
              msg \in net'
        BY <1>5, <2>1, <2>3, <2>7
      <3>6. \A msg \in net' : msg.type = "FilterAnnounce" /\ msg.to = m =>
              \/ msg \in net
              \/ /\ msg.from = n /\ adj'[n][m].outFilter # a[m].outFilter
                 /\ msg.seq = count[n].filter + 1 /\ msg.filter = adj'[n][m].outFilter
        BY DEF Filtered
      <3>7. CASE p.outFilter = adj[n][m].outFilter
        <4>1. \A msg \in net' : msg.from = n /\ msg.to = m /\ msg.type = "FilterAnnounce" =>
                msg \in net
          BY <3>1, <3>6, <3>7
        <4>2. c <= count'[n].filter /\ count'[n].filter \in Nat
          BY <3>2
        <4> HIDE DEF p, c
        <4>3. Delivers(n, m, p, adj[m][n], count'[n].filter, net')
          BY <2>2, <2>7, <3>2, <3>5, <3>7, <4>1, <4>2, DeliversKept DEF c
        <4> QED
          BY <2>7, <3>1, <4>3 DEF p
      <3>8. CASE p.outFilter # adj[n][m].outFilter
        <4>1. count'[n].filter = c + 1 /\ FilterFrame(n, m, c + 1, p.outFilter) \in net'
          BY <2>1, <2>7, <3>1, <3>8 DEF Filtered
        <4>2. \A msg \in net' : msg.from = n /\ msg.to = m /\ msg.type = "FilterAnnounce" =>
                msg \in net \/ (msg.seq = c + 1 /\ msg.filter = p.outFilter)
          BY <3>6
        <4> HIDE DEF p, c
        <4>3. Delivers(n, m, p, adj[m][n], c + 1, net')
          BY <2>2, <2>7, <3>2, <3>3, <3>4, <4>1, <4>2, DeliversNew DEF c
        <4> QED
          BY <2>7, <3>1, <4>1, <4>3 DEF p
      <3> QED
        BY <3>7, <3>8
    <2> QED
      BY <2>5, <2>6, <2>7
  <1>8. ASSUME NEW j \in Core
        PROVE  owed'[j] \/ Current(j, tree'[j], known'[j], adj'[j])
    <2>1. CASE j = n
      BY <2>1 DEF Filtered
    <2>2. CASE j # n
      <3>1. /\ tree'[j] = tree[j] /\ known'[j] = known[j] /\ adj'[j] = adj[j]
            /\ owed'[j] = owed[j]
        BY <1>2, <2>2 DEF Filtered
      <3> QED
        BY <3>1 DEF Filtering
    <2> QED
      BY <2>1, <2>2
  <1> QED
    BY <1>4, <1>6, <1>7, <1>8, FilteringAfter

\* The node n with the peers a, and those that are clients where it is none or the reverse,
\* have been asked for the role.
RolesAsked(n, a) ==
    /\ \A c \in Client : n \in Core /\ {n, c} \in carrier' =>
          Asked(n, c, a[c], adj[c][n], net')
    /\ \A m \in Core : n \in Client /\ {m, n} \in carrier' =>
          Asked(m, n, adj[m][n], a[m], net')

\* Roles that a handler does not touch stay asked for.
LEMMA AskedStill ==
    ASSUME TreeInv, Filtering, carrier' \subseteq carrier, NEW n \in Node, NEW rcvd, NEW a,
           net \ rcvd \subseteq net',
           \A m : {n, m} \in carrier' =>
              /\ a[m].supported = adj[n][m].supported
              /\ m \in Client => a[m].client = adj[n][m].client,
           \A msg \in rcvd : \/ msg.type \notin {"ClientOnly", "ClientSupport"}
                             \/ {msg.from, msg.to} \notin carrier'
    PROVE  RolesAsked(n, a)
  <1>1. ASSUME NEW j \in Core, NEW c \in Client, {j, c} \in carrier',
               NEW msg \in net, msg.type \in {"ClientOnly", "ClientSupport"},
               msg.from \in {j, c}, msg.to \in {j, c}
        PROVE  msg \in net'
    <2>1. {msg.from, msg.to} \in carrier
      BY DEF TreeInv, FramesFit
    <2>2. msg.from # msg.to
      BY <2>1, CarrierHeld
    <2>3. {msg.from, msg.to} = {j, c}
      BY <1>1, <2>2
    <2> QED
      BY <1>1, <2>3
  <1>2. ASSUME NEW c \in Client, n \in Core, {n, c} \in carrier'
        PROVE  Asked(n, c, a[c], adj[c][n], net')
    <2>1. Asked(n, c, adj[n][c], adj[c][n], net)
      BY <1>2 DEF Filtering
    <2>2. a[c].client = adj[n][c].client /\ a[c].supported = adj[n][c].supported
      BY <1>2
    <2> QED
      BY <1>1, <1>2, <2>1, <2>2, AskedKept
  <1>3. ASSUME NEW m \in Core, n \in Client, {m, n} \in carrier'
        PROVE  Asked(m, n, adj[m][n], a[m], net')
    <2>1. Asked(m, n, adj[m][n], adj[n][m], net)
      BY <1>3 DEF Filtering
    <2>2. {n, m} = {m, n}
      OBVIOUS
    <2>3. a[m].supported = adj[n][m].supported
      BY <1>3, <2>2
    <2> QED
      BY <1>1, <1>3, <2>1, <2>3, AskedKept
  <1> QED
    BY <1>2, <1>3 DEF RolesAsked

\* Filters that a handler has not received are received later.
LEMMA FeedStill ==
    ASSUME TreeInv, Filtering, carrier' \subseteq carrier, NEW n \in Core, NEW m \in Core,
           {m, n} \in carrier', NEW rcvd, NEW p,
           p.inSeq = adj[n][m].inSeq, p.inFilter = adj[n][m].inFilter,
           \A msg \in rcvd : msg.type = "FilterAnnounce" => {msg.from, msg.to} \notin carrier'
    PROVE  Delivers(m, n, adj[m][n], p, count[m].filter, net \ rcvd)
  <1>1. Delivers(m, n, adj[m][n], adj[n][m], count[m].filter, net)
    BY DEF Filtering
  <1>2. count[m].filter \in Nat /\ count[m].filter <= count[m].filter
    BY DEF TreeInv, Tables, Core
  <1>3. \A msg \in net : msg.from = m /\ msg.to = n /\ msg.type = "FilterAnnounce" =>
           msg \in net \ rcvd
    OBVIOUS
  <1> QED
    BY <1>1, <1>2, <1>3, DeliversKept

\* All filters are renewed.
LEMMA CurrentNew ==
    ASSUME NEW n \in Core, NEW rcvd, NEW t, NEW k, NEW a, NEW ms, Filtered(n, rcvd, t, k, a, ms),
           Core \cap DOMAIN a \subseteq ms
    PROVE  Current(n, t, k, adj'[n])
  <1>1. DOMAIN adj'[n] = DOMAIN a /\ \A p \in DOMAIN a : SameButOut(adj'[n][p], a[p])
    BY DEF Filtered
  <1>2. ASSUME NEW m \in Core \cap DOMAIN adj'[n]
        PROVE  adj'[n][m].outFilter = OutgoingFilter(n, t, k, adj'[n], m)
    <2>1. adj'[n][m].outFilter = OutgoingFilter(n, t, k, a, m)
      BY <1>1 DEF Filtered
    <2>2. OutgoingFilter(n, t, k, adj'[n], m) = OutgoingFilter(n, t, k, a, m)
      BY <1>1, OutgoingSame
    <2> QED
      BY <2>1, <2>2
  <1> QED
    BY <1>2 DEF Current

\* Filters are renewed where something that feeds them has changed.
LEMMA CurrentStill ==
    ASSUME TreeInv, Filtering, NEW n \in Core, ~owed[n],
           NEW rcvd, NEW t, NEW k, NEW a, NEW ms, Filtered(n, rcvd, t, k, a, ms),
           \A m \in Core \cap DOMAIN a : m \in ms \/
              /\ m \in DOMAIN adj[n] /\ a[m].outFilter = adj[n][m].outFilter
              /\ \A p \in DOMAIN a \ {m} : a[p].client => p \in DOMAIN adj[n] /\ adj[n][p].client
              /\ \A p : Feeds(n, tree[n], known[n], adj[n], m, p) <=> Feeds(n, t, k, a, m, p)
              /\ \A p : Feeds(n, tree[n], known[n], adj[n], m, p) =>
                    adj[n][p].inFilter = a[p].inFilter
    PROVE  Current(n, t, k, adj'[n])
  <1> DEFINE b == adj'[n]
  <1>1. DOMAIN b = DOMAIN a /\ \A p \in DOMAIN a : SameButOut(b[p], a[p])
    BY DEF Filtered
  <1>2. \A p \in DOMAIN a : b[p].client = a[p].client /\ b[p].inFilter = a[p].inFilter
    BY <1>1 DEF SameButOut
  <1>3. \A m \in DOMAIN a : b[m].outFilter = IF n \in Core /\ m \in ms
                                  THEN OutgoingFilter(n, t, k, a, m) ELSE a[m].outFilter
    BY DEF Filtered
  <1>4. Current(n, tree[n], known[n], adj[n])
    BY DEF Filtering
  <1>5. \A p \in DOMAIN adj[n] : adj[n][p].client => p \in Client
    BY DEF Filtering, RoleFits, Core
  <1> HIDE DEF b
  <1>6. \A m, p : Feeds(n, t, k, b, m, p) <=> Feeds(n, t, k, a, m, p)
    BY <1>1, <1>2 DEF Feeds
  <1>7. \A m, p : Feeds(n, t, k, a, m, p) => p \in DOMAIN a
    BY DEF Feeds
  <1>8. ASSUME NEW m \in Core \cap DOMAIN b
        PROVE  \/ b[m].outFilter = OutgoingFilter(n, t, k, b, m)
               \/ /\ m \in DOMAIN adj[n] /\ b[m].outFilter = adj[n][m].outFilter
                  /\ \A p \in DOMAIN b \ {m} :
                        b[p].client => p \in DOMAIN adj[n] /\ adj[n][p].client
                  /\ \A p : Feeds(n, tree[n], known[n], adj[n], m, p) <=> Feeds(n, t, k, b, m, p)
                  /\ \A p : Feeds(n, tree[n], known[n], adj[n], m, p) =>
                        adj[n][p].inFilter = b[p].inFilter
    <2>1. CASE m \in ms
      <3>1. b[m].outFilter = OutgoingFilter(n, t, k, a, m)
        BY <1>1, <1>3, <2>1
      <3>2. OutgoingFilter(n, t, k, b, m) = OutgoingFilter(n, t, k, a, m)
        BY <1>1, OutgoingSame
      <3> QED
        BY <3>1, <3>2
    <2>2. CASE m \notin ms
      BY <1>1, <1>2, <1>3, <1>6, <1>7, <2>2
    <2> QED
      BY <2>1, <2>2
  <1>9. Current(n, t, k, b)
    BY <1>4, <1>5, <1>8, CurrentKept
  <1> QED
    BY <1>9 DEF b

\* A handler that receives no filter.
LEMMA RoleKeeps ==
    ASSUME TreeInv, Filtering, mesh' = mesh, carrier' = carrier,
           NEW n \in Node, NEW rcvd, NEW t, NEW k, NEW a, NEW ms,
           Filtered(n, rcvd, t, k, a, ms), DOMAIN a = DOMAIN adj[n],
           \A p \in DOMAIN a :
              /\ RoleFits(a[p], p) /\ a[p].outFilter = adj[n][p].outFilter
              /\ a[p].inSeq = adj[n][p].inSeq /\ a[p].inFilter = adj[n][p].inFilter,
           \A msg \in rcvd : msg.to = n /\ msg.type # "FilterAnnounce",
           RolesAsked(n, a),
           n \in Core => owed'[n] \/ Current(n, t, k, adj'[n]),
           \A j \in Node \ {n} : owed'[j] = owed[j]
    PROVE  Filtering'
  <1>1. \A m : {n, m} \in carrier' => m \in DOMAIN a
    BY CarrierHeld
  <1>2. \A m \in Core : n \in Core /\ {n, m} \in carrier' =>
           a[m].outFilter = adj[n][m].outFilter
    BY <1>1
  <1>3. ASSUME NEW m \in Core, n \in Core, {m, n} \in carrier'
        PROVE  Delivers(m, n, adj[m][n], a[m], count[m].filter, net \ rcvd)
    <2>1. {n, m} = {m, n}
      OBVIOUS
    <2>2. a[m].inSeq = adj[n][m].inSeq /\ a[m].inFilter = adj[n][m].inFilter
      BY <1>1, <1>3, <2>1
    <2> QED
      BY <1>3, <2>2, FeedStill
  <1>4. carrier' \subseteq carrier
    OBVIOUS
  <1> QED
    BY <1>1, <1>2, <1>3, <1>4, FilterKeeps DEF RolesAsked

\* What is kept of the peers is of the right kind.
LEMMA PeersKept ==
    ASSUME TreeInv, Filtering, NEW n \in Node
    PROVE  \A p \in DOMAIN adj[n] : p \in Node /\ RoleFits(adj[n][p], p) /\ adj[n][p] \in AdjacentPeer
  <1>1. DOMAIN adj[n] \subseteq Node
    BY Present DEF NodeOK
  <1> QED
    BY <1>1 DEF Filtering, RoleFits

LEMMA SendFiltersFilters ==
    ASSUME TreeInv, Filtering, NEW n \in Node, SendFilters(n)
    PROVE  Filtering'
  <1> DEFINE a == adj[n]
             none == {}
             ms == DOMAIN adj[n]
  <1>1. /\ Become(n, {}, tree[n], known[n], adj[n], {}, DOMAIN adj[n])
        /\ mesh' = mesh /\ carrier' = carrier
        /\ \A j \in Node \ {n} : owed'[j] = owed[j]
    BY DEF SendFilters
  <1>2. \A p \in DOMAIN adj[n] : p \in Node /\ RoleFits(adj[n][p], p) /\ adj[n][p] \in AdjacentPeer
    BY PeersKept
  <1>3. Filtered(n, none, tree[n], known[n], a, ms)
    BY <1>1, <1>2, BecomeFiltered
  <1>4. net \ none \subseteq net' /\ (\A msg \in none : FALSE) /\ carrier' \subseteq carrier
    BY <1>1, <1>3 DEF Filtered
  <1> HIDE DEF none
  <1>5. RolesAsked(n, a)
    BY <1>1, <1>4, AskedStill
  <1>6. n \in Core => Current(n, tree[n], known[n], adj'[n])
    BY <1>3, CurrentNew
  <1> QED
    BY <1>1, <1>2, <1>3, <1>4, <1>5, <1>6, RoleKeeps

LEMMA RefreshClientRoleFilters ==
    ASSUME TreeInv, Filtering, NEW n \in Node, RefreshClientRole(n)
    PROVE  Filtering'
  <1> DEFINE a == adj[n]
             none == {}
  <1>1. /\ Become(n, {}, tree[n], known[n], adj[n], DOMAIN adj[n], {})
        /\ mesh' = mesh /\ carrier' = carrier /\ n \notin Core /\ owed' = owed
    BY DEF RefreshClientRole, Core
  <1>2. \A p \in DOMAIN adj[n] : p \in Node /\ RoleFits(adj[n][p], p) /\ adj[n][p] \in AdjacentPeer
    BY PeersKept
  <1>3. Filtered(n, none, tree[n], known[n], a, {})
    BY <1>1, <1>2, BecomeFiltered
  <1>4. net \ none \subseteq net' /\ (\A msg \in none : FALSE) /\ carrier' \subseteq carrier
    BY <1>1, <1>3 DEF Filtered
  <1> HIDE DEF none
  <1>5. RolesAsked(n, a)
    BY <1>1, <1>4, AskedStill
  <1> QED
    BY <1>1, <1>2, <1>3, <1>4, <1>5, RoleKeeps

\* The receiver of a filter has the last one or a later one is in flight.
LEMMA DeliversTaken ==
    ASSUME NEW n, NEW m, NEW p, NEW q, NEW v, NEW c \in Nat, NEW frames, NEW msg \in frames,
           Delivers(n, m, p, q, c, frames), q.inSeq \in Nat, msg.seq \in Nat,
           msg.from = n, msg.to = m, msg.type = "FilterAnnounce",
           msg.seq > q.inSeq => v.inSeq = msg.seq /\ v.inFilter = msg.filter,
           ~(msg.seq > q.inSeq) => v.inSeq = q.inSeq /\ v.inFilter = q.inFilter
    PROVE  Delivers(n, m, p, v, c, frames \ {msg})
  <1>1. PICK s \in Nat : s <= c /\ LastSent(s, n, m, p, q, frames)
    BY DEF Delivers
  <1>2. FilterFrame(n, m, s, p.outFilter).seq = s
    BY DEF FilterFrame, Frame
  <1>3. /\ q.inSeq <= s /\ (q.inSeq = s => q.inFilter = p.outFilter)
        /\ q.inSeq < s => FilterFrame(n, m, s, p.outFilter) \in frames
        /\ msg.seq <= s /\ (msg.seq = s => msg.filter = p.outFilter)
        /\ \A f \in frames : f.from = n /\ f.to = m /\ f.type = "FilterAnnounce" =>
              f.seq <= s /\ (f.seq = s => f.filter = p.outFilter)
    BY <1>1 DEF LastSent
  <1>4. /\ v.inSeq <= s /\ (v.inSeq = s => v.inFilter = p.outFilter)
        /\ v.inSeq < s => FilterFrame(n, m, s, p.outFilter) \in frames \ {msg}
    <2>1. CASE msg.seq > q.inSeq
      <3>1. v.inSeq = msg.seq /\ v.inFilter = msg.filter
        BY <2>1
      <3>2. msg.seq < s => q.inSeq < s
        BY <2>1
      <3> QED
        BY <1>2, <1>3, <3>1, <3>2
    <2>2. CASE ~(msg.seq > q.inSeq)
      <3>1. v.inSeq = q.inSeq /\ v.inFilter = q.inFilter
        BY <2>2
      <3>2. q.inSeq < s => msg.seq # s
        BY <2>2
      <3> QED
        BY <1>2, <1>3, <3>1, <3>2
    <2> QED
      BY <2>1, <2>2
  <1>5. LastSent(s, n, m, p, v, frames \ {msg})
    BY <1>3, <1>4 DEF LastSent
  <1> QED
    BY <1>1, <1>5 DEF Delivers

LEMMA ReceiveFilterFilters ==
    ASSUME TreeInv, Filtering, NEW msg \in net, NEW n, ReceiveFilter(n, msg)
    PROVE  Filtering'
  <1> DEFINE m == msg.from
             fresh == msg.seq > adj[n][m].inSeq
             a == IF fresh
                  THEN [adj[n] EXCEPT ![m].inFilter = msg.filter, ![m].inSeq = msg.seq]
                  ELSE adj[n]
             ms == IF fresh /\ IsTreePeer(n, tree[n], known[n], m) THEN DOMAIN a \ {m} ELSE {}
             rcvd == {msg}
  <1>1. /\ msg.to = n /\ msg.type = "FilterAnnounce"
        /\ Become(n, rcvd, tree[n], known[n], a, {}, ms)
        /\ mesh' = mesh /\ carrier' = carrier /\ owed' = owed
    BY DEF ReceiveFilter
  <1>2. /\ n \in Node /\ m \in DOMAIN adj[n] /\ msg.filter \in SUBSET Node /\ msg.seq \in Nat
        /\ {m, n} \in carrier
    BY <1>1, FromPeer DEF FrameOK, Frames, TreeInv, FramesFit
  <1>3. \A p \in DOMAIN adj[n] : p \in Node /\ RoleFits(adj[n][p], p) /\ adj[n][p] \in AdjacentPeer
    BY <1>2, PeersKept
  <1>4. /\ DOMAIN a = DOMAIN adj[n]
        /\ \A p \in DOMAIN adj[n] : p # m \/ ~fresh => a[p] = adj[n][p]
        /\ fresh => a[m] = [adj[n][m] EXCEPT !.inFilter = msg.filter, !.inSeq = msg.seq]
    <2>1. CASE fresh
      <3>1. a = [adj[n] EXCEPT ![m].inFilter = msg.filter, ![m].inSeq = msg.seq]
        BY <2>1
      <3> HIDE DEF m, a, fresh
      <3> QED
        BY <1>2, <2>1, <3>1
    <2>2. CASE ~fresh
      BY <2>2
    <2> QED
      BY <2>1, <2>2
  <1>5. ms = IF fresh /\ IsTreePeer(n, tree[n], known[n], m) THEN DOMAIN a \ {m} ELSE {}
    OBVIOUS
  <1>6. fresh = (msg.seq > adj[n][m].inSeq)
    OBVIOUS
  <1>7. rcvd = {msg} /\ m = msg.from
    OBVIOUS
  <1> HIDE DEF m, fresh, a, ms, rcvd
  <1>8. ASSUME NEW p \in DOMAIN a
        PROVE  /\ a[p] \in AdjacentPeer
               /\ a[p].supported = adj[n][p].supported /\ a[p].client = adj[n][p].client
               /\ a[p].roleSeq = adj[n][p].roleSeq /\ a[p].outFilter = adj[n][p].outFilter
               /\ p = m /\ fresh => a[p].inSeq = msg.seq /\ a[p].inFilter = msg.filter
               /\ RoleFits(a[p], p) /\ p \in Node
    <2>1. p \in DOMAIN adj[n] /\ adj[n][p] \in AdjacentPeer /\ RoleFits(adj[n][p], p) /\ p \in Node
      BY <1>3, <1>4
    <2>2. CASE p = m /\ fresh
      <3>1. a[p] = [adj[n][p] EXCEPT !.inFilter = msg.filter, !.inSeq = msg.seq]
        BY <1>4, <2>2
      <3>2. a[p] \in AdjacentPeer
        BY <1>2, <2>1, <3>1 DEF AdjacentPeer
      <3>3. /\ a[p].supported = adj[n][p].supported /\ a[p].client = adj[n][p].client
            /\ a[p].roleSeq = adj[n][p].roleSeq /\ a[p].outFilter = adj[n][p].outFilter
            /\ a[p].inSeq = msg.seq /\ a[p].inFilter = msg.filter
        BY <2>1, <3>1 DEF AdjacentPeer
      <3> QED
        BY <2>1, <3>2, <3>3 DEF RoleFits
    <2>3. CASE ~(p = m /\ fresh)
      <3>1. a[p] = adj[n][p]
        BY <1>4, <2>1, <2>3
      <3> QED
        BY <2>1, <2>3, <3>1
    <2> QED
      BY <2>2, <2>3
  <1>9. Filtered(n, rcvd, tree[n], known[n], a, ms)
    <2>1. ms \in SUBSET DOMAIN a
      BY <1>5
    <2> QED
      BY <1>1, <1>2, <1>8, <2>1, BecomeFiltered
  <1>10. /\ net \ rcvd \subseteq net' /\ carrier' \subseteq carrier
         /\ \A f \in rcvd : f.to = n /\ f.type = "FilterAnnounce" /\ f = msg
    BY <1>1, <1>7, <1>9 DEF Filtered
  <1>11. \A j : {n, j} \in carrier' => j \in DOMAIN a
    BY <1>1, <1>4, CarrierHeld
  <1>12. RolesAsked(n, a)
    <2>1. \A j : {n, j} \in carrier' =>
             /\ a[j].supported = adj[n][j].supported
             /\ j \in Client => a[j].client = adj[n][j].client
      BY <1>8, <1>11
    <2>2. \A f \in rcvd : \/ f.type \notin {"ClientOnly", "ClientSupport"}
                          \/ {f.from, f.to} \notin carrier'
      BY <1>10
    <2> QED
      BY <1>2, <1>10, <2>1, <2>2, AskedStill
  <1>13. ASSUME NEW j \in Core, n \in Core, {j, n} \in carrier'
         PROVE  Delivers(j, n, adj[j][n], a[j], count[j].filter, net \ rcvd)
    <2>1. {j, n} \in carrier /\ {n, j} = {j, n} /\ j \in DOMAIN a
      <3>1. {n, j} = {j, n}
        OBVIOUS
      <3> QED
        BY <1>1, <1>11, <1>13, <3>1
    <2>2. Delivers(j, n, adj[j][n], adj[n][j], count[j].filter, net)
      BY <1>13, <2>1 DEF Filtering
    <2>3. count[j].filter \in Nat /\ count[j].filter <= count[j].filter
      BY DEF TreeInv, Tables, Core
    <2>4. CASE j = m
      <3>1. adj[n][m].inSeq \in Nat
        BY <1>2, <1>3 DEF AdjacentPeer
      <3>2. msg.seq > adj[n][m].inSeq => a[m].inSeq = msg.seq /\ a[m].inFilter = msg.filter
        BY <1>6, <1>8, <2>1, <2>4
      <3>3. ~(msg.seq > adj[n][m].inSeq) => a[m] = adj[n][m]
        BY <1>2, <1>4, <1>6
      <3> QED
        BY <1>1, <1>2, <1>7, <2>2, <2>3, <2>4, <3>1, <3>2, <3>3, DeliversTaken
    <2>5. CASE j # m
      <3>1. a[j] = adj[n][j]
        BY <1>4, <2>1, <2>5
      <3>2. \A f \in net : f.from = j => f \in net \ rcvd
        BY <1>7, <2>5
      <3> QED
        BY <2>2, <2>3, <3>1, <3>2, DeliversKept
    <2> QED
      BY <2>4, <2>5
  <1>14. ASSUME n \in Core, ~owed[n]
         PROVE  Current(n, tree[n], known[n], adj'[n])
    <2>1. ASSUME NEW j \in Core \cap DOMAIN a, j \notin ms
          PROVE  /\ j \in DOMAIN adj[n] /\ a[j].outFilter = adj[n][j].outFilter
                 /\ \A p \in DOMAIN a \ {j} : a[p].client => p \in DOMAIN adj[n] /\ adj[n][p].client
                 /\ \A p : Feeds(n, tree[n], known[n], adj[n], j, p) <=>
                              Feeds(n, tree[n], known[n], a, j, p)
                 /\ \A p : Feeds(n, tree[n], known[n], adj[n], j, p) =>
                              adj[n][p].inFilter = a[p].inFilter
      <3>1. \A p : Feeds(n, tree[n], known[n], adj[n], j, p) <=>
                      Feeds(n, tree[n], known[n], a, j, p)
        BY <1>4, <1>8 DEF Feeds
      <3>2. ASSUME NEW p, Feeds(n, tree[n], known[n], adj[n], j, p)
            PROVE  adj[n][p].inFilter = a[p].inFilter
        <4>1. p \in DOMAIN adj[n] /\ p # j /\ IsTreePeer(n, tree[n], known[n], p)
          BY <3>2 DEF Feeds
        <4>2. p # m \/ ~fresh
          BY <1>5, <2>1, <4>1
        <4> QED
          BY <1>4, <4>1, <4>2
      <3> QED
        BY <1>4, <1>8, <2>1, <3>1, <3>2
    <2> QED
      BY <1>9, <1>14, <2>1, CurrentStill
  <1>15. n \in Core => owed'[n] \/ Current(n, tree[n], known[n], adj'[n])
    BY <1>1, <1>14
  <1>16. /\ \A p \in DOMAIN a : RoleFits(a[p], p)
         /\ \A j \in Core : n \in Core /\ {n, j} \in carrier' => a[j].outFilter = adj[n][j].outFilter
         /\ \A j \in Node \ {n} : owed'[j] = owed[j]
         /\ \A f \in rcvd : f.to = n \/ {f.from, f.to} \notin carrier'
    BY <1>1, <1>8, <1>10, <1>11
  <1> QED
    BY <1>1, <1>2, <1>9, <1>10, <1>11, <1>12, <1>13, <1>15, <1>16, FilterKeeps DEF RolesAsked

\* Which nodes owe their filters is kept of every node.
Owing == DOMAIN owed = Node

LEMMA ReceiveTreeFilters ==
    ASSUME TreeInv, Telling, Owing, Filtering, NEW msg \in net, NEW n, ReceiveTree(n, msg)
    PROVE  Filtering'
  <1> DEFINE m == msg.from
             stale == msg.seq <= adj[n][m].roleSeq
             a == IF stale THEN adj[n]
                  ELSE [adj[n] EXCEPT ![m].roleSeq = msg.seq, ![m].client = FALSE]
             k == IF stale THEN known[n] ELSE Updated(known[n], m, msg)
             t == IF stale \/ ~Newer(known[n], m, msg) THEN tree[n]
                  ELSE Evaluated(n, tree[n], k)
             changed == t # tree[n]
             turned == \/ ~stale /\ adj[n][m].client
                       \/ IsTreePeer(n, tree[n], known[n], m) # IsTreePeer(n, t, k, m)
             ms == IF turned /\ ~changed THEN DOMAIN a ELSE {}
             rcvd == {msg}
  <1>1. /\ msg.to = n /\ msg.type = "TreeAnnounce"
        /\ Become(n, rcvd, t, k, a, IF changed THEN DOMAIN a ELSE {}, ms)
        /\ mesh' = mesh /\ carrier' = carrier /\ owed' = [owed EXCEPT ![n] = @ \/ changed]
    BY DEF ReceiveTree
  <1>2. /\ n \in Node /\ m \in DOMAIN adj[n] /\ msg.seq \in Nat /\ m \in Core
    BY <1>1, FromPeer DEF FrameOK, Frames, Telling, Tells
  <1>3. \A p \in DOMAIN adj[n] : p \in Node /\ RoleFits(adj[n][p], p) /\ adj[n][p] \in AdjacentPeer
    BY <1>2, PeersKept
  <1>4. adj[n][m].client = FALSE
    BY <1>2, <1>3 DEF RoleFits, AdjacentPeer, Core
  <1>5. /\ DOMAIN a = DOMAIN adj[n]
        /\ \A p \in DOMAIN adj[n] : p # m \/ stale => a[p] = adj[n][p]
        /\ ~stale => a[m] = [adj[n][m] EXCEPT !.roleSeq = msg.seq, !.client = FALSE]
    <2>1. CASE ~stale
      <3>1. a = [adj[n] EXCEPT ![m].roleSeq = msg.seq, ![m].client = FALSE]
        BY <2>1
      <3> HIDE DEF m, a, stale
      <3> QED
        BY <1>2, <2>1, <3>1
    <2>2. CASE stale
      BY <2>2
    <2> QED
      BY <2>1, <2>2
  <1>6. \A p : p # m => (p \in DOMAIN k <=> p \in DOMAIN known[n]) /\
                        (p \in DOMAIN known[n] => k[p] = known[n][p])
    BY DEF Updated
  <1>7. /\ ms \in SUBSET DOMAIN a
        /\ ms # DOMAIN a /\ ~changed =>
              (IsTreePeer(n, tree[n], known[n], m) <=> IsTreePeer(n, t, k, m))
    BY DEF IsTreePeer
  <1>8. \A f \in rcvd : f.to = n /\ f.type = "TreeAnnounce"
    BY <1>1
  <1>9. changed => owed'[n]
    BY <1>1, <1>2 DEF Owing
  <1>10. ~changed => t = tree[n]
    OBVIOUS
  <1>11. \A j \in Node \ {n} : owed'[j] = owed[j]
    BY <1>1 DEF Owing
  <1>12. owed[n] => owed'[n]
    BY <1>1, <1>2 DEF Owing
  <1> HIDE DEF m, stale, a, k, t, changed, turned, ms, rcvd
  <1>13. ASSUME NEW p \in DOMAIN a
        PROVE  /\ a[p] \in AdjacentPeer /\ p \in Node /\ RoleFits(a[p], p)
               /\ a[p].supported = adj[n][p].supported /\ a[p].client = adj[n][p].client
               /\ a[p].outFilter = adj[n][p].outFilter
               /\ a[p].inSeq = adj[n][p].inSeq /\ a[p].inFilter = adj[n][p].inFilter
    <2>1. p \in DOMAIN adj[n] /\ adj[n][p] \in AdjacentPeer /\ RoleFits(adj[n][p], p) /\ p \in Node
      BY <1>3, <1>5
    <2>2. CASE p = m /\ ~stale
      <3>1. a[p] = [adj[n][p] EXCEPT !.roleSeq = msg.seq, !.client = FALSE]
        BY <1>5, <2>2
      <3>2. a[p] \in AdjacentPeer
        BY <1>2, <2>1, <3>1 DEF AdjacentPeer
      <3>3. /\ a[p].supported = adj[n][p].supported /\ a[p].client = FALSE
            /\ a[p].outFilter = adj[n][p].outFilter
            /\ a[p].inSeq = adj[n][p].inSeq /\ a[p].inFilter = adj[n][p].inFilter
        BY <2>1, <3>1 DEF AdjacentPeer
      <3>4. p \notin Client
        BY <1>2, <2>2 DEF Core
      <3> QED
        BY <1>4, <2>1, <2>2, <3>2, <3>3, <3>4 DEF RoleFits
    <2>3. CASE ~(p = m /\ ~stale)
      <3>1. a[p] = adj[n][p]
        BY <1>5, <2>1, <2>3
      <3> QED
        BY <2>1, <2>3, <3>1
    <2> QED
      BY <2>2, <2>3
  <1>14. Filtered(n, rcvd, t, k, a, ms)
    <2>1. \A p \in DOMAIN a : p \in Node /\ a[p] \in AdjacentPeer
      BY <1>13
    <2> QED
      BY <1>1, <1>2, <1>7, <2>1, BecomeFiltered
  <1>15. net \ rcvd \subseteq net' /\ carrier' \subseteq carrier
    BY <1>1, <1>14 DEF Filtered
  <1>16. RolesAsked(n, a)
    <2>1. \A j : {n, j} \in carrier' =>
             /\ a[j].supported = adj[n][j].supported
             /\ j \in Client => a[j].client = adj[n][j].client
      <3>1. \A j : {n, j} \in carrier' => j \in DOMAIN a
        BY <1>1, <1>5, CarrierHeld
      <3> QED
        BY <1>13, <3>1
    <2>2. \A f \in rcvd : \/ f.type \notin {"ClientOnly", "ClientSupport"}
                          \/ {f.from, f.to} \notin carrier'
      BY <1>8
    <2> QED
      BY <1>2, <1>15, <2>1, <2>2, AskedStill, ZenonT(40)
  <1>17. ASSUME n \in Core, ~owed'[n]
         PROVE  Current(n, t, k, adj'[n])
    <2>1. CASE ms = DOMAIN a
      <3>1. Core \cap DOMAIN a \subseteq ms
        BY <2>1
      <3> QED
        BY <1>14, <1>17, <3>1, CurrentNew
    <2>2. CASE ms # DOMAIN a
      <3>1. t = tree[n] /\ ~owed[n]
            /\ (IsTreePeer(n, tree[n], known[n], m) <=> IsTreePeer(n, t, k, m))
        BY <1>7, <1>9, <1>10, <1>12, <1>17, <2>2
      <3>2. \A p : IsTreePeer(n, tree[n], known[n], p) <=> IsTreePeer(n, t, k, p)
        <4> TAKE p
        <4>1. CASE p = m
          BY <3>1, <4>1
        <4>2. CASE p # m
          BY <1>6, <3>1, <4>2 DEF IsTreePeer
        <4> QED
          BY <4>1, <4>2
      <3>3. \A j, p : Feeds(n, tree[n], known[n], adj[n], j, p) <=> Feeds(n, t, k, a, j, p)
        BY <1>5, <1>13, <3>2 DEF Feeds
      <3>4. \A j, p : Feeds(n, tree[n], known[n], adj[n], j, p) => adj[n][p].inFilter = a[p].inFilter
        BY <1>5, <1>13 DEF Feeds
      <3>5. \A j \in Core \cap DOMAIN a :
               /\ j \in DOMAIN adj[n] /\ a[j].outFilter = adj[n][j].outFilter
               /\ \A p \in DOMAIN a \ {j} : a[p].client => p \in DOMAIN adj[n] /\ adj[n][p].client
        BY <1>5, <1>13
      <3> QED
        BY <1>14, <1>17, <3>1, <3>3, <3>4, <3>5, CurrentStill
    <2> QED
      BY <2>1, <2>2
  <1>18. \A f \in rcvd : f.to = n /\ f.type # "FilterAnnounce"
    BY <1>8
  <1> QED
    BY <1>1, <1>2, <1>5, <1>11, <1>13, <1>14, <1>16, <1>17, <1>18, RoleKeeps

\* A handler that takes one message off, sends no filter and leaves the place alone.
LEMMA OneFiltered ==
    ASSUME NEW n \in Node, NEW rcvd, NEW a, adj'[n] = a,
           \A p \in DOMAIN a : a[p] \in AdjacentPeer,
           \A j \in Node \ {n} : adj'[j] = adj[j],
           UNCHANGED <<tree, known, count>>, net \ rcvd \subseteq net',
           \A f \in net' : f.type = "FilterAnnounce" => f \in net \ rcvd
    PROVE  Filtered(n, rcvd, tree[n], known[n], a, {})
  <1>1. \A p \in DOMAIN a : SameButOut(a[p], a[p])
    BY DEF SameButOut
  <1> QED
    BY <1>1 DEF Filtered

\* Only the role of m is in question.
LEMMA AskedBut ==
    ASSUME TreeInv, Filtering, carrier' = carrier, NEW n \in Node, NEW m, NEW rcvd, NEW a,
           net \ rcvd \subseteq net',
           \A f \in rcvd : f.from = m /\ f.to = n,
           \A j : {n, j} \in carrier' /\ j # m =>
              a[j].supported = adj[n][j].supported /\ a[j].client = adj[n][j].client,
           m \in Client /\ n \in Core => Asked(n, m, a[m], adj[m][n], net'),
           m \in Core /\ n \in Client => Asked(m, n, adj[m][n], a[m], net')
    PROVE  RolesAsked(n, a)
  <1>2. ASSUME NEW c \in Client, n \in Core, {n, c} \in carrier'
        PROVE  Asked(n, c, a[c], adj[c][n], net')
    <2>1. CASE c = m
      BY <1>2, <2>1
    <2>2. CASE c # m
      <3>1. Asked(n, c, adj[n][c], adj[c][n], net)
        BY <1>2 DEF Filtering
      <3>2. a[c].supported = adj[n][c].supported /\ a[c].client = adj[n][c].client
        BY <1>2, <2>2
      <3>3. \A f \in net : f.from \in {n, c} /\ f.to \in {n, c} => f \in net'
        <4> SUFFICES ASSUME NEW f \in net, f.from \in {n, c}, f.to \in {n, c}, f \in rcvd
                     PROVE  FALSE
          OBVIOUS
        <4>1. {f.from, f.to} \in carrier /\ f.from = m /\ f.to = n
          BY DEF TreeInv, FramesFit
        <4> QED
          BY <2>2, <4>1, CarrierHeld
      <3> QED
        BY <3>1, <3>2, <3>3, AskedKept
    <2> QED
      BY <2>1, <2>2
  <1>3. ASSUME NEW j \in Core, n \in Client, {j, n} \in carrier'
        PROVE  Asked(j, n, adj[j][n], a[j], net')
    <2>1. CASE j = m
      BY <1>3, <2>1
    <2>2. CASE j # m
      <3>0. {n, j} = {j, n}
        OBVIOUS
      <3>1. Asked(j, n, adj[j][n], adj[n][j], net)
        BY <1>3 DEF Filtering
      <3>2. a[j].supported = adj[n][j].supported
        BY <1>3, <2>2, <3>0
      <3>3. \A f \in net : f.from \in {j, n} /\ f.to \in {j, n} => f \in net'
        <4> SUFFICES ASSUME NEW f \in net, f.from \in {j, n}, f.to \in {j, n}, f \in rcvd
                     PROVE  FALSE
          OBVIOUS
        <4>1. {f.from, f.to} \in carrier /\ f.from = m /\ f.to = n
          BY DEF TreeInv, FramesFit
        <4> QED
          BY <2>2, <4>1, CarrierHeld
      <3> QED
        BY <3>1, <3>2, <3>3, AskedKept
    <2> QED
      BY <2>1, <2>2
  <1> QED
    BY <1>2, <1>3 DEF RolesAsked

\* Filters stay right when nothing that feeds them has changed.
LEMMA CurrentAlike ==
    ASSUME TreeInv, Filtering, NEW n \in Core, NEW rcvd, NEW a,
           Filtered(n, rcvd, tree[n], known[n], a, {}), DOMAIN a = DOMAIN adj[n],
           \A p \in DOMAIN a :
              /\ a[p].outFilter = adj[n][p].outFilter /\ a[p].client = adj[n][p].client
              /\ a[p].inFilter = adj[n][p].inFilter
    PROVE  owed[n] \/ Current(n, tree[n], known[n], adj'[n])
  <1> SUFFICES ASSUME ~owed[n] PROVE Current(n, tree[n], known[n], adj'[n])
    OBVIOUS
  <1>1. \A j, p : Feeds(n, tree[n], known[n], adj[n], j, p) <=>
                     Feeds(n, tree[n], known[n], a, j, p)
    BY DEF Feeds
  <1>2. \A j, p : Feeds(n, tree[n], known[n], adj[n], j, p) => adj[n][p].inFilter = a[p].inFilter
    BY DEF Feeds
  <1>3. \A j \in Core \cap DOMAIN a :
           /\ j \in DOMAIN adj[n] /\ a[j].outFilter = adj[n][j].outFilter
           /\ \A p \in DOMAIN a \ {j} : a[p].client => p \in DOMAIN adj[n] /\ adj[n][p].client
    OBVIOUS
  <1> QED
    BY <1>1, <1>2, <1>3, CurrentStill

LEMMA ReceiveSupportFilters ==
    ASSUME TreeInv, Filtering, NEW msg \in net, NEW n, ReceiveSupport(n, msg)
    PROVE  Filtering'
  <1> DEFINE m == msg.from
             b == [adj[n] EXCEPT ![m].supported = TRUE]
             rcvd == {msg}
  <1>1. msg.to = n /\ msg.type = "ClientSupport" /\ mesh' = mesh /\ carrier' = carrier /\ owed' = owed
    BY DEF ReceiveSupport
  <1>2. n \in Node /\ m \in Node /\ m \in DOMAIN adj[n] /\ {n, m} \in carrier /\ n # m
    <2>1. {m, n} \in carrier /\ {n, m} = {m, n}
      BY <1>1 DEF TreeInv, FramesFit
    <2> QED
      BY <1>1, <2>1, FromPeer, CarrierHeld
  <1>3. \A p \in DOMAIN adj[n] : p \in Node /\ RoleFits(adj[n][p], p) /\ adj[n][p] \in AdjacentPeer
    BY <1>2, PeersKept
  <1>4. \/ /\ adj[n][m].supported
           /\ net' = net \ rcvd /\ UNCHANGED <<adj, tree, known, count>>
        \/ n \in Client /\ Become(n, rcvd, tree[n], known[n], b, {m}, {})
        \/ /\ n \in Core /\ adj' = [adj EXCEPT ![n] = b]
           /\ net' = (net \ rcvd) \cup Carried({SupportFrame(n, m)})
           /\ UNCHANGED <<tree, known, count>>
    BY <1>2 DEF ReceiveSupport, SupportFrame, Core
  <1>5. /\ DOMAIN b = DOMAIN adj[n] /\ b[m] = [adj[n][m] EXCEPT !.supported = TRUE]
        /\ \A p \in DOMAIN adj[n] \ {m} : b[p] = adj[n][p]
    <2> HIDE DEF m
    <2> QED
      BY <1>2
  <1>6. /\ SupportFrame(n, m).from = n /\ SupportFrame(n, m).to = m
        /\ SupportFrame(n, m).type = "ClientSupport"
    BY DEF SupportFrame, Frame
  <1>7. rcvd = {msg} /\ m = msg.from
    OBVIOUS
  <1> HIDE DEF m, b, rcvd
  <1>8. \A f \in rcvd : /\ f.from = m /\ f.to = n /\ f.type = "ClientSupport"
                        /\ f # SupportFrame(n, m)
    BY <1>1, <1>2, <1>6, <1>7
  <1>9. ASSUME NEW p \in DOMAIN adj[n]
        PROVE  /\ b[p] \in AdjacentPeer /\ RoleFits(b[p], p)
               /\ p # m => b[p].supported = adj[n][p].supported
               /\ b[p].client = adj[n][p].client
               /\ b[p].outFilter = adj[n][p].outFilter
               /\ b[p].inSeq = adj[n][p].inSeq /\ b[p].inFilter = adj[n][p].inFilter
    <2>1. adj[n][p] \in AdjacentPeer /\ RoleFits(adj[n][p], p)
      BY <1>3
    <2>2. CASE p = m
      <3>1. b[p] = [adj[n][p] EXCEPT !.supported = TRUE]
        BY <1>5, <2>2
      <3>2. b[p] \in AdjacentPeer
        BY <2>1, <3>1 DEF AdjacentPeer
      <3>3. /\ b[p].client = adj[n][p].client /\ b[p].roleSeq = adj[n][p].roleSeq
            /\ b[p].outFilter = adj[n][p].outFilter
            /\ b[p].inSeq = adj[n][p].inSeq /\ b[p].inFilter = adj[n][p].inFilter
        BY <2>1, <3>1 DEF AdjacentPeer
      <3> QED
        BY <2>1, <2>2, <3>2, <3>3 DEF RoleFits
    <2>3. CASE p # m
      <3>1. b[p] = adj[n][p]
        BY <1>5, <2>3
      <3> QED
        BY <2>1, <3>1
    <2> QED
      BY <2>2, <2>3
  <1>10. b[m].supported
    <2>1. adj[n][m] \in AdjacentPeer
      BY <1>2, <1>3
    <2> QED
      BY <1>5, <2>1 DEF AdjacentPeer
  \* A handler that leaves this of the peers keeps the rest.
  <1>11. ASSUME NEW a, Filtered(n, rcvd, tree[n], known[n], a, {}), a = adj[n] \/ a = b,
                m \in Client /\ n \in Core => Asked(n, m, a[m], adj[m][n], net'),
                m \in Core /\ n \in Client => Asked(m, n, adj[m][n], a[m], net')
         PROVE  Filtering'
    <2>1. DOMAIN a = DOMAIN adj[n]
      BY <1>5, <1>11
    <2>2. ASSUME NEW p \in DOMAIN a
          PROVE  /\ RoleFits(a[p], p) /\ a[p].client = adj[n][p].client
                 /\ p # m => a[p].supported = adj[n][p].supported
                 /\ a[p].outFilter = adj[n][p].outFilter
                 /\ a[p].inSeq = adj[n][p].inSeq /\ a[p].inFilter = adj[n][p].inFilter
      <3>1. CASE a = adj[n]
        BY <1>3, <3>1
      <3>2. CASE a = b
        BY <1>9, <2>1, <3>2
      <3> QED
        BY <1>11, <3>1, <3>2
    <2>3. net \ rcvd \subseteq net'
      BY <1>11 DEF Filtered
    <2>4. RolesAsked(n, a)
      <3>1. \A j : {n, j} \in carrier' /\ j # m =>
               a[j].supported = adj[n][j].supported /\ a[j].client = adj[n][j].client
        <4>1. \A j : {n, j} \in carrier' => j \in DOMAIN a
          BY <1>1, <2>1, CarrierHeld
        <4> QED
          BY <2>2, <4>1
      <3>2. \A f \in rcvd : f.from = m /\ f.to = n
        BY <1>8
      <3> QED
        BY <1>1, <1>2, <1>11, <2>3, <3>1, <3>2, AskedBut
    <2>5. n \in Core => owed'[n] \/ Current(n, tree[n], known[n], adj'[n])
      BY <1>1, <1>11, <2>1, <2>2, CurrentAlike
    <2>6. /\ \A f \in rcvd : f.to = n /\ f.type # "FilterAnnounce"
          /\ \A j \in Node \ {n} : owed'[j] = owed[j]
      BY <1>1, <1>8
    <2> QED
      BY <1>1, <1>2, <1>11, <2>1, <2>2, <2>4, <2>5, <2>6, RoleKeeps
  <1>12. CASE /\ adj[n][m].supported
              /\ net' = net \ rcvd /\ UNCHANGED <<adj, tree, known, count>>
    <2>1. Filtered(n, rcvd, tree[n], known[n], adj[n], {})
      BY <1>2, <1>3, <1>12, OneFiltered
    <2>2. /\ m \in Client /\ n \in Core => Asked(n, m, adj[n][m], adj[m][n], net')
          /\ m \in Core /\ n \in Client => Asked(m, n, adj[m][n], adj[n][m], net')
      <3>1. {m, n} = {n, m}
        OBVIOUS
      <3>2. /\ m \in Client /\ n \in Core => Asked(n, m, adj[n][m], adj[m][n], net)
            /\ m \in Core /\ n \in Client => Asked(m, n, adj[m][n], adj[n][m], net)
        BY <1>2, <3>1 DEF Filtering
      <3>3. /\ SupportFrame(n, m) \in net => SupportFrame(n, m) \in net'
            /\ \A f \in net : f.type = "ClientOnly" => f \in net'
        BY <1>8, <1>12
      <3> QED
        BY <1>12, <3>2, <3>3 DEF Asked
    <2> QED
      BY <1>11, <2>1, <2>2
  <1>13. CASE n \in Client /\ Become(n, rcvd, tree[n], known[n], b, {m}, {})
    <2>1. Filtered(n, rcvd, tree[n], known[n], b, {})
      <3>1. \A p \in DOMAIN b : p \in Node /\ b[p] \in AdjacentPeer
        BY <1>3, <1>5, <1>9
      <3>2. {} \in SUBSET DOMAIN b
        OBVIOUS
      <3> QED
        BY <1>2, <1>13, <3>1, <3>2, BecomeFiltered
    <2>2. \E f \in net' : f.from = n /\ f.to = m /\ f.type = "ClientOnly"
      <3>1. m \in {m}
        OBVIOUS
      <3> QED
        BY <1>2, <1>10, <1>13, <3>1, RoleSent
    <2>3. Asked(m, n, adj[m][n], b[m], net') /\ n \notin Core
      BY <1>10, <1>13, <2>2 DEF Asked, Core
    <2> QED
      BY <1>11, <2>1, <2>3
  <1>14. CASE /\ n \in Core /\ adj' = [adj EXCEPT ![n] = b]
              /\ net' = (net \ rcvd) \cup Carried({SupportFrame(n, m)})
              /\ UNCHANGED <<tree, known, count>>
    <2>1. Filtered(n, rcvd, tree[n], known[n], b, {})
      <3>1. DOMAIN adj = Node
        BY DEF TreeInv, Tables
      <3>2. adj'[n] = b /\ \A j \in Node \ {n} : adj'[j] = adj[j]
        BY <1>2, <1>14, <3>1
      <3>3. /\ net \ rcvd \subseteq net'
            /\ \A f \in net' : f.type = "FilterAnnounce" => f \in net \ rcvd
        BY <1>6, <1>14 DEF Carried
      <3>4. \A p \in DOMAIN b : b[p] \in AdjacentPeer
        BY <1>5, <1>9
      <3> QED
        BY <1>2, <1>14, <3>2, <3>3, <3>4, OneFiltered
    <2>2. SupportFrame(n, m) \in net' /\ \A f \in net : f.type = "ClientOnly" => f \in net'
      BY <1>2, <1>6, <1>8, <1>14 DEF Carried
    <2>3. m \in Client => Asked(n, m, adj[n][m], adj[m][n], net)
      BY <1>2, <1>14 DEF Filtering
    <2>4. b[m].client = adj[n][m].client /\ adj[m][n].supported \in BOOLEAN
      <3>1. n \in DOMAIN adj[m]
        BY <1>2, CarrierHeld
      <3> QED
        BY <1>2, <1>9, <3>1 DEF Filtering, RoleFits, AdjacentPeer
    <2>5. m \in Client => Asked(n, m, b[m], adj[m][n], net')
      <3>1. CASE adj[m][n].supported
        BY <2>2, <2>3, <2>4, <3>1 DEF Asked
      <3>2. CASE ~adj[m][n].supported
        BY <1>10, <2>2, <3>2 DEF Asked
      <3> QED
        BY <3>1, <3>2
    <2>6. n \notin Client
      BY <1>14 DEF Core
    <2> QED
      BY <1>11, <2>1, <2>5, <2>6
  <1> QED
    BY <1>4, <1>12, <1>13, <1>14

LEMMA ReceiveClientOnlyFilters ==
    ASSUME TreeInv, Telling, Filtering, NEW msg \in net, NEW n, ReceiveClientOnly(n, msg)
    PROVE  Filtering'
  <1> DEFINE m == msg.from
             p == adj[n][m]
             stale == p.roleSeq > 0 /\ (msg.seq < p.roleSeq \/ (msg.seq = p.roleSeq /\ ~p.client))
             k == Without(known[n], m)
             t == IF m \in DOMAIN known[n] THEN Evaluated(n, tree[n], k) ELSE tree[n]
             b == [adj[n] EXCEPT ![m].roleSeq = msg.seq, ![m].supported = TRUE,
                                 ![m].client = TRUE]
             told == IF t # tree[n] THEN DOMAIN b ELSE {}
             rcvd == {msg}
             none == {}
  <1>1. /\ msg.to = n /\ msg.type = "ClientOnly" /\ mesh' = mesh /\ carrier' = carrier
        /\ owed' = owed
    BY DEF ReceiveClientOnly
  <1>2. /\ n \in Node /\ m \in Node /\ m \in DOMAIN adj[n] /\ {n, m} \in carrier /\ n # m
        /\ msg.seq \in Nat
    <2>1. {m, n} \in carrier /\ {n, m} = {m, n}
      BY <1>1 DEF TreeInv, FramesFit
    <2> QED
      BY <1>1, <2>1, FromPeer, CarrierHeld DEF FrameOK, Frames
  <1>3. \A j \in DOMAIN adj[n] : j \in Node /\ RoleFits(adj[n][j], j) /\ adj[n][j] \in AdjacentPeer
    BY <1>2, PeersKept
  <1>4. m \in Client /\ m \notin Core /\ Placed(n, tree[n], known[n])
    BY <1>1, <1>2 DEF Telling, Tells, Core
  <1>5. k = known[n] /\ t = tree[n]
    <2>1. m \notin DOMAIN known[n] /\ known[n] = [j \in DOMAIN known[n] |-> known[n][j]]
      BY <1>4 DEF Placed
    <2>2. DOMAIN known[n] \ {m} = DOMAIN known[n]
      BY <2>1
    <2> HIDE DEF m
    <2> QED
      BY <2>1, <2>2 DEF Without
  <1>6. \/ stale /\ net' = net \ rcvd /\ UNCHANGED <<adj, tree, known, count>>
        \/ p.client /\ Become(n, rcvd, tree[n], known[n], b, none, none)
        \/ Become(n, rcvd, tree[n], known[n], b, told, DOMAIN b)
    BY <1>5 DEF ReceiveClientOnly
  <1>7. stale => p.client
    <2>1. RoleFits(p, m)
      BY <1>2, <1>3
    <2> QED
      BY <1>4, <2>1 DEF RoleFits, AdjacentPeer
  <1>8. /\ DOMAIN b = DOMAIN adj[n]
        /\ b[m] = [adj[n][m] EXCEPT !.roleSeq = msg.seq, !.supported = TRUE, !.client = TRUE]
        /\ \A j \in DOMAIN adj[n] \ {m} : b[j] = adj[n][j]
    <2> HIDE DEF m
    <2> QED
      BY <1>2
  <1>9. p = adj[n][m] /\ none = {}
    OBVIOUS
  <1>10. \A f \in rcvd : f.from = m /\ f.to = n /\ f.type # "FilterAnnounce"
    BY <1>1
  <1> HIDE DEF m, p, stale, b, k, t, told, rcvd, none
  <1>11. ASSUME NEW j \in DOMAIN adj[n]
         PROVE  /\ b[j] \in AdjacentPeer /\ RoleFits(b[j], j)
                /\ IF j = m THEN b[j].client
                   ELSE b[j].supported = adj[n][j].supported /\ b[j].client = adj[n][j].client
                /\ b[j].outFilter = adj[n][j].outFilter
                /\ b[j].inSeq = adj[n][j].inSeq /\ b[j].inFilter = adj[n][j].inFilter
    <2>1. adj[n][j] \in AdjacentPeer /\ RoleFits(adj[n][j], j)
      BY <1>3
    <2>2. CASE j = m
      <3>1. b[j] = [adj[n][j] EXCEPT !.roleSeq = msg.seq, !.supported = TRUE, !.client = TRUE]
        BY <1>8, <2>2
      <3>2. b[j] \in AdjacentPeer
        BY <1>2, <2>1, <3>1 DEF AdjacentPeer
      <3>3. /\ b[j].client /\ b[j].outFilter = adj[n][j].outFilter
            /\ b[j].inSeq = adj[n][j].inSeq /\ b[j].inFilter = adj[n][j].inFilter
        BY <2>1, <3>1 DEF AdjacentPeer
      <3> QED
        BY <1>4, <2>1, <2>2, <3>2, <3>3 DEF RoleFits
    <2>3. CASE j # m
      <3>1. b[j] = adj[n][j]
        BY <1>8, <2>3
      <3> QED
        BY <2>1, <2>3, <3>1
    <2> QED
      BY <2>2, <2>3
  \* A handler that takes m for a client keeps the rest.
  <1>12. ASSUME NEW a, NEW ms, Filtered(n, rcvd, tree[n], known[n], a, ms),
                a = adj[n] \/ a = b, a[m].client,
                n \in Core => owed'[n] \/ Current(n, tree[n], known[n], adj'[n])
         PROVE  Filtering'
    <2>1. DOMAIN a = DOMAIN adj[n]
      BY <1>8, <1>12
    <2>2. ASSUME NEW j \in DOMAIN a
          PROVE  /\ RoleFits(a[j], j) /\ a[j].outFilter = adj[n][j].outFilter
                 /\ j # m => a[j].supported = adj[n][j].supported /\ a[j].client = adj[n][j].client
                 /\ a[j].inSeq = adj[n][j].inSeq /\ a[j].inFilter = adj[n][j].inFilter
      <3>1. CASE a = adj[n]
        BY <1>3, <3>1
      <3>2. CASE a = b
        BY <1>11, <2>1, <3>2
      <3> QED
        BY <1>12, <3>1, <3>2
    <2>3. net \ rcvd \subseteq net'
      BY <1>12 DEF Filtered
    <2>4. RolesAsked(n, a)
      <3>1. \A j : {n, j} \in carrier' /\ j # m =>
               a[j].supported = adj[n][j].supported /\ a[j].client = adj[n][j].client
        <4>1. \A j : {n, j} \in carrier' => j \in DOMAIN a
          BY <1>1, <2>1, CarrierHeld
        <4> QED
          BY <2>2, <4>1
      <3>2. \A f \in rcvd : f.from = m /\ f.to = n
        BY <1>10
      <3>3. Asked(n, m, a[m], adj[m][n], net')
        BY <1>12 DEF Asked
      <3> QED
        BY <1>1, <1>2, <1>4, <2>3, <3>1, <3>2, <3>3, AskedBut
    <2>5. /\ \A f \in rcvd : f.to = n /\ f.type # "FilterAnnounce"
          /\ \A j \in Node \ {n} : owed'[j] = owed[j]
      BY <1>1, <1>10
    <2> QED
      BY <1>1, <1>2, <1>12, <2>1, <2>2, <2>4, <2>5, RoleKeeps
  <1>13. CASE stale /\ net' = net \ rcvd /\ UNCHANGED <<adj, tree, known, count>>
    <2>1. Filtered(n, rcvd, tree[n], known[n], adj[n], {})
      BY <1>2, <1>3, <1>13, OneFiltered
    <2>2. n \in Core => owed'[n] \/ Current(n, tree[n], known[n], adj'[n])
      BY <1>1, <2>1, CurrentAlike
    <2> QED
      BY <1>7, <1>9, <1>12, <1>13, <2>1, <2>2
  <1>14. \A j \in DOMAIN b : j \in Node /\ b[j] \in AdjacentPeer
    BY <1>3, <1>8, <1>11
  <1>15. b[m].client
    BY <1>2, <1>11
  <1>16. CASE p.client /\ Become(n, rcvd, tree[n], known[n], b, none, none)
    <2>1. Filtered(n, rcvd, tree[n], known[n], b, none)
      <3>1. none \in SUBSET DOMAIN b
        BY <1>9
      <3> QED
        BY <1>2, <1>14, <1>16, <3>1, BecomeFiltered
    <2>2. \A j \in DOMAIN b : /\ b[j].outFilter = adj[n][j].outFilter /\ b[j].client = adj[n][j].client
                              /\ b[j].inFilter = adj[n][j].inFilter
      <3>1. adj[n][m].client \in BOOLEAN /\ b[m].client \in BOOLEAN
        BY <1>2, <1>3, <1>11 DEF AdjacentPeer
      <3>2. b[m].client = adj[n][m].client
        BY <1>9, <1>15, <1>16, <3>1
      <3> QED
        BY <1>8, <1>11, <3>2
    <2>3. n \in Core => owed'[n] \/ Current(n, tree[n], known[n], adj'[n])
      <3>1. Filtered(n, rcvd, tree[n], known[n], b, {})
        BY <1>9, <2>1
      <3> QED
        BY <1>1, <1>8, <2>2, <3>1, CurrentAlike
    <2> QED
      BY <1>12, <1>15, <2>1, <2>3
  <1>17. CASE Become(n, rcvd, tree[n], known[n], b, told, DOMAIN b)
    <2>1. Filtered(n, rcvd, tree[n], known[n], b, DOMAIN b)
      <3>1. DOMAIN b \in SUBSET DOMAIN b
        OBVIOUS
      <3> QED
        BY <1>2, <1>14, <1>17, <3>1, BecomeFiltered
    <2>2. n \in Core => Current(n, tree[n], known[n], adj'[n])
      <3>1. Core \cap DOMAIN b \subseteq DOMAIN b
        OBVIOUS
      <3> QED
        BY <2>1, <3>1, CurrentNew
    <2> QED
      BY <1>12, <1>15, <2>1, <2>2
  <1> QED
    BY <1>6, <1>13, <1>16, <1>17

\* The node that forgets m renews its filters if m fed them.
LEMMA ForgetFilters ==
    ASSUME TreeInv, Telling, Filtering, NEW n \in Node, NEW m \in Node, Forget(n, m),
           mesh' = mesh, carrier' \subseteq carrier, {n, m} \notin carrier', owed' = owed
    PROVE  Filtering'
  <1> DEFINE k == Without(known[n], m)
             a == Without(adj[n], m)
             t == IF m \in DOMAIN known[n] THEN Evaluated(n, tree[n], k) ELSE tree[n]
             changed == t # tree[n]
             told == IF changed THEN DOMAIN a ELSE {}
             ms == IF changed \/ IsTreePeer(n, tree[n], known[n], m) THEN DOMAIN a ELSE {}
             rcvd == {msg \in net : {msg.from, msg.to} = {n, m}}
  <1>1. Become(n, rcvd, t, k, a, told, ms)
    BY DEF Forget
  <1>2. /\ DOMAIN a = DOMAIN adj[n] \ {m} /\ \A j \in DOMAIN a : a[j] = adj[n][j]
        /\ DOMAIN k = DOMAIN known[n] \ {m} /\ \A j \in DOMAIN k : k[j] = known[n][j]
    BY DEF Without
  <1>3. /\ ms \in SUBSET DOMAIN a
        /\ ms # DOMAIN a => t = tree[n] /\ ~IsTreePeer(n, tree[n], known[n], m)
    OBVIOUS
  <1>4. \A f \in rcvd : {f.from, f.to} \notin carrier'
    OBVIOUS
  <1>5. \A j : {n, j} \in carrier' => {n, j} \in carrier /\ j # m
    OBVIOUS
  <1> HIDE DEF k, a, t, changed, told, ms, rcvd
  <1>6. \A p \in DOMAIN adj[n] : p \in Node /\ RoleFits(adj[n][p], p) /\ adj[n][p] \in AdjacentPeer
    BY PeersKept
  <1>7. \A p \in DOMAIN a : p \in Node /\ a[p] \in AdjacentPeer /\ RoleFits(a[p], p)
    BY <1>2, <1>6
  <1>8. Filtered(n, rcvd, t, k, a, ms)
    BY <1>1, <1>3, <1>7, BecomeFiltered
  <1>9. \A j : {n, j} \in carrier' => j \in DOMAIN a /\ a[j] = adj[n][j]
    <2> SUFFICES ASSUME NEW j, {n, j} \in carrier' PROVE j \in DOMAIN a /\ a[j] = adj[n][j]
      OBVIOUS
    <2>1. {n, j} \in carrier /\ j # m
      BY <1>5
    <2>2. j \in DOMAIN adj[n]
      BY <2>1, CarrierHeld
    <2> QED
      BY <1>2, <2>1, <2>2
  <1>10. net \ rcvd \subseteq net'
    BY <1>8 DEF Filtered
  <1>11. RolesAsked(n, a)
    <2>1. \A j : {n, j} \in carrier' =>
             /\ a[j].supported = adj[n][j].supported
             /\ j \in Client => a[j].client = adj[n][j].client
      BY <1>9
    <2>2. \A f \in rcvd : \/ f.type \notin {"ClientOnly", "ClientSupport"}
                          \/ {f.from, f.to} \notin carrier'
      BY <1>4
    <2> QED
      BY <1>10, <2>1, <2>2, AskedStill, ZenonT(40)
  <1>12. ASSUME NEW j \in Core, n \in Core, {j, n} \in carrier'
         PROVE  Delivers(j, n, adj[j][n], a[j], count[j].filter, net \ rcvd)
    <2>1. {n, j} = {j, n}
      OBVIOUS
    <2>2. a[j].inSeq = adj[n][j].inSeq /\ a[j].inFilter = adj[n][j].inFilter
      BY <1>9, <1>12, <2>1
    <2>3. \A f \in rcvd : f.type = "FilterAnnounce" => {f.from, f.to} \notin carrier'
      BY <1>4
    <2> QED
      BY <1>12, <2>2, <2>3, FeedStill
  <1>13. ASSUME n \in Core, ~owed'[n]
         PROVE  Current(n, t, k, adj'[n])
    <2>1. CASE ms = DOMAIN a
      <3>1. Core \cap DOMAIN a \subseteq ms
        BY <2>1
      <3> QED
        BY <1>8, <1>13, <3>1, CurrentNew
    <2>2. CASE ms # DOMAIN a
      <3>1. t = tree[n] /\ ~owed[n] /\ ~IsTreePeer(n, tree[n], known[n], m)
        BY <1>3, <1>13, <2>2
      <3>2. \A p : p # m => (IsTreePeer(n, tree[n], known[n], p) <=> IsTreePeer(n, t, k, p))
        BY <1>2, <3>1 DEF IsTreePeer
      <3>3. \A j, p : Feeds(n, tree[n], known[n], adj[n], j, p) <=> Feeds(n, t, k, a, j, p)
        BY <1>2, <3>1, <3>2 DEF Feeds
      <3>4. \A j, p : Feeds(n, tree[n], known[n], adj[n], j, p) => adj[n][p].inFilter = a[p].inFilter
        BY <1>2, <3>1 DEF Feeds
      <3>5. \A j \in Core \cap DOMAIN a :
               /\ j \in DOMAIN adj[n] /\ a[j].outFilter = adj[n][j].outFilter
               /\ \A p \in DOMAIN a \ {j} : a[p].client => p \in DOMAIN adj[n] /\ adj[n][p].client
        BY <1>2
      <3> QED
        BY <1>8, <1>13, <3>1, <3>3, <3>4, <3>5, CurrentStill
    <2> QED
      BY <2>1, <2>2
  <1>14. /\ \A p \in DOMAIN a : RoleFits(a[p], p)
         /\ \A j : {n, j} \in carrier' => j \in DOMAIN a
         /\ \A j \in Core : n \in Core /\ {n, j} \in carrier' => a[j].outFilter = adj[n][j].outFilter
         /\ \A j \in Node \ {n} : owed'[j] = owed[j]
         /\ \A f \in rcvd : f.to = n \/ {f.from, f.to} \notin carrier'
         /\ n \in Core => owed'[n] \/ Current(n, t, k, adj'[n])
    BY <1>4, <1>7, <1>9, <1>13
  <1> QED
    BY <1>8, <1>11, <1>12, <1>14, FilterKeeps DEF RolesAsked

LEMMA BreakFilters ==
    ASSUME TreeInv, Telling, Filtering, NEW n \in Node, NEW m \in Node, Break(n, m)
    PROVE  Filtering'
  <1>1. /\ Forget(n, m) /\ mesh' = mesh /\ owed' = owed
        /\ carrier' \subseteq carrier /\ {n, m} \notin carrier'
    BY DEF Break
  <1> QED
    BY <1>1, ForgetFilters

LEMMA NoticeFilters ==
    ASSUME TreeInv, Telling, Filtering, NEW n \in Node, NEW m \in Node, Notice(n, m)
    PROVE  Filtering'
  <1>1. /\ Forget(n, m) /\ mesh' = mesh /\ owed' = owed
        /\ carrier' \subseteq carrier /\ {n, m} \notin carrier'
    BY DEF Notice
  <1> QED
    BY <1>1, ForgetFilters

LEMMA RestartFilters ==
    ASSUME TreeInv, Owing, Filtering, NEW n \in Node, Restart(n)
    PROVE  Filtering'
  <1>1. /\ mesh' = mesh /\ carrier' = {l \in carrier : n \notin l}
        /\ net' = {msg \in net : n \notin {msg.from, msg.to}}
        /\ adj' = [adj EXCEPT ![n] = <<>>]
        /\ tree' = [tree EXCEPT ![n] = NewTree(n)]
        /\ known' = [known EXCEPT ![n] = <<>>]
        /\ count' = [count EXCEPT ![n] = NewCount]
        /\ owed' = [owed EXCEPT ![n] = FALSE]
    BY DEF Restart
  <1>2. /\ DOMAIN tree = Node /\ DOMAIN known = Node /\ DOMAIN adj = Node /\ DOMAIN count = Node
        /\ DOMAIN owed = Node
    BY DEF TreeInv, Tables, Owing
  <1>3. /\ adj'[n] = <<>> /\ DOMAIN adj'[n] = {}
        /\ \A j \in Node \ {n} :
              /\ tree'[j] = tree[j] /\ known'[j] = known[j] /\ adj'[j] = adj[j]
              /\ count'[j] = count[j] /\ owed'[j] = owed[j]
    BY <1>1, <1>2
  <1>4. \A j, m : {j, m} \in carrier' => {j, m} \in carrier /\ j \in Node \ {n} /\ m \in Node \ {n}
    BY <1>1, CarrierHeld
  <1>5. \A j, m : {j, m} \in carrier' => \A f \in net : f.from \in {j, m} /\ f.to \in {j, m} => f \in net'
    BY <1>1
  <1>6. net' \subseteq net
    BY <1>1
  <1>7. \A j \in Node : \A m \in DOMAIN adj'[j] : RoleFits(adj'[j][m], m)
    BY <1>3 DEF Filtering
  <1>8. ASSUME NEW j \in Core, NEW c \in Client, {j, c} \in carrier'
        PROVE  Asked(j, c, adj'[j][c], adj'[c][j], net')
    <2>1. adj'[j] = adj[j] /\ adj'[c] = adj[c]
      BY <1>3, <1>4, <1>8
    <2>2. Asked(j, c, adj[j][c], adj[c][j], net)
      BY <1>4, <1>8 DEF Filtering
    <2>3. \A f \in net : f.from \in {j, c} /\ f.to \in {j, c} => f \in net'
      BY <1>5, <1>8
    <2>4. Asked(j, c, adj[j][c], adj[c][j], net')
      BY <2>2, <2>3, AskedKept
    <2> QED
      BY <2>1, <2>4
  <1>9. ASSUME NEW j \in Core, NEW m \in Core, {j, m} \in carrier'
        PROVE  Delivers(j, m, adj'[j][m], adj'[m][j], count'[j].filter, net')
    <2>1. adj'[j] = adj[j] /\ adj'[m] = adj[m] /\ count'[j] = count[j]
      BY <1>3, <1>4, <1>9
    <2>2. Delivers(j, m, adj[j][m], adj[m][j], count[j].filter, net)
      BY <1>4, <1>9 DEF Filtering
    <2>3. count[j].filter \in Nat /\ count[j].filter <= count[j].filter
      BY DEF TreeInv, Tables, Core
    <2>4. \A f \in net : f.from = j /\ f.to = m /\ f.type = "FilterAnnounce" => f \in net'
      BY <1>5, <1>9
    <2>5. \A f \in net' : f.from = j /\ f.to = m /\ f.type = "FilterAnnounce" => f \in net
      BY <1>6
    <2>6. Delivers(j, m, adj[j][m], adj[m][j], count[j].filter, net')
      BY <2>2, <2>3, <2>4, <2>5, DeliversKept
    <2> QED
      BY <2>1, <2>6
  <1>10. ASSUME NEW j \in Core
         PROVE  owed'[j] \/ Current(j, tree'[j], known'[j], adj'[j])
    <2>1. CASE j = n
      BY <1>3, <2>1 DEF Current
    <2>2. CASE j # n
      <3>1. /\ tree'[j] = tree[j] /\ known'[j] = known[j] /\ adj'[j] = adj[j]
            /\ owed'[j] = owed[j]
        BY <1>3, <2>2 DEF Core
      <3> QED
        BY <3>1 DEF Filtering
    <2> QED
      BY <2>1, <2>2
  <1> QED
    BY <1>1, <1>7, <1>8, <1>9, <1>10, FilteringAfter

\* A node has its parent from an announcement.
LEMMA ParentKnown ==
    ASSUME TreeInv, Telling, NEW n \in Node, Parent(tree[n].ancestry) # n
    PROVE  Parent(tree[n].ancestry) \in DOMAIN known[n]
  <1> DEFINE k == known[n]
             b == Best(n, k)
  <1>1. NodeOK(n, tree[n], k, adj[n]) /\ Placed(n, tree[n], k)
    BY Present DEF Telling
  <1>2. tree[n].ancestry = IF ShouldRoot(n, k) THEN <<n>> ELSE <<n>> \o k[b].ancestry
    BY <1>1 DEF Placed, NextAncestry
  <1>3. ~ShouldRoot(n, k)
    BY <1>2 DEF Parent
  <1>4. Candidates(n, k) # {} /\ DOMAIN k \subseteq Node /\ \A m \in DOMAIN k : EntryOK(m, k[m])
    BY <1>1, <1>3 DEF ShouldRoot, NodeOK
  <1>5. b \in Candidates(n, k)
    BY <1>4, FirstCandidate
  <1>6. b \in DOMAIN k /\ k[b].ancestry \in Seq(Node) /\ Len(k[b].ancestry) > 0 /\ k[b].ancestry[1] = b
    BY <1>4, <1>5 DEF Candidates, EntryOK, TreeEntry, ValidAncestry
  <1> HIDE DEF k, b
  <1>7. Parent(tree[n].ancestry) = b
    BY <1>2, <1>3, <1>6 DEF Parent
  <1> QED
    BY <1>6, <1>7 DEF k

\* What one end of a new link has after it, and what it has sent.
Greets(n, m, g) ==
    /\ DOMAIN g = DOMAIN adj[n] \cup {m} /\ \A j \in DOMAIN adj[n] : g[j] = adj[n][j]
    /\ SameButOut(g[m], NewPeer)
    /\ n \in Core => g[m].outFilter = OutgoingFilter(n, tree[n], known[n], g, m)
    /\ n \in Core => FilterFrame(n, m, count[n].filter + 1, g[m].outFilter) \in Greeting(n, m)
    /\ \A f \in Greeting(n, m) :
          /\ f.from = n /\ f.to = m
          /\ f.type = "FilterAnnounce" =>
                f.seq = count[n].filter + 1 /\ f.filter = g[m].outFilter
    /\ n \in Client => SupportFrame(n, m) \in Greeting(n, m)

\* One end of a new link sends the other its filter, or asks it about its role.
LEMMA GreetingFilters ==
    ASSUME TreeInv, Filtering, NEW n \in Node, NEW m \in Node, n # m, m \notin DOMAIN adj[n]
    PROVE  Greets(n, m, Greeted(n, m))
  <1> DEFINE g == Greeted(n, m)
             c == Connected(adj[n], n, m)
             t == tree[n]
             k == known[n]
             ms == {m}
             out == OutgoingFilter(n, t, k, c, m)
             fc == FilterChanged(n, t, k, c, ms)
             sent == TreeFrames(n, t, c, ms, count[n])
             others == FilterFrames(n, t, k, c, ms, count[n])
  <1>1. Greeting(n, m) = sent \cup others /\ g = Announced(n, t, k, c, ms)
    BY DEF Greeting, Greeted
  <1>2. /\ DOMAIN c = DOMAIN adj[n] \cup {m} /\ c[m] = NewPeer
        /\ \A j \in DOMAIN adj[n] : c[j] = adj[n][j]
    BY DEF Connected
  <1>3. NewPeer \in AdjacentPeer /\ NewPeer.outFilter = {} /\ NewPeer.supported = FALSE
    BY DEF NewPeer, AdjacentPeer
  <1>4. \A p \in DOMAIN adj[n] : p \in Node /\ adj[n][p] \in AdjacentPeer
    BY PeersKept
  <1>5. \A p \in DOMAIN c : p \in Node /\ c[p] \in AdjacentPeer
    BY <1>2, <1>3, <1>4
  <1>6. fc \subseteq {m} /\ DOMAIN g = DOMAIN c
    BY <1>1 DEF FilterChanged, Announced
  <1>7. out \in SUBSET Node /\ n \in out
    <2>1. out \in SUBSET Node
      <3> HIDE DEF c
      <3> QED
        BY <1>5, OutgoingNodes
    <2>2. n \in out
      BY OutgoingMembers
    <2> QED
      BY <2>1, <2>2
  <1>8. \A f \in sent : f.from = n /\ f.to = m /\ f.type # "FilterAnnounce"
    <2> SUFFICES ASSUME NEW f \in sent PROVE f.from = n /\ f.to = m /\ f.type # "FilterAnnounce"
      OBVIOUS
    <2>1. \E seq, e : \/ f = Frame(n, m, "ClientOnly", seq, <<>>, {})
                      \/ f = Frame(n, m, "ClientSupport", seq, <<>>, {})
                      \/ f = Frame(n, m, "TreeAnnounce", seq, e, {})
      BY DEF TreeFrames, RoleFrames
    <2> HIDE DEF sent
    <2> QED
      BY <2>1 DEF Frame
  <1>9. n \in Client => SupportFrame(n, m) \in sent
    <2>1. ~c[m].supported
      BY <1>2, <1>3
    <2> HIDE DEF c
    <2> QED
      BY <2>1 DEF TreeFrames, RoleFrames, SupportFrame
  <1>10. others = {FilterFrame(n, j, count[n].filter + 1, OutgoingFilter(n, t, k, c, j)) : j \in fc}
    BY DEF FilterFrames, FilterFrame
  <1>11. t = tree[n] /\ k = known[n] /\ ms = {m} /\ out = OutgoingFilter(n, t, k, c, m)
         /\ fc = FilterChanged(n, t, k, c, ms)
    OBVIOUS
  <1> HIDE DEF g, c, t, k, out, fc, sent, others, ms
  <1>12. \A j \in DOMAIN adj[n] : g[j] = adj[n][j]
    <2> TAKE j \in DOMAIN adj[n]
    <2>1. j \in DOMAIN c /\ j \notin fc
      BY <1>2, <1>6
    <2>2. g[j] = c[j]
      BY <1>1, <1>11, <2>1 DEF Announced
    <2> QED
      BY <1>2, <2>2
  <1>13. /\ SameButOut(g[m], c[m])
         /\ g[m].outFilter = IF n \in Core /\ m \in ms THEN out ELSE c[m].outFilter
         /\ m \in fc <=> m \in ms /\ n \in Core /\ g[m].outFilter # c[m].outFilter
    <2>1. m \in DOMAIN c /\ c[m] \in AdjacentPeer /\ g[m] = Announced(n, t, k, c, ms)[m]
      BY <1>1, <1>2, <1>5
    <2> QED
      BY <1>7, <1>11, <2>1, AnnouncedPeer
  <1>14. n \in Core => m \in fc /\ g[m].outFilter = out
    BY <1>2, <1>3, <1>7, <1>11, <1>13
  <1>15. OutgoingFilter(n, t, k, g, m) = out
    <2>1. ASSUME NEW p \in DOMAIN c PROVE SameButOut(g[p], c[p])
      <3>1. CASE p = m
        BY <1>13, <3>1
      <3>2. CASE p # m
        <4>1. g[p] = c[p] /\ c[p] \in AdjacentPeer
          BY <1>2, <1>5, <1>12, <3>2
        <4> QED
          BY <4>1 DEF SameButOut
      <3> QED
        BY <3>1, <3>2
    <2> QED
      BY <1>6, <1>11, <2>1, OutgoingSame
  <1>16. \A f \in others : /\ f.from = n /\ f.to = m /\ f.seq = count[n].filter + 1
                           /\ f.filter = g[m].outFilter
    <2> TAKE f \in others
    <2>1. PICK j \in fc : f = FilterFrame(n, j, count[n].filter + 1, OutgoingFilter(n, t, k, c, j))
      BY <1>10
    <2>2. j = m /\ n \in Core
      BY <1>6, <1>13, <2>1
    <2>3. f = FilterFrame(n, m, count[n].filter + 1, g[m].outFilter)
      BY <1>11, <1>14, <2>1, <2>2
    <2> QED
      BY <2>3 DEF FilterFrame, Frame
  <1>17. n \in Core => FilterFrame(n, m, count[n].filter + 1, g[m].outFilter) \in others
    BY <1>10, <1>11, <1>14
  <1>18. Greets(n, m, g)
    BY <1>1, <1>2, <1>6, <1>8, <1>9, <1>11, <1>12, <1>13, <1>14, <1>15, <1>16, <1>17 DEF Greets
  <1> QED
    BY <1>18 DEF g

\* A peer that has said nothing feeds no filter.
LEMMA GreetedCurrent ==
    ASSUME TreeInv, Telling, Filtering, NEW n \in Core, NEW m \in Node, n # m, m \notin DOMAIN adj[n],
           NEW g, g = Greeted(n, m)
    PROVE  owed[n] \/ Current(n, tree[n], known[n], g)
  <1> DEFINE t == tree[n]
             k == known[n]
  <1> SUFFICES ASSUME ~owed[n] PROVE Current(n, t, k, g)
    OBVIOUS
  <1>1. n \in Node /\ n \notin Client
    BY DEF Core
  <1>2. /\ DOMAIN g = DOMAIN adj[n] \cup {m} /\ \A j \in DOMAIN adj[n] : g[j] = adj[n][j]
        /\ SameButOut(g[m], NewPeer) /\ g[m].outFilter = OutgoingFilter(n, t, k, g, m)
    <2>1. Greets(n, m, g)
      BY <1>1, GreetingFilters
    <2> QED
      BY <2>1 DEF Greets
  <1>3. ~IsTreePeer(n, t, k, m)
    <2>1. m \notin DOMAIN k
      BY <1>1, Present DEF NodeOK
    <2> QED
      BY <1>1, <2>1, ParentKnown DEF IsTreePeer
  <1>4. ~g[m].client
    BY <1>2 DEF SameButOut, NewPeer
  <1>5. Current(n, t, k, adj[n])
    BY DEF Filtering
  <1>6. \A p \in DOMAIN adj[n] : adj[n][p].client => p \in Client
    BY <1>1 DEF Filtering, RoleFits
  <1> HIDE DEF t, k
  <1>7. \A j, p : Feeds(n, t, k, adj[n], j, p) <=> Feeds(n, t, k, g, j, p)
    BY <1>2, <1>3 DEF Feeds
  <1>8. \A j, p : Feeds(n, t, k, adj[n], j, p) => adj[n][p].inFilter = g[p].inFilter
    BY <1>2 DEF Feeds
  <1>9. \A j \in Core \cap DOMAIN g : j # m =>
          /\ j \in DOMAIN adj[n] /\ g[j].outFilter = adj[n][j].outFilter
          /\ \A p \in DOMAIN g \ {j} : g[p].client => p \in DOMAIN adj[n] /\ adj[n][p].client
    BY <1>2, <1>4
  <1>10. ASSUME NEW j \in Core \cap DOMAIN g
         PROVE  \/ g[j].outFilter = OutgoingFilter(n, t, k, g, j)
                \/ /\ j \in DOMAIN adj[n] /\ g[j].outFilter = adj[n][j].outFilter
                   /\ \A p \in DOMAIN g \ {j} : g[p].client => p \in DOMAIN adj[n] /\ adj[n][p].client
                   /\ \A p : Feeds(n, t, k, adj[n], j, p) <=> Feeds(n, t, k, g, j, p)
                   /\ \A p : Feeds(n, t, k, adj[n], j, p) => adj[n][p].inFilter = g[p].inFilter
    <2>1. CASE j = m
      BY <1>2, <2>1
    <2>2. CASE j # m
      BY <1>7, <1>8, <1>9, <2>2
    <2> QED
      BY <2>1, <2>2
  <1> QED
    BY <1>5, <1>6, <1>10, CurrentKept

LEMMA EstablishFilters ==
    ASSUME TreeInv, Telling, Filtering, NEW a \in Node, NEW b \in Node, Establish(a, b)
    PROVE  Filtering'
  <1>1. /\ {a, b} \in mesh.links /\ {a, b} \notin carrier
        /\ b \notin DOMAIN adj[a] /\ a \notin DOMAIN adj[b]
        /\ mesh' = mesh /\ carrier' = carrier \cup {{a, b}}
        /\ adj' = [adj EXCEPT ![a] = Greeted(a, b), ![b] = Greeted(b, a)]
        /\ net' = net \cup Greeting(a, b) \cup Greeting(b, a)
        /\ tree' = tree /\ known' = known /\ owed' = owed
    BY DEF Establish
  <1>2. a # b /\ {a, b} = {b, a}
    BY <1>1, LinkEnds DEF TreeInv
  <1>3. DOMAIN adj = Node
    BY DEF TreeInv, Tables
  <1>4. /\ adj'[a] = Greeted(a, b) /\ adj'[b] = Greeted(b, a)
        /\ \A n \in Node \ {a, b} : adj'[n] = adj[n]
    BY <1>1, <1>2, <1>3
  <1>5. Greets(a, b, adj'[a]) /\ Greets(b, a, adj'[b])
    BY <1>1, <1>2, <1>4, GreetingFilters
  <1>6. ASSUME NEW n \in Node
        PROVE  /\ count[n].filter \in Nat /\ count'[n].filter \in Nat
               /\ count[n].filter <= count'[n].filter
               /\ n \in {a, b} /\ n \in Core => count'[n].filter = count[n].filter + 1
    <2>1. count[n] \in [role : Nat, filter : Nat]
      BY DEF TreeInv, Tables
    <2>2. count'[n] = IF n \in {a, b} \ Client
                      THEN [count[n] EXCEPT !.filter = @ + 1] ELSE count[n]
      BY DEF Establish
    <2>3. n \in Core => n \notin Client
      BY DEF Core
    <2>4. CASE n \in {a, b} \ Client
      BY <2>1, <2>2, <2>4
    <2>5. CASE n \notin {a, b} \ Client
      BY <2>1, <2>2, <2>3, <2>5
    <2> QED
      BY <2>4, <2>5
  <1>7. net \subseteq net' /\ Greeting(a, b) \subseteq net' /\ Greeting(b, a) \subseteq net'
    BY <1>1
  <1>8. \A f \in net' : \/ f \in net
                        \/ f.from = a /\ f.to = b /\ f \in Greeting(a, b)
                        \/ f.from = b /\ f.to = a /\ f \in Greeting(b, a)
    BY <1>1, <1>5 DEF Greets
  <1>9. ASSUME NEW n \in Node, NEW m \in DOMAIN adj[n]
        PROVE  m \in DOMAIN adj'[n] /\ adj'[n][m] = adj[n][m]
    <2>1. CASE n = a
      BY <1>5, <2>1 DEF Greets
    <2>2. CASE n = b
      BY <1>5, <2>2 DEF Greets
    <2>3. CASE n \notin {a, b}
      BY <1>4, <2>3
    <2> QED
      BY <2>1, <2>2, <2>3
  <1>10. NewPeer.client = FALSE /\ NewPeer.supported = FALSE /\ NewPeer.roleSeq = 0 /\ NewPeer.inSeq = 0
    BY DEF NewPeer
  \* Either end of the new link, and the other.
  <1> DEFINE Ends(n, m) == n \in Node /\ m \in Node /\ n # m /\ ((n = a /\ m = b) \/ (n = b /\ m = a))
  <1>11. ASSUME NEW n, NEW m, Ends(n, m)
         PROVE  Greets(n, m, adj'[n]) /\ Greets(m, n, adj'[m])
    BY <1>5, <1>11
  <1>12. ASSUME NEW n, NEW m, {n, m} \in carrier'
         PROVE  \/ {n, m} \in carrier /\ n \in Node /\ m \in Node
                   /\ m \in DOMAIN adj[n] /\ n \in DOMAIN adj[m]
                \/ Ends(n, m)
    <2>1. CASE {n, m} \in carrier
      BY <2>1, CarrierHeld
    <2>2. CASE {n, m} = {a, b}
      <3>1. (a = n \/ a = m) /\ (b = n \/ b = m) /\ (n = a \/ n = b) /\ (m = a \/ m = b)
        BY <2>2
      <3>2. a # b
        BY <1>2
      <3>3. n \in Node /\ m \in Node /\ n # m /\ ((n = a /\ m = b) \/ (n = b /\ m = a))
        BY <3>1, <3>2
      <3> QED
        BY <3>3
    <2> QED
      BY <1>1, <1>12, <2>1, <2>2
  <1>13. ASSUME NEW n \in Node, NEW m \in DOMAIN adj'[n]
         PROVE  RoleFits(adj'[n][m], m)
    <2>1. CASE m \in DOMAIN adj[n]
      BY <1>9, <2>1 DEF Filtering
    <2>2. CASE m \notin DOMAIN adj[n]
      <3>1. n \in {a, b}
        BY <1>4, <2>2, <1>13
      <3>2. SameButOut(adj'[n][m], NewPeer)
        <4>1. CASE n = a
          BY <1>5, <1>13, <2>2, <4>1 DEF Greets
        <4>2. CASE n = b
          BY <1>5, <1>13, <2>2, <4>2 DEF Greets
        <4> QED
          BY <3>1, <4>1, <4>2
      <3> QED
        BY <1>10, <3>2 DEF SameButOut, RoleFits
    <2> QED
      BY <2>1, <2>2
  <1>14. ASSUME NEW n \in Core, NEW c \in Client, {n, c} \in carrier'
         PROVE  Asked(n, c, adj'[n][c], adj'[c][n], net')
    <2>1. CASE {n, c} \in carrier /\ n \in Node /\ c \in Node
               /\ c \in DOMAIN adj[n] /\ n \in DOMAIN adj[c]
      <3>1. Asked(n, c, adj[n][c], adj[c][n], net)
        BY <2>1 DEF Filtering
      <3>2. adj'[n][c] = adj[n][c] /\ adj'[c][n] = adj[c][n]
        BY <1>9, <2>1
      <3> QED
        BY <1>7, <3>1, <3>2 DEF Asked
    <2>2. CASE Ends(n, c)
      <3>1. Greets(n, c, adj'[n]) /\ Greets(c, n, adj'[c])
        BY <1>11, <2>2
      <3>2. ~adj'[n][c].supported /\ ~adj'[c][n].supported
        BY <1>10, <3>1 DEF Greets, SameButOut
      <3>3. SupportFrame(c, n) \in net'
        BY <1>7, <2>2, <3>1 DEF Greets
      <3> QED
        BY <3>2, <3>3 DEF Asked
    <2> QED
      BY <1>12, <1>14, <2>1, <2>2
  <1>15. ASSUME NEW n \in Core, NEW m \in Core, {n, m} \in carrier'
         PROVE  Delivers(n, m, adj'[n][m], adj'[m][n], count'[n].filter, net')
    <2>1. n \in Node /\ m \in Node
      BY DEF Core
    <2>2. CASE {n, m} \in carrier /\ m \in DOMAIN adj[n] /\ n \in DOMAIN adj[m]
      <3>1. Delivers(n, m, adj[n][m], adj[m][n], count[n].filter, net)
        BY <2>2 DEF Filtering
      <3>2. adj'[n][m] = adj[n][m] /\ adj'[m][n] = adj[m][n]
        BY <1>9, <2>1, <2>2
      <3>3. \A f \in net' : f.from = n /\ f.to = m /\ f.type = "FilterAnnounce" => f \in net
        <4>1. ~(n = a /\ m = b) /\ ~(n = b /\ m = a)
          BY <1>1, <1>2, <2>2
        <4> QED
          BY <1>8, <4>1
      <3>4. /\ count[n].filter \in Nat /\ count'[n].filter \in Nat
            /\ count[n].filter <= count'[n].filter
        BY <1>6, <2>1
      <3>5. \A f \in net : f.from = n /\ f.to = m /\ f.type = "FilterAnnounce" => f \in net'
        BY <1>7
      <3>6. Delivers(n, m, adj[n][m], adj[m][n], count'[n].filter, net')
        BY <3>1, <3>3, <3>4, <3>5, DeliversKept
      <3> QED
        BY <3>2, <3>6
    <2>3. CASE Ends(n, m)
      <3> DEFINE s == count[n].filter + 1
                 p == adj'[n][m]
                 q == adj'[m][n]
      <3>1. Greets(n, m, adj'[n]) /\ Greets(m, n, adj'[m])
        BY <1>11, <2>3
      <3>2. q.inSeq = 0
        BY <1>10, <3>1 DEF Greets, SameButOut
      <3>3. s \in Nat /\ s > 0 /\ count'[n].filter = s /\ s <= s
        BY <1>6, <2>1, <2>3
      <3>4. FilterFrame(n, m, s, p.outFilter) \in net'
        BY <1>7, <2>3, <3>1 DEF Greets
      <3>5. \A f \in net' : f.from = n /\ f.to = m => f \in Greeting(n, m)
        <4> SUFFICES ASSUME NEW f \in net', f.from = n, f.to = m PROVE f \in Greeting(n, m)
          OBVIOUS
        <4>1. f \notin net
          <5>1. {n, m} = {a, b}
            BY <2>3
          <5>2. f \in net => {f.from, f.to} \in carrier
            BY DEF TreeInv, FramesFit
          <5> QED
            BY <1>1, <5>1, <5>2
        <4> QED
          BY <1>2, <1>8, <2>3, <4>1
      <3>6. \A f \in net' : f.from = n /\ f.to = m /\ f.type = "FilterAnnounce" =>
               f.seq = s /\ f.filter = p.outFilter
        BY <3>1, <3>5 DEF Greets
      <3> HIDE DEF s, p, q
      <3>7. LastSent(s, n, m, p, q, net')
        BY <3>2, <3>3, <3>4, <3>6 DEF LastSent
      <3>8. Delivers(n, m, p, q, s, net')
        BY <3>3, <3>7 DEF Delivers
      <3> QED
        BY <3>3, <3>8 DEF p, q
    <2> QED
      BY <1>12, <1>15, <2>2, <2>3
  <1>16. ASSUME NEW n \in Core
         PROVE  owed'[n] \/ Current(n, tree'[n], known'[n], adj'[n])
    <2>1. CASE n = a
      BY <1>1, <1>2, <1>4, <2>1, GreetedCurrent
    <2>2. CASE n = b
      BY <1>1, <1>2, <1>4, <2>2, GreetedCurrent
    <2>3. CASE n \notin {a, b}
      <3>1. adj'[n] = adj[n]
        BY <1>4, <2>3 DEF Core
      <3> QED
        BY <1>1, <3>1 DEF Filtering
    <2> QED
      BY <2>1, <2>2, <2>3
  <1> QED
    BY <1>1, <1>13, <1>14, <1>15, <1>16, FilteringAfter

LEMMA OwingStep == TreeInv /\ Owing /\ [TreeNext]_treeVars => Owing'
  <1> SUFFICES ASSUME Owing, [TreeNext]_treeVars PROVE Owing'
    OBVIOUS
  <1>1. CASE UNCHANGED treeVars
    BY <1>1 DEF treeVars, Owing
  <1>2. CASE TreeNext
    <2>1. \A n, m : Notice(n, m) \/ Break(n, m) => owed' = owed
      BY DEF Notice, Break
    <2>2. \A n, m : Establish(n, m) => owed' = owed
      BY DEF Establish
    <2>3. \A n : RefreshClientRole(n) => owed' = owed
      BY DEF RefreshClientRole
    <2>4. \A n : SendFilters(n) => DOMAIN owed' = DOMAIN owed
      BY DEF SendFilters
    <2>5. \A n : Restart(n) => DOMAIN owed' = DOMAIN owed
      BY DEF Restart
    <2>6. \A n, f : ReceiveTree(n, f) => DOMAIN owed' = DOMAIN owed
      BY DEF ReceiveTree
    <2>7. \A n, f : ReceiveFilter(n, f) \/ ReceiveSupport(n, f) \/ ReceiveClientOnly(n, f) =>
             owed' = owed
      BY DEF ReceiveFilter, ReceiveSupport, ReceiveClientOnly
    <2> QED
      BY <1>2, <2>1, <2>2, <2>3, <2>4, <2>5, <2>6, <2>7 DEF TreeNext, Work, Receive, Owing
  <1> QED
    BY <1>1, <1>2

LEMMA FilteringStep ==
    TreeInv /\ Telling /\ Owing /\ Filtering /\ [TreeNext]_treeVars => Filtering'
  <1> SUFFICES ASSUME TreeInv, Telling, Owing, Filtering, [TreeNext]_treeVars
               PROVE  Filtering'
    OBVIOUS
  <1>1. ASSUME NEW n \in Node, NEW m \in Node, Notice(n, m)
        PROVE  Filtering'
    BY <1>1, NoticeFilters
  <1>2. ASSUME NEW msg \in net, Receive(msg.to, msg)
        PROVE  Filtering'
    BY <1>2, ReceiveTreeFilters, ReceiveFilterFilters, ReceiveSupportFilters,
       ReceiveClientOnlyFilters DEF Receive
  <1>3. ASSUME NEW n \in Node, SendFilters(n)
        PROVE  Filtering'
    BY <1>3, SendFiltersFilters
  <1>4. ASSUME NEW a \in Node, NEW b \in Node, Establish(a, b) \/ Break(a, b)
        PROVE  Filtering'
    BY <1>4, EstablishFilters, BreakFilters
  <1>5. ASSUME NEW n \in Node, RefreshClientRole(n) \/ Restart(n)
        PROVE  Filtering'
    BY <1>5, RefreshClientRoleFilters, RestartFilters
  <1>6. CASE UNCHANGED treeVars
    <2>1. /\ mesh' = mesh /\ carrier' = carrier /\ net' = net /\ adj' = adj /\ tree' = tree
          /\ known' = known /\ count' = count /\ owed' = owed
      BY <1>6 DEF treeVars
    <2> QED
      BY <2>1, FilteringAfter DEF Filtering
  <1> QED
    BY <1>1, <1>2, <1>3, <1>4, <1>5, <1>6 DEF TreeNext, Work

\* What the invariants are for.  Once nothing is in flight every node of the core is on a
\* shortest path to the lowest node it can reach (evaluateParent, handleTreeAnnounce,
\* removePeer), the filter it has from a peer names every node on the peer's side of the
\* tree and nothing else but clients (outgoingFilterFor, BloomRouting.handle), and a
\* datagram handed from next hop to next hop (TreeState.nextHop) arrives, in every mesh: no
\* order of announcements, no loss of a link and no restart leaves a node with a place or a
\* filter that its neighbours have not got.
THEOREM TreeSettlesRight == TreeSpec => []SettledRight
  <1>1. TreeInit => TreeInv /\ Telling /\ Owing /\ Filtering
    <2>1. TreeInit => Owing
      BY DEF TreeInit, Owing
    <2> QED
      BY <2>1, TreeInitOK, TellingInit, FilteringInit
  <1>2. TreeInv /\ Telling /\ Owing /\ Filtering /\ [TreeNext]_treeVars =>
           TreeInv' /\ Telling' /\ Owing' /\ Filtering'
    BY TreeStep, TellingStep, OwingStep, FilteringStep
  <1>3. TreeInv /\ Telling /\ Filtering => SettledRight
    BY RestIsSettled, RestIsFiltered, RestIsRouted DEF SettledRight
  <1> QED
    BY <1>1, <1>2, <1>3, PTL DEF TreeSpec

=============================================================================
