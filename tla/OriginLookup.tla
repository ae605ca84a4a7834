---------------------------- MODULE OriginLookup ----------------------------
(***************************************************************************)
(* Lookups a node originates: node/OriginLookupRegistry.ts and the two     *)
(* callers of it in node/FipsRouting.ts, ensureFirstContactRoute and       *)
(* refreshTransitRoute.                                                    *)
(*                                                                         *)
(* Calls for one target share one lookup.  A lookup resends its request    *)
(* under a new id with a growing interval until it is answered or its      *)
(* deadline passes, and earlier ids stay answerable.  Every await lets the *)
(* rest run: a loop may wake when its lookup is gone and another one for   *)
(* the same target has taken its place.                                    *)
(*                                                                         *)
(* A call creates at most one lookup, so a lookup bears its creator's      *)
(* name.  Time is counted in units of the first retry interval (250 ms).   *)
(***************************************************************************)
EXTENDS Integers, FiniteSets

CONSTANTS
    Call,        \* calls of ensureFirstContactRoute and refreshTransitRoute
    Target,      \* node addresses looked up
    RequestId,   \* what nextRequestId may draw; an id is free again once its lookup is gone
    Mtu,         \* frame capacities a path may have
    MaxLookups,  \* MAX_PENDING_ORIGIN_LOOKUPS
    Timeout,     \* LOOKUP_ORIGIN_TIMEOUT_MS
    MaxInterval, \* the longest retry interval
    None         \* no lookup

ASSUME LookupAssumption ==
    /\ Mtu \subseteq Nat
    /\ 0 \in Mtu
    /\ MaxLookups \in Nat
    /\ Timeout \in Nat
    /\ MaxInterval \in Nat \ {0}
    /\ None \notin Call

VARIABLES
    calls,      \* calls[c]: what the caller asked for and how far it is
    lookups,    \* lookups[c]: the PendingOriginLookup object c created
    byTarget,   \* index: target to pending lookup
    byRequest,  \* index: request id to pending lookup
    requests    \* every <<id, target>> sent; an answer to it may come at any time

vars == <<calls, lookups, byTarget, byRequest, requests>>

-----------------------------------------------------------------------------
NoLookup == [status |-> "none", target |-> None, minMtu |-> 0, id |-> None,
             ids |-> {}, loop |-> "none", interval |-> 1, left |-> 0, age |-> 0,
             answer |-> None]

Init ==
    /\ calls = [c \in Call |-> [state |-> "idle", kind |-> "first", target |-> None,
                                mtu |-> 0, on |-> None]]
    /\ lookups = [c \in Call |-> NoLookup]
    /\ byTarget = [t \in Target |-> None]
    /\ byRequest = [i \in RequestId |-> None]
    /\ requests = {}

Pending(o) == lookups[o].status = "pending"

\* remove: only the lookup that is still the one indexed under its target.
Indexed(o) == Pending(o) /\ byTarget[lookups[o].target] = o

\* the ids of earlier attempts stay behind
RemoveFirstOnly(o) ==
    /\ byTarget' = [byTarget EXCEPT ![lookups[o].target] = None]
    /\ \E i \in lookups[o].ids : byRequest' = [byRequest EXCEPT ![i] = None]

Remove(o) ==
    /\ byTarget' = [byTarget EXCEPT ![lookups[o].target] = None]
    /\ byRequest' = [i \in RequestId |-> IF i \in lookups[o].ids THEN None
                                         ELSE byRequest[i]]

\* The lookup after remove and resolve or reject.  Its timer is cleared, its sleep
\* cut short: the clocks mean nothing any more.
Settled(o, status, answer, loop) ==
    [status |-> status, target |-> lookups[o].target, minMtu |-> lookups[o].minMtu,
     id |-> lookups[o].id, ids |-> {}, loop |-> loop, interval |-> 1, left |-> 0,
     age |-> 0, answer |-> answer]

-----------------------------------------------------------------------------
(* Callers                                                                 *)

CallRecord(state, kind, t, mtu, o) ==
    [state |-> state, kind |-> kind, target |-> t, mtu |-> mtu, on |-> o]

\* off by one
CapacityExceededLate == Cardinality({t \in Target : byTarget[t] # None}) > MaxLookups

CapacityExceeded == Cardinality({t \in Target : byTarget[t] # None}) >= MaxLookups

\* A lookup for the target is pending: await its promise.
Share(c, kind, t, mtu) ==
    /\ byTarget[t] # None
    /\ calls' = [calls EXCEPT ![c] = CallRecord("awaiting", kind, t, mtu, byTarget[t])]
    /\ UNCHANGED <<lookups, byTarget, byRequest, requests>>

\* create, and the first turn of the retry loop up to its await: the request is
\* sent under the id just drawn.
Create(c, kind, t, mtu) ==
    /\ byTarget[t] = None
    /\ ~CapacityExceeded
    /\ \E i \in RequestId :
          /\ byRequest[i] = None
          /\ byRequest' = [byRequest EXCEPT ![i] = c]
          /\ requests' = requests \cup {<<i, t>>}
          /\ lookups' = [lookups EXCEPT ![c] =
                [status |-> "pending", target |-> t, minMtu |-> mtu, ids |-> {i},
                 id |-> i, loop |-> "sending", interval |-> 1, left |-> 0, age |-> 0,
                 answer |-> None]]
    /\ byTarget' = [byTarget EXCEPT ![t] = c]
    /\ calls' = [calls EXCEPT ![c] = CallRecord("awaiting", kind, t, mtu, c)]

\* create throws: too many lookups, or eight draws met ids in use.  refreshTransitRoute
\* also throws when no peer could carry the request.
Refuse(c, kind, t, mtu) ==
    /\ byTarget[t] = None
    /\ \/ CapacityExceeded
       \/ \E i \in RequestId : byRequest[i] # None
       \/ kind = "transit"
    /\ calls' = [calls EXCEPT ![c] = CallRecord("failed", kind, t, mtu, None)]
    /\ UNCHANGED <<lookups, byTarget, byRequest, requests>>

Begin(c, kind, t, mtu) ==
    Share(c, kind, t, mtu) \/ Create(c, kind, t, mtu) \/ Refuse(c, kind, t, mtu)

\* ensureFirstContactRoute asks for no capacity, refreshTransitRoute for minMtu.
Invoke(c) ==
    /\ calls[c].state = "idle"
    /\ \E t \in Target :
          \/ Begin(c, "first", t, 0)
          \/ \E mtu \in Mtu : Begin(c, "transit", t, mtu)

Finish(c, state) ==
    /\ calls' = [calls EXCEPT ![c].state = state]
    /\ UNCHANGED <<lookups, byTarget, byRequest, requests>>

\* whatever the shared lookup asked for is good enough
EnoughForAnyone(c) == TRUE

\* existing.minMtu >= minMtu; a first-contact caller does not ask.
Enough(c) == calls[c].kind = "first" \/ lookups[calls[c].on].minMtu >= calls[c].mtu

\* The awaited promise has settled.  The creator first waits for its retry loop; a
\* caller that shared a lookup made for smaller frames starts again.
Resume(c) ==
    LET o == calls[c].on IN
    /\ calls[c].state = "awaiting"
    /\ ~Pending(o)
    /\ o = c => lookups[o].loop = "done"
    /\ \/ lookups[o].status = "rejected" /\ Finish(c, "failed")
       \/ lookups[o].status = "resolved" /\ (o = c \/ Enough(c)) /\ Finish(c, "returned")
       \/ /\ lookups[o].status = "resolved" /\ o # c /\ ~Enough(c)
          /\ Begin(c, calls[c].kind, calls[c].target, calls[c].mtu)

-----------------------------------------------------------------------------
(* The retry loop of lookup o                                              *)

\* The awaited sends have settled, whichever way: allSettled never throws.
SendSettles(o) ==
    /\ lookups[o].loop = "sending"
    /\ lookups' = [lookups EXCEPT ![o].loop = IF Indexed(o) THEN "sleeping" ELSE "done",
                                  ![o].left = IF Indexed(o) THEN lookups[o].interval ELSE 0]
    /\ UNCHANGED <<calls, byTarget, byRequest, requests>>

\* the target has a lookup, whichever it is
LoopGoesOnForTarget(o) == byTarget[lookups[o].target] # None

\* while (this.get(pending.targetHex) === pending)
LoopGoesOn(o) == byTarget[lookups[o].target] = o

NextInterval(x) == IF 2 * x > MaxInterval THEN MaxInterval ELSE 2 * x

\* The sleep is over, because time passed or the lookup settled, and the loop goes on:
\* the object indexed under the target gets a new id, and the request is sent again.
Retry(o) ==
    LET state == byTarget[lookups[o].target] IN
    /\ lookups[o].loop = "sleeping"
    /\ lookups[o].left = 0 \/ ~Pending(o)
    /\ LoopGoesOn(o)
    /\ \E i \in RequestId :
          /\ byRequest[i] = None
          /\ byRequest' = [byRequest EXCEPT ![i] = state]
          /\ lookups' = [[lookups EXCEPT ![state].ids = @ \cup {i}, ![state].id = i]
                            EXCEPT ![o].loop = "sending",
                                   ![o].interval = NextInterval(lookups[o].interval)]
    /\ requests' = requests \cup {<<lookups'[o].id, lookups[o].target>>}
    /\ UNCHANGED <<calls, byTarget>>

\* nextRequestId throws: the lookup fails.
RetryFails(o) ==
    /\ lookups[o].loop = "sleeping"
    /\ lookups[o].left = 0
    /\ LoopGoesOn(o)
    /\ Pending(o)
    /\ Remove(o)
    /\ lookups' = [lookups EXCEPT ![o] = Settled(o, "rejected", None, "done")]
    /\ UNCHANGED <<calls, requests>>

LoopEnds(o) ==
    /\ lookups[o].loop = "sleeping"
    /\ ~Pending(o)
    /\ ~LoopGoesOn(o)
    /\ lookups' = [lookups EXCEPT ![o].loop = "done"]
    /\ UNCHANGED <<calls, byTarget, byRequest, requests>>

-----------------------------------------------------------------------------
(* Settling                                                                *)

\* The response names the target the lookup is for.
MatchesTarget(o, t) == lookups[o].target = t

\* handleOriginLookupResponse: a response to a request sent at any time before.  Only
\* authentic responses appear; the others are dropped.
Respond(q, mtu) ==
    LET o == byRequest[q[1]] IN
    /\ o # None
    /\ MatchesTarget(o, q[2])
    /\ mtu >= lookups[o].minMtu
    /\ Indexed(o)
    /\ Remove(o)
    /\ lookups' = [lookups EXCEPT ![o] = Settled(o, "resolved", <<q[2], mtu>>, lookups[o].loop)]
    /\ UNCHANGED <<calls, requests>>

\* the timer guards the first attempt only
DeadlineOfFirstAttempt(o) ==
    /\ Indexed(o)
    /\ lookups[o].age = Timeout
    /\ Cardinality(lookups[o].ids) = 1
    /\ Remove(o)
    /\ lookups' = [lookups EXCEPT ![o] = Settled(o, "rejected", None, lookups[o].loop)]
    /\ UNCHANGED <<calls, requests>>

\* The lookup's own timer.
Deadline(o) ==
    /\ Indexed(o)
    /\ lookups[o].age = Timeout
    /\ Remove(o)
    /\ lookups' = [lookups EXCEPT ![o] = Settled(o, "rejected", None, lookups[o].loop)]
    /\ UNCHANGED <<calls, requests>>

\* stop(): every pending lookup fails.
Stop ==
    /\ \E o \in Call : Pending(o)
    /\ lookups' = [o \in Call |->
          IF Pending(o) THEN Settled(o, "rejected", None, lookups[o].loop) ELSE lookups[o]]
    /\ byTarget' = [t \in Target |-> None]
    /\ byRequest' = [i \in RequestId |-> None]
    /\ UNCHANGED <<calls, requests>>

\* Time passes, but not past a deadline that is due.
Tick ==
    /\ \E o \in Call : Pending(o)
    /\ \A o \in Call : Pending(o) => lookups[o].age < Timeout
    /\ lookups' = [o \in Call |->
          IF Pending(o)
          THEN [lookups[o] EXCEPT !.age = @ + 1, !.left = IF @ > 0 THEN @ - 1 ELSE 0]
          ELSE lookups[o]]
    /\ UNCHANGED <<calls, byTarget, byRequest, requests>>

Next ==
    \/ \E c \in Call : Invoke(c) \/ Resume(c)
    \/ \E o \in Call : \/ SendSettles(o) \/ Retry(o) \/ RetryFails(o) \/ LoopEnds(o)
                       \/ Deadline(o)
    \/ \E q \in requests, mtu \in Mtu : Respond(q, mtu)
    \/ Stop
    \/ Tick

Spec == Init /\ [][Next]_vars

\* Timers fire, sends settle and promise continuations run.
Fairness ==
    /\ WF_vars(Tick)
    /\ \A c \in Call :
          /\ WF_vars(Resume(c))
          /\ WF_vars(SendSettles(c))
          /\ WF_vars(LoopEnds(c))
          /\ WF_vars(Deadline(c))

FairSpec == Spec /\ Fairness
-----------------------------------------------------------------------------
(* Properties                                                              *)

Lookup == [status : {"none", "pending", "resolved", "rejected"},
           target : Target \cup {None}, minMtu : Mtu, id : RequestId \cup {None},
           ids : SUBSET RequestId, loop : {"none", "sending", "sleeping", "done"},
           interval : 1 .. MaxInterval, left : 0 .. MaxInterval, age : 0 .. Timeout,
           answer : (Target \X Mtu) \cup {None}]

CallState == [state : {"idle", "awaiting", "returned", "failed"},
              kind : {"first", "transit"}, target : Target \cup {None}, mtu : Mtu,
              on : Call \cup {None}]

\* Every variable has its type; intervals and ages stay within their limits.
TypeOK ==
    /\ calls \in [Call -> CallState]
    /\ lookups \in [Call -> Lookup]
    /\ byTarget \in [Target -> Call \cup {None}]
    /\ byRequest \in [RequestId -> Call \cup {None}]
    /\ requests \subseteq RequestId \X Target

\* The two indexes hold exactly the pending lookups: one per target, and every id a
\* pending lookup has used, under that lookup alone.  Nothing of a settled lookup
\* stays behind, whichever way it settled.
IndexesAgree ==
    /\ \A o \in Call, t \in Target :
          byTarget[t] = o <=> Pending(o) /\ lookups[o].target = t
    /\ \A o \in Call, i \in RequestId :
          byRequest[i] = o <=> Pending(o) /\ i \in lookups[o].ids

\* The registry holds no more than MAX_PENDING_ORIGIN_LOOKUPS lookups.
WithinCapacity == Cardinality({o \in Call : Pending(o)}) <= MaxLookups

\* The registry is well-formed and, however many callers compete for the last place and
\* whichever lookups end, never above its limit.
RegistryOK == TypeOK /\ WithinCapacity

\* Whoever created the lookup and however often it was asked, a caller returns only
\* with an answer for its own target that carries frames of the size it asked for.
AnswerFitsCaller ==
    \A c \in Call :
        calls[c].state = "returned" =>
            LET answer == lookups[calls[c].on].answer IN
            /\ answer \in Target \X Mtu
            /\ answer[1] = calls[c].target
            /\ calls[c].kind = "transit" => answer[2] >= calls[c].mtu

\* Whenever a loop sends, first or again, the id it sends is one that findRequest maps
\* to its lookup, and get finds that lookup under the target: no loop outlives its
\* lookup and goes on beside, or on behalf of, a later one.
RequestsAnswerable ==
    [][\A o \in Call :
          lookups[o].loop # "sending" /\ lookups'[o].loop = "sending" =>
              /\ byRequest'[lookups'[o].id] = o
              /\ byTarget'[lookups'[o].target] = o]_vars

\* A caller gets an answer or an error.
CallersReleased ==
    \A c \in Call : calls[c].state = "awaiting" ~> calls[c].state \in {"returned", "failed"}
=============================================================================
