------------------------- MODULE MCLookupForwarding -------------------------
EXTENDS LookupForwarding, TLC

A(o, t) == [origin |-> o, target |-> t]
D(s, d, z) == [src |-> s, dst |-> d, size |-> z]

(* Endpoints 1 and 5, and relays 2, 3 and 4 in a ring; the shorter way to  *)
(* 5 may be the narrower one.                                              *)
Ring == ({1, 2} :> 3) @@ ({2, 3} :> 3) @@ ({2, 4} :> 3) @@ ({3, 4} :> 3)
        @@ ({3, 5} :> 2) @@ ({4, 5} :> 3)
Line == ({1, 2} :> 3) @@ ({2, 3} :> 3) @@ ({3, 4} :> 3)
Fork == ({1, 2} :> 3) @@ ({2, 3} :> 3) @@ ({2, 4} :> 3) @@ ({3, 5} :> 2) @@ ({4, 5} :> 3)
        @@ ({2, 6} :> 2)
Pair == ({1, 2} :> 3) @@ ({1, 3} :> 3) @@ ({2, 4} :> 1) @@ ({3, 4} :> 3)
Twig == ({1, 2} :> 3) @@ ({2, 3} :> 3) @@ ({3, 5} :> 2) @@ ({2, 6} :> 2)

Base(cap, relays) ==
    [nodes |-> UNION DOMAIN cap, relays |-> relays, resolvers |-> {}, cap |-> cap,
     start |-> DOMAIN cap, asks |-> {}, datagrams |-> {}, maxReverse |-> 2, maxTries |-> 1,
     maxLosses |-> 0, maxBreaks |-> 0, maxExpiries |-> 0]

Onering == [Base(Ring, {2, 3, 4}) EXCEPT !.asks = {A(1, 5)}]

(* What each configuration is for: the target connects late; a relay has   *)
(* to resolve it; large datagrams need another path than the first found;  *)
(* attempts overlap and evict each other; frames are lost; a link breaks;  *)
(* entries expire; two origins share the relays, with room for both and    *)
(* with room for one; a datagram joins the lookup of a smaller one.        *)
Arrives == [Onering EXCEPT !.start = @ \ {{3, 5}, {4, 5}}]
Resolves == [Base(Line, {2, 3}) EXCEPT !.asks = {A(1, 4)}, !.start = @ \ {{3, 4}},
                !.resolvers = {3}, !.maxTries = 2, !.maxLosses = 1]
Widens == [Onering EXCEPT !.datagrams = {D(1, 5, 3), D(5, 1, 3)}]
Retries == [Onering EXCEPT !.maxTries = 2, !.maxReverse = 1]
Loses == [Base(Line, {2, 3}) EXCEPT !.asks = {A(1, 4)}, !.datagrams = {D(1, 4, 3)},
             !.maxLosses = 2, !.maxTries = 2]
Breaks == [Onering EXCEPT !.datagrams = {D(1, 5, 3)}, !.maxBreaks = 1]
Expires == [Base(Twig, {2, 3}) EXCEPT !.asks = {A(1, 5)},
               !.datagrams = {D(1, 5, 2), D(5, 1, 2)}, !.maxExpiries = 2]
Shares == [Base(Fork, {2, 3, 4}) EXCEPT !.asks = {A(1, 5), A(6, 5)}]
Crowds == [Base(Twig, {2, 3}) EXCEPT !.asks = {A(1, 5), A(6, 5)}, !.maxReverse = 1]

Joins == [Base(Pair, {2, 3}) EXCEPT !.asks = {A(1, 4)},
             !.datagrams = {D(1, 4, 2), D(1, 4, 3)}]

AllMeshes == {Arrives, Resolves, Widens, Retries, Loses, Breaks, Expires, Shares, Crowds, Joins}
=============================================================================
