--------------------------- MODULE MCSpanningTree ---------------------------
EXTENDS SpanningTree

(* The tree of a mesh with the links up that has settled: every node is at *)
(* the end of a shortest path to the lowest node it reaches.               *)
SettledParent(core, n, up) ==
    LET r == Lowest(core, n, up)
    IN  Min({m \in core : /\ {n, m} \in up /\ Lowest(core, m, up) < n
                          /\ Hops(core, m, r, up) = Hops(core, n, r, up) - 1})

SettledAncestry(core, n, up) ==
    LET path[i \in 0..Cardinality(Node)] ==
            IF i = 0 THEN <<n>>
            ELSE LET p == path[i - 1]
                     last == Root(p)
                 IN  IF last = Lowest(core, last, up) THEN p
                     ELSE Append(p, SettledParent(core, last, up))
    IN  path[Cardinality(Node)]

SettledStart(core, up) ==
    [up |-> up, paths |-> [n \in Node |-> SettledAncestry(core, n, up)]]

Mesh(links, ups, forwarding, clients, faulty, repaired, refreshed) ==
    [links |-> links, forwarding |-> forwarding,
     starts |-> {SettledStart(Node \ clients, up) : up \in ups},
     clients |-> clients, maxFaults |-> faulty, maxRepairs |-> repaired,
     maxRefreshes |-> refreshed]

Ring == {{1, 2}, {2, 3}, {1, 3}}
Line == {{1, 3}, {2, 3}}
Kite == {{1, 2}, {2, 3}, {3, 4}, {2, 4}}

(* Node 1 is the root, and the only way to it is node 2's. *)
RootLost == Mesh(Kite, {Kite}, FALSE, {}, 1, 0, 0)
RootFound == Mesh(Kite, {Kite \ {{1, 2}}}, FALSE, {}, 0, 1, 0)

(* A ring whose nodes only announce their places: a link or a node goes    *)
(* and comes back.                                                         *)
PlacesOnly == Mesh(Ring, {Ring}, FALSE, {}, 1, 1, 0)

(* A ring of forwarders that loses a link, or gets its last one. *)
RingOpens == Mesh(Ring, {Ring}, TRUE, {}, 1, 0, 0)
RingCloses == Mesh(Ring, {Ring \ {l} : l \in Ring}, TRUE, {}, 0, 1, 0)

(* Forwarders in a line: a link or a node goes and comes back. *)
LineHeals == Mesh(Line, {Line}, TRUE, {}, 1, 1, 0)

(* A line that ends in a strict client. *)
WithClient == Mesh(Line, {Line, {{1, 3}}}, TRUE, {2}, 1, 1, 1)

AllMeshes == {RootLost, RootFound, PlacesOnly, RingOpens, RingCloses, LineHeals, WithClient}

=============================================================================
