----------------------------- MODULE MCFmpPeers -----------------------------
(* FmpPeers with one or two paths. *)
EXTENDS FmpPeers, TLC

CONSTANTS p1, p2

PathSymmetry == Permutations({p1, p2})

(* Both dial; a restart, a failure or disconnection. *)
Restarts == [dialers |-> {1, 2}, roaming |-> FALSE, idx |-> 3, dialIdx |-> 2, tx |-> 1,
             restarts |-> 1, drops |-> 1]

(* One dials; handshake messages turn up on the other path. *)
Roams == [dialers |-> {1}, roaming |-> TRUE, idx |-> 4, dialIdx |-> 2, tx |-> 1,
          restarts |-> 0, drops |-> 0]

(* Both dial and keep dialing over one path; nothing fails. *)
Crosses == [dialers |-> {1, 2}, roaming |-> FALSE, idx |-> 8, dialIdx |-> 8, tx |-> 2,
            restarts |-> 0, drops |-> 0]

RestartsAndRoams == {Restarts, Roams}
OnlyCrosses == {Crosses}
=============================================================================
