--------------------------- MODULE MCWebRtcGlare ---------------------------
(* WebRtcGlare with bounds on dials and faults, and configurations of the two nodes. *)
EXTENDS WebRtcGlare

Quietly == [calls |-> FALSE, autoConnect |-> FALSE, acceptConnections |-> FALSE, allowIncomingPeer |-> FALSE]

\* Both accept: node 1 dials what it discovers and asks about offers, node 2 dials on request.
BothAccept ==
    <<[Quietly EXCEPT !.autoConnect = TRUE, !.acceptConnections = TRUE, !.allowIncomingPeer = TRUE],
      [Quietly EXCEPT !.calls = TRUE, !.acceptConnections = TRUE]>>

\* Node 2 dials what it discovers, and accepts no offer but one that crosses its own.
OneAccepts ==
    <<[Quietly EXCEPT !.calls = TRUE, !.acceptConnections = TRUE],
      [Quietly EXCEPT !.autoConnect = TRUE]>>

MCSettings == {BothAccept, OneAccepts}
=============================================================================
