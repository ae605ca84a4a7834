-------------------------- MODULE MCWebSocketSeeds --------------------------
(* WebSocketSeeds with one seed. *)
EXTENDS WebSocketSeeds
=============================================================================
