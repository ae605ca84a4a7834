-------------------------- MODULE MCNodeLifecycle --------------------------
(* NodeLifecycle with few overlapping calls. *)
EXTENDS NodeLifecycle
=============================================================================
