--------------------------- MODULE MCOriginLookup ---------------------------
(* OriginLookup with two calls, two targets and two request ids. *)
EXTENDS OriginLookup

CONSTANTS c1, c2, t1, t2, i1, i2
=============================================================================
