---------------------------- MODULE ReplayHistory ----------------------------
(***************************************************************************)
(* What a replay window promises, with nothing of how it keeps the promise:*)
(* a record's counter is taken once, and only while it is less than WINDOW *)
(* behind every counter taken before it.                                   *)
(***************************************************************************)
EXTENDS Integers

CONSTANTS WINDOW, Exhausted

VARIABLES accepted,  \* the counters taken since the last reset
          taken      \* how many records were taken

vars == <<accepted, taken>>

Init == accepted = {} /\ taken = 0

Take(c) ==
    /\ c \notin accepted
    /\ \A a \in accepted : a - c < WINDOW
    /\ accepted' = accepted \cup {c}
    /\ taken' = taken + 1

Forget == accepted' = {} /\ taken' = 0

Next == (\E c \in 0 .. Exhausted - 1 : Take(c)) \/ Forget

Spec == Init /\ [][Next]_vars
=============================================================================
