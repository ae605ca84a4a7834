---------------------------- MODULE ReplayWindow ----------------------------
(***************************************************************************)
(* crypto/replay.ts: the sliding replay window kept by every FMP link and  *)
(* every FSP session.  A window remembers the highest accepted counter and *)
(* one slot per residue modulo WINDOW; a slot holds the full counter that  *)
(* was last accepted there, so a stale slot is told apart after wraparound *)
(* without ever being pruned.                                              *)
(*                                                                         *)
(* These operators are what fmp/link.ts and fsp/session.ts call.           *)
(***************************************************************************)
EXTENDS Integers

CONSTANTS
    WINDOW,      \* ReplayWindow.WINDOW (2048 in the code)
    Exhausted    \* the reserved counter 2^64 - 1, never accepted

ASSUME WindowAssumption == WINDOW \in Nat \ {0} /\ Exhausted \in Nat

Counter == 0 .. Exhausted

Acceptable == Counter \ {Exhausted}

Undefined == -1

\* The code starts with high = -1n and an array of undefined slots.
EmptyWindow == [high |-> -1, seen |-> [i \in 0 .. WINDOW - 1 |-> Undefined]]

Window == [high : {-1} \cup Acceptable,
           seen : [0 .. WINDOW - 1 -> {Undefined} \cup Acceptable]]

\* duplicates are not looked for
CheckNoSlot(w, c) == c >= 0 /\ c < Exhausted /\ w.high - c < WINDOW

\* check(counter): would accept succeed right now?
Check(w, c) ==
    /\ c >= 0
    /\ c < Exhausted
    /\ w.high - c < WINDOW
    /\ w.seen[c % WINDOW] # c

\* accept(counter) on a counter that passes Check.
Accept(w, c) == [high |-> IF c > w.high THEN c ELSE w.high,
                 seen |-> [w.seen EXCEPT ![c % WINDOW] = c]]

=============================================================================
