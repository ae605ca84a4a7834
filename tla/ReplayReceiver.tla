--------------------------- MODULE ReplayReceiver ---------------------------
(***************************************************************************)
(* One receiver using one replay window, with the history of accepted      *)
(* counters beside it.  Counters arrive in any order and any number of     *)
(* times.                                                                  *)
(***************************************************************************)
EXTENDS ReplayWindow

VARIABLES
    win,       \* the window
    accepted,  \* history: every counter accepted since the last reset
    taken      \* history: how many records were accepted since then

vars == <<win, accepted, taken>>

Init == win = EmptyWindow /\ accepted = {} /\ taken = 0

\* decryptIncoming: check, open the ciphertext, accept.  A record that fails to
\* authenticate leaves the window alone, so only authentic ones appear here.
Receive(c) ==
    /\ Check(win, c)
    /\ win' = Accept(win, c)
    /\ accepted' = accepted \cup {c}
    /\ taken' = taken + 1

\* reset()
Reset == win' = EmptyWindow /\ accepted' = {} /\ taken' = 0

Next == (\E c \in Counter : Receive(c)) \/ Reset

Spec == Init /\ [][Next]_vars

-----------------------------------------------------------------------------
\* The window and its history have their types; the reserved counter is in neither.
TypeOK == win \in Window /\ accepted \subseteq Acceptable

\* A counter the window accepted is refused for ever after: a duplicate finds its
\* slot, and once the slot is reused the counter has left the window.
NoReplay == \A c \in accepted : ~Check(win, c)

\* The constant-time slots refuse nothing a scan of the accepted counters would
\* admit: a counter inside the window that was never accepted passes check.
NoFalseRefusal ==
    \A c \in Counter \ (accepted \cup {Exhausted}) :
        win.high - c < WINDOW => Check(win, c)

\* What makes the slots work: the highest counter bounds the history, every slot
\* holds an accepted counter of its own residue, and every accepted counter
\* still in the window sits in its slot.
SlotsTrackHistory ==
    /\ \A c \in accepted : c <= win.high
    /\ win.high # -1 => win.high \in accepted
    /\ \A i \in 0 .. WINDOW - 1 :
          win.seen[i] # Undefined => win.seen[i] \in accepted /\ win.seen[i] % WINDOW = i
    /\ \A c \in accepted : win.high - c < WINDOW => win.seen[c % WINDOW] = c

\* The window implements its promise: every step takes a counter that was not
\* taken before and is not too old, or forgets all of them (crypto/replay.ts).
Promise == INSTANCE ReplayHistory
           WITH WINDOW <- WINDOW, Exhausted <- Exhausted,
                accepted <- accepted, taken <- taken

KeepsPromise == Promise!Spec
=============================================================================
