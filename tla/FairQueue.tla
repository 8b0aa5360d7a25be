------------------------------ MODULE FairQueue ------------------------------
(***************************************************************************)
(* What the order of work promises the Routes that can succeed: they are   *)
(* completed one by one in the order they came in, and between two of them *)
(* no more than MaxBypass passes go to Routes that cannot.                 *)
(***************************************************************************)
EXTENDS Naturals

CONSTANT MaxBypass

VARIABLES
    waiting,    \* Routes that can succeed and are not completed
    newest,     \* the youngest Route so far
    bypassed    \* passes spent since the last completion on those that cannot

vars == <<waiting, newest, bypassed>>

Init == waiting = {} /\ newest = 0 /\ bypassed = 0

Arrive ==
    /\ newest' = newest + 1
    /\ waiting' \in {waiting, waiting \cup {newest + 1}}
    /\ UNCHANGED bypassed

Bypass ==
    /\ bypassed < MaxBypass
    /\ bypassed' = bypassed + 1
    /\ UNCHANGED <<waiting, newest>>

Serve ==
    /\ \E r \in waiting :
         /\ \A other \in waiting : r <= other
         /\ waiting' = waiting \ {r}
    /\ bypassed' = 0
    /\ UNCHANGED newest

\* Nobody waits, so nobody is bypassed.
Rest ==
    /\ waiting = {}
    /\ bypassed' = 0
    /\ UNCHANGED <<waiting, newest>>

Next == Arrive \/ Bypass \/ Serve \/ Rest

Spec == Init /\ [][Next]_vars
=============================================================================
