------------------------- MODULE ConnectionOwnership -------------------------
(***************************************************************************)
(* What the pool and the clients promise of the connections they share: each *)
(* is free, in the hands of one call, or idle under one key. A call has at   *)
(* most one connection; what it has it gives back under a key or closes, and *)
(* an idle connection leaves its key only into the hands of a call.          *)
(***************************************************************************)
CONSTANTS Conns, Calls, Keys, Free

VARIABLE owner    \* for each connection: Free, a call, or a key

Init == owner = [k \in Conns |-> Free]

HasNone(c) == \A k \in Conns : owner[k] # c

\* A call opens a connection.
Open(c, k) == HasNone(c) /\ owner[k] = Free /\ owner' = [owner EXCEPT ![k] = c]

\* A call takes an idle connection.
Take(c, k) == HasNone(c) /\ owner[k] \in Keys /\ owner' = [owner EXCEPT ![k] = c]

\* A call leaves its connection idle under a key, or closes it.
Leave(c, k) == owner[k] = c /\ \E o \in Keys \cup {Free} : owner' = [owner EXCEPT ![k] = o]

Next == \E c \in Calls, k \in Conns : Open(c, k) \/ Take(c, k) \/ Leave(c, k)

Spec == Init /\ [][Next]_owner
=============================================================================
