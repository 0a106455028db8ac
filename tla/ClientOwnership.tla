--------------------------- MODULE ClientOwnership ---------------------------
(***************************************************************************)
(* How the clients implement ConnectionOwnership: the owner of a connection  *)
(* as the code has it, in the local variables of the calls, in the pool, or   *)
(* nowhere.                                                                  *)
(***************************************************************************)
EXTENDS HttpClient

ASSUME OwnershipAssumption ==
  /\ Calls \cap Keys = {}
  /\ {"free", "lost"} \cap (Calls \cup Keys) = {}

\* Who owns a connection; an open one that nobody can reach belongs to none.
Owner(k) ==
  IF ~IsOpen(k) THEN "free"
  ELSE IF \E c \in Calls : conn[c] = k THEN CHOOSE c \in Calls : conn[c] = k
  ELSE IF k \in Pooled THEN CHOOSE key \in Keys : k \in Idle(key)
  ELSE "lost"

O == INSTANCE ConnectionOwnership WITH Free <- "free", owner <- [k \in Conns |-> Owner(k)]

\* The clients implement ConnectionOwnership: no connection is shared, idle and
\* used at once, moved from key to key, or left open where nobody finds it.
OwnershipSpec == O!Spec
=============================================================================
