----------------------------- MODULE GlobalMap -----------------------------
(***************************************************************************)
(* What get_global promises the caller of a server and all its handlers: one *)
(* map, each operation on it a single step.                                 *)
(***************************************************************************)
CONSTANTS Keys, Values, Types, TypeOf, Null

VARIABLES
  mem,    \* the map
  last    \* the last operation: its key and the value it left or found there

Absent == [k \in Keys |-> Null]
Op(k, v) == [key |-> k, value |-> v]

Init == mem = Absent /\ last = Op(Null, Null)

Set(k, v) == mem' = [mem EXCEPT ![k] = v] /\ last' = Op(k, v)
Remove(k) == mem' = [mem EXCEPT ![k] = Null] /\ last' = Op(k, Null)
Clear == mem' = Absent /\ last' = Op(Null, Null)

\* A value of another type is not found.
Get(k, type) ==
  /\ last' = Op(k, IF mem[k] # Null /\ TypeOf[mem[k]] = type THEN mem[k] ELSE Null)
  /\ UNCHANGED mem

Next ==
  \/ \E k \in Keys, v \in Values : Set(k, v)
  \/ \E k \in Keys : Remove(k)
  \/ Clear
  \/ \E k \in Keys, type \in Types : Get(k, type)

Spec == Init /\ [][Next]_<<mem, last>>
=============================================================================
