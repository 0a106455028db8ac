--------------------------- MODULE ConnectionPool ---------------------------
(***************************************************************************)
(* connection_pool: the idle connections of the HTTP clients, one queue per  *)
(* key (host and port). Every operation holds mutex_ from its first line to  *)
(* its last and never suspends, so it is one step whatever threads and       *)
(* coroutines call it. The synchronous client's get and put are the same     *)
(* code as the asynchronous client's async_get and async_put.                *)
(*                                                                         *)
(* The module has the pool's state and its operations as actions on it;     *)
(* module HttpClient composes them with the calls that use the connections. *)
(***************************************************************************)
EXTENDS Integers, Sequences

CONSTANTS
  Keys,         \* the servers: host and port
  Conns,        \* connections (the identity of a closed one is used again)
  MaxIdle,      \* max_idle_connections_, an int
  SizeModulus   \* 2^64, what a size_t wraps at

ASSUME PoolAssumption ==
  /\ MaxIdle \in Int
  /\ SizeModulus \in Nat \ {0}

VARIABLES
  pool,   \* pool_: for each key its idle connections, the oldest first
  sock    \* is the socket of a connection open on our side?

\* A size compared with an int: the int is converted to size_t, and wraps.
AsSize(n) == n % SizeModulus

IsOpen(k) == sock[k] = "open"

Idle(key) == {pool[key][i] : i \in 1..Len(pool[key])}
Pooled == UNION {Idle(key) : key \in Keys}

-----------------------------------------------------------------------------
(* Plausible slips: mutated forms of definitions below, no part of the pool. *)

FrontNotPopped(q, i) == SubSeq(q, i, Len(q))
RoomForOneMore(key) == Len(pool[key]) <= AsSize(MaxIdle)

-----------------------------------------------------------------------------
PoolInit ==
  /\ pool = [key \in Keys |-> <<>>]
  /\ sock = [k \in Conns |-> "closed"]

\* What the queue is once its first i connections are popped.
After(q, i) == SubSeq(q, i + 1, Len(q))

\* shutdown_and_close
CloseSocket(k) == sock' = [sock EXCEPT ![k] = "closed"]

\* The oldest connection that is open is taken; those before it are dropped.
AsyncGet(key, k) ==
  \E i \in 1..Len(pool[key]) :
    /\ k = pool[key][i] /\ IsOpen(k)
    /\ \A j \in 1..(i - 1) : ~IsOpen(pool[key][j])
    /\ pool' = [pool EXCEPT ![key] = After(pool[key], i)]

\* None is open: nullptr, and the queue is empty.
AsyncGetNone(key) ==
  /\ \A k \in Idle(key) : ~IsOpen(k)
  /\ pool' = [pool EXCEPT ![key] = <<>>]

HasRoom(key) == Len(pool[key]) < AsSize(MaxIdle)

\* A connection is kept if there is room for it, else closed.
AsyncPut(key, k) ==
  IF HasRoom(key)
    THEN pool' = [pool EXCEPT ![key] = Append(@, k)] /\ UNCHANGED sock
    ELSE CloseSocket(k) /\ UNCHANGED pool
=============================================================================
