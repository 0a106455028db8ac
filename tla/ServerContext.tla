--------------------------- MODULE ServerContext ---------------------------
(***************************************************************************)
(* The contexts of a server: base::server_ctx made by http_server, the caller *)
(* of the server that fills its global context before run_server, the request *)
(* contexts run_session links to it, the handlers and the tasks they spawn.   *)
(*                                                                         *)
(* What handlers may do (the code does not check it): they call set_sub and    *)
(* set_global only on their request's context and only while no task shares    *)
(* it, and of the server's and the global context they use the map alone.     *)
(***************************************************************************)
EXTENDS Context

CONSTANTS
  Main,        \* the thread that makes the server
  Requests,    \* requests: each names its request_context and its handler
  TaskOf,      \* the task a request's handler may spawn, or Null
  Replacing,   \* requests whose handlers make contexts and link them
  Again,       \* bound: may a handler make and link contexts more than once?
  Server,      \* base::svr_ctx_
  Default      \* the value of the server's settings

Tasks == {TaskOf[r] : r \in Requests} \ {Null}

\* A thread is the main one, or one request's handler, or the task of one.
ASSUME ServerContextAssumption ==
  /\ Requests \subseteq Contexts \ Fresh /\ Server \in Contexts \ (Fresh \cup Requests)
  /\ Threads = {Main} \cup Requests \cup Tasks
  /\ Main \notin Requests \cup Tasks /\ Requests \cap Tasks = {}
  /\ \A q, r \in Requests : TaskOf[q] = TaskOf[r] => q = r \/ TaskOf[q] = Null
  /\ Default \in Values /\ Replacing \subseteq Requests /\ Again \in BOOLEAN

VARIABLES
  phase,      \* Main: "none", "defaults", "configure" or "serving"
  running,    \* handlers and tasks that run
  replaced,   \* history: requests whose context was linked anew by their handler
  followed,   \* history: threads whose got is what get_global gave them
  last        \* history: the last operation on what is, or should be, the global map

vars == <<contextVars, phase, running, replaced, followed, last>>

\* The map of the server's global context, before it is made too.
Global == IF glob[Server] = Null THEN Empty ELSE data[glob[Server]]

GM == INSTANCE GlobalMap WITH mem <- Global

Init ==
  /\ ContextInit
  /\ phase = "none" /\ running = {} /\ replaced = {}
  /\ followed = {}
  /\ last = GM!Op(Null, Null)

-----------------------------------------------------------------------------
(* Plausible slips: mutated forms of definitions below, no part of the model. *)

MakesNoGlobal == UNCHANGED call
HandlerOut(t) == t \in Requests

-----------------------------------------------------------------------------
(* The server, and its caller.                                              *)

\* server_ctx makes the global context with the server's, not at its first use.
GlobalAtOnce == Enter(Main, "get_global", Server, Null)

ServerCtx ==
  /\ phase = "none" /\ phase' = "defaults"
  /\ Make(Main, Server) /\ GlobalAtOnce
  /\ UNCHANGED <<data, pointers, got, running, replaced, followed, last>>

\* The settings, in server_ctx and in http_server::init.
Defaults ==
  /\ phase = "defaults" /\ Quiet(Main) /\ phase' = "configure"
  /\ data' = [data EXCEPT ![Server] = [k \in Keys |-> Default]]
  /\ UNCHANGED <<maker, pointers, call, got, running, replaced, followed, last>>

\* http_server::get_global.
ServerGetGlobal ==
  /\ phase = "configure" /\ Enter(Main, "get_global", Server, Null)
  /\ followed' = followed \cup {Main}
  /\ UNCHANGED <<maker, data, pointers, got, phase, running, replaced, last>>

\* run_server: its caller waits from here on.
Serve ==
  /\ phase = "configure" /\ Quiet(Main) /\ phase' = "serving"
  /\ got' = [got EXCEPT ![Main] = Null]
  /\ UNCHANGED <<maker, data, pointers, call, running, replaced, followed, last>>

-----------------------------------------------------------------------------
(* A request, its handler and its task.                                     *)

Request(t) == CHOOSE r \in Requests : t \in {r, TaskOf[r]}
Mine(r) == {c \in Contexts : maker[c] \in {r, TaskOf[r]} \ {Null}}
Alone(r) == TaskOf[r] \notin running

\* run_session links the context of a request to the server's.
LinkToServer(r) == Enter(r, "set_sub", r, Server)

Arrive(r) ==
  /\ phase = "serving" /\ r \notin running /\ maker[r] = Null
  /\ running' = running \cup {r}
  /\ Make(r, r) /\ LinkToServer(r)
  /\ UNCHANGED <<data, pointers, got, phase, replaced, followed, last>>

\* get_global and get_sub.
Ask(t, op, c) ==
  /\ t \in running
  /\ c = Request(t) \/ (Alone(Request(t)) /\ c \in Mine(Request(t)))
  /\ Enter(t, op, c, Null)
  /\ followed' = IF op = "get_global" /\ c = Request(t) THEN followed \cup {t} ELSE followed \ {t}
  /\ UNCHANGED <<maker, data, pointers, got, phase, running, replaced, last>>

\* A context of the handler's own.
MakeContext(r) ==
  /\ r \in running \cap Replacing /\ Quiet(r) /\ (Again \/ Mine(r) = {r}) /\ Unmade # {}
  /\ Make(r, New)
  /\ got' = [got EXCEPT ![r] = New] /\ followed' = followed \ {r}
  /\ UNCHANGED <<data, pointers, call, phase, running, replaced, last>>

\* set_sub or set_global of the request's context, to the context at hand.
Replace(r, op) ==
  /\ r \in running \cap Replacing /\ Alone(r)
  /\ Again \/ r \notin replaced
  /\ got[r] # Null /\ Enter(r, op, r, got[r])
  /\ replaced' = replaced \cup {r}
  /\ UNCHANGED <<maker, data, pointers, got, phase, running, followed, last>>

\* A task shares the request's context, if that is as run_session made it.
SpawnTask(r) ==
  /\ TaskOf[r] # Null /\ r \in running \ replaced /\ Quiet(r) /\ Alone(r)
  /\ running' = running \cup {TaskOf[r]}
  /\ UNCHANGED <<contextVars, phase, replaced, followed, last>>

\* The handler and its task each hold the request's context.
LastOut(t) == running \cap {Request(t), TaskOf[Request(t)]} = {t}

\* A handler or a task returns: the request's context goes with the last of them.
Leave(t) ==
  LET r == Request(t) IN
  /\ t \in running /\ Quiet(t) /\ running' = running \ {t}
  /\ got' = [got EXCEPT ![t] = Null] /\ followed' = followed \ {t}
  /\ IF LastOut(t)
       THEN Drop(Mine(r)) /\ replaced' = replaced \ {r}
       ELSE UNCHANGED <<maker, data, pointers, replaced>>
  /\ UNCHANGED <<call, phase, last>>

-----------------------------------------------------------------------------
(* Operations on a map. Those on the map of a request's own context, or on the *)
(* settings, are the same and left out.                                       *)

\* Who has the global map at hand, or what get_global gave for it.
AtHand(t) ==
  /\ t \in running \/ (t = Main /\ phase = "configure")
  /\ Quiet(t) /\ got[t] # Null
  /\ got[t] # glob[Server] => t \in followed /\ (t # Main => Request(t) \notin replaced)

Log(k, v) == last' = GM!Op(k, v)

mapUnchanged == UNCHANGED <<maker, pointers, call, got, phase, running, replaced, followed>>

SetValue(t, k, v) == AtHand(t) /\ Put(got[t], k, v) /\ Log(k, v) /\ mapUnchanged
RemoveKey(t, k) == AtHand(t) /\ Put(got[t], k, Null) /\ Log(k, Null) /\ mapUnchanged
ClearMap(t) == AtHand(t) /\ Wipe(got[t]) /\ Log(Null, Null) /\ mapUnchanged
GetValue(t, k, type) ==
  /\ AtHand(t) /\ Log(k, Value(got[t], k, type))
  /\ UNCHANGED data /\ mapUnchanged

MapStep(t) ==
  \/ ClearMap(t)
  \/ \E k \in Keys :
       \/ RemoveKey(t, k)
       \/ \E v \in Values : SetValue(t, k, v)
       \/ \E type \in Types : GetValue(t, k, type)

-----------------------------------------------------------------------------
RequestStep(r) ==
  \/ Arrive(r) \/ MakeContext(r) \/ SpawnTask(r)
  \/ \E op \in {"set_sub", "set_global"} : Replace(r, op)

Next ==
  \/ ServerCtx \/ Defaults \/ ServerGetGlobal \/ Serve
  \/ \E r \in Requests : RequestStep(r)
  \/ \E t \in Requests \cup Tasks :
       \/ Leave(t)
       \/ \E op \in {"get_sub", "get_global"}, c \in Contexts : Ask(t, op, c)
  \/ \E t \in Threads : MapStep(t)
  \/ \E t \in Threads : PointerStep(t) /\ UNCHANGED <<phase, running, replaced, followed, last>>

Spec == Init /\ [][Next]_vars

-----------------------------------------------------------------------------
(* Properties.                                                              *)

StateTypeOK ==
  /\ ContextTypeOK
  /\ phase \in {"none", "defaults", "configure", "serving"}
  /\ running \subseteq Requests \cup Tasks /\ replaced \subseteq Requests
  /\ followed \subseteq Threads

NothingDangles ==
  /\ \A t \in Threads : call[t] # Idle => maker[call[t].self] # Null
  /\ \A t \in running : maker[Request(t)] # Null
  /\ \A c \in Contexts : sub[c] # Null => maker[sub[c]] # Null
  /\ \A c \in Contexts : glob[c] # Null => maker[glob[c]] # Null

\* Every variable has its type, and pointers and calls lead only to contexts that
\* exist: a request's context is there as long as its handler or its task.
TypeOK == StateTypeOK /\ NothingDangles

\* The pointers need no lock: no step of a thread writes a pointer that the next
\* step of another reads or writes. Handlers and tasks only read the pointers they
\* share, since those were set before they began.
NoPointerRace ==
  \A t, u \in Threads : t # u => Writes(t) \cap (Reads(u) \cup Writes(u)) = {}

\* Who follows get_global, in the caller of the server, in any handler and in any
\* task (of a request whose handler did not link its context anew), is on one map.
GlobalSpec == GM!Spec
=============================================================================
