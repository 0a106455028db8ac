-------------------------- MODULE ContextInvariant --------------------------
(***************************************************************************)
(* What makes the properties of the server's contexts inductive: who made a   *)
(* context is who uses its pointers, and what is shared is linked before.      *)
(***************************************************************************)
EXTENDS ServerContext

\* The step of its call on the pointers a thread is at.
At(t, ops) == call[t].op \in ops

Reading == {"get_sub", "get_global"}
Linking == {"set_sub", "pull_global", "set_global"}

\* As run_session links a request's context.
Linked(r) == sub[r] = Server /\ glob[r] = glob[Server]

MainCalls(op) == call[Main] = [op |-> op, self |-> Server, arg |-> Null]

\* The main thread makes the global context before it goes on, and has it at hand
\* until it serves.
MainInv ==
  \/ phase = "none" /\ glob[Server] = Null /\ Quiet(Main)
  \/ phase = "defaults" /\ glob[Server] = Null /\ (MainCalls("get_global") \/ MainCalls("make_global"))
  \/ /\ phase \in {"defaults", "configure"} /\ glob[Server] # Null /\ got[Main] = glob[Server]
     /\ Quiet(Main) \/ MainCalls("get_global")
  \/ phase = "serving" /\ glob[Server] # Null /\ got[Main] = Null /\ Quiet(Main)

\* Contexts are made by the main thread (the server's and the global one) and by
\* handlers; a handler's go with its request's. Tasks make none.
OwnerInv ==
  /\ \A c \in Contexts : maker[c] \in Requests \cup {Main, Null}
  /\ \A c \in Contexts : maker[c] \in Requests => maker[maker[c]] = maker[c]
  /\ \A r \in Requests : maker[r] \in {r, Null}
  /\ maker[Server] = IF phase = "none" THEN Null ELSE Main
  /\ glob[Server] # Null => glob[Server] \in Fresh /\ maker[glob[Server]] = Main
  /\ \A c \in Contexts : maker[c] = Null => data[c] = Empty /\ sub[c] = Null /\ glob[c] = Null

\* Pointers lead to contexts of the same handler, or to the main thread's.
PointerInv ==
  \A c \in Contexts :
    /\ sub[c] # Null => maker[sub[c]] \in {maker[c], Main}
    /\ glob[c] # Null => maker[glob[c]] \in {maker[c], Main}

\* Who runs does so while the server serves, on a request's context that exists, and
\* that context exists for them alone.
RunInv ==
  /\ phase # "serving" => running = {}
  /\ \A t \in running : maker[Request(t)] = Request(t)
  /\ \A r \in Requests : maker[r] = r => r \in running \/ TaskOf[r] \in running
  /\ \A r \in replaced : maker[r] = r

\* A handler calls on contexts of its own, and writes what it has tested or made.
HandlerInv ==
  \A r \in Requests : ~Quiet(r) =>
    /\ r \in running /\ call[r].self \in Contexts /\ maker[call[r].self] = r
    /\ At(r, {"make_sub"}) => sub[call[r].self] = Null
    /\ At(r, {"copy_global"}) => sub[call[r].self] \in Fresh /\ maker[sub[call[r].self]] = r
    /\ At(r, {"make_global"}) => glob[call[r].self] = Null
    /\ At(r, Linking) => call[r].self = r
    /\ At(r, {"set_sub", "set_global"}) =>
         call[r].arg \in Contexts /\ maker[call[r].arg] \in {r, Main}
    /\ At(r, {"pull_global"}) => sub[r] # Null

\* A request's context is being linked to the server's, is so linked, or was linked
\* anew by its handler.
LinkInv ==
  \A r \in Requests : maker[r] = r /\ r \notin replaced =>
    \/ At(r, {"set_sub"}) /\ call[r].arg = Server
    \/ At(r, {"pull_global"}) /\ sub[r] = Server
    \/ Linked(r) /\ ~At(r, Linking)

\* While a task runs, it and the handler only read the pointers of the request's context,
\* which was linked before.
TaskInv ==
  \A r \in Requests : TaskOf[r] # Null =>
    /\ ~Quiet(TaskOf[r]) =>
         TaskOf[r] \in running /\ At(TaskOf[r], Reading) /\ call[TaskOf[r]].self = r
    /\ TaskOf[r] \in running =>
         /\ r \notin replaced /\ Linked(r)
         /\ ~Quiet(r) => At(r, Reading) /\ call[r].self = r

\* What a handler or a task has at hand.
GotInv ==
  \A t \in Requests \cup Tasks :
    /\ t \notin running => got[t] = Null
    /\ got[t] # Null => maker[got[t]] \in {Request(t), Main}

\* What get_global gave on a request's context is the global context, unless that was
\* linked anew.
FollowInv ==
  \A t \in followed \ {Main} :
    /\ t \in running /\ ~At(t, {"get_sub", "make_sub", "copy_global"})
    /\ At(t, {"get_global", "make_global"}) => call[t].self = Request(t)
    /\ Request(t) \notin replaced => got[t] = glob[Server] \/ At(t, {"get_global"})

\* What holds of the contexts of a server, whatever its handlers do within the rules.
ContextInv ==
  /\ StateTypeOK /\ MainInv /\ OwnerInv /\ PointerInv /\ RunInv
  /\ HandlerInv /\ LinkInv /\ TaskInv /\ GotInv /\ FollowInv
=============================================================================
