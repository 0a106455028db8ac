--------------------------- MODULE ServerLifecycle ---------------------------
(***************************************************************************)
(* The life of a server: http_server::run_server, the threads that run the   *)
(* io_context, request_connection::run_accept and stop_server called from    *)
(* another thread. A session is there or not, and so are the tasks to which   *)
(* its handlers left a response, which may outlive it. Each may hold the thread *)
(* it runs on: large bodies are read and small responses written              *)
(* synchronously, and a handler may block. What they do is module Session's. *)
(*                                                                         *)
(* The io_context stops by itself once no coroutine is left (and stays       *)
(* stopped, since nothing restarts it); run_server never stops it before.    *)
(***************************************************************************)
EXTENDS Naturals, FiniteSets

CONSTANTS
  Threads,     \* the threads run_server starts
  Clients,     \* connections clients make (an ended one may be made again)
  Silent,      \* those whose peer may leave a synchronous call waiting for ever
  MaxTasks,    \* bound: deferred tasks of a connection under way at a time
  Nobody,      \* no coroutine
  MaxRuns      \* bound: how often run_server is called

\* The coroutines of a connection: its session, and the tasks its handlers spawn.
Session(s) == <<s, 0>>
Tasks(s) == {s} \X (1..MaxTasks)
Coroutines == Clients \X (0..MaxTasks)

\* example.cpp makes it at least one thread.
ASSUME LifecycleAssumption ==
  /\ MaxRuns \in Nat /\ MaxTasks \in Nat
  /\ Threads # {} /\ Silent \subseteq Clients /\ Nobody \notin Coroutines

VARIABLES
  main,        \* the caller of run_server: "outside" or "joining"
  runs,        \* how often it has called it
  worker,      \* each thread: "none", "run" (inside ioc.run) or "left"
  holds,       \* the coroutine that holds each thread in a synchronous call, or Nobody
  stopped,     \* has the io_context stopped?
  accept,      \* run_accept: "none", "spawned", "loop", "waiting" or "ended"
  stopFlag,    \* request_connection::stop_server_
  backlog,     \* connections the kernel has accepted for the acceptor
  alive,       \* the sessions and tasks there are
  stopCalled,  \* history: has stop_server been called in this run?
  heard,       \* history: was it called once the accept loop was entered?
  late         \* history: how many sessions were spawned after that (up to 2)

vars == <<main, runs, worker, holds, stopped, accept, stopFlag, backlog, alive,
          stopCalled, heard, late>>

ioVars == <<worker, holds, stopped, backlog, alive>>

-----------------------------------------------------------------------------
(* Plausible slips: mutated forms of definitions below, no part of the model. *)

StopsInstanceOnly == FALSE
JoinsNone == TRUE
LoopsForEver == FALSE
WaitsForOneCoroutine == accept \in {"none", "ended"}

-----------------------------------------------------------------------------
Init ==
  /\ main = "outside" /\ runs = 0
  /\ worker = [t \in Threads |-> "none"]
  /\ holds = [t \in Threads |-> Nobody]
  /\ stopped = FALSE
  /\ accept = "none" /\ stopFlag = FALSE
  /\ backlog = {} /\ alive = {}
  /\ stopCalled = FALSE /\ heard = FALSE /\ late = 0

\* A coroutine runs only while some thread is inside ioc.run and not held by another.
Free(t) == worker[t] = "run" /\ holds[t] = Nobody
Runs == ~stopped /\ \E t \in Threads : Free(t)

Held(c) == \E t \in Threads : holds[t] = c

\* What stop_server writes to the flag the accept loop reads.
StopValue == TRUE

\* The test of the accept loop.
LoopEnds == stopFlag

\* The io_context has run out of coroutines.
NoWork == accept \in {"none", "ended"} /\ alive = {}

\* run_server has joined its threads.
AllJoined == \A t \in Threads : worker[t] = "left"

-----------------------------------------------------------------------------
(* run_server and its threads.                                              *)

\* The accept coroutine is spawned before any thread runs.
RunServer ==
  /\ main = "outside" /\ runs < MaxRuns
  /\ main' = "joining" /\ runs' = runs + 1
  /\ accept' = "spawned"
  /\ worker' = [t \in Threads |-> "none"]
  /\ stopCalled' = FALSE /\ heard' = FALSE /\ late' = 0
  /\ UNCHANGED <<holds, stopped, stopFlag, backlog, alive>>

\* (The slip of a run_server that calls ioc.run in its loop, one after the other.)
ThreadRunsAlone(t) ==
  /\ main = "joining" /\ worker[t] = "none" /\ \A u \in Threads : worker[u] # "run"
  /\ worker' = [worker EXCEPT ![t] = IF stopped THEN "left" ELSE "run"]
  /\ UNCHANGED <<main, runs, holds, stopped, accept, stopFlag, backlog, alive,
                 stopCalled, heard, late>>

\* A thread calls ioc.run.
ThreadRuns(t) ==
  /\ main = "joining" /\ worker[t] = "none"
  /\ worker' = [worker EXCEPT ![t] = IF stopped THEN "left" ELSE "run"]
  /\ UNCHANGED <<main, runs, holds, stopped, accept, stopFlag, backlog, alive,
                 stopCalled, heard, late>>

\* The last coroutine has ended: the io_context stops.
OutOfWork ==
  /\ Runs /\ NoWork
  /\ stopped' = TRUE
  /\ UNCHANGED <<main, runs, worker, holds, accept, stopFlag, backlog, alive,
                 stopCalled, heard, late>>

ThreadLeaves(t) ==
  /\ worker[t] = "run" /\ stopped
  /\ worker' = [worker EXCEPT ![t] = "left"]
  /\ UNCHANGED <<main, runs, holds, stopped, accept, stopFlag, backlog, alive,
                 stopCalled, heard, late>>

\* The threads are joined, ioc.stop is called and run_server returns.
Return ==
  /\ main = "joining" /\ AllJoined
  /\ main' = "outside" /\ stopped' = TRUE
  /\ UNCHANGED <<runs, worker, holds, accept, stopFlag, backlog, alive,
                 stopCalled, heard, late>>

\* stop_server, from any thread while run_server runs.
StopServer ==
  /\ main = "joining" /\ ~stopCalled
  /\ stopCalled' = TRUE
  /\ stopFlag' = StopValue
  /\ heard' = (accept \in {"loop", "waiting"})
  /\ UNCHANGED <<main, runs, accept, ioVars, late>>

-----------------------------------------------------------------------------
(* run_accept.                                                              *)

\* It clears the flag, then opens, binds and listens; each may fail.
StartAccept ==
  /\ Runs /\ accept = "spawned"
  /\ stopFlag' = FALSE
  /\ accept' \in {"loop", "ended"}
  /\ UNCHANGED <<main, runs, ioVars, stopCalled, heard, late>>

\* The head of the loop.
TestFlag ==
  /\ Runs /\ accept = "loop"
  /\ accept' = IF LoopEnds THEN "ended" ELSE "waiting"
  /\ backlog' = IF LoopEnds THEN {} ELSE backlog
  /\ UNCHANGED <<main, runs, worker, holds, stopped, stopFlag, alive,
                 stopCalled, heard, late>>

\* async_accept returns: a session is spawned for the connection.
Accept(s) ==
  /\ Runs /\ accept = "waiting" /\ s \in backlog
  /\ backlog' = backlog \ {s}
  /\ alive' = alive \cup {Session(s)}
  /\ accept' = "loop"
  /\ late' = IF heard /\ late < 2 THEN late + 1 ELSE late
  /\ UNCHANGED <<main, runs, worker, holds, stopped, stopFlag, stopCalled, heard>>

\* async_accept fails (no descriptor left, a connection aborted): the exception
\* leaves the coroutine, and with it goes the acceptor.
AcceptFails ==
  /\ Runs /\ accept = "waiting"
  /\ accept' = "ended"
  /\ backlog' = {}
  /\ UNCHANGED <<main, runs, worker, holds, stopped, stopFlag, alive,
                 stopCalled, heard, late>>

\* A handler spawns a task and leaves its response to it.
SpawnTask(s, c) ==
  /\ Runs /\ Session(s) \in alive /\ ~Held(Session(s)) /\ c \in Tasks(s) \ alive
  /\ alive' = alive \cup {c}
  /\ UNCHANGED <<main, runs, worker, holds, stopped, accept, stopFlag, backlog,
                 stopCalled, heard, late>>

\* A session or a task starts a synchronous read or write, or its handler blocks.
HoldThread(t, c) ==
  /\ ~stopped /\ Free(t) /\ c \in alive /\ ~Held(c)
  /\ holds' = [holds EXCEPT ![t] = c]
  /\ UNCHANGED <<main, runs, worker, stopped, accept, stopFlag, backlog, alive,
                 stopCalled, heard, late>>

\* The call returns. No timeout ends it: it is for the peer to read, send or close.
LetGo(t) ==
  /\ holds[t] # Nobody
  /\ holds' = [holds EXCEPT ![t] = Nobody]
  /\ UNCHANGED <<main, runs, worker, stopped, accept, stopFlag, backlog, alive,
                 stopCalled, heard, late>>

\* A session or a task returns.
CoroutineEnds(c) ==
  /\ Runs /\ c \in alive /\ ~Held(c)
  /\ alive' = alive \ {c}
  /\ UNCHANGED <<main, runs, worker, holds, stopped, accept, stopFlag, backlog,
                 stopCalled, heard, late>>

\* A client connects to the listening socket (once nothing of its last connection is
\* left: its name stands for a new one).
Connect(s) ==
  /\ accept \in {"loop", "waiting"} /\ s \notin backlog
  /\ alive \cap ({Session(s)} \cup Tasks(s)) = {}
  /\ backlog' = backlog \cup {s}
  /\ UNCHANGED <<main, runs, worker, holds, stopped, accept, stopFlag, alive,
                 stopCalled, heard, late>>

-----------------------------------------------------------------------------
Server ==
  \/ \E t \in Threads : ThreadRuns(t) \/ ThreadLeaves(t)
  \/ OutOfWork \/ Return \/ StartAccept \/ TestFlag
  \/ \E s \in Clients : Accept(s)

Next ==
  \/ RunServer \/ StopServer \/ AcceptFails
  \/ Server
  \/ \E s \in Clients : Connect(s) \/ \E c \in Tasks(s) : SpawnTask(s, c)
  \/ \E c \in Coroutines : CoroutineEnds(c) \/ \E t \in Threads : HoldThread(t, c)
  \/ \E t \in Threads : LetGo(t)

Spec == Init /\ [][Next]_vars

\* What a silent peer's connection has that may hold a thread for ever.
Silenced == Silent \X (0..MaxTasks)

LetsGo(t) == holds[t] \notin Silenced /\ LetGo(t)

\* Threads run what is ready in the order in which it became ready, so what is ready
\* again and again gets its turn. A session that is not for ever in a synchronous
\* call ends (TimeoutEndsSession of module Session), so does a task, whose one write
\* the same timeout ends, and a synchronous call ends unless its peer is silent.
FairSpec ==
  /\ Spec
  /\ \A t \in Threads : WF_vars(ThreadRuns(t)) /\ WF_vars(ThreadLeaves(t)) /\ WF_vars(LetsGo(t))
  /\ WF_vars(OutOfWork) /\ WF_vars(Return) /\ WF_vars(StartAccept) /\ SF_vars(TestFlag)
  /\ \A c \in Coroutines : SF_vars(CoroutineEnds(c))
  /\ SF_vars(\E s \in Clients : Accept(s))

\* The same, and clients keep coming.
VisitedSpec == FairSpec /\ WF_vars(\E s \in Clients : Connect(s))

-----------------------------------------------------------------------------
(* Properties.                                                              *)

\* Every variable has its type, a thread inside ioc.run is held by one coroutine that
\* is there, and by no other thread's, nothing runs on a stopped io_context, and only
\* a loop that was entered has a backlog.
TypeOK ==
  /\ main \in {"outside", "joining"} /\ runs \in 0..MaxRuns
  /\ worker \in [Threads -> {"none", "run", "left"}]
  /\ holds \in [Threads -> alive \cup {Nobody}]
  /\ \A t \in Threads : holds[t] # Nobody => worker[t] = "run"
  /\ \A t, u \in Threads : holds[t] = holds[u] => t = u \/ holds[t] = Nobody
  /\ stopped \in BOOLEAN /\ stopFlag \in BOOLEAN
  /\ accept \in {"none", "spawned", "loop", "waiting", "ended"}
  /\ backlog \subseteq Clients /\ alive \subseteq Coroutines
  /\ backlog # {} => accept \in {"loop", "waiting"}
  /\ stopped => alive = {} /\ accept \notin {"loop", "waiting"}
  /\ stopCalled \in BOOLEAN /\ heard \in BOOLEAN /\ late \in 0..2

\* When run_server has returned nothing of the server is left running: no accept
\* loop, no session, no task, no thread.
ReturnsQuiet ==
  main = "outside" =>
    /\ accept \in {"none", "ended"} \/ (accept = "spawned" /\ runs > 1)
    /\ alive = {} /\ \A t \in Threads : worker[t] # "run"

\* Once stop_server was called on a running accept loop, at most one more
\* connection gets a session: the one the pending accept was waiting for.
AtMostOneLate == late <= 1

\* What makes the three invariants above inductive: a thread leaves a stopped
\* io_context only, a stopped one has nothing left but what a later run_server
\* spawns in vain, and a loop that has heard of the stop ends at its next test.
StopInv ==
  /\ \A t \in Threads : worker[t] = "left" => stopped
  /\ main = "outside" =>
       /\ \A t \in Threads : worker[t] # "run"
       /\ IF runs = 0 THEN accept = "none" /\ alive = {} /\ ~stopped ELSE stopped
  /\ main = "joining" => runs > 0
  /\ accept = "spawned" /\ stopped => runs > 1

HeardInv ==
  /\ heard => stopCalled /\ stopFlag /\ accept \in {"loop", "waiting", "ended"}
  /\ heard /\ accept = "waiting" => late = 0
  /\ ~heard => late = 0

IInv == TypeOK /\ StopInv /\ HeardInv /\ AtMostOneLate

\* What stop_server says of itself ("stop the server"): the server ends. Said here of
\* a stop that the accept loop has heard of (an earlier one is forgotten, since
\* run_accept clears the flag): yet nothing wakes the pending async_accept.
StopEndsServer == heard ~> main = "outside"

\* It does if clients keep coming, each of which wakes the loop, unless a session or a
\* task of a silent peer holds a thread of the server for ever.
StopEndsUnlessHeld ==
  <>[](heard /\ main = "joining") => <>[](\E c \in Silenced : Held(c))

\* A silent peer can hold as many threads as its connection has coroutines. As long
\* as that leaves a thread, a waiting client gets its session (or the accept loop
\* ends): no session and no task keeps the others from running.
Served ==
  Cardinality(Silenced) < Cardinality(Threads) =>
    (accept = "waiting" /\ backlog # {} ~> accept # "waiting")
=============================================================================
