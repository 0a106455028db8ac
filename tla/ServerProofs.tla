---------------------------- MODULE ServerProofs ----------------------------
(***************************************************************************)
(* Proofs about the life of a server, for any number of threads, clients and *)
(* runs.                                                                     *)
(***************************************************************************)
EXTENDS ServerLifecycle, TLAPS

\* The inductive invariant holds at the start.
LEMMA InitInv == Init => IInv
<1> SUFFICES ASSUME Init PROVE IInv
  OBVIOUS
<1>1. TypeOK
  <2>1. worker \in [Threads -> {"none", "run", "left"}]
    BY DEF Init
  <2>4. holds \in [Threads -> alive \cup {Nobody}] /\ \A t \in Threads : holds[t] = Nobody
    BY DEF Init
  <2>2. runs \in 0..MaxRuns /\ late \in 0..2
    BY LifecycleAssumption DEF Init
  <2>3. FALSE \in BOOLEAN /\ backlog \subseteq Clients /\ alive \subseteq Coroutines
    BY DEF Init
  <2> QED
    BY <2>1, <2>2, <2>3, <2>4 DEF Init, TypeOK
<1>2. StopInv /\ HeardInv /\ AtMostOneLate
  BY DEF Init, StopInv, HeardInv, AtMostOneLate
<1> QED
  BY <1>1, <1>2 DEF IInv

\* Every step preserves it.
LEMMA StepInv == IInv /\ [Next]_vars => IInv'
<1> SUFFICES ASSUME IInv, [Next]_vars PROVE IInv'
  OBVIOUS
<1> USE LifecycleAssumption DEF IInv, TypeOK, StopInv, HeardInv, AtMostOneLate
<1>0. MaxRuns \in Nat /\ runs \in Nat /\ TRUE \in BOOLEAN /\ FALSE \in BOOLEAN
  OBVIOUS
<1>1. CASE RunServer
  <2>1. TypeOK'
    <3>1. worker' \in [Threads -> {"none", "run", "left"}]
      BY <1>1 DEF RunServer
    <3>2. runs' \in 0..MaxRuns /\ late' \in 0..2
      BY <1>0, <1>1 DEF RunServer
    <3> QED
      BY <1>0, <1>1, <3>1, <3>2 DEF RunServer
  <2>2. StopInv'
    BY <1>0, <1>1 DEF RunServer
  <2>3. HeardInv' /\ AtMostOneLate'
    BY <1>1 DEF RunServer
  <2> QED
    BY <2>1, <2>2, <2>3
<1>2. CASE StopServer
  <2>0. (accept \in {"loop", "waiting"}) \in BOOLEAN
    OBVIOUS
  <2>1. stopCalled' = TRUE /\ stopFlag' = TRUE /\ heard' \in BOOLEAN /\ late' = late /\ accept' = accept
    BY <1>2, <2>0 DEF StopServer, StopValue
  <2>2. TypeOK' /\ AtMostOneLate'
    BY <1>2, <2>1 DEF StopServer, ioVars
  <2>3. StopInv'
    BY <1>2 DEF StopServer, ioVars
  <2>4. HeardInv'
    <3>1. heard' => accept' \in {"loop", "waiting", "ended"}
      BY <1>2 DEF StopServer
    <3>2. late' = 0
      BY <1>2, <2>1 DEF StopServer
    <3> QED
      BY <2>1, <3>1, <3>2
  <2> QED
    BY <2>2, <2>3, <2>4
<1>3. CASE AcceptFails
  BY <1>3 DEF AcceptFails, Runs, Free
<1>4. ASSUME NEW t \in Threads, ThreadRuns(t) PROVE IInv'
  BY <1>4 DEF ThreadRuns
<1>5. ASSUME NEW t \in Threads, ThreadLeaves(t) PROVE IInv'
  BY <1>5 DEF ThreadLeaves
<1>6. CASE OutOfWork
  BY <1>6 DEF OutOfWork, Runs, Free, NoWork
<1>7. CASE Return
  BY <1>7 DEF Return, AllJoined
<1>8. CASE StartAccept
  BY <1>8 DEF StartAccept, Runs, Free, ioVars
<1>9. CASE TestFlag
  BY <1>9 DEF TestFlag, Runs, Free, LoopEnds
<1>10. ASSUME NEW s \in Clients, Accept(s) PROVE IInv'
  <2>1. Session(s) \in Coroutines
    BY DEF Session, Coroutines
  <2>2. QED
    BY <1>10, <2>1 DEF Accept, Runs, Free
<1>11. ASSUME NEW c \in Coroutines, CoroutineEnds(c) PROVE IInv'
  BY <1>11 DEF CoroutineEnds, Runs, Free, Held
<1>12. ASSUME NEW s \in Clients, Connect(s) PROVE IInv'
  BY <1>12 DEF Connect
<1>13. ASSUME NEW t \in Threads, NEW c \in Coroutines, HoldThread(t, c) PROVE IInv'
  BY <1>13 DEF HoldThread, Free, Held
<1>14. ASSUME NEW t \in Threads, LetGo(t) PROVE IInv'
  BY <1>14 DEF LetGo
<1>15. ASSUME NEW s \in Clients, NEW c \in Tasks(s), SpawnTask(s, c) PROVE IInv'
  <2>1. c \in Coroutines
    BY DEF Tasks, Coroutines
  <2>2. QED
    BY <1>15, <2>1 DEF SpawnTask, Runs, Free
<1>16. CASE UNCHANGED vars
  BY <1>16 DEF vars
<1> QED
  BY <1>1, <1>2, <1>3, <1>4, <1>5, <1>6, <1>7, <1>8, <1>9, <1>10, <1>11, <1>12, <1>13, <1>14,
     <1>15, <1>16
  DEF Next, Server

\* The invariant holds at first and after every step.
LEMMA Invariance == Spec => []IInv
BY InitInv, StepInv, PTL DEF Spec

\* Types are kept, nothing is left on an io_context that has stopped, and only an
\* entered accept loop has a backlog, however many threads run it.
THEOREM TypeCorrect == Spec => []TypeOK
<1>1. IInv => TypeOK
  BY DEF IInv
<1> QED
  BY <1>1, Invariance, PTL

\* run_server never returns while an accept loop, a session, a task or a thread of
\* it is still running.
THEOREM ReturnIsQuiet == Spec => []ReturnsQuiet
<1>1. IInv => ReturnsQuiet
  BY LifecycleAssumption DEF IInv, TypeOK, StopInv, ReturnsQuiet
<1> QED
  BY <1>1, Invariance, PTL

\* A stop_server that the accept loop can see lets at most one more session start.
THEOREM StopIsPrompt == Spec => []AtMostOneLate
<1>1. IInv => AtMostOneLate
  BY DEF IInv
<1> QED
  BY <1>1, Invariance, PTL
=============================================================================
