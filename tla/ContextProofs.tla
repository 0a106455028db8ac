---------------------------- MODULE ContextProofs ----------------------------
(***************************************************************************)
(* Proofs about the contexts of a server, for any number of requests, tasks,  *)
(* contexts, keys and values.                                                *)
(***************************************************************************)
EXTENDS ContextInvariant, TLAPS

\* Whose handler a thread is, or whose task.
LEMMA RequestOf ==
  /\ \A r \in Requests : Request(r) = r /\ r \notin Tasks /\ r # Main /\ r # Null
  /\ \A r \in Requests : TaskOf[r] # Null =>
       TaskOf[r] \in Tasks /\ Request(TaskOf[r]) = r /\ TaskOf[r] # Main /\ TaskOf[r] \notin Requests
  /\ \A t \in Tasks : Request(t) \in Requests /\ TaskOf[Request(t)] = t /\ t # Null
<1>1. \A r \in Requests : r \notin Tasks /\ r # Main /\ r # Null
  BY ContextAssumption, ServerContextAssumption
<1>2. \A r \in Requests : TaskOf[r] # Null =>
        TaskOf[r] \in Tasks /\ TaskOf[r] # Main /\ TaskOf[r] \notin Requests
  BY ServerContextAssumption DEF Tasks
<1>3. ASSUME NEW r \in Requests PROVE Request(r) = r
  <2>1. \A q \in Requests : r \in {q, TaskOf[q]} => q = r
    BY <1>1, <1>2
  <2> QED
    BY <2>1 DEF Request
<1>4. ASSUME NEW r \in Requests, TaskOf[r] # Null PROVE Request(TaskOf[r]) = r
  <2>1. \A q \in Requests : TaskOf[r] \in {q, TaskOf[q]} => q = r
    BY <1>2, <1>4, ServerContextAssumption
  <2> QED
    BY <2>1 DEF Request
<1>5. ASSUME NEW t \in Tasks PROVE Request(t) \in Requests /\ TaskOf[Request(t)] = t /\ t # Null
  BY <1>4 DEF Tasks
<1> QED
  BY <1>1, <1>2, <1>3, <1>4, <1>5

\* Which threads and contexts there are.
LEMMA ThreadsAre ==
  /\ Main \in Threads /\ Main \notin Requests /\ Main \notin Tasks
  /\ Requests \subseteq Threads /\ Tasks \subseteq Threads /\ Null \notin Threads
  /\ \A t \in Threads : t = Main \/ t \in Requests \/ t \in Tasks
  /\ Null \notin Contexts /\ Null \notin Values
  /\ Requests \subseteq Contexts /\ Server \in Contexts /\ Fresh \subseteq Contexts
  /\ Server \notin Requests /\ Server \notin Fresh /\ Requests \cap Fresh = {}
BY ContextAssumption, ServerContextAssumption

\* What context() and clear leave.
LEMMA EmptyMap == Empty \in [Keys -> Values \cup {Null}]
BY DEF Empty

\* make_shared gives an object that did not exist.
LEMMA NewIsUnmade == Unmade # {} => New \in Fresh /\ New \in Contexts /\ maker[New] = Null
BY ContextAssumption DEF New, Unmade

\* A thread whose call is at a step is in that call.
LEMMA AtStep ==
  \A t \in Threads : \A op : call[t].op = op /\ op # "none" => ~Quiet(t)
BY DEF Quiet, Idle

-----------------------------------------------------------------------------
\* At first there is no context, no call and nothing at hand.
LEMMA ContextInitInv == Init => ContextInv
<1> SUFFICES ASSUME Init PROVE ContextInv
  OBVIOUS
<1> USE ThreadsAre DEF Init, ContextInit
<1>1. StateTypeOK
  <2>1. Idle \in [op : Steps, self : Contexts \cup {Null}, arg : Contexts \cup {Null}]
    BY DEF Idle, Steps
  <2> QED
    BY <2>1, EmptyMap DEF StateTypeOK, ContextTypeOK
<1>2. MainInv
  BY DEF MainInv, Quiet
<1>3. OwnerInv /\ PointerInv /\ RunInv
  BY DEF OwnerInv, PointerInv, RunInv
<1>4. HandlerInv /\ LinkInv /\ TaskInv
  BY RequestOf DEF HandlerInv, LinkInv, TaskInv, Quiet
<1>5. GotInv /\ FollowInv
  BY DEF GotInv, FollowInv
<1> QED
  BY <1>1, <1>2, <1>3, <1>4, <1>5 DEF ContextInv

-----------------------------------------------------------------------------
(* Calls on the pointers: how they begin, go on and end.                     *)

Call == [op : Steps, self : Contexts \cup {Null}, arg : Contexts \cup {Null}]

\* What a call that begins leaves behind.
LEMMA Entered ==
  ASSUME ContextTypeOK, NEW t \in Threads, NEW op \in Steps, NEW c \in Contexts,
         NEW arg \in Contexts \cup {Null}, Enter(t, op, c, arg)
  PROVE  /\ call' \in [Threads -> Call] /\ call[t] = Idle
         /\ call'[t] = [op |-> op, self |-> c, arg |-> arg]
         /\ \A u \in Threads : u # t => call'[u] = call[u]
BY DEF ContextTypeOK, Enter, Call, Quiet

\* What a call that goes on to its next access leaves behind.
LEMMA WentOn ==
  ASSUME ContextTypeOK, NEW t \in Threads, NEW op \in Steps, GoOn(t, op)
  PROVE  /\ call' \in [Threads -> Call] /\ got' = got
         /\ call'[t] = [op |-> op, self |-> call[t].self, arg |-> call[t].arg]
         /\ \A u \in Threads : u # t => call'[u] = call[u]
<1>1. call[t] \in Call
  BY DEF ContextTypeOK, Call
<1>2. [call[t] EXCEPT !.op = op] = [op |-> op, self |-> call[t].self, arg |-> call[t].arg]
  BY <1>1 DEF Call
<1>3. call' = [call EXCEPT ![t] = [call[t] EXCEPT !.op = op]] /\ got' = got
  BY DEF GoOn
<1>4. [op |-> op, self |-> call[t].self, arg |-> call[t].arg] \in Call
  BY <1>1 DEF Call
<1> QED
  BY <1>2, <1>3, <1>4 DEF ContextTypeOK, Call

\* What a call that returns leaves behind.
LEMMA Returned ==
  ASSUME ContextTypeOK, NEW t \in Threads, NEW c \in Contexts \cup {Null}, Return(t, c)
  PROVE  /\ call' \in [Threads -> Call] /\ call'[t] = Idle
         /\ got' \in [Threads -> Contexts \cup {Null}] /\ got'[t] = c
         /\ \A u \in Threads : u # t => call'[u] = call[u] /\ got'[u] = got[u]
<1>1. Idle \in Call
  BY DEF Idle, Call, Steps
<1> QED
  BY <1>1 DEF ContextTypeOK, Return, Call

others == <<phase, running, replaced, followed, last>>

\* A handler tests a pointer of a context of its own.
LEMMA HandlerTests ==
  ASSUME ContextInv, NEW r \in Requests, TestSub(r) \/ TestGlobal(r), UNCHANGED others
  PROVE  ContextInv'
<1> USE ThreadsAre DEF ContextInv, others, pointers
<1>0. ContextTypeOK /\ ~Quiet(r) /\ r \in Threads
  BY AtStep DEF StateTypeOK, TestSub, TestGlobal
<1> DEFINE s == call[r].self
           Onward(op) == [op |-> op, self |-> s, arg |-> call[r].arg]
<1>1. /\ r \in running /\ s \in Contexts /\ maker[s] = r /\ At(r, Reading)
      /\ UNCHANGED <<maker, data, sub, glob, phase, running, replaced, followed>>
  BY <1>0 DEF TestSub, TestGlobal, HandlerInv, At, Reading
<1>2. /\ call' \in [Threads -> Call] /\ got' \in [Threads -> Contexts \cup {Null}]
      /\ \A t \in Threads : t # r => call'[t] = call[t] /\ got'[t] = got[t]
      /\ \/ At(r, {"get_sub"}) /\ sub[s] # Null /\ call'[r] = Idle /\ got'[r] = sub[s]
         \/ At(r, {"get_sub"}) /\ sub[s] = Null /\ call'[r] = Onward("make_sub") /\ got'[r] = got[r]
         \/ At(r, {"get_global"}) /\ glob[s] # Null /\ call'[r] = Idle /\ got'[r] = glob[s]
         \/ At(r, {"get_global"}) /\ glob[s] = Null /\ call'[r] = Onward("make_global") /\ got'[r] = got[r]
  <2>1. /\ {"make_sub", "make_global"} \subseteq Steps
        /\ sub[s] \in Contexts \cup {Null} /\ glob[s] \in Contexts \cup {Null}
    BY <1>0, <1>1 DEF Steps, ContextTypeOK
  <2>2. \/ At(r, {"get_sub"}) /\ sub[s] # Null /\ Return(r, sub[s])
        \/ At(r, {"get_sub"}) /\ sub[s] = Null /\ GoOn(r, "make_sub")
        \/ At(r, {"get_global"}) /\ glob[s] # Null /\ Return(r, glob[s])
        \/ At(r, {"get_global"}) /\ glob[s] = Null /\ GoOn(r, "make_global")
    BY DEF TestSub, TestGlobal, At
  <2>3. ASSUME NEW c \in Contexts \cup {Null}, Return(r, c)
        PROVE  /\ call' \in [Threads -> Call] /\ got' \in [Threads -> Contexts \cup {Null}]
               /\ \A t \in Threads : t # r => call'[t] = call[t] /\ got'[t] = got[t]
               /\ call'[r] = Idle /\ got'[r] = c
    BY <1>0, <2>3, Returned
  <2>4. ASSUME NEW op \in Steps, GoOn(r, op)
        PROVE  /\ call' \in [Threads -> Call] /\ got' \in [Threads -> Contexts \cup {Null}]
               /\ \A t \in Threads : t # r => call'[t] = call[t] /\ got'[t] = got[t]
               /\ call'[r] = Onward(op) /\ got'[r] = got[r]
    BY <1>0, <2>4, WentOn DEF ContextTypeOK
  <2> HIDE DEF Onward
  <2> QED
    BY <2>1, <2>2, <2>3, <2>4
<1>3. StateTypeOK'
  BY <1>0, <1>1, <1>2 DEF StateTypeOK, ContextTypeOK, Call
<1>4. MainInv' /\ OwnerInv' /\ PointerInv' /\ RunInv'
  BY <1>1, <1>2 DEF MainInv, OwnerInv, PointerInv, RunInv, Quiet, MainCalls
<1>5. HandlerInv'
  BY <1>0, <1>1, <1>2 DEF HandlerInv, At, Quiet, Linking, Idle, ContextTypeOK
<1>6. LinkInv'
  <2>1. ~At(r, Linking) /\ ~At(r, Linking)'
    BY <1>2 DEF At, Linking, Idle
  <2>2. \A q \in Requests : q # r => call'[q] = call[q]
    BY <1>2
  <2> QED
    BY <1>1, <2>1, <2>2 DEF LinkInv, At, Linking, Linked
<1>7. TaskInv'
  <2>1. ASSUME TaskOf[r] # Null, TaskOf[r] \in running PROVE call'[r] = Idle
    <3>1. s = r /\ Linked(r)
      BY <1>0, <2>1 DEF TaskInv
    <3>2. glob[Server] # Null
      BY <1>1 DEF RunInv, MainInv
    <3> QED
      BY <1>2, <3>1, <3>2 DEF Linked
  <2>2. \A q \in Requests : TaskOf[q] # Null => call'[TaskOf[q]] = call[TaskOf[q]]
    BY <1>2, RequestOf
  <2>3. \A q \in Requests : q # r => call'[q] = call[q]
    BY <1>2
  <2> QED
    BY <1>1, <2>1, <2>2, <2>3 DEF TaskInv, At, Reading, Linked, Quiet
<1>8. GotInv'
  BY <1>0, <1>1, <1>2, RequestOf DEF GotInv, PointerInv, ContextTypeOK
<1>9. FollowInv'
  <2>1. r \in followed /\ At(r, {"get_global"}) => s = r
    BY RequestOf DEF FollowInv, At
  <2>2. r \in followed /\ r \notin replaced => Linked(r) /\ glob[Server] # Null
    BY <1>1, RequestOf DEF RunInv, LinkInv, At, Reading, Linking, MainInv
  <2> QED
    BY <1>0, <1>1, <1>2, <2>1, <2>2, RequestOf DEF FollowInv, At, Idle, StateTypeOK, Linked
<1> QED
  BY <1>3, <1>4, <1>5, <1>6, <1>7, <1>8, <1>9

\* While a handler writes pointers no task shares them; its request's context is not as
\* run_session linked it, or not the one it writes.
LEMMA HandlerWrites ==
  ASSUME ContextInv, NEW r \in Requests, ~Quiet(r), ~At(r, Reading)
  PROVE  /\ r \in Threads /\ r \in running /\ call[r].self \in Contexts
         /\ maker[call[r].self] = r /\ maker[r] = r
         /\ TaskOf[r] \notin running
         /\ phase = "serving" /\ glob[Server] # Null /\ Quiet(Main)
         /\ call[r].self # Server
<1> USE ThreadsAre DEF ContextInv
<1>1. /\ r \in running /\ call[r].self \in Contexts /\ maker[call[r].self] = r
  BY DEF HandlerInv
<1>2. TaskOf[r] \notin running
  BY RequestOf, ContextAssumption DEF TaskInv, StateTypeOK
<1>3. phase = "serving" /\ maker[r] = r
  BY <1>1, RequestOf DEF RunInv
<1>4. glob[Server] # Null /\ Quiet(Main)
  BY <1>3 DEF MainInv
<1>5. call[r].self # Server
  BY <1>1, <1>3 DEF OwnerInv
<1> QED
  BY <1>1, <1>2, <1>3, <1>4, <1>5

\* ... and to which nothing leads.
LEMMA NewIsUnused ==
  ASSUME ContextInv, Unmade # {}
  PROVE  /\ New \in Contexts /\ New \in Fresh /\ maker[New] = Null
         /\ New \notin Requests /\ New # Server /\ New # glob[Server]
         /\ sub[New] = Null /\ glob[New] = Null /\ data[New] = Empty
         /\ \A c \in Contexts : sub[c] # New /\ glob[c] # New
         /\ \A r \in Requests : call[r] # Idle => call[r].self # New
<1> USE ThreadsAre DEF ContextInv
<1>1. New \in Contexts /\ New \in Fresh /\ maker[New] = Null
  BY NewIsUnmade
<1>2. sub[New] = Null /\ glob[New] = Null /\ data[New] = Empty /\ New # glob[Server]
  BY <1>1 DEF OwnerInv
<1>3. \A c \in Contexts : sub[c] # New /\ glob[c] # New
  BY <1>1 DEF OwnerInv, PointerInv
<1>4. \A r \in Requests : call[r] # Idle => call[r].self # New
  BY <1>1 DEF HandlerInv, Quiet
<1> QED
  BY <1>1, <1>2, <1>3, <1>4

\* A handler makes the sub context it found missing.
LEMMA HandlerMakesSub ==
  ASSUME ContextInv, NEW r \in Requests, MakeSub(r), UNCHANGED others
  PROVE  ContextInv'
<1> USE ThreadsAre DEF ContextInv, others
<1>0. ContextTypeOK /\ ~Quiet(r) /\ ~At(r, Reading) /\ Unmade # {}
  BY AtStep DEF StateTypeOK, MakeSub, At, Reading
<1>n. PICK n : n = New
  OBVIOUS
<1>s. PICK s : s = call[r].self
  OBVIOUS
<1>1. /\ r \in Threads /\ r \in running /\ s \in Contexts /\ maker[s] = r /\ maker[r] = r
      /\ TaskOf[r] \notin running /\ phase = "serving" /\ glob[Server] # Null /\ Quiet(Main)
      /\ sub[s] = Null /\ s # Server
  BY <1>0, <1>s, HandlerWrites DEF MakeSub, HandlerInv, At
<1>2. /\ n \in Contexts /\ n \in Fresh /\ maker[n] = Null /\ n \notin Requests /\ n # Server
      /\ n # glob[Server] /\ sub[n] = Null /\ glob[n] = Null
      /\ \A c \in Contexts : sub[c] # n /\ glob[c] # n
      /\ \A q \in Requests : call[q] # Idle => call[q].self # n
  BY <1>0, <1>n, NewIsUnused
<1>3. /\ maker' = [maker EXCEPT ![n] = r] /\ sub' = [sub EXCEPT ![s] = n]
      /\ UNCHANGED <<data, glob, phase, running, replaced, followed>>
  BY <1>n, <1>s DEF MakeSub, Make
<1>4. /\ call' \in [Threads -> Call] /\ got' = got
      /\ call'[r] = [op |-> "copy_global", self |-> s, arg |-> call[r].arg]
      /\ \A t \in Threads : t # r => call'[t] = call[t]
  BY <1>0, <1>1, <1>s, WentOn DEF MakeSub, Steps
<1>5. /\ maker' \in [Contexts -> Threads \cup {Null}] /\ sub' \in [Contexts -> Contexts \cup {Null}]
      /\ maker'[n] = r /\ \A c \in Contexts : c # n => maker'[c] = maker[c]
      /\ sub'[s] = n /\ \A c \in Contexts : c # s => sub'[c] = sub[c]
  BY <1>0, <1>1, <1>2, <1>3 DEF ContextTypeOK
<1>6. StateTypeOK'
  BY <1>0, <1>3, <1>4, <1>5 DEF StateTypeOK, ContextTypeOK, Call
<1>7. MainInv'
  BY <1>1, <1>3, <1>4 DEF MainInv, Quiet
<1>8. OwnerInv'
  BY <1>1, <1>2, <1>3, <1>5, RequestOf DEF OwnerInv
<1>9. PointerInv'
  BY <1>0, <1>1, <1>2, <1>3, <1>5 DEF PointerInv, ContextTypeOK
<1>10. RunInv'
  BY <1>2, <1>3, <1>5, RequestOf DEF RunInv, StateTypeOK
<1>11. HandlerInv'
  BY <1>0, <1>1, <1>2, <1>3, <1>4, <1>5 DEF HandlerInv, At, Quiet, Linking, ContextTypeOK
<1>12. LinkInv'
  BY <1>0, <1>1, <1>2, <1>3, <1>4, <1>5 DEF LinkInv, OwnerInv, At, Linking, Linked, MakeSub
<1>13. TaskInv'
  BY <1>1, <1>2, <1>3, <1>4, <1>5, RequestOf DEF TaskInv, OwnerInv, RunInv, At, Reading, Linked, Quiet
<1>14. GotInv'
  BY <1>0, <1>2, <1>3, <1>4, <1>5, RequestOf DEF GotInv, ContextTypeOK
<1>15. FollowInv'
  BY <1>0, <1>1, <1>3, <1>4, RequestOf DEF FollowInv, At, StateTypeOK, MakeSub
<1> QED
  BY <1>6, <1>7, <1>8, <1>9, <1>10, <1>11, <1>12, <1>13, <1>14, <1>15

\* A handler makes the global context it found missing.
LEMMA HandlerMakesGlobal ==
  ASSUME ContextInv, NEW r \in Requests, MakeGlobal(r), UNCHANGED others
  PROVE  ContextInv'
<1> USE ThreadsAre DEF ContextInv, others
<1>0. ContextTypeOK /\ ~Quiet(r) /\ ~At(r, Reading) /\ Unmade # {}
  BY AtStep DEF StateTypeOK, MakeGlobal, At, Reading
<1>n. PICK n : n = New
  OBVIOUS
<1>s. PICK s : s = call[r].self
  OBVIOUS
<1>1. /\ r \in Threads /\ r \in running /\ s \in Contexts /\ maker[s] = r /\ maker[r] = r
      /\ TaskOf[r] \notin running /\ phase = "serving" /\ glob[Server] # Null /\ Quiet(Main)
      /\ glob[s] = Null /\ s # Server
  BY <1>0, <1>s, HandlerWrites DEF MakeGlobal, HandlerInv, At
<1>2. /\ n \in Contexts /\ n \in Fresh /\ maker[n] = Null /\ n \notin Requests /\ n # Server
      /\ n # glob[Server] /\ sub[n] = Null /\ glob[n] = Null
      /\ \A c \in Contexts : sub[c] # n /\ glob[c] # n
      /\ \A q \in Requests : call[q] # Idle => call[q].self # n
  BY <1>0, <1>n, NewIsUnused
<1>3. /\ maker' = [maker EXCEPT ![n] = r] /\ glob' = [glob EXCEPT ![s] = n]
      /\ UNCHANGED <<data, sub, phase, running, replaced, followed>>
  BY <1>n, <1>s DEF MakeGlobal, Make
<1>4. /\ call' \in [Threads -> Call] /\ got' \in [Threads -> Contexts \cup {Null}]
      /\ call'[r] = Idle /\ got'[r] = n
      /\ \A t \in Threads : t # r => call'[t] = call[t] /\ got'[t] = got[t]
  BY <1>0, <1>1, <1>2, <1>n, Returned DEF MakeGlobal
<1>5. /\ maker' \in [Contexts -> Threads \cup {Null}] /\ glob' \in [Contexts -> Contexts \cup {Null}]
      /\ maker'[n] = r /\ \A c \in Contexts : c # n => maker'[c] = maker[c]
      /\ glob'[s] = n /\ \A c \in Contexts : c # s => glob'[c] = glob[c]
  BY <1>0, <1>1, <1>2, <1>3 DEF ContextTypeOK
<1>6. StateTypeOK'
  BY <1>0, <1>3, <1>4, <1>5 DEF StateTypeOK, ContextTypeOK, Call
<1>7. MainInv'
  BY <1>1, <1>3, <1>4, <1>5 DEF MainInv, Quiet
<1>8. OwnerInv'
  BY <1>1, <1>2, <1>3, <1>5, RequestOf DEF OwnerInv
<1>9. PointerInv'
  BY <1>0, <1>1, <1>2, <1>3, <1>5 DEF PointerInv, ContextTypeOK
<1>10. RunInv'
  BY <1>2, <1>3, <1>5, RequestOf DEF RunInv, StateTypeOK
<1>11. HandlerInv'
  BY <1>0, <1>1, <1>2, <1>3, <1>4, <1>5 DEF HandlerInv, At, Quiet, Linking, ContextTypeOK
<1>12. LinkInv'
  BY <1>0, <1>1, <1>2, <1>3, <1>4, <1>5 DEF LinkInv, OwnerInv, At, Linking, Linked, MakeGlobal, Idle
<1>13. TaskInv'
  BY <1>1, <1>2, <1>3, <1>4, <1>5, RequestOf DEF TaskInv, OwnerInv, RunInv, At, Reading, Linked, Quiet
<1>14. GotInv'
  BY <1>0, <1>1, <1>2, <1>3, <1>4, <1>5, RequestOf DEF GotInv, ContextTypeOK
<1>15. FollowInv'
  <2>1. r \in followed => r \in replaced
    BY <1>0, <1>1, <1>s, RequestOf DEF FollowInv, LinkInv, At, Linked, Linking, MakeGlobal
  <2> QED
    BY <1>0, <1>1, <1>3, <1>4, <1>5, <2>1, RequestOf DEF FollowInv, At, StateTypeOK, Idle
<1> QED
  BY <1>6, <1>7, <1>8, <1>9, <1>10, <1>11, <1>12, <1>13, <1>14, <1>15

\* A handler gives the sub context it made its own global context.
LEMMA HandlerCopiesGlobal ==
  ASSUME ContextInv, NEW r \in Requests, CopyGlobal(r), UNCHANGED others
  PROVE  ContextInv'
<1> USE ThreadsAre DEF ContextInv, others
<1>0. ContextTypeOK /\ ~Quiet(r) /\ ~At(r, Reading)
  BY AtStep DEF StateTypeOK, CopyGlobal, At, Reading
<1>s. PICK s : s = call[r].self
  OBVIOUS
<1>n. PICK n : n = sub[s]
  OBVIOUS
<1>1. /\ r \in Threads /\ r \in running /\ s \in Contexts /\ maker[s] = r /\ maker[r] = r
      /\ TaskOf[r] \notin running /\ phase = "serving" /\ glob[Server] # Null /\ Quiet(Main)
      /\ n \in Fresh /\ n \in Contexts /\ n \notin Requests /\ maker[n] = r /\ n # Server
  BY <1>0, <1>s, <1>n, HandlerWrites DEF CopyGlobal, HandlerInv, At
<1>2. glob[s] \in Contexts \cup {Null} /\ (glob[s] # Null => maker[glob[s]] \in {r, Main})
  BY <1>0, <1>1 DEF PointerInv, ContextTypeOK
<1>3. /\ glob' = [glob EXCEPT ![n] = glob[s]]
      /\ UNCHANGED <<maker, data, sub, phase, running, replaced, followed>>
  BY <1>n, <1>s DEF CopyGlobal
<1>4. /\ call' \in [Threads -> Call] /\ got' \in [Threads -> Contexts \cup {Null}]
      /\ call'[r] = Idle /\ got'[r] = n
      /\ \A t \in Threads : t # r => call'[t] = call[t] /\ got'[t] = got[t]
  BY <1>0, <1>1, <1>n, <1>s, Returned DEF CopyGlobal
<1>5. /\ glob' \in [Contexts -> Contexts \cup {Null}]
      /\ glob'[n] = glob[s] /\ \A c \in Contexts : c # n => glob'[c] = glob[c]
  BY <1>0, <1>1, <1>2, <1>3 DEF ContextTypeOK
<1>6. StateTypeOK'
  BY <1>0, <1>3, <1>4, <1>5 DEF StateTypeOK, ContextTypeOK, Call
<1>7. MainInv'
  BY <1>1, <1>3, <1>4, <1>5 DEF MainInv, Quiet
<1>8. OwnerInv'
  BY <1>1, <1>3, <1>5, RequestOf DEF OwnerInv
<1>9. PointerInv'
  BY <1>1, <1>2, <1>3, <1>5 DEF PointerInv
<1>10. RunInv'
  BY <1>3 DEF RunInv
<1>11. HandlerInv'
  BY <1>0, <1>1, <1>3, <1>4, <1>5 DEF HandlerInv, At, Quiet, Linking, ContextTypeOK
<1>12. LinkInv'
  BY <1>1, <1>3, <1>4, <1>5 DEF LinkInv, At, Linking, Linked, CopyGlobal, Idle
<1>13. TaskInv'
  BY <1>1, <1>3, <1>4, <1>5, RequestOf DEF TaskInv, At, Reading, Linked, Quiet
<1>14. GotInv'
  BY <1>1, <1>3, <1>4, RequestOf DEF GotInv
<1>15. FollowInv'
  BY <1>0, <1>1, <1>3, <1>4, <1>5, RequestOf DEF FollowInv, At, StateTypeOK, CopyGlobal
<1> QED
  BY <1>6, <1>7, <1>8, <1>9, <1>10, <1>11, <1>12, <1>13, <1>14, <1>15

\* set_sub on a request's context: by run_session, or by the handler anew.
LEMMA HandlerSetsSub ==
  ASSUME ContextInv, NEW r \in Requests, SetSub(r), UNCHANGED others
  PROVE  ContextInv'
<1> USE ThreadsAre DEF ContextInv, others
<1>0. ContextTypeOK /\ ~Quiet(r) /\ ~At(r, Reading)
  BY AtStep DEF StateTypeOK, SetSub, At, Reading
<1>a. PICK a : a = call[r].arg
  OBVIOUS
<1>1. /\ r \in Threads /\ r \in Contexts /\ r \in running /\ call[r].self = r /\ maker[r] = r
      /\ TaskOf[r] \notin running /\ phase = "serving" /\ glob[Server] # Null /\ Quiet(Main)
      /\ a \in Contexts /\ maker[a] \in {r, Main}
  BY <1>0, <1>a, HandlerWrites DEF SetSub, HandlerInv, At, Linking
<1>3. /\ sub' = [sub EXCEPT ![r] = a]
      /\ UNCHANGED <<maker, data, glob, phase, running, replaced, followed>>
  BY <1>1, <1>a DEF SetSub
<1>4. /\ call' \in [Threads -> Call] /\ got' = got
      /\ call'[r] = [op |-> "pull_global", self |-> r, arg |-> a]
      /\ \A t \in Threads : t # r => call'[t] = call[t]
  BY <1>0, <1>1, <1>a, WentOn DEF SetSub, Steps
<1>5. /\ sub' \in [Contexts -> Contexts \cup {Null}]
      /\ sub'[r] = a /\ \A c \in Contexts : c # r => sub'[c] = sub[c]
  BY <1>0, <1>1, <1>3 DEF ContextTypeOK
<1>6. StateTypeOK'
  BY <1>0, <1>3, <1>4, <1>5 DEF StateTypeOK, ContextTypeOK, Call
<1>7. MainInv'
  BY <1>1, <1>3, <1>4 DEF MainInv, Quiet
<1>8. OwnerInv'
  BY <1>1, <1>3, <1>5 DEF OwnerInv
<1>9. PointerInv'
  BY <1>1, <1>3, <1>5 DEF PointerInv
<1>10. RunInv'
  BY <1>3 DEF RunInv
<1>11. HandlerInv'
  BY <1>0, <1>1, <1>3, <1>4, <1>5 DEF HandlerInv, At, Quiet, Linking, OwnerInv
<1>12. LinkInv'
  BY <1>1, <1>a, <1>3, <1>4, <1>5 DEF LinkInv, At, Linking, Linked, SetSub
<1>13. TaskInv'
  BY <1>1, <1>3, <1>4, <1>5, RequestOf DEF TaskInv, At, Reading, Linked, Quiet
<1>14. GotInv'
  BY <1>3, <1>4, RequestOf DEF GotInv
<1>15. FollowInv'
  BY <1>0, <1>1, <1>3, <1>4, RequestOf DEF FollowInv, At, StateTypeOK, SetSub
<1> QED
  BY <1>6, <1>7, <1>8, <1>9, <1>10, <1>11, <1>12, <1>13, <1>14, <1>15

\* A handler's request has its global pointer pulled from the sub context, or set.
LEMMA HandlerSetsGlobal ==
  ASSUME ContextInv, NEW r \in Requests, PullGlobal(r) \/ SetGlobal(r), UNCHANGED others
  PROVE  ContextInv'
<1> USE ThreadsAre DEF ContextInv, others
<1>0. ContextTypeOK /\ ~Quiet(r) /\ ~At(r, Reading)
  BY AtStep DEF StateTypeOK, PullGlobal, SetGlobal, At, Reading
<1>1. /\ r \in Threads /\ r \in Contexts /\ r \in running /\ call[r].self = r /\ maker[r] = r
      /\ TaskOf[r] \notin running /\ phase = "serving" /\ glob[Server] # Null /\ Quiet(Main)
  BY <1>0, HandlerWrites DEF PullGlobal, SetGlobal, HandlerInv, At, Linking
<1>g. PICK g : g = glob'[r]
  OBVIOUS
<1>2. /\ glob' = [glob EXCEPT ![r] = g] /\ g \in Contexts \cup {Null}
      /\ g # Null => maker[g] \in {r, Main}
      /\ UNCHANGED <<maker, data, sub, phase, running, replaced, followed>>
      /\ Return(r, got[r])
      /\ At(r, {"pull_global"}) => g = glob[sub[r]]
  <2>1. CASE PullGlobal(r)
    <3>1. sub[r] \in Contexts /\ maker[sub[r]] \in {r, Main}
      BY <1>0, <1>1, <2>1 DEF PullGlobal, HandlerInv, PointerInv, At, ContextTypeOK
    <3>2. glob' = [glob EXCEPT ![r] = glob[sub[r]]] /\ g = glob[sub[r]]
      BY <1>0, <1>1, <1>g, <2>1 DEF PullGlobal, Pulled, ContextTypeOK
    <3>3. g \in Contexts \cup {Null} /\ (g # Null => maker[g] \in {r, Main})
      BY <1>0, <3>1, <3>2 DEF PointerInv, ContextTypeOK
    <3> QED
      BY <2>1, <3>2, <3>3 DEF PullGlobal, Pulled
  <2>2. CASE SetGlobal(r)
    <3>1. call[r].arg \in Contexts /\ maker[call[r].arg] \in {r, Main}
      BY <1>0, <2>2 DEF SetGlobal, HandlerInv, At
    <3>2. glob' = [glob EXCEPT ![r] = call[r].arg] /\ g = call[r].arg
      BY <1>0, <1>1, <1>g, <2>2 DEF SetGlobal, ContextTypeOK
    <3> QED
      BY <2>2, <3>1, <3>2 DEF SetGlobal, At
  <2> QED
    BY <2>1, <2>2
<1>4. /\ call' \in [Threads -> Call] /\ got' \in [Threads -> Contexts \cup {Null}]
      /\ call'[r] = Idle /\ got'[r] = got[r]
      /\ \A t \in Threads : t # r => call'[t] = call[t] /\ got'[t] = got[t]
  BY <1>0, <1>1, <1>2, Returned DEF ContextTypeOK
<1>5. /\ glob' \in [Contexts -> Contexts \cup {Null}]
      /\ glob'[r] = g /\ \A c \in Contexts : c # r => glob'[c] = glob[c]
  BY <1>0, <1>1, <1>2 DEF ContextTypeOK
<1>6. StateTypeOK'
  BY <1>0, <1>2, <1>4, <1>5 DEF StateTypeOK, ContextTypeOK, Call
<1>7. MainInv'
  BY <1>1, <1>2, <1>4, <1>5 DEF MainInv, Quiet
<1>8. OwnerInv'
  BY <1>1, <1>2, <1>5 DEF OwnerInv
<1>9. PointerInv'
  BY <1>1, <1>2, <1>5 DEF PointerInv
<1>10. RunInv'
  BY <1>2 DEF RunInv
<1>11. HandlerInv'
  BY <1>0, <1>1, <1>2, <1>4, <1>5 DEF HandlerInv, At, Quiet, Linking, OwnerInv
<1>12. LinkInv'
  <2>1. r \notin replaced => sub[r] = Server /\ g = glob[Server]
    BY <1>1, <1>2 DEF LinkInv, At, Linking, PullGlobal, SetGlobal
  <2> QED
    BY <1>1, <1>2, <1>4, <1>5, <2>1 DEF LinkInv, At, Linking, Linked, Idle
<1>13. TaskInv'
  BY <1>1, <1>2, <1>4, <1>5, RequestOf DEF TaskInv, At, Reading, Linked, Quiet
<1>14. GotInv'
  BY <1>1, <1>2, <1>4, RequestOf DEF GotInv
<1>15. FollowInv'
  BY <1>0, <1>1, <1>2, <1>4, <1>5, RequestOf DEF FollowInv, At, StateTypeOK, Idle, PullGlobal, SetGlobal
<1> QED
  BY <1>6, <1>7, <1>8, <1>9, <1>10, <1>11, <1>12, <1>13, <1>14, <1>15

\* A task gets what run_session linked: it makes no context.
LEMMA TaskTests ==
  ASSUME ContextInv, NEW t \in Tasks, PointerStep(t), UNCHANGED others
  PROVE  ContextInv'
<1> USE ThreadsAre DEF ContextInv, others, pointers
<1>r. PICK r \in Requests : r = Request(t) /\ TaskOf[r] = t /\ t # Null
  BY RequestOf
<1>0. ContextTypeOK /\ ~Quiet(t) /\ t \in Threads
  BY AtStep DEF StateTypeOK, PointerStep, TestSub, MakeSub, CopyGlobal, TestGlobal, MakeGlobal,
     SetSub, PullGlobal, SetGlobal
<1>1. /\ t \in running /\ At(t, Reading) /\ call[t].self = r /\ Linked(r) /\ r \notin replaced
      /\ phase = "serving" /\ glob[Server] # Null /\ maker[Server] = Main
  BY <1>r, <1>0 DEF TaskInv, RunInv, MainInv, OwnerInv
<1>2. /\ \/ At(t, {"get_sub"}) /\ Return(t, Server)
         \/ At(t, {"get_global"}) /\ Return(t, glob[Server])
      /\ UNCHANGED <<maker, data, sub, glob, phase, running, replaced, followed>>
  BY <1>1 DEF PointerStep, TestSub, MakeSub, CopyGlobal, TestGlobal, MakeGlobal, SetSub,
     PullGlobal, SetGlobal, At, Reading, Linked
<1>3. glob[Server] \in Contexts /\ maker[glob[Server]] = Main
  BY <1>0, <1>1 DEF OwnerInv, ContextTypeOK
<1>4. /\ call' \in [Threads -> Call] /\ got' \in [Threads -> Contexts \cup {Null}]
      /\ call'[t] = Idle /\ got'[t] # Null /\ maker[got'[t]] = Main
      /\ At(t, {"get_sub"}) \/ got'[t] = glob[Server]
      /\ \A u \in Threads : u # t => call'[u] = call[u] /\ got'[u] = got[u]
  <2>1. CASE At(t, {"get_sub"}) /\ Return(t, Server)
    BY <1>0, <1>1, <2>1, Returned
  <2>2. CASE At(t, {"get_global"}) /\ Return(t, glob[Server])
    BY <1>0, <1>1, <1>3, <2>2, Returned
  <2> QED
    BY <1>2, <2>1, <2>2
<1>5. \A q \in Requests : call'[q] = call[q] /\ (TaskOf[q] # t => call'[TaskOf[q]] = call[TaskOf[q]] \/ TaskOf[q] = Null)
  BY <1>4, RequestOf
<1>6. StateTypeOK'
  BY <1>0, <1>2, <1>4 DEF StateTypeOK, ContextTypeOK, Call
<1>7. MainInv' /\ OwnerInv' /\ PointerInv' /\ RunInv'
  BY <1>1, <1>2, <1>4 DEF MainInv, OwnerInv, PointerInv, RunInv, Quiet, MainCalls
<1>8. HandlerInv' /\ LinkInv'
  BY <1>2, <1>5 DEF HandlerInv, LinkInv, At, Quiet, Linked
<1>9. TaskInv'
  BY <1>2, <1>4, <1>5 DEF TaskInv, At, Quiet, Linked
<1>10. GotInv'
  BY <1>1, <1>2, <1>4, RequestOf DEF GotInv
<1>11. FollowInv'
  <2>1. ~At(t, {"get_sub", "make_sub", "copy_global"})' /\ ~At(t, {"get_global", "make_global"})'
    BY <1>4 DEF At, Idle
  <2>2. t \in followed => got'[t] = glob[Server]
    BY <1>4, RequestOf DEF FollowInv, At
  <2> QED
    BY <1>0, <1>2, <1>4, <2>1, <2>2 DEF FollowInv, At, StateTypeOK
<1> QED
  BY <1>6, <1>7, <1>8, <1>9, <1>10, <1>11

\* Before the server serves there is no request.
LEMMA NobodyRuns ==
  ASSUME ContextInv, phase # "serving"
  PROVE  /\ running = {} /\ replaced = {} /\ \A t \in followed : t = Main
         /\ \A r \in Requests : maker[r] = Null
         /\ \A t \in Requests \cup Tasks : Quiet(t) /\ got[t] = Null
         /\ \A r \in Requests : TaskOf[r] # Null => Quiet(TaskOf[r])
<1> USE ThreadsAre DEF ContextInv
<1>1. running = {}
  BY DEF RunInv
<1>2. \A r \in Requests : maker[r] = Null
  BY <1>1 DEF RunInv, OwnerInv
<1>3. replaced = {}
  BY <1>2, RequestOf DEF RunInv, StateTypeOK
<1>4. \A t \in followed : t = Main
  BY <1>1 DEF FollowInv
<1>5. \A t \in Requests \cup Tasks : Quiet(t) /\ got[t] = Null
  BY <1>1, RequestOf DEF HandlerInv, TaskInv, GotInv
<1> QED
  BY <1>1, <1>2, <1>3, <1>4, <1>5, RequestOf

\* So a step of the main thread on its own call disturbs nobody.
LEMMA MainAlone ==
  ASSUME ContextInv, phase # "serving", NEW G \in Contexts \cup {Null},
         UNCHANGED <<sub, running, replaced>>,
         data' \in [Contexts -> [Keys -> Values \cup {Null}]],
         glob' = [glob EXCEPT ![Server] = G],
         call' \in [Threads -> Call], got' \in [Threads -> Contexts \cup {Null}],
         \A t \in Threads : t # Main => call'[t] = call[t] /\ got'[t] = got[t],
         followed' \in {followed, followed \cup {Main}},
         phase' \in {phase, "defaults", "configure", "serving"},
         MainInv', OwnerInv',
         \A c \in Contexts : maker[c] # Null => maker'[c] = maker[c],
         \A r \in Requests : maker'[r] = Null,
         maker' \in [Contexts -> Threads \cup {Null}]
  PROVE  ContextInv'
<1> USE ThreadsAre DEF ContextInv
<1>0. ContextTypeOK
  BY DEF StateTypeOK
<1>1. /\ running = {} /\ replaced = {} /\ \A t \in followed : t = Main
      /\ \A t \in Requests \cup Tasks : Quiet(t) /\ got[t] = Null
      /\ \A r \in Requests : TaskOf[r] # Null => Quiet(TaskOf[r])
  BY NobodyRuns
<1>2. \A t \in Requests \cup Tasks : Quiet(t)' /\ got'[t] = Null
  BY <1>1 DEF Quiet
<1>3. \A r \in Requests : TaskOf[r] # Null => Quiet(TaskOf[r])'
  BY <1>2, RequestOf
<1>4. StateTypeOK'
  BY <1>0 DEF StateTypeOK, ContextTypeOK, Call
<1>5. PointerInv'
  <2>1. ASSUME NEW c \in Contexts, NEW p \in Contexts, maker[p] \in {maker[c], Main}, maker[c] # Null
        PROVE  maker'[p] \in {maker'[c], Main}
    BY <2>1
  <2>2. \A c \in Contexts : maker[c] = Null => sub[c] = Null /\ glob[c] = Null
    BY DEF OwnerInv
  <2>3. \A c \in Contexts : sub[c] # Null => maker'[sub[c]] \in {maker'[c], Main}
    BY <1>0, <2>1, <2>2 DEF PointerInv, ContextTypeOK
  <2>4. \A c \in Contexts : glob[c] # Null => maker'[glob[c]] \in {maker'[c], Main}
    BY <1>0, <2>1, <2>2 DEF PointerInv, ContextTypeOK
  <2>5. /\ glob'[Server] # Null => maker'[glob'[Server]] = Main
        /\ \A c \in Contexts : c # Server => glob'[c] = glob[c]
    BY <1>0 DEF OwnerInv, ContextTypeOK
  <2> QED
    BY <2>3, <2>4, <2>5 DEF PointerInv
<1>6. RunInv'
  BY <1>1, RequestOf DEF RunInv
<1>7. HandlerInv' /\ LinkInv' /\ TaskInv'
  BY <1>1, <1>2, <1>3, RequestOf DEF HandlerInv, LinkInv, TaskInv, Quiet
<1>8. GotInv' /\ FollowInv'
  BY <1>1, <1>2 DEF GotInv, FollowInv
<1> QED
  BY <1>4, <1>5, <1>6, <1>7, <1>8

\* The main thread makes the global context, or finds it made.
LEMMA MainSteps ==
  ASSUME ContextInv, PointerStep(Main), UNCHANGED others
  PROVE  ContextInv'
<1> USE ThreadsAre DEF ContextInv, others, pointers
<1>0. ContextTypeOK /\ ~Quiet(Main)
  BY AtStep DEF StateTypeOK, PointerStep, TestSub, MakeSub, CopyGlobal, TestGlobal, MakeGlobal,
     SetSub, PullGlobal, SetGlobal
<1>1. /\ phase \in {"defaults", "configure"} /\ maker[Server] = Main
      /\ MainCalls("get_global") \/ (MainCalls("make_global") /\ glob[Server] = Null)
      /\ glob[Server] = Null => phase = "defaults"
      /\ glob[Server] # Null => got[Main] = glob[Server]
      /\ \A r \in Requests : maker[r] = Null
  BY <1>0, NobodyRuns DEF MainInv, OwnerInv
<1>2. CASE MainCalls("get_global")
  <2>1. TestGlobal(Main) /\ call[Main].self = Server
    BY <1>2 DEF MainCalls, PointerStep, TestSub, MakeSub, CopyGlobal, TestGlobal, MakeGlobal,
       SetSub, PullGlobal, SetGlobal
  <2>2. /\ UNCHANGED <<maker, data, sub, glob, phase, running, replaced, followed>>
        /\ glob' = [glob EXCEPT ![Server] = glob[Server]]
        /\ glob[Server] \in Contexts \cup {Null}
    BY <1>0, <2>1 DEF TestGlobal, ContextTypeOK
  <2>3. /\ call' \in [Threads -> Call] /\ got' \in [Threads -> Contexts \cup {Null}]
        /\ \A t \in Threads : t # Main => call'[t] = call[t] /\ got'[t] = got[t]
        /\ \/ glob[Server] # Null /\ Quiet(Main)' /\ got'[Main] = glob[Server]
           \/ glob[Server] = Null /\ MainCalls("make_global")'
    <3>1. CASE glob[Server] # Null
      BY <1>0, <2>1, <2>2, <3>1, Returned DEF TestGlobal, Quiet
    <3>2. CASE glob[Server] = Null
      <4>1. GoOn(Main, "make_global") /\ "make_global" \in Steps
        BY <2>1, <3>2 DEF TestGlobal, Steps
      <4> QED
        BY <1>0, <1>2, <3>2, <4>1, WentOn DEF MainCalls, ContextTypeOK
    <3> QED
      BY <3>1, <3>2
  <2>4. MainInv' /\ OwnerInv'
    BY <1>1, <2>2, <2>3 DEF MainInv, OwnerInv, Quiet, MainCalls
  <2> QED
    BY <1>0, <1>1, <2>2, <2>3, <2>4, MainAlone DEF ContextTypeOK
<1>3. CASE MainCalls("make_global")
  <2>1. MakeGlobal(Main) /\ call[Main].self = Server /\ Unmade # {} /\ glob[Server] = Null
    BY <1>0, <1>1, <1>3 DEF MainCalls, PointerStep, TestSub, MakeSub, CopyGlobal, TestGlobal, MakeGlobal,
       SetSub, PullGlobal, SetGlobal
  <2>n. PICK n : n = New
    OBVIOUS
  <2>2. /\ n \in Contexts /\ n \in Fresh /\ maker[n] = Null /\ n \notin Requests /\ n # Server
    BY <2>1, <2>n, NewIsUnused
  <2>3. /\ maker' = [maker EXCEPT ![n] = Main] /\ glob' = [glob EXCEPT ![Server] = n]
        /\ UNCHANGED <<data, sub, phase, running, replaced, followed>>
    BY <2>1, <2>n DEF MakeGlobal, Make
  <2>4. /\ call' \in [Threads -> Call] /\ got' \in [Threads -> Contexts \cup {Null}]
        /\ \A t \in Threads : t # Main => call'[t] = call[t] /\ got'[t] = got[t]
        /\ Quiet(Main)' /\ got'[Main] = n
    BY <1>0, <2>1, <2>2, <2>n, Returned DEF MakeGlobal, Quiet
  <2>5. /\ maker' \in [Contexts -> Threads \cup {Null}] /\ glob' \in [Contexts -> Contexts \cup {Null}]
        /\ maker'[n] = Main /\ \A c \in Contexts : c # n => maker'[c] = maker[c]
        /\ glob'[Server] = n /\ \A c \in Contexts : c # Server => glob'[c] = glob[c]
    BY <1>0, <2>2, <2>3 DEF ContextTypeOK
  <2>6. MainInv'
    BY <1>1, <2>1, <2>2, <2>3, <2>4, <2>5 DEF MainInv, Quiet
  <2>7. OwnerInv'
    BY <1>1, <2>2, <2>3, <2>5, RequestOf DEF OwnerInv
  <2>8. /\ \A c \in Contexts : maker[c] # Null => maker'[c] = maker[c]
        /\ \A r \in Requests : maker'[r] = Null
    BY <1>1, <2>2, <2>5
  <2> QED
    BY <1>0, <1>1, <2>2, <2>3, <2>4, <2>5, <2>6, <2>7, <2>8, MainAlone DEF ContextTypeOK
<1> QED
  BY <1>1, <1>2, <1>3

\* A call on the pointers, by whichever thread.
LEMMA PointerStepInv ==
  ASSUME ContextInv, NEW t \in Threads, PointerStep(t), UNCHANGED others
  PROVE  ContextInv'
<1>1. CASE t = Main
  BY <1>1, MainSteps
<1>2. CASE t \in Tasks
  BY <1>2, TaskTests
<1>3. CASE t \in Requests
  BY <1>3, HandlerTests, HandlerMakesSub, HandlerCopiesGlobal, HandlerMakesGlobal, HandlerSetsSub,
     HandlerSetsGlobal DEF PointerStep
<1> QED
  BY <1>1, <1>2, <1>3, ThreadsAre

-----------------------------------------------------------------------------
(* The server, and its caller.                                              *)

\* The server is made, configured and run.
LEMMA ServerSteps ==
  ASSUME ContextInv, ServerCtx \/ Defaults \/ ServerGetGlobal \/ Serve
  PROVE  ContextInv'
<1> USE ThreadsAre DEF ContextInv, pointers
<1>0. ContextTypeOK /\ phase # "serving"
  BY DEF StateTypeOK, ServerCtx, Defaults, ServerGetGlobal, Serve
<1>1. /\ \A r \in Requests : maker[r] = Null
      /\ glob' = [glob EXCEPT ![Server] = glob[Server]] /\ glob[Server] \in Contexts \cup {Null}
      /\ UNCHANGED <<sub, glob, running, replaced>>
  BY <1>0, NobodyRuns DEF ContextTypeOK, ServerCtx, Defaults, ServerGetGlobal, Serve
<1>2. CASE ServerCtx
  <2>1. /\ phase = "none" /\ phase' = "defaults" /\ UNCHANGED <<data, got, followed>>
        /\ maker' = [maker EXCEPT ![Server] = Main] /\ Enter(Main, "get_global", Server, Null)
    BY <1>2 DEF ServerCtx, Make, GlobalAtOnce
  <2>2. /\ call' \in [Threads -> Call] /\ MainCalls("get_global")'
        /\ \A t \in Threads : t # Main => call'[t] = call[t]
    BY <1>0, <2>1, Entered DEF Steps, MainCalls
  <2>3. /\ maker' \in [Contexts -> Threads \cup {Null}] /\ maker'[Server] = Main
        /\ \A c \in Contexts : c # Server => maker'[c] = maker[c]
        /\ maker[Server] = Null
    BY <1>0, <2>1 DEF ContextTypeOK, OwnerInv
  <2>4. MainInv'
    BY <1>1, <2>1, <2>2 DEF MainInv, MainCalls
  <2>5. OwnerInv'
    BY <1>1, <2>1, <2>3 DEF OwnerInv, MainInv
  <2>6. got' \in [Threads -> Contexts \cup {Null}] /\ \A t \in Threads : got'[t] = got[t]
    BY <1>0, <2>1 DEF ContextTypeOK
  <2> QED
    BY <1>0, <1>1, <2>1, <2>2, <2>3, <2>4, <2>5, <2>6, MainAlone DEF ContextTypeOK
<1>3. CASE Defaults
  <2>1. /\ phase = "defaults" /\ phase' = "configure" /\ Quiet(Main)
        /\ UNCHANGED <<maker, call, got, followed>>
        /\ data' = [data EXCEPT ![Server] = [k \in Keys |-> Default]]
    BY <1>3 DEF Defaults
  <2>2. /\ data' \in [Contexts -> [Keys -> Values \cup {Null}]]
        /\ \A c \in Contexts : c # Server => data'[c] = data[c]
    BY <1>0, <2>1, ServerContextAssumption DEF ContextTypeOK
  <2>3. MainInv'
    BY <1>1, <2>1 DEF MainInv, Quiet, MainCalls, Idle
  <2>4. OwnerInv'
    BY <1>1, <2>1, <2>2 DEF OwnerInv
  <2> QED
    BY <1>0, <1>1, <2>1, <2>2, <2>3, <2>4, MainAlone DEF ContextTypeOK, Call
<1>4. CASE ServerGetGlobal
  <2>1. /\ phase = "configure" /\ phase' = phase /\ Enter(Main, "get_global", Server, Null)
        /\ UNCHANGED <<maker, data, got>> /\ followed' = followed \cup {Main}
    BY <1>4 DEF ServerGetGlobal
  <2>2. /\ call' \in [Threads -> Call] /\ MainCalls("get_global")'
        /\ \A t \in Threads : t # Main => call'[t] = call[t]
    BY <1>0, <2>1, Entered DEF Steps, MainCalls
  <2>3. MainInv'
    BY <1>1, <2>1, <2>2 DEF MainInv, MainCalls
  <2>4. OwnerInv'
    BY <1>1, <2>1 DEF OwnerInv
  <2> QED
    BY <1>0, <1>1, <2>1, <2>2, <2>3, <2>4, MainAlone DEF ContextTypeOK, Call
<1>5. CASE Serve
  <2>1. /\ phase = "configure" /\ phase' = "serving" /\ Quiet(Main)
        /\ UNCHANGED <<maker, data, call, followed>> /\ got' = [got EXCEPT ![Main] = Null]
    BY <1>5 DEF Serve
  <2>2. /\ got' \in [Threads -> Contexts \cup {Null}] /\ got'[Main] = Null
        /\ \A t \in Threads : t # Main => got'[t] = got[t]
    BY <1>0, <2>1 DEF ContextTypeOK
  <2>3. MainInv'
    BY <1>1, <2>1, <2>2 DEF MainInv, Quiet
  <2>4. OwnerInv'
    BY <1>1, <2>1 DEF OwnerInv
  <2> QED
    BY <1>0, <1>1, <2>1, <2>2, <2>3, <2>4, MainAlone DEF ContextTypeOK, Call
<1> QED
  BY <1>2, <1>3, <1>4, <1>5

-----------------------------------------------------------------------------
(* Requests, their handlers and their tasks.                                *)

\* A request comes: its context is made, and about to be linked.
LEMMA ArriveInv ==
  ASSUME ContextInv, NEW r \in Requests, Arrive(r)
  PROVE  ContextInv'
<1> USE ThreadsAre DEF ContextInv, pointers
<1>0. ContextTypeOK
  BY DEF StateTypeOK
<1>1. /\ phase = "serving" /\ r \notin running /\ maker[r] = Null /\ running' = running \cup {r}
      /\ Enter(r, "set_sub", r, Server) /\ maker' = [maker EXCEPT ![r] = r]
      /\ UNCHANGED <<data, sub, glob, got, phase, replaced, followed>>
  BY DEF Arrive, Make, LinkToServer
<1>2. /\ TaskOf[r] \notin running /\ r \notin replaced /\ r \notin followed
      /\ sub[r] = Null /\ glob[r] = Null /\ maker[Server] = Main
      /\ \A c \in Contexts : maker[c] # r /\ sub[c] # r /\ glob[c] # r
      /\ \A q \in Requests : q # r /\ call[q] # Idle => call[q].self # r
  <2>1. TaskOf[r] \notin running
    BY <1>1, RequestOf, ContextAssumption DEF RunInv, StateTypeOK
  <2>2. r \notin replaced /\ r \notin followed
    BY <1>1, RequestOf DEF RunInv, FollowInv
  <2>3. sub[r] = Null /\ glob[r] = Null /\ \A c \in Contexts : maker[c] # r
    BY <1>1, RequestOf DEF OwnerInv
  <2>4. \A c \in Contexts : sub[c] # r /\ glob[c] # r
    BY <1>1 DEF PointerInv, OwnerInv
  <2>5. \A q \in Requests : q # r /\ call[q] # Idle => call[q].self # r
    BY <1>1, RequestOf DEF HandlerInv, Quiet
  <2> QED
    BY <1>1, <2>1, <2>2, <2>3, <2>4, <2>5 DEF OwnerInv
<1>3. /\ call' \in [Threads -> Call] /\ call[r] = Idle
      /\ call'[r] = [op |-> "set_sub", self |-> r, arg |-> Server]
      /\ \A t \in Threads : t # r => call'[t] = call[t]
  BY <1>0, <1>1, Entered DEF Steps
<1>4. /\ maker' \in [Contexts -> Threads \cup {Null}] /\ maker'[r] = r
      /\ \A c \in Contexts : c # r => maker'[c] = maker[c]
  BY <1>0, <1>1 DEF ContextTypeOK
<1>5. StateTypeOK'
  BY <1>0, <1>1, <1>3, <1>4 DEF StateTypeOK, ContextTypeOK, Call
<1>6. MainInv'
  BY <1>1, <1>3 DEF MainInv, Quiet
<1>7. OwnerInv'
  BY <1>1, <1>2, <1>4, RequestOf DEF OwnerInv
<1>8. PointerInv'
  BY <1>0, <1>1, <1>2, <1>4 DEF PointerInv, ContextTypeOK
<1>9. RunInv'
  BY <1>1, <1>4, RequestOf DEF RunInv, StateTypeOK
<1>10. HandlerInv'
  BY <1>0, <1>1, <1>2, <1>3, <1>4, RequestOf DEF HandlerInv, At, Quiet, Linking, ContextTypeOK
<1>11. LinkInv'
  BY <1>1, <1>2, <1>3, <1>4, RequestOf DEF LinkInv, At, Linking, Linked
<1>12. TaskInv'
  BY <1>1, <1>2, <1>3, RequestOf DEF TaskInv, At, Reading, Linked, Quiet
<1>13. GotInv'
  BY <1>0, <1>1, <1>2, <1>4, RequestOf DEF GotInv, ContextTypeOK
<1>14. FollowInv'
  BY <1>1, <1>2, <1>3, RequestOf DEF FollowInv, At, StateTypeOK
<1> QED
  BY <1>5, <1>6, <1>7, <1>8, <1>9, <1>10, <1>11, <1>12, <1>13, <1>14

\* A handler or a task calls get_sub or get_global: on its request's context, or, while
\* no task shares that, on one of the handler's.
LEMMA AskInv ==
  ASSUME ContextInv, NEW t \in Requests \cup Tasks, NEW op \in {"get_sub", "get_global"},
         NEW c \in Contexts, Ask(t, op, c)
  PROVE  ContextInv'
<1> USE ThreadsAre DEF ContextInv, pointers
<1>r. PICK r \in Requests : r = Request(t) /\ (t = r \/ (t = TaskOf[r] /\ t # Null /\ t \in Tasks))
  BY RequestOf
<1>0. ContextTypeOK /\ t \in Threads /\ t # Main
  BY DEF StateTypeOK
<1>1. /\ t \in running /\ Enter(t, op, c, Null)
      /\ c = r \/ (TaskOf[r] \notin running /\ c \in Mine(r))
      /\ UNCHANGED <<maker, data, sub, glob, got, phase, running, replaced>>
      /\ followed' = IF op = "get_global" /\ c = r THEN followed \cup {t} ELSE followed \ {t}
  BY <1>r DEF Ask, Alone
<1>2. maker[r] = r /\ phase = "serving" /\ glob[Server] # Null
  BY <1>1, <1>r DEF RunInv, MainInv
<1>3. maker[c] = r /\ (t # r => c = r) /\ (TaskOf[r] \in running => c = r)
  BY <1>1, <1>2, <1>r, RequestOf DEF Mine, OwnerInv
<1>4. /\ call' \in [Threads -> Call] /\ call[t] = Idle
      /\ call'[t] = [op |-> op, self |-> c, arg |-> Null]
      /\ \A u \in Threads : u # t => call'[u] = call[u]
  BY <1>0, <1>1, Entered DEF Steps
<1>5. StateTypeOK'
  BY <1>0, <1>1, <1>4 DEF StateTypeOK, ContextTypeOK, Call
<1>6. MainInv' /\ OwnerInv' /\ PointerInv' /\ RunInv'
  BY <1>0, <1>1, <1>4 DEF MainInv, OwnerInv, PointerInv, RunInv, Quiet, MainCalls
<1>7. HandlerInv'
  BY <1>1, <1>3, <1>4, <1>r, RequestOf DEF HandlerInv, At, Quiet, Linking
<1>8. LinkInv'
  <2>1. At(t, {"none"}) /\ ~At(t, Linking)'
    BY <1>4 DEF At, Linking, Idle
  <2> QED
    BY <1>1, <1>4, <2>1, RequestOf DEF LinkInv, At, Linking, Linked
<1>9. TaskInv'
  BY <1>1, <1>3, <1>4, <1>r, RequestOf DEF TaskInv, At, Reading, Linked, Quiet
<1>10. GotInv'
  BY <1>1 DEF GotInv
<1>11. FollowInv'
  BY <1>0, <1>1, <1>4, <1>r DEF FollowInv, At, StateTypeOK
<1> QED
  BY <1>5, <1>6, <1>7, <1>8, <1>9, <1>10, <1>11

\* A handler makes a context, which nothing leads to yet.
LEMMA MakeContextInv ==
  ASSUME ContextInv, NEW r \in Requests, MakeContext(r)
  PROVE  ContextInv'
<1> USE ThreadsAre DEF ContextInv, pointers
<1>0. ContextTypeOK /\ r \in Threads
  BY DEF StateTypeOK
<1>n. PICK n : n = New
  OBVIOUS
<1>1. /\ r \in running /\ call[r] = Idle /\ Unmade # {}
      /\ maker' = [maker EXCEPT ![n] = r] /\ got' = [got EXCEPT ![r] = n]
      /\ followed' = followed \ {r}
      /\ UNCHANGED <<data, sub, glob, call, phase, running, replaced>>
  BY <1>n DEF MakeContext, Make, Quiet
<1>2. /\ n \in Contexts /\ n \in Fresh /\ maker[n] = Null /\ n \notin Requests /\ n # Server
      /\ n # glob[Server] /\ sub[n] = Null /\ glob[n] = Null
      /\ \A c \in Contexts : sub[c] # n /\ glob[c] # n
      /\ \A q \in Requests : call[q] # Idle => call[q].self # n
  BY <1>1, <1>n, NewIsUnused
<1>3. maker[r] = r /\ phase = "serving"
  BY <1>1, RequestOf DEF RunInv
<1>4. /\ maker' \in [Contexts -> Threads \cup {Null}] /\ maker'[n] = r
      /\ \A c \in Contexts : c # n => maker'[c] = maker[c]
      /\ got' \in [Threads -> Contexts \cup {Null}] /\ got'[r] = n
      /\ \A t \in Threads : t # r => got'[t] = got[t]
  BY <1>0, <1>1, <1>2 DEF ContextTypeOK
<1>5. StateTypeOK'
  BY <1>0, <1>1, <1>4 DEF StateTypeOK, ContextTypeOK
<1>6. MainInv'
  BY <1>1, <1>4 DEF MainInv, Quiet, MainCalls
<1>7. OwnerInv'
  BY <1>1, <1>2, <1>3, <1>4, RequestOf DEF OwnerInv
<1>8. PointerInv'
  BY <1>0, <1>1, <1>2, <1>4 DEF PointerInv, ContextTypeOK
<1>9. RunInv'
  BY <1>1, <1>2, <1>4, RequestOf DEF RunInv, StateTypeOK
<1>10. HandlerInv'
  BY <1>0, <1>1, <1>2, <1>4 DEF HandlerInv, At, Quiet, ContextTypeOK
<1>11. LinkInv'
  BY <1>1, <1>2, <1>4 DEF LinkInv, At, Linked
<1>12. TaskInv'
  BY <1>1 DEF TaskInv, At, Linked, Quiet
<1>13. GotInv'
  BY <1>0, <1>1, <1>2, <1>4, RequestOf DEF GotInv, ContextTypeOK
<1>14. FollowInv'
  BY <1>1, <1>4, <1>0 DEF FollowInv, At, StateTypeOK
<1> QED
  BY <1>5, <1>6, <1>7, <1>8, <1>9, <1>10, <1>11, <1>12, <1>13, <1>14

\* A handler links the request's context anew, while no task shares it.
LEMMA ReplaceInv ==
  ASSUME ContextInv, NEW r \in Requests, NEW op \in {"set_sub", "set_global"}, Replace(r, op)
  PROVE  ContextInv'
<1> USE ThreadsAre DEF ContextInv, pointers
<1>0. ContextTypeOK /\ r \in Threads
  BY DEF StateTypeOK
<1>1. /\ r \in running /\ TaskOf[r] \notin running /\ got[r] # Null
      /\ Enter(r, op, r, got[r]) /\ replaced' = replaced \cup {r}
      /\ UNCHANGED <<maker, data, sub, glob, got, phase, running, followed>>
  BY DEF Replace, Alone
<1>2. got[r] \in Contexts /\ maker[got[r]] \in {r, Main} /\ maker[r] = r /\ phase = "serving"
  BY <1>0, <1>1, RequestOf DEF GotInv, RunInv, ContextTypeOK
<1>3. /\ call' \in [Threads -> Call] /\ call[r] = Idle
      /\ call'[r] = [op |-> op, self |-> r, arg |-> got[r]]
      /\ \A t \in Threads : t # r => call'[t] = call[t]
  BY <1>0, <1>1, <1>2, Entered DEF Steps
<1>4. StateTypeOK'
  BY <1>0, <1>1, <1>3 DEF StateTypeOK, ContextTypeOK, Call
<1>5. MainInv' /\ OwnerInv' /\ PointerInv'
  BY <1>1, <1>3 DEF MainInv, OwnerInv, PointerInv, Quiet, MainCalls
<1>6. RunInv'
  BY <1>1, <1>2 DEF RunInv
<1>7. HandlerInv'
  BY <1>1, <1>2, <1>3 DEF HandlerInv, At, Quiet, Linking
<1>8. LinkInv'
  BY <1>1, <1>3 DEF LinkInv, At, Linking, Linked
<1>9. TaskInv'
  BY <1>1, <1>3, RequestOf DEF TaskInv, At, Reading, Linked, Quiet
<1>10. GotInv'
  BY <1>1 DEF GotInv
<1>11. FollowInv'
  BY <1>0, <1>1, <1>3, RequestOf DEF FollowInv, At, StateTypeOK
<1> QED
  BY <1>4, <1>5, <1>6, <1>7, <1>8, <1>9, <1>10, <1>11

\* What a task is given: a context that is linked, on which its handler only reads.
LEMMA SpawnTaskInv ==
  ASSUME ContextInv, NEW r \in Requests, SpawnTask(r)
  PROVE  ContextInv'
<1> USE ThreadsAre DEF ContextInv, contextVars, pointers
<1>1. /\ TaskOf[r] # Null /\ r \in running /\ r \notin replaced /\ call[r] = Idle
      /\ TaskOf[r] \notin running /\ running' = running \cup {TaskOf[r]}
      /\ UNCHANGED <<maker, data, sub, glob, call, got, phase, replaced, followed>>
  BY DEF SpawnTask, Alone, Quiet
<1>2. /\ TaskOf[r] \in Tasks /\ Request(TaskOf[r]) = r /\ maker[r] = r /\ phase = "serving"
      /\ got[TaskOf[r]] = Null
  BY <1>1, RequestOf DEF RunInv, GotInv
<1>3. Linked(r)
  BY <1>1, <1>2 DEF LinkInv, At, Idle
<1>4. StateTypeOK'
  BY <1>1, <1>2 DEF StateTypeOK, ContextTypeOK
<1>5. MainInv' /\ OwnerInv' /\ PointerInv' /\ LinkInv'
  BY <1>1 DEF MainInv, OwnerInv, PointerInv, LinkInv, Quiet, MainCalls, At, Linked
<1>6. RunInv'
  BY <1>1, <1>2 DEF RunInv
<1>7. HandlerInv'
  BY <1>1 DEF HandlerInv, At, Quiet
<1>8. TaskInv'
  BY <1>1, <1>2, <1>3, RequestOf DEF TaskInv, At, Linked, Quiet
<1>9. GotInv' /\ FollowInv'
  BY <1>1, <1>2 DEF GotInv, FollowInv, At
<1> QED
  BY <1>4, <1>5, <1>6, <1>7, <1>8, <1>9

\* A thread that leaves while the other one of its request still runs.
LEMMA OneLeaves ==
  ASSUME ContextInv, NEW t \in Requests \cup Tasks, Leave(t), ~LastOut(t)
  PROVE  ContextInv'
<1> USE ThreadsAre DEF ContextInv, pointers
<1>r. PICK r \in Requests : r = Request(t) /\ (t = r \/ (t = TaskOf[r] /\ t # Null /\ t \in Tasks))
  BY RequestOf
<1>0. ContextTypeOK /\ t \in Threads /\ t # Main
  BY DEF StateTypeOK
<1>1. /\ t \in running /\ call[t] = Idle /\ running' = running \ {t}
      /\ got' = [got EXCEPT ![t] = Null] /\ followed' = followed \ {t}
      /\ UNCHANGED <<maker, data, sub, glob, call, phase, replaced>>
  BY DEF Leave, Quiet
<1>2. /\ r \in running /\ TaskOf[r] \in running
  BY <1>1, <1>r DEF LastOut
<1>3. /\ got' \in [Threads -> Contexts \cup {Null}] /\ got'[t] = Null
      /\ \A u \in Threads : u # t => got'[u] = got[u]
  BY <1>0, <1>1 DEF ContextTypeOK
<1>4. StateTypeOK'
  BY <1>0, <1>1, <1>3 DEF StateTypeOK, ContextTypeOK
<1>5. MainInv' /\ OwnerInv' /\ PointerInv' /\ LinkInv'
  BY <1>0, <1>1, <1>3 DEF MainInv, OwnerInv, PointerInv, LinkInv, Quiet, MainCalls, At, Linked
<1>6. RunInv'
  <2>1. \A q \in Requests : q # r => q # t /\ TaskOf[q] # t
    BY <1>r, <1>0, RequestOf
  <2>2. r # t \/ TaskOf[r] # t
    BY <1>r, RequestOf
  <2> QED
    BY <1>1, <1>2, <2>1, <2>2 DEF RunInv
<1>7. HandlerInv'
  BY <1>1 DEF HandlerInv, At, Quiet
<1>8. TaskInv'
  BY <1>1 DEF TaskInv, At, Linked, Quiet
<1>9. GotInv' /\ FollowInv'
  BY <1>0, <1>1, <1>3 DEF GotInv, FollowInv, At, StateTypeOK
<1> QED
  BY <1>4, <1>5, <1>6, <1>7, <1>8, <1>9

\* The last thread of a request leaves: its contexts go, and nobody refers to them.
LEMMA LastLeaves ==
  ASSUME ContextInv, NEW t \in Requests \cup Tasks, Leave(t), LastOut(t)
  PROVE  ContextInv'
<1> USE ThreadsAre DEF ContextInv, pointers
<1>r. PICK r \in Requests : r = Request(t) /\ (t = r \/ (t = TaskOf[r] /\ t # Null /\ t \in Tasks))
  BY RequestOf
<1>0. ContextTypeOK /\ t \in Threads /\ t # Main
  BY DEF StateTypeOK
<1>1. /\ t \in running /\ call[t] = Idle /\ running' = running \ {t}
      /\ got' = [got EXCEPT ![t] = Null] /\ followed' = followed \ {t}
      /\ Drop(Mine(r)) /\ replaced' = replaced \ {r}
      /\ UNCHANGED <<call, phase>>
  BY <1>r DEF Leave, Quiet
<1>2. \A u \in Requests \cup Tasks : u \in running /\ u # t => Request(u) # r
  BY <1>r, RequestOf DEF LastOut
<1>3. Mine(r) = {c \in Contexts : maker[c] = r}
  BY RequestOf DEF Mine, OwnerInv
<1>4. /\ \A c \in Contexts :
           \/ maker[c] = r /\ maker'[c] = Null /\ data'[c] = Empty /\ sub'[c] = Null /\ glob'[c] = Null
           \/ /\ maker[c] # r /\ maker'[c] = maker[c] /\ data'[c] = data[c]
              /\ sub'[c] = sub[c] /\ glob'[c] = glob[c]
      /\ maker' \in [Contexts -> Threads \cup {Null}]
      /\ data' \in [Contexts -> [Keys -> Values \cup {Null}]]
      /\ sub' \in [Contexts -> Contexts \cup {Null}] /\ glob' \in [Contexts -> Contexts \cup {Null}]
  BY <1>0, <1>1, <1>3, EmptyMap DEF Drop, ContextTypeOK
<1>5. /\ got' \in [Threads -> Contexts \cup {Null}] /\ got'[t] = Null
      /\ \A u \in Threads : u # t => got'[u] = got[u]
  BY <1>0, <1>1 DEF ContextTypeOK
<1>6. /\ phase = "serving" /\ maker[r] = r /\ maker[Server] = Main
      /\ glob'[Server] = glob[Server] /\ glob[Server] \in Contexts /\ maker[glob[Server]] = Main
      /\ \A q \in Requests : q # r => maker[q] # r /\ maker'[q] = maker[q]
  BY <1>0, <1>1, <1>4, <1>r, RequestOf DEF RunInv, MainInv, OwnerInv, ContextTypeOK
<1>7. StateTypeOK'
  BY <1>0, <1>1, <1>4, <1>5 DEF StateTypeOK, ContextTypeOK
<1>8. MainInv'
  BY <1>0, <1>1, <1>5, <1>6 DEF MainInv, Quiet, MainCalls
<1>9. OwnerInv'
  <2>1. /\ \A c \in Contexts : maker'[c] \in Requests \cup {Main, Null}
        /\ \A q \in Requests : maker'[q] \in {q, Null}
    BY <1>4, RequestOf DEF OwnerInv
  <2>2. \A c \in Contexts : maker'[c] \in Requests => maker'[maker'[c]] = maker'[c]
    BY <1>4, <1>6, RequestOf DEF OwnerInv
  <2>3. \A c \in Contexts : maker'[c] = Null => data'[c] = Empty /\ sub'[c] = Null /\ glob'[c] = Null
    BY <1>4 DEF OwnerInv
  <2>4. maker'[Server] = Main /\ maker'[glob'[Server]] = Main
    BY <1>4, <1>6, RequestOf
  <2> QED
    BY <1>1, <1>6, <2>1, <2>2, <2>3, <2>4 DEF OwnerInv
<1>10. PointerInv'
  <2>1. ASSUME NEW c \in Contexts, NEW p \in Contexts, maker[c] # r, maker[p] \in {maker[c], Main}
        PROVE  maker'[c] = maker[c] /\ maker'[p] \in {maker'[c], Main}
    BY <1>4, <2>1, RequestOf
  <2>2. \A c \in Contexts : sub'[c] # Null => maker'[sub'[c]] \in {maker'[c], Main}
    BY <1>0, <1>4, <2>1 DEF PointerInv, ContextTypeOK
  <2>3. \A c \in Contexts : glob'[c] # Null => maker'[glob'[c]] \in {maker'[c], Main}
    BY <1>0, <1>4, <2>1 DEF PointerInv, ContextTypeOK
  <2> QED
    BY <2>2, <2>3 DEF PointerInv
<1>11. RunInv'
  BY <1>1, <1>2, <1>4, <1>6, <1>r, RequestOf DEF RunInv, LastOut, StateTypeOK
<1>12. HandlerInv'
  <2>1. \A q \in Requests : ~Quiet(q) => q # r /\ q \in running'
    BY <1>1, <1>2, <1>r, RequestOf DEF HandlerInv, Quiet
  <2>2. ASSUME NEW q \in Requests, q # r, NEW c \in Contexts, maker[c] \in {q, Main}
        PROVE  maker'[c] = maker[c] /\ sub'[c] = sub[c] /\ glob'[c] = glob[c]
    BY <1>4, <2>2, RequestOf
  <2> QED
    BY <1>0, <1>1, <2>1, <2>2 DEF HandlerInv, OwnerInv, At, Quiet, Linking, ContextTypeOK
<1>13. LinkInv'
  BY <1>1, <1>4, <1>6, RequestOf DEF LinkInv, At, Linked
<1>14. TaskInv'
  <2>1. TaskOf[r] # Null => Quiet(TaskOf[r]) /\ TaskOf[r] \notin running'
    BY <1>1, <1>2, <1>r, RequestOf DEF TaskInv, Quiet
  <2>2. \A q \in Requests : q # r /\ TaskOf[q] # Null => TaskOf[q] # t
    BY <1>r, RequestOf
  <2>3. \A q \in Requests : q # r /\ TaskOf[q] \in running => sub'[q] = sub[q] /\ glob'[q] = glob[q]
    BY <1>4, <1>6
  <2> QED
    BY <1>1, <1>6, <2>1, <2>2, <2>3 DEF TaskInv, At, Linked, Quiet
<1>15. GotInv'
  BY <1>0, <1>1, <1>2, <1>4, <1>5, RequestOf DEF GotInv, ContextTypeOK
<1>16. FollowInv'
  BY <1>0, <1>1, <1>2, <1>5, <1>6, RequestOf DEF FollowInv, At, StateTypeOK
<1> QED
  BY <1>7, <1>8, <1>9, <1>10, <1>11, <1>12, <1>13, <1>14, <1>15, <1>16

-----------------------------------------------------------------------------
(* The maps.                                                                *)

\* Whoever has the global map at hand is on it.
LEMMA AtHandIsGlobal ==
  ASSUME ContextInv, NEW t \in Threads, AtHand(t)
  PROVE  got[t] = glob[Server] /\ glob[Server] \in Contexts /\ maker[glob[Server]] = Main
<1> USE ThreadsAre DEF ContextInv
<1>1. CASE t = Main
  BY <1>1 DEF AtHand, MainInv, OwnerInv, StateTypeOK
<1>2. CASE t # Main
  <2>1. t \in running /\ call[t] = Idle /\ got[t] # Null /\ t \in Requests \cup Tasks
    BY <1>2 DEF AtHand, StateTypeOK, Quiet
  <2>2. phase = "serving" /\ glob[Server] # Null
    BY <2>1 DEF RunInv, MainInv
  <2>3. got[t] = glob[Server]
    BY <1>2, <2>1 DEF AtHand, FollowInv, At, Idle
  <2> QED
    BY <2>2, <2>3 DEF OwnerInv
<1> QED
  BY <1>1, <1>2

\* An operation on a map moves no pointer.
LEMMA MapStepInv ==
  ASSUME ContextInv, NEW t \in Threads, MapStep(t)
  PROVE  ContextInv'
<1> USE ThreadsAre DEF ContextInv, pointers
<1>0. ContextTypeOK
  BY DEF StateTypeOK
<1>1. AtHand(t)
  BY DEF MapStep, ClearMap, RemoveKey, SetValue, GetValue
<1>2. got[t] \in Contexts /\ maker[got[t]] = Main
  BY <1>1, AtHandIsGlobal
<1>3. UNCHANGED <<maker, sub, glob, call, got, phase, running, replaced, followed>>
  BY DEF MapStep, ClearMap, RemoveKey, SetValue, GetValue, mapUnchanged
<1> DEFINE MapOK == /\ data' \in [Contexts -> [Keys -> Values \cup {Null}]]
                     /\ \A c \in Contexts : c # got[t] => data'[c] = data[c]
<1>4. MapOK
  <2>1. ASSUME NEW k \in Keys, NEW v \in Values \cup {Null}, Put(got[t], k, v) PROVE MapOK
    BY <1>0, <1>2, <2>1 DEF Put, ContextTypeOK
  <2>2. CASE Wipe(got[t])
    BY <1>0, <1>2, <2>2, EmptyMap DEF Wipe, ContextTypeOK
  <2>3. CASE UNCHANGED data
    BY <1>0, <2>3 DEF ContextTypeOK
  <2> HIDE DEF MapOK
  <2> QED
    BY <2>1, <2>2, <2>3 DEF MapStep, ClearMap, RemoveKey, SetValue, GetValue
<1>5. StateTypeOK'
  BY <1>0, <1>3, <1>4 DEF StateTypeOK, ContextTypeOK
<1>6. OwnerInv'
  BY <1>2, <1>3, <1>4 DEF OwnerInv
<1>7. MainInv' /\ PointerInv' /\ RunInv' /\ HandlerInv' /\ LinkInv' /\ TaskInv' /\ GotInv' /\ FollowInv'
  BY <1>3 DEF MainInv, PointerInv, RunInv, HandlerInv, LinkInv, TaskInv, GotInv, FollowInv,
     Quiet, MainCalls, At, Linked
<1> QED
  BY <1>5, <1>6, <1>7

-----------------------------------------------------------------------------
\* Every step keeps the invariant.
LEMMA ContextStepInv == ContextInv /\ [Next]_vars => ContextInv'
<1> SUFFICES ASSUME ContextInv, [Next]_vars PROVE ContextInv'
  OBVIOUS
<1>1. CASE ServerCtx \/ Defaults \/ ServerGetGlobal \/ Serve
  BY <1>1, ServerSteps
<1>2. ASSUME NEW r \in Requests, RequestStep(r) PROVE ContextInv'
  BY <1>2, ArriveInv, MakeContextInv, SpawnTaskInv, ReplaceInv DEF RequestStep
<1>3. ASSUME NEW t \in Requests \cup Tasks, Leave(t) PROVE ContextInv'
  BY <1>3, OneLeaves, LastLeaves
<1>4. ASSUME NEW t \in Requests \cup Tasks, NEW op \in {"get_sub", "get_global"},
             NEW c \in Contexts, Ask(t, op, c)
      PROVE  ContextInv'
  BY <1>4, AskInv
<1>5. ASSUME NEW t \in Threads, MapStep(t) PROVE ContextInv'
  BY <1>5, MapStepInv
<1>6. ASSUME NEW t \in Threads, PointerStep(t), UNCHANGED others PROVE ContextInv'
  BY <1>6, PointerStepInv
<1>7. CASE UNCHANGED vars
  BY <1>7 DEF vars, contextVars, pointers, ContextInv, StateTypeOK, ContextTypeOK, MainInv, OwnerInv,
     PointerInv, RunInv, HandlerInv, LinkInv, TaskInv, GotInv, FollowInv, Quiet, MainCalls, At, Linked
<1> QED
  BY <1>1, <1>2, <1>3, <1>4, <1>5, <1>6, <1>7 DEF Next, others

\* In a server whose handlers keep to the rules, who made a context is who uses its
\* pointers, what is shared was linked before, and who follows get_global is on the global
\* context.
THEOREM ContextInvariance == Spec => []ContextInv
BY ContextInitInv, ContextStepInv, PTL DEF Spec

\* The invariant holds the types, and keeps calls and pointers off destroyed contexts.
LEMMA InvIsTyped == ContextInv => TypeOK
<1> SUFFICES ASSUME ContextInv PROVE TypeOK
  OBVIOUS
<1> USE ThreadsAre DEF ContextInv
<1>1. \A t \in Threads : call[t] # Idle => maker[call[t].self] # Null
  <2>1. ASSUME NEW t \in Threads, call[t] # Idle PROVE maker[call[t].self] # Null
    <3>1. CASE t = Main
      BY <2>1, <3>1 DEF MainInv, MainCalls, OwnerInv, Quiet
    <3>2. CASE t \in Requests
      BY <2>1, <3>2 DEF HandlerInv, Quiet
    <3>3. CASE t \in Tasks
      <4>1. PICK r \in Requests : Request(t) = r /\ TaskOf[r] = t /\ t # Null
        BY <3>3, RequestOf
      <4>2. t \in running /\ call[t].self = r
        BY <2>1, <4>1 DEF TaskInv, Quiet
      <4> QED
        BY <4>1, <4>2 DEF RunInv
    <3> QED
      BY <3>1, <3>2, <3>3
  <2> QED
    BY <2>1
<1>2. \A t \in running : maker[Request(t)] # Null
  BY RequestOf DEF RunInv, StateTypeOK
<1>3. \A c \in Contexts : /\ sub[c] # Null => maker[sub[c]] # Null
                          /\ glob[c] # Null => maker[glob[c]] # Null
  BY DEF PointerInv, OwnerInv
<1> QED
  BY <1>1, <1>2, <1>3 DEF TypeOK, NothingDangles

\* What a thread's call is about exists, and so does what a pointer leads to: a request's
\* contexts are there until its handler and its task have both left.
THEOREM TypeCorrect == Spec => []TypeOK
BY InvIsTyped, ContextInvariance, PTL

-----------------------------------------------------------------------------
(* No race on the pointers.                                                 *)

\* A thread in no call touches no pointer.
LEMMA QuietTouchesNothing ==
  ASSUME NEW t, Quiet(t)
  PROVE  Reads(t) = {} /\ Writes(t) = {}
BY DEF Quiet, Idle, Reads, Writes

\* The main thread has a call only before there is a request.
LEMMA MainTouches ==
  ASSUME ContextInv
  PROVE  /\ \A f, c : <<f, c>> \in Reads(Main) \cup Writes(Main) => maker[c] = Main
         /\ Writes(Main) # {} => phase # "serving"
<1> USE ThreadsAre DEF ContextInv
<1>1. CASE Quiet(Main)
  BY <1>1, QuietTouchesNothing
<1>2. CASE ~Quiet(Main)
  <2>1. /\ call[Main].self = Server /\ call[Main].op \in {"get_global", "make_global"}
        /\ phase # "serving" /\ maker[Server] = Main
    BY <1>2 DEF MainInv, MainCalls, OwnerInv
  <2>2. Reads(Main) \cup Writes(Main) \subseteq {<<"glob", Server>>}
    BY <2>1 DEF Reads, Writes
  <2> QED
    BY <2>1, <2>2
<1> QED
  BY <1>1, <1>2

\* A handler reads its own pointers and the main thread's, and writes its own, while it
\* has no task.
LEMMA HandlerTouches ==
  ASSUME ContextInv, NEW r \in Requests
  PROVE  /\ \A f, c : <<f, c>> \in Reads(r) => maker[c] \in {r, Main}
         /\ \A f, c : <<f, c>> \in Writes(r) => maker[c] = r /\ TaskOf[r] \notin running
<1> USE ThreadsAre DEF ContextInv
<1>1. CASE Quiet(r)
  BY <1>1, QuietTouchesNothing
<1>2. CASE ~Quiet(r)
  <2> DEFINE s == call[r].self
  <2>1. /\ s \in Contexts /\ maker[s] = r
        /\ At(r, {"copy_global"}) => maker[sub[s]] = r
        /\ At(r, {"pull_global"}) => maker[sub[s]] \in {r, Main}
    BY <1>2 DEF HandlerInv, PointerInv, At, Linking
  <2>2. /\ \A p \in Reads(r) : p[2] = s \/ (p[2] = sub[s] /\ At(r, {"pull_global"}))
        /\ \A p \in Writes(r) : p[2] = s \/ (p[2] = sub[s] /\ At(r, {"copy_global"}))
        /\ Writes(r) # {} => ~At(r, Reading)
    BY DEF Reads, Writes, At, Reading
  <2>3. Writes(r) # {} => TaskOf[r] \notin running
    BY <1>2, <2>2, HandlerWrites
  <2> QED
    BY <2>1, <2>2, <2>3
<1> QED
  BY <1>1, <1>2

\* A task only reads, on its request's context.
LEMMA TaskTouches ==
  ASSUME ContextInv, NEW t \in Tasks
  PROVE  /\ Writes(t) = {}
         /\ Reads(t) # {} => t \in running
         /\ \A f, c : <<f, c>> \in Reads(t) => maker[c] = Request(t)
<1> USE ThreadsAre DEF ContextInv
<1>r. PICK r \in Requests : r = Request(t) /\ TaskOf[r] = t /\ t # Null
  BY RequestOf
<1>1. CASE Quiet(t)
  BY <1>1, QuietTouchesNothing
<1>2. CASE ~Quiet(t)
  <2>1. t \in running /\ call[t].op \in {"get_sub", "get_global"} /\ call[t].self = r
    BY <1>r, <1>2 DEF TaskInv, At, Reading
  <2>2. maker[r] = r
    BY <1>r, <2>1 DEF RunInv
  <2> QED
    BY <1>r, <2>1, <2>2 DEF Reads, Writes
<1> QED
  BY <1>1, <1>2

\* Who writes is a handler without a task, or the main thread on its own.
LEMMA InvIsRaceFree == ContextInv => NoPointerRace
<1> SUFFICES ASSUME ContextInv, NEW t \in Threads, NEW u \in Threads, t # u,
                    NEW p, p \in Writes(t), p \in Reads(u) \cup Writes(u)
             PROVE  FALSE
  BY DEF NoPointerRace
<1> USE ThreadsAre
<1>0. p = <<p[1], p[2]>>
  BY DEF Writes
<1>1. CASE t = Main
  <2>1. phase # "serving" /\ u \in Requests \cup Tasks
    BY <1>1, MainTouches
  <2> QED
    BY <2>1, NobodyRuns, QuietTouchesNothing
<1>2. CASE t \in Requests
  <2>1. maker[p[2]] = t /\ TaskOf[t] \notin running
    BY <1>0, <1>2, HandlerTouches
  <2>2. CASE u = Main
    BY <1>0, <1>2, <2>1, <2>2, MainTouches
  <2>3. CASE u \in Requests
    BY <1>0, <1>2, <2>1, <2>3, HandlerTouches
  <2>4. CASE u \in Tasks
    BY <1>0, <1>2, <2>1, <2>4, TaskTouches, RequestOf
  <2> QED
    BY <2>2, <2>3, <2>4
<1>3. CASE t \in Tasks
  BY <1>3, TaskTouches
<1> QED
  BY <1>1, <1>2, <1>3

\* The unlocked pointers are never written by one thread while another's next step uses
\* them, however many requests and tasks run.
THEOREM PointersAreRaceFree == Spec => []NoPointerRace
BY InvIsRaceFree, ContextInvariance, PTL

-----------------------------------------------------------------------------
(* One global map.                                                          *)

\* An operation of one who followed get_global is one on the global map.
LEMMA MapStepIsOnGlobal ==
  ASSUME ContextInv, NEW t \in Threads, MapStep(t)
  PROVE  GM!Next
<1> USE ThreadsAre DEF ContextInv
<1>0. ContextTypeOK
  BY DEF StateTypeOK
<1>1. AtHand(t) /\ glob' = glob
  BY DEF MapStep, ClearMap, RemoveKey, SetValue, GetValue, mapUnchanged, pointers
<1>g. PICK G \in Contexts : G = glob[Server] /\ got[t] = G /\ G # Null
  BY <1>1, AtHandIsGlobal
<1>2. Global = data[G] /\ Global' = data'[G]
  BY <1>1, <1>g DEF Global
<1>3. CASE ClearMap(t)
  <2>1. data'[G] = Empty /\ last' = GM!Op(Null, Null)
    BY <1>0, <1>g, <1>3 DEF ClearMap, Wipe, Log, ContextTypeOK
  <2> QED
    BY <1>2, <2>1 DEF GM!Next, GM!Clear, GM!Absent, Empty
<1>4. ASSUME NEW k \in Keys, RemoveKey(t, k) PROVE GM!Next
  <2>1. data'[G] = [data[G] EXCEPT ![k] = Null] /\ last' = GM!Op(k, Null)
    BY <1>0, <1>g, <1>4 DEF RemoveKey, Put, Log, ContextTypeOK
  <2> QED
    BY <1>2, <2>1 DEF GM!Next, GM!Remove
<1>5. ASSUME NEW k \in Keys, NEW v \in Values, SetValue(t, k, v) PROVE GM!Next
  <2>1. data'[G] = [data[G] EXCEPT ![k] = v] /\ last' = GM!Op(k, v)
    BY <1>0, <1>g, <1>5 DEF SetValue, Put, Log, ContextTypeOK
  <2> QED
    BY <1>2, <2>1 DEF GM!Next, GM!Set
<1>6. ASSUME NEW k \in Keys, NEW type \in Types, GetValue(t, k, type) PROVE GM!Next
  <2>1. data' = data /\ last' = GM!Op(k, Value(G, k, type))
    BY <1>g, <1>6 DEF GetValue, Log
  <2> QED
    BY <1>2, <2>1 DEF GM!Next, GM!Get, Value
<1> QED
  BY <1>3, <1>4, <1>5, <1>6 DEF MapStep

\* A step on the global map is one of GlobalMap's, and it is the only kind of step that
\* changes that map or the record of the last operation on it.
LEMMA GlobalStays ==
  ASSUME glob'[Server] = glob[Server],
         glob[Server] # Null => data'[glob[Server]] = data[glob[Server]]
  PROVE  Global' = Global
BY DEF Global

\* A call on the pointers leaves the global map as it is.
LEMMA PointerStepKeepsGlobal ==
  ASSUME ContextInv, NEW t \in Threads, PointerStep(t)
  PROVE  Global' = Global
<1> USE ThreadsAre DEF ContextInv, pointers
<1>0. ContextTypeOK /\ ~Quiet(t)
  BY AtStep DEF StateTypeOK, PointerStep, TestSub, MakeSub, CopyGlobal, TestGlobal, MakeGlobal,
     SetSub, PullGlobal, SetGlobal
<1>1. data' = data
  BY DEF PointerStep, TestSub, MakeSub, CopyGlobal, TestGlobal, MakeGlobal, SetSub, PullGlobal, SetGlobal
<1>2. CASE At(t, Reading \cup {"make_sub", "set_sub"})
  <2>1. glob' = glob
    BY <1>2 DEF PointerStep, TestSub, MakeSub, CopyGlobal, TestGlobal, MakeGlobal, SetSub, PullGlobal,
       SetGlobal, At, Reading
  <2> QED
    BY <1>1, <2>1, GlobalStays
<1>3. CASE t \in Requests /\ ~At(t, Reading \cup {"make_sub", "set_sub"})
  <2>1. call[t].self # Server /\ (At(t, {"copy_global"}) => sub[call[t].self] # Server)
    BY <1>0, <1>3, HandlerWrites DEF HandlerInv, At, Reading
  <2>2. glob'[Server] = glob[Server]
    BY <1>0, <1>3, <2>1 DEF PointerStep, TestSub, MakeSub, CopyGlobal, TestGlobal, MakeGlobal, SetSub,
       PullGlobal, SetGlobal, At, Reading, ContextTypeOK
  <2> QED
    BY <1>1, <2>2, GlobalStays
<1>4. CASE t \in Tasks /\ ~At(t, Reading \cup {"make_sub", "set_sub"})
  BY <1>0, <1>4, RequestOf DEF TaskInv, At, Reading
<1>5. CASE t = Main /\ ~At(t, Reading \cup {"make_sub", "set_sub"})
  <2>1. MainCalls("make_global") /\ glob[Server] = Null
    BY <1>0, <1>5 DEF MainInv, MainCalls, At, Reading
  <2>2. Unmade # {} /\ glob' = [glob EXCEPT ![Server] = New]
    BY <1>5, <2>1 DEF MainCalls, PointerStep, TestSub, MakeSub, CopyGlobal, TestGlobal, MakeGlobal,
       SetSub, PullGlobal, SetGlobal
  <2>3. New \in Contexts /\ data[New] = Empty
    BY <2>2, NewIsUnused
  <2> QED
    BY <1>0, <1>1, <2>1, <2>2, <2>3 DEF Global, ContextTypeOK
<1> QED
  BY <1>2, <1>3, <1>4, <1>5

\* So do a request's contexts when they go.
LEMMA LeaveKeepsGlobal ==
  ASSUME ContextInv, NEW t \in Requests \cup Tasks, Leave(t)
  PROVE  Global' = Global
<1> USE ThreadsAre DEF ContextInv, pointers
<1>1. PICK r \in Requests : r = Request(t)
  BY RequestOf
<1>2. CASE ~LastOut(t)
  BY <1>2, GlobalStays DEF Leave
<1>3. CASE LastOut(t)
  <2>1. Server \notin Mine(r) /\ glob[Server] \notin Mine(r)
    BY <1>1, RequestOf DEF Mine, OwnerInv
  <2>2. ContextTypeOK /\ Drop(Mine(r))
    BY <1>1, <1>3 DEF Leave, StateTypeOK
  <2>3. glob'[Server] = glob[Server]
    BY <2>1, <2>2 DEF Drop
  <2>4. glob[Server] # Null => data'[glob[Server]] = data[glob[Server]]
    BY <2>1, <2>2 DEF Drop, ContextTypeOK
  <2> QED
    BY <2>3, <2>4, GlobalStays
<1> QED
  BY <1>2, <1>3

\* So does everything else that is no operation on a map.
LEMMA OthersKeepGlobal ==
  ASSUME ContextInv,
         \/ ServerCtx \/ Defaults \/ ServerGetGlobal \/ Serve
         \/ \E r \in Requests : RequestStep(r)
         \/ \E t \in Requests \cup Tasks, op \in {"get_sub", "get_global"}, c \in Contexts : Ask(t, op, c)
  PROVE  Global' = Global
<1> USE ThreadsAre DEF ContextInv, pointers, contextVars
<1>1. glob' = glob
  BY DEF ServerCtx, Defaults, ServerGetGlobal, Serve, RequestStep, Arrive, MakeContext, SpawnTask, Replace, Ask
<1>2. data' = data \/ data' = [data EXCEPT ![Server] = [k \in Keys |-> Default]]
  BY DEF ServerCtx, Defaults, ServerGetGlobal, Serve, RequestStep, Arrive, MakeContext, SpawnTask, Replace, Ask
<1>3. glob[Server] # Null => glob[Server] # Server /\ glob[Server] \in Contexts
  BY DEF OwnerInv
<1>4. ContextTypeOK
  BY DEF StateTypeOK
<1> QED
  BY <1>1, <1>2, <1>3, <1>4, GlobalStays DEF ContextTypeOK

\* Every step is one of GlobalMap, or leaves the map and the last operation alone.
LEMMA StepIsGlobal == ContextInv /\ [Next]_vars => [GM!Next]_<<Global, last>>
<1> SUFFICES ASSUME ContextInv, [Next]_vars
             PROVE  GM!Next \/ (Global' = Global /\ last' = last)
  OBVIOUS
<1>1. CASE ServerCtx \/ Defaults \/ ServerGetGlobal \/ Serve
  BY <1>1, OthersKeepGlobal DEF ServerCtx, Defaults, ServerGetGlobal, Serve
<1>2. ASSUME NEW r \in Requests, RequestStep(r) PROVE Global' = Global /\ last' = last
  BY <1>2, OthersKeepGlobal DEF RequestStep, Arrive, MakeContext, SpawnTask, Replace
<1>3. ASSUME NEW t \in Requests \cup Tasks, Leave(t) PROVE Global' = Global /\ last' = last
  BY <1>3, LeaveKeepsGlobal DEF Leave
<1>4. ASSUME NEW t \in Requests \cup Tasks, NEW op \in {"get_sub", "get_global"},
             NEW c \in Contexts, Ask(t, op, c)
      PROVE  Global' = Global /\ last' = last
  BY <1>4, OthersKeepGlobal DEF Ask
<1>5. ASSUME NEW t \in Threads, MapStep(t) PROVE GM!Next
  BY <1>5, MapStepIsOnGlobal
<1>6. ASSUME NEW t \in Threads, PointerStep(t), UNCHANGED others PROVE Global' = Global /\ last' = last
  BY <1>6, PointerStepKeepsGlobal DEF others
<1>7. CASE UNCHANGED vars
  BY <1>7 DEF vars, contextVars, pointers, Global
<1> QED
  BY <1>1, <1>2, <1>3, <1>4, <1>5, <1>6, <1>7 DEF Next, others

\* Whoever follows get_global, the caller of the server, any handler and any task, is on
\* one map whose operations are single steps.
THEOREM ContextsImplementGlobalMap == Spec => GlobalSpec
<1>1. Init => GM!Init
  BY ThreadsAre DEF Init, ContextInit, Global, GM!Init, GM!Absent, Empty
<1> QED
  BY <1>1, StepIsGlobal, ContextInvariance, PTL DEF Spec, GlobalSpec, GM!Spec
=============================================================================
