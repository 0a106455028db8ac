--------------------------- MODULE OwnershipProofs ---------------------------
(***************************************************************************)
(* The clients implement ConnectionOwnership, whatever the servers do: their *)
(* initial states map to its initial state, and each of their steps to a     *)
(* connection opened, taken or left, or to a stutter.                        *)
(***************************************************************************)
EXTENDS ClientProofs

\* What Owner is, case by case, while nobody shares a connection.
OwnersRight ==
  /\ \A k \in Conns : ~IsOpen(k) => Owner(k) = "free"
  /\ \A c \in Calls : conn[c] # NoConn => Owner(conn[c]) = c
  /\ \A key \in Keys : \A k \in Idle(key) : Owner(k) = key
  /\ \A k \in Conns : IsOpen(k) /\ k \notin Pooled /\ (\A c \in Calls : conn[c] # k) => Owner(k) = "lost"

\* A connection's owner is the call that holds it.
LEMMA Owners == Shared => OwnersRight
<1> SUFFICES ASSUME Shared PROVE OwnersRight
  OBVIOUS
<1>1. ASSUME NEW c \in Calls, conn[c] # NoConn PROVE Owner(conn[c]) = c
  <2>1. IsOpen(conn[c]) /\ \A d \in Calls : conn[d] = conn[c] => d = c
    BY <1>1 DEF Shared, Placed
  <2>2. (CHOOSE d \in Calls : conn[d] = conn[c]) = c
    BY <2>1
  <2> QED
    BY <2>1, <2>2 DEF Owner
<1>2. ASSUME NEW key \in Keys, NEW k \in Idle(key) PROVE Owner(k) = key
  <2>1. IsOpen(k) /\ k \in Pooled /\ \A c \in Calls : conn[c] # k
    BY <1>2 DEF Shared, Placed, Pooled
  <2>2. \A p \in Keys : k \in Idle(p) => p = key
    BY <1>2 DEF Shared, OnePlace, Idle
  <2>3. (CHOOSE p \in Keys : k \in Idle(p)) = key
    BY <1>2, <2>2
  <2> QED
    BY <2>1, <2>3 DEF Owner
<1> QED
  BY <1>1, <1>2 DEF OwnersRight, Owner

\* So it is after a step.
LEMMA OwnersNext == Shared' => OwnersRight'
<1> SUFFICES ASSUME Shared' PROVE OwnersRight'
  OBVIOUS
<1>1. ASSUME NEW c \in Calls, conn'[c] # NoConn, NEW k, k = conn'[c] PROVE Owner(k)' = c
  <2>1. IsOpen(k)' /\ \A d \in Calls : conn'[d] = k => d = c
    BY <1>1 DEF Shared, Placed
  <2>2. (CHOOSE d \in Calls : conn'[d] = k) = c
    BY <1>1, <2>1
  <2> QED
    BY <1>1, <2>1, <2>2 DEF Owner
<1>2. ASSUME NEW key \in Keys, NEW k \in Idle(key)' PROVE Owner(k)' = key
  <2>1. IsOpen(k)' /\ k \in Pooled' /\ \A c \in Calls : conn'[c] # k
    BY <1>2 DEF Shared, Placed, Pooled
  <2>2. \A p \in Keys : k \in Idle(p)' => p = key
    BY <1>2 DEF Shared, OnePlace, Idle
  <2>3. (CHOOSE p \in Keys : k \in Idle(p)') = key
    BY <1>2, <2>2
  <2> QED
    BY <2>1, <2>3 DEF Owner
<1> QED
  BY <1>1, <1>2 DEF OwnersRight, Owner

\* Who owns what has one answer: only what a call holds is a call's.
LEMMA OwnedIsHeld ==
  ASSUME Shared, CallType, NEW c \in Calls, NEW k \in Conns, Owner(k) = c
  PROVE  conn[c] = k
<1>1. OwnersRight
  BY Owners
<1>2. CASE ~IsOpen(k)
  BY <1>1, <1>2, OwnershipAssumption DEF OwnersRight
<1>3. ASSUME NEW d \in Calls, conn[d] = k PROVE conn[c] = k
  BY <1>1, <1>3, HttpClientAssumption DEF OwnersRight
<1>4. ASSUME NEW key \in Keys, k \in Idle(key) PROVE FALSE
  BY <1>1, <1>4, OwnershipAssumption DEF OwnersRight
<1>5. CASE IsOpen(k) /\ k \notin Pooled /\ \A d \in Calls : conn[d] # k
  BY <1>1, <1>5, OwnershipAssumption DEF OwnersRight
<1> QED
  BY <1>2, <1>3, <1>4, <1>5 DEF Pooled

\* A connection that is not at step keeps its owner.
LEMMA OwnerStays ==
  ASSUME CallType, Shared, Shared', NEW k \in Conns,
         IsOpen(k)' <=> IsOpen(k),
         \A c \in Calls : conn'[c] = k <=> conn[c] = k,
         \A key \in Keys : k \in Idle(key)' <=> k \in Idle(key)
  PROVE  Owner(k)' = Owner(k)
<1>1. OwnersRight /\ OwnersRight'
  BY Owners, OwnersNext
<1>2. CASE ~IsOpen(k)
  BY <1>1, <1>2 DEF OwnersRight
<1>3. ASSUME NEW d \in Calls, conn[d] = k PROVE Owner(k)' = Owner(k)
  BY <1>1, <1>3, HttpClientAssumption DEF OwnersRight
<1>4. ASSUME NEW key \in Keys, k \in Idle(key) PROVE Owner(k)' = Owner(k)
  BY <1>1, <1>4 DEF OwnersRight
<1>5. CASE IsOpen(k) /\ k \notin Pooled /\ \A d \in Calls : conn[d] # k
  <2>1. k \notin Pooled' /\ \A d \in Calls : conn'[d] # k
    BY <1>5 DEF Pooled
  <2> QED
    BY <1>1, <1>5, <2>1 DEF OwnersRight
<1> QED
  BY <1>2, <1>3, <1>4, <1>5 DEF Pooled

Mapped == [k \in Conns |-> Owner(k)]

\* A step that changes the owner of one connection at most.
LEMMA OneChanges ==
  ASSUME NEW k \in Conns, \A j \in Conns : j # k => Owner(j)' = Owner(j)
  PROVE  Mapped' = [Mapped EXCEPT ![k] = Owner(k)'] /\ Mapped[k] = Owner(k)
  BY DEF Mapped

\* A step that moves no connection leaves the owners as they are.
LEMMA QuietMaps ==
  ASSUME CallType, Shared, Shared', UNCHANGED <<pool, sock, conn>>
  PROVE  UNCHANGED Mapped
<1>1. ASSUME NEW k \in Conns PROVE Owner(k)' = Owner(k)
  BY OwnerStays DEF IsOpen, Idle
<1> QED
  BY <1>1 DEF Mapped

\* A call without a connection opens one, or takes one from the pool.
LEMMA GainMaps ==
  ASSUME CallType, Shared, Shared', NEW c \in Calls, NEW k \in Conns, conn[c] = NoConn,
         conn' = [conn EXCEPT ![c] = k], Owner(k) \in Keys \cup {"free"},
         \A j \in Conns : j # k => (IsOpen(j)' <=> IsOpen(j)),
         \A j \in Conns : j # k => \A key \in Keys : j \in Idle(key)' <=> j \in Idle(key)
  PROVE  O!Next
<1>1. \A j \in Conns : j # k => Owner(j)' = Owner(j)
  BY OwnerStays, HttpClientAssumption DEF CallType
<1>2. Owner(k)' = c
  BY OwnersNext, HttpClientAssumption DEF OwnersRight, CallType
<1>3. \A j \in Conns : Owner(j) # c
  BY OwnedIsHeld, HttpClientAssumption
<1>4. Mapped' = [Mapped EXCEPT ![k] = c] /\ Mapped[k] \in Keys \cup {"free"} /\ \A j \in Conns : Mapped[j] # c
  BY <1>1, <1>2, <1>3, OneChanges DEF Mapped
<1> QED
  BY <1>4 DEF Mapped, O!Next, O!Open, O!Take, O!HasNone

\* A call closes its connection, or leaves it in the pool.
LEMMA LossMaps ==
  ASSUME CallType, Shared, Shared', NEW c \in Calls, NEW k \in Conns, conn[c] = k,
         conn' = [conn EXCEPT ![c] = NoConn], Owner(k)' \in Keys \cup {"free"},
         \A j \in Conns : j # k => (IsOpen(j)' <=> IsOpen(j)),
         \A j \in Conns : j # k => \A key \in Keys : j \in Idle(key)' <=> j \in Idle(key)
  PROVE  O!Next
<1>1. \A j \in Conns : j # k => Owner(j)' = Owner(j)
  BY OwnerStays, HttpClientAssumption DEF CallType
<1>2. Owner(k) = c
  BY Owners, HttpClientAssumption DEF OwnersRight
<1>3. \E o \in Keys \cup {"free"} : Mapped' = [Mapped EXCEPT ![k] = o] /\ Mapped[k] = c
  BY <1>1, <1>2, OneChanges
<1> QED
  BY <1>3 DEF Mapped, O!Next, O!Leave

\* While all idle connections are open, get takes the first and leaves the others.
LEMMA GetTakesOne ==
  ASSUME PoolType, Shared, NEW key \in Keys, NEW k, AsyncGet(key, k)
  PROVE  k \in Idle(key) /\ \A j : j # k => \A p \in Keys : j \in Idle(p)' <=> j \in Idle(p)
<1>1. PICK i \in 1..Len(pool[key]) :
        /\ k = pool[key][i] /\ pool' = [pool EXCEPT ![key] = After(pool[key], i)]
        /\ \A j \in 1..(i - 1) : ~IsOpen(pool[key][j])
  BY DEF AsyncGet
<1>2. pool[key] \in Seq(Conns) /\ Len(pool[key]) \in Nat
  BY DEF PoolType
<1>3. i = 1
  <2>1. \A j \in 1..Len(pool[key]) : IsOpen(pool[key][j])
    BY DEF Shared, Placed, Idle
  <2>2. 1 \notin 1..(i - 1)
    BY <1>1, <1>2, <2>1
  <2> QED
    BY <1>2, <2>2
<1>4. /\ Len(After(pool[key], 1)) = Len(pool[key]) - 1
      /\ \A m \in 1..Len(After(pool[key], 1)) : After(pool[key], 1)[m] = pool[key][m + 1]
  BY <1>2, <1>3, Shortened
<1>5. pool'[key] = After(pool[key], 1) /\ \A p \in Keys : p # key => pool'[p] = pool[p]
  BY <1>1, <1>3 DEF PoolType
<1>6. ASSUME NEW j, j # k PROVE j \in Idle(key)' <=> j \in Idle(key)
  <2>1. ASSUME NEW m \in 1..Len(pool'[key]), j = pool'[key][m] PROVE j \in Idle(key)
    <3>1. m + 1 \in 1..Len(pool[key]) /\ j = pool[key][m + 1]
      BY <1>2, <1>4, <1>5, <2>1
    <3> QED
      BY <3>1 DEF Idle
  <2>2. ASSUME NEW m \in 1..Len(pool[key]), j = pool[key][m] PROVE j \in Idle(key)'
    <3>1. m # 1
      BY <1>1, <1>3, <1>6, <2>2
    <3>2. m - 1 \in 1..Len(pool'[key]) /\ (m - 1) + 1 = m
      BY <1>2, <1>4, <1>5, <3>1
    <3>3. pool'[key][m - 1] = pool[key][m]
      BY <1>4, <1>5, <3>2
    <3> QED
      BY <2>2, <3>2, <3>3 DEF Idle
  <2> QED
    BY <2>1, <2>2 DEF Idle
<1>7. \A p \in Keys : p # key => Idle(p)' = Idle(p)
  BY <1>5 DEF Idle
<1>8. k \in Idle(key)
  BY <1>1 DEF Idle
<1> QED
  BY <1>6, <1>7, <1>8

\* put adds one.
LEMMA PutAddsOne ==
  ASSUME PoolType, NEW key \in Keys, NEW k \in Conns, HasRoom(key), AsyncPut(key, k)
  PROVE  k \in Idle(key)' /\ \A j : j # k => \A p \in Keys : j \in Idle(p)' <=> j \in Idle(p)
<1>1. pool[key] \in Seq(Conns) /\ pool' = [pool EXCEPT ![key] = Append(pool[key], k)]
  BY DEF PoolType, AsyncPut
<1>2. /\ Len(pool[key]) \in Nat /\ Len(Append(pool[key], k)) = Len(pool[key]) + 1
      /\ \A m \in 1..Len(pool[key]) : Append(pool[key], k)[m] = pool[key][m]
      /\ Append(pool[key], k)[Len(pool[key]) + 1] = k
  BY <1>1, Appended
<1>3. pool'[key] = Append(pool[key], k) /\ \A p \in Keys : p # key => pool'[p] = pool[p]
  BY <1>1 DEF PoolType
<1>4. Idle(key)' = Idle(key) \cup {k}
  BY <1>2, <1>3 DEF Idle
<1>5. \A p \in Keys : p # key => Idle(p)' = Idle(p)
  BY <1>3 DEF Idle
<1> QED
  BY <1>4, <1>5

\* A connection closed by the call that holds it is free.
LEMMA CloseMaps ==
  ASSUME PoolType, CallType, Shared, Shared', NEW c \in Calls, conn[c] # NoConn,
         Shutdown(conn[c]), UNCHANGED pool, conn' = [conn EXCEPT ![c] = NoConn]
  PROVE  O!Next
<1>1. PICK k \in Conns : k = conn[c]
  BY DEF CallType
<1>2. ~IsOpen(k)' /\ \A j \in Conns : j # k => (IsOpen(j)' <=> IsOpen(j))
  BY <1>1 DEF Shutdown, CloseSocket, IsOpen, PoolType
<1>3. Owner(k)' = "free"
  BY <1>2 DEF Owner
<1>4. \A j, key : j \in Idle(key)' <=> j \in Idle(key)
  BY DEF Idle
<1> QED
  BY <1>1, <1>2, <1>3, <1>4, LossMaps

\* Every step of the clients is one of ConnectionOwnership, or a stutter.
LEMMA OwnershipStep ==
  ASSUME CallInv, CallInv', [Next]_vars
  PROVE  O!Next \/ UNCHANGED Mapped
<1>0. PoolType /\ CallType /\ WireType /\ LimitInv /\ HoldInv /\ OpenInv /\ Shared /\ Holding
  BY CallParts, TypeParts DEF CallInv
<1>1. Shared'
  BY DEF CallInv, Exclusive, HoldInv, Shared, OnePlace, Placed
<1>2. CASE UNCHANGED <<pool, sock, conn>>
  BY <1>0, <1>1, <1>2, QuietMaps
<1>3. ASSUME NEW c \in Calls, NEW k \in Conns, TakePooled(c, k) PROVE O!Next
  <2>1. conn[c] = NoConn /\ Url(c) \in Keys
    BY <1>0, <1>3, NotHolding, AttemptUrl DEF TakePooled, Attempt
  <2>2. k \in Idle(Url(c)) /\ \A j : j # k => \A p \in Keys : j \in Idle(p)' <=> j \in Idle(p)
    BY <1>0, <1>3, <2>1, GetTakesOne DEF TakePooled
  <2>3. Owner(k) \in Keys
    BY <1>0, <2>1, <2>2, Owners DEF OwnersRight
  <2>4. \A j \in Conns : IsOpen(j)' <=> IsOpen(j)
    BY <1>3 DEF TakePooled, IsOpen
  <2> QED
    BY <1>0, <1>1, <1>3, <2>1, <2>2, <2>3, <2>4, GainMaps DEF TakePooled
<1>4. ASSUME NEW c \in Calls, NEW k \in Conns, Connected(c, k) PROVE O!Next
  <2>1. conn[c] = NoConn
    BY <1>0, <1>4, NotHolding DEF Connected
  <2>2. ~IsOpen(k)
    BY <1>0, <1>4, HttpClientAssumption DEF Connected, OpenInv, Unused
  <2>3. Owner(k) = "free"
    BY <2>2 DEF Owner
  <2>4. \A j \in Conns : j # k => (IsOpen(j)' <=> IsOpen(j))
    BY <1>0, <1>4 DEF Connected, IsOpen, PoolType
  <2>5. \A j, key : j \in Idle(key)' <=> j \in Idle(key)
    BY <1>4 DEF Connected, Idle
  <2> QED
    BY <1>0, <1>1, <1>4, <2>1, <2>3, <2>4, <2>5, GainMaps DEF Connected
<1>5. ASSUME NEW c \in Calls, RefuseOversize(c) \/ Fail(c) \/ FollowRedirect(c) PROVE O!Next
  <2>1. conn[c] # NoConn
    BY <1>0, <1>5 DEF RefuseOversize, Fail, FollowRedirect, Receive, Holding
  <2>2. Shutdown(conn[c]) /\ UNCHANGED pool /\ conn' = [conn EXCEPT ![c] = NoConn]
    BY <1>5 DEF RefuseOversize, Fail, FollowRedirect, Receive
  <2> QED
    BY <1>0, <1>1, <2>1, <2>2, CloseMaps
<1>6. ASSUME NEW c \in Calls, Finish(c) PROVE O!Next
  <2>1. conn[c] # NoConn /\ Url(c) \in Keys /\ conn' = [conn EXCEPT ![c] = NoConn] /\ UNCHANGED req
    BY <1>0, <1>6, HolderUrl DEF Finish, Receive, Holding
  <2>2. CASE req[c].keep /\ HasRoom(Url(c))
    <3>1. PICK k \in Conns : k = conn[c]
      BY <1>0, <2>1 DEF CallType
    <3>2. PICK key \in Keys : key = Url(c)
      BY <2>1
    <3>3. HasRoom(key) /\ AsyncPut(key, k)
      BY <1>6, <2>2, <3>1, <3>2 DEF Finish
    <3>4. k \in Idle(key)' /\ \A j : j # k => \A p \in Keys : j \in Idle(p)' <=> j \in Idle(p)
      BY <1>0, <3>3, PutAddsOne
    <3>5. Owner(k)' = key
      BY <1>1, <3>4, OwnersNext DEF OwnersRight
    <3>6. \A j \in Conns : IsOpen(j)' <=> IsOpen(j)
      BY <3>3 DEF AsyncPut, IsOpen
    <3> QED
      BY <1>0, <1>1, <2>1, <3>1, <3>4, <3>5, <3>6, LossMaps
  <2>3. CASE ~(req[c].keep /\ HasRoom(Url(c)))
    <3>1. Shutdown(conn[c]) /\ UNCHANGED pool
      BY <1>6, <2>3 DEF Finish, Shutdown, AsyncPut
    <3> QED
      BY <1>0, <1>1, <2>1, <3>1, CloseMaps
  <2> QED
    BY <2>2, <2>3
<1>7. ASSUME NEW c \in Calls, NonePooled(c) PROVE UNCHANGED Mapped
  <2>1. UNCHANGED pool
    BY <1>0, <1>7, AttemptUrl, NoneIdle DEF NonePooled
  <2> QED
    BY <1>0, <1>1, <1>7, <2>1, QuietMaps DEF NonePooled
<1>8. ASSUME NEW c \in Calls, GiveUp(c) \/ ConnectFails(c) \/ SendRequest(c) PROVE UNCHANGED Mapped
  BY <1>0, <1>1, <1>8, QuietMaps DEF GiveUp, ConnectFails, SendRequest, poolVars
<1>9. ASSUME NEW c \in Calls, NEW q \in Requests, Start(c, q) PROVE UNCHANGED Mapped
  BY <1>0, <1>1, <1>9, QuietMaps DEF Start, poolVars
<1>10. CASE Server
  BY <1>0, <1>2, <1>10, ServerKeeps
<1>11. CASE UNCHANGED vars
  BY <1>2, <1>11 DEF vars
<1> QED
  BY <1>3, <1>4, <1>5, <1>6, <1>7, <1>8, <1>9, <1>10, <1>11 DEF Next, CallStep

\* The clients and the pool share connections as ConnectionOwnership says: one owner at a
\* time, from a key only into the hands of a call, and no open connection left by it.
THEOREM ClientsImplementOwnership == Spec => OwnershipSpec
<1>1. Init => O!Init
  BY DEF Init, PoolInit, O!Init, Owner, IsOpen
<1>2. CallInv /\ CallInv' /\ [Next]_vars => [O!Next]_Mapped
  BY OwnershipStep
<1> QED
  BY CallInvariance, <1>1, <1>2, PTL DEF Spec, OwnershipSpec, O!Spec, Mapped
=============================================================================
