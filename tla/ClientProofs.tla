---------------------------- MODULE ClientProofs ----------------------------
(***************************************************************************)
(* Proofs about the clients and their pool, for any calls, servers and       *)
(* connections, and any limits.                                             *)
(***************************************************************************)
EXTENDS ClientInvariant, TLAPS

-----------------------------------------------------------------------------
(* Sequences and numbers.                                                   *)

\* What Append makes of a sequence.
LEMMA Appended ==
  ASSUME NEW S, NEW s \in Seq(S), NEW e \in S
  PROVE  /\ Append(s, e) \in Seq(S) /\ Len(s) \in Nat /\ Len(Append(s, e)) = Len(s) + 1
         /\ \A j \in 1..Len(s) : Append(s, e)[j] = s[j]
         /\ Append(s, e)[Len(s) + 1] = e
  OBVIOUS

\* What is left of a sequence without its first elements.
LEMMA Shortened ==
  ASSUME NEW S, NEW s \in Seq(S), NEW i \in 1..Len(s)
  PROVE  /\ After(s, i) \in Seq(S) /\ Len(s) \in Nat /\ Len(After(s, i)) = Len(s) - i
         /\ \A j \in 1..Len(After(s, i)) : After(s, i)[j] = s[j + i]
  BY DEF After

\* What Head and Tail make of a sequence.
LEMMA HeadAndTail ==
  ASSUME NEW S, NEW s \in Seq(S), s # <<>>
  PROVE  Head(s) \in S /\ Tail(s) \in Seq(S)
  OBVIOUS

\* The empty sequence, and one of one element.
LEMMA ShortSequences ==
  ASSUME NEW S, NEW e
  PROVE  /\ <<>> \in Seq(S) /\ Len(<<>>) = 0
         /\ Append(<<>>, e) = <<e>> /\ <<e>> # <<>> /\ Head(<<e>>) = e /\ Tail(<<e>>) = <<>>
  OBVIOUS

\* An element of a sequence.
LEMMA Element ==
  ASSUME NEW S, NEW s \in Seq(S), NEW i \in 1..Len(s)
  PROVE  s[i] \in S
  OBVIOUS

\* The room for idle connections is a number.
LEMMA RoomType == AsSize(MaxIdle) \in Nat
  BY PoolAssumption DEF AsSize

\* A product of counts that are within their limits is within the product of these.
LEMMA Products ==
  ASSUME NEW a \in Nat, NEW m \in Nat, NEW b \in Nat, a <= m
  PROVE  a * b \in Nat /\ m * b \in Nat /\ a * b <= m * b /\ (a + 1) * b = a * b + b
  OBVIOUS

-----------------------------------------------------------------------------
(* Types.                                                                   *)

PoolType ==
  /\ pool \in [Keys -> Seq(Conns)]
  /\ \A key \in Keys : Len(pool[key]) <= AsSize(MaxIdle)
  /\ sock \in [Conns -> {"open", "closed"}]

CountType ==
  /\ redirects \in [Calls -> 0..(MaxRedirects + 1)]
  /\ retries \in [Calls -> 0..(MaxRetries + 1)]
  /\ attempts \in [Calls -> Nat]

Wire == [key : Keys \cup {NoKey}, up : BOOLEAN, asked : Seq(Calls), inbox : Seq(Reply)]

CallType ==
  /\ pc \in [Calls -> {"idle", "begin", "connect", "send", "read"}]
  /\ req \in [Calls -> RequestType]
  /\ loc \in [Calls -> Keys \cup {BadUrl, NoLocation}]
  /\ conn \in [Calls -> Conns \cup {NoConn}]
  /\ result \in [Calls -> Results]
  /\ origin \in [Calls -> [call : Calls \cup {NoCall}, key : Keys \cup {NoKey}, size : Nat]]

WireType == wire \in [Conns -> Wire]

\* TypeOK in four parts.
LEMMA TypeParts == TypeOK <=> PoolType /\ CountType /\ CallType /\ WireType
  BY DEF TypeOK, PoolType, CountType, CallType, WireType, Wire

\* The pool's operations keep its types.
LEMMA GetType ==
  ASSUME PoolType, NEW key \in Keys, NEW k, AsyncGet(key, k), UNCHANGED sock
  PROVE  PoolType' /\ k \in Conns
<1>1. PICK i \in 1..Len(pool[key]) :
        k = pool[key][i] /\ pool' = [pool EXCEPT ![key] = After(pool[key], i)]
  BY DEF AsyncGet
<1>2. pool[key] \in Seq(Conns) /\ Len(pool[key]) <= AsSize(MaxIdle)
  BY DEF PoolType
<1>3. /\ After(pool[key], i) \in Seq(Conns) /\ Len(pool[key]) \in Nat
      /\ Len(After(pool[key], i)) = Len(pool[key]) - i
  BY <1>2, Shortened
<1>4. Len(After(pool[key], i)) <= AsSize(MaxIdle)
  BY <1>2, <1>3, RoomType
<1>5. k \in Conns
  BY <1>1, <1>2, Element
<1> QED
  BY <1>1, <1>3, <1>4, <1>5 DEF PoolType

\* Taking nothing from the pool keeps the types.
LEMMA GetNoneType ==
  ASSUME PoolType, NEW key \in Keys, AsyncGetNone(key), UNCHANGED sock
  PROVE  PoolType'
  BY RoomType, ShortSequences DEF AsyncGetNone, PoolType

\* Putting a connection into the pool keeps the types, and its limit.
LEMMA PutType ==
  ASSUME PoolType, NEW key \in Keys, NEW k \in Conns, AsyncPut(key, k)
  PROVE  PoolType'
<1>1. CASE HasRoom(key)
  <2>1. pool[key] \in Seq(Conns)
    BY DEF PoolType
  <2>2. Append(pool[key], k) \in Seq(Conns) /\ Len(Append(pool[key], k)) <= AsSize(MaxIdle)
    BY <1>1, <2>1, Appended, RoomType DEF HasRoom
  <2>3. pool' = [pool EXCEPT ![key] = Append(pool[key], k)] /\ UNCHANGED sock
    BY <1>1 DEF AsyncPut
  <2> QED
    BY <2>2, <2>3 DEF PoolType
<1>2. CASE ~HasRoom(key)
  BY <1>2 DEF AsyncPut, CloseSocket, PoolType
<1> QED
  BY <1>1, <1>2

\* A call that has sent a request, or is about to, has a connection.
LEMMA Holder ==
  ASSUME CallType, HoldInv, NEW c \in Calls, pc[c] \in {"send", "read"}
  PROVE  conn[c] \in Conns /\ conn[c] # NoConn
  BY HttpClientAssumption DEF CallType, HoldInv

\* What a call reads next is a reply.
LEMMA IncomingType ==
  ASSUME CallType, WireType, HoldInv, NEW c \in Calls, pc[c] = "read",
         wire[conn[c]].inbox # <<>>
  PROVE  /\ Incoming(c) \in Reply /\ Incoming(c).response \in ResponseType
         /\ Tail(wire[conn[c]].inbox) \in Seq(Reply)
         /\ NewLocation(c) \in Keys \cup {BadUrl, NoLocation}
<1>1. wire[conn[c]].inbox \in Seq(Reply)
  BY Holder DEF WireType, Wire
<1>2. Incoming(c) \in Reply /\ Tail(wire[conn[c]].inbox) \in Seq(Reply)
  BY <1>1, HeadAndTail DEF Incoming
<1>3. Incoming(c).response \in ResponseType
  <2>1. Bare \in ResponseType
    BY DEF Bare, ResponseType
  <2> QED
    BY <1>2, <2>1, HttpClientAssumption DEF Reply
<1>4. NewLocation(c) \in Keys \cup {BadUrl, NoLocation}
  BY <1>3 DEF NewLocation, ResponseType, CallType
<1> QED
  BY <1>2, <1>3, <1>4

\* A call that may ask for a connection has a url that names a server.
LEMMA AttemptUrl ==
  ASSUME CallType, NEW c \in Calls, Attempt(c)
  PROVE  Url(c) \in Keys
  BY DEF CallType, Attempt, Url, RequestType

\* So has one that has a connection.
LEMMA HolderUrl ==
  ASSUME LimitInv, NEW c \in Calls, pc[c] \in {"connect", "send", "read"}
  PROVE  Url(c) \in Keys
  BY DEF LimitInv, Active

\* Every step keeps the types of the pool.
LEMMA PoolTypeStep ==
  ASSUME TypeOK, LimitInv, HoldInv, [Next]_vars
  PROVE  PoolType'
<1> USE TypeParts
<1>1. CASE UNCHANGED <<pool, sock>>
  BY <1>1 DEF PoolType
<1>2. ASSUME NEW c \in Calls, NEW k \in Conns, TakePooled(c, k) PROVE PoolType'
  BY <1>2, AttemptUrl, GetType DEF TakePooled
<1>3. ASSUME NEW c \in Calls, NonePooled(c) PROVE PoolType'
  BY <1>3, AttemptUrl, GetNoneType DEF NonePooled, PoolType
<1>4. ASSUME NEW c \in Calls, NEW k \in Conns, Connected(c, k) PROVE PoolType'
  BY <1>4 DEF Connected, PoolType
<1>5. ASSUME NEW c \in Calls, RefuseOversize(c) \/ Fail(c) \/ FollowRedirect(c) PROVE PoolType'
  BY <1>5 DEF RefuseOversize, Fail, FollowRedirect, Shutdown, CloseSocket, PoolType
<1>6. ASSUME NEW c \in Calls, Finish(c) PROVE PoolType'
  <2>1. CASE req[c].keep
    <3>1. Url(c) \in Keys /\ conn[c] \in Conns
      BY <1>6, HolderUrl, Holder DEF Finish, Receive
    <3> QED
      BY <1>6, <2>1, <3>1, PutType DEF Finish
  <2>2. CASE ~req[c].keep
    BY <1>6, <2>2 DEF Finish, Shutdown, CloseSocket, PoolType
  <2> QED
    BY <2>1, <2>2
<1>7. CASE \E c \in Calls, q \in Requests : Start(c, q)
  BY <1>1, <1>7 DEF Start, poolVars
<1>8. CASE \E c \in Calls : CallStep(c)
  BY <1>1, <1>2, <1>3, <1>4, <1>5, <1>6, <1>8
     DEF CallStep, GiveUp, ConnectFails, SendRequest, poolVars
<1>9. CASE Server
  BY <1>1, <1>9 DEF Server, Answer, AnswerInterim, ServerCloses, poolVars
<1>10. CASE UNCHANGED vars
  BY <1>1, <1>10 DEF vars
<1> QED
  BY <1>7, <1>8, <1>9, <1>10 DEF Next

\* Every step keeps the types of the calls.
LEMMA CallTypeStep ==
  ASSUME TypeOK, LimitInv, HoldInv, [Next]_vars
  PROVE  CallType'
<1> USE TypeParts
<1>1. ASSUME NEW c \in Calls, NEW q \in Requests, Start(c, q) PROVE CallType'
  <2>1. q \in RequestType
    BY HttpClientAssumption
  <2> QED
    BY <1>1, <2>1 DEF Start, CallType, Results, NoOrigin
<1>2. ASSUME NEW c \in Calls, GiveUp(c) PROVE CallType'
  BY <1>2 DEF GiveUp, Return, CallType, Results
<1>3. ASSUME NEW c \in Calls, NEW k \in Conns, TakePooled(c, k) \/ Connected(c, k) PROVE CallType'
  BY <1>3 DEF TakePooled, Connected, CallType
<1>4. ASSUME NEW c \in Calls, NonePooled(c) PROVE CallType'
  BY <1>4 DEF NonePooled, CallType
<1>5. ASSUME NEW c \in Calls, ConnectFails(c) PROVE CallType'
  BY <1>5 DEF ConnectFails, Return, CallType, Results
<1>6. ASSUME NEW c \in Calls, RefuseOversize(c) PROVE CallType'
  BY <1>6 DEF RefuseOversize, Return, CallType, Results
<1>7. ASSUME NEW c \in Calls, SendRequest(c) \/ Fail(c) PROVE CallType'
  BY <1>7 DEF SendRequest, Fail, CallType
<1>8. ASSUME NEW c \in Calls, Receive(c)
      PROVE  /\ loc' \in [Calls -> Keys \cup {BadUrl, NoLocation}]
             /\ conn' \in [Calls -> Conns \cup {NoConn}]
             /\ origin' \in [Calls -> [call : Calls \cup {NoCall}, key : Keys \cup {NoKey}, size : Nat]]
  <2>1. /\ Incoming(c).to \in Calls /\ Incoming(c).response.size \in Nat
        /\ NewLocation(c) \in Keys \cup {BadUrl, NoLocation}
    BY <1>8, IncomingType DEF Receive, Reply, ResponseType
  <2>2. wire[conn[c]].key \in Keys \cup {NoKey}
    BY <1>8, Holder DEF Receive, WireType, Wire
  <2> QED
    BY <1>8, <2>1, <2>2 DEF Receive, CallType
<1>9. ASSUME NEW c \in Calls, FollowRedirect(c) PROVE CallType'
  <2>1. NewLocation(c) \in Keys \cup {BadUrl}
    BY <1>9, IncomingType DEF FollowRedirect, Receive, Redirected
  <2>2. req' \in [Calls -> RequestType]
    BY <1>9, <2>1 DEF FollowRedirect, CallType, RequestType
  <2> QED
    BY <1>8, <1>9, <2>2 DEF FollowRedirect, CallType
<1>10. ASSUME NEW c \in Calls, Finish(c) PROVE CallType'
  BY <1>8, <1>10 DEF Finish, Return, CallType, Results
<1>11. CASE Server
  BY <1>11 DEF Server, Answer, AnswerInterim, ServerCloses, CallType
<1>12. CASE UNCHANGED vars
  BY <1>12 DEF vars, CallType
<1> QED
  BY <1>1, <1>2, <1>3, <1>4, <1>5, <1>6, <1>7, <1>9, <1>10, <1>11, <1>12 DEF Next, CallStep

\* A connection that is not used has the type of any.
LEMMA NewWires == Unused \in Wire /\ \A key \in Keys : Opened(key) \in Wire
  BY ShortSequences DEF Unused, Opened, Wire

\* Every step keeps the types of what is under way.
LEMMA WireTypeStep ==
  ASSUME TypeOK, LimitInv, HoldInv, [Next]_vars
  PROVE  WireType'
<1> USE TypeParts
<1>1. CASE UNCHANGED wire
  BY <1>1 DEF WireType
<1>2. ASSUME NEW k \in Conns, NEW w \in Wire, wire' = [wire EXCEPT ![k] = w] PROVE WireType'
  BY <1>2 DEF WireType
<1>3. ASSUME NEW c \in Calls, NEW k \in Conns, Connected(c, k) PROVE WireType'
  BY <1>2, <1>3, HolderUrl, NewWires DEF Connected
<1>4. ASSUME NEW c \in Calls, RefuseOversize(c) \/ Fail(c) \/ FollowRedirect(c) PROVE WireType'
  <2>1. conn[c] \in Conns /\ wire' = [wire EXCEPT ![conn[c]] = Unused]
    BY <1>4, Holder DEF RefuseOversize, Fail, FollowRedirect, Receive, Shutdown
  <2> QED
    BY <1>2, <2>1, NewWires
<1>5. ASSUME NEW c \in Calls, SendRequest(c) PROVE WireType'
  <2>1. conn[c] \in Conns
    BY <1>5, Holder DEF SendRequest
  <2>2. wire[conn[c]] \in Wire
    BY <2>1 DEF WireType
  <2>3. Append(wire[conn[c]].asked, c) \in Seq(Calls)
    BY <2>2, Appended DEF Wire
  <2> DEFINE w == [wire[conn[c]] EXCEPT !.asked = IF wire[conn[c]].up THEN Append(@, c) ELSE @]
  <2>4. w \in Wire
    BY <2>2, <2>3 DEF Wire
  <2>5. wire' = [wire EXCEPT ![conn[c]] = w]
    BY <1>5, <2>1 DEF SendRequest, WireType
  <2> QED
    BY <1>2, <2>1, <2>4, <2>5
<1>6. ASSUME NEW c \in Calls, Finish(c) PROVE WireType'
  <2>1. conn[c] \in Conns /\ Tail(wire[conn[c]].inbox) \in Seq(Reply)
    BY <1>6, Holder, IncomingType DEF Finish, Receive
  <2> DEFINE w == [wire[conn[c]] EXCEPT !.inbox = Tail(@)]
  <2>2. w \in Wire
    BY <2>1 DEF WireType, Wire
  <2>3. wire' = [wire EXCEPT ![conn[c]] = w] \/ wire' = [wire EXCEPT ![conn[c]] = Unused]
    BY <1>6 DEF Finish, Shutdown
  <2> QED
    BY <1>2, <2>1, <2>2, <2>3, NewWires
<1>7. ASSUME NEW k \in Conns, NEW r \in Responses, Answer(k, r) PROVE WireType'
  <2>1. wire[k] \in Wire /\ wire[k].asked # <<>>
    BY <1>7 DEF Answer, WireType
  <2>2. Head(wire[k].asked) \in Calls /\ Tail(wire[k].asked) \in Seq(Calls)
    BY <2>1, HeadAndTail DEF Wire
  <2> DEFINE m == [to |-> Head(wire[k].asked), response |-> r, interim |-> FALSE]
             w == [wire[k] EXCEPT !.asked = Tail(@), !.inbox = Append(@, m)]
  <2>3. m \in Reply
    BY <2>2 DEF Reply
  <2>4. Append(wire[k].inbox, m) \in Seq(Reply)
    BY <2>1, <2>3, Appended DEF Wire
  <2>5. w \in Wire
    BY <2>1, <2>2, <2>4 DEF Wire
  <2>6. wire' = [wire EXCEPT ![k] = w]
    BY <1>7 DEF Answer, WireType
  <2> QED
    BY <1>2, <2>5, <2>6
<1>8. ASSUME NEW k \in Conns, AnswerInterim(k) PROVE WireType'
  <2>1. wire[k] \in Wire /\ wire[k].asked # <<>>
    BY <1>8 DEF AnswerInterim, WireType
  <2> DEFINE m == [to |-> Head(wire[k].asked), response |-> Bare, interim |-> TRUE]
             w == [wire[k] EXCEPT !.inbox = Append(@, m)]
  <2>3. m \in Reply
    BY <2>1, HeadAndTail DEF Reply, Wire
  <2>4. wire[k].inbox \in Seq(Reply) /\ Append(wire[k].inbox, m) \in Seq(Reply)
    BY <2>1, <2>3, Appended DEF Wire
  <2>5. w \in Wire
    BY <2>1, <2>4 DEF Wire
  <2>6. wire' = [wire EXCEPT ![k] = w]
    BY <1>8 DEF AnswerInterim, WireType
  <2> QED
    BY <1>2, <2>5, <2>6
<1>9. ASSUME NEW k \in Conns, ServerCloses(k) PROVE WireType'
  BY <1>9, ShortSequences DEF ServerCloses, WireType, Wire
<1>10. CASE \E c \in Calls, q \in Requests : Start(c, q)
  BY <1>1, <1>10 DEF Start
<1>11. CASE \E c \in Calls : CallStep(c)
  BY <1>1, <1>3, <1>4, <1>5, <1>6, <1>11
     DEF CallStep, GiveUp, TakePooled, NonePooled, ConnectFails
<1>12. CASE Server
  BY <1>7, <1>8, <1>9, <1>12 DEF Server
<1>13. CASE UNCHANGED vars
  BY <1>1, <1>13 DEF vars
<1> QED
  BY <1>10, <1>11, <1>12, <1>13 DEF Next

-----------------------------------------------------------------------------
(* Limits.                                                                  *)

\* What LimitInv, AttemptInv and AttemptsBounded say of one call.
Spent(c) == redirects[c] * (MaxRetries + 1) + retries[c]

Within(c) ==
  /\ Active(c) => redirects[c] <= MaxRedirects /\ retries[c] <= MaxRetries /\ Url(c) \in Keys
  /\ redirects[c] = MaxRedirects + 1 => retries[c] = 0
  /\ pc[c] # "idle" => attempts[c] <= Spent(c) + (IF Active(c) THEN 1 ELSE 0)
  /\ attempts[c] <= AttemptLimit

\* The limits of the calls, call by call.
LEMMA LimitParts ==
  LimitInv /\ AttemptInv /\ AttemptsBounded <=> \A c \in Calls : Within(c)
  BY DEF LimitInv, AttemptInv, AttemptsBounded, Within, Spent

\* A call that is not at step, or a step that concerns no call's counts.
LEMMA WithinStays ==
  ASSUME NEW c \in Calls, Within(c),
         pc'[c] = pc[c], req'[c] = req[c], redirects'[c] = redirects[c],
         retries'[c] = retries[c], attempts'[c] = attempts[c]
  PROVE  Within(c)'
  BY DEF Within, Active, Url, Spent

\* The limits are numbers, and so are the counts.
LEMMA Numbers ==
  ASSUME CountType, NEW c \in Calls
  PROVE  /\ MaxRedirects \in Nat /\ MaxRetries \in Nat /\ AttemptLimit \in Nat
         /\ redirects[c] \in 0..(MaxRedirects + 1) /\ retries[c] \in 0..(MaxRetries + 1)
         /\ attempts[c] \in Nat /\ Spent(c) \in Nat
<1>1. /\ MaxRedirects \in Nat /\ MaxRetries \in Nat /\ redirects[c] \in 0..(MaxRedirects + 1)
      /\ retries[c] \in 0..(MaxRetries + 1) /\ attempts[c] \in Nat
  BY HttpClientAssumption DEF CountType
<1>2. Spent(c) \in Nat
  BY <1>1, Products DEF Spent
<1>3. AttemptLimit \in Nat
  <2>1. MaxRedirects + 1 \in Nat /\ MaxRetries + 1 \in Nat
    BY <1>1
  <2> QED
    BY <2>1, Products DEF AttemptLimit
<1> QED
  BY <1>1, <1>2, <1>3

\* A call within its limits may try once more.
LEMMA RoomToTry ==
  ASSUME CountType, NEW c \in Calls, redirects[c] <= MaxRedirects, retries[c] <= MaxRetries
  PROVE  Spent(c) + 1 <= AttemptLimit
<1> DEFINE b == MaxRetries + 1
<1>1. b \in Nat /\ MaxRedirects \in Nat /\ redirects[c] \in Nat /\ retries[c] \in Nat /\ MaxRetries \in Nat
  BY Numbers
<1>2. /\ redirects[c] * b <= MaxRedirects * b /\ (MaxRedirects + 1) * b = MaxRedirects * b + b
      /\ redirects[c] * b \in Nat /\ MaxRedirects * b \in Nat
  BY <1>1, Products
<1>3. Spent(c) = redirects[c] * b + retries[c] /\ AttemptLimit = (MaxRedirects + 1) * b
  BY DEF Spent, AttemptLimit
<1> HIDE DEF b
<1> QED
  BY <1>1, <1>2, <1>3 DEF b

\* Another attempt is counted.
LEMMA WithinAttempt ==
  ASSUME CallType, CountType, NEW c \in Calls, Within(c), Attempt(c),
         pc'[c] \in {"send", "connect"}, UNCHANGED <<req, redirects, retries>>
  PROVE  Within(c)' /\ attempts' \in [Calls -> Nat]
<1>1. redirects[c] <= MaxRedirects /\ retries[c] <= MaxRetries
  BY Numbers DEF Attempt, TooManyRedirects, TooManyRetries
<1>2. attempts[c] <= Spent(c)
  BY Numbers DEF Within, Attempt, Active
<1>3. attempts[c] + 1 <= AttemptLimit
  BY <1>1, <1>2, Numbers, RoomToTry
<1>4. attempts' = [attempts EXCEPT ![c] = attempts[c] + 1]
  <2>1. ~(attempts[c] > AttemptLimit)
    BY <1>3, Numbers
  <2> QED
    BY <2>1 DEF Attempt
<1>5. attempts' \in [Calls -> Nat] /\ attempts'[c] = attempts[c] + 1
  BY <1>4, Numbers DEF CountType
<1>6. Url(c)' \in Keys /\ Active(c)'
  BY AttemptUrl DEF Url, Active
<1> QED
  BY <1>1, <1>2, <1>3, <1>5, <1>6, Numbers DEF Within, Spent

\* So is a retry.
LEMMA WithinRetry ==
  ASSUME CountType, NEW c \in Calls, Within(c), Active(c), Retry(c), pc'[c] = "begin",
         UNCHANGED <<redirects, attempts>>
  PROVE  Within(c)' /\ retries' \in [Calls -> 0..(MaxRetries + 1)]
<1>1. redirects[c] <= MaxRedirects /\ retries[c] <= MaxRetries /\ attempts[c] <= Spent(c) + 1
  BY DEF Within, Active
<1>2. retries'[c] = retries[c] + 1 /\ retries' \in [Calls -> 0..(MaxRetries + 1)]
  BY <1>1, Numbers DEF Retry, CountType
<1>3. Spent(c)' = Spent(c) + 1 /\ ~Active(c)'
  <2> DEFINE p == redirects[c] * (MaxRetries + 1)
  <2>1. p \in Nat
    BY Numbers, Products
  <2>2. Spent(c) = p + retries[c] /\ Spent(c)' = p + retries'[c]
    BY DEF Spent
  <2> HIDE DEF p
  <2> QED
    BY <1>2, <2>1, <2>2, Numbers DEF Active
<1> QED
  BY <1>1, <1>2, <1>3, Numbers DEF Within

\* And a redirect.
LEMMA WithinRedirect ==
  ASSUME CountType, NEW c \in Calls, Within(c), Active(c), pc'[c] = "begin",
         redirects' = [redirects EXCEPT ![c] = @ + 1], retries' = [retries EXCEPT ![c] = 0],
         UNCHANGED attempts
  PROVE  Within(c)' /\ redirects' \in [Calls -> 0..(MaxRedirects + 1)]
<1>1. redirects[c] <= MaxRedirects /\ retries[c] <= MaxRetries /\ attempts[c] <= Spent(c) + 1
  BY DEF Within, Active
<1>2. /\ redirects'[c] = redirects[c] + 1 /\ retries'[c] = 0
      /\ redirects' \in [Calls -> 0..(MaxRedirects + 1)]
  BY <1>1, Numbers DEF CountType
<1>3. Spent(c) + 1 <= Spent(c)' /\ Spent(c)' \in Nat /\ ~Active(c)'
  <2> DEFINE b == MaxRetries + 1
             p == redirects[c] * b
             q == (redirects[c] + 1) * b
  <2>1. b \in Nat /\ redirects[c] \in Nat
    BY Numbers
  <2>2. p \in Nat /\ q = p + b
    BY <2>1, Products
  <2>3. Spent(c) = p + retries[c] /\ Spent(c)' = q + 0
    BY <1>2 DEF Spent
  <2> HIDE DEF p, q
  <2> QED
    BY <1>1, <2>1, <2>2, <2>3, Numbers DEF Active
<1> QED
  BY <1>1, <1>2, <1>3, Numbers DEF Within

\* Every step keeps the counts within their limits.
LEMMA CountStep ==
  ASSUME TypeOK, \A c \in Calls : Within(c), [Next]_vars
  PROVE  CountType' /\ \A c \in Calls : Within(c)'
<1> USE TypeParts
<1>1. CASE UNCHANGED <<pc, req, redirects, retries, attempts>>
  BY <1>1, WithinStays DEF CountType
<1>2. ASSUME NEW c \in Calls, Within(c)', CountType',
             pc' = [pc EXCEPT ![c] = pc'[c]], req' = [req EXCEPT ![c] = req'[c]],
             redirects' = [redirects EXCEPT ![c] = redirects'[c]],
             retries' = [retries EXCEPT ![c] = retries'[c]],
             attempts' = [attempts EXCEPT ![c] = attempts'[c]]
      PROVE  CountType' /\ \A d \in Calls : Within(d)'
  BY <1>2, WithinStays DEF CountType, CallType
<1>3. ASSUME NEW c \in Calls, NEW q \in Requests, Start(c, q)
      PROVE  CountType' /\ \A d \in Calls : Within(d)'
  <2>1. CountType'
    BY <1>3, HttpClientAssumption DEF Start, CountType
  <2>2. redirects'[c] = 0 /\ retries'[c] = 0 /\ attempts'[c] = 0 /\ ~Active(c)'
    BY <1>3 DEF Start, CountType, CallType, Active
  <2>3. Spent(c)' \in Nat /\ AttemptLimit \in Nat
    <3>1. MaxRetries + 1 \in Nat /\ AttemptLimit \in Nat
      BY Numbers
    <3>2. 0 * (MaxRetries + 1) \in Nat
      BY <3>1, Products
    <3> QED
      BY <2>2, <3>1, <3>2 DEF Spent
  <2>4. Within(c)'
    BY <2>2, <2>3, Numbers DEF Within
  <2> QED
    BY <1>2, <1>3, <2>1, <2>4 DEF Start, CountType, CallType
<1>4. ASSUME NEW c \in Calls, pc[c] # "idle", pc'[c] = "idle", pc' = [pc EXCEPT ![c] = "idle"],
             UNCHANGED <<req, redirects, retries, attempts>>
      PROVE  CountType' /\ \A d \in Calls : Within(d)'
  <2>1. Within(c)'
    BY <1>4 DEF Within, Active
  <2> QED
    BY <1>2, <1>4, <2>1 DEF CountType, CallType
<1>5. ASSUME NEW c \in Calls, NonePooled(c) \/ \E k \in Conns : TakePooled(c, k)
      PROVE  CountType' /\ \A d \in Calls : Within(d)'
  <2>1. Attempt(c) /\ pc'[c] \in {"send", "connect"} /\ UNCHANGED <<req, redirects, retries>>
    BY <1>5 DEF TakePooled, NonePooled, CallType
  <2>2. Within(c)' /\ CountType'
    BY <2>1, WithinAttempt DEF CountType
  <2> QED
    BY <1>2, <1>5, <2>1, <2>2 DEF TakePooled, NonePooled, Attempt, CountType, CallType
<1>6. ASSUME NEW c \in Calls, Active(c), pc' = [pc EXCEPT ![c] = pc'[c]], Active(c)',
             UNCHANGED <<req, redirects, retries, attempts>>
      PROVE  CountType' /\ \A d \in Calls : Within(d)'
  <2>1. Within(c)'
    BY <1>6 DEF Within, Active, Url, Spent
  <2> QED
    BY <1>2, <1>6, <2>1 DEF CountType, CallType
<1>7. ASSUME NEW c \in Calls, Active(c), Retry(c), pc' = [pc EXCEPT ![c] = "begin"],
             UNCHANGED <<req, redirects, attempts>>
      PROVE  CountType' /\ \A d \in Calls : Within(d)'
  <2>1. pc'[c] = "begin"
    BY <1>7 DEF CallType
  <2>2. Within(c)' /\ CountType'
    BY <1>7, <2>1, WithinRetry DEF CountType
  <2> QED
    BY <1>2, <1>7, <2>2 DEF Retry, CountType, CallType
<1>8. ASSUME NEW c \in Calls, FollowRedirect(c)
      PROVE  CountType' /\ \A d \in Calls : Within(d)'
  <2>1. Active(c) /\ pc'[c] = "begin"
    BY <1>8 DEF FollowRedirect, Receive, Active, CallType
  <2>2. Within(c)' /\ redirects' \in [Calls -> 0..(MaxRedirects + 1)]
    BY <1>8, <2>1, WithinRedirect DEF FollowRedirect
  <2>3. CountType'
    BY <1>8, <2>2, HttpClientAssumption DEF FollowRedirect, CountType
  <2> QED
    BY <1>2, <1>8, <2>2, <2>3 DEF FollowRedirect, CountType, CallType
<1>9. ASSUME NEW c \in Calls, GiveUp(c) \/ RefuseOversize(c) \/ Finish(c)
      PROVE  CountType' /\ \A d \in Calls : Within(d)'
  BY <1>4, <1>9 DEF GiveUp, RefuseOversize, Finish, Receive, Return, CallType
<1>10. ASSUME NEW c \in Calls, ConnectFails(c)
       PROVE  CountType' /\ \A d \in Calls : Within(d)'
  <2>1. CASE Sync
    BY <1>4, <1>10, <2>1 DEF ConnectFails, Return, CallType
  <2>2. CASE ~Sync
    BY <1>7, <1>10, <2>2 DEF ConnectFails, Active
  <2> QED
    BY <2>1, <2>2
<1>11. ASSUME NEW c \in Calls, SendRequest(c) \/ \E k \in Conns : Connected(c, k)
       PROVE  CountType' /\ \A d \in Calls : Within(d)'
  BY <1>6, <1>11 DEF Connected, SendRequest, Active, CallType
<1>12. ASSUME NEW c \in Calls, Fail(c)
       PROVE  CountType' /\ \A d \in Calls : Within(d)'
  BY <1>7, <1>12 DEF Fail, Active
<1>13. CASE Server
  BY <1>1, <1>13 DEF Server, Answer, AnswerInterim, ServerCloses
<1>14. CASE UNCHANGED vars
  BY <1>1, <1>14 DEF vars
<1> QED
  BY <1>3, <1>5, <1>8, <1>9, <1>10, <1>11, <1>12, <1>13, <1>14 DEF Next, CallStep

-----------------------------------------------------------------------------
(* Ownership.                                                               *)

\* Each idle connection is in one place.
OnePlace ==
  \A p, q \in Keys : \A i \in 1..Len(pool[p]), j \in 1..Len(pool[q]) :
    pool[p][i] = pool[q][j] => p = q /\ i = j

Placed(k, key) == IsOpen(k) /\ wire[k].key = key

\* Exclusive, and what HoldInv says of connections that are held or idle.
Shared ==
  /\ \A c, d \in Calls : c # d /\ conn[c] # NoConn => conn[c] # conn[d]
  /\ \A c \in Calls : conn[c] \notin Pooled
  /\ OnePlace
  /\ \A c \in Calls : conn[c] # NoConn => Placed(conn[c], Url(c))
  /\ \A key \in Keys : \A k \in Idle(key) : Placed(k, key)

Holding == \A c \in Calls : conn[c] # NoConn <=> pc[c] \in {"send", "read"}

\* Exclusive use, connection by connection.
LEMMA ShareParts == Exclusive /\ HoldInv <=> Shared /\ Holding
  BY DEF Exclusive, HoldInv, Shared, Holding, OnePlace, Placed

\* Idle connections are connections.
LEMMA PooledType ==
  ASSUME PoolType
  PROVE  Pooled \subseteq Conns /\ NoConn \notin Pooled
<1>1. ASSUME NEW key \in Keys, NEW k \in Idle(key) PROVE k \in Conns
  BY <1>1, Element DEF PoolType, Idle
<1> QED
  BY <1>1, HttpClientAssumption DEF Pooled

\* A call in its first or its last step has none.
LEMMA NotHolding ==
  ASSUME Holding, NEW c \in Calls, pc[c] \in {"idle", "begin", "connect"}
  PROVE  conn[c] = NoConn
  BY DEF Holding

\* The servers move no connection.
LEMMA ServerKeeps ==
  ASSUME WireType, Server
  PROVE  UNCHANGED <<pool, sock, conn, req>> /\ \A j \in Conns : wire'[j].key = wire[j].key
<1> DEFINE Kept == UNCHANGED <<pool, sock, conn, req>> /\ \A j \in Conns : wire'[j].key = wire[j].key
<1>1. ASSUME NEW k \in Conns, NEW r \in Responses, Answer(k, r) PROVE Kept
  BY <1>1 DEF Answer, poolVars, WireType, Wire
<1>2. ASSUME NEW k \in Conns, AnswerInterim(k) PROVE Kept
  BY <1>2 DEF AnswerInterim, poolVars, WireType, Wire
<1>3. ASSUME NEW k \in Conns, ServerCloses(k) PROVE Kept
  BY <1>3 DEF ServerCloses, poolVars, WireType, Wire
<1> QED
  BY <1>1, <1>2, <1>3 DEF Server

\* A step that neither moves a connection nor changes where one leads.
LEMMA SharedSame ==
  ASSUME Shared, PoolType, CallType, UNCHANGED <<pool, sock, conn>>,
         \A k \in Conns : wire'[k].key = wire[k].key,
         \A c \in Calls : conn[c] # NoConn => Url(c)' = Url(c)
  PROVE  Shared'
<1>1. \A key : Idle(key)' = Idle(key)
  BY DEF Idle
<1>2. Pooled' = Pooled
  BY <1>1 DEF Pooled
<1>3. \A k \in Conns : \A key : Placed(k, key)' <=> Placed(k, key)
  BY DEF Placed, IsOpen
<1>4. \A key \in Keys : Idle(key) \subseteq Conns
  BY PooledType DEF Pooled
<1> QED
  BY <1>1, <1>2, <1>3, <1>4 DEF Shared, OnePlace, CallType

\* A connection taken from the pool.
LEMMA SharedTake ==
  ASSUME Shared, PoolType, CallType, NEW c \in Calls, conn[c] = NoConn, Url(c) \in Keys,
         NEW k \in Conns, AsyncGet(Url(c), k), conn' = [conn EXCEPT ![c] = k],
         UNCHANGED <<sock, wire, req>>
  PROVE  Shared'
<1> DEFINE key == Url(c)
<1>1. PICK i \in 1..Len(pool[key]) :
        k = pool[key][i] /\ pool' = [pool EXCEPT ![key] = After(pool[key], i)]
  BY DEF AsyncGet
<1> DEFINE o == [p \in Keys |-> IF p = key THEN i ELSE 0]
<1>2. \A p \in Keys : pool[p] \in Seq(Conns) /\ Len(pool[p]) \in Nat
  BY DEF PoolType
<1>3. ASSUME NEW p \in Keys
      PROVE  /\ Len(pool'[p]) \in Nat /\ Len(pool'[p]) = Len(pool[p]) - o[p]
             /\ \A j \in 1..Len(pool'[p]) : /\ pool'[p][j] = pool[p][j + o[p]]
                                            /\ j + o[p] \in 1..Len(pool[p])
  <2>1. CASE p = key
    <3>1. /\ Len(After(pool[key], i)) = Len(pool[key]) - i
          /\ \A j \in 1..Len(After(pool[key], i)) : After(pool[key], i)[j] = pool[key][j + i]
      BY <1>2, Shortened
    <3>2. pool'[key] = After(pool[key], i)
      BY <1>1 DEF PoolType
    <3> QED
      BY <1>2, <2>1, <3>1, <3>2
  <2>2. CASE p # key
    BY <1>1, <1>2, <2>2 DEF PoolType
  <2> QED
    BY <2>1, <2>2
<1> HIDE DEF o
<1>4. \A p \in Keys : Idle(p)' \subseteq Idle(p)
  BY <1>3 DEF Idle
<1>5. Pooled' \subseteq Pooled
  BY <1>4 DEF Pooled
<1>6. OnePlace'
  <2> SUFFICES ASSUME NEW p \in Keys, NEW q \in Keys, NEW m \in 1..Len(pool'[p]), NEW n \in 1..Len(pool'[q]),
                      pool'[p][m] = pool'[q][n]
               PROVE  p = q /\ m = n
    BY DEF OnePlace
  <2>1. pool[p][m + o[p]] = pool[q][n + o[q]]
        /\ m + o[p] \in 1..Len(pool[p]) /\ n + o[q] \in 1..Len(pool[q])
    BY <1>3
  <2>2. p = q /\ m + o[p] = n + o[q]
    BY <2>1 DEF Shared, OnePlace
  <2>3. o[p] \in Int /\ m \in Int /\ n \in Int
    BY <1>2, <1>3 DEF o
  <2> QED
    BY <2>2, <2>3
<1>7. k \notin Pooled'
  <2> SUFFICES ASSUME NEW p \in Keys, NEW m \in 1..Len(pool'[p]), k = pool'[p][m] PROVE FALSE
    BY DEF Pooled, Idle
  <2>1. pool[p][m + o[p]] = pool[key][i] /\ m + o[p] \in 1..Len(pool[p])
    BY <1>1, <1>3
  <2>2. p = key /\ m + o[p] = i
    BY <2>1 DEF Shared, OnePlace
  <2> QED
    BY <1>2, <1>3, <2>2 DEF o
<1>8. k \in Idle(key) /\ k \in Pooled
  BY <1>1 DEF Idle, Pooled
<1>9. \A d \in Calls : conn'[d] = IF d = c THEN k ELSE conn[d]
  BY DEF CallType
<1>10. \A j, p : Placed(j, p)' <=> Placed(j, p)
  BY DEF Placed, IsOpen
<1>11. \A d \in Calls : Url(d)' = Url(d)
  BY DEF Url
<1> QED
  BY <1>4, <1>5, <1>6, <1>7, <1>8, <1>9, <1>10, <1>11 DEF Shared

\* A connection newly opened.
LEMMA SharedNew ==
  ASSUME Shared, PoolType, CallType, WireType, NEW c \in Calls, conn[c] = NoConn, Url(c) \in Keys,
         NEW k \in Conns, wire[k] = Unused, sock' = [sock EXCEPT ![k] = "open"],
         wire' = [wire EXCEPT ![k] = Opened(Url(c))], conn' = [conn EXCEPT ![c] = k],
         \A d \in Calls : d # c /\ conn[d] # NoConn => Url(d) \in Keys,
         UNCHANGED <<pool, req>>
  PROVE  Shared'
<1>1. wire[k].key \notin Keys
  BY HttpClientAssumption DEF Unused
<1>2. k \notin Pooled /\ \A key \in Keys : k \notin Idle(key)
  BY <1>1 DEF Shared, Placed, Pooled
<1>3. \A d \in Calls : d # c => conn[d] # k
  BY <1>1, HttpClientAssumption DEF Shared, Placed
<1>4. \A d \in Calls : conn'[d] = IF d = c THEN k ELSE conn[d]
  BY DEF CallType
<1>5. \A p : Idle(p)' = Idle(p)
  BY DEF Idle
<1>6. Pooled' = Pooled
  BY <1>5 DEF Pooled
<1>7. \A d \in Calls : Url(d)' = Url(d)
  BY DEF Url
<1>8. Placed(k, Url(c))'
  BY <1>7 DEF Placed, IsOpen, PoolType, WireType, Opened
<1>9. \A j \in Conns : \A p : j # k /\ Placed(j, p) => Placed(j, p)'
  BY DEF Placed, IsOpen, PoolType, WireType
<1>10. \A d \in Calls : conn[d] \in Conns \cup {NoConn}
  BY DEF CallType
<1>11. \A p \in Keys : Idle(p) \subseteq Conns
  BY PooledType DEF Pooled
<1> QED
  BY <1>2, <1>3, <1>4, <1>5, <1>6, <1>7, <1>8, <1>9, <1>10, <1>11 DEF Shared, OnePlace

\* A connection closed by the call that holds it.
LEMMA SharedClose ==
  ASSUME Shared, PoolType, CallType, WireType, NEW c \in Calls, conn[c] # NoConn,
         Shutdown(conn[c]), conn' = [conn EXCEPT ![c] = NoConn],
         \A d \in Calls : d # c => Url(d)' = Url(d),
         UNCHANGED pool
  PROVE  Shared'
<1> DEFINE k == conn[c]
<1>1. k \in Conns
  BY DEF CallType
<1>2. k \notin Pooled /\ \A d \in Calls : d # c => conn[d] # k
  BY DEF Shared
<1>3. \A d \in Calls : conn'[d] = IF d = c THEN NoConn ELSE conn[d]
  BY DEF CallType
<1>4. \A p : Idle(p)' = Idle(p)
  BY DEF Idle
<1>5. Pooled' = Pooled
  BY <1>4 DEF Pooled
<1>6. \A j \in Conns : \A p : j # k /\ Placed(j, p) => Placed(j, p)'
  BY DEF Placed, IsOpen, PoolType, WireType, Shutdown, CloseSocket
<1>7. \A d \in Calls : conn[d] \in Conns \cup {NoConn}
  BY DEF CallType
<1>8. \A p \in Keys : Idle(p) \subseteq Conns /\ Idle(p) \subseteq Pooled
  BY PooledType DEF Pooled
<1> HIDE DEF k
<1> QED
  BY <1>1, <1>2, <1>3, <1>4, <1>5, <1>6, <1>7, <1>8, PooledType DEF Shared, OnePlace

\* A connection given back to the pool.
LEMMA SharedPut ==
  ASSUME Shared, PoolType, CallType, WireType, NEW c \in Calls, conn[c] # NoConn, Url(c) \in Keys,
         HasRoom(Url(c)), AsyncPut(Url(c), conn[c]), conn' = [conn EXCEPT ![c] = NoConn],
         \A j \in Conns : wire'[j].key = wire[j].key,
         UNCHANGED req
  PROVE  Shared'
<1> DEFINE k == conn[c]
           key == Url(c)
           n == Len(pool[key])
<1>1. k \in Conns
  BY DEF CallType
<1>2. k \notin Pooled /\ Placed(k, key) /\ \A d \in Calls : d # c => conn[d] # k
  BY DEF Shared
<1>3. \A d \in Calls : conn'[d] = IF d = c THEN NoConn ELSE conn[d]
  BY DEF CallType
<1>4. pool' = [pool EXCEPT ![key] = Append(pool[key], k)] /\ UNCHANGED sock
  BY DEF AsyncPut
<1>5. pool[key] \in Seq(Conns)
  BY DEF PoolType
<1>6. /\ n \in Nat /\ Len(pool'[key]) = n + 1 /\ pool'[key][n + 1] = k
      /\ \A j \in 1..n : pool'[key][j] = pool[key][j]
  <2>1. pool'[key] = Append(pool[key], k)
    BY <1>4 DEF PoolType
  <2> QED
    BY <1>1, <1>5, <2>1, Appended
<1>7. \A p \in Keys : p # key => pool'[p] = pool[p]
  BY <1>4 DEF PoolType
<1>8. \A p \in Keys : \A i \in 1..Len(pool[p]) : pool[p][i] # k
  BY <1>2 DEF Pooled, Idle
<1>9. \A p \in Keys : Len(pool[p]) \in Nat
  BY DEF PoolType
<1> HIDE DEF k, key, n
<1>10. \A p \in Keys : \A i \in 1..Len(pool'[p]) :
         \/ p = key /\ i = n + 1 /\ pool'[p][i] = k
         \/ i \in 1..Len(pool[p]) /\ pool'[p][i] = pool[p][i]
  BY <1>6, <1>7 DEF n
<1>11. OnePlace'
  <2> SUFFICES ASSUME NEW p \in Keys, NEW q \in Keys, NEW i \in 1..Len(pool'[p]), NEW j \in 1..Len(pool'[q]),
                      pool'[p][i] = pool'[q][j]
               PROVE  p = q /\ i = j
    BY DEF OnePlace
  <2>1. \/ p = key /\ i = n + 1 /\ pool'[p][i] = k
        \/ i \in 1..Len(pool[p]) /\ pool'[p][i] = pool[p][i]
    BY <1>10
  <2>2. \/ q = key /\ j = n + 1 /\ pool'[q][j] = k
        \/ j \in 1..Len(pool[q]) /\ pool'[q][j] = pool[q][j]
    BY <1>10
  <2> QED
    BY <1>8, <2>1, <2>2 DEF Shared, OnePlace
<1>12. \A p \in Keys : Idle(p)' \subseteq Idle(p) \cup {k} /\ (p # key => Idle(p)' = Idle(p))
  BY <1>7, <1>10 DEF Idle
<1>13. Pooled' \subseteq Pooled \cup {k}
  BY <1>12 DEF Pooled
<1>14. \A j \in Conns : \A p : Placed(j, p)' <=> Placed(j, p)
  BY <1>4 DEF Placed, IsOpen
<1>15. \A d \in Calls : conn[d] \in Conns \cup {NoConn}
  BY DEF CallType
<1>16. \A p \in Keys : Idle(p) \subseteq Conns
  BY PooledType DEF Pooled
<1>17. \A d \in Calls : Url(d)' = Url(d)
  BY DEF Url
<1>18. NoConn \notin Pooled' /\ NoConn # k
  BY <1>1, <1>13, PooledType, HttpClientAssumption
<1>19. \A d \in Calls : conn'[d] \notin Pooled'
  BY <1>2, <1>3, <1>13, <1>18 DEF Shared
<1>20. \A d \in Calls : (conn[d] # NoConn => Placed(conn[d], Url(d)))'
  BY <1>3, <1>14, <1>15, <1>17 DEF Shared
<1>21. \A p \in Keys : \A j \in Idle(p)' : Placed(j, p)'
  BY <1>1, <1>2, <1>12, <1>14, <1>16 DEF Shared
<1>22. \A d, e \in Calls : d # e /\ conn'[d] # NoConn => conn'[d] # conn'[e]
  BY <1>3 DEF Shared
<1> QED
  BY <1>11, <1>19, <1>20, <1>21, <1>22 DEF Shared

\* With nothing closed in the pool, finding none there leaves it as it is.
LEMMA NoneIdle ==
  ASSUME Shared, PoolType, NEW key \in Keys, AsyncGetNone(key)
  PROVE  UNCHANGED pool
<1>1. Idle(key) = {}
  BY DEF AsyncGetNone, Shared, Placed
<1>2. pool[key] \in Seq(Conns) /\ Len(pool[key]) \in Nat
  BY DEF PoolType
<1>3. ~(1 \in 1..Len(pool[key]))
  BY <1>1 DEF Idle
<1>4. pool[key] = <<>>
  <2>1. Len(pool[key]) = 0
    BY <1>2, <1>3
  <2> QED
    BY <1>2, <2>1
<1> QED
  BY <1>4 DEF AsyncGetNone, PoolType

\* Which calls have a connection.
LEMMA HoldingStep ==
  ASSUME CallType, Holding, [Next]_vars
  PROVE  Holding'
<1>1. CASE UNCHANGED <<pc, conn>>
  BY <1>1 DEF Holding
<1>2. ASSUME NEW c \in Calls, NEW q \in Requests, Start(c, q) PROVE Holding'
  BY <1>2 DEF Start, Holding, CallType
<1>3. ASSUME NEW c \in Calls, GiveUp(c) \/ NonePooled(c) \/ ConnectFails(c) \/ SendRequest(c)
      PROVE  Holding'
  BY <1>3 DEF GiveUp, NonePooled, ConnectFails, SendRequest, Return, Attempt, Holding, CallType
<1>4. ASSUME NEW c \in Calls, NEW k \in Conns, TakePooled(c, k) \/ Connected(c, k) PROVE Holding'
  BY <1>4, HttpClientAssumption DEF TakePooled, Connected, Holding, CallType
<1>5. ASSUME NEW c \in Calls, RefuseOversize(c) \/ Fail(c) \/ FollowRedirect(c) \/ Finish(c)
      PROVE  Holding'
  <2>1. /\ conn' = [conn EXCEPT ![c] = NoConn]
        /\ pc' = [pc EXCEPT ![c] = "idle"] \/ pc' = [pc EXCEPT ![c] = "begin"]
    BY <1>5 DEF RefuseOversize, Fail, FollowRedirect, Finish, Receive, Return
  <2> QED
    BY <2>1 DEF Holding, CallType
<1>6. CASE Server
  BY <1>1, <1>6 DEF Server, Answer, AnswerInterim, ServerCloses
<1>7. CASE UNCHANGED vars
  BY <1>1, <1>7 DEF vars
<1> QED
  BY <1>2, <1>3, <1>4, <1>5, <1>6, <1>7 DEF Next, CallStep

\* Who has which connection.
LEMMA SharedStep ==
  ASSUME TypeOK, LimitInv, Shared, Holding, [Next]_vars
  PROVE  Shared'
<1> USE TypeParts
<1>0. \A c \in Calls : conn[c] # NoConn => Url(c) \in Keys
  BY HolderUrl DEF Holding
<1>1. CASE UNCHANGED <<pool, sock, conn, req, wire>>
  BY <1>1, SharedSame DEF Url
<1>2. ASSUME NEW c \in Calls, NEW q \in Requests, Start(c, q) PROVE Shared'
  <2>1. conn[c] = NoConn
    BY <1>2 DEF Start, Holding
  <2>2. \A d \in Calls : d # c => Url(d)' = Url(d)
    BY <1>2 DEF Start, Url, CallType
  <2> QED
    BY <1>2, <2>1, <2>2, SharedSame DEF Start, poolVars
<1>3. ASSUME NEW c \in Calls, NEW k \in Conns, TakePooled(c, k) PROVE Shared'
  <2>1. conn[c] = NoConn /\ Url(c) \in Keys
    BY <1>3, NotHolding, AttemptUrl DEF TakePooled, Attempt
  <2> QED
    BY <1>3, <2>1, SharedTake DEF TakePooled
<1>4. ASSUME NEW c \in Calls, NonePooled(c) PROVE Shared'
  <2>1. UNCHANGED pool
    BY <1>4, AttemptUrl, NoneIdle DEF NonePooled
  <2> QED
    BY <1>1, <1>4, <2>1 DEF NonePooled
<1>5. ASSUME NEW c \in Calls, NEW k \in Conns, Connected(c, k) PROVE Shared'
  <2>1. conn[c] = NoConn /\ Url(c) \in Keys
    BY <1>5, NotHolding, HolderUrl DEF Connected
  <2> QED
    BY <1>0, <1>5, <2>1, SharedNew DEF Connected
<1>6. ASSUME NEW c \in Calls, conn[c] # NoConn, Shutdown(conn[c]), UNCHANGED pool,
             conn' = [conn EXCEPT ![c] = NoConn], req' = [req EXCEPT ![c] = req'[c]]
      PROVE  Shared'
  <2>1. \A d \in Calls : d # c => Url(d)' = Url(d)
    BY <1>6 DEF Url, CallType
  <2> QED
    BY <1>6, <2>1, SharedClose
<1>7. ASSUME NEW c \in Calls, RefuseOversize(c) \/ Fail(c) PROVE Shared'
  <2>1. conn[c] # NoConn
    BY <1>7 DEF RefuseOversize, Fail, Holding
  <2> QED
    BY <1>6, <1>7, <2>1 DEF RefuseOversize, Fail, CallType
<1>8. ASSUME NEW c \in Calls, FollowRedirect(c) PROVE Shared'
  <2>1. conn[c] # NoConn
    BY <1>8 DEF FollowRedirect, Receive, Holding
  <2>2. req' = [req EXCEPT ![c] = req'[c]]
    BY <1>8 DEF FollowRedirect, CallType
  <2> QED
    BY <1>6, <1>8, <2>1, <2>2 DEF FollowRedirect, Receive
<1>9. ASSUME NEW c \in Calls, Finish(c) PROVE Shared'
  <2>1. conn[c] # NoConn /\ conn[c] \in Conns /\ Url(c) \in Keys
    BY <1>0, <1>9 DEF Finish, Receive, Holding, CallType
  <2>2. CASE req[c].keep /\ HasRoom(Url(c))
    <3>1. /\ AsyncPut(Url(c), conn[c]) /\ wire' = [wire EXCEPT ![conn[c]].inbox = Tail(@)]
          /\ conn' = [conn EXCEPT ![c] = NoConn] /\ UNCHANGED req
      BY <1>9, <2>2 DEF Finish, Receive
    <3>2. \A j \in Conns : wire'[j].key = wire[j].key
      BY <2>1, <3>1 DEF WireType, Wire
    <3> QED
      BY <2>1, <2>2, <3>1, <3>2, SharedPut
  <2>3. CASE ~(req[c].keep /\ HasRoom(Url(c)))
    <3>1. Shutdown(conn[c]) /\ UNCHANGED pool /\ conn' = [conn EXCEPT ![c] = NoConn] /\ UNCHANGED req
      BY <1>9, <2>3 DEF Finish, Receive, Shutdown, AsyncPut
    <3> QED
      BY <1>6, <2>1, <3>1 DEF CallType
  <2> QED
    BY <2>2, <2>3
<1>10. ASSUME UNCHANGED <<pool, sock, conn, req>>, \A j \in Conns : wire'[j].key = wire[j].key
       PROVE  Shared'
  BY <1>10, SharedSame DEF Url
<1>11. ASSUME NEW c \in Calls, SendRequest(c) PROVE Shared'
  <2>1. \A j \in Conns : wire'[j].key = wire[j].key
    BY <1>11 DEF SendRequest, WireType, Wire
  <2> QED
    BY <1>10, <1>11, <2>1 DEF SendRequest, poolVars
<1>12. CASE Server
  BY <1>10, <1>12, ServerKeeps
<1>13. ASSUME NEW c \in Calls, GiveUp(c) \/ ConnectFails(c) PROVE Shared'
  BY <1>1, <1>13 DEF GiveUp, ConnectFails, poolVars
<1>14. CASE UNCHANGED vars
  BY <1>1, <1>14 DEF vars
<1> QED
  BY <1>2, <1>3, <1>4, <1>5, <1>7, <1>8, <1>9, <1>11, <1>12, <1>13, <1>14 DEF Next, CallStep

\* Which connections are open.
LEMMA OpenStep ==
  ASSUME TypeOK, LimitInv, HoldInv, OpenInv, [Next]_vars
  PROVE  OpenInv'
<1>0. PoolType /\ CallType /\ WireType
  BY TypeParts
<1>1. ASSUME \A k \in Conns : /\ sock'[k] = "open" => sock[k] = "open"
                              /\ wire'[k].key = wire[k].key \/ sock'[k] = "closed"
      PROVE  OpenInv'
  BY <1>1 DEF OpenInv, IsOpen
<1>2. ASSUME UNCHANGED <<sock, wire>> PROVE OpenInv'
  BY <1>1, <1>2
<1>3. ASSUME NEW c \in Calls, NEW k \in Conns, Connected(c, k) PROVE OpenInv'
  <2>1. Url(c) \in Keys
    BY <1>3, HolderUrl DEF Connected
  <2> QED
    BY <1>0, <1>3, <2>1 DEF Connected, OpenInv, IsOpen, Opened, PoolType, WireType
<1>4. ASSUME NEW k \in Conns, Shutdown(k) PROVE OpenInv'
  BY <1>0, <1>1, <1>4 DEF Shutdown, CloseSocket, PoolType, WireType
<1>5. ASSUME NEW c \in Calls, RefuseOversize(c) \/ Fail(c) \/ FollowRedirect(c) PROVE OpenInv'
  BY <1>0, <1>4, <1>5, Holder DEF RefuseOversize, Fail, FollowRedirect, Receive
<1>7. ASSUME NEW c \in Calls, SendRequest(c) PROVE OpenInv'
  <2>1. UNCHANGED sock /\ \A j \in Conns : wire'[j].key = wire[j].key
    BY <1>0, <1>7 DEF SendRequest, poolVars, WireType, Wire
  <2> QED
    BY <1>1, <2>1
<1>8. ASSUME NEW c \in Calls, Finish(c) PROVE OpenInv'
  <2>1. CASE req[c].keep /\ HasRoom(Url(c))
    <3>1. UNCHANGED sock /\ wire' = [wire EXCEPT ![conn[c]].inbox = Tail(@)]
      BY <1>8, <2>1 DEF Finish, AsyncPut
    <3>2. \A j \in Conns : wire'[j].key = wire[j].key
      BY <1>0, <3>1 DEF WireType, Wire
    <3> QED
      BY <1>1, <3>1, <3>2
  <2>2. CASE ~(req[c].keep /\ HasRoom(Url(c)))
    <3>1. Shutdown(conn[c]) /\ conn[c] \in Conns
      BY <1>0, <1>8, <2>2, Holder DEF Finish, Receive, Shutdown, AsyncPut
    <3> QED
      BY <1>4, <3>1
  <2> QED
    BY <2>1, <2>2
<1>9. CASE Server
  BY <1>0, <1>1, <1>9, ServerKeeps
<1>10. ASSUME NEW c \in Calls, GiveUp(c) \/ NonePooled(c) \/ ConnectFails(c) \/ \E k \in Conns : TakePooled(c, k)
       PROVE  OpenInv'
  BY <1>2, <1>10 DEF GiveUp, NonePooled, ConnectFails, TakePooled, poolVars
<1>11. CASE \E c \in Calls, q \in Requests : Start(c, q)
  BY <1>2, <1>11 DEF Start, poolVars
<1>12. CASE UNCHANGED vars
  BY <1>2, <1>12 DEF vars
<1> QED
  BY <1>3, <1>5, <1>7, <1>8, <1>9, <1>10, <1>11, <1>12 DEF Next, CallStep

\* CallInv in the parts the lemmas speak of.
LEMMA CallParts ==
  CallInv <=> TypeOK /\ (\A c \in Calls : Within(c)) /\ Shared /\ Holding /\ OpenInv
  BY LimitParts, ShareParts DEF CallInv

\* At first no call runs and no connection is open.
LEMMA CallInit == Init => CallInv
<1> SUFFICES ASSUME Init PROVE CallInv
  OBVIOUS
<1>1. PoolType
  BY RoomType, ShortSequences DEF Init, PoolInit, PoolType
<1>2. CountType /\ CallType
  BY HttpClientAssumption DEF Init, CountType, CallType, Results, NoOrigin
<1>3. WireType
  BY NewWires DEF Init, WireType
<1>4. ASSUME NEW c \in Calls PROVE Within(c)
  <2>1. /\ redirects[c] = 0 /\ retries[c] = 0 /\ attempts[c] = 0 /\ pc[c] = "idle"
        /\ MaxRedirects \in Nat /\ AttemptLimit \in Nat
    BY <1>2, Numbers DEF Init
  <2> QED
    BY <2>1 DEF Within, Active
<1>5. \A key \in Keys : 1..Len(pool[key]) = {}
  <2>1. ASSUME NEW key \in Keys PROVE 1..Len(pool[key]) = {}
    <3>1. pool[key] = <<>>
      BY DEF Init, PoolInit
    <3>2. Len(pool[key]) = 0
      BY <3>1
    <3> QED
      BY <3>2
  <2> QED
    BY <2>1
<1>6. Shared /\ Holding
  <2>1. OnePlace
    BY <1>5 DEF OnePlace
  <2>2. \A key \in Keys : Idle(key) = {}
    BY <1>5 DEF Idle
  <2> QED
    BY <2>1, <2>2 DEF Init, Shared, Holding, Pooled
<1>7. OpenInv
  BY DEF Init, PoolInit, OpenInv, IsOpen
<1> QED
  BY <1>1, <1>2, <1>3, <1>4, <1>6, <1>7, TypeParts, CallParts

\* Every step keeps what holds with any servers.
LEMMA CallInvStep == CallInv /\ [Next]_vars => CallInv'
<1> SUFFICES ASSUME CallInv, [Next]_vars PROVE CallInv'
  OBVIOUS
<1>1. TypeOK /\ LimitInv /\ HoldInv /\ OpenInv /\ Shared /\ Holding /\ \A c \in Calls : Within(c)
  BY CallParts DEF CallInv
<1>2. CountType' /\ \A c \in Calls : Within(c)'
  BY <1>1, CountStep
<1>3. TypeOK'
  <2>1. PoolType' /\ CallType' /\ WireType'
    BY <1>1, PoolTypeStep, CallTypeStep, WireTypeStep
  <2> QED
    BY <1>2, <2>1 DEF TypeOK, PoolType, CountType, CallType, WireType, Wire
<1>4. Shared' /\ Holding'
  BY <1>1, SharedStep, HoldingStep, TypeParts
<1>5. LimitInv' /\ AttemptInv' /\ AttemptsBounded'
  BY <1>2 DEF LimitInv, AttemptInv, AttemptsBounded, Within, Spent
<1>6. Exclusive' /\ HoldInv'
  BY <1>4 DEF Exclusive, HoldInv, Shared, Holding, OnePlace, Placed
<1>7. OpenInv'
  BY <1>1, OpenStep
<1> QED
  BY <1>3, <1>5, <1>6, <1>7 DEF CallInv

\* Whatever the servers send and whenever they close, the connections and the counts
\* of all calls are in order.
THEOREM CallInvariance == Spec => []CallInv
  BY CallInit, CallInvStep, PTL DEF Spec

\* Every variable has its type, and no queue and no count exceeds its limit.
THEOREM TypeCorrect == Spec => []TypeOK
<1>1. CallInv => TypeOK
  BY DEF CallInv
<1> QED
  BY <1>1, CallInvariance, PTL

\* No call tries more often than (MaxRedirects + 1) * (MaxRetries + 1) times.
THEOREM AttemptsAreBounded == Spec => []AttemptsBounded
<1>1. CallInv => AttemptsBounded
  BY DEF CallInv
<1> QED
  BY <1>1, CallInvariance, PTL

\* No connection has two users, or a user and a place in the pool, or two places.
THEOREM UsersExclude == Spec => []Exclusive
<1>1. CallInv => Exclusive
  BY DEF CallInv
<1> QED
  BY <1>1, CallInvariance, PTL

-----------------------------------------------------------------------------
(* Whose requests and answers are under way. From here on the servers send no *)
(* interim responses.                                                       *)

\* ReadyInv, of one call.
ReadyOf(c) ==
  /\ pc[c] = "send" => Silence(conn[c])
  /\ pc[c] = "read" => Pending(c)

\* Readiness, call by call and pooled connection by connection.
LEMMA ReadyParts ==
  ReadyInv <=> (\A c \in Calls : ReadyOf(c)) /\ \A k \in Pooled : Silence(k)
  BY DEF ReadyInv, ReadyOf, Pooled

\* A call that is not at step, on a connection that is not either.
LEMMA ReadyStays ==
  ASSUME NEW c \in Calls, ReadyOf(c), pc'[c] = pc[c], conn'[c] = conn[c],
         pc[c] \in {"send", "read"} => wire'[conn[c]] = wire[conn[c]]
  PROVE  ReadyOf(c)'
  BY DEF ReadyOf, Silence, Pending

\* A step of one call at most, on one connection at most.
LEMMA ReadyTouch ==
  ASSUME PoolType, CallType, Shared, Holding, ReadyInv, NEW k,
         \A j \in Conns : j # k => wire'[j] = wire[j],
         \A c \in Calls : \/ ReadyOf(c)'
                          \/ pc'[c] = pc[c] /\ conn'[c] = conn[c] /\ conn[c] # k,
         \A j \in Pooled' : (j \in Pooled /\ j # k) \/ Silence(j)'
  PROVE  ReadyInv'
<1>1. \A c \in Calls : ReadyOf(c)'
  <2> SUFFICES ASSUME NEW c \in Calls, pc'[c] = pc[c], conn'[c] = conn[c], conn[c] # k
               PROVE  ReadyOf(c)'
    OBVIOUS
  <2>1. pc[c] \in {"send", "read"} => wire'[conn[c]] = wire[conn[c]]
    BY DEF Holding, CallType
  <2> QED
    BY <2>1, ReadyStays, ReadyParts
<1>2. \A j \in Pooled' : Silence(j)'
  <2> SUFFICES ASSUME NEW j \in Pooled', j \in Pooled, j # k PROVE Silence(j)'
    OBVIOUS
  <2>1. Silence(j) /\ wire'[j] = wire[j]
    BY PooledType, ReadyParts
  <2> QED
    BY <2>1 DEF Silence
<1> QED
  BY <1>1, <1>2 DEF ReadyInv, ReadyOf, Pooled

\* What is taken from the pool was there, and nothing is added.
LEMMA GetShrinks ==
  ASSUME PoolType, NEW key \in Keys, NEW k, AsyncGet(key, k)
  PROVE  k \in Pooled /\ Pooled' \subseteq Pooled
<1>1. PICK i \in 1..Len(pool[key]) :
        k = pool[key][i] /\ pool' = [pool EXCEPT ![key] = After(pool[key], i)]
  BY DEF AsyncGet
<1>2. pool[key] \in Seq(Conns) /\ Len(pool[key]) \in Nat
  BY DEF PoolType
<1>3. /\ Len(After(pool[key], i)) = Len(pool[key]) - i
      /\ \A j \in 1..Len(After(pool[key], i)) : After(pool[key], i)[j] = pool[key][j + i]
  BY <1>2, Shortened
<1>4. \A j \in 1..Len(After(pool[key], i)) : j + i \in 1..Len(pool[key])
  BY <1>2, <1>3
<1>5. pool'[key] = After(pool[key], i) /\ \A p \in Keys : p # key => pool'[p] = pool[p]
  BY <1>1 DEF PoolType
<1>6. Idle(key)' \subseteq Idle(key)
  BY <1>3, <1>4, <1>5 DEF Idle
<1>7. \A p \in Keys : Idle(p)' \subseteq Idle(p)
  BY <1>5, <1>6 DEF Idle
<1>8. k \in Idle(key)
  BY <1>1 DEF Idle
<1> QED
  BY <1>7, <1>8 DEF Pooled

\* What is put there is all that is added.
LEMMA PutGrows ==
  ASSUME PoolType, NEW key \in Keys, NEW k \in Conns, AsyncPut(key, k)
  PROVE  Pooled' \subseteq Pooled \cup {k}
<1>1. CASE HasRoom(key)
  <2>1. pool[key] \in Seq(Conns) /\ pool' = [pool EXCEPT ![key] = Append(pool[key], k)]
    BY <1>1 DEF PoolType, AsyncPut
  <2>2. /\ Len(pool[key]) \in Nat /\ Len(Append(pool[key], k)) = Len(pool[key]) + 1
        /\ \A j \in 1..Len(pool[key]) : Append(pool[key], k)[j] = pool[key][j]
        /\ Append(pool[key], k)[Len(pool[key]) + 1] = k
    BY <2>1, Appended
  <2>3. \A p \in Keys : Idle(p)' \subseteq Idle(p) \cup {k}
    BY <2>1, <2>2 DEF Idle, PoolType
  <2> QED
    BY <2>3 DEF Pooled
<1>2. CASE ~HasRoom(key)
  BY <1>2 DEF AsyncPut, Pooled, Idle
<1> QED
  BY <1>1, <1>2

\* Without interim responses the last request is answered last: AnswerInterim never is.
LEMMA NoInterim ==
  ASSUME OneResponse, WireType, NEW k \in Conns
  PROVE  ~AnswerInterim(k)
<1> SUFFICES ASSUME wire[k].asked # <<>>, Len(wire[k].asked) + Len(wire[k].inbox) < MaxUnderWay
             PROVE  FALSE
  BY DEF AnswerInterim
<1>1. wire[k].asked \in Seq(Calls) /\ wire[k].inbox \in Seq(Reply)
  BY DEF WireType, Wire
<1>2. Len(wire[k].asked) \in Nat \ {0} /\ Len(wire[k].inbox) \in Nat
  BY <1>1
<1>3. MaxUnderWay \in Nat /\ MaxUnderWay <= 1
  BY HttpClientAssumption DEF OneResponse
<1> DEFINE a == Len(wire[k].asked)
           b == Len(wire[k].inbox)
<1>4. a \in Nat \ {0} /\ b \in Nat /\ a + b < MaxUnderWay
  BY <1>2
<1> HIDE DEF a, b
<1> QED
  BY <1>3, <1>4

\* What a call that holds a pending connection reads is its answer, and leaves nothing.
LEMMA OwnReply ==
  ASSUME NEW c \in Calls, Pending(c), wire[conn[c]].inbox # <<>>
  PROVE  /\ wire[conn[c]].asked = <<>> /\ Tail(wire[conn[c]].inbox) = <<>>
         /\ Incoming(c).to = c /\ ~Incoming(c).interim
<1>1. PICK r \in Responses : /\ wire[conn[c]].asked = <<>>
                             /\ wire[conn[c]].inbox = <<[to |-> c, response |-> r, interim |-> FALSE]>>
  BY DEF Pending
<1> QED
  BY <1>1, ShortSequences DEF Incoming

\* A connection closed by the call that holds it is nobody's.
LEMMA ReadyClose ==
  ASSUME PoolType, CallType, WireType, Shared, Holding, ReadyInv, NEW c \in Calls, conn[c] # NoConn,
         Shutdown(conn[c]), UNCHANGED pool, conn' = [conn EXCEPT ![c] = NoConn],
         pc' = [pc EXCEPT ![c] = "idle"] \/ pc' = [pc EXCEPT ![c] = "begin"]
  PROVE  ReadyInv'
<1> DEFINE k == conn[c]
<1>1. k \notin Pooled /\ \A d \in Calls : d # c => conn[d] # k
  BY DEF Shared
<1>2. \A j \in Conns : j # k => wire'[j] = wire[j]
  BY DEF Shutdown, WireType
<1>3. ReadyOf(c)' /\ \A d \in Calls : d # c => pc'[d] = pc[d] /\ conn'[d] = conn[d]
  BY DEF CallType, ReadyOf
<1>4. Pooled' = Pooled
  BY DEF Pooled, Idle
<1> HIDE DEF k
<1> QED
  BY <1>1, <1>2, <1>3, <1>4, ReadyTouch

\* Every step keeps the connections ready.
LEMMA ReadyStep ==
  ASSUME OneResponse, CallInv, ReadyInv, [Next]_vars
  PROVE  ReadyInv'
<1>0. PoolType /\ CallType /\ WireType /\ LimitInv /\ HoldInv /\ Shared /\ Holding
  BY CallParts, TypeParts DEF CallInv
<1>1. ASSUME UNCHANGED <<pool, conn, wire>>,
             \A d \in Calls : pc'[d] = pc[d] \/ pc'[d] \notin {"send", "read"}
      PROVE  ReadyInv'
  <2>1. \A d \in Calls : ReadyOf(d)'
    BY <1>1, ReadyStays, ReadyParts DEF ReadyOf
  <2>2. \A key \in Keys : \A k \in Idle(key) : Silence(k)
    BY DEF ReadyInv
  <2> QED
    BY <1>1, <2>1, <2>2 DEF ReadyInv, ReadyOf, Idle, Silence
<1>2. ASSUME NEW c \in Calls, NEW q \in Requests, Start(c, q) PROVE ReadyInv'
  BY <1>0, <1>1, <1>2 DEF Start, poolVars, CallType
<1>3. ASSUME NEW c \in Calls, GiveUp(c) \/ ConnectFails(c) PROVE ReadyInv'
  BY <1>0, <1>1, <1>3 DEF GiveUp, ConnectFails, Return, poolVars, CallType
<1>4. ASSUME NEW c \in Calls, NonePooled(c) PROVE ReadyInv'
  <2>1. UNCHANGED pool
    BY <1>0, <1>4, AttemptUrl, NoneIdle DEF NonePooled
  <2> QED
    BY <1>0, <1>1, <1>4, <2>1 DEF NonePooled, CallType
<1>5. ASSUME NEW c \in Calls, NEW k \in Conns, TakePooled(c, k) PROVE ReadyInv'
  <2>1. k \in Pooled /\ Pooled' \subseteq Pooled
    BY <1>0, <1>5, AttemptUrl, GetShrinks DEF TakePooled
  <2>2. Silence(k)' /\ \A j \in Conns : wire'[j] = wire[j]
    BY <1>5, <2>1, ReadyParts DEF TakePooled, Silence
  <2>3. ReadyOf(c)'
    BY <1>0, <1>5, <2>2 DEF TakePooled, ReadyOf, Silence, CallType
  <2>4. \A d \in Calls : d # c => pc'[d] = pc[d] /\ conn'[d] = conn[d] /\ conn[d] # k
    BY <1>0, <1>5, <2>1 DEF TakePooled, Shared, CallType
  <2> QED
    BY <1>0, <2>1, <2>2, <2>3, <2>4, ReadyTouch
<1>6. ASSUME NEW c \in Calls, NEW k \in Conns, Connected(c, k) PROVE ReadyInv'
  <2>1. wire[k].key \notin Keys
    BY <1>6, HttpClientAssumption DEF Connected, Unused
  <2>2. \A d \in Calls : conn[d] # NoConn => Url(d) \in Keys
    BY <1>0, HolderUrl DEF Holding
  <2>3. \A d \in Calls : conn[d] # k
    BY <1>0, <2>1, <2>2, HttpClientAssumption DEF Shared, Placed
  <2>4. wire'[k] = Opened(Url(c)) /\ \A j \in Conns : j # k => wire'[j] = wire[j]
    BY <1>0, <1>6 DEF Connected, WireType
  <2>5. Silence(k)'
    BY <2>4 DEF Silence, Opened
  <2>6. ReadyOf(c)'
    BY <1>0, <1>6, <2>5 DEF Connected, ReadyOf, Silence, CallType
  <2>7. \A d \in Calls : d # c => pc'[d] = pc[d] /\ conn'[d] = conn[d]
    BY <1>0, <1>6 DEF Connected, CallType
  <2>8. Pooled' = Pooled
    BY <1>6 DEF Connected, Pooled, Idle
  <2> QED
    BY <1>0, <2>3, <2>4, <2>5, <2>6, <2>7, <2>8, ReadyTouch
<1>7. ASSUME NEW c \in Calls, RefuseOversize(c) \/ Fail(c) \/ FollowRedirect(c) PROVE ReadyInv'
  <2>1. conn[c] # NoConn
    BY <1>0, <1>7 DEF RefuseOversize, Fail, FollowRedirect, Receive, Holding
  <2>2. /\ Shutdown(conn[c]) /\ UNCHANGED pool /\ conn' = [conn EXCEPT ![c] = NoConn]
        /\ pc' = [pc EXCEPT ![c] = "idle"] \/ pc' = [pc EXCEPT ![c] = "begin"]
    BY <1>7 DEF RefuseOversize, Fail, FollowRedirect, Receive, Return
  <2> QED
    BY <1>0, <2>1, <2>2, ReadyClose
<1>8. ASSUME NEW c \in Calls, SendRequest(c) PROVE ReadyInv'
  <2> DEFINE k == conn[c]
  <2>1. k \in Conns /\ Silence(k)
    BY <1>0, <1>8, Holder, ReadyParts DEF SendRequest, ReadyOf
  <2>2. /\ wire'[k].asked \in {<<>>, <<c>>} /\ wire'[k].inbox = <<>>
        /\ \A j \in Conns : j # k => wire'[j] = wire[j]
    BY <1>0, <1>8, <2>1, ShortSequences DEF SendRequest, Silence, WireType, Wire
  <2>3. ReadyOf(c)'
    BY <1>0, <1>8, <2>2 DEF SendRequest, ReadyOf, Pending, CallType
  <2>4. \A d \in Calls : d # c => pc'[d] = pc[d] /\ conn'[d] = conn[d] /\ conn[d] # k
    BY <1>0, <1>8 DEF SendRequest, Shared, Holding, CallType
  <2>5. Pooled' = Pooled /\ k \notin Pooled
    BY <1>0, <1>8 DEF SendRequest, poolVars, Shared, Pooled, Idle
  <2> HIDE DEF k
  <2> QED
    BY <1>0, <2>2, <2>3, <2>4, <2>5, ReadyTouch
<1>9. ASSUME NEW c \in Calls, Finish(c) PROVE ReadyInv'
  <2> DEFINE k == conn[c]
  <2>1. k \in Conns /\ k # NoConn /\ Url(c) \in Keys /\ Pending(c) /\ wire[k].inbox # <<>>
    BY <1>0, <1>9, Holder, HolderUrl, ReadyParts DEF Finish, Receive, ReadyOf
  <2>2. conn' = [conn EXCEPT ![c] = NoConn] /\ pc' = [pc EXCEPT ![c] = "idle"]
    BY <1>9 DEF Finish, Receive, Return
  <2>3. CASE req[c].keep /\ HasRoom(Url(c))
    <3>1. AsyncPut(Url(c), k) /\ wire' = [wire EXCEPT ![k].inbox = Tail(@)]
      BY <1>9, <2>3 DEF Finish
    <3>2. Pooled' \subseteq Pooled \cup {k}
      BY <1>0, <2>1, <3>1, PutGrows
    <3>3. wire[k].asked = <<>> /\ Tail(wire[k].inbox) = <<>>
      BY <2>1, OwnReply
    <3>4. /\ wire'[k].asked = <<>> /\ wire'[k].inbox = <<>>
          /\ \A j \in Conns : j # k => wire'[j] = wire[j]
      <4> HIDE DEF k
      <4> QED
        BY <1>0, <2>1, <3>1, <3>3 DEF WireType, Wire
    <3>5. ReadyOf(c)' /\ \A d \in Calls : d # c => pc'[d] = pc[d] /\ conn'[d] = conn[d] /\ conn[d] # k
      BY <1>0, <2>1, <2>2 DEF ReadyOf, Shared, CallType
    <3>6. \A j \in Pooled' : (j \in Pooled /\ j # k) \/ Silence(j)'
      <4> HIDE DEF k
      <4> QED
        BY <3>2, <3>4 DEF Silence
    <3> HIDE DEF k
    <3> QED
      BY <1>0, <3>4, <3>5, <3>6, ReadyTouch
  <2>4. CASE ~(req[c].keep /\ HasRoom(Url(c)))
    <3>1. Shutdown(k) /\ UNCHANGED pool
      BY <1>9, <2>4 DEF Finish, Shutdown, AsyncPut
    <3> QED
      BY <1>0, <2>1, <2>2, <3>1, ReadyClose
  <2> QED
    BY <2>3, <2>4
<1>10. ASSUME NEW k \in Conns, NEW r \in Responses, Answer(k, r) PROVE ReadyInv'
  <2>1. UNCHANGED <<pool, pc, conn>> /\ wire[k].asked # <<>>
    BY <1>10 DEF Answer, poolVars
  <2>2. \A j \in Conns : j # k => wire'[j] = wire[j]
    BY <1>0, <1>10 DEF Answer, WireType
  <2>3. Pooled' = Pooled /\ k \notin Pooled
    BY <2>1, ReadyParts DEF Pooled, Idle, Silence
  <2>4. ASSUME NEW d \in Calls, conn[d] = k PROVE ReadyOf(d)'
    <3>1. pc[d] = "read" /\ wire[k].asked = <<d>> /\ wire[k].inbox = <<>>
      <4>1. pc[d] \in {"send", "read"} /\ ReadyOf(d)
        BY <1>0, <2>4, HttpClientAssumption, ReadyParts DEF Holding
      <4> QED
        BY <2>1, <2>4, <4>1 DEF ReadyOf, Silence, Pending
    <3> DEFINE m == [to |-> Head(wire[k].asked), response |-> r, interim |-> FALSE]
    <3>2. /\ wire'[k].asked = Tail(wire[k].asked)
          /\ wire'[k].inbox = Append(wire[k].inbox, m)
      BY <1>0, <1>10 DEF Answer, WireType, Wire
    <3>3. wire'[k].asked = <<>> /\ Append(<<>>, m) = <<m>> /\ Head(wire[k].asked) = d
      BY <3>1, <3>2, ShortSequences
    <3>4. wire'[k].asked = <<>> /\ wire'[k].inbox = <<[to |-> d, response |-> r, interim |-> FALSE]>>
      BY <3>1, <3>2, <3>3
    <3> QED
      BY <2>1, <2>4, <3>1, <3>4 DEF ReadyOf, Pending
  <2> QED
    BY <1>0, <2>1, <2>2, <2>3, <2>4, ReadyTouch
<1>11. ASSUME NEW k \in Conns, ServerCloses(k) PROVE ReadyInv'
  <2>1. UNCHANGED <<pool, pc, conn>> /\ \A j \in Conns : j # k => wire'[j] = wire[j]
    BY <1>0, <1>11 DEF ServerCloses, poolVars, WireType
  <2>2. wire'[k].asked = <<>> /\ wire'[k].inbox = wire[k].inbox
    BY <1>0, <1>11 DEF ServerCloses, WireType, Wire
  <2>3. ASSUME NEW d \in Calls, conn[d] = k PROVE ReadyOf(d)'
    BY <2>1, <2>2, <2>3, ReadyParts DEF ReadyOf, Silence, Pending
  <2>4. Pooled' = Pooled /\ (k \in Pooled => Silence(k)')
    BY <2>1, <2>2, ReadyParts DEF Pooled, Idle, Silence
  <2> QED
    BY <1>0, <2>1, <2>3, <2>4, ReadyTouch
<1>12. CASE Server
  BY <1>0, <1>10, <1>11, <1>12, NoInterim DEF Server
<1>13. CASE UNCHANGED vars
  BY <1>1, <1>13 DEF vars
<1> QED
  BY <1>2, <1>3, <1>4, <1>5, <1>6, <1>7, <1>8, <1>9, <1>12, <1>13 DEF Next, CallStep

\* A call has no result while it works, and its answer is of its server and for it.
LEMMA AnswerStep ==
  ASSUME OneResponse, CallInv, ReadyInv, ResultInv, OwnAnswer, [Next]_vars
  PROVE  ResultInv' /\ OwnAnswer'
<1>0. PoolType /\ CallType /\ WireType /\ LimitInv /\ HoldInv /\ Shared /\ Holding
  BY CallParts, TypeParts DEF CallInv
<1>1. ASSUME NEW c \in Calls, \A d \in Calls : d # c => /\ pc'[d] = pc[d] /\ result'[d] = result[d]
                                                        /\ origin'[d] = origin[d] /\ req'[d] = req[d],
             pc'[c] # "idle" => result'[c] = "none",
             result'[c] = "status" => origin'[c].call = c /\ origin'[c].key = req'[c].url
      PROVE  ResultInv' /\ OwnAnswer'
  BY <1>1 DEF ResultInv, OwnAnswer, Url
<1>2. CASE UNCHANGED <<pc, result, origin, req>>
  BY <1>2 DEF ResultInv, OwnAnswer, Url
<1>3. ASSUME NEW c \in Calls, NEW q \in Requests, Start(c, q) PROVE ResultInv' /\ OwnAnswer'
  <2>1. result'[c] = "none"
    BY <1>0, <1>3 DEF Start, CallType
  <2> QED
    BY <1>0, <1>1, <1>3, <2>1 DEF Start, CallType
<1>4. ASSUME NEW c \in Calls, result[c] = "none", result' = result, UNCHANGED <<req, origin>>,
             pc' = [pc EXCEPT ![c] = pc'[c]]
      PROVE  ResultInv' /\ OwnAnswer'
  BY <1>0, <1>1, <1>4 DEF CallType
<1>5. ASSUME NEW c \in Calls, \E k \in Conns : TakePooled(c, k) \/ Connected(c, k)
      PROVE  ResultInv' /\ OwnAnswer'
  <2>1. result[c] = "none"
    BY <1>5 DEF TakePooled, Connected, Attempt, ResultInv
  <2> QED
    BY <1>0, <1>4, <1>5, <2>1 DEF TakePooled, Connected, CallType
<1>6. ASSUME NEW c \in Calls, NonePooled(c) \/ SendRequest(c) \/ Fail(c) \/ (ConnectFails(c) /\ ~Sync)
      PROVE  ResultInv' /\ OwnAnswer'
  <2>1. result[c] = "none"
    BY <1>6 DEF NonePooled, SendRequest, Fail, ConnectFails, Attempt, ResultInv
  <2> QED
    BY <1>0, <1>4, <1>6, <2>1 DEF NonePooled, SendRequest, Fail, ConnectFails, CallType
<1>7. ASSUME NEW c \in Calls, NEW r \in Results \ {"status"}, Return(c, r), UNCHANGED <<req, origin>>
      PROVE  ResultInv' /\ OwnAnswer'
  <2>1. pc'[c] = "idle" /\ result'[c] = r
    BY <1>0, <1>7 DEF Return, CallType
  <2> QED
    BY <1>0, <1>1, <1>7, <2>1 DEF Return, CallType
<1>8. ASSUME NEW c \in Calls, GiveUp(c) \/ RefuseOversize(c) \/ (ConnectFails(c) /\ Sync)
      PROVE  ResultInv' /\ OwnAnswer'
  <2>1. \E r \in Results \ {"status"} : Return(c, r)
    BY <1>8 DEF GiveUp, RefuseOversize, ConnectFails, Results
  <2> QED
    BY <1>7, <1>8, <2>1 DEF GiveUp, RefuseOversize, ConnectFails
<1>9. ASSUME NEW c \in Calls, FollowRedirect(c) PROVE ResultInv' /\ OwnAnswer'
  <2>1. result'[c] = "none"
    BY <1>9 DEF FollowRedirect, Receive, ResultInv
  <2>2. \A d \in Calls : d # c => /\ pc'[d] = pc[d] /\ result'[d] = result[d]
                                  /\ origin'[d] = origin[d] /\ req'[d] = req[d]
    BY <1>0, <1>9 DEF FollowRedirect, Receive, CallType
  <2> QED
    BY <1>1, <2>1, <2>2
<1>10. ASSUME NEW c \in Calls, Finish(c) PROVE ResultInv' /\ OwnAnswer'
  <2>1. pc[c] = "read" /\ wire[conn[c]].inbox # <<>> /\ conn[c] # NoConn
    BY <1>0, <1>10 DEF Finish, Receive, Holding
  <2>2. Incoming(c).to = c
    BY <2>1, OwnReply, ReadyParts DEF ReadyOf
  <2>3. wire[conn[c]].key = Url(c)
    BY <1>0, <2>1 DEF Shared, Placed
  <2>4. /\ pc'[c] = "idle" /\ req' = req
        /\ origin'[c].call = Incoming(c).to /\ origin'[c].key = wire[conn[c]].key
    BY <1>0, <1>10 DEF Finish, Receive, Return, CallType
  <2>5. \A d \in Calls : d # c => pc'[d] = pc[d] /\ result'[d] = result[d] /\ origin'[d] = origin[d]
    BY <1>0, <1>10 DEF Finish, Receive, Return, CallType
  <2> QED
    BY <1>1, <2>2, <2>3, <2>4, <2>5 DEF Url
<1>11. CASE Server
  BY <1>2, <1>11 DEF Server, Answer, AnswerInterim, ServerCloses
<1>12. CASE UNCHANGED vars
  BY <1>2, <1>12 DEF vars
<1> QED
  BY <1>3, <1>5, <1>6, <1>8, <1>9, <1>10, <1>11, <1>12 DEF Next, CallStep

\* What is under way on a connection belongs to the call that holds it, and a
\* connection in the pool is silent.
THEOREM ClientInvariance == ASSUME OneResponse PROVE Spec => []IInv
<1>1. Init => ReadyInv /\ ResultInv /\ OwnAnswer
  <2> SUFFICES ASSUME Init PROVE ReadyInv /\ ResultInv /\ OwnAnswer
    OBVIOUS
  <2>1. ASSUME NEW key \in Keys, NEW k \in Idle(key) PROVE FALSE
    <3>1. Len(pool[key]) = 0
      <4>1. pool[key] = <<>>
        BY DEF Init, PoolInit
      <4> QED
        BY <4>1
    <3> QED
      BY <2>1, <3>1 DEF Idle
  <2> QED
    BY <2>1 DEF Init, ReadyInv, ResultInv, OwnAnswer
<1>2. IInv /\ [Next]_vars => IInv'
  BY CallInvStep, ReadyStep, AnswerStep DEF IInv
<1> QED
  BY CallInit, <1>1, <1>2, PTL DEF Spec, IInv

\* A connection in the pool is open on our side, leads to the server of its key, and
\* carries neither a request nor a response.
THEOREM PoolIsReady == ASSUME OneResponse PROVE Spec => []PooledReady
<1>1. IInv => PooledReady
  BY DEF IInv, CallInv, HoldInv, ReadyInv, Silence, PooledReady
<1> QED
  BY <1>1, ClientInvariance, PTL

\* A call that returns a response returns the one to its own request, from the server
\* its url names.
THEOREM AnswersAreOwn == ASSUME OneResponse PROVE Spec => []OwnAnswer
<1>1. IInv => OwnAnswer
  BY DEF IInv
<1> QED
  BY <1>1, ClientInvariance, PTL
=============================================================================
