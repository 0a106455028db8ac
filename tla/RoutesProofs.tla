---------------------------- MODULE RoutesProofs ----------------------------
(***************************************************************************)
(* Proofs about routing, for any paths, handlers and targets, and any number  *)
(* of registrations; and about what parse_request finds in a target, by       *)
(* induction on its parameters.                                              *)
(***************************************************************************)
EXTENDS Routes, TLAPS, WellFoundedInduction

\* The types of the two tables and of what they are made from.
Tables ==
  /\ routes \in [Paths -> Handlers \cup {None}]
  /\ prefix_routes \in Seq([path : Paths, handler : Handlers])
  /\ called \in Seq(Route)

\* What Append makes of a sequence.
LEMMA Appended ==
  ASSUME NEW S, NEW s \in Seq(S), NEW e \in S
  PROVE  /\ Append(s, e) \in Seq(S) /\ Len(s) \in Nat /\ Len(Append(s, e)) = Len(s) + 1
         /\ \A j \in 1..Len(s) : Append(s, e)[j] = s[j]
         /\ Append(s, e)[Len(s) + 1] = e
  OBVIOUS

\* An element of a sequence.
LEMMA Element ==
  ASSUME NEW S, NEW s \in Seq(S), NEW i \in 1..Len(s)
  PROVE  s[i] \in S
  OBVIOUS

\* The first prefix that matches is one at most.
LEMMA FirstIsOne ==
  ASSUME NEW path, prefix_routes \in Seq([path : Paths, handler : Handlers])
  PROVE  \A i, j \in FirstPrefix(path) : i = j
<1> SUFFICES ASSUME NEW i \in FirstPrefix(path), NEW j \in FirstPrefix(path) PROVE i = j
  OBVIOUS
<1>1. i \in 1..Len(prefix_routes) /\ j \in 1..Len(prefix_routes) /\ Len(prefix_routes) \in Nat
  BY DEF FirstPrefix
<1>2. IsPrefix(prefix_routes[i].path, path) /\ IsPrefix(prefix_routes[j].path, path)
  BY DEF FirstPrefix
<1>3. ~(i < j) /\ ~(j < i)
  BY <1>1, <1>2 DEF FirstPrefix
<1> QED
  BY <1>1, <1>3

\* So it is after a step.
LEMMA FirstOnly ==
  ASSUME NEW path, prefix_routes' \in Seq([path : Paths, handler : Handlers])
  PROVE  \A i, j \in FirstPrefix(path)' : i = j
<1> SUFFICES ASSUME NEW i \in FirstPrefix(path)', NEW j \in FirstPrefix(path)' PROVE i = j
  OBVIOUS
<1>1. i \in 1..Len(prefix_routes') /\ j \in 1..Len(prefix_routes') /\ Len(prefix_routes') \in Nat
  BY DEF FirstPrefix
<1>2. IsPrefix(prefix_routes'[i].path, path) /\ IsPrefix(prefix_routes'[j].path, path)
  BY DEF FirstPrefix
<1>3. ~(i < j) /\ ~(j < i)
  BY <1>1, <1>2 DEF FirstPrefix
<1> QED
  BY <1>1, <1>3

\* What a path is given to is the handler of its first prefix, without an exact route.
LEMMA MatchedByPrefix ==
  ASSUME NEW path, prefix_routes \in Seq([path : Paths, handler : Handlers]),
         Exact(path) = None, NEW i \in FirstPrefix(path)
  PROVE  Matched(path) = prefix_routes[i].handler
<1>1. (CHOOSE j \in FirstPrefix(path) : TRUE) \in FirstPrefix(path)
  OBVIOUS
<1>2. (CHOOSE j \in FirstPrefix(path) : TRUE) = i
  BY <1>1, FirstIsOne
<1> QED
  BY <1>2 DEF Matched

\* What a path is given to is a handler, or none.
LEMMA MatchedType ==
  ASSUME Tables, NEW path
  PROVE  Matched(path) \in Handlers \cup {None}
<1>1. CASE Exact(path) # None
  BY <1>1 DEF Matched, Exact, Tables
<1>2. CASE Exact(path) = None /\ FirstPrefix(path) = {}
  BY <1>2 DEF Matched
<1>3. CASE Exact(path) = None /\ FirstPrefix(path) # {}
  <2>1. PICK i \in FirstPrefix(path) : TRUE
    BY <1>3
  <2>2. prefix_routes[i] \in [path : Paths, handler : Handlers]
    BY <2>1, Element DEF FirstPrefix, Tables
  <2> QED
    BY <1>3, <2>1, <2>2, MatchedByPrefix DEF Tables
<1> QED
  BY <1>1, <1>2, <1>3

\* A further prefix does not come before the first that matches.
LEMMA FirstStays ==
  ASSUME Tables, NEW path, NEW e \in [path : Paths, handler : Handlers],
         prefix_routes' = Append(prefix_routes, e),
         NEW i \in FirstPrefix(path)
  PROVE  i \in FirstPrefix(path)' /\ prefix_routes'[i] = prefix_routes[i]
<1>1. Len(prefix_routes) \in Nat /\ Len(prefix_routes') = Len(prefix_routes) + 1
  BY DEF Tables
<1>2. \A j \in 1..Len(prefix_routes) : prefix_routes'[j] = prefix_routes[j]
  BY DEF Tables
<1>3. i \in 1..Len(prefix_routes)
  BY DEF FirstPrefix
<1>4. i \in 1..Len(prefix_routes') /\ \A j \in 1..(i - 1) : j \in 1..Len(prefix_routes)
  BY <1>1, <1>3
<1> QED
  BY <1>2, <1>3, <1>4 DEF FirstPrefix

-----------------------------------------------------------------------------
\* Every step keeps the types.
LEMMA TypeStep == TypeOK /\ [Next]_vars => TypeOK'
<1> SUFFICES ASSUME TypeOK, [Next]_vars PROVE TypeOK'
  OBVIOUS
<1>1. ASSUME NEW path \in Paths, NEW h \in Handlers, NEW prefix \in BOOLEAN,
             Register(path, h, prefix)
      PROVE  TypeOK'
  <2>1. called' \in Seq(Route)
    <3>1. [path |-> path, handler |-> h, prefix |-> prefix] \in Route
      BY DEF Route
    <3> QED
      BY <1>1, <3>1, Appended DEF Register, TypeOK
  <2>2. routes' \in [Paths -> Handlers \cup {None}]
    BY <1>1 DEF Register, TypeOK, SetRoute
  <2>3. prefix_routes' \in Seq([path : Paths, handler : Handlers])
    <3>1. [path |-> path, handler |-> h] \in [path : Paths, handler : Handlers]
      OBVIOUS
    <3>2. CASE prefix
      <4>1. prefix_routes' = Append(prefix_routes, [path |-> path, handler |-> h])
        BY <1>1, <3>2 DEF Register
      <4> QED
        BY <3>1, <4>1, Appended DEF TypeOK
    <3>3. CASE ~prefix
      BY <1>1, <3>3 DEF Register, TypeOK
    <3> QED
      BY <3>2, <3>3
  <2> QED
    BY <1>1, <2>1, <2>2, <2>3 DEF Register, TypeOK
<1>2. ASSUME NEW a \in Targets, HandleRequest(a) PROVE TypeOK'
  <2> DEFINE h == Matched(PathOf(TargetOf(a)))
  <2>1. h \in Handlers \cup {None}
    BY MatchedType DEF TypeOK, Tables
  <2>2. h # None => ResponseOf[h] \in {"string", "file"}
    BY <2>1, RoutesAssumption
  <2>3. ctx'.handler = h /\ ctx'.res = {ctx'.res_type} /\ ctx'.res_type \in {"string", "file"}
    BY <1>2, <2>2 DEF HandleRequest, ResType
  <2> QED
    BY <1>2, <2>1, <2>3 DEF HandleRequest, TypeOK
<1>3. CASE UNCHANGED vars
  BY <1>3 DEF vars, TypeOK
<1> QED
  BY <1>1, <1>2, <1>3 DEF Next

\* Every variable has its type, and the response object a handler is given is of the
\* type that res_type names.
THEOREM TypeCorrect == Spec => []TypeOK
<1>1. Init => TypeOK
  BY DEF Init, TypeOK, NewContext
<1> QED
  BY <1>1, TypeStep, PTL DEF Spec

-----------------------------------------------------------------------------
\* What a call of register_route for another path leaves as it is.
LEMMA ExactStays ==
  ASSUME Tables, NEW p \in Paths, NEW h \in Handlers, SetRoute(p, h), NEW path, path # p
  PROVE  Exact(path)' = Exact(path)
  BY DEF Tables, SetRoute, Exact

\* With the same tables a path goes to the same handler.
LEMMA SameTables ==
  ASSUME UNCHANGED <<routes, prefix_routes>>, NEW path
  PROVE  Matched(path)' = Matched(path)
<1>1. Exact(path)' = Exact(path)
  BY DEF Exact
<1>2. FirstPrefix(path)' = FirstPrefix(path)
  BY DEF FirstPrefix
<1> QED
  BY <1>1, <1>2 DEF Matched

\* A call of register_route never takes a path away from its handler, unless it is
\* for that very path.
THEOREM RoutesAreStable == Spec => RoutesStay
<1>1. ASSUME TypeOK, [Next]_vars, NEW path \in AskedPaths,
             Matched(path) # None, Matched(path)' # Matched(path)
      PROVE  called'[Len(called')].path = path /\ ~called'[Len(called')].prefix
  <2>0. Tables
    BY <1>1 DEF TypeOK, Tables
  <2>1. ASSUME NEW p \in Paths, NEW h \in Handlers, NEW prefix \in BOOLEAN, Register(p, h, prefix)
        PROVE  called'[Len(called')].path = path /\ ~called'[Len(called')].prefix
    <3>1. CASE prefix
      <4> DEFINE e == [path |-> p, handler |-> h]
      <4>1. prefix_routes' = Append(prefix_routes, e) /\ e \in [path : Paths, handler : Handlers]
        BY <2>1, <3>1 DEF Register
      <4>2. Exact(path)' = Exact(path)
        BY <2>1, <3>1 DEF Register, Exact
      <4>3. CASE Exact(path) # None
        BY <1>1, <4>2, <4>3 DEF Matched
      <4>4. CASE Exact(path) = None
        <5>1. PICK i \in FirstPrefix(path) : TRUE
          BY <1>1, <4>4 DEF Matched
        <5>2. i \in FirstPrefix(path)' /\ prefix_routes'[i] = prefix_routes[i]
          BY <2>0, <4>1, <5>1, FirstStays
        <5>3. Matched(path) = prefix_routes[i].handler
          BY <2>0, <4>4, <5>1, MatchedByPrefix DEF Tables
        <5>4. Matched(path)' = prefix_routes'[i].handler
          <6>1. prefix_routes' \in Seq([path : Paths, handler : Handlers])
            BY <2>0, <4>1, Appended DEF Tables
          <6>2. \A k \in FirstPrefix(path)' : k = i
            BY <5>2, <6>1, FirstOnly
          <6> QED
            BY <4>2, <4>4, <5>2, <6>2 DEF Matched
        <5> QED
          BY <1>1, <5>2, <5>3, <5>4
      <4> QED
        BY <4>3, <4>4
    <3>2. CASE ~prefix
      <4>1. CASE p = path
        <5>1. called' = Append(called, [path |-> p, handler |-> h, prefix |-> prefix])
          BY <2>1 DEF Register
        <5> QED
          BY <2>0, <3>2, <4>1, <5>1 DEF Tables
      <4>2. CASE p # path
        <5>1. Exact(path)' = Exact(path)
          BY <2>0, <2>1, <3>2, <4>2, ExactStays DEF Register
        <5>2. prefix_routes' = prefix_routes
          BY <2>1, <3>2 DEF Register
        <5>3. FirstPrefix(path)' = FirstPrefix(path)
          BY <5>2 DEF FirstPrefix
        <5>4. Matched(path)' = Matched(path)
          BY <5>1, <5>2, <5>3 DEF Matched
        <5> QED
          BY <1>1, <5>4
      <4> QED
        BY <4>1, <4>2
    <3> QED
      BY <3>1, <3>2
  <2>2. ASSUME NEW a \in Targets, HandleRequest(a) PROVE FALSE
    <3>1. UNCHANGED <<routes, prefix_routes>>
      BY <2>2 DEF HandleRequest
    <3> QED
      BY <1>1, <3>1, SameTables
  <2>3. CASE UNCHANGED vars
    BY <1>1, <2>3, SameTables DEF vars
  <2> QED
    BY <1>1, <2>1, <2>2, <2>3 DEF Next
<1>2. TypeOK /\ [Next]_vars =>
        [\A path \in AskedPaths :
           Matched(path) # None /\ Matched(path)' # Matched(path) =>
             called'[Len(called')].path = path /\ ~called'[Len(called')].prefix]_vars
  BY <1>1
<1> QED
  BY <1>2, TypeCorrect, PTL DEF Spec, RoutesStay

-----------------------------------------------------------------------------
\* What a call of register_route adds to the calls that count for a path.
LEMMA CallsGrow ==
  ASSUME Tables, NEW c \in Route, called' = Append(called, c), NEW path
  PROVE  LET n == Len(called) + 1 IN
         /\ Len(called) \in Nat
         /\ \A i \in 1..Len(called) : called'[i] = called[i]
         /\ called'[n] = c
         /\ ExactCalls(path)' = ExactCalls(path) \cup {i \in {n} : ~c.prefix /\ c.path = path}
         /\ PrefixCalls(path)' = PrefixCalls(path) \cup {i \in {n} : c.prefix /\ IsPrefix(c.path, path)}
<1>1. /\ Len(called) \in Nat /\ Len(called') = Len(called) + 1
      /\ \A i \in 1..Len(called) : called'[i] = called[i]
      /\ called'[Len(called) + 1] = c
  BY Appended DEF Tables
<1>2. 1..Len(called') = 1..Len(called) \cup {Len(called) + 1}
  BY <1>1
<1>3. ExactCalls(path)' = ExactCalls(path) \cup {i \in {Len(called) + 1} : ~c.prefix /\ c.path = path}
  BY <1>1, <1>2 DEF ExactCalls
<1>4. PrefixCalls(path)' =
        PrefixCalls(path) \cup {i \in {Len(called) + 1} : c.prefix /\ IsPrefix(c.path, path)}
  BY <1>1, <1>2 DEF PrefixCalls
<1> QED
  BY <1>1, <1>3, <1>4

\* A registration for the path itself, or for none of its prefixes.
LEMMA ExactStep ==
  ASSUME Tables, NEW p \in Paths, NEW h \in Handlers, NEW prefix \in BOOLEAN,
         Register(p, h, prefix), NEW path, ExactInv(path)
  PROVE  ExactInv(path)'
<1> DEFINE c == [path |-> p, handler |-> h, prefix |-> prefix]
<1> DEFINE n == Len(called) + 1
<1>1. c \in Route /\ called' = Append(called, c)
  BY DEF Register, Route
<1>2. /\ Len(called) \in Nat /\ called'[n] = c
      /\ \A i \in 1..Len(called) : called'[i] = called[i]
      /\ ExactCalls(path)' = ExactCalls(path) \cup {i \in {n} : ~c.prefix /\ c.path = path}
  BY <1>1, CallsGrow
<1>3. ExactCalls(path) \subseteq 1..Len(called)
  BY DEF ExactCalls
<1>4. CASE ~prefix /\ p = path
  <2>1. ExactCalls(path)' = ExactCalls(path) \cup {n}
    BY <1>2, <1>4
  <2>2. Exact(path)' = h
    <3>1. routes' = [routes EXCEPT ![p] = h]
      BY <1>4 DEF Register, SetRoute
    <3>2. routes'[p] = h
      BY <3>1 DEF Tables
    <3> QED
      BY <1>4, <3>2 DEF Exact
  <2>3. n \in ExactCalls(path)' /\ \A j \in ExactCalls(path)' : j <= n
    BY <1>2, <1>3, <2>1
  <2>4. called'[n].handler = h
    BY <1>2
  <2> QED
    BY <2>2, <2>3, <2>4 DEF ExactInv
<1>5. CASE ~(~prefix /\ p = path)
  <2>1. ExactCalls(path)' = ExactCalls(path)
    BY <1>2, <1>5
  <2>2. Exact(path)' = Exact(path)
    <3>1. CASE prefix
      BY <3>1 DEF Register, Exact
    <3>2. CASE ~prefix
      BY <1>5, <3>2, ExactStays DEF Register
    <3> QED
      BY <3>1, <3>2
  <2>3. \A i \in ExactCalls(path) : called'[i] = called[i]
    BY <1>2, <1>3
  <2> QED
    BY <2>1, <2>2, <2>3 DEF ExactInv
<1> QED
  BY <1>4, <1>5

\* A registration for a prefix of the path, or for none.
LEMMA PrefixStep ==
  ASSUME Tables, NEW p \in Paths, NEW h \in Handlers, NEW prefix \in BOOLEAN,
         Register(p, h, prefix), NEW path, PrefixInv(path)
  PROVE  PrefixInv(path)'
<1> DEFINE c == [path |-> p, handler |-> h, prefix |-> prefix]
<1> DEFINE n == Len(called) + 1
<1> DEFINE e == [path |-> p, handler |-> h]
<1> DEFINE m == Len(prefix_routes) + 1
<1>1. c \in Route /\ called' = Append(called, c)
  BY DEF Register, Route
<1>2. /\ Len(called) \in Nat /\ called'[n] = c
      /\ \A i \in 1..Len(called) : called'[i] = called[i]
      /\ PrefixCalls(path)' = PrefixCalls(path) \cup {i \in {n} : c.prefix /\ IsPrefix(c.path, path)}
  BY <1>1, CallsGrow
<1>3. PrefixCalls(path) \subseteq 1..Len(called)
  BY DEF PrefixCalls
<1>4. CASE ~prefix
  <2>1. prefix_routes' = prefix_routes /\ PrefixCalls(path)' = PrefixCalls(path)
    BY <1>2, <1>4 DEF Register
  <2>2. FirstPrefix(path)' = FirstPrefix(path)
    BY <2>1 DEF FirstPrefix
  <2>3. \A i \in PrefixCalls(path) : called'[i] = called[i]
    BY <1>2, <1>3
  <2> QED
    BY <2>1, <2>2, <2>3 DEF PrefixInv
<1>5. CASE prefix
  <2>0. prefix_routes' = Append(prefix_routes, e) /\ e \in [path : Paths, handler : Handlers]
    BY <1>5 DEF Register
  <2>1. /\ Len(prefix_routes) \in Nat /\ Len(prefix_routes') = m /\ prefix_routes'[m] = e
        /\ \A i \in 1..Len(prefix_routes) : prefix_routes'[i] = prefix_routes[i]
    BY <2>0, Appended DEF Tables
  <2>2. CASE PrefixCalls(path) # {}
    <3>1. PICK k \in PrefixCalls(path), i \in FirstPrefix(path) :
            /\ \A j \in PrefixCalls(path) : k <= j
            /\ prefix_routes[i].handler = called[k].handler
      BY <2>2 DEF PrefixInv
    <3>2. i \in FirstPrefix(path)' /\ prefix_routes'[i] = prefix_routes[i]
      BY <2>0, FirstStays
    <3>3. k \in PrefixCalls(path)' /\ called'[k] = called[k]
      BY <1>2, <1>3
    <3>4. \A j \in PrefixCalls(path)' : k <= j
      BY <1>2, <1>3, <3>1
    <3> QED
      BY <3>1, <3>2, <3>3, <3>4 DEF PrefixInv
  <2>3. CASE PrefixCalls(path) = {} /\ IsPrefix(p, path)
    <3>1. PrefixCalls(path)' = {n}
      BY <1>2, <1>5, <2>3
    <3>2. m \in FirstPrefix(path)'
      <4>1. \A j \in 1..(m - 1) : j \in 1..Len(prefix_routes)
        BY <2>1
      <4>2. \A j \in 1..(m - 1) : ~IsPrefix(prefix_routes'[j].path, path)
        BY <2>1, <2>3, <4>1 DEF PrefixInv
      <4>3. m \in 1..Len(prefix_routes') /\ IsPrefix(prefix_routes'[m].path, path)
        BY <2>1, <2>3
      <4> QED
        BY <4>2, <4>3 DEF FirstPrefix
    <3>3. prefix_routes'[m].handler = called'[n].handler
      BY <1>2, <2>1
    <3>4. n <= n
      BY <1>2
    <3> QED
      BY <3>1, <3>2, <3>3, <3>4 DEF PrefixInv
  <2>4. CASE PrefixCalls(path) = {} /\ ~IsPrefix(p, path)
    <3>1. PrefixCalls(path)' = {}
      BY <1>2, <1>5, <2>4
    <3>2. \A j \in 1..Len(prefix_routes') : j \in 1..Len(prefix_routes) \/ j = m
      BY <2>1
    <3>3. \A j \in 1..Len(prefix_routes') : ~IsPrefix(prefix_routes'[j].path, path)
      BY <2>1, <2>4, <3>2 DEF PrefixInv
    <3> QED
      BY <3>1, <3>3 DEF PrefixInv
  <2> QED
    BY <2>2, <2>3, <2>4
<1> QED
  BY <1>4, <1>5

\* Every step keeps the tables what their calls have made of them.
LEMMA RouteStep == TypeOK /\ RouteInv /\ [Next]_vars => RouteInv'
<1> SUFFICES ASSUME TypeOK, RouteInv, [Next]_vars, NEW path \in AskedPaths
             PROVE  ExactInv(path)' /\ PrefixInv(path)'
  BY DEF RouteInv, AskedPaths
<1>0. Tables /\ ExactInv(path) /\ PrefixInv(path)
  BY DEF TypeOK, Tables, RouteInv
<1>1. ASSUME NEW p \in Paths, NEW h \in Handlers, NEW prefix \in BOOLEAN, Register(p, h, prefix)
      PROVE  ExactInv(path)' /\ PrefixInv(path)'
  BY <1>0, <1>1, ExactStep, PrefixStep
<1>2. CASE UNCHANGED <<routes, prefix_routes, called>>
  BY <1>0, <1>2 DEF ExactInv, PrefixInv, ExactCalls, PrefixCalls, Exact, FirstPrefix
<1> QED
  BY <1>1, <1>2 DEF Next, HandleRequest, vars

\* The tables give a path to the handler that the calls promise.
LEMMA InvPromises ==
  ASSUME Tables, NEW path, ExactInv(path), PrefixInv(path)
  PROVE  Matched(path) = Promised(path)
<1>1. CASE ExactCalls(path) # {}
  <2>1. PICK i \in ExactCalls(path) :
          (\A j \in ExactCalls(path) : j <= i) /\ Exact(path) = called[i].handler
    BY <1>1 DEF ExactInv
  <2>2. ExactCalls(path) \subseteq Int
    BY DEF ExactCalls, Tables
  <2>3. Max(ExactCalls(path)) = i
    BY <2>1, <2>2 DEF Max
  <2>4. called[i] \in Route
    BY <2>1, Element DEF ExactCalls, Tables
  <2>5. called[i].handler # None
    BY <2>4, RoutesAssumption DEF Route
  <2> QED
    BY <1>1, <2>1, <2>3, <2>5 DEF Matched, Promised
<1>2. CASE ExactCalls(path) = {} /\ PrefixCalls(path) # {}
  <2>1. PICK k \in PrefixCalls(path), i \in FirstPrefix(path) :
          /\ \A j \in PrefixCalls(path) : k <= j
          /\ prefix_routes[i].handler = called[k].handler
    BY <1>2 DEF PrefixInv
  <2>2. PrefixCalls(path) \subseteq Int
    BY DEF PrefixCalls, Tables
  <2>3. Min(PrefixCalls(path)) = k
    BY <2>1, <2>2 DEF Min
  <2>4. Exact(path) = None
    BY <1>2 DEF ExactInv
  <2>5. Matched(path) = prefix_routes[i].handler
    BY <2>1, <2>4, MatchedByPrefix DEF Tables
  <2> QED
    BY <1>2, <2>1, <2>3, <2>5 DEF Promised
<1>3. CASE ExactCalls(path) = {} /\ PrefixCalls(path) = {}
  <2>1. Exact(path) = None
    BY <1>3 DEF ExactInv
  <2>2. FirstPrefix(path) = {}
    BY <1>3 DEF PrefixInv, FirstPrefix
  <2> QED
    BY <1>3, <2>1, <2>2 DEF Matched, Promised
<1> QED
  BY <1>1, <1>2, <1>3

\* Whatever is registered in whatever order, a path is given to its newest exact
\* route, else to the oldest prefix of it.
THEOREM RoutingAsPromised == Spec => []RoutedAsPromised
<1>1. Init => RouteInv
  <2> SUFFICES ASSUME Init, NEW path \in AskedPaths PROVE ExactInv(path) /\ PrefixInv(path)
    BY DEF RouteInv
  <2>1. ExactCalls(path) = {} /\ PrefixCalls(path) = {} /\ Len(prefix_routes) = 0
    BY DEF Init, ExactCalls, PrefixCalls
  <2>2. Exact(path) = None
    BY DEF Init, Exact
  <2>3. 1..Len(prefix_routes) = {}
    BY <2>1
  <2> QED
    BY <2>1, <2>2, <2>3 DEF ExactInv, PrefixInv
<1>2. TypeOK /\ RouteInv => RoutedAsPromised
  BY InvPromises DEF TypeOK, Tables, RouteInv, RoutedAsPromised
<1> QED
  BY <1>1, <1>2, TypeCorrect, RouteStep, PTL DEF Spec

-----------------------------------------------------------------------------
\* The naturals are well founded: a set of them that is not empty has a least element.
LEMMA Least ==
  ASSUME NEW T, T \subseteq Nat, T # {}
  PROVE  \E x \in T : \A y \in T : x <= y
<1> DEFINE R == OpToRel(<, Nat)
<1>1. IsWellFoundedOn(R, Nat)
  BY NatLessThanWellFounded
<1>2. \A x, y \in Nat : x < y => <<x, y>> \in R
  BY DEF OpToRel
<1> HIDE DEF R
<1>3. PICK x \in T : \A y \in T : ~(<<y, x>> \in R)
  BY <1>1, WFMin, Zenon
<1>4. \A y \in T : ~(y < x)
  BY <1>2, <1>3
<1> QED
  BY <1>3, <1>4

\* So Min is the least element of such a set.
LEMMA MinIsLeast ==
  ASSUME NEW T, T \subseteq Nat, T # {}
  PROVE  Min(T) \in T /\ \A y \in T : Min(T) <= y
  BY Least DEF Min

\* Induction down an interval, over a set of its elements.
LEMMA Downward ==
  ASSUME NEW n \in Nat, NEW S, n \in S, \A i \in 1..(n - 1) : i + 1 \in S => i \in S
  PROVE  1..n \subseteq S
<1> DEFINE T == {d \in Nat : d < n /\ n - d \notin S}
<1> SUFFICES ASSUME T # {} PROVE FALSE
  <2>1. ASSUME T = {}, NEW i \in 1..n PROVE i \in S
    <3>1. n - i \in Nat /\ n - i < n /\ n - (n - i) = i
      BY <2>1
    <3>2. n - i \notin T
      BY <2>1
    <3> QED
      BY <3>1, <3>2
  <2> QED
    BY <2>1
<1>1. PICK d \in T : \A e \in T : d <= e
  BY Least
<1>2. d # 0
  BY <1>1
<1>3. d - 1 \in Nat /\ d - 1 < n /\ d - 1 \notin T
  BY <1>1, <1>2
<1>4. (n - d) + 1 \in S /\ n - d \in 1..(n - 1)
  BY <1>1, <1>2, <1>3
<1> QED
  BY <1>1, <1>4

-----------------------------------------------------------------------------
\* Find returns the first position of a character from one on, or the one after the end.
LEMMA FindIsFirst ==
  ASSUME NEW s \in Seq(Chars), NEW c, NEW i \in 1..(Len(s) + 1)
  PROVE  /\ Find(s, c, i) \in i..(Len(s) + 1)
         /\ \A k \in i..(Find(s, c, i) - 1) : s[k] # c
         /\ Find(s, c, i) <= Len(s) => s[Find(s, c, i)] = c
<1> DEFINE P == {k \in i..Len(s) : s[k] = c}
<1>1. CASE P = {}
  BY <1>1 DEF Find
<1>2. CASE P # {}
  <2>0. P \subseteq Nat
    OBVIOUS
  <2>1. Min(P) \in P /\ \A y \in P : Min(P) <= y
    <3> HIDE DEF P
    <3> QED
      BY <1>2, <2>0, MinIsLeast
  <2>2. Find(s, c, i) = Min(P)
    BY <1>2 DEF Find
  <2> HIDE DEF P
  <2> DEFINE m == Min(P)
  <2>3. m \in i..Len(s) /\ s[m] = c
    BY <2>1 DEF P
  <2>4. \A k \in i..(m - 1) : s[k] # c
    BY <2>1, <2>3 DEF P
  <2> QED
    BY <2>2, <2>3, <2>4
<1> QED
  BY <1>1, <1>2

\* There is no other such position.
LEMMA FindIsOnly ==
  ASSUME NEW s \in Seq(Chars), NEW c, NEW i \in 1..(Len(s) + 1), NEW m \in i..(Len(s) + 1),
         \A k \in i..(m - 1) : s[k] # c,
         m <= Len(s) => s[m] = c
  PROVE  Find(s, c, i) = m
<1> DEFINE f == Find(s, c, i)
<1>1. f \in i..(Len(s) + 1) /\ (\A k \in i..(f - 1) : s[k] # c) /\ (f <= Len(s) => s[f] = c)
  BY FindIsFirst
<1> HIDE DEF f
<1>2. ~(f < m)
  BY <1>1
<1>3. ~(m < f)
  BY <1>1
<1> QED
  BY <1>1, <1>2, <1>3 DEF f

\* A sequence of characters that starts with another one and a character.
LEMMA Joined ==
  ASSUME NEW s \in Seq(Chars), NEW c \in Chars, NEW t \in Seq(Chars)
  PROVE  LET w == s \o (<<c>> \o t)
         IN  /\ w \in Seq(Chars) /\ Len(w) = Len(s) + 1 + Len(t)
             /\ \A k \in 1..Len(s) : w[k] = s[k]
             /\ w[Len(s) + 1] = c
             /\ \A k \in 1..Len(t) : w[Len(s) + 1 + k] = t[k]
             /\ SubSeq(w, 1, Len(s)) = s
             /\ SubSeq(w, Len(s) + 2, Len(w)) = t
  OBVIOUS

\* The same, by its name.
LEMMA JoinedParts ==
  ASSUME NEW s \in Seq(Chars), NEW c \in Chars, NEW t \in Seq(Chars),
         NEW w, w = s \o (<<c>> \o t)
  PROVE  /\ w \in Seq(Chars) /\ Len(w) = Len(s) + 1 + Len(t)
         /\ \A k \in 1..Len(s) : w[k] = s[k]
         /\ w[Len(s) + 1] = c
         /\ \A k \in 1..Len(t) : w[Len(s) + 1 + k] = t[k]
         /\ SubSeq(w, 1, Len(s)) = s
         /\ SubSeq(w, Len(s) + 2, Len(w)) = t
  BY Joined

\* parse_request takes a key and its value apart as they were put together.
LEMMA ParameterIsRead ==
  ASSUME NEW p \in [key : Seq(Chars), value : Seq(Chars)], Free("=", p.key)
  PROVE  /\ KeyValue(p) \in Seq(Chars)
         /\ Parameter(KeyValue(p)) = [k \in {p.key} |-> p.value]
<1> DEFINE n == Len(p.key)
<1>0. p.key \in Seq(Chars) /\ p.value \in Seq(Chars) /\ n \in Nat
  OBVIOUS
<1>e. "=" \in Chars
  BY RoutesAssumption
<1> SUFFICES ASSUME NEW w, w = KeyValue(p)
             PROVE  w \in Seq(Chars) /\ Parameter(w) = [k \in {p.key} |-> p.value]
  OBVIOUS
<1>1. /\ w \in Seq(Chars) /\ Find(w, "=", 1) = n + 1
      /\ SubSeq(w, 1, n) = p.key /\ SubSeq(w, n + 2, Len(w)) = p.value
  <2>1. CASE p.value = <<>>
    <3>1. w = p.key
      BY <2>1 DEF KeyValue
    <3>2. \A k \in 1..n : w[k] # "="
      BY <3>1 DEF Free
    <3>3. Find(w, "=", 1) = n + 1
      BY <1>0, <3>1, <3>2, FindIsOnly
    <3> QED
      BY <1>0, <2>1, <3>1, <3>3
  <2>2. CASE p.value # <<>>
    <3>1. w = p.key \o (<<"=">> \o p.value)
      BY <2>2 DEF KeyValue
    <3>2. /\ w \in Seq(Chars) /\ Len(w) = n + 1 + Len(p.value)
          /\ \A k \in 1..n : w[k] = p.key[k]
          /\ w[n + 1] = "="
          /\ SubSeq(w, 1, n) = p.key
          /\ SubSeq(w, n + 2, Len(w)) = p.value
      BY <1>0, <1>e, <3>1, JoinedParts
    <3>3. \A k \in 1..((n + 1) - 1) : w[k] # "="
      BY <1>0, <3>2 DEF Free
    <3>4. n + 1 \in 1..(Len(w) + 1) /\ 1 \in 1..(Len(w) + 1)
      BY <1>0, <3>2
    <3> HIDE DEF n
    <3>5. n + 1 \in 1..(Len(w) + 1) /\ (n + 1 <= Len(w) => w[n + 1] = "=") /\ w \in Seq(Chars)
      BY <3>2, <3>4
    <3>6. Find(w, "=", 1) = n + 1
      BY <3>3, <3>4, <3>5, FindIsOnly
    <3> QED
      BY <3>2, <3>6
  <2> QED
    BY <2>1, <2>2
<1>2. (n + 1) - 1 = n /\ (n + 1) + 1 = n + 2
  BY <1>0
<1> QED
  BY <1>1, <1>2 DEF Parameter

\* What is written for a parameter holds no "&".
LEMMA ParameterIsWhole ==
  ASSUME NEW p \in [key : Seq(Chars), value : Seq(Chars)],
         Free("&", p.key), Free("&", p.value)
  PROVE  Free("&", KeyValue(p))
<1>1. CASE p.value = <<>>
  BY <1>1 DEF KeyValue
<1>2. CASE p.value # <<>>
  <2> DEFINE w == p.key \o (<<"=">> \o p.value)
  <2>1. /\ Len(w) = Len(p.key) + 1 + Len(p.value)
        /\ \A k \in 1..Len(p.key) : w[k] = p.key[k]
        /\ w[Len(p.key) + 1] = "="
        /\ \A k \in 1..Len(p.value) : w[Len(p.key) + 1 + k] = p.value[k]
    <3>1. p.key \in Seq(Chars) /\ p.value \in Seq(Chars)
      OBVIOUS
    <3>2. "=" \in Chars
      BY RoutesAssumption
    <3> QED
      BY <3>1, <3>2, JoinedParts
  <2> HIDE DEF w
  <2>2. ASSUME NEW i \in 1..Len(w) PROVE w[i] # "&"
    <3>1. CASE i <= Len(p.key)
      BY <2>1, <3>1 DEF Free
    <3>2. CASE i = Len(p.key) + 1
      BY <2>1, <3>2
    <3>3. CASE i > Len(p.key) + 1
      <4>1. PICK k \in 1..Len(p.value) : i = Len(p.key) + 1 + k
        <5>1. Len(p.key) \in Nat /\ Len(p.value) \in Nat /\ Len(w) \in Nat
          BY <2>1
        <5>2. i - (Len(p.key) + 1) \in 1..Len(p.value)
          BY <2>1, <3>3, <5>1
        <5>3. i = Len(p.key) + 1 + (i - (Len(p.key) + 1))
          BY <5>1
        <5> QED
          BY <5>2, <5>3
      <4> QED
        BY <2>1, <4>1 DEF Free
    <3> QED
      BY <3>1, <3>2, <3>3
  <2>3. KeyValue(p) = w
    BY <1>2 DEF KeyValue, w
  <2> QED
    BY <2>2, <2>3 DEF Free
<1> QED
  BY <1>1, <1>2

-----------------------------------------------------------------------------
\* What a client writes from its parameter i on.
Writes(g, ps, i) ==
  IF i = Len(ps) THEN KeyValue(ps[i]) ELSE KeyValue(ps[i]) \o (<<"&">> \o g[i + 1])

\* What the recursive function of it conforms to, and that there is one: it is built from
\* the last parameter on.
LEMMA WrittenConforms ==
  ASSUME NEW R, NEW ps \in Seq(R), ps # <<>>
  PROVE  \E g : (\A i \in 1..Len(ps) : g[i] = Writes(g, ps, i)) /\ Written(ps) = g[1]
<1> DEFINE n == Len(ps)
           Has(m) == \E g : g = [i \in m..n |-> Writes(g, ps, i)]
           S == {m \in 1..n : Has(m)}
<1>0. n \in Nat /\ n >= 1
  OBVIOUS
<1>1. n \in S
  <2> DEFINE g == [i \in n..n |-> KeyValue(ps[n])]
  <2>1. g = [i \in n..n |-> Writes(g, ps, i)]
    BY <1>0 DEF Writes
  <2>2. Has(n)
    BY <2>1
  <2> QED
    BY <1>0, <2>2
<1>2. ASSUME NEW m \in 1..(n - 1), m + 1 \in S PROVE m \in S
  <2>1. PICK g : g = [i \in (m + 1)..n |-> Writes(g, ps, i)]
    BY <1>2
  <2> DEFINE h == [i \in m..n |-> IF i = m THEN Writes(g, ps, m) ELSE g[i]]
  <2>2. \A i \in (m + 1)..n : g[i] = Writes(g, ps, i)
    BY <2>1
  <2>3. \A i \in (m + 1)..n : h[i] = g[i]
    BY <1>0, <1>2
  <2> HIDE DEF h
  <2>4. \A i \in m..n : Writes(h, ps, i) = Writes(g, ps, i)
    BY <1>0, <1>2, <2>3 DEF Writes
  <2>5. \A i \in m..n : h[i] = Writes(h, ps, i)
    BY <1>0, <1>2, <2>2, <2>4 DEF h
  <2>6. h = [i \in m..n |-> Writes(h, ps, i)]
    BY <2>5 DEF h
  <2> QED
    BY <1>0, <1>2, <2>6
<1>3. 1 \in S
  <2> HIDE DEF S
  <2> QED
    BY <1>0, <1>1, <1>2, Downward
<1> DEFINE Conforms(g) == g = [i \in 1..n |-> Writes(g, ps, i)]
<1>4. \E g : Conforms(g)
  BY <1>3
<1>5. Written(ps) = (CHOOSE g : Conforms(g))[1]
  BY DEF Written, Writes
<1> QED
  BY <1>4, <1>5

\* The loop over a query, from each position.
Part(q, i) == SubSeq(q, i, Find(q, "&", i) - 1)
Loop(g, q, i) ==
  IF i > Len(q) THEN <<>>
  ELSE IF Find(q, "&", i) > Len(q) THEN Parameter(Part(q, i))
  ELSE Emplace(Parameter(Part(q, i)), g[Find(q, "&", i) + 1])

\* What its recursive function conforms to, and that there is one: it is built from the
\* end of the query on.
LEMMA LoopConforms ==
  ASSUME NEW q \in Seq(Chars)
  PROVE  \E g : (\A i \in 1..(Len(q) + 1) : g[i] = Loop(g, q, i)) /\ ParamsOf(q) = g[1]
<1> DEFINE n == Len(q) + 1
           Has(m) == \E g : g = [i \in m..n |-> Loop(g, q, i)]
           S == {m \in 1..n : Has(m)}
<1>0. n \in Nat /\ n >= 1 /\ Len(q) \in Nat
  OBVIOUS
<1>1. n \in S
  <2> DEFINE g == [i \in n..n |-> <<>>]
  <2>1. g = [i \in n..n |-> Loop(g, q, i)]
    BY <1>0 DEF Loop
  <2> QED
    BY <1>0, <2>1
<1>2. ASSUME NEW m \in 1..(n - 1), m + 1 \in S PROVE m \in S
  <2>1. PICK g : g = [i \in (m + 1)..n |-> Loop(g, q, i)]
    BY <1>2
  <2> DEFINE h == [i \in m..n |-> IF i = m THEN Loop(g, q, m) ELSE g[i]]
  <2>2. \A i \in (m + 1)..n : g[i] = Loop(g, q, i)
    BY <2>1
  <2>3. \A i \in (m + 1)..n : h[i] = g[i]
    BY <1>0, <1>2
  <2> HIDE DEF h
  <2>4. ASSUME NEW i \in m..n PROVE Loop(h, q, i) = Loop(g, q, i)
    <3>1. CASE i = n
      BY <1>0, <3>1 DEF Loop
    <3>2. CASE i < n
      <4>1. Find(q, "&", i) \in i..n
        BY <1>0, <1>2, <3>2, FindIsFirst
      <4>2. Find(q, "&", i) <= Len(q) => Find(q, "&", i) + 1 \in (m + 1)..n
        BY <1>0, <1>2, <4>1
      <4> QED
        BY <1>0, <1>2, <2>3, <4>1, <4>2 DEF Loop
    <3> QED
      BY <3>1, <3>2
  <2>5. \A i \in m..n : h[i] = Loop(h, q, i)
    BY <1>0, <1>2, <2>2, <2>4 DEF h
  <2>6. h = [i \in m..n |-> Loop(h, q, i)]
    BY <2>5 DEF h
  <2> QED
    BY <1>0, <1>2, <2>6
<1>3. 1 \in S
  <2> HIDE DEF S
  <2> QED
    BY <1>0, <1>1, <1>2, Downward
<1> DEFINE Conforms(g) == g = [i \in 1..n |-> Loop(g, q, i)]
<1>4. \E g : Conforms(g)
  BY <1>3
<1>5. ParamsOf(q) = (CHOOSE g : Conforms(g))[1]
  BY DEF ParamsOf, Loop, Part
<1> QED
  BY <1>4, <1>5

-----------------------------------------------------------------------------
\* The parameters from i on, the first value of each key.
Params(ps, i) ==
  [k \in {ps[j].key : j \in i..Len(ps)} |-> ps[Min({j \in i..Len(ps) : ps[j].key = k})].value]

\* The last one alone.
LEMMA LastParams ==
  ASSUME NEW R, NEW ps \in Seq(R), ps # <<>>
  PROVE  Params(ps, Len(ps)) = [k \in {ps[Len(ps)].key} |-> ps[Len(ps)].value]
<1> DEFINE n == Len(ps)
<1>1. n \in Nat /\ n..n = {n}
  OBVIOUS
<1>2. {j \in n..n : ps[j].key = ps[n].key} = {n}
  BY <1>1
<1>3. Min({n}) = n
  BY <1>1, MinIsLeast
<1>4. {ps[j].key : j \in n..n} = {ps[n].key}
  BY <1>1
<1> QED
  BY <1>2, <1>3, <1>4 DEF Params

\* One more in front of them: its value counts.
LEMMA MoreParams ==
  ASSUME NEW R, NEW ps \in Seq(R), NEW i \in 1..(Len(ps) - 1)
  PROVE  Params(ps, i) = Emplace([k \in {ps[i].key} |-> ps[i].value], Params(ps, i + 1))
<1> DEFINE n == Len(ps)
           At(m, k) == {j \in m..n : ps[j].key = k}
           f == [k \in {ps[i].key} |-> ps[i].value]
           K == {ps[j].key : j \in (i + 1)..n}
<1>1. n \in Nat /\ i \in i..n /\ i + 1 \in Nat /\ i..n = {i} \cup ((i + 1)..n)
  OBVIOUS
<1>2. {ps[j].key : j \in i..n} = {ps[i].key} \cup K
  BY <1>1
<1>3. Min(At(i, ps[i].key)) = i
  <2>1. i \in At(i, ps[i].key) /\ (\A j \in At(i, ps[i].key) : i <= j) /\ At(i, ps[i].key) \subseteq Nat
    BY <1>1
  <2> HIDE DEF At
  <2>2. Min(At(i, ps[i].key)) \in At(i, ps[i].key) /\ Min(At(i, ps[i].key)) <= i
    BY <2>1, MinIsLeast
  <2>3. i <= Min(At(i, ps[i].key)) /\ Min(At(i, ps[i].key)) \in Nat
    BY <2>1, <2>2
  <2> QED
    BY <2>2, <2>3
<1>4. \A k : k # ps[i].key => At(i, k) = At(i + 1, k)
  BY <1>1
<1>5. DOMAIN f = {ps[i].key} /\ DOMAIN Params(ps, i + 1) = K /\ f[ps[i].key] = ps[i].value
  BY DEF Params
<1>6. \A k \in K : Params(ps, i + 1)[k] = ps[Min(At(i + 1, k))].value
  BY DEF Params
<1>7. Params(ps, i) = [k \in {ps[i].key} \cup K |-> ps[Min(At(i, k))].value]
  BY <1>2 DEF Params
<1>8. Emplace(f, Params(ps, i + 1))
        = [k \in {ps[i].key} \cup K |-> IF k \in {ps[i].key} THEN f[k] ELSE Params(ps, i + 1)[k]]
  BY <1>5 DEF Emplace
<1> HIDE DEF At, f, K
<1>9. \A k \in {ps[i].key} \cup K :
        ps[Min(At(i, k))].value = IF k \in {ps[i].key} THEN f[k] ELSE Params(ps, i + 1)[k]
  BY <1>3, <1>4, <1>5, <1>6
<1> QED
  BY <1>7, <1>8, <1>9 DEF f

-----------------------------------------------------------------------------
\* What a query holds from a position to its end.
Ends(q, p, w) == Len(q) = (p - 1) + Len(w) /\ \A k \in 1..Len(w) : q[(p - 1) + k] = w[k]

\* A part of a query is a text that the query holds there and "&" or the end follows.
LEMMA PartIs ==
  ASSUME NEW q \in Seq(Chars), NEW p \in 1..(Len(q) + 1), NEW w \in Seq(Chars),
         Find(q, "&", p) = p + Len(w), p + Len(w) <= Len(q) + 1,
         \A k \in 1..Len(w) : q[(p - 1) + k] = w[k]
  PROVE  Part(q, p) = w
<1> DEFINE v == SubSeq(q, p, (p + Len(w)) - 1)
<1>1. Len(w) \in Nat /\ Len(q) \in Nat /\ p \in Nat /\ p >= 1
  OBVIOUS
<1>2. v \in Seq(Chars) /\ Len(v) = Len(w)
  BY <1>1
<1>3. \A k \in 1..Len(w) : v[k] = q[(p - 1) + k]
  BY <1>1
<1> HIDE DEF v
<1>4. v = [k \in 1..Len(v) |-> v[k]] /\ w = [k \in 1..Len(w) |-> w[k]]
  BY <1>2
<1>5. [k \in 1..Len(v) |-> v[k]] = [k \in 1..Len(w) |-> w[k]]
  <2>1. \A k \in 1..Len(w) : v[k] = w[k]
    BY <1>3
  <2> QED
    BY <1>2, <2>1
<1>6. v = w
  BY <1>4, <1>5
<1> QED
  BY <1>6 DEF Part, v

\* The last part of a query.
LEMMA LastPart ==
  ASSUME NEW q \in Seq(Chars), NEW p \in 1..(Len(q) + 1), NEW w \in Seq(Chars),
         w # <<>>, Free("&", w), Ends(q, p, w)
  PROVE  p <= Len(q) /\ Find(q, "&", p) = Len(q) + 1 /\ Part(q, p) = w
<1>1. /\ Len(w) \in Nat /\ Len(w) # 0 /\ Len(q) \in Nat /\ p \in Nat
      /\ Len(q) + 1 = p + Len(w)
  BY DEF Ends
<1>2. ASSUME NEW j \in p..((Len(q) + 1) - 1) PROVE q[j] # "&"
  <2>1. (j - p) + 1 \in 1..Len(w) /\ (p - 1) + ((j - p) + 1) = j
    BY <1>1
  <2> QED
    BY <2>1 DEF Ends, Free
<1>3. Len(q) + 1 \in p..(Len(q) + 1) /\ ~(Len(q) + 1 <= Len(q))
  BY <1>1
<1>4. Find(q, "&", p) = Len(q) + 1
  BY <1>2, <1>3, FindIsOnly
<1>5. Part(q, p) = w
  BY <1>1, <1>4, PartIs DEF Ends
<1> QED
  BY <1>1, <1>4, <1>5

\* A part with another one after it, and where that one begins.
LEMMA NextPart ==
  ASSUME NEW q \in Seq(Chars), NEW p \in 1..(Len(q) + 1), NEW w \in Seq(Chars),
         NEW v \in Seq(Chars), Free("&", w), Ends(q, p, w \o (<<"&">> \o v))
  PROVE  /\ p <= Len(q) /\ Find(q, "&", p) = p + Len(w) /\ p + Len(w) <= Len(q)
         /\ Part(q, p) = w
         /\ Ends(q, (p + Len(w)) + 1, v)
<1> DEFINE u == w \o (<<"&">> \o v)
<1>0. "&" \in Chars
  BY RoutesAssumption
<1>1. /\ Len(u) = Len(w) + 1 + Len(v)
      /\ \A k \in 1..Len(w) : u[k] = w[k]
      /\ u[Len(w) + 1] = "&"
      /\ \A k \in 1..Len(v) : u[Len(w) + 1 + k] = v[k]
  BY <1>0, Joined
<1>2. Len(q) = (p - 1) + Len(u) /\ \A k \in 1..Len(u) : q[(p - 1) + k] = u[k]
  BY DEF Ends
<1> HIDE DEF u
<1>3. Len(w) \in Nat /\ Len(v) \in Nat /\ Len(q) \in Nat /\ p \in Nat /\ p >= 1
  OBVIOUS
<1>4. \A k \in 1..Len(w) : q[(p - 1) + k] = w[k]
  BY <1>1, <1>2, <1>3
<1>5. q[p + Len(w)] = "&"
  <2>1. Len(w) + 1 \in 1..Len(u) /\ (p - 1) + (Len(w) + 1) = p + Len(w)
    BY <1>1, <1>3
  <2> QED
    BY <1>1, <1>2, <2>1
<1>6. ASSUME NEW j \in p..((p + Len(w)) - 1) PROVE q[j] # "&"
  <2>1. (j - p) + 1 \in 1..Len(w) /\ (p - 1) + ((j - p) + 1) = j
    BY <1>3
  <2> QED
    BY <1>4, <2>1 DEF Free
<1>7. p + Len(w) \in p..(Len(q) + 1) /\ p + Len(w) <= Len(q) /\ p + Len(w) <= Len(q) + 1
  BY <1>1, <1>2, <1>3
<1>8. Find(q, "&", p) = p + Len(w)
  BY <1>5, <1>6, <1>7, FindIsOnly
<1>9. Part(q, p) = w
  BY <1>4, <1>7, <1>8, PartIs
<1>10. Ends(q, (p + Len(w)) + 1, v)
  <2>1. Len(q) = (((p + Len(w)) + 1) - 1) + Len(v)
    BY <1>1, <1>2, <1>3
  <2>2. ASSUME NEW k \in 1..Len(v) PROVE q[(((p + Len(w)) + 1) - 1) + k] = v[k]
    <3>1. /\ Len(w) + 1 + k \in 1..Len(u)
          /\ (p - 1) + (Len(w) + 1 + k) = (((p + Len(w)) + 1) - 1) + k
      BY <1>1, <1>3
    <3> QED
      BY <1>1, <1>2, <3>1
  <2> QED
    BY <2>1, <2>2 DEF Ends
<1> QED
  BY <1>3, <1>7, <1>8, <1>9, <1>10

\* parse_request finds the parameters that a client has written.
LEMMA ParamsAreRead ==
  ASSUME NEW ps, PlainParams(ps), ps # <<>>
  PROVE  Written(ps) \in Seq(Chars) /\ ParamsOf(Written(ps)) = Params(ps, 1)
<1> DEFINE R == [key : Seq(Chars), value : Seq(Chars)]
           n == Len(ps)
<1>0. ps \in Seq(R) /\ n \in Nat /\ n >= 1
  BY DEF PlainParams
<1>1. ASSUME NEW i \in 1..n
      PROVE  /\ ps[i] \in R /\ KeyValue(ps[i]) \in Seq(Chars) /\ Free("&", KeyValue(ps[i]))
             /\ Parameter(KeyValue(ps[i])) = [k \in {ps[i].key} |-> ps[i].value]
  <2>1. ps[i] \in R
    <3> HIDE DEF R
    <3> QED
      BY <1>0, Element
  <2>2. Free("=", ps[i].key) /\ Free("&", ps[i].key) /\ Free("&", ps[i].value)
    BY DEF PlainParams
  <2> QED
    BY <2>1, <2>2, ParameterIsRead, ParameterIsWhole
<1>2. PICK g : (\A i \in 1..n : g[i] = Writes(g, ps, i)) /\ Written(ps) = g[1]
  BY <1>0, WrittenConforms
<1>a. g[n] = KeyValue(ps[n]) /\ n \in 1..n
  <2>1. n \in 1..n /\ g[n] = Writes(g, ps, n)
    BY <1>0, <1>2
  <2> QED
    BY <2>1 DEF Writes
<1>b. ASSUME NEW i \in 1..(n - 1)
      PROVE  i \in 1..n /\ i + 1 \in 1..n /\ g[i] = KeyValue(ps[i]) \o (<<"&">> \o g[i + 1])
  <2>1. i \in 1..n /\ i + 1 \in 1..n /\ i # n
    BY <1>0
  <2>2. g[i] = Writes(g, ps, i)
    BY <1>2, <2>1
  <2> QED
    BY <2>1, <2>2 DEF Writes
<1> HIDE DEF R
<1>3. \A i \in 1..n : g[i] \in Seq(Chars)
  <2> DEFINE S == {i \in 1..n : g[i] \in Seq(Chars)}
  <2>1. n \in S
    BY <1>1, <1>a
  <2>2. ASSUME NEW i \in 1..(n - 1), i + 1 \in S PROVE i \in S
    <3>1. "&" \in Chars
      BY RoutesAssumption
    <3>2. KeyValue(ps[i]) \in Seq(Chars) /\ g[i + 1] \in Seq(Chars)
      BY <1>1, <1>b, <2>2
    <3>3. g[i] \in Seq(Chars)
      <4>1. PICK u \in Seq(Chars), v \in Seq(Chars) : u = KeyValue(ps[i]) /\ v = g[i + 1]
        BY <3>2
      <4>2. g[i] = u \o (<<"&">> \o v)
        BY <1>b, <4>1
      <4> QED
        BY <3>1, <4>2, JoinedParts
    <3> QED
      BY <1>b, <3>3
  <2> HIDE DEF S
  <2>3. 1..n \subseteq S
    BY <1>0, <2>1, <2>2, Downward
  <2> QED
    BY <2>3 DEF S
<1> DEFINE q == Written(ps)
<1>4. q \in Seq(Chars)
  BY <1>0, <1>2, <1>3
<1>5. PICK c : (\A i \in 1..(Len(q) + 1) : c[i] = Loop(c, q, i)) /\ ParamsOf(q) = c[1]
  BY <1>4, LoopConforms
<1> HIDE DEF q, n
<1> DEFINE Read(i) == \A p \in 1..(Len(q) + 1) : Ends(q, p, g[i]) => c[p] = Params(ps, i)
           S == {i \in 1..n : Read(i)}
<1>6. n \in S
  <2>1. ASSUME NEW p \in 1..(Len(q) + 1), Ends(q, p, g[n]) PROVE c[p] = Params(ps, n)
    <3>1. g[n] = KeyValue(ps[n]) /\ KeyValue(ps[n]) # <<>>
      BY <1>a DEF PlainParams, n
    <3>0. KeyValue(ps[n]) \in Seq(Chars) /\ Free("&", KeyValue(ps[n]))
      BY <1>1, <1>a
    <3>2. p <= Len(q) /\ Find(q, "&", p) = Len(q) + 1 /\ Part(q, p) = KeyValue(ps[n])
      BY <1>4, <2>1, <3>0, <3>1, LastPart
    <3>3. c[p] = Parameter(KeyValue(ps[n]))
      BY <1>4, <1>5, <3>2 DEF Loop
    <3>4. Params(ps, n) = [k \in {ps[n].key} |-> ps[n].value]
      BY <1>0, LastParams DEF n
    <3>5. Parameter(KeyValue(ps[n])) = [k \in {ps[n].key} |-> ps[n].value]
      BY <1>1, <1>a
    <3> QED
      BY <3>3, <3>4, <3>5
  <2> QED
    BY <1>0, <2>1
<1>7. ASSUME NEW i \in 1..(n - 1), i + 1 \in S PROVE i \in S
  <2>1. ASSUME NEW p \in 1..(Len(q) + 1), Ends(q, p, g[i]) PROVE c[p] = Params(ps, i)
    <3> DEFINE w == KeyValue(ps[i])
               a == (p + Len(w)) + 1
    <3>1. g[i] = w \o (<<"&">> \o g[i + 1]) /\ i \in 1..n /\ i + 1 \in 1..n
      BY <1>b
    <3>2. w \in Seq(Chars) /\ g[i + 1] \in Seq(Chars) /\ Free("&", w)
      BY <1>1, <1>3, <3>1
    <3> HIDE DEF w
    <3>3. /\ p <= Len(q) /\ Find(q, "&", p) = p + Len(w) /\ p + Len(w) <= Len(q)
          /\ Part(q, p) = w /\ Ends(q, a, g[i + 1])
      BY <1>4, <2>1, <3>1, <3>2, NextPart
    <3>4. a \in 1..(Len(q) + 1) /\ Len(q) \in Nat /\ Len(w) \in Nat
      BY <1>4, <3>2, <3>3
    <3>5. c[a] = Params(ps, i + 1)
      BY <1>7, <3>3, <3>4
    <3>6. c[p] = Emplace(Parameter(w), c[a])
      BY <1>5, <3>3, <3>4 DEF Loop
    <3>7. Parameter(w) = [k \in {ps[i].key} |-> ps[i].value]
      BY <1>1, <3>1 DEF w
    <3>8. Params(ps, i) = Emplace([k \in {ps[i].key} |-> ps[i].value], Params(ps, i + 1))
      BY <1>0, MoreParams DEF n
    <3> QED
      BY <3>5, <3>6, <3>7, <3>8
  <2>2. Read(i) /\ i \in 1..n
    BY <1>0, <2>1
  <2> QED
    BY <2>2
<1>8. 1 \in S
  <2> HIDE DEF S
  <2> QED
    BY <1>0, <1>6, <1>7, Downward
<1>9. Ends(q, 1, g[1])
  <2>1. q = g[1]
    BY <1>2 DEF q
  <2>2. Len(q) = (1 - 1) + Len(q) /\ \A k \in 1..Len(q) : q[(1 - 1) + k] = q[k]
    BY <1>4
  <2> QED
    BY <2>1, <2>2 DEF Ends
<1>10. c[1] = Params(ps, 1)
  BY <1>4, <1>8, <1>9
<1> QED
  BY <1>4, <1>5, <1>10 DEF q

\* parse_request finds the path and the parameters of a target.
LEMMA TargetIsRead ==
  ASSUME NEW a, a.path \in Seq(Chars), Free("?", a.path), PlainParams(a.params)
  PROVE  /\ PathOf(TargetOf(a)) = a.path
         /\ ParamsOf(QueryOf(TargetOf(a))) = Params(a.params, 1)
<1> DEFINE n == Len(a.path)
<1> SUFFICES ASSUME NEW t, t = TargetOf(a)
             PROVE  PathOf(t) = a.path /\ ParamsOf(QueryOf(t)) = Params(a.params, 1)
  OBVIOUS
<1>0. n \in Nat /\ (n + 1) - 1 = n /\ (n + 1) + 1 = n + 2
  OBVIOUS
<1>1. CASE a.params = <<>>
  <2>1. t = a.path
    BY <1>1 DEF TargetOf
  <2>2. Find(t, "?", 1) = n + 1
    BY <1>0, <2>1, FindIsOnly DEF Free
  <2>3. SubSeq(t, 1, n) = a.path /\ SubSeq(t, n + 2, Len(t)) = <<>>
    BY <2>1
  <2>4. PathOf(t) = a.path /\ QueryOf(t) = <<>>
    BY <1>0, <2>2, <2>3 DEF PathOf, QueryOf
  <2>5. ParamsOf(<<>>) = <<>>
    <3>1. <<>> \in Seq(Chars) /\ Len(<<>>) = 0 /\ 1 \in 1..(Len(<<>>) + 1)
      OBVIOUS
    <3>2. PICK c : (\A i \in 1..(Len(<<>>) + 1) : c[i] = Loop(c, <<>>, i)) /\ ParamsOf(<<>>) = c[1]
      BY <3>1, LoopConforms
    <3>3. c[1] = Loop(c, <<>>, 1)
      BY <3>1, <3>2
    <3> QED
      BY <3>1, <3>2, <3>3 DEF Loop
  <2>6. Params(<<>>, 1) = <<>>
    BY DEF Params
  <2> QED
    BY <1>1, <2>4, <2>5, <2>6
<1>2. CASE a.params # <<>>
  <2> DEFINE w == Written(a.params)
  <2>0. "?" \in Chars
    BY RoutesAssumption
  <2>1. w \in Seq(Chars) /\ ParamsOf(w) = Params(a.params, 1)
    BY <1>2, ParamsAreRead
  <2>2. t = a.path \o (<<"?">> \o w)
    BY <1>2 DEF TargetOf
  <2> HIDE DEF w
  <2>3. /\ t \in Seq(Chars) /\ Len(t) = n + 1 + Len(w)
        /\ \A k \in 1..n : t[k] = a.path[k]
        /\ t[n + 1] = "?"
        /\ SubSeq(t, 1, n) = a.path
        /\ SubSeq(t, n + 2, Len(t)) = w
    <3>1. PICK u \in Seq(Chars), v \in Seq(Chars) : u = a.path /\ v = w
      BY <2>1
    <3>2. t = u \o (<<"?">> \o v)
      BY <2>2, <3>1
    <3>3. /\ t \in Seq(Chars) /\ Len(t) = Len(u) + 1 + Len(v)
          /\ \A k \in 1..Len(u) : t[k] = u[k]
          /\ t[Len(u) + 1] = "?"
          /\ SubSeq(t, 1, Len(u)) = u
          /\ SubSeq(t, Len(u) + 2, Len(t)) = v
      BY <2>0, <3>2, JoinedParts
    <3> QED
      BY <3>1, <3>3
  <2>4. \A k \in 1..((n + 1) - 1) : t[k] # "?"
    BY <1>0, <2>3 DEF Free
  <2>5. n + 1 \in 1..(Len(t) + 1) /\ 1 \in 1..(Len(t) + 1) /\ (n + 1 <= Len(t) => t[n + 1] = "?")
    BY <1>0, <2>1, <2>3
  <2>6. Find(t, "?", 1) = n + 1
    <3> HIDE DEF n
    <3>1. t \in Seq(Chars) /\ n + 1 \in 1..(Len(t) + 1)
      BY <2>3, <2>5
    <3> QED
      BY <2>4, <2>5, <3>1, FindIsOnly
  <2> QED
    BY <1>0, <2>1, <2>3, <2>6 DEF PathOf, QueryOf
<1> QED
  BY <1>1, <1>2

\* A handler finds the path and the parameters that its client wrote, when no client
\* writes a character that ends a name or a value within it.
THEOREM ParamsAreAsAsked == ASSUME PlainTargets PROVE Spec => []ParamsAsAsked
<1>1. Init => ParamsAsAsked
  <2> SUFFICES ASSUME Init PROVE ParamsAsAsked
    OBVIOUS
  <2>1. ctx.path = <<>> /\ ctx.params = <<>> /\ asked.path = <<>> /\ asked.params = <<>>
    BY DEF Init, NewContext, Nothing
  <2> QED
    BY <2>1 DEF ParamsAsAsked
<1>2. ParamsAsAsked /\ [Next]_vars => ParamsAsAsked'
  <2> SUFFICES ASSUME ParamsAsAsked, [Next]_vars PROVE ParamsAsAsked'
    OBVIOUS
  <2>1. CASE UNCHANGED <<ctx, asked>>
    BY <2>1 DEF ParamsAsAsked
  <2>2. ASSUME NEW a \in Targets, HandleRequest(a) PROVE ParamsAsAsked'
    <3>1. /\ PathOf(TargetOf(a)) = a.path
          /\ ParamsOf(QueryOf(TargetOf(a))) = Params(a.params, 1)
      BY TargetIsRead DEF PlainTargets
    <3>2. asked' = a /\ ctx'.path = a.path /\ ctx'.params = Params(a.params, 1)
      BY <2>2, <3>1 DEF HandleRequest
    <3> QED
      BY <3>2 DEF ParamsAsAsked, Params
  <2> QED
    BY <2>1, <2>2 DEF Next, Register, vars
<1> QED
  BY <1>1, <1>2, PTL DEF Spec
=============================================================================
