------------------------------- MODULE Routes -------------------------------
(***************************************************************************)
(* request_handler::register_route and request_handler_impl::handle_request: *)
(* which handler a target is given to, and what its request_context says.     *)
(* Handlers are registered before the server runs, or by a handler of a      *)
(* server with one thread: the two tables have no lock.                      *)
(***************************************************************************)
EXTENDS Query, SequencesExt

CONSTANTS
  Chars,        \* characters
  Paths,        \* paths a handler is registered for (sequences of characters)
  Handlers,     \* handlers
  ResponseOf,   \* the response a handler's type asks for: "string" or "file"
  Targets,      \* what clients ask for: records of a path and its parameters
  MaxRoutes     \* bound: how many registrations

None == "none"

ASSUME RoutesAssumption ==
  /\ {"?", "&", "="} \subseteq Chars
  /\ None \notin Handlers
  /\ ResponseOf \in [Handlers -> {"string", "file"}]
  /\ MaxRoutes \in Nat

VARIABLES
  routes,         \* routes_: the handler of a path, or None
  prefix_routes,  \* prefix_routes_: prefixes and their handlers, in order
  ctx,            \* the request_context of the last request
  asked,          \* history: what that request asked for
  called          \* history: the calls of register_route, in order

vars == <<routes, prefix_routes, ctx, asked, called>>

Route == [path : Paths, handler : Handlers, prefix : BOOLEAN]

\* A request_context as it is made.
NewContext == [path |-> <<>>, params |-> <<>>, prefix_path |-> <<>>,
               res |-> {}, res_type |-> "string", handler |-> None]
Nothing == [path |-> <<>>, params |-> <<>>]

-----------------------------------------------------------------------------
(* Plausible slips: mutated forms of definitions below, no part of the model. *)

NewestPrefix(path) ==
  {i \in 1..Len(prefix_routes) :
     /\ IsPrefix(prefix_routes[i].path, path)
     /\ \A j \in (i + 1)..Len(prefix_routes) : ~IsPrefix(prefix_routes[j].path, path)}
KeepsOldRoute(path, h) ==
  routes' = [routes EXCEPT ![path] = IF @ = None THEN h ELSE @]
AlwaysString(h) == "string"

-----------------------------------------------------------------------------
\* The target a client writes for a path and its parameters.
KeyValue(p) == IF p.value = <<>> THEN p.key ELSE p.key \o (<<"=">> \o p.value)
Written(ps) ==
  LET from[i \in 1..Len(ps)] ==
        IF i = Len(ps) THEN KeyValue(ps[i]) ELSE KeyValue(ps[i]) \o (<<"&">> \o from[i + 1])
  IN  from[1]
TargetOf(a) ==
  IF a.params = <<>> THEN a.path ELSE a.path \o (<<"?">> \o Written(a.params))

\* What a client must keep to, as nothing is encoded: no name or value holds the character
\* that ends it, and the last parameter is not written as nothing.
Free(c, s) == \A i \in 1..Len(s) : s[i] # c
PlainParams(ps) ==
  /\ ps \in Seq([key : Seq(Chars), value : Seq(Chars)])
  /\ \A i \in 1..Len(ps) : Free("=", ps[i].key) /\ Free("&", ps[i].key) /\ Free("&", ps[i].value)
  /\ ps # <<>> => KeyValue(ps[Len(ps)]) # <<>>
PlainTargets ==
  \A a \in Targets : a.path \in Seq(Chars) /\ Free("?", a.path) /\ PlainParams(a.params)

Init ==
  /\ routes = [p \in Paths |-> None]
  /\ prefix_routes = <<>>
  /\ ctx = NewContext /\ asked = Nothing /\ called = <<>>

\* routes_[path] = handler: the newest registration of a path holds.
SetRoute(path, h) == routes' = [routes EXCEPT ![path] = h]

Register(path, h, prefix) ==
  /\ Len(called) < MaxRoutes
  /\ called' = Append(called, [path |-> path, handler |-> h, prefix |-> prefix])
  /\ IF prefix
       THEN /\ prefix_routes' = Append(prefix_routes, [path |-> path, handler |-> h])
            /\ UNCHANGED routes
       ELSE SetRoute(path, h) /\ UNCHANGED prefix_routes
  /\ UNCHANGED <<ctx, asked>>

\* The exact route of a path, if it has one.
Exact(path) == IF path \in Paths THEN routes[path] ELSE None

\* Where the loop over the prefixes stops: at the first that matches.
FirstPrefix(path) ==
  {i \in 1..Len(prefix_routes) :
     /\ IsPrefix(prefix_routes[i].path, path)
     /\ \A j \in 1..(i - 1) : ~IsPrefix(prefix_routes[j].path, path)}

Matched(path) ==
  IF Exact(path) # None THEN Exact(path)
  ELSE IF FirstPrefix(path) = {} THEN None
  ELSE prefix_routes[CHOOSE i \in FirstPrefix(path) : TRUE].handler

\* res_type, with the response object of that type.
ResType(h) == ResponseOf[h]

\* handle_request until it calls the handler, on the context of a new request. No
\* route is a 404 in a string response.
HandleRequest(a) ==
  LET path == PathOf(TargetOf(a))
      h == Matched(path)
      byPrefix == h # None /\ Exact(path) = None
  IN  /\ asked' = a
      /\ ctx' = [path |-> path,
                 params |-> ParamsOf(QueryOf(TargetOf(a))),
                 prefix_path |-> IF byPrefix
                                   THEN prefix_routes[CHOOSE i \in FirstPrefix(path) : TRUE].path
                                   ELSE <<>>,
                 res |-> {IF h = None THEN "string" ELSE ResponseOf[h]},
                 res_type |-> IF h = None THEN "string" ELSE ResType(h),
                 handler |-> h]
      /\ UNCHANGED <<routes, prefix_routes, called>>

Next ==
  \/ \E path \in Paths, h \in Handlers, prefix \in BOOLEAN : Register(path, h, prefix)
  \/ \E a \in Targets : HandleRequest(a)

Spec == Init /\ [][Next]_vars

-----------------------------------------------------------------------------
(* Properties.                                                              *)

\* The tables and the context have their types; the response object a handler of
\* ctx writes is the one response() will look for (when it looks for the right one).
TypeOK ==
  /\ routes \in [Paths -> Handlers \cup {None}]
  /\ prefix_routes \in Seq([path : Paths, handler : Handlers])
  /\ called \in Seq(Route)
  /\ ctx.handler \in Handlers \cup {None}
  /\ ctx.res_type \in {"string", "file"}
  /\ asked # Nothing => ctx.res = {ctx.res_type}

\* A handler finds the parameters its client wrote, each under its key (the first,
\* if a key is repeated), whatever "=" and "?" the values contain.
ParamsAsAsked ==
  LET keys == {asked.params[i].key : i \in 1..Len(asked.params)}
      first(k) == Min({i \in 1..Len(asked.params) : asked.params[i].key = k})
  IN  /\ ctx.path = asked.path
      /\ ctx.params = [k \in keys |-> asked.params[first(k)].value]

\* The calls of register_route that count for a path: for the path itself, and for
\* a prefix of it.
ExactCalls(path) == {i \in 1..Len(called) : ~called[i].prefix /\ called[i].path = path}
PrefixCalls(path) == {i \in 1..Len(called) : called[i].prefix /\ IsPrefix(called[i].path, path)}

\* What a path is given to, told from the calls of register_route alone: the newest
\* registration of the path itself, else the oldest of a prefix of it.
Promised(path) ==
  IF ExactCalls(path) # {} THEN called[Max(ExactCalls(path))].handler
  ELSE IF PrefixCalls(path) # {} THEN called[Min(PrefixCalls(path))].handler
  ELSE None

AskedPaths == {a.path : a \in Targets}

\* A path is routed as the registrations promise.
RoutedAsPromised == \A path \in AskedPaths : Matched(path) = Promised(path)

\* A registration never takes a path away from its handler, unless it is for that
\* very path and not for a prefix.
RoutesStay ==
  [][\A path \in AskedPaths :
       Matched(path) # None /\ Matched(path)' # Matched(path) =>
         called'[Len(called')].path = path /\ ~called'[Len(called')].prefix]_vars

\* What makes RoutedAsPromised inductive: the tables hold what their calls, of which
\* there is a newest and an oldest, have put there.
ExactInv(path) ==
  IF ExactCalls(path) = {} THEN Exact(path) = None
  ELSE \E i \in ExactCalls(path) :
         (\A j \in ExactCalls(path) : j <= i) /\ Exact(path) = called[i].handler

PrefixInv(path) ==
  IF PrefixCalls(path) = {}
    THEN \A i \in 1..Len(prefix_routes) : ~IsPrefix(prefix_routes[i].path, path)
    ELSE \E m \in PrefixCalls(path), i \in FirstPrefix(path) :
           /\ \A j \in PrefixCalls(path) : m <= j
           /\ prefix_routes[i].handler = called[m].handler

RouteInv == \A path \in AskedPaths : ExactInv(path) /\ PrefixInv(path)
=============================================================================
