------------------------------ MODULE MCRoutes ------------------------------
(* A small instance of Routes: "/a" is a prefix of "/ab" and "/" of both; the  *)
(* queries repeat keys and hold empty keys and values, "=" and "?".           *)
EXTENDS Routes

CONSTANTS h1, h2

MCChars == {"/", "a", "b", "k", "v", "x", "?", "&", "="}
Root == <<"/">>
A == <<"/", "a">>
AB == <<"/", "a", "b">>

MCPaths == {Root, A, AB}
MCResponseOf == (h1 :> "string") @@ (h2 :> "file")

Pair(k, v) == [key |-> k, value |-> v]
MCPairs == {Pair(<<"k">>, <<>>), Pair(<<"k">>, <<"v">>), Pair(<<"k">>, <<"=", "?">>),
            Pair(<<"a", "b">>, <<"v">>)}
MCParams == {<<>>} \cup {<<p>> : p \in MCPairs} \cup {<<p, q>> : p \in MCPairs, q \in MCPairs}

MCTargets ==
  {[path |-> AB, params |-> ps] : ps \in MCParams}
    \cup {[path |-> p, params |-> <<>>] : p \in {Root, A, <<"x">>}}
    \cup {[path |-> <<>>, params |-> <<Pair(<<>>, <<"v">>), Pair(<<"k">>, <<>>)>>]}

\* The theorem ParamsAreAsAsked speaks of targets like these.
ASSUME TargetsArePlain == PlainTargets
=============================================================================
