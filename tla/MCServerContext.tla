-------------------------- MODULE MCServerContext --------------------------
(* A small instance of ServerContext: two requests with a task each, one of   *)
(* them with a handler that makes contexts and links them.                    *)
EXTENDS ContextInvariant, TLC

CONSTANTS r1, r2, t1, n1, n2, n3, v1

MCTypeOf == v1 :> "string"
MCTaskOf == (r1 :> t1) @@ (r2 :> Null)
=============================================================================
