----------------------------- MODULE MCSession -----------------------------
(* Small instances of Session for TLC: the requests a peer may choose from.  *)
(* With LargeBody = 1 and BodyLimit = 2, a plain body of one unit is small,   *)
(* one of two units is large (read synchronously), one of three is refused.  *)
EXTENDS SessionInvariant

Get       == [post |-> FALSE, units |-> 0, size |-> 0,
              chunked |-> FALSE, expect |-> FALSE, keep |-> TRUE]
GetClose  == [Get EXCEPT !.keep = FALSE]
EmptyPost == [Get EXCEPT !.post = TRUE]
Post(n)   == [Get EXCEPT !.post = TRUE, !.units = n, !.size = n]
Expect(n) == [Post(n) EXCEPT !.expect = TRUE]
Chunked(n) == [Post(n) EXCEPT !.chunked = TRUE, !.size = n - 1]
Patch     == [Post(1) EXCEPT !.post = FALSE]

MCAll      == {Get, GetClose, EmptyPost, Post(1), Post(2), Post(3), Expect(2), Chunked(1), Chunked(2)}
MCBodies   == {Get, GetClose, EmptyPost, Post(2), Expect(1)}
MCStray    == {Get, Post(1), Patch}
MCGet      == {Get, GetClose}
=============================================================================
