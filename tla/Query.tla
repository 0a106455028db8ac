------------------------------- MODULE Query -------------------------------
(***************************************************************************)
(* util::parse_request: the path and the parameters of a request's target.   *)
(* A target is a sequence of characters of which "?", "&" and "=" matter;    *)
(* nothing is decoded. Its result (FALSE for an empty target, whose path is   *)
(* empty then) is ignored by handle_request.                                *)
(***************************************************************************)
EXTENDS Naturals, Sequences, FiniteSetsExt

\* string_view::find: the first c of s from position i on, Len(s) + 1 for npos.
Find(s, c, i) ==
  LET P == {k \in i..Len(s) : s[k] = c} IN IF P = {} THEN Len(s) + 1 ELSE Min(P)

PathOf(target) == SubSeq(target, 1, Find(target, "?", 1) - 1)

\* What follows the first "?", or nothing.
QueryOf(target) == SubSeq(target, Find(target, "?", 1) + 1, Len(target))

-----------------------------------------------------------------------------
(* Plausible slips: mutated forms of definitions below, no part of the model. *)

LastEqual(p) ==
  LET P == {k \in 1..Len(p) : p[k] = "="} IN IF P = {} THEN Len(p) + 1 ELSE Max(P)
SplitAtLast(p) ==
  [k \in {SubSeq(p, 1, LastEqual(p) - 1)} |-> SubSeq(p, LastEqual(p) + 1, Len(p))]
LastWins(first, rest) ==
  [k \in DOMAIN first \cup DOMAIN rest |-> IF k \in DOMAIN rest THEN rest[k] ELSE first[k]]

-----------------------------------------------------------------------------
\* One parameter: what is before the first "=" and what follows it. Without any,
\* all of it is the key and the value is empty.
Parameter(p) ==
  LET e == Find(p, "=", 1) IN [k \in {SubSeq(p, 1, e - 1)} |-> SubSeq(p, e + 1, Len(p))]

\* params.emplace keeps the value a key has already: the first one.
Emplace(first, rest) ==
  [k \in DOMAIN first \cup DOMAIN rest |-> IF k \in DOMAIN first THEN first[k] ELSE rest[k]]

\* The loop over the query, from each position: it takes what comes before the next
\* "&" and ends when nothing follows that. An empty part is an empty key.
ParamsOf(query) ==
  LET collect[i \in 1..(Len(query) + 1)] ==
        IF i > Len(query) THEN <<>>
        ELSE LET amp == Find(query, "&", i)
                 one == Parameter(SubSeq(query, i, amp - 1))
             IN  IF amp > Len(query) THEN one ELSE Emplace(one, collect[amp + 1])
  IN  collect[1]
=============================================================================
