-------------------------- MODULE ClientInvariant --------------------------
(***************************************************************************)
(* What makes the invariants of the clients inductive.                       *)
(***************************************************************************)
EXTENDS ClientOwnership

\* A call that looks for a connection, or has one.
Active(c) == pc[c] \in {"connect", "send", "read"}

\* A call goes on only within its limits and with a url that parsed, and one that
\* has followed too many redirects has not tried since.
LimitInv ==
  \A c \in Calls :
    /\ Active(c) => redirects[c] <= MaxRedirects /\ retries[c] <= MaxRetries /\ Url(c) \in Keys
    /\ redirects[c] = MaxRedirects + 1 => retries[c] = 0

\* Each redirect has cost a full round of retries at most.
AttemptInv ==
  \A c \in Calls : pc[c] # "idle" =>
    attempts[c] <= redirects[c] * (MaxRetries + 1) + retries[c] + (IF Active(c) THEN 1 ELSE 0)

\* A connection that is held, or pooled, is open and leads where its holder, or its
\* key, says.
HoldInv ==
  /\ \A c \in Calls : conn[c] # NoConn <=> pc[c] \in {"send", "read"}
  /\ \A c \in Calls : conn[c] # NoConn => IsOpen(conn[c]) /\ wire[conn[c]].key = Url(c)
  /\ \A key \in Keys : \A k \in Idle(key) : IsOpen(k) /\ wire[k].key = key

\* An open connection was connected to a server.
OpenInv == \A k \in Conns : IsOpen(k) => wire[k].key \in Keys

Silence(k) == wire[k].asked = <<>> /\ wire[k].inbox = <<>>

\* What is under way on a connection is its holder's: its request, or the answer.
Pending(c) ==
  \/ wire[conn[c]].asked \in {<<>>, <<c>>} /\ wire[conn[c]].inbox = <<>>
  \/ /\ wire[conn[c]].asked = <<>>
     /\ \E r \in Responses :
          wire[conn[c]].inbox = <<[to |-> c, response |-> r, interim |-> FALSE]>>

ReadyInv ==
  /\ \A c \in Calls : (pc[c] = "send" => Silence(conn[c])) /\ (pc[c] = "read" => Pending(c))
  /\ \A key \in Keys : \A k \in Idle(key) : Silence(k)

\* A call has a result once it has returned.
ResultInv == \A c \in Calls : pc[c] # "idle" => result[c] = "none"

\* What holds whatever the servers send.
CallInv == TypeOK /\ LimitInv /\ AttemptInv /\ AttemptsBounded /\ HoldInv /\ Exclusive /\ OpenInv

\* The servers send one response to one request, no interim ones.
OneResponse == MaxUnderWay <= 1

\* What holds besides with such servers.
IInv == CallInv /\ ReadyInv /\ ResultInv /\ OwnAnswer
=============================================================================
