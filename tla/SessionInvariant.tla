-------------------------- MODULE SessionInvariant --------------------------
(***************************************************************************)
(* Inductive invariants of a session, and the abstract specification (module *)
(* Exchange) that it implements.                                             *)
(*                                                                         *)
(* TypeInv and BodyInv hold whatever the peer and the handlers do. IInv needs *)
(* an orderly environment: a request then goes through three stages. It waits *)
(* in the stream (Unread), the session works on it (Working), and it is      *)
(* answered or left to a task, with the session back at the header and       *)
(* everything read (AllRead). Once the stream is not open no answer can be   *)
(* delivered, so most parts of IInv only speak of an open stream.            *)
(***************************************************************************)
EXTENDS Session

\* The session has read the header of cur, and is about to have its body read.
Reading == pc \in {"continue", "buffered", "body"}

\* It has read the body too, and handles the request.
HandlingPcs == {"dispatch", "handler", "returned"} \cup ResponseWrites

-----------------------------------------------------------------------------
\* What indexing sent by cur and by the units of out needs.
IndexInv ==
  /\ toSend > 0 => Len(sent) > 0
  /\ \A i \in 1..Len(out) : out[i].part # "frag" => out[i].req <= Len(sent)
  /\ pc \notin {"header", "error", "close", "done"} => cur > 0
  /\ pc = "error" /\ stream = "open" => cur > 0
  /\ Reading \/ pc \in HandlingPcs => cur <= Len(sent)
  /\ Reading => got <= sent[cur].units

TypeInv == TypeOK /\ IndexInv

\* The peer follows a header with the whole body before the next header.
BodyFollows(i) ==
  LET n == sent[out[i].req].units
  IN  /\ \A k \in (i + 1)..(i + n) :
           k <= Len(out) => out[k] = [req |-> out[i].req, part |-> "body"]
      /\ i + n > Len(out) => out[i].req = Len(sent) /\ i + n = Len(out) + toSend

WireInv == \A i \in 1..Len(out) : out[i].part = "head" => BodyFollows(i)

\* Of a body the session reads, what is parsed so far starts at cur's header.
PosInv ==
  /\ pc = "header" => used = rd
  /\ pc \in {"continue", "buffered"} => got = 0
  /\ Reading => sent[cur].post
  /\ pc \in HandlingPcs /\ sent[cur].post => got = sent[cur].units
  /\ Reading \/ (pc \in HandlingPcs /\ sent[cur].post) =>
       got < used /\ out[used - got] = [req |-> cur, part |-> "head"]

\* What holds of every session, whatever its peer and its handlers do: the body of
\* a request is what the parser has taken since its header.
BodyInv == TypeInv /\ WireInv /\ PosInv

-----------------------------------------------------------------------------
\* A cut header counts as a request: it is answered with a 500.
Cut == Len(out) > 0 /\ out[Len(out)].part = "frag"
Asked == Len(sent) + (IF Cut THEN 1 ELSE 0)
Pending == Len(answers) + 1 = Asked

Active(r) == task[r] \in {"spawned"} \cup ResponseWrites

\* The session will answer cur itself, or fail to.
Handling ==
  \/ pc \in HandlingPcs \ {"returned"}
  \/ pc = "returned" /\ auto[cur]
Failing == pc \in {"error", "write500"}
Working == Reading \/ Handling \/ Failing

\* The session has done its part of the last request and is back, or on its way
\* back, at the header.
Ready == pc = "header" \/ (pc = "returned" /\ ~auto[cur])

\* Everything the peer wrote is read, and belongs to requests up to cur.
AllRead == cur = Asked /\ rd = Len(out) /\ used = rd /\ toSend = 0

\* The last request waits at the very point where the session reads next.
Unread ==
  /\ cur + 1 = Asked /\ Pending
  /\ used = rd /\ rd < Len(out)
  /\ out[rd + 1].req = Asked
  /\ out[rd + 1].part \in {"head", "frag"}
  /\ out[rd + 1].part = "head" =>
       /\ Asked = Len(sent)
       /\ Len(out) + toSend = rd + 1 + sent[Asked].units
  /\ \A r \in Ids : ~Active(r)

CountInv ==
  /\ AnswersInOrder
  /\ Len(answers) <= Asked /\ Asked <= Len(answers) + 1 /\ Asked <= MaxRequests
  /\ Cut => peer # "open" /\ toSend = 0

TaskInv ==
  \A r \in Ids : Active(r) =>
    /\ r = cur /\ ~auto[r]
    /\ pc \in {"returned", "header", "error", "close", "done"}
    /\ pc = "error" => stream # "open"
    /\ stream = "open" => r = Asked /\ Pending

WorkInv ==
  stream = "open" /\ Working => cur = Asked /\ Pending

FrameInv ==
  stream = "open" =>
    /\ Reading => Len(out) + toSend + got = used + sent[cur].units
    /\ Handling => AllRead
    /\ Ready => AllRead \/ Unread

\* What holds of a session in an orderly environment: every request is in one of
\* the three stages, and either the session or one task owes the next answer.
IInv == CountInv /\ TaskInv /\ WorkInv /\ FrameInv

-----------------------------------------------------------------------------
(* A peer that sends ahead, and handlers that answer on the spot.             *)

\* Behind a header and its body stand only later requests, and what is still to
\* be sent belongs to the last one.
OnlyLaterFollow(i) ==
  LET n == sent[out[i].req].units
  IN  /\ \A k \in 1..Len(out) : k > i + n => out[k].req > out[i].req
      /\ toSend > 0 /\ out[i].req = Len(sent) => i + n = Len(out) + toSend

OrderInv == \A i \in 1..Len(out) : out[i].part = "head" => OnlyLaterFollow(i)

\* The session has read all of cur, or nothing yet.
Settled == pc = "header" \/ pc \in HandlingPcs

\* What is behind the position then belongs to later requests, whatever is thrown
\* away of it.
LaterInv ==
  Settled =>
    /\ cur <= Len(sent) /\ (toSend > 0 => cur < Len(sent))
    /\ \A k \in 1..Len(out) : k > used => out[k].req > cur

\* Nothing is answered beyond cur, nor cur itself while the session works on it: but
\* for the response of a handler that then threw, which a 500 may follow.
PastInv ==
  /\ \A k \in 1..Len(answers) : answers[k] <= cur
  /\ stream = "open" /\ Working =>
       \A k \in 1..Len(answers) :
         answers[k] < cur \/ (Failing /\ k = Len(answers) /\ "inlineThrow" \in Behaviours)

\* While the peer may send more, all that was written, read and answered belongs to
\* requests it has sent: a further one is none of them.
KnownInv ==
  peer = "open" =>
    /\ cur <= Len(sent)
    /\ \A k \in 1..Len(out) : out[k].req <= Len(sent)
    /\ \A k \in 1..Len(answers) : answers[k] <= Len(sent)

\* While the session may still answer, no answer so far closes the connection.
MayAnswer == stream = "open" /\ pc \notin {"close", "done"}

KeepInv ==
  /\ CloseHonoured
  /\ MayAnswer => \A i \in 1..Len(answers) : answers[i] <= Len(sent) => sent[answers[i]].keep

\* What holds of handlers that answer on the spot, whatever the peer sends.
NoTask == \A r \in Ids : task[r] = "none"
SpotInv == NoTask /\ KnownInv /\ KeepInv

AheadInv == SpotInv /\ OrderInv /\ LaterInv /\ PastInv /\ AnswersIncrease

-----------------------------------------------------------------------------
\* The promise of module Exchange, kept by the session: what it calls asked is
\* what the peer sent (a cut header included), and open is the tcp_stream's state.
E == INSTANCE Exchange WITH asked <- Asked, open <- (stream = "open")

\* The session implements Exchange: run_session and the responses it or its tasks
\* write keep to one request, one answer at a time.
ExchangeSpec == E!Spec
=============================================================================
