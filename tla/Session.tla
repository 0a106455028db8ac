------------------------------- MODULE Session -------------------------------
(***************************************************************************)
(* One connection of the server: the coroutine request_session::run_session, *)
(* the request_context it makes for every request, the responses that       *)
(* request_context::response writes, the tasks a handler leaves behind to   *)
(* respond later (set_manual_response and co_spawn, as example.cpp's Hello1 *)
(* does) and the peer at the other end of the TCP stream.                   *)
(*                                                                         *)
(* The io_context is run by several threads and nothing is put on a strand, *)
(* so a deferred task and the session may be interleaved at any point: the  *)
(* code between two suspension points of the session is split into actions. *)
(***************************************************************************)
EXTENDS Naturals, Sequences

CONSTANTS
  Requests,       \* the requests a peer may send (records, see RequestType)
  MaxRequests,    \* bound: how many requests the peer sends on the connection
  LargeBody,      \* LARGE_REQUEST_BODY_SIZE, in body units
  BodyLimit,      \* max_request_body_size, in body units
  Behaviours,     \* what a registered handler may do: a subset of HandlerKinds
  ResponseTypes,  \* the kinds of handler registered: "string" and/or "file"
  Pipelining      \* may the peer send a request before the last is answered?

(* A request: post says the method is POST or PUT, units is the number of    *)
(* pieces its body takes on the wire (for a chunked body, the structured     *)
(* elements of the chunked coding), size the body's length once decoded.     *)
RequestType ==
  [post : BOOLEAN, units : Nat, size : Nat,
   chunked : BOOLEAN, expect : BOOLEAN, keep : BOOLEAN]

HandlerKinds == {"auto", "inline", "inlineThrow", "defer", "throw", "deferThrow"}

ASSUME SessionAssumption ==
  /\ Requests \subseteq RequestType
  /\ \A q \in Requests : ~q.chunked => q.size = q.units
  /\ \A q \in Requests : q.chunked => q.units > 0 /\ q.size < q.units
  /\ MaxRequests \in Nat
  /\ LargeBody \in Nat
  /\ BodyLimit \in Nat
  /\ Behaviours \subseteq HandlerKinds
  /\ ResponseTypes \subseteq {"string", "file"}
  /\ Pipelining \in BOOLEAN

VARIABLES
  \* the peer
  sent,       \* the requests whose header the peer has sent, in order
  out,        \* the units it has written to the stream, in order
  toSend,     \* body units of its last request it has still to write
  peer,       \* "open", "stalled" (neither reads nor writes), "fin", "reset"
  \* run_session's frame
  pc,         \* where the session coroutine is
  rd,         \* units of out the session has read from the socket
  used,       \* units of out parsed or thrown away; the buffer is used+1..rd
  cur,        \* the request the session works on (0 before the first)
  got,        \* body units of cur the parser has taken
  stream,     \* the beast::tcp_stream: "open", "closed" or "destroyed"
  expired,    \* has session_timeout passed?
  \* the request_context of each request, and its deferred task
  auto,       \* auto_response
  resType,    \* res_type and the response object it goes with
  task,       \* the task the handler spawned for this request
  \* what the peer got back, and what went wrong
  continued,  \* requests answered with 100 Continue
  answers,    \* the requests answered (by a handler or a 500), in order
  fault       \* undefined behaviour met so far

peerVars == <<sent, out, toSend, peer>>
readVars == <<rd, used, cur, got>>
ctxVars  == <<auto, resType, task>>
vars == <<peerVars, pc, readVars, stream, expired, ctxVars,
          continued, answers, fault>>

Ids == 1..MaxRequests
Unit == [req : Ids, part : {"head", "body", "frag"}]

SyncWrite  == "writeSync"
AsyncWrite == "writeAsync"
ResponseWrites == {SyncWrite, AsyncWrite}
PcStates == {"header", "continue", "buffered", "body", "dispatch", "handler",
             "returned", "error", "write500", "close", "done"} \cup ResponseWrites
TaskStates == {"none", "spawned", "closing", "ended"} \cup ResponseWrites

(* How a write ends: delivered, refused because the peer reset the connection *)
(* (ECONNRESET, or EPIPE for a later write), because another coroutine closed *)
(* the socket meanwhile (operation_aborted) or before (EBADF), or by timeout. *)
Results == {"ok", "reset", "pipe", "aborted", "badfd", "timeout"}

Min2(a, b) == IF a < b THEN a ELSE b

-----------------------------------------------------------------------------
(* Plausible slips: the mutated forms of definitions below, which the        *)
(* properties must detect. They are no part of the specification.            *)

PutPastBuffer(q, taken, avail) == avail + 1
PutOnePiece(q, taken, avail) == IF avail > 0 /\ taken < q.units THEN 1 ELSE 0
ReadsBodyIfExpected(q) == q.post /\ q.expect
BodyDoneEarly(q, n) == n + 1 >= q.units
KeepOpenAlways(q) == TRUE
ManualFlagIgnored(b) == TRUE
NeverContinues(q) == FALSE
EndOfStreamIgnored == stream = "closed"
NoExpiry == FALSE

-----------------------------------------------------------------------------
(* Helpers of the session.                                                  *)

\* content_length().value_or(0): a chunked request has none.
ContentLength(q) == IF q.chunked THEN 0 ELSE q.size

\* The length of body() after the parser took n units of q.
BodySize(q, n) == IF q.chunked THEN q.size ELSE n

\* The parser is created with eager off (async_read_header turns it off): one
\* put() takes all it can of a plain body, one element of a chunked one.
Put(q, taken, avail) ==
  LET left == q.units - taken
  IN  IF q.chunked THEN Min2(1, Min2(left, avail)) ELSE Min2(left, avail)

IsLarge(q) == ContentLength(q) > LargeBody

\* The method test around the whole body-reading code.
ReadsBody(q) == q.post

\* Does the header ask for 100 Continue?
WantsContinue(q) == q.expect

\* parser.is_done()
BodyDone(q, n) == n = q.units

\* response_sender::keep_open of a response prepared for q.
KeepOpen(q) == q.keep

\* What response_sender::write returns.
WriteSucceeds(res) == res \in {"ok", "reset", "aborted"}

\* auto_response after the handler ran: set_manual_response clears it.
AutoAfter(b) == b \in {"auto", "throw"}

\* The handler awaits manual_response() itself.
Inline(b) == b \in {"inline", "inlineThrow"}

\* A read finds nothing more: end of stream, connection reset, or the socket was
\* closed by a response.
AtEnd ==
  \/ stream = "closed"
  \/ peer = "reset"
  \/ peer = "fin" /\ rd = Len(out)

\* An asynchronous operation on the stream is subject to its expiry.
TimesOut == expired /\ stream = "open"

\* What a write w that is being waited for can end with.
WriteResults(w) ==
  IF stream = "open"
    THEN (IF peer = "reset" THEN {"reset", "pipe"} ELSE {"ok"})
           \cup (IF w # SyncWrite /\ expired THEN {"timeout"} ELSE {})
    ELSE IF stream = "closed"
    THEN {"badfd"} \cup (IF w # SyncWrite THEN {"aborted"} ELSE {})
    ELSE {"aborted"}

\* The stream after response() got res from writing the answer to q.
StreamAfter(q, res) ==
  IF stream = "open" /\ (res = "timeout" \/ ~WriteSucceeds(res) \/ ~KeepOpen(q))
    THEN "closed" ELSE stream

Answered(r, res) == IF res = "ok" THEN Append(answers, r) ELSE answers

-----------------------------------------------------------------------------
Init ==
  /\ sent = <<>> /\ out = <<>> /\ toSend = 0 /\ peer = "open"
  /\ pc = "header" /\ rd = 0 /\ used = 0 /\ cur = 0 /\ got = 0
  /\ stream = "open" /\ expired = FALSE
  /\ auto = [r \in Ids |-> TRUE]
  /\ resType = [r \in Ids |-> "none"]
  /\ task = [r \in Ids |-> "none"]
  /\ continued = {} /\ answers = <<>> /\ fault = "none"

-----------------------------------------------------------------------------
(* The peer: an HTTP client on the other end of the connection.             *)

MaySend ==
  /\ peer = "open" /\ toSend = 0 /\ Len(sent) < MaxRequests
  /\ Pipelining \/ Len(answers) = Len(sent)

SendHead(q) ==
  /\ MaySend
  /\ sent' = Append(sent, q)
  /\ out' = Append(out, [req |-> Len(sent) + 1, part |-> "head"])
  /\ toSend' = q.units
  /\ UNCHANGED <<peer, pc, readVars, stream, expired, ctxVars, continued, answers, fault>>

\* A peer that asked for 100 Continue holds the body back until it gets one.
SendBody ==
  /\ peer = "open" /\ toSend > 0
  /\ sent[Len(sent)].expect => Len(sent) \in continued
  /\ out' = Append(out, [req |-> Len(sent), part |-> "body"])
  /\ toSend' = toSend - 1
  /\ UNCHANGED <<sent, peer, pc, readVars, stream, expired, ctxVars, continued, answers, fault>>

\* The peer sends a part of a header and closes.
CutHead ==
  /\ MaySend
  /\ out' = Append(out, [req |-> Len(sent) + 1, part |-> "frag"])
  /\ peer' = "fin"
  /\ UNCHANGED <<sent, toSend, pc, readVars, stream, expired, ctxVars, continued, answers, fault>>

\* The peer stops (its network is gone, or it is just slow for ever), closes
\* its side, or resets the connection.
PeerTurns(to) ==
  /\ \/ to \in {"stalled", "fin"} /\ peer = "open"
     \/ to = "reset" /\ peer # "reset"
  /\ peer' = to
  /\ UNCHANGED <<sent, out, toSend, pc, readVars, stream, expired, ctxVars, continued, answers, fault>>

\* session_timeout seconds have passed since run_session started.
Expire ==
  /\ ~expired
  /\ expired' = TRUE
  /\ UNCHANGED <<peerVars, pc, readVars, stream, ctxVars, continued, answers, fault>>

-----------------------------------------------------------------------------
(* run_session: reading a request.                                          *)

\* async_read_header returns with a whole header: it leaves what else the socket
\* gave in the buffer. What is no header, or cut short, or announces too long a
\* body, is an exception. A body unit can only stand here if it was not read.
ReadHeader ==
  /\ pc = "header" /\ stream = "open" /\ peer # "reset" /\ rd < Len(out)
  /\ \E n \in (rd + 1)..Len(out) : rd' = n
  /\ used' = used + 1
  /\ cur' = out[rd + 1].req
  /\ got' = 0
  /\ pc' = IF out[rd + 1].part # "head" THEN "error"
           ELSE LET q == sent[out[rd + 1].req]
                IN  IF ContentLength(q) > BodyLimit THEN "error"
                    ELSE IF ~ReadsBody(q) THEN "dispatch"
                    ELSE IF WantsContinue(q) THEN "continue" ELSE "buffered"
  /\ UNCHANGED <<peerVars, stream, expired, ctxVars, continued, answers, fault>>

\* No request follows: seen by is_open() or as an error that ends the loop.
NoHeader ==
  /\ pc = "header" /\ AtEnd
  /\ pc' = "close"
  /\ UNCHANGED <<peerVars, readVars, stream, expired, ctxVars, continued, answers, fault>>

\* The expiry closes the socket under the pending read; the exception is logged
\* and send_500 finds the socket closed.
ReadTimesOut ==
  /\ \/ pc = "header"
     \/ pc = "body" /\ ~BodyDone(sent[cur], got) /\ ~IsLarge(sent[cur])
  /\ TimesOut
  /\ stream' = "closed"
  /\ pc' = "error"
  /\ UNCHANGED <<peerVars, readVars, expired, ctxVars, continued, answers, fault>>

\* The 100 Continue is written asynchronously. A failed write is an exception.
SendContinue(res) ==
  /\ pc = "continue" /\ res \in WriteResults(AsyncWrite)
  /\ continued' = IF res = "ok" THEN continued \cup {cur} ELSE continued
  /\ stream' = IF res = "timeout" THEN "closed" ELSE stream
  /\ \/ res = "ok" /\ pc' = "buffered"
     \/ res \in {"reset", "aborted"} /\ pc' = "close"
     \/ res \notin {"ok", "reset", "aborted"} /\ pc' = "error"
  /\ UNCHANGED <<peerVars, readVars, expired, ctxVars, answers, fault>>

\* The body bytes that came with the header are put to the parser. A parser that
\* is done refuses them (stale_parser), which is thrown after the empty loop.
PutBuffered ==
  /\ pc = "buffered"
  /\ LET n == IF used < rd THEN Put(sent[cur], 0, rd - used) ELSE 0
     IN  /\ got' = n
         /\ used' = used + n
         /\ pc' = IF used < rd /\ BodyDone(sent[cur], 0) THEN "error" ELSE "body"
  /\ UNCHANGED <<peerVars, rd, cur, stream, expired, ctxVars, continued, answers, fault>>

\* One turn of the loop that reads the rest: wait for more bytes (synchronously
\* when the body is large), then put the whole buffer.
ReadMoreBody ==
  /\ pc = "body" /\ ~BodyDone(sent[cur], got)
  /\ stream = "open" /\ peer # "reset" /\ rd < Len(out)
  /\ \E n \in (rd + 1)..Len(out) :
       LET taken == Put(sent[cur], got, n - used)
       IN  /\ rd' = n
           /\ used' = used + taken
           /\ got' = got + taken
  /\ UNCHANGED <<peerVars, pc, cur, stream, expired, ctxVars, continued, answers, fault>>

\* A structured element of a chunked body arrives in parts: put() asks for more
\* (need_more), which the loop takes for a failure.
PartialChunk ==
  /\ pc = "body" /\ ~BodyDone(sent[cur], got) /\ sent[cur].chunked
  /\ stream = "open" /\ peer # "reset" /\ rd < Len(out)
  /\ pc' = "error"
  /\ UNCHANGED <<peerVars, readVars, stream, expired, ctxVars, continued, answers, fault>>

\* The peer is gone before the body is complete: the session ends quietly.
BodyCut ==
  /\ pc = "body" /\ ~BodyDone(sent[cur], got) /\ AtEnd
  /\ pc' = "close"
  /\ UNCHANGED <<peerVars, readVars, stream, expired, ctxVars, continued, answers, fault>>

\* The received size is compared with content-length; a mismatch is thrown.
BodyComplete ==
  /\ pc = "body" /\ BodyDone(sent[cur], got)
  /\ pc' = IF ContentLength(sent[cur]) # BodySize(sent[cur], got) THEN "error" ELSE "dispatch"
  /\ UNCHANGED <<peerVars, readVars, stream, expired, ctxVars, continued, answers, fault>>

-----------------------------------------------------------------------------
(* run_session: handling it.                                                *)

\* handle_request finds the handler and makes the response object of its type.
Dispatch(type) ==
  /\ pc = "dispatch"
  /\ resType' = [resType EXCEPT ![cur] = type]
  /\ pc' = "handler"
  /\ UNCHANGED <<peerVars, readVars, stream, expired, auto, task, continued, answers, fault>>

\* No route matches: a 404 in a string response, left to the automatic response.
NotFound ==
  /\ pc = "dispatch"
  /\ resType' = [resType EXCEPT ![cur] = "string"]
  /\ pc' = "returned"
  /\ UNCHANGED <<peerVars, readVars, stream, expired, auto, task, continued, answers, fault>>

\* The handler b runs. "auto" fills in the response and returns; "inline" turns
\* automatic response off and awaits manual_response itself, and so does
\* "inlineThrow", which may throw when it goes on; "defer" leaves that to a task it
\* spawns; "throw" and "deferThrow" end in a std::exception.
Handler(b, w) ==
  /\ pc = "handler"
  /\ auto' = [auto EXCEPT ![cur] = AutoAfter(b)]
  /\ task' = IF b \in {"defer", "deferThrow"} THEN [task EXCEPT ![cur] = "spawned"] ELSE task
  /\ fault' = IF Inline(b) /\ resType[cur] = "file" THEN "nullResponse" ELSE fault
  /\ \/ b \in {"auto", "defer"} /\ pc' = "returned"
     \/ Inline(b) /\ pc' = w
     \/ b \in {"throw", "deferThrow"} /\ pc' = "error"
  /\ UNCHANGED <<peerVars, readVars, stream, expired, resType, continued, answers>>

\* After the handler: nothing to write, clear the buffer and go round the loop.
NoAutoResponse ==
  /\ pc = "returned" /\ ~auto[cur]
  /\ used' = rd
  /\ pc' = "header"
  /\ UNCHANGED <<peerVars, rd, cur, got, stream, expired, ctxVars, continued, answers, fault>>

\* (The slip of an automatic response that does not look at auto_response.)
AutoResponseAlways(w) ==
  /\ pc = "returned"
  /\ pc' = w
  /\ UNCHANGED <<peerVars, readVars, stream, expired, ctxVars, continued, answers, fault>>

\* After the handler: response() starts the write.
AutoResponse(w) ==
  /\ pc = "returned" /\ auto[cur]
  /\ IF resType[cur] = "file" THEN fault' = "nullResponse" ELSE UNCHANGED fault
  /\ pc' = w
  /\ UNCHANGED <<peerVars, readVars, stream, expired, ctxVars, continued, answers>>

\* The write of the session's own response ends, and response() closes the stream
\* if it must. An automatic response was the last thing of the turn; a handler's own
\* one returns to the handler, which returns or throws. (A task may be about to close
\* the same stream meanwhile, which changes nothing here: one step will do.)
WriteDone(res) ==
  /\ pc \in ResponseWrites /\ res \in WriteResults(pc)
  /\ answers' = Answered(cur, res)
  /\ stream' = StreamAfter(sent[cur], res)
  /\ IF auto[cur] THEN used' = rd /\ pc' = "header"
     ELSE /\ used' = used
          /\ \/ pc' = "returned"
             \/ "inlineThrow" \in Behaviours /\ pc' = "error"
  /\ UNCHANGED <<peerVars, rd, cur, got, expired, ctxVars, continued, fault>>

\* An exception other than the end of the connection: send_500 if it is open.
StartError ==
  /\ pc = "error"
  /\ pc' = IF stream = "open" THEN "write500" ELSE "close"
  /\ UNCHANGED <<peerVars, readVars, stream, expired, ctxVars, continued, answers, fault>>

\* The 500 is written asynchronously, outside the try: a failure ends the
\* coroutine by an exception that detached swallows.
Write500Done(res) ==
  /\ pc = "write500" /\ res \in WriteResults(AsyncWrite)
  /\ answers' = Answered(cur, res)
  /\ stream' = IF res = "timeout" THEN "closed" ELSE stream
  /\ pc' = "close"
  /\ UNCHANGED <<peerVars, readVars, expired, ctxVars, continued, fault>>

\* response_sender::close, and the end of the coroutine: its frame, with the
\* stream the request contexts refer to, is destroyed.
Close ==
  /\ pc = "close"
  /\ pc' = "done" /\ stream' = "destroyed"
  /\ UNCHANGED <<peerVars, readVars, expired, ctxVars, continued, answers, fault>>

-----------------------------------------------------------------------------
(* A deferred task: manual_response() through the context it captured.      *)

\* response() starts; its stream is a reference into the session's frame.
TaskStart(r, w) ==
  /\ task[r] = "spawned"
  /\ fault' = IF resType[r] = "file" THEN "nullResponse"
              ELSE IF stream = "destroyed" THEN "danglingStream" ELSE fault
  /\ task' = [task EXCEPT ![r] = IF stream = "destroyed" THEN "ended" ELSE w]
  /\ UNCHANGED <<peerVars, pc, readVars, stream, expired, auto, resType, continued, answers>>

\* Its write ends. A session that ends meanwhile aborts an asynchronous write. The
\* peer has the answer, and the session may work on the next request, before a
\* response that is to be the last goes on to close the stream.
TaskDone(r, res) ==
  /\ task[r] \in ResponseWrites /\ res \in WriteResults(task[r])
  /\ task' = [task EXCEPT ![r] =
                IF WriteSucceeds(res) /\ KeepOpen(sent[r]) THEN "ended" ELSE "closing"]
  /\ answers' = Answered(r, res)
  /\ stream' = IF res = "timeout" THEN "closed" ELSE stream
  /\ fault' = IF stream = "destroyed" /\ task[r] = SyncWrite THEN "danglingStream" ELSE fault
  /\ UNCHANGED <<peerVars, pc, readVars, expired, auto, resType, continued>>

\* response() closes the stream, if it is open and still there.
TaskCloses(r) ==
  /\ task[r] = "closing"
  /\ task' = [task EXCEPT ![r] = "ended"]
  /\ stream' = IF stream = "open" THEN "closed" ELSE stream
  /\ fault' = IF stream = "destroyed" THEN "danglingStream" ELSE fault
  /\ UNCHANGED <<peerVars, pc, readVars, expired, auto, resType, continued, answers>>

-----------------------------------------------------------------------------
Peer ==
  \/ \E q \in Requests : SendHead(q)
  \/ SendBody
  \/ CutHead
  \/ \E to \in {"stalled", "fin", "reset"} : PeerTurns(to)

\* A write to a peer that has stopped reading may complete (the kernel buffers
\* it) but need not.
Completes(res) == res = "ok" => peer # "stalled"

Session ==
  \/ ReadHeader \/ NoHeader \/ ReadTimesOut
  \/ PutBuffered \/ ReadMoreBody \/ PartialChunk \/ BodyCut \/ BodyComplete
  \/ \E type \in ResponseTypes : Dispatch(type)
  \/ NotFound
  \/ \E b \in Behaviours, w \in ResponseWrites : Handler(b, w)
  \/ NoAutoResponse
  \/ \E w \in ResponseWrites : AutoResponse(w)
  \/ StartError \/ Close

SessionWrite(res) == SendContinue(res) \/ WriteDone(res) \/ Write500Done(res)

Running == fault # "nullResponse"

Next ==
  \/ Peer
  \/ Expire
  \/ Running /\ Session
  \/ Running /\ \E res \in Results : SessionWrite(res)
  \/ Running /\ \E r \in Ids, w \in ResponseWrites : TaskStart(r, w)
  \/ Running /\ \E r \in Ids, res \in Results : TaskDone(r, res)
  \/ Running /\ \E r \in Ids : TaskCloses(r)

Spec == Init /\ [][Next]_vars

\* The threads of the io_context run what is ready, handlers and their tasks go
\* on. Nothing is assumed of the peer, nor of the time that passes.
Fairness ==
  /\ WF_vars(Running /\ Session)
  /\ WF_vars(Running /\ \E res \in Results : Completes(res) /\ SessionWrite(res))
  /\ \A r \in Ids : WF_vars(Running /\ \E w \in ResponseWrites : TaskStart(r, w))
  /\ \A r \in Ids : WF_vars(Running /\ \E res \in Results : Completes(res) /\ TaskDone(r, res))
  /\ \A r \in Ids : WF_vars(Running /\ TaskCloses(r))

FairSpec == Spec /\ Fairness

-----------------------------------------------------------------------------
(* Properties.                                                              *)

\* The types, and the order of the two marks in the stream of bytes.
WireTypeOK ==
  /\ sent \in Seq(Requests) /\ Len(sent) <= MaxRequests
  /\ out \in Seq(Unit)
  /\ toSend \in Nat
  /\ peer \in {"open", "stalled", "fin", "reset"}

FrameTypeOK ==
  /\ pc \in PcStates
  /\ rd \in Nat /\ used \in Nat /\ got \in Nat
  /\ used <= rd /\ rd <= Len(out)
  /\ cur \in 0..MaxRequests
  /\ stream \in {"open", "closed", "destroyed"}
  /\ expired \in BOOLEAN

ContextTypeOK ==
  /\ auto \in [Ids -> BOOLEAN]
  /\ resType \in [Ids -> ResponseTypes \cup {"string", "none"}]
  /\ task \in [Ids -> TaskStates]

HistoryTypeOK ==
  /\ continued \in SUBSET Ids
  /\ answers \in Seq(Ids)
  /\ fault \in {"none", "nullResponse", "danglingStream"}

TypeOK == WireTypeOK /\ FrameTypeOK /\ ContextTypeOK /\ HistoryTypeOK

\* The peer and the handlers behave: one request at a time, no body the session
\* does not read, no handler that throws once it has responded or has left the
\* response to a task (the session would answer with a 500 as well).
NoStrayBody == \A q \in Requests : q.post \/ q.units = 0
Orderly == ~Pipelining /\ NoStrayBody /\ {"inlineThrow", "deferThrow"} \cap Behaviours = {}

\* Handlers leave no response to a task (they may throw, also after they responded);
\* and the peer, which may send ahead, sends no body the session does not read.
NothingDeferred == Behaviours \subseteq {"auto", "inline", "inlineThrow", "throw"}
OnTheSpot == NoStrayBody /\ NothingDeferred

\* No request is chunked.
PlainBodies == \A q \in Requests : ~q.chunked

SessionWrites == pc \in {"continue", "write500"} \cup ResponseWrites
TaskWrites(r) == task[r] \in ResponseWrites

\* The session and the tasks its handlers left behind never write to the stream
\* at the same time: nothing but the order of events keeps their bytes apart.
OneWriter ==
  /\ \A r, s \in Ids : TaskWrites(r) /\ TaskWrites(s) => r = s
  /\ \A r \in Ids : TaskWrites(r) => ~SessionWrites

\* Where no handler throws once it has responded or deferred, every request is
\* answered at most once and in the order of the requests, whoever answers it: the
\* handler, its task, the session or send_500.
AnswersInOrder == \A i \in 1..Len(answers) : answers[i] = i

\* With pipelining some requests are never answered (the buffer is cleared), but
\* what handlers answer on the spot stays in order. A request is answered twice only
\* by the 500 for a handler that threw after its response: the last answer of all,
\* of a session that has left its loop.
AnswersIncrease ==
  \A i, j \in 1..Len(answers) : i < j =>
    \/ answers[i] < answers[j]
    \/ /\ answers[i] = answers[j] /\ j = Len(answers)
       /\ "inlineThrow" \in Behaviours /\ pc \in {"close", "done"}

\* The session never looks for a header in the middle of a body: all of a
\* request is consumed before async_read_header is called again.
InFrame ==
  pc = "header" /\ stream = "open" /\ rd < Len(out) => out[rd + 1].part # "body"

\* A handler of a POST or PUT runs on the whole body and on nothing but it: the
\* bytes parsed since the header are the pieces of this very request.
WholeBody ==
  pc \in {"dispatch", "handler", "returned"} \cup ResponseWrites /\ sent[cur].post =>
    /\ got = sent[cur].units
    /\ got < used
    /\ out[used - got] = [req |-> cur, part |-> "head"]
    /\ \A i \in (used - got + 1)..used : out[i] = [req |-> cur, part |-> "body"]

\* Where responses are not left to tasks, a request that asks to close the connection
\* gets the last answer (a 500 for a header that was cut is an answer to no request).
CloseHonoured ==
  \A i \in 1..Len(answers) :
    answers[i] <= Len(sent) /\ ~sent[answers[i]].keep => i = Len(answers)

\* When the session waits for more of a body, it has put to the parser all it
\* has read.
BufferConsumed ==
  pc = "body" /\ ~BodyDone(sent[cur], got) => used = rd

\* No handler and no task follows a null pointer.
NoNullResponse == fault # "nullResponse"

\* A task that answers late never uses the stream of a session that has ended.
NoDanglingStream == fault # "danglingStream"

\* A peer that closes or resets the connection ends the session, whatever the
\* session was doing.
SessionEnds == peer \in {"fin", "reset"} ~> pc = "done"

SentWhole(r) == Len(sent) = r /\ toSend = 0 /\ ~sent[r].chunked
HoldsBodyBack(r) == Len(sent) = r /\ toSend > 0 /\ sent[r].expect /\ r \notin continued
Over(r) ==
  \/ \E i \in 1..Len(answers) : answers[i] = r
  \/ expired \/ stream # "open" \/ peer # "open"

\* A request sent as a whole is answered (but for a chunked one, of which put() may
\* leave a part in the buffer while the session waits for more bytes), and a peer that
\* holds a body back is told to continue or answered, unless the timeout, the peer or
\* an earlier answer ends the connection first.
AnsweredInTime ==
  \A r \in Ids :
    /\ SentWhole(r) ~> Over(r)
    /\ HoldsBodyBack(r) ~> r \in continued \/ Over(r)

\* A synchronous operation on the stream, which waits for the peer.
InSyncCall ==
  \/ pc = "body" /\ ~BodyDone(sent[cur], got) /\ IsLarge(sent[cur])
  \/ pc = SyncWrite /\ peer = "stalled"

\* Once it has passed, session_timeout ends every session but one that is stuck in
\* a synchronous read or write, where no timer is looked at.
TimeoutEndsSession == <>expired => <>[](pc = "done" \/ InSyncCall)
=============================================================================
