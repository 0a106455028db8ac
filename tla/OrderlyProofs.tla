---------------------------- MODULE OrderlyProofs ----------------------------
(***************************************************************************)
(* Proofs about a session in an orderly environment: a peer that waits for   *)
(* the answer before it sends the next request and sends bodies only where   *)
(* run_session reads them, and handlers that do not throw once they have     *)
(* responded or left the response to a task. IInv is inductive there, and    *)
(* from it follow the order of answers, the exclusion of writers, the framing *)
(* of requests and the refinement of Exchange.                               *)
(***************************************************************************)
EXTENDS SessionProofs

\* The counts survive a step of neither the peer's requests nor an answer.
LEMMA CountStays ==
  ASSUME CountInv, UNCHANGED <<sent, out, toSend, answers>>,
         peer' = peer \/ peer' # "open"
  PROVE  CountInv' /\ Asked' = Asked /\ Pending' = Pending
BY DEF CountInv, AnswersInOrder, Asked, Cut, Pending

\* The counts survive an answer, if any, to the one request that waits for it.
LEMMA CountAnswers ==
  ASSUME CountInv, WireTypeOK, HistoryTypeOK, UNCHANGED peerVars,
         NEW r \in Ids, NEW res, answers' = Answered(r, res),
         res = "ok" => r = Asked /\ Pending
  PROVE  CountInv' /\ Asked' = Asked
<1>1. Asked' = Asked /\ Cut' = Cut
  BY DEF Asked, Cut, peerVars
<1>2. CASE res = "ok"
  <2>1. answers' = Append(answers, r) /\ r = Len(answers) + 1 /\ Len(answers) \in Nat
    BY <1>2 DEF Answered, Pending, HistoryTypeOK
  <2>2. /\ Len(answers') = Len(answers) + 1 /\ answers'[Len(answers) + 1] = r
        /\ \A i \in 1..Len(answers) : answers'[i] = answers[i]
    BY <2>1 DEF HistoryTypeOK
  <2>3. AnswersInOrder'
    BY <2>1, <2>2 DEF AnswersInOrder, CountInv
  <2>4. QED
    BY <1>1, <1>2, <2>1, <2>2, <2>3 DEF CountInv, Pending, peerVars
<1>3. CASE res # "ok"
  BY <1>1, <1>3 DEF Answered, CountInv, AnswersInOrder, peerVars
<1>4. QED
  BY <1>1, <1>2, <1>3

\* A step that only moves pc and may close the stream.
LEMMA QuietStep ==
  ASSUME IInv, UNCHANGED <<sent, out, toSend, readVars, ctxVars, answers>>,
         peer' = peer \/ peer' # "open",
         stream' = "open" => stream = "open",
         \/ pc' = pc
         \/ pc' \in {"close", "done"} /\ pc \in PcStates
         \/ pc' = "error" /\ stream' # "open" /\ pc \in {"header", "body"}
         \/ pc' = "error" /\ Reading
         \/ pc' = "write500" /\ pc = "error" /\ stream = "open"
         \/ pc' \in {"buffered", "body"} /\ Reading
  PROVE  IInv'
<1> USE DEF IInv
<1>1. CountInv' /\ Asked' = Asked /\ Pending' = Pending
  BY CountStays
<1>2. UNCHANGED <<rd, used, cur, got, auto, task>> /\ \A r : Active(r)' = Active(r)
  BY DEF readVars, ctxVars, Active
<1>3. AllRead' = AllRead /\ Unread' = Unread
  BY <1>1, <1>2 DEF AllRead, Unread
<1>4. TaskInv'
  BY <1>1, <1>2 DEF TaskInv, Reading
<1>5. WorkInv'
  BY <1>1, <1>2 DEF WorkInv, Working, Reading, Handling, Failing, HandlingPcs, ResponseWrites,
     SyncWrite, AsyncWrite
<1>6. FrameInv'
  BY <1>1, <1>2, <1>3 DEF FrameInv, Ready, Reading, Handling, HandlingPcs, ResponseWrites,
     SyncWrite, AsyncWrite
<1>9. QED
  BY <1>1, <1>4, <1>5, <1>6

-----------------------------------------------------------------------------
\* At first nothing is sent and all is read.
LEMMA OrderlyInit == Init => IInv
<1> SUFFICES ASSUME Init PROVE IInv
  OBVIOUS
<1>1. ~Cut /\ Asked = 0 /\ Len(sent) = 0 /\ Len(answers) = 0
  BY DEF Init, Cut, Asked
<1>2. CountInv
  BY <1>1, SessionAssumption DEF Init, CountInv, AnswersInOrder
<1>3. \A r \in Ids : ~Active(r)
  BY DEF Init, Active, ResponseWrites, SyncWrite, AsyncWrite
<1>4. TaskInv
  BY <1>3 DEF TaskInv
<1>5. WorkInv
  BY DEF Init, WorkInv, Working, Reading, Handling, Failing, HandlingPcs, ResponseWrites,
     SyncWrite, AsyncWrite
<1>6. FrameInv
  BY <1>1 DEF Init, FrameInv, AllRead, Reading, Handling, HandlingPcs, ResponseWrites,
     SyncWrite, AsyncWrite
<1>7. QED
  BY <1>2, <1>4, <1>5, <1>6 DEF IInv

\* The peer sends the first unit of its next request: a header, or a part of one.
LEMMA HeadSent ==
  ASSUME Orderly, TypeInv, IInv, MaySend, NEW u \in Unit,
         u.req = Len(sent) + 1, u.part \in {"head", "frag"},
         out' = Append(out, u),
         \/ /\ u.part = "head" /\ peer' = peer
            /\ \E q \in Requests : sent' = Append(sent, q) /\ toSend' = q.units
         \/ u.part = "frag" /\ sent' = sent /\ toSend' = toSend /\ peer' = "fin",
         UNCHANGED <<pc, readVars, stream, ctxVars, answers>>
  PROVE  IInv' /\ Asked = Len(answers) /\ Asked' = Asked + 1
<1> USE DEF IInv
<1>a. WireTypeOK /\ FrameTypeOK /\ HistoryTypeOK
  BY DEF TypeInv, TypeOK
<1>1. peer = "open" /\ toSend = 0 /\ Len(answers) = Len(sent) /\ Len(sent) < MaxRequests
  BY DEF MaySend, Orderly
<1>2. ~Cut /\ Asked = Len(sent) /\ Len(sent) \in Nat /\ Len(out) \in Nat /\ Len(answers) \in Nat
  BY <1>a, <1>1 DEF CountInv, Asked, WireTypeOK, HistoryTypeOK
<1>3. /\ Len(out') = Len(out) + 1 /\ out'[Len(out) + 1] = u
      /\ \A i \in 1..Len(out) : out'[i] = out[i]
  BY <1>a DEF WireTypeOK
<1>4. Asked' = Asked + 1 /\ (u.part = "head" => Len(sent') = Len(sent) + 1)
      /\ (u.part = "frag" => sent' = sent)
  BY <1>a, <1>2, <1>3 DEF Asked, Cut, WireTypeOK
<1>5. ~Pending /\ Pending'
  BY <1>1, <1>2, <1>4 DEF Pending
<1>6. UNCHANGED <<rd, used, cur, got, auto, task>> /\ \A r : Active(r)' = Active(r)
  BY DEF readVars, ctxVars, Active
<1>7. CountInv'
  <2>1. Cut' => peer' # "open" /\ toSend' = 0
    BY <1>1, <1>3 DEF Cut
  <2>2. QED
    BY <1>1, <1>2, <1>4, <2>1, SessionAssumption DEF CountInv, AnswersInOrder
<1>8. TaskInv'
  BY <1>5, <1>6 DEF TaskInv
<1>9. WorkInv' /\ (stream = "open" => ~Working)
  BY <1>5, <1>6 DEF WorkInv, Working, Reading, Handling, Failing
<1>10. FrameInv'
  <2> SUFFICES ASSUME stream = "open", Ready PROVE Unread'
    BY <1>6, <1>9 DEF FrameInv, Ready, Working, Reading, Handling
  <2>1. AllRead
    BY <1>5 DEF FrameInv, Unread
  <2>2. \A r \in Ids : ~Active(r)
    BY <1>5 DEF TaskInv
  <2>3. cur + 1 = Asked' /\ used = rd /\ rd = Len(out)
    BY <1>4, <2>1 DEF AllRead
  <2>4. u.part = "head" =>
          Asked' = Len(sent') /\ Len(out') + toSend' = rd + 1 + sent'[Asked'].units
    BY <1>a, <1>2, <1>3, <1>4, <2>3 DEF WireTypeOK
  <2>5. QED
    BY <1>2, <1>3, <1>4, <1>5, <1>6, <2>2, <2>3, <2>4 DEF Unread
<1>12. QED
  BY <1>1, <1>2, <1>4, <1>7, <1>8, <1>9, <1>10

\* The peer sends the header of its next request.
LEMMA OrderlySendHead ==
  ASSUME Orderly, TypeInv, IInv, NEW q \in Requests, SendHead(q)
  PROVE  IInv' /\ Asked = Len(answers) /\ Asked' = Asked + 1
<1> DEFINE u == [req |-> Len(sent) + 1, part |-> "head"]
<1>1. u \in Unit
  BY SessionAssumption DEF SendHead, MaySend, Unit, Ids, TypeInv, TypeOK, WireTypeOK
<1>2. QED
  BY <1>1, HeadSent DEF SendHead

\* The peer sends a part of a header and closes.
LEMMA OrderlyCutHead ==
  ASSUME Orderly, TypeInv, IInv, CutHead
  PROVE  IInv' /\ Asked = Len(answers) /\ Asked' = Asked + 1
<1> DEFINE u == [req |-> Len(sent) + 1, part |-> "frag"]
<1>1. u \in Unit
  BY SessionAssumption DEF CutHead, MaySend, Unit, Ids, TypeInv, TypeOK, WireTypeOK
<1>2. QED
  BY <1>1, HeadSent DEF CutHead

\* The peer sends a piece of a body, and is a piece nearer to its end.
LEMMA OrderlySendBody ==
  ASSUME TypeInv, IInv, SendBody
  PROVE  IInv' /\ Asked' = Asked
<1> USE DEF IInv
<1>a. WireTypeOK /\ FrameTypeOK
  BY DEF TypeInv, TypeOK
<1> DEFINE u == [req |-> Len(sent), part |-> "body"]
<1>1. /\ out' = Append(out, u) /\ toSend > 0 /\ toSend' = toSend - 1 /\ peer = "open"
      /\ UNCHANGED <<sent, peer, pc, rd, used, cur, got, stream, auto, task, answers>>
  BY DEF SendBody, readVars, ctxVars
<1>2. /\ Len(out') = Len(out) + 1 /\ out'[Len(out) + 1] = u /\ Len(out) \in Nat
      /\ \A i \in 1..Len(out) : out'[i] = out[i]
  BY <1>a, <1>1 DEF WireTypeOK
<1>3. ~Cut /\ ~Cut' /\ Asked' = Asked /\ Pending' = Pending
  BY <1>1, <1>2 DEF CountInv, Cut, Asked, Pending
<1>4. \A r : Active(r)' = Active(r)
  BY <1>1 DEF Active
<1>5. CountInv'
  BY <1>1, <1>3 DEF CountInv, AnswersInOrder
<1>6. TaskInv' /\ WorkInv'
  BY <1>1, <1>3, <1>4 DEF TaskInv, WorkInv, Working, Reading, Handling, Failing
<1>7. ~AllRead
  BY <1>1 DEF AllRead
<1>8. Unread => Unread'
  BY <1>a, <1>1, <1>2, <1>3, <1>4 DEF Unread, FrameTypeOK, WireTypeOK
<1>9. FrameInv'
  BY <1>a, <1>1, <1>2, <1>7, <1>8 DEF FrameInv, Reading, Handling, Ready, WireTypeOK
<1>11. QED
  BY <1>3, <1>5, <1>6, <1>9

\* The session takes up the unread request.
LEMMA OrderlyReadHeader ==
  ASSUME Orderly, TypeInv, IInv, ReadHeader
  PROVE  IInv'
<1> USE DEF IInv
<1>a. WireTypeOK /\ FrameTypeOK /\ IndexInv
  BY DEF TypeInv, TypeOK
<1>1. /\ pc = "header" /\ stream = "open" /\ rd < Len(out)
      /\ rd' \in (rd + 1)..Len(out) /\ used' = used + 1 /\ cur' = out[rd + 1].req /\ got' = 0
      /\ UNCHANGED <<sent, out, toSend, peer, stream, auto, task, answers>>
  BY DEF ReadHeader, peerVars, ctxVars
<1>2. Unread
  BY <1>1 DEF FrameInv, Ready, AllRead
<1>3. CountInv' /\ Asked' = Asked /\ Pending' = Pending /\ \A r : Active(r)' = Active(r)
  BY <1>1, CountStays DEF Active
<1>4. cur' = Asked /\ Pending
  BY <1>1, <1>2 DEF Unread
<1>5. TaskInv'
  BY <1>2, <1>3 DEF Unread, TaskInv
<1>6. WorkInv'
  BY <1>3, <1>4 DEF WorkInv
<1>7. FrameInv'
  <2>1. CASE pc' = "error"
    BY <2>1 DEF FrameInv, Reading, Handling, Ready, HandlingPcs, ResponseWrites, SyncWrite,
       AsyncWrite
  <2>2. CASE pc' # "error"
    <3>1. /\ out[rd + 1].part = "head"
          /\ pc' \in {"dispatch", "continue", "buffered"}
          /\ pc' = "dispatch" => ~sent[cur'].post
      BY <1>1, <2>2 DEF ReadHeader, ReadsBody
    <3>2. Asked = Len(sent) /\ Len(out) + toSend = rd + 1 + sent[cur'].units /\ used = rd
      BY <1>2, <1>4, <3>1 DEF Unread
    <3>3. CASE pc' = "dispatch"
      <4>1. cur' \in 1..Len(sent) /\ sent[cur'] \in Requests
        BY <1>a, <1>1, <1>4, <3>2, SessionAssumption DEF FrameTypeOK, WireTypeOK, CountInv, Pending,
           Unit, Ids
      <4>2. sent[cur'].units = 0
        BY <3>1, <3>3, <4>1 DEF Orderly, NoStrayBody
      <4>3. rd' = Len(out) /\ used' = rd' /\ toSend = 0
        BY <1>a, <1>1, <3>2, <4>2 DEF FrameTypeOK, WireTypeOK
      <4>4. QED
        BY <1>1, <1>3, <1>4, <3>3, <4>3 DEF FrameInv, AllRead, Reading, Ready
    <3>4. CASE pc' # "dispatch"
      BY <1>a, <1>1, <3>1, <3>2, <3>4 DEF FrameInv, FrameTypeOK, WireTypeOK, Reading, Handling, Ready,
         HandlingPcs, ResponseWrites, SyncWrite, AsyncWrite
    <3>5. QED
      BY <3>3, <3>4
  <2>3. QED
    BY <2>1, <2>2
<1>9. QED
  BY <1>3, <1>5, <1>6, <1>7

\* Parsing a part of the body keeps the account of what is left of it.
LEMMA BodyParsed ==
  ASSUME TypeInv, IInv, Reading, NEW n \in Nat,
         used' = used + n, got' = got + n,
         UNCHANGED <<peerVars, cur, stream, ctxVars, answers>>,
         pc' \in {"error", "body"}
  PROVE  IInv'
<1> USE DEF IInv
<1>a. WireTypeOK /\ FrameTypeOK
  BY DEF TypeInv, TypeOK
<1>1. UNCHANGED <<sent, out, toSend, peer, auto, task>> /\ \A r : Active(r)' = Active(r)
  BY DEF peerVars, ctxVars, Active
<1>2. CountInv' /\ Asked' = Asked /\ Pending' = Pending
  BY <1>1, CountStays
<1>3. \A r \in Ids : ~Active(r)
  BY DEF TaskInv, Reading
<1>4. TaskInv'
  BY <1>1, <1>3 DEF TaskInv
<1>5. WorkInv'
  BY <1>1, <1>2 DEF WorkInv, Working
<1>6. stream = "open" /\ pc' = "body" => Len(out) + toSend + got' = used' + sent[cur].units
  <2>1. CASE stream = "open"
    <3>1. Len(out) + toSend + got = used + sent[cur].units
      BY <2>1 DEF FrameInv
    <3>2. cur \in 1..Len(sent)
      BY <1>a DEF TypeInv, IndexInv, FrameTypeOK, Reading
    <3>3. sent[cur].units \in Nat
      BY <1>a, <3>2, SentIsRequest
    <3>4. /\ Len(out) \in Nat /\ toSend \in Nat /\ got \in Nat /\ used \in Nat
          /\ got' = got + n /\ used' = used + n
      BY <1>a DEF FrameTypeOK, WireTypeOK
    <3>5. \A a, b, c, d, e \in Nat : a + b + c = d + e => a + b + (c + n) = (d + n) + e
      OBVIOUS
    <3>6. Len(out) + toSend + (got + n) = (used + n) + sent[cur].units
      BY <3>1, <3>3, <3>4, <3>5
    <3>7. QED
      BY <3>4, <3>6
  <2>2. QED
    BY <2>1
<1>7. FrameInv'
  BY <1>1, <1>6 DEF FrameInv, Reading, Handling, Ready, HandlingPcs, ResponseWrites, SyncWrite,
     AsyncWrite
<1>9. QED
  BY <1>2, <1>4, <1>5, <1>7

\* The pieces of the body that came with the header.
LEMMA OrderlyPutBuffered ==
  ASSUME TypeInv, BodyInv, IInv, PutBuffered
  PROVE  IInv'
<1> DEFINE n == IF used < rd THEN Put(sent[cur], 0, rd - used) ELSE 0
<1>1. Reading /\ got = 0 /\ cur \in 1..Len(sent)
  BY DEF PutBuffered, Reading, BodyInv, PosInv, TypeInv, TypeOK, IndexInv, FrameTypeOK
<1>2. sent[cur] \in RequestType
  BY <1>1, SentIsRequest DEF TypeInv, TypeOK
<1>3. n \in Nat
  BY <1>2, BufferedPutBounds DEF TypeInv, TypeOK, FrameTypeOK
<1>4. got' = n /\ used' = used + n /\ pc' \in {"error", "body"}
  BY DEF PutBuffered
<1> HIDE DEF n
<1>5. got' = got + n
  BY <1>1, <1>3, <1>4
<1>6. QED
  BY <1>1, <1>3, <1>4, <1>5, BodyParsed DEF PutBuffered

\* The pieces of the body that come later.
LEMMA OrderlyReadMoreBody ==
  ASSUME TypeInv, IInv, ReadMoreBody
  PROVE  IInv'
<1>a. WireTypeOK /\ FrameTypeOK /\ IndexInv
  BY DEF TypeInv, TypeOK
<1>1. Reading /\ pc' = "body" /\ cur \in 1..Len(sent)
  BY <1>a DEF ReadMoreBody, Reading, IndexInv, FrameTypeOK
<1>2. sent[cur] \in RequestType /\ got <= sent[cur].units
  BY <1>a, <1>1, SentIsRequest DEF IndexInv
<1>3. PICK n \in (rd + 1)..Len(out) :
        /\ used' = used + Put(sent[cur], got, n - used)
        /\ got' = got + Put(sent[cur], got, n - used)
  BY DEF ReadMoreBody
<1>4. Put(sent[cur], got, n - used) \in Nat
  <2>1. n - used \in Nat /\ got \in Nat
    BY <1>a DEF FrameTypeOK
  <2>2. QED
    BY <1>2, <2>1, PutBounds
<1>5. QED
  BY <1>1, <1>3, <1>4, BodyParsed DEF ReadMoreBody

\* A complete body is all there was to read.
LEMMA OrderlyBodyComplete ==
  ASSUME TypeInv, IInv, BodyComplete
  PROVE  IInv'
<1> USE DEF IInv
<1>a. WireTypeOK /\ FrameTypeOK /\ IndexInv
  BY DEF TypeInv, TypeOK
<1>1. /\ Reading /\ got = sent[cur].units /\ pc' \in {"error", "dispatch"}
      /\ UNCHANGED <<sent, out, toSend, peer, rd, used, cur, got, stream, auto, task, answers>>
  BY DEF BodyComplete, BodyDone, Reading, peerVars, readVars, ctxVars
<1>2. CASE pc' = "error"
  BY <1>1, <1>2, QuietStep DEF BodyComplete, peerVars
<1>3. CASE pc' = "dispatch"
  <2>1. CountInv' /\ Asked' = Asked /\ Pending' = Pending /\ \A r : Active(r)' = Active(r)
    BY <1>1, CountStays DEF Active
  <2>2. TaskInv'
    BY <1>1, <2>1 DEF TaskInv, Reading
  <2>3. WorkInv'
    BY <1>1, <2>1 DEF WorkInv, Working
  <2>4. stream = "open" => AllRead
    <3> SUFFICES ASSUME stream = "open" PROVE AllRead
      OBVIOUS
    <3>1. Len(out) + toSend + got = used + got /\ cur = Asked
      BY <1>1 DEF FrameInv, WorkInv, Working
    <3>2. QED
      BY <1>a, <3>1 DEF AllRead, FrameTypeOK, WireTypeOK
  <2>5. FrameInv'
    BY <1>1, <1>3, <2>1, <2>4 DEF FrameInv, AllRead, Reading, Handling, Ready, HandlingPcs
  <2>7. QED
    BY <2>1, <2>2, <2>3, <2>5
<1>4. QED
  BY <1>1, <1>2, <1>3

\* The session goes on with a request it will answer itself.
LEMMA HandlingStep ==
  ASSUME TypeInv, IInv, Handling, pc' \in PcStates,
         UNCHANGED <<peerVars, readVars, stream, task, answers>>,
         Handling' \/ pc' = "error"
  PROVE  IInv'
<1> USE DEF IInv
<1>1. UNCHANGED <<sent, out, toSend, peer, rd, used, cur, got>> /\ \A r : Active(r)' = Active(r)
  BY DEF peerVars, readVars, Active
<1>2. CountInv' /\ Asked' = Asked /\ Pending' = Pending
  BY <1>1, CountStays
<1>3. \A r \in Ids : ~Active(r)
  BY DEF TaskInv, Handling, HandlingPcs, ResponseWrites, SyncWrite, AsyncWrite
<1>4. TaskInv'
  BY <1>1, <1>3 DEF TaskInv
<1>5. WorkInv'
  BY <1>1, <1>2 DEF WorkInv, Working
<1>6. AllRead' = AllRead
  BY <1>1, <1>2 DEF AllRead
<1>7. FrameInv'
  BY <1>1, <1>6 DEF FrameInv, Reading, Handling, Ready, HandlingPcs, ResponseWrites, SyncWrite,
     AsyncWrite
<1>9. QED
  BY <1>2, <1>4, <1>5, <1>7

\* A handler that leaves its response to a task is the session's last say.
LEMMA OrderlyHandler ==
  ASSUME Orderly, TypeInv, IInv, NEW b \in Behaviours, NEW w \in ResponseWrites, Handler(b, w)
  PROVE  IInv'
<1> USE DEF IInv
<1>a. ContextTypeOK /\ FrameTypeOK /\ cur \in Ids
  BY DEF TypeInv, TypeOK, Handler, IndexInv, FrameTypeOK, Ids
<1>1. /\ pc = "handler" /\ b \notin {"inlineThrow", "deferThrow"}
      /\ auto' = [auto EXCEPT ![cur] = AutoAfter(b)]
      /\ UNCHANGED <<peerVars, readVars, stream, answers>>
  BY DEF Handler, Orderly
<1>2. Handling
  BY <1>1 DEF Handling, HandlingPcs
<1>3. CASE b \in {"auto", "inline", "throw"}
  <2>1. UNCHANGED task /\ pc' \in PcStates
    BY <1>3 DEF Handler, Inline, PcStates
  <2>2. cur' = cur /\ (b = "auto" => auto'[cur])
    BY <1>a, <1>1 DEF AutoAfter, ContextTypeOK, readVars
  <2>3. Handling' \/ pc' = "error"
    BY <1>3, <2>2 DEF Handler, Inline, Handling, HandlingPcs, ResponseWrites, SyncWrite, AsyncWrite
  <2>4. QED
    BY <1>1, <1>2, <2>1, <2>3, HandlingStep
<1>4. CASE b = "defer"
  <2>1. /\ pc' = "returned" /\ ~auto'[cur]
        /\ task' = [task EXCEPT ![cur] = "spawned"]
    BY <1>a, <1>4 DEF Handler, Inline, AutoAfter, ContextTypeOK
  <2>2. /\ UNCHANGED <<sent, out, toSend, peer, rd, used, cur, got, stream, answers>>
    BY <1>1 DEF peerVars, readVars
  <2>3. CountInv' /\ Asked' = Asked /\ Pending' = Pending
    BY <2>2, CountStays
  <2>4. \A r \in Ids : ~Active(r)
    BY <1>1 DEF TaskInv
  <2>5. \A r \in Ids : Active(r)' => r = cur
    BY <1>a, <2>1, <2>4 DEF Active, ContextTypeOK
  <2>6. stream = "open" => cur = Asked /\ Pending /\ AllRead
    BY <1>2 DEF WorkInv, Working, FrameInv
  <2>7. TaskInv'
    BY <2>1, <2>2, <2>3, <2>5, <2>6 DEF TaskInv
  <2>8. WorkInv' /\ FrameInv'
    BY <2>1, <2>2, <2>3, <2>6 DEF WorkInv, FrameInv, Working, Failing, Reading, Handling, HandlingPcs,
       ResponseWrites, SyncWrite, AsyncWrite, AllRead
  <2>10. QED
    BY <2>3, <2>7, <2>8
<1>5. QED
  BY <1>1, <1>3, <1>4, SessionAssumption DEF HandlerKinds

\* The end of a turn: the buffer is cleared, which throws nothing away.
LEMMA OrderlyNoAutoResponse ==
  ASSUME TypeInv, IInv, NoAutoResponse
  PROVE  IInv'
<1> USE DEF IInv
<1>1. /\ pc = "returned" /\ ~auto[cur] /\ pc' = "header" /\ used' = rd
      /\ UNCHANGED <<sent, out, toSend, peer, rd, cur, got, stream, answers, auto, task>>
      /\ \A r : Active(r)' = Active(r)
  BY DEF NoAutoResponse, peerVars, ctxVars, Active
<1>2. CountInv' /\ Asked' = Asked /\ Pending' = Pending
  BY <1>1, CountStays
<1>3. TaskInv'
  BY <1>1, <1>2 DEF TaskInv
<1>4. stream = "open" => AllRead' \/ Unread'
  BY <1>1, <1>2 DEF FrameInv, Ready, AllRead, Unread
<1>5. WorkInv' /\ FrameInv'
  BY <1>1, <1>4 DEF WorkInv, FrameInv, Working, Failing, Reading, Handling, HandlingPcs,
     ResponseWrites, SyncWrite, AsyncWrite
<1>7. QED
  BY <1>2, <1>3, <1>5

\* The session's own response is the one answer to cur.
LEMMA OrderlyWriteDone ==
  ASSUME Orderly, TypeInv, IInv, NEW res \in Results, WriteDone(res)
  PROVE  IInv'
<1> USE DEF IInv
<1>a. WireTypeOK /\ FrameTypeOK /\ HistoryTypeOK /\ cur \in Ids /\ cur \in 1..Len(sent)
  BY DEF TypeInv, TypeOK, WriteDone, IndexInv, FrameTypeOK, Ids, ResponseWrites, SyncWrite, AsyncWrite,
     HandlingPcs
<1>1. /\ pc \in ResponseWrites /\ res \in WriteResults(pc)
      /\ answers' = Answered(cur, res) /\ stream' = StreamAfter(sent[cur], res)
      /\ UNCHANGED <<peerVars, sent, out, toSend, peer, rd, cur, got, auto, task>>
  BY DEF WriteDone, peerVars, ctxVars
<1>2. res = "ok" => stream = "open"
  BY <1>1, OkMeansOpen
<1>3. Handling /\ (stream = "open" => cur = Asked /\ Pending /\ AllRead)
  BY <1>1 DEF Handling, HandlingPcs, WorkInv, Working, FrameInv, ResponseWrites, SyncWrite, AsyncWrite
<1>4. CountInv' /\ Asked' = Asked
  BY <1>a, <1>1, <1>2, <1>3, CountAnswers
<1>5. \A r \in Ids : ~Active(r) /\ ~Active(r)'
  BY <1>1 DEF TaskInv, Active, ResponseWrites, SyncWrite, AsyncWrite
<1>6. stream' = "open" => stream = "open" /\ (res = "ok" => sent[cur].keep)
  BY <1>1 DEF StreamAfter, KeepOpen
<1>7. pc \notin {"close", "done"}
  BY <1>1 DEF ResponseWrites, SyncWrite, AsyncWrite
<1>9. CASE auto[cur]
  <2>1. TaskInv'
    BY <1>5 DEF TaskInv
  <2>2. pc' = "header" /\ used' = rd
    BY <1>9 DEF WriteDone
  <2>3. WorkInv' /\ FrameInv'
    BY <1>1, <1>3, <1>4, <1>6, <2>2 DEF WorkInv, FrameInv, Working, Failing, Reading, Handling,
       HandlingPcs, ResponseWrites, SyncWrite, AsyncWrite, AllRead
  <2>4. QED
    BY <1>4, <2>1, <2>3
<1>10. CASE ~auto[cur]
  <2>1. pc' = "returned" /\ used' = used /\ ~auto'[cur']
    BY <1>1, <1>10 DEF WriteDone, Orderly
  <2>2. TaskInv'
    BY <1>5 DEF TaskInv
  <2>3. WorkInv' /\ FrameInv'
    BY <1>1, <1>3, <1>4, <1>6, <2>1 DEF WorkInv, FrameInv, Working, Failing, Reading, Handling,
       HandlingPcs, ResponseWrites, SyncWrite, AsyncWrite, AllRead
  <2>4. QED
    BY <1>4, <2>2, <2>3
<1>11. QED
  BY <1>9, <1>10

\* So is a 500, after which the session only closes.
LEMMA OrderlyWrite500Done ==
  ASSUME TypeInv, IInv, NEW res \in Results, Write500Done(res)
  PROVE  IInv'
<1> USE DEF IInv
<1>a. WireTypeOK /\ HistoryTypeOK /\ cur \in Ids
  BY DEF TypeInv, TypeOK, Write500Done, IndexInv, FrameTypeOK, Ids
<1>1. /\ pc = "write500" /\ pc' = "close" /\ res \in WriteResults(AsyncWrite)
      /\ answers' = Answered(cur, res) /\ (stream' = "open" => stream = "open")
      /\ UNCHANGED <<peerVars, sent, out, toSend, peer, rd, used, cur, got, auto, task>>
  BY DEF Write500Done, peerVars, ctxVars, readVars
<1>2. res = "ok" => stream = "open"
  BY <1>1, OkMeansOpen
<1>3. stream = "open" => cur = Asked /\ Pending
  BY <1>1 DEF WorkInv, Working, Failing
<1>4. CountInv' /\ Asked' = Asked
  BY <1>a, <1>1, <1>2, <1>3, CountAnswers
<1>5. \A r \in Ids : ~Active(r) /\ ~Active(r)'
  BY <1>1 DEF TaskInv, Active
<1>6. TaskInv' /\ WorkInv' /\ FrameInv'
  BY <1>1, <1>5 DEF TaskInv, WorkInv, FrameInv, Working, Failing, Reading, Handling, Ready,
     HandlingPcs, ResponseWrites, SyncWrite, AsyncWrite
<1>8. QED
  BY <1>4, <1>6

\* A task is only there while the session has nothing to write itself.
LEMMA OrderlyTaskStart ==
  ASSUME TypeInv, IInv, NEW r \in Ids, NEW w \in ResponseWrites, TaskStart(r, w)
  PROVE  IInv'
<1> USE DEF IInv
<1>1. /\ task[r] = "spawned" /\ task' = [task EXCEPT ![r] = IF stream = "destroyed" THEN "ended" ELSE w]
      /\ UNCHANGED <<sent, out, toSend, peer, pc, rd, used, cur, got, stream, auto, answers>>
  BY DEF TaskStart, peerVars, readVars
<1>2. \A s \in Ids : Active(s)' => Active(s)
  BY <1>1 DEF Active, TypeInv, TypeOK, ContextTypeOK
<1>3. CountInv' /\ Asked' = Asked /\ Pending' = Pending
  BY <1>1, CountStays
<1>4. TaskInv' /\ WorkInv'
  BY <1>1, <1>2, <1>3 DEF TaskInv, WorkInv, Working, Failing, Reading, Handling
<1>5. AllRead' = AllRead /\ (Unread => Unread')
  BY <1>1, <1>2, <1>3 DEF AllRead, Unread
<1>6. FrameInv'
  BY <1>1, <1>5 DEF FrameInv, Reading, Handling, Ready
<1>8. QED
  BY <1>3, <1>4, <1>6

\* A task's response is the one answer to cur.
LEMMA OrderlyTaskDone ==
  ASSUME TypeInv, IInv, NEW r \in Ids, NEW res \in Results, TaskDone(r, res)
  PROVE  IInv'
<1> USE DEF IInv
<1>a. WireTypeOK /\ HistoryTypeOK /\ ContextTypeOK
  BY DEF TypeInv, TypeOK
<1>1. /\ task[r] \in ResponseWrites /\ res \in WriteResults(task[r])
      /\ answers' = Answered(r, res) /\ (stream' = "open" => stream = "open")
      /\ \E to \in {"ended", "closing"} : task' = [task EXCEPT ![r] = to]
      /\ UNCHANGED <<peerVars, sent, out, toSend, peer, pc, rd, used, cur, got, auto>>
  BY DEF TaskDone, peerVars, readVars
<1>2. Active(r)
  BY <1>1 DEF Active
<1>3. res = "ok" => stream = "open"
  BY <1>1, OkMeansOpen
<1>4. /\ r = cur /\ ~auto[cur]
      /\ pc \in {"returned", "header", "error", "close", "done"}
      /\ pc = "error" => stream # "open"
      /\ stream = "open" => r = Asked /\ Pending
  BY <1>2 DEF TaskInv
<1>5. CountInv' /\ Asked' = Asked
  BY <1>a, <1>1, <1>3, <1>4, CountAnswers
<1>6. \A s \in Ids : ~Active(s)'
  BY <1>a, <1>1, <1>4 DEF TaskInv, Active, ContextTypeOK, ResponseWrites, SyncWrite, AsyncWrite
<1>7. TaskInv'
  BY <1>6 DEF TaskInv
<1>8. WorkInv'
  BY <1>1, <1>4 DEF WorkInv, Working, Failing, Reading, Handling, HandlingPcs, ResponseWrites,
     SyncWrite, AsyncWrite
<1>9. FrameInv'
  <2>1. ~Unread
    BY <1>2 DEF Unread
  <2>2. QED
    BY <1>1, <1>4, <1>5, <2>1 DEF FrameInv, AllRead, Ready, Reading, Handling, HandlingPcs,
       ResponseWrites, SyncWrite, AsyncWrite
<1>10. QED
  BY <1>5, <1>7, <1>8, <1>9

\* A task that closes the stream, maybe under the next request, only ends what may be
\* answered.
LEMMA OrderlyTaskCloses ==
  ASSUME TypeInv, IInv, NEW r \in Ids, TaskCloses(r)
  PROVE  IInv'
<1> USE DEF IInv
<1>1. /\ task[r] = "closing" /\ task' = [task EXCEPT ![r] = "ended"] /\ stream' # "open"
      /\ UNCHANGED <<sent, out, toSend, peer, pc, cur, auto, answers>>
  BY DEF TaskCloses, peerVars, readVars
<1>2. \A s \in Ids : Active(s)' => Active(s)
  BY <1>1 DEF Active, TypeInv, TypeOK, ContextTypeOK, ResponseWrites, SyncWrite, AsyncWrite
<1>3. CountInv'
  BY <1>1, CountStays
<1>4. TaskInv'
  BY <1>1, <1>2 DEF TaskInv
<1>5. WorkInv' /\ FrameInv'
  BY <1>1 DEF WorkInv, FrameInv
<1>6. QED
  BY <1>3, <1>4, <1>5

\* Every step keeps the invariant.
LEMMA OrderlyNext == Orderly /\ BodyInv /\ IInv /\ [Next]_vars => IInv'
<1> SUFFICES ASSUME Orderly, BodyInv, IInv, [Next]_vars PROVE IInv'
  OBVIOUS
<1>a. TypeInv /\ pc \in PcStates
  BY DEF BodyInv, TypeInv, TypeOK, FrameTypeOK
<1>1. ASSUME NEW q \in Requests, SendHead(q) PROVE IInv'
  BY <1>a, <1>1, OrderlySendHead
<1>2. CASE SendBody
  BY <1>a, <1>2, OrderlySendBody
<1>3. CASE CutHead
  BY <1>a, <1>3, OrderlyCutHead
<1>4. ASSUME NEW to \in {"stalled", "fin", "reset"}, PeerTurns(to) PROVE IInv'
  BY <1>4, QuietStep DEF PeerTurns
<1>5. CASE Expire
  BY <1>5, QuietStep DEF Expire, peerVars
<1>6. CASE ReadHeader
  BY <1>a, <1>6, OrderlyReadHeader
<1>7. CASE NoHeader
  BY <1>a, <1>7, QuietStep DEF NoHeader, peerVars
<1>8. CASE ReadTimesOut
  BY <1>8, QuietStep DEF ReadTimesOut, peerVars
<1>9. ASSUME NEW res \in Results, SendContinue(res) PROVE IInv'
  BY <1>a, <1>9, QuietStep DEF SendContinue, peerVars, Reading
<1>10. CASE PutBuffered
  BY <1>a, <1>10, OrderlyPutBuffered
<1>11. CASE ReadMoreBody
  BY <1>a, <1>11, OrderlyReadMoreBody
<1>12. CASE PartialChunk
  BY <1>12, QuietStep DEF PartialChunk, peerVars, Reading
<1>13. CASE BodyCut
  BY <1>a, <1>13, QuietStep DEF BodyCut, peerVars
<1>14. CASE BodyComplete
  BY <1>a, <1>14, OrderlyBodyComplete
<1>15. ASSUME NEW type \in ResponseTypes, Dispatch(type) PROVE IInv'
  BY <1>a, <1>15, HandlingStep DEF Dispatch, Handling, HandlingPcs, PcStates
<1>16. CASE NotFound
  <2>1. CASE auto[cur]
    BY <1>a, <1>16, <2>1, HandlingStep DEF NotFound, Handling, HandlingPcs, PcStates, readVars
  <2>2. CASE ~auto[cur]
    <3>1. /\ pc = "dispatch" /\ pc' = "returned"
          /\ UNCHANGED <<sent, out, toSend, peer, rd, used, cur, got, stream, auto, task, answers>>
          /\ \A r : Active(r)' = Active(r)
      BY <1>16 DEF NotFound, peerVars, readVars, Active
    <3>2. CountInv' /\ Asked' = Asked /\ Pending' = Pending
      BY <3>1, CountStays DEF IInv
    <3>3. TaskInv' /\ WorkInv' /\ FrameInv'
      BY <2>2, <3>1, <3>2 DEF IInv, TaskInv, WorkInv, FrameInv, Working, Failing, Reading, Handling,
         HandlingPcs, ResponseWrites, SyncWrite, AsyncWrite, AllRead
    <3>5. QED
      BY <3>2, <3>3 DEF IInv
  <2>3. QED
    BY <2>1, <2>2
<1>17. ASSUME NEW b \in Behaviours, NEW w \in ResponseWrites, Handler(b, w) PROVE IInv'
  BY <1>a, <1>17, OrderlyHandler
<1>18. CASE NoAutoResponse
  BY <1>a, <1>18, OrderlyNoAutoResponse
<1>19. ASSUME NEW w \in ResponseWrites, AutoResponse(w) PROVE IInv'
  BY <1>a, <1>19, HandlingStep DEF AutoResponse, Handling, HandlingPcs, PcStates, ctxVars,
     ResponseWrites, SyncWrite, AsyncWrite
<1>20. ASSUME NEW res \in Results, WriteDone(res) PROVE IInv'
  BY <1>a, <1>20, OrderlyWriteDone
<1>21. CASE StartError
  BY <1>a, <1>21, QuietStep DEF StartError, peerVars
<1>22. ASSUME NEW res \in Results, Write500Done(res) PROVE IInv'
  BY <1>a, <1>22, OrderlyWrite500Done
<1>23. CASE Close
  BY <1>a, <1>23, QuietStep DEF Close, peerVars
<1>24. ASSUME NEW r \in Ids, NEW w \in ResponseWrites, TaskStart(r, w) PROVE IInv'
  BY <1>a, <1>24, OrderlyTaskStart
<1>25. ASSUME NEW r \in Ids, NEW res \in Results, TaskDone(r, res) PROVE IInv'
  BY <1>a, <1>25, OrderlyTaskDone
<1>26. ASSUME NEW r \in Ids, TaskCloses(r) PROVE IInv'
  BY <1>a, <1>26, OrderlyTaskCloses
<1>27. CASE UNCHANGED vars
  BY <1>27, QuietStep DEF vars, peerVars
<1>28. QED
  BY <1>1, <1>2, <1>3, <1>4, <1>5, <1>6, <1>7, <1>8, <1>9, <1>10, <1>11, <1>12,
     <1>13, <1>14, <1>15, <1>16, <1>17, <1>18, <1>19, <1>20, <1>21, <1>22, <1>23,
     <1>24, <1>25, <1>26, <1>27 DEF Next, Peer, Session, SessionWrite

(* In an orderly environment a request is unread, worked on, or answered or    *)
(* left to the one task that may still answer it.                             *)
THEOREM OrderlyInv == ASSUME Orderly PROVE Spec => [](BodyInv /\ IInv)
<1>1. BodyInv /\ IInv /\ [Next]_vars => (BodyInv /\ IInv)'
  BY BodyNext, OrderlyNext
<1>2. QED
  BY BodyInit, OrderlyInit, <1>1, PTL DEF Spec

-----------------------------------------------------------------------------
(* In an orderly environment the session and the tasks of its handlers never *)
(* write to the stream at the same time, although nothing serialises them.    *)
THEOREM WritersExclude == ASSUME Orderly PROVE Spec => []OneWriter
<1>1. IInv => OneWriter
  BY DEF IInv, TaskInv, OneWriter, TaskWrites, Active, SessionWrites, ResponseWrites, SyncWrite,
     AsyncWrite
<1>2. QED
  BY OrderlyInv, <1>1, PTL

(* In an orderly environment, which leaves out handlers that throw once they   *)
(* have responded or deferred, every request is answered at most once, and in *)
(* the order of the requests, whoever answers it.                            *)
THEOREM AnswersAreInOrder == ASSUME Orderly PROVE Spec => []AnswersInOrder
<1>1. IInv => AnswersInOrder
  BY DEF IInv, CountInv
<1>2. QED
  BY OrderlyInv, <1>1, PTL

(* In an orderly environment async_read_header is never called in the middle  *)
(* of a body.                                                                *)
THEOREM RequestsAreFramed == ASSUME Orderly PROVE Spec => []InFrame
<1>1. BodyInv /\ IInv => InFrame
  BY DEF IInv, FrameInv, InFrame, Ready, AllRead, Unread
<1>2. QED
  BY OrderlyInv, <1>1, PTL
=============================================================================
