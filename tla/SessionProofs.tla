---------------------------- MODULE SessionProofs ----------------------------
(***************************************************************************)
(* Proofs about a session, for any requests, handlers, limits and number of  *)
(* requests: what holds in every environment (TypeInv, BodyInv), where no    *)
(* request is chunked (BufferConsumed), and where the peer sends ahead and   *)
(* handlers answer on the spot (AheadInv). OrderlyProofs and ExchangeProofs  *)
(* have what holds in an orderly environment.                                *)
(***************************************************************************)
EXTENDS SessionInvariant, TLAPS

\* put() takes no more than there is, and no more than the body has left.
LEMMA PutBounds ==
  ASSUME NEW q \in RequestType, NEW taken \in Nat, NEW avail \in Nat,
         taken <= q.units
  PROVE  /\ Put(q, taken, avail) \in Nat
         /\ Put(q, taken, avail) <= avail
         /\ taken + Put(q, taken, avail) <= q.units
BY DEF Put, Min2, RequestType

\* The same for what stands in the buffer behind a header, if anything does.
LEMMA BufferedPutBounds ==
  ASSUME NEW q \in RequestType, NEW u \in Nat, NEW r \in Nat, u <= r,
         NEW n, n = IF u < r THEN Put(q, 0, r - u) ELSE 0
  PROVE  n \in Nat /\ u + n <= r /\ n <= q.units
<1>1. q.units \in Nat
  BY DEF RequestType
<1>2. CASE u < r
  <2>1. r - u \in Nat
    BY <1>2
  <2>2. Put(q, 0, r - u) \in Nat /\ Put(q, 0, r - u) <= r - u /\ 0 + Put(q, 0, r - u) <= q.units
    BY <1>1, <2>1, PutBounds
  <2>3. QED
    BY <1>1, <1>2, <2>2
<1>3. CASE ~(u < r)
  BY <1>1, <1>3
<1>4. QED
  BY <1>2, <1>3

\* What was sent is a request.
LEMMA SentIsRequest ==
  ASSUME WireTypeOK, NEW r \in 1..Len(sent)
  PROVE  sent[r] \in RequestType /\ sent[r].units \in Nat
BY SessionAssumption DEF WireTypeOK, RequestType

\* A part of the type invariant holds after a step that leaves its variables.
LEMMA WireStays == WireTypeOK /\ UNCHANGED peerVars => WireTypeOK'
BY DEF WireTypeOK, peerVars

\* The same for the contexts.
LEMMA ContextStays == ContextTypeOK /\ UNCHANGED ctxVars => ContextTypeOK'
BY DEF ContextTypeOK, ctxVars

\* The same for what the peer got back.
LEMMA HistoryStays ==
  HistoryTypeOK /\ UNCHANGED <<continued, answers, fault>> => HistoryTypeOK'
BY DEF HistoryTypeOK

\* A step that reads nothing. What the new pc asks of cur is either what the old
\* one asked, or nothing.
LEMMA FrameMoves ==
  ASSUME FrameTypeOK, IndexInv, UNCHANGED <<peerVars, readVars>>,
         pc' \in PcStates,
         stream' \in {stream, "closed", "destroyed"}, expired' \in BOOLEAN,
         \/ pc' \in {"close", "done"}
         \/ pc' = pc
         \/ pc' = "error" /\ (cur > 0 \/ stream' # "open")
         \/ pc' = "write500" /\ cur > 0
         \/ pc' \in HandlingPcs /\ (pc \in HandlingPcs \/ Reading)
         \/ pc' \in {"buffered", "body"} /\ Reading
  PROVE  FrameTypeOK' /\ IndexInv'
<1>1. FrameTypeOK'
  BY DEF FrameTypeOK, peerVars, readVars
<1>2. IndexInv'
  BY DEF FrameTypeOK, IndexInv, peerVars, readVars, PcStates, HandlingPcs, Reading,
     ResponseWrites, SyncWrite, AsyncWrite
<1>3. QED
  BY <1>1, <1>2

\* The types are right at first.
LEMMA TypeInit == Init => TypeInv
<1> SUFFICES ASSUME Init PROVE TypeInv
  OBVIOUS
<1>1. WireTypeOK
  BY SessionAssumption DEF Init, WireTypeOK
<1>2. FrameTypeOK
  <2>1. /\ Len(out) = 0 /\ rd = 0 /\ used = 0 /\ got = 0 /\ cur = 0
        /\ pc = "header" /\ stream = "open" /\ expired \in BOOLEAN
    BY DEF Init
  <2>2. MaxRequests \in Nat
    BY SessionAssumption
  <2>3. pc \in PcStates
    BY <2>1 DEF PcStates
  <2>4. QED
    BY <2>1, <2>2, <2>3 DEF FrameTypeOK
<1>3. ContextTypeOK
  BY DEF Init, ContextTypeOK, TaskStates
<1>4. HistoryTypeOK
  BY DEF Init, HistoryTypeOK
<1>5. IndexInv
  BY DEF Init, IndexInv, Reading, HandlingPcs, ResponseWrites, SyncWrite, AsyncWrite
<1>6. QED
  BY <1>1, <1>2, <1>3, <1>4, <1>5 DEF TypeInv, TypeOK

\* Every step keeps the types.
LEMMA TypeNext == TypeInv /\ [Next]_vars => TypeInv'
<1> SUFFICES ASSUME WireTypeOK, FrameTypeOK, ContextTypeOK, HistoryTypeOK, IndexInv,
                    [Next]_vars
             PROVE  TypeInv'
  BY DEF TypeInv, TypeOK
<1> USE DEF TypeInv, TypeOK
<1>1. ASSUME NEW q \in Requests, SendHead(q) PROVE TypeInv'
  <2> DEFINE u == [req |-> Len(sent) + 1, part |-> "head"]
  <2>1. u \in Unit /\ q.units \in Nat /\ Len(sent) < MaxRequests
    BY <1>1, SessionAssumption DEF SendHead, MaySend, Unit, Ids, RequestType, WireTypeOK
  <2>2. sent' = Append(sent, q) /\ out' = Append(out, u) /\ toSend' = q.units
    BY <1>1 DEF SendHead
  <2>3. WireTypeOK'
    BY <1>1, <2>1, <2>2, SessionAssumption DEF SendHead, WireTypeOK
  <2>4. FrameTypeOK'
    BY <1>1, <2>2 DEF SendHead, FrameTypeOK, WireTypeOK, readVars
  <2>5. IndexInv'
    <3>1. \A i \in 1..Len(out') : out'[i].part # "frag" => out'[i].req <= Len(sent')
      <4> SUFFICES ASSUME NEW i \in 1..Len(out'), out'[i].part # "frag"
                   PROVE  out'[i].req <= Len(sent')
        OBVIOUS
      <4>1. CASE i \in 1..Len(out)
        <5>1. out'[i] = out[i] /\ out[i] \in Unit /\ out[i].req <= Len(sent)
          BY <2>1, <2>2, <4>1 DEF WireTypeOK, IndexInv
        <5>2. out[i].req \in Nat /\ Len(sent') = Len(sent) + 1
          BY <2>2, <5>1, SessionAssumption DEF Unit, Ids, WireTypeOK
        <5>3. QED
          BY <5>1, <5>2 DEF WireTypeOK
      <4>2. CASE i = Len(out) + 1
        BY <2>1, <2>2, <4>2 DEF WireTypeOK, Unit
      <4>3. QED
        BY <2>2, <4>1, <4>2 DEF WireTypeOK
    <3>2. Reading => sent'[cur] = sent[cur]
      BY <2>2 DEF IndexInv, WireTypeOK, FrameTypeOK, Reading
    <3>3. QED
      BY <1>1, <2>1, <2>2, <3>1, <3>2
      DEF SendHead, IndexInv, WireTypeOK, FrameTypeOK, readVars, Reading
  <2>6. QED
    BY <1>1, <2>3, <2>4, <2>5, ContextStays, HistoryStays DEF SendHead
<1>2. CASE SendBody
  <2> DEFINE u == [req |-> Len(sent), part |-> "body"]
  <2>1. u \in Unit /\ out' = Append(out, u)
    BY <1>2, SessionAssumption DEF SendBody, Unit, Ids, WireTypeOK, IndexInv
  <2>2. WireTypeOK'
    BY <1>2, <2>1 DEF SendBody, WireTypeOK
  <2>3. FrameTypeOK'
    BY <1>2, <2>1 DEF SendBody, FrameTypeOK, WireTypeOK, readVars
  <2>4. IndexInv'
    BY <1>2, <2>1 DEF SendBody, IndexInv, WireTypeOK, readVars, Reading, Unit
  <2>5. QED
    BY <1>2, <2>2, <2>3, <2>4, ContextStays, HistoryStays DEF SendBody
<1>3. CASE CutHead
  <2> DEFINE u == [req |-> Len(sent) + 1, part |-> "frag"]
  <2>1. u \in Unit /\ out' = Append(out, u)
    BY <1>3, SessionAssumption DEF CutHead, MaySend, Unit, Ids, WireTypeOK
  <2>2. WireTypeOK'
    BY <1>3, <2>1 DEF CutHead, WireTypeOK
  <2>3. FrameTypeOK'
    BY <1>3, <2>1 DEF CutHead, FrameTypeOK, WireTypeOK, readVars
  <2>4. IndexInv'
    BY <1>3, <2>1 DEF CutHead, IndexInv, WireTypeOK, readVars, Reading, Unit
  <2>5. QED
    BY <1>3, <2>2, <2>3, <2>4, ContextStays, HistoryStays DEF CutHead
<1>4. ASSUME NEW to \in {"stalled", "fin", "reset"}, PeerTurns(to) PROVE TypeInv'
  <2>1. WireTypeOK'
    BY <1>4 DEF PeerTurns, WireTypeOK
  <2>2. FrameTypeOK' /\ IndexInv'
    BY <1>4 DEF PeerTurns, FrameTypeOK, IndexInv, readVars, Reading
  <2>3. QED
    BY <1>4, <2>1, <2>2, ContextStays, HistoryStays DEF PeerTurns
<1>5. CASE Expire
  <2>1. FrameTypeOK' /\ IndexInv'
    BY <1>5, FrameMoves DEF Expire, FrameTypeOK
  <2>2. QED
    BY <1>5, <2>1, WireStays, ContextStays, HistoryStays DEF Expire
<1>6. CASE ReadHeader
  <2>1. PICK n \in (rd + 1)..Len(out) : rd' = n
    BY <1>6 DEF ReadHeader
  <2>2. out[rd + 1] \in Unit /\ out[rd + 1].req \in Ids
    <3>1. out[rd + 1] \in Unit
      BY <1>6 DEF ReadHeader, WireTypeOK, FrameTypeOK
    <3>2. QED
      BY <3>1 DEF Unit
  <2>3. pc' \in {"error", "dispatch", "continue", "buffered"}
    BY <1>6 DEF ReadHeader
  <2>4. pc' # "error" => out[rd + 1].part = "head" /\ cur' <= Len(sent)
    BY <1>6 DEF ReadHeader, IndexInv, FrameTypeOK, WireTypeOK
  <2>5. FrameTypeOK'
    BY <1>6, <2>1, <2>2, <2>3 DEF ReadHeader, FrameTypeOK, WireTypeOK, peerVars, PcStates, Ids
  <2>6. pc' # "error" => sent[cur'].units \in Nat
    BY <1>6, <2>2, <2>4, SentIsRequest DEF ReadHeader, Ids, WireTypeOK
  <2>7. IndexInv'
    BY <1>6, <2>2, <2>3, <2>4, <2>6
    DEF ReadHeader, IndexInv, peerVars, Reading, HandlingPcs, ResponseWrites, SyncWrite, AsyncWrite, Ids
  <2>8. QED
    BY <1>6, <2>5, <2>7, WireStays, ContextStays, HistoryStays DEF ReadHeader
<1>7. CASE NoHeader
  <2>1. FrameTypeOK' /\ IndexInv'
    BY <1>7, FrameMoves DEF NoHeader, FrameTypeOK, PcStates
  <2>2. QED
    BY <1>7, <2>1, WireStays, ContextStays, HistoryStays DEF NoHeader
<1>8. CASE ReadTimesOut
  <2>1. FrameTypeOK' /\ IndexInv'
    BY <1>8, FrameMoves DEF ReadTimesOut, FrameTypeOK, PcStates
  <2>2. QED
    BY <1>8, <2>1, WireStays, ContextStays, HistoryStays DEF ReadTimesOut
<1>9. ASSUME NEW res \in Results, SendContinue(res) PROVE TypeInv'
  <2>1. pc' \in {"buffered", "close", "error"} /\ Reading /\ cur > 0
    BY <1>9 DEF SendContinue, Reading, IndexInv
  <2>2. FrameTypeOK' /\ IndexInv'
    BY <1>9, <2>1, FrameMoves DEF SendContinue, FrameTypeOK, PcStates
  <2>3. HistoryTypeOK'
    BY <1>9, <2>1 DEF SendContinue, HistoryTypeOK, FrameTypeOK, Ids
  <2>4. QED
    BY <1>9, <2>2, <2>3, WireStays, ContextStays DEF SendContinue
<1>10. CASE PutBuffered
  <2>1. sent[cur] \in RequestType /\ sent[cur].units \in Nat
    BY <1>10, SentIsRequest DEF PutBuffered, IndexInv, Reading, FrameTypeOK, WireTypeOK
  <2> DEFINE n == IF used < rd THEN Put(sent[cur], 0, rd - used) ELSE 0
  <2>2. n \in Nat /\ used + n <= rd /\ n <= sent[cur].units
    BY <2>1, BufferedPutBounds DEF FrameTypeOK
  <2>3. got' = n /\ used' = used + n /\ pc' \in {"error", "body"}
    BY <1>10 DEF PutBuffered
  <2> HIDE DEF n
  <2>4. FrameTypeOK'
    BY <1>10, <2>2, <2>3 DEF PutBuffered, FrameTypeOK, PcStates, peerVars
  <2>5. IndexInv'
    BY <1>10, <2>2, <2>3 DEF PutBuffered, IndexInv, peerVars, Reading, HandlingPcs,
       ResponseWrites, SyncWrite, AsyncWrite
  <2>6. QED
    BY <1>10, <2>4, <2>5, WireStays, ContextStays, HistoryStays DEF PutBuffered
<1>11. CASE ReadMoreBody
  <2>1. sent[cur] \in RequestType /\ sent[cur].units \in Nat
    BY <1>11, SentIsRequest DEF ReadMoreBody, IndexInv, Reading, FrameTypeOK, WireTypeOK
  <2>2. PICK n \in (rd + 1)..Len(out) :
          /\ rd' = n
          /\ used' = used + Put(sent[cur], got, n - used)
          /\ got' = got + Put(sent[cur], got, n - used)
    BY <1>11 DEF ReadMoreBody
  <2> DEFINE taken == Put(sent[cur], got, n - used)
  <2>3. n - used \in Nat /\ got <= sent[cur].units
    BY <1>11 DEF ReadMoreBody, FrameTypeOK, WireTypeOK, IndexInv, Reading
  <2>4. taken \in Nat /\ taken <= n - used /\ got + taken <= sent[cur].units
    BY <2>1, <2>3, PutBounds DEF FrameTypeOK
  <2>5. used' = used + taken /\ got' = got + taken /\ rd' = n /\ pc' = pc
    BY <1>11, <2>2 DEF ReadMoreBody
  <2> HIDE DEF taken
  <2>6. FrameTypeOK'
    BY <1>11, <2>4, <2>5 DEF ReadMoreBody, FrameTypeOK, WireTypeOK, peerVars
  <2>7. IndexInv'
    BY <1>11, <2>4, <2>5 DEF ReadMoreBody, IndexInv, peerVars, Reading
  <2>8. QED
    BY <1>11, <2>6, <2>7, WireStays, ContextStays, HistoryStays DEF ReadMoreBody
<1>12. CASE PartialChunk
  <2>1. FrameTypeOK' /\ IndexInv'
    BY <1>12, FrameMoves DEF PartialChunk, FrameTypeOK, PcStates, IndexInv
  <2>2. QED
    BY <1>12, <2>1, WireStays, ContextStays, HistoryStays DEF PartialChunk
<1>13. CASE BodyCut
  <2>1. FrameTypeOK' /\ IndexInv'
    BY <1>13, FrameMoves DEF BodyCut, FrameTypeOK, PcStates
  <2>2. QED
    BY <1>13, <2>1, WireStays, ContextStays, HistoryStays DEF BodyCut
<1>14. CASE BodyComplete
  <2>1. Reading /\ cur > 0 /\ pc' \in {"error", "dispatch"}
    BY <1>14 DEF BodyComplete, Reading, IndexInv
  <2>2. FrameTypeOK' /\ IndexInv'
    BY <1>14, <2>1, FrameMoves DEF BodyComplete, FrameTypeOK, PcStates, HandlingPcs
  <2>3. QED
    BY <1>14, <2>2, WireStays, ContextStays, HistoryStays DEF BodyComplete
<1>15. ASSUME NEW type \in ResponseTypes, Dispatch(type) PROVE TypeInv'
  <2>1. FrameTypeOK' /\ IndexInv'
    BY <1>15, FrameMoves DEF Dispatch, FrameTypeOK, PcStates, HandlingPcs
  <2>2. ContextTypeOK'
    BY <1>15 DEF Dispatch, ContextTypeOK
  <2>3. QED
    BY <1>15, <2>1, <2>2, WireStays, HistoryStays DEF Dispatch
<1>16. CASE NotFound
  <2>1. FrameTypeOK' /\ IndexInv'
    BY <1>16, FrameMoves DEF NotFound, FrameTypeOK, PcStates, HandlingPcs
  <2>2. ContextTypeOK'
    BY <1>16 DEF NotFound, ContextTypeOK
  <2>3. QED
    BY <1>16, <2>1, <2>2, WireStays, HistoryStays DEF NotFound
<1>17. ASSUME NEW b \in Behaviours, NEW w \in ResponseWrites, Handler(b, w) PROVE TypeInv'
  <2>1. pc \in HandlingPcs /\ cur > 0 /\ pc' \in {"error"} \cup (HandlingPcs \cap PcStates)
    BY <1>17 DEF Handler, Inline, HandlingPcs, PcStates, IndexInv
  <2>2. FrameTypeOK' /\ IndexInv'
    BY <1>17, <2>1, FrameMoves DEF Handler, FrameTypeOK, PcStates
  <2>3. ContextTypeOK'
    <3>1. AutoAfter(b) \in BOOLEAN
      BY DEF AutoAfter
    <3>2. auto' \in [Ids -> BOOLEAN] /\ resType' = resType
      BY <1>17, <3>1 DEF Handler, ContextTypeOK
    <3>3. task' \in [Ids -> TaskStates]
      BY <1>17 DEF Handler, ContextTypeOK, TaskStates
    <3>4. QED
      BY <3>2, <3>3 DEF ContextTypeOK
  <2>4. HistoryTypeOK'
    BY <1>17 DEF Handler, HistoryTypeOK
  <2>5. QED
    BY <1>17, <2>2, <2>3, <2>4, WireStays DEF Handler
<1>18. CASE NoAutoResponse
  <2>1. FrameTypeOK'
    BY <1>18 DEF NoAutoResponse, FrameTypeOK, PcStates, peerVars
  <2>2. IndexInv'
    BY <1>18 DEF NoAutoResponse, IndexInv, peerVars, Reading, HandlingPcs, ResponseWrites,
       SyncWrite, AsyncWrite
  <2>3. QED
    BY <1>18, <2>1, <2>2, WireStays, ContextStays, HistoryStays DEF NoAutoResponse
<1>19. ASSUME NEW w \in ResponseWrites, AutoResponse(w) PROVE TypeInv'
  <2>1. FrameTypeOK' /\ IndexInv'
    BY <1>19, FrameMoves DEF AutoResponse, FrameTypeOK, PcStates, HandlingPcs
  <2>2. HistoryTypeOK'
    BY <1>19 DEF AutoResponse, HistoryTypeOK
  <2>3. QED
    BY <1>19, <2>1, <2>2, WireStays, ContextStays DEF AutoResponse
<1>20. ASSUME NEW res \in Results, WriteDone(res) PROVE TypeInv'
  <2>1. cur \in Ids /\ cur <= Len(sent) /\ pc' \in {"header", "returned", "error"}
    BY <1>20 DEF WriteDone, IndexInv, HandlingPcs, ResponseWrites, SyncWrite, AsyncWrite,
       FrameTypeOK, Ids
  <2>2. stream' \in {stream, "closed"}
    BY <1>20 DEF WriteDone, StreamAfter
  <2>3. FrameTypeOK'
    BY <1>20, <2>2 DEF WriteDone, FrameTypeOK, PcStates, peerVars
  <2>4. IndexInv'
    BY <1>20, <2>1 DEF WriteDone, IndexInv, peerVars, Reading, HandlingPcs, ResponseWrites,
       SyncWrite, AsyncWrite, Ids
  <2>5. HistoryTypeOK'
    BY <1>20, <2>1 DEF WriteDone, Answered, HistoryTypeOK
  <2>6. QED
    BY <1>20, <2>3, <2>4, <2>5, WireStays, ContextStays DEF WriteDone
<1>21. CASE StartError
  <2>1. FrameTypeOK' /\ IndexInv'
    BY <1>21, FrameMoves DEF StartError, FrameTypeOK, PcStates, IndexInv
  <2>2. QED
    BY <1>21, <2>1, WireStays, ContextStays, HistoryStays DEF StartError
<1>22. ASSUME NEW res \in Results, Write500Done(res) PROVE TypeInv'
  <2>1. cur \in Ids
    BY <1>22 DEF Write500Done, IndexInv, FrameTypeOK, Ids
  <2>2. FrameTypeOK' /\ IndexInv'
    BY <1>22, FrameMoves DEF Write500Done, FrameTypeOK, PcStates
  <2>3. HistoryTypeOK'
    BY <1>22, <2>1 DEF Write500Done, Answered, HistoryTypeOK
  <2>4. QED
    BY <1>22, <2>2, <2>3, WireStays, ContextStays DEF Write500Done
<1>23. CASE Close
  <2>1. FrameTypeOK' /\ IndexInv'
    BY <1>23, FrameMoves DEF Close, FrameTypeOK, PcStates
  <2>2. QED
    BY <1>23, <2>1, WireStays, ContextStays, HistoryStays DEF Close
<1>24. ASSUME NEW r \in Ids, NEW w \in ResponseWrites, TaskStart(r, w) PROVE TypeInv'
  <2>1. FrameTypeOK' /\ IndexInv'
    BY <1>24, FrameMoves DEF TaskStart, FrameTypeOK
  <2>2. ContextTypeOK'
    BY <1>24 DEF TaskStart, ContextTypeOK, TaskStates
  <2>3. HistoryTypeOK'
    BY <1>24 DEF TaskStart, HistoryTypeOK
  <2>4. QED
    BY <1>24, <2>1, <2>2, <2>3, WireStays DEF TaskStart
<1>25. ASSUME NEW r \in Ids, NEW res \in Results, TaskDone(r, res) PROVE TypeInv'
  <2>1. stream' \in {stream, "closed"}
    BY <1>25 DEF TaskDone
  <2>2. FrameTypeOK' /\ IndexInv'
    BY <1>25, <2>1, FrameMoves DEF TaskDone, FrameTypeOK, readVars
  <2>3. ContextTypeOK'
    BY <1>25 DEF TaskDone, ContextTypeOK, TaskStates
  <2>4. HistoryTypeOK'
    BY <1>25 DEF TaskDone, Answered, HistoryTypeOK
  <2>5. QED
    BY <1>25, <2>2, <2>3, <2>4, WireStays DEF TaskDone
<1>26. ASSUME NEW r \in Ids, TaskCloses(r) PROVE TypeInv'
  <2>1. FrameTypeOK' /\ IndexInv'
    BY <1>26, FrameMoves DEF TaskCloses, FrameTypeOK
  <2>2. ContextTypeOK'
    BY <1>26 DEF TaskCloses, ContextTypeOK, TaskStates
  <2>3. HistoryTypeOK'
    BY <1>26 DEF TaskCloses, HistoryTypeOK
  <2>4. QED
    BY <1>26, <2>1, <2>2, <2>3, WireStays DEF TaskCloses
<1>27. CASE UNCHANGED vars
  BY <1>27, FrameMoves, WireStays, ContextStays, HistoryStays DEF vars, FrameTypeOK
<1>28. QED
  BY <1>1, <1>2, <1>3, <1>4, <1>5, <1>6, <1>7, <1>8, <1>9, <1>10, <1>11, <1>12,
     <1>13, <1>14, <1>15, <1>16, <1>17, <1>18, <1>19, <1>20, <1>21, <1>22, <1>23,
     <1>24, <1>25, <1>26, <1>27 DEF Next, Peer, Session, SessionWrite

(* Types are right, whatever the peer, the handlers and their tasks do.      *)
THEOREM TypeCorrect == Spec => []TypeOK
<1>1. TypeInv => TypeOK
  BY DEF TypeInv
<1>2. QED
  BY TypeInit, TypeNext, <1>1, PTL DEF Spec

-----------------------------------------------------------------------------
(* The framing of bodies, in any environment.                               *)

\* Who moves the stream of units: the peer, and nobody else.
LEMMA WireSteps ==
  [Next]_vars => \/ \E q \in Requests : SendHead(q)
                 \/ SendBody
                 \/ CutHead
                 \/ UNCHANGED <<sent, out, toSend>>
<1> SUFFICES ASSUME [Next]_vars, ~ \E q \in Requests : SendHead(q), ~SendBody, ~CutHead
             PROVE  UNCHANGED <<sent, out, toSend>>
  OBVIOUS
<1>1. CASE Peer
  BY <1>1 DEF Peer, PeerTurns
<1>2. CASE Expire
  BY <1>2 DEF Expire, peerVars
<1>3. CASE Session
  BY <1>3 DEF Session, ReadHeader, NoHeader, ReadTimesOut, PutBuffered, ReadMoreBody,
     PartialChunk, BodyCut, BodyComplete, Dispatch, NotFound, Handler, NoAutoResponse,
     AutoResponse, StartError, Close, peerVars
<1>4. ASSUME NEW res \in Results, SessionWrite(res) PROVE UNCHANGED <<sent, out, toSend>>
  BY <1>4 DEF SessionWrite, SendContinue, WriteDone, Write500Done, peerVars
<1>5. ASSUME NEW r \in Ids, NEW w \in ResponseWrites, TaskStart(r, w)
      PROVE  UNCHANGED <<sent, out, toSend>>
  BY <1>5 DEF TaskStart, peerVars
<1>6. ASSUME NEW r \in Ids, NEW res \in Results, TaskDone(r, res)
      PROVE  UNCHANGED <<sent, out, toSend>>
  BY <1>6 DEF TaskDone, peerVars
<1>7. ASSUME NEW r \in Ids, TaskCloses(r) PROVE UNCHANGED <<sent, out, toSend>>
  BY <1>7 DEF TaskCloses, peerVars
<1>8. CASE UNCHANGED vars
  BY <1>8 DEF vars, peerVars
<1>9. QED
  BY <1>1, <1>2, <1>3, <1>4, <1>5, <1>6, <1>7, <1>8 DEF Next

\* Every step keeps a header and its body together.
LEMMA WireNext == TypeInv /\ WireInv /\ [Next]_vars => WireInv'
<1> SUFFICES ASSUME TypeInv, WireInv, [Next]_vars PROVE WireInv'
  OBVIOUS
<1>a. /\ WireTypeOK /\ IndexInv
      /\ Len(out) \in Nat /\ Len(sent) \in Nat /\ toSend \in Nat
  BY DEF TypeInv, TypeOK, WireTypeOK
<1>b. ASSUME NEW i \in 1..Len(out), out[i].part = "head"
      PROVE  /\ out[i].req \in 1..Len(sent)
             /\ sent[out[i].req].units \in Nat
             /\ BodyFollows(i)
  <2>1. out[i] \in Unit
    BY <1>a DEF WireTypeOK
  <2>2. out[i].req \in 1..Len(sent)
    BY <1>a, <1>b, <2>1, SessionAssumption DEF Unit, Ids, IndexInv
  <2>3. QED
    BY <1>a, <1>b, <2>2, SentIsRequest DEF WireInv
<1>1. ASSUME NEW q \in Requests, SendHead(q) PROVE WireInv'
  <2> DEFINE u == [req |-> Len(sent) + 1, part |-> "head"]
  <2>1. /\ sent' = Append(sent, q) /\ out' = Append(out, u) /\ toSend' = q.units
        /\ toSend = 0 /\ q.units \in Nat
    BY <1>1, SessionAssumption DEF SendHead, MaySend, RequestType
  <2>2. /\ Len(out') = Len(out) + 1 /\ out'[Len(out) + 1] = u
        /\ Len(sent') = Len(sent) + 1 /\ sent'[Len(sent) + 1] = q
        /\ \A i \in 1..Len(out) : out'[i] = out[i]
        /\ \A r \in 1..Len(sent) : sent'[r] = sent[r]
    BY <1>a, <2>1 DEF WireTypeOK
  <2> SUFFICES ASSUME NEW i \in 1..Len(out'), out'[i].part = "head"
               PROVE  BodyFollows(i)'
    BY DEF WireInv
  <2>3. CASE i \in 1..Len(out)
    <3>1. /\ out'[i] = out[i] /\ sent'[out[i].req] = sent[out[i].req]
          /\ sent[out[i].req].units \in Nat /\ BodyFollows(i)
      BY <1>b, <2>2, <2>3
    <3>2. i + sent[out[i].req].units <= Len(out)
      BY <1>a, <2>1, <2>3, <3>1 DEF BodyFollows
    <3> DEFINE b == sent[out[i].req].units
    <3>3. sent'[out'[i].req].units = b /\ out'[i].req = out[i].req
      BY <3>1
    <3>4. i + b <= Len(out')
      BY <1>a, <2>2, <2>3, <3>1, <3>2
    <3>5. ASSUME NEW k \in (i + 1)..(i + b)
          PROVE  out'[k] = [req |-> out[i].req, part |-> "body"]
      <4>1. k \in 1..Len(out)
        BY <1>a, <2>3, <3>1, <3>2
      <4>2. out[k] = [req |-> out[i].req, part |-> "body"]
        BY <3>1, <4>1 DEF BodyFollows
      <4>3. QED
        BY <2>2, <4>1, <4>2
    <3>6. b \in Nat /\ i \in Nat /\ Len(out') \in Nat
      BY <1>a, <2>2, <2>3, <3>1
    <3> HIDE DEF b
    <3>7. QED
      BY <3>3, <3>4, <3>5, <3>6 DEF BodyFollows
  <2>4. CASE i = Len(out) + 1
    BY <1>a, <2>1, <2>2, <2>4 DEF BodyFollows
  <2>5. QED
    BY <1>a, <2>2, <2>3, <2>4
<1>2. CASE SendBody
  <2> DEFINE u == [req |-> Len(sent), part |-> "body"]
  <2>1. out' = Append(out, u) /\ toSend' = toSend - 1 /\ sent' = sent /\ toSend > 0
    BY <1>2 DEF SendBody
  <2>2. /\ Len(out') = Len(out) + 1 /\ out'[Len(out) + 1] = u
        /\ \A i \in 1..Len(out) : out'[i] = out[i]
    BY <1>a, <2>1 DEF WireTypeOK
  <2> SUFFICES ASSUME NEW i \in 1..Len(out'), out'[i].part = "head"
               PROVE  BodyFollows(i)'
    BY DEF WireInv
  <2>3. i \in 1..Len(out) /\ out'[i] = out[i]
    BY <1>a, <2>2
  <2>4. sent[out[i].req].units \in Nat /\ BodyFollows(i)
    BY <1>b, <2>3
  <2>5. CASE i + sent[out[i].req].units > Len(out)
    <3>1. out[i].req = Len(sent) /\ i + sent[out[i].req].units = Len(out) + toSend
      BY <2>4, <2>5 DEF BodyFollows
    <3>2. ASSUME NEW k \in (i + 1)..(i + sent[out[i].req].units), k <= Len(out')
          PROVE  out'[k] = [req |-> out[i].req, part |-> "body"]
      <4>1. CASE k <= Len(out)
        BY <1>a, <2>2, <2>3, <2>4, <4>1 DEF BodyFollows
      <4>2. CASE k = Len(out) + 1
        BY <2>2, <3>1, <4>2
      <4>3. QED
        BY <1>a, <2>2, <2>4, <3>2, <4>1, <4>2
    <3>3. i + sent[out[i].req].units = Len(out') + toSend'
      BY <1>a, <2>1, <2>2, <3>1
    <3>4. QED
      BY <2>1, <2>3, <3>1, <3>2, <3>3 DEF BodyFollows
  <2>6. CASE i + sent[out[i].req].units <= Len(out)
    BY <1>a, <2>1, <2>2, <2>3, <2>4, <2>6 DEF BodyFollows
  <2>7. QED
    BY <1>a, <2>3, <2>4, <2>5, <2>6
<1>3. CASE CutHead
  <2> DEFINE u == [req |-> Len(sent) + 1, part |-> "frag"]
  <2>1. out' = Append(out, u) /\ toSend' = toSend /\ sent' = sent /\ toSend = 0
    BY <1>3 DEF CutHead, MaySend
  <2>2. /\ Len(out') = Len(out) + 1 /\ out'[Len(out) + 1] = u
        /\ \A i \in 1..Len(out) : out'[i] = out[i]
    BY <1>a, <2>1 DEF WireTypeOK
  <2> SUFFICES ASSUME NEW i \in 1..Len(out'), out'[i].part = "head"
               PROVE  BodyFollows(i)'
    BY DEF WireInv
  <2>3. i \in 1..Len(out) /\ out'[i] = out[i]
    BY <1>a, <2>2
  <2>4. sent[out[i].req].units \in Nat /\ BodyFollows(i)
    BY <1>b, <2>3
  <2>5. i + sent[out[i].req].units <= Len(out)
    BY <1>a, <2>1, <2>3, <2>4 DEF BodyFollows
  <2>6. QED
    BY <1>a, <2>1, <2>2, <2>3, <2>4, <2>5 DEF BodyFollows
<1>4. CASE UNCHANGED <<sent, out, toSend>>
  BY <1>4 DEF WireInv, BodyFollows
<1>5. QED
  BY <1>1, <1>2, <1>3, <1>4, WireSteps

\* A step that reads nothing keeps the position, if it takes the request on only
\* once its body is complete.
LEMMA PosMoves ==
  ASSUME PosInv, FrameTypeOK, UNCHANGED <<peerVars, readVars>>,
         \/ pc' \in {"close", "done", "error", "write500"}
         \/ pc' = pc
         \/ pc' \in HandlingPcs /\ pc \in HandlingPcs
         \/ pc' = "buffered" /\ pc = "continue"
         \/ pc' = "dispatch" /\ Reading /\ got = sent[cur].units
  PROVE  PosInv'
BY DEF PosInv, FrameTypeOK, peerVars, readVars, Reading, HandlingPcs, ResponseWrites,
   SyncWrite, AsyncWrite, PcStates

\* So does a step of the peer that sends more.
LEMMA PosSends ==
  ASSUME PosInv, FrameTypeOK, IndexInv, WireTypeOK, UNCHANGED <<pc, readVars>>,
         Len(out') \in Nat, Len(out) <= Len(out'),
         \A i \in 1..Len(out) : out'[i] = out[i],
         \A r \in 1..Len(sent) : sent'[r] = sent[r]
  PROVE  PosInv'
<1>1. Reading \/ pc \in HandlingPcs => cur \in 1..Len(sent)
  BY DEF FrameTypeOK, WireTypeOK, IndexInv, Reading, HandlingPcs, ResponseWrites, SyncWrite,
     AsyncWrite
<1>2. got < used => used - got \in 1..Len(out)
  BY DEF FrameTypeOK, WireTypeOK
<1>3. Reading' = Reading /\ UNCHANGED <<pc, rd, used, cur, got>>
  BY DEF Reading, readVars
<1>4. Reading \/ pc \in HandlingPcs => sent'[cur] = sent[cur]
  BY <1>1
<1>5. got < used => out'[used - got] = out[used - got]
  BY <1>2
<1>6. QED
  BY <1>3, <1>4, <1>5 DEF PosInv

\* Every step keeps the position of the parser in its request.
LEMMA PosNext == TypeInv /\ PosInv /\ [Next]_vars => PosInv'
<1> SUFFICES ASSUME TypeInv, PosInv, [Next]_vars PROVE PosInv'
  OBVIOUS
<1>a. /\ WireTypeOK /\ FrameTypeOK /\ IndexInv
      /\ Len(out) \in Nat /\ Len(sent) \in Nat
  BY DEF TypeInv, TypeOK, WireTypeOK
<1>1. ASSUME NEW q \in Requests, SendHead(q) PROVE PosInv'
  <2>1. /\ Len(out') = Len(out) + 1
        /\ \A i \in 1..Len(out) : out'[i] = out[i]
        /\ \A r \in 1..Len(sent) : sent'[r] = sent[r]
    BY <1>a, <1>1 DEF SendHead, WireTypeOK
  <2>2. QED
    BY <1>a, <1>1, <2>1, PosSends DEF SendHead
<1>2. CASE SendBody
  <2>1. Len(out') = Len(out) + 1 /\ sent' = sent /\ \A i \in 1..Len(out) : out'[i] = out[i]
    BY <1>a, <1>2 DEF SendBody, WireTypeOK
  <2>2. QED
    BY <1>a, <1>2, <2>1, PosSends DEF SendBody
<1>3. CASE CutHead
  <2>1. Len(out') = Len(out) + 1 /\ sent' = sent /\ \A i \in 1..Len(out) : out'[i] = out[i]
    BY <1>a, <1>3 DEF CutHead, WireTypeOK
  <2>2. QED
    BY <1>a, <1>3, <2>1, PosSends DEF CutHead
<1>4. ASSUME NEW to \in {"stalled", "fin", "reset"}, PeerTurns(to) PROVE PosInv'
  BY <1>a, <1>4, PosSends DEF PeerTurns
<1>5. CASE Expire
  BY <1>a, <1>5, PosMoves DEF Expire
<1>6. CASE ReadHeader
  <2>1. CASE pc' = "error"
    BY <2>1 DEF PosInv, Reading, HandlingPcs, ResponseWrites, SyncWrite, AsyncWrite
  <2>2. CASE pc' # "error"
    <3>1. out[rd + 1] \in Unit /\ out[rd + 1].part = "head"
      BY <1>a, <1>6, <2>2 DEF ReadHeader, WireTypeOK, FrameTypeOK
    <3>2. out[rd + 1] = [req |-> cur', part |-> "head"]
      BY <1>6, <3>1 DEF ReadHeader, Unit
    <3>3. /\ pc' \in {"dispatch", "continue", "buffered"}
          /\ pc' = "dispatch" <=> ~sent[cur'].post
      BY <1>6, <2>2 DEF ReadHeader, ReadsBody
    <3>4. used' - got' = rd + 1 /\ got' < used' /\ got' = 0 /\ out' = out /\ sent' = sent
      BY <1>a, <1>6 DEF ReadHeader, PosInv, FrameTypeOK, peerVars
    <3>5. QED
      BY <3>2, <3>3, <3>4 DEF PosInv, Reading, HandlingPcs, ResponseWrites, SyncWrite, AsyncWrite
  <2>3. QED
    BY <2>1, <2>2
<1>7. CASE NoHeader
  BY <1>a, <1>7, PosMoves DEF NoHeader
<1>8. CASE ReadTimesOut
  BY <1>a, <1>8, PosMoves DEF ReadTimesOut
<1>9. ASSUME NEW res \in Results, SendContinue(res) PROVE PosInv'
  BY <1>a, <1>9, PosMoves DEF SendContinue
<1>10. CASE PutBuffered
  <2> DEFINE n == IF used < rd THEN Put(sent[cur], 0, rd - used) ELSE 0
  <2>1. cur \in 1..Len(sent) /\ Reading
    BY <1>a, <1>10 DEF PutBuffered, FrameTypeOK, IndexInv, Reading
  <2>2. sent[cur] \in RequestType /\ sent[cur].units \in Nat
    BY <1>a, <2>1, SentIsRequest
  <2>3. n \in Nat
    BY <1>a, <2>2, BufferedPutBounds DEF FrameTypeOK
  <2>4. /\ got' = n /\ used' = used + n /\ pc' \in {"error", "body"}
        /\ UNCHANGED <<sent, out, cur>> /\ got = 0
    BY <1>10 DEF PutBuffered, peerVars, PosInv
  <2> HIDE DEF n
  <2>5. used' - got' = used - got /\ (got < used => got' < used')
    BY <1>a, <2>3, <2>4 DEF FrameTypeOK
  <2>6. QED
    BY <2>1, <2>4, <2>5 DEF PosInv, Reading, HandlingPcs, ResponseWrites, SyncWrite, AsyncWrite
<1>11. CASE ReadMoreBody
  <2>1. cur \in 1..Len(sent) /\ Reading /\ pc = "body"
    BY <1>a, <1>11 DEF ReadMoreBody, FrameTypeOK, IndexInv, Reading
  <2>2. sent[cur] \in RequestType /\ sent[cur].units \in Nat /\ got <= sent[cur].units
    BY <1>a, <2>1, SentIsRequest DEF IndexInv
  <2>3. PICK n \in (rd + 1)..Len(out) :
          /\ used' = used + Put(sent[cur], got, n - used)
          /\ got' = got + Put(sent[cur], got, n - used)
    BY <1>11 DEF ReadMoreBody
  <2> DEFINE taken == Put(sent[cur], got, n - used)
  <2>4. n - used \in Nat
    BY <1>a DEF FrameTypeOK
  <2>5. taken \in Nat
    BY <1>a, <2>2, <2>4, PutBounds DEF FrameTypeOK
  <2>6. got' = got + taken /\ used' = used + taken
    BY <2>3
  <2> HIDE DEF taken
  <2>7. used' - got' = used - got /\ (got < used => got' < used')
    BY <1>a, <2>5, <2>6 DEF FrameTypeOK
  <2>8. pc' = "body" /\ UNCHANGED <<sent, out, cur>>
    BY <1>11, <2>1 DEF ReadMoreBody, peerVars
  <2>9. QED
    BY <2>1, <2>7, <2>8 DEF PosInv, Reading, HandlingPcs, ResponseWrites, SyncWrite, AsyncWrite
<1>12. CASE PartialChunk
  BY <1>a, <1>12, PosMoves DEF PartialChunk
<1>13. CASE BodyCut
  BY <1>a, <1>13, PosMoves DEF BodyCut
<1>14. CASE BodyComplete
  BY <1>a, <1>14, PosMoves DEF BodyComplete, BodyDone, Reading
<1>15. ASSUME NEW type \in ResponseTypes, Dispatch(type) PROVE PosInv'
  BY <1>a, <1>15, PosMoves DEF Dispatch, HandlingPcs
<1>16. CASE NotFound
  BY <1>a, <1>16, PosMoves DEF NotFound, HandlingPcs
<1>17. ASSUME NEW b \in Behaviours, NEW w \in ResponseWrites, Handler(b, w) PROVE PosInv'
  BY <1>a, <1>17, PosMoves DEF Handler, Inline, HandlingPcs
<1>18. CASE NoAutoResponse
  BY <1>a, <1>18 DEF NoAutoResponse, PosInv, Reading, HandlingPcs, ResponseWrites, SyncWrite,
     AsyncWrite, FrameTypeOK
<1>19. ASSUME NEW w \in ResponseWrites, AutoResponse(w) PROVE PosInv'
  BY <1>a, <1>19, PosMoves DEF AutoResponse, HandlingPcs
<1>20. ASSUME NEW res \in Results, WriteDone(res) PROVE PosInv'
  <2>1. CASE auto[cur]
    BY <1>a, <1>20, <2>1 DEF WriteDone, PosInv, Reading, HandlingPcs, ResponseWrites, SyncWrite,
       AsyncWrite, FrameTypeOK
  <2>2. CASE ~auto[cur]
    BY <1>a, <1>20, <2>2, PosMoves DEF WriteDone, HandlingPcs, readVars
  <2>3. QED
    BY <2>1, <2>2
<1>21. CASE StartError
  BY <1>a, <1>21, PosMoves DEF StartError
<1>22. ASSUME NEW res \in Results, Write500Done(res) PROVE PosInv'
  BY <1>a, <1>22, PosMoves DEF Write500Done
<1>23. CASE Close
  BY <1>a, <1>23, PosMoves DEF Close
<1>24. ASSUME NEW r \in Ids, NEW w \in ResponseWrites, TaskStart(r, w) PROVE PosInv'
  BY <1>a, <1>24, PosMoves DEF TaskStart
<1>25. ASSUME NEW r \in Ids, NEW res \in Results, TaskDone(r, res) PROVE PosInv'
  BY <1>a, <1>25, PosMoves DEF TaskDone, readVars
<1>26. ASSUME NEW r \in Ids, TaskCloses(r) PROVE PosInv'
  BY <1>a, <1>26, PosMoves DEF TaskCloses
<1>27. CASE UNCHANGED vars
  BY <1>a, <1>27, PosMoves DEF vars
<1>28. QED
  BY <1>1, <1>2, <1>3, <1>4, <1>5, <1>6, <1>7, <1>8, <1>9, <1>10, <1>11, <1>12,
     <1>13, <1>14, <1>15, <1>16, <1>17, <1>18, <1>19, <1>20, <1>21, <1>22, <1>23,
     <1>24, <1>25, <1>26, <1>27 DEF Next, Peer, Session, SessionWrite

\* At first nothing is sent and nothing read.
LEMMA BodyInit == Init => BodyInv
<1> SUFFICES ASSUME Init PROVE BodyInv
  OBVIOUS
<1>1. WireInv
  BY DEF Init, WireInv
<1>2. PosInv
  BY DEF Init, PosInv, Reading, HandlingPcs, ResponseWrites, SyncWrite, AsyncWrite
<1>3. QED
  BY <1>1, <1>2, TypeInit DEF BodyInv

\* What BodyInv says of the body being parsed holds after every step.
LEMMA BodyNext == BodyInv /\ [Next]_vars => BodyInv'
BY TypeNext, WireNext, PosNext DEF BodyInv

(* Whatever the peer, the stream's splits and the handlers do, the parser has  *)
(* taken a whole request from its header on, or a first part of one.          *)
THEOREM BodyInvariance == Spec => []BodyInv
BY BodyInit, BodyNext, PTL DEF Spec

\* What a handler works on starts with the header of its request and goes on
\* with the pieces of its body: the positions come from PosInv, what is written
\* there from WireInv.
LEMMA BodyInvIsWhole == BodyInv => WholeBody
<1> SUFFICES ASSUME BodyInv, pc \in HandlingPcs, sent[cur].post
             PROVE  /\ got = sent[cur].units
                    /\ got < used
                    /\ out[used - got] = [req |-> cur, part |-> "head"]
                    /\ \A i \in (used - got + 1)..used : out[i] = [req |-> cur, part |-> "body"]
  BY DEF WholeBody, HandlingPcs
<1>1. /\ got = sent[cur].units /\ got < used
      /\ out[used - got] = [req |-> cur, part |-> "head"]
  BY DEF BodyInv, PosInv
<1>2. /\ used \in Nat /\ got \in Nat /\ Len(out) \in Nat /\ used <= Len(out)
      /\ used - got \in 1..Len(out)
  BY <1>1 DEF BodyInv, TypeInv, TypeOK, FrameTypeOK, WireTypeOK
<1>3. BodyFollows(used - got)
  BY <1>1, <1>2 DEF BodyInv, WireInv
<1>4. ASSUME NEW i \in (used - got + 1)..used PROVE out[i] = [req |-> cur, part |-> "body"]
  <2>1. i \in (used - got + 1)..(used - got + sent[cur].units) /\ i <= Len(out)
    BY <1>1, <1>2
  <2>2. QED
    BY <1>1, <1>3, <2>1 DEF BodyFollows
<1>5. QED
  BY <1>1, <1>4

(* A handler of a POST or PUT is only ever run on the complete body of its own *)
(* request, however the bytes arrive, whatever is pipelined behind them and   *)
(* whatever other requests and their tasks do.                               *)
THEOREM BodiesAreWhole == Spec => []WholeBody
BY BodyInvariance, BodyInvIsWhole, PTL
-----------------------------------------------------------------------------
(* The body loop of plain requests.                                          *)

\* put() of a plain body stops short of the buffer's end only when the body is done.
LEMMA PlainPut ==
  ASSUME NEW q \in RequestType, ~q.chunked,
         NEW taken \in Nat, NEW avail \in Nat, taken <= q.units,
         taken + Put(q, taken, avail) # q.units
  PROVE  Put(q, taken, avail) = avail
BY DEF Put, Min2, RequestType

\* Every step of a session with plain requests uses up the buffer it reads from.
LEMMA BufferNext ==
  ASSUME PlainBodies
  PROVE  BodyInv /\ BufferConsumed /\ [Next]_vars => BufferConsumed'
<1> SUFFICES ASSUME BodyInv, BufferConsumed, [Next]_vars,
                    pc' = "body", ~BodyDone(sent'[cur'], got')
             PROVE  used' = rd'
  BY DEF BufferConsumed
<1>a. /\ WireTypeOK /\ FrameTypeOK /\ IndexInv /\ PosInv
      /\ Len(out) \in Nat /\ rd \in Nat /\ used \in Nat /\ got \in Nat /\ used <= rd
  BY DEF BodyInv, TypeInv, TypeOK, WireTypeOK, FrameTypeOK
<1>b. ASSUME Reading
      PROVE  /\ sent[cur] \in RequestType /\ ~sent[cur].chunked
             /\ sent[cur].units \in Nat /\ got <= sent[cur].units
  <2>1. cur \in 1..Len(sent) /\ sent[cur] \in Requests
    BY <1>a, <1>b DEF IndexInv, FrameTypeOK, WireTypeOK, Reading
  <2>2. QED
    BY <1>a, <1>b, <2>1, SentIsRequest DEF IndexInv, PlainBodies
<1>1. CASE PutBuffered
  <2>1. Reading /\ got = 0 /\ sent' = sent /\ cur' = cur /\ rd' = rd
    BY <1>a, <1>1 DEF PutBuffered, Reading, PosInv, peerVars
  <2>2. CASE used < rd
    <3>1. rd - used \in Nat /\ 0 <= sent[cur].units /\ sent[cur] \in RequestType
          /\ ~sent[cur].chunked /\ sent[cur].units \in Nat
      BY <1>a, <1>b, <2>1, <2>2
    <3>2. got' = Put(sent[cur], 0, rd - used) /\ used' = used + Put(sent[cur], 0, rd - used)
      BY <1>1, <2>2 DEF PutBuffered
    <3>3. Put(sent[cur], 0, rd - used) \in Nat
      BY <3>1, PutBounds
    <3>4. 0 + Put(sent[cur], 0, rd - used) # sent[cur].units
      BY <2>1, <3>2, <3>3 DEF BodyDone
    <3>5. Put(sent[cur], 0, rd - used) = rd - used
      BY <3>1, <3>4, PlainPut
    <3>6. QED
      BY <1>a, <2>1, <3>2, <3>5
  <2>3. CASE ~(used < rd)
    BY <1>a, <1>1, <2>1, <2>3 DEF PutBuffered
  <2>4. QED
    BY <2>2, <2>3
<1>2. CASE ReadMoreBody
  <2>1. Reading /\ sent' = sent /\ cur' = cur
    BY <1>2 DEF ReadMoreBody, Reading, peerVars
  <2>2. PICK n \in (rd + 1)..Len(out) :
          /\ rd' = n
          /\ used' = used + Put(sent[cur], got, n - used)
          /\ got' = got + Put(sent[cur], got, n - used)
    BY <1>2 DEF ReadMoreBody
  <2>3. n - used \in Nat /\ n \in Nat
    BY <1>a, <2>2
  <2>4. got + Put(sent[cur], got, n - used) # sent[cur].units
    BY <2>1, <2>2 DEF BodyDone
  <2>5. Put(sent[cur], got, n - used) = n - used
    BY <1>a, <1>b, <2>1, <2>3, <2>4, PlainPut
  <2>6. QED
    BY <1>a, <2>2, <2>3, <2>5
<1>3. CASE UNCHANGED <<rd, used, cur, got>> /\ (pc = "body" => sent'[cur] = sent[cur]) /\ pc = "body"
  BY <1>3 DEF BufferConsumed
<1>4. \/ PutBuffered \/ ReadMoreBody
      \/ pc = "body" /\ UNCHANGED <<rd, used, cur, got>> /\ sent'[cur] = sent[cur]
  <2>1. ASSUME pc = "body" PROVE cur \in 1..Len(sent)
    BY <1>a, <2>1 DEF IndexInv, FrameTypeOK, Reading
  <2>2. ASSUME NEW q \in Requests, SendHead(q)
        PROVE  pc = "body" /\ UNCHANGED <<rd, used, cur, got>> /\ sent'[cur] = sent[cur]
    BY <1>a, <2>1, <2>2 DEF SendHead, WireTypeOK, readVars
  <2>3. CASE SendBody \/ CutHead \/ Expire \/ UNCHANGED vars
    BY <2>3 DEF SendBody, CutHead, Expire, vars, readVars, peerVars
  <2>4. ASSUME NEW to \in {"stalled", "fin", "reset"}, PeerTurns(to)
        PROVE  pc = "body" /\ UNCHANGED <<rd, used, cur, got>> /\ sent'[cur] = sent[cur]
    BY <2>4 DEF PeerTurns, readVars
  <2>5. CASE Session
    BY <2>5 DEF Session, ReadHeader, NoHeader, ReadTimesOut, PartialChunk, BodyCut, BodyComplete,
       Dispatch, NotFound, Handler, NoAutoResponse, AutoResponse, StartError, Close,
       ResponseWrites, SyncWrite, AsyncWrite
  <2>6. ASSUME NEW res \in Results, SessionWrite(res) PROVE FALSE
    BY <2>6 DEF SessionWrite, SendContinue, WriteDone, Write500Done
  <2>7. ASSUME NEW r \in Ids, NEW w \in ResponseWrites, TaskStart(r, w)
        PROVE  pc = "body" /\ UNCHANGED <<rd, used, cur, got>> /\ sent'[cur] = sent[cur]
    BY <2>7 DEF TaskStart, readVars, peerVars
  <2>8. ASSUME NEW r \in Ids, NEW res \in Results, TaskDone(r, res)
        PROVE  pc = "body" /\ UNCHANGED <<rd, used, cur, got>> /\ sent'[cur] = sent[cur]
    BY <2>8 DEF TaskDone, readVars, peerVars
  <2>9. ASSUME NEW r \in Ids, TaskCloses(r)
        PROVE  pc = "body" /\ UNCHANGED <<rd, used, cur, got>> /\ sent'[cur] = sent[cur]
    BY <2>9 DEF TaskCloses, readVars, peerVars
  <2>10. QED
    BY <2>2, <2>3, <2>4, <2>5, <2>6, <2>7, <2>8, <2>9 DEF Next, Peer
<1>5. QED
  BY <1>1, <1>2, <1>3, <1>4

(* Where no request is chunked, the session never waits for more of a body     *)
(* while a part of it is left in the buffer, whatever the splits and the limits. *)
THEOREM BufferIsConsumed == ASSUME PlainBodies PROVE Spec => []BufferConsumed
<1>1. Init => BufferConsumed
  BY DEF Init, BufferConsumed
<1>2. BodyInv /\ BufferConsumed /\ [Next]_vars => (BodyInv /\ BufferConsumed)'
  BY BodyNext, BufferNext
<1>3. QED
  BY BodyInit, <1>1, <1>2, PTL DEF Spec

-----------------------------------------------------------------------------
(* Handlers that answer on the spot, whatever the peer sends.                 *)

\* A write that delivers is one to an open stream.
LEMMA OkMeansOpen == \A w : "ok" \in WriteResults(w) => stream = "open"
BY DEF WriteResults

\* Nothing is answered.
LEMMA KeepStays ==
  ASSUME KeepInv, UNCHANGED <<sent, answers>>, MayAnswer' => MayAnswer
  PROVE  KeepInv'
BY DEF KeepInv, CloseHonoured, MayAnswer

\* Request r is answered, if any is: the last answer if it asks to close.
LEMMA KeepAnswers ==
  ASSUME KeepInv, WireTypeOK, HistoryTypeOK, UNCHANGED sent,
         NEW r \in Ids, NEW res, answers' = Answered(r, res),
         res = "ok" => MayAnswer,
         MayAnswer' => MayAnswer /\ (res = "ok" /\ r <= Len(sent) => sent[r].keep)
  PROVE  KeepInv'
<1>1. CASE res = "ok"
  <2>1. /\ Len(answers') = Len(answers) + 1 /\ answers'[Len(answers) + 1] = r
        /\ \A i \in 1..Len(answers) : answers'[i] = answers[i]
        /\ Len(answers) \in Nat
    BY <1>1 DEF Answered, HistoryTypeOK
  <2>2. \A i \in 1..Len(answers) : answers[i] <= Len(sent) => sent[answers[i]].keep
    BY <1>1 DEF KeepInv, MayAnswer
  <2>3. CloseHonoured'
    BY <2>1, <2>2 DEF CloseHonoured
  <2>4. MayAnswer' => \A i \in 1..Len(answers') : answers'[i] <= Len(sent') => sent'[answers'[i]].keep
    BY <1>1, <2>1, <2>2
  <2>5. QED
    BY <2>3, <2>4 DEF KeepInv, MayAnswer
<1>2. CASE res # "ok"
  BY <1>2, KeepStays DEF Answered
<1>3. QED
  BY <1>1, <1>2

\* A step of neither the peer nor a write: the session takes up what the peer sent.
LEMMA SpotStays ==
  ASSUME TypeInv, SpotInv, UNCHANGED <<sent, out, task, answers>>,
         peer' = peer \/ peer' # "open",
         cur' = cur \/ (rd < Len(out) /\ cur' = out[rd + 1].req),
         stream' = "open" => stream = "open",
         pc \in {"close", "done"} => pc' \in {"close", "done"}
  PROVE  SpotInv'
<1>1. ~MayAnswer => ~MayAnswer'
  BY DEF MayAnswer
<1>2. KnownInv'
  <2>1. rd < Len(out) => rd + 1 \in 1..Len(out)
    BY DEF TypeInv, TypeOK, FrameTypeOK, WireTypeOK
  <2>2. QED
    BY <2>1 DEF SpotInv, KnownInv
<1>3. NoTask'
  BY DEF SpotInv, NoTask
<1>4. QED
  BY <1>1, <1>2, <1>3, KeepStays DEF SpotInv

\* The peer writes a unit: of the request it has sent last, of its next one, or a
\* part of a header with which it closes.
LEMMA SpotWrites ==
  ASSUME TypeInv, SpotInv, peer = "open", UNCHANGED <<pc, cur, stream, task, answers>>,
         NEW u \in Unit, out' = Append(out, u),
         \/ sent' = sent /\ (peer' # "open" \/ u.req <= Len(sent))
         \/ \E q \in Requests : sent' = Append(sent, q) /\ u.req = Len(sent) + 1
  PROVE  SpotInv'
<1>1. WireTypeOK /\ FrameTypeOK /\ HistoryTypeOK /\ NoTask /\ KnownInv /\ KeepInv
  BY DEF TypeInv, TypeOK, SpotInv
<1>2. Len(sent) \in Nat /\ Len(out) \in Nat
  BY <1>1 DEF WireTypeOK
<1>3. /\ \A i \in 1..Len(sent) : sent'[i] = sent[i]
      /\ Len(sent') \in Nat /\ Len(sent') >= Len(sent)
      /\ peer' = "open" => u.req <= Len(sent')
  <2>1. CASE sent' = sent /\ (peer' # "open" \/ u.req <= Len(sent))
    BY <1>2, <2>1
  <2>2. CASE \E q \in Requests : sent' = Append(sent, q) /\ u.req = Len(sent) + 1
    <3>1. PICK q \in Requests : sent' = Append(sent, q) /\ u.req = Len(sent) + 1
      BY <2>2
    <3>2. sent \in Seq(Requests)
      BY <1>1 DEF WireTypeOK
    <3>3. Len(sent') = Len(sent) + 1 /\ \A i \in 1..Len(sent) : sent'[i] = sent[i]
      BY <3>1, <3>2
    <3>4. QED
      BY <1>2, <3>1, <3>3
  <2>3. QED
    BY <2>1, <2>2
<1>4. /\ Len(out') = Len(out) + 1 /\ out'[Len(out) + 1] = u
      /\ \A k \in 1..Len(out) : out'[k] = out[k] /\ out[k] \in Unit
  BY <1>1 DEF WireTypeOK
<1>5. /\ cur \in Nat /\ cur <= Len(sent)
      /\ \A k \in 1..Len(answers) : answers[k] \in Nat \ {0} /\ answers[k] <= Len(sent)
      /\ \A k \in 1..Len(out) : out[k].req \in Nat /\ out[k].req <= Len(sent)
  <2>1. Ids \subseteq Nat \ {0} /\ MaxRequests \in Nat
    BY SessionAssumption DEF Ids
  <2>2. cur \in Nat
    BY <1>1, <2>1 DEF FrameTypeOK
  <2>3. \A k \in 1..Len(answers) : answers[k] \in Ids
    BY <1>1 DEF HistoryTypeOK
  <2>4. \A k \in 1..Len(out) : out[k].req \in Ids
    BY <1>4 DEF Unit
  <2>5. QED
    BY <1>1, <2>1, <2>2, <2>3, <2>4 DEF KnownInv
<1>6. KnownInv'
  <2>1. ASSUME peer' = "open", NEW k \in 1..Len(out') PROVE out'[k].req <= Len(sent')
    <3>1. CASE k \in 1..Len(out)
      BY <1>2, <1>3, <1>4, <1>5, <3>1
    <3>2. CASE k = Len(out) + 1
      BY <1>3, <1>4, <2>1, <3>2
    <3>3. QED
      BY <1>2, <1>4, <3>1, <3>2
  <2>2. QED
    BY <1>2, <1>3, <1>5, <2>1 DEF KnownInv
<1>7. NoTask' /\ (MayAnswer' <=> MayAnswer)
  BY <1>1 DEF NoTask, MayAnswer
<1>8. \A k \in 1..Len(answers) : answers[k] \in 1..Len(sent) /\ sent'[answers[k]] = sent[answers[k]]
  BY <1>2, <1>3, <1>5
<1>9. KeepInv'
  BY <1>1, <1>5, <1>7, <1>8 DEF KeepInv, CloseHonoured, MayAnswer
<1>10. QED
  BY <1>6, <1>7, <1>9 DEF SpotInv

\* The session answers cur, or fails to.
LEMMA SpotAnswers ==
  ASSUME TypeInv, SpotInv, cur \in Ids, UNCHANGED <<sent, out, peer, cur, task>>,
         NEW res, answers' = Answered(cur, res),
         res = "ok" => stream = "open", pc \notin {"close", "done"},
         stream' = "open" /\ pc' \notin {"close", "done"} =>
           stream = "open" /\ (res = "ok" /\ cur <= Len(sent) => sent[cur].keep)
  PROVE  SpotInv'
<1>1. WireTypeOK /\ HistoryTypeOK /\ NoTask /\ KnownInv /\ KeepInv
  BY DEF TypeInv, TypeOK, SpotInv
<1>2. NoTask'
  BY <1>1 DEF NoTask
<1>3. KeepInv'
  BY <1>1, KeepAnswers DEF MayAnswer
<1>4. KnownInv'
  <2>1. CASE res = "ok"
    <3>1. /\ Len(answers') = Len(answers) + 1 /\ answers'[Len(answers) + 1] = cur
          /\ \A k \in 1..Len(answers) : answers'[k] = answers[k]
          /\ Len(answers) \in Nat
      BY <1>1, <2>1 DEF Answered, HistoryTypeOK
    <3>2. ASSUME peer = "open", NEW k \in 1..Len(answers') PROVE answers'[k] <= Len(sent)
      <4>1. k \in 1..Len(answers) \/ k = Len(answers) + 1
        BY <3>1
      <4>2. QED
        BY <1>1, <3>1, <3>2, <4>1 DEF KnownInv
    <3>3. QED
      BY <1>1, <3>2 DEF KnownInv
  <2>2. CASE res # "ok"
    BY <1>1, <2>2 DEF Answered, KnownInv
  <2>3. QED
    BY <2>1, <2>2
<1>5. QED
  BY <1>2, <1>3, <1>4 DEF SpotInv

\* At first there is no task and no answer.
LEMMA SpotInit == Init => SpotInv
BY SessionAssumption DEF Init, SpotInv, NoTask, KnownInv, KeepInv, CloseHonoured

\* Every step keeps that a request which asks to close is the last one answered.
LEMMA SpotNext ==
  ASSUME NothingDeferred
  PROVE  TypeInv /\ SpotInv /\ [Next]_vars => SpotInv'
<1> SUFFICES ASSUME TypeInv, SpotInv, [Next]_vars PROVE SpotInv'
  OBVIOUS
<1>a. WireTypeOK /\ FrameTypeOK /\ HistoryTypeOK /\ IndexInv /\ NoTask
  BY DEF TypeInv, TypeOK, SpotInv
<1> USE DEF ResponseWrites, SyncWrite, AsyncWrite
<1>1. ASSUME NEW q \in Requests, SendHead(q) PROVE SpotInv'
  <2>1. [req |-> Len(sent) + 1, part |-> "head"] \in Unit
    BY <1>a, <1>1, SessionAssumption DEF SendHead, MaySend, Unit, Ids, WireTypeOK
  <2>2. QED
    BY <1>1, <2>1, SpotWrites DEF SendHead, MaySend, readVars, ctxVars
<1>2. CASE SendBody
  <2>1. [req |-> Len(sent), part |-> "body"] \in Unit
    BY <1>a, <1>2, SessionAssumption DEF SendBody, IndexInv, Unit, Ids, WireTypeOK
  <2>2. Len(sent) <= Len(sent)
    BY <1>a DEF WireTypeOK
  <2>3. QED
    BY <1>2, <2>1, <2>2, SpotWrites DEF SendBody, readVars, ctxVars
<1>3. CASE CutHead
  <2>1. [req |-> Len(sent) + 1, part |-> "frag"] \in Unit
    BY <1>a, <1>3, SessionAssumption DEF CutHead, MaySend, Unit, Ids, WireTypeOK
  <2>2. QED
    BY <1>3, <2>1, SpotWrites DEF CutHead, MaySend, readVars, ctxVars
<1>4. ASSUME NEW to \in {"stalled", "fin", "reset"}, PeerTurns(to) PROVE SpotInv'
  BY <1>4, SpotStays DEF PeerTurns, readVars, ctxVars
<1>5. CASE Expire
  BY <1>5, SpotStays DEF Expire, peerVars, readVars, ctxVars
<1>6. CASE ReadHeader
  BY <1>6, SpotStays DEF ReadHeader, peerVars, ctxVars
<1>7. CASE NoHeader \/ ReadTimesOut \/ PartialChunk \/ BodyCut \/ BodyComplete
  BY <1>7, SpotStays DEF NoHeader, ReadTimesOut, PartialChunk, BodyCut, BodyComplete, peerVars,
     readVars, ctxVars
<1>8. CASE PutBuffered \/ ReadMoreBody
  BY <1>8, SpotStays DEF PutBuffered, ReadMoreBody, peerVars, ctxVars
<1>9. ASSUME NEW res \in Results, SendContinue(res) PROVE SpotInv'
  BY <1>9, SpotStays DEF SendContinue, peerVars, readVars, ctxVars
<1>10. CASE NotFound \/ \E type \in ResponseTypes : Dispatch(type)
  BY <1>10, SpotStays DEF NotFound, Dispatch, peerVars, readVars
<1>11. ASSUME NEW b \in Behaviours, NEW w \in ResponseWrites, Handler(b, w) PROVE SpotInv'
  <2>1. b \in {"auto", "inline", "inlineThrow", "throw"}
    BY DEF NothingDeferred
  <2>2. task' = task
    BY <1>11, <2>1 DEF Handler
  <2>3. QED
    BY <1>11, <2>2, SpotStays DEF Handler, peerVars, readVars
<1>12. CASE NoAutoResponse \/ \E w \in ResponseWrites : AutoResponse(w)
  BY <1>12, SpotStays DEF NoAutoResponse, AutoResponse, peerVars, readVars, ctxVars
<1>13. ASSUME NEW res \in Results, WriteDone(res) PROVE SpotInv'
  <2>1. /\ cur \in Ids /\ pc \notin {"close", "done"}
        /\ UNCHANGED <<sent, out, peer, cur, task>> /\ answers' = Answered(cur, res)
    BY <1>a, <1>13 DEF WriteDone, IndexInv, FrameTypeOK, Ids, peerVars, ctxVars
  <2>2. res = "ok" => stream = "open"
    BY <1>13, OkMeansOpen DEF WriteDone
  <2>3. stream' = "open" => stream = "open" /\ sent[cur].keep
    BY <1>13 DEF WriteDone, StreamAfter, KeepOpen
  <2>4. QED
    BY <2>1, <2>2, <2>3, SpotAnswers
<1>14. CASE StartError \/ Close
  BY <1>14, SpotStays DEF StartError, Close, peerVars, readVars, ctxVars
<1>15. ASSUME NEW res \in Results, Write500Done(res) PROVE SpotInv'
  <2>1. /\ cur \in Ids /\ pc \notin {"close", "done"} /\ pc' = "close"
        /\ UNCHANGED <<sent, out, peer, cur, task>> /\ answers' = Answered(cur, res)
    BY <1>a, <1>15 DEF Write500Done, IndexInv, FrameTypeOK, Ids, peerVars, readVars, ctxVars
  <2>2. res = "ok" => stream = "open"
    BY <1>15, OkMeansOpen DEF Write500Done
  <2>3. QED
    BY <2>1, <2>2, SpotAnswers
<1>16. ASSUME NEW r \in Ids, NEW w \in ResponseWrites, TaskStart(r, w) PROVE FALSE
  BY <1>a, <1>16 DEF TaskStart, NoTask
<1>17. ASSUME NEW r \in Ids, NEW res \in Results, TaskDone(r, res) PROVE FALSE
  BY <1>a, <1>17 DEF TaskDone, NoTask
<1>18. ASSUME NEW r \in Ids, TaskCloses(r) PROVE FALSE
  BY <1>a, <1>18 DEF TaskCloses, NoTask
<1>19. CASE UNCHANGED vars
  BY <1>19, SpotStays DEF vars, peerVars, readVars, ctxVars
<1>20. QED
  BY <1>1, <1>2, <1>3, <1>4, <1>5, <1>6, <1>7, <1>8, <1>9, <1>10, <1>11, <1>12, <1>13, <1>14,
     <1>15, <1>16, <1>17, <1>18, <1>19 DEF Next, Peer, Session, SessionWrite

(* Where handlers answer on the spot, whatever the peer sends and however far   *)
(* ahead: what is answered was sent, and the stream is open for no answer after *)
(* a request that asked to close.                                            *)
THEOREM SpotInvariance == ASSUME NothingDeferred PROVE Spec => []SpotInv
<1>1. BodyInv => TypeInv
  BY DEF BodyInv
<1>2. QED
  BY SpotInit, SpotNext, BodyInvariance, <1>1, PTL DEF Spec

(* Where handlers answer on the spot, even if they then throw, a request that   *)
(* asks to close gets the last answer, although more may have been sent and read. *)
THEOREM CloseIsHonouredOnTheSpot == ASSUME NothingDeferred PROVE Spec => []CloseHonoured
<1>1. SpotInv => CloseHonoured
  BY DEF SpotInv, KeepInv
<1>2. QED
  BY SpotInvariance, <1>1, PTL

-----------------------------------------------------------------------------
(* A peer that sends ahead.                                                  *)

\* A header in the stream belongs to a request that was sent.
LEMMA HeadIsSent ==
  ASSUME WireTypeOK, IndexInv, NEW i \in 1..Len(out), out[i].part = "head"
  PROVE  out[i] \in Unit /\ out[i].req \in 1..Len(sent)
<1>1. out[i] \in Unit
  BY DEF WireTypeOK
<1>2. QED
  BY <1>1, SessionAssumption DEF Unit, Ids, IndexInv, WireTypeOK

\* The peer starts a request: what it writes comes after all that is there.
LEMMA OrderStarts ==
  ASSUME TypeInv, OrderInv, toSend = 0,
         NEW u \in Unit, u.req = Len(sent) + 1, out' = Append(out, u),
         \/ u.part = "head" /\ \E q \in Requests : sent' = Append(sent, q) /\ toSend' = q.units
         \/ u.part = "frag" /\ sent' = sent /\ toSend' = toSend
  PROVE  OrderInv'
<1>a. WireTypeOK /\ IndexInv /\ Len(out) \in Nat /\ Len(sent) \in Nat
  BY DEF TypeInv, TypeOK, WireTypeOK
<1>1. /\ Len(out') = Len(out) + 1 /\ out'[Len(out) + 1] = u
      /\ \A k \in 1..Len(out) : out'[k] = out[k]
      /\ \A r \in 1..Len(sent) : sent'[r] = sent[r]
  BY <1>a DEF WireTypeOK
<1> SUFFICES ASSUME NEW i \in 1..Len(out'), out'[i].part = "head"
             PROVE  OnlyLaterFollow(i)'
  BY DEF OrderInv
<1>2. CASE i \in 1..Len(out)
  <2>1. out'[i] = out[i] /\ out[i] \in Unit /\ out[i].part = "head" /\ out[i].req \in 1..Len(sent)
    BY <1>a, <1>1, <1>2, HeadIsSent
  <2>2. sent'[out[i].req] = sent[out[i].req] /\ sent[out[i].req].units \in Nat
    BY <1>a, <1>1, <2>1, SentIsRequest
  <2>3. OnlyLaterFollow(i)
    BY <1>2, <2>1 DEF OrderInv
  <2>4. ASSUME NEW k \in 1..Len(out'), k > i + sent[out[i].req].units
        PROVE  out'[k].req > out[i].req
    <3>1. CASE k \in 1..Len(out)
      BY <1>1, <2>3, <2>4, <3>1 DEF OnlyLaterFollow
    <3>2. CASE k = Len(out) + 1
      BY <1>a, <1>1, <2>1, <3>2
    <3>3. QED
      BY <1>a, <1>1, <3>1, <3>2
  <2>5. ~(toSend' > 0 /\ out[i].req = Len(sent'))
    BY <1>a, <2>1 DEF WireTypeOK
  <2>6. QED
    BY <2>1, <2>2, <2>4, <2>5 DEF OnlyLaterFollow
<1>3. CASE i = Len(out) + 1
  <2>1. out'[i] = u /\ u.part = "head"
    BY <1>1, <1>3
  <2>2. PICK q \in Requests : sent' = Append(sent, q) /\ toSend' = q.units
    BY <2>1
  <2>3. sent'[u.req].units = q.units /\ q.units \in Nat
    BY <1>a, <2>2, SessionAssumption DEF WireTypeOK, RequestType
  <2>4. QED
    BY <1>a, <1>1, <1>3, <2>1, <2>2, <2>3 DEF OnlyLaterFollow
<1>4. QED
  BY <1>a, <1>1, <1>2, <1>3

\* Every step keeps the requests in the stream in order.
LEMMA OrderNext == TypeInv /\ OrderInv /\ [Next]_vars => OrderInv'
<1> SUFFICES ASSUME TypeInv, OrderInv, [Next]_vars PROVE OrderInv'
  OBVIOUS
<1>a. WireTypeOK /\ IndexInv /\ Len(out) \in Nat /\ Len(sent) \in Nat /\ toSend \in Nat
  BY DEF TypeInv, TypeOK, WireTypeOK
<1>1. ASSUME NEW q \in Requests, SendHead(q) PROVE OrderInv'
  <2> DEFINE u == [req |-> Len(sent) + 1, part |-> "head"]
  <2>1. u \in Unit
    BY <1>a, <1>1, SessionAssumption DEF SendHead, MaySend, Unit, Ids
  <2>2. QED
    BY <1>1, <2>1, OrderStarts DEF SendHead, MaySend
<1>2. CASE CutHead
  <2> DEFINE u == [req |-> Len(sent) + 1, part |-> "frag"]
  <2>1. u \in Unit
    BY <1>a, <1>2, SessionAssumption DEF CutHead, MaySend, Unit, Ids
  <2>2. QED
    BY <1>2, <2>1, OrderStarts DEF CutHead, MaySend
<1>3. CASE SendBody
  <2> DEFINE u == [req |-> Len(sent), part |-> "body"]
  <2>1. out' = Append(out, u) /\ toSend' = toSend - 1 /\ sent' = sent /\ toSend > 0
    BY <1>3 DEF SendBody
  <2>2. /\ Len(out') = Len(out) + 1 /\ out'[Len(out) + 1] = u
        /\ \A k \in 1..Len(out) : out'[k] = out[k]
    BY <1>a, <2>1 DEF WireTypeOK
  <2> SUFFICES ASSUME NEW i \in 1..Len(out'), out'[i].part = "head"
               PROVE  OnlyLaterFollow(i)'
    BY DEF OrderInv
  <2>3. i \in 1..Len(out) /\ out'[i] = out[i]
    BY <1>a, <2>2
  <2>4. out[i].req \in 1..Len(sent) /\ OnlyLaterFollow(i)
    BY <1>a, <2>3, HeadIsSent DEF OrderInv
  <2>5. sent[out[i].req].units \in Nat
    BY <1>a, <2>4, SentIsRequest
  <2>6. out[i].req = Len(sent) => i + sent[out[i].req].units = Len(out) + toSend
    BY <2>1, <2>4 DEF OnlyLaterFollow
  <2>7. ASSUME NEW k \in 1..Len(out'), k > i + sent[out[i].req].units
        PROVE  out'[k].req > out[i].req
    <3>1. CASE k \in 1..Len(out)
      BY <2>2, <2>4, <2>7, <3>1 DEF OnlyLaterFollow
    <3>2. CASE k = Len(out) + 1
      <4>1. out[i].req # Len(sent)
        BY <1>a, <2>1, <2>5, <2>6, <2>7, <3>2
      <4>2. QED
        BY <1>a, <2>2, <2>4, <3>2, <4>1
    <3>3. QED
      BY <1>a, <2>2, <3>1, <3>2
  <2>8. i + sent[out[i].req].units = Len(out') + toSend' \/ out[i].req # Len(sent)
    BY <1>a, <2>1, <2>2, <2>5, <2>6
  <2>9. QED
    BY <2>1, <2>3, <2>7, <2>8 DEF OnlyLaterFollow
<1>4. CASE UNCHANGED <<sent, out, toSend>>
  BY <1>4 DEF OrderInv, OnlyLaterFollow
<1>5. QED
  BY <1>1, <1>2, <1>3, <1>4, WireSteps

\* A step that neither reads nor finishes reading.
LEMMA LaterMoves ==
  ASSUME LaterInv, UNCHANGED <<peerVars, readVars>>, Settled' => Settled
  PROVE  LaterInv'
BY DEF LaterInv, peerVars, readVars

\* The session has used up a request whose header is at i: all that follows it is
\* later, and if more of a request is still to be sent, it is not this one.
LEMMA LaterSettles ==
  ASSUME TypeInv, OrderInv, NEW i \in 1..Len(out),
         out[i].part = "head", out[i].req = cur',
         used' = i + sent[cur'].units, used' <= Len(out), UNCHANGED peerVars
  PROVE  LaterInv'
<1>a. WireTypeOK /\ IndexInv /\ Len(out) \in Nat /\ Len(sent) \in Nat /\ toSend \in Nat
  BY DEF TypeInv, TypeOK, WireTypeOK
<1>1. cur' \in 1..Len(sent)
  BY <1>a, HeadIsSent
<1>2. sent[cur'].units \in Nat
  BY <1>a, <1>1, SentIsRequest
<1>3. OnlyLaterFollow(i)
  BY DEF OrderInv
<1>4. \A k \in 1..Len(out) : k > used' => out[k].req > cur'
  BY <1>3 DEF OnlyLaterFollow
<1>5. toSend > 0 => cur' # Len(sent)
  BY <1>a, <1>2, <1>3 DEF OnlyLaterFollow
<1>6. QED
  BY <1>a, <1>1, <1>4, <1>5 DEF LaterInv, peerVars

\* The peer writes a unit that comes after cur.
LEMMA LaterSends ==
  ASSUME LaterInv, WireTypeOK, UNCHANGED <<pc, readVars>>,
         NEW u, out' = Append(out, u), Settled => u.req > cur,
         Len(sent) <= Len(sent'), Len(sent') \in Nat, cur \in Nat,
         Settled /\ toSend' > 0 => cur < Len(sent')
  PROVE  LaterInv'
<1>1. Settled' = Settled /\ cur' = cur /\ used' = used
  BY DEF Settled, readVars
<1> SUFFICES ASSUME Settled
             PROVE  /\ cur <= Len(sent') /\ (toSend' > 0 => cur < Len(sent'))
                    /\ \A k \in 1..Len(out') : k > used => out'[k].req > cur
  BY <1>1 DEF LaterInv
<1>2. /\ cur <= Len(sent) /\ Len(sent) \in Nat /\ Len(out) \in Nat
      /\ \A k \in 1..Len(out) : k > used => out[k].req > cur
  BY DEF LaterInv, WireTypeOK
<1>3. /\ Len(out') = Len(out) + 1 /\ out'[Len(out) + 1] = u
      /\ \A k \in 1..Len(out) : out'[k] = out[k]
  BY DEF WireTypeOK
<1>4. ASSUME NEW k \in 1..Len(out'), k > used PROVE out'[k].req > cur
  <2>1. CASE k \in 1..Len(out)
    BY <1>2, <1>3, <1>4, <2>1
  <2>2. CASE k = Len(out) + 1
    BY <1>3, <2>2
  <2>3. QED
    BY <1>2, <1>3, <2>1, <2>2
<1>5. QED
  BY <1>2, <1>4

\* Throwing away what is in the buffer leaves later requests behind the position.
LEMMA LaterClears ==
  ASSUME LaterInv, FrameTypeOK, pc \in HandlingPcs, UNCHANGED <<peerVars, cur>>,
         used' \in {used, rd}
  PROVE  LaterInv'
<1>1. used \in Nat /\ rd \in Nat /\ used <= rd
  BY DEF FrameTypeOK
<1>2. \A k \in 1..Len(out) : k > used' => k > used
  BY <1>1
<1>3. QED
  BY <1>2 DEF LaterInv, Settled, peerVars

\* Every step leaves only later requests behind the position.
LEMMA LaterNext ==
  ASSUME NoStrayBody
  PROVE  BodyInv /\ OrderInv /\ LaterInv /\ [Next]_vars => LaterInv'
<1> SUFFICES ASSUME BodyInv, OrderInv, LaterInv, [Next]_vars PROVE LaterInv'
  OBVIOUS
<1>a. /\ TypeInv /\ WireTypeOK /\ FrameTypeOK /\ IndexInv /\ PosInv
      /\ Len(out) \in Nat /\ Len(sent) \in Nat /\ toSend \in Nat
      /\ rd \in Nat /\ used \in Nat /\ got \in Nat /\ used <= rd /\ rd <= Len(out)
      /\ cur \in Nat
  BY DEF BodyInv, TypeInv, TypeOK, WireTypeOK, FrameTypeOK
<1>b. Settled => cur <= Len(sent) /\ (toSend > 0 => cur < Len(sent))
  BY DEF LaterInv
<1>1. ASSUME NEW q \in Requests, SendHead(q) PROVE LaterInv'
  <2>1. Len(sent') = Len(sent) + 1
    BY <1>a, <1>1 DEF SendHead, WireTypeOK
  <2>2. QED
    BY <1>a, <1>b, <1>1, <2>1, LaterSends DEF SendHead
<1>2. CASE SendBody
  BY <1>a, <1>b, <1>2, LaterSends DEF SendBody
<1>3. CASE CutHead
  BY <1>a, <1>b, <1>3, LaterSends DEF CutHead
<1>4. ASSUME NEW to \in {"stalled", "fin", "reset"}, PeerTurns(to) PROVE LaterInv'
  BY <1>4 DEF PeerTurns, LaterInv, Settled, readVars
<1>5. CASE Expire
  BY <1>5, LaterMoves DEF Expire, Settled
<1>6. CASE ReadHeader
  <2>1. CASE pc' = "dispatch"
    <3>1. /\ rd + 1 \in 1..Len(out) /\ out[rd + 1].part = "head" /\ cur' = out[rd + 1].req
          /\ used' = used + 1 /\ used = rd /\ UNCHANGED peerVars
      BY <1>a, <1>6, <2>1 DEF ReadHeader, PosInv
    <3>2. ~sent[cur'].post
      BY <1>6, <2>1, <3>1 DEF ReadHeader, ReadsBody
    <3>3. cur' \in 1..Len(sent)
      BY <1>a, <3>1, HeadIsSent
    <3>4. sent[cur'].units = 0
      BY <1>a, <3>2, <3>3 DEF WireTypeOK, NoStrayBody
    <3>5. used' = (rd + 1) + sent[cur'].units /\ used' <= Len(out)
      BY <1>a, <3>1, <3>4
    <3>6. QED
      BY <1>a, <3>1, <3>5, LaterSettles
  <2>2. CASE pc' # "dispatch"
    BY <1>6, <2>2 DEF ReadHeader, LaterInv, Settled, HandlingPcs, ResponseWrites, SyncWrite, AsyncWrite
  <2>3. QED
    BY <2>1, <2>2
<1>7. CASE NoHeader \/ ReadTimesOut \/ PartialChunk \/ BodyCut \/ PutBuffered \/ ReadMoreBody
  BY <1>7 DEF NoHeader, ReadTimesOut, PartialChunk, BodyCut, PutBuffered, ReadMoreBody, LaterInv,
     Settled, HandlingPcs, ResponseWrites, SyncWrite, AsyncWrite
<1>8. ASSUME NEW res \in Results, SendContinue(res) PROVE LaterInv'
  BY <1>8 DEF SendContinue, LaterInv, Settled, HandlingPcs, ResponseWrites, SyncWrite, AsyncWrite
<1>9. CASE BodyComplete
  <2>1. Reading /\ got = sent[cur].units /\ UNCHANGED <<peerVars, used, cur>>
    BY <1>9 DEF BodyComplete, Reading, BodyDone, readVars
  <2>2. got < used /\ out[used - got] = [req |-> cur, part |-> "head"]
    BY <1>a, <2>1 DEF PosInv
  <2>3. used - got \in 1..Len(out) /\ used = (used - got) + got /\ used <= Len(out)
    BY <1>a, <2>2
  <2> DEFINE i == used - got
  <2>4. i \in 1..Len(out) /\ out[i].part = "head" /\ out[i].req = cur'
    BY <2>1, <2>2, <2>3
  <2>5. used' = i + sent[cur'].units /\ used' <= Len(out) /\ UNCHANGED peerVars
    BY <2>1, <2>3
  <2> HIDE DEF i
  <2>6. QED
    BY <1>a, <2>4, <2>5, LaterSettles
<1>10. ASSUME NEW type \in ResponseTypes, Dispatch(type) PROVE LaterInv'
  BY <1>10, LaterMoves DEF Dispatch, Settled, HandlingPcs
<1>11. CASE NotFound
  BY <1>11, LaterMoves DEF NotFound, Settled, HandlingPcs
<1>12. ASSUME NEW b \in Behaviours, NEW w \in ResponseWrites, Handler(b, w) PROVE LaterInv'
  BY <1>12, LaterMoves DEF Handler, Settled, HandlingPcs
<1>13. CASE NoAutoResponse
  BY <1>a, <1>13, LaterClears DEF NoAutoResponse, HandlingPcs
<1>14. ASSUME NEW w \in ResponseWrites, AutoResponse(w) PROVE LaterInv'
  BY <1>14, LaterMoves DEF AutoResponse, Settled, HandlingPcs
<1>15. ASSUME NEW res \in Results, WriteDone(res) PROVE LaterInv'
  BY <1>a, <1>15, LaterClears DEF WriteDone, HandlingPcs
<1>16. CASE StartError \/ Close
  BY <1>16 DEF StartError, Close, LaterInv, Settled, HandlingPcs, ResponseWrites, SyncWrite, AsyncWrite
<1>17. ASSUME NEW res \in Results, Write500Done(res) PROVE LaterInv'
  BY <1>17 DEF Write500Done, LaterInv, Settled, HandlingPcs, ResponseWrites, SyncWrite, AsyncWrite
<1>18. ASSUME NEW r \in Ids, NEW w \in ResponseWrites, TaskStart(r, w) PROVE LaterInv'
  BY <1>18, LaterMoves DEF TaskStart, Settled
<1>19. ASSUME NEW r \in Ids, NEW res \in Results, TaskDone(r, res) PROVE LaterInv'
  BY <1>19, LaterMoves DEF TaskDone, Settled, readVars
<1>20. ASSUME NEW r \in Ids, TaskCloses(r) PROVE LaterInv'
  BY <1>20, LaterMoves DEF TaskCloses, Settled
<1>21. CASE UNCHANGED vars
  BY <1>21, LaterMoves DEF vars, Settled
<1>22. QED
  BY <1>1, <1>2, <1>3, <1>4, <1>5, <1>6, <1>7, <1>8, <1>9, <1>10, <1>11, <1>12, <1>13, <1>14,
     <1>15, <1>16, <1>17, <1>18, <1>19, <1>20, <1>21 DEF Next, Peer, Session, SessionWrite

\* While the session is not over its answers grow strictly, and so they do later if
\* nothing more is answered.
LEMMA StrictlyIncrease ==
  ASSUME AnswersIncrease, pc \notin {"close", "done"}
  PROVE  \A i, j \in 1..Len(answers) : i < j => answers[i] < answers[j]
BY DEF AnswersIncrease

\* Nothing is answered, and the session takes up nothing it may answer.
LEMMA PastStays ==
  ASSUME PastInv, AnswersIncrease, UNCHANGED <<cur, answers>>,
         stream' = "open" /\ Working' =>
           stream = "open" /\ Working /\ (Failing => Failing'),
         pc \in {"close", "done"} => pc' \in {"close", "done"}
  PROVE  (PastInv /\ AnswersIncrease)'
<1>1. PastInv'
  BY DEF PastInv
<1>2. AnswersIncrease'
  BY DEF AnswersIncrease
<1>3. QED
  BY <1>1, <1>2

\* The session answers cur, if it does: nothing was answered beyond it.
LEMMA Grows ==
  ASSUME PastInv, HistoryTypeOK, cur \in Ids, UNCHANGED cur, answers' = Append(answers, cur)
  PROVE  /\ Len(answers') = Len(answers) + 1 /\ answers'[Len(answers) + 1] = cur
         /\ Len(answers) \in Nat
         /\ \A k \in 1..Len(answers) : answers'[k] = answers[k] /\ answers[k] \in Nat
         /\ \A k \in 1..Len(answers') : answers'[k] <= cur'
<1>1. /\ Len(answers') = Len(answers) + 1 /\ answers'[Len(answers) + 1] = cur
      /\ Len(answers) \in Nat
      /\ \A k \in 1..Len(answers) : answers'[k] = answers[k] /\ answers[k] \in Nat
  <2>1. \A k \in 1..Len(answers) : answers[k] \in Ids
    BY DEF HistoryTypeOK
  <2>2. Len(answers) \in Nat /\ \A k \in 1..Len(answers) : answers'[k] = answers[k]
    BY DEF HistoryTypeOK
  <2>3. Len(answers') = Len(answers) + 1 /\ answers'[Len(answers) + 1] = cur
    BY DEF HistoryTypeOK
  <2>4. QED
    BY <2>1, <2>2, <2>3 DEF Ids
<1>2. ASSUME NEW k \in 1..Len(answers') PROVE answers'[k] <= cur
  <2>1. CASE k \in 1..Len(answers)
    BY <1>1, <2>1 DEF PastInv
  <2>2. CASE k = Len(answers) + 1
    BY <1>1, <2>2 DEF Ids
  <2>3. QED
    BY <1>1, <2>1, <2>2
<1>3. QED
  BY <1>1, <1>2

\* The response of the session itself is the first answer to cur, and may be followed
\* by an exception.
LEMMA PastAnswers ==
  ASSUME PastInv, AnswersIncrease, HistoryTypeOK, cur \in Ids, UNCHANGED cur,
         NEW res, answers' = Answered(cur, res),
         res = "ok" => stream = "open", stream' = "open" => stream = "open",
         Working, ~Failing, pc \notin {"close", "done"},
         Working' => Failing' /\ "inlineThrow" \in Behaviours
  PROVE  (PastInv /\ AnswersIncrease)'
<1>1. CASE res = "ok"
  <2>1. answers' = Append(answers, cur)
    BY <1>1 DEF Answered
  <2>2. /\ Len(answers') = Len(answers) + 1 /\ answers'[Len(answers) + 1] = cur
        /\ Len(answers) \in Nat
        /\ \A k \in 1..Len(answers) : answers'[k] = answers[k] /\ answers[k] \in Nat
        /\ \A k \in 1..Len(answers') : answers'[k] <= cur'
    BY <2>1, Grows
  <2>3. \A k \in 1..Len(answers) : answers[k] < cur
    BY <1>1 DEF PastInv
  <2>4. \A k \in 1..Len(answers') : answers'[k] < cur' \/ k = Len(answers')
    BY <2>2, <2>3
  <2>5. PastInv'
    BY <2>2, <2>4 DEF PastInv
  <2>6. ASSUME NEW i \in 1..Len(answers'), NEW j \in 1..Len(answers'), i < j
        PROVE  answers'[i] < answers'[j]
    <3>1. i \in 1..Len(answers) /\ answers'[i] = answers[i]
      BY <2>2, <2>6
    <3>2. CASE j \in 1..Len(answers)
      BY <2>2, <2>6, <3>1, <3>2, StrictlyIncrease
    <3>3. CASE j = Len(answers) + 1
      BY <2>2, <2>3, <3>1, <3>3
    <3>4. QED
      BY <2>2, <3>2, <3>3
  <2>7. AnswersIncrease'
    BY <2>6 DEF AnswersIncrease
  <2>8. QED
    BY <2>5, <2>7
<1>2. CASE res # "ok"
  <2>1. answers' = answers
    BY <1>2 DEF Answered
  <2>2. PastInv'
    BY <2>1 DEF PastInv
  <2>3. AnswersIncrease'
    BY <2>1, StrictlyIncrease DEF AnswersIncrease
  <2>4. QED
    BY <2>2, <2>3
<1>3. QED
  BY <1>1, <1>2

\* A 500 is the last answer, to a request that may have been answered just before.
LEMMA PastFails ==
  ASSUME PastInv, AnswersIncrease, HistoryTypeOK, cur \in Ids, UNCHANGED cur,
         NEW res, answers' = Answered(cur, res), res = "ok" => stream = "open",
         pc = "write500", pc' = "close", ~Working'
  PROVE  (PastInv /\ AnswersIncrease)'
<1>1. CASE res = "ok"
  <2>1. answers' = Append(answers, cur)
    BY <1>1 DEF Answered
  <2>2. /\ Len(answers') = Len(answers) + 1 /\ answers'[Len(answers) + 1] = cur
        /\ Len(answers) \in Nat
        /\ \A k \in 1..Len(answers) : answers'[k] = answers[k] /\ answers[k] \in Nat
        /\ \A k \in 1..Len(answers') : answers'[k] <= cur'
    BY <2>1, Grows
  <2>3. \A k \in 1..Len(answers) : answers[k] < cur \/ "inlineThrow" \in Behaviours
    BY <1>1 DEF PastInv, Working, Failing
  <2>4. \A k \in 1..Len(answers) : answers[k] <= cur
    BY DEF PastInv
  <2>5. PastInv'
    BY <2>2 DEF PastInv
  <2>6. ASSUME NEW i \in 1..Len(answers'), NEW j \in 1..Len(answers'), i < j
        PROVE  \/ answers'[i] < answers'[j]
               \/ /\ answers'[i] = answers'[j] /\ j = Len(answers')
                  /\ "inlineThrow" \in Behaviours
    <3>1. i \in 1..Len(answers) /\ answers'[i] = answers[i]
      BY <2>2, <2>6
    <3>2. CASE j \in 1..Len(answers)
      BY <2>2, <2>6, <3>1, <3>2, StrictlyIncrease
    <3>3. CASE j = Len(answers) + 1
      <4>1. answers[i] \in Nat /\ cur \in Nat
        BY <2>2, <3>1 DEF Ids
      <4>2. QED
        BY <2>2, <2>3, <2>4, <3>1, <3>3, <4>1
    <3>4. QED
      BY <2>2, <3>2, <3>3
  <2>7. AnswersIncrease'
    BY <2>6 DEF AnswersIncrease
  <2>8. QED
    BY <2>5, <2>7
<1>2. CASE res # "ok"
  BY <1>2, PastStays DEF Answered
<1>3. QED
  BY <1>1, <1>2

\* Every step keeps the answers behind cur, and in order.
LEMMA PastNext ==
         BodyInv /\ NoTask /\ LaterInv /\ PastInv /\ AnswersIncrease /\ [Next]_vars
           => (PastInv /\ AnswersIncrease)'
<1> SUFFICES ASSUME BodyInv, NoTask, LaterInv, PastInv, AnswersIncrease, [Next]_vars
             PROVE  (PastInv /\ AnswersIncrease)'
  OBVIOUS
<1>a. WireTypeOK /\ FrameTypeOK /\ HistoryTypeOK /\ IndexInv /\ PosInv
  BY DEF BodyInv, TypeInv, TypeOK
<1>b. \A r \in Ids : task[r] = "none"
  BY DEF NoTask
<1> USE DEF Working, Failing, Handling, Reading, HandlingPcs, ResponseWrites, SyncWrite, AsyncWrite
<1>1. ASSUME NEW q \in Requests, SendHead(q) PROVE (PastInv /\ AnswersIncrease)'
  BY <1>1, PastStays DEF SendHead, readVars, ctxVars
<1>2. CASE SendBody \/ CutHead \/ Expire
  BY <1>2, PastStays DEF SendBody, CutHead, Expire, readVars, ctxVars
<1>3. ASSUME NEW to \in {"stalled", "fin", "reset"}, PeerTurns(to)
      PROVE  (PastInv /\ AnswersIncrease)'
  BY <1>3, PastStays DEF PeerTurns, readVars, ctxVars
<1>4. CASE ReadHeader
  <2>1. rd + 1 \in 1..Len(out) /\ rd + 1 > used /\ pc = "header" /\ cur' = out[rd + 1].req
        /\ UNCHANGED <<stream, answers>>
    BY <1>a, <1>4 DEF ReadHeader, FrameTypeOK, WireTypeOK, ctxVars
  <2>2. cur' > cur /\ cur' \in Nat /\ cur \in Nat
    <3>1. out[rd + 1] \in Unit
      BY <1>a, <2>1 DEF WireTypeOK
    <3>2. out[rd + 1].req > cur
      BY <2>1 DEF LaterInv, Settled
    <3>3. QED
      BY <1>a, <2>1, <3>1, <3>2 DEF FrameTypeOK, Unit, Ids
  <2>3. \A k \in 1..Len(answers) : answers[k] \in Nat /\ answers[k] <= cur
    <3>1. \A k \in 1..Len(answers) : answers[k] \in Ids
      BY <1>a DEF HistoryTypeOK
    <3>2. QED
      BY <3>1 DEF PastInv, Ids
  <2>4. PastInv'
    BY <2>1, <2>2, <2>3 DEF PastInv
  <2>5. AnswersIncrease'
    BY <2>1, StrictlyIncrease DEF AnswersIncrease
  <2>6. QED
    BY <2>4, <2>5
<1>5. CASE NoHeader \/ ReadTimesOut \/ PartialChunk \/ BodyCut \/ BodyComplete
  BY <1>5, PastStays DEF NoHeader, ReadTimesOut, PartialChunk, BodyCut, BodyComplete, readVars, ctxVars
<1>6. CASE PutBuffered \/ ReadMoreBody
  BY <1>6, PastStays DEF PutBuffered, ReadMoreBody, ctxVars
<1>7. ASSUME NEW res \in Results, SendContinue(res) PROVE (PastInv /\ AnswersIncrease)'
  BY <1>7, PastStays DEF SendContinue, readVars, ctxVars
<1>8. ASSUME NEW type \in ResponseTypes, Dispatch(type) PROVE (PastInv /\ AnswersIncrease)'
  BY <1>8, PastStays DEF Dispatch, readVars
<1>9. CASE NotFound
  BY <1>9, PastStays DEF NotFound, readVars
<1>10. ASSUME NEW b \in Behaviours, NEW w \in ResponseWrites, Handler(b, w)
       PROVE  (PastInv /\ AnswersIncrease)'
  BY <1>10, PastStays DEF Handler, readVars
<1>11. CASE NoAutoResponse
  BY <1>11, PastStays DEF NoAutoResponse, ctxVars
<1>12. ASSUME NEW w \in ResponseWrites, AutoResponse(w) PROVE (PastInv /\ AnswersIncrease)'
  BY <1>12, PastStays DEF AutoResponse, readVars, ctxVars
<1>13. ASSUME NEW res \in Results, WriteDone(res) PROVE (PastInv /\ AnswersIncrease)'
  <2>1. cur \in Ids /\ Working /\ ~Failing /\ UNCHANGED <<cur, auto>>
    BY <1>a, <1>13 DEF WriteDone, IndexInv, FrameTypeOK, Ids, ctxVars
  <2>2. answers' = Answered(cur, res) /\ (res = "ok" => stream = "open")
    BY <1>13, OkMeansOpen DEF WriteDone
  <2>3. Working' => Failing' /\ "inlineThrow" \in Behaviours
    BY <1>13, <2>1 DEF WriteDone
  <2>4. pc \notin {"close", "done"} /\ (stream' = "open" => stream = "open")
    BY <1>13 DEF WriteDone, StreamAfter
  <2>5. QED
    BY <1>a, <2>1, <2>2, <2>3, <2>4, PastAnswers
<1>14. CASE StartError \/ Close
  BY <1>14, PastStays DEF StartError, Close, readVars, ctxVars
<1>15. ASSUME NEW res \in Results, Write500Done(res) PROVE (PastInv /\ AnswersIncrease)'
  <2>1. cur \in Ids /\ pc = "write500" /\ pc' = "close" /\ ~Working' /\ UNCHANGED cur
    BY <1>a, <1>15 DEF Write500Done, IndexInv, FrameTypeOK, Ids, ctxVars, readVars
  <2>2. answers' = Answered(cur, res) /\ (res = "ok" => stream = "open")
    BY <1>15, OkMeansOpen DEF Write500Done
  <2>3. QED
    BY <1>a, <2>1, <2>2, PastFails
<1>16. ASSUME NEW r \in Ids, NEW w \in ResponseWrites, TaskStart(r, w) PROVE FALSE
  BY <1>b, <1>16 DEF TaskStart
<1>17. ASSUME NEW r \in Ids, NEW res \in Results, TaskDone(r, res) PROVE FALSE
  BY <1>b, <1>17 DEF TaskDone
<1>18. ASSUME NEW r \in Ids, TaskCloses(r) PROVE FALSE
  BY <1>b, <1>18 DEF TaskCloses
<1>19. CASE UNCHANGED vars
  BY <1>19, PastStays DEF vars, readVars, ctxVars
<1>20. QED
  BY <1>1, <1>2, <1>3, <1>4, <1>5, <1>6, <1>7, <1>8, <1>9, <1>10, <1>11, <1>12, <1>13, <1>14,
     <1>15, <1>16, <1>17, <1>18, <1>19 DEF Next, Peer, Session, SessionWrite

\* At first there is no request and no answer.
LEMMA AheadInit == Init => AheadInv
BY SpotInit, SessionAssumption DEF Init, AheadInv, OrderInv, LaterInv, PastInv, AnswersIncrease

(* Whatever is sent ahead and thrown away, the stream behind the session holds  *)
(* only requests later than the one it works on, which no answer was for yet  *)
(* unless its handler threw after the response: the inductive invariant of a  *)
(* pipelined session.                                                        *)
THEOREM AheadInvariance == ASSUME OnTheSpot PROVE Spec => [](BodyInv /\ AheadInv)
<1>1. BodyInv /\ AheadInv /\ [Next]_vars => (BodyInv /\ AheadInv)'
  <2>1. NoStrayBody /\ NothingDeferred
    BY DEF OnTheSpot
  <2>2. QED
    BY <2>1, BodyNext, SpotNext, OrderNext, LaterNext, PastNext DEF AheadInv, BodyInv, SpotInv
<1>2. QED
  BY BodyInit, AheadInit, <1>1, PTL DEF Spec

(* Where handlers answer on the spot, none is answered after a later one,       *)
(* however far ahead the peer sends, and a request is answered twice only by   *)
(* the 500 for a handler that threw after its response, which ends the session. *)
THEOREM AnswersDoIncrease == ASSUME OnTheSpot PROVE Spec => []AnswersIncrease
<1>1. AheadInv => AnswersIncrease
  BY DEF AheadInv
<1>2. QED
  BY AheadInvariance, <1>1, PTL

=============================================================================
