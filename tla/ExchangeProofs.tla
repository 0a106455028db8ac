--------------------------- MODULE ExchangeProofs ---------------------------
(***************************************************************************)
(* A session in an orderly environment implements Exchange: its initial      *)
(* states map to Exchange's, and each of its steps to a step of Exchange or  *)
(* to a stutter. Sending a header is an Ask, a delivered response an Answer, *)
(* and whatever else takes the stream from open to closed is a Close.        *)
(***************************************************************************)
EXTENDS OrderlyProofs

\* A step in which nothing is asked or answered.
LEMMA QuietMaps ==
  ASSUME UNCHANGED <<sent, out, answers>>, stream' = "open" => stream = "open"
  PROVE  [E!Next]_E!vars
<1>1. Asked' = Asked
  BY DEF Asked, Cut
<1>2. CASE (stream = "open") = (stream' = "open")
  BY <1>1, <1>2 DEF E!vars
<1>3. CASE stream = "open" /\ stream' # "open"
  BY <1>1, <1>3 DEF E!Next, E!Close
<1>4. QED
  BY <1>2, <1>3

\* The end of a write of the response to r.
LEMMA AnswerMaps ==
  ASSUME WireTypeOK, HistoryTypeOK, UNCHANGED <<sent, out>>, stream' = "open" => stream = "open",
         NEW r \in Ids, NEW res, answers' = Answered(r, res),
         res = "ok" => stream = "open" /\ r = Asked /\ Pending
  PROVE  [E!Next]_E!vars
<1>1. Asked' = Asked
  BY DEF Asked, Cut
<1>2. CASE res = "ok"
  <2>1. answers' = Append(answers, Asked) /\ Len(answers) < Asked
    BY <1>2 DEF Answered, Pending, HistoryTypeOK
  <2>2. (stream' = "open") \in BOOLEAN
    OBVIOUS
  <2>3. QED
    BY <1>1, <1>2, <2>1, <2>2 DEF E!Next, E!Answer
<1>3. CASE res # "ok"
  BY <1>3, QuietMaps DEF Answered
<1>4. QED
  BY <1>2, <1>3

\* A request, whole or cut, is sent.
LEMMA AskMaps ==
  ASSUME CountInv', Asked = Len(answers), Asked' = Asked + 1, UNCHANGED <<answers, stream>>,
         Asked \in Nat
  PROVE  [E!Next]_E!vars
<1>1. Asked < MaxRequests
  BY SessionAssumption DEF CountInv
<1>2. QED
  BY <1>1 DEF E!Next, E!Ask

\* At first nothing is asked and nothing answered.
LEMMA ExchangeInit == Init => E!Init
<1> SUFFICES ASSUME Init PROVE E!Init
  OBVIOUS
<1>1. Asked = 0
  BY DEF Init, Asked, Cut
<1>2. QED
  BY <1>1 DEF Init, E!Init

\* Every step of a session is one of Exchange, or a stutter.
LEMMA ExchangeNext == Orderly /\ BodyInv /\ IInv /\ [Next]_vars => [E!Next]_E!vars
<1> SUFFICES ASSUME Orderly, BodyInv, IInv, [Next]_vars PROVE [E!Next]_E!vars
  OBVIOUS
<1>a. TypeInv /\ WireTypeOK /\ FrameTypeOK /\ HistoryTypeOK /\ Asked \in Nat
  BY DEF BodyInv, TypeInv, TypeOK, WireTypeOK, Asked
<1>1. ASSUME NEW q \in Requests, SendHead(q) PROVE [E!Next]_E!vars
  BY <1>a, <1>1, OrderlySendHead, AskMaps DEF SendHead, IInv
<1>2. CASE CutHead
  BY <1>a, <1>2, OrderlyCutHead, AskMaps DEF CutHead, IInv
<1>3. CASE SendBody
  <2>1. Asked' = Asked /\ UNCHANGED <<answers, stream>>
    BY <1>a, <1>3, OrderlySendBody DEF SendBody
  <2>2. QED
    BY <2>1 DEF E!vars
<1>4. ASSUME NEW to \in {"stalled", "fin", "reset"}, PeerTurns(to) PROVE [E!Next]_E!vars
  BY <1>4, QuietMaps DEF PeerTurns
<1>5. CASE Expire
  BY <1>5, QuietMaps DEF Expire, peerVars
<1>6. CASE Session
  <2>1. UNCHANGED <<sent, out, answers>>
    BY <1>6 DEF Session, ReadHeader, NoHeader, ReadTimesOut, PutBuffered, ReadMoreBody,
       PartialChunk, BodyCut, BodyComplete, Dispatch, NotFound, Handler, NoAutoResponse,
       AutoResponse, StartError, Close, peerVars
  <2>2. stream' = "open" => stream = "open"
    BY <1>6 DEF Session, ReadHeader, NoHeader, ReadTimesOut, PutBuffered, ReadMoreBody,
       PartialChunk, BodyCut, BodyComplete, Dispatch, NotFound, Handler, NoAutoResponse,
       AutoResponse, StartError, Close
  <2>3. QED
    BY <2>1, <2>2, QuietMaps
<1>7. ASSUME NEW res \in Results, SendContinue(res) PROVE [E!Next]_E!vars
  BY <1>7, QuietMaps DEF SendContinue, peerVars
<1>8. ASSUME NEW res \in Results, WriteDone(res) PROVE [E!Next]_E!vars
  <2>1. cur \in Ids /\ UNCHANGED <<sent, out>> /\ (stream' = "open" => stream = "open")
    BY <1>a, <1>8 DEF WriteDone, StreamAfter, peerVars, TypeInv, IndexInv, FrameTypeOK, Ids,
       ResponseWrites, SyncWrite, AsyncWrite
  <2>2. res = "ok" => stream = "open"
    BY <1>8, OkMeansOpen DEF WriteDone
  <2>3. stream = "open" => cur = Asked /\ Pending
    BY <1>8 DEF WriteDone, IInv, WorkInv, Working, Handling, HandlingPcs, ResponseWrites, SyncWrite,
       AsyncWrite
  <2>4. QED
    BY <1>a, <1>8, <2>1, <2>2, <2>3, AnswerMaps DEF WriteDone
<1>9. ASSUME NEW res \in Results, Write500Done(res) PROVE [E!Next]_E!vars
  <2>1. cur \in Ids /\ UNCHANGED <<sent, out>> /\ (stream' = "open" => stream = "open")
    BY <1>a, <1>9 DEF Write500Done, peerVars, TypeInv, IndexInv, FrameTypeOK, Ids
  <2>2. res = "ok" => stream = "open"
    BY <1>9, OkMeansOpen DEF Write500Done
  <2>3. stream = "open" => cur = Asked /\ Pending
    BY <1>9 DEF Write500Done, IInv, WorkInv, Working, Failing
  <2>4. QED
    BY <1>a, <1>9, <2>1, <2>2, <2>3, AnswerMaps DEF Write500Done
<1>10. ASSUME NEW r \in Ids, NEW w \in ResponseWrites, TaskStart(r, w) PROVE [E!Next]_E!vars
  BY <1>10, QuietMaps DEF TaskStart, peerVars
<1>11. ASSUME NEW r \in Ids, NEW res \in Results, TaskDone(r, res) PROVE [E!Next]_E!vars
  <2>1. UNCHANGED <<sent, out>> /\ (stream' = "open" => stream = "open")
    BY <1>11 DEF TaskDone, peerVars
  <2>2. res = "ok" => stream = "open"
    BY <1>11, OkMeansOpen DEF TaskDone
  <2>3. stream = "open" => r = Asked /\ Pending
    BY <1>11 DEF TaskDone, IInv, TaskInv, Active
  <2>4. QED
    BY <1>a, <1>11, <2>1, <2>2, <2>3, AnswerMaps DEF TaskDone
<1>12. ASSUME NEW r \in Ids, TaskCloses(r) PROVE [E!Next]_E!vars
  BY <1>12, QuietMaps DEF TaskCloses, peerVars
<1>13. CASE UNCHANGED vars
  BY <1>13, QuietMaps DEF vars, peerVars
<1>14. QED
  BY <1>1, <1>2, <1>3, <1>4, <1>5, <1>6, <1>7, <1>8, <1>9, <1>10, <1>11, <1>12, <1>13
  DEF Next, Peer, SessionWrite

(* In an orderly environment a session implements Exchange.                  *)
THEOREM SessionImplementsExchange == ASSUME Orderly PROVE Spec => ExchangeSpec
<1>1. BodyInv /\ IInv /\ [Next]_vars => [E!Next]_E!vars
  BY ExchangeNext
<1>2. QED
  BY OrderlyInv, ExchangeInit, <1>1, PTL DEF Spec, ExchangeSpec, E!Spec
=============================================================================
