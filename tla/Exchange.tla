------------------------------ MODULE Exchange ------------------------------
(***************************************************************************)
(* What a connection of the server promises a client that waits for every    *)
(* answer before it sends the next request: requests are taken one at a time, *)
(* each is answered at most once, with the answer meant for it, and nothing is *)
(* answered once the connection is closed, which may happen at any moment.   *)
(***************************************************************************)
EXTENDS Naturals, Sequences

CONSTANT MaxRequests    \* bound: how many requests are sent

VARIABLES
  asked,      \* how many requests have been sent
  answers,    \* which of them have been answered, in order
  open        \* may the server still answer?

vars == <<asked, answers, open>>

Init == asked = 0 /\ answers = <<>> /\ open = TRUE

Ask ==
  /\ Len(answers) = asked /\ asked < MaxRequests
  /\ asked' = asked + 1
  /\ UNCHANGED <<answers, open>>

\* An answer may be the last one.
Answer ==
  /\ open /\ Len(answers) < asked
  /\ answers' = Append(answers, asked)
  /\ open' \in BOOLEAN
  /\ UNCHANGED asked

Close == open /\ open' = FALSE /\ UNCHANGED <<asked, answers>>

Next == Ask \/ Answer \/ Close

Spec == Init /\ [][Next]_vars
=============================================================================
