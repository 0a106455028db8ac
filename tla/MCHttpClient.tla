---------------------------- MODULE MCHttpClient ----------------------------
(* Small instances of HttpClient for TLC. A body of 2 units is over every     *)
(* limit but the parser's own, one of 3 over that too.                       *)
EXTENDS ClientInvariant

CONSTANTS s1, s2

Ask(key)  == [url |-> key, keep |-> TRUE, size |-> 0, head |-> FALSE]
AskOnce   == [Ask(s1) EXCEPT !.keep = FALSE]
AskHead   == [Ask(s1) EXCEPT !.head = TRUE]
AskLarge  == [Ask(s1) EXCEPT !.size = 2]
AskBad    == [Ask(s1) EXCEPT !.url = BadUrl]

Ok(n)   == [redirect |-> FALSE, loc |-> NoLocation, size |-> n]
To(key) == [redirect |-> TRUE, loc |-> key, size |-> 0]

MCAsk       == {Ask(s1)}
MCEveryAsk  == {Ask(s1), AskOnce, AskHead, AskLarge, AskBad}
MCRedirects == {Ok(0), To(s2)}
MCEveryResponse == {Ok(0), Ok(1), Ok(3), To(s1), To(BadUrl), To(NoLocation)}
MCSizes     == {Ok(0), Ok(2)}
=============================================================================
