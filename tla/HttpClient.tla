----------------------------- MODULE HttpClient -----------------------------
(***************************************************************************)
(* The HTTP clients: concurrent calls of http_client_async::request_impl (or *)
(* http_client::request_impl, when Sync), the pool of connections they share *)
(* and the servers at the other end.                                        *)
(*                                                                         *)
(* request_impl calls itself for a redirect or a retry: the recursion is a  *)
(* loop on pc = "begin" with the two counts it passes along. A step lasts   *)
(* until the call waits for the network; what it does before that is local  *)
(* to the call, or under the pool's mutex.                                  *)
(***************************************************************************)
EXTENDS ConnectionPool

CONSTANTS
  Calls,            \* callers, each with its request and response objects
  Requests,         \* what they may ask for (records, see RequestType)
  Responses,        \* what a server may answer (records, see ResponseType)
  MaxRedirects, MaxRetries, MaxRequestSize, MaxResponseSize,
  ParserLimit,      \* body_limit of the parser async_read makes by itself
  Sync,             \* is it http_client (or http_client_async)?
  MaxUnderWay       \* bound: requests and responses under way on a connection; an
                    \* interim (1xx) response takes more than one

NoLocation == "noLocation"
BadUrl == "badUrl"
NoConn == "noConn"
NoCall == "noCall"
NoKey == "noKey"

(* url is the server the url names, or BadUrl when it does not parse; size   *)
(* is the length of the body; head says the method is HEAD.                  *)
RequestType == [url : Keys \cup {BadUrl}, keep : BOOLEAN, size : Nat, head : BOOLEAN]

(* redirect: a status in 300..399. A response may or may not have a header   *)
(* field spelt "Location".                                                  *)
ResponseType == [redirect : BOOLEAN, loc : Keys \cup {BadUrl, NoLocation}, size : Nat]

ASSUME HttpClientAssumption ==
  /\ Requests \subseteq RequestType
  /\ Responses \subseteq ResponseType
  /\ MaxRedirects \in Nat /\ MaxRetries \in Nat
  /\ MaxRequestSize \in Int /\ MaxResponseSize \in Nat /\ ParserLimit \in Nat
  /\ Sync \in BOOLEAN
  /\ MaxUnderWay \in Nat
  /\ {NoLocation, BadUrl, NoKey} \cap Keys = {}
  /\ NoConn \notin Conns /\ NoCall \notin Calls

VARIABLES
  pc,         \* where the call is: "idle", "begin", "connect", "send", "read"
  req,        \* the caller's request object (a redirect changes its url)
  loc,        \* res.headers["Location"] of its response object
  redirects, retries,   \* redirect_count and retry_count
  conn,       \* the connection the call holds
  result,     \* what the last call returned
  wire,       \* for each connection: its server, and what is under way on it
  attempts,   \* history: connections asked for by this call so far
  origin      \* history: the last answer's server, whom it answered and its size

poolVars == <<pool, sock>>
vars == <<pool, sock, pc, req, loc, redirects, retries, conn, result, wire,
          attempts, origin>>

Results == {"none", "status", "redirects", "retries", "url", "requestSize", "exception"}
NoOrigin == [call |-> NoCall, key |-> NoKey, size |-> 0]

Bare == [redirect |-> FALSE, loc |-> NoLocation, size |-> 0]
Reply == [to : Calls, response : Responses \cup {Bare}, interim : BOOLEAN]
Unused == [key |-> NoKey, up |-> FALSE, asked |-> <<>>, inbox |-> <<>>]
Opened(key) == [key |-> key, up |-> TRUE, asked |-> <<>>, inbox |-> <<>>]

\* How many attempts the two limits allow; attempts stops counting beyond it.
AttemptLimit == (MaxRedirects + 1) * (MaxRetries + 1)

-----------------------------------------------------------------------------
(* Plausible slips: mutated forms of definitions below, no part of the model. *)

RetryNotCounted(c) == retries' = retries
RetriesOffByOne(c) == retries[c] > MaxRetries + 1
StaysOpen(k) == UNCHANGED <<sock, wire>>

-----------------------------------------------------------------------------
(* Helpers.                                                                 *)

Url(c) == req[c].url

TooManyRedirects(c) == redirects[c] > MaxRedirects
TooManyRetries(c) == retries[c] > MaxRetries

\* max_request_size_ is converted to size_t.
Oversize(c) == req[c].size > AsSize(MaxRequestSize)

\* The response async_read returns next.
Incoming(c) == Head(wire[conn[c]].inbox)

\* async_read can finish reading m: its own parser's limit is not exceeded, and
\* for a HEAD, which it does not know of, there is no body to wait for.
Readable(c, m) == m.response.size <= ParserLimit /\ (req[c].head => m.response.size = 0)

\* The call's step to its next attempt after a failure.
Retry(c) == retries' = [retries EXCEPT ![c] = @ + 1]

Return(c, r) ==
  /\ pc' = [pc EXCEPT ![c] = "idle"]
  /\ result' = [result EXCEPT ![c] = r]

\* shutdown_and_close: what was under way on the connection is gone with it.
Shutdown(k) ==
  /\ CloseSocket(k)
  /\ wire' = [wire EXCEPT ![k] = Unused]

-----------------------------------------------------------------------------
Init ==
  /\ PoolInit
  /\ pc = [c \in Calls |-> "idle"]
  /\ req \in [Calls -> Requests]
  /\ loc = [c \in Calls |-> NoLocation]
  /\ redirects = [c \in Calls |-> 0]
  /\ retries = [c \in Calls |-> 0]
  /\ conn = [c \in Calls |-> NoConn]
  /\ result = [c \in Calls |-> "none"]
  /\ wire = [k \in Conns |-> Unused]
  /\ attempts = [c \in Calls |-> 0]
  /\ origin = [c \in Calls |-> NoOrigin]

\* A caller calls get, post, put, head or del, with a response object of its own,
\* new or used before.
Start(c, q) ==
  /\ pc[c] = "idle"
  /\ pc' = [pc EXCEPT ![c] = "begin"]
  /\ req' = [req EXCEPT ![c] = q]
  /\ loc' \in {loc, [loc EXCEPT ![c] = NoLocation]}
  /\ redirects' = [redirects EXCEPT ![c] = 0]
  /\ retries' = [retries EXCEPT ![c] = 0]
  /\ result' = [result EXCEPT ![c] = "none"]
  /\ attempts' = [attempts EXCEPT ![c] = 0]
  /\ origin' = [origin EXCEPT ![c] = NoOrigin]
  /\ UNCHANGED <<poolVars, conn, wire>>

\* The tests at the head of request_impl, in their order.
GiveUp(c) ==
  /\ pc[c] = "begin"
  /\ \/ TooManyRedirects(c) /\ Return(c, "redirects")
     \/ ~TooManyRedirects(c) /\ TooManyRetries(c) /\ Return(c, "retries")
     \/ ~TooManyRedirects(c) /\ ~TooManyRetries(c) /\ Url(c) = BadUrl /\ Return(c, "url")
  /\ UNCHANGED <<poolVars, req, loc, redirects, retries, conn, wire, attempts, origin>>

Attempt(c) ==
  /\ pc[c] = "begin" /\ ~TooManyRedirects(c) /\ ~TooManyRetries(c) /\ Url(c) # BadUrl
  /\ attempts' = [attempts EXCEPT ![c] = IF @ > AttemptLimit THEN @ ELSE @ + 1]

\* get_connection finds one in the pool.
TakePooled(c, k) ==
  /\ Attempt(c) /\ req[c].keep
  /\ AsyncGet(Url(c), k)
  /\ conn' = [conn EXCEPT ![c] = k]
  /\ pc' = [pc EXCEPT ![c] = "send"]
  /\ UNCHANGED <<sock, req, loc, redirects, retries, result, wire, origin>>

\* get_connection has to make one.
NonePooled(c) ==
  /\ Attempt(c)
  /\ IF req[c].keep THEN AsyncGetNone(Url(c)) ELSE UNCHANGED pool
  /\ pc' = [pc EXCEPT ![c] = "connect"]
  /\ UNCHANGED <<sock, req, loc, redirects, retries, conn, result, wire, origin>>

Connected(c, k) ==
  /\ pc[c] = "connect" /\ wire[k] = Unused
  /\ sock' = [sock EXCEPT ![k] = "open"]
  /\ wire' = [wire EXCEPT ![k] = Opened(Url(c))]
  /\ conn' = [conn EXCEPT ![c] = k]
  /\ pc' = [pc EXCEPT ![c] = "send"]
  /\ UNCHANGED <<pool, req, loc, redirects, retries, result, attempts, origin>>

\* Resolving or connecting fails: create_new_connection returns nullptr, which
\* is a retry; the synchronous one throws, and nothing in request_impl catches it.
ConnectFails(c) ==
  /\ pc[c] = "connect"
  /\ IF Sync THEN Return(c, "exception") /\ UNCHANGED retries
     ELSE /\ Retry(c)
          /\ pc' = [pc EXCEPT ![c] = "begin"] /\ UNCHANGED result
  /\ UNCHANGED <<poolVars, req, loc, redirects, conn, wire, attempts, origin>>

RefuseOversize(c) ==
  /\ pc[c] = "send" /\ Oversize(c)
  /\ Shutdown(conn[c])
  /\ conn' = [conn EXCEPT ![c] = NoConn]
  /\ Return(c, "requestSize")
  /\ UNCHANGED <<pool, req, loc, redirects, retries, attempts, origin>>

\* The request is written; one written to a server that has closed is lost.
SendRequest(c) ==
  /\ pc[c] = "send" /\ ~Oversize(c)
  /\ wire' = [wire EXCEPT ![conn[c]].asked = IF wire[conn[c]].up THEN Append(@, c) ELSE @]
  /\ pc' = [pc EXCEPT ![c] = "read"]
  /\ UNCHANGED <<poolVars, req, loc, redirects, retries, conn, result, attempts, origin>>

\* A write or a read ends in an exception: the server has closed, the response is
\* refused by the parser or, on asynchronous operations only, the time is out.
Fail(c) ==
  /\ \/ pc[c] = "send" /\ ~Oversize(c)
     \/ pc[c] = "read"
  /\ \/ ~Sync \/ ~wire[conn[c]].up
     \/ pc[c] = "read" /\ wire[conn[c]].inbox # <<>> /\ Incoming(c).response.size > ParserLimit
  /\ Shutdown(conn[c])
  /\ conn' = [conn EXCEPT ![c] = NoConn]
  /\ Retry(c)
  /\ pc' = [pc EXCEPT ![c] = "begin"]
  /\ UNCHANGED <<pool, req, loc, redirects, result, attempts, origin>>

\* The Location in the response object once it is copied there: header fields are
\* set one by one and never cleared, so an old one may stay.
NewLocation(c) ==
  IF Incoming(c).response.loc # NoLocation THEN Incoming(c).response.loc ELSE loc[c]

Redirected(c) ==
  ~Incoming(c).interim /\ Incoming(c).response.redirect /\ NewLocation(c) # NoLocation

Receive(c) ==
  /\ pc[c] = "read" /\ wire[conn[c]].inbox # <<>> /\ Readable(c, Incoming(c))
  /\ loc' = [loc EXCEPT ![c] = NewLocation(c)]
  /\ origin' = [origin EXCEPT ![c] = [call |-> Incoming(c).to, key |-> wire[conn[c]].key,
                                      size |-> Incoming(c).response.size]]
  /\ conn' = [conn EXCEPT ![c] = NoConn]

\* (A plausible slip: the connection is pooled, under the key of the new url.)
FollowRedirectPools(c) ==
  /\ Receive(c) /\ Redirected(c)
  /\ req' = [req EXCEPT ![c].url = NewLocation(c)]
  /\ IF NewLocation(c) \in Keys
       THEN /\ AsyncPut(NewLocation(c), conn[c])
            /\ wire' = IF HasRoom(NewLocation(c)) THEN [wire EXCEPT ![conn[c]].inbox = Tail(@)]
                       ELSE [wire EXCEPT ![conn[c]] = Unused]
       ELSE Shutdown(conn[c]) /\ UNCHANGED pool
  /\ redirects' = [redirects EXCEPT ![c] = @ + 1]
  /\ retries' = [retries EXCEPT ![c] = 0]
  /\ pc' = [pc EXCEPT ![c] = "begin"]
  /\ UNCHANGED <<result, attempts>>

\* A redirect: the connection is closed and the other url asked.
FollowRedirect(c) ==
  /\ Receive(c) /\ Redirected(c)
  /\ req' = [req EXCEPT ![c].url = NewLocation(c)]
  /\ Shutdown(conn[c])
  /\ redirects' = [redirects EXCEPT ![c] = @ + 1]
  /\ retries' = [retries EXCEPT ![c] = 0]
  /\ pc' = [pc EXCEPT ![c] = "begin"]
  /\ UNCHANGED <<pool, result, attempts>>

\* Any other response is the answer; the connection is returned to the pool when
\* the caller asked for keep_alive, whatever the server says. What is left in the
\* socket stays there.
Finish(c) ==
  /\ Receive(c) /\ ~Redirected(c)
  /\ IF req[c].keep
       THEN /\ AsyncPut(Url(c), conn[c])
            /\ wire' = IF HasRoom(Url(c)) THEN [wire EXCEPT ![conn[c]].inbox = Tail(@)]
                       ELSE [wire EXCEPT ![conn[c]] = Unused]
       ELSE Shutdown(conn[c]) /\ UNCHANGED pool
  /\ Return(c, "status")
  /\ UNCHANGED <<req, redirects, retries, attempts>>

-----------------------------------------------------------------------------
(* The servers.                                                             *)

Answer(k, r) ==
  /\ IsOpen(k) /\ wire[k].asked # <<>>
  /\ wire' = [wire EXCEPT ![k].asked = Tail(@),
                          ![k].inbox = Append(@, [to |-> Head(wire[k].asked),
                                                  response |-> r, interim |-> FALSE])]
  /\ UNCHANGED <<poolVars, pc, req, loc, redirects, retries, conn, result, attempts, origin>>

\* An interim response (100 Continue, 103 Early Hints) comes before the answer.
AnswerInterim(k) ==
  /\ IsOpen(k) /\ wire[k].asked # <<>>
  /\ Len(wire[k].asked) + Len(wire[k].inbox) < MaxUnderWay
  /\ wire' = [wire EXCEPT ![k].inbox =
                Append(@, [to |-> Head(wire[k].asked), response |-> Bare, interim |-> TRUE])]
  /\ UNCHANGED <<poolVars, pc, req, loc, redirects, retries, conn, result, attempts, origin>>

\* A server closes a connection: it is idle for too long, or crashes.
ServerCloses(k) ==
  /\ IsOpen(k) /\ wire[k].up
  /\ wire' = [wire EXCEPT ![k].up = FALSE, ![k].asked = <<>>]
  /\ UNCHANGED <<poolVars, pc, req, loc, redirects, retries, conn, result, attempts, origin>>

-----------------------------------------------------------------------------
CallStep(c) ==
  \/ GiveUp(c)
  \/ \E k \in Conns : TakePooled(c, k)
  \/ NonePooled(c)
  \/ \E k \in Conns : Connected(c, k)
  \/ ConnectFails(c) \/ RefuseOversize(c) \/ SendRequest(c) \/ Fail(c)
  \/ FollowRedirect(c) \/ Finish(c)

Server ==
  \E k \in Conns :
    \/ \E r \in Responses : Answer(k, r)
    \/ AnswerInterim(k)
    \/ ServerCloses(k)

Next ==
  \/ \E c \in Calls, q \in Requests : Start(c, q)
  \/ \E c \in Calls : CallStep(c)
  \/ Server

Spec == Init /\ [][Next]_vars

\* A synchronous write waits for a server that takes the request, if there is one:
\* no timeout ends it.
BlockedInWrite(c) == Sync /\ pc[c] = "send" /\ ~Oversize(c) /\ wire[conn[c]].up

\* A connect is answered or given up by the operating system, an asynchronous write or
\* read that gets no answer ends by its timeout, and threads run what is ready. (A
\* synchronous read needs no exception: without a response it has no step to take.)
FairSpec == Spec /\ \A c \in Calls : WF_vars(~BlockedInWrite(c) /\ CallStep(c))

-----------------------------------------------------------------------------
(* Properties.                                                              *)

\* Every variable has its type, and no queue, no count exceeds its limit.
TypeOK ==
  /\ pool \in [Keys -> Seq(Conns)]
  /\ \A key \in Keys : Len(pool[key]) <= AsSize(MaxIdle)
  /\ sock \in [Conns -> {"open", "closed"}]
  /\ pc \in [Calls -> {"idle", "begin", "connect", "send", "read"}]
  /\ req \in [Calls -> RequestType]
  /\ loc \in [Calls -> Keys \cup {BadUrl, NoLocation}]
  /\ redirects \in [Calls -> 0..(MaxRedirects + 1)]
  /\ retries \in [Calls -> 0..(MaxRetries + 1)]
  /\ conn \in [Calls -> Conns \cup {NoConn}]
  /\ result \in [Calls -> Results]
  /\ wire \in [Conns -> [key : Keys \cup {NoKey}, up : BOOLEAN,
                         asked : Seq(Calls), inbox : Seq(Reply)]]
  /\ attempts \in [Calls -> Nat]
  /\ origin \in [Calls -> [call : Calls \cup {NoCall}, key : Keys \cup {NoKey}, size : Nat]]

\* A connection is used by one call or idle in one place of the pool, never both
\* and never twice: two requests on one connection would get each other's answers.
Exclusive ==
  /\ \A c, d \in Calls : c # d /\ conn[c] # NoConn => conn[c] # conn[d]
  /\ \A c \in Calls : conn[c] \notin Pooled
  /\ \A p, q \in Keys : \A i \in 1..Len(pool[p]), j \in 1..Len(pool[q]) :
       pool[p][i] = pool[q][j] => p = q /\ i = j

\* A pooled connection is open, leads to the server of its key, and has no request
\* and no response under way that its next user would take for its own.
PooledReady ==
  \A key \in Keys : \A k \in Idle(key) :
    IsOpen(k) /\ wire[k].key = key /\ wire[k].asked = <<>> /\ wire[k].inbox = <<>>

\* A call returns the answer to its own request, of the server its url (after the
\* redirects) names.
OwnAnswer ==
  \A c \in Calls :
    result[c] = "status" => origin[c].call = c /\ origin[c].key = Url(c)

\* Redirects and retries multiply, and end: a redirect starts the retries anew.
AttemptsBounded ==
  \A c \in Calls : attempts[c] <= AttemptLimit

\* What set_max_response_size promises: no larger response is accepted.
ResponseSizeLimited ==
  \A c \in Calls : result[c] = "status" => origin[c].size <= MaxResponseSize

\* Every call returns, whatever the servers do.
CallsReturn == \A c \in Calls : pc[c] # "idle" ~> pc[c] = "idle"

\* A synchronous call returns, or waits for ever for a server that does not read the
\* request or does not answer it: its operations have no timeout.
AwaitsServer(c) ==
  \/ BlockedInWrite(c)
  \/ /\ pc[c] = "read" /\ wire[conn[c]].up
     /\ wire[conn[c]].inbox # <<>> => ~Readable(c, Incoming(c))
SyncCallsReturn ==
  \A c \in Calls : <>[](pc[c] # "idle") => <>[]AwaitsServer(c)
=============================================================================
