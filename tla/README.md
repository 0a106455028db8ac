# bst-http: specifications and proofs

bst-http is a small HTTP library on Boost.Beast and Boost.Asio coroutines: a
server (`http/http_server.hpp` and what it includes) and two clients with a pool
of connections. These modules specify its control: what each coroutine does
between two suspension points, which conditions it tests in which order, and how
coroutines, threads, peers and timeouts may interleave. Data (bodies, header
fields, urls) is abstracted to what the properties distinguish.

## 1. Inventory

| Component | State | Operations | Interacts with |
|---|---|---|---|
| session, `request_session::run_session` | buffer, tcp_stream, parser, `be_error` | one coroutine per connection: header, 100 Continue, body, dispatch, response, 500, close | peer (TCP), request contexts, handlers, `session_timeout` |
| request context, `request_context`, `response_sender` | `res_type`, `res_string`, `res_file`, `auto_response`, reference to the stream | `set_manual_response`, `manual_response`, `response`, `write`, `keep_open`, `close` | the session and tasks that answer later, without a strand |
| routing, `request_handler`, `request_handler_impl` | `routes_`, `prefix_routes_` | `register_route`, `handle_request` | session, handlers |
| asynchronous client, `http_client_async` | per call: request, response, redirect and retry counts, connection | get, post, put, head, del, all `request_impl` | pool, servers |
| synchronous client, `http_client` | the same | the same, and async_get, async_post on threads | its own pool, servers |
| pool, `connection_pool` | per host and port a queue of idle connections | get, put, the settings, `cleanup` (never called) | all calls, under a mutex |
| server, `http_server` | settings in the context, `stop_server_` (never read) | init, run_server, stop_server, setters | io_context, threads, accept loop |
| accept loop, `request_connection` | static `stop_server_`, acceptor | run_accept, stop_server | clients, sessions |
| `context` | map under a shared_mutex, sub and global contexts | get, set, remove, clear, get_sub, set_sub, get_global | everything |
| `base` | the io_context and the server's context, one each | set_io_ctx, server_ctx, get_io_ctx | http_server, clients |
| `util` | none | parse_request, parse_url (unused) | routing |
| `request_timer` | timer | unused | |

What is hard: a deferred response (`set_manual_response` and `co_spawn`, as
Hello1 of `example/example.cpp`) runs beside the session that made it, on the same
stream, possibly on another thread; a request arrives in any split; peers stop,
close or reset anywhere; one absolute timeout covers a session, and does not
apply to synchronous operations; calls of the clients share connections that
servers close at any time; redirects and retries multiply; `stop_server` comes
from another thread at any moment. `PROJECT.json` lists each hazard at its line.

What makes each component correct:

- session: bodies are whole and belong to their request; one writer at a time;
  every request is answered at most once (twice only if its handler throws after its
  response), in order, and nothing follows an answer that closes, unless a task gave it;
  the session ends with its peer and with its timeout;
- pool and clients: a connection has one user; a pooled one is ready for its next
  user; a call returns the answer to its own request; calls end and limits hold;
- server: run_server returns only when all is quiet; a stop stops it; peers that say
  nothing keep nobody from being served as long as they leave a thread;
- routing: a path goes where the registrations say, with the parameters the client wrote;
- context: one global map for all, and no race on the pointers that lead to it.

## 2. Plan

| Order | Module | What | Status |
|---|---|---|---|
| 1 | Session | one connection | done |
| 1 | Exchange, SessionInvariant | abstract request-response exchange, and the invariants that show Session implements it | done, proved |
| 1 | SessionProofs, OrderlyProofs, ExchangeProofs | proofs about Session | done |
| 2 | ConnectionPool, HttpClient | pool, calls of both clients | done |
| 2 | ConnectionOwnership, ClientOwnership | who may use a connection | done, proved |
| 2 | ServerLifecycle, ServerProofs | run_server, threads, accept loop, stop | done, proved |
| 3 | ServerLifecycle | threads held by the synchronous calls of sessions and tasks, and how many of these stop a server | done, safety proved |
| 3 | Query, Routes, RoutesProofs | `parse_request`; exact routes, then prefixes in order of registration, against what the calls promise | done, proved |
| 3 | Context, GlobalMap, ServerContext | the map under its lock, the unlocked sub and global contexts, and who links them when | done, proved |
| 3 | ClientInvariant, ClientProofs, OwnershipProofs | the clients' safety by an inductive invariant; ConnectionOwnership by refinement | done |
| 4 | ContextInvariant, ContextProofs | NoPointerRace and the refinement of GlobalMap by an inductive invariant of the contexts | done |
| 4 | SessionInvariant, SessionProofs | pipelined sessions: AnswersIncrease by AheadInv, CloseHonoured by SpotInv; BufferConsumed when no request is chunked | done |
| 4 | Query, Routes, RoutesProofs | what `parse_request` computes, for parameters of any number and length | done |

Session and ServerLifecycle meet in "a session ends": ServerLifecycle takes it as
fair unless a silent peer holds it in a synchronous call, Session shows when it
does (`SessionEnds`, `TimeoutEndsSession`); the tasks ServerLifecycle counts are those
that Session's handlers spawn. Session's Dispatch chooses a route of
some type; Routes shows which. ServerContext gives each request the context that
Session calls by `auto` and `resType` alone.
HttpClient extends ConnectionPool and composes its operations with the calls.

## 3. Session

**State.** The TCP stream from the peer is a sequence `out` of units: the head of
a request, pieces of its body, or a fragment of a head that was cut. `rd` is how
many the session has read from the socket, `used` how many it has parsed or thrown
away: the `flat_buffer` is the part between. `pc` is the line of run_session,
`cur` and `got` its parser. `stream` is the tcp_stream: open, closed, or destroyed
with the coroutine's frame. Per request there is its context (`auto`, `resType`)
and the task its handler may have spawned. `continued` and `answers` are what the
peer received, `fault` the undefined behaviour met (a null pointer, a dangling
stream).

**Actions and code.** One action per stretch between suspension points:
`ReadHeader`, `NoHeader`, `ReadTimesOut` (async_read_header and how it fails),
`SendContinue`, `PutBuffered`, `ReadMoreBody`, `PartialChunk`, `BodyCut`,
`BodyComplete` (the body), `Dispatch`, `NotFound`, `Handler` (handle_request),
`NoAutoResponse`, `AutoResponse`, `WriteDone` (the response), `StartError`,
`Write500Done`, `Close`. `TaskStart`, `TaskDone` and `TaskCloses` are a deferred
response: it starts to write, the write ends and the peer has its answer, and a response
that is to be the last closes the stream. Between the last two the session, on another
thread, may go on. A session's own response closes in the step that ends its write
(`WriteDone`), since only a task could act in between, by closing the same stream. The
peer's actions are external: it sends, stalls, closes and resets as it likes.
`Put` models `parser.put` of a parser that is not eager (async_read_header turns
it off): all of a plain body, one structured element of a chunked one.
`WriteResults` is what a write may end with; a synchronous one does not time out.
A handler fills in the response and returns (`auto`), awaits manual_response itself
(`inline`), leaves that to a task (`defer`), or throws: at once, after it responded or
after it deferred (`throw`, `inlineThrow`, `deferThrow`). In the last two cases send_500
follows a response that was, or will be, given. A handler responds at most once itself.

**Bounds.** In an orderly environment two requests are enough for an answer to be out
of order or mixed with the next; where the client sends ahead there are three, so that
one between two that are answered may be thrown away. Bodies of 0 to 3 units with LargeBody = 1 and
BodyLimit = 2 give empty, small, large and refused ones, and every split of a
body. Only `MaxRequests` cuts the behaviours off.

**Properties.** `OneWriter`, `AnswersInOrder`, `InFrame` are claimed of an orderly
environment (`Orderly`): a client that waits for each answer, no body on a method whose
body is not read, no handler that throws once it has responded or deferred. Without
these the code does break them. `WholeBody` and `BodyInv` need no such assumption.
`CloseHonoured` needs none about the client, but that no handler leaves its response to
a task (`NothingDeferred`; it may throw when it likes): between a task's write and its
close, a session that already waits for a header may read and answer one more request,
even one of a client that waited for the answer.
`AnswersIncrease` is what is left of the order with pipelining, under `NothingDeferred`
and as long as no body stays unread (`OnTheSpot`): what was read ahead is thrown away
with the buffer, so some requests are never answered, and one is answered twice only by
the 500 for a handler that threw after its response, which is then the last answer.
`BufferConsumed` says that the
session waits for more of a body only when it has put to the parser what it has; it
needs requests that are not chunked (`PlainBodies`). `ExchangeSpec`
is the refinement of module Exchange: `asked` is the number of requests sent (a cut
header is one, it gets a 500), `open` is `stream = "open"`.

**Fairness and liveness.** `Fairness` lets threads run whatever is ready and lets
writes end unless the peer has stalled. It assumes nothing of the peer, and not
that time passes. So `TimeoutEndsSession` speaks of behaviours in which
`session_timeout` is reached: the session then ends, or waits in a synchronous read
or write, which no expiry ends. `AnsweredInTime` is about requests sent whole; it
leaves chunked ones out, for `parser.put` takes only part of what came with the
header and the loop may then wait for bytes that never come.

## 4. HttpClient and ConnectionPool

**State.** Per call `pc`, the request (`req`, whose url a redirect overwrites), the
Location held in the response object (`loc`, never cleared), `redirects`,
`retries`, `conn`, `result`. Per connection `sock` (our side) and `wire`: the
server it leads to, whether that has closed, requests it has not answered and
responses not read yet. `pool` has a queue per key. `attempts` and `origin` are
histories. The recursion of request_impl is a loop on `pc = "begin"` with the two
counts it passes.

**Actions and code.** `Start` (get, post, ...), `GiveUp` (-4, -5, -1),
`TakePooled`, `NonePooled`, `Connected`, `ConnectFails` (get_connection,
create_new_connection), `RefuseOversize` (-6), `SendRequest`, `Fail` (the catch
clauses), `FollowRedirect`, `Finish` (return_connection). The pool's operations are
atomic, as under its mutex. `Sync = TRUE` is http_client: no operation times out and
a failed connect throws. Servers answer, close at any time, and send interim
responses when `MaxUnderWay` is above 1: this bound on what is under way on one
connection is 1 when servers send none.

**Bounds.** `ClientPool`: two calls, two servers, three connections, one idle
connection per key, so that the calls compete for one and the pool overflows; one
redirect and one retry, so that both limits are met and multiplied. `ClientSync`: one
call and every kind of request and response, a 3xx without Location among them. A body of 2 units exceeds every limit
set by the user, one of 3 also the limit of Beast's own parser. Calls are repeated
without limit: connections, once closed, are used again (when none is free a call can
still fail to connect). `SizeModulus` stands for 2^64.

**Fairness.** Each call goes on: a connect is answered or given up by the operating
system (the code sets no timeout for it), writes and reads end by their timeout.
In the synchronous client no timeout ends them: a read without a response has no step
to take, and a write to a server that is up need not end (`BlockedInWrite` is excepted
from the fairness). So `SyncCallsReturn` says that a call returns or waits for ever, in
its write for a server that does not read, or in its read for one that does not answer.

With interim responses `PooledReady` and `OwnAnswer` do not hold: the final answer
stays on a pooled connection and goes to the next caller. No document of the
project speaks of interim responses, so this is a hazard and not a finding; run
client_sync shows that attempts and ownership survive it. `ClientInvariant` draws this
line: `CallInv` holds with any servers, `IInv` with those that send one response to one
request (`OneResponse`).

## 5. ServerLifecycle

`main` is the caller of run_server, `worker` its threads inside `ioc.run`,
`stopped` the io_context, `accept` the accept loop, `backlog` the connections the
kernel holds for it. `RunServer`, `ThreadRuns`, `Return`, `StopServer`,
`StartAccept`, `TestFlag`, `Accept`, `AcceptFails` are the code's steps; that the
io_context stops when it has no more coroutines (`OutOfWork`, `ThreadLeaves`) is
Asio's. The thread count is at least one, as `example.cpp` makes it. stop_server is
called at most once per run (it is idempotent).

`alive` are the coroutines of the connections: the session of each (`Session`) and the
tasks its handlers leave a response to (`SpawnTask`), at most `MaxTasks` under way at a
time. A task may outlive its session. Each coroutine holds the thread it runs on while
it reads a large body or writes a small response synchronously, or while its handler
blocks: `holds`, `HoldThread` and `LetGo`. So one connection may hold several threads. No
timeout ends such a call, and one of a peer in `Silent` may last for ever (`Silenced`).
While every thread is held nothing runs: no accept, no other coroutine.

**Fairness.** Asio's threads take handlers from a queue in the order in which they
became ready. What is ready stays queued, but the model's guards turn false in
between, while all threads are held, so `TestFlag`, `Accept` and `CoroutineEnds` are
strongly fair: enabled again and again, they get their turn. That a session ends is what
Session shows; a task does one write, which `session_timeout` ends too unless it is
synchronous. A call whose peer is not silent returns (`LetsGo`, weakly fair).
`VisitedSpec` adds that clients keep connecting, which is what the accept loop needs to
see a stop.

**Liveness.** `Served`: while the coroutines of silent peers are fewer than the threads,
a waiting client gets its session. `StopEndsUnlessHeld`: a stop that the loop has heard
of ends run_server, unless a session or a task of a silent peer holds a thread for ever;
join then waits with it. `StopEndsServer`, the same without any such condition, is what
run server_stop_waits refutes: nothing wakes the pending async_accept. All three speak of
a stop that comes when the accept loop is running (`heard`). One that comes before is
lost, since `StartAccept` clears the flag.

**Bounds.** Three threads and two clients, one of them silent, with one task each: two
threads can be held for ever, by one peer, while the third serves. With as many
coroutines of silent peers as threads `Served` does not hold. Two calls of run_server
suffice, since the second finds the io_context stopped and a third would find the same.

## 6. Routes and Query

A target is a sequence of characters of which `?`, `&`, `=` and the path's matter.
`ParamsOf` is the loop of `parse_request`, as a function of the position in the query;
`std::map::emplace` keeps the first value of a key (`Emplace`). `Register` is
`register_route` with and without `prifix_match`, `HandleRequest` is
`handle_request` up to the call of the handler: `Exact`, then the first entry of
`prefix_routes_` that the path starts with, then 404. Its result is the
`request_context` the handler gets.

The reference is the calls themselves. `Promised` finds a path's handler in the
history `called`; `RoutedAsPromised` says that the two tables agree with it,
`RoutesStay` that a registration takes no other path from its handler. `TargetOf`
writes a target from parameters, and `ParamsAsAsked` says that the handler reads those
back, the first of each key. The code decodes nothing, so this is said of targets that
need no encoding (`PlainTargets`): the path holds no `?`, a key no `=`, no part an `&`,
and the last parameter is not written as nothing, for the `=` of its value is what tells
it from the end of the query.

The tables have no lock: registrations during a run are modelled as steps between
requests, which is what a server with one thread does. **Bounds.** Three paths, each a
prefix of the next, two registrations of either kind (so one follows another for every
pair), targets with up to two parameters, repeated, empty and with `=` and `?` inside.

## 7. Context, GlobalMap and ServerContext

`Context` has the objects: `data` is `ctx_`, `sub` and `glob` are the two pointers.
An operation on the map is one step, as under `mtx_`; a value of another type is not
found. The calls on the pointers take one step for each access, for they have no lock:
`TestSub`, `MakeSub`, `CopyGlobal` are get_sub, `TestGlobal`, `MakeGlobal` get_global,
`SetSub`, `PullGlobal` set_sub. `call` says where each thread is in such a call and
`Reads` and `Writes` what its next step touches. Objects go with their last
shared_ptr (`Drop`).

`ServerContext` composes them into a server: the constructor of http_server calls
`base::server_ctx`, which makes the global context at once; the caller fills it through
`http_server::get_global` and calls run_server; run_session makes each request's context
and links it (`Arrive`: set_sub to the server's); handlers and the task one spawns use
it. The server's settings are values in the server's own map (`Defaults`).

- `NoPointerRace`: no thread's next step writes a pointer that another's next step
  reads or writes. It holds because everything is linked before it is shared: were the
  global context made at its first use, a handler and its task would race to make it.
- `GlobalSpec`: the refinement of `GlobalMap`, one map whose operations are atomic.
  `last` records the key and value of the last operation of a thread that followed
  get_global; an operation that ended up on another map would not be one of GlobalMap.
- `TypeOK` also says that no pointer and no call leads to a destroyed context.

The code checks nothing of how handlers use these calls, so the model states what it
assumes: set_sub and set_global only on the request's own context, while no task shares
it, and never with a null pointer; no handler is two threads at once, and no two spawn the
same task (`ServerContextAssumption`); no get_sub or get_global on the server's or the global
context. A handler that has linked its context anew (`replaced`) spawns no task: it may
have lost the global context (context.hpp:78), and its next get_global makes one.

**Bounds.** Two requests, run again and again, one with a task, the other with a handler
that makes one context and links it once (`Again = FALSE`; the proofs allow it to do so
again and again); one key and one value, of one type and asked for
with two; three contexts for make_shared. Operations on the maps of request contexts and
on the settings are those of the global map and are left out.

## 8. Runs

| Run | Shows |
|---|---|
| session_orderly | types, one writer, at most one answer for a request, order, framing, both inductive invariants, refinement of Exchange; a session ends with its peer, and with its timeout unless it waits synchronously; whole requests are answered, and a peer that holds its body back is told to continue |
| session_pipelined | what still holds when the client sends ahead and handlers may throw after their response: whole bodies, answers that increase, the last one to a request that asks to close, with their inductive invariants; and that put leaves nothing of a plain body behind |
| client_pool | exclusive use, ready connections, own answers, bounded attempts, the inductive invariant, refinement of ConnectionOwnership; every call returns |
| client_sync | the same code without timeouts, every kind of request and response, interim ones too; a call returns or waits for ever for a server that does not read or does not answer |
| server_run | quiet return, prompt stop; a stop is obeyed if clients keep coming and no silent one holds a thread; silent peers with fewer sessions and tasks than there are threads keep nobody waiting |
| routing | routes and parameters are what registrations and targets say |
| shared_context | no race on the pointers of contexts, their inductive invariant, refinement of GlobalMap |
| session_file, session_late, session_stray, client_response_size, server_stop_waits | one disagreement each between a comment (or the example) and the code, see `findings` in PROJECT.json |

The models show more of what the code does against its comments, without a run of
its own: with chunked requests `BufferConsumed` fails (`parser.put` takes one element
of what came with the header, request_session.hpp:82, though the comment above it
says that the buffer is consumed); a session that reads a large body outlives
`session_timeout` (the exception in `TimeoutEndsSession`); a stop_server that comes
before run_accept starts is forgotten (`StartAccept` clears the flag).

Deadlock is not checked for sessions and servers: a connection ends, and so does a
server. The other runs check it: a caller, a registration or a request can always come
again.

## 9. Proofs

TLAPS checks, for all values of the constants:

- `SessionProofs`: `TypeCorrect`, `BodyInvariance` and `BodiesAreWhole`, for any
  environment. The
  inductive invariant is `BodyInv`: types and indices (`IndexInv`), the peer writes a
  whole body after its header (`WireInv`), and what the parser has taken starts at the
  header of `cur` (`PosInv`). `WholeBody` alone says nothing of the body while it is
  being read, so it is not inductive.
  Assuming `PlainBodies`, `BufferIsConsumed`: a put that stops short of the end of the
  buffer has completed the body (`PlainPut`).
  Assuming `NothingDeferred`, and nothing of the peer, `SpotInvariance` and
  `CloseIsHonouredOnTheSpot`. `SpotInv` holds that no answer so far asked to close, as
  long as the session may give another (`KeepInv`); what keeps that true when the peer
  starts a request is that nothing was answered that it has not sent (`KnownInv`).
  Assuming `OnTheSpot`, `AheadInvariance` and `AnswersDoIncrease`. `AnswersIncrease` needs
  to know that the next header is that of a later request, wherever clearing the buffer
  has left the position: `OrderInv` says that only later requests stand behind a header
  and its body, `LaterInv` that this holds of the position whenever the session has read
  all of a request, `PastInv` that no answer is for a request after `cur`, nor for `cur`
  while the session works on it, but for the response of a handler that then threw (the
  session then leaves its loop, so the 500 is the only answer to follow). Bodies that are
  not read would break `LaterInv`: hence `NoStrayBody`.
- `OrderlyProofs`: assuming `Orderly`, `OrderlyInv`, `WritersExclude`, `AnswersAreInOrder`,
  `RequestsAreFramed`. The invariant `IInv` follows a request
  through three stages: unread in the stream, worked on, or answered or left to one
  task with everything read. It counts bytes and answers (`CountInv`, `FrameInv`) and
  says that whoever may still answer is the only one (`TaskInv`, `WorkInv`).
- `ExchangeProofs`: `SessionImplementsExchange`, from `IInv`: each step is an Ask,
  an Answer, a Close or a stutter.
- `ServerProofs`: `TypeCorrect`, `ReturnIsQuiet`, `StopIsPrompt`, from `IInv` of
  ServerLifecycle: a thread leaves only a stopped io_context, a stopped one has no
  coroutine but one spawned in vain by a later run, and a loop that has heard of the
  stop ends at its next test.
- `ClientProofs`: with any servers `CallInvariance`, `TypeCorrect`, `AttemptsAreBounded`,
  `UsersExclude`; assuming `OneResponse`, `ClientInvariance`, `PoolIsReady`,
  `AnswersAreOwn`. An attempt is paid for by the retries and redirects before it
  (`AttemptInv`: at most redirects * (MaxRetries + 1) + retries, plus the one under way),
  and only calls within both limits are under way (`LimitInv`). `Exclusive` alone is not
  inductive: that a connection newly opened is nobody's takes `HoldInv` (what is held or
  idle leads to a server) and that an unused one leads to none. `ReadyInv` says what may
  be under way on a connection at each line of the call that holds it.
- `OwnershipProofs`: `ClientsImplementOwnership`, from `CallInv`: a step gains a call
  one connection (Open, Take), takes it one (Leave), or moves none. `OpenInv` makes a
  connection that is about to be opened a free one.
- `RoutesProofs`: `TypeCorrect`, `RoutesAreStable` and `RoutingAsPromised`. The inductive
  invariant `RouteInv` names, for each path, the newest call for it and the oldest for a
  prefix of it as witnesses; the lemmas follow them through an Append to either sequence.
  Assuming `PlainTargets`, `ParamsAreAsAsked`: the loop of `parse_request` gives back what
  was written. The induction over the parameters takes, of those from which the loop is
  wrong, the last one (`Least`, `Downward`, from the well-foundedness of the naturals):
  that avoids the induction theorems that take an operator. `ParameterIsRead` finds the
  `=` and the `&` that end a key and a value, `PartIs`, `LastPart` and `NextPart` say where
  in the query the loop stands, `LastParams` and `MoreParams` what one turn adds to the map.
- `ContextProofs`: `ContextInvariance`, `TypeCorrect`, `PointersAreRaceFree` and
  `ContextsImplementGlobalMap`, from `ContextInv` of ContextInvariant. `NoPointerRace`
  speaks of the next steps only and is not inductive. What keeps threads apart is who
  made a context: a handler calls on contexts of its own (`HandlerInv`, `OwnerInv`), whose
  pointers lead to its own or to the main thread's (`PointerInv`); a task shares only the
  request's context, which was linked before, and while it runs neither of the two writes
  (`LinkInv`, `TaskInv`); the main thread has made the global context before it serves
  (`MainInv`), so nobody writes the server's pointers from then on. For the refinement,
  `FollowInv` shows that what get_global gave on a request's context, unless a handler has
  linked that anew, is the server's global context: an operation on it maps to the one
  of GlobalMap, every other step to a stutter.

The assumptions are the named ASSUMEs of the modules, which TLC evaluates on each
run. Only model-checked: all liveness (`SessionEnds`, `AnsweredInTime`,
`TimeoutEndsSession`, `CallsReturn`, `SyncCallsReturn`, `Served`, `StopEndsUnlessHeld`;
TLAPS proves no fairness property here). Every invariant and action property of a
passing run is stated by a theorem, some of them under a named condition on the
constants (`Orderly`, `OnTheSpot`, `PlainBodies`, `OneResponse`, `PlainTargets`), which
the constants of the run meet.

## 10. Not modelled

`parse_url`, `request_timer` and `cleanup` are used by nothing. max_connections,
connection_timeout, request_timeout, max_requests and connect_timeout_ are stored
and never read. `http_client::async_get` and `async_post` refer to a parameter that
no longer exists when their thread starts, so nothing can be said of what follows.
Logging, header fields other than those that decide control, TLS (there is none) and
memory are left out.
