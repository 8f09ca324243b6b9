# A verification project for simple-http-proxy

simple-http-proxy is a forward proxy for http and https. It runs in one thread
on State Threads: every listener, every client connection and the manager that
deletes connections is a coroutine, and a coroutine runs until it makes a
blocking call. This directory holds TLA+ models of the parts that carry its
logic, the TLC configurations that check them on small instances, and TLAPS
proofs of the theorems that hold for every instance. `PROJECT.json` maps each
definition to the lines it models and lists the runs, the mutants, the hazards,
the findings and the theorems.

## 1. The system

The program's own code is under `src/src/` (`main`, `app`, `protocol`, `kernel`,
`core`); `src/3rdparty/` is vendored (State Threads, OpenSSL, c-ares, gtest,
gperftools). The build uses no optimisation flag.

| Part | State | Operations | Talks to | What is hard |
|---|---|---|---|---|
| Coroutine object (`srs_app_st`) | `started`, `interrupted`, `disposed`, `cycle_done`, `trd_err`, the State Threads thread | `start`, `interrupt`, `stop`, destructor, `pull` | its worker, its owner, the scheduler | three parties write `trd_err`; `trd` dangles after the join; `stop` waits for a worker that may be blocked |
| State Threads (`3rdparty/st-srs`) | run queue, thread states, interrupt flags, condition variables | create, exit, join, interrupt, signal | everybody | signals to nobody are lost; an interrupted call fails even when its event came |
| Resource manager (`srs_app_conn`) | `conns_`, `zombies_`, `p_disposing_` | `add`, `remove`, `cycle`, `clear`, `do_clear`, `dispose` | connections, server | a connection has itself deleted from inside its own coroutine; addresses are reused |
| TCP listener, server accept path | the listener's coroutine, the kernel's backlog | `cycle`, `accept_client`, `on_tcp_client` | manager, connections | enqueue and start are two steps, and the second may fail; a failed accept is final |
| Proxy connection (`SrsHttpxProxyConn`) | the two parsers with their buffers, `svr_skt`, the request, the response, TLS sessions | `check_http_or_https`, `process_http_connection`, `process_https_connection`, `processHttpsTraffic`, `processHttpsTunnel` | client, origin server or next hop, policy, access log | keep-alive over one server socket, buffers that outlive connections, every error path in the middle of a transaction |
| HTTP body reader and stream (`SrsFastStream`, `SrsHttpResponseReader`, `srs_ioutil_read_*`) | buffer pointers, `nb_left_chunk`, `nb_total_read`, `is_eof` | `grow`, `read_slice`, `read_chunked`, `read_specified`, `read_part`, `read_all` | the socket, the relay loops | fragmentation at any byte, a full buffer, int truncation, the byte after the end |
| HTTP parser and message (`http_parser`, `SrsHttpParser`, `SrsHttpMessage`) | the machine's state, flags and counters; `field_name`, `p_header_tail`, `p_body_start` | `http_parser_execute`, the callbacks, `parse_message`, `restore_http_header` | stream, reader, proxy connection | a read may end anywhere; pointers into a buffer that moves; one framing seen by several readers |
| Urls and percent encoding | fields as offsets and lengths | `http_parser_parse_url`, `SrsHttpUri`, `escape`, `unescapse`, query strings | parser, api | where one field ends and the next begins |
| JSON (`srs_protocol_json`) | counters of two passes over one text | `json_parse_ex`, `loads`, `dumps` | api | the second pass writes where the first one counted |
| Configuration (`srs_app_config`) | a tree of directives | `read_token`, `parse_conf`, the rewriting of old vhosts, getters | start-up | tokens that depend on what came before; a vector edited under its iterator |
| Policy | black list, tunnel domains, `https_descrypt` | load, look up | proxy connection | which traffic is never looked up |
| Access log | a file | one entry per transaction | proxy connection | when an entry is written |
| TCP client, asynchronous DNS | the io object, two c-ares channels | `connect`, `do_resolve`, `dns_callback` | proxy connection | a timeout against a late answer; the replaced io object |
| TLS connections | BIO pairs | `handshake`, `read`, `write` | proxy connection | loops over WANT_READ; a BIO reset in the middle of a handshake |
| Tunnel | two sockets | `processHttpsTunnel`, `pass` | client, server | both directions in one coroutine, bytes read ahead before it began |
| API connections, serve mux, response writer | handlers, header flags | `cycle`, `serve_http`, `write` | manager | order of header and body, unread bodies, handlers that answer nothing |
| Startup: pid file, thread pool, hybrid server, wait group | locks, entries, counters | `run`, `start`, `listen`, `wait` | everybody | start before `add`, listeners bound before the server is whole, an error nobody looks at |
| Fast timer, circuit breaker, async call worker, certificates, log, utilities | | | | see section 8 |

For each modelled part, what makes it correct:

* **Coroutine**: the worker's error survives, `interrupt()` never touches a freed
  thread, a deleted object has no thread, `stop()` returns.
* **Connections and manager**: an object is freed exactly once, only after its
  coroutine is over, and in the end; a wake-up is never lost.
* **Proxy connection**: listed domains get no request, answers go to the requests
  they belong to, whole and in order, every transaction is logged once, and the
  coroutine ends.
* **Link**: it is a pipe between the peers once the client has its 200, whatever ends
  the link leaves nothing open, and it ends when a peer does.
* **Body**: what goes out is the body that came in, ended once, and the next
  message in the buffer is untouched.
* **Parser**: the message is the one that was sent, however it was cut, and what is
  forwarded is read as what came.
* **Texts**: a url, an escaped text, a JSON text and a configuration file mean to
  the program what they were written to mean.
* **Service**: one server per pid file, no client before the server is whole, every
  client accepted, every API answer framed and in its place.

## 2. Modules

| Module | Models | Extended or used by |
|---|---|---|
| `Lifecycle` | what a coroutine object promises its owner | `Coroutine` (refinement) |
| `Coroutine` | `SrsFastCoroutine` and its State Threads thread | `CoroutineProofs` |
| `ResourcePool` | what the resource manager promises | `ConnLifecycle` (refinement) |
| `ConnLifecycle` | listeners, accept path, connection coroutines, `SrsResourceManager` | `ConnLifecycleProofs` |
| `ProxyConn` | one `SrsHttpxProxyConn` with its client and server, message by message | `ProxyConnProofs` |
| `Pipe` | what the connection behind a CONNECT promises client and server | `ServerLink` (refinement) |
| `ServerLink` | the bytes behind one CONNECT: DNS, dialling, TLS engines, tunnel | `ServerLinkProofs` |
| `HttpBody` | one message body through stream, reader and relay loop | `MCHttpBody`, `HttpBodyProofs` |
| `Text` | walking over a text from left to right | the modules on texts |
| `HttpUrl` | urls, hosts, percent encoding, query strings | `HttpParser`, `MCText` |
| `HttpParser` | `http_parser_execute`, `SrsHttpParser`, `SrsHttpMessage` | `MCHttpParser` |
| `Json` | `json_parse_ex`, `SrsJsonAny` | `MCText` |
| `Config` | the directive tree, the rewriting of old vhosts, getters | `ConfigText`, `Startup` |
| `ConfigText` | the text of the configuration with its includes | `MCText` |
| `ApiConn` | serve mux, response writer, API handlers as operators | `Startup` |
| `Startup` | processes from `main` to the accept loops | `Service` |
| `Service` | `Startup` with an API connection it accepts | `MCService`, `ServiceProofs` |
| `MC*` | the messages, texts, files and requests TLC tries | |
| `SequenceLemmas` | lemmas about appending, cutting and joining sequences | `ProxyConnProofs`, `ServerLinkProofs`, `HttpBodyProofs`, `ApiConnProofs` |
| `ApiConnProofs` | lemmas about the response writer, the handlers and the multiplexer | `ServiceProofs` |
| `*Proofs` | theorems | |

The modules meet at named boundaries. `Coroutine` shows that an object may be
deleted by another coroutine once its worker is a zombie, and
`ConnLifecycle!JoinNeverBlocks` shows that the manager deletes only such ones.
`ConnLifecycle` takes a connection as "runs, blocks and ends"; `ProxyConn` and
`Service` say what it does meanwhile. `ProxyConn!HandedOver` is what
`HttpParser` shows of a parse; `ProxyConn!RelayBody` is one step per body, which
`HttpBody` makes byte by byte; `ProxyConn!Established` to `TunnelEnds` is what
`ServerLink` makes cell by cell. `HttpParser!ReadBody` takes exactly the body, as
`HttpBody!NextMessageIntact` allows. `Startup` reads its configuration through the
getters of `Config`, on trees that `ConfigText` would build.

Definitions named `Bug_...` are mutants: plausible wrong versions of the
definition that follows. They are no part of any specification; each shows that
a property can be broken by a mistake in the code.

### Coroutine

The flags are the object's fields. `trd` is the state of the thread (`null`
before creation, `joined` after `st_thread_join`, `released` once the thread has
freed its stack, and with it the descriptor `trd` still points at), `at` is the
place of the handler (`head`: at its pull, `work`, `io`: in a blocking call),
`intr` the thread's interrupt flag. Scheduling is cooperative: every step of
another coroutine requires `CpuFree`. Each call of the object is one action,
except `stop()`, which blocks in the join: `StopBegin`, `StopJoined`. The handler
is any code that keeps the contract of `ISrsCoroutineHandler::cycle` and looks
at the pull in its loop. Errors are compared the way `srs_assert` compares them,
as pointers.

### ConnLifecycle

`Addr` is the set of addresses the allocator hands out, so that a new object can
have a deleted one's address. `heap`, `trd` and `done` describe the object at an
address; `conns_`, `zombies_`, `p_disposing_`, `copy` and `i` are the manager's
fields and the locals of `do_clear`. `p_disposing_` points to `copy` in the code
and is a set here, empty when the pointer is NULL. `do_clear` is a chain of
actions (`ClearBegins`, `dispose` for each resource, `DisposeEnds`, `srs_freep`
for each, `ClearEnds`), although it does not block: `JoinNeverBlocks` is what
shows that it does not. The subscribers and ids of the manager are not used by
the proxy and are left out.

### ProxyConn

`pc` is the place of the coroutine. Requests are numbered; a response carries the
number of the request it answers, and `toClient` records which answer was given
to which request and whether the whole of it was written to a client still there
(`whole`). The client may go at any moment (`ClientGoes`, `gone`), and from then on
every write to it fails: the http loop ends at the failed write of a body and ignores
the failure of a header, of the end of a chunked body and of the block page; the https
loop ignores every one. A client that goes while a body is relayed is one that went
before: the answer is not whole. `inbox` and `outbox`
are the two directions of the server connection, `svrBuf` what was read ahead
into `server_parser`'s buffer. The http loop and the loop over decrypted requests
are the same steps from `forward` on. Error returns are actions of their own
(`ClientFails`, `ConnectFails`, `ResponseFails`, `RelayFails`, `HopFails`,
`ServerHandshakeFails`). Client and server are external: the client sends any
request or fails, the server answers in order, with a status and a body from
`Statuses` and `Bodies`, or closes. Whether there is a next hop is chosen at the
beginning, like the configuration. A CONNECT taken for http
(`check_http_or_https` compares bytes of which only the peeked ones were written)
goes through the http loop. Where the code answers differently from what http
asks (section 7), the properties name the case as their exception and hold
everywhere else.

### ServerLink

A peer's bytes are cells numbered from 1. Through a tunnel a cell is a piece of
data; under TLS `Parts` cells are a flight: two of the handshake, then one http
message each, and a flight is decrypted only when all its cells are in `bio_in`
and follow the ones before. `in` and `out` are the sockets' buffers, `parser` the
cells a parser read together with the CONNECT or its answer. A write blocks while
the socket is full. `channels`, `fds` and `stfd_` are the resources of
`SrsAsyncDns`, `srs_tcp_connect` and `SrsTcpClient`, `rtm` says which socket has a
recv timeout. The resolver may answer, fail or say nothing until the poll of one
second expires. A peer may send early (a client its first cell with the CONNECT,
its request with the end of the handshake), close one direction or both at any
time. The peers read what they get; data that a reset drops after a close with
unread input is not modelled.

`Pipe` is what this machinery is for: two streams of pieces, each received in order
and not before it was sent, of which a first part may be lost only before the client
is told that the connection is established. `ImplementsPipe` maps a tunnel's cells,
without those a parser kept, and the http messages of a decrypted connection, the
flights behind the two of the handshake, to the pieces. It maps the streams of a
connection that is upgraded under TLS to nothing: after a 101 the code moves the raw
bytes of one TLS session into the other, which is no pipe (section 7).

### HttpBody

The wire is a sequence of abstract bytes: CR, LF, a chunk size (one byte with a
value), numbered data bytes, other bytes. `off` and `buf` are the stream's
pointer and the bytes from it on; `grow(n)` is one read of n bytes, so that the
message may be cut anywhere. Each place where the reader may wait is a value of
`pc` (`header`, `data`, `crlf`). A response is relayed in parts (`WritePart`), a
request read to its end and written at once (`WriteRequest`), with the errors of
the read ignored. Lengths are cut to `int` where the code casts (`AsInt`, with
`IntMax` a parameter). `WellFormed(m, c)` says what a sender means by a message: its
bytes are the chunks at the places `c`, with or without extensions, up to the first
empty one, or a body of its length. It is the hypothesis of the theorems about
bodies; the places take the part of a recursive parse of the message.

### HttpParser, HttpUrl

A text is a sequence of symbols: a character, or a piece of one of the words the
parser compares (`"Content-"`, `"Length"`), so that a read may end inside a word.
The state machine is the one of the source, one operator per state or group of
states, with the source's state names; its counters have `Bits` bits. The
variables of the specification are the parser (machine, callbacks' fields,
pointers into the stream's buffer `mem`) and the conversation: `Grow(n)` is one
read, `Execute` one turn of the loop of `parse_message_imp`, `ReadBody` the reader
of module `HttpBody`, `NextMessage` the next `parse_message`. `ParseWhole` gives
the whole header to the machine in one piece: the reference the fragmented
parses are compared with, and the reader of what `restore_http_header` writes.
`HttpUrl` has characters as codes and the offsets and lengths of the url's fields
in `Width` bits.

### Json, Config, ConfigText

`Json` is both passes of `json_parse_ex` over symbols; a value has the length the
first pass counted and the one the second pass reached, and `over` records a write
beyond it. Integers wrap at `IntBits`. A double is a decimal, a sign, a natural number
and the places behind its point, which the fraction and the exponent of the text
make; `dumps` rounds it to two places and cuts what does not fit its 21 characters. The
binary precision of doubles is left out: no number of the run's texts lies half-way
between two hundredths or beyond a double's range. The round trip `JsonFaithful` claims
is that of the rounded value. `ConfigText` folds `read_token` and
`parse_conf` over the text, the open blocks as a stack, an include as a parse of
its own. `Config` has the operations of `SrsConfDirective`, the loop of
`srs_config_transform_vhost` with its iterator, and the getters the start-up
calls. A name the program knows is one symbol.

### Startup, ApiConn, Service

A process is two threads. The primordial one locks the pid file, creates the
hybrid thread and sleeps for ever; the hybrid thread goes through the calls of
`SrsServerAdapter::run` one by one, each of which may fail, and yields for the
first time in the wait group. Listeners that are bound before collect clients in
the kernel's backlog. `ApiConn` has the response writer and the handlers as
operators on a writer record; a body is counted in units. `Service` lets an API
listener accept a connection and serves requests on it; every write may be the one
that fails. A body that a handler does not read stays in the buffer (`unread`); it may
be no request and end the connection, or it may be one, or several, and be served:
`strays` are the places in `served` of the requests taken from a body. A process may be
killed in any state.

## 3. Runs

| Run | Checks | Bounds |
|---|---|---|
| `coroutine` | `WorkerErrorKept`, `NoDanglingInterrupt`, `FreedIsQuiet`, `StopReturns`, `ImplementsLifecycle` | none: the object has finitely many states |
| `conn_lifecycle` | `NoUseAfterFree`, `QueuedOnce`, `NoLostRemove`, `JoinNeverBlocks`, `ZombiesNotStranded`, `ImplementsPool` | 3 addresses, 2 listeners, 1 failed start |
| `proxy` | `BlockedNotForwarded`, `AnswersMatchRequests`, `RequestsAnswered`, `BodiesRelayed`, `LogMatchesTraffic`, `ConnectionEnds` | 2 hosts, one of them listed and a tunnel domain, 3 requests, bursts of 2, all statuses and bodies, with and without next hop, a client that goes at any step |
| `http_body` | `BodyRelayed`, `NextMessageIntact`, `AssertsHold`, `RelayEnds` | up to 2 chunks of up to 4 bytes, a buffer of 4, parts of 2, reads of 2 |
| `http_parser` | `HeadersAsSent`, `ReadsDoNotMatter`, `BodyFound`, `ForwardedAsRead` | 29 conversations of one or two messages, every fragmentation, a buffer of 40 symbols, headers up to 45, lengths of 6 bits |
| `text` | `UrlFields`, `EscapeSafe`, `JsonFaithful`, `ConfigAsWritten`, `VhostRewritten` | 5 characters after each beginning of a url, 3 to escape, 4 symbols of JSON after each beginning, integers of 16 bits, 6 pieces of a configuration, 3 directives of a vhost |
| `link` | `StreamsIntact`, `NothingLeft`, `EndsDrained`, `ImplementsPipe`, `Delivered`, `LinkEnds` | 3 cells or 4 flights of 2 cells each way, sockets and `pass` of 2 |
| `service` | `OnePerPidFile`, `ServesOnlyWhole`, `AnswersFramed`, `ClientsAccepted` | 2 processes, 3 configurations with 2 pid files, 2 launches, 2 clients, 2 requests of 12 kinds, 5 writes |
| `proxy_keep_alive`, `header_cut`, `stalled_server`, `hop_refused` | one property each, violated: section 7 | the smallest that show it |

Why the bounds are enough:

* **conn_lifecycle**: three addresses let one connection be disposed of, one be
  newly queued and one be accepted at a freed address, all at once. The run
  without bounds is the proof: every invariant of it is a theorem.
* **proxy**: three requests are enough for one that opens the server connection,
  one that finds it open and one that finds what the second left in the buffer; a
  burst of two is what the parser runs over; the servers are as bad as http
  allows.
* **http_body**: the buffer is smaller than a chunk with its framing, so that the
  unread bytes are moved and every piece of the framing is cut; a chunk takes two
  reads and a body several parts; an extension of one byte fits the buffer and is
  refused as no number, a longer one overflows it. `IntMax` is above every length.
* **http_parser**: each conversation is there for one path of the machine or one
  decision of the callbacks: methods that share a beginning, absolute and plain
  targets, folded and repeated headers, several cookies, both framings and their
  conflicts, lengths at the limit of their width, upgrades, messages on the heels
  of another. The buffer is shorter than some headers, so that it begins anew
  while pointers into it are kept. Fragmentation is exhaustive.
* **text**: the beginnings put the machines into each of their deeper states
  (inside a host, after user info, inside an object after a member, inside a number
  behind its point or before its last digits); from there
  every continuation of the given length is tried. Six pieces hold a block with a
  directive in it and comments; three directives hold two that move to the same
  block and one that stays.
* **link**: sockets of two cells are full before a peer is done; four flights are
  the handshake and two messages; flights of two cells are cut by reads.
* **service**: two launches of two processes put one into every state of the
  other, or a second one after the first was killed; two requests suffice to see
  one after the other on a connection.

`CHECK_DEADLOCK FALSE` is in every configuration, because every model has final
states: a deleted coroutine, a connection that is closed, a text of full length,
listeners that died with nothing left to do.

## 4. Fairness

* **Coroutine**: weak fairness of `Dispatch` (the run queue of State Threads is
  FIFO), of the running handler and of the join's return. Nothing is assumed of
  the event the worker waits for: `stop()` must return without it.
* **ConnLifecycle**: weak fairness of the running manager and the running
  connections, strong fairness of their dispatch, because the CPU is taken and
  given up again and again by others. Nothing is assumed of clients or listeners.
  One caveat: `st_accept` does not yield while clients are ready, so a listener
  that always finds one could keep the CPU; strong fairness assumes that it finds
  none now and then.
* **ProxyConn**: weak fairness of the coroutine; of the client, whose socket has
  a recv timeout, so that waiting for it ends in a request or an error (that it goes,
  `ClientGoes`, is not assumed); and of the server, which answers or closes in the end. The last is an assumption about the
  world: the code means to set a timeout there and loses it (`stalled_server`).
* **ServerLink**: weak fairness of the coroutine and of the peers' receiving (they
  drain their sockets). `Spec` also assumes servers that answer; `SilentSpec` does
  not. Clients and the resolver may be silent for ever in both.
* **HttpBody**: weak fairness of the step relation: a read brings something or
  fails.
* **Service**: weak fairness of the start-up and the accept loops taken together;
  launches, failures, kills, clients and requests are not fair.
* **HttpParser, MCText**: no fairness, safety only.

## 5. Theorems

All constants are arbitrary within the named assumptions; the proofs use no bound
of the runs.

* **`CoroutineProofs`**. The inductive invariant `Inv` states how the flags and
  the thread agree: a thread exists exactly when the object is started,
  `cycle_done` is set only by a worker that is gone, a disposed object cannot
  interrupt any more, and outside the join a disposed object has no thread or a
  joined one. None of the safety properties is inductive without it, because each
  relates a flag written by a caller to a state written by the scheduler. From it:
  `TypeCorrect`, `WorkerErrorIsKept`, `InterruptIsSafe`, `DestroyIsSafe`, the
  action property `ErrorsStick`, and `CoroutineImplementsLifecycle`, which is the
  whole refinement (`Lifecycle` has no fairness).
* **`ConnLifecycleProofs`**, for any number of addresses and listeners.
  `ObjectInv`: an object is queued exactly when it asked to be removed, and its
  coroutine is then on its way out. `ManagerInv`: nobody runs while the manager
  does, `p_disposing_` and `copy` exist only inside `do_clear`, and what is freed
  has left `conns_`. A removal runs inside the object that is removed, so neither
  is inductive without the other. From it: type correctness, `NoUseAfterFree`,
  `QueuedOnce`, `NoLostRemove`, `JoinNeverBlocks`, `ZombiesNotStranded`, and that
  every step is a step of `ResourcePool` or a stutter.
* **`ProxyConnProofs`**, for every policy, every client, every server the model
  allows and any number of requests. `PhaseInv` says what the place of the coroutine
  means: what has been read, whether there is a server, whether the destination was
  looked up; with the types it is `TypeCorrect`, and every other proof starts from
  it. `StepKinds` sorts the steps by what they do to the traffic, so that each of the
  following invariants has one case per kind instead of one per action.
  * `BlackListHolds` (`BlockedNotForwarded`) needs only that a request on its way to a
    server has been looked up.
  * `AnswersMatch` (`AnswersMatchRequests`): `OrderInv` keeps the answers in the order
    of the requests and the request at hand younger than all of them; `BufferInv` says
    that, until an interim response has been taken for an answer (`Tainted`), whatever
    is at the server, on its way back or read ahead into `server_parser` belongs to
    the request at hand, and that nothing is there between transactions. The
    property is about answers that are given; it is inductive only together with where
    the next ones come from.
  * `AllAnswered` (`RequestsAnswered`): `AnsweredInv`, a forwarded request has its
    answer, or is the one waited for, or the connection has failed.
  * `BodiesWhole` (`BodiesRelayed`): `BodyInv`, only the last answer may lack some of
    its body, and only while it is relayed or after an error, unless the client has gone
    and the loop went on regardless (`Settled`); and what was written whole comes before
    everything that was not.
  * `LogIsTrue` (`LogMatchesTraffic`): `LogInv`, the log grows in the order of the
    requests, never ahead of the answers and at most one behind; `LastInv` and
    `FramingInv` tie the response at hand to the last answer, which is what shows that
    the loop goes on only after an answer that was written whole, or to a client that has
    gone.
* **`ServerLinkProofs`**, for any number of cells, flights and parts and any size of
  socket and of `pass`. `HeldInv`: `channels`, `fds` and `stfd_` are functions of the
  place of the coroutine; with the types, `TypeCorrect`, and from it
  `LinkLeavesNothing` (`NothingLeft`). `StreamsKept` (`StreamsIntact`) rests on
  `StreamInv`. `InInv` and `ParserInv`: what is in a socket or in a parser is a
  numbered piece of its peer's stream. `RawInv`: through a tunnel the cells received,
  on the way, in the coroutine's buffer and in the other socket join to the stream
  from the first cell on that no parser kept. `TlsInv` counts flights for each engine, decrypted and
  written (`Stage`, `Flow`). The hard part is the reset of `bio_in` after the first
  flight: it is harmless because of `SentInv`, a peer sends beyond its first flight only
  what answers a flight of the proxy it has received, so that nothing can be behind the
  first flight when it is taken. `StreamsIntact` says nothing of what has not arrived
  yet and is not inductive without any of these.
  * `LinkImplementsPipe` (`ImplementsPipe`) is the whole refinement (`Pipe` has no
    fairness). The streams say what is received; that it was sent, and that the client
    had been told, is `PipeInv`. `ToldInv`: the place of the coroutine says whether the
    client has its 200. `EngineBound`: an engine holds and has decrypted only what its
    peer sent, even when a parser kept the beginning of it. `Bounded`: beyond the
    handshake, a peer has received and is being sent only as many messages as the other
    one has sent whole. Each kind of step is then one step of the pipe or none:
    `PipeSends`, `PipeParses` (the only losses), `PipeReceives`, and the step that tells
    the client.
  * `TunnelsDrained` (`EndsDrained`) rests on `DrainInv`. `ReadyInv`: what poll
    reported is still there when its turn to be read comes, also after the pass of the
    other socket and the writes in between, so that a read that finds nothing is the
    end of the stream; and a tunnel writes raw cells only, so that the one write whose
    failure the code acts on, that of a handshake, never ends it.
* **`ServiceProofs`**, for any number of processes, configurations, listeners and
  launches. `LockHeld`: a process whose hybrid thread exists, or that has a socket,
  holds the lock of its pid file. `Whole_`: the state of the hybrid thread determines
  what the server has built. From them `PidFileExcludes` (`OnePerPidFile`) and
  `ServedByWholeServers` (`ServesOnlyWhole`). `AnswersKeepTheirFrames` (`AnswersFramed`)
  is about any number of requests on a connection, those that are taken from a body left
  unread included: each of them is in `strays`, and is there because the message before
  it left a body (`UnreadInv` says so of the buffer before the next one is read). Its
  steps are the lemmas of
  `ApiConnProofs`: whatever write fails, a writer has sent the header of the answer it
  announced and some of its units, and all of them without a failure (`Wrote`); and
  the longest pattern that fits is that of the path's own handler (`MatchOwner`).
  `ConnInv` adds what the connection needs of its process: it waits with all its
  handlers. That rests on `Heard`, a process that listens for the API does not share
  the ports of the stream server, because with a shared port the multiplexer is empty
  and every answer would be 404.
* **`HttpBodyProofs`**. `ReaderInv`: the reader asks for data only while some are
  to come, which needs that a length cut to `int` never grows (`AsIntBound`); the test for
  a length that is used up at the beginning of a read (340) never applies.
  `TypeCorrect`: the stream's pointers stay within the buffer and no counter goes
  below zero. `ReaderAssertsHold` (`AssertsHold`): the assertions of the reader hold. Both for
  every byte sequence a peer may send, malformed ones included, every buffer size
  above one and every `int`.
  `BodiesIntact` (`BodyRelayed`) and `NextMessageKept` (`NextMessageIntact`) are about
  well-formed messages (`SendersKeepToHttp`), of a length or of chunks up to the largest
  `int` (`IntMax`), in any number of chunks, cut by the reads in any way. `BodyInv` is `FrameInv`, the place in the message the reader
  has come to and, for each place where it may wait, how that place lies in the chunk
  at hand (`ChunkAt`, `EndAt`) or in the length (`LengthAt`); `TakenInv`, every byte
  taken is in `out`, in the part or in `got`, at its position; `DoneInv`, what has been
  written at the end. The counters of the reader say nothing of the bytes without the
  place, and the place says nothing of what was written without `TakenInv`. A size is
  asked to fit into an `int`, because the code cuts it to one (section 7).

Assumptions: `StartFailuresAssumption`, `HostsAssumption` (there is a host to ask
for), `PolicyAssumption`, `ConfigAssumption`,
`ServerAssumption`, `BoundsAssumption`, `ProcsAssumption` (no process is called None),
`FilesAssumption` (there is a configuration), `RequestsAssumption` (what a request is), `RelayAssumption`, `MessageAssumption` (a body with a length
has a positive one: the relay loop is not entered otherwise) and
`SizeAssumption`. TLC evaluates each of them, and `SendersKeepToHttp` for the messages
of the run (`SendersAssumption` of `MCHttpBody`).

## 6. Only model-checked

Liveness (`StopReturns`, `ConnectionEnds`, `RelayEnds`, `Delivered`, `LinkEnds`,
`ClientsAccepted`, and the liveness half of `ImplementsPool`) is beyond the prover,
and so is what needs induction over data: everything about texts (`http_parser`,
`text`), whose machines are recursive over their input. Every other safety invariant
of the runs is a theorem.

## 7. Where the code departs from what it says

With a run that shows it:

* `proxy_keep_alive`: the second request of a kept-alive http connection goes to
  the host of the first (`srs_app_http_conn.cpp:620`).
* `header_cut`: a read that ends inside a header's name has the rest of it taken
  for another name (`srs_protocol_http_conn.cpp:240`).
* `stalled_server`: the recv timeout of the server connection is set on an io
  object that `connect()` replaces (`srs_protocol_st.cpp:641`): a server that
  accepts and stays silent holds the connection for ever.
* `hop_refused`: the answer of a next hop to a CONNECT is not looked at
  (`srs_app_http_conn.cpp:840`): the client is told 200 whatever it was.

In the models, as exceptions the properties name, or read in the code beside them:

* Coroutine and accept path: `pull()` answers success after a handler that
  returned without an error, where its contract (`srs_app_st.hpp:71-74`) promises a
  running thread. A connection whose coroutine could not be created stays in the
  manager for good, although "the cycle thread will remove the client"
  (`srs_app_server.cpp:770`). A failed accept ends a listener (`srs_app_listener.cpp:61`).
  `stop()` asserts that its join succeeds (`srs_app_st.cpp:226-235`); it does, because
  the thread is joinable, is joined once, and nobody interrupts the coroutine that waits.
* Requests and responses (`srs_app_http_conn.cpp`): an interim response that arrives
  alone is taken for the answer (668), and every later answer is shifted by one. Of
  several requests in one read only the last is answered
  (`srs_protocol_http_conn.cpp:121`). A response without length or chunking has its
  body dropped (677). The last transaction of a connection without keep-alive is not
  logged (780). A tunnelled CONNECT is not looked up in the black list (861). With a
  next hop every request leaks the last `SrsTcpClient` (616). The https loop throws away
  the result of every write to the client (1000, 1013-1021, 1028) and then ends without
  an error (1062) or logs the transaction (1077), so that a client may lack part of an
  answer that is logged. The http loop does so for the header (675), the end of a chunked
  body (699, 754) and the block page, and returns the error of a body's write (708-739).
* Bodies: a length beyond `int` ends a body early (`srs_protocol_http_conn.cpp:481`).
  A chunked request body that is cut short is forwarded with an end mark (638; the
  test at `srs_utest_http.cpp:151` expects an error from the reader). An empty chunked
  request body is ended twice (642). A trailer is left in the buffer (449).
* Tunnel: cells that came with the CONNECT, the hop's answer or a 101 are not
  relayed (868); a websocket inside a decrypted connection is tunnelled on the TCP
  sockets, below both TLS sessions (1069).
* Parser: "Only consume the header bytes." (`srs_protocol_http_conn.cpp:146`) does not
  hold for headers that end in LF LF, for trailers in the first buffer, and when the
  stream began anew under `p_header_tail`. A read that ends between a name and its
  colon files the value under the empty name. The first character of a value is not
  checked. "Chunked" is chunked for the parser and not for `SrsHttpMessage` (533). A
  Content-Length above the range of int64 saturates. The last header is dropped when
  its value is empty. HEAD and the other methods `restore_http_header` does not list
  are forwarded with an empty method, every version as 1.1. Hosts in brackets are
  split at their first colon.
* JSON: a surrogate pair is combined with `|`; `dumps` does not escape names; `[0,]`
  and `[-]` are accepted; `dumps` prints doubles with two places, so that what is behind
  them is lost, and at most 21 characters of a number (`srs_protocol_json.cpp:1580-1585`).
* Configuration: `"";` and `""{` read the first of no arguments
  (`srs_app_config.cpp:643`, the test before it is commented out). `get(name, arg0)`
  ends without a return when nothing fits, so that an old `refer` may leave the
  defined program. `-h` falls through to `-c`. A reload does not rewrite old
  directives. Include cycles have no bound. The environment variable of the https
  listener is spelled `SRS_HTTP_SERVER_HTTTPS_LISTEN`.
* Service: an error of the hybrid thread is read by nobody: the process stays up with
  its sockets bound and the pid file locked (`srs_app_threads.cpp:317`). Signals reach
  no one (their coroutine is not started). When API and stream server share a port
  there is no API listener, and the destructor frees the shared server twice. The
  HTTPS API listens even when the HTTP API is disabled. A body a handler leaves unread
  is parsed as the next request and served when it is one ("may should discard the
  body.", `srs_app_http_conn.cpp:187`): the client gets an answer to none of its
  requests. `SrsGoApiApi` answers nothing when the body is not JSON
  and uses a null pointer when it is not an object (`srs_app_http_api.cpp:126`, `139`).
  Several functions end without a return; the build does not optimise, and the
  models take what the last call left.

## 8. Not modelled

* **Certificates**: `ResignEndpointCertMap` is calls of OpenSSL; its map is filled
  and never emptied.
* **Fast timer and circuit breaker**: the breaker's levels are read by a trace and
  nothing else.
* **Async call worker**: no code of the proxy starts one. The manager's subscribers
  and ids, `set_buffer`, `writev`, hijackers, the redirect handler and the file server
  are not reached either.
* **Signals and reload**: the coroutine that would deliver signals is never started,
  so neither reload nor a graceful end happens in this program.
* **Log, files, uuid, statistics, CORS headers, the content of API answers, the block
  page**: formatting and I/O.
* **The other getters of the configuration and `check_config`**: hundreds of lines of
  one pattern, of which the start-up's are modelled.
* **Vendored code**, except where its behaviour carries the models: State Threads,
  http_parser and json-parser, the last two because they are part of
  `src/src/protocol`.

## 9. Plan

1. *Done*: `Coroutine`, `ConnLifecycle`, `ProxyConn`, `HttpBody`, their abstract
   specifications, runs and first theorems.
2. *Done*: the link behind a CONNECT with DNS, dialling, TLS and tunnel
   (`ServerLink`); the header parser (`HttpParser`, `HttpUrl`); the texts (`Json`,
   `Config`, `ConfigText`); the start-up and the API (`Startup`, `ApiConn`,
   `Service`).
3. *Done*: type correctness and every safety invariant of `ProxyConn`, `ServerLink` and
   `Startup`.
4. *Done*: `BodyRelayed` and `NextMessageIntact`, and `AnswersFramed`, stated by the
   positions where the answers end.
5. *Done*: the abstract `Pipe`, implemented by `ServerLink` through a tunnel and through
   the two TLS sessions, and how a tunnel ends.
