# A TLA+ model of fsw

fsw is a C++ coroutine library for network programs: stackful coroutines on one
thread, an epoll loop that resumes them, channels between them, sockets that
look synchronous, and TCP, HTTP/WebSocket and HTTP/2 on top. This directory
models its core, the protocols on top of it and the two libraries these rest on
(http_parser and nghttp2's HPACK), checks them with TLC on small instances, and
proves for every instance the safety of the coroutine switch, of the event loop,
of the channel (which implements a bounded FIFO queue), of the TCP server, of the
HTTP server, of the HTTP/2 client and of WebSocket sessions down to their bytes.

Everything fsw does runs on one thread. What makes it hard is that *any* call
that may park the coroutine (`yield`, `sleep`, `push`, `recv`, `accept`, ...)
lets every other coroutine run before it comes back, that `resume`, `create`,
`push` and `pop` run another coroutine *inside* the call, and that the loop
resumes coroutines from ids and raw pointers stored earlier.

## Parts of the system

| Part | State | Operations | Interacts through | Correct when |
|---|---|---|---|---|
| Coroutine, Context (`coroutine.cc`, `context.cc`) | map of live coroutines, `current`, `origin` per coroutine, saved contexts, `defer_tasks` | create, yield, resume, defer, end | nested switches; called by all | `current` is who runs; control always has a way back; deferred tasks run once, last in first out |
| Timers (`timer.cc`) | priority queue of deadlines with a raw coroutine pointer | add_timer, get_next_timeout, run_timers | `sleep`, channel timeouts; loop | each sleeper has one timer, wakes on time, in order |
| Event loop (`core/event.cc`, `help.h`) | epollfd, `events`, `event_num` | wait, default_handle_io, default_handle_timer | resumes the cid packed with the descriptor | wakes those it should, returns only when nobody waits in it |
| Channel (`channel.cc`) | `data_queue`, `producer_queue`, `consumer_queue` | push, pop, with or without timeout | resumes a waiter inside the call | a bounded FIFO queue; no lost wake-up |
| Coroutine socket (`coroutine/socket.cc`, `socket.cc`) | descriptor, buffers, error | accept, recv, recv_all, send, send_all, connect, wait_event, close, shutdown | parks in the loop at EAGAIN | bytes complete, in order, not mixed up |
| TCP server (`coroutine/server.cc`) | `running`, handler | start, shutdown | a coroutine per connection | shutdown takes effect |
| HTTP server, WebSocket sessions (`http/server.cc`, `http.cc`) | a `Ctx` per connection: parser, request, response, keep_alive; handler maps | on_accept, routes, end, upgrade, recv_frame, send_frame, Ctx::~Ctx | coroutine socket; deferred destructor | each request answered by its own route; connections released |
| WebSocket frames, Base64, Buffer | bytes | encode, decode, mask, append | pure | decode inverts encode |
| HTTP/2 client (`http2/client.cc`) | streams, settings, next stream id, a global frame buffer | connect, send_request, write_data, recv_reponse | send_all, recv | frames intact, stream ids fresh, responses end |
| Process, UnixSocket | pid, child pid, socket pair | start, wait, read, write | fork | parent and child tell apart; end of stream seen |
| Log, error | - | messages | - | - |
| http_parser (vendored) | `struct http_parser`: state, index, flags, nread, content_length | http_parser_execute, http_parser_parse_url, http_should_keep_alive | callbacks of `http.cc` | the cuts of the stream make no difference; nothing of one message in the next |
| HPACK (vendored nghttp2) | dynamic table of a deflater and of an inflater; state of an unfinished block | deflate_hd, inflate_hd, end_headers, change_table_size | HTTP/2 client | tables at both ends in step; headers come out as they went in |

Also vendored: the Boost context assembly.

## Modules

```
Help          int arithmetic and the packing of (fd, cid) into 64 bits
Coroutine     create, yield, resume, defer, end           <- CoroutineProofs
  Event       timers, Socket::wait_event, Event::wait and its handlers
                                                          <- EventProofs
    EventLoop   programs that sleep, wait, yield, resume   <- EventLoopProofs
    Channel     programs that push and pop                 <- ChannelProofs
                                                           => BoundedQueue
    Socket      system calls in loops around wait_event
      Server    coroutine::Server and its handlers         <- ServerProofs
Http          http::Server, one Ctx per connection         <- HttpProofs
Http2         http2::Client, shared by coroutines          <- Http2Proofs
HttpParser    http_parser_execute, one byte of input at a time
  HttpUrl     http_parser_parse_url
    HttpStream  calls of it with pieces of a stream        MCHttpParser: the streams
Huffman       the code of HPACK and its decoder
  Hpack       tables, integers, strings, deflater, inflater
    HpackStream  blocks of one direction of a connection   MCHpack: the headers
Buffer        fsw::Buffer
  WebSocketFrame   Frame::encode, decode, mask
Base64        base64_encode, base64_decode
    WebSocket    a session in bytes (both of the above)    <- WebSocketProofs
                                                           MCWebSocket: the frames
```

An indented module EXTENDS the one above it (Event also extends Help), so the
upper modules run on the real switch and the real loop: a `recv` of module
Server parks through `wait_event` of module Event, which switches through
`yield` of module Coroutine. `=>` is a refinement, `<-` holds the proofs. Http is not stacked on
Socket: its coroutines share nothing but the accept loop, and an action is the
code between two socket calls. Http2 is not either: its coroutines share the
client and one descriptor, and it keeps of the loop what matters to them, who
runs and whose wait_event holds the descriptor.

The protocol libraries are operators on a record that holds the C structure, and
a small state machine around them that feeds them. HttpParser, Huffman, Hpack,
WebSocketFrame and Base64 work on characters and bytes because what they do is a
conversion; their data are few short messages. HttpParser, Huffman and Hpack use
RECURSIVE operators and are for TLC only.

How state and actions correspond to the code:

* **Coroutine.** `running` is the stack the CPU executes and `current` what the
  program believes (`Coroutine::current`); `origin` is `Coroutine::origin` and
  `swap_ctx` the machine context saved by `swap_in`: two records of who goes on
  next, kept apart so that a disagreement of the two would be visible. `fault` records what the code cannot survive: the
  assertion in `_resume`, a null or deleted coroutine, entering an active one.
  `resume(d, byCid)` covers both resume by cid and by pointer (timers, channel).
  `execute_defer_tasks` runs one task per step, because a task may defer, yield
  and create.
* **Event.** `timers` is the priority queue, `epoll` the kernel's interest list,
  `events` the array `poll->events`. `wait_event` writes its argument into
  `poll->events[0]`, as the code does, also while a batch is being handled.
  `epoll_wait` reports as many ready descriptors as fit, any of them, in any
  order. `IntBound` scales the width of `int`: the negative values of the packing
  and the conversion of the timeout happen at small numbers.
* **Channel.** A push or pop is split where it switches: on blocking, on being
  resumed and on noticing a waiter, which runs inside the call.
* **Socket, Server.** Each action is one system call that succeeds, or the
  EAGAIN that parks. Bytes are named by their place in the stream, so that loss,
  repetition and mixing can be told apart. Peers send, read, close and reset at
  any time.
* **Http.** `at` is the socket call in which the connection's coroutine is, `ctx`
  its Ctx, `out` its write buffer. A request is cut into the parts whose arrival
  the parser callbacks tell apart: request line, headers, body. `Feed` is the
  callbacks, `parse` one `http_parser_execute`, `Dispatch` the routes.

* **Http2.** `job[c]` is the library call coroutine `c` is in and where in it;
  `running` who has the processor. `stack` is the frame in the global
  `FswG.buffer_stack`, which a parked `send_all` reads from later, `wire` what the
  kernel took. A frame leaves whole or in two pieces, and comes in two `recv` calls,
  one for its header and one for its payload (`pc` "recv" and "payload"), each of
  which may park; a `recv` of no bytes parks too while nothing else has come. A
  request without a body is `bare`: HEADERS with END_STREAM, and DATA. `Clamped` is
  the limit nghttp2 puts on the size of the deflater's table. `streams`,
  `stream_id`, `settings` are the client's members; a `Response` keeps no headers and no status,
  as `parse_frame_header` fills a copy of it (client.cc:219). The server answers,
  sends SETTINGS and skipped frames, ends streams and goes away; `peer` counts what
  it sent, per stream (`data`) and in all (`sent`). The coroutines are a finite set.
* **HttpParser, HttpUrl, HttpStream.** The parser's record is `struct http_parser`
  with the callbacks made so far; `Step` of a byte is the `switch` of
  `http_parser_execute`, whose `goto reexecute` is a second step without a byte.
  Marks that would point into the caller's buffer are the places of `Resume` and
  `Leave`: they are set again when a call begins and handed over when it ends.
  `MaxHeaderSize` and `ULLONG_MAX` scale HTTP_MAX_HEADER_SIZE and the width of a
  length. The build is the strict one.
* **Huffman, Hpack, HpackStream.** A table is the ring buffer with its index
  arithmetic; `Turn` is one turn of the loop of `nghttp2_hd_inflate_hd`. `IntBits`
  scales the 32 bits of integers; a shift beyond the width, undefined in C, is a
  shift modulo the width, as x86 does it. `receiver` is who drives the
  inflater: the loop nghttp2.h documents, or the client's `parse_frame_header`.
  The search table of the deflater is modelled by what it finds.
* **Buffer, WebSocketFrame, Base64, WebSocket.** A buffer is its memory and its
  length: bytes behind the length stay, and `recv_frame` can read them. The
  handler receives and sends in turn, as in the documentation. The kernel may
  take half of what one send gives it. `rx` are the bytes in flight and `starts`
  where in them which frame starts; `meant` is the frame a recv began with, if it
  had all of it. `said` are the replies as RFC 6455 writes them (`Wire`, from the
  protocol and not from the code), `taken` is of each as much as the kernel took
  (`Took`), `tx` the bytes the code sent; the handler goes on after a short send,
  as nothing tells it. `Xor` is the `^`
  of two bytes, bit by bit. Lengths of `Huge` (2^24) and more are one value, which
  no buffer holds.

Definitions named `x_something` with a comment "Mutant:" are not part of the
model: they are plausible bugs, and each property is shown to fail under one.

## Runs

| Run | Question | Bounds |
|---|---|---|
| `coroutine` | Are current, origins and saved contexts right under every nesting? Do deferred tasks run once, LIFO? | 3 coroutines, 2 deferred tasks |
| `event_loop` | Do wake-ups match blocked coroutines; is the shared `events[0]` harmless; does `run` return only when it may? | 3 coroutines, 2 calls each, 2 descriptors, 1 closed under a waiter, 2 ticks |
| `event_loop_live` | Does every sleeper and every waiter wake? | 2 coroutines, 2 descriptors, capacity 1 |
| `channel` | FIFO queue also with timeouts; until a timeout is used no lost wake-up, nobody overtakes, no re-entry | 3 coroutines, 3 calls each, capacity 1, a timeout and a sleep of one tick |
| `server` | Are bytes intact with several coroutines on a connection, partial transfers, resets and reused descriptors? | 3 coroutines, 2 peers, lengths 1 and 2, send buffer 1 |
| `http` | What of a reply comes from its own request, and what from earlier ones; is a final reply final; is the connection freed? | 1 connection, 2 requests of 48 kinds (GET, POST, PUT), split and coalesced reads, resets, 1 frame |
| `http2` | How far is what the server gets HTTP/2; are acknowledged table sizes used; does every response get its data; does the receiver return? | 2 coroutines, 2 requests (pipelined or without body), 1 write, 2 DATA frames, table sizes 1 and 3 around the default 2, 1 other frame, short reads |
| `http_parser` | Do the cuts of a stream matter; are callbacks, errors and URLs those of the messages sent? | the streams of MCHttpParser in pieces of 1 to 3 bytes or the rest, a header limit of 115 |
| `hpack` | Do headers come out as they went in, tables stay in step, cuts matter, strings fit? | 3 blocks of 5 lists, 2 size changes, tables of 40 to 150 bytes, 20 foreign blocks |
| `websocket` | Are frames and accept keys decoded and encoded right, whatever the buffers held? | 2 frames of 4 kinds, cut near every edge, 2 replies of 4 kinds, buffers of 140 |
| `channel_assert` | violation: a timed-out pop makes push resume its own caller | 2 coroutines |
| `send_all_stuck` | violation: send_all waits for readability | 1 connection |

Why the bounds are enough. The switch and the loop look at one or two coroutines
at a time; three give a chain of resumers of length three, a waiter, a sleeper
and a third that interferes. Two descriptors with a batch of two let a coroutine
resumed by the first entry disturb the second; capacity 1 leaves one of
them for the next round (each coroutine makes finitely many calls, so a
descriptor is passed over only finitely often; with endless calls `WaitersWake`
would also need the kernel to take turns).
Two calls each let a coroutine come back to a descriptor or a channel it used
before. Capacity 1 with three clients has a producer, a consumer and one that
blocks behind them. A send buffer of 1 and lengths of 2 make every `_all` call
park between its parts. Two requests are what `Ctx::clear` lies between. In
module Http connections share only the accept loop, which is why one suffices.
Two HTTP/2 coroutines suffice because `overlap` needs one that is parked in
`send_all` and one that builds a frame; two DATA frames fill the scaled window
and the scaled stream buffer; one table size lies above the deflater's own, so that
it is clamped. `GoesOn = FALSE` bounds the run: once frames have overlapped, calls
that were made go on but no new one is made. Requests with a body and no pipeline
are left out: their HEADERS are those of a pipelined request, their DATA those of
one without a body. The theorems have neither bound. The streams of `http_parser` have a
message of every kind of framing (length, chunks with trailers, end of stream,
upgrade, CONNECT), pairs of messages, every header the parser looks into, and
malformed messages; since it keeps only its record between bytes, cutting at
every byte with pieces up to three reaches each state with each kind of next
piece. Tables of a few entries make the ring buffer of `hpack` grow, wrap and
evict; one of its headers does not fit its table at all. The frames of
`websocket` lie around the eight bytes of the wide unmasking, around the length
126 of the extended form, and above the write buffer; the form for lengths from
65536 on is never encoded in it, as no buffer of the server holds such a frame
(the proof covers it).

`CHECK_DEADLOCK FALSE` everywhere: programs end, and bounded clients run out.

### Fairness

`FairSpec` assumes that the operating system runs the only thread and that time
passes; nothing about descriptors becoming ready. `ServerFairSpec` adds that
peers read what they are sent; that is what makes the violation of
`SendersProgress` the library's fault. `HttpFairSpec` assumes that the
loop resumes a connection's coroutine when its socket call can go on (what
`WaitersWake` shows of the loop) and that HTTP handlers return; clients,
WebSocket handlers and the accept loop owe nothing. `Http2Spec` assumes weak
fairness of the one thread: some coroutine that holds the processor or whose
descriptor is ready goes on (at most one can). Unread frames make the descriptor
readable and the loop then resumes the waiter, and the kernel takes what it is
given; calls and the server owe nothing.

### What the runs show

* The reuse of `poll->events[0]` as scratch space is harmless: entry 0 has been
  handled before any coroutine can run (`BatchIntact`).
* A descriptor closed under a waiter leaks one count of `event_num` for good,
  and `run` then never returns; `EventNumExact` states exactly this much.
* The channel is a FIFO queue, and without timeouts calls pair in order. With
  timeouts entries of coroutines that gave up stay in the waiting queues and
  timers of served calls stay armed: results are still those of a queue until
  such an entry resumes a coroutine that is running (`channel_assert`).
* `recv_all` and `send_all` are short only at the end of the stream or when a
  second coroutine waits on the same descriptor (EEXIST).
* What an HTTP request leaves in the Ctx shows in later replies in two ways and in
  no other (`RepliesExplained`): an unknown method counts as the last known one, so
  that a PUT after a GET is upgraded; and a reply that sets no status has the one
  before it, so that a page after a 404 is a 404. The first half is about requests
  that are read one by one and whole, the status about all.
* The HTTP/2 client speaks HTTP/2 as long as no two coroutines are inside its sends
  at once, with one exception, which `StreamsWellFormed` states: after a request
  without a body comes DATA on a stream that its HEADERS have ended. It loses no
  data as long as every read returns what it asked for. Both assumptions can fail,
  and the model has the steps in which they do. HEADERS keep to the table size
  acknowledged last, or to the deflater's own, in any case (`AckedTableUsed`), also
  when another coroutine sends them while the acknowledgement waits.
* `recv_reponse` returns when the end of a response has come. An end that is a
  frame without payload has come, for it, only when something follows
  (`ReceiverReturns`).
* The parser does not depend on how the stream is cut, with one exception among
  errors: which error is reported and what was handed over of the message that
  has it may differ, the complete messages before it do not.
* The tables of deflater and inflater stay in step through evictions, growth and
  changes of size. The client's loop leaves the inflater in the middle of a block.
* A frame that a read has whole is decoded right even though the buffer holds
  older bytes; nothing can be said of one that is not. A client reads of each frame
  of the server what the kernel took of it, and the frames as they were sent until
  the kernel takes less than all of one (`RepliesIntact`).

Behaviour that the models contain and that a reader of the properties should
know, because it is excluded there, stated as an exception, or a fault:

* a sleep of 2^31 ms or more gives epoll_wait a negative timeout (event.cc:36);
* a request in two reads is answered after the first, and the second ends the
  process on a null path (server.cc:67); the status of a 404 stays on a kept
  connection (http.cc:454); a method other than GET and POST keeps the last one
  (http.cc:47);
* frames after a cut one follow the piece of it that was taken: the result of
  `send` is dropped (http.cc:161-168);
* an HTTP/2 request without a body gets DATA after END_STREAM (client.cc:371-375,
  412-413); an empty last frame waits in a `recv` of 0 bytes (client.cc:449);
* in a `Connection` list the parser lowers a tab to ")", so that a token after
  a comma and a tab is not recognised (http_parser.c:416);
* after GOAWAY or RST_STREAM `recv_reponse` waits on; a second coroutine in a
  send overwrites the frame of the first; a short read shifts the frames;
* the client does not call `nghttp2_hd_inflate_end_headers` after a block, so a
  table size update at the start of a later one is refused (client.cc:149).

Findings, with the lines they disagree with, are in `PROJECT.json`.

## Proofs

Every theorem holds for any number of coroutines, descriptors, connections,
capacities and bounds that satisfy the named assumptions of the modules
(`CoroutineConstants`, `IntBoundIsPositive`, `EventConstants`,
`EventLoopConstants`, `ChannelConstants`, `SocketConstants`, `HttpConstants`,
`Http2Constants`, `SessionAssumption`):
bounds are natural numbers, capacities positive, descriptors and cids fit an
`int`, messages are bytes, and a buffer has from 40 bytes (the handshake) to less
than `Huge`; in the code it has 1024. TLC evaluates them in every run.

All proofs have the same shape: an inductive invariant that is the conjunction of
named parts, a lemma per group of actions with a step per action and per part it
can disturb, frame lemmas for the parts an action leaves alone, and a temporal
step that combines them. The upper layers reuse the lower ones: a lemma per
module shows that every step is, for the variables of Coroutine, a step or a
stutter of module Coroutine, so that `SwitchInv` carries over.

**CoroutineProofs**, for a client that makes any call at any time: `TypeCorrect`,
`CurrentCorrect`, `ChainCorrect`, `ReturnCorrect` (`CurrentIsRunning`,
`OriginsFormAChain`, `ControlCanReturn`) and, of the deferred tasks,
`DeferredCorrect` and `DeferOrderCorrect` (`DeferredRunOnce`, and the action
property `DeferLIFO`). The first three are not inductive one by one: that a switch
back finds the right stack needs the chain of origins, and that the chain stays
free of cycles needs that `resume` only enters suspended coroutines or faults.
`SwitchInv` is their conjunction with `FreshCids` (cids not handed out yet belong
to no coroutine), without which `create` could switch to an active coroutine.
`DeferInv` says that the tasks run and the tasks still registered are all there
were, each once, and that those registered increase towards the end that
`execute_defer_tasks` takes from, also while a task defers or yields.

**EventProofs**: `PackingRoundTrip`, for every width of `int`: a descriptor and a
cid come back from `touint64` and `fromuint64` as they went in;
`WordNamesItsWaiter` applies it to the model's descriptors and cids.

**EventLoopProofs**: `LoopCorrect` (the invariant), and from it `LoopNeverFaults`,
`TimersCorrect`, `RegistrationsCorrect`, `BatchCorrect`, `EventNumCorrect`,
`ReturnCorrectly`, and the action property `SleepersWokenOnTime` (`WokenOnTime`).
`LoopInv` adds to the checked invariants:

* `ParkedInv`: of the coroutines that are not suspended, only the running one can
  be inside `wait_event`. Without it a coroutine could be resumed, hand control on
  and leave its descriptor registered with nobody to resume.
* `WaitersInv`: `RegistrationsExact` also in the moment between the resume and the
  `EPOLL_CTL_DEL`.
* `BatchInv`: why the shared `events[0]` is harmless. A coroutine runs inside
  `default_handle_io` only when the first entry has been handled, and the entries
  not handled yet are words of distinct coroutines that still wait.
* `ClockInv`: `run_timers` works with a clock value that is not ahead of the clock.

**ChannelProofs**: `ChanCorrect` (the invariant), `ChanNeverFaults`,
`WaitersCorrect`, `WakeupsCorrect`, `CallsCorrect`, and
`ChannelRefinesBoundedQueue`. As long as no call with a timeout was made,
`Orderly` holds: waiting queues hold exactly the suspended callers
(`QueuesExact`); a coroutine that was just resumed finds its slot or its item
(`WakeupsExact`: nobody runs between the resume and its use); the items in the
queue and the tickets of those who wait are consecutive (`InOrder`), from which
results pair up in the order of the calls. With timeouts only `CallInv` is left,
and it is enough for the refinement: initial states map to initial states; the
step that touches `data_queue` is the abstract push or pop, blocking and giving up
after a timeout are abstract steps of their own, and every other step is a
stutter, whatever timers and entries of the waiting queues are left behind.

**ServerProofs**: `ServerCorrect` (the invariant), `ReceivesCorrect`,
`SendsCorrect`, `ShortReturnsCorrect`, `ShutdownCorrect` (`RecvIntact`,
`SendIntact`, `ShortMeansEnd`, `AtMostOneLate`). The properties look at bytes; the
proof is about who may touch a connection. `OwnInv`: a coroutine that is in a call,
or looks at its result, has a connection that nobody deletes and that `accept`
cannot hand out again under the same number. `AcceptInv`: nothing runs between
`accept` and the coroutine created for its descriptor. `WireInv`: what is on a
wire was sent by calls that were made, so that a new call starts with no byte of
its own there. `GoingOn`: a parked call has something left to do, so that
a call that is complete never waits. `SendIntact` speaks of the positions of a
call's bytes instead of a filtered sequence, because `SelectSeq` is opaque to
the prover.

**HttpProofs**: `HttpTypeCorrect`, `NothingAfterFinalReply` and `RoutedCorrectly`
(`HttpTypeOK`, `NothingAfterFinal`, `RepliesExplained`). For the second,
`Closing` ties the reply in the write buffer to what the coroutine does when it is
sent. For the third, `Serves` says that what is left in the stream is the
sequence of requests after the last one taken (`Pipeline`, by a labelling of its
parts), that the method of the Ctx is the last known one up to it (`InForce`:
`on_message_begin` and `clear` leave the method in place), and that whoever waits
for a request has a Ctx without headers and a parser at the beginning of a message;
then `Ctx::clear` has done its work. `StatusInv` says the same of the status,
however requests are read: between replies the Ctx has the status of the last one.
No assumption on methods or routes is needed. `parse` folds `Feed` over the parts of a read; facts about the fold
are proved from the least number at which they fail (`LeastNat`, an instance of
`WFMin`), since induction with an operator parameter is out of reach.

The attempt to prove that requests are answered by their own routes showed that the history `whole` (are
requests read one by one?) was not cleared where a websocket handler's `recv`
takes bytes that are not frames. With three pipelined requests the property would
have been false; the run has two. `whole` is now cleared there.

**Http2Proofs**: `Http2Correct` (the invariant of sending), `StreamsCorrect`,
`TablesCorrect`, `ReceiveCorrect` (the invariant of receiving) and
`ResponsesCorrect` (`StreamsWellFormed`, `AckedTableUsed`, `ReceivedExactly`), for
any number of coroutines, requests, writes, server frames and table sizes. The
first is about the wire; why it holds is a matter of who is inside the client, and
is true only until two sends overlap (`overlap`) or a read comes back short (`exact`;
the history of the wire ends there). `Http2Inv` therefore has a part for the wire,
`WireInv`, which outlives `exact`, and a part for the coroutines, `FlowInv`:

* `OneSender`: one coroutine is in `send_all`, the frame it built is still in the
  global buffer, and nobody runs between the HEADERS and the DATA of a request;
* `HalfSent`: the wire ends in half a frame exactly if its sender is parked;
* `Preface`: how far `connect` has come, and that nothing else was sent before;
* `Flight`: what a coroutine may be sending. DATA go to a stream that is open on
  the wire and not ended, or are those of a request without a body, whose HEADERS
  were the frame before (`BodyNext`); HEADERS carry the next id;
* `Numbers`: no frame has an id beyond `stream_id`, and one with that id is there
  only while its request is not finished, so that `stream_id += 2` is fresh.

`TablesCorrect` holds also when sends overlap, and has an invariant of its own,
`TableInv`. A coroutine that has built a frame keeps the processor until the kernel
takes the first piece (`Undisturbed`), so that this piece is the frame as built,
with the deflater as it is (`FreshTables`); and the deflater has the size
acknowledged last, or a newer one whose acknowledgement is about to go out
(`LastAck`). For the proofs both properties speak of positions on the wire instead
of filtered sequences.

`ReceivedExactly` compares three places a payload can be in: the server's counters,
the frames in flight and the streams of the client. `ReceiveInv` says how they fit:
`Named` and `Offered` (frames and data belong to streams that the client opened and
the server has begun), and, while reads are whole, `EndsLast` (END_STREAM is on the
last frame of its stream in flight), `Answered` (a response has all of its stream,
is the only one, and nothing of that stream is in flight any more) and `Counted`
(buffer and windows are the server's counters less what is unread). `EndsLast` is
what makes it inductive: without it a response could be returned before its last
DATA. What is unread is the number of positions of `rx` with a DATA frame, so that
sending and reading a frame change a cardinality by one. It needs no assumption on
the requests and none on overlapping sends.

**WebSocketProofs**: `AcceptKeyCorrect`, `FramesDecoded` and `RepliesCorrect`
(`AcceptKeyFaithful`, `FrameAsSent`, `RepliesIntact`), for every digest, message,
key, reply, size of the buffers and cut of the stream. The modules have no
recursion, so that no induction over data is needed:

* Base64. A byte is the sum of its eight bits (`ByteBits`), the shifts of
  `base64_encode` take six of them (`SixBitsSextet`), those of `base64_decode` put
  them back (`OctetBack`), and the places of a group are positions modulo 3 and 4
  (`Groups`, `Encoded`, `PrefixOfCode`). `Base64Correct` puts these together;
  `KeyInv`, that the accept key is made of the digest, is all the session adds.
* Frames. `Framed` says where in the bytes of the protocol the header, the length,
  the key and the payload are; `LengthBack` that each form of the length is read
  back; `KeyByteIs` that the eight-byte and the bytewise unmasking use the same byte
  of the key; `XorBack` that it undoes itself. `DecodeWire` follows for every memory
  that starts with the frame, `EncodeWire` for what the server writes. The form of
  the length for 65536 bytes and more, which the run does not reach, is included.
* Buffers and streams. `Filled`: after `clear` and `append` the contents are what
  was appended, whatever was there. `InFlightInv`: every frame not begun sits in
  `rx` where `starts` has it, which sending and reading preserve. `RepliesInv`: the
  write buffer keeps its size, `tx` is `taken`, and `said` while no send was short.

It is for these proofs that `WebSocketFrame` computes `^` itself and not with
Bitwise, that the alphabet of Base64 is a tuple of characters, and that the history
of the stream is kept as `starts` and `said`.

Only model-checked:

* liveness (`SleepersWake`, `WaitersWake`, `ConnsReleased`, `ReceiverReturns`, and
  the violation of `SendersProgress`): out of the prover's reach;
* the parser and HPACK (`Resumable`, `ParsesWhatWasSent`, `HeadersIntact`,
  `TablesInSync`, `BlockResumable`, `StringsFit`): they fold a step over input of
  any length, their modules use RECURSIVE operators, and what such a definition
  computes for every input needs induction with an operator as its parameter.

## Not modelled

* Process and UnixSocket: fork, wait and a socket pair with a branch around each;
  a model would show the kernel's behaviour, not the library's.
* `Socket::connect`, `shutdown`, options and names: single system calls. The
  HTTP/2 client's connect has connect's outcome as a choice.
* The bytes of HTTP replies and of files (short writes of `sendfile`), the text
  of messages, digests (SHA-1 is OpenSSL's).
* Of http_parser: `http_parser_pause` and callbacks that return an error, which
  the callbacks of `http.cc` never do. Of nghttp2: memory pools, reference
  counts, allocation failure, chained buffers.
* Steps of the wall clock (`get_current_ms` is monotone here), failure of
  `epoll_create` and of memory allocation, stack overflow of a coroutine.
* Log, error texts, the context switch assembly, examples and tests.

## Plan

Done: the core (Help, Coroutine, Event, EventLoop, BoundedQueue and Channel,
Socket and Server), Http, the HTTP/2 client, the parser, HPACK, websocket
sessions, Base64 and Buffer; the proofs of every safety property of Coroutine,
EventLoop, Channel, Server, Http, Http2 and WebSocket, and of the channel's
refinement.

Left: the safety properties of the parser and of HPACK, which would need their
RECURSIVE operators written as recursive functions and an induction the provers
can do, and the liveness properties, which need a prover for ENABLED.
