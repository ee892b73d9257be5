------------------------------- MODULE Http2 -------------------------------
(***************************************************************************)
(* coroutine::http2::Client (src/coroutine/http2/client.cc): coroutines    *)
(* that share one client connect, send requests, write to their streams    *)
(* and receive responses.                                                  *)
(*                                                                         *)
(* A coroutine keeps the processor until a socket call parks it: running   *)
(* names the one that has it.  Every frame but the SETTINGS of connect and *)
(* the acknowledgement is built in the global FswG.buffer_stack, and       *)
(* send_all reads the bytes from there when the kernel takes them, which   *)
(* may be after a park.  The kernel takes a frame whole or in two pieces,  *)
(* so that another coroutine can come in between.  One coroutine at a time *)
(* can wait for the descriptor: wait_event fails for any other.  The       *)
(* server and TCP are external.                                            *)
(***************************************************************************)
EXTENDS Integers, Sequences, FiniteSets

CONSTANTS Co,          \* coroutines
          NoCo,        \* none of them
          Receiver,    \* the one that connects and receives
          Requests,    \* the requests they make, see Request
          MaxRequests, \* bound: requests sent
          MaxWrites,   \* bound: write_data calls
          MaxData,     \* bound: DATA frames of the server
          Tables,      \* header table sizes the server may ask for
          Control,     \* the other frames it may send, of those in Skipped
          MaxControl,  \* bound: SETTINGS and other frames of the server
          MaxUnread,   \* bound: frames of the server on their way
          Default,     \* FSW_HTTP2_DEFAULT_HEADER_TABLE_SIZE
          Window,      \* FSW_HTTP2_DEFAULT_WINDOW_SIZE, in DATA frames
          Room,        \* READ_BUF_MAX_SIZE, in DATA frames
          Unreliable,  \* may the server go away or a read be short?
          GoesOn       \* bound: are calls made once frames have overlapped?

\* Request::body and Request::pipeline: a body, a body to which write_data
\* adds, no body.
Request == {"plain", "pipelined", "bare"}

\* FSW_HTTP2_TYPE_* that parse_frame skips.
Skipped == {"WINDOW_UPDATE", "PING", "GOAWAY", "RST_STREAM", "PUSH_PROMISE"}

ASSUME Http2Constants ==
    /\ IsFiniteSet(Co) /\ NoCo \notin Co /\ Receiver \in Co
    /\ Requests \subseteq Request /\ Requests # {}
    /\ {MaxRequests, MaxWrites, MaxData, MaxControl, MaxUnread, Default, Window, Room} \subseteq Nat
    /\ Tables \subseteq Nat \ {0} /\ Control \subseteq Skipped /\ {Unreliable, GoesOn} \subseteq BOOLEAN

VARIABLES
    running,      \* the coroutine that has the processor, or NoCo
    job,          \* what a coroutine is in the middle of
    waiter,       \* the coroutine whose wait_event has the descriptor, or NoCo
    sock,         \* Client::sock: null, open, or new'd but never connected
    stream_id,    \* Client::stream_id
    last_stream_id,
    streams,      \* Client::streams, from stream ids to Stream
    settings,     \* the parts of local_settings and remote_settings that change
    deflater,     \* the table size in the deflater
    stack,        \* the frame in FswG.buffer_stack
    inbuf,        \* the frame in the read buffer of the socket
    fault,        \* why the process died, or "none"
    wire,         \* history: the pieces the kernel took, in order
    overlap,      \* history: a frame was built while another was half sent,
                  \* or cut short because another coroutine was waiting
    exact,        \* history: every recv returned what it was asked for
    answers,      \* history: the responses recv_reponse returned
    rx,           \* frames of the server that the client has not read
    peer          \* the server: see PeerInit

clientVars == <<sock, stream_id, last_stream_id, streams, settings, deflater>>
histVars == <<wire, overlap, exact, answers>>
vars == <<running, waiter, job, clientVars, stack, inbuf, fault, histVars, rx, peer>>

Ids == {2 * k - 1 : k \in 1 .. MaxRequests + 1}

\* es is END_STREAM; table, for HEADERS and SETTINGS, the header table size
\* it was made with or asks for; len, for DATA, whether it has a payload.
Frame(type, id, es, table, len) ==
    [type |-> type, id |-> id, es |-> es, table |-> table, len |-> len]
NoFrame == Frame("DATA", 0, FALSE, 0, 0)     \* a buffer of zeros
Pri == Frame("PRI", 0, FALSE, 0, 1)
Settings(n) == Frame("SETTINGS", 0, FALSE, n, 1)
Ack(f) == Frame("SETTINGS_ACK", f.id, TRUE, f.table, 0)

\* Stream::Stream and its Response, whose status and headers are never
\* written: parse_frame_header writes to a copy.
NewStream(r) == [pipeline |-> r = "pipelined", buffer |-> 0, window |-> Window, body |-> 0]

Idle == [pc |-> "idle"]

Http2TypeOK ==
    /\ {running, waiter} \subseteq Co \cup {NoCo}
    /\ \A c \in Co : job[c].pc \in {"idle", "connect", "body", "send", "recv", "payload"}
    /\ sock \in {"null", "open", "failed"}
    /\ stream_id \in Ids /\ last_stream_id \in Ids \cup {0}
    /\ DOMAIN streams \subseteq Ids
    /\ fault \in {"none", "null stream", "buffer", "null body", "out of step"}

-----------------------------------------------------------------------------
(* Sending *)

Up == fault = "none"

\* Two frames are a header and nothing else.
HasPayload(f) == ~ (f.type = "SETTINGS_ACK" \/ (f.type = "DATA" /\ f.len = 0))

\* The kernel has nothing for the client: all frames were read, but for the
\* payload, if it has none, of the one whose header was read last.
HeaderRead == \E c \in Co : job[c].pc = "payload"
Drained == \/ rx = << >>
           \/ HeaderRead /\ Len(rx) = 1 /\ ~ HasPayload(Head(rx))
Readable == ~ Drained \/ ~ peer.open

\* The coroutine runs on, or the event loop resumes it: send_all and recv
\* both wait until there is something to read.
HasProcessor(c) ==
    Up /\ running \in {NoCo, c} /\ (waiter = c => Readable)

\* wait_event(FSW_EVENT_READ) parks the coroutine, or fails.
CanWait(c) == waiter \in {NoCo, c}
Awake(c) == IF waiter = c THEN NoCo ELSE waiter

Sending(c) == job[c].pc = "send"

\* send_all(frame): the bytes are in stack, or in memory of the caller (own).
Send(c, f, own, then, r) ==
    /\ job' = [job EXCEPT ![c] = [pc |-> "send", frame |-> f, own |-> own,
                                  done |-> 0, then |-> then,
                                  id |-> f.id, req |-> r]]
    /\ overlap' = (overlap \/ \E d \in Co \ {c} : Sending(d))
    /\ running' = c

NoReq == "none"

\* What a coroutine does when its send_all has returned.  Nobody looks at
\* the result, but connect, where it is the result of the call.
After(c) ==
    LET j == job[c] IN
    CASE j.then = "settings" -> [pc |-> "connect"]
      [] j.then = "body" -> [pc |-> "body", id |-> j.id, req |-> j.req]
      [] j.then = "recv" -> [pc |-> "recv"]
      [] OTHER -> Idle

\* send_request ends: stream_id += 2.
Advance(c) == IF job[c].then = "end" THEN stream_id + 2 ELSE stream_id

\* The pieces of the frame from which the kernel takes them now.
Pieces(c, from, to) ==
    LET f == IF job[c].own THEN job[c].frame ELSE stack
    IN  [i \in 1 .. to - from |-> [frame |-> f, part |-> from + i]]

\* Mutant: the bytes that were sent before the wait are sent again.
Left_all(c) == 0

Left(c) == job[c].done

\* send_all: everything that is left goes out and the call returns; or the
\* kernel takes less and the coroutine waits, or cannot wait and the call
\* returns with the frame cut short.  (The history ends when the client is
\* out of step: it may then acknowledge for ever.)
send_all(c) ==
    /\ HasProcessor(c) /\ Sending(c)
    /\ \E n \in job[c].done + 1 .. 2 :
          /\ wire' = IF exact THEN wire \o Pieces(c, Left(c), n) ELSE wire
          /\ IF n < 2 /\ CanWait(c)
             THEN /\ job' = [job EXCEPT ![c].done = n]
                  /\ running' = NoCo /\ waiter' = c
                  /\ UNCHANGED <<stream_id, overlap>>
             ELSE /\ job' = [job EXCEPT ![c] = After(c)]
                  /\ stream_id' = Advance(c)
                  /\ running' = IF After(c).pc = "idle" THEN NoCo ELSE c
                  /\ waiter' = Awake(c)
                  /\ overlap' = (overlap \/ n < 2)
    /\ UNCHANGED <<sock, last_stream_id, streams, settings, deflater, stack,
                   inbuf, fault, exact, answers, rx, peer>>

-----------------------------------------------------------------------------
(* connect, send_request, write_data *)

\* A coroutine makes its next call.
Calls(c) == HasProcessor(c) /\ job[c].pc = "idle" /\ (overlap => GoesOn)

\* connect: a client that has a socket is connected, whatever became of it;
\* else connect the new one and send the preface.
connect(c) ==
    /\ Calls(c) /\ c = Receiver /\ sock = "null"
    /\ \/ /\ sock' = "open"
          /\ Send(c, Pri, TRUE, "settings", NoReq)
       \/ /\ Unreliable /\ sock' = "failed" /\ UNCHANGED <<job, overlap, running>>
    /\ UNCHANGED <<waiter, stream_id, last_stream_id, streams, settings, deflater,
                   stack, inbuf, fault, wire, exact, answers, rx, peer>>

\* build_setting_frame, in the write buffer of the socket.
connect_settings(c) ==
    /\ HasProcessor(c) /\ job[c].pc = "connect"
    /\ Send(c, Settings(Default), TRUE, "return", NoReq)
    /\ UNCHANGED <<waiter, clientVars, stack, inbuf, fault, wire, exact, answers,
                   rx, peer>>

\* build_http_header and the flags of send_http_header_frame.
header_frame(r) ==
    Frame("HEADERS", stream_id, r = "bare", deflater, 0)

InFlight == Cardinality({c \in Co : job[c].pc \in {"send", "body"} /\ job[c].req # NoReq})

\* send_http_header_frame; as long as requests do not overlap, stream_id
\* counts them.
send_http_header_frame(c, r) ==
    /\ Calls(c) /\ sock = "open"
    /\ stream_id \div 2 + InFlight < MaxRequests
    /\ streams' = [id \in DOMAIN streams \cup {stream_id} |->       \* emplace
                      IF id \in DOMAIN streams THEN streams[id] ELSE NewStream(r)]
    /\ stack' = header_frame(r)
    /\ Send(c, header_frame(r), FALSE, "body", r)
    /\ UNCHANGED <<waiter, sock, stream_id, last_stream_id, settings, deflater,
                   inbuf, fault, wire, exact, answers, rx, peer>>

body_frame(c) == Frame("DATA", job[c].id, job[c].req # "pipelined", 0, 1)

\* send_http_body_frame, also without a body: body_length is then whatever
\* the memory held, and a copy of more than nothing from nullptr faults.
send_http_body_frame(c) ==
    /\ HasProcessor(c) /\ job[c].pc = "body"
    /\ \/ /\ stack' = body_frame(c)
          /\ Send(c, body_frame(c), FALSE, "end", job[c].req)
          /\ UNCHANGED fault
       \/ /\ job[c].req = "bare"
          /\ fault' = "null body"
          /\ UNCHANGED <<stack, job, overlap, running>>
    /\ UNCHANGED <<waiter, clientVars, inbuf, wire, exact, answers, rx, peer>>

\* The streams of pipelined requests whose last DATA is not written yet.
WholeFrames == {i \in 1 .. Len(wire) : wire[i].part = 2}     \* where they end
FramesOf(id) == {i \in WholeFrames : wire[i].frame.id = id}
Writable == {id \in DOMAIN streams :
                /\ streams[id].pipeline /\ id < stream_id
                /\ \A i \in FramesOf(id) : ~ wire[i].frame.es
                /\ \A c \in Co : Sending(c) => job[c].id # id}

write_data(c, id, es) ==
    /\ Calls(c) /\ sock = "open" /\ id \in Writable
    /\ Cardinality(FramesOf(id)) < 2 + MaxWrites
    /\ stack' = Frame("DATA", id, es, 0, 1)
    /\ Send(c, Frame("DATA", id, es, 0, 1), FALSE, "return", NoReq)
    /\ UNCHANGED <<waiter, clientVars, inbuf, fault, wire, exact, answers, rx, peer>>

-----------------------------------------------------------------------------
(* recv_reponse *)

\* Two coroutines that wait for one descriptor are the subject of module
\* Event; here one receives.
recv_reponse(c) ==
    /\ Calls(c) /\ c = Receiver /\ sock = "open" /\ Len(answers) <= MaxRequests
    /\ job' = [job EXCEPT ![c] = [pc |-> "recv"]]
    /\ running' = c
    /\ UNCHANGED <<waiter, clientVars, stack, inbuf, fault, histVars, rx, peer>>

\* nghttp2_hd_deflate_change_table_size: never more than the size the deflater
\* was made with.
Clamped(n) == IF n < Default THEN n ELSE Default

\* Mutant: the acknowledgement goes out and a smaller table is not taken over.
parse_setting_frame_grows(c, f) ==
    /\ deflater' = IF f.table > deflater THEN Clamped(f.table) ELSE deflater
    /\ settings' = [settings EXCEPT !.remote_table = f.table]
    /\ Send(c, Ack(f), TRUE, "recv", NoReq)
    /\ UNCHANGED <<streams, fault, answers>>

\* parse_setting_frame: apply, then acknowledge, also what is itself an
\* acknowledgement and asks for nothing.
parse_setting_frame(c, f) ==
    /\ IF f.type = "SETTINGS" /\ f.table # settings.remote_table
       THEN /\ deflater' = Clamped(f.table)
            /\ settings' = [settings EXCEPT !.remote_table = f.table]
       ELSE UNCHANGED <<deflater, settings>>
    /\ Send(c, Ack(f), TRUE, "recv", NoReq)
    /\ UNCHANGED <<streams, fault, answers>>

Kill(why) == fault' = why /\ UNCHANGED <<job, overlap, running, settings, deflater,
                                         streams, answers>>

\* END_STREAM: the response gets its body.
Ended(s) == IF s.buffer > 0 THEN [s EXCEPT !.body = s.buffer, !.buffer = 0] ELSE s

\* Mutant: an empty last frame ends nothing.
Returns_unless_empty(f) == f.es /\ f.len > 0

Returns(f) == f.es

\* Mutant: the buffer holds the last payload only.
parse_payload_overwrites(s, n) == [s EXCEPT !.buffer = n, !.window = @ - n]

\* parse_payload: the payload goes to the buffer of the stream.
parse_payload(s, n) == [s EXCEPT !.buffer = @ + n, !.window = @ - n]

\* The loop of recv_reponse goes round.
NextFrame(c) == job' = [job EXCEPT ![c] = [pc |-> "recv"]] /\ running' = c

\* parse_frame of HEADERS or DATA, and the end of recv_reponse.  DATA with a
\* payload counts for 1.
parse_stream_frame(c, f) ==
    IF f.id \notin DOMAIN streams THEN Kill("null stream")
    ELSE IF streams[f.id].buffer + f.len > Room THEN Kill("buffer")
    ELSE LET s == parse_payload(streams[f.id], f.len)
             t == IF Returns(f) THEN Ended(s) ELSE s
         IN  /\ streams' = [streams EXCEPT ![f.id] = t]
             /\ settings' = [settings EXCEPT !.local_window = @ - f.len]
             /\ IF Returns(f)
                THEN /\ job' = [job EXCEPT ![c] = Idle] /\ running' = NoCo
                     /\ answers' = Append(answers, [id |-> f.id, body |-> t.body])
                ELSE NextFrame(c) /\ UNCHANGED answers
             /\ UNCHANGED <<deflater, overlap, fault>>

parse_frame(c, f) ==
    /\ last_stream_id' = IF stream_id > last_stream_id THEN stream_id ELSE last_stream_id
    /\ CASE f.type \in {"SETTINGS", "SETTINGS_ACK"} -> parse_setting_frame(c, f)
         [] f.type \in Skipped ->
              NextFrame(c) /\ UNCHANGED <<overlap, settings, deflater, streams, fault, answers>>
         [] OTHER -> parse_stream_frame(c, f)

\* recv_frame, the first recv: the header is read; the frame stays at the
\* head of rx until its payload is.
recv_frame(c) ==
    /\ HasProcessor(c) /\ job[c].pc = "recv" /\ rx # << >>
    /\ job' = [job EXCEPT ![c] = [pc |-> "payload"]]
    /\ running' = c /\ waiter' = Awake(c)
    /\ UNCHANGED <<clientVars, stack, inbuf, fault, histVars, rx, peer>>

\* The second recv, and parse_frame.  Of a frame without payload it asks for
\* 0 bytes, and finds them only when the kernel has something else or the
\* server has gone; or it cannot wait and fails, which does no harm.
recv_payload(c) ==
    /\ HasProcessor(c) /\ job[c].pc = "payload" /\ rx # << >>
    /\ ~ (Drained /\ peer.open /\ CanWait(c))
    /\ rx' = Tail(rx) /\ inbuf' = Head(rx) /\ parse_frame(c, Head(rx))
    /\ waiter' = Awake(c)
    /\ UNCHANGED <<sock, stream_id, stack, wire, exact, peer>>

\* Nobody looks at what recv returns: after the end of the stream, or when it
\* cannot wait, the buffer still holds the last frame; a header or payload read
\* short leaves the client out of step, and anything may follow.
recv_fails(c) ==
    /\ HasProcessor(c) /\ exact' = FALSE
    /\ \/ /\ job[c].pc = "recv" /\ rx = << >> /\ ~ (peer.open /\ CanWait(c))
          /\ parse_frame(c, inbuf)
       \/ /\ Unreliable /\ job[c].pc = "payload"
          /\ Kill("out of step") /\ UNCHANGED last_stream_id
    /\ waiter' = Awake(c)
    /\ UNCHANGED <<sock, stream_id, stack, inbuf, wire, rx, peer>>

\* Either recv finds nothing and the coroutine waits; a payload may be on its
\* way as long as no other frame has come.
recv_waits(c) ==
    /\ HasProcessor(c) /\ peer.open /\ waiter = NoCo
    /\ \/ job[c].pc = "recv" /\ rx = << >>
       \/ job[c].pc = "payload" /\ Len(rx) = 1
    /\ running' = NoCo /\ waiter' = c
    /\ UNCHANGED <<job, clientVars, stack, inbuf, fault, histVars, rx, peer>>

-----------------------------------------------------------------------------
(* The server: it understands whole frames only. *)

\* data is the payload it has sent for each stream, sent that of all.
PeerInit == [open |-> TRUE, data |-> [id \in Ids |-> 0], sent |-> 0, ended |-> {},
             headers |-> {}, control |-> 0]

Whole(f) == \E i \in 1 .. Len(wire) - 1 :
               wire[i] = [frame |-> f, part |-> 1] /\ wire[i + 1] = [frame |-> f, part |-> 2]

\* Streams the client has ended.
Asked == {id \in Ids : \E i \in DOMAIN wire :
             LET f == wire[i].frame IN f.id = id /\ f.es /\ Whole(f)}

Reply(f) == ~ overlap /\ Len(rx) < MaxUnread /\ rx' = Append(rx, f)
ServerOnly == UNCHANGED <<running, waiter, job, clientVars, stack, inbuf, fault, histVars>>

server_headers(id) ==
    /\ Up /\ peer.open /\ id \in Asked \ peer.headers
    /\ \E es \in BOOLEAN :
          /\ Reply(Frame("HEADERS", id, es, 0, 0))
          /\ peer' = [peer EXCEPT !.headers = @ \cup {id},
                                  !.ended = IF es THEN @ \cup {id} ELSE @]
    /\ ServerOnly

\* DATA, as far as the window of the connection goes: the client never gives
\* any of it back.
server_data(id) ==
    /\ Up /\ peer.open /\ id \in peer.headers \ peer.ended
    /\ \E es \in BOOLEAN, n \in {0, 1} :
          /\ peer.sent + n <= Window /\ peer.sent + n <= MaxData
          /\ n = 1 \/ es
          /\ Reply(Frame("DATA", id, es, 0, n))
          /\ peer' = [peer EXCEPT !.data[id] = @ + n, !.sent = @ + n,
                                  !.ended = IF es THEN @ \cup {id} ELSE @]
    /\ ServerOnly

\* SETTINGS of its own, the acknowledgement of the client's, and the frames
\* that the client skips.
server_settings ==
    /\ Up /\ peer.open /\ peer.control < MaxControl
    /\ \/ \E n \in Tables : Reply(Settings(n))
       \/ /\ Whole(Settings(Default))
          /\ Reply(Ack(NoFrame))
       \/ \E t \in Control : Reply(Frame(t, 0, FALSE, 0, 0))
    /\ peer' = [peer EXCEPT !.control = @ + 1]
    /\ ServerOnly

\* The client notices the end only when it has read all there is.
server_closes ==
    /\ Up /\ Unreliable /\ peer.open /\ Drained /\ peer.control < MaxControl
    /\ peer' = [peer EXCEPT !.open = FALSE, !.control = @ + 1]
    /\ UNCHANGED rx /\ ServerOnly

-----------------------------------------------------------------------------

Http2Init ==
    /\ running = NoCo /\ waiter = NoCo /\ job = [c \in Co |-> Idle]
    /\ sock = "null" /\ stream_id = 1 /\ last_stream_id = 0
    /\ streams = [id \in {} |-> 0]
    /\ settings = [local_window |-> Window, remote_table |-> Default]
    /\ deflater = Default
    /\ stack = NoFrame /\ inbuf = NoFrame
    /\ fault = "none"
    /\ wire = << >> /\ overlap = FALSE /\ exact = TRUE /\ answers = << >>
    /\ rx = << >> /\ peer = PeerInit

\* The steps of the library once a call has begun.
CoStep(c) ==
    \/ send_all(c) \/ connect_settings(c) \/ send_http_body_frame(c)
    \/ recv_frame(c) \/ recv_payload(c) \/ recv_fails(c) \/ recv_waits(c)

Http2Next ==
    \/ \E c \in Co :
          \/ connect(c) \/ recv_reponse(c) \/ CoStep(c)
          \/ \E r \in Requests : send_http_header_frame(c, r)
          \/ \E id \in Ids, es \in BOOLEAN : write_data(c, id, es)
    \/ \E id \in Ids : server_headers(id) \/ server_data(id)
    \/ server_settings \/ server_closes

\* The thread goes on: a coroutine that has the processor runs, the event loop
\* resumes the one that waits once its socket is ready, and the kernel takes
\* what is sent.  Calls and server owe nothing.
Http2Spec == Http2Init /\ [][Http2Next]_vars /\ WF_vars(\E c \in Co : CoStep(c))

-----------------------------------------------------------------------------
(* Properties *)

\* As long as no coroutine builds a frame while another one is parked in
\* send_all, what the server gets is HTTP/2: the preface, SETTINGS, then
\* whole frames; the ids of new streams grow; on each stream HEADERS come
\* first and once.  Nothing follows END_STREAM, with one exception, which is
\* what send_request does and HTTP/2 forbids: the HEADERS of a request without
\* a body end the stream and the DATA frame of the body comes next all the
\* same, but that one only.
StreamsWellFormed ==
    ~ overlap =>
       /\ \A i \in 1 .. Len(wire) :
             \/ wire[i].part = 1 /\ i % 2 = 1
             \/ wire[i].part = 2 /\ i > 1 /\ wire[i - 1] = [frame |-> wire[i].frame, part |-> 1]
       /\ \A i \in WholeFrames : i <= 4 =>
             wire[i].frame = IF i <= 2 THEN Pri ELSE Settings(Default)
       /\ \A i, j \in WholeFrames :
             LET f == wire[i].frame g == wire[j].frame IN
             i < j =>
                /\ f.type = "HEADERS" /\ g.type = "HEADERS" => f.id < g.id
                /\ f.id = g.id /\ f.id # 0 /\ f.es =>
                      f.type = "HEADERS" /\ g.type = "DATA" /\ j = i + 2
       /\ \A j \in WholeFrames : wire[j].frame.type = "DATA" =>
             \E i \in WholeFrames : /\ i < j /\ wire[i].frame.type = "HEADERS"
                                    /\ wire[i].frame.id = wire[j].frame.id

\* The payloads that have not been read, of one stream and of all.
Unread(id) == {i \in 1 .. Len(rx) : rx[i].type = "DATA" /\ rx[i].len = 1 /\ rx[i].id = id}
AllUnread == {i \in 1 .. Len(rx) : rx[i].type = "DATA" /\ rx[i].len = 1}
AnswersTo(id) == {i \in 1 .. Len(answers) : answers[i].id = id}

\* While the client is in step with the server, no payload is lost, doubled
\* or given to another stream: a response has all the DATA of its stream,
\* every stream is answered at most once and only when the server has ended
\* it, and both windows count exactly what has been read.
ReceivedExactly ==
    exact /\ fault = "none" =>
       /\ \A id \in DOMAIN streams :
             LET s == streams[id] got == peer.data[id] - Cardinality(Unread(id)) IN
             /\ \A i \in AnswersTo(id) :
                   /\ id \in peer.ended /\ answers[i].body = peer.data[id]
                   /\ \A j \in AnswersTo(id) : i = j
             /\ AnswersTo(id) = {} => s.buffer = got
             /\ s.window = Window - got
       /\ settings.local_window = Window - peer.sent + Cardinality(AllUnread)

\* Where frames, and the acknowledgements of header table sizes, begin on the
\* wire.
Starts == {i \in 1 .. Len(wire) : wire[i].part = 1}
SizeAcks == {i \in Starts : /\ wire[i].frame.type = "SETTINGS_ACK"
                            /\ wire[i].frame.table # 0}

\* From the moment the acknowledgement of a header table size begins to go
\* out, up to the next one, all HEADERS that go out were compressed with that
\* size, or with the deflater's own if that is smaller: also those that
\* another coroutine sends while the acknowledgement is half sent.
AckedTableUsed ==
    \A i \in SizeAcks, j \in Starts :
       i < j /\ wire[j].frame.type = "HEADERS" /\ (\A k \in SizeAcks : k <= i \/ j < k)
          => wire[j].frame.table = Clamped(wire[i].frame.table)

Receiving(c) == job[c].pc \in {"recv", "payload"} \/ (Sending(c) /\ job[c].then = "recv")
EndUnread == \E i \in DOMAIN rx :
                /\ rx[i].es /\ rx[i].type \in {"HEADERS", "DATA"}
                /\ HasPayload(rx[i]) \/ i < Len(rx) \/ ~ peer.open

\* recv_reponse returns once the end of a response is there, whatever other
\* frames come before it.  An end without payload is there only when more has
\* come after it or the server has gone: until then the second recv of
\* recv_frame waits for it.
ReceiverReturns ==
    (Receiving(Receiver) /\ EndUnread) ~> (~ Receiving(Receiver) \/ fault # "none")
=============================================================================
