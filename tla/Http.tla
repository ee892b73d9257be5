-------------------------------- MODULE Http --------------------------------
(***************************************************************************)
(* coroutine::http::Server (src/coroutine/http/server.cc) and the Request, *)
(* Response and Ctx of a connection (src/coroutine/http/http.cc).  One     *)
(* coroutine accepts; one coroutine per connection runs on_accept: read,   *)
(* feed the parser, route, answer, again.                                  *)
(*                                                                         *)
(* A coroutine runs undisturbed until a socket call parks it, so one       *)
(* action is the code between two socket calls.  How these calls park and  *)
(* come back is the subject of modules Event and Socket; here they wait    *)
(* for the condition they wait for there.  The client, TCP and the vendored*)
(* http_parser are external, modelled from how the code uses them.         *)
(***************************************************************************)
EXTENDS Naturals, SequencesExt

CONSTANTS Conn,          \* connections clients may open
          Paths,         \* URLs clients ask for
          Files,         \* those that exist under document_root
          HttpPaths,     \* those with a handler in http_handlers
          WsPaths,       \* those with a handler in websocket_handlers
          Methods,       \* methods clients use
          HeaderSets,    \* sets of headers clients send, see Header
          UserStatus,    \* arguments handlers give to set_status
          Split,         \* may TCP hand over a message in several reads?
          Resets,        \* may a client reset its connection?
          MaxRequests,   \* bound: requests, over all connections
          MaxFrames      \* bound: websocket frames, per connection

\* "key" is Sec-WebSocket-Key; "upgrade" stands for the Connection, Upgrade
\* and Sec-WebSocket-Version headers of a handshake.
Header == {"key", "upgrade"}

ASSUME HttpConstants ==
    /\ Files \cup HttpPaths \cup WsPaths \subseteq Paths
    /\ Methods \subseteq {"GET", "POST", "PUT"}
    /\ HeaderSets \subseteq SUBSET Header
    /\ UserStatus \subseteq Nat
    /\ {Split, Resets} \subseteq BOOLEAN
    /\ {MaxRequests, MaxFrames} \subseteq Nat

VARIABLES
    serving,    \* Server::running
    accepting,  \* start is in accept
    at,         \* where the coroutine of a connection is
    ctx,        \* the Ctx of a connection
    out,        \* the write buffer: the reply being sent, and what follows
    frame,      \* the frame the websocket handler decoded last
    fault,      \* why the process died, or "none"
    client,     \* the client's end: none, open, closed, reset
    rx,         \* what the client sent and the server has not read
    sent,       \* history: the requests of a connection
    frames,     \* how many frames the client sent
    replies,    \* history: the replies to requests, in order
    whole       \* history: every read so far was exactly one request, or frames

clientVars == <<client, sent, frames>>
serverVars == <<serving, accepting>>
vars == <<serverVars, at, ctx, out, frame, fault, clientVars, rx, replies, whole>>

Null == "null"
Request == [path : Paths, method : Methods, headers : HeaderSets, keep : BOOLEAN]

\* What the parser tells apart in the stream; a POST has a body.
Parts(r) == LET part(k) == [k |-> k, r |-> r] IN
            <<part("line"), part("headers")>> \o
            (IF r.method = "POST" THEN <<part("body")>> ELSE << >>)
Frame == [k |-> "frame"]

\* The statuses get_status_message knows; it answers 200 for the others.
KnownStatus ==
    ((100 .. 101) \cup (200 .. 208) \cup {226} \cup (300 .. 305) \cup {307}
      \cup (400 .. 418) \cup (421 .. 424) \cup {426, 428, 429, 431}
      \cup (500 .. 508) \cup {510, 511})
get_status_message(s) == IF s \in KnownStatus THEN s ELSE 200

Reply == [kind : {"file", "page", "404", "400", "101", "frame"},
          status : KnownStatus, keep : BOOLEAN, path : Paths]

Ctx == [path : Paths \cup {Null}, method : {Null, "GET", "POST"},
        headers : SUBSET Header, keep : BOOLEAN,
        status : KnownStatus \cup UserStatus,
        expect : {"line", "headers", "body", "dead", "error"}, stop : BOOLEAN]

HttpTypeOK ==
    /\ serving \in BOOLEAN /\ accepting \in BOOLEAN
    /\ at \in [Conn -> {"none", "backlog", "recv", "handler", "websocket",
                        "send", "close", "freed"}]
    /\ ctx \in [Conn -> Ctx]
    /\ \A c \in Conn : at[c] = "send" /\ fault = "none" =>
          out[c].reply \in Reply /\ out[c].then \in {"loop", "break", "websocket"}
    /\ frame \in [Conn -> {"none", "sent", "other", "phantom"}]
    /\ fault \in {"none", "null path", "negative length", "buffer", "SIGPIPE"}
    /\ client \in [Conn -> {"none", "open", "closed", "reset"}]
    /\ \A c \in Conn : \A i \in 1 .. Len(sent[c]) : sent[c][i] \in Request
    /\ \A c \in Conn : \A i \in 1 .. Len(replies[c]) : replies[c][i] \in Reply
    /\ whole \in [Conn -> BOOLEAN]

-----------------------------------------------------------------------------
(* Ctx, Request and Response *)

\* Ctx::Ctx and http_parser_init; keep_alive has no initializer.
NewCtx(k) ==
    [path |-> Null, method |-> Null, headers |-> {}, keep |-> k,
     status |-> 200, expect |-> "line", stop |-> FALSE]

\* Mutant: clear forgets the headers.
clear_path_only(x) == [x EXCEPT !.path = Null]

\* Ctx::clear: path and headers of the request; method, keep_alive and the
\* status of the response stay.
clear(x) == [x EXCEPT !.path = Null, !.headers = {}]

\* set_http_method: a method that is neither GET nor POST leaves the last one.
set_http_method(x, m) == IF m \in {"GET", "POST"} THEN m ELSE x.method

\* The parser is at the end of a request: it takes no other one after
\* Connection: close, and leaves the rest of the buffer after an upgrade.
Complete(x, r) ==
    [x EXCEPT !.expect = IF r.keep THEN "line" ELSE "dead",
              !.stop = "upgrade" \in r.headers]

\* The callbacks of one part.  on_header_value adds to the headers that are
\* there already; anything but the part that must come next is an error,
\* which http_parser never leaves.
Feed(x, p) ==
    IF x.stop \/ x.expect = "error" THEN x
    ELSE IF p.k # x.expect THEN [x EXCEPT !.expect = "error"]
    ELSE CASE p.k = "line" -> [x EXCEPT !.path = p.r.path, !.expect = "headers"]
           [] p.k = "headers" ->
                LET y == [x EXCEPT !.headers = @ \cup p.r.headers,
                                   !.method = set_http_method(x, p.r.method),
                                   !.keep = p.r.keep, !.expect = "body"]
                IN  IF p.r.method = "POST" THEN y ELSE Complete(y, p.r)
           [] p.k = "body" -> Complete(x, p.r)

\* Ctx::parse of what one read returned.
parse(x, ps) == FoldLeft(Feed, [x EXCEPT !.stop = FALSE], ps)

has_sec_websocket_key(x) == "key" \in x.headers

\* Response::check_websocket_upgrade.
check_websocket_upgrade(x) == x.method = "GET" /\ x.headers = Header

\* Response::end: the reply is built in the write buffer of the connection
\* and handed to conn->send, which may park the coroutine.
end(c, x, kind, then) ==
    /\ ctx' = [ctx EXCEPT ![c] = x]
    /\ out' = [out EXCEPT ![c] =
                 [reply |-> [kind |-> kind, status |-> get_status_message(x.status),
                             keep |-> x.keep, path |-> x.path],
                  then |-> then]]
    /\ at' = [at EXCEPT ![c] = "send"]
    /\ UNCHANGED fault

set_status(x, s) == [x EXCEPT !.status = s]

send_bad_request_response(c, x) == end(c, set_status(x, 400), "400", "break")
send_not_found_response(c, x) == end(c, set_status(x, 404), "404", "loop")

-----------------------------------------------------------------------------
(* Server::on_accept *)

Up == fault = "none"

\* Mutant: the connection goes on after the refusal.
call_http_handler_goes_on(c, x) ==
    IF has_sec_websocket_key(x) THEN end(c, set_status(x, 400), "400", "loop")
    ELSE /\ at' = [at EXCEPT ![c] = "handler"]
         /\ ctx' = [ctx EXCEPT ![c] = x]
         /\ UNCHANGED <<out, fault>>

call_http_handler(c, x) ==
    IF has_sec_websocket_key(x) THEN send_bad_request_response(c, x)
    ELSE /\ at' = [at EXCEPT ![c] = "handler"]
         /\ ctx' = [ctx EXCEPT ![c] = x]
         /\ UNCHANGED <<out, fault>>

\* Response::upgrade, and the handler once the 101 is out.
call_websocket_handler(c, x) ==
    IF check_websocket_upgrade(x) THEN end(c, set_status(x, 101), "101", "websocket")
    ELSE send_bad_request_response(c, x)

\* stat under settings["document_root"], and the two maps of handlers, which
\* are filled before start.
get_document_absolute_path(p) == p \in Files
get_http_handler(p) == p \in HttpPaths
get_websocket_handler(p) == p \in WsPaths

\* From parse to the reply or the handler.  string path(nullptr) throws and
\* nobody catches it.
Dispatch(c, x) ==
    IF x.path = Null THEN fault' = "null path" /\ UNCHANGED <<at, ctx, out>>
    ELSE IF get_document_absolute_path(x.path) THEN end(c, x, "file", "loop")
    ELSE IF get_http_handler(x.path) THEN call_http_handler(c, x)
    ELSE IF get_websocket_handler(x.path) THEN call_websocket_handler(c, x)
    ELSE send_not_found_response(c, x)

\* recv returns a non-empty beginning of what is there.
Chunks(c) ==
    {n \in 1 .. Len(rx[c]) :
        Split \/ n = Len(rx[c]) \/ rx[c][n + 1].k \in {"line", "frame"}}

Take(c, n) == rx' = [rx EXCEPT ![c] = SubSeq(@, n + 1, Len(@))]

\* One turn of the loop of on_accept up to the next socket call.
on_accept(c) ==
    /\ Up /\ at[c] = "recv"
    /\ \E n \in Chunks(c) :
          LET ps == SubSeq(rx[c], 1, n) IN
          /\ Take(c, n)
          /\ whole' = [whole EXCEPT ![c] =
                         @ /\ ps[1].k = "line" /\ ps = Parts(ps[1].r)]
          /\ Dispatch(c, parse(ctx[c], ps))
    /\ UNCHANGED <<serverVars, frame, clientVars, replies>>

\* recved == 0: the loop ends and the deferred Ctx::~Ctx begins.
on_accept_eof(c) ==
    /\ Up /\ at[c] = "recv" /\ rx[c] = << >> /\ client[c] = "closed"
    /\ at' = [at EXCEPT ![c] = "close"]
    /\ UNCHANGED <<serverVars, ctx, out, frame, fault, clientVars, rx, replies, whole>>

\* recved == -1 is parsed as a length.
on_accept_error(c) ==
    /\ Up /\ at[c] = "recv" /\ rx[c] = << >> /\ client[c] = "reset"
    /\ fault' = "negative length"
    /\ UNCHANGED <<serverVars, at, ctx, out, frame, clientVars, rx, replies, whole>>

\* The end of a turn: if (!ctx->keep_alive) break; ctx->clear().
NextTurn(c) ==
    IF ctx[c].keep
    THEN /\ at' = [at EXCEPT ![c] = "recv"]
         /\ ctx' = [ctx EXCEPT ![c] = clear(@)]
    ELSE /\ at' = [at EXCEPT ![c] = "close"]
         /\ UNCHANGED ctx

AfterSend(c) ==
    CASE out[c].then = "loop" -> NextTurn(c)
      [] out[c].then = "break" -> at' = [at EXCEPT ![c] = "close"] /\ UNCHANGED ctx
      [] out[c].then = "websocket" -> at' = [at EXCEPT ![c] = "websocket"] /\ UNCHANGED ctx

\* conn->send returns.  A file follows its header through sendfile.
send_response(c) ==
    /\ Up /\ at[c] = "send" /\ client[c] # "reset"
    /\ AfterSend(c) /\ out' = [out EXCEPT ![c] = << >>]
    /\ replies' = IF out[c].reply.kind = "frame" THEN replies
                  ELSE [replies EXCEPT ![c] = Append(@, out[c].reply)]
    /\ UNCHANGED <<serverVars, frame, fault, clientVars, rx, whole>>

\* Sending to a client that is gone: nobody looks at the -1, or SIGPIPE ends
\* the process.
send_response_fails(c) ==
    /\ Up /\ at[c] = "send" /\ client[c] = "reset"
    /\ \/ AfterSend(c) /\ UNCHANGED fault
       \/ fault' = "SIGPIPE" /\ UNCHANGED <<at, ctx>>
    /\ out' = [out EXCEPT ![c] = << >>]
    /\ UNCHANGED <<serverVars, frame, clientVars, rx, replies, whole>>

\* Mutant: the loop goes on when recv returns 0.
check_client_close_at_error(c) ==
    /\ Up /\ at[c] = "close"
    /\ IF rx[c] # << >>
       THEN \E n \in Chunks(c) : Take(c, n) /\ UNCHANGED at
       ELSE /\ client[c] = "reset"
            /\ at' = [at EXCEPT ![c] = "freed"] /\ UNCHANGED rx
    /\ UNCHANGED <<serverVars, ctx, out, frame, fault, clientVars, replies, whole>>

\* Ctx::~Ctx after shutdown(SHUT_WR): read until the client has closed, then
\* delete the connection.
check_client_close(c) ==
    /\ Up /\ at[c] = "close"
    /\ IF rx[c] # << >>
       THEN \E n \in Chunks(c) : Take(c, n) /\ UNCHANGED at
       ELSE /\ client[c] \in {"closed", "reset"}
            /\ at' = [at EXCEPT ![c] = "freed"] /\ UNCHANGED rx
    /\ UNCHANGED <<serverVars, ctx, out, frame, fault, clientVars, replies, whole>>

-----------------------------------------------------------------------------
(* Handlers *)

\* An HTTP handler, after any number of sleeps, sets a status or does not,
\* and calls end once.
handler_ends(c) ==
    /\ Up /\ at[c] = "handler"
    /\ \E x \in {ctx[c]} \cup {set_status(ctx[c], s) : s \in UserStatus} :
          end(c, x, "page", "loop")
    /\ UNCHANGED <<serverVars, frame, clientVars, rx, replies, whole>>

\* Response::recv_frame: one recv; the first frame of it is decoded, the rest
\* is cleared by the next call.  After the end of the stream the bytes of an
\* earlier message are decoded again.
recv_frame(c) ==
    /\ Up /\ at[c] = "websocket"
    /\ \/ \E n \in Chunks(c) :
             /\ Take(c, n)
             /\ frame' = [frame EXCEPT ![c] =
                            IF rx[c][1].k = "frame" THEN "sent" ELSE "other"]
             /\ whole' = [whole EXCEPT ![c] =
                            @ /\ \A i \in 1 .. n : rx[c][i].k = "frame"]
             /\ UNCHANGED fault
       \/ /\ rx[c] = << >> /\ client[c] = "closed"
          /\ frame' = [frame EXCEPT ![c] = "phantom"]
          /\ UNCHANGED <<rx, fault, whole>>
       \/ /\ rx[c] = << >> /\ client[c] = "reset"
          /\ fault' = "buffer"      \* read_buf->append(..., -1)
          /\ UNCHANGED <<rx, frame, whole>>
    /\ UNCHANGED <<serverVars, at, ctx, out, clientVars, replies>>

send_frame(c) ==
    /\ Up /\ at[c] = "websocket"
    /\ end(c, ctx[c], "frame", "websocket")
    /\ UNCHANGED <<serverVars, frame, clientVars, rx, replies, whole>>

\* The handler returns into on_accept, which goes on with HTTP.
websocket_handler_returns(c) ==
    /\ Up /\ at[c] = "websocket"
    /\ NextTurn(c)
    /\ UNCHANGED <<serverVars, out, frame, fault, clientVars, rx, replies, whole>>

-----------------------------------------------------------------------------
(* Server::start and shutdown *)

\* accept returns a connection; Coroutine::create runs on_accept to its first
\* recv; the loop looks at running.
start(c) ==
    /\ Up /\ accepting /\ at[c] = "backlog"
    /\ \E k \in BOOLEAN : ctx' = [ctx EXCEPT ![c] = NewCtx(k)]
    /\ at' = [at EXCEPT ![c] = "recv"]
    /\ accepting' = serving
    /\ UNCHANGED <<serving, out, frame, fault, clientVars, rx, replies, whole>>

shutdown ==
    /\ Up /\ serving
    /\ serving' = FALSE
    /\ UNCHANGED <<accepting, at, ctx, out, frame, fault, clientVars, rx, replies, whole>>

-----------------------------------------------------------------------------
(* Clients *)

Upgraded(c) == replies[c] # << >> /\ Last(replies[c]).kind = "101"

client_connects(c) ==
    /\ Up /\ at[c] = "none"
    /\ at' = [at EXCEPT ![c] = "backlog"]
    /\ client' = [client EXCEPT ![c] = "open"]
    /\ UNCHANGED <<serverVars, ctx, out, frame, fault, sent, frames, rx, replies, whole>>

RequestsSent == FoldFunction(LAMBDA s, n : n + Len(s), 0, sent)

\* A request, also before the last one is answered.
client_requests(c) ==
    /\ Up /\ client[c] = "open" /\ ~ Upgraded(c)
    /\ RequestsSent < MaxRequests
    /\ \E r \in Request :
          /\ sent' = [sent EXCEPT ![c] = Append(@, r)]
          /\ rx' = [rx EXCEPT ![c] = @ \o Parts(r)]
    /\ UNCHANGED <<serverVars, at, ctx, out, frame, fault, client, frames, replies, whole>>

client_sends_frame(c) ==
    /\ Up /\ client[c] = "open" /\ Upgraded(c) /\ frames[c] < MaxFrames
    /\ frames' = [frames EXCEPT ![c] = @ + 1]
    /\ rx' = [rx EXCEPT ![c] = Append(@, Frame)]
    /\ UNCHANGED <<serverVars, at, ctx, out, frame, fault, client, sent, replies, whole>>

client_ends(c) ==
    /\ Up /\ client[c] = "open"
    /\ \E how \in {"closed"} \cup (IF Resets THEN {"reset"} ELSE {}) :
          client' = [client EXCEPT ![c] = how]
    /\ UNCHANGED <<serverVars, at, ctx, out, frame, fault, sent, frames, rx, replies, whole>>

-----------------------------------------------------------------------------

HttpInit ==
    /\ serving = TRUE /\ accepting = TRUE
    /\ at = [c \in Conn |-> "none"]
    /\ ctx = [c \in Conn |-> NewCtx(FALSE)]
    /\ out = [c \in Conn |-> << >>]
    /\ frame = [c \in Conn |-> "none"]
    /\ fault = "none"
    /\ client = [c \in Conn |-> "none"]
    /\ rx = [c \in Conn |-> << >>]
    /\ sent = [c \in Conn |-> << >>]
    /\ frames = [c \in Conn |-> 0]
    /\ replies = [c \in Conn |-> << >>]
    /\ whole = [c \in Conn |-> TRUE]

\* What the framework does for a connection, and its HTTP handlers.
ConnStep(c) ==
    \/ on_accept(c) \/ on_accept_eof(c) \/ on_accept_error(c)
    \/ send_response(c) \/ send_response_fails(c) \/ check_client_close(c)
    \/ handler_ends(c)

HttpNext ==
    \/ shutdown
    \/ \E c \in Conn :
          \/ start(c) \/ ConnStep(c)
          \/ recv_frame(c) \/ send_frame(c) \/ websocket_handler_returns(c)
          \/ client_connects(c) \/ client_requests(c)
          \/ client_sends_frame(c) \/ client_ends(c)

HttpSpec == HttpInit /\ [][HttpNext]_vars

\* The event loop runs every coroutine that can go on, and HTTP handlers
\* finish.  Clients, websocket handlers and the accept loop owe nothing.
HttpFairSpec == HttpSpec /\ \A c \in Conn : WF_vars(ConnStep(c))

-----------------------------------------------------------------------------
(* Properties *)

Known == {"GET", "POST"}

\* The method a Ctx has for the i-th of the requests s: that of the last one
\* up to it with a method the server knows, if there is one.
InForce(m, s, i) ==
    \/ m = Null /\ \A j \in 1 .. i : s[j].method \notin Known
    \/ /\ m \in Known
       /\ \E j \in 1 .. i : /\ s[j].method = m
                           /\ \A k \in (j + 1) .. i : s[k].method \notin Known

\* The answer a request should get, from its path, its headers and the method
\* in force.
Answer(r, m) ==
    CASE r.path \in Files -> "file"
      [] r.path \in HttpPaths \ Files ->
            IF "key" \in r.headers THEN "400" ELSE "page"
      [] r.path \in WsPaths \ (Files \cup HttpPaths) ->
            IF m = "GET" /\ r.headers = Header THEN "101" ELSE "400"
      [] OTHER -> "404"

\* A reply answers the i-th of the requests s, by its path and its headers.
RouteFits(a, s, i) ==
    /\ a.path = s[i].path /\ a.keep = s[i].keep
    /\ \E m \in Known \cup {Null} : InForce(m, s, i) /\ a.kind = Answer(s[i], m)

\* The status before the i-th reply of a connection: that of the last one.
StatusLeft(c, i) == IF i = 1 THEN 200 ELSE replies[c][i - 1].status

\* The status of a reply: set by the server, by the handler, or by nobody.
StatusFits(a, left) ==
    /\ a.kind = "404" => a.status = 404
    /\ a.kind = "400" => a.status = 400
    /\ a.kind = "101" => a.status = 101
    /\ a.kind = "file" => a.status = left
    /\ a.kind = "page" =>
          a.status = left \/ \E s \in UserStatus : a.status = get_status_message(s)

\* What an earlier request leaves in the Ctx shows in a later reply in these
\* two ways and in no other: a method other than GET and POST counts as the
\* last of these on the connection (a PUT after a GET is upgraded to a
\* websocket), and a reply whose handler sets no status has that of the last
\* one (a page or a file after a 404 goes out with 404). Path, headers,
\* keep-alive and route are those of its own request, the i-th reply being
\* that of the i-th request when requests are read one by one and whole.
RepliesExplained ==
    \A c \in Conn :
        /\ whole[c] => /\ Len(replies[c]) <= Len(sent[c])
                       /\ \A i \in 1 .. Len(replies[c]) :
                             RouteFits(replies[c][i], sent[c], i)
        /\ \A i \in 1 .. Len(replies[c]) : StatusFits(replies[c][i], StatusLeft(c, i))

\* No other reply follows one that says Connection: Close, or the refusal of
\* a websocket, however the client's bytes arrive and whatever else it has
\* sent. (Frames are not replies: a websocket that was opened with
\* Connection: close sends them until its handler returns.)
NothingAfterFinal ==
    \A c \in Conn : \A i \in 1 .. Len(replies[c]) - 1 :
        LET a == replies[c][i] IN
        a.kind # "400" /\ a.keep

\* A connection that was accepted is freed once its client has closed it or
\* died, unless a websocket handler keeps it.
ConnsReleased ==
    \A c \in Conn :
        (at[c] \notin {"none", "backlog"} /\ client[c] \in {"closed", "reset"})
        ~> (at[c] \in {"freed", "websocket"} \/ fault # "none")

=============================================================================
