--------------------------- MODULE Http2Proofs ---------------------------
(***************************************************************************)
(* What the HTTP/2 client puts on the wire, for any number of coroutines,  *)
(* requests, frames of the server and header table sizes.                  *)
(***************************************************************************)
EXTENDS Http2, FiniteSetTheorems, TLAPS

FrameType == {"PRI", "SETTINGS", "SETTINGS_ACK", "HEADERS", "DATA"} \cup Skipped
AFrame == [type : FrameType, id : Nat, es : BOOLEAN, table : Nat, len : {0, 1}]

\* What the server sends: SETTINGS are not for a stream and ask for a table
\* size, an acknowledgement asks for nothing.
ServerFrame == {f \in AFrame :
    /\ f.type \in {"SETTINGS", "SETTINGS_ACK"} => f.id = 0
    /\ f.type = "SETTINGS" => f.table # 0
    /\ f.type = "SETTINGS_ACK" => f.table = 0}

SendJob == [pc : {"send"}, frame : AFrame, own : BOOLEAN, done : {0, 1},
            then : {"settings", "return", "body", "end", "recv"}, id : Nat,
            req : Request \cup {NoReq}]
BodyJob == [pc : {"body"}, id : Nat, req : Request \cup {NoReq}]
Job == [pc : {"idle", "connect", "recv", "payload"}] \cup BodyJob \cup SendJob

Http2Types ==
    /\ job \in [Co -> Job]
    /\ stream_id \in Nat \ {0} /\ DOMAIN streams \subseteq Nat
    /\ deflater \in Nat /\ stack \in AFrame /\ inbuf \in ServerFrame
    /\ rx \in Seq(ServerFrame)
    /\ wire \in Seq([frame : AFrame, part : {1, 2}])
    /\ overlap \in BOOLEAN /\ exact \in BOOLEAN
    /\ DOMAIN settings = {"local_window", "remote_table"} /\ settings.remote_table \in Nat
    /\ deflater = Clamped(settings.remote_table)

-----------------------------------------------------------------------------
(* The wire *)

Opened(id) == \E i \in WholeFrames : wire[i].frame.id = id /\ wire[i].frame.type = "HEADERS"
Closed(id) == \E i \in WholeFrames : wire[i].frame.id = id /\ wire[i].frame.es

\* The one frame of the stream is its HEADERS, at position n.
BodyNext(id, n) == \A i \in WholeFrames :
    wire[i].frame.id = id => wire[i].frame.type = "HEADERS" /\ i = n

\* The parts of StreamsWellFormed.
Framed ==
    \A i \in 1 .. Len(wire) :
       \/ wire[i].part = 1 /\ i % 2 = 1
       \/ wire[i].part = 2 /\ i > 1 /\ wire[i - 1] = [frame |-> wire[i].frame, part |-> 1]
Introduced ==
    \A i \in WholeFrames : i <= 4 =>
       wire[i].frame = IF i <= 2 THEN Pri ELSE Settings(Default)
Ordered ==
    \A i, j \in WholeFrames : i < j =>
       /\ wire[i].frame.type = "HEADERS" /\ wire[j].frame.type = "HEADERS"
             => wire[i].frame.id < wire[j].frame.id
       /\ wire[i].frame.id = wire[j].frame.id /\ wire[i].frame.id # 0 /\ wire[i].frame.es
             => wire[i].frame.type = "HEADERS" /\ wire[j].frame.type = "DATA" /\ j = i + 2
HeadersFirst ==
    \A j \in WholeFrames : wire[j].frame.type = "DATA" =>
       \E i \in WholeFrames : /\ i < j /\ wire[i].frame.type = "HEADERS"
                              /\ wire[i].frame.id = wire[j].frame.id
WireInv == Framed /\ Introduced /\ Ordered /\ HeadersFirst

\* A request has sent its HEADERS and not all of its body.
Begun(c) == job[c].pc = "body" \/ (Sending(c) /\ job[c].then = "end")

\* One coroutine sends at a time, and its frame is still where it built it;
\* nobody runs between HEADERS and DATA of a request, or between the preface
\* and SETTINGS.
OneSender ==
    /\ \A c, d \in Co : Sending(c) /\ Sending(d) => c = d
    /\ \A c \in Co : Sending(c) /\ ~ job[c].own => stack = job[c].frame
    /\ \A c \in Co : job[c].pc \in {"connect", "body"} =>
          running = c /\ \A d \in Co : ~ Sending(d)

\* The last piece is half of a frame exactly if its sender is parked.
HalfSent ==
    /\ \A c \in Co : Sending(c) /\ job[c].done = 1 =>
          Len(wire) % 2 = 1 /\ wire[Len(wire)].frame = job[c].frame
    /\ (\A c \in Co : ~ (Sending(c) /\ job[c].done = 1)) => Len(wire) % 2 = 0

\* The preface and SETTINGS come before anything else.
Preface ==
    \/ sock # "open" /\ Len(wire) = 0 /\ \A c \in Co : job[c].pc = "idle"
    \/ /\ sock = "open" /\ \A c \in Co \ {Receiver} : job[c].pc = "idle"
       /\ \/ /\ Sending(Receiver) /\ job[Receiver].then = "settings" /\ job[Receiver].own
             /\ job[Receiver].frame = Pri /\ Len(wire) = job[Receiver].done
          \/ job[Receiver].pc = "connect" /\ Len(wire) = 2
          \/ /\ Sending(Receiver) /\ job[Receiver].then = "return" /\ job[Receiver].own
             /\ job[Receiver].frame = Settings(Default) /\ Len(wire) = 2 + job[Receiver].done
    \/ /\ sock = "open" /\ Len(wire) >= 4
       /\ \A c \in Co : job[c].pc # "connect"
       /\ \A c \in Co : Sending(c) => job[c].frame.type \notin {"PRI", "SETTINGS"}
                                      /\ job[c].then # "settings"

\* The frame a coroutine is sending.
FrameSent(c) ==
    LET j == job[c] IN
    \/ j.then = "settings" /\ j.frame = Pri
    \/ j.then = "return" /\ j.frame = Settings(Default)
    \/ /\ j.then = "return" /\ j.frame.type = "DATA" /\ j.frame.id < stream_id
       /\ Opened(j.frame.id) /\ ~ Closed(j.frame.id)
    \/ /\ j.then = "body" /\ j.frame.type = "HEADERS" /\ j.frame.id = stream_id
       /\ j.id = stream_id
    \/ /\ j.then = "end" /\ j.frame.type = "DATA" /\ j.frame.id = stream_id
       /\ Opened(j.frame.id) /\ BodyNext(j.frame.id, Len(wire) - j.done)
    \/ j.then = "recv" /\ j.frame.type = "SETTINGS_ACK" /\ j.frame.id = 0

Flight ==
    /\ \A c \in Co : Sending(c) => FrameSent(c)
    /\ \A c \in Co : job[c].pc = "body" =>
          job[c].id = stream_id /\ Opened(stream_id) /\ BodyNext(stream_id, Len(wire))

\* Frames of streams up to the next one, whose HEADERS are on the wire.
Numbers ==
    /\ \A i \in WholeFrames : wire[i].frame.id <= stream_id
    /\ \A i \in WholeFrames : wire[i].frame.id = stream_id => \E c \in Co : Begun(c)
    /\ \A id \in DOMAIN streams : id <= stream_id
    /\ \A id \in DOMAIN streams : id < stream_id => Opened(id)

FlowInv == OneSender /\ HalfSent /\ Preface /\ Flight /\ Numbers

Http2Inv ==
    /\ Http2Types
    /\ ~ overlap => WireInv
    /\ ~ overlap /\ exact => FlowInv

-----------------------------------------------------------------------------
(* Types *)

LEMMA Frames ==
    /\ Pri \in AFrame /\ Settings(Default) \in AFrame /\ NoFrame \in ServerFrame
    /\ \A f \in ServerFrame : Ack(f) \in AFrame /\ f \in AFrame
    /\ Ack(NoFrame) \in ServerFrame
    /\ \A n \in Tables : Settings(n) \in ServerFrame
    /\ \A t \in Control : Frame(t, 0, FALSE, 0, 0) \in ServerFrame
    /\ \A id \in Nat, es \in BOOLEAN, n \in {0, 1} : Frame("DATA", id, es, 0, n) \in ServerFrame
    /\ \A id \in Nat, es \in BOOLEAN, n \in Nat : Frame("HEADERS", id, es, n, 0) \in ServerFrame
BY Http2Constants DEF Pri, Settings, NoFrame, Ack, Frame, AFrame, ServerFrame, FrameType, Skipped

\* What a send_all that begins makes of the jobs.
LEMMA SendType ==
    ASSUME job \in [Co -> Job], NEW c \in Co, NEW f \in AFrame, NEW own \in BOOLEAN,
           NEW then \in {"settings", "return", "body", "end", "recv"},
           NEW r \in Request \cup {NoReq}, Send(c, f, own, then, r)
    PROVE  job' \in [Co -> Job] /\ overlap' \in BOOLEAN
<1>1. [pc |-> "send", frame |-> f, own |-> own, done |-> 0, then |-> then,
       id |-> f.id, req |-> r] \in Job
  BY DEF Job, SendJob, AFrame
<1> QED
  BY <1>1 DEF Send
\* A sender's record, and what it becomes when send_all waits or returns.
LEMMA JobCases ==
    ASSUME job \in [Co -> Job], NEW c \in Co
    PROVE  /\ Sending(c) => job[c] \in SendJob
           /\ job[c].pc = "body" => job[c] \in BodyJob
           /\ job[c].pc \in {"idle", "connect", "recv", "payload", "body", "send"}
BY DEF Job, SendJob, BodyJob, Sending

LEMMA AfterType ==
    ASSUME NEW c \in Co, job[c] \in SendJob
    PROVE  After(c) \in Job
<1>1. CASE job[c].then = "body"
  <2>1. [pc |-> "body", id |-> job[c].id, req |-> job[c].req] \in BodyJob
    BY <1>1 DEF SendJob, BodyJob
  <2> QED
    BY <1>1, <2>1 DEF After, Job
<1>2. CASE job[c].then # "body"
  BY <1>2 DEF After, Job, Idle
<1> QED
  BY <1>1, <1>2

LEMMA FunctionIsSeq ==
    ASSUME NEW T, NEW n \in Nat, NEW g \in [1 .. n -> T]
    PROVE  g \in Seq(T)
OBVIOUS

LEMMA SeqElements ==
    ASSUME NEW T, NEW s \in Seq(T)
    PROVE  Len(s) \in Nat /\ \A i \in 1 .. Len(s) : s[i] \in T
OBVIOUS

\* send_all hands over the pieces that are left, up to the n-th.
LEMMA PiecesType ==
    ASSUME Http2Types, NEW c \in Co, Sending(c), NEW n \in job[c].done + 1 .. 2
    PROVE  /\ Pieces(c, Left(c), n) \in Seq([frame : AFrame, part : {1, 2}])
           /\ Len(Pieces(c, Left(c), n)) = n - job[c].done
           /\ \A i \in 1 .. n - job[c].done : Pieces(c, Left(c), n)[i] =
                 [frame |-> IF job[c].own THEN job[c].frame ELSE stack,
                  part |-> job[c].done + i]
<1>1. job[c].done \in {0, 1} /\ job[c].frame \in AFrame /\ stack \in AFrame
  BY JobCases DEF Http2Types, SendJob
<1> DEFINE k == job[c].done
           f == IF job[c].own THEN job[c].frame ELSE stack
<1>2. f \in AFrame
  BY <1>1
<1>3. Pieces(c, Left(c), n) = [i \in 1 .. n - k |-> [frame |-> f, part |-> k + i]]
  BY DEF Pieces, Left
<1>4. n - k \in Nat /\ \A i \in 1 .. n - k : k + i \in {1, 2}
  BY <1>1
<1> HIDE DEF f, k
<1>5. [i \in 1 .. n - k |-> [frame |-> f, part |-> k + i]]
          \in [1 .. n - k -> [frame : AFrame, part : {1, 2}]]
  BY <1>2, <1>4
<1>6. Len([i \in 1 .. n - k |-> [frame |-> f, part |-> k + i]]) = n - k
  BY <1>4
<1> QED
  BY <1>3, <1>4, <1>5, <1>6, FunctionIsSeq DEF f, k

LEMMA TypesInit ==
    ASSUME Http2Init
    PROVE  Http2Types
<1>1. job \in [Co -> Job]
  BY DEF Http2Init, Job, Idle
<1>2. inbuf \in ServerFrame /\ stack \in AFrame
  BY Frames DEF Http2Init, ServerFrame
<1>3. rx \in Seq(ServerFrame) /\ wire \in Seq([frame : AFrame, part : {1, 2}])
  BY DEF Http2Init
<1>4. deflater \in Nat /\ stream_id \in Nat \ {0} /\ DOMAIN streams \subseteq Nat
  BY Http2Constants DEF Http2Init
<1>5. /\ DOMAIN settings = {"local_window", "remote_table"} /\ settings.remote_table \in Nat
      /\ deflater = Clamped(settings.remote_table) /\ overlap \in BOOLEAN /\ exact \in BOOLEAN
  BY Http2Constants DEF Http2Init, Clamped
<1> QED
  BY <1>1, <1>2, <1>3, <1>4, <1>5 DEF Http2Types

LEMMA TypesSendAll ==
    ASSUME Http2Types, NEW c \in Co, send_all(c)
    PROVE  Http2Types'
<1>1. job[c] \in SendJob /\ Sending(c) /\ job \in [Co -> Job]
  BY JobCases DEF Http2Types, send_all
<1>2. PICK n \in job[c].done + 1 .. 2 :
          /\ wire' = IF exact THEN wire \o Pieces(c, Left(c), n) ELSE wire
          /\ IF n < 2 /\ CanWait(c)
             THEN /\ job' = [job EXCEPT ![c].done = n]
                  /\ UNCHANGED <<stream_id, overlap>>
             ELSE /\ job' = [job EXCEPT ![c] = After(c)]
                  /\ stream_id' = Advance(c)
                  /\ overlap' = (overlap \/ n < 2)
  BY DEF send_all
<1>3. job[c].done \in {0, 1} /\ n \in {1, 2}
  BY <1>1, <1>2 DEF SendJob
<1>4. job' \in [Co -> Job]
  <2>1. CASE n < 2 /\ CanWait(c)
    <3>1. [job[c] EXCEPT !.done = n] \in SendJob
      BY <1>1, <1>3, <2>1 DEF SendJob
    <3>2. job' = [job EXCEPT ![c] = [job[c] EXCEPT !.done = n]]
      BY <1>1, <1>2, <2>1
    <3> QED
      BY <1>1, <3>1, <3>2 DEF Job
  <2>2. CASE ~ (n < 2 /\ CanWait(c))
    BY <1>1, <1>2, <2>2, AfterType
  <2> QED
    BY <2>1, <2>2
<1>5. stream_id' \in Nat \ {0} /\ overlap' \in BOOLEAN
  <2>1. stream_id \in Nat \ {0} /\ overlap \in BOOLEAN
    BY DEF Http2Types
  <2>2. stream_id' \in {stream_id, stream_id + 2}
    BY <1>2 DEF Advance
  <2>3. overlap' \in BOOLEAN
    BY <1>2, <2>1
  <2> QED
    BY <2>1, <2>2, <2>3
<1>6. wire' \in Seq([frame : AFrame, part : {1, 2}])
  <2>1. Pieces(c, Left(c), n) \in Seq([frame : AFrame, part : {1, 2}])
    BY <1>1, PiecesType
  <2> QED
    BY <1>2, <2>1 DEF Http2Types
<1> QED
  BY <1>4, <1>5, <1>6 DEF send_all, Http2Types

LEMMA TypesCalls ==
    ASSUME Http2Types, NEW c \in Co,
           \/ connect(c) \/ connect_settings(c) \/ send_http_body_frame(c) \/ recv_reponse(c)
           \/ \E r \in Requests : send_http_header_frame(c, r)
           \/ \E id \in Ids, es \in BOOLEAN : write_data(c, id, es)
    PROVE  Http2Types'
<1>0. job \in [Co -> Job] /\ NoReq \in Request \cup {NoReq} /\ Requests \subseteq Request
  BY Http2Constants DEF Http2Types
<1>1. CASE connect(c) \/ connect_settings(c)
  <2>1. job' \in [Co -> Job] /\ overlap' \in BOOLEAN
    <3>1. CASE \/ Send(c, Pri, TRUE, "settings", NoReq)
               \/ Send(c, Settings(Default), TRUE, "return", NoReq)
      BY <1>0, <3>1, SendType, Frames
    <3>2. CASE UNCHANGED <<job, overlap>>
      BY <1>0, <3>2 DEF Http2Types
    <3> QED
      BY <1>1, <3>1, <3>2 DEF connect, connect_settings
  <2> QED
    BY <1>1, <2>1 DEF connect, connect_settings, Http2Types, clientVars
<1>2. CASE send_http_body_frame(c)
  <2>1. CASE UNCHANGED <<stack, job, overlap>>
    BY <1>2, <2>1 DEF send_http_body_frame, Http2Types, clientVars
  <2>2. CASE stack' = body_frame(c) /\ Send(c, body_frame(c), FALSE, "end", job[c].req)
    <3>1. job[c] \in BodyJob
      BY <1>0, <1>2, JobCases DEF send_http_body_frame
    <3>2. body_frame(c) \in AFrame /\ job[c].req \in Request \cup {NoReq}
      BY <3>1, Frames DEF BodyJob, body_frame
    <3>3. job' \in [Co -> Job] /\ overlap' \in BOOLEAN
      BY <1>0, <2>2, <3>2, SendType
    <3> QED
      BY <1>2, <2>2, <3>2, <3>3 DEF send_http_body_frame, Http2Types, clientVars
  <2> QED
    BY <1>2, <2>1, <2>2 DEF send_http_body_frame
<1>3. CASE recv_reponse(c)
  <2>1. job' \in [Co -> Job]
    BY <1>0, <1>3 DEF recv_reponse, Job
  <2> QED
    BY <1>3, <2>1 DEF recv_reponse, Http2Types, clientVars, histVars
<1>4. ASSUME NEW r \in Requests, send_http_header_frame(c, r) PROVE Http2Types'
  <2>1. header_frame(r) \in AFrame
    BY Frames DEF header_frame, Http2Types
  <2>2. job' \in [Co -> Job] /\ overlap' \in BOOLEAN
    BY <1>0, <1>4, <2>1, SendType DEF send_http_header_frame
  <2>3. DOMAIN streams' \subseteq DOMAIN streams \cup {stream_id}
    BY <1>4 DEF send_http_header_frame
  <2> QED
    BY <1>4, <2>1, <2>2, <2>3 DEF send_http_header_frame, Http2Types
<1>5. ASSUME NEW id \in Ids, NEW es \in BOOLEAN, write_data(c, id, es) PROVE Http2Types'
  <2>1. id \in Nat
    BY <1>5 DEF write_data, Writable, Http2Types
  <2>2. Frame("DATA", id, es, 0, 1) \in AFrame
    BY <2>1, Frames
  <2>3. job' \in [Co -> Job] /\ overlap' \in BOOLEAN
    BY <1>0, <1>5, <2>2, SendType DEF write_data
  <2> QED
    BY <1>5, <2>2, <2>3 DEF write_data, Http2Types, clientVars
<1> QED
  BY <1>1, <1>2, <1>3, <1>4, <1>5

\* What parse_frame of a frame of the server does to the client.
LEMMA TypesParse ==
    ASSUME Http2Types, NEW c \in Co, NEW f \in ServerFrame, parse_frame(c, f)
    PROVE  /\ job' \in [Co -> Job] /\ overlap' \in BOOLEAN
           /\ DOMAIN streams' = DOMAIN streams /\ deflater' \in Nat
           /\ DOMAIN settings' = {"local_window", "remote_table"}
           /\ settings'.remote_table \in Nat /\ deflater' = Clamped(settings'.remote_table)
<1>0. /\ job \in [Co -> Job] /\ NoReq \in Request \cup {NoReq} /\ overlap \in BOOLEAN
      /\ deflater \in Nat /\ f \in AFrame /\ f.table \in Nat
      /\ DOMAIN settings = {"local_window", "remote_table"} /\ settings.remote_table \in Nat
      /\ deflater = Clamped(settings.remote_table) /\ \A n \in Nat : Clamped(n) \in Nat
  BY Frames, Http2Constants DEF Http2Types, AFrame, ServerFrame, Clamped
<1>1. CASE f.type \in {"SETTINGS", "SETTINGS_ACK"}
  <2>1. parse_setting_frame(c, f)
    BY <1>1 DEF parse_frame, Skipped
  <2>2. job' \in [Co -> Job] /\ overlap' \in BOOLEAN
    BY <1>0, <2>1, SendType, Frames DEF parse_setting_frame
  <2> QED
    BY <1>0, <2>1, <2>2 DEF parse_setting_frame
<1>2. CASE f.type \in Skipped
  <2>1. /\ UNCHANGED <<overlap, settings, deflater, streams>>
        /\ job' = [job EXCEPT ![c] = [pc |-> "recv"]]
    BY <1>2 DEF parse_frame, Skipped, NextFrame
  <2>2. job' \in [Co -> Job]
    BY <1>0, <2>1 DEF Job
  <2> QED
    BY <1>0, <2>1, <2>2
<1>3. CASE f.type \notin Skipped \cup {"SETTINGS", "SETTINGS_ACK"}
  <2>1. parse_stream_frame(c, f)
    BY <1>3 DEF parse_frame
  <2>2. CASE UNCHANGED <<job, overlap, settings, deflater, streams>>
    BY <1>0, <2>2
  <2>3. CASE /\ \E t : streams' = [streams EXCEPT ![f.id] = t]
             /\ settings' = [settings EXCEPT !.local_window = @ - f.len]
             /\ \/ job' = [job EXCEPT ![c] = [pc |-> "recv"]]
                \/ job' = [job EXCEPT ![c] = Idle]
             /\ UNCHANGED <<deflater, overlap>>
    <3>1. job' \in [Co -> Job]
      BY <1>0, <2>3 DEF Idle, Job
    <3> QED
      BY <1>0, <2>3, <3>1
  <2> QED
    BY <2>1, <2>2, <2>3 DEF parse_stream_frame, Kill, NextFrame
<1> QED
  BY <1>1, <1>2, <1>3

LEMMA TypesRest ==
    ASSUME Http2Types, [Http2Next]_vars,
           \A c \in Co :
              ~ \/ send_all(c) \/ connect(c) \/ connect_settings(c)
                \/ send_http_body_frame(c) \/ recv_reponse(c)
                \/ \E r \in Requests : send_http_header_frame(c, r)
                \/ \E id \in Ids, es \in BOOLEAN : write_data(c, id, es)
    PROVE  Http2Types'
<1>1. ASSUME NEW c \in Co, recv_payload(c) \/ recv_fails(c) PROVE Http2Types'
  <2>0. rx \in Seq(ServerFrame) /\ inbuf \in ServerFrame
    BY DEF Http2Types
  <2>1. CASE Kill("out of step") /\ UNCHANGED <<rx, inbuf>> /\ exact' = FALSE
    BY <1>1, <2>1 DEF Http2Types, Kill, recv_payload, recv_fails
  <2>2. ASSUME NEW f \in ServerFrame, parse_frame(c, f), rx' \in Seq(ServerFrame),
               inbuf' \in ServerFrame, exact' \in BOOLEAN
        PROVE  Http2Types'
    <3>1. UNCHANGED <<stream_id, stack, wire>>
      BY <1>1 DEF recv_payload, recv_fails
    <3> QED
      BY <2>2, <3>1, TypesParse DEF Http2Types
  <2>3. CASE rx # << >> /\ rx' = Tail(rx) /\ inbuf' = Head(rx) /\ parse_frame(c, Head(rx))
             /\ UNCHANGED exact
    <3>1. Head(rx) \in ServerFrame /\ Tail(rx) \in Seq(ServerFrame)
      BY <2>0, <2>3
    <3> QED
      BY <2>2, <2>3, <3>1 DEF Http2Types
  <2>4. CASE parse_frame(c, inbuf) /\ exact' = FALSE /\ UNCHANGED <<rx, inbuf>>
    BY <2>0, <2>2, <2>4
  <2> QED
    BY <1>1, <2>1, <2>3, <2>4 DEF recv_payload, recv_fails
<1>2. ASSUME NEW c \in Co, recv_frame(c) \/ recv_waits(c) PROVE Http2Types'
  <2>1. job' = job \/ job' = [job EXCEPT ![c] = [pc |-> "payload"]]
    BY <1>2 DEF recv_frame, recv_waits
  <2>2. job' \in [Co -> Job]
    BY <2>1 DEF Http2Types, Job
  <2> QED
    BY <1>2, <2>2 DEF recv_frame, recv_waits, Http2Types, clientVars, histVars
<1>3. ASSUME NEW f \in ServerFrame, rx' = Append(rx, f), ServerOnly PROVE Http2Types'
  <2>1. rx' \in Seq(ServerFrame)
    BY <1>3 DEF Http2Types
  <2> QED
    BY <1>3, <2>1 DEF ServerOnly, Http2Types, clientVars, histVars
<1>4. ASSUME NEW id \in Ids, server_headers(id) \/ server_data(id) PROVE Http2Types'
  <2>1. id \in Nat
    BY <1>4, Http2Constants DEF Ids
  <2> QED
    BY <1>3, <1>4, <2>1, Frames DEF server_headers, server_data, Reply
<1>5. CASE server_settings
  BY <1>3, <1>5, Frames DEF server_settings, Reply
<1>6. CASE server_closes \/ UNCHANGED vars
  BY <1>6 DEF server_closes, ServerOnly, Http2Types, clientVars, histVars, vars
<1> QED
  BY <1>1, <1>2, <1>4, <1>5, <1>6 DEF Http2Next, CoStep

LEMMA TypesStep ==
    ASSUME Http2Types, [Http2Next]_vars
    PROVE  Http2Types'
BY TypesSendAll, TypesCalls, TypesRest

-----------------------------------------------------------------------------
(* Steps that put nothing on the wire *)

LEMMA SameWire ==
    ASSUME wire' = wire
    PROVE  /\ WholeFrames' = WholeFrames /\ WireInv' = WireInv
           /\ \A id : (Opened(id)' <=> Opened(id)) /\ (Closed(id)' <=> Closed(id))
           /\ \A id, n : BodyNext(id, n)' <=> BodyNext(id, n)
<1>1. WholeFrames' = WholeFrames
  BY DEF WholeFrames
<1>2. /\ \A id : (Opened(id)' <=> Opened(id)) /\ (Closed(id)' <=> Closed(id))
      /\ \A id, n : BodyNext(id, n)' <=> BodyNext(id, n)
  BY <1>1 DEF Opened, Closed, BodyNext
<1>3. /\ Framed' = Framed /\ Introduced' = Introduced /\ Ordered' = Ordered
      /\ HeadersFirst' = HeadersFirst
  BY <1>1 DEF Framed, Introduced, Ordered, HeadersFirst
<1> QED
  BY <1>1, <1>2, <1>3 DEF WireInv

LEMMA SameFlow ==
    ASSUME FlowInv, UNCHANGED <<wire, job, running, stream_id, deflater, stack, streams, sock>>
    PROVE  FlowInv'
<1>1. /\ WholeFrames' = WholeFrames
      /\ \A id : (Opened(id)' <=> Opened(id)) /\ (Closed(id)' <=> Closed(id))
      /\ \A id, n : BodyNext(id, n)' <=> BodyNext(id, n)
  BY SameWire
<1>2. OneSender' /\ HalfSent' /\ Preface'
  BY DEF FlowInv, OneSender, HalfSent, Preface, Sending
<1>3. Flight'
  BY <1>1 DEF FlowInv, Flight, FrameSent, Sending
<1>4. Numbers'
  BY <1>1 DEF FlowInv, Numbers, Begun, Sending
<1> QED
  BY <1>2, <1>3, <1>4 DEF FlowInv

\* A step outside of connect and send_request that sends nothing.
LEMMA QuietStep ==
    ASSUME Http2Types, FlowInv, NEW c \in Co, running \in {NoCo, c},
           UNCHANGED <<wire, stream_id, deflater, stack>>,
           DOMAIN streams' = DOMAIN streams, sock' = "open" <=> sock = "open",
           job' \in [Co -> Job], \A d \in Co : d # c => job'[d] = job[d],
           job[c].pc \in {"idle", "recv", "payload"}, job'[c].pc \in {"idle", "recv", "payload"},
           job'[c].pc # "idle" => sock = "open" /\ (c = Receiver \/ job[c].pc # "idle")
    PROVE  FlowInv'
<1>1. /\ WholeFrames' = WholeFrames
      /\ \A id : (Opened(id)' <=> Opened(id)) /\ (Closed(id)' <=> Closed(id))
      /\ \A id, n : BodyNext(id, n)' <=> BodyNext(id, n)
  BY SameWire
<1>2. /\ ~ Sending(c) /\ ~ Sending(c)' /\ Receiver \in Co /\ NoCo \notin Co
      /\ \A d \in Co : d # c => (Sending(d)' <=> Sending(d))
  BY Http2Constants DEF Sending
<1>3. OneSender'
  BY <1>2 DEF FlowInv, OneSender
<1>4. HalfSent'
  BY <1>2 DEF FlowInv, HalfSent
<1>5. Preface'
  BY <1>2 DEF FlowInv, Preface, Sending
<1>6. Flight'
  <2>1. \A d \in Co : d # c /\ FrameSent(d) => FrameSent(d)'
    BY <1>1 DEF FrameSent
  <2> QED
    BY <1>1, <1>2, <2>1 DEF FlowInv, Flight
<1>7. Numbers'
  <2>1. \A d \in Co : Begun(d) => Begun(d)'
    BY <1>2 DEF Begun
  <2> QED
    BY <1>1, <2>1 DEF FlowInv, Numbers
<1> QED
  BY <1>3, <1>4, <1>5, <1>6, <1>7 DEF FlowInv

\* The only stream a step can add is the next one.
NoOtherStream == DOMAIN streams' \subseteq DOMAIN streams \cup {stream_id}

LEMMA SameStreams ==
    ASSUME UNCHANGED streams
    PROVE  NoOtherStream
BY DEF NoOtherStream

\* A send_all begins, and nobody else is in one.
Begins(c, j) ==
    /\ job' = [job EXCEPT ![c] = j] /\ j.pc = "send" /\ j.done = 0
    /\ \A d \in Co : d # c => ~ Sending(d)

LEMMA BeginSend ==
    ASSUME Http2Types, FlowInv, NEW c \in Co, running \in {NoCo, c}, ~ Sending(c),
           NEW j, Begins(c, j), ~ j.own => stack' = j.frame,
           UNCHANGED <<wire, stream_id>>,
           NoOtherStream, job[c].pc = "body" => j.then = "end"
    PROVE  /\ OneSender' /\ HalfSent' /\ Numbers'
           /\ FrameSent(c)' => Flight'
           /\ Sending(c)'
           /\ job'[c] = j
           /\ \A d \in Co : d # c => /\ job'[d] = job[d] /\ ~ Sending(d) /\ ~ Sending(d)'
                                     /\ job[d].pc \notin {"connect", "body"}
<1>1. /\ WholeFrames' = WholeFrames
      /\ \A id : (Opened(id)' <=> Opened(id)) /\ (Closed(id)' <=> Closed(id))
      /\ \A id, n : BodyNext(id, n)' <=> BodyNext(id, n)
  BY SameWire
<1>2. job'[c] = j /\ j.pc = "send" /\ j.done = 0 /\ \A d \in Co : d # c => job'[d] = job[d]
  BY DEF Begins, Http2Types
<1>3. \A d \in Co : d # c => ~ Sending(d)
  BY DEF Begins
<1>4. \A d \in Co : d # c => job[d].pc \notin {"connect", "body"}
  BY Http2Constants DEF FlowInv, OneSender
<1>5. Sending(c)' /\ \A d \in Co : d # c => ~ Sending(d)'
  BY <1>2, <1>3 DEF Sending
<1>6. OneSender'
  BY <1>2, <1>4, <1>5 DEF OneSender
<1>7. HalfSent'
  BY <1>2, <1>3, <1>5 DEF FlowInv, HalfSent
<1>8. Numbers'
  <2>1. ASSUME NEW d \in Co, Begun(d) PROVE Begun(c)'
    BY <1>2, <1>3, <1>4, <1>5, <2>1 DEF Begun
  <2>2. /\ \A i \in WholeFrames' : wire'[i].frame.id <= stream_id'
        /\ \A i \in WholeFrames' : wire'[i].frame.id = stream_id' => Begun(c)'
    BY <1>1, <2>1 DEF FlowInv, Numbers
  <2>3. /\ \A id \in DOMAIN streams' : id <= stream_id'
        /\ \A id \in DOMAIN streams' : id < stream_id' => Opened(id)'
    <3>1. stream_id \in Nat
      BY DEF Http2Types
    <3> QED
      BY <1>1, <3>1 DEF FlowInv, Numbers, NoOtherStream
  <2> QED
    BY <2>2, <2>3 DEF Numbers
<1>10. FrameSent(c)' => Flight'
  BY <1>2, <1>4, <1>5 DEF Flight
<1> QED
  BY <1>2, <1>3, <1>4, <1>5, <1>6, <1>7, <1>8, <1>10

\* Frames of requests and acknowledgements come after the preface.
LEMMA BeginFrame ==
    ASSUME FlowInv, NEW c \in Co, sock' = sock, wire' = wire,
           job[c].pc \in {"idle", "body", "recv", "payload"}, job[c].pc = "idle" => sock = "open",
           NEW f, f.type \notin {"PRI", "SETTINGS"},
           Sending(c)', job'[c].frame = f, job'[c].then # "settings", job'[c].pc # "connect",
           \A d \in Co : d # c => /\ job'[d] = job[d] /\ ~ Sending(d) /\ ~ Sending(d)'
                                  /\ job[d].pc \notin {"connect", "body"}
    PROVE  Preface'
<1>1. Receiver \in Co
  BY Http2Constants
<1>2. sock = "open" /\ Len(wire) >= 4
  BY <1>1 DEF FlowInv, Preface, Sending
<1> QED
  BY <1>2 DEF Preface

LEMMA FlowConnect ==
    ASSUME Http2Types, FlowInv, NEW c \in Co, connect(c) \/ connect_settings(c), ~ overlap'
    PROVE  FlowInv'
<1>0. Receiver \in Co /\ NoCo \notin Co /\ job \in [Co -> Job]
  BY Http2Constants DEF Http2Types
<1>1. CASE connect(c) /\ sock' = "open" /\ Send(c, Pri, TRUE, "settings", NoReq)
  <2>1. /\ c = Receiver /\ sock = "null" /\ sock' = "open" /\ ~ Sending(c)
        /\ running \in {NoCo, c} /\ job[c].pc = "idle"
        /\ UNCHANGED <<wire, stream_id, deflater, stack, streams>>
    BY <1>1 DEF connect, Calls, HasProcessor, Sending
  <2>0. PICK j : j = [pc |-> "send", frame |-> Pri, own |-> TRUE, done |-> 0,
                      then |-> "settings", id |-> Pri.id, req |-> NoReq]
    OBVIOUS
  <2>j. Begins(c, j) /\ j.pc = "send" /\ j.own /\ j.frame = Pri /\ j.done = 0 /\ j.then = "settings"
    BY <1>1, <2>0 DEF Send, Begins
  <2>2. /\ OneSender' /\ HalfSent' /\ Numbers' /\ (FrameSent(c)' => Flight')
        /\ job'[c] = j /\ \A d \in Co : d # c => job'[d] = job[d]
    BY <2>1, <2>j, BeginSend, SameStreams
  <2>3. FrameSent(c)'
    BY <2>2, <2>j DEF FrameSent
  <2>4. Preface'
    BY <1>0, <2>1, <2>2, <2>j DEF FlowInv, Preface, Sending
  <2> QED
    BY <2>2, <2>3, <2>4 DEF FlowInv
<1>2. CASE connect(c) /\ UNCHANGED <<job, overlap, running>> /\ sock' = "failed"
  <2>1. /\ sock # "open" /\ job[c].pc = "idle" /\ running \in {NoCo, c}
        /\ UNCHANGED <<wire, stream_id, deflater, stack, streams>>
    BY <1>2 DEF connect, Calls, HasProcessor
  <2> QED
    BY <1>0, <1>2, <2>1, QuietStep
<1>3. CASE connect_settings(c)
  <2>1. /\ job[c].pc = "connect" /\ ~ Sending(c) /\ running \in {NoCo, c}
        /\ Send(c, Settings(Default), TRUE, "return", NoReq)
        /\ UNCHANGED <<wire, stream_id, deflater, stack, streams, sock>>
    BY <1>3 DEF connect_settings, HasProcessor, Sending, clientVars
  <2>0. PICK j : j = [pc |-> "send", frame |-> Settings(Default), own |-> TRUE, done |-> 0,
                      then |-> "return", id |-> Settings(Default).id, req |-> NoReq]
    OBVIOUS
  <2>j. /\ Begins(c, j) /\ j.pc = "send" /\ j.own /\ j.frame = Settings(Default)
        /\ j.done = 0 /\ j.then = "return"
    BY <2>0, <2>1 DEF Send, Begins
  <2>2. /\ OneSender' /\ HalfSent' /\ Numbers' /\ (FrameSent(c)' => Flight')
        /\ job'[c] = j /\ \A d \in Co : d # c => job'[d] = job[d]
    BY <2>1, <2>j, BeginSend, SameStreams
  <2>3. FrameSent(c)'
    BY <2>2, <2>j DEF FrameSent
  <2>4. Preface'
    <3>1. /\ c = Receiver /\ sock = "open" /\ Len(wire) = 2
          /\ \A d \in Co \ {Receiver} : job[d].pc = "idle"
      BY <1>0, <2>1 DEF FlowInv, Preface, Sending
    <3>2. /\ sock' = "open" /\ Len(wire') = 2 + job'[c].done /\ Sending(c)'
          /\ job'[c].then = "return" /\ job'[c].own /\ job'[c].frame = Settings(Default)
      BY <2>1, <2>2, <2>j, <3>1 DEF Sending
    <3> QED
      BY <2>2, <3>1, <3>2 DEF Preface
  <2> QED
    BY <2>2, <2>3, <2>4 DEF FlowInv
<1> QED
  BY <1>1, <1>2, <1>3 DEF connect

LEMMA FlowRequest ==
    ASSUME Http2Types, FlowInv, NEW c \in Co, ~ overlap',
           \/ send_http_body_frame(c)
           \/ \E r \in Requests : send_http_header_frame(c, r)
    PROVE  FlowInv'
<1>0. stream_id \in Nat \ {0} /\ job \in [Co -> Job]
  BY DEF Http2Types
<1>1. CASE send_http_body_frame(c) /\ Send(c, body_frame(c), FALSE, "end", job[c].req)
                                   /\ stack' = body_frame(c)
  <2>0. PICK f, q : f = body_frame(c) /\ q = job[c].req
    OBVIOUS
  <2>1. /\ job[c].pc = "body" /\ ~ Sending(c) /\ running \in {NoCo, c}
        /\ UNCHANGED <<wire, stream_id, deflater, streams, sock>>
        /\ Send(c, f, FALSE, "end", q) /\ stack' = f
    BY <1>1, <2>0 DEF send_http_body_frame, HasProcessor, Sending, clientVars
  <2>2. job[c].id = stream_id /\ Opened(stream_id) /\ BodyNext(stream_id, Len(wire))
    BY <2>1 DEF FlowInv, Flight
  <2>3. f \in AFrame /\ f.id = stream_id /\ f.type = "DATA"
    <3>1. f = Frame("DATA", stream_id, job[c].req # "pipelined", 0, 1)
      BY <2>0, <2>2 DEF body_frame
    <3> QED
      BY <1>0, <3>1, Frames DEF Frame
  <2>i. PICK j : j = [pc |-> "send", frame |-> f, own |-> FALSE, done |-> 0,
                      then |-> "end", id |-> f.id, req |-> q]
    OBVIOUS
  <2>j. Begins(c, j) /\ j.pc = "send" /\ ~ j.own /\ j.frame = f /\ j.then = "end" /\ j.done = 0
    BY <2>1, <2>i DEF Send, Begins
  <2>4. /\ OneSender' /\ HalfSent' /\ Numbers' /\ (FrameSent(c)' => Flight')
        /\ Sending(c)' /\ job'[c] = j
        /\ \A d \in Co : d # c => /\ job'[d] = job[d] /\ ~ Sending(d) /\ ~ Sending(d)'
                                  /\ job[d].pc \notin {"connect", "body"}
    BY <2>1, <2>3, <2>j, BeginSend, SameStreams
  <2>5. FrameSent(c)'
    <3>1. Len(wire') - job'[c].done = Len(wire)
      BY <2>1, <2>4, <2>j, SeqElements DEF Http2Types
    <3>2. Opened(stream_id)' /\ BodyNext(stream_id, Len(wire))'
      BY <2>1, <2>2, SameWire
    <3>3. Opened(f.id)' /\ BodyNext(f.id, Len(wire) - j.done)'
      BY <2>1, <2>3, <2>4, <3>1, <3>2 DEF Opened, BodyNext
    <3> QED
      BY <2>1, <2>3, <2>4, <2>j, <3>3 DEF FrameSent
  <2>6. Preface'
    BY <2>1, <2>3, <2>4, <2>j, BeginFrame
  <2> QED
    BY <2>4, <2>5, <2>6 DEF FlowInv
<1>2. CASE send_http_body_frame(c) /\ UNCHANGED <<stack, job, overlap, running>>
  BY <1>2, SameFlow DEF send_http_body_frame, clientVars
<1>3. ASSUME NEW r \in Requests, send_http_header_frame(c, r) PROVE FlowInv'
  <2>0. PICK f : f = header_frame(r)
    OBVIOUS
  <2>1. /\ job[c].pc = "idle" /\ ~ Sending(c) /\ running \in {NoCo, c} /\ sock = "open"
        /\ Send(c, f, FALSE, "body", r) /\ stack' = f
        /\ UNCHANGED <<wire, stream_id, deflater, sock>>
        /\ NoOtherStream
    BY <1>3, <2>0 DEF NoOtherStream, send_http_header_frame, Calls, HasProcessor, Sending
  <2>2. f \in AFrame /\ f.id = stream_id /\ f.type = "HEADERS"
    <3>1. f = Frame("HEADERS", stream_id, r = "bare", deflater, 0)
      BY <2>0 DEF header_frame
    <3>2. deflater \in Nat
      BY DEF Http2Types
    <3> QED
      BY <1>0, <3>1, <3>2, Frames DEF Frame, ServerFrame
  <2>i. PICK j : j = [pc |-> "send", frame |-> f, own |-> FALSE, done |-> 0,
                      then |-> "body", id |-> f.id, req |-> r]
    OBVIOUS
  <2>j. Begins(c, j) /\ j.pc = "send" /\ ~ j.own /\ j.frame = f /\ j.then = "body" /\ j.id = f.id
    BY <2>1, <2>i DEF Send, Begins
  <2>3. /\ OneSender' /\ HalfSent' /\ Numbers' /\ (FrameSent(c)' => Flight')
        /\ Sending(c)' /\ job'[c] = j
        /\ \A d \in Co : d # c => /\ job'[d] = job[d] /\ ~ Sending(d) /\ ~ Sending(d)'
                                  /\ job[d].pc \notin {"connect", "body"}
    BY <2>1, <2>2, <2>j, BeginSend
  <2>4. FrameSent(c)'
    BY <2>1, <2>2, <2>3, <2>j DEF FrameSent
  <2>5. Preface'
    BY <2>1, <2>2, <2>3, <2>j, BeginFrame
  <2> QED
    BY <2>3, <2>4, <2>5 DEF FlowInv
<1> QED
  BY <1>1, <1>2, <1>3 DEF send_http_body_frame

LEMMA FlowWrite ==
    ASSUME Http2Types, FlowInv, NEW c \in Co, ~ overlap',
           NEW id \in Ids, NEW es \in BOOLEAN, write_data(c, id, es)
    PROVE  FlowInv'
<1> DEFINE f == Frame("DATA", id, es, 0, 1)
<1>1. /\ job[c].pc = "idle" /\ ~ Sending(c) /\ running \in {NoCo, c} /\ sock = "open"
      /\ Send(c, f, FALSE, "return", NoReq) /\ stack' = f
      /\ UNCHANGED <<wire, stream_id, deflater, streams, sock>>
  BY DEF write_data, Calls, HasProcessor, Sending, clientVars
<1>2. /\ id \in DOMAIN streams /\ id \in Nat /\ id < stream_id
      /\ \A i \in WholeFrames : wire[i].frame.id = id => ~ wire[i].frame.es
  BY DEF write_data, Writable, FramesOf, Http2Types
<1>3. f \in AFrame /\ f.id = id /\ f.type = "DATA"
  BY <1>2, Frames DEF Frame
<1> HIDE DEF f
<1>4. Opened(id) /\ ~ Closed(id)
  BY <1>2 DEF FlowInv, Numbers, Closed
<1>i. PICK j : j = [pc |-> "send", frame |-> f, own |-> FALSE, done |-> 0,
                    then |-> "return", id |-> f.id, req |-> NoReq]
  OBVIOUS
<1>j. Begins(c, j) /\ j.pc = "send" /\ ~ j.own /\ j.frame = f /\ j.then = "return"
  BY <1>1, <1>i DEF Send, Begins
<1>5. /\ OneSender' /\ HalfSent' /\ Numbers' /\ (FrameSent(c)' => Flight')
      /\ Sending(c)' /\ job'[c] = j
      /\ \A d \in Co : d # c => /\ job'[d] = job[d] /\ ~ Sending(d) /\ ~ Sending(d)'
                                /\ job[d].pc \notin {"connect", "body"}
  BY <1>1, <1>3, <1>j, BeginSend, SameStreams
<1>6. FrameSent(c)'
  BY <1>1, <1>2, <1>3, <1>4, <1>5, <1>j, SameWire DEF FrameSent
<1>7. Preface'
  BY <1>1, <1>3, <1>5, <1>j, BeginFrame
<1> QED
  BY <1>5, <1>6, <1>7 DEF FlowInv

LEMMA FlowRecv ==
    ASSUME Http2Types, FlowInv, NEW c \in Co, ~ overlap', exact',
           recv_reponse(c) \/ recv_waits(c) \/ recv_frame(c) \/ recv_payload(c) \/ recv_fails(c)
    PROVE  FlowInv'
<1>0. job \in [Co -> Job] /\ rx \in Seq(ServerFrame)
  BY DEF Http2Types
<1>1. CASE recv_reponse(c)
  <2>1. /\ job[c].pc = "idle" /\ running \in {NoCo, c} /\ c = Receiver /\ sock = "open"
        /\ UNCHANGED <<wire, stream_id, deflater, stack, streams, sock>>
        /\ job' = [job EXCEPT ![c] = [pc |-> "recv"]]
    BY <1>1 DEF recv_reponse, Calls, HasProcessor, clientVars, histVars
  <2>2. /\ job' \in [Co -> Job] /\ job'[c].pc = "recv"
        /\ \A d \in Co : d # c => job'[d] = job[d]
    BY <1>0, <2>1 DEF Job
  <2> QED
    BY <2>1, <2>2, QuietStep
<1>2. ASSUME job[c].pc \in {"recv", "payload"} PROVE sock = "open" /\ ~ Sending(c)
  BY <1>2 DEF FlowInv, Preface, Sending
<1>3. CASE recv_waits(c) \/ recv_frame(c)
  <2>1. /\ job[c].pc \in {"recv", "payload"} /\ running \in {NoCo, c}
        /\ UNCHANGED <<wire, stream_id, deflater, stack, streams, sock>>
        /\ job' = job \/ job' = [job EXCEPT ![c] = [pc |-> "payload"]]
    BY <1>3 DEF recv_waits, recv_frame, HasProcessor, clientVars, histVars
  <2>2. /\ job' \in [Co -> Job] /\ job'[c].pc \in {"recv", "payload"}
        /\ \A d \in Co : d # c => job'[d] = job[d]
    BY <1>0, <2>1 DEF Job
  <2> QED
    BY <1>2, <2>1, <2>2, QuietStep
<1>5. CASE recv_fails(c)
  <2>1. exact' = FALSE
    BY <1>5 DEF recv_fails
  <2> QED
    BY <2>1
<1>4. CASE recv_payload(c)
  <2>0. PICK f : f = Head(rx)
    OBVIOUS
  <2>1. /\ job[c].pc = "payload" /\ running \in {NoCo, c} /\ rx # << >> /\ parse_frame(c, f)
        /\ UNCHANGED <<wire, stream_id, stack, sock>>
    BY <1>4, <2>0 DEF recv_payload, HasProcessor
  <2>2. f \in ServerFrame
    BY <1>0, <2>0, <2>1
  <2>3. sock = "open" /\ ~ Sending(c)
    BY <1>2, <2>1
  <2>4. CASE f.type \in {"SETTINGS", "SETTINGS_ACK"}
    <3>0. PICK g : g = Ack(f)
      OBVIOUS
    <3>1. Send(c, g, TRUE, "recv", NoReq) /\ UNCHANGED streams
      BY <2>1, <2>4, <3>0 DEF parse_frame, parse_setting_frame, Skipped
    <3>2. g.type = "SETTINGS_ACK" /\ g.id = 0
      BY <2>2, <2>4, <3>0 DEF Ack, Frame, ServerFrame
    <3>i. PICK j : j = [pc |-> "send", frame |-> g, own |-> TRUE, done |-> 0,
                        then |-> "recv", id |-> g.id, req |-> NoReq]
      OBVIOUS
    <3>j. Begins(c, j) /\ j.pc = "send" /\ j.own /\ j.frame = g /\ j.then = "recv"
      BY <3>1, <3>i DEF Send, Begins
    <3>4. /\ OneSender' /\ HalfSent' /\ Numbers' /\ (FrameSent(c)' => Flight')
          /\ Sending(c)' /\ job'[c] = j
          /\ \A d \in Co : d # c => /\ job'[d] = job[d] /\ ~ Sending(d) /\ ~ Sending(d)'
                                    /\ job[d].pc \notin {"connect", "body"}
      BY <2>1, <2>3, <3>1, <3>j, BeginSend, SameStreams
    <3>5. FrameSent(c)'
      BY <3>2, <3>4, <3>j DEF FrameSent
    <3>6. Preface'
      BY <2>1, <2>3, <3>2, <3>4, <3>j, BeginFrame
    <3> QED
      BY <3>4, <3>5, <3>6 DEF FlowInv
  <2>5. CASE f.type \notin {"SETTINGS", "SETTINGS_ACK"}
    <3>1. /\ UNCHANGED deflater /\ DOMAIN streams' = DOMAIN streams
          /\ \/ job' = job \/ job' = [job EXCEPT ![c] = Idle]
             \/ job' = [job EXCEPT ![c] = [pc |-> "recv"]]
      BY <2>1, <2>5 DEF parse_frame, parse_stream_frame, Kill, NextFrame
    <3>2. /\ job' \in [Co -> Job] /\ \A d \in Co : d # c => job'[d] = job[d]
          /\ job'[c].pc \in {"idle", "recv", "payload"}
      BY <1>0, <2>1, <3>1 DEF Idle, Job
    <3> QED
      BY <2>1, <2>3, <3>1, <3>2, QuietStep
  <2> QED
    BY <2>4, <2>5
<1> QED
  BY <1>1, <1>3, <1>4, <1>5

-----------------------------------------------------------------------------
(* send_all *)

\* The kernel takes half of the frame and the coroutine is parked.
Parks(c) ==
    /\ job[c].done = 0 /\ job' = [job EXCEPT ![c].done = 1] /\ running' = NoCo
    /\ Len(wire) % 2 = 0 /\ Len(wire') = Len(wire) + 1
    /\ wire'[Len(wire')] = [frame |-> job[c].frame, part |-> 1]
    /\ stream_id' = stream_id

\* The frame is on the wire and the call returns.
Finishes(c) ==
    /\ job' = [job EXCEPT ![c] = After(c)]
    /\ running' = IF After(c).pc = "idle" THEN NoCo ELSE c
    /\ stream_id' = Advance(c)
    /\ Len(wire') = Len(wire) + 2 - job[c].done /\ Len(wire') % 2 = 0
    /\ wire'[Len(wire') - 1] = [frame |-> job[c].frame, part |-> 1]
    /\ wire'[Len(wire')] = [frame |-> job[c].frame, part |-> 2]

\* Pieces of the first kind are at odd positions, of the second at even ones.
LEMMA Parity ==
    ASSUME Http2Types, Framed, NEW i \in 1 .. Len(wire)
    PROVE  (wire[i].part = 1 <=> i % 2 = 1) /\ (wire[i].part = 2 <=> i % 2 = 0)
<1>0. Len(wire) \in Nat /\ \A k \in 1 .. Len(wire) : wire[k] \in [frame : AFrame, part : {1, 2}]
  BY SeqElements DEF Http2Types
<1>1. ASSUME wire[i].part = 2 PROVE i % 2 = 0
  <2>1. i > 1 /\ wire[i - 1] = [frame |-> wire[i].frame, part |-> 1]
    BY <1>1 DEF Framed
  <2>2. i - 1 \in 1 .. Len(wire) /\ wire[i - 1].part = 1
    BY <1>0, <2>1
  <2>3. (i - 1) % 2 = 1
    BY <1>0, <2>2 DEF Framed
  <2> QED
    BY <1>0, <2>3
<1>2. ASSUME wire[i].part = 1 PROVE i % 2 = 1
  BY <1>0, <1>2 DEF Framed
<1>3. wire[i].part \in {1, 2}
  BY <1>0
<1> QED
  BY <1>1, <1>2, <1>3

LEMMA EvenOdd ==
    \A n \in Nat : /\ n % 2 = 1 => (n + 1) % 2 = 0
                   /\ n % 2 = 0 => (n + 1) % 2 = 1 /\ (n + 2) % 2 = 0
                   /\ n % 2 = 0 /\ n > 0 => n > 1 /\ (n - 1) % 2 = 1
OBVIOUS

LEMMA WireGrows ==
    ASSUME Http2Types, FlowInv, WireInv, NEW c \in Co, send_all(c), exact, ~ overlap'
    PROVE  /\ Parks(c) \/ Finishes(c)
           /\ \A i \in 1 .. Len(wire) : wire'[i] = wire[i]
<1>1. job[c] \in SendJob /\ Sending(c) /\ job \in [Co -> Job]
  BY JobCases DEF Http2Types, send_all
<1>2. PICK n \in job[c].done + 1 .. 2 :
          /\ wire' = IF exact THEN wire \o Pieces(c, Left(c), n) ELSE wire
          /\ IF n < 2 /\ CanWait(c)
             THEN /\ job' = [job EXCEPT ![c].done = n]
                  /\ running' = NoCo
                  /\ UNCHANGED <<stream_id, overlap>>
             ELSE /\ job' = [job EXCEPT ![c] = After(c)]
                  /\ stream_id' = Advance(c)
                  /\ running' = IF After(c).pc = "idle" THEN NoCo ELSE c
                  /\ overlap' = (overlap \/ n < 2)
  BY DEF send_all
<1>3. job[c].done \in {0, 1} /\ n \in {1, 2} /\ (n = 1 => job[c].done = 0)
  BY <1>1, <1>2 DEF SendJob
<1>p. PICK p : p = Pieces(c, Left(c), n)
  OBVIOUS
<1>4. /\ p \in Seq([frame : AFrame, part : {1, 2}]) /\ Len(p) = n - job[c].done
      /\ \A i \in 1 .. n - job[c].done : p[i] = [frame |-> job[c].frame, part |-> job[c].done + i]
  <2>1. (IF job[c].own THEN job[c].frame ELSE stack) = job[c].frame
    BY <1>1 DEF FlowInv, OneSender
  <2>2. /\ Pieces(c, Left(c), n) \in Seq([frame : AFrame, part : {1, 2}])
        /\ Len(Pieces(c, Left(c), n)) = n - job[c].done
        /\ \A i \in 1 .. n - job[c].done : Pieces(c, Left(c), n)[i] =
              [frame |-> IF job[c].own THEN job[c].frame ELSE stack,
               part |-> job[c].done + i]
    BY <1>1, PiecesType
  <2> QED
    BY <1>p, <2>1, <2>2
<1>5. /\ wire \in Seq([frame : AFrame, part : {1, 2}]) /\ wire' = wire \o p
      /\ Len(wire) \in Nat
  BY <1>2, <1>p DEF Http2Types
<1>6. /\ Len(wire') = Len(wire) + Len(p)
      /\ \A i \in 1 .. Len(wire) : wire'[i] = wire[i]
      /\ \A i \in 1 .. Len(p) : wire'[Len(wire) + i] = p[i]
  BY <1>4, <1>5
<1>7. CASE n < 2 /\ CanWait(c)
  <2>1. n = 1 /\ job[c].done = 0 /\ Len(p) = 1
    BY <1>3, <1>4, <1>7
  <2>2. Len(wire) % 2 = 0
    BY <1>1, <2>1 DEF FlowInv, HalfSent, OneSender
  <2>3. Len(wire') = Len(wire) + 1 /\ wire'[Len(wire')] = [frame |-> job[c].frame, part |-> 1]
    BY <1>4, <1>5, <1>6, <2>1
  <2> QED
    BY <1>2, <1>6, <1>7, <2>1, <2>2, <2>3 DEF Parks
<1>8. CASE ~ (n < 2 /\ CanWait(c))
  <2>0. overlap' = (overlap \/ n < 2)
    BY <1>2, <1>8
  <2>4. ~ (n < 2)
    BY <2>0, Zenon
  <2>1. n = 2
    BY <1>3, <2>4
  <2>2. CASE job[c].done = 0
    <3>1. Len(wire) % 2 = 0
      BY <1>1, <2>2 DEF FlowInv, HalfSent, OneSender
    <3>2. /\ Len(p) = 2 /\ p[1] = [frame |-> job[c].frame, part |-> 1]
          /\ p[2] = [frame |-> job[c].frame, part |-> 2]
      BY <1>4, <2>1, <2>2
    <3>3. /\ Len(wire') = Len(wire) + 2
          /\ wire'[Len(wire) + 1] = [frame |-> job[c].frame, part |-> 1]
          /\ wire'[Len(wire) + 2] = [frame |-> job[c].frame, part |-> 2]
      BY <1>6, <3>2
    <3>4. Len(wire') = Len(wire) + 2 - job[c].done /\ Len(wire') % 2 = 0
      BY <1>5, <2>2, <3>1, <3>3, EvenOdd
    <3>5. Len(wire') - 1 = Len(wire) + 1
      BY <1>5, <3>3
    <3> QED
      BY <1>2, <1>6, <1>8, <3>3, <3>4, <3>5 DEF Finishes
  <2>3. CASE job[c].done = 1
    <3>1. Len(wire) % 2 = 1 /\ wire[Len(wire)].frame = job[c].frame
      BY <1>1, <2>3 DEF FlowInv, HalfSent
    <3>2. Len(wire) \in 1 .. Len(wire)
      BY <1>5, <3>1
    <3>3. wire[Len(wire)] = [frame |-> job[c].frame, part |-> 1]
      <4>1. wire[Len(wire)].part = 1
        BY <3>1, <3>2, Parity DEF WireInv
      <4>2. wire[Len(wire)] \in [frame : AFrame, part : {1, 2}]
        BY <1>5, <3>2, SeqElements
      <4> QED
        BY <3>1, <4>1, <4>2
    <3>4. Len(p) = 1 /\ p[1] = [frame |-> job[c].frame, part |-> 2]
      BY <1>4, <2>1, <2>3
    <3>5. /\ Len(wire') = Len(wire) + 1
          /\ wire'[Len(wire)] = [frame |-> job[c].frame, part |-> 1]
          /\ wire'[Len(wire) + 1] = [frame |-> job[c].frame, part |-> 2]
      BY <1>6, <3>2, <3>3, <3>4
    <3>6. Len(wire') = Len(wire) + 2 - job[c].done /\ Len(wire') % 2 = 0
      BY <1>5, <2>3, <3>1, <3>5, EvenOdd
    <3>7. Len(wire') - 1 = Len(wire)
      BY <1>5, <3>5
    <3> QED
      BY <1>2, <1>6, <1>8, <3>5, <3>6, <3>7 DEF Finishes
  <2> QED
    BY <1>3, <2>2, <2>3
<1> QED
  BY <1>7, <1>8

\* Half a frame more changes none of what is said about whole frames.
LEMMA ParkWire ==
    ASSUME Http2Types, WireInv, NEW c \in Co, Parks(c),
           \A i \in 1 .. Len(wire) : wire'[i] = wire[i]
    PROVE  /\ WholeFrames' = WholeFrames /\ WireInv'
           /\ \A i \in WholeFrames : wire'[i] = wire[i]
           /\ \A id : (Opened(id)' <=> Opened(id)) /\ (Closed(id)' <=> Closed(id))
           /\ \A id, n : BodyNext(id, n)' <=> BodyNext(id, n)
<1>0. Len(wire) \in Nat
  BY SeqElements DEF Http2Types
<1>1. \A i : i \in 1 .. Len(wire') <=> i \in 1 .. Len(wire) \/ i = Len(wire')
  BY <1>0 DEF Parks
<1>2. wire'[Len(wire')].part = 1 /\ Len(wire') % 2 = 1
  BY <1>0, EvenOdd DEF Parks
<1>3. WholeFrames' = WholeFrames
  BY <1>1, <1>2 DEF WholeFrames
<1>4. \A i \in WholeFrames : wire'[i] = wire[i]
  BY DEF WholeFrames
<1>6. /\ \A id : (Opened(id)' <=> Opened(id)) /\ (Closed(id)' <=> Closed(id))
      /\ \A id, n : BodyNext(id, n)' <=> BodyNext(id, n)
  BY <1>3, <1>4 DEF Opened, Closed, BodyNext
<1>7. Framed'
  <2>1. ASSUME NEW i \in 1 .. Len(wire)
        PROVE  \/ wire'[i].part = 1 /\ i % 2 = 1
               \/ wire'[i].part = 2 /\ i > 1 /\ wire'[i - 1] = [frame |-> wire'[i].frame, part |-> 1]
    <3>1. i > 1 => i - 1 \in 1 .. Len(wire)
      BY <1>0
    <3> QED
      BY <3>1 DEF WireInv, Framed
  <2> QED
    BY <1>1, <1>2, <2>1 DEF Framed
<1>8. Introduced' /\ Ordered' /\ HeadersFirst'
  <2>2. Introduced' /\ HeadersFirst'
    BY <1>3, <1>4 DEF WireInv, Introduced, HeadersFirst
  <2>3. Ordered'
    BY <1>3, <1>4 DEF WireInv, Ordered
  <2> QED
    BY <2>2, <2>3
<1> QED
  BY <1>3, <1>4, <1>6, <1>7, <1>8 DEF WireInv

\* A coroutine that sends is sending the preface or comes after it.
Connecting(c) ==
    /\ sock = "open" /\ c = Receiver /\ job[c].own
    /\ \A d \in Co \ {Receiver} : job[d].pc = "idle"
    /\ \/ job[c].then = "settings" /\ job[c].frame = Pri /\ Len(wire) = job[c].done
       \/ job[c].then = "return" /\ job[c].frame = Settings(Default)
          /\ Len(wire) = 2 + job[c].done
Connected ==
    /\ sock = "open" /\ Len(wire) >= 4
    /\ \A d \in Co : job[d].pc # "connect"
    /\ \A d \in Co : Sending(d) => job[d].frame.type \notin {"PRI", "SETTINGS"}
                                   /\ job[d].then # "settings"

LEMMA PrefaceSender ==
    ASSUME Preface, NEW c \in Co, Sending(c)
    PROVE  Connecting(c) \/ Connected
<1>1. Receiver \in Co /\ job[c].pc = "send"
  BY Http2Constants DEF Sending
<1>2. CASE sock = "open" /\ \A d \in Co \ {Receiver} : job[d].pc = "idle"
  <2>1. c = Receiver
    BY <1>1, <1>2
  <2> QED
    BY <1>1, <1>2, <2>1 DEF Preface, Connecting, Connected
<1>3. CASE Connected
  BY <1>3
<1> QED
  BY <1>1, <1>2, <1>3 DEF Preface, Connected

LEMMA FlowPark ==
    ASSUME Http2Types, FlowInv, WireInv, NEW c \in Co, send_all(c), Parks(c),
           \A i \in 1 .. Len(wire) : wire'[i] = wire[i]
    PROVE  FlowInv'
<1>0. Len(wire) \in Nat /\ job[c] \in SendJob /\ job \in [Co -> Job]
  BY SeqElements, JobCases DEF Http2Types, send_all
<1>1. /\ WholeFrames' = WholeFrames
      /\ \A i \in WholeFrames : wire'[i] = wire[i]
      /\ \A id : (Opened(id)' <=> Opened(id)) /\ (Closed(id)' <=> Closed(id))
      /\ \A id, n : BodyNext(id, n)' <=> BodyNext(id, n)
  BY ParkWire
<1>2. /\ \A d \in Co : d # c => job'[d] = job[d]
      /\ job'[c].pc = job[c].pc /\ job'[c].frame = job[c].frame /\ job'[c].own = job[c].own
      /\ job'[c].then = job[c].then /\ job'[c].id = job[c].id /\ job'[c].done = 1
  BY <1>0 DEF Parks, SendJob
<1>3. /\ Sending(c) /\ job[c].done = 0 /\ Len(wire') = Len(wire) + 1 /\ Len(wire') % 2 = 1
      /\ wire'[Len(wire')].frame = job[c].frame /\ stream_id' = stream_id
      /\ UNCHANGED <<stack, sock, streams, deflater>>
  <2>1. Sending(c) /\ UNCHANGED <<stack, sock, streams, deflater>>
    BY DEF send_all
  <2> QED
    BY <1>0, <2>1, EvenOdd DEF Parks
<1>4. \A d \in Co : (Sending(d)' <=> Sending(d)) /\ job'[d].pc = job[d].pc
                    /\ job'[d].frame = job[d].frame /\ job'[d].own = job[d].own
                    /\ job'[d].then = job[d].then /\ job'[d].id = job[d].id
  BY <1>2 DEF Sending
<1>5. \A d \in Co : (Sending(d) => d = c) /\ job[d].pc \notin {"connect", "body"}
  BY <1>3 DEF FlowInv, OneSender
<1>6. OneSender'
  BY <1>3, <1>4, <1>5 DEF FlowInv, OneSender
<1>7. HalfSent'
  BY <1>2, <1>3, <1>4, <1>5 DEF HalfSent
<1>8. Preface'
  <2>1. CASE Connecting(c)
    <3>1. /\ sock = "open" /\ c = Receiver /\ \A d \in Co \ {Receiver} : job[d].pc = "idle"
          /\ job[c].own
          /\ \/ job[c].then = "settings" /\ job[c].frame = Pri /\ Len(wire) = 0
             \/ job[c].then = "return" /\ job[c].frame = Settings(Default) /\ Len(wire) = 2
      BY <1>3, <2>1 DEF Connecting
    <3>2. /\ sock' = "open" /\ Sending(Receiver)'
          /\ \A d \in Co \ {Receiver} : job'[d].pc = "idle"
          /\ job'[Receiver].own /\ job'[Receiver].done = 1
      BY <1>2, <1>3, <1>4, <3>1 DEF Sending
    <3>3. \/ /\ job'[Receiver].then = "settings" /\ job'[Receiver].frame = Pri
             /\ Len(wire') = job'[Receiver].done
          \/ /\ job'[Receiver].then = "return" /\ job'[Receiver].frame = Settings(Default)
             /\ Len(wire') = 2 + job'[Receiver].done
      <4>1. /\ job'[Receiver].then = job[c].then /\ job'[Receiver].frame = job[c].frame
            /\ job'[Receiver].done = 1
        BY <1>2, <3>1
      <4>2. CASE Len(wire) = 0
        BY <1>3, <3>1, <4>1, <4>2
      <4>3. CASE Len(wire) = 2
        BY <1>3, <3>1, <4>1, <4>3
      <4> QED
        BY <3>1, <4>2, <4>3
    <3> QED
      BY <3>2, <3>3 DEF Preface
  <2>2. CASE Connected
    <3>1. Len(wire') >= 4
      BY <1>0, <1>3, <2>2 DEF Connected
    <3> QED
      BY <1>3, <1>4, <2>2, <3>1 DEF Preface, Connected
  <2> QED
    BY <1>3, <2>1, <2>2, PrefaceSender DEF FlowInv
<1>9. Flight'
  <2>1. Len(wire') - job'[c].done = Len(wire) - job[c].done
    BY <1>0, <1>2, <1>3
  <2>2. ASSUME FrameSent(c) PROVE FrameSent(c)'
    BY <1>1, <1>3, <1>4, <2>1, <2>2 DEF FrameSent
  <2> QED
    BY <1>4, <1>5, <2>2 DEF FlowInv, Flight
<1>10. Numbers'
  <2>1. \A d \in Co : Begun(d) => Begun(d)'
    BY <1>4 DEF Begun
  <2> QED
    BY <1>1, <1>3, <2>1 DEF FlowInv, Numbers
<1> QED
  BY <1>6, <1>7, <1>8, <1>9, <1>10 DEF FlowInv

\* A frame more on the wire.
LEMMA FinishWire ==
    ASSUME Http2Types, WireInv, NEW c \in Co, Sending(c), Finishes(c),
           \A i \in 1 .. Len(wire) : wire'[i] = wire[i]
    PROVE  /\ WholeFrames' = WholeFrames \cup {Len(wire')}
           /\ \A i \in WholeFrames : i \in Nat /\ i < Len(wire') /\ wire'[i] = wire[i]
           /\ Len(wire') \in Nat /\ wire'[Len(wire')].frame = job[c].frame
           /\ Framed'
<1>0. Len(wire) \in Nat /\ job[c].done \in {0, 1}
  BY SeqElements, JobCases DEF Http2Types, SendJob
<1>6. /\ wire'[Len(wire') - 1] = [frame |-> job[c].frame, part |-> 1]
      /\ wire'[Len(wire')] = [frame |-> job[c].frame, part |-> 2]
      /\ Len(wire') = Len(wire) + 2 - job[c].done /\ Len(wire') % 2 = 0
  BY DEF Finishes
<1>7. /\ Len(wire') \in Nat /\ Len(wire') > Len(wire)
      /\ Len(wire') \in {Len(wire) + 1, Len(wire) + 2}
  BY <1>0, <1>6
<1>8. Len(wire') > 1 /\ (Len(wire') - 1) % 2 = 1
  <2>1. PICK n \in Nat : n = Len(wire')
    BY <1>7
  <2>2. n % 2 = 0 /\ n > 0
    BY <1>0, <1>6, <1>7, <2>1
  <2> QED
    BY <2>1, <2>2, EvenOdd
<1>1. /\ Len(wire') \in Nat /\ Len(wire') > Len(wire) /\ Len(wire') > 1
      /\ Len(wire') % 2 = 0 /\ (Len(wire') - 1) % 2 = 1
      /\ wire'[Len(wire') - 1] = [frame |-> job[c].frame, part |-> 1]
      /\ wire'[Len(wire')] = [frame |-> job[c].frame, part |-> 2]
  BY <1>6, <1>7, <1>8
<1>2. \A i : i \in 1 .. Len(wire') <=>
                i \in 1 .. Len(wire) \/ i = Len(wire') - 1 \/ i = Len(wire')
  BY <1>0, <1>7, <1>8
<1>3. WholeFrames' = WholeFrames \cup {Len(wire')}
  BY <1>0, <1>1, <1>2 DEF WholeFrames
<1>4. \A i \in WholeFrames : i \in Nat /\ i < Len(wire') /\ wire'[i] = wire[i]
  BY <1>0, <1>1 DEF WholeFrames
<1>5. Framed'
  <2>1. ASSUME NEW i \in 1 .. Len(wire)
        PROVE  \/ wire'[i].part = 1 /\ i % 2 = 1
               \/ wire'[i].part = 2 /\ i > 1 /\ wire'[i - 1] = [frame |-> wire'[i].frame, part |-> 1]
    <3>1. i > 1 => i - 1 \in 1 .. Len(wire)
      BY <1>0
    <3> QED
      BY <3>1 DEF WireInv, Framed
  <2>2. \A i \in {Len(wire') - 1, Len(wire')} :
           \/ wire'[i].part = 1 /\ i % 2 = 1
           \/ wire'[i].part = 2 /\ i > 1 /\ wire'[i - 1] = [frame |-> wire'[i].frame, part |-> 1]
    BY <1>1
  <2> QED
    <3>1. SUFFICES ASSUME NEW i \in 1 .. Len(wire')
                   PROVE  \/ wire'[i].part = 1 /\ i % 2 = 1
                          \/ /\ wire'[i].part = 2 /\ i > 1
                             /\ wire'[i - 1] = [frame |-> wire'[i].frame, part |-> 1]
      BY DEF Framed
    <3>2. i \in 1 .. Len(wire) \/ i \in {Len(wire') - 1, Len(wire')}
      BY <1>2
    <3> QED
      BY <2>1, <2>2, <3>2
<1> QED
  BY <1>1, <1>3, <1>4, <1>5

\* No frame of the stream of a request whose HEADERS are being sent is there
\* yet, and no other coroutine is in a request.
LEMMA SenderAlone ==
    ASSUME FlowInv, NEW c \in Co, Sending(c)
    PROVE  /\ \A d \in Co : d # c => ~ Sending(d) /\ job[d].pc \notin {"connect", "body"}
           /\ job[c].then # "end" => \A i \in WholeFrames : wire[i].frame.id # stream_id
           /\ FrameSent(c)
<1>1. \A d \in Co : d # c => ~ Sending(d) /\ job[d].pc \notin {"connect", "body"}
  BY DEF FlowInv, OneSender
<1>2. job[c].then # "end" => \A d \in Co : ~ Begun(d)
  BY <1>1 DEF Begun, Sending
<1>3. job[c].then # "end" => \A i \in WholeFrames : wire[i].frame.id # stream_id
  BY <1>2 DEF FlowInv, Numbers
<1> QED
  BY <1>1, <1>3 DEF FlowInv, Flight

\* What FrameSent says of the frame.
LEMMA SentFrame ==
    ASSUME Http2Types, FlowInv, NEW c \in Co, Sending(c)
    PROVE  /\ job[c].frame \in AFrame /\ job[c].frame.id <= stream_id
           /\ job[c].frame.type = "HEADERS" <=> job[c].then = "body"
           /\ job[c].then = "body" =>
                 job[c].frame.id = stream_id /\ job[c].id = stream_id
           /\ job[c].frame.id = stream_id <=> job[c].then \in {"body", "end"}
           /\ job[c].frame.type = "DATA" => Opened(job[c].frame.id)
           /\ job[c].then = "end" =>
                 /\ job[c].frame.type = "DATA" /\ Opened(stream_id)
                 /\ BodyNext(stream_id, Len(wire) - job[c].done)
           /\ job[c].frame.id # 0 /\ job[c].then \notin {"body", "end"}
                 => ~ Closed(job[c].frame.id)
<1>1. FrameSent(c) /\ job[c] \in SendJob /\ stream_id \in Nat \ {0}
  BY SenderAlone, JobCases DEF Http2Types
<1>2. job[c].frame \in AFrame /\ job[c].frame.id \in Nat
  BY <1>1 DEF SendJob, AFrame
<1>3. /\ Pri.id = 0 /\ Pri.type = "PRI"
      /\ Settings(Default).id = 0 /\ Settings(Default).type = "SETTINGS"
  BY DEF Pri, Settings, Frame
<1> QED
  BY <1>1, <1>2, <1>3 DEF FrameSent

LEMMA WireIds ==
    ASSUME Http2Types
    PROVE  \A i \in WholeFrames : wire[i].frame.id \in Nat
<1>1. \A i \in 1 .. Len(wire) : wire[i] \in [frame : AFrame, part : {1, 2}]
  BY SeqElements DEF Http2Types
<1>2. \A i \in 1 .. Len(wire) : wire[i].frame \in AFrame
  BY <1>1
<1> QED
  BY <1>2 DEF WholeFrames, AFrame

LEMMA WireFinish ==
    ASSUME Http2Types, FlowInv, WireInv, NEW c \in Co, Sending(c), Finishes(c),
           \A i \in 1 .. Len(wire) : wire'[i] = wire[i]
    PROVE  WireInv'
<1>n. PICK n, f : n = Len(wire') /\ f = job[c].frame
  OBVIOUS
<1>1. /\ WholeFrames' = WholeFrames \cup {n} /\ n \in Nat /\ wire'[n].frame = f
      /\ \A i \in WholeFrames : i \in Nat /\ i < n /\ wire'[i] = wire[i]
      /\ Framed'
  BY <1>n, FinishWire
<1>2. /\ f \in AFrame /\ (f.type = "HEADERS" <=> job[c].then = "body")
      /\ job[c].then = "body" => f.id = stream_id
      /\ f.id = stream_id <=> job[c].then \in {"body", "end"}
      /\ f.type = "DATA" => Opened(f.id)
      /\ job[c].then = "end" => f.type = "DATA" /\ BodyNext(stream_id, Len(wire) - job[c].done)
      /\ f.id # 0 /\ job[c].then \notin {"body", "end"} => ~ Closed(f.id)
  BY <1>n, SentFrame
<1>3. job[c].then = "body" => \A i \in WholeFrames : wire[i].frame.id # stream_id
  BY SenderAlone
<1>4. Introduced'
  <2>1. n <= 4 => f = IF n <= 2 THEN Pri ELSE Settings(Default)
    <3>0. /\ Len(wire) \in Nat /\ job[c].done \in {0, 1}
          /\ n = Len(wire) + 2 - job[c].done
      BY <1>n, SeqElements, JobCases DEF Http2Types, SendJob, Finishes
    <3>1. CASE Connecting(c)
      BY <1>n, <3>0, <3>1 DEF Connecting
    <3>2. CASE Connected
      BY <3>0, <3>2 DEF Connected
    <3> QED
      BY <3>1, <3>2, PrefaceSender DEF FlowInv
  <2> QED
    BY <1>1, <2>1 DEF WireInv, Introduced
<1>5. Ordered'
  <2>1. stream_id \in Nat /\ \A i \in WholeFrames : wire[i].frame.id <= stream_id
    BY DEF FlowInv, Numbers, Http2Types
  <2>2. \A i \in WholeFrames : wire[i].frame.id \in Nat
    BY WireIds
  <2>3. ASSUME NEW i \in WholeFrames
        PROVE  /\ f.type = "HEADERS" => wire[i].frame.id < f.id
               /\ wire[i].frame.id = f.id /\ f.id # 0 /\ wire[i].frame.es
                     => wire[i].frame.type = "HEADERS" /\ f.type = "DATA" /\ n = i + 2
    <3>1. f.type = "HEADERS" => wire[i].frame.id < f.id
      BY <1>2, <1>3, <2>1, <2>2, <2>3
    <3>2. ASSUME wire[i].frame.id = f.id, f.id # 0, wire[i].frame.es
          PROVE  wire[i].frame.type = "HEADERS" /\ f.type = "DATA" /\ n = i + 2
      <4>1. Closed(f.id)
        BY <2>3, <3>2 DEF Closed
      <4>2. job[c].then = "end" /\ f.id = stream_id
        BY <1>2, <1>3, <2>3, <3>2, <4>1
      <4>3. wire[i].frame.type = "HEADERS" /\ i = Len(wire) - job[c].done /\ f.type = "DATA"
        BY <1>2, <2>3, <3>2, <4>2 DEF BodyNext
      <4>4. /\ Len(wire) \in Nat /\ job[c].done \in {0, 1}
            /\ n = Len(wire) + 2 - job[c].done
        BY <1>n, SeqElements, JobCases DEF Http2Types, SendJob, Finishes
      <4> QED
        BY <4>3, <4>4
    <3> QED
      BY <3>1, <3>2
  <2>4. SUFFICES ASSUME NEW i \in WholeFrames', NEW j \in WholeFrames', i < j
                 PROVE  /\ wire'[i].frame.type = "HEADERS" /\ wire'[j].frame.type = "HEADERS"
                              => wire'[i].frame.id < wire'[j].frame.id
                        /\ wire'[i].frame.id = wire'[j].frame.id /\ wire'[i].frame.id # 0
                           /\ wire'[i].frame.es
                              => wire'[i].frame.type = "HEADERS" /\ wire'[j].frame.type = "DATA"
                                 /\ j = i + 2
    BY DEF Ordered
  <2>5. i \in WholeFrames
    BY <1>1, <2>4
  <2>6. CASE j \in WholeFrames
    BY <1>1, <2>4, <2>5, <2>6 DEF WireInv, Ordered
  <2>7. CASE j = n
    BY <1>1, <2>3, <2>5, <2>7
  <2> QED
    BY <1>1, <2>4, <2>6, <2>7
<1>6. HeadersFirst'
  BY <1>1, <1>2 DEF WireInv, HeadersFirst, Opened
<1> QED
  BY <1>1, <1>4, <1>5, <1>6 DEF WireInv

LEMMA FlowFinish ==
    ASSUME Http2Types, FlowInv, WireInv, NEW c \in Co, send_all(c), Finishes(c),
           \A i \in 1 .. Len(wire) : wire'[i] = wire[i]
    PROVE  FlowInv'
<1>n. PICK n, f, g : n = Len(wire') /\ f = job[c].frame /\ g = After(c)
  OBVIOUS
<1>0. /\ Sending(c) /\ job[c] \in SendJob /\ job \in [Co -> Job] /\ stream_id \in Nat \ {0}
      /\ UNCHANGED <<sock, streams, deflater, stack>>
  BY JobCases DEF Http2Types, send_all
<1>1. /\ WholeFrames' = WholeFrames \cup {n} /\ n \in Nat /\ wire'[n].frame = f
      /\ \A i \in WholeFrames : i \in Nat /\ i < n /\ wire'[i] = wire[i]
  BY <1>0, <1>n, FinishWire
<1>2. /\ f \in AFrame /\ (f.type = "HEADERS" <=> job[c].then = "body") /\ f.id <= stream_id
      /\ job[c].then = "body" =>
            f.id = stream_id /\ job[c].id = stream_id
      /\ f.id = stream_id <=> job[c].then \in {"body", "end"}
      /\ job[c].then = "end" => Opened(stream_id)
  BY <1>0, <1>n, SentFrame
<1>3. /\ \A d \in Co : d # c => ~ Sending(d) /\ job[d].pc \notin {"connect", "body"}
      /\ job[c].then # "end" => \A i \in WholeFrames : wire[i].frame.id # stream_id
  BY <1>0, SenderAlone
<1>4. /\ job'[c] = g /\ \A d \in Co : d # c => job'[d] = job[d]
      /\ n % 2 = 0 /\ n = Len(wire) + 2 - job[c].done
      /\ running' = IF g.pc = "idle" THEN NoCo ELSE c
      /\ stream_id' = IF job[c].then = "end" THEN stream_id + 2 ELSE stream_id
  BY <1>0, <1>n DEF Finishes, Advance
<1>5. /\ g.pc \in {"connect", "body", "recv", "idle"}
      /\ g.pc = "connect" <=> job[c].then = "settings"
      /\ g.pc = "body" <=> job[c].then = "body"
      /\ g.pc = "body" => g.id = job[c].id
  BY <1>n DEF After, Idle
<1>6. \A d \in Co : ~ Sending(d)'
  BY <1>3, <1>4, <1>5 DEF Sending
<1>7. OneSender'
  BY <1>3, <1>4, <1>5, <1>6 DEF OneSender
<1>8. HalfSent'
  BY <1>n, <1>4, <1>6 DEF HalfSent
<1>9. Preface'
  <2>0. Len(wire) \in Nat /\ job[c].done \in {0, 1}
    BY <1>0, SeqElements DEF Http2Types, SendJob
  <2>4. job[c].then # "settings" => \A d \in Co : job'[d].pc # "connect"
    BY <1>3, <1>4, <1>5
  <2>1. CASE Connecting(c) /\ job[c].then = "settings"
    <3>1. n = 2 /\ c = Receiver /\ sock' = "open" /\ g.pc = "connect"
      BY <1>0, <1>4, <1>5, <2>0, <2>1 DEF Connecting
    <3>2. \A d \in Co \ {Receiver} : job'[d].pc = "idle"
      BY <1>4, <2>1, <3>1 DEF Connecting
    <3> QED
      BY <1>n, <1>4, <3>1, <3>2 DEF Preface
  <2>2. CASE Connecting(c) /\ job[c].then # "settings"
    <3>1. n = 4 /\ sock' = "open"
      BY <1>0, <1>4, <2>0, <2>2 DEF Connecting
    <3> QED
      BY <1>n, <1>6, <2>2, <2>4, <3>1 DEF Preface
  <2>3. CASE Connected
    <3>1. n >= 4 /\ sock' = "open"
      BY <1>0, <1>4, <2>0, <2>3 DEF Connected
    <3>2. job[c].then # "settings"
      BY <1>0, <2>3 DEF Connected
    <3> QED
      BY <1>n, <1>6, <2>4, <3>1, <3>2 DEF Preface
  <2> QED
    BY <1>0, <2>1, <2>2, <2>3, PrefaceSender DEF FlowInv
<1>10. Flight'
  <2>1. ASSUME g.pc = "body"
        PROVE  g.id = stream_id' /\ Opened(stream_id)' /\ BodyNext(stream_id, Len(wire))'
    <3>1. /\ f.id = stream_id /\ f.type = "HEADERS"
          /\ g.id = stream_id /\ stream_id' = stream_id
      BY <1>2, <1>4, <1>5, <2>1
    <3>2. Opened(stream_id)'
      BY <1>1, <3>1 DEF Opened
    <3>3. BodyNext(stream_id, Len(wire))'
      BY <1>n, <1>1, <1>3, <1>5, <2>1, <3>1 DEF BodyNext
    <3> QED
      BY <3>1, <3>2, <3>3
  <2> QED
    BY <1>3, <1>4, <1>6, <2>1 DEF Flight
<1>11. Numbers'
  <2>1. /\ \A i \in WholeFrames : wire[i].frame.id <= stream_id
        /\ \A id \in DOMAIN streams : id \in Nat /\ id <= stream_id
        /\ \A id \in DOMAIN streams : id < stream_id => Opened(id)
    BY DEF FlowInv, Numbers, Http2Types
  <2>2. \A i \in WholeFrames : wire[i].frame.id \in Nat
    BY WireIds
  <2>3. f.id \in Nat
    BY <1>2 DEF AFrame
  <2>4. \A i \in WholeFrames' : wire'[i].frame.id <= stream_id'
    <3>1. \A k \in Nat : k <= stream_id => k <= stream_id'
      BY <1>0, <1>4
    <3>2. f.id <= stream_id' /\ \A i \in WholeFrames : wire[i].frame.id <= stream_id'
      BY <1>2, <2>1, <2>2, <2>3, <3>1
    <3> QED
      BY <1>1, <3>2
  <2>5. ASSUME NEW i \in WholeFrames', wire'[i].frame.id = stream_id' PROVE Begun(c)'
    <3>1. job[c].then # "end"
      BY <1>0, <1>1, <1>2, <1>4, <2>1, <2>2, <2>3, <2>5
    <3>2. i = n /\ f.id = stream_id
      BY <1>1, <1>3, <1>4, <2>5, <3>1
    <3> QED
      BY <1>2, <1>4, <1>5, <3>1, <3>2 DEF Begun
  <2>6. \A id : Opened(id) => Opened(id)'
    BY <1>1 DEF Opened
  <2>7. \A id \in DOMAIN streams' : id <= stream_id' /\ (id < stream_id' => Opened(id)')
    BY <1>0, <1>2, <1>4, <2>1, <2>6
  <2> QED
    BY <2>4, <2>5, <2>7 DEF Numbers
<1> QED
  BY <1>7, <1>8, <1>9, <1>10, <1>11 DEF FlowInv

-----------------------------------------------------------------------------
(* Every step *)

LEMMA InvInit ==
    ASSUME Http2Init
    PROVE  Http2Inv
<1>1. Http2Types
  BY TypesInit
<1>2. /\ wire = << >> /\ Len(wire) = 0 /\ job = [c \in Co |-> Idle] /\ sock = "null"
      /\ DOMAIN streams = {}
  BY DEF Http2Init
<1>3. WholeFrames = {}
  BY <1>2 DEF WholeFrames
<1>4. \A c \in Co : job[c].pc = "idle" /\ ~ Sending(c)
  BY <1>2 DEF Idle, Sending
<1>5. WireInv
  BY <1>2, <1>3 DEF WireInv, Framed, Introduced, Ordered, HeadersFirst
<1>6. OneSender /\ HalfSent /\ Preface /\ Flight
  BY <1>2, <1>4 DEF OneSender, HalfSent, Preface, Flight
<1>7. Numbers
  BY <1>2, <1>3 DEF Numbers
<1> QED
  BY <1>1, <1>5, <1>6, <1>7 DEF Http2Inv, FlowInv

LEMMA SendKeeps ==
    ASSUME NEW c \in Co, NEW f, NEW own, NEW then, NEW r, Send(c, f, own, then, r), overlap
    PROVE  overlap'
BY Zenon DEF Send

\* Only send_all adds to the wire, and only while the client is in step; what
\* has overlapped or is out of step stays so.
LEMMA Histories ==
    ASSUME Http2Types, [Http2Next]_vars
    PROVE  /\ overlap => overlap'
           /\ exact' => exact
           /\ wire' = wire \/ (exact /\ \E c \in Co : send_all(c))
<1>0. overlap \in BOOLEAN /\ exact \in BOOLEAN
  BY DEF Http2Types
<1>1. ASSUME NEW c \in Co,
             \/ connect(c) \/ connect_settings(c) \/ send_http_body_frame(c) \/ recv_reponse(c)
             \/ recv_waits(c) \/ recv_frame(c)
             \/ \E r \in Requests : send_http_header_frame(c, r)
             \/ \E id \in Ids, es \in BOOLEAN : write_data(c, id, es)
      PROVE  (overlap => overlap') /\ exact' = exact /\ wire' = wire
  <2>1. exact' = exact /\ wire' = wire
    BY <1>1 DEF connect, connect_settings, send_http_body_frame, recv_reponse, recv_waits,
                recv_frame, send_http_header_frame, write_data, histVars
  <2>2. (overlap' <=> overlap) \/ \E f, own, then, r : Send(c, f, own, then, r)
    BY <1>1 DEF connect, connect_settings, send_http_body_frame, recv_reponse, recv_waits,
                recv_frame, send_http_header_frame, write_data, histVars
  <2> QED
    BY <2>1, <2>2, SendKeeps
<1>2. ASSUME NEW c \in Co, send_all(c)
      PROVE  (overlap => overlap') /\ exact' = exact /\ (wire' = wire \/ exact)
  <2>1. exact' = exact /\ (wire' = wire \/ exact)
    BY <1>2 DEF send_all
  <2>2. overlap => overlap'
    BY <1>2 DEF send_all
  <2> QED
    BY <2>1, <2>2
<1>3. ASSUME NEW c \in Co, recv_payload(c) \/ recv_fails(c)
      PROVE  (overlap => overlap') /\ (exact' => exact) /\ wire' = wire
  <2>1. (exact' => exact) /\ wire' = wire
    <3>1. (UNCHANGED exact \/ (exact' = FALSE)) /\ wire' = wire
      BY <1>3 DEF recv_payload, recv_fails
    <3>2. UNCHANGED exact => (exact' <=> exact)
      OBVIOUS
    <3>3. (exact' = FALSE) => ~ exact'
      OBVIOUS
    <3> QED
      BY <3>1, <3>2, <3>3
  <2>2. ASSUME NEW f, parse_frame(c, f) PROVE overlap => overlap'
    <3>1. (overlap' <=> overlap) \/ Send(c, Ack(f), TRUE, "recv", NoReq)
      BY <2>2 DEF parse_frame, parse_setting_frame, parse_stream_frame, Kill, NextFrame
    <3> QED
      BY <3>1, SendKeeps
  <2>3. (\E f : parse_frame(c, f)) \/ (overlap' <=> overlap)
    BY <1>3 DEF recv_payload, recv_fails, Kill
  <2> QED
    BY <2>1, <2>2, <2>3
<1>4. ASSUME ServerOnly \/ UNCHANGED vars PROVE UNCHANGED <<overlap, exact, wire>>
  BY <1>4 DEF ServerOnly, histVars, vars
<1>5. ASSUME \/ \E id \in Ids : server_headers(id) \/ server_data(id)
             \/ server_settings \/ server_closes
      PROVE  ServerOnly
  BY <1>5 DEF server_headers, server_data, server_settings, server_closes
<1> QED
  BY <1>1, <1>2, <1>3, <1>4, <1>5 DEF Http2Next, CoStep

LEMMA InvStep ==
    ASSUME Http2Inv, [Http2Next]_vars
    PROVE  Http2Inv'
<1>0. Http2Types /\ Http2Types'
  BY TypesStep DEF Http2Inv
<1>1. CASE wire' = wire
  <2>1. ~ overlap' => WireInv'
    BY <1>0, <1>1, Histories, SameWire DEF Http2Inv
  <2>2. ASSUME ~ overlap', exact' PROVE FlowInv'
    <3>1. FlowInv /\ exact /\ WireInv
      BY <1>0, <2>2, Histories DEF Http2Inv
    <3>2. ASSUME NEW c \in Co, send_all(c) PROVE FALSE
      <4>1. Parks(c) \/ Finishes(c)
        BY <1>0, <2>2, <3>1, <3>2, WireGrows
      <4>2. Len(wire) \in Nat /\ Sending(c) /\ job[c].done \in {0, 1}
        BY <1>0, <3>2, SeqElements, JobCases DEF Http2Types, SendJob, send_all
      <4>3. Len(wire') # Len(wire)
        BY <4>1, <4>2 DEF Parks, Finishes
      <4> QED
        BY <1>1, <4>3
    <3>3. ASSUME NEW c \in Co,
                 \/ connect(c) \/ connect_settings(c) \/ send_http_body_frame(c)
                 \/ recv_reponse(c) \/ recv_waits(c) \/ recv_frame(c) \/ recv_payload(c)
                 \/ recv_fails(c)
                 \/ \E r \in Requests : send_http_header_frame(c, r)
                 \/ \E id \in Ids, es \in BOOLEAN : write_data(c, id, es)
          PROVE  FlowInv'
      BY <1>0, <2>2, <3>1, <3>3, FlowConnect, FlowRequest, FlowRecv, FlowWrite
    <3>4. ASSUME \/ \E id \in Ids : server_headers(id) \/ server_data(id)
                 \/ server_settings \/ server_closes \/ UNCHANGED vars
          PROVE  FlowInv'
      <4>1. UNCHANGED <<wire, job, running, stream_id, deflater, stack, streams, sock>>
        <5>1. ServerOnly \/ UNCHANGED vars
          BY <3>4 DEF server_headers, server_data, server_settings, server_closes
        <5> QED
          BY <5>1 DEF ServerOnly, vars, clientVars, histVars
      <4> QED
        BY <3>1, <4>1, SameFlow
    <3> QED
      BY <3>2, <3>3, <3>4 DEF Http2Next, CoStep
  <2> QED
    BY <1>0, <2>1, <2>2 DEF Http2Inv
<1>2. ASSUME NEW c \in Co, send_all(c), exact PROVE Http2Inv'
  <2>1. SUFFICES ASSUME ~ overlap' PROVE WireInv' /\ FlowInv'
    BY <1>0 DEF Http2Inv
  <2>2. WireInv /\ FlowInv /\ Sending(c)
    BY <1>0, <1>2, <2>1, Histories DEF Http2Inv, send_all
  <2>3. (Parks(c) \/ Finishes(c)) /\ \A i \in 1 .. Len(wire) : wire'[i] = wire[i]
    BY <1>0, <1>2, <2>1, <2>2, WireGrows
  <2>4. CASE Parks(c)
    BY <1>0, <1>2, <2>2, <2>3, <2>4, ParkWire, FlowPark
  <2>5. CASE Finishes(c)
    BY <1>0, <1>2, <2>2, <2>3, <2>5, WireFinish, FlowFinish
  <2> QED
    BY <2>3, <2>4, <2>5
<1> QED
  BY <1>0, <1>1, <1>2, Histories

-----------------------------------------------------------------------------
(* Theorems *)

\* The invariant: as long as no frame is built while another coroutine is
\* parked in send_all (Client has no lock) and every read was whole, frames
\* are where their senders left them and the wire is what StreamsWellFormed
\* asks for; once a read was short nothing is added.
THEOREM Http2Correct == Http2Spec => []Http2Inv
<1>1. Http2Init => Http2Inv
  BY InvInit
<1>2. Http2Inv /\ [Http2Next]_vars => Http2Inv'
  BY InvStep
<1> QED
  BY <1>1, <1>2, PTL DEF Http2Spec

\* send_http_header_frame, send_http_body_frame and write_data of any number
\* of coroutines that do not overlap, for requests with and without a body,
\* put whole frames on the wire after the preface, with growing ids, HEADERS
\* first and once, and nothing after END_STREAM but the DATA frame that
\* send_request adds to the HEADERS of a request without a body.
THEOREM StreamsCorrect == Http2Spec => []StreamsWellFormed
<1>1. Http2Inv => StreamsWellFormed
  BY DEF Http2Inv, WireInv, StreamsWellFormed, Framed, Introduced, Ordered, HeadersFirst
<1> QED
  BY <1>1, Http2Correct, PTL

-----------------------------------------------------------------------------
(* Header table sizes, also while frames overlap *)

\* A coroutine that has built a frame keeps the processor until the kernel
\* takes the first piece of it.
Fresh(c) == Sending(c) /\ job[c].done = 0
SizeAck(f) == f.type = "SETTINGS_ACK" /\ f.table # 0

Undisturbed ==
    \A c \in Co : Fresh(c) => running = c /\ (~ job[c].own => stack = job[c].frame)

\* What it has built was built with the deflater as it is.
FreshTables ==
    \A c \in Co : Fresh(c) =>
       /\ job[c].frame.type = "HEADERS" => job[c].frame.table = deflater
       /\ SizeAck(job[c].frame) => Clamped(job[c].frame.table) = deflater

\* The deflater has the size acknowledged last, unless it has a newer one
\* whose acknowledgement is about to go out.
LastAck ==
    \A i \in SizeAcks : (\A k \in SizeAcks : k <= i) =>
       \/ Clamped(wire[i].frame.table) = deflater
       \/ \E c \in Co : Fresh(c) /\ SizeAck(job[c].frame)

TableInv ==
    /\ Undisturbed /\ FreshTables /\ AckedTableUsed
    /\ exact => LastAck

NoneFresh == \A c \in Co : ~ Fresh(c)

LEMMA SameSizes ==
    ASSUME wire' = wire
    PROVE  SizeAcks' = SizeAcks /\ Starts' = Starts /\ AckedTableUsed' = AckedTableUsed
<1>1. Starts' = Starts
  BY DEF Starts
<1>2. SizeAcks' = SizeAcks
  BY <1>1 DEF SizeAcks
<1> QED
  BY <1>1, <1>2 DEF AckedTableUsed, Clamped

\* The one that has the processor has built nothing: nobody has.
LEMMA NobodyFresh ==
    ASSUME Undisturbed, NEW c \in Co, running \in {NoCo, c}, ~ Fresh(c)
    PROVE  NoneFresh
BY Http2Constants DEF Undisturbed, NoneFresh

LEMMA TableQuiet ==
    ASSUME TableInv, NoneFresh, NoneFresh', UNCHANGED <<wire, deflater>>, exact' => exact
    PROVE  TableInv'
<1>1. Undisturbed' /\ FreshTables'
  BY DEF NoneFresh, Undisturbed, FreshTables
<1>2. AckedTableUsed'
  BY SameSizes DEF TableInv
<1>3. LastAck => LastAck'
  BY SameSizes DEF LastAck, NoneFresh, Clamped
<1> QED
  BY <1>1, <1>2, <1>3 DEF TableInv

\* A frame is built and send_all begins.
LEMMA TableBegin ==
    ASSUME Http2Types, TableInv, NoneFresh, NEW c \in Co, NEW f, NEW own \in BOOLEAN,
           NEW then, NEW r, Send(c, f, own, then, r), ~ own => stack' = f,
           wire' = wire, exact' => exact,
           f.type = "HEADERS" => f.table = deflater',
           SizeAck(f) => Clamped(f.table) = deflater',
           deflater' = deflater \/ SizeAck(f)
    PROVE  TableInv'
<1>1. /\ job'[c].pc = "send" /\ job'[c].frame = f /\ job'[c].own = own /\ job'[c].done = 0
      /\ running' = c /\ \A d \in Co : d # c => job'[d] = job[d]
  BY DEF Send, Http2Types
<1>2. Fresh(c)' /\ \A d \in Co : Fresh(d)' => d = c
  BY <1>1 DEF Fresh, Sending, NoneFresh
<1>3. Undisturbed'
  BY <1>1, <1>2 DEF Undisturbed
<1>4. FreshTables'
  <2>1. Clamped(f.table)' = Clamped(f.table) /\ (SizeAck(f)' <=> SizeAck(f))
    BY DEF Clamped, SizeAck
  <2> QED
    BY <1>1, <1>2, <2>1 DEF FreshTables, SizeAck, Clamped
<1>5. AckedTableUsed'
  BY SameSizes DEF TableInv
<1>6. LastAck => LastAck'
  <2>1. CASE SizeAck(f)
    BY <1>1, <1>2, <2>1 DEF LastAck, SizeAck
  <2>2. CASE deflater' = deflater
    BY <2>2, SameSizes DEF LastAck, NoneFresh, Clamped
  <2> QED
    BY <2>1, <2>2
<1> QED
  BY <1>3, <1>4, <1>5, <1>6 DEF TableInv

\* Where the elements of a concatenation are.
LEMMA Appended ==
    ASSUME NEW S, NEW s \in Seq(S), NEW t \in Seq(S)
    PROVE  /\ Len(s \o t) = Len(s) + Len(t)
           /\ \A i \in 1 .. Len(s) : (s \o t)[i] = s[i]
           /\ \A i \in 1 .. Len(t) : (s \o t)[Len(s) + i] = t[i]
OBVIOUS

\* The kernel takes the first piece of a frame and perhaps the second.
LEMMA TableStarts ==
    ASSUME Http2Types, NEW c \in Co, Sending(c), NEW n \in job[c].done + 1 .. 2,
           wire' = wire \o Pieces(c, Left(c), n)
    PROVE  /\ \A i \in Starts : i \in Nat /\ i < Len(wire) + 1 /\ wire'[i] = wire[i]
           /\ Len(wire) \in Nat
           /\ job[c].done = 1 => Starts' = Starts
           /\ job[c].done = 0 => /\ Starts' = Starts \cup {Len(wire) + 1}
                                 /\ wire'[Len(wire) + 1].frame =
                                       IF job[c].own THEN job[c].frame ELSE stack
<1>1. job[c].done \in {0, 1} /\ n \in {1, 2} /\ n > job[c].done
  BY JobCases DEF Http2Types, SendJob
<1>p. PICK p, L, k, f :
         /\ p = Pieces(c, Left(c), n) /\ L = Len(wire) /\ k = job[c].done
         /\ f = IF job[c].own THEN job[c].frame ELSE stack
  OBVIOUS
<1>2. /\ p \in Seq([frame : AFrame, part : {1, 2}]) /\ Len(p) = n - k
      /\ \A i \in 1 .. n - k : p[i] = [frame |-> f, part |-> k + i]
  BY <1>p, PiecesType
<1>3. /\ wire \in Seq([frame : AFrame, part : {1, 2}]) /\ wire' = wire \o p /\ L \in Nat
  BY <1>p DEF Http2Types
<1>4. /\ Len(wire') = L + Len(p)
      /\ \A i \in 1 .. L : wire'[i] = wire[i]
      /\ \A i \in 1 .. Len(p) : wire'[L + i] = p[i]
  <2> DEFINE S == [frame : AFrame, part : {1, 2}]
  <2>1. wire \in Seq(S) /\ p \in Seq(S) /\ wire' = wire \o p /\ L = Len(wire)
    BY <1>p, <1>2, <1>3
  <2> HIDE DEF S
  <2> QED
    BY <2>1, Appended
<1>5. /\ \A i \in 1 .. L : wire'[i].part = wire[i].part
      /\ \A i \in 1 .. Len(p) : wire'[L + i] = [frame |-> f, part |-> k + i]
  BY <1>2, <1>4
<1>6. \A i \in Starts : i \in 1 .. L /\ i \in Nat /\ i < L + 1 /\ wire'[i] = wire[i]
  BY <1>p, <1>3, <1>4 DEF Starts
<1>7. CASE k = 1
  <2>0. Len(p) = 1
    BY <1>p, <1>1, <1>2, <1>7
  <2>1. Len(wire') = L + 1 /\ wire'[L + 1].part = 2
    <3>1. Len(wire') = L + 1 /\ 1 \in 1 .. Len(p)
      BY <1>4, <2>0
    <3>2. wire'[L + 1] = [frame |-> f, part |-> k + 1]
      BY <1>5, <3>1
    <3> QED
      BY <1>7, <3>1, <3>2
  <2>2. \A i : i \in 1 .. Len(wire') <=> i \in 1 .. L \/ i = L + 1
    BY <1>3, <2>1
  <2> QED
    BY <1>p, <1>3, <1>5, <1>6, <1>7, <2>1, <2>2 DEF Starts
<1>8. CASE k = 0
  <2>0. Len(p) = n
    BY <1>1, <1>2, <1>8
  <2>1. wire'[L + 1].part = 1 /\ wire'[L + 1].frame = f
    <3>1. 1 \in 1 .. Len(p)
      BY <1>1, <2>0
    <3>2. wire'[L + 1] = [frame |-> f, part |-> k + 1]
      BY <1>5, <3>1
    <3> QED
      BY <1>8, <3>2
  <2>2. CASE n = 1
    <3>1. \A i : i \in 1 .. Len(wire') <=> i \in 1 .. L \/ i = L + 1
      BY <1>3, <1>4, <2>0, <2>2
    <3> QED
      BY <1>p, <1>3, <1>5, <1>6, <1>8, <2>1, <3>1 DEF Starts
  <2>3. CASE n = 2
    <3>1. wire'[L + 2].part = 2
      <4>1. 2 \in 1 .. Len(p)
        BY <2>0, <2>3
      <4>2. wire'[L + 2] = [frame |-> f, part |-> k + 2]
        BY <1>5, <4>1
      <4> QED
        BY <1>8, <4>2
    <3>2. \A i : i \in 1 .. Len(wire') <=> i \in 1 .. L \/ i = L + 1 \/ i = L + 2
      BY <1>3, <1>4, <2>0, <2>3
    <3> QED
      BY <1>p, <1>3, <1>5, <1>6, <1>8, <2>1, <3>1, <3>2 DEF Starts
  <2> QED
    BY <1>1, <2>2, <2>3
<1> QED
  BY <1>p, <1>1, <1>7, <1>8

LEMMA TableSendAll ==
    ASSUME Http2Types, TableInv, NEW c \in Co, send_all(c)
    PROVE  TableInv'
<1>0. /\ Sending(c) /\ running \in {NoCo, c} /\ job[c] \in SendJob /\ job \in [Co -> Job]
      /\ UNCHANGED <<deflater, exact>>
  BY JobCases DEF send_all, HasProcessor, Http2Types
<1>1. PICK n \in job[c].done + 1 .. 2 :
          /\ wire' = IF exact THEN wire \o Pieces(c, Left(c), n) ELSE wire
          /\ job' = [job EXCEPT ![c].done = n] \/ job' = [job EXCEPT ![c] = After(c)]
  BY DEF send_all
<1>2. job[c].done \in {0, 1} /\ n \in {1, 2}
  BY <1>0, <1>1 DEF SendJob
<1>3. \A d \in Co : d # c => ~ Fresh(d)
  BY <1>0, Http2Constants DEF TableInv, Undisturbed
<1>4. NoneFresh'
  <2>1. ~ Fresh(c)'
    <3>1. After(c).pc # "send"
      BY DEF After, Idle
    <3>2. job'[c].pc # "send" \/ job'[c].done = n
      BY <1>0, <1>1, <3>1 DEF SendJob
    <3> QED
      BY <1>2, <3>2 DEF Fresh, Sending
  <2>2. \A d \in Co : d # c => ~ Fresh(d)'
    BY <1>0, <1>1, <1>3 DEF Fresh, Sending
  <2> QED
    BY <2>1, <2>2 DEF NoneFresh
<1>5. Undisturbed' /\ FreshTables'
  BY <1>4 DEF NoneFresh, Undisturbed, FreshTables
<1>6. CASE ~ exact
  <2>1. wire' = wire
    BY <1>1, <1>6
  <2> QED
    BY <1>0, <1>5, <1>6, <2>1, SameSizes DEF TableInv
<1>7. CASE exact
  <2>0. PICK m, f : m = Len(wire) + 1 /\ f = job[c].frame
    OBVIOUS
  <2>7. wire' = wire \o Pieces(c, Left(c), n)
    BY <1>1, <1>7
  <2>1. /\ \A i \in Starts : i \in Nat /\ i < m /\ wire'[i] = wire[i]
        /\ m \in Nat
        /\ job[c].done = 1 => Starts' = Starts
        /\ job[c].done = 0 => /\ Starts' = Starts \cup {m}
                              /\ wire'[m].frame = IF job[c].own THEN job[c].frame ELSE stack
    <3>1. /\ \A i \in Starts : i \in Nat /\ i < Len(wire) + 1 /\ wire'[i] = wire[i]
          /\ Len(wire) \in Nat
          /\ job[c].done = 1 => Starts' = Starts
          /\ job[c].done = 0 => /\ Starts' = Starts \cup {Len(wire) + 1}
                                /\ wire'[Len(wire) + 1].frame =
                                      IF job[c].own THEN job[c].frame ELSE stack
      BY <1>0, <2>7, TableStarts, Zenon
    <3> QED
      BY <2>0, <3>1
  <2>2. AckedTableUsed /\ LastAck
    BY <1>7 DEF TableInv
  <2>3. CASE job[c].done = 1
    <3>1. SizeAcks' = SizeAcks /\ SizeAcks \subseteq Starts
      BY <2>1, <2>3 DEF SizeAcks
    <3>2. AckedTableUsed'
      BY <2>1, <2>2, <2>3, <3>1 DEF AckedTableUsed, Clamped
    <3>3. NoneFresh
      BY <1>3, <2>3 DEF NoneFresh, Fresh
    <3>4. LastAck'
      BY <1>0, <2>1, <2>2, <3>1, <3>3 DEF LastAck, NoneFresh, Clamped
    <3> QED
      BY <1>5, <3>2, <3>4 DEF TableInv
  <2>4. CASE job[c].done = 0
    <3>1. Fresh(c)
      BY <1>0, <2>4 DEF Fresh
    <3>2. /\ Starts' = Starts \cup {m} /\ wire'[m].frame = f
          /\ f.type = "HEADERS" => f.table = deflater
          /\ SizeAck(f) => Clamped(f.table) = deflater
      BY <2>0, <2>1, <2>4, <3>1 DEF TableInv, Undisturbed, FreshTables
    <3>3. /\ SizeAcks \subseteq Starts /\ SizeAcks \subseteq SizeAcks'
          /\ \A i \in SizeAcks' : i \in SizeAcks \/ (i = m /\ SizeAck(f))
          /\ SizeAck(f) => m \in SizeAcks'
      BY <2>1, <3>2 DEF SizeAcks, SizeAck
    <3>4. ~ SizeAck(f) => \A i \in SizeAcks : (\A k \in SizeAcks : k <= i) =>
                             Clamped(wire[i].frame.table) = deflater
      BY <1>3, <2>0, <2>2 DEF LastAck
    <3>5. AckedTableUsed'
      <4>1. SUFFICES ASSUME NEW i \in SizeAcks', NEW j \in Starts', i < j,
                            wire'[j].frame.type = "HEADERS",
                            \A k \in SizeAcks' : k <= i \/ j < k
                     PROVE  wire'[j].frame.table = Clamped(wire'[i].frame.table)
        BY DEF AckedTableUsed, Clamped
      <4>2. i \in SizeAcks
        BY <2>1, <3>2, <3>3, <4>1
      <4>3. wire'[i] = wire[i] /\ i \in Nat /\ i < m
        BY <2>1, <3>3, <4>2
      <4>4. CASE j \in Starts
        BY <2>1, <2>2, <3>3, <4>1, <4>2, <4>3, <4>4 DEF AckedTableUsed
      <4>5. CASE j = m
        <5>1. f.type = "HEADERS" /\ ~ SizeAck(f)
          BY <3>2, <4>1, <4>5 DEF SizeAck
        <5>2. ASSUME NEW k \in SizeAcks PROVE k <= i
          <6>1. k \in SizeAcks' /\ k \in Nat /\ k < m
            BY <2>1, <3>3
          <6>2. k <= i \/ m < k
            BY <4>1, <4>5, <6>1
          <6> QED
            BY <2>1, <6>1, <6>2
        <5> QED
          BY <3>2, <3>4, <4>2, <4>3, <4>5, <5>1, <5>2
      <4> QED
        BY <3>2, <4>1, <4>4, <4>5
    <3>6. LastAck'
      <4>1. SUFFICES ASSUME NEW i \in SizeAcks', \A k \in SizeAcks' : k <= i
                     PROVE  Clamped(wire'[i].frame.table) = deflater
        BY <1>0 DEF LastAck, Clamped
      <4>2. CASE SizeAck(f)
        <5>1. m <= i /\ (i \in Starts \/ i = m)
          BY <3>3, <4>1, <4>2
        <5>2. i = m
          BY <2>1, <5>1
        <5> QED
          BY <3>2, <4>2, <5>2
      <4>3. CASE ~ SizeAck(f)
        <5>1. i \in SizeAcks /\ \A k \in SizeAcks : k <= i
          BY <3>3, <4>1, <4>3
        <5> QED
          BY <2>1, <3>3, <3>4, <4>3, <5>1
      <4> QED
        BY <4>2, <4>3
    <3> QED
      BY <1>5, <3>5, <3>6 DEF TableInv
  <2> QED
    BY <1>2, <2>3, <2>4
<1> QED
  BY <1>6, <1>7

LEMMA TableParse ==
    ASSUME Http2Types, TableInv, NEW c \in Co, running \in {NoCo, c}, ~ Sending(c),
           NEW f \in ServerFrame, parse_frame(c, f), wire' = wire, exact' => exact
    PROVE  TableInv'
<1>0. NoneFresh /\ job \in [Co -> Job]
  BY NobodyFresh DEF TableInv, Fresh, Http2Types
<1>1. CASE f.type \in {"SETTINGS", "SETTINGS_ACK"}
  <2>1. parse_setting_frame(c, f)
    BY <1>1 DEF parse_frame, Skipped
  <2>2. PICK g : g = Ack(f)
    OBVIOUS
  <2>3. /\ g.type = "SETTINGS_ACK" /\ g.table = f.table
        /\ f.type = "SETTINGS_ACK" => f.table = 0
        /\ deflater = Clamped(settings.remote_table)
    BY <1>1, <2>2 DEF Ack, Frame, ServerFrame, Http2Types
  <2>4. Send(c, g, TRUE, "recv", NoReq)
    BY <2>1, <2>2 DEF parse_setting_frame
  <2>5. \/ f.type = "SETTINGS" /\ f.table # settings.remote_table /\ deflater' = Clamped(f.table)
        \/ ~ (f.type = "SETTINGS" /\ f.table # settings.remote_table) /\ deflater' = deflater
    BY <2>1 DEF parse_setting_frame
  <2>6. f.type = "SETTINGS" => f.table # 0
    BY DEF ServerFrame
  <2>7. SizeAck(g) => Clamped(g.table) = deflater'
    BY <1>1, <2>3, <2>5 DEF SizeAck
  <2>8. deflater' = deflater \/ SizeAck(g)
    BY <2>3, <2>5, <2>6 DEF SizeAck
  <2> QED
    BY <1>0, <2>3, <2>4, <2>7, <2>8, TableBegin
<1>2. CASE f.type \notin {"SETTINGS", "SETTINGS_ACK"}
  <2>1. /\ UNCHANGED deflater
        /\ \/ job' = job \/ job' = [job EXCEPT ![c] = Idle]
           \/ job' = [job EXCEPT ![c] = [pc |-> "recv"]]
    BY <1>2 DEF parse_frame, parse_stream_frame, Kill, NextFrame
  <2>2. NoneFresh'
    BY <1>0, <2>1 DEF NoneFresh, Fresh, Sending, Idle
  <2> QED
    BY <1>0, <2>1, <2>2, TableQuiet
<1> QED
  BY <1>1, <1>2

LEMMA TableStep ==
    ASSUME Http2Types, TableInv, [Http2Next]_vars
    PROVE  TableInv'
<1>0. /\ job \in [Co -> Job] /\ rx \in Seq(ServerFrame) /\ inbuf \in ServerFrame
      /\ Pri.type = "PRI" /\ Settings(Default).type = "SETTINGS" /\ (exact' => exact)
  BY Histories DEF Http2Types, Pri, Settings, Frame
<1>1. ASSUME NEW c \in Co, running \in {NoCo, c}, job[c].pc # "send"
      PROVE  NoneFresh
  BY <1>1, NobodyFresh DEF TableInv, Fresh, Sending
<1>2. ASSUME NEW c \in Co, connect(c) \/ connect_settings(c) PROVE TableInv'
  <2>1. NoneFresh /\ UNCHANGED <<wire, deflater>>
    BY <1>1, <1>2 DEF connect, connect_settings, Calls, HasProcessor, clientVars
  <2>2. \/ UNCHANGED job
        \/ Send(c, Pri, TRUE, "settings", NoReq)
        \/ Send(c, Settings(Default), TRUE, "return", NoReq)
    BY <1>2 DEF connect, connect_settings
  <2>3. CASE UNCHANGED job
    <3>1. NoneFresh'
      BY <2>1, <2>3 DEF NoneFresh, Fresh, Sending
    <3> QED
      BY <1>0, <2>1, <3>1, TableQuiet
  <2>4. CASE Send(c, Pri, TRUE, "settings", NoReq)
    BY <1>0, <2>1, <2>4, TableBegin DEF SizeAck
  <2>5. CASE Send(c, Settings(Default), TRUE, "return", NoReq)
    BY <1>0, <2>1, <2>5, TableBegin DEF SizeAck
  <2> QED
    BY <2>2, <2>3, <2>4, <2>5
<1>3. ASSUME NEW c \in Co, send_http_body_frame(c) PROVE TableInv'
  <2>1. NoneFresh /\ UNCHANGED <<wire, deflater>>
    BY <1>1, <1>3 DEF send_http_body_frame, HasProcessor, clientVars
  <2>2. CASE UNCHANGED job
    <3>1. NoneFresh'
      BY <2>1, <2>2 DEF NoneFresh, Fresh, Sending
    <3> QED
      BY <1>0, <2>1, <3>1, TableQuiet
  <2>3. CASE stack' = body_frame(c) /\ Send(c, body_frame(c), FALSE, "end", job[c].req)
    <3>1. PICK f : f = body_frame(c)
      OBVIOUS
    <3>2. f.type = "DATA" /\ stack' = f /\ Send(c, f, FALSE, "end", job[c].req)
      BY <2>3, <3>1 DEF body_frame, Frame
    <3> QED
      BY <1>0, <2>1, <3>2, TableBegin DEF SizeAck
  <2> QED
    BY <1>3, <2>2, <2>3 DEF send_http_body_frame
<1>4. ASSUME NEW c \in Co, NEW r \in Requests, send_http_header_frame(c, r) PROVE TableInv'
  <2>1. NoneFresh /\ UNCHANGED <<wire, deflater>>
    BY <1>1, <1>4 DEF send_http_header_frame, Calls, HasProcessor
  <2>2. PICK f : f = header_frame(r)
    OBVIOUS
  <2>3. /\ f.type = "HEADERS" /\ f.table = deflater /\ stack' = f
        /\ Send(c, f, FALSE, "body", r)
    BY <1>4, <2>2 DEF send_http_header_frame, header_frame, Frame
  <2> QED
    BY <1>0, <2>1, <2>3, TableBegin DEF SizeAck
<1>5. ASSUME NEW c \in Co, NEW id \in Ids, NEW es \in BOOLEAN, write_data(c, id, es)
      PROVE  TableInv'
  <2>1. NoneFresh /\ UNCHANGED <<wire, deflater>>
    BY <1>1, <1>5 DEF write_data, Calls, HasProcessor, clientVars
  <2>2. PICK f : f = Frame("DATA", id, es, 0, 1)
    OBVIOUS
  <2>3. f.type = "DATA" /\ stack' = f /\ Send(c, f, FALSE, "return", NoReq)
    BY <1>5, <2>2 DEF write_data, Frame
  <2> QED
    BY <1>0, <2>1, <2>3, TableBegin DEF SizeAck
<1>6. ASSUME NEW c \in Co, recv_reponse(c) \/ recv_waits(c) \/ recv_frame(c)
      PROVE  TableInv'
  <2>1. NoneFresh /\ UNCHANGED <<wire, deflater>>
    BY <1>1, <1>6 DEF recv_reponse, recv_waits, recv_frame, Calls, HasProcessor, clientVars,
                      histVars
  <2>2. \/ job' = job \/ job' = [job EXCEPT ![c] = [pc |-> "recv"]]
        \/ job' = [job EXCEPT ![c] = [pc |-> "payload"]]
    BY <1>6 DEF recv_reponse, recv_waits, recv_frame
  <2>3. NoneFresh'
    BY <1>0, <2>1, <2>2 DEF NoneFresh, Fresh, Sending
  <2> QED
    BY <1>0, <2>1, <2>3, TableQuiet
<1>7. ASSUME NEW c \in Co, recv_payload(c) \/ recv_fails(c) PROVE TableInv'
  <2>1. running \in {NoCo, c} /\ ~ Sending(c) /\ wire' = wire
    BY <1>7 DEF recv_payload, recv_fails, HasProcessor, Sending
  <2>2. CASE Kill("out of step")
    <3>1. UNCHANGED <<job, deflater>> /\ NoneFresh
      BY <1>1, <2>1, <2>2 DEF Kill, Sending
    <3>2. NoneFresh'
      BY <3>1 DEF NoneFresh, Fresh, Sending
    <3> QED
      BY <1>0, <2>1, <3>1, <3>2, TableQuiet
  <2>3. CASE rx # << >> /\ parse_frame(c, Head(rx))
    <3>1. Head(rx) \in ServerFrame
      BY <1>0, <2>3
    <3> QED
      BY <1>0, <2>1, <2>3, <3>1, TableParse
  <2>4. CASE parse_frame(c, inbuf)
    BY <1>0, <2>1, <2>4, TableParse
  <2> QED
    BY <1>7, <2>2, <2>3, <2>4 DEF recv_payload, recv_fails
<1>8. ASSUME \/ \E id \in Ids : server_headers(id) \/ server_data(id)
             \/ server_settings \/ server_closes \/ UNCHANGED vars
      PROVE  TableInv'
  <2>1. ServerOnly \/ UNCHANGED vars
    BY <1>8 DEF server_headers, server_data, server_settings, server_closes
  <2>2. UNCHANGED <<job, running, stack, deflater, wire, exact>>
    BY <2>1 DEF ServerOnly, vars, clientVars, histVars
  <2>3. \A c \in Co : Fresh(c)' <=> Fresh(c)
    BY <2>2 DEF Fresh, Sending
  <2>4. Undisturbed' /\ FreshTables'
    BY <2>2, <2>3 DEF TableInv, Undisturbed, FreshTables, SizeAck, Clamped
  <2>5. AckedTableUsed' /\ (LastAck => LastAck')
    BY <2>2, <2>3, SameSizes DEF TableInv, LastAck, SizeAck, Clamped
  <2> QED
    BY <1>0, <2>4, <2>5 DEF TableInv
<1> QED
  BY <1>2, <1>3, <1>4, <1>5, <1>6, <1>7, <1>8, TableSendAll DEF Http2Next, CoStep

\* Whatever table sizes the server asks for and when, and whichever coroutines
\* run and send while an acknowledgement is half sent: from the first byte of
\* the acknowledgement of a size to that of the next one, HEADERS go out
\* compressed with it, or with the deflater's own size if that is smaller.
THEOREM TablesCorrect == Http2Spec => []AckedTableUsed
<1>1. Http2Init => TableInv
  <2>1. ASSUME Http2Init PROVE NoneFresh /\ Starts = {}
    BY <2>1 DEF Http2Init, NoneFresh, Fresh, Sending, Idle, Starts
  <2>2. ASSUME Http2Init PROVE SizeAcks = {}
    BY <2>1, <2>2 DEF SizeAcks
  <2> QED
    BY <2>1, <2>2 DEF TableInv, NoneFresh, Undisturbed, FreshTables, AckedTableUsed, LastAck
<1>2. Http2Types /\ TableInv /\ [Http2Next]_vars => TableInv'
  BY TableStep
<1>3. (Http2Inv => Http2Types) /\ (TableInv => AckedTableUsed)
  BY DEF Http2Inv, TableInv
<1> QED
  BY <1>1, <1>2, <1>3, Http2Correct, PTL DEF Http2Spec

-----------------------------------------------------------------------------
(* What the client receives *)

StreamFrame(f) == f.type \in {"HEADERS", "DATA"}
Payload(f) == f.type = "DATA" /\ f.len = 1

AStream == [pipeline : BOOLEAN, buffer : Nat, window : Int, body : Nat]
Server == [open : BOOLEAN, data : [Ids -> Nat], sent : Nat, ended : SUBSET Ids,
           headers : SUBSET Ids, control : Nat]

ReceiveTypes ==
    /\ DOMAIN streams \subseteq Ids /\ streams \in [DOMAIN streams -> AStream]
    /\ settings.local_window \in Int
    /\ answers \in Seq([id : Nat, body : Nat])
    /\ peer \in Server
    /\ stream_id % 2 = 1

\* Only for streams that the client has opened does it build frames ...
KnownId == {0} \cup DOMAIN streams
JobNamed(j, D) ==
    /\ j.pc = "send" => j.frame.id \in D /\ j.id = j.frame.id
    /\ j.pc = "body" => j.id \in D
Named ==
    /\ stack.id \in KnownId
    /\ \A c \in Co : JobNamed(job[c], KnownId)
    /\ \A i \in 1 .. Len(wire) : wire[i].frame.id \in KnownId

\* ... and therefore the server.
Offered ==
    /\ \A i \in 1 .. Len(rx) : /\ rx[i].type # "PRI"
                               /\ rx[i].type = "HEADERS" => rx[i].len = 0
                               /\ StreamFrame(rx[i]) => rx[i].id \in peer.headers
    /\ peer.ended \subseteq peer.headers /\ peer.headers \subseteq DOMAIN streams
    /\ \A id \in Ids : id \notin peer.headers => peer.data[id] = 0

\* The end of a stream is its last frame.
EndsLast ==
    \A i \in 1 .. Len(rx) : StreamFrame(rx[i]) /\ rx[i].es =>
       /\ rx[i].id \in peer.ended
       /\ \A j \in 1 .. Len(rx) : StreamFrame(rx[j]) /\ rx[j].id = rx[i].id => j <= i

\* A response has all of its stream, of which nothing comes any more.
Answered ==
    \A i \in 1 .. Len(answers) :
       /\ answers[i].id \in peer.ended /\ answers[i].body = peer.data[answers[i].id]
       /\ \A j \in 1 .. Len(answers) : answers[j].id = answers[i].id => i = j
       /\ \A j \in 1 .. Len(rx) : StreamFrame(rx[j]) => rx[j].id # answers[i].id

\* What has been read of a stream is in its buffer until it is answered.
Counted ==
    /\ \A id \in DOMAIN streams :
          /\ AnswersTo(id) = {} =>
                /\ streams[id].body = 0
                /\ streams[id].buffer = peer.data[id] - Cardinality(Unread(id))
          /\ streams[id].window = Window - peer.data[id] + Cardinality(Unread(id))
    /\ settings.local_window = Window - peer.sent + Cardinality(AllUnread)

ReceiveInv ==
    /\ ReceiveTypes /\ Named /\ Offered
    /\ exact /\ fault = "none" => EndsLast /\ Answered /\ Counted

-----------------------------------------------------------------------------
(* Counting *)

LEMMA CountFinite ==
    ASSUME NEW n \in Nat, NEW S \in SUBSET (1 .. n)
    PROVE  IsFiniteSet(S) /\ Cardinality(S) \in Nat
<1>1. IsFiniteSet(1 .. n)
  BY FS_Interval
<1>2. IsFiniteSet(S)
  BY <1>1, FS_Subset
<1> QED
  BY <1>2, FS_CardinalityType

LEMMA CountAppend ==
    ASSUME NEW n \in Nat, NEW S \in SUBSET (1 .. n)
    PROVE  Cardinality(S \cup {n + 1}) = Cardinality(S) + 1
<1>1. IsFiniteSet(S)
  BY CountFinite
<1>2. n + 1 \notin S
  OBVIOUS
<1> QED
  BY <1>1, <1>2, FS_AddElement

LEMMA CountTail ==
    ASSUME NEW n \in Nat, NEW S \in SUBSET (1 .. n), NEW T, T = {i \in 1 .. n - 1 : i + 1 \in S}
    PROVE  Cardinality(S) = Cardinality(T) + IF 1 \in S THEN 1 ELSE 0
<1>1. IsFiniteSet(S) /\ Cardinality(S) \in Nat /\ IsFiniteSet(S \ {1}) /\ IsFiniteSet(T)
  <2>1. T \in SUBSET (1 .. n) /\ S \ {1} \in SUBSET (1 .. n)
    OBVIOUS
  <2> QED
    BY <2>1, CountFinite
<1> DEFINE g == [i \in T |-> i + 1]
<1>2. g \in Bijection(T, S \ {1})
  <2>1. g \in [T -> S \ {1}]
    OBVIOUS
  <2>2. \A a, b \in T : g[a] = g[b] => a = b
    OBVIOUS
  <2>3. ASSUME NEW k \in S \ {1} PROVE \E i \in T : g[i] = k
    <3>1. k - 1 \in T /\ g[k - 1] = k
      OBVIOUS
    <3> QED
      BY <3>1
  <2> QED
    BY <2>1, <2>2, <2>3 DEF Bijection, Injection, Surjection, IsInjective
<1>3. Cardinality(S \ {1}) = Cardinality(T)
  BY <1>1, <1>2, FS_Bijection DEF ExistsBijection
<1>4. Cardinality(S \ {1}) = IF 1 \in S THEN Cardinality(S) - 1 ELSE Cardinality(S)
  BY <1>1, FS_RemoveElement
<1> QED
  BY <1>1, <1>3, <1>4

\* A frame more, and a frame less, on the way to the client.
LEMMA UnreadType ==
    ASSUME rx \in Seq(ServerFrame)
    PROVE  /\ Cardinality(AllUnread) \in Nat
           /\ \A id : Cardinality(Unread(id)) \in Nat
<1>1. Len(rx) \in Nat /\ AllUnread \in SUBSET (1 .. Len(rx))
      /\ \A id : Unread(id) \in SUBSET (1 .. Len(rx))
  BY SeqElements DEF AllUnread, Unread
<1> QED
  BY <1>1, CountFinite

LEMMA UnreadAppend ==
    ASSUME rx \in Seq(ServerFrame), NEW f \in ServerFrame, rx' = Append(rx, f)
    PROVE  /\ Len(rx') = Len(rx) + 1 /\ rx'[Len(rx) + 1] = f /\ Len(rx) \in Nat
           /\ \A i \in 1 .. Len(rx) : rx'[i] = rx[i]
           /\ Cardinality(AllUnread)' = Cardinality(AllUnread) + IF Payload(f) THEN 1 ELSE 0
           /\ \A id : Cardinality(Unread(id))' =
                         Cardinality(Unread(id)) + IF Payload(f) /\ f.id = id THEN 1 ELSE 0
<1>n. PICK n : n = Len(rx)
  OBVIOUS
<1>1. /\ n \in Nat /\ Len(rx') = n + 1 /\ rx'[n + 1] = f
      /\ \A i \in 1 .. n : rx'[i] = rx[i]
  BY <1>n, SeqElements
<1>2. \A i : i \in 1 .. n + 1 <=> i \in 1 .. n \/ i = n + 1
  BY <1>1
<1>3. /\ AllUnread \in SUBSET (1 .. n)
      /\ \A id : Unread(id) \in SUBSET (1 .. n)
  BY <1>n DEF AllUnread, Unread
<1>4. /\ AllUnread' = IF Payload(f) THEN AllUnread \cup {n + 1} ELSE AllUnread
      /\ \A id : Unread(id)' = IF Payload(f) /\ f.id = id THEN Unread(id) \cup {n + 1}
                               ELSE Unread(id)
  BY <1>n, <1>1, <1>2 DEF AllUnread, Unread, Payload
<1>5. /\ Cardinality(AllUnread) \in Nat
      /\ \A id : Cardinality(Unread(id)) \in Nat
  BY UnreadType
<1>6. /\ Cardinality(AllUnread \cup {n + 1}) = Cardinality(AllUnread) + 1
      /\ \A id : Cardinality(Unread(id) \cup {n + 1}) = Cardinality(Unread(id)) + 1
  BY <1>1, <1>3, CountAppend
<1> QED
  BY <1>n, <1>1, <1>4, <1>5, <1>6

LEMMA UnreadTail ==
    ASSUME rx \in Seq(ServerFrame), rx # << >>, rx' = Tail(rx), NEW f, f = Head(rx)
    PROVE  /\ f = rx[1] /\ f \in ServerFrame /\ 1 \in 1 .. Len(rx)
           /\ \A i \in 1 .. Len(rx') : i \in Nat /\ i + 1 \in 1 .. Len(rx) /\ rx'[i] = rx[i + 1]
           /\ Cardinality(AllUnread) = Cardinality(AllUnread') + IF Payload(f) THEN 1 ELSE 0
           /\ \A id : Cardinality(Unread(id)) =
                         Cardinality(Unread(id)') + IF Payload(f) /\ f.id = id THEN 1 ELSE 0
           /\ Cardinality(AllUnread') \in Nat /\ \A id : Cardinality(Unread(id)') \in Nat
<1>n. PICK n : n = Len(rx)
  OBVIOUS
<1>1. /\ n \in Nat \ {0} /\ Len(rx') = n - 1 /\ f = rx[1] /\ f \in ServerFrame
      /\ \A i \in 1 .. n - 1 : rx'[i] = rx[i + 1]
  BY <1>n
<1>2. \A i \in 1 .. n - 1 : i \in Nat /\ i + 1 \in 1 .. n
  BY <1>1
<1>3. /\ AllUnread \in SUBSET (1 .. n)
      /\ \A id : Unread(id) \in SUBSET (1 .. n)
  BY <1>n DEF AllUnread, Unread
<1>4. /\ AllUnread' = {i \in 1 .. n - 1 : i + 1 \in AllUnread}
      /\ \A id : Unread(id)' = {i \in 1 .. n - 1 : i + 1 \in Unread(id)}
  BY <1>n, <1>1, <1>2 DEF AllUnread, Unread
<1>5. /\ 1 \in AllUnread <=> Payload(f)
      /\ \A id : 1 \in Unread(id) <=> Payload(f) /\ f.id = id
  BY <1>n, <1>1 DEF AllUnread, Unread, Payload
<1>6. /\ Cardinality(AllUnread) = Cardinality(AllUnread') + IF 1 \in AllUnread THEN 1 ELSE 0
      /\ \A id : Cardinality(Unread(id)) =
                    Cardinality(Unread(id)') + IF 1 \in Unread(id) THEN 1 ELSE 0
  <2>1. Cardinality(AllUnread) = Cardinality(AllUnread') + IF 1 \in AllUnread THEN 1 ELSE 0
    BY <1>1, <1>3, <1>4, CountTail
  <2>2. ASSUME NEW id
        PROVE  Cardinality(Unread(id)) =
                  Cardinality(Unread(id)') + IF 1 \in Unread(id) THEN 1 ELSE 0
    <3>1. PICK S, T : S = Unread(id) /\ T = Unread(id)'
      OBVIOUS
    <3>2. S \in SUBSET (1 .. n) /\ T = {i \in 1 .. n - 1 : i + 1 \in S}
      BY <1>3, <1>4, <3>1
    <3> QED
      BY <1>1, <3>1, <3>2, CountTail
  <2> QED
    BY <2>1, <2>2
<1>7. Cardinality(AllUnread') \in Nat /\ \A id : Cardinality(Unread(id)') \in Nat
  <2>1. AllUnread' \in SUBSET (1 .. n) /\ \A id : Unread(id)' \in SUBSET (1 .. n)
    BY <1>1, <1>4
  <2> QED
    BY <1>1, <2>1, CountFinite
<1> QED
  BY <1>n, <1>1, <1>2, <1>5, <1>6, <1>7

-----------------------------------------------------------------------------
(* Steps that receive nothing *)

LEMMA ReceiveInit ==
    ASSUME Http2Init
    PROVE  ReceiveInv
<1>1. /\ DOMAIN streams = {} /\ rx = << >> /\ answers = << >> /\ wire = << >>
      /\ peer = PeerInit /\ stream_id = 1 /\ stack = NoFrame
      /\ settings = [local_window |-> Window, remote_table |-> Default]
      /\ job = [c \in Co |-> Idle] /\ Window \in Nat
  BY Http2Constants DEF Http2Init
<1>2. ReceiveTypes
  <2>1. PeerInit \in Server
    BY DEF PeerInit, Server
  <2>2. streams \in [DOMAIN streams -> AStream]
    BY DEF Http2Init
  <2> QED
    BY <1>1, <2>1, <2>2 DEF ReceiveTypes
<1>3. Named
  <2>1. \A c \in Co : JobNamed(job[c], KnownId)
    BY <1>1 DEF JobNamed, Idle
  <2> QED
    BY <1>1, <2>1 DEF Named, KnownId, NoFrame, Frame
<1>4. Offered
  BY <1>1 DEF Offered, PeerInit
<1>5. EndsLast /\ Answered
  BY <1>1 DEF EndsLast, Answered
<1>6. Counted
  <2>1. AllUnread = {} /\ Cardinality(AllUnread) = 0
    BY <1>1, FS_EmptySet DEF AllUnread
  <2> QED
    BY <1>1, <2>1 DEF Counted, PeerInit
<1> QED
  BY <1>2, <1>3, <1>4, <1>5, <1>6 DEF ReceiveInv

LEMMA NamedStep ==
    ASSUME Named, DOMAIN streams \subseteq DOMAIN streams', stack'.id \in KnownId',
           wire' = wire, \A c \in Co : job'[c] = job[c] \/ JobNamed(job'[c], KnownId')
    PROVE  Named'
<1>1. KnownId \subseteq KnownId'
  BY DEF KnownId
<1>2. \A c \in Co : JobNamed(job'[c], KnownId')
  BY <1>1 DEF Named, JobNamed
<1> QED
  BY <1>1, <1>2 DEF Named, JobNamed

\* A send_all that begins, and any other change of one coroutine's job.
LEMMA SendNamed ==
    ASSUME job \in [Co -> Job], NEW c \in Co, NEW f, NEW own, NEW then, NEW r,
           Send(c, f, own, then, r), NEW D, f.id \in D
    PROVE  \A d \in Co : job'[d] = job[d] \/ JobNamed(job'[d], D)
<1>1. job'[c] = [pc |-> "send", frame |-> f, own |-> own, done |-> 0, then |-> then,
                 id |-> f.id, req |-> r]
  BY DEF Send
<1>2. \A d \in Co : d # c => job'[d] = job[d]
  BY DEF Send
<1>3. JobNamed(job'[c], D)
  BY <1>1 DEF JobNamed
<1> QED
  BY <1>2, <1>3

LEMMA QuietReceive ==
    ASSUME ReceiveInv, UNCHANGED <<rx, peer, streams, settings, answers>>, Named',
           exact' => exact, fault' = "none" => fault = "none", stream_id' % 2 = 1
    PROVE  ReceiveInv'
<1>1. ReceiveTypes'
  BY DEF ReceiveInv, ReceiveTypes
<1>2. Offered'
  BY DEF ReceiveInv, Offered
<1>3. EndsLast => EndsLast'
  BY DEF EndsLast
<1>4. Answered => Answered'
  BY DEF Answered
<1>5. Counted => Counted'
  <2>1. /\ \A id : AnswersTo(id)' = AnswersTo(id) /\ Unread(id)' = Unread(id)
        /\ AllUnread' = AllUnread
    BY DEF AnswersTo, Unread, AllUnread
  <2> QED
    BY <2>1 DEF Counted
<1> QED
  BY <1>1, <1>2, <1>3, <1>4, <1>5 DEF ReceiveInv

LEMMA ReceiveCalls ==
    ASSUME Http2Types, ReceiveInv, NEW c \in Co,
           \/ connect(c) \/ connect_settings(c) \/ send_http_body_frame(c)
           \/ recv_reponse(c) \/ recv_waits(c) \/ recv_frame(c)
           \/ \E id \in Ids, es \in BOOLEAN : write_data(c, id, es)
    PROVE  ReceiveInv'
<1>0. /\ job \in [Co -> Job] /\ Named /\ 0 \in KnownId /\ stack.id \in KnownId
      /\ stream_id % 2 = 1
  BY DEF Http2Types, ReceiveInv, ReceiveTypes, Named, KnownId
<1>1. /\ UNCHANGED <<rx, peer, streams, settings, answers, exact, wire, stream_id>>
      /\ KnownId' = KnownId
  BY DEF connect, connect_settings, send_http_body_frame, recv_reponse, recv_waits, recv_frame,
         write_data, clientVars, histVars, KnownId
<1>2. exact' => exact
  BY <1>1
<1>3. fault = "none"
  BY DEF connect, connect_settings, send_http_body_frame, recv_reponse, recv_waits, recv_frame,
         write_data, Calls, HasProcessor, Up
<1>4. ASSUME NEW f, NEW own, NEW then, NEW r, Send(c, f, own, then, r), f.id \in KnownId,
             stack' = stack \/ stack' = f
      PROVE  Named'
  BY <1>0, <1>1, <1>4, SendNamed, NamedStep
<1>5. ASSUME stack' = stack, \A d \in Co : job'[d] = job[d] \/ JobNamed(job'[d], KnownId)
      PROVE  Named'
  BY <1>0, <1>1, <1>5, NamedStep
<1>6. Pri.id = 0 /\ Settings(Default).id = 0
  BY DEF Pri, Settings, Frame
<1>7. CASE connect(c) \/ connect_settings(c)
  <2>1. stack' = stack
    BY <1>7 DEF connect, connect_settings
  <2>2. \/ job' = job
        \/ Send(c, Pri, TRUE, "settings", NoReq)
        \/ Send(c, Settings(Default), TRUE, "return", NoReq)
    BY <1>7 DEF connect, connect_settings
  <2>3. Named'
    BY <1>0, <1>4, <1>5, <1>6, <2>1, <2>2
  <2> QED
    BY <1>0, <1>1, <1>2, <1>3, <2>3, QuietReceive
<1>8. CASE send_http_body_frame(c)
  <2>1. body_frame(c).id \in KnownId
    BY <1>0, <1>8 DEF send_http_body_frame, body_frame, Frame, Named, JobNamed
  <2>2. \/ job' = job /\ stack' = stack
        \/ stack' = body_frame(c) /\ Send(c, body_frame(c), FALSE, "end", job[c].req)
    BY <1>8 DEF send_http_body_frame
  <2>3. Named'
    BY <1>4, <1>5, <2>1, <2>2
  <2> QED
    BY <1>0, <1>1, <1>2, <1>3, <2>3, QuietReceive
<1>9. CASE recv_reponse(c) \/ recv_waits(c) \/ recv_frame(c)
  <2>1. /\ stack' = stack
        /\ \/ job' = job
           \/ job' = [job EXCEPT ![c] = [pc |-> "recv"]]
           \/ job' = [job EXCEPT ![c] = [pc |-> "payload"]]
    BY <1>9 DEF recv_reponse, recv_waits, recv_frame
  <2>2. JobNamed([pc |-> "recv"], KnownId) /\ JobNamed([pc |-> "payload"], KnownId)
    BY DEF JobNamed
  <2>3. Named'
    BY <1>0, <1>5, <2>1, <2>2
  <2> QED
    BY <1>0, <1>1, <1>2, <1>3, <2>3, QuietReceive
<1>10. ASSUME NEW id \in Ids, NEW es \in BOOLEAN, write_data(c, id, es)
       PROVE  ReceiveInv'
  <2>1. id \in KnownId
    BY <1>10 DEF write_data, Writable, KnownId
  <2>2. PICK f : f = Frame("DATA", id, es, 0, 1)
    OBVIOUS
  <2>3. f.id = id /\ stack' = f /\ Send(c, f, FALSE, "return", NoReq)
    BY <1>10, <2>2 DEF write_data, Frame
  <2>4. Named'
    BY <1>4, <2>1, <2>3
  <2> QED
    BY <1>0, <1>1, <1>2, <1>3, <2>4, QuietReceive
<1> QED
  BY <1>7, <1>8, <1>9, <1>10

LEMMA Concatenation ==
    ASSUME NEW T, NEW w \in Seq(T), NEW p \in Seq(T)
    PROVE  /\ Len(w) \in Nat /\ Len(p) \in Nat /\ Len(w \o p) = Len(w) + Len(p)
           /\ \A m \in 1 .. Len(w) + Len(p) :
                 (w \o p)[m] = IF m <= Len(w) THEN w[m] ELSE p[m - Len(w)]
OBVIOUS

LEMMA ReceiveSendAll ==
    ASSUME Http2Types, ReceiveInv, NEW c \in Co, send_all(c)
    PROVE  ReceiveInv'
<1>0. /\ job \in [Co -> Job] /\ Named /\ 0 \in KnownId /\ stack.id \in KnownId
      /\ stream_id % 2 = 1 /\ stream_id \in Nat
  BY DEF Http2Types, ReceiveInv, ReceiveTypes, Named, KnownId
<1>1. /\ UNCHANGED <<rx, peer, streams, settings, answers, stack, fault>>
      /\ KnownId' = KnownId /\ Sending(c) /\ (exact' => exact)
  <2>1. exact' = exact
    BY DEF send_all
  <2> QED
    BY <2>1 DEF send_all, KnownId
<1>2. stream_id' % 2 = 1
  <2>1. stream_id' = stream_id \/ stream_id' = stream_id + 2
    BY DEF send_all, Advance
  <2> QED
    BY <1>0, <2>1
<1>3. PICK n \in job[c].done + 1 .. 2 :
         /\ wire' = wire \/ wire' = wire \o Pieces(c, Left(c), n)
         /\ \/ job' = [job EXCEPT ![c].done = n]
            \/ job' = [job EXCEPT ![c] = After(c)]
  BY DEF send_all
<1>4. job[c] \in SendJob /\ job[c].frame.id \in KnownId /\ job[c].id \in KnownId
      /\ job[c].id = job[c].frame.id /\ job[c].pc = "send"
  BY <1>0, <1>1, JobCases DEF Named, JobNamed, Sending
<1>5. \A d \in Co : JobNamed(job'[d], KnownId)
  <2>1. CASE job' = [job EXCEPT ![c].done = n]
    <3>1. job'[c].pc = "send" /\ job'[c].frame = job[c].frame /\ job'[c].id = job[c].id
      BY <1>0, <1>4, <2>1 DEF SendJob
    <3> QED
      BY <1>0, <1>4, <2>1, <3>1 DEF Named, JobNamed
  <2>2. CASE job' = [job EXCEPT ![c] = After(c)]
    <3>1. JobNamed(After(c), KnownId)
      <4>1. CASE job[c].then = "body"
        <5>1. After(c) = [pc |-> "body", id |-> job[c].id, req |-> job[c].req]
          BY <4>1 DEF After
        <5> QED
          BY <1>4, <5>1 DEF JobNamed
      <4>2. CASE job[c].then # "body"
        <5>1. After(c).pc \in {"connect", "recv", "idle"}
          BY <4>2 DEF After, Idle
        <5> QED
          BY <5>1 DEF JobNamed
      <4> QED
        BY <4>1, <4>2
    <3> QED
      BY <1>0, <2>2, <3>1 DEF Named
  <2> QED
    BY <1>3, <2>1, <2>2
<1>6. ASSUME NEW i \in 1 .. Len(wire') PROVE wire'[i].frame.id \in KnownId
  <2>1. CASE wire' = wire
    BY <1>0, <1>6, <2>1 DEF Named
  <2>2. CASE wire' = wire \o Pieces(c, Left(c), n)
    <3>1. PICK w, p, k : /\ w = wire /\ p = Pieces(c, Left(c), n) /\ k = job[c].done
      OBVIOUS
    <3>2. /\ p \in Seq([frame : AFrame, part : {1, 2}])
          /\ w \in Seq([frame : AFrame, part : {1, 2}])
          /\ Len(p) = n - k /\ wire' = w \o p
          /\ \A m \in 1 .. Len(p) : p[m].frame.id \in KnownId
      <4>1. /\ p \in Seq([frame : AFrame, part : {1, 2}]) /\ Len(p) = n - k
            /\ \A m \in 1 .. n - k : p[m] =
                  [frame |-> IF job[c].own THEN job[c].frame ELSE stack, part |-> k + m]
        BY <1>1, <1>3, <3>1, PiecesType
      <4>2. w \in Seq([frame : AFrame, part : {1, 2}]) /\ wire' = w \o p
        BY <2>2, <3>1 DEF Http2Types
      <4>3. PICK g : g = IF job[c].own THEN job[c].frame ELSE stack
        OBVIOUS
      <4>4. g.id \in KnownId /\ \A m \in 1 .. n - k : p[m] = [frame |-> g, part |-> k + m]
        BY <1>0, <1>4, <4>1, <4>3
      <4>5. ASSUME NEW m \in 1 .. n - k PROVE p[m].frame.id \in KnownId
        <5>1. p[m] = [frame |-> g, part |-> k + m]
          BY <4>4
        <5>2. p[m].frame = g
          BY <5>1
        <5> QED
          BY <4>4, <5>2
      <4> QED
        BY <4>1, <4>2, <4>5
    <3>3. /\ Len(w) \in Nat /\ Len(p) \in Nat /\ Len(w \o p) = Len(w) + Len(p)
          /\ \A m \in 1 .. Len(w) + Len(p) :
                (w \o p)[m] = IF m <= Len(w) THEN w[m] ELSE p[m - Len(w)]
      BY <3>2, Concatenation
    <3>4. \A m \in 1 .. Len(w) : w[m].frame.id \in KnownId
      BY <1>0, <3>1 DEF Named
    <3>5. i \in 1 .. Len(w) + Len(p) /\ wire'[i] = (w \o p)[i]
      BY <1>6, <3>2, <3>3
    <3>6. CASE i <= Len(w)
      <4>1. i \in 1 .. Len(w) /\ wire'[i] = w[i]
        BY <3>3, <3>5, <3>6
      <4> QED
        BY <3>4, <4>1
    <3>7. CASE ~ (i <= Len(w))
      <4>1. i - Len(w) \in 1 .. Len(p) /\ wire'[i] = p[i - Len(w)]
        BY <3>3, <3>5, <3>7
      <4> QED
        BY <3>2, <4>1
    <3> QED
      BY <3>6, <3>7
  <2> QED
    BY <1>3, <2>1, <2>2
<1>7. Named'
  BY <1>0, <1>1, <1>5, <1>6 DEF Named, JobNamed
<1> QED
  BY <1>1, <1>2, <1>7, QuietReceive

-----------------------------------------------------------------------------
(* A new stream *)

\* The bound on requests keeps stream_id among Ids.
LEMMA NewId ==
    ASSUME Http2Types, ReceiveTypes, NEW c \in Co, NEW r, send_http_header_frame(c, r)
    PROVE  stream_id \in Ids
<1>1. InFlight \in Nat
  <2>1. PICK S : S = {d \in Co : job[d].pc \in {"send", "body"} /\ job[d].req # NoReq}
    OBVIOUS
  <2>2. IsFiniteSet(S)
    BY <2>1, Http2Constants, FS_Subset
  <2> QED
    BY <2>1, <2>2, FS_CardinalityType DEF InFlight
<1>2. PICK k, n : k = stream_id \div 2 /\ n = InFlight
  OBVIOUS
<1>3. k + n < MaxRequests /\ n \in Nat /\ MaxRequests \in Nat /\ stream_id \in Nat
      /\ stream_id % 2 = 1
  BY <1>1, <1>2, Http2Constants DEF send_http_header_frame, Http2Types, ReceiveTypes
<1>4. k \in Nat /\ stream_id = 2 * k + 1
  BY <1>2, <1>3
<1>5. k + 1 \in 1 .. MaxRequests + 1 /\ stream_id = 2 * (k + 1) - 1
  BY <1>3, <1>4
<1> QED
  BY <1>5 DEF Ids

LEMMA ReceiveRequest ==
    ASSUME Http2Types, ReceiveInv, NEW c \in Co, NEW r \in Requests, send_http_header_frame(c, r)
    PROVE  ReceiveInv'
<1>0. /\ job \in [Co -> Job] /\ Named /\ Offered /\ ReceiveTypes /\ stream_id \in Ids
  BY NewId DEF Http2Types, ReceiveInv
<1>1. /\ UNCHANGED <<stream_id, settings, fault, wire, answers, rx, peer>>
      /\ DOMAIN streams' = DOMAIN streams \cup {stream_id}
      /\ \A id \in DOMAIN streams : streams'[id] = streams[id]
      /\ stream_id \notin DOMAIN streams => streams'[stream_id] = NewStream(r)
      /\ (exact' => exact)
  <2>1. exact' = exact
    BY DEF send_http_header_frame
  <2> QED
    BY <2>1 DEF send_http_header_frame
<1>2. Window \in Nat
  BY Http2Constants
<1>3. NewStream(r) \in AStream /\ NewStream(r).body = 0 /\ NewStream(r).buffer = 0
      /\ NewStream(r).window = Window
  BY <1>2 DEF NewStream, AStream
<1>4. ReceiveTypes'
  <2>1. DOMAIN streams' \subseteq Ids
    BY <1>0, <1>1 DEF ReceiveTypes
  <2>2. streams' \in [DOMAIN streams' -> AStream]
    <3>1. streams \in [DOMAIN streams -> AStream]
      BY <1>0 DEF ReceiveTypes
    <3> QED
      BY <1>3, <3>1 DEF send_http_header_frame
  <2> QED
    BY <1>0, <1>1, <2>1, <2>2 DEF ReceiveTypes
<1>5. Named'
  <2>1. PICK f : f = header_frame(r)
    OBVIOUS
  <2>2. f.id = stream_id /\ stack' = f /\ Send(c, f, FALSE, "body", r)
    BY <2>1 DEF header_frame, Frame, send_http_header_frame
  <2>3. f.id \in KnownId' /\ DOMAIN streams \subseteq DOMAIN streams'
    BY <1>1, <2>2 DEF KnownId
  <2> QED
    BY <1>0, <1>1, <2>2, <2>3, SendNamed, NamedStep
<1>6. Offered'
  BY <1>0, <1>1 DEF Offered
<1>7. EndsLast => EndsLast'
  BY <1>1 DEF EndsLast
<1>8. Answered => Answered'
  BY <1>1 DEF Answered
<1>9. ASSUME Counted, Answered PROVE Counted'
  <2>1. \A id : AnswersTo(id)' = AnswersTo(id) /\ Unread(id)' = Unread(id)
    BY <1>1 DEF AnswersTo, Unread
  <2>2. AllUnread' = AllUnread
    BY <1>1 DEF AllUnread
  <2>3. ASSUME stream_id \notin DOMAIN streams
        PROVE  Unread(stream_id) = {} /\ peer.data[stream_id] = 0
    <3>1. stream_id \notin peer.headers
      BY <1>0, <2>3 DEF Offered
    <3> QED
      BY <1>0, <3>1 DEF Offered, Unread, StreamFrame
  <2>4. Cardinality({}) = 0
    BY FS_EmptySet
  <2>5. ASSUME NEW id \in DOMAIN streams'
        PROVE  /\ AnswersTo(id) = {} =>
                    /\ streams'[id].body = 0
                    /\ streams'[id].buffer = peer.data[id] - Cardinality(Unread(id))
               /\ streams'[id].window = Window - peer.data[id] + Cardinality(Unread(id))
    <3>1. CASE id \in DOMAIN streams
      BY <1>1, <1>9, <3>1 DEF Counted
    <3>2. CASE id \notin DOMAIN streams
      <4>1. id = stream_id /\ streams'[id] = NewStream(r)
        BY <1>1, <2>5, <3>2
      <4>2. peer.data[id] = 0 /\ Cardinality(Unread(id)) = 0
        BY <2>3, <2>4, <3>2, <4>1
      <4>3. Window - 0 + 0 = Window /\ 0 - 0 = 0
        BY <1>2
      <4> QED
        BY <1>3, <4>1, <4>2, <4>3
    <3> QED
      BY <3>1, <3>2
  <2> QED
    BY <1>1, <1>9, <2>1, <2>2, <2>5 DEF Counted
<1> QED
  BY <1>1, <1>4, <1>5, <1>6, <1>7, <1>8, <1>9 DEF ReceiveInv

-----------------------------------------------------------------------------
(* The server sends a frame *)

LEMMA ReceiveReply ==
    ASSUME Http2Types, ReceiveInv, ServerOnly,
           NEW f \in ServerFrame, rx' = Append(rx, f), peer' \in Server,
           f.type # "PRI", f.type = "HEADERS" => f.len = 0,
           StreamFrame(f) => /\ f.id \in peer'.headers /\ f.id \notin peer.ended
                             /\ f.es => f.id \in peer'.ended,
           peer.headers \subseteq peer'.headers, peer'.headers \subseteq DOMAIN streams,
           peer.ended \subseteq peer'.ended, peer'.ended \subseteq peer'.headers,
           \A id \in Ids : peer'.data[id] =
                              peer.data[id] + IF Payload(f) /\ f.id = id THEN 1 ELSE 0,
           peer'.sent = peer.sent + IF Payload(f) THEN 1 ELSE 0
    PROVE  ReceiveInv'
<1>0. /\ UNCHANGED <<job, streams, stream_id, settings, stack, fault, wire, answers>>
      /\ (exact' => exact) /\ rx \in Seq(ServerFrame)
  <2>1. exact' = exact
    BY DEF ServerOnly, histVars
  <2> QED
    BY <2>1 DEF ServerOnly, clientVars, histVars, Http2Types
<1>1. ReceiveTypes'
  BY <1>0 DEF ReceiveInv, ReceiveTypes
<1>2. Named'
  BY <1>0 DEF ReceiveInv, Named, JobNamed, KnownId
<1>3. PICK n : n = Len(rx)
  OBVIOUS
<1>4. /\ n \in Nat /\ Len(rx') = n + 1 /\ rx'[n + 1] = f
      /\ \A i \in 1 .. n : rx'[i] = rx[i]
      /\ Cardinality(AllUnread)' = Cardinality(AllUnread) + IF Payload(f) THEN 1 ELSE 0
      /\ \A id : Cardinality(Unread(id))' =
                    Cardinality(Unread(id)) + IF Payload(f) /\ f.id = id THEN 1 ELSE 0
  BY <1>0, <1>3, UnreadAppend
<1>5. \A i : i \in 1 .. n + 1 <=> i \in 1 .. n \/ i = n + 1
  BY <1>4
<1>6. \A i \in 1 .. n : i <= n + 1 /\ n + 1 <= n + 1
  BY <1>4
<1>7. Offered'
  <2>1. Offered
    BY DEF ReceiveInv
  <2>2. \A i \in 1 .. n + 1 : /\ rx'[i].type # "PRI"
                              /\ rx'[i].type = "HEADERS" => rx'[i].len = 0
                              /\ StreamFrame(rx'[i]) => rx'[i].id \in peer'.headers
    BY <1>3, <1>4, <1>5, <2>1 DEF Offered
  <2>3. ASSUME NEW id \in Ids, id \notin peer'.headers PROVE peer'.data[id] = 0
    <3>1. peer.data[id] = 0 /\ id \notin peer.headers
      BY <2>1, <2>3 DEF Offered
    <3>2. ~ (Payload(f) /\ f.id = id)
      BY <2>3 DEF Payload, StreamFrame
    <3> QED
      BY <3>1, <3>2
  <2> QED
    BY <1>0, <1>4, <2>2, <2>3 DEF Offered, StreamFrame
<1>8. ASSUME EndsLast PROVE EndsLast'
  <2>1. ASSUME NEW i \in 1 .. n + 1, StreamFrame(rx'[i]), rx'[i].es
        PROVE  /\ rx'[i].id \in peer'.ended
               /\ \A j \in 1 .. n + 1 : StreamFrame(rx'[j]) /\ rx'[j].id = rx'[i].id => j <= i
    <3>1. CASE i \in 1 .. n
      <4>1. /\ rx[i].id \in peer.ended
            /\ \A j \in 1 .. n : StreamFrame(rx[j]) /\ rx[j].id = rx[i].id => j <= i
        BY <1>3, <1>4, <1>8, <2>1, <3>1 DEF EndsLast
      <4>2. ~ (StreamFrame(f) /\ f.id = rx[i].id)
        BY <4>1
      <4> QED
        BY <1>4, <1>5, <3>1, <4>1, <4>2
    <3>2. CASE i = n + 1
      BY <1>4, <1>5, <1>6, <2>1, <3>2
    <3> QED
      BY <1>5, <3>1, <3>2
  <2> QED
    BY <1>4, <2>1 DEF EndsLast, StreamFrame
<1>9. ASSUME Answered PROVE Answered'
  <2>1. ASSUME NEW i \in 1 .. Len(answers)
        PROVE  /\ answers[i].id \in peer'.ended
               /\ answers[i].body = peer'.data[answers[i].id]
               /\ \A j \in 1 .. Len(answers) : answers[j].id = answers[i].id => i = j
               /\ \A j \in 1 .. n + 1 : StreamFrame(rx'[j]) => rx'[j].id # answers[i].id
    <3>1. /\ answers[i].id \in peer.ended /\ answers[i].body = peer.data[answers[i].id]
          /\ \A j \in 1 .. Len(answers) : answers[j].id = answers[i].id => i = j
          /\ \A j \in 1 .. n : StreamFrame(rx[j]) => rx[j].id # answers[i].id
      BY <1>3, <1>9 DEF Answered
    <3>2. ~ (StreamFrame(f) /\ f.id = answers[i].id)
      BY <3>1
    <3>3. ~ (Payload(f) /\ f.id = answers[i].id)
      BY <3>2 DEF Payload, StreamFrame
    <3>4. peer \in Server
      BY DEF ReceiveInv, ReceiveTypes
    <3>5. answers[i].id \in Ids /\ peer.data[answers[i].id] \in Nat
      BY <3>1, <3>4 DEF Server
    <3>6. peer'.data[answers[i].id] = peer.data[answers[i].id]
      BY <3>3, <3>5
    <3> QED
      BY <1>4, <1>5, <3>1, <3>2, <3>6
  <2> QED
    BY <1>0, <1>4, <2>1 DEF Answered, StreamFrame
<1>10. ASSUME Counted PROVE Counted'
  <2>1. \A id : AnswersTo(id)' = AnswersTo(id)
    BY <1>0 DEF AnswersTo
  <2>2. /\ Cardinality(AllUnread) \in Nat /\ \A id : Cardinality(Unread(id)) \in Nat
    BY <1>0, UnreadType
  <2>3. /\ peer \in Server /\ DOMAIN streams \subseteq Ids /\ Window \in Nat
        /\ peer.sent \in Nat /\ peer.data \in [Ids -> Nat]
    BY Http2Constants DEF ReceiveInv, ReceiveTypes, Server
  <2>4. settings.local_window = Window - peer'.sent + Cardinality(AllUnread)'
    <3>1. PICK u, x : u = Cardinality(AllUnread) /\ x = IF Payload(f) THEN 1 ELSE 0
      OBVIOUS
    <3>2. /\ settings.local_window = Window - peer.sent + u /\ u \in Nat /\ x \in Nat
          /\ Cardinality(AllUnread)' = u + x /\ peer'.sent = peer.sent + x
      BY <1>4, <1>10, <2>2, <3>1 DEF Counted
    <3> QED
      BY <2>3, <3>2
  <2>5. ASSUME NEW id \in DOMAIN streams
        PROVE  /\ AnswersTo(id) = {} =>
                    /\ streams[id].body = 0
                    /\ streams[id].buffer = peer'.data[id] - Cardinality(Unread(id))'
               /\ streams[id].window = Window - peer'.data[id] + Cardinality(Unread(id))'
    <3>1. PICK u, d, x : /\ u = Cardinality(Unread(id)) /\ d = peer.data[id]
                         /\ x = IF Payload(f) /\ f.id = id THEN 1 ELSE 0
      OBVIOUS
    <3>2. /\ u \in Nat /\ d \in Nat /\ x \in Nat
          /\ Cardinality(Unread(id))' = u + x /\ peer'.data[id] = d + x
      BY <1>4, <2>2, <2>3, <3>1
    <3>3. /\ AnswersTo(id) = {} => streams[id].body = 0 /\ streams[id].buffer = d - u
          /\ streams[id].window = Window - d + u
      BY <1>10, <3>1 DEF Counted
    <3> QED
      BY <2>3, <3>2, <3>3
  <2> QED
    BY <1>0, <2>1, <2>4, <2>5 DEF Counted
<1> QED
  BY <1>0, <1>1, <1>2, <1>7, <1>8, <1>9, <1>10 DEF ReceiveInv

\* The server answers what the client has asked for.
LEMMA AskedKnown ==
    ASSUME Http2Types, ReceiveInv, NEW id \in Asked
    PROVE  id \in Ids /\ id \in Nat /\ id \in DOMAIN streams
<1>1. id \in Ids /\ \E i \in DOMAIN wire : wire[i].frame.id = id
  BY DEF Asked
<1>2. DOMAIN wire = 1 .. Len(wire)
  BY DEF Http2Types
<1>3. id \in KnownId
  BY <1>1, <1>2 DEF ReceiveInv, Named
<1>4. id \in Nat \ {0}
  BY <1>1, Http2Constants DEF Ids
<1> QED
  BY <1>1, <1>3, <1>4 DEF KnownId

LEMMA ReceiveServer ==
    ASSUME Http2Types, ReceiveInv,
           \/ \E id \in Ids : server_headers(id) \/ server_data(id)
           \/ server_settings \/ server_closes
    PROVE  ReceiveInv'
<1>0. /\ peer \in Server /\ Offered /\ ReceiveTypes /\ Named
      /\ peer.ended \subseteq peer.headers /\ peer.headers \subseteq DOMAIN streams
      /\ DOMAIN streams \subseteq Ids
  BY DEF ReceiveInv, ReceiveTypes, Offered
<1>1. /\ DOMAIN peer = {"open", "data", "sent", "ended", "headers", "control"}
      /\ peer.open \in BOOLEAN /\ peer.data \in [Ids -> Nat] /\ peer.sent \in Nat
      /\ peer.ended \subseteq Ids /\ peer.headers \subseteq Ids /\ peer.control \in Nat
  BY <1>0 DEF Server
<1>2. \A id \in Ids : id \in Nat
  BY Http2Constants DEF Ids
<1>3. ASSUME NEW id \in Ids, server_headers(id) PROVE ReceiveInv'
  <2>1. id \in DOMAIN streams /\ id \notin peer.headers /\ ServerOnly
    BY <1>3, AskedKnown DEF server_headers
  <2>2. PICK es \in BOOLEAN :
           /\ rx' = Append(rx, Frame("HEADERS", id, es, 0, 0))
           /\ peer' = [peer EXCEPT !.headers = @ \cup {id},
                                   !.ended = IF es THEN @ \cup {id} ELSE @]
    BY <1>3 DEF server_headers, Reply
  <2>3. PICK f : f = Frame("HEADERS", id, es, 0, 0)
    OBVIOUS
  <2>4. /\ f \in ServerFrame /\ f.type = "HEADERS" /\ f.id = id /\ (f.es <=> es) /\ f.len = 0
    BY <1>2, <2>3, Frames DEF Frame
  <2>5. /\ peer'.headers = peer.headers \cup {id}
        /\ peer'.ended = IF es THEN peer.ended \cup {id} ELSE peer.ended
        /\ peer'.data = peer.data /\ peer'.sent = peer.sent
    BY <1>1, <2>2
  <2>6. peer' \in Server
    BY <1>0, <2>2 DEF Server
  <2>7. ~ Payload(f)
    BY <2>4 DEF Payload
  <2>8. \A k \in Ids : peer'.data[k] = peer.data[k] + IF Payload(f) /\ f.id = k THEN 1 ELSE 0
    BY <1>1, <2>5, <2>7
  <2>9. peer'.sent = peer.sent + IF Payload(f) THEN 1 ELSE 0
    BY <1>1, <2>5, <2>7
  <2>10. f.id \in peer'.headers /\ f.id \notin peer.ended /\ (f.es => f.id \in peer'.ended)
    BY <1>0, <2>1, <2>4, <2>5
  <2>11. /\ peer.headers \subseteq peer'.headers /\ peer'.headers \subseteq DOMAIN streams
         /\ peer.ended \subseteq peer'.ended /\ peer'.ended \subseteq peer'.headers
    BY <1>0, <2>1, <2>5
  <2>12. rx' = Append(rx, f) /\ f.type # "PRI"
    BY <2>2, <2>3, <2>4
  <2> QED
    BY <2>1, <2>4, <2>6, <2>8, <2>9, <2>10, <2>11, <2>12, ReceiveReply
<1>4. ASSUME NEW id \in Ids, server_data(id) PROVE ReceiveInv'
  <2>1. id \in peer.headers /\ id \notin peer.ended /\ ServerOnly
    BY <1>4 DEF server_data
  <2>2. PICK es \in BOOLEAN, n \in {0, 1} :
           /\ rx' = Append(rx, Frame("DATA", id, es, 0, n))
           /\ peer' = [peer EXCEPT !.data[id] = @ + n, !.sent = @ + n,
                                   !.ended = IF es THEN @ \cup {id} ELSE @]
    BY <1>4 DEF server_data, Reply
  <2>3. PICK f : f = Frame("DATA", id, es, 0, n)
    OBVIOUS
  <2>4. /\ f \in ServerFrame /\ f.type = "DATA" /\ f.id = id /\ (f.es <=> es) /\ f.len = n
    BY <1>2, <2>3, Frames DEF Frame
  <2>5. /\ peer'.headers = peer.headers
        /\ peer'.ended = IF es THEN peer.ended \cup {id} ELSE peer.ended
        /\ peer'.data = [peer.data EXCEPT ![id] = @ + n] /\ peer'.sent = peer.sent + n
    BY <1>1, <2>2
  <2>6. peer' \in Server
    <3>1. [peer.data EXCEPT ![id] = @ + n] \in [Ids -> Nat] /\ peer.sent + n \in Nat
      BY <1>1
    <3> QED
      BY <1>0, <2>2, <3>1 DEF Server
  <2>7. Payload(f) <=> n = 1
    BY <2>4 DEF Payload
  <2>8. \A k \in Ids : peer'.data[k] = peer.data[k] + IF Payload(f) /\ f.id = k THEN 1 ELSE 0
    BY <1>1, <2>4, <2>5, <2>7
  <2>9. peer'.sent = peer.sent + IF Payload(f) THEN 1 ELSE 0
    BY <1>1, <2>5, <2>7
  <2>10. f.id \in peer'.headers /\ f.id \notin peer.ended /\ (f.es => f.id \in peer'.ended)
    BY <1>0, <2>1, <2>4, <2>5
  <2>11. /\ peer.headers \subseteq peer'.headers /\ peer'.headers \subseteq DOMAIN streams
         /\ peer.ended \subseteq peer'.ended /\ peer'.ended \subseteq peer'.headers
    BY <1>0, <2>1, <2>5
  <2>12. rx' = Append(rx, f) /\ f.type # "PRI" /\ f.type # "HEADERS"
    BY <2>2, <2>3, <2>4
  <2> QED
    BY <2>1, <2>4, <2>6, <2>8, <2>9, <2>10, <2>11, <2>12, ReceiveReply
<1>5. CASE server_settings
  <2>1. ServerOnly /\ peer' = [peer EXCEPT !.control = @ + 1]
    BY <1>5 DEF server_settings
  <2>2. PICK f : /\ rx' = Append(rx, f) /\ f \in ServerFrame
                 /\ f.type \in Skipped \cup {"SETTINGS", "SETTINGS_ACK"}
    <3>1. \/ \E n \in Tables : rx' = Append(rx, Settings(n))
          \/ rx' = Append(rx, Ack(NoFrame))
          \/ \E t \in Control : rx' = Append(rx, Frame(t, 0, FALSE, 0, 0))
      BY <1>5 DEF server_settings, Reply
    <3>2. /\ \A n : Settings(n).type = "SETTINGS"
          /\ Ack(NoFrame).type = "SETTINGS_ACK"
          /\ \A t \in Control : Frame(t, 0, FALSE, 0, 0).type \in Skipped
      BY Http2Constants DEF Settings, Ack, NoFrame, Frame
    <3> QED
      BY <3>1, <3>2, Frames
  <2>3. ~ Payload(f) /\ ~ StreamFrame(f) /\ f.type # "PRI" /\ f.type # "HEADERS"
    BY <2>2 DEF Payload, StreamFrame, Skipped
  <2>4. /\ peer'.headers = peer.headers /\ peer'.ended = peer.ended
        /\ peer'.data = peer.data /\ peer'.sent = peer.sent
    BY <1>1, <2>1
  <2>5. peer' \in Server
    BY <1>0, <2>1 DEF Server
  <2>6. \A k \in Ids : peer'.data[k] = peer.data[k] + IF Payload(f) /\ f.id = k THEN 1 ELSE 0
    BY <1>1, <2>3, <2>4
  <2>7. peer'.sent = peer.sent + IF Payload(f) THEN 1 ELSE 0
    BY <1>1, <2>3, <2>4
  <2>8. /\ peer.headers \subseteq peer'.headers /\ peer'.headers \subseteq DOMAIN streams
        /\ peer.ended \subseteq peer'.ended /\ peer'.ended \subseteq peer'.headers
    BY <1>0, <2>4
  <2> QED
    BY <2>1, <2>2, <2>3, <2>5, <2>6, <2>7, <2>8, ReceiveReply
<1>6. CASE server_closes
  <2>1. ServerOnly /\ peer' = [peer EXCEPT !.open = FALSE, !.control = @ + 1] /\ UNCHANGED rx
    BY <1>6 DEF server_closes
  <2>2. /\ UNCHANGED <<job, streams, stream_id, settings, stack, fault, wire, answers>>
        /\ (exact' => exact)
    <3>1. exact' = exact
      BY <2>1 DEF ServerOnly, histVars
    <3> QED
      BY <2>1, <3>1 DEF ServerOnly, clientVars, histVars
  <2>3. /\ peer'.headers = peer.headers /\ peer'.ended = peer.ended
        /\ peer'.data = peer.data /\ peer'.sent = peer.sent
    BY <1>1, <2>1
  <2>4. peer' \in Server
    <3>1. peer' = [open |-> FALSE, data |-> peer.data, sent |-> peer.sent, ended |-> peer.ended,
                   headers |-> peer.headers, control |-> peer.control + 1]
      BY <1>0, <2>1 DEF Server
    <3>2. peer.control + 1 \in Nat
      BY <1>1
    <3> QED
      BY <1>1, <3>1, <3>2 DEF Server
  <2>5. ReceiveTypes'
    BY <1>0, <2>2, <2>4 DEF ReceiveTypes
  <2>6. Named'
    BY <1>0, <2>2 DEF Named, JobNamed, KnownId
  <2>7. Offered'
    BY <1>0, <2>1, <2>2, <2>3 DEF Offered, StreamFrame
  <2>8. EndsLast => EndsLast'
    BY <2>1, <2>3 DEF EndsLast, StreamFrame
  <2>9. Answered => Answered'
    BY <2>1, <2>2, <2>3 DEF Answered, StreamFrame
  <2>10. Counted => Counted'
    <3>1. /\ \A id : AnswersTo(id)' = AnswersTo(id) /\ Unread(id)' = Unread(id)
          /\ AllUnread' = AllUnread
      BY <2>1, <2>2 DEF AnswersTo, Unread, AllUnread
    <3> QED
      BY <2>2, <2>3, <3>1 DEF Counted
  <2> QED
    BY <2>2, <2>5, <2>6, <2>7, <2>8, <2>9, <2>10 DEF ReceiveInv
<1> QED
  BY <1>3, <1>4, <1>5, <1>6

-----------------------------------------------------------------------------
(* The client reads a frame *)

\* The stream after parse_frame of HEADERS or DATA.
Taken(f) ==
    LET s == parse_payload(streams[f.id], f.len)
    IN  IF Returns(f) THEN Ended(s) ELSE s

LEMMA TakenStream ==
    ASSUME ReceiveTypes, NEW f \in ServerFrame, f.id \in DOMAIN streams
    PROVE  LET s == streams[f.id] IN
           /\ Taken(f) \in AStream /\ Taken(f).window = s.window - f.len
           /\ ~ f.es => Taken(f).buffer = s.buffer + f.len /\ Taken(f).body = s.body
           /\ f.es => Taken(f).body = IF s.buffer + f.len > 0 THEN s.buffer + f.len ELSE s.body
<1>1. PICK s, p : s = streams[f.id] /\ p = parse_payload(s, f.len)
  OBVIOUS
<1>2. s \in AStream
  BY <1>1 DEF ReceiveTypes
<1>3. s.buffer \in Nat /\ s.window \in Int /\ s.body \in Nat /\ f.len \in {0, 1}
  BY <1>2 DEF AStream, ServerFrame, AFrame
<1>4. s.buffer + f.len \in Nat /\ s.window - f.len \in Int
  BY <1>3
<1>5. /\ p \in AStream /\ p.buffer = s.buffer + f.len /\ p.window = s.window - f.len
      /\ p.body = s.body
  BY <1>1, <1>2, <1>4 DEF parse_payload, AStream
<1>6. /\ Ended(p) \in AStream /\ Ended(p).window = p.window
      /\ Ended(p).body = IF p.buffer > 0 THEN p.buffer ELSE p.body
  BY <1>5 DEF Ended, AStream
<1>7. /\ f.es => Taken(f) = Ended(p)
      /\ ~ f.es => Taken(f) = p
  BY <1>1 DEF Taken, Returns
<1>8. CASE f.es
  BY <1>1, <1>5, <1>6, <1>7, <1>8
<1>9. CASE ~ f.es
  BY <1>1, <1>5, <1>7, <1>9
<1> QED
  BY <1>8, <1>9

\* The cases of parse_frame: a frame for the connection, a stream or a buffer
\* that is not there, a frame for a stream.
Passes(c, f) ==
    /\ f.type \in Skipped \cup {"SETTINGS", "SETTINGS_ACK"}
    /\ UNCHANGED <<streams, answers, fault>>
    /\ settings'.local_window = settings.local_window
    /\ NextFrame(c) \/ (Send(c, Ack(f), TRUE, "recv", NoReq) /\ f.id = 0)

Dies == fault' # "none" /\ UNCHANGED <<streams, answers, settings, job>>

Takes(c, f) ==
    /\ f.type \notin Skipped \cup {"SETTINGS", "SETTINGS_ACK"}
    /\ f.id \in DOMAIN streams /\ fault' = fault
    /\ streams' = [streams EXCEPT ![f.id] = Taken(f)]
    /\ settings' = [settings EXCEPT !.local_window = @ - f.len]
    /\ \/ f.es /\ job' = [job EXCEPT ![c] = Idle]
          /\ answers' = Append(answers, [id |-> f.id, body |-> Taken(f).body])
       \/ ~ f.es /\ NextFrame(c) /\ answers' = answers

LEMMA ParseCases ==
    ASSUME Http2Types, NEW c \in Co, NEW f \in ServerFrame, parse_frame(c, f)
    PROVE  Passes(c, f) \/ Dies \/ Takes(c, f)
<1>1. CASE f.type \in {"SETTINGS", "SETTINGS_ACK"}
  <2>1. parse_setting_frame(c, f)
    BY <1>1 DEF parse_frame, Skipped
  <2>2. settings'.local_window = settings.local_window
    BY <2>1 DEF parse_setting_frame, Http2Types
  <2>3. f.id = 0
    BY <1>1 DEF ServerFrame
  <2> QED
    BY <1>1, <2>1, <2>2, <2>3 DEF parse_setting_frame, Passes
<1>2. CASE f.type \in Skipped
  BY <1>2 DEF parse_frame, Skipped, Passes
<1>3. CASE f.type \notin Skipped \cup {"SETTINGS", "SETTINGS_ACK"}
  <2>1. parse_stream_frame(c, f)
    BY <1>3 DEF parse_frame
  <2>2. CASE Kill("null stream") \/ Kill("buffer")
    BY <2>2 DEF Kill, Dies
  <2>3. CASE ~ (Kill("null stream") \/ Kill("buffer"))
    <3>1. f.id \in DOMAIN streams
      BY <2>1, <2>3 DEF parse_stream_frame
    <3>2. /\ streams' = [streams EXCEPT ![f.id] = Taken(f)]
          /\ settings' = [settings EXCEPT !.local_window = @ - f.len]
          /\ fault' = fault
      BY <2>1, <2>3 DEF parse_stream_frame, Taken
    <3>3. \/ f.es /\ job' = [job EXCEPT ![c] = Idle]
             /\ answers' = Append(answers, [id |-> f.id, body |-> Taken(f).body])
          \/ ~ f.es /\ NextFrame(c) /\ answers' = answers
      BY <2>1, <2>3 DEF parse_stream_frame, Taken, Returns
    <3> QED
      BY <1>3, <3>1, <3>2, <3>3 DEF Takes
  <2> QED
    BY <2>2, <2>3
<1> QED
  BY <1>1, <1>2, <1>3

\* The next frame is read; what remains unread is one position further on.
LEMMA ReadTail ==
    ASSUME Http2Types, ReceiveInv, rx # << >>, rx' = Tail(rx), peer' = peer,
           DOMAIN streams' = DOMAIN streams
    PROVE  Offered' /\ (EndsLast => EndsLast')
<1>1. \A i \in 1 .. Len(rx') : i \in Nat /\ i + 1 \in 1 .. Len(rx) /\ rx'[i] = rx[i + 1]
  BY UnreadTail DEF Http2Types
<1>2. Offered'
  BY <1>1 DEF ReceiveInv, Offered, StreamFrame
<1>3. ASSUME EndsLast PROVE EndsLast'
  <2>1. ASSUME NEW i \in 1 .. Len(rx'), StreamFrame(rx'[i]), rx'[i].es
        PROVE  /\ rx'[i].id \in peer.ended
               /\ \A j \in 1 .. Len(rx') : StreamFrame(rx'[j]) /\ rx'[j].id = rx'[i].id => j <= i
    <3>1. /\ rx'[i].id \in peer.ended
          /\ \A j \in 1 .. Len(rx) : StreamFrame(rx[j]) /\ rx[j].id = rx'[i].id => j <= i + 1
      BY <1>1, <1>3, <2>1 DEF EndsLast
    <3>2. \A j \in 1 .. Len(rx') : j + 1 <= i + 1 => j <= i
      BY <1>1
    <3> QED
      BY <1>1, <3>1, <3>2
  <2> QED
    BY <2>1 DEF EndsLast, StreamFrame
<1> QED
  BY <1>2, <1>3

LEMMA ReadPasses ==
    ASSUME Http2Types, ReceiveInv, NEW c \in Co, rx # << >>, rx' = Tail(rx), peer' = peer,
           Passes(c, Head(rx)), Answered, Counted
    PROVE  Answered' /\ Counted'
<1>1. PICK f : f = Head(rx)
  OBVIOUS
<1>2. /\ \A i \in 1 .. Len(rx') : i \in Nat /\ i + 1 \in 1 .. Len(rx) /\ rx'[i] = rx[i + 1]
      /\ Cardinality(AllUnread) = Cardinality(AllUnread') + IF Payload(f) THEN 1 ELSE 0
      /\ \A id : Cardinality(Unread(id)) =
                    Cardinality(Unread(id)') + IF Payload(f) /\ f.id = id THEN 1 ELSE 0
      /\ Cardinality(AllUnread') \in Nat /\ \A id : Cardinality(Unread(id)') \in Nat
  BY <1>1, UnreadTail DEF Http2Types
<1>3. ~ Payload(f)
  BY <1>1 DEF Passes, Payload, Skipped
<1>7. /\ Cardinality(AllUnread)' = Cardinality(AllUnread)
      /\ \A id : Cardinality(Unread(id))' = Cardinality(Unread(id))
  BY <1>2, <1>3
<1>8. UNCHANGED <<streams, answers>> /\ settings'.local_window = settings.local_window
  BY DEF Passes
<1>9. Answered'
  BY <1>2, <1>8 DEF Answered, StreamFrame
<1>10. Counted'
  BY <1>7, <1>8 DEF Counted, AnswersTo
<1> QED
  BY <1>9, <1>10

LEMMA ReadTakes ==
    ASSUME Http2Types, ReceiveInv, NEW c \in Co, rx # << >>, rx' = Tail(rx), peer' = peer,
           Takes(c, Head(rx)), EndsLast, Answered, Counted
    PROVE  Answered' /\ Counted'
<1>0. PICK f, n : f = Head(rx) /\ n = Len(answers)
  OBVIOUS
<1>1. /\ f = rx[1] /\ f \in ServerFrame /\ 1 \in 1 .. Len(rx)
      /\ \A i \in 1 .. Len(rx') : i \in Nat /\ i + 1 \in 1 .. Len(rx) /\ rx'[i] = rx[i + 1]
      /\ Cardinality(AllUnread) = Cardinality(AllUnread') + IF Payload(f) THEN 1 ELSE 0
      /\ \A id : Cardinality(Unread(id)) =
                    Cardinality(Unread(id)') + IF Payload(f) /\ f.id = id THEN 1 ELSE 0
      /\ Cardinality(AllUnread') \in Nat /\ \A id : Cardinality(Unread(id)') \in Nat
  BY <1>0, UnreadTail DEF Http2Types
<1>2. /\ f.type \in FrameType /\ f.type \notin Skipped \cup {"SETTINGS", "SETTINGS_ACK"}
      /\ f.len \in {0, 1} /\ f.id \in DOMAIN streams
  BY <1>0, <1>1 DEF Takes, ServerFrame, AFrame
<1>3. StreamFrame(f) /\ f.len = (IF Payload(f) THEN 1 ELSE 0)
  <2>1. f.type # "PRI" /\ (f.type = "HEADERS" => f.len = 0)
    BY <1>1 DEF ReceiveInv, Offered
  <2> QED
    BY <1>2, <2>1 DEF FrameType, StreamFrame, Payload
<1>4. /\ ReceiveTypes /\ peer.data \in [Ids -> Nat] /\ peer.sent \in Nat /\ f.id \in Ids
      /\ answers \in Seq([id : Nat, body : Nat]) /\ n \in Nat /\ settings.local_window \in Int
      /\ Window \in Nat /\ DOMAIN streams \subseteq Ids
  <2>1. /\ ReceiveTypes /\ peer \in Server /\ settings.local_window \in Int
        /\ answers \in Seq([id : Nat, body : Nat]) /\ DOMAIN streams \subseteq Ids
    BY DEF ReceiveInv, ReceiveTypes
  <2>2. peer.data \in [Ids -> Nat] /\ peer.sent \in Nat
    BY <2>1 DEF Server
  <2>3. n \in Nat
    BY <1>0, <2>1, SeqElements
  <2>4. Window \in Nat
    BY Http2Constants
  <2> QED
    BY <1>2, <2>1, <2>2, <2>3, <2>4
<1>5. \A i \in 1 .. n : answers[i].id # f.id
  BY <1>0, <1>1, <1>3 DEF Answered
<1>6. AnswersTo(f.id) = {}
  BY <1>0, <1>5 DEF AnswersTo
<1>7. PICK s, t, u, d : /\ s = streams[f.id] /\ t = Taken(f)
                        /\ u = Cardinality(Unread(f.id)') /\ d = peer.data[f.id]
  OBVIOUS
<1>8. /\ s \in AStream /\ s.buffer \in Nat /\ s.window \in Int /\ u \in Nat /\ d \in Nat
  BY <1>1, <1>2, <1>4, <1>7 DEF ReceiveTypes, AStream
<1>9. Cardinality(Unread(f.id)) = u + f.len
  BY <1>1, <1>3, <1>7
<1>10. s.body = 0 /\ s.buffer = d - (u + f.len) /\ s.window = Window - d + (u + f.len)
  BY <1>2, <1>6, <1>7, <1>9 DEF Counted
<1>11. /\ t \in AStream /\ t.window = Window - d + u
       /\ ~ f.es => t.buffer = d - u /\ t.body = 0
       /\ f.es => t.body = IF d - u > 0 THEN d - u ELSE 0
  <2>1. /\ t \in AStream /\ t.window = s.window - f.len
        /\ ~ f.es => t.buffer = s.buffer + f.len /\ t.body = s.body
        /\ f.es => t.body = IF s.buffer + f.len > 0 THEN s.buffer + f.len ELSE s.body
    BY <1>1, <1>2, <1>4, <1>7, TakenStream
  <2>2. s.window - f.len = Window - d + u /\ s.buffer + f.len = d - u
    <3>1. PICK x : x = f.len
      OBVIOUS
    <3>2. /\ x \in {0, 1} /\ Window \in Nat /\ d \in Nat /\ u \in Nat
          /\ s.buffer = d - (u + x) /\ s.window = Window - d + (u + x)
      BY <1>2, <1>4, <1>8, <1>10, <3>1
    <3>3. Window - d + (u + x) - x = Window - d + u /\ d - (u + x) + x = d - u
      BY <3>2
    <3> QED
      BY <3>1, <3>2, <3>3
  <2> QED
    BY <1>10, <2>1, <2>2
<1>12. /\ streams' = [streams EXCEPT ![f.id] = t]
       /\ settings' = [settings EXCEPT !.local_window = @ - f.len]
       /\ f.es => answers' = Append(answers, [id |-> f.id, body |-> t.body])
       /\ ~ f.es => answers' = answers
  BY <1>0, <1>7 DEF Takes
<1>13. f.es => u = 0 /\ f.id \in peer.ended /\ t.body = d
               /\ \A j \in 1 .. Len(rx') : StreamFrame(rx'[j]) => rx'[j].id # f.id
  <2>1. SUFFICES ASSUME f.es
                 PROVE  u = 0 /\ f.id \in peer.ended /\ t.body = d
                        /\ \A j \in 1 .. Len(rx') : StreamFrame(rx'[j]) => rx'[j].id # f.id
    OBVIOUS
  <2>2. /\ f.id \in peer.ended
        /\ \A j \in 1 .. Len(rx) : StreamFrame(rx[j]) /\ rx[j].id = f.id => j <= 1
    BY <1>1, <1>3, <2>1 DEF EndsLast
  <2>3. \A j \in 1 .. Len(rx') : ~ (j + 1 <= 1)
    BY <1>1
  <2>4. \A j \in 1 .. Len(rx') : StreamFrame(rx'[j]) => rx'[j].id # f.id
    BY <1>1, <2>2, <2>3
  <2>5. Unread(f.id)' = {}
    BY <2>4 DEF Unread, StreamFrame
  <2>6. u = 0
    BY <1>7, <2>5, FS_EmptySet
  <2>7. t.body = d
    BY <1>8, <1>11, <2>1, <2>6
  <2> QED
    BY <2>2, <2>4, <2>6, <2>7
<1>14. \A i \in 1 .. n : \A j \in 1 .. Len(rx') : StreamFrame(rx'[j]) => rx'[j].id # answers[i].id
  BY <1>0, <1>1 DEF Answered
<1>15. Answered'
  <2>1. CASE ~ f.es
    BY <1>0, <1>12, <1>14, <2>1 DEF Answered, StreamFrame
  <2>2. CASE f.es
    <3>1. PICK a : a = [id |-> f.id, body |-> t.body]
      OBVIOUS
    <3>2. a.id = f.id /\ a.body = d /\ answers' = Append(answers, a)
      BY <1>12, <1>13, <2>2, <3>1
    <3>3. /\ Len(answers') = n + 1 /\ answers'[n + 1] = a
          /\ \A i \in 1 .. n : answers'[i] = answers[i]
      BY <1>0, <1>4, <3>2
    <3>4. \A i : i \in 1 .. n + 1 <=> i \in 1 .. n \/ i = n + 1
      BY <1>4
    <3>5. ASSUME NEW i \in 1 .. n + 1
          PROVE  /\ answers'[i].id \in peer.ended
                 /\ answers'[i].body = peer.data[answers'[i].id]
                 /\ \A j \in 1 .. n + 1 : answers'[j].id = answers'[i].id => i = j
                 /\ \A j \in 1 .. Len(rx') : StreamFrame(rx'[j]) => rx'[j].id # answers'[i].id
      <4>1. CASE i \in 1 .. n
        <5>1. /\ answers[i].id \in peer.ended /\ answers[i].body = peer.data[answers[i].id]
              /\ \A j \in 1 .. n : answers[j].id = answers[i].id => i = j
          BY <1>0, <4>1 DEF Answered
        <5> QED
          BY <1>5, <1>14, <3>2, <3>3, <3>4, <4>1, <5>1
      <4>2. CASE i = n + 1
        BY <1>5, <1>7, <1>13, <2>2, <3>2, <3>3, <3>4, <4>2
      <4> QED
        BY <3>4, <4>1, <4>2
    <3> QED
      BY <3>3, <3>5 DEF Answered, StreamFrame
  <2> QED
    BY <2>1, <2>2
<1>16. \A id : id # f.id => AnswersTo(id)' = AnswersTo(id)
  <2>1. CASE ~ f.es
    BY <1>12, <2>1 DEF AnswersTo
  <2>2. CASE f.es
    <3>1. PICK a : a = [id |-> f.id, body |-> t.body]
      OBVIOUS
    <3>2. a.id = f.id /\ answers' = Append(answers, a)
      BY <1>12, <2>2, <3>1
    <3>3. /\ Len(answers') = n + 1 /\ answers'[n + 1] = a
          /\ \A i \in 1 .. n : answers'[i] = answers[i]
      BY <1>0, <1>4, <3>2
    <3>4. \A i : i \in 1 .. n + 1 <=> i \in 1 .. n \/ i = n + 1
      BY <1>4
    <3> QED
      BY <1>0, <3>2, <3>3, <3>4 DEF AnswersTo
  <2> QED
    BY <2>1, <2>2
<1>17. f.es => AnswersTo(f.id)' # {}
  <2>1. SUFFICES ASSUME f.es PROVE AnswersTo(f.id)' # {}
    OBVIOUS
  <2>2. PICK a : a = [id |-> f.id, body |-> t.body]
    OBVIOUS
  <2>3. a.id = f.id /\ answers' = Append(answers, a)
    BY <1>12, <2>1, <2>2
  <2>4. Len(answers') = n + 1 /\ answers'[n + 1] = a /\ n + 1 \in 1 .. n + 1
    BY <1>0, <1>4, <2>3
  <2> QED
    BY <2>3, <2>4 DEF AnswersTo
<1>18. ASSUME NEW id \in DOMAIN streams
       PROVE  /\ AnswersTo(id)' = {} =>
                   /\ streams'[id].body = 0
                   /\ streams'[id].buffer = peer.data[id] - Cardinality(Unread(id)')
              /\ streams'[id].window = Window - peer.data[id] + Cardinality(Unread(id)')
  <2>1. CASE id = f.id
    <3>1. streams'[id] = t
      BY <1>2, <1>12, <2>1
    <3> QED
      BY <1>7, <1>11, <1>17, <2>1, <3>1
  <2>2. CASE id # f.id
    <3>1. streams'[id] = streams[id]
      BY <1>12, <1>18, <2>2
    <3>2. Cardinality(Unread(id)') = Cardinality(Unread(id))
      BY <1>1, <2>2
    <3> QED
      BY <1>16, <1>18, <2>2, <3>1, <3>2 DEF Counted
  <2> QED
    BY <2>1, <2>2
<1>19. settings'.local_window = Window - peer.sent + Cardinality(AllUnread')
  <2>1. PICK v : v = Cardinality(AllUnread')
    OBVIOUS
  <2>2. v \in Nat /\ Cardinality(AllUnread) = v + f.len
    BY <1>1, <1>3, <2>1
  <2>3. settings.local_window = Window - peer.sent + (v + f.len)
    BY <2>2 DEF Counted
  <2>4. settings'.local_window = settings.local_window - f.len
    BY <1>12 DEF Http2Types
  <2> QED
    BY <1>2, <1>4, <2>1, <2>2, <2>3, <2>4
<1>20. Counted'
  <2>1. DOMAIN streams' = DOMAIN streams
    BY <1>12
  <2> QED
    BY <1>18, <1>19, <2>1 DEF Counted
<1> QED
  BY <1>15, <1>20

\* parse_frame keeps the client's records in shape, whatever it parses.
LEMMA ParseKeeps ==
    ASSUME Http2Types, ReceiveInv, NEW c \in Co, NEW f \in ServerFrame,
           Passes(c, f) \/ Dies \/ Takes(c, f),
           UNCHANGED <<peer, stream_id, stack, wire>>
    PROVE  ReceiveTypes' /\ Named' /\ DOMAIN streams' = DOMAIN streams
<1>0. /\ ReceiveTypes /\ Named /\ job \in [Co -> Job] /\ f.id \in Nat /\ f.len \in {0, 1}
      /\ streams \in [DOMAIN streams -> AStream] /\ settings.local_window \in Int
      /\ answers \in Seq([id : Nat, body : Nat])
      /\ DOMAIN settings = {"local_window", "remote_table"}
  BY DEF ReceiveInv, ReceiveTypes, Http2Types, ServerFrame, AFrame
<1>1. CASE Takes(c, f)
  <2>1. Taken(f) \in AStream
    BY <1>0, <1>1, TakenStream DEF Takes
  <2>2. streams' \in [DOMAIN streams -> AStream] /\ DOMAIN streams' = DOMAIN streams
    BY <1>0, <1>1, <2>1 DEF Takes
  <2>3. settings'.local_window = settings.local_window - f.len
    BY <1>0, <1>1 DEF Takes
  <2>4. settings'.local_window \in Int
    BY <1>0, <2>3
  <2>5. answers' \in Seq([id : Nat, body : Nat])
    <3>1. [id |-> f.id, body |-> Taken(f).body] \in [id : Nat, body : Nat]
      BY <1>0, <2>1 DEF AStream
    <3>2. PICK T, a : /\ T = [id : Nat, body : Nat]
                      /\ a = [id |-> f.id, body |-> Taken(f).body]
      OBVIOUS
    <3>3. a \in T /\ answers \in Seq(T) /\ (answers' = answers \/ answers' = Append(answers, a))
      BY <1>0, <1>1, <3>1, <3>2 DEF Takes
    <3>4. answers' \in Seq(T)
      BY <3>3
    <3> QED
      BY <3>2, <3>4
  <2>6. ReceiveTypes'
    BY <1>0, <2>2, <2>4, <2>5 DEF ReceiveTypes
  <2>7. /\ JobNamed(Idle, KnownId') /\ JobNamed([pc |-> "recv"], KnownId')
        /\ stack'.id \in KnownId'
    BY <1>0, <2>2 DEF JobNamed, Idle, Named, KnownId
  <2>8. \A d \in Co : job'[d] = job[d] \/ JobNamed(job'[d], KnownId')
    BY <1>0, <1>1, <2>7 DEF Takes, NextFrame
  <2> QED
    BY <1>0, <2>2, <2>6, <2>7, <2>8, NamedStep
<1>2. CASE Passes(c, f) \/ Dies
  <2>1. UNCHANGED <<streams, answers>> /\ settings'.local_window = settings.local_window
    BY <1>2 DEF Passes, Dies
  <2>2. ReceiveTypes'
    BY <1>0, <2>1 DEF ReceiveTypes
  <2>3. stack'.id \in KnownId' /\ 0 \in KnownId'
    BY <1>0, <2>1 DEF Named, KnownId
  <2>4. \A d \in Co : job'[d] = job[d] \/ JobNamed(job'[d], KnownId')
    <3>1. CASE job' = job
      BY <3>1
    <3>3. CASE NextFrame(c)
      <4>1. JobNamed([pc |-> "recv"], KnownId')
        BY DEF JobNamed
      <4> QED
        BY <1>0, <3>3, <4>1 DEF NextFrame
    <3>2. CASE Send(c, Ack(f), TRUE, "recv", NoReq) /\ f.id = 0
      <4>1. Ack(f).id \in KnownId'
        BY <2>3, <3>2 DEF Ack, Frame
      <4> QED
        BY <1>0, <3>2, <4>1, SendNamed
    <3> QED
      BY <1>2, <3>1, <3>2, <3>3 DEF Passes, Dies
  <2> QED
    BY <1>0, <2>1, <2>2, <2>3, <2>4, NamedStep
<1> QED
  BY <1>1, <1>2

LEMMA ReceiveFrame ==
    ASSUME Http2Types, ReceiveInv, NEW c \in Co, recv_payload(c) \/ recv_fails(c)
    PROVE  ReceiveInv'
<1>0. /\ rx \in Seq(ServerFrame) /\ inbuf \in ServerFrame /\ fault = "none"
      /\ UNCHANGED <<peer, stream_id, stack, wire>>
  BY DEF Http2Types, recv_payload, recv_fails, HasProcessor, Up
<1>1. CASE rx # << >> /\ rx' = Tail(rx) /\ parse_frame(c, Head(rx)) /\ UNCHANGED exact
  <2>1. Head(rx) \in ServerFrame
    BY <1>0, <1>1
  <2>2. Passes(c, Head(rx)) \/ Dies \/ Takes(c, Head(rx))
    BY <1>1, <2>1, ParseCases
  <2>3. ReceiveTypes' /\ Named' /\ DOMAIN streams' = DOMAIN streams
    BY <1>0, <2>1, <2>2, ParseKeeps
  <2>4. Offered' /\ (EndsLast => EndsLast')
    BY <1>0, <1>1, <2>3, ReadTail
  <2>5. ASSUME exact', fault' = "none" PROVE EndsLast' /\ Answered' /\ Counted'
    <3>1. exact
      BY <1>1, <2>5
    <3>2. EndsLast /\ Answered /\ Counted
      BY <1>0, <3>1 DEF ReceiveInv
    <3>3. Passes(c, Head(rx)) \/ Takes(c, Head(rx))
      BY <2>2, <2>5 DEF Dies
    <3> QED
      BY <1>0, <1>1, <2>4, <3>2, <3>3, ReadPasses, ReadTakes
  <2> QED
    BY <2>3, <2>4, <2>5 DEF ReceiveInv
<1>2. ASSUME (exact' = FALSE), UNCHANGED rx, ReceiveTypes', Named', DOMAIN streams' = DOMAIN streams
      PROVE  ReceiveInv'
  <2>1. Offered'
    BY <1>0, <1>2 DEF ReceiveInv, Offered, StreamFrame
  <2>2. ~ exact'
    BY <1>2
  <2> QED
    BY <1>2, <2>1, <2>2 DEF ReceiveInv
<1>3. CASE (exact' = FALSE) /\ parse_frame(c, inbuf) /\ UNCHANGED rx
  <2>1. Passes(c, inbuf) \/ Dies \/ Takes(c, inbuf)
    BY <1>0, <1>3, ParseCases
  <2> QED
    BY <1>0, <1>2, <1>3, <2>1, ParseKeeps
<1>4. CASE (exact' = FALSE) /\ Kill("out of step") /\ UNCHANGED rx
  <2>1. Dies
    BY <1>4 DEF Kill, Dies
  <2> QED
    BY <1>0, <1>2, <1>4, <2>1, ParseKeeps
<1> QED
  BY <1>1, <1>3, <1>4 DEF recv_payload, recv_fails

LEMMA ReceiveStep ==
    ASSUME Http2Types, ReceiveInv, [Http2Next]_vars
    PROVE  ReceiveInv'
<1>1. CASE UNCHANGED vars
  <2>1. /\ UNCHANGED <<rx, peer, streams, settings, answers, job, stack, wire, stream_id, fault>>
        /\ (exact' => exact)
    <3>1. exact' = exact
      BY <1>1 DEF vars, histVars
    <3> QED
      BY <1>1, <3>1 DEF vars, clientVars, histVars
  <2>2. Named' /\ stream_id' % 2 = 1
    BY <2>1 DEF ReceiveInv, ReceiveTypes, Named, JobNamed, KnownId
  <2> QED
    BY <2>1, <2>2, QuietReceive
<1> QED
  BY <1>1, ReceiveCalls, ReceiveSendAll, ReceiveRequest, ReceiveFrame, ReceiveServer
     DEF Http2Next, CoStep

\* What the client has of a response, what is on its way and what the server
\* has sent fit together at every step, with any number of coroutines,
\* requests and frames, in any order: the server answers streams that the
\* client has opened, the end of a stream is its last frame, parse_frame gives
\* every payload to its stream, and recv_reponse returns a stream once.
THEOREM ReceiveCorrect == Http2Spec => []ReceiveInv
<1>1. Http2Init => ReceiveInv
  BY ReceiveInit
<1>2. Http2Types /\ ReceiveInv /\ [Http2Next]_vars => ReceiveInv'
  BY ReceiveStep
<1>3. Http2Inv => Http2Types
  BY DEF Http2Inv
<1> QED
  BY <1>1, <1>2, <1>3, Http2Correct, PTL DEF Http2Spec

\* As long as every read is whole, recv_reponse loses, doubles and misplaces
\* no payload: a response is that of its stream, whole and once, and the
\* windows count what was read.
THEOREM ResponsesCorrect == Http2Spec => []ReceivedExactly
<1>1. ASSUME ReceiveInv, rx \in Seq(ServerFrame) PROVE ReceivedExactly
  <2>1. SUFFICES ASSUME exact, fault = "none"
                 PROVE  /\ \A id \in DOMAIN streams :
                             LET s == streams[id] got == peer.data[id] - Cardinality(Unread(id)) IN
                             /\ \A i \in AnswersTo(id) :
                                   /\ id \in peer.ended /\ answers[i].body = peer.data[id]
                                   /\ \A j \in AnswersTo(id) : i = j
                             /\ AnswersTo(id) = {} => s.buffer = got
                             /\ s.window = Window - got
                        /\ settings.local_window = Window - peer.sent + Cardinality(AllUnread)
    BY DEF ReceivedExactly
  <2>2. Answered /\ Counted
    BY <1>1, <2>1 DEF ReceiveInv
  <2>3. ASSUME NEW id \in DOMAIN streams, NEW i \in AnswersTo(id)
        PROVE  /\ id \in peer.ended /\ answers[i].body = peer.data[id]
               /\ \A j \in AnswersTo(id) : i = j
    BY <2>2, <2>3 DEF Answered, AnswersTo
  <2>4. ASSUME NEW id \in DOMAIN streams
        PROVE  /\ AnswersTo(id) = {} =>
                     streams[id].buffer = peer.data[id] - Cardinality(Unread(id))
               /\ streams[id].window = Window - (peer.data[id] - Cardinality(Unread(id)))
    <3>1. PICK u, d : u = Cardinality(Unread(id)) /\ d = peer.data[id]
      OBVIOUS
    <3>2. u \in Nat /\ d \in Nat /\ Window \in Nat
      BY <1>1, <2>4, <3>1, UnreadType, Http2Constants DEF ReceiveInv, ReceiveTypes, Server
    <3>3. /\ AnswersTo(id) = {} => streams[id].buffer = d - u
          /\ streams[id].window = Window - d + u
      BY <2>2, <2>4, <3>1 DEF Counted
    <3> QED
      BY <3>1, <3>2, <3>3
  <2> QED
    BY <2>2, <2>3, <2>4 DEF Counted
<1>2. Http2Inv /\ ReceiveInv => ReceivedExactly
  BY <1>1 DEF Http2Inv, Http2Types
<1> QED
  BY <1>2, Http2Correct, ReceiveCorrect, PTL
=============================================================================
