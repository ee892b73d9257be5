----------------------------- MODULE WebSocket -----------------------------
(***************************************************************************)
(* A websocket session in bytes: the accept key of the handshake, then     *)
(* Response::recv_frame and Response::send_frame over the read and the     *)
(* write buffer of the connection.  Clients send masked frames, one or     *)
(* more at a time; a recv returns what the kernel has of them, up to any   *)
(* byte.  The handler is the one of the documentation: it receives a frame *)
(* and sends one, over and over.  Module Http has the same session without *)
(* the bytes.                                                              *)
(***************************************************************************)
EXTENDS WebSocketFrame, Base64

CONSTANTS READ_BUF_MAX_SIZE, WRITE_BUF_MAX_SIZE,
          Digests,     \* digests the accept key is made of
          Messages,    \* what clients send: [fin, opcode, key, data]
          Replies,     \* what handlers send: [fin, opcode, data]
          MaxFrames,   \* frames of the client
          MaxReplies   \* frames of the handler

ASSUME SessionAssumption ==
  /\ READ_BUF_MAX_SIZE \in 40..(Huge - 1) /\ WRITE_BUF_MAX_SIZE \in 40..(Huge - 1)
  /\ Digests \subseteq Seq(Byte)
  /\ Messages \subseteq [fin : {0, 1}, opcode : 0..15, data : Seq(Byte),
                         key : {<<>>} \cup [1..MASK_LEN -> Byte]]
  /\ Replies \subseteq [fin : {0, 1}, opcode : 0..15, data : Seq(Byte)]
  /\ MaxFrames \in Nat /\ MaxReplies \in Nat

VARIABLES
  phase,      \* "handshake", "open", or "closed" by the client
  digest,     \* the digest of the client's key
  accept,     \* the header that answers it
  rx,         \* the bytes in flight
  starts,     \* the frames that start in them: [at, frame]
  frames,     \* how many frames the client sent
  read_buf, write_buf,
  got,        \* what the handler found in the frame it received last
  meant,      \* that frame, if the recv began with it and had all of it
  replies,    \* how many frames the handler sent
  said,       \* those frames, as the protocol has them
  taken,      \* of each of those frames, as much as the kernel took
  tx,         \* the bytes the kernel took for the client
  short,      \* whether it ever took less than it was given
  turn,       \* what the handler does next: "recv" or "send"
  fault       \* "none", or how the process failed

session == <<phase, digest, accept>>
incoming == <<rx, starts, frames, read_buf, got, meant>>
outgoing == <<write_buf, replies, said, taken, tx, short>>
handler == <<turn, fault>>
vars == <<session, incoming, outgoing, handler>>

None == [fin |-> 0, opcode |-> -1, data |-> <<>>]

-----------------------------------------------------------------------------
(* The other end, by the protocol: a frame in its shortest form, masked    *)
(* when there is a key.                                                    *)

LengthField(n, masked) ==
  CASE n <= 125             -> <<128 * masked + n>>
    [] n > 125 /\ n < 65536 -> <<128 * masked + 126, n \div 256, n % 256>>
    [] OTHER                -> <<128 * masked + 127, 0, 0, 0, 0, (n \div 16777216) % 256,
                                 (n \div 65536) % 256, (n \div 256) % 256, n % 256>>

Wire(m, key) ==
  <<128 * m.fin + m.opcode>> \o LengthField(Len(m.data), IF key = <<>> THEN 0 ELSE 1) \o key
    \o [i \in 1..Len(m.data) |->
          IF key = <<>> THEN m.data[i] ELSE Xor(m.data[i], key[((i - 1) % 4) + 1])]

Message(m) == [fin |-> m.fin, opcode |-> m.opcode, data |-> m.data]

-----------------------------------------------------------------------------
\* What the handshake left: on_accept received the request right into the
\* memory of the read buffer, and the reply is still in the write buffer.
Handshake == [i \in 1..40 |-> 72]
ReadBuf == [NewBuffer(READ_BUF_MAX_SIZE) EXCEPT
              !.mem = append(NewBuffer(READ_BUF_MAX_SIZE), Handshake).mem]
WriteBuf == append(NewBuffer(WRITE_BUF_MAX_SIZE), Handshake)

Init ==
  /\ phase = "handshake" /\ digest \in Digests /\ accept = <<>>
  /\ rx = <<>> /\ starts = {} /\ frames = 0
  /\ read_buf = ReadBuf
  /\ got = None /\ meant = None
  /\ write_buf = WriteBuf
  /\ replies = 0 /\ said = <<>> /\ taken = <<>> /\ tx = <<>> /\ short = FALSE
  /\ turn = "recv" /\ fault = "none"

\* compute_accept_key, after the digest.
compute_accept_key ==
  /\ phase = "handshake" /\ accept = <<>>
  /\ accept' = base64_encode(digest)
  /\ UNCHANGED <<phase, digest, incoming, outgoing, handler>>

\* The client takes the key.
Upgrade ==
  /\ phase = "handshake" /\ accept # <<>>
  /\ phase' = "open" /\ digest' = <<>> /\ accept' = <<>>
  /\ UNCHANGED <<incoming, outgoing, handler>>

ClientSends(m) ==
  /\ phase = "open" /\ fault = "none" /\ frames < MaxFrames
  /\ frames' = frames + 1
  /\ rx' = rx \o Wire(m, m.key)
  /\ starts' = starts \cup {[at |-> Len(rx), frame |-> m]}
  /\ UNCHANGED <<session, read_buf, got, meant, outgoing, handler>>

ClientCloses ==
  /\ phase = "open" /\ frames = MaxFrames
  /\ phase' = "closed"
  /\ UNCHANGED <<digest, accept, incoming, outgoing, handler>>

\* n bytes are read, and the frames that start in them are begun.
Advance(n) ==
  /\ rx' = SubSeq(rx, n + 1, Len(rx))
  /\ starts' = {[x EXCEPT !.at = @ - n] : x \in {y \in starts : y.at >= n}}

\* The frames that start now and of which a recv of n bytes has all.
WholeIn(n) == {x \in starts : x.at = 0 /\ Len(Wire(x.frame, x.frame.key)) <= n}

\* The frame f was decoded: the handler copies its payload.
Received(f) ==
  /\ read_buf' = [read_buf EXCEPT !.length = f.length, !.mem = f.frame.msg]
  /\ got' = [fin |-> f.frame.header.fin, opcode |-> f.frame.header.opcode,
             data |-> [i \in 1..f.frame.payload_length |->
                         f.frame.msg[f.frame.payload + i - 1]]]
  /\ fault' = fault

\* Frame::decode of the buffer b.
decode(b, header) ==
  IF InMemory(header, b.mem)
    THEN Received([length |-> b.length, frame |-> fetch_payload(header, b.mem)])
  ELSE fault' = "out of bounds" /\ UNCHANGED <<read_buf, got>>

\* A recv that returns n bytes, and the frame that is found in them; 0 at
\* the end of the stream, when the buffer still has its old bytes.
recv_frame(n) ==
  /\ phase # "handshake" /\ fault = "none" /\ turn = "recv"
  /\ turn' = "send"
  /\ IF rx = <<>> THEN n = 0 /\ phase = "closed"
     ELSE n \in 1..READ_BUF_MAX_SIZE
  /\ IF WholeIn(n) = {} THEN meant' = None
     ELSE \E x \in WholeIn(n) : meant' = Message(x.frame)
  /\ Advance(n)
  /\ \E b \in {append(clear(read_buf), SubSeq(rx, 1, n))} :
       decode(b, fetch_header(b.mem))
  /\ UNCHANGED <<session, frames, outgoing>>

clear_write_buf(b) == clear(b)

\* How many of n bytes the kernel takes: all, or less.
Took(n, cut) == IF cut THEN n \div 2 ELSE n

\* send_response: one send, of which the kernel may take less. Nobody looks
\* at its result, so what was not taken is never sent.
Send(b, m, cut) ==
  LET wire == Wire(m, <<>>)
  IN  /\ write_buf' = b
      /\ replies' = replies + 1 /\ said' = said \o wire
      /\ taken' = taken \o SubSeq(wire, 1, Took(Len(wire), cut))
      /\ tx' = tx \o SubSeq(Content(b), 1, Took(b.length, cut))
      /\ short' = (short \/ cut)

\* A frame that the buffer cannot hold ends the process. The frame before may
\* have been cut short: the handler does not know.
send_frame(m, cut) ==
  /\ fault = "none" /\ turn = "send" /\ replies < MaxReplies
  /\ turn' = "recv"
  /\ \E bytes \in {encode(m.data, m.opcode, m.fin)} :
       IF Fits(clear_write_buf(write_buf), Len(bytes))
         THEN /\ Send(append(clear_write_buf(write_buf), bytes), m, cut)
              /\ fault' = fault
       ELSE fault' = "buffer" /\ UNCHANGED outgoing
  /\ UNCHANGED <<session, incoming>>

\* Where a recv may end: near its ends, and where a frame starts.
Cuts ==
  LET all == Len(rx)
  IN  {n \in 0..all : n \in {0, 1, 2, 7, all - 1, all} \/ \E x \in starts : x.at = n}

Next ==
  \/ compute_accept_key \/ Upgrade \/ ClientCloses
  \/ \E m \in Messages : ClientSends(m)
  \/ \E n \in Cuts : recv_frame(n)
  \/ \E m \in Replies, cut \in BOOLEAN : send_frame(m, cut)

Spec == Init /\ [][Next]_vars

-----------------------------------------------------------------------------
(* Properties.                                                             *)

\* Whatever the recvs before left in the read buffer, the frame at the
\* start of a recv that has all of it is decoded as the client sent it:
\* the eight-byte and the bytewise unmasking meet, every form of the length
\* is read back, and no byte of an earlier frame shows through.
FrameAsSent == meant # None => fault # "out of bounds" /\ got = meant

\* What the client reads is, send by send, the first bytes of the frame the
\* handler sent, in its shortest form, as many as the kernel took: no byte of
\* an earlier frame, none of a frame that is too long for the write buffer,
\* nothing between two frames. Until the first short send these are exactly
\* the frames. After it they are not: send_frame drops the result of send,
\* the rest of the cut frame is never sent and the next frame follows what
\* was taken of it, where a client still waits for that rest.
RepliesIntact ==
  /\ tx = taken
  /\ ~short => tx = said

\* A bit of the bytes, the first one first; after them, zeros.
Bit(bytes, i) ==
  IF i > 8 * Len(bytes) THEN 0
  ELSE (bytes[((i - 1) \div 8) + 1]
          \div <<128, 64, 32, 16, 8, 4, 2, 1>>[((i - 1) % 8) + 1]) % 2

\* Its k-th six bits.
SixBits(bytes, k) ==
  LET bit(j) == Bit(bytes, 6 * (k - 1) + j)
  IN  32 * bit(1) + 16 * bit(2) + 8 * bit(3) + 4 * bit(4) + 2 * bit(5) + bit(6)

\* The accept key is the digest in Base64, six bits a character, padded to
\* whole groups, and decodes to the digest whatever the unwritten part of
\* the array of a last group holds.
AcceptKeyFaithful ==
  accept # <<>> =>
    /\ Len(accept) = 4 * ((Len(digest) + 2) \div 3)
    /\ \A k \in 1..Len(accept) :
         accept[k] = IF 6 * (k - 1) < 8 * Len(digest)
                       THEN Base64Char(SixBits(digest, k)) ELSE "="
    /\ \A junk \in {0, 255} : base64_decode(accept, junk) = digest

=============================================================================
