--------------------------- MODULE WebSocketFrame ---------------------------
(***************************************************************************)
(* fsw::websocket::Frame (src/websocket_frame.cc): how a frame is written  *)
(* into a buffer and read from one.  The machine is little-endian; msg is  *)
(* the memory a frame is read from, at addresses 0, 1, 2...                *)
(***************************************************************************)
EXTENDS Buffer

Byte == 0..255

MASK_LEN == 4
HEADER_LEN == 2

\* struct FrameHeader as its two bytes: bit fields from the lowest bit up.
FirstByte(fin, opcode) == 128 * (fin % 2) + (opcode % 16)
SecondByte(mask, length) == 128 * mask + length

fetch_header(msg) ==
  [fin |-> msg[0] \div 128, opcode |-> msg[0] % 16, mask |-> msg[1] \div 128,
   length |-> msg[1] % 128]

\* n in k bytes, the most significant first (htons, hton64).
Place == <<1, 256, 65536, 16777216>>
BigEndian(n, k) ==
  [i \in 1..k |-> IF k - i > 3 THEN 0 ELSE (n \div Place[k - i + 1]) % 256]

\* The number in k bytes of msg from at on (ntohs, ntoh64).  Huge stands for
\* every number that does not fit three bytes.
Huge == 16777216
FromBigEndian(msg, at, k) ==
  LET b(i) == IF i < k THEN msg[at + k - 1 - i] ELSE 0
  IN  IF \E i \in 3..7 : b(i) # 0 THEN Huge ELSE b(0) + 256 * b(1) + 65536 * b(2)

\* Mutant: the upper half of the eight-byte key is left zero.
KeyByte_low_half(i, n, key) ==
  IF i < 8 * n THEN IF i % 8 < MASK_LEN THEN key[i % 8] ELSE 0 ELSE key[i % MASK_LEN]

\* The byte of the key that data[i] is combined with: eight bytes at a time
\* with the key twice, what is left byte by byte.
KeyByte(i, n, key) == IF i < 8 * n THEN key[(i % 8) % MASK_LEN] ELSE key[i % MASK_LEN]

\* The ^ of C on two bytes.
Xor(x, y) ==
  LET bit(p) == ((x \div p) + (y \div p)) % 2
  IN  bit(1) + 2 * bit(2) + 4 * bit(4) + 8 * bit(8)
        + 16 * bit(16) + 32 * bit(32) + 64 * bit(64) + 128 * bit(128)

\* msg with len bytes from at on combined with the key.
mask(msg, at, len, key) ==
  [a \in DOMAIN msg |-> IF a \in at..(at + len - 1)
                        THEN Xor(msg[a], KeyByte(a - at, len \div 8, key)) ELSE msg[a]]

\* Where the key or the payload starts.
HeaderLength(header) ==
  HEADER_LEN + CASE header.length = 126 -> 2
                 [] header.length = 127 -> 8
                 [] OTHER -> 0

PayloadLength(header, msg) ==
  CASE header.length = 126 -> FromBigEndian(msg, HEADER_LEN, 2)
    [] header.length = 127 -> FromBigEndian(msg, HEADER_LEN, 8)
    [] OTHER -> header.length

\* Whether unmasking, and whoever reads the payload, stays in the buffer.
InMemory(header, msg) ==
  HeaderLength(header) + MASK_LEN * header.mask + PayloadLength(header, msg) - 1
    \in DOMAIN msg

\* The frame, and the memory with the payload unmasked in place.
fetch_payload(header, msg) ==
  LET at  == HeaderLength(header)
      len == PayloadLength(header, msg)
      key == [i \in 0..(MASK_LEN - 1) |-> msg[at + i]]
  IN  IF header.mask = 1
        THEN [header |-> header, payload |-> at + MASK_LEN, payload_length |-> len,
              msg |-> mask(msg, at + MASK_LEN, len, key)]
      ELSE [header |-> header, payload |-> at, payload_length |-> len, msg |-> msg]

\* Mutant: the longest length of the short form is one too long.
EncodedHeader_off_by_one(n, opcode, finish) ==
  <<FirstByte(finish, opcode)>> \o
    CASE n <= 126             -> <<SecondByte(0, n)>>
      [] n > 126 /\ n < 65536 -> <<SecondByte(0, 126)>> \o BigEndian(n, 2)
      [] OTHER                -> <<SecondByte(0, 127)>> \o BigEndian(n, 8)

\* The header of a frame of n bytes; the server does not mask.
EncodedHeader(n, opcode, finish) ==
  <<FirstByte(finish, opcode)>> \o
    CASE n < 126               -> <<SecondByte(0, n)>>
      [] n >= 126 /\ n < 65536 -> <<SecondByte(0, 126)>> \o BigEndian(n, 2)
      [] OTHER                 -> <<SecondByte(0, 127)>> \o BigEndian(n, 8)

\* What encode appends to its buffer: the header, then the data.
encode(data, opcode, finish) == EncodedHeader(Len(data), opcode, finish) \o data

=============================================================================
