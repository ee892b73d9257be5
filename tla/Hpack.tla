------------------------------- MODULE Hpack -------------------------------
(***************************************************************************)
(* Header compression of HTTP/2 (thirdparty/nghttp2/nghttp2_hd.c): the     *)
(* deflater and the inflater as values, their operations as operators.     *)
(* A header block is a sequence of bytes.  Names and values are sequences  *)
(* of bytes too, written as strings through Bytes.                         *)
(***************************************************************************)
EXTENDS Huffman

CONSTANTS IntBits,             \* width of uint32_t: 32
          DEFAULT_TABLE_SIZE,  \* NGHTTP2_HD_DEFAULT_MAX_BUFFER_SIZE: 4096
          MAX_NV               \* NGHTTP2_HD_MAX_NV: 65536

HpackAssumption ==
  /\ IntBits \in 8..30
  /\ DEFAULT_TABLE_SIZE \in 0..(2^IntBits - 1)
  /\ MAX_NV \in 0..(2^IntBits - 1)
ASSUME HpackAssumption

UINT32_MAX == 2^IntBits - 1

ENTRY_OVERHEAD == 32
STATIC_TABLE_LENGTH == 61

\* The characters of the headers of this model, at their ASCII codes.
Ascii ==
  LET digits == "0123456789"
      lower  == "abcdefghijklmnopqrstuvwxyz"
      upper  == "ABCDEFGHIJKLMNOPQRSTUVWXYZ"
      Run(s, first) == [c \in {SubSeq(s, i, i) : i \in 1..Len(s)} |->
                          first - 1 + CHOOSE i \in 1..Len(s) : SubSeq(s, i, i) = c]
  IN  Run(" ", 32) @@ Run(",-./", 44) @@ Run(digits, 48) @@ Run(":;<=", 58)
        @@ Run(upper, 65) @@ Run("_", 95) @@ Run(lower, 97)

Bytes(s) == [i \in 1..Len(s) |-> Ascii[SubSeq(s, i, i)]]

Lower(a, b) == IF a < b THEN a ELSE b

-----------------------------------------------------------------------------
(* The static table and the tokens of the names.                           *)

StaticText == <<
  <<":authority", "">>, <<":method", "GET">>, <<":method", "POST">>,
  <<":path", "/">>, <<":path", "/index.html">>, <<":scheme", "http">>,
  <<":scheme", "https">>, <<":status", "200">>, <<":status", "204">>,
  <<":status", "206">>, <<":status", "304">>, <<":status", "400">>,
  <<":status", "404">>, <<":status", "500">>, <<"accept-charset", "">>,
  <<"accept-encoding", "gzip, deflate">>, <<"accept-language", "">>,
  <<"accept-ranges", "">>, <<"accept", "">>,
  <<"access-control-allow-origin", "">>, <<"age", "">>, <<"allow", "">>,
  <<"authorization", "">>, <<"cache-control", "">>,
  <<"content-disposition", "">>, <<"content-encoding", "">>,
  <<"content-language", "">>, <<"content-length", "">>,
  <<"content-location", "">>, <<"content-range", "">>, <<"content-type", "">>,
  <<"cookie", "">>, <<"date", "">>, <<"etag", "">>, <<"expect", "">>,
  <<"expires", "">>, <<"from", "">>, <<"host", "">>, <<"if-match", "">>,
  <<"if-modified-since", "">>, <<"if-none-match", "">>, <<"if-range", "">>,
  <<"if-unmodified-since", "">>, <<"last-modified", "">>, <<"link", "">>,
  <<"location", "">>, <<"max-forwards", "">>, <<"proxy-authenticate", "">>,
  <<"proxy-authorization", "">>, <<"range", "">>, <<"referer", "">>,
  <<"refresh", "">>, <<"retry-after", "">>, <<"server", "">>,
  <<"set-cookie", "">>, <<"strict-transport-security", "">>,
  <<"transfer-encoding", "">>, <<"user-agent", "">>, <<"vary", "">>,
  <<"via", "">>, <<"www-authenticate", "">> >>

\* Indices start at 0, as in the code.
static_table ==
  [i \in 0..(STATIC_TABLE_LENGTH - 1) |->
     [name |-> Bytes(StaticText[i + 1][1]), value |-> Bytes(StaticText[i + 1][2])]]

\* The token of a name of the static table is its first index there.  -1
\* stands for the other names, and for those, like "te", whose tokens lie
\* past the table: neither is looked up in it.
lookup_token(name) ==
  LET found == {i \in DOMAIN static_table : static_table[i].name = name}
  IN  IF found = {} THEN -1 ELSE Min(found)

Named(nv, names) == nv.name \in {Bytes(s) : s \in names}

-----------------------------------------------------------------------------
(* The ring of the dynamic table: buffer[(first + i) mod size] is entry i, *)
(* the newest is entry 0; the size is a power of two.                      *)

NoEntry == [name |-> <<>>, value |-> <<>>, seq |-> 0]

PowerOfTwo(n) == Min({2^i : i \in {j \in 0..IntBits : 2^j >= n}})

hd_ringbuf_init(bufsize) ==
  LET size == PowerOfTwo(bufsize)
  IN  [buffer |-> [i \in 0..(size - 1) |-> NoEntry], first |-> 0, len |-> 0]

Size(ring) == Cardinality(DOMAIN ring.buffer)

hd_ringbuf_get(ring, idx) == ring.buffer[(ring.first + idx) % Size(ring)]

\* Mutant: the entries of a larger buffer stay where they were.
hd_ringbuf_reserve_in_place(ring, bufsize) ==
  LET size == PowerOfTwo(bufsize)
  IN  IF Size(ring) >= bufsize THEN ring
      ELSE [ring EXCEPT !.first = 0,
                        !.buffer = [i \in 0..(size - 1) |->
                           IF i < Size(ring) THEN ring.buffer[i] ELSE NoEntry]]

hd_ringbuf_reserve(ring, bufsize) ==
  LET size == PowerOfTwo(bufsize)
  IN  IF Size(ring) >= bufsize THEN ring
      ELSE [ring EXCEPT !.first = 0,
                        !.buffer = [i \in 0..(size - 1) |->
                           IF i < ring.len THEN hd_ringbuf_get(ring, i) ELSE NoEntry]]

PushAt(ring, first, ent) ==
  [ring EXCEPT !.buffer[first] = ent, !.first = first, !.len = @ + 1]

PushFront(ring, ent) == PushAt(ring, (ring.first - 1) % Size(ring), ent)

hd_ringbuf_push_front(ring, ent) == PushFront(hd_ringbuf_reserve(ring, ring.len + 1), ent)

hd_ringbuf_pop_back(ring) == [ring EXCEPT !.len = @ - 1]

-----------------------------------------------------------------------------
(* The context of both: the dynamic table, its size in the sense of HPACK, *)
(* its effective maximum, the next sequence number and whether an error    *)
(* occurred.                                                               *)

entry_room(nv) == ENTRY_OVERHEAD + Len(nv.name) + Len(nv.value)

hd_context_init ==
  [hd_table |-> hd_ringbuf_init(DEFAULT_TABLE_SIZE \div ENTRY_OVERHEAD),
   bufsize |-> 0, bufsize_max |-> DEFAULT_TABLE_SIZE, next_seq |-> 0,
   bad |-> FALSE]

\* Drop the oldest entries until room more bytes fit in the maximum, or
\* until the table is empty.
RECURSIVE Evict(_, _)
Evict(ctx, room) ==
  LET oldest == hd_ringbuf_get(ctx.hd_table, ctx.hd_table.len - 1)
  IN  IF ctx.bufsize + room <= ctx.bufsize_max \/ ctx.hd_table.len = 0 THEN ctx
      ELSE Evict([ctx EXCEPT !.hd_table = hd_ringbuf_pop_back(@),
                             !.bufsize = @ - entry_room(oldest)], room)

\* An entry larger than the maximum empties the table and is not stored.
Insert(ctx, nv, room) ==
  IF room > ctx.bufsize_max THEN ctx
  ELSE [ctx EXCEPT !.hd_table = hd_ringbuf_push_front(@,
                       [name |-> nv.name, value |-> nv.value, seq |-> ctx.next_seq]),
                   !.bufsize = @ + room,
                   !.next_seq = @ + 1]

add_hd_table_incremental(ctx, nv) ==
  Insert(Evict(ctx, entry_room(nv)), nv, entry_room(nv))

hd_context_shrink_table_size(ctx) == Evict(ctx, 0)

get_max_index(ctx) == ctx.hd_table.len + STATIC_TABLE_LENGTH

nghttp2_hd_table_get(ctx, idx) ==
  IF idx >= STATIC_TABLE_LENGTH
    THEN hd_ringbuf_get(ctx.hd_table, idx - STATIC_TABLE_LENGTH)
  ELSE static_table[idx]

-----------------------------------------------------------------------------
(* Integers: a first byte whose low prefix bits hold the value, or ones    *)
(* and then groups of seven bits, the least significant first.             *)

RECURSIVE Groups(_)
Groups(n) ==
  IF n < 128 THEN <<n>> ELSE <<128 + (n % 128)>> \o Groups(n \div 128)

encode_length(first, n, prefix) ==
  LET k == 2^prefix - 1
  IN  IF n < k THEN <<first + n>> ELSE <<first + k>> \o Groups(n - k)

\* The groups from position p of in on.  A shift as wide as the integer is
\* undefined in C: the x86-64 shift takes the count modulo the width.
RECURSIVE AddGroups(_, _, _, _)
AddGroups(n, shift, in, p) ==
  LET s   == shift % IntBits
      add == in[p] % 128
  IN  IF p > Len(in) THEN [ok |-> TRUE, n |-> n, shift |-> shift, fin |-> FALSE, p |-> p]
      ELSE IF UINT32_MAX \div 2^s < add \/ UINT32_MAX - add * 2^s < n
        THEN [ok |-> FALSE, n |-> n, shift |-> shift, fin |-> FALSE, p |-> p]
      ELSE IF in[p] < 128
        THEN [ok |-> TRUE, n |-> n + add * 2^s, shift |-> shift, fin |-> TRUE,
              p |-> p + 1]
      ELSE AddGroups(n + add * 2^s, shift + 7, in, p + 1)

\* Mutant: an integer cut in the middle goes on at the first group.
decode_length_restarts(initial, shift, in, p, prefix) ==
  LET k == 2^prefix - 1
  IN  IF initial # 0 THEN AddGroups(initial, 0, in, p)
      ELSE IF in[p] % 2^prefix # k
        THEN [ok |-> TRUE, n |-> in[p] % 2^prefix, shift |-> 0, fin |-> TRUE,
              p |-> p + 1]
      ELSE IF p = Len(in)
        THEN [ok |-> TRUE, n |-> k, shift |-> 0, fin |-> FALSE, p |-> p + 1]
      ELSE AddGroups(k, shift, in, p + 1)

\* initial and shift are those of an integer whose first bytes came with
\* the input before; 0 starts a new one.
decode_length(initial, shift, in, p, prefix) ==
  LET k == 2^prefix - 1
  IN  IF initial # 0 THEN AddGroups(initial, shift, in, p)
      ELSE IF in[p] % 2^prefix # k
        THEN [ok |-> TRUE, n |-> in[p] % 2^prefix, shift |-> 0, fin |-> TRUE,
              p |-> p + 1]
      ELSE IF p = Len(in)
        THEN [ok |-> TRUE, n |-> k, shift |-> 0, fin |-> FALSE, p |-> p + 1]
      ELSE AddGroups(k, shift, in, p + 1)

-----------------------------------------------------------------------------
(* The output of the deflater: bytes into the buffers of the caller, which *)
(* hold cap bytes between them; what does not fit is an error.             *)

bufs_wrap_init(cap) == [out |-> <<>>, cap |-> cap, ok |-> TRUE]

bufs_add(bufs, bytes) ==
  IF bufs.ok /\ Len(bufs.out) + Len(bytes) <= bufs.cap
    THEN [bufs EXCEPT !.out = @ \o bytes]
  ELSE [bufs EXCEPT !.ok = FALSE]

emit_table_size(bufs, size) == bufs_add(bufs, encode_length(32, size, 5))

emit_indexed_block(bufs, idx) == bufs_add(bufs, encode_length(128, idx + 1, 7))

\* The shorter of the string and its Huffman code.
emit_string(bufs, str) ==
  LET enclen == huff_encode_count(str)
  IN  IF enclen < Len(str)
        THEN bufs_add(bufs_add(bufs, encode_length(128, enclen, 7)), huff_encode(str))
      ELSE bufs_add(bufs_add(bufs, encode_length(0, Len(str), 7)), str)

pack_first_byte(mode) ==
  CASE mode = "WITH_INDEXING"    -> 64
    [] mode = "WITHOUT_INDEXING" -> 0
    [] mode = "NEVER_INDEXING"   -> 16

emit_indname_block(bufs, idx, nv, mode) ==
  LET prefix == IF mode = "WITH_INDEXING" THEN 6 ELSE 4
  IN  emit_string(bufs_add(bufs, encode_length(pack_first_byte(mode), idx + 1, prefix)),
                  nv.value)

emit_newname_block(bufs, nv, mode) ==
  emit_string(emit_string(bufs_add(bufs, <<pack_first_byte(mode)>>), nv.name), nv.value)

-----------------------------------------------------------------------------
(* The deflater.                                                           *)

deflate_init(max) ==
  [ctx    |-> [hd_context_init EXCEPT !.bufsize_max = Lower(max, DEFAULT_TABLE_SIZE)],
   max    |-> max,                         \* deflate_hd_table_bufsize_max
   min    |-> UINT32_MAX,                  \* min_hd_table_bufsize_max
   notify |-> max < DEFAULT_TABLE_SIZE]    \* notify_table_size_change

\* The settings of the peer allow a table of this size.
deflate_change_table_size(d, settings) ==
  LET next == Lower(settings, d.max)
  IN  [d EXCEPT !.ctx = hd_context_shrink_table_size([@ EXCEPT !.bufsize_max = next]),
                !.min = Lower(@, next),
                !.notify = TRUE]

\* Values that change with every message, and entries that would take most
\* of the table, are not worth an entry.
hd_deflate_decide_indexing(d, nv) ==
  IF \/ Named(nv, {":path", "age", "content-length", "etag", "if-modified-since",
                   "if-none-match", "location", "set-cookie"})
     \/ entry_room(nv) > (d.ctx.bufsize_max * 3) \div 4
    THEN "WITHOUT_INDEXING" ELSE "WITH_INDEXING"

IndexingMode(d, nv) ==
  IF \/ Named(nv, {"authorization"})
     \/ Named(nv, {"cookie"}) /\ Len(nv.value) < 20
     \/ nv.no_index
    THEN "NEVER_INDEXING" ELSE hd_deflate_decide_indexing(d, nv)

\* The entry of the same value, or the first one of the same name.
search_static_table(nv, token, name_only) ==
  LET same == {i \in token..(STATIC_TABLE_LENGTH - 1) :
                 static_table[i].name = nv.name /\ static_table[i].value = nv.value}
  IN  IF name_only \/ same = {} THEN [index |-> token, match |-> FALSE]
      ELSE [index |-> Min(same), match |-> TRUE]

\* The newest dynamic entry of the same name and value; a name of the
\* static table is then looked for there, another one in the dynamic table.
search_hd_table(ctx, nv, token, mode) ==
  LET name_only == mode = "NEVER_INDEXING"
      ents  == [i \in 0..(ctx.hd_table.len - 1) |-> hd_ringbuf_get(ctx.hd_table, i)]
      named == {i \in DOMAIN ents : ents[i].name = nv.name}
      exact == {i \in named : ~name_only /\ ents[i].value = nv.value}
      Index(i) == ctx.next_seq - 1 - ents[i].seq + STATIC_TABLE_LENGTH
  IN  IF exact # {} THEN [index |-> Index(Min(exact)), match |-> TRUE]
      ELSE IF token >= 0 THEN search_static_table(nv, token, name_only)
      ELSE IF named = {} THEN [index |-> -1, match |-> FALSE]
      ELSE [index |-> Index(Min(named)), match |-> FALSE]

\* The representation of a header, whose index, if any, was found before
\* the table changes.
Represent(s, nv, mode, res) ==
  IF res.match THEN [s EXCEPT !.bufs = emit_indexed_block(@, res.index)]
  ELSE [d    |-> [s.d EXCEPT !.ctx = IF mode = "WITH_INDEXING"
                                       THEN add_hd_table_incremental(@, nv) ELSE @],
        bufs |-> IF res.index = -1 THEN emit_newname_block(s.bufs, nv, mode)
                 ELSE emit_indname_block(s.bufs, res.index, nv, mode)]

RepresentAs(s, nv, mode) ==
  Represent(s, nv, mode, search_hd_table(s.d.ctx, nv, lookup_token(nv.name), mode))

\* The state is the deflater and the output so far; an error ends it.
deflate_nv(s, nv) == IF s.bufs.ok THEN RepresentAs(s, nv, IndexingMode(s.d, nv)) ELSE s

\* The sizes the table went through, smallest and last, precede the headers.
NotifySizes(d, bufs) ==
  LET b == IF d.ctx.bufsize_max > d.min THEN emit_table_size(bufs, d.min) ELSE bufs
  IN  IF d.notify
        THEN [d |-> [d EXCEPT !.notify = FALSE, !.min = UINT32_MAX],
              bufs |-> emit_table_size(b, d.ctx.bufsize_max)]
      ELSE [d |-> d, bufs |-> bufs]

Deflated(s) == [s EXCEPT !.d.ctx.bad = ~s.bufs.ok]

\* A header block of the headers nva, in at most buflen bytes.
nghttp2_hd_deflate_hd(d, nva, buflen) ==
  IF d.ctx.bad THEN [d |-> d, bufs |-> [bufs_wrap_init(buflen) EXCEPT !.ok = FALSE]]
  ELSE Deflated(FoldLeft(deflate_nv, NotifySizes(d, bufs_wrap_init(buflen)), nva))

\* What the client reserves for the block.
nghttp2_hd_deflate_bound(nva) ==
  FoldLeft(LAMBDA n, nv : n + Len(nv.name) + Len(nv.value), 12 + 12 * Len(nva), nva)

-----------------------------------------------------------------------------
(* The inflater.                                                           *)

NoBuf == [bytes |-> <<>>, cap |-> 0]

inflate_init ==
  [ctx |-> hd_context_init, state |-> "INFLATE_START", opcode |-> "NONE",
   settings |-> DEFAULT_TABLE_SIZE,   \* settings_hd_table_bufsize_max
   min |-> UINT32_MAX,                \* min_hd_table_bufsize_max
   left |-> 0, shift |-> 0, index |-> 0,
   huffman_encoded |-> FALSE, index_required |-> FALSE, no_index |-> FALSE,
   huff_decode_ctx |-> huff_decode_context_init, name |-> NoBuf, value |-> NoBuf,
   overrun |-> FALSE]   \* a string was written past the end of its buffer

\* Only between two header blocks; the result says whether it was done.
inflate_change_table_size(x, settings) ==
  LET y == [x EXCEPT !.settings = settings,
              !.ctx = hd_context_shrink_table_size([@ EXCEPT !.bufsize_max = settings])]
  IN  IF x.state \notin {"EXPECT_TABLE_SIZE", "INFLATE_START"}
        THEN [ok |-> FALSE, x |-> x]
      ELSE IF x.ctx.bufsize_max > settings
        THEN [ok |-> TRUE,
              x |-> [y EXCEPT !.state = "EXPECT_TABLE_SIZE", !.min = settings]]
      ELSE [ok |-> TRUE, x |-> y]

nghttp2_hd_inflate_end_headers(x) == [x EXCEPT !.state = "INFLATE_START"]

\* What a state of the switch does: the inflater, the position it is at and
\* how it goes on: around the loop ("next"), around it even without input
\* ("busy"), out of it for want of input ("almost_ok"), with a header
\* ("emit") or with an error ("fail").
To(x, p, go) == [x |-> x, p |-> p, go |-> go, nv |-> NoEntry]

\* The integer r that was read at p; Then goes on from a whole one.
LenRead(x, p, maxlen, r, Then(_, _)) ==
  LET y == [x EXCEPT !.left = r.n, !.shift = r.shift]
  IN  IF ~r.ok \/ r.n > maxlen THEN To(x, p, "fail")
      ELSE IF ~r.fin THEN To(y, r.p, "almost_ok")
      ELSE Then(y, r.p)

hd_inflate_read_len(x, in, p, prefix, maxlen, Then(_, _)) ==
  LenRead(x, p, maxlen, decode_length(x.left, x.shift, in, p, prefix), Then)

\* The opcode of the byte at p.  A new name is not part of that byte.
Opcode(x, in, p) ==
  LET b       == in[p]
      y       == [x EXCEPT !.left = 0, !.shift = 0]
      literal == [y EXCEPT !.index_required = b \div 64 = 1,
                           !.no_index = b \div 16 = 1]
  IN  CASE b \div 32 = 1 /\ x.state = "OPCODE" -> To(x, p, "fail")
        [] b \div 32 = 1 /\ x.state # "OPCODE" ->
             To([y EXCEPT !.opcode = "INDEXED", !.state = "READ_TABLE_SIZE"], p, "next")
        [] b >= 128 ->
             To([y EXCEPT !.opcode = "INDEXED", !.state = "READ_INDEX"], p, "next")
        [] b \in {0, 16, 64} ->
             To([literal EXCEPT !.opcode = "NEWNAME",
                                !.state = "NEWNAME_CHECK_NAMELEN"], p + 1, "next")
        [] OTHER ->
             To([literal EXCEPT !.opcode = "INDNAME", !.state = "READ_INDEX"], p, "next")

\* Mutant: the table keeps the entries that no longer fit.
ReadTableSize_no_shrink(x, in, p) ==
  LET Then(y, q) == To([y EXCEPT !.min = UINT32_MAX, !.state = "INFLATE_START",
                                 !.ctx.bufsize_max = y.left], q, "next")
  IN  hd_inflate_read_len(x, in, p, 5, Lower(x.min, x.settings), Then)

\* A new size, at most what the settings allow, or allowed at their least.
ReadTableSize(x, in, p) ==
  LET Then(y, q) ==
        To([y EXCEPT !.min = UINT32_MAX, !.state = "INFLATE_START",
              !.ctx = hd_context_shrink_table_size([@ EXCEPT !.bufsize_max = y.left])],
           q, "next")
  IN  hd_inflate_read_len(x, in, p, 5, Lower(x.min, x.settings), Then)

Emit(x, p, nv) ==
  [x |-> [x EXCEPT !.state = "OPCODE"], p |-> p, go |-> "emit", nv |-> nv]

ReadIndex(x, in, p) ==
  LET prefix == CASE x.opcode = "INDEXED" -> 7
                  [] x.opcode # "INDEXED" /\ x.index_required -> 6
                  [] x.opcode # "INDEXED" /\ ~x.index_required -> 4
      Then(y, q) ==
        LET z == [y EXCEPT !.index = y.left - 1]
            e == nghttp2_hd_table_get(z.ctx, z.index)
        IN  IF y.left = 0 THEN To(y, q, "fail")
            ELSE IF y.opcode = "INDEXED"
              THEN Emit(z, q, [name |-> e.name, value |-> e.value, no_index |-> FALSE])
            ELSE To([z EXCEPT !.state = "CHECK_VALUELEN"], q, "next")
  IN  hd_inflate_read_len(x, in, p, prefix, get_max_index(x.ctx), Then)

\* Mutant: room for as many bytes as the coded string has.
StringCap_coded(x) == x.left + 1

\* The room for a string: no code word is shorter than five bits, so twice
\* the coded length is enough for the decoded one.
StringCap(x) == IF x.huffman_encoded THEN x.left * 2 + 1 ELSE x.left + 1

\* The length of a string: start means its first byte, which says whether
\* the string is coded, was not read yet.
ReadNameLen(x, in, p, start) ==
  LET y == [x EXCEPT !.huffman_encoded = in[p] >= 128, !.left = 0, !.shift = 0,
                     !.state = "NEWNAME_READ_NAMELEN"]
      Then(z, q) ==
        To([z EXCEPT !.state = IF z.huffman_encoded THEN "NEWNAME_READ_NAMEHUFF"
                               ELSE "NEWNAME_READ_NAME",
                     !.huff_decode_ctx = IF z.huffman_encoded
                                           THEN huff_decode_context_init ELSE @,
                     !.name = [bytes |-> <<>>, cap |-> StringCap(z)]], q, "next")
  IN  hd_inflate_read_len(IF start THEN y ELSE x, in, p, 7, MAX_NV, Then)

ReadValueLen(x, in, p, start) ==
  LET y == [x EXCEPT !.huffman_encoded = in[p] >= 128, !.left = 0, !.shift = 0,
                     !.state = "READ_VALUELEN"]
      Then(z, q) ==
        To([z EXCEPT !.state = IF z.huffman_encoded THEN "READ_VALUEHUFF"
                               ELSE "READ_VALUE",
                     !.huff_decode_ctx = IF z.huffman_encoded
                                           THEN huff_decode_context_init ELSE @,
                     !.value = [bytes |-> <<>>, cap |-> StringCap(z)]], q, "busy")
  IN  hd_inflate_read_len(IF start THEN y ELSE x, in, p, 7, MAX_NV, Then)

\* The bytes of a string, as many as there are, added to buf: the inflater
\* without them, the buffer with them, and whether the decoding failed.
HuffRead(x, buf, p, n, r) ==
  [x    |-> [x EXCEPT !.huff_decode_ctx = r.ctx, !.left = @ - n],
   buf  |-> [buf EXCEPT !.bytes = @ \o r.out], p |-> p + n, fail |-> r.fail]

hd_inflate_read_huff(x, buf, in, p, n) ==
  HuffRead(x, buf, p, n,
           huff_decode(x.huff_decode_ctx, SubSeq(in, p, p + n - 1), n = x.left))

hd_inflate_read(x, buf, in, p, n) ==
  [x    |-> [x EXCEPT !.left = @ - n],
   buf  |-> [buf EXCEPT !.bytes = @ \o SubSeq(in, p, p + n - 1)], p |-> p + n,
   fail |-> FALSE]

\* The buffer must have room for the bytes and a terminating zero.
Fitting(r) == [r EXCEPT !.x.overrun = @ \/ Len(r.buf.bytes) >= r.buf.cap]

ReadString(x, buf, in, p, n) ==
  Fitting(IF x.huffman_encoded THEN hd_inflate_read_huff(x, buf, in, p, n)
          ELSE hd_inflate_read(x, buf, in, p, n))

NameRead(x, p, r) ==
  LET y == [r.x EXCEPT !.name = r.buf]
  IN  IF r.fail THEN To(x, p, "fail")
      ELSE IF y.left > 0 THEN To(y, r.p, "almost_ok")
      ELSE To([y EXCEPT !.state = "CHECK_VALUELEN"], r.p, "next")

ReadName(x, in, p) ==
  NameRead(x, p, ReadString(x, x.name, in, p, Lower(Len(in) - p + 1, x.left)))

\* The name that goes with the value: the new one, or the one of the entry.
CommittedName(x) ==
  IF x.opcode = "NEWNAME" THEN x.name.bytes
  ELSE nghttp2_hd_table_get(x.ctx, x.index).name

Committed(x, p, nv) ==
  Emit([x EXCEPT !.ctx = IF x.index_required THEN add_hd_table_incremental(@, nv) ELSE @,
                 !.value = NoBuf,
                 !.name = IF x.opcode = "NEWNAME" THEN NoBuf ELSE @], p, nv)

\* hd_inflate_commit_newname and hd_inflate_commit_indname.
Commit(x, p) ==
  Committed(x, p, [name |-> CommittedName(x), value |-> x.value.bytes,
                   no_index |-> x.no_index])

ValueRead(x, p, r) ==
  LET y == [r.x EXCEPT !.value = r.buf]
  IN  IF r.fail THEN To(x, p, "fail")
      ELSE IF y.left > 0 THEN To(y, r.p, "almost_ok")
      ELSE Commit(y, r.p)

ReadValue(x, in, p) ==
  ValueRead(x, p, ReadString(x, x.value, in, p, Lower(Len(in) - p + 1, x.left)))

\* One turn of the loop.
Turn(x, in, p) ==
  CASE x.state = "EXPECT_TABLE_SIZE" ->
         IF in[p] \div 32 # 1 THEN To(x, p, "fail") ELSE Opcode(x, in, p)
    [] x.state \in {"INFLATE_START", "OPCODE"} -> Opcode(x, in, p)
    [] x.state = "READ_TABLE_SIZE"       -> ReadTableSize(x, in, p)
    [] x.state = "READ_INDEX"            -> ReadIndex(x, in, p)
    [] x.state = "NEWNAME_CHECK_NAMELEN" -> ReadNameLen(x, in, p, TRUE)
    [] x.state = "NEWNAME_READ_NAMELEN"  -> ReadNameLen(x, in, p, FALSE)
    [] x.state \in {"NEWNAME_READ_NAMEHUFF", "NEWNAME_READ_NAME"} -> ReadName(x, in, p)
    [] x.state = "CHECK_VALUELEN"        -> ReadValueLen(x, in, p, TRUE)
    [] x.state = "READ_VALUELEN"         -> ReadValueLen(x, in, p, FALSE)
    [] x.state \in {"READ_VALUEHUFF", "READ_VALUE"} -> ReadValue(x, in, p)

\* The loop goes round again while there is input, or work without it.
Again(t, in) == t.go = "busy" \/ (t.go = "next" /\ t.p <= Len(in))

RECURSIVE Loop(_, _)
Loop(t, in) == IF Again(t, in) THEN Loop(Turn(t.x, in, t.p), in) ELSE t

\* The result of a call: the inflater, the bytes left, whether a header was
\* emitted, and which, and whether the block was whole.
Returned(t, in, in_final) ==
  LET whole  == t.x.state \in {"OPCODE", "INFLATE_START"}
      failed == \/ t.go = "fail"
                \/ in_final /\ (t.go = "almost_ok" \/ (t.go = "next" /\ ~whole))
  IN  [x     |-> [t.x EXCEPT !.ctx.bad = failed], rest |-> SubSeq(in, t.p, Len(in)),
       emit  |-> t.go = "emit", nv |-> t.nv,
       final |-> in_final /\ t.go = "next" /\ whole]

\* One call: it comes back with the next header, or with the input used up.
nghttp2_hd_inflate_hd(x, in, in_final) ==
  IF x.ctx.bad THEN Returned(To(x, 1, "fail"), in, in_final)
  ELSE Returned(Loop(To(x, 1, "next"), in), in, in_final)

=============================================================================
