---------------------------- MODULE HpackStream ----------------------------
(***************************************************************************)
(* The header blocks of one direction of an HTTP/2 connection: a deflater  *)
(* at one end, an inflater at the other, the size of the dynamic table     *)
(* changed between blocks, and blocks that reach the inflater in pieces.   *)
(* The inflater is driven either as nghttp2.h documents it, or as the      *)
(* client of this repository drives it.  A connection may also carry a     *)
(* block no deflater made.                                                 *)
(***************************************************************************)
EXTENDS Hpack

CONSTANTS DeflateMax,   \* the limit the deflater is created with
          Sizes,        \* table sizes the settings announce
          HeaderLists,  \* what is sent: sequences of headers
          RawBlocks,    \* blocks of another origin
          MaxBlocks,    \* blocks of a connection
          MaxResizes,   \* changes of the table size
          MaxPiece      \* pieces are this short, or all the rest

VARIABLES receiver, \* who drives the inflater: "documented" or "client"
          d,       \* the deflater
          x,       \* the inflater
          raw,     \* whether the block is one of RawBlocks
          sent,    \* the headers of the current block
          block,   \* the block itself
          pos,     \* how much of it the inflater was given
          got,     \* the headers it gave for it
          x0,      \* the inflater as it was before the block
          blocks, resizes

vars == <<receiver, d, x, raw, sent, block, pos, got, x0, blocks, resizes>>

StreamAssumption ==
  /\ DeflateMax \in Nat /\ Sizes \subseteq Nat
  /\ MaxBlocks \in Nat /\ MaxResizes \in Nat /\ MaxPiece \in Nat \ {0}
ASSUME StreamAssumption

-----------------------------------------------------------------------------
(* The callers of the inflater: the inflater and the headers after a piece *)
(* of a block.                                                             *)

\* The loop of the documentation goes on until the block is final, or the
\* input is used up and the last call gave no header.
DocumentedCall(c, r) ==
  [x    |-> IF r.final THEN nghttp2_hd_inflate_end_headers(r.x) ELSE r.x,
   rest |-> r.rest, final |-> r.final,
   out  |-> IF r.emit THEN Append(c.out, r.nv) ELSE c.out,
   done |-> r.x.ctx.bad \/ r.final \/ (~r.emit /\ r.rest = <<>>)]

\* The loop of the client goes on until the block is final or the input is
\* used up, and looks at that before it calls.
ClientCall(c, r) ==
  [x    |-> r.x, rest |-> r.rest, final |-> r.final,
   out  |-> IF r.emit THEN Append(c.out, r.nv) ELSE c.out,
   done |-> r.x.ctx.bad]

parse_header_stop(c) ==
  [c EXCEPT !.x = IF c.final THEN nghttp2_hd_inflate_end_headers(@) ELSE @,
            !.done = c.done \/ c.final \/ c.rest = <<>>]

RECURSIVE parse_frame_header(_)
parse_frame_header(c) ==
  IF c.done THEN c
  ELSE parse_frame_header(parse_header_stop(
         ClientCall(c, nghttp2_hd_inflate_hd(c.x, c.rest, TRUE))))

RECURSIVE inflate_header_block(_, _)
inflate_header_block(c, in_final) ==
  IF c.done THEN c
  ELSE inflate_header_block(
         DocumentedCall(c, nghttp2_hd_inflate_hd(c.x, c.rest, in_final)), in_final)

Started(y, in, out) == [x |-> y, rest |-> in, final |-> FALSE, out |-> out, done |-> FALSE]

Inflate(y, in, in_final, out) ==
  IF receiver = "client" THEN parse_frame_header(parse_header_stop(Started(y, in, out)))
  ELSE inflate_header_block(Started(y, in, out), in_final)

-----------------------------------------------------------------------------
(* The connection.                                                         *)

Init ==
  /\ receiver \in {"documented", "client"}
  /\ d = deflate_init(DeflateMax)
  /\ x = inflate_init /\ x0 = inflate_init
  /\ raw \in BOOLEAN
  /\ IF raw THEN block \in RawBlocks ELSE block = <<>>
  /\ sent = <<>> /\ got = <<>> /\ pos = 0
  /\ blocks = 0 /\ resizes = 0

\* Between two blocks of the deflater.
Idle == ~raw /\ pos = Len(block) /\ ~d.ctx.bad /\ ~x.ctx.bad

\* A request or a response is sent.
Deflate(nva) ==
  /\ Idle /\ blocks < MaxBlocks
  /\ \E r \in {nghttp2_hd_deflate_hd(d, nva, nghttp2_hd_deflate_bound(nva))} :
       d' = r.d /\ block' = r.bufs.out
  /\ sent' = nva /\ got' = <<>> /\ pos' = 0
  /\ x0' = x
  /\ blocks' = blocks + 1
  /\ UNCHANGED <<receiver, x, raw, resizes>>

\* The next n bytes of the block arrive; the client takes a whole frame.
Feed(n) ==
  /\ n > 0 /\ pos + n <= Len(block) /\ ~x.ctx.bad
  /\ receiver = "client" => n = Len(block)
  /\ \E r \in {Inflate(x, SubSeq(block, pos + 1, pos + n), pos + n = Len(block), got)} :
       x' = r.x /\ got' = r.out
  /\ pos' = pos + n
  /\ UNCHANGED <<receiver, d, raw, sent, block, x0, blocks, resizes>>

\* New settings: the inflater takes them when they are acknowledged, which
\* the order of the frames puts between the same two blocks.  The client
\* does not change its inflater.
Resize(size) ==
  /\ Idle /\ resizes < MaxResizes /\ receiver = "documented"
  /\ d' = deflate_change_table_size(d, size)
  /\ x' = inflate_change_table_size(x, size).x
  /\ resizes' = resizes + 1
  /\ UNCHANGED <<receiver, raw, sent, block, pos, got, x0, blocks>>

\* The owner of the deflater makes do with less than the settings allow.
Reduce(size) ==
  /\ Idle /\ resizes < MaxResizes
  /\ size <= x.settings
  /\ d' = deflate_change_table_size(d, size)
  /\ resizes' = resizes + 1
  /\ UNCHANGED <<receiver, x, raw, sent, block, pos, got, x0, blocks>>

Next ==
  \/ \E nva \in HeaderLists : Deflate(nva)
  \/ \E n \in (1..MaxPiece) \cup {Len(block) - pos} : Feed(n)
  \/ \E size \in Sizes : Resize(size) \/ Reduce(size)

Spec == Init /\ [][Next]_vars

-----------------------------------------------------------------------------
(* Properties.                                                             *)

\* A header as it comes out: the never-indexed mark is also set for what
\* the deflater takes for a secret.
AsReceived(nv) ==
  [nv EXCEPT !.no_index = \/ @
                          \/ nv.name = Bytes("authorization")
                          \/ nv.name = Bytes("cookie") /\ Len(nv.value) < 20]

\* Headers are compressed and restored: the space the client reserves is
\* enough, no block of the deflater is refused, and the inflater gives the
\* headers back in order, with every index meaning the same entry at both
\* ends, whatever the table held and however its size changed.  For the
\* client only as long as the deflater keeps its size: its loop does not call
\* nghttp2_hd_inflate_end_headers after a block, and the inflater refuses the
\* change of size with which a later block begins.
HeadersIntact ==
  ~raw /\ (receiver = "client" => resizes = 0) =>
    /\ ~d.ctx.bad /\ ~x.ctx.bad
    /\ pos = Len(block) => got = [i \in DOMAIN sent |-> AsReceived(sent[i])]

\* The entries of a table.
Entries(ctx) ==
  [i \in 1..ctx.hd_table.len |->
     LET e == hd_ringbuf_get(ctx.hd_table, i - 1) IN <<e.name, e.value>>]

Rooms(ctx) == [i \in 1..ctx.hd_table.len |->
                 entry_room(hd_ringbuf_get(ctx.hd_table, i - 1))]

\* Between blocks the table of the deflater is the newest part of the table
\* of the inflater, and the whole of it unless a change of size is still to
\* be told; the accounted size of each is that of its entries and within
\* its maximum; no secret is in either.
TablesInSync ==
  /\ \A ctx \in {d.ctx, x.ctx} :
       /\ ctx.bufsize = FoldLeft(+, 0, Rooms(ctx))
       /\ ctx.bufsize <= ctx.bufsize_max
  /\ Idle => /\ IsPrefix(Entries(d.ctx), Entries(x.ctx))
             /\ ~d.notify => Entries(d.ctx) = Entries(x.ctx)
             /\ \A e \in ToSet(Entries(x.ctx)) : e[1] # Bytes("authorization")

SameOutcome(whole) ==
  /\ got = whole.out
  /\ IF x.ctx.bad THEN whole.x.ctx.bad ELSE x = whole.x

\* It does not matter where a block is cut: after any prefix of it, fed in
\* any pieces, the inflater is where it would be had it come at once.
BlockResumable ==
  pos > 0 /\ (raw \/ pos < Len(block)) =>
    SameOutcome(Inflate(x0, SubSeq(block, 1, pos), pos = Len(block), <<>>))

\* No string, coded or not, is decoded past the end of the buffer that was
\* allocated when only its coded length was known.
StringsFit == ~x.overrun

=============================================================================
