------------------------------ MODULE Huffman ------------------------------
(***************************************************************************)
(* The Huffman code of HPACK (thirdparty/nghttp2/nghttp2_hd_huffman.c and  *)
(* its generated tables).  The code is canonical: the code words of one    *)
(* length are consecutive numbers, given to the symbols in increasing      *)
(* order, so the table of the encoder is its rows of symbols by length,    *)
(* and the table of the decoder, whose states are the inner nodes of the   *)
(* code tree, is a walk of four bits from a node.  A node is the number    *)
(* and the value of the bits that lead to it.                              *)
(***************************************************************************)
EXTENDS Integers, Sequences, FiniteSets, SequencesExt, FiniteSetsExt, TLC

EOS == 256

\* huff_sym_table: the symbols by the length of their code words.
Row ==
     5 :> <<48, 49, 50, 97, 99, 101, 105, 111, 115, 116>> @@
     6 :> <<32, 37, 45, 46, 47, 51, 52, 53, 54, 55, 56, 57, 61, 65, 95, 98,
           100, 102, 103, 104, 108, 109, 110, 112, 114, 117>> @@
     7 :> <<58, 66, 67, 68, 69, 70, 71, 72, 73, 74, 75, 76, 77, 78, 79, 80,
           81, 82, 83, 84, 85, 86, 87, 89, 106, 107, 113, 118, 119, 120, 121,
           122>> @@
     8 :> <<38, 42, 44, 59, 88, 90>> @@
     9 :> <<>> @@
    10 :> <<33, 34, 40, 41, 63>> @@
    11 :> <<39, 43, 124>> @@
    12 :> <<35, 62>> @@
    13 :> <<0, 36, 64, 91, 93, 126>> @@
    14 :> <<94, 125>> @@
    15 :> <<60, 96, 123>> @@
    16 :> <<>> @@
    17 :> <<>> @@
    18 :> <<>> @@
    19 :> <<92, 195, 208>> @@
    20 :> <<128, 130, 131, 162, 184, 194, 224, 226>> @@
    21 :> <<153, 161, 167, 172, 176, 177, 179, 209, 216, 217, 227, 229, 230>> @@
    22 :> <<129, 132, 133, 134, 136, 146, 154, 156, 160, 163, 164, 169, 170,
           173, 178, 181, 185, 186, 187, 189, 190, 196, 198, 228, 232, 233>> @@
    23 :> <<1, 135, 137, 138, 139, 140, 141, 143, 147, 149, 150, 151, 152,
           155, 157, 158, 165, 166, 168, 174, 175, 180, 182, 183, 188, 191,
           197, 231, 239>> @@
    24 :> <<9, 142, 144, 145, 148, 159, 171, 206, 215, 225, 236, 237>> @@
    25 :> <<199, 207, 234, 235>> @@
    26 :> <<192, 193, 200, 201, 202, 205, 210, 213, 218, 219, 238, 240, 242,
           243, 255>> @@
    27 :> <<203, 204, 211, 212, 214, 221, 222, 223, 241, 244, 245, 246, 247,
           248, 250, 251, 252, 253, 254>> @@
    28 :> <<2, 3, 4, 5, 6, 7, 8, 11, 12, 14, 15, 16, 17, 18, 19, 20, 21, 23,
           24, 25, 26, 27, 28, 29, 30, 31, 127, 220, 249>> @@
    29 :> <<>> @@
    30 :> <<10, 13, 22, 256>>

\* The first code word of a length.
FirstCode ==
  [l \in DOMAIN Row |->
     MapThenSumSet(LAMBDA m : Len(Row[m]) * 2^(l - m), 5..(l - 1))]

\* The length and the code word of every symbol.
huff_sym_table ==
  [s \in 0..EOS |->
     LET l == CHOOSE l \in DOMAIN Row : Contains(Row[l], s)
         i == CHOOSE i \in DOMAIN Row[l] : Row[l][i] = s
     IN  [nbits |-> l, code |-> FirstCode[l] + i - 1]]

Bits(n, v) == [i \in 1..n |-> (v \div 2^(n - i)) % 2]

Octet(b) == 128 * b[1] + 64 * b[2] + 32 * b[3] + 16 * b[4]
              + 8 * b[5] + 4 * b[6] + 2 * b[7] + b[8]

-----------------------------------------------------------------------------
(* Encoding.                                                               *)

RECURSIVE CountBits(_)
CountBits(str) ==
  IF str = <<>> THEN 0 ELSE huff_sym_table[Head(str)].nbits + CountBits(Tail(str))

\* The number of bytes str takes.
huff_encode_count(str) == (CountBits(str) + 7) \div 8

\* The code words one after the other.
RECURSIVE CodeWords(_)
CodeWords(str) ==
  IF str = <<>> THEN <<>>
  ELSE LET sym == huff_sym_table[Head(str)]
       IN  Bits(sym.nbits, sym.code) \o CodeWords(Tail(str))

\* The last byte is filled up with the first bits of EOS, which are ones.
huff_encode(str) ==
  LET words == CodeWords(str)
      n     == (Len(words) + 7) \div 8
      bits  == words \o SubSeq(Bits(8, 255), 1, 8 * n - Len(words))
  IN  [i \in 1..n |-> Octet(SubSeq(bits, 8 * i - 7, 8 * i))]

-----------------------------------------------------------------------------
(* Decoding, resumable between two bytes.                                  *)

Root == [n |-> 0, code |-> 0]

huff_decode_context_init == [node |-> Root, accept |-> TRUE]

\* From a node along one bit.  A code word ends at the root again; its
\* symbol is emitted, unless it is EOS, which no string contains.
Along(t, bit) ==
  LET n    == t.node.n + 1
      code == 2 * t.node.code + bit
      leaf == n \in DOMAIN Row /\ code - FirstCode[n] < Len(Row[n])
      sym  == Row[n][code - FirstCode[n] + 1]
  IN  IF t.fail THEN t
      ELSE IF ~leaf THEN [t EXCEPT !.node = [n |-> n, code |-> code]]
      ELSE IF sym = EOS THEN [t EXCEPT !.fail = TRUE]
      ELSE [t EXCEPT !.node = Root, !.out = Append(@, sym)]

\* The entry of a state and a nibble.
huff_decode_table(t, nibble) ==
  LET b == Bits(4, nibble)
  IN  Along(Along(Along(Along(t, b[1]), b[2]), b[3]), b[4])

\* What may follow the last symbol: fewer than eight ones.
Accepted(node) == node.n < 8 /\ node.code = 2^node.n - 1

\* Every byte is two nibbles.
RECURSIVE DecodeBytes(_, _)
DecodeBytes(t, src) ==
  IF t.fail \/ src = <<>> THEN t
  ELSE DecodeBytes(huff_decode_table(huff_decode_table(t, Head(src) \div 16),
                                     Head(src) % 16), Tail(src))

\* The bytes src took the walk to t; last means that they end the string,
\* which must not be in the middle of a symbol.
HuffDecoded(ctx, src, last, t) ==
  LET accept == IF src = <<>> THEN ctx.accept ELSE Accepted(t.node)
  IN  [ctx  |-> [node |-> t.node, accept |-> accept],
       out  |-> t.out,
       fail |-> t.fail \/ (last /\ ~accept)]

\* ctx is where the bytes before left off.  The result holds the new
\* context, the decoded symbols and whether the decoding failed.
huff_decode(ctx, src, last) ==
  HuffDecoded(ctx, src, last,
              DecodeBytes([node |-> ctx.node, out |-> <<>>, fail |-> FALSE], src))

=============================================================================
