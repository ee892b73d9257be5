---------------------------- MODULE MCWebSocket ----------------------------
(***************************************************************************)
(* The messages and the digests of the run of WebSocket.                   *)
(***************************************************************************)
EXTENDS WebSocket

\* n bytes that differ from their neighbours.
Text(n) == [i \in 1..n |-> (7 * i + n) % 256]

Key == <<1, 130, 63, 252>>

\* Empty, around the eight bytes of the wide unmasking, and around the
\* change of the length field.
MCMessages ==
  {[fin |-> 1, opcode |-> 1, key |-> Key, data |-> Text(n)] : n \in {0, 13, 126}}
    \cup {[fin |-> 0, opcode |-> 2, key |-> <<0, 0, 0, 7>>, data |-> Text(9)]}

\* The longest one does not fit the write buffer.
MCReplies ==
  {[fin |-> n % 2, opcode |-> 1, data |-> Text(n)] : n \in {0, 125, 126, 137}}

\* All short ones over a few bytes, and two of the length of a SHA-1 digest.
MCDigests ==
  UNION {[1..n -> {0, 3, 171, 252, 255}] : n \in 1..3}
    \cup {Text(20), [i \in 1..20 |-> 255 - i]}

=============================================================================
