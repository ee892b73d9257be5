------------------------------- MODULE Buffer -------------------------------
(***************************************************************************)
(* fsw::Buffer (src/buffer.cc): size + 1 bytes of memory, of which length  *)
(* are in use.  Bytes past length keep what was written there before.      *)
(***************************************************************************)
EXTENDS Integers, Sequences

NewBuffer(size) == [size |-> size, length |-> 0, mem |-> [i \in 0..size |-> 0]]

\* Whether n more bytes can be appended; otherwise append ends the process.
Fits(b, n) == b.length + n <= b.size

append(b, str) ==
  [b EXCEPT !.length = @ + Len(str),
            !.mem = [i \in 0..b.size |->
               IF i \in b.length..(b.length + Len(str) - 1) THEN str[i - b.length + 1]
               ELSE IF i = b.length + Len(str) THEN 0 ELSE b.mem[i]]]

clear(b) == [b EXCEPT !.length = 0, !.mem[0] = 0]

\* What a reader of the buffer sees.
Content(b) == [i \in 1..b.length |-> b.mem[i - 1]]

=============================================================================
