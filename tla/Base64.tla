------------------------------- MODULE Base64 -------------------------------
(***************************************************************************)
(* src/base64.cc: three bytes at a time as four characters.                *)
(***************************************************************************)
EXTENDS Integers, Sequences

base64_chars ==
  <<"A", "B", "C", "D", "E", "F", "G", "H", "I", "J", "K", "L", "M",
    "N", "O", "P", "Q", "R", "S", "T", "U", "V", "W", "X", "Y", "Z",
    "a", "b", "c", "d", "e", "f", "g", "h", "i", "j", "k", "l", "m",
    "n", "o", "p", "q", "r", "s", "t", "u", "v", "w", "x", "y", "z",
    "0", "1", "2", "3", "4", "5", "6", "7", "8", "9", "+", "/">>

Base64Char(k) == base64_chars[k + 1]
is_base64(c) == \E k \in 0..63 : Base64Char(k) = c
find(c) == CHOOSE k \in 0..63 : Base64Char(k) = c

\* char_array_4 from char_array_3, and back; every byte is cut to 8 bits.
Sextet(a, j) ==
  CASE j = 0 -> a[0] \div 4
    [] j = 1 -> (a[0] % 4) * 16 + (a[1] \div 16)
    [] j = 2 -> (a[1] % 16) * 4 + (a[2] \div 64)
    [] j = 3 -> a[2] % 64

Octet(a, j) ==
  CASE j = 0 -> ((a[0] * 4) % 256) + ((a[1] \div 16) % 4)
    [] j = 1 -> ((a[1] % 16) * 16) + ((a[2] \div 4) % 16)
    [] j = 2 -> ((a[2] % 4) * 64 + a[3]) % 256

\* The g-th three bytes, filled up with zeros.
Triple(bytes, g) ==
  [j \in 0..2 |-> IF 3 * g + j < Len(bytes) THEN bytes[3 * g + j + 1] ELSE 0]

\* Mutant: the last group is one character short of its bits.
Kept_short(i) == i

\* How many characters the i bytes of a last group take.
Kept(i) == i + 1

base64_encode(bytes) ==
  LET whole == Len(bytes) \div 3
      left  == Len(bytes) % 3
      Char(g, j) == IF g < whole \/ j < Kept(left)
                      THEN Base64Char(Sextet(Triple(bytes, g), j)) ELSE "="
  IN  [k \in 1..(4 * (whole + IF left = 0 THEN 0 ELSE 1)) |->
         Char((k - 1) \div 4, (k - 1) % 4)]

\* The characters before the first that is not of the code.
Prefix(str) ==
  LET ends == {k \in 0..Len(str) : k = Len(str) \/ ~is_base64(str[k + 1])}
  IN  CHOOSE k \in ends : \A l \in ends : k <= l

\* The g-th four characters; where there are none the array holds junk.
Quad(str, n, g, junk) ==
  [j \in 0..3 |-> IF 4 * g + j < n THEN find(str[4 * g + j + 1]) ELSE junk]

Decoded(str, n, junk) ==
  [k \in 1..(3 * (n \div 4) + IF n % 4 = 0 THEN 0 ELSE (n % 4) - 1) |->
     Octet(Quad(str, n, (k - 1) \div 3, junk), (k - 1) % 3)]

base64_decode(str, junk) == Decoded(str, Prefix(str), junk)

=============================================================================
