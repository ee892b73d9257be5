-------------------------------- MODULE Help --------------------------------
(***************************************************************************)
(* include/help.h: an int file descriptor and an int coroutine id packed   *)
(* into the 64-bit word that epoll carries, and C's integer conversions.   *)
(*                                                                         *)
(* A 64-bit word is the record of its two 32-bit halves.  IntBound is 2^31 *)
(* in the code; it is a parameter so that small instances reach the limit. *)
(***************************************************************************)
EXTENDS Integers

CONSTANT IntBound

ASSUME IntBoundIsPositive == IntBound \in Nat \ {0}

Int32  == -IntBound .. IntBound - 1
UInt32 == 0 .. 2 * IntBound - 1

\* Implicit conversion of a 64-bit signed value to int (two's complement).
ToInt(n) ==
    IF n \in Int32 THEN n ELSE ((n + IntBound) % (2 * IntBound)) - IntBound

\* The 32 bits of an int, and the int of 32 bits.
Bits(n) == IF n < 0 THEN n + 2 * IntBound ELSE n
Signed(b) == IF b >= IntBound THEN b - 2 * IntBound ELSE b

\* Mutant: the id is shifted as well as the descriptor.
touint64_swapped(fd, id) == [hi |-> Bits(id), lo |-> Bits(fd)]

\* touint64: (uint64_t)id extends the sign of a negative id over the half
\* that holds the descriptor.
touint64(fd, id) ==
    [hi |-> IF id < 0 THEN 2 * IntBound - 1 ELSE Bits(fd), lo |-> Bits(id)]

\* fromuint64, its two results.
fromuint64(v) == [fd |-> Signed(v.hi), id |-> Signed(v.lo)]
=============================================================================
