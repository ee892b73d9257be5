-------------------------- MODULE WebSocketProofs --------------------------
(***************************************************************************)
(* What a websocket session does to bytes, for every digest, message, key, *)
(* length and way to cut the stream.                                       *)
(***************************************************************************)
EXTENDS WebSocket, TLAPS

-----------------------------------------------------------------------------
(* The alphabet *)

LEMMA Alphabet ==
    /\ \A k \in 0..63 : Base64Char(k) # "="
    /\ \A k, l \in 0..63 : Base64Char(k) = Base64Char(l) => k = l
<1>1. \A k \in 0..63 : Base64Char(k) # "="
  BY DEF Base64Char, base64_chars
<1>2. \A k, l \in 0..63 : Base64Char(k) = Base64Char(l) => k = l
  BY DEF Base64Char, base64_chars
<1> QED
  BY <1>1, <1>2

LEMMA FindChar ==
    ASSUME NEW k \in 0..63
    PROVE  find(Base64Char(k)) = k /\ is_base64(Base64Char(k)) /\ ~ is_base64("=")
BY Alphabet DEF find, is_base64

-----------------------------------------------------------------------------
(* Three bytes and four characters *)

\* What the shifts of base64_encode give, those of base64_decode take back.
LEMMA SextetsOctets ==
    ASSUME NEW a \in Byte, NEW b \in Byte, NEW c \in Byte,
           NEW p, NEW q, NEW r, NEW s,
           p = a \div 4, q = (a % 4) * 16 + (b \div 16),
           r = (b % 16) * 4 + (c \div 64), s = c % 64
    PROVE  /\ p \in 0..63 /\ q \in 0..63 /\ r \in 0..63 /\ s \in 0..63
           /\ ((p * 4) % 256) + ((q \div 16) % 4) = a
           /\ ((q % 16) * 16) + ((r \div 4) % 16) = b
           /\ ((r % 4) * 64 + s) % 256 = c
<1>1. PICK x, y, u, v : x = a % 4 /\ y = b \div 16 /\ u = b % 16 /\ v = c \div 64
  OBVIOUS
<1>2. p \in 0..63 /\ x \in 0..3 /\ a = 4 * p + x
  BY <1>1 DEF Byte
<1>3. y \in 0..15 /\ u \in 0..15 /\ b = 16 * y + u
  BY <1>1 DEF Byte
<1>4. v \in 0..3 /\ s \in 0..63 /\ c = 64 * v + s
  BY <1>1 DEF Byte
<1>5. q = x * 16 + y /\ r = u * 4 + v
  BY <1>1
<1>6. q \in 0..63 /\ q \div 16 = x /\ q % 16 = y
  BY <1>2, <1>3, <1>5
<1>7. r \in 0..63 /\ r \div 4 = u /\ r % 4 = v
  BY <1>3, <1>4, <1>5
<1>8. x % 4 = x /\ u % 16 = u /\ (p * 4) % 256 = p * 4 /\ (v * 64 + s) % 256 = v * 64 + s
  BY <1>2, <1>3, <1>4
<1>9. ((p * 4) % 256) + ((q \div 16) % 4) = a
  BY <1>2, <1>6, <1>8
<1>10. ((q % 16) * 16) + ((r \div 4) % 16) = b
  BY <1>3, <1>6, <1>7, <1>8
<1>11. ((r % 4) * 64 + s) % 256 = c
  BY <1>4, <1>7, <1>8
<1> QED
  BY <1>2, <1>4, <1>6, <1>7, <1>9, <1>10, <1>11

LEMMA TripleType ==
    ASSUME NEW bytes \in Seq(Byte), NEW g \in Nat
    PROVE  /\ \A j \in 0..2 : Triple(bytes, g)[j] \in Byte
           /\ \A j \in 0..2 : Triple(bytes, g)[j] =
                 IF 3 * g + j < Len(bytes) THEN bytes[3 * g + j + 1] ELSE 0
<1>1. ASSUME NEW j \in 0..2 PROVE Triple(bytes, g)[j] =
                 IF 3 * g + j < Len(bytes) THEN bytes[3 * g + j + 1] ELSE 0
  BY <1>1 DEF Triple
<1>2. ASSUME NEW j \in 0..2, 3 * g + j < Len(bytes) PROVE bytes[3 * g + j + 1] \in Byte
  <2>1. 3 * g + j + 1 \in 1..Len(bytes)
    BY <1>2
  <2> QED
    BY <2>1
<1>3. 0 \in Byte
  BY DEF Byte
<1> QED
  BY <1>1, <1>2, <1>3

LEMMA SextetType ==
    ASSUME NEW bytes \in Seq(Byte), NEW g \in Nat, NEW j \in 0..3
    PROVE  Sextet(Triple(bytes, g), j) \in 0..63
<1>1. PICK a, b, c : /\ a = Triple(bytes, g)[0] /\ b = Triple(bytes, g)[1]
                     /\ c = Triple(bytes, g)[2]
  OBVIOUS
<1>2. a \in Byte /\ b \in Byte /\ c \in Byte
  <2>1. 0 \in 0..2 /\ 1 \in 0..2 /\ 2 \in 0..2
    OBVIOUS
  <2> QED
    BY <1>1, <2>1, TripleType
<1>3. /\ a \div 4 \in 0..63 /\ (a % 4) * 16 + (b \div 16) \in 0..63
      /\ (b % 16) * 4 + (c \div 64) \in 0..63 /\ c % 64 \in 0..63
  BY <1>2, SextetsOctets
<1>4. /\ Sextet(Triple(bytes, g), 0) = a \div 4
      /\ Sextet(Triple(bytes, g), 1) = (a % 4) * 16 + (b \div 16)
      /\ Sextet(Triple(bytes, g), 2) = (b % 16) * 4 + (c \div 64)
      /\ Sextet(Triple(bytes, g), 3) = c % 64
  BY <1>1 DEF Sextet
<1>5. j = 0 \/ j = 1 \/ j = 2 \/ j = 3
  OBVIOUS
<1> QED
  BY <1>3, <1>4, <1>5

\* The octets of four characters of which the first n are there.
LEMMA OctetBack ==
    ASSUME NEW bytes \in Seq(Byte), NEW g \in Nat, NEW m \in 0..2,
           NEW quad, \A j \in 0..(m + 1) : quad[j] = Sextet(Triple(bytes, g), j)
    PROVE  Octet(quad, m) = Triple(bytes, g)[m]
<1>1. PICK a, b, c : /\ a = Triple(bytes, g)[0] /\ b = Triple(bytes, g)[1]
                     /\ c = Triple(bytes, g)[2]
  OBVIOUS
<1>2. a \in Byte /\ b \in Byte /\ c \in Byte
  <2>1. 0 \in 0..2 /\ 1 \in 0..2 /\ 2 \in 0..2
    OBVIOUS
  <2> QED
    BY <1>1, <2>1, TripleType
<1>3. PICK p, q, r, s : /\ p = a \div 4 /\ q = (a % 4) * 16 + (b \div 16)
                        /\ r = (b % 16) * 4 + (c \div 64) /\ s = c % 64
  OBVIOUS
<1>4. /\ ((p * 4) % 256) + ((q \div 16) % 4) = a
      /\ ((q % 16) * 16) + ((r \div 4) % 16) = b
      /\ ((r % 4) * 64 + s) % 256 = c
  BY <1>2, <1>3, SextetsOctets
<1>5. /\ Sextet(Triple(bytes, g), 0) = p /\ Sextet(Triple(bytes, g), 1) = q
      /\ Sextet(Triple(bytes, g), 2) = r /\ Sextet(Triple(bytes, g), 3) = s
  BY <1>1, <1>3 DEF Sextet
<1>6. CASE m = 0
  <2>1. quad[0] = p /\ quad[1] = q
    BY <1>5, <1>6
  <2> QED
    BY <1>1, <1>4, <1>6, <2>1 DEF Octet
<1>7. CASE m = 1
  <2>1. quad[1] = q /\ quad[2] = r
    BY <1>5, <1>7
  <2> QED
    BY <1>1, <1>4, <1>7, <2>1 DEF Octet
<1>8. CASE m = 2
  <2>1. quad[2] = r /\ quad[3] = s
    BY <1>5, <1>8
  <2> QED
    BY <1>1, <1>4, <1>8, <2>1 DEF Octet
<1> QED
  BY <1>6, <1>7, <1>8

-----------------------------------------------------------------------------
(* All bytes and all characters *)

\* How many characters carry bits of n bytes.
Carriers(n) == (4 * n + 2) \div 3

LEMMA Groups ==
    ASSUME NEW n \in Nat
    PROVE  LET w == n \div 3 l == n % 3 IN
           /\ w \in Nat /\ l \in 0..2 /\ n = 3 * w + l
           /\ (n + 2) \div 3 = w + (IF l = 0 THEN 0 ELSE 1)
           /\ Carriers(n) = 4 * w + (IF l = 0 THEN 0 ELSE l + 1)
<1>1. PICK w, l : w = n \div 3 /\ l = n % 3
  OBVIOUS
<1>2. w \in Nat /\ l \in 0..2 /\ n = 3 * w + l
  BY <1>1
<1>3. (n + 2) \div 3 = w + (IF l = 0 THEN 0 ELSE 1)
  BY <1>2
<1>4. Carriers(n) = 4 * w + (IF l = 0 THEN 0 ELSE l + 1)
  BY <1>2 DEF Carriers
<1> QED
  BY <1>1, <1>2, <1>3, <1>4

LEMMA Encoded ==
    ASSUME NEW bytes \in Seq(Byte), NEW e, e = base64_encode(bytes)
    PROVE  /\ Len(e) = 4 * ((Len(bytes) + 2) \div 3)
           /\ \A g \in Nat, j \in 0..3 : 4 * g + j < Len(e) =>
                 e[4 * g + j + 1] = IF 4 * g + j < Carriers(Len(bytes))
                                      THEN Base64Char(Sextet(Triple(bytes, g), j)) ELSE "="
<1>1. PICK n, w, l, G : /\ n = Len(bytes) /\ w = n \div 3 /\ l = n % 3
                        /\ G = w + (IF l = 0 THEN 0 ELSE 1)
  OBVIOUS
<1>2. /\ n \in Nat /\ w \in Nat /\ l \in 0..2 /\ G \in Nat /\ (n + 2) \div 3 = G
      /\ Carriers(n) = 4 * w + (IF l = 0 THEN 0 ELSE l + 1)
  <2>1. n \in Nat
    BY <1>1
  <2>2. /\ w \in Nat /\ l \in 0..2
        /\ (n + 2) \div 3 = w + (IF l = 0 THEN 0 ELSE 1)
        /\ Carriers(n) = 4 * w + (IF l = 0 THEN 0 ELSE l + 1)
    BY <1>1, <2>1, Groups
  <2>3. (n + 2) \div 3 = G
    BY <1>1, <2>2
  <2>4. G \in Nat
    BY <2>1, <2>3
  <2> QED
    BY <2>1, <2>2, <2>3, <2>4
<1> DEFINE Char(g, j) == IF g < w \/ j < Kept(l) THEN Base64Char(Sextet(Triple(bytes, g), j))
                         ELSE "="
<1>3. e = [k \in 1..(4 * G) |-> Char((k - 1) \div 4, (k - 1) % 4)]
  BY <1>1 DEF base64_encode
<1> HIDE DEF Char
<1>6. Len(e) = 4 * G
  BY <1>2, <1>3
<1>7. ASSUME NEW g \in Nat, NEW j \in 0..3, 4 * g + j < 4 * G
      PROVE  e[4 * g + j + 1] = IF 4 * g + j < Carriers(n)
                                  THEN Base64Char(Sextet(Triple(bytes, g), j)) ELSE "="
  <2>1. PICK k : k = 4 * g + j + 1
    OBVIOUS
  <2>2. k \in 1..(4 * G) /\ (k - 1) \div 4 = g /\ (k - 1) % 4 = j
    BY <1>2, <1>7, <2>1
  <2>3. e[k] = Char(g, j)
    BY <1>3, <2>2
  <2>4. (g < w \/ j < l + 1) <=> 4 * g + j < Carriers(n)
    <3>1. CASE l = 0
      <4>1. G = w + 0 /\ Carriers(n) = 4 * w + 0
        BY <1>1, <1>2, <3>1
      <4> QED
        BY <1>2, <1>7, <3>1, <4>1
    <3>2. CASE l # 0
      <4>1. G = w + 1 /\ Carriers(n) = 4 * w + l + 1
        BY <1>1, <1>2, <3>2
      <4> QED
        BY <1>2, <1>7, <3>2, <4>1
    <3> QED
      BY <3>1, <3>2
  <2> QED
    BY <2>1, <2>3, <2>4 DEF Char, Kept
<1> QED
  BY <1>1, <1>2, <1>6, <1>7

LEMMA Position ==
    ASSUME NEW k \in Nat
    PROVE  k \div 4 \in Nat /\ k % 4 \in 0..3 /\ k = 4 * (k \div 4) + (k % 4)
           /\ k \div 3 \in Nat /\ k % 3 \in 0..2 /\ k = 3 * (k \div 3) + (k % 3)
OBVIOUS

LEMMA PrefixOfCode ==
    ASSUME NEW bytes \in Seq(Byte), NEW e, e = base64_encode(bytes)
    PROVE  Prefix(e) = Carriers(Len(bytes)) /\ Carriers(Len(bytes)) <= Len(e)
<1>1. PICK n, M, N : n = Len(bytes) /\ M = Len(e) /\ N = Carriers(n)
  OBVIOUS
<1>2. n \in Nat /\ N \in Nat /\ M \in Nat /\ N <= M
  <2>1. n \in Nat
    BY <1>1
  <2>2. M = 4 * ((n + 2) \div 3)
    BY <1>1, Encoded
  <2> QED
    BY <1>1, <2>1, <2>2 DEF Carriers
<1>3. ASSUME NEW k \in Nat, k < M PROVE is_base64(e[k + 1]) <=> k < N
  <2>1. PICK g, j : g = k \div 4 /\ j = k % 4
    OBVIOUS
  <2>2. g \in Nat /\ j \in 0..3 /\ k = 4 * g + j
    BY <2>1, Position
  <2>3. e[k + 1] = IF k < N THEN Base64Char(Sextet(Triple(bytes, g), j)) ELSE "="
    BY <1>1, <1>3, <2>2, Encoded
  <2>4. Sextet(Triple(bytes, g), j) \in 0..63
    BY <2>2, SextetType
  <2> QED
    BY <2>3, <2>4, FindChar
<1>4. PICK ends : ends = {k \in 0..M : k = M \/ ~ is_base64(e[k + 1])}
  OBVIOUS
<1>5. N \in ends
  BY <1>2, <1>3, <1>4
<1>6. ASSUME NEW k \in ends PROVE N <= k
  BY <1>2, <1>3, <1>4, <1>6
<1>7. \A k \in ends : (\A l \in ends : k <= l) => k = N
  BY <1>2, <1>4, <1>5, <1>6
<1>8. Prefix(e) = CHOOSE k \in ends : \A l \in ends : k <= l
  BY <1>1, <1>4 DEF Prefix
<1>9. Prefix(e) = N
  BY <1>5, <1>6, <1>7, <1>8
<1> QED
  BY <1>1, <1>2, <1>9

\* base64_decode undoes base64_encode.
LEMMA DecodedBack ==
    ASSUME NEW bytes \in Seq(Byte), NEW e, e = base64_encode(bytes), NEW junk
    PROVE  base64_decode(e, junk) = bytes
<1>1. PICK n, w, l, N : /\ n = Len(bytes) /\ w = n \div 3 /\ l = n % 3 /\ N = Carriers(n)
  OBVIOUS
<1>2. /\ n \in Nat /\ w \in Nat /\ l \in 0..2 /\ n = 3 * w + l
      /\ N = 4 * w + (IF l = 0 THEN 0 ELSE l + 1)
  <2>1. n \in Nat
    BY <1>1
  <2> QED
    BY <1>1, <2>1, Groups
<1>3. N \div 4 = w /\ (N % 4 = IF l = 0 THEN 0 ELSE l + 1) /\ N \in Nat
  BY <1>2
<1>4. 3 * (N \div 4) + (IF N % 4 = 0 THEN 0 ELSE (N % 4) - 1) = n
  BY <1>2, <1>3
<1>5. base64_decode(e, junk) =
         [k \in 1..n |-> Octet(Quad(e, N, (k - 1) \div 3, junk), (k - 1) % 3)]
  BY <1>1, <1>4, PrefixOfCode DEF base64_decode, Decoded
<1>6. ASSUME NEW k \in 1..n
      PROVE  Octet(Quad(e, N, (k - 1) \div 3, junk), (k - 1) % 3) = bytes[k]
  <2>1. PICK g, m : g = (k - 1) \div 3 /\ m = (k - 1) % 3
    OBVIOUS
  <2>2. g \in Nat /\ m \in 0..2 /\ k - 1 = 3 * g + m
    <3>1. k - 1 \in Nat
      BY <1>2
    <3> QED
      BY <2>1, <3>1, Position
  <2>3. \A j \in 0..(m + 1) : j \in 0..3 /\ 4 * g + j < N
    BY <1>2, <2>2
  <2>4. ASSUME NEW j \in 0..(m + 1)
        PROVE  Quad(e, N, g, junk)[j] = Sextet(Triple(bytes, g), j)
    <3>1. j \in 0..3 /\ 4 * g + j < N /\ N <= Len(e) /\ Len(e) \in Nat
      <4>1. Len(e) = 4 * ((n + 2) \div 3) /\ N <= Len(e)
        BY <1>1, Encoded, PrefixOfCode
      <4> QED
        BY <1>2, <2>3, <4>1
    <3>2. 4 * g + j < Len(e)
      BY <1>3, <2>2, <3>1
    <3>3. e[4 * g + j + 1] = Base64Char(Sextet(Triple(bytes, g), j))
      BY <1>1, <2>2, <3>1, <3>2, Encoded
    <3>4. Quad(e, N, g, junk)[j] = find(e[4 * g + j + 1])
      BY <3>1 DEF Quad
    <3> QED
      BY <2>2, <3>1, <3>3, <3>4, SextetType, FindChar
  <2>5. Octet(Quad(e, N, g, junk), m) = Triple(bytes, g)[m]
    BY <2>2, <2>4, OctetBack
  <2>6. Triple(bytes, g)[m] = bytes[k]
    <3>1. 3 * g + m < n /\ 3 * g + m + 1 = k
      BY <1>2, <2>2
    <3> QED
      BY <1>1, <2>2, <3>1, TripleType
  <2> QED
    BY <2>1, <2>5, <2>6
<1>7. bytes = [k \in 1..n |-> bytes[k]]
  BY <1>1
<1> QED
  BY <1>5, <1>6, <1>7

-----------------------------------------------------------------------------
(* Bits *)

\* A byte is the sum of its bits.
IsBits(a, h, g, f, e, d, c, b, x) ==
    /\ h = (a \div 128) % 2 /\ g = (a \div 64) % 2 /\ f = (a \div 32) % 2
    /\ e = (a \div 16) % 2 /\ d = (a \div 8) % 2 /\ c = (a \div 4) % 2
    /\ b = (a \div 2) % 2 /\ x = (a \div 1) % 2

LEMMA ByteBits ==
    ASSUME NEW a \in Byte, NEW h, NEW g, NEW f, NEW e, NEW d, NEW c, NEW b, NEW x,
           IsBits(a, h, g, f, e, d, c, b, x)
    PROVE  /\ h \in {0, 1} /\ g \in {0, 1} /\ f \in {0, 1} /\ e \in {0, 1}
           /\ d \in {0, 1} /\ c \in {0, 1} /\ b \in {0, 1} /\ x \in {0, 1}
           /\ a = 128*h + 64*g + 32*f + 16*e + 8*d + 4*c + 2*b + x
<1>1. PICK h7, h6, h5, h4, h3, h2, h1 :
         /\ h7 = a \div 128 /\ h6 = a \div 64 /\ h5 = a \div 32 /\ h4 = a \div 16
         /\ h3 = a \div 8 /\ h2 = a \div 4 /\ h1 = a \div 2
  OBVIOUS
<1>2. /\ h7 \in Nat /\ h6 \in Nat /\ h5 \in Nat /\ h4 \in Nat /\ h3 \in Nat
      /\ h2 \in Nat /\ h1 \in Nat /\ a \in Nat /\ a \div 1 = a
  BY <1>1 DEF Byte
<1>3. /\ h = h7 % 2 /\ g = h6 % 2 /\ f = h5 % 2 /\ e = h4 % 2 /\ d = h3 % 2 /\ c = h2 % 2
      /\ b = h1 % 2 /\ x = a % 2
  BY <1>1, <1>2 DEF IsBits
<1>4. /\ h \in {0, 1} /\ g \in {0, 1} /\ f \in {0, 1} /\ e \in {0, 1}
      /\ d \in {0, 1} /\ c \in {0, 1} /\ b \in {0, 1} /\ x \in {0, 1}
  BY <1>2, <1>3
<1>5. h7 = h /\ h6 = 2 * h7 + g
  BY <1>1, <1>3 DEF Byte
<1>6. h5 = 2 * h6 + f /\ h4 = 2 * h5 + e
  BY <1>1, <1>3 DEF Byte
<1>7. h3 = 2 * h4 + d /\ h2 = 2 * h3 + c
  BY <1>1, <1>3 DEF Byte
<1>8. h1 = 2 * h2 + b /\ a = 2 * h1 + x
  BY <1>1, <1>3 DEF Byte
<1>9. a = 128*h + 64*g + 32*f + 16*e + 8*d + 4*c + 2*b + x
  BY <1>2, <1>4, <1>5, <1>6, <1>7, <1>8
<1> QED
  BY <1>4, <1>9

\* The shifts of base64_encode, by bits.
LEMMA SextetBits ==
    ASSUME NEW a \in Byte, NEW h, NEW g, NEW f, NEW e, NEW d, NEW c, NEW b, NEW x,
           IsBits(a, h, g, f, e, d, c, b, x)
    PROVE  /\ a \div 4 = 32*h + 16*g + 8*f + 4*e + 2*d + c /\ a % 4 = 2*b + x
           /\ a \div 16 = 8*h + 4*g + 2*f + e /\ a % 16 = 8*d + 4*c + 2*b + x
           /\ a \div 64 = 2*h + g /\ a % 64 = 32*f + 16*e + 8*d + 4*c + 2*b + x
<1>1. /\ h \in {0, 1} /\ g \in {0, 1} /\ f \in {0, 1} /\ e \in {0, 1}
      /\ d \in {0, 1} /\ c \in {0, 1} /\ b \in {0, 1} /\ x \in {0, 1}
      /\ a = 128*h + 64*g + 32*f + 16*e + 8*d + 4*c + 2*b + x
  BY ByteBits
<1>2. a \div 4 = 32*h + 16*g + 8*f + 4*e + 2*d + c /\ a % 4 = 2*b + x
  BY <1>1
<1>3. a \div 16 = 8*h + 4*g + 2*f + e /\ a % 16 = 8*d + 4*c + 2*b + x
  BY <1>1
<1>4. a \div 64 = 2*h + g /\ a % 64 = 32*f + 16*e + 8*d + 4*c + 2*b + x
  BY <1>1
<1> QED
  BY <1>2, <1>3, <1>4

Weights == <<128, 64, 32, 16, 8, 4, 2, 1>>

\* The bits of a group of three bytes.
LEMMA BitOfTriple ==
    ASSUME NEW bytes \in Seq(Byte), NEW g \in Nat, NEW m \in 0..2, NEW q \in 0..7
    PROVE  Bit(bytes, 24 * g + 8 * m + q + 1) = (Triple(bytes, g)[m] \div Weights[q + 1]) % 2
<1>1. PICK i : i = 24 * g + 8 * m + q + 1
  OBVIOUS
<1>2. (i - 1) \div 8 = 3 * g + m /\ (i - 1) % 8 = q
  <2>1. PICK t : t = 3 * g + m
    OBVIOUS
  <2>2. t \in Nat /\ i - 1 = 8 * t + q
    BY <1>1, <2>1
  <2>3. (i - 1) \div 8 = t /\ (i - 1) % 8 = q
    BY <2>2
  <2> QED
    BY <2>1, <2>3
<1>3. Len(bytes) \in Nat /\ (i > 8 * Len(bytes) <=> ~ (3 * g + m < Len(bytes)))
  BY <1>1
<1>4. Bit(bytes, i) = IF i > 8 * Len(bytes) THEN 0
                      ELSE (bytes[3 * g + m + 1] \div Weights[q + 1]) % 2
  BY <1>2 DEF Bit, Weights
<1>5. Weights[q + 1] \in {128, 64, 32, 16, 8, 4, 2, 1}
  BY DEF Weights
<1>6. (0 \div Weights[q + 1]) % 2 = 0
  BY <1>5
<1>7. CASE 3 * g + m < Len(bytes)
  BY <1>1, <1>3, <1>4, <1>7, TripleType
<1>8. CASE ~ (3 * g + m < Len(bytes))
  BY <1>1, <1>3, <1>4, <1>6, <1>8, TripleType
<1> QED
  BY <1>7, <1>8

LEMMA BitsOfTriple ==
    ASSUME NEW bytes \in Seq(Byte), NEW g \in Nat, NEW m \in 0..2, NEW at, at = 24*g + 8*m
    PROVE  IsBits(Triple(bytes, g)[m], Bit(bytes, at + 1), Bit(bytes, at + 2),
                  Bit(bytes, at + 3), Bit(bytes, at + 4), Bit(bytes, at + 5),
                  Bit(bytes, at + 6), Bit(bytes, at + 7), Bit(bytes, at + 8))
<1>1. ASSUME NEW q \in 0..7, NEW w, w = Weights[q + 1], NEW i, i = q + 1
      PROVE  Bit(bytes, at + i) = (Triple(bytes, g)[m] \div w) % 2
  <2>1. 24*g + 8*m + q + 1 = at + i
    BY <1>1
  <2>2. Bit(bytes, 24*g + 8*m + q + 1) = (Triple(bytes, g)[m] \div Weights[q + 1]) % 2
    BY <1>1, BitOfTriple, Zenon
  <2> QED
    BY ONLY <1>1, <2>1, <2>2, Zenon
<1>2. Bit(bytes, at + 1) = (Triple(bytes, g)[m] \div 128) % 2
  BY <1>1, 0 \in 0..7, Weights[0 + 1] = 128, 1 = 0 + 1 DEF Weights
<1>3. Bit(bytes, at + 2) = (Triple(bytes, g)[m] \div 64) % 2
  BY <1>1, 1 \in 0..7, Weights[1 + 1] = 64, 2 = 1 + 1 DEF Weights
<1>4. Bit(bytes, at + 3) = (Triple(bytes, g)[m] \div 32) % 2
  BY <1>1, 2 \in 0..7, Weights[2 + 1] = 32, 3 = 2 + 1 DEF Weights
<1>5. Bit(bytes, at + 4) = (Triple(bytes, g)[m] \div 16) % 2
  BY <1>1, 3 \in 0..7, Weights[3 + 1] = 16, 4 = 3 + 1 DEF Weights
<1>6. Bit(bytes, at + 5) = (Triple(bytes, g)[m] \div 8) % 2
  BY <1>1, 4 \in 0..7, Weights[4 + 1] = 8, 5 = 4 + 1 DEF Weights
<1>7. Bit(bytes, at + 6) = (Triple(bytes, g)[m] \div 4) % 2
  BY <1>1, 5 \in 0..7, Weights[5 + 1] = 4, 6 = 5 + 1 DEF Weights
<1>8. Bit(bytes, at + 7) = (Triple(bytes, g)[m] \div 2) % 2
  BY <1>1, 6 \in 0..7, Weights[6 + 1] = 2, 7 = 6 + 1 DEF Weights
<1>9. Bit(bytes, at + 8) = (Triple(bytes, g)[m] \div 1) % 2
  BY <1>1, 7 \in 0..7, Weights[7 + 1] = 1, 8 = 7 + 1 DEF Weights
<1> QED
  BY <1>2, <1>3, <1>4, <1>5, <1>6, <1>7, <1>8, <1>9 DEF IsBits

LEMMA JoinBits ==
    ASSUME NEW p \in {0, 1}, NEW q \in {0, 1}, NEW r \in {0, 1},
           NEW s \in {0, 1}, NEW t \in {0, 1}, NEW u \in {0, 1}
    PROVE  /\ (2*p + q) * 16 + (8*r + 4*s + 2*t + u) = 32*p + 16*q + 8*r + 4*s + 2*t + u
           /\ (8*p + 4*q + 2*r + s) * 4 + (2*t + u) = 32*p + 16*q + 8*r + 4*s + 2*t + u
OBVIOUS

\* Six bits of the bytes are what the shifts give.
LEMMA SixBitsSextet ==
    ASSUME NEW bytes \in Seq(Byte), NEW g \in Nat, NEW j \in 0..3
    PROVE  SixBits(bytes, 4 * g + j + 1) = Sextet(Triple(bytes, g), j)
<1> DEFINE B(i) == Bit(bytes, 24*g + i)
<1>1. PICK a, b, c : /\ a = Triple(bytes, g)[0] /\ b = Triple(bytes, g)[1]
                     /\ c = Triple(bytes, g)[2]
  OBVIOUS
<1>0. 0 \in 0..2 /\ 1 \in 0..2 /\ 2 \in 0..2
  OBVIOUS
<1>2. a \in Byte /\ b \in Byte /\ c \in Byte
  BY <1>0, <1>1, TripleType
<1>3. IsBits(a, B(1), B(2), B(3), B(4), B(5), B(6), B(7), B(8))
  <2>1. 24*g = 24*g + 8*0
    OBVIOUS
  <2> QED
    BY <1>0, <1>1, <2>1, BitsOfTriple
<1>4. IsBits(b, B(9), B(10), B(11), B(12), B(13), B(14), B(15), B(16))
  <2>1. PICK at : at = 24*g + 8*1
    OBVIOUS
  <2>2. /\ at + 1 = 24*g + 9 /\ at + 2 = 24*g + 10 /\ at + 3 = 24*g + 11
        /\ at + 4 = 24*g + 12 /\ at + 5 = 24*g + 13 /\ at + 6 = 24*g + 14
        /\ at + 7 = 24*g + 15 /\ at + 8 = 24*g + 16
    BY <2>1
  <2>3. IsBits(b, Bit(bytes, at + 1), Bit(bytes, at + 2), Bit(bytes, at + 3), Bit(bytes, at + 4),
                  Bit(bytes, at + 5), Bit(bytes, at + 6), Bit(bytes, at + 7), Bit(bytes, at + 8))
    BY <1>0, <1>1, <2>1, BitsOfTriple
  <2> QED
    BY <2>2, <2>3
<1>5. IsBits(c, B(17), B(18), B(19), B(20), B(21), B(22), B(23), B(24))
  <2>1. PICK at : at = 24*g + 8*2
    OBVIOUS
  <2>2. /\ at + 1 = 24*g + 17 /\ at + 2 = 24*g + 18 /\ at + 3 = 24*g + 19
        /\ at + 4 = 24*g + 20 /\ at + 5 = 24*g + 21 /\ at + 6 = 24*g + 22
        /\ at + 7 = 24*g + 23 /\ at + 8 = 24*g + 24
    BY <2>1
  <2>3. IsBits(c, Bit(bytes, at + 1), Bit(bytes, at + 2), Bit(bytes, at + 3), Bit(bytes, at + 4),
                  Bit(bytes, at + 5), Bit(bytes, at + 6), Bit(bytes, at + 7), Bit(bytes, at + 8))
    BY <1>0, <1>1, <2>1, BitsOfTriple
  <2> QED
    BY <2>2, <2>3
<1>6. /\ SixBits(bytes, 4 * g + 0 + 1) = 32*B(1) + 16*B(2) + 8*B(3) + 4*B(4) + 2*B(5) + B(6)
      /\ SixBits(bytes, 4 * g + 1 + 1) = 32*B(7) + 16*B(8) + 8*B(9) + 4*B(10) + 2*B(11) + B(12)
      /\ SixBits(bytes, 4 * g + 2 + 1) = 32*B(13) + 16*B(14) + 8*B(15) + 4*B(16) + 2*B(17) + B(18)
      /\ SixBits(bytes, 4 * g + 3 + 1) = 32*B(19) + 16*B(20) + 8*B(21) + 4*B(22) + 2*B(23) + B(24)
  BY DEF SixBits
<1>7. /\ Sextet(Triple(bytes, g), 0) = a \div 4
      /\ Sextet(Triple(bytes, g), 1) = (a % 4) * 16 + (b \div 16)
      /\ Sextet(Triple(bytes, g), 2) = (b % 16) * 4 + (c \div 64)
      /\ Sextet(Triple(bytes, g), 3) = c % 64
  BY <1>1 DEF Sextet
<1> HIDE DEF B
<1>8. /\ B(7) \in {0, 1} /\ B(8) \in {0, 1} /\ B(9) \in {0, 1} /\ B(10) \in {0, 1}
      /\ B(11) \in {0, 1} /\ B(12) \in {0, 1} /\ B(13) \in {0, 1} /\ B(14) \in {0, 1}
      /\ B(15) \in {0, 1} /\ B(16) \in {0, 1} /\ B(17) \in {0, 1} /\ B(18) \in {0, 1}
  BY <1>2, <1>3, <1>4, <1>5, ByteBits
<1>9. /\ a \div 4 = 32*B(1) + 16*B(2) + 8*B(3) + 4*B(4) + 2*B(5) + B(6)
      /\ a % 4 = 2*B(7) + B(8)
  BY <1>2, <1>3, SextetBits
<1>10. /\ b \div 16 = 8*B(9) + 4*B(10) + 2*B(11) + B(12)
       /\ b % 16 = 8*B(13) + 4*B(14) + 2*B(15) + B(16)
  BY <1>2, <1>4, SextetBits
<1>11. /\ c \div 64 = 2*B(17) + B(18)
       /\ c % 64 = 32*B(19) + 16*B(20) + 8*B(21) + 4*B(22) + 2*B(23) + B(24)
  BY <1>2, <1>5, SextetBits
<1>12. (a % 4) * 16 + (b \div 16) = 32*B(7) + 16*B(8) + 8*B(9) + 4*B(10) + 2*B(11) + B(12)
  <2>1. (2*B(7) + B(8)) * 16 + (8*B(9) + 4*B(10) + 2*B(11) + B(12))
           = 32*B(7) + 16*B(8) + 8*B(9) + 4*B(10) + 2*B(11) + B(12)
    <3>1. PICK p, q, r, s, t, u : /\ p = B(7) /\ q = B(8) /\ r = B(9)
                                  /\ s = B(10) /\ t = B(11) /\ u = B(12)
      OBVIOUS
    <3>2. /\ p \in {0, 1} /\ q \in {0, 1} /\ r \in {0, 1}
          /\ s \in {0, 1} /\ t \in {0, 1} /\ u \in {0, 1}
      BY <1>8, <3>1
    <3>3. (2*p + q) * 16 + (8*r + 4*s + 2*t + u)
             = 32*p + 16*q + 8*r + 4*s + 2*t + u
      BY <3>2, JoinBits
    <3> QED
      BY <3>1, <3>3, Zenon
  <2> QED
    BY <1>9, <1>10, <2>1, Zenon
<1>13. (b % 16) * 4 + (c \div 64) = 32*B(13) + 16*B(14) + 8*B(15) + 4*B(16) + 2*B(17) + B(18)
  <2>1. (8*B(13) + 4*B(14) + 2*B(15) + B(16)) * 4 + (2*B(17) + B(18))
           = 32*B(13) + 16*B(14) + 8*B(15) + 4*B(16) + 2*B(17) + B(18)
    <3>1. PICK p, q, r, s, t, u : /\ p = B(13) /\ q = B(14) /\ r = B(15)
                                  /\ s = B(16) /\ t = B(17) /\ u = B(18)
      OBVIOUS
    <3>2. /\ p \in {0, 1} /\ q \in {0, 1} /\ r \in {0, 1}
          /\ s \in {0, 1} /\ t \in {0, 1} /\ u \in {0, 1}
      BY <1>8, <3>1
    <3>3. (8*p + 4*q + 2*r + s) * 4 + (2*t + u)
             = 32*p + 16*q + 8*r + 4*s + 2*t + u
      BY <3>2, JoinBits
    <3> QED
      BY <3>1, <3>3, Zenon
  <2> QED
    BY <1>10, <1>11, <2>1, Zenon
<1>14. j = 0 \/ j = 1 \/ j = 2 \/ j = 3
  OBVIOUS
<1> QED
  BY <1>6, <1>7, <1>9, <1>11, <1>12, <1>13, <1>14

\* base64_encode by its bits, and base64_decode of it.
LEMMA Base64Correct ==
    ASSUME NEW bytes \in Seq(Byte), NEW e, e = base64_encode(bytes)
    PROVE  /\ Len(e) = 4 * ((Len(bytes) + 2) \div 3)
           /\ \A k \in 1..Len(e) :
                 e[k] = IF 6 * (k - 1) < 8 * Len(bytes)
                          THEN Base64Char(SixBits(bytes, k)) ELSE "="
           /\ \A junk : base64_decode(e, junk) = bytes
<1>1. PICK n, M : n = Len(bytes) /\ M = Len(e)
  OBVIOUS
<1>2. n \in Nat /\ M = 4 * ((n + 2) \div 3) /\ M \in Nat
  <2>1. n \in Nat /\ M = 4 * ((n + 2) \div 3)
    BY <1>1, Encoded
  <2> QED
    BY <2>1
<1>3. ASSUME NEW k \in 1..M
      PROVE  e[k] = IF 6 * (k - 1) < 8 * n THEN Base64Char(SixBits(bytes, k)) ELSE "="
  <2>1. PICK g, j : g = (k - 1) \div 4 /\ j = (k - 1) % 4
    OBVIOUS
  <2>2. g \in Nat /\ j \in 0..3 /\ k - 1 = 4 * g + j
    <3>1. k - 1 \in Nat
      BY <1>2
    <3> QED
      BY <2>1, <3>1, Position
  <2>3. k = 4 * g + j + 1 /\ 4 * g + j < M
    BY <1>2, <2>2
  <2>4. (6 * (k - 1) < 8 * n) <=> (k - 1 < Carriers(n))
    BY <1>2, <2>2 DEF Carriers
  <2>5. e[k] = IF 4 * g + j < Carriers(n) THEN Base64Char(Sextet(Triple(bytes, g), j)) ELSE "="
    BY <1>1, <2>2, <2>3, Encoded
  <2>6. SixBits(bytes, k) = Sextet(Triple(bytes, g), j)
    BY <2>2, <2>3, SixBitsSextet
  <2> QED
    BY <2>2, <2>4, <2>5, <2>6
<1> QED
  BY <1>1, <1>2, <1>3, DecodedBack

-----------------------------------------------------------------------------
(* Masking *)

LEMMA BitsOfSum ==
    ASSUME NEW h \in {0, 1}, NEW g \in {0, 1}, NEW f \in {0, 1}, NEW e \in {0, 1},
           NEW d \in {0, 1}, NEW c \in {0, 1}, NEW b \in {0, 1}, NEW x \in {0, 1},
           NEW a, a = 128*h + 64*g + 32*f + 16*e + 8*d + 4*c + 2*b + x
    PROVE  a \in Byte /\ IsBits(a, h, g, f, e, d, c, b, x)
<1>1. a \in 0..255
  OBVIOUS
<1>2. /\ a \div 128 = h /\ a \div 64 = 2*h + g /\ a \div 32 = 4*h + 2*g + f
      /\ a \div 16 = 8*h + 4*g + 2*f + e
  OBVIOUS
<1>3. /\ a \div 8 = 16*h + 8*g + 4*f + 2*e + d
      /\ a \div 4 = 32*h + 16*g + 8*f + 4*e + 2*d + c
      /\ a \div 2 = 64*h + 32*g + 16*f + 8*e + 4*d + 2*c + b /\ a \div 1 = a
  OBVIOUS
<1>4. /\ h % 2 = h /\ (2*h + g) % 2 = g /\ (4*h + 2*g + f) % 2 = f
      /\ (8*h + 4*g + 2*f + e) % 2 = e
  OBVIOUS
<1>5. /\ (16*h + 8*g + 4*f + 2*e + d) % 2 = d
      /\ (32*h + 16*g + 8*f + 4*e + 2*d + c) % 2 = c
      /\ (64*h + 32*g + 16*f + 8*e + 4*d + 2*c + b) % 2 = b /\ a % 2 = x
  OBVIOUS
<1> QED
  BY <1>1, <1>2, <1>3, <1>4, <1>5 DEF IsBits, Byte

LEMMA SumParity ==
    ASSUME NEW u \in Nat, NEW v \in Nat
    PROVE  (u + v) % 2 = ((u % 2) + (v % 2)) % 2
OBVIOUS

\* The ^ of two bytes, bit by bit.
LEMMA XorBits ==
    ASSUME NEW a \in Byte, NEW z \in Byte,
           NEW h, NEW g, NEW f, NEW e, NEW d, NEW c, NEW b, NEW x,
           IsBits(a, h, g, f, e, d, c, b, x),
           NEW p, NEW q, NEW r, NEW s, NEW t, NEW u, NEW v, NEW w,
           IsBits(z, p, q, r, s, t, u, v, w)
    PROVE  Xor(a, z) = 128 * ((h + p) % 2) + 64 * ((g + q) % 2) + 32 * ((f + r) % 2)
                         + 16 * ((e + s) % 2) + 8 * ((d + t) % 2) + 4 * ((c + u) % 2)
                         + 2 * ((b + v) % 2) + ((x + w) % 2)
<1>1. ASSUME NEW k \in {1, 2, 4, 8, 16, 32, 64, 128}
      PROVE  ((a \div k) + (z \div k)) % 2 = (((a \div k) % 2) + ((z \div k) % 2)) % 2
  <2>1. a \div k \in Nat /\ z \div k \in Nat
    BY <1>1 DEF Byte
  <2> QED
    BY <2>1, SumParity
<1>2. /\ ((a \div 128) + (z \div 128)) % 2 = (h + p) % 2
      /\ ((a \div 64) + (z \div 64)) % 2 = (g + q) % 2
      /\ ((a \div 32) + (z \div 32)) % 2 = (f + r) % 2
      /\ ((a \div 16) + (z \div 16)) % 2 = (e + s) % 2
      /\ ((a \div 8) + (z \div 8)) % 2 = (d + t) % 2
      /\ ((a \div 4) + (z \div 4)) % 2 = (c + u) % 2
      /\ ((a \div 2) + (z \div 2)) % 2 = (b + v) % 2
      /\ ((a \div 1) + (z \div 1)) % 2 = (x + w) % 2
  BY <1>1 DEF IsBits
<1>3. PICK A, B, C, D, E, F, G, H :
         /\ H = (h + p) % 2 /\ G = (g + q) % 2 /\ F = (f + r) % 2 /\ E = (e + s) % 2
         /\ D = (d + t) % 2 /\ C = (c + u) % 2 /\ B = (b + v) % 2 /\ A = (x + w) % 2
  OBVIOUS
<1>4. Xor(a, z) = A + 2 * B + 4 * C + 8 * D + 16 * E + 32 * F + 64 * G + 128 * H
  BY <1>2, <1>3 DEF Xor
<1>5. /\ A \in Int /\ B \in Int /\ C \in Int /\ D \in Int
      /\ E \in Int /\ F \in Int /\ G \in Int /\ H \in Int
  <2>1. /\ h \in {0, 1} /\ g \in {0, 1} /\ f \in {0, 1} /\ e \in {0, 1}
        /\ d \in {0, 1} /\ c \in {0, 1} /\ b \in {0, 1} /\ x \in {0, 1}
    BY ByteBits
  <2>2. /\ p \in {0, 1} /\ q \in {0, 1} /\ r \in {0, 1} /\ s \in {0, 1}
        /\ t \in {0, 1} /\ u \in {0, 1} /\ v \in {0, 1} /\ w \in {0, 1}
    BY ByteBits
  <2> QED
    BY <1>3, <2>1, <2>2
<1>6. A + 2 * B + 4 * C + 8 * D + 16 * E + 32 * F + 64 * G + 128 * H
         = 128 * H + 64 * G + 32 * F + 16 * E + 8 * D + 4 * C + 2 * B + A
  BY <1>5
<1> QED
  BY <1>3, <1>4, <1>6

LEMMA TwiceBit ==
    ASSUME NEW u \in {0, 1}, NEW v \in {0, 1}
    PROVE  (u + v) % 2 \in {0, 1} /\ (((u + v) % 2) + v) % 2 = u
OBVIOUS

\* The same key unmasks what it masked.
LEMMA XorBack ==
    ASSUME NEW a \in Byte, NEW z \in Byte
    PROVE  Xor(a, z) \in Byte /\ Xor(Xor(a, z), z) = a
<1>1. PICK h, g, f, e, d, c, b, x : IsBits(a, h, g, f, e, d, c, b, x)
  BY DEF IsBits
<1>2. PICK p, q, r, s, t, u, v, w : IsBits(z, p, q, r, s, t, u, v, w)
  BY DEF IsBits
<1>3. /\ h \in {0, 1} /\ g \in {0, 1} /\ f \in {0, 1} /\ e \in {0, 1}
      /\ d \in {0, 1} /\ c \in {0, 1} /\ b \in {0, 1} /\ x \in {0, 1}
      /\ a = 128*h + 64*g + 32*f + 16*e + 8*d + 4*c + 2*b + x
  BY <1>1, ByteBits
<1>4. /\ p \in {0, 1} /\ q \in {0, 1} /\ r \in {0, 1} /\ s \in {0, 1}
      /\ t \in {0, 1} /\ u \in {0, 1} /\ v \in {0, 1} /\ w \in {0, 1}
  BY <1>2, ByteBits
<1>5. PICK y, A, B, C, D, E, F, G, H :
         /\ H = (h + p) % 2 /\ G = (g + q) % 2 /\ F = (f + r) % 2 /\ E = (e + s) % 2
         /\ D = (d + t) % 2 /\ C = (c + u) % 2 /\ B = (b + v) % 2 /\ A = (x + w) % 2
         /\ y = Xor(a, z)
  OBVIOUS
<1>6. y = 128*H + 64*G + 32*F + 16*E + 8*D + 4*C + 2*B + A
  BY <1>1, <1>2, <1>5, XorBits
<1>7. /\ H \in {0, 1} /\ G \in {0, 1} /\ F \in {0, 1} /\ E \in {0, 1}
      /\ D \in {0, 1} /\ C \in {0, 1} /\ B \in {0, 1} /\ A \in {0, 1}
      /\ (H + p) % 2 = h /\ (G + q) % 2 = g /\ (F + r) % 2 = f /\ (E + s) % 2 = e
      /\ (D + t) % 2 = d /\ (C + u) % 2 = c /\ (B + v) % 2 = b /\ (A + w) % 2 = x
  BY <1>3, <1>4, <1>5, TwiceBit
<1>8. y \in Byte /\ IsBits(y, H, G, F, E, D, C, B, A)
  BY <1>6, <1>7, BitsOfSum
<1>9. Xor(y, z) = 128 * ((H + p) % 2) + 64 * ((G + q) % 2) + 32 * ((F + r) % 2)
                    + 16 * ((E + s) % 2) + 8 * ((D + t) % 2) + 4 * ((C + u) % 2)
                    + 2 * ((B + v) % 2) + ((A + w) % 2)
  BY <1>2, <1>8, XorBits
<1>10. Xor(y, z) = a
  BY <1>3, <1>7, <1>9
<1> QED
  BY <1>5, <1>8, <1>10

-----------------------------------------------------------------------------
(* The accept key                                                          *)

\* The digest is bytes, and the accept key, once there is one, is made of it.
KeyInv == digest \in Seq(Byte) /\ (accept = <<>> \/ accept = base64_encode(digest))

LEMMA KeyStep ==
    ASSUME KeyInv, [Next]_vars
    PROVE  KeyInv'
<1>1. CASE compute_accept_key
  BY <1>1 DEF compute_accept_key, KeyInv
<1>2. CASE Upgrade
  BY <1>2 DEF Upgrade, KeyInv
<1>3. CASE UNCHANGED <<digest, accept>>
  BY <1>3 DEF KeyInv
<1>4. CASE ClientCloses
  BY <1>3, <1>4 DEF ClientCloses
<1>5. CASE \E m \in Messages : ClientSends(m)
  BY <1>3, <1>5 DEF ClientSends, session
<1>6. CASE \E n \in Cuts : recv_frame(n)
  BY <1>3, <1>6 DEF recv_frame, session
<1>7. CASE \E m \in Replies, cut \in BOOLEAN : send_frame(m, cut)
  BY <1>3, <1>7 DEF send_frame, session
<1>8. CASE UNCHANGED vars
  BY <1>3, <1>8 DEF vars, session
<1> QED
  BY <1>1, <1>2, <1>4, <1>5, <1>6, <1>7, <1>8 DEF Next

\* Whatever the digest, of any length, the accept key the handshake answers
\* with (compute_accept_key, base64_encode) is its Base64: six bits of the
\* digest a character, padded to whole groups of four, and base64_decode
\* gives the digest back whatever the unwritten part of its array holds.
THEOREM AcceptKeyCorrect == Spec => []AcceptKeyFaithful
<1>1. Init => KeyInv
  BY SessionAssumption DEF Init, KeyInv
<1>2. KeyInv /\ [Next]_vars => KeyInv'
  BY KeyStep
<1>3. KeyInv => AcceptKeyFaithful
  BY Base64Correct DEF KeyInv, AcceptKeyFaithful
<1> QED
  BY <1>1, <1>2, <1>3, PTL DEF Spec

-----------------------------------------------------------------------------
(* Sequences                                                               *)

LEMMA SeqEqual ==
    ASSUME NEW T, NEW s \in Seq(T), NEW t \in Seq(T), Len(s) = Len(t),
           \A i \in 1..Len(s) : s[i] = t[i]
    PROVE  s = t
OBVIOUS

LEMMA FunSeq ==
    ASSUME NEW T, NEW k \in Nat, NEW g \in [1..k -> T]
    PROVE  g \in Seq(T) /\ Len(g) = k
OBVIOUS

\* Where the bytes of four parts end up in the whole.
Parts(w, a, b, c, d) ==
  /\ w \in Seq(Byte)
  /\ Len(w) = Len(a) + Len(b) + Len(c) + Len(d)
  /\ \A i \in 1..Len(a) : w[i] = a[i]
  /\ \A i \in 1..Len(b) : w[Len(a) + i] = b[i]
  /\ \A i \in 1..Len(c) : w[Len(a) + Len(b) + i] = c[i]
  /\ \A i \in 1..Len(d) : w[Len(a) + Len(b) + Len(c) + i] = d[i]

LEMMA Concat4 ==
    ASSUME NEW a \in Seq(Byte), NEW b \in Seq(Byte), NEW c \in Seq(Byte), NEW d \in Seq(Byte),
           NEW w, w = a \o b \o c \o d
    PROVE  Parts(w, a, b, c, d)
<1>1. PICK u, v : u = a \o b /\ v = u \o c
  OBVIOUS
<1>2. /\ u \in Seq(Byte) /\ Len(u) = Len(a) + Len(b)
      /\ \A i \in 1..Len(a) : u[i] = a[i]
      /\ \A i \in 1..Len(b) : u[Len(a) + i] = b[i]
  BY <1>1
<1>3. /\ v \in Seq(Byte) /\ Len(v) = Len(u) + Len(c)
      /\ \A i \in 1..Len(u) : v[i] = u[i]
      /\ \A i \in 1..Len(c) : v[Len(u) + i] = c[i]
  BY <1>1, <1>2
<1>4. /\ w \in Seq(Byte) /\ Len(w) = Len(v) + Len(d)
      /\ \A i \in 1..Len(v) : w[i] = v[i]
      /\ \A i \in 1..Len(d) : w[Len(v) + i] = d[i]
  BY <1>1, <1>3
<1>5. Len(a) \in Nat /\ Len(b) \in Nat /\ Len(c) \in Nat /\ Len(d) \in Nat
  OBVIOUS
<1>6. \A i \in 1..Len(a) : w[i] = a[i]
  BY <1>2, <1>3, <1>4, <1>5
<1>7. \A i \in 1..Len(b) : w[Len(a) + i] = b[i]
  BY <1>2, <1>3, <1>4, <1>5
<1>8. \A i \in 1..Len(c) : w[Len(a) + Len(b) + i] = c[i]
  BY <1>2, <1>3, <1>4, <1>5
<1>9. \A i \in 1..Len(d) : w[Len(a) + Len(b) + Len(c) + i] = d[i]
  BY <1>2, <1>3, <1>4, <1>5
<1> QED
  BY <1>2, <1>3, <1>4, <1>6, <1>7, <1>8, <1>9 DEF Parts

-----------------------------------------------------------------------------
(* A frame on the wire                                                     *)

\* What the seven bits of the length say, and how long the header is.
ShortLength(n) == IF n <= 125 THEN n ELSE IF n < 65536 THEN 126 ELSE 127
WireHeader(n) == IF n <= 125 THEN 2 ELSE IF n < 65536 THEN 4 ELSE 10

LEMMA HeaderSizes ==
    ASSUME NEW n \in Nat
    PROVE  WireHeader(n) \in 2..10 /\ ShortLength(n) \in 0..127
BY DEF WireHeader, ShortLength

\* A number below Huge, in two and in three bytes.
LEMMA Digits256 ==
    ASSUME NEW n \in Nat, n < Huge
    PROVE  /\ n % 256 \in Byte /\ (n \div 256) % 256 \in Byte /\ (n \div 65536) % 256 \in Byte
           /\ (n \div 16777216) % 256 = 0
           /\ n < 65536 => n \div 256 \in Byte /\ n = (n % 256) + 256 * (n \div 256)
           /\ n = (n % 256) + 256 * ((n \div 256) % 256) + 65536 * ((n \div 65536) % 256)
<1>1. PICK a, b, c : a = n % 256 /\ b = (n \div 256) % 256 /\ c = n \div 65536
  OBVIOUS
<1>2. PICK q : q = n \div 256
  OBVIOUS
<1>3. q \in Nat /\ a \in 0..255 /\ n = 256 * q + a /\ b = q % 256
  BY <1>1, <1>2
<1>4. q < 65536 /\ c \in Nat /\ c = q \div 256 /\ (n < 65536 => q < 256)
  BY <1>1, <1>3 DEF Huge
<1>5. b \in 0..255 /\ q = 256 * c + b /\ c < 256
  BY <1>3, <1>4
<1>6. (n \div 65536) % 256 = c
  BY <1>1, <1>4, <1>5
<1>7. n \div 16777216 = 0
  BY DEF Huge
<1>8. n = a + 256 * b + 65536 * c
  BY <1>3, <1>4, <1>5
<1> QED
  BY <1>1, <1>2, <1>3, <1>4, <1>5, <1>6, <1>7, <1>8 DEF Byte

\* The bytes of the length field, one by one.
Spells(f, n, masked) ==
  /\ f \in Seq(Byte) /\ 1 + Len(f) = WireHeader(n)
  /\ f[1] = 128 * masked + ShortLength(n)
  /\ n > 125 /\ n < 65536 => f[2] = n \div 256 /\ f[3] = n % 256
  /\ n >= 65536 => /\ f[2] = 0 /\ f[3] = 0 /\ f[4] = 0 /\ f[5] = 0 /\ f[6] = 0
                   /\ f[7] = (n \div 65536) % 256 /\ f[8] = (n \div 256) % 256
                   /\ f[9] = n % 256

LEMMA LengthBytes ==
    ASSUME NEW n \in Nat, n < Huge, NEW masked \in {0, 1}, NEW f, f = LengthField(n, masked)
    PROVE  Spells(f, n, masked)
<1>1. PICK a, b, c, d, q :
         /\ a = n % 256 /\ b = (n \div 256) % 256 /\ c = (n \div 65536) % 256
         /\ d = (n \div 16777216) % 256 /\ q = n \div 256
  OBVIOUS
<1>2. /\ a \in Byte /\ b \in Byte /\ c \in Byte /\ d = 0
      /\ n < 65536 => q \in Byte
  BY <1>1, Digits256
<1>3. 0 \in Byte /\ 128 * masked + 126 \in Byte /\ 128 * masked + 127 \in Byte
      /\ (n <= 125 => 128 * masked + n \in Byte)
  BY DEF Byte
<1>4. CASE n <= 125
  <2>1. f = <<128 * masked + n>>
    BY <1>4 DEF LengthField
  <2> QED
    BY <1>3, <1>4, <2>1 DEF Spells, WireHeader, ShortLength
<1>5. CASE n > 125 /\ n < 65536
  <2>1. f = <<128 * masked + 126, q, a>>
    BY <1>1, <1>5 DEF LengthField
  <2>2. q \in Byte
    BY <1>2, <1>5
  <2> QED
    BY <1>1, <1>2, <1>3, <1>5, <2>1, <2>2 DEF Spells, WireHeader, ShortLength
<1>6. CASE n >= 65536
  <2>1. f = <<128 * masked + 127, 0, 0, 0, 0, 0, c, b, a>>
    <3>1. ~ (n <= 125) /\ ~ (n > 125 /\ n < 65536)
      BY <1>6
    <3>2. f = <<128 * masked + 127, 0, 0, 0, 0, d, c, b, a>>
      BY ONLY <1>1, <3>1, f = LengthField(n, masked) DEF LengthField
    <3> QED
      BY ONLY <1>2, <3>2
  <2> QED
    BY <1>1, <1>2, <1>3, <1>6, <2>1 DEF Spells, WireHeader, ShortLength
<1> QED
  BY <1>4, <1>5, <1>6

\* A length of any size is bytes.
LEMMA LengthType ==
    ASSUME NEW n \in Nat, NEW masked \in {0, 1}
    PROVE  LengthField(n, masked) \in Seq(Byte)
<1>1. CASE n < Huge
  BY <1>1, LengthBytes DEF Spells
<1>2. CASE ~ (n < Huge)
  <2>1. PICK a, b, c, d, f :
           /\ a = n % 256 /\ b = (n \div 256) % 256 /\ c = (n \div 65536) % 256
           /\ d = (n \div 16777216) % 256 /\ f = LengthField(n, masked)
    OBVIOUS
  <2>2. a \in Byte /\ b \in Byte /\ c \in Byte /\ d \in Byte
    <3>1. n \div 256 \in Nat /\ n \div 65536 \in Nat /\ n \div 16777216 \in Nat
      OBVIOUS
    <3> QED
      BY <2>1, <3>1 DEF Byte
  <2>3. 0 \in Byte /\ 128 * masked + 127 \in Byte
    BY DEF Byte
  <2>4. ~ (n <= 125) /\ ~ (n > 125 /\ n < 65536)
    BY <1>2 DEF Huge
  <2>5. f = <<128 * masked + 127, 0, 0, 0, 0, d, c, b, a>>
    BY ONLY <2>1, <2>4 DEF LengthField
  <2> QED
    BY <2>1, <2>2, <2>3, <2>5
<1> QED
  BY <1>1, <1>2

\* The bytes of the payload.
Payload(data, key) ==
  [i \in 1..Len(data) |->
     IF key = <<>> THEN data[i] ELSE Xor(data[i], key[((i - 1) % 4) + 1])]

LEMMA PayloadType ==
    ASSUME NEW data \in Seq(Byte), NEW key \in {<<>>} \cup [1..MASK_LEN -> Byte]
    PROVE  Payload(data, key) \in Seq(Byte) /\ Len(Payload(data, key)) = Len(data)
<1>1. ASSUME NEW i \in 1..Len(data), key # <<>>
      PROVE  Xor(data[i], key[((i - 1) % 4) + 1]) \in Byte
  <2>1. (i - 1) % 4 \in 0..3
    BY <1>1
  <2>2. ((i - 1) % 4) + 1 \in 1..4
    BY <2>1
  <2>3. key[((i - 1) % 4) + 1] \in Byte
    BY <1>1, <2>2 DEF MASK_LEN
  <2>4. data[i] \in Byte
    BY <1>1
  <2> QED
    BY <2>3, <2>4, XorBack
<1>2. \A i \in 1..Len(data) :
         (IF key = <<>> THEN data[i] ELSE Xor(data[i], key[((i - 1) % 4) + 1])) \in Byte
  BY <1>1
<1>3. Payload(data, key) \in [1..Len(data) -> Byte]
  BY <1>2 DEF Payload
<1> QED
  BY <1>3

\* Where the parts of a frame are.
Framed(w, fin, opcode, data, key, masked) ==
  /\ w \in Seq(Byte) /\ Len(w) = WireHeader(Len(data)) + 4 * masked + Len(data)
  /\ w[1] = 128 * fin + opcode
  /\ \A i \in 1..(WireHeader(Len(data)) - 1) : w[1 + i] = LengthField(Len(data), masked)[i]
  /\ \A i \in 1..(4 * masked) : w[WireHeader(Len(data)) + i] = key[i]
  /\ \A i \in 1..Len(data) :
       w[WireHeader(Len(data)) + 4 * masked + i] = Payload(data, key)[i]

LEMMA WireShape ==
    ASSUME NEW fin \in {0, 1}, NEW opcode \in 0..15, NEW data \in Seq(Byte),
           NEW key \in {<<>>} \cup [1..MASK_LEN -> Byte], Len(data) < Huge,
           NEW m, m.fin = fin, m.opcode = opcode, m.data = data,
           NEW masked, masked = IF key = <<>> THEN 0 ELSE 1, NEW w, w = Wire(m, key)
    PROVE  Framed(w, fin, opcode, data, key, masked)
<1>1. PICK first, p, n, f :
         /\ first = <<128 * fin + opcode>> /\ p = Payload(data, key)
         /\ n = Len(data) /\ f = LengthField(n, masked)
  OBVIOUS
<1>2. w = first \o f \o key \o p
  BY <1>1 DEF Wire, Payload
<1>3. first \in Seq(Byte) /\ Len(first) = 1 /\ first[1] = 128 * fin + opcode
  <2>1. 128 * fin + opcode \in Byte
    BY DEF Byte
  <2> QED
    BY <1>1, <2>1
<1>4. f \in Seq(Byte) /\ 1 + Len(f) = WireHeader(n) /\ Len(f) \in Nat
  <2>1. f \in Seq(Byte) /\ 1 + Len(f) = WireHeader(n)
    BY <1>1, LengthBytes DEF Spells
  <2> QED
    BY <2>1
<1>5. key \in Seq(Byte) /\ Len(key) = 4 * masked
  <2>1. CASE key = <<>>
    BY <2>1
  <2>2. CASE key # <<>>
    <3>1. key \in [1..4 -> Byte] /\ masked = 1
      BY <2>2 DEF MASK_LEN
    <3>2. key \in Seq(Byte) /\ Len(key) = 4
      BY <3>1, FunSeq
    <3> QED
      BY <3>1, <3>2
  <2> QED
    BY <2>1, <2>2
<1>6. p \in Seq(Byte) /\ Len(p) = n
  BY <1>1, PayloadType
<1>7. /\ w \in Seq(Byte)
      /\ Len(w) = Len(first) + Len(f) + Len(key) + Len(p)
      /\ \A i \in 1..Len(first) : w[i] = first[i]
      /\ \A i \in 1..Len(f) : w[Len(first) + i] = f[i]
      /\ \A i \in 1..Len(key) : w[Len(first) + Len(f) + i] = key[i]
      /\ \A i \in 1..Len(p) : w[Len(first) + Len(f) + Len(key) + i] = p[i]
  <2>1. Parts(w, first, f, key, p)
    BY <1>2, <1>3, <1>4, <1>5, <1>6, Concat4, Zenon
  <2> QED
    BY <2>1 DEF Parts
<1>8. PICK h, l : h = WireHeader(n) /\ l = Len(f)
  OBVIOUS
<1>9. 1 + l = h /\ l \in Nat /\ h - 1 = l
  BY <1>4, <1>8
<1>10. w[1] = 128 * fin + opcode
  BY <1>3, <1>7
<1>11. \A i \in 1..(h - 1) : w[1 + i] = f[i]
  BY <1>3, <1>7, <1>8, <1>9
<1>12. Len(first) + Len(f) = h /\ Len(first) + Len(f) + Len(key) = h + 4 * masked
  BY <1>3, <1>5, <1>8, <1>9
<1>13. /\ \A i \in 1..(4 * masked) : w[h + i] = key[i]
       /\ \A i \in 1..n : w[h + 4 * masked + i] = p[i]
       /\ Len(w) = h + 4 * masked + n
  BY <1>5, <1>6, <1>7, <1>12, Zenon
<1> QED
  BY <1>1, <1>7, <1>8, <1>10, <1>11, <1>13 DEF Framed

-----------------------------------------------------------------------------
(* Frame::decode of a frame                                                *)

LEMMA TwoBytes ==
    ASSUME NEW mem, NEW p \in Byte, NEW q \in Byte, mem[2] = p, mem[3] = q
    PROVE  FromBigEndian(mem, 2, 2) = q + 256 * p
<1> DEFINE b(i) == IF i < 2 THEN mem[2 + 2 - 1 - i] ELSE 0
<1>1. b(0) = q /\ b(1) = p /\ b(2) = 0 /\ \A i \in 3..7 : b(i) = 0
  OBVIOUS
<1>2. ~ \E i \in 3..7 : b(i) # 0
  BY <1>1
<1>3. FromBigEndian(mem, 2, 2) = b(0) + 256 * b(1) + 65536 * b(2)
  BY <1>2 DEF FromBigEndian
<1>4. q \in Nat /\ p \in Nat
  BY DEF Byte
<1> HIDE DEF b
<1> QED
  BY <1>1, <1>3, <1>4

LEMMA EightBytes ==
    ASSUME NEW mem, NEW p \in Byte, NEW q \in Byte, NEW r \in Byte,
           mem[2] = 0, mem[3] = 0, mem[4] = 0, mem[5] = 0, mem[6] = 0,
           mem[7] = p, mem[8] = q, mem[9] = r
    PROVE  FromBigEndian(mem, 2, 8) = r + 256 * q + 65536 * p
<1> DEFINE b(i) == IF i < 8 THEN mem[2 + 8 - 1 - i] ELSE 0
<1>1. b(0) = r /\ b(1) = q /\ b(2) = p /\ \A i \in 3..7 : b(i) = 0
  OBVIOUS
<1>2. ~ \E i \in 3..7 : b(i) # 0
  BY <1>1
<1>3. FromBigEndian(mem, 2, 8) = b(0) + 256 * b(1) + 65536 * b(2)
  BY <1>2 DEF FromBigEndian
<1> HIDE DEF b
<1> QED
  BY <1>1, <1>3

\* The byte of the key is the one the protocol names, in the part that is
\* done eight bytes at a time and in the rest.
LEMMA KeyByteIs ==
    ASSUME NEW i \in Nat, NEW n \in Nat, NEW key
    PROVE  KeyByte(i, n, key) = key[i % 4]
<1>1. (i % 8) % 4 = i % 4
  OBVIOUS
<1> QED
  BY <1>1 DEF KeyByte, MASK_LEN

\* The memory a frame was read into.
Holds(mem, size, w) ==
  DOMAIN mem = 0..size /\ Len(w) <= size /\ \A i \in 1..Len(w) : mem[i - 1] = w[i]

\* The length of the payload is read back in each of its three forms.
LEMMA LengthBack ==
    ASSUME NEW n \in Nat, n < Huge, NEW masked \in {0, 1}, NEW f, f = LengthField(n, masked),
           NEW mem, \A i \in 1..(WireHeader(n) - 1) : mem[i] = f[i],
           NEW hd, hd.length = ShortLength(n)
    PROVE  HeaderLength(hd) = WireHeader(n) /\ PayloadLength(hd, mem) = n
<1>1. PICK a, b, c, q : /\ a = n % 256 /\ b = (n \div 256) % 256 /\ c = (n \div 65536) % 256
                        /\ q = n \div 256
  OBVIOUS
<1>2. /\ a \in Byte /\ b \in Byte /\ c \in Byte
      /\ n < 65536 => q \in Byte /\ n = a + 256 * q
      /\ n = a + 256 * b + 65536 * c
  BY <1>1, Digits256
<1>3. /\ n > 125 /\ n < 65536 => f[2] = q /\ f[3] = a
      /\ n >= 65536 => /\ f[2] = 0 /\ f[3] = 0 /\ f[4] = 0 /\ f[5] = 0 /\ f[6] = 0
                       /\ f[7] = c /\ f[8] = b /\ f[9] = a
  <2>1. Spells(f, n, masked)
    BY LengthBytes
  <2> QED
    BY ONLY <1>1, <2>1 DEF Spells
<1>4. CASE n <= 125
  <2>1. hd.length = n /\ hd.length # 126 /\ hd.length # 127 /\ WireHeader(n) = 2
    BY <1>4 DEF ShortLength, WireHeader
  <2> QED
    BY <2>1 DEF HeaderLength, PayloadLength, HEADER_LEN
<1>5. CASE n > 125 /\ n < 65536
  <2>1. hd.length = 126 /\ WireHeader(n) = 4
    BY <1>5 DEF ShortLength, WireHeader
  <2>2. mem[2] = q /\ mem[3] = a
    BY <1>3, <1>5, <2>1
  <2>3. FromBigEndian(mem, 2, 2) = n
    BY <1>2, <1>5, <2>2, TwoBytes
  <2>4. PayloadLength(hd, mem) = n
    BY <2>1, <2>3 DEF PayloadLength, HEADER_LEN
  <2> QED
    BY <2>1, <2>4 DEF HeaderLength, HEADER_LEN
<1>6. CASE n >= 65536
  <2>1. hd.length = 127 /\ WireHeader(n) = 10
    BY <1>6 DEF ShortLength, WireHeader
  <2>2. /\ mem[2] = 0 /\ mem[3] = 0 /\ mem[4] = 0 /\ mem[5] = 0 /\ mem[6] = 0
        /\ mem[7] = c /\ mem[8] = b /\ mem[9] = a
    BY <1>3, <1>6, <2>1
  <2>3. FromBigEndian(mem, 2, 8) = n
    BY <1>2, <2>2, EightBytes
  <2>4. PayloadLength(hd, mem) = n
    BY <2>1, <2>3 DEF PayloadLength, HEADER_LEN
  <2> QED
    BY <2>1, <2>4 DEF HeaderLength, HEADER_LEN
<1> QED
  BY <1>4, <1>5, <1>6

\* Frame::decode of the memory a whole frame is at the start of.
DecodedAs(hd, fr, mem, fin, opcode, data) ==
  /\ InMemory(hd, mem) /\ fr.header = hd /\ hd.fin = fin /\ hd.opcode = opcode
  /\ [i \in 1..fr.payload_length |-> fr.msg[fr.payload + i - 1]] = data

LEMMA DecodeWire ==
    ASSUME NEW fin \in {0, 1}, NEW opcode \in 0..15, NEW data \in Seq(Byte),
           NEW key \in {<<>>} \cup [1..MASK_LEN -> Byte], Len(data) < Huge,
           NEW m, m.fin = fin, m.opcode = opcode, m.data = data,
           NEW w, w = Wire(m, key), NEW size \in Nat, NEW mem, Holds(mem, size, w),
           NEW hd, hd = fetch_header(mem), NEW fr, fr = fetch_payload(hd, mem)
    PROVE  DecodedAs(hd, fr, mem, fin, opcode, data)
<1>1. PICK masked, n, h, f, l, p :
         /\ masked = (IF key = <<>> THEN 0 ELSE 1) /\ n = Len(data) /\ h = WireHeader(n)
         /\ f = LengthField(n, masked) /\ l = ShortLength(n) /\ p = Payload(data, key)
  OBVIOUS
<1>2. masked \in {0, 1} /\ n \in Nat /\ n < Huge /\ h \in 2..10 /\ l \in 0..127
  <2>1. masked \in {0, 1} /\ n \in Nat /\ n < Huge
    BY <1>1
  <2>2. h \in 2..10 /\ l \in 0..127
    BY <1>1, <2>1, HeaderSizes
  <2> QED
    BY <2>1, <2>2
<1>3. /\ w \in Seq(Byte) /\ Len(w) = h + 4 * masked + n
      /\ w[1] = 128 * fin + opcode
      /\ \A i \in 1..(h - 1) : w[1 + i] = f[i]
      /\ \A i \in 1..(4 * masked) : w[h + i] = key[i]
      /\ \A i \in 1..n : w[h + 4 * masked + i] = p[i]
  <2>1. Framed(w, fin, opcode, data, key, masked)
    BY <1>1, WireShape
  <2> QED
    BY ONLY <1>1, <2>1 DEF Framed
<1>4. /\ DOMAIN mem = 0..size /\ h + 4 * masked + n <= size
      /\ \A i \in 1..(h + 4 * masked + n) : mem[i - 1] = w[i]
  BY ONLY <1>3, Holds(mem, size, w) DEF Holds
<1>5. hd = [fin |-> fin, opcode |-> opcode, mask |-> masked, length |-> l]
  <2>1. mem[0] = 128 * fin + opcode
    <3>1. 1 \in 1..(h + 4 * masked + n)
      BY <1>2
    <3> QED
      BY <1>3, <1>4, <3>1
  <2>2. mem[1] = 128 * masked + l
    <3>1. 2 \in 1..(h + 4 * masked + n) /\ 1 \in 1..(h - 1)
      BY <1>2
    <3>2. mem[1] = w[2] /\ w[2] = f[1]
      BY <1>3, <1>4, <3>1
    <3>3. f[1] = 128 * masked + l
      BY <1>1, <1>2, LengthBytes DEF Spells
    <3> QED
      BY <3>2, <3>3
  <2>3. PICK p0, q0 : p0 = mem[0] /\ q0 = mem[1]
    OBVIOUS
  <2>4. p0 \div 128 = fin /\ p0 % 16 = opcode
    <3>1. p0 = 128 * fin + opcode /\ fin \in {0, 1} /\ opcode \in 0..15
      BY <2>1, <2>3
    <3> QED
      BY ONLY <3>1
  <2>5. q0 \div 128 = masked /\ q0 % 128 = l
    <3>1. q0 = 128 * masked + l /\ masked \in {0, 1} /\ l \in 0..127
      BY <1>2, <2>2, <2>3
    <3> QED
      BY ONLY <3>1
  <2> QED
    BY <2>3, <2>4, <2>5 DEF fetch_header
<1>6. HeaderLength(hd) = h /\ PayloadLength(hd, mem) = n
  <2>1. ASSUME NEW i \in 1..(h - 1) PROVE mem[i] = f[i]
    <3>1. 1 + i \in 1..(h + 4 * masked + n) /\ (1 + i) - 1 = i
      BY <1>2, <2>1
    <3>2. mem[(1 + i) - 1] = w[1 + i]
      BY <1>4, <3>1
    <3> QED
      BY <1>3, <2>1, <3>1, <3>2
  <2>2. hd.length = ShortLength(n)
    BY <1>1, <1>5
  <2> QED
    BY <1>1, <1>2, <2>1, <2>2, LengthBack
<1>7. InMemory(hd, mem)
  <2>1. hd.mask = masked
    BY <1>5
  <2>2. h + 4 * masked + n - 1 \in 0..size
    BY <1>2, <1>4
  <2> QED
    BY <1>4, <1>6, <2>1, <2>2 DEF InMemory, MASK_LEN
<1>8. ASSUME NEW i \in 1..n PROVE mem[h + 4 * masked + i - 1] = p[i]
  <2>1. h + 4 * masked + i \in 1..(h + 4 * masked + n)
    BY <1>2, <1>8
  <2>2. PICK j : j = h + 4 * masked + i
    OBVIOUS
  <2>3. mem[j - 1] = w[j]
    BY <1>4, <2>1, <2>2
  <2>4. w[j] = p[i]
    BY <1>3, <1>8, <2>2
  <2>5. h + 4 * masked + i - 1 = j - 1
    BY <1>2, <2>2
  <2> QED
    BY <2>3, <2>4, <2>5
<1>9. fr.header = hd /\ fr.payload = h + 4 * masked /\ fr.payload_length = n
      /\ \A i \in 1..n : fr.msg[h + 4 * masked + i - 1] = data[i]
  <2>1. CASE masked = 0
    <3>1. hd.mask = 0 /\ key = <<>>
      BY <1>1, <1>5, <2>1
    <3>2. fr = [header |-> hd, payload |-> h, payload_length |-> n, msg |-> mem]
      BY <1>6, <3>1 DEF fetch_payload
    <3>3. \A i \in 1..n : p[i] = data[i]
      BY <1>1, <3>1 DEF Payload
    <3> QED
      BY <1>2, <1>8, <2>1, <3>2, <3>3
  <2>2. CASE masked = 1
    <3>1. hd.mask = 1 /\ key \in [1..4 -> Byte] /\ key # <<>>
      BY <1>1, <1>5, <2>2 DEF MASK_LEN
    <3>2. PICK kk : kk = [i \in 0..3 |-> mem[h + i]]
      OBVIOUS
    <3>3. fr = [header |-> hd, payload |-> h + 4, payload_length |-> n,
                msg |-> mask(mem, h + 4, n, kk)]
      BY <1>6, <3>1, <3>2 DEF fetch_payload, MASK_LEN
    <3>4. ASSUME NEW j \in 0..3 PROVE kk[j] = key[j + 1]
      <4>1. kk[j] = mem[h + j]
        BY <3>2, <3>4
      <4>2. h + (j + 1) \in 1..(h + 4 * masked + n) /\ j + 1 \in 1..(4 * masked)
            /\ (h + (j + 1)) - 1 = h + j
        BY <1>2, <2>2, <3>4
      <4>3. mem[(h + (j + 1)) - 1] = w[h + (j + 1)]
        BY <1>4, <4>2
      <4> QED
        BY <1>3, <4>1, <4>2, <4>3
    <3>5. ASSUME NEW i \in 1..n PROVE mask(mem, h + 4, n, kk)[h + 4 + i - 1] = data[i]
      <4>1. PICK a, z, e : a = h + 4 + i - 1 /\ e = (i - 1) % 4 /\ z = key[e + 1]
        OBVIOUS
      <4>2. /\ a \in 0..size /\ a \in (h + 4)..(h + 4 + n - 1) /\ a - (h + 4) = i - 1
            /\ i - 1 \in Nat /\ e \in 0..3 /\ n \div 8 \in Nat
        <5>1. h \in Nat /\ n \in Nat /\ i \in 1..n /\ h + 4 + n <= size /\ size \in Nat
          BY <1>2, <1>4, <2>2, <3>5
        <5>2. /\ a \in 0..size /\ a \in (h + 4)..(h + 4 + n - 1) /\ a - (h + 4) = i - 1
              /\ i - 1 \in Nat
          BY ONLY <4>1, <5>1
        <5>3. e \in 0..3 /\ n \div 8 \in Nat
          BY ONLY <4>1, <5>1, <5>2
        <5> QED
          BY <5>2, <5>3
      <4>3. mask(mem, h + 4, n, kk)[a] = Xor(mem[a], KeyByte(i - 1, n \div 8, kk))
        BY <1>4, <4>2 DEF mask
      <4>4. KeyByte(i - 1, n \div 8, kk) = z
        BY <3>4, <4>1, <4>2, KeyByteIs
      <4>5. mem[a] = Xor(data[i], z)
        <5>1. mem[a] = p[i]
          BY <1>8, <2>2, <4>1
        <5>2. p[i] = Xor(data[i], z)
          BY <1>1, <3>1, <4>1 DEF Payload
        <5> QED
          BY <5>1, <5>2
      <4>6. data[i] \in Byte /\ z \in Byte
        BY <1>1, <3>1, <4>1, <4>2
      <4> QED
        BY <4>1, <4>3, <4>4, <4>5, <4>6, XorBack
    <3> QED
      BY <2>2, <3>3, <3>5
  <2> QED
    BY <1>2, <2>1, <2>2
<1>10. [i \in 1..fr.payload_length |-> fr.msg[fr.payload + i - 1]] = data
  <2>1. [i \in 1..n |-> fr.msg[h + 4 * masked + i - 1]] = [i \in 1..n |-> data[i]]
    BY <1>9
  <2>2. [i \in 1..n |-> data[i]] = data
    BY <1>1
  <2> QED
    BY <1>9, <2>1, <2>2
<1> QED
  BY <1>5, <1>7, <1>9, <1>10 DEF DecodedAs

-----------------------------------------------------------------------------
(* Frame::encode of a frame                                                *)

LEMMA Places == Place[1] = 1 /\ Place[2] = 256 /\ Place[3] = 65536 /\ Place[4] = 16777216
BY DEF Place

\* htons, for the numbers it is used for.
LEMMA BigEndian2 ==
    ASSUME NEW n \in Nat, n < 65536
    PROVE  BigEndian(n, 2) = <<n \div 256, n % 256>>
<1>1. PICK g, p, q : g = BigEndian(n, 2) /\ p = n \div 256 /\ q = n % 256
  OBVIOUS
<1>2. DOMAIN g = 1..2 /\ g = [i \in 1..2 |-> g[i]]
  BY <1>1 DEF BigEndian
<1>3. g[1] = (n \div Place[2]) % 256 /\ g[2] = (n \div Place[1]) % 256
  BY <1>1 DEF BigEndian
<1>4. (n \div 256) % 256 = p /\ (n \div 1) % 256 = q
  BY <1>1
<1>5. g[1] = p /\ g[2] = q
  BY <1>3, <1>4, Places
<1>6. g = <<p, q>>
  BY ONLY <1>2, <1>5
<1> QED
  BY <1>1, <1>6

\* hton64, of a number that fits four bytes.
Wide(d, c, b, a) == <<0, 0, 0, 0, d, c, b, a>>

LEMMA BigEndian8 ==
    ASSUME NEW n \in Nat, NEW a, a = n % 256, NEW b, b = (n \div 256) % 256,
           NEW c, c = (n \div 65536) % 256, NEW d, d = (n \div 16777216) % 256
    PROVE  BigEndian(n, 8) = Wide(d, c, b, a)
<1>1. PICK g : g = BigEndian(n, 8)
  OBVIOUS
<1>2. DOMAIN g = 1..8 /\ g = [i \in 1..8 |-> g[i]]
  BY <1>1 DEF BigEndian
<1>3. g[1] = 0 /\ g[2] = 0 /\ g[3] = 0 /\ g[4] = 0
  BY <1>1 DEF BigEndian
<1>4. /\ g[5] = (n \div Place[4]) % 256 /\ g[6] = (n \div Place[3]) % 256
      /\ g[7] = (n \div Place[2]) % 256 /\ g[8] = (n \div Place[1]) % 256
  BY <1>1 DEF BigEndian
<1>5. (n \div 1) % 256 = a
  BY <1>1
<1>6. g[5] = d /\ g[6] = c /\ g[7] = b /\ g[8] = a
  BY <1>1, <1>4, <1>5, Places
<1>7. g = <<0, 0, 0, 0, d, c, b, a>>
  BY ONLY <1>2, <1>3, <1>6
<1> QED
  BY <1>1, <1>7 DEF Wide

\* A number before two and before eight others.
LEMMA Before2 ==
    ASSUME NEW x \in Nat, NEW p \in Nat, NEW q \in Nat
    PROVE  <<x>> \o <<p, q>> = <<x, p, q>>
<1>1. PICK t, u, v : t = <<p, q>> /\ u = <<x>> \o t /\ v = <<x, p, q>>
  OBVIOUS
<1>2. t \in Seq(Nat) /\ Len(t) = 2 /\ t[1] = p /\ t[2] = q
  BY <1>1
<1>3. u \in Seq(Nat) /\ Len(u) = 3 /\ u[1] = x /\ u[2] = t[1] /\ u[3] = t[2]
  BY <1>1, <1>2
<1>4. v \in Seq(Nat) /\ Len(v) = 3 /\ v[1] = x /\ v[2] = p /\ v[3] = q
  BY <1>1
<1>5. \A i \in 1..Len(u) : u[i] = v[i]
  BY <1>2, <1>3, <1>4
<1>6. u = v
  BY <1>3, <1>4, <1>5, SeqEqual
<1> QED
  BY <1>1, <1>6

Longer(x, d, c, b, a) ==
  <<x>> \o <<0, 0, 0, 0, d, c, b, a>> = <<x, 0, 0, 0, 0, d, c, b, a>>

LEMMA Before8 ==
    ASSUME NEW x \in Nat, NEW a \in Nat, NEW b \in Nat, NEW c \in Nat, NEW d \in Nat
    PROVE  Longer(x, d, c, b, a)
<1>1. PICK t, u, v : /\ t = <<0, 0, 0, 0, d, c, b, a>> /\ u = <<x>> \o t
                     /\ v = <<x, 0, 0, 0, 0, d, c, b, a>>
  OBVIOUS
<1>2. /\ t \in Seq(Nat) /\ Len(t) = 8 /\ t[1] = 0 /\ t[2] = 0 /\ t[3] = 0 /\ t[4] = 0
      /\ t[5] = d /\ t[6] = c /\ t[7] = b /\ t[8] = a
  BY <1>1
<1>3. u \in Seq(Nat) /\ Len(u) = 9 /\ u[1] = x /\ \A i \in 1..8 : u[1 + i] = t[i]
  BY <1>1, <1>2
<1>4. /\ v \in Seq(Nat) /\ Len(v) = 9 /\ v[1] = x /\ v[2] = 0 /\ v[3] = 0 /\ v[4] = 0
      /\ v[5] = 0 /\ v[6] = d /\ v[7] = c /\ v[8] = b /\ v[9] = a
  BY <1>1
<1>5. /\ u[2] = t[1] /\ u[3] = t[2] /\ u[4] = t[3] /\ u[5] = t[4] /\ u[6] = t[5]
      /\ u[7] = t[6] /\ u[8] = t[7] /\ u[9] = t[8]
  BY <1>3
<1>6. \A i \in 1..9 : u[i] = v[i]
  BY <1>2, <1>3, <1>4, <1>5
<1>7. u = v
  BY <1>3, <1>4, <1>6, SeqEqual
<1> QED
  BY <1>1, <1>7 DEF Longer

\* The length and its form are the ones of the protocol.
HeaderWritten(n, opcode, fin, first) ==
  EncodedHeader(n, opcode, fin) = first \o LengthField(n, 0)

LEMMA EncodedLength ==
    ASSUME NEW n \in Nat, NEW opcode \in 0..15, NEW fin \in {0, 1},
           NEW first, first = <<128 * fin + opcode>>
    PROVE  HeaderWritten(n, opcode, fin, first)
<1> USE DEF HeaderWritten
<1>1. FirstByte(fin, opcode) = 128 * fin + opcode
  BY DEF FirstByte
<1>2. first = <<128 * fin + opcode>>
  OBVIOUS
<1>3. CASE n <= 125
  <2>1. EncodedHeader(n, opcode, fin) = first \o <<SecondByte(0, n)>>
    BY <1>1, <1>2, <1>3 DEF EncodedHeader
  <2>2. LengthField(n, 0) = <<128 * 0 + n>>
    BY <1>3 DEF LengthField
  <2> QED
    BY <1>2, <2>1, <2>2 DEF SecondByte
<1>4. CASE n > 125 /\ n < 65536
  <2>1. ~ (n < 126) /\ (n >= 126 /\ n < 65536) /\ ~ (n <= 125)
    BY <1>4
  <2>2. EncodedHeader(n, opcode, fin) = first \o (<<SecondByte(0, 126)>> \o BigEndian(n, 2))
    BY <1>1, <1>2, <2>1 DEF EncodedHeader
  <2>3. PICK p, q : p = n \div 256 /\ q = n % 256
    OBVIOUS
  <2>4. LengthField(n, 0) = <<128 * 0 + 126, p, q>>
    BY ONLY <1>4, <2>1, <2>3 DEF LengthField
  <2>5. <<SecondByte(0, 126)>> \o BigEndian(n, 2) = <<126>> \o <<p, q>>
    <3>1. SecondByte(0, 126) = 126
      BY DEF SecondByte
    <3>2. BigEndian(n, 2) = <<p, q>>
      BY <1>4, <2>3, BigEndian2
    <3> QED
      BY <3>1, <3>2, Zenon
  <2>6. <<126>> \o <<p, q>> = <<128 * 0 + 126, p, q>>
    <3>1. p \in Nat /\ q \in Nat /\ 126 \in Nat /\ 128 * 0 + 126 = 126
      BY <2>3
    <3>2. <<126>> \o <<p, q>> = <<126, p, q>>
      BY <3>1, Before2
    <3> QED
      BY ONLY <3>1, <3>2
  <2> QED
    BY ONLY <1>2, <2>2, <2>4, <2>5, <2>6, Zenon
<1>5. CASE n >= 65536
  <2>1. ~ (n < 126) /\ ~ (n >= 126 /\ n < 65536) /\ ~ (n <= 125) /\ ~ (n > 125 /\ n < 65536)
    BY <1>5
  <2>2. EncodedHeader(n, opcode, fin) = first \o (<<SecondByte(0, 127)>> \o BigEndian(n, 8))
    BY <1>1, <1>2, <2>1 DEF EncodedHeader
  <2>3. PICK a, b, c, d : /\ a = n % 256 /\ b = (n \div 256) % 256
                          /\ c = (n \div 65536) % 256 /\ d = (n \div 16777216) % 256
    OBVIOUS
  <2>4. LengthField(n, 0) = <<128 * 0 + 127, 0, 0, 0, 0, d, c, b, a>>
    BY ONLY <2>1, <2>3 DEF LengthField
  <2>5. <<SecondByte(0, 127)>> \o BigEndian(n, 8) = <<127>> \o <<0, 0, 0, 0, d, c, b, a>>
    <3>1. SecondByte(0, 127) = 127
      BY DEF SecondByte
    <3>2. BigEndian(n, 8) = Wide(d, c, b, a)
      BY <2>3, BigEndian8
    <3> QED
      BY <3>1, <3>2, Zenon DEF Wide
  <2>6. <<127>> \o <<0, 0, 0, 0, d, c, b, a>> = <<128 * 0 + 127, 0, 0, 0, 0, d, c, b, a>>
    <3>1. a \in Nat /\ b \in Nat /\ c \in Nat /\ d \in Nat /\ 127 \in Nat
          /\ 128 * 0 + 127 = 127
      BY <2>3
    <3>2. Longer(127, d, c, b, a)
      BY <3>1, Before8
    <3> QED
      BY ONLY <3>1, <3>2 DEF Longer
  <2> QED
    BY ONLY <1>2, <2>2, <2>4, <2>5, <2>6, Zenon
<1> QED
  BY <1>3, <1>4, <1>5

\* What Frame::encode writes is the frame of the protocol, without a mask.
LEMMA EncodeWire ==
    ASSUME NEW fin \in {0, 1}, NEW opcode \in 0..15, NEW data \in Seq(Byte),
           NEW m, m.fin = fin, m.opcode = opcode, m.data = data
    PROVE  encode(data, opcode, fin) = Wire(m, <<>>) /\ Wire(m, <<>>) \in Seq(Byte)
<1>1. PICK first, f, p : /\ first = <<128 * fin + opcode>> /\ f = LengthField(Len(data), 0)
                         /\ p = [i \in 1..Len(data) |-> data[i]]
  OBVIOUS
<1>2. Wire(m, <<>>) = first \o f \o <<>> \o p
  BY <1>1 DEF Wire
<1>3. p = data
  BY <1>1
<1>4. first \in Seq(Byte) /\ f \in Seq(Byte)
  <2>1. 128 * fin + opcode \in Byte
    BY DEF Byte
  <2>2. f \in Seq(Byte)
    BY <1>1, LengthType
  <2> QED
    BY <1>1, <2>1, <2>2
<1>5. first \o f \o <<>> \o p = first \o f \o data /\ first \o f \o data \in Seq(Byte)
  <2>1. PICK u : u = first \o f
    OBVIOUS
  <2>2. u \in Seq(Byte)
    BY <1>4, <2>1
  <2>3. u \o <<>> = u /\ u \o data \in Seq(Byte)
    BY <2>2
  <2> QED
    BY <1>3, <2>1, <2>3
<1>6. encode(data, opcode, fin) = first \o f \o data
  <2>1. EncodedHeader(Len(data), opcode, fin) = first \o f
    <3>1. PICK n \in Nat : n = Len(data)
      OBVIOUS
    <3>2. EncodedHeader(n, opcode, fin) = first \o LengthField(n, 0)
      <4>1. HeaderWritten(n, opcode, fin, first)
        BY <1>1, EncodedLength
      <4> QED
        BY <4>1, Zenon DEF HeaderWritten
    <3> QED
      BY ONLY <1>1, <3>1, <3>2, Zenon
  <2> QED
    BY ONLY <2>1 DEF encode
<1> QED
  BY <1>2, <1>5, <1>6

-----------------------------------------------------------------------------
(* Buffers                                                                 *)

\* A buffer of that size.
IsBuffer(b, size) ==
  \E l, m : b = [size |-> size, length |-> l, mem |-> m]

\* What clear and then append leave, whatever the buffer held before.
FilledWith(c, size, s) ==
  IsBuffer(c, size) /\ c.length = Len(s) /\ Holds(c.mem, size, s) /\ Content(c) = s

LEMMA Filled ==
    ASSUME NEW size \in Nat, NEW b, IsBuffer(b, size),
           NEW s \in Seq(Byte), Len(s) <= size, NEW c, c = append(clear(b), s)
    PROVE  FilledWith(c, size, s)
<1>0. PICK l0, mem : b = [size |-> size, length |-> l0, mem |-> mem]
  BY DEF IsBuffer
<1>1. PICK m0, n : m0 = [mem EXCEPT ![0] = 0] /\ n = Len(s)
  OBVIOUS
<1>2. clear(b) = [size |-> size, length |-> 0, mem |-> m0]
  <2>1. clear(b) = [b EXCEPT !.length = 0, !.mem = [mem EXCEPT ![0] = 0]]
    BY <1>0 DEF clear
  <2> QED
    BY <1>0, <1>1, <2>1
<1>3. PICK d : d = clear(b)
  OBVIOUS
<1>4. d.size = size /\ d.length = 0 /\ d.mem = m0 /\ DOMAIN d = {"size", "length", "mem"}
  BY <1>2, <1>3
<1>5. n \in Nat /\ n <= size /\ 0 + n = n
  BY <1>1
<1>6. PICK g : g = [i \in 0..size |->
                      IF i \in 0..(0 + n - 1) THEN s[i - 0 + 1]
                      ELSE IF i = 0 + n THEN 0 ELSE m0[i]]
  OBVIOUS
<1>7. c = [size |-> size, length |-> n, mem |-> g]
  <2>1. c = [d EXCEPT !.length = 0 + n, !.mem = g]
    BY <1>1, <1>3, <1>4, <1>6 DEF append
  <2>2. d = [size |-> size, length |-> 0, mem |-> m0]
    BY <1>2, <1>3
  <2> QED
    BY <1>5, <2>1, <2>2
<1>8. ASSUME NEW i \in 1..n PROVE g[i - 1] = s[i]
  <2>1. i - 1 \in 0..size /\ i - 1 \in 0..(0 + n - 1) /\ (i - 1) - 0 + 1 = i
    BY <1>5, <1>8
  <2>2. g[i - 1] = s[(i - 1) - 0 + 1]
    BY <1>6, <2>1
  <2> QED
    BY <2>1, <2>2
<1>9. DOMAIN g = 0..size
  BY <1>6
<1>10. IsBuffer(c, size) /\ c.length = n /\ c.mem = g
  <2>1. c.length = n /\ c.mem = g
    BY ONLY <1>7
  <2>2. IsBuffer(c, size)
    BY ONLY <1>7, Zenon DEF IsBuffer
  <2> QED
    BY <2>1, <2>2
<1>11. Holds(c.mem, size, s)
  BY <1>1, <1>5, <1>8, <1>9, <1>10 DEF Holds
<1>12. Content(c) = s
  <2>1. Content(c) = [i \in 1..n |-> s[i]]
    BY <1>8, <1>10 DEF Content
  <2>2. [i \in 1..n |-> s[i]] = s
    BY <1>1
  <2> QED
    BY <2>1, <2>2
<1> QED
  BY <1>1, <1>10, <1>11, <1>12 DEF FilledWith

\* A frame of any length is bytes, at least as many as it carries.
LEMMA WireType ==
    ASSUME NEW m \in Messages, NEW w, w = Wire(m, m.key)
    PROVE  w \in Seq(Byte) /\ Len(w) >= 1 + Len(m.data)
<1>0. PICK fin, opcode, key, data, masked :
         /\ fin = m.fin /\ opcode = m.opcode /\ key = m.key /\ data = m.data
         /\ masked = (IF m.key = <<>> THEN 0 ELSE 1)
  OBVIOUS
<1>1. PICK first, f, p :
         /\ first = <<128 * fin + opcode>>
         /\ f = LengthField(Len(data), masked) /\ p = Payload(data, key)
  OBVIOUS
<1>2. /\ data \in Seq(Byte) /\ key \in {<<>>} \cup [1..MASK_LEN -> Byte]
      /\ fin \in {0, 1} /\ opcode \in 0..15 /\ masked \in {0, 1}
  BY <1>0, SessionAssumption
<1>3. first \in Seq(Byte) /\ Len(first) = 1
  <2>1. 128 * fin + opcode \in Byte
    BY <1>2 DEF Byte
  <2> QED
    BY <1>1, <2>1
<1>4. f \in Seq(Byte) /\ Len(f) \in Nat
  <2>1. Len(data) \in Nat
    BY <1>2
  <2>2. f \in Seq(Byte)
    BY <1>1, <1>2, <2>1, LengthType
  <2> QED
    BY <2>2
<1>5. key \in Seq(Byte) /\ Len(key) \in Nat
  <2>1. CASE key = <<>>
    BY <2>1
  <2>2. CASE key \in [1..4 -> Byte]
    <3>1. key \in Seq(Byte)
      BY <2>2, FunSeq
    <3> QED
      BY <3>1
  <2> QED
    BY <1>2, <2>1, <2>2 DEF MASK_LEN
<1>6. p \in Seq(Byte) /\ Len(p) = Len(data) /\ Len(data) \in Nat
  <2>1. p \in Seq(Byte) /\ Len(p) = Len(data)
    BY <1>1, <1>2, PayloadType
  <2> QED
    BY <1>2, <2>1
<1>7. w = first \o f \o key \o p
  BY <1>0, <1>1 DEF Wire, Payload
<1>8. Parts(w, first, f, key, p)
  BY <1>3, <1>4, <1>5, <1>6, <1>7, Concat4, Zenon
<1>9. w \in Seq(Byte) /\ Len(w) = Len(first) + Len(f) + Len(key) + Len(p)
  BY <1>8 DEF Parts
<1>10. PICK x, y, z, v : x = Len(w) /\ y = Len(f) /\ z = Len(key) /\ v = Len(data)
  OBVIOUS
<1>11. x = 1 + y + z + v /\ y \in Nat /\ z \in Nat /\ v \in Nat
  BY <1>3, <1>4, <1>5, <1>6, <1>9, <1>10
<1>12. x >= 1 + v
  BY ONLY <1>11
<1> QED
  BY <1>0, <1>9, <1>10, <1>12

-----------------------------------------------------------------------------
(* What is received                                                        *)

\* The frame x is in the bytes, from where it starts.
Sits(bytes, x) ==
  /\ x.at \in Nat /\ x.frame \in Messages
  /\ x.at + Len(Wire(x.frame, x.frame.key)) <= Len(bytes)
  /\ \A i \in 1..Len(Wire(x.frame, x.frame.key)) :
       bytes[x.at + i] = Wire(x.frame, x.frame.key)[i]

\* Every frame not begun is in flight as it was sent, and the read buffer
\* keeps its size.
InFlightInv ==
  /\ rx \in Seq(Byte)
  /\ \A x \in starts : Sits(rx, x)
  /\ IsBuffer(read_buf, READ_BUF_MAX_SIZE)
  /\ FrameAsSent

\* More bytes after it, or fewer before it, leave a frame in place.
LEMMA SitsAppend ==
    ASSUME NEW bytes \in Seq(Byte), NEW more \in Seq(Byte), NEW x, Sits(bytes, x)
    PROVE  Sits(bytes \o more, x)
<1>1. PICK w, k, all : /\ w = Wire(x.frame, x.frame.key) /\ k = Len(w) /\ all = bytes \o more
  OBVIOUS
<1>2. k \in Nat /\ x.at \in Nat /\ x.at + k <= Len(bytes) /\ x.frame \in Messages
      /\ \A i \in 1..k : bytes[x.at + i] = w[i]
  <2>1. x.frame \in Messages
    BY DEF Sits
  <2>2. w \in Seq(Byte)
    BY <1>1, <2>1, WireType
  <2> QED
    BY <1>1, <2>1, <2>2 DEF Sits
<1>3. Len(bytes) \in Nat /\ Len(more) \in Nat /\ Len(all) = Len(bytes) + Len(more)
  BY <1>1
<1>4. ASSUME NEW i \in 1..k PROVE all[x.at + i] = w[i]
  <2>1. x.at + i \in 1..Len(bytes)
    BY <1>2, <1>3, <1>4
  <2>2. all[x.at + i] = bytes[x.at + i]
    BY <1>1, <2>1
  <2> QED
    BY <1>2, <1>4, <2>2
<1>5. x.at + k <= Len(all)
  BY <1>2, <1>3
<1> QED
  BY <1>1, <1>2, <1>4, <1>5 DEF Sits

LEMMA SitsDrop ==
    ASSUME NEW bytes \in Seq(Byte), NEW n \in 0..Len(bytes), NEW x, Sits(bytes, x), x.at >= n,
           NEW y, y.at = x.at - n, y.frame = x.frame
    PROVE  Sits(SubSeq(bytes, n + 1, Len(bytes)), y)
<1>1. PICK w, k, rest, all :
         /\ w = Wire(x.frame, x.frame.key) /\ k = Len(w) /\ all = Len(bytes)
         /\ rest = SubSeq(bytes, n + 1, Len(bytes))
  OBVIOUS
<1>2. k \in Nat /\ x.at \in Nat /\ x.at + k <= all /\ x.frame \in Messages
      /\ \A i \in 1..k : bytes[x.at + i] = w[i]
  <2>1. x.frame \in Messages
    BY DEF Sits
  <2>2. w \in Seq(Byte)
    BY <1>1, <2>1, WireType
  <2> QED
    BY <1>1, <2>1, <2>2 DEF Sits
<1>3. all \in Nat /\ n \in 0..all /\ Len(rest) = all - n
      /\ \A j \in 1..(all - n) : rest[j] = bytes[n + j]
  BY <1>1
<1>4. ASSUME NEW i \in 1..k PROVE rest[y.at + i] = w[i]
  <2>1. PICK j : j = y.at + i
    OBVIOUS
  <2>2. j \in 1..(all - n) /\ n + j = x.at + i
    <3>1. PICK p, q : p = x.at /\ q = y.at
      OBVIOUS
    <3>2. /\ p \in Nat /\ q = p - n /\ p >= n /\ p + k <= all /\ i \in 1..k /\ k \in Nat
          /\ all \in Nat /\ n \in Nat /\ j = q + i
      BY <1>2, <1>3, <1>4, <2>1, <3>1
    <3>3. j \in 1..(all - n) /\ n + j = p + i
      BY ONLY <3>2
    <3> QED
      BY <3>1, <3>3
  <2> QED
    BY <1>2, <1>3, <1>4, <2>1, <2>2
<1>5. y.at \in Nat /\ y.at + k <= Len(rest)
  BY <1>2, <1>3
<1> QED
  BY <1>1, <1>2, <1>4, <1>5 DEF Sits

\* A frame that is appended is in the bytes.
LEMMA SitsLast ==
    ASSUME NEW bytes \in Seq(Byte), NEW m \in Messages,
           NEW x, x = [at |-> Len(bytes), frame |-> m]
    PROVE  Sits(bytes \o Wire(m, m.key), x)
<1>1. PICK w, all : w = Wire(m, m.key) /\ all = bytes \o w
  OBVIOUS
<1>2. w \in Seq(Byte)
  BY <1>1, WireType
<1>3. Len(all) = Len(bytes) + Len(w) /\ \A i \in 1..Len(w) : all[Len(bytes) + i] = w[i]
  BY <1>1, <1>2
<1>4. x.at = Len(bytes) /\ x.frame = m /\ Len(bytes) \in Nat /\ Len(w) \in Nat
  BY <1>2
<1> QED
  BY <1>1, <1>3, <1>4 DEF Sits

LEMMA BufferSizes ==
    /\ READ_BUF_MAX_SIZE \in Nat /\ READ_BUF_MAX_SIZE < Huge /\ READ_BUF_MAX_SIZE >= 40
    /\ WRITE_BUF_MAX_SIZE \in Nat /\ WRITE_BUF_MAX_SIZE < Huge /\ WRITE_BUF_MAX_SIZE >= 40
    /\ Huge \in Nat
<1>1. Huge \in Nat
  BY SMT DEF Huge
<1>2. READ_BUF_MAX_SIZE \in 40..(Huge - 1) /\ WRITE_BUF_MAX_SIZE \in 40..(Huge - 1)
  BY SessionAssumption
<1> QED
  BY <1>1, <1>2

\* decode of a buffer that a whole frame is at the start of.
LEMMA DecodeMessage ==
    ASSUME NEW m \in Messages, NEW b, NEW w, w = Wire(m, m.key),
           Holds(b.mem, READ_BUF_MAX_SIZE, w), decode(b, fetch_header(b.mem)), fault = "none"
    PROVE  got' = Message(m) /\ fault' # "out of bounds"
<1>1. PICK hd, fr : hd = fetch_header(b.mem) /\ fr = fetch_payload(hd, b.mem)
  OBVIOUS
<1>2. PICK fin, opcode, key, data :
         fin = m.fin /\ opcode = m.opcode /\ key = m.key /\ data = m.data
  OBVIOUS
<1>3. /\ data \in Seq(Byte) /\ key \in {<<>>} \cup [1..MASK_LEN -> Byte]
      /\ fin \in {0, 1} /\ opcode \in 0..15
  BY <1>2, SessionAssumption
<1>4. READ_BUF_MAX_SIZE \in Nat /\ Len(data) < Huge
  <2>1. READ_BUF_MAX_SIZE \in Nat /\ READ_BUF_MAX_SIZE < Huge
    BY BufferSizes
  <2>2. Len(w) <= READ_BUF_MAX_SIZE
    BY DEF Holds
  <2>3. w \in Seq(Byte) /\ Len(w) >= 1 + Len(data)
    BY <1>2, WireType
  <2>4. PICK u, v : u = Len(w) /\ v = Len(data)
    OBVIOUS
  <2>5. u \in Nat /\ v \in Nat /\ u >= 1 + v /\ u <= READ_BUF_MAX_SIZE
    BY <1>3, <2>2, <2>3, <2>4
  <2>6. v < Huge
    BY ONLY <2>1, <2>5, BufferSizes
  <2> QED
    BY <2>1, <2>4, <2>6
<1>5. PICK mem : mem = b.mem
  OBVIOUS
<1>6. /\ InMemory(hd, mem) /\ fr.header = hd /\ hd.fin = fin /\ hd.opcode = opcode
      /\ [i \in 1..fr.payload_length |-> fr.msg[fr.payload + i - 1]] = data
  <2>1. /\ w = Wire(m, key) /\ hd = fetch_header(mem) /\ fr = fetch_payload(hd, mem)
        /\ Holds(mem, READ_BUF_MAX_SIZE, w)
    BY <1>1, <1>2, <1>5
  <2>2. DecodedAs(hd, fr, mem, fin, opcode, data)
    BY <1>2, <1>3, <1>4, <2>1, DecodeWire, Zenon
  <2> QED
    BY <2>2 DEF DecodedAs
<1>7. Received([length |-> b.length, frame |-> fr])
  BY <1>1, <1>5, <1>6 DEF decode
<1>8. /\ fault' = fault
      /\ got' = [fin |-> hd.fin, opcode |-> hd.opcode,
                 data |-> [i \in 1..fr.payload_length |-> fr.msg[fr.payload + i - 1]]]
  BY <1>6, <1>7 DEF Received
<1>9. got' = [fin |-> fin, opcode |-> opcode, data |-> data]
  BY <1>6, <1>8
<1> QED
  BY <1>2, <1>8, <1>9 DEF Message

\* The read buffer keeps its size.
LEMMA DecodeBuffer ==
    ASSUME NEW b, NEW hd, decode(b, hd), NEW size, IsBuffer(read_buf, size)
    PROVE  IsBuffer(read_buf, size)'
<1>1. CASE read_buf' = read_buf
  BY <1>1 DEF IsBuffer
<1>2. CASE \E l, mem : read_buf' = [read_buf EXCEPT !.length = l, !.mem = mem]
  <2>1. PICK l, mem : read_buf' = [read_buf EXCEPT !.length = l, !.mem = mem]
    BY <1>2
  <2>2. PICK l0, m0 : read_buf = [size |-> size, length |-> l0, mem |-> m0]
    BY DEF IsBuffer
  <2>3. read_buf' = [size |-> size, length |-> l, mem |-> mem]
    BY <2>1, <2>2
  <2> QED
    BY <2>3, Zenon DEF IsBuffer
<1> QED
  BY <1>1, <1>2 DEF decode, Received

LEMMA ReceiveStep ==
    ASSUME InFlightInv, NEW n \in Cuts, recv_frame(n)
    PROVE  InFlightInv'
<1>1. /\ rx \in Seq(Byte) /\ (\A x \in starts : Sits(rx, x))
      /\ IsBuffer(read_buf, READ_BUF_MAX_SIZE) /\ fault = "none"
  BY DEF InFlightInv, recv_frame
<1>2. n \in 0..Len(rx) /\ READ_BUF_MAX_SIZE \in Nat /\ n \in 0..READ_BUF_MAX_SIZE
  <2>1. n \in 0..Len(rx)
    BY DEF Cuts
  <2>2. READ_BUF_MAX_SIZE \in Nat
    BY BufferSizes
  <2>3. n = 0 \/ n \in 1..READ_BUF_MAX_SIZE
    BY DEF recv_frame
  <2> QED
    BY <2>1, <2>2, <2>3
<1>3. rx' \in Seq(Byte)
  <2>1. rx' = SubSeq(rx, n + 1, Len(rx))
    BY SMT DEF recv_frame, Advance
  <2> QED
    BY <1>1, <1>2, <2>1
<1>4. ASSUME NEW y \in starts' PROVE Sits(rx', y)
  <2>1. PICK x \in starts : x.at >= n /\ y = [x EXCEPT !.at = x.at - n]
    BY <1>4, SMT DEF recv_frame, Advance
  <2>2. rx' = SubSeq(rx, n + 1, Len(rx))
    BY SMT DEF recv_frame, Advance
  <2>3. y.at = x.at - n /\ y.frame = x.frame
    BY <2>1
  <2> QED
    BY <1>1, <1>2, <2>1, <2>2, <2>3, SitsDrop
<1>5. PICK b : /\ b = append(clear(read_buf), SubSeq(rx, 1, n))
               /\ decode(b, fetch_header(b.mem))
  BY DEF recv_frame
<1>6. IsBuffer(read_buf, READ_BUF_MAX_SIZE)'
  BY <1>1, <1>5, DecodeBuffer
<1>7. FrameAsSent'
  <2>1. CASE WholeIn(n) = {}
    BY <2>1 DEF recv_frame, FrameAsSent, None
  <2>2. CASE WholeIn(n) # {}
    <3>1. PICK x \in WholeIn(n) : meant' = Message(x.frame)
      BY <2>2 DEF recv_frame
    <3>2. PICK m, w : m = x.frame /\ w = Wire(m, m.key)
      OBVIOUS
    <3>3. x \in starts /\ x.at = 0 /\ Len(w) <= n
      BY <3>1, <3>2 DEF WholeIn
    <3>4. m \in Messages /\ w \in Seq(Byte) /\ \A i \in 1..Len(w) : rx[0 + i] = w[i]
      <4>1. m \in Messages /\ \A i \in 1..Len(w) : rx[0 + i] = w[i]
        BY <1>1, <3>2, <3>3 DEF Sits
      <4> QED
        BY <3>2, <4>1, WireType
    <3>5. PICK s : s = SubSeq(rx, 1, n)
      OBVIOUS
    <3>6. s \in Seq(Byte) /\ Len(s) = n /\ \A i \in 1..n : s[i] = rx[i]
      BY <1>1, <1>2, <3>5
    <3>7. Holds(b.mem, READ_BUF_MAX_SIZE, s)
      <4>1. Len(s) <= READ_BUF_MAX_SIZE
        BY <1>2, <3>6
      <4>2. FilledWith(b, READ_BUF_MAX_SIZE, s)
        BY <1>1, <1>2, <1>5, <3>5, <3>6, <4>1, Filled, Zenon
      <4> QED
        BY <4>2 DEF FilledWith
    <3>8. Holds(b.mem, READ_BUF_MAX_SIZE, w)
      <4>1. PICK k : k = Len(w)
        OBVIOUS
      <4>2. k \in Nat /\ k <= n /\ \A i \in 1..k : rx[i] = w[i]
        BY <3>3, <3>4, <4>1
      <4>3. /\ DOMAIN b.mem = 0..READ_BUF_MAX_SIZE
            /\ \A i \in 1..n : b.mem[i - 1] = s[i]
        BY <3>6, <3>7 DEF Holds
      <4>4. \A i \in 1..k : b.mem[i - 1] = w[i]
        BY <1>2, <3>6, <4>2, <4>3
      <4>5. k <= READ_BUF_MAX_SIZE
        BY <1>2, <4>2
      <4> QED
        BY <4>1, <4>3, <4>4, <4>5 DEF Holds
    <3>9. got' = Message(m) /\ fault' # "out of bounds"
      BY <1>1, <1>5, <3>2, <3>4, <3>8, DecodeMessage
    <3> QED
      BY <3>1, <3>2, <3>9 DEF FrameAsSent
  <2> QED
    BY <2>1, <2>2
<1> QED
  BY <1>3, <1>4, <1>6, <1>7 DEF InFlightInv

LEMMA InFlightStep ==
    ASSUME InFlightInv, [Next]_vars
    PROVE  InFlightInv'
<1>1. CASE UNCHANGED <<rx, starts, read_buf, got, meant, fault>>
  <2>1. /\ rx' = rx /\ starts' = starts /\ read_buf' = read_buf
        /\ got' = got /\ meant' = meant /\ fault' = fault
    BY <1>1
  <2>2. FrameAsSent'
    BY <2>1 DEF InFlightInv, FrameAsSent
  <2> QED
    BY <2>1, <2>2 DEF InFlightInv
<1>2. ASSUME NEW m \in Messages, ClientSends(m) PROVE InFlightInv'
  <2>1. /\ rx \in Seq(Byte) /\ (\A x \in starts : Sits(rx, x))
        /\ IsBuffer(read_buf, READ_BUF_MAX_SIZE) /\ FrameAsSent
    BY DEF InFlightInv
  <2>2. /\ rx' = rx \o Wire(m, m.key)
        /\ starts' = starts \cup {[at |-> Len(rx), frame |-> m]}
        /\ read_buf' = read_buf /\ got' = got /\ meant' = meant /\ fault' = fault
    BY <1>2 DEF ClientSends, handler
  <2>3. Wire(m, m.key) \in Seq(Byte)
    BY <1>2, WireType
  <2>4. rx' \in Seq(Byte)
    BY <2>1, <2>2, <2>3
  <2>5. ASSUME NEW x \in starts' PROVE Sits(rx', x)
    <3>1. CASE x \in starts
      BY <2>1, <2>2, <2>3, <3>1, SitsAppend
    <3>2. CASE x = [at |-> Len(rx), frame |-> m]
      BY <1>2, <2>1, <2>2, <3>2, SitsLast
    <3> QED
      BY <2>2, <2>5, <3>1, <3>2
  <2>6. FrameAsSent'
    BY <2>1, <2>2 DEF FrameAsSent
  <2> QED
    BY <2>1, <2>2, <2>4, <2>5, <2>6 DEF InFlightInv
<1>3. CASE compute_accept_key
  BY <1>1, <1>3 DEF compute_accept_key, incoming, handler
<1>4. CASE Upgrade
  BY <1>1, <1>4 DEF Upgrade, incoming, handler
<1>5. CASE ClientCloses
  BY <1>1, <1>5 DEF ClientCloses, incoming, handler
<1>6. CASE \E m \in Messages : ClientSends(m)
  BY <1>2, <1>6
<1>7. CASE \E n \in Cuts : recv_frame(n)
  BY <1>7, ReceiveStep
<1>8. CASE \E m \in Replies, cut \in BOOLEAN : send_frame(m, cut)
  <2>1. /\ rx' = rx /\ starts' = starts /\ read_buf' = read_buf
        /\ got' = got /\ meant' = meant
    BY <1>8 DEF send_frame, incoming
  <2>2. fault' = fault \/ fault' = "buffer"
    BY <1>8 DEF send_frame
  <2>3. FrameAsSent'
    BY <2>1, <2>2 DEF InFlightInv, FrameAsSent
  <2> QED
    BY <2>1, <2>3 DEF InFlightInv
<1>9. CASE UNCHANGED vars
  BY <1>1, <1>9 DEF vars, incoming, handler
<1> QED
  BY <1>3, <1>4, <1>5, <1>6, <1>7, <1>8, <1>9 DEF Next

\* The buffers the handshake leaves.
LEMMA InitialBuffers ==
    IsBuffer(ReadBuf, READ_BUF_MAX_SIZE) /\ IsBuffer(WriteBuf, WRITE_BUF_MAX_SIZE)
<1>1. ASSUME NEW size PROVE NewBuffer(size) =
          [size |-> size, length |-> 0, mem |-> [i \in 0..size |-> 0]]
  BY DEF NewBuffer
<1>2. IsBuffer(ReadBuf, READ_BUF_MAX_SIZE)
  <2>1. PICK mem : mem = append(NewBuffer(READ_BUF_MAX_SIZE), Handshake).mem
    OBVIOUS
  <2>2. ReadBuf = [NewBuffer(READ_BUF_MAX_SIZE) EXCEPT !.mem = mem]
    BY <2>1 DEF ReadBuf
  <2>3. ReadBuf = [size |-> READ_BUF_MAX_SIZE, length |-> 0, mem |-> mem]
    BY <1>1, <2>2
  <2> QED
    BY <2>3, Zenon DEF IsBuffer
<1>3. IsBuffer(WriteBuf, WRITE_BUF_MAX_SIZE)
  <2>1. PICK b : b = NewBuffer(WRITE_BUF_MAX_SIZE)
    OBVIOUS
  <2>2. PICK l, mem : append(b, Handshake) = [b EXCEPT !.length = l, !.mem = mem]
    BY DEF append
  <2>3. WriteBuf = [size |-> WRITE_BUF_MAX_SIZE, length |-> l, mem |-> mem]
    BY <1>1, <2>1, <2>2 DEF WriteBuf
  <2> QED
    BY <2>3, Zenon DEF IsBuffer
<1> QED
  BY <1>2, <1>3

\* For every message, buffer size and cut of the stream: a frame at the
\* start of a recv that has all of it is what the handler finds in it.
\* Frame::decode reads its header, each of the three forms of its length
\* (the eight-byte one too, up to the size of the buffer) and its payload,
\* unmasked eight bytes at a time and then byte by byte, whatever earlier
\* recvs left in the buffer, and never outside of its memory.
THEOREM FramesDecoded == Spec => []FrameAsSent
<1>1. Init => InFlightInv
  <2> SUFFICES ASSUME Init PROVE InFlightInv
    OBVIOUS
  <2>1. rx = <<>> /\ starts = {} /\ read_buf = ReadBuf /\ meant = None
    BY DEF Init
  <2> QED
    BY <2>1, InitialBuffers DEF InFlightInv, FrameAsSent
<1>2. InFlightInv /\ [Next]_vars => InFlightInv'
  BY InFlightStep
<1>3. InFlightInv => FrameAsSent
  BY DEF InFlightInv
<1> QED
  BY <1>1, <1>2, <1>3, PTL DEF Spec

-----------------------------------------------------------------------------
(* What is sent                                                            *)

\* The write buffer keeps its size, and what the client read is what the
\* kernel took of what the protocol has for the replies.
RepliesInv ==
  /\ IsBuffer(write_buf, WRITE_BUF_MAX_SIZE)
  /\ said \in Seq(Byte) /\ tx \in Seq(Byte) /\ short \in BOOLEAN
  /\ RepliesIntact

LEMMA SendStep ==
    ASSUME RepliesInv, NEW m \in Replies, NEW cut \in BOOLEAN, send_frame(m, cut)
    PROVE  RepliesInv'
<1>1. /\ IsBuffer(write_buf, WRITE_BUF_MAX_SIZE) /\ said \in Seq(Byte) /\ tx \in Seq(Byte)
      /\ short \in BOOLEAN /\ tx = taken /\ (~ short => tx = said)
  BY DEF RepliesInv, RepliesIntact
<1>2. PICK bytes, w : bytes = encode(m.data, m.opcode, m.fin) /\ w = Wire(m, <<>>)
  BY Zenon
<1>3. bytes = w /\ w \in Seq(Byte)
  <2>1. PICK fin, opcode, data : fin = m.fin /\ opcode = m.opcode /\ data = m.data
    OBVIOUS
  <2>2. fin \in {0, 1} /\ opcode \in 0..15 /\ data \in Seq(Byte)
    BY <2>1, SessionAssumption
  <2> QED
    BY <1>2, <2>1, <2>2, EncodeWire, Zenon
<1>4. CASE ~ Fits(clear_write_buf(write_buf), Len(bytes))
  <2>1. UNCHANGED outgoing
    BY <1>2, <1>4 DEF send_frame
  <2>2. /\ write_buf' = write_buf /\ said' = said /\ taken' = taken /\ tx' = tx
        /\ short' = short
    BY <2>1 DEF outgoing
  <2> QED
    BY <2>2 DEF RepliesInv, RepliesIntact
<1>5. CASE Fits(clear_write_buf(write_buf), Len(bytes))
  <2>1. PICK b : b = append(clear(write_buf), bytes)
    OBVIOUS
  <2>2. Send(b, m, cut)
    BY <1>2, <1>5, <2>1 DEF send_frame, clear_write_buf
  <2>3. WRITE_BUF_MAX_SIZE \in Nat /\ Len(w) <= WRITE_BUF_MAX_SIZE /\ Len(w) \in Nat
    <3>1. PICK l0, mem : write_buf = [size |-> WRITE_BUF_MAX_SIZE, length |-> l0, mem |-> mem]
      BY <1>1 DEF IsBuffer
    <3>2. clear(write_buf).length = 0 /\ clear(write_buf).size = WRITE_BUF_MAX_SIZE
      BY <3>1 DEF clear
    <3>3. 0 + Len(w) <= WRITE_BUF_MAX_SIZE
      BY <1>3, <1>5, <3>2 DEF Fits, clear_write_buf
    <3> QED
      BY <1>3, <3>3, BufferSizes
  <2>4. IsBuffer(b, WRITE_BUF_MAX_SIZE) /\ b.length = Len(w) /\ Content(b) = w
    <3>1. FilledWith(b, WRITE_BUF_MAX_SIZE, w)
      BY <1>1, <1>3, <2>1, <2>3, Filled, Zenon
    <3> QED
      BY <3>1 DEF FilledWith
  <2>5. PICK h : h = Took(Len(w), cut)
    OBVIOUS
  <2>6. h \in 0..Len(w)
    <3>1. PICK k : k = Len(w)
      OBVIOUS
    <3>2. k \in Nat /\ k \div 2 \in 0..k
      BY <2>3, <3>1
    <3> QED
      BY <2>5, <3>1, <3>2 DEF Took
  <2>7. PICK p : p = SubSeq(w, 1, h)
    OBVIOUS
  <2>8. p \in Seq(Byte) /\ (~ cut => p = w)
    <3>1. SubSeq(w, 1, Len(w)) = w
      BY <1>3
    <3>2. p \in Seq(Byte)
      BY <1>3, <2>6, <2>7, SMT
    <3>3. ~ cut => h = Len(w)
      BY <2>5, Zenon DEF Took
    <3> QED
      BY <2>7, <3>1, <3>2, <3>3, Zenon
  <2>9. /\ write_buf' = b /\ said' = said \o w /\ taken' = taken \o p /\ tx' = tx \o p
        /\ short' = (short \/ cut)
    BY <1>2, <2>2, <2>4, <2>5, <2>7, Zenon DEF Send
  <2>10. said' \in Seq(Byte) /\ tx' \in Seq(Byte)
    BY <1>1, <1>3, <2>8, <2>9
  <2>11. short' \in BOOLEAN
    BY <2>9, Zenon
  <2>12. RepliesIntact'
    <3>1. tx' = taken'
      BY <1>1, <2>9, Zenon
    <3>2. ASSUME ~ short' PROVE tx' = said'
      <4>1. ~ short /\ ~ cut
        BY <2>9, <3>2, Zenon
      <4> QED
        BY <1>1, <2>8, <2>9, <4>1, Zenon
    <3> QED
      BY <3>1, <3>2, Zenon DEF RepliesIntact
  <2> QED
    BY <2>4, <2>9, <2>10, <2>11, <2>12, Zenon DEF RepliesInv
<1> QED
  BY <1>4, <1>5

LEMMA RepliesStep ==
    ASSUME RepliesInv, [Next]_vars
    PROVE  RepliesInv'
<1>1. CASE UNCHANGED outgoing
  <2>1. /\ write_buf' = write_buf /\ said' = said /\ taken' = taken /\ tx' = tx
        /\ short' = short
    BY <1>1 DEF outgoing
  <2> QED
    BY <2>1 DEF RepliesInv, RepliesIntact
<1>2. CASE compute_accept_key
  BY <1>1, <1>2 DEF compute_accept_key
<1>3. CASE Upgrade
  BY <1>1, <1>3 DEF Upgrade
<1>4. CASE ClientCloses
  BY <1>1, <1>4 DEF ClientCloses
<1>5. CASE \E m \in Messages : ClientSends(m)
  BY <1>1, <1>5 DEF ClientSends
<1>6. CASE \E n \in Cuts : recv_frame(n)
  BY <1>1, <1>6 DEF recv_frame
<1>7. CASE \E m \in Replies, cut \in BOOLEAN : send_frame(m, cut)
  BY <1>7, SendStep
<1>8. CASE UNCHANGED vars
  BY <1>1, <1>8 DEF vars
<1> QED
  BY <1>2, <1>3, <1>4, <1>5, <1>6, <1>7, <1>8 DEF Next

\* For every reply and buffer size: what the client reads is, send by send,
\* the first bytes of the frame the handler sent, as the protocol has it in
\* its shortest form (send_frame through Frame::encode and the cleared write
\* buffer), as many as the kernel took; as long as the kernel took all it was
\* given, exactly those frames; and a frame too long for the buffer is not
\* sent in part. Frames sent after a short send are covered: they follow what
\* was taken of the cut one.
THEOREM RepliesCorrect == Spec => []RepliesIntact
<1>1. Init => RepliesInv
  <2> SUFFICES ASSUME Init PROVE RepliesInv
    OBVIOUS
  <2>1. write_buf = WriteBuf /\ said = <<>> /\ taken = <<>> /\ tx = <<>> /\ short = FALSE
    BY DEF Init
  <2>2. IsBuffer(write_buf, WRITE_BUF_MAX_SIZE)
    BY <2>1, InitialBuffers
  <2>3. RepliesIntact
    BY <2>1 DEF RepliesIntact
  <2>4. said \in Seq(Byte) /\ tx \in Seq(Byte)
    BY <2>1
  <2>5. short \in BOOLEAN
    BY <2>1, Zenon
  <2> QED
    BY <2>2, <2>3, <2>4, <2>5 DEF RepliesInv
<1>2. RepliesInv /\ [Next]_vars => RepliesInv'
  BY RepliesStep
<1>3. RepliesInv => RepliesIntact
  BY DEF RepliesInv
<1> QED
  BY <1>1, <1>2, <1>3, PTL DEF Spec
=============================================================================
