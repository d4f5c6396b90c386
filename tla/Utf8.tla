-------------------------------- MODULE Utf8 --------------------------------
(***************************************************************************)
(* The Unicode helpers of util/json.c, as operators on sequences of bytes. *)
(* A string ends where its bytes end: reading one further gives the NUL.   *)
(***************************************************************************)
EXTENDS Integers, Sequences

\* The byte at place i.
ByteAt(b, i) == IF i <= Len(b) THEN b[i] ELSE 0

\* (c & 0xC0) == 0x80
Continues(c) == c \in 128..191

\* Mutant: overlong three-byte sequences pass.
utf8_validate_cz_overlong(b, i) ==
  LET c == ByteAt(b, i)
      d == ByteAt(b, i + 1)
  IN CASE c <= 127 -> 1
       [] c \in 194..223 -> IF Continues(d) THEN 2 ELSE 0
       [] c \in 224..239 -> IF /\ ~(c = 237 /\ d > 159)
                               /\ \A k \in 1..2 : Continues(ByteAt(b, i + k))
                            THEN 3 ELSE 0
       [] c \in 240..244 -> IF /\ ~(c = 240 /\ d < 144)
                               /\ ~(c = 244 /\ d > 143)
                               /\ \A k \in 1..3 : Continues(ByteAt(b, i + k))
                            THEN 4 ELSE 0
       [] OTHER -> 0

\* Length of the character at place i, 0 if it is invalid or clipped.
utf8_validate_cz(b, i) ==
  LET c == ByteAt(b, i)
      d == ByteAt(b, i + 1)
  IN CASE c <= 127 -> 1
       [] c \in 194..223 -> IF Continues(d) THEN 2 ELSE 0
       [] c \in 224..239 -> IF /\ ~(c = 224 /\ d < 160)
                               /\ ~(c = 237 /\ d > 159)
                               /\ \A k \in 1..2 : Continues(ByteAt(b, i + k))
                            THEN 3 ELSE 0
       [] c \in 240..244 -> IF /\ ~(c = 240 /\ d < 144)
                               /\ ~(c = 244 /\ d > 143)
                               /\ \A k \in 1..3 : Continues(ByteAt(b, i + k))
                            THEN 4 ELSE 0
       [] OTHER -> 0

\* Every character from place 1 on is valid.
utf8_validate(b) ==
  LET from[i \in 1..(Len(b) + 1)] ==
        \/ i = Len(b) + 1
        \/ LET len == utf8_validate_cz(b, i) IN len # 0 /\ from[i + len]
  IN from[1]

\* The code point of the valid character at place i.
utf8_read_char(b, i) ==
  LET low(k) == ByteAt(b, i + k) % 64
      c == ByteAt(b, i)
  IN CASE c <= 127 -> c
       [] c \in 128..223 -> (c % 32) * 64 + low(1)
       [] c \in 224..239 -> (c % 16) * 4096 + low(1) * 64 + low(2)
       [] OTHER -> (c % 8) * 262144 + low(1) * 4096 + low(2) * 64 + low(3)

\* Mutant: the third byte of four repeats the bits of the second.
utf8_write_char_shift(u) ==
  LET low(n) == 128 + ((u \div n) % 64)
  IN CASE u <= 127 -> <<u>>
       [] u > 127 /\ u <= 2047 -> <<192 + (u \div 64), low(1)>>
       [] u > 2047 /\ u <= 65535 -> <<224 + (u \div 4096), low(64), low(1)>>
       [] OTHER -> <<240 + (u \div 262144), low(4096), low(4096), low(1)>>

\* The bytes of a code point that is no surrogate.
utf8_write_char(u) ==
  LET low(n) == 128 + ((u \div n) % 64)
  IN CASE u <= 127 -> <<u>>
       [] u > 127 /\ u <= 2047 -> <<192 + (u \div 64), low(1)>>
       [] u > 2047 /\ u <= 65535 -> <<224 + (u \div 4096), low(64), low(1)>>
       [] OTHER -> <<240 + (u \div 262144), low(4096), low(64), low(1)>>

Surrogate(u) == u >= 55296 /\ u <= 57343

\* The code point of a surrogate pair, -1 if it is none.
from_surrogate_pair(uc, lc) ==
  IF uc >= 55296 /\ uc <= 56319 /\ lc >= 56320 /\ lc <= 57343
  THEN 65536 + (uc % 1024) * 1024 + (lc % 1024)
  ELSE -1

to_surrogate_pair(u) ==
  LET n == u - 65536 IN <<55296 + ((n \div 1024) % 1024), 56320 + (n % 1024)>>

(***************************************************************************)
(* The definition of UTF-8: n bytes that carry the bits of a code point,   *)
(* with the marks of their places, where no fewer bytes would do.          *)
(***************************************************************************)
Marks == <<0, 192, 224, 240>>
Least == <<0, 128, 2048, 65536>>
Payload == <<128, 32, 16, 8>>

\* Up to U+10FFFF, but no surrogate.
CodePoint(u) == u >= 0 /\ u <= 1114111 /\ ~Surrogate(u)

\* The bits of the n bytes at place i, put together.
Bits(b, i, n) ==
  LET sum[k \in 1..n] == IF k = 1 THEN b[i] - Marks[n]
                         ELSE sum[k - 1] * 64 + (b[i + k - 1] - 128)
  IN sum[n]

Encoded(b, i, n) ==
  /\ i + n - 1 <= Len(b)
  /\ b[i] \in Marks[n]..(Marks[n] + Payload[n] - 1)
  /\ \A k \in 1..(n - 1) : b[i + k] \in 128..191
  /\ Bits(b, i, n) >= Least[n]
  /\ CodePoint(Bits(b, i, n))
=============================================================================
