-------------------------- MODULE JsonStringProofs --------------------------
(***************************************************************************)
(* Proofs about the literals of util/json.c, for strings and texts of any  *)
(* size; those about numbers are about the texts of MCJsonString.          *)
(***************************************************************************)
EXTENDS MCJsonString, FiniteSetTheorems, SequenceTheorems, WellFoundedInduction, TLAPS

Byte == 1..255

Octet == 0..255

(***************************************************************************)
(* Single characters.                                                      *)
(***************************************************************************)
LEMMA ByteAtType ==
  ASSUME NEW b \in Seq(Byte), NEW i \in Nat \ {0}
  PROVE /\ ByteAt(b, i) \in Octet
        /\ ByteAt(b, i) = 0 <=> i > Len(b)
        /\ i <= Len(b) => ByteAt(b, i) \in Byte /\ ByteAt(b, i) = b[i]
<1>1. Len(b) \in Nat
  BY LenProperties
<1>2. i <= Len(b) => b[i] \in Byte
  BY <1>1, ElementOfSeq
<1>3. CASE i <= Len(b)
  <2>1. b[i] \in Byte /\ ByteAt(b, i) = b[i]
    BY <1>2, <1>3 DEF ByteAt
  <2>2. \A x \in Byte : x \in Octet /\ x # 0
    BY DEF Byte, Octet
  <2> QED
    BY <1>1, <1>3, <2>1, <2>2
<1>4. CASE ~(i <= Len(b))
  <2>1. ByteAt(b, i) = 0
    BY <1>4 DEF ByteAt
  <2> QED
    BY <1>1, <1>4, <2>1 DEF Octet
<1> QED
  BY <1>3, <1>4

\* The bytes of a valid character of n bytes.
One(c) == c <= 127
Two(c, d) == c \in 194..223 /\ d \in 128..191
Three(c, d, e) ==
  /\ c \in 224..239 /\ d \in 128..191 /\ e \in 128..191
  /\ c = 224 => d >= 160
  /\ c = 237 => d <= 159
Four(c, d, e, f) ==
  /\ c \in 240..244 /\ d \in 128..191 /\ e \in 128..191 /\ f \in 128..191
  /\ c = 240 => d >= 144
  /\ c = 244 => d <= 143

\* The length of the character that begins with these bytes.
Lengths(r, c, d, e, f) ==
  /\ r \in 0..4
  /\ r = 1 <=> One(c)
  /\ r = 2 <=> Two(c, d)
  /\ r = 3 <=> Three(c, d, e)
  /\ r = 4 <=> Four(c, d, e, f)

LEMMA ValidateByBytes ==
  ASSUME NEW b, NEW i \in Nat,
         ByteAt(b, i) \in Octet, ByteAt(b, i + 1) \in Octet,
         ByteAt(b, i + 2) \in Octet, ByteAt(b, i + 3) \in Octet
  PROVE Lengths(utf8_validate_cz(b, i), ByteAt(b, i), ByteAt(b, i + 1), ByteAt(b, i + 2),
                ByteAt(b, i + 3))
<1> PICK c \in Octet : c = ByteAt(b, i)
  OBVIOUS
<1> PICK d \in Octet : d = ByteAt(b, i + 1)
  OBVIOUS
<1> PICK e \in Octet : e = ByteAt(b, i + 2)
  OBVIOUS
<1> PICK f \in Octet : f = ByteAt(b, i + 3)
  OBVIOUS
<1> SUFFICES Lengths(utf8_validate_cz(b, i), c, d, e, f)
  OBVIOUS
<1>1. (\A k \in 1..2 : Continues(ByteAt(b, i + k))) <=> Continues(d) /\ Continues(e)
  <2>1. 1..2 = {1, 2}
    OBVIOUS
  <2> QED
    BY <2>1
<1>2. (\A k \in 1..3 : Continues(ByteAt(b, i + k))) <=> Continues(d) /\ Continues(e) /\ Continues(f)
  <2>1. 1..3 = {1, 2, 3}
    OBVIOUS
  <2> QED
    BY <2>1
<1> DEFINE r == utf8_validate_cz(b, i)
<1>3. CASE c <= 127
  <2>1. r = 1
    BY <1>3 DEF utf8_validate_cz
  <2> QED
    BY <1>3, <2>1 DEF Lengths, One, Two, Three, Four
<1>4. CASE c \in 194..223
  <2>1. r = IF Continues(d) THEN 2 ELSE 0
    BY <1>4 DEF utf8_validate_cz
  <2> QED
    BY <1>4, <2>1 DEF Lengths, One, Two, Three, Four, Continues
<1>5. CASE c \in 224..239
  <2>1. r = IF /\ ~(c = 224 /\ d < 160)
               /\ ~(c = 237 /\ d > 159)
               /\ Continues(d) /\ Continues(e)
            THEN 3 ELSE 0
    BY <1>1, <1>5 DEF utf8_validate_cz
  <2> QED
    BY <1>5, <2>1 DEF Lengths, One, Two, Three, Four, Continues
<1>6. CASE c \in 240..244
  <2>1. r = IF /\ ~(c = 240 /\ d < 144)
               /\ ~(c = 244 /\ d > 143)
               /\ Continues(d) /\ Continues(e) /\ Continues(f)
            THEN 4 ELSE 0
    BY <1>2, <1>6 DEF utf8_validate_cz
  <2> QED
    BY <1>6, <2>1 DEF Lengths, One, Two, Three, Four, Continues
<1>7. CASE c \in 128..193 \/ c \in 245..255
  <2>1. r = 0
    BY <1>7 DEF utf8_validate_cz
  <2> QED
    BY <1>7, <2>1 DEF Lengths, One, Two, Three, Four
<1> QED
  BY <1>3, <1>4, <1>5, <1>6, <1>7 DEF Octet

\* The four bytes at place i, which are NUL from the end on, and the length of
\* the character there.
Look(b, i, r, c, d, e, f) ==
  /\ r = utf8_validate_cz(b, i)
  /\ c = ByteAt(b, i) /\ d = ByteAt(b, i + 1) /\ e = ByteAt(b, i + 2) /\ f = ByteAt(b, i + 3)
  /\ c = 0 <=> i > Len(b)
  /\ d = 0 <=> i + 1 > Len(b)
  /\ e = 0 <=> i + 2 > Len(b)
  /\ f = 0 <=> i + 3 > Len(b)
  /\ Lengths(r, c, d, e, f)

LEMMA ValidateCases ==
  ASSUME NEW b \in Seq(Byte), NEW i \in Nat \ {0}
  PROVE \E r \in 0..4, c, d, e, f \in Octet : Look(b, i, r, c, d, e, f)
<1>1. i \in Nat /\ i + 1 \in Nat \ {0} /\ i + 2 \in Nat \ {0} /\ i + 3 \in Nat \ {0}
  OBVIOUS
<1>2. PICK c \in Octet : c = ByteAt(b, i) /\ (c = 0 <=> i > Len(b))
  BY ByteAtType
<1>3. PICK d \in Octet : d = ByteAt(b, i + 1) /\ (d = 0 <=> i + 1 > Len(b))
  BY <1>1, ByteAtType
<1>4. PICK e \in Octet : e = ByteAt(b, i + 2) /\ (e = 0 <=> i + 2 > Len(b))
  BY <1>1, ByteAtType
<1>5. PICK f \in Octet : f = ByteAt(b, i + 3) /\ (f = 0 <=> i + 3 > Len(b))
  BY <1>1, ByteAtType
<1>6. Lengths(utf8_validate_cz(b, i), c, d, e, f)
  BY <1>1, <1>2, <1>3, <1>4, <1>5, ValidateByBytes
<1>7. PICK r \in 0..4 : r = utf8_validate_cz(b, i)
  BY <1>6 DEF Lengths
<1>8. Look(b, i, r, c, d, e, f)
  BY <1>2, <1>3, <1>4, <1>5, <1>6, <1>7, Zenon DEF Look
<1> QED
  BY <1>8

\* A valid character ends within its string.
LEMMA CharFits ==
  ASSUME NEW b \in Seq(Byte), NEW i \in Nat \ {0}, i <= Len(b)
  PROVE /\ utf8_validate_cz(b, i) \in 0..4
        /\ i + utf8_validate_cz(b, i) <= Len(b) + 1
<1>0. Len(b) \in Nat
  BY LenProperties
<1>1. PICK r \in 0..4, c, d, e, f \in Octet : Look(b, i, r, c, d, e, f)
  BY ValidateCases
<1>2. /\ r = 2 => d # 0
      /\ r = 3 => e # 0
      /\ r = 4 => f # 0
  <2>1. /\ r = 2 => Two(c, d)
        /\ r = 3 => Three(c, d, e)
        /\ r = 4 => Four(c, d, e, f)
    BY <1>1, Zenon DEF Look, Lengths
  <2>2. \A x \in 128..191 : x # 0
    OBVIOUS
  <2>3. r = 2 => d # 0
    BY <2>1, <2>2, Zenon DEF Two
  <2>4. r = 3 => e # 0
    BY <2>1, <2>2, Zenon DEF Three
  <2>5. r = 4 => f # 0
    BY <2>1, <2>2, Zenon DEF Four
  <2> QED
    BY <2>3, <2>4, <2>5
<1>3. /\ r = utf8_validate_cz(b, i)
      /\ r = 2 => ~(i + 1 > Len(b))
      /\ r = 3 => ~(i + 2 > Len(b))
      /\ r = 4 => ~(i + 3 > Len(b))
  BY <1>1, <1>2, Zenon DEF Look
<1> QED
  BY <1>0, <1>3

\* n bytes at place j of x are those at place i of b.
SameBytes(x, j, b, i, n) == \A k \in 0..(n - 1) : ByteAt(x, j + k) = ByteAt(b, i + k)

\* Equal bytes are the same character, wherever they are.
LEMMA SameChar ==
  ASSUME NEW b \in Seq(Byte), NEW i \in Nat \ {0},
         NEW x \in Seq(Byte), NEW j \in Nat \ {0},
         NEW n \in 1..4, utf8_validate_cz(b, i) = n,
         SameBytes(x, j, b, i, n)
  PROVE utf8_validate_cz(x, j) = n
<1>1. PICK r \in 0..4, c, d, e, f \in Octet : Look(b, i, r, c, d, e, f)
  BY ValidateCases
<1>2. PICK rr \in 0..4, cc, dd, ee, ff \in Octet : Look(x, j, rr, cc, dd, ee, ff)
  BY ValidateCases
<1>3. /\ r = n /\ c = ByteAt(b, i) /\ d = ByteAt(b, i + 1) /\ e = ByteAt(b, i + 2) /\ f = ByteAt(b, i + 3)
      /\ rr = utf8_validate_cz(x, j)
      /\ cc = ByteAt(x, j) /\ dd = ByteAt(x, j + 1) /\ ee = ByteAt(x, j + 2) /\ ff = ByteAt(x, j + 3)
  BY <1>1, <1>2, Zenon DEF Look, Lengths
<1>4. /\ cc = c
      /\ n >= 2 => dd = d
      /\ n >= 3 => ee = e
      /\ n >= 4 => ff = f
  <2>1. /\ 0 \in 0..(n - 1) /\ j + 0 = j /\ i + 0 = i
        /\ n >= 2 => 1 \in 0..(n - 1)
        /\ n >= 3 => 2 \in 0..(n - 1)
        /\ n >= 4 => 3 \in 0..(n - 1)
    OBVIOUS
  <2> QED
    BY <1>3, <2>1 DEF SameBytes
<1>5. CASE n = 1
  <2>1. One(c)
    BY <1>1, <1>3, <1>5, Zenon DEF Look, Lengths
  <2> QED
    BY <1>2, <1>3, <1>4, <1>5, <2>1, Zenon DEF Look, Lengths
<1>6. CASE n = 2
  <2>1. Two(c, d) /\ dd = d
    <3>1. dd = d
      BY <1>4, <1>6
    <3> QED
      BY <1>1, <1>3, <1>6, <3>1, Zenon DEF Look, Lengths
  <2> QED
    BY <1>2, <1>3, <1>4, <1>6, <2>1, Zenon DEF Look, Lengths
<1>7. CASE n = 3
  <2>1. Three(c, d, e) /\ dd = d /\ ee = e
    <3>1. dd = d /\ ee = e
      BY <1>4, <1>7
    <3> QED
      BY <1>1, <1>3, <1>7, <3>1, Zenon DEF Look, Lengths
  <2> QED
    BY <1>2, <1>3, <1>4, <1>7, <2>1, Zenon DEF Look, Lengths
<1>8. CASE n = 4
  <2>1. Four(c, d, e, f) /\ dd = d /\ ee = e /\ ff = f
    <3>1. dd = d /\ ee = e /\ ff = f
      BY <1>4, <1>8
    <3> QED
      BY <1>1, <1>3, <1>8, <3>1, Zenon DEF Look, Lengths
  <2> QED
    BY <1>2, <1>3, <1>4, <1>8, <2>1, Zenon DEF Look, Lengths
<1> QED
  BY <1>5, <1>6, <1>7, <1>8

(***************************************************************************)
(* What emit_string writes for a character.                                *)
(***************************************************************************)

\* The letters of the short escapes, and the bytes that have one.
Letters == {34, 92, 98, 102, 110, 114, 116}
Shorts == {34, 92, 8, 12, 10, 13, 9}

LEMMA EscapePairs ==
  /\ \A e : e \in ShortEscapes <=> \/ e = <<34, 34>> \/ e = <<92, 92>> \/ e = <<98, 8>>
                                   \/ e = <<102, 12>> \/ e = <<110, 10>> \/ e = <<114, 13>>
                                   \/ e = <<116, 9>>
  /\ \A e \in ShortEscapes : e[1] \in Letters /\ e[2] \in Shorts
  /\ \A c \in Shorts : \E e \in ShortEscapes : e[2] = c
  /\ \A e, f \in ShortEscapes : e[1] = f[1] <=> e[2] = f[2]
<1>1. \A e : e \in ShortEscapes <=> \/ e = <<34, 34>> \/ e = <<92, 92>> \/ e = <<98, 8>>
                                   \/ e = <<102, 12>> \/ e = <<110, 10>> \/ e = <<114, 13>>
                                   \/ e = <<116, 9>>
  BY DEF ShortEscapes
<1>2. \A e \in ShortEscapes : e[1] \in Letters /\ e[2] \in Shorts
  BY <1>1 DEF Letters, Shorts
<1>3. \A c \in Shorts : \E e \in ShortEscapes : e[2] = c
  <2>1. /\ <<34, 34>> \in ShortEscapes /\ <<92, 92>> \in ShortEscapes /\ <<98, 8>> \in ShortEscapes
        /\ <<102, 12>> \in ShortEscapes /\ <<110, 10>> \in ShortEscapes
        /\ <<114, 13>> \in ShortEscapes /\ <<116, 9>> \in ShortEscapes
    BY <1>1
  <2> QED
    BY <2>1 DEF Shorts
<1>4. \A e, f \in ShortEscapes : e[1] = f[1] <=> e[2] = f[2]
  BY <1>1
<1> QED
  BY <1>1, <1>2, <1>3, <1>4

\* A byte has one short escape or none, which stands for this byte.
LEMMA ShortEscape ==
  /\ \A c : c \notin Shorts => Escaped(c) = {}
  /\ \A c \in Shorts : \E l \in Letters : Escaped(c) = {l} /\ Unescaped(l) = {c}
<1>1. \A c : c \notin Shorts => Escaped(c) = {}
  BY EscapePairs DEF Escaped
<1>2. ASSUME NEW c \in Shorts
      PROVE \E l \in Letters : Escaped(c) = {l} /\ Unescaped(l) = {c}
  <2>1. PICK e \in ShortEscapes : e[2] = c
    BY EscapePairs
  <2>2. PICK l \in Letters : l = e[1]
    BY EscapePairs
  <2>3. Escaped(c) = {l}
    BY <2>1, <2>2, EscapePairs DEF Escaped
  <2>4. l # 47
    BY DEF Letters
  <2>5. \A f : f \in {g \in ShortEscapes \cup {<<47, 47>>} : g[1] = l} <=> f \in ShortEscapes /\ f[2] = c
    <3>1. <<47, 47>>[1] # l
      BY <2>4
    <3> QED
      BY <2>1, <2>2, <3>1, EscapePairs
  <2>6. Unescaped(l) = {c}
    BY <2>1, <2>5 DEF Unescaped
  <2> QED
    BY <2>3, <2>6
<1> QED
  BY <1>1, <1>2

LEMMA HexDigitType ==
  ASSUME NEW n \in 0..15
  PROVE HexDigit(n) \in Byte /\ HexValue(HexDigit(n)) = n
<1>1. CASE n < 10
  <2>1. HexDigit(n) = 48 + n
    BY <1>1 DEF HexDigit
  <2>2. HexValue(48 + n) = (48 + n) - 48
    BY <1>1 DEF HexValue
  <2> QED
    BY <1>1, <2>1, <2>2 DEF Byte
<1>2. CASE n >= 10
  <2>1. HexDigit(n) = 55 + n
    BY <1>2 DEF HexDigit
  <2>2. 55 + n \in 65..70 /\ 55 + n \notin 48..57
    BY <1>2
  <2>3. HexValue(55 + n) = (55 + n) - 55
    BY <2>2 DEF HexValue
  <2> QED
    BY <1>2, <2>1, <2>3 DEF Byte
<1> QED
  BY <1>1, <1>2

\* The digits of a control character.
LEMMA WriteHex ==
  ASSUME NEW v \in Octet
  PROVE \E g, h \in Byte : /\ write_hex16(v) = <<48, 48, g, h>>
                           /\ HexValue(g) = v \div 16 /\ HexValue(h) = v % 16
<1>1. v \div 4096 = 0 /\ (v \div 256) % 16 = 0 /\ (v \div 16) % 16 = v \div 16
  BY DEF Octet
<1>2. v \div 16 \in 0..15 /\ v % 16 \in 0..15
  BY DEF Octet
<1>3. HexDigit(0) = 48
  BY DEF HexDigit
<1>4. write_hex16(v) = <<48, 48, HexDigit(v \div 16), HexDigit(v % 16)>>
  BY <1>1, <1>3 DEF write_hex16
<1> QED
  BY <1>2, <1>4, HexDigitType

\* The four ways in which a character c is written, whose length is r.
AsShort(e, l) == e = [bytes |-> <<92, l>>, len |-> 1]
AsReplaced(e) == e = [bytes |-> Replacement, len |-> 1]
AsHex(e, g, h) == e = [bytes |-> <<92, 117, 48, 48, g, h>>, len |-> 1]
AsItIs(b, i, r, e) == e = [bytes |-> SubSeq(b, i, i + r - 1), len |-> r]

EmitForm(b, i, c, r, e) ==
  \/ c \in Shorts /\ \E l \in Letters : AsShort(e, l) /\ Unescaped(l) = {c}
  \/ r = 0 /\ c \notin Shorts /\ AsReplaced(e)
  \/ c < 31 /\ \E g, h \in Byte : AsHex(e, g, h) /\ HexValue(g) = c \div 16 /\ HexValue(h) = c % 16
  \/ r # 0 /\ c \notin Shorts /\ c >= 31 /\ AsItIs(b, i, r, e)

LEMMA SixBytes ==
  ASSUME NEW g \in Byte, NEW h \in Byte
  PROVE <<92, 117>> \o <<48, 48, g, h>> = <<92, 117, 48, 48, g, h>>
<1> PICK a : a = <<92, 117>>
  OBVIOUS
<1> PICK z : z = <<48, 48, g, h>>
  OBVIOUS
<1> PICK w : w = <<92, 117, 48, 48, g, h>>
  OBVIOUS
<1> PICK x : x = a \o z
  OBVIOUS
<1>1. /\ a \in Seq(Byte) /\ Len(a) = 2 /\ a[1] = 92 /\ a[2] = 117
      /\ z \in Seq(Byte) /\ Len(z) = 4 /\ z[1] = 48 /\ z[2] = 48 /\ z[3] = g /\ z[4] = h
      /\ w \in Seq(Byte) /\ Len(w) = 6
      /\ w[1] = 92 /\ w[2] = 117 /\ w[3] = 48 /\ w[4] = 48 /\ w[5] = g /\ w[6] = h
  BY DEF Byte
<1>2. /\ x \in Seq(Byte) /\ Len(x) = Len(a) + Len(z)
      /\ \A k \in 1..(Len(a) + Len(z)) : x[k] = IF k <= Len(a) THEN a[k] ELSE z[k - Len(a)]
  BY <1>1, ConcatProperties
<1>3. /\ Len(x) = 6
      /\ x[1] = 92 /\ x[2] = 117 /\ x[3] = 48 /\ x[4] = 48 /\ x[5] = g /\ x[6] = h
  BY ONLY <1>1, <1>2
<1>4. \A k \in 1..6 : x[k] = w[k]
  <2>1. 1..6 = {1, 2, 3, 4, 5, 6}
    OBVIOUS
  <2> QED
    BY ONLY <1>1, <1>3, <2>1
<1>5. x = w
  <2>1. Len(x) = Len(w) /\ \A k \in 1..Len(x) : x[k] = w[k]
    <3>1. Len(x) = 6 /\ Len(w) = 6
      BY ONLY <1>1, <1>3
    <3> QED
      BY ONLY <1>4, <3>1
  <2>2. x \in Seq(Byte) /\ w \in Seq(Byte)
    BY ONLY <1>1, <1>2
  <2> QED
    BY ONLY <2>1, <2>2, SeqEqual
<1> QED
  BY <1>5, Zenon

LEMMA EmitForms ==
  ASSUME NEW b \in Seq(Byte), NEW i \in 1..Len(b)
  PROVE EmitForm(b, i, b[i], utf8_validate_cz(b, i), emit_char(b, i))
<1>0. Len(b) \in Nat /\ i \in Nat \ {0}
  BY LenProperties
<1>1. PICK c \in Byte : c = b[i] /\ ByteAt(b, i) = c
  BY <1>0, ByteAtType
<1>2. PICK r : r = utf8_validate_cz(b, i)
  OBVIOUS
<1> SUFFICES EmitForm(b, i, c, r, emit_char(b, i))
  BY <1>1, <1>2
<1>3. CASE c \in Shorts
  <2>1. PICK l \in Letters : Escaped(c) = {l} /\ Unescaped(l) = {c}
    BY <1>3, ShortEscape
  <2>2. Escaped(c) # {} /\ (CHOOSE x \in Escaped(c) : TRUE) = l
    BY <2>1
  <2>3. emit_char(b, i) = [bytes |-> <<92, l>>, len |-> 1]
    BY <1>1, <2>2 DEF emit_char, Backslash
  <2> QED
    BY <1>3, <2>1, <2>3, Zenon DEF EmitForm, AsShort
<1>4. CASE c \notin Shorts /\ r = 0
  <2>1. Escaped(c) = {}
    BY <1>4, ShortEscape
  <2>2. emit_char(b, i) = [bytes |-> Replacement, len |-> 1]
    BY <1>1, <1>2, <1>4, <2>1 DEF emit_char
  <2> QED
    BY <1>4, <2>2, Zenon DEF EmitForm, AsReplaced
<1>5. CASE c \notin Shorts /\ r # 0 /\ c < 31
  <2>1. Escaped(c) = {}
    BY <1>5, ShortEscape
  <2>2. utf8_read_char(b, i) = c
    <3>1. c <= 127 /\ c \notin 128..223 /\ c \notin 224..239
      BY <1>5 DEF Byte
    <3> QED
      BY <1>1, <3>1, SMT DEF utf8_read_char
  <2>3. emit_char(b, i) = [bytes |-> <<92, 117>> \o write_hex16(c), len |-> 1]
    BY <1>1, <1>2, <1>5, <2>1, <2>2 DEF emit_char, Backslash
  <2>4. PICK g, h \in Byte : /\ write_hex16(c) = <<48, 48, g, h>>
                             /\ HexValue(g) = c \div 16 /\ HexValue(h) = c % 16
    <3>1. c \in Octet
      BY DEF Byte, Octet
    <3> QED
      BY <3>1, WriteHex, Zenon
  <2>5. <<92, 117>> \o <<48, 48, g, h>> = <<92, 117, 48, 48, g, h>>
    BY SixBytes
  <2> QED
    BY <1>5, <2>3, <2>4, <2>5, Zenon DEF EmitForm, AsHex
<1>6. CASE c \notin Shorts /\ r # 0 /\ c >= 31
  <2>1. Escaped(c) = {} /\ ~(c < 31)
    BY <1>6, ShortEscape DEF Byte
  <2>2. emit_char(b, i) = [bytes |-> SubSeq(b, i, i + r - 1), len |-> r]
    BY <1>1, <1>2, <1>6, <2>1 DEF emit_char
  <2> QED
    BY <1>6, <2>2, Zenon DEF EmitForm, AsItIs
<1> QED
  BY <1>3, <1>4, <1>5, <1>6 DEF Byte

(***************************************************************************)
(* What parse_string makes of a character.                                 *)
(***************************************************************************)

\* One valid character, and nothing more.
OneChar(t) == t \in Seq(Byte) /\ Len(t) \in 1..4 /\ utf8_validate_cz(t, 1) = Len(t)

LEMMA OneByteChar ==
  ASSUME NEW c \in 1..127
  PROVE OneChar(<<c>>)
<1> PICK t : t = <<c>>
  OBVIOUS
<1>1. t \in Seq(Byte) /\ Len(t) = 1 /\ t[1] = c
  BY DEF Byte
<1>2. PICK r \in 0..4, x, d, e, f \in Octet : Look(t, 1, r, x, d, e, f)
  <2>1. t \in Seq(Byte) /\ 1 \in Nat \ {0}
    BY <1>1
  <2> QED
    BY <2>1, ValidateCases, Zenon
<1>3. x = ByteAt(t, 1) /\ r = utf8_validate_cz(t, 1) /\ (r = 1 <=> One(x))
  BY <1>2, Zenon DEF Look, Lengths
<1>4. x = c
  BY <1>1, <1>3 DEF ByteAt
<1>5. One(x)
  BY <1>4 DEF One
<1> QED
  BY <1>1, <1>3, <1>5 DEF OneChar

LEMMA TwoByteChar ==
  ASSUME NEW c \in Byte, NEW d \in Byte, Two(c, d)
  PROVE OneChar(<<c, d>>)
<1> PICK t : t = <<c, d>>
  OBVIOUS
<1>1. t \in Seq(Byte) /\ Len(t) = 2 /\ t[1] = c /\ t[2] = d
  OBVIOUS
<1>2. PICK r \in 0..4, x, y, e, f \in Octet : Look(t, 1, r, x, y, e, f)
  <2>1. t \in Seq(Byte) /\ 1 \in Nat \ {0}
    BY <1>1
  <2> QED
    BY <2>1, ValidateCases, Zenon
<1>3. /\ x = ByteAt(t, 1) /\ y = ByteAt(t, 1 + 1)
      /\ r = utf8_validate_cz(t, 1) /\ (r = 2 <=> Two(x, y))
  BY <1>2, Zenon DEF Look, Lengths
<1>4. x = c /\ y = d
  BY <1>1, <1>3 DEF ByteAt
<1>5. r = 2
  BY <1>3, <1>4, Zenon
<1> QED
  BY <1>1, <1>3, <1>5 DEF OneChar

LEMMA ThreeByteChar ==
  ASSUME NEW c \in Byte, NEW d \in Byte, NEW e \in Byte, Three(c, d, e)
  PROVE OneChar(<<c, d, e>>)
<1> PICK t : t = <<c, d, e>>
  OBVIOUS
<1>1. t \in Seq(Byte) /\ Len(t) = 3 /\ t[1] = c /\ t[2] = d /\ t[3] = e
  OBVIOUS
<1>2. PICK r \in 0..4, x, y, z, f \in Octet : Look(t, 1, r, x, y, z, f)
  <2>1. t \in Seq(Byte) /\ 1 \in Nat \ {0}
    BY <1>1
  <2> QED
    BY <2>1, ValidateCases, Zenon
<1>3. /\ x = ByteAt(t, 1) /\ y = ByteAt(t, 1 + 1) /\ z = ByteAt(t, 1 + 2)
      /\ r = utf8_validate_cz(t, 1) /\ (r = 3 <=> Three(x, y, z))
  BY <1>2, Zenon DEF Look, Lengths
<1>4. x = c /\ y = d /\ z = e
  BY <1>1, <1>3 DEF ByteAt
<1>5. r = 3
  BY <1>3, <1>4, Zenon
<1> QED
  BY <1>1, <1>3, <1>5 DEF OneChar

LEMMA FourByteChar ==
  ASSUME NEW c \in Byte, NEW d \in Byte, NEW e \in Byte, NEW f \in Byte, Four(c, d, e, f)
  PROVE OneChar(<<c, d, e, f>>)
<1> PICK t : t = <<c, d, e, f>>
  OBVIOUS
<1>1. t \in Seq(Byte) /\ Len(t) = 4 /\ t[1] = c /\ t[2] = d /\ t[3] = e /\ t[4] = f
  OBVIOUS
<1>2. PICK r \in 0..4, x, y, z, w \in Octet : Look(t, 1, r, x, y, z, w)
  <2>1. t \in Seq(Byte) /\ 1 \in Nat \ {0}
    BY <1>1
  <2> QED
    BY <2>1, ValidateCases, Zenon
<1>3. /\ x = ByteAt(t, 1) /\ y = ByteAt(t, 1 + 1) /\ z = ByteAt(t, 1 + 2) /\ w = ByteAt(t, 1 + 3)
      /\ r = utf8_validate_cz(t, 1) /\ (r = 4 <=> Four(x, y, z, w))
  BY <1>2, Zenon DEF Look, Lengths
<1>4. x = c /\ y = d /\ z = e /\ w = f
  BY <1>1, <1>3 DEF ByteAt
<1>5. r = 4
  BY <1>3, <1>4, Zenon
<1> QED
  BY <1>1, <1>3, <1>5 DEF OneChar

\* The bytes of a code point are a character.
LEMMA WriteValid ==
  ASSUME NEW u \in Nat \ {0}, CodePoint(u)
  PROVE OneChar(utf8_write_char(u))
<1>1. CASE u <= 127
  <2>1. u \in 1..127
    BY <1>1
  <2>2. ~(u > 127) /\ ~(u > 2047)
    BY <1>1
  <2>3. utf8_write_char(u) = <<u>>
    BY <1>1, <2>2, SMT DEF utf8_write_char
  <2> QED
    BY <2>1, <2>3, OneByteChar, Zenon
<1>2. CASE u > 127 /\ u <= 2047
  <2>1. PICK c : c = 192 + (u \div 64)
    OBVIOUS
  <2>2. PICK d : d = 128 + ((u \div 1) % 64)
    OBVIOUS
  <2>3. ~(u <= 127) /\ u > 127 /\ u <= 2047 /\ ~(u > 2047)
    BY <1>2, SMT
  <2>4. utf8_write_char(u) = <<c, d>>
    BY <2>1, <2>2, <2>3, SMT DEF utf8_write_char
  <2>5. c \in 194..223 /\ d \in 128..191
    BY <1>2, <2>1, <2>2
  <2>6. c \in Byte /\ d \in Byte /\ Two(c, d)
    BY <2>5 DEF Byte, Two
  <2> QED
    BY <2>4, <2>6, TwoByteChar, Zenon
<1>3. CASE u > 2047 /\ u <= 65535
  <2>1. PICK c : c = 224 + (u \div 4096)
    OBVIOUS
  <2>2. PICK d : d = 128 + ((u \div 64) % 64)
    OBVIOUS
  <2>3. PICK e : e = 128 + ((u \div 1) % 64)
    OBVIOUS
  <2>4. ~(u <= 127) /\ ~(u <= 2047) /\ u > 2047 /\ u <= 65535
    BY <1>3, SMT
  <2>5. utf8_write_char(u) = <<c, d, e>>
    BY <2>1, <2>2, <2>3, <2>4, SMT DEF utf8_write_char
  <2>6. c \in 224..239 /\ d \in 128..191 /\ e \in 128..191
    BY <1>3, <2>1, <2>2, <2>3
  <2>7. c = 224 => d >= 160
    BY <1>3, <2>1, <2>2
  <2>8. c = 237 => d <= 159
    BY <1>3, <2>1, <2>2 DEF CodePoint, Surrogate
  <2>9. c \in Byte /\ d \in Byte /\ e \in Byte /\ Three(c, d, e)
    BY <2>6, <2>7, <2>8 DEF Byte, Three
  <2> QED
    BY <2>5, <2>9, ThreeByteChar, Zenon
<1>4. CASE u > 65535
  <2>1. PICK c : c = 240 + (u \div 262144)
    OBVIOUS
  <2>2. PICK d : d = 128 + ((u \div 4096) % 64)
    OBVIOUS
  <2>3. PICK e : e = 128 + ((u \div 64) % 64)
    OBVIOUS
  <2>4. PICK f : f = 128 + ((u \div 1) % 64)
    OBVIOUS
  <2>5. ~(u <= 127) /\ ~(u <= 2047) /\ ~(u <= 65535)
    BY <1>4, SMT
  <2>6. utf8_write_char(u) = <<c, d, e, f>>
    BY <2>1, <2>2, <2>3, <2>4, <2>5, SMT DEF utf8_write_char
  <2>7. c \in 240..244 /\ d \in 128..191 /\ e \in 128..191 /\ f \in 128..191
    BY <1>4, <2>1, <2>2, <2>3, <2>4 DEF CodePoint, Surrogate
  <2>8. c = 240 => d >= 144
    BY <1>4, <2>1, <2>2
  <2>9. c = 244 => d <= 143
    BY <1>4, <2>1, <2>2 DEF CodePoint, Surrogate
  <2>10. c \in Byte /\ d \in Byte /\ e \in Byte /\ f \in Byte /\ Four(c, d, e, f)
    BY <2>7, <2>8, <2>9 DEF Byte, Four
  <2> QED
    BY <2>6, <2>10, FourByteChar, Zenon
<1>5. u <= 127 \/ (u > 127 /\ u <= 2047) \/ (u > 2047 /\ u <= 65535) \/ u > 65535
  OBVIOUS
<1> QED
  BY <1>1, <1>2, <1>3, <1>4, <1>5, SMT

LEMMA UnescapedOne ==
  ASSUME NEW c, Unescaped(c) # {}
  PROVE \E u \in 1..127 : Unescaped(c) = {u}
<1> DEFINE All == ShortEscapes \cup {<<47, 47>>}
<1>1. \A e \in All : e[2] \in 1..127
  BY EscapePairs
<1>2. \A e, f \in All : e[1] = f[1] => e[2] = f[2]
  BY EscapePairs
<1>3. Unescaped(c) = {e[2] : e \in {f \in All : f[1] = c}}
  BY DEF Unescaped
<1> HIDE DEF All
<1>4. PICK e \in All : e[1] = c
  BY <1>3
<1>5. Unescaped(c) = {e[2]}
  BY <1>2, <1>3, <1>4
<1> QED
  BY <1>1, <1>4, <1>5

LEMMA HexValueType ==
  ASSUME NEW c \in Octet
  PROVE HexValue(c) \in -1..15 /\ (HexValue(c) # -1 => c # 0)
BY DEF HexValue, Octet

\* Four digits are within their text, and a number of 16 bits.
LEMMA ParseHex ==
  ASSUME NEW b \in Seq(Byte), NEW i \in Nat \ {0}
  PROVE LET u == parse_hex16(b, i)
        IN \/ u = -1
           \/ u \in Nat /\ u <= 65535 /\ i + 3 <= Len(b)
<1> DEFINE v(k) == HexValue(ByteAt(b, i + k))
<1>1. \A k \in 0..3 : v(k) \in -1..15 /\ (v(k) # -1 => i + k <= Len(b))
  <2> SUFFICES ASSUME NEW k \in 0..3
               PROVE v(k) \in -1..15 /\ (v(k) # -1 => i + k <= Len(b))
    OBVIOUS
  <2>1. i + k \in Nat \ {0}
    OBVIOUS
  <2>2. ByteAt(b, i + k) \in Octet /\ (ByteAt(b, i + k) = 0 <=> i + k > Len(b))
    BY <2>1, ByteAtType
  <2>3. v(k) \in -1..15 /\ (v(k) # -1 => ByteAt(b, i + k) # 0)
    BY <2>2, HexValueType
  <2>4. Len(b) \in Nat
    BY LenProperties
  <2> QED
    BY <2>2, <2>3, <2>4
<1>2. parse_hex16(b, i) = IF \E k \in 0..3 : v(k) = -1 THEN -1
                          ELSE v(0) * 4096 + v(1) * 256 + v(2) * 16 + v(3)
  BY Zenon DEF parse_hex16
<1> HIDE DEF v
<1>3. CASE \E k \in 0..3 : v(k) = -1
  BY <1>2, <1>3
<1>4. CASE ~ \E k \in 0..3 : v(k) = -1
  <2>1. /\ v(0) \in 0..15 /\ v(1) \in 0..15 /\ v(2) \in 0..15 /\ v(3) \in 0..15
        /\ i + 3 <= Len(b)
    BY <1>1, <1>4
  <2>2. parse_hex16(b, i) = v(0) * 4096 + v(1) * 256 + v(2) * 16 + v(3)
    BY <1>2, <1>4, SMTT(40)
  <2>3. PICK x \in 0..15, y \in 0..15, z \in 0..15, w \in 0..15 :
             x = v(0) /\ y = v(1) /\ z = v(2) /\ w = v(3)
    BY <2>1
  <2>4. PICK u : u = parse_hex16(b, i)
    OBVIOUS
  <2>5. u = x * 4096 + y * 256 + z * 16 + w
    BY <2>2, <2>3, <2>4
  <2>6. u \in Nat /\ u <= 65535
    BY ONLY <2>5, SMT
  <2> QED
    BY <2>1, <2>4, <2>6
<1> QED
  BY <1>3, <1>4

\* The character that was read, within its text, if it was not refused.
Accepted(b, i, e) == /\ OneChar(e.bytes)
                     /\ e.next \in Nat /\ i < e.next /\ e.next <= Len(b) + 1

LEMMA FromPair ==
  ASSUME NEW uc \in Int, NEW lc \in Int, from_surrogate_pair(uc, lc) # -1
  PROVE from_surrogate_pair(uc, lc) \in Nat \ {0} /\ CodePoint(from_surrogate_pair(uc, lc))
<1>1. PICK h \in 0..1023 : h = uc % 1024
  OBVIOUS
<1>2. PICK l \in 0..1023 : l = lc % 1024
  OBVIOUS
<1>3. PICK u : u = from_surrogate_pair(uc, lc)
  OBVIOUS
<1>4. u = 65536 + h * 1024 + l
  BY <1>1, <1>2, <1>3, SMT DEF from_surrogate_pair
<1>5. u \in Nat /\ u >= 65536 /\ u <= 1114111
  BY <1>1, <1>2, <1>4, SMT
<1>6. CodePoint(u)
  BY <1>5, SMT DEF CodePoint, Surrogate
<1>7. u # 0
  BY <1>5, SMT
<1> QED
  BY <1>3, <1>5, <1>6, <1>7

LEMMA ParseUnicode ==
  ASSUME NEW b \in Seq(Byte), NEW i \in Nat \ {0}
  PROVE LET e == parse_unicode(b, i) IN e = Failure \/ Accepted(b, i, e)
<1>1. PICK uc : uc = parse_hex16(b, i)
  OBVIOUS
<1>2. PICK lc : lc = parse_hex16(b, i + 6)
  OBVIOUS
<1>3. i + 6 \in Nat \ {0} /\ Len(b) \in Nat
  BY LenProperties
<1>4. uc = -1 \/ (uc \in Nat /\ uc <= 65535 /\ i + 3 <= Len(b))
  BY <1>1, ParseHex
<1>5. lc = -1 \/ (lc \in Nat /\ lc <= 65535 /\ i + 6 + 3 <= Len(b))
  BY <1>2, <1>3, ParseHex
<1>6. CASE uc \in {-1, 0}
  <2>1. ~Surrogate(uc)
    BY <1>6, SMT DEF Surrogate
  <2>2. parse_unicode(b, i) = Failure
    BY <1>1, <1>6, <2>1, Zenon DEF parse_unicode
  <2> QED
    BY <2>2
<1>7. CASE uc \notin {-1, 0} /\ Surrogate(uc)
  <2>1. PICK u : u = from_surrogate_pair(uc, lc)
    OBVIOUS
  <2>2. PICK paired : paired = (ByteAt(b, i + 4) = Backslash /\ ByteAt(b, i + 5) = 117 /\ lc # -1)
    OBVIOUS
  <2>3. parse_unicode(b, i) = IF paired /\ u # -1
                              THEN [bytes |-> utf8_write_char(u), next |-> i + 10] ELSE Failure
    BY <1>1, <1>2, <1>7, <2>1, <2>2, Zenon DEF parse_unicode
  <2>4. paired => i + 9 <= Len(b)
    <3>1. CASE lc = -1
      BY <2>2, <3>1
    <3>2. CASE lc \in Nat /\ i + 6 + 3 <= Len(b)
      BY <1>3, <3>2
    <3> QED
      BY <1>5, <3>1, <3>2
  <2>5. u # -1 => u \in Nat \ {0} /\ CodePoint(u)
    BY <1>4, <1>5, <2>1, FromPair
  <2>6. u # -1 => OneChar(utf8_write_char(u))
    BY <2>5, WriteValid
  <2> QED
    BY <1>3, <2>3, <2>4, <2>6 DEF Accepted
<1>8. CASE uc \notin {-1, 0} /\ ~Surrogate(uc)
  <2>1. parse_unicode(b, i) = [bytes |-> utf8_write_char(uc), next |-> i + 4]
    BY <1>1, <1>8, Zenon DEF parse_unicode
  <2>2. uc \in Nat \ {0} /\ CodePoint(uc) /\ i + 3 <= Len(b)
    BY <1>4, <1>8, SMT DEF CodePoint
  <2>3. OneChar(utf8_write_char(uc))
    BY <2>2, WriteValid
  <2> QED
    BY <1>3, <2>1, <2>2, <2>3 DEF Accepted
<1> QED
  BY <1>6, <1>7, <1>8

\* A valid character by itself.
LEMMA SubChar ==
  ASSUME NEW b \in Seq(Byte), NEW i \in 1..Len(b), utf8_validate_cz(b, i) # 0
  PROVE LET r == utf8_validate_cz(b, i)
            t == SubSeq(b, i, i + r - 1)
        IN OneChar(t) /\ Len(t) = r /\ \A k \in 1..r : t[k] = b[i + k - 1]
<1>0. Len(b) \in Nat /\ i \in Nat \ {0} /\ i <= Len(b)
  BY LenProperties
<1>1. PICK r \in 1..4 : r = utf8_validate_cz(b, i)
  BY <1>0, CharFits
<1>2. i + r - 1 <= Len(b)
  BY <1>0, <1>1, CharFits
<1>3. PICK t : t = SubSeq(b, i, i + r - 1)
  OBVIOUS
<1>4. t \in Seq(Byte) /\ Len(t) = r /\ \A k \in 1..r : t[k] = b[i + k - 1]
  <2>1. i + r - 1 \in i..Len(b)
    BY <1>0, <1>2
  <2> QED
    BY <1>0, <1>3, <2>1, SubSeqProperties
<1>5. SameBytes(t, 1, b, i, r)
  <2> SUFFICES ASSUME NEW k \in 0..(r - 1)
               PROVE ByteAt(t, 1 + k) = ByteAt(b, i + k)
    BY Zenon DEF SameBytes
  <2>1. 1 + k \in 1..r /\ 1 + k <= Len(t) /\ i + k <= Len(b)
    BY <1>0, <1>2, <1>4
  <2>2. t[1 + k] = b[i + (1 + k) - 1]
    BY <1>4, <2>1
  <2>3. i + (1 + k) - 1 = i + k
    BY <1>0
  <2> QED
    BY <2>1, <2>2, <2>3 DEF ByteAt
<1>6. utf8_validate_cz(t, 1) = r
  <2>1. 1 \in Nat \ {0}
    OBVIOUS
  <2> QED
    BY <1>0, <1>1, <1>4, <1>5, <2>1, SameChar
<1> QED
  BY <1>1, <1>3, <1>4, <1>6 DEF OneChar

\* parse_string refuses a character, or takes one within its text.
LEMMA ParseChar ==
  ASSUME NEW b \in Seq(Byte), NEW i \in 1..(Len(b) + 1)
  PROVE LET e == parse_char(b, i) IN e = Failure \/ Accepted(b, i, e)
<1>0. Len(b) \in Nat /\ i \in Nat \ {0} /\ i + 1 \in Nat \ {0} /\ i + 2 \in Nat \ {0}
  BY LenProperties
<1>1. PICK c \in Octet : c = ByteAt(b, i) /\ (c = 0 <=> i > Len(b))
  BY <1>0, ByteAtType
<1>2. PICK d \in Octet : d = ByteAt(b, i + 1) /\ (d = 0 <=> i + 1 > Len(b))
  BY <1>0, ByteAtType
<1>3. PICK r : r = utf8_validate_cz(b, i)
  OBVIOUS
<1>4. CASE c = Backslash /\ d = 117
  <2>1. parse_char(b, i) = parse_unicode(b, i + 2)
    BY <1>1, <1>2, <1>4 DEF parse_char
  <2>2. parse_unicode(b, i + 2) = Failure \/ Accepted(b, i + 2, parse_unicode(b, i + 2))
    BY <1>0, ParseUnicode
  <2> QED
    BY <1>0, <2>1, <2>2 DEF Accepted
<1>5. CASE c = Backslash /\ d # 117 /\ Unescaped(d) = {}
  BY <1>1, <1>2, <1>5 DEF parse_char
<1>6. CASE c = Backslash /\ d # 117 /\ Unescaped(d) # {}
  <2>1. PICK u \in 1..127 : Unescaped(d) = {u}
    BY <1>6, UnescapedOne
  <2>2. (CHOOSE x \in Unescaped(d) : TRUE) = u
    BY <2>1
  <2>3. parse_char(b, i) = [bytes |-> <<u>>, next |-> i + 2]
    BY <1>1, <1>2, <1>6, <2>2 DEF parse_char
  <2>4. d # 0
    BY <1>6, EscapePairs DEF Unescaped, Letters
  <2>5. OneChar(<<u>>)
    BY OneByteChar
  <2> QED
    BY <1>0, <1>2, <2>3, <2>4, <2>5 DEF Accepted
<1>7. CASE c # Backslash /\ (c <= 31 \/ r = 0)
  BY <1>1, <1>3, <1>7 DEF parse_char
<1>8. CASE c # Backslash /\ ~(c <= 31 \/ r = 0)
  <2>1. parse_char(b, i) = [bytes |-> SubSeq(b, i, i + r - 1), next |-> i + r]
    BY <1>1, <1>3, <1>8 DEF parse_char
  <2>2. i <= Len(b)
    BY <1>0, <1>1, <1>8 DEF Octet
  <2>3. OneChar(SubSeq(b, i, i + r - 1))
    BY <1>0, <1>3, <1>8, <2>2, SubChar
  <2>4. r \in 1..4 /\ i + r <= Len(b) + 1
    BY <1>0, <1>3, <1>8, <2>2, CharFits
  <2> QED
    BY <1>0, <2>1, <2>3, <2>4 DEF Accepted
<1> QED
  BY <1>4, <1>5, <1>6, <1>7, <1>8

(***************************************************************************)
(* The string buffer.                                                      *)
(***************************************************************************)

\* However far it has to grow, need bytes fit then.
LEMMA SbNeed ==
  ASSUME NEW length \in Nat, NEW capacity \in Nat, capacity >= SbInit, length <= capacity,
         NEW need \in 1..SbInit
  PROVE /\ sb_need(length, capacity, need) \in Nat
        /\ sb_need(length, capacity, need) >= SbInit
        /\ sb_need(length, capacity, need) >= length + need
<1>1. CASE capacity - length >= need
  <2>1. sb_need(length, capacity, need) = capacity
    BY <1>1 DEF sb_need
  <2> QED
    BY <1>1, <2>1
<1>2. CASE capacity - length < need
  <2> DEFINE Fits(m) == /\ capacity * m >= length + need
                        /\ \A j \in Doublings : j < m => capacity * j < length + need
  <2>1. Fits(2) /\ 2 \in Doublings
    BY DEF Doublings, SbInit
  <2>2. PICK m \in Doublings : m = (CHOOSE n \in Doublings : Fits(n)) /\ Fits(m)
    BY <2>1, Zenon
  <2>3. ~(capacity - length >= need)
    BY <1>2
  <2>4. sb_need(length, capacity, need) = capacity * m
    BY <2>2, <2>3, Zenon DEF sb_need
  <2>5. m \in Nat /\ m >= 1
    BY DEF Doublings
  <2>6. PICK p : p = capacity * m
    OBVIOUS
  <2>7. p \in Nat /\ p >= capacity
    BY <2>5, <2>6
  <2>8. p >= length + need
    BY <2>2, <2>6
  <2>9. sb_need(length, capacity, need) = p
    BY <2>4, <2>6
  <2>10. SbInit = 16
    BY DEF SbInit
  <2>11. p >= SbInit
    BY <2>7, <2>10
  <2> HIDE DEF Fits
  <2> QED
    BY <2>7, <2>8, <2>9, <2>11, Zenon
<1> QED
  BY <1>1, <1>2

LEMMA Few ==
  /\ \A x \in 1..6 : x \in Nat /\ x >= 1 /\ x <= 6
  /\ \A x \in 0..4 : x \in Nat /\ x <= 4
  /\ \A x \in 1..4 : x \in Nat /\ x >= 1 /\ x <= 4
OBVIOUS

LEMMA EmitBytes ==
  ASSUME NEW b \in Seq(Byte), NEW i \in 1..Len(b)
  PROVE LET e == emit_char(b, i)
        IN /\ e.bytes \in Seq(Byte) /\ Len(e.bytes) \in 1..6
           /\ e.len \in 1..4 /\ i + e.len <= Len(b) + 1
<1>0. Len(b) \in Nat /\ i \in Nat \ {0} /\ i <= Len(b)
  BY LenProperties
<1>1. PICK r : r = utf8_validate_cz(b, i)
  OBVIOUS
<1>2. PICK e : e = emit_char(b, i)
  OBVIOUS
<1>3. EmitForm(b, i, b[i], r, e)
  BY <1>1, <1>2, EmitForms
<1> DEFINE Good == /\ e.bytes \in Seq(Byte) /\ Len(e.bytes) \in 1..6
                   /\ e.len \in 1..4 /\ i + e.len <= Len(b) + 1
<1>4. 2 \in 1..6 /\ 3 \in 1..6 /\ 6 \in 1..6 /\ 1 \in 1..4 /\ i + 1 <= Len(b) + 1
  BY <1>0
<1>5. ASSUME NEW l \in Letters, AsShort(e, l)
      PROVE Good
  <2>1. l \in Byte /\ 92 \in Byte
    BY DEF Letters, Byte
  <2>2. <<92, l>> \in Seq(Byte) /\ Len(<<92, l>>) = 2
    BY <2>1
  <2>3. e.bytes = <<92, l>> /\ e.len = 1
    BY <1>5 DEF AsShort
  <2> QED
    BY <1>4, <2>2, <2>3, Zenon
<1>6. ASSUME AsReplaced(e) PROVE Good
  <2>1. Replacement \in Seq(Byte) /\ Len(Replacement) = 3
    BY DEF Replacement, Byte
  <2>2. e.bytes = Replacement /\ e.len = 1
    BY <1>6 DEF AsReplaced
  <2> QED
    BY <1>4, <2>1, <2>2, Zenon
<1>7. ASSUME NEW g \in Byte, NEW h \in Byte, AsHex(e, g, h)
      PROVE Good
  <2>1. <<92, 117, 48, 48, g, h>> \in Seq(Byte) /\ Len(<<92, 117, 48, 48, g, h>>) = 6
    BY DEF Byte
  <2>2. e.bytes = <<92, 117, 48, 48, g, h>> /\ e.len = 1
    BY <1>7 DEF AsHex
  <2> QED
    BY <1>4, <2>1, <2>2, Zenon
<1>8. ASSUME r # 0, AsItIs(b, i, r, e) PROVE Good
  <2>1. OneChar(SubSeq(b, i, i + r - 1))
    BY <1>1, <1>8, SubChar
  <2>2. r \in 1..4 /\ i + r <= Len(b) + 1
    BY <1>0, <1>1, <1>8, CharFits
  <2>3. e.bytes = SubSeq(b, i, i + r - 1) /\ e.len = r
    BY <1>8 DEF AsItIs
  <2>4. e.bytes \in Seq(Byte) /\ Len(e.bytes) \in 1..4
    BY <2>1, <2>3, Zenon DEF OneChar
  <2>5. \A n \in 1..4 : n \in 1..6
    OBVIOUS
  <2> QED
    BY <2>2, <2>3, <2>4, <2>5, Zenon
<1>9. Good
  <2> HIDE DEF Good
  <2> QED
    BY <1>3, <1>5, <1>6, <1>7, <1>8, Zenon DEF EmitForm
<1> QED
  BY <1>2, <1>9

(***************************************************************************)
(* The loops stay within their buffers.                                    *)
(***************************************************************************)
StringType ==
  /\ phase \in {"parse", "emit", "done", "failed"}
  /\ first \in BOOLEAN
  /\ input \in Seq(Byte)
  /\ s \in Nat \ {0}
  /\ s <= Len(input) + 1
  /\ out \in Seq(Byte)
  /\ decoded \in Seq(Byte)

\* What sb_need has made room for.
Room ==
  /\ alloc \in Nat
  /\ alloc >= SbInit
  /\ Len(out) <= alloc
  /\ phase = "emit" => Len(out) + 14 <= alloc
  /\ phase = "parse" => Len(out) + 4 <= alloc

BufferInv == StringType /\ Room

LEMMA BufferInit == Init => BufferInv
<1> SUFFICES ASSUME Init PROVE BufferInv
  OBVIOUS
<1>1. <<>> \in Seq(Byte) /\ Len(<<>>) = 0 /\ <<Quote>> \in Seq(Byte) /\ Len(<<Quote>>) = 1
  BY DEF Quote, Byte
<1>2. CASE phase = "emit" /\ input \in Strings /\ s = 1 /\ out = <<Quote>>
  <2>1. input \in Seq(Byte) /\ Len(input) \in Nat
    BY <1>2, StringAssumption, LenProperties DEF Byte
  <2>2. StringType
    BY <1>1, <1>2, <2>1 DEF Init, StringType
  <2>3. Room
    BY <1>1, <1>2 DEF Init, Room, SbInit
  <2> QED
    BY <2>2, <2>3 DEF BufferInv
<1>3. CASE phase = "parse" /\ input \in Texts /\ s = 2 /\ out = <<>>
  <2>1. input \in Seq(Byte) /\ Len(input) \in Nat /\ input # <<>>
    BY <1>3, StringAssumption, LenProperties DEF Byte
  <2>2. Len(input) # 0
    BY <2>1, EmptySeq
  <2>3. StringType
    BY <1>1, <1>3, <2>1, <2>2 DEF Init, StringType
  <2>4. Room
    BY <1>1, <1>3 DEF Init, Room, SbInit
  <2> QED
    BY <2>3, <2>4 DEF BufferInv
<1> QED
  BY <1>2, <1>3 DEF Init

LEMMA BufferNext == BufferInv /\ [Next]_vars => BufferInv'
<1> SUFFICES ASSUME BufferInv, [Next]_vars PROVE BufferInv'
  OBVIOUS
<1>0. Len(input) \in Nat /\ Len(out) \in Nat
  BY LenProperties DEF BufferInv, StringType
<1>1. CASE emit_string
  <2>1. PICK e : e = emit_char(input, s)
    OBVIOUS
  <2>2. s \in 1..Len(input) /\ input \in Seq(Byte) /\ out \in Seq(Byte)
    BY <1>0, <1>1 DEF emit_string, BufferInv, StringType
  <2>3. /\ e.bytes \in Seq(Byte) /\ Len(e.bytes) \in 1..6
        /\ e.len \in 1..4 /\ s + e.len <= Len(input) + 1
    BY <2>1, <2>2, EmitBytes
  <2>4. out' = out \o e.bytes /\ s' = s + e.len /\ alloc' = sb_need(Len(out'), alloc, 14)
    BY <1>1, <2>1 DEF emit_string
  <2>5. out' \in Seq(Byte) /\ Len(out') = Len(out) + Len(e.bytes)
    BY <2>2, <2>3, <2>4, ConcatProperties
  <2>6. phase = "emit" /\ alloc \in Nat /\ alloc >= SbInit /\ Len(out) + 14 <= alloc
    BY <1>1 DEF emit_string, BufferInv, Room
  <2>7. Len(out') \in Nat /\ Len(out') <= alloc /\ 14 \in 1..SbInit
    <3>1. 14 \in 1..SbInit
      BY DEF SbInit
    <3>2. PICK n \in Nat : n = Len(e.bytes) /\ n <= 6
      BY <2>3, Few, Zenon
    <3> QED
      BY <1>0, <2>5, <2>6, <3>1, <3>2
  <2>8. alloc' \in Nat /\ alloc' >= SbInit /\ alloc' >= Len(out') + 14
    BY <2>4, <2>6, <2>7, SbNeed
  <2>9. StringType'
    BY <1>0, <1>1, <2>2, <2>3, <2>4, <2>5, SMTT(40) DEF emit_string, BufferInv, StringType
  <2>10. Room'
    BY <1>1, <2>6, <2>7, <2>8 DEF emit_string, Room
  <2> QED
    BY <2>9, <2>10 DEF BufferInv
<1>2. CASE emit_end
  <2>1. /\ phase' = "parse" /\ first' = FALSE /\ s' = 2 /\ out' = <<>> /\ alloc' = SbInit
        /\ input' = Append(out, Quote) /\ decoded' = input
    BY <1>2 DEF emit_end
  <2>2. input' \in Seq(Byte) /\ Len(input') = Len(out) + 1
    <3>1. out \in Seq(Byte) /\ Quote \in Byte
      BY DEF BufferInv, StringType, Quote, Byte
    <3> QED
      BY <2>1, <3>1, AppendProperties
  <2>3. <<>> \in Seq(Byte) /\ Len(<<>>) = 0
    OBVIOUS
  <2>4. StringType'
    <3>1. input \in Seq(Byte) /\ s' \in Nat \ {0} /\ s' <= Len(out) + 2
      <4>1. s' = 2 /\ input \in Seq(Byte)
        BY <2>1 DEF BufferInv, StringType
      <4> QED
        BY <1>0, <4>1
    <3>2. s' <= Len(input') + 1
      BY <1>0, <2>2, <3>1
    <3> QED
      BY <2>1, <2>2, <2>3, <3>1, <3>2, Zenon DEF StringType
  <2>5. Room'
    BY <2>1, <2>3 DEF Room, SbInit
  <2> QED
    BY <2>4, <2>5 DEF BufferInv
<1>3. CASE parse_string
  <2>1. PICK e : e = parse_char(input, s)
    OBVIOUS
  <2>2. s \in 1..(Len(input) + 1) /\ input \in Seq(Byte) /\ out \in Seq(Byte)
    BY <1>0 DEF BufferInv, StringType
  <2>3. e = Failure \/ Accepted(input, s, e)
    BY <2>1, <2>2, ParseChar
  <2>4. CASE e # Failure
    <3>1. out' = out \o e.bytes /\ s' = e.next /\ alloc' = sb_need(Len(out'), alloc, 4) /\ phase' = phase
      BY <1>3, <2>1, <2>4 DEF parse_string
    <3>2. /\ e.bytes \in Seq(Byte) /\ Len(e.bytes) \in 1..4
          /\ e.next \in Nat /\ s < e.next /\ e.next <= Len(input) + 1
      BY <2>3, <2>4 DEF Accepted, OneChar
    <3>3. out' \in Seq(Byte) /\ Len(out') = Len(out) + Len(e.bytes)
      BY <2>2, <3>1, <3>2, ConcatProperties
    <3>4. phase = "parse" /\ alloc \in Nat /\ alloc >= SbInit /\ Len(out) + 4 <= alloc
      BY <1>3 DEF parse_string, BufferInv, Room
    <3>5. Len(out') \in Nat /\ Len(out') <= alloc /\ 4 \in 1..SbInit
      <4>1. 4 \in 1..SbInit
        BY DEF SbInit
      <4>2. PICK n \in Nat : n = Len(e.bytes) /\ n <= 4
        BY <3>2, Few, Zenon
      <4> QED
        BY <1>0, <3>3, <3>4, <4>1, <4>2
    <3>6. alloc' \in Nat /\ alloc' >= SbInit /\ alloc' >= Len(out') + 4
      BY <3>1, <3>4, <3>5, SbNeed
    <3>7. StringType'
      BY <1>0, <1>3, <2>2, <3>1, <3>2, <3>3 DEF parse_string, BufferInv, StringType
    <3>8. Room'
      BY <3>1, <3>4, <3>5, <3>6 DEF Room
    <3> QED
      BY <3>7, <3>8 DEF BufferInv
  <2>5. CASE e = Failure
    <3>1. phase' = "failed" /\ UNCHANGED <<first, input, s, out, alloc, decoded>>
      BY <1>3, <2>1, <2>5 DEF parse_string
    <3> QED
      BY <3>1 DEF BufferInv, StringType, Room
  <2> QED
    BY <2>4, <2>5
<1>4. CASE parse_end
  <2>1. CASE first
    <3>1. /\ phase' = "emit" /\ input' = out /\ s' = 1 /\ out' = <<Quote>> /\ alloc' = SbInit
          /\ first' = first /\ decoded' = decoded
      BY <1>4, <2>1 DEF parse_end
    <3>2. <<Quote>> \in Seq(Byte) /\ Len(<<Quote>>) = 1
      BY DEF Quote, Byte
    <3>3. StringType'
      BY <1>0, <3>1, <3>2 DEF BufferInv, StringType
    <3>4. Room'
      BY <3>1, <3>2 DEF Room, SbInit
    <3> QED
      BY <3>3, <3>4 DEF BufferInv
  <2>2. CASE ~first
    <3>1. phase' = "done" /\ UNCHANGED <<first, input, s, out, alloc, decoded>>
      BY <1>4, <2>2 DEF parse_end
    <3> QED
      BY <3>1 DEF BufferInv, StringType, Room
  <2> QED
    BY <2>1, <2>2
<1>5. CASE UNCHANGED vars
  BY <1>5 DEF vars, BufferInv, StringType, Room
<1> QED
  BY <1>1, <1>2, <1>3, <1>4, <1>5 DEF Next

LEMMA BufferAlways == Spec => []BufferInv
BY BufferInit, BufferNext, PTL DEF Spec

LEMMA BufferSuffices == BufferInv => InBounds
<1> SUFFICES ASSUME BufferInv PROVE InBounds
  OBVIOUS
<1>0. /\ Len(input) \in Nat /\ Len(out) \in Nat /\ input \in Seq(Byte)
      /\ s \in Nat \ {0} /\ s <= Len(input) + 1 /\ alloc \in Nat
  BY LenProperties DEF BufferInv, StringType, Room
<1>1. Len(out) <= alloc
  BY DEF BufferInv, Room
<1>2. ASSUME phase = "emit"
      PROVE Len(out) + (IF s <= Len(input) THEN Len(emit_char(input, s).bytes) ELSE 1) <= alloc
  <2>1. Len(out) + 14 <= alloc
    BY <1>2 DEF BufferInv, Room
  <2>2. CASE s <= Len(input)
    <3>1. s \in 1..Len(input)
      BY <1>0, <2>2
    <3>2. Len(emit_char(input, s).bytes) \in 1..6
      BY <1>0, <3>1, EmitBytes
    <3>3. PICK n \in Nat : n = Len(emit_char(input, s).bytes) /\ n <= 6
      BY <3>2, Few, Zenon
    <3>4. Len(out) + n <= alloc
      BY <1>0, <2>1, <3>3
    <3> QED
      BY <2>2, <3>3, <3>4
  <2>3. CASE ~(s <= Len(input))
    BY <1>0, <2>1, <2>3
  <2> QED
    BY <2>2, <2>3
<1>3. ASSUME phase = "parse"
      PROVE Len(out) + Len(parse_char(input, s).bytes) <= alloc
  <2>1. Len(out) + 4 <= alloc
    BY <1>3 DEF BufferInv, Room
  <2>2. Len(parse_char(input, s).bytes) \in 0..4
    <3>1. s \in 1..(Len(input) + 1)
      BY <1>0
    <3>2. parse_char(input, s) = Failure \/ Accepted(input, s, parse_char(input, s))
      BY <1>0, <3>1, ParseChar
    <3>3. Len(Failure.bytes) = 0
      BY DEF Failure
    <3> QED
      BY <3>2, <3>3 DEF Accepted, OneChar
  <2>3. PICK n \in Nat : n = Len(parse_char(input, s).bytes) /\ n <= 4
    BY <2>2, Few, Zenon
  <2>4. Len(out) + n <= alloc
    BY <1>0, <2>1, <2>3
  <2> QED
    BY <2>3, <2>4
<1> QED
  BY <1>0, <1>1, <1>2, <1>3 DEF InBounds

\* Whatever is encoded or decoded, emit_string and parse_string write within
\* their string buffers, room for the NUL included, and parse_string never
\* reads beyond the NUL of its text.
THEOREM StringsInBounds == Spec => []InBounds
BY BufferAlways, BufferSuffices, PTL

(***************************************************************************)
(* The validation against the definition of UTF-8.                         *)
(***************************************************************************)
Sums(f, b, i, n) ==
  f = [k \in 1..n |-> IF k = 1 THEN b[i] - Marks[n]
                      ELSE f[k - 1] * 64 + (b[i + k - 1] - 128)]

Steps(f, b, i, n) ==
  /\ Bits(b, i, n) = f[n]
  /\ f[1] = b[i] - Marks[n]
  /\ n >= 2 => f[2] = f[1] * 64 + (b[i + 1] - 128)
  /\ n >= 3 => f[3] = f[2] * 64 + (b[i + 2] - 128)
  /\ n >= 4 => f[4] = f[3] * 64 + (b[i + 3] - 128)

\* The recursion in Bits exists, and ends with the fourth byte.
LEMMA BitsSum ==
  ASSUME NEW b, NEW i \in Nat, NEW n \in 1..4
  PROVE \E f : Steps(f, b, i, n)
<1> PICK s1 : s1 = b[i] - Marks[n]
  OBVIOUS
<1> PICK s2 : s2 = s1 * 64 + (b[i + 1] - 128)
  OBVIOUS
<1> PICK s3 : s3 = s2 * 64 + (b[i + 2] - 128)
  OBVIOUS
<1> PICK s4 : s4 = s3 * 64 + (b[i + 3] - 128)
  OBVIOUS
<1> DEFINE g == [k \in 1..n |-> IF k = 1 THEN s1 ELSE IF k = 2 THEN s2 ELSE IF k = 3 THEN s3 ELSE s4]
<1>1. \A k \in 1..n : g[k] = IF k = 1 THEN b[i] - Marks[n] ELSE g[k - 1] * 64 + (b[i + k - 1] - 128)
  <2> SUFFICES ASSUME NEW k \in 1..n
               PROVE g[k] = IF k = 1 THEN b[i] - Marks[n]
                            ELSE g[k - 1] * 64 + (b[i + k - 1] - 128)
    OBVIOUS
  <2>1. CASE k = 1
    BY <2>1
  <2>2. CASE k = 2
    <3>1. g[2] = s2 /\ g[1] = s1 /\ k - 1 = 1 /\ i + k - 1 = i + 1
      BY <2>2
    <3> HIDE DEF g
    <3> QED
      BY <2>2, <3>1
  <2>3. CASE k = 3
    <3>1. g[3] = s3 /\ g[2] = s2 /\ k - 1 = 2 /\ i + k - 1 = i + 2
      BY <2>3
    <3> HIDE DEF g
    <3> QED
      BY <2>3, <3>1
  <2>4. CASE k = 4
    <3>1. g[4] = s4 /\ g[3] = s3 /\ k - 1 = 3 /\ i + k - 1 = i + 3
      BY <2>4
    <3> HIDE DEF g
    <3> QED
      BY <2>4, <3>1
  <2>5. k = 1 \/ k = 2 \/ k = 3 \/ k = 4
    OBVIOUS
  <2> QED
    BY <2>1, <2>2, <2>3, <2>4, <2>5
<1>2. Sums(g, b, i, n)
  <2>1. g = [k \in 1..n |-> g[k]]
    OBVIOUS
  <2> HIDE DEF g
  <2> QED
    BY <1>1, <2>1, ZenonT(60) DEF Sums
<1> HIDE DEF g
<1>3. PICK f : f = CHOOSE h : Sums(h, b, i, n)
  OBVIOUS
<1>4. Sums(f, b, i, n)
  BY <1>2, <1>3, Zenon
<1>5. Bits(b, i, n) = f[n]
  BY <1>3, Zenon DEF Bits, Sums
<1>6. \A k \in 1..n : f[k] = IF k = 1 THEN b[i] - Marks[n] ELSE f[k - 1] * 64 + (b[i + k - 1] - 128)
  BY <1>4, Zenon DEF Sums
<1>7. f[1] = b[i] - Marks[n]
  BY <1>6
<1>8. n >= 2 => f[2] = f[1] * 64 + (b[i + 1] - 128)
  <2>1. n >= 2 => 2 \in 1..n /\ 2 # 1 /\ 2 - 1 = 1 /\ i + 2 - 1 = i + 1
    OBVIOUS
  <2> QED
    BY <1>6, <2>1
<1>9. n >= 3 => f[3] = f[2] * 64 + (b[i + 2] - 128)
  <2>1. n >= 3 => 3 \in 1..n /\ 3 # 1 /\ 3 - 1 = 2 /\ i + 3 - 1 = i + 2
    OBVIOUS
  <2> QED
    BY <1>6, <2>1
<1>10. n >= 4 => f[4] = f[3] * 64 + (b[i + 3] - 128)
  <2>1. n >= 4 => 4 \in 1..n /\ 4 # 1 /\ 4 - 1 = 3 /\ i + 4 - 1 = i + 3
    OBVIOUS
  <2> QED
    BY <1>6, <2>1
<1> QED
  BY <1>5, <1>7, <1>8, <1>9, <1>10 DEF Steps

\* The code point of one to four bytes.
Point(n, c, d, e, f) ==
  CASE n = 1 -> c
    [] n = 2 -> (c - 192) * 64 + (d - 128)
    [] n = 3 -> ((c - 224) * 64 + (d - 128)) * 64 + (e - 128)
    [] n = 4 -> (((c - 240) * 64 + (d - 128)) * 64 + (e - 128)) * 64 + (f - 128)

LEMMA BitsPoint ==
  ASSUME NEW b \in Seq(Byte), NEW i \in 1..Len(b), NEW n \in 1..4, i + n - 1 <= Len(b)
  PROVE Bits(b, i, n) = Point(n, ByteAt(b, i), ByteAt(b, i + 1), ByteAt(b, i + 2), ByteAt(b, i + 3))
<1>0. i \in Nat \ {0} /\ i + 1 \in Nat \ {0} /\ i + 2 \in Nat \ {0} /\ i + 3 \in Nat \ {0} /\ Len(b) \in Nat
  BY LenProperties
<1>1. PICK c \in Octet : c = ByteAt(b, i) /\ b[i] = c
  BY <1>0, ByteAtType
<1>2. PICK d \in Octet : d = ByteAt(b, i + 1) /\ (n >= 2 => b[i + 1] = d)
  BY <1>0, ByteAtType
<1>3. PICK e \in Octet : e = ByteAt(b, i + 2) /\ (n >= 3 => b[i + 2] = e)
  BY <1>0, ByteAtType
<1>4. PICK g \in Octet : g = ByteAt(b, i + 3) /\ (n >= 4 => b[i + 3] = g)
  BY <1>0, ByteAtType
<1>5. PICK f : Steps(f, b, i, n)
  <2>1. i \in Nat
    BY <1>0
  <2> QED
    BY <2>1, BitsSum, Zenon
<1>6. Marks[1] = 0 /\ Marks[2] = 192 /\ Marks[3] = 224 /\ Marks[4] = 240
  BY DEF Marks
<1>7. n = 1 \/ n = 2 \/ n = 3 \/ n = 4
  OBVIOUS
<1> SUFFICES Bits(b, i, n) = Point(n, c, d, e, g)
  BY <1>1, <1>2, <1>3, <1>4
<1>8. CASE n = 1
  <2>1. f[1] = c
    BY <1>1, <1>5, <1>6, <1>8 DEF Octet, Steps
  <2> QED
    BY <1>5, <1>8, <2>1 DEF Point, Steps
<1>9. CASE n = 2
  <2>1. f[2] = (c - 192) * 64 + (d - 128)
    BY <1>1, <1>2, <1>5, <1>6, <1>9, SMTT(40) DEF Octet, Steps
  <2> QED
    BY <1>5, <1>9, <2>1 DEF Point, Steps
<1>10. CASE n = 3
  <2>1. f[3] = ((c - 224) * 64 + (d - 128)) * 64 + (e - 128)
    <3>1. b[i] = c /\ b[i + 1] = d /\ b[i + 2] = e
      BY <1>1, <1>2, <1>3, <1>10
    <3>2. f[1] = c - 224
      BY <1>5, <1>6, <1>10, <3>1 DEF Steps
    <3>3. f[2] = f[1] * 64 + (d - 128) /\ f[3] = f[2] * 64 + (e - 128)
      BY <1>5, <1>10, <3>1 DEF Steps
    <3> QED
      BY <3>2, <3>3, ZenonT(60)
  <2> QED
    BY <1>5, <1>10, <2>1 DEF Point, Steps
<1>11. CASE n = 4
  <2>1. f[4] = (((c - 240) * 64 + (d - 128)) * 64 + (e - 128)) * 64 + (g - 128)
    <3>1. b[i] = c /\ b[i + 1] = d /\ b[i + 2] = e /\ b[i + 3] = g
      BY <1>1, <1>2, <1>3, <1>4, <1>11
    <3>2. f[1] = c - 240
      BY <1>5, <1>6, <1>11, <3>1 DEF Steps
    <3>3. f[2] = f[1] * 64 + (d - 128) /\ f[3] = f[2] * 64 + (e - 128)
      BY <1>5, <1>11, <3>1 DEF Steps
    <3>4. f[4] = f[3] * 64 + (g - 128)
      BY <1>5, <1>11, <3>1 DEF Steps
    <3> QED
      BY <3>2, <3>3, <3>4 DEF Octet
  <2> QED
    BY <1>5, <1>11, <2>1 DEF Point, Steps
<1> QED
  BY <1>7, <1>8, <1>9, <1>10, <1>11

\* The definition of UTF-8 in terms of the bytes themselves.
WellFormed(n, c, d, e, f) ==
  /\ c \in Marks[n]..(Marks[n] + Payload[n] - 1)
  /\ n >= 2 => d \in 128..191
  /\ n >= 3 => e \in 128..191
  /\ n >= 4 => f \in 128..191
  /\ Point(n, c, d, e, f) >= Least[n]
  /\ CodePoint(Point(n, c, d, e, f))

LEMMA EncodedBytes ==
  ASSUME NEW b \in Seq(Byte), NEW i \in 1..Len(b), NEW n \in 1..4, i + n - 1 <= Len(b)
  PROVE Encoded(b, i, n) <=>
          WellFormed(n, ByteAt(b, i), ByteAt(b, i + 1), ByteAt(b, i + 2), ByteAt(b, i + 3))
<1>0. i \in Nat \ {0} /\ i + 1 \in Nat \ {0} /\ i + 2 \in Nat \ {0} /\ i + 3 \in Nat \ {0} /\ Len(b) \in Nat
  BY LenProperties
<1>1. PICK c : c = ByteAt(b, i) /\ b[i] = c
  BY <1>0, ByteAtType
<1>2. PICK d : d = ByteAt(b, i + 1) /\ (n >= 2 => b[i + 1] = d)
  BY <1>0, ByteAtType
<1>3. PICK e : e = ByteAt(b, i + 2) /\ (n >= 3 => b[i + 2] = e)
  BY <1>0, ByteAtType
<1>4. PICK g : g = ByteAt(b, i + 3) /\ (n >= 4 => b[i + 3] = g)
  BY <1>0, ByteAtType
<1>5. Bits(b, i, n) = Point(n, c, d, e, g)
  BY <1>1, <1>2, <1>3, <1>4, BitsPoint
<1>6. (\A k \in 1..(n - 1) : b[i + k] \in 128..191) <=>
        /\ n >= 2 => d \in 128..191
        /\ n >= 3 => e \in 128..191
        /\ n >= 4 => g \in 128..191
  <2> DEFINE High(x) == x \in 128..191
  <2>1. /\ n >= 2 => 1 \in 1..(n - 1)
        /\ n >= 3 => 2 \in 1..(n - 1)
        /\ n >= 4 => 3 \in 1..(n - 1)
        /\ \A k \in 1..(n - 1) : (k = 1 /\ n >= 2) \/ (k = 2 /\ n >= 3) \/ (k = 3 /\ n >= 4)
    OBVIOUS
  <2> HIDE DEF High
  <2>2. (\A k \in 1..(n - 1) : High(b[i + k])) <=>
          /\ n >= 2 => High(d)
          /\ n >= 3 => High(e)
          /\ n >= 4 => High(g)
    BY <1>2, <1>3, <1>4, <2>1, Zenon
  <2> QED
    BY <2>2 DEF High
<1> SUFFICES Encoded(b, i, n) <=> WellFormed(n, c, d, e, g)
  BY <1>1, <1>2, <1>3, <1>4
<1> QED
  BY <1>1, <1>5, <1>6, Zenon DEF Encoded, WellFormed

LEMMA PointOne ==
  ASSUME NEW c \in Octet, NEW d, NEW e, NEW f
  PROVE WellFormed(1, c, d, e, f) <=> One(c)
<1>1. Point(1, c, d, e, f) = c
  BY DEF Point
<1>2. Marks[1] = 0 /\ Payload[1] = 128 /\ Least[1] = 0
  BY DEF Marks, Payload, Least
<1>3. WellFormed(1, c, d, e, f) <=> c \in 0..127 /\ c >= 0 /\ CodePoint(c)
  BY <1>1, <1>2 DEF WellFormed
<1>4. c \in 0..127 => CodePoint(c)
  BY SMT DEF CodePoint, Surrogate
<1> QED
  BY <1>3, <1>4 DEF Octet, One

LEMMA PointTwo ==
  ASSUME NEW c \in Octet, NEW d \in Octet, NEW e, NEW f
  PROVE WellFormed(2, c, d, e, f) <=> Two(c, d)
<1>0. PICK u : u = Point(2, c, d, e, f)
  OBVIOUS
<1>1. u = (c - 192) * 64 + (d - 128)
  BY <1>0 DEF Point
<1>2. Marks[2] = 192 /\ Payload[2] = 32 /\ Least[2] = 128
  BY DEF Marks, Payload, Least
<1>3. WellFormed(2, c, d, e, f) <=> c \in 192..223 /\ d \in 128..191 /\ u >= 128 /\ CodePoint(u)
  BY <1>0, <1>2 DEF WellFormed
<1>4. c \in 192..223 /\ d \in 128..191 => CodePoint(u)
  BY <1>1, SMT DEF CodePoint, Surrogate
<1>5. c \in 192..223 /\ d \in 128..191 => (u >= 128 <=> c >= 194)
  BY <1>1
<1> QED
  BY <1>3, <1>4, <1>5 DEF Octet, Two

LEMMA PointThree ==
  ASSUME NEW c \in Octet, NEW d \in Octet, NEW e \in Octet, NEW f
  PROVE WellFormed(3, c, d, e, f) <=> Three(c, d, e)
<1>0. PICK u : u = Point(3, c, d, e, f)
  OBVIOUS
<1>1. u = ((c - 224) * 64 + (d - 128)) * 64 + (e - 128)
  BY <1>0 DEF Point
<1>2. Marks[3] = 224 /\ Payload[3] = 16 /\ Least[3] = 2048
  BY SMT DEF Marks, Payload, Least
<1>3. WellFormed(3, c, d, e, f) <=>
        c \in 224..239 /\ d \in 128..191 /\ e \in 128..191 /\ u >= 2048 /\ CodePoint(u)
  BY <1>0, <1>2, SMT DEF WellFormed
<1> SUFFICES ASSUME c \in 224..239, d \in 128..191, e \in 128..191
             PROVE u >= 2048 /\ CodePoint(u) <=> (c = 224 => d >= 160) /\ (c = 237 => d <= 159)
  BY <1>3, SMT DEF Three
<1>4. u >= 2048 <=> (c = 224 => d >= 160)
  BY <1>1, SMT
<1>5. Surrogate(u) <=> c = 237 /\ d > 159
  BY <1>1, SMT DEF Surrogate
<1>6. u >= 0 /\ u <= 1114111
  BY <1>1, SMT
<1> QED
  BY <1>4, <1>5, <1>6, SMT DEF CodePoint

LEMMA PointFour ==
  ASSUME NEW c \in Octet, NEW d \in Octet, NEW e \in Octet, NEW f \in Octet
  PROVE WellFormed(4, c, d, e, f) <=> Four(c, d, e, f)
<1>0. PICK u : u = Point(4, c, d, e, f)
  OBVIOUS
<1>1. u = (((c - 240) * 64 + (d - 128)) * 64 + (e - 128)) * 64 + (f - 128)
  BY <1>0 DEF Point
<1>2. Marks[4] = 240 /\ Payload[4] = 8 /\ Least[4] = 65536
  BY SMT DEF Marks, Payload, Least
<1>3. WellFormed(4, c, d, e, f) <=>
        /\ c \in 240..247 /\ d \in 128..191 /\ e \in 128..191 /\ f \in 128..191
        /\ u >= 65536 /\ CodePoint(u)
  BY <1>0, <1>2, SMT DEF WellFormed
<1> SUFFICES ASSUME c \in 240..247, d \in 128..191, e \in 128..191, f \in 128..191
             PROVE u >= 65536 /\ CodePoint(u) <=>
                     c <= 244 /\ (c = 240 => d >= 144) /\ (c = 244 => d <= 143)
  BY <1>3, SMT DEF Four
<1>4. u >= 65536 <=> (c = 240 => d >= 144)
  BY <1>1, SMT
<1>5. u <= 1114111 <=> c <= 244 /\ (c = 244 => d <= 143)
  BY <1>1, SMT
<1>6. u >= 65536 => ~Surrogate(u) /\ u >= 0
  BY <1>1, SMT DEF Surrogate
<1> QED
  BY <1>4, <1>5, <1>6, SMT DEF CodePoint

LEMMA ValidIsEncoded ==
  ASSUME NEW b \in Seq(Byte), NEW i \in 1..Len(b), NEW n \in 1..4
  PROVE utf8_validate_cz(b, i) = n <=> Encoded(b, i, n)
<1>0. Len(b) \in Nat /\ i \in Nat \ {0}
  BY LenProperties
<1>1. PICK r \in 0..4, c, d, e, f \in Octet : Look(b, i, r, c, d, e, f)
  BY <1>0, ValidateCases
<1>2. /\ r = utf8_validate_cz(b, i)
      /\ c = ByteAt(b, i) /\ d = ByteAt(b, i + 1) /\ e = ByteAt(b, i + 2) /\ f = ByteAt(b, i + 3)
  BY <1>1, Zenon DEF Look
<1>3. CASE i + n - 1 <= Len(b)
  <2>1. Encoded(b, i, n) <=> WellFormed(n, c, d, e, f)
    BY <1>2, <1>3, EncodedBytes
  <2>2. n = 1 \/ n = 2 \/ n = 3 \/ n = 4
    OBVIOUS
  <2>3. /\ r = 1 <=> WellFormed(1, c, d, e, f)
        /\ r = 2 <=> WellFormed(2, c, d, e, f)
        /\ r = 3 <=> WellFormed(3, c, d, e, f)
        /\ r = 4 <=> WellFormed(4, c, d, e, f)
    <3>1. r = 1 <=> One(c)
      BY <1>1, Zenon DEF Look, Lengths
    <3>2. r = 2 <=> Two(c, d)
      BY <1>1, Zenon DEF Look, Lengths
    <3>3. r = 3 <=> Three(c, d, e)
      BY <1>1, Zenon DEF Look, Lengths
    <3>4. r = 4 <=> Four(c, d, e, f)
      BY <1>1, Zenon DEF Look, Lengths
    <3>5. /\ WellFormed(1, c, d, e, f) <=> One(c)
          /\ WellFormed(2, c, d, e, f) <=> Two(c, d)
      BY PointOne, PointTwo, Zenon
    <3>6. /\ WellFormed(3, c, d, e, f) <=> Three(c, d, e)
          /\ WellFormed(4, c, d, e, f) <=> Four(c, d, e, f)
      BY PointThree, PointFour, Zenon
    <3> QED
      BY <3>1, <3>2, <3>3, <3>4, <3>5, <3>6, Zenon
  <2> QED
    BY <1>2, <2>1, <2>2, <2>3, Zenon
<1>4. CASE ~(i + n - 1 <= Len(b))
  <2>1. ~Encoded(b, i, n)
    BY <1>4, Zenon DEF Encoded
  <2>2. r # n
    BY <1>0, <1>2, <1>4, CharFits
  <2> QED
    BY <1>2, <2>1, <2>2
<1> QED
  BY <1>3, <1>4

\* Wherever the loops look for a character, utf8_validate_cz finds one exactly
\* where the shortest encoding of a code point is, and its length.
THEOREM Validates == Spec => []ValidatesExactly
<1>1. BufferInv => ValidatesExactly
  <2> SUFFICES ASSUME BufferInv, s \in DOMAIN input, NEW n \in 1..4
               PROVE utf8_validate_cz(input, s) = n <=> Encoded(input, s, n)
    BY Zenon DEF ValidatesExactly
  <2>1. input \in Seq(Byte) /\ DOMAIN input = 1..Len(input)
    BY LenProperties DEF BufferInv, StringType
  <2> QED
    BY <2>1, ValidIsEncoded, Zenon
<1> QED
  BY <1>1, BufferAlways, PTL

(***************************************************************************)
(* Reading a character and writing it again.                               *)
(***************************************************************************)

\* The code point that utf8_read_char makes of the bytes.
ReadPoint(n, c, d, e, f) ==
  CASE n = 1 -> c
    [] n = 2 -> (c % 32) * 64 + (d % 64)
    [] n = 3 -> (c % 16) * 4096 + (d % 64) * 64 + (e % 64)
    [] n = 4 -> (c % 8) * 262144 + (d % 64) * 4096 + (e % 64) * 64 + (f % 64)

LEMMA ReadBytes ==
  ASSUME NEW b, NEW i, NEW n \in 1..4, NEW d, NEW e, NEW f,
         ByteAt(b, i) \in Octet,
         n = 1 => ByteAt(b, i) <= 127,
         n = 2 => ByteAt(b, i) \in 192..223,
         n = 3 => ByteAt(b, i) \in 224..239,
         n = 4 => ByteAt(b, i) \in 240..247,
         d = ByteAt(b, i + 1), e = ByteAt(b, i + 2), f = ByteAt(b, i + 3)
  PROVE utf8_read_char(b, i) = ReadPoint(n, ByteAt(b, i), d, e, f)
<1> PICK c \in Octet : c = ByteAt(b, i)
  OBVIOUS
<1>0. n = 1 \/ n = 2 \/ n = 3 \/ n = 4
  OBVIOUS
<1> SUFFICES utf8_read_char(b, i) = ReadPoint(n, c, d, e, f)
  OBVIOUS
<1>1. CASE n = 1
  <2>1. c <= 127 /\ c \notin 128..223 /\ c \notin 224..239
    BY <1>1
  <2>2. utf8_read_char(b, i) = c
    BY <2>1, SMT DEF utf8_read_char
  <2>3. ReadPoint(n, c, d, e, f) = c
    BY <1>1, SMT DEF ReadPoint
  <2> QED
    BY <2>2, <2>3
<1>2. CASE n = 2
  <2>1. ~(c <= 127) /\ c \in 128..223 /\ c \notin 224..239
    BY <1>2
  <2>2. utf8_read_char(b, i) = (c % 32) * 64 + (d % 64)
    BY <2>1, SMT DEF utf8_read_char
  <2>3. ReadPoint(n, c, d, e, f) = (c % 32) * 64 + (d % 64)
    BY <1>2, SMT DEF ReadPoint
  <2> QED
    BY <2>2, <2>3
<1>3. CASE n = 3
  <2>1. ~(c <= 127) /\ c \notin 128..223 /\ c \in 224..239
    BY <1>3
  <2>2. utf8_read_char(b, i) = (c % 16) * 4096 + (d % 64) * 64 + (e % 64)
    BY <2>1, SMT DEF utf8_read_char
  <2>3. ReadPoint(n, c, d, e, f) = (c % 16) * 4096 + (d % 64) * 64 + (e % 64)
    BY <1>3, SMT DEF ReadPoint
  <2> QED
    BY <2>2, <2>3, SMT
<1>4. CASE n = 4
  <2>1. ~(c <= 127) /\ c \notin 128..223 /\ c \notin 224..239
    BY <1>4
  <2>2. utf8_read_char(b, i) = (c % 8) * 262144 + (d % 64) * 4096 + (e % 64) * 64 + (f % 64)
    BY <2>1, SMT DEF utf8_read_char
  <2>3. ReadPoint(n, c, d, e, f) = (c % 8) * 262144 + (d % 64) * 4096 + (e % 64) * 64 + (f % 64)
    BY <1>4, SMT DEF ReadPoint
  <2> QED
    BY <2>2, <2>3, SMT
<1> QED
  BY <1>0, <1>1, <1>2, <1>3, <1>4

\* The n bytes of a character are what utf8_write_char makes of its point.
LEMMA WriteOne ==
  ASSUME NEW c \in 1..127
  PROVE utf8_write_char(c) = <<c>>
<1>1. c <= 127 /\ ~(c > 127) /\ ~(c > 2047)
  OBVIOUS
<1> QED
  BY <1>1, SMT DEF utf8_write_char

LEMMA WriteTwo ==
  ASSUME NEW c \in Octet, NEW d \in Octet, NEW e, NEW f, WellFormed(2, c, d, e, f)
  PROVE LET u == Point(2, c, d, e, f)
        IN utf8_write_char(u) = <<c, d>> /\ ReadPoint(2, c, d, e, f) = u
<1> PICK u : u = Point(2, c, d, e, f)
  OBVIOUS
<1>0. c \in 194..223 /\ d \in 128..191 /\ u = (c - 192) * 64 + (d - 128)
  <2>1. Two(c, d)
    BY PointTwo
  <2> QED
    BY <2>1 DEF Two, Point
<1>1. u \in Nat /\ ~(u <= 127) /\ u > 127 /\ u <= 2047 /\ ~(u > 2047)
  BY <1>0
<1>2. PICK x : x = 192 + (u \div 64)
  OBVIOUS
<1>3. PICK y : y = 128 + ((u \div 1) % 64)
  OBVIOUS
<1>4. utf8_write_char(u) = <<x, y>>
  BY <1>1, <1>2, <1>3, SMT DEF utf8_write_char
<1>5. x = c /\ y = d
  BY <1>0, <1>2, <1>3
<1>6. c % 32 = c - 192 /\ d % 64 = d - 128
  BY <1>0
<1>7. ReadPoint(2, c, d, e, f) = u
  BY <1>0, <1>6, SMT DEF ReadPoint
<1> QED
  BY <1>4, <1>5, <1>7, Zenon

LEMMA WriteThree ==
  ASSUME NEW c \in Octet, NEW d \in Octet, NEW e \in Octet, NEW f, WellFormed(3, c, d, e, f)
  PROVE LET u == Point(3, c, d, e, f)
        IN utf8_write_char(u) = <<c, d, e>> /\ ReadPoint(3, c, d, e, f) = u
<1> PICK u : u = Point(3, c, d, e, f)
  OBVIOUS
<1>0. /\ c \in 224..239 /\ d \in 128..191 /\ e \in 128..191
      /\ u = ((c - 224) * 64 + (d - 128)) * 64 + (e - 128) /\ u >= 2048
  <2>1. Three(c, d, e)
    BY PointThree, Zenon
  <2>2. Least[3] = 2048
    BY SMT DEF Least
  <2>3. u >= 2048
    BY <2>2, SMT DEF WellFormed
  <2> QED
    BY <2>1, <2>3, SMT DEF Three, Point
<1>1. u \in Nat /\ ~(u <= 127) /\ ~(u <= 2047) /\ u > 2047 /\ u <= 65535
  BY <1>0, SMT
<1>2. PICK x : x = 224 + (u \div 4096)
  OBVIOUS
<1>3. PICK y : y = 128 + ((u \div 64) % 64)
  OBVIOUS
<1>4. PICK z : z = 128 + ((u \div 1) % 64)
  OBVIOUS
<1>5. utf8_write_char(u) = <<x, y, z>>
  BY <1>1, <1>2, <1>3, <1>4, SMT DEF utf8_write_char
<1>6. x = c /\ y = d /\ z = e
  BY <1>0, <1>2, <1>3, <1>4, SMT
<1>7. c % 16 = c - 224 /\ d % 64 = d - 128 /\ e % 64 = e - 128
  BY <1>0
<1>8. ReadPoint(3, c, d, e, f) = u
  BY <1>0, <1>7, SMT DEF ReadPoint
<1> QED
  BY <1>5, <1>6, <1>8, Zenon

LEMMA WriteFour ==
  ASSUME NEW c \in Octet, NEW d \in Octet, NEW e \in Octet, NEW f \in Octet,
         WellFormed(4, c, d, e, f)
  PROVE LET u == Point(4, c, d, e, f)
        IN /\ utf8_write_char(u) = <<c, d, e, f>> /\ ReadPoint(4, c, d, e, f) = u
           /\ u \in Nat /\ u >= 65536 /\ u <= 1114111
<1> PICK u : u = Point(4, c, d, e, f)
  OBVIOUS
<1>0. /\ c \in 240..244 /\ d \in 128..191 /\ e \in 128..191 /\ f \in 128..191
      /\ u = (((c - 240) * 64 + (d - 128)) * 64 + (e - 128)) * 64 + (f - 128)
      /\ u >= 65536 /\ u <= 1114111
  <2>1. Four(c, d, e, f)
    BY PointFour, Zenon
  <2>2. Least[4] = 65536
    BY SMT DEF Least
  <2>3. u >= 65536 /\ u <= 1114111
    BY <2>2, SMT DEF WellFormed, CodePoint
  <2> QED
    BY <2>1, <2>3, SMT DEF Four, Point
<1>1. u \in Nat /\ ~(u <= 127) /\ ~(u <= 2047) /\ ~(u <= 65535)
  BY <1>0, SMT
<1>2. PICK x : x = 240 + (u \div 262144)
  OBVIOUS
<1>3. PICK y : y = 128 + ((u \div 4096) % 64)
  OBVIOUS
<1>4. PICK z : z = 128 + ((u \div 64) % 64)
  OBVIOUS
<1>5. PICK w : w = 128 + ((u \div 1) % 64)
  OBVIOUS
<1>6. utf8_write_char(u) = <<x, y, z, w>>
  BY <1>1, <1>2, <1>3, <1>4, <1>5, SMT DEF utf8_write_char
<1>7. x = c /\ y = d /\ z = e /\ w = f
  <2>1. x = c
    BY <1>0, <1>2, SMT
  <2>2. y = d
    <3>1. u \div 4096 = (c - 240) * 64 + (d - 128)
      BY <1>0, SMT
    <3> QED
      BY <1>0, <1>3, <3>1, SMT
  <2>3. z = e
    <3>1. u \div 64 = ((c - 240) * 64 + (d - 128)) * 64 + (e - 128)
      BY <1>0, SMT
    <3> QED
      BY <1>0, <1>4, <3>1, SMT
  <2>4. w = f
    BY <1>0, <1>5, SMT
  <2> QED
    BY <2>1, <2>2, <2>3, <2>4
<1>8. c % 8 = c - 240 /\ d % 64 = d - 128 /\ e % 64 = e - 128 /\ f % 64 = f - 128
  BY <1>0
<1>9. ReadPoint(4, c, d, e, f) = u
  BY <1>0, <1>8, SMTT(40) DEF ReadPoint
<1>10. utf8_write_char(u) = <<c, d, e, f>>
  BY <1>6, <1>7, Zenon
<1> QED
  BY <1>0, <1>1, <1>9, <1>10, SMT

\* A code point beyond U+FFFF survives its way through a surrogate pair.
LEMMA PairInverse ==
  ASSUME NEW u \in Nat, u >= 65536, u <= 1114111
  PROVE LET pair == to_surrogate_pair(u) IN from_surrogate_pair(pair[1], pair[2]) = u
<1>1. PICK m : m = u - 65536
  OBVIOUS
<1>2. m \in Nat /\ m <= 1048575
  BY <1>1, SMT
<1>3. PICK x : x = 55296 + ((m \div 1024) % 1024)
  OBVIOUS
<1>4. PICK y : y = 56320 + (m % 1024)
  OBVIOUS
<1>5. to_surrogate_pair(u)[1] = x /\ to_surrogate_pair(u)[2] = y
  BY <1>1, <1>3, <1>4, SMT DEF to_surrogate_pair
<1>6. PICK h \in Nat, l \in Nat : m = h * 1024 + l /\ h <= 1023 /\ l <= 1023
  <2>1. PICK h : h = m \div 1024
    OBVIOUS
  <2>2. PICK l : l = m % 1024
    OBVIOUS
  <2>3. h \in Nat /\ l \in Nat /\ m = h * 1024 + l /\ h <= 1023 /\ l <= 1023
    BY <1>2, <2>1, <2>2, SMT
  <2> QED
    BY <2>3, SMT
<1>7. m \div 1024 = h /\ m % 1024 = l
  BY <1>6, SMT
<1>8. x = 55296 + h /\ y = 56320 + l
  BY <1>3, <1>4, <1>6, <1>7, SMT
<1>9. x % 1024 = h /\ y % 1024 = l
  BY <1>6, <1>8, SMT
<1>10. from_surrogate_pair(x, y) = 65536 + h * 1024 + l
  BY <1>6, <1>8, <1>9, SMT DEF from_surrogate_pair
<1>11. from_surrogate_pair(x, y) = u
  BY <1>1, <1>2, <1>6, <1>10, SMT
<1> QED
  BY <1>5, <1>11, SMT

LEMMA SubSeqIs ==
  ASSUME NEW b \in Seq(Byte), NEW i \in 1..Len(b), NEW n \in 1..4, i + n - 1 <= Len(b),
         NEW t \in Seq(Byte), Len(t) = n, \A k \in 1..n : t[k] = b[i + k - 1]
  PROVE t = SubSeq(b, i, i + n - 1)
<1>0. Len(b) \in Nat /\ i + n - 1 \in i..Len(b) /\ (i + n - 1) - i + 1 = n
  BY LenProperties
<1>1. PICK q : q = SubSeq(b, i, i + n - 1)
  OBVIOUS
<1>2. q \in Seq(Byte) /\ Len(q) = n /\ \A k \in 1..n : q[k] = b[i + k - 1]
  BY <1>0, <1>1, SubSeqProperties
<1>3. t = q
  BY <1>2, SeqEqual
<1> QED
  BY <1>1, <1>3

FirstBytes(t, n, c, d, e, f) ==
  /\ n = 1 => t = <<c>>
  /\ n = 2 => t = <<c, d>>
  /\ n = 3 => t = <<c, d, e>>
  /\ n = 4 => t = <<c, d, e, f>>

LEMMA CharBytes ==
  ASSUME NEW b \in Seq(Byte), NEW i \in 1..Len(b), NEW n \in 1..4, i + n - 1 <= Len(b)
  PROVE FirstBytes(SubSeq(b, i, i + n - 1), n,
                   ByteAt(b, i), ByteAt(b, i + 1), ByteAt(b, i + 2), ByteAt(b, i + 3))
<1> PICK c : c = ByteAt(b, i)
  OBVIOUS
<1> PICK d : d = ByteAt(b, i + 1)
  OBVIOUS
<1> PICK e : e = ByteAt(b, i + 2)
  OBVIOUS
<1> PICK f : f = ByteAt(b, i + 3)
  OBVIOUS
<1> SUFFICES FirstBytes(SubSeq(b, i, i + n - 1), n, c, d, e, f)
  OBVIOUS
<1>0. i \in Nat \ {0} /\ i + 1 \in Nat \ {0} /\ i + 2 \in Nat \ {0} /\ i + 3 \in Nat \ {0} /\ Len(b) \in Nat
  BY LenProperties
<1>1. c \in Byte /\ b[i] = c /\ b[i + 1 - 1] = c
  BY <1>0, ByteAtType
<1>2. n >= 2 => d \in Byte /\ b[i + 1] = d /\ b[i + 2 - 1] = d
  BY <1>0, ByteAtType
<1>3. n >= 3 => e \in Byte /\ b[i + 2] = e /\ b[i + 3 - 1] = e
  BY <1>0, ByteAtType
<1>4. n >= 4 => f \in Byte /\ b[i + 3] = f /\ b[i + 4 - 1] = f
  BY <1>0, ByteAtType
<1>5. ASSUME n = 1 PROVE SubSeq(b, i, i + n - 1) = <<c>>
  <2>1. <<c>> \in Seq(Byte) /\ Len(<<c>>) = n
    BY <1>1, <1>5
  <2>2. \A k \in 1..n : <<c>>[k] = b[i + k - 1]
    BY <1>0, <1>1, <1>5
  <2> QED
    BY <2>1, <2>2, SubSeqIs
<1>6. ASSUME n = 2 PROVE SubSeq(b, i, i + n - 1) = <<c, d>>
  <2>1. <<c, d>> \in Seq(Byte) /\ Len(<<c, d>>) = n
    BY <1>1, <1>2, <1>6
  <2>2. \A k \in 1..n : <<c, d>>[k] = b[i + k - 1]
    <3>1. \A k \in 1..n : k = 1 \/ k = 2
      BY <1>6
    <3>2. <<c, d>>[1] = b[i + 1 - 1] /\ <<c, d>>[2] = b[i + 2 - 1]
      BY <1>1, <1>2, <1>6
    <3> QED
      BY <3>1, <3>2, Zenon
  <2> QED
    BY <2>1, <2>2, SubSeqIs
<1>7. ASSUME n = 3 PROVE SubSeq(b, i, i + n - 1) = <<c, d, e>>
  <2>1. <<c, d, e>> \in Seq(Byte) /\ Len(<<c, d, e>>) = n
    BY <1>1, <1>2, <1>3, <1>7
  <2>2. \A k \in 1..n : <<c, d, e>>[k] = b[i + k - 1]
    <3>1. \A k \in 1..n : k = 1 \/ k = 2 \/ k = 3
      BY <1>7
    <3>2. /\ <<c, d, e>>[1] = b[i + 1 - 1] /\ <<c, d, e>>[2] = b[i + 2 - 1]
          /\ <<c, d, e>>[3] = b[i + 3 - 1]
      BY <1>1, <1>2, <1>3, <1>7
    <3> QED
      BY <3>1, <3>2, Zenon
  <2> QED
    BY <2>1, <2>2, SubSeqIs
<1>8. ASSUME n = 4 PROVE SubSeq(b, i, i + n - 1) = <<c, d, e, f>>
  <2>1. <<c, d, e, f>> \in Seq(Byte) /\ Len(<<c, d, e, f>>) = n
    BY <1>1, <1>2, <1>3, <1>4, <1>8
  <2>2. \A k \in 1..n : <<c, d, e, f>>[k] = b[i + k - 1]
    <3>1. \A k \in 1..n : k = 1 \/ k = 2 \/ k = 3 \/ k = 4
      BY <1>8
    <3>2. /\ <<c, d, e, f>>[1] = b[i + 1 - 1] /\ <<c, d, e, f>>[2] = b[i + 2 - 1]
          /\ <<c, d, e, f>>[3] = b[i + 3 - 1] /\ <<c, d, e, f>>[4] = b[i + 4 - 1]
      BY <1>1, <1>2, <1>3, <1>4, <1>8
    <3> QED
      BY <3>1, <3>2, Zenon
  <2> QED
    BY <2>1, <2>2, SubSeqIs
<1> QED
  BY <1>5, <1>6, <1>7, <1>8, Zenon DEF FirstBytes

LEMMA ReadWrite ==
  ASSUME NEW b \in Seq(Byte), NEW i \in 1..Len(b), NEW n \in 1..4, Encoded(b, i, n)
  PROVE LET u == Bits(b, i, n)
        IN /\ utf8_read_char(b, i) = u
           /\ utf8_write_char(u) = SubSeq(b, i, i + n - 1)
           /\ n = 4 => LET pair == to_surrogate_pair(u)
                       IN from_surrogate_pair(pair[1], pair[2]) = u
<1>0. Len(b) \in Nat /\ i \in Nat \ {0} /\ i + n - 1 <= Len(b)
  <2>1. Len(b) \in Nat /\ i \in Nat \ {0}
    BY LenProperties
  <2>2. i + n - 1 <= Len(b)
    BY Zenon DEF Encoded
  <2> QED
    BY <2>1, <2>2
<1>1. PICK r \in 0..4, c, d, e, f \in Octet : Look(b, i, r, c, d, e, f)
  <2>1. i \in Nat \ {0}
    BY <1>0
  <2> QED
    BY <2>1, ValidateCases, Zenon
<1>2. /\ r = utf8_validate_cz(b, i)
      /\ c = ByteAt(b, i) /\ d = ByteAt(b, i + 1) /\ e = ByteAt(b, i + 2) /\ f = ByteAt(b, i + 3)
  BY <1>1, Zenon DEF Look
<1>3. PICK u : u = Bits(b, i, n) /\ u = Point(n, c, d, e, f)
  BY <1>0, <1>2, BitsPoint, Zenon
<1>4. WellFormed(n, c, d, e, f)
  BY <1>0, <1>2, EncodedBytes, Zenon
<1>5. PICK t : t = SubSeq(b, i, i + n - 1)
  OBVIOUS
<1>6. /\ n = 1 => t = <<c>>
      /\ n = 2 => t = <<c, d>>
      /\ n = 3 => t = <<c, d, e>>
      /\ n = 4 => t = <<c, d, e, f>>
  <2>1. FirstBytes(t, n, c, d, e, f)
    BY <1>0, <1>2, <1>5, CharBytes, Zenon
  <2> QED
    BY <2>1, Zenon DEF FirstBytes
<1>7. c \in Octet /\ c # 0
  <2>1. i <= Len(b)
    BY <1>0
  <2> QED
    BY <1>0, <1>1, <2>1 DEF Look
<1>8. ASSUME n = 1
      PROVE utf8_read_char(b, i) = u /\ utf8_write_char(u) = t
  <2>1. One(c)
    BY <1>4, <1>8, PointOne, Zenon
  <2>2. c \in 1..127 /\ c <= 127
    BY <1>7, <2>1 DEF Octet, One
  <2>3. u = c /\ ReadPoint(n, c, d, e, f) = c
    BY <1>3, <1>8, SMT DEF Point, ReadPoint
  <2>4. utf8_read_char(b, i) = ReadPoint(n, c, d, e, f)
    BY <1>2, <1>8, <2>2, ReadBytes
  <2> QED
    BY <1>6, <1>8, <2>2, <2>3, <2>4, WriteOne, Zenon
<1>9. ASSUME n = 2
      PROVE utf8_read_char(b, i) = u /\ utf8_write_char(u) = t
  <2>1. Two(c, d)
    BY <1>4, <1>9, PointTwo, Zenon
  <2>2. c \in 192..223
    BY <2>1 DEF Two
  <2>3. utf8_read_char(b, i) = ReadPoint(n, c, d, e, f)
    BY <1>2, <1>9, <2>2, ReadBytes
  <2>4. utf8_write_char(u) = <<c, d>> /\ ReadPoint(n, c, d, e, f) = u
    <3>1. WellFormed(2, c, d, e, f) /\ u = Point(2, c, d, e, f)
      BY <1>3, <1>4, <1>9
    <3> QED
      BY <1>9, <3>1, WriteTwo
  <2> QED
    BY <1>6, <1>9, <2>3, <2>4, Zenon
<1>10. ASSUME n = 3
       PROVE utf8_read_char(b, i) = u /\ utf8_write_char(u) = t
  <2>1. Three(c, d, e)
    BY <1>4, <1>10, PointThree, Zenon
  <2>2. c \in 224..239
    BY <2>1 DEF Three
  <2>3. utf8_read_char(b, i) = ReadPoint(n, c, d, e, f)
    BY <1>2, <1>10, <2>2, ReadBytes
  <2>4. utf8_write_char(u) = <<c, d, e>> /\ ReadPoint(n, c, d, e, f) = u
    <3>1. WellFormed(3, c, d, e, f) /\ u = Point(3, c, d, e, f)
      BY <1>3, <1>4, <1>10
    <3> QED
      BY <1>10, <3>1, WriteThree
  <2> QED
    BY <1>6, <1>10, <2>3, <2>4, Zenon
<1>11. ASSUME n = 4
       PROVE /\ utf8_read_char(b, i) = u /\ utf8_write_char(u) = t
             /\ LET pair == to_surrogate_pair(u) IN from_surrogate_pair(pair[1], pair[2]) = u
  <2>1. Four(c, d, e, f)
    BY <1>4, <1>11, PointFour, Zenon
  <2>2. c \in 240..247
    BY <2>1 DEF Four
  <2>3. utf8_read_char(b, i) = ReadPoint(n, c, d, e, f)
    BY <1>2, <1>11, <2>2, ReadBytes
  <2>4. /\ utf8_write_char(u) = <<c, d, e, f>> /\ ReadPoint(n, c, d, e, f) = u
        /\ u \in Nat /\ u >= 65536 /\ u <= 1114111
    <3>1. WellFormed(4, c, d, e, f) /\ u = Point(4, c, d, e, f)
      BY <1>3, <1>4, <1>11
    <3> QED
      BY <1>11, <3>1, WriteFour
  <2>5. LET pair == to_surrogate_pair(u) IN from_surrogate_pair(pair[1], pair[2]) = u
    BY <2>4, PairInverse, SMT
  <2> QED
    BY <1>6, <1>11, <2>3, <2>4, <2>5, SMT
<1>12. utf8_read_char(b, i) = u /\ utf8_write_char(u) = t
  <2>1. n = 1 \/ n = 2 \/ n = 3 \/ n = 4
    OBVIOUS
  <2> QED
    BY <1>8, <1>9, <1>10, <1>11, <2>1
<1>13. ASSUME n = 4
       PROVE LET pair == to_surrogate_pair(u) IN from_surrogate_pair(pair[1], pair[2]) = u
  BY <1>11, <1>13
<1> QED
  BY <1>3, <1>5, <1>12, <1>13, Zenon

\* Wherever the loops come upon a character, reading and writing it are
\* inverse, by way of a surrogate pair too.
THEOREM ReadsWhatItWrites == Spec => []ReadWriteInverse
<1>1. BufferInv => ReadWriteInverse
  <2> SUFFICES ASSUME BufferInv, s \in DOMAIN input, NEW n \in 1..4, Encoded(input, s, n)
               PROVE LET u == Bits(input, s, n)
                     IN /\ utf8_read_char(input, s) = u
                        /\ utf8_write_char(u) = SubSeq(input, s, s + n - 1)
                        /\ n = 4 => LET pair == to_surrogate_pair(u)
                                    IN from_surrogate_pair(pair[1], pair[2]) = u
    BY Zenon DEF ReadWriteInverse
  <2>1. input \in Seq(Byte) /\ DOMAIN input = 1..Len(input)
    BY LenProperties DEF BufferInv, StringType
  <2> QED
    BY <2>1, ReadWrite, Zenon
<1> QED
  BY <1>1, BufferAlways, PTL

(***************************************************************************)
(* Strings that are UTF-8.  utf8_validate walks from character to          *)
(* character; a string is UTF-8 if there is a set of places for the walk.  *)
(***************************************************************************)
LEMMA LeastNumber == ASSUME NEW S \in SUBSET Nat, S # {}
                     PROVE \E k \in S : \A j \in S : k <= j
<1> DEFINE T == {1..k : k \in S}
<1>1. T # {} /\ T \subseteq FiniteSubsetsOf(Nat)
  <2>1. \A k \in S : 1..k \in SUBSET Nat /\ IsFiniteSet(1..k)
    BY FS_Interval
  <2> QED
    BY <2>1 DEF FiniteSubsetsOf
<1>2. \E x \in T : \A y \in T : ~(<<y, x>> \in StrictSubsetOrdering(Nat))
  <2> HIDE DEF T
  <2> QED
    BY <1>1, WFMin, FS_StrictSubsetOrderingWellFounded
<1>3. PICK k \in S : \A j \in S : ~(<<1..j, 1..k>> \in StrictSubsetOrdering(Nat))
  BY <1>2
<1> SUFFICES ASSUME NEW j \in S, j < k
             PROVE FALSE
  OBVIOUS
<1>4. 1..j \subseteq 1..k /\ k \in 1..k /\ k \notin 1..j
  OBVIOUS
<1>5. 1..j \in SUBSET Nat /\ 1..k \in SUBSET Nat
  OBVIOUS
<1> QED
  BY <1>3, <1>4, <1>5 DEF StrictSubsetOrdering

Walk(B, b) ==
  /\ B \in SUBSET (1..(Len(b) + 1))
  /\ \A i \in B : i # Len(b) + 1 => /\ utf8_validate_cz(b, i) # 0
                                    /\ i + utf8_validate_cz(b, i) \in B

Validation(f, b) ==
  f = [i \in 1..(Len(b) + 1) |->
         \/ i = Len(b) + 1
         \/ LET len == utf8_validate_cz(b, i) IN len # 0 /\ f[i + len]]

LEMMA ValidationExists ==
  ASSUME NEW b \in Seq(Byte)
  PROVE \E f : Validation(f, b)
<1>0. Len(b) \in Nat
  BY LenProperties
<1> DEFINE f == [i \in 1..(Len(b) + 1) |-> \E B : Walk(B, b) /\ i \in B]
<1>1. ASSUME NEW i \in 1..(Len(b) + 1)
      PROVE f[i] = (i = Len(b) + 1 \/ (LET len == utf8_validate_cz(b, i) IN len # 0 /\ f[i + len]))
  <2>1. f[i] = \E B : Walk(B, b) /\ i \in B
    BY Zenon
  <2>2. CASE i = Len(b) + 1
    <3>1. Walk({Len(b) + 1}, b)
      BY <1>0 DEF Walk
    <3>2. f[i] = TRUE
      BY <2>1, <2>2, <3>1
    <3> HIDE DEF f
    <3> QED
      BY <2>2, <3>2, Zenon
  <2>3. CASE i # Len(b) + 1
    <3>1. PICK r : r = utf8_validate_cz(b, i)
      OBVIOUS
    <3>2. i \in Nat \ {0} /\ i <= Len(b)
      BY <1>0, <2>3
    <3>3. r \in 0..4 /\ i + r <= Len(b) + 1
      BY <3>1, <3>2, CharFits
    <3>4. i + r \in 1..(Len(b) + 1)
      BY <1>0, <3>2, <3>3
    <3>5. f[i + r] = \E B : Walk(B, b) /\ i + r \in B
      BY <3>4, Zenon
    <3> HIDE DEF f
    <3>6. ASSUME NEW B, Walk(B, b), i \in B PROVE r # 0 /\ \E C : Walk(C, b) /\ i + r \in C
      BY <2>3, <3>1, <3>6, Zenon DEF Walk
    <3>7. ASSUME r # 0, NEW B, Walk(B, b), i + r \in B PROVE \E C : Walk(C, b) /\ i \in C
      <4>1. Walk(B \cup {i}, b)
        BY <3>1, <3>7 DEF Walk
      <4> QED
        BY <4>1
    <3>8. (\E B : Walk(B, b) /\ i \in B) <=> r # 0 /\ \E B : Walk(B, b) /\ i + r \in B
      BY <3>6, <3>7, Zenon
    <3>9. f[i] = (r # 0 /\ f[i + r])
      BY <2>1, <3>5, <3>8, Zenon
    <3> QED
      BY <2>3, <3>1, <3>9, Zenon
  <2> QED
    BY <2>2, <2>3
<1>2. f = [i \in 1..(Len(b) + 1) |-> f[i]]
  OBVIOUS
<1> HIDE DEF f
<1>3. Validation(f, b)
  BY <1>1, <1>2, Zenon DEF Validation
<1> QED
  BY <1>3

LEMMA ValidIsWalk ==
  ASSUME NEW b \in Seq(Byte)
  PROVE utf8_validate(b) <=> \E B : Walk(B, b) /\ 1 \in B
<1>0. Len(b) \in Nat /\ 1 \in 1..(Len(b) + 1)
  BY LenProperties
<1>1. PICK f : f = CHOOSE g : Validation(g, b)
  OBVIOUS
<1>2. Validation(f, b)
  BY <1>1, ValidationExists, Zenon
<1>3. utf8_validate(b) = f[1]
  BY <1>1, Zenon DEF utf8_validate, Validation
<1>4. \A i \in 1..(Len(b) + 1) :
        f[i] = (i = Len(b) + 1 \/ (utf8_validate_cz(b, i) # 0 /\ f[i + utf8_validate_cz(b, i)]))
  BY <1>2, Zenon DEF Validation
<1>5. ASSUME f[1]
      PROVE \E B : Walk(B, b) /\ 1 \in B
  <2> DEFINE B == {i \in 1..(Len(b) + 1) : f[i]}
  <2>1. 1 \in B
    BY <1>0, <1>5
  <2>2. ASSUME NEW i \in B, i # Len(b) + 1
        PROVE utf8_validate_cz(b, i) # 0 /\ i + utf8_validate_cz(b, i) \in B
    <3>1. i \in Nat \ {0} /\ i <= Len(b)
      BY <1>0, <2>2
    <3>2. utf8_validate_cz(b, i) # 0 /\ f[i + utf8_validate_cz(b, i)]
      BY <1>4, <2>2, Zenon
    <3>3. utf8_validate_cz(b, i) \in 0..4 /\ i + utf8_validate_cz(b, i) <= Len(b) + 1
      BY <3>1, CharFits
    <3>4. i + utf8_validate_cz(b, i) \in 1..(Len(b) + 1)
      BY <1>0, <3>1, <3>3
    <3> QED
      BY <3>2, <3>4, Zenon
  <2>3. Walk(B, b)
    BY <2>2, Zenon DEF Walk
  <2> QED
    BY <2>1, <2>3, Zenon
<1>6. ASSUME NEW B, Walk(B, b), 1 \in B
      PROVE f[1]
  <2> DEFINE Bad == {k \in Nat : \E i \in B : ~f[i] /\ k = Len(b) + 1 - i}
  <2>1. Bad = {}
    <3> SUFFICES ASSUME Bad # {} PROVE FALSE
      OBVIOUS
    <3>1. Bad \in SUBSET Nat
      OBVIOUS
    <3>2. PICK k \in Bad : \A j \in Bad : k <= j
      BY <3>1, LeastNumber
    <3>3. PICK i \in B : ~f[i] /\ k = Len(b) + 1 - i
      BY <3>2
    <3>4. PICK r : r = utf8_validate_cz(b, i)
      OBVIOUS
    <3>5. i \in 1..(Len(b) + 1) /\ i # Len(b) + 1
      BY <1>4, <1>6, <3>3 DEF Walk
    <3>6. r # 0 /\ i + r \in B
      BY <1>6, <3>4, <3>5, Zenon DEF Walk
    <3>7. ~f[i + r]
      BY <1>4, <3>3, <3>4, <3>5, <3>6, Zenon
    <3>8. i \in Nat \ {0} /\ i <= Len(b)
      BY <1>0, <3>5
    <3>9. r \in 0..4 /\ i + r <= Len(b) + 1
      BY <3>4, <3>8, CharFits
    <3>10. Len(b) + 1 - (i + r) \in Nat
      BY <1>0, <3>8, <3>9
    <3>11. Len(b) + 1 - (i + r) \in Bad
      BY <3>6, <3>7, <3>10
    <3>12. k <= Len(b) + 1 - (i + r)
      BY <3>2, <3>11, Zenon
    <3> QED
      BY <1>0, <3>3, <3>6, <3>8, <3>9, <3>12
  <2>2. ~f[1] => Len(b) + 1 - 1 \in Bad
    BY <1>0, <1>6
  <2> QED
    BY <2>1, <2>2
<1> QED
  BY <1>3, <1>5, <1>6, Zenon

\* A character at the end of a string that is UTF-8.
LEMMA AppendChar ==
  ASSUME NEW b \in Seq(Byte), NEW t, OneChar(t), utf8_validate(b)
  PROVE utf8_validate(b \o t)
<1>0. Len(b) \in Nat /\ t \in Seq(Byte) /\ Len(t) \in 1..4 /\ Len(t) \in Nat
  BY LenProperties DEF OneChar
<1>1. PICK x : x = b \o t
  OBVIOUS
<1>2. /\ x \in Seq(Byte) /\ Len(x) = Len(b) + Len(t)
      /\ \A k \in 1..(Len(b) + Len(t)) : x[k] = IF k <= Len(b) THEN b[k] ELSE t[k - Len(b)]
  BY <1>0, <1>1, ConcatProperties
<1>3. PICK B : Walk(B, b) /\ 1 \in B
  BY ValidIsWalk
<1> DEFINE C == B \cup {Len(x) + 1}
<1>4. 1 \in C /\ C \in SUBSET (1..(Len(x) + 1))
  <2>1. B \in SUBSET (1..(Len(b) + 1))
    BY <1>3, Zenon DEF Walk
  <2>2. 1..(Len(b) + 1) \subseteq 1..(Len(x) + 1) /\ Len(x) + 1 \in 1..(Len(x) + 1)
    BY <1>0, <1>2
  <2> QED
    BY <1>3, <2>1, <2>2
<1>5. ASSUME NEW i \in C, i # Len(x) + 1
      PROVE utf8_validate_cz(x, i) # 0 /\ i + utf8_validate_cz(x, i) \in C
  <2>1. i \in B /\ i \in Nat \ {0} /\ i <= Len(b) + 1
    BY <1>0, <1>3, <1>5 DEF Walk
  <2>2. CASE i = Len(b) + 1
    <3>1. PICK n \in 1..4 : n = Len(t) /\ utf8_validate_cz(t, 1) = n
      BY <1>0 DEF OneChar
    <3>2. SameBytes(x, i, t, 1, n)
      <4> SUFFICES ASSUME NEW k \in 0..(n - 1) PROVE ByteAt(x, i + k) = ByteAt(t, 1 + k)
        BY Zenon DEF SameBytes
      <4>1. /\ i + k <= Len(x) /\ i + k \in 1..(Len(b) + Len(t)) /\ ~(i + k <= Len(b))
            /\ (i + k) - Len(b) = 1 + k /\ 1 + k <= Len(t)
        BY <1>0, <1>2, <2>2, <3>1
      <4>2. x[i + k] = t[1 + k]
        BY <1>2, <4>1
      <4> QED
        BY <4>1, <4>2 DEF ByteAt
    <3>3. utf8_validate_cz(x, i) = n
      <4>1. PICK j \in Nat \ {0} : j = 1
        OBVIOUS
      <4>2. t \in Seq(Byte) /\ x \in Seq(Byte) /\ i \in Nat \ {0}
        BY <1>0, <1>2, <2>1
      <4>3. utf8_validate_cz(t, j) = n /\ SameBytes(x, i, t, j, n)
        BY <3>1, <3>2, <4>1
      <4> HIDE DEF C
      <4> QED
        BY <4>2, <4>3, SameChar, ZenonT(60)
    <3>4. n # 0 /\ i + n = Len(x) + 1
      BY <1>0, <1>2, <2>2, <3>1
    <3> QED
      BY <3>3, <3>4
  <2>3. CASE i # Len(b) + 1
    <3>1. utf8_validate_cz(b, i) # 0 /\ i + utf8_validate_cz(b, i) \in B
      BY <1>3, <2>1, <2>3, Zenon DEF Walk
    <3>2. i <= Len(b)
      BY <1>0, <2>1, <2>3
    <3>3. PICK n \in 1..4 : n = utf8_validate_cz(b, i) /\ i + n <= Len(b) + 1
      BY <2>1, <3>1, <3>2, CharFits
    <3>4. SameBytes(x, i, b, i, n)
      <4> SUFFICES ASSUME NEW k \in 0..(n - 1) PROVE ByteAt(x, i + k) = ByteAt(b, i + k)
        BY Zenon DEF SameBytes
      <4>1. i + k <= Len(b) /\ i + k <= Len(x) /\ i + k \in 1..(Len(b) + Len(t))
        BY <1>0, <1>2, <2>1, <3>3, SMTT(40)
      <4>2. x[i + k] = b[i + k]
        BY <1>2, <4>1
      <4> QED
        BY <4>1, <4>2 DEF ByteAt
    <3>5. utf8_validate_cz(x, i) = n
      <4>1. x \in Seq(Byte) /\ i \in Nat \ {0} /\ utf8_validate_cz(b, i) = n
        BY <1>2, <2>1, <3>3
      <4> HIDE DEF C
      <4> QED
        BY <3>4, <4>1, SameChar, Zenon
    <3> QED
      BY <3>1, <3>3, <3>5
  <2> QED
    BY <2>2, <2>3
<1>6. Walk(C, x)
  <2> HIDE DEF C
  <2> QED
    BY <1>4, <1>5, Zenon DEF Walk
<1> QED
  BY <1>1, <1>2, <1>4, <1>6, ValidIsWalk

LEMMA EmptyValid == utf8_validate(<<>>)
<1>1. <<>> \in Seq(Byte) /\ Len(<<>>) = 0
  OBVIOUS
<1>2. Walk({1}, <<>>) /\ 1 \in {1}
  BY <1>1 DEF Walk
<1> QED
  BY <1>1, <1>2, ValidIsWalk

Decoded == phase = "parse" \/ phase = "done" => utf8_validate(out)

LEMMA DecodedNext == BufferInv /\ Decoded /\ [Next]_vars => Decoded'
<1> SUFFICES ASSUME BufferInv, Decoded, [Next]_vars PROVE Decoded'
  OBVIOUS
<1>1. CASE emit_string
  <2>1. phase' = "emit"
    BY <1>1 DEF emit_string
  <2> QED
    BY <2>1 DEF Decoded
<1>2. CASE emit_end
  <2>1. out' = <<>>
    BY <1>2 DEF emit_end
  <2> QED
    BY <2>1, EmptyValid, Zenon DEF Decoded
<1>3. CASE parse_string
  <2>1. PICK e : e = parse_char(input, s)
    OBVIOUS
  <2>2. CASE e # Failure
    <3>1. out' = out \o e.bytes /\ phase = "parse"
      BY <1>3, <2>1, <2>2 DEF parse_string
    <3>2. OneChar(e.bytes)
      <4>1. input \in Seq(Byte) /\ s \in 1..(Len(input) + 1)
        BY LenProperties DEF BufferInv, StringType
      <4>2. e = Failure \/ Accepted(input, s, e)
        BY <2>1, <4>1, ParseChar
      <4> QED
        BY <2>2, <4>2 DEF Accepted
    <3>3. out \in Seq(Byte) /\ utf8_validate(out)
      BY <3>1 DEF Decoded, BufferInv, StringType
    <3>4. utf8_validate(out \o e.bytes)
      BY <3>2, <3>3, AppendChar
    <3> QED
      BY <3>1, <3>4, Zenon DEF Decoded
  <2>3. CASE e = Failure
    <3>1. phase' = "failed"
      BY <1>3, <2>1, <2>3 DEF parse_string
    <3> QED
      BY <3>1 DEF Decoded
  <2> QED
    BY <2>2, <2>3
<1>4. CASE parse_end
  <2>1. phase = "parse" /\ (phase' = "emit" \/ out' = out)
    BY <1>4 DEF parse_end
  <2> QED
    BY <2>1, Zenon DEF Decoded
<1>5. CASE UNCHANGED vars
  BY <1>5 DEF vars, Decoded
<1> QED
  BY <1>1, <1>2, <1>3, <1>4, <1>5 DEF Next

LEMMA DecodedAlways == Spec => []Decoded
<1>1. Init => Decoded
  BY EmptyValid, Zenon DEF Init, Decoded
<1> QED
  BY <1>1, DecodedNext, BufferAlways, PTL DEF Spec

\* What parse_string accepts is UTF-8 without a NUL, escapes included.
THEOREM DecodesUtf8 == Spec => []DecodedIsUtf8
<1>1. BufferInv /\ Decoded => DecodedIsUtf8
  <2> SUFFICES ASSUME BufferInv, Decoded, phase = "parse" \/ phase = "done"
               PROVE utf8_validate(out) /\ \A i \in DOMAIN out : out[i] # 0
    BY DEF DecodedIsUtf8
  <2>1. out \in Seq(Byte) /\ DOMAIN out = 1..Len(out)
    BY LenProperties DEF BufferInv, StringType
  <2>2. \A i \in DOMAIN out : out[i] # 0
    <3>1. \A x \in Byte : x # 0
      BY DEF Byte
    <3>2. \A i \in 1..Len(out) : out[i] \in Byte
      BY <2>1, ElementOfSeq
    <3> QED
      BY <2>1, <3>1, <3>2
  <2> QED
    BY <2>2 DEF Decoded
<1> QED
  BY <1>1, BufferAlways, DecodedAlways, PTL

(***************************************************************************)
(* What emit_string writes, parse_string reads back.                       *)
(***************************************************************************)

\* The bytes w are in x from place p on.
HasAt(x, p, w) == \A k \in 1..Len(w) : p + k - 1 <= Len(x) /\ x[p + k - 1] = w[k]

BytesAre(x, p, w, n) ==
  /\ n >= 1 => ByteAt(x, p) = w[1]
  /\ n >= 2 => ByteAt(x, p + 1) = w[2]
  /\ n >= 3 => ByteAt(x, p + 2) = w[3]
  /\ n >= 4 => ByteAt(x, p + 3) = w[4]
  /\ n >= 5 => ByteAt(x, p + 4) = w[5]
  /\ n >= 6 => ByteAt(x, p + 5) = w[6]

LEMMA HasByte ==
  ASSUME NEW x, NEW p \in Nat \ {0}, NEW w, NEW n \in Nat, Len(w) = n, HasAt(x, p, w)
  PROVE BytesAre(x, p, w, n)
<1>1. \A k \in 1..n : ByteAt(x, p + k - 1) = w[k]
  BY Zenon DEF HasAt, ByteAt
<1>2. /\ p + 1 - 1 = p /\ p + 2 - 1 = p + 1 /\ p + 3 - 1 = p + 2
      /\ p + 4 - 1 = p + 3 /\ p + 5 - 1 = p + 4 /\ p + 6 - 1 = p + 5
  OBVIOUS
<1> QED
  BY <1>1, <1>2 DEF BytesAre

\* How the bytes at place p of x are read, where they were written for place q
\* of X: w of them, for n bytes of X.
ReadBack(X, q, x, p, w, n) ==
  /\ ByteAt(x, p) # Quote
  /\ \/ parse_char(x, p) = Failure /\ X[q] = 31
     \/ /\ parse_char(x, p).next = p + w
        /\ utf8_validate_cz(X, q) # 0 => /\ utf8_validate_cz(X, q) = n
                                         /\ parse_char(x, p).bytes = SubSeq(X, q, q + n - 1)

LEMMA OneByte ==
  ASSUME NEW X \in Seq(Byte), NEW q \in 1..Len(X), X[q] <= 127
  PROVE utf8_validate_cz(X, q) = 1 /\ SubSeq(X, q, q + 1 - 1) = <<X[q]>>
<1>0. q \in Nat \ {0} /\ q <= Len(X) /\ Len(X) \in Nat
  BY LenProperties
<1>1. X[q] \in Byte /\ ByteAt(X, q) = X[q]
  BY <1>0, ByteAtType
<1>2. PICK r \in 0..4, c, d, e, f \in Octet : Look(X, q, r, c, d, e, f)
  BY <1>0, ValidateCases
<1>3. r = utf8_validate_cz(X, q) /\ c = X[q] /\ (r = 1 <=> One(c))
  BY <1>1, <1>2, Zenon DEF Look, Lengths
<1>4. r = 1
  BY <1>3 DEF One
<1>5. <<X[q]>> \in Seq(Byte) /\ Len(<<X[q]>>) = 1 /\ \A k \in 1..1 : <<X[q]>>[k] = X[q + k - 1]
  BY <1>0, <1>1
<1>6. <<X[q]>> = SubSeq(X, q, q + 1 - 1)
  <2>1. PICK n \in 1..4 : n = 1 /\ q + n - 1 <= Len(X)
    BY <1>0
  <2>2. <<X[q]>> = SubSeq(X, q, q + n - 1)
    BY <1>5, <2>1, SubSeqIs
  <2> QED
    BY <2>1, <2>2, Zenon
<1> QED
  BY <1>3, <1>4, <1>6

LEMMA BackShort ==
  ASSUME NEW X \in Seq(Byte), NEW q \in 1..Len(X), X[q] \in Shorts,
         NEW x, NEW p \in Nat \ {0},
         NEW l \in Letters, Unescaped(l) = {X[q]}, HasAt(x, p, <<92, l>>)
  PROVE ReadBack(X, q, x, p, 2, 1)
<1>1. ByteAt(x, p) = 92 /\ ByteAt(x, p + 1) = l
  <2>1. PICK w : w = <<92, l>>
    OBVIOUS
  <2>2. Len(w) = 2 /\ w[1] = 92 /\ w[2] = l
    BY <2>1
  <2>3. BytesAre(x, p, w, 2)
    BY <2>1, <2>2, HasByte
  <2> QED
    BY <2>2, <2>3 DEF BytesAre
<1>2. l # 117 /\ 92 # Quote
  BY DEF Letters, Quote
<1>3. Unescaped(l) # {} /\ (CHOOSE u \in Unescaped(l) : TRUE) = X[q]
  OBVIOUS
<1>4. parse_char(x, p) = [bytes |-> <<X[q]>>, next |-> p + 2]
  BY <1>1, <1>2, <1>3 DEF parse_char, Backslash
<1>5. parse_char(x, p).bytes = <<X[q]>> /\ parse_char(x, p).next = p + 2
  BY <1>4
<1>6. X[q] <= 127
  BY DEF Shorts
<1>7. utf8_validate_cz(X, q) = 1 /\ SubSeq(X, q, q + 1 - 1) = <<X[q]>>
  BY <1>6, OneByte
<1> QED
  BY <1>1, <1>2, <1>5, <1>7, Zenon DEF ReadBack

LEMMA BackReplaced ==
  ASSUME NEW X \in Seq(Byte), NEW q \in 1..Len(X), utf8_validate_cz(X, q) = 0,
         NEW x \in Seq(Byte), NEW p \in Nat \ {0}, HasAt(x, p, Replacement)
  PROVE ReadBack(X, q, x, p, 3, 1)
<1>1. ByteAt(x, p) = 239 /\ ByteAt(x, p + 1) = 191 /\ ByteAt(x, p + 2) = 189
  <2>1. Len(Replacement) = 3 /\ Replacement[1] = 239 /\ Replacement[2] = 191 /\ Replacement[3] = 189
    BY DEF Replacement
  <2>2. BytesAre(x, p, Replacement, 3)
    <3>1. 3 \in Nat
      OBVIOUS
    <3>2. Len(Replacement) = 3
      BY <2>1
    <3> QED
      BY <3>1, <3>2, HasByte, Zenon
  <2> QED
    BY <2>1, <2>2 DEF BytesAre
<1>2. PICK r \in 0..4, c, d, e, f \in Octet : Look(x, p, r, c, d, e, f)
  BY ValidateCases
<1>3. r = utf8_validate_cz(x, p) /\ c = 239 /\ d = 191 /\ e = 189 /\ (r = 3 <=> Three(c, d, e))
  BY <1>1, <1>2, Zenon DEF Look, Lengths
<1>4. r = 3
  BY <1>3 DEF Three
<1>5. 239 # Quote /\ 239 # Backslash /\ ~(239 <= 31)
  BY DEF Quote, Backslash
<1>6. parse_char(x, p) = [bytes |-> SubSeq(x, p, p + 3 - 1), next |-> p + 3]
  BY <1>1, <1>3, <1>4, <1>5 DEF parse_char
<1>7. parse_char(x, p).next = p + 3
  BY <1>6
<1> QED
  BY <1>1, <1>5, <1>7 DEF ReadBack

LEMMA BackHex ==
  ASSUME NEW X \in Seq(Byte), NEW q \in 1..Len(X), X[q] < 31,
         NEW x, NEW p \in Nat \ {0},
         NEW g \in Byte, NEW h \in Byte, HexValue(g) = X[q] \div 16, HexValue(h) = X[q] % 16,
         HasAt(x, p, <<92, 117, 48, 48, g, h>>)
  PROVE ReadBack(X, q, x, p, 6, 1)
<1>0. q \in Nat \ {0} /\ q <= Len(X) /\ Len(X) \in Nat
  BY LenProperties
<1>1. PICK c \in Byte : c = X[q]
  BY <1>0, ByteAtType
<1>2. /\ ByteAt(x, p) = 92 /\ ByteAt(x, p + 1) = 117
      /\ ByteAt(x, p + 2) = 48 /\ ByteAt(x, p + 3) = 48
      /\ ByteAt(x, p + 4) = g /\ ByteAt(x, p + 5) = h
  <2>1. PICK w : w = <<92, 117, 48, 48, g, h>>
    OBVIOUS
  <2>2. Len(w) = 6 /\ w[1] = 92 /\ w[2] = 117 /\ w[3] = 48 /\ w[4] = 48 /\ w[5] = g /\ w[6] = h
    BY <2>1
  <2>3. HasAt(x, p, w)
    BY <2>1
  <2>4. BytesAre(x, p, w, 6)
    <3>1. 6 \in Nat
      OBVIOUS
    <3>2. Len(w) = 6
      BY <2>2
    <3> QED
      BY <2>3, <3>1, <3>2, HasByte, Zenon
  <2> QED
    BY <2>2, <2>4 DEF BytesAre
<1>3. parse_char(x, p) = parse_unicode(x, p + 2)
  BY <1>2 DEF parse_char, Backslash
<1>4. parse_hex16(x, p + 2) = c
  <2> DEFINE v(k) == HexValue(ByteAt(x, p + 2 + k))
  <2>1. HexValue(48) = 0
    BY DEF HexValue
  <2>2. p + 2 + 0 = p + 2 /\ p + 2 + 1 = p + 3 /\ p + 2 + 2 = p + 4 /\ p + 2 + 3 = p + 5
    OBVIOUS
  <2>3. v(0) = 0 /\ v(1) = 0 /\ v(2) = c \div 16 /\ v(3) = c % 16
    BY <1>1, <1>2, <2>1, <2>2
  <2>4. parse_hex16(x, p + 2) = IF \E k \in 0..3 : v(k) = -1 THEN -1
                                ELSE v(0) * 4096 + v(1) * 256 + v(2) * 16 + v(3)
    BY Zenon DEF parse_hex16
  <2> HIDE DEF v
  <2>5. c \div 16 \in Nat /\ c % 16 \in Nat /\ (c \div 16) * 16 + (c % 16) = c
    BY SMT DEF Byte
  <2>6. ~ \E k \in 0..3 : v(k) = -1
    <3>1. \A k \in 0..3 : k = 0 \/ k = 1 \/ k = 2 \/ k = 3
      OBVIOUS
    <3>2. v(0) # -1 /\ v(1) # -1 /\ v(2) # -1 /\ v(3) # -1
      <4>1. \A y \in Nat : y # -1
        OBVIOUS
      <4>2. v(0) \in Nat /\ v(1) \in Nat /\ v(2) \in Nat /\ v(3) \in Nat
        <5>1. 0 \in Nat
          OBVIOUS
        <5> QED
          BY <2>3, <2>5, <5>1, Zenon
      <4> QED
        BY <4>1, <4>2, Zenon
    <3> QED
      BY <3>1, <3>2, Zenon
  <2>7. parse_hex16(x, p + 2) = v(0) * 4096 + v(1) * 256 + v(2) * 16 + v(3)
    BY <2>4, <2>6
  <2> QED
    BY <2>3, <2>5, <2>7, SMTT(40)
<1>5. c \in 1..30 /\ ~Surrogate(c) /\ c \notin {-1, 0}
  <2>1. c < 31 /\ c \in 1..255
    BY <1>1 DEF Byte
  <2>2. c \in 1..30 /\ c \notin {-1, 0}
    BY <2>1, SMTT(40)
  <2>3. ~Surrogate(c)
    BY <2>1, SMT DEF Surrogate
  <2> QED
    BY <2>2, <2>3
<1>6. parse_unicode(x, p + 2) = [bytes |-> utf8_write_char(c), next |-> p + 2 + 4]
  BY <1>4, <1>5, Zenon DEF parse_unicode
<1>7. utf8_write_char(c) = <<c>>
  <2>1. c \in 1..127
    BY <1>5
  <2> QED
    BY <2>1, WriteOne
<1>8. parse_char(x, p).bytes = <<c>> /\ parse_char(x, p).next = p + 6
  <2>1. p + 2 + 4 = p + 6
    OBVIOUS
  <2> QED
    BY <1>3, <1>6, <1>7, <2>1
<1>9. utf8_validate_cz(X, q) = 1 /\ SubSeq(X, q, q + 1 - 1) = <<c>>
  <2>1. X[q] <= 127
    BY <1>1, <1>5, SMTT(40)
  <2> QED
    BY <1>1, <2>1, OneByte
<1>10. 92 # Quote
  BY DEF Quote
<1> QED
  BY <1>2, <1>8, <1>9, <1>10, ZenonT(60) DEF ReadBack

LEMMA BackAsItIs ==
  ASSUME NEW X \in Seq(Byte), NEW q \in 1..Len(X), X[q] \notin Shorts, X[q] >= 31,
         NEW r \in 1..4, utf8_validate_cz(X, q) = r,
         NEW x \in Seq(Byte), NEW p \in Nat \ {0}, HasAt(x, p, SubSeq(X, q, q + r - 1))
  PROVE ReadBack(X, q, x, p, r, r)
<1>0. q \in Nat \ {0} /\ q <= Len(X) /\ Len(X) \in Nat /\ Len(x) \in Nat
  BY LenProperties
<1>1. PICK c \in Byte : c = X[q]
  BY <1>0, ByteAtType
<1>2. PICK t : t = SubSeq(X, q, q + r - 1)
  OBVIOUS
<1>3. t \in Seq(Byte) /\ Len(t) = r /\ \A k \in 1..r : t[k] = X[q + k - 1]
  <2>1. utf8_validate_cz(X, q) # 0
    OBVIOUS
  <2>2. OneChar(t) /\ Len(t) = r /\ \A k \in 1..r : t[k] = X[q + k - 1]
    BY <1>2, <2>1, SubChar
  <2> QED
    BY <2>2, Zenon DEF OneChar
<1>4. \A k \in 1..r : p + k - 1 <= Len(x) /\ x[p + k - 1] = t[k]
  BY <1>2, <1>3, Zenon DEF HasAt
<1>5. q + r - 1 <= Len(X)
  BY <1>0, CharFits
<1>6. SameBytes(x, p, X, q, r)
  <2> SUFFICES ASSUME NEW k \in 0..(r - 1) PROVE ByteAt(x, p + k) = ByteAt(X, q + k)
    BY Zenon DEF SameBytes
  <2>1. PICK m \in 1..r : m = k + 1 /\ p + m - 1 = p + k /\ q + m - 1 = q + k
    BY <1>0
  <2>2. p + k <= Len(x) /\ x[p + k] = t[m] /\ t[m] = X[q + k]
    BY <1>3, <1>4, <2>1, Zenon
  <2>3. q + k <= Len(X)
    BY <1>0, <1>5
  <2> QED
    BY <2>2, <2>3 DEF ByteAt
<1>7. utf8_validate_cz(x, p) = r
  BY <1>0, <1>6, SameChar, Zenon
<1>8. ByteAt(x, p) = c
  <2>1. 1 \in 1..r /\ p + 1 - 1 = p /\ q + 1 - 1 = q
    BY <1>0
  <2>2. p <= Len(x) /\ x[p] = c
    BY <1>1, <1>3, <1>4, <2>1
  <2> QED
    BY <2>2 DEF ByteAt
<1>9. c # Quote /\ c # Backslash
  BY <1>1 DEF Shorts, Quote, Backslash
<1>10. CASE c = 31
  <2>1. parse_char(x, p) = Failure
    BY <1>8, <1>9, <1>10 DEF parse_char
  <2> QED
    BY <1>1, <1>8, <1>9, <1>10, <2>1, Zenon DEF ReadBack
<1>11. CASE c # 31
  <2>1. ~(c <= 31) /\ r # 0
    BY <1>1, <1>11 DEF Byte
  <2>2. parse_char(x, p) = [bytes |-> SubSeq(x, p, p + r - 1), next |-> p + r]
    BY <1>7, <1>8, <1>9, <2>1 DEF parse_char
  <2>3. t = SubSeq(x, p, p + r - 1)
    <3>1. r \in 1..r /\ p \in 1..Len(x) /\ p + r - 1 <= Len(x)
      BY <1>0, <1>4
    <3> QED
      BY <1>3, <1>4, <3>1, SubSeqIs
  <2>4. parse_char(x, p).bytes = SubSeq(X, q, q + r - 1) /\ parse_char(x, p).next = p + r
    BY <1>2, <2>2, <2>3
  <2> QED
    BY <1>8, <1>9, <2>4, Zenon DEF ReadBack
<1> QED
  BY <1>10, <1>11

LEMMA ParseEmitted ==
  ASSUME NEW X \in Seq(Byte), NEW q \in 1..Len(X), NEW x \in Seq(Byte), NEW p \in Nat \ {0},
         HasAt(x, p, emit_char(X, q).bytes)
  PROVE LET e == emit_char(X, q) IN ReadBack(X, q, x, p, Len(e.bytes), e.len)
<1>0. Len(X) \in Nat /\ q \in Nat \ {0} /\ q <= Len(X)
  BY LenProperties
<1>1. PICK e : e = emit_char(X, q)
  OBVIOUS
<1>2. PICK r \in 0..4 : r = utf8_validate_cz(X, q)
  BY <1>0, CharFits
<1>3. EmitForm(X, q, X[q], r, e)
  BY <1>1, <1>2, EmitForms
<1>4. HasAt(x, p, e.bytes)
  BY <1>1
<1>5. ASSUME X[q] \in Shorts, NEW l \in Letters, AsShort(e, l), Unescaped(l) = {X[q]}
      PROVE ReadBack(X, q, x, p, Len(e.bytes), e.len)
  <2>1. e.bytes = <<92, l>> /\ e.len = 1 /\ Len(<<92, l>>) = 2
    BY <1>5 DEF AsShort
  <2>2. HasAt(x, p, <<92, l>>)
    BY <1>4, <2>1, Zenon
  <2>3. ReadBack(X, q, x, p, 2, 1)
    BY <1>5, <2>2, BackShort, Zenon
  <2> QED
    BY <2>1, <2>3, Zenon
<1>6. ASSUME r = 0, AsReplaced(e)
      PROVE ReadBack(X, q, x, p, Len(e.bytes), e.len)
  <2>1. e.bytes = Replacement /\ e.len = 1
    BY <1>6 DEF AsReplaced
  <2>2. Len(Replacement) = 3
    BY DEF Replacement
  <2>3. HasAt(x, p, Replacement)
    BY <1>4, <2>1, Zenon
  <2>4. ReadBack(X, q, x, p, 3, 1)
    BY <1>2, <1>6, <2>3, BackReplaced, Zenon
  <2> QED
    BY <2>1, <2>2, <2>4, Zenon
<1>7. ASSUME X[q] < 31, NEW g \in Byte, NEW h \in Byte, AsHex(e, g, h),
             HexValue(g) = X[q] \div 16, HexValue(h) = X[q] % 16
      PROVE ReadBack(X, q, x, p, Len(e.bytes), e.len)
  <2>1. /\ e.bytes = <<92, 117, 48, 48, g, h>> /\ e.len = 1
        /\ Len(<<92, 117, 48, 48, g, h>>) = 6
    BY <1>7 DEF AsHex
  <2>2. HasAt(x, p, <<92, 117, 48, 48, g, h>>)
    BY <1>4, <2>1, Zenon
  <2>3. ReadBack(X, q, x, p, 6, 1)
    BY <1>7, <2>2, BackHex, Zenon
  <2> QED
    BY <2>1, <2>3, Zenon
<1>8. ASSUME r # 0, X[q] \notin Shorts, X[q] >= 31, AsItIs(X, q, r, e)
      PROVE ReadBack(X, q, x, p, Len(e.bytes), e.len)
  <2>1. e.bytes = SubSeq(X, q, q + r - 1) /\ e.len = r
    BY <1>8 DEF AsItIs
  <2>2. Len(SubSeq(X, q, q + r - 1)) = r /\ r \in 1..4
    <3>1. utf8_validate_cz(X, q) # 0 /\ r \in 1..4
      BY <1>2, <1>8
    <3> QED
      BY <1>2, <3>1, SubChar
  <2>3. HasAt(x, p, SubSeq(X, q, q + r - 1))
    BY <1>4, <2>1, Zenon
  <2>4. ReadBack(X, q, x, p, r, r)
    BY <1>2, <1>8, <2>2, <2>3, BackAsItIs, Zenon
  <2> QED
    BY <2>1, <2>2, <2>4, Zenon
<1>9. ReadBack(X, q, x, p, Len(e.bytes), e.len)
  BY <1>3, <1>5, <1>6, <1>7, <1>8, Zenon DEF EmitForm
<1> QED
  BY <1>1, <1>9

(***************************************************************************)
(* M pairs the places of a text with those of the string X it is written   *)
(* from, character by character.                                           *)
(***************************************************************************)

\* The character at place q was written to place p.
Step(M, X, x, p, q) ==
  LET e == emit_char(X, q)
  IN HasAt(x, p, e.bytes) /\ <<p + Len(e.bytes), q + e.len>> \in M

\* emit_string has come to place here of X, and has written x.
Writing(M, X, x, here) ==
  /\ <<2, 1>> \in M
  /\ \A p, q : <<p, q>> \in M =>
       /\ p \in Nat \ {0} /\ q \in 1..here
       /\ q = here => p = Len(x) + 1
       /\ q # here => Step(M, X, x, p, q)

\* x is what it has written, with the closing quote.
Written(M, X, x) ==
  /\ <<2, 1>> \in M
  /\ \A p, q : <<p, q>> \in M =>
       /\ p \in Nat \ {0} /\ q \in 1..(Len(X) + 1)
       /\ q = Len(X) + 1 => ByteAt(x, p) = Quote
       /\ q # Len(X) + 1 => Step(M, X, x, p, q)

LEMMA HasAtLonger ==
  ASSUME NEW x \in Seq(Byte), NEW t \in Seq(Byte), NEW p \in Nat \ {0}, NEW w, HasAt(x, p, w)
  PROVE HasAt(x \o t, p, w)
<1> PICK y : y = x \o t
  OBVIOUS
<1>1. Len(x) \in Nat /\ Len(t) \in Nat
  BY LenProperties
<1>2. Len(y) = Len(x) + Len(t) /\ \A k \in 1..Len(x) : y[k] = x[k]
  BY <1>1, ConcatProperties
<1>3. \A k \in 1..Len(w) : p + k - 1 <= Len(x) => p + k - 1 <= Len(y) /\ y[p + k - 1] = x[p + k - 1]
  <2> SUFFICES ASSUME NEW k \in 1..Len(w), p + k - 1 <= Len(x)
               PROVE p + k - 1 <= Len(y) /\ y[p + k - 1] = x[p + k - 1]
    OBVIOUS
  <2>1. p + k - 1 \in 1..Len(x)
    BY <1>1
  <2> QED
    BY <1>1, <1>2, <2>1
<1> QED
  BY <1>3, Zenon DEF HasAt

LEMMA WriteStep ==
  ASSUME NEW M, NEW X \in Seq(Byte), NEW x \in Seq(Byte), NEW here \in 1..Len(X),
         Writing(M, X, x, here)
  PROVE LET e == emit_char(X, here)
        IN \E C : Writing(C, X, x \o e.bytes, here + e.len)
<1>0. here \in Nat \ {0} /\ Len(x) \in Nat
  BY LenProperties
<1>1. PICK e : e = emit_char(X, here)
  OBVIOUS
<1>2. PICK w : w = e.bytes
  OBVIOUS
<1>3. w \in Seq(Byte) /\ Len(w) \in Nat /\ e.len \in 1..4
  <2>1. w \in Seq(Byte) /\ e.len \in 1..4
    BY <1>1, <1>2, EmitBytes
  <2> QED
    BY <2>1, LenProperties
<1>4. PICK y : y = x \o w
  OBVIOUS
<1>5. /\ y \in Seq(Byte) /\ Len(y) = Len(x) + Len(w)
      /\ \A k \in 1..(Len(x) + Len(w)) : y[k] = IF k <= Len(x) THEN x[k] ELSE w[k - Len(x)]
  BY <1>3, <1>4, ConcatProperties
<1>6. PICK C : C = M \cup {<<Len(y) + 1, here + e.len>>}
  OBVIOUS
<1>7. HasAt(y, Len(x) + 1, w)
  <2> SUFFICES ASSUME NEW k \in 1..Len(w)
               PROVE /\ Len(x) + 1 + k - 1 <= Len(y)
                     /\ y[Len(x) + 1 + k - 1] = w[k]
    BY Zenon DEF HasAt
  <2>1. /\ Len(x) + 1 + k - 1 = Len(x) + k /\ Len(x) + k \in 1..(Len(x) + Len(w))
        /\ ~(Len(x) + k <= Len(x)) /\ (Len(x) + k) - Len(x) = k
    BY <1>0, <1>3
  <2> QED
    BY <1>5, <2>1
<1>8. <<2, 1>> \in C
  BY <1>6 DEF Writing
<1>9. ASSUME NEW p, NEW q, <<p, q>> \in C
      PROVE /\ p \in Nat \ {0} /\ q \in 1..(here + e.len)
            /\ q = here + e.len => p = Len(y) + 1
            /\ q # here + e.len => Step(C, X, y, p, q)
  <2>1. CASE <<p, q>> = <<Len(y) + 1, here + e.len>>
    <3>1. p = Len(y) + 1 /\ q = here + e.len
      BY <2>1
    <3>2. Len(y) + 1 \in Nat \ {0} /\ here + e.len \in 1..(here + e.len)
      BY <1>0, <1>3, <1>5, SMTT(40)
    <3> QED
      BY <3>1, <3>2, Zenon
  <2>2. CASE <<p, q>> \in M
    <3>1. /\ p \in Nat \ {0} /\ q \in 1..here
          /\ q = here => p = Len(x) + 1
          /\ q # here => Step(M, X, x, p, q)
      BY <2>2, Zenon DEF Writing
    <3>2. q \in 1..(here + e.len) /\ q # here + e.len
      BY <1>0, <1>3, <3>1, SMTT(40)
    <3>3. CASE q = here
      <4>1. HasAt(y, p, w) /\ p + Len(w) = Len(y) + 1
        BY <1>0, <1>3, <1>5, <1>7, <3>1, <3>3
      <4>2. <<p + Len(w), q + e.len>> \in C
        BY <1>6, <3>3, <4>1
      <4>3. Step(C, X, y, p, q)
        BY <1>1, <1>2, <3>3, <4>1, <4>2, Zenon DEF Step
      <4> QED
        BY <3>1, <3>2, <4>3, Zenon
    <3>4. CASE q # here
      <4>1. PICK a : a = emit_char(X, q)
        OBVIOUS
      <4>2. HasAt(x, p, a.bytes) /\ <<p + Len(a.bytes), q + a.len>> \in M
        BY <3>1, <3>4, <4>1, Zenon DEF Step
      <4>3. HasAt(y, p, a.bytes)
        BY <1>3, <1>4, <3>1, <4>2, HasAtLonger
      <4>4. <<p + Len(a.bytes), q + a.len>> \in C
        BY <1>6, <4>2
      <4>5. Step(C, X, y, p, q)
        BY <4>1, <4>3, <4>4, Zenon DEF Step
      <4> QED
        BY <3>1, <3>2, <4>5, Zenon
    <3> QED
      BY <3>3, <3>4
  <2> QED
    BY <1>6, <1>9, <2>1, <2>2
<1>10. Writing(C, X, y, here + e.len)
  BY <1>8, <1>9, Zenon DEF Writing
<1> QED
  BY <1>1, <1>2, <1>4, <1>10, Zenon

LEMMA WriteEnd ==
  ASSUME NEW M, NEW X \in Seq(Byte), NEW x \in Seq(Byte), Writing(M, X, x, Len(X) + 1)
  PROVE Written(M, X, Append(x, Quote))
<1>0. Len(x) \in Nat /\ <<Quote>> \in Seq(Byte) /\ Len(<<Quote>>) = 1
  BY LenProperties DEF Quote, Byte
<1>1. PICK y : y = Append(x, Quote)
  OBVIOUS
<1>2. y = x \o <<Quote>>
  BY <1>1, AppendIsConcat DEF Quote, Byte
<1>3. ByteAt(y, Len(x) + 1) = Quote
  <2>1. Len(y) = Len(x) + 1 /\ y[Len(x) + 1] = Quote
    BY <1>1, AppendProperties DEF Quote, Byte
  <2> QED
    BY <1>0, <2>1 DEF ByteAt
<1>4. ASSUME NEW p, NEW q, <<p, q>> \in M
      PROVE /\ p \in Nat \ {0} /\ q \in 1..(Len(X) + 1)
            /\ q = Len(X) + 1 => ByteAt(y, p) = Quote
            /\ q # Len(X) + 1 => Step(M, X, y, p, q)
  <2>1. /\ p \in Nat \ {0} /\ q \in 1..(Len(X) + 1)
        /\ q = Len(X) + 1 => p = Len(x) + 1
        /\ q # Len(X) + 1 => Step(M, X, x, p, q)
    BY <1>4, Zenon DEF Writing
  <2>2. PICK a : a = emit_char(X, q)
    OBVIOUS
  <2>3. ASSUME Step(M, X, x, p, q)
        PROVE Step(M, X, y, p, q)
    <3>1. HasAt(x, p, a.bytes) /\ <<p + Len(a.bytes), q + a.len>> \in M
      BY <2>2, <2>3, Zenon DEF Step
    <3>2. HasAt(y, p, a.bytes)
      BY <1>0, <1>2, <2>1, <3>1, HasAtLonger, Zenon
    <3> QED
      BY <2>2, <3>1, <3>2, Zenon DEF Step
  <2> QED
    BY <1>3, <2>1, <2>3, Zenon
<1>5. <<2, 1>> \in M
  BY Zenon DEF Writing
<1> QED
  BY <1>1, <1>4, <1>5, Zenon DEF Written

\* parse_string has come to place here of x, which is place q of X, and has
\* read o.
Reading(M, q, X, x, o, here) ==
  /\ Written(M, X, x)
  /\ <<here, q>> \in M
  /\ utf8_validate(X) => \E B : Walk(B, X) /\ q \in B /\ o = SubSeq(X, 1, q - 1)

LEMMA WriteBegin ==
  ASSUME NEW X
  PROVE \E M : Writing(M, X, <<Quote>>, 1)
<1>1. PICK M : M = {<<2, 1>>}
  OBVIOUS
<1>2. \A p, q : <<p, q>> \in M => p = 2 /\ q = 1
  BY <1>1
<1>3. 2 \in Nat \ {0} /\ 1 \in 1..1 /\ 2 = Len(<<Quote>>) + 1
  OBVIOUS
<1>4. <<2, 1>> \in M
  BY <1>1
<1>5. Writing(M, X, <<Quote>>, 1)
  BY <1>2, <1>3, <1>4, Zenon DEF Writing
<1> QED
  BY <1>5

LEMMA ReadBegin ==
  ASSUME NEW M, NEW X \in Seq(Byte), NEW x, Written(M, X, x)
  PROVE Reading(M, 1, X, x, <<>>, 2)
<1>1. <<2, 1>> \in M
  BY Zenon DEF Written
<1>2. <<>> = SubSeq(X, 1, 1 - 1)
  <2>1. Len(X) \in Nat
    BY LenProperties
  <2>2. PICK q : q = SubSeq(X, 1, 0)
    OBVIOUS
  <2>3. q \in Seq(Byte) /\ Len(q) = 0
    BY <2>1, <2>2, SubSeqProperties
  <2>4. q = <<>>
    BY <2>3, EmptySeq
  <2> QED
    BY <2>2, <2>4
<1>3. utf8_validate(X) => \E B : Walk(B, X) /\ 1 \in B
  BY ValidIsWalk
<1> QED
  BY <1>1, <1>2, <1>3, Zenon DEF Reading

LEMMA TwoPieces ==
  ASSUME NEW X \in Seq(Byte), NEW q \in 1..Len(X), NEW n \in 1..4, q + n - 1 <= Len(X)
  PROVE SubSeq(X, 1, q - 1) \o SubSeq(X, q, q + n - 1) = SubSeq(X, 1, (q + n) - 1)
<1>0. /\ Len(X) \in Nat /\ q - 1 \in (1 - 1)..Len(X) /\ q + n - 1 \in (q - 1)..Len(X)
      /\ (q + n) - 1 \in (1 - 1)..Len(X) /\ 1 \in 1..(Len(X) + 1) /\ q \in 1..(Len(X) + 1)
      /\ 1 \in 1..Len(X)
  BY LenProperties
<1>1. PICK a : a = SubSeq(X, 1, q - 1)
  OBVIOUS
<1>2. PICK t : t = SubSeq(X, q, q + n - 1)
  OBVIOUS
<1>3. PICK w : w = SubSeq(X, 1, (q + n) - 1)
  OBVIOUS
<1>4. PICK y : y = a \o t
  OBVIOUS
<1>5. a \in Seq(Byte) /\ Len(a) = q - 1 /\ \A k \in 1..(q - 1) : a[k] = X[k]
  <2>1. q - 1 \in (1 - 1)..Len(X) /\ 1 <= Len(X) + 1
    BY <1>0
  <2>2. a \in Seq(Byte) /\ Len(a) = (IF 1 <= q - 1 THEN (q - 1) - 1 + 1 ELSE 0)
        /\ \A k \in 1..((q - 1) - 1 + 1) : a[k] = X[1 + k - 1]
    BY <1>0, <1>1, <2>1, SubSeqProperties
  <2>3. \A k \in 1..(q - 1) : 1 + k - 1 = k /\ k \in 1..((q - 1) - 1 + 1)
    OBVIOUS
  <2> QED
    BY <1>0, <2>2, <2>3
<1>6. t \in Seq(Byte) /\ Len(t) = n /\ \A k \in 1..n : t[k] = X[q + k - 1]
  <2>1. q + n - 1 \in q..Len(X)
    BY <1>0
  <2> QED
    BY <1>0, <1>2, <2>1, SubSeqProperties
<1>7. w \in Seq(Byte) /\ Len(w) = q + n - 1 /\ \A k \in 1..(q + n - 1) : w[k] = X[k]
  <2>1. (q + n) - 1 \in 1..Len(X)
    BY <1>0
  <2> QED
    BY <1>0, <1>3, <2>1, SubSeqProperties, SMTT(40)
<1>8. /\ y \in Seq(Byte) /\ Len(y) = Len(a) + Len(t)
      /\ \A k \in 1..(Len(a) + Len(t)) : y[k] = IF k <= Len(a) THEN a[k] ELSE t[k - Len(a)]
  BY <1>4, <1>5, <1>6, ConcatProperties
<1>9. ASSUME NEW k \in 1..Len(w) PROVE y[k] = w[k]
  <2>1. k \in 1..(q + n - 1) /\ k \in 1..(Len(a) + Len(t))
    BY <1>0, <1>5, <1>6, <1>7
  <2>2. CASE k <= q - 1
    <3>1. k \in 1..(q - 1) /\ k <= Len(a)
      BY <1>5, <2>1, <2>2
    <3> QED
      BY <1>5, <1>7, <1>8, <2>1, <3>1
  <2>3. CASE ~(k <= q - 1)
    <3>1. k - (q - 1) \in 1..n /\ q + (k - (q - 1)) - 1 = k
      BY <1>0, <2>1, <2>3
    <3>2. y[k] = t[k - (q - 1)]
      BY <1>5, <1>8, <2>1, <2>3
    <3> QED
      BY <1>6, <1>7, <2>1, <3>1, <3>2
  <2> QED
    BY <2>2, <2>3
<1>10. Len(y) = Len(w)
  BY <1>0, <1>5, <1>6, <1>7, <1>8
<1>11. y = w
  BY <1>7, <1>8, <1>9, <1>10, SeqEqual
<1> QED
  BY <1>1, <1>2, <1>3, <1>4, <1>11

\* It refuses the string for a U+001F, or goes on.
Outcome(M, X, x, o, e) ==
  IF e = Failure THEN \E i \in DOMAIN X : X[i] = 31
  ELSE \E r : Reading(M, r, X, x, o \o e.bytes, e.next)

LEMMA ReadStep ==
  ASSUME NEW M, NEW q, NEW X \in Seq(Byte), NEW x \in Seq(Byte), NEW o, NEW here,
         Reading(M, q, X, x, o, here)
  PROVE /\ ByteAt(x, here) = Quote /\ utf8_validate(X) => o = X
        /\ ByteAt(x, here) # Quote => Outcome(M, X, x, o, parse_char(x, here))
<1>0. Len(X) \in Nat /\ DOMAIN X = 1..Len(X)
  BY LenProperties
<1>1. /\ here \in Nat \ {0} /\ q \in 1..(Len(X) + 1)
      /\ q = Len(X) + 1 => ByteAt(x, here) = Quote
      /\ q # Len(X) + 1 => Step(M, X, x, here, q)
  BY Zenon DEF Reading, Written
<1>2. CASE q = Len(X) + 1
  <2>1. utf8_validate(X) => o = SubSeq(X, 1, q - 1)
    BY Zenon DEF Reading
  <2>2. SubSeq(X, 1, q - 1) = X
    <3>1. PICK a : a = SubSeq(X, 1, Len(X))
      OBVIOUS
    <3>2. a \in Seq(Byte) /\ Len(a) = Len(X) /\ \A k \in 1..Len(X) : a[k] = X[k]
      <4>1. CASE Len(X) = 0
        BY <1>0, <3>1, <4>1, SubSeqProperties
      <4>2. CASE Len(X) # 0
        <5>1. Len(X) \in 1..Len(X) /\ 1 \in 1..Len(X)
          BY <1>0, <4>2
        <5> QED
          BY <1>0, <3>1, <5>1, SubSeqProperties
      <4> QED
        BY <4>1, <4>2
    <3>3. a = X
      BY <3>2, SeqEqual
    <3>4. q - 1 = Len(X)
      BY <1>0, <1>2
    <3> QED
      BY <3>1, <3>3, <3>4, Zenon
  <2> QED
    BY <1>1, <1>2, <2>1, <2>2
<1>3. CASE q # Len(X) + 1
  <2>0. q \in 1..Len(X) /\ q \in Nat \ {0} /\ q <= Len(X)
    BY <1>0, <1>1, <1>3
  <2>1. PICK a : a = emit_char(X, q)
    OBVIOUS
  <2>2. HasAt(x, here, a.bytes) /\ <<here + Len(a.bytes), q + a.len>> \in M
    BY <1>1, <1>3, <2>1, Zenon DEF Step
  <2>3. PICK w \in Nat \ {0} : w = Len(a.bytes)
    <3>1. Len(a.bytes) \in 1..6
      BY <2>0, <2>1, EmitBytes
    <3>2. \A k \in 1..6 : k \in Nat \ {0}
      OBVIOUS
    <3> QED
      BY <3>1, <3>2, Zenon
  <2>4. PICK n \in 1..4 : n = a.len
    BY <2>0, <2>1, EmitBytes
  <2>5. ReadBack(X, q, x, here, w, n)
    BY <1>1, <2>0, <2>1, <2>2, <2>3, <2>4, ParseEmitted, Zenon
  <2>6. PICK e : e = parse_char(x, here)
    OBVIOUS
  <2>7. ByteAt(x, here) # Quote
    BY <2>5, Zenon DEF ReadBack
  <2>8. CASE e = Failure
    <3>1. e.next # here + w
      <4>1. Failure.next = 0
        BY DEF Failure
      <4> QED
        BY <1>1, <2>8, <4>1
    <3>2. X[q] = 31
      BY <2>5, <2>6, <3>1, Zenon DEF ReadBack
    <3> QED
      BY <1>0, <2>0, <2>6, <2>7, <2>8, <3>2, Zenon DEF Outcome
  <2>9. CASE e # Failure
    <3>1. /\ e.next = here + w
          /\ utf8_validate_cz(X, q) # 0 => /\ utf8_validate_cz(X, q) = n
                                           /\ e.bytes = SubSeq(X, q, q + n - 1)
      BY <2>5, <2>6, <2>9, Zenon DEF ReadBack
    <3>2. <<e.next, q + n>> \in M
      BY <2>2, <2>3, <2>4, <3>1
    <3>3. ASSUME utf8_validate(X)
          PROVE \E B : Walk(B, X) /\ q + n \in B /\ o \o e.bytes = SubSeq(X, 1, (q + n) - 1)
      <4>1. PICK B : Walk(B, X) /\ q \in B /\ o = SubSeq(X, 1, q - 1)
        BY <3>3, Zenon DEF Reading
      <4>2. utf8_validate_cz(X, q) # 0 /\ q + utf8_validate_cz(X, q) \in B
        BY <1>3, <4>1, Zenon DEF Walk
      <4>3. n = utf8_validate_cz(X, q) /\ e.bytes = SubSeq(X, q, q + n - 1)
        BY <3>1, <4>2
      <4>4. q + n - 1 <= Len(X)
        BY <1>0, <2>0, <4>3, CharFits
      <4>5. o \o e.bytes = SubSeq(X, 1, (q + n) - 1)
        BY <2>0, <4>1, <4>3, <4>4, TwoPieces, Zenon
      <4> QED
        BY <4>1, <4>2, <4>3, <4>5, Zenon
    <3>4. Written(M, X, x)
      BY Zenon DEF Reading
    <3>5. Reading(M, q + n, X, x, o \o e.bytes, e.next)
      BY <3>2, <3>3, <3>4, Zenon DEF Reading
    <3> QED
      BY <2>6, <2>7, <2>9, <3>5, Zenon DEF Outcome
  <2> QED
    BY <2>8, <2>9
<1> QED
  BY <1>2, <1>3

Trip ==
  /\ phase = "emit" => \E M : Writing(M, input, out, s)
  /\ phase = "parse" /\ ~first => \E M, q : Reading(M, q, decoded, input, out, s)
  /\ RoundTrip

LEMMA TripInit == Init => Trip
<1> SUFFICES ASSUME Init PROVE Trip
  OBVIOUS
<1>1. phase = "emit" => \E M : Writing(M, input, out, s)
  BY WriteBegin DEF Init
<1>2. first /\ phase # "failed" /\ phase # "done"
  BY DEF Init
<1> QED
  BY <1>1, <1>2, Zenon DEF Trip, RoundTrip

LEMMA TripNext == BufferInv /\ Trip /\ [Next]_vars => Trip'
<1> SUFFICES ASSUME BufferInv, Trip, [Next]_vars PROVE Trip'
  OBVIOUS
<1>0. /\ input \in Seq(Byte) /\ out \in Seq(Byte) /\ decoded \in Seq(Byte)
      /\ s \in Nat \ {0} /\ s <= Len(input) + 1 /\ Len(input) \in Nat
  BY LenProperties DEF BufferInv, StringType
<1>1. CASE emit_string
  <2>1. PICK e : e = emit_char(input, s)
    OBVIOUS
  <2>2. /\ phase = "emit" /\ phase' = "emit" /\ input' = input
        /\ out' = out \o e.bytes /\ s' = s + e.len /\ s <= Len(input)
    BY <1>1, <2>1 DEF emit_string
  <2>3. PICK M : Writing(M, input, out, s)
    BY <2>2 DEF Trip
  <2>4. s \in 1..Len(input)
    BY <1>0, <2>2
  <2>5. \E C : Writing(C, input, out \o e.bytes, s + e.len)
    BY <1>0, <2>1, <2>3, <2>4, WriteStep, Zenon
  <2>6. \E C : Writing(C, input', out', s')
    BY <2>2, <2>5, Zenon
  <2> QED
    BY <2>2, <2>6 DEF Trip, RoundTrip
<1>2. CASE emit_end
  <2>1. /\ phase = "emit" /\ phase' = "parse" /\ decoded' = input /\ input' = Append(out, Quote)
        /\ s' = 2 /\ out' = <<>> /\ s > Len(input)
    BY <1>2 DEF emit_end
  <2>2. PICK M : Writing(M, input, out, s)
    BY <2>1 DEF Trip
  <2>3. s = Len(input) + 1
    BY <1>0, <2>1
  <2>4. Written(M, input, Append(out, Quote))
    BY <1>0, <2>2, <2>3, WriteEnd, Zenon
  <2>5. Reading(M, 1, input, Append(out, Quote), <<>>, 2)
    BY <1>0, <2>4, ReadBegin, Zenon
  <2>6. Reading(M, 1, decoded', input', out', s')
    BY <2>1, <2>5, Zenon
  <2> QED
    BY <2>1, <2>6 DEF Trip, RoundTrip
<1>3. CASE parse_string
  <2>1. PICK e : e = parse_char(input, s)
    OBVIOUS
  <2>2. /\ phase = "parse" /\ ByteAt(input, s) # Quote
        /\ first' = first /\ input' = input /\ decoded' = decoded
        /\ \/ e # Failure /\ out' = out \o e.bytes /\ s' = e.next /\ phase' = phase
           \/ e = Failure /\ phase' = "failed"
    BY <1>3, <2>1, Zenon DEF parse_string
  <2>3. CASE first
    BY <2>2, <2>3, Zenon DEF Trip, RoundTrip
  <2>4. CASE ~first
    <3>1. PICK M, q : Reading(M, q, decoded, input, out, s)
      BY <2>2, <2>4, Zenon DEF Trip
    <3>2. IF e = Failure THEN \E i \in DOMAIN decoded : decoded[i] = 31
          ELSE \E r : Reading(M, r, decoded, input, out \o e.bytes, e.next)
      <4>1. Outcome(M, decoded, input, out, e)
        BY <1>0, <2>1, <2>2, <3>1, ReadStep, Zenon
      <4> QED
        BY <4>1, Zenon DEF Outcome
    <3>3. CASE e = Failure
      <4>1. \E i \in DOMAIN decoded' : decoded'[i] = 31
        BY <2>2, <3>2, <3>3, Zenon
      <4>2. phase' = "failed"
        BY <2>2, <3>3
      <4> QED
        BY <4>1, <4>2 DEF Trip, RoundTrip
    <3>4. CASE e # Failure
      <4>1. \E r : Reading(M, r, decoded', input', out', s')
        BY <2>2, <3>2, <3>4, Zenon
      <4>2. phase' = "parse"
        BY <2>2, <3>4
      <4> QED
        BY <4>1, <4>2 DEF Trip, RoundTrip
    <3> QED
      BY <3>3, <3>4
  <2> QED
    BY <2>3, <2>4
<1>4. CASE parse_end
  <2>1. phase = "parse" /\ ByteAt(input, s) = Quote /\ first' = first /\ decoded' = decoded
    BY <1>4 DEF parse_end
  <2>2. CASE first
    <3>1. phase' = "emit" /\ input' = out /\ s' = 1 /\ out' = <<Quote>>
      BY <1>4, <2>2 DEF parse_end
    <3>2. \E M : Writing(M, out, <<Quote>>, 1)
      BY WriteBegin, Zenon
    <3>3. \E M : Writing(M, input', out', s')
      BY <3>1, <3>2, Zenon
    <3> QED
      BY <3>1, <3>3 DEF Trip, RoundTrip
  <2>3. CASE ~first
    <3>1. phase' = "done" /\ out' = out
      BY <1>4, <2>3 DEF parse_end
    <3>2. PICK M, q : Reading(M, q, decoded, input, out, s)
      BY <2>1, <2>3, Zenon DEF Trip
    <3>3. utf8_validate(decoded) => out = decoded
      BY <1>0, <2>1, <3>2, ReadStep, Zenon
    <3>4. utf8_validate(decoded') => out' = decoded'
      BY <2>1, <3>1, <3>3, Zenon
    <3> QED
      BY <3>1, <3>4 DEF Trip, RoundTrip
  <2> QED
    BY <2>2, <2>3
<1>5. CASE UNCHANGED vars
  <2>1. /\ phase' = phase /\ first' = first /\ input' = input /\ s' = s /\ out' = out
        /\ decoded' = decoded
    BY <1>5 DEF vars
  <2> QED
    BY <2>1, Zenon DEF Trip, RoundTrip
<1> QED
  BY <1>1, <1>2, <1>3, <1>4, <1>5 DEF Next

\* parse_string reads back what emit_string wrote, as the string it was made
\* of if that was UTF-8, and refuses it only for a U+001F in the string.
THEOREM StringsRoundTrip == Spec => []RoundTrip
<1>1. Spec => []Trip
  BY TripInit, TripNext, BufferAlways, PTL DEF Spec
<1>2. Trip => RoundTrip
  BY Zenon DEF Trip
<1> QED
  BY <1>1, <1>2, PTL

(***************************************************************************)
(* Numbers.                                                                *)
(***************************************************************************)
LEMMA NoDigit == \A c \in {0, 43, 45, 46, 69, 101} : ~is_digit(c)
BY DEF is_digit

\* The digits from place i up to place k.
Run(b, i, k) == i < k /\ \A m \in i..(k - 1) : is_digit(ByteAt(b, m))

\* What Digits gives: the place after the longest run.
Longest(b, i, k) == Run(b, i, k) /\ k <= Len(b) + 1 /\ ~is_digit(ByteAt(b, k))

\* The digits that begin at a place end where the first byte follows that is
\* none: the text ends with a NUL.
LEMMA DigitsIs ==
  ASSUME NEW b \in Seq(Byte), NEW i \in Nat \ {0}
  PROVE /\ Digits(b, i) \in Nat
        /\ Digits(b, i) = 0 <=> ~is_digit(ByteAt(b, i))
        /\ Digits(b, i) # 0 => Longest(b, i, Digits(b, i))
<1>1. PICK L \in Nat : L = Len(b)
  BY LenProperties
<1>2. CASE ~is_digit(ByteAt(b, i))
  BY <1>2 DEF Digits
<1>3. CASE is_digit(ByteAt(b, i))
  <2> DEFINE S == {k \in (i + 1)..(L + 1) : ~is_digit(ByteAt(b, k))}
             F(k) == ~is_digit(ByteAt(b, k)) /\ \A j \in i..(k - 1) : is_digit(ByteAt(b, j))
  <2>1. i <= L
    <3> SUFFICES ASSUME i > L PROVE FALSE
      BY <1>1
    <3>1. ByteAt(b, i) = 0
      BY <1>1, ByteAtType
    <3> QED
      BY <1>3, <3>1 DEF is_digit
  <2>2. L + 1 \in S
    <3>1. L + 1 \in Nat \ {0} /\ L + 1 > L /\ L + 1 \in (i + 1)..(L + 1)
      BY <2>1
    <3>2. ByteAt(b, L + 1) = 0
      BY <1>1, <3>1, ByteAtType
    <3>3. ~is_digit(ByteAt(b, L + 1))
      BY <3>2 DEF is_digit
    <3> QED
      BY <3>1, <3>3
  <2>3. PICK k \in S : \A j \in S : k <= j
    <3>1. S \in SUBSET Nat /\ S # {}
      BY <2>2
    <3> HIDE DEF S
    <3> QED
      BY <3>1, LeastNumber
  <2>4. k \in (i + 1)..(L + 1) /\ F(k)
    <3>1. ASSUME NEW j \in i..(k - 1) PROVE is_digit(ByteAt(b, j))
      <4>1. CASE j = i
        BY <1>3, <4>1
      <4>2. CASE j # i
        <5>1. j \in (i + 1)..(L + 1) /\ ~(k <= j)
          BY <4>2, <2>3
        <5> QED
          BY <5>1, <2>3
      <4> QED
        BY <4>1, <4>2
    <3> QED
      BY <2>3, <3>1
  <2>5. PICK d : d = CHOOSE q \in (i + 1)..(L + 1) : F(q)
    OBVIOUS
  <2>6. d \in (i + 1)..(L + 1) /\ F(d)
    <3> HIDE DEF F
    <3> QED
      BY <2>4, <2>5
  <2>7. Digits(b, i) = d
    BY <1>1, <1>3, <2>5 DEF Digits
  <2>8. d \in Nat /\ d # 0 /\ i < d /\ d <= L + 1
    BY <2>6
  <2> QED
    BY <1>1, <1>3, <2>6, <2>7, <2>8 DEF Longest, Run
<1> QED
  BY <1>2, <1>3

\* The longest run from a place contains every other, and ends with a run that
\* ends the text.
LEMMA LongestIs ==
  ASSUME NEW b \in Seq(Byte), NEW i \in Nat \ {0}, NEW k \in Nat, Run(b, i, k)
  PROVE /\ Digits(b, i) \in Nat
        /\ Digits(b, i) >= k
        /\ Digits(b, i) <= Len(b) + 1
        /\ Digits(b, i) > k => is_digit(ByteAt(b, k))
<1>1. PICK d \in Nat : d = Digits(b, i)
  BY DigitsIs
<1>2. is_digit(ByteAt(b, i)) /\ i < k
  BY DEF Run
<1>3. d # 0 /\ Longest(b, i, d)
  BY <1>1, <1>2, DigitsIs
<1>4. d >= k
  <2> SUFFICES ASSUME d < k PROVE FALSE
    BY <1>1
  <2>1. d \in i..(k - 1)
    BY <1>3 DEF Longest, Run
  <2> QED
    BY <1>3, <2>1 DEF Longest, Run
<1>5. ASSUME d > k PROVE is_digit(ByteAt(b, k))
  <2>1. k \in i..(d - 1)
    BY <1>2, <1>5
  <2> QED
    BY <1>3, <2>1 DEF Longest, Run
<1> QED
  BY <1>1, <1>3, <1>4, <1>5 DEF Longest

\* The pattern on the first n bytes of a text: the sign, the integer, the
\* fraction and the exponent end at places i, j, k and n.
IntAt(b, i, j) ==
  /\ i = 1 => ByteAt(b, 1) = 45
  /\ Run(b, i + 1, j + 1)
  /\ ByteAt(b, i + 1) = 48 => j = i + 1
FracAt(b, j, k) == j < k => ByteAt(b, j + 1) = 46 /\ Run(b, j + 2, k + 1)
ExpAt(b, k, n) ==
  k < n => /\ ByteAt(b, k + 1) \in {69, 101}
           /\ \/ Run(b, k + 2, n + 1)
              \/ k + 1 < n /\ ByteAt(b, k + 2) \in {43, 45} /\ Run(b, k + 3, n + 1)
NumberAt(b, n) ==
  \E i \in 0..1, j, k \in 1..n :
    j <= k /\ i < j /\ IntAt(b, i, j) /\ FracAt(b, j, k) /\ ExpAt(b, k, n)

\* The parts of parse_number.
SignEnd(b) == IF ByteAt(b, 1) = MinusSign THEN 2 ELSE 1
IntEnd(b, a) == IF ByteAt(b, a) = ZeroDigit THEN a + 1 ELSE Digits(b, a)
FracEnd(b, int) ==
  IF int # 0 /\ ByteAt(b, int) = DecimalPoint THEN Digits(b, int + 1) ELSE int
ExpEnd(b, frac) ==
  LET sign == IF frac # 0 /\ ByteAt(b, frac + 1) \in {PlusSign, MinusSign} THEN frac + 2 ELSE frac + 1
  IN IF frac # 0 /\ ByteAt(b, frac) \in {69, 101} THEN Digits(b, sign) ELSE frac

LEMMA NumberParts ==
  ASSUME NEW b
  PROVE parse_number(b, 1) = ExpEnd(b, FracEnd(b, IntEnd(b, SignEnd(b))))
BY DEF parse_number, SignEnd, IntEnd, FracEnd, ExpEnd

\* What the parts that parse_number takes are.
LEMMA SignIs ==
  ASSUME NEW b \in Seq(Byte)
  PROVE \E i \in 0..1 : SignEnd(b) = i + 1 /\ (i = 1 <=> ByteAt(b, 1) = 45)
BY DEF SignEnd, MinusSign

LEMMA IntIs ==
  ASSUME NEW b \in Seq(Byte), NEW i \in 0..1, i = 1 <=> ByteAt(b, 1) = 45,
         IntEnd(b, i + 1) # 0
  PROVE \E j \in 1..Len(b) : IntEnd(b, i + 1) = j + 1 /\ i < j /\ IntAt(b, i, j)
<1>1. PICK L \in Nat : L = Len(b)
  BY LenProperties
<1>2. PICK a \in Nat \ {0} : a = i + 1
  OBVIOUS
<1>3. CASE ByteAt(b, a) = 48
  <2>1. a <= L
    BY <1>1, <1>2, <1>3, ByteAtType
  <2>2. IntEnd(b, a) = a + 1
    BY <1>3 DEF IntEnd, ZeroDigit
  <2>3. Run(b, a, a + 1)
    <3>1. \A m \in a..((a + 1) - 1) : m = a
      OBVIOUS
    <3> QED
      BY <1>3, <3>1 DEF Run, is_digit
  <2>4. a \in 1..L /\ i < a /\ IntAt(b, i, a)
    BY <1>2, <2>1, <2>3 DEF IntAt
  <2> QED
    BY <1>1, <1>2, <2>2, <2>4
<1>4. CASE ByteAt(b, a) # 48
  <2>1. IntEnd(b, a) = Digits(b, a)
    BY <1>4 DEF IntEnd, ZeroDigit
  <2>2. Longest(b, a, Digits(b, a)) /\ Digits(b, a) \in Nat
    BY <1>2, <2>1, DigitsIs
  <2>3. PICK d \in Nat : d = Digits(b, a)
    BY <2>2
  <2>4. a < d /\ d <= L + 1 /\ Run(b, a, d)
    BY <1>1, <2>2, <2>3 DEF Longest, Run
  <2>5. PICK j \in 1..L : d = j + 1 /\ i < j
    <3>1. d - 1 \in 1..L /\ d = (d - 1) + 1 /\ i < d - 1
      BY <1>2, <2>4
    <3> QED
      BY <3>1
  <2>6. IntAt(b, i, j)
    BY <1>2, <1>4, <2>4, <2>5 DEF IntAt
  <2> QED
    BY <1>1, <1>2, <2>1, <2>3, <2>5, <2>6
<1> QED
  BY <1>3, <1>4

LEMMA FracIs ==
  ASSUME NEW b \in Seq(Byte), NEW j \in 1..Len(b), FracEnd(b, j + 1) # 0
  PROVE \E k \in 1..Len(b) : FracEnd(b, j + 1) = k + 1 /\ j <= k /\ FracAt(b, j, k)
<1>1. PICK L \in Nat : L = Len(b)
  BY LenProperties
<1>2. CASE ByteAt(b, j + 1) = 46
  <2>1. FracEnd(b, j + 1) = Digits(b, j + 2)
    <3>1. (j + 1) + 1 = j + 2 /\ j + 1 # 0
      BY <1>1
    <3> QED
      BY <1>2, <3>1 DEF FracEnd, DecimalPoint
  <2>2. Longest(b, j + 2, Digits(b, j + 2)) /\ Digits(b, j + 2) \in Nat
    <3>1. j + 2 \in Nat \ {0}
      BY <1>1
    <3> QED
      BY <2>1, <3>1, DigitsIs
  <2>3. PICK d \in Nat : d = Digits(b, j + 2)
    BY <2>2
  <2>4. j + 2 < d /\ d <= L + 1 /\ Run(b, j + 2, d)
    BY <1>1, <2>2, <2>3 DEF Longest, Run
  <2>5. PICK k \in 1..L : d = k + 1 /\ j <= k
    <3>1. d - 1 \in 1..L /\ d = (d - 1) + 1 /\ j <= d - 1
      BY <1>1, <2>4
    <3> QED
      BY <3>1
  <2>6. FracAt(b, j, k)
    BY <1>2, <2>4, <2>5 DEF FracAt
  <2> QED
    BY <1>1, <2>1, <2>3, <2>5, <2>6
<1>3. CASE ByteAt(b, j + 1) # 46
  <2>1. FracEnd(b, j + 1) = j + 1
    BY <1>3 DEF FracEnd, DecimalPoint
  <2>2. j <= j /\ FracAt(b, j, j)
    BY <1>1 DEF FracAt
  <2> QED
    BY <2>1, <2>2
<1> QED
  BY <1>2, <1>3

LEMMA ExpIs ==
  ASSUME NEW b \in Seq(Byte), NEW k \in 1..Len(b), ExpEnd(b, k + 1) # 0
  PROVE \E n \in 1..Len(b) : ExpEnd(b, k + 1) = n + 1 /\ k <= n /\ ExpAt(b, k, n)
<1>1. PICK L \in Nat : L = Len(b)
  BY LenProperties
<1>2. CASE ByteAt(b, k + 1) \in {69, 101}
  <2>1. PICK sign \in {k + 2, k + 3} : /\ ExpEnd(b, k + 1) = Digits(b, sign)
                                       /\ sign = k + 3 => ByteAt(b, k + 2) \in {43, 45}
    <3>1. (k + 1) + 1 = k + 2 /\ (k + 1) + 2 = k + 3 /\ k + 1 # 0 /\ k + 2 # k + 3
      BY <1>1
    <3> QED
      BY <1>2, <3>1 DEF ExpEnd, PlusSign, MinusSign
  <2>2. Longest(b, sign, Digits(b, sign)) /\ Digits(b, sign) \in Nat
    <3>1. sign \in Nat \ {0}
      BY <1>1
    <3> QED
      BY <2>1, <3>1, DigitsIs
  <2>3. PICK d \in Nat : d = Digits(b, sign)
    BY <2>2
  <2>4. sign < d /\ d <= L + 1 /\ Run(b, sign, d)
    BY <1>1, <2>2, <2>3 DEF Longest, Run
  <2>5. PICK n \in 1..L : d = n + 1 /\ k <= n /\ sign <= n
    <3>1. d - 1 \in 1..L /\ d = (d - 1) + 1 /\ k <= d - 1 /\ sign <= d - 1
      BY <1>1, <2>4
    <3> QED
      BY <3>1
  <2>6. ExpAt(b, k, n)
    <3>1. sign = k + 3 => k + 1 < n
      BY <1>1, <2>5
    <3> QED
      BY <1>2, <2>1, <2>4, <2>5, <3>1 DEF ExpAt
  <2> QED
    BY <1>1, <2>1, <2>3, <2>5, <2>6
<1>3. CASE ByteAt(b, k + 1) \notin {69, 101}
  <2>1. ExpEnd(b, k + 1) = k + 1
    BY <1>3 DEF ExpEnd
  <2>2. k <= k /\ ExpAt(b, k, k)
    BY <1>1 DEF ExpAt
  <2> QED
    BY <2>1, <2>2
<1> QED
  BY <1>2, <1>3

\* What parse_number takes is a number.
LEMMA TakesNumber ==
  ASSUME NEW b \in Seq(Byte), parse_number(b, 1) # 0
  PROVE \E n \in 1..Len(b) : parse_number(b, 1) = n + 1 /\ NumberAt(b, n)
<1>1. PICK L \in Nat : L = Len(b)
  BY LenProperties
<1>2. PICK i \in 0..1 : SignEnd(b) = i + 1 /\ (i = 1 <=> ByteAt(b, 1) = 45)
  BY SignIs
<1>3. ExpEnd(b, FracEnd(b, IntEnd(b, i + 1))) = parse_number(b, 1)
  BY <1>2, NumberParts
<1>4. FracEnd(b, IntEnd(b, i + 1)) # 0
  BY <1>3 DEF ExpEnd
<1>5. IntEnd(b, i + 1) # 0
  BY <1>4 DEF FracEnd
<1>6. PICK j \in 1..Len(b) : IntEnd(b, i + 1) = j + 1 /\ i < j /\ IntAt(b, i, j)
  BY <1>2, <1>5, IntIs
<1>7. PICK k \in 1..Len(b) : FracEnd(b, j + 1) = k + 1 /\ j <= k /\ FracAt(b, j, k)
  BY <1>4, <1>6, FracIs
<1>8. PICK n \in 1..Len(b) : ExpEnd(b, k + 1) = n + 1 /\ k <= n /\ ExpAt(b, k, n)
  BY <1>3, <1>6, <1>7, ExpIs
<1>9. j \in 1..n /\ k \in 1..n
  BY <1>1, <1>7, <1>8
<1>10. NumberAt(b, n)
  BY <1>6, <1>7, <1>8, <1>9 DEF NumberAt
<1> QED
  BY <1>3, <1>6, <1>7, <1>8, <1>10

\* A part that ends no sooner than place p, and later only past a digit.
Past(b, e, p) == e \in Nat /\ e >= p /\ e <= Len(b) + 1 /\ (e > p => is_digit(ByteAt(b, p)))

LEMMA PastRun ==
  ASSUME NEW b \in Seq(Byte), NEW i \in Nat \ {0}, NEW k \in Nat, Run(b, i, k)
  PROVE Past(b, Digits(b, i), k)
BY LongestIs DEF Past

LEMMA PastInt ==
  ASSUME NEW b \in Seq(Byte), NEW i \in 0..1, NEW j \in 1..Len(b), IntAt(b, i, j), i < j
  PROVE SignEnd(b) = i + 1 /\ Past(b, IntEnd(b, i + 1), j + 1)
<1>1. PICK L \in Nat : L = Len(b)
  BY LenProperties
<1>2. Run(b, i + 1, j + 1) /\ is_digit(ByteAt(b, i + 1))
  BY DEF IntAt, Run
<1>3. SignEnd(b) = i + 1
  <2>1. CASE i = 1
    BY <2>1 DEF IntAt, SignEnd, MinusSign
  <2>2. CASE i = 0
    BY <1>2, <2>2 DEF SignEnd, MinusSign, is_digit
  <2> QED
    BY <2>1, <2>2
<1>4. CASE ByteAt(b, i + 1) = 48
  <2>1. j = i + 1 /\ IntEnd(b, i + 1) = (i + 1) + 1
    BY <1>4 DEF IntAt, IntEnd, ZeroDigit
  <2> QED
    BY <1>1, <1>3, <2>1 DEF Past
<1>5. CASE ByteAt(b, i + 1) # 48
  <2>1. IntEnd(b, i + 1) = Digits(b, i + 1)
    BY <1>5 DEF IntEnd, ZeroDigit
  <2>2. i + 1 \in Nat \ {0} /\ j + 1 \in Nat
    OBVIOUS
  <2> QED
    BY <1>2, <1>3, <2>1, <2>2, PastRun
<1> QED
  BY <1>4, <1>5

LEMMA PastFrac ==
  ASSUME NEW b \in Seq(Byte), NEW j \in 1..Len(b), NEW k \in 1..Len(b), j <= k,
         NEW e, Past(b, e, j + 1), FracAt(b, j, k),
         j = k => ByteAt(b, j + 1) \in {0, 69, 101}
  PROVE Past(b, FracEnd(b, e), k + 1)
<1>1. PICK L \in Nat : L = Len(b)
  BY LenProperties
<1>2. CASE j < k
  <2>1. ByteAt(b, j + 1) = 46 /\ Run(b, j + 2, k + 1)
    BY <1>2 DEF FracAt
  <2>2. e = j + 1 /\ e # 0 /\ e + 1 = j + 2
    BY <1>1, <2>1, NoDigit DEF Past
  <2>3. FracEnd(b, e) = Digits(b, j + 2)
    BY <2>1, <2>2 DEF FracEnd, DecimalPoint
  <2>4. j + 2 \in Nat \ {0} /\ k + 1 \in Nat
    BY <1>1
  <2> QED
    BY <2>1, <2>3, <2>4, PastRun
<1>3. CASE j = k
  <2>1. e = j + 1
    BY <1>1, <1>3, NoDigit DEF Past
  <2>2. FracEnd(b, e) = e
    BY <1>3, <2>1 DEF FracEnd, DecimalPoint
  <2> QED
    BY <1>3, <2>2
<1> QED
  BY <1>1, <1>2, <1>3

LEMMA PastExp ==
  ASSUME NEW b \in Seq(Byte), NEW k \in 1..Len(b), NEW n \in 1..Len(b), k < n,
         NEW e, Past(b, e, k + 1), ExpAt(b, k, n)
  PROVE Past(b, ExpEnd(b, e), n + 1)
<1>1. PICK L \in Nat : L = Len(b)
  BY LenProperties
<1>2. ByteAt(b, k + 1) \in {69, 101}
  BY DEF ExpAt
<1>3. e = k + 1 /\ e # 0 /\ e + 1 = k + 2 /\ e + 2 = k + 3
  BY <1>1, <1>2, NoDigit DEF Past
<1>4. n + 1 \in Nat /\ k + 2 \in Nat \ {0} /\ k + 3 \in Nat \ {0}
  BY <1>1
<1>5. CASE Run(b, k + 2, n + 1)
  <2>1. is_digit(ByteAt(b, k + 2))
    <3>1. k + 2 \in (k + 2)..((n + 1) - 1)
      BY <1>1, <1>5 DEF Run
    <3> QED
      BY <1>5, <3>1 DEF Run
  <2>2. ByteAt(b, k + 2) \notin {43, 45}
    BY <2>1, NoDigit
  <2>3. ExpEnd(b, e) = Digits(b, k + 2)
    BY <1>2, <1>3, <2>2 DEF ExpEnd, PlusSign, MinusSign
  <2> QED
    BY <1>4, <1>5, <2>3, PastRun
<1>6. CASE ByteAt(b, k + 2) \in {43, 45} /\ Run(b, k + 3, n + 1)
  <2>1. ExpEnd(b, e) = Digits(b, k + 3)
    BY <1>2, <1>3, <1>6 DEF ExpEnd, PlusSign, MinusSign
  <2> QED
    BY <1>4, <1>6, <2>1, PastRun
<1> QED
  BY <1>5, <1>6 DEF ExpAt

\* A part begins no later than the next.
LEMMA PartsGrow ==
  ASSUME NEW b \in Seq(Byte), NEW e \in 2..(Len(b) + 1)
  PROVE /\ FracEnd(b, e) # 0 => FracEnd(b, e) \in e..(Len(b) + 1)
        /\ ExpEnd(b, e) # 0 => ExpEnd(b, e) \in e..(Len(b) + 1)
<1>1. PICK L \in Nat : L = Len(b)
  BY LenProperties
<1>2. PICK j \in 1..L : e = j + 1
  <2>1. e - 1 \in 1..L /\ e = (e - 1) + 1
    BY <1>1
  <2> QED
    BY <2>1
<1>3. ASSUME FracEnd(b, e) # 0 PROVE FracEnd(b, e) \in e..(L + 1)
  <2>1. PICK k \in 1..L : FracEnd(b, e) = k + 1 /\ j <= k
    BY <1>1, <1>2, <1>3, FracIs
  <2> QED
    BY <1>2, <2>1
<1>4. ASSUME ExpEnd(b, e) # 0 PROVE ExpEnd(b, e) \in e..(L + 1)
  <2>1. PICK n \in 1..L : ExpEnd(b, e) = n + 1 /\ j <= n
    BY <1>1, <1>2, <1>4, ExpIs
  <2> QED
    BY <1>2, <2>1
<1> QED
  BY <1>1, <1>3, <1>4

\* At the end of the text no part is left to take.
LEMMA PartsEnd ==
  ASSUME NEW b \in Seq(Byte)
  PROVE FracEnd(b, Len(b) + 1) = Len(b) + 1 /\ ExpEnd(b, Len(b) + 1) = Len(b) + 1
<1>1. Len(b) \in Nat /\ Len(b) + 1 \in Nat \ {0} /\ Len(b) + 1 > Len(b)
  BY LenProperties
<1>2. ByteAt(b, Len(b) + 1) = 0
  BY <1>1, ByteAtType
<1> QED
  BY <1>2 DEF FracEnd, ExpEnd, DecimalPoint

\* parse_number takes no less than a number that the text begins with, and
\* takes a text that is a number.
LEMMA TakesLongest ==
  ASSUME NEW b \in Seq(Byte), NEW n \in 1..Len(b), NumberAt(b, n)
  PROVE /\ parse_number(b, 1) # 0 => parse_number(b, 1) > n
        /\ n = Len(b) => parse_number(b, 1) # 0
<1>1. PICK L \in Nat : L = Len(b)
  BY LenProperties
<1>2. PICK i \in 0..1, j \in 1..n, k \in 1..n :
        j <= k /\ i < j /\ IntAt(b, i, j) /\ FracAt(b, j, k) /\ ExpAt(b, k, n)
  BY DEF NumberAt
<1>3. j \in 1..Len(b) /\ k \in 1..Len(b)
  BY <1>1
<1>4. SignEnd(b) = i + 1 /\ Past(b, IntEnd(b, i + 1), j + 1)
  BY <1>2, <1>3, PastInt
<1>5. PICK int : int = IntEnd(b, i + 1)
  OBVIOUS
<1>6. PICK frac : frac = FracEnd(b, int)
  OBVIOUS
<1>7. PICK next : next = ExpEnd(b, frac)
  OBVIOUS
<1>8. parse_number(b, 1) = next
  BY <1>4, <1>5, <1>6, <1>7, NumberParts
<1>9. int \in 2..(L + 1) /\ int >= j + 1
  BY <1>1, <1>4, <1>5 DEF Past
<1>10. next # 0 => frac # 0
  BY <1>7 DEF ExpEnd
<1>11. frac # 0 => frac \in int..(L + 1)
  BY <1>1, <1>6, <1>9, PartsGrow
<1>12. next # 0 => next \in frac..(L + 1)
  <2> SUFFICES ASSUME next # 0 PROVE next \in frac..(L + 1)
    OBVIOUS
  <2>1. frac \in 2..(Len(b) + 1)
    BY <1>1, <1>9, <1>10, <1>11
  <2> QED
    BY <1>1, <1>7, <2>1, PartsGrow
<1>13. CASE j = n
  <2>1. next # 0 => next > n
    BY <1>9, <1>10, <1>11, <1>12, <1>13
  <2>2. ASSUME n = L PROVE next # 0
    <3>1. int = Len(b) + 1
      BY <1>1, <1>9, <1>13, <2>2
    <3>2. next = Len(b) + 1
      BY <1>6, <1>7, <3>1, PartsEnd
    <3> QED
      BY <1>1, <3>2
  <2> QED
    BY <1>1, <1>8, <2>1, <2>2
<1>14. CASE j < n
  <2>1. Past(b, frac, k + 1)
    <3>1. j = k => ByteAt(b, j + 1) \in {0, 69, 101}
      BY <1>2, <1>14 DEF ExpAt
    <3> QED
      BY <1>2, <1>3, <1>4, <1>5, <1>6, <3>1, PastFrac
  <2>2. CASE k = n
    <3>1. next # 0 => next > n
      BY <1>1, <1>11, <1>12, <2>1, <2>2 DEF Past
    <3>2. ASSUME n = L PROVE next # 0
      <4>1. frac = Len(b) + 1
        BY <1>1, <2>1, <2>2, <3>2 DEF Past
      <4>2. next = Len(b) + 1
        BY <1>7, <4>1, PartsEnd
      <4> QED
        BY <1>1, <4>2
    <3> QED
      BY <1>1, <1>8, <3>1, <3>2
  <2>3. CASE k < n
    <3>1. Past(b, next, n + 1)
      BY <1>2, <1>3, <1>7, <2>1, <2>3, PastExp
    <3>2. next > n /\ next # 0
      BY <1>1, <3>1 DEF Past
    <3> QED
      BY <1>8, <3>2
  <2> QED
    BY <2>2, <2>3
<1> QED
  BY <1>13, <1>14

LEMMA SameAllDigits ==
  ASSUME NEW x \in Seq(Byte), NEW p \in Nat \ {0}, NEW q \in 0..Len(x)
  PROVE AllDigits(SubSeq(x, p, q)) <=> Run(x, p, q + 1)
<1>1. PICK L \in Nat : L = Len(x)
  BY LenProperties
<1>2. PICK t : t = SubSeq(x, p, q)
  OBVIOUS
<1>3. CASE p <= q
  <2>1. t \in Seq(Byte) /\ Len(t) = q - p + 1 /\ \A m \in 1..(q - p + 1) : t[m] = x[p + m - 1]
    BY <1>1, <1>2, <1>3, SubSeqProperties
  <2>2. t # <<>> /\ DOMAIN t = 1..(q - p + 1)
    BY <1>1, <1>3, <2>1, EmptySeq, LenProperties
  <2>3. \A m \in p..q : ByteAt(x, m) = x[m]
    BY <1>1 DEF ByteAt
  <2>4. ASSUME AllDigits(t), NEW m \in p..q PROVE is_digit(ByteAt(x, m))
    <3>1. (m - p + 1) \in 1..(q - p + 1) /\ p + (m - p + 1) - 1 = m
      BY <1>1
    <3>2. t[m - p + 1] = x[m]
      BY <2>1, <3>1
    <3>3. t[m - p + 1] \in 48..57
      BY <2>2, <2>4, <3>1 DEF AllDigits
    <3> QED
      BY <2>3, <3>2, <3>3 DEF is_digit
  <2>5. ASSUME \A m \in p..q : is_digit(ByteAt(x, m)), NEW m \in 1..(q - p + 1) PROVE t[m] \in 48..57
    <3>1. p + m - 1 \in p..q
      BY <1>1
    <3> QED
      BY <2>1, <2>3, <2>5, <3>1, ZenonT(60) DEF is_digit
  <2>6. (q + 1) - 1 = q /\ p < q + 1
    BY <1>1, <1>3
  <2>7. AllDigits(t) => Run(x, p, q + 1)
    BY <2>4, <2>6 DEF Run
  <2>8. Run(x, p, q + 1) => AllDigits(t)
    BY <2>2, <2>5, <2>6 DEF Run, AllDigits
  <2> QED
    BY <1>2, <2>7, <2>8
<1>4. CASE ~(p <= q)
  <2>1. t = <<>>
    BY <1>1, <1>2, <1>4, SubSeqEmpty
  <2>2. ~(p < q + 1)
    BY <1>1, <1>4
  <2> QED
    BY <1>2, <2>1, <2>2 DEF AllDigits, Run
<1> QED
  BY <1>3, <1>4

\* A part of a text: its length, its first bytes and its tails.
PartOf(x, p, q, t) ==
  /\ t # <<>> <=> p <= q
  /\ p <= q => /\ Len(t) = q - p + 1
               /\ t[1] = ByteAt(x, p)
               /\ Tail(t) = SubSeq(x, p + 1, q)
  /\ p < q => /\ t[2] = ByteAt(x, p + 1)
              /\ Tail(Tail(t)) = SubSeq(x, p + 2, q)

LEMMA PartIs ==
  ASSUME NEW x \in Seq(Byte), NEW p \in Nat \ {0}, NEW q \in 0..Len(x)
  PROVE PartOf(x, p, q, SubSeq(x, p, q))
<1>1. PICK L \in Nat : L = Len(x)
  BY LenProperties
<1>0. PICK t : t = SubSeq(x, p, q)
  OBVIOUS
<1>2. ASSUME NEW i \in Nat \ {0}, i <= q PROVE Tail(SubSeq(x, i, q)) = SubSeq(x, i + 1, q)
  <2>1. i \in 1..Len(x) /\ q \in i..Len(x)
    BY <1>1, <1>2
  <2> QED
    BY <2>1, HeadTailOfSubSeq
<1>3. CASE p <= q
  <2>1. t \in Seq(Byte) /\ Len(t) = q - p + 1 /\ \A m \in 1..(q - p + 1) : t[m] = x[p + m - 1]
    BY <1>0, <1>1, <1>3, SubSeqProperties
  <2>2. t # <<>>
    BY <1>1, <1>3, <2>1, EmptySeq
  <2>3. t[1] = ByteAt(x, p)
    <3>1. 1 \in 1..(q - p + 1) /\ p + 1 - 1 = p /\ p <= L
      BY <1>1, <1>3
    <3> QED
      BY <1>1, <2>1, <3>1 DEF ByteAt
  <2>4. Tail(t) = SubSeq(x, p + 1, q)
    BY <1>0, <1>2, <1>3
  <2>5. ASSUME p < q PROVE t[2] = ByteAt(x, p + 1) /\ Tail(Tail(t)) = SubSeq(x, p + 2, q)
    <3>1. 2 \in 1..(q - p + 1) /\ p + 2 - 1 = p + 1 /\ p + 1 <= L /\ (p + 1) + 1 = p + 2
          /\ p + 1 \in Nat \ {0} /\ p + 1 <= q
      BY <1>1, <2>5
    <3>2. t[2] = ByteAt(x, p + 1)
      BY <1>1, <2>1, <3>1 DEF ByteAt
    <3> QED
      BY <1>2, <2>4, <3>1, <3>2
  <2> QED
    BY <1>0, <1>3, <2>1, <2>2, <2>3, <2>4, <2>5 DEF PartOf
<1>4. CASE ~(p <= q)
  <2>1. t = <<>>
    BY <1>0, <1>1, <1>4, SubSeqEmpty
  <2> QED
    <3>1. ~(p < q)
      BY <1>1, <1>4
    <3> QED
      BY <1>0, <1>4, <2>1, <3>1 DEF PartOf
<1> QED
  BY <1>3, <1>4


\* The pattern, place by place.
LEMMA IntPart ==
  ASSUME NEW x \in Seq(Byte), NEW i \in 0..1, NEW j \in 1..Len(x), i < j
  PROVE IntAt(x, i, j) <=> (i = 1 => x[1] = 45) /\ IsInt(SubSeq(x, i + 1, j))
<1>1. PICK L \in Nat : L = Len(x)
  BY LenProperties
<1>2. i + 1 \in Nat \ {0} /\ j \in 0..Len(x) /\ 1 <= Len(x) /\ i + 1 <= j
  BY <1>1
<1>3. ByteAt(x, 1) = x[1]
  BY <1>2 DEF ByteAt
<1>4. PICK t : t = SubSeq(x, i + 1, j)
  OBVIOUS
<1>5. AllDigits(t) <=> Run(x, i + 1, j + 1)
  BY <1>2, <1>4, SameAllDigits
<1>6. PartOf(x, i + 1, j, t)
  BY <1>2, <1>4, PartIs
<1>7. Len(t) = j - (i + 1) + 1 /\ t[1] = ByteAt(x, i + 1)
  BY <1>2, <1>6 DEF PartOf
<1>8. Len(t) = 1 <=> j = i + 1
  BY <1>1, <1>7
<1> QED
  BY <1>3, <1>4, <1>5, <1>7, <1>8 DEF IntAt, IsInt

LEMMA FracPart ==
  ASSUME NEW x \in Seq(Byte), NEW j \in 1..Len(x), NEW k \in 1..Len(x)
  PROVE FracAt(x, j, k) <=> IsFraction(SubSeq(x, j + 1, k))
<1>1. PICK L \in Nat : L = Len(x)
  BY LenProperties
<1>2. j + 1 \in Nat \ {0} /\ j + 2 \in Nat \ {0} /\ (j + 1) + 1 = j + 2 /\ k \in 0..Len(x)
  BY <1>1
<1>3. PICK t : t = SubSeq(x, j + 1, k)
  OBVIOUS
<1>4. PartOf(x, j + 1, k, t)
  BY <1>2, <1>3, PartIs
<1>5. AllDigits(SubSeq(x, j + 2, k)) <=> Run(x, j + 2, k + 1)
  BY <1>2, SameAllDigits
<1>6. j + 1 <= k <=> j < k
  BY <1>1
<1>7. t # <<>> <=> j < k
  BY <1>4, <1>6 DEF PartOf
<1>8. j < k => t[1] = ByteAt(x, j + 1) /\ Tail(t) = SubSeq(x, j + 2, k)
  BY <1>2, <1>4, <1>6 DEF PartOf
<1> QED
  BY <1>3, <1>5, <1>7, <1>8 DEF FracAt, IsFraction

LEMMA ExpPart ==
  ASSUME NEW x \in Seq(Byte), NEW k \in 1..Len(x)
  PROVE ExpAt(x, k, Len(x)) <=> IsExponent(SubSeq(x, k + 1, Len(x)))
<1>1. PICK n \in Nat : n = Len(x)
  BY LenProperties
<1>2. /\ k + 1 \in Nat \ {0} /\ k + 2 \in Nat \ {0} /\ k + 3 \in Nat \ {0}
      /\ (k + 1) + 1 = k + 2 /\ (k + 1) + 2 = k + 3 /\ n \in 0..Len(x)
  BY <1>1
<1>3. PICK t : t = SubSeq(x, k + 1, n)
  OBVIOUS
<1>4. PartOf(x, k + 1, n, t)
  BY <1>2, <1>3, PartIs
<1>5. AllDigits(SubSeq(x, k + 2, n)) <=> Run(x, k + 2, n + 1)
  BY <1>2, SameAllDigits
<1>6. AllDigits(SubSeq(x, k + 3, n)) <=> Run(x, k + 3, n + 1)
  BY <1>2, SameAllDigits
<1>7. k + 1 <= n <=> k < n
  BY <1>1
<1>8. t # <<>> <=> k < n
  BY <1>4, <1>7 DEF PartOf
<1>9. k < n => /\ t[1] = ByteAt(x, k + 1)
               /\ Tail(t) = SubSeq(x, k + 2, n)
               /\ Len(t) = n - (k + 1) + 1
  BY <1>2, <1>4, <1>7 DEF PartOf
<1>10. k < n => (Len(t) > 1 <=> k + 1 < n)
  BY <1>1, <1>9
<1>11. k + 1 < n => t[2] = ByteAt(x, k + 2) /\ Tail(Tail(t)) = SubSeq(x, k + 3, n)
  BY <1>2, <1>4 DEF PartOf
<1>12. ExpAt(x, k, n) <=> IsExponent(t)
  <2>1. CASE k < n
    BY <1>5, <1>6, <1>8, <1>9, <1>10, <1>11, <2>1 DEF ExpAt, IsExponent
  <2>2. CASE ~(k < n)
    BY <1>8, <2>2 DEF ExpAt, IsExponent
  <2> QED
    BY <2>1, <2>2
<1> QED
  BY <1>1, <1>3, <1>12

LEMMA PatternIs ==
  ASSUME NEW x \in Seq(Byte)
  PROVE IsNumber(x) <=> NumberAt(x, Len(x))
<1>1. PICK L \in Nat : L = Len(x)
  BY LenProperties
<1>2. ASSUME NEW i \in 0..1, NEW j \in 1..Len(x), NEW k \in 1..Len(x), i < j
      PROVE /\ IntAt(x, i, j) <=> (i = 1 => x[1] = 45) /\ IsInt(SubSeq(x, i + 1, j))
            /\ FracAt(x, j, k) <=> IsFraction(SubSeq(x, j + 1, k))
            /\ ExpAt(x, k, Len(x)) <=> IsExponent(SubSeq(x, k + 1, Len(x)))
  BY <1>2, IntPart, FracPart, ExpPart
<1> QED
  BY <1>2 DEF IsNumber, NumberAt

LEMMA PrefixPattern ==
  ASSUME NEW b \in Seq(Byte), NEW n \in 1..Len(b)
  PROVE IsNumber(SubSeq(b, 1, n)) <=> NumberAt(b, n)
<1>1. PICK L \in Nat : L = Len(b)
  BY LenProperties
<1>2. PICK x : x = SubSeq(b, 1, n)
  OBVIOUS
<1>3. x \in Seq(Byte) /\ Len(x) = n /\ \A m \in 1..n : x[m] = b[m]
  <2>1. \A m \in 1..n : b[m] \in Byte
    BY <1>1, ElementOfSeq
  <2>2. n - 1 + 1 = n /\ 1 <= n /\ \A m \in 1..n : 1 + m - 1 = m
    BY <1>1
  <2> QED
    BY <1>1, <1>2, <2>1, <2>2, SubSeqProperties
<1>4. \A m \in 1..n : ByteAt(x, m) = ByteAt(b, m)
  BY <1>1, <1>3 DEF ByteAt
<1>5. ASSUME NEW p \in Nat \ {0}, NEW q \in 0..n
      PROVE Run(x, p, q + 1) <=> Run(b, p, q + 1)
  <2>1. \A m \in p..((q + 1) - 1) : m \in 1..n
    BY <1>1
  <2> QED
    BY <1>4, <2>1 DEF Run
<1>6. ASSUME NEW i \in 0..1, NEW j \in 1..n, NEW k \in 1..n, i < j, j <= k
      PROVE /\ IntAt(x, i, j) <=> IntAt(b, i, j)
            /\ FracAt(x, j, k) <=> FracAt(b, j, k)
            /\ ExpAt(x, k, n) <=> ExpAt(b, k, n)
  <2>1. /\ 1 \in 1..n /\ i + 1 \in 1..n /\ i + 1 \in Nat \ {0}
        /\ j + 2 \in Nat \ {0} /\ k + 2 \in Nat \ {0} /\ k + 3 \in Nat \ {0}
        /\ j \in 0..n /\ k \in 0..n /\ n \in 0..n
        /\ j < k => j + 1 \in 1..n
        /\ k < n => k + 1 \in 1..n
        /\ k + 1 < n => k + 2 \in 1..n
    BY <1>1, <1>6
  <2>2. IntAt(x, i, j) <=> IntAt(b, i, j)
    BY <1>4, <1>5, <2>1 DEF IntAt
  <2>3. FracAt(x, j, k) <=> FracAt(b, j, k)
    BY <1>4, <1>5, <2>1 DEF FracAt
  <2>4. ExpAt(x, k, n) <=> ExpAt(b, k, n)
    BY <1>4, <1>5, <2>1 DEF ExpAt
  <2> QED
    BY <2>2, <2>3, <2>4
<1>7. NumberAt(x, n) <=> NumberAt(b, n)
  BY <1>6 DEF NumberAt
<1>8. IsNumber(x) <=> NumberAt(x, n)
  BY <1>3, PatternIs
<1> QED
  BY <1>2, <1>7, <1>8

LEMMA NumbersMatch ==
  ASSUME NEW b \in Seq(Byte)
  PROVE ExactNumber(b)
<1>1. PICK L \in Nat : L = Len(b)
  BY LenProperties
<1>2. PICK next : next = parse_number(b, 1)
  OBVIOUS
<1>3. ASSUME next # 0 PROVE \E n \in 1..L : next = n + 1 /\ NumberAt(b, n)
  BY <1>1, <1>2, <1>3, TakesNumber
<1>4. ASSUME NEW n \in 1..L, NumberAt(b, n)
      PROVE /\ next # 0 => next > n
            /\ n = L => next # 0
  BY <1>1, <1>2, <1>4, TakesLongest
<1>5. next = L + 1 <=> IsNumber(b)
  <2>1. IsNumber(b) <=> NumberAt(b, L)
    BY <1>1, PatternIs
  <2>2. ASSUME next = L + 1 PROVE NumberAt(b, L)
    <3>1. next # 0
      BY <1>1, <2>2
    <3>2. PICK n \in 1..L : next = n + 1 /\ NumberAt(b, n)
      BY <1>3, <3>1
    <3>3. n = L
      BY <1>1, <2>2, <3>2
    <3> QED
      BY <3>2, <3>3
  <2>3. ASSUME NumberAt(b, L) PROVE next = L + 1
    <3>1. L \in 1..L
      BY <1>1, <2>3 DEF NumberAt
    <3>2. next # 0 /\ next > L
      BY <1>4, <2>3, <3>1
    <3>3. PICK n \in 1..L : next = n + 1
      BY <1>3, <3>2
    <3> QED
      BY <1>1, <3>2, <3>3
  <2> QED
    BY <2>1, <2>2, <2>3
<1>6. ASSUME next # 0
      PROVE /\ IsNumber(SubSeq(b, 1, next - 1))
            /\ \A n \in next..L : ~IsNumber(SubSeq(b, 1, n))
  <2>1. PICK m \in 1..L : next = m + 1 /\ NumberAt(b, m)
    BY <1>3, <1>6
  <2>2. next - 1 = m
    BY <2>1
  <2>3. IsNumber(SubSeq(b, 1, m))
    BY <1>1, <2>1, PrefixPattern
  <2>4. ASSUME NEW n \in next..L, IsNumber(SubSeq(b, 1, n)) PROVE FALSE
    <3>1. n \in 1..L /\ n \in Nat /\ ~(next > n)
      BY <1>1, <2>1
    <3>2. NumberAt(b, n)
      BY <1>1, <2>4, <3>1, PrefixPattern
    <3> QED
      BY <1>4, <1>6, <3>1, <3>2
  <2> QED
    BY <2>2, <2>3, <2>4
<1> QED
  BY <1>1, <1>2, <1>5, <1>6 DEF ExactNumber, number_is_valid

\* What grows as a number is a text.
NumberInv == phase = "number" => input \in Seq(Byte)

\* "This function takes the strict approach": the literals that number_is_valid
\* accepts and parse_number takes (util/json.c) are exactly the numbers of the
\* pattern, and the longest ones, whatever the text.
THEOREM NumbersExact == TextSpec => []NumberExact
<1>1. Init \/ GrowInit => NumberInv
  <2>1. <<>> \in Seq(Byte)
    BY EmptySeq
  <2> QED
    BY <2>1 DEF Init, GrowInit, NumberInv
<1>2. NumberInv /\ [Next \/ Grow]_vars => NumberInv'
  <2> SUFFICES ASSUME NumberInv, [Next \/ Grow]_vars, phase' = "number"
               PROVE input' \in Seq(Byte)
    BY DEF NumberInv
  <2>1. CASE Grow
    <3>1. phase = "number" /\ input \in Seq(Byte)
      BY <2>1 DEF Grow, NumberInv
    <3>2. PICK c \in NumberBytes : input' = Append(input, c)
      BY <2>1, <3>1 DEF Grow
    <3>3. c \in Byte
      BY <3>2 DEF NumberBytes, Byte
    <3> QED
      BY <3>1, <3>2, <3>3, AppendProperties
  <2>2. CASE UNCHANGED vars
    BY <2>2 DEF vars, NumberInv
  <2>3. CASE Next
    BY <2>3 DEF Next, emit_string, emit_end, parse_string, parse_end
  <2> QED
    BY <2>1, <2>2, <2>3
<1>3. NumberInv => NumberExact
  BY NumbersMatch DEF NumberInv, NumberExact
<1> QED
  BY <1>1, <1>2, <1>3, PTL DEF TextSpec
=============================================================================
