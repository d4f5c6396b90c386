--------------------------- MODULE SdsTextProofs ---------------------------
(***************************************************************************)
(* Proofs about the functions of util/sds.c that split lines, write their  *)
(* parts again and write numbers, for lines, separators, arguments and     *)
(* numbers of any size.                                                    *)
(***************************************************************************)
EXTENDS SdsText, FiniteSetTheorems, SequenceTheorems, WellFoundedInduction, TLAPS

(***************************************************************************)
(* Flattened sequences, by the recursive function of FlattenSeq.           *)
(***************************************************************************)

\* A set of numbers has a least member.
LEMMA LeastNumber == ASSUME NEW S \in SUBSET Nat, S # {}
                     PROVE \E k \in S : \A j \in S : k <= j
<1> DEFINE T == {1..k : k \in S}
<1>1. T # {} /\ T \subseteq FiniteSubsetsOf(Nat)
  <2>1. \A k \in S : 1..k \in SUBSET Nat /\ IsFiniteSet(1..k)
    BY FS_Interval
  <2> QED
    BY <2>1 DEF FiniteSubsetsOf
<1>2. \E x \in T : \A y \in T : ~(<<y, x>> \in StrictSubsetOrdering(Nat))
  <2> HIDE DEF T
  <2> QED
    BY <1>1, WFMin, FS_StrictSubsetOrderingWellFounded
<1>3. PICK k \in S : \A j \in S : ~(<<1..j, 1..k>> \in StrictSubsetOrdering(Nat))
  BY <1>2
<1> SUFFICES ASSUME NEW j \in S, j < k
             PROVE FALSE
  OBVIOUS
<1>4. 1..j \subseteq 1..k /\ k \in 1..k /\ k \notin 1..j
  OBVIOUS
<1>5. 1..j \in SUBSET Nat /\ 1..k \in SUBSET Nat
  OBVIOUS
<1> QED
  BY <1>3, <1>4, <1>5 DEF StrictSubsetOrdering

\* f puts the first n members of ss together, one after the other.
Flattens(f, ss, n) == f = [i \in 1..n |-> IF i = 1 THEN ss[i] ELSE f[i - 1] \o ss[i]]

LEMMA FlattensAt ==
  ASSUME NEW f, NEW ss, NEW n \in Nat, Flattens(f, ss, n), NEW i \in 1..n
  PROVE f[i] = IF i = 1 THEN ss[i] ELSE f[i - 1] \o ss[i]
BY DEF Flattens

LEMMA FlattensExists ==
  ASSUME NEW ss, NEW n \in Nat
  PROVE \E f : Flattens(f, ss, n)
<1> DEFINE Bad == {m \in Nat : ~ \E f : Flattens(f, ss, m)}
<1> SUFFICES ASSUME Bad # {}
             PROVE FALSE
  OBVIOUS
<1>1. PICK m \in Bad : \A j \in Bad : m <= j
  BY LeastNumber
<1>2. m # 0
  <2>1. [i \in 1..0 |-> 0] = [i \in 1..0 |-> IF i = 1 THEN ss[i] ELSE [j \in 1..0 |-> 0][i - 1] \o ss[i]]
    OBVIOUS
  <2>2. Flattens([i \in 1..0 |-> 0], ss, 0)
    BY <2>1 DEF Flattens
  <2> QED
    BY <2>2
<1>3. PICK r \in Nat : m = r + 1
  BY <1>2
<1>4. PICK f : Flattens(f, ss, r)
  BY <1>1, <1>3
<1> DEFINE g == [i \in 1..m |-> IF i < m THEN f[i]
                                ELSE IF m = 1 THEN ss[m] ELSE f[r] \o ss[m]]
<1>5. \A i \in 1..m : g[i] = IF i = 1 THEN ss[i] ELSE g[i - 1] \o ss[i]
  <2>1. \A i \in 1..r : f[i] = IF i = 1 THEN ss[i] ELSE f[i - 1] \o ss[i]
    BY <1>4, FlattensAt
  <2>2. \A i \in 1..r : g[i] = f[i]
    BY <1>3
  <2>3. g[m] = IF m = 1 THEN ss[m] ELSE f[r] \o ss[m]
    BY <1>3
  <2> HIDE DEF g
  <2> SUFFICES ASSUME NEW i \in 1..m
               PROVE g[i] = IF i = 1 THEN ss[i] ELSE g[i - 1] \o ss[i]
    OBVIOUS
  <2>4. CASE i = m
    BY <2>2, <2>3, <2>4, <1>3
  <2>5. CASE i # m
    <3>1. i \in 1..r /\ (i # 1 => i - 1 \in 1..r)
      BY <2>5, <1>3
    <3> QED
      BY <3>1, <2>1, <2>2
  <2> QED
    BY <2>4, <2>5
<1>6. g = [i \in 1..m |-> IF i = 1 THEN ss[i] ELSE g[i - 1] \o ss[i]]
  <2>1. DOMAIN g = 1..m /\ g = [i \in 1..m |-> g[i]]
    OBVIOUS
  <2> HIDE DEF g
  <2> QED
    BY <1>5, <2>1
<1> QED
  BY <1>1, <1>6 DEF Flattens

\* What FlattenSeq is.
LEMMA FlattenDef ==
  ASSUME NEW ss, Len(ss) \in Nat \ {0}
  PROVE \E f : Flattens(f, ss, Len(ss)) /\ FlattenSeq(ss) = f[Len(ss)]
<1> DEFINE f == CHOOSE f : Flattens(f, ss, Len(ss))
<1>1. Flattens(f, ss, Len(ss))
  BY FlattensExists
<1>2. FlattenSeq(ss) = f[Len(ss)]
  BY Zenon DEF FlattenSeq, Flattens
<1> QED
  BY <1>1, <1>2

LEMMA FlattenEmpty == FlattenSeq(<<>>) = <<>>
BY DEF FlattenSeq

LEMMA FlattensType ==
  ASSUME NEW S, NEW ss \in Seq(Seq(S)), NEW f, Flattens(f, ss, Len(ss)), NEW i \in 1..Len(ss)
  PROVE f[i] \in Seq(S)
<1> DEFINE Bad == {m \in 1..Len(ss) : f[m] \notin Seq(S)}
<1> SUFFICES ASSUME Bad # {}
             PROVE FALSE
  OBVIOUS
<1>0. Len(ss) \in Nat /\ \A m \in 1..Len(ss) : ss[m] \in Seq(S)
  BY LenProperties, ElementOfSeq
<1>1. PICK m \in Bad : \A j \in Bad : m <= j
  <2>1. Bad \in SUBSET Nat
    BY <1>0
  <2> QED
    BY <2>1, LeastNumber
<1>2. f[m] = IF m = 1 THEN ss[m] ELSE f[m - 1] \o ss[m]
  BY <1>0, FlattensAt
<1>3. m # 1 => f[m - 1] \in Seq(S)
  BY <1>1, <1>0
<1> QED
  BY <1>0, <1>2, <1>3, ConcatProperties, ZenonT(60)

LEMMA FlattenType ==
  ASSUME NEW S, NEW ss \in Seq(Seq(S))
  PROVE FlattenSeq(ss) \in Seq(S)
<1>1. CASE Len(ss) = 0
  BY <1>1, FlattenEmpty, EmptySeq
<1>2. CASE Len(ss) # 0
  <2>1. PICK f : Flattens(f, ss, Len(ss)) /\ FlattenSeq(ss) = f[Len(ss)]
    BY <1>2, LenProperties, FlattenDef
  <2> QED
    BY <2>1, <1>2, LenProperties, FlattensType
<1> QED
  BY <1>1, <1>2

\* One sequence more.
LEMMA FlattenAppend ==
  ASSUME NEW S, NEW ss \in Seq(Seq(S)), NEW x \in Seq(S)
  PROVE FlattenSeq(Append(ss, x)) = FlattenSeq(ss) \o x
<1> DEFINE tt == Append(ss, x)
           n == Len(ss)
<1>1. /\ n \in Nat /\ tt \in Seq(Seq(S)) /\ Len(tt) = n + 1
      /\ \A i \in 1..n : tt[i] = ss[i]
      /\ tt[n + 1] = x
  BY AppendProperties, LenProperties
<1> HIDE DEF tt, n
<1>2. PICK g : Flattens(g, tt, n + 1) /\ FlattenSeq(tt) = g[n + 1]
  <2>1. Len(tt) \in Nat \ {0}
    BY <1>1
  <2> QED
    BY <1>1, <2>1, FlattenDef
<1>3. g[n + 1] = IF n = 0 THEN x ELSE g[n] \o x
  BY <1>1, <1>2, FlattensAt
<1>4. CASE n = 0
  BY <1>2, <1>3, <1>4, FlattenEmpty, ConcatEmptySeq DEF tt, n
<1>5. CASE n # 0
  <2>1. PICK f : Flattens(f, ss, n) /\ FlattenSeq(ss) = f[n]
    BY <1>1, <1>5, FlattenDef DEF n
  <2> DEFINE Bad == {m \in 1..n : f[m] # g[m]}
  <2>2. Bad = {}
    <3> SUFFICES ASSUME Bad # {}
                 PROVE FALSE
      OBVIOUS
    <3>1. PICK m \in Bad : \A j \in Bad : m <= j
      <4>1. Bad \in SUBSET Nat
        BY <1>1
      <4> QED
        BY <4>1, LeastNumber
    <3>2. f[m] = IF m = 1 THEN ss[m] ELSE f[m - 1] \o ss[m]
      <4>1. m \in 1..n /\ n \in Nat
        BY <1>1
      <4> QED
        BY <4>1, <2>1, FlattensAt
    <3>4. g[m] = IF m = 1 THEN tt[m] ELSE g[m - 1] \o tt[m]
      <4>1. m \in 1..(n + 1) /\ n + 1 \in Nat
        BY <1>1
      <4> QED
        BY <4>1, <1>2, FlattensAt
    <3>3. m # 1 => f[m - 1] = g[m - 1]
      BY <1>1, <3>1
    <3> QED
      BY <1>1, <3>2, <3>3, <3>4
  <2>3. f[n] = g[n]
    BY <1>1, <1>5, <2>2
  <2> QED
    BY <1>2, <1>3, <1>5, <2>1, <2>3 DEF tt
<1> QED
  BY <1>4, <1>5, <1>1

\* The members of ss from place i on, put together.
FlatFrom(ss, i) == FlattenSeq(SubSeq(ss, i, Len(ss)))

LEMMA SubSeqMore ==
  ASSUME NEW S, NEW ss \in Seq(S), NEW i \in Nat \ {0}, NEW n \in Nat, i <= n + 1,
         n + 1 <= Len(ss)
  PROVE /\ SubSeq(ss, i, n) \in Seq(S)
        /\ SubSeq(ss, i, n + 1) = Append(SubSeq(ss, i, n), ss[n + 1])
<1>1. Len(ss) \in Nat /\ \A k \in 1..Len(ss) : ss[k] \in S
  BY LenProperties, ElementOfSeq
<1>2. /\ SubSeq(ss, i, n) \in Seq(S)
      /\ Len(SubSeq(ss, i, n)) = n - i + 1
      /\ \A k \in 1..(n - i + 1) : SubSeq(ss, i, n)[k] = ss[i + k - 1]
  BY <1>1, SubSeqProperties
<1>3. /\ SubSeq(ss, i, n + 1) \in Seq(S)
      /\ Len(SubSeq(ss, i, n + 1)) = n - i + 2
      /\ \A k \in 1..(n - i + 2) : SubSeq(ss, i, n + 1)[k] = ss[i + k - 1]
  BY <1>1, SubSeqProperties
<1> DEFINE a == SubSeq(ss, i, n)
           b == SubSeq(ss, i, n + 1)
           c == Append(a, ss[n + 1])
<1> HIDE DEF a, b
<1>4. /\ c \in Seq(S) /\ Len(c) = n - i + 2
      /\ \A k \in 1..(n - i + 1) : c[k] = a[k]
      /\ c[n - i + 2] = ss[n + 1]
  <2>1. a \in Seq(S) /\ ss[n + 1] \in S /\ Len(a) = n - i + 1
    BY <1>1, <1>2 DEF a
  <2> QED
    BY <2>1, AppendProperties
<1> HIDE DEF c
<1>5. \A k \in 1..(n - i + 2) : b[k] = c[k]
  <2> TAKE k \in 1..(n - i + 2)
  <2>1. CASE k = n - i + 2
    BY <1>3, <1>4, <2>1 DEF b
  <2>2. CASE k # n - i + 2
    <3>1. k \in 1..(n - i + 1)
      BY <2>2
    <3> QED
      BY <1>2, <1>3, <1>4, <3>1 DEF a, b
  <2> QED
    BY <2>1, <2>2
<1>6. b = c
  BY <1>3, <1>4, <1>5, SeqEqual DEF b
<1> QED
  BY <1>2, <1>6 DEF a, b, c

\* The members from place k to place n, put together.
Between(ss, k, n) == FlattenSeq(SubSeq(ss, k, n))

LEMMA BetweenMore ==
  ASSUME NEW S, NEW ss \in Seq(Seq(S)), NEW k \in Nat \ {0}, NEW n \in Nat,
         n + 1 <= Len(ss), k <= n + 1
  PROVE Between(ss, k, n) \in Seq(S) /\ Between(ss, k, n + 1) = Between(ss, k, n) \o ss[n + 1]
<1>1. /\ SubSeq(ss, k, n) \in Seq(Seq(S))
      /\ SubSeq(ss, k, n + 1) = Append(SubSeq(ss, k, n), ss[n + 1])
  BY SubSeqMore
<1>2. ss[n + 1] \in Seq(S)
  BY LenProperties, ElementOfSeq
<1> QED
  BY <1>1, <1>2, FlattenAppend, FlattenType DEF Between

LEMMA BetweenFirst ==
  ASSUME NEW S, NEW ss \in Seq(Seq(S)), NEW r \in Nat, r + 1 <= Len(ss)
  PROVE Between(ss, r + 1, r + 1) = ss[r + 1] \o Between(ss, r + 2, r + 1)
<1>1. Between(ss, r + 1, r + 1) = Between(ss, r + 1, r) \o ss[r + 1]
  <2>1. r + 1 \in Nat \ {0} /\ r + 1 <= r + 1
    OBVIOUS
  <2> QED
    BY <2>1, BetweenMore
<1>2. SubSeq(ss, r + 1, r) = <<>> /\ SubSeq(ss, r + 2, r + 1) = <<>>
  BY SubSeqEmpty
<1>3. Between(ss, r + 1, r) = <<>> /\ Between(ss, r + 2, r + 1) = <<>>
  BY <1>2, FlattenEmpty DEF Between
<1>4. ss[r + 1] \in Seq(S)
  BY LenProperties, ElementOfSeq
<1> QED
  BY <1>1, <1>3, <1>4, ConcatEmptySeq

\* Concatenation, for the provers an operator like any other.
Cat(a, b) == a \o b

LEMMA CatAssociative ==
  ASSUME NEW S
  PROVE \A a, b, c \in Seq(S) : Cat(Cat(a, b), c) = Cat(a, Cat(b, c))
BY ConcatAssociative DEF Cat

LEMMA BetweenNext ==
  ASSUME NEW S, NEW ss \in Seq(Seq(S)), NEW i \in Nat \ {0}, NEW r \in Nat,
         i <= r, r + 1 <= Len(ss),
         Between(ss, i, r) = ss[i] \o Between(ss, i + 1, r)
  PROVE Between(ss, i, r + 1) = ss[i] \o Between(ss, i + 1, r + 1)
<1>1. ss[i] \in Seq(S) /\ ss[r + 1] \in Seq(S)
  BY LenProperties, ElementOfSeq
<1>2. Between(ss, i, r + 1) = Between(ss, i, r) \o ss[r + 1]
  <2>1. i <= r + 1
    OBVIOUS
  <2> QED
    BY <2>1, BetweenMore
<1>3. Between(ss, i + 1, r) \in Seq(S) /\ Between(ss, i + 1, r + 1) = Between(ss, i + 1, r) \o ss[r + 1]
  <2>1. i + 1 \in Nat \ {0} /\ i + 1 <= r + 1
    OBVIOUS
  <2> QED
    BY <2>1, BetweenMore
<1>4. (ss[i] \o Between(ss, i + 1, r)) \o ss[r + 1] = ss[i] \o (Between(ss, i + 1, r) \o ss[r + 1])
  <2>1. Cat(Cat(ss[i], Between(ss, i + 1, r)), ss[r + 1])
          = Cat(ss[i], Cat(Between(ss, i + 1, r), ss[r + 1]))
    <3>1. \A a, b, c \in Seq(S) : Cat(Cat(a, b), c) = Cat(a, Cat(b, c))
      BY CatAssociative
    <3> QED
      BY <1>1, <1>3, <3>1
  <2> QED
    BY <2>1, Zenon DEF Cat
<1> QED
  BY <1>2, <1>3, <1>4

LEMMA BetweenSplit ==
  ASSUME NEW S, NEW ss \in Seq(Seq(S)), NEW i \in Nat \ {0}, NEW n \in Nat,
         i <= n, n <= Len(ss)
  PROVE Between(ss, i, n) = ss[i] \o Between(ss, i + 1, n)
<1>0. Len(ss) \in Nat /\ \A k \in 1..Len(ss) : ss[k] \in Seq(S)
  BY LenProperties, ElementOfSeq
<1> DEFINE Bad == {k \in Nat : i <= k /\ k <= Len(ss) /\ Between(ss, i, k) # ss[i] \o Between(ss, i + 1, k)}
<1> SUFFICES ASSUME Bad # {}
             PROVE FALSE
  OBVIOUS
<1>1. PICK m \in Bad : \A j \in Bad : m <= j
  BY LeastNumber
<1>2. m # i
  <2>1. PICK r \in Nat : i = r + 1
    OBVIOUS
  <2>2. r + 2 = i + 1 /\ r + 1 <= Len(ss)
    BY <1>0, <2>1
  <2>3. Between(ss, i, i) = ss[i] \o Between(ss, i + 1, i)
    BY <2>1, <2>2, BetweenFirst
  <2> QED
    BY <2>3
<1>3. PICK r \in Nat : m = r + 1
  OBVIOUS
<1>4. i <= r /\ r <= Len(ss) /\ r + 1 <= Len(ss) /\ i \in 1..Len(ss) /\ m \in 1..Len(ss)
  BY <1>0, <1>2, <1>3
<1>5. Between(ss, i, r) = ss[i] \o Between(ss, i + 1, r)
  <2>1. r \notin Bad
    <3> HIDE DEF Bad
    <3>1. ~(m <= r)
      BY <1>3
    <3> QED
      BY <1>1, <3>1
  <2> QED
    BY <2>1, <1>4
<1>6. Between(ss, i, r + 1) = ss[i] \o Between(ss, i + 1, r + 1)
  BY <1>4, <1>5, BetweenNext
<1> QED
  BY <1>3, <1>6

LEMMA FlatFromStep ==
  ASSUME NEW S, NEW ss \in Seq(Seq(S)), NEW i \in 1..Len(ss)
  PROVE /\ FlatFrom(ss, i + 1) \in Seq(S)
        /\ FlatFrom(ss, i) = ss[i] \o FlatFrom(ss, i + 1)
<1>1. Len(ss) \in Nat /\ i \in Nat \ {0} /\ i <= Len(ss)
  BY LenProperties
<1>2. FlatFrom(ss, i) = ss[i] \o FlatFrom(ss, i + 1)
  <2>1. Len(ss) <= Len(ss)
    BY <1>1
  <2>2. Between(ss, i, Len(ss)) = ss[i] \o Between(ss, i + 1, Len(ss))
    BY <1>1, <2>1, BetweenSplit
  <2> QED
    BY <2>2 DEF FlatFrom, Between
<1>3. SubSeq(ss, i + 1, Len(ss)) \in Seq(Seq(S))
  <2>1. \A k \in (i + 1)..Len(ss) : ss[k] \in Seq(S)
    BY <1>1, ElementOfSeq
  <2> QED
    BY <1>1, <2>1, SubSeqProperties
<1> QED
  BY <1>2, <1>3, FlattenType DEF FlatFrom

LEMMA FlatFromEnds ==
  ASSUME NEW S, NEW ss \in Seq(Seq(S))
  PROVE FlatFrom(ss, 1) = FlattenSeq(ss) /\ FlatFrom(ss, Len(ss) + 1) = <<>>
<1>1. SubSeq(ss, 1, Len(ss)) = ss
  BY SubSeqFull
<1>2. SubSeq(ss, Len(ss) + 1, Len(ss)) = <<>>
  BY LenProperties, SubSeqEmpty
<1> QED
  BY <1>1, <1>2, FlattenEmpty DEF FlatFrom

(***************************************************************************)
(* What is allocated, and where the loops are.                             *)
(***************************************************************************)
Char == 0..255

TextTypeOK ==
  /\ job \in {"idle", "split", "args", "tokens", "null", "digits", "sign", "reverse",
              "number", "crashed"}
  /\ line \in Seq(Char) /\ sep \in Seq(Char)
  /\ p \in Nat /\ start \in Nat
  /\ quote \in {"none", "plain", "double", "single"}
  /\ current \in Seq(Char)
  /\ value \in Int /\ v \in Nat
  /\ tokens \in Seq(Seq(Char)) /\ given \in Seq(Seq(Char))
  /\ slots \in Nat /\ blocks \in Int

\* The blocks of sdssplitargs: the arguments, their vector once there is one,
\* and current.
ArgBlocks == Len(tokens) + (IF tokens = <<>> THEN 0 ELSE 1) + (IF quote = "none" THEN 0 ELSE 1)

SafeInv ==
  /\ job = "idle" => Idle
  /\ job = "split" => /\ sep # <<>>
                      /\ 1 <= start /\ start <= p /\ p <= Len(line) + 1
                      /\ 5 <= slots /\ Len(tokens) + 1 <= slots
                      /\ blocks = Len(tokens) + 1
                      /\ quote = "none" /\ given = <<>>
  /\ job = "args" => /\ sep = <<>>
                     /\ 1 <= p /\ p <= Len(line) + 1
                     /\ blocks = ArgBlocks
  /\ job = "tokens" => /\ p <= Len(line) + 1
                       /\ sep # <<>> => Len(tokens) <= slots
                       /\ blocks = Len(tokens) + 1
                       /\ quote = "none"
  /\ job = "null" => blocks = 0
  /\ job \in {"digits", "sign"} => start = 1
  /\ job = "reverse" => 1 <= start /\ p <= Len(current)

SInv == TextTypeOK /\ SafeInv

LEMMA AtType ==
  ASSUME TextTypeOK, NEW k \in Nat, k # 0
  PROVE At(k) \in Char /\ (At(k) # 0 => k <= Len(line))
<1>1. Len(line) \in Nat /\ \A j \in 1..Len(line) : line[j] \in Char
  BY LenProperties, ElementOfSeq DEF TextTypeOK
<1> QED
  BY <1>1 DEF At, Char

\* The short escapes are the inverse of each other.
LEMMA EscapeLetters ==
  /\ EscapedByte(110) = 10 /\ EscapedByte(114) = 13 /\ EscapedByte(116) = 9
  /\ EscapedByte(97) = 7 /\ EscapedByte(98) = 8
  /\ \A c : c \notin {110, 114, 116, 97, 98} => EscapedByte(c) = c
<1> DEFINE E == ReprEscapes
<1>1. \A e : e \in E <=> \/ e = <<110, 10>> \/ e = <<114, 13>> \/ e = <<116, 9>>
                         \/ e = <<97, 7>> \/ e = <<98, 8>>
  BY DEF ReprEscapes
<1>2. \A e \in E : /\ e[1] = 110 => e[2] = 10
                   /\ e[1] = 114 => e[2] = 13
                   /\ e[1] = 116 => e[2] = 9
                   /\ e[1] = 97 => e[2] = 7
                   /\ e[1] = 98 => e[2] = 8
                   /\ e[1] \in {110, 114, 116, 97, 98}
  BY <1>1
<1>3. \A c \in {110, 114, 116, 97, 98} : \E e \in E : e[1] = c
  <2>1. /\ <<110, 10>> \in E /\ <<114, 13>> \in E /\ <<116, 9>> \in E
        /\ <<97, 7>> \in E /\ <<98, 8>> \in E
    BY <1>1
  <2> QED
    BY <2>1
<1>4. \A c \in {110, 114, 116, 97, 98} :
        LET e == CHOOSE e \in E : e[1] = c IN e \in E /\ e[1] = c /\ EscapedByte(c) = e[2]
  BY <1>3 DEF EscapedByte
<1>5. \A c : c \notin {110, 114, 116, 97, 98} => EscapedByte(c) = c
  <2>1. \A c : c \notin {110, 114, 116, 97, 98} => ~ \E e \in E : e[1] = c
    BY <1>2
  <2> QED
    BY <2>1 DEF EscapedByte
<1> HIDE DEF E
<1> QED
  BY <1>2, <1>4, <1>5

LEMMA EscapedByteType == ASSUME NEW c \in Char PROVE EscapedByte(c) \in Char
<1>1. c \in {110, 114, 116, 97, 98} \/ EscapedByte(c) = c
  BY EscapeLetters
<1> QED
  BY <1>1, EscapeLetters DEF Char

LEMMA HexValueType ==
  ASSUME NEW c \in Char
  PROVE HexValueOf(c) \in -1..15 /\ (HexValueOf(c) >= 0 => c # 0)
<1>1. CASE c \in 48..57
  <2>1. HexValueOf(c) = c - 48
    BY <1>1 DEF HexValueOf
  <2> QED
    BY <1>1, <2>1 DEF Char
<1>2. CASE c \in 97..102
  <2>1. HexValueOf(c) = c - 87
    BY <1>2 DEF HexValueOf
  <2> QED
    BY <1>2, <2>1 DEF Char
<1>3. CASE c \in 65..70
  <2>1. HexValueOf(c) = c - 55
    BY <1>3 DEF HexValueOf
  <2> QED
    BY <1>3, <2>1 DEF Char
<1>4. CASE c \notin 48..57 /\ c \notin 97..102 /\ c \notin 65..70
  <2>1. HexValueOf(c) = -1
    BY <1>4 DEF HexValueOf
  <2> QED
    BY <2>1
<1> QED
  BY <1>1, <1>2, <1>3, <1>4

StepSafe(r) ==
  /\ r.kind \in {"go", "done", "err"}
  /\ r.bytes \in Seq(Char)
  /\ r.next \in Nat /\ 1 <= r.next /\ r.next <= Len(line) + 1
  /\ r.quote \in {"none", "plain", "double", "single"}
  /\ r.kind = "go" => r.quote # "none"

LEMMA GoSafe ==
  ASSUME TextTypeOK, NEW bytes \in Seq(Char), NEW n \in Nat, 1 <= n, n <= Len(line),
         NEW q \in {"plain", "double", "single"}
  PROVE StepSafe(Go(bytes, n + 1, q))
BY LenProperties DEF Go, StepSafe, TextTypeOK

LEMMA DoneSafe ==
  ASSUME NEW n \in Nat, 1 <= n, n <= Len(line) + 1
  PROVE StepSafe(Done(n))
BY EmptySeq DEF Done, StepSafe

LEMMA OneByte == ASSUME NEW c \in Char PROVE <<c>> \in Seq(Char) /\ Len(<<c>>) = 1 /\ <<c>>[1] = c
OBVIOUS

\* Each iteration stays within the line and its NUL.
LEMMA IterationSafe ==
  ASSUME TextTypeOK, 1 <= p, p <= Len(line) + 1, quote # "none"
  PROVE StepSafe(Iteration)
<1> DEFINE c == At(p)
           d == At(p + 1)
<1>0. p \in Nat /\ p + 1 \in Nat /\ p + 2 \in Nat /\ p + 3 \in Nat /\ Len(line) \in Nat
  BY LenProperties DEF TextTypeOK
<1>1. /\ c \in Char /\ (c # 0 => p <= Len(line))
      /\ d \in Char /\ (d # 0 => p + 1 <= Len(line))
  BY <1>0, AtType
<1>2. StepSafe(Err)
  BY <1>0, EmptySeq DEF Err, StepSafe
<1>3. c # 0 => StepSafe(Closing)
  BY <1>0, <1>1, <1>2, DoneSafe DEF Closing
<1>4. CASE quote = "double"
  <2>1. CASE HexAt(p)
    <3>1. in_double = Go(<<HexValueOf(At(p + 2)) * 16 + HexValueOf(At(p + 3))>>, p + 4, quote)
      BY <2>1 DEF in_double, HexAt
    <3>2. /\ At(p + 2) \in Char /\ At(p + 3) \in Char
          /\ At(p + 3) # 0 => p + 3 <= Len(line)
      BY <1>0, AtType
    <3>3. /\ HexValueOf(At(p + 2)) \in 0..15 /\ HexValueOf(At(p + 3)) \in 0..15
          /\ p + 3 <= Len(line)
      BY <2>1, <3>2, HexValueType DEF HexAt
    <3>4. HexValueOf(At(p + 2)) * 16 + HexValueOf(At(p + 3)) \in Char
      <4>1. \A x, y \in 0..15 : x * 16 + y \in Char
        BY DEF Char
      <4> QED
        BY <3>3, <4>1
    <3> QED
      <4>1. p + 3 \in Nat /\ 1 <= p + 3 /\ (p + 3) + 1 = p + 4
        BY <1>0
      <4>2. StepSafe(Go(<<HexValueOf(At(p + 2)) * 16 + HexValueOf(At(p + 3))>>, (p + 3) + 1, quote))
        BY <1>4, <3>3, <3>4, <4>1, OneByte, GoSafe
      <4> QED
        BY <1>4, <3>1, <4>1, <4>2 DEF Iteration
  <2>2. CASE ~HexAt(p) /\ c = 92 /\ d # 0
    <3>1. in_double = Go(<<EscapedByte(d)>>, p + 2, quote)
      BY <2>2 DEF in_double
    <3>2. <<EscapedByte(d)>> \in Seq(Char) /\ p + 1 <= Len(line)
      BY <1>1, <2>2, EscapedByteType, OneByte
    <3>3. StepSafe(Go(<<EscapedByte(d)>>, p + 2, quote))
      <4>1. 1 <= p + 1 /\ (p + 1) + 1 = p + 2
        BY <1>0
      <4>2. StepSafe(Go(<<EscapedByte(d)>>, (p + 1) + 1, quote))
        BY <1>0, <1>4, <3>2, <4>1, GoSafe
      <4> QED
        BY <4>1, <4>2
    <3> QED
      BY <1>4, <3>1, <3>3 DEF Iteration
  <2>3. CASE c = 34
    <3>1. in_double = Closing
      BY <2>3 DEF in_double, HexAt
    <3> QED
      BY <1>3, <1>4, <2>3, <3>1 DEF Iteration
  <2>4. CASE c = 0
    <3>1. in_double = Err
      BY <2>4 DEF in_double, HexAt
    <3> QED
      BY <1>2, <1>4, <3>1 DEF Iteration
  <2>5. CASE ~HexAt(p) /\ ~(c = 92 /\ d # 0) /\ c # 34 /\ c # 0
    <3>1. in_double = Go(<<c>>, p + 1, quote)
      BY <2>5 DEF in_double
    <3>2. <<c>> \in Seq(Char) /\ p <= Len(line)
      BY <1>1, <2>5, OneByte
    <3>3. StepSafe(Go(<<c>>, p + 1, quote))
      BY <1>0, <1>4, <3>2, GoSafe
    <3> QED
      BY <1>4, <3>1, <3>3 DEF Iteration
  <2> QED
    BY <2>1, <2>2, <2>3, <2>4, <2>5
<1>5. CASE quote = "single"
  <2>1. CASE c = 92 /\ d = 39
    <3>1. in_single = Go(<<39>>, p + 2, quote)
      BY <2>1 DEF in_single
    <3>2. <<39>> \in Seq(Char) /\ p + 1 <= Len(line)
      BY <1>1, <2>1, OneByte DEF Char
    <3>3. StepSafe(Go(<<39>>, p + 2, quote))
      <4>1. 1 <= p + 1 /\ (p + 1) + 1 = p + 2
        BY <1>0
      <4>2. StepSafe(Go(<<39>>, (p + 1) + 1, quote))
        BY <1>0, <1>5, <3>2, <4>1, GoSafe
      <4> QED
        BY <4>1, <4>2
    <3> QED
      BY <1>5, <3>1, <3>3 DEF Iteration
  <2>2. CASE c = 39
    <3>1. in_single = Closing
      BY <2>2 DEF in_single
    <3> QED
      BY <1>3, <1>5, <2>2, <3>1 DEF Iteration
  <2>3. CASE c = 0
    <3>1. in_single = Err
      BY <2>3 DEF in_single
    <3> QED
      BY <1>2, <1>5, <3>1 DEF Iteration
  <2>4. CASE ~(c = 92 /\ d = 39) /\ c # 39 /\ c # 0
    <3>1. in_single = Go(<<c>>, p + 1, quote)
      BY <2>4 DEF in_single
    <3>2. <<c>> \in Seq(Char) /\ p <= Len(line)
      BY <1>1, <2>4, OneByte
    <3>3. StepSafe(Go(<<c>>, p + 1, quote))
      BY <1>0, <1>5, <3>2, GoSafe
    <3> QED
      BY <1>5, <3>1, <3>3 DEF Iteration
  <2> QED
    BY <2>1, <2>2, <2>3, <2>4
<1>6. CASE quote = "plain"
  <2>0. Iteration = in_plain
    BY <1>6 DEF Iteration
  <2>1. CASE c \in {32, 10, 13, 9}
    <3>1. in_plain = Done(p + 1)
      BY <2>1 DEF in_plain
    <3> QED
      BY <1>0, <1>1, <2>0, <2>1, <3>1, DoneSafe
  <2>2. CASE c = 0
    <3>1. in_plain = Done(p)
      BY <2>2 DEF in_plain
    <3> QED
      BY <1>0, <2>0, <3>1, DoneSafe
  <2>3. CASE c = 34
    <3>1. in_plain = Go(<<>>, p + 1, "double")
      BY <2>3 DEF in_plain
    <3>2. <<>> \in Seq(Char) /\ p <= Len(line)
      BY <1>1, <2>3, EmptySeq
    <3>3. StepSafe(Go(<<>>, p + 1, "double"))
      BY <1>0, <1>6, <3>2, GoSafe
    <3> QED
      BY <2>0, <3>1, <3>3
  <2>4. CASE c = 39
    <3>1. in_plain = Go(<<>>, p + 1, "single")
      BY <2>4 DEF in_plain
    <3>2. <<>> \in Seq(Char) /\ p <= Len(line)
      BY <1>1, <2>4, EmptySeq
    <3>3. StepSafe(Go(<<>>, p + 1, "single"))
      BY <1>0, <1>6, <3>2, GoSafe
    <3> QED
      BY <2>0, <3>1, <3>3
  <2>5. CASE c \notin {32, 10, 13, 9, 0, 34, 39}
    <3>1. in_plain = Go(<<c>>, p + 1, quote)
      BY <2>5 DEF in_plain
    <3>2. <<c>> \in Seq(Char) /\ p <= Len(line)
      BY <1>1, <2>5, OneByte
    <3>3. StepSafe(Go(<<c>>, p + 1, quote))
      BY <1>0, <1>6, <3>2, GoSafe
    <3> QED
      BY <2>0, <3>1, <3>3
  <2> QED
    BY <2>1, <2>2, <2>3, <2>4, <2>5
<1> QED
  BY <1>4, <1>5, <1>6 DEF TextTypeOK

(***************************************************************************)
(* What sdscatrepr writes.                                                 *)
(***************************************************************************)
LEMMA HexDigitsValue ==
  ASSUME NEW n \in 0..15
  PROVE HexDigits[n + 1] \in 1..255 /\ HexValueOf(HexDigits[n + 1]) = n
<1>1. HexDigits[n + 1] = IF n < 10 THEN 48 + n ELSE 87 + n
  <2>1. \/ n = 0 \/ n = 1 \/ n = 2 \/ n = 3 \/ n = 4 \/ n = 5 \/ n = 6 \/ n = 7
        \/ n = 8 \/ n = 9 \/ n = 10 \/ n = 11 \/ n = 12 \/ n = 13 \/ n = 14 \/ n = 15
    OBVIOUS
  <2> QED
    BY <2>1 DEF HexDigits
<1>2. CASE n < 10
  <2>1. HexDigits[n + 1] \in 48..57 /\ HexDigits[n + 1] = n + 48
    BY <1>1, <1>2
  <2>2. HexValueOf(HexDigits[n + 1]) = HexDigits[n + 1] - 48
    BY <2>1 DEF HexValueOf
  <2> QED
    BY <2>1, <2>2
<1>3. CASE n >= 10
  <2>1. HexDigits[n + 1] \in 97..102 /\ HexDigits[n + 1] = n + 87 /\ HexDigits[n + 1] \notin 48..57
    BY <1>1, <1>3
  <2>2. HexValueOf(HexDigits[n + 1]) = HexDigits[n + 1] - 87
    BY <2>1 DEF HexValueOf
  <2> QED
    BY <2>1, <2>2
<1> QED
  BY <1>2, <1>3

ShortLetters == {110, 114, 116, 97, 98}

\* The four ways in which a byte is written.
ReprForm(c, t) ==
  \/ c \in {92, 34} /\ t = <<92, c>>
  \/ \E l \in ShortLetters : t = <<92, l>> /\ EscapedByte(l) = c
  \/ c \in 32..126 /\ c \notin {92, 34} /\ t = <<c>>
  \/ \E g, h \in 1..255 : /\ t = <<92, 120, g, h>>
                          /\ HexValueOf(g) \in 0..15 /\ HexValueOf(h) \in 0..15
                          /\ HexValueOf(g) * 16 + HexValueOf(h) = c

LEMMA ReprForms == ASSUME NEW c \in Char PROVE ReprForm(c, repr_char(c))
<1> DEFINE E == ReprEscapes
<1>1. \A e : e \in E <=> \/ e = <<110, 10>> \/ e = <<114, 13>> \/ e = <<116, 9>>
                         \/ e = <<97, 7>> \/ e = <<98, 8>>
  BY DEF ReprEscapes
<1>2. \A e \in E : e[1] \in ShortLetters /\ EscapedByte(e[1]) = e[2] /\ e[2] \notin {92, 34}
  BY <1>1, EscapeLetters DEF ShortLetters
<1>3. CASE c \in {92, 34}
  <2>1. repr_char(c) = <<92, c>>
    <3>1. ~ \E e \in E : e[2] = c
      BY <1>2, <1>3
    <3> QED
      BY <1>3, <3>1 DEF repr_char
  <2> QED
    BY <1>3, <2>1 DEF ReprForm
<1>4. CASE c \notin {92, 34} /\ \E e \in E : e[2] = c
  <2>1. \A e \in E : ~isprint(e[2])
    BY <1>1 DEF isprint
  <2>2. ~isprint(c)
    BY <1>4, <2>1
  <2> DEFINE e == CHOOSE e \in E : e[2] = c
  <2>3. e \in E /\ e[2] = c
    BY <1>4
  <2>4. repr_char(c) = <<92, e[1]>>
    BY <1>4, <2>2 DEF repr_char
  <2> HIDE DEF e, E
  <2>5. e[1] \in ShortLetters /\ EscapedByte(e[1]) = c
    BY <1>2, <2>3
  <2> QED
    BY <2>4, <2>5 DEF ReprForm
<1>5. CASE c \notin {92, 34} /\ ~(\E e \in E : e[2] = c) /\ isprint(c)
  <2>1. repr_char(c) = <<c>>
    BY <1>5 DEF repr_char
  <2> QED
    BY <1>5, <2>1 DEF ReprForm, isprint
<1>6. CASE c \notin {92, 34} /\ ~(\E e \in E : e[2] = c) /\ ~isprint(c)
  <2>1. repr_char(c) = <<92, 120, HexDigits[c \div 16 + 1], HexDigits[(c % 16) + 1]>>
    BY <1>6 DEF repr_char
  <2>2. c \div 16 \in 0..15 /\ c % 16 \in 0..15 /\ (c \div 16) * 16 + (c % 16) = c
    BY DEF Char
  <2>3. /\ HexDigits[c \div 16 + 1] \in 1..255 /\ HexValueOf(HexDigits[c \div 16 + 1]) = c \div 16
        /\ HexDigits[(c % 16) + 1] \in 1..255 /\ HexValueOf(HexDigits[(c % 16) + 1]) = c % 16
    BY <2>2, HexDigitsValue
  <2> QED
    BY <2>1, <2>2, <2>3, ZenonT(60) DEF ReprForm
<1> QED
  BY <1>3, <1>4, <1>5, <1>6

NonNul == 1..255

LEMMA ReprCharType ==
  ASSUME NEW c \in Char
  PROVE repr_char(c) \in Seq(NonNul) /\ Len(repr_char(c)) \in Nat \ {0}
<1> DEFINE t == repr_char(c)
<1>1. ReprForm(c, t)
  BY ReprForms
<1> HIDE DEF t
<1>2. \A a \in NonNul : <<a>> \in Seq(NonNul) /\ Len(<<a>>) = 1
  OBVIOUS
<1>3. \A a, b \in NonNul : <<a, b>> \in Seq(NonNul) /\ Len(<<a, b>>) = 2
  OBVIOUS
<1>4. \A a, b, g, h \in NonNul : <<a, b, g, h>> \in Seq(NonNul) /\ Len(<<a, b, g, h>>) = 4
  OBVIOUS
<1>5. \A l \in ShortLetters : l \in NonNul
  BY DEF ShortLetters, NonNul
<1>6. 92 \in NonNul /\ 120 \in NonNul /\ 34 \in NonNul /\ (c \in 32..126 => c \in NonNul)
  BY DEF NonNul
<1>7. t \in Seq(NonNul) /\ Len(t) \in {1, 2, 4}
  <2>1. CASE c \in {92, 34} /\ t = <<92, c>>
    BY <1>3, <1>6, <2>1
  <2>2. CASE \E l \in ShortLetters : t = <<92, l>> /\ EscapedByte(l) = c
    BY <1>3, <1>5, <1>6, <2>2
  <2>3. CASE c \in 32..126 /\ c \notin {92, 34} /\ t = <<c>>
    BY <1>2, <1>6, <2>3
  <2>4. CASE \E g, h \in NonNul : t = <<92, 120, g, h>>
    BY <1>4, <1>6, <2>4
  <2> QED
    BY <1>1, <2>1, <2>2, <2>3, <2>4 DEF ReprForm, NonNul
<1> QED
  BY <1>7 DEF t

\* The bytes of b, each as it is written.
Pieces(b) == [k \in DOMAIN b |-> repr_char(b[k])]

LEMMA PiecesType ==
  ASSUME NEW b \in Seq(Char)
  PROVE Pieces(b) \in Seq(Seq(NonNul)) /\ Len(Pieces(b)) = Len(b)
<1>1. Len(b) \in Nat /\ DOMAIN b = 1..Len(b) /\ \A k \in 1..Len(b) : b[k] \in Char
  BY LenProperties, ElementOfSeq
<1>2. \A k \in 1..Len(b) : repr_char(b[k]) \in Seq(NonNul)
  BY <1>1, ReprCharType
<1>3. Pieces(b) \in [1..Len(b) -> Seq(NonNul)]
  BY <1>1, <1>2 DEF Pieces
<1> QED
  BY <1>1, <1>3

LEMMA CatreprType ==
  ASSUME NEW b \in Seq(Char)
  PROVE sdscatrepr(b) \in Seq(NonNul)
<1>1. FlattenSeq(Pieces(b)) \in Seq(NonNul)
  BY PiecesType, FlattenType
<1>2. <<34>> \in Seq(NonNul)
  BY DEF NonNul
<1>3. <<34>> \o FlattenSeq(Pieces(b)) \in Seq(NonNul)
  BY <1>1, <1>2, ConcatProperties
<1> QED
  BY <1>2, <1>3, ConcatProperties DEF sdscatrepr, Pieces

\* The arguments, each as write_again writes it.
Written(argv) == [k \in DOMAIN argv |-> sdscatrepr(argv[k]) \o <<32>>]

LEMMA WrittenType ==
  ASSUME NEW argv \in Seq(Seq(Char))
  PROVE Written(argv) \in Seq(Seq(NonNul)) /\ Len(Written(argv)) = Len(argv)
<1>1. Len(argv) \in Nat /\ DOMAIN argv = 1..Len(argv) /\ \A k \in 1..Len(argv) : argv[k] \in Seq(Char)
  BY LenProperties, ElementOfSeq
<1>2. <<32>> \in Seq(NonNul)
  BY DEF NonNul
<1>3. \A k \in 1..Len(argv) : sdscatrepr(argv[k]) \o <<32>> \in Seq(NonNul)
  BY <1>1, <1>2, CatreprType, ConcatProperties
<1>4. Written(argv) \in [1..Len(argv) -> Seq(NonNul)]
  BY <1>1, <1>3 DEF Written
<1> QED
  BY <1>1, <1>4, SMTT(40)

(***************************************************************************)
(* SplitSafe.                                                              *)
(***************************************************************************)
LEMMA IdleSafe == Idle => SInv
<1>1. <<>> \in Seq(Char) /\ <<>> \in Seq(Seq(Char))
  BY EmptySeq
<1> QED
  BY <1>1 DEF Idle, SInv, TextTypeOK, SafeInv, ArgBlocks

LEMMA SplitStartSafe == ASSUME SInv, sdssplitlen PROVE SInv'
<1>1. Idle /\ TextTypeOK
  BY DEF sdssplitlen, SInv, SafeInv
<1>2. line' \in Seq(Char) /\ sep' \in Seq(Char) /\ sep' # <<>>
  BY TextAssumption DEF sdssplitlen, Char
<1>3. Len(line') \in Nat /\ Len(<<>>) = 0
  BY <1>2, LenProperties
<1>4. TextTypeOK'
  BY <1>1, <1>2 DEF sdssplitlen, TextTypeOK, numVars
<1>5. SafeInv'
  BY <1>1, <1>2, <1>3 DEF sdssplitlen, SafeInv, Idle, numVars
<1> QED
  BY <1>4, <1>5 DEF SInv

LEMMA SplitNextSafe == ASSUME SInv, split_next PROVE SInv'
<1>1. /\ TextTypeOK /\ SafeInv /\ job = "split" /\ p + Len(sep) - 1 <= Len(line)
  BY DEF split_next, SInv, Searching
<1>2. /\ Len(line) \in Nat /\ Len(sep) \in Nat \ {0} /\ Len(tokens) \in Nat
      /\ \A k \in 1..Len(line) : line[k] \in Char
  BY <1>1, LenProperties, ElementOfSeq, EmptySeq DEF TextTypeOK, SafeInv
<1>3. /\ p \in Nat /\ start \in Nat /\ slots \in Nat /\ blocks \in Int
      /\ 1 <= start /\ start <= p /\ p <= Len(line) + 1
      /\ 5 <= slots /\ Len(tokens) + 1 <= slots /\ blocks = Len(tokens) + 1
  BY <1>1 DEF TextTypeOK, SafeInv
<1>4. slots' \in Nat /\ 5 <= slots' /\ Len(tokens) + 2 <= slots'
  <2>1. slots' = IF slots < Len(tokens) + 2 THEN slots * 2 ELSE slots
    BY DEF split_next, Grown
  <2> QED
    BY <1>2, <1>3, <2>1
<1>5. SubSeq(line, start, p - 1) \in Seq(Char)
  <2>1. start \in Int /\ p - 1 \in Int /\ \A k \in start..(p - 1) : line[k] \in Char
    BY <1>2, <1>3
  <2> QED
    BY <2>1, SubSeqProperties
<1>6. CASE Matches
  <2>1. /\ tokens' = Append(tokens, SubSeq(line, start, p - 1))
        /\ blocks' = blocks + 1 /\ start' = p + Len(sep) /\ p' = p + Len(sep)
    BY <1>6 DEF split_next
  <2>2. tokens' \in Seq(Seq(Char)) /\ Len(tokens') = Len(tokens) + 1
    BY <1>1, <1>5, <2>1, AppendProperties DEF TextTypeOK
  <2>3. TextTypeOK'
    BY <1>1, <1>2, <1>3, <1>4, <2>1, <2>2, SMTT(40) DEF split_next, TextTypeOK, numVars
  <2>4. SafeInv'
    BY <1>1, <1>2, <1>3, <1>4, <2>1, <2>2 DEF split_next, SafeInv, numVars
  <2> QED
    BY <2>3, <2>4 DEF SInv
<1>7. CASE ~Matches
  <2>1. p' = p + 1 /\ UNCHANGED <<tokens, blocks, start>>
    BY <1>7 DEF split_next
  <2>3. TextTypeOK'
    BY <1>1, <1>3, <1>4, <2>1 DEF split_next, TextTypeOK, numVars
  <2>4. SafeInv'
    BY <1>1, <1>2, <1>3, <1>4, <2>1 DEF split_next, SafeInv, numVars
  <2> QED
    BY <2>3, <2>4 DEF SInv
<1> QED
  BY <1>6, <1>7

LEMMA SplitLastSafe == ASSUME SInv, split_last PROVE SInv'
<1>1. TextTypeOK /\ SafeInv /\ job = "split"
  BY DEF split_last, SInv
<1>2. /\ Len(line) \in Nat /\ Len(tokens) \in Nat
      /\ \A k \in 1..Len(line) : line[k] \in Char
  BY <1>1, LenProperties, ElementOfSeq DEF TextTypeOK
<1>3. /\ start \in Nat /\ slots \in Nat /\ blocks \in Int /\ 1 <= start
      /\ p <= Len(line) + 1 /\ Len(tokens) + 1 <= slots /\ blocks = Len(tokens) + 1
      /\ quote = "none"
  BY <1>1 DEF TextTypeOK, SafeInv
<1>4. SubSeq(line, start, Len(line)) \in Seq(Char)
  BY <1>2, <1>3, SubSeqProperties
<1>5. tokens' \in Seq(Seq(Char)) /\ Len(tokens') = Len(tokens) + 1
  BY <1>1, <1>4, AppendProperties DEF TextTypeOK, split_last
<1>6. TextTypeOK'
  BY <1>1, <1>3, <1>5 DEF split_last, TextTypeOK, numVars
<1>7. SafeInv'
  BY <1>1, <1>2, <1>3, <1>5 DEF split_last, SafeInv, numVars
<1> QED
  BY <1>6, <1>7 DEF SInv

LEMMA SplitFailSafe == ASSUME SInv, split_fail PROVE SInv'
<1>1. TextTypeOK /\ SafeInv /\ job = "split" /\ cleanup
  BY DEF split_fail, SInv
<1>2. Len(tokens) \in Nat /\ blocks = Len(tokens) + 1 /\ <<>> \in Seq(Seq(Char))
  BY <1>1, LenProperties, EmptySeq DEF TextTypeOK, SafeInv
<1>3. blocks' = 0 /\ job' = "null" /\ tokens' = <<>>
  BY <1>1, <1>2 DEF cleanup
<1> QED
  BY <1>1, <1>2, <1>3 DEF cleanup, SInv, TextTypeOK, SafeInv, numVars

LEMMA ArgsStartSafe == ASSUME SInv, sdssplitargs PROVE SInv'
<1>1. Idle /\ TextTypeOK
  BY DEF sdssplitargs, SInv, SafeInv
<1>2. line' \in Seq(Char) /\ Len(line') \in Nat
  <2>1. line' \in Seq(1..255)
    BY TextAssumption DEF sdssplitargs
  <2>2. 1..255 \subseteq Char
    BY DEF Char
  <2> QED
    BY <2>1, <2>2, SeqMonotonic, LenProperties, ZenonT(60)
<1>3. Len(<<>>) = 0
  OBVIOUS
<1> QED
  BY <1>1, <1>2, <1>3 DEF sdssplitargs, SInv, TextTypeOK, SafeInv, Idle, ArgBlocks, numVars

LEMMA ArgWalkSafe == ASSUME SInv, arg_blank \/ arg_begin \/ arg_return PROVE SInv'
<1>1. /\ TextTypeOK /\ SafeInv /\ job = "args" /\ quote = "none"
  BY DEF arg_blank, arg_begin, arg_return, SInv
<1>2. /\ p \in Nat /\ 1 <= p /\ p <= Len(line) + 1 /\ sep = <<>> /\ Len(line) \in Nat
      /\ Len(tokens) \in Nat /\ Len(<<>>) = 0 /\ <<>> \in Seq(Char)
      /\ blocks = Len(tokens) + (IF tokens = <<>> THEN 0 ELSE 1)
  BY <1>1, LenProperties, EmptySeq DEF TextTypeOK, SafeInv, ArgBlocks
<1>3. At(p) \in Char /\ (At(p) # 0 => p <= Len(line))
  BY <1>1, <1>2, AtType
<1>4. CASE arg_blank
  <2>1. At(p) # 0
    BY <1>4 DEF arg_blank, isspace
  <2> QED
    BY <1>1, <1>2, <1>3, <1>4, <2>1 DEF arg_blank, SInv, TextTypeOK, SafeInv, ArgBlocks, numVars
<1>5. CASE arg_begin
  BY <1>1, <1>2, <1>5 DEF arg_begin, SInv, TextTypeOK, SafeInv, ArgBlocks, numVars
<1>6. CASE arg_return
  BY <1>1, <1>2, <1>6 DEF arg_return, SInv, TextTypeOK, SafeInv, ArgBlocks, numVars
<1> QED
  BY <1>4, <1>5, <1>6

LEMMA ArgStepSafe == ASSUME SInv, arg_char \/ arg_done \/ arg_err PROVE SInv'
<1>1. /\ TextTypeOK /\ SafeInv /\ job = "args" /\ quote # "none"
  BY DEF arg_char, arg_done, arg_err, SInv
<1>2. /\ p \in Nat /\ 1 <= p /\ p <= Len(line) + 1 /\ sep = <<>> /\ Len(line) \in Nat
      /\ Len(tokens) \in Nat /\ Len(<<>>) = 0 /\ <<>> \in Seq(Char) /\ <<>> \in Seq(Seq(Char))
      /\ blocks = Len(tokens) + (IF tokens = <<>> THEN 0 ELSE 1) + 1
  BY <1>1, LenProperties, EmptySeq DEF TextTypeOK, SafeInv, ArgBlocks
<1>3. StepSafe(Iteration)
  BY <1>1, <1>2, IterationSafe
<1>4. CASE arg_char
  <2>1. current' \in Seq(Char)
    BY <1>1, <1>3, <1>4, ConcatProperties DEF arg_char, StepSafe, TextTypeOK
  <2> QED
    BY <1>1, <1>2, <1>3, <1>4, <2>1
       DEF arg_char, StepSafe, SInv, TextTypeOK, SafeInv, ArgBlocks, numVars
<1>5. CASE arg_done
  <2>1. tokens' \in Seq(Seq(Char)) /\ tokens' # <<>> /\ Len(tokens') = Len(tokens) + 1
    <3>1. tokens \in Seq(Seq(Char)) /\ current \in Seq(Char) /\ tokens' = Append(tokens, current)
      BY <1>1, <1>5 DEF arg_done, TextTypeOK
    <3> QED
      BY <3>1, AppendProperties
  <2>2. blocks' = Len(tokens') + 1
    BY <1>2, <1>5, <2>1 DEF arg_done
  <2> QED
    BY <1>1, <1>2, <1>3, <1>5, <2>1, <2>2, SMTT(40)
       DEF arg_done, StepSafe, SInv, TextTypeOK, SafeInv, ArgBlocks, numVars
<1>6. CASE arg_err
  <2>1. blocks' = 0
    BY <1>2, <1>6 DEF arg_err
  <2> QED
    BY <1>1, <1>2, <1>6, <2>1 DEF arg_err, SInv, TextTypeOK, SafeInv, ArgBlocks, numVars
<1> QED
  BY <1>4, <1>5, <1>6

LEMMA ArgEndSafe == ASSUME SInv, arg_oom \/ arg_null PROVE SInv'
<1>1. TextTypeOK /\ SafeInv /\ Len(<<>>) = 0
  BY DEF SInv
<1>2. CASE arg_oom
  BY <1>1, <1>2 DEF arg_oom, SInv, TextTypeOK, SafeInv, numVars
<1>3. CASE arg_null
  BY <1>1, <1>3 DEF arg_null, SInv, TextTypeOK, SafeInv, ArgBlocks, numVars
<1> QED
  BY <1>2, <1>3

LEMMA WriteAgainSafe == ASSUME SInv, write_again PROVE SInv'
<1>1. TextTypeOK /\ SafeInv /\ job = "tokens" /\ sep = <<>> /\ tokens # <<>>
  BY DEF write_again, SInv, ToWrite
<1>2. line' \in Seq(Char) /\ Len(line') \in Nat
  <2>1. line' \in Seq(NonNul)
    BY <1>1, WrittenType, FlattenType DEF write_again, Written, TextTypeOK
  <2>2. NonNul \subseteq Char
    BY DEF NonNul, Char
  <2> QED
    BY <2>1, <2>2, SeqMonotonic, LenProperties
<1>3. Len(tokens) \in Nat /\ blocks = Len(tokens) + 1 /\ <<>> \in Seq(Seq(Char)) /\ Len(<<>>) = 0
  BY <1>1, LenProperties, EmptySeq DEF TextTypeOK, SafeInv
<1>4. blocks' = 0
  BY <1>3 DEF write_again
<1>5. TextTypeOK'
  BY <1>1, <1>2, <1>3, <1>4 DEF write_again, TextTypeOK, numVars
<1>6. SafeInv'
  BY <1>1, <1>2, <1>3, <1>4 DEF write_again, SafeInv, ArgBlocks, numVars
<1> QED
  BY <1>5, <1>6 DEF SInv

\* The negation of a long long and its conversion yield its magnitude, the
\* least one included.
LEMMA UnsignedMagnitude ==
  ASSUME NEW n \in LLONG_MIN..LLONG_MAX
  PROVE Unsigned(IF n < 0 THEN Negated(n) ELSE n) = IF n < 0 THEN -n ELSE n
<1>1. PICK M \in Nat : M = LLONG_MAX
  BY TextAssumption
<1>2. n \in Int /\ -M - 1 <= n /\ n <= M /\ LLONG_MIN = -M - 1 /\ ULLONG_MAX + 1 = 2 * M + 2
  BY <1>1 DEF LLONG_MIN, ULLONG_MAX
<1> DEFINE W == 2 * M + 2
<1>3. \A k \in 0..(M + 1) : k % W = k
  <2>1. \A k, w \in Nat : k < w => k % w = k
    OBVIOUS
  <2> QED
    BY <1>1, <2>1
<1>4. (-M - 1) % W = M + 1
  <2>1. -M - 1 = (-1) * W + (M + 1)
    BY <1>1
  <2> QED
    BY <1>1, <2>1
<1>5. Unsigned(n) = n % W /\ Unsigned(-n) = (-n) % W /\ Unsigned(LLONG_MIN) = (-M - 1) % W
  BY <1>2 DEF Unsigned
<1> HIDE DEF W
<1>6. CASE n = LLONG_MIN
  BY <1>2, <1>4, <1>5, <1>6 DEF Negated
<1>7. CASE n # LLONG_MIN /\ n < 0
  <2>1. -n \in 0..(M + 1)
    BY <1>1, <1>2, <1>7
  <2> QED
    BY <1>3, <1>5, <1>7, <2>1 DEF Negated
<1>8. CASE ~(n < 0)
  <2>1. n \in 0..(M + 1)
    BY <1>1, <1>2, <1>8
  <2> QED
    BY <1>3, <1>5, <1>8, <2>1
<1> QED
  BY <1>6, <1>7, <1>8

\* What the two functions start from.
LEMMA StartValue ==
  ASSUME sdsll2str \/ sdsull2str
  PROVE /\ value' \in Int /\ LLONG_MIN <= value' /\ value' <= ULLONG_MAX
        /\ v' = (IF value' < 0 THEN -value' ELSE value')
        /\ v' \in Nat
<1>1. LLONG_MAX \in Nat /\ LLONG_MIN \in Int /\ ULLONG_MAX \in Nat
      /\ LLONG_MAX <= ULLONG_MAX /\ LLONG_MIN <= 0
  BY TextAssumption DEF LLONG_MIN, ULLONG_MAX
<1>2. \A x \in Int : (IF x < 0 THEN -x ELSE x) \in Nat
  OBVIOUS
<1>3. CASE sdsll2str
  <2>1. value' \in LLONG_MIN..LLONG_MAX
        /\ v' = Unsigned(IF value' < 0 THEN Negated(value') ELSE value')
    BY <1>3 DEF sdsll2str
  <2>2. v' = IF value' < 0 THEN -value' ELSE value'
    BY <2>1, UnsignedMagnitude
  <2>3. value' \in Int /\ LLONG_MIN <= value' /\ value' <= ULLONG_MAX
    BY <1>1, <2>1
  <2> QED
    BY <1>2, <2>2, <2>3
<1>4. CASE sdsull2str
  <2>1. value' \in 0..ULLONG_MAX /\ v' = value'
    BY <1>4 DEF sdsull2str
  <2>2. value' \in Int /\ value' \in Nat /\ value' <= ULLONG_MAX /\ ~(value' < 0)
    BY <1>1, <2>1
  <2>3. LLONG_MIN <= value'
    BY <1>1, <2>2
  <2> QED
    BY <2>1, <2>2, <2>3, Zenon
<1> QED
  BY <1>3, <1>4

LEMMA NumberSafe ==
  ASSUME SInv, sdsll2str \/ sdsull2str \/ digit \/ sign \/ reverse
  PROVE SInv'
<1>1. TextTypeOK /\ SafeInv
  BY DEF SInv
<1>2. CASE sdsll2str \/ sdsull2str
  <2>1. value' \in Int /\ v' \in Nat
    BY <1>2, StartValue
  <2> QED
    BY <1>1, <1>2, <2>1 DEF sdsll2str, sdsull2str, SInv, TextTypeOK, SafeInv, Idle
<1>3. CASE digit
  <2>1. v' \in Nat /\ 48 + (v % 10) \in Char
    BY <1>1, <1>3 DEF digit, TextTypeOK, Char
  <2>2. current' \in Seq(Char)
    BY <1>1, <1>3, <2>1, AppendProperties DEF digit, TextTypeOK
  <2> QED
    BY <1>1, <1>3, <2>1, <2>2 DEF digit, SInv, TextTypeOK, SafeInv
<1>4. CASE sign
  <2>1. current' \in Seq(Char)
    BY <1>1, <1>4, AppendProperties DEF sign, TextTypeOK, Char
  <2>2. p' \in Nat /\ p' = Len(current')
    BY <1>4, <2>1, LenProperties DEF sign
  <2> QED
    BY <1>1, <1>4, <2>1, <2>2 DEF sign, SInv, TextTypeOK, SafeInv, numVars
<1>5. CASE reverse
  <2>1. p \in Nat /\ start \in Nat /\ current \in Seq(Char) /\ 1 <= start /\ p <= Len(current)
    BY <1>1, <1>5 DEF reverse, TextTypeOK, SafeInv
  <2>2. CASE start < p
    <3>1. start \in 1..Len(current) /\ p \in 1..Len(current)
      BY <2>1, <2>2, LenProperties
    <3>2. current[start] \in Char /\ current[p] \in Char
      BY <2>1, <3>1, ElementOfSeq
    <3> DEFINE half == [current EXCEPT ![start] = current[p]]
    <3>3. half \in Seq(Char) /\ Len(half) = Len(current)
      BY <2>1, <3>1, <3>2, ExceptSeq
    <3>4. current' = [half EXCEPT ![p] = current[start]]
      BY <1>5, <2>2 DEF reverse
    <3> HIDE DEF half
    <3>5. current' \in Seq(Char) /\ Len(current') = Len(current)
      BY <3>1, <3>2, <3>3, <3>4, ExceptSeq
    <3>6. start' = start + 1 /\ p' = p - 1 /\ job' = job
      BY <1>5, <2>2 DEF reverse
    <3> QED
      BY <1>1, <1>5, <2>1, <2>2, <3>5, <3>6, LenProperties, SMTT(40)
         DEF reverse, SInv, TextTypeOK, SafeInv, numVars
  <2>3. CASE ~(start < p)
    <3>1. job' = "number" /\ UNCHANGED <<current, start, p>>
      BY <1>5, <2>3 DEF reverse
    <3> QED
      BY <1>1, <1>5, <3>1 DEF reverse, SInv, TextTypeOK, SafeInv, numVars
  <2> QED
    BY <2>2, <2>3
<1> QED
  BY <1>2, <1>3, <1>4, <1>5

LEMMA TextStutterSafe == ASSUME SInv, UNCHANGED textVars PROVE SInv'
BY DEF SInv, TextTypeOK, SafeInv, ArgBlocks, Idle, textVars, numVars

\* The types, the blocks and the places of every step.
THEOREM SafeInvariant == TextSpec => []SInv
<1>1. SInv /\ [TextNext]_textVars => SInv'
  BY SplitStartSafe, SplitNextSafe, SplitLastSafe, SplitFailSafe, ArgsStartSafe, ArgWalkSafe,
     ArgStepSafe, ArgEndSafe, WriteAgainSafe, NumberSafe, TextStutterSafe DEF TextNext
<1> QED
  BY IdleSafe, <1>1, PTL DEF TextSpec

\* Neither loop looks beyond the NUL of its line or stores beyond its array,
\* and every block is accounted for (sdssplitlen and sdssplitargs of
\* util/sds.c), for every line and separator.
THEOREM SplitsSafe == TextSpec => []SplitSafe
<1>1. SInv => SplitSafe
  <2> SUFFICES ASSUME SInv
               PROVE SplitSafe
    OBVIOUS
  <2>1. Len(tokens) \in Nat /\ slots \in Nat
    BY LenProperties DEF SInv, TextTypeOK
  <2> QED
    BY <2>1 DEF SInv, SafeInv, SplitSafe
<1> QED
  BY <1>1, SafeInvariant, PTL

(***************************************************************************)
(* SplitJoin.  While sdssplitlen searches, the tokens and a separator      *)
(* after each are the line up to where the next token begins, and no       *)
(* separator begins between there and the place that is looked at.         *)
(***************************************************************************)
Joined(argv, separator) == [k \in DOMAIN argv |-> argv[k] \o separator]

NoSeparator(t, separator) ==
  \A j \in 1..(Len(t) - Len(separator) + 1) : SubSeq(t, j, j + Len(separator) - 1) # separator

JoinInv ==
  job = "split" =>
    /\ FlattenSeq(Joined(tokens, sep)) = SubSeq(line, 1, start - 1)
    /\ \A j \in start..(p - 1) : SubSeq(line, j, j + Len(sep) - 1) # sep
    /\ \A k \in DOMAIN tokens : NoSeparator(tokens[k], sep)

JInv == JoinInv /\ SplitJoin

\* No separator x lies within the places a to b of w.
FreeBetween(w, x, a, b) ==
  \A j \in Nat : a <= j /\ j + Len(x) - 1 <= b => SubSeq(w, j, j + Len(x) - 1) # x

LEMMA TokenFree ==
  ASSUME NEW w \in Seq(Char), NEW t \in Seq(Char), NEW x \in Seq(Char), x # <<>>,
         NEW a \in Nat, 1 <= a, NEW b \in Nat, a <= b + 1, b <= Len(w),
         t = SubSeq(w, a, b),
         FreeBetween(w, x, a, b)
  PROVE NoSeparator(t, x)
<1> SUFFICES ASSUME NEW j \in 1..(Len(t) - Len(x) + 1)
             PROVE SubSeq(t, j, j + Len(x) - 1) # x
  BY DEF NoSeparator
<1>1. Len(w) \in Nat /\ Len(x) \in Nat \ {0} /\ \A k \in 1..Len(w) : w[k] \in Char
  BY LenProperties, ElementOfSeq, EmptySeq
<1>2. Len(t) = b - a + 1
  <2>1. \A k \in a..b : w[k] \in Char
    BY <1>1
  <2>2. Len(t) = IF a <= b THEN b - a + 1 ELSE 0
    BY <2>1, SubSeqProperties
  <2> QED
    BY <2>2
<1>j. j \in Nat /\ 1 <= j /\ j + Len(x) <= b - a + 2
  BY <1>1, <1>2
<1>k. j + Len(x) - 1 \in Nat
  BY <1>1, <1>j
<1>3. PICK n \in Nat : n = j + Len(x) - 1
  BY <1>k
<1>4. /\ a \in 1..Len(w) /\ b \in 1..Len(w)
      /\ j \in 1..(b - a + 1) /\ n \in 1..(b - a + 1)
  BY <1>1, <1>3, <1>j
<1>5. SubSeq(t, j, n) = SubSeq(w, a + j - 1, a + n - 1)
  BY <1>4, SubSeqOfSubSeq
<1>6. PICK m \in Nat : m = a + j - 1
  BY <1>4
<1>7. a <= m /\ m + Len(x) - 1 <= b /\ m + Len(x) - 1 = a + n - 1
  BY <1>1, <1>3, <1>4, <1>6
<1>8. SubSeq(w, m, m + Len(x) - 1) # x
  BY <1>7 DEF FreeBetween
<1> QED
  BY <1>3, <1>5, <1>6, <1>7, <1>8

LEMMA JoinedType ==
  ASSUME NEW argv \in Seq(Seq(Char)), NEW x \in Seq(Char)
  PROVE Joined(argv, x) \in Seq(Seq(Char)) /\ Len(Joined(argv, x)) = Len(argv)
<1>1. Len(argv) \in Nat /\ DOMAIN argv = 1..Len(argv) /\ \A k \in 1..Len(argv) : argv[k] \in Seq(Char)
  BY LenProperties, ElementOfSeq
<1>2. \A k \in 1..Len(argv) : argv[k] \o x \in Seq(Char)
  BY <1>1, ConcatProperties
<1>3. Joined(argv, x) \in [1..Len(argv) -> Seq(Char)]
  BY <1>1, <1>2 DEF Joined
<1> QED
  BY <1>1, <1>3, SMTT(40)

LEMMA JoinedAppend ==
  ASSUME NEW argv \in Seq(Seq(Char)), NEW x \in Seq(Char), NEW t \in Seq(Char)
  PROVE FlattenSeq(Joined(Append(argv, t), x)) = FlattenSeq(Joined(argv, x)) \o (t \o x)
<1> DEFINE more == Append(argv, t)
           a == Joined(more, x)
           b == Append(Joined(argv, x), t \o x)
<1>1. /\ more \in Seq(Seq(Char)) /\ Len(more) = Len(argv) + 1
      /\ \A k \in 1..Len(argv) : more[k] = argv[k]
      /\ more[Len(argv) + 1] = t
      /\ Len(argv) \in Nat
  BY AppendProperties, LenProperties
<1>2. t \o x \in Seq(Char)
  BY ConcatProperties
<1>3. Joined(argv, x) \in Seq(Seq(Char)) /\ Len(Joined(argv, x)) = Len(argv)
  BY JoinedType
<1>4. a \in Seq(Seq(Char)) /\ Len(a) = Len(argv) + 1
  BY <1>1, JoinedType
<1>5. /\ b \in Seq(Seq(Char)) /\ Len(b) = Len(argv) + 1
      /\ \A k \in 1..Len(argv) : b[k] = Joined(argv, x)[k]
      /\ b[Len(argv) + 1] = t \o x
  BY <1>2, <1>3, AppendProperties, SMTT(40)
<1>6. \A k \in 1..(Len(argv) + 1) : a[k] = more[k] \o x
  <2>1. DOMAIN more = 1..(Len(argv) + 1)
    BY <1>1, LenProperties
  <2> QED
    BY <2>1 DEF Joined
<1>7. \A k \in 1..Len(argv) : Joined(argv, x)[k] = argv[k] \o x
  <2>1. DOMAIN argv = 1..Len(argv)
    BY LenProperties
  <2> QED
    BY <2>1 DEF Joined
<1> HIDE DEF a, b, more
<1>8. \A k \in 1..(Len(argv) + 1) : a[k] = b[k]
  <2> TAKE k \in 1..(Len(argv) + 1)
  <2>1. CASE k = Len(argv) + 1
    BY <1>1, <1>5, <1>6, <2>1
  <2>2. CASE k # Len(argv) + 1
    <3>1. k \in 1..Len(argv)
      BY <1>1, <2>2
    <3> QED
      BY <1>1, <1>5, <1>6, <1>7, <3>1
  <2> QED
    BY <2>1, <2>2
<1>9. a = b
  BY <1>4, <1>5, <1>8, SeqEqual
<1>10. FlattenSeq(b) = FlattenSeq(Joined(argv, x)) \o (t \o x)
  BY <1>2, <1>3, FlattenAppend DEF b
<1> QED
  BY <1>9, <1>10 DEF a, more

\* sdsjoinsds puts no separator after the last token.
LEMMA JoinLast ==
  ASSUME NEW argv \in Seq(Seq(Char)), NEW x \in Seq(Char), NEW t \in Seq(Char)
  PROVE sdsjoinsds(Append(argv, t), x) = FlattenSeq(Joined(argv, x)) \o t
<1> DEFINE more == Append(argv, t)
           a == [k \in DOMAIN more |-> IF k < Len(more) THEN more[k] \o x ELSE more[k]]
           b == Append(Joined(argv, x), t)
<1>1. /\ more \in Seq(Seq(Char)) /\ Len(more) = Len(argv) + 1
      /\ \A k \in 1..Len(argv) : more[k] = argv[k]
      /\ more[Len(argv) + 1] = t
      /\ Len(argv) \in Nat /\ DOMAIN more = 1..(Len(argv) + 1)
  BY AppendProperties, LenProperties
<1>3. Joined(argv, x) \in Seq(Seq(Char)) /\ Len(Joined(argv, x)) = Len(argv)
  BY JoinedType
<1>5. /\ b \in Seq(Seq(Char)) /\ Len(b) = Len(argv) + 1
      /\ \A k \in 1..Len(argv) : b[k] = Joined(argv, x)[k]
      /\ b[Len(argv) + 1] = t
  BY <1>3, AppendProperties
<1>7. \A k \in 1..Len(argv) : Joined(argv, x)[k] = argv[k] \o x
  <2>1. DOMAIN argv = 1..Len(argv)
    BY LenProperties
  <2> QED
    BY <2>1 DEF Joined
<1>6. \A k \in 1..(Len(argv) + 1) : a[k] = IF k < Len(argv) + 1 THEN more[k] \o x ELSE more[k]
  BY <1>1
<1>4. DOMAIN a = 1..(Len(argv) + 1) /\ a = [k \in 1..(Len(argv) + 1) |-> a[k]]
  BY <1>1
<1>2. sdsjoinsds(more, x) = FlattenSeq(a)
  BY DEF sdsjoinsds
<1> HIDE DEF a, b, more
<1>8. \A k \in 1..(Len(argv) + 1) : a[k] = b[k]
  <2> TAKE k \in 1..(Len(argv) + 1)
  <2>1. CASE k = Len(argv) + 1
    <3>1. ~(k < Len(argv) + 1)
      BY <1>1, <2>1
    <3>2. a[k] = more[k]
      BY <1>6, <3>1
    <3> QED
      BY <1>1, <1>5, <2>1, <3>2
  <2>2. CASE k # Len(argv) + 1
    <3>1. k \in 1..Len(argv) /\ k < Len(argv) + 1
      BY <1>1, <2>2
    <3> QED
      BY <1>1, <1>5, <1>6, <1>7, <3>1
  <2> QED
    BY <2>1, <2>2
<1>9. a = b
  <2>1. b = [k \in 1..(Len(argv) + 1) |-> b[k]]
    BY <1>5, LenProperties
  <2> QED
    BY <1>4, <1>8, <2>1
<1>10. FlattenSeq(b) = FlattenSeq(Joined(argv, x)) \o t
  BY <1>3, FlattenAppend DEF b
<1> QED
  BY <1>2, <1>9, <1>10 DEF more

LEMMA SplitNextJoins == ASSUME SInv, JInv, split_next PROVE JInv'
<1>1. /\ TextTypeOK /\ SafeInv /\ JoinInv /\ job = "split" /\ p + Len(sep) - 1 <= Len(line)
      /\ job' = "split" /\ line' = line /\ sep' = sep
  BY DEF split_next, SInv, JInv, Searching
<1>2. /\ Len(line) \in Nat /\ Len(sep) \in Nat \ {0}
      /\ \A k \in 1..Len(line) : line[k] \in Char
      /\ line \in Seq(Char) /\ sep \in Seq(Char) /\ sep # <<>> /\ tokens \in Seq(Seq(Char))
  BY <1>1, LenProperties, ElementOfSeq, EmptySeq DEF TextTypeOK, SafeInv
<1>3. /\ p \in Nat /\ start \in Nat /\ 1 <= start /\ start <= p /\ p <= Len(line) + 1
  BY <1>1 DEF TextTypeOK, SafeInv
<1>4. /\ FlattenSeq(Joined(tokens, sep)) = SubSeq(line, 1, start - 1)
      /\ \A j \in start..(p - 1) : SubSeq(line, j, j + Len(sep) - 1) # sep
      /\ \A k \in DOMAIN tokens : NoSeparator(tokens[k], sep)
  BY <1>1 DEF JoinInv
<1>5. CASE Matches
  <2>1. /\ tokens' = Append(tokens, SubSeq(line, start, p - 1))
        /\ start' = p + Len(sep) /\ p' = p + Len(sep)
    BY <1>5 DEF split_next
  <2>2. PICK b \in Nat : p = b + 1
    BY <1>3
  <2>3. PICK a \in Nat : start = a + 1
    BY <1>3
  <2> DEFINE t == SubSeq(line, start, b)
  <2>4. a <= b /\ b <= Len(line) /\ a <= Len(line) /\ p - 1 = b /\ start - 1 = a
    BY <1>1, <1>2, <1>3, <2>2, <2>3
  <2>5. t \in Seq(Char)
    <3>1. \A k \in start..b : line[k] \in Char
      BY <1>2, <1>3, <2>4
    <3> QED
      BY <1>3, <3>1, SubSeqProperties
  <2>6. tokens' = Append(tokens, t)
    BY <2>1, <2>4
  <2>7. NoSeparator(t, sep)
    <3>1. FreeBetween(line, sep, start, b)
      <4> USE DEF FreeBetween
      <4> TAKE j \in Nat
      <4> HAVE start <= j /\ j + Len(sep) - 1 <= b
      <4>1. j \in start..(p - 1)
        BY <1>2, <1>3, <2>2
      <4> QED
        BY <1>4, <4>1
    <3>2. start <= b + 1
      BY <1>3, <2>2
    <3> HIDE DEF t
    <3>3. t = SubSeq(line, start, b)
      BY DEF t
    <3> QED
      BY <1>2, <1>3, <2>4, <2>5, <3>1, <3>2, <3>3, TokenFree
  <2> HIDE DEF t
  <2>8. \A k \in DOMAIN tokens' : NoSeparator(tokens'[k], sep)
    <3>1. /\ Len(tokens) \in Nat /\ DOMAIN tokens = 1..Len(tokens)
          /\ tokens' \in Seq(Seq(Char)) /\ Len(tokens') = Len(tokens) + 1
          /\ \A k \in 1..Len(tokens) : tokens'[k] = tokens[k]
          /\ tokens'[Len(tokens) + 1] = t
      BY <1>2, <2>5, <2>6, AppendProperties, LenProperties
    <3>2. DOMAIN tokens' = 1..(Len(tokens) + 1)
      BY <3>1, LenProperties
    <3> SUFFICES ASSUME NEW k \in 1..(Len(tokens) + 1)
                 PROVE NoSeparator(tokens'[k], sep)
      BY <3>2
    <3>3. k = Len(tokens) + 1 \/ k \in 1..Len(tokens)
      BY <3>1
    <3> QED
      BY <1>4, <2>7, <3>1, <3>3
  <2>9. FlattenSeq(Joined(tokens', sep)) = SubSeq(line, 1, b + Len(sep))
    <3>1. FlattenSeq(Joined(tokens', sep)) = SubSeq(line, 1, a) \o (t \o sep)
      BY <1>2, <1>4, <2>4, <2>5, <2>6, JoinedAppend, ZenonT(60)
    <3>2. sep = SubSeq(line, b + 1, b + Len(sep))
      <4>1. p + Len(sep) - 1 = b + Len(sep)
        BY <1>2, <2>2
      <4> QED
        BY <1>5, <2>2, <4>1 DEF Matches
    <3>3. b + Len(sep) \in b..Len(line) /\ b \in 0..Len(line) /\ b \in a..Len(line)
      BY <1>1, <1>2, <1>3, <2>2, <2>4
    <3>4. t \o sep = SubSeq(line, a + 1, b + Len(sep))
      <4>1. start \in 1..(Len(line) + 1) /\ b \in (start - 1)..Len(line)
        BY <1>2, <1>3, <2>3, <2>4
      <4>2. SubSeq(line, start, b) \o SubSeq(line, b + 1, b + Len(sep)) = SubSeq(line, start, b + Len(sep))
        BY <1>2, <3>3, <4>1, ConcatAdjacentSubSeq
      <4> QED
        BY <2>3, <3>2, <4>2 DEF t
    <3>5. SubSeq(line, 1, a) \o SubSeq(line, a + 1, b + Len(sep)) = SubSeq(line, 1, b + Len(sep))
      <4>1. /\ 1 \in 1..(Len(line) + 1) /\ a \in (1 - 1)..Len(line)
            /\ b + Len(sep) \in a..Len(line)
        BY <1>2, <2>4, <3>3
      <4> QED
        BY <1>2, <4>1, ConcatAdjacentSubSeq
    <3> QED
      BY <3>1, <3>4, <3>5
  <2>10. start' - 1 = b + Len(sep) /\ ~ \E j \in Int : j \in start'..(p' - 1)
    BY <1>2, <2>1, <2>2
  <2> QED
    BY <1>1, <2>8, <2>9, <2>10 DEF JInv, JoinInv, SplitJoin
<1>6. CASE ~Matches
  <2>1. p' = p + 1 /\ UNCHANGED <<tokens, start>>
    BY <1>6 DEF split_next
  <2>2. \A j \in start..p : SubSeq(line, j, j + Len(sep) - 1) # sep
    <3> TAKE j \in start..p
    <3>1. j = p \/ j \in start..(p - 1)
      BY <1>3
    <3> QED
      BY <1>4, <1>6, <3>1 DEF Matches
  <2>3. p' - 1 = p
    BY <1>3, <2>1
  <2> QED
    BY <1>1, <1>4, <2>1, <2>2, <2>3 DEF JInv, JoinInv, SplitJoin
<1> QED
  BY <1>5, <1>6

LEMMA SplitLastJoins == ASSUME SInv, JInv, split_last PROVE JInv'
<1>1. /\ TextTypeOK /\ SafeInv /\ JoinInv /\ job = "split" /\ ~(p + Len(sep) - 1 <= Len(line))
      /\ job' = "tokens" /\ line' = line /\ sep' = sep
      /\ tokens' = Append(tokens, SubSeq(line, start, Len(line)))
  BY DEF split_last, SInv, JInv, Searching
<1>2. /\ Len(line) \in Nat /\ Len(sep) \in Nat \ {0}
      /\ \A k \in 1..Len(line) : line[k] \in Char
      /\ line \in Seq(Char) /\ sep \in Seq(Char) /\ sep # <<>> /\ tokens \in Seq(Seq(Char))
  BY <1>1, LenProperties, ElementOfSeq, EmptySeq DEF TextTypeOK, SafeInv
<1>3. /\ p \in Nat /\ start \in Nat /\ 1 <= start /\ start <= p /\ p <= Len(line) + 1
  BY <1>1 DEF TextTypeOK, SafeInv
<1>4. /\ FlattenSeq(Joined(tokens, sep)) = SubSeq(line, 1, start - 1)
      /\ \A j \in start..(p - 1) : SubSeq(line, j, j + Len(sep) - 1) # sep
      /\ \A k \in DOMAIN tokens : NoSeparator(tokens[k], sep)
  BY <1>1 DEF JoinInv
<1> DEFINE t == SubSeq(line, start, Len(line))
<1>5. t \in Seq(Char)
  <2>1. \A k \in start..Len(line) : line[k] \in Char
    BY <1>2, <1>3
  <2> QED
    BY <1>2, <1>3, <2>1, SubSeqProperties
<1>6. t = SubSeq(line, start, Len(line)) /\ tokens' = Append(tokens, t)
  BY <1>1
<1> HIDE DEF t
<1>7. NoSeparator(t, sep)
  <2>1. FreeBetween(line, sep, start, Len(line))
    <3> USE DEF FreeBetween
    <3> TAKE j \in Nat
    <3> HAVE start <= j /\ j + Len(sep) - 1 <= Len(line)
    <3>1. j \in start..(p - 1)
      BY <1>1, <1>2, <1>3
    <3> QED
      BY <1>4, <3>1
  <2>2. start <= Len(line) + 1 /\ Len(line) <= Len(line)
    BY <1>2, <1>3
  <2> QED
    BY <1>2, <1>3, <1>5, <1>6, <2>1, <2>2, TokenFree
<1>8. \A k \in DOMAIN tokens' : NoSeparator(tokens'[k], sep)
  <2>1. /\ Len(tokens) \in Nat /\ DOMAIN tokens = 1..Len(tokens)
        /\ tokens' \in Seq(Seq(Char)) /\ Len(tokens') = Len(tokens) + 1
        /\ \A k \in 1..Len(tokens) : tokens'[k] = tokens[k]
        /\ tokens'[Len(tokens) + 1] = t
    BY <1>2, <1>5, <1>6, AppendProperties, LenProperties, SMTT(40)
  <2>2. DOMAIN tokens' = 1..(Len(tokens) + 1)
    BY <2>1, LenProperties
  <2> SUFFICES ASSUME NEW k \in 1..(Len(tokens) + 1)
               PROVE NoSeparator(tokens'[k], sep)
    BY <2>2
  <2>3. k = Len(tokens) + 1 \/ k \in 1..Len(tokens)
    BY <2>1
  <2> QED
    BY <1>4, <1>7, <2>1, <2>3
<1>9. sdsjoinsds(tokens', sep) = line
  <2>1. sdsjoinsds(tokens', sep) = SubSeq(line, 1, start - 1) \o t
    BY <1>2, <1>4, <1>5, <1>6, JoinLast, ZenonT(60)
  <2>2. PICK a \in Nat : start = a + 1
    BY <1>3
  <2>3. a = start - 1 /\ a \in 0..Len(line)
    BY <1>2, <1>3, <2>2
  <2>4. SubSeq(line, 1, a) \o SubSeq(line, a + 1, Len(line)) = SubSeq(line, 1, Len(line))
    <3>1. /\ 1 \in 1..(Len(line) + 1) /\ a \in (1 - 1)..Len(line)
          /\ Len(line) \in a..Len(line)
      BY <1>2, <2>3
    <3> QED
      BY <1>2, <3>1, ConcatAdjacentSubSeq
  <2>5. SubSeq(line, 1, Len(line)) = line
    BY <1>2, SubSeqFull
  <2> QED
    BY <1>6, <2>1, <2>2, <2>3, <2>4, <2>5
<1> QED
  BY <1>1, <1>8, <1>9 DEF JInv, JoinInv, SplitJoin, NoSeparator

LEMMA SplitStartJoins == ASSUME SInv, sdssplitlen PROVE JInv'
<1>1. Idle
  BY DEF sdssplitlen, SInv, SafeInv
<1>2. p' = 1 /\ start' = 1 /\ tokens' = <<>>
  BY <1>1 DEF sdssplitlen, Idle
<1>3. Joined(<<>>, sep') = <<>>
  BY DEF Joined
<1>4. SubSeq(line', 1, 0) = <<>>
  BY SubSeqEmpty
<1>5. JoinInv'
  <2>1. FlattenSeq(Joined(tokens', sep')) = SubSeq(line', 1, start' - 1)
    <3>1. start' - 1 = 0
      BY <1>2
    <3>2. FlattenSeq(Joined(tokens', sep')) = <<>>
      BY <1>2, <1>3, FlattenEmpty, Zenon
    <3> QED
      BY <1>4, <3>1, <3>2, Zenon
  <2>2. start'..(p' - 1) = {} /\ DOMAIN tokens' = {}
    BY <1>2
  <2> QED
    BY <2>1, <2>2 DEF JoinInv
<1>6. SplitJoin'
  BY DEF sdssplitlen, SplitJoin
<1> QED
  BY <1>5, <1>6 DEF JInv

LEMMA OthersJoin ==
  ASSUME SInv, JInv, TextNext \/ UNCHANGED textVars,
         ~sdssplitlen, ~split_next, ~split_last
  PROVE JInv'
<1>1. job' # "split" \/ UNCHANGED textVars
  BY DEF TextNext, split_fail, cleanup, sdssplitargs, arg_blank, arg_begin, arg_return, arg_char,
         arg_done, arg_err, arg_oom, arg_null, write_again, sdsll2str, sdsull2str, digit, sign, reverse
<1>2. job' # "tokens" \/ sep' = <<>> \/ UNCHANGED textVars
  <2>1. job = "args" => sep = <<>>
    BY DEF SInv, SafeInv
  <2> QED
    BY <2>1 DEF TextNext, split_fail, cleanup, sdssplitargs, arg_blank, arg_begin, arg_return,
         arg_char, arg_done, arg_err, arg_oom, arg_null, write_again, sdsll2str, sdsull2str, digit, sign,
         reverse
<1>3. CASE UNCHANGED textVars
  BY <1>3 DEF JInv, JoinInv, SplitJoin, textVars, numVars
<1> QED
  BY <1>1, <1>2, <1>3 DEF JInv, JoinInv, SplitJoin

\* sdssplitlen finds every separator: sdsjoinsds puts the line together again,
\* and no token has a separator in it, for every line and every separator
\* (util/sds.c).
THEOREM SplitsJoin == TextSpec => []SplitJoin
<1>1. Idle => JInv
  BY DEF Idle, JInv, JoinInv, SplitJoin
<1>2. SInv /\ JInv /\ [TextNext]_textVars => JInv'
  BY SplitStartJoins, SplitNextJoins, SplitLastJoins, OthersJoin
<1>3. JInv => SplitJoin
  BY DEF JInv
<1> QED
  BY <1>1, <1>2, <1>3, SafeInvariant, PTL DEF TextSpec

(***************************************************************************)
(* ArgsRoundTrip.  What is left of a line that write_again wrote is the    *)
(* rest of the argument being read, as sdscatrepr writes it, and the       *)
(* arguments after it.                                                     *)
(***************************************************************************)
Rest == SubSeq(line, p, Len(line))

\* The arguments after the first n.
RestArgs(n) == FlatFrom(Written(given), n + 1)

BetweenArgs == quote = "none" => \/ Rest = RestArgs(Len(tokens))
                                 \/ Rest = <<32>> \o RestArgs(Len(tokens))

AtArg == quote = "plain" => /\ Len(tokens) < Len(given)
                            /\ current = <<>>
                            /\ Rest = RestArgs(Len(tokens))

InArg ==
  quote = "double" =>
    /\ Len(tokens) < Len(given)
    /\ LET g == given[Len(tokens) + 1]
       IN /\ Len(current) <= Len(g) /\ current = SubSeq(g, 1, Len(current))
          /\ Rest = FlatFrom(Pieces(g), Len(current) + 1) \o (<<34, 32>> \o RestArgs(Len(tokens) + 1))

ReadSoFar ==
  /\ Len(tokens) <= Len(given) /\ tokens = SubSeq(given, 1, Len(tokens))
  /\ quote # "single"
  /\ BetweenArgs /\ AtArg /\ InArg

RoundInv ==
  given # <<>> => /\ job \in {"args", "tokens", "crashed"}
                  /\ job = "tokens" => tokens = given
                  /\ job = "args" => ReadSoFar

\* The bytes in front of what is left, and what is left after them.
LEMMA Advance ==
  ASSUME TextTypeOK, 1 <= p, p <= Len(line) + 1,
         NEW a \in Seq(NonNul), NEW b \in Seq(NonNul), Rest = a \o b
  PROVE /\ Len(a) \in Nat /\ p + Len(a) <= Len(line) + 1
        /\ \A k \in 1..Len(a) : At(p + k - 1) = a[k]
        /\ SubSeq(line, p + Len(a), Len(line)) = b
<1>1. /\ line \in Seq(Char) /\ Len(line) \in Nat /\ p \in Nat
      /\ Len(a) \in Nat /\ Len(b) \in Nat
      /\ \A k \in 1..Len(line) : line[k] \in Char
  BY LenProperties, ElementOfSeq DEF TextTypeOK
<1>2. /\ Len(Rest) = Len(line) - p + 1
      /\ \A k \in 1..(Len(line) - p + 1) : Rest[k] = line[p + k - 1]
  <2>1. \A k \in p..Len(line) : line[k] \in Char
    BY <1>1
  <2>2. /\ Len(Rest) = IF p <= Len(line) THEN Len(line) - p + 1 ELSE 0
        /\ \A k \in 1..(Len(line) - p + 1) : Rest[k] = line[p + k - 1]
    BY <1>1, <2>1, SubSeqProperties DEF Rest
  <2> QED
    BY <1>1, <2>2
<1>3. /\ Len(Rest) = Len(a) + Len(b)
      /\ \A k \in 1..(Len(a) + Len(b)) : Rest[k] = IF k <= Len(a) THEN a[k] ELSE b[k - Len(a)]
  BY ConcatProperties
<1>4. p + Len(a) + Len(b) = Len(line) + 1
  BY <1>1, <1>2, <1>3
<1>5. \A k \in 1..Len(a) : At(p + k - 1) = a[k]
  <2> TAKE k \in 1..Len(a)
  <2>1. /\ k \in 1..(Len(line) - p + 1) /\ k \in 1..(Len(a) + Len(b)) /\ k <= Len(a)
        /\ p + k - 1 <= Len(line)
    BY <1>1, <1>4
  <2> QED
    BY <1>2, <1>3, <2>1 DEF At
<1>6. PICK q \in Nat : q = p + Len(a)
  BY <1>1
<1>7. /\ SubSeq(line, q, Len(line)) \in Seq(Char)
      /\ Len(SubSeq(line, q, Len(line))) = Len(b)
      /\ \A k \in 1..Len(b) : SubSeq(line, q, Len(line))[k] = line[q + k - 1]
  <2>1. \A k \in q..Len(line) : line[k] \in Char
    BY <1>1, <1>6
  <2>2. Len(line) - q + 1 = Len(b) /\ (q <= Len(line) \/ Len(b) = 0)
    BY <1>1, <1>4, <1>6
  <2>3. /\ SubSeq(line, q, Len(line)) \in Seq(Char)
        /\ Len(SubSeq(line, q, Len(line))) = IF q <= Len(line) THEN Len(line) - q + 1 ELSE 0
        /\ \A k \in 1..(Len(line) - q + 1) : SubSeq(line, q, Len(line))[k] = line[q + k - 1]
    BY <1>1, <2>1, SubSeqProperties
  <2> QED
    BY <1>1, <2>2, <2>3
<1>8. \A k \in 1..Len(b) : line[q + k - 1] = b[k]
  <2> TAKE k \in 1..Len(b)
  <2>1. PICK m \in Nat : m = Len(a) + k
    BY <1>1
  <2>2. /\ m \in 1..(Len(line) - p + 1) /\ m \in 1..(Len(a) + Len(b)) /\ ~(m <= Len(a))
        /\ p + m - 1 = q + k - 1 /\ m - Len(a) = k
    BY <1>1, <1>4, <1>6, <2>1
  <2> QED
    BY <1>2, <1>3, <2>2
<1>9. b \in Seq(Char)
  <2>1. NonNul \subseteq Char
    BY DEF NonNul, Char
  <2> QED
    BY <2>1, SeqMonotonic
<1>10. SubSeq(line, q, Len(line)) = b
  BY <1>7, <1>8, <1>9, SeqEqual
<1> QED
  BY <1>1, <1>4, <1>5, <1>6, <1>10, SMTT(40)

LEMMA AtEnd == ASSUME TextTypeOK, 1 <= p, p <= Len(line) + 1, Rest = <<>> PROVE At(p) = 0
<1>1. /\ Len(line) \in Nat /\ p \in Nat /\ \A k \in 1..Len(line) : line[k] \in Char
  BY LenProperties, ElementOfSeq DEF TextTypeOK
<1>2. \A k \in p..Len(line) : line[k] \in Char
  BY <1>1
<1>3. Len(SubSeq(line, p, Len(line))) = IF p <= Len(line) THEN Len(line) - p + 1 ELSE 0
  BY <1>1, <1>2, SubSeqProperties
<1>4. ~(p <= Len(line))
  <2>1. Len(SubSeq(line, p, Len(line))) = 0
    BY DEF Rest
  <2> QED
    BY <1>1, <1>3, <2>1
<1> QED
  BY <1>4 DEF At

LEMMA Associates == \A a, b, c \in Seq(NonNul) : Cat(Cat(a, b), c) = Cat(a, Cat(b, c))
BY ConcatAssociative DEF Cat

LEMMA Concatenates == \A a, b \in Seq(NonNul) : Cat(a, b) \in Seq(NonNul)
BY ConcatProperties DEF Cat

LEMMA Reassociate ==
  ASSUME NEW a \in Seq(NonNul), NEW b \in Seq(NonNul), NEW c \in Seq(NonNul),
         NEW d \in Seq(NonNul), NEW e \in Seq(NonNul)
  PROVE Cat(Cat(Cat(Cat(a, b), c), d), e) = Cat(a, Cat(b, Cat(Cat(c, d), e)))
<1>1. /\ Cat(a, b) \in Seq(NonNul) /\ Cat(c, d) \in Seq(NonNul)
      /\ Cat(Cat(c, d), e) \in Seq(NonNul)
  BY Concatenates
<1>2. Cat(Cat(Cat(a, b), c), d) = Cat(Cat(a, b), Cat(c, d))
  BY <1>1, Associates
<1>3. Cat(Cat(Cat(a, b), Cat(c, d)), e) = Cat(Cat(a, b), Cat(Cat(c, d), e))
  BY <1>1, Associates
<1>4. Cat(Cat(a, b), Cat(Cat(c, d), e)) = Cat(a, Cat(b, Cat(Cat(c, d), e)))
  BY <1>1, Associates
<1> QED
  BY <1>2, <1>3, <1>4

LEMMA QuoteSpace ==
  /\ <<34>> \in Seq(NonNul) /\ <<32>> \in Seq(NonNul) /\ <<34, 32>> \in Seq(NonNul)
  /\ <<34>> \o <<32>> = <<34, 32>>
<1>1. <<34>> \in Seq(NonNul) /\ <<32>> \in Seq(NonNul) /\ <<34, 32>> \in Seq(NonNul)
  BY DEF NonNul
<1>2. /\ Len(<<34>>) = 1 /\ Len(<<32>>) = 1 /\ Len(<<34, 32>>) = 2
      /\ <<34>>[1] = 34 /\ <<32>>[1] = 32 /\ <<34, 32>>[1] = 34 /\ <<34, 32>>[2] = 32
  OBVIOUS
<1> DEFINE x == <<34>> \o <<32>>
<1>3. x \in Seq(NonNul) /\ Len(x) = 2 /\ x[1] = 34 /\ x[2] = 32
  <2>1. /\ x \in Seq(NonNul) /\ Len(x) = Len(<<34>>) + Len(<<32>>)
        /\ \A i \in 1..(Len(<<34>>) + Len(<<32>>)) :
             x[i] = IF i <= Len(<<34>>) THEN <<34>>[i] ELSE <<32>>[i - Len(<<34>>)]
    BY <1>1, ConcatProperties
  <2> HIDE DEF x
  <2> QED
    BY <1>2, <2>1
<1> HIDE DEF x
<1>4. x = <<34, 32>>
  BY <1>1, <1>2, <1>3, SeqEqual
<1> QED
  BY <1>1, <1>4 DEF x

\* An argument as it is written, and those after it.
LEMMA RestArgsStep ==
  ASSUME TextTypeOK, NEW n \in Nat, n < Len(given)
  PROVE LET g == given[n + 1]
        IN /\ g \in Seq(Char)
           /\ FlatFrom(Pieces(g), 1) \in Seq(NonNul)
           /\ RestArgs(n + 1) \in Seq(NonNul)
           /\ RestArgs(n) = <<34>> \o (FlatFrom(Pieces(g), 1) \o (<<34, 32>> \o RestArgs(n + 1)))
<1> DEFINE g == given[n + 1]
           W == Written(given)
           F == FlatFrom(Pieces(g), 1)
           R == RestArgs(n + 1)
<1>1. given \in Seq(Seq(Char)) /\ Len(given) \in Nat /\ n + 1 \in 1..Len(given)
  BY LenProperties DEF TextTypeOK
<1>2. g \in Seq(Char)
  BY <1>1, ElementOfSeq
<1>3. W \in Seq(Seq(NonNul)) /\ Len(W) = Len(given)
  BY <1>1, WrittenType
<1>4. W[n + 1] = sdscatrepr(g) \o <<32>>
  <2>1. DOMAIN given = 1..Len(given)
    BY <1>1, LenProperties
  <2> QED
    BY <1>1, <2>1 DEF Written
<1>5. Pieces(g) \in Seq(Seq(NonNul))
  BY <1>2, PiecesType
<1>6. F = FlattenSeq(Pieces(g)) /\ F \in Seq(NonNul)
  BY <1>5, FlatFromEnds, FlattenType
<1>7. sdscatrepr(g) = (<<34>> \o F) \o <<34>>
  BY <1>6 DEF sdscatrepr, Pieces
<1>8. RestArgs(n) = W[n + 1] \o R /\ R \in Seq(NonNul)
  <2> HIDE DEF W
  <2>1. FlatFrom(W, n + 1) = W[n + 1] \o FlatFrom(W, (n + 1) + 1) /\ FlatFrom(W, (n + 1) + 1) \in Seq(NonNul)
    BY <1>1, <1>3, FlatFromStep
  <2> QED
    BY <2>1 DEF RestArgs, W
<1>9. <<34>> \in Seq(NonNul) /\ <<32>> \in Seq(NonNul) /\ <<34>> \o <<32>> = <<34, 32>>
  BY QuoteSpace
<1> HIDE DEF F, R, W, g
<1>10. ((((<<34>> \o F) \o <<34>>) \o <<32>>) \o R) = <<34>> \o (F \o ((<<34>> \o <<32>>) \o R))
  <2> DEFINE q == <<34>>
             b == <<32>>
  <2>1. q \in Seq(NonNul) /\ b \in Seq(NonNul)
    BY <1>9
  <2> HIDE DEF q, b
  <2>2. Cat(Cat(Cat(Cat(q, F), q), b), R) = Cat(q, Cat(F, Cat(Cat(q, b), R)))
    BY <1>6, <1>8, <2>1, Reassociate
  <2> QED
    BY <2>2, Zenon DEF q, b, Cat
<1>11. RestArgs(n) = <<34>> \o (F \o (<<34, 32>> \o R))
  BY <1>4, <1>7, <1>8, <1>9, <1>10
<1> QED
  BY <1>2, <1>6, <1>8, <1>11 DEF F, R, g

\* What repr_char wrote of a byte is read as that byte.
LEMMA DecodeChar ==
  ASSUME TextTypeOK, 1 <= p, p <= Len(line) + 1, quote = "double",
         NEW c \in Char, NEW b \in Seq(NonNul), Rest = repr_char(c) \o b
  PROVE Iteration = Go(<<c>>, p + Len(repr_char(c)), "double")
<1> DEFINE t == repr_char(c)
<1>1. t \in Seq(NonNul) /\ Len(t) \in Nat
  BY ReprCharType
<1>2. \A k \in 1..Len(t) : At(p + k - 1) = t[k]
  BY <1>1, Advance
<1>3. ReprForm(c, t) /\ p \in Nat
  BY ReprForms DEF TextTypeOK
<1>4. Iteration = in_double
  BY DEF Iteration
<1> HIDE DEF t
<1>5. ASSUME NEW l, t = <<92, l>>, l # 0, l # 120, EscapedByte(l) = c
      PROVE Iteration = Go(<<c>>, p + Len(t), "double")
  <2>1. Len(t) = 2 /\ t[1] = 92 /\ t[2] = l
    BY <1>5
  <2>2. At(p) = 92 /\ At(p + 1) = l
    <3>1. At(p + 1 - 1) = 92 /\ At(p + 2 - 1) = l
      BY <1>2, <2>1
    <3>2. p + 1 - 1 = p /\ p + 2 - 1 = p + 1
      BY <1>3
    <3> QED
      BY <3>1, <3>2
  <2>3. ~HexAt(p)
    BY <1>5, <2>2 DEF HexAt
  <2>4. in_double = Go(<<EscapedByte(At(p + 1))>>, p + 2, quote)
    BY <1>5, <2>2, <2>3 DEF in_double
  <2> QED
    BY <1>4, <1>5, <2>1, <2>2, <2>4
<1>6. CASE c \in {92, 34} /\ t = <<92, c>>
  <2>1. EscapedByte(c) = c
    <3>1. c \notin {110, 114, 116, 97, 98}
      BY <1>6
    <3> QED
      BY <3>1, EscapeLetters, Zenon
  <2>2. c # 0 /\ c # 120 /\ t = <<92, c>>
    BY <1>6
  <2> QED
    BY <1>5, <2>1, <2>2 DEF t
<1>7. CASE \E l \in ShortLetters : t = <<92, l>> /\ EscapedByte(l) = c
  <2>1. PICK l \in ShortLetters : t = <<92, l>> /\ EscapedByte(l) = c
    BY <1>7
  <2>2. l # 0 /\ l # 120
    BY <2>1 DEF ShortLetters
  <2> QED
    BY <1>5, <2>1, <2>2 DEF t
<1>8. CASE c \in 32..126 /\ c \notin {92, 34} /\ t = <<c>>
  <2>1. Len(t) = 1 /\ t[1] = c
    BY <1>8
  <2>2. At(p) = c
    <3>1. At(p + 1 - 1) = c
      BY <1>2, <2>1
    <3>2. p + 1 - 1 = p
      BY <1>3
    <3> QED
      BY <3>1, <3>2
  <2>3. ~HexAt(p) /\ c # 92 /\ c # 34 /\ c # 0
    BY <1>8, <2>2 DEF HexAt
  <2>4. in_double = Go(<<At(p)>>, p + 1, quote)
    BY <2>2, <2>3 DEF in_double
  <2> QED
    BY <1>4, <2>1, <2>2, <2>4 DEF t
<1>9. CASE \E g, h \in 1..255 : /\ t = <<92, 120, g, h>>
                                /\ HexValueOf(g) \in 0..15 /\ HexValueOf(h) \in 0..15
                                /\ HexValueOf(g) * 16 + HexValueOf(h) = c
  <2>1. PICK g, h \in 1..255 : /\ t = <<92, 120, g, h>>
                               /\ HexValueOf(g) \in 0..15 /\ HexValueOf(h) \in 0..15
                               /\ HexValueOf(g) * 16 + HexValueOf(h) = c
    BY <1>9
  <2>2. Len(t) = 4 /\ t[1] = 92 /\ t[2] = 120 /\ t[3] = g /\ t[4] = h
    BY <2>1
  <2>3. At(p) = 92 /\ At(p + 1) = 120 /\ At(p + 2) = g /\ At(p + 3) = h
    <3>1. At(p + 1 - 1) = 92 /\ At(p + 2 - 1) = 120 /\ At(p + 3 - 1) = g /\ At(p + 4 - 1) = h
      BY <1>2, <2>2
    <3>2. p + 1 - 1 = p /\ p + 2 - 1 = p + 1 /\ p + 3 - 1 = p + 2 /\ p + 4 - 1 = p + 3
      BY <1>3
    <3> QED
      BY <3>1, <3>2
  <2>4. HexAt(p)
    <3>0. \A x \in 0..15 : x >= 0
      OBVIOUS
    <3>1. HexValueOf(g) >= 0 /\ HexValueOf(h) >= 0
      BY <2>1, <3>0, ZenonT(60)
    <3> QED
      BY <2>3, <3>1 DEF HexAt
  <2>5. in_double = Go(<<HexValueOf(At(p + 2)) * 16 + HexValueOf(At(p + 3))>>, p + 4, quote)
    BY <2>3, <2>4 DEF in_double
  <2> QED
    BY <1>4, <2>1, <2>2, <2>3, <2>5, SMTT(40) DEF t
<1> QED
  BY <1>3, <1>6, <1>7, <1>8, <1>9 DEF ReprForm

\* The closing quote, and the space that write_again put after it.
LEMMA CloseQuote ==
  ASSUME TextTypeOK, 1 <= p, p <= Len(line) + 1, quote = "double",
         NEW b \in Seq(NonNul), Rest = <<34, 32>> \o b
  PROVE Iteration = Done(p + 1) /\ SubSeq(line, p + 1, Len(line)) = <<32>> \o b
<1>1. Len(<<34, 32>>) = 2 /\ <<34, 32>>[1] = 34 /\ <<34, 32>>[2] = 32
  OBVIOUS
<1>2. p \in Nat
  BY DEF TextTypeOK
<1>3. \A k \in 1..Len(<<34, 32>>) : At(p + k - 1) = <<34, 32>>[k]
  BY QuoteSpace, Advance
<1>4. At(p) = 34 /\ At(p + 1) = 32
  <2>1. At(p + 1 - 1) = 34 /\ At(p + 2 - 1) = 32
    BY <1>1, <1>3
  <2>2. p + 1 - 1 = p /\ p + 2 - 1 = p + 1
    BY <1>2
  <2> QED
    BY <2>1, <2>2
<1>5. in_double = Closing
  BY <1>4 DEF in_double, HexAt
<1>6. Closing = Done(p + 1)
  BY <1>4 DEF Closing, isspace
<1>7. SubSeq(line, p + 1, Len(line)) = <<32>> \o b
  <2> DEFINE q == <<34>>
             d == <<32>>
             r == d \o b
  <2>1. q \in Seq(NonNul) /\ d \in Seq(NonNul) /\ Len(q) = 1 /\ <<34, 32>> = q \o d
    BY QuoteSpace
  <2> HIDE DEF q, d
  <2>2. Cat(Cat(q, d), b) = Cat(q, Cat(d, b)) /\ Cat(d, b) \in Seq(NonNul)
    BY <2>1, Associates, Concatenates
  <2>3. r \in Seq(NonNul) /\ Rest = q \o r
    <3>1. Rest = (q \o d) \o b
      BY <2>1
    <3> QED
      BY <3>1, <2>2, Zenon DEF Cat
  <2> HIDE DEF r
  <2>4. SubSeq(line, p + Len(q), Len(line)) = r
    BY <2>1, <2>3, Advance
  <2> QED
    BY <2>1, <2>4 DEF r, d
<1> QED
  BY <1>5, <1>6, <1>7 DEF Iteration

\* The first byte that is left.
LEMMA FirstByte ==
  ASSUME TextTypeOK, 1 <= p, p <= Len(line) + 1, NEW c \in NonNul, NEW b \in Seq(NonNul),
         Rest = <<c>> \o b
  PROVE At(p) = c /\ SubSeq(line, p + 1, Len(line)) = b
<1> DEFINE a == <<c>>
<1>1. a \in Seq(NonNul) /\ Len(a) = 1 /\ a[1] = c
  OBVIOUS
<1>2. Rest = a \o b /\ p \in Nat
  BY DEF TextTypeOK
<1> HIDE DEF a
<1>3. (\A k \in 1..Len(a) : At(p + k - 1) = a[k]) /\ SubSeq(line, p + Len(a), Len(line)) = b
  BY <1>1, <1>2, Advance
<1>4. At(p + 1 - 1) = c /\ p + 1 - 1 = p
  BY <1>1, <1>2, <1>3
<1> QED
  BY <1>1, <1>3, <1>4

LEMMA WriteAgainRound == ASSUME SInv, write_again PROVE RoundInv'
<1>1. TextTypeOK /\ SafeInv /\ job = "tokens" /\ sep = <<>> /\ tokens # <<>> /\ quote = "none"
  BY DEF write_again, SInv, ToWrite, SafeInv
<1>2. /\ job' = "args" /\ given' = tokens /\ tokens' = <<>> /\ p' = 1 /\ quote' = "none"
      /\ line' = FlattenSeq(Written(tokens)) /\ Len(<<>>) = 0
  BY <1>1 DEF write_again, Written
<1>3. Written(tokens) \in Seq(Seq(NonNul)) /\ Len(tokens) \in Nat
  BY <1>1, WrittenType, LenProperties DEF TextTypeOK
<1>4. line' \in Seq(NonNul)
  BY <1>2, <1>3, FlattenType
<1>5. SubSeq(line', 1, Len(line')) = line'
  BY <1>4, SubSeqFull
<1>6. FlatFrom(Written(tokens), 1) = FlattenSeq(Written(tokens))
  BY <1>3, FlatFromEnds
<1>7. Rest' = RestArgs(Len(tokens))'
  <2>1. Len(tokens') + 1 = 1
    BY <1>2
  <2> QED
    BY <1>2, <1>5, <1>6, <2>1 DEF Rest, RestArgs
<1>8. tokens' = SubSeq(given', 1, Len(tokens')) /\ Len(tokens') <= Len(given')
  <2>1. SubSeq(given', 1, 0) = <<>>
    BY SubSeqEmpty
  <2> QED
    BY <1>2, <1>3, <2>1
<1> QED
  BY <1>2, <1>7, <1>8 DEF RoundInv, ReadSoFar, BetweenArgs, AtArg, InArg

\* What is known of a line that was written, between its arguments.
LEMMA BetweenFacts ==
  ASSUME SInv, RoundInv, given # <<>>, job = "args", quote = "none"
  PROVE /\ TextTypeOK /\ p \in Nat /\ 1 <= p /\ p <= Len(line) + 1
        /\ Len(tokens) \in Nat /\ Len(given) \in Nat /\ Len(tokens) <= Len(given)
        /\ given \in Seq(Seq(Char)) /\ tokens = SubSeq(given, 1, Len(tokens))
        /\ RestArgs(Len(tokens)) \in Seq(NonNul)
        /\ Rest = RestArgs(Len(tokens)) \/ Rest = <<32>> \o RestArgs(Len(tokens))
        /\ Rest = <<32>> \o RestArgs(Len(tokens)) => At(p) = 32
        /\ (Rest = RestArgs(Len(tokens)) /\ Len(tokens) < Len(given)) => At(p) = 34
        /\ (Rest = RestArgs(Len(tokens)) /\ Len(tokens) = Len(given)) => At(p) = 0
<1>1. /\ TextTypeOK /\ p \in Nat /\ 1 <= p /\ p <= Len(line) + 1
      /\ Len(tokens) \in Nat /\ Len(given) \in Nat /\ Len(tokens) <= Len(given)
      /\ given \in Seq(Seq(Char)) /\ tokens = SubSeq(given, 1, Len(tokens))
      /\ Rest = RestArgs(Len(tokens)) \/ Rest = <<32>> \o RestArgs(Len(tokens))
  BY LenProperties DEF SInv, SafeInv, TextTypeOK, RoundInv, ReadSoFar, BetweenArgs
<1>2. CASE Len(tokens) < Len(given)
  <2> DEFINE g == given[Len(tokens) + 1]
             R == FlatFrom(Pieces(g), 1) \o (<<34, 32>> \o RestArgs(Len(tokens) + 1))
  <2>1. /\ FlatFrom(Pieces(g), 1) \in Seq(NonNul)
        /\ RestArgs(Len(tokens) + 1) \in Seq(NonNul)
        /\ RestArgs(Len(tokens)) = <<34>> \o R
    BY <1>1, <1>2, RestArgsStep
  <2>2. R \in Seq(NonNul)
    <3>1. <<34, 32>> \o RestArgs(Len(tokens) + 1) \in Seq(NonNul)
      BY <2>1, QuoteSpace, ConcatProperties
    <3> QED
      BY <2>1, <3>1, ConcatProperties
  <2> HIDE DEF R
  <2>3. 34 \in NonNul /\ 32 \in NonNul
    BY DEF NonNul
  <2>4. RestArgs(Len(tokens)) \in Seq(NonNul)
    BY <2>1, <2>2, QuoteSpace, ConcatProperties
  <2>5. Rest = RestArgs(Len(tokens)) => At(p) = 34
    BY <1>1, <2>1, <2>2, <2>3, FirstByte
  <2>6. Rest = <<32>> \o RestArgs(Len(tokens)) => At(p) = 32
    BY <1>1, <2>3, <2>4, FirstByte
  <2> QED
    BY <1>1, <1>2, <2>4, <2>5, <2>6, SMTT(40)
<1>3. CASE Len(tokens) = Len(given)
  <2>1. RestArgs(Len(tokens)) = <<>>
    BY <1>1, <1>3, WrittenType, FlatFromEnds DEF RestArgs
  <2>2. <<>> \in Seq(NonNul) /\ 32 \in NonNul
    BY EmptySeq DEF NonNul
  <2>3. Rest = <<>> => At(p) = 0
    BY <1>1, AtEnd
  <2>4. Rest = <<32>> \o <<>> => At(p) = 32
    BY <1>1, <2>2, FirstByte
  <2> QED
    BY <1>1, <1>3, <2>1, <2>2, <2>3, <2>4
<1> QED
  BY <1>1, <1>2, <1>3

LEMMA WalkRound == ASSUME SInv, RoundInv, arg_blank \/ arg_begin \/ arg_return PROVE RoundInv'
<1> SUFFICES ASSUME given # <<>>
             PROVE RoundInv'
  BY DEF RoundInv, arg_blank, arg_begin, arg_return
<1>0. job = "args" /\ quote = "none"
  BY DEF arg_blank, arg_begin, arg_return
<1>1. /\ TextTypeOK /\ p \in Nat /\ 1 <= p /\ p <= Len(line) + 1
      /\ Len(tokens) \in Nat /\ Len(given) \in Nat /\ Len(tokens) <= Len(given)
      /\ given \in Seq(Seq(Char)) /\ tokens = SubSeq(given, 1, Len(tokens))
      /\ RestArgs(Len(tokens)) \in Seq(NonNul)
      /\ Rest = RestArgs(Len(tokens)) \/ Rest = <<32>> \o RestArgs(Len(tokens))
      /\ Rest = <<32>> \o RestArgs(Len(tokens)) => At(p) = 32
      /\ (Rest = RestArgs(Len(tokens)) /\ Len(tokens) < Len(given)) => At(p) = 34
      /\ (Rest = RestArgs(Len(tokens)) /\ Len(tokens) = Len(given)) => At(p) = 0
  BY <1>0, BetweenFacts
<1>2. CASE arg_blank
  <2>1. isspace(At(p)) /\ p' = p + 1 /\ UNCHANGED <<job, line, quote, tokens, given>>
    BY <1>2 DEF arg_blank
  <2>2. At(p) # 34 /\ At(p) # 0
    BY <2>1 DEF isspace
  <2>3. Rest = <<32>> \o RestArgs(Len(tokens))
    BY <1>1, <2>2
  <2>4. SubSeq(line, p + 1, Len(line)) = RestArgs(Len(tokens))
    <3>1. 32 \in NonNul
      BY DEF NonNul
    <3> QED
      BY <1>1, <2>3, <3>1, FirstByte
  <2>5. Rest' = RestArgs(Len(tokens))'
    BY <2>1, <2>4 DEF Rest, RestArgs
  <2> QED
    BY <1>0, <1>1, <2>1, <2>5 DEF RoundInv, ReadSoFar, BetweenArgs, AtArg, InArg
<1>3. CASE arg_begin
  <2>1. /\ At(p) # 0 /\ ~isspace(At(p)) /\ quote' = "plain" /\ current' = <<>>
        /\ UNCHANGED <<job, line, p, tokens, given>>
    BY <1>3 DEF arg_begin
  <2>2. At(p) # 32
    BY <2>1 DEF isspace
  <2>3. Rest = RestArgs(Len(tokens)) /\ Len(tokens) < Len(given)
    BY <1>1, <2>1, <2>2
  <2>4. Rest' = RestArgs(Len(tokens))'
    BY <2>1, <2>3 DEF Rest, RestArgs
  <2> QED
    BY <1>0, <1>1, <2>1, <2>3, <2>4 DEF RoundInv, ReadSoFar, BetweenArgs, AtArg, InArg
<1>4. CASE arg_return
  <2>1. At(p) = 0 /\ job' = "tokens" /\ UNCHANGED <<tokens, given>>
    BY <1>4 DEF arg_return
  <2>2. Len(tokens) = Len(given)
    BY <1>1, <2>1
  <2>3. tokens = given
    BY <1>1, <2>2, SubSeqFull
  <2> QED
    BY <2>1, <2>3 DEF RoundInv
<1> QED
  BY <1>2, <1>3, <1>4

\* What is known of a line that was written, at the quote of an argument.
LEMMA OpeningRound ==
  ASSUME SInv, RoundInv, given # <<>>, job = "args", quote = "plain",
         arg_char \/ arg_done \/ arg_err
  PROVE RoundInv'
<1> DEFINE n == Len(tokens)
           g == given[n + 1]
           T == <<34, 32>> \o RestArgs(n + 1)
           R == FlatFrom(Pieces(g), 1) \o T
<1>1. /\ TextTypeOK /\ p \in Nat /\ 1 <= p /\ p <= Len(line) + 1
      /\ n \in Nat /\ Len(given) \in Nat /\ n < Len(given)
      /\ tokens = SubSeq(given, 1, n) /\ current = <<>> /\ Rest = RestArgs(n)
  BY LenProperties DEF SInv, SafeInv, TextTypeOK, RoundInv, ReadSoFar, AtArg
<1> HIDE DEF n
<1>2. /\ g \in Seq(Char) /\ FlatFrom(Pieces(g), 1) \in Seq(NonNul)
      /\ RestArgs(n + 1) \in Seq(NonNul) /\ RestArgs(n) = <<34>> \o R
  BY <1>1, RestArgsStep
<1>3. T \in Seq(NonNul)
  BY <1>2, QuoteSpace, ConcatProperties
<1> HIDE DEF T
<1>4. R \in Seq(NonNul)
  BY <1>2, <1>3, ConcatProperties
<1>5. At(p) = 34 /\ SubSeq(line, p + 1, Len(line)) = R
  <2> HIDE DEF R
  <2>1. 34 \in NonNul
    BY DEF NonNul
  <2> QED
    BY <1>1, <1>2, <1>4, <2>1, FirstByte
<1>6. Iteration = Go(<<>>, p + 1, "double")
  BY <1>5 DEF Iteration, in_plain
<1>7. /\ Iteration.kind = "go" /\ Iteration.bytes = <<>> /\ Iteration.next = p + 1
      /\ Iteration.quote = "double"
  BY <1>6 DEF Go
<1>8. /\ arg_char /\ current' = current \o <<>> /\ p' = p + 1 /\ quote' = "double"
      /\ UNCHANGED <<job, line, tokens, given>>
  BY <1>7 DEF arg_char, arg_done, arg_err
<1>9. current' = <<>> /\ Len(current') = 0
  BY <1>1, <1>8
<1>10. Rest' = R
  BY <1>5, <1>8 DEF Rest
<1>11. /\ Len(g) \in Nat /\ SubSeq(g, 1, 0) = <<>>
  BY <1>2, LenProperties, SubSeqEmpty
<1>12. InArg'
  <2>1. Len(current') + 1 = 1 /\ Len(current') <= Len(g)
    BY <1>9, <1>11
  <2>2. current' = SubSeq(g, 1, Len(current'))
    BY <1>9, <1>11
  <2>3. RestArgs(n + 1)' = RestArgs(n + 1)
    BY <1>8 DEF RestArgs, n
  <2> QED
    BY <1>1, <1>8, <1>10, <2>1, <2>2, <2>3 DEF InArg, n, T
<1> QED
  BY <1>1, <1>8, <1>12 DEF RoundInv, ReadSoFar, BetweenArgs, AtArg, n

\* A byte within an argument.
LEMMA InsideRound ==
  ASSUME SInv, RoundInv, given # <<>>, job = "args", quote = "double",
         Len(current) < Len(given[Len(tokens) + 1]),
         arg_char \/ arg_done \/ arg_err
  PROVE RoundInv'
<1> DEFINE n == Len(tokens)
           g == given[n + 1]
           m == Len(current)
           T == <<34, 32>> \o RestArgs(n + 1)
           c == g[m + 1]
           F == FlatFrom(Pieces(g), m + 2)
<1>1. /\ TextTypeOK /\ p \in Nat /\ 1 <= p /\ p <= Len(line) + 1
      /\ n \in Nat /\ m \in Nat /\ Len(given) \in Nat /\ n < Len(given) /\ current \in Seq(Char)
      /\ tokens = SubSeq(given, 1, n) /\ n <= Len(given)
      /\ m < Len(g) /\ current = SubSeq(g, 1, m)
      /\ Rest = FlatFrom(Pieces(g), m + 1) \o T
  BY LenProperties DEF SInv, SafeInv, TextTypeOK, RoundInv, ReadSoFar, InArg
<1>2. g \in Seq(Char) /\ RestArgs(n + 1) \in Seq(NonNul)
  <2> HIDE DEF n
  <2> QED
    BY <1>1, RestArgsStep
<1>3. T \in Seq(NonNul)
  BY <1>2, QuoteSpace, ConcatProperties
<1>4. Pieces(g) \in Seq(Seq(NonNul)) /\ Len(Pieces(g)) = Len(g) /\ Len(g) \in Nat
  BY <1>2, PiecesType, LenProperties
<1>5. m + 1 \in 1..Len(g) /\ (m + 1) + 1 = m + 2
  BY <1>1, <1>4, SMTT(40)
<1>6. c \in Char /\ Pieces(g)[m + 1] = repr_char(c)
  <2>1. DOMAIN g = 1..Len(g)
    BY <1>2, LenProperties
  <2> QED
    BY <1>2, <1>5, <2>1, ElementOfSeq DEF Pieces
<1> HIDE DEF n, g, m, T, c
<1>7. F \in Seq(NonNul) /\ FlatFrom(Pieces(g), m + 1) = repr_char(c) \o F
  <2>1. /\ FlatFrom(Pieces(g), (m + 1) + 1) \in Seq(NonNul)
        /\ FlatFrom(Pieces(g), m + 1) = Pieces(g)[m + 1] \o FlatFrom(Pieces(g), (m + 1) + 1)
    BY <1>4, <1>5, FlatFromStep
  <2> QED
    BY <1>5, <1>6, <2>1
<1> HIDE DEF F
<1>8. repr_char(c) \in Seq(NonNul)
  BY <1>6, ReprCharType
<1>9. Rest = repr_char(c) \o (F \o T) /\ F \o T \in Seq(NonNul)
  <2> DEFINE r == repr_char(c)
  <2>1. r \in Seq(NonNul)
    BY <1>8
  <2>2. Rest = (r \o F) \o T
    BY <1>1, <1>7
  <2> HIDE DEF r
  <2>3. Cat(Cat(r, F), T) = Cat(r, Cat(F, T)) /\ Cat(F, T) \in Seq(NonNul)
    BY <1>3, <1>7, <2>1, Associates, Concatenates
  <2>4. Rest = r \o (F \o T) /\ F \o T \in Seq(NonNul)
    BY <2>2, <2>3, Zenon DEF Cat
  <2> QED
    BY <2>4 DEF r
<1>10. Iteration = Go(<<c>>, p + Len(repr_char(c)), "double")
  BY <1>1, <1>6, <1>9, DecodeChar
<1>11. SubSeq(line, p + Len(repr_char(c)), Len(line)) = F \o T
  <2> DEFINE r == repr_char(c)
             b == F \o T
  <2>1. r \in Seq(NonNul) /\ b \in Seq(NonNul) /\ Rest = r \o b
    BY <1>8, <1>9
  <2> HIDE DEF r, b
  <2>2. SubSeq(line, p + Len(r), Len(line)) = b
    BY <1>1, <2>1, Advance
  <2> QED
    BY <2>2 DEF r, b
<1>12. /\ Iteration.kind = "go" /\ Iteration.bytes = <<c>> /\ Iteration.quote = "double"
       /\ Iteration.next = p + Len(repr_char(c))
  BY <1>10 DEF Go
<1>13. /\ arg_char /\ current' = current \o <<c>> /\ p' = p + Len(repr_char(c))
       /\ quote' = "double" /\ UNCHANGED <<job, line, tokens, given>>
  BY <1>12 DEF arg_char, arg_done, arg_err
<1>14. current' = SubSeq(g, 1, m + 1) /\ Len(current') = m + 1
  <2>1. SubSeq(g, 1, m) \in Seq(Char) /\ SubSeq(g, 1, m + 1) = Append(SubSeq(g, 1, m), g[m + 1])
    <3>1. 1 \in Nat \ {0} /\ 1 <= m + 1 /\ m + 1 <= Len(g)
      BY <1>1, <1>4, <1>5
    <3> QED
      BY <1>1, <1>2, <3>1, SubSeqMore DEF g
  <2>2. current' = Append(current, c)
    BY <1>1, <1>6, <1>13, AppendIsConcat
  <2>3. Len(current') = m + 1
    BY <1>1, <1>6, <2>2, AppendProperties DEF m
  <2> QED
    BY <1>1, <2>1, <2>2, <2>3 DEF c
<1>15. Rest' = F \o T
  BY <1>11, <1>13 DEF Rest
<1>16. InArg'
  <2>1. Len(current') + 1 = m + 2 /\ Len(current') <= Len(g)
    BY <1>1, <1>4, <1>5, <1>14
  <2>2. RestArgs(n + 1)' = RestArgs(n + 1)
    BY <1>13 DEF RestArgs, n
  <2> QED
    BY <1>1, <1>13, <1>14, <1>15, <2>1, <2>2 DEF InArg, n, T, g, F
<1> QED
  BY <1>1, <1>13, <1>16 DEF RoundInv, ReadSoFar, BetweenArgs, AtArg, n

\* The end of an argument.
LEMMA ClosingRound ==
  ASSUME SInv, RoundInv, given # <<>>, job = "args", quote = "double",
         Len(current) = Len(given[Len(tokens) + 1]),
         arg_char \/ arg_done \/ arg_err
  PROVE RoundInv'
<1> DEFINE n == Len(tokens)
           g == given[n + 1]
           m == Len(current)
           R == RestArgs(n + 1)
<1>1. /\ TextTypeOK /\ p \in Nat /\ 1 <= p /\ p <= Len(line) + 1
      /\ n \in Nat /\ m \in Nat /\ Len(given) \in Nat /\ n < Len(given)
      /\ tokens = SubSeq(given, 1, n)
      /\ m = Len(g) /\ current = SubSeq(g, 1, m) /\ given \in Seq(Seq(Char))
      /\ Rest = FlatFrom(Pieces(g), m + 1) \o (<<34, 32>> \o R)
  BY LenProperties DEF SInv, SafeInv, TextTypeOK, RoundInv, ReadSoFar, InArg
<1>2. g \in Seq(Char) /\ R \in Seq(NonNul)
  <2> HIDE DEF n
  <2> QED
    BY <1>1, RestArgsStep
<1>3. FlatFrom(Pieces(g), m + 1) = <<>>
  BY <1>1, <1>2, PiecesType, FlatFromEnds
<1>4. <<34, 32>> \o R \in Seq(NonNul)
  BY <1>2, QuoteSpace, ConcatProperties
<1>5. Rest = <<34, 32>> \o R
  BY <1>1, <1>3, <1>4, ConcatEmptySeq
<1>6. current = g
  BY <1>1, <1>2, SubSeqFull
<1> HIDE DEF n, R
<1>7. Iteration = Done(p + 1) /\ SubSeq(line, p + 1, Len(line)) = <<32>> \o R
  BY <1>1, <1>2, <1>5, CloseQuote
<1>8. Iteration.kind = "done" /\ Iteration.next = p + 1
  BY <1>7 DEF Done
<1>9. /\ arg_done /\ tokens' = Append(tokens, g) /\ current' = <<>> /\ p' = p + 1 /\ quote' = "none"
      /\ UNCHANGED <<job, line, given>>
  BY <1>6, <1>8 DEF arg_char, arg_done, arg_err
<1>10. tokens' = SubSeq(given, 1, n + 1) /\ Len(tokens') = n + 1
  <2>1. SubSeq(given, 1, n) \in Seq(Seq(Char)) /\ SubSeq(given, 1, n + 1) = Append(SubSeq(given, 1, n), given[n + 1])
    <3>1. 1 \in Nat \ {0} /\ 1 <= n + 1 /\ n + 1 <= Len(given)
      BY <1>1
    <3> QED
      BY <1>1, <3>1, SubSeqMore, ZenonT(60)
  <2>2. Len(tokens') = Len(tokens) + 1
    BY <1>1, <1>2, <1>9, <2>1, AppendProperties
  <2> QED
    BY <1>1, <1>9, <2>1, <2>2 DEF n
<1>11. Rest' = <<32>> \o RestArgs(Len(tokens))'
  <2>1. RestArgs(n + 1) = RestArgs(Len(tokens))'
    BY <1>9, <1>10 DEF RestArgs
  <2> QED
    BY <1>7, <1>9, <2>1 DEF Rest, R
<1>12. Len(tokens') <= Len(given)
  BY <1>1, <1>10
<1> QED
  BY <1>9, <1>10, <1>11, <1>12 DEF RoundInv, ReadSoFar, BetweenArgs, AtArg, InArg

LEMMA ArgStepRound == ASSUME SInv, RoundInv, arg_char \/ arg_done \/ arg_err PROVE RoundInv'
<1>1. given' = given /\ job = "args" /\ quote # "none"
  BY DEF arg_char, arg_done, arg_err
<1>2. CASE given = <<>>
  BY <1>1, <1>2 DEF RoundInv
<1>3. CASE given # <<>>
  <2>1. quote # "single" /\ quote \in {"plain", "double"}
    BY <1>1, <1>3 DEF RoundInv, ReadSoFar, SInv, TextTypeOK
  <2>2. CASE quote = "plain"
    BY <1>1, <1>3, <2>2, OpeningRound
  <2>3. CASE quote = "double"
    <3>1. Len(tokens) < Len(given) /\ Len(current) <= Len(given[Len(tokens) + 1])
      BY <1>1, <1>3, <2>3 DEF RoundInv, ReadSoFar, InArg
    <3>2. Len(tokens) \in Nat /\ Len(given) \in Nat /\ Len(current) \in Nat /\ given \in Seq(Seq(Char))
      BY LenProperties DEF SInv, TextTypeOK
    <3>3. Len(tokens) + 1 \in 1..Len(given)
      BY <3>1, <3>2
    <3>4. Len(given[Len(tokens) + 1]) \in Nat
      BY <3>2, <3>3, ElementOfSeq, LenProperties
    <3>5. \/ Len(current) < Len(given[Len(tokens) + 1])
          \/ Len(current) = Len(given[Len(tokens) + 1])
      BY <3>1, <3>2, <3>4
    <3> QED
      BY <1>1, <1>3, <2>3, <3>5, InsideRound, ClosingRound
  <2> QED
    BY <2>1, <2>2, <2>3
<1> QED
  BY <1>2, <1>3

\* An empty line is not one that was written.
LEMMA NullRound == ASSUME SInv, RoundInv, arg_null PROVE RoundInv'
<1>1. /\ job = "args" /\ quote = "none" /\ At(p) = 0 /\ tokens = <<>> /\ given' = given
  BY DEF arg_null
<1>2. CASE given = <<>>
  BY <1>1, <1>2 DEF RoundInv
<1>3. CASE given # <<>>
  <2>1. /\ Len(given) \in Nat
        /\ Rest = RestArgs(Len(tokens)) \/ Rest = <<32>> \o RestArgs(Len(tokens))
        /\ Rest = <<32>> \o RestArgs(Len(tokens)) => At(p) = 32
        /\ (Rest = RestArgs(Len(tokens)) /\ Len(tokens) < Len(given)) => At(p) = 34
        /\ given \in Seq(Seq(Char))
    BY <1>1, <1>3, BetweenFacts
  <2>2. Len(tokens) = 0
    BY <1>1, EmptySeq
  <2>3. Len(given) # 0
    BY <1>3, <2>1, EmptySeq
  <2> QED
    BY <1>1, <2>1, <2>2, <2>3
<1> QED
  BY <1>2, <1>3

\* The rest leaves what was given alone, and starts from "idle" or is about
\* another call.
LEMMA OthersRound ==
  ASSUME SInv, RoundInv,
         \/ sdssplitlen \/ split_next \/ split_last \/ split_fail \/ sdssplitargs
         \/ arg_oom \/ sdsll2str \/ sdsull2str \/ digit \/ sign \/ reverse \/ UNCHANGED textVars
  PROVE RoundInv'
<1>1. CASE UNCHANGED textVars
  BY <1>1 DEF textVars, numVars, RoundInv, ReadSoFar, BetweenArgs, AtArg, InArg, Rest, RestArgs
<1>2. CASE arg_oom
  BY <1>2 DEF arg_oom, RoundInv
<1>3. CASE \/ sdssplitlen \/ split_next \/ split_last \/ split_fail \/ sdssplitargs
           \/ sdsll2str \/ sdsull2str \/ digit \/ sign \/ reverse
  <2>1. given' = given /\ job \in {"idle", "split", "digits", "sign", "reverse"}
    BY <1>3 DEF sdssplitlen, split_next, split_last, split_fail, cleanup, Searching, sdssplitargs,
                sdsll2str, sdsull2str, digit, sign, reverse
  <2>2. given = <<>>
    BY <2>1 DEF RoundInv
  <2> QED
    BY <2>1, <2>2 DEF RoundInv
<1> QED
  BY <1>1, <1>2, <1>3

\* What sdscatrepr wrote of any arguments is read by sdssplitargs as those
\* arguments (util/sds.c), whatever bytes they have, for every line they came
\* from.
THEOREM ArgsRound == TextSpec => []ArgsRoundTrip
<1>1. Idle => RoundInv
  BY DEF Idle, RoundInv
<1>2. SInv /\ RoundInv /\ [TextNext]_textVars => RoundInv'
  BY WriteAgainRound, WalkRound, ArgStepRound, NullRound, OthersRound DEF TextNext
<1>3. RoundInv => ArgsRoundTrip
  BY DEF RoundInv, ArgsRoundTrip
<1> QED
  BY <1>1, <1>2, <1>3, SafeInvariant, PTL DEF TextSpec

(***************************************************************************)
(* NumberText.  What is left of the number and the digits written so far   *)
(* stand for it; what is left is less than what the rest of the buffer can *)
(* hold.                                                                   *)
(***************************************************************************)
SIZE == SDS_LLSTR_SIZE

\* f has the powers of ten.
Powers(f, n) == f = [k \in 0..n |-> IF k = 0 THEN 1 ELSE 10 * f[k - 1]]

LEMMA PowersExist ==
  ASSUME NEW n \in Nat
  PROVE \E f : Powers(f, n) /\ f \in [0..n -> Nat]
<1> DEFINE Bad == {m \in Nat : ~ \E f : Powers(f, m) /\ f \in [0..m -> Nat]}
<1> SUFFICES ASSUME Bad # {}
             PROVE FALSE
  OBVIOUS
<1>1. PICK m \in Bad : \A j \in Bad : m <= j
  BY LeastNumber
<1>2. m # 0
  <2> DEFINE one == [k \in 0..0 |-> 1]
  <2>1. one = [k \in 0..0 |-> IF k = 0 THEN 1 ELSE 10 * one[k - 1]] /\ one \in [0..0 -> Nat]
    OBVIOUS
  <2> HIDE DEF one
  <2> QED
    BY <2>1 DEF Powers
<1>3. PICK r \in Nat : m = r + 1
  BY <1>2
<1>4. PICK f : Powers(f, r) /\ f \in [0..r -> Nat]
  BY <1>1, <1>3
<1> DEFINE g == [k \in 0..m |-> IF k < m THEN f[k] ELSE 10 * f[r]]
<1>5. \A k \in 0..m : g[k] = (IF k = 0 THEN 1 ELSE 10 * g[k - 1]) /\ g[k] \in Nat
  <2>1. \A k \in 0..r : f[k] = (IF k = 0 THEN 1 ELSE 10 * f[k - 1]) /\ f[k] \in Nat
    BY <1>4 DEF Powers
  <2>2. \A k \in 0..r : g[k] = f[k]
    BY <1>3
  <2>3. g[m] = 10 * f[r]
    BY <1>3
  <2> HIDE DEF g
  <2> SUFFICES ASSUME NEW k \in 0..m
               PROVE g[k] = (IF k = 0 THEN 1 ELSE 10 * g[k - 1]) /\ g[k] \in Nat
    OBVIOUS
  <2>4. CASE k = m
    BY <2>1, <2>2, <2>3, <2>4, <1>3
  <2>5. CASE k # m
    <3>1. k \in 0..r /\ (k # 0 => k - 1 \in 0..r)
      BY <2>5, <1>3
    <3> QED
      BY <3>1, <2>1, <2>2
  <2> QED
    BY <2>4, <2>5
<1>6. g = [k \in 0..m |-> IF k = 0 THEN 1 ELSE 10 * g[k - 1]] /\ g \in [0..m -> Nat]
  <2>1. g = [k \in 0..m |-> g[k]]
    OBVIOUS
  <2> HIDE DEF g
  <2> QED
    BY <1>5, <2>1
<1> QED
  BY <1>1, <1>6 DEF Powers

LEMMA Pow10Values ==
  /\ Pow10[0] = 1
  /\ \A k \in 0..SIZE : Pow10[k] \in Nat
  /\ \A k \in 1..SIZE : Pow10[k] = 10 * Pow10[k - 1]
<1>0. SIZE \in Nat
  BY TextAssumption DEF SIZE
<1>1. Powers(Pow10, SIZE)
  <2>1. Pow10 = CHOOSE f : Powers(f, SIZE)
    BY Zenon DEF Pow10, Powers, SIZE
  <2>2. \E f : Powers(f, SIZE)
    BY <1>0, PowersExist
  <2> QED
    BY <2>1, <2>2
<1>2. \A k \in 0..SIZE : Pow10[k] = IF k = 0 THEN 1 ELSE 10 * Pow10[k - 1]
  BY <1>1 DEF Powers
<1> DEFINE Bad == {m \in 0..SIZE : Pow10[m] \notin Nat}
<1>3. Bad = {}
  <2> SUFFICES ASSUME Bad # {}
               PROVE FALSE
    OBVIOUS
  <2>0. Bad \in SUBSET Nat
    BY <1>0
  <2>1. PICK m \in Bad : \A j \in Bad : m <= j
    BY <2>0, LeastNumber
  <2>2. m # 0
    BY <1>0, <1>2
  <2>3. m - 1 \in 0..SIZE /\ Pow10[m - 1] \in Nat
    BY <1>0, <2>1, <2>2
  <2>4. Pow10[m] = 10 * Pow10[m - 1]
    BY <1>2, <2>2
  <2> QED
    BY <2>3, <2>4
<1>4. \A k \in 1..SIZE : k \in 0..SIZE /\ k # 0
  OBVIOUS
<1>5. 0 \in 0..SIZE
  BY <1>0
<1> QED
  BY <1>2, <1>3, <1>4, <1>5

\* f computes what the first m bytes of B stand for, from the last to the
\* first.
Horner(f, B, m) ==
  /\ f \in [0..m -> Nat]
  /\ \A k \in 1..m : f[k] = 10 * f[k - 1] + (B[m + 1 - k] - 48)

DigitBytes(B, m) == \A j \in 1..m : B[j] \in 48..57

\* The value of digits is what any such computation yields.
LEMMA ValueOfHorner ==
  ASSUME NEW digits \in Seq(Char), NEW f,
         f \in [0..Len(digits) -> Nat], f[0] = 0,
         \A k \in 1..Len(digits) : f[k] = 10 * f[k - 1] + (digits[k] - 48)
  PROVE ValueOf(digits) = f[Len(digits)]
<1> DEFINE Rec(g) == g = [k \in 0..Len(digits) |->
                            IF k = 0 THEN 0 ELSE 10 * g[k - 1] + (digits[k] - 48)]
           val == CHOOSE g : Rec(g)
<1>0. Len(digits) \in Nat
  BY LenProperties
<1>1. ValueOf(digits) = val[Len(digits)]
  BY Zenon DEF ValueOf
<1>2. Rec(f)
  <2>1. f = [k \in 0..Len(digits) |-> f[k]]
    OBVIOUS
  <2>2. \A k \in 0..Len(digits) : f[k] = IF k = 0 THEN 0 ELSE 10 * f[k - 1] + (digits[k] - 48)
    BY <1>0
  <2> QED
    BY <2>1, <2>2
<1>3. Rec(val)
  <2> HIDE DEF Rec
  <2> QED
    BY <1>2
<1>4. \A k \in 0..Len(digits) : val[k] = IF k = 0 THEN 0 ELSE 10 * val[k - 1] + (digits[k] - 48)
  <2> HIDE DEF val
  <2> QED
    BY <1>3
<1> HIDE DEF val, Rec
<1> DEFINE Bad == {m \in 0..Len(digits) : val[m] # f[m]}
<1>5. Bad = {}
  <2> SUFFICES ASSUME Bad # {}
               PROVE FALSE
    OBVIOUS
  <2>0. Bad \in SUBSET Nat
    BY <1>0
  <2>1. PICK m \in Bad : \A j \in Bad : m <= j
    BY <2>0, LeastNumber
  <2>2. m # 0
    BY <1>0, <1>4
  <2>3. m - 1 \in 0..Len(digits) /\ m \in 1..Len(digits) /\ val[m - 1] = f[m - 1]
    BY <1>0, <2>1, <2>2
  <2>4. val[m] = 10 * val[m - 1] + (digits[m] - 48)
    BY <1>4, <2>2
  <2> QED
    BY <2>3, <2>4
<1>6. Len(digits) \in 0..Len(digits)
  BY <1>0
<1> QED
  BY <1>1, <1>5, <1>6

Magnitude == IF value < 0 THEN -value ELSE value

SignBytes == IF value < 0 THEN 1 ELSE 0

\* The first m bytes of B are the digits of n, the last digit first.
Backwards(B, m, n) ==
  /\ m >= 1
  /\ DigitBytes(B, m)
  /\ B[m] = 48 => m = 1
  /\ \E f : Horner(f, B, m) /\ f[0] = 0 /\ f[m] = n

\* The bytes of c outside start..p are those of B in reverse.
PartReversed(c, B, first, last) ==
  \A k \in 1..Len(B) : c[k] = IF k < first \/ k > last THEN B[Len(B) + 1 - k] ELSE B[k]

DigitsInv ==
  job = "digits" =>
    /\ Len(current) <= SIZE - 1 - SignBytes
    /\ v < Pow10[SIZE - 1 - SignBytes - Len(current)]
    /\ Len(current) > 0 => v > 0
    /\ DigitBytes(current, Len(current))
    /\ \E f : Horner(f, current, Len(current)) /\ f[0] = v /\ f[Len(current)] = Magnitude

SignInv ==
  job = "sign" => /\ Len(current) <= SIZE - 1 - SignBytes
                  /\ Backwards(current, Len(current), Magnitude)

\* B is what the loop of digits and the sign left in the buffer.
Filled(B) ==
  /\ B \in Seq(Char) /\ Len(B) = Len(current)
  /\ Len(B) - SignBytes \in Nat
  /\ Backwards(B, Len(B) - SignBytes, Magnitude)
  /\ value < 0 => B[Len(B)] = 45

ReverseInv ==
  job = "reverse" =>
    /\ Len(current) < SIZE
    /\ start <= p + 1 /\ start + p = Len(current) + 1
    /\ \E B : Filled(B) /\ PartReversed(current, B, start, p)

NumInv == DigitsInv /\ SignInv /\ ReverseInv /\ NumberText

LEMMA NumberStart == ASSUME SInv, sdsll2str \/ sdsull2str PROVE NumInv'
<1>1. /\ job' = "digits" /\ current' = <<>>
      /\ v' = IF value' < 0 THEN -value' ELSE value'
  BY StartValue DEF SInv, SafeInv, Idle, sdsll2str, sdsull2str
<1>2. /\ value' \in Int /\ SIZE \in Nat /\ SIZE > 2
      /\ -Pow10[SIZE - 2] < value' /\ value' < Pow10[SIZE - 1]
  <2>1. SIZE - 1 \in 0..SIZE /\ SIZE - 2 \in 0..SIZE /\ SIZE \in Nat /\ SIZE > 2
    BY TextAssumption DEF SIZE
  <2>2. Pow10[SIZE - 1] \in Nat /\ Pow10[SIZE - 2] \in Nat
    BY <2>1, Pow10Values
  <2>3. -LLONG_MIN < Pow10[SIZE - 2] /\ ULLONG_MAX < Pow10[SIZE - 1]
        /\ LLONG_MIN \in Int /\ ULLONG_MAX \in Int
    BY TextAssumption DEF SIZE, LLONG_MIN, ULLONG_MAX
  <2> QED
    BY <2>1, <2>2, <2>3, StartValue
<1>3. Len(current') = 0
  BY <1>1, EmptySeq
<1>4. SIZE - 1 \in 0..SIZE /\ SIZE - 2 \in 0..SIZE
  BY <1>2
<1>5. Pow10[SIZE - 1] \in Nat /\ Pow10[SIZE - 2] \in Nat
  BY <1>4, Pow10Values
<1>6. v' \in Nat /\ v' = Magnitude'
  <2>1. v' = Magnitude'
    BY <1>1 DEF Magnitude
  <2>2. \A x \in Int : (IF x < 0 THEN -x ELSE x) \in Nat
    OBVIOUS
  <2> QED
    BY <1>1, <1>2, <2>1, <2>2, Zenon
<1>7. /\ Len(current') <= SIZE - 1 - SignBytes'
      /\ v' < Pow10[SIZE - 1 - SignBytes' - Len(current')]
  <2>1. CASE value' < 0
    <3>1. SignBytes' = 1 /\ v' < Pow10[SIZE - 2]
      BY <1>1, <1>2, <1>5, <2>1 DEF SignBytes
    <3>2. SIZE - 1 - SignBytes' - Len(current') = SIZE - 2 /\ Len(current') <= SIZE - 1 - SignBytes'
      BY <1>2, <1>3, <3>1
    <3> QED
      BY <3>1, <3>2
  <2>2. CASE ~(value' < 0)
    <3>1. SignBytes' = 0 /\ v' < Pow10[SIZE - 1]
      BY <1>1, <1>2, <1>5, <2>2 DEF SignBytes
    <3>2. SIZE - 1 - SignBytes' - Len(current') = SIZE - 1 /\ Len(current') <= SIZE - 1 - SignBytes'
      BY <1>2, <1>3, <3>1
    <3> QED
      BY <3>1, <3>2
  <2> QED
    BY <2>1, <2>2
<1>8. DigitBytes(current', Len(current'))
  BY <1>3 DEF DigitBytes
<1>9. \E f : Horner(f, current', Len(current')) /\ f[0] = v' /\ f[Len(current')] = Magnitude'
  <2> DEFINE f == [k \in 0..0 |-> v']
  <2>1. f \in [0..0 -> Nat] /\ f[0] = v'
    BY <1>6
  <2> HIDE DEF f
  <2>2. Horner(f, current', 0)
    BY <2>1 DEF Horner
  <2> QED
    BY <1>3, <1>6, <2>1, <2>2
<1>10. DigitsInv'
  BY <1>3, <1>7, <1>8, <1>9 DEF DigitsInv
<1>11. NumberText'
  BY <1>1, <1>2, <1>3 DEF NumberText, SIZE
<1> QED
  BY <1>1, <1>10, <1>11 DEF NumInv, SignInv, ReverseInv

\* One more digit stands in front of those there are.
LEMMA DigitMore ==
  ASSUME NEW B \in Seq(Char), NEW x \in Nat, NEW f,
         Horner(f, B, Len(B)), f[0] = x, DigitBytes(B, Len(B))
  PROVE LET C == Append(B, 48 + (x % 10))
        IN /\ DigitBytes(C, Len(B) + 1)
           /\ \E g : Horner(g, C, Len(B) + 1) /\ g[0] = x \div 10 /\ g[Len(B) + 1] = f[Len(B)]
<1> DEFINE d == 48 + (x % 10)
           C == Append(B, d)
           L == Len(B)
           g == [k \in 0..(L + 1) |-> IF k = 0 THEN x \div 10 ELSE f[k - 1]]
<1>1. L \in Nat /\ d \in 48..57 /\ d \in Char /\ x \div 10 \in Nat /\ x = 10 * (x \div 10) + (d - 48)
  BY LenProperties DEF Char
<1>2. C[L + 1] = d /\ \A i \in 1..L : C[i] = B[i]
  <2> HIDE DEF d
  <2> QED
    BY <1>1, AppendProperties
<1> HIDE DEF d, C
<1>3. f \in [0..L -> Nat] /\ \A k \in 1..L : f[k] = 10 * f[k - 1] + (B[L + 1 - k] - 48)
  BY DEF Horner
<1> HIDE DEF L
<1>4. DigitBytes(C, L + 1)
  <2> SUFFICES ASSUME NEW j \in 1..(L + 1)
               PROVE C[j] \in 48..57
    BY DEF DigitBytes
  <2>1. j = L + 1 \/ j \in 1..L
    BY <1>1
  <2> QED
    BY <1>1, <1>2, <2>1 DEF DigitBytes, L
<1>5. g \in [0..(L + 1) -> Nat] /\ g[0] = x \div 10 /\ \A k \in 1..(L + 1) : g[k] = f[k - 1]
  <2>1. \A k \in 0..(L + 1) : k = 0 \/ f[k - 1] \in Nat
    BY <1>1, <1>3
  <2> QED
    BY <1>1, <2>1
<1> HIDE DEF g
<1>6. \A k \in 1..(L + 1) : g[k] = 10 * g[k - 1] + (C[L + 1 + 1 - k] - 48)
  <2> SUFFICES ASSUME NEW k \in 1..(L + 1)
               PROVE g[k] = 10 * g[k - 1] + (C[L + 1 + 1 - k] - 48)
    OBVIOUS
  <2>1. CASE k = 1
    <3>1. L + 1 + 1 - k = L + 1 /\ k - 1 = 0
      BY <1>1, <2>1
    <3> QED
      BY <1>1, <1>2, <1>5, <2>1, <3>1 DEF L
  <2>2. CASE k # 1
    <3>1. PICK j \in 1..L : k = j + 1
      BY <1>1, <2>2
    <3>2. /\ g[k] = f[j] /\ g[k - 1] = f[j - 1]
          /\ L + 1 + 1 - k = L + 1 - j /\ L + 1 - j \in 1..L
      <4>1. k - 1 = j /\ k - 1 \in 1..(L + 1) /\ L + 1 + 1 - k = L + 1 - j /\ L + 1 - j \in 1..L
        BY <1>1, <3>1
      <4> QED
        BY <1>5, <4>1
    <3> QED
      BY <1>2, <1>3, <3>2, SMTT(40)
  <2> QED
    BY <2>1, <2>2
<1>7. Horner(g, C, L + 1)
  BY <1>5, <1>6 DEF Horner
<1>8. g[L + 1] = f[L]
  <2>1. L + 1 \in 1..(L + 1) /\ (L + 1) - 1 = L
    BY <1>1
  <2>2. g[L + 1] = f[(L + 1) - 1]
    BY <1>5, <2>1, Zenon
  <2> QED
    BY <2>1, <2>2
<1> QED
  BY <1>4, <1>5, <1>7, <1>8 DEF C, d, L

\* Dividing by ten makes room for a digit.
LEMMA DivideTen ==
  ASSUME NEW x \in Nat, NEW y \in Nat, x < 10 * y
  PROVE x \div 10 < y
OBVIOUS

LEMMA DigitStep == ASSUME SInv, NumInv, digit PROVE NumInv'
<1> DEFINE L == Len(current)
           s == SignBytes
<1>1. /\ current \in Seq(Char) /\ L \in Nat /\ v \in Nat /\ value \in Int
      /\ SIZE \in Nat /\ SIZE > 2 /\ s \in {0, 1}
  BY LenProperties, TextAssumption DEF SInv, TextTypeOK, SIZE, SignBytes
<1>2. /\ L <= SIZE - 1 - s /\ v < Pow10[SIZE - 1 - s - L] /\ (L > 0 => v > 0)
      /\ DigitBytes(current, L)
  BY DEF NumInv, DigitsInv, digit
<1>3. PICK f : Horner(f, current, L) /\ f[0] = v /\ f[L] = Magnitude
  BY DEF NumInv, DigitsInv, digit
<1>4. /\ current' = Append(current, 48 + (v % 10)) /\ v' = v \div 10
      /\ job' = IF v' = 0 THEN "sign" ELSE "digits"
      /\ s' = s /\ Magnitude' = Magnitude
  BY DEF digit, SignBytes, Magnitude
<1>5. 48 + (v % 10) \in Char /\ v \div 10 \in Nat
  BY <1>1 DEF Char
<1>6. Len(current') = L + 1 /\ current'[L + 1] = 48 + (v % 10)
  <2> DEFINE d == 48 + (v % 10)
  <2>1. d \in Char /\ current' = Append(current, d)
    BY <1>4, <1>5
  <2> HIDE DEF d
  <2>2. Len(current') = L + 1 /\ current'[L + 1] = d
    BY <1>1, <2>1, AppendProperties
  <2> QED
    BY <2>2 DEF d
<1>7. /\ DigitBytes(current', L + 1)
      /\ \E g : Horner(g, current', L + 1) /\ g[0] = v' /\ g[L + 1] = Magnitude'
  BY <1>1, <1>2, <1>3, <1>4, DigitMore, SMTT(40)
<1> HIDE DEF L, s
<1> DEFINE K == SIZE - 1 - s - L
<1>8. K \in 0..SIZE
  BY <1>1, <1>2
<1>9. K # 0
  <2> SUFFICES ASSUME K = 0
               PROVE FALSE
    OBVIOUS
  <2>1. v < 1
    BY <1>2, Pow10Values
  <2> QED
    BY <1>1, <1>2, <2>1
<1>10. /\ L + 1 <= SIZE - 1 - s
       /\ v' < Pow10[SIZE - 1 - s - (L + 1)]
  <2>1. K \in 1..SIZE /\ K - 1 \in 0..SIZE /\ K - 1 = SIZE - 1 - s - (L + 1)
    BY <1>1, <1>8, <1>9
  <2>2. Pow10[K] = 10 * Pow10[K - 1] /\ Pow10[K - 1] \in Nat
    BY <2>1, Pow10Values
  <2>3. v \div 10 < Pow10[K - 1]
    <3> HIDE DEF K
    <3>1. v < Pow10[K]
      BY <1>2 DEF K
    <3> QED
      BY <1>1, <2>2, <3>1, DivideTen
  <2> QED
    BY <1>1, <1>4, <1>8, <2>1, <2>3
<1>11. DigitsInv'
  <2> SUFFICES ASSUME job' = "digits"
               PROVE DigitsInv'
    BY DEF DigitsInv
  <2>1. v' > 0
    BY <1>4, <1>5
  <2> QED
    BY <1>4, <1>6, <1>7, <1>10, <2>1 DEF DigitsInv, s
<1>12. SignInv'
  <2> SUFFICES ASSUME job' = "sign"
               PROVE SignInv'
    BY DEF SignInv
  <2>1. v' = 0
    BY <1>4
  <2>2. v < 10
    BY <1>1, <1>4, <2>1
  <2>3. current'[L + 1] = 48 + v
    BY <1>1, <1>6, <2>2
  <2>4. current'[L + 1] = 48 => L + 1 = 1
    BY <1>1, <1>2, <2>3
  <2>5. L + 1 >= 1
    BY <1>1
  <2>6. Backwards(current', L + 1, Magnitude')
    BY <1>7, <2>1, <2>4, <2>5 DEF Backwards
  <2> QED
    BY <1>4, <1>6, <1>10, <2>6 DEF SignInv, s
<1>13. NumberText'
  <2>1. L + 1 < SIZE
    BY <1>1, <1>10
  <2> QED
    BY <1>4, <1>6, <2>1 DEF NumberText, SIZE
<1> QED
  BY <1>4, <1>11, <1>12, <1>13 DEF NumInv, ReverseInv

\* What the first m bytes stand for is about these only.
LEMMA BackwardsPrefix ==
  ASSUME NEW B, NEW C, NEW m \in Nat, NEW n, Backwards(B, m, n),
         \A i \in 1..m : C[i] = B[i]
  PROVE Backwards(C, m, n)
<1>1. m >= 1 /\ m \in 1..m
  BY DEF Backwards
<1>2. PICK f : Horner(f, B, m) /\ f[0] = 0 /\ f[m] = n
  BY DEF Backwards
<1>3. \A k \in 1..m : m + 1 - k \in 1..m
  OBVIOUS
<1>4. Horner(f, C, m)
  BY <1>2, <1>3 DEF Horner
<1>5. DigitBytes(C, m)
  BY DEF Backwards, DigitBytes
<1> QED
  BY <1>1, <1>2, <1>4, <1>5 DEF Backwards

LEMMA SignStep == ASSUME SInv, NumInv, sign PROVE NumInv'
<1> DEFINE L == Len(current)
           s == SignBytes
<1>1. /\ current \in Seq(Char) /\ L \in Nat /\ value \in Int /\ start = 1
      /\ SIZE \in Nat /\ SIZE > 2 /\ s \in {0, 1}
  BY LenProperties, TextAssumption DEF SInv, TextTypeOK, SafeInv, sign, SIZE, SignBytes
<1>2. L <= SIZE - 1 - s /\ Backwards(current, L, Magnitude)
  BY DEF NumInv, SignInv, sign
<1>3. /\ current' = IF value < 0 THEN Append(current, 45) ELSE current
      /\ p' = Len(current') /\ job' = "reverse"
      /\ s' = s /\ Magnitude' = Magnitude /\ value' = value /\ start' = start
  BY DEF sign, SignBytes, Magnitude, numVars
<1>4. /\ current' \in Seq(Char) /\ Len(current') = L + s
      /\ \A i \in 1..L : current'[i] = current[i]
      /\ value < 0 => current'[L + s] = 45
  <2>1. CASE value < 0
    <3>1. current' = Append(current, 45) /\ s = 1 /\ 45 \in Char
      BY <1>3, <2>1 DEF SignBytes, Char
    <3>2. /\ Append(current, 45) \in Seq(Char) /\ Len(Append(current, 45)) = L + 1
          /\ Append(current, 45)[L + 1] = 45
          /\ \A i \in 1..L : Append(current, 45)[i] = current[i]
      BY <1>1, <3>1, AppendProperties
    <3> QED
      BY <3>1, <3>2
  <2>2. CASE ~(value < 0)
    <3>1. current' = current /\ s = 0
      BY <1>3, <2>2 DEF SignBytes
    <3> QED
      BY <1>1, <2>2, <3>1
  <2> QED
    BY <2>1, <2>2
<1> HIDE DEF L, s
<1>5. Backwards(current', L, Magnitude)
  BY <1>1, <1>2, <1>4, BackwardsPrefix
<1>6. (L + s) - s = L /\ L + s < SIZE
  BY <1>1, <1>2
<1>7. Filled(current)'
  BY <1>1, <1>3, <1>4, <1>5, <1>6 DEF Filled, s
<1>8. PartReversed(current, current, start, p)'
  BY <1>1, <1>3, <1>4 DEF PartReversed
<1>9. start' <= p' + 1 /\ start' + p' = Len(current') + 1
  BY <1>1, <1>3, <1>4
<1>10. \E B : Filled(B)' /\ PartReversed(current', B, start', p')
  <2>1. PICK B : B = current'
    OBVIOUS
  <2> QED
    BY <2>1, <1>7, <1>8 DEF Filled
<1>11. ReverseInv'
  BY <1>4, <1>6, <1>9, <1>10 DEF ReverseInv
<1>12. NumberText'
  BY <1>3, <1>4, <1>6 DEF NumberText, SIZE
<1> QED
  BY <1>3, <1>11, <1>12 DEF NumInv, DigitsInv, SignInv

\* A swap of the bytes at the two places.
Swapped(c, first, last) == [c EXCEPT ![first] = c[last], ![last] = c[first]]

LEMMA SwapReverses ==
  ASSUME NEW B \in Seq(Char), NEW c \in Seq(Char), Len(c) = Len(B),
         NEW first \in Nat, NEW last \in Nat,
         1 <= first, first < last, first + last = Len(B) + 1,
         PartReversed(c, B, first, last),
         NEW d, d = Swapped(c, first, last)
  PROVE PartReversed(d, B, first + 1, last - 1) /\ Len(d) = Len(B)
<1> DEFINE L == Len(B)
           half == [c EXCEPT ![first] = c[last]]
<1>0. d = [half EXCEPT ![last] = c[first]]
  BY DEF Swapped
<1>1. L \in Nat /\ first \in 1..L /\ last \in 1..L
  BY LenProperties
<1>2. c[first] \in Char /\ c[last] \in Char
  BY <1>1, ElementOfSeq
<1>3. half \in Seq(Char) /\ Len(half) = L /\ \A k \in 1..L : half[k] = IF k = first THEN c[last] ELSE c[k]
  BY <1>1, <1>2, ExceptSeq
<1> HIDE DEF half
<1>4. Len(d) = L /\ \A k \in 1..L : d[k] = IF k = last THEN c[first] ELSE half[k]
  BY <1>0, <1>1, <1>2, <1>3, ExceptSeq
<1>6. /\ c[first] = B[first] /\ c[last] = B[last]
      /\ L + 1 - first = last /\ L + 1 - last = first
  BY <1>1 DEF PartReversed
<1>7. \A k \in 1..L : d[k] = IF k < first + 1 \/ k > last - 1 THEN B[L + 1 - k] ELSE B[k]
  <2> SUFFICES ASSUME NEW k \in 1..L
               PROVE d[k] = IF k < first + 1 \/ k > last - 1 THEN B[L + 1 - k] ELSE B[k]
    OBVIOUS
  <2>1. CASE k = first
    <3>1. d[k] = B[last] /\ k < first + 1
      BY <1>1, <1>3, <1>4, <1>6, <2>1
    <3> QED
      BY <1>6, <2>1, <3>1
  <2>2. CASE k = last
    <3>1. d[k] = B[first] /\ k > last - 1
      BY <1>1, <1>4, <1>6, <2>2
    <3> QED
      BY <1>6, <2>2, <3>1
  <2>3. CASE k # first /\ k # last
    <3>1. d[k] = c[k]
      BY <1>3, <1>4, <2>3
    <3>2. c[k] = IF k < first \/ k > last THEN B[L + 1 - k] ELSE B[k]
      BY DEF PartReversed
    <3>3. (k < first \/ k > last) <=> (k < first + 1 \/ k > last - 1)
      BY <2>3
    <3> QED
      BY <3>1, <3>2, <3>3
  <2> QED
    BY <2>1, <2>2, <2>3
<1> QED
  BY <1>4, <1>7 DEF PartReversed

\* Digits that were written backwards are the digits of the number.
LEMMA DecimalOf ==
  ASSUME NEW B, NEW m \in Nat, NEW n, Backwards(B, m, n),
         NEW t \in Seq(Char), Len(t) = m, \A k \in 1..m : t[k] = B[m + 1 - k]
  PROVE IsDecimal(t, n)
<1>1. m >= 1 /\ DigitBytes(B, m) /\ (B[m] = 48 => m = 1)
  BY DEF Backwards
<1>2. PICK f : Horner(f, B, m) /\ f[0] = 0 /\ f[m] = n
  BY DEF Backwards
<1>3. t # <<>> /\ DOMAIN t = 1..m
  BY <1>1, EmptySeq, LenProperties
<1>4. \A k \in DOMAIN t : t[k] \in 48..57
  <2>1. \A k \in 1..m : m + 1 - k \in 1..m
    OBVIOUS
  <2> QED
    BY <1>1, <1>3, <2>1 DEF DigitBytes
<1>5. t[1] = B[m]
  <2>1. 1 \in 1..m /\ m + 1 - 1 = m
    BY <1>1
  <2> QED
    BY <2>1
<1>6. ValueOf(t) = n
  <2>1. f \in [0..Len(t) -> Nat] /\ \A k \in 1..Len(t) : f[k] = 10 * f[k - 1] + (t[k] - 48)
    BY <1>2, ZenonT(60) DEF Horner
  <2> QED
    BY <1>2, <2>1, ValueOfHorner
<1> QED
  BY <1>1, <1>3, <1>4, <1>5, <1>6 DEF IsDecimal

LEMMA ReverseStep == ASSUME SInv, NumInv, reverse PROVE NumInv'
<1> DEFINE L == Len(current)
           s == SignBytes
<1>1. /\ current \in Seq(Char) /\ L \in Nat /\ value \in Int
      /\ start \in Nat /\ p \in Nat /\ 1 <= start /\ p <= L
      /\ SIZE \in Nat /\ s \in {0, 1}
  BY LenProperties, TextAssumption DEF SInv, TextTypeOK, SafeInv, reverse, SIZE, SignBytes
<1>2. L < SIZE /\ start <= p + 1 /\ start + p = L + 1
  BY DEF NumInv, ReverseInv, reverse
<1>3. PICK B : Filled(B) /\ PartReversed(current, B, start, p)
  BY DEF NumInv, ReverseInv, reverse
<1>4. /\ B \in Seq(Char) /\ Len(B) = L /\ L - s \in Nat /\ Backwards(B, L - s, Magnitude)
      /\ value < 0 => B[L] = 45
  BY <1>3 DEF Filled
<1>5. s' = s /\ Magnitude' = Magnitude /\ value' = value
  BY DEF reverse, numVars, SignBytes, Magnitude
<1> HIDE DEF L, s
<1>6. CASE start < p
  <2>1. /\ current' = [current EXCEPT ![start] = current[p], ![p] = current[start]]
        /\ start' = start + 1 /\ p' = p - 1 /\ job' = "reverse"
    BY <1>6 DEF reverse
  <2>2. PartReversed(current', B, start', p') /\ Len(current') = L
    <3>1. Len(current) = Len(B) /\ start + p = Len(B) + 1
      BY <1>2, <1>4 DEF L
    <3>2. current' = Swapped(current, start, p)
      BY <2>1 DEF Swapped
    <3>3. PartReversed(current', B, start + 1, p - 1) /\ Len(current') = Len(B)
      BY <1>1, <1>3, <1>4, <1>6, <3>1, <3>2, SwapReverses, SMTT(40)
    <3> QED
      BY <1>4, <2>1, <3>3
  <2>3. Filled(B)'
    BY <1>4, <1>5, <2>2 DEF Filled, s
  <2>4. start' <= p' + 1 /\ start' + p' = L + 1
    BY <1>1, <1>2, <1>6, <2>1, SMTT(40)
  <2>5. \E C : Filled(C)' /\ PartReversed(current', C, start', p')
    BY <2>2, <2>3 DEF Filled
  <2>6. ReverseInv'
    BY <1>2, <2>2, <2>4, <2>5 DEF ReverseInv
  <2>7. NumberText'
    BY <1>2, <2>1, <2>2 DEF NumberText, SIZE
  <2> QED
    BY <2>1, <2>6, <2>7 DEF NumInv, DigitsInv, SignInv
<1>7. CASE ~(start < p)
  <2>1. job' = "number" /\ current' = current
    BY <1>7 DEF reverse
  <2>2. \A k \in 1..L : current[k] = B[L + 1 - k]
    <3> SUFFICES ASSUME NEW k \in 1..L
                 PROVE current[k] = B[L + 1 - k]
      OBVIOUS
    <3>1. current[k] = IF k < start \/ k > p THEN B[L + 1 - k] ELSE B[k]
      BY <1>3, <1>4 DEF PartReversed
    <3>2. k < start \/ k > p \/ L + 1 - k = k
      BY <1>1, <1>2, <1>7
    <3> QED
      BY <3>1, <3>2
  <2>3. CASE value < 0
    <3>1. s = 1
      BY <2>3 DEF s, SignBytes
    <3>2. PICK m \in Nat : L = m + 1 /\ L - s = m
      BY <1>1, <1>4, <3>1
    <3>3. current[1] = 45
      <4>1. 1 \in 1..L /\ L + 1 - 1 = L
        BY <1>1, <3>2
      <4> QED
        BY <1>4, <2>2, <2>3, <4>1
    <3>4. current # <<>>
      BY <1>1, <3>2, EmptySeq DEF L
    <3>5. /\ Tail(current) \in Seq(Char) /\ Len(Tail(current)) = m
          /\ \A k \in 1..m : Tail(current)[k] = current[k + 1]
      BY <1>1, <3>2, <3>4, HeadTailProperties DEF L
    <3>6. \A k \in 1..m : Tail(current)[k] = B[m + 1 - k]
      <4>1. \A k \in 1..m : k + 1 \in 1..L /\ L + 1 - (k + 1) = m + 1 - k
        BY <3>2
      <4> QED
        BY <2>2, <3>5, <4>1
    <3>7. Backwards(B, m, -value)
      BY <1>4, <2>3, <3>2 DEF Magnitude
    <3>8. IsDecimal(Tail(current), -value)
      BY <3>5, <3>6, <3>7, DecimalOf
    <3> QED
      BY <1>2, <1>5, <2>1, <2>3, <3>3, <3>8 DEF NumberText, SIZE, L, NumInv, DigitsInv, SignInv, ReverseInv
  <2>4. CASE ~(value < 0)
    <3>1. L - s = L
      BY <1>1, <2>4 DEF s, SignBytes
    <3>2. Backwards(B, L, value)
      BY <1>4, <2>4, <3>1 DEF Magnitude
    <3>3. IsDecimal(current, value)
      BY <1>1, <2>2, <3>2, DecimalOf DEF L
    <3> QED
      BY <1>2, <1>5, <2>1, <2>4, <3>3 DEF NumberText, SIZE, L, NumInv, DigitsInv, SignInv, ReverseInv
  <2> QED
    BY <2>3, <2>4
<1> QED
  BY <1>6, <1>7

LEMMA OthersNumber ==
  ASSUME SInv, NumInv,
         \/ sdssplitlen \/ split_next \/ split_last \/ split_fail
         \/ sdssplitargs \/ arg_blank \/ arg_begin \/ arg_return \/ arg_char
         \/ arg_done \/ arg_err \/ arg_oom \/ arg_null \/ write_again
  PROVE NumInv'
<1>1. job' \in {"split", "args", "tokens", "null", "crashed"}
  BY DEF sdssplitlen, split_next, split_last, split_fail, cleanup, Searching, sdssplitargs, arg_blank,
         arg_begin, arg_return, arg_char, arg_done, arg_err, arg_oom, arg_null, write_again
<1> QED
  BY <1>1 DEF NumInv, DigitsInv, SignInv, ReverseInv, NumberText

LEMMA NumberStutter == ASSUME NumInv, UNCHANGED textVars PROVE NumInv'
<1>1. UNCHANGED <<job, value, v, current, start, p>>
  BY DEF textVars, numVars
<1>2. DigitsInv'
  BY <1>1 DEF NumInv, DigitsInv, Magnitude, SignBytes
<1>3. SignInv'
  BY <1>1 DEF NumInv, SignInv, Magnitude, SignBytes
<1>4. ReverseInv'
  BY <1>1 DEF NumInv, ReverseInv, Filled, Magnitude, SignBytes
<1>5. NumberText'
  BY <1>1 DEF NumInv, NumberText
<1> QED
  BY <1>2, <1>3, <1>4, <1>5 DEF NumInv

\* sdsll2str writes every long long in decimal and sdsull2str every unsigned
\* long long, and the text and the NUL fit the buffer of SDS_LLSTR_SIZE bytes
\* (util/sds.c), for numbers of any width.  The least long long is among them
\* as two's complement has it: its negation gives itself again, and only the
\* conversion to unsigned makes its magnitude of it.
THEOREM NumbersWritten == TextSpec => []NumberText
<1>1. Idle => NumInv
  BY DEF Idle, NumInv, DigitsInv, SignInv, ReverseInv, NumberText
<1>2. SInv /\ NumInv /\ [TextNext]_textVars => NumInv'
  BY NumberStart, DigitStep, SignStep, ReverseStep, OthersNumber, NumberStutter DEF TextNext
<1>3. NumInv => NumberText
  BY DEF NumInv
<1> QED
  BY <1>1, <1>2, <1>3, SafeInvariant, PTL DEF TextSpec
=============================================================================
