----------------------------- MODULE SdsProofs -----------------------------
(***************************************************************************)
(* Whatever the widths of the header fields, the preallocation and the     *)
(* arguments are, no call of util/sds.c leaves a header that does not      *)
(* describe its block, a string without its NUL, or writes outside of the  *)
(* block; and what it does to the bytes is what ByteString says.           *)
(***************************************************************************)
EXTENDS Sds, FiniteSetTheorems, SequenceTheorems, WellFoundedInduction, TLAPS

(***************************************************************************)
(* The inductive invariant.  HeaderSound and the two first parts of        *)
(* InBlock as predicates on strings; the length stays within the bound;    *)
(* and what a call in progress still has to append fits.                   *)
(***************************************************************************)
Described(x) ==
  /\ x = [type |-> x.type, len |-> x.len, alloc |-> x.alloc, block |-> x.block, buf |-> x.buf]
  /\ x.type \in Types
  /\ x.len \in Nat /\ x.alloc \in Nat /\ x.block \in Nat
  /\ x.len <= sdsalloc(x)
  /\ sdsalloc(x) < Limit[x.type]
  /\ IF x.type = SDS_TYPE_5 THEN x.len + 1 <= x.block ELSE x.alloc + 1 = x.block
  /\ DOMAIN x.buf = 0..(x.block - 1)

Terminated(x) == x.buf[x.len] = 0

PrintfFits ==
  ptr = "printf" => /\ fmt[1] \in Seq(Byte)
                    /\ s.len + Len(fmt[1]) <= MaxLen
                    /\ i \in Nat \ {0, 1}

CatfmtFits ==
  ptr = "catfmt" => /\ fmt \in Seq(Seq(Byte))
                    /\ i = s.len
                    /\ \/ fmt = <<>>
                       \/ Len(fmt) = 1 /\ s.len + Len(fmt[1]) <= MaxLen
                       \/ Len(fmt) = 2 /\ s.len + Len(fmt[1]) + Len(fmt[2]) <= MaxLen

RoomKept == call.op = "room" => s.len + call.n + 1 <= s.block

IInv ==
  ptr \in Present => /\ Described(s)
                     /\ ptr # "catfmt" => Terminated(s)
                     /\ s.len <= MaxLen
                     /\ PrintfFits
                     /\ CatfmtFits
                     /\ RoomKept

(***************************************************************************)
(* Numbers.                                                                *)
(***************************************************************************)

\* A value that fits a field is what the field then holds.
LEMMA ModFits == ASSUME NEW m \in Nat \ {0}, NEW n \in Nat, n < m
                 PROVE n % m = n
  OBVIOUS

\* Smallest finds the least member: that of the least interval 1..k, as finite
\* sets are well ordered by inclusion.
LEMMA SmallestIs == ASSUME NEW S \in SUBSET Nat, S # {}
                    PROVE Smallest(S) \in S /\ \A j \in S : Smallest(S) <= j
<1> DEFINE T == {1..k : k \in S}
<1>1. T # {} /\ T \subseteq FiniteSubsetsOf(Nat)
  <2>1. \A k \in S : 1..k \in SUBSET Nat /\ IsFiniteSet(1..k)
    BY FS_Interval
  <2> QED
    BY <2>1 DEF FiniteSubsetsOf
<1>2. \E x \in T : \A y \in T : ~(<<y, x>> \in StrictSubsetOrdering(Nat))
  <2> HIDE DEF T
  <2> QED
    BY <1>1, WFMin, FS_StrictSubsetOrderingWellFounded
<1>3. PICK k \in S : \A j \in S : ~(<<1..j, 1..k>> \in StrictSubsetOrdering(Nat))
  BY <1>2
<1>4. \A j \in S : k <= j
  <2> SUFFICES ASSUME NEW j \in S, j < k
               PROVE FALSE
    OBVIOUS
  <2>1. 1..j \subseteq 1..k /\ k \in 1..k /\ k \notin 1..j
    OBVIOUS
  <2>2. 1..j \in SUBSET Nat /\ 1..k \in SUBSET Nat
    OBVIOUS
  <2> QED
    BY <1>3, <2>1, <2>2 DEF StrictSubsetOrdering
<1> QED
  BY <1>4 DEF Smallest

\* sdsReqType chooses a type whose fields hold the number.
LEMMA ReqTypeFits == ASSUME NEW n \in Nat, n < Limit[SDS_TYPE_64]
                     PROVE sdsReqType(n) \in Types /\ n < Limit[sdsReqType(n)]
  BY LimitAssumption DEF sdsReqType, Types, SDS_TYPE_64

(***************************************************************************)
(* Header fields and blocks.                                               *)
(***************************************************************************)

\* A length that the type can hold is stored as it is.
LEMMA SetLen == ASSUME NEW x, Described(x), NEW n \in Nat, n < Limit[x.type]
                PROVE /\ sdssetlen(x, n) = [type |-> x.type, len |-> n, alloc |-> x.alloc,
                                            block |-> x.block, buf |-> x.buf]
<1>1. Limit[x.type] \in Nat \ {0}
  BY LimitAssumption DEF Described
<1>2. n % Limit[x.type] = n
  BY <1>1, ModFits
<1> QED
  BY <1>2 DEF Described, sdssetlen

\* A length within the allocation leaves the header true.
LEMMA SetLenDescribed == ASSUME NEW x, Described(x), NEW n \in Nat, n <= sdsalloc(x)
                         PROVE /\ Described(sdssetlen(x, n))
                               /\ sdssetlen(x, n).len = n
                               /\ sdssetlen(x, n).buf = x.buf
                               /\ sdssetlen(x, n).block = x.block
                               /\ sdssetlen(x, n).type = x.type
<1>1. Limit[x.type] \in Nat \ {0} /\ sdsalloc(x) \in Nat
  BY LimitAssumption DEF Described, sdsalloc
<1>2. n < Limit[x.type]
  BY <1>1 DEF Described
<1>3. sdssetlen(x, n) = [type |-> x.type, len |-> n, alloc |-> x.alloc,
                         block |-> x.block, buf |-> x.buf]
  BY <1>2, SetLen
<1> QED
  BY <1>1, <1>2, <1>3 DEF Described, sdsalloc

\* A string with other bytes.
LEMMA ExceptBuf == ASSUME NEW x, Described(x), NEW b
                   PROVE [x EXCEPT !.buf = b] = [type |-> x.type, len |-> x.len,
                                                 alloc |-> x.alloc, block |-> x.block, buf |-> b]
  BY DEF Described

\* Writing within the block.
LEMMA PutDescribed ==
  ASSUME NEW x, Described(x), NEW at \in Nat, NEW t, Len(t) \in Nat, at + Len(t) <= x.block
  PROVE /\ Described(Put(x, at, t))
        /\ Put(x, at, t).len = x.len
        /\ Put(x, at, t).type = x.type
        /\ Put(x, at, t).block = x.block
        /\ sdsalloc(Put(x, at, t)) = sdsalloc(x)
        /\ \A k \in 0..(x.block - 1) :
             Put(x, at, t).buf[k] = IF k \in at..(at + Len(t) - 1) THEN t[k - at + 1]
                                    ELSE x.buf[k]
<1> DEFINE b == [k \in DOMAIN x.buf \cup at..(at + Len(t) - 1) |->
                   IF k \in at..(at + Len(t) - 1) THEN t[k - at + 1] ELSE x.buf[k]]
<1>1. Put(x, at, t) = [type |-> x.type, len |-> x.len, alloc |-> x.alloc, block |-> x.block,
                       buf |-> b]
  <2>1. Put(x, at, t) = [x EXCEPT !.buf = b]
    BY Zenon DEF Put
  <2> HIDE DEF b
  <2> QED
    BY <2>1, ExceptBuf
<1>2. DOMAIN x.buf \cup at..(at + Len(t) - 1) = 0..(x.block - 1)
  BY DEF Described
<1>3. DOMAIN b = 0..(x.block - 1)
  BY <1>2
<1>4. \A k \in 0..(x.block - 1) : b[k] = IF k \in at..(at + Len(t) - 1) THEN t[k - at + 1]
                                         ELSE x.buf[k]
  BY <1>2
<1> HIDE DEF b
<1>5. Put(x, at, t).len = x.len /\ Put(x, at, t).type = x.type /\ Put(x, at, t).buf = b
      /\ Put(x, at, t).block = x.block /\ Put(x, at, t).alloc = x.alloc
  BY <1>1
<1> QED
  BY <1>1, <1>3, <1>4, <1>5 DEF Described, sdsalloc

LEMMA PutNulDescribed ==
  ASSUME NEW x, Described(x), NEW at \in Nat, at < x.block
  PROVE /\ Described(PutNul(x, at))
        /\ PutNul(x, at).len = x.len
        /\ PutNul(x, at).type = x.type
        /\ PutNul(x, at).block = x.block
        /\ sdsalloc(PutNul(x, at)) = sdsalloc(x)
        /\ PutNul(x, at).buf[at] = 0
<1>1. Len(<<0>>) = 1 /\ <<0>>[1] = 0
  OBVIOUS
<1>2. x.block \in Nat
  BY DEF Described
<1>3. at + Len(<<0>>) <= x.block /\ Len(<<0>>) \in Nat /\ at \in 0..(x.block - 1)
      /\ at \in at..(at + Len(<<0>>) - 1) /\ at - at + 1 = 1
  BY <1>1, <1>2
<1> HIDE <1>1
<1>4. Described(Put(x, at, <<0>>)) /\ Put(x, at, <<0>>).len = x.len
      /\ Put(x, at, <<0>>).type = x.type /\ Put(x, at, <<0>>).block = x.block
      /\ sdsalloc(Put(x, at, <<0>>)) = sdsalloc(x)
      /\ Put(x, at, <<0>>).buf[at] = <<0>>[at - at + 1]
  BY <1>3, PutDescribed
<1> QED
  BY <1>1, <1>3, <1>4 DEF PutNul

\* A new length within the allocation, and the NUL after it, in either order.
LEMMA LenThenNul ==
  ASSUME NEW x, Described(x), NEW n \in Nat, n <= sdsalloc(x)
  PROVE LET y == PutNul(sdssetlen(x, n), n)
        IN Described(y) /\ Terminated(y) /\ y.len = n /\ y.block = x.block
<1>1. /\ Described(sdssetlen(x, n)) /\ sdssetlen(x, n).len = n
      /\ sdssetlen(x, n).block = x.block
  BY SetLenDescribed
<1>2. n < x.block
  BY DEF Described, sdsalloc
<1> QED
  BY <1>1, <1>2, PutNulDescribed DEF Terminated

LEMMA NulThenLen ==
  ASSUME NEW x, Described(x), NEW n \in Nat, n <= sdsalloc(x)
  PROVE LET y == sdssetlen(PutNul(x, n), n)
        IN Described(y) /\ Terminated(y) /\ y.len = n /\ y.block = x.block
<1>1. n < x.block
  BY DEF Described, sdsalloc
<1>2. /\ Described(PutNul(x, n)) /\ sdsalloc(PutNul(x, n)) = sdsalloc(x)
      /\ PutNul(x, n).buf[n] = 0 /\ PutNul(x, n).block = x.block
  BY <1>1, PutNulDescribed
<1> QED
  BY <1>2, SetLenDescribed DEF Terminated

\* Another block for n bytes and the NUL, with a type that can hold n.
LEMMA MovedDescribed ==
  ASSUME NEW x, Described(x), NEW type \in Types, NEW n \in Nat, x.len <= n,
         n < Limit[type], type = SDS_TYPE_5 => n = x.len
  PROVE LET y == sdssetalloc(Moved(x, type, n + 1), n)
        IN /\ Described(y) /\ y.len = x.len /\ sdsalloc(y) = n
           /\ Terminated(x) => Terminated(y)
<1> DEFINE b == [k \in 0..(n + 1 - 1) |-> IF k <= x.len THEN x.buf[k] ELSE Junk]
<1>1. Limit[type] \in Nat \ {0} /\ x.len \in Nat
  BY LimitAssumption DEF Described
<1>2. x.len % Limit[type] = x.len /\ n % Limit[type] = n
  BY <1>1, ModFits
<1>3. Moved(x, type, n + 1) = [type |-> type, len |-> x.len, alloc |-> 0, block |-> n + 1,
                               buf |-> b]
  BY <1>2 DEF Moved
<1>4. DOMAIN b = 0..(n + 1 - 1) /\ b[x.len] = x.buf[x.len]
  BY <1>1
<1> HIDE DEF b
<1>5. sdssetalloc(Moved(x, type, n + 1), n) =
        [type |-> type, len |-> x.len, alloc |-> IF type = SDS_TYPE_5 THEN 0 ELSE n,
         block |-> n + 1, buf |-> b]
  BY <1>2, <1>3 DEF sdssetalloc
<1> QED
  BY <1>1, <1>4, <1>5, SMTT(30) DEF Described, Terminated, sdsalloc

LEMMA ForgetDescribed ==
  ASSUME NEW x, Described(x)
  PROVE /\ Described(Forget(x)) /\ Forget(x).len = x.len /\ Forget(x).block = x.block
        /\ Terminated(x) => Terminated(Forget(x))
<1> DEFINE b == [k \in DOMAIN x.buf |-> IF k <= x.len THEN x.buf[k] ELSE Junk]
<1>1. Forget(x) = [x EXCEPT !.buf = b]
  BY Zenon DEF Forget
<1>2. x.len \in DOMAIN x.buf
  BY DEF Described, sdsalloc
<1>3. DOMAIN b = DOMAIN x.buf /\ b[x.len] = x.buf[x.len]
  BY <1>2 DEF Described
<1> HIDE DEF b
<1>4. Forget(x) = [type |-> x.type, len |-> x.len, alloc |-> x.alloc, block |-> x.block,
                   buf |-> b]
  BY <1>1, ExceptBuf
<1> QED
  BY <1>3, <1>4 DEF Described, Terminated, sdsalloc

(***************************************************************************)
(* The functions.                                                          *)
(***************************************************************************)

\* A string that is Described, ends with its NUL and has length n.
Good(x, n) == Described(x) /\ Terminated(x) /\ x.len = n

LEMMA ForgetGood == ASSUME NEW x, NEW n, Good(x, n)
                    PROVE Good(Forget(x), n)
  BY ForgetDescribed DEF Good

LEMMA NewGood == ASSUME NEW t, Len(t) \in Nat, Len(t) <= MaxLen
                 PROVE Good(sdsnewlen(t), Len(t))
<1> DEFINE n == Len(t)
           type == IF n = 0 THEN SDS_TYPE_8 ELSE sdsReqType(n)
           b == [k \in 0..n |-> IF k = n THEN 0 ELSE t[k + 1]]
<1>1. n < Limit[SDS_TYPE_64] /\ n \in Nat
  BY SizeAssumption, PreallocAssumption, LimitAssumption DEF Types, SDS_TYPE_64
<1>2. type \in Types /\ n < Limit[type] /\ Limit[type] \in Nat \ {0}
  BY <1>1, ReqTypeFits, LimitAssumption DEF Types, SDS_TYPE_8, SDS_TYPE_5
<1>3. n % Limit[type] = n
  BY <1>1, <1>2, ModFits
<1>4. DOMAIN b = 0..n /\ b[n] = 0
  BY <1>1
<1>5. sdsnewlen(t) = [type |-> type, len |-> n % Limit[type],
                      alloc |-> IF type = SDS_TYPE_5 THEN 0 ELSE n % Limit[type],
                      block |-> n + 1, buf |-> b]
  BY Zenon DEF sdsnewlen
<1> HIDE DEF b, type, n
<1>6. Good(sdsnewlen(t), n)
  BY <1>1, <1>2, <1>3, <1>4, <1>5, SMTT(30) DEF Good, Described, Terminated, sdsalloc
<1> QED
  BY <1>6 DEF n

\* sdsMakeRoomFor keeps the string and makes the room that was asked for.
LEMMA RoomDescribed ==
  ASSUME NEW x, Described(x), NEW addlen \in Nat, x.len + addlen <= MaxLen + 1
  PROVE LET y == sdsMakeRoomFor(x, addlen)
        IN /\ Described(y) /\ y.len = x.len
           /\ x.len + addlen <= sdsalloc(y)
           /\ addlen <= sdsavail(y)
           /\ Terminated(x) => Terminated(y)
<1> DEFINE wanted == x.len + addlen
           newlen == IF wanted < SDS_MAX_PREALLOC THEN wanted * 2 ELSE wanted + SDS_MAX_PREALLOC
           type == IF sdsReqType(newlen) = SDS_TYPE_5 THEN SDS_TYPE_8 ELSE sdsReqType(newlen)
<1>1. x.len \in Nat /\ x.alloc \in Nat /\ x.len <= sdsalloc(x)
  BY DEF Described
<1>2. CASE sdsavail(x) >= addlen
  <2>1. sdsMakeRoomFor(x, addlen) = x
    BY <1>2 DEF sdsMakeRoomFor
  <2> QED
    BY <1>1, <1>2, <2>1 DEF sdsavail, sdsalloc
<1>3. CASE ~(sdsavail(x) >= addlen)
  <2>1. /\ newlen \in Nat /\ wanted <= newlen /\ x.len <= newlen
        /\ newlen < Limit[SDS_TYPE_64]
    BY <1>1, SizeAssumption, PreallocAssumption, LimitAssumption DEF Types, SDS_TYPE_64
  <2>2. type \in Types /\ newlen < Limit[type] /\ type # SDS_TYPE_5
    BY <2>1, ReqTypeFits, LimitAssumption DEF Types, SDS_TYPE_5, SDS_TYPE_8
  <2>3. sdsMakeRoomFor(x, addlen) = sdssetalloc(Moved(x, type, newlen + 1), newlen)
    BY <1>3 DEF sdsMakeRoomFor
  <2> HIDE DEF type, newlen
  <2> DEFINE y == sdsMakeRoomFor(x, addlen)
  <2>4. /\ Described(y) /\ y.len = x.len /\ sdsalloc(y) = newlen
        /\ Terminated(x) => Terminated(y)
    BY <2>1, <2>2, <2>3, MovedDescribed
  <2>5. y.type = type
    BY <2>2, <2>3 DEF sdssetalloc, Moved
  <2> HIDE DEF y
  <2>6. sdsavail(y) = newlen - x.len
    BY <2>2, <2>4, <2>5 DEF sdsavail, sdsalloc
  <2> QED
    BY <1>1, <2>1, <2>4, <2>6 DEF y
<1> QED
  BY <1>2, <1>3

LEMMA RemoveFreeGood ==
  ASSUME NEW x, Good(x, x.len), x.len <= MaxLen
  PROVE Good(sdsRemoveFreeSpace(x), x.len)
<1>1. x.len \in Nat /\ x.len < Limit[SDS_TYPE_64]
  BY SizeAssumption, PreallocAssumption, LimitAssumption, SMTT(30)
  DEF Good, Described, Types, SDS_TYPE_64
<1>2. sdsReqType(x.len) \in Types /\ x.len < Limit[sdsReqType(x.len)]
  BY <1>1, ReqTypeFits
<1> QED
  BY <1>1, <1>2, MovedDescribed, SMTT(30) DEF Good, sdsRemoveFreeSpace

LEMMA CatGood ==
  ASSUME NEW x, Described(x), NEW t, Len(t) \in Nat, x.len + Len(t) <= MaxLen
  PROVE Good(sdscatlen(x, t), x.len + Len(t))
<1> DEFINE r == sdsMakeRoomFor(x, Len(t))
           y == Put(r, x.len, t)
           n == x.len + Len(t)
<1>1. x.len \in Nat /\ n \in Nat /\ n <= MaxLen + 1
  BY SizeAssumption DEF Described
<1>2. Described(r) /\ r.len = x.len /\ n <= sdsalloc(r)
  BY <1>1, RoomDescribed
<1>3. sdscatlen(x, t) = PutNul(sdssetlen(y, n), n)
  BY Zenon DEF sdscatlen
<1> HIDE DEF r
<1>4. n <= r.block
  BY <1>1, <1>2 DEF Described, sdsalloc
<1>5. Described(y) /\ sdsalloc(y) = sdsalloc(r)
  BY <1>1, <1>2, <1>4, PutDescribed
<1> HIDE DEF y
<1>6. LET z == PutNul(sdssetlen(y, n), n)
      IN Described(z) /\ Terminated(z) /\ z.len = n
  BY <1>1, <1>2, <1>5, LenThenNul
<1> QED
  BY <1>3, <1>6 DEF Good

LEMMA CopyGood ==
  ASSUME NEW x, Described(x), NEW t, Len(t) \in Nat, Len(t) <= MaxLen
  PROVE Good(sdscpylen(x, t), Len(t))
<1> DEFINE n == Len(t)
           r == IF sdsalloc(x) < n THEN sdsMakeRoomFor(x, n - x.len) ELSE x
           y == Put(r, 0, t)
<1>1. x.len \in Nat /\ x.alloc \in Nat /\ n \in Nat /\ x.len <= sdsalloc(x)
      /\ sdsalloc(x) \in Nat /\ MaxLen \in Nat
  BY SizeAssumption DEF Described, sdsalloc
<1>2. Described(r) /\ n <= sdsalloc(r)
  <2>1. CASE sdsalloc(x) < n
    <3>1. n - x.len \in Nat /\ x.len + (n - x.len) = n /\ n <= MaxLen + 1
      BY <1>1, <2>1
    <3> QED
      BY <2>1, <3>1, RoomDescribed
  <2>2. CASE ~(sdsalloc(x) < n)
    BY <1>1, <2>2
  <2> QED
    BY <2>1, <2>2
<1>3. sdscpylen(x, t) = sdssetlen(PutNul(y, n), n)
  BY Zenon DEF sdscpylen
<1> HIDE DEF r
<1>4. 0 + n <= r.block
  BY <1>1, <1>2 DEF Described, sdsalloc
<1>5. Described(y) /\ sdsalloc(y) = sdsalloc(r)
  BY <1>1, <1>2, <1>4, PutDescribed
<1> HIDE DEF y
<1>6. LET z == sdssetlen(PutNul(y, n), n)
      IN Described(z) /\ Terminated(z) /\ z.len = n
  BY <1>1, <1>2, <1>5, NulThenLen
<1> QED
  BY <1>3, <1>6 DEF Good

LEMMA GrowGood ==
  ASSUME NEW x, Good(x, x.len), NEW n \in Nat, n <= MaxLen
  PROVE Good(sdsgrowzero(x, n), IF n <= x.len THEN x.len ELSE n)
<1>1. CASE n <= x.len
  BY <1>1 DEF sdsgrowzero
<1>2. CASE ~(n <= x.len)
  <2> DEFINE r == sdsMakeRoomFor(x, n - x.len)
             zeros == [k \in 1..(n - x.len + 1) |-> 0]
             y == Put(r, x.len, zeros)
  <2>1. /\ Described(x) /\ x.len \in Nat /\ MaxLen \in Nat
        /\ n - x.len \in Nat /\ n - x.len + 1 \in Nat /\ x.len + (n - x.len) = n
    BY <1>2, SizeAssumption DEF Good, Described
  <2>2. Described(r) /\ r.len = x.len /\ n <= sdsalloc(r)
    BY <2>1, RoomDescribed
  <2>3. sdsgrowzero(x, n) = sdssetlen(y, n)
    BY <1>2, Zenon DEF sdsgrowzero
  <2>4. Len(zeros) = n - x.len + 1 /\ \A k \in 1..(n - x.len + 1) : zeros[k] = 0
    BY <2>1
  <2> HIDE DEF r, zeros
  <2>5. x.len + Len(zeros) <= r.block /\ n \in 0..(r.block - 1)
        /\ n \in x.len..(x.len + Len(zeros) - 1) /\ n - x.len + 1 \in 1..(n - x.len + 1)
    <3>1. r.block \in Nat /\ n + 1 <= r.block
      BY <2>2 DEF Described, sdsalloc
    <3> QED
      BY <1>2, <2>1, <2>4, <3>1, SMTT(30)
  <2>6. Described(y) /\ sdsalloc(y) = sdsalloc(r) /\ y.buf[n] = zeros[n - x.len + 1]
    <3>1. Len(zeros) \in Nat
      BY <2>1, <2>4
    <3>2. /\ Described(y) /\ sdsalloc(y) = sdsalloc(r)
          /\ \A k \in 0..(r.block - 1) :
               y.buf[k] = IF k \in x.len..(x.len + Len(zeros) - 1) THEN zeros[k - x.len + 1]
                          ELSE r.buf[k]
      BY <2>1, <2>2, <2>5, <3>1, PutDescribed
    <3> QED
      BY <2>5, <3>2, Zenon
  <2> HIDE DEF y
  <2>7. Described(sdssetlen(y, n)) /\ sdssetlen(y, n).len = n /\ sdssetlen(y, n).buf = y.buf
    BY <2>2, <2>6, SetLenDescribed
  <2> QED
    BY <1>2, <2>3, <2>4, <2>5, <2>6, <2>7 DEF Good, Terminated
<1> QED
  BY <1>1, <1>2

LEMMA ClearGood == ASSUME NEW x, Described(x)
                   PROVE Good(sdsclear(x), 0)
<1>1. 0 <= sdsalloc(x) /\ 0 \in Nat
  BY DEF Described, sdsalloc
<1> QED
  BY <1>1, LenThenNul DEF Good, sdsclear

\* sdsIncrLen, as far as the length stays within the allocation.
LEMMA IncrGood ==
  ASSUME NEW x, Described(x), NEW incr \in Int, x.len + incr \in Nat,
         x.len + incr <= sdsalloc(x)
  PROVE Good(sdsIncrLen(x, incr), x.len + incr)
  BY LenThenNul DEF Good, sdsIncrLen, sdsinclen

\* strlen stops at the first NUL.
LEMMA UpdateGood ==
  ASSUME NEW x, Good(x, x.len), NEW n \in 1..x.len
  PROVE LET y == sdsupdatelen(PutNul(x, n - 1))
        IN Good(y, y.len) /\ y.len <= x.len
<1> DEFINE z == PutNul(x, n - 1)
           S == {k \in DOMAIN z.buf : z.buf[k] = 0}
<1>1. n - 1 \in Nat /\ n - 1 < x.block /\ x.len \in Nat /\ Described(x)
      /\ n - 1 \in 0..(x.block - 1)
  BY DEF Good, Described, sdsalloc
<1>2. /\ Described(z) /\ z.len = x.len /\ sdsalloc(z) = sdsalloc(x)
      /\ z.buf[n - 1] = 0 /\ z.block = x.block
  BY <1>1, PutNulDescribed
<1> HIDE DEF z
<1>3. S \in SUBSET Nat /\ n - 1 \in S
  BY <1>1, <1>2 DEF Described
<1>4. CLength(z) \in S /\ CLength(z) <= n - 1
  BY <1>3, SmallestIs DEF CLength
<1>5. CLength(z) \in Nat /\ CLength(z) <= x.len /\ CLength(z) <= sdsalloc(z)
      /\ z.buf[CLength(z)] = 0
  <2>1. CLength(z) \in Nat /\ z.buf[CLength(z)] = 0
    BY <1>3, <1>4
  <2> QED
    BY <1>1, <1>2, <1>4, <2>1 DEF Described, sdsalloc
<1> QED
  BY <1>2, <1>5, SetLenDescribed DEF Good, Terminated, sdsupdatelen, z

\* memmove of n bytes to the front.
LEMMA KeepGood ==
  ASSUME NEW x, Described(x), NEW start, NEW n \in Nat, n <= x.len
  PROVE Good(Keep(x, start, n), n)
<1> DEFINE t == [k \in 1..n |-> x.buf[start + k - 1]]
           y == Put(x, 0, t)
<1>1. Len(t) = n
  OBVIOUS
<1>2. Keep(x, start, n) = sdssetlen(PutNul(y, n), n)
  BY Zenon DEF Keep
<1> HIDE DEF t
<1>3. 0 + Len(t) <= x.block /\ n <= sdsalloc(x) /\ Len(t) \in Nat
  BY <1>1 DEF Described, sdsalloc
<1>4. Described(y) /\ sdsalloc(y) = sdsalloc(x)
  BY <1>3, PutDescribed
<1> HIDE DEF y
<1> QED
  BY <1>2, <1>3, <1>4, NulThenLen DEF Good

LEMMA TrimGood ==
  ASSUME NEW x, Described(x), NEW cset
  PROVE LET y == sdstrim(x, cset)
        IN Good(y, y.len) /\ y.len <= x.len
<1> DEFINE goes(k) == x.buf[k] \in cset \cup {0}
           S == {k \in 0..x.len : k < x.len => ~goes(k)}
           sp == Smallest(S)
           B == {k \in 0..(x.len - 1 - sp) : k < x.len - 1 - sp => ~goes(x.len - 1 - k)}
           back == Smallest(B)
<1> HIDE DEF goes
<1>1. x.len \in Nat
  BY DEF Described
<1>2. sp \in 0..x.len
  <2>1. S \in SUBSET Nat /\ x.len \in S
    BY <1>1
  <2> QED
    BY <2>1, SmallestIs
<1>3. sdstrim(x, cset) = IF sp = x.len THEN Keep(x, sp, 0) ELSE Keep(x, sp, x.len - sp - back)
  BY Zenon DEF sdstrim, goes
<1>4. CASE sp = x.len
  BY <1>1, <1>3, <1>4, KeepGood DEF Good
<1>5. CASE sp # x.len
  <2> HIDE DEF sp
  <2>1. B \in SUBSET Nat /\ x.len - 1 - sp \in B
    BY <1>1, <1>2, <1>5
  <2>2. back \in 0..(x.len - 1 - sp)
    BY <2>1, SmallestIs
  <2> HIDE DEF back
  <2>3. x.len - sp - back \in Nat /\ x.len - sp - back <= x.len
    BY <1>1, <1>2, <2>2
  <2> QED
    BY <1>3, <1>5, <2>3, KeepGood DEF Good
<1> QED
  BY <1>4, <1>5

LEMMA RangeGood ==
  ASSUME NEW x, Good(x, x.len), NEW start \in Int, NEW end \in Int
  PROVE LET y == sdsrange(x, start, end)
        IN Good(y, y.len) /\ y.len <= x.len
<1> DEFINE place(n) == IF n >= 0 THEN n ELSE IF x.len + n < 0 THEN 0 ELSE x.len + n
           from == place(start)
           to == place(end)
           last == IF to >= x.len THEN x.len - 1 ELSE to
<1>1. x.len \in Nat /\ Described(x) /\ from \in Nat /\ to \in Nat
  BY DEF Good, Described
<1>2. sdsrange(x, start, end) = CASE x.len = 0 -> x
                                  [] x.len # 0 /\ (from > to \/ from >= x.len) -> Keep(x, 0, 0)
                                  [] OTHER -> Keep(x, from, last - from + 1)
  BY DEF sdsrange
<1>3. CASE x.len = 0
  BY <1>1, <1>2, <1>3
<1>4. CASE x.len # 0 /\ (from > to \/ from >= x.len)
  BY <1>1, <1>2, <1>4, KeepGood DEF Good
<1>5. CASE x.len # 0 /\ ~(from > to \/ from >= x.len)
  <2> HIDE DEF from, to
  <2>1. last - from + 1 \in Nat /\ last - from + 1 <= x.len
    BY <1>1, <1>5
  <2> HIDE DEF last
  <2>2. sdsrange(x, start, end) = Keep(x, from, last - from + 1)
    BY <1>2, <1>5
  <2> QED
    BY <1>1, <2>1, <2>2, KeepGood DEF Good
<1> QED
  BY <1>3, <1>4, <1>5

LEMMA MapGood ==
  ASSUME NEW x, Good(x, x.len), NEW from, NEW to
  PROVE Good(sdsmapchars(x, from, to), x.len)
<1> DEFINE b == [k \in DOMAIN x.buf |-> IF k < x.len /\ x.buf[k] = from THEN to ELSE x.buf[k]]
<1>1. sdsmapchars(x, from, to) = [x EXCEPT !.buf = b]
  BY Zenon DEF sdsmapchars
<1>2. x.len \in DOMAIN x.buf /\ x.len \in Nat
  BY DEF Good, Described, sdsalloc
<1>3. DOMAIN b = DOMAIN x.buf /\ b[x.len] = x.buf[x.len]
  BY <1>2
<1> HIDE DEF b
<1>4. sdsmapchars(x, from, to) = [type |-> x.type, len |-> x.len, alloc |-> x.alloc,
                                  block |-> x.block, buf |-> b]
  BY <1>1, ExceptBuf DEF Good
<1> QED
  BY <1>3, <1>4 DEF Good, Described, Terminated, sdsalloc

\* One piece of sdscatfmt, which may ask for room twice.
LEMMA PieceDescribed ==
  ASSUME NEW x, Described(x), NEW t, Len(t) \in Nat, x.len + Len(t) <= MaxLen
  PROVE LET y == sdsinclen(Put(catfmt_room(x, Len(t)), x.len, t), Len(t))
        IN Described(y) /\ y.len = x.len + Len(t)
<1> DEFINE n == Len(t)
           y == IF sdsavail(x) = 0 THEN sdsMakeRoomFor(x, 1) ELSE x
           r == catfmt_room(x, n)
           z == Put(r, x.len, t)
<1>1. x.len \in Nat /\ x.len + 1 <= MaxLen + 1 /\ x.len + n <= MaxLen + 1 /\ n \in Nat
  BY SizeAssumption DEF Described
<1>2. Described(y) /\ y.len = x.len
  BY <1>1, RoomDescribed
<1> HIDE DEF y
<1>3. Described(r) /\ r.len = x.len /\ x.len + n <= sdsalloc(r)
  <2>1. CASE sdsavail(y) < n
    <3>1. r = sdsMakeRoomFor(y, n)
      BY <2>1 DEF catfmt_room, y
    <3> QED
      BY <1>1, <1>2, <3>1, RoomDescribed
  <2>2. CASE ~(sdsavail(y) < n)
    <3>1. r = y
      BY <2>2 DEF catfmt_room, y
    <3> QED
      BY <1>1, <1>2, <2>2, <3>1 DEF Described, sdsavail, sdsalloc
  <2> QED
    BY <2>1, <2>2
<1> HIDE DEF r
<1>4. x.len + n <= r.block
  BY <1>1, <1>3 DEF Described, sdsalloc
<1>5. Described(z) /\ z.len = x.len /\ sdsalloc(z) = sdsalloc(r)
  BY <1>1, <1>3, <1>4, PutDescribed
<1> HIDE DEF z
<1>6. Described(sdsinclen(z, n)) /\ sdsinclen(z, n).len = x.len + n
  BY <1>1, <1>3, <1>5, SetLenDescribed DEF sdsinclen
<1> QED
  BY <1>6 DEF z, r

(***************************************************************************)
(* The calls.                                                              *)
(***************************************************************************)

\* What a live string is known to be.
LEMMA LiveGood == ASSUME IInv, ptr \in {"live", "printf"}
                  PROVE Good(s, s.len) /\ Described(s) /\ s.len <= MaxLen /\ s.len \in Nat
  BY DEF IInv, Present, Good, Described

\* A string in order makes the invariant hold after a call.
LEMMA LiveAgain ==
  ASSUME ptr' = "live", Good(s', s'.len), s'.len <= MaxLen,
         call'.op = "room" => s'.len + call'.n + 1 <= s'.block
  PROVE IInv'
  BY DEF IInv, Good, PrintfFits, CatfmtFits, RoomKept, Described, Terminated, sdsalloc

\* A call that returns a string in order keeps the invariant, and so does one
\* that fails.
LEMMA ReturnsKeeps ==
  ASSUME IInv, NEW c, NEW x, NEW a, Returns(c, x, a), Good(x, x.len), x.len <= MaxLen,
         c.op = "room" => x.len + c.n + 1 <= x.block
  PROVE IInv'
<1>1. ptr = "live" /\ ptr' = "live"
  BY DEF Returns
<1>2. CASE s' = Forget(x) /\ call' = c
  <2>1. Good(Forget(x), x.len) /\ Forget(x).len = x.len /\ Forget(x).block = x.block
    BY ForgetGood, ForgetDescribed DEF Good
  <2> QED
    BY <1>1, <1>2, <2>1, LiveAgain
<1>3. CASE s' = s /\ call' = Failed
  <2>1. Failed.op # "room"
    BY DEF Failed
  <2> QED
    BY <1>1, <1>3, <2>1, LiveGood, LiveAgain
<1> QED
  BY <1>2, <1>3 DEF Returns

\* The arguments are sequences of bytes.
LEMMA ArgLen == ASSUME NEW t \in Args
                PROVE t \in Seq(Byte) /\ Len(t) \in Nat
  BY ArgsAssumption

LEMMA NewKeeps == ASSUME IInv, new \/ new_zero
                  PROVE IInv'
<1> USE DEF Failed
<1>1. ASSUME NEW t, Len(t) \in Nat, Len(t) <= MaxLen, s' = sdsnewlen(t), ptr' = "live",
             call' = [op |-> "new", t |-> t]
      PROVE IInv'
  <2>1. Good(sdsnewlen(t), Len(t)) /\ sdsnewlen(t).len = Len(t)
    BY <1>1, NewGood DEF Good
  <2> QED
    BY <1>1, <2>1, LiveAgain
<1>2. ASSUME ptr' \notin Present
      PROVE IInv'
  BY <1>2 DEF IInv
<1>3. CASE new
  <2>1. PICK t \in Args : /\ ptr = "null" /\ Fits(Len(t))
                          /\ \/ s' = sdsnewlen(t) /\ ptr' = "live" /\ call' = [op |-> "new", t |-> t]
                             \/ UNCHANGED ptr
    BY <1>3 DEF new
  <2> QED
    BY <1>1, <1>2, <2>1, ArgLen DEF Fits, Present
<1>4. CASE new_zero
  <2>1. PICK n \in 0..MaxLen :
          LET t == [k \in 1..n |-> 0]
          IN \/ s' = sdsnewlen(t) /\ ptr' = "live" /\ call' = [op |-> "new", t |-> t]
             \/ ptr' = "crashed"
    BY <1>4 DEF new_zero
  <2>2. n \in Nat /\ Len([k \in 1..n |-> 0]) = n /\ n <= MaxLen
    BY SizeAssumption
  <2> QED
    BY <1>1, <1>2, <2>1, <2>2 DEF Present
<1> QED
  BY <1>3, <1>4

\* The calls that leave the length, or shorten it.
LEMMA ShortCallsKeep ==
  ASSUME IInv, dup \/ removefree \/ decrlen \/ updatelen \/ clear \/ trim \/ range \/ mapchars
  PROVE IInv'
<1>1. ptr = "live"
  BY DEF dup, removefree, decrlen, updatelen, clear, trim, range, mapchars, Returns
<1>2. Good(s, s.len) /\ Described(s) /\ s.len <= MaxLen /\ s.len \in Nat
  BY <1>1, LiveGood
<1>3. ASSUME NEW c, NEW x, NEW a, Returns(c, x, a), Good(x, x.len), x.len <= s.len,
             c.op # "room"
      PROVE IInv'
  <2>1. x.len <= MaxLen
    BY <1>2, <1>3, SizeAssumption DEF Good, Described
  <2> QED
    BY <1>3, <2>1, ReturnsKeeps
<1>4. CASE dup
  <2>1. Len(Content(s)) = s.len
    BY <1>2 DEF Content
  <2>2. Good(sdsnewlen(Content(s)), s.len)
    BY <1>2, <2>1, NewGood
  <2>3. LET x == sdsnewlen(Content(s)) IN Good(x, x.len) /\ x.len <= s.len
    BY <1>2, <2>2 DEF Good
  <2> QED
    BY <1>3, <1>4, <2>3 DEF dup
<1>5. CASE removefree
  <2>1. Good(sdsRemoveFreeSpace(s), s.len)
    BY <1>2, RemoveFreeGood
  <2>2. LET x == sdsRemoveFreeSpace(s) IN Good(x, x.len) /\ x.len <= s.len
    BY <1>2, <2>1 DEF Good
  <2> QED
    BY <1>3, <1>5, <2>2 DEF removefree
<1>6. CASE decrlen
  <2>1. PICK n \in 1..s.len : Returns([op |-> "cut", n |-> n], sdsIncrLen(s, -n), FALSE)
    BY <1>6 DEF decrlen
  <2>2. -n \in Int /\ s.len + (-n) \in Nat /\ s.len + (-n) <= s.len /\ s.len + (-n) <= sdsalloc(s)
    BY <1>2 DEF Described, sdsalloc
  <2>3. Good(sdsIncrLen(s, -n), s.len + (-n))
    BY <1>2, <2>2, IncrGood
  <2> QED
    BY <1>3, <2>1, <2>2, <2>3 DEF Good
<1>7. CASE updatelen
  BY <1>2, <1>3, <1>7, UpdateGood DEF updatelen
<1>8. CASE clear
  <2>1. Good(sdsclear(s), 0)
    BY <1>2, ClearGood
  <2>2. LET x == sdsclear(s) IN Good(x, x.len) /\ x.len <= s.len
    BY <1>2, <2>1 DEF Good
  <2> QED
    BY <1>3, <1>8, <2>2 DEF clear
<1>9. CASE trim
  BY <1>2, <1>3, <1>9, TrimGood DEF trim
<1>10. CASE range
  <2>1. PICK n, m \in Indices :
          Returns([op |-> "range", n |-> n, m |-> m], sdsrange(s, n, m), FALSE)
    BY <1>10 DEF range
  <2>2. n \in Int /\ m \in Int
    BY ArgsAssumption
  <2> QED
    BY <1>2, <1>3, <2>1, <2>2, RangeGood
<1>11. CASE mapchars
  <2>1. PICK n, m \in Letters :
          Returns([op |-> "map", n |-> n, m |-> m], sdsmapchars(s, n, m), FALSE)
    BY <1>11 DEF mapchars
  <2>2. Good(sdsmapchars(s, n, m), s.len)
    BY <1>2, MapGood
  <2>3. LET x == sdsmapchars(s, n, m) IN Good(x, x.len) /\ x.len <= s.len
    BY <1>2, <2>2 DEF Good
  <2> QED
    BY <1>3, <2>1, <2>3 
<1> QED
  BY <1>4, <1>5, <1>6, <1>7, <1>8, <1>9, <1>10, <1>11

\* The calls that may lengthen the string or its block.
LEMMA LongCallsKeep ==
  ASSUME IInv, cat \/ copy \/ growzero \/ makeroom \/ incrlen
  PROVE IInv'
<1>1. ptr = "live"
  BY DEF cat, copy, growzero, makeroom, incrlen, Returns
<1>2. Good(s, s.len) /\ Described(s) /\ s.len <= MaxLen /\ s.len \in Nat
  BY <1>1, LiveGood
<1>3. CASE cat
  <2>1. PICK t \in Args :
          /\ Fits(s.len + Len(t))
          /\ Returns([op |-> "cat", t |-> t], sdscatlen(s, t), sdsavail(s) < Len(t))
    BY <1>3 DEF cat
  <2>2. Good(sdscatlen(s, t), s.len + Len(t)) /\ s.len + Len(t) <= MaxLen
    BY <1>2, <2>1, ArgLen, CatGood DEF Fits
  <2> QED
    BY <2>1, <2>2, ReturnsKeeps DEF Good
<1>4. CASE copy
  <2>1. PICK t \in Args :
          /\ Fits(Len(t))
          /\ Returns([op |-> "copy", t |-> t], sdscpylen(s, t), sdsalloc(s) < Len(t))
    BY <1>4 DEF copy
  <2>2. Good(sdscpylen(s, t), Len(t)) /\ Len(t) <= MaxLen
    BY <1>2, <2>1, ArgLen, CopyGood DEF Fits
  <2> QED
    BY <2>1, <2>2, ReturnsKeeps DEF Good
<1>5. CASE growzero
  <2>1. PICK n \in 0..MaxLen :
          Returns([op |-> "grow", n |-> n], sdsgrowzero(s, n), sdsavail(s) < n - s.len)
    BY <1>5 DEF growzero
  <2>2. n \in Nat /\ n <= MaxLen
    BY SizeAssumption
  <2>3. Good(sdsgrowzero(s, n), IF n <= s.len THEN s.len ELSE n)
    BY <1>2, <2>2, GrowGood
  <2> QED
    BY <1>2, <2>1, <2>2, <2>3, ReturnsKeeps DEF Good
<1>6. CASE makeroom
  <2>1. PICK n \in 0..MaxLen :
          /\ Fits(s.len + n)
          /\ Returns([op |-> "room", n |-> n], sdsMakeRoomFor(s, n), sdsavail(s) < n)
    BY <1>6 DEF makeroom
  <2> DEFINE y == sdsMakeRoomFor(s, n)
  <2>2. n \in Nat /\ s.len + n <= MaxLen + 1
    BY <1>2, <2>1, SizeAssumption DEF Fits
  <2>3. Described(y) /\ y.len = s.len /\ s.len + n <= sdsalloc(y) /\ Terminated(y)
    BY <1>2, <2>2, RoomDescribed DEF Good
  <2> HIDE DEF y
  <2>4. y.len + n + 1 <= y.block
    BY <1>2, <2>2, <2>3 DEF Described, sdsalloc
  <2>5. Returns([op |-> "room", n |-> n], y, sdsavail(s) < n)
    BY <2>1 DEF y
  <2> QED
    BY <1>2, <2>3, <2>4, <2>5, ReturnsKeeps DEF Good
<1>7. CASE incrlen
  <2>1. PICK t \in Args :
          /\ Len(t) \in 1..sdsavail(s) /\ Fits(s.len + Len(t))
          /\ Returns([op |-> "cat", t |-> t], sdsIncrLen(Put(s, s.len, t), Len(t)), FALSE)
    BY <1>7 DEF incrlen
  <2> DEFINE y == Put(s, s.len, t)
  <2>2. Len(t) \in Nat /\ s.len + Len(t) <= sdsalloc(s) /\ s.len + Len(t) <= s.block
    BY <1>2, <2>1, ArgLen DEF Described, sdsavail, sdsalloc
  <2>3. Described(y) /\ y.len = s.len /\ sdsalloc(y) = sdsalloc(s)
    BY <1>2, <2>2, PutDescribed
  <2> HIDE DEF y
  <2>4. Good(sdsIncrLen(y, Len(t)), s.len + Len(t))
    BY <1>2, <2>2, <2>3, IncrGood
  <2>5. Returns([op |-> "cat", t |-> t], sdsIncrLen(y, Len(t)), FALSE)
        /\ s.len + Len(t) <= MaxLen
    BY <2>1 DEF y, Fits
  <2> QED
    BY <2>4, <2>5, ReturnsKeeps DEF Good
<1> QED
  BY <1>3, <1>4, <1>5, <1>6, <1>7

\* sdscatvprintf: what is appended is at most the text that was to be printed.
LEMMA PrintfKeeps == ASSUME IInv, catvprintf \/ printf_retry \/ printf_cat
                     PROVE IInv'
<1> USE DEF Failed, Begun
<1>1. Good(s, s.len) /\ Described(s) /\ s.len <= MaxLen /\ s.len \in Nat
  BY LiveGood DEF catvprintf, printf_retry, printf_cat
<1>2. CASE catvprintf
  <2>1. CASE ptr' = "live" /\ call' = Failed /\ s' = s
    BY <1>1, <2>1, LiveAgain
  <2>2. CASE ptr' # "live"
    <3>1. PICK t \in Args : /\ Fits(s.len + Len(t)) /\ ptr' = "printf" /\ fmt' = <<t>>
                            /\ i' \in {StaticBuf, StaticBuf * 2} /\ call' = Begun /\ s' = s
      BY <1>2, <2>2 DEF catvprintf
    <3>2. t \in Seq(Byte) /\ s.len + Len(t) <= MaxLen /\ i' \in Nat \ {0, 1}
      BY <3>1, ArgLen, PreallocAssumption DEF Fits
    <3>3. fmt'[1] = t
      BY <3>1
    <3> QED
      BY <1>1, <3>1, <3>2, <3>3
      DEF IInv, Present, PrintfFits, CatfmtFits, RoomKept, Good, Described, Terminated, sdsalloc
  <2> QED
    BY <1>2, <2>1, <2>2 DEF catvprintf
<1>3. CASE printf_retry
  <2>1. CASE i' = i * 2 /\ UNCHANGED <<ptr, fmt, call, s>>
    <3>1. i \in Nat \ {0, 1} /\ i' \in Nat \ {0, 1}
      BY <1>3, <2>1 DEF printf_retry, IInv, Present, PrintfFits
    <3> QED
      BY <1>1, <1>3, <2>1, <3>1
      DEF printf_retry, IInv, Present, PrintfFits, CatfmtFits, RoomKept, Good, Described,
          Terminated, sdsalloc
  <2>2. CASE ptr' = "live" /\ call' = Failed /\ s' = s
    BY <1>1, <2>2, LiveAgain
  <2> QED
    BY <1>3, <2>1, <2>2 DEF printf_retry
<1>4. CASE printf_cat
  <2> DEFINE t == vsnprintf(fmt[1], i)
  <2>1. /\ ptr' = "live"
        /\ \/ s' = Forget(sdscatlen(s, t)) /\ call'.op = "cat"
           \/ s' = s /\ call' = Failed
    BY <1>4 DEF printf_cat
  <2>2. /\ fmt[1] \in Seq(Byte) /\ s.len + Len(fmt[1]) <= MaxLen /\ i \in Nat \ {0, 1}
    BY <1>4 DEF printf_cat, IInv, Present, PrintfFits
  <2>3. Len(t) \in Nat /\ Len(t) <= Len(fmt[1])
    BY <2>2 DEF vsnprintf
  <2> HIDE DEF t
  <2>4. s.len + Len(t) <= MaxLen
    BY <1>1, <2>2, <2>3, SizeAssumption
  <2>5. Good(Forget(sdscatlen(s, t)), s.len + Len(t))
    BY <1>1, <2>3, <2>4, CatGood, ForgetGood
  <2>6. Forget(sdscatlen(s, t)).len = s.len + Len(t)
    BY <2>5 DEF Good
  <2> QED
    BY <1>1, <2>1, <2>4, <2>5, <2>6, LiveAgain
<1> QED
  BY <1>2, <1>3, <1>4

\* sdscatfmt: between its pieces the NUL may be missing, but not the room.
LEMMA CatfmtKeeps == ASSUME IInv, catfmt \/ catfmt_piece \/ catfmt_end
                     PROVE IInv'
<1> USE DEF Failed, Begun
<1>1. Described(s) /\ s.len <= MaxLen /\ s.len \in Nat
  BY DEF catfmt, catfmt_piece, catfmt_end, IInv, Present, Described
<1>2. CASE catfmt
  <2>1. PICK t, u \in Args : /\ Fits(s.len + Len(t) + Len(u)) /\ ptr' = "catfmt"
                             /\ fmt' = <<t, u>> /\ i' = s.len /\ call' = Begun /\ s' = s
    BY <1>2 DEF catfmt
  <2>2. /\ t \in Seq(Byte) /\ u \in Seq(Byte) /\ s.len + Len(t) + Len(u) <= MaxLen
    BY <2>1, ArgLen DEF Fits
  <2>3. fmt' \in Seq(Seq(Byte)) /\ Len(fmt') = 2 /\ fmt'[1] = t /\ fmt'[2] = u
    BY <2>1, <2>2
  <2> QED
    BY <1>1, <2>1, <2>2, <2>3
    DEF IInv, Present, PrintfFits, CatfmtFits, RoomKept, Described, Terminated, sdsalloc
<1>3. CASE catfmt_piece
  <2> DEFINE t == Head(fmt)
             y == sdsinclen(Put(catfmt_room(s, Len(t)), i, t), Len(t))
  <2>1. /\ ptr = "catfmt" /\ fmt # <<>> /\ i = s.len /\ fmt \in Seq(Seq(Byte))
        /\ \/ Len(fmt) = 1 /\ s.len + Len(fmt[1]) <= MaxLen
           \/ Len(fmt) = 2 /\ s.len + Len(fmt[1]) + Len(fmt[2]) <= MaxLen
    BY <1>3 DEF catfmt_piece, IInv, Present, CatfmtFits
  <2>2. t = fmt[1] /\ t \in Seq(Byte) /\ Len(t) \in Nat /\ Tail(fmt) \in Seq(Seq(Byte))
        /\ (Len(fmt) = 2 => Len(Tail(fmt)) = 1 /\ Tail(fmt)[1] = fmt[2] /\ Len(fmt[2]) \in Nat)
        /\ (Len(fmt) = 1 => Tail(fmt) = <<>>)
    <3>1. t = fmt[1] /\ fmt[1] \in Seq(Byte) /\ Tail(fmt) \in Seq(Seq(Byte))
          /\ Len(Tail(fmt)) = Len(fmt) - 1
      BY <2>1
    <3>2. Len(t) \in Nat
      BY <3>1
    <3>3. Len(fmt) = 2 => Tail(fmt)[1] = fmt[2] /\ Len(fmt[2]) \in Nat
      <4> SUFFICES ASSUME Len(fmt) = 2
                   PROVE Tail(fmt)[1] = fmt[2] /\ Len(fmt[2]) \in Nat
        OBVIOUS
      <4>1. 1 \in 1..Len(Tail(fmt)) /\ 1 + 1 = 2 /\ 2 \in 1..Len(fmt)
        <5> DEFINE m == Len(Tail(fmt))
                   n == Len(fmt)
        <5>1. m = n - 1 /\ n = 2
          BY <3>1
        <5> HIDE DEF m, n
        <5>2. 1 \in 1..m /\ 2 \in 1..n
          BY <5>1
        <5> QED
          BY <5>2 DEF m, n
      <4>2. Tail(fmt)[1] = fmt[1 + 1]
        BY <2>1, <4>1, HeadTailProperties
      <4>3. fmt[2] \in Seq(Byte)
        BY <2>1, <4>1, ElementOfSeq
      <4> QED
        BY <4>1, <4>2, <4>3, LenProperties
    <3>4. Len(fmt) = 1 => Tail(fmt) = <<>>
      <4>1. Tail(fmt) # <<>> => Len(Tail(fmt)) # 0
        BY <3>1, EmptySeq
      <4> QED
        BY <3>1, <4>1
    <3> QED
      BY <3>1, <3>2, <3>3, <3>4
  <2>3. s.len + Len(t) <= MaxLen
    BY <1>1, <2>1, <2>2, SizeAssumption
  <2> HIDE DEF t
  <2>4. Described(y) /\ y.len = s.len + Len(t)
    BY <1>1, <2>1, <2>2, <2>3, PieceDescribed
  <2>5. CASE /\ s' = y /\ i' = i + Len(t) /\ fmt' = Tail(fmt) /\ call'.op = "cat" /\ ptr' = ptr
    <3> HIDE DEF y
    <3>1. CatfmtFits'
      BY <2>1, <2>2, <2>4, <2>5 DEF CatfmtFits
    <3> QED
      BY <2>1, <2>3, <2>4, <2>5, <3>1
      DEF IInv, Present, PrintfFits, RoomKept, Described, sdsalloc
  <2>6. CASE ptr' = "crashed"
    BY <2>6 DEF IInv, Present
  <2> QED
    BY <1>3, <2>5, <2>6 DEF catfmt_piece, t
<1>4. CASE catfmt_end
  <2>1. /\ ptr' = "live" /\ s' = Forget(PutNul(s, s.len)) /\ call'.op = "end"
    BY <1>4 DEF catfmt_end, IInv, Present, CatfmtFits
  <2>2. s.len < s.block
    BY <1>1 DEF Described, sdsalloc
  <2>3. Good(PutNul(s, s.len), s.len)
    BY <1>1, <2>2, PutNulDescribed DEF Good, Terminated
  <2>4. Good(Forget(PutNul(s, s.len)), s.len)
    BY <2>3, ForgetGood
  <2> QED
    BY <1>1, <2>1, <2>4, LiveAgain DEF Good
<1> QED
  BY <1>2, <1>3, <1>4

\* The invariant holds in every reachable state.
LEMMA Invariant == Spec => []IInv
<1>1. Init => IInv
  BY DEF Init, IInv, Present
<1>2. IInv /\ [Next]_vars => IInv'
  <2> SUFFICES ASSUME IInv, [Next]_vars
               PROVE IInv'
    OBVIOUS
  <2>1. CASE sdsfree
    BY <2>1 DEF sdsfree, IInv, Present
  <2>2. CASE UNCHANGED vars
    BY <2>2 DEF vars, IInv, Present, PrintfFits, CatfmtFits, RoomKept, Described, Terminated,
                sdsalloc
  <2> QED
    BY <2>1, <2>2, NewKeeps, ShortCallsKeep, LongCallsKeep, PrintfKeeps, CatfmtKeeps DEF Next
<1> QED
  BY <1>1, <1>2, PTL DEF Spec

\* The header of every string describes its block, for all widths of the
\* header fields and all arguments (util/sds.c).
THEOREM HeadersSound == Spec => []HeaderSound
<1>1. IInv => HeaderSound
  BY DEF IInv, HeaderSound, Described
<1> QED
  BY <1>1, Invariant, PTL

\* No call writes outside of the block, the string is terminated whenever a
\* caller has it, and sdsMakeRoomFor keeps its promise of room.
THEOREM SdsSound == Spec => []InBlock
<1>1. IInv => InBlock
  BY DEF IInv, InBlock, Described, Terminated, RoomKept
<1> QED
  BY <1>1, Invariant, PTL

(***************************************************************************)
(* util/sds.c does to the bytes of a string what its comments say: Sds     *)
(* implements ByteString, for all widths of the header fields and all      *)
(* arguments.  Each function's bytes are followed, place by place.         *)
(***************************************************************************)

(***************************************************************************)
(* The bytes of a string, and what moves them.                             *)
(***************************************************************************)

\* What may be in the places of x, and in the arguments.
Cells(x) == {x.buf[k] : k \in DOMAIN x.buf} \cup Byte

\* The content as a sequence.
LEMMA ContentSeq ==
  ASSUME NEW x, Described(x)
  PROVE  /\ Content(x) \in Seq(Cells(x))
         /\ Len(Content(x)) = x.len
         /\ DOMAIN Content(x) = 1..x.len
         /\ \A k \in 1..x.len : Content(x)[k] = x.buf[k - 1]
<1>1. x.len \in Nat /\ \A k \in 1..x.len : k - 1 \in DOMAIN x.buf
  BY DEF Described, sdsalloc
<1>2. \A k \in 1..x.len : x.buf[k - 1] \in Cells(x)
  BY <1>1 DEF Cells
<1>3. Content(x) \in [1..x.len -> Cells(x)] /\ \A k \in 1..x.len : Content(x)[k] = x.buf[k - 1]
  BY <1>2 DEF Content
<1> HIDE DEF Content
<1> QED BY <1>1, <1>3

\* A string is told from its bytes.
LEMMA ContentIs ==
  ASSUME NEW x, Described(x), NEW S, NEW t \in Seq(S), Len(t) = x.len,
         \A k \in 0..(x.len - 1) : x.buf[k] = t[k + 1]
  PROVE  Content(x) = t
<1>1. x.len \in Nat BY DEF Described
<1>2. \A k \in 1..x.len : x.buf[k - 1] = t[k]
  <2> SUFFICES ASSUME NEW k \in 1..x.len PROVE x.buf[k - 1] = t[k]
    OBVIOUS
  <2>1. k - 1 \in 0..(x.len - 1) /\ (k - 1) + 1 = k BY <1>1
  <2> QED BY <2>1
<1>3. t \in [1..x.len -> S] BY LenProperties
<1> QED BY <1>2, <1>3 DEF Content

\* Two strings with the same bytes.
LEMMA ContentSame ==
  ASSUME NEW x, NEW y, x.len \in Nat, y.len = x.len, \A k \in 0..(x.len - 1) : y.buf[k] = x.buf[k]
  PROVE  Content(y) = Content(x)
<1>1. \A k \in 1..x.len : y.buf[k - 1] = x.buf[k - 1]
  <2> SUFFICES ASSUME NEW k \in 1..x.len PROVE y.buf[k - 1] = x.buf[k - 1]
    OBVIOUS
  <2>1. k - 1 \in 0..(x.len - 1) OBVIOUS
  <2> QED BY <2>1
<1> QED BY <1>1 DEF Content

\* Writing a NUL changes no other byte.
LEMMA PutNulBytes ==
  ASSUME NEW x, Described(x), NEW at \in Nat, at < x.block
  PROVE  \A k \in 0..(x.block - 1) : k # at => PutNul(x, at).buf[k] = x.buf[k]
<1> DEFINE b == [k \in DOMAIN x.buf \cup at..(at + Len(<<0>>) - 1) |->
                   IF k \in at..(at + Len(<<0>>) - 1) THEN <<0>>[k - at + 1] ELSE x.buf[k]]
<1>1. PutNul(x, at) = [x EXCEPT !.buf = b] BY Zenon DEF PutNul, Put
<1>2. x.block \in Nat /\ DOMAIN x.buf = 0..(x.block - 1) /\ Len(<<0>>) = 1 BY DEF Described
<1>3. \A k \in 0..(x.block - 1) : k # at => b[k] = x.buf[k] BY <1>2
<1> HIDE DEF b
<1>4. PutNul(x, at).buf = b BY <1>1, ExceptBuf
<1> QED BY <1>3, <1>4

\* A new length and its NUL leave the bytes before it.
LEMMA LenThenNulBytes ==
  ASSUME NEW x, Described(x), NEW n \in Nat, n <= sdsalloc(x)
  PROVE  \A k \in 0..(n - 1) : PutNul(sdssetlen(x, n), n).buf[k] = x.buf[k]
<1>1. /\ Described(sdssetlen(x, n)) /\ sdssetlen(x, n).buf = x.buf
      /\ sdssetlen(x, n).block = x.block
  BY SetLenDescribed
<1>2. x.block \in Nat /\ n < x.block
  BY DEF Described, sdsalloc
<1>3. \A k \in 0..(n - 1) : k \in 0..(x.block - 1) /\ k # n
  BY <1>2
<1> QED BY <1>1, <1>2, <1>3, PutNulBytes

LEMMA NulThenLenBytes ==
  ASSUME NEW x, Described(x), NEW n \in Nat, n <= sdsalloc(x)
  PROVE  \A k \in 0..(n - 1) : sdssetlen(PutNul(x, n), n).buf[k] = x.buf[k]
<1>1. x.block \in Nat /\ n < x.block
  BY DEF Described, sdsalloc
<1>2. Described(PutNul(x, n)) /\ sdsalloc(PutNul(x, n)) = sdsalloc(x)
  BY <1>1, PutNulDescribed
<1>3. sdssetlen(PutNul(x, n), n).buf = PutNul(x, n).buf
  BY <1>2, SetLenDescribed
<1>4. \A k \in 0..(n - 1) : k \in 0..(x.block - 1) /\ k # n
  BY <1>1
<1> QED BY <1>1, <1>3, <1>4, PutNulBytes

\* Another block has the same content.
LEMMA MovedContent ==
  ASSUME NEW x, Described(x), NEW type \in Types, NEW n \in Nat, x.len <= n, n < Limit[type]
  PROVE  Content(sdssetalloc(Moved(x, type, n + 1), n)) = Content(x)
<1> DEFINE b == [k \in 0..(n + 1 - 1) |-> IF k <= x.len THEN x.buf[k] ELSE Junk]
<1>1. Limit[type] \in Nat \ {0} /\ x.len \in Nat
  BY LimitAssumption DEF Described
<1>2. x.len % Limit[type] = x.len
  BY <1>1, ModFits
<1>3. Moved(x, type, n + 1) = [type |-> type, len |-> x.len, alloc |-> 0, block |-> n + 1,
                               buf |-> b]
  BY <1>2 DEF Moved
<1>4. \A k \in 0..(x.len - 1) : b[k] = x.buf[k]
  BY <1>1
<1> HIDE DEF b
<1>5. LET y == sdssetalloc(Moved(x, type, n + 1), n) IN y.len = x.len /\ y.buf = b
  BY <1>3 DEF sdssetalloc
<1> QED BY <1>1, <1>4, <1>5, ContentSame

\* So has a string with its rest forgotten.
LEMMA ForgetContent ==
  ASSUME NEW x, Described(x)
  PROVE  Content(Forget(x)) = Content(x)
<1> DEFINE b == [k \in DOMAIN x.buf |-> IF k <= x.len THEN x.buf[k] ELSE Junk]
<1>1. x.len \in Nat /\ \A k \in 0..(x.len - 1) : k \in DOMAIN x.buf /\ k <= x.len
  BY DEF Described, sdsalloc
<1>2. Forget(x) = [x EXCEPT !.buf = b]
  BY Zenon DEF Forget
<1>3. \A k \in 0..(x.len - 1) : b[k] = x.buf[k]
  BY <1>1
<1> HIDE DEF b
<1>4. Forget(x).len = x.len /\ Forget(x).buf = b
  BY <1>2, ExceptBuf
<1> QED BY <1>1, <1>3, <1>4, ContentSame

(***************************************************************************)
(* The functions that allocate.                                            *)
(***************************************************************************)

\* sdsnewlen(t) holds t.
LEMMA NewContent ==
  ASSUME NEW S, NEW t \in Seq(S), Len(t) <= MaxLen
  PROVE  Content(sdsnewlen(t)) = t
<1> DEFINE x == sdsnewlen(t)
           b == [k \in 0..Len(t) |-> IF k = Len(t) THEN 0 ELSE t[k + 1]]
<1>1. Len(t) \in Nat OBVIOUS
<1>2. Described(x) /\ x.len = Len(t)
  BY <1>1, NewGood DEF Good
<1>3. \A k \in 0..(Len(t) - 1) : b[k] = t[k + 1]
  BY <1>1
<1>4. x.buf = b
  BY DEF sdsnewlen
<1> HIDE DEF x, b
<1>5. Content(x) = t
  BY <1>2, <1>3, <1>4, ContentIs
<1> QED BY <1>5 DEF x

\* Making room and giving it back changes no byte.
LEMMA RoomContent ==
  ASSUME NEW x, Described(x), NEW addlen \in Nat, x.len + addlen <= MaxLen + 1
  PROVE  Content(sdsMakeRoomFor(x, addlen)) = Content(x)
<1> DEFINE wanted == x.len + addlen
           newlen == IF wanted < SDS_MAX_PREALLOC THEN wanted * 2 ELSE wanted + SDS_MAX_PREALLOC
           type == IF sdsReqType(newlen) = SDS_TYPE_5 THEN SDS_TYPE_8 ELSE sdsReqType(newlen)
<1>1. x.len \in Nat BY DEF Described
<1>2. CASE sdsavail(x) >= addlen
  BY <1>2 DEF sdsMakeRoomFor
<1>3. CASE ~(sdsavail(x) >= addlen)
  <2>1. newlen \in Nat /\ x.len <= newlen /\ newlen < Limit[SDS_TYPE_64]
    BY <1>1, SizeAssumption, PreallocAssumption, LimitAssumption DEF Types, SDS_TYPE_64
  <2>2. type \in Types /\ newlen < Limit[type]
    BY <2>1, ReqTypeFits, LimitAssumption DEF Types, SDS_TYPE_5, SDS_TYPE_8
  <2>3. sdsMakeRoomFor(x, addlen) = sdssetalloc(Moved(x, type, newlen + 1), newlen)
    BY <1>3 DEF sdsMakeRoomFor
  <2> HIDE DEF type, newlen
  <2> QED BY <2>1, <2>2, <2>3, MovedContent
<1> QED BY <1>2, <1>3

LEMMA RemoveFreeContent ==
  ASSUME NEW x, Described(x), x.len <= MaxLen
  PROVE  Content(sdsRemoveFreeSpace(x)) = Content(x)
<1>1. x.len \in Nat /\ x.len < Limit[SDS_TYPE_64]
  BY SizeAssumption, PreallocAssumption, LimitAssumption, SMTT(30)
  DEF Described, Types, SDS_TYPE_64
<1>2. sdsReqType(x.len) \in Types /\ x.len < Limit[sdsReqType(x.len)]
  BY <1>1, ReqTypeFits
<1> QED BY <1>1, <1>2, MovedContent DEF sdsRemoveFreeSpace

(***************************************************************************)
(* The functions that append.                                              *)
(***************************************************************************)

\* A string that has the bytes of x and then t.
LEMMA AppendedContent ==
  ASSUME NEW x, Described(x), NEW t \in Seq(Byte), NEW y, Described(y),
         y.len = x.len + Len(t),
         \A k \in 0..(x.len - 1) : y.buf[k] = x.buf[k],
         \A k \in 1..Len(t) : y.buf[x.len + k - 1] = t[k]
  PROVE  Content(y) = Content(x) \o t
<1> DEFINE c == Content(x)
<1>1. PICK n : n = x.len OBVIOUS
<1>2. PICK m : m = Len(t) OBVIOUS
<1>3. c \in Seq(Cells(x)) /\ Len(c) = n /\ \A k \in 1..n : c[k] = x.buf[k - 1]
  BY <1>1, ContentSeq
<1>4. n \in Nat /\ m \in Nat /\ y.len = n + m
  BY <1>1, <1>2 DEF Described
<1>5. t \in Seq(Cells(x))
  BY SeqMonotonic DEF Cells
<1> HIDE DEF c
<1>6. /\ c \o t \in Seq(Cells(x)) /\ Len(c \o t) = Len(c) + Len(t)
      /\ \A k \in 1..(Len(c) + Len(t)) : (c \o t)[k] = IF k <= Len(c) THEN c[k] ELSE t[k - Len(c)]
  BY <1>3, <1>5, ConcatProperties
<1>7. /\ Len(c \o t) = n + m
      /\ \A k \in 1..(n + m) : (c \o t)[k] = IF k <= n THEN c[k] ELSE t[k - n]
  BY <1>2, <1>3, <1>6
<1>8. ASSUME NEW k \in 0..(y.len - 1) PROVE y.buf[k] = (c \o t)[k + 1]
  <2>1. k \in Nat /\ k + 1 \in 1..(n + m) BY <1>4
  <2>2. CASE k < n
    <3>1. k \in 0..(n - 1) /\ k + 1 <= n /\ k + 1 \in 1..n /\ (k + 1) - 1 = k
      BY <1>4, <2>1, <2>2
    <3> QED BY <1>1, <1>3, <1>7, <2>1, <3>1
  <2>3. CASE ~(k < n)
    <3>1. ~(k + 1 <= n) /\ (k + 1) - n \in 1..m /\ n + ((k + 1) - n) - 1 = k
      BY <1>4, <2>1, <2>3
    <3> QED BY <1>1, <1>2, <1>7, <2>1, <3>1
  <2> QED BY <2>2, <2>3
<1>9. Content(y) = c \o t
  BY <1>4, <1>6, <1>7, <1>8, ContentIs
<1> QED BY <1>9 DEF c

\* The bytes after memcpy(x + x.len, t, Len(t)).
LEMMA PutAtEnd ==
  ASSUME NEW x, Described(x), NEW t, Len(t) \in Nat, x.len + Len(t) <= x.block
  PROVE  /\ \A k \in 0..(x.len - 1) : Put(x, x.len, t).buf[k] = x.buf[k]
         /\ \A k \in 1..Len(t) : Put(x, x.len, t).buf[x.len + k - 1] = t[k]
<1> DEFINE b == Put(x, x.len, t).buf
           n == x.len
           m == Len(t)
<1>1. n \in Nat /\ m \in Nat /\ x.block \in Nat /\ n + m <= x.block
  BY DEF Described
<1>2. \A k \in 0..(x.block - 1) : b[k] = IF k \in n..(n + m - 1) THEN t[k - n + 1] ELSE x.buf[k]
  BY <1>1, PutDescribed
<1> HIDE DEF b, n, m
<1>3. ASSUME NEW k \in 0..(n - 1) PROVE b[k] = x.buf[k]
  <2>1. k \in 0..(x.block - 1) /\ k \notin n..(n + m - 1) BY <1>1
  <2> QED BY <1>2, <2>1
<1>4. ASSUME NEW k \in 1..m PROVE b[n + k - 1] = t[k]
  <2>1. /\ n + k - 1 \in 0..(x.block - 1) /\ n + k - 1 \in n..(n + m - 1)
        /\ (n + k - 1) - n + 1 = k
    BY <1>1
  <2> QED BY <1>2, <2>1
<1> QED BY <1>3, <1>4 DEF b, n, m

\* What is made of x by making room, writing t at the end and then touching
\* nothing before the new end has t appended.
LEMMA PutContent ==
  ASSUME NEW x, NEW r, Described(x), Described(r), r.len = x.len, Content(r) = Content(x),
         NEW t \in Seq(Byte), r.len + Len(t) <= r.block,
         NEW y, Described(y), y.len = r.len + Len(t),
         \A k \in 0..(y.len - 1) : y.buf[k] = Put(r, r.len, t).buf[k]
  PROVE  Content(y) = Content(x) \o t
<1>1. r.len \in Nat /\ Len(t) \in Nat BY DEF Described
<1>2. \A k \in 0..(r.len - 1) : Put(r, r.len, t).buf[k] = r.buf[k]
  BY <1>1, PutAtEnd, ZenonT(40)
<1>a. \A k \in 1..Len(t) : Put(r, r.len, t).buf[r.len + k - 1] = t[k]
  BY <1>1, PutAtEnd, SMTT(60)
<1>3. /\ \A k \in 0..(r.len - 1) : k \in 0..(y.len - 1)
      /\ \A k \in 1..Len(t) : r.len + k - 1 \in 0..(y.len - 1)
  BY <1>1
<1>4. \A k \in 0..(r.len - 1) : y.buf[k] = r.buf[k]
  BY <1>2, <1>3
<1>5. \A k \in 1..Len(t) : y.buf[r.len + k - 1] = t[k]
  BY <1>a, <1>3
<1>6. Content(y) = Content(r) \o t
  BY <1>4, <1>5, AppendedContent
<1> QED BY <1>6

\* sdscatlen.
LEMMA CatContent ==
  ASSUME NEW x, Described(x), NEW t \in Seq(Byte), x.len + Len(t) <= MaxLen
  PROVE  Content(sdscatlen(x, t)) = Content(x) \o t
<1> DEFINE r == sdsMakeRoomFor(x, Len(t))
           y == Put(r, x.len, t)
           n == x.len + Len(t)
           z == sdscatlen(x, t)
<1>1. x.len \in Nat /\ n \in Nat /\ n <= MaxLen + 1 /\ Len(t) \in Nat
  BY SizeAssumption DEF Described
<1>2. Described(r) /\ r.len = x.len /\ n <= sdsalloc(r) /\ Content(r) = Content(x)
  BY <1>1, RoomDescribed, RoomContent
<1>3. z = PutNul(sdssetlen(y, n), n)
  BY Zenon DEF sdscatlen
<1> HIDE DEF r
<1>4. n <= r.block
  BY <1>1, <1>2 DEF Described, sdsalloc
<1>5. Described(y) /\ sdsalloc(y) = sdsalloc(r)
  BY <1>1, <1>2, <1>4, PutDescribed
<1>6. Described(z) /\ z.len = n
  BY <1>1, CatGood DEF Good
<1>7. \A k \in 0..(n - 1) : z.buf[k] = y.buf[k]
  <2> HIDE DEF y, z
  <2> QED BY <1>1, <1>2, <1>3, <1>5, LenThenNulBytes
<1> HIDE DEF z
<1>8. Content(z) = Content(x) \o t
  BY <1>1, <1>2, <1>4, <1>6, <1>7, PutContent
<1> QED BY <1>8 DEF z

\* sdsIncrLen after the caller has written t.
LEMMA IncrContent ==
  ASSUME NEW x, Described(x), NEW t \in Seq(Byte), x.len + Len(t) <= sdsalloc(x)
  PROVE  Content(sdsIncrLen(Put(x, x.len, t), Len(t))) = Content(x) \o t
<1> DEFINE y == Put(x, x.len, t)
           n == x.len + Len(t)
           z == sdsIncrLen(y, Len(t))
<1>1. x.len \in Nat /\ Len(t) \in Nat /\ n \in Nat /\ n <= x.block
  BY DEF Described, sdsalloc
<1>2. Described(y) /\ y.len = x.len /\ sdsalloc(y) = sdsalloc(x)
  BY <1>1, PutDescribed
<1> HIDE DEF y
<1>3. z = PutNul(sdssetlen(y, n), n)
  BY <1>2 DEF sdsIncrLen, sdsinclen
<1>4. Described(z) /\ z.len = n
  BY <1>1, <1>2, <1>3, LenThenNul
<1>5. \A k \in 0..(n - 1) : z.buf[k] = y.buf[k]
  BY <1>1, <1>2, <1>3, LenThenNulBytes
<1> HIDE DEF z
<1>6. Content(z) = Content(x) \o t
  BY <1>1, <1>4, <1>5, PutContent DEF y
<1> QED BY <1>6 DEF z, y

\* One piece of sdscatfmt.
LEMMA PieceContent ==
  ASSUME NEW x, Described(x), NEW t \in Seq(Byte), x.len + Len(t) <= MaxLen
  PROVE  Content(sdsinclen(Put(catfmt_room(x, Len(t)), x.len, t), Len(t))) = Content(x) \o t
<1> DEFINE n == Len(t)
           y == IF sdsavail(x) = 0 THEN sdsMakeRoomFor(x, 1) ELSE x
           r == catfmt_room(x, n)
           z == Put(r, x.len, t)
           w == sdsinclen(z, n)
<1>1. x.len \in Nat /\ x.len + 1 <= MaxLen + 1 /\ x.len + n <= MaxLen + 1 /\ n \in Nat
  BY SizeAssumption DEF Described
<1>2. Described(y) /\ y.len = x.len /\ Content(y) = Content(x)
  BY <1>1, RoomDescribed, RoomContent
<1> HIDE DEF y
<1>3. Described(r) /\ r.len = x.len /\ x.len + n <= sdsalloc(r) /\ Content(r) = Content(x)
  <2>1. CASE sdsavail(y) < n
    <3>1. r = sdsMakeRoomFor(y, n)
      BY <2>1 DEF catfmt_room, y
    <3> QED BY <1>1, <1>2, <3>1, RoomDescribed, RoomContent
  <2>2. CASE ~(sdsavail(y) < n)
    <3>1. r = y
      BY <2>2 DEF catfmt_room, y
    <3>2. x.len + n <= sdsalloc(y)
      BY <1>1, <1>2, <2>2 DEF Described, sdsavail, sdsalloc
    <3> QED BY <1>2, <3>1, <3>2
  <2> QED BY <2>1, <2>2
<1> HIDE DEF r
<1>4. x.len + n <= r.block
  BY <1>1, <1>3 DEF Described, sdsalloc
<1>5. Described(z) /\ z.len = x.len /\ sdsalloc(z) = sdsalloc(r)
  BY <1>1, <1>3, <1>4, PutDescribed
<1>6. Described(w) /\ w.len = x.len + n /\ w.buf = z.buf
  <2> HIDE DEF z
  <2> QED BY <1>1, <1>3, <1>5, SetLenDescribed DEF sdsinclen
<1> HIDE DEF w
<1>7. \A k \in 0..(w.len - 1) : w.buf[k] = Put(r, r.len, t).buf[k]
  BY <1>3, <1>6
<1>8. r.len + Len(t) <= r.block /\ w.len = r.len + Len(t)
  BY <1>3, <1>4, <1>6
<1>9. Content(w) = Content(x) \o t
  BY <1>3, <1>6, <1>7, <1>8, PutContent
<1> QED BY <1>9 DEF w, z, r

\* sdsgrowzero.
LEMMA GrowContent ==
  ASSUME NEW x, Good(x, x.len), NEW n \in Nat, n <= MaxLen
  PROVE  Content(sdsgrowzero(x, n)) = Content(x) \o Bytes!Zeros(n - x.len)
<1>1. Described(x) /\ x.len \in Nat /\ MaxLen \in Nat
  BY SizeAssumption DEF Good, Described
<1>2. CASE n <= x.len
  <2>1. Bytes!Zeros(n - x.len) = <<>>
    <3>1. 1..(n - x.len) = {} BY <1>1, <1>2
    <3> QED BY <3>1 DEF Bytes!Zeros
  <2>2. Content(x) \o <<>> = Content(x)
    BY <1>1, ContentSeq, ConcatEmptySeq
  <2> QED BY <1>2, <2>1, <2>2 DEF sdsgrowzero
<1>3. CASE ~(n <= x.len)
  <2>1. PICK d : d = n - x.len OBVIOUS
  <2>2. d \in Nat /\ d # 0 /\ x.len + d = n /\ x.len + d <= MaxLen + 1
    BY <1>1, <1>3, <2>1
  <2> DEFINE r == sdsMakeRoomFor(x, d)
             zeros == [k \in 1..(d + 1) |-> 0]
             y == Put(r, r.len, zeros)
             z == sdsgrowzero(x, n)
  <2>3. /\ Described(r) /\ r.len = x.len /\ n <= sdsalloc(r) /\ Content(r) = Content(x)
    BY <1>1, <2>2, RoomDescribed, RoomContent
  <2>4. z = sdssetlen(Put(r, x.len, zeros), n)
    BY <1>3, <2>1, Zenon DEF sdsgrowzero
  <2>5. Len(zeros) = d + 1 /\ Len(zeros) \in Nat /\ \A k \in 1..d : zeros[k] = 0
    BY <2>2
  <2> HIDE DEF r, zeros, z
  <2>6. r.len + Len(zeros) <= r.block
    BY <1>1, <2>2, <2>3, <2>5, SMTT(30) DEF Described, sdsalloc
  <2>7. Described(y) /\ sdsalloc(y) = sdsalloc(r)
    BY <1>1, <2>3, <2>5, <2>6, PutDescribed
  <2>8. /\ \A k \in 0..(r.len - 1) : y.buf[k] = r.buf[k]
        /\ \A k \in 1..Len(zeros) : y.buf[r.len + k - 1] = zeros[k]
    BY <2>3, <2>5, <2>6, PutAtEnd
  <2> HIDE DEF y
  <2>9. z = sdssetlen(y, n)
    BY <2>3, <2>4 DEF y
  <2>10. Described(z) /\ z.len = n /\ z.buf = y.buf
    BY <2>3, <2>7, <2>9, SetLenDescribed
  <2> DEFINE t == Bytes!Zeros(d)
  <2>11. t \in Seq(Byte) /\ Len(t) = d /\ \A k \in 1..d : t[k] = 0
    <3>1. 0 \in Byte BY DEF Byte
    <3>2. t \in [1..d -> Byte] /\ \A k \in 1..d : t[k] = 0 BY <3>1 DEF Bytes!Zeros
    <3> QED BY <2>2, <3>2
  <2> HIDE DEF t
  <2>12. \A k \in 1..Len(t) : z.buf[r.len + k - 1] = t[k]
    <3>1. \A k \in 1..d : k \in 1..Len(zeros) BY <2>2, <2>5
    <3> QED BY <2>5, <2>8, <2>10, <2>11, <3>1
  <2>13. Content(z) = Content(r) \o t
    <3>1. z.len = r.len + Len(t) BY <2>2, <2>3, <2>10, <2>11
    <3>2. \A k \in 0..(r.len - 1) : z.buf[k] = r.buf[k] BY <2>8, <2>10
    <3> QED BY <2>3, <2>10, <2>11, <2>12, <3>1, <3>2, AppendedContent
  <2> QED BY <2>1, <2>3, <2>13 DEF t, z
<1> QED BY <1>2, <1>3

(***************************************************************************)
(* The functions that overwrite.                                           *)
(***************************************************************************)

\* memcpy(x, t, n); x[n] = '\0'; sdssetlen(x, n)
LEMMA OverwriteContent ==
  ASSUME NEW x, Described(x), NEW S, NEW t \in Seq(S), Len(t) <= sdsalloc(x)
  PROVE  Content(sdssetlen(PutNul(Put(x, 0, t), Len(t)), Len(t))) = t
<1> DEFINE y == Put(x, 0, t)
           z == sdssetlen(PutNul(y, Len(t)), Len(t))
<1>1. PICK n : n = Len(t) OBVIOUS
<1>2. PICK at : at = 0 OBVIOUS
<1>3. /\ n \in Nat /\ n < x.block /\ x.block \in Nat /\ Len(t) \in Nat
      /\ at \in Nat /\ at + Len(t) <= x.block
  BY <1>1, <1>2 DEF Described, sdsalloc
<1>4. /\ Described(y) /\ sdsalloc(y) = sdsalloc(x)
      /\ \A k \in 0..(x.block - 1) :
           y.buf[k] = IF k \in at..(at + Len(t) - 1) THEN t[k - at + 1] ELSE x.buf[k]
  BY <1>2, <1>3, PutDescribed
<1>5. ASSUME NEW k \in 0..(n - 1) PROVE y.buf[k] = t[k + 1]
  <2>1. k \in 0..(x.block - 1) /\ k \in at..(at + Len(t) - 1) /\ k - at + 1 = k + 1
    BY <1>1, <1>2, <1>3
  <2> QED BY <1>4, <2>1
<1> HIDE DEF y
<1>6. Described(z) /\ z.len = n
  BY <1>1, <1>3, <1>4, NulThenLen
<1>7. \A k \in 0..(n - 1) : z.buf[k] = y.buf[k]
  BY <1>1, <1>3, <1>4, NulThenLenBytes
<1> HIDE DEF z
<1>8. Content(z) = t
  BY <1>1, <1>5, <1>6, <1>7, ContentIs
<1> QED BY <1>8 DEF z, y

\* sdscpylen.
LEMMA CopyContent ==
  ASSUME NEW x, Described(x), NEW t \in Seq(Byte), Len(t) <= MaxLen
  PROVE  Content(sdscpylen(x, t)) = t
<1> DEFINE n == Len(t)
           r == IF sdsalloc(x) < n THEN sdsMakeRoomFor(x, n - x.len) ELSE x
<1>1. x.len \in Nat /\ n \in Nat /\ x.len <= sdsalloc(x)
      /\ sdsalloc(x) \in Nat /\ MaxLen \in Nat
  BY SizeAssumption DEF Described, sdsalloc
<1>2. Described(r) /\ n <= sdsalloc(r)
  <2>1. CASE sdsalloc(x) < n
    <3>1. n - x.len \in Nat /\ x.len + (n - x.len) = n /\ n <= MaxLen + 1
      BY <1>1, <2>1
    <3> QED BY <2>1, <3>1, RoomDescribed
  <2>2. CASE ~(sdsalloc(x) < n)
    BY <1>1, <2>2
  <2> QED BY <2>1, <2>2
<1>3. sdscpylen(x, t) = sdssetlen(PutNul(Put(r, 0, t), n), n)
  BY Zenon DEF sdscpylen
<1> HIDE DEF r
<1> QED BY <1>2, <1>3, OverwriteContent

\* memmove to the front: the bytes from start on.
LEMMA KeepContent ==
  ASSUME NEW x, Described(x), NEW start \in Nat, NEW n \in Nat, start + n <= x.len
  PROVE  Content(Keep(x, start, n)) = SubSeq(Content(x), start + 1, start + n)
<1> DEFINE t == [k \in 1..n |-> x.buf[start + k - 1]]
           u == SubSeq(Content(x), start + 1, start + n)
<1>1. x.len \in Nat /\ n <= sdsalloc(x)
  BY DEF Described, sdsalloc
<1>2. \A k \in 1..n : start + k - 1 \in DOMAIN x.buf /\ x.buf[start + k - 1] \in Cells(x)
  BY <1>1 DEF Cells, Described, sdsalloc
<1>3. t \in Seq(Cells(x)) /\ Len(t) = n
  <2>1. t \in [1..n -> Cells(x)] BY <1>2
  <2> HIDE DEF t
  <2> QED BY <2>1
<1>4. Keep(x, start, n) = sdssetlen(PutNul(Put(x, 0, t), n), n)
  BY Zenon DEF Keep
<1>5. \A k \in 1..n : t[k] = x.buf[start + k - 1] OBVIOUS
<1> HIDE DEF t
<1>6. Content(Keep(x, start, n)) = t
  BY <1>1, <1>3, <1>4, OverwriteContent
<1>7. \A k \in (start + 1)..(start + n) :
        k \in 1..x.len /\ Content(x)[k] = x.buf[k - 1] /\ Content(x)[k] \in Cells(x)
  <2>1. \A k \in (start + 1)..(start + n) : k \in 1..x.len BY <1>1
  <2>2. /\ \A k \in 1..x.len : Content(x)[k] = x.buf[k - 1]
        /\ \A k \in 1..x.len : Content(x)[k] \in Cells(x)
    BY ContentSeq, ElementOfSeq
  <2> QED BY <2>1, <2>2
<1>8. /\ u \in Seq(Cells(x))
      /\ Len(u) = IF start + 1 <= start + n THEN (start + n) - (start + 1) + 1 ELSE 0
      /\ \A k \in 1..((start + n) - (start + 1) + 1) : u[k] = Content(x)[(start + 1) + k - 1]
  BY <1>7, SubSeqProperties
<1> HIDE DEF u
<1>9. Len(u) = n /\ 1..n = 1..((start + n) - (start + 1) + 1)
  BY <1>8
<1>10. ASSUME NEW k \in 1..n PROVE u[k] = t[k]
  <2>1. (start + 1) + k - 1 \in (start + 1)..(start + n)
        /\ ((start + 1) + k - 1) - 1 = start + k - 1
    OBVIOUS
  <2> QED BY <1>5, <1>7, <1>8, <1>9, <2>1
<1>11. u = t BY <1>3, <1>8, <1>9, <1>10, SeqEqual
<1> QED BY <1>6, <1>11 DEF u

\* A string of no bytes.
LEMMA EmptyContent == ASSUME NEW x, x.len = 0
                      PROVE  Content(x) = <<>>
  BY DEF Content

\* sdsIncrLen with a negative increment.
LEMMA CutContent ==
  ASSUME NEW x, Described(x), NEW n \in 1..x.len
  PROVE  Content(sdsIncrLen(x, -n)) = SubSeq(Content(x), 1, x.len - n)
<1>1. PICK m : m = x.len + (-n) OBVIOUS
<1>2. x.len \in Nat /\ m \in Nat /\ m <= x.len /\ m <= sdsalloc(x) /\ m = x.len - n
  BY <1>1 DEF Described, sdsalloc
<1> DEFINE z == sdsIncrLen(x, -n)
           u == SubSeq(Content(x), 1, m)
<1>3. z = PutNul(sdssetlen(x, m), m)
  BY <1>1 DEF sdsIncrLen, sdsinclen
<1>4. Described(z) /\ z.len = m
  BY <1>2, <1>3, LenThenNul
<1>5. \A k \in 0..(m - 1) : z.buf[k] = x.buf[k]
  BY <1>2, <1>3, LenThenNulBytes
<1> HIDE DEF z
<1>6. \A k \in 1..m : k \in 1..x.len /\ Content(x)[k] = x.buf[k - 1] /\ Content(x)[k] \in Cells(x)
  <2>1. \A k \in 1..m : k \in 1..x.len BY <1>2
  <2>2. /\ \A k \in 1..x.len : Content(x)[k] = x.buf[k - 1]
        /\ \A k \in 1..x.len : Content(x)[k] \in Cells(x)
    BY ContentSeq, ElementOfSeq
  <2> QED BY <2>1, <2>2
<1>7. /\ u \in Seq(Cells(x)) /\ Len(u) = IF 1 <= m THEN m - 1 + 1 ELSE 0
      /\ \A k \in 1..(m - 1 + 1) : u[k] = Content(x)[1 + k - 1]
  BY <1>2, <1>6, SubSeqProperties
<1> HIDE DEF u
<1>8. Len(u) = m BY <1>2, <1>7
<1>9. ASSUME NEW k \in 0..(m - 1) PROVE z.buf[k] = u[k + 1]
  <2>1. k + 1 \in 1..m /\ k + 1 \in 1..(m - 1 + 1) /\ 1 + (k + 1) - 1 = k + 1 /\ (k + 1) - 1 = k
    BY <1>2
  <2> QED BY <1>5, <1>6, <1>7, <2>1
<1>10. Content(z) = u BY <1>4, <1>7, <1>8, <1>9, ContentIs
<1> QED BY <1>2, <1>10 DEF z, u

\* Min and Max of the abstract specification.
LEMMA MinIs == ASSUME NEW S \in SUBSET Int, NEW m \in S, \A j \in S : m <= j
               PROVE  Bytes!Min(S) = m
<1>1. Bytes!Min(S) \in S /\ \A j \in S : Bytes!Min(S) <= j
  BY DEF Bytes!Min
<1>2. Bytes!Min(S) <= m /\ m <= Bytes!Min(S) /\ m \in Int /\ Bytes!Min(S) \in Int
  BY <1>1
<1> QED BY <1>2

LEMMA MaxIs == ASSUME NEW S \in SUBSET Int, NEW m \in S, \A j \in S : m >= j
               PROVE  Bytes!Max(S) = m
<1>1. Bytes!Max(S) \in S /\ \A j \in S : Bytes!Max(S) >= j
  BY DEF Bytes!Max
<1>2. Bytes!Max(S) >= m /\ m >= Bytes!Max(S) /\ m \in Int /\ Bytes!Max(S) \in Int
  BY <1>1
<1> QED BY <1>2

\* ... of two numbers.
LEMMA OfTwo ==
  ASSUME NEW a \in Int, NEW b \in Int, a <= b
  PROVE  /\ Bytes!Min({a, b}) = a /\ Bytes!Min({b, a}) = a
         /\ Bytes!Max({a, b}) = b /\ Bytes!Max({b, a}) = b
<1>1. PICK S : S = {a, b} OBVIOUS
<1>2. S \in SUBSET Int /\ a \in S /\ b \in S /\ (\A j \in S : a <= j) /\ \A j \in S : b >= j
  BY <1>1
<1>3. Bytes!Min(S) = a /\ Bytes!Max(S) = b BY <1>2, MinIs, MaxIs
<1>4. {b, a} = {a, b} OBVIOUS
<1> QED BY <1>1, <1>3, <1>4

\* A C string of a sequence with a NUL.
LEMMA CStringIs ==
  ASSUME NEW S, NEW t \in Seq(S), NEW c \in Nat, c < Len(t), t[c + 1] = 0,
         \A k \in 1..c : t[k] # 0
  PROVE  Bytes!CString(t) = SubSeq(t, 1, c)
<1> DEFINE I == {k \in 1..Len(t) : t[k] = 0}
<1>1. I \in SUBSET Int /\ c + 1 \in I /\ \A j \in I : c + 1 <= j
  <2>1. Len(t) \in Nat OBVIOUS
  <2>2. c + 1 \in 1..Len(t) BY <2>1
  <2>3. \A j \in I : j \in Nat /\ j # 0 /\ j \notin 1..c BY <2>1
  <2> QED BY <2>1, <2>2, <2>3
<1>2. Bytes!Min(I) = c + 1
  <2> HIDE DEF I
  <2> QED BY <1>1, MinIs
<1>3. Bytes!SelectInSeq(t, LAMBDA k : k = 0) = Bytes!Min(I)
  BY <1>1 DEF Bytes!SelectInSeq
<1>4. Bytes!Contains(t, 0)
  BY <1>1 DEF Bytes!Contains
<1>5. (c + 1) - 1 = c OBVIOUS
<1> HIDE DEF I
<1> QED BY <1>2, <1>3, <1>4, <1>5 DEF Bytes!CString

\* A shorter length: the first bytes.
LEMMA ShorterContent ==
  ASSUME NEW x, Described(x), NEW n \in Nat, n <= x.len
  PROVE  Content(sdssetlen(x, n)) = SubSeq(Content(x), 1, n)
<1> DEFINE z == sdssetlen(x, n)
           u == SubSeq(Content(x), 1, n)
<1>1. x.len \in Nat /\ n <= sdsalloc(x)
  BY DEF Described, sdsalloc
<1>2. Described(z) /\ z.len = n /\ z.buf = x.buf
  BY <1>1, SetLenDescribed
<1> HIDE DEF z
<1>3. \A k \in 1..n : k \in 1..x.len /\ Content(x)[k] = x.buf[k - 1] /\ Content(x)[k] \in Cells(x)
  <2>1. \A k \in 1..n : k \in 1..x.len BY <1>1
  <2>2. /\ \A k \in 1..x.len : Content(x)[k] = x.buf[k - 1]
        /\ \A k \in 1..x.len : Content(x)[k] \in Cells(x)
    BY ContentSeq, ElementOfSeq
  <2> QED BY <2>1, <2>2
<1>4. /\ u \in Seq(Cells(x)) /\ Len(u) = IF 1 <= n THEN n - 1 + 1 ELSE 0
      /\ \A k \in 1..(n - 1 + 1) : u[k] = Content(x)[1 + k - 1]
  BY <1>3, SubSeqProperties
<1> HIDE DEF u
<1>5. Len(u) = n BY <1>4
<1>6. ASSUME NEW k \in 0..(n - 1) PROVE z.buf[k] = u[k + 1]
  <2>1. k + 1 \in 1..n /\ k + 1 \in 1..(n - 1 + 1) /\ 1 + (k + 1) - 1 = k + 1 /\ (k + 1) - 1 = k
    OBVIOUS
  <2> QED BY <1>2, <1>3, <1>4, <2>1
<1>7. Content(z) = u BY <1>2, <1>4, <1>5, <1>6, ContentIs
<1> QED BY <1>7 DEF z, u

\* s[n - 1] = '\0'; sdsupdatelen(s)
LEMMA UpdateContent ==
  ASSUME NEW x, Good(x, x.len), NEW n \in 1..x.len
  PROVE  Content(sdsupdatelen(PutNul(x, n - 1))) = Bytes!CString([Content(x) EXCEPT ![n] = 0])
<1> DEFINE z == PutNul(x, n - 1)
           S == {k \in DOMAIN z.buf : z.buf[k] = 0}
           e == [Content(x) EXCEPT ![n] = 0]
<1>1. n - 1 \in Nat /\ n - 1 < x.block /\ x.len \in Nat /\ Described(x)
      /\ x.block \in Nat /\ x.len <= x.block
  BY DEF Good, Described, sdsalloc
<1>2. /\ Described(z) /\ z.len = x.len /\ z.buf[n - 1] = 0 /\ z.block = x.block
      /\ \A k \in 0..(x.block - 1) : k # n - 1 => z.buf[k] = x.buf[k]
  BY <1>1, PutNulDescribed, PutNulBytes
<1> HIDE DEF z
<1>3. /\ e \in Seq(Cells(x)) /\ Len(e) = x.len
      /\ \A k \in 1..x.len : e[k] = IF k = n THEN 0 ELSE x.buf[k - 1]
  <2>0. 0 \in Cells(x) BY DEF Cells, Byte
  <2>1. /\ Content(x) \in Seq(Cells(x)) /\ Len(Content(x)) = x.len
        /\ \A k \in 1..x.len : Content(x)[k] = x.buf[k - 1]
    BY <1>1, ContentSeq
  <2>2. /\ e \in Seq(Cells(x)) /\ Len(e) = x.len
        /\ \A k \in 1..x.len : e[k] = IF k = n THEN 0 ELSE Content(x)[k]
    BY <2>0, <2>1, ExceptSeq
  <2> HIDE DEF e
  <2> QED BY <2>1, <2>2
<1> HIDE DEF e
<1>4. Content(z) = e
  <2>1. ASSUME NEW k \in 0..(z.len - 1) PROVE z.buf[k] = e[k + 1]
    <3>1. k + 1 \in 1..x.len /\ k \in 0..(x.block - 1) /\ (k + 1) - 1 = k /\ (k + 1 = n <=> k = n - 1)
      BY <1>1, <1>2
    <3> QED BY <1>2, <1>3, <3>1
  <2> QED BY <1>2, <1>3, <2>1, ContentIs
<1>5. S \in SUBSET Nat /\ n - 1 \in S
  BY <1>1, <1>2 DEF Described
<1>6. CLength(z) \in S /\ \A j \in S : CLength(z) <= j
  BY <1>5, SmallestIs DEF CLength
<1>7. PICK c : c = CLength(z) OBVIOUS
<1>8. c \in Nat /\ c < x.len /\ z.buf[c] = 0
  BY <1>1, <1>5, <1>6, <1>7
<1>9. e[c + 1] = 0 /\ \A k \in 1..c : e[k] # 0
  <2>1. \A k \in 1..x.len : e[k] = z.buf[k - 1]
    BY <1>1, <1>2, <1>4, ContentSeq
  <2>2. c + 1 \in 1..x.len /\ (c + 1) - 1 = c BY <1>1, <1>8
  <2>3. ASSUME NEW k \in 1..c PROVE e[k] # 0
    <3>1. k \in 1..x.len /\ k - 1 \in DOMAIN z.buf /\ ~(c <= k - 1)
      BY <1>1, <1>2, <1>8 DEF Described
    <3>2. k - 1 \notin S BY <1>6, <1>7, <3>1
    <3> QED BY <2>1, <3>1, <3>2
  <2> QED BY <1>8, <2>1, <2>2, <2>3
<1>10. Bytes!CString(e) = SubSeq(e, 1, c)
  BY <1>1, <1>3, <1>8, <1>9, CStringIs
<1>11. Content(sdssetlen(z, c)) = SubSeq(Content(z), 1, c)
  BY <1>1, <1>2, <1>8, ShorterContent
<1> QED BY <1>4, <1>7, <1>10, <1>11 DEF sdsupdatelen, z, e

\* sdstrim.
LEMMA TrimContent ==
  ASSUME NEW x, Described(x), NEW cset
  PROVE  Content(sdstrim(x, cset)) = Bytes!Trimmed(Content(x), cset \cup {0})
<1> DEFINE goes(k) == x.buf[k] \in cset \cup {0}
           S == {k \in 0..x.len : k < x.len => ~goes(k)}
           sp == Smallest(S)
           B == {k \in 0..(x.len - 1 - sp) : k < x.len - 1 - sp => ~goes(x.len - 1 - k)}
           back == Smallest(B)
           c == Content(x)
           kept == {k \in DOMAIN c : c[k] \notin cset \cup {0}}
<1>1. x.len \in Nat
  BY DEF Described
<1>2. kept = {k \in 1..x.len : ~goes(k - 1)}
  <2>1. DOMAIN c = 1..x.len /\ \A k \in 1..x.len : c[k] = x.buf[k - 1]
    BY ContentSeq
  <2> HIDE DEF c
  <2> QED BY <2>1
<1>3. Bytes!Trimmed(c, cset \cup {0}) = IF kept = {} THEN <<>>
                                        ELSE SubSeq(c, Bytes!Min(kept), Bytes!Max(kept))
  BY DEF Bytes!Trimmed
<1>4. sdstrim(x, cset) = IF sp = x.len THEN Keep(x, sp, 0) ELSE Keep(x, sp, x.len - sp - back)
  BY Zenon DEF sdstrim
<1> HIDE DEF goes, kept, c
<1>5. sp \in 0..x.len /\ (sp < x.len => ~goes(sp)) /\ \A j \in S : sp <= j
  <2>1. S \in SUBSET Nat /\ x.len \in S
    BY <1>1
  <2>2. sp \in S /\ \A j \in S : sp <= j
    BY <2>1, SmallestIs
  <2> QED BY <2>2
<1>6. \A k \in 0..(x.len - 1) : ~goes(k) => sp <= k
  BY <1>1, <1>5
<1>7. CASE sp = x.len
  <2>1. kept = {}
    <3>1. \A k \in 1..x.len : k - 1 \in 0..(x.len - 1) /\ ~(x.len <= k - 1) BY <1>1
    <3> QED BY <1>2, <1>6, <1>7, <3>1
  <2>2. Good(Keep(x, sp, 0), 0) BY <1>1, KeepGood
  <2>3. Content(Keep(x, sp, 0)) = <<>> BY <2>2, EmptyContent DEF Good
  <2> QED BY <1>3, <1>4, <1>7, <2>1, <2>3 DEF c
<1>8. CASE sp # x.len
  <2> HIDE DEF sp
  <2>1. sp \in Nat /\ sp < x.len /\ ~goes(sp) BY <1>1, <1>5, <1>8
  <2>2. B \in SUBSET Nat /\ x.len - 1 - sp \in B
    BY <1>1, <2>1
  <2>3. back \in B /\ \A j \in B : back <= j
    BY <2>2, SmallestIs
  <2>4. /\ back \in Nat /\ back <= x.len - 1 - sp
        /\ back < x.len - 1 - sp => ~goes(x.len - 1 - back)
    BY <1>1, <2>1, <2>3
  <2>5. PICK last : last = x.len - back OBVIOUS
  <2>6. last \in Nat /\ sp + 1 <= last /\ last <= x.len /\ sp + (x.len - sp - back) = last
        /\ x.len - sp - back \in Nat /\ last - 1 = x.len - 1 - back
    BY <1>1, <2>1, <2>4, <2>5
  <2>7. ~goes(last - 1)
    <3>1. CASE back < x.len - 1 - sp BY <2>4, <2>6, <3>1
    <3>2. CASE ~(back < x.len - 1 - sp)
      <4>1. last - 1 = sp BY <1>1, <2>1, <2>4, <2>5, <3>2
      <4> QED BY <2>1, <4>1
    <3> QED BY <3>1, <3>2
  <2>8. ASSUME NEW j \in kept PROVE j \in Nat /\ sp + 1 <= j /\ j <= last
    <3>1. j \in 1..x.len /\ ~goes(j - 1) BY <1>2
    <3>2. sp <= j - 1
      <4>1. j - 1 \in 0..(x.len - 1) BY <1>1, <3>1
      <4> QED BY <1>6, <3>1, <4>1
    <3>3. back <= x.len - j
      <4>1. x.len - j \in 0..(x.len - 1 - sp) /\ x.len - 1 - (x.len - j) = j - 1
        BY <1>1, <2>1, <3>1, <3>2
      <4>2. x.len - j \in B BY <3>1, <4>1
      <4> QED BY <2>3, <4>2
    <3> QED BY <1>1, <2>1, <2>4, <2>5, <3>1, <3>2, <3>3
  <2>9. kept \in SUBSET Int /\ sp + 1 \in kept /\ last \in kept
    <3>1. sp + 1 \in 1..x.len /\ (sp + 1) - 1 = sp /\ last \in 1..x.len
      BY <1>1, <2>1, <2>6
    <3>2. sp + 1 \in kept BY <1>2, <2>1, <3>1
    <3>3. last \in kept BY <1>2, <2>7, <3>1
    <3> QED BY <2>8, <3>2, <3>3
  <2>10. Bytes!Min(kept) = sp + 1 BY <2>8, <2>9, MinIs
  <2>11. Bytes!Max(kept) = last
    <3>1. \A j \in kept : last >= j BY <2>6, <2>8
    <3> QED BY <2>9, <3>1, MaxIs
  <2>12. PICK n : n = x.len - sp - back OBVIOUS
  <2>13. n \in Nat /\ sp + n = last /\ sp + n <= x.len BY <2>6, <2>12
  <2>14. Content(Keep(x, sp, n)) = SubSeq(c, sp + 1, last)
    BY <2>1, <2>13, KeepContent DEF c
  <2>15. sdstrim(x, cset) = Keep(x, sp, n)
    BY <1>4, <1>8, <2>12
  <2> QED BY <1>3, <2>9, <2>10, <2>11, <2>14, <2>15 DEF c
<1> QED BY <1>7, <1>8

\* A string without a NUL has none to remove.
LEMMA TrimmedWithoutNul ==
  ASSUME NEW x, NEW cset, \A k \in DOMAIN x : x[k] # 0
  PROVE  Bytes!Trimmed(x, cset \cup {0}) = Bytes!Trimmed(x, cset)
<1>1. {k \in DOMAIN x : x[k] \notin cset \cup {0}} = {k \in DOMAIN x : x[k] \notin cset}
  OBVIOUS
<1> QED BY <1>1 DEF Bytes!Trimmed

\* The end that sdsrange makes of one before the first character.
RangeEnd(n, end) == IF n + end < 0 THEN 0 ELSE end

\* sdsrange.
LEMMA RangeContent ==
  ASSUME NEW x, Good(x, x.len), NEW start \in Int, NEW end \in Int
  PROVE  Content(sdsrange(x, start, end)) =
           Bytes!Ranged(Content(x), start, RangeEnd(x.len, end))
<1> DEFINE place(n) == IF n >= 0 THEN n ELSE IF x.len + n < 0 THEN 0 ELSE x.len + n
           c == Content(x)
<1>1. x.len \in Nat /\ Described(x) BY DEF Good, Described
<1>2. Len(c) = x.len BY <1>1, ContentSeq
<1> HIDE DEF c
<1>3. ASSUME NEW n \in Int
      PROVE  /\ Bytes!Max({Bytes!Place(c, n), 0}) = place(n) /\ place(n) \in Nat
             /\ Bytes!Place(c, RangeEnd(x.len, n)) = place(n)
  <2>1. PICK q : q = Bytes!Place(c, n) OBVIOUS
  <2>2. q \in Int /\ q = IF n < 0 THEN x.len + n ELSE n
    BY <1>1, <1>2, <2>1 DEF Bytes!Place
  <2>3. CASE q < 0
    <3>1. place(n) = 0 BY <1>1, <2>2, <2>3
    <3>0. q \in Int /\ 0 \in Int /\ q <= 0 BY <1>1, <2>2, <2>3
    <3>2. Bytes!Max({q, 0}) = 0 /\ Bytes!Max({0, q}) = 0 BY <3>0, OfTwo
    <3>3. RangeEnd(x.len, n) = 0 BY <1>1, <2>2, <2>3 DEF RangeEnd
    <3>4. Bytes!Place(c, 0) = 0 BY DEF Bytes!Place
    <3> QED BY <2>1, <3>1, <3>2, <3>3, <3>4
  <2>4. CASE ~(q < 0)
    <3>1. place(n) = q /\ q \in Nat BY <1>1, <2>2, <2>4
    <3>0. q \in Int /\ 0 \in Int /\ 0 <= q BY <3>1
    <3>3. Bytes!Max({q, 0}) = q BY <3>0, OfTwo
    <3>4. RangeEnd(x.len, n) = n BY <1>1, <2>2, <2>4 DEF RangeEnd
    <3> QED BY <2>1, <3>1, <3>3, <3>4
  <2> QED BY <2>3, <2>4
<1>4. PICK from : from = place(start) OBVIOUS
<1>5. PICK to : to = place(end) OBVIOUS
<1>6. PICK last : last = IF to >= x.len THEN x.len - 1 ELSE to OBVIOUS
<1>7. sdsrange(x, start, end) = CASE x.len = 0 -> x
                                  [] x.len # 0 /\ (from > to \/ from >= x.len) -> Keep(x, 0, 0)
                                  [] OTHER -> Keep(x, from, last - from + 1)
  BY <1>4, <1>5, <1>6 DEF sdsrange
<1>8. /\ Bytes!Max({Bytes!Place(c, start), 0}) = from /\ from \in Nat
      /\ Bytes!Place(c, RangeEnd(x.len, end)) = to /\ to \in Nat
  BY <1>3, <1>4, <1>5
<1> HIDE DEF place
<1>9. Bytes!Min({to + 1, x.len}) = last + 1 /\ last \in Int /\ last <= to /\ last < x.len
  <2>1. last + 1 \in {to + 1, x.len} BY <1>1, <1>6, <1>8
  <2>2. last + 1 <= to + 1 /\ last + 1 <= x.len /\ last \in Int BY <1>1, <1>6, <1>8
  <2>3. Bytes!Min({to + 1, x.len}) = last + 1
    <3>1. PICK p : p = to + 1 OBVIOUS
    <3>2. PICK q : q = x.len OBVIOUS
    <3>3. /\ p \in Int /\ q \in Int /\ last + 1 <= p /\ last + 1 <= q /\ last \in Int
      BY <1>1, <1>8, <2>2, <3>1, <3>2
    <3>4. last + 1 = p \/ last + 1 = q BY <2>1, <3>1, <3>2
    <3>5. Bytes!Min({p, q}) = last + 1 BY <3>3, <3>4, OfTwo
    <3> QED BY <3>1, <3>2, <3>5
  <2> QED BY <1>1, <1>8, <2>2, <2>3
<1>10. Bytes!Ranged(c, start, RangeEnd(x.len, end)) = SubSeq(c, from + 1, last + 1)
  BY <1>2, <1>8, <1>9 DEF Bytes!Ranged
<1>11. CASE x.len = 0
  <2>1. Content(x) = <<>> BY <1>11, EmptyContent
  <2>2. last + 1 < from + 1 /\ last + 1 \in Int /\ from + 1 \in Int BY <1>1, <1>8, <1>9, <1>11
  <2>3. SubSeq(c, from + 1, last + 1) = <<>> BY <2>2, SubSeqEmpty
  <2> QED BY <1>7, <1>10, <1>11, <2>1, <2>3 DEF c
<1>12. CASE x.len # 0 /\ (from > to \/ from >= x.len)
  <2>1. Good(Keep(x, 0, 0), 0) BY <1>1, KeepGood
  <2>2. Content(Keep(x, 0, 0)) = <<>> BY <2>1, EmptyContent DEF Good
  <2>3. last + 1 < from + 1 /\ last + 1 \in Int /\ from + 1 \in Int BY <1>1, <1>8, <1>9, <1>12
  <2>4. SubSeq(c, from + 1, last + 1) = <<>> BY <2>3, SubSeqEmpty
  <2> QED BY <1>7, <1>10, <1>12, <2>2, <2>4 DEF c
<1>13. CASE x.len # 0 /\ ~(from > to \/ from >= x.len)
  <2>1. PICK n : n = last - from + 1 OBVIOUS
  <2>2. n \in Nat /\ from + n <= x.len /\ from + n = last + 1
    BY <1>1, <1>6, <1>8, <1>9, <1>13, <2>1
  <2>3. Content(Keep(x, from, n)) = SubSeq(c, from + 1, last + 1)
    BY <1>1, <1>8, <2>2, KeepContent DEF c
  <2>4. sdsrange(x, start, end) = Keep(x, from, n)
    BY <1>7, <1>13, <2>1
  <2> QED BY <1>10, <2>3, <2>4 DEF c
<1> QED BY <1>11, <1>12, <1>13

\* sdsmapchars, sdstolower and sdstoupper.
LEMMA MapContent ==
  ASSUME NEW x, Good(x, x.len), NEW from, NEW to
  PROVE  Content(sdsmapchars(x, from, to)) =
           [k \in DOMAIN Content(x) |-> IF Content(x)[k] = from THEN to ELSE Content(x)[k]]
<1> DEFINE b == [k \in DOMAIN x.buf |-> IF k < x.len /\ x.buf[k] = from THEN to ELSE x.buf[k]]
           y == sdsmapchars(x, from, to)
<1>1. Described(x) /\ x.len \in Nat /\ \A k \in 1..x.len : k - 1 \in DOMAIN x.buf /\ k - 1 < x.len
  BY DEF Good, Described, sdsalloc
<1>2. y = [x EXCEPT !.buf = b]
  BY Zenon DEF sdsmapchars
<1>3. \A k \in 1..x.len : b[k - 1] = IF x.buf[k - 1] = from THEN to ELSE x.buf[k - 1]
  BY <1>1
<1> HIDE DEF b
<1>4. y.len = x.len /\ y.buf = b
  BY <1>1, <1>2, ExceptBuf
<1> HIDE DEF y
<1>5. Content(y) = [k \in 1..x.len |-> IF x.buf[k - 1] = from THEN to ELSE x.buf[k - 1]]
  BY <1>3, <1>4 DEF Content
<1>6. DOMAIN Content(x) = 1..x.len /\ \A k \in 1..x.len : Content(x)[k] = x.buf[k - 1]
  BY <1>1, ContentSeq
<1> QED BY <1>5, <1>6 DEF y

(***************************************************************************)
(* The calls.                                                              *)
(***************************************************************************)

\* What the abstract specification says of each kind of call.
LEMMA ResultSet == ASSUME NEW c, NEW x, c.op \in {"new", "copy"}
                   PROVE  Bytes!Result(c, x) = c.t
  BY DEF Bytes!Result

LEMMA ResultCat == ASSUME NEW c, NEW x, c.op = "cat"
                   PROVE  Bytes!Result(c, x) = x \o c.t
  BY DEF Bytes!Result

LEMMA ResultGrow == ASSUME NEW c, NEW x, c.op = "grow"
                    PROVE  Bytes!Result(c, x) = x \o Bytes!Zeros(c.n - Len(x))
  BY DEF Bytes!Result

LEMMA ResultUpdate == ASSUME NEW c, NEW x, c.op = "update"
                      PROVE  Bytes!Result(c, x) = Bytes!CString([x EXCEPT ![c.n] = 0])
  BY DEF Bytes!Result

LEMMA ResultCut == ASSUME NEW c, NEW x, c.op = "cut"
                   PROVE  Bytes!Result(c, x) = SubSeq(x, 1, Len(x) - c.n)
  BY DEF Bytes!Result

LEMMA ResultTrim == ASSUME NEW c, NEW x, c.op = "trim"
                    PROVE  Bytes!Result(c, x) = Bytes!Trimmed(x, c.t)
  BY DEF Bytes!Result

LEMMA ResultRange == ASSUME NEW c, NEW x, c.op = "range"
                     PROVE  Bytes!Result(c, x) = Bytes!Ranged(x, c.n, c.m)
  BY DEF Bytes!Result

LEMMA ResultMap == ASSUME NEW c, NEW x, c.op = "map"
                   PROVE  Bytes!Result(c, x) =
                            [k \in DOMAIN x |-> IF x[k] = c.n THEN c.m ELSE x[k]]
  BY DEF Bytes!Result

LEMMA ResultEmpty == ASSUME NEW c, NEW x, c.op \in {"clear", "free"}
                     PROVE  Bytes!Result(c, x) = <<>>
  BY DEF Bytes!Result

LEMMA ResultSame ==
  ASSUME NEW c, NEW x, c.op \in {"dup", "room", "shrink", "begun", "end", "failed"}
  PROVE  Bytes!Result(c, x) = x
  BY DEF Bytes!Result

\* A failed call, and one that has only begun, changes no byte.
LEMMA NoEffect ==
  ASSUME s' = s, call' \in {Failed, Begun}
  PROVE  Bytes!Next
<1>1. call'.op \in {"begun", "failed"} BY DEF Failed, Begun
<1>2. Bytes!Result(call', Content(s)) = Content(s) BY <1>1, ResultSame
<1> QED BY <1>2 DEF Bytes!Next, Content

\* A call that returns the right bytes is a step of the abstract
\* specification, and so is its failure.
LEMMA ReturnsBytes ==
  ASSUME NEW c, NEW x, NEW a, Returns(c, x, a), Described(x),
         Content(x) = Bytes!Result(c, Content(s))
  PROVE  Bytes!Next
<1>1. CASE s' = Forget(x) /\ call' = c
  <2>1. Content(Forget(x)) = Content(x) BY ForgetContent
  <2>2. Content(s)' = Content(s') BY DEF Content
  <2> QED BY <1>1, <2>1, <2>2 DEF Bytes!Next
<1>2. CASE s' = s /\ call' = Failed
  BY <1>2, NoEffect
<1> QED BY <1>1, <1>2 DEF Returns

\* The strings that are made anew, and the one that is freed.
LEMMA NewSteps ==
  ASSUME new \/ new_zero \/ sdsfree
  PROVE  Bytes!Next
<1>1. ASSUME NEW t \in Seq(Byte), Len(t) <= MaxLen, s' = sdsnewlen(t),
             call' = [op |-> "new", t |-> t]
      PROVE  Bytes!Next
  <2>1. Content(s') = t BY <1>1, NewContent
  <2>2. call'.op = "new" /\ call'.t = t BY <1>1
  <2>3. Bytes!Result(call', Content(s)) = t BY <2>2, ResultSet
  <2> QED BY <2>1, <2>3 DEF Bytes!Next, Content
<1>2. CASE new
  <2>1. PICK t \in Args : /\ Fits(Len(t))
                          /\ \/ s' = sdsnewlen(t) /\ call' = [op |-> "new", t |-> t]
                             \/ call' = Failed /\ s' = s
    BY <1>2 DEF new
  <2> QED BY <1>1, <2>1, ArgLen, NoEffect DEF Fits
<1>3. CASE new_zero
  <2>1. PICK n \in 0..MaxLen :
          LET t == [k \in 1..n |-> 0]
          IN \/ s' = sdsnewlen(t) /\ call' = [op |-> "new", t |-> t]
             \/ call' = Failed /\ s' = s
    BY <1>3 DEF new_zero
  <2> DEFINE t == [k \in 1..n |-> 0]
  <2>2. t \in Seq(Byte) /\ Len(t) <= MaxLen
    <3>1. 0 \in Byte /\ n \in Nat /\ n <= MaxLen BY SizeAssumption DEF Byte
    <3>2. t \in [1..n -> Byte] BY <3>1
    <3> HIDE DEF t
    <3> QED BY <3>1, <3>2
  <2>3. (s' = sdsnewlen(t) /\ call' = [op |-> "new", t |-> t]) \/ (call' = Failed /\ s' = s)
    BY <2>1
  <2> HIDE DEF t
  <2> QED BY <1>1, <2>2, <2>3, NoEffect
<1>4. CASE sdsfree
  <2>1. s'.len = 0 /\ call'.op = "free" BY <1>4 DEF sdsfree, NoString
  <2>2. Content(s') = <<>> BY <2>1, EmptyContent
  <2>3. Bytes!Result(call', Content(s)) = <<>> BY <2>1, ResultEmpty
  <2> QED BY <2>2, <2>3 DEF Bytes!Next, Content
<1> QED BY <1>2, <1>3, <1>4

\* The two that do not always do what the comments say.
LEMMA TrimStep ==
  ASSUME IInv, trim
  PROVE  Bytes!Next \/ TrimsNul
<1>1. PICK t \in Args :
        /\ \A k \in DOMAIN t : t[k] # 0
        /\ Returns([op |-> "trim", t |-> {t[k] : k \in DOMAIN t}],
                   sdstrim(s, {t[k] : k \in DOMAIN t}), FALSE)
  BY DEF trim
<1>2. PICK cset : cset = {t[k] : k \in DOMAIN t} OBVIOUS
<1>3. PICK c : c = [op |-> "trim", t |-> cset] OBVIOUS
<1>4. c.op = "trim" /\ c.t = cset /\ 0 \notin cset BY <1>1, <1>2, <1>3
<1>5. Returns(c, sdstrim(s, cset), FALSE) /\ ptr = "live" BY <1>1, <1>2, <1>3 DEF Returns
<1>6. Good(s, s.len) /\ Described(s) BY <1>5, LiveGood
<1>7. Described(sdstrim(s, cset)) BY <1>6, TrimGood DEF Good
<1>8. Content(sdstrim(s, cset)) = Bytes!Trimmed(Content(s), cset \cup {0}) BY <1>6, TrimContent
<1>9. Bytes!Result(c, Content(s)) = Bytes!Trimmed(Content(s), cset)
  BY <1>4, ResultTrim
<1>10. CASE \A k \in DOMAIN Content(s) : Content(s)[k] # 0
  <2>1. Content(sdstrim(s, cset)) = Bytes!Result(c, Content(s))
    BY <1>8, <1>9, <1>10, TrimmedWithoutNul
  <2> QED BY <1>5, <1>7, <2>1, ReturnsBytes
<1>11. CASE \E k \in DOMAIN Content(s) : Content(s)[k] = 0
  <2>1. s' = Forget(sdstrim(s, cset)) /\ call' = c BY <1>5 DEF Returns
  <2>2. Content(Forget(sdstrim(s, cset))) = Content(sdstrim(s, cset)) BY <1>7, ForgetContent
  <2>3. Content(s)' = Content(s') BY DEF Content
  <2>4. Content(s)' = Bytes!Trimmed(Content(s), cset \cup {0}) BY <1>8, <2>1, <2>2, <2>3
  <2> QED BY <1>4, <1>11, <2>1, <2>4 DEF TrimsNul
<1> QED BY <1>10, <1>11

LEMMA RangeStep ==
  ASSUME IInv, range
  PROVE  Bytes!Next \/ KeepsFirst
<1>1. PICK n, m \in Indices :
        Returns([op |-> "range", n |-> n, m |-> m], sdsrange(s, n, m), FALSE)
  BY DEF range
<1>2. n \in Int /\ m \in Int BY ArgsAssumption
<1>3. PICK c : c = [op |-> "range", n |-> n, m |-> m] OBVIOUS
<1>4. c.op = "range" /\ c.n = n /\ c.m = m BY <1>3
<1>5. Returns(c, sdsrange(s, n, m), FALSE) /\ ptr = "live" BY <1>1, <1>3 DEF Returns
<1>6. Good(s, s.len) /\ Described(s) /\ s.len \in Nat BY <1>5, LiveGood
<1>7. Len(Content(s)) = s.len BY <1>6, ContentSeq
<1>8. Described(sdsrange(s, n, m)) BY <1>2, <1>6, RangeGood DEF Good
<1>9. Content(sdsrange(s, n, m)) = Bytes!Ranged(Content(s), n, RangeEnd(s.len, m))
  BY <1>2, <1>6, RangeContent
<1>10. Bytes!Result(c, Content(s)) = Bytes!Ranged(Content(s), n, m)
  BY <1>4, ResultRange
<1>11. CASE ~(s.len + m < 0)
  <2>1. RangeEnd(s.len, m) = m BY <1>11 DEF RangeEnd
  <2> QED BY <1>5, <1>8, <1>9, <1>10, <2>1, ReturnsBytes
<1>12. CASE s.len + m < 0
  <2>1. RangeEnd(s.len, m) = 0 BY <1>12 DEF RangeEnd
  <2>2. s' = Forget(sdsrange(s, n, m)) /\ call' = c BY <1>5 DEF Returns
  <2>3. Content(Forget(sdsrange(s, n, m))) = Content(sdsrange(s, n, m)) BY <1>8, ForgetContent
  <2>4. Content(s)' = Content(s') BY DEF Content
  <2>5. Content(s)' = Bytes!Ranged(Content(s), n, 0) BY <1>9, <2>1, <2>2, <2>3, <2>4
  <2> QED BY <1>4, <1>7, <1>12, <2>2, <2>5 DEF KeepsFirst
<1> QED BY <1>11, <1>12

\* The other calls that leave the length, or shorten it.
LEMMA ShortCallSteps ==
  ASSUME IInv, dup \/ removefree \/ decrlen \/ updatelen \/ clear \/ mapchars
  PROVE  Bytes!Next
<1>1. ptr = "live"
  BY DEF dup, removefree, decrlen, updatelen, clear, mapchars, Returns
<1>2. Good(s, s.len) /\ Described(s) /\ s.len <= MaxLen /\ s.len \in Nat
  BY <1>1, LiveGood
<1>3. Content(s) \in Seq(Cells(s)) /\ Len(Content(s)) = s.len
  BY <1>2, ContentSeq
<1>4. CASE dup
  <2>1. Described(sdsnewlen(Content(s))) BY <1>2, <1>3, NewGood DEF Good
  <2>2. Content(sdsnewlen(Content(s))) = Content(s) BY <1>2, <1>3, NewContent
  <2>3. Bytes!Result([op |-> "dup"], Content(s)) = Content(s) BY ResultSame
  <2> QED BY <1>4, <2>1, <2>2, <2>3, ReturnsBytes DEF dup
<1>5. CASE removefree
  <2>1. Described(sdsRemoveFreeSpace(s)) BY <1>2, RemoveFreeGood DEF Good
  <2>2. Content(sdsRemoveFreeSpace(s)) = Content(s) BY <1>2, RemoveFreeContent
  <2>3. Bytes!Result([op |-> "shrink"], Content(s)) = Content(s) BY ResultSame
  <2> QED BY <1>5, <2>1, <2>2, <2>3, ReturnsBytes DEF removefree
<1>6. CASE decrlen
  <2>1. PICK n \in 1..s.len : Returns([op |-> "cut", n |-> n], sdsIncrLen(s, -n), FALSE)
    BY <1>6 DEF decrlen
  <2>2. -n \in Int /\ s.len + (-n) \in Nat /\ s.len + (-n) <= sdsalloc(s)
    BY <1>2 DEF Described, sdsalloc
  <2>3. Described(sdsIncrLen(s, -n)) BY <1>2, <2>2, IncrGood DEF Good
  <2>4. Content(sdsIncrLen(s, -n)) = SubSeq(Content(s), 1, s.len - n) BY <1>2, CutContent
  <2>5. Bytes!Result([op |-> "cut", n |-> n], Content(s)) = SubSeq(Content(s), 1, s.len - n)
    BY <1>3, ResultCut
  <2> QED BY <2>1, <2>3, <2>4, <2>5, ReturnsBytes
<1>7. CASE updatelen
  <2>1. PICK n \in 1..s.len : Returns([op |-> "update", n |-> n], sdsupdatelen(PutNul(s, n - 1)), FALSE)
    BY <1>7 DEF updatelen
  <2>2. Described(sdsupdatelen(PutNul(s, n - 1))) BY <1>2, UpdateGood DEF Good
  <2>3. Content(sdsupdatelen(PutNul(s, n - 1))) = Bytes!CString([Content(s) EXCEPT ![n] = 0])
    BY <1>2, UpdateContent
  <2>4. Bytes!Result([op |-> "update", n |-> n], Content(s)) =
          Bytes!CString([Content(s) EXCEPT ![n] = 0])
    BY ResultUpdate
  <2> QED BY <2>1, <2>2, <2>3, <2>4, ReturnsBytes
<1>8. CASE clear
  <2>1. Good(sdsclear(s), 0) BY <1>2, ClearGood
  <2>2. Content(sdsclear(s)) = <<>> BY <2>1, EmptyContent DEF Good
  <2>3. Bytes!Result([op |-> "clear"], Content(s)) = <<>> BY ResultEmpty
  <2> QED BY <1>8, <2>1, <2>2, <2>3, ReturnsBytes DEF clear, Good
<1>9. CASE mapchars
  <2>1. PICK n, m \in Letters :
          Returns([op |-> "map", n |-> n, m |-> m], sdsmapchars(s, n, m), FALSE)
    BY <1>9 DEF mapchars
  <2>2. Described(sdsmapchars(s, n, m)) BY <1>2, MapGood DEF Good
  <2> DEFINE u == [k \in DOMAIN Content(s) |-> IF Content(s)[k] = n THEN m ELSE Content(s)[k]]
             c == [op |-> "map", n |-> n, m |-> m]
  <2>3. Content(sdsmapchars(s, n, m)) = u BY <1>2, MapContent
  <2>4. c.op = "map" /\ c.n = n /\ c.m = m OBVIOUS
  <2> HIDE DEF c
  <2>5. Bytes!Result(c, Content(s)) = u BY <2>4, ResultMap
  <2> HIDE DEF u
  <2> QED BY <2>1, <2>2, <2>3, <2>5, ReturnsBytes DEF c
<1> QED BY <1>4, <1>5, <1>6, <1>7, <1>8, <1>9

\* The calls that may lengthen the string or its block.
LEMMA LongCallSteps ==
  ASSUME IInv, cat \/ copy \/ growzero \/ makeroom \/ incrlen
  PROVE  Bytes!Next
<1>1. ptr = "live"
  BY DEF cat, copy, growzero, makeroom, incrlen, Returns
<1>2. Good(s, s.len) /\ Described(s) /\ s.len <= MaxLen /\ s.len \in Nat
  BY <1>1, LiveGood
<1>3. Len(Content(s)) = s.len
  BY <1>2, ContentSeq
<1>4. CASE cat
  <2>1. PICK t \in Args :
          /\ Fits(s.len + Len(t))
          /\ Returns([op |-> "cat", t |-> t], sdscatlen(s, t), sdsavail(s) < Len(t))
    BY <1>4 DEF cat
  <2>2. t \in Seq(Byte) /\ Len(t) \in Nat /\ s.len + Len(t) <= MaxLen
    BY <2>1, ArgLen DEF Fits
  <2>3. Described(sdscatlen(s, t)) BY <1>2, <2>2, CatGood DEF Good
  <2>4. Content(sdscatlen(s, t)) = Content(s) \o t BY <1>2, <2>2, CatContent
  <2>5. Bytes!Result([op |-> "cat", t |-> t], Content(s)) = Content(s) \o t BY ResultCat
  <2> QED BY <2>1, <2>3, <2>4, <2>5, ReturnsBytes
<1>5. CASE copy
  <2>1. PICK t \in Args :
          /\ Fits(Len(t))
          /\ Returns([op |-> "copy", t |-> t], sdscpylen(s, t), sdsalloc(s) < Len(t))
    BY <1>5 DEF copy
  <2>2. t \in Seq(Byte) /\ Len(t) \in Nat /\ Len(t) <= MaxLen
    BY <2>1, ArgLen DEF Fits
  <2>3. Described(sdscpylen(s, t)) BY <1>2, <2>2, CopyGood DEF Good
  <2>4. Content(sdscpylen(s, t)) = t BY <1>2, <2>2, CopyContent
  <2>5. Bytes!Result([op |-> "copy", t |-> t], Content(s)) = t BY ResultSet
  <2> QED BY <2>1, <2>3, <2>4, <2>5, ReturnsBytes
<1>6. CASE growzero
  <2>1. PICK n \in 0..MaxLen :
          Returns([op |-> "grow", n |-> n], sdsgrowzero(s, n), sdsavail(s) < n - s.len)
    BY <1>6 DEF growzero
  <2>2. n \in Nat /\ n <= MaxLen BY SizeAssumption
  <2>3. Described(sdsgrowzero(s, n)) BY <1>2, <2>2, GrowGood DEF Good
  <2>4. Content(sdsgrowzero(s, n)) = Content(s) \o Bytes!Zeros(n - s.len)
    BY <1>2, <2>2, GrowContent
  <2>5. Bytes!Result([op |-> "grow", n |-> n], Content(s)) = Content(s) \o Bytes!Zeros(n - s.len)
    <3>1. PICK c : c = [op |-> "grow", n |-> n] OBVIOUS
    <3>2. c.op = "grow" /\ c.n = n BY <3>1
    <3>3. Bytes!Result(c, Content(s)) = Content(s) \o Bytes!Zeros(c.n - Len(Content(s)))
      BY <3>2, ResultGrow
    <3> QED BY <1>3, <3>1, <3>2, <3>3
  <2> QED BY <2>1, <2>3, <2>4, <2>5, ReturnsBytes
<1>7. CASE makeroom
  <2>1. PICK n \in 0..MaxLen :
          /\ Fits(s.len + n)
          /\ Returns([op |-> "room", n |-> n], sdsMakeRoomFor(s, n), sdsavail(s) < n)
    BY <1>7 DEF makeroom
  <2>2. n \in Nat /\ s.len + n <= MaxLen + 1 BY <1>2, <2>1, SizeAssumption DEF Fits
  <2>3. Described(sdsMakeRoomFor(s, n)) BY <1>2, <2>2, RoomDescribed
  <2>4. Content(sdsMakeRoomFor(s, n)) = Content(s) BY <1>2, <2>2, RoomContent
  <2>5. Bytes!Result([op |-> "room", n |-> n], Content(s)) = Content(s) BY ResultSame
  <2> QED BY <2>1, <2>3, <2>4, <2>5, ReturnsBytes
<1>8. CASE incrlen
  <2>1. PICK t \in Args :
          /\ Len(t) \in 1..sdsavail(s)
          /\ Returns([op |-> "cat", t |-> t], sdsIncrLen(Put(s, s.len, t), Len(t)), FALSE)
    BY <1>8 DEF incrlen
  <2> DEFINE y == Put(s, s.len, t)
  <2>2. t \in Seq(Byte) /\ Len(t) \in Nat /\ s.len + Len(t) <= sdsalloc(s)
        /\ s.len + Len(t) <= s.block /\ s.len + Len(t) \in Nat
    BY <1>2, <2>1, ArgLen DEF Described, sdsavail, sdsalloc
  <2>3. Described(y) /\ y.len = s.len /\ sdsalloc(y) = sdsalloc(s)
    BY <1>2, <2>2, PutDescribed
  <2> HIDE DEF y
  <2>4. Described(sdsIncrLen(y, Len(t)))
    BY <1>2, <2>2, <2>3, IncrGood DEF Good
  <2>5. Content(sdsIncrLen(y, Len(t))) = Content(s) \o t
    BY <1>2, <2>2, IncrContent DEF y
  <2>6. Bytes!Result([op |-> "cat", t |-> t], Content(s)) = Content(s) \o t BY ResultCat
  <2>7. Returns([op |-> "cat", t |-> t], sdsIncrLen(y, Len(t)), FALSE) BY <2>1 DEF y
  <2> QED BY <2>4, <2>5, <2>6, <2>7, ReturnsBytes
<1> QED BY <1>4, <1>5, <1>6, <1>7, <1>8

\* sdscatvprintf appends the whole text, in one step after any number of
\* tries; the retries are stuttering steps.
LEMMA PrintfSteps ==
  ASSUME IInv, catvprintf \/ printf_retry \/ printf_cat
  PROVE  Bytes!Next \/ UNCHANGED <<Content(s), call>>
<1>1. CASE catvprintf
  BY <1>1, NoEffect DEF catvprintf
<1>2. CASE printf_retry
  <2>1. CASE call' = Failed /\ s' = s BY <2>1, NoEffect
  <2>2. CASE call' = call /\ s' = s BY <2>2 DEF Content
  <2> QED BY <1>2, <2>1, <2>2 DEF printf_retry
<1>3. CASE printf_cat
  <2> DEFINE t == vsnprintf(fmt[1], i)
  <2>1. /\ ptr = "printf" /\ Len(t) <= i - 2
        /\ \/ s' = Forget(sdscatlen(s, t)) /\ call' = [op |-> "cat", t |-> fmt[1]]
           \/ s' = s /\ call' = Failed
    BY <1>3 DEF printf_cat
  <2>2. Described(s) /\ s.len \in Nat BY <2>1, LiveGood
  <2>3. fmt[1] \in Seq(Byte) /\ s.len + Len(fmt[1]) <= MaxLen /\ i \in Nat \ {0, 1}
    BY <2>1 DEF IInv, Present, PrintfFits
  <2>4. PICK u : u = fmt[1] OBVIOUS
  <2>5. t = u
    <3>1. u \in Seq(Byte) /\ Len(u) \in Nat BY <2>3, <2>4
    <3>2. t = SubSeq(u, 1, IF Len(u) < i THEN Len(u) ELSE i - 1) BY <2>4 DEF vsnprintf
    <3>3. CASE Len(u) < i
      BY <3>1, <3>2, <3>3, SubSeqFull
    <3>4. CASE ~(Len(u) < i)
      <4>1. \A k \in 1..(i - 1) : u[k] \in Byte BY <2>3, <3>1, <3>4
      <4>2. Len(SubSeq(u, 1, i - 1)) = IF 1 <= i - 1 THEN i - 1 - 1 + 1 ELSE 0
        BY <2>3, <4>1, SubSeqProperties
      <4>3. Len(t) = i - 1 BY <2>3, <3>2, <3>4, <4>2
      <4> QED BY <2>1, <2>3, <4>3
    <3> QED BY <3>3, <3>4
  <2> HIDE DEF t
  <2>6. u \in Seq(Byte) /\ Len(u) \in Nat /\ s.len + Len(u) <= MaxLen BY <2>3, <2>4
  <2>7. Described(sdscatlen(s, u)) BY <2>2, <2>6, CatGood DEF Good
  <2>8. Content(Forget(sdscatlen(s, u))) = Content(s) \o u
    BY <2>2, <2>6, <2>7, CatContent, ForgetContent
  <2>9. CASE s' = Forget(sdscatlen(s, u)) /\ call' = [op |-> "cat", t |-> u]
    <3>1. Bytes!Result(call', Content(s)) = Content(s) \o u BY <2>9, ResultCat
    <3>2. Content(s)' = Content(s') BY DEF Content
    <3> QED BY <2>8, <2>9, <3>1, <3>2 DEF Bytes!Next
  <2>10. CASE s' = s /\ call' = Failed BY <2>10, NoEffect
  <2> QED BY <2>1, <2>4, <2>5, <2>9, <2>10
<1> QED BY <1>1, <1>2, <1>3

\* sdscatfmt appends piece by piece.
LEMMA CatfmtSteps ==
  ASSUME IInv, catfmt \/ catfmt_piece \/ catfmt_end
  PROVE  Bytes!Next
<1>1. Described(s) /\ s.len <= MaxLen /\ s.len \in Nat
  BY DEF catfmt, catfmt_piece, catfmt_end, IInv, Present, Described
<1>2. CASE catfmt
  BY <1>2, NoEffect DEF catfmt
<1>3. CASE catfmt_piece
  <2> DEFINE t == Head(fmt)
             y == sdsinclen(Put(catfmt_room(s, Len(t)), s.len, t), Len(t))
  <2>1. /\ ptr = "catfmt" /\ fmt # <<>> /\ i = s.len /\ fmt \in Seq(Seq(Byte))
        /\ \/ Len(fmt) = 1 /\ s.len + Len(fmt[1]) <= MaxLen
           \/ Len(fmt) = 2 /\ s.len + Len(fmt[1]) + Len(fmt[2]) <= MaxLen
    BY <1>3 DEF catfmt_piece, IInv, Present, CatfmtFits
  <2>2. /\ \/ s' = y /\ call' = [op |-> "cat", t |-> t]
           \/ s' = s /\ call' = Failed
    BY <1>3, <2>1 DEF catfmt_piece
  <2>3. t = fmt[1] /\ t \in Seq(Byte) /\ Len(t) \in Nat
    <3>1. t = fmt[1] /\ t \in Seq(Byte) BY <2>1
    <3> QED BY <3>1, LenProperties
  <2>4. s.len + Len(t) <= MaxLen
    <3>1. CASE Len(fmt) = 1 BY <2>1, <2>3, <3>1
    <3>2. CASE Len(fmt) = 2
      <4>1. 2 \in 1..Len(fmt) BY <3>2
      <4>2. fmt[2] \in Seq(Byte) BY <2>1, <4>1, ElementOfSeq
      <4>3. Len(fmt[2]) \in Nat BY <4>2, LenProperties
      <4>4. s.len + Len(t) + Len(fmt[2]) <= MaxLen BY <2>1, <2>3, <3>2
      <4> QED BY <1>1, <2>3, <4>3, <4>4, SizeAssumption
    <3> QED BY <2>1, <3>1, <3>2
  <2> HIDE DEF t
  <2>5. Content(y) = Content(s) \o t BY <1>1, <2>3, <2>4, PieceContent
  <2> HIDE DEF y
  <2>6. CASE s' = y /\ call' = [op |-> "cat", t |-> t]
    <3>1. Bytes!Result(call', Content(s)) = Content(s) \o t BY <2>6, ResultCat
    <3>2. Content(s)' = Content(s') BY DEF Content
    <3> QED BY <2>5, <2>6, <3>1, <3>2 DEF Bytes!Next
  <2>7. CASE s' = s /\ call' = Failed BY <2>7, NoEffect
  <2> QED BY <2>2, <2>6, <2>7
<1>4. CASE catfmt_end
  <2>1. s' = Forget(PutNul(s, s.len)) /\ call'.op = "end"
    BY <1>4 DEF catfmt_end, IInv, Present, CatfmtFits
  <2>2. s.len < s.block /\ s.block \in Nat
    BY <1>1 DEF Described, sdsalloc
  <2> DEFINE y == PutNul(s, s.len)
  <2>3. Described(y) /\ y.len = s.len /\ \A k \in 0..(s.block - 1) : k # s.len => y.buf[k] = s.buf[k]
    BY <1>1, <2>2, PutNulDescribed, PutNulBytes
  <2> HIDE DEF y
  <2>4. \A k \in 0..(s.len - 1) : y.buf[k] = s.buf[k]
    <3>1. \A k \in 0..(s.len - 1) : k \in 0..(s.block - 1) /\ k # s.len BY <1>1, <2>2
    <3> QED BY <2>3, <3>1
  <2>5. Content(y) = Content(s) BY <1>1, <2>3, <2>4, ContentSame
  <2>6. Content(Forget(y)) = Content(s) BY <2>3, <2>5, ForgetContent
  <2>7. Bytes!Result(call', Content(s)) = Content(s) BY <2>1, ResultSame
  <2>8. Content(s)' = Content(s') BY DEF Content
  <2> QED BY <2>1, <2>6, <2>7, <2>8 DEF Bytes!Next, y
<1> QED BY <1>2, <1>3, <1>4

\* Every call of util/sds.c, successful or not, does to the bytes of the
\* string what its comment says, whatever header types and blocks the string
\* passes through, with two exceptions: sdstrim removes NUL bytes with those
\* of its cset, and sdsrange takes an end before the string for its first
\* character.
THEOREM SdsImplementsByteString == Spec => ImplementsByteString
<1>1. Init => Bytes!Init
  <2>1. Init => s.len = 0 BY DEF Init, NoString
  <2> QED BY <2>1, EmptyContent DEF Bytes!Init
<1>2. IInv /\ [Next]_vars => [Bytes!Next \/ TrimsNul \/ KeepsFirst]_<<Content(s), call>>
  <2> SUFFICES ASSUME IInv, [Next]_vars
               PROVE  \/ Bytes!Next \/ TrimsNul \/ KeepsFirst
                      \/ UNCHANGED <<Content(s), call>>
    OBVIOUS
  <2>1. CASE UNCHANGED vars BY <2>1 DEF vars, Content
  <2> QED
    BY <2>1, NewSteps, TrimStep, RangeStep, ShortCallSteps, LongCallSteps, PrintfSteps,
       CatfmtSteps DEF Next
<1> QED BY <1>1, <1>2, Invariant, PTL DEF Spec, ImplementsByteString
=============================================================================
