----------------------------- MODULE RpcProofs ------------------------------
(***************************************************************************)
(* Theorems about Rpc, for every set of calls, of call sites and of        *)
(* results whose values have the types they are declared with.             *)
(*                                                                         *)
(* First the bytes.  What Put writes into a buffer, Get takes out again    *)
(* (PutGet); and what Get takes out of any bytes, Put would have written   *)
(* (GetPut), but for a map, of which Get drops pairs with the same key.    *)
(* PutAll and GetAll do it for the one or two arguments of a method        *)
(* (ArgsBack, ArgsBytes).  The header lies in front of the arguments and   *)
(* is read as it was written (Header).                                     *)
(*                                                                         *)
(* Then the calls.  The invariant RpcInv says that at most one message of  *)
(* each number is under way, that it is the request of its call or the     *)
(* answer to it, and how a call has ended.                                 *)
(***************************************************************************)
EXTENDS Rpc, Counting, SequenceTheorems

-----------------------------------------------------------------------------
(* Numbers as bytes. *)

\* Division with remainder.
LEMMA DivMod ==
    ASSUME NEW n \in Nat, NEW B \in Nat, B >= 2
    PROVE  /\ n \div B \in Nat /\ n % B \in 0 .. B - 1
           /\ n = (n \div B) * B + (n % B)
  OBVIOUS

\* Quotient and remainder are unique.
LEMMA DivModUnique ==
    ASSUME NEW B \in Nat, B >= 2, NEW q \in Nat, NEW r \in 0 .. B - 1
    PROVE  (q * B + r) \div B = q /\ (q * B + r) % B = r
  OBVIOUS

\* A factor that both sides have can be dropped.
LEMMA LessByFactor ==
    ASSUME NEW B \in Nat, B >= 2, NEW q \in Nat, NEW r \in Nat, NEW m \in Nat, q * B + r < m * B
    PROVE  q < m
  OBVIOUS

\* Four bytes as a number.
Value(a, b, c, d) == ((a * BYTE + b) * BYTE + c) * BYTE + d

\* The range of a byte and of a word.
LEMMA WordFacts == BYTE \in Nat /\ BYTE >= 2 /\ WORD \in Nat /\ WORD >= 16
<1>1. BYTE \in Nat /\ BYTE >= 2
  BY ByteAssumption
<1>2. BYTE * BYTE \in Nat /\ BYTE * BYTE >= 4
  BY <1>1
<1>3. BYTE * BYTE * BYTE \in Nat /\ BYTE * BYTE * BYTE >= 8
  BY <1>1, <1>2
<1> QED
  BY <1>1, <1>3 DEF WORD

\* pack writes bytes that are the digits of its number.
LEMMA PackFacts ==
    ASSUME NEW n \in Words
    PROVE  /\ pack(n) = <<pack(n)[1], pack(n)[2], pack(n)[3], pack(n)[4]>>
           /\ pack(n)[1] \in Byte /\ pack(n)[2] \in Byte /\ pack(n)[3] \in Byte /\ pack(n)[4] \in Byte
           /\ Value(pack(n)[1], pack(n)[2], pack(n)[3], pack(n)[4]) = n
<1> DEFINE n1 == n \div BYTE
           n2 == n1 \div BYTE
           n3 == n2 \div BYTE
<1>1. BYTE \in Nat /\ BYTE >= 2 /\ n \in Nat /\ n < WORD
  BY WordFacts DEF Words
<1>2. n1 \in Nat /\ n % BYTE \in Byte /\ n = n1 * BYTE + (n % BYTE)
  BY <1>1, DivMod DEF Byte
<1>3. n2 \in Nat /\ n1 % BYTE \in Byte /\ n1 = n2 * BYTE + (n1 % BYTE)
  BY <1>1, <1>2, DivMod DEF Byte
<1>4. n3 \in Nat /\ n2 % BYTE \in Byte /\ n2 = n3 * BYTE + (n2 % BYTE)
  BY <1>1, <1>3, DivMod DEF Byte
<1>5. n3 % BYTE = n3
  <2>0. BYTE * BYTE \in Nat /\ BYTE * BYTE * BYTE \in Nat
    BY <1>1
  <2>1. n1 < BYTE * BYTE * BYTE
    BY <1>1, <1>2, <2>0, LessByFactor DEF WORD, Byte
  <2>2. n2 < BYTE * BYTE
    BY <1>1, <1>3, <2>0, <2>1, LessByFactor DEF Byte
  <2>3. n3 < BYTE
    BY <1>1, <1>4, <2>0, <2>2, LessByFactor DEF Byte
  <2> QED
    BY <1>1, <1>4, <2>3
<1>6. pack(n) = <<n3 % BYTE, n2 % BYTE, n1 % BYTE, n % BYTE>>
  BY DEF pack
<1>7. n3 % BYTE \in Byte
  BY <1>1, <1>4, DivMod DEF Byte
<1> HIDE DEF n1, n2, n3
<1>8. Value(n3 % BYTE, n2 % BYTE, n1 % BYTE, n % BYTE) = n
  BY <1>2, <1>3, <1>4, <1>5 DEF Value
<1> QED
  BY <1>2, <1>3, <1>4, <1>6, <1>7, <1>8

\* Four bytes are the digits of one number.
LEMMA ValueFacts ==
    ASSUME NEW a \in Byte, NEW b \in Byte, NEW c \in Byte, NEW d \in Byte
    PROVE  Value(a, b, c, d) \in Words /\ pack(Value(a, b, c, d)) = <<a, b, c, d>>
<1> DEFINE v1 == a * BYTE + b
           v2 == v1 * BYTE + c
           v3 == v2 * BYTE + d
<1>1. BYTE \in Nat /\ BYTE >= 2 /\ a \in Nat /\ b \in Nat /\ c \in Nat /\ d \in Nat
  BY WordFacts DEF Byte
<1>2. v1 \in Nat /\ v2 \in Nat /\ v3 \in Nat
  BY <1>1
<1>3. a \div BYTE = 0 /\ a % BYTE = a
  BY <1>1 DEF Byte
<1>4. v1 \div BYTE = a /\ v1 % BYTE = b
  BY <1>1, DivModUnique DEF Byte
<1>5. v2 \div BYTE = v1 /\ v2 % BYTE = c
  BY <1>1, <1>2, DivModUnique DEF Byte
<1>6. v3 \div BYTE = v2 /\ v3 % BYTE = d
  BY <1>1, <1>2, DivModUnique DEF Byte
<1>7. v3 < WORD
  <2>1. a + 1 <= BYTE /\ b + 1 <= BYTE /\ c + 1 <= BYTE /\ d + 1 <= BYTE
    BY <1>1 DEF Byte
  <2>2. v1 + 1 <= BYTE * BYTE
    <3>1. (a + 1) * BYTE <= BYTE * BYTE
      BY <1>1, <2>1
    <3> QED
      BY <1>1, <2>1, <3>1
  <2>3. v2 + 1 <= BYTE * BYTE * BYTE
    <3>1. (v1 + 1) * BYTE <= BYTE * BYTE * BYTE
      BY <1>1, <1>2, <2>2
    <3> QED
      BY <1>1, <1>2, <2>1, <3>1
  <2>4. v3 + 1 <= BYTE * BYTE * BYTE * BYTE
    <3>1. (v2 + 1) * BYTE <= BYTE * BYTE * BYTE * BYTE
      BY <1>1, <1>2, <2>3
    <3> QED
      BY <1>1, <1>2, <2>1, <3>1
  <2> QED
    BY <1>2, <2>4, WordFacts DEF WORD
<1>8. Value(a, b, c, d) = v3
  BY DEF Value
<1>9. pack(v3) = <<a, b, c, d>>
  BY <1>3, <1>4, <1>5, <1>6 DEF pack
<1> QED
  BY <1>2, <1>7, <1>8, <1>9, WordFacts DEF Words

\* Four bytes for every number, in their order.
LEMMA PackedFacts ==
    ASSUME NEW ns \in Seq(Words)
    PROVE  /\ Packed(ns) \in Seq(Byte)
           /\ Len(Packed(ns)) = 4 * Len(ns)
           /\ \A k \in 1 .. Len(ns) : \A j \in 1 .. 4 :
                 Packed(ns)[4 * (k - 1) + j] = pack(ns[k])[j]
<1> DEFINE n == Len(ns)
           p(k) == pack(ns[((k - 1) \div 4) + 1])[((k - 1) % 4) + 1]
<1>1. n \in Nat /\ \A k \in 1 .. n : ns[k] \in Words
  OBVIOUS
<1>2. Packed(ns) = [k \in 1 .. 4 * n |-> p(k)]
  BY DEF Packed, SizeofInt
<1> HIDE DEF n
<1>3. ASSUME NEW k \in 1 .. 4 * n PROVE p(k) \in Byte
  <2> DEFINE i == ((k - 1) \div 4) + 1
             j == ((k - 1) % 4) + 1
  <2>1. i \in 1 .. n /\ j \in {1, 2, 3, 4}
    BY <1>1
  <2> HIDE DEF i, j
  <2>2. \A m \in Words : pack(m)[j] \in Byte
    BY <2>1, PackFacts
  <2> QED
    BY <1>1, <2>1, <2>2 DEF i, j
<1>4. Packed(ns) \in [1 .. 4 * n -> Byte]
  BY <1>2, <1>3
<1>5. 4 * n \in Nat
  BY <1>1
<1>6. Packed(ns) \in Seq(Byte) /\ Len(Packed(ns)) = 4 * n
  BY <1>4, <1>5, IsASeq, LenProperties
<1>7. ASSUME NEW k \in 1 .. n, NEW j \in 1 .. 4
      PROVE  Packed(ns)[4 * (k - 1) + j] = pack(ns[k])[j]
  <2> DEFINE m == 4 * (k - 1) + j
  <2>1. m \in 1 .. 4 * n /\ ((m - 1) \div 4) + 1 = k /\ ((m - 1) % 4) + 1 = j
    BY <1>1
  <2> HIDE DEF m
  <2>2. Packed(ns)[m] = p(m)
    BY <1>2, <2>1
  <2> QED
    BY <2>1, <2>2 DEF m
<1> QED
  BY <1>6, <1>7 DEF n

\* The bytes of s are those of buf behind position i.
Segment(buf, i, s) ==
    /\ i + Len(s) <= Len(buf)
    /\ \A k \in 1 .. Len(s) : buf[i + k] = s[k]

\* The four bytes at an index are read as one number.
LEMMA NumberAtIs ==
    ASSUME NEW buf \in Seq(Byte), NEW i \in Nat, i + 4 <= Len(buf)
    PROVE  NumberAt(buf, i) = Value(buf[i + 1], buf[i + 2], buf[i + 3], buf[i + 4])
  BY DEF NumberAt, Value

\* Numbers that lie within the buffer are taken without an error.
LEMMA UnpackFits ==
    ASSUME NEW buf, NEW i, NEW n, i + 4 * n <= Len(buf)
    PROVE  Unpack(Unmarshall(buf, i), n).u = Unmarshall(buf, i + 4 * n)
<1> DEFINE u == Unmarshall(buf, i)
<1>1. u.buf = buf /\ u.ind = i /\ u.ok = TRUE /\ u = [buf |-> buf, ind |-> i, ok |-> TRUE]
  BY DEF Unmarshall
<1> HIDE DEF u
<1>2. Unpack(u, n).u = [u EXCEPT !.ind = i + 4 * n, !.ok = u.ok /\ i + 4 * n <= Len(buf)]
  BY <1>1 DEF Unpack, SizeofInt
<1>3. (u.ok /\ i + 4 * n <= Len(buf)) = TRUE
  BY <1>1
<1>4. Unpack(u, n).u = [u EXCEPT !.ind = i + 4 * n, !.ok = TRUE]
  BY <1>2, <1>3
<1> QED
  BY <1>1, <1>4 DEF Unmarshall, u

\* Numbers that were packed are unpacked.
LEMMA UnpackPacked ==
    ASSUME NEW buf \in Seq(Byte), NEW i \in Nat, NEW ns \in Seq(Words),
           Segment(buf, i, Packed(ns))
    PROVE  Unpack(Unmarshall(buf, i), Len(ns))
              = [u |-> Unmarshall(buf, i + 4 * Len(ns)), v |-> ns]
<1> DEFINE n == Len(ns)
<1>1. /\ n \in Nat /\ ns = [k \in 1 .. n |-> ns[k]] /\ \A k \in 1 .. n : ns[k] \in Words
      /\ Len(buf) \in Nat
  BY LenProperties
<1>2. i + 4 * n <= Len(buf) /\ \A k \in 1 .. 4 * n : buf[i + k] = Packed(ns)[k]
  BY PackedFacts DEF Segment
<1>3. \A k \in 1 .. n : \A j \in 1 .. 4 : Packed(ns)[4 * (k - 1) + j] = pack(ns[k])[j]
  BY PackedFacts
<1> HIDE DEF n
<1>4. ASSUME NEW k \in 1 .. n PROVE NumberAt(buf, i + 4 * (k - 1)) = ns[k]
  <2> DEFINE at == i + 4 * (k - 1)
  <2>1. at \in Nat /\ at + 4 <= Len(buf)
    BY <1>1, <1>2
  <2>2. ASSUME NEW j \in 1 .. 4 PROVE buf[at + j] = pack(ns[k])[j]
    <3>1. 4 * (k - 1) + j \in 1 .. 4 * n /\ i + (4 * (k - 1) + j) = at + j
      BY <1>1, SMTT(40)
    <3> HIDE DEF at
    <3> QED
      BY <1>2, <1>3, <3>1
  <2> HIDE DEF at
  <2>3. NumberAt(buf, at) = Value(pack(ns[k])[1], pack(ns[k])[2], pack(ns[k])[3], pack(ns[k])[4])
    BY <2>1, <2>2, NumberAtIs
  <2>4. NumberAt(buf, at) = ns[k]
    BY <1>1, <2>3, PackFacts
  <2> QED
    BY <2>4 DEF at
<1>5. [k \in 1 .. n |-> NumberAt(buf, i + 4 * (k - 1))] = ns
  BY <1>1, <1>4
<1>6. Unpack(Unmarshall(buf, i), n).u = Unmarshall(buf, i + 4 * n)
  BY <1>2, UnpackFits
<1>7. Unpack(Unmarshall(buf, i), n).v = ns
  BY <1>5 DEF Unpack, Unmarshall, SizeofInt
<1>8. Unpack(Unmarshall(buf, i), n) = [u |-> Unpack(Unmarshall(buf, i), n).u, v |-> Unpack(Unmarshall(buf, i), n).v]
  BY DEF Unpack
<1> QED
  BY <1>6, <1>7, <1>8 DEF n

\* A segment of two parts is two segments.
LEMMA SegmentSplit ==
    ASSUME NEW buf \in Seq(Byte), NEW i \in Nat, NEW a \in Seq(Byte), NEW b \in Seq(Byte),
           Segment(buf, i, a \o b)
    PROVE  /\ Segment(buf, i, a) /\ Segment(buf, i + Len(a), b)
           /\ Len(a \o b) = Len(a) + Len(b)
<1>1. Len(a) \in Nat /\ Len(b) \in Nat /\ Len(buf) \in Nat
  BY LenProperties
<1>2. /\ Len(a \o b) = Len(a) + Len(b)
      /\ \A k \in 1 .. Len(a) + Len(b) : (a \o b)[k] = IF k <= Len(a) THEN a[k] ELSE b[k - Len(a)]
  BY ConcatProperties
<1>3. i + (Len(a) + Len(b)) <= Len(buf) /\ \A k \in 1 .. Len(a) + Len(b) : buf[i + k] = (a \o b)[k]
  BY <1>2 DEF Segment
<1>4. Segment(buf, i, a)
  <2>1. ASSUME NEW k \in 1 .. Len(a) PROVE buf[i + k] = a[k]
    BY <1>1, <1>2, <1>3, SMTT(40)
  <2> QED
    BY <1>1, <1>3, <2>1 DEF Segment
<1>5. Segment(buf, i + Len(a), b)
  <2>1. ASSUME NEW k \in 1 .. Len(b) PROVE buf[(i + Len(a)) + k] = b[k]
    <3> DEFINE m == Len(a) + k
    <3>1. m \in 1 .. Len(a) + Len(b) /\ ~ (m <= Len(a)) /\ m - Len(a) = k /\ i + m = (i + Len(a)) + k
      BY <1>1
    <3> HIDE DEF m
    <3>2. (a \o b)[m] = b[m - Len(a)]
      BY <1>2, <3>1
    <3> QED
      BY <1>3, <3>1, <3>2
  <2> QED
    BY <1>1, <1>3, <2>1 DEF Segment
<1> QED
  BY <1>2, <1>4, <1>5

\* An int is written as a sequence of one number.
LEMMA PackIsPacked ==
    ASSUME NEW n \in Words
    PROVE  pack(n) = Packed(<<n>>) /\ pack(n) \in Seq(Byte) /\ Len(pack(n)) = 4
<1>1. <<n>> \in Seq(Words) /\ Len(<<n>>) = 1 /\ <<n>>[1] = n
  OBVIOUS
<1>2. /\ Packed(<<n>>) \in Seq(Byte) /\ Len(Packed(<<n>>)) = 4
      /\ \A j \in 1 .. 4 : Packed(<<n>>)[j] = pack(n)[j]
  <2>1. /\ Packed(<<n>>) \in Seq(Byte) /\ Len(Packed(<<n>>)) = 4 * 1
        /\ \A k \in 1 .. 1 : \A j \in 1 .. 4 : Packed(<<n>>)[4 * (k - 1) + j] = pack(<<n>>[k])[j]
    BY <1>1, PackedFacts
  <2> QED
    BY <1>1, <2>1
<1>3. pack(n) \in Seq(Byte) /\ Len(pack(n)) = 4
  <2>1. \A a, b, c, d \in Byte : <<a, b, c, d>> \in Seq(Byte) /\ Len(<<a, b, c, d>>) = 4
    OBVIOUS
  <2>2. PICK a, b, c, d \in Byte : pack(n) = <<a, b, c, d>>
    BY PackFacts
  <2> QED
    BY <2>1, <2>2
<1>4. pack(n) = Packed(<<n>>)
  BY <1>2, <1>3, SeqEqual
<1> QED
  BY <1>3, <1>4

\* unpack takes the int that pack has written.
LEMMA UnpackPack ==
    ASSUME NEW buf \in Seq(Byte), NEW i \in Nat, NEW n \in Words, Segment(buf, i, pack(n))
    PROVE  unpack(Unmarshall(buf, i)) = [u |-> Unmarshall(buf, i + 4), v |-> n]
<1>1. <<n>> \in Seq(Words) /\ Len(<<n>>) = 1 /\ <<n>>[1] = n
  OBVIOUS
<1>2. Segment(buf, i, Packed(<<n>>))
  BY PackIsPacked
<1>3. Unpack(Unmarshall(buf, i), 1) = [u |-> Unmarshall(buf, i + 4 * 1), v |-> <<n>>]
  BY <1>1, <1>2, UnpackPacked
<1> QED
  BY <1>1, <1>3 DEF unpack

-----------------------------------------------------------------------------
(* What was put is what is got. *)

\* The bytes of a container: its size, and then its elements.
LEMMA SizedSegment ==
    ASSUME NEW buf \in Seq(Byte), NEW i \in Nat, NEW n \in Words, NEW s \in Seq(Byte),
           Segment(buf, i, pack(n) \o s)
    PROVE  /\ unpack(Unmarshall(buf, i)) = [u |-> Unmarshall(buf, i + 4), v |-> n]
           /\ Segment(buf, i + 4, s)
           /\ Len(pack(n) \o s) = 4 + Len(s)
<1>1. pack(n) \in Seq(Byte) /\ Len(pack(n)) = 4
  BY PackIsPacked
<1>2. ASSUME NEW a \in Seq(Byte), Segment(buf, i, a \o s)
      PROVE  Segment(buf, i, a) /\ Segment(buf, i + Len(a), s) /\ Len(a \o s) = Len(a) + Len(s)
  BY <1>2, SegmentSplit
<1>3. Segment(buf, i, pack(n)) /\ Segment(buf, i + 4, s) /\ Len(pack(n) \o s) = 4 + Len(s)
  BY <1>1, <1>2
<1> QED
  BY <1>3, UnpackPack

\* The fields of an unmarshall, and its position moved.
LEMMA UnmarshallFields ==
    ASSUME NEW buf, NEW i
    PROVE  Unmarshall(buf, i).buf = buf /\ Unmarshall(buf, i).ind = i /\ Unmarshall(buf, i).ok = TRUE
  BY DEF Unmarshall

\* An unmarshall with another index.
LEMMA UnmarshallMoved ==
    ASSUME NEW buf, NEW i, NEW j, NEW u, u = Unmarshall(buf, i)
    PROVE  [u EXCEPT !.ind = j] = Unmarshall(buf, j)
<1>1. u = [buf |-> buf, ind |-> i, ok |-> TRUE]
  BY DEF Unmarshall
<1>2. ASSUME NEW b, u = [buf |-> buf, ind |-> i, ok |-> b]
      PROVE  [u EXCEPT !.ind = j] = [buf |-> buf, ind |-> j, ok |-> b]
  BY <1>2
<1>3. [u EXCEPT !.ind = j] = [buf |-> buf, ind |-> j, ok |-> TRUE]
  BY <1>1, <1>2, Zenon
<1> QED
  BY <1>3 DEF Unmarshall

\* A string that was put is got back.
LEMMA StringBack ==
    ASSUME NEW buf \in Seq(Byte), NEW i \in Nat, NEW s \in Seq(Byte), Len(s) < WORD, NEW old,
           Segment(buf, i, pack(Len(s)) \o s)
    PROVE  GetString(Unmarshall(buf, i), old)
              = [u |-> Unmarshall(buf, i + Len(pack(Len(s)) \o s)), v |-> s]
<1> DEFINE n == Len(s)
           u == Unmarshall(buf, i + 4)
<1>1. n \in Nat /\ n \in Words /\ Len(buf) \in Nat
  BY WordFacts, LenProperties DEF Words
<1>2. /\ unpack(Unmarshall(buf, i)) = [u |-> u, v |-> n]
      /\ Segment(buf, i + 4, s)
      /\ Len(pack(n) \o s) = 4 + n
  BY <1>1, SizedSegment
<1>3. (i + 4) + n <= Len(buf) /\ \A k \in 1 .. n : buf[(i + 4) + k] = s[k]
  BY <1>2 DEF Segment
<1>4. SubSeq(buf, (i + 4) + 1, (i + 4) + n) = s
  <2> DEFINE part == SubSeq(buf, (i + 4) + 1, (i + 4) + n)
             m == i + 4
  <2>1. m \in Nat /\ m + n <= Len(buf) /\ \A k \in 1 .. Len(buf) : buf[k] \in Byte
    BY <1>3
  <2> HIDE DEF m
  <2>2. \A k \in m + 1 .. m + n : buf[k] \in Byte
    BY <1>1, <2>1
  <2>3. /\ SubSeq(buf, m + 1, m + n) \in Seq(Byte)
        /\ Len(SubSeq(buf, m + 1, m + n)) = IF m + 1 <= m + n THEN m + n - (m + 1) + 1 ELSE 0
        /\ \A k \in 1 .. m + n - (m + 1) + 1 : SubSeq(buf, m + 1, m + n)[k] = buf[m + 1 + k - 1]
    BY <1>1, <2>1, <2>2, SubSeqProperties
  <2>4. part \in Seq(Byte) /\ Len(part) = n
    BY <1>1, <2>1, <2>3 DEF m
  <2>5. ASSUME NEW k \in 1 .. n PROVE part[k] = s[k]
    <3>1. k \in 1 .. m + n - (m + 1) + 1 /\ m + 1 + k - 1 = m + k
      BY <1>1, <2>1
    <3>2. part[k] = buf[m + k]
      BY <2>3, <3>1 DEF m
    <3> QED
      BY <1>3, <3>2 DEF m
  <2> HIDE DEF part, n
  <2> QED
    BY <2>4, <2>5, SeqEqual DEF part, n
<1>5. u.ok = TRUE /\ u.ind = i + 4 /\ u.buf = buf /\ [u EXCEPT !.ind = (i + 4) + n] = Unmarshall(buf, (i + 4) + n)
  <2>1. u.ok = TRUE /\ u.ind = i + 4 /\ u.buf = buf
    BY UnmarshallFields, ZenonT(60)
  <2>2. u = Unmarshall(buf, i + 4)
    OBVIOUS
  <2> HIDE DEF u, n
  <2>3. [u EXCEPT !.ind = (i + 4) + n] = Unmarshall(buf, (i + 4) + n)
    BY <2>2, UnmarshallMoved
  <2> QED
    BY <2>1, <2>3
<1>6. Unmarshall(buf, i).buf = buf
  BY UnmarshallFields, Zenon
<1>7. (i + 4) + n = i + (4 + n)
  BY <1>1
<1> HIDE DEF u
<1>8. GetString(Unmarshall(buf, i), old)
         = [u |-> [u EXCEPT !.ind = (i + 4) + n], v |-> SubSeq(buf, (i + 4) + 1, (i + 4) + n)]
  <2> DEFINE g == unpack(Unmarshall(buf, i))
  <2>1. g.u = u /\ g.v = n
    BY <1>2
  <2> HIDE DEF g, n
  <2>2. g.u.ok /\ g.u.ind + g.v <= Len(Unmarshall(buf, i).buf)
    BY <1>3, <1>5, <1>6, <2>1 DEF n
  <2>3. GetString(Unmarshall(buf, i), old)
         = [u |-> [g.u EXCEPT !.ind = g.u.ind + g.v],
            v |-> SubSeq(Unmarshall(buf, i).buf, g.u.ind + 1, g.u.ind + g.v)]
    BY <2>2 DEF GetString, g
  <2> QED
    BY <1>5, <1>6, <2>1, <2>3, Zenon
<1> QED
  BY <1>2, <1>4, <1>5, <1>7, <1>8

\* A vector that was put is got back.
LEMMA VectorBack ==
    ASSUME NEW buf \in Seq(Byte), NEW i \in Nat, NEW ns \in Seq(Words), Len(ns) < WORD, NEW old,
           Segment(buf, i, pack(Len(ns)) \o Packed(ns))
    PROVE  GetVector(Unmarshall(buf, i), old)
              = [u |-> Unmarshall(buf, i + Len(pack(Len(ns)) \o Packed(ns))), v |-> old \o ns]
<1> DEFINE n == Len(ns)
<1>1. n \in Nat /\ n \in Words /\ Packed(ns) \in Seq(Byte) /\ Len(Packed(ns)) = 4 * n
  BY WordFacts, LenProperties, PackedFacts DEF Words
<1>2. /\ unpack(Unmarshall(buf, i)) = [u |-> Unmarshall(buf, i + 4), v |-> n]
      /\ Segment(buf, i + 4, Packed(ns))
      /\ Len(pack(n) \o Packed(ns)) = 4 + 4 * n
  BY <1>1, SizedSegment
<1>3. Unpack(Unmarshall(buf, i + 4), n) = [u |-> Unmarshall(buf, (i + 4) + 4 * n), v |-> ns]
  BY <1>2, UnpackPacked
<1>4. (i + 4) + 4 * n = i + (4 + 4 * n)
  BY <1>1
<1> DEFINE g == unpack(Unmarshall(buf, i))
           h == Unpack(g.u, g.v)
<1>5. g.u = Unmarshall(buf, i + 4) /\ g.v = n
  BY <1>2
<1>6. h.u = Unmarshall(buf, (i + 4) + 4 * n) /\ h.v = ns
  <2> HIDE DEF g, n
  <2> QED
    BY <1>3, <1>5
<1>7. GetVector(Unmarshall(buf, i), old) = [u |-> h.u, v |-> old \o h.v]
  BY DEF GetVector
<1> HIDE DEF g, h, n
<1> QED
  BY <1>2, <1>4, <1>6, <1>7 DEF n

\* The keys of a map, numbered in their order, are each written once.
LEMMA KeyFacts ==
    ASSUME NEW S \in SUBSET Int, IsFiniteSet(S)
    PROVE  /\ \A k \in 1 .. Cardinality(S) : Key(S, k) \in S /\ Rank(S, Key(S, k)) = k
           /\ \A a \in S : \E k \in 1 .. Cardinality(S) : Key(S, k) = a
<1>1. ASSUME NEW k \in 1 .. Cardinality(S) PROVE Key(S, k) \in S /\ Rank(S, Key(S, k)) = k
  <2>1. \E a \in S : Rank(S, a) = k
    BY RankOnto
  <2>2. \E a \in S : Cardinality({c \in S : c <= a}) = k
    BY <2>1 DEF Rank
  <2>3. Key(S, k) \in S /\ Cardinality({c \in S : c <= Key(S, k)}) = k
    BY <2>2, Zenon DEF Key
  <2> QED
    BY <2>3 DEF Rank
<1>2. ASSUME NEW a \in S PROVE \E k \in 1 .. Cardinality(S) : Key(S, k) = a
  <2> DEFINE r == Rank(S, a)
  <2>1. r \in 1 .. Cardinality(S) /\ \A b, c \in S : Rank(S, b) = Rank(S, c) => b = c
    BY RankFacts
  <2>2. \A b \in S : Rank(S, b) = r => b = a
    BY <2>1
  <2> HIDE DEF r
  <2>3. Key(S, r) \in S /\ Rank(S, Key(S, r)) = r
    BY <1>1, <2>1
  <2> QED
    BY <2>1, <2>2, <2>3
<1> QED
  BY <1>1, <1>2

\* A map is put as its keys in order, each with its value.
LEMMA PairsFacts ==
    ASSUME NEW v, IsValue("map", v)
    PROVE  LET n == Cardinality(DOMAIN v)
           IN  /\ n \in Words
               /\ v = [a \in DOMAIN v |-> v[a]]
               /\ Pairs(v) \in Seq(Words) /\ Len(Pairs(v)) = 2 * n
               /\ \A k \in 1 .. n : /\ Pairs(v)[2 * k - 1] = Key(DOMAIN v, k)
                                    /\ Pairs(v)[2 * k] = v[Key(DOMAIN v, k)]
               /\ \A k \in 1 .. n : Key(DOMAIN v, k) \in DOMAIN v
               /\ \A j, k \in 1 .. n : Key(DOMAIN v, j) = Key(DOMAIN v, k) => j = k
               /\ \A a \in DOMAIN v : \E k \in 1 .. n : Key(DOMAIN v, k) = a
<1> DEFINE S == DOMAIN v
           n == Cardinality(S)
           p(k) == IF k % 2 = 1 THEN Key(S, (k + 1) \div 2) ELSE v[Key(S, k \div 2)]
<1>1. v \in [S -> Words] /\ S \subseteq Words /\ n < WORD
  BY DEF IsValue
<1>2. S \in SUBSET Int /\ IsFiniteSet(S)
  <2>1. IsFiniteSet(Words) /\ Words \subseteq Int
    BY WordFacts, FS_Interval DEF Words
  <2> HIDE DEF S
  <2> QED
    BY <1>1, <2>1, FS_Subset
<1>3. v = [a \in S |-> v[a]] /\ \A a \in S : v[a] \in Words
  BY <1>1
<1>4. Pairs(v) = [k \in 1 .. 2 * n |-> p(k)]
  BY DEF Pairs
<1> HIDE DEF S
<1>5. n \in Nat /\ n \in Words
  BY <1>1, <1>2, WordFacts, FS_CardinalityType DEF Words
<1>6. /\ \A k \in 1 .. n : Key(S, k) \in S /\ Rank(S, Key(S, k)) = k
      /\ \A a \in S : \E k \in 1 .. n : Key(S, k) = a
  BY <1>2, KeyFacts
<1>7. \A j, k \in 1 .. n : Key(S, j) = Key(S, k) => j = k
  BY <1>6
<1> HIDE DEF n
<1>8. ASSUME NEW k \in 1 .. 2 * n PROVE p(k) \in Words
  <2>1. CASE k % 2 = 1
    <3>1. (k + 1) \div 2 \in 1 .. n
      BY <1>5, <2>1
    <3> QED
      BY <1>1, <1>6, <2>1, <3>1
  <2>2. CASE k % 2 # 1
    <3>1. k \div 2 \in 1 .. n
      BY <1>5, <2>2
    <3> QED
      BY <1>3, <1>6, <2>2, <3>1
  <2> QED
    BY <2>1, <2>2
<1>9. Pairs(v) \in [1 .. 2 * n -> Words] /\ 2 * n \in Nat
  BY <1>4, <1>5, <1>8
<1>10. Pairs(v) \in Seq(Words) /\ Len(Pairs(v)) = 2 * n
  BY <1>9, IsASeq, LenProperties
<1>11. ASSUME NEW k \in 1 .. n
       PROVE  Pairs(v)[2 * k - 1] = Key(S, k) /\ Pairs(v)[2 * k] = v[Key(S, k)]
  <2> DEFINE a == 2 * k - 1
             b == 2 * k
  <2>1. a \in 1 .. 2 * n /\ a % 2 = 1 /\ (a + 1) \div 2 = k
    BY <1>5
  <2>2. b \in 1 .. 2 * n /\ b % 2 # 1 /\ b \div 2 = k
    BY <1>5
  <2> HIDE DEF a, b
  <2>3. Pairs(v)[a] = p(a) /\ Pairs(v)[b] = p(b)
    BY <1>4, <2>1, <2>2
  <2> QED
    BY <2>1, <2>2, <2>3 DEF a, b
<1> QED
  BY <1>3, <1>5, <1>6, <1>7, <1>10, <1>11 DEF n, S

\* A map that was put is got back.
LEMMA MapBack ==
    ASSUME NEW buf \in Seq(Byte), NEW i \in Nat, NEW v, IsValue("map", v), NEW old,
           Segment(buf, i, pack(Cardinality(DOMAIN v)) \o Packed(Pairs(v)))
    PROVE  GetMap(Unmarshall(buf, i), old)
              = [u |-> Unmarshall(buf, i + Len(pack(Cardinality(DOMAIN v)) \o Packed(Pairs(v)))), v |-> v]
<1> DEFINE S == DOMAIN v
           n == Cardinality(S)
           ps == Pairs(v)
<1>1. /\ n \in Words
      /\ v = [a \in S |-> v[a]]
      /\ ps \in Seq(Words) /\ Len(ps) = 2 * n
      /\ \A k \in 1 .. n : ps[2 * k - 1] = Key(S, k) /\ ps[2 * k] = v[Key(S, k)]
      /\ \A k \in 1 .. n : Key(S, k) \in S
      /\ \A j, k \in 1 .. n : Key(S, j) = Key(S, k) => j = k
      /\ \A a \in S : \E k \in 1 .. n : Key(S, k) = a
  BY PairsFacts
<1>2. n \in Nat /\ Packed(ps) \in Seq(Byte) /\ Len(Packed(ps)) = 4 * (2 * n)
  <2> HIDE DEF n, ps, S
  <2>1. n \in Nat
    BY <1>1, WordFacts DEF Words
  <2>2. Packed(ps) \in Seq(Byte) /\ Len(Packed(ps)) = 4 * Len(ps)
    BY <1>1, PackedFacts
  <2> QED
    BY <1>1, <2>1, <2>2
<1>3. Segment(buf, i, pack(n) \o Packed(ps))
  OBVIOUS
<1> DEFINE g == unpack(Unmarshall(buf, i))
           h == Unpack(g.u, 2 * g.v)
           w == [a \in {h.v[2 * k - 1] : k \in 1 .. g.v} |->
                    h.v[2 * Max({k \in 1 .. g.v : h.v[2 * k - 1] = a})]]
<1>4. GetMap(Unmarshall(buf, i), old) = [u |-> h.u, v |-> w]
  BY DEF GetMap
<1>5. i + Len(pack(n) \o Packed(ps)) = i + Len(pack(Cardinality(DOMAIN v)) \o Packed(Pairs(v)))
  OBVIOUS
<1> HIDE DEF n, ps, S
<1>6. /\ g = [u |-> Unmarshall(buf, i + 4), v |-> n]
      /\ Segment(buf, i + 4, Packed(ps))
      /\ Len(pack(n) \o Packed(ps)) = 4 + 4 * (2 * n)
  BY <1>1, <1>2, <1>3, SizedSegment
<1> HIDE DEF g
<1>7. g.u = Unmarshall(buf, i + 4) /\ g.v = n
  BY <1>6
<1>8. Unpack(Unmarshall(buf, i + 4), 2 * n) = [u |-> Unmarshall(buf, (i + 4) + 4 * (2 * n)), v |-> ps]
  <2>1. i + 4 \in Nat
    OBVIOUS
  <2>2. Unpack(Unmarshall(buf, i + 4), Len(ps)) = [u |-> Unmarshall(buf, (i + 4) + 4 * Len(ps)), v |-> ps]
    BY <1>1, <1>6, <2>1, UnpackPacked, ZenonT(60)
  <2> QED
    BY <1>1, <2>2
<1>9. h.u = Unmarshall(buf, (i + 4) + 4 * (2 * n)) /\ h.v = ps
  BY <1>7, <1>8
<1>10. (i + 4) + 4 * (2 * n) = i + (4 + 4 * (2 * n))
  BY <1>2
<1> HIDE DEF h
<1>11. {h.v[2 * k - 1] : k \in 1 .. g.v} = S
  <2>1. \A k \in 1 .. n : h.v[2 * k - 1] \in S
    BY <1>1, <1>9
  <2>2. ASSUME NEW a \in S PROVE \E k \in 1 .. n : h.v[2 * k - 1] = a
    <3>1. PICK k \in 1 .. n : Key(S, k) = a
      BY <1>1
    <3>2. h.v[2 * k - 1] = a
      BY <1>1, <1>9, <3>1
    <3> QED
      BY <3>2
  <2> QED
    BY <1>7, <2>1, <2>2
<1>12. ASSUME NEW a \in S
       PROVE  h.v[2 * Max({k \in 1 .. g.v : h.v[2 * k - 1] = a})] = v[a]
  <2>1. PICK k \in 1 .. n : Key(S, k) = a
    BY <1>1
  <2>2. \A j \in 1 .. n : ps[2 * j - 1] = a <=> j = k
    BY <1>1, <2>1
  <2>3. {j \in 1 .. g.v : h.v[2 * j - 1] = a} = {k}
    BY <1>7, <1>9, <2>2
  <2>4. Max({k}) = k
    BY <1>2 DEF Max
  <2> QED
    BY <1>1, <1>9, <2>1, <2>3, <2>4
<1>13. w = v
  BY <1>1, <1>11, <1>12
<1> QED
  BY <1>4, <1>5, <1>6, <1>9, <1>10, <1>13

\* Whatever the type, the value that was put is got, and nothing behind it is
\* touched: << and >> of marshall.h are inverse to each other.
LEMMA PutGet ==
    ASSUME NEW buf \in Seq(Byte), NEW i \in Nat, NEW t, NEW v, NEW old,
           t \in {"int", "ull", "string", "attr", "vector", "map"}, IsValue(t, v),
           Segment(buf, i, Put(t, v))
    PROVE  Get(t, Unmarshall(buf, i), old)
              = [u |-> Unmarshall(buf, i + Len(Put(t, v))), v |-> IF t = "vector" THEN old \o v ELSE v]
<1>1. CASE t = "int"
  <2>1. v \in Words /\ Put(t, v) = pack(v) /\ Get(t, Unmarshall(buf, i), old) = unpack(Unmarshall(buf, i))
    BY <1>1 DEF IsValue, Put, Get
  <2>2. Len(pack(v)) = 4
    BY <2>1, PackIsPacked
  <2> QED
    BY <1>1, <2>1, <2>2, UnpackPack
<1>2. CASE t = "ull"
  <2> DEFINE ns == <<v \div WORD, v % WORD>>
             w == Unpack(Unmarshall(buf, i), 2)
  <2>1. v \in 0 .. WORD * WORD - 1 /\ Put(t, v) = Packed(ns)
    BY <1>2 DEF IsValue, Put
  <2>2. v \in Nat /\ v \div WORD \in Nat /\ v % WORD \in Words /\ v = (v \div WORD) * WORD + (v % WORD)
    <3>1. v \in Nat /\ WORD \in Nat /\ WORD >= 2
      BY <2>1, WordFacts
    <3> QED
      BY <3>1, DivMod DEF Words
  <2>3. v \div WORD \in Words
    <3>1. v % WORD \in Nat /\ (v \div WORD) * WORD + (v % WORD) < WORD * WORD /\ WORD \in Nat /\ WORD >= 2
      BY <2>1, <2>2, WordFacts DEF Words
    <3>2. v \div WORD < WORD
      BY <2>2, <3>1, LessByFactor
    <3> QED
      BY <2>2, <3>1, <3>2 DEF Words
  <2>4. ns \in Seq(Words) /\ Len(ns) = 2 /\ ns[1] = v \div WORD /\ ns[2] = v % WORD
    BY <2>2, <2>3
  <2> HIDE DEF ns
  <2>5. w = [u |-> Unmarshall(buf, i + 4 * 2), v |-> ns] /\ Len(Packed(ns)) = 4 * 2
    BY <2>1, <2>4, UnpackPacked, PackedFacts
  <2>6. Get(t, Unmarshall(buf, i), old) = [u |-> w.u, v |-> w.v[1] * WORD + w.v[2]]
    BY <1>2 DEF Get
  <2> HIDE DEF w
  <2>7. w.v[1] * WORD + w.v[2] = v /\ w.u = Unmarshall(buf, i + 4 * 2)
    BY <2>2, <2>4, <2>5
  <2> QED
    BY <1>2, <2>1, <2>5, <2>6, <2>7
<1>3. CASE t = "string"
  BY <1>3, StringBack DEF IsValue, Put, Get
<1>4. CASE t = "attr"
  <2>1. v \in [1 .. 5 -> Words] /\ Put(t, v) = Packed(v) /\ Get(t, Unmarshall(buf, i), old) = Unpack(Unmarshall(buf, i), 5)
    BY <1>4 DEF IsValue, Put, Get
  <2>2. v \in Seq(Words) /\ Len(v) = 5
    <3>1. 5 \in Nat
      OBVIOUS
    <3>2. v \in Seq(Words)
      <4>1. v = [k \in 1 .. 5 |-> v[k]] /\ \A k \in 1 .. 5 : v[k] \in Words
        BY <2>1
      <4> DEFINE e(k) == v[k]
      <4>2. [k \in 1 .. 5 |-> e(k)] \in Seq(Words)
        BY <3>1, <4>1, IsASeq
      <4> QED
        BY <4>1, <4>2
    <3> QED
      BY <2>1, <3>1, <3>2, LenProperties
  <2>3. Len(Packed(v)) = 4 * 5
    BY <2>2, PackedFacts
  <2>4. Unpack(Unmarshall(buf, i), 5) = [u |-> Unmarshall(buf, i + 4 * 5), v |-> v]
    BY <2>1, <2>2, UnpackPacked
  <2> QED
    BY <1>4, <2>1, <2>3, <2>4
<1>5. CASE t = "vector"
  BY <1>5, VectorBack DEF IsValue, Put, Get
<1>6. CASE t = "map"
  BY <1>6, MapBack DEF IsValue, Put, Get
<1> QED
  BY <1>1, <1>2, <1>3, <1>4, <1>5, <1>6

-----------------------------------------------------------------------------
(* What is got is what the bytes say. *)

Readers == [buf : Seq(Byte), ind : Nat, ok : BOOLEAN]

\* The bytes from position i to position j are those of s.
Covers(buf, i, j, s) == s \in Seq(Byte) /\ j = i + Len(s) /\ Segment(buf, i, s)

\* Two stretches of a buffer one after the other are one.
LEMMA CoversJoin ==
    ASSUME NEW buf \in Seq(Byte), NEW i \in Nat, NEW j, NEW k, NEW a, NEW b,
           Covers(buf, i, j, a), Covers(buf, j, k, b)
    PROVE  Covers(buf, i, k, a \o b)
<1>1. /\ a \in Seq(Byte) /\ b \in Seq(Byte) /\ j = i + Len(a) /\ k = j + Len(b)
      /\ j <= Len(buf) /\ k <= Len(buf)
      /\ \A m \in 1 .. Len(a) : buf[i + m] = a[m]
      /\ \A m \in 1 .. Len(b) : buf[j + m] = b[m]
  BY DEF Covers, Segment
<1>2. Len(a) \in Nat /\ Len(b) \in Nat /\ Len(buf) \in Nat
  BY <1>1, LenProperties
<1>3. /\ a \o b \in Seq(Byte) /\ Len(a \o b) = Len(a) + Len(b)
      /\ \A m \in 1 .. Len(a) + Len(b) : (a \o b)[m] = IF m <= Len(a) THEN a[m] ELSE b[m - Len(a)]
  BY <1>1, ConcatProperties
<1> DEFINE c == a \o b
<1> HIDE DEF c
<1>4. ASSUME NEW m \in 1 .. Len(a) + Len(b) PROVE buf[i + m] = c[m]
  <2>1. CASE m <= Len(a)
    BY <1>1, <1>2, <1>3, <2>1 DEF c
  <2>2. CASE ~ (m <= Len(a))
    <3> DEFINE l == m - Len(a)
    <3>1. l \in 1 .. Len(b) /\ i + m = j + l
      BY <1>1, <1>2, <2>2
    <3>2. c[m] = b[l]
      BY <1>3, <2>2 DEF c
    <3> HIDE DEF l
    <3> QED
      BY <1>1, <3>1, <3>2
  <2> QED
    BY <2>1, <2>2
<1>5. k = i + (Len(a) + Len(b)) /\ i + (Len(a) + Len(b)) <= Len(buf)
  BY <1>1, <1>2
<1> QED
  BY <1>3, <1>4, <1>5 DEF Covers, Segment, c

\* Four bytes are always a number of a word.
LEMMA NumberAtType ==
    ASSUME NEW buf \in Seq(Byte), NEW i \in Nat
    PROVE  NumberAt(buf, i) \in Words
<1> DEFINE byte(k) == IF i + k <= Len(buf) THEN buf[i + k] ELSE 0
<1>1. 0 \in Byte
  BY WordFacts DEF Byte
<1>2. byte(1) \in Byte /\ byte(2) \in Byte /\ byte(3) \in Byte /\ byte(4) \in Byte
  BY <1>1
<1>3. NumberAt(buf, i) = Value(byte(1), byte(2), byte(3), byte(4))
  BY DEF NumberAt, Value
<1> HIDE DEF byte
<1> QED
  BY <1>2, <1>3, ValueFacts

\* The numbers taken, if all are there, are those whose bytes were read.
LEMMA UnpackBytes ==
    ASSUME NEW u \in Readers, u.ind <= Len(u.buf), NEW n \in Nat
    PROVE  LET w == Unpack(u, n)
           IN  /\ w.u \in Readers /\ w.u.buf = u.buf /\ w.u.ind <= Len(u.buf)
               /\ w.v \in Seq(Words) /\ Len(w.v) = n
               /\ w.u.ok => u.ok /\ Covers(u.buf, u.ind, w.u.ind, Packed(w.v))
<1> DEFINE w == Unpack(u, n)
           fits == u.ind + 4 * n <= Len(u.buf)
           j == IF fits THEN u.ind + 4 * n ELSE Len(u.buf)
<1>1. u.buf \in Seq(Byte) /\ u.ind \in Nat /\ u.ok \in BOOLEAN /\ Len(u.buf) \in Nat
  BY LenProperties DEF Readers
<1>2. w.u = [u EXCEPT !.ind = j, !.ok = u.ok /\ fits]
  BY DEF Unpack, SizeofInt
<1>3. w.v = [k \in 1 .. n |-> NumberAt(u.buf, u.ind + 4 * (k - 1))]
  BY DEF Unpack, SizeofInt
<1>4. j \in Nat /\ j <= Len(u.buf)
  BY <1>1
<1> HIDE DEF w, j
<1>5. w.u.buf = u.buf /\ w.u.ind = j
  BY <1>2 DEF Readers
<1>6. (w.u.ok => u.ok /\ fits)
  <2>1. w.u.ok = (u.ok /\ fits)
    BY <1>2 DEF Readers
  <2> QED
    BY <2>1
<1>7. w.u \in Readers
  <2>1. (u.ok /\ fits) \in BOOLEAN
    OBVIOUS
  <2> HIDE DEF fits
  <2> QED
    BY <1>2, <1>4, <2>1 DEF Readers
<1>8. \A k \in 1 .. n : NumberAt(u.buf, u.ind + 4 * (k - 1)) \in Words
  <2>1. \A k \in 1 .. n : u.ind + 4 * (k - 1) \in Nat
    BY <1>1
  <2> QED
    BY <1>1, <2>1, NumberAtType
<1>9. w.v \in Seq(Words) /\ Len(w.v) = n
  BY <1>3, <1>8
<1>10. ASSUME fits PROVE Covers(u.buf, u.ind, w.u.ind, Packed(w.v))
  <2> DEFINE p == Packed(w.v)
             b == u.buf
             i == u.ind
  <2>1. /\ p \in Seq(Byte) /\ Len(p) = 4 * n
        /\ \A k \in 1 .. n : \A m \in 1 .. 4 : p[4 * (k - 1) + m] = pack(w.v[k])[m]
    BY <1>9, PackedFacts
  <2>2. i + 4 * n <= Len(b) /\ w.u.ind = i + 4 * n
    BY <1>5, <1>10 DEF j
  <2>3. b \in Seq(Byte) /\ i \in Nat /\ Len(b) \in Nat /\ \A k \in 1 .. Len(b) : b[k] \in Byte
    BY <1>1
  <2>4. \A k \in 1 .. n : w.v[k] = NumberAt(b, i + 4 * (k - 1))
    BY <1>3
  <2> HIDE DEF p, b, i
  <2>5. ASSUME NEW k \in 1 .. n, NEW m \in 1 .. 4 PROVE p[4 * (k - 1) + m] = b[i + 4 * (k - 1) + m]
    <3> DEFINE at == i + 4 * (k - 1)
    <3>1. at \in Nat /\ at + 4 <= Len(b)
      BY <2>2, <2>3
    <3>2. b[at + 1] \in Byte /\ b[at + 2] \in Byte /\ b[at + 3] \in Byte /\ b[at + 4] \in Byte
      BY <2>3, <3>1
    <3> HIDE DEF at
    <3>3. pack(NumberAt(b, at)) = <<b[at + 1], b[at + 2], b[at + 3], b[at + 4]>>
      <4>1. NumberAt(b, at) = Value(b[at + 1], b[at + 2], b[at + 3], b[at + 4])
        BY <2>3, <3>1, NumberAtIs
      <4>2. ASSUME NEW a1 \in Byte, NEW a2 \in Byte, NEW a3 \in Byte, NEW a4 \in Byte
            PROVE  pack(Value(a1, a2, a3, a4)) = <<a1, a2, a3, a4>>
        BY ValueFacts
      <4>3. PICK a1, a2, a3, a4 \in Byte : a1 = b[at + 1] /\ a2 = b[at + 2] /\ a3 = b[at + 3] /\ a4 = b[at + 4]
        BY <3>2
      <4>4. pack(Value(a1, a2, a3, a4)) = <<a1, a2, a3, a4>>
        BY <4>2
      <4> QED
        BY <4>1, <4>3, <4>4
    <3>4. pack(NumberAt(b, at))[m] = b[at + m]
      BY <3>1, <3>3
    <3>5. p[4 * (k - 1) + m] = pack(NumberAt(b, at))[m]
      BY <2>1, <2>4 DEF at
    <3> QED
      BY <3>4, <3>5 DEF at
  <2>6. ASSUME NEW l \in 1 .. 4 * n PROVE b[i + l] = p[l]
    <3> DEFINE k == ((l - 1) \div 4) + 1
               m == ((l - 1) % 4) + 1
    <3>1. k \in 1 .. n /\ m \in 1 .. 4 /\ 4 * (k - 1) + m = l /\ i + 4 * (k - 1) + m = i + l
      BY <2>3
    <3> HIDE DEF k, m
    <3> QED
      BY <2>5, <3>1
  <2>7. Covers(b, i, w.u.ind, p)
    BY <2>1, <2>2, <2>6 DEF Covers, Segment
  <2> QED
    BY <2>7 DEF b, i, p
<1> QED
  BY <1>4, <1>5, <1>6, <1>7, <1>9, <1>10 DEF w

\* One number, as unpack takes it.
LEMMA UnpackOne ==
    ASSUME NEW u \in Readers, u.ind <= Len(u.buf)
    PROVE  LET w == unpack(u)
           IN  /\ w.u \in Readers /\ w.u.buf = u.buf /\ w.u.ind <= Len(u.buf) /\ w.v \in Words
               /\ w.u.ok => u.ok /\ Covers(u.buf, u.ind, w.u.ind, pack(w.v))
<1> DEFINE w == Unpack(u, 1)
<1>1. /\ w.u \in Readers /\ w.u.buf = u.buf /\ w.u.ind <= Len(u.buf)
      /\ w.v \in Seq(Words) /\ Len(w.v) = 1
      /\ w.u.ok => u.ok /\ Covers(u.buf, u.ind, w.u.ind, Packed(w.v))
  BY UnpackBytes
<1>2. unpack(u) = [u |-> w.u, v |-> w.v[1]]
  BY DEF unpack
<1> HIDE DEF w
<1>3. w.v[1] \in Words /\ w.v = <<w.v[1]>>
  BY <1>1
<1>4. pack(w.v[1]) = Packed(w.v)
  BY <1>3, PackIsPacked
<1>5. unpack(u).u = w.u /\ unpack(u).v = w.v[1]
  BY <1>2
<1> QED
  BY <1>1, <1>3, <1>4, <1>5

\* A string that was got is the bytes it was got from.
LEMMA StringBytes ==
    ASSUME NEW u \in Readers, u.ind <= Len(u.buf), NEW old
    PROVE  LET g == GetString(u, old)
           IN  /\ g.u \in Readers /\ g.u.buf = u.buf /\ g.u.ind <= Len(u.buf)
               /\ g.u.ok => u.ok /\ Covers(u.buf, u.ind, g.u.ind, pack(Len(g.v)) \o g.v)
<1> DEFINE n == unpack(u)
           g == GetString(u, old)
           b == u.buf
           i == n.u.ind
<1>1. /\ n.u \in Readers /\ n.u.buf = b /\ i <= Len(b) /\ n.v \in Words
      /\ n.u.ok => u.ok /\ Covers(b, u.ind, i, pack(n.v))
  BY UnpackOne
<1>2. /\ b \in Seq(Byte) /\ Len(b) \in Nat /\ i \in Nat /\ n.v \in Nat /\ u.ind \in Nat
  BY <1>1, WordFacts, LenProperties DEF Readers, Words
<1>3. CASE n.u.ok /\ i + n.v <= Len(b)
  <2>1. g = [u |-> [n.u EXCEPT !.ind = i + n.v], v |-> SubSeq(b, i + 1, i + n.v)]
    BY <1>3 DEF GetString
  <2> DEFINE m == n.v
             s == SubSeq(b, i + 1, i + m)
  <2>0. m \in Nat /\ i + m <= Len(b)
    BY <1>2, <1>3
  <2> HIDE DEF n, g, b, i
  <2>2. g.u = [n.u EXCEPT !.ind = i + m] /\ g.v = s
    BY <2>1
  <2> HIDE DEF m, s
  <2>12. g.u.buf = b /\ g.u.ind = i + m
    BY <1>1, <2>2 DEF Readers
  <2>13. g.u \in Readers
    BY <1>1, <1>2, <2>0, <2>2, SMTT(40) DEF Readers
  <2>3. \A k \in 1 .. Len(b) : b[k] \in Byte
    BY <1>2
  <2>4. \A k \in i + 1 .. i + m : b[k] \in Byte
    BY <1>2, <2>0, <2>3
  <2>5. /\ s \in Seq(Byte)
        /\ Len(s) = IF i + 1 <= i + m THEN i + m - (i + 1) + 1 ELSE 0
        /\ \A k \in 1 .. i + m - (i + 1) + 1 : s[k] = b[i + 1 + k - 1]
    BY <1>2, <2>0, <2>4, SubSeqProperties DEF s
  <2>6. Len(s) = m
    BY <1>2, <2>0, <2>5
  <2>7. ASSUME NEW k \in 1 .. m PROVE b[i + k] = s[k]
    <3>1. k \in 1 .. i + m - (i + 1) + 1 /\ i + 1 + k - 1 = i + k
      BY <1>2, <2>0
    <3> QED
      BY <2>5, <3>1
  <2>8. Covers(b, i, g.u.ind, s)
    BY <2>0, <2>5, <2>6, <2>7, <2>12 DEF Covers, Segment
  <2>9. Covers(b, u.ind, i, pack(Len(s)))
    BY <1>1, <1>3, <2>6 DEF m
  <2>10. Covers(b, u.ind, g.u.ind, pack(Len(s)) \o s)
    BY <1>2, <2>8, <2>9, CoversJoin
  <2>11. g.u.ind <= Len(b) /\ u.ok
    BY <1>1, <1>3, <2>0, <2>12
  <2> QED
    BY <2>2, <2>10, <2>11, <2>12, <2>13 DEF g, b
<1>4. CASE ~ (n.u.ok /\ i + n.v <= Len(b))
  <2>1. g = [u |-> [n.u EXCEPT !.ok = FALSE], v |-> old]
    BY <1>4 DEF GetString
  <2> HIDE DEF n, g, b, i
  <2>2. g.u.buf = n.u.buf /\ g.u.ind = i
    BY <1>1, <2>1 DEF Readers, i
  <2>3. g.u.ok = FALSE
    BY <1>1, <2>1 DEF Readers
  <2>4. g.u \in Readers
    BY <1>1, <2>1 DEF Readers
  <2> QED
    BY <1>1, <2>2, <2>3, <2>4 DEF g, b
<1> QED
  BY <1>3, <1>4

\* A vector that was got is the bytes it was got from.
LEMMA VectorBytes ==
    ASSUME NEW u \in Readers, u.ind <= Len(u.buf)
    PROVE  LET g == GetVector(u, << >>)
           IN  /\ g.u \in Readers /\ g.u.buf = u.buf /\ g.u.ind <= Len(u.buf)
               /\ g.u.ok => u.ok /\ Covers(u.buf, u.ind, g.u.ind, pack(Len(g.v)) \o Packed(g.v))
<1> DEFINE n == unpack(u)
           w == Unpack(n.u, n.v)
           g == GetVector(u, << >>)
           b == u.buf
<1>1. /\ n.u \in Readers /\ n.u.buf = b /\ n.u.ind <= Len(b) /\ n.v \in Words
      /\ n.u.ok => u.ok /\ Covers(b, u.ind, n.u.ind, pack(n.v))
  BY UnpackOne
<1>2. n.v \in Nat /\ b \in Seq(Byte) /\ u.ind \in Nat
  BY <1>1, WordFacts DEF Readers, Words
<1>3. g = [u |-> w.u, v |-> << >> \o w.v]
  BY DEF GetVector
<1> HIDE DEF n, b
<1>4. /\ w.u \in Readers /\ w.u.buf = b /\ w.u.ind <= Len(b)
      /\ w.v \in Seq(Words) /\ Len(w.v) = n.v
      /\ w.u.ok => n.u.ok /\ Covers(b, n.u.ind, w.u.ind, Packed(w.v))
  BY <1>1, <1>2, UnpackBytes
<1> HIDE DEF w, g
<1>5. g.u = w.u /\ g.v = w.v
  BY <1>3, <1>4, ConcatEmptySeq
<1>6. g.u.ok => u.ok /\ Covers(b, u.ind, g.u.ind, pack(Len(g.v)) \o Packed(g.v))
  BY <1>1, <1>2, <1>4, <1>5, CoversJoin
<1> QED
  BY <1>4, <1>5, <1>6 DEF g, b

\* The value of any type but a map is put as the very bytes it was got from.
LEMMA GetPut ==
    ASSUME NEW u \in Readers, u.ind <= Len(u.buf),
           NEW t \in {"int", "ull", "string", "attr", "vector"}
    PROVE  LET g == Get(t, u, Fresh(t))
           IN  /\ g.u \in Readers /\ g.u.buf = u.buf /\ g.u.ind <= Len(u.buf)
               /\ g.u.ok => u.ok /\ Covers(u.buf, u.ind, g.u.ind, Put(t, g.v))
<1>1. CASE t = "int"
  BY <1>1, UnpackOne DEF Get, Put
<1>2. CASE t = "ull"
  <2> DEFINE w == Unpack(u, 2)
             v == w.v[1] * WORD + w.v[2]
  <2>1. /\ w.u \in Readers /\ w.u.buf = u.buf /\ w.u.ind <= Len(u.buf)
        /\ w.v \in Seq(Words) /\ Len(w.v) = 2
        /\ w.u.ok => u.ok /\ Covers(u.buf, u.ind, w.u.ind, Packed(w.v))
    BY UnpackBytes
  <2>2. Get(t, u, Fresh(t)) = [u |-> w.u, v |-> v]
    BY <1>2 DEF Get
  <2> HIDE DEF w
  <2>3. w.v[1] \in Words /\ w.v[2] \in Words /\ w.v = <<w.v[1], w.v[2]>>
    BY <2>1
  <2>4. v \div WORD = w.v[1] /\ v % WORD = w.v[2]
    <3>1. WORD \in Nat /\ WORD >= 2 /\ w.v[1] \in Nat /\ w.v[2] \in 0 .. WORD - 1
      BY <2>3, WordFacts DEF Words
    <3> QED
      BY <3>1, DivModUnique
  <2> HIDE DEF v
  <2>5. Put(t, v) = Packed(w.v)
    BY <1>2, <2>3, <2>4 DEF Put
  <2> QED
    BY <2>1, <2>2, <2>5
<1>3. CASE t = "string"
  BY <1>3, StringBytes DEF Get, Put
<1>4. CASE t = "attr"
  <2>1. Get(t, u, Fresh(t)) = Unpack(u, 5) /\ \A v : Put(t, v) = Packed(v)
    BY <1>4 DEF Get, Put
  <2> QED
    BY <2>1, UnpackBytes
<1>5. CASE t = "vector"
  BY <1>5, VectorBytes DEF Get, Put, Fresh
<1> QED
  BY <1>1, <1>2, <1>3, <1>4, <1>5

-----------------------------------------------------------------------------
(* Several arguments. *)

\* One argument.
LEMMA PutAllOne ==
    ASSUME NEW types, Len(types) = 1, NEW vs, Put(types[1], vs[1]) \in Seq(Byte)
    PROVE  PutAll(types, vs) = Put(types[1], vs[1])
<1> DEFINE P(k) == Put(types[k], vs[k])
           IsPut(f) == f = [k \in 0 .. 1 |-> IF k = 0 THEN << >> ELSE f[k - 1] \o P(k)]
           put == CHOOSE f : IsPut(f)
<1>1. PutAll(types, vs) = put[1]
  BY DEF PutAll
<1> HIDE DEF P
<1>2. \E f : IsPut(f)
  <2> DEFINE f == [k \in 0 .. 1 |-> IF k = 0 THEN << >> ELSE << >> \o P(1)]
  <2>1. f[0] = << >>
    OBVIOUS
  <2>2. [k \in 0 .. 1 |-> IF k = 0 THEN << >> ELSE f[k - 1] \o P(k)] = f
    <3>1. ASSUME NEW k \in 0 .. 1, k # 0 PROVE f[k - 1] \o P(k) = << >> \o P(1)
      <4>1. k = 1 /\ k - 1 = 0
        BY <3>1
      <4> HIDE DEF f
      <4> QED
        BY <2>1, <4>1
    <3> QED
      BY <3>1
  <2> QED
    BY <2>2
<1>3. IsPut(put)
  BY <1>2
<1> HIDE DEF put
<1>4. put[0] = << >> /\ put[1] = put[0] \o P(1)
  BY <1>3
<1> QED
  BY <1>1, <1>4, ConcatEmptySeq DEF P

\* Two arguments.
LEMMA PutAllTwo ==
    ASSUME NEW types, Len(types) = 2, NEW vs,
           Put(types[1], vs[1]) \in Seq(Byte), Put(types[2], vs[2]) \in Seq(Byte)
    PROVE  PutAll(types, vs) = Put(types[1], vs[1]) \o Put(types[2], vs[2])
<1> DEFINE P(k) == Put(types[k], vs[k])
           IsPut(f) == f = [k \in 0 .. 2 |-> IF k = 0 THEN << >> ELSE f[k - 1] \o P(k)]
           put == CHOOSE f : IsPut(f)
<1>1. PutAll(types, vs) = put[2]
  BY DEF PutAll
<1> HIDE DEF P
<1>2. \E f : IsPut(f)
  <2> DEFINE f1 == << >> \o P(1)
             f2 == f1 \o P(2)
             f == [k \in 0 .. 2 |-> IF k = 0 THEN << >> ELSE IF k = 1 THEN f1 ELSE f2]
  <2> HIDE DEF f1, f2
  <2>1. f[0] = << >> /\ f[1] = f1
    OBVIOUS
  <2>2. [k \in 0 .. 2 |-> IF k = 0 THEN << >> ELSE f[k - 1] \o P(k)] = f
    <3>1. ASSUME NEW k \in 0 .. 2, k # 0 PROVE f[k - 1] \o P(k) = IF k = 1 THEN f1 ELSE f2
      <4>1. CASE k = 1
        <5>1. k - 1 = 0
          BY <4>1
        <5> HIDE DEF f
        <5> QED
          BY <2>1, <4>1, <5>1 DEF f1
      <4>2. CASE k = 2
        <5>1. k - 1 = 1 /\ k # 1
          BY <4>2
        <5> HIDE DEF f
        <5> QED
          BY <2>1, <4>2, <5>1 DEF f2
      <4> QED
        BY <3>1, <4>1, <4>2
    <3> QED
      BY <3>1
  <2> QED
    BY <2>2
<1>3. IsPut(put)
  BY <1>2
<1> HIDE DEF put
<1>4. put[0] = << >> /\ put[1] = put[0] \o P(1) /\ put[2] = put[1] \o P(2)
  <2>1. \A k \in 0 .. 2 : put[k] = IF k = 0 THEN << >> ELSE put[k - 1] \o P(k)
    BY <1>3
  <2>2. put[0] = << >>
    BY <2>1
  <2>3. put[1] = put[0] \o P(1)
    BY <2>1
  <2>4. put[2] = put[1] \o P(2)
    BY <2>1
  <2> QED
    BY <2>2, <2>3, <2>4
<1> QED
  BY <1>1, <1>4, ConcatEmptySeq DEF P

\* The effect of one >> on what has been taken so far.
Taken(t, acc) == [u |-> Get(t, acc.u, Fresh(t)).u, v |-> Append(acc.v, Get(t, acc.u, Fresh(t)).v)]

\* One argument.
LEMMA GetAllOne ==
    ASSUME NEW types, Len(types) = 1, NEW u
    PROVE  GetAll(types, u) = Taken(types[1], [u |-> u, v |-> << >>])
<1> DEFINE start == [u |-> u, v |-> << >>]
           IsGet(f) == f = [k \in 0 .. 1 |-> IF k = 0 THEN start ELSE Taken(types[k], f[k - 1])]
           get == CHOOSE f : IsGet(f)
<1>1. GetAll(types, u) = get[1]
  BY DEF GetAll, Taken
<1> HIDE DEF start
<1>2. \E f : IsGet(f)
  <2> DEFINE f1 == Taken(types[1], start)
             f == [k \in 0 .. 1 |-> IF k = 0 THEN start ELSE f1]
  <2> HIDE DEF f1
  <2>1. f[0] = start
    OBVIOUS
  <2>2. [k \in 0 .. 1 |-> IF k = 0 THEN start ELSE Taken(types[k], f[k - 1])] = f
    <3>1. ASSUME NEW k \in 0 .. 1, k # 0 PROVE Taken(types[k], f[k - 1]) = f1
      <4>1. k = 1 /\ k - 1 = 0
        BY <3>1
      <4> HIDE DEF f
      <4> QED
        BY <2>1, <4>1 DEF f1
    <3> QED
      BY <3>1
  <2> QED
    BY <2>2
<1>3. IsGet(get)
  BY <1>2
<1> HIDE DEF get
<1>4. get[0] = start /\ get[1] = Taken(types[1], get[0])
  BY <1>3
<1> QED
  BY <1>1, <1>4 DEF start

\* Two arguments.
LEMMA GetAllTwo ==
    ASSUME NEW types, Len(types) = 2, NEW u
    PROVE  GetAll(types, u) = Taken(types[2], Taken(types[1], [u |-> u, v |-> << >>]))
<1> DEFINE start == [u |-> u, v |-> << >>]
           IsGet(f) == f = [k \in 0 .. 2 |-> IF k = 0 THEN start ELSE Taken(types[k], f[k - 1])]
           get == CHOOSE f : IsGet(f)
<1>1. GetAll(types, u) = get[2]
  BY DEF GetAll, Taken
<1> HIDE DEF start
<1>2. \E f : IsGet(f)
  <2> DEFINE f1 == Taken(types[1], start)
             f2 == Taken(types[2], f1)
             f == [k \in 0 .. 2 |-> IF k = 0 THEN start ELSE IF k = 1 THEN f1 ELSE f2]
  <2> HIDE DEF f1, f2
  <2>1. f[0] = start /\ f[1] = f1
    OBVIOUS
  <2>2. [k \in 0 .. 2 |-> IF k = 0 THEN start ELSE Taken(types[k], f[k - 1])] = f
    <3>1. ASSUME NEW k \in 0 .. 2, k # 0 PROVE Taken(types[k], f[k - 1]) = IF k = 1 THEN f1 ELSE f2
      <4>1. CASE k = 1
        <5>1. k - 1 = 0
          BY <4>1
        <5> HIDE DEF f
        <5> QED
          BY <2>1, <4>1, <5>1 DEF f1
      <4>2. CASE k = 2
        <5>1. k - 1 = 1 /\ k # 1
          BY <4>2
        <5> HIDE DEF f
        <5> QED
          BY <2>1, <4>2, <5>1 DEF f2
      <4> QED
        BY <3>1, <4>1, <4>2
    <3> QED
      BY <3>1
  <2> QED
    BY <2>2
<1>3. IsGet(get)
  BY <1>2
<1> HIDE DEF get
<1>4. get[0] = start /\ get[1] = Taken(types[1], get[0]) /\ get[2] = Taken(types[2], get[1])
  BY <1>3
<1> QED
  BY <1>1, <1>4 DEF start

Types == {"int", "ull", "string", "attr", "vector", "map"}

\* Append, element by element.
LEMMA AppendFacts ==
    ASSUME NEW S, NEW s \in Seq(S), NEW e \in S
    PROVE  /\ Append(s, e) \in Seq(S) /\ Len(Append(s, e)) = Len(s) + 1
           /\ Append(s, e)[Len(s) + 1] = e
           /\ \A i \in 1 .. Len(s) : Append(s, e)[i] = s[i]
  OBVIOUS

\* A pair by Append.
LEMMA AppendTwo == \A a, b : Append(<<a>>, b) = <<a, b>>
<1> SUFFICES ASSUME NEW a, NEW b PROVE Append(<<a>>, b) = <<a, b>>
  OBVIOUS
<1> DEFINE S == {a, b}
           s == <<a>>
<1>1. s \in Seq(S) /\ b \in S /\ Len(s) = 1 /\ s[1] = a
  OBVIOUS
<1>2. <<a, b>> \in Seq(S) /\ Len(<<a, b>>) = 2 /\ <<a, b>>[1] = a /\ <<a, b>>[2] = b
  OBVIOUS
<1> HIDE DEF s, S
<1> DEFINE two == <<a, b>>
           app == Append(s, b)
<1>3. /\ app \in Seq(S) /\ Len(app) = Len(s) + 1 /\ app[Len(s) + 1] = b
      /\ \A i \in 1 .. Len(s) : app[i] = s[i]
  BY <1>1, AppendFacts
<1>4. two \in Seq(S) /\ Len(two) = 2 /\ two[1] = a /\ two[2] = b
  BY <1>2
<1> HIDE DEF two, app
<1>5. Len(app) = 2 /\ app[1] = a /\ app[2] = b
  BY <1>1, <1>3
<1>6. \A i \in 1 .. 2 : app[i] = two[i]
  BY <1>4, <1>5
<1>7. app = two
  BY <1>3, <1>4, <1>5, <1>6, SeqEqual
<1> QED
  BY <1>7 DEF s, two, app

\* What is put is bytes.
LEMMA PutType ==
    ASSUME NEW t \in Types, NEW v, IsValue(t, v)
    PROVE  Put(t, v) \in Seq(Byte)
<1>0. \A n \in Words, s \in Seq(Byte) : pack(n) \o s \in Seq(Byte)
  BY PackIsPacked, ConcatProperties
<1>1. CASE t = "int"
  BY <1>1, PackIsPacked DEF IsValue, Put
<1>2. CASE t = "ull"
  <2> DEFINE ns == <<v \div WORD, v % WORD>>
  <2>1. v \in 0 .. WORD * WORD - 1 /\ Put(t, v) = Packed(ns) /\ WORD \in Nat /\ WORD >= 2
    BY <1>2, WordFacts DEF IsValue, Put
  <2>2. v \in Nat /\ v \div WORD \in Nat /\ v % WORD \in Words /\ v = (v \div WORD) * WORD + (v % WORD)
    <3>1. v \in Nat /\ WORD \in Nat /\ WORD >= 2
      BY <2>1
    <3> QED
      BY <3>1, DivMod DEF Words
  <2>3. v % WORD \in Nat /\ (v \div WORD) * WORD + (v % WORD) < WORD * WORD
    BY <2>1, <2>2 DEF Words
  <2>4. v \div WORD < WORD
    BY <2>1, <2>2, <2>3, LessByFactor
  <2>5. v \div WORD \in Words
    BY <2>1, <2>2, <2>4 DEF Words
  <2>6. ns \in Seq(Words)
    BY <2>2, <2>5
  <2> QED
    BY <2>1, <2>6, PackedFacts
<1>3. CASE t = "string"
  <2>1. v \in Seq(Byte) /\ Len(v) \in Words /\ Put(t, v) = pack(Len(v)) \o v
    BY <1>3, WordFacts, LenProperties DEF IsValue, Put, Words
  <2> QED
    BY <1>0, <2>1
<1>4. CASE t = "attr"
  <2>1. v \in [1 .. 5 -> Words] /\ Put(t, v) = Packed(v)
    BY <1>4 DEF IsValue, Put
  <2>2. v = [k \in 1 .. 5 |-> v[k]] /\ \A k \in 1 .. 5 : v[k] \in Words
    BY <2>1
  <2>3. [k \in 1 .. 5 |-> v[k]] \in Seq(Words)
    BY <2>2
  <2> QED
    BY <2>1, <2>2, <2>3, PackedFacts
<1>5. CASE t = "vector"
  <2>1. v \in Seq(Words) /\ Len(v) \in Words /\ Put(t, v) = pack(Len(v)) \o Packed(v)
    BY <1>5, WordFacts, LenProperties DEF IsValue, Put, Words
  <2>2. Packed(v) \in Seq(Byte)
    BY <2>1, PackedFacts
  <2> QED
    BY <1>0, <2>1, <2>2
<1>6. CASE t = "map"
  <2>1. /\ Cardinality(DOMAIN v) \in Words /\ Pairs(v) \in Seq(Words)
        /\ Put(t, v) = pack(Cardinality(DOMAIN v)) \o Packed(Pairs(v))
    BY <1>6, PairsFacts DEF Put
  <2>2. Packed(Pairs(v)) \in Seq(Byte)
    BY <2>1, PackedFacts
  <2> QED
    BY <1>0, <2>1, <2>2
<1> QED
  BY <1>1, <1>2, <1>3, <1>4, <1>5, <1>6 DEF Types

\* A variable that nothing has been read into takes the value that was put.
LEMMA PutGetFresh ==
    ASSUME NEW buf \in Seq(Byte), NEW i \in Nat, NEW t \in Types, NEW v, IsValue(t, v),
           Segment(buf, i, Put(t, v))
    PROVE  Get(t, Unmarshall(buf, i), Fresh(t)) = [u |-> Unmarshall(buf, i + Len(Put(t, v))), v |-> v]
<1>1. Get(t, Unmarshall(buf, i), Fresh(t))
         = [u |-> Unmarshall(buf, i + Len(Put(t, v))), v |-> IF t = "vector" THEN Fresh(t) \o v ELSE v]
  BY PutGet DEF Types
<1>2. t = "vector" => Fresh(t) \o v = v
  <2>1. t = "vector" => v \in Seq(Words) /\ Fresh(t) = << >>
    BY DEF IsValue, Fresh
  <2> QED
    BY <2>1, ConcatEmptySeq
<1> QED
  BY <1>1, <1>2

\* The arguments of a method, one or two, are taken as they were given, when the
\* caller gave them with the types of the method.
LEMMA ArgsBack ==
    ASSUME NEW types \in Seq(Types), Len(types) \in {1, 2}, NEW args,
           args = [k \in DOMAIN types |-> args[k]],
           \A k \in DOMAIN types : IsValue(types[k], args[k]),
           NEW buf \in Seq(Byte), NEW i \in Nat, Len(buf) = i + Len(PutAll(types, args)),
           Segment(buf, i, PutAll(types, args))
    PROVE  GetAll(types, Unmarshall(buf, i)) = [u |-> Unmarshall(buf, Len(buf)), v |-> args]
<1> DEFINE p1 == Put(types[1], args[1])
           p2 == Put(types[2], args[2])
           start == [u |-> Unmarshall(buf, i), v |-> << >>]
<1>1. types[1] \in Types /\ IsValue(types[1], args[1]) /\ DOMAIN types = 1 .. Len(types)
  BY LenProperties
<1>2. p1 \in Seq(Byte) /\ Len(p1) \in Nat
  BY <1>1, PutType, LenProperties
<1>3. start.u = Unmarshall(buf, i) /\ start.v = << >>
  OBVIOUS
<1> HIDE DEF start
<1>4. ASSUME Segment(buf, i, p1)
      PROVE  Taken(types[1], start) = [u |-> Unmarshall(buf, i + Len(p1)), v |-> <<args[1]>>]
  <2>1. Get(types[1], start.u, Fresh(types[1])) = [u |-> Unmarshall(buf, i + Len(p1)), v |-> args[1]]
    BY <1>1, <1>3, <1>4, PutGetFresh
  <2>2. Append(<< >>, args[1]) = <<args[1]>>
    OBVIOUS
  <2> QED
    BY <1>3, <2>1, <2>2 DEF Taken
<1>5. CASE Len(types) = 1
  <2>1. PutAll(types, args) = p1
    BY <1>2, <1>5, PutAllOne
  <2>2. GetAll(types, Unmarshall(buf, i)) = Taken(types[1], start)
    BY <1>5, GetAllOne DEF start
  <2>3. args = <<args[1]>>
    BY <1>1, <1>5
  <2> QED
    BY <1>4, <2>1, <2>2, <2>3
<1>6. CASE Len(types) = 2
  <2>1. types[2] \in Types /\ IsValue(types[2], args[2])
    <3>1. 2 \in DOMAIN types /\ 2 \in 1 .. Len(types)
      BY <1>1, <1>6
    <3>2. types[2] \in Types
      BY <3>1, ElementOfSeq
    <3> QED
      BY <3>1, <3>2
  <2>2. p2 \in Seq(Byte) /\ Len(p2) \in Nat
    BY <2>1, PutType, LenProperties
  <2>3. PutAll(types, args) = p1 \o p2
    BY <1>2, <1>6, <2>2, PutAllTwo
  <2> HIDE DEF p1, p2
  <2>4. Segment(buf, i, p1) /\ Segment(buf, i + Len(p1), p2) /\ Len(buf) = i + (Len(p1) + Len(p2))
    <3>1. Segment(buf, i, p1 \o p2) /\ Len(buf) = i + Len(p1 \o p2)
      BY <2>3
    <3>2. Segment(buf, i, p1) /\ Segment(buf, i + Len(p1), p2) /\ Len(p1 \o p2) = Len(p1) + Len(p2)
      BY <1>2, <2>2, <3>1, SegmentSplit
    <3> QED
      BY <3>1, <3>2
  <2> DEFINE mid == [u |-> Unmarshall(buf, i + Len(p1)), v |-> <<args[1]>>]
  <2>5. GetAll(types, Unmarshall(buf, i)) = Taken(types[2], mid)
    BY <1>4, <1>6, <2>4, GetAllTwo DEF start
  <2>6. i + Len(p1) \in Nat /\ (i + Len(p1)) + Len(p2) = Len(buf)
    BY <1>2, <2>2, <2>4
  <2>7. mid.u = Unmarshall(buf, i + Len(p1)) /\ mid.v = <<args[1]>>
    OBVIOUS
  <2> HIDE DEF mid
  <2>8. Get(types[2], mid.u, Fresh(types[2])) = [u |-> Unmarshall(buf, (i + Len(p1)) + Len(p2)), v |-> args[2]]
    BY <2>1, <2>4, <2>6, <2>7, PutGetFresh, SMTT(40) DEF p2
  <2>9. Taken(types[2], mid) = [u |-> Unmarshall(buf, Len(buf)), v |-> Append(<<args[1]>>, args[2])]
    <3> DEFINE g == Get(types[2], mid.u, Fresh(types[2]))
    <3>1. g.u = Unmarshall(buf, (i + Len(p1)) + Len(p2)) /\ g.v = args[2]
      BY <2>8
    <3>2. g.u = Unmarshall(buf, Len(buf))
      BY <2>6, <3>1
    <3>3. Taken(types[2], mid) = [u |-> g.u, v |-> Append(mid.v, g.v)]
      BY DEF Taken
    <3> HIDE DEF g
    <3> QED
      BY <2>7, <3>1, <3>2, <3>3
  <2>10. args = Append(<<args[1]>>, args[2])
    <3>1. args = <<args[1], args[2]>>
      BY <1>1, <1>6
    <3> QED
      BY <3>1, AppendTwo
  <2> QED
    BY <2>5, <2>9, <2>10
<1> QED
  BY <1>5, <1>6

\* Arguments of these types that are accepted are all the bytes of the request.
LEMMA ArgsBytes ==
    ASSUME NEW types \in Seq({"int", "ull", "string", "attr", "vector"}), Len(types) \in {1, 2},
           NEW buf \in Seq(Byte), NEW i \in Nat, i <= Len(buf),
           okdone(GetAll(types, Unmarshall(buf, i)).u)
    PROVE  Covers(buf, i, Len(buf), PutAll(types, GetAll(types, Unmarshall(buf, i)).v))
<1> DEFINE T == {"int", "ull", "string", "attr", "vector"}
           u0 == Unmarshall(buf, i)
           g1 == Get(types[1], u0, Fresh(types[1]))
           g2 == Get(types[2], g1.u, Fresh(types[2]))
           start == [u |-> u0, v |-> << >>]
           first == Taken(types[1], start)
           got == GetAll(types, Unmarshall(buf, i))
<1>1. types[1] \in T
  BY ElementOfSeq
<1>2. u0 \in Readers /\ u0.buf = buf /\ u0.ind = i
  BY DEF Unmarshall, Readers
<1>3. /\ g1.u \in Readers /\ g1.u.buf = buf /\ g1.u.ind <= Len(buf)
      /\ g1.u.ok => Covers(buf, i, g1.u.ind, Put(types[1], g1.v))
  <2> HIDE DEF u0
  <2> QED
    BY <1>1, <1>2, GetPut
<1>4. first.u = g1.u /\ first.v = <<g1.v>>
  <2> HIDE DEF g1, u0
  <2>1. start.u = u0 /\ start.v = << >>
    OBVIOUS
  <2>2. Get(types[1], start.u, Fresh(types[1])) = g1
    BY <2>1 DEF g1
  <2>3. first = [u |-> g1.u, v |-> Append(start.v, g1.v)]
    BY <2>2 DEF Taken
  <2>4. first = [u |-> g1.u, v |-> Append(<< >>, g1.v)]
    BY <2>1, <2>3
  <2> QED
    BY <2>4
<1>5. CASE Len(types) = 1
  <2>1. got = first
    BY <1>5, GetAllOne
  <2> HIDE DEF first, got, g1
  <2>2. got.u = g1.u /\ got.v = <<g1.v>> /\ got.v[1] = g1.v
    BY <1>4, <2>1
  <2>3. g1.u.ok /\ g1.u.ind = Len(buf)
    BY <1>3, <2>2 DEF okdone, got
  <2>4. Covers(buf, i, Len(buf), Put(types[1], g1.v)) /\ Put(types[1], g1.v) \in Seq(Byte)
    BY <1>3, <2>3 DEF Covers
  <2>5. PutAll(types, got.v) = Put(types[1], g1.v)
    BY <1>5, <2>2, <2>4, PutAllOne
  <2> QED
    BY <2>4, <2>5 DEF got
<1>6. CASE Len(types) = 2
  <2>1. types[2] \in T
    <3> HIDE DEF first, got, g1, u0, start
    <3>1. 2 \in 1 .. Len(types)
      BY <1>6
    <3> QED
      BY <3>1, ElementOfSeq
  <2>2. got = Taken(types[2], first)
    BY <1>6, GetAllTwo
  <2> HIDE DEF first, got, g1, u0
  <2>3. /\ g2.u \in Readers /\ g2.u.buf = buf /\ g2.u.ind <= Len(buf)
        /\ g2.u.ok => g1.u.ok /\ Covers(buf, g1.u.ind, g2.u.ind, Put(types[2], g2.v))
    BY <1>3, <2>1, GetPut
  <2>4. Get(types[2], first.u, Fresh(types[2])) = g2
    BY <1>4
  <2> HIDE DEF g2
  <2>5. got = [u |-> g2.u, v |-> Append(first.v, g2.v)]
    BY <2>2, <2>4 DEF Taken
  <2>6. got.u = g2.u /\ got.v = <<g1.v, g2.v>>
    BY <1>4, <2>5, AppendTwo
  <2>7. got.v[1] = g1.v /\ got.v[2] = g2.v
    BY <2>6
  <2>8. g2.u.ok /\ g2.u.ind = Len(buf)
    BY <2>3, <2>6 DEF okdone, got
  <2>9. Covers(buf, i, g1.u.ind, Put(types[1], g1.v)) /\ Covers(buf, g1.u.ind, Len(buf), Put(types[2], g2.v))
    BY <1>3, <2>3, <2>8
  <2>10. Covers(buf, i, Len(buf), Put(types[1], g1.v) \o Put(types[2], g2.v))
    BY <2>9, CoversJoin
  <2>11. Put(types[1], g1.v) \in Seq(Byte) /\ Put(types[2], g2.v) \in Seq(Byte)
    BY <2>9 DEF Covers
  <2>12. PutAll(types, got.v) = Put(types[1], g1.v) \o Put(types[2], g2.v)
    BY <1>6, <2>7, <2>11, PutAllTwo
  <2> QED
    BY <2>10, <2>12 DEF got
<1> QED
  BY <1>5, <1>6

-----------------------------------------------------------------------------
(* Messages. *)

\* The header is written behind the place for the size and before the content.
LEMMA Header ==
    ASSUME NEW c \in Seq(Byte), NEW ns \in Seq(Words), Len(ns) <= 5
    PROVE  LET buf == pack_header(Buffer(c), ns)
           IN  /\ buf \in Seq(Byte) /\ Len(buf) = 24 + Len(c)
               /\ Segment(buf, 24, c)
               /\ unpack_header(buf, Len(ns)) = ns
<1> DEFINE room == [k \in 1 .. 24 |-> 0]
           b == Buffer(c)
           h == Packed(ns)
           buf == pack_header(Buffer(c), ns)
<1>1. RPC_HEADER_SZ = 24 /\ SizeofInt = 4
  BY DEF RPC_HEADER_SZ, SizeofInt, SizeofReq, SizeofReply
<1>2. room \in Seq(Byte) /\ Len(room) = 24
  <2>1. 0 \in Byte
    BY ByteAssumption DEF Byte
  <2> QED
    BY <2>1
<1>3. b = room \o c
  BY <1>1 DEF Buffer
<1> HIDE DEF room
<1>4. /\ b \in Seq(Byte) /\ Len(b) = 24 + Len(c)
      /\ \A k \in 1 .. Len(c) : b[24 + k] = c[k]
  <2> HIDE DEF b
  <2>1. room \o c \in Seq(Byte) /\ Len(room \o c) = Len(room) + Len(c)
    BY <1>2, ConcatProperties
  <2>2. \A k \in 1 .. Len(room) + Len(c) : (room \o c)[k] = IF k <= Len(room) THEN room[k] ELSE c[k - Len(room)]
    BY <1>2, ConcatProperties
  <2>3. ASSUME NEW k \in 1 .. Len(c) PROVE b[24 + k] = c[k]
    <3>1. 24 + k \in 1 .. Len(room) + Len(c) /\ ~ 24 + k <= Len(room) /\ (24 + k) - Len(room) = k
      BY <1>2, LenProperties
    <3> QED
      BY <1>3, <2>2, <3>1
  <2> QED
    BY <1>2, <1>3, <2>1, <2>3
<1>5. h \in Seq(Byte) /\ Len(h) = 4 * Len(ns) /\ Len(ns) \in Nat /\ Len(h) <= 20
  BY PackedFacts, LenProperties
<1>6. buf = [k \in 1 .. Len(b) |-> IF k > 4 /\ k <= 4 + Len(h) THEN h[k - 4] ELSE b[k]]
  BY <1>1, <1>4 DEF pack_header
<1> HIDE DEF b, h, buf
<1>7. buf \in Seq(Byte) /\ Len(buf) = 24 + Len(c)
  <2>1. ASSUME NEW k \in 1 .. Len(b) PROVE (IF k > 4 /\ k <= 4 + Len(h) THEN h[k - 4] ELSE b[k]) \in Byte
    BY <1>4, <1>5, <2>1
  <2> QED
    BY <1>4, <1>6, <2>1
<1>8. Segment(buf, 24, c)
  BY <1>4, <1>5, <1>6, <1>7 DEF Segment
<1>9. Segment(buf, 4, h)
  BY <1>4, <1>5, <1>6, <1>7 DEF Segment
<1>10. unpack_header(buf, Len(ns)) = ns
  <2>1. Segment(buf, 4, Packed(ns))
    BY <1>9 DEF h
  <2>2. Unpack(Unmarshall(buf, 4), Len(ns)) = [u |-> Unmarshall(buf, 4 + 4 * Len(ns)), v |-> ns]
    BY <1>7, <2>1, UnpackPacked
  <2>3. unpack_header(buf, Len(ns)) = Unpack(Unmarshall(buf, 4), Len(ns)).v
    BY <1>1 DEF unpack_header
  <2> QED
    BY <2>2, <2>3
<1> QED
  BY <1>7, <1>8, <1>10 DEF buf

\* What a call's number is in every message, and the two kinds of messages.
Xid(m) == NumberAt(m.buf, SizeofInt)

Asked(x, q) ==
    [to |-> "server",
     buf |-> pack_header(Buffer(PutAll(q.types, q.args)), <<x, procs_[q.proc].num, 0, 0, 0>>)]

-----------------------------------------------------------------------------
(* The inductive invariant. *)

\* A call that has been made.
Known(c) ==
    /\ c = [st |-> c.st, q |-> c.q, r |-> c.r, intret |-> c.intret]
    /\ c.st \in {"waiting", "done"} /\ c.q \in Requests

\* A method that ran for a call q got the arguments of q.
Ran(q, e) ==
    LET types == procs_[q.proc].args
    IN  /\ e.b \in Codes /\ e.r \in Results[procs_[q.proc].ret]
        /\ q.types = types => e.args = q.args
        /\ (\A j \in DOMAIN types : types[j] # "map") => PutAll(types, e.args) = PutAll(q.types, q.args)

\* A message of call x: its request, of which nothing has been run; the answer
\* to arguments that were not accepted; or the answer of the method that ran.
Of(m, x) ==
    /\ calls[x] # NoCall
    /\ \/ executed[x] = << >> /\ m = Asked(x, calls[x].q)
       \/ executed[x] = << >> /\ m = Reply(<<x>>, unmarshal_args_failure, << >>)
       \/ /\ executed[x] # << >>
          /\ m = Reply(<<x>>, executed[x][1].b, Put(procs_[calls[x].q.proc].ret, executed[x][1].r))

\* How a call has ended.
TimedOut(x) == calls[x].intret = timeout_failure /\ calls[x].r = calls[x].q.r

Refused(x) ==
    calls[x].intret = unmarshal_args_failure /\ calls[x].r = calls[x].q.r /\ executed[x] = << >>

Finished(x) ==
    LET q == calls[x].q
        e == executed[x][1]
    IN  /\ executed[x] # << >> /\ calls[x].intret = e.b
        /\ q.ret = procs_[q.proc].ret => calls[x].r = IF q.ret = "vector" THEN q.r \o e.r ELSE e.r

CallInv ==
    /\ calls = [x \in Calls |-> calls[x]]
    /\ \A x \in Calls : calls[x] = NoCall \/ Known(calls[x])

ExecInv ==
    /\ executed = [x \in Calls |-> executed[x]]
    /\ \A x \in Calls :
          \/ executed[x] = << >>
          \/ calls[x] # NoCall /\ executed[x] = <<executed[x][1]>> /\ Ran(calls[x].q, executed[x][1])

NetInv ==
    /\ \A m \in net : Xid(m) \in Calls /\ Of(m, Xid(m))
    /\ \A m, n \in net : Xid(m) = Xid(n) => m = n

EndInv ==
    \A x \in Calls :
        /\ calls[x].st = "waiting" => calls[x].r = calls[x].q.r
        /\ calls[x].st = "done" =>
              TimedOut(x) \/ ((\A m \in net : Xid(m) # x) /\ (Refused(x) \/ Finished(x)))

StatusInv == status \in {"up", "aborted"} /\ AbortMeansWrongReturnType

RpcInv == CallInv /\ ExecInv /\ NetInv /\ EndInv /\ StatusInv

-----------------------------------------------------------------------------
(* What the messages of a call contain. *)

\* The registered procedures.
LEMMA ProcNames == Procs = {"get", "getattr", "put", "remove", "list", "table"}
  BY DEF Procs, procs_

\* Every registered procedure has one or two arguments and a result.
LEMMA ProcFacts ==
    ASSUME NEW p \in Procs
    PROVE  /\ procs_[p].num \in 1 .. 6
           /\ procs_[p].args \in Seq(Types) /\ Len(procs_[p].args) \in {1, 2}
           /\ procs_[p].ret \in Types
<1> DEFINE d == procs_[p]
<1> SUFFICES d.num \in 1 .. 6 /\ d.args \in Seq(Types) /\ Len(d.args) \in {1, 2} /\ d.ret \in Types
  OBVIOUS
<1>0. {"int", "ull", "string", "attr", "vector", "map"} = Types
  BY DEF Types
<1>1. /\ <<"ull">> \in Seq(Types) /\ <<"int">> \in Seq(Types)
      /\ <<"ull", "string">> \in Seq(Types) /\ <<"vector", "map">> \in Seq(Types)
      /\ "string" \in Types /\ "attr" \in Types /\ "int" \in Types /\ "vector" \in Types /\ "map" \in Types
      /\ Len(<<"ull">>) = 1 /\ Len(<<"int">>) = 1
      /\ Len(<<"ull", "string">>) = 2 /\ Len(<<"vector", "map">>) = 2
  BY <1>0
<1>2. CASE p = "get"
  <2>1. d.num = 2 /\ d.args = <<"ull">> /\ d.ret = "string"
    BY <1>2 DEF procs_
  <2> HIDE DEF d
  <2> QED
    BY <1>1, <2>1
<1>3. CASE p = "getattr"
  <2>1. d.num = 3 /\ d.args = <<"ull">> /\ d.ret = "attr"
    BY <1>3 DEF procs_
  <2> HIDE DEF d
  <2> QED
    BY <1>1, <2>1
<1>4. CASE p = "put"
  <2>1. d.num = 1 /\ d.args = <<"ull", "string">> /\ d.ret = "int"
    BY <1>4 DEF procs_
  <2> HIDE DEF d
  <2> QED
    BY <1>1, <2>1
<1>5. CASE p = "remove"
  <2>1. d.num = 4 /\ d.args = <<"ull">> /\ d.ret = "int"
    BY <1>5 DEF procs_
  <2> HIDE DEF d
  <2> QED
    BY <1>1, <2>1
<1>6. CASE p = "list"
  <2>1. d.num = 5 /\ d.args = <<"vector", "map">> /\ d.ret = "vector"
    BY <1>6 DEF procs_
  <2> HIDE DEF d
  <2> QED
    BY <1>1, <2>1
<1>7. CASE p = "table"
  <2>1. d.num = 6 /\ d.args = <<"int">> /\ d.ret = "map"
    BY <1>7 DEF procs_
  <2> HIDE DEF d
  <2> QED
    BY <1>1, <2>1
<1> QED
  BY <1>2, <1>3, <1>4, <1>5, <1>6, <1>7, ProcNames

\* dispatch finds the handler that the caller meant.
LEMMA ProcByNumber ==
    ASSUME NEW p \in Procs
    PROVE  (CHOOSE r \in Procs : procs_[r].num = procs_[p].num) = p
<1>1. \A r \in Procs : procs_[r].num = procs_[p].num => r = p
  BY ProcNames DEF procs_
<1> QED
  BY <1>1

\* A return value is read from the header as it was written, also one below 0.
LEMMA CodeBack ==
    ASSUME NEW c \in Codes \cup {unmarshal_args_failure}
    PROVE  /\ c % WORD \in Words
           /\ Signed(c % WORD) = c
<1>1. WORD \in Nat /\ WORD >= 16
  BY WordFacts
<1>2. \A n \in 0 .. WORD - 1 : n % WORD = n
  BY <1>1
<1>3. (-2) % WORD = WORD - 2
  BY <1>1
<1>4. CASE c \in Codes
  <2>1. c \in 0 .. 3
    BY <1>4 DEF Codes
  <2>2. c % WORD = c
    BY <1>1, <1>2, <2>1
  <2> QED
    BY <1>1, <2>1, <2>2 DEF Words, Signed
<1>5. CASE c = -2
  <2>1. c % WORD = WORD - 2
    BY <1>3, <1>5
  <2> QED
    BY <1>1, <1>5, <2>1 DEF Words, Signed
<1> QED
  BY <1>4, <1>5 DEF unmarshal_args_failure

\* The first field of both headers is the number of the call.
LEMMA FirstOfHeader ==
    ASSUME NEW buf, NEW n \in Nat, n >= 1
    PROVE  unpack_header(buf, n)[1] = NumberAt(buf, SizeofInt)
<1>1. Unmarshall(buf, SizeofInt).buf = buf /\ Unmarshall(buf, SizeofInt).ind = 4
  BY DEF Unmarshall, SizeofInt
<1>2. unpack_header(buf, n) = [k \in 1 .. n |-> NumberAt(buf, 4 + 4 * (k - 1))]
  <2> DEFINE u == Unmarshall(buf, SizeofInt)
  <2>1. unpack_header(buf, n) = [k \in 1 .. n |-> NumberAt(u.buf, u.ind + 4 * (k - 1))]
    BY DEF unpack_header, Unpack, SizeofInt
  <2> HIDE DEF u
  <2>2. u.buf = buf /\ u.ind = 4
    BY <1>1 DEF u
  <2> QED
    BY <2>1, <2>2
<1>3. 4 + 4 * (1 - 1) = 4 /\ 1 \in 1 .. n
  OBVIOUS
<1> QED
  BY <1>2, <1>3 DEF SizeofInt

\* A request as the server reads it.
LEMMA AskedFacts ==
    ASSUME NEW x \in Calls, NEW q \in Requests
    PROVE  LET m == Asked(x, q)
               c == PutAll(q.types, q.args)
               h == unpack_header(m.buf, 5)
           IN  /\ m.to = "server" /\ Xid(m) = x
               /\ c \in Seq(Byte) /\ m.buf \in Seq(Byte) /\ Len(m.buf) = 24 + Len(c)
               /\ Segment(m.buf, 24, c)
               /\ h[1] = x /\ h[2] = procs_[q.proc].num
<1> DEFINE c == PutAll(q.types, q.args)
           num == procs_[q.proc].num
           ns == <<x, num, 0, 0, 0>>
           m == Asked(x, q)
<1>1. x \in Words /\ c \in Seq(Byte) /\ q.proc \in Procs
  BY CallAssumption
<1>2. num \in Words /\ 0 \in Words
  <2>1. num \in 1 .. 6
    BY <1>1, ProcFacts
  <2> QED
    BY <2>1, WordFacts DEF Words
<1>3. m.to = "server" /\ m.buf = pack_header(Buffer(c), ns)
  BY DEF Asked
<1> HIDE DEF m, c, num
<1>4. ns \in Seq(Words) /\ Len(ns) = 5 /\ ns[1] = x /\ ns[2] = num
  BY <1>1, <1>2
<1> HIDE DEF ns
<1>5. /\ m.buf \in Seq(Byte) /\ Len(m.buf) = 24 + Len(c) /\ Segment(m.buf, 24, c)
      /\ unpack_header(m.buf, 5) = ns
  <2> DEFINE buf == pack_header(Buffer(c), ns)
  <2>1. /\ buf \in Seq(Byte) /\ Len(buf) = 24 + Len(c) /\ Segment(buf, 24, c)
        /\ unpack_header(buf, Len(ns)) = ns
    <3>1. Len(ns) <= 5
      BY <1>4
    <3> QED
      BY <1>1, <1>4, <3>1, Header
  <2> HIDE DEF buf
  <2>2. m.buf = buf
    BY <1>3 DEF buf
  <2> QED
    BY <1>4, <2>1, <2>2
<1>6. Xid(m) = x
  BY <1>4, <1>5, FirstOfHeader DEF Xid
<1> QED
  BY <1>1, <1>3, <1>4, <1>5, <1>6 DEF m, c, num

\* An answer as the client reads it.
LEMMA ReplyFacts ==
    ASSUME NEW x \in Calls, NEW b \in Codes \cup {unmarshal_args_failure}, NEW c \in Seq(Byte)
    PROVE  LET m == Reply(<<x>>, b, c)
               h == unpack_header(m.buf, 2)
           IN  /\ m.to = "client" /\ Xid(m) = x
               /\ m.buf \in Seq(Byte) /\ Len(m.buf) = 24 + Len(c)
               /\ Segment(m.buf, 24, c)
               /\ h[1] = x /\ Signed(h[2]) = b
<1> DEFINE w == b % WORD
           ns == <<x, w>>
           m == Reply(<<x>>, b, c)
<1>1. x \in Words
  BY CallAssumption
<1>2. w \in Words /\ Signed(w) = b
  BY CodeBack
<1>3. m.to = "client" /\ m.buf = pack_header(Buffer(c), ns)
  BY DEF Reply
<1> HIDE DEF m, w
<1>4. ns \in Seq(Words) /\ Len(ns) = 2 /\ ns[1] = x /\ ns[2] = w
  BY <1>1, <1>2
<1> HIDE DEF ns
<1>5. /\ m.buf \in Seq(Byte) /\ Len(m.buf) = 24 + Len(c) /\ Segment(m.buf, 24, c)
      /\ unpack_header(m.buf, 2) = ns
  <2> DEFINE buf == pack_header(Buffer(c), ns)
  <2>1. /\ buf \in Seq(Byte) /\ Len(buf) = 24 + Len(c) /\ Segment(buf, 24, c)
        /\ unpack_header(buf, Len(ns)) = ns
    <3>1. Len(ns) <= 5
      BY <1>4
    <3> QED
      BY <1>4, <3>1, Header
  <2> HIDE DEF buf
  <2>2. m.buf = buf
    BY <1>3 DEF buf
  <2> QED
    BY <1>4, <2>1, <2>2
<1>6. Xid(m) = x
  BY <1>4, <1>5, FirstOfHeader DEF Xid
<1> QED
  BY <1>2, <1>3, <1>4, <1>5, <1>6 DEF m

\* The part of it that does not look into the header.
LEMMA ReplyRoom ==
    ASSUME NEW x \in Calls, NEW b \in Codes \cup {unmarshal_args_failure}, NEW c \in Seq(Byte),
           NEW m, m = Reply(<<x>>, b, c)
    PROVE  m.to = "client" /\ Xid(m) = x /\ Len(m.buf) = 24 + Len(c)
BY ReplyFacts

\* A result that is read from the reply as it was put into it uses up the reply.
LEMMA ResultBack ==
    ASSUME NEW buf \in Seq(Byte), NEW t \in Types, NEW v, IsValue(t, v), NEW old,
           Len(buf) = 24 + Len(Put(t, v)), Segment(buf, 24, Put(t, v))
    PROVE  LET g == Get(t, Unmarshall(buf, 24), old)
           IN  okdone(g.u) /\ g.v = IF t = "vector" THEN old \o v ELSE v
<1> DEFINE g == Get(t, Unmarshall(buf, 24), old)
           w == IF t = "vector" THEN old \o v ELSE v
<1>1. g = [u |-> Unmarshall(buf, 24 + Len(Put(t, v))), v |-> w]
  BY PutGet DEF Types
<1> HIDE DEF g, w
<1>2. g.u = Unmarshall(buf, Len(buf)) /\ g.v = w
  BY <1>1
<1>3. okdone(Unmarshall(buf, Len(buf)))
  BY DEF okdone, Unmarshall
<1> QED
  BY <1>2, <1>3 DEF g, w

\* Every message tells its call, and the server and the client tell by its
\* destination what it is.
LEMMA OfFacts ==
    ASSUME CallInv, ExecInv, NEW x \in Calls, NEW m, Of(m, x)
    PROVE  /\ calls[x].q \in Requests /\ Xid(m) = x /\ Len(m.buf) >= 24
           /\ m.to = "server" => executed[x] = << >> /\ m = Asked(x, calls[x].q)
           /\ m.to = "client" =>
                 \/ executed[x] = << >> /\ m = Reply(<<x>>, unmarshal_args_failure, << >>)
                 \/ /\ executed[x] # << >>
                    /\ m = Reply(<<x>>, executed[x][1].b, Put(procs_[calls[x].q.proc].ret, executed[x][1].r))
<1> DEFINE q == calls[x].q
           e == executed[x][1]
           c == Put(procs_[q.proc].ret, e.r)
<1>1. q \in Requests
  BY DEF CallInv, Known, Of
<1>2. CASE executed[x] = << >> /\ m = Asked(x, q)
  <2>1. m.to = "server" /\ Xid(m) = x /\ Len(m.buf) = 24 + Len(PutAll(q.types, q.args)) /\ Len(PutAll(q.types, q.args)) \in Nat
    <3> HIDE DEF q
    <3>1. m.to = "server" /\ Xid(m) = x /\ PutAll(q.types, q.args) \in Seq(Byte) /\ Len(m.buf) = 24 + Len(PutAll(q.types, q.args))
      BY <1>1, <1>2, AskedFacts
    <3> QED
      BY <3>1, LenProperties
  <2> QED
    BY <1>1, <1>2, <2>1
<1>3. CASE executed[x] = << >> /\ m = Reply(<<x>>, unmarshal_args_failure, << >>)
  <2> DEFINE none == << >>
  <2>1. none \in Seq(Byte) /\ Len(none) = 0
    OBVIOUS
  <2> HIDE DEF none
  <2>2. unmarshal_args_failure \in Codes \cup {unmarshal_args_failure} /\ m = Reply(<<x>>, unmarshal_args_failure, none)
    BY <1>3 DEF none
  <2>3. m.to = "client" /\ Xid(m) = x /\ Len(m.buf) = 24 + Len(none)
    BY <2>1, <2>2, ReplyRoom
  <2> QED
    <3>1. Len(m.buf) >= 24 /\ m.to = "client" /\ Xid(m) = x
      BY <2>1, <2>3
    <3> QED
      BY <1>1, <1>3, <3>1, Zenon
<1>4. CASE executed[x] # << >> /\ m = Reply(<<x>>, e.b, c)
  <2>1. e.b \in Codes /\ e.r \in Results[procs_[q.proc].ret]
    BY <1>4 DEF ExecInv, Ran
  <2>2. q.proc \in Procs /\ IsValue(procs_[q.proc].ret, e.r)
    BY <1>1, <2>1, CallAssumption
  <2>3. procs_[q.proc].ret \in Types
    BY <2>2, ProcFacts
  <2>4. c \in Seq(Byte)
    BY <2>2, <2>3, PutType
  <2> HIDE DEF c, e, q
  <2>5. m.to = "client" /\ Xid(m) = x /\ Len(m.buf) = 24 + Len(c) /\ Len(c) \in Nat
    BY <1>4, <2>1, <2>4, ReplyRoom, LenProperties
  <2> QED
    <3>1. Len(m.buf) >= 24
      BY <2>5
    <3>2. m.to = "client" /\ Xid(m) = x
      BY <2>5
    <3>3. m.to # "server"
      BY <3>2
    <3> QED
      BY <1>1, <1>4, <3>1, <3>2, <3>3 DEF c, e, q
<1> QED
  BY <1>2, <1>3, <1>4 DEF Of

\* A message of a call stays one when the call and what has run for it stay.
LEMMA OfKept ==
    ASSUME NEW x, NEW m, Of(m, x), calls'[x] # NoCall, calls'[x].q = calls[x].q, executed'[x] = executed[x]
    PROVE  Of(m, x)'
  BY DEF Of

\* A number that no call has used yet.
LEMMA NoCallNew == NoCall.st = "new"
  BY DEF NoCall

\* The invariant holds before the first call.
LEMMA RpcInit == Init => RpcInv
<1> SUFFICES ASSUME Init PROVE RpcInv
  OBVIOUS
<1>1. \A x \in Calls : calls[x] = NoCall /\ executed[x] = << >>
  BY DEF Init
<1>2. CallInv
  BY <1>1 DEF Init, CallInv
<1>3. ExecInv
  BY <1>1 DEF Init, ExecInv
<1>4. NetInv
  BY DEF Init, NetInv
<1>5. EndInv
  BY <1>1, NoCallNew DEF EndInv
<1>6. StatusInv
  BY DEF Init, StatusInv, AbortMeansWrongReturnType
<1> QED
  BY <1>2, <1>3, <1>4, <1>5, <1>6 DEF RpcInv

\* A message is lost.
LEMMA LoseStep ==
    ASSUME RpcInv, NEW m \in net, lose(m)
    PROVE  RpcInv'
<1>1. calls' = calls /\ executed' = executed /\ status' = status /\ net' \subseteq net
  BY DEF lose
<1>2. CallInv' /\ ExecInv' /\ StatusInv'
  BY <1>1 DEF RpcInv, CallInv, ExecInv, StatusInv, AbortMeansWrongReturnType
<1>3. NetInv'
  BY <1>1 DEF RpcInv, NetInv, Of
<1>4. EndInv'
  BY <1>1 DEF RpcInv, EndInv, TimedOut, Refused, Finished
<1> QED
  BY <1>2, <1>3, <1>4 DEF RpcInv

\* A call is made: no message has its number yet.
LEMMA CallStep ==
    ASSUME RpcInv, NEW x \in Calls, NEW q \in Requests, call(x, q)
    PROVE  RpcInv'
<1> DEFINE n == Asked(x, q)
           c == [st |-> "waiting", q |-> q, r |-> q.r, intret |-> 0]
<1>1. /\ calls[x] = NoCall /\ net' = net \cup {n} /\ calls' = [calls EXCEPT ![x] = c]
      /\ executed' = executed /\ status' = status
  BY DEF call, Asked
<1>2. c.st = "waiting" /\ c.q = q /\ c.r = q.r /\ Known(c) /\ c # NoCall
  <2>1. c.st = "waiting" /\ c.q = q /\ c.r = q.r /\ c = [st |-> c.st, q |-> c.q, r |-> c.r, intret |-> c.intret]
    OBVIOUS
  <2> HIDE DEF c
  <2> QED
    BY <2>1, NoCallNew DEF Known
<1> HIDE DEF c
<1>3. calls'[x] = c /\ \A y \in Calls : y # x => calls'[y] = calls[y]
  BY <1>1 DEF RpcInv, CallInv
<1>4. CallInv'
  BY <1>1, <1>2, <1>3 DEF RpcInv, CallInv
<1>5. executed[x] = << >>
  BY <1>1 DEF RpcInv, ExecInv
<1>6. ExecInv'
  BY <1>1, <1>3, <1>5 DEF RpcInv, ExecInv
<1>7. Xid(n) = x
  BY AskedFacts
<1>8. ASSUME NEW m \in net PROVE Xid(m) # x /\ Xid(m) \in Calls /\ Of(m, Xid(m))'
  <2>1. Xid(m) \in Calls /\ Of(m, Xid(m))
    BY <1>8 DEF RpcInv, NetInv
  <2>2. calls[Xid(m)] # NoCall
    BY <2>1 DEF Of
  <2>3. Xid(m) # x
    BY <1>1, <2>2
  <2>4. calls'[Xid(m)] = calls[Xid(m)] /\ executed'[Xid(m)] = executed[Xid(m)]
    BY <1>1, <1>3, <2>1, <2>3
  <2> QED
    BY <2>1, <2>2, <2>3, <2>4, OfKept
<1>9. Of(n, x)'
  BY <1>1, <1>2, <1>3, <1>5 DEF Of
<1> HIDE DEF n
<1>10. NetInv'
  <2>1. ASSUME NEW m \in net' PROVE Xid(m) \in Calls /\ Of(m, Xid(m))'
    BY <1>1, <1>7, <1>8, <1>9, <2>1
  <2>2. ASSUME NEW m \in net', NEW l \in net', Xid(m) = Xid(l) PROVE m = l
    BY <1>1, <1>7, <1>8, <2>2 DEF RpcInv, NetInv
  <2> QED
    BY <2>1, <2>2 DEF NetInv, Xid
<1>11. EndInv'
  <2>1. /\ calls'[x].st = "waiting" => calls'[x].r = calls'[x].q.r
        /\ calls'[x].st # "done"
    BY <1>2, <1>3
  <2>2. ASSUME NEW y \in Calls, y # x
        PROVE  /\ calls'[y].st = "waiting" => calls'[y].r = calls'[y].q.r
               /\ calls'[y].st = "done" =>
                     TimedOut(y)' \/ ((\A m \in net' : Xid(m) # y) /\ (Refused(y)' \/ Finished(y)'))
    <3>1. calls'[y] = calls[y] /\ executed'[y] = executed[y]
      BY <1>1, <1>3, <2>2
    <3>2. /\ TimedOut(y) => TimedOut(y)'
          /\ Refused(y) => Refused(y)'
          /\ Finished(y) => Finished(y)'
      BY <3>1 DEF TimedOut, Refused, Finished
    <3>3. (\A m \in net : Xid(m) # y) => \A m \in net' : Xid(m) # y
      BY <1>1, <1>7, <2>2
    <3> QED
      BY <3>1, <3>2, <3>3 DEF RpcInv, EndInv
  <2> QED
    BY <2>1, <2>2 DEF EndInv, Xid
<1>12. StatusInv'
  <2>1. \A y \in Calls : calls[y].st = "done" => calls'[y] = calls[y]
    BY <1>1, <1>3, NoCallNew
  <2> QED
    BY <1>1, <2>1 DEF RpcInv, StatusInv, AbortMeansWrongReturnType
<1> QED
  BY <1>4, <1>6, <1>10, <1>11, <1>12 DEF RpcInv

\* A method is run, or its arguments are not accepted: the request is replaced by
\* the reply, and no other message has the number of the call.
LEMMA FnStep ==
    ASSUME RpcInv, NEW m \in net, fn(m)
    PROVE  RpcInv'
<1> DEFINE x == Xid(m)
           q == calls[x].q
           h == unpack_header(m.buf, 5)
           types == procs_[q.proc].args
           ret == procs_[q.proc].ret
           given == PutAll(q.types, q.args)
           got == GetAll(types, Unmarshall(m.buf, 24))
<1>1. x \in Calls /\ Of(m, x) /\ m.to = "server" /\ calls' = calls /\ status' = status
  BY DEF RpcInv, NetInv, fn
<1>2. q \in Requests /\ executed[x] = << >> /\ m = Asked(x, q) /\ calls[x] # NoCall
  BY <1>1, OfFacts DEF RpcInv, Of
<1>3. /\ given \in Seq(Byte) /\ m.buf \in Seq(Byte) /\ Len(m.buf) = 24 + Len(given)
      /\ Segment(m.buf, 24, given) /\ h[1] = x /\ h[2] = procs_[q.proc].num
  <2> HIDE DEF x, q
  <2> QED
    BY <1>1, <1>2, AskedFacts
<1>4. /\ q.proc \in Procs /\ q.args = [k \in DOMAIN q.types |-> q.args[k]]
      /\ \A k \in DOMAIN q.types : IsValue(q.types[k], q.args[k])
      /\ \A r \in Results[ret] : IsValue(ret, r)
  <2> HIDE DEF q
  <2> QED
    BY <1>2, CallAssumption
<1>5. types \in Seq(Types) /\ Len(types) \in {1, 2} /\ ret \in Types
  <2> HIDE DEF q
  <2> QED
    BY <1>4, ProcFacts
<1>6. (CHOOSE p \in Procs : procs_[p].num = h[2]) = q.proc
  <2> HIDE DEF q, h
  <2> QED
    BY <1>3, <1>4, ProcByNumber
<1>7. \/ \E r \in Results[ret], b \in Codes :
            /\ ArgsAccepted(got.u)
            /\ executed' = [executed EXCEPT ![x] = Append(@, [args |-> got.v, r |-> r, b |-> b])]
            /\ net' = (net \ {m}) \cup {Reply(<<x>>, b, Put(ret, r))}
      \/ /\ net' = (net \ {m}) \cup {Reply(<<x>>, unmarshal_args_failure, << >>)}
         /\ executed' = executed
  <2> DEFINE proc == CHOOSE p \in Procs : procs_[p].num = h[2]
             args == GetAll(procs_[proc].args, Unmarshall(m.buf, 24))
  <2>1. RPC_HEADER_SZ = 24
    BY DEF RPC_HEADER_SZ, SizeofInt, SizeofReq, SizeofReply
  <2>2. IF ArgsAccepted(args.u)
        THEN \E r \in Results[procs_[proc].ret], b \in Codes :
                /\ executed' = [executed EXCEPT ![h[1]] = Append(@, [args |-> args.v, r |-> r, b |-> b])]
                /\ net' = (net \ {m}) \cup {Reply(h, b, Put(procs_[proc].ret, r))}
        ELSE /\ net' = (net \ {m}) \cup {Reply(h, unmarshal_args_failure, << >>)}
             /\ executed' = executed
    BY <2>1 DEF fn
  <2>3. proc = q.proc /\ args = got
    BY <1>6
  <2>4. \A b, c : Reply(h, b, c) = Reply(<<x>>, b, c)
    <3>1. <<x>>[1] = x
      OBVIOUS
    <3> HIDE DEF x, h
    <3> QED
      BY <1>3, <3>1 DEF Reply
  <2> HIDE DEF proc, args, got, h, q, x
  <2> QED
    <3>1. CASE ArgsAccepted(args.u)
      <4>1. PICK r \in Results[ret], b \in Codes :
                /\ executed' = [executed EXCEPT ![x] = Append(@, [args |-> got.v, r |-> r, b |-> b])]
                /\ net' = (net \ {m}) \cup {Reply(h, b, Put(ret, r))}
        BY <1>3, <2>2, <2>3, <3>1
      <4>2. net' = (net \ {m}) \cup {Reply(<<x>>, b, Put(ret, r))} /\ ArgsAccepted(got.u)
        BY <2>3, <2>4, <3>1, <4>1
      <4> QED
        BY <4>1, <4>2
    <3>2. CASE ~ ArgsAccepted(args.u)
      <4>1. executed' = executed /\ net' = (net \ {m}) \cup {Reply(h, unmarshal_args_failure, << >>)}
        BY <2>2, <3>2
      <4> QED
        BY <2>4, <4>1
    <3> QED
      BY <3>1, <3>2
<1>8. ASSUME ArgsAccepted(got.u)
      PROVE  /\ q.types = types => got.v = q.args
             /\ (\A j \in DOMAIN types : types[j] # "map") => PutAll(types, got.v) = given
  <2>1. ASSUME q.types = types PROVE got.v = q.args
    <3>1. got = [u |-> Unmarshall(m.buf, Len(m.buf)), v |-> q.args]
      <4>1. /\ q.args = [k \in DOMAIN types |-> q.args[k]]
            /\ \A k \in DOMAIN types : IsValue(types[k], q.args[k])
            /\ given = PutAll(types, q.args)
        BY <1>4, <2>1
      <4> HIDE DEF q, types
      <4>2. Len(m.buf) = 24 + Len(PutAll(types, q.args)) /\ Segment(m.buf, 24, PutAll(types, q.args)) /\ 24 \in Nat
        BY <1>3, <4>1
      <4> HIDE DEF given
      <4> QED
        BY <1>3, <1>5, <4>1, <4>2, ArgsBack
    <3> HIDE DEF got
    <3> QED
      BY <3>1
  <2>2. ASSUME \A j \in DOMAIN types : types[j] # "map" PROVE PutAll(types, got.v) = given
    <3> DEFINE T == {"int", "ull", "string", "attr", "vector"}
               s == PutAll(types, got.v)
    <3> HIDE DEF q, types, given
    <3>1. types \in Seq(T)
      <4>1. types = [j \in 1 .. Len(types) |-> types[j]] /\ Len(types) \in Nat /\ DOMAIN types = 1 .. Len(types)
        BY <1>5
      <4>2. \A j \in 1 .. Len(types) : types[j] \in T
        BY <1>5, <2>2, <4>1 DEF Types
      <4> HIDE DEF T
      <4> QED
        BY <4>1, <4>2
    <3>2. 24 <= Len(m.buf) /\ Len(given) \in Nat
      BY <1>3, LenProperties
    <3>3. okdone(got.u)
      BY <1>8 DEF ArgsAccepted
    <3>4. Covers(m.buf, 24, Len(m.buf), s)
      BY <1>3, <1>5, <3>1, <3>2, <3>3, ArgsBytes
    <3> HIDE DEF s
    <3>5. s \in Seq(Byte) /\ Len(m.buf) = 24 + Len(s) /\ Segment(m.buf, 24, s) /\ Len(s) \in Nat
      BY <3>4, LenProperties DEF Covers
    <3>6. Len(s) = Len(given)
      BY <1>3, <3>2, <3>5
    <3>7. \A k \in 1 .. Len(s) : s[k] = given[k]
      BY <1>3, <3>5, <3>6 DEF Segment
    <3>8. s = given
      BY <1>3, <3>5, <3>6, <3>7, SeqEqual
    <3> QED
      BY <3>8 DEF s
  <2> QED
    BY <2>1, <2>2
<1>9. ASSUME NEW n, Xid(n) = x, net' = (net \ {m}) \cup {n}, Of(n, x)', ExecInv',
             \A y \in Calls : y # x => executed'[y] = executed[y]
      PROVE  RpcInv'
  <2> HIDE DEF x
  <2>1. ASSUME NEW l \in net, l # m PROVE Xid(l) # x /\ Xid(l) \in Calls /\ Of(l, Xid(l))'
    <3>1. Xid(l) \in Calls /\ Of(l, Xid(l)) /\ Xid(l) # x
      BY <2>1 DEF RpcInv, NetInv, x
    <3>2. calls[Xid(l)] # NoCall
      BY <3>1 DEF Of
    <3>3. executed'[Xid(l)] = executed[Xid(l)] /\ calls'[Xid(l)] = calls[Xid(l)]
      BY <1>1, <1>9, <3>1
    <3> QED
      BY <3>1, <3>2, <3>3, OfKept
  <2>2. NetInv'
    <3>1. ASSUME NEW l \in net' PROVE Xid(l) \in Calls /\ Of(l, Xid(l))'
      BY <1>1, <1>9, <2>1, <3>1
    <3>2. ASSUME NEW l \in net', NEW k \in net', Xid(l) = Xid(k) PROVE l = k
      BY <1>9, <2>1, <3>2 DEF RpcInv, NetInv
    <3> QED
      BY <3>1, <3>2 DEF NetInv, Xid
  <2>3. EndInv'
    <3>1. ASSUME NEW y \in Calls
          PROVE  /\ calls'[y].st = "waiting" => calls'[y].r = calls'[y].q.r
                 /\ calls'[y].st = "done" =>
                       TimedOut(y)' \/ ((\A l \in net' : Xid(l) # y) /\ (Refused(y)' \/ Finished(y)'))
      <4>1. TimedOut(y) => TimedOut(y)'
        BY <1>1 DEF TimedOut
      <4>2. ASSUME \A l \in net : Xid(l) # y PROVE \A l \in net' : Xid(l) # y
        <5>1. y # x
          BY <4>2 DEF x
        <5> QED
          BY <1>9, <4>2, <5>1
      <4>3. ASSUME \A l \in net : Xid(l) # y PROVE (Refused(y) => Refused(y)') /\ (Finished(y) => Finished(y)')
        <5>1. y # x
          BY <4>3 DEF x
        <5>2. executed'[y] = executed[y]
          BY <1>9, <5>1
        <5> QED
          BY <1>1, <5>2 DEF Refused, Finished
      <4> QED
        BY <1>1, <4>1, <4>2, <4>3 DEF RpcInv, EndInv
    <3> QED
      BY <3>1 DEF EndInv, Xid
  <2>4. CallInv' /\ StatusInv'
    BY <1>1 DEF RpcInv, CallInv, StatusInv, AbortMeansWrongReturnType
  <2> QED
    BY <1>9, <2>2, <2>3, <2>4 DEF RpcInv
<1>10. ASSUME net' = (net \ {m}) \cup {Reply(<<x>>, unmarshal_args_failure, << >>)}, executed' = executed
       PROVE  RpcInv'
  <2> DEFINE n == Reply(<<x>>, unmarshal_args_failure, << >>)
  <2>1. Of(n, x)'
    BY <1>1, <1>2, <1>10 DEF Of
  <2>2. Xid(n) = x
    <3> DEFINE none == << >>
    <3>1. none \in Seq(Byte) /\ unmarshal_args_failure \in Codes \cup {unmarshal_args_failure}
      OBVIOUS
    <3> HIDE DEF none, x
    <3>2. x \in Calls
      BY <1>1
    <3>3. n = Reply(<<x>>, unmarshal_args_failure, none)
      BY DEF none
    <3> HIDE DEF n
    <3> QED
      BY <3>1, <3>2, <3>3, ReplyRoom
  <2>3. ExecInv'
    BY <1>1, <1>10 DEF RpcInv, ExecInv
  <2> HIDE DEF n
  <2> QED
    BY <1>9, <1>10, <2>1, <2>2, <2>3 DEF n
<1>11. ASSUME NEW r \in Results[ret], NEW b \in Codes, ArgsAccepted(got.u),
              executed' = [executed EXCEPT ![x] = Append(@, [args |-> got.v, r |-> r, b |-> b])],
              net' = (net \ {m}) \cup {Reply(<<x>>, b, Put(ret, r))}
       PROVE  RpcInv'
  <2> DEFINE e == [args |-> got.v, r |-> r, b |-> b]
  <2>0. PICK n : n = Reply(<<x>>, b, Put(ret, r))
    OBVIOUS
  <2>1. e.args = got.v /\ e.r = r /\ e.b = b
    OBVIOUS
  <2>2. executed' = [executed EXCEPT ![x] = Append(@, e)]
    BY <1>11
  <2> HIDE DEF e
  <2>3. executed'[x] = <<e>> /\ \A y \in Calls : y # x => executed'[y] = executed[y]
    <3> HIDE DEF x
    <3>1. executed'[x] = Append(executed[x], e) /\ \A y \in Calls : y # x => executed'[y] = executed[y]
      BY <1>1, <2>2 DEF RpcInv, ExecInv
    <3>2. Append(<< >>, e) = <<e>>
      OBVIOUS
    <3> QED
      BY <1>2, <3>1, <3>2
  <2>4. executed'[x][1] = e /\ executed'[x] # << >>
    BY <2>3
  <2>5. Ran(q, e)
    <3> HIDE DEF got, q
    <3> QED
      BY <1>8, <1>11, <2>1 DEF Ran
  <2>6. ExecInv'
    <3> HIDE DEF x
    <3>1. executed' = [y \in Calls |-> executed'[y]]
      BY <2>2 DEF RpcInv, ExecInv
    <3>2. \A y \in Calls : y # x => \/ executed'[y] = << >>
                                    \/ calls'[y] # NoCall /\ executed'[y] = <<executed'[y][1]>> /\ Ran(calls'[y].q, executed'[y][1])
      BY <1>1, <2>3 DEF RpcInv, ExecInv
    <3>3. calls'[x] # NoCall /\ executed'[x] = <<executed'[x][1]>> /\ Ran(calls'[x].q, executed'[x][1])
      BY <1>1, <1>2, <2>3, <2>4, <2>5
    <3> QED
      BY <3>1, <3>2, <3>3 DEF ExecInv, Ran
  <2>7. Put(ret, r) \in Seq(Byte)
    <3> HIDE DEF q, ret
    <3> QED
      BY <1>4, <1>5, <1>11, PutType
  <2>8. Xid(n) = x
    <3> HIDE DEF x, ret
    <3> QED
      BY <1>1, <1>11, <2>0, <2>7, ReplyRoom
  <2>9. Of(n, x)'
    <3>1. n = Reply(<<x>>, executed'[x][1].b, Put(procs_[calls'[x].q.proc].ret, executed'[x][1].r))
      BY <1>1, <2>0, <2>1, <2>4
    <3>2. calls'[x] # NoCall
      BY <1>1, <1>2
    <3> QED
      BY <2>4, <3>1, <3>2 DEF Of
  <2>10. net' = (net \ {m}) \cup {n}
    BY <1>11, <2>0
  <2> HIDE DEF x
  <2> QED
    BY <1>9, <2>3, <2>6, <2>8, <2>9, <2>10
<1> HIDE DEF x, q, h, types, ret, given, got
<1> QED
  BY <1>7, <1>10, <1>11

\* The fields of a call that is done.
LEMMA DoneFacts ==
    ASSUME NEW c, NEW r, NEW i
    PROVE  LET d == Done(c, i, r)
           IN  /\ d.st = "done" /\ d.q = c.q /\ d.r = r /\ d.intret = i
               /\ d = [st |-> d.st, q |-> d.q, r |-> d.r, intret |-> d.intret]
  BY DEF Done

\* A call that waits ends.
LEMMA EndStep ==
    ASSUME RpcInv, NEW x \in Calls, calls[x].st = "waiting", NEW d,
           Known(d), d.st = "done", d.q = calls[x].q,
           calls' = [calls EXCEPT ![x] = d], executed' = executed, net' \subseteq net,
           TimedOut(x)' \/ ((\A m \in net' : Xid(m) # x) /\ (Refused(x)' \/ Finished(x)')),
           \/ status' = status
           \/ status' = "up"
           \/ status' = "aborted" /\ d.q.ret # procs_[d.q.proc].ret
    PROVE  RpcInv'
<1>1. calls'[x] = d /\ \A y \in Calls : y # x => calls'[y] = calls[y]
  BY DEF RpcInv, CallInv
<1>2. d # NoCall /\ calls[x] # NoCall
  BY NoCallNew
<1>3. CallInv'
  BY <1>1 DEF RpcInv, CallInv
<1>4. ExecInv'
  <2>1. \A y \in Calls : (calls[y] # NoCall => calls'[y] # NoCall) /\ (calls[y] # NoCall => calls'[y].q = calls[y].q)
    BY <1>1, <1>2
  <2> QED
    <3>1. executed' = [y \in Calls |-> executed'[y]]
      BY DEF RpcInv, ExecInv
    <3>2. ASSUME NEW y \in Calls
          PROVE  \/ executed'[y] = << >>
                 \/ calls'[y] # NoCall /\ executed'[y] = <<executed'[y][1]>> /\ Ran(calls'[y].q, executed'[y][1])
      <4>1. \/ executed[y] = << >>
            \/ calls[y] # NoCall /\ executed[y] = <<executed[y][1]>> /\ Ran(calls[y].q, executed[y][1])
        BY DEF RpcInv, ExecInv
      <4> QED
        BY <2>1, <4>1
    <3> QED
      BY <3>1, <3>2 DEF ExecInv, Ran
<1>5. NetInv'
  <2>1. ASSUME NEW m \in net' PROVE Xid(m) \in Calls /\ Of(m, Xid(m))'
    <3>1. Xid(m) \in Calls /\ Of(m, Xid(m))
      BY <2>1 DEF RpcInv, NetInv
    <3>2. calls'[Xid(m)] # NoCall /\ calls'[Xid(m)].q = calls[Xid(m)].q
      BY <1>1, <1>2, <3>1 DEF Of
    <3> QED
      BY <3>1, <3>2, OfKept
  <2>2. ASSUME NEW m \in net', NEW n \in net', Xid(m) = Xid(n) PROVE m = n
    BY <2>2 DEF RpcInv, NetInv
  <2> QED
    BY <2>1, <2>2 DEF NetInv, Xid
<1>6. EndInv'
  <2>1. ASSUME NEW y \in Calls, y # x
        PROVE  /\ calls'[y].st = "waiting" => calls'[y].r = calls'[y].q.r
               /\ calls'[y].st = "done" =>
                     TimedOut(y)' \/ ((\A m \in net' : Xid(m) # y) /\ (Refused(y)' \/ Finished(y)'))
    <3>1. calls'[y] = calls[y] /\ executed'[y] = executed[y]
      BY <1>1, <2>1
    <3>2. /\ TimedOut(y) => TimedOut(y)'
          /\ Refused(y) => Refused(y)'
          /\ Finished(y) => Finished(y)'
      BY <3>1 DEF TimedOut, Refused, Finished
    <3> QED
      BY <3>1, <3>2 DEF RpcInv, EndInv
  <2>2. calls'[x].st # "waiting"
    BY <1>1
  <2> QED
    BY <2>1, <2>2 DEF EndInv, Xid
<1>7. StatusInv'
  <2>1. \A y \in Calls : calls[y].st = "done" => calls'[y] = calls[y]
    BY <1>1
  <2>2. CASE status' = status
    BY <2>1, <2>2 DEF RpcInv, StatusInv, AbortMeansWrongReturnType
  <2>3. CASE status' = "up"
    BY <2>3 DEF StatusInv, AbortMeansWrongReturnType
  <2>4. CASE status' = "aborted" /\ d.q.ret # procs_[d.q.proc].ret
    BY <1>1, <2>4 DEF StatusInv, AbortMeansWrongReturnType
  <2> QED
    BY <2>2, <2>3, <2>4
<1> QED
  BY <1>3, <1>4, <1>5, <1>6, <1>7 DEF RpcInv

\* A call that waits has been made.
LEMMA WaitingKnown ==
    ASSUME RpcInv, NEW x \in Calls, calls[x].st = "waiting"
    PROVE  Known(calls[x]) /\ calls[x].q \in Requests /\ calls[x].r = calls[x].q.r
  BY NoCallNew DEF RpcInv, CallInv, EndInv, Known

\* A call has waited long enough.
LEMMA TimeoutStep ==
    ASSUME RpcInv, NEW x \in Calls, timeout(x)
    PROVE  RpcInv'
<1> DEFINE c == calls[x]
<1>1. c.st = "waiting" /\ net' = net /\ executed' = executed /\ call_m(x, timeout_failure, NoReply)
  BY DEF timeout
<1>2. Known(c) /\ c.q \in Requests /\ c.r = c.q.r
  BY <1>1, WaitingKnown
<1>3. timeout_failure < 0
  BY DEF timeout_failure
<1>4. calls' = [calls EXCEPT ![x] = Done(c, timeout_failure, c.r)] /\ status' = status
  BY <1>1, <1>3 DEF call_m
<1>5. PICK d : d = Done(c, timeout_failure, c.r)
  OBVIOUS
<1>6. calls' = [calls EXCEPT ![x] = d]
  BY <1>4, <1>5
<1>7. d.st = "done" /\ d.q = c.q /\ d.r = c.r /\ d.intret = timeout_failure /\ Known(d)
  <2> HIDE DEF c
  <2> QED
    BY <1>2, <1>5, DoneFacts DEF Known
<1>8. TimedOut(x)'
  <2>1. calls'[x] = d
    BY <1>6 DEF RpcInv, CallInv
  <2> QED
    BY <1>2, <1>7, <2>1 DEF TimedOut
<1> QED
  BY <1>1, <1>4, <1>6, <1>7, <1>8, EndStep

\* A reply comes: it ends the call that has its number, if that still waits.
LEMMA GotPduStep ==
    ASSUME RpcInv, NEW m \in net, got_pdu(m)
    PROVE  RpcInv'
<1> DEFINE x == Xid(m)
           c == calls[x]
           q == c.q
           h == unpack_header(m.buf, 2)
           b == Signed(h[2])
           u == Unmarshall(m.buf, 24)
           got == Get(q.ret, u, q.r)
           ret == procs_[q.proc].ret
           e == executed[x][1]
<1>1. x \in Calls /\ Of(m, x) /\ m.to = "client" /\ executed' = executed /\ net' = net \ {m}
  BY DEF RpcInv, NetInv, got_pdu
<1>2. /\ q \in Requests
      /\ \/ executed[x] = << >> /\ m = Reply(<<x>>, unmarshal_args_failure, << >>)
         \/ executed[x] # << >> /\ m = Reply(<<x>>, e.b, Put(ret, e.r))
  BY <1>1, OfFacts DEF RpcInv
<1>3. q.proc \in Procs /\ ret \in Types /\ \A r \in Results[ret] : IsValue(ret, r)
  <2> HIDE DEF q
  <2>1. q.proc \in Procs /\ \A r \in Results[ret] : IsValue(ret, r)
    BY <1>2, CallAssumption
  <2> QED
    BY <2>1, ProcFacts
<1>4. \A n \in net' : Xid(n) # x
  BY <1>1 DEF RpcInv, NetInv
<1>5. ASSUME executed[x] = << >>, m = Reply(<<x>>, unmarshal_args_failure, << >>)
      PROVE  h[1] = x /\ b = unmarshal_args_failure
  <2> DEFINE none == << >>
  <2>1. none \in Seq(Byte) /\ unmarshal_args_failure \in Codes \cup {unmarshal_args_failure}
    OBVIOUS
  <2>2. m = Reply(<<x>>, unmarshal_args_failure, none) /\ x \in Calls
    BY <1>1, <1>5
  <2> HIDE DEF none, x
  <2> QED
    BY <2>1, <2>2, ReplyFacts, ZenonT(60)
<1>6. ASSUME executed[x] # << >>, m = Reply(<<x>>, e.b, Put(ret, e.r))
      PROVE  /\ h[1] = x /\ b = e.b /\ e.b \in Codes
             /\ q.ret = ret => okdone(got.u) /\ got.v = IF ret = "vector" THEN q.r \o e.r ELSE e.r
  <2> DEFINE p == Put(ret, e.r)
  <2>1. e.b \in Codes /\ e.r \in Results[ret]
    BY <1>1, <1>6 DEF RpcInv, ExecInv, Ran
  <2>2. IsValue(ret, e.r)
    BY <1>3, <2>1
  <2> HIDE DEF ret, e, x, q
  <2>3. p \in Seq(Byte)
    BY <1>3, <2>2, PutType
  <2>4. /\ m.buf \in Seq(Byte) /\ Len(m.buf) = 24 + Len(p) /\ Segment(m.buf, 24, p)
        /\ h[1] = x /\ b = e.b
    <3> HIDE DEF p
    <3>1. m = Reply(<<x>>, e.b, p) /\ e.b \in Codes \cup {unmarshal_args_failure}
      BY <1>6, <2>1 DEF p
    <3> QED
      BY <1>1, <2>3, <3>1, ReplyFacts, ZenonT(60)
  <2>5. ASSUME q.ret = ret PROVE okdone(got.u) /\ got.v = IF ret = "vector" THEN q.r \o e.r ELSE e.r
    <3>1. got = Get(ret, Unmarshall(m.buf, 24), q.r)
      BY <2>5
    <3> HIDE DEF got
    <3> QED
      BY <1>3, <2>2, <2>4, <3>1, ResultBack
  <2> QED
    BY <2>1, <2>4, <2>5
<1>7. h[1] = x
  BY <1>2, <1>5, <1>6
<1>8. IF c.st = "waiting" THEN call_m(x, b, u) ELSE calls' = calls /\ status' = status
  <2>1. RPC_HEADER_SZ = 24
    BY DEF RPC_HEADER_SZ, SizeofInt, SizeofReq, SizeofReply
  <2>2. IF calls[h[1]].st = "waiting" THEN call_m(h[1], b, u) ELSE calls' = calls /\ status' = status
    BY <2>1 DEF got_pdu
  <2> HIDE DEF h, x, u, b
  <2> QED
    BY <1>7, <2>2
<1>9. CASE c.st # "waiting"
  <2>1. calls' = calls /\ status' = status /\ net' \subseteq net
    BY <1>1, <1>8, <1>9
  <2>2. CallInv' /\ ExecInv' /\ StatusInv'
    BY <1>1, <2>1 DEF RpcInv, CallInv, ExecInv, StatusInv, AbortMeansWrongReturnType
  <2>3. NetInv'
    BY <1>1, <2>1 DEF RpcInv, NetInv, Of
  <2>4. EndInv'
    BY <1>1, <2>1 DEF RpcInv, EndInv, TimedOut, Refused, Finished
  <2> QED
    BY <2>2, <2>3, <2>4 DEF RpcInv
<1>10. CASE c.st = "waiting"
  <2>1. Known(c) /\ c.r = q.r
    BY <1>1, <1>10, WaitingKnown
  <2>2. IF b < 0
        THEN /\ calls' = [calls EXCEPT ![x] = Done(c, b, c.r)]
             /\ status' = status
        ELSE /\ calls' = [calls EXCEPT ![x] = Done(c, b, got.v)]
             /\ status' = IF okdone(got.u) THEN "up" ELSE "aborted"
    BY <1>8, <1>10 DEF call_m
  <2>3. PICK d : d = Done(c, b, IF b < 0 THEN c.r ELSE got.v)
    OBVIOUS
  <2>4. calls' = [calls EXCEPT ![x] = d]
    <3> HIDE DEF c, b, got, x
    <3> QED
      BY <2>2, <2>3
  <2>5. d.st = "done" /\ d.q = q /\ d.r = (IF b < 0 THEN c.r ELSE got.v) /\ d.intret = b /\ Known(d)
    <3> HIDE DEF b, got
    <3>1. d.st = "done" /\ d.q = c.q /\ d.r = (IF b < 0 THEN c.r ELSE got.v) /\ d.intret = b
          /\ d = [st |-> d.st, q |-> d.q, r |-> d.r, intret |-> d.intret]
      <4> HIDE DEF c
      <4> QED
        BY <2>3, DoneFacts
    <3> QED
      BY <1>2, <3>1 DEF Known
  <2>6. calls'[x] = d
    <3> HIDE DEF x
    <3> QED
      BY <1>1, <2>4 DEF RpcInv, CallInv
  <2> HIDE DEF x, c, h, b, u, got, e
  <2>7. CASE executed[x] = << >> /\ m = Reply(<<x>>, unmarshal_args_failure, << >>)
    <3>1. b = unmarshal_args_failure /\ b < 0
      BY <1>5, <2>7 DEF unmarshal_args_failure
    <3>2. Refused(x)'
      BY <1>1, <2>1, <2>5, <2>6, <2>7, <3>1 DEF Refused
    <3>3. status' = status
      BY <2>2, <3>1
    <3> QED
      BY <1>1, <1>4, <1>10, <2>4, <2>5, <3>2, <3>3, EndStep DEF c
  <2>8. CASE executed[x] # << >> /\ m = Reply(<<x>>, e.b, Put(ret, e.r))
    <3>1. b = e.b /\ ~ (b < 0)
      <4>1. b = e.b /\ e.b \in Codes
        BY <1>6, <2>8
      <4> QED
        BY <4>1 DEF Codes
    <3>2. d.r = got.v /\ d.intret = e.b
      BY <2>5, <3>1
    <3>3. q.ret = ret => okdone(got.u) /\ d.r = IF q.ret = "vector" THEN q.r \o e.r ELSE e.r
      BY <1>6, <2>8, <3>2
    <3>4. Finished(x)'
      BY <1>1, <2>5, <2>6, <2>8, <3>2, <3>3 DEF Finished, e
    <3>5. status' = "up" \/ (status' = "aborted" /\ d.q.ret # procs_[d.q.proc].ret)
      BY <2>2, <2>5, <3>1, <3>3
    <3> QED
      BY <1>1, <1>4, <1>10, <2>4, <2>5, <3>4, <3>5, EndStep DEF c
  <2> QED
    BY <1>2, <2>7, <2>8
<1> QED
  BY <1>9, <1>10

-----------------------------------------------------------------------------
(* The theorems. *)

\* Every step keeps the invariant.
LEMMA RpcNext == RpcInv /\ [Next]_rpcVars => RpcInv'
<1> SUFFICES ASSUME RpcInv, [Next]_rpcVars PROVE RpcInv'
  OBVIOUS
<1>1. CASE UNCHANGED rpcVars
  <2>1. calls' = calls /\ executed' = executed /\ status' = status /\ net' = net
    BY <1>1 DEF rpcVars
  <2>2. CallInv' /\ ExecInv' /\ StatusInv'
    BY <2>1 DEF RpcInv, CallInv, ExecInv, StatusInv, AbortMeansWrongReturnType
  <2>3. NetInv'
    BY <2>1 DEF RpcInv, NetInv, Of
  <2>4. EndInv'
    BY <2>1 DEF RpcInv, EndInv, TimedOut, Refused, Finished
  <2> QED
    BY <2>2, <2>3, <2>4 DEF RpcInv
<1>2. ASSUME NEW x \in Calls, timeout(x) PROVE RpcInv'
  BY <1>2, TimeoutStep
<1>3. ASSUME NEW x \in Calls, NEW q \in Requests, call(x, q) PROVE RpcInv'
  BY <1>3, CallStep
<1>4. ASSUME NEW m \in net, got_pdu(m) PROVE RpcInv'
  BY <1>4, GotPduStep
<1>5. ASSUME NEW m \in net, fn(m) PROVE RpcInv'
  BY <1>5, FnStep
<1>6. ASSUME NEW m \in net, lose(m) PROVE RpcInv'
  BY <1>6, LoseStep
<1> QED
  BY <1>1, <1>2, <1>3, <1>4, <1>5, <1>6 DEF Next

\* The invariant, for any calls, requests and results of the declared types.
THEOREM RpcInvariant == Spec => []RpcInv
  BY RpcInit, RpcNext, PTL DEF Spec

\* Calls and executions have their form, and every message has room for the
\* header that rpc.h writes into it.
THEOREM RpcTypeCorrect == Spec => []TypeOK
<1>1. RpcInv => TypeOK
  <2> SUFFICES ASSUME RpcInv PROVE TypeOK
    OBVIOUS
  <2>1. \A x \in Calls : calls[x].st \in {"new", "waiting", "done"}
    BY NoCallNew DEF RpcInv, CallInv, Known
  <2>2. ASSUME NEW m \in net PROVE Len(m.buf) >= RPC_HEADER_SZ
    <3>1. Xid(m) \in Calls /\ Of(m, Xid(m))
      BY DEF RpcInv, NetInv
    <3>2. Len(m.buf) >= 24
      BY <3>1, OfFacts DEF RpcInv
    <3> QED
      BY <3>2 DEF RPC_HEADER_SZ, SizeofInt, SizeofReq, SizeofReply
  <2>3. ASSUME NEW x \in Calls, calls[x].st = "new" PROVE executed[x] = << >>
    <3>1. calls[x] = NoCall
      BY <2>3 DEF RpcInv, CallInv, Known
    <3> QED
      BY <3>1 DEF RpcInv, ExecInv
  <2>4. status \in {"up", "aborted"}
    BY DEF RpcInv, StatusInv
  <2> QED
    BY <2>1, <2>2, <2>3, <2>4 DEF TypeOK
<1> QED
  BY <1>1, RpcInvariant, PTL

\* A handler of rpcs::reg calls its method with the arguments the caller of
\* rpcc::call gave, whatever values they are and whatever else is under way; when
\* the types at the call site are not those of the method, with values that are
\* the same bytes.
THEOREM MethodsGetArguments == Spec => []MethodGetsArguments
<1>1. RpcInv => MethodGetsArguments
  <2> SUFFICES ASSUME RpcInv, NEW x \in Calls, NEW k \in DOMAIN executed[x]
               PROVE  LET q == calls[x].q
                          types == procs_[q.proc].args
                          args == executed[x][k].args
                      IN  /\ q.types = types => args = q.args
                          /\ (\A j \in DOMAIN types : types[j] # "map") => PutAll(types, args) = PutAll(q.types, q.args)
    BY DEF MethodGetsArguments
  <2>1. executed[x] # << >>
    OBVIOUS
  <2>2. executed[x] = <<executed[x][1]>> /\ Ran(calls[x].q, executed[x][1])
    BY <2>1 DEF RpcInv, ExecInv
  <2>3. k = 1
    BY <2>2
  <2> QED
    BY <2>2, <2>3 DEF Ran
<1> QED
  BY <1>1, RpcInvariant, PTL

\* A call of rpcc::call that does not fail returns the status and the result of
\* the method as it ran for this call, although replies overtake each other and
\* come after their calls have given up.
THEOREM ResultsOfThisCall == Spec => []ResultIsOfThisCall
<1>1. RpcInv => ResultIsOfThisCall
  <2> SUFFICES ASSUME RpcInv, NEW x \in Calls, calls[x].st = "done", calls[x].intret >= 0
               PROVE  \E k \in DOMAIN executed[x] :
                         LET q == calls[x].q
                             r == executed[x][k].r
                         IN  /\ executed[x][k].b = calls[x].intret
                             /\ q.ret = procs_[q.proc].ret =>
                                   calls[x].r = IF q.ret = "vector" THEN q.r \o r ELSE r
    BY DEF ResultIsOfThisCall
  <2>1. TimedOut(x) \/ Refused(x) \/ Finished(x)
    BY DEF RpcInv, EndInv
  <2>2. ~ TimedOut(x) /\ ~ Refused(x)
    BY DEF TimedOut, Refused, timeout_failure, unmarshal_args_failure
  <2>3. Finished(x)
    BY <2>1, <2>2
  <2>4. executed[x] = <<executed[x][1]>>
    BY <2>3 DEF RpcInv, ExecInv, Finished
  <2>5. 1 \in DOMAIN executed[x]
    BY <2>4
  <2> QED
    BY <2>3, <2>5 DEF Finished
<1> QED
  BY <1>1, RpcInvariant, PTL

\* A call that fails leaves the caller's variable alone, and when it failed for
\* its arguments the method has not run.
THEOREM FailuresTouchNothing == Spec => []FailureTouchesNothing
<1>1. RpcInv => FailureTouchesNothing
  <2> SUFFICES ASSUME RpcInv, NEW x \in Calls, calls[x].st = "done", calls[x].intret < 0
               PROVE  /\ calls[x].r = calls[x].q.r
                      /\ calls[x].intret = unmarshal_args_failure => executed[x] = << >>
    BY DEF FailureTouchesNothing
  <2>1. TimedOut(x) \/ Refused(x) \/ Finished(x)
    BY DEF RpcInv, EndInv
  <2>2. ~ Finished(x)
    <3> SUFFICES ASSUME Finished(x) PROVE FALSE
      OBVIOUS
    <3>1. executed[x] # << >> /\ calls[x].intret = executed[x][1].b
      BY DEF Finished
    <3>2. executed[x][1].b \in Codes
      BY <3>1 DEF RpcInv, ExecInv, Ran
    <3> QED
      BY <3>1, <3>2 DEF Codes
  <2>3. CASE TimedOut(x)
    BY <2>3 DEF TimedOut, timeout_failure, unmarshal_args_failure
  <2>4. CASE Refused(x)
    BY <2>4 DEF Refused
  <2> QED
    BY <2>1, <2>2, <2>3, <2>4
<1> QED
  BY <1>1, RpcInvariant, PTL

\* VERIFY(0) in call_m fails only after a call with the wrong type of result.
THEOREM AbortsMeanWrongType == Spec => []AbortMeansWrongReturnType
<1>1. RpcInv => AbortMeansWrongReturnType
  BY DEF RpcInv, StatusInv
<1> QED
  BY <1>1, RpcInvariant, PTL

=============================================================================
