------------------------------ MODULE Marshall ------------------------------
(***************************************************************************)
(* rpc/marshall.h and the operators << and >> of extent_protocol.h: the    *)
(* bytes of requests and replies.  A buffer is the room for a header,      *)
(* filled in last, and the values one after the other, with nothing in it  *)
(* that says where a value ends or of which type it is.                    *)
(*                                                                         *)
(* The values: "int" and "ull" are numbers, "string" a sequence of bytes,  *)
(* "attr" the five numbers of extent_protocol::attr, "vector" a sequence   *)
(* of ints, "map" a function from ints to ints.  bool, char, short and     *)
(* containers of other elements are left out: no registered method has     *)
(* them, and their operators are in librpc.a or are these ones.            *)
(***************************************************************************)
EXTENDS Integers, Sequences, FiniteSetsExt

CONSTANT BYTE       \* 256, the number of values of a byte

ASSUME ByteAssumption == BYTE \in Nat /\ BYTE >= 2

\* The number of values of an int.
WORD == BYTE * BYTE * BYTE * BYTE

\* The sizes of an int, of rpc_sz_t, and of the two headers.
SizeofInt == 4
SizeofReq == 5 * SizeofInt
SizeofReply == 2 * SizeofInt

\* Mutant: no room for the size that the channel fills in.
HeaderNoSize == IF SizeofReq > SizeofReply THEN SizeofReq ELSE SizeofReply

RPC_HEADER_SZ == (IF SizeofReq > SizeofReply THEN SizeofReq ELSE SizeofReply) + SizeofInt

Byte == 0 .. BYTE - 1
Words == 0 .. WORD - 1

\* v is a value of type t.  A size is an unsigned int, so that containers with
\* WORD elements and more cannot be told from smaller ones.
IsValue(t, v) ==
    CASE t = "int" -> v \in Words
      [] t = "ull" -> v \in 0 .. WORD * WORD - 1
      [] t = "string" -> v \in Seq(Byte) /\ Len(v) < WORD
      [] t = "attr" -> v \in [1 .. 5 -> Words]
      [] t = "vector" -> v \in Seq(Words) /\ Len(v) < WORD
      [] t = "map" -> /\ v \in [DOMAIN v -> Words] /\ DOMAIN v \subseteq Words
                      /\ Cardinality(DOMAIN v) < WORD

-----------------------------------------------------------------------------
(* marshall. *)

\* n as four bytes, the most significant first.
pack(n) ==
    LET n1 == n \div BYTE
        n2 == n1 \div BYTE
        n3 == n2 \div BYTE
    IN  <<n3 % BYTE, n2 % BYTE, n1 % BYTE, n % BYTE>>

\* Numbers, one behind the other.
Packed(ns) ==
    [k \in 1 .. SizeofInt * Len(ns) |->
        pack(ns[((k - 1) \div SizeofInt) + 1])[((k - 1) % SizeofInt) + 1]]

\* The k-th key of a map with these keys, in the order of its iterator.
Key(keys, k) == CHOOSE a \in keys : Cardinality({b \in keys : b <= a}) = k

\* The pairs of a map as the numbers they are written as.
Pairs(v) ==
    [k \in 1 .. 2 * Cardinality(DOMAIN v) |->
        IF k % 2 = 1 THEN Key(DOMAIN v, (k + 1) \div 2) ELSE v[Key(DOMAIN v, k \div 2)]]

\* m << v.
Put(t, v) ==
    CASE t = "int" -> pack(v)
      [] t = "ull" -> Packed(<<v \div WORD, v % WORD>>)
      [] t = "string" -> pack(Len(v)) \o v
      [] t = "attr" -> Packed(v)
      [] t = "vector" -> pack(Len(v)) \o Packed(v)
      [] t = "map" -> pack(Cardinality(DOMAIN v)) \o Packed(Pairs(v))

\* m << v1; m << v2; ...
PutAll(types, vs) ==
    LET put[k \in 0 .. Len(types)] == IF k = 0 THEN << >> ELSE put[k - 1] \o Put(types[k], vs[k])
    IN  put[Len(types)]

\* Mutant: the write position of a new buffer is 0.
BufferNoRoom(content) == content

\* A buffer with this content; the header is not written yet.
Buffer(content) == [k \in 1 .. RPC_HEADER_SZ |-> 0] \o content

\* The numbers of the header, after the place for the size of the pdu.
pack_header(buf, ns) ==
    [k \in DOMAIN buf |->
        IF k > SizeofInt /\ k <= SizeofInt + Len(Packed(ns)) THEN Packed(ns)[k - SizeofInt]
        ELSE buf[k]]

-----------------------------------------------------------------------------
(* unmarshall: u has the bytes, the position and whether all reads were in  *)
(* range.                                                                   *)

Unmarshall(buf, ind) == [buf |-> buf, ind |-> ind, ok |-> TRUE]

\* An unmarshall that nothing has been taken into.
NoReply == [buf |-> << >>, ind |-> 0, ok |-> FALSE]

okdone(u) == u.ok /\ u.ind = Len(u.buf)

\* The number in the four bytes behind position i; a byte past the end is 0.
NumberAt(buf, i) ==
    LET byte(k) == IF i + k <= Len(buf) THEN buf[i + k] ELSE 0
    IN  ((byte(1) * BYTE + byte(2)) * BYTE + byte(3)) * BYTE + byte(4)

\* Takes n numbers.  A read past the end clears ok and does not move the position.
Unpack(u, n) ==
    LET fits == u.ind + SizeofInt * n <= Len(u.buf)
    IN  [u |-> [u EXCEPT !.ind = IF fits THEN @ + SizeofInt * n ELSE Len(u.buf), !.ok = @ /\ fits],
         v |-> [k \in 1 .. n |-> NumberAt(u.buf, u.ind + SizeofInt * (k - 1))]]

unpack(u) == [u |-> Unpack(u, 1).u, v |-> Unpack(u, 1).v[1]]

unpack_header(buf, n) == Unpack(Unmarshall(buf, SizeofInt), n).v

GetString(u, old) ==
    LET n == unpack(u)
        fits == n.u.ind + n.v <= Len(u.buf)
    IN  IF n.u.ok /\ fits
        THEN [u |-> [n.u EXCEPT !.ind = @ + n.v], v |-> SubSeq(u.buf, n.u.ind + 1, n.u.ind + n.v)]
        ELSE [u |-> [n.u EXCEPT !.ok = FALSE], v |-> old]

\* The elements are pushed behind those the vector has already.
GetVector(u, old) ==
    LET n == unpack(u)
        elems == Unpack(n.u, n.v)
    IN  [u |-> elems.u, v |-> old \o elems.v]

\* Mutant: the map is not cleared first.
GetMapInto(u, old) ==
    LET n == unpack(u)
        pairs == Unpack(n.u, 2 * n.v)
        at(a) == {k \in 1 .. n.v : pairs.v[2 * k - 1] = a}
        keys == DOMAIN old \cup {pairs.v[2 * k - 1] : k \in 1 .. n.v}
    IN  [u |-> pairs.u,
         v |-> [a \in keys |-> IF at(a) = {} THEN old[a] ELSE pairs.v[2 * Max(at(a))]]]

\* The map is cleared; of several pairs with a key the last one stays.
GetMap(u, old) ==
    LET n == unpack(u)
        pairs == Unpack(n.u, 2 * n.v)
        at(a) == {k \in 1 .. n.v : pairs.v[2 * k - 1] = a}
    IN  [u |-> pairs.u,
         v |-> [a \in {pairs.v[2 * k - 1] : k \in 1 .. n.v} |-> pairs.v[2 * Max(at(a))]]]

\* u >> v, where v holds old.
Get(t, u, old) ==
    CASE t = "int" -> unpack(u)
      [] t = "ull" -> LET w == Unpack(u, 2)
                      IN  [u |-> w.u, v |-> w.v[1] * WORD + w.v[2]]
      [] t = "string" -> GetString(u, old)
      [] t = "attr" -> Unpack(u, 5)
      [] t = "vector" -> GetVector(u, old)
      [] t = "map" -> GetMap(u, old)

\* A variable that the program has declared and not assigned.
Fresh(t) == IF t \in {"int", "ull"} THEN 0 ELSE << >>

\* u >> v1; u >> v2; ...
GetAll(types, u) ==
    LET get[k \in 0 .. Len(types)] ==
            IF k = 0 THEN [u |-> u, v |-> << >>]
            ELSE LET g == Get(types[k], get[k - 1].u, Fresh(types[k]))
                 IN  [u |-> g.u, v |-> Append(get[k - 1].v, g.v)]
    IN  get[Len(types)]

=============================================================================
