------------------------------ MODULE CodecProofs ------------------------------
(***************************************************************************)
(* Proofs about Buffer, for any contents and any data: what its operations *)
(* do to the bytes that wait, and when append's assert stops the process;  *)
(* and, for any Frames and sizes, that the input Buffer of a connection    *)
(* with a ProtobufCodec is a queue of bytes, that what a codec writes a    *)
(* codec accepts, and that the messages of the frames sent, and no others, *)
(* are handed on, however their bytes are cut.                             *)
(***************************************************************************)
EXTENDS Codec, SequenceTheorems, TLAPS

\* A Buffer with its indexes in order and inside the vector.
Valid(b) == b \in Buffers /\ inRange(b)

-----------------------------------------------------------------------------
(* Operations of Buffer.                                                   *)

\* The fields of a valid Buffer, and what waits in it.
LEMMA ValidFields ==
    ASSUME NEW b, Valid(b)
    PROVE  /\ b.vec \in Seq(Int) /\ b.readPos \in Nat /\ b.writePos \in Nat
           /\ b.readPos <= b.writePos /\ b.writePos <= Len(b.vec) /\ Len(b.vec) \in Nat
           /\ readableBytes(b) \in Nat /\ writableBytes(b) \in Nat
           /\ contents(b) \in Seq(Int) /\ Len(contents(b)) = readableBytes(b)
           /\ \A i \in 1..readableBytes(b) :
                contents(b)[i] = b.vec[b.readPos + i] /\ b.readPos + i \in 1..Len(b.vec)
  <1>1. /\ b.vec \in Seq(Int) /\ b.readPos \in Nat /\ b.writePos \in Nat
        /\ b.readPos <= b.writePos /\ b.writePos <= Len(b.vec)
    BY DEF Valid, Buffers, inRange
  <1>2. Len(b.vec) \in Nat /\ readableBytes(b) \in Nat /\ writableBytes(b) \in Nat
    BY <1>1 DEF readableBytes, writableBytes
  <1>3. \A i \in 1..readableBytes(b) : b.readPos + i \in 1..Len(b.vec)
    BY SMTT(30), <1>1, <1>2 DEF readableBytes
  <1>4. \A i \in 1..readableBytes(b) : b.vec[b.readPos + i] \in Int
    BY <1>1, <1>3
  <1>5. contents(b) \in Seq(Int) /\ Len(contents(b)) = readableBytes(b)
    BY <1>2, <1>4 DEF contents
  <1> QED BY <1>1, <1>2, <1>3, <1>5 DEF contents

\* Two valid Buffers whose readable parts agree have the same contents.
LEMMA SameContents ==
    ASSUME NEW b, NEW c, readableBytes(c) = readableBytes(b),
           \A i \in 1..readableBytes(b) : c.vec[c.readPos + i] = b.vec[b.readPos + i]
    PROVE  contents(c) = contents(b)
  BY DEF contents

\* A Buffer is given by its three members.
LEMMA MakeValid ==
    ASSUME NEW b, NEW v \in Seq(Int), NEW r \in Nat, NEW w \in Nat,
           b = [vec |-> v, readPos |-> r, writePos |-> w], r <= w, w <= Len(v)
    PROVE  Valid(b) /\ b.vec = v /\ b.readPos = r /\ b.writePos = w
  BY DEF Valid, Buffers, inRange

\* Assigning m_vec leaves the other members.
LEMMA AssignVec ==
    ASSUME NEW b \in Buffers, NEW v
    PROVE  [b EXCEPT !.vec = v] = [vec |-> v, readPos |-> b.readPos, writePos |-> b.writePos]
  BY DEF Buffers

\* makeSpace by moving: the same bytes, all free room at the end.
LEMMA MoveToFront ==
    ASSUME NEW b, Valid(b)
    PROVE  /\ Valid(moveToFront(b)) /\ contents(moveToFront(b)) = contents(b)
           /\ writableBytes(moveToFront(b)) = b.readPos + writableBytes(b)
           /\ moveToFront(b).readPos = 0 /\ Len(moveToFront(b).vec) = Len(b.vec)
  <1> DEFINE v == [i \in 1..Len(b.vec) |->
                     IF i <= readableBytes(b) THEN b.vec[b.readPos + i] ELSE b.vec[i]]
  <1>1. /\ b.vec \in Seq(Int) /\ b.readPos \in Nat /\ b.writePos \in Nat
        /\ b.readPos <= b.writePos /\ b.writePos <= Len(b.vec) /\ Len(b.vec) \in Nat
        /\ readableBytes(b) \in Nat
        /\ \A i \in 1..readableBytes(b) : b.readPos + i \in 1..Len(b.vec)
    BY ValidFields
  <1>2. v \in Seq(Int) /\ Len(v) = Len(b.vec)
    <2>1. \A i \in 1..Len(b.vec) : v[i] \in Int
      BY SMTT(30), <1>1
    <2> QED BY SMTT(30), <1>1, <2>1
  <1>3. readableBytes(b) <= Len(b.vec)
    BY <1>1 DEF readableBytes
  <1>4. /\ Valid(moveToFront(b)) /\ moveToFront(b).vec = v
        /\ moveToFront(b).readPos = 0 /\ moveToFront(b).writePos = readableBytes(b)
    <2> HIDE DEF v
    <2>1. moveToFront(b) = [vec |-> v, readPos |-> 0, writePos |-> readableBytes(b)]
      BY DEF moveToFront, v
    <2>2. readableBytes(b) \in Nat /\ 0 <= readableBytes(b) /\ readableBytes(b) <= Len(v)
      BY <1>1, <1>2, <1>3
    <2> QED BY <1>2, <2>1, <2>2, MakeValid
  <1>5. readableBytes(moveToFront(b)) = readableBytes(b)
    BY <1>1, <1>4 DEF readableBytes
  <1>6. writableBytes(moveToFront(b)) = b.readPos + writableBytes(b)
    BY <1>1, <1>2, <1>4 DEF writableBytes, readableBytes
  <1>7. \A i \in 1..readableBytes(b) : v[0 + i] = b.vec[b.readPos + i]
    BY <1>1, <1>3
  <1>8. contents(moveToFront(b)) = contents(b)
    <2> HIDE DEF v
    <2> QED BY <1>4, <1>5, <1>7, SameContents
  <1> QED BY <1>2, <1>4, <1>6, <1>8

\* makeSpace by growing: the same bytes, len more to write.
LEMMA Resize ==
    ASSUME NEW b, Valid(b), NEW n \in Nat
    PROVE  /\ Valid(resize(b, n)) /\ contents(resize(b, n)) = contents(b)
           /\ writableBytes(resize(b, n)) = writableBytes(b) + n
           /\ resize(b, n).readPos = b.readPos /\ Len(resize(b, n).vec) = Len(b.vec) + n
  <1> DEFINE v == [i \in 1..Len(b.vec) + n |-> IF i <= Len(b.vec) THEN b.vec[i] ELSE 0]
  <1>1. /\ b.vec \in Seq(Int) /\ b.readPos \in Nat /\ b.writePos \in Nat
        /\ b.readPos <= b.writePos /\ b.writePos <= Len(b.vec) /\ Len(b.vec) \in Nat
        /\ readableBytes(b) \in Nat
        /\ \A i \in 1..readableBytes(b) : b.readPos + i \in 1..Len(b.vec)
    BY ValidFields
  <1>2. v \in Seq(Int) /\ Len(v) = Len(b.vec) + n
    <2>1. \A i \in 1..Len(b.vec) + n : v[i] \in Int
      BY <1>1
    <2> QED BY <1>1, <2>1
  <1>3. /\ Valid(resize(b, n)) /\ resize(b, n).vec = v
        /\ resize(b, n).readPos = b.readPos /\ resize(b, n).writePos = b.writePos
    <2>1. b = [vec |-> b.vec, readPos |-> b.readPos, writePos |-> b.writePos]
      BY DEF Valid, Buffers
    <2>2. resize(b, n) = [vec |-> v, readPos |-> b.readPos, writePos |-> b.writePos]
      BY <2>1 DEF resize
    <2>3. b.writePos <= Len(v)
      BY <1>1, <1>2
    <2> HIDE DEF v
    <2> QED BY <1>1, <1>2, <2>2, <2>3, MakeValid
  <1>4. readableBytes(resize(b, n)) = readableBytes(b)
    BY <1>3 DEF readableBytes
  <1>5. writableBytes(resize(b, n)) = writableBytes(b) + n
    BY <1>1, <1>2, <1>3 DEF writableBytes
  <1>6. \A i \in 1..readableBytes(b) : v[b.readPos + i] = b.vec[b.readPos + i]
    BY <1>1
  <1>7. contents(resize(b, n)) = contents(b)
    <2> HIDE DEF v
    <2> QED BY <1>3, <1>4, <1>6, SameContents
  <1> QED BY <1>2, <1>3, <1>5, <1>7

\* ensureSpace makes the room asked for and touches no byte that waits.
LEMMA EnsureSpace ==
    ASSUME NEW b, Valid(b), NEW n \in Nat
    PROVE  /\ Valid(ensureSpace(b, n)) /\ contents(ensureSpace(b, n)) = contents(b)
           /\ n <= writableBytes(ensureSpace(b, n))
  <1>1. writableBytes(b) \in Nat /\ b.readPos \in Nat
    BY ValidFields
  <1>2. CASE n <= writableBytes(b)
    BY <1>2 DEF ensureSpace
  <1>3. CASE ~(n <= writableBytes(b)) /\ n <= b.readPos + writableBytes(b)
    BY <1>1, <1>3, MoveToFront DEF ensureSpace, makeSpace
  <1>4. CASE ~(n <= writableBytes(b)) /\ ~(n <= b.readPos + writableBytes(b))
    BY <1>1, <1>4, Resize DEF ensureSpace, makeSpace
  <1> QED BY <1>2, <1>3, <1>4

\* Where the ith byte lies when n bytes are put behind those from r to w.
LEMMA Places ==
    ASSUME NEW r \in Nat, NEW w \in Nat, NEW l \in Nat, NEW n \in Nat,
           r <= w, n <= l - w, NEW i \in 1..(w - r) + n
    PROVE  /\ i <= w - r => i \in 1..(w - r) /\ r + i \notin w + 1..w + n
           /\ ~(i <= w - r) => /\ r + i \in w + 1..w + n /\ r + i \in 1..l
                               /\ (r + i) - w = i - (w - r)
  OBVIOUS

\* Bytes stored where there is room come behind those that wait.
LEMMA Store ==
    ASSUME NEW b, Valid(b), NEW data \in Seq(Int), Len(data) <= writableBytes(b)
    PROVE  /\ Valid(store(b, data)) /\ contents(store(b, data)) = contents(b) \o data
           /\ writableBytes(store(b, data)) = writableBytes(b) - Len(data)
           /\ store(b, data).readPos = b.readPos /\ Len(store(b, data).vec) = Len(b.vec)
           /\ store(b, data).writePos = b.writePos + Len(data)
  <1> DEFINE v == [i \in 1..Len(b.vec) |->
                     IF i \in b.writePos + 1..b.writePos + Len(data)
                     THEN data[i - b.writePos] ELSE b.vec[i]]
             s == store(b, data)
  <1>1. /\ b.vec \in Seq(Int) /\ b.readPos \in Nat /\ b.writePos \in Nat
        /\ b.readPos <= b.writePos /\ b.writePos <= Len(b.vec) /\ Len(b.vec) \in Nat
        /\ readableBytes(b) \in Nat /\ writableBytes(b) \in Nat /\ Len(data) \in Nat
        /\ contents(b) \in Seq(Int) /\ Len(contents(b)) = readableBytes(b)
        /\ \A i \in 1..readableBytes(b) :
                contents(b)[i] = b.vec[b.readPos + i] /\ b.readPos + i \in 1..Len(b.vec)
    BY ValidFields
  <1>2. v \in Seq(Int) /\ Len(v) = Len(b.vec)
    <2>1. \A i \in 1..Len(b.vec) : v[i] \in Int
      <3> SUFFICES ASSUME NEW i \in 1..Len(b.vec) PROVE v[i] \in Int
        OBVIOUS
      <3>1. CASE i \in b.writePos + 1..b.writePos + Len(data)
        <4>1. i - b.writePos \in 1..Len(data)
          BY SMTT(30), <1>1, <3>1
        <4> QED BY <3>1, <4>1
      <3>2. CASE i \notin b.writePos + 1..b.writePos + Len(data)
        BY <1>1, <3>2
      <3> QED BY <3>1, <3>2
    <2> QED BY SMTT(30), <1>1, <2>1
  <1>3. /\ Valid(s) /\ s.vec = v /\ s.readPos = b.readPos
        /\ s.writePos = b.writePos + Len(data)
    <2>1. write(b, data) = [b EXCEPT !.vec = v]
      BY DEF write
    <2> HIDE DEF v
    <2>2. write(b, data) = [vec |-> v, readPos |-> b.readPos, writePos |-> b.writePos]
      BY <2>1, AssignVec DEF Valid
    <2>3. s = [vec |-> v, readPos |-> b.readPos, writePos |-> b.writePos + Len(data)]
      BY <2>2 DEF store, hasWritten
    <2>4. b.writePos + Len(data) <= Len(v) /\ b.readPos <= b.writePos + Len(data)
          /\ b.writePos + Len(data) \in Nat
      BY <1>1, <1>2 DEF writableBytes
    <2> QED BY <1>1, <1>2, <2>3, <2>4, MakeValid
  <1>4. readableBytes(s) = readableBytes(b) + Len(data) /\ readableBytes(b) + Len(data) \in Nat
    BY <1>1, <1>3 DEF readableBytes
  <1>5. writableBytes(s) = writableBytes(b) - Len(data)
    BY <1>1, <1>2, <1>3 DEF writableBytes
  <1>6. contents(s) = contents(b) \o data
    <2>1. /\ contents(b) \o data \in Seq(Int)
          /\ Len(contents(b) \o data) = readableBytes(b) + Len(data)
          /\ \A i \in 1..readableBytes(b) + Len(data) :
                (contents(b) \o data)[i] = IF i <= readableBytes(b) THEN contents(b)[i]
                                           ELSE data[i - readableBytes(b)]
      <3> DEFINE c == contents(b)
      <3>1. c \in Seq(Int) /\ Len(c) = readableBytes(b)
        BY <1>1
      <3>2. /\ c \o data \in Seq(Int)
            /\ Len(c \o data) = Len(c) + Len(data)
            /\ \A i \in 1..Len(c) + Len(data) :
                  (c \o data)[i] = IF i <= Len(c) THEN c[i] ELSE data[i - Len(c)]
        <4> HIDE DEF c
        <4> QED BY <3>1, ConcatProperties
      <3> QED BY <3>1, <3>2
    <2>2. /\ contents(s) \in Seq(Int) /\ Len(contents(s)) = readableBytes(b) + Len(data)
          /\ \A i \in 1..readableBytes(b) + Len(data) : contents(s)[i] = v[b.readPos + i]
      <3> HIDE DEF s, v
      <3>1. /\ contents(s) \in Seq(Int) /\ Len(contents(s)) = readableBytes(s)
            /\ \A i \in 1..readableBytes(s) : contents(s)[i] = s.vec[s.readPos + i]
        BY <1>3, ValidFields
      <3> QED BY <1>3, <1>4, <3>1
    <2>3. \A i \in 1..readableBytes(b) + Len(data) :
              v[b.readPos + i] = IF i <= readableBytes(b) THEN contents(b)[i]
                                                          ELSE data[i - readableBytes(b)]
      <3> SUFFICES ASSUME NEW i \in 1..readableBytes(b) + Len(data)
                   PROVE  v[b.readPos + i] = IF i <= readableBytes(b) THEN contents(b)[i]
                                                          ELSE data[i - readableBytes(b)]
        OBVIOUS
      <3> DEFINE j == b.readPos + i
      <3>1. /\ readableBytes(b) = b.writePos - b.readPos
            /\ Len(data) <= Len(b.vec) - b.writePos
        BY DEF readableBytes, writableBytes
      <3>2. /\ i <= readableBytes(b) =>
                i \in 1..readableBytes(b) /\ j \notin b.writePos + 1..b.writePos + Len(data)
            /\ ~(i <= readableBytes(b)) =>
                /\ j \in b.writePos + 1..b.writePos + Len(data) /\ j \in 1..Len(b.vec)
                /\ j - b.writePos = i - readableBytes(b)
        <4> DEFINE k == b.writePos - b.readPos
        <4>1. /\ b.readPos \in Nat /\ b.writePos \in Nat /\ Len(b.vec) \in Nat /\ Len(data) \in Nat
              /\ b.readPos <= b.writePos /\ i \in 1..k + Len(data)
          BY <1>1, <3>1
        <4>2. /\ i <= k => i \in 1..k /\ j \notin b.writePos + 1..b.writePos + Len(data)
              /\ ~(i <= k) =>
                /\ j \in b.writePos + 1..b.writePos + Len(data) /\ j \in 1..Len(b.vec)
                /\ j - b.writePos = i - k
          BY <3>1, <4>1, Places
        <4> QED BY <3>1, <4>2
      <3>3. CASE i <= readableBytes(b)
        <4>1. j \in 1..Len(b.vec) /\ contents(b)[i] = b.vec[j]
          BY <1>1, <3>2, <3>3
        <4>2. v[j] = b.vec[j]
          <5> HIDE DEF j
          <5> QED BY <3>2, <3>3, <4>1
        <4> QED BY <3>3, <4>1, <4>2
      <3>4. CASE ~(i <= readableBytes(b))
        <4>1. v[j] = data[j - b.writePos]
          <5> HIDE DEF j
          <5> QED BY <3>2, <3>4
        <4> QED BY <3>2, <3>4, <4>1
      <3> QED BY <3>3, <3>4
    <2>4. \A i \in 1..Len(contents(s)) : contents(s)[i] = (contents(b) \o data)[i]
      <3> HIDE DEF v, s
      <3> TAKE i \in 1..Len(contents(s))
      <3>1. i \in 1..readableBytes(b) + Len(data)
        BY <2>2
      <3> QED BY <2>1, <2>2, <2>3, <3>1
    <2> HIDE DEF v, s
    <2> QED BY <2>1, <2>2, <2>4, SeqEqual
  <1> QED BY <1>2, <1>3, <1>5, <1>6

\* append puts the data behind what waits, whether it had to make room or not.
THEOREM AppendAppends ==
    ASSUME NEW b, Valid(b), NEW data \in Seq(Int)
    PROVE  Valid(append(b, data)) /\ contents(append(b, data)) = contents(b) \o data
  <1>1. Len(data) \in Nat
    OBVIOUS
  <1> QED BY <1>1, EnsureSpace, Store DEF append

\* The ith place behind n others.
LEMMA Shift ==
    ASSUME NEW k \in Nat, NEW n \in 0..k, NEW r \in Nat, NEW i \in 1..k - n
    PROVE  n + i \in 1..k /\ (r + n) + i = r + (n + i)
  OBVIOUS

\* retrieve takes the first n bytes that wait and leaves the rest as they were.
THEOREM RetrieveTakes ==
    ASSUME NEW b, Valid(b), NEW n \in 0..readableBytes(b)
    PROVE  /\ Valid(retrieve(b, n))
           /\ contents(retrieve(b, n)) = SubSeq(contents(b), n + 1, Len(contents(b)))
  <1> DEFINE c == retrieve(b, n)
             rest == SubSeq(contents(b), n + 1, Len(contents(b)))
  <1>1. /\ b.vec \in Seq(Int) /\ b.readPos \in Nat /\ b.writePos \in Nat
        /\ b.readPos <= b.writePos /\ b.writePos <= Len(b.vec) /\ Len(b.vec) \in Nat
        /\ readableBytes(b) \in Nat /\ readableBytes(b) = b.writePos - b.readPos
        /\ contents(b) \in Seq(Int) /\ Len(contents(b)) = readableBytes(b)
        /\ \A i \in 1..readableBytes(b) : contents(b)[i] = b.vec[b.readPos + i]
    BY ValidFields DEF readableBytes
  <1>2. b \in [vec : Seq(Int), readPos : Nat, writePos : Nat]
    BY DEF Valid, Buffers
  <1>3. CASE n < readableBytes(b)
    <2>1. c = [b EXCEPT !.readPos = b.readPos + n]
      BY <1>3 DEF retrieve
    <2>2. b.readPos + n \in Nat /\ b.readPos + n <= b.writePos
      BY <1>1, <1>3
    <2>3. c = [vec |-> b.vec, readPos |-> b.readPos + n, writePos |-> b.writePos]
      BY <1>2, <2>1
    <2>4. Valid(c) /\ c.vec = b.vec /\ c.readPos = b.readPos + n /\ c.writePos = b.writePos
      BY <1>1, <2>2, <2>3, MakeValid
    <2>5. readableBytes(c) = readableBytes(b) - n /\ readableBytes(b) - n \in Nat
      BY SMTT(30), <1>1, <1>3, <2>4 DEF readableBytes
    <2>6. /\ contents(c) \in Seq(Int) /\ Len(contents(c)) = readableBytes(b) - n
          /\ \A i \in 1..readableBytes(b) - n : contents(c)[i] = b.vec[(b.readPos + n) + i]
      <3> HIDE DEF c
      <3>1. /\ contents(c) \in Seq(Int) /\ Len(contents(c)) = readableBytes(c)
            /\ \A i \in 1..readableBytes(c) : contents(c)[i] = c.vec[c.readPos + i]
        BY <2>4, ValidFields
      <3> QED BY <2>4, <2>5, <3>1
    <2>7. /\ rest \in Seq(Int) /\ Len(rest) = readableBytes(b) - n
          /\ \A i \in 1..readableBytes(b) - n : rest[i] = contents(b)[n + i]
      <3> DEFINE q == contents(b)
      <3>1. q \in Seq(Int) /\ Len(q) = readableBytes(b) /\ Len(q) \in Nat /\ n \in Nat /\ n < Len(q)
        BY <1>1, <1>3
      <3>2. /\ SubSeq(q, n + 1, Len(q)) \in Seq(Int) /\ Len(SubSeq(q, n + 1, Len(q))) = Len(q) - n
            /\ \A i \in 1..Len(q) - n : SubSeq(q, n + 1, Len(q))[i] = q[n + i]
        <4> HIDE DEF q
        <4> QED BY SMTT(30), <3>1
      <3> QED BY <3>1, <3>2
    <2>8. \A i \in 1..readableBytes(b) - n : contents(c)[i] = rest[i]
      <3> SUFFICES ASSUME NEW i \in 1..readableBytes(b) - n PROVE contents(c)[i] = rest[i]
        OBVIOUS
      <3>1. n + i \in 1..readableBytes(b) /\ (b.readPos + n) + i = b.readPos + (n + i)
        BY <1>1, Shift
      <3>2. rest[i] = b.vec[b.readPos + (n + i)]
        BY <1>1, <2>7, <3>1
      <3> QED BY <2>6, <3>1, <3>2
    <2> HIDE DEF c, rest
    <2>9. contents(c) = rest
      BY <2>6, <2>7, <2>8, SeqEqual
    <2> QED BY <2>4, <2>9 DEF c, rest
  <1>4. CASE ~(n < readableBytes(b))
    <2>1. n = readableBytes(b)
      BY <1>1, <1>4
    <2>2. c = [vec |-> b.vec, readPos |-> 0, writePos |-> 0]
      BY <1>2, <1>4 DEF retrieve, retrieveAll
    <2>3. Valid(c) /\ c.readPos = 0 /\ c.writePos = 0
      BY <1>1, <2>2, MakeValid
    <2>4. contents(c) \in Seq(Int) /\ Len(contents(c)) = 0
      <3> HIDE DEF c
      <3> QED BY <2>3, ValidFields DEF readableBytes
    <2>5. contents(c) = <<>>
      <3> HIDE DEF c
      <3> QED BY <2>4, EmptySeq
    <2>6. rest = <<>>
      BY <1>1, <2>1, SubSeqEmpty
    <2> QED BY <2>3, <2>5, <2>6
  <1> QED BY <1>3, <1>4

\* A sequence is its first n members and the others.
LEMMA SplitAt ==
    ASSUME NEW q \in Seq(Int), NEW n \in 0..Len(q)
    PROVE  /\ SubSeq(q, 1, n) \in Seq(Int) /\ SubSeq(q, n + 1, Len(q)) \in Seq(Int)
           /\ Len(SubSeq(q, 1, n)) = n /\ Len(SubSeq(q, n + 1, Len(q))) = Len(q) - n
           /\ q = SubSeq(q, 1, n) \o SubSeq(q, n + 1, Len(q))
  <1> DEFINE x == SubSeq(q, 1, n)
             y == SubSeq(q, n + 1, Len(q))
  <1>1. n \in Nat /\ Len(q) \in Nat /\ n <= Len(q)
    OBVIOUS
  <1>2. x \in Seq(Int) /\ Len(x) = n /\ \A i \in 1..n : x[i] = q[i]
    BY <1>1
  <1>3. y \in Seq(Int) /\ Len(y) = Len(q) - n /\ \A i \in 1..Len(q) - n : y[i] = q[n + i]
    BY <1>1
  <1> HIDE DEF x, y
  <1>4. /\ x \o y \in Seq(Int) /\ Len(x \o y) = Len(x) + Len(y)
        /\ \A i \in 1..Len(x) + Len(y) : (x \o y)[i] = IF i <= Len(x) THEN x[i] ELSE y[i - Len(x)]
    BY <1>2, <1>3, ConcatProperties
  <1>5. \A i \in 1..Len(q) : q[i] = (x \o y)[i]
    <2> TAKE i \in 1..Len(q)
    <2>1. CASE i <= n
      BY <1>1, <1>2, <1>3, <1>4, <2>1
    <2>2. CASE ~(i <= n)
      <3>1. i - n \in 1..Len(q) - n /\ n + (i - n) = i
        BY <1>1, <2>2
      <3>2. (x \o y)[i] = y[i - n]
        BY SMTT(30), <1>1, <1>2, <1>3, <1>4, <2>2
      <3>3. y[i - n] = q[n + (i - n)]
        BY <1>3, <3>1
      <3> QED BY <3>1, <3>2, <3>3
    <2> QED BY <2>1, <2>2
  <1>6. q = x \o y
    <2>1. Len(q) = Len(x \o y)
      BY <1>1, <1>2, <1>3, <1>4
    <2> QED BY <1>4, <1>5, <2>1, SeqEqual
  <1> QED BY <1>2, <1>3, <1>6 DEF x, y

\* Pieces of bytes may be grouped either way.
LEMMA Regroup ==
    ASSUME NEW x \in Seq(Int), NEW y \in Seq(Int), NEW z \in Seq(Int)
    PROVE  (x \o y) \o z = x \o (y \o z)
  BY ConcatAssociative

\* readFromFd puts what it read behind what waits, in one piece or in two.
THEOREM ReadFromFdAppends ==
    ASSUME NEW b, Valid(b), NEW data \in Seq(Int)
    PROVE  Valid(readFromFd(b, data)) /\ contents(readFromFd(b, data)) = contents(b) \o data
  <1>1. writableBytes(b) \in Nat /\ contents(b) \in Seq(Int) /\ Len(data) \in Nat
    BY ValidFields
  <1>2. CASE Len(data) <= writableBytes(b)
    BY <1>2, Store DEF readFromFd
  <1>3. CASE ~(Len(data) <= writableBytes(b))
    <2> DEFINE n == writableBytes(b)
               x == SubSeq(data, 1, n)
               y == SubSeq(data, n + 1, Len(data))
    <2>1. x \in Seq(Int) /\ y \in Seq(Int) /\ Len(x) = n /\ data = x \o y
      <3>1. n \in 0..Len(data)
        BY <1>1, <1>3
      <3> HIDE DEF n
      <3> QED BY <3>1, SplitAt
    <2>2. readFromFd(b, data) = append(store(b, x), y)
      BY <1>3 DEF readFromFd
    <2>3. n <= writableBytes(b)
      BY <1>1
    <2> HIDE DEF n, x, y
    <2>4. Valid(store(b, x)) /\ contents(store(b, x)) = contents(b) \o x
      BY <2>1, <2>3, Store
    <2>5. Valid(append(store(b, x), y)) /\ contents(append(store(b, x), y)) = (contents(b) \o x) \o y
      BY <2>1, <2>4, AppendAppends
    <2>6. (contents(b) \o x) \o y = contents(b) \o data
      <3>1. contents(b) \in Seq(Int) /\ x \in Seq(Int) /\ y \in Seq(Int) /\ data = x \o y
        BY <1>1, <2>1
      <3> QED BY <3>1, Regroup, Zenon
    <2> QED BY <2>2, <2>5, <2>6
  <1> QED BY <1>2, <1>3

-----------------------------------------------------------------------------
(* The assert of append.                                                   *)

\* append(b, data) passes its assert unless the data fills the room at the end of
\* the vector exactly, or the room there is after moving to its front, or the
\* vector has to grow and had no room at its end: it grows by the data's length.
THEOREM WhenAppendAsserts ==
    ASSUME NEW b, Valid(b), NEW data \in Seq(Int)
    PROVE  appendAsserts(b, data) <=>
              \/ Len(data) < writableBytes(b)
              \/ writableBytes(b) < Len(data) /\ Len(data) < b.readPos + writableBytes(b)
              \/ b.readPos + writableBytes(b) < Len(data) /\ 0 < writableBytes(b)
  <1> DEFINE n == Len(data)
             e == ensureSpace(b, n)
  <1>1. n \in Nat /\ writableBytes(b) \in Nat /\ b.readPos \in Nat
    BY ValidFields
  <1>2. Valid(e) /\ n <= writableBytes(e)
    BY <1>1, EnsureSpace
  <1>3. writableBytes(e) = Len(e.vec) - e.writePos /\ writableBytes(e) \in Nat
        /\ Len(e.vec) \in Nat /\ e.writePos \in Nat
    <2> HIDE DEF e
    <2> QED BY <1>2, ValidFields DEF writableBytes
  <1>4. appendAsserts(b, data) <=> n < writableBytes(e)
    <2>1. Len(store(e, data).vec) = Len(e.vec) /\ store(e, data).writePos = e.writePos + n
      <3> HIDE DEF e
      <3> QED BY <1>2, Store
    <2>2. append(b, data) = store(e, data)
      BY DEF append
    <2>3. appendAsserts(b, data) <=> e.writePos + n < Len(e.vec)
      <3> HIDE DEF e, n
      <3> QED BY <2>1, <2>2 DEF appendAsserts
    <2> HIDE DEF e, n
    <2> QED BY <1>1, <1>3, <2>3
  <1>5. CASE n <= writableBytes(b)
    <2>1. e = b
      BY <1>5 DEF ensureSpace
    <2> HIDE DEF e
    <2> QED BY <1>1, <1>4, <1>5, <2>1
  <1>6. CASE ~(n <= writableBytes(b)) /\ n <= b.readPos + writableBytes(b)
    <2>1. e = moveToFront(b)
      BY <1>6 DEF ensureSpace, makeSpace
    <2>2. writableBytes(e) = b.readPos + writableBytes(b)
      BY <2>1, MoveToFront
    <2> HIDE DEF e
    <2> QED BY <1>1, <1>4, <1>6, <2>2
  <1>7. CASE ~(n <= writableBytes(b)) /\ ~(n <= b.readPos + writableBytes(b))
    <2>1. e = resize(b, n)
      BY <1>7 DEF ensureSpace, makeSpace
    <2>2. writableBytes(e) = writableBytes(b) + n
      BY <1>1, <2>1, Resize
    <2> HIDE DEF e
    <2> QED BY <1>1, <1>4, <1>7, <2>2
  <1> QED BY <1>5, <1>6, <1>7

\* When the bytes read do not fit behind those that wait, readFromFd's append
\* passes its assert only if moving to the front leaves one more byte than it
\* needs: a Buffer nothing was retrieved from can never take what overflows it.
THEOREM WhenReadAsserts ==
    ASSUME NEW b, Valid(b), NEW data \in Seq(Int)
    PROVE  readFromFdAsserts(b, data) <=>
              Len(data) <= writableBytes(b) \/ Len(data) < b.readPos + writableBytes(b)
  <1>1. /\ writableBytes(b) \in Nat /\ b.readPos \in Nat /\ Len(data) \in Nat
    BY ValidFields
  <1>2. CASE Len(data) <= writableBytes(b)
    BY <1>2 DEF readFromFdAsserts
  <1>3. CASE ~(Len(data) <= writableBytes(b))
    <2> DEFINE n == writableBytes(b)
               x == SubSeq(data, 1, n)
               y == SubSeq(data, n + 1, Len(data))
    <2>1. x \in Seq(Int) /\ y \in Seq(Int) /\ Len(x) = n /\ Len(y) = Len(data) - n
      <3>1. n \in 0..Len(data)
        BY <1>1, <1>3
      <3> HIDE DEF n
      <3> QED BY <3>1, SplitAt
    <2>2. readFromFdAsserts(b, data) <=> appendAsserts(store(b, x), y)
      BY <1>3 DEF readFromFdAsserts
    <2>3. n \in Nat /\ n <= writableBytes(b) /\ writableBytes(b) = n
      BY <1>1
    <2> HIDE DEF n, x, y
    <2>4. /\ Valid(store(b, x)) /\ writableBytes(store(b, x)) = writableBytes(b) - Len(x)
          /\ store(b, x).readPos = b.readPos
      BY <2>1, <2>3, Store
    <2>5. writableBytes(store(b, x)) = 0
      BY <2>1, <2>3, <2>4
    <2>6. appendAsserts(store(b, x), y) <=>
              \/ Len(y) < 0
              \/ 0 < Len(y) /\ Len(y) < b.readPos + 0
              \/ b.readPos + 0 < Len(y) /\ 0 < 0
      BY <2>1, <2>4, <2>5, WhenAppendAsserts
    <2> QED BY SMTT(30), <1>1, <1>3, <2>1, <2>2, <2>3, <2>6
  <1> QED BY <1>2, <1>3

-----------------------------------------------------------------------------
(* The input Buffer of a connection with a codec.                          *)

BufferInv == Valid(buf) /\ wire \in Seq(Int)

\* A new Buffer is empty.
LEMMA NewBuffer ==
    ASSUME NEW n \in Nat
    PROVE  Valid(newBuffer(n)) /\ contents(newBuffer(n)) = <<>>
  <1> DEFINE v == [i \in 1..n |-> 0]
             b == newBuffer(n)
  <1>1. v \in Seq(Int) /\ Len(v) = n
    OBVIOUS
  <1>2. Valid(b) /\ b.readPos = 0 /\ b.writePos = 0
    <2>1. b = [vec |-> v, readPos |-> 0, writePos |-> 0]
      BY DEF newBuffer
    <2> HIDE DEF v, b
    <2> QED BY <1>1, <2>1, MakeValid
  <1>3. contents(b) \in Seq(Int) /\ Len(contents(b)) = 0
    <2> HIDE DEF b
    <2> QED BY <1>2, ValidFields DEF readableBytes
  <1>4. contents(b) = <<>>
    <2> HIDE DEF b
    <2> QED BY <1>3, EmptySeq
  <1> QED BY <1>2, <1>4

\* What onMessage retrieves is there.
LEMMA FrameIsThere ==
    ASSUME Valid(buf), OnMessageHandles
    PROVE  /\ s_headerLen + len \in 0..readableBytes(buf)
           /\ buf' = retrieve(buf, s_headerLen + len)
  <1>1. readableBytes(buf) \in Nat /\ contents(buf) \in Seq(Int)
        /\ Len(contents(buf)) = readableBytes(buf)
    BY ValidFields
  <1>2. readableBytes(buf) >= 5 /\ 4 <= len /\ readableBytes(buf) >= len + 1
    BY DEF OnMessageHandles, enough, validLength, complete, s_minMessageLen, s_headerLen
  <1>3. len \in Int
    BY <1>1, <1>2 DEF len, bytes
  <1> QED BY <1>1, <1>2, <1>3 DEF OnMessageHandles, consume, s_headerLen

\* Every step keeps the Buffer valid and is a step of the queue.
LEMMA StepQueue ==
    ASSUME BufferInv, [Next]_vars
    PROVE  BufferInv' /\ [Queue!Next]_(contents(buf))
  <1> USE CodecAssumption
  <1>0. contents(buf) \in Seq(Int)
    BY ValidFields DEF BufferInv
  <1>1. ASSUME buf' = buf, wire' \in Seq(Int)
        PROVE  BufferInv' /\ [Queue!Next]_(contents(buf))
    BY <1>1 DEF BufferInv, Valid, Buffers, inRange, contents, readableBytes
  <1>2. ASSUME NEW f \in Frames, Send(f)
        PROVE  BufferInv' /\ [Queue!Next]_(contents(buf))
    <2>1. f \in Seq(Int) /\ wire' = wire \o f /\ buf' = buf
      BY <1>2 DEF Send
    <2>2. wire' \in Seq(Int)
      BY <2>1 DEF BufferInv
    <2> QED BY <1>1, <2>1, <2>2
  <1>3. ASSUME NEW n \in 1..Len(wire), Receive(n)
        PROVE  BufferInv' /\ [Queue!Next]_(contents(buf))
    <2> DEFINE data == SubSeq(wire, 1, n)
    <2>1. data \in Seq(Int) /\ wire' \in Seq(Int)
      BY <1>3 DEF Receive, BufferInv
    <2>2. CASE buf' = buf
      BY <1>1, <2>1, <2>2
    <2>3. CASE buf' # buf
      <3>1. buf' = readFromFd(buf, data)
        BY <1>3, <2>3 DEF Receive
      <3> HIDE DEF data
      <3>2. Valid(readFromFd(buf, data)) /\ contents(readFromFd(buf, data)) = contents(buf) \o data
        BY <2>1, ReadFromFdAppends DEF BufferInv
      <3>3. Valid(buf)' /\ contents(buf)' = contents(buf) \o data
        BY <3>1, <3>2 DEF Valid, Buffers, inRange, contents, readableBytes
      <3>4. Queue!Put
        <4> DEFINE q == contents(buf)
                   r == contents(buf)'
        <4>1. q \in Seq(Int) /\ r = q \o data
          BY <1>0, <3>3
        <4> HIDE DEF q, r
        <4>2. Len(r) >= Len(q) /\ SubSeq(r, 1, Len(q)) = q
          BY <2>1, <4>1
        <4> QED BY <4>2 DEF q, r, Queue!Put
      <3> QED BY <2>1, <3>3, <3>4 DEF BufferInv, Queue!Next
    <2> QED BY <2>2, <2>3
  <1>4. CASE OnMessageWaits \/ OnMessageError
    <2>1. buf' = buf /\ wire' = wire
      BY <1>4 DEF OnMessageWaits, OnMessageError, error, peerVars
    <2> QED BY <1>1, <2>1 DEF BufferInv
  <1>5. CASE OnMessageHandles
    <2> DEFINE n == s_headerLen + len
    <2>1. n \in 0..readableBytes(buf) /\ buf' = retrieve(buf, n) /\ wire' = wire
      BY <1>5, FrameIsThere DEF BufferInv, OnMessageHandles, peerVars
    <2> HIDE DEF n
    <2>2. /\ Valid(retrieve(buf, n))
          /\ contents(retrieve(buf, n)) = SubSeq(contents(buf), n + 1, Len(contents(buf)))
      BY <2>1, RetrieveTakes DEF BufferInv
    <2>3. Valid(buf)' /\ contents(buf)' = SubSeq(contents(buf), n + 1, Len(contents(buf)))
      BY <2>1, <2>2 DEF Valid, Buffers, inRange, contents, readableBytes
    <2>4. n \in 0..Len(contents(buf))
      BY <2>1, ValidFields DEF BufferInv
    <2>5. Queue!Take
      BY <2>3, <2>4 DEF Queue!Take
    <2> QED BY <2>1, <2>3, <2>5 DEF BufferInv, Queue!Next
  <1>6. CASE UNCHANGED vars
    <2>1. buf' = buf /\ wire' = wire
      BY <1>6 DEF vars, peerVars
    <2> QED BY <1>1, <2>1 DEF BufferInv
  <1> QED BY <1>2, <1>3, <1>4, <1>5, <1>6 DEF Next

\* The input Buffer implements ByteQueue, whatever frames come and however they
\* are cut, grown, moved and consumed (BufferIsQueue).
THEOREM BufferImplementsQueue == Spec => BufferIsQueue
  <1>1. Init => BufferInv /\ Queue!Init
    <2> SUFFICES ASSUME Init PROVE BufferInv /\ Queue!Init
      OBVIOUS
    <2>1. buf = newBuffer(initialSize) /\ wire = <<>> /\ initialSize \in Nat
      BY CodecAssumption DEF Init
    <2>2. wire \in Seq(Int)
      BY <2>1
    <2> QED BY <2>1, <2>2, NewBuffer DEF BufferInv, Queue!Init
  <1>2. BufferInv /\ [Next]_vars => BufferInv' /\ [Queue!Next]_(contents(buf))
    BY StepQueue
  <1> QED BY <1>1, <1>2, PTL DEF Spec, BufferIsQueue, Queue!Spec

-----------------------------------------------------------------------------
(* The format: what fillEmptyBuffer writes and parse accepts.              *)

\* What a concatenation holds, at its two parts.
LEMMA Concat ==
    ASSUME NEW S, NEW x \in Seq(S), NEW y \in Seq(S)
    PROVE  /\ x \o y \in Seq(S) /\ Len(x \o y) = Len(x) + Len(y)
           /\ \A i \in 1..Len(x) : (x \o y)[i] = x[i]
           /\ \A i \in 1..Len(y) : (x \o y)[Len(x) + i] = y[i]
  OBVIOUS

\* What the checksum is taken of.
headOf(type, payload) == <<2, type, 0>> \o payload

\* The parts of a body: its head, which the checksum is taken of, and where
\* the payload is.
LEMMA BodyParts ==
    ASSUME NEW S, NEW type, NEW payload \in Seq(S), 2 \in S, 0 \in S, type \in S,
           adler32(headOf(type, payload)) \in S
    PROVE  /\ body(type, payload) \in Seq(S) /\ Len(body(type, payload)) = Len(payload) + 4
           /\ body(type, payload)[1] = 2 /\ body(type, payload)[2] = type
           /\ body(type, payload)[Len(payload) + 4] = adler32(headOf(type, payload))
           /\ SubSeq(body(type, payload), 1, Len(payload) + 3) = headOf(type, payload)
           /\ SubSeq(body(type, payload), 4, Len(payload) + 3) = payload
  <1> DEFINE b == body(type, payload)
             head == headOf(type, payload)
             a == adler32(head)
             n == Len(payload)
             front3 == <<2, type, 0>>
             sum == <<a>>
  <1>1. n \in Nat
    OBVIOUS
  <1>a. front3 \in Seq(S)
    OBVIOUS
  <1>2. Len(front3) = 3 /\ front3[1] = 2 /\ front3[2] = type
    OBVIOUS
  <1>3. b = head \o sum
    BY DEF body, headOf
  <1>b. sum \in Seq(S)
    OBVIOUS
  <1>4. Len(sum) = 1 /\ sum[1] = a
    OBVIOUS
  <1>5. head = front3 \o payload
    BY DEF headOf
  <1> HIDE DEF front3, head, sum, a, b
  <1>6. /\ head \in Seq(S) /\ Len(head) = 3 + n
        /\ \A i \in 1..3 : head[i] = front3[i]
        /\ \A i \in 1..n : head[3 + i] = payload[i]
    <2>1. /\ front3 \o payload \in Seq(S) /\ Len(front3 \o payload) = Len(front3) + Len(payload)
          /\ \A i \in 1..Len(front3) : (front3 \o payload)[i] = front3[i]
          /\ \A i \in 1..Len(payload) : (front3 \o payload)[Len(front3) + i] = payload[i]
      BY <1>a, Concat
    <2> QED BY <1>2, <1>5, <2>1, Zenon
  <1>7. head[1] = 2 /\ head[2] = type
    BY <1>2, <1>6
  <1>8. /\ b \in Seq(S) /\ Len(b) = Len(head) + 1
        /\ \A i \in 1..Len(head) : b[i] = head[i]
        /\ \A i \in 1..1 : b[Len(head) + i] = sum[i]
    <2>1. /\ head \o sum \in Seq(S) /\ Len(head \o sum) = Len(head) + Len(sum)
          /\ \A i \in 1..Len(head) : (head \o sum)[i] = head[i]
          /\ \A i \in 1..Len(sum) : (head \o sum)[Len(head) + i] = sum[i]
      <3>1. head \in Seq(S)
        BY <1>6
      <3> QED BY <1>b, <3>1, Concat
    <2> QED BY <1>3, <1>4, <2>1, Zenon
  <1> HIDE DEF n
  <1>9. (\A i \in 1..n + 3 : b[i] = head[i]) /\ b[n + 4] = a
    BY <1>1, <1>4, <1>6, <1>8
  <1>10. \A i \in 1..n + 3 : head[i] \in S
    BY <1>1, <1>6
  <1>11. SubSeq(b, 1, n + 3) = head
    <2>1. \A i \in 1..n + 3 : b[i] \in S
      BY <1>9, <1>10
    <2>2. /\ SubSeq(b, 1, n + 3) \in Seq(S) /\ Len(SubSeq(b, 1, n + 3)) = n + 3
          /\ \A i \in 1..n + 3 : SubSeq(b, 1, n + 3)[i] = b[i]
      BY <1>1, <2>1, SubSeqProperties
    <2> QED BY <1>1, <1>6, <1>9, <2>2, SeqEqual
  <1>12. SubSeq(b, 4, n + 3) = payload
    <2>1. ASSUME NEW i \in 4..n + 3 PROVE b[i] \in S
      <3>1. i \in 1..n + 3
        BY <1>1
      <3> QED BY <1>9, <1>10, <3>1
    <2>2. /\ SubSeq(b, 4, n + 3) \in Seq(S) /\ Len(SubSeq(b, 4, n + 3)) = n
          /\ \A i \in 1..n : SubSeq(b, 4, n + 3)[i] = b[i + 3]
      BY <1>1, <2>1, SubSeqProperties
    <2>3. ASSUME NEW i \in 1..n PROVE b[i + 3] = payload[i]
      <3>1. i + 3 \in 1..n + 3 /\ i + 3 = 3 + i
        BY <1>1
      <3>2. b[i + 3] = head[3 + i]
        BY <1>9, <3>1
      <3> QED BY <1>6, <3>2
    <2>4. Len(SubSeq(b, 4, n + 3)) = Len(payload)
      BY <2>2 DEF n
    <2>5. \A i \in 1..Len(SubSeq(b, 4, n + 3)) : SubSeq(b, 4, n + 3)[i] = payload[i]
      BY <2>2, <2>3
    <2> QED BY <2>2, <2>4, <2>5, SeqEqual
  <1>13. Len(b) = n + 4 /\ b[1] = 2 /\ b[2] = type
    BY <1>1, <1>6, <1>7, <1>8, <1>9
  <1> QED BY <1>1, <1>7, <1>8, <1>9, <1>11, <1>12, <1>13 DEF n, a, b, head

\* A body is made of what its parts are made of.
LEMMA BodyType ==
    ASSUME NEW S, NEW type \in S, NEW payload \in Seq(S), 2 \in S, 0 \in S,
           adler32(headOf(type, payload)) \in S
    PROVE  body(type, payload) \in Seq(S)
  BY BodyParts

\* A packet of the format documented in protobufCodec.h tells its own length, and
\* parse accepts it and takes it for its type and payload, whatever the payload.
THEOREM PacketParses ==
    ASSUME NEW type \in generated_pool, NEW payload \in Seq(Int),
           \A i \in 1..Len(payload) : payload[i] # unparsable
    PROVE  /\ packet(type, payload)[1] = Len(packet(type, payload)) - s_headerLen
           /\ Len(packet(type, payload)) = Len(payload) + 5
           /\ parse(Tail(packet(type, payload))) = "NoError"
           /\ message(Tail(packet(type, payload))) = [type |-> type, payload |-> payload]
  <1> DEFINE head == headOf(type, payload)
             S == Int \cup {adler32(head)}
             b == body(type, payload)
             n == Len(payload)
             p == packet(type, payload)
  <1>1. n \in Nat /\ type \in S /\ 2 \in S /\ 0 \in S /\ payload \in Seq(S) /\ adler32(head) \in S
    <2>1. payload \in Seq(S)
      <3>1. \A i \in 1..Len(payload) : payload[i] \in S
        OBVIOUS
      <3> HIDE DEF S
      <3> QED BY <3>1, LenProperties
    <2> QED BY <2>1 DEF generated_pool, QueryResults, AnswerResults
  <1>2. /\ b \in Seq(S) /\ Len(b) = n + 4 /\ b[1] = 2 /\ b[2] = type
        /\ b[n + 4] = adler32(head)
        /\ SubSeq(b, 1, n + 3) = head /\ SubSeq(b, 4, n + 3) = payload
    <2> HIDE DEF S
    <2> QED BY <1>1, BodyParts
  <1>3. p[1] = n + 4 /\ Len(p) = n + 5 /\ Tail(p) = b
    <2>1. n + 4 \in S
      BY <1>1
    <2>2. p = <<n + 4>> \o b
      BY <1>2 DEF packet
    <2> HIDE DEF S, b, n, p
    <2>3. p \in Seq(S) /\ p[1] = n + 4 /\ Len(p) = 1 + (n + 4)
      BY <1>1, <1>2, <2>1, <2>2
    <2>4. Tail(p) \in Seq(S) /\ Len(Tail(p)) = n + 4
      BY <1>1, <2>3
    <2>5. \A i \in 1..n + 4 : p[i + 1] = b[i]
      BY <1>1, <1>2, <2>1, <2>2
    <2>6. \A i \in 1..n + 4 : Tail(p)[i] = p[i + 1]
      BY <1>1, <2>3
    <2>7. Tail(p) = b
      BY <1>2, <2>4, <2>5, <2>6, SeqEqual
    <2> QED BY <1>1, <2>3, <2>7
  <1>4. parse(b) = "NoError"
    <2>1. SubSeq(b, 1, Len(b) - s_headerLen) = head /\ b[Len(b)] = adler32(head)
      <3> HIDE DEF b, head, n
      <3>1. Len(b) - s_headerLen = n + 3
        BY <1>1, <1>2 DEF s_headerLen
      <3> QED BY <1>2, <3>1
    <2>2. ~(b[1] < 2 \/ b[1] > Len(b) - 2 * s_headerLen)
      <3> HIDE DEF b, head, n
      <3> QED BY <1>1, <1>2 DEF s_headerLen
    <2>3. ~(b[1] # 2 \/ b[2] \notin generated_pool)
      BY <1>2
    <2>4. unparsable \notin {b[i] : i \in 2 + b[1]..Len(b) - 1}
      <3>1. ASSUME NEW i \in 4..n + 3 PROVE b[i] # unparsable
        <4>1. i - 3 \in 1..n
          BY <1>1
        <4>2. SubSeq(b, 4, n + 3)[i - 3] = b[i]
          <5> HIDE DEF b, head, n, S
          <5> QED BY <1>1, <1>2, SubSeqProperties
        <4>3. b[i] = payload[i - 3]
          BY <1>2, <4>2
        <4> QED BY <4>1, <4>3
      <3>2. 2 + b[1] = 4 /\ Len(b) - 1 = n + 3
        <4> HIDE DEF b, head, n
        <4> QED BY <1>1, <1>2
      <3> HIDE DEF b, head, n
      <3> QED BY <3>1, <3>2
    <2> HIDE DEF b, head, n
    <2> QED BY <2>1, <2>2, <2>3, <2>4 DEF parse
  <1>5. message(b) = [type |-> type, payload |-> payload]
    <2> HIDE DEF b, head, n
    <2>1. Len(b) - 1 = n + 3
      BY <1>1, <1>2
    <2> QED BY <1>2, <2>1 DEF message
  <1> HIDE DEF b, n, p, head
  <1>6. p[1] = Len(p) - s_headerLen /\ Len(p) = n + 5
    BY <1>1, <1>3 DEF s_headerLen
  <1> QED BY <1>3, <1>4, <1>5, <1>6 DEF p, n

\* Three units put together.
LEMMA ThreeUnits ==
    ASSUME NEW u \in Int, NEW v \in Int, NEW w \in Int
    PROVE  <<u>> \o <<v, w>> = <<u, v, w>>
  <1> DEFINE x == <<u>>
             y == <<v, w>>
             z == <<u, v, w>>
  <1>1. x \in Seq(Int)
    OBVIOUS
  <1>2. y \in Seq(Int)
    OBVIOUS
  <1>3. z \in Seq(Int)
    OBVIOUS
  <1>4. Len(x) = 1 /\ Len(y) = 2 /\ Len(z) = 3
    OBVIOUS
  <1>5. x[1] = z[1] /\ y[1] = z[2] /\ y[2] = z[3]
    OBVIOUS
  <1> HIDE DEF x, y, z
  <1>6. /\ x \o y \in Seq(Int) /\ Len(x \o y) = Len(x) + Len(y)
        /\ \A i \in 1..Len(x) : (x \o y)[i] = x[i]
        /\ \A i \in 1..Len(y) : (x \o y)[Len(x) + i] = y[i]
    BY <1>1, <1>2, Concat
  <1>c. x \o y \in Seq(Int) /\ Len(x \o y) = 3
    BY <1>4, <1>6
  <1>7. (x \o y)[1] = x[1] /\ (x \o y)[2] = y[1] /\ (x \o y)[3] = y[2]
    BY <1>4, <1>6
  <1>8. \A i \in 1..3 : (x \o y)[i] = z[i]
    <2>1. \A i \in 1..3 : i = 1 \/ i = 2 \/ i = 3
      OBVIOUS
    <2> QED BY <1>5, <1>7, <2>1
  <1>9. x \o y = z
    BY <1>3, <1>4, <1>6, <1>8, <1>c, SeqEqual
  <1> QED BY <1>9 DEF x, y, z

\* And four.
LEMMA FourUnits ==
    ASSUME NEW u \in Int, NEW v \in Int, NEW w \in Int, NEW t \in Int
    PROVE  <<u, v, w>> \o <<t>> = <<u, v, w, t>>
  <1> DEFINE x == <<u, v, w>>
             y == <<t>>
             z == <<u, v, w, t>>
  <1>1. x \in Seq(Int)
    OBVIOUS
  <1>2. y \in Seq(Int)
    OBVIOUS
  <1>3. z \in Seq(Int)
    OBVIOUS
  <1>4. Len(x) = 3 /\ Len(y) = 1 /\ Len(z) = 4
    OBVIOUS
  <1>5. x[1] = z[1] /\ x[2] = z[2] /\ x[3] = z[3] /\ y[1] = z[4]
    OBVIOUS
  <1> HIDE DEF x, y, z
  <1>6. /\ x \o y \in Seq(Int) /\ Len(x \o y) = Len(x) + Len(y)
        /\ \A i \in 1..Len(x) : (x \o y)[i] = x[i]
        /\ \A i \in 1..Len(y) : (x \o y)[Len(x) + i] = y[i]
    BY <1>1, <1>2, Concat
  <1>c. x \o y \in Seq(Int) /\ Len(x \o y) = 4
    BY <1>4, <1>6
  <1>7. (x \o y)[1] = x[1] /\ (x \o y)[2] = x[2] /\ (x \o y)[3] = x[3] /\ (x \o y)[4] = y[1]
    BY <1>4, <1>6
  <1>8. \A i \in 1..4 : (x \o y)[i] = z[i]
    <2>1. \A i \in 1..4 : i = 1 \/ i = 2 \/ i = 3 \/ i = 4
      OBVIOUS
    <2> QED BY <1>5, <1>7, <2>1
  <1>9. x \o y = z
    BY <1>3, <1>4, <1>6, <1>8, <1>c, SeqEqual
  <1> QED BY <1>9 DEF x, y, z

\* The checksum of the head of Server's answer is a number.
LEMMA AnswerSum == adler32(headOf(AnswerResults, <<1>>)) \in Int
  <1> DEFINE s == <<2, AnswerResults, 0, 1>>
             step(f) == [i \in 0..4 |-> IF i = 0 THEN 100 ELSE f[i - 1] + (2 * i + 1) * s[i]]
             g == [i \in 0..4 |-> IF i = 0 THEN 100 ELSE IF i = 1 THEN 106
                                  ELSE IF i = 2 THEN 166 ELSE IF i = 3 THEN 166 ELSE 175]
             sum == CHOOSE f : f = step(f)
  <1>1. headOf(AnswerResults, <<1>>) = s /\ Len(s) = 4
    BY FourUnits DEF headOf, AnswerResults
  <1>2. s[1] = 2 /\ s[2] = 12 /\ s[3] = 0 /\ s[4] = 1
    BY DEF AnswerResults
  <1>3. adler32(s) = sum[4]
    BY <1>1 DEF adler32
  <1> HIDE DEF s
  <1>4. g = step(g)
    <2>1. \A i \in 0..4 : i = 0 \/ i = 1 \/ i = 2 \/ i = 3 \/ i = 4
      OBVIOUS
    <2>2. g[0] = 100 /\ g[1] = 106 /\ g[2] = 166 /\ g[3] = 166 /\ g[4] = 175
      OBVIOUS
    <2>3. \A i \in 0..4 : g[i] = step(g)[i]
      BY <1>2, <2>1, <2>2
    <2> QED BY <2>3
  <1>5. sum = step(sum)
    <2> HIDE DEF g
    <2>1. \E f : f = step(f)
      BY <1>4
    <2> HIDE DEF step
    <2> QED BY <2>1
  <1> HIDE DEF sum
  <1>6. sum[0] = 100
    BY <1>5
  <1>7. sum[1] \in Int
    BY <1>2, <1>5, <1>6
  <1>8. sum[2] \in Int
    BY <1>2, <1>5, <1>7
  <1>9. sum[3] \in Int
    BY <1>2, <1>5, <1>8
  <1>10. sum[4] \in Int
    BY <1>2, <1>5, <1>9
  <1> QED BY <1>1, <1>3, <1>10

\* What fillEmptyBuffer appends is a body, and with its length a packet.
LEMMA Filled ==
    ASSUME NEW type \in Int, NEW payload \in Seq(Int), adler32(headOf(type, payload)) \in Int
    PROVE  fillEmptyBuffer(type, payload) =
               IF "noLength" \in Faults THEN body(type, payload) ELSE packet(type, payload)
  <1> DEFINE b0 == newBuffer(initialSize)
             b1 == append(b0, <<2>>)
             b2 == append(b1, <<type, 0>>)
             c == append(b2, payload)
             sum == <<adler32(contents(c))>>
             d == append(c, sum)
  <1>1. fillEmptyBuffer(type, payload) =
            IF "noLength" \in Faults THEN contents(d) ELSE <<readableBytes(d)>> \o contents(d)
    BY DEF fillEmptyBuffer, filled, serialized, named, append, store
  <1>2. Valid(b0) /\ contents(b0) = <<>>
    BY NewBuffer, CodecAssumption
  <1>3. <<2>> \in Seq(Int)
    OBVIOUS
  <1>4. <<type, 0>> \in Seq(Int)
    OBVIOUS
  <1> HIDE DEF b0
  <1>5. Valid(b1) /\ contents(b1) = contents(b0) \o <<2>>
    BY <1>2, <1>3, AppendAppends
  <1> HIDE DEF b1
  <1>6. Valid(b2) /\ contents(b2) = contents(b1) \o <<type, 0>>
    BY <1>4, <1>5, AppendAppends
  <1> HIDE DEF b2
  <1>7. Valid(c) /\ contents(c) = contents(b2) \o payload
    BY <1>6, AppendAppends
  <1>8. contents(c) = headOf(type, payload)
    <2>1. contents(b1) = <<2>>
      BY <1>2, <1>5
    <2>2. contents(b2) = <<2, type, 0>>
      BY <1>6, <2>1, ThreeUnits
    <2> QED BY <1>7, <2>2 DEF headOf
  <1> HIDE DEF c
  <1>9. sum \in Seq(Int)
    BY <1>8
  <1>10. sum = <<adler32(headOf(type, payload))>>
    BY <1>8
  <1> HIDE DEF sum
  <1>11. Valid(d) /\ contents(d) = contents(c) \o sum
    BY <1>7, <1>9, AppendAppends
  <1> HIDE DEF d
  <1>12. contents(d) = body(type, payload)
    BY <1>8, <1>10, <1>11 DEF body, headOf
  <1>13. readableBytes(d) = Len(body(type, payload))
    BY <1>11, <1>12, ValidFields
  <1> QED BY <1>1, <1>12, <1>13 DEF packet

\* Server's answer, as it is put on the wire: not a packet, if the length is out.
LEMMA AnswerIsWritten ==
    /\ fillEmptyBuffer(AnswerResults, <<1>>) =
           IF "noLength" \in Faults THEN body(AnswerResults, <<1>>) ELSE packet(AnswerResults, <<1>>)
    /\ body(AnswerResults, <<1>>) # packet(AnswerResults, <<1>>)
  <1> DEFINE b == body(AnswerResults, <<1>>)
  <1>1. <<1>> \in Seq(Int) /\ AnswerResults \in Int /\ 2 \in Int /\ 0 \in Int
    BY DEF AnswerResults
  <1>2. b \in Seq(Int)
    BY <1>1, AnswerSum, BodyType
  <1>3. b # <<Len(b)>> \o b
    <2> HIDE DEF b
    <2>1. Len(<<Len(b)>> \o b) = 1 + Len(b) /\ Len(b) \in Nat
      BY <1>2
    <2> QED BY <2>1
  <1>4. body(AnswerResults, <<1>>) # packet(AnswerResults, <<1>>)
    BY <1>3 DEF packet
  <1> QED BY <1>1, <1>4, AnswerSum, Filled

\* What Server answers: as written a packet whose length is missing, so that it is
\* none (line 131 drops the length); with the length in its place, the packet
\* that by PacketParses a peer with the same codec accepts.
AnswersAsWritten ==
    \A i \in 1..Len(replies) :
        IF "noLength" \in Faults
        THEN /\ replies[i] = body(AnswerResults, <<1>>)
             /\ replies[i] # packet(AnswerResults, <<1>>)
        ELSE replies[i] = packet(AnswerResults, <<1>>)

THEOREM RepliesLackLength == Spec => []AnswersAsWritten
  <1> DEFINE r == fillEmptyBuffer(AnswerResults, <<1>>)
             Inv == replies \in Seq({r})
  <1>1. Init => Inv
    BY DEF Init
  <1>2. Inv /\ [Next]_vars => Inv'
    <2> SUFFICES ASSUME Inv, [Next]_vars PROVE Inv'
      OBVIOUS
    <2>1. CASE replies' = replies
      BY <2>1
    <2>2. CASE OnMessageHandles
      <3>1. CASE replies' = Append(replies, r)
        <4> HIDE DEF r
        <4> QED BY <3>1
      <3> QED BY <2>1, <2>2, <3>1 DEF OnMessageHandles, onProtobufMessage, onQueryResults,
                                      onUnknownMessage, send
    <2>3. [Next]_vars => replies' = replies \/ OnMessageHandles
      BY DEF Next, vars, callbackVars, Send, Receive, OnMessageWaits, OnMessageError, error
    <2> QED BY <2>1, <2>2, <2>3
  <1>3. Inv => AnswersAsWritten
    <2> HIDE DEF r
    <2>1. Inv => \A i \in 1..Len(replies) : replies[i] = r
      OBVIOUS
    <2> QED BY <2>1, AnswerIsWritten DEF AnswersAsWritten, r
  <1> QED BY <1>1, <1>2, <1>3, PTL DEF Spec

-----------------------------------------------------------------------------
(* The frames in a stream of bytes.                                        *)

\* Where in the bytes s the frames fs behind the first k begin and end.
Cuts(c, k, fs, s) ==
    /\ c[k] = 0 /\ c[Len(fs)] = Len(s)
    /\ \A i, j \in k..Len(fs) : i <= j => c[i] <= c[j]
    /\ \A i \in k + 1..Len(fs) : c[i] = c[i - 1] + Len(fs[i])
    /\ \A i \in k + 1..Len(fs) : \A j \in 1..Len(fs[i]) : s[c[i - 1] + j] = fs[i][j]

\* The bytes s are those of the frames fs behind the first k, one after another.
Holds(k, fs, s) == \E c \in [k..Len(fs) -> Nat] : Cuts(c, k, fs, s)

\* A place in a frame is a place in what holds the frame.
LEMMA Within ==
    ASSUME NEW a \in Nat, NEW l \in Nat, NEW b \in Nat, a + l <= b, NEW j \in 1..l
    PROVE  a + j \in 1..b
  OBVIOUS

\* And in what is left when the first m places are gone.
LEMMA WithinRest ==
    ASSUME NEW a \in Nat, NEW b \in Nat, NEW m \in 0..a, NEW j \in Nat, a + j \in 1..b, 1 <= j
    PROVE  (a - m) + j \in 1..b - m /\ m + ((a - m) + j) = a + j
  OBVIOUS

\* No frames, no bytes.
LEMMA NothingHeld ==
    ASSUME NEW fs \in Seq(Seq(Int)), NEW s \in Seq(Int), Holds(Len(fs), fs, s)
    PROVE  Len(s) = 0
  BY DEF Holds, Cuts

\* The bytes begin with the first of the frames.
LEMMA FirstHeld ==
    ASSUME NEW fs \in Seq(Seq(Int)), NEW s \in Seq(Int), NEW k \in Nat, k < Len(fs), Holds(k, fs, s)
    PROVE  Len(fs[k + 1]) <= Len(s) /\ \A j \in 1..Len(fs[k + 1]) : s[j] = fs[k + 1][j]
  <1>1. Len(fs) \in Nat /\ Len(s) \in Nat
    OBVIOUS
  <1>2. k + 1 \in 1..Len(fs)
    BY <1>1
  <1>3. Len(fs[k + 1]) \in Nat
    BY <1>2
  <1>4. PICK c \in [k..Len(fs) -> Nat] : Cuts(c, k, fs, s)
    BY DEF Holds
  <1>5. k + 1 \in k + 1..Len(fs) /\ k + 1 \in k..Len(fs) /\ Len(fs) \in k..Len(fs) /\ k + 1 <= Len(fs)
        /\ (k + 1) - 1 = k
    BY <1>1
  <1>6. c[k] = 0 /\ c[Len(fs)] = Len(s) /\ c[k + 1] <= c[Len(fs)]
    BY <1>4, <1>5 DEF Cuts
  <1>7. c[k + 1] = c[k] + Len(fs[k + 1])
    BY <1>4, <1>5 DEF Cuts
  <1>8. \A j \in 1..Len(fs[k + 1]) : s[c[k] + j] = fs[k + 1][j]
    <2>1. \A j \in 1..Len(fs[k + 1]) : s[c[(k + 1) - 1] + j] = fs[k + 1][j]
      BY <1>4, <1>5 DEF Cuts
    <2> QED BY <1>5, <2>1
  <1>9. \A j \in 1..Len(fs[k + 1]) : c[k] + j = j
    BY <1>3, <1>6
  <1> QED BY <1>3, <1>6, <1>7, <1>8, <1>9

\* A frame more, and its bytes at the end.
LEMMA HoldsMore ==
    ASSUME NEW fs \in Seq(Seq(Int)), NEW s \in Seq(Int), NEW f \in Seq(Int),
           NEW k \in 0..Len(fs), Holds(k, fs, s)
    PROVE  Holds(k, Append(fs, f), s \o f)
  <1> DEFINE n == Len(fs)
             fs1 == Append(fs, f)
             s1 == s \o f
  <1>1. n \in Nat /\ k \in Nat /\ k <= n /\ Len(s) \in Nat /\ Len(f) \in Nat
    OBVIOUS
  <1>2. Len(fs1) = n + 1 /\ fs1[n + 1] = f /\ \A i \in 1..n : fs1[i] = fs[i]
    OBVIOUS
  <1>3. /\ Len(s1) = Len(s) + Len(f)
        /\ \A i \in 1..Len(s) : s1[i] = s[i]
        /\ \A i \in 1..Len(f) : s1[Len(s) + i] = f[i]
    BY Concat
  <1>4. PICK c \in [k..n -> Nat] : Cuts(c, k, fs, s)
    BY DEF Holds
  <1>5. \A i \in 1..n : Len(fs[i]) \in Nat
    OBVIOUS
  <1> HIDE DEF n, fs1, s1
  <1>6. /\ c[k] = 0 /\ c[n] = Len(s)
        /\ \A i, j \in k..n : i <= j => c[i] <= c[j]
        /\ \A i \in k + 1..n : c[i] = c[i - 1] + Len(fs[i])
        /\ \A i \in k + 1..n : \A j \in 1..Len(fs[i]) : s[c[i - 1] + j] = fs[i][j]
    BY <1>4 DEF Cuts, n
  <1> DEFINE d == [i \in k..n + 1 |-> IF i = n + 1 THEN Len(s1) ELSE c[i]]
  <1>7. /\ d \in [k..n + 1 -> Nat] /\ d[n + 1] = Len(s) + Len(f)
        /\ \A i \in k..n : d[i] = c[i] /\ c[i] \in Nat /\ c[i] <= Len(s)
    <2>1. n + 1 \in k..n + 1 /\ Len(s1) \in Nat /\ n \in k..n
      BY <1>1, <1>3
    <2>2. \A i \in k..n : i \in k..n + 1 /\ i # n + 1 /\ i <= n
      BY <1>1
    <2>3. \A i \in k..n + 1 : i = n + 1 \/ i \in k..n
      BY <1>1
    <2> QED BY <1>3, <1>6, <2>1, <2>2, <2>3
  <1> HIDE DEF d
  <1>8. d[k] = 0 /\ d[n + 1] = Len(s1)
    <2>1. k \in k..n
      BY <1>1
    <2> QED BY <1>3, <1>6, <1>7, <2>1
  <1>9. ASSUME NEW i \in k..n + 1, NEW j \in k..n + 1, i <= j PROVE d[i] <= d[j]
    <2>1. CASE j \in k..n
      <3>1. i \in k..n
        BY <1>1, <1>9, <2>1
      <3> QED BY <1>6, <1>7, <1>9, <2>1, <3>1
    <2>2. CASE j = n + 1 /\ i \in k..n
      <3>1. c[i] <= Len(s) /\ c[i] \in Nat /\ d[i] = c[i]
        BY <1>7, <2>2
      <3> QED BY <1>1, <1>7, <2>2, <3>1
    <2>3. CASE j = n + 1 /\ i = n + 1
      BY <1>1, <1>7, <2>3
    <2> QED BY <1>1, <2>1, <2>2, <2>3
  <1>10. ASSUME NEW i \in k + 1..n + 1
         PROVE  d[i] = d[i - 1] + Len(fs1[i]) /\ \A j \in 1..Len(fs1[i]) : s1[d[i - 1] + j] = fs1[i][j]
    <2>1. CASE i \in k + 1..n
      <3>1. i \in k..n /\ i - 1 \in k..n /\ i \in 1..n
        BY <1>1, <2>1
      <3>2. d[i] = c[i] /\ d[i - 1] = c[i - 1] /\ fs1[i] = fs[i]
        BY <1>2, <1>7, <3>1
      <3>3. c[i] = c[i - 1] + Len(fs[i]) /\ c[i - 1] \in Nat /\ c[i] \in Nat /\ c[i] <= Len(s)
        BY <1>6, <1>7, <2>1, <3>1
      <3>4. ASSUME NEW j \in 1..Len(fs[i]) PROVE s1[c[i - 1] + j] = fs[i][j]
        <4>1. Len(fs[i]) \in Nat
          BY <1>5, <3>1
        <4>2. c[i - 1] + j \in 1..Len(s)
          <5>1. c[i - 1] + Len(fs[i]) <= Len(s)
            BY <3>3
          <5> QED BY <1>1, <3>3, <4>1, <5>1, Within
        <4> QED BY <1>3, <1>6, <2>1, <4>2
      <3> QED BY <3>2, <3>3, <3>4
    <2>2. CASE i = n + 1
      <3>1. i - 1 = n /\ n \in k..n
        BY <1>1, <2>2
      <3>2. d[i - 1] = Len(s) /\ fs1[i] = f
        BY <1>2, <1>6, <1>7, <2>2, <3>1
      <3> QED BY <1>3, <1>7, <2>2, <3>2
    <2> QED BY <1>1, <2>1, <2>2
  <1>11. Cuts(d, k, fs1, s1)
    BY <1>2, <1>8, <1>9, <1>10 DEF Cuts
  <1>12. Holds(k, fs1, s1)
    BY <1>2, <1>7, <1>11 DEF Holds
  <1> QED BY <1>12 DEF fs1, s1

\* The first frame gone, with its bytes.
LEMMA HoldsLess ==
    ASSUME NEW fs \in Seq(Seq(Int)), NEW s \in Seq(Int), NEW k \in Nat, k < Len(fs), Holds(k, fs, s)
    PROVE  Holds(k + 1, fs, SubSeq(s, Len(fs[k + 1]) + 1, Len(s)))
  <1> DEFINE n == Len(fs)
             m == Len(fs[k + 1])
             s1 == SubSeq(s, m + 1, Len(s))
  <1>1. n \in Nat /\ k < n /\ Len(s) \in Nat
    OBVIOUS
  <1>2. m \in Nat /\ m <= Len(s)
    <2>1. k + 1 \in 1..n
      BY <1>1
    <2> QED BY <2>1, FirstHeld
  <1>3. Len(s1) = Len(s) - m /\ \A i \in 1..Len(s) - m : s1[i] = s[m + i]
    <2> HIDE DEF m
    <2>1. \A i \in m + 1..Len(s) : s[i] \in Int
      BY <1>1, <1>2
    <2> QED BY <1>1, <1>2, <2>1, SubSeqProperties
  <1>4. PICK c \in [k..n -> Nat] : Cuts(c, k, fs, s)
    BY DEF Holds
  <1>5. \A i \in 1..n : Len(fs[i]) \in Nat
    OBVIOUS
  <1>6. /\ c[k] = 0 /\ c[n] = Len(s)
        /\ \A i, j \in k..n : i <= j => c[i] <= c[j]
        /\ \A i \in k + 1..n : c[i] = c[i - 1] + Len(fs[i])
        /\ \A i \in k + 1..n : \A j \in 1..Len(fs[i]) : s[c[i - 1] + j] = fs[i][j]
    BY <1>4 DEF Cuts
  <1> HIDE DEF n, s1
  <1>7. c[k + 1] = m
    <2>1. k + 1 \in k + 1..n /\ (k + 1) - 1 = k
      BY <1>1
    <2>2. c[k + 1] = c[k] + m
      BY <1>6, <2>1
    <2> HIDE DEF m
    <2> QED BY <1>2, <1>6, <2>2
  <1> HIDE DEF m
  <1> DEFINE d == [i \in k + 1..n |-> c[i] - m]
  <1>8. \A i \in k + 1..n : c[i] \in Nat /\ m <= c[i] /\ c[i] <= Len(s) /\ d[i] = c[i] - m
    <2>1. \A i \in k + 1..n : i \in k..n /\ k + 1 \in k..n /\ n \in k..n /\ k + 1 <= i /\ i <= n
      BY <1>1
    <2> QED BY <1>6, <1>7, <2>1
  <1>9. d \in [k + 1..n -> Nat]
    BY <1>2, <1>8
  <1> HIDE DEF d
  <1>10. d[k + 1] = 0 /\ d[n] = Len(s1)
    <2>1. k + 1 \in k + 1..n /\ n \in k + 1..n
      BY <1>1
    <2> QED BY <1>2, <1>3, <1>6, <1>7, <1>8, <2>1
  <1>11. ASSUME NEW i \in k + 1..n, NEW j \in k + 1..n, i <= j PROVE d[i] <= d[j]
    <2>1. i \in k..n /\ j \in k..n
      BY <1>1
    <2>2. c[i] <= c[j]
      BY <1>6, <1>11, <2>1
    <2> QED BY <1>2, <1>8, <2>2
  <1>12. ASSUME NEW i \in (k + 1) + 1..n
         PROVE  d[i] = d[i - 1] + Len(fs[i]) /\ \A j \in 1..Len(fs[i]) : s1[d[i - 1] + j] = fs[i][j]
    <2>1. i \in k + 1..n /\ i - 1 \in k + 1..n /\ i \in 1..n
      BY <1>1
    <2>2. c[i] = c[i - 1] + Len(fs[i]) /\ Len(fs[i]) \in Nat
      BY <1>5, <1>6, <2>1
    <2>3. /\ d[i] = c[i] - m /\ d[i - 1] = c[i - 1] - m
          /\ c[i] \in Nat /\ c[i - 1] \in Nat /\ m <= c[i - 1] /\ c[i] <= Len(s)
      BY <1>8, <2>1
    <2>4. d[i] = d[i - 1] + Len(fs[i])
      BY <1>2, <2>2, <2>3
    <2>5. ASSUME NEW j \in 1..Len(fs[i]) PROVE s1[d[i - 1] + j] = fs[i][j]
      <3>1. d[i - 1] + j \in 1..Len(s) - m /\ m + (d[i - 1] + j) = c[i - 1] + j
        <4>1. c[i - 1] + Len(fs[i]) <= Len(s) /\ m \in 0..c[i - 1]
          BY <1>2, <2>2, <2>3
        <4>2. (c[i - 1] - m) + j \in 1..Len(s) - m /\ m + ((c[i - 1] - m) + j) = c[i - 1] + j
          <5>1. c[i - 1] \in Nat /\ Len(fs[i]) \in Nat /\ Len(s) \in Nat
            BY <1>1, <2>2, <2>3
          <5>2. c[i - 1] + j \in 1..Len(s)
            BY <4>1, <5>1, Within
          <5>3. j \in Nat /\ 1 <= j /\ m \in 0..c[i - 1]
            BY <4>1, <5>1
          <5> DEFINE a == c[i - 1]
          <5>4. a \in Nat /\ a + j \in 1..Len(s) /\ m \in 0..a
            BY <5>1, <5>2, <5>3
          <5> HIDE DEF m, a
          <5>5. (a - m) + j \in 1..Len(s) - m /\ m + ((a - m) + j) = a + j
            BY <5>1, <5>3, <5>4, WithinRest
          <5> QED BY <5>5 DEF a
        <4> QED BY <2>3, <4>2
      <3>2. s1[d[i - 1] + j] = s[c[i - 1] + j]
        BY <1>3, <3>1
      <3> QED BY <1>6, <2>1, <3>2
    <2> QED BY <2>4, <2>5
  <1>13. Cuts(d, k + 1, fs, s1)
    BY <1>10, <1>11, <1>12 DEF Cuts, n
  <1>14. Holds(k + 1, fs, s1)
    BY <1>9, <1>13 DEF Holds, n
  <1> QED BY <1>14 DEF s1, m

-----------------------------------------------------------------------------
(* What onMessage makes of the stream.                                     *)

\* A good frame is not too long, and a refused one is refused by what is in it:
\* the two are told apart by its length and what parse says of the rest.
LEMMA ClearFrame ==
    ASSUME framesAreClear, NEW f \in Frames
    PROVE  /\ f \in Seq(Int) /\ Len(f) >= s_minMessageLen + s_headerLen
           /\ f[1] \in s_minMessageLen..s_maxMessageLen => f[1] = Len(f) - s_headerLen
           /\ good(f) <=> (f[1] \in s_minMessageLen..s_maxMessageLen /\ parse(Tail(f)) = "NoError")
  <1>1. /\ f \in Seq(Int) /\ Len(f) >= s_minMessageLen + s_headerLen
        /\ IF good(f) THEN Len(f) - s_headerLen <= s_maxMessageLen ELSE refused(f)
    BY CodecAssumption DEF framesAreClear
  <1>2. CASE good(f)
    <2> DEFINE payload == SubSeq(f, 5, Len(f) - 1)
    <2>1. PICK t \in generated_pool : f = packet(t, payload)
      BY <1>2 DEF good
    <2>2. \A i \in 1..Len(payload) : payload[i] # unparsable
      BY <1>2 DEF good
    <2>3. payload \in Seq(Int)
      BY <1>1 DEF s_minMessageLen, s_headerLen
    <2> HIDE DEF payload
    <2>4. f[1] = Len(f) - s_headerLen /\ parse(Tail(f)) = "NoError"
      BY <2>1, <2>2, <2>3, PacketParses
    <2>5. f[1] \in s_minMessageLen..s_maxMessageLen
      BY <1>1, <1>2, <2>4, CodecAssumption DEF s_minMessageLen, s_headerLen
    <2> QED BY <1>1, <1>2, <2>4, <2>5
  <1>3. CASE ~good(f)
    BY <1>1, <1>3 DEF refused
  <1> QED BY <1>2, <1>3

\* The bytes that were sent and not yet consumed.
stream == contents(buf) \o wire

\* As far as messages were handled the frames were good, and the messages are theirs.
Matched ==
    /\ Len(handled) <= Len(sent)
    /\ \A i \in 1..Len(handled) : good(sent[i]) /\ handled[i] = message(Tail(sent[i]))

\* The stream begins where a frame does, with the first whose message was not handled.
Streamed == aborted = "no" => Holds(Len(handled), sent, stream)

\* An error is that of the frame the stream begins with.
Refused == errors # <<>> => Len(handled) < Len(sent) /\ ~good(sent[Len(handled) + 1])

\* onMessage leaves no whole frame in the Buffer but a wrong one.
Settled ==
    aborted = "no" /\ ~parsing /\ errors = <<>> /\ Len(handled) < Len(sent) =>
        Len(contents(buf)) < Len(sent[Len(handled) + 1])

\* There is a first wrong frame, or none.
isPrefix(n) == (\A i \in 1..n : good(sent[i])) /\ (n < Len(sent) => ~good(sent[n + 1]))
HasPrefix == \E n \in 0..Len(sent) : isPrefix(n)

Handling == TypeOK /\ Matched /\ Streamed /\ Refused /\ Settled /\ HasPrefix

\* What parse tells is NoError or one of four codes.
LEMMA ParseTells ==
    ASSUME NEW s
    PROVE  parse(s) \in {"NoError", "CheckSumError", "InvalidNameLen", "UnknownMessageType", "ParseError"}
  BY DEF parse

\* A body parse accepts is a message of a type in the pool.
LEMMA AcceptedIsMessage ==
    ASSUME NEW s \in Seq(Int), Len(s) >= s_minMessageLen, parse(s) = "NoError"
    PROVE  message(s) \in [type : generated_pool, payload : Seq(Int)]
  <1>1. s[2] \in generated_pool
    BY DEF parse
  <1>2. SubSeq(s, 4, Len(s) - 1) \in Seq(Int)
    BY DEF s_minMessageLen, s_headerLen
  <1> QED BY <1>1, <1>2 DEF message

\* While the loop finds a whole message, the stream begins with a frame it is of.
LEMMA FrameIsSent ==
    ASSUME framesAreClear, Handling, aborted = "no", readableBytes(buf) >= 1
    PROVE  /\ Len(handled) < Len(sent) /\ sent[Len(handled) + 1] \in Frames
           /\ len = sent[Len(handled) + 1][1]
           /\ validLength /\ complete => frame = Tail(sent[Len(handled) + 1])
           /\ validLength => complete \/ readableBytes(buf) < Len(sent[Len(handled) + 1])
  <1> DEFINE k == Len(handled)
             f == sent[k + 1]
  <1>1. Valid(buf) /\ wire \in Seq(Int) /\ sent \in Seq(Frames)
    BY DEF Handling, TypeOK, Valid
  <1>2. sent \in Seq(Seq(Int))
    BY <1>1, CodecAssumption
  <1>3. contents(buf) \in Seq(Int)
    BY <1>1, ValidFields
  <1>4. Len(contents(buf)) = readableBytes(buf) /\ readableBytes(buf) \in Nat
    BY <1>1, ValidFields
  <1>5. stream \in Seq(Int) /\ Len(stream) = Len(contents(buf)) + Len(wire)
        /\ \A i \in 1..Len(contents(buf)) : stream[i] = contents(buf)[i]
    BY <1>1, <1>3, Concat DEF stream
  <1>6. k \in Nat /\ k <= Len(sent) /\ Len(sent) \in Nat /\ Len(wire) \in Nat
    BY <1>1 DEF Handling, TypeOK, Matched
  <1> HIDE DEF k
  <1>7. Holds(k, sent, stream)
    BY DEF Handling, Streamed, k
  <1>8. k < Len(sent)
    <2>1. Len(stream) # 0
      BY <1>4, <1>5, <1>6
    <2>2. stream \in Seq(Int)
      BY <1>5
    <2>3. k # Len(sent)
      BY <1>2, <1>7, <2>1, <2>2, NothingHeld
    <2> QED BY <1>6, <2>3
  <1>9. f \in Frames
    BY <1>1, <1>6, <1>8
  <1>10. Len(f) <= Len(stream) /\ \A j \in 1..Len(f) : stream[j] = f[j]
    <2>1. stream \in Seq(Int)
      BY <1>5
    <2> QED BY <1>2, <1>6, <1>7, <1>8, <2>1, FirstHeld
  <1> HIDE DEF f
  <1>11. f \in Seq(Int)
    BY <1>9, ClearFrame
  <1>12. Len(f) >= 5 /\ (f[1] \in s_minMessageLen..s_maxMessageLen => f[1] = Len(f) - 1)
    BY <1>9, ClearFrame DEF s_minMessageLen, s_headerLen
  <1>13. Len(f) \in Nat
    BY <1>11
  <1>14. len = f[1] /\ f[1] \in Int
    <2>1. 1 \in 1..Len(f) /\ 1 \in 1..Len(contents(buf))
      BY <1>4, <1>12, <1>13
    <2> QED BY <1>5, <1>10, <1>11, <2>1 DEF len, bytes
  <1>15. ASSUME validLength PROVE len = Len(f) - 1
    BY <1>12, <1>14, <1>15, CodecAssumption DEF validLength, s_minMessageLen, s_headerLen
  <1>16. ASSUME validLength, complete PROVE frame = Tail(f)
    <2>1. readableBytes(buf) >= Len(f)
      BY <1>13, <1>15, <1>16 DEF complete, s_headerLen
    <2>2. frame = SubSeq(contents(buf), 2, Len(f))
      BY <1>13, <1>15, <1>16 DEF frame, bytes, s_headerLen
    <2>3. \A i \in 2..Len(f) : contents(buf)[i] = f[i] /\ contents(buf)[i] \in Int
      <3> SUFFICES ASSUME NEW i \in 2..Len(f)
                   PROVE  contents(buf)[i] = f[i] /\ contents(buf)[i] \in Int
        OBVIOUS
      <3>1. i \in 1..Len(f) /\ i \in 1..Len(contents(buf))
        BY <1>4, <1>13, <2>1
      <3> QED BY <1>5, <1>10, <1>11, <3>1
    <2>4. /\ frame \in Seq(Int) /\ Len(frame) = Len(f) - 1
          /\ \A i \in 1..Len(f) - 1 : frame[i] = contents(buf)[i + 1]
      <3>1. \A i \in 2..Len(f) : contents(buf)[i] \in Int
        BY <2>3
      <3> QED BY <1>12, <1>13, <2>2, <3>1, SubSeqProperties
    <2>5. Tail(f) \in Seq(Int) /\ Len(Tail(f)) = Len(f) - 1 /\ \A i \in 1..Len(f) - 1 : Tail(f)[i] = f[i + 1]
      BY <1>11, <1>12
    <2>6. \A i \in 1..Len(f) - 1 : frame[i] = Tail(f)[i]
      <3>1. \A i \in 1..Len(f) - 1 : i + 1 \in 2..Len(f)
        BY <1>13
      <3> QED BY <2>3, <2>4, <2>5, <3>1
    <2>7. frame \in Seq(Int)
      BY <2>4
    <2>8. Tail(f) \in Seq(Int)
      BY <2>5
    <2>9. Len(frame) = Len(Tail(f))
      BY <2>4, <2>5
    <2>10. \A i \in 1..Len(frame) : frame[i] = Tail(f)[i]
      BY <2>4, <2>6
    <2> QED BY <2>7, <2>8, <2>9, <2>10, SeqEqual
  <1>17. ASSUME validLength PROVE complete \/ readableBytes(buf) < Len(f)
    BY <1>4, <1>13, <1>15, <1>17 DEF complete, s_headerLen
  <1> QED BY <1>8, <1>9, <1>14, <1>16, <1>17 DEF k, f

-----------------------------------------------------------------------------
(* The steps.                                                              *)

\* Server's answer is a sequence of units, with its length or without.
LEMMA AnswerIsUnits == fillEmptyBuffer(AnswerResults, <<1>>) \in Seq(Int)
  <1>1. <<1>> \in Seq(Int)
    OBVIOUS
  <1>2. AnswerResults \in Int
    BY DEF AnswerResults
  <1> DEFINE b == body(AnswerResults, <<1>>)
  <1>3. b \in Seq(Int)
    <2>1. 2 \in Int /\ 0 \in Int
      OBVIOUS
    <2> QED BY <1>1, <1>2, <2>1, AnswerSum, BodyType
  <1>4. <<Len(b)>> \o b \in Seq(Int)
    <2> HIDE DEF b
    <2> QED BY <1>3
  <1>5. fillEmptyBuffer(AnswerResults, <<1>>) = b \/ fillEmptyBuffer(AnswerResults, <<1>>) = <<Len(b)>> \o b
    BY <1>1, <1>2, AnswerSum, Filled DEF packet
  <1> QED BY <1>3, <1>4, <1>5

\* What the loop takes for a message is one, and its frame a body of it.
LEMMA HandledMessage ==
    ASSUME TypeOK, OnMessageHandles
    PROVE  message(frame) \in [type : generated_pool, payload : Seq(Int)]
  <1>1. Valid(buf)
    BY DEF TypeOK, Valid
  <1>2. contents(buf) \in Seq(Int)
    BY <1>1, ValidFields
  <1>3. Len(contents(buf)) = readableBytes(buf) /\ readableBytes(buf) \in Nat
    BY <1>1, ValidFields
  <1>4. 4 <= len /\ readableBytes(buf) >= len + 1 /\ readableBytes(buf) >= 5
    BY DEF OnMessageHandles, enough, validLength, complete, s_minMessageLen, s_headerLen
  <1>5. len \in Int
    BY <1>2, <1>3, <1>4 DEF len, bytes
  <1>6. \A i \in 2..1 + len : bytes[i] \in Int
    BY <1>2, <1>3, <1>4, <1>5 DEF bytes
  <1>7. frame \in Seq(Int) /\ Len(frame) = len
    <2>1. frame = SubSeq(bytes, 2, 1 + len)
      BY DEF frame, s_headerLen
    <2> QED BY <1>4, <1>5, <1>6, <2>1, SubSeqProperties
  <1>8. frame \in Seq(Int)
    BY <1>7
  <1>9. Len(frame) >= s_minMessageLen /\ parse(frame) = "NoError"
    BY <1>4, <1>7 DEF OnMessageHandles, s_minMessageLen, s_headerLen
  <1> QED BY <1>8, <1>9, AcceptedIsMessage

\* Every step keeps the types.
LEMMA StepTypes ==
    ASSUME TypeOK, [Next]_vars
    PROVE  TypeOK'
  <1> USE DEF peerVars, callbackVars
  <1>1. Valid(buf)' /\ (wire \in Seq(Int))'
    <2>1. BufferInv
      BY DEF BufferInv, TypeOK, Valid
    <2> QED BY <2>1, StepQueue DEF BufferInv
  <1>2. CASE UNCHANGED vars
    BY <1>1, <1>2 DEF vars, TypeOK, Valid
  <1>3. ASSUME NEW f \in Frames, Send(f) PROVE TypeOK'
    BY <1>1, <1>3 DEF Send, TypeOK, Valid
  <1>4. ASSUME NEW n \in 1..Len(wire), Receive(n) PROVE TypeOK'
    BY <1>1, <1>4 DEF Receive, TypeOK, Valid
  <1>5. CASE OnMessageWaits
    BY <1>1, <1>5 DEF OnMessageWaits, TypeOK, Valid
  <1>6. CASE OnMessageError
    <2>1. \E e \in {"InvalidLength", "CheckSumError", "InvalidNameLen", "UnknownMessageType", "ParseError"} :
              errors' = Append(errors, e)
      BY <1>6, ParseTells DEF OnMessageError, error
    <2> DEFINE E == {"InvalidLength", "CheckSumError", "InvalidNameLen", "UnknownMessageType", "ParseError"}
    <2>2. errors \in Seq(E)
      BY DEF TypeOK
    <2>3. PICK e \in E : errors' = Append(errors, e)
      BY <2>1
    <2> HIDE DEF E
    <2>4. errors' \in Seq(E)
      BY <2>2, <2>3
    <2> QED BY <1>1, <1>6, <2>4 DEF OnMessageError, error, TypeOK, Valid, E
  <1>7. CASE OnMessageHandles
    <2>1. message(frame) \in [type : generated_pool, payload : Seq(Int)]
      BY <1>7, HandledMessage
    <2> DEFINE m == message(frame)
               M == [type : generated_pool, payload : Seq(Int)]
               r == fillEmptyBuffer(AnswerResults, <<1>>)
    <2>2. handled' = Append(handled, m) /\ UNCHANGED <<wire, sent, parsing, errors>>
      BY <1>7 DEF OnMessageHandles
    <2>3. /\ replies' = replies \/ replies' = Append(replies, r)
          /\ connected' = FALSE \/ connected' = connected
          /\ aborted' \in {"datavalue", "append", aborted}
      BY <1>7 DEF OnMessageHandles, onProtobufMessage, onQueryResults, onUnknownMessage, send
    <2>4. r \in Seq(Int)
      BY AnswerIsUnits
    <2>5. m \in M /\ handled \in Seq(M)
      BY <2>1 DEF TypeOK
    <2> HIDE DEF m, M, r
    <2>6. handled' \in Seq(M)
      BY <2>2, <2>5
    <2>7. replies' \in Seq(Seq(Int))
      <3> DEFINE R == Seq(Int)
      <3>1. replies \in Seq(R)
        BY DEF TypeOK
      <3>2. r \in R
        BY <2>4
      <3> HIDE DEF R
      <3>3. replies' \in Seq(R)
        BY <2>3, <3>1, <3>2
      <3> QED BY <3>3 DEF R
    <2> QED BY <1>1, <2>2, <2>3, <2>6, <2>7 DEF TypeOK, Valid, M
  <1> QED BY <1>2, <1>3, <1>4, <1>5, <1>6, <1>7 DEF Next

\* Sequences the steps below need.
LEMMA HandlingTypes ==
    ASSUME Handling
    PROVE  /\ Valid(buf) /\ contents(buf) \in Seq(Int) /\ Len(contents(buf)) = readableBytes(buf)
           /\ readableBytes(buf) \in Nat /\ wire \in Seq(Int) /\ stream \in Seq(Int)
           /\ sent \in Seq(Frames) /\ sent \in Seq(Seq(Int))
           /\ Len(sent) \in Nat /\ Len(handled) \in Nat /\ Len(handled) <= Len(sent)
  <1>1. Valid(buf) /\ wire \in Seq(Int) /\ sent \in Seq(Frames)
    BY DEF Handling, TypeOK, Valid
  <1>2. contents(buf) \in Seq(Int)
    BY <1>1, ValidFields
  <1>3. Len(contents(buf)) = readableBytes(buf) /\ readableBytes(buf) \in Nat
    BY <1>1, ValidFields
  <1>4. stream \in Seq(Int)
    BY <1>1, <1>2 DEF stream
  <1>5. sent \in Seq(Seq(Int))
    BY <1>1, CodecAssumption
  <1>6. Len(sent) \in Nat /\ Len(handled) \in Nat /\ Len(handled) <= Len(sent)
    BY <1>1 DEF Handling, TypeOK, Matched
  <1> QED BY <1>1, <1>2, <1>3, <1>4, <1>5, <1>6

\* A frame more: the stream holds it at its end.
LEMMA StepSend ==
    ASSUME framesAreClear, Handling, NEW f \in Frames, Send(f)
    PROVE  Matched' /\ Streamed' /\ Refused' /\ Settled' /\ HasPrefix'
  <1> USE DEF callbackVars
  <1>1. sent' = Append(sent, f) /\ wire' = wire \o f
        /\ UNCHANGED <<buf, parsing, handled, errors, aborted>> /\ aborted = "no"
    BY DEF Send
  <1>2. sent \in Seq(Frames) /\ Len(sent) \in Nat /\ Len(handled) \in Nat /\ Len(handled) <= Len(sent)
    BY HandlingTypes
  <1>3. Len(sent') = Len(sent) + 1 /\ sent'[Len(sent) + 1] = f /\ \A i \in 1..Len(sent) : sent'[i] = sent[i]
    <2>1. sent \in Seq(Frames)
      BY <1>2
    <2> QED BY <1>1, <2>1, AppendProperties
  <1>4. f \in Seq(Int)
    BY ClearFrame
  <1>5. Len(f) >= 5
    BY ClearFrame DEF s_minMessageLen, s_headerLen
  <1>6. Matched'
    <2>1. \A i \in 1..Len(handled) : i \in 1..Len(sent)
      BY <1>2
    <2> QED BY <1>1, <1>2, <1>3, <2>1 DEF Handling, Matched
  <1>7. Streamed'
    <2>1. contents(buf)' = contents(buf)
      BY <1>1
    <2>2. stream' = stream \o f
      <3>1. contents(buf) \in Seq(Int)
        BY HandlingTypes
      <3>2. wire \in Seq(Int)
        BY HandlingTypes
      <3>3. (contents(buf) \o wire) \o f = contents(buf) \o (wire \o f)
        BY <1>4, <3>1, <3>2, Regroup, Zenon
      <3> QED BY <1>1, <2>1, <3>3 DEF stream
    <2>3. stream \in Seq(Int)
      BY HandlingTypes
    <2>4. sent \in Seq(Seq(Int))
      BY HandlingTypes
    <2>5. Len(handled) \in 0..Len(sent)
      BY <1>2
    <2>6. Holds(Len(handled), sent, stream)
      BY <1>1 DEF Handling, Streamed
    <2>7. Holds(Len(handled), Append(sent, f), stream \o f)
      BY <1>4, <2>3, <2>4, <2>5, <2>6, HoldsMore
    <2> QED BY <1>1, <2>2, <2>7 DEF Streamed
  <1>8. Refused'
    <2>1. Len(handled) < Len(sent) => Len(handled) + 1 \in 1..Len(sent)
      BY <1>2
    <2> QED BY <1>1, <1>2, <1>3, <2>1 DEF Handling, Refused
  <1>9. Settled'
    <2>1. contents(buf)' = contents(buf)
      BY <1>1
    <2>2. CASE Len(handled) < Len(sent)
      <3>1. Len(handled) + 1 \in 1..Len(sent)
        BY <1>2, <2>2
      <3> QED BY <1>1, <1>3, <2>1, <2>2, <3>1 DEF Handling, Settled
    <2>3. CASE Len(handled) = Len(sent)
      <3>1. Holds(Len(sent), sent, stream)
        BY <1>1, <2>3 DEF Handling, Streamed
      <3>2. stream \in Seq(Int)
        BY HandlingTypes
      <3>3. sent \in Seq(Seq(Int))
        BY HandlingTypes
      <3>4. Len(stream) = 0
        BY <3>1, <3>2, <3>3, NothingHeld
      <3>5. Len(contents(buf)) = 0
        <4>1. contents(buf) \in Seq(Int)
          BY HandlingTypes
        <4>2. wire \in Seq(Int)
          BY HandlingTypes
        <4>3. Len(stream) = Len(contents(buf)) + Len(wire)
          BY <4>1, <4>2, Concat DEF stream
        <4>4. Len(contents(buf)) \in Nat /\ Len(wire) \in Nat
          BY <4>1, <4>2
        <4> QED BY <3>4, <4>3, <4>4
      <3>6. sent'[Len(handled) + 1] = f
        BY <1>3, <2>3
      <3>7. Len(contents(buf)) < Len(f)
        BY <1>4, <1>5, <3>5
      <3> QED BY <1>1, <2>1, <3>6, <3>7 DEF Settled
    <2> QED BY <1>2, <2>2, <2>3
  <1>10. HasPrefix'
    <2>1. PICK n \in 0..Len(sent) : isPrefix(n)
      BY DEF Handling, HasPrefix
    <2>2. \A i \in 1..n : i \in 1..Len(sent)
      BY <1>2
    <2>3. CASE n = Len(sent) /\ good(f)
      <3>1. n + 1 \in 0..Len(sent') /\ ~(n + 1 < Len(sent'))
        BY <1>2, <1>3, <2>3
      <3>2. \A i \in 1..n + 1 : i \in 1..n \/ i = n + 1
        BY <1>2
      <3>3. \A i \in 1..n + 1 : good(sent'[i])
        BY <1>3, <2>1, <2>2, <2>3, <3>2 DEF isPrefix
      <3> QED BY <3>1, <3>3 DEF HasPrefix, isPrefix
    <2>4. CASE n = Len(sent) /\ ~good(f)
      <3>1. n \in 0..Len(sent')
        BY <1>2, <1>3
      <3>2. \A i \in 1..n : good(sent'[i])
        BY <1>3, <2>1, <2>2 DEF isPrefix
      <3>3. ~good(sent'[n + 1])
        BY <1>3, <2>4
      <3> QED BY <3>1, <3>2, <3>3 DEF HasPrefix, isPrefix
    <2>5. CASE n < Len(sent)
      <3>1. n \in 0..Len(sent') /\ n + 1 \in 1..Len(sent)
        BY <1>2, <1>3, <2>5
      <3>2. \A i \in 1..n : good(sent'[i])
        BY <1>3, <2>1, <2>2 DEF isPrefix
      <3>3. ~good(sent'[n + 1])
        BY <1>3, <2>1, <2>5, <3>1 DEF isPrefix
      <3> QED BY <3>1, <3>2, <3>3 DEF HasPrefix, isPrefix
    <2> QED BY <1>2, <2>3, <2>4, <2>5
  <1> QED BY <1>6, <1>7, <1>8, <1>9, <1>10

\* What has come is behind what waits: the stream is the same.
LEMMA StepReceive ==
    ASSUME Handling, NEW n \in 1..Len(wire), Receive(n)
    PROVE  Matched' /\ Streamed' /\ Refused' /\ Settled' /\ HasPrefix'
  <1> USE DEF callbackVars
  <1>1. UNCHANGED <<sent, handled, errors>> /\ aborted = "no"
    BY DEF Receive
  <1>2. aborted' # "no" \/ (buf' = readFromFd(buf, SubSeq(wire, 1, n)) /\ parsing' = TRUE)
    BY DEF Receive
  <1>3. Matched' /\ Refused' /\ HasPrefix'
    BY <1>1 DEF Handling, Matched, Refused, HasPrefix, isPrefix
  <1>4. Settled'
    BY <1>2 DEF Settled
  <1>5. Streamed'
    <2>1. CASE aborted' # "no"
      BY <2>1 DEF Streamed
    <2>2. CASE buf' = readFromFd(buf, SubSeq(wire, 1, n))
      <3> DEFINE x == SubSeq(wire, 1, n)
                 y == SubSeq(wire, n + 1, Len(wire))
      <3>1. wire \in Seq(Int)
        BY HandlingTypes
      <3>2. contents(buf) \in Seq(Int)
        BY HandlingTypes
      <3>3. n \in 0..Len(wire)
        OBVIOUS
      <3>4. x \in Seq(Int) /\ y \in Seq(Int) /\ wire = x \o y
        BY <3>1, <3>3, SplitAt
      <3>5. wire' = y /\ buf' = readFromFd(buf, x)
        BY <2>2 DEF Receive
      <3> HIDE DEF x, y
      <3>6. x \in Seq(Int)
        BY <3>4
      <3>7. y \in Seq(Int)
        BY <3>4
      <3>8. contents(readFromFd(buf, x)) = contents(buf) \o x
        <4>1. Valid(buf)
          BY HandlingTypes
        <4> QED BY <3>6, <4>1, ReadFromFdAppends
      <3>9. contents(buf)' = contents(buf) \o x
        BY <3>5, <3>8 DEF contents, readableBytes
      <3>10. (contents(buf) \o x) \o y = contents(buf) \o (x \o y)
        BY <3>2, <3>6, <3>7, Regroup, Zenon
      <3>11. stream' = stream
        BY <3>4, <3>5, <3>9, <3>10 DEF stream
      <3> QED BY <1>1, <3>11 DEF Handling, Streamed
    <2> QED BY <1>2, <2>1, <2>2
  <1> QED BY <1>3, <1>4, <1>5

\* The loop ends with less than a frame in the Buffer.
LEMMA StepWaits ==
    ASSUME framesAreClear, Handling, OnMessageWaits
    PROVE  Matched' /\ Streamed' /\ Refused' /\ Settled' /\ HasPrefix'
  <1>1. UNCHANGED <<buf, wire, sent, handled, errors, aborted>> /\ aborted = "no"
    BY DEF OnMessageWaits, peerVars, callbackVars
  <1>2. contents(buf)' = contents(buf)
    BY <1>1
  <1>3. Matched' /\ Streamed' /\ Refused' /\ HasPrefix'
    BY <1>1, <1>2 DEF Handling, Matched, Streamed, Refused, HasPrefix, isPrefix, stream
  <1>4. Settled'
    <2> DEFINE f == sent[Len(handled) + 1]
    <2>1. SUFFICES ASSUME Len(handled) < Len(sent) PROVE Len(contents(buf)) < Len(f)
      BY <1>1, <1>2 DEF Settled
    <2>2. sent \in Seq(Frames) /\ Len(handled) + 1 \in 1..Len(sent)
      BY <2>1, HandlingTypes
    <2>3. f \in Frames
      BY <2>2
    <2>4. Len(contents(buf)) = readableBytes(buf) /\ readableBytes(buf) \in Nat
      BY HandlingTypes
    <2> HIDE DEF f
    <2>5. Len(f) >= 5 /\ f \in Seq(Int)
      BY <2>3, ClearFrame DEF s_minMessageLen, s_headerLen
    <2>6. CASE ~enough
      <3>1. readableBytes(buf) < 5
        BY <2>4, <2>6 DEF enough, s_minMessageLen, s_headerLen
      <3> QED BY <2>4, <2>5, <3>1
    <2>7. CASE enough /\ validLength /\ ~complete
      <3>1. readableBytes(buf) >= 1
        BY <2>4, <2>7 DEF enough, s_minMessageLen, s_headerLen
      <3>2. readableBytes(buf) < Len(f)
        BY <1>1, <2>7, <3>1, FrameIsSent DEF f
      <3> QED BY <2>4, <3>2
    <2> QED BY <2>6, <2>7 DEF OnMessageWaits
  <1> QED BY <1>3, <1>4

\* The stream begins with a wrong frame.
LEMMA StepError ==
    ASSUME framesAreClear, Handling, OnMessageError
    PROVE  Matched' /\ Streamed' /\ Refused' /\ Settled' /\ HasPrefix'
  <1>1. UNCHANGED <<buf, wire, sent, handled, aborted>> /\ aborted = "no" /\ enough
    BY DEF OnMessageError, error, peerVars
  <1>2. contents(buf)' = contents(buf)
    BY <1>1
  <1>3. Matched' /\ Streamed' /\ HasPrefix'
    BY <1>1, <1>2 DEF Handling, Matched, Streamed, HasPrefix, isPrefix, stream
  <1>4. Settled'
    <2>1. \E e \in {"InvalidLength", "CheckSumError", "InvalidNameLen", "UnknownMessageType", "ParseError"} :
              errors' = Append(errors, e)
      BY ParseTells DEF OnMessageError, error
    <2>2. errors' # <<>>
      <3> DEFINE E == {"InvalidLength", "CheckSumError", "InvalidNameLen", "UnknownMessageType", "ParseError"}
      <3>1. errors \in Seq(E)
        BY DEF Handling, TypeOK
      <3>2. PICK e \in E : errors' = Append(errors, e)
        BY <2>1
      <3> HIDE DEF E
      <3> QED BY <3>1, <3>2
    <2> QED BY <2>2 DEF Settled
  <1>5. Refused'
    <2> DEFINE f == sent[Len(handled) + 1]
    <2>1. readableBytes(buf) \in Nat
      BY HandlingTypes
    <2>2. readableBytes(buf) >= 1
      BY <1>1, <2>1 DEF enough, s_minMessageLen, s_headerLen
    <2>3. /\ Len(handled) < Len(sent) /\ f \in Frames /\ len = f[1]
          /\ validLength /\ complete => frame = Tail(f)
      BY <1>1, <2>2, FrameIsSent
    <2>4. f \in Frames
      BY <2>3
    <2>5. good(f) => f[1] \in s_minMessageLen..s_maxMessageLen /\ parse(Tail(f)) = "NoError"
      BY <2>4, ClearFrame
    <2> HIDE DEF f
    <2>6. ~good(f)
      <3>1. CASE ~validLength
        BY <2>3, <2>5, <3>1, CodecAssumption DEF validLength, s_minMessageLen, s_headerLen
      <3>2. CASE validLength /\ complete /\ parse(frame) # "NoError"
        BY <2>3, <2>5, <3>2
      <3> QED BY <3>1, <3>2 DEF OnMessageError
    <2> QED BY <1>1, <2>3, <2>6 DEF Refused, f
  <1> QED BY <1>3, <1>4, <1>5

\* What is left of two sequences put together, when some of the first is gone.
LEMMA RestOfTwo ==
    ASSUME NEW x \in Seq(Int), NEW y \in Seq(Int), NEW m \in 0..Len(x)
    PROVE  SubSeq(x, m + 1, Len(x)) \o y = SubSeq(x \o y, m + 1, Len(x \o y))
  <1> DEFINE u == SubSeq(x, m + 1, Len(x))
             z == x \o y
             l == u \o y
             r == SubSeq(z, m + 1, Len(z))
  <1>1. m \in Nat /\ Len(x) \in Nat /\ Len(y) \in Nat /\ m <= Len(x)
    OBVIOUS
  <1>2. u \in Seq(Int) /\ Len(u) = Len(x) - m /\ \A i \in 1..Len(x) - m : u[i] = x[m + i]
    BY <1>1
  <1>3. /\ z \in Seq(Int) /\ Len(z) = Len(x) + Len(y)
        /\ \A i \in 1..Len(x) : z[i] = x[i]
        /\ \A i \in 1..Len(y) : z[Len(x) + i] = y[i]
    BY Concat
  <1> HIDE DEF u, z
  <1>4. u \in Seq(Int)
    BY <1>2
  <1>5. /\ l \in Seq(Int) /\ Len(l) = Len(u) + Len(y)
        /\ \A i \in 1..Len(u) : l[i] = u[i]
        /\ \A i \in 1..Len(y) : l[Len(u) + i] = y[i]
    BY <1>4, Concat
  <1>6. z \in Seq(Int)
    BY <1>3
  <1>7. /\ r \in Seq(Int) /\ Len(r) = Len(z) - m
        /\ \A i \in 1..Len(z) - m : r[i] = z[m + i]
    <2>1. m <= Len(z)
      BY <1>1, <1>3
    <2> QED BY <1>1, <1>6, <2>1
  <1> HIDE DEF l, r
  <1>8. Len(l) = Len(r) /\ Len(l) = (Len(x) - m) + Len(y)
    BY <1>1, <1>2, <1>3, <1>5, <1>7
  <1>9. ASSUME NEW i \in 1..Len(l) PROVE l[i] = r[i]
    <2>1. i \in 1..(Len(x) - m) + Len(y) /\ r[i] = z[m + i]
      BY <1>1, <1>3, <1>7, <1>8
    <2>2. CASE i \in 1..Len(x) - m
      <3>1. m + i \in 1..Len(x)
        BY <1>1, <2>2
      <3>2. l[i] = u[i] /\ u[i] = x[m + i]
        BY <1>2, <1>5, <2>2
      <3> QED BY <1>3, <2>1, <3>1, <3>2
    <2>3. CASE i \notin 1..Len(x) - m
      <3> DEFINE j == i - (Len(x) - m)
      <3>1. j \in 1..Len(y) /\ i = Len(u) + j /\ m + i = Len(x) + j
        BY <1>1, <1>2, <2>1, <2>3
      <3> HIDE DEF j
      <3>2. l[Len(u) + j] = y[j] /\ z[Len(x) + j] = y[j]
        BY <1>3, <1>5, <3>1
      <3> QED BY <2>1, <3>1, <3>2
    <2> QED BY <2>2, <2>3
  <1>10. l = r
    <2>1. l \in Seq(Int)
      BY <1>5
    <2>2. r \in Seq(Int)
      BY <1>7
    <2> QED BY <1>8, <1>9, <2>1, <2>2, SeqEqual
  <1> QED BY <1>10 DEF l, r, u, z

\* The first frame of the stream is handled, and consumed with its length.
LEMMA StepHandles ==
    ASSUME framesAreClear, Handling, OnMessageHandles
    PROVE  Matched' /\ Streamed' /\ Refused' /\ Settled' /\ HasPrefix'
  <1> DEFINE k == Len(handled)
             f == sent[k + 1]
  <1>1. /\ handled' = Append(handled, message(frame)) /\ parsing /\ parsing' = parsing
        /\ UNCHANGED <<wire, sent, errors>> /\ aborted = "no"
    BY DEF OnMessageHandles, peerVars
  <1>2. /\ k \in Nat /\ Len(sent) \in Nat /\ readableBytes(buf) \in Nat
        /\ Len(contents(buf)) = readableBytes(buf)
    BY HandlingTypes
  <1>3. readableBytes(buf) >= 1 /\ validLength /\ complete /\ parse(frame) = "NoError"
    BY <1>2 DEF OnMessageHandles, enough, s_minMessageLen, s_headerLen
  <1>4. k < Len(sent) /\ f \in Frames /\ len = f[1] /\ frame = Tail(f)
    BY <1>1, <1>3, FrameIsSent
  <1>5. f \in Frames
    BY <1>4
  <1>6. f \in Seq(Int)
    BY <1>5, ClearFrame
  <1>7. Len(f) \in Nat /\ f[1] = Len(f) - 1 /\ f[1] \in s_minMessageLen..s_maxMessageLen
    <2>1. Len(f) \in Nat /\ Len(f) >= 5
      BY <1>5, <1>6, ClearFrame DEF s_minMessageLen, s_headerLen
    <2>2. f[1] \in Int
      BY <1>6, <2>1
    <2>3. f[1] \in s_minMessageLen..s_maxMessageLen
      BY <1>3, <1>4, <2>2, CodecAssumption DEF validLength, s_minMessageLen, s_headerLen
    <2> QED BY <1>5, <2>1, <2>3, ClearFrame DEF s_headerLen
  <1>8. good(f)
    BY <1>3, <1>4, <1>5, <1>7, ClearFrame
  <1>9. handled' = Append(handled, message(Tail(f))) /\ Len(handled') = k + 1
        /\ handled'[k + 1] = message(Tail(f)) /\ \A i \in 1..k : handled'[i] = handled[i]
    <2> DEFINE M == [type : generated_pool, payload : Seq(Int)]
               m == message(Tail(f))
    <2>1. m \in M
      BY <1>4, HandledMessage DEF Handling
    <2>2. handled \in Seq(M)
      BY DEF Handling, TypeOK
    <2>3. handled' = Append(handled, m)
      BY <1>1, <1>4
    <2> HIDE DEF M, m
    <2> QED BY <2>1, <2>2, <2>3, AppendProperties DEF m
  <1>10. Matched'
    <2>1. \A i \in 1..k + 1 : i \in 1..k \/ i = k + 1
      BY <1>2
    <2>2. \A i \in 1..k + 1 : good(sent[i]) /\ handled'[i] = message(Tail(sent[i]))
      BY <1>8, <1>9, <2>1 DEF Handling, Matched
    <2>3. k + 1 <= Len(sent)
      BY <1>2, <1>4
    <2> QED BY <1>1, <1>9, <2>2, <2>3 DEF Matched
  <1>11. Refused'
    BY <1>1, <1>8 DEF Handling, Refused
  <1>12. Settled'
    BY <1>1 DEF Settled
  <1>13. HasPrefix'
    BY <1>1 DEF Handling, HasPrefix, isPrefix
  <1>14. Streamed'
    <2> DEFINE m == Len(f)
    <2>1. m = s_headerLen + len /\ m \in 0..readableBytes(buf) /\ buf' = retrieve(buf, m)
      <3>1. Valid(buf)
        BY HandlingTypes
      <3>2. m = s_headerLen + len
        BY <1>4, <1>7 DEF s_headerLen
      <3> QED BY <3>1, <3>2, FrameIsThere
    <2>2. contents(retrieve(buf, m)) = SubSeq(contents(buf), m + 1, Len(contents(buf)))
      <3>1. Valid(buf)
        BY HandlingTypes
      <3> HIDE DEF m
      <3> QED BY <2>1, <3>1, RetrieveTakes
    <2>3. contents(buf)' = SubSeq(contents(buf), m + 1, Len(contents(buf)))
      BY <2>1, <2>2 DEF contents, readableBytes
    <2>4. stream' = SubSeq(stream, m + 1, Len(stream))
      <3>1. contents(buf) \in Seq(Int)
        BY HandlingTypes
      <3>2. wire \in Seq(Int)
        BY HandlingTypes
      <3>3. m \in 0..Len(contents(buf))
        BY <1>2, <2>1
      <3> HIDE DEF m
      <3>4. SubSeq(contents(buf), m + 1, Len(contents(buf))) \o wire = SubSeq(stream, m + 1, Len(stream))
        BY <3>1, <3>2, <3>3, RestOfTwo DEF stream
      <3> QED BY <1>1, <2>3, <3>4 DEF stream
    <2>5. Holds(k, sent, stream)
      BY <1>1 DEF Handling, Streamed
    <2>6. sent \in Seq(Seq(Int))
      BY HandlingTypes
    <2>7. stream \in Seq(Int)
      BY HandlingTypes
    <2>8. Holds(k + 1, sent, SubSeq(stream, m + 1, Len(stream)))
      <3> HIDE DEF k
      <3> QED BY <1>2, <1>4, <2>5, <2>6, <2>7, HoldsLess
    <2> QED BY <1>1, <1>9, <2>4, <2>8 DEF Streamed
  <1> QED BY <1>10, <1>11, <1>12, <1>13, <1>14

\* Nothing was sent, nothing handled.
LEMMA InitHandling == Init => Handling
  <1> SUFFICES ASSUME Init PROVE Handling
    OBVIOUS
  <1>1. /\ wire = <<>> /\ sent = <<>> /\ handled = <<>> /\ errors = <<>> /\ replies = <<>>
        /\ buf = newBuffer(initialSize) /\ connected = TRUE /\ parsing = FALSE /\ aborted = "no"
    BY DEF Init
  <1>2. Valid(buf) /\ contents(buf) = <<>>
    BY <1>1, NewBuffer, CodecAssumption
  <1>3. TypeOK
    <2>1. /\ wire \in Seq(Int) /\ sent \in Seq(Frames)
          /\ handled \in Seq([type : generated_pool, payload : Seq(Int)])
          /\ replies \in Seq(Seq(Int))
      BY <1>1, EmptySeq
    <2>2. errors \in Seq({"InvalidLength", "CheckSumError", "InvalidNameLen", "UnknownMessageType", "ParseError"})
      BY <1>1, EmptySeq
    <2>3. buf \in Buffers /\ inRange(buf)
      BY <1>2 DEF Valid
    <2>4. parsing \in BOOLEAN /\ connected \in BOOLEAN /\ aborted \in {"no", "append", "datavalue"}
      BY <1>1
    <2> QED BY <2>1, <2>2, <2>3, <2>4 DEF TypeOK
  <1>4. Matched /\ Refused /\ Settled
    BY <1>1 DEF Matched, Refused, Settled
  <1>5. HasPrefix
    BY <1>1 DEF HasPrefix, isPrefix
  <1>6. Streamed
    <2> DEFINE c == [i \in 0..0 |-> 0]
    <2>1. stream = <<>> /\ Len(stream) = 0
      BY <1>1, <1>2 DEF stream
    <2>2. Len(handled) = 0 /\ Len(sent) = 0
      BY <1>1
    <2>3. c \in [0..0 -> Nat] /\ c[0] = 0 /\ \A i, j \in 0..0 : c[i] <= c[j]
      <3>1. \A i \in 0..0 : c[i] = 0
        OBVIOUS
      <3>2. 0 \in 0..0 /\ c \in [0..0 -> Nat]
        OBVIOUS
      <3> HIDE DEF c
      <3> QED BY <3>1, <3>2
    <2> HIDE DEF c
    <2>4. \A i : i \notin 0 + 1..0
      OBVIOUS
    <2>5. Cuts(c, 0, sent, stream)
      BY <2>1, <2>2, <2>3, <2>4 DEF Cuts
    <2>6. Holds(0, sent, stream)
      BY <2>2, <2>3, <2>5 DEF Holds
    <2> QED BY <2>2, <2>6 DEF Streamed
  <1> QED BY <1>3, <1>4, <1>5, <1>6 DEF Handling

\* Every step keeps the invariant, each for its own reason above.
LEMMA StepHandling ==
    ASSUME framesAreClear, Handling, [Next]_vars
    PROVE  Handling'
  <1>1. TypeOK'
    BY StepTypes DEF Handling
  <1>2. CASE UNCHANGED vars
    <2>1. UNCHANGED <<buf, wire, sent, handled, errors, parsing, aborted>>
      BY <1>2 DEF vars, peerVars, callbackVars
    <2>2. contents(buf)' = contents(buf)
      BY <2>1
    <2>3. Matched' /\ Streamed' /\ Refused' /\ Settled' /\ HasPrefix'
      BY <2>1, <2>2 DEF Handling, Matched, Streamed, Refused, Settled, HasPrefix, isPrefix, stream
    <2> QED BY <1>1, <2>3 DEF Handling
  <1>3. ASSUME Next PROVE Matched' /\ Streamed' /\ Refused' /\ Settled' /\ HasPrefix'
    BY <1>3, StepSend, StepReceive, StepWaits, StepError, StepHandles DEF Next
  <1> QED BY <1>1, <1>2, <1>3 DEF Handling

\* The messages of the frames before the first wrong one are what is expected.
LEMMA HandlingShows == framesAreClear /\ Handling => HandledAsSent
  <1> SUFFICES ASSUME framesAreClear, Handling PROVE HandledAsSent
    OBVIOUS
  <1> DEFINE k == Len(handled)
             n == goodPrefix
             M == [type : generated_pool, payload : Seq(Int)]
  <1>1. k \in Nat /\ Len(sent) \in Nat /\ k <= Len(sent)
    BY HandlingTypes
  <1>2. n \in 0..Len(sent) /\ isPrefix(n)
    BY DEF Handling, HasPrefix, isPrefix, goodPrefix
  <1>3. /\ \A i \in 1..k : good(sent[i]) /\ handled[i] = message(Tail(sent[i]))
        /\ errors # <<>> => k < Len(sent) /\ ~good(sent[k + 1])
    BY DEF Handling, Matched, Refused
  <1>4. handled \in Seq(M)
    BY DEF Handling, TypeOK
  <1> HIDE DEF n
  <1>5. n \in Nat /\ n <= Len(sent)
    BY <1>1, <1>2
  <1>6. k <= n
    <2> SUFFICES ASSUME n < k PROVE FALSE
      BY <1>1, <1>5
    <2>1. n + 1 \in 1..k /\ n < Len(sent)
      BY <1>1, <1>5
    <2> QED BY <1>2, <1>3, <2>1 DEF isPrefix
  <1>7. k < Len(sent) /\ ~good(sent[k + 1]) => k = n
    <2> SUFFICES ASSUME ~good(sent[k + 1]), k < n PROVE FALSE
      BY <1>1, <1>5, <1>6
    <2>1. k + 1 \in 1..n
      BY <1>1, <1>5
    <2> QED BY <1>2, <2>1 DEF isPrefix
  <1>8. expected = [i \in 1..n |-> message(Tail(sent[i]))]
    BY DEF expected, n
  <1>9. Len(expected) = n
    BY <1>5, <1>8
  <1>10. handled = SubSeq(expected, 1, k)
    <2>1. \A i \in 1..k : expected[i] = handled[i] /\ handled[i] \in M
      <3> SUFFICES ASSUME NEW i \in 1..k PROVE expected[i] = handled[i] /\ handled[i] \in M
        OBVIOUS
      <3>1. i \in 1..n
        BY <1>1, <1>5, <1>6
      <3> HIDE DEF M
      <3> QED BY <1>3, <1>4, <1>8, <3>1
    <2> HIDE DEF M
    <2>2. /\ SubSeq(expected, 1, k) \in Seq(M) /\ Len(SubSeq(expected, 1, k)) = k
          /\ \A i \in 1..k : SubSeq(expected, 1, k)[i] = expected[i]
      <3> HIDE DEF k
      <3>1. \A i \in 1..k : expected[i] \in M
        BY <2>1
      <3> QED BY <1>1, <3>1, SubSeqProperties
    <2>3. SubSeq(expected, 1, k) \in Seq(M)
      BY <2>2
    <2> QED BY <1>4, <2>1, <2>2, <2>3, SeqEqual
  <1>11. ASSUME aborted = "no", wire = <<>>, ~parsing
         PROVE  k = n /\ (errors = <<>> => n = Len(sent))
    <2>1. CASE errors # <<>>
      BY <1>3, <1>7, <2>1
    <2>2. CASE errors = <<>> /\ k = Len(sent)
      BY <1>5, <1>6, <2>2
    <2>3. CASE errors = <<>> /\ k < Len(sent)
      <3>1. Len(contents(buf)) < Len(sent[k + 1])
        BY <1>11, <2>3 DEF Handling, Settled
      <3>2. stream \in Seq(Int)
        BY HandlingTypes
      <3>3. sent \in Seq(Seq(Int))
        BY HandlingTypes
      <3>4. Holds(k, sent, stream)
        BY <1>11 DEF Handling, Streamed
      <3>5. Len(sent[k + 1]) <= Len(stream)
        <4> HIDE DEF k
        <4> QED BY <1>1, <2>3, <3>2, <3>3, <3>4, FirstHeld
      <3>6. contents(buf) \in Seq(Int)
        BY HandlingTypes
      <3>7. stream = contents(buf)
        BY <1>11, <3>6 DEF stream
      <3>8. Len(contents(buf)) \in Nat /\ Len(sent[k + 1]) \in Nat
        <4>1. k + 1 \in 1..Len(sent)
          BY <1>1, <2>3
        <4> QED BY <3>3, <3>6, <4>1
      <3> QED BY <3>1, <3>5, <3>7, <3>8
    <2> QED BY <1>1, <2>1, <2>2, <2>3
  <1>12. errors # <<>> => k = n /\ n < Len(sent)
    BY <1>3, <1>7
  <1>13. TypeOK
    BY DEF Handling
  <1> QED BY <1>6, <1>9, <1>10, <1>11, <1>12, <1>13 DEF HandledAsSent, n

\* However the bytes of any frames are cut, and whatever the sizes of Buffer and
\* message, onMessage hands on the messages of the frames before the first wrong
\* one, in order and once each, and nothing behind it.  The frames are such that
\* the next begins where one ends: good ones of any payload, and wrong ones that
\* what is in them is enough to refuse.
THEOREM HandlesAsSent ==
    ASSUME framesAreClear
    PROVE  Spec => []HandledAsSent
  <1>1. Init => Handling
    BY InitHandling
  <1>2. Handling /\ [Next]_vars => Handling'
    BY StepHandling
  <1>3. Handling => HandledAsSent
    BY HandlingShows
  <1> QED BY <1>1, <1>2, <1>3, PTL DEF Spec
=============================================================================
