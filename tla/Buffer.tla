-------------------------------- MODULE Buffer --------------------------------
(***************************************************************************)
(* ynet::Buffer as operators: a vector of bytes with the indices of the    *)
(* part that waits to be read.  Every operation has the condition under    *)
(* which its asserts hold beside it.  External: resize() adds zeros.       *)
(***************************************************************************)
EXTENDS Integers, Sequences

\* m_vec, m_readPos, m_writePos.
Buffers == [vec : Seq(Int), readPos : Nat, writePos : Nat]
inRange(b) == b.readPos <= b.writePos /\ b.writePos <= Len(b.vec)

newBuffer(initialSize) == [vec |-> [i \in 1..initialSize |-> 0], readPos |-> 0, writePos |-> 0]

readableBytes(b) == b.writePos - b.readPos
writableBytes(b) == Len(b.vec) - b.writePos

\* What getReadPos() points to, readableBytes() of it.
contents(b) == [i \in 1..readableBytes(b) |-> b.vec[b.readPos + i]]

hasWrittenAsserts(b, len) == len <= writableBytes(b)
hasWritten(b, len) == [b EXCEPT !.writePos = @ + len]

\* Mutant: a byte too few is moved.
moveToFrontLess(b) ==
    [vec |-> [i \in 1..Len(b.vec) |-> IF i < readableBytes(b) THEN b.vec[b.readPos + i] ELSE b.vec[i]],
     readPos |-> 0, writePos |-> readableBytes(b)]

\* std::copy to the front: the rest of the vector stays as it is.
moveToFront(b) ==
    [vec |-> [i \in 1..Len(b.vec) |-> IF i <= readableBytes(b) THEN b.vec[b.readPos + i] ELSE b.vec[i]],
     readPos |-> 0, writePos |-> readableBytes(b)]

resize(b, len) ==
    [b EXCEPT !.vec = [i \in 1..Len(b.vec) + len |-> IF i <= Len(b.vec) THEN b.vec[i] ELSE 0]]

makeSpace(b, len) ==
    IF len <= b.readPos + writableBytes(b) THEN moveToFront(b) ELSE resize(b, len)

ensureSpace(b, len) == IF len <= writableBytes(b) THEN b ELSE makeSpace(b, len)

\* Bytes put at the write position, which only hasWritten moves.
write(b, data) ==
    [b EXCEPT !.vec = [i \in 1..Len(b.vec) |->
        IF i \in b.writePos + 1..b.writePos + Len(data) THEN data[i - b.writePos] ELSE b.vec[i]]]
store(b, data) == hasWritten(write(b, data), Len(data))

append(b, data) == store(ensureSpace(b, Len(data)), data)

\* append asserts that something stays writable: it may not fill the vector.
appendAsserts(b, data) == append(b, data).writePos < Len(append(b, data).vec)

retrieveAll(b) == [b EXCEPT !.readPos = 0, !.writePos = 0]

retrieveAsserts(b, len) == len <= readableBytes(b)
retrieve(b, len) == IF len < readableBytes(b) THEN [b EXCEPT !.readPos = @ + len] ELSE retrieveAll(b)

\* readv fills what is writable first and a buffer on the stack with the rest.
readFromFd(b, data) ==
    IF Len(data) <= writableBytes(b) THEN store(b, data)
    ELSE append(store(b, SubSeq(data, 1, writableBytes(b))),
                SubSeq(data, writableBytes(b) + 1, Len(data)))
readFromFdAsserts(b, data) ==
    Len(data) <= writableBytes(b) \/
        appendAsserts(store(b, SubSeq(data, 1, writableBytes(b))),
                      SubSeq(data, writableBytes(b) + 1, Len(data)))
=============================================================================
