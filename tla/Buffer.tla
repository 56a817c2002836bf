-------------------------------- MODULE Buffer --------------------------------
(***************************************************************************)
(* The Buffer of a TcpConnection (mymuduo/Buffer.h, Buffer.cc): a vector   *)
(* with a reader and a writer index.  Bytes are written behind the one and *)
(* taken from behind the other; when the space at the end does not suffice *)
(* the readable bytes move to the front or the vector grows.               *)
(*                                                                         *)
(* Bytes are numbered in the order they are put in; 0 is any other byte.   *)
(* One loop thread owns a buffer, so its operations are atomic.  Indexes   *)
(* do not come near the width of size_t.                                   *)
(***************************************************************************)
EXTENDS Integers

CONSTANTS
    kCheapPrepend,  \* bytes kept free in front of the readable ones
    kInitialSize,
    ExtraSize,      \* size of extrabuf in readFd
    MaxBytes        \* bound: bytes put in
ASSUME BufferAssumption ==
    /\ kCheapPrepend \in Nat /\ kInitialSize \in Nat
    /\ ExtraSize \in Nat /\ MaxBytes \in Nat

VARIABLES
    buffer,  \* the object, and how many bytes were put in: see NewBuffer
    taken,   \* history: bytes taken out
    peak     \* history: most bytes that were readable at once

vars == <<buffer, taken, peak>>

NewBuffer ==
    [bytes |-> [k \in 0 .. kCheapPrepend + kInitialSize - 1 |-> 0],
     size |-> kCheapPrepend + kInitialSize,
     reader |-> kCheapPrepend, writer |-> kCheapPrepend, put |-> 0]

ReadableBytes(b)    == b.writer - b.reader
WriteableBytes(b)   == b.size - b.writer
PrependableBytes(b) == b.reader

-----------------------------------------------------------------------------
(* Operations.                                                             *)

\* std::copy of the next len bytes to beginWrite(), or a read into that place.
WrittenBytes(b, len) ==
    [k \in 0 .. b.size - 1 |->
        IF k < b.writer \/ k >= b.writer + len THEN b.bytes[k]
        ELSE b.put + 1 + k - b.writer]
Written(b, len) ==
    [b EXCEPT !.bytes = WrittenBytes(b, len), !.writer = @ + len, !.put = @ + len]

ResizedBytes(b, n) == [k \in 0 .. n - 1 |-> IF k < b.size THEN b.bytes[k] ELSE 0]
Resized(b, n) == [b EXCEPT !.bytes = ResizedBytes(b, n), !.size = n]

\* The readable bytes, copied to the front.
MovedBytes(b) ==
    [k \in 0 .. b.size - 1 |->
        IF k < kCheapPrepend \/ k >= kCheapPrepend + ReadableBytes(b) THEN b.bytes[k]
        ELSE b.bytes[b.reader + k - kCheapPrepend]]
MovedDown(b) ==
    [b EXCEPT !.bytes = MovedBytes(b),
              !.reader = kCheapPrepend, !.writer = kCheapPrepend + ReadableBytes(b)]

\* Faulty variant: the prepend bytes count as space.
MakeSpaceTight(b, len) ==
    IF WriteableBytes(b) + PrependableBytes(b) < len
    THEN Resized(b, b.writer + len) ELSE MovedDown(b)
\* Faulty variant: space that was read is never used again.
MakeSpaceAtEnd(b, len) == Resized(b, b.writer + len)
MakeSpace(b, len) ==
    IF WriteableBytes(b) + PrependableBytes(b) < len + kCheapPrepend
    THEN Resized(b, b.writer + len) ELSE MovedDown(b)

EnsureWriteableBytes(b, len) ==
    IF WriteableBytes(b) < len THEN MakeSpace(b, len) ELSE b

Append(b, len) == Written(EnsureWriteableBytes(b, len), len)

\* Faulty variant: writerIndex_ is not set to the end before the append.
ReadFdOver(b, n) ==
    IF n <= WriteableBytes(b) THEN Written(b, n)
    ELSE LET full == Written(b, WriteableBytes(b))
         IN  Append([full EXCEPT !.writer = b.writer], n - WriteableBytes(b))
\* readv fills the vector first and extrabuf then, which is appended.
ReadFd(b, n) ==
    IF n <= WriteableBytes(b) THEN Written(b, n)
    ELSE Append(Written(b, WriteableBytes(b)), n - WriteableBytes(b))

\* retrieveAll() starts over at the front.
Retrieve(b, len) ==
    IF len < ReadableBytes(b) THEN [b EXCEPT !.reader = @ + len]
    ELSE [b EXCEPT !.reader = kCheapPrepend, !.writer = kCheapPrepend]

-----------------------------------------------------------------------------
(* The users: a connection appends or reads, then writes or takes.         *)

Larger(m, n) == IF m >= n THEN m ELSE n

Fill(b) ==
    /\ b.put <= MaxBytes
    /\ buffer' = b
    /\ peak' = Larger(peak, ReadableBytes(b))
    /\ UNCHANGED taken

AppendBytes(len) == Fill(Append(buffer, len))

\* extrabuf is offered when it is larger than the space in the vector.
ReadBytes(n) ==
    /\ n <= WriteableBytes(buffer) + (IF WriteableBytes(buffer) < ExtraSize THEN ExtraSize ELSE 0)
    /\ Fill(ReadFd(buffer, n))

\* retrieve(): what writeFd has written, or what the message callback takes.
TakeBytes(len) ==
    /\ buffer' = Retrieve(buffer, len)
    /\ taken' = taken + (IF len < ReadableBytes(buffer) THEN len ELSE ReadableBytes(buffer))
    /\ UNCHANGED peak

Init == buffer = NewBuffer /\ taken = 0 /\ peak = 0

Next == \E len \in 1 .. MaxBytes : AppendBytes(len) \/ ReadBytes(len) \/ TakeBytes(len)

Spec == Init /\ [][Next]_vars

-----------------------------------------------------------------------------

\* The indexes keep to the layout Buffer.h draws: prepend area, readable bytes,
\* writeable bytes.  A write never passes the end of the vector.
TypeOK ==
    /\ buffer \in [bytes : [0 .. buffer.size - 1 -> Nat], size : Nat,
                   reader : Nat, writer : Nat, put : Nat]
    /\ kCheapPrepend <= buffer.reader
    /\ buffer.reader <= buffer.writer
    /\ buffer.writer <= buffer.size
    /\ taken \in Nat /\ peak \in Nat

\* The readable bytes are those put in and not taken out, in their order,
\* through every move, growth and split read.
ReadableInOrder ==
    /\ buffer.put = taken + ReadableBytes(buffer)
    /\ \A k \in buffer.reader .. buffer.writer - 1 :
         buffer.bytes[k] = taken + 1 + k - buffer.reader

\* The vector grows with the bytes that wait and not with the bytes that pass:
\* it never exceeds twice the most that was readable at once.
GrowthBounded ==
    buffer.size <= kCheapPrepend + Larger(kInitialSize, 2 * peak)

===============================================================================
