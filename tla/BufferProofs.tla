----------------------------- MODULE BufferProofs -----------------------------
(* The layout, the content and the growth of a Buffer, for every size of its  *)
(* parts and every sequence of operations.                                    *)
EXTENDS Buffer, TLAPS

\* A buffer keeps to its layout ...
Layout(b) ==
  /\ b \in [bytes : [0 .. b.size - 1 -> Nat], size : Nat,
            reader : Nat, writer : Nat, put : Nat]
  /\ kCheapPrepend <= b.reader
  /\ b.reader <= b.writer
  /\ b.writer <= b.size

\* ... and its readable bytes are those after the first t.
Holds(b, t) ==
  /\ Layout(b)
  /\ b.put = t + ReadableBytes(b)
  /\ \A k \in b.reader .. b.writer - 1 : b.bytes[k] = t + 1 + k - b.reader

\* What an operation that adds len bytes to b leads to: c grew, if at all, to
\* no more than twice what is readable then.
Extends(c, b, t, len) ==
  /\ Holds(c, t)
  /\ ReadableBytes(c) = ReadableBytes(b) + len
  /\ c.size = b.size \/ c.size <= kCheapPrepend + 2 * ReadableBytes(c)

-----------------------------------------------------------------------------

\* Writing into the space that is there continues the content.
LEMMA WrittenExtends ==
  ASSUME NEW b, NEW t \in Nat, Holds(b, t), NEW len \in Nat, len <= WriteableBytes(b)
  PROVE  Extends(Written(b, len), b, t, len) /\ Written(b, len).size = b.size
<1> DEFINE c == Written(b, len)
           bytes == WrittenBytes(b, len)
<1>1. /\ b \in [bytes : [0 .. b.size - 1 -> Nat], size : Nat,
               reader : Nat, writer : Nat, put : Nat]
      /\ kCheapPrepend <= b.reader /\ b.reader <= b.writer /\ b.writer <= b.size
      /\ b.put = t + (b.writer - b.reader)
      /\ kCheapPrepend \in Nat
      /\ b.writer + len <= b.size
  BY BufferAssumption DEF Holds, Layout, ReadableBytes, WriteableBytes
<1>2. /\ c.bytes = bytes /\ c.size = b.size /\ c.reader = b.reader
      /\ c.writer = b.writer + len /\ c.put = b.put + len
  BY <1>1 DEF Written
<1>3. bytes \in [0 .. b.size - 1 -> Nat]
  <2>1. ASSUME NEW k \in 0 .. b.size - 1
        PROVE  b.bytes[k] \in Nat /\ (k >= b.writer => b.put + 1 + k - b.writer \in Nat)
    <3>1. b.bytes[k] \in Nat
      BY <1>1
    <3>2. b.put \in Nat /\ b.writer \in Nat /\ k \in Nat
      BY <1>1
    <3>3. QED
      BY <3>1, <3>2
  <2>2. ASSUME NEW k \in 0 .. b.size - 1
        PROVE  (IF k < b.writer \/ k >= b.writer + len THEN b.bytes[k]
                ELSE b.put + 1 + k - b.writer) \in Nat
    BY <1>1, <2>1
  <2>3. QED
    BY <2>2 DEF WrittenBytes
<1>4. Layout(c)
  <2>1. b.writer + len \in Nat /\ b.put + len \in Nat
    BY <1>1
  <2>2. c \in [bytes : [0 .. b.size - 1 -> Nat], size : Nat,
               reader : Nat, writer : Nat, put : Nat]
    BY <1>1, <1>3, <2>1 DEF Written
  <2>3. QED
    BY <1>1, <1>2, <2>2 DEF Layout
<1>5. \A k \in b.reader .. b.writer + len - 1 : bytes[k] = t + 1 + k - b.reader
  <2> SUFFICES ASSUME NEW k \in b.reader .. b.writer + len - 1
               PROVE  bytes[k] = t + 1 + k - b.reader
    OBVIOUS
  <2>1. bytes[k] = IF k < b.writer THEN b.bytes[k] ELSE b.put + 1 + k - b.writer
    BY <1>1 DEF WrittenBytes
  <2>2. CASE k < b.writer
    BY <1>1, <2>1, <2>2 DEF Holds
  <2>3. CASE k >= b.writer
    BY <1>1, <2>1, <2>3
  <2>4. QED
    BY <1>1, <2>2, <2>3
<1>6. ReadableBytes(c) = ReadableBytes(b) + len /\ c.put = t + ReadableBytes(c)
  <2> HIDE DEF bytes, c
  <2> QED BY <1>1, <1>2 DEF ReadableBytes
<1> HIDE DEF bytes, c
<1>7. Holds(c, t)
  <2>1. \A k \in c.reader .. c.writer - 1 : c.bytes[k] = t + 1 + k - c.reader
    <3> SUFFICES ASSUME NEW k \in c.reader .. c.writer - 1
                 PROVE  c.bytes[k] = t + 1 + k - c.reader
      OBVIOUS
    <3>1. k \in b.reader .. b.writer + len - 1
      BY <1>1, <1>2
    <3>2. bytes[k] = t + 1 + k - b.reader
      BY <1>5, <3>1
    <3>3. QED
      BY <1>2, <3>2
  <2>2. QED
    BY <1>4, <1>6, <2>1 DEF Holds
<1>8. QED
  BY <1>2, <1>6, <1>7 DEF Extends, c

\* Growing the vector keeps the content.
LEMMA ResizedHolds ==
  ASSUME NEW b, NEW t \in Nat, Holds(b, t), NEW n \in Nat, n >= b.size
  PROVE  /\ Holds(Resized(b, n), t)
         /\ Resized(b, n).size = n
         /\ Resized(b, n).reader = b.reader /\ Resized(b, n).writer = b.writer
<1> DEFINE bytes == ResizedBytes(b, n)
<1>1. /\ b \in [bytes : [0 .. b.size - 1 -> Nat], size : Nat,
               reader : Nat, writer : Nat, put : Nat]
      /\ kCheapPrepend <= b.reader /\ b.reader <= b.writer /\ b.writer <= b.size
  BY DEF Holds, Layout
<1> DEFINE c == Resized(b, n)
<1>2. /\ c.bytes = bytes /\ c.size = n /\ c.reader = b.reader
      /\ c.writer = b.writer /\ c.put = b.put
  BY <1>1 DEF Resized
<1>3. bytes \in [0 .. n - 1 -> Nat]
  BY <1>1 DEF ResizedBytes
<1>4. \A k \in b.reader .. b.writer - 1 : bytes[k] = t + 1 + k - b.reader
  BY <1>1, BufferAssumption DEF Holds, ResizedBytes
<1>5. c \in [bytes : [0 .. n - 1 -> Nat], size : Nat,
             reader : Nat, writer : Nat, put : Nat]
  BY <1>1, <1>3 DEF Resized
<1> HIDE DEF bytes, c
<1>6. Holds(c, t)
  BY <1>1, <1>2, <1>4, <1>5 DEF Holds, Layout, ReadableBytes
<1>7. QED
  BY <1>2, <1>6 DEF c

\* Moving the readable bytes to the front keeps the content.
LEMMA MovedDownHolds ==
  ASSUME NEW b, NEW t \in Nat, Holds(b, t)
  PROVE  /\ Holds(MovedDown(b), t)
         /\ MovedDown(b).size = b.size
         /\ MovedDown(b).reader = kCheapPrepend
         /\ MovedDown(b).writer = kCheapPrepend + ReadableBytes(b)
<1> DEFINE end == kCheapPrepend + (b.writer - b.reader)
           bytes == MovedBytes(b)
<1>1. /\ b \in [bytes : [0 .. b.size - 1 -> Nat], size : Nat,
               reader : Nat, writer : Nat, put : Nat]
      /\ kCheapPrepend <= b.reader /\ b.reader <= b.writer /\ b.writer <= b.size
      /\ kCheapPrepend \in Nat /\ end \in Nat /\ end <= b.writer
  BY BufferAssumption DEF Holds, Layout
<1> DEFINE c == MovedDown(b)
<1>2. /\ c.bytes = bytes /\ c.size = b.size /\ c.reader = kCheapPrepend
      /\ c.writer = end /\ c.put = b.put
  BY <1>1 DEF MovedDown, ReadableBytes
<1>3. bytes \in [0 .. b.size - 1 -> Nat]
  <2>1. ASSUME NEW k \in 0 .. b.size - 1
        PROVE  (IF k < kCheapPrepend \/ k >= end THEN b.bytes[k]
                ELSE b.bytes[b.reader + k - kCheapPrepend]) \in Nat
    <3>1. b.bytes[k] \in Nat
      BY <1>1
    <3>2. CASE kCheapPrepend <= k /\ k < end
      <4>1. b.reader + k - kCheapPrepend \in 0 .. b.size - 1
        BY <1>1, <3>2
      <4>2. b.bytes[b.reader + k - kCheapPrepend] \in Nat
        BY <1>1, <4>1
      <4>3. QED
        BY <3>1, <4>2
    <3> HIDE DEF end
    <3>3. QED
      BY <1>1, <3>1, <3>2
  <2>2. bytes = [k \in 0 .. b.size - 1 |->
                   IF k < kCheapPrepend \/ k >= end THEN b.bytes[k]
                   ELSE b.bytes[b.reader + k - kCheapPrepend]]
    BY DEF MovedBytes, ReadableBytes
  <2> HIDE DEF end, bytes
  <2>3. QED
    BY <2>1, <2>2
<1>4. \A k \in kCheapPrepend .. end - 1 : bytes[k] = t + 1 + k - kCheapPrepend
  <2> SUFFICES ASSUME NEW k \in kCheapPrepend .. end - 1
               PROVE  bytes[k] = t + 1 + k - kCheapPrepend
    OBVIOUS
  <2>1. b.reader + k - kCheapPrepend \in b.reader .. b.writer - 1
    BY <1>1
  <2>2. bytes[k] = b.bytes[b.reader + k - kCheapPrepend]
    BY <1>1 DEF MovedBytes, ReadableBytes
  <2>3. ASSUME NEW q \in b.reader .. b.writer - 1
        PROVE  b.bytes[q] = t + 1 + q - b.reader
    BY DEF Holds
  <2>4. b.bytes[b.reader + k - kCheapPrepend] = t + 1 + (b.reader + k - kCheapPrepend) - b.reader
    BY <2>1, <2>3
  <2>5. b.reader \in Nat /\ k \in Int /\ t \in Nat /\ kCheapPrepend \in Nat
    BY <1>1
  <2> HIDE DEF bytes
  <2>6. QED
    BY <2>2, <2>4, <2>5
<1>5. end - kCheapPrepend = b.writer - b.reader
  BY <1>1
<1>6. c \in [bytes : [0 .. b.size - 1 -> Nat], size : Nat,
             reader : Nat, writer : Nat, put : Nat]
  BY <1>1, <1>3 DEF MovedDown, ReadableBytes
<1> HIDE DEF bytes, c
<1>7. Holds(c, t)
  BY <1>1, <1>2, <1>4, <1>5, <1>6 DEF Holds, Layout, ReadableBytes
<1>8. QED
  BY <1>2, <1>7 DEF c, ReadableBytes

\* makeSpace() makes enough space, and grows the vector only when what is free
\* is less than what is asked for.
LEMMA EnsureHolds ==
  ASSUME NEW b, NEW t \in Nat, Holds(b, t), NEW len \in Nat
  PROVE  LET c == EnsureWriteableBytes(b, len)
         IN  /\ Holds(c, t)
             /\ ReadableBytes(c) = ReadableBytes(b)
             /\ len <= WriteableBytes(c)
             /\ c.size = b.size \/ c.size <= kCheapPrepend + 2 * (ReadableBytes(b) + len)
<1>1. /\ b.size \in Nat /\ b.reader \in Nat /\ b.writer \in Nat
      /\ kCheapPrepend <= b.reader /\ b.reader <= b.writer /\ b.writer <= b.size
      /\ kCheapPrepend \in Nat
  BY BufferAssumption DEF Holds, Layout
<1>2. CASE WriteableBytes(b) >= len
  BY <1>1, <1>2 DEF EnsureWriteableBytes, WriteableBytes
<1>3. CASE /\ WriteableBytes(b) < len
           /\ WriteableBytes(b) + PrependableBytes(b) < len + kCheapPrepend
  <2>1. EnsureWriteableBytes(b, len) = Resized(b, b.writer + len)
    BY <1>1, <1>3 DEF EnsureWriteableBytes, MakeSpace
  <2>2. b.writer + len \in Nat /\ b.writer + len >= b.size
    BY <1>1, <1>3 DEF WriteableBytes
  <2>3. QED
    BY <1>1, <1>3, <2>1, <2>2, ResizedHolds
       DEF ReadableBytes, WriteableBytes, PrependableBytes
<1>4. CASE /\ WriteableBytes(b) < len
           /\ WriteableBytes(b) + PrependableBytes(b) >= len + kCheapPrepend
  <2>1. EnsureWriteableBytes(b, len) = MovedDown(b)
    BY <1>1, <1>4 DEF EnsureWriteableBytes, MakeSpace, WriteableBytes, PrependableBytes
  <2>2. QED
    BY <1>1, <1>4, <2>1, MovedDownHolds
       DEF ReadableBytes, WriteableBytes, PrependableBytes
<1>5. QED
  BY <1>1, <1>2, <1>3, <1>4 DEF WriteableBytes, PrependableBytes

\* append() extends the content by what it is given.
LEMMA AppendExtends ==
  ASSUME NEW b, NEW t \in Nat, Holds(b, t), NEW len \in Nat
  PROVE  Extends(Append(b, len), b, t, len)
<1> DEFINE c == EnsureWriteableBytes(b, len)
<1>1. /\ Holds(c, t)
      /\ ReadableBytes(c) = ReadableBytes(b)
      /\ len <= WriteableBytes(c)
      /\ c.size = b.size \/ c.size <= kCheapPrepend + 2 * (ReadableBytes(b) + len)
  BY EnsureHolds
<1> HIDE DEF c
<1>2. Extends(Written(c, len), c, t, len) /\ Written(c, len).size = c.size
  BY <1>1, WrittenExtends
<1>3. Append(b, len) = Written(c, len)
  BY DEF Append, c
<1>4. QED
  BY <1>1, <1>2, <1>3 DEF Extends

\* readFd() extends the content by what it has read, though in two parts.
LEMMA ReadFdExtends ==
  ASSUME NEW b, NEW t \in Nat, Holds(b, t), NEW n \in Nat
  PROVE  Extends(ReadFd(b, n), b, t, n)
<1>1. /\ b.size \in Nat /\ b.writer \in Nat /\ b.reader \in Nat
      /\ b.writer <= b.size
      /\ WriteableBytes(b) \in Nat /\ ReadableBytes(b) \in Int
  BY DEF Holds, Layout, WriteableBytes, ReadableBytes
<1>2. CASE n <= WriteableBytes(b)
  BY <1>2, WrittenExtends DEF ReadFd
<1>3. CASE n > WriteableBytes(b)
  <2> DEFINE full == Written(b, WriteableBytes(b))
             rest == n - WriteableBytes(b)
  <2>1. Extends(full, b, t, WriteableBytes(b)) /\ full.size = b.size
    BY <1>1, WrittenExtends
  <2>2. rest \in Nat /\ WriteableBytes(b) + rest = n
    BY <1>1, <1>3
  <2>3. ReadFd(b, n) = Append(full, rest)
    BY <1>1, <1>3 DEF ReadFd
  <2> HIDE DEF full, rest
  <2>4. Extends(Append(full, rest), full, t, rest)
    BY <2>1, <2>2, AppendExtends DEF Extends
  <2>5. QED
    BY <1>1, <2>1, <2>2, <2>3, <2>4 DEF Extends
<1>4. QED
  BY <1>1, <1>2, <1>3

\* retrieve() leaves the content after the bytes it takes.
LEMMA RetrieveHolds ==
  ASSUME NEW b, NEW t \in Nat, Holds(b, t), NEW len \in Nat,
         NEW n, n = IF len < ReadableBytes(b) THEN len ELSE ReadableBytes(b)
  PROVE  /\ Holds(Retrieve(b, len), t + n)
         /\ n \in Nat
         /\ ReadableBytes(Retrieve(b, len)) <= ReadableBytes(b)
         /\ Retrieve(b, len).size = b.size
<1>1. /\ b \in [bytes : [0 .. b.size - 1 -> Nat], size : Nat,
               reader : Nat, writer : Nat, put : Nat]
      /\ kCheapPrepend <= b.reader /\ b.reader <= b.writer /\ b.writer <= b.size
      /\ b.put = t + (b.writer - b.reader)
      /\ kCheapPrepend \in Nat
  BY BufferAssumption DEF Holds, Layout, ReadableBytes
<1>2. CASE len < ReadableBytes(b)
  <2> DEFINE c == [b EXCEPT !.reader = @ + len]
  <2>1. b.reader + len \in Nat /\ b.reader + len <= b.writer
    BY <1>1, <1>2 DEF ReadableBytes
  <2>2. /\ c.bytes = b.bytes /\ c.size = b.size /\ c.reader = b.reader + len
        /\ c.writer = b.writer /\ c.put = b.put
    BY <1>1
  <2>3. c \in [bytes : [0 .. b.size - 1 -> Nat], size : Nat,
               reader : Nat, writer : Nat, put : Nat]
    BY <1>1, <2>1
  <2>4. \A k \in b.reader + len .. b.writer - 1 :
           b.bytes[k] = t + len + 1 + k - (b.reader + len)
    <3> SUFFICES ASSUME NEW k \in b.reader + len .. b.writer - 1
                 PROVE  b.bytes[k] = t + len + 1 + k - (b.reader + len)
      OBVIOUS
    <3>1. k \in b.reader .. b.writer - 1
      BY <1>1
    <3>2. b.bytes[k] = t + 1 + k - b.reader
      BY <3>1 DEF Holds
    <3>3. QED
      BY <1>1, <3>1, <3>2
  <2>5. Retrieve(b, len) = c /\ n = len
    BY <1>2 DEF Retrieve
  <2> HIDE DEF c
  <2>6. Holds(c, t + len)
    <3>1. \A k \in c.reader .. c.writer - 1 : c.bytes[k] = t + len + 1 + k - c.reader
      BY <2>2, <2>4
    <3>2. c.put = t + len + ReadableBytes(c)
      BY <1>1, <2>2 DEF ReadableBytes
    <3>3. Layout(c)
      BY <1>1, <2>1, <2>2, <2>3 DEF Layout
    <3>4. QED
      BY <3>1, <3>2, <3>3 DEF Holds
  <2>7. ReadableBytes(c) <= ReadableBytes(b)
    BY <1>1, <2>1, <2>2 DEF ReadableBytes
  <2>8. QED
    BY <2>2, <2>5, <2>6, <2>7
<1>3. CASE ~ len < ReadableBytes(b)
  <2> DEFINE c == [b EXCEPT !.reader = kCheapPrepend, !.writer = kCheapPrepend]
  <2>1. /\ c.bytes = b.bytes /\ c.size = b.size /\ c.reader = kCheapPrepend
        /\ c.writer = kCheapPrepend /\ c.put = b.put
    BY <1>1
  <2>2. c \in [bytes : [0 .. b.size - 1 -> Nat], size : Nat,
               reader : Nat, writer : Nat, put : Nat]
    BY <1>1
  <2>3. Retrieve(b, len) = c /\ n = b.writer - b.reader
    BY <1>3 DEF Retrieve, ReadableBytes
  <2> HIDE DEF c
  <2>4. Holds(c, t + n)
    BY <1>1, <2>1, <2>2, <2>3 DEF Holds, Layout, ReadableBytes
  <2>5. QED
    BY <1>1, <2>1, <2>3, <2>4 DEF ReadableBytes
<1>4. QED
  BY <1>2, <1>3

-----------------------------------------------------------------------------

\* The inductive invariant: peak is what it is called.
BufferInv ==
  /\ Holds(buffer, taken)
  /\ taken \in Nat /\ peak \in Nat
  /\ ReadableBytes(buffer) <= peak
  /\ GrowthBounded

\* A new buffer is empty and as large as it was asked for.
LEMMA InitInv == Init => BufferInv
<1> SUFFICES ASSUME Init PROVE BufferInv
  OBVIOUS
<1> DEFINE n == kCheapPrepend + kInitialSize
<1>1. n \in Nat /\ kCheapPrepend <= n /\ kCheapPrepend \in Nat /\ kInitialSize \in Nat
  BY BufferAssumption
<1>2. buffer \in [bytes : [0 .. n - 1 -> Nat], size : Nat,
                  reader : Nat, writer : Nat, put : Nat]
  BY <1>1 DEF Init, NewBuffer
<1>3. /\ buffer.size = n /\ buffer.put = 0
      /\ buffer.reader = kCheapPrepend /\ buffer.writer = kCheapPrepend
      /\ taken = 0 /\ peak = 0
  BY DEF Init, NewBuffer
<1> HIDE DEF n
<1>4. Holds(buffer, taken)
  BY <1>1, <1>2, <1>3 DEF Holds, Layout, ReadableBytes
<1>5. GrowthBounded
  BY <1>1, <1>3 DEF GrowthBounded, Larger, n
<1>6. QED
  BY <1>1, <1>3, <1>4, <1>5 DEF BufferInv, ReadableBytes

\* The arithmetic of growth: the bound rises with the peak.
LEMMA BoundRises ==
  ASSUME NEW c \in Nat, NEW m \in Nat, NEW old \in Nat, NEW new \in Nat,
         NEW p \in Nat, NEW q \in Nat, NEW r \in Nat, p <= q, r <= q,
         old <= c + Larger(m, 2 * p),
         new = old \/ new <= c + 2 * r
  PROVE  new <= c + Larger(m, 2 * q)
<1>1. Larger(m, 2 * p) <= Larger(m, 2 * q) /\ 2 * r <= Larger(m, 2 * q)
  BY DEF Larger
<1>2. Larger(m, 2 * p) \in Nat /\ Larger(m, 2 * q) \in Nat
  BY DEF Larger
<1>3. QED
  BY <1>1, <1>2

\* What extends the content keeps the invariant.
LEMMA FillInv ==
  ASSUME BufferInv, NEW b, NEW len \in Nat, Extends(b, buffer, taken, len), Fill(b)
  PROVE  BufferInv'
<1>1. /\ Holds(b, taken) /\ b.size \in Nat /\ ReadableBytes(b) \in Nat
      /\ b.size = buffer.size \/ b.size <= kCheapPrepend + 2 * ReadableBytes(b)
  BY DEF Extends, Holds, Layout, ReadableBytes
<1>2. buffer' = b /\ taken' = taken /\ peak' = Larger(peak, ReadableBytes(b))
  BY DEF Fill
<1>3. /\ taken \in Nat /\ peak \in Nat
      /\ kCheapPrepend \in Nat /\ kInitialSize \in Nat
      /\ buffer.size <= kCheapPrepend + Larger(kInitialSize, 2 * peak)
  BY BufferAssumption DEF BufferInv, GrowthBounded
<1>4. peak' \in Nat /\ ReadableBytes(b) <= peak' /\ peak <= peak'
  BY <1>1, <1>2, <1>3 DEF Larger
<1>5. b.size <= kCheapPrepend + Larger(kInitialSize, 2 * peak')
  <2>1. buffer.size \in Nat
    BY DEF BufferInv, Holds, Layout
  <2>2. QED
    BY <1>1, <1>3, <1>4, <2>1, BoundRises
<1>6. QED
  BY <1>1, <1>2, <1>3, <1>4, <1>5 DEF BufferInv, GrowthBounded, Holds, Layout, ReadableBytes

\* Every operation keeps the invariant.
LEMMA NextInv ==
  ASSUME BufferInv, [Next]_vars
  PROVE  BufferInv'
<1>1. ASSUME NEW len \in 1 .. MaxBytes, AppendBytes(len)
      PROVE  BufferInv'
  <2>1. len \in Nat /\ Extends(Append(buffer, len), buffer, taken, len)
    BY <1>1, BufferAssumption, AppendExtends DEF BufferInv
  <2>2. QED
    BY <1>1, <2>1, FillInv DEF AppendBytes
<1>2. ASSUME NEW len \in 1 .. MaxBytes, ReadBytes(len)
      PROVE  BufferInv'
  <2>1. len \in Nat /\ Extends(ReadFd(buffer, len), buffer, taken, len)
    BY <1>2, BufferAssumption, ReadFdExtends DEF BufferInv
  <2>2. QED
    BY <1>2, <2>1, FillInv DEF ReadBytes
<1>3. ASSUME NEW len \in 1 .. MaxBytes, TakeBytes(len)
      PROVE  BufferInv'
  <2> DEFINE n == IF len < ReadableBytes(buffer) THEN len ELSE ReadableBytes(buffer)
             b == Retrieve(buffer, len)
  <2>1. buffer' = b /\ taken' = taken + n /\ peak' = peak
    BY <1>3 DEF TakeBytes
  <2>2. /\ Holds(b, taken + n) /\ n \in Nat
        /\ ReadableBytes(b) <= ReadableBytes(buffer)
        /\ b.size = buffer.size
    <3>1. len \in Nat /\ Holds(buffer, taken) /\ taken \in Nat
      BY BufferAssumption DEF BufferInv
    <3>2. QED
      BY <3>1, RetrieveHolds
  <2> HIDE DEF b, n
  <2>3. ReadableBytes(b) <= peak
    BY <2>2 DEF BufferInv, Holds, Layout, ReadableBytes
  <2>4. QED
    BY <2>1, <2>2, <2>3 DEF BufferInv, GrowthBounded, Holds, Layout, ReadableBytes
<1>4. CASE UNCHANGED vars
  BY <1>4 DEF vars, BufferInv, Holds, Layout, ReadableBytes, GrowthBounded
<1>5. QED
  BY <1>1, <1>2, <1>3, <1>4 DEF Next

\* The three properties of the runs follow from the invariant.
LEMMA InvImplies == BufferInv => TypeOK /\ ReadableInOrder /\ GrowthBounded
  BY DEF BufferInv, Holds, Layout, TypeOK, ReadableInOrder

\* The indexes keep to their order and inside the vector, whatever is appended,
\* read and retrieved: no write of append() or readFd() passes the end.
THEOREM IndexesInRange == Spec => []TypeOK
  BY InitInv, NextInv, InvImplies, PTL DEF Spec

\* What is readable is what was put in and not taken out, in its order, through
\* every makeSpace() and every read in two parts.
THEOREM ContentInOrder == Spec => []ReadableInOrder
  BY InitInv, NextInv, InvImplies, PTL DEF Spec

\* makeSpace() moves before it grows: the vector stays within twice the most
\* that was readable at once.
THEOREM VectorBounded == Spec => []GrowthBounded
  BY InitInv, NextInv, InvImplies, PTL DEF Spec

==============================================================================
