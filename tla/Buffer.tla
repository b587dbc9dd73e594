------------------------------- MODULE Buffer -------------------------------
(***************************************************************************)
(* One Buffer: a vector with a read and a write index.  Indices count from *)
(* 0 as in the code, so the byte at index i is buffer[i + 1].  A Buffer is *)
(* used by the loop of its connection only: its operations are atomic.     *)
(***************************************************************************)
EXTENDS Naturals, Sequences

CONSTANTS
  Byte,             \* the values of a char
  Zero,             \* what the vector fills new elements with
  kCheapPrepend,
  kInitialSize,
  ExtraSize,        \* sizeof(extrabuf) in readFd
  Chunks,           \* the byte strings that come from users or descriptors
  MaxBytes          \* bound: the most bytes a Buffer is asked to hold

ASSUME BufferAssumption ==
  /\ Zero \in Byte
  /\ kCheapPrepend \in Nat
  /\ kInitialSize \in Nat
  /\ ExtraSize \in Nat
  /\ Chunks \subseteq Seq(Byte)
  /\ MaxBytes \in Nat

VARIABLES
  buffer,           \* buffer_
  readerIndex,      \* readerIndex_
  writerIndex,      \* writerIndex_
  moved             \* the bytes that the last call put in or handed out

vars == <<buffer, readerIndex, writerIndex, moved>>

ReadableBytes == writerIndex - readerIndex
WritableBytes == Len(buffer) - writerIndex

\* The bytes of s from index from up to, not including, index to.
Bytes(s, from, to) == SubSeq(s, from + 1, to)

\* len bytes from peek() on.
Peek(len) == Bytes(buffer, readerIndex, readerIndex + len)

Contents == Bytes(buffer, readerIndex, writerIndex)

TypeOK ==
  /\ buffer \in Seq(Byte)
  /\ readerIndex \in 0..Len(buffer)
  /\ writerIndex \in 0..Len(buffer)
  /\ moved \in Seq(Byte)

Init ==
  /\ buffer = [i \in 1..(kCheapPrepend + kInitialSize) |-> Zero]
  /\ readerIndex = kCheapPrepend
  /\ writerIndex = kCheapPrepend
  /\ moved = <<>>

-----------------------------------------------------------------------------

\* std::copy of data into buf from index at on.
Copy(buf, at, data) ==
  [i \in 1..Len(buf) |->
     IF at < i /\ i <= at + Len(data) THEN data[i - at] ELSE buf[i]]

\* std::vector::resize to a size that is not smaller.
Resize(buf, size) ==
  [i \in 1..size |-> IF i <= Len(buf) THEN buf[i] ELSE Zero]

(***************************************************************************)
(* append(data) to a vector buf with indices r and w.  The three cases are *)
(* those of ensureWritableBytes and makeSpace: enough room behind the      *)
(* writer, too little room anywhere, and room once the readable bytes have *)
(* been moved to the front.                                                *)
(***************************************************************************)
Store(buf, r, w, data) ==
  /\ buffer' = Copy(buf, w, data)
  /\ readerIndex' = r
  /\ writerIndex' = w + Len(data)

\* makeSpace() that forgets that kCheapPrepend bytes stay in front.
AppendTo_NoPrepend(buf, r, w, data) ==
  IF Len(buf) - w >= Len(data) THEN Store(buf, r, w, data)
  ELSE IF (Len(buf) - w) + r < Len(data)
         THEN Store(Resize(buf, w + Len(data)), r, w, data)
         ELSE Store(Copy(buf, kCheapPrepend, Bytes(buf, r, w)),
                    kCheapPrepend, kCheapPrepend + (w - r), data)

\* makeSpace() that always grows the vector.
AppendTo_Grows(buf, r, w, data) ==
  IF Len(buf) - w >= Len(data) THEN Store(buf, r, w, data)
  ELSE Store(Resize(buf, w + Len(data)), r, w, data)

AppendTo(buf, r, w, data) ==
  IF Len(buf) - w >= Len(data) THEN Store(buf, r, w, data)
  ELSE IF (Len(buf) - w) + r < Len(data) + kCheapPrepend
         THEN Store(Resize(buf, w + Len(data)), r, w, data)
         ELSE Store(Copy(buf, kCheapPrepend, Bytes(buf, r, w)),
                    kCheapPrepend, kCheapPrepend + (w - r), data)

AppendData(data) ==
  /\ ReadableBytes + Len(data) <= MaxBytes
  /\ AppendTo(buffer, readerIndex, writerIndex, data)
  /\ moved' = data

\* The most bytes readv can return.
ReadLimit == IF WritableBytes < ExtraSize THEN WritableBytes + ExtraSize
                                          ELSE WritableBytes

\* readFd that leaves writerIndex_ where it was before it appends extrabuf.
ReadFd_StaleWriter(data) ==
  /\ Len(data) <= ReadLimit
  /\ ReadableBytes + Len(data) <= MaxBytes
  /\ IF Len(data) <= WritableBytes
       THEN Store(buffer, readerIndex, writerIndex, data)
       ELSE AppendTo(Copy(buffer, writerIndex, data), readerIndex, writerIndex,
                     Bytes(data, WritableBytes, Len(data)))
  /\ moved' = data

\* readFd, when readv returns data.  An error leaves the Buffer alone.
ReadFd(data) ==
  /\ Len(data) <= ReadLimit
  /\ ReadableBytes + Len(data) <= MaxBytes
  /\ IF Len(data) <= WritableBytes
       THEN Store(buffer, readerIndex, writerIndex, data)
       ELSE AppendTo(Copy(buffer, writerIndex, data), readerIndex, Len(buffer),
                     Bytes(data, WritableBytes, Len(data)))
  /\ moved' = data

\* writeFd, when write takes n bytes.  Its caller calls retrieve(n).
WriteFd(n) ==
  /\ moved' = Peek(n)
  /\ UNCHANGED <<buffer, readerIndex, writerIndex>>

\* The indices after retrieve(len), which calls retrieveAll() at the end.
MoveReader(len) ==
  IF len < ReadableBytes
    THEN readerIndex' = readerIndex + len /\ UNCHANGED writerIndex
    ELSE readerIndex' = kCheapPrepend /\ writerIndex' = kCheapPrepend

Retrieve(len) ==
  /\ MoveReader(len)
  /\ UNCHANGED <<buffer, moved>>

RetrieveAsString(len) ==
  /\ moved' = Peek(len)
  /\ MoveReader(len)
  /\ UNCHANGED buffer

Next == \/ \E data \in Chunks : AppendData(data) \/ ReadFd(data)
        \/ \E n \in 0..MaxBytes :
             \/ Retrieve(n)
             \/ n <= ReadableBytes /\ (WriteFd(n) \/ RetrieveAsString(n))

Spec == Init /\ [][Next]_vars

-----------------------------------------------------------------------------
(* Properties                                                              *)

\* The indices stay in order and inside the vector, so no copy runs over the
\* end of it, and the kCheapPrepend bytes in front are never given away.
IndicesInOrder ==
  /\ kCheapPrepend <= readerIndex
  /\ readerIndex <= writerIndex
  /\ writerIndex <= Len(buffer)

\* The vector grows only when the bytes it must hold, with kCheapPrepend in
\* front, do not fit: space that retrieve() freed is always used first.
GrowsOnlyWhenFull ==
  [][Len(buffer') > Len(buffer)
       => kCheapPrepend + Len(Contents') > Len(buffer)]_vars

\* However its bytes are moved and its vector grown, a Buffer is a queue.
BQ == INSTANCE ByteQueue WITH bytes <- Contents

RefinesByteQueue == BQ!Spec
=============================================================================
