---------------------------- MODULE BufferProofs ----------------------------
(***************************************************************************)
(* Proofs about Buffer, for any sizes, any byte strings and a vector of    *)
(* any length: its indices stay in order and inside the vector, it grows   *)
(* only when it is full, and it implements ByteQueue.                      *)
(***************************************************************************)
EXTENDS Buffer, Integers, TLAPS, SequenceTheorems

-----------------------------------------------------------------------------
(* Sequences                                                               *)

LEMMA FunctionIsSeq ==
  ASSUME NEW S, NEW n \in Nat, NEW f \in [1..n -> S]
  PROVE  f \in Seq(S) /\ Len(f) = n
<1>1. f \in Seq(S)
  BY SeqDef
<1>2. Len(f) \in Nat /\ DOMAIN f = 1..Len(f)
  BY <1>1, LenProperties
<1> QED
  BY <1>1, <1>2

\* The bytes between two indices.
LEMMA BytesBetween ==
  ASSUME NEW s \in Seq(Byte), NEW r \in Nat, NEW w \in Nat,
         r <= w, w <= Len(s)
  PROVE  /\ Bytes(s, r, w) \in Seq(Byte)
         /\ Len(Bytes(s, r, w)) = w - r
         /\ \A i \in 1..(w - r) : Bytes(s, r, w)[i] = s[r + i]
<1>1. \A i \in (r + 1)..w : s[i] \in Byte
  BY LenProperties, ElementOfSeq
<1> DEFINE u == Bytes(s, r, w)
<1>2. /\ u \in Seq(Byte)
      /\ Len(u) = IF r + 1 <= w THEN w - (r + 1) + 1 ELSE 0
      /\ \A i \in 1..(w - (r + 1) + 1) : u[i] = s[(r + 1) + i - 1]
  BY <1>1, SubSeqProperties DEF Bytes
<1>3. Len(u) = w - r
  BY <1>2
<1>4. ASSUME NEW i \in 1..(w - r) PROVE u[i] = s[r + i]
  <2>1. i \in 1..(w - (r + 1) + 1) /\ (r + 1) + i - 1 = r + i
    OBVIOUS
  <2> QED
    BY <1>2, <2>1
<1> QED
  BY <1>2, <1>3, <1>4

\* Two neighbouring pieces make one.
LEMMA BytesSplit ==
  ASSUME NEW s \in Seq(Byte), NEW r \in Nat, NEW m \in Nat, NEW w \in Nat,
         r <= m, m <= w, w <= Len(s)
  PROVE  Bytes(s, r, m) \o Bytes(s, m, w) = Bytes(s, r, w)
<1> DEFINE p == Bytes(s, r, m)
           q == Bytes(s, m, w)
           u == Bytes(s, r, w)
<1>0. Len(s) \in Nat /\ m <= Len(s) /\ r <= w
  BY LenProperties
<1>1. p \in Seq(Byte) /\ Len(p) = m - r /\ \A i \in 1..(m - r) : p[i] = s[r + i]
  BY <1>0, BytesBetween
<1>2. q \in Seq(Byte) /\ Len(q) = w - m /\ \A i \in 1..(w - m) : q[i] = s[m + i]
  BY <1>0, BytesBetween
<1>3. u \in Seq(Byte) /\ Len(u) = w - r /\ \A i \in 1..(w - r) : u[i] = s[r + i]
  BY <1>0, BytesBetween
<1> HIDE DEF p, q, u
<1>4. /\ p \o q \in Seq(Byte)
      /\ Len(p \o q) = Len(p) + Len(q)
      /\ \A i \in 1..(Len(p) + Len(q)) :
           (p \o q)[i] = IF i <= Len(p) THEN p[i] ELSE q[i - Len(p)]
  BY <1>1, <1>2, ConcatProperties
<1>5. ASSUME NEW i \in 1..Len(p \o q) PROVE (p \o q)[i] = u[i]
  <2>0. i \in 1..(w - r) /\ i \in 1..(Len(p) + Len(q))
    BY <1>1, <1>2, <1>4
  <2>1. CASE i <= m - r
    <3>1. i \in 1..(m - r)
      BY <2>0, <2>1
    <3> QED
      BY <1>1, <1>3, <1>4, <2>0, <2>1, <3>1
  <2>2. CASE ~(i <= m - r)
    <3>1. i - (m - r) \in 1..(w - m) /\ m + (i - (m - r)) = r + i
      BY <2>0, <2>2
    <3>2. (p \o q)[i] = q[i - (m - r)]
      BY <1>1, <1>4, <2>0, <2>2
    <3>3. q[i - (m - r)] = s[r + i]
      BY <1>2, <3>1
    <3> QED
      BY <1>3, <2>0, <3>2, <3>3
  <2> QED
    BY <2>1, <2>2
<1>6. Len(p \o q) = Len(u)
  BY <1>1, <1>2, <1>3, <1>4
<1>7. p \o q = u
  BY <1>3, <1>4, <1>5, <1>6, SeqEqual
<1> QED
  BY <1>7 DEF p, q, u

LEMMA CopyProperties ==
  ASSUME NEW buf \in Seq(Byte), NEW at \in Nat, NEW data \in Seq(Byte)
  PROVE  /\ Copy(buf, at, data) \in Seq(Byte)
         /\ Len(Copy(buf, at, data)) = Len(buf)
         /\ \A i \in 1..Len(buf) :
              Copy(buf, at, data)[i] =
                IF at < i /\ i <= at + Len(data) THEN data[i - at] ELSE buf[i]
<1>1. Len(buf) \in Nat /\ Len(data) \in Nat
  BY LenProperties
<1>2. ASSUME NEW i \in 1..Len(buf)
      PROVE  (IF at < i /\ i <= at + Len(data) THEN data[i - at] ELSE buf[i])
               \in Byte
  <2>1. CASE at < i /\ i <= at + Len(data)
    <3>1. i - at \in 1..Len(data)
      BY <1>1, <2>1
    <3> QED
      BY <2>1, <3>1, ElementOfSeq
  <2>2. CASE ~(at < i /\ i <= at + Len(data))
    BY <2>2, ElementOfSeq
  <2> QED
    BY <2>1, <2>2
<1>3. Copy(buf, at, data) \in [1..Len(buf) -> Byte]
  BY <1>2 DEF Copy
<1>4. Copy(buf, at, data) \in Seq(Byte) /\ Len(Copy(buf, at, data)) = Len(buf)
  BY <1>1, <1>3, FunctionIsSeq
<1> QED
  BY <1>4 DEF Copy

LEMMA ResizeProperties ==
  ASSUME NEW buf \in Seq(Byte), NEW size \in Nat
  PROVE  /\ Resize(buf, size) \in Seq(Byte)
         /\ Len(Resize(buf, size)) = size
         /\ \A i \in 1..size :
              i <= Len(buf) => Resize(buf, size)[i] = buf[i]
<1>1. Len(buf) \in Nat
  BY LenProperties
<1>2. ASSUME NEW i \in 1..size
      PROVE  (IF i <= Len(buf) THEN buf[i] ELSE Zero) \in Byte
  <2>1. i <= Len(buf) => i \in 1..Len(buf)
    BY <1>1
  <2> QED
    BY <2>1, ElementOfSeq, BufferAssumption
<1>3. Resize(buf, size) \in [1..size -> Byte]
  BY <1>2 DEF Resize
<1>4. Resize(buf, size) \in Seq(Byte) /\ Len(Resize(buf, size)) = size
  BY <1>3, FunctionIsSeq
<1> QED
  BY <1>4 DEF Resize

\* Two vectors that agree between two indices hold the same bytes there.
LEMMA SameBetween ==
  ASSUME NEW s \in Seq(Byte), NEW t \in Seq(Byte),
         NEW r \in Nat, NEW w \in Nat, NEW q \in Nat, NEW v \in Nat,
         r <= w, w <= Len(s), q <= v, v <= Len(t), w - r = v - q,
         \A i \in 1..(w - r) : s[r + i] = t[q + i]
  PROVE  Bytes(s, r, w) = Bytes(t, q, v)
<1> DEFINE x == Bytes(s, r, w)
           y == Bytes(t, q, v)
<1>1. x \in Seq(Byte) /\ Len(x) = w - r /\ \A i \in 1..(w - r) : x[i] = s[r + i]
  BY BytesBetween
<1>2. y \in Seq(Byte) /\ Len(y) = v - q /\ \A i \in 1..(v - q) : y[i] = t[q + i]
  BY BytesBetween
<1> HIDE DEF x, y
<1>3. Len(x) = Len(y) /\ \A i \in 1..Len(x) : x[i] = y[i]
  BY <1>1, <1>2
<1>4. x = y
  BY <1>1, <1>2, <1>3, SeqEqual
<1> QED
  BY <1>4 DEF x, y

LEMMA SameBytes ==
  ASSUME NEW s \in Seq(Byte), NEW t \in Seq(Byte), NEW r \in Nat, NEW w \in Nat,
         r <= w, w <= Len(s), w <= Len(t),
         \A i \in 1..w : r < i => s[i] = t[i]
  PROVE  Bytes(s, r, w) = Bytes(t, r, w)
<1> DEFINE x == Bytes(s, r, w)
           y == Bytes(t, r, w)
<1>1. x \in Seq(Byte) /\ Len(x) = w - r /\ \A i \in 1..(w - r) : x[i] = s[r + i]
  BY BytesBetween
<1>2. y \in Seq(Byte) /\ Len(y) = w - r /\ \A i \in 1..(w - r) : y[i] = t[r + i]
  BY BytesBetween
<1> HIDE DEF x, y
<1>3. ASSUME NEW i \in 1..Len(x) PROVE x[i] = y[i]
  <2>1. i \in 1..(w - r) /\ r + i \in 1..w /\ r < r + i
    BY <1>1
  <2> QED
    BY <1>1, <1>2, <2>1
<1>4. x = y
  BY <1>1, <1>2, <1>3, SeqEqual
<1> QED
  BY <1>4 DEF x, y

\* Bytes copied behind the writer extend what is readable.
LEMMA CopyExtends ==
  ASSUME NEW buf \in Seq(Byte), NEW r \in Nat, NEW w \in Nat,
         NEW data \in Seq(Byte), NEW n \in Nat,
         r <= w, n <= Len(data), w + n <= Len(buf)
  PROVE  Bytes(Copy(buf, w, data), r, w + n)
           = Bytes(buf, r, w) \o Bytes(data, 0, n)
<1> DEFINE c == Copy(buf, w, data)
<1>1. Len(buf) \in Nat /\ Len(data) \in Nat
  BY LenProperties
<1>2. /\ c \in Seq(Byte)
      /\ Len(c) = Len(buf)
      /\ \A i \in 1..Len(buf) :
           c[i] = IF w < i /\ i <= w + Len(data) THEN data[i - w] ELSE buf[i]
  BY CopyProperties
<1> HIDE DEF c
<1>3. w \in Nat /\ w + n \in Nat /\ r <= w /\ w <= w + n /\ w + n <= Len(c)
      /\ w <= Len(buf)
  BY <1>1, <1>2
<1>4. Bytes(c, r, w) \o Bytes(c, w, w + n) = Bytes(c, r, w + n)
  BY <1>2, <1>3, BytesSplit
<1>5. Bytes(c, r, w) = Bytes(buf, r, w)
  <2>1. w <= Len(c) /\ \A i \in 1..w : r < i => c[i] = buf[i]
    BY <1>1, <1>2, <1>3
  <2> QED
    BY <1>2, <1>3, <2>1, SameBytes
<1>6. Bytes(c, w, w + n) = Bytes(data, 0, n)
  <2>1. (w + n) - w = n - 0 /\ 0 \in Nat /\ 0 <= n
    OBVIOUS
  <2>2. ASSUME NEW i \in 1..((w + n) - w) PROVE c[w + i] = data[0 + i]
    <3>1. /\ w + i \in 1..Len(buf)
          /\ w < w + i
          /\ w + i <= w + Len(data)
          /\ (w + i) - w = 0 + i
      BY <1>1, <1>3
    <3> QED
      BY <1>2, <3>1
  <2>3. c \in Seq(Byte)
    BY <1>2
  <2> QED
    BY <1>3, <2>1, <2>2, <2>3, SameBetween, SMTT(30)
<1>7. Bytes(c, r, w + n) = Bytes(buf, r, w) \o Bytes(data, 0, n)
  BY <1>4, <1>5, <1>6, Zenon
<1> QED
  BY <1>7 DEF c

LEMMA BytesAssociate ==
  \A x, y, z \in Seq(Byte) : (x \o y) \o z = x \o (y \o z)
BY ConcatAssociative

LEMMA BytesAll ==
  ASSUME NEW S, NEW s \in Seq(S)
  PROVE  Bytes(s, 0, Len(s)) = s
<1>1. SubSeq(s, 1, Len(s)) = s /\ 0 + 1 = 1
  BY SubSeqFull
<1> QED
  BY <1>1, Zenon DEF Bytes

LEMMA CopyExtendsAll ==
  ASSUME NEW buf \in Seq(Byte), NEW r \in Nat, NEW w \in Nat,
         NEW data \in Seq(Byte), r <= w, w + Len(data) <= Len(buf)
  PROVE  Bytes(Copy(buf, w, data), r, w + Len(data)) = Bytes(buf, r, w) \o data
<1>1. Len(data) \in Nat /\ Bytes(data, 0, Len(data)) = data
  BY LenProperties, BytesAll
<1>2. Bytes(Copy(buf, w, data), r, w + Len(data))
        = Bytes(buf, r, w) \o Bytes(data, 0, Len(data))
  <2>1. \A n \in Nat :
          n <= Len(data) /\ w + n <= Len(buf)
            => Bytes(Copy(buf, w, data), r, w + n)
                 = Bytes(buf, r, w) \o Bytes(data, 0, n)
    BY CopyExtends
  <2>2. Len(data) <= Len(data)
    BY <1>1
  <2> QED
    BY <1>1, <2>1, <2>2, Zenon
<1> QED
  BY <1>1, <1>2, Zenon

-----------------------------------------------------------------------------
(* What append does to the readable bytes                                  *)

\* buf with indices r and w is a vector a Buffer may have.
Fits(buf, r, w) ==
  /\ buf \in Seq(Byte)
  /\ r \in Nat
  /\ w \in Nat
  /\ kCheapPrepend <= r
  /\ r <= w
  /\ w <= Len(buf)

\* The state after a call that added data to the bytes readable in buf.
Holds(buf, r, w, data) ==
  /\ Fits(buffer', readerIndex', writerIndex')
  /\ Contents' = Bytes(buf, r, w) \o data

LEMMA StoreHolds ==
  ASSUME NEW STATE buf, NEW STATE r, NEW STATE w, Fits(buf, r, w),
         NEW STATE data, data \in Seq(Byte), w + Len(data) <= Len(buf),
         Store(buf, r, w, data)
  PROVE  Holds(buf, r, w, data) /\ Len(buffer') = Len(buf)
<1>1. Len(buf) \in Nat /\ Len(data) \in Nat /\ kCheapPrepend \in Nat
  BY LenProperties, BufferAssumption DEF Fits
<1>2. /\ buffer' \in Seq(Byte)
      /\ Len(buffer') = Len(buf)
      /\ buffer' = Copy(buf, w, data)
      /\ readerIndex' = r
      /\ writerIndex' = w + Len(data)
  BY CopyProperties DEF Store, Fits
<1>3. Fits(buffer', readerIndex', writerIndex')
  BY <1>1, <1>2 DEF Fits
<1>4. Bytes(Copy(buf, w, data), r, w + Len(data)) = Bytes(buf, r, w) \o data
  BY CopyExtendsAll DEF Fits
<1>5. Contents' = Bytes(buf, r, w) \o data
  BY <1>2, <1>4, Zenon DEF Contents
<1> QED
  BY <1>2, <1>3, <1>5 DEF Holds

LEMMA AppendHolds ==
  ASSUME NEW STATE buf, NEW STATE r, NEW STATE w, Fits(buf, r, w),
         NEW STATE data, data \in Seq(Byte), AppendTo(buf, r, w, data)
  PROVE  /\ Holds(buf, r, w, data)
         /\ Len(buffer') > Len(buf)
              => kCheapPrepend + (w - r) + Len(data) > Len(buf)
<1>1. Len(buf) \in Nat /\ Len(data) \in Nat /\ kCheapPrepend \in Nat
  BY LenProperties, BufferAssumption DEF Fits
<1>2. CASE Len(buf) - w >= Len(data)
  <2>1. Store(buf, r, w, data) /\ w + Len(data) <= Len(buf)
    BY <1>1, <1>2 DEF AppendTo, Fits
  <2> QED
    BY <1>1, <2>1, StoreHolds
<1>3. CASE /\ ~(Len(buf) - w >= Len(data))
           /\ (Len(buf) - w) + r < Len(data) + kCheapPrepend
  <2> DEFINE b == Resize(buf, w + Len(data))
  <2>1. /\ b \in Seq(Byte)
        /\ Len(b) = w + Len(data)
        /\ \A i \in 1..(w + Len(data)) : i <= Len(buf) => b[i] = buf[i]
    <3>1. buf \in Seq(Byte) /\ w + Len(data) \in Nat
      BY <1>1 DEF Fits
    <3> QED
      BY <3>1, ResizeProperties
  <2>2. Store(b, r, w, data)
    BY <1>3 DEF AppendTo
  <2> HIDE DEF b
  <2>3. Fits(b, r, w)
    BY <1>1, <1>3, <2>1 DEF Fits
  <2>4. Holds(b, r, w, data)
    <3>1. w + Len(data) <= Len(b)
      BY <1>1, <2>1 DEF Fits
    <3> QED
      BY <2>2, <2>3, <3>1, StoreHolds
  <2>5. Bytes(b, r, w) = Bytes(buf, r, w)
    <3>1. \A i \in 1..w : r < i => b[i] = buf[i]
      BY <1>1, <2>1 DEF Fits
    <3> QED
      BY <2>3, <3>1, SameBytes DEF Fits
  <2>6. Holds(buf, r, w, data)
    BY <2>4, <2>5, Zenon DEF Holds
  <2> QED
    BY <1>1, <1>3, <2>6 DEF Fits
<1>4. CASE /\ ~(Len(buf) - w >= Len(data))
           /\ ~((Len(buf) - w) + r < Len(data) + kCheapPrepend)
  <2> DEFINE s == Bytes(buf, r, w)
             b == Copy(buf, kCheapPrepend, s)
             v == kCheapPrepend + (w - r)
  <2>1. s \in Seq(Byte) /\ Len(s) = w - r
    BY <1>1, BytesBetween DEF Fits
  <2>2. Store(b, kCheapPrepend, v, data)
    BY <1>4 DEF AppendTo
  <2>3. b \in Seq(Byte) /\ Len(b) = Len(buf)
    BY <1>1, <2>1, CopyProperties DEF Fits
  <2>4. v \in Nat /\ kCheapPrepend <= v /\ v + Len(data) <= Len(buf)
    BY <1>1, <1>4 DEF Fits
  <2>5. Bytes(b, kCheapPrepend, v) = s
    <3> HIDE DEF s
    <3>1. Len(s) \in Nat /\ kCheapPrepend + Len(s) <= Len(buf) /\ v = kCheapPrepend + Len(s)
      BY <1>1, <2>1, <2>4 DEF Fits
    <3>2. Bytes(b, kCheapPrepend, kCheapPrepend + Len(s))
            = Bytes(buf, kCheapPrepend, kCheapPrepend) \o s
      <4>1. buf \in Seq(Byte) /\ kCheapPrepend <= kCheapPrepend
        BY <1>1 DEF Fits
      <4>2. \A w1 \in Nat, d \in Seq(Byte) :
              w1 <= w1 /\ w1 + Len(d) <= Len(buf)
                => Bytes(Copy(buf, w1, d), w1, w1 + Len(d))
                     = Bytes(buf, w1, w1) \o d
        BY <4>1, CopyExtendsAll
      <4> QED
        BY <1>1, <2>1, <3>1, <4>1, <4>2
    <3>3. Bytes(buf, kCheapPrepend, kCheapPrepend) = <<>>
      BY <1>1, SubSeqEmpty DEF Bytes
    <3>4. <<>> \o s = s
      BY <2>1, ConcatEmptySeq
    <3> QED
      BY <3>1, <3>2, <3>3, <3>4, Zenon
  <2> HIDE DEF s, b, v
  <2>6. Fits(b, kCheapPrepend, v)
    BY <1>1, <2>3, <2>4 DEF Fits
  <2>7. Holds(b, kCheapPrepend, v, data) /\ Len(buffer') = Len(b)
    BY <1>1, <2>2, <2>3, <2>4, <2>6, StoreHolds
  <2>8. Holds(buf, r, w, data)
    BY <2>5, <2>7, Zenon DEF Holds, s
  <2> QED
    BY <1>1, <2>3, <2>7, <2>8
<1> QED
  BY <1>2, <1>3, <1>4

\* What has been read from a descriptor is what append would have added.
LEMMA ReadHolds ==
  ASSUME Fits(buffer, readerIndex, writerIndex),
         NEW data \in Seq(Byte), ReadFd(data)
  PROVE  /\ Holds(buffer, readerIndex, writerIndex, data)
         /\ Len(buffer') > Len(buffer)
              => kCheapPrepend + ReadableBytes + Len(data) > Len(buffer)
<1>1. Len(buffer) \in Nat /\ Len(data) \in Nat /\ kCheapPrepend \in Nat
  BY LenProperties, BufferAssumption DEF Fits
<1>2. CASE Len(data) <= WritableBytes
  <2>1. /\ Store(buffer, readerIndex, writerIndex, data)
        /\ writerIndex + Len(data) <= Len(buffer)
    BY <1>1, <1>2 DEF ReadFd, Fits, WritableBytes
  <2> QED
    BY <1>1, <2>1, StoreHolds
<1>3. CASE ~(Len(data) <= WritableBytes)
  <2> DEFINE k == WritableBytes
             b == Copy(buffer, writerIndex, data)
             rest == Bytes(data, k, Len(data))
  <2>1. k \in Nat /\ k <= Len(data) /\ writerIndex + k = Len(buffer)
    BY <1>1, <1>3 DEF Fits, WritableBytes
  <2>2. b \in Seq(Byte) /\ Len(b) = Len(buffer)
    BY CopyProperties DEF Fits
  <2>3. rest \in Seq(Byte) /\ Len(rest) = Len(data) - k
    <3>1. Len(data) <= Len(data)
      BY <1>1
    <3> HIDE DEF k
    <3> QED
      BY <1>1, <2>1, <3>1, BytesBetween
  <2>4. AppendTo(b, readerIndex, Len(buffer), rest)
    BY <1>3 DEF ReadFd
  <2>5. Bytes(b, readerIndex, Len(buffer))
          = Bytes(buffer, readerIndex, writerIndex) \o Bytes(data, 0, k)
    <3>1. \A n \in Nat :
            n <= Len(data) /\ writerIndex + n <= Len(buffer)
              => Bytes(Copy(buffer, writerIndex, data), readerIndex, writerIndex + n)
                   = Bytes(buffer, readerIndex, writerIndex) \o Bytes(data, 0, n)
      BY CopyExtends DEF Fits
    <3>2. Len(buffer) <= Len(buffer)
      BY <1>1
    <3> HIDE DEF k
    <3> QED
      BY <2>1, <3>1, <3>2, Zenon
  <2>6. Bytes(data, 0, k) \o rest = data
    <3>1. Bytes(data, 0, k) \o rest = Bytes(data, 0, Len(data))
      BY <1>1, <2>1, BytesSplit
    <3> QED
      BY <3>1, BytesAll
  <2>7. /\ Bytes(buffer, readerIndex, writerIndex) \in Seq(Byte)
        /\ Bytes(data, 0, k) \in Seq(Byte)
    BY <1>1, <2>1, BytesBetween DEF Fits
  <2> HIDE DEF k, b, rest
  <2>8. Fits(b, readerIndex, Len(buffer))
    BY <1>1, <2>2 DEF Fits
  <2>9. /\ Holds(b, readerIndex, Len(buffer), rest)
        /\ Len(buffer') > Len(b)
             => kCheapPrepend + (Len(buffer) - readerIndex) + Len(rest) > Len(b)
    BY <2>3, <2>4, <2>8, AppendHolds
  <2>10. (Bytes(buffer, readerIndex, writerIndex) \o Bytes(data, 0, k)) \o rest
           = Bytes(buffer, readerIndex, writerIndex) \o data
    <3>1. (Bytes(buffer, readerIndex, writerIndex) \o Bytes(data, 0, k)) \o rest
            = Bytes(buffer, readerIndex, writerIndex) \o (Bytes(data, 0, k) \o rest)
      BY <2>3, <2>7, BytesAssociate, Zenon
    <3> QED
      BY <2>6, <3>1, Zenon
  <2>11. Holds(buffer, readerIndex, writerIndex, data)
    BY <2>5, <2>9, <2>10, Zenon DEF Holds
  <2>12. (Len(buffer) - readerIndex) + Len(rest) = ReadableBytes + Len(data)
    BY <1>1, <2>1, <2>3 DEF Fits, ReadableBytes
  <2> QED
    BY <1>1, <2>2, <2>9, <2>11, <2>12 DEF Fits, ReadableBytes
<1> QED
  BY <1>2, <1>3

\* The two ways to put bytes in.
LEMMA PutHolds ==
  ASSUME Fits(buffer, readerIndex, writerIndex),
         NEW data \in Seq(Byte), AppendData(data) \/ ReadFd(data)
  PROVE  /\ Holds(buffer, readerIndex, writerIndex, data)
         /\ Len(buffer') > Len(buffer)
              => kCheapPrepend + ReadableBytes + Len(data) > Len(buffer)
         /\ moved' = data
<1>1. CASE AppendData(data)
  <2>1. AppendTo(buffer, readerIndex, writerIndex, data) /\ moved' = data
    BY <1>1 DEF AppendData
  <2> QED
    BY <2>1, AppendHolds DEF ReadableBytes
<1>2. CASE ReadFd(data)
  BY <1>2, ReadHolds DEF ReadFd
<1> QED
  BY <1>1, <1>2

-----------------------------------------------------------------------------
(* What retrieve leaves                                                    *)

LEMMA BytesOfBytes ==
  ASSUME NEW s \in Seq(Byte), NEW r \in Nat, NEW w \in Nat, r <= w, w <= Len(s),
         NEW i \in Nat, NEW j \in Nat, i <= j, j <= w - r
  PROVE  Bytes(Bytes(s, r, w), i, j) = Bytes(s, r + i, r + j)
<1> DEFINE t == Bytes(s, r, w)
<1>1. t \in Seq(Byte) /\ Len(t) = w - r /\ \A k \in 1..(w - r) : t[k] = s[r + k]
  BY BytesBetween
<1> HIDE DEF t
<1>2. Len(s) \in Nat
  BY LenProperties
<1> DEFINE x == Bytes(t, i, j)
           y == Bytes(s, r + i, r + j)
<1>3. x \in Seq(Byte) /\ Len(x) = j - i /\ \A k \in 1..(j - i) : x[k] = t[i + k]
  BY <1>1, BytesBetween
<1>4. /\ y \in Seq(Byte)
      /\ Len(y) = (r + j) - (r + i)
      /\ \A k \in 1..((r + j) - (r + i)) : y[k] = s[(r + i) + k]
  <2>1. r + i \in Nat /\ r + j \in Nat /\ r + i <= r + j /\ r + j <= Len(s)
    BY <1>2
  <2> QED
    BY <2>1, BytesBetween
<1> HIDE DEF x, y
<1>5. ASSUME NEW k \in 1..Len(x) PROVE x[k] = y[k]
  <2>1. /\ k \in 1..(j - i)
        /\ k \in 1..((r + j) - (r + i))
        /\ i + k \in 1..(w - r)
        /\ r + (i + k) = (r + i) + k
    BY <1>3
  <2>2. x[k] = t[i + k] /\ t[i + k] = s[r + (i + k)] /\ y[k] = s[(r + i) + k]
    BY <1>1, <1>3, <1>4, <2>1
  <2> QED
    BY <2>1, <2>2
<1>6. Len(x) = Len(y)
  BY <1>3, <1>4
<1>7. x = y
  BY <1>3, <1>4, <1>5, <1>6, SeqEqual
<1> QED
  BY <1>7 DEF x, y, t

LEMMA ContentsIsSeq ==
  ASSUME Fits(buffer, readerIndex, writerIndex)
  PROVE  /\ Contents \in Seq(Byte)
         /\ Len(Contents) = ReadableBytes
         /\ ReadableBytes \in Nat
         /\ \A n \in 0..ReadableBytes : Peek(n) = Bytes(Contents, 0, n)
<1>1. Len(buffer) \in Nat
  BY LenProperties DEF Fits
<1>2. Contents \in Seq(Byte) /\ Len(Contents) = ReadableBytes
  BY BytesBetween DEF Fits, Contents, ReadableBytes
<1>3. ReadableBytes \in Nat
  BY DEF Fits, ReadableBytes
<1>4. ASSUME NEW n \in 0..ReadableBytes PROVE Peek(n) = Bytes(Contents, 0, n)
  <2>1. /\ n \in Nat /\ 0 \in Nat /\ 0 <= n /\ n <= writerIndex - readerIndex
        /\ readerIndex + 0 = readerIndex
    BY <1>3 DEF Fits, ReadableBytes
  <2>2. Bytes(Bytes(buffer, readerIndex, writerIndex), 0, n)
          = Bytes(buffer, readerIndex + 0, readerIndex + n)
    BY <2>1, BytesOfBytes DEF Fits
  <2> QED
    BY <2>1, <2>2, Zenon DEF Peek, Contents
<1> QED
  BY <1>2, <1>3, <1>4

\* retrieve(len) drops len bytes, or all there are.
LEMMA MoveReaderHolds ==
  ASSUME Fits(buffer, readerIndex, writerIndex),
         NEW len \in Nat, MoveReader(len), UNCHANGED buffer
  PROVE  /\ Fits(buffer', readerIndex', writerIndex')
         /\ LET n == IF len < ReadableBytes THEN len ELSE ReadableBytes
            IN  Contents' = Bytes(Contents, n, ReadableBytes)
<1>1. Len(buffer) \in Nat /\ kCheapPrepend \in Nat /\ ReadableBytes \in Nat
  BY LenProperties, BufferAssumption DEF Fits, ReadableBytes
<1>2. Fits(buffer', readerIndex', writerIndex')
  BY <1>1 DEF Fits, MoveReader, ReadableBytes
<1>3. CASE len < ReadableBytes
  <2>1. /\ len <= ReadableBytes
        /\ readerIndex + ReadableBytes = writerIndex
        /\ ReadableBytes <= writerIndex - readerIndex
    BY <1>1, <1>3 DEF Fits, ReadableBytes
  <2>2. Bytes(Bytes(buffer, readerIndex, writerIndex), len, ReadableBytes)
          = Bytes(buffer, readerIndex + len, readerIndex + ReadableBytes)
    <3> HIDE DEF ReadableBytes
    <3> QED
      BY <1>1, <2>1, BytesOfBytes DEF Fits
  <2>3. Contents' = Bytes(buffer, readerIndex + len, writerIndex)
    BY <1>3 DEF MoveReader, Contents
  <2>4. Contents' = Bytes(Contents, len, ReadableBytes)
    BY <2>1, <2>2, <2>3, Zenon DEF Contents
  <2> QED
    BY <1>2, <1>3, <2>4
<1>4. CASE ~(len < ReadableBytes)
  <2>1. Contents' = Bytes(buffer, kCheapPrepend, kCheapPrepend)
    BY <1>4 DEF MoveReader, Contents
  <2>2. Bytes(buffer, kCheapPrepend, kCheapPrepend) = <<>>
    BY <1>1, SubSeqEmpty DEF Bytes
  <2>3. Bytes(Contents, ReadableBytes, ReadableBytes) = <<>>
    BY <1>1, SubSeqEmpty DEF Bytes
  <2> QED
    BY <1>2, <1>4, <2>1, <2>2, <2>3
<1> QED
  BY <1>3, <1>4

-----------------------------------------------------------------------------
(* The theorems                                                            *)

IInv == Fits(buffer, readerIndex, writerIndex) /\ moved \in Seq(Byte)

LEMMA Invariance == Spec => []IInv
<1>1. Init => IInv
  <2> SUFFICES ASSUME Init PROVE IInv
    OBVIOUS
  <2>1. buffer \in [1..(kCheapPrepend + kInitialSize) -> Byte]
    BY BufferAssumption DEF Init
  <2>2. buffer \in Seq(Byte) /\ Len(buffer) = kCheapPrepend + kInitialSize
    BY <2>1, BufferAssumption, FunctionIsSeq
  <2>3. <<>> \in Seq(Byte)
    BY EmptySeq
  <2> QED
    BY <2>2, <2>3, BufferAssumption DEF Init, IInv, Fits
<1>2. IInv /\ [Next]_vars => IInv'
  <2> SUFFICES ASSUME IInv, [Next]_vars PROVE IInv'
    OBVIOUS
  <2>1. ASSUME NEW data \in Chunks, AppendData(data) \/ ReadFd(data) PROVE IInv'
    <3>1. data \in Seq(Byte)
      BY BufferAssumption
    <3> QED
      BY <2>1, <3>1, PutHolds DEF IInv, Holds
  <2>2. ASSUME NEW n \in 0..MaxBytes, Retrieve(n) PROVE IInv'
    BY <2>2, MoveReaderHolds, BufferAssumption DEF IInv, Retrieve
  <2>3. ASSUME NEW n \in 0..MaxBytes, n <= ReadableBytes,
               WriteFd(n) \/ RetrieveAsString(n)
        PROVE  IInv'
    <3>1. Peek(n) \in Seq(Byte)
      <4>1. /\ readerIndex \in Nat /\ readerIndex + n \in Nat
            /\ readerIndex <= readerIndex + n /\ readerIndex + n <= Len(buffer)
            /\ buffer \in Seq(Byte) /\ Len(buffer) \in Nat
        BY <2>3, BufferAssumption, LenProperties DEF IInv, Fits, ReadableBytes
      <4> QED
        BY <4>1, BytesBetween DEF Peek
    <3>2. CASE WriteFd(n)
      BY <3>1, <3>2 DEF IInv, Fits, WriteFd
    <3>3. CASE RetrieveAsString(n)
      BY <3>1, <3>3, MoveReaderHolds, BufferAssumption DEF IInv, RetrieveAsString
    <3> QED
      BY <2>3, <3>2, <3>3
  <2>4. CASE UNCHANGED vars
    BY <2>4 DEF IInv, Fits, vars
  <2> QED
    BY <2>1, <2>2, <2>3, <2>4 DEF Next
<1> QED
  BY <1>1, <1>2, PTL DEF Spec

\* buffer_ holds bytes and its indices are never negative (they are size_t).
THEOREM TypeCorrect == Spec => []TypeOK
<1>1. IInv => TypeOK
  BY LenProperties DEF IInv, Fits, TypeOK
<1> QED
  BY <1>1, Invariance, PTL

\* However calls to append, readFd and retrieve follow each other, no copy of
\* Buffer::append, makeSpace or readFd writes past the end of buffer_.
THEOREM IndicesCorrect == Spec => []IndicesInOrder
<1>1. IInv => IndicesInOrder
  BY DEF IInv, Fits, IndicesInOrder
<1> QED
  BY <1>1, Invariance, PTL

\* Buffer::makeSpace grows buffer_ only when the bytes do not fit.
THEOREM GrowthJustified == Spec => GrowsOnlyWhenFull
<1> DEFINE G == Len(buffer') > Len(buffer)
                  => kCheapPrepend + Len(Contents') > Len(buffer)
<1>1. IInv /\ [Next]_vars => [G]_vars
  <2> SUFFICES ASSUME IInv, Next PROVE G
    OBVIOUS
  <2>0. Len(buffer) \in Nat
    BY LenProperties DEF IInv, Fits
  <2>1. ASSUME NEW data \in Chunks, AppendData(data) \/ ReadFd(data) PROVE G
    <3>1. data \in Seq(Byte)
      BY BufferAssumption
    <3>2. /\ Holds(buffer, readerIndex, writerIndex, data)
          /\ Len(buffer') > Len(buffer)
               => kCheapPrepend + ReadableBytes + Len(data) > Len(buffer)
      BY <2>1, <3>1, PutHolds DEF IInv
    <3>3. Contents \in Seq(Byte) /\ Len(Contents) = ReadableBytes
      BY ContentsIsSeq DEF IInv
    <3>4. Contents' = Contents \o data
      BY <3>2 DEF Holds, Contents
    <3>5. Len(Contents \o data) = Len(Contents) + Len(data)
      BY <3>1, <3>3, ConcatProperties
    <3>6. Len(Contents') = ReadableBytes + Len(data)
      BY <3>3, <3>4, <3>5, Zenon
    <3>7. ReadableBytes \in Nat /\ Len(data) \in Nat /\ kCheapPrepend \in Nat
      BY <3>1, ContentsIsSeq, LenProperties, BufferAssumption DEF IInv
    <3>8. kCheapPrepend + Len(Contents') = kCheapPrepend + ReadableBytes + Len(data)
      BY <3>6, <3>7
    <3> QED
      BY <3>2, <3>8, Zenon
  <2>2. ASSUME UNCHANGED buffer PROVE G
    BY <2>0, <2>2
  <2> QED
    BY <2>1, <2>2 DEF Next, Retrieve, WriteFd, RetrieveAsString
<1> QED
  BY <1>1, Invariance, PTL DEF Spec, GrowsOnlyWhenFull

\* The bytes between the two indices are a first-in first-out queue: what
\* append and readFd add comes out of retrieveAsString and writeFd complete,
\* once and in order, wherever makeSpace moved it.
THEOREM ImplementsByteQueue == Spec => RefinesByteQueue
<1>1. Init => BQ!Init
  <2> SUFFICES ASSUME Init PROVE Contents = <<>> /\ moved = <<>>
    BY DEF BQ!Init
  <2> QED
    BY SubSeqEmpty, BufferAssumption DEF Init, Contents, Bytes
<1>2. IInv /\ [Next]_vars => [BQ!Next]_(BQ!vars)
  <2> SUFFICES ASSUME IInv, [Next]_vars PROVE [BQ!Next]_(BQ!vars)
    OBVIOUS
  <2>0. /\ Contents \in Seq(Byte)
        /\ Len(Contents) = ReadableBytes
        /\ ReadableBytes \in Nat
        /\ \A n \in 0..ReadableBytes : Peek(n) = Bytes(Contents, 0, n)
    BY ContentsIsSeq DEF IInv
  <2>1. ASSUME NEW data \in Chunks, AppendData(data) \/ ReadFd(data)
        PROVE  BQ!Next
    <3>1. data \in Seq(Byte)
      BY BufferAssumption
    <3>2. Contents' = Contents \o data /\ moved' = data
      BY <2>1, <3>1, PutHolds DEF IInv, Holds, Contents
    <3> QED
      BY <3>2 DEF BQ!Next, BQ!Put
  <2>2. ASSUME NEW n \in 0..ReadableBytes
        PROVE  /\ Peek(n) = SubSeq(Contents, 1, n)
               /\ Bytes(Contents, n, ReadableBytes)
                    = SubSeq(Contents, n + 1, Len(Contents))
    <3>1. Bytes(Contents, 0, n) = SubSeq(Contents, 1, n)
      <4>1. 0 + 1 = 1
        OBVIOUS
      <4> QED
        BY <4>1, Zenon DEF Bytes
    <3>2. Bytes(Contents, n, ReadableBytes)
            = SubSeq(Contents, n + 1, Len(Contents))
      BY <2>0, Zenon DEF Bytes
    <3> QED
      BY <2>0, <3>1, <3>2
  <2>3. ASSUME NEW n \in 0..MaxBytes, Retrieve(n) PROVE BQ!Next
    <3> DEFINE k == IF n < ReadableBytes THEN n ELSE ReadableBytes
    <3>1. k \in 0..ReadableBytes
      BY <2>0, BufferAssumption
    <3>2. Contents' = Bytes(Contents, k, ReadableBytes) /\ UNCHANGED moved
      BY <2>3, MoveReaderHolds, BufferAssumption DEF IInv, Retrieve
    <3> HIDE DEF k
    <3>3. Contents' = SubSeq(Contents, k + 1, Len(Contents))
      BY <2>2, <3>1, <3>2
    <3>4. k \in 0..Len(Contents)
      BY <2>0, <3>1
    <3> QED
      BY <3>2, <3>3, <3>4 DEF BQ!Next, BQ!Drop
  <2>4. ASSUME NEW n \in 0..MaxBytes, n <= ReadableBytes, WriteFd(n)
        PROVE  BQ!Next
    <3>1. n \in 0..ReadableBytes /\ n \in 0..Len(Contents)
      BY <2>0, <2>4, BufferAssumption
    <3>2. moved' = SubSeq(Contents, 1, n)
      BY <2>2, <2>4, <3>1 DEF WriteFd
    <3>3. UNCHANGED Contents
      BY <2>4 DEF WriteFd, Contents
    <3> QED
      BY <3>1, <3>2, <3>3 DEF BQ!Next, BQ!Look
  <2>5. ASSUME NEW n \in 0..MaxBytes, n <= ReadableBytes, RetrieveAsString(n)
        PROVE  BQ!Next
    <3>1. n \in 0..ReadableBytes /\ n \in 0..Len(Contents)
      BY <2>0, <2>5, BufferAssumption
    <3>2. moved' = SubSeq(Contents, 1, n)
      BY <2>2, <2>5, <3>1 DEF RetrieveAsString
    <3>3. Contents' = Bytes(Contents, n, ReadableBytes)
      <4>1. (IF n < ReadableBytes THEN n ELSE ReadableBytes) = n
        BY <2>0, <2>5, BufferAssumption
      <4> QED
        BY <2>5, <4>1, MoveReaderHolds, BufferAssumption DEF IInv, RetrieveAsString
    <3>4. Contents' = SubSeq(Contents, n + 1, Len(Contents))
      BY <2>2, <3>1, <3>3
    <3> QED
      BY <3>1, <3>2, <3>4 DEF BQ!Next, BQ!Take
  <2>6. CASE UNCHANGED vars
    BY <2>6 DEF vars, BQ!vars, Contents
  <2> QED
    BY <2>1, <2>3, <2>4, <2>5, <2>6 DEF Next
<1> QED
  BY <1>1, <1>2, Invariance, PTL DEF Spec, RefinesByteQueue, BQ!Spec
=============================================================================
