------------------------- MODULE ChunkStreamProofs -------------------------
(***************************************************************************)
(* Proofs about ChunkStream for every base, every length of content and    *)
(* any number of chunks: read_chunk returns the chunks that were sent.     *)
(***************************************************************************)
EXTENDS ChunkStream, SequenceTheorems, TLAPS

----------------------------------------------------------------------------
(* The invariant.                                                          *)

\* A chunk announces its own length.
Shaped(chunk) ==
    /\ chunk \in Seq(Byte) /\ Len(chunk) >= HEADER_LENGTH
    /\ chunk[1] * Base + chunk[2] + HEADER_LENGTH = Len(chunk)

\* Chunk i begins after off[i] bytes of everything sent.
Offsets(off, chunks) ==
    /\ off \in [1 .. Len(chunks) + 1 -> Nat]
    /\ \A i \in 1 .. Len(chunks) : off[i + 1] = off[i] + Len(chunks[i])
    /\ \A i, k \in 1 .. Len(chunks) + 1 : i <= k => off[i] <= off[k]

\* The bytes after the first g chunks reach to the last, or not so far.
Spans(off, chunks, g, bytes, complete) ==
    /\ off[g + 1] + Len(bytes) <= off[Len(chunks) + 1]
    /\ complete => off[g + 1] + Len(bytes) = off[Len(chunks) + 1]

InPlace(off, chunks, g, bytes) ==
    \A i \in g + 1 .. Len(chunks) : \A j \in 1 .. Len(chunks[i]) :
        off[i] + j <= off[g + 1] + Len(bytes) =>
            bytes[(off[i] - off[g + 1]) + j] = chunks[i][j]

\* The bytes are those of the chunks after the first g, one after the other.
\* The end may be missing unless the bytes are complete.
Laid(off, chunks, g, bytes, complete) ==
    /\ Offsets(off, chunks)
    /\ Spans(off, chunks, g, bytes, complete)
    /\ InPlace(off, chunks, g, bytes)

\* Chunks are returned as they were sent.
Ledger ==
    /\ sent \in Seq(Seq(Byte)) /\ got \in Seq(Seq(Byte))
    /\ \A i \in 1 .. Len(sent) : Shaped(sent[i])
    /\ Len(got) <= Len(sent)
    /\ \A i \in 1 .. Len(got) : got[i] = sent[i]

\* What was sent and not returned is in the buffer or on the wire, and all of
\* it while the connection stands and no chunk was broken off.
Complete == ~ broken /\ link # "reset"
UnderWay == \E off : Laid(off, sent, Len(got), data \o wire, Complete)

IndInv == TypeOK /\ Ledger /\ UnderWay

----------------------------------------------------------------------------
(* The length field.                                                       *)

LEMMA Digits ==
    ASSUME NEW n \in Nat, n < Base * Base
    PROVE  /\ n \div Base \in Byte /\ n % Base \in Byte
           /\ (n \div Base) * Base + (n % Base) = n
<1> DEFINE q == n \div Base
           r == n % Base
<1>1. Base \in Nat /\ Base > 1
  BY BaseAssumption
<1>2. q \in Nat /\ r \in 0 .. Base - 1
  BY <1>1
<1>3. n = Base * q + r
  BY <1>1, SMTT(60)
<1> HIDE DEF q, r
<1>4. q < Base
  <2> SUFFICES ASSUME q >= Base PROVE FALSE
    BY <1>1, <1>2
  <2>1. PICK d \in Nat : q = Base + d
    <3>1. q - Base \in Nat /\ q = Base + (q - Base)
      BY <1>1, <1>2
    <3> QED
      BY <3>1
  <2>2. Base * (Base + d) = Base * Base + Base * d /\ Base * d \in Nat /\ Base * Base \in Nat
    BY <1>1
  <2>3. n = Base * (Base + d) + r
    BY <1>3, <2>1
  <2>4. n = (Base * Base + Base * d) + r
    BY <2>2, <2>3
  <2> DEFINE x == Base * Base
             y == Base * d
  <2>5. x \in Nat /\ y \in Nat /\ r \in Nat /\ n = (x + y) + r /\ n < x
    BY <1>1, <1>2, <2>2, <2>4
  <2> HIDE DEF x, y
  <2> QED
    BY <2>5
<1>5. q * Base + r = n
  BY <1>1, <1>2, <1>3
<1> QED
  BY <1>1, <1>2, <1>4, <1>5 DEF Byte, q, r

\* BinaryChunk::from_content.
LEMMA FromContentShaped ==
    ASSUME NEW c \in Contents
    PROVE  Shaped(FromContent(c)) /\ c \in Seq(Byte) /\ Len(FromContent(c)) = Len(c) + 2
<1>1. c \in Seq(Byte) /\ Len(c) \in 0 .. MaxContent
  BY MaxContentAssumption DEF Contents
<1>2. Len(c) \in Nat /\ Len(c) < Base * Base
  BY <1>1, BaseAssumption, MaxContentAssumption DEF CONTENT_LENGTH_MAX
<1> DEFINE h == <<Len(c) \div Base, Len(c) % Base>>
<1>3. /\ Len(c) \div Base \in Byte /\ Len(c) % Base \in Byte
      /\ (Len(c) \div Base) * Base + (Len(c) % Base) = Len(c)
  BY <1>2, Digits
<1>4. /\ h \in Seq(Byte) /\ Len(h) = 2
      /\ h[1] = Len(c) \div Base /\ h[2] = Len(c) % Base
  BY <1>3
<1>5. FromContent(c) = h \o c
  BY DEF FromContent
<1> HIDE DEF h
<1>6. h \o c \in Seq(Byte) /\ Len(h \o c) = 2 + Len(c)
  <2>1. h \o c \in Seq(Byte) /\ Len(h \o c) = Len(h) + Len(c)
    BY <1>1, <1>4, ConcatProperties, Zenon
  <2> QED
    BY <1>4, <2>1
<1>7. (h \o c)[1] = h[1] /\ (h \o c)[2] = h[2]
  BY <1>1, <1>2, <1>4, <1>6, ConcatProperties
<1> DEFINE f == h \o c
           x == f[1] * Base
<1>8. x + f[2] = Len(c) /\ x \in Nat /\ f[2] \in Nat
  <2>1. x + f[2] = Len(c)
    BY <1>3, <1>4, <1>7
  <2>2. f[1] \in Nat /\ f[2] \in Nat /\ Base \in Nat
    BY <1>3, <1>4, <1>7, BaseAssumption DEF Byte
  <2> HIDE DEF f
  <2>3. \A a, b \in Nat : a * b \in Nat
    OBVIOUS
  <2> QED
    BY <2>1, <2>2, <2>3
<1> HIDE DEF x
<1>9. x + f[2] + 2 = Len(f)
  BY <1>2, <1>6, <1>8
<1> QED
  BY <1>1, <1>2, <1>5, <1>6, <1>9 DEF Shaped, HEADER_LENGTH, x

----------------------------------------------------------------------------
(* Bytes in their places.                                                  *)

LEMMA OffsetsAre ==
    ASSUME NEW chunks \in Seq(Seq(Byte)), NEW off, Offsets(off, chunks)
    PROVE  /\ Len(chunks) \in Nat
           /\ \A i \in 1 .. Len(chunks) + 1 : off[i] \in Nat
           /\ \A i \in 1 .. Len(chunks) :
                 /\ i + 1 \in 1 .. Len(chunks) + 1 /\ i \in 1 .. Len(chunks) + 1
                 /\ Len(chunks[i]) \in Nat /\ off[i + 1] = off[i] + Len(chunks[i])
           /\ \A i, k \in 1 .. Len(chunks) + 1 : i <= k => off[i] <= off[k]
<1>1. Len(chunks) \in Nat /\ \A i \in 1 .. Len(chunks) : Len(chunks[i]) \in Nat
  OBVIOUS
<1>2. \A i \in 1 .. Len(chunks) : i + 1 \in 1 .. Len(chunks) + 1 /\ i \in 1 .. Len(chunks) + 1
  BY <1>1
<1>3. \A i \in 1 .. Len(chunks) + 1 : off[i] \in Nat
  BY DEF Offsets
<1> QED
  BY <1>1, <1>2, <1>3, Zenon DEF Offsets

\* Where a byte is that the bytes reach.
LEMMA ReachedPlace ==
    ASSUME NEW chunks \in Seq(Seq(Byte)), NEW g \in 0 .. Len(chunks), NEW off, Offsets(off, chunks),
           NEW n \in Nat, NEW i \in g + 1 .. Len(chunks), NEW j \in 1 .. Len(chunks[i])
    PROVE  /\ i \in 1 .. Len(chunks) /\ off[i] \in Nat /\ j \in Nat /\ j >= 1 /\ j <= Len(chunks[i])
           /\ g + 1 \in 1 .. Len(chunks) + 1 /\ off[g + 1] \in Nat
           /\ off[g + 1] <= off[i] /\ off[i] + j <= off[Len(chunks) + 1]
           /\ off[Len(chunks) + 1] \in Nat
           /\ off[i] + j <= off[g + 1] + n => (off[i] - off[g + 1]) + j \in 1 .. n
<1>1. Len(chunks) \in Nat /\ g \in Nat
  OBVIOUS
<1>2. /\ i \in 1 .. Len(chunks) /\ i \in 1 .. Len(chunks) + 1 /\ i + 1 \in 1 .. Len(chunks) + 1
      /\ g + 1 \in 1 .. Len(chunks) + 1 /\ Len(chunks) + 1 \in 1 .. Len(chunks) + 1
      /\ g + 1 <= i /\ i + 1 <= Len(chunks) + 1
  BY <1>1
<1>3. /\ off[i] \in Nat /\ off[g + 1] \in Nat /\ off[Len(chunks) + 1] \in Nat
      /\ off[g + 1] <= off[i] /\ off[i + 1] <= off[Len(chunks) + 1]
      /\ off[i + 1] = off[i] + Len(chunks[i]) /\ Len(chunks[i]) \in Nat
  BY <1>2, OffsetsAre
<1>4. j \in Nat /\ j >= 1 /\ j <= Len(chunks[i])
  BY <1>3
<1>5. off[i] + j <= off[Len(chunks) + 1]
  BY <1>3, <1>4, SMTT(30)
<1>6. off[i] + j <= off[g + 1] + n => (off[i] - off[g + 1]) + j \in 1 .. n
  <2>1. \A a, b, k, m \in Nat : a <= b /\ k >= 1 /\ b + k <= a + m => (b - a) + k \in 1 .. m
    OBVIOUS
  <2> QED
    BY <1>3, <1>4, <2>1
<1> QED
  BY <1>2, <1>3, <1>4, <1>5, <1>6

\* A prefix of the bytes is in its place.
LEMMA LaidPrefix ==
    ASSUME NEW off, NEW chunks \in Seq(Seq(Byte)), NEW g \in 0 .. Len(chunks),
           NEW bytes \in Seq(Byte), NEW n \in 0 .. Len(bytes), Laid(off, chunks, g, bytes, FALSE)
    PROVE  Laid(off, chunks, g, SubSeq(bytes, 1, n), FALSE)
<1> DEFINE p == SubSeq(bytes, 1, n)
<1>1. p \in Seq(Byte) /\ Len(p) = n /\ n \in Nat /\ n <= Len(bytes) /\ Len(bytes) \in Nat
  OBVIOUS
<1>2. \A i \in 1 .. n : p[i] = bytes[i]
  OBVIOUS
<1> HIDE DEF p
<1>3. Offsets(off, chunks)
  BY DEF Laid
<1>4. Spans(off, chunks, g, p, FALSE)
  <2>1. g + 1 \in 1 .. Len(chunks) + 1 /\ Len(chunks) + 1 \in 1 .. Len(chunks) + 1
    OBVIOUS
  <2>2. off[g + 1] \in Nat /\ off[Len(chunks) + 1] \in Nat
    BY <1>3, <2>1, OffsetsAre
  <2>3. off[g + 1] + Len(bytes) <= off[Len(chunks) + 1]
    BY DEF Laid, Spans
  <2> QED
    BY <1>1, <2>2, <2>3 DEF Spans
<1>5. ASSUME NEW i \in g + 1 .. Len(chunks), NEW j \in 1 .. Len(chunks[i]),
             off[i] + j <= off[g + 1] + Len(p)
      PROVE  p[(off[i] - off[g + 1]) + j] = chunks[i][j]
  <2>1. /\ off[i] \in Nat /\ j \in Nat /\ off[g + 1] \in Nat
        /\ (off[i] - off[g + 1]) + j \in 1 .. n
    BY <1>1, <1>3, <1>5, ReachedPlace
  <2>2. off[i] + j <= off[g + 1] + Len(bytes)
    <3>1. \A a, b, k, l, m \in Nat : b + k <= a + l /\ l <= m => b + k <= a + m
      OBVIOUS
    <3> QED
      BY <1>1, <1>5, <2>1, <3>1
  <2>3. bytes[(off[i] - off[g + 1]) + j] = chunks[i][j]
    BY <2>2 DEF Laid, InPlace
  <2> QED
    BY <1>2, <2>1, <2>3
<1> QED
  BY <1>3, <1>4, <1>5 DEF Laid, InPlace, p

\* Another chunk is put at the end of the complete bytes.
LEMMA LaidSend ==
    ASSUME NEW off, NEW chunks \in Seq(Seq(Byte)), NEW g \in 0 .. Len(chunks),
           NEW bytes \in Seq(Byte), NEW f \in Seq(Byte), Laid(off, chunks, g, bytes, TRUE)
    PROVE  \E o : Laid(o, Append(chunks, f), g, bytes \o f, TRUE)
<1> DEFINE n == Len(chunks)
           cs == Append(chunks, f)
           b == bytes \o f
           o == [i \in 1 .. n + 2 |-> IF i <= n + 1 THEN off[i] ELSE off[n + 1] + Len(f)]
<1>1. /\ n \in Nat /\ Len(cs) = n + 1 /\ cs[n + 1] = f /\ Len(f) \in Nat /\ Len(bytes) \in Nat
      /\ \A i \in 1 .. n : cs[i] = chunks[i] /\ Len(chunks[i]) \in Nat
  OBVIOUS
<1>2. /\ b \in Seq(Byte) /\ Len(b) = Len(bytes) + Len(f)
      /\ \A i \in 1 .. Len(bytes) : b[i] = bytes[i]
      /\ \A j \in 1 .. Len(f) : b[Len(bytes) + j] = f[j]
  <2>1. b \in Seq(Byte) /\ Len(b) = Len(bytes) + Len(f)
    BY ConcatProperties, Zenon
  <2>2. ASSUME NEW i \in 1 .. Len(bytes) PROVE b[i] = bytes[i]
    OBVIOUS
  <2>3. ASSUME NEW j \in 1 .. Len(f) PROVE b[Len(bytes) + j] = f[j]
    OBVIOUS
  <2> QED
    BY <2>1, <2>2, <2>3
<1>3. n + 1 \in 1 .. n + 1 /\ g + 1 \in 1 .. n + 1 /\ Offsets(off, chunks)
  BY DEF Laid
<1>4. /\ off[g + 1] \in Nat /\ off[n + 1] \in Nat
      /\ \A i \in 1 .. n + 1 : off[i] \in Nat /\ off[i] <= off[n + 1]
      /\ \A i \in 1 .. n : off[i + 1] = off[i] + Len(chunks[i])
      /\ \A i, k \in 1 .. n + 1 : i <= k => off[i] <= off[k]
  BY <1>3, OffsetsAre
<1>5. off[g + 1] + Len(bytes) = off[n + 1]
  BY DEF Laid, Spans
<1>6. o[n + 2] = off[n + 1] + Len(f) /\ o[n + 2] \in Nat
  BY <1>1, <1>4
<1>7. ASSUME NEW i \in 1 .. n + 1 PROVE o[i] = off[i] /\ o[i] \in Nat
  BY <1>1, <1>4
<1>8. o \in [1 .. n + 2 -> Nat]
  BY <1>1, <1>4
<1> HIDE DEF n, cs, b, o
<1>9. ASSUME NEW i \in 1 .. n + 1 PROVE o[i + 1] = o[i] + Len(cs[i])
  <2>1. CASE i = n + 1
    <3>1. i + 1 = n + 2
      BY <1>1, <2>1
    <3> QED
      BY <1>1, <1>6, <1>7, <2>1, <3>1
  <2>2. CASE i \in 1 .. n
    <3>1. i + 1 \in 1 .. n + 1
      BY <1>1, <2>2
    <3>2. o[i + 1] = off[i + 1] /\ o[i] = off[i] /\ cs[i] = chunks[i]
      BY <1>1, <1>7, <2>2, <3>1
    <3> QED
      BY <1>4, <2>2, <3>2
  <2> QED
    BY <1>1, <2>1, <2>2
<1>10. ASSUME NEW i \in 1 .. n + 2, NEW k \in 1 .. n + 2, i <= k PROVE o[i] <= o[k]
  <2>1. CASE k \in 1 .. n + 1
    <3>1. i \in 1 .. n + 1
      BY <1>1, <1>10, <2>1
    <3>2. o[i] = off[i] /\ o[k] = off[k]
      BY <1>7, <2>1, <3>1
    <3> QED
      BY <1>4, <1>10, <2>1, <3>1, <3>2
  <2>2. CASE k = n + 2 /\ i \in 1 .. n + 1
    <3>1. off[i] <= off[n + 1] /\ off[i] \in Nat /\ o[i] = off[i]
      BY <1>4, <1>7, <2>2
    <3> QED
      BY <1>1, <1>4, <1>6, <2>2, <3>1
  <2>3. CASE k = n + 2 /\ i = n + 2
    BY <1>6, <2>3
  <2> QED
    BY <1>1, <2>1, <2>2, <2>3
<1>11. o[g + 1] = off[g + 1]
  BY <1>3, <1>7
<1>12. o[g + 1] + Len(b) = o[n + 2] /\ o[g + 1] + Len(b) <= o[n + 2]
  <2>1. off[g + 1] + (Len(bytes) + Len(f)) = off[n + 1] + Len(f)
    BY <1>1, <1>4, <1>5
  <2> QED
    BY <1>2, <1>6, <1>11, <2>1
<1>13. ASSUME NEW i \in g + 1 .. n + 1, NEW j \in 1 .. Len(cs[i])
       PROVE  b[(o[i] - o[g + 1]) + j] = cs[i][j]
  <2>1. CASE i = n + 1
    <3>1. o[i] = off[n + 1] /\ cs[i] = f
      BY <1>1, <1>3, <1>7, <2>1
    <3>2. o[i] - o[g + 1] = Len(bytes)
      BY <1>1, <1>4, <1>5, <1>11, <3>1, SMTT(30)
    <3> QED
      BY <1>2, <3>1, <3>2
  <2>2. CASE i \in g + 1 .. n
    <3>1. i \in 1 .. n /\ i \in 1 .. n + 1
      BY <1>1, <2>2
    <3>2. cs[i] = chunks[i] /\ o[i] = off[i]
      BY <1>1, <1>7, <3>1
    <3>3. /\ off[i] + j <= off[n + 1]
          /\ off[i] + j <= off[g + 1] + Len(bytes) => (off[i] - off[g + 1]) + j \in 1 .. Len(bytes)
      BY <1>1, <1>3, <2>2, <3>2, ReachedPlace DEF n
    <3>4. off[i] + j <= off[g + 1] + Len(bytes)
      BY <1>5, <3>3
    <3>5. bytes[(off[i] - off[g + 1]) + j] = chunks[i][j]
      BY <2>2, <3>2, <3>4 DEF Laid, InPlace, n
    <3> QED
      BY <1>2, <1>11, <3>2, <3>3, <3>4, <3>5
  <2> QED
    BY <1>1, <2>1, <2>2
<1>14. Laid(o, cs, g, b, TRUE)
  <2>1. Len(cs) + 1 = n + 2 /\ Len(cs) = n + 1
    BY <1>1
  <2>2. Offsets(o, cs)
    BY <1>8, <1>9, <1>10, <2>1 DEF Offsets
  <2>3. Spans(o, cs, g, b, TRUE)
    BY <1>12, <2>1 DEF Spans
  <2>4. InPlace(o, cs, g, b)
    BY <1>13, <2>1 DEF InPlace
  <2> QED
    BY <2>2, <2>3, <2>4 DEF Laid
<1> QED
  BY <1>14 DEF cs, b

\* The first chunk is taken off the front: the bytes begin with its length.
LEMMA LaidReturn ==
    ASSUME NEW off, NEW chunks \in Seq(Seq(Byte)), NEW g \in 0 .. Len(chunks),
           NEW bytes \in Seq(Byte), NEW complete, Laid(off, chunks, g, bytes, complete),
           \A i \in 1 .. Len(chunks) : Shaped(chunks[i]),
           Len(bytes) >= HEADER_LENGTH, NEW r,
           r = bytes[1] * Base + bytes[2] + HEADER_LENGTH, r <= Len(bytes)
    PROVE  /\ g + 1 \in 1 .. Len(chunks) /\ r \in 2 .. Len(bytes)
           /\ SubSeq(bytes, 1, r) = chunks[g + 1]
           /\ Laid(off, chunks, g + 1, SubSeq(bytes, r + 1, Len(bytes)), complete)
<1> DEFINE n == Len(chunks)
           m == Len(bytes)
           a == off[g + 1]
           z == off[n + 1]
<1>1. n \in Nat /\ g \in Nat /\ g <= n /\ m \in Nat /\ m >= 2
  BY DEF HEADER_LENGTH
<1>2. g + 1 \in 1 .. n + 1 /\ n + 1 \in 1 .. n + 1 /\ Offsets(off, chunks)
  BY <1>1 DEF Laid
<1>3. a \in Nat /\ z \in Nat
  BY <1>2, OffsetsAre
<1>4. a + m <= z
  BY DEF Laid, Spans
<1> DEFINE c == chunks[g + 1]
           l == Len(c)
<1> HIDE DEF n, m, a, z
<1>5. g + 1 \in 1 .. n
  <2> SUFFICES ASSUME g = n PROVE FALSE
    BY <1>1
  <2>1. a = z
    BY DEF a, z
  <2> QED
    BY <1>1, <1>3, <1>4, <2>1
<1>6. c \in Seq(Byte) /\ l \in Nat /\ Shaped(c) /\ l >= 2
  BY <1>5 DEF n, Shaped, HEADER_LENGTH
<1>7. /\ g + 2 \in 1 .. n + 1 /\ off[g + 2] = a + l /\ off[g + 2] \in Nat /\ off[g + 2] <= z
  <2>1. (g + 1) + 1 = g + 2 /\ g + 2 \in 1 .. n + 1 /\ g + 2 <= n + 1
    BY <1>1, <1>5
  <2>2. off[(g + 1) + 1] = off[g + 1] + Len(chunks[g + 1])
    BY <1>2, <1>5, OffsetsAre DEF n
  <2>3. off[g + 2] \in Nat /\ off[g + 2] <= off[n + 1]
    BY <1>2, <2>1, OffsetsAre DEF n
  <2> QED
    BY <2>1, <2>2, <2>3 DEF a, z
\* Every byte of the first chunk that is there is in its place.
<1>8. ASSUME NEW j \in 1 .. l, j <= m PROVE bytes[j] = c[j]
  <2>1. j \in Nat
    BY <1>6
  <2>2. off[g + 1] + j <= off[g + 1] + Len(bytes)
    BY <1>1, <1>3, <1>8, <2>1 DEF a, m
  <2>3. g + 1 \in g + 1 .. Len(chunks)
    BY <1>1, <1>5 DEF n
  <2>4. bytes[(off[g + 1] - off[g + 1]) + j] = chunks[g + 1][j]
    BY <2>2, <2>3 DEF Laid, InPlace
  <2>5. (off[g + 1] - off[g + 1]) + j = j
    BY <1>3, <2>1 DEF a
  <2> QED
    BY <2>4, <2>5
<1>9. r = l
  <2>1. bytes[1] = c[1] /\ bytes[2] = c[2]
    BY <1>1, <1>6, <1>8
  <2> QED
    BY <1>6, <2>1 DEF Shaped
<1>10. r \in 2 .. m /\ r \in Nat
  BY <1>1, <1>6, <1>9 DEF m
<1>11. SubSeq(bytes, 1, r) = c
  <2>1. /\ SubSeq(bytes, 1, r) \in Seq(Byte) /\ Len(SubSeq(bytes, 1, r)) = r
        /\ \A j \in 1 .. r : SubSeq(bytes, 1, r)[j] = bytes[j]
    BY <1>1, <1>10 DEF m
  <2>2. \A j \in 1 .. r : bytes[j] = c[j]
    BY <1>1, <1>8, <1>9, <1>10
  <2> QED
    BY <1>6, <1>9, <2>1, <2>2, SeqEqual
<1> DEFINE b == SubSeq(bytes, r + 1, m)
<1>12. /\ b \in Seq(Byte) /\ Len(b) = m - r
       /\ \A p \in 1 .. m - r : b[p] = bytes[r + p]
  BY <1>1, <1>10 DEF m
<1> HIDE DEF b
<1>13. Spans(off, chunks, g + 1, b, complete)
  <2>1. off[g + 2] + Len(b) = a + m
    <3>1. \A x, y, w \in Nat : y <= w => (x + y) + (w - y) = x + w
      OBVIOUS
    <3>2. off[g + 2] = a + r /\ Len(b) = m - r /\ r <= m
      BY <1>7, <1>9, <1>10, <1>12
    <3> QED
      BY <1>1, <1>3, <1>10, <3>1, <3>2
  <2>2. (g + 1) + 1 = g + 2
    BY <1>1
  <2> QED
    BY <2>1, <2>2 DEF Laid, Spans, a, m, n
<1>14. ASSUME NEW i \in (g + 1) + 1 .. n, NEW j \in 1 .. Len(chunks[i]),
              off[i] + j <= off[(g + 1) + 1] + Len(b)
       PROVE  b[(off[i] - off[(g + 1) + 1]) + j] = chunks[i][j]
  <2>1. (g + 1) + 1 = g + 2 /\ i \in g + 1 .. n /\ g + 1 \in 0 .. n /\ g \in 0 .. n
    BY <1>1, <1>5
  <2>2. m - r \in Nat
    BY <1>1, <1>10
  <2>3. /\ off[i] \in Nat /\ j \in Nat
        /\ (off[i] - off[(g + 1) + 1]) + j \in 1 .. m - r
    BY <1>2, <1>12, <1>14, <2>1, <2>2, ReachedPlace DEF n
  <2> DEFINE p == (off[i] - off[g + 2]) + j
  <2>4. /\ p \in 1 .. m - r /\ r + p = (off[i] - a) + j /\ off[i] + j <= a + m
    <3>1. off[g + 2] = a + r /\ Len(b) = m - r /\ r <= m
      BY <1>7, <1>9, <1>10, <1>12
    <3>2. off[i] + j <= (a + r) + (m - r)
      BY <1>14, <2>1, <3>1
    <3>3. r + ((off[i] - (a + r)) + j) = (off[i] - a) + j /\ off[i] + j <= a + m
      <4>1. a \in Nat /\ r \in Nat /\ m \in Nat /\ off[i] \in Nat /\ j \in Nat /\ r <= m
        BY <1>1, <1>3, <1>10, <2>3, <3>1
      <4> DEFINE u == off[i]
      <4>2. u \in Nat /\ u + j <= (a + r) + (m - r)
        BY <3>2, <4>1
      <4> HIDE DEF u
      <4>3. r + ((u - (a + r)) + j) = (u - a) + j
        BY <4>1, <4>2, SMTT(30)
      <4>4. u + j <= a + m
        BY <4>1, <4>2
      <4> QED
        BY <4>3, <4>4 DEF u
    <3> QED
      BY <2>1, <2>3, <3>1, <3>3
  <2>5. bytes[(off[i] - off[g + 1]) + j] = chunks[i][j]
    BY <2>1, <2>4 DEF Laid, InPlace, n, a, m
  <2> HIDE DEF p
  <2>6. b[p] = chunks[i][j]
    BY <1>12, <2>4, <2>5 DEF a
  <2> QED
    BY <2>1, <2>6 DEF p
<1>15. Laid(off, chunks, g + 1, b, complete)
  <2>1. InPlace(off, chunks, g + 1, b)
    BY <1>14 DEF InPlace, n
  <2> QED
    BY <1>2, <1>13, <2>1 DEF Laid
<1> QED
  BY <1>5, <1>10, <1>11, <1>15 DEF n, m, b

----------------------------------------------------------------------------
(* The buffer and the wire.                                                *)

LEMMA BytesAssociative == \A r, s, t \in Seq(Byte) : (r \o s) \o t = r \o (s \o t)
BY ConcatAssociative

\* stream.read moves bytes from the wire into the buffer.
LEMMA ReadKeepsBytes ==
    ASSUME NEW d \in Seq(Byte), NEW w \in Seq(Byte), NEW n \in 1 .. Len(w)
    PROVE  /\ d \o SubSeq(w, 1, n) \in Seq(Byte) /\ SubSeq(w, n + 1, Len(w)) \in Seq(Byte)
           /\ Len(d \o SubSeq(w, 1, n)) = Len(d) + n
           /\ (d \o SubSeq(w, 1, n)) \o SubSeq(w, n + 1, Len(w)) = d \o w
<1>1. /\ SubSeq(w, 1, n) \in Seq(Byte) /\ Len(SubSeq(w, 1, n)) = n
      /\ SubSeq(w, n + 1, Len(w)) \in Seq(Byte)
  OBVIOUS
<1>2. SubSeq(w, 1, n) \o SubSeq(w, n + 1, Len(w)) = w
  <2>1. SubSeq(w, 1, n) \o SubSeq(w, n + 1, Len(w)) = SubSeq(w, 1, Len(w))
    BY ConcatAdjacentSubSeq
  <2>2. SubSeq(w, 1, Len(w)) = w
    BY SubSeqFull
  <2> QED
    BY <2>1, <2>2
<1>3. (d \o SubSeq(w, 1, n)) \o SubSeq(w, n + 1, Len(w)) = d \o (SubSeq(w, 1, n) \o SubSeq(w, n + 1, Len(w)))
  <2> DEFINE x == SubSeq(w, 1, n)
             y == SubSeq(w, n + 1, Len(w))
  <2>1. x \in Seq(Byte) /\ y \in Seq(Byte)
    BY <1>1
  <2> HIDE DEF x, y
  <2>2. (d \o x) \o y = d \o (x \o y)
    BY <2>1, BytesAssociative, Zenon
  <2> QED
    BY <2>2 DEF x, y
<1>4. d \o SubSeq(w, 1, n) \in Seq(Byte) /\ Len(d \o SubSeq(w, 1, n)) = Len(d) + Len(SubSeq(w, 1, n))
  BY <1>1, ConcatProperties, Zenon
<1> QED
  BY <1>1, <1>2, <1>3, <1>4

\* A chunk that is all in the buffer is cut off there.
LEMMA CutKeepsBytes ==
    ASSUME NEW d \in Seq(Byte), NEW w \in Seq(Byte), NEW r \in 1 .. Len(d)
    PROVE  /\ SubSeq(d, 1, r) = SubSeq(d \o w, 1, r)
           /\ SubSeq(d, r + 1, Len(d)) \in Seq(Byte) /\ Len(SubSeq(d, r + 1, Len(d))) = Len(d) - r
           /\ SubSeq(d, r + 1, Len(d)) \o w = SubSeq(d \o w, r + 1, Len(d \o w))
<1> DEFINE b == d \o w
           t == SubSeq(d, r + 1, Len(d))
<1>1. b \in Seq(Byte) /\ Len(b) = Len(d) + Len(w) /\ Len(d) \in Nat /\ Len(w) \in Nat
  BY ConcatProperties, LenProperties, Zenon
<1>2. \A i \in 1 .. Len(b) : b[i] = IF i <= Len(d) THEN d[i] ELSE w[i - Len(d)]
  BY <1>1, ConcatProperties
<1>3. /\ t \in Seq(Byte) /\ Len(t) = Len(d) - r
      /\ \A i \in 1 .. Len(d) - r : t[i] = d[r + i]
  OBVIOUS
<1> HIDE DEF b, t
<1>4. SubSeq(d, 1, r) = SubSeq(b, 1, r)
  <2>1. /\ SubSeq(d, 1, r) \in Seq(Byte) /\ SubSeq(b, 1, r) \in Seq(Byte)
        /\ Len(SubSeq(d, 1, r)) = r /\ Len(SubSeq(b, 1, r)) = r
        /\ \A i \in 1 .. r : SubSeq(d, 1, r)[i] = d[i] /\ SubSeq(b, 1, r)[i] = b[i]
    BY <1>1
  <2>2. \A i \in 1 .. r : b[i] = d[i]
    BY <1>1, <1>2
  <2> QED
    BY <2>1, <2>2, SeqEqual
<1>5. t \o w = SubSeq(b, r + 1, Len(b))
  <2> DEFINE x == t \o w
             y == SubSeq(b, r + 1, Len(b))
  <2>1. x \in Seq(Byte) /\ Len(x) = Len(t) + Len(w)
    BY <1>3, ConcatProperties, Zenon
  <2>2. \A i \in 1 .. Len(x) : x[i] = IF i <= Len(t) THEN t[i] ELSE w[i - Len(t)]
    BY <1>3, <2>1, ConcatProperties
  <2>3. y \in Seq(Byte) /\ Len(y) = Len(b) - r /\ \A i \in 1 .. Len(b) - r : y[i] = b[r + i]
    BY <1>1
  <2> HIDE DEF x, y
  <2>4. Len(x) = Len(y)
    BY <1>1, <1>3, <2>1, <2>3
  <2>5. ASSUME NEW i \in 1 .. Len(x) PROVE x[i] = y[i]
    <3>1. y[i] = b[r + i] /\ r + i \in 1 .. Len(b) /\ Len(t) = Len(d) - r
      BY <1>1, <1>3, <2>1, <2>3
    <3>2. CASE i <= Len(t)
      <4>1. i \in 1 .. Len(d) - r /\ r + i <= Len(d)
        BY <1>1, <3>1, <3>2
      <4>2. t[i] = d[r + i]
        BY <1>3, <4>1
      <4>3. x[i] = t[i]
        BY <2>2, <3>2
      <4>4. b[r + i] = d[r + i]
        BY <1>2, <3>1, <4>1
      <4> QED
        BY <3>1, <4>2, <4>3, <4>4
    <3>3. CASE i > Len(t)
      <4>1. r + i > Len(d) /\ (r + i) - Len(d) = i - Len(t)
        BY <1>1, <3>1, <3>3
      <4>2. x[i] = w[i - Len(t)]
        BY <1>1, <1>3, <2>1, <2>2, <3>3
      <4>3. b[r + i] = w[(r + i) - Len(d)]
        BY <1>1, <1>2, <3>1, <4>1
      <4> QED
        BY <3>1, <4>1, <4>2, <4>3
    <3> QED
      BY <1>1, <1>3, <2>1, <3>2, <3>3
  <2> QED
    BY <2>1, <2>3, <2>4, <2>5, SeqEqual DEF x, y
<1> QED
  BY <1>3, <1>4, <1>5 DEF b, t

\* A piece of a chunk at the end is a prefix of what the whole would be.
LEMMA PieceIsPrefix ==
    ASSUME NEW b \in Seq(Byte), NEW f \in Seq(Byte), NEW k \in 0 .. Len(f)
    PROVE  b \o SubSeq(f, 1, k) = SubSeq(b \o f, 1, Len(b) + k)
<1> DEFINE p == SubSeq(f, 1, k)
           x == b \o p
           c == b \o f
           y == SubSeq(c, 1, Len(b) + k)
<1>1. p \in Seq(Byte) /\ Len(p) = k /\ Len(b) \in Nat /\ Len(f) \in Nat /\ \A i \in 1 .. k : p[i] = f[i]
  OBVIOUS
<1> HIDE DEF p
<1>2. x \in Seq(Byte) /\ Len(x) = Len(b) + Len(p) /\ c \in Seq(Byte) /\ Len(c) = Len(b) + Len(f)
  BY <1>1, ConcatProperties, Zenon
<1>3. \A i \in 1 .. Len(x) : x[i] = IF i <= Len(b) THEN b[i] ELSE p[i - Len(b)]
  BY <1>1, <1>2, ConcatProperties
<1>4. \A i \in 1 .. Len(c) : c[i] = IF i <= Len(b) THEN b[i] ELSE f[i - Len(b)]
  BY <1>1, <1>2, ConcatProperties
<1> HIDE DEF c, x
<1>5. y \in Seq(Byte) /\ Len(y) = Len(b) + k /\ \A i \in 1 .. Len(b) + k : y[i] = c[i]
  BY <1>1, <1>2
<1> HIDE DEF y
<1>6. ASSUME NEW i \in 1 .. Len(x) PROVE x[i] = y[i]
  <2>1. y[i] = c[i] /\ i \in 1 .. Len(c)
    BY <1>1, <1>2, <1>5
  <2>2. CASE i <= Len(b)
    BY <1>3, <1>4, <2>1, <2>2
  <2>3. CASE i > Len(b)
    <3>1. i - Len(b) \in 1 .. k
      BY <1>1, <1>2, <2>3
    <3> QED
      BY <1>1, <1>3, <1>4, <2>1, <2>3, <3>1
  <2> QED
    BY <1>1, <1>2, <2>2, <2>3
<1> QED
  BY <1>1, <1>2, <1>5, <1>6, SeqEqual DEF x, y, c, p

----------------------------------------------------------------------------
(* The steps.                                                              *)

LEMMA InitInv == Init => IndInv
<1> SUFFICES ASSUME Init PROVE IndInv
  OBVIOUS
<1>1. BufferSize \in Nat
  BY BaseAssumption DEF BufferSize
<1>2. TypeOK
  <2>1. broken \in BOOLEAN
    BY Zenon DEF Init
  <2> QED
    BY <1>1, <2>1 DEF Init, TypeOK
<1>3. /\ sent = << >> /\ got = << >> /\ data \o wire = << >> /\ Len(<< >>) = 0
  BY DEF Init
<1>4. Ledger
  BY <1>3 DEF Ledger
<1>5. UnderWay
  <2> DEFINE off == [i \in 1 .. 1 |-> 0]
  <2>1. off[1] = 0 /\ off \in [1 .. 1 -> Nat] /\ \A i \in 1 .. 1 : i = 1
    OBVIOUS
  <2> HIDE DEF off
  <2>2. Offsets(off, << >>)
    BY <1>3, <2>1 DEF Offsets
  <2>3. Spans(off, << >>, 0, << >>, Complete)
    BY <1>3, <2>1 DEF Spans
  <2>4. InPlace(off, << >>, 0, << >>)
    BY <1>3 DEF InPlace
  <2> QED
    BY <1>3, <2>2, <2>3, <2>4 DEF UnderWay, Laid
<1> QED
  BY <1>2, <1>4, <1>5 DEF IndInv

\* What the invariant says of the sequences.
LEMMA Sequences ==
    ASSUME TypeOK, Ledger
    PROVE  /\ data \in Seq(Byte) /\ wire \in Seq(Byte) /\ data \o wire \in Seq(Byte)
           /\ Len(data \o wire) = Len(data) + Len(wire)
           /\ Len(data) \in Nat /\ Len(wire) \in Nat /\ BufferSize \in Nat
           /\ sent \in Seq(Seq(Byte)) /\ Len(got) \in 0 .. Len(sent)
<1>1. data \in Seq(Byte) /\ wire \in Seq(Byte)
  BY DEF TypeOK
<1>2. data \o wire \in Seq(Byte) /\ Len(data \o wire) = Len(data) + Len(wire)
  BY <1>1, ConcatProperties, Zenon
<1>3. sent \in Seq(Seq(Byte)) /\ Len(got) \in 0 .. Len(sent)
  BY DEF Ledger
<1> QED
  BY <1>1, <1>2, <1>3, BaseAssumption DEF BufferSize

\* A chunk more was sent, and is well formed.
LEMMA LedgerSend ==
    ASSUME Ledger, NEW c \in Contents, sent' = Append(sent, FromContent(c)), got' = got
    PROVE  Ledger'
<1> DEFINE f == FromContent(c)
<1>1. f \in Seq(Byte) /\ Shaped(f)
  BY FromContentShaped DEF Shaped
<1> HIDE DEF f
<1>2. sent' = Append(sent, f)
  BY DEF f
<1>3. /\ sent' \in Seq(Seq(Byte)) /\ Len(sent') = Len(sent) + 1 /\ Len(sent) \in Nat
      /\ \A i \in 1 .. Len(sent) : sent'[i] = sent[i]
      /\ sent'[Len(sent) + 1] = f
  BY <1>1, <1>2 DEF Ledger
<1>4. \A i \in 1 .. Len(sent') : i = Len(sent) + 1 \/ i \in 1 .. Len(sent)
  BY <1>3
<1>5. \A i \in 1 .. Len(got) : i \in 1 .. Len(sent)
  BY DEF Ledger
<1>6. \A i \in 1 .. Len(sent') : Shaped(sent'[i])
  BY <1>1, <1>3, <1>4 DEF Ledger
<1>7. Len(got) <= Len(sent') /\ got \in Seq(Seq(Byte)) /\ \A i \in 1 .. Len(got) : got[i] = sent'[i]
  BY <1>3, <1>5 DEF Ledger
<1> QED
  BY <1>3, <1>6, <1>7 DEF Ledger

LEMMA PeerSendInv ==
    ASSUME IndInv, NEW c \in Contents, PeerSend(c)
    PROVE  IndInv'
<1> DEFINE f == FromContent(c)
<1>1. /\ sent' = Append(sent, f) /\ wire' = wire \o f /\ link = "open" /\ ~ broken
      /\ UNCHANGED <<broken, link, data, pc, retry, got>>
  BY DEF PeerSend
<1>2. f \in Seq(Byte)
  BY FromContentShaped DEF Shaped
<1> HIDE DEF f
<1>3. /\ data \in Seq(Byte) /\ wire \in Seq(Byte) /\ data \o wire \in Seq(Byte)
      /\ sent \in Seq(Seq(Byte)) /\ Len(got) \in 0 .. Len(sent)
  BY Sequences DEF IndInv
<1>4. wire' \in Seq(Byte)
  BY <1>1, <1>2, <1>3, ConcatProperties, Zenon
<1>5. TypeOK'
  BY <1>1, <1>4 DEF IndInv, TypeOK
<1>6. Ledger'
  BY <1>1, LedgerSend DEF IndInv, f
<1>7. UnderWay'
  <2>1. PICK off : Laid(off, sent, Len(got), data \o wire, TRUE)
    BY <1>1 DEF IndInv, UnderWay, Complete, Laid, Spans
  <2>2. \E o : Laid(o, Append(sent, f), Len(got), (data \o wire) \o f, TRUE)
    BY <1>2, <1>3, <2>1, LaidSend
  <2>3. (data \o wire) \o f = data \o (wire \o f)
    <3>1. data \in Seq(Byte) /\ wire \in Seq(Byte)
      BY <1>3
    <3> QED
      BY <1>2, <3>1, BytesAssociative, Zenon
  <2>4. Complete' /\ \A o, x : Laid(o, sent', Len(got), x, TRUE) => Laid(o, sent', Len(got), x, Complete')
    BY <1>1 DEF Complete, Laid, Spans
  <2> QED
    BY <1>1, <2>2, <2>3, <2>4 DEF UnderWay
<1> QED
  BY <1>5, <1>6, <1>7 DEF IndInv

LEMMA PeerBreakOffInv ==
    ASSUME IndInv, NEW c \in Contents, NEW k \in 1 .. Len(c) + 1, PeerBreakOff(c, k)
    PROVE  IndInv'
<1> DEFINE f == FromContent(c)
<1>1. /\ sent' = Append(sent, f) /\ wire' = wire \o SubSeq(f, 1, k) /\ link = "open" /\ ~ broken
      /\ UNCHANGED <<link, data, pc, retry, got>>
  BY DEF PeerBreakOff
<1>2. f \in Seq(Byte) /\ k \in 0 .. Len(f)
  BY FromContentShaped DEF Shaped
<1> HIDE DEF f
<1>3. SubSeq(f, 1, k) \in Seq(Byte)
  BY <1>2
<1>4. /\ data \in Seq(Byte) /\ wire \in Seq(Byte) /\ data \o wire \in Seq(Byte)
      /\ sent \in Seq(Seq(Byte)) /\ Len(got) \in 0 .. Len(sent)
  BY Sequences DEF IndInv
<1>5. wire' \in Seq(Byte)
  BY <1>1, <1>3, <1>4, ConcatProperties, Zenon
<1>6. broken' = TRUE
  BY DEF PeerBreakOff
<1>7. TypeOK'
  BY <1>1, <1>5, <1>6 DEF IndInv, TypeOK
<1>8. Ledger'
  BY <1>1, LedgerSend DEF IndInv, f
<1>9. UnderWay'
  <2>1. PICK off : Laid(off, sent, Len(got), data \o wire, TRUE)
    BY <1>1 DEF IndInv, UnderWay, Complete, Laid, Spans
  <2>2. PICK o : Laid(o, Append(sent, f), Len(got), (data \o wire) \o f, TRUE)
    BY <1>2, <1>4, <2>1, LaidSend
  <2> DEFINE b == data \o wire
  <2>3. /\ b \o f \in Seq(Byte) /\ Len(b \o f) = Len(b) + Len(f) /\ Len(b) \in Nat
        /\ Append(sent, f) \in Seq(Seq(Byte)) /\ Len(got) \in 0 .. Len(Append(sent, f))
    <3>1. b \o f \in Seq(Byte) /\ Len(b \o f) = Len(b) + Len(f)
      BY <1>2, <1>4, ConcatProperties, Zenon
    <3> QED
      BY <1>2, <1>4, <3>1
  <2>4. Laid(o, Append(sent, f), Len(got), b \o f, FALSE)
    BY <2>2 DEF Laid, Spans
  <2> HIDE DEF b
  <2>5. Len(b) + k \in 0 .. Len(b \o f)
    BY <1>2, <2>3
  <2>6. Laid(o, Append(sent, f), Len(got), SubSeq(b \o f, 1, Len(b) + k), FALSE)
    BY <2>3, <2>4, <2>5, LaidPrefix
  <2>7. SubSeq(b \o f, 1, Len(b) + k) = b \o SubSeq(f, 1, k)
    BY <1>2, <1>4, PieceIsPrefix DEF b
  <2>8. b \o SubSeq(f, 1, k) = data \o wire'
    <3> DEFINE x == SubSeq(f, 1, k)
    <3>1. x \in Seq(Byte)
      BY <1>3
    <3>2. wire' = wire \o x
      BY <1>1
    <3> HIDE DEF x
    <3>3. data \in Seq(Byte) /\ wire \in Seq(Byte)
      BY <1>4
    <3>4. (data \o wire) \o x = data \o (wire \o x)
      BY <3>1, <3>3, BytesAssociative, Zenon
    <3> QED
      BY <3>2, <3>4 DEF b, x
  <2>9. Laid(o, sent', Len(got'), data' \o wire', FALSE)
    BY <1>1, <2>6, <2>7, <2>8
  <2>10. Complete' = FALSE
    BY <1>6 DEF Complete
  <2> QED
    BY <2>9, <2>10 DEF UnderWay
<1> QED
  BY <1>7, <1>8, <1>9 DEF IndInv

LEMMA PeerResetInv == ASSUME IndInv, PeerReset PROVE IndInv'
<1>1. link' = "reset" /\ wire' = << >> /\ UNCHANGED <<sent, broken, data, pc, retry, got>>
  BY DEF PeerReset
<1>2. /\ data \in Seq(Byte) /\ wire \in Seq(Byte) /\ data \o wire \in Seq(Byte)
      /\ Len(data \o wire) = Len(data) + Len(wire) /\ Len(data) \in Nat /\ Len(wire) \in Nat
      /\ sent \in Seq(Seq(Byte)) /\ Len(got) \in 0 .. Len(sent)
  BY Sequences DEF IndInv
<1>3. TypeOK' /\ Ledger'
  BY <1>1 DEF IndInv, TypeOK, Ledger
<1>4. UnderWay'
  <2>1. PICK off : Laid(off, sent, Len(got), data \o wire, FALSE)
    BY DEF IndInv, UnderWay, Laid, Spans
  <2>2. Laid(off, sent, Len(got), SubSeq(data \o wire, 1, Len(data)), FALSE)
    <3>1. Len(data) \in 0 .. Len(data \o wire)
      BY <1>2
    <3> QED
      BY <1>2, <2>1, <3>1, LaidPrefix
  <2>3. SubSeq(data \o wire, 1, Len(data)) = data
    BY <1>2, SubSeqOfConcat1, SubSeqFull
  <2>4. data' \o wire' = data
    BY <1>1, <1>2, ConcatEmptySeq
  <2>5. Complete' = FALSE
    BY <1>1 DEF Complete
  <2> QED
    BY <1>1, <2>2, <2>3, <2>4, <2>5 DEF UnderWay
<1> QED
  BY <1>3, <1>4 DEF IndInv

\* The bytes and their chunks are left alone.
LEMMA StaysInv ==
    ASSUME IndInv, TypeOK', UNCHANGED <<sent, broken, got>>, data' \o wire' = data \o wire,
           link' = link \/ (link = "open" /\ link' = "closed")
    PROVE  IndInv'
<1>1. Ledger'
  BY DEF IndInv, Ledger
<1>2. Complete' = Complete
  BY DEF Complete
<1> QED
  BY <1>1, <1>2 DEF IndInv, UnderWay

LEMMA ReadSomeInv ==
    ASSUME IndInv, NEW n \in Readable, ReadSome(n)
    PROVE  IndInv'
<1>1. /\ data' = data \o SubSeq(wire, 1, n) /\ wire' = SubSeq(wire, n + 1, Len(wire))
      /\ UNCHANGED <<sent, broken, link, pc, retry, got>>
  BY DEF ReadSome
<1>2. /\ data \in Seq(Byte) /\ wire \in Seq(Byte)
      /\ Len(data) \in Nat /\ Len(wire) \in Nat /\ BufferSize \in Nat
  BY Sequences DEF IndInv
<1>3. n \in 1 .. Len(wire) /\ n <= BufferSize - Len(data)
  <2> DEFINE x == Len(wire)
             y == BufferSize - Len(data)
             least == CHOOSE v \in {x, y} : \A u \in {x, y} : v <= u
  <2>1. x \in Int /\ y \in Int
    BY <1>2
  <2> HIDE DEF x, y
  <2>2. \E v \in {x, y} : \A u \in {x, y} : v <= u
    BY <2>1
  <2>3. least \in {x, y} /\ \A u \in {x, y} : least <= u
    BY <2>2
  <2>4. n \in 1 .. least
    BY DEF Readable, Min, x, y
  <2> HIDE DEF least
  <2>5. n \in 1 .. x /\ n <= y
    BY <2>1, <2>3, <2>4
  <2> QED
    BY <2>5 DEF x, y
<1>4. /\ data' \in Seq(Byte) /\ wire' \in Seq(Byte) /\ Len(data') = Len(data) + n
      /\ data' \o wire' = data \o wire
  BY <1>1, <1>2, <1>3, ReadKeepsBytes
<1>5. Len(data') <= BufferSize
  BY <1>2, <1>3, <1>4
<1>6. TypeOK'
  BY <1>1, <1>4, <1>5 DEF IndInv, TypeOK
<1>7. UNCHANGED <<sent, broken, got>> /\ link' = link
  BY <1>1
<1>8. data' \o wire' = data \o wire
  BY <1>4
<1> QED
  BY <1>6, <1>7, <1>8, StaysInv, Zenon

LEMMA ReturnChunkInv == ASSUME IndInv, ReturnChunk PROVE IndInv'
<1> DEFINE b == data \o wire
           r == RawLen
           g == Len(got)
<1>1. /\ got' = Append(got, SubSeq(data, 1, r)) /\ data' = SubSeq(data, r + 1, Len(data))
      /\ pc' = "idle" /\ UNCHANGED <<sent, broken, link, wire, retry>>
      /\ Len(data) >= 2 /\ Len(data) >= r
  BY DEF ReturnChunk, HasChunk, HEADER_LENGTH
<1>2. /\ data \in Seq(Byte) /\ wire \in Seq(Byte) /\ b \in Seq(Byte)
      /\ Len(b) = Len(data) + Len(wire) /\ Len(data) \in Nat /\ Len(wire) \in Nat
      /\ sent \in Seq(Seq(Byte)) /\ g \in 0 .. Len(sent)
  BY Sequences DEF IndInv
\* The length field lies in the buffer.
<1>3. r = b[1] * Base + b[2] + HEADER_LENGTH
  <2>1. b[1] = data[1] /\ b[2] = data[2]
    <3>1. 1 \in 1 .. Len(b) /\ 2 \in 1 .. Len(b) /\ 1 <= Len(data) /\ 2 <= Len(data)
      BY <1>1, <1>2
    <3>2. \A i \in 1 .. Len(b) : b[i] = IF i <= Len(data) THEN data[i] ELSE wire[i - Len(data)]
      BY <1>2, ConcatProperties
    <3> HIDE DEF b
    <3> QED
      BY <3>1, <3>2
  <2> HIDE DEF b
  <2> QED
    BY <2>1 DEF RawLen, ChunkLen
<1>4. \A i \in 1 .. Len(sent) : Shaped(sent[i])
  BY DEF IndInv, Ledger
<1>5. PICK off : Laid(off, sent, g, b, Complete)
  BY DEF IndInv, UnderWay
<1> HIDE DEF b, g
<1>6. r \in Int
  <2>1. data[1] \in Nat /\ data[2] \in Nat /\ Base \in Nat
    <3>1. 1 \in 1 .. Len(data) /\ 2 \in 1 .. Len(data)
      <4> HIDE DEF r
      <4> QED
        BY <1>1, <1>2
    <3>2. data[1] \in Byte /\ data[2] \in Byte
      BY <1>2, <3>1
    <3> QED
      BY <3>2, BaseAssumption DEF Byte
  <2>2. \A x, y, z \in Nat : x * z + y + 2 \in Int
    OBVIOUS
  <2> QED
    BY <2>1, <2>2 DEF RawLen, ChunkLen, HEADER_LENGTH
<1> HIDE DEF r
<1>7. Len(b) >= HEADER_LENGTH /\ r <= Len(b)
  BY <1>1, <1>2, <1>6 DEF HEADER_LENGTH
<1>8. /\ g + 1 \in 1 .. Len(sent) /\ r \in 2 .. Len(b)
      /\ SubSeq(b, 1, r) = sent[g + 1]
      /\ Laid(off, sent, g + 1, SubSeq(b, r + 1, Len(b)), Complete)
  <2>1. sent \in Seq(Seq(Byte)) /\ g \in 0 .. Len(sent) /\ b \in Seq(Byte)
    BY <1>2
  <2> DEFINE k == Complete
  <2>2. Laid(off, sent, g, b, k)
    BY <1>5
  <2> HIDE DEF k
  <2>3. \A x : x = b[1] * Base + b[2] + HEADER_LENGTH /\ x <= Len(b) =>
            /\ g + 1 \in 1 .. Len(sent) /\ x \in 2 .. Len(b)
            /\ SubSeq(b, 1, x) = sent[g + 1]
            /\ Laid(off, sent, g + 1, SubSeq(b, x + 1, Len(b)), k)
    BY <1>4, <1>7, <2>1, <2>2, LaidReturn
  <2> QED
    BY <1>3, <1>7, <2>3, Zenon DEF k
<1>9. r \in 1 .. Len(data)
  BY <1>1, <1>2, <1>8
<1>10. /\ SubSeq(data, 1, r) = SubSeq(b, 1, r)
       /\ SubSeq(data, r + 1, Len(data)) \in Seq(Byte) /\ Len(SubSeq(data, r + 1, Len(data))) = Len(data) - r
       /\ SubSeq(data, r + 1, Len(data)) \o wire = SubSeq(b, r + 1, Len(b))
  BY <1>2, <1>9, CutKeepsBytes DEF b
<1>11. data' \in Seq(Byte) /\ Len(data') = Len(data) - r /\ data' \o wire' = SubSeq(b, r + 1, Len(b))
  BY <1>1, <1>10
<1>12. TypeOK'
  <2>1. BufferSize \in Nat /\ Len(data) <= BufferSize
    BY Sequences DEF IndInv, TypeOK
  <2>2. Len(data') <= BufferSize
    BY <1>2, <1>9, <1>11, <2>1
  <2> QED
    BY <1>1, <1>11, <2>2 DEF IndInv, TypeOK
<1> DEFINE c == sent[g + 1]
<1>13. c \in Seq(Byte) /\ got' = Append(got, c) /\ got \in Seq(Seq(Byte))
  <2>1. c \in Seq(Byte)
    BY <1>2, <1>8
  <2>2. SubSeq(data, 1, r) = c
    BY <1>8, <1>10
  <2>3. got' = Append(got, SubSeq(data, 1, r))
    BY <1>1
  <2>4. got \in Seq(Seq(Byte))
    BY DEF IndInv, Ledger
  <2> HIDE DEF c
  <2> QED
    BY <2>1, <2>2, <2>3, <2>4, Zenon
<1>14. /\ got' \in Seq(Seq(Byte)) /\ Len(got') = g + 1 /\ got'[g + 1] = c
       /\ \A i \in 1 .. g : got'[i] = got[i]
  <2> HIDE DEF c
  <2> QED
    BY <1>13 DEF g
<1>15. Ledger'
  <2>1. \A i \in 1 .. g : got[i] = sent[i]
    BY DEF IndInv, Ledger, g
  <2>2. \A i \in 1 .. g + 1 : i = g + 1 \/ i \in 1 .. g
    BY <1>2
  <2>3. \A i \in 1 .. Len(got') : got'[i] = sent[i]
    BY <1>14, <2>1, <2>2
  <2>4. Len(got') <= Len(sent)
    BY <1>8, <1>14
  <2> QED
    BY <1>1, <1>2, <1>4, <1>14, <2>3, <2>4 DEF Ledger
<1>16. UnderWay'
  <2>1. Complete' = Complete
    BY <1>1 DEF Complete
  <2>2. Laid(off, sent', Len(got'), data' \o wire', Complete')
    BY <1>1, <1>8, <1>11, <1>14, <2>1
  <2> QED
    BY <2>2 DEF UnderWay
<1> QED
  BY <1>12, <1>15, <1>16 DEF IndInv

\* The steps that touch neither the buffer nor the wire.
LEMMA OtherStepsInv ==
    ASSUME IndInv,
           PeerClose \/ ReadChunk \/ EmptyReadRetry \/ EmptyReadFails \/ EmptyReadIgnored \/ ReadError
             \/ UNCHANGED vars
    PROVE  IndInv'
<1>1. UNCHANGED <<sent, broken, got>> /\ (link' = link \/ (link = "open" /\ link' = "closed"))
  BY Zenon DEF PeerClose, ReadChunk, EmptyReadRetry, EmptyReadFails, EmptyReadIgnored, ReadError, vars
<1>2. data' = data /\ wire' = wire
  BY Zenon DEF PeerClose, ReadChunk, EmptyReadRetry, EmptyReadFails, EmptyReadIgnored, ReadError, vars
<1>3. pc' \in {"idle", "loop", "failed"} /\ retry' \in 0 .. 3
  BY DEF IndInv, TypeOK, PeerClose, ReadChunk, EmptyReadRetry, EmptyReadFails, EmptyReadIgnored,
     ReadError, vars
<1>4. link' \in {"open", "closed", "reset"}
  BY <1>1 DEF IndInv, TypeOK
<1>5. TypeOK'
  BY <1>1, <1>2, <1>3, <1>4 DEF IndInv, TypeOK
<1>6. data' \o wire' = data \o wire
  BY <1>2
<1> QED
  BY <1>1, <1>5, <1>6, StaysInv, Zenon

LEMMA NextInv == IndInv /\ [Next]_vars => IndInv'
<1> SUFFICES ASSUME IndInv, [Next]_vars PROVE IndInv'
  OBVIOUS
<1>1. ASSUME NEW c \in Contents, PeerSend(c) PROVE IndInv'
  BY <1>1, PeerSendInv
<1>2. ASSUME NEW c \in Contents, NEW k \in 1 .. Len(c) + 1, PeerBreakOff(c, k) PROVE IndInv'
  BY <1>2, PeerBreakOffInv
<1>3. CASE PeerReset
  BY <1>3, PeerResetInv
<1>4. CASE ReturnChunk
  BY <1>4, ReturnChunkInv
<1>5. ASSUME NEW n \in Readable, ReadSome(n) PROVE IndInv'
  BY <1>5, ReadSomeInv
<1>6. CASE PeerClose \/ ReadChunk \/ EmptyReadRetry \/ EmptyReadFails \/ EmptyReadIgnored \/ ReadError
             \/ UNCHANGED vars
  BY <1>6, OtherStepsInv
<1> QED
  BY <1>1, <1>2, <1>3, <1>4, <1>5, <1>6, Zenon DEF Next, Peer, Reader

----------------------------------------------------------------------------
(* The results.                                                            *)

\* In every behaviour of read_chunk and the other end, what was sent and not
\* yet returned is what the buffer and the connection hold, in order.
THEOREM IndInvHolds == Spec => []IndInv
<1>1. Init => IndInv
  BY InitInv
<1>2. IndInv /\ [Next]_vars => IndInv'
  BY NextInv
<1> QED
  BY <1>1, <1>2, PTL DEF Spec

\* The len of a ChunkBuffer never passes the end of its data array, however
\* the bytes arrive, and read_chunk counts at most three empty reads.
THEOREM BufferIsBounded == Spec => []TypeOK
<1>1. IndInv => TypeOK
  BY DEF IndInv
<1> QED
  BY <1>1, IndInvHolds, PTL

\* ChunkBuffer::read_chunk returns the chunks of the other end whole and in
\* order, for every way the stream is cut into reads and for every length.
THEOREM ChunksReturnedInOrder == Spec => []ChunksInOrder
<1>1. Ledger => ChunksInOrder
  <2> SUFFICES ASSUME Ledger PROVE ChunksInOrder
    OBVIOUS
  <2> DEFINE p == SubSeq(sent, 1, Len(got))
  <2>1. Len(got) \in 0 .. Len(sent) /\ sent \in Seq(Seq(Byte)) /\ got \in Seq(Seq(Byte))
    BY DEF Ledger
  <2>2. p \in Seq(Seq(Byte)) /\ Len(p) = Len(got) /\ \A i \in 1 .. Len(got) : p[i] = sent[i]
    BY <2>1
  <2> HIDE DEF p
  <2>3. got = p
    <3>1. \A i \in 1 .. Len(got) : got[i] = p[i]
      BY <2>2 DEF Ledger
    <3> QED
      BY <2>1, <2>2, <3>1, SeqEqual
  <2>4. SubSeq(got, 1, Len(got)) = got
    BY <2>1, SubSeqFull
  <2> QED
    BY <2>1, <2>3, <2>4 DEF ChunksInOrder, IsPrefix, p
<1>2. IndInv => ChunksInOrder
  BY <1>1 DEF IndInv
<1> QED
  BY <1>2, IndInvHolds, PTL
=============================================================================
