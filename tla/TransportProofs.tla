-------------------------- MODULE TransportProofs --------------------------
(***************************************************************************)
(* Proofs about Transport, for any unit size, page size, number of         *)
(* retries, size limit and set of snapshots.                               *)
(***************************************************************************)
EXTENDS Transport, SequenceTheorems, TLAPS

-----------------------------------------------------------------------------
(***************************************************************************)
(* Arithmetic of pages and of two-digit integers.                          *)
(***************************************************************************)

\* Multiplication by a page size is monotonic.
LEMMA TimesMonotonic ==
  ASSUME NEW a \in Nat, NEW b \in Nat, NEW c \in Nat, a <= b
  PROVE  a * c <= b * c
OBVIOUS

\* Division rounds down.
LEMMA DivisionBounds ==
  ASSUME NEW a \in Nat, NEW b \in Nat \ {0}
  PROVE  /\ a \div b \in Nat
         /\ (a \div b) * b <= a
         /\ a < (a \div b) * b + b
OBVIOUS

\* The elements of a sequence over S are in S.
LEMMA ElementType ==
  ASSUME NEW S, NEW s \in Seq(S), NEW i \in 1 .. Len(s)
  PROVE  s[i] \in S
OBVIOUS

\* The bytes of a snapshot are digits, and there are fewer than Base of them.
LEMMA DataType ==
  ASSUME data \in Snapshots
  PROVE  /\ data \in Seq(0 .. (Base - 1))
         /\ TotalBytes \in Nat /\ TotalBytes < Base
         /\ PageSize \in Nat /\ 0 < PageSize /\ PageSize < Base /\ Base \in Nat
BY SnapshotsAssumption, PageAssumption, BaseAssumption DEF TotalBytes, MsgError

\* PageCount pages are what TotalBytes bytes need: a page is counted exactly when
\* it starts before the end.
LEMMA Counting ==
  ASSUME data \in Snapshots
  PROVE  /\ PageCount \in Nat
         /\ \A n \in Nat : n * PageSize \in Nat /\ (n < PageCount <=> n * PageSize < TotalBytes)
<1> DEFINE total == TotalBytes
           P == PageSize
           q == (total + P - 1) \div P
<1>1. total \in Nat /\ P \in Nat /\ 0 < P
  BY DataType
<1> HIDE DEF total, P
<1>2. q \in Nat /\ q * P <= total + P - 1 /\ total + P - 1 < q * P + P
  <2> DEFINE a == total + P - 1
  <2>1. a \in Nat /\ P \in Nat \ {0}
    BY <1>1
  <2> HIDE DEF a
  <2>2. a \div P \in Nat /\ (a \div P) * P <= a /\ a < (a \div P) * P + P
    BY <2>1, DivisionBounds
  <2> QED
    BY <2>2 DEF a
<1> HIDE DEF q
<1>3. q * P \in Nat /\ \A n \in Nat : n * P \in Nat /\ (n + 1) * P = n * P + P
  BY <1>1, <1>2
<1>4. ASSUME NEW n \in Nat, n < q PROVE n * P < total
  <2>1. (n + 1) * P <= q * P
    BY <1>1, <1>2, <1>4, TimesMonotonic
  <2> QED
    BY <1>1, <1>2, <1>3, <2>1
<1>5. ASSUME NEW n \in Nat, ~(n < q) PROVE ~(n * P < total)
  <2>1. q * P <= n * P
    BY <1>1, <1>2, <1>5, TimesMonotonic
  <2> QED
    BY <1>1, <1>2, <1>3, <2>1
<1>6. PageCount = q
  BY DEF PageCount, q, total, P
<1> QED
  BY <1>2, <1>3, <1>4, <1>5, <1>6 DEF total, P

\* What Int2 writes, ReadFrom reads, for the numbers that occur in headers.
LEMMA IntegersDecode ==
  ASSUME NEW n \in Nat, n < 2 * Base
  PROVE  /\ n \div Base \in Nat /\ n % Base \in Nat
         /\ n \div Base < Base /\ n % Base < Base
         /\ (n \div Base) * Base + (n % Base) = n
<1>1. Base \in Nat /\ Base > 7
  BY BaseAssumption DEF MsgError
<1>2. CASE n < Base
  <2>1. n \div Base = 0 /\ n % Base = n
    BY <1>1, <1>2
  <2> QED
    BY <1>1, <1>2, <2>1
<1>3. CASE ~(n < Base)
  <2>1. n % Base = n - Base
    BY <1>1, <1>3
  <2>2. n \div Base = 1
    <3> DEFINE q == n \div Base
    <3>1. q \in Nat /\ q * Base <= n /\ n < q * Base + Base
      BY <1>1, DivisionBounds
    <3> HIDE DEF q
    <3>2. q # 0
      BY <1>1, <1>3, <3>1
    <3>3. ASSUME 2 <= q PROVE FALSE
      <4>1. 2 * Base <= q * Base
        BY <1>1, <3>1, <3>3, TimesMonotonic
      <4> QED
        BY <1>1, <3>1, <4>1
    <3> QED
      BY <3>1, <3>2, <3>3 DEF q
  <2>3. /\ 1 \in Nat /\ n - Base \in Nat /\ 1 < Base /\ n - Base < Base
        /\ 1 * Base + (n - Base) = n
    BY <1>1, <1>3
  <2> QED
    BY <2>1, <2>2, <2>3, Zenon
<1> QED
  BY <1>2, <1>3

-----------------------------------------------------------------------------
(***************************************************************************)
(* Pages, checksums and frames.                                            *)
(***************************************************************************)

Pages == 0 .. (PageCount - 1)

\* The n-th page is the bytes of the snapshot from n * PageSize on.
LEMMA PageIs ==
  ASSUME data \in Snapshots, NEW n \in Pages
  PROVE  /\ n * PageSize \in Nat /\ n * PageSize < TotalBytes
         /\ Page(n) \in Seq(0 .. (Base - 1))
         /\ Len(Page(n)) \in 1 .. PageSize
         /\ Len(Page(n)) = (IF (n + 1) * PageSize > TotalBytes THEN TotalBytes
                            ELSE (n + 1) * PageSize) - n * PageSize
         /\ n * PageSize + Len(Page(n)) <= TotalBytes
         /\ \A j \in 1 .. Len(Page(n)) : Page(n)[j] = data[n * PageSize + j]
<1> DEFINE first == n * PageSize
           end == (n + 1) * PageSize
           last == IF end > TotalBytes THEN TotalBytes ELSE end
<1>1. /\ data \in Seq(0 .. (Base - 1))
      /\ TotalBytes \in Nat /\ PageSize \in Nat /\ 0 < PageSize
  BY DataType
<1>2. n \in Nat /\ n < PageCount /\ first \in Nat /\ first < TotalBytes
  BY Counting DEF Pages
<1>3. end = first + PageSize
  BY <1>1, <1>2
<1>4. Page(n) = SubSeq(data, first + 1, last)
  BY DEF Page
<1> HIDE DEF first, end
<1>5. last \in Nat /\ first + 1 <= last /\ last <= TotalBytes /\ last - first <= PageSize
  BY <1>1, <1>2, <1>3
<1> HIDE DEF last
<1>6. \A i \in (first + 1) .. last : data[i] \in 0 .. (Base - 1)
  <2>1. \A i \in (first + 1) .. last : i \in 1 .. TotalBytes
    BY <1>1, <1>2, <1>5
  <2>2. \A i \in 1 .. TotalBytes : data[i] \in 0 .. (Base - 1)
    BY <1>1, ElementType DEF TotalBytes
  <2> QED
    BY <2>1, <2>2
<1>7. /\ Page(n) \in Seq(0 .. (Base - 1))
      /\ Len(Page(n)) = last - first
      /\ \A j \in 1 .. (last - first) : Page(n)[j] = data[first + j]
  <2> DEFINE a == first + 1
  <2>1. a \in Int /\ last \in Int /\ a <= last /\ last - a + 1 = last - first
    BY <1>2, <1>5
  <2> HIDE DEF a
  <2>2. /\ SubSeq(data, a, last) \in Seq(0 .. (Base - 1))
        /\ Len(SubSeq(data, a, last)) = last - a + 1
        /\ \A i \in 1 .. (last - a + 1) : SubSeq(data, a, last)[i] = data[a + i - 1]
    BY <1>6, <2>1, SubSeqProperties DEF a
  <2>3. \A j \in 1 .. (last - first) : a + j - 1 = first + j
    BY <1>2, <1>5 DEF a
  <2> QED
    BY <1>4, <2>1, <2>2, <2>3 DEF a
<1> QED
  BY <1>1, <1>2, <1>5, <1>7 DEF first, end, last

\* The checksum of a page is a digit like any other.
LEMMA ChecksumIs ==
  ASSUME data \in Snapshots, NEW n \in Pages
  PROVE  HashPage(Page(n)) \in Nat /\ HashPage(Page(n)) < Base
<1> DEFINE first == n * PageSize
           end == (n + 1) * PageSize
           last == IF end > TotalBytes THEN TotalBytes ELSE end
<1>1. TotalBytes \in Nat /\ PageSize \in Nat /\ 0 < PageSize /\ Base \in Nat
  BY DataType
<1>2. n \in Nat /\ first \in Nat /\ first < TotalBytes
  BY Counting DEF Pages
<1>3. end = first + PageSize
  BY <1>1, <1>2
<1>4. Page(n) = SubSeq(data, first + 1, last)
  BY DEF Page
<1> HIDE DEF first, end
<1>5. first + 1 \in 1 .. TotalBytes /\ last \in 1 .. TotalBytes
  BY <1>1, <1>2, <1>3
<1> HIDE DEF last
<1>6. XXHash64(SubSeq(data, first + 1, last)) \in 0 .. (Base - 1)
  BY <1>5, HashAssumption DEF TotalBytes
<1> QED
  BY <1>1, <1>4, <1>6 DEF HashPage

\* A frame is its header of four units and its payload.
LEMMA FrameIs ==
  ASSUME NEW type \in Nat, type < 2 * Base,
         NEW payload \in Seq(Nat), Len(payload) < 2 * Base
  PROVE  LET f == Frame(type, payload)
         IN  /\ f \in Seq(Nat)
             /\ Len(f) = HeaderLen + Len(payload)
             /\ \A j \in 1 .. HeaderLen : f[j] < Base
             /\ f[1] * Base + f[2] = type
             /\ f[3] * Base + f[4] = Len(payload)
             /\ \A j \in 1 .. Len(payload) : f[HeaderLen + j] = payload[j]
<1> DEFINE a == Int2(type)
           b == Int2(Len(payload))
           n == Len(payload)
<1>1. n \in Nat
  OBVIOUS
<1>2. /\ a = <<type \div Base, type % Base>> /\ a \in Seq(Nat) /\ Len(a) = 2
      /\ a[1] < Base /\ a[2] < Base /\ a[1] * Base + a[2] = type
  BY IntegersDecode DEF Int2
<1>3. /\ b = <<n \div Base, n % Base>> /\ b \in Seq(Nat) /\ Len(b) = 2
      /\ b[1] < Base /\ b[2] < Base /\ b[1] * Base + b[2] = n
  BY <1>1, IntegersDecode DEF Int2
<1> HIDE DEF a, b, n
<1>4. /\ a \o b \in Seq(Nat) /\ Len(a \o b) = 4
      /\ (a \o b)[1] = a[1] /\ (a \o b)[2] = a[2]
      /\ (a \o b)[3] = b[1] /\ (a \o b)[4] = b[2]
  BY <1>2, <1>3
<1> DEFINE h == a \o b
           f == h \o payload
<1>5. h \in Seq(Nat) /\ Len(h) = 4
  BY <1>4
<1> HIDE DEF h
<1>6. /\ f \in Seq(Nat) /\ Len(f) = 4 + n
      /\ f[1] = h[1] /\ f[2] = h[2] /\ f[3] = h[3] /\ f[4] = h[4]
      /\ \A j \in 1 .. n : f[4 + j] = payload[j]
  <2>1. payload \in Seq(Nat) /\ Len(payload) = n
    BY DEF n
  <2>2. /\ f \in Seq(Nat) /\ Len(f) = 4 + n
        /\ \A i \in 1 .. 4 + n : f[i] = IF i <= 4 THEN h[i] ELSE payload[i - 4]
    <3>1. /\ h \o payload \in Seq(Nat)
          /\ Len(h \o payload) = Len(h) + Len(payload)
          /\ \A i \in 1 .. Len(h) + Len(payload) :
                (h \o payload)[i] = IF i <= Len(h) THEN h[i] ELSE payload[i - Len(h)]
      BY <1>5, ConcatProperties, Zenon
    <3> QED
      BY <1>5, <2>1, <3>1
  <2> HIDE DEF f
  <2>3. \A j \in 1 .. n : 4 + j \in 1 .. 4 + n /\ ~(4 + j <= 4) /\ 4 + j - 4 = j
    BY <1>1
  <2> QED
    BY <1>1, <2>2, <2>3
<1>7. Frame(type, payload) = f
  BY DEF Frame, a, b, h
<1> HIDE DEF f
<1>8. \A j \in 1 .. 4 : f[j] < Base
  BY <1>2, <1>3, <1>4, <1>6 DEF h
<1> QED
  BY <1>2, <1>3, <1>4, <1>6, <1>7, <1>8 DEF HeaderLen, n, h

\* The units of a data block.
LEMMA BlockFrameIs ==
  ASSUME data \in Snapshots, NEW n \in Pages
  PROVE  LET f == BlockFrame(n)
             k == Len(Page(n))
         IN  /\ f \in Seq(Nat)
             /\ k \in Nat /\ Len(f) = 7 + k
             /\ f[1] * Base + f[2] = MsgDataBlock
             /\ f[3] * Base + f[4] = BlockHeaderLen + k
             /\ f[5] = n * PageSize
             /\ f[6] = HashPage(Page(n))
             /\ f[7] = k
             /\ \A j \in 1 .. k : f[7 + j] = Page(n)[j]
<1> DEFINE page == Page(n)
           k == Len(page)
           first == n * PageSize
           sum == HashPage(page)
           head == <<first, sum, k>>
           payload == head \o page
           f == Frame(MsgDataBlock, payload)
<1>1. /\ first \in Nat /\ first < Base
      /\ page \in Seq(0 .. (Base - 1))
      /\ k \in Nat /\ k < Base
      /\ Base \in Nat /\ 7 < Base
  BY PageIs, DataType, BaseAssumption DEF MsgError
<1>2. sum \in Nat
  BY ChecksumIs
<1>3. BlockFrame(n) = f
  BY DEF BlockFrame
<1> HIDE DEF first, sum
<1>4. \A j \in 1 .. k : page[j] \in Nat /\ page[j] < Base
  <2>1. \A j \in 1 .. k : page[j] \in 0 .. (Base - 1)
    BY <1>1, ElementType
  <2> QED
    BY <1>1, <2>1
<1>5. page \in Seq(Nat)
  <2>1. 0 .. (Base - 1) \subseteq Nat
    BY <1>1
  <2> QED
    BY <1>1, <2>1
<1> HIDE DEF page
<1>6. head \in Seq(Nat) /\ Len(head) = 3 /\ head[1] = first /\ head[2] = sum /\ head[3] = k
  BY <1>1, <1>2
<1> HIDE DEF head
<1>7. /\ payload \in Seq(Nat) /\ Len(payload) = 3 + k
      /\ payload[1] = first /\ payload[2] = sum /\ payload[3] = k
      /\ \A j \in 1 .. k : payload[3 + j] = page[j]
  <2>1. /\ head \o page \in Seq(Nat)
        /\ Len(head \o page) = Len(head) + Len(page)
        /\ \A i \in 1 .. Len(head) + Len(page) :
              (head \o page)[i] = IF i <= Len(head) THEN head[i] ELSE page[i - Len(head)]
    BY <1>5, <1>6, ConcatProperties, Zenon
  <2> HIDE DEF k
  <2>2. /\ payload \in Seq(Nat) /\ Len(payload) = 3 + k
        /\ \A i \in 1 .. (3 + k) : payload[i] = IF i <= 3 THEN head[i] ELSE page[i - 3]
    BY <1>1, <1>6, <2>1 DEF k
  <2> HIDE DEF payload
  <2>3. \A j \in 1 .. k : 3 + j \in 1 .. (3 + k) /\ ~(3 + j <= 3) /\ 3 + j - 3 = j
    BY <1>1
  <2>4. 1 \in 1 .. (3 + k) /\ 2 \in 1 .. (3 + k) /\ 3 \in 1 .. (3 + k)
    BY <1>1
  <2> QED
    BY <1>6, <2>2, <2>3, <2>4
<1> HIDE DEF payload, k
<1>8. /\ f \in Seq(Nat)
      /\ Len(f) = 4 + Len(payload)
      /\ \A j \in 1 .. 4 : f[j] < Base
      /\ f[1] * Base + f[2] = MsgDataBlock
      /\ f[3] * Base + f[4] = Len(payload)
      /\ \A j \in 1 .. Len(payload) : f[4 + j] = payload[j]
  <2>1. MsgDataBlock \in Nat /\ MsgDataBlock < 2 * Base /\ Len(payload) < 2 * Base
    BY <1>1, <1>7 DEF MsgDataBlock
  <2> QED
    BY <1>7, <2>1, FrameIs DEF HeaderLen
<1> HIDE DEF f
<1>9. /\ Len(f) = 7 + k
      /\ \A j \in 1 .. (3 + k) : f[4 + j] = payload[j]
  BY <1>1, <1>7, <1>8
<1>10. f[5] = first /\ f[6] = sum /\ f[7] = k
  <2>1. 1 \in 1 .. (3 + k) /\ 2 \in 1 .. (3 + k) /\ 3 \in 1 .. (3 + k)
    BY <1>1
  <2>2. f[4 + 1] = payload[1] /\ f[4 + 2] = payload[2] /\ f[4 + 3] = payload[3]
    BY <1>9, <2>1
  <2> QED
    BY <1>7, <2>2
<1>11. ASSUME NEW j \in 1 .. k PROVE f[7 + j] = page[j]
  <2>1. 3 + j \in 1 .. (3 + k) /\ 4 + (3 + j) = 7 + j
    BY <1>1
  <2> QED
    BY <1>7, <1>9, <2>1
<1> QED
  BY <1>1, <1>3, <1>7, <1>8, <1>9, <1>10, <1>11
     DEF BlockHeaderLen, page, k, first, sum

\* The frame of MsgComplete is a header without a payload.
LEMMA CompleteIs ==
  LET f == Frame(MsgComplete, <<>>)
  IN  /\ f \in Seq(Nat) /\ Len(f) = 4
      /\ f[1] * Base + f[2] = MsgComplete
      /\ f[3] * Base + f[4] = 0
      /\ \A j \in 1 .. 4 : f[j] < Base
<1>1. /\ MsgComplete \in Nat /\ MsgComplete < 2 * Base
      /\ <<>> \in Seq(Nat) /\ Len(<<>>) = 0 /\ 0 < 2 * Base
  BY BaseAssumption DEF MsgComplete, MsgError
<1> DEFINE none == <<>>
           f == Frame(MsgComplete, none)
<1>2. none \in Seq(Nat) /\ Len(none) = 0 /\ Len(none) < 2 * Base
  BY <1>1
<1> HIDE DEF none
<1>3. /\ f \in Seq(Nat)
      /\ Len(f) = 4 + Len(none)
      /\ \A j \in 1 .. 4 : f[j] < Base
      /\ f[1] * Base + f[2] = MsgComplete
      /\ f[3] * Base + f[4] = Len(none)
  BY <1>1, <1>2, FrameIs DEF HeaderLen
<1> HIDE DEF f
<1>4. /\ f \in Seq(Nat) /\ Len(f) = 4
      /\ f[1] * Base + f[2] = MsgComplete
      /\ f[3] * Base + f[4] = 0
      /\ \A j \in 1 .. 4 : f[j] < Base
  BY <1>2, <1>3
<1> QED
  BY <1>4 DEF f, none

-----------------------------------------------------------------------------
(***************************************************************************)
(* The ends of the stream.                                                 *)
(***************************************************************************)

\* The frame that is next to be written, or was written last.
NextFrame == IF blk < PageCount THEN BlockFrame(blk) ELSE Frame(MsgComplete, <<>>)

\* A prefix of a sequence of units.
LEMMA PrefixIs ==
  ASSUME NEW f \in Seq(Nat), NEW k \in 0 .. Len(f)
  PROVE  /\ SubSeq(f, 1, k) \in Seq(Nat)
         /\ Len(SubSeq(f, 1, k)) = k
         /\ \A j \in 1 .. k : SubSeq(f, 1, k)[j] = f[j]
         /\ SubSeq(f, 1, Len(f)) = f
<1>1. Len(f) \in Nat /\ k \in Nat /\ k <= Len(f)
  OBVIOUS
<1>2. \A j \in 1 .. k : f[j] \in Nat
  <2>1. \A j \in 1 .. k : j \in 1 .. Len(f)
    BY <1>1
  <2> QED
    BY <2>1, ElementType
<1>3. /\ SubSeq(f, 1, k) \in Seq(Nat)
      /\ Len(SubSeq(f, 1, k)) = IF 1 <= k THEN k - 1 + 1 ELSE 0
      /\ \A j \in 1 .. k - 1 + 1 : SubSeq(f, 1, k)[j] = f[1 + j - 1]
  BY <1>1, <1>2, SubSeqProperties
<1>4. SubSeq(f, 1, Len(f)) = f
  BY SubSeqFull
<1> QED
  BY <1>1, <1>3, <1>4

\* Units are appended at the end of the stream ...
LEMMA Appended ==
  ASSUME wire \in Seq(Nat), NEW s \in Seq(Nat), wire' = wire \o s
  PROVE  /\ wire' \in Seq(Nat)
         /\ Len(wire') = Len(wire) + Len(s)
         /\ \A i \in 1 .. Len(wire) : wire'[i] = wire[i]
         /\ \A j \in 1 .. Len(s) : wire'[Len(wire) + j] = s[j]
<1>1. /\ wire \o s \in Seq(Nat)
      /\ Len(wire \o s) = Len(wire) + Len(s)
      /\ \A i \in 1 .. Len(wire) + Len(s) :
            (wire \o s)[i] = IF i <= Len(wire) THEN wire[i] ELSE s[i - Len(wire)]
  BY ConcatProperties
<1>2. Len(wire) \in Nat /\ Len(s) \in Nat
  OBVIOUS
<1>3. ASSUME NEW j \in 1 .. Len(s) PROVE wire'[Len(wire) + j] = s[j]
  <2>1. /\ Len(wire) + j \in 1 .. Len(wire) + Len(s)
        /\ ~(Len(wire) + j <= Len(wire)) /\ Len(wire) + j - Len(wire) = j
    BY <1>2
  <2> QED
    BY <1>1, <2>1
<1>4. ASSUME NEW i \in 1 .. Len(wire) PROVE wire'[i] = wire[i]
  <2>1. i \in 1 .. Len(wire) + Len(s) /\ i <= Len(wire)
    BY <1>2
  <2> QED
    BY <1>1, <2>1
<1> QED
  BY <1>1, <1>3, <1>4

\* ... and frames are taken from its front.
LEMMA Consumed ==
  ASSUME wire \in Seq(Nat), FrameArrived, ConsumeFrame
  PROVE  /\ WireLen \in Nat /\ 4 + WireLen <= Len(wire)
         /\ wire' \in Seq(Nat)
         /\ Len(wire') = Len(wire) - (4 + WireLen)
         /\ \A i \in 1 .. Len(wire') : wire'[i] = wire[4 + WireLen + i]
<1> DEFINE a == 4 + WireLen + 1
           n == Len(wire)
<1>1. n \in Nat /\ 4 <= n /\ 4 + WireLen <= n
  BY DEF FrameArrived, HeaderLen
<1>2. WireLen \in Nat
  <2>1. wire[3] \in Nat /\ wire[4] \in Nat
    BY <1>1, ElementType
  <2> QED
    BY <2>1, BaseAssumption DEF WireLen
<1>3. wire' = SubSeq(wire, a, n)
  BY DEF ConsumeFrame, HeaderLen
<1>4. a \in Nat /\ 1 <= a /\ a <= n + 1 /\ n - a + 1 = n - (4 + WireLen)
  BY <1>1, <1>2
<1>5. \A i \in a .. n : wire[i] \in Nat
  <2>1. \A i \in a .. n : i \in 1 .. n
    BY <1>1, <1>4
  <2> QED
    BY <2>1, ElementType
<1>6. \A i \in 1 .. (n - a + 1) : a + i - 1 = 4 + WireLen + i
  BY <1>2
<1> HIDE DEF a, n
<1>7. /\ wire' \in Seq(Nat)
      /\ Len(wire') = IF a <= n THEN n - a + 1 ELSE 0
      /\ \A i \in 1 .. (n - a + 1) : wire'[i] = wire[a + i - 1]
  BY <1>1, <1>3, <1>4, <1>5, SubSeqProperties
<1>8. Len(wire') = n - a + 1
  BY <1>1, <1>4, <1>7
<1> QED
  BY <1>1, <1>2, <1>4, <1>6, <1>7, <1>8 DEF n

\* What receiveOne sees of the frame at the front.
LEMMA PayloadIs ==
  ASSUME wire \in Seq(Nat), FrameArrived
  PROVE  /\ WireLen \in Nat
         /\ Payload \in Seq(Nat)
         /\ Len(Payload) = WireLen
         /\ \A j \in 1 .. WireLen : Payload[j] = wire[4 + j]
<1> DEFINE b == 4 + WireLen
<1>1. Len(wire) \in Nat /\ 4 <= Len(wire) /\ b <= Len(wire)
  BY DEF FrameArrived, HeaderLen
<1>2. WireLen \in Nat
  <2>1. wire[3] \in Nat /\ wire[4] \in Nat
    BY <1>1, ElementType
  <2> QED
    BY <2>1, BaseAssumption DEF WireLen
<1>3. Payload = SubSeq(wire, 5, b)
  BY DEF Payload, HeaderLen
<1>4. b \in Nat /\ b - 5 + 1 = WireLen /\ \A j \in 1 .. WireLen : 5 + j - 1 = 4 + j
  BY <1>2
<1>5. \A i \in 5 .. b : wire[i] \in Nat
  <2>1. \A i \in 5 .. b : i \in 1 .. Len(wire)
    BY <1>1, <1>4
  <2> QED
    BY <2>1, ElementType
<1>6. (5 <= b) <=> (WireLen # 0)
  BY <1>2
<1> HIDE DEF b
<1>7. /\ Payload \in Seq(Nat)
      /\ Len(Payload) = IF 5 <= b THEN b - 5 + 1 ELSE 0
      /\ \A i \in 1 .. (b - 5 + 1) : Payload[i] = wire[5 + i - 1]
  BY <1>3, <1>4, <1>5, SubSeqProperties
<1> QED
  BY <1>2, <1>4, <1>6, <1>7

\* A block that passes the length checks.
LEMMA BlockDataIs ==
  ASSUME wire \in Seq(Nat), FrameArrived, 3 <= Len(Payload),
         BlockDataLen <= Len(Payload) - 3
  PROVE  /\ 3 <= WireLen
         /\ BlockOffset = wire[5] /\ BlockOffset \in Nat
         /\ BlockChecksum = wire[6]
         /\ BlockDataLen = wire[7] /\ BlockDataLen \in Nat
         /\ BlockData \in Seq(Nat)
         /\ Len(BlockData) = BlockDataLen
         /\ \A j \in 1 .. BlockDataLen : BlockData[j] = wire[7 + j]
<1> DEFINE n == BlockDataLen
           p == Payload
<1>1. /\ WireLen \in Nat /\ p \in Seq(Nat) /\ Len(p) = WireLen
      /\ \A j \in 1 .. WireLen : p[j] = wire[4 + j]
  BY PayloadIs
<1>2. 3 <= WireLen
  BY <1>1
<1>3. /\ BlockOffset = p[1] /\ BlockChecksum = p[2] /\ n = p[3]
      /\ BlockData = SubSeq(p, 4, 3 + n)
  BY DEF BlockOffset, BlockChecksum, BlockDataLen, BlockData, BlockHeaderLen
<1>4. 1 \in 1 .. WireLen /\ 2 \in 1 .. WireLen /\ 3 \in 1 .. WireLen
  BY <1>1, <1>2
<1>5. p[1] = wire[5] /\ p[2] = wire[6] /\ p[3] = wire[7]
  <2>1. p[1] = wire[4 + 1] /\ p[2] = wire[4 + 2] /\ p[3] = wire[4 + 3]
    BY <1>1, <1>4
  <2> QED
    BY <2>1
<1>6. p[1] \in Nat /\ p[3] \in Nat
  BY <1>1, <1>4, ElementType
<1>7. n \in Nat /\ 3 + n <= WireLen
  BY <1>1, <1>3, <1>6
<1> HIDE DEF n, p
<1>8. \A i \in 4 .. (3 + n) : p[i] \in Nat
  <2>1. \A i \in 4 .. (3 + n) : i \in 1 .. Len(p)
    BY <1>1, <1>7
  <2> QED
    BY <1>1, <2>1, ElementType
<1>9. /\ BlockData \in Seq(Nat)
      /\ Len(BlockData) = IF 4 <= 3 + n THEN 3 + n - 4 + 1 ELSE 0
      /\ \A i \in 1 .. (3 + n - 4 + 1) : BlockData[i] = p[4 + i - 1]
  BY <1>3, <1>7, <1>8, SubSeqProperties
<1>10. Len(BlockData) = n
  BY <1>7, <1>9
<1>11. ASSUME NEW j \in 1 .. n PROVE BlockData[j] = wire[7 + j]
  <2>1. j \in 1 .. (3 + n - 4 + 1) /\ 3 + j \in 1 .. WireLen /\ 4 + (3 + j) = 7 + j
        /\ 4 + j - 1 = 3 + j
    BY <1>1, <1>7
  <2> QED
    BY <1>1, <1>9, <2>1
<1> QED
  BY <1>2, <1>3, <1>5, <1>6, <1>7, <1>9, <1>10, <1>11 DEF n

\* The frame that is next decodes to its own length.
LEMMA NextFrameIs ==
  ASSUME data \in Snapshots, blk \in 0 .. PageCount
  PROVE  /\ NextFrame \in Seq(Nat)
         /\ Len(NextFrame) \in Nat /\ 4 <= Len(NextFrame)
         /\ NextFrame[3] * Base + NextFrame[4] = Len(NextFrame) - 4
<1>1. PageCount \in Nat /\ blk \in Nat /\ Base \in Nat
  BY Counting, DataType
<1>2. CASE blk < PageCount
  <2> DEFINE f == BlockFrame(blk)
             k == Len(Page(blk))
  <2>1. blk \in Pages /\ NextFrame = f
    BY <1>1, <1>2 DEF Pages, NextFrame
  <2>2. /\ f \in Seq(Nat)
        /\ k \in Nat /\ Len(f) = 7 + k
        /\ f[3] * Base + f[4] = 3 + k
    BY <2>1, BlockFrameIs DEF BlockHeaderLen
  <2> HIDE DEF f, k
  <2>3. Len(f) \in Nat /\ 4 <= Len(f) /\ 3 + k = Len(f) - 4
    BY <2>2
  <2> QED
    BY <2>1, <2>2, <2>3
<1>3. CASE ~(blk < PageCount)
  <2> DEFINE f == Frame(MsgComplete, <<>>)
  <2>1. NextFrame = f
    BY <1>3 DEF NextFrame
  <2>2. /\ f \in Seq(Nat) /\ Len(f) = 4
        /\ f[3] * Base + f[4] = 0
    BY CompleteIs
  <2> HIDE DEF f
  <2> QED
    BY <2>1, <2>2
<1> QED
  BY <1>2, <1>3

\* A part of the next frame is written.
Writes(k) == wire' = wire \o SubSeq(NextFrame, 1, k)

\* The stream after a part of the next frame was written.
LEMMA Written ==
  ASSUME data \in Snapshots, blk \in 0 .. PageCount, wire \in Seq(Nat),
         NEW k \in 0 .. Len(NextFrame), Writes(k)
  PROVE  /\ wire' \in Seq(Nat)
         /\ Len(wire') = Len(wire) + k
         /\ \A i \in 1 .. Len(wire) : wire'[i] = wire[i]
         /\ \A j \in 1 .. k : wire'[Len(wire) + j] = NextFrame[j]
<1> DEFINE s == SubSeq(NextFrame, 1, k)
<1>1. NextFrame \in Seq(Nat)
  BY NextFrameIs
<1>2. s \in Seq(Nat) /\ Len(s) = k /\ \A j \in 1 .. k : s[j] = NextFrame[j]
  BY <1>1, PrefixIs
<1>3. wire' = wire \o s
  BY DEF Writes
<1> HIDE DEF s
<1>4. /\ wire' \in Seq(Nat)
      /\ Len(wire') = Len(wire) + Len(s)
      /\ \A i \in 1 .. Len(wire) : wire'[i] = wire[i]
      /\ \A j \in 1 .. Len(s) : wire'[Len(wire) + j] = s[j]
  BY <1>2, <1>3, Appended
<1> QED
  BY <1>2, <1>4

\* What a step of the transmitter does: it ends or moves on without a word, writes
\* a whole block or the whole MsgComplete, or fails with a proper prefix written.
LEMMA TransmitCases ==
  ASSUME data \in Snapshots, blk \in 0 .. PageCount, Transmit
  PROVE  \/ UNCHANGED <<wire, blk, attempt, resent>> /\ tx \in {"dial", "handshake", "await_ack"}
         \/ /\ SendBlock /\ blk < PageCount /\ Writes(Len(NextFrame))
         \/ /\ SendBlockFails
            /\ blk < PageCount
            /\ \E k \in 0 .. (Len(NextFrame) - 1) :
                  /\ Writes(k)
                  /\ IF attempt < MaxRetries
                     THEN /\ attempt' = attempt + 1
                          /\ resent' = (resent \/ k > 0)
                          /\ UNCHANGED tx
                     ELSE tx' = "error" /\ UNCHANGED <<attempt, resent>>
         \/ /\ SendComplete /\ blk = PageCount
            /\ UNCHANGED <<blk, attempt, resent>>
            /\ \/ tx' = "ok" /\ Writes(Len(NextFrame))
               \/ tx' = "error" /\ \E k \in 0 .. (Len(NextFrame) - 1) : Writes(k)
<1>1. PageCount \in Nat /\ blk \in Nat
  BY Counting
<1>2. NextFrame \in Seq(Nat) /\ SubSeq(NextFrame, 1, Len(NextFrame)) = NextFrame
  BY NextFrameIs, PrefixIs
<1>3. CASE Dial \/ SendHandshake \/ ReadReadyAck
  BY <1>3 DEF Dial, SendHandshake, ReadReadyAck, TxGives
<1>4. CASE SendBlock
  <2>1. blk < PageCount /\ wire' = wire \o BlockFrame(blk)
    BY <1>4 DEF SendBlock
  <2> QED
    BY <1>2, <1>4, <2>1 DEF NextFrame, Writes
<1>5. CASE SendBlockFails
  <2>1. blk < PageCount /\ NextFrame = BlockFrame(blk)
    BY <1>5 DEF SendBlockFails, NextFrame
  <2> QED
    BY <1>5, <2>1 DEF SendBlockFails, Writes
<1>6. CASE SendComplete
  <2> DEFINE f == Frame(MsgComplete, <<>>)
  <2>1. blk = PageCount /\ NextFrame = f /\ Len(f) = 4
    BY <1>1, <1>6, CompleteIs DEF SendComplete, NextFrame
  <2>2. CASE wire' = wire \o f /\ TxGives("ok")
    BY <1>2, <1>6, <2>1, <2>2 DEF Writes, TxGives
  <2>3. ASSUME NEW k \in 0 .. 3, wire' = wire \o SubSeq(f, 1, k), TxGives("error")
        PROVE  /\ UNCHANGED <<blk, attempt, resent>>
               /\ tx' = "error" /\ \E j \in 0 .. (Len(NextFrame) - 1) : Writes(j)
    <3>1. k \in 0 .. (Len(NextFrame) - 1)
      <4> HIDE DEF f
      <4> QED
        BY <2>1
    <3>2. Writes(k)
      BY <2>1, <2>3, Zenon DEF Writes
    <3> QED
      BY <2>3, <3>1, <3>2, Zenon DEF TxGives
  <2>4. \/ wire' = wire \o f /\ TxGives("ok")
        \/ \E k \in 0 .. (HeaderLen - 1) :
              wire' = wire \o SubSeq(f, 1, k) /\ TxGives("error")
    BY <1>6, Zenon DEF SendComplete
  <2>5. 0 .. (HeaderLen - 1) = 0 .. 3
    BY DEF HeaderLen
  <2> HIDE DEF f
  <2> QED
    BY <1>6, <2>1, <2>2, <2>3, <2>4, <2>5, Zenon
<1> QED
  BY <1>3, <1>4, <1>5, <1>6 DEF Transmit

-----------------------------------------------------------------------------
(***************************************************************************)
(* Type correctness and the order of the handshake.                        *)
(***************************************************************************)

\* The parts of the type invariant.
TxOK ==
    /\ tx \in {"dial", "handshake", "await_ack", "blocks", "ok", "error"}
    /\ blk \in 0 .. PageCount
    /\ attempt \in 0 .. MaxRetries
    /\ resent \in BOOLEAN

RxOK ==
    /\ rx \in {"accept", "handshake", "receiving", "done", "error"}
    /\ buf \in Seq(Units)
    /\ written \in Nat
    /\ result \in Seq(Units)

StreamOK ==
    /\ data \in Snapshots
    /\ hs \in {"none", "sent", "accepted", "rejected"}
    /\ link \in {"up", "down"}
    /\ wire \in Seq(Units)

\* The type invariant is the conjunction of its parts.
LEMMA TypeParts == TypeOK <=> TxOK /\ RxOK /\ StreamOK
BY DEF TypeOK, TxOK, RxOK, StreamOK

\* Nothing is written before the transfer was accepted, and the buffer of a
\* receiver that waits for blocks is as long as the snapshot.
ControlInv ==
    /\ tx = "dial" => rx = "accept"
    /\ tx \in {"dial", "handshake"} => hs = "none"
    /\ hs # "accepted" => tx \notin {"blocks", "ok"} /\ blk = 0 /\ wire = <<>>
    /\ rx \in {"accept", "handshake"} => written = 0
    /\ rx = "receiving" => hs = "accepted" /\ Len(buf) = TotalBytes

\* The initial states have the right types, and nobody has moved.
LEMMA InitType == Init => TypeOK /\ ControlInv
<1> SUFFICES ASSUME Init PROVE TypeOK /\ ControlInv
  OBVIOUS
<1>1. data \in Snapshots
  BY DEF Init
<1>2. blk \in 0 .. PageCount /\ attempt \in 0 .. MaxRetries
  BY <1>1, Counting, RetriesAssumption DEF Init
<1>3. wire \in Seq(Units) /\ buf \in Seq(Units) /\ result \in Seq(Units) /\ written \in Nat
  BY DEF Init, Units
<1>4. TypeOK
  BY <1>1, <1>2, <1>3, Zenon DEF Init, TypeOK
<1>5. ControlInv
  BY DEF Init, ControlInv
<1> QED
  BY <1>4, <1>5

\* A step of the transmitter keeps its types and those of the stream.
LEMMA TransmitType ==
  ASSUME TxOK, StreamOK, Transmit
  PROVE  TxOK' /\ StreamOK'
<1> USE DEF TxOK, StreamOK, Units
<1>1. /\ data' = data /\ PageCount \in Nat /\ blk \in Nat /\ NextFrame \in Seq(Nat)
      /\ Len(NextFrame) \in Nat
  <2>1. data' = data
    BY DEF Transmit, Dial, SendHandshake, ReadReadyAck, SendBlock, SendBlockFails,
       SendComplete
  <2>2. PageCount \in Nat /\ NextFrame \in Seq(Nat) /\ Len(NextFrame) \in Nat
    BY Counting, NextFrameIs
  <2> QED
    BY <2>1, <2>2
<1>2. PageCount' = PageCount
  BY <1>1 DEF PageCount, TotalBytes
<1>3. /\ hs' \in {"none", "sent", "accepted", "rejected"} /\ link' = link
  BY DEF Transmit, Dial, SendHandshake, ReadReadyAck, SendBlock, SendBlockFails,
     SendComplete
<1>4. ASSUME NEW k \in 0 .. Len(NextFrame), Writes(k) PROVE wire' \in Seq(Nat)
  BY <1>4, Written
<1>5. ASSUME NEW k \in 0 .. (Len(NextFrame) - 1) PROVE k \in 0 .. Len(NextFrame)
  BY <1>1
<1>6. Len(NextFrame) \in 0 .. Len(NextFrame)
  BY <1>1
<1>7. CASE UNCHANGED <<wire, blk, attempt, resent>> /\ tx \in {"dial", "handshake", "await_ack"}
  <2>1. tx' \in {"dial", "handshake", "await_ack", "blocks", "ok", "error"}
    BY <1>7 DEF Transmit, Dial, SendHandshake, ReadReadyAck, SendBlock, SendBlockFails,
       SendComplete, TxGives
  <2> QED
    BY <1>1, <1>2, <1>3, <1>7, <2>1, Zenon
<1>8. CASE SendBlock /\ blk < PageCount /\ Writes(Len(NextFrame))
  <2>1. wire' \in Seq(Nat)
    BY <1>4, <1>6, <1>8, Zenon
  <2>2. blk' = blk + 1 /\ attempt' = 0 /\ UNCHANGED <<tx, resent>>
    BY <1>8, Zenon DEF SendBlock
  <2>3. blk' \in 0 .. PageCount /\ attempt' \in 0 .. MaxRetries
    BY <1>1, <1>8, <2>2, RetriesAssumption
  <2> QED
    BY <1>1, <1>2, <1>3, <2>1, <2>2, <2>3, Zenon
<1>9. CASE /\ SendBlockFails
           /\ blk < PageCount
           /\ \E k \in 0 .. (Len(NextFrame) - 1) :
                 /\ Writes(k)
                 /\ IF attempt < MaxRetries
                    THEN /\ attempt' = attempt + 1
                         /\ resent' = (resent \/ k > 0)
                         /\ UNCHANGED tx
                    ELSE tx' = "error" /\ UNCHANGED <<attempt, resent>>
  <2>1. PICK k \in 0 .. (Len(NextFrame) - 1) :
          /\ Writes(k)
          /\ IF attempt < MaxRetries
             THEN /\ attempt' = attempt + 1
                  /\ resent' = (resent \/ k > 0)
                  /\ UNCHANGED tx
             ELSE tx' = "error" /\ UNCHANGED <<attempt, resent>>
    BY <1>9, Zenon
  <2>2. wire' \in Seq(Nat)
    BY <1>4, <1>5, <2>1, Zenon
  <2>3. blk' = blk
    BY <1>9, Zenon DEF SendBlockFails
  <2>4. attempt' \in 0 .. MaxRetries
    <3>1. attempt \in Nat /\ MaxRetries \in Nat /\ attempt <= MaxRetries
      BY RetriesAssumption
    <3>2. CASE attempt < MaxRetries
      <4>1. attempt' = attempt + 1
        BY <2>1, <3>2, Zenon
      <4> QED
        BY <3>1, <3>2, <4>1
    <3>3. CASE ~(attempt < MaxRetries)
      BY <2>1, <3>3, Zenon
    <3> QED
      BY <3>2, <3>3
  <2>5. resent' \in BOOLEAN
    BY <2>1, Zenon
  <2>6. tx' \in {"dial", "handshake", "await_ack", "blocks", "ok", "error"}
    BY <2>1, Zenon
  <2> QED
    BY <1>1, <1>2, <1>3, <2>2, <2>3, <2>4, <2>5, <2>6, Zenon
<1>10. CASE /\ SendComplete /\ blk = PageCount
            /\ UNCHANGED <<blk, attempt, resent>>
            /\ \/ tx' = "ok" /\ Writes(Len(NextFrame))
               \/ tx' = "error" /\ \E k \in 0 .. (Len(NextFrame) - 1) : Writes(k)
  <2>1. wire' \in Seq(Nat)
    BY <1>4, <1>5, <1>6, <1>10, Zenon
  <2> QED
    BY <1>1, <1>2, <1>3, <1>10, <2>1, Zenon
<1> QED
  BY <1>7, <1>8, <1>9, <1>10, TransmitCases, Zenon

\* What ReceiveBlock copies are units.
LEMMA CopyType ==
  ASSUME StreamOK, RxOK, Len(buf) = TotalBytes, ReceiveBlock
  PROVE  /\ buf' \in Seq(Nat) /\ Len(buf') = TotalBytes
         /\ written' = written + BlockDataLen
         /\ BlockOffset \in Nat /\ BlockDataLen \in Nat
         /\ BlockData \in Seq(Nat) /\ Len(BlockData) = BlockDataLen
         /\ \A i \in 1 .. TotalBytes :
               buf'[i] = IF i \in (BlockOffset + 1) .. (BlockOffset + BlockDataLen)
                         THEN BlockData[i - BlockOffset] ELSE buf[i]
<1> DEFINE total == TotalBytes
           a == BlockOffset
           n == BlockDataLen
           d == BlockData
<1>1. wire \in Seq(Nat) /\ buf \in Seq(Nat) /\ total \in Nat
  BY DataType DEF StreamOK, RxOK, Units
<1>2. FrameArrived /\ BlockAcceptable
  BY DEF ReceiveBlock
<1>3. a \in Nat /\ n \in Nat /\ d \in Seq(Nat) /\ Len(d) = n
  BY <1>1, <1>2, BlockDataIs DEF BlockAcceptable, BlockHeaderLen
<1>4. /\ buf' = [i \in 1 .. total |-> IF i \in (a + 1) .. (a + n) THEN d[i - a] ELSE buf[i]]
      /\ written' = written + n
  BY DEF ReceiveBlock
<1>5. Len(buf) = total
  OBVIOUS
<1> HIDE DEF total, a, n, d
<1>6. ASSUME NEW i \in 1 .. total
      PROVE  (IF i \in (a + 1) .. (a + n) THEN d[i - a] ELSE buf[i]) \in Nat
  <2>1. CASE i \in (a + 1) .. (a + n)
    <3>1. i - a \in 1 .. Len(d)
      BY <1>1, <1>3, <2>1
    <3>2. d[i - a] \in Nat
      BY <1>3, <3>1, ElementType
    <3> QED
      BY <2>1, <3>2
  <2>2. CASE i \notin (a + 1) .. (a + n)
    <3>1. buf[i] \in Nat
      BY <1>1, <1>5, ElementType
    <3> QED
      BY <2>2, <3>1
  <2> QED
    BY <2>1, <2>2
<1>7. buf' \in [1 .. total -> Nat]
  BY <1>4, <1>6
<1>8. buf' \in Seq(Nat) /\ Len(buf') = total
  BY <1>1, <1>7
<1>9. \A i \in 1 .. total : buf'[i] = IF i \in (a + 1) .. (a + n) THEN d[i - a] ELSE buf[i]
  BY <1>4
<1> QED
  BY <1>3, <1>4, <1>8, <1>9 DEF total, a, n, d

\* A frame that is read leaves the transmitter alone and takes units from the front.
LEMMA ReceiveType ==
  ASSUME StreamOK, RxOK, ControlInv, Receive
  PROVE  RxOK' /\ StreamOK' /\ UNCHANGED txVars
<1> USE DEF StreamOK, RxOK, Units
<1>1. /\ UNCHANGED txVars /\ data' = data /\ link' = link
  BY DEF Receive, ReceiveHandshake, HandshakeFails, ReceiveBlock, ReceiveComplete,
     RejectFrame, ReceiveUnknown, ReadFails
<1>2. hs' \in {"none", "sent", "accepted", "rejected"}
  BY DEF Receive, ReceiveHandshake, HandshakeFails, ReceiveBlock, ReceiveComplete,
     RejectFrame, ReceiveUnknown, ReadFails
<1>3. wire' \in Seq(Nat)
  <2>1. ASSUME FrameArrived, ConsumeFrame PROVE wire' \in Seq(Nat)
    BY <2>1, Consumed
  <2> QED
    BY <2>1 DEF Receive, ReceiveHandshake, HandshakeFails, ReceiveBlock, ReceiveComplete,
       RejectFrame, ReceiveUnknown, ReadFails
<1>4. TotalBytes \in Nat
  BY DataType
<1>5. CASE RxFails
  BY <1>1, <1>2, <1>3, <1>5 DEF RxFails
<1>6. CASE ReceiveHandshake /\ ~RxFails
  <2>1. /\ rx' = "receiving" /\ buf' = [i \in 1 .. TotalBytes |-> 0]
        /\ UNCHANGED <<written, result>>
    BY <1>6 DEF ReceiveHandshake
  <2>2. buf' \in Seq(Nat)
    BY <1>4, <2>1
  <2> QED
    BY <1>1, <1>2, <1>3, <2>1, <2>2
<1>7. CASE ReceiveBlock
  <2>1. UNCHANGED <<rx, result>> /\ Len(buf) = TotalBytes
    BY <1>7 DEF ReceiveBlock, ControlInv
  <2>2. buf' \in Seq(Nat) /\ written' = written + BlockDataLen /\ BlockDataLen \in Nat
    BY <1>7, <2>1, CopyType
  <2> QED
    BY <1>1, <1>2, <1>3, <2>1, <2>2
<1>8. CASE ReceiveComplete /\ ~RxFails
  <2>1. /\ written <= TotalBytes /\ Len(buf) = TotalBytes
        /\ rx' = "done" /\ result' = SubSeq(buf, 1, written) /\ UNCHANGED <<buf, written>>
    BY <1>8 DEF ReceiveComplete, ControlInv
  <2>2. result' \in Seq(Nat)
    <3>1. written \in 0 .. Len(buf)
      BY <1>4, <2>1
    <3> QED
      BY <2>1, <3>1, PrefixIs
  <2> QED
    BY <1>1, <1>2, <1>3, <2>1, <2>2
<1>9. CASE UNCHANGED rxVars
  BY <1>1, <1>2, <1>3, <1>9 DEF rxVars
<1> QED
  BY <1>5, <1>6, <1>7, <1>8, <1>9 DEF Receive, HandshakeFails, RejectFrame,
     ReceiveUnknown, ReadFails

\* A step of the transmitter leaves the receiver alone, except that Dial reaches it.
LEMMA TransmitLeaves ==
  ASSUME Transmit
  PROVE  /\ UNCHANGED <<data, link, buf, written, result>>
         /\ rx' = rx \/ (Dial /\ rx' = "handshake")
         /\ hs' = hs \/ (SendHandshake /\ hs' = "sent")
BY DEF Transmit, Dial, SendHandshake, ReadReadyAck, SendBlock, SendBlockFails,
   SendComplete, rxVars

\* Every step keeps the types.
LEMMA TypeStep == TypeOK /\ ControlInv /\ [Next]_vars => TypeOK'
<1> SUFFICES ASSUME TxOK, RxOK, StreamOK, ControlInv, [Next]_vars
             PROVE  TxOK' /\ RxOK' /\ StreamOK'
  BY DEF TypeOK, TxOK, RxOK, StreamOK
<1>1. ASSUME UNCHANGED txVars, data' = data PROVE TxOK'
  <2>1. PageCount' = PageCount
    BY <1>1 DEF PageCount, TotalBytes
  <2> QED
    BY <1>1, <2>1, Zenon DEF TxOK, txVars
<1>2. CASE Transmit
  <2>1. TxOK' /\ StreamOK'
    BY <1>2, TransmitType
  <2>2. RxOK'
    BY <1>2, TransmitLeaves DEF RxOK
  <2> QED
    BY <2>1, <2>2
<1>3. CASE Receive
  <2>1. RxOK' /\ StreamOK' /\ UNCHANGED txVars
    BY <1>3, ReceiveType
  <2>2. data' = data
    BY <1>3 DEF Receive, ReceiveHandshake, HandshakeFails, ReceiveBlock, ReceiveComplete,
       RejectFrame, ReceiveUnknown, ReadFails
  <2> QED
    BY <1>1, <2>1, <2>2
<1>4. CASE LinkBreaks
  BY <1>1, <1>4 DEF LinkBreaks, RxOK, StreamOK, rxVars
<1>5. CASE UNCHANGED vars
  BY <1>1, <1>5 DEF vars, RxOK, StreamOK, rxVars
<1> QED
  BY <1>2, <1>3, <1>4, <1>5 DEF Next

\* Every step keeps the order of the handshake.
LEMMA ControlStep == TypeOK /\ ControlInv /\ [Next]_vars => ControlInv'
<1> SUFFICES ASSUME TypeOK, ControlInv, [Next]_vars PROVE ControlInv'
  OBVIOUS
<1>1. TotalBytes \in Nat
  BY DataType DEF TypeOK
<1> USE DEF ControlInv
<1>2. CASE Dial
  BY <1>2 DEF Dial, TxGives, TotalBytes
<1>3. CASE SendHandshake
  BY <1>3 DEF SendHandshake, TxGives, rxVars, TotalBytes
<1>4. CASE ReadReadyAck
  BY <1>4 DEF ReadReadyAck, TxGives, rxVars, TotalBytes
<1>5. CASE SendBlock
  BY <1>5 DEF SendBlock, rxVars, TotalBytes
<1>6. CASE SendBlockFails
  <2>1. /\ tx = "blocks" /\ UNCHANGED <<data, blk, hs, rxVars>>
        /\ tx' = "blocks" \/ tx' = "error"
    BY <1>6 DEF SendBlockFails
  <2> QED
    BY <2>1 DEF rxVars, TotalBytes
<1>7. CASE SendComplete
  <2>1. tx = "blocks" /\ UNCHANGED <<data, hs, rxVars>> /\ tx' \in {"ok", "error"}
    BY <1>7 DEF SendComplete, TxGives
  <2> QED
    BY <2>1 DEF rxVars, TotalBytes
<1>8. CASE Receive
  <2>1. UNCHANGED txVars /\ data' = data
    BY <1>8 DEF Receive, ReceiveHandshake, HandshakeFails, ReceiveBlock, ReceiveComplete,
       RejectFrame, ReceiveUnknown, ReadFails
  <2>2. UNCHANGED <<tx, blk>> /\ TotalBytes' = TotalBytes
    BY <2>1 DEF txVars, TotalBytes
  <2>3. CASE ReceiveHandshake
    <3>1. /\ rx = "handshake" /\ hs = "sent" /\ rx' \in {"receiving", "error"}
          /\ hs' \in {"sent", "accepted", "rejected"} /\ wire' = wire
      BY <2>3 DEF ReceiveHandshake, RxFails
    <3>2. ASSUME rx' = "receiving" PROVE hs' = "accepted" /\ Len(buf') = TotalBytes
      <4>1. hs' = "accepted" /\ buf' = [i \in 1 .. TotalBytes |-> 0]
        BY <2>3, <3>2 DEF ReceiveHandshake, RxFails
      <4> QED
        BY <1>1, <4>1
    <3> QED
      BY <2>2, <3>1, <3>2
  <2>4. CASE ReceiveBlock
    <3>1. rx = "receiving" /\ UNCHANGED <<hs, rx>>
      BY <2>4 DEF ReceiveBlock
    <3>2. Len(buf') = TotalBytes
      BY <2>4, <3>1, CopyType, TypeParts
    <3> QED
      BY <2>2, <3>1, <3>2
  <2>5. CASE RxFails /\ UNCHANGED hs /\ rx \in {"handshake", "receiving"}
    <3>1. rx = "handshake" => wire' = wire
      BY <1>8 DEF Receive, ReceiveHandshake, HandshakeFails, ReceiveBlock,
         ReceiveComplete, RejectFrame, ReceiveUnknown, ReadFails
    <3> QED
      BY <2>2, <2>5, <3>1 DEF RxFails
  <2>6. CASE ReceiveComplete
    BY <2>2, <2>6 DEF ReceiveComplete, RxFails
  <2>7. CASE ReceiveUnknown
    BY <2>2, <2>7 DEF ReceiveUnknown, rxVars
  <2> QED
    BY <1>8, <2>3, <2>4, <2>5, <2>6, <2>7 DEF Receive, HandshakeFails, RejectFrame, ReadFails
<1>9. CASE LinkBreaks \/ UNCHANGED vars
  BY <1>9 DEF LinkBreaks, vars, txVars, rxVars, TotalBytes
<1> QED
  BY <1>2, <1>3, <1>4, <1>5, <1>6, <1>7, <1>8, <1>9 DEF Next, Transmit

-----------------------------------------------------------------------------
(***************************************************************************)
(* As long as no block was written twice, both sides are in step.          *)
(***************************************************************************)

\* Pages and their frames do not change as long as the snapshot does not.
LEMMA SameData ==
  ASSUME data' = data
  PROVE  /\ TotalBytes' = TotalBytes /\ PageCount' = PageCount /\ Pages' = Pages
         /\ \A n : Page(n)' = Page(n)
         /\ \A n : BlockFrame(n)' = BlockFrame(n)
<1>1. TotalBytes' = TotalBytes /\ PageCount' = PageCount /\ Pages' = Pages
  BY DEF TotalBytes, PageCount, Pages
<1>2. \A n : Page(n)' = Page(n)
  BY <1>1 DEF Page
<1>3. \A n : BlockFrame(n)' = BlockFrame(n)
  BY Zenon DEF BlockFrame, Frame, HashPage, Page, PageCount, TotalBytes
<1> QED
  BY <1>1, <1>2, <1>3

\* The blocks r to b - 1 stand one behind the other at the front of the stream w,
\* block m behind its first pos[m] units.
BlocksAt(w, r, b, pos) ==
    /\ r \in 0 .. b
    /\ pos \in [r .. b -> Nat]
    /\ pos[r] = 0
    /\ \A m, k \in r .. b : m <= k => pos[m] <= pos[k]
    /\ \A m \in r .. (b - 1) :
          /\ pos[m + 1] = pos[m] + Len(BlockFrame(m))
          /\ \A j \in 1 .. Len(BlockFrame(m)) : w[pos[m] + j] = BlockFrame(m)[j]

\* Behind its first p units the stream w has the beginning of the frame f; all of
\* it if SendSnapshot has succeeded, a proper part if it has failed, and nothing
\* before its end.
TailAt(w, f, p, x) ==
    /\ Len(w) - p \in 0 .. Len(f)
    /\ \A j \in 1 .. (Len(w) - p) : w[p + j] = f[j]
    /\ Len(w) - p # 0 => x \in {"ok", "error"}
    /\ Len(w) - p = Len(f) <=> x = "ok"

\* The bytes in the first n pages.
Bytes(n) == IF n * PageSize > TotalBytes THEN TotalBytes ELSE n * PageSize

\* The receiver has taken exactly the first r blocks from the stream.
InSync(r, pos) ==
    /\ BlocksAt(wire, r, blk, pos)
    /\ TailAt(wire, NextFrame, pos[blk], tx)
    /\ tx = "ok" => blk = PageCount
    /\ written = Bytes(r)
    /\ rx = "receiving" => \A i \in 1 .. written : buf[i] = data[i]

Synced == \E r, pos : InSync(r, pos)

Live == rx \notin {"done", "error"} /\ ~resent

SyncInv == Live => Synced

DoneInv == (rx = "done" /\ ~resent) => tx = "ok" /\ result = data

\* At first nothing is on the stream.
LEMMA InitSync == Init => SyncInv /\ DoneInv
<1> SUFFICES ASSUME Init PROVE Synced /\ DoneInv
  BY DEF SyncInv
<1>1. /\ data \in Snapshots /\ wire = <<>> /\ blk = 0 /\ tx = "dial" /\ rx = "accept"
      /\ written = 0
  BY DEF Init
<1>2. PageCount \in Nat /\ TotalBytes \in Nat /\ PageSize \in Nat
  BY <1>1, Counting, DataType
<1>3. Len(NextFrame) \in Nat /\ 4 <= Len(NextFrame)
  BY <1>1, <1>2, NextFrameIs
<1> DEFINE pos == [m \in 0 .. 0 |-> 0]
<1>4. BlocksAt(wire, 0, blk, pos)
  BY <1>1 DEF BlocksAt
<1>5. TailAt(wire, NextFrame, pos[blk], tx)
  <2>1. pos[blk] = 0 /\ Len(wire) = 0
    BY <1>1
  <2> QED
    BY <1>1, <1>3, <2>1 DEF TailAt
<1>6. written = Bytes(0)
  BY <1>1, <1>2 DEF Bytes
<1>7. InSync(0, pos)
  BY <1>1, <1>4, <1>5, <1>6 DEF InSync
<1>8. DoneInv
  BY <1>1 DEF DoneInv
<1> QED
  BY <1>7, <1>8 DEF Synced

\* Steps that leave the stream and the bytes received alone.
LEMMA SyncKept ==
  ASSUME NEW r, NEW pos, InSync(r, pos), TypeOK,
         UNCHANGED <<data, blk, wire, written>>,
         tx' = tx \/ (tx \notin {"ok", "error"} /\ tx' # "ok"),
         rx' = "receiving" => written = 0 \/ UNCHANGED <<rx, buf>>
  PROVE  InSync(r, pos)'
<1>1. /\ \A n : BlockFrame(n)' = BlockFrame(n)
      /\ TotalBytes' = TotalBytes /\ PageCount' = PageCount
  BY SameData
<1>2. NextFrame' = NextFrame
  BY <1>1 DEF NextFrame
<1>3. BlocksAt(wire, r, blk, pos)'
  BY <1>1 DEF InSync, BlocksAt
<1>4. TailAt(wire, NextFrame, pos[blk], tx)'
  <2> DEFINE f == NextFrame
             p == pos[blk]
  <2>1. Len(f) \in Nat /\ 4 <= Len(f)
    BY NextFrameIs DEF TypeOK
  <2>2. TailAt(wire, f, p, tx)
    BY DEF InSync
  <2>3. ASSUME tx \notin {"ok", "error"} PROVE Len(wire) - p = 0
    BY <2>2, <2>3 DEF TailAt
  <2> HIDE DEF f, p
  <2>4. TailAt(wire, f, p, tx')
    BY <2>1, <2>2, <2>3 DEF TailAt
  <2>5. wire' = wire /\ NextFrame' = f /\ (pos[blk])' = p
    BY <1>2 DEF f, p
  <2> QED
    BY <2>4, <2>5 DEF TailAt
<1>5. written' = Bytes(r)'
  BY <1>1 DEF InSync, Bytes
<1>6. tx' = "ok" => blk' = PageCount'
  BY <1>1 DEF InSync
<1>7. rx' = "receiving" => \A i \in 1 .. written' : buf'[i] = data'[i]
  BY DEF InSync
<1> QED
  BY <1>3, <1>4, <1>5, <1>6, <1>7 DEF InSync

\* A part of the next frame is written where nothing was written of it before.
LEMMA SyncTail ==
  ASSUME NEW r, NEW pos, InSync(r, pos), TypeOK, tx = "blocks",
         NEW k \in 0 .. Len(NextFrame), Writes(k),
         UNCHANGED <<data, blk, rx, buf, written>>,
         k # 0 => tx' \in {"ok", "error"},
         k = Len(NextFrame) <=> tx' = "ok",
         tx' = "ok" => blk = PageCount
  PROVE  InSync(r, pos)'
<1> DEFINE f == NextFrame
           p == pos[blk]
           n == Len(wire)
<1>1. /\ \A m : BlockFrame(m)' = BlockFrame(m)
      /\ TotalBytes' = TotalBytes /\ PageCount' = PageCount
  BY SameData
<1>2. NextFrame' = NextFrame
  BY <1>1 DEF NextFrame
<1>3. /\ Len(wire') = n + k /\ n \in Nat
      /\ \A i \in 1 .. n : wire'[i] = wire[i]
      /\ \A j \in 1 .. k : wire'[n + j] = f[j]
  BY Written DEF TypeOK, Units
<1>4. r \in 0 .. blk /\ pos \in [r .. blk -> Nat] /\ blk \in Nat /\ blk <= PageCount
      /\ PageCount \in Nat
  <2>1. r \in 0 .. blk /\ pos \in [r .. blk -> Nat]
    BY Zenon DEF InSync, BlocksAt
  <2>2. data \in Snapshots /\ blk \in 0 .. PageCount
    BY Zenon DEF TypeOK
  <2>3. PageCount \in Nat
    BY <2>2, Counting
  <2> QED
    BY <2>1, <2>2, <2>3
<1>5. p \in Nat
  BY <1>4
<1>6. p = n
  <2>1. n - p = 0
    BY DEF InSync, TailAt
  <2> QED
    BY <1>3, <1>5, <2>1
<1>7. Len(f) \in Nat /\ k \in Nat /\ k <= Len(f)
  BY NextFrameIs DEF TypeOK
<1> HIDE DEF f, n, p
<1>8. TailAt(wire', f, p, tx')
  <2>1. Len(wire') - p = k
    BY <1>3, <1>6, <1>7
  <2>2. \A j \in 1 .. k : wire'[p + j] = f[j]
    BY <1>3, <1>6
  <2>3. (k # 0 => tx' \in {"ok", "error"}) /\ (k = Len(f) <=> tx' = "ok")
    BY DEF f
  <2>4. k \in 0 .. Len(f)
    BY <1>7
  <2> QED
    BY <2>1, <2>2, <2>3, <2>4, Zenon DEF TailAt
<1>9. BlocksAt(wire', r, blk, pos)
  <2>1. /\ \A m, l \in r .. blk : m <= l => pos[m] <= pos[l]
        /\ pos[r] = 0
        /\ \A m \in r .. (blk - 1) :
              /\ pos[m + 1] = pos[m] + Len(BlockFrame(m))
              /\ \A j \in 1 .. Len(BlockFrame(m)) : wire[pos[m] + j] = BlockFrame(m)[j]
    BY DEF InSync, BlocksAt
  <2>2. ASSUME NEW m \in r .. (blk - 1), NEW j \in 1 .. Len(BlockFrame(m))
        PROVE  wire'[pos[m] + j] = BlockFrame(m)[j]
    <3>1. m \in r .. blk /\ m + 1 \in r .. blk /\ blk \in r .. blk /\ m + 1 <= blk
          /\ m \in Pages
      BY <1>4 DEF Pages
    <3>2. Len(BlockFrame(m)) \in Nat
      BY <3>1, BlockFrameIs DEF TypeOK
    <3>3. pos[m] \in Nat /\ pos[m + 1] \in Nat
      BY <1>4, <3>1
    <3>4. pos[m + 1] <= p
      BY <2>1, <3>1, Zenon DEF p
    <3>5. pos[m + 1] = pos[m] + Len(BlockFrame(m)) /\ wire[pos[m] + j] = BlockFrame(m)[j]
      BY <2>1, Zenon
    <3> DEFINE l == Len(BlockFrame(m))
               a == pos[m]
    <3>6. a + j \in 1 .. n
      <4>1. l \in Nat /\ a \in Nat /\ j \in 1 .. l /\ a + l <= n /\ n \in Nat
        BY <1>3, <1>6, <3>2, <3>3, <3>4, <3>5
      <4> HIDE DEF l, a
      <4> QED
        BY <4>1
    <3> QED
      BY <1>3, <3>5, <3>6
  <2> QED
    BY <1>4, <2>1, <2>2 DEF BlocksAt
<1>10. BlocksAt(wire, r, blk, pos)'
  BY <1>1, <1>9 DEF BlocksAt
<1>11. TailAt(wire, NextFrame, pos[blk], tx)'
  BY <1>2, <1>8 DEF TailAt, f, p
<1>12. written' = Bytes(r)'
  BY <1>1 DEF InSync, Bytes
<1> QED
  BY <1>1, <1>10, <1>11, <1>12 DEF InSync

\* The numbers in InSync are natural numbers in the order one expects.
LEMMA SyncShape ==
  ASSUME NEW r, NEW pos, InSync(r, pos), TypeOK
  PROVE  /\ r \in Nat /\ blk \in Nat /\ PageCount \in Nat /\ r <= blk /\ blk <= PageCount
         /\ pos \in [r .. blk -> Nat] /\ pos[blk] \in Nat /\ pos[r] = 0
         /\ Len(wire) \in Nat /\ pos[blk] <= Len(wire)
         /\ \A m \in r .. (blk - 1) :
               /\ m \in Pages /\ m \in r .. blk /\ m + 1 \in r .. blk
               /\ pos[m] \in Nat /\ pos[m + 1] \in Nat /\ Len(BlockFrame(m)) \in Nat
               /\ pos[m + 1] = pos[m] + Len(BlockFrame(m))
               /\ pos[m + 1] <= Len(wire)
<1>1. /\ r \in 0 .. blk /\ pos \in [r .. blk -> Nat] /\ pos[r] = 0
      /\ \A m, k \in r .. blk : m <= k => pos[m] <= pos[k]
      /\ \A m \in r .. (blk - 1) : pos[m + 1] = pos[m] + Len(BlockFrame(m))
  BY Zenon DEF InSync, BlocksAt
<1>2. data \in Snapshots /\ blk \in 0 .. PageCount /\ wire \in Seq(Nat)
  BY Zenon DEF TypeOK, Units
<1>3. PageCount \in Nat /\ Len(NextFrame) \in Nat
  BY <1>2, Counting, NextFrameIs
<1>4. /\ r \in Nat /\ blk \in Nat /\ r <= blk /\ blk <= PageCount /\ Len(wire) \in Nat
      /\ blk \in r .. blk
  BY <1>1, <1>2, <1>3
<1>5. pos[blk] \in Nat
  BY <1>1, <1>4
<1>6. pos[blk] <= Len(wire)
  <2>1. Len(wire) - pos[blk] \in 0 .. Len(NextFrame)
    BY Zenon DEF InSync, TailAt
  <2> DEFINE p == pos[blk]
             n == Len(wire)
             l == Len(NextFrame)
  <2>2. p \in Nat /\ n \in Nat /\ l \in Nat /\ n - p \in 0 .. l
    BY <1>3, <1>4, <1>5, <2>1
  <2> HIDE DEF p, n, l
  <2>3. p <= n
    BY <2>2
  <2> QED
    BY <2>3 DEF p, n
<1>7. ASSUME NEW m \in r .. (blk - 1)
      PROVE  /\ m \in Pages /\ m \in r .. blk /\ m + 1 \in r .. blk
             /\ pos[m] \in Nat /\ pos[m + 1] \in Nat /\ Len(BlockFrame(m)) \in Nat
             /\ pos[m + 1] = pos[m] + Len(BlockFrame(m))
             /\ pos[m + 1] <= Len(wire)
  <2>1. m \in Pages /\ m \in r .. blk /\ m + 1 \in r .. blk /\ m + 1 <= blk
    BY <1>3, <1>4 DEF Pages
  <2>2. pos[m] \in Nat /\ pos[m + 1] \in Nat
    BY <1>1, <2>1
  <2>3. Len(BlockFrame(m)) \in Nat
    BY <1>2, <2>1, BlockFrameIs
  <2>4. pos[m + 1] <= pos[blk]
    BY <1>1, <1>4, <2>1, Zenon
  <2>5. pos[m + 1] <= Len(wire)
    BY <1>4, <1>5, <1>6, <2>2, <2>4
  <2> QED
    BY <1>1, <2>1, <2>2, <2>3, <2>5, Zenon
<1> QED
  BY <1>1, <1>3, <1>4, <1>5, <1>6, <1>7, Zenon

\* A whole block is written: the transmitter is one block further.
LEMMA SyncBlock ==
  ASSUME NEW r, NEW pos, InSync(r, pos), TypeOK, SendBlock
  PROVE  Synced'
<1> DEFINE f == BlockFrame(blk)
           l == Len(f)
           n == Len(wire)
           b == blk + 1
           q == [m \in r .. b |-> IF m <= blk THEN pos[m] ELSE n + l]
<1>1. /\ tx = "blocks" /\ tx' = "blocks" /\ blk < PageCount /\ blk' = b
      /\ wire' = wire \o f
      /\ UNCHANGED <<data, rx, buf, written>>
  BY DEF SendBlock, rxVars
<1>2. /\ \A m : BlockFrame(m)' = BlockFrame(m)
      /\ TotalBytes' = TotalBytes /\ PageCount' = PageCount
  BY <1>1, SameData
<1>3. /\ r \in Nat /\ blk \in Nat /\ PageCount \in Nat /\ r <= blk
      /\ pos \in [r .. blk -> Nat] /\ pos[r] = 0 /\ n \in Nat
      /\ data \in Snapshots /\ wire \in Seq(Nat)
  BY SyncShape DEF TypeOK, Units
<1>4. blk \in Pages /\ f \in Seq(Nat) /\ l \in Nat
  <2>1. blk \in Pages
    BY <1>1, <1>3 DEF Pages
  <2> QED
    BY <1>3, <2>1, BlockFrameIs
<1> HIDE DEF f
<1>5. /\ Len(wire') = n + l
      /\ \A i \in 1 .. n : wire'[i] = wire[i]
      /\ \A j \in 1 .. l : wire'[n + j] = f[j]
  BY <1>1, <1>3, <1>4, Appended
<1>6. pos[blk] = n
  <2>1. n - pos[blk] = 0
    BY <1>1 DEF InSync, TailAt
  <2>2. pos[blk] \in Nat
    BY SyncShape
  <2> QED
    BY <1>3, <2>1, <2>2
<1> HIDE DEF l, n
<1>7. b \in Nat /\ r \in 0 .. b /\ b \in r .. b /\ r \in r .. b /\ blk \in r .. b /\ ~(b <= blk)
  BY <1>3
<1>8. /\ q \in [r .. b -> Nat]
      /\ \A m \in r .. blk : m \in r .. b /\ q[m] = pos[m]
      /\ q[b] = n + l
      /\ q[r] = 0
  <2>1. \A m \in r .. b : m <= blk => pos[m] \in Nat
    BY <1>3
  <2>2. \A m \in r .. blk : m \in r .. b /\ m <= blk
    BY <1>3
  <2>3. n + l \in Nat /\ r <= blk
    BY <1>3, <1>4
  <2> QED
    BY <1>3, <1>7, <2>1, <2>2, <2>3
<1>9. ASSUME NEW m \in r .. b, NEW k \in r .. b, m <= k PROVE q[m] <= q[k]
  <2>1. CASE k <= blk
    <3>1. m \in r .. blk /\ k \in r .. blk
      BY <1>3, <1>9, <2>1
    <3>2. pos[m] <= pos[k]
      BY <1>9, <3>1, Zenon DEF InSync, BlocksAt
    <3> QED
      BY <1>8, <3>1, <3>2, Zenon
  <2>2. CASE k = b /\ m <= blk
    <3>1. m \in r .. blk /\ blk \in r .. blk
      BY <1>3, <2>2
    <3>2. pos[m] <= pos[blk]
      BY <2>2, <3>1, Zenon DEF InSync, BlocksAt
    <3>3. q[m] = pos[m] /\ q[k] = n + l /\ pos[m] \in Nat
      BY <1>3, <1>8, <2>2, <3>1
    <3> HIDE DEF q
    <3> QED
      BY <1>3, <1>4, <1>6, <3>2, <3>3
  <2>3. CASE k = b /\ m = b
    <3>1. q[b] = n + l /\ n + l <= n + l
      BY <1>3, <1>4, <1>8
    <3> QED
      BY <2>3, <3>1, Zenon
  <2> QED
    BY <1>3, <1>9, <2>1, <2>2, <2>3
<1> HIDE DEF q
<1>10. ASSUME NEW m \in r .. (b - 1)
       PROVE  /\ q[m + 1] = q[m] + Len(BlockFrame(m))
              /\ \A j \in 1 .. Len(BlockFrame(m)) : wire'[q[m] + j] = BlockFrame(m)[j]
  <2>1. CASE m = blk
    <3>1. q[m] = n /\ q[m + 1] = n + l
      BY <1>3, <1>6, <1>8, <2>1
    <3> QED
      BY <1>5, <2>1, <3>1, Zenon DEF f, l
  <2>2. CASE m # blk
    <3>1. m \in r .. (blk - 1)
      BY <1>3, <2>2
    <3>2. /\ m \in r .. blk /\ m + 1 \in r .. blk
          /\ pos[m] \in Nat /\ pos[m + 1] \in Nat /\ Len(BlockFrame(m)) \in Nat
          /\ pos[m + 1] = pos[m] + Len(BlockFrame(m))
          /\ pos[m + 1] <= n
      BY <3>1, SyncShape DEF n
    <3>3. q[m] = pos[m] /\ q[m + 1] = pos[m + 1]
      BY <1>8, <3>2, Zenon
    <3>4. ASSUME NEW j \in 1 .. Len(BlockFrame(m)) PROVE wire'[q[m] + j] = BlockFrame(m)[j]
      <4> DEFINE a == pos[m]
                 w == Len(BlockFrame(m))
      <4>1. wire[a + j] = BlockFrame(m)[j]
        BY <3>1, Zenon DEF InSync, BlocksAt
      <4>2. a \in Nat /\ w \in Nat /\ a + w <= n /\ j \in 1 .. w
        BY <3>2
      <4> HIDE DEF a, w
      <4>3. a + j \in 1 .. n
        BY <1>3, <4>2
      <4>4. wire'[a + j] = wire[a + j] /\ q[m] = a
        BY <1>5, <3>3, <4>3 DEF a
      <4> QED
        BY <4>1, <4>4
    <3> QED
      BY <3>2, <3>3, <3>4, Zenon
  <2> QED
    BY <2>1, <2>2
<1>11. BlocksAt(wire', r, b, q)
  BY <1>7, <1>8, <1>9, <1>10, Zenon DEF BlocksAt
<1>12. PICK c : BlocksAt(wire', r, b, c) /\ c[b] = n + l
  BY <1>8, <1>11, Zenon
<1>13. BlocksAt(wire, r, blk, c)'
  BY <1>1, <1>2, <1>12 DEF BlocksAt
<1>14. TailAt(wire, NextFrame, c[blk], tx)'
  <2> DEFINE g == IF b < PageCount THEN BlockFrame(b) ELSE Frame(MsgComplete, <<>>)
  <2>1. NextFrame' = g
    BY <1>1, <1>2 DEF NextFrame
  <2>2. Len(g) \in Nat /\ 4 <= Len(g)
    <3>1. CASE b < PageCount
      <4>1. b \in Pages
        BY <1>3, <1>7, <3>1 DEF Pages
      <4>2. Len(BlockFrame(b)) = 7 + Len(Page(b)) /\ Len(Page(b)) \in Nat
        BY <1>3, <4>1, BlockFrameIs
      <4>3. g = BlockFrame(b)
        BY <3>1
      <4> HIDE DEF g
      <4> QED
        BY <4>2, <4>3
    <3>2. CASE ~(b < PageCount)
      BY <3>2, CompleteIs
    <3> QED
      BY <3>1, <3>2
  <2> HIDE DEF g
  <2>3. (c[blk])' = n + l
    BY <1>1, <1>12
  <2>4. Len(wire') - (n + l) = 0
    BY <1>3, <1>4, <1>5
  <2>5. TailAt(wire', g, n + l, "blocks")
    BY <2>2, <2>4 DEF TailAt
  <2> QED
    BY <1>1, <2>1, <2>3, <2>5, Zenon DEF TailAt
<1>15. written' = Bytes(r)'
  BY <1>1, <1>2 DEF InSync, Bytes
<1>16. rx' = "receiving" => \A i \in 1 .. written' : buf'[i] = data'[i]
  BY <1>1, Zenon DEF InSync
<1>17. InSync(r, c)'
  BY <1>1, <1>13, <1>14, <1>15, <1>16 DEF InSync
<1> QED
  BY <1>17 DEF Synced

\* What the first pages hold, page by page.
LEMMA BytesAre ==
  ASSUME data \in Snapshots
  PROVE  /\ Bytes(PageCount) = TotalBytes
         /\ \A n \in Pages :
               /\ Bytes(n) = n * PageSize /\ Bytes(n) \in Nat
               /\ Bytes(n + 1) = Bytes(n) + Len(Page(n))
               /\ Bytes(n + 1) <= TotalBytes
<1>1. TotalBytes \in Nat /\ PageCount \in Nat
  BY DataType, Counting
<1>2. Bytes(PageCount) = TotalBytes
  <2>1. PageCount * PageSize \in Nat /\ ~(PageCount * PageSize < TotalBytes)
    BY <1>1, Counting
  <2> DEFINE e == PageCount * PageSize
  <2>2. e \in Nat /\ ~(e < TotalBytes) /\ Bytes(PageCount) = IF e > TotalBytes THEN TotalBytes ELSE e
    BY <2>1 DEF Bytes
  <2> HIDE DEF e
  <2> QED
    BY <1>1, <2>2
<1>3. ASSUME NEW n \in Pages
      PROVE  /\ Bytes(n) = n * PageSize /\ Bytes(n) \in Nat
             /\ Bytes(n + 1) = Bytes(n) + Len(Page(n))
             /\ Bytes(n + 1) <= TotalBytes
  <2> DEFINE a == n * PageSize
             k == Len(Page(n))
             e == (n + 1) * PageSize
  <2>1. /\ a \in Nat /\ a < TotalBytes /\ k \in 1 .. PageSize /\ a + k <= TotalBytes
        /\ k = (IF e > TotalBytes THEN TotalBytes ELSE e) - a
    BY PageIs
  <2>2. /\ Bytes(n) = IF a > TotalBytes THEN TotalBytes ELSE a
        /\ Bytes(n + 1) = IF e > TotalBytes THEN TotalBytes ELSE e
    BY DEF Bytes
  <2>3. e \in Nat /\ k \in Nat
    <3>1. n + 1 \in Nat
      BY <1>1 DEF Pages
    <3>2. e \in Nat
      BY <3>1, Counting
    <3> QED
      BY <2>1, <3>2, PageAssumption
  <2> HIDE DEF a, k, e
  <2>4. Bytes(n) = a
    BY <1>1, <2>1, <2>2
  <2>5. Bytes(n + 1) = a + k
    BY <1>1, <2>1, <2>2, <2>3
  <2> QED
    BY <2>1, <2>4, <2>5 DEF a, k
<1> QED
  BY <1>2, <1>3

\* If a whole block is ahead, it is the frame that ReadFrom decodes.
LEMMA FrontBlock ==
  ASSUME NEW r, NEW pos, InSync(r, pos), TypeOK, r < blk
  PROVE  /\ r \in Pages /\ r + 1 \in r .. blk
         /\ WireType = MsgDataBlock
         /\ WireLen = 3 + Len(Page(r)) /\ Len(Page(r)) \in Nat
         /\ wire[5] = r * PageSize /\ wire[6] = HashPage(Page(r))
         /\ wire[7] = Len(Page(r))
         /\ \A j \in 1 .. Len(Page(r)) : wire[7 + j] = Page(r)[j]
         /\ pos[r + 1] = 4 + WireLen
<1> DEFINE f == BlockFrame(r)
           k == Len(Page(r))
           sum == HashPage(Page(r))
<1>1. /\ r \in Nat /\ blk \in Nat /\ pos[r] = 0 /\ data \in Snapshots
  BY SyncShape DEF TypeOK
<1>2. r \in r .. (blk - 1)
  BY <1>1
<1>3. r \in Pages /\ r + 1 \in r .. blk /\ pos[r + 1] = pos[r] + Len(f) /\ Len(f) \in Nat
  BY <1>2, SyncShape
<1>4. \A j \in 1 .. Len(f) : wire[pos[r] + j] = f[j]
  BY <1>2, Zenon DEF InSync, BlocksAt
<1>5. /\ k \in Nat /\ Len(f) = 7 + k
      /\ f[1] * Base + f[2] = MsgDataBlock
      /\ f[3] * Base + f[4] = 3 + k
      /\ f[5] = r * PageSize /\ f[6] = sum /\ f[7] = k
      /\ \A j \in 1 .. k : f[7 + j] = Page(r)[j]
  BY <1>1, <1>3, BlockFrameIs DEF BlockHeaderLen
<1> HIDE DEF f, k, sum
<1>6. \A j \in 1 .. (7 + k) : wire[j] = f[j]
  <2>1. \A j \in 1 .. (7 + k) : j \in 1 .. Len(f) /\ pos[r] + j = j
    BY <1>1, <1>5
  <2> QED
    BY <1>4, <2>1
<1>7. /\ wire[1] = f[1] /\ wire[2] = f[2] /\ wire[3] = f[3] /\ wire[4] = f[4]
      /\ wire[5] = f[5] /\ wire[6] = f[6] /\ wire[7] = f[7]
  BY <1>5, <1>6
<1>8. WireType = MsgDataBlock /\ WireLen = 3 + k
  BY <1>5, <1>7 DEF WireType, WireLen
<1>9. pos[r + 1] = 4 + WireLen
  BY <1>1, <1>3, <1>5, <1>8
<1>10. ASSUME NEW j \in 1 .. k PROVE wire[7 + j] = Page(r)[j]
  <2>1. 7 + j \in 1 .. (7 + k)
    BY <1>5
  <2> QED
    BY <1>5, <1>6, <2>1
<1> QED
  BY <1>3, <1>5, <1>7, <1>8, <1>9, <1>10 DEF k, sum

\* That block is page r, and it passes the checks of receiveOne.
LEMMA FrontIsPage ==
  ASSUME NEW r, NEW pos, InSync(r, pos), TypeOK, r < blk, FrameArrived
  PROVE  /\ BlockAcceptable
         /\ BlockOffset = r * PageSize /\ BlockDataLen = Len(Page(r))
         /\ BlockData = Page(r)
<1> DEFINE page == Page(r)
           k == Len(page)
           d == BlockData
<1>1. data \in Snapshots /\ wire \in Seq(Nat)
  BY DEF TypeOK, Units
<1>2. /\ r \in Pages /\ WireLen = 3 + k /\ k \in Nat
      /\ wire[5] = r * PageSize /\ wire[6] = HashPage(page) /\ wire[7] = k
      /\ \A j \in 1 .. k : wire[7 + j] = page[j]
  BY FrontBlock
<1>3. Len(Payload) = 3 + k /\ \A j \in 1 .. (3 + k) : Payload[j] = wire[4 + j]
  BY <1>1, <1>2, PayloadIs
<1>4. page \in Seq(0 .. (Base - 1)) /\ r * PageSize + k <= TotalBytes
  BY <1>1, <1>2, PageIs
<1> HIDE DEF page, k, d
<1>5. BlockDataLen = k
  <2>1. 3 \in 1 .. (3 + k)
    BY <1>2
  <2>2. Payload[3] = wire[4 + 3]
    BY <1>3, <2>1
  <2> QED
    BY <1>2, <2>2 DEF BlockDataLen
<1>6. 3 <= Len(Payload) /\ BlockDataLen <= Len(Payload) - 3
  BY <1>2, <1>3, <1>5
<1>7. /\ BlockOffset = wire[5] /\ BlockChecksum = wire[6]
      /\ d \in Seq(Nat) /\ Len(d) = k
      /\ \A j \in 1 .. k : d[j] = wire[7 + j]
  BY <1>1, <1>5, <1>6, BlockDataIs DEF d
<1>8. d = page
  <2>1. DOMAIN d = 1 .. k /\ DOMAIN page = 1 .. k
    BY <1>4, <1>7 DEF k
  <2>2. d = [j \in 1 .. k |-> d[j]] /\ page = [j \in 1 .. k |-> page[j]]
    BY <1>4, <1>7, <2>1
  <2>3. \A j \in 1 .. k : d[j] = page[j]
    BY <1>2, <1>7
  <2> QED
    BY <2>2, <2>3
<1>9. BlockAcceptable
  <2>1. HashPage(BlockData) = BlockChecksum
    BY <1>2, <1>7, <1>8 DEF d
  <2>2. BlockOffset + BlockDataLen <= TotalBytes
    BY <1>2, <1>4, <1>5, <1>7
  <2> QED
    BY <1>6, <2>1, <2>2 DEF BlockAcceptable, BlockHeaderLen
<1> QED
  BY <1>2, <1>5, <1>7, <1>8, <1>9 DEF page, k, d

\* If no whole block is ahead and a frame has arrived, it is MsgComplete, behind
\* the last block: no part of a frame is taken for a frame.
LEMMA FrontTail ==
  ASSUME NEW pos, InSync(blk, pos), TypeOK, FrameArrived
  PROVE  tx = "ok" /\ blk = PageCount /\ WireType = MsgComplete
<1> DEFINE f == NextFrame
           n == Len(wire)
<1>1. pos[blk] = 0 /\ blk \in Nat /\ n \in Nat /\ data \in Snapshots /\ blk \in 0 .. PageCount
  BY SyncShape DEF TypeOK
<1>2. Len(f) \in Nat /\ 4 <= Len(f) /\ f[3] * Base + f[4] = Len(f) - 4
  BY <1>1, NextFrameIs
<1>3. /\ n - pos[blk] \in 0 .. Len(f)
      /\ \A j \in 1 .. (n - pos[blk]) : wire[pos[blk] + j] = f[j]
      /\ n - pos[blk] = Len(f) => tx = "ok"
      /\ tx = "ok" => blk = PageCount
  BY Zenon DEF InSync, TailAt
<1>4. 4 <= n /\ 4 + WireLen <= n
  BY DEF FrameArrived, HeaderLen
<1> HIDE DEF f, n
<1>5. n - pos[blk] = n
  BY <1>1
<1>6. \A j \in 1 .. n : wire[j] = f[j]
  <2>1. \A j \in 1 .. n : pos[blk] + j = j
    BY <1>1
  <2> QED
    BY <1>3, <1>5, <2>1
<1>7. wire[1] = f[1] /\ wire[2] = f[2] /\ wire[3] = f[3] /\ wire[4] = f[4]
  BY <1>1, <1>4, <1>6
<1>8. WireLen = Len(f) - 4
  BY <1>2, <1>7 DEF WireLen
<1>9. n = Len(f)
  BY <1>1, <1>2, <1>3, <1>4, <1>5, <1>8
<1>10. tx = "ok" /\ blk = PageCount
  BY <1>3, <1>5, <1>9
<1>11. f = Frame(MsgComplete, <<>>)
  BY <1>1, <1>10 DEF f, NextFrame
<1>12. f[1] * Base + f[2] = MsgComplete
  BY <1>11, CompleteIs
<1> QED
  BY <1>7, <1>10, <1>12 DEF WireType

\* A block is taken from the stream: the receiver is one block further.
LEMMA SyncReceive ==
  ASSUME NEW r, NEW pos, InSync(r, pos), TypeOK, ControlInv, ReceiveBlock
  PROVE  Synced'
<1> DEFINE a == 4 + WireLen
           b == blk
           c == r + 1
           n == Len(wire)
           p == pos[blk]
           q == [m \in c .. b |-> pos[m] - a]
           L(m) == Len(BlockFrame(m))
<1>1. /\ FrameArrived /\ WireType = MsgDataBlock /\ BlockAcceptable /\ ConsumeFrame
      /\ UNCHANGED <<data, blk, tx, rx>>
      /\ written' = written + BlockDataLen /\ rx = "receiving"
  BY DEF ReceiveBlock, txVars
<1>2. /\ \A m : BlockFrame(m)' = BlockFrame(m)
      /\ TotalBytes' = TotalBytes /\ PageCount' = PageCount
  BY <1>1, SameData
<1>3. /\ r \in Nat /\ b \in Nat /\ r <= b /\ PageCount \in Nat /\ b <= PageCount
      /\ pos \in [r .. b -> Nat] /\ p \in Nat /\ n \in Nat /\ p <= n
      /\ data \in Snapshots /\ wire \in Seq(Nat)
  BY SyncShape DEF TypeOK, Units
<1>4. r < b
  <2>1. ASSUME r = b PROVE FALSE
    BY <1>1, <2>1, FrontTail DEF MsgDataBlock, MsgComplete
  <2> QED
    BY <1>3, <2>1
<1>5. /\ r \in Pages /\ c \in r .. b /\ pos[c] = a
      /\ WireLen = 3 + Len(Page(r)) /\ Len(Page(r)) \in Nat
  BY <1>4, FrontBlock
<1>6. /\ a \in Nat /\ a <= n /\ Len(wire') = n - a
      /\ \A i \in 1 .. Len(wire') : wire'[i] = wire[a + i]
  <2>1. /\ WireLen \in Nat /\ 4 + WireLen <= Len(wire)
        /\ Len(wire') = Len(wire) - (4 + WireLen)
        /\ \A i \in 1 .. Len(wire') : wire'[i] = wire[4 + WireLen + i]
    BY <1>1, <1>3, Consumed
  <2>2. 4 + WireLen \in Nat
    BY <2>1
  <2> QED
    BY <2>1, <2>2, Zenon
<1> HIDE DEF a
<1>7. ASSUME NEW m \in c .. b
      PROVE  m \in r .. b /\ pos[m] \in Nat /\ a <= pos[m] /\ q[m] = pos[m] - a /\ q[m] \in Nat
  <2>1. m \in r .. b /\ c <= m
    BY <1>3
  <2>2. pos[m] \in Nat
    BY <1>3, <2>1
  <2>3. pos[c] <= pos[m]
    BY <1>5, <2>1, Zenon DEF InSync, BlocksAt
  <2>4. q[m] = pos[m] - a
    OBVIOUS
  <2> DEFINE x == pos[m]
  <2>5. x \in Nat /\ a <= x
    BY <1>5, <2>2, <2>3
  <2> HIDE DEF x, q
  <2>6. x - a \in Nat
    BY <1>6, <2>5
  <2> QED
    BY <2>1, <2>4, <2>5, <2>6 DEF x
<1>8. q \in [c .. b -> Nat]
  <2>1. \A m \in c .. b : pos[m] - a \in Nat
    BY <1>7
  <2> QED
    BY <2>1
<1> HIDE DEF q
<1>9. c \in 0 .. b /\ c \in c .. b /\ b \in c .. b
  BY <1>3, <1>4
<1>10. q[c] = 0
  <2>1. q[c] = a - a
    BY <1>5, <1>7, <1>9
  <2> QED
    BY <1>6, <2>1
<1>11. ASSUME NEW m \in c .. b, NEW k \in c .. b, m <= k PROVE q[m] <= q[k]
  <2>1. pos[m] <= pos[k]
    BY <1>7, <1>11, Zenon DEF InSync, BlocksAt
  <2>2. /\ pos[m] \in Nat /\ pos[k] \in Nat
        /\ q[m] = pos[m] - a /\ q[k] = pos[k] - a
    BY <1>7
  <2> QED
    BY <1>6, <2>1, <2>2
<1>12. ASSUME NEW m \in c .. (b - 1)
       PROVE  /\ q[m + 1] = q[m] + L(m)
              /\ \A j \in 1 .. L(m) : wire'[q[m] + j] = BlockFrame(m)[j]
  <2>1. m \in r .. (b - 1) /\ m \in c .. b /\ m + 1 \in c .. b
    BY <1>3
  <2>2. /\ pos[m + 1] = pos[m] + L(m) /\ L(m) \in Nat
        /\ pos[m + 1] <= n
    BY <2>1, SyncShape
  <2>3. /\ pos[m] \in Nat /\ a <= pos[m] /\ q[m] = pos[m] - a
        /\ pos[m + 1] \in Nat /\ q[m + 1] = pos[m + 1] - a
    BY <1>7, <2>1
  <2> DEFINE x == pos[m]
             y == pos[m + 1]
             w == L(m)
  <2>4. /\ x \in Nat /\ y \in Nat /\ w \in Nat /\ a <= x /\ y = x + w /\ y <= n
        /\ q[m] = x - a /\ q[m + 1] = y - a
    BY <2>2, <2>3
  <2> HIDE DEF x, y, w
  <2>5. q[m + 1] = q[m] + w
    BY <1>6, <2>4
  <2>6. ASSUME NEW j \in 1 .. w PROVE wire'[q[m] + j] = BlockFrame(m)[j]
    <3>1. (x - a) + j \in 1 .. Len(wire') /\ a + ((x - a) + j) = x + j
      BY <1>3, <1>6, <2>4
    <3>2. wire'[(x - a) + j] = wire[x + j]
      BY <1>6, <3>1
    <3>3. wire[x + j] = BlockFrame(m)[j]
      BY <2>1, Zenon DEF InSync, BlocksAt, x, w
    <3> QED
      BY <2>4, <3>2, <3>3
  <2> QED
    BY <2>5, <2>6 DEF w
<1>13. BlocksAt(wire', c, b, q)
  BY <1>8, <1>9, <1>10, <1>11, <1>12, Zenon DEF BlocksAt
<1>14. TailAt(wire', NextFrame, q[b], tx)
  <2> DEFINE f == NextFrame
             x == q[b]
             y == Len(wire')
             z == Len(f)
  <2>1. x = p - a /\ a <= p
    BY <1>7, <1>9
  <2>2. y = n - a
    BY <1>6
  <2>3. /\ n - p \in 0 .. z
        /\ \A j \in 1 .. (n - p) : wire[p + j] = f[j]
        /\ n - p # 0 => tx \in {"ok", "error"}
        /\ n - p = z <=> tx = "ok"
    BY Zenon DEF InSync, TailAt
  <2> HIDE DEF x, y, z, f, p, n
  <2>4. y - x = n - p
    BY <1>3, <1>6, <2>1, <2>2
  <2>5. ASSUME NEW j \in 1 .. (n - p) PROVE wire'[x + j] = f[j]
    <3>1. x + j \in 1 .. y /\ a + (x + j) = p + j
      BY <1>3, <1>6, <2>1, <2>2
    <3>2. wire'[x + j] = wire[p + j]
      BY <1>6, <3>1 DEF y
    <3> QED
      BY <2>3, <3>2
  <2> QED
    BY <2>3, <2>4, <2>5, Zenon DEF TailAt, x, y, z, f
<1>15. PICK d : BlocksAt(wire', c, b, d) /\ TailAt(wire', NextFrame, d[b], tx)
  BY <1>13, <1>14, Zenon
<1>16. BlocksAt(wire, c, blk, d)'
  BY <1>1, <1>2, <1>15 DEF BlocksAt
<1>17. TailAt(wire, NextFrame, d[blk], tx)'
  <2>1. NextFrame' = NextFrame
    BY <1>1, <1>2 DEF NextFrame
  <2> QED
    BY <1>1, <1>15, <2>1 DEF TailAt
<1>18. BlockOffset = r * PageSize /\ BlockDataLen = Len(Page(r)) /\ BlockData = Page(r)
  BY <1>1, <1>4, FrontIsPage
<1>19. /\ Bytes(r) = r * PageSize /\ Bytes(r) \in Nat
       /\ Bytes(c) = Bytes(r) + Len(Page(r)) /\ Bytes(c) <= TotalBytes
  BY <1>3, <1>5, BytesAre
<1>20. written = Bytes(r) /\ \A i \in 1 .. written : buf[i] = data[i]
  BY <1>1, Zenon DEF InSync
<1>21. written' = Bytes(c)'
  BY <1>1, <1>2, <1>18, <1>19, <1>20 DEF Bytes
<1>22. ASSUME NEW i \in 1 .. written' PROVE buf'[i] = data'[i]
  <2> DEFINE u == BlockOffset
             k == BlockDataLen
             total == TotalBytes
  <2>1. u \in Nat /\ k \in Nat /\ total \in Nat /\ written' = u + k /\ written = u /\ u + k <= total
    BY <1>1, <1>3, <1>5, <1>18, <1>19, <1>20, DataType
  <2>2. \A j \in 1 .. total :
           buf'[j] = IF j \in (u + 1) .. (u + k) THEN BlockData[j - u] ELSE buf[j]
    <3>1. StreamOK /\ RxOK /\ Len(buf) = TotalBytes
      BY <1>1, TypeParts DEF ControlInv
    <3> QED
      BY <3>1, CopyType
  <2>3. \A j \in 1 .. k : BlockData[j] = data[u + j]
    BY <1>3, <1>5, <1>18, PageIs
  <2> HIDE DEF u, k, total
  <2>4. i \in 1 .. total /\ (i \in (u + 1) .. (u + k) \/ i \in 1 .. u)
    BY <2>1
  <2>5. CASE i \in (u + 1) .. (u + k)
    <3>1. i - u \in 1 .. k /\ u + (i - u) = i
      BY <2>1, <2>5
    <3> QED
      BY <1>1, <2>2, <2>3, <2>4, <2>5, <3>1
  <2>6. CASE i \in 1 .. u
    <3>1. i \notin (u + 1) .. (u + k)
      BY <2>1, <2>6
    <3> QED
      BY <1>1, <1>20, <2>1, <2>2, <2>4, <2>6, <3>1
  <2> QED
    BY <2>4, <2>5, <2>6
<1>23. tx' = "ok" => blk' = PageCount'
  BY <1>1, <1>2 DEF InSync
<1>24. InSync(c, d)'
  BY <1>16, <1>17, <1>21, <1>22, <1>23, Zenon DEF InSync
<1> QED
  BY <1>24 DEF Synced

\* A transfer that has ended, or whose stream was spoilt, stays so.
LEMMA LiveBefore ==
  ASSUME TypeOK, ControlInv, [Next]_vars
  PROVE  /\ Live' => Live
         /\ resent => resent'
         /\ rx = "error" => rx' = "error"
         /\ rx = "done" => rx' = "done" /\ result' = result
<1>1. resent => resent'
  <2>1. CASE SendBlockFails
    <3>1. \/ \E k \in 0 .. (Len(BlockFrame(blk)) - 1) : resent' = (resent \/ k > 0)
          \/ resent' = resent
      BY <2>1, Zenon DEF SendBlockFails
    <3> QED
      BY <3>1, Zenon
  <2>2. CASE Dial \/ SendHandshake \/ ReadReadyAck \/ SendBlock \/ SendComplete
    BY <2>2, Zenon DEF Dial, SendHandshake, ReadReadyAck, SendBlock, SendComplete, TxGives
  <2>3. CASE Receive \/ LinkBreaks \/ UNCHANGED vars
    BY <2>3, Zenon DEF Receive, ReceiveHandshake, HandshakeFails, ReceiveBlock,
       ReceiveComplete, RejectFrame, ReceiveUnknown, ReadFails, LinkBreaks, txVars, vars
  <2> QED
    BY <2>1, <2>2, <2>3 DEF Next, Transmit
<1>2. rx \in {"done", "error"} => rx' = rx /\ result' = result
  <2> SUFFICES ASSUME rx \in {"done", "error"} PROVE rx' = rx /\ result' = result
    OBVIOUS
  <2>1. tx # "dial"
    BY DEF ControlInv
  <2>2. CASE Transmit
    BY <2>1, <2>2 DEF Transmit, Dial, SendHandshake, ReadReadyAck, SendBlock, SendBlockFails,
       SendComplete, rxVars
  <2>3. CASE Receive
    BY <2>3 DEF Receive, ReceiveHandshake, HandshakeFails, ReceiveBlock,
       ReceiveComplete, RejectFrame, ReceiveUnknown, ReadFails
  <2>4. CASE LinkBreaks \/ UNCHANGED vars
    BY <2>4 DEF LinkBreaks, vars, rxVars
  <2> QED
    BY <2>2, <2>3, <2>4 DEF Next
<1>3. Live' => Live
  BY <1>1, <1>2, Zenon DEF Live
<1> QED
  BY <1>1, <1>2, <1>3

\* A write failed and nothing of the block had been written, or the transfer fails.
LEMMA SyncFails ==
  ASSUME NEW r, NEW pos, InSync(r, pos), TypeOK, SendBlockFails, ~resent'
  PROVE  Synced'
<1>1. /\ tx = "blocks" /\ UNCHANGED <<data, blk, rx, buf, written>> /\ Transmit
      /\ data \in Snapshots /\ blk \in 0 .. PageCount
  BY Zenon DEF SendBlockFails, rxVars, Transmit, TypeOK
<1>2. blk \in Nat /\ PageCount \in Nat /\ Len(NextFrame) \in Nat /\ 4 <= Len(NextFrame)
  BY <1>1, Counting, NextFrameIs
<1>3. PICK k \in 0 .. (Len(NextFrame) - 1) :
         /\ Writes(k)
         /\ \/ resent' = (resent \/ k > 0) /\ UNCHANGED tx
            \/ tx' = "error"
  <2>1. blk < PageCount
    BY DEF SendBlockFails
  <2>2. NextFrame = BlockFrame(blk)
    BY <2>1 DEF NextFrame
  <2> QED
    BY <2>2, Zenon DEF SendBlockFails, Writes
<1>4. k \in 0 .. Len(NextFrame) /\ k \in Nat /\ k # Len(NextFrame)
  BY <1>2
<1>5. tx' \in {"blocks", "error"} /\ (k > 0 => tx' = "error")
  BY <1>1, <1>3, Zenon
<1>6. /\ k # 0 => tx' \in {"ok", "error"}
      /\ k = Len(NextFrame) <=> tx' = "ok"
      /\ tx' = "ok" => blk = PageCount
  BY <1>4, <1>5
<1>7. InSync(r, pos)'
  BY <1>1, <1>3, <1>4, <1>6, SyncTail
<1> QED
  BY <1>7 DEF Synced

\* MsgComplete is written behind the last block, or a part of it.
LEMMA SyncComplete ==
  ASSUME NEW r, NEW pos, InSync(r, pos), TypeOK, SendComplete
  PROVE  Synced'
<1>1. /\ tx = "blocks" /\ UNCHANGED <<data, blk, rx, buf, written>>
      /\ data \in Snapshots /\ blk \in 0 .. PageCount /\ blk = PageCount
  BY Zenon DEF SendComplete, rxVars, TxGives, TypeOK
<1>2. PageCount \in Nat /\ Len(NextFrame) \in Nat /\ 4 <= Len(NextFrame)
  BY <1>1, Counting, NextFrameIs
<1> DEFINE f == Frame(MsgComplete, <<>>)
<1>3. NextFrame = f /\ Len(f) = 4 /\ f \in Seq(Nat)
  BY <1>1, <1>2, CompleteIs DEF NextFrame
<1>4. SubSeq(NextFrame, 1, Len(NextFrame)) = NextFrame
  BY <1>2, <1>3, PrefixIs
<1>5. PICK k \in 0 .. Len(NextFrame) :
         /\ Writes(k)
         /\ (tx' = "ok" /\ k = Len(NextFrame)) \/ (tx' = "error" /\ k # Len(NextFrame))
  <2>1. CASE wire' = wire \o f /\ tx' = "ok"
    <3>1. Writes(Len(NextFrame))
      BY <1>3, <1>4, <2>1, Zenon DEF Writes
    <3>2. Len(NextFrame) \in 0 .. Len(NextFrame)
      BY <1>2
    <3> QED
      BY <2>1, <3>1, <3>2, Zenon
  <2>2. CASE \E k \in 0 .. 3 : wire' = wire \o SubSeq(f, 1, k) /\ tx' = "error"
    <3>1. PICK k \in 0 .. 3 : wire' = wire \o SubSeq(f, 1, k) /\ tx' = "error"
      BY <2>2
    <3>2. k \in 0 .. Len(NextFrame) /\ k # Len(NextFrame)
      <4>1. Len(NextFrame) = 4
        BY <1>3
      <4> QED
        BY <4>1
    <3>3. Writes(k)
      BY <1>3, <3>1, Zenon DEF Writes
    <3> QED
      BY <3>1, <3>2, <3>3, Zenon
  <2>3. 0 .. (HeaderLen - 1) = 0 .. 3
    BY DEF HeaderLen
  <2> QED
    BY <2>1, <2>2, <2>3, Zenon DEF SendComplete, TxGives
<1>6. /\ k # 0 => tx' \in {"ok", "error"}
      /\ k = Len(NextFrame) <=> tx' = "ok"
      /\ tx' = "ok" => blk = PageCount
  BY <1>1, <1>5
<1>7. InSync(r, pos)'
  BY <1>1, <1>5, <1>6, SyncTail
<1> QED
  BY <1>7 DEF Synced

\* While both sides are in step, the frame at the front is a block or MsgComplete.
LEMMA FrontIsKnown ==
  ASSUME NEW r, NEW pos, InSync(r, pos), TypeOK, FrameArrived
  PROVE  WireType \in {MsgDataBlock, MsgComplete}
<1>1. r \in Nat /\ blk \in Nat /\ r <= blk
  BY SyncShape
<1>2. CASE r < blk
  BY <1>2, FrontBlock
<1>3. CASE r = blk
  BY <1>3, FrontTail
<1> QED
  BY <1>1, <1>2, <1>3

\* Every step of a transfer that goes on keeps both sides in step.
LEMMA SyncStep ==
  TypeOK /\ ControlInv /\ SyncInv /\ [Next]_vars => SyncInv'
<1> SUFFICES ASSUME TypeOK, ControlInv, SyncInv, [Next]_vars, Live'
             PROVE  Synced'
  BY Zenon DEF SyncInv
<1>1. Live /\ rx' \notin {"done", "error"} /\ ~resent'
  BY LiveBefore, Zenon DEF Live
<1>2. PICK r, pos : InSync(r, pos)
  BY <1>1 DEF SyncInv, Synced
<1>3. ASSUME UNCHANGED <<data, blk, wire, written>>,
             tx' = tx \/ (tx \notin {"ok", "error"} /\ tx' # "ok"),
             rx' = "receiving" => written = 0 \/ UNCHANGED <<rx, buf>>
      PROVE  Synced'
  <2>1. InSync(r, pos)'
    BY <1>2, <1>3, SyncKept
  <2> QED
    BY <2>1 DEF Synced
<1>4. CASE Dial
  BY <1>3, <1>4 DEF Dial, TxGives
<1>5. CASE SendHandshake
  BY <1>3, <1>5 DEF SendHandshake, TxGives, rxVars
<1>6. CASE ReadReadyAck
  BY <1>3, <1>6 DEF ReadReadyAck, TxGives, rxVars
<1>7. CASE SendBlock
  BY <1>2, <1>7, SyncBlock
<1>8. CASE SendBlockFails
  BY <1>1, <1>2, <1>8, SyncFails
<1>9. CASE SendComplete
  BY <1>2, <1>9, SyncComplete
<1>10. CASE ReceiveHandshake
  <2>1. /\ UNCHANGED <<data, blk, wire, written, tx>> /\ rx = "handshake"
    BY <1>10 DEF ReceiveHandshake, RxFails, txVars
  <2>2. written = 0
    BY <2>1 DEF ControlInv
  <2> QED
    BY <1>3, <2>1, <2>2
<1>11. CASE ReceiveBlock
  BY <1>2, <1>11, SyncReceive
<1>12. CASE ReceiveComplete
  BY <1>1, <1>12 DEF ReceiveComplete, RxFails
<1>13. CASE ReceiveUnknown
  BY <1>2, <1>13, FrontIsKnown DEF ReceiveUnknown
<1>14. CASE HandshakeFails \/ RejectFrame \/ ReadFails
  BY <1>1, <1>14 DEF HandshakeFails, RejectFrame, ReadFails, RxFails
<1>15. CASE LinkBreaks \/ UNCHANGED vars
  BY <1>3, <1>15 DEF LinkBreaks, vars, txVars, rxVars
<1> QED
  BY <1>4, <1>5, <1>6, <1>7, <1>8, <1>9, <1>10, <1>11, <1>12, <1>13, <1>14, <1>15
  DEF Next, Transmit, Receive

\* MsgComplete is read when every block has been: what is returned is the snapshot.
LEMMA CompleteIsWhole ==
  ASSUME NEW r, NEW pos, InSync(r, pos), TypeOK, ControlInv,
         ReceiveComplete
  PROVE  tx = "ok" /\ (rx' = "done" => result' = data)
<1>1. /\ rx = "receiving" /\ FrameArrived /\ WireType = MsgComplete
      /\ rx' = "done" => result' = SubSeq(buf, 1, written)
  BY DEF ReceiveComplete, RxFails
<1>2. /\ data \in Snapshots /\ buf \in Seq(Nat) /\ Len(buf) = TotalBytes
  BY <1>1 DEF TypeOK, ControlInv, Units
<1>3. r = blk
  <2>1. r \in Nat /\ blk \in Nat /\ r <= blk
    BY SyncShape
  <2>2. ASSUME r < blk PROVE FALSE
    BY <1>1, <2>2, FrontBlock DEF MsgDataBlock, MsgComplete
  <2> QED
    BY <2>1, <2>2
<1>4. tx = "ok" /\ r = PageCount
  BY <1>1, <1>3, FrontTail
<1>5. written = TotalBytes /\ \A i \in 1 .. TotalBytes : buf[i] = data[i]
  <2>1. written = Bytes(r) /\ \A i \in 1 .. written : buf[i] = data[i]
    BY <1>1, Zenon DEF InSync
  <2>2. Bytes(PageCount) = TotalBytes
    BY <1>2, BytesAre
  <2> QED
    BY <1>4, <2>1, <2>2
<1>6. SubSeq(buf, 1, written) = buf
  <2>1. 0 \in 0 .. Len(buf)
    BY <1>2
  <2> QED
    BY <1>2, <1>5, <2>1, PrefixIs
<1>7. buf = data
  <2>1. data \in Seq(0 .. (Base - 1)) /\ Len(data) = TotalBytes
    BY <1>2, DataType DEF TotalBytes
  <2>2. DOMAIN buf = 1 .. TotalBytes /\ DOMAIN data = 1 .. TotalBytes
    BY <1>2, <2>1
  <2>3. buf = [i \in 1 .. TotalBytes |-> buf[i]] /\ data = [i \in 1 .. TotalBytes |-> data[i]]
    BY <1>2, <2>1, <2>2
  <2> QED
    BY <1>5, <2>3
<1> QED
  BY <1>1, <1>4, <1>6, <1>7

\* Every step keeps what holds of a completed transfer.
LEMMA DoneStep ==
  TypeOK /\ ControlInv /\ SyncInv /\ DoneInv /\ [Next]_vars => DoneInv'
<1> SUFFICES ASSUME TypeOK, ControlInv, SyncInv, DoneInv, [Next]_vars,
                    rx' = "done", ~resent'
             PROVE  tx' = "ok" /\ result' = data'
  BY Zenon DEF DoneInv
<1>1. data' = data
  BY DEF Next, Transmit, Dial, SendHandshake, ReadReadyAck, SendBlock, SendBlockFails,
     SendComplete, Receive, ReceiveHandshake, HandshakeFails, ReceiveBlock,
     ReceiveComplete, RejectFrame, ReceiveUnknown, ReadFails, LinkBreaks, vars
<1>2. ~resent
  BY LiveBefore, Zenon
<1>3. CASE rx = "done"
  <2>1. tx = "ok" /\ result = data /\ result' = result
    BY <1>2, <1>3, LiveBefore, Zenon DEF DoneInv
  <2>2. tx' = tx
    <3>1. ~Transmit
      BY <2>1 DEF Transmit, Dial, SendHandshake, ReadReadyAck, SendBlock, SendBlockFails,
         SendComplete
    <3> QED
      BY <3>1 DEF Next, Receive, ReceiveHandshake, HandshakeFails, ReceiveBlock,
         ReceiveComplete, RejectFrame, ReceiveUnknown, ReadFails, LinkBreaks, vars, txVars
  <2> QED
    BY <1>1, <2>1, <2>2
<1>4. CASE rx # "done"
  <2>1. ReceiveComplete
    BY <1>4 DEF Next, Transmit, Dial, SendHandshake, ReadReadyAck, SendBlock, SendBlockFails,
       SendComplete, Receive, ReceiveHandshake, HandshakeFails, ReceiveBlock,
       RejectFrame, ReceiveUnknown, ReadFails, RxFails, LinkBreaks, vars, rxVars
  <2>2. Live /\ UNCHANGED tx
    <3>1. rx = "receiving" /\ tx' = tx
      BY <2>1 DEF ReceiveComplete, txVars
    <3>2. rx \notin {"done", "error"}
      BY <3>1
    <3> QED
      BY <1>2, <3>1, <3>2, Zenon DEF Live
  <2>3. PICK r, pos : InSync(r, pos)
    BY <2>2 DEF SyncInv, Synced
  <2>4. tx = "ok" /\ result' = data
    BY <2>1, <2>3, CompleteIsWhole
  <2> QED
    BY <1>1, <2>2, <2>4
<1> QED
  BY <1>3, <1>4

-----------------------------------------------------------------------------
(***************************************************************************)
(* The theorems.                                                           *)
(***************************************************************************)

IInv ==
    /\ TypeOK
    /\ ControlInv
    /\ SyncInv
    /\ DoneInv

\* The invariant on which the theorems below rest: the order of the handshake,
\* and that both sides are in step until a block is written again.
THEOREM Invariance == Spec => []IInv
<1>1. Init => IInv
  BY InitType, InitSync DEF IInv
<1>2. IInv /\ [Next]_vars => IInv'
  BY TypeStep, ControlStep, SyncStep, DoneStep DEF IInv
<1> QED
  BY <1>1, <1>2, PTL DEF Spec

\* Counters, stream, buffer and both programs' positions keep their types: in
\* particular no more than PageCount blocks are sent and no block is tried more
\* than MaxRetries times again (sendBlockWithRetry).
THEOREM TypeCorrect == Spec => []TypeOK
<1>1. IInv => TypeOK
  BY DEF IInv
<1> QED
  BY <1>1, Invariance, PTL

\* Until a block is written again behind a part of it, every frame receiveOne can
\* read is the one it needs next, is accepted, and continues the copy.
THEOREM StaysInStep == Spec => []ReceiverInStep
<1>1. IInv => ReceiverInStep
  <2> SUFFICES ASSUME IInv, rx = "receiving", ~resent
               PROVE  /\ written <= TotalBytes
                      /\ \A i \in 1 .. written : buf[i] = data[i]
                      /\ FrameArrived =>
                            \/ /\ WireType = MsgDataBlock /\ BlockAcceptable
                               /\ BlockOffset = written
                            \/ WireType = MsgComplete /\ written = TotalBytes
    BY Zenon DEF ReceiverInStep
  <2>1. PICK r, pos : InSync(r, pos)
    <3>1. Live
      BY Zenon DEF Live
    <3> QED
      BY <3>1 DEF IInv, SyncInv, Synced
  <2>2. TypeOK /\ data \in Snapshots
    BY Zenon DEF IInv, TypeOK
  <2>3. r \in Nat /\ blk \in Nat /\ PageCount \in Nat /\ r <= blk /\ blk <= PageCount
    BY <2>1, <2>2, SyncShape
  <2>4. written = Bytes(r) /\ \A i \in 1 .. written : buf[i] = data[i]
    BY <2>1, Zenon DEF InSync
  <2>5. Bytes(PageCount) = TotalBytes /\ TotalBytes \in Nat
    BY <2>2, BytesAre, DataType
  <2>6. \A n \in Pages : /\ Bytes(n) = n * PageSize /\ Bytes(n) \in Nat
                         /\ Bytes(n + 1) = Bytes(n) + Len(Page(n))
                         /\ Bytes(n + 1) <= TotalBytes /\ Len(Page(n)) \in Nat
    BY <2>2, BytesAre, PageIs
  <2>7. written <= TotalBytes
    <3>1. CASE r = PageCount
      BY <2>4, <2>5, <3>1
    <3>2. CASE r < PageCount
      <4>1. r \in Pages
        BY <2>3, <3>2 DEF Pages
      <4> QED
        BY <2>4, <2>5, <2>6, <4>1
    <3> QED
      BY <2>3, <3>1, <3>2
  <2>8. CASE r < blk
    BY <2>1, <2>2, <2>4, <2>6, <2>7, <2>8, FrontBlock, FrontIsPage
  <2>9. CASE r = blk
    <3>1. FrameArrived => WireType = MsgComplete /\ r = PageCount
      BY <2>1, <2>2, <2>9, FrontTail
    <3> QED
      BY <2>4, <2>5, <2>7, <3>1
  <2> QED
    BY <2>3, <2>8, <2>9
<1> QED
  BY <1>1, Invariance, PTL

\* What AcceptSnapshot returns is the whole snapshot, unless a block was written
\* again behind a part of it.
THEOREM ReceivedIsWhole == Spec => []ReceivedIsSent
<1>1. IInv => ReceivedIsSent
  BY Zenon DEF IInv, DoneInv, ReceivedIsSent
<1> QED
  BY <1>1, Invariance, PTL

\* When SendSnapshot fails the receiver has not returned a snapshot, unless a
\* block was written again behind a part of it.
THEOREM FailureIsUncommitted == Spec => []ErrorMeansUncommitted
<1>1. IInv => ErrorMeansUncommitted
  <2> SUFFICES ASSUME DoneInv, tx = "error", ~resent PROVE rx # "done"
    BY Zenon DEF IInv, ErrorMeansUncommitted
  <2>1. tx # "ok"
    OBVIOUS
  <2> QED
    BY <2>1, Zenon DEF DoneInv
<1> QED
  BY <1>1, Invariance, PTL
-----------------------------------------------------------------------------
(***************************************************************************)
(* The transfer as the orchestrator sees it.                               *)
(***************************************************************************)

\* What Teleporter allows the transmitter and the receiver.
TStep ==
    IF resent THEN R!TransmitterStep \/ R!ReceiverStep
    ELSE T!TransmitterStep \/ T!ReceiverStep

\* A step that leaves both programs where they were is none for the orchestrator.
LEMMA Unseen ==
  ASSUME TeleporterXmit' = TeleporterXmit, TeleporterRcv' = TeleporterRcv
  PROVE  UNCHANGED T!vars
BY DEF T!vars, T!orchVars, T!srcVars, T!captVars, T!netVars, T!dstVars

\* The abstract steps, in terms of what the orchestrator sees.
LEMMA SeenTransmitter ==
  ASSUME \/ /\ TeleporterXmit = "dialing" /\ TeleporterXmit' = "sending"
            /\ TeleporterRcv = "listening" /\ TeleporterRcv' = "receiving"
         \/ /\ TeleporterXmit \in {"dialing", "sending"} /\ TeleporterXmit' = "error"
            /\ TeleporterRcv' = TeleporterRcv
         \/ /\ TeleporterXmit = "sending" /\ TeleporterXmit' = "ok"
            /\ TeleporterRcv' = TeleporterRcv
  PROVE  TStep
<1>1. T!TransmitterStep
  BY DEF T!TransmitterStep, T!TransmitterConnects, T!TransmitterFails,
     T!TransmitterCompletes, T!orchVars, T!srcVars, T!captVars, T!dstVars
<1>2. R!TransmitterStep
  BY DEF R!TransmitterStep, R!TransmitterConnects, R!TransmitterFails,
     R!TransmitterCompletes, R!orchVars, R!srcVars, R!captVars, R!dstVars
<1> QED
  BY <1>1, <1>2, Zenon DEF TStep

\* The receiver fails, or returns: early or damaged only behind a block sent again.
LEMMA SeenReceiver ==
  ASSUME TeleporterRcv = "receiving", TeleporterXmit' = TeleporterXmit,
         \/ TeleporterRcv' = "failed"
         \/ TeleporterRcv' = "buffered" /\ TeleporterXmit = "ok"
         \/ TeleporterRcv' \in {"buffered", "buffered_cut"} /\ resent
  PROVE  TStep
<1>1. ~(TeleporterRcv' \in {"buffered", "buffered_cut"} /\ resent) => T!ReceiverStep
  BY DEF T!ReceiverStep, T!ReceiverReturns, T!ReceiverFails, T!orchVars, T!srcVars,
     T!captVars, T!dstVars
<1>2. R!ReceiverStep
  BY DEF R!ReceiverStep, R!ReceiverReturns, R!ReceiverFails, R!orchVars, R!srcVars,
     R!captVars, R!dstVars
<1> QED
  BY <1>1, <1>2, Zenon DEF TStep

\* Each step of the two programs and of the link is one that Teleporter allows, or
\* none.
LEMMA StepIsSeen ==
  ASSUME TypeOK, ControlInv, DoneInv', [Next]_vars
  PROVE  TStep \/ UNCHANGED T!vars
<1>1. tx \in {"dial", "handshake", "await_ack", "blocks", "ok", "error"}
  BY DEF TypeOK
<1>2. ASSUME UNCHANGED <<data, rx, result>> PROVE TeleporterRcv' = TeleporterRcv
  BY <1>2 DEF TeleporterRcv
<1>3. ASSUME tx' = tx PROVE TeleporterXmit' = TeleporterXmit
  BY <1>3 DEF TeleporterXmit, TxClosed
<1>4. ASSUME UNCHANGED <<data, rx, result>>,
             \/ tx' = tx
             \/ tx \in {"dial", "handshake", "await_ack", "blocks"} /\ tx' = "error"
             \/ tx \in {"handshake", "await_ack", "blocks"}
                /\ tx' \in {"handshake", "await_ack", "blocks"}
             \/ tx = "blocks" /\ tx' = "ok"
      PROVE  TStep \/ UNCHANGED T!vars
  <2>1. TeleporterRcv' = TeleporterRcv
    BY <1>2, <1>4
  <2>2. \/ TeleporterXmit' = TeleporterXmit
        \/ TeleporterXmit \in {"dialing", "sending"} /\ TeleporterXmit' = "error"
        \/ TeleporterXmit = "sending" /\ TeleporterXmit' = "ok"
    BY <1>4 DEF TeleporterXmit, TxClosed
  <2> QED
    BY <2>1, <2>2, Unseen, SeenTransmitter
<1>5. ASSUME tx' = tx, rx \in {"handshake", "receiving"}, rx' = "error"
      PROVE  TStep
  <2>1. TeleporterRcv = "receiving" /\ TeleporterRcv' = "failed"
    BY <1>5 DEF TeleporterRcv
  <2> QED
    BY <1>3, <1>5, <2>1, SeenReceiver
<1>6. CASE Dial
  <2>1. CASE tx' = "handshake" /\ rx' = "handshake"
    <3>1. /\ TeleporterXmit = "dialing" /\ TeleporterXmit' = "sending"
          /\ TeleporterRcv = "listening" /\ TeleporterRcv' = "receiving"
      BY <1>6, <2>1 DEF Dial, ControlInv, TeleporterXmit, TeleporterRcv, TxClosed
    <3> QED
      BY <3>1, SeenTransmitter
  <2>2. CASE tx' = "error" /\ rx' = rx
    BY <1>4, <1>6, <2>2 DEF Dial
  <2> QED
    BY <1>6, <2>1, <2>2 DEF Dial, TxGives
<1>7. CASE SendHandshake \/ ReadReadyAck
  BY <1>4, <1>7 DEF SendHandshake, ReadReadyAck, TxGives, rxVars
<1>8. CASE SendBlock
  BY <1>4, <1>8 DEF SendBlock, rxVars
<1>9. CASE SendBlockFails
  <2>1. tx = "blocks" /\ tx' \in {tx, "error"} /\ UNCHANGED <<data, rx, result>>
    BY <1>9 DEF SendBlockFails, rxVars
  <2> QED
    BY <1>4, <2>1
<1>10. CASE SendComplete
  <2>1. tx = "blocks" /\ tx' \in {"ok", "error"} /\ UNCHANGED <<data, rx, result>>
    BY <1>10 DEF SendComplete, TxGives, rxVars
  <2> QED
    BY <1>4, <2>1
<1>11. CASE ReceiveHandshake
  <2>1. /\ rx = "handshake" /\ tx' = tx /\ UNCHANGED data
        /\ rx' \in {"receiving", "error"}
    BY <1>11 DEF ReceiveHandshake, RxFails, txVars
  <2>2. CASE rx' = "receiving"
    <3>1. TeleporterRcv' = TeleporterRcv
      BY <2>1, <2>2 DEF TeleporterRcv
    <3> QED
      BY <1>3, <2>1, <3>1, Unseen
  <2> QED
    BY <1>5, <2>1, <2>2
<1>12. CASE HandshakeFails \/ RejectFrame \/ ReadFails
  BY <1>5, <1>12 DEF HandshakeFails, RejectFrame, ReadFails, RxFails, txVars
<1>13. CASE ReceiveBlock \/ ReceiveUnknown \/ LinkBreaks
  BY <1>4, <1>13 DEF ReceiveBlock, ReceiveUnknown, LinkBreaks, txVars, rxVars
<1>14. CASE ReceiveComplete
  <2>1. /\ rx = "receiving" /\ UNCHANGED <<data, tx, resent>>
        /\ rx' \in {"done", "error"}
    BY <1>14 DEF ReceiveComplete, RxFails, txVars
  <2>2. CASE rx' = "done"
    <3>1. TeleporterRcv = "receiving" /\ TeleporterXmit' = TeleporterXmit
      BY <1>3, <2>1 DEF TeleporterRcv
    <3>2. TeleporterRcv' \in {"buffered", "buffered_cut"}
      BY <2>2 DEF TeleporterRcv
    <3>3. CASE resent
      BY <3>1, <3>2, <3>3, SeenReceiver
    <3>4. CASE ~resent
      <4>1. ~resent'
        BY <2>1, <3>4, Zenon
      <4>2. tx' = "ok" /\ result' = data'
        BY <2>2, <4>1, Zenon DEF DoneInv
      <4>3. TeleporterRcv' = "buffered" /\ TeleporterXmit = "ok"
        BY <2>1, <2>2, <4>2 DEF TeleporterRcv, TeleporterXmit, TxClosed
      <4> QED
        BY <3>1, <4>3, SeenReceiver
    <3> QED
      BY <3>3, <3>4
  <2> QED
    BY <1>5, <2>1, <2>2
<1>15. CASE UNCHANGED vars
  BY <1>4, <1>15 DEF vars, txVars, rxVars
<1> QED
  BY <1>6, <1>7, <1>8, <1>9, <1>10, <1>11, <1>12, <1>13, <1>14, <1>15
     DEF Next, Transmit, Receive

\* Transmitter and receiver do what Teleporter lets them do; without a block that
\* was sent again behind a part of itself, what Teleporter lets them do when nothing
\* but the connection can fail.
THEOREM Refinement == Spec => ImplementsTeleporter
<1>1. Init => TeleporterXmit = "dialing" /\ TeleporterRcv = "listening"
  BY DEF Init, TeleporterXmit, TeleporterRcv
<1>2. IInv /\ IInv' /\ [Next]_vars => [TStep]_(T!vars)
  BY StepIsSeen, Zenon DEF IInv
<1> QED
  BY <1>1, <1>2, Invariance, PTL DEF Spec, ImplementsTeleporter, TStep
=============================================================================
