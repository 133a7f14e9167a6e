---------------------------- MODULE FormatsProofs ----------------------------
(***************************************************************************)
(* What is read out of memory, of a library and of a file, for every value *)
(* of the constants: the records of the perf ring are those that the       *)
(* kernel has written, in order and whole; the function that is found      *)
(* without a symbol is one that the code calls with each of the labels;    *)
(* and the objects of the cache file are those that were written to it.    *)
(***************************************************************************)
EXTENDS PerfRing, LogSecret, KVLines, TLAPS,
        FiniteSetTheorems, SequenceTheorems, WellFoundedInduction

(* PerfRing. *)

LEMMA Bounds ==
  RingSize \in Nat /\ RingSize > 0 /\ MaxSamples \in Nat
  /\ \A size \in RecSizes : size \in Nat /\ size > 1
BY PerfRingAssumption

-----------------------------------------------------------------------------
(* Positions and the words of the ring they are in. *)

LEMMA OneQuotient ==
  ASSUME NEW a \in Int, NEW b \in Int, NEW r \in Nat, NEW s \in Nat,
         r < RingSize, s < RingSize, RingSize * a + r = RingSize * b + s
  PROVE  r = s
BY Bounds

LEMMA Division ==
  ASSUME NEW p \in Nat
  PROVE  /\ p % RingSize \in Nat /\ p % RingSize < RingSize /\ p \div RingSize \in Int
         /\ p = RingSize * (p \div RingSize) + (p % RingSize)
BY Bounds

(* Within one turn of the ring, a position wraps around once at most. *)
LEMMA PositionWraps ==
  ASSUME NEW p \in Nat, NEW n \in Nat, n <= RingSize
  PROVE  (p + n) % RingSize = IF (p % RingSize) + n < RingSize
                              THEN (p % RingSize) + n ELSE (p % RingSize) + n - RingSize
<1>1. PICK a \in Int : a = p \div RingSize
  BY Division
<1>2. PICK b \in Int : b = (p + n) \div RingSize
  BY Division
<1>3. PICK r \in Nat : r = p % RingSize
  BY Division
<1>4. PICK s \in Nat : s = (p + n) % RingSize
  BY Division
<1>5. p = RingSize * a + r /\ r < RingSize /\ s < RingSize /\ p + n = RingSize * b + s
  BY Division, <1>1, <1>2, <1>3, <1>4
<1>6. CASE r + n < RingSize
  <2>1. RingSize * a + (r + n) = RingSize * b + s
    BY <1>5, Bounds
  <2>2. r + n = s
    BY <1>5, <1>6, <2>1, OneQuotient
  <2> QED BY <1>3, <1>4, <1>6, <2>2
<1>7. CASE ~(r + n < RingSize)
  <2>1. RingSize * (a + 1) = RingSize * a + RingSize
    BY Bounds, Z3
  <2>2. RingSize * (a + 1) + (r + n - RingSize) = RingSize * b + s
    BY <1>5, <2>1, Bounds
  <2>3. r + n - RingSize \in Nat /\ r + n - RingSize < RingSize /\ a + 1 \in Int
    BY <1>5, <1>7, Bounds
  <2>4. r + n - RingSize = s
    BY <1>5, <2>2, <2>3, OneQuotient
  <2> QED BY <1>3, <1>4, <1>7, <2>4
<1> QED BY <1>6, <1>7

(* Positions less than a turn apart are in different words. *)
LEMMA PositionsDiffer ==
  ASSUME NEW p \in Nat, NEW q \in Nat, p < q, q < p + RingSize
  PROVE  p % RingSize # q % RingSize
<1>1. PICK n \in Nat : n = q - p
  OBVIOUS
<1>2. n > 0 /\ n < RingSize /\ q = p + n
  BY <1>1, Bounds
<1>3. PICK r \in Nat : r = p % RingSize
  BY Division
<1>4. q % RingSize = IF r + n < RingSize THEN r + n ELSE r + n - RingSize
  <2>1. n <= RingSize
    BY <1>2, Bounds
  <2>2. (p + n) % RingSize = IF (p % RingSize) + n < RingSize
                             THEN (p % RingSize) + n ELSE (p % RingSize) + n - RingSize
    BY <2>1, PositionWraps, Zenon
  <2> QED BY <1>2, <1>3, <2>2, Zenon
<1> QED BY <1>2, <1>3, <1>4, Bounds

Words == [id : Int, k : Nat, size : Nat]
Place(p) == (p % RingSize) + 1

LEMMA PlaceIsWord == ASSUME NEW p \in Nat PROVE Place(p) \in 1 .. RingSize
BY Division, Bounds DEF Place

(* What the kernel writes is in the ring, and what is less than a turn       *)
(* before its end stays.                                                     *)
LEMMA StoreWords ==
  ASSUME data \in [1 .. RingSize -> Words], khead \in Nat,
         NEW ws \in Seq(Words), Len(ws) <= RingSize
  PROVE  /\ Store(ws) \in [1 .. RingSize -> Words]
         /\ \A k \in 1 .. Len(ws) : Store(ws)[Place(khead + k - 1)] = ws[k]
         /\ \A p \in Nat : p < khead /\ khead + Len(ws) <= p + RingSize =>
              Store(ws)[Place(p)] = data[Place(p)]
<1> DEFINE ks(i) == {k \in 1 .. Len(ws) : (khead + k - 1) % RingSize = i - 1}
<1>l. Len(ws) \in Nat /\ \A k \in 1 .. Len(ws) : ws[k] \in Words /\ khead + k - 1 \in Nat
  BY LenProperties, ElementOfSeq
<1>1. Store(ws) = [i \in 1 .. RingSize |-> IF ks(i) = {} THEN data[i] ELSE ws[CHOOSE k \in ks(i) : TRUE]]
  BY DEF Store
<1>2. \A i : ks(i) # {} => (CHOOSE k \in ks(i) : TRUE) \in ks(i)
  OBVIOUS
<1>3. Store(ws) \in [1 .. RingSize -> Words]
  <2>1. \A i : ks(i) # {} => ws[CHOOSE k \in ks(i) : TRUE] \in Words
    BY <1>2, <1>l
  <2> HIDE DEF ks
  <2> QED BY <1>1, <2>1
<1>4. ASSUME NEW k \in 1 .. Len(ws) PROVE Store(ws)[Place(khead + k - 1)] = ws[k]
  <2>1. ks(Place(khead + k - 1)) = {k}
    <3>1. k \in ks(Place(khead + k - 1))
      BY <1>l, Division DEF Place
    <3>2. ASSUME NEW j \in ks(Place(khead + k - 1)) PROVE j = k
      <4>1. /\ j \in 1 .. Len(ws) /\ (khead + j - 1) % RingSize = Place(khead + k - 1) - 1
        OBVIOUS
      <4>2. (khead + j - 1) % RingSize = (khead + k - 1) % RingSize
        <5>1. (khead + k - 1) % RingSize \in Int
          BY <1>l, Division
        <5>2. (khead + j - 1) % RingSize = (((khead + k - 1) % RingSize) + 1) - 1
          BY <4>1 DEF Place
        <5> QED BY <5>1, <5>2
      <4>3. CASE j < k
        <5>1. khead + j - 1 < khead + k - 1 /\ khead + k - 1 < (khead + j - 1) + RingSize
          BY <1>l, <4>1, <4>3, Bounds
        <5> QED BY <1>l, <4>1, <4>2, <5>1, PositionsDiffer
      <4>4. CASE k < j
        <5>1. khead + k - 1 < khead + j - 1 /\ khead + j - 1 < (khead + k - 1) + RingSize
          BY <1>l, <4>1, <4>4, Bounds
        <5> QED BY <1>l, <4>1, <4>2, <5>1, PositionsDiffer
      <4> QED BY <1>l, <4>1, <4>3, <4>4
    <3> QED BY <3>1, <3>2
  <2>2. Place(khead + k - 1) \in 1 .. RingSize
    BY <1>l, PlaceIsWord
  <2>3. (CHOOSE j \in ks(Place(khead + k - 1)) : TRUE) = k
    BY <2>1
  <2> HIDE DEF ks
  <2> QED BY <1>1, <2>1, <2>2, <2>3
<1>5. ASSUME NEW p \in Nat, p < khead, khead + Len(ws) <= p + RingSize
      PROVE  Store(ws)[Place(p)] = data[Place(p)]
  <2>1. ASSUME NEW k \in 1 .. Len(ws) PROVE (khead + k - 1) % RingSize # Place(p) - 1
    <3>1. p < khead + k - 1 /\ khead + k - 1 < p + RingSize
      BY <1>5, <1>l, Bounds
    <3>2. p % RingSize # (khead + k - 1) % RingSize
      BY <1>l, <3>1, PositionsDiffer
    <3>3. Place(p) - 1 = p % RingSize
      BY Division DEF Place
    <3> QED BY <3>2, <3>3
  <2>2. ks(Place(p)) = {}
    BY <2>1
  <2>3. Place(p) \in 1 .. RingSize
    BY PlaceIsWord
  <2> HIDE DEF ks
  <2> QED BY <1>1, <2>2, <2>3
<1> QED BY <1>3, <1>4, <1>5

LEMMA DataSub ==
  ASSUME data \in [1 .. RingSize -> Words], NEW m \in Nat, NEW n \in Nat, m > 0, n <= RingSize
  PROVE  /\ SubSeq(data, m, n) \in Seq(Words)
         /\ Len(SubSeq(data, m, n)) = IF m <= n THEN n - m + 1 ELSE 0
         /\ \A i \in 1 .. n - m + 1 : SubSeq(data, m, n)[i] = data[m + i - 1]
<1>1. \A i \in m .. n : data[i] \in Words
  BY Bounds
<1>2. m \in Int /\ n \in Int
  OBVIOUS
<1> QED BY <1>1, <1>2, SubSeqProperties

(* What is read of a position, wrapping around, is what its words hold.      *)
LEMMA CopyWords ==
  ASSUME data \in [1 .. RingSize -> Words], NEW p \in Nat, NEW n \in Nat, n > 0, n <= RingSize
  PROVE  /\ CopyWrap(p, n) \in Seq(Words) /\ Len(CopyWrap(p, n)) = n
         /\ \A k \in 1 .. n : CopyWrap(p, n)[k] = data[Place(p + k - 1)]
<1> DEFINE s == CopyWrap(p, n)
<1>1. PICK off \in Nat : off = p % RingSize
  BY Division
<1>2. off < RingSize
  BY <1>1, Division
<1>3. ASSUME NEW k \in 1 .. n
      PROVE  Place(p + k - 1) = IF off + k <= RingSize THEN off + k ELSE off + k - RingSize
  <2>1. PICK m \in Nat : m = k - 1 /\ p + k - 1 = p + m /\ m <= RingSize
    BY Bounds
  <2>2. (p + m) % RingSize = IF (p % RingSize) + m < RingSize
                             THEN (p % RingSize) + m ELSE (p % RingSize) + m - RingSize
    BY <2>1, PositionWraps, Zenon
  <2>3. Place(p + k - 1) = (IF off + m < RingSize THEN off + m ELSE off + m - RingSize) + 1
    BY <1>1, <2>1, <2>2, Zenon DEF Place
  <2> QED BY <1>2, <2>1, <2>3, Bounds
<1>5. CASE off + n <= RingSize
  <2>1. s = SubSeq(data, off + 1, off + n)
    BY <1>1, <1>5 DEF CopyWrap
  <2>3. /\ s \in Seq(Words)
        /\ Len(s) = IF off + 1 <= off + n THEN off + n - (off + 1) + 1 ELSE 0
        /\ \A i \in 1 .. off + n - (off + 1) + 1 : s[i] = data[off + 1 + i - 1]
    <3> HIDE DEF s
    <3>1. off + 1 \in Nat /\ off + n \in Nat /\ off + 1 > 0
      OBVIOUS
    <3>2. PICK t : t = SubSeq(data, off + 1, off + n)
      OBVIOUS
    <3>3. /\ t \in Seq(Words)
          /\ Len(t) = IF off + 1 <= off + n THEN off + n - (off + 1) + 1 ELSE 0
          /\ \A i \in 1 .. off + n - (off + 1) + 1 : t[i] = data[off + 1 + i - 1]
      BY <1>5, <3>1, <3>2, DataSub
    <3> QED BY <2>1, <3>2, <3>3
  <2> HIDE DEF s
  <2>4. Len(s) = n
    BY <2>3
  <2>5. ASSUME NEW k \in 1 .. n PROVE s[k] = data[Place(p + k - 1)]
    <3>1. Place(p + k - 1) = off + k
      BY <1>3, <1>5, Bounds
    <3>2. k \in 1 .. off + n - (off + 1) + 1 /\ off + 1 + k - 1 = off + k
      OBVIOUS
    <3> QED BY <2>3, <3>1, <3>2
  <2> QED BY <2>3, <2>4, <2>5 DEF s
<1>6. CASE ~(off + n <= RingSize)
  <2> DEFINE a == SubSeq(data, off + 1, RingSize)
             b == SubSeq(data, 1, n - (RingSize - off))
  <2>1. s = a \o b
    BY <1>1, <1>6 DEF CopyWrap
  <2>2. a \in Seq(Words) /\ Len(a) = RingSize - off
        /\ \A i \in 1 .. RingSize - off : a[i] = data[off + i]
    <3>1. off + 1 \in Nat /\ RingSize \in Nat /\ off + 1 > 0 /\ RingSize <= RingSize
      BY Bounds
    <3>2. /\ a \in Seq(Words)
          /\ Len(a) = IF off + 1 <= RingSize THEN RingSize - (off + 1) + 1 ELSE 0
          /\ \A i \in 1 .. RingSize - (off + 1) + 1 : a[i] = data[off + 1 + i - 1]
      BY <3>1, DataSub, Zenon
    <3> HIDE DEF a
    <3>3. Len(a) = RingSize - off
      BY <1>2, <3>2, Bounds
    <3>4. ASSUME NEW i \in 1 .. RingSize - off PROVE a[i] = data[off + i]
      <4>1. i \in 1 .. RingSize - (off + 1) + 1 /\ off + 1 + i - 1 = off + i
        BY Bounds
      <4> QED BY <3>2, <4>1
    <3> QED BY <3>2, <3>3, <3>4
  <2>3. b \in Seq(Words) /\ Len(b) = n - (RingSize - off)
        /\ \A i \in 1 .. n - (RingSize - off) : b[i] = data[i]
    <3>1. /\ 1 \in Nat /\ 1 > 0 /\ n - (RingSize - off) \in Nat /\ n - (RingSize - off) <= RingSize
      BY <1>2, <1>6, Bounds
    <3>2. /\ b \in Seq(Words)
          /\ Len(b) = IF 1 <= n - (RingSize - off) THEN n - (RingSize - off) - 1 + 1 ELSE 0
          /\ \A i \in 1 .. n - (RingSize - off) - 1 + 1 : b[i] = data[1 + i - 1]
      BY <3>1, DataSub, Zenon
    <3> HIDE DEF b
    <3>3. Len(b) = n - (RingSize - off)
      BY <1>2, <1>6, <3>2, Bounds
    <3>4. ASSUME NEW i \in 1 .. n - (RingSize - off) PROVE b[i] = data[i]
      <4>1. i \in 1 .. n - (RingSize - off) - 1 + 1 /\ 1 + i - 1 = i
        BY <1>2, Bounds
      <4> QED BY <3>2, <4>1
    <3> QED BY <3>2, <3>3, <3>4
  <2> HIDE DEF a, b
  <2>4. /\ a \o b \in Seq(Words) /\ Len(a \o b) = Len(a) + Len(b)
        /\ \A i \in 1 .. Len(a) + Len(b) : (a \o b)[i] = IF i <= Len(a) THEN a[i] ELSE b[i - Len(a)]
    BY <2>2, <2>3, ConcatProperties
  <2> HIDE DEF s
  <2>5. Len(a) + Len(b) = n
    BY <1>2, <2>2, <2>3, Bounds
  <2>6. ASSUME NEW k \in 1 .. n PROVE s[k] = data[Place(p + k - 1)]
    <3>1. s[k] = IF k <= RingSize - off THEN a[k] ELSE b[k - (RingSize - off)]
      BY <2>1, <2>2, <2>4, <2>5
    <3>2. CASE k <= RingSize - off
      <4>1. off + k <= RingSize /\ k \in 1 .. RingSize - off
        BY <1>2, <3>2, Bounds
      <4> QED BY <1>3, <2>2, <3>1, <3>2, <4>1
    <3>3. CASE ~(k <= RingSize - off)
      <4>1. ~(off + k <= RingSize) /\ k - (RingSize - off) \in 1 .. n - (RingSize - off)
            /\ k - (RingSize - off) = off + k - RingSize
        BY <1>2, <3>3, Bounds
      <4> QED BY <1>3, <2>3, <3>1, <3>3, <4>1
    <3> QED BY <3>2, <3>3
  <2> QED BY <2>1, <2>4, <2>5, <2>6 DEF s
<1> QED BY <1>5, <1>6

-----------------------------------------------------------------------------
(* The layout of the ring.  Record i of written begins at position off[i];   *)
(* those that have not been given back are in the ring, word by word.        *)

Sized(r) == Len(r) >= 1 /\ r[1].size = Len(r)
Laid(off, recs, words, end, given) ==
  /\ off \in [1 .. Len(recs) + 1 -> Nat]
  /\ \A i \in 1 .. Len(recs) : off[i + 1] = off[i] + Len(recs[i])
  /\ \A i, j \in 1 .. Len(recs) + 1 : i < j => off[i] < off[j]
  /\ off[Len(recs) + 1] = end
  /\ \A i \in given + 1 .. Len(recs) : \A k \in 1 .. Len(recs[i]) :
       words[Place(off[i] + k - 1)] = recs[i][k]
(* What the reader and the kernel know of it is at the ends of records.      *)
Marked(off) ==
  /\ off[Len(got) + 1] = tail
  /\ \E h \in 1 .. Len(written) + 1 : off[h] = head
  /\ rpc = "copy" => \E h \in 1 .. Len(written) + 1 : off[h] = rhead

RingTypes ==
  /\ data \in [1 .. RingSize -> Words]
  /\ khead \in Nat /\ head \in Nat /\ tail \in Nat /\ rhead \in Nat /\ rtail \in Nat
  /\ written \in Seq(Seq(Words)) /\ got \in Seq(Seq(Words)) /\ tmp \in Seq(Words)
  /\ samples \in Nat /\ dropped \in Nat /\ rpc \in {"idle", "copy", "store"}
  /\ \A i \in 1 .. Len(written) : Sized(written[i])
Order ==
  /\ Len(got) <= Len(written) /\ \A i \in 1 .. Len(got) : got[i] = written[i]
  /\ tail <= head /\ head <= khead /\ khead < tail + RingSize
  /\ rpc = "copy" => rtail = tail /\ tail < rhead /\ rhead <= head
  /\ rpc = "store" => /\ rtail = tail /\ Len(got) < Len(written)
                      /\ tmp = written[Len(got) + 1] /\ rtail + Len(tmp) <= head
RingInv ==
  /\ RingTypes /\ Order
  /\ \E off : Laid(off, written, data, khead, Len(got)) /\ Marked(off)

LEMMA RecordIsSized ==
  ASSUME NEW id \in Int, NEW size \in Nat, size > 0
  PROVE  Record(id, size) \in Seq(Words) /\ Len(Record(id, size)) = size /\ Sized(Record(id, size))
<1>1. Record(id, size) = [k \in 1 .. size |-> [id |-> id, k |-> k - 1, size |-> size]]
  BY DEF Record, Word
<1>2. Record(id, size) \in [1 .. size -> Words]
  BY <1>1 DEF Words
<1>3. Record(id, size) \in Seq(Words) /\ Len(Record(id, size)) = size
  BY <1>2
<1>4. Record(id, size)[1].size = size
  BY <1>1
<1> QED BY <1>3, <1>4 DEF Sized

Stored(words, p, r) == \A k \in 1 .. Len(r) : words[Place(p + k - 1)] = r[k]

(* A record that has been stored behind the others. *)
LEMMA LaidAppend ==
  ASSUME NEW off, NEW recs \in Seq(Seq(Words)), NEW words, NEW end \in Nat, NEW given \in Nat,
         Laid(off, recs, words, end, given),
         NEW r \in Seq(Words), Sized(r), Stored(words, end, r)
  PROVE  \E off2 :
           /\ Laid(off2, Append(recs, r), words, end + Len(r), given)
           /\ \A i \in 1 .. Len(recs) + 1 : off2[i] = off[i]
<1> DEFINE n == Len(recs)
           both == Append(recs, r)
           off2 == [i \in 1 .. n + 2 |-> IF i <= n + 1 THEN off[i] ELSE end + Len(r)]
<1>1. n \in Nat /\ Len(r) \in Nat /\ Len(r) >= 1
  BY LenProperties DEF Sized
<1>2. /\ both \in Seq(Seq(Words)) /\ Len(both) = n + 1 /\ both[n + 1] = r
      /\ \A i \in 1 .. n : both[i] = recs[i]
  BY AppendProperties
<1>3. /\ off \in [1 .. n + 1 -> Nat] /\ off[n + 1] = end
      /\ \A i \in 1 .. n : off[i + 1] = off[i] + Len(recs[i])
      /\ \A i, j \in 1 .. n + 1 : i < j => off[i] < off[j]
      /\ \A i \in given + 1 .. n : \A k \in 1 .. Len(recs[i]) : words[Place(off[i] + k - 1)] = recs[i][k]
  BY DEF Laid
<1> HIDE DEF n, both
<1>4. /\ off2 \in [1 .. n + 2 -> Nat] /\ off2[n + 2] = end + Len(r)
      /\ \A i \in 1 .. n + 1 : off2[i] = off[i]
  BY <1>1, <1>3
<1> HIDE DEF off2
<1>5. ASSUME NEW i \in 1 .. n + 1 PROVE off2[i + 1] = off2[i] + Len(both[i])
  <2>1. CASE i = n + 1
    <3>1. i + 1 = n + 2 /\ both[i] = r /\ off2[i] = end
      BY <1>1, <1>2, <1>3, <1>4, <2>1
    <3> QED BY <1>4, <3>1
  <2>2. CASE i # n + 1
    <3>1. i \in 1 .. n /\ i + 1 \in 1 .. n + 1
      BY <1>1, <2>2
    <3> QED BY <1>2, <1>3, <1>4, <3>1
  <2> QED BY <2>1, <2>2
<1>6. ASSUME NEW i \in 1 .. n + 2, NEW j \in 1 .. n + 2, i < j PROVE off2[i] < off2[j]
  <2>1. i \in 1 .. n + 1
    BY <1>1, <1>6
  <2>2. CASE j = n + 2
    <3>1. off[i] <= end
      <4>1. CASE i = n + 1
        BY <1>1, <1>3, <4>1
      <4>2. CASE i # n + 1
        <5>1. i < n + 1 /\ n + 1 \in 1 .. n + 1
          BY <1>1, <2>1, <4>2
        <5>2. off[i] < off[n + 1] /\ off[i] \in Nat
          BY <1>3, <2>1, <5>1
        <5> QED BY <1>3, <5>2
      <4> QED BY <4>1, <4>2
    <3>2. off[i] \in Nat /\ off2[i] = off[i] /\ off2[j] = end + Len(r)
      BY <1>3, <1>4, <2>1, <2>2
    <3> QED BY <1>1, <3>1, <3>2
  <2>3. CASE j # n + 2
    <3>1. j \in 1 .. n + 1
      BY <1>1, <2>3
    <3> QED BY <1>3, <1>4, <1>6, <2>1, <3>1
  <2> QED BY <2>2, <2>3
<1>7. ASSUME NEW i \in given + 1 .. n + 1, NEW k \in 1 .. Len(both[i])
      PROVE  words[Place(off2[i] + k - 1)] = both[i][k]
  <2>1. CASE i = n + 1
    <3>1. both[i] = r /\ off2[i] = end
      BY <1>1, <1>2, <1>3, <1>4, <2>1
    <3> QED BY <3>1 DEF Stored
  <2>2. CASE i # n + 1
    <3>1. i \in given + 1 .. n /\ i \in 1 .. n /\ i \in 1 .. n + 1
      BY <1>1, <2>2
    <3>2. both[i] = recs[i] /\ off2[i] = off[i]
      BY <1>2, <1>4, <3>1
    <3> QED BY <1>3, <3>1, <3>2
  <2> QED BY <2>1, <2>2
<1>8. Len(both) + 1 = n + 2
  BY <1>1, <1>2
<1>9. Laid(off2, both, words, end + Len(r), given)
  BY <1>2, <1>4, <1>5, <1>6, <1>7, <1>8 DEF Laid
<1> QED BY <1>4, <1>9 DEF n, both

(* What the kernel stores behind the records leaves them as they are.        *)
LEMMA LaidStore ==
  ASSUME RingTypes, Order, NEW off, Laid(off, written, data, khead, Len(got)), Marked(off),
         NEW ws \in Seq(Words), khead + Len(ws) < tail + RingSize
  PROVE  Laid(off, written, Store(ws), khead, Len(got))
<1>1. /\ written \in Seq(Seq(Words)) /\ khead \in Nat /\ tail \in Nat /\ data \in [1 .. RingSize -> Words]
      /\ tail <= khead /\ Len(written) \in Nat /\ Len(got) \in Nat /\ Len(ws) \in Nat
      /\ off[Len(got) + 1] = tail
  BY LenProperties DEF RingTypes, Order, Marked
<1>2. Len(ws) <= RingSize
  BY <1>1, Bounds
<1>3. \A p \in Nat : p < khead /\ khead + Len(ws) <= p + RingSize => Store(ws)[Place(p)] = data[Place(p)]
  BY <1>1, <1>2, StoreWords
<1>4. ASSUME NEW i \in Len(got) + 1 .. Len(written), NEW k \in 1 .. Len(written[i])
      PROVE  Store(ws)[Place(off[i] + k - 1)] = written[i][k]
  <2>1. /\ i \in 1 .. Len(written) + 1 /\ i \in 1 .. Len(written) /\ i + 1 \in 1 .. Len(written) + 1
        /\ Len(got) + 1 \in 1 .. Len(written) + 1 /\ Len(written) + 1 \in 1 .. Len(written) + 1
    BY <1>1
  <2>2. off[i] \in Nat /\ off[i + 1] \in Nat /\ off[i + 1] = off[i] + Len(written[i]) /\ Len(written[i]) \in Nat
    BY <1>1, <2>1, LenProperties, ElementOfSeq DEF Laid
  <2>3. off[Len(got) + 1] <= off[i]
    <3>1. CASE Len(got) + 1 = i
      BY <2>2, <3>1
    <3>2. CASE Len(got) + 1 < i
      <4>1. off[Len(got) + 1] < off[i]
        BY <2>1, <3>2 DEF Laid
      <4>2. off[Len(got) + 1] \in Nat
        BY <2>1 DEF Laid
      <4> QED BY <2>2, <4>1, <4>2
    <3> QED BY <1>1, <3>1, <3>2
  <2>4. off[i + 1] <= off[Len(written) + 1]
    <3>1. CASE i = Len(written)
      BY <2>2, <3>1
    <3>2. CASE i < Len(written)
      <4>1. i + 1 < Len(written) + 1
        BY <1>1, <3>2
      <4>2. off[i + 1] < off[Len(written) + 1]
        BY <2>1, <4>1 DEF Laid
      <4>3. off[Len(written) + 1] = khead
        BY DEF Laid
      <4> QED BY <1>1, <2>2, <4>2, <4>3
    <3> QED BY <1>1, <3>1, <3>2
  <2>5. off[Len(written) + 1] = khead
    BY DEF Laid
  <2>6. /\ off[i] + k - 1 \in Nat /\ off[i] + k - 1 < khead
        /\ khead + Len(ws) <= (off[i] + k - 1) + RingSize
    <3>1. PICK o \in Nat : o = off[i]
      BY <2>2
    <3>2. PICK m \in Nat : m = Len(written[i])
      BY <2>2
    <3>3. tail <= o /\ o + m <= khead /\ k \in 1 .. m
      BY <1>1, <2>2, <2>3, <2>4, <2>5, <3>1, <3>2
    <3>4. o + k - 1 \in Nat /\ o + k - 1 < khead /\ khead + Len(ws) <= (o + k - 1) + RingSize
      BY <1>1, <3>3, Bounds
    <3> QED BY <3>1, <3>4
  <2>7. data[Place(off[i] + k - 1)] = written[i][k]
    BY DEF Laid
  <2> QED BY <1>3, <2>6, <2>7
<1> QED BY <1>4 DEF Laid

-----------------------------------------------------------------------------
(* The steps of the kernel and of ReadRecord. *)

LEMMA RingInvInit == RingInit => RingInv
<1> SUFFICES ASSUME RingInit PROVE RingInv
  OBVIOUS
<1>1. /\ data = [i \in 1 .. RingSize |-> Word(0, 0, 0)] /\ khead = 0 /\ head = 0 /\ tail = 0
      /\ written = <<>> /\ samples = 0 /\ dropped = 0
      /\ rpc = "idle" /\ rhead = 0 /\ rtail = 0 /\ tmp = <<>> /\ got = <<>>
  BY DEF RingInit
<1>2. Word(0, 0, 0) \in Words
  BY DEF Word, Words
<1>3. Len(written) = 0 /\ Len(got) = 0 /\ written \in Seq(Seq(Words)) /\ got \in Seq(Seq(Words))
      /\ tmp \in Seq(Words)
  BY <1>1, EmptySeq
<1>4. RingTypes
  BY <1>1, <1>2, <1>3 DEF RingTypes
<1>5. Order
  BY <1>1, <1>3, Bounds DEF Order
<1> DEFINE off == [i \in 1 .. 1 |-> 0]
<1>6. off \in [1 .. 1 -> Nat] /\ off[1] = 0
  OBVIOUS
<1> HIDE DEF off
<1>7. Laid(off, written, data, khead, Len(got))
  BY <1>1, <1>3, <1>6 DEF Laid
<1>8. Marked(off)
  BY <1>1, <1>3, <1>6 DEF Marked
<1> QED BY <1>4, <1>5, <1>7, <1>8 DEF RingInv

LEMMA TwoRecords ==
  ASSUME NEW a \in Seq(Words), NEW b \in Seq(Words)
  PROVE  <<a>> \in Seq(Seq(Words)) /\ <<b>> \in Seq(Seq(Words)) /\ <<a>> \o <<b>> = <<a, b>>
<1> DEFINE W == Seq(Words)
<1>1. a \in W /\ b \in W
  OBVIOUS
<1> HIDE DEF W
<1>2. /\ <<a>> \in Seq(W) /\ <<b>> \in Seq(W) /\ <<a, b>> \in Seq(W)
      /\ Len(<<a>>) = 1 /\ Len(<<b>>) = 1 /\ Len(<<a, b>>) = 2
      /\ <<a>>[1] = a /\ <<b>>[1] = b /\ <<a, b>>[1] = a /\ <<a, b>>[2] = b
  BY <1>1
<1>3. PICK s : s = <<a>> \o <<b>>
  OBVIOUS
<1>4. PICK t : t = <<a, b>>
  OBVIOUS
<1>5. s \in Seq(W) /\ Len(s) = 2 /\ s[1] = a /\ s[2] = b
  BY <1>2, <1>3, ConcatProperties
<1>6. s = t
  <2>1. t \in Seq(W) /\ Len(t) = 2 /\ t[1] = a /\ t[2] = b
    BY <1>2, <1>4
  <2>2. \A i \in 1 .. Len(s) : s[i] = t[i]
    BY <1>5, <2>1
  <2> QED BY <1>5, <2>1, <2>2, SeqEqual
<1> QED BY <1>2, <1>3, <1>4, <1>6 DEF W

Associates(a, b, c) == (a \o b) \o c = a \o (b \o c)

LEMMA JoinAssociates ==
  ASSUME NEW S, NEW a \in Seq(S), NEW b \in Seq(S), NEW c \in Seq(S)
  PROVE  Associates(a, b, c)
BY ConcatAssociative DEF Associates

(* The same, with the longer layout under a name. *)
Extends(off, recs, words, end, given, r) ==
  \E off2 : /\ Laid(off2, Append(recs, r), words, end + Len(r), given)
            /\ \A i \in 1 .. Len(recs) + 1 : off2[i] = off[i]

LEMMA LaidExtends ==
  ASSUME NEW off, NEW recs \in Seq(Seq(Words)), NEW words, NEW end \in Nat, NEW given \in Nat,
         NEW r \in Seq(Words),
         Laid(off, recs, words, end, given), Sized(r), Stored(words, end, r)
  PROVE  Extends(off, recs, words, end, given, r)
BY LaidAppend DEF Extends

(* A sample that fits, alone or after the LOST record before it. *)
LEMMA OutputFits ==
  ASSUME RingInv, NEW ws \in Seq(Words), NEW recs,
         khead = head, khead + Len(ws) < tail + RingSize,
         data' = Store(ws), khead' = khead + Len(ws), written' = written \o recs,
         samples' \in Nat, dropped' = 0, UNCHANGED <<head, tail, rpc, rhead, rtail, tmp, got>>,
         \/ Sized(ws) /\ recs = <<ws>>
         \/ \E a, b \in Seq(Words) : Sized(a) /\ Sized(b) /\ ws = a \o b /\ recs = <<a, b>>
  PROVE  RingInv'
<1>1. PICK off : Laid(off, written, data, khead, Len(got)) /\ Marked(off)
  BY DEF RingInv
<1>2. RingTypes /\ Order
  BY DEF RingInv
<1>3. /\ written \in Seq(Seq(Words)) /\ khead \in Nat /\ tail \in Nat /\ tail <= khead
      /\ data \in [1 .. RingSize -> Words] /\ Len(written) \in Nat /\ Len(got) \in Nat
      /\ Len(ws) \in Nat /\ Len(got) <= Len(written)
      /\ \A i \in 1 .. Len(written) : Sized(written[i])
  BY <1>2, LenProperties DEF RingTypes, Order
<1>4. Len(ws) <= RingSize
  BY <1>3, Bounds
<1>5. /\ data' \in [1 .. RingSize -> Words]
      /\ Stored(data', khead, ws)
  BY <1>3, <1>4, StoreWords DEF Stored
<1>6. Laid(off, written, data', khead, Len(got))
  BY <1>1, <1>2, LaidStore
<1>7. /\ written' \in Seq(Seq(Words)) /\ Len(written') >= Len(written)
      /\ \A i \in 1 .. Len(written) : written'[i] = written[i]
      /\ \A i \in 1 .. Len(written') : Sized(written'[i])
      /\ \E off2 : /\ Laid(off2, written', data', khead', Len(got))
                   /\ \A i \in 1 .. Len(written) + 1 : off2[i] = off[i]
  <2>1. CASE Sized(ws) /\ recs = <<ws>>
    <3>1. written' = Append(written, ws)
      BY <1>3, <2>1, AppendIsConcat
    <3>2. \E off2 : /\ Laid(off2, Append(written, ws), data', khead + Len(ws), Len(got))
                    /\ \A i \in 1 .. Len(written) + 1 : off2[i] = off[i]
      BY <1>3, <1>5, <1>6, <2>1, LaidAppend
    <3>3. /\ written' \in Seq(Seq(Words)) /\ Len(written') = Len(written) + 1
          /\ \A i \in 1 .. Len(written) : written'[i] = written[i]
          /\ written'[Len(written) + 1] = ws
      BY <1>3, <3>1, AppendProperties
    <3>4. \A i \in 1 .. Len(written') : Sized(written'[i])
      BY <1>3, <2>1, <3>3
    <3>5. Len(written') >= Len(written)
      BY <1>3, <3>3
    <3> QED BY <3>1, <3>2, <3>3, <3>4, <3>5
  <2>2. ASSUME NEW a \in Seq(Words), NEW b \in Seq(Words), Sized(a), Sized(b),
               ws = a \o b, recs = <<a, b>>
        PROVE  /\ written' \in Seq(Seq(Words)) /\ Len(written') >= Len(written)
               /\ \A i \in 1 .. Len(written) : written'[i] = written[i]
               /\ \A i \in 1 .. Len(written') : Sized(written'[i])
               /\ \E off2 : /\ Laid(off2, written', data', khead', Len(got))
                            /\ \A i \in 1 .. Len(written) + 1 : off2[i] = off[i]
    <3> DEFINE one == Append(written, a)
    <3>1. /\ one \in Seq(Seq(Words)) /\ Len(one) = Len(written) + 1
          /\ \A i \in 1 .. Len(written) : one[i] = written[i]
          /\ one[Len(written) + 1] = a
      BY <1>3, AppendProperties
    <3>2. written' = Append(one, b)
      <4>1. one = written \o <<a>> /\ Append(one, b) = one \o <<b>>
        BY <1>3, <3>1, AppendIsConcat
      <4>2. <<a>> \in Seq(Seq(Words)) /\ <<b>> \in Seq(Seq(Words)) /\ <<a>> \o <<b>> = <<a, b>>
        <5>1. a \in Seq(Words) /\ b \in Seq(Words)
          OBVIOUS
        <5> QED BY <5>1, TwoRecords, Zenon
      <4>3. (written \o <<a>>) \o <<b>> = written \o (<<a>> \o <<b>>)
        <5>1. PICK x, y, z \in Seq(Seq(Words)) : x = written /\ y = <<a>> /\ z = <<b>>
          BY <1>3, <4>2
        <5>2. Associates(x, y, z)
          BY JoinAssociates, Zenon
        <5> QED BY <5>1, <5>2 DEF Associates
      <4> QED BY <2>2, <4>1, <4>2, <4>3
    <3> HIDE DEF one
    <3>3. /\ written' \in Seq(Seq(Words)) /\ Len(written') = Len(one) + 1
          /\ \A i \in 1 .. Len(one) : written'[i] = one[i]
          /\ written'[Len(one) + 1] = b
      BY <3>1, <3>2, AppendProperties
    <3>4. /\ Len(a) \in Nat /\ Len(b) \in Nat /\ Len(ws) = Len(a) + Len(b)
          /\ \A i \in 1 .. Len(a) + Len(b) : ws[i] = IF i <= Len(a) THEN a[i] ELSE b[i - Len(a)]
      BY <2>2, LenProperties, ConcatProperties
    <3>5. Stored(data', khead, a)
      <4>1. SUFFICES ASSUME NEW k \in 1 .. Len(a) PROVE data'[Place(khead + k - 1)] = a[k]
        BY DEF Stored
      <4>2. k \in 1 .. Len(ws) /\ k \in 1 .. Len(a) + Len(b) /\ k <= Len(a)
        BY <3>4
      <4>3. ws[k] = a[k]
        BY <3>4, <4>2
      <4> QED BY <1>5, <4>2, <4>3 DEF Stored
    <3>6. PICK off1 : /\ Laid(off1, one, data', khead + Len(a), Len(got))
                      /\ \A i \in 1 .. Len(written) + 1 : off1[i] = off[i]
      <4>1. \E off1 : /\ Laid(off1, Append(written, a), data', khead + Len(a), Len(got))
                      /\ \A i \in 1 .. Len(written) + 1 : off1[i] = off[i]
        <5>1. a \in Seq(Words) /\ Sized(a)
          BY <2>2
        <5>2. written \in Seq(Seq(Words)) /\ khead \in Nat /\ Len(got) \in Nat
          BY <1>3
        <5>3. PICK words, recs0, end, given :
                words = data' /\ recs0 = written /\ end = khead /\ given = Len(got)
          OBVIOUS
        <5>4. /\ Laid(off, recs0, words, end, given) /\ Stored(words, end, a)
              /\ recs0 \in Seq(Seq(Words)) /\ end \in Nat /\ given \in Nat
          BY <1>6, <3>5, <5>2, <5>3
        <5>5. Extends(off, recs0, words, end, given, a)
          BY <5>1, <5>4, LaidExtends, Zenon
        <5> QED BY <5>3, <5>5 DEF Extends
      <4> QED BY <4>1 DEF one
    <3>7. Stored(data', khead + Len(a), b)
      <4>1. SUFFICES ASSUME NEW k \in 1 .. Len(b) PROVE data'[Place((khead + Len(a)) + k - 1)] = b[k]
        BY DEF Stored
      <4>2. /\ Len(a) + k \in 1 .. Len(ws) /\ Len(a) + k \in 1 .. Len(a) + Len(b)
            /\ ~(Len(a) + k <= Len(a)) /\ Len(a) + k - Len(a) = k
            /\ khead + (Len(a) + k) - 1 = (khead + Len(a)) + k - 1
        BY <1>3, <3>4
      <4>3. ws[Len(a) + k] = b[k]
        BY <3>4, <4>2
      <4>4. data'[Place(khead + (Len(a) + k) - 1)] = ws[Len(a) + k]
        BY <1>5, <4>2 DEF Stored
      <4> QED BY <4>2, <4>3, <4>4
    <3>8. PICK off2 : /\ Laid(off2, Append(one, b), data', (khead + Len(a)) + Len(b), Len(got))
                      /\ \A i \in 1 .. Len(one) + 1 : off2[i] = off1[i]
      <4>1. khead + Len(a) \in Nat /\ Len(got) \in Nat /\ b \in Seq(Words) /\ Sized(b)
        BY <1>3, <2>2, <3>4
      <4>2. PICK words, end, given : words = data' /\ end = khead + Len(a) /\ given = Len(got)
        OBVIOUS
      <4>3. Extends(off1, one, words, end, given, b)
        BY <3>1, <3>6, <3>7, <4>1, <4>2, LaidExtends
      <4> QED BY <4>2, <4>3 DEF Extends
    <3>9. (khead + Len(a)) + Len(b) = khead'
      BY <1>3, <3>4
    <3>10. \A i \in 1 .. Len(written) + 1 : off2[i] = off[i]
      <4>1. \A i \in 1 .. Len(written) + 1 : i \in 1 .. Len(one) + 1
        BY <1>3, <3>1
      <4> QED BY <3>6, <3>8, <4>1
    <3>11. \A i \in 1 .. Len(written') : Sized(written'[i])
      <4>1. SUFFICES ASSUME NEW i \in 1 .. Len(written') PROVE Sized(written'[i])
        OBVIOUS
      <4>2. i \in 1 .. Len(written) \/ i = Len(written) + 1 \/ i = Len(one) + 1
        <5>1. Len(written') = Len(written) + 2 /\ Len(one) = Len(written) + 1
          BY <1>3, <3>1, <3>3
        <5> QED BY SMTT(30), <1>3, <5>1
      <4>3. Len(written) + 1 \in 1 .. Len(one) /\ 1 .. Len(written) \subseteq 1 .. Len(one)
        BY SMTT(30), <1>3, <3>1
      <4> QED BY <1>3, <2>2, <3>1, <3>3, <4>2, <4>3
    <3>12. Len(written') >= Len(written) /\ \A i \in 1 .. Len(written) : written'[i] = written[i]
      <4>1. 1 .. Len(written) \subseteq 1 .. Len(one)
        BY <1>3, <3>1
      <4> QED BY <1>3, <3>1, <3>3, <4>1
    <3> QED BY <3>2, <3>3, <3>8, <3>9, <3>10, <3>11, <3>12
  <2> QED BY <2>1, <2>2
<1>8. RingTypes'
  BY <1>2, <1>3, <1>5, <1>7 DEF RingTypes
<1>9. Order'
  <2>1. /\ Len(written') \in Nat /\ khead' \in Nat /\ head' <= khead' /\ khead' < tail' + RingSize
    BY <1>2, <1>3, <1>7, LenProperties DEF Order
  <2>2. Len(got) < Len(written) => Len(got) + 1 \in 1 .. Len(written)
    BY <1>3
  <2>3. Len(got') <= Len(written') /\ (Len(got) < Len(written) => Len(got') < Len(written'))
    BY <1>3, <1>7, <2>1
  <2>4. \A i \in 1 .. Len(got) : i \in 1 .. Len(written)
    BY <1>3
  <2>5. \A i \in 1 .. Len(got') : got'[i] = written'[i]
    BY <1>2, <1>7, <2>4 DEF Order
  <2> QED BY <1>2, <1>7, <2>1, <2>2, <2>3, <2>5 DEF Order
<1>10. PICK off2 : /\ Laid(off2, written', data', khead', Len(got))
                   /\ \A i \in 1 .. Len(written) + 1 : off2[i] = off[i]
  BY <1>7
<1>11. Marked(off2)'
  <2>1. Len(written') \in Nat /\ 1 .. Len(written) + 1 \subseteq 1 .. Len(written') + 1
    BY <1>3, <1>7, LenProperties
  <2>2. Len(got) + 1 \in 1 .. Len(written) + 1
    BY <1>3
  <2> QED BY <1>1, <1>10, <2>1, <2>2 DEF Marked
<1> QED BY <1>8, <1>9, <1>10, <1>11 DEF RingInv

LEMMA OutputStep ==
  ASSUME RingInv, NEW size \in RecSizes, Output(size)
  PROVE  RingInv'
<1> DEFINE sample == Record(samples + 1, size)
           lost == Lost(dropped)
           recs == (IF dropped > 0 THEN <<lost>> ELSE <<>>) \o <<sample>>
           ws == IF dropped > 0 THEN recs[1] \o recs[2] ELSE recs[1]
<1>1. /\ RingTypes /\ Order /\ samples \in Nat /\ dropped \in Nat
  BY DEF RingInv, RingTypes
<1>2. size \in Nat /\ size > 0 /\ samples + 1 \in Int /\ 0 - dropped \in Int
  BY <1>1, Bounds
<1>3. sample \in Seq(Words) /\ Sized(sample)
  BY <1>2, RecordIsSized
<1>4. lost \in Seq(Words) /\ Sized(lost)
  BY <1>2, RecordIsSized DEF Lost, LostSize
<1>5. /\ khead = head
      /\ \/ /\ khead + Len(ws) - tail < RingSize
            /\ data' = Store(ws) /\ khead' = khead + Len(ws)
            /\ dropped' = 0 /\ written' = written \o recs
         \/ dropped' = dropped + 1 /\ UNCHANGED <<data, khead, written>>
      /\ samples' = samples + 1
      /\ UNCHANGED <<head, tail, rpc, rhead, rtail, tmp, got>>
  BY DEF Output
<1> HIDE DEF sample, lost
<1>6. \/ dropped > 0 /\ recs = <<lost, sample>> /\ ws = lost \o sample
      \/ ~(dropped > 0) /\ recs = <<sample>> /\ ws = sample
  <2>1. CASE dropped > 0
    <3>1. <<lost>> \o <<sample>> = <<lost, sample>>
      BY <1>3, <1>4, TwoRecords, Zenon
    <3> QED BY <2>1, <3>1
  <2>2. CASE ~(dropped > 0)
    <3>1. <<>> \o <<sample>> = <<sample>>
      OBVIOUS
    <3> QED BY <2>2, <3>1
  <2> QED BY <2>1, <2>2
<1> HIDE DEF recs, ws
<1>7. ws \in Seq(Words)
  BY <1>3, <1>4, <1>6, ConcatProperties
<1>8. \/ Sized(ws) /\ recs = <<ws>>
      \/ \E a, b \in Seq(Words) : Sized(a) /\ Sized(b) /\ ws = a \o b /\ recs = <<a, b>>
  BY <1>3, <1>4, <1>6
<1>9. CASE /\ khead + Len(ws) - tail < RingSize
           /\ data' = Store(ws) /\ khead' = khead + Len(ws)
           /\ dropped' = 0 /\ written' = written \o recs
  <2>1. khead + Len(ws) < tail + RingSize
    <3>1. khead \in Nat /\ tail \in Nat /\ Len(ws) \in Nat
      BY <1>1, <1>7, LenProperties DEF RingTypes
    <3> QED BY <1>9, <3>1, Bounds
  <2>2. samples' \in Nat
    BY <1>1, <1>5
  <2> QED BY <1>5, <1>7, <1>8, <1>9, <2>1, <2>2, OutputFits
<1>10. CASE dropped' = dropped + 1 /\ UNCHANGED <<data, khead, written>>
  <2>1. PICK off : Laid(off, written, data, khead, Len(got)) /\ Marked(off)
    BY DEF RingInv
  <2>2. RingTypes' /\ Order'
    BY <1>1, <1>5, <1>10 DEF RingTypes, Order
  <2>3. Laid(off, written', data', khead', Len(got')) /\ Marked(off)'
    BY <1>5, <1>10, <2>1 DEF Marked
  <2> QED BY <2>2, <2>3 DEF RingInv
<1> QED BY <1>5, <1>9, <1>10

(* The record at the tail, which the reader is about to copy. *)
LEMMA FirstRecord ==
  ASSUME RingInv, rpc = "copy"
  PROVE  LET w == written[Len(got) + 1] IN
         /\ Len(got) < Len(written) /\ w \in Seq(Words) /\ Sized(w)
         /\ Header = w[1] /\ rtail + Len(w) <= rhead
         /\ CopyWrap(rtail, Len(w)) = w
<1> DEFINE g == Len(got)
           w == written[g + 1]
<1>1. PICK off : Laid(off, written, data, khead, Len(got)) /\ Marked(off)
  BY DEF RingInv
<1>2. /\ written \in Seq(Seq(Words)) /\ khead \in Nat /\ tail \in Nat /\ rhead \in Nat
      /\ data \in [1 .. RingSize -> Words]
      /\ Len(written) \in Nat /\ g \in Nat /\ rtail = tail /\ tail < rhead /\ rhead <= head
      /\ head <= khead /\ khead < tail + RingSize /\ g <= Len(written) /\ head \in Nat
      /\ \A i \in 1 .. Len(written) : Sized(written[i])
  BY LenProperties DEF RingInv, RingTypes, Order
<1>3. PICK h \in 1 .. Len(written) + 1 : off[h] = rhead
  BY <1>1 DEF Marked
<1>4. off[g + 1] = tail
  BY <1>1 DEF Marked
<1>5. /\ off \in [1 .. Len(written) + 1 -> Nat]
      /\ \A i \in 1 .. Len(written) : off[i + 1] = off[i] + Len(written[i])
      /\ \A i, j \in 1 .. Len(written) + 1 : i < j => off[i] < off[j]
      /\ \A i \in g + 1 .. Len(written) : \A k \in 1 .. Len(written[i]) :
           data[Place(off[i] + k - 1)] = written[i][k]
  BY <1>1 DEF Laid
<1>6. g + 1 < h
  <2>1. g + 1 \in 1 .. Len(written) + 1 /\ h \in Nat
    BY <1>2
  <2>2. CASE h = g + 1
    BY <1>2, <1>3, <1>4, <2>2
  <2>3. CASE h < g + 1
    <3>1. rhead < tail
      BY <1>3, <1>4, <1>5, <2>1, <2>3
    <3> QED BY <1>2, <3>1
  <2> QED BY <1>2, <2>1, <2>2, <2>3
<1>7. g < Len(written) /\ g + 1 \in 1 .. Len(written) /\ g + 2 \in 1 .. Len(written) + 1
  BY <1>2, <1>6
<1>8. w \in Seq(Words) /\ Len(w) \in Nat /\ Len(w) >= 1 /\ Sized(w)
  BY <1>2, <1>7, ElementOfSeq, LenProperties DEF Sized
<1> HIDE DEF w
<1>9. off[g + 2] = tail + Len(w)
  <2>1. (g + 1) + 1 = g + 2
    BY <1>2
  <2> QED BY <1>4, <1>5, <1>7, <2>1 DEF w
<1>10. tail + Len(w) <= rhead
  <2>1. CASE h = g + 2
    BY <1>2, <1>3, <1>8, <1>9, <2>1
  <2>2. CASE g + 2 < h
    <3>1. off[g + 2] < off[h]
      BY <1>5, <1>7, <2>2
    <3> QED BY <1>2, <1>3, <1>8, <1>9, <3>1
  <2> QED BY <1>2, <1>6, <2>1, <2>2
<1>11. Len(w) <= RingSize
  BY <1>2, <1>8, <1>10, Bounds
<1>12. \A k \in 1 .. Len(w) : data[Place(tail + k - 1)] = w[k]
  <2>1. g + 1 \in g + 1 .. Len(written)
    BY <1>2, <1>7
  <2> QED BY <1>4, <1>5, <2>1 DEF w
<1>13. CopyWrap(rtail, Len(w)) = w
  <2>1. PICK c : c = CopyWrap(tail, Len(w))
    OBVIOUS
  <2>2. Len(w) > 0
    BY <1>8
  <2>3. /\ c \in Seq(Words) /\ Len(c) = Len(w)
        /\ \A k \in 1 .. Len(w) : c[k] = data[Place(tail + k - 1)]
    BY <1>2, <1>8, <1>11, <2>1, <2>2, CopyWords
  <2>4. c = w
    BY <1>8, <1>12, <2>3, SeqEqual
  <2> QED BY <1>2, <2>1, <2>4
<1>14. Header = w[1]
  <2>1. /\ CopyWrap(tail, 1)[1] = data[Place(tail + 1 - 1)]
    <3>1. 1 \in Nat /\ 1 > 0 /\ 1 <= RingSize /\ 1 \in 1 .. 1
      BY Bounds
    <3> QED BY <1>2, <3>1, CopyWords
  <2>2. data[Place(tail + 1 - 1)] = w[1]
    BY <1>8, <1>12
  <2> QED BY <1>2, <2>1, <2>2 DEF Header
<1> QED BY <1>2, <1>7, <1>8, <1>10, <1>13, <1>14 DEF w

LEMMA RingInvStep == RingInv /\ [RingNext]_ringVars => RingInv'
<1> SUFFICES ASSUME RingInv, [RingNext]_ringVars PROVE RingInv'
  OBVIOUS
<1>1. PICK off : Laid(off, written, data, khead, Len(got)) /\ Marked(off)
  BY DEF RingInv
<1>2. RingTypes /\ Order
  BY DEF RingInv
<1>3. /\ written \in Seq(Seq(Words)) /\ got \in Seq(Seq(Words)) /\ Len(written) \in Nat /\ Len(got) \in Nat
      /\ Len(got) <= Len(written)
  BY <1>2, LenProperties DEF RingTypes, Order
<1>4. CASE \E size \in RecSizes : Output(size)
  BY <1>4, OutputStep
<1>5. CASE Publish
  <2>1. /\ head' = khead
        /\ UNCHANGED <<data, khead, tail, written, samples, dropped, rpc, rhead, rtail, tmp, got>>
    BY <1>5 DEF Publish
  <2>2. RingTypes'
    BY <1>2, <2>1 DEF RingTypes
  <2>3. Order'
    <3>1. /\ khead \in Nat /\ head \in Nat /\ tail \in Nat /\ rhead \in Nat /\ rtail \in Nat
          /\ tmp \in Seq(Words)
      BY <1>2 DEF RingTypes
    <3>2. Len(tmp) \in Nat
      BY <3>1, LenProperties
    <3> QED BY <1>2, <2>1, <3>1, <3>2 DEF Order
  <2>4. off[Len(written) + 1] = khead /\ Len(written) + 1 \in 1 .. Len(written) + 1
    BY <1>1, <1>3 DEF Laid
  <2>5. Laid(off, written', data', khead', Len(got')) /\ Marked(off)'
    BY <1>1, <2>1, <2>4 DEF Marked
  <2> QED BY <2>2, <2>3, <2>5 DEF RingInv
<1>6. CASE Load
  <2>1. /\ tail < head /\ rhead' = head /\ rtail' = tail /\ rpc' = "copy"
        /\ UNCHANGED <<data, khead, head, tail, written, samples, dropped, tmp, got>>
    BY <1>6 DEF Load
  <2>2. RingTypes' /\ Order'
    BY <1>2, <2>1 DEF RingTypes, Order
  <2>3. Laid(off, written', data', khead', Len(got')) /\ Marked(off)'
    BY <1>1, <2>1 DEF Marked
  <2> QED BY <2>2, <2>3 DEF RingInv
<1>7. CASE Copy
  <2> DEFINE w == written[Len(got) + 1]
  <2>1. /\ Len(got) < Len(written) /\ w \in Seq(Words) /\ Sized(w)
        /\ Header = w[1] /\ rtail + Len(w) <= rhead
        /\ CopyWrap(rtail, Len(w)) = w
    BY <1>7, FirstRecord DEF Copy
  <2>2. Header.size = Len(w) /\ Len(w) \in Nat /\ Len(w) >= 1
    BY <2>1, LenProperties DEF Sized
  <2>3. rtail \in Nat /\ rhead \in Nat
    BY <1>2 DEF RingTypes
  <2> HIDE DEF w
  <2>4. ~(Header.size < 1) /\ ~(Header.size < 1 \/ rtail + Header.size > rhead)
    BY <2>1, <2>2, <2>3
  <2>5. tmp' = w /\ tail' = tail
    BY <1>7, <2>1, <2>2, <2>4 DEF Copy
  <2>6. w # <<>>
    BY <2>1, <2>2, EmptySeq
  <2>7. /\ rpc' = "store" /\ rpc = "copy"
        /\ UNCHANGED <<data, khead, head, written, samples, dropped, rhead, rtail, got>>
    BY <1>7, <2>5, <2>6 DEF Copy
  <2>8. RingTypes'
    BY <1>2, <2>1, <2>5, <2>7 DEF RingTypes
  <2>9. Order'
    <3>1. rtail + Len(w) <= head
      <4>1. rhead <= head /\ head \in Nat
        BY <1>2, <2>7 DEF Order, RingTypes
      <4> QED BY <2>1, <2>2, <2>3, <4>1
    <3>2. tmp' = written'[Len(got') + 1]
      BY <2>5, <2>7 DEF w
    <3> QED BY <1>2, <2>1, <2>5, <2>7, <3>1, <3>2 DEF Order
  <2>10. Laid(off, written', data', khead', Len(got')) /\ Marked(off)'
    BY <1>1, <2>5, <2>7 DEF Marked
  <2> QED BY <2>8, <2>9, <2>10 DEF RingInv
<1>8. CASE Return
  <2>1. /\ rpc = "store" /\ rpc' = "idle" /\ tail' = rtail + Len(tmp) /\ got' = Append(got, tmp) /\ tmp' = <<>>
        /\ UNCHANGED <<data, khead, head, written, samples, dropped, rhead, rtail>>
    BY <1>8 DEF Return
  <2>2. /\ rtail = tail /\ Len(got) < Len(written) /\ tmp = written[Len(got) + 1]
        /\ tail + Len(tmp) <= head /\ tmp \in Seq(Words) /\ tail \in Nat /\ Len(tmp) \in Nat
        /\ khead \in Nat /\ head \in Nat /\ head <= khead /\ khead < tail + RingSize
    BY <1>2, <2>1, LenProperties DEF Order, RingTypes
  <2>3. /\ got' \in Seq(Seq(Words)) /\ Len(got') = Len(got) + 1
        /\ \A i \in 1 .. Len(got) : got'[i] = got[i]
        /\ got'[Len(got) + 1] = tmp
    BY <1>3, <2>1, <2>2, AppendProperties
  <2>4. RingTypes'
    <3>1. tail' \in Nat /\ tmp' \in Seq(Words)
      BY <2>1, <2>2, EmptySeq
    <3> QED BY <1>2, <2>1, <2>3, <3>1 DEF RingTypes
  <2>5. Order'
    <3>1. Len(got') <= Len(written')
      BY <1>3, <2>1, <2>2, <2>3
    <3>2. \A i \in 1 .. Len(got') : got'[i] = written'[i]
      <4>1. SUFFICES ASSUME NEW i \in 1 .. Len(got') PROVE got'[i] = written'[i]
        OBVIOUS
      <4>2. i \in 1 .. Len(got) \/ i = Len(got) + 1
        BY <1>3, <2>3
      <4> QED BY <1>2, <2>1, <2>2, <2>3, <4>2 DEF Order
    <3>3. tail' <= head' /\ head' <= khead' /\ khead' < tail' + RingSize
      BY <2>1, <2>2, Bounds
    <3> QED BY <2>1, <3>1, <3>2, <3>3 DEF Order
  <2>6. off[Len(got') + 1] = tail'
    <3>1. Len(got) + 1 \in 1 .. Len(written)
      BY <1>3, <2>2
    <3>2. off[(Len(got) + 1) + 1] = off[Len(got) + 1] + Len(written[Len(got) + 1])
      BY <1>1, <3>1 DEF Laid
    <3> QED BY <1>1, <2>1, <2>2, <2>3, <3>2 DEF Marked
  <2>7. Marked(off)'
    BY <1>1, <2>1, <2>6 DEF Marked
  <2>8. Laid(off, written', data', khead', Len(got'))
    <3>1. \A i \in Len(got') + 1 .. Len(written) : i \in Len(got) + 1 .. Len(written)
      BY <1>3, <2>3
    <3>2. /\ off \in [1 .. Len(written) + 1 -> Nat]
          /\ \A i \in 1 .. Len(written) : off[i + 1] = off[i] + Len(written[i])
          /\ \A i, j \in 1 .. Len(written) + 1 : i < j => off[i] < off[j]
          /\ off[Len(written) + 1] = khead
          /\ \A i \in Len(got) + 1 .. Len(written) : \A k \in 1 .. Len(written[i]) :
               data[Place(off[i] + k - 1)] = written[i][k]
      BY <1>1 DEF Laid
    <3>3. Laid(off, written, data, khead, Len(got'))
      BY <3>1, <3>2 DEF Laid
    <3> QED BY <2>1, <3>3
  <2> QED BY <2>4, <2>5, <2>7, <2>8 DEF RingInv
<1>9. CASE UNCHANGED ringVars
  <2>1. /\ UNCHANGED <<data, khead, head, tail, written, samples, dropped, rpc, rhead, rtail, tmp, got>>
    BY <1>9 DEF ringVars
  <2>2. RingTypes' /\ Order'
    BY <1>2, <2>1 DEF RingTypes, Order
  <2>3. Laid(off, written', data', khead', Len(got')) /\ Marked(off)'
    BY <1>1, <2>1 DEF Marked
  <2> QED BY <2>2, <2>3 DEF RingInv
<1> QED BY <1>4, <1>5, <1>6, <1>7, <1>8, <1>9 DEF RingNext

(* ReadRecord returns what the kernel has written: each record once, in      *)
(* order and whole, also those that wrap around the end of the ring; the     *)
(* kernel never writes over a record that is being copied.                   *)
THEOREM RecordsAreIntact == RingSpec => []RecordsIntact
<1>1. RingInv => RecordsIntact
  <2> SUFFICES ASSUME RingInv PROVE RecordsIntact
    OBVIOUS
  <2>1. PICK off : Laid(off, written, data, khead, Len(got)) /\ Marked(off)
    BY DEF RingInv
  <2>2. /\ written \in Seq(Seq(Words)) /\ got \in Seq(Seq(Words))
        /\ Len(written) \in Nat /\ Len(got) \in Nat /\ Len(got) <= Len(written) /\ tail <= head
        /\ \A i \in 1 .. Len(got) : got[i] = written[i]
    BY LenProperties DEF RingInv, RingTypes, Order
  <2>3. got = SubSeq(written, 1, Len(got))
    <3> DEFINE W == Seq(Words)
    <3>1. written \in Seq(W) /\ got \in Seq(W)
      BY <2>2
    <3> HIDE DEF W
    <3>2. \A i \in 1 .. Len(got) : written[i] \in W
      BY <2>2, <3>1, ElementOfSeq
    <3>3. PICK s : s = SubSeq(written, 1, Len(got))
      OBVIOUS
    <3>4. /\ s \in Seq(W) /\ Len(s) = Len(got)
          /\ \A i \in 1 .. Len(got) : s[i] = written[i]
      BY <2>2, <3>1, <3>2, <3>3, SubSeqProperties
    <3>5. \A i \in 1 .. Len(got) : got[i] = s[i]
      BY <2>2, <3>4
    <3>6. got = s
      BY <3>1, <3>4, <3>5, SeqEqual
    <3> QED BY <3>3, <3>6
  <2>4. tail = khead => got = written
    <3> SUFFICES ASSUME tail = khead PROVE got = written
      OBVIOUS
    <3>1. /\ off[Len(got) + 1] = tail /\ off[Len(written) + 1] = khead
          /\ \A i, j \in 1 .. Len(written) + 1 : i < j => off[i] < off[j]
      BY <2>1 DEF Laid, Marked
    <3>2. Len(got) + 1 \in 1 .. Len(written) + 1 /\ Len(written) + 1 \in 1 .. Len(written) + 1
      BY <2>2
    <3>3. khead \in Nat /\ ~(khead < khead)
      BY DEF RingInv, RingTypes
    <3>4. ~(Len(got) + 1 < Len(written) + 1)
      BY <3>1, <3>2, <3>3
    <3>5. Len(got) = Len(written)
      BY <2>2, <3>4
    <3> QED BY <2>2, <3>5, SeqEqual
  <2> QED BY <2>2, <2>3, <2>4 DEF RecordsIntact
<1> QED BY <1>1, RingInvInit, RingInvStep, PTL DEF RingSpec

-----------------------------------------------------------------------------
(* Recursive functions, by induction on the numbers. *)

(* Induction, with the property given as the set of the numbers that have it. *)
LEMMA SetInduction ==
  ASSUME NEW T, 0 \in T, \A n \in Nat : n \in T => n + 1 \in T
  PROVE  Nat \subseteq T
<1> SUFFICES ASSUME Nat \ T # {} PROVE FALSE
  OBVIOUS
<1>1. PICK x \in Nat \ T : \A y \in Nat \ T : ~ (<<y, x>> \in OpToRel(<, Nat))
  <2>1. Nat \ T \subseteq Nat
    OBVIOUS
  <2> QED BY <2>1, NatLessThanWellFounded, WFMin, Zenon
<1>2. x # 0 /\ x - 1 \in Nat /\ x - 1 < x
  OBVIOUS
<1>3. x - 1 \notin T
  <2>1. x - 1 \in T => x - 1 + 1 \in T
    BY <1>2
  <2> QED BY <1>2, <2>1
<1>4. <<x - 1, x>> \in OpToRel(<, Nat)
  BY <1>2 DEF OpToRel
<1> QED BY <1>1, <1>2, <1>3, <1>4

LEMMA InductionUpTo ==
  ASSUME NEW N \in Nat, NEW T, 0 \in T, \A i \in 1 .. N : i - 1 \in T => i \in T
  PROVE  0 .. N \subseteq T
<1> DEFINE U == {n \in Nat : n <= N => n \in T}
<1>1. 0 \in U
  OBVIOUS
<1>2. ASSUME NEW n \in Nat, n \in U PROVE n + 1 \in U
  <2>1. CASE n + 1 <= N
    <3>1. n \in T /\ n + 1 \in 1 .. N /\ (n + 1) - 1 = n
      BY <1>2, <2>1
    <3> QED BY <3>1
  <2> QED BY <2>1
<1>3. Nat \subseteq U
  <2> HIDE DEF U
  <2> QED BY <1>1, <1>2, SetInduction
<1> QED BY <1>3

(* A function is determined by its first value and by its step. *)
SameSteps(f, g, N) == f[0] = g[0] /\ \A i \in 1 .. N : f[i - 1] = g[i - 1] => f[i] = g[i]

LEMMA SameByInduction ==
  ASSUME NEW N \in Nat, NEW f, NEW g, SameSteps(f, g, N)
  PROVE  \A i \in 0 .. N : f[i] = g[i]
<1> DEFINE T == {i \in 0 .. N : f[i] = g[i]}
<1>1. 0 \in T
  BY DEF SameSteps
<1>2. ASSUME NEW i \in 1 .. N, i - 1 \in T PROVE i \in T
  BY <1>2 DEF SameSteps
<1>3. 0 .. N \subseteq T
  <2> HIDE DEF T
  <2> QED BY <1>1, <1>2, InductionUpTo
<1> QED BY <1>3

(* and there is one for every first value and every step. *)
ByRecursion(f, N, S, a, step) ==
  f \in [0 .. N -> S] /\ f[0] = a /\ \A i \in 1 .. N : f[i] = step[<<f[i - 1], i>>]

LEMMA RecursionDefines ==
  ASSUME NEW N \in Nat, NEW S, NEW a \in S, NEW step \in [S \X (1 .. N) -> S]
  PROVE  \E f : ByRecursion(f, N, S, a, step)
<1> DEFINE Upto(n, f) == f[0] = a /\ \A i \in 1 .. n : f[i] = step[<<f[i - 1], i>>]
           T == {n \in 0 .. N : \E f \in [0 .. n -> S] : Upto(n, f)}
<1>1. 0 \in T
  <2>1. [i \in 0 .. 0 |-> a] \in [0 .. 0 -> S] /\ Upto(0, [i \in 0 .. 0 |-> a])
    OBVIOUS
  <2>2. \E f \in [0 .. 0 -> S] : Upto(0, f)
    <3> HIDE DEF Upto
    <3> QED BY <2>1
  <2>3. 0 \in 0 .. N
    OBVIOUS
  <2> HIDE DEF Upto
  <2> QED BY <2>2, <2>3
<1>2. ASSUME NEW n \in 1 .. N, n - 1 \in T PROVE n \in T
  <2>1. PICK f \in [0 .. n - 1 -> S] : Upto(n - 1, f)
    BY <1>2
  <2> DEFINE g == [i \in 0 .. n |-> IF i = n THEN step[<<f[n - 1], n>>] ELSE f[i]]
  <2>2. g \in [0 .. n -> S]
    <3>1. f[n - 1] \in S
      OBVIOUS
    <3>2. step[<<f[n - 1], n>>] \in S
      BY <3>1
    <3> QED BY <3>2
  <2>3. Upto(n, g)
    <3>1. g[0] = a
      BY <2>1
    <3>2. ASSUME NEW i \in 1 .. n PROVE g[i] = step[<<g[i - 1], i>>]
      <4>1. i - 1 \in 0 .. n /\ i - 1 # n /\ g[i - 1] = f[i - 1]
        OBVIOUS
      <4>2. CASE i = n
        BY <4>1, <4>2
      <4>3. CASE i # n
        <5>1. i \in 1 .. n - 1 /\ i \in 0 .. n /\ g[i] = f[i]
          BY <4>3
        <5>2. f[i] = step[<<f[i - 1], i>>]
          BY <2>1, <5>1
        <5> QED BY <4>1, <5>1, <5>2
      <4> QED BY <4>2, <4>3
    <3> QED BY <3>1, <3>2
  <2> HIDE DEF g, Upto
  <2> QED BY <2>2, <2>3
<1>3. N \in T
  <2>1. 0 .. N \subseteq T
    <3> HIDE DEF T
    <3> QED BY <1>1, <1>2, InductionUpTo
  <2> QED BY <2>1
<1> QED BY <1>3 DEF ByRecursion

-----------------------------------------------------------------------------
(* LogSecret: the values of the registers, and what is known of them. *)

RegValues == [Regs -> Int]

LEMMA KnownValues ==
  ASSUME NEW is \in Seq(Instructions)
  PROVE  /\ Known(is) \in [0 .. Len(is) -> RegValues] /\ Known(is)[0] = NoneKnown
         /\ \A i \in 1 .. Len(is) : Known(is)[i] = Track(Known(is)[i - 1], is[i])
<1> DEFINE step == [p \in RegValues \X (1 .. Len(is)) |-> Track(p[1], is[p[2]])]
           Defines(f) == f = [i \in 0 .. Len(is) |-> IF i = 0 THEN NoneKnown ELSE Track(f[i - 1], is[i])]
<1>1. Len(is) \in Nat /\ \A i \in 1 .. Len(is) : is[i] \in Instructions
  BY LenProperties, ElementOfSeq
<1>2. NoneKnown \in RegValues
  BY DEF NoneKnown, RegValues, Unknown
<1>3. ASSUME NEW rv \in RegValues, NEW in \in Instructions PROVE Track(rv, in) \in RegValues
  BY <1>2 DEF Track, RegValues, Instructions, Unknown
<1>4. step \in [RegValues \X (1 .. Len(is)) -> RegValues]
  BY <1>1, <1>3
<1>5. PICK f : ByRecursion(f, Len(is), RegValues, NoneKnown, step)
  <2> HIDE DEF step
  <2>1. Len(is) \in Nat
    BY <1>1
  <2> QED BY <2>1, <1>2, <1>4, RecursionDefines, Zenon
<1>f. /\ f \in [0 .. Len(is) -> RegValues] /\ f[0] = NoneKnown
      /\ \A i \in 1 .. Len(is) : f[i] = step[<<f[i - 1], i>>]
  <2> HIDE DEF step
  <2> QED BY <1>5 DEF ByRecursion
<1>6. ASSUME NEW i \in 1 .. Len(is)
      PROVE  f[i - 1] \in RegValues /\ f[i] = Track(f[i - 1], is[i])
  <2>1. i - 1 \in 0 .. Len(is)
    BY <1>1
  <2>2. f[i - 1] \in RegValues
    BY <2>1, <1>f
  <2>3. <<f[i - 1], i>> \in RegValues \X (1 .. Len(is)) /\ f[i] = step[<<f[i - 1], i>>]
    BY <2>2, <1>f
  <2> QED BY <2>2, <2>3
<1>7. Defines(f)
  BY <1>1, <1>f, <1>6
<1>8. Known(is) = CHOOSE g : Defines(g)
  BY DEF Known
<1>9. Defines(Known(is))
  <2> HIDE DEF Defines
  <2> QED BY <1>7, <1>8
<1>10. Known(is)[0] = NoneKnown /\ \A i \in 1 .. Len(is) : Known(is)[i] = Track(Known(is)[i - 1], is[i])
  BY <1>1, <1>9
<1>11. DOMAIN Known(is) = 0 .. Len(is)
  BY <1>9
<1>12. Known(is) = f
  <2>1. \A i \in 1 .. Len(is) : Known(is)[i - 1] = f[i - 1] => Known(is)[i] = f[i]
    BY <1>6, <1>10
  <2>2. \A i \in 0 .. Len(is) : Known(is)[i] = f[i]
    <3>1. Len(is) \in Nat /\ Known(is)[0] = f[0]
      BY <1>1, <1>f, <1>10
    <3>2. SameSteps(Known(is), f, Len(is))
      BY <3>1, <2>1 DEF SameSteps
    <3> QED BY <3>1, <3>2, SameByInduction
  <2>3. Known(is) = [i \in 0 .. Len(is) |-> Known(is)[i]]
    BY <1>9
  <2> QED BY <2>2, <2>3
<1> QED BY <1>f, <1>10, <1>12

LEMMA RealValues ==
  ASSUME NEW is \in Seq(Instructions)
  PROVE  /\ Real(is) \in [0 .. Len(is) -> RegValues] /\ Real(is)[0] = NoneKnown
         /\ \A i \in 1 .. Len(is) : Real(is)[i] = Execute(Real(is)[i - 1], is[i])
<1> DEFINE step == [p \in RegValues \X (1 .. Len(is)) |-> Execute(p[1], is[p[2]])]
           Defines(f) == f = [i \in 0 .. Len(is) |-> IF i = 0 THEN NoneKnown ELSE Execute(f[i - 1], is[i])]
<1>1. Len(is) \in Nat /\ \A i \in 1 .. Len(is) : is[i] \in Instructions
  BY LenProperties, ElementOfSeq
<1>2. NoneKnown \in RegValues
  BY DEF NoneKnown, RegValues, Unknown
<1>3. ASSUME NEW rv \in RegValues, NEW in \in Instructions PROVE Execute(rv, in) \in RegValues
  BY <1>2 DEF Execute, RegValues, Instructions, Unknown
<1>4. step \in [RegValues \X (1 .. Len(is)) -> RegValues]
  BY <1>1, <1>3
<1>5. PICK f : ByRecursion(f, Len(is), RegValues, NoneKnown, step)
  <2> HIDE DEF step
  <2>1. Len(is) \in Nat
    BY <1>1
  <2> QED BY <2>1, <1>2, <1>4, RecursionDefines, Zenon
<1>f. /\ f \in [0 .. Len(is) -> RegValues] /\ f[0] = NoneKnown
      /\ \A i \in 1 .. Len(is) : f[i] = step[<<f[i - 1], i>>]
  <2> HIDE DEF step
  <2> QED BY <1>5 DEF ByRecursion
<1>6. ASSUME NEW i \in 1 .. Len(is)
      PROVE  f[i - 1] \in RegValues /\ f[i] = Execute(f[i - 1], is[i])
  <2>1. i - 1 \in 0 .. Len(is)
    BY <1>1
  <2>2. f[i - 1] \in RegValues
    BY <2>1, <1>f
  <2>3. <<f[i - 1], i>> \in RegValues \X (1 .. Len(is)) /\ f[i] = step[<<f[i - 1], i>>]
    BY <2>2, <1>f
  <2> QED BY <2>2, <2>3
<1>7. Defines(f)
  BY <1>1, <1>f, <1>6
<1>8. Real(is) = CHOOSE g : Defines(g)
  BY DEF Real
<1>9. Defines(Real(is))
  <2> HIDE DEF Defines
  <2> QED BY <1>7, <1>8
<1>10. Real(is)[0] = NoneKnown /\ \A i \in 1 .. Len(is) : Real(is)[i] = Execute(Real(is)[i - 1], is[i])
  BY <1>1, <1>9
<1>11. DOMAIN Real(is) = 0 .. Len(is)
  BY <1>9
<1>12. Real(is) = f
  <2>1. \A i \in 1 .. Len(is) : Real(is)[i - 1] = f[i - 1] => Real(is)[i] = f[i]
    BY <1>6, <1>10
  <2>2. \A i \in 0 .. Len(is) : Real(is)[i] = f[i]
    <3>1. Len(is) \in Nat /\ Real(is)[0] = f[0]
      BY <1>1, <1>f, <1>10
    <3>2. SameSteps(Real(is), f, Len(is))
      BY <3>1, <2>1 DEF SameSteps
    <3> QED BY <3>1, <3>2, SameByInduction
  <2>3. Real(is) = [i \in 0 .. Len(is) |-> Real(is)[i]]
    BY <1>9
  <2> QED BY <2>2, <2>3
<1> QED BY <1>f, <1>10, <1>12

(* What the analysis takes for known is what the register holds. *)
LEMMA KnownIsReal ==
  ASSUME NEW is \in Seq(Instructions), DirectLoads(is)
  PROVE  \A i \in 0 .. Len(is) : \A r \in Regs :
           Known(is)[i][r] # Unknown => Real(is)[i][r] = Known(is)[i][r]
<1> DEFINE Agree(k, x) == \A r \in Regs : k[r] # Unknown => x[r] = k[r]
           T == {i \in 0 .. Len(is) : Agree(Known(is)[i], Real(is)[i])}
<1>1. Len(is) \in Nat /\ \A i \in 1 .. Len(is) : is[i] \in Instructions
  BY LenProperties, ElementOfSeq
<1>2. 0 \in T
  BY <1>1, KnownValues, RealValues
<1>3. ASSUME NEW i \in 1 .. Len(is), i - 1 \in T PROVE i \in T
  <2>1. PICK k \in RegValues : k = Known(is)[i - 1]
    BY <1>1, KnownValues
  <2>2. PICK x \in RegValues : x = Real(is)[i - 1]
    BY <1>1, RealValues
  <2>3. PICK in \in Instructions : in = is[i]
    BY <1>1
  <2>4. Known(is)[i] = Track(k, in) /\ Real(is)[i] = Execute(x, in)
    BY <2>1, <2>2, <2>3, KnownValues, RealValues
  <2>5. Agree(k, x)
    BY <1>3, <2>1, <2>2
  <2>6. in.op = "other" => k[in.dst] = Unknown
    BY <2>1, <2>3 DEF DirectLoads
  <2>7. in.dst \in Regs /\ in.src \in Regs /\ in.val \in Int
        /\ in.op \in Ends \cup {"adrp", "adr", "add", "other"}
    BY DEF Instructions
  <2>8. Agree(Track(k, in), Execute(x, in))
    <3>1. CASE in.op \in {"adrp", "adr"}
      BY <2>5, <2>7, <3>1 DEF Track, Execute, RegValues, Ends, Calls
    <3>2. CASE in.op = "add"
      BY <2>5, <2>7, <3>2 DEF Track, Execute, RegValues, Ends, Calls
    <3>3. CASE in.op \in Ends
      BY <2>7, <3>3 DEF Track, Ends, Calls, NoneKnown
    <3>4. CASE in.op = "other"
      BY <2>5, <2>6, <2>7, <3>4 DEF Track, Execute, RegValues, Ends, Calls
    <3> QED BY <2>7, <3>1, <3>2, <3>3, <3>4
  <2> QED BY <2>4, <2>8
<1>4. 0 .. Len(is) \subseteq T
  <2> HIDE DEF T
  <2>1. Len(is) \in Nat
    BY <1>1
  <2> QED BY <1>2, <1>3, <2>1, InductionUpTo, Zenon
<1> QED BY <1>4

(* A candidate is a call that the code makes with the label. *)
LEMMA CandidatesAreCalled ==
  ASSUME NEW is \in Seq(Instructions), DirectLoads(is), NEW l \in Labels
  PROVE  Candidates(is, l) \subseteq CalledWith(is, l)
<1>1. Len(is) \in Nat /\ \A i \in 1 .. Len(is) : is[i] \in Instructions
  BY LenProperties, ElementOfSeq
<1>2. ASSUME NEW i \in Sites(is, l) PROVE Target(Known(is)[i - 1], is[i]) \in CalledWith(is, l)
  <2>1. i \in 1 .. Len(is) /\ i - 1 \in 0 .. Len(is)
    BY <1>1 DEF Sites
  <2>2. PICK k \in RegValues : k = Known(is)[i - 1]
    BY <2>1, KnownValues
  <2>3. PICK x \in RegValues : x = Real(is)[i - 1]
    BY <2>1, RealValues
  <2>4. PICK in \in Instructions : in = is[i]
    BY <1>1, <2>1
  <2>5. \A r \in Regs : k[r] # Unknown => x[r] = k[r]
    BY <2>1, <2>2, <2>3, KnownIsReal
  <2>6. /\ in.op \in Calls /\ Target(k, in) # 0
        /\ k[X1] \in DOMAIN LabelAt /\ LabelAt[k[X1]] = l
    BY <2>2, <2>4 DEF Sites
  <2>7. x[X1] = k[X1]
    BY <2>5, <2>6, LogSecretAssumption DEF Unknown
  <2>8. in.op # "bcond" /\ Target(x, in) = Target(k, in)
    BY <2>5, <2>6 DEF Target, Calls, Instructions
  <2>9. i \in {j \in 1 .. Len(is) :
              LET rv == Real(is)[j - 1] IN
              /\ is[j].op \in Calls \ {"bcond"}
              /\ rv[X1] \in DOMAIN LabelAt /\ LabelAt[rv[X1]] = l}
    BY <2>1, <2>3, <2>4, <2>6, <2>7, <2>8
  <2> QED BY <2>2, <2>3, <2>4, <2>6, <2>8, <2>9 DEF CalledWith
<1> QED BY <1>2 DEF Candidates

(* The function that is found without a symbol is one that the code calls    *)
(* with CLIENT_RANDOM and with each of the labels that were seen: for every  *)
(* code, if no instruction that is ignored changes a known register.         *)
THEOREM FoundFunctionIsCalled == code \in Seq(Instructions) => LogSecretIsCalled
<1> SUFFICES ASSUME code \in Seq(Instructions), DirectLoads(code),
                    LogSecret(sym, code) # NoAddr, LogSecret(sym, code) # FileOffset(sym)
             PROVE  \E a \in CalledWith(code, ClientRandomLabel) :
                      /\ FileOffset(a) = LogSecret(sym, code)
                      /\ \A l \in Labels : Candidates(code, l) # {} => a \in CalledWith(code, l)
  BY DEF LogSecretIsCalled
<1> DEFINE a == CHOOSE a \in Candidates(code, ClientRandomLabel) : TRUE
<1>1. /\ Cardinality(Sites(code, ClientRandomLabel)) = 1
      /\ \A l \in Labels : Candidates(code, l) # {} => a \in Candidates(code, l)
      /\ LogSecret(sym, code) = FileOffset(a)
  BY DEF LogSecret, LogSecretHeuristic
<1>2. Candidates(code, ClientRandomLabel) # {}
  <2>1. Sites(code, ClientRandomLabel) # {}
    <3>1. Cardinality({}) = 0
      BY FS_EmptySet, Zenon
    <3>2. Sites(code, ClientRandomLabel) = {} => Cardinality(Sites(code, ClientRandomLabel)) = 0
      BY <3>1, Zenon
    <3> QED BY <1>1, <3>2
  <2> QED BY <2>1 DEF Candidates
<1>3. a \in Candidates(code, ClientRandomLabel)
  BY <1>2
<1> HIDE DEF a
<1>4. ClientRandomLabel \in Labels
  BY LogSecretAssumption
<1> QED BY <1>1, <1>3, <1>4, CandidatesAreCalled

-----------------------------------------------------------------------------
(* KVLines: texts, and what the readers cut off them. *)

Tokens == Chars \cup Names
Text == Seq(Tokens)

LEMMA CharsDiffer ==
  /\ Bare \notin Special /\ Escape \notin Special /\ Bare # Escape
  /\ Blank # Mark /\ Blank # Equal /\ Blank # Quote /\ Blank # Bare /\ Blank # Escape
  /\ Mark # Equal /\ Mark # Quote /\ Mark # Bare /\ Equal # Quote /\ Equal # Escape /\ Equal # Bare
  /\ Quote # Escape /\ Quote # Bare
BY DEF Special, Bare, Blank, Mark, Equal, Quote, Escape

LEMMA NamesAreNotChars ==
  /\ Len(Props) \in Nat /\ DOMAIN Props = 1 .. Len(Props)
  /\ Names \cap Chars = {} /\ ObjName \in Names /\ \A p \in 1 .. Len(Props) : Props[p] \in Names
<1>1. Len(Props) \in Nat /\ DOMAIN Props = 1 .. Len(Props)
  BY KVLinesAssumption, LenProperties
<1>2. \A p \in 1 .. Len(Props) : Props[p] \in STRING \ Chars
  BY KVLinesAssumption, ElementOfSeq, <1>1
<1> QED BY <1>1, <1>2, KVLinesAssumption DEF Names

LEMMA TextParts ==
  ASSUME NEW s \in Text
  PROVE  /\ Len(s) \in Nat /\ DOMAIN s = 1 .. Len(s) /\ \A i \in 1 .. Len(s) : s[i] \in Tokens
         /\ s = <<>> <=> Len(s) = 0
BY LenProperties, ElementOfSeq, EmptySeq DEF Text

(* Two texts, one after the other. *)
LEMMA Appended ==
  ASSUME NEW a \in Text, NEW b \in Text
  PROVE  /\ a \o b \in Text /\ Len(a \o b) = Len(a) + Len(b)
         /\ \A i \in 1 .. Len(a) : (a \o b)[i] = a[i]
         /\ \A i \in 1 .. Len(b) : (a \o b)[Len(a) + i] = b[i]
         /\ SubSeq(a \o b, 1, Len(a)) = a /\ From(a \o b, Len(a) + 1) = b
<1>1. Len(a) \in Nat /\ Len(b) \in Nat
  BY TextParts
<1>2. /\ a \o b \in Text /\ Len(a \o b) = Len(a) + Len(b)
      /\ \A i \in 1 .. Len(a) + Len(b) : (a \o b)[i] = IF i <= Len(a) THEN a[i] ELSE b[i - Len(a)]
  BY ConcatProperties DEF Text
<1>3. \A i \in 1 .. Len(a) : (a \o b)[i] = a[i]
  BY <1>1, <1>2
<1>4. ASSUME NEW i \in 1 .. Len(b) PROVE (a \o b)[Len(a) + i] = b[i]
  <2>1. Len(a) + i \in 1 .. Len(a) + Len(b) /\ ~(Len(a) + i <= Len(a)) /\ Len(a) + i - Len(a) = i
    BY <1>1
  <2> QED BY <1>2, <2>1
<1>5. PICK s \in Text : s = a \o b
  BY <1>2
<1>6. \A i \in 1 .. Len(s) : s[i] \in Tokens
  BY TextParts
<1>7. SubSeq(s, 1, Len(a)) = a
  <2>1. /\ SubSeq(s, 1, Len(a)) \in Text
        /\ Len(SubSeq(s, 1, Len(a))) = IF 1 <= Len(a) THEN Len(a) - 1 + 1 ELSE 0
        /\ \A i \in 1 .. Len(a) - 1 + 1 : SubSeq(s, 1, Len(a))[i] = s[1 + i - 1]
    <3>1. \A i \in 1 .. Len(a) : s[i] \in Tokens
      BY <1>1, <1>2, <1>5, <1>6
    <3>2. 1 \in Int /\ Len(a) \in Int
      BY <1>1
    <3> QED BY <3>1, <3>2, SubSeqProperties DEF Text
  <2>2. PICK u \in Text : u = SubSeq(s, 1, Len(a))
    BY <2>1
  <2>3. Len(u) = Len(a) /\ \A i \in 1 .. Len(u) : u[i] = a[i]
    BY <1>1, <1>3, <1>5, <2>1, <2>2
  <2>4. u = a
    BY <2>3, SeqEqual DEF Text
  <2> QED BY <2>2, <2>4
<1>8. From(s, Len(a) + 1) = b
  <2>1. PICK m \in Nat : m = Len(a) + 1
    BY <1>1
  <2>2. PICK n \in Nat : n = Len(s)
    BY <1>1, <1>2, <1>5
  <2>3. /\ SubSeq(s, m, n) \in Text
        /\ Len(SubSeq(s, m, n)) = IF m <= n THEN n - m + 1 ELSE 0
        /\ \A i \in 1 .. n - m + 1 : SubSeq(s, m, n)[i] = s[m + i - 1]
    <3>1. \A i \in m .. n : s[i] \in Tokens
      BY <1>1, <1>6, <2>1, <2>2
    <3>2. m \in Int /\ n \in Int
      OBVIOUS
    <3> QED BY <3>1, <3>2, SubSeqProperties DEF Text
  <2>4. PICK u \in Text : u = SubSeq(s, m, n)
    BY <2>3
  <2>5. n - m + 1 = Len(b) /\ Len(u) = Len(b)
    BY <1>1, <1>2, <1>5, <2>1, <2>2, <2>3, <2>4
  <2>6. ASSUME NEW i \in 1 .. Len(u) PROVE u[i] = b[i]
    <3>1. i \in 1 .. n - m + 1 /\ m + i - 1 = Len(a) + i /\ i \in 1 .. Len(b)
      BY <1>1, <2>1, <2>5
    <3>2. u[i] = s[m + i - 1]
      BY <2>3, <2>4, <3>1
    <3> QED BY <1>4, <1>5, <3>1, <3>2
  <2>7. u = b
    BY <2>5, <2>6, SeqEqual DEF Text
  <2> QED BY <2>1, <2>2, <2>4, <2>7 DEF From
<1> QED BY <1>2, <1>3, <1>4, <1>5, <1>7, <1>8

LEMMA SpanIs ==
  ASSUME NEW s \in Text, NEW C, NEW n \in 0 .. Len(s),
         \A i \in 1 .. n : s[i] \in C, n < Len(s) => s[n + 1] \notin C
  PROVE  Span(s, C) = n
<1>1. Len(s) \in Nat
  BY TextParts
<1> DEFINE P(m) == /\ \A i \in 1 .. m : s[i] \in C
                   /\ m < Len(s) => s[m + 1] \notin C
<1>2. P(n)
  OBVIOUS
<1>3. ASSUME NEW m \in 0 .. Len(s), P(m) PROVE m = n
  <2>1. ~(m < n)
    BY <1>1, <1>3
  <2>2. ~(n < m)
    BY <1>1, <1>3
  <2> QED BY <1>1, <2>1, <2>2
<1>4. Span(s, C) = CHOOSE m \in 0 .. Len(s) : P(m)
  BY DEF Span
<1> HIDE DEF P
<1> QED BY <1>2, <1>3, <1>4

LEMMA TrimLeftKeeps ==
  ASSUME NEW s \in Text, s # <<>> => s[1] # Blank
  PROVE  TrimLeft(s) = s
<1>1. Len(s) \in Nat /\ 0 \in 0 .. Len(s) /\ (0 < Len(s) => s # <<>>)
  BY TextParts
<1>2. Span(s, {Blank}) = 0
  BY <1>1, SpanIs
<1>3. From(s, 1) = s
  BY SubSeqFull DEF Text, From
<1>4. Span(s, {Blank}) + 1 = 1
  BY <1>2
<1> QED BY <1>3, <1>4 DEF TrimLeft

LEMMA TrimLeftCuts ==
  ASSUME NEW s \in Text, s # <<>> => s[1] # Blank
  PROVE  TrimLeft(<<Blank>> \o s) = s
<1>1. <<Blank>> \in Text /\ Len(<<Blank>>) = 1
  BY DEF Text, Tokens, Chars
<1>2. PICK t \in Text : t = <<Blank>> \o s
  BY <1>1, Appended
<1>3. /\ Len(s) \in Nat /\ Len(t) = 1 + Len(s) /\ t[1] = Blank /\ From(t, 2) = s
      /\ \A i \in 1 .. Len(s) : t[1 + i] = s[i]
  <2>1. PICK b \in Text : b = <<Blank>>
    BY <1>1
  <2>2. Len(b) = 1 /\ b[1] = Blank /\ 1 + 1 = 2 /\ t = b \o s
    BY <1>1, <1>2, <2>1
  <2>3. /\ Len(b \o s) = Len(b) + Len(s) /\ (\A i \in 1 .. Len(b) : (b \o s)[i] = b[i])
        /\ (\A i \in 1 .. Len(s) : (b \o s)[Len(b) + i] = s[i]) /\ From(b \o s, Len(b) + 1) = s
    BY Appended, Zenon
  <2>4. From(t, 1 + 1) = s
    BY <2>2, <2>3, Zenon
  <2> QED BY <2>2, <2>3, <2>4, TextParts
<1>4. Span(t, {Blank}) = 1
  <2>1. 1 \in 0 .. Len(t) /\ \A i \in 1 .. 1 : t[i] \in {Blank}
    BY <1>3
  <2>2. 1 < Len(t) => t[1 + 1] \notin {Blank}
    BY <1>3
  <2> QED BY <2>1, <2>2, SpanIs
<1> QED BY <1>2, <1>3, <1>4 DEF TrimLeft

LEMMA TrimRightKeeps ==
  ASSUME NEW s \in Text, s # <<>> => s[Len(s)] # Blank
  PROVE  TrimRight(s) = s
<1>1. Len(s) \in Nat /\ (Len(s) > 0 => s # <<>>)
  BY TextParts
<1> DEFINE P(n) == (n > 0 => s[n] # Blank) /\ \A i \in n + 1 .. Len(s) : s[i] = Blank
<1>2. P(Len(s)) /\ Len(s) \in 0 .. Len(s)
  BY <1>1
<1>3. ASSUME NEW n \in 0 .. Len(s), P(n) PROVE n = Len(s)
  BY <1>1, <1>2, <1>3
<1>4. TrimRight(s) = SubSeq(s, 1, CHOOSE n \in 0 .. Len(s) : P(n))
  BY DEF TrimRight
<1>5. (CHOOSE n \in 0 .. Len(s) : P(n)) = Len(s)
  <2> HIDE DEF P
  <2> QED BY <1>2, <1>3
<1>6. SubSeq(s, 1, Len(s)) = s
  BY SubSeqFull DEF Text
<1> QED BY <1>4, <1>5, <1>6

LEMMA CutBareCuts ==
  ASSUME NEW a \in Text, NEW r \in Text,
         \A i \in 1 .. Len(a) : a[i] \notin Special, r # <<>> => r[1] \in Special
  PROVE  CutBare(a \o r) = Cut(a, r)
<1>1. PICK t \in Text : t = a \o r
  BY Appended
<1>2. /\ Len(a) \in Nat /\ Len(r) \in Nat /\ Len(t) = Len(a) + Len(r) /\ (Len(r) > 0 => r # <<>>)
      /\ \A i \in 1 .. Len(a) : t[i] = a[i] /\ a[i] \in Tokens
      /\ \A i \in 1 .. Len(r) : t[Len(a) + i] = r[i]
      /\ SubSeq(t, 1, Len(a)) = a /\ From(t, Len(a) + 1) = r
  <2>1. /\ Len(a \o r) = Len(a) + Len(r) /\ (\A i \in 1 .. Len(a) : (a \o r)[i] = a[i])
        /\ (\A i \in 1 .. Len(r) : (a \o r)[Len(a) + i] = r[i])
        /\ SubSeq(a \o r, 1, Len(a)) = a /\ From(a \o r, Len(a) + 1) = r
    BY Appended, Zenon
  <2>2. SubSeq(t, 1, Len(a)) = a /\ From(t, Len(a) + 1) = r
    BY <1>1, <2>1, Zenon
  <2> QED BY <1>1, <2>1, <2>2, TextParts
<1>3. Span(t, Tokens \ Special) = Len(a)
  <2>1. Len(a) \in 0 .. Len(t) /\ \A i \in 1 .. Len(a) : t[i] \in Tokens \ Special
    BY <1>2
  <2>2. Len(a) < Len(t) => t[Len(a) + 1] \notin Tokens \ Special
    <3> SUFFICES ASSUME Len(a) < Len(t) PROVE t[Len(a) + 1] \in Special
      OBVIOUS
    <3>1. 1 \in 1 .. Len(r) /\ r # <<>>
      BY <1>2
    <3> QED BY <1>2, <3>1
  <2> QED BY <2>1, <2>2, SpanIs
<1> QED BY <1>1, <1>2, <1>3 DEF CutBare, Tokens

-----------------------------------------------------------------------------
(* KVLines: a quoted string is unquoted. *)

Esc(c) == IF c \in {Quote, Escape} THEN <<Escape, c>> ELSE <<c>>
Quoted(q, s) ==
  /\ q \in [0 .. Len(s) -> Text] /\ q[0] = <<Quote>>
  /\ \A k \in 1 .. Len(s) : q[k] = q[k - 1] \o Esc(s[k])

LEMMA CharText ==
  ASSUME NEW s \in Seq(Chars)
  PROVE  s \in Text /\ Len(s) \in Nat /\ \A i \in 1 .. Len(s) : s[i] \in Chars
BY LenProperties, ElementOfSeq, SeqMonotonic DEF Text, Tokens

LEMMA EscText ==
  ASSUME NEW c \in Chars
  PROVE  /\ Esc(c) \in Text
         /\ c \in {Quote, Escape} => Len(Esc(c)) = 2 /\ Esc(c)[1] = Escape /\ Esc(c)[2] = c
         /\ c \notin {Quote, Escape} => Len(Esc(c)) = 1 /\ Esc(c)[1] = c
<1>1. Escape \in Tokens /\ c \in Tokens
  BY DEF Tokens, Chars
<1> QED BY <1>1 DEF Esc, Text

LEMMA QuoteText == <<Quote>> \in Text /\ Len(<<Quote>>) = 1 /\ <<Quote>>[1] = Quote
BY DEF Text, Tokens, Chars

LEMMA StrconvQuoteIs ==
  ASSUME NEW s \in Seq(Chars)
  PROVE  \E q : Quoted(q, s) /\ StrconvQuote(s) = q[Len(s)] \o <<Quote>>
<1> DEFINE step == [p \in Text \X (1 .. Len(s)) |-> p[1] \o Esc(s[p[2]])]
           Defines(f) == f = [k \in 0 .. Len(s) |->
             IF k = 0 THEN <<Quote>>
             ELSE f[k - 1] \o (IF s[k] \in {Quote, Escape} THEN <<Escape, s[k]>> ELSE <<s[k]>>)]
           q == CHOOSE f : Defines(f)
<1>1. Len(s) \in Nat /\ \A i \in 1 .. Len(s) : s[i] \in Chars /\ Esc(s[i]) \in Text
  BY CharText, EscText
<1>2. step \in [Text \X (1 .. Len(s)) -> Text]
  BY <1>1, Appended
<1>3. PICK f : ByRecursion(f, Len(s), Text, <<Quote>>, step)
  <2> HIDE DEF step
  <2>1. Len(s) \in Nat /\ <<Quote>> \in Text
    BY <1>1, QuoteText
  <2> QED BY <2>1, <1>2, RecursionDefines, Zenon
<1>4. f \in [0 .. Len(s) -> Text] /\ f[0] = <<Quote>>
  <2> HIDE DEF step
  <2> QED BY <1>3 DEF ByRecursion
<1>5. ASSUME NEW k \in 1 .. Len(s) PROVE f[k] = f[k - 1] \o Esc(s[k])
  <2>1. k - 1 \in 0 .. Len(s)
    BY <1>1
  <2>2. <<f[k - 1], k>> \in Text \X (1 .. Len(s))
    BY <2>1, <1>4
  <2>3. f[k] = step[<<f[k - 1], k>>]
    <3> HIDE DEF step
    <3> QED BY <1>3 DEF ByRecursion
  <2> QED BY <2>2, <2>3
<1>6. Defines(f)
  BY <1>1, <1>4, <1>5 DEF Esc
<1>7. Defines(q)
  <2> HIDE DEF Defines
  <2> QED BY <1>6
<1>8. q[0] = <<Quote>> /\ \A k \in 1 .. Len(s) : q[k] = q[k - 1] \o Esc(s[k])
  <2> HIDE DEF q
  <2>1. q = [k \in 0 .. Len(s) |-> IF k = 0 THEN <<Quote>> ELSE q[k - 1] \o Esc(s[k])]
    BY <1>7, Zenon DEF Esc
  <2>2. 0 \in 0 .. Len(s) /\ \A k \in 1 .. Len(s) : k \in 0 .. Len(s) /\ k # 0
    BY <1>1
  <2> QED BY <2>1, <2>2
<1>9. q = f
  <2> HIDE DEF q
  <2>1. \A k \in 1 .. Len(s) : q[k - 1] = f[k - 1] => q[k] = f[k]
    BY <1>5, <1>8
  <2>2. \A k \in 0 .. Len(s) : q[k] = f[k]
    <3>1. Len(s) \in Nat /\ q[0] = f[0]
      BY <1>1, <1>4, <1>8
    <3>2. SameSteps(q, f, Len(s))
      BY <3>1, <2>1 DEF SameSteps
    <3> QED BY <3>1, <3>2, SameByInduction
  <2>3. q = [k \in 0 .. Len(s) |-> q[k]]
    BY <1>7
  <2> QED BY <1>4, <2>2, <2>3
<1>10. Quoted(q, s)
  <2> HIDE DEF q
  <2> QED BY <1>4, <1>8, <1>9 DEF Quoted
<1>11. StrconvQuote(s) = q[Len(s)] \o <<Quote>>
  BY DEF StrconvQuote
<1> HIDE DEF q
<1> QED BY <1>10, <1>11

(* What is quoted first stays where it is. *)
Grows(q, s) ==
  \A m \in 0 .. Len(s) : \A k \in 0 .. m :
    /\ Len(q[k]) \in Nat /\ Len(q[k]) > k /\ Len(q[m]) >= Len(q[k]) + m - k
    /\ \A i \in 1 .. Len(q[k]) : q[m][i] = q[k][i]

LEMMA QuotedPrefix ==
  ASSUME NEW s \in Seq(Chars), NEW q, Quoted(q, s)
  PROVE  Grows(q, s)
<1> DEFINE In(m, k) == /\ Len(q[k]) \in Nat /\ Len(q[k]) > k /\ Len(q[m]) >= Len(q[k]) + m - k
                       /\ \A i \in 1 .. Len(q[k]) : q[m][i] = q[k][i]
           T == {m \in 0 .. Len(s) : \A k \in 0 .. m : In(m, k)}
<1>1. Len(s) \in Nat /\ \A i \in 1 .. Len(s) : s[i] \in Chars
  BY CharText
<1>2. ASSUME NEW k \in 0 .. Len(s) PROVE q[k] \in Text /\ Len(q[k]) \in Nat
  <2>1. q[k] \in Text
    BY DEF Quoted
  <2> QED BY <2>1, TextParts
<1>3. 0 \in T
  <2>1. q[0] = <<Quote>> /\ Len(q[0]) = 1
    BY QuoteText DEF Quoted
  <2>2. In(0, 0)
    BY <2>1
  <2>3. \A k \in 0 .. 0 : k = 0
    OBVIOUS
  <2>4. 0 \in 0 .. Len(s)
    BY <1>1
  <2> HIDE DEF In
  <2> QED BY <2>2, <2>3, <2>4
<1>4. ASSUME NEW m \in 1 .. Len(s), m - 1 \in T PROVE m \in T
  <2>1. m - 1 \in 0 .. Len(s) /\ m \in 0 .. Len(s)
    BY <1>1
  <2>2. PICK a \in Text : a = q[m - 1]
    BY <1>2, <2>1
  <2>3. PICK b \in Text : b = Esc(s[m]) /\ Len(b) \in {1, 2}
    BY <1>1, EscText
  <2>4. q[m] = a \o b
    BY <2>2, <2>3 DEF Quoted
  <2>5. Len(a) \in Nat /\ Len(q[m]) = Len(a) + Len(b) /\ \A i \in 1 .. Len(a) : q[m][i] = a[i]
    BY <2>4, Appended, TextParts
  <2>l. PICK la \in Nat : la = Len(a)
    BY <2>5
  <2>n. Len(q[m]) \in Nat /\ Len(q[m]) > la /\ m \in Nat
    <3>1. Len(q[m]) = la + 1 \/ Len(q[m]) = la + 2
      BY <2>3, <2>5, <2>l
    <3>2. m \in Nat
      BY <1>1
    <3> QED BY <3>1, <3>2
  <2>6. ASSUME NEW k \in 0 .. m PROVE In(m, k)
    <3>1. CASE k = m
      <4>1. In(m - 1, m - 1)
        BY <1>4, <2>1
      <4>2. Len(a) > m - 1
        BY <2>2, <4>1
      <4>3. Len(q[m]) \in Nat /\ Len(q[m]) > m
        BY <2>l, <2>n, <4>2
      <4>4. In(m, m)
        BY <4>3
      <4> HIDE DEF In
      <4> QED BY <3>1, <4>4
    <3>2. CASE k # m
      <4>1. k \in 0 .. m - 1
        BY <3>2
      <4>2. In(m - 1, k)
        BY <1>4, <4>1
      <4>3. \A i \in 1 .. Len(q[k]) : i \in 1 .. Len(a)
        BY <4>1, <4>2, <2>2, <2>5
      <4>4. PICK l \in Nat : l = Len(q[k])
        BY <4>2
      <4>5. Len(a) >= l + (m - 1) - k /\ l > k
        BY <2>2, <4>2, <4>4
      <4>6. Len(q[m]) >= l + m - k
        BY <2>l, <2>n, <4>5
      <4>7. ASSUME NEW i \in 1 .. l PROVE q[m][i] = q[k][i]
        BY <2>2, <2>5, <4>2, <4>3, <4>4
      <4> QED BY <4>4, <4>5, <4>6, <4>7
    <3> QED BY <3>1, <3>2
  <2> HIDE DEF In
  <2> QED BY <2>1, <2>6
<1>5. 0 .. Len(s) \subseteq T
  <2> HIDE DEF T
  <2>1. Len(s) \in Nat
    BY <1>1
  <2> QED BY <1>3, <1>4, <2>1, InductionUpTo, Zenon
<1> QED BY <1>5 DEF Grows

IsJoin(t, a, b) ==
  /\ t \in Text /\ Len(a) \in Nat /\ Len(b) \in Nat /\ Len(t) = Len(a) + Len(b)
  /\ \A i \in 1 .. Len(a) : t[i] = a[i]
  /\ \A i \in 1 .. Len(b) : t[Len(a) + i] = b[i]
  /\ SubSeq(t, 1, Len(a)) = a /\ From(t, Len(a) + 1) = b

LEMMA Joined == ASSUME NEW a \in Text, NEW b \in Text PROVE IsJoin(a \o b, a, b)
BY Appended, TextParts, Zenon DEF IsJoin

(* Where the characters of a quoted string are: pos[k] after the k-th. *)
QuotedAt(t, pos, v, r) ==
  /\ t \in Text /\ Len(v) \in Nat /\ pos \in [0 .. Len(v) -> Nat]
  /\ Len(t) >= pos[Len(v)] /\ t[pos[Len(v)]] = Quote /\ From(t, pos[Len(v)] + 1) = r
  /\ pos[0] = 2
  /\ \A k \in 0 .. Len(v) : pos[k] > k /\ k <= Len(t)
  /\ \A k \in 1 .. Len(v) : v[k] \in {Quote, Escape} =>
       t[pos[k - 1]] = Escape /\ t[pos[k - 1] + 1] = v[k] /\ pos[k] = pos[k - 1] + 2
  /\ \A k \in 1 .. Len(v) : v[k] \notin {Quote, Escape} =>
       t[pos[k - 1]] = v[k] /\ pos[k] = pos[k - 1] + 1
  /\ \A k \in 1 .. Len(v) : pos[k - 1] <= Len(t) /\ pos[k - 1] < pos[Len(v)]

LEMMA QuotedPositions ==
  ASSUME NEW v \in Seq(Chars), NEW r \in Text, NEW q, Quoted(q, v)
  PROVE  \E pos : QuotedAt((q[Len(v)] \o <<Quote>>) \o r, pos, v, r)
<1>0. PICK pos : pos = [k \in 0 .. Len(v) |-> Len(q[k]) + 1]
  OBVIOUS
<1>1. PICK n \in Nat : n = Len(v)
  BY CharText
<1>2. ASSUME NEW k \in 0 .. n
      PROVE  q[k] \in Text /\ Len(q[k]) \in Nat /\ pos[k] = Len(q[k]) + 1 /\ pos[k] \in Nat
  <2>1. q[k] \in Text
    BY <1>1 DEF Quoted
  <2> QED BY <1>0, <1>1, <2>1, TextParts
<1>z. n \in 0 .. n
  OBVIOUS
<1>3. PICK a \in Text : a = q[n]
  BY <1>2, <1>z
<1>4. PICK b \in Text : b = <<Quote>>
  BY QuoteText
<1>5. PICK ab \in Text : ab = a \o b
  BY Appended
<1>6. PICK t \in Text : t = ab \o r
  BY Appended
<1>7. /\ Len(ab) = Len(a) + 1 /\ \A i \in 1 .. Len(a) : ab[i] = a[i]
      /\ ab[Len(a) + 1] = Quote /\ Len(a) \in Nat
  <2>1. Len(b) = 1 /\ b[1] = Quote
    BY <1>4, QuoteText
  <2>2. IsJoin(ab, a, b)
    BY <1>5, Joined, Zenon
  <2> QED BY <2>1, <2>2 DEF IsJoin
<1>8. PICK la \in Nat : la = Len(a)
  BY <1>7
<1>9. PICK lr \in Nat : lr = Len(r)
  BY TextParts
<1>10. /\ t \in Text /\ Len(t) = la + 1 + lr /\ t[la + 1] = Quote
       /\ \A i \in 1 .. la : t[i] = a[i]
  <2>1. /\ t \in Text /\ Len(t) = Len(ab) + Len(r) /\ \A i \in 1 .. Len(ab) : t[i] = ab[i]
    <3>1. IsJoin(t, ab, r)
      BY <1>6, Joined, Zenon
    <3> QED BY <3>1 DEF IsJoin
  <2>2. Len(ab) = la + 1 /\ Len(r) = lr /\ ab[la + 1] = Quote /\ \A i \in 1 .. la : ab[i] = a[i]
    BY <1>7, <1>8, <1>9
  <2>3. la + 1 \in 1 .. Len(ab) /\ \A i \in 1 .. la : i \in 1 .. Len(ab)
    BY <2>2
  <2> QED BY <2>1, <2>2, <2>3
<1>11. From(t, la + 2) = r
  <2>1. From(ab \o r, Len(ab) + 1) = r
    BY Appended, Zenon
  <2>2. Len(ab) + 1 = la + 2
    BY <1>7, <1>8
  <2> QED BY <1>6, <2>1, <2>2
<1>12. \A k \in 0 .. n : /\ Len(q[k]) > k /\ la >= Len(q[k]) + n - k
                         /\ \A i \in 1 .. Len(q[k]) : a[i] = q[k][i]
  <2>1. n \in 0 .. Len(v)
    BY <1>1
  <2>2. \A k \in 0 .. n :
           /\ Len(q[k]) \in Nat /\ Len(q[k]) > k /\ Len(q[n]) >= Len(q[k]) + n - k
           /\ \A i \in 1 .. Len(q[k]) : q[n][i] = q[k][i]
    <3>1. \A m \in 0 .. Len(v) : \A k \in 0 .. m :
           /\ Len(q[k]) \in Nat /\ Len(q[k]) > k /\ Len(q[m]) >= Len(q[k]) + m - k
           /\ \A i \in 1 .. Len(q[k]) : q[m][i] = q[k][i]
      BY QuotedPrefix DEF Grows
    <3> QED BY <2>1, <3>1, Zenon
  <2> QED BY <1>3, <1>8, <2>2
<1>13. n \in 0 .. n /\ pos[n] = la + 1
  BY <1>2, <1>3, <1>8
<1>14. pos[0] = 2
  <2>1. 0 \in 0 .. n /\ q[0] = <<Quote>>
    BY DEF Quoted
  <2>2. Len(q[0]) = 1
    BY <2>1, QuoteText
  <2>3. pos[0] = Len(q[0]) + 1
    BY <1>2, <2>1
  <2> QED BY <2>2, <2>3
<1>15. ASSUME NEW k \in 0 .. n PROVE pos[k] > k /\ k <= Len(t) /\ pos[k] + n - k <= pos[n]
  <2>1. PICK l \in Nat : l = Len(q[k])
    BY <1>2
  <2>2. l > k /\ la >= l + n - k
    BY <1>12, <2>1
  <2>3. pos[k] = l + 1 /\ pos[n] = la + 1 /\ Len(t) = la + 1 + lr
    BY <1>2, <1>10, <1>13, <2>1
  <2> QED BY <2>2, <2>3
<1>16. ASSUME NEW k \in 1 .. n
       PROVE  /\ v[k] \in {Quote, Escape} =>
                   t[pos[k - 1]] = Escape /\ t[pos[k - 1] + 1] = v[k] /\ pos[k] = pos[k - 1] + 2
              /\ v[k] \notin {Quote, Escape} =>
                   t[pos[k - 1]] = v[k] /\ pos[k] = pos[k - 1] + 1
              /\ pos[k - 1] <= Len(t) /\ pos[k - 1] < pos[n]
  <2>1. k - 1 \in 0 .. n /\ k \in 0 .. n
    OBVIOUS
  <2>2. PICK x \in Text : x = q[k - 1]
    BY <1>2, <2>1
  <2>3. PICK c \in Chars : c = v[k]
    BY <1>1, CharText
  <2>4. PICK e \in Text : e = Esc(c)
    BY EscText
  <2>5. q[k] = x \o e
    BY <1>1, <2>2, <2>3, <2>4 DEF Quoted
  <2>6. PICK lx \in Nat : lx = Len(x) /\ pos[k - 1] = lx + 1
    BY <1>2, <2>1, <2>2
  <2>7. Len(q[k]) = lx + Len(e) /\ \A i \in 1 .. Len(e) : q[k][lx + i] = e[i]
    BY <2>5, <2>6, Appended
  <2>8. PICK le \in Nat : le = Len(e)
    BY TextParts
  <2>9. la >= lx + le /\ \A i \in 1 .. lx + le : a[i] = q[k][i]
    <3>1. Len(q[k]) = lx + le
      BY <2>7, <2>8
    <3>2. la >= Len(q[k]) + n - k /\ \A i \in 1 .. Len(q[k]) : a[i] = q[k][i]
      BY <1>12, <2>1
    <3> QED BY <3>1, <3>2
  <2>10. ASSUME NEW i \in 1 .. le PROVE t[lx + i] = e[i]
    <3>1. lx + i \in 1 .. la /\ lx + i \in 1 .. lx + le
      BY <2>9
    <3> QED BY <1>10, <2>7, <2>8, <2>9, <3>1
  <2>11. pos[k] = lx + le + 1
    BY <1>2, <2>1, <2>7, <2>8
  <2>12. pos[k - 1] < pos[n] /\ pos[k - 1] <= Len(t)
    <3>1. pos[k - 1] + n - (k - 1) <= pos[n]
      BY <1>15, <2>1
    <3>2. Len(t) = la + 1 + lr /\ pos[n] = la + 1 /\ pos[k - 1] = lx + 1
      BY <1>10, <1>13, <2>6
    <3> QED BY <3>1, <3>2
  <2>13. CASE c \in {Quote, Escape}
    <3>1. le = 2 /\ e[1] = Escape /\ e[2] = c
      BY <2>4, <2>8, <2>13, EscText
    <3>2. 1 \in 1 .. le /\ 2 \in 1 .. le
      BY <3>1
    <3>3. t[lx + 1] = Escape /\ t[lx + 2] = c
      BY <2>10, <3>1, <3>2
    <3>4. pos[k - 1] = lx + 1 /\ pos[k - 1] + 1 = lx + 2 /\ pos[k] = pos[k - 1] + 2
      BY <2>6, <2>11, <3>1
    <3> QED BY <2>3, <2>12, <2>13, <3>3, <3>4
  <2>14. CASE c \notin {Quote, Escape}
    <3>1. le = 1 /\ e[1] = c
      BY <2>4, <2>8, <2>14, EscText
    <3>2. 1 \in 1 .. le
      BY <3>1
    <3>3. t[lx + 1] = c
      BY <2>10, <3>1, <3>2
    <3>4. pos[k - 1] = lx + 1 /\ pos[k] = pos[k - 1] + 1
      BY <2>6, <2>11, <3>1
    <3> QED BY <2>3, <2>12, <2>14, <3>3, <3>4
  <2> QED BY <2>13, <2>14
<1>17. From(t, pos[n] + 1) = r /\ t[pos[n]] = Quote /\ Len(t) >= pos[n]
  <2>1. pos[n] + 1 = la + 2
    BY <1>13
  <2>2. Len(t) >= la + 1
    BY <1>10
  <2> QED BY <1>10, <1>11, <1>13, <2>1, <2>2
<1>18. pos \in [0 .. n -> Nat]
  <2>1. pos = [k \in 0 .. n |-> Len(q[k]) + 1]
    BY <1>0, <1>1
  <2>2. \A k \in 0 .. n : Len(q[k]) + 1 \in Nat
    BY <1>2
  <2> QED BY <2>1, <2>2
<1>19. t = (q[Len(v)] \o <<Quote>>) \o r
  BY <1>1, <1>3, <1>4, <1>5, <1>6
<1>20. QuotedAt(t, pos, v, r)
  BY <1>1, <1>10, <1>14, <1>15, <1>16, <1>17, <1>18 DEF QuotedAt
<1> QED BY <1>19, <1>20

(* A string that is quoted is cut off what follows it. *)
LEMMA CutQuotedCuts ==
  ASSUME NEW v \in Seq(Chars), NEW r \in Text
  PROVE  CutQuoted(StrconvQuote(v) \o r) = Cut(v, r)
<1>1. PICK q : Quoted(q, v) /\ StrconvQuote(v) = q[Len(v)] \o <<Quote>>
  BY StrconvQuoteIs
<1>2. PICK t : t = (q[Len(v)] \o <<Quote>>) \o r
  OBVIOUS
<1>3. PICK pos : QuotedAt(t, pos, v, r)
  BY <1>1, <1>2, QuotedPositions
<1>4. PICK N \in Nat : N = Len(v)
  BY CharText
<1>5. /\ t \in Text /\ pos \in [0 .. N -> Nat]
      /\ Len(t) >= pos[N] /\ t[pos[N]] = Quote /\ From(t, pos[N] + 1) = r
      /\ pos[0] = 2 
      /\ \A k \in 0 .. N : pos[k] > k /\ k <= Len(t)
      /\ \A k \in 1 .. N : v[k] \in {Quote, Escape} =>
           t[pos[k - 1]] = Escape /\ t[pos[k - 1] + 1] = v[k] /\ pos[k] = pos[k - 1] + 2
      /\ \A k \in 1 .. N : v[k] \notin {Quote, Escape} =>
           t[pos[k - 1]] = v[k] /\ pos[k] = pos[k - 1] + 1
      /\ \A k \in 1 .. N : pos[k - 1] <= Len(t) /\ pos[k - 1] < pos[N]
  BY <1>3, <1>4 DEF QuotedAt
<1>6. PICK L \in Nat : L = Len(t)
  BY <1>5, TextParts
<1> DEFINE Next1(e) == IF e > L \/ t[e] = Quote THEN e ELSE IF t[e] = Escape THEN e + 2 ELSE e + 1
           Defines(f) == f = [k \in 0 .. L |-> IF k = 0 THEN 2 ELSE Next1(f[k - 1])]
           end == CHOOSE f : Defines(f)
           last == end[L]
           n == CHOOSE n \in 0 .. L : end[n] = last /\ \A k \in 0 .. n - 1 : end[k] # last
           tok == [k \in 1 .. n |-> t[end[k - 1] + (IF t[end[k - 1]] = Escape THEN 1 ELSE 0)]]
           e0 == [k \in 0 .. L |-> IF k <= N THEN pos[k] ELSE pos[N]]
<1>7. CutQuoted(t) = IF last > L THEN Failed ELSE Cut(tok, From(t, last + 1))
  BY <1>6 DEF CutQuoted
<1>8. N <= L /\ pos[N] \in Nat /\ pos[N] <= L
  BY <1>5, <1>6
<1>9. ASSUME NEW k \in 1 .. N PROVE Next1(pos[k - 1]) = pos[k]
  <2>0. k - 1 \in 0 .. N /\ k \in 0 .. N
    OBVIOUS
  <2>1. pos[k - 1] \in Nat /\ pos[k] \in Nat /\ ~(pos[k - 1] > L)
    BY <1>5, <1>6, <2>0
  <2>2. CASE v[k] \in {Quote, Escape}
    BY <1>5, <2>1, <2>2, CharsDiffer
  <2>3. CASE v[k] \notin {Quote, Escape}
    BY <1>5, <2>1, <2>3
  <2> QED BY <2>2, <2>3
<1>10. Next1(pos[N]) = pos[N]
  BY <1>5, <1>8
<1>11. Defines(e0)
  <2>1. ASSUME NEW k \in 0 .. L PROVE e0[k] = IF k = 0 THEN 2 ELSE Next1(e0[k - 1])
    <3> HIDE DEF Next1
    <3>1. CASE k = 0
      BY <1>5, <3>1
    <3>2. CASE k # 0 /\ k <= N
      <4>1. k \in 1 .. N /\ e0[k] = pos[k] /\ e0[k - 1] = pos[k - 1]
        BY <3>2
      <4> QED BY <1>9, <3>2, <4>1
    <3>3. CASE k > N
      <4>1. k - 1 \in 0 .. L /\ e0[k] = pos[N]
        BY <3>3
      <4>2. e0[k - 1] = pos[N]
        BY <3>3, <4>1
      <4> QED BY <1>10, <3>3, <4>1, <4>2
    <3> QED BY <3>1, <3>2, <3>3
  <2> HIDE DEF Next1
  <2> QED BY <2>1
<1>12. Defines(end)
  <2> HIDE DEF Defines, e0
  <2> QED BY <1>11
<1>13. \A k \in 0 .. L : end[k] = e0[k]
  <2> HIDE DEF Next1, end, e0
  <2>1. end[0] = e0[0] /\ \A k \in 1 .. L : end[k - 1] = e0[k - 1] => end[k] = e0[k]
    BY <1>11, <1>12
  <2>2. end[0] = e0[0]
    BY <2>1
  <2>3. \A k \in 1 .. L : end[k - 1] = e0[k - 1] => end[k] = e0[k]
    BY <2>1
  <2>4. \A k \in 0 .. L : end[k] = e0[k]
    <3>1. SameSteps(end, e0, L)
      BY <2>2, <2>3 DEF SameSteps
    <3> QED BY <3>1, SameByInduction
  <2> QED BY <2>4
<1>14. \A k \in 0 .. N : end[k] = pos[k]
  <2> HIDE DEF end
  <2> QED BY <1>8, <1>13
<1>15. last = pos[N]
  <2>1. end[L] = e0[L] /\ e0[L] = pos[N]
    <3> HIDE DEF end
    <3> QED BY <1>8, <1>13
  <2> QED BY <2>1
<1>16. n = N
  <2> DEFINE P(m) == end[m] = last /\ \A k \in 0 .. m - 1 : end[k] # last
  <2>1. P(N) /\ N \in 0 .. L
    <3> HIDE DEF last, end
    <3>1. ASSUME NEW k \in 0 .. N - 1 PROVE end[k] # last
      <4>1. k + 1 \in 1 .. N /\ (k + 1) - 1 = k /\ k \in 0 .. N
        OBVIOUS
      <4>2. pos[k] < pos[N]
        BY <1>5, <4>1
      <4> QED BY <1>5, <1>14, <1>15, <4>1, <4>2
    <3> QED BY <1>8, <1>14, <1>15, <3>1
  <2>2. ASSUME NEW m \in 0 .. L, P(m) PROVE m = N
    <3> HIDE DEF last, end
    <3>1. ~(m < N)
      BY <2>1, <2>2
    <3>2. ~(N < m)
      BY <2>1, <2>2
    <3> QED BY <3>1, <3>2
  <2>3. n = CHOOSE m \in 0 .. L : P(m)
    OBVIOUS
  <2> HIDE DEF P, n, last, end
  <2> QED BY <2>1, <2>2, <2>3
<1>17. tok = v
  <2> HIDE DEF n, end, last
  <2>1. ASSUME NEW k \in 1 .. N
        PROVE  t[end[k - 1] + (IF t[end[k - 1]] = Escape THEN 1 ELSE 0)] = v[k]
    <3>1. k - 1 \in 0 .. N /\ end[k - 1] = pos[k - 1] /\ pos[k - 1] \in Nat
      BY <1>5, <1>14
    <3>2. CASE v[k] \in {Quote, Escape}
      BY <1>5, <3>1, <3>2
    <3>3. CASE v[k] \notin {Quote, Escape}
      <4>1. t[pos[k - 1]] = v[k] /\ v[k] # Escape
        BY <1>5, <3>3
      <4>2. pos[k - 1] + 0 = pos[k - 1]
        BY <3>1
      <4> QED BY <3>1, <4>1, <4>2
    <3> QED BY <3>2, <3>3
  <2>2. tok = [k \in 1 .. N |-> v[k]]
    BY <1>16, <2>1
  <2>3. v = [k \in 1 .. N |-> v[k]]
    BY <1>4, LenProperties
  <2> QED BY <2>2, <2>3
<1> HIDE DEF tok, last
<1>18. From(t, last + 1) = r
  BY <1>5, <1>15
<1>19. CutQuoted(t) = Cut(v, r)
  <2>1. ~(last > L)
    BY <1>8, <1>15
  <2> QED BY <1>7, <1>17, <1>18, <2>1
<1> QED BY <1>1, <1>2, <1>19

LEMMA StrconvQuoteText ==
  ASSUME NEW v \in Seq(Chars)
  PROVE  LET t == StrconvQuote(v) IN
         t \in Text /\ Len(t) \in Nat /\ Len(t) > 0 /\ t[1] = Quote /\ t[Len(t)] = Quote
<1>1. PICK q : Quoted(q, v) /\ StrconvQuote(v) = q[Len(v)] \o <<Quote>>
  BY StrconvQuoteIs
<1>2. PICK n \in Nat : n = Len(v)
  BY CharText
<1>3. PICK a \in Text : a = q[n]
  <2>1. n \in 0 .. n
    OBVIOUS
  <2> QED BY <1>1, <1>2, <2>1 DEF Quoted
<1>4. PICK b \in Text : b = <<Quote>> /\ Len(b) = 1 /\ b[1] = Quote
  BY QuoteText
<1>5. PICK t : t = a \o b
  OBVIOUS
<1>6. IsJoin(t, a, b)
  BY <1>5, Joined, Zenon
<1>7. Len(a) > 0 /\ a[1] = Quote
  <2>1. n \in 0 .. Len(v) /\ 0 \in 0 .. n
    BY <1>2
  <2>2. Grows(q, v)
    BY <1>1, QuotedPrefix
  <2>3. Len(a) >= Len(q[0]) + n - 0 /\ \A i \in 1 .. Len(q[0]) : a[i] = q[0][i]
    BY <1>3, <2>1, <2>2 DEF Grows
  <2>4. Len(q[0]) = 1 /\ q[0][1] = Quote
    BY <1>1, QuoteText DEF Quoted
  <2>5. 1 \in 1 .. Len(q[0])
    BY <2>4
  <2> QED BY <2>3, <2>4, <2>5
<1>8. t \in Text /\ Len(t) \in Nat /\ Len(t) > 0 /\ t[1] = Quote /\ t[Len(t)] = Quote
  <2>1. 1 \in 1 .. Len(a) /\ 1 \in 1 .. Len(b)
    BY <1>4, <1>6, <1>7 DEF IsJoin
  <2> QED BY <1>4, <1>6, <1>7, <2>1 DEF IsJoin
<1> QED BY <1>1, <1>2, <1>3, <1>4, <1>5, <1>8

LEMMA QuoteStrText ==
  ASSUME NEW v \in Seq(Chars)
  PROVE  LET t == QuoteStr(v) IN
         /\ t \in Text /\ Len(t) \in Nat /\ (v = <<>> => t = <<>>)
         /\ v # <<>> => Len(t) > 0 /\ t[1] \notin {Blank, Mark} /\ t[Len(t)] # Blank
<1>1. v \in Text /\ Len(v) \in Nat /\ (v = <<>> <=> Len(v) = 0)
  BY CharText, TextParts
<1>2. CASE \A i \in 1 .. Len(v) : IsBareRune(v[i])
  <2>1. QuoteStr(v) = v
    BY <1>2 DEF QuoteStr
  <2>2. v # <<>> => Len(v) > 0 /\ v[1] = Bare /\ v[Len(v)] = Bare
    BY <1>1, <1>2 DEF IsBareRune
  <2> QED BY <1>1, <2>1, <2>2, CharsDiffer
<1>3. CASE ~ \A i \in 1 .. Len(v) : IsBareRune(v[i])
  <2>1. QuoteStr(v) = StrconvQuote(v) /\ v # <<>>
    BY <1>1, <1>3 DEF QuoteStr
  <2> QED BY <2>1, StrconvQuoteText, CharsDiffer
<1> QED BY <1>2, <1>3

(* A value is read back, when a character that ends it, or nothing, follows. *)
LEMMA CutValueCuts ==
  ASSUME NEW v \in Seq(Chars), v # <<>>, NEW r \in Text, r # <<>> => r[1] \in Special
  PROVE  /\ CutValue(QuoteStr(v) \o r) = Cut(v, r)
         /\ CutValue(<<Blank>> \o (QuoteStr(v) \o r)) = Cut(v, r)
<1>1. PICK a \in Text : a = QuoteStr(v) /\ Len(a) > 0 /\ a[1] \notin {Blank, Mark} /\ Len(a) \in Nat
  BY QuoteStrText
<1>2. PICK s : s = a \o r
  OBVIOUS
<1>3. IsJoin(s, a, r)
  BY <1>2, Joined, Zenon
<1>4. s \in Text /\ s # <<>> /\ s[1] = a[1]
  <2>1. 1 \in 1 .. Len(a)
    BY <1>1
  <2>2. s \in Text /\ s[1] = a[1] /\ Len(s) > 0
    BY <1>1, <1>3, <2>1 DEF IsJoin
  <2> QED BY <2>2, TextParts
<1>5. TrimLeft(s) = s /\ TrimLeft(<<Blank>> \o s) = s
  BY <1>1, <1>4, TrimLeftKeeps, TrimLeftCuts
<1> DEFINE Value == IF s[1] = Quote THEN CutQuoted(s)
                    ELSE IF CutBare(s).tok = <<>> THEN Failed ELSE CutBare(s)
<1>6. CutValue(s) = Value /\ CutValue(<<Blank>> \o s) = Value
  BY <1>4, <1>5, Zenon DEF CutValue
<1>7. Value = Cut(v, r)
  <2>1. CASE \A i \in 1 .. Len(v) : IsBareRune(v[i])
    <3>1. a = v /\ v \in Text /\ Len(v) = Len(a)
      BY <1>1, <2>1, CharText DEF QuoteStr
    <3>2. \A i \in 1 .. Len(v) : v[i] = Bare
      BY <2>1 DEF IsBareRune
    <3>3. s[1] # Quote
      BY <1>1, <1>4, <3>1, <3>2, CharsDiffer
    <3>4. \A i \in 1 .. Len(v) : v[i] \notin Special
      BY <3>2, CharsDiffer
    <3>5. CutBare(v \o r) = Cut(v, r)
      BY <3>1, <3>4, CutBareCuts
    <3>6. CutBare(s) = Cut(v, r) /\ Cut(v, r).tok = v
      BY <1>2, <3>1, <3>5 DEF Cut
    <3> QED BY <3>3, <3>6
  <2>2. CASE ~ \A i \in 1 .. Len(v) : IsBareRune(v[i])
    <3>1. a = StrconvQuote(v)
      BY <1>1, <2>2 DEF QuoteStr
    <3>2. s[1] = Quote
      BY <1>4, <3>1, StrconvQuoteText
    <3>3. CutQuoted(s) = Cut(v, r)
      BY <1>2, <3>1, CutQuotedCuts
    <3> QED BY <3>2, <3>3
  <2> QED BY <2>1, <2>2
<1> QED BY <1>1, <1>2, <1>6, <1>7

-----------------------------------------------------------------------------
(* KVLines: the line of an object, from the left and from the right. *)

Obj == [key : Seq(Chars), props : [1 .. Len(Props) -> Seq(Chars)], comment : Seq(Chars)]
PropText(o, p) == <<Blank, Props[p], Equal>> \o QuoteStr(o.props[p])
CommentText(o) == IF o.comment = <<>> THEN <<>> ELSE <<Blank, Mark, Blank>> \o o.comment
KeyText(o) == <<ObjName, Blank>> \o QuoteStr(o.key)

LEMMA TextsAssociate ==
  ASSUME NEW a \in Text, NEW b \in Text, NEW c \in Text
  PROVE  Associates(a, b, c)
BY JoinAssociates DEF Text

LEMMA Short ==
  /\ \A x \in Tokens : <<x>> \in Text /\ Len(<<x>>) = 1 /\ <<x>>[1] = x /\ <<x>> # <<>>
  /\ \A x, y \in Tokens : <<x, y>> = <<x>> \o <<y>>
  /\ \A x, y, z \in Tokens : <<x, y, z>> = <<x>> \o <<y, z>>
  /\ \A x, y \in Tokens : <<x, y>> \in Text
  /\ \A x, y, z \in Tokens : <<x, y, z>> \in Text
  /\ Blank \in Tokens /\ Mark \in Tokens /\ Equal \in Tokens /\ ObjName \in Tokens
  /\ \A p \in 1 .. Len(Props) : Props[p] \in Tokens
  /\ <<>> \in Text
<1>1. /\ Blank \in Tokens /\ Mark \in Tokens /\ Equal \in Tokens /\ ObjName \in Tokens
      /\ \A p \in 1 .. Len(Props) : Props[p] \in Tokens
  BY NamesAreNotChars DEF Tokens, Chars
<1>2. /\ \A x \in Tokens : <<x>> \in Text /\ Len(<<x>>) = 1 /\ <<x>>[1] = x /\ <<x>> # <<>>
      /\ \A x, y \in Tokens : <<x, y>> \in Text
      /\ \A x, y, z \in Tokens : <<x, y, z>> \in Text
      /\ <<>> \in Text
  BY DEF Text
<1>3. ASSUME NEW x \in Tokens, NEW y \in Tokens PROVE <<x, y>> = <<x>> \o <<y>>
  <2>1. PICK a \in Text : a = <<x>> /\ Len(a) = 1 /\ a[1] = x
    BY <1>2
  <2>2. PICK b \in Text : b = <<y>> /\ Len(b) = 1 /\ b[1] = y
    BY <1>2
  <2>3. PICK s \in Text : s = <<x, y>> /\ Len(s) = 2 /\ s[1] = x /\ s[2] = y
    BY <1>2
  <2>4. PICK t : t = a \o b
    OBVIOUS
  <2>5. IsJoin(t, a, b)
    BY <2>4, Joined, Zenon
  <2>6. t \in Text /\ Len(t) = 2 /\ t[1] = x /\ t[2] = y
    <3>1. 1 \in 1 .. Len(a) /\ 1 \in 1 .. Len(b)
      BY <2>1, <2>2
    <3>2. t[Len(a) + 1] = b[1] /\ t[1] = a[1]
      BY <2>5, <3>1 DEF IsJoin
    <3>3. Len(a) + 1 = 2
      BY <2>1
    <3> QED BY <2>1, <2>2, <2>5, <3>2, <3>3 DEF IsJoin
  <2>7. \A i \in 1 .. Len(s) : s[i] = t[i]
    BY <2>3, <2>6
  <2>8. s = t
    BY <2>3, <2>6, <2>7, SeqEqual DEF Text
  <2> QED BY <2>1, <2>2, <2>3, <2>4, <2>8
<1>4. ASSUME NEW x \in Tokens, NEW y \in Tokens, NEW z \in Tokens
      PROVE  <<x, y, z>> = <<x>> \o <<y, z>>
  <2>1. PICK a \in Text : a = <<x>> /\ Len(a) = 1 /\ a[1] = x
    BY <1>2
  <2>2. PICK b \in Text : b = <<y, z>> /\ Len(b) = 2 /\ b[1] = y /\ b[2] = z
    BY <1>2
  <2>3. PICK s \in Text : s = <<x, y, z>> /\ Len(s) = 3 /\ s[1] = x /\ s[2] = y /\ s[3] = z
    BY <1>2
  <2>4. PICK t : t = a \o b
    OBVIOUS
  <2>5. IsJoin(t, a, b)
    BY <2>4, Joined, Zenon
  <2>6. t \in Text /\ Len(t) = 3 /\ t[1] = x /\ t[2] = y /\ t[3] = z
    <3>1. 1 \in 1 .. Len(a) /\ 1 \in 1 .. Len(b) /\ 2 \in 1 .. Len(b)
      BY <2>1, <2>2
    <3>2. t[Len(a) + 1] = b[1] /\ t[Len(a) + 2] = b[2] /\ t[1] = a[1]
      BY <2>5, <3>1 DEF IsJoin
    <3>3. Len(a) + 1 = 2 /\ Len(a) + 2 = 3
      BY <2>1
    <3> QED BY <2>1, <2>2, <2>5, <3>2, <3>3 DEF IsJoin
  <2>7. \A i \in 1 .. Len(s) : s[i] = t[i]
    BY <2>3, <2>6
  <2>8. s = t
    BY <2>3, <2>6, <2>7, SeqEqual DEF Text
  <2> QED BY <2>1, <2>2, <2>3, <2>4, <2>8
<1> QED BY <1>1, <1>2, <1>3, <1>4

LEMMA ObjTexts ==
  ASSUME NEW o \in Obj
  PROVE  /\ o.key \in Seq(Chars) /\ o.comment \in Seq(Chars) /\ QuoteStr(o.key) \in Text
         /\ KeyText(o) \in Text /\ CommentText(o) \in Text
         /\ \A p \in 1 .. Len(Props) : /\ o.props[p] \in Seq(Chars) /\ QuoteStr(o.props[p]) \in Text
                                       /\ PropText(o, p) \in Text
<1>1. /\ o.key \in Seq(Chars) /\ o.comment \in Seq(Chars)
      /\ \A p \in 1 .. Len(Props) : o.props[p] \in Seq(Chars)
  BY DEF Obj
<1>2. /\ QuoteStr(o.key) \in Text /\ o.comment \in Text
      /\ \A p \in 1 .. Len(Props) : QuoteStr(o.props[p]) \in Text
  BY <1>1, QuoteStrText, CharText
<1>3. /\ <<ObjName, Blank>> \in Text /\ <<Blank, Mark, Blank>> \in Text /\ <<>> \in Text
      /\ \A p \in 1 .. Len(Props) : <<Blank, Props[p], Equal>> \in Text
  BY Short
<1>4. KeyText(o) \in Text /\ CommentText(o) \in Text
  BY <1>2, <1>3, Appended, Zenon DEF KeyText, CommentText
<1>5. \A p \in 1 .. Len(Props) : PropText(o, p) \in Text
  BY <1>2, <1>3, Appended, Zenon DEF PropText
<1> QED BY <1>1, <1>2, <1>4, <1>5

Lines(line, o) ==
  /\ line \in [0 .. Len(Props) -> Text] /\ line[0] = KeyText(o)
  /\ \A p \in 1 .. Len(Props) : line[p] = line[p - 1] \o PropText(o, p)

LEMMA EncodeObjIs ==
  ASSUME NEW o \in Obj
  PROVE  \E line : Lines(line, o) /\ EncodeObj(o) = line[Len(Props)] \o CommentText(o)
<1> DEFINE step == [s \in Text \X (1 .. Len(Props)) |-> s[1] \o PropText(o, s[2])]
           Defines(f) == f = [p \in 0 .. Len(Props) |->
             IF p = 0 THEN <<ObjName, Blank>> \o QuoteStr(o.key)
             ELSE f[p - 1] \o (<<Blank, Props[p], Equal>> \o QuoteStr(o.props[p]))]
           line == CHOOSE f : Defines(f)
<1>1. Len(Props) \in Nat
  BY NamesAreNotChars
<1>2. step \in [Text \X (1 .. Len(Props)) -> Text]
  BY ObjTexts, Appended
<1>3. PICK f : ByRecursion(f, Len(Props), Text, KeyText(o), step)
  <2> HIDE DEF step
  <2>1. KeyText(o) \in Text
    BY ObjTexts
  <2> QED BY <1>1, <2>1, <1>2, RecursionDefines, Zenon
<1>4. f \in [0 .. Len(Props) -> Text] /\ f[0] = KeyText(o)
  <2> HIDE DEF step
  <2> QED BY <1>3 DEF ByRecursion
<1>5. ASSUME NEW p \in 1 .. Len(Props) PROVE f[p] = f[p - 1] \o PropText(o, p)
  <2>1. p - 1 \in 0 .. Len(Props)
    BY <1>1
  <2>2. <<f[p - 1], p>> \in Text \X (1 .. Len(Props))
    BY <2>1, <1>4
  <2>3. f[p] = step[<<f[p - 1], p>>]
    <3> HIDE DEF step
    <3> QED BY <1>3 DEF ByRecursion
  <2> QED BY <2>2, <2>3
<1>6. Defines(f)
  <2>1. \A p \in 0 .. Len(Props) : p # 0 => p \in 1 .. Len(Props)
    BY <1>1
  <2>2. f = [p \in 0 .. Len(Props) |-> IF p = 0 THEN KeyText(o) ELSE f[p - 1] \o PropText(o, p)]
    BY <1>4, <1>5, <2>1
  <2> QED BY <2>2, Zenon DEF KeyText, PropText
<1>7. Defines(line)
  <2> HIDE DEF Defines
  <2> QED BY <1>6
<1>8. line = [p \in 0 .. Len(Props) |-> IF p = 0 THEN KeyText(o) ELSE line[p - 1] \o PropText(o, p)]
  <2> HIDE DEF line
  <2> QED BY <1>7, Zenon DEF KeyText, PropText
<1>9. line[0] = KeyText(o) /\ \A p \in 1 .. Len(Props) : line[p] = line[p - 1] \o PropText(o, p)
  <2> HIDE DEF line
  <2>1. 0 \in 0 .. Len(Props)
    BY <1>1
  <2>2. line[0] = KeyText(o)
    BY <1>8, <2>1
  <2>3. ASSUME NEW p \in 1 .. Len(Props) PROVE line[p] = line[p - 1] \o PropText(o, p)
    <3>1. p \in 0 .. Len(Props) /\ p # 0
      BY <1>1
    <3> QED BY <1>8, <3>1
  <2> QED BY <2>2, <2>3
<1>10. line = f
  <2> HIDE DEF line
  <2>1. \A p \in 1 .. Len(Props) : line[p - 1] = f[p - 1] => line[p] = f[p]
    BY <1>5, <1>9
  <2>2. \A p \in 0 .. Len(Props) : line[p] = f[p]
    <3>1. line[0] = f[0]
      BY <1>4, <1>9
    <3>2. SameSteps(line, f, Len(Props))
      BY <3>1, <2>1 DEF SameSteps
    <3> QED BY <1>1, <3>2, SameByInduction
  <2>3. line = [p \in 0 .. Len(Props) |-> line[p]]
    BY <1>8
  <2> QED BY <1>4, <2>2, <2>3
<1>11. Lines(line, o)
  <2> HIDE DEF line
  <2> QED BY <1>4, <1>9, <1>10 DEF Lines
<1>12. EncodeObj(o) = line[Len(Props)] \o CommentText(o)
  BY DEF EncodeObj, CommentText
<1> HIDE DEF line
<1> QED BY <1>11, <1>12

(* The rest of the line after each property. *)
Rests(rest, o) ==
  /\ rest \in [0 .. Len(Props) -> Text] /\ rest[Len(Props)] = CommentText(o)
  /\ \A p \in 1 .. Len(Props) : rest[p - 1] = PropText(o, p) \o rest[p]

LEMMA EncodedRests ==
  ASSUME NEW o \in Obj
  PROVE  \E rest : Rests(rest, o) /\ EncodeObj(o) = KeyText(o) \o rest[0]
<1>1. PICK line : Lines(line, o) /\ EncodeObj(o) = line[Len(Props)] \o CommentText(o)
  BY EncodeObjIs
<1>2. PICK L : L = EncodeObj(o)
  OBVIOUS
<1>3. PICK N \in Nat : N = Len(Props)
  BY NamesAreNotChars
<1>4. ASSUME NEW p \in 0 .. N PROVE line[p] \in Text
  BY <1>1, <1>3 DEF Lines
<1> DEFINE EndsWith(p, u) == u \in Text /\ L = line[p] \o u
           rest == [p \in 0 .. N |-> From(L, Len(line[p]) + 1)]
           T == {q \in 0 .. N : \E u : EndsWith(N - q, u)}
<1>5. EndsWith(N, CommentText(o))
  BY <1>1, <1>2, <1>3, ObjTexts
<1>6. ASSUME NEW p \in 1 .. N, NEW u, EndsWith(p, u) PROVE EndsWith(p - 1, PropText(o, p) \o u)
  <2>1. p \in 1 .. Len(Props) /\ p - 1 \in 0 .. N
    BY <1>3
  <2>2. PICK a \in Text : a = line[p - 1]
    BY <1>4, <2>1
  <2>3. PICK c \in Text : c = PropText(o, p)
    BY <2>1, ObjTexts
  <2>4. u \in Text /\ L = (a \o c) \o u
    BY <1>1, <1>6, <2>1, <2>2, <2>3 DEF Lines
  <2>5. (a \o c) \o u = a \o (c \o u) /\ c \o u \in Text
    <3>1. u \in Text
      BY <2>4
    <3>2. (a \o c) \o u = a \o (c \o u)
      <4>1. Associates(a, c, u)
        BY <3>1, TextsAssociate, Zenon
      <4> QED BY <4>1 DEF Associates
    <3>3. c \o u \in Text
      BY <3>1, Appended, Zenon
    <3> QED BY <3>2, <3>3
  <2> QED BY <2>2, <2>3, <2>4, <2>5
<1>7. 0 .. N \subseteq T
  <2>1. 0 \in T
    <3> HIDE DEF EndsWith
    <3>1. N - 0 = N /\ 0 \in 0 .. N
      OBVIOUS
    <3> QED BY <1>5, <3>1
  <2>2. ASSUME NEW q \in 1 .. N, q - 1 \in T PROVE q \in T
    <3> HIDE DEF EndsWith
    <3>1. PICK u : EndsWith(N - (q - 1), u)
      BY <2>2
    <3>2. N - (q - 1) \in 1 .. N /\ (N - (q - 1)) - 1 = N - q
      OBVIOUS
    <3>3. EndsWith(N - q, PropText(o, N - (q - 1)) \o u)
      BY <1>6, <3>1, <3>2
    <3> QED BY <3>3
  <2> HIDE DEF T
  <2> QED BY <2>1, <2>2, InductionUpTo
<1>8. ASSUME NEW p \in 0 .. N, NEW u, EndsWith(p, u) PROVE rest[p] = u
  <2>1. IsJoin(line[p] \o u, line[p], u)
    BY <1>4, <1>8, Joined
  <2> QED BY <1>8, <2>1 DEF IsJoin
<1>9. ASSUME NEW p \in 0 .. N PROVE EndsWith(p, rest[p])
  <2>1. N - p \in 0 .. N /\ N - (N - p) = p
    OBVIOUS
  <2>2. PICK u : EndsWith(p, u)
    <3>1. N - p \in T
      BY <1>7, <2>1
    <3>2. \E u : EndsWith(N - (N - p), u)
      <4> HIDE DEF EndsWith
      <4> QED BY <3>1
    <3> HIDE DEF EndsWith
    <3> QED BY <2>1, <3>2
  <2>3. rest[p] = u
    BY <1>8, <2>2
  <2> QED BY <2>2, <2>3
<1>10. rest[N] = CommentText(o)
  <2>1. N \in 0 .. N
    OBVIOUS
  <2> HIDE DEF EndsWith, rest
  <2> QED BY <1>5, <1>8, <2>1
<1>11. ASSUME NEW p \in 1 .. N PROVE rest[p - 1] = PropText(o, p) \o rest[p]
  <2>1. p \in 0 .. N /\ p - 1 \in 0 .. N
    OBVIOUS
  <2>2. EndsWith(p, rest[p])
    BY <1>9, <2>1
  <2>3. EndsWith(p - 1, PropText(o, p) \o rest[p])
    <3> HIDE DEF EndsWith, rest
    <3> QED BY <1>6, <2>2
  <2> HIDE DEF EndsWith, rest
  <2> QED BY <1>8, <2>1, <2>3
<1>12. rest \in [0 .. N -> Text]
  <2>1. \A p \in 0 .. N : rest[p] \in Text
    BY <1>9
  <2> QED BY <2>1
<1>13. L = KeyText(o) \o rest[0]
  <2>1. 0 \in 0 .. N
    OBVIOUS
  <2>2. L = line[0] \o rest[0]
    BY <1>9, <2>1
  <2> HIDE DEF rest
  <2> QED BY <1>1, <2>2 DEF Lines
<1> HIDE DEF rest
<1>14. Rests(rest, o)
  BY <1>3, <1>10, <1>11, <1>12 DEF Rests
<1> QED BY <1>2, <1>13, <1>14

-----------------------------------------------------------------------------
(* KVLines: the line of an object is decoded. *)

(* x before s: what is cut off x s, and its first character. *)
LEMMA Prefixed ==
  ASSUME NEW x \in Tokens, NEW s \in Text
  PROVE  LET t == <<x>> \o s IN
         t \in Text /\ t # <<>> /\ t[1] = x /\ From(t, 2) = s /\ Len(t) = Len(s) + 1
<1>1. PICK a \in Text : a = <<x>> /\ Len(a) = 1 /\ a[1] = x
  BY Short
<1>2. PICK t : t = a \o s
  OBVIOUS
<1>3. IsJoin(t, a, s)
  BY <1>2, Joined, Zenon
<1>4. t \in Text /\ Len(t) = Len(s) + 1 /\ Len(s) \in Nat /\ From(t, 2) = s
  <2>1. Len(a) + 1 = 2 /\ Len(a) + Len(s) = Len(s) + 1
    BY <1>1, <1>3 DEF IsJoin
  <2> QED BY <1>3, <2>1 DEF IsJoin
<1>5. t[1] = x
  <2>1. 1 \in 1 .. Len(a)
    BY <1>1
  <2> QED BY <1>1, <1>3, <2>1 DEF IsJoin
<1>6. t # <<>>
  BY <1>4, TextParts
<1> QED BY <1>1, <1>2, <1>4, <1>5, <1>6

LEMMA PropTextSplits ==
  ASSUME NEW o \in Obj, NEW p \in 1 .. Len(Props), NEW r \in Text
  PROVE  PropText(o, p) \o r
           = <<Blank>> \o (<<Props[p]>> \o (<<Equal>> \o (QuoteStr(o.props[p]) \o r)))
<1>1. PICK a \in Text : a = <<Blank>>
  BY Short
<1>2. PICK b \in Text : b = <<Props[p]>>
  BY Short
<1>3. PICK c \in Text : c = <<Equal>>
  BY Short
<1>4. PICK v \in Text : v = QuoteStr(o.props[p])
  BY ObjTexts
<1>5. b \o c = <<Props[p], Equal>> /\ a \o (b \o c) = <<Blank, Props[p], Equal>>
  <2>1. Blank \in Tokens /\ Props[p] \in Tokens /\ Equal \in Tokens
    BY Short
  <2>2. \A x, y \in Tokens : <<x, y>> = <<x>> \o <<y>>
    BY Short, Zenon
  <2>3. \A x, y, z \in Tokens : <<x, y, z>> = <<x>> \o <<y, z>>
    BY Short, Zenon
  <2>4. <<Props[p], Equal>> = b \o c
    BY <1>2, <1>3, <2>1, <2>2, Zenon
  <2>5. <<Blank, Props[p], Equal>> = a \o <<Props[p], Equal>>
    BY <1>1, <2>1, <2>3, Zenon
  <2> QED BY <2>4, <2>5
<1>6. PropText(o, p) \o r = ((a \o (b \o c)) \o v) \o r
  BY <1>4, <1>5 DEF PropText
<1>7. PICK bc \in Text : bc = b \o c
  BY Appended
<1>8. PICK vr \in Text : vr = v \o r
  BY Appended
<1>9. PICK abc \in Text : abc = a \o bc
  BY Appended
<1>10. Associates(abc, v, r)
  BY TextsAssociate, Zenon
<1>11. Associates(a, bc, vr)
  BY TextsAssociate, Zenon
<1>12. Associates(b, c, vr)
  BY TextsAssociate, Zenon
<1>13. PropText(o, p) \o r = a \o (b \o (c \o vr))
  BY <1>6, <1>7, <1>8, <1>9, <1>10, <1>11, <1>12 DEF Associates
<1> QED BY <1>1, <1>2, <1>3, <1>4, <1>8, <1>13

LEMMA NameIsNot ==
  ASSUME NEW p \in 1 .. Len(Props)
  PROVE  /\ Props[p] \in Tokens /\ Props[p] \notin Special /\ Props[p] # Blank /\ Props[p] # Mark
         /\ ObjName \in Tokens /\ ObjName \notin Special /\ ObjName # Mark
<1>1. Props[p] \in Names /\ ObjName \in Names
  BY NamesAreNotChars
<1>2. Special \subseteq Chars /\ Blank \in Chars /\ Mark \in Chars
  BY DEF Special, Chars
<1> QED BY <1>1, <1>2, NamesAreNotChars DEF Tokens

LEMMA NotLineEnd ==
  ASSUME NEW p \in 1 .. Len(Props), NEW s \in Text
  PROVE  /\ TrimLeft(<<Blank>> \o (<<Props[p]>> \o s)) = <<Props[p]>> \o s
         /\ ~LineEnd(<<Blank>> \o (<<Props[p]>> \o s))
<1>1. PICK t \in Text : t = <<Props[p]>> \o s /\ t # <<>> /\ t[1] = Props[p]
  BY NameIsNot, Prefixed
<1>2. t[1] # Blank /\ t[1] # Mark
  BY <1>1, NameIsNot
<1>3. TrimLeft(<<Blank>> \o t) = t
  BY <1>2, TrimLeftCuts
<1> QED BY <1>1, <1>2, <1>3 DEF LineEnd

(* A property that was written is cut off its line. *)
CutsProp(p, v, r, f) ==
  DecodeProp([ok |-> TRUE, props |-> f,
              rest |-> <<Blank>> \o (<<Props[p]>> \o (<<Equal>> \o (QuoteStr(v) \o r)))])
    = [ok |-> TRUE, rest |-> r, props |-> [q \in 1 .. p |-> IF q = p THEN v ELSE f[q]]]

LEMMA DecodePropCuts ==
  ASSUME NEW p \in 1 .. Len(Props), NEW v \in Seq(Chars),
         NEW r \in Text, r # <<>> => r[1] = Blank,
         NEW f, DOMAIN f = 1 .. p - 1
  PROVE  CutsProp(p, v, r, f)
<1>1. PICK s : s = QuoteStr(v) \o r
  OBVIOUS
<1>2. s \in Text
  BY <1>1, QuoteStrText, Appended
<1>3. Equal \in Tokens /\ Equal \in Special /\ Blank \in Special
  BY Short DEF Special
<1>4. PICK e \in Text : e = <<Equal>> \o s /\ e # <<>> /\ e[1] = Equal /\ From(e, 2) = s
  BY <1>2, <1>3, Prefixed
<1>5. PICK l : l = <<Blank>> \o (<<Props[p]>> \o e)
  OBVIOUS
<1>6. CutBare(TrimLeft(l)) = Cut(<<Props[p]>>, e)
  <2>1. PICK b \in Text : b = <<Props[p]>> /\ Len(b) = 1 /\ b[1] = Props[p]
    BY Short
  <2>2. \A i \in 1 .. Len(b) : b[i] \notin Special
    BY <2>1, NameIsNot
  <2>3. CutBare(b \o e) = Cut(b, e)
    BY <1>3, <1>4, <2>2, CutBareCuts
  <2> QED BY <1>5, <2>1, <2>3, NotLineEnd
<1> DEFINE st == [ok |-> TRUE, props |-> f, rest |-> l]
           name == CutBare(TrimLeft(st.rest))
           new == {q \in DOMAIN Props \ DOMAIN st.props : name.tok = <<Props[q]>>}
           u == From(name.rest, 2)
           val == IF u = <<>> \/ u[1] \in {Blank, Mark} THEN Cut(<<>>, u) ELSE CutValue(u)
<1>7. DecodeProp(st) = IF name.rest # <<>> /\ name.rest[1] = Equal /\ new # {} /\ val.ok
                       THEN [ok |-> TRUE, rest |-> val.rest,
                             props |-> [q \in new \cup DOMAIN st.props |->
                                          IF q \in new THEN val.tok ELSE st.props[q]]]
                       ELSE [st EXCEPT !.ok = FALSE]
  BY DEF DecodeProp
<1>8. name.tok = <<Props[p]>> /\ name.rest = e
  BY <1>6 DEF Cut
<1>9. new = {p}
  <2>1. ASSUME NEW q \in DOMAIN Props, <<Props[p]>> = <<Props[q]>> PROVE p = q
    <3>1. Props[p] = Props[q]
      BY <2>1
    <3> QED BY <3>1, KVLinesAssumption, NamesAreNotChars
  <2>2. p \in DOMAIN Props \ DOMAIN f
    BY NamesAreNotChars
  <2>3. new = {q \in DOMAIN Props \ DOMAIN f : <<Props[p]>> = <<Props[q]>>}
    <3> HIDE DEF name
    <3> QED BY <1>8
  <2> QED BY <2>1, <2>2, <2>3
<1>10. u = s
  BY <1>4, <1>8
<1>11. val = Cut(v, r)
  <2> HIDE DEF u
  <2>1. CASE v = <<>>
    <3>1. QuoteStr(v) = <<>>
      BY <2>1, QuoteStrText
    <3>2. s = r
      BY <1>1, <3>1, ConcatEmptySeq DEF Text
    <3> QED BY <1>10, <2>1, <3>2
  <2>2. CASE v # <<>>
    <3>1. PICK a \in Text : a = QuoteStr(v) /\ Len(a) \in Nat /\ Len(a) > 0 /\ a[1] \notin {Blank, Mark}
      BY <2>2, QuoteStrText
    <3>2. IsJoin(s, a, r)
      BY <1>1, <3>1, Joined, Zenon
    <3>3. s # <<>> /\ s[1] = a[1]
      <4>1. 1 \in 1 .. Len(a)
        BY <3>1
      <4>2. Len(s) > 0
        BY <3>1, <3>2 DEF IsJoin
      <4>3. s # <<>>
        BY <1>2, <4>2, TextParts
      <4> QED BY <3>2, <4>1, <4>3 DEF IsJoin
    <3>4. CutValue(s) = Cut(v, r)
      BY <1>1, <1>3, <2>2, CutValueCuts
    <3> QED BY <1>10, <3>1, <3>3, <3>4
  <2> QED BY <2>1, <2>2
<1> HIDE DEF name, u, val, new
<1>12. val.ok = TRUE /\ val.tok = v /\ val.rest = r
  BY <1>11 DEF Cut
<1>13. DecodeProp(st) = [ok |-> TRUE, rest |-> r,
                         props |-> [q \in {p} \cup DOMAIN f |-> IF q \in {p} THEN v ELSE f[q]]]
  <2>1. name.rest # <<>> /\ name.rest[1] = Equal /\ new # {} /\ val.ok
    BY <1>4, <1>8, <1>9, <1>12
  <2>2. DecodeProp(st) = [ok |-> TRUE, rest |-> val.rest,
                          props |-> [q \in new \cup DOMAIN st.props |->
                                       IF q \in new THEN val.tok ELSE st.props[q]]]
    BY <1>7, <2>1
  <2>3. DOMAIN st.props = DOMAIN f /\ \A q : st.props[q] = f[q]
    OBVIOUS
  <2> HIDE DEF st
  <2>4. [q \in new \cup DOMAIN st.props |-> IF q \in new THEN val.tok ELSE st.props[q]]
          = [q \in {p} \cup DOMAIN f |-> IF q \in {p} THEN v ELSE f[q]]
    BY <1>9, <1>12, <2>3
  <2> QED BY <1>12, <2>2, <2>4
<1>14. [q \in {p} \cup DOMAIN f |-> IF q \in {p} THEN v ELSE f[q]]
         = [q \in 1 .. p |-> IF q = p THEN v ELSE f[q]]
  <2>1. {p} \cup DOMAIN f = 1 .. p
    <3>1. p \in Nat /\ p > 0
      BY NamesAreNotChars
    <3> QED BY <3>1
  <2> QED BY <2>1
<1> QED BY <1>1, <1>4, <1>5, <1>13, <1>14 DEF CutsProp

LEMMA CommentCuts ==
  ASSUME NEW o \in Obj, o.comment # <<>> => o.comment[Len(o.comment)] # Blank
  PROVE  LET r == CommentText(o) IN
         LineEnd(r) /\ CutComment(r) = o.comment /\ (r # <<>> => r[1] = Blank)
<1>1. PICK c \in Text : c = o.comment
  BY ObjTexts, CharText
<1>2. CASE c = <<>>
  <2>1. CommentText(o) = <<>> /\ <<>> \in Text
    BY <1>1, <1>2, Short DEF CommentText
  <2>2. TrimLeft(<<>>) = <<>>
    BY <2>1, TrimLeftKeeps
  <2> QED BY <1>1, <1>2, <2>1, <2>2 DEF LineEnd, CutComment
<1>3. CASE c # <<>>
  <2>1. Blank \in Tokens /\ Mark \in Tokens
    BY Short
  <2>2. PICK b \in Text : b = <<Blank>> /\ Len(b) = 1 /\ b[1] = Blank
    BY <2>1, Short
  <2>3. PICK a \in Text : a = <<Mark>> /\ Len(a) = 1 /\ a[1] = Mark
    BY <2>1, Short
  <2>4. PICK ab \in Text : ab = a \o b
    BY Appended
  <2>5. PICK m : m = ab \o c
    OBVIOUS
  <2>6. /\ m \in Text /\ Len(m) > 1 /\ m # <<>> /\ m[1] = Mark /\ m[2] = Blank /\ From(m, 3) = c
    <3>1. IsJoin(ab, a, b)
      BY <2>4, Joined, Zenon
    <3>2. IsJoin(m, ab, c)
      BY <2>5, Joined, Zenon
    <3>3. 1 \in 1 .. Len(a) /\ 1 \in 1 .. Len(b)
      BY <2>2, <2>3
    <3>4. ab[1] = Mark /\ ab[Len(a) + 1] = Blank /\ Len(ab) = Len(a) + Len(b)
      BY <2>2, <2>3, <3>1, <3>3 DEF IsJoin
    <3>5. ab[1] = Mark /\ ab[2] = Blank /\ Len(ab) = 2
      <4>1. Len(a) + 1 = 2 /\ Len(a) + Len(b) = 2
        BY <2>2, <2>3
      <4> QED BY <3>4, <4>1
    <3>6. 1 \in 1 .. Len(ab) /\ 2 \in 1 .. Len(ab) /\ Len(ab) + 1 = 3
      BY <3>5
    <3>7. m[1] = ab[1] /\ m[2] = ab[2] /\ From(m, Len(ab) + 1) = c
      BY <3>2, <3>6 DEF IsJoin
    <3>8. m \in Text /\ Len(m) > 1
      BY <3>2, <3>5 DEF IsJoin
    <3>9. m # <<>>
      BY <3>8, TextParts
    <3> QED BY <3>5, <3>6, <3>7, <3>8, <3>9
  <2>7. CommentText(o) = b \o m
    <3>1. <<Mark, Blank>> = a \o b /\ <<Blank, Mark, Blank>> = <<Blank>> \o <<Mark, Blank>>
      BY <2>1, <2>2, <2>3, Short
    <3>2. CommentText(o) = (b \o ab) \o c
      BY <1>1, <1>3, <2>2, <2>4, <3>1 DEF CommentText
    <3>3. Associates(b, ab, c)
      BY TextsAssociate
    <3> QED BY <2>5, <3>2, <3>3 DEF Associates
  <2>8. TrimLeft(CommentText(o)) = m
    <3>1. m[1] # Blank
      BY <2>6, CharsDiffer
    <3> QED BY <2>2, <2>6, <2>7, <3>1, TrimLeftCuts
  <2>9. CommentText(o)[1] = Blank
    BY <2>1, <2>2, <2>6, <2>7, Prefixed
  <2>10. TrimRight(c) = c
    BY <1>1, TrimRightKeeps
  <2>11. LineEnd(CommentText(o))
    BY <2>6, <2>8 DEF LineEnd
  <2>12. CutComment(CommentText(o)) = c
    BY <2>6, <2>8, <2>10 DEF CutComment
  <2> QED BY <1>1, <2>9, <2>11, <2>12
<1> QED BY <1>2, <1>3

LEMMA RestStarts ==
  ASSUME NEW o \in Obj, o.comment # <<>> => o.comment[Len(o.comment)] # Blank,
         NEW rest, Rests(rest, o), NEW p \in 0 .. Len(Props)
  PROVE  rest[p] \in Text /\ (rest[p] # <<>> => rest[p][1] = Blank)
<1>1. rest[p] \in Text /\ Len(Props) \in Nat
  BY NamesAreNotChars DEF Rests
<1>2. CASE p = Len(Props)
  BY <1>1, <1>2, CommentCuts DEF Rests
<1>3. CASE p # Len(Props)
  <2>1. p + 1 \in 1 .. Len(Props) /\ (p + 1) - 1 = p /\ p + 1 \in 0 .. Len(Props)
    BY <1>1, <1>3
  <2>2. PICK k \in 1 .. Len(Props) : k = p + 1
    BY <2>1
  <2>3. PICK r \in Text : r = rest[k]
    BY <2>1, <2>2 DEF Rests
  <2>4. rest[p] = PropText(o, k) \o r
    BY <2>1, <2>2, <2>3 DEF Rests
  <2>5. PICK s : s = <<Props[k]>> \o (<<Equal>> \o (QuoteStr(o.props[k]) \o r))
    OBVIOUS
  <2>6. s \in Text
    <3>1. QuoteStr(o.props[k]) \in Text /\ <<Equal>> \in Text /\ <<Props[k]>> \in Text
      BY ObjTexts, Short
    <3>2. QuoteStr(o.props[k]) \o r \in Text
      BY <3>1, Appended, Zenon
    <3>3. <<Equal>> \o (QuoteStr(o.props[k]) \o r) \in Text
      BY <3>1, <3>2, Appended, Zenon
    <3> QED BY <2>5, <3>1, <3>3, Appended, Zenon
  <2>7. rest[p] = <<Blank>> \o s
    BY <2>4, <2>5, PropTextSplits
  <2>8. (<<Blank>> \o s)[1] = Blank
    BY <2>6, Short, Prefixed
  <2> QED BY <1>1, <2>7, <2>8
<1> QED BY <1>2, <1>3

(* A line is read back. *)
LEMMA DecodeObjIs ==
  ASSUME NEW o \in Obj, o.key # <<>>, o.comment # <<>> => o.comment[Len(o.comment)] # Blank,
         NEW rest, Rests(rest, o)
  PROVE  DecodeObj(<<Blank>> \o (QuoteStr(o.key) \o rest[0])) = [ok |-> TRUE, obj |-> o]
<1>1. PICK N \in Nat : N = Len(Props)
  BY NamesAreNotChars
<1>2. PICK text : text = <<Blank>> \o (QuoteStr(o.key) \o rest[0])
  OBVIOUS
<1>3. CutValue(text) = Cut(o.key, rest[0])
  <2>1. 0 \in 0 .. Len(Props)
    BY <1>1
  <2>2. rest[0] \in Text /\ (rest[0] # <<>> => rest[0][1] = Blank)
    BY <2>1, RestStarts
  <2>3. Blank \in Special
    BY DEF Special
  <2>4. o.key \in Seq(Chars)
    BY ObjTexts
  <2>5. PICK v \in Seq(Chars) : v = o.key
    BY <2>4
  <2>6. PICK r \in Text : r = rest[0]
    BY <2>2
  <2>7. CutValue(<<Blank>> \o (QuoteStr(v) \o r)) = Cut(v, r)
    BY <2>2, <2>3, <2>5, <2>6, CutValueCuts
  <2> QED BY <1>2, <2>5, <2>6, <2>7
<1> DEFINE After(i) == [ok |-> TRUE, rest |-> rest[i], props |-> [q \in 1 .. i |-> o.props[q]]]
           key == CutValue(text)
           Next1(s) == IF ~s.ok \/ LineEnd(s.rest) THEN s ELSE DecodeProp(s)
           Defines(f) == f = [i \in 0 .. Len(Props) |->
             IF i = 0 THEN [ok |-> key.ok, rest |-> key.rest, props |-> <<>>] ELSE Next1(f[i - 1])]
           st == CHOOSE f : Defines(f)
           last == st[Len(Props)]
           ok == last.ok /\ LineEnd(last.rest) /\ DOMAIN last.props = 1 .. Len(Props)
           st0 == [i \in 0 .. N |-> After(i)]
<1>4. DecodeObj(text) =
        [ok |-> ok, obj |-> [key |-> key.tok, props |-> last.props, comment |-> CutComment(last.rest)]]
  BY DEF DecodeObj
<1>5. ASSUME NEW p \in 1 .. N PROVE Next1(After(p - 1)) = After(p)
  <2>1. p \in 1 .. Len(Props) /\ p \in 0 .. Len(Props) /\ p - 1 \in 0 .. Len(Props)
    BY <1>1
  <2>2. PICK r \in Text : r = rest[p] /\ (r # <<>> => r[1] = Blank)
    BY <2>1, RestStarts
  <2>3. PICK v \in Seq(Chars) : v = o.props[p]
    BY <2>1, ObjTexts
  <2>4. PICK e : e = <<Equal>> \o (QuoteStr(v) \o r)
    OBVIOUS
  <2>5. rest[p - 1] = <<Blank>> \o (<<Props[p]>> \o e)
    <3>1. rest[p - 1] = PropText(o, p) \o r
      BY <2>1, <2>2 DEF Rests
    <3>2. PropText(o, p) \o r = <<Blank>> \o (<<Props[p]>> \o (<<Equal>> \o (QuoteStr(o.props[p]) \o r)))
      BY <2>1, PropTextSplits
    <3> QED BY <2>3, <2>4, <3>1, <3>2
  <2>6. e \in Text
    <3>1. QuoteStr(v) \in Text /\ <<Equal>> \in Text
      BY QuoteStrText, Short
    <3>2. QuoteStr(v) \o r \in Text
      BY <3>1, Appended, Zenon
    <3> QED BY <2>4, <3>1, <3>2, Appended, Zenon
  <2>7. ~LineEnd(rest[p - 1])
    BY <2>1, <2>5, <2>6, NotLineEnd
  <2>8. PICK f : f = [q \in 1 .. p - 1 |-> o.props[q]]
    OBVIOUS
  <2>9. After(p - 1) = [ok |-> TRUE, props |-> f, rest |-> <<Blank>> \o (<<Props[p]>> \o (<<Equal>> \o (QuoteStr(v) \o r)))]
    BY <2>4, <2>5, <2>8
  <2>10. DecodeProp(After(p - 1))
           = [ok |-> TRUE, rest |-> r, props |-> [q \in 1 .. p |-> IF q = p THEN v ELSE f[q]]]
    <3> HIDE DEF After
    <3>1. DOMAIN f = 1 .. p - 1
      BY <2>8
    <3>2. p \in 1 .. Len(Props) /\ r \in Text /\ (r # <<>> => r[1] = Blank)
      BY <2>1, <2>2
    <3>3. CutsProp(p, v, r, f)
      BY <2>3, <3>1, <3>2, DecodePropCuts
    <3> QED BY <2>9, <3>3 DEF CutsProp
  <2>11. [q \in 1 .. p |-> IF q = p THEN v ELSE f[q]] = [q \in 1 .. p |-> o.props[q]]
    <3>1. \A q \in 1 .. p : q # p => q \in 1 .. p - 1
      OBVIOUS
    <3> QED BY <2>3, <2>8, <3>1
  <2>12. DecodeProp(After(p - 1)) = After(p)
    BY <2>2, <2>10, <2>11
  <2>13. After(p - 1).ok = TRUE /\ After(p - 1).rest = rest[p - 1]
    OBVIOUS
  <2> HIDE DEF After
  <2> QED BY <2>7, <2>12, <2>13
<1>6. After(0) = [ok |-> key.ok, rest |-> key.rest, props |-> <<>>]
  <2>1. key.ok = TRUE /\ key.rest = rest[0]
    BY <1>3 DEF Cut
  <2>2. [q \in 1 .. 0 |-> o.props[q]] = <<>>
    OBVIOUS
  <2> HIDE DEF key
  <2> QED BY <2>1, <2>2
<1>7. Defines(st0)
  <2> HIDE DEF After, Next1, key
  <2>1. \A i \in 0 .. N : i # 0 => i \in 1 .. N /\ i - 1 \in 0 .. N
    OBVIOUS
  <2> QED BY <1>1, <1>5, <1>6, <2>1
<1>8. Defines(st)
  <2> HIDE DEF Defines, st0
  <2> QED BY <1>7
<1>9. \A i \in 0 .. N : st[i] = After(i)
  <2> HIDE DEF After, Next1, key, st
  <2>0. ASSUME NEW f, Defines(f), NEW i \in 0 .. N
        PROVE  f[i] = IF i = 0 THEN [ok |-> key.ok, rest |-> key.rest, props |-> <<>>]
                      ELSE Next1(f[i - 1])
    <3>1. i \in 0 .. Len(Props)
      BY <1>1
    <3> QED BY <2>0, <3>1
  <2> HIDE DEF Defines, st0
  <2>1. st[0] = st0[0]
    <3>1. 0 \in 0 .. N
      OBVIOUS
    <3> QED BY <1>7, <1>8, <2>0, <3>1
  <2>2. ASSUME NEW i \in 1 .. N, st[i - 1] = st0[i - 1] PROVE st[i] = st0[i]
    <3>1. i \in 0 .. N /\ i # 0
      OBVIOUS
    <3> QED BY <1>7, <1>8, <2>0, <2>2, <3>1
  <2>3. \A i \in 0 .. N : st[i] = st0[i]
    <3>1. SameSteps(st, st0, N)
      BY <2>1, <2>2 DEF SameSteps
    <3> QED BY <3>1, SameByInduction
  <2>4. \A i \in 0 .. N : st0[i] = After(i)
    BY DEF st0
  <2> QED BY <2>3, <2>4
<1>10. last = After(N)
  <2> HIDE DEF st, After
  <2>1. N \in 0 .. N
    OBVIOUS
  <2> QED BY <1>1, <1>9, <2>1
<1> HIDE DEF last
<1>11. last.ok = TRUE /\ last.rest = CommentText(o) /\ last.props = o.props
  <2>1. last.ok = TRUE /\ last.rest = rest[N] /\ last.props = [q \in 1 .. N |-> o.props[q]]
    BY <1>10
  <2>2. o.props = [q \in 1 .. N |-> o.props[q]]
    BY <1>1 DEF Obj
  <2> QED BY <1>1, <2>1, <2>2 DEF Rests
<1>12. LineEnd(CommentText(o)) /\ CutComment(CommentText(o)) = o.comment
  BY CommentCuts
<1>13. DOMAIN o.props = 1 .. Len(Props) /\ key.tok = o.key
  BY <1>3 DEF Obj, Cut
<1> HIDE DEF key
<1>14. ok = TRUE
  BY <1>11, <1>12, <1>13
<1> HIDE DEF ok
<1>15. DecodeObj(text) = [ok |-> TRUE, obj |-> [key |-> o.key, props |-> o.props, comment |-> o.comment]]
  BY <1>4, <1>11, <1>12, <1>13, <1>14
<1>16. o = [key |-> o.key, props |-> o.props, comment |-> o.comment]
  BY DEF Obj
<1> QED BY <1>2, <1>15, <1>16

-----------------------------------------------------------------------------
(* KVLines: the lines of a file. *)

(* A text that ends with something that a reader does not trim. *)
EndsWell(t) == t \in Text /\ t # <<>> /\ t[Len(t)] # Blank

LEMMA EndAppended ==
  ASSUME NEW a \in Text, NEW b, EndsWell(b)
  PROVE  EndsWell(a \o b)
<1>1. b \in Text /\ Len(b) \in Nat /\ Len(b) # 0 /\ b[Len(b)] # Blank
  BY TextParts DEF EndsWell
<1>2. PICK t : t = a \o b
  OBVIOUS
<1>3. IsJoin(t, a, b)
  BY <1>1, <1>2, Joined, Zenon
<1>4. Len(b) \in 1 .. Len(b)
  BY <1>1
<1>5. t \in Text /\ Len(t) = Len(a) + Len(b) /\ t[Len(a) + Len(b)] = b[Len(b)] /\ Len(a) \in Nat
  BY <1>3, <1>4 DEF IsJoin
<1>6. Len(t) # 0
  BY <1>1, <1>5
<1>7. t # <<>>
  BY <1>5, <1>6, TextParts
<1> QED BY <1>1, <1>2, <1>5, <1>7 DEF EndsWell

LEMMA EndQuoted ==
  ASSUME NEW v \in Seq(Chars), v # <<>>
  PROVE  EndsWell(QuoteStr(v))
<1>1. PICK t : t = QuoteStr(v)
  OBVIOUS
<1>2. t \in Text /\ Len(t) > 0 /\ t[Len(t)] # Blank
  BY <1>1, QuoteStrText
<1>3. t # <<>>
  BY <1>2, TextParts
<1> QED BY <1>1, <1>2, <1>3 DEF EndsWell

LEMMA EndProp ==
  ASSUME NEW o \in Obj, NEW p \in 1 .. Len(Props)
  PROVE  EndsWell(PropText(o, p))
<1>1. PICK v \in Seq(Chars) : v = o.props[p]
  BY ObjTexts
<1>2. PICK x \in Tokens : x = Props[p]
  BY Short
<1>3. Blank \in Tokens /\ Equal \in Tokens
  BY Short
<1>4. PICK t : t = <<Blank, x, Equal>>
  OBVIOUS
<1>5. t \in Text
  BY <1>3, <1>4, Short
<1>6. CASE v = <<>>
  <2>1. EndsWell(<<Equal>>)
    BY Short, CharsDiffer DEF EndsWell
  <2>2. <<x, Equal>> = <<x>> \o <<Equal>> /\ t = <<Blank>> \o <<x, Equal>>
    <3>1. \A a, b \in Tokens : <<a, b>> = <<a>> \o <<b>>
      BY Short, Zenon
    <3>2. \A a, b, c \in Tokens : <<a, b, c>> = <<a>> \o <<b, c>>
      BY Short, Zenon
    <3> QED BY <1>3, <1>4, <3>1, <3>2, Zenon
  <2>3. <<x>> \in Text /\ <<Blank>> \in Text
    BY <1>3, Short
  <2>4. EndsWell(<<x>> \o <<Equal>>)
    BY <2>1, <2>3, EndAppended
  <2>5. EndsWell(<<Blank>> \o <<x, Equal>>)
    BY <2>2, <2>3, <2>4, EndAppended
  <2>6. t \o <<>> = t
    BY <1>5, ConcatEmptySeq DEF Text
  <2>7. PropText(o, p) = t \o QuoteStr(v) /\ QuoteStr(v) = <<>>
    BY <1>1, <1>2, <1>4, <1>6, QuoteStrText DEF PropText
  <2> QED BY <2>2, <2>5, <2>6, <2>7
<1>7. CASE v # <<>>
  <2>1. EndsWell(QuoteStr(v))
    BY <1>7, EndQuoted
  <2>2. PropText(o, p) = t \o QuoteStr(v)
    BY <1>1, <1>2, <1>4 DEF PropText
  <2> QED BY <1>5, <2>1, <2>2, EndAppended
<1> QED BY <1>6, <1>7

(* A line that was written ends with a character that is kept. *)
LEMMA EndLine ==
  ASSUME NEW o \in Obj, o.key # <<>>, o.comment # <<>> => o.comment[Len(o.comment)] # Blank
  PROVE  EndsWell(EncodeObj(o))
<1>1. PICK line : Lines(line, o) /\ EncodeObj(o) = line[Len(Props)] \o CommentText(o)
  BY EncodeObjIs
<1>2. PICK N \in Nat : N = Len(Props)
  BY NamesAreNotChars
<1>3. PICK a \in Text : a = line[N]
  <2>1. N \in 0 .. Len(Props)
    BY <1>2
  <2> QED BY <1>1, <2>1 DEF Lines
<1>4. EncodeObj(o) = a \o CommentText(o)
  BY <1>1, <1>2, <1>3
<1>5. CASE o.comment # <<>>
  <2>1. PICK c \in Text : c = o.comment
    BY ObjTexts, CharText
  <2>2. EndsWell(c)
    BY <1>5, <2>1 DEF EndsWell
  <2>3. <<Blank, Mark, Blank>> \in Text
    BY Short
  <2>4. CommentText(o) = <<Blank, Mark, Blank>> \o c
    BY <1>5, <2>1 DEF CommentText
  <2>5. EndsWell(<<Blank, Mark, Blank>> \o c)
    BY <2>2, <2>3, EndAppended, Zenon
  <2>6. EndsWell(CommentText(o))
    BY <2>4, <2>5, Zenon
  <2> QED BY <1>4, <2>6, EndAppended
<1>6. CASE o.comment = <<>>
  <2>1. EncodeObj(o) = a
    <3>1. CommentText(o) = <<>>
      BY <1>6 DEF CommentText
    <3> QED BY <1>4, <3>1, ConcatEmptySeq DEF Text
  <2>2. CASE N = 0
    <3>1. a = <<ObjName, Blank>> \o QuoteStr(o.key)
      BY <1>1, <1>3, <2>2 DEF Lines, KeyText
    <3>2. <<ObjName, Blank>> \in Text
      BY Short
    <3>3. EndsWell(QuoteStr(o.key))
      BY ObjTexts, EndQuoted
    <3>4. EndsWell(<<ObjName, Blank>> \o QuoteStr(o.key))
      BY <3>2, <3>3, EndAppended, Zenon
    <3> QED BY <2>1, <3>1, <3>4
  <2>3. CASE N # 0
    <3>1. N \in 1 .. Len(Props) /\ N - 1 \in 0 .. Len(Props)
      BY <1>2, <2>3
    <3>2. PICK b \in Text : b = line[N - 1]
      BY <1>1, <3>1 DEF Lines
    <3>3. a = b \o PropText(o, N)
      BY <1>1, <1>3, <3>1, <3>2 DEF Lines
    <3>4. EndsWell(PropText(o, N))
      BY <3>1, EndProp
    <3> QED BY <2>1, <3>3, <3>4, EndAppended
  <2> QED BY <2>2, <2>3
<1> QED BY <1>5, <1>6

(* What the reader finds in the line of an object. *)
ReadBack(L, o) ==
  /\ L \in Text /\ TrimRight(L) = L /\ L # <<>> /\ L[1] # Mark
  /\ CutBare(L).tok = <<ObjName>> /\ DecodeObj(CutBare(L).rest) = [ok |-> TRUE, obj |-> o]

LEMMA LineIsReadBack ==
  ASSUME NEW o \in Obj, o.key # <<>>, o.comment # <<>> => o.comment[Len(o.comment)] # Blank
  PROVE  ReadBack(EncodeObj(o), o)
<1>1. PICK rest : Rests(rest, o) /\ EncodeObj(o) = KeyText(o) \o rest[0]
  BY EncodedRests
<1>2. PICK r \in Text : r = rest[0]
  <2>1. 0 \in 0 .. Len(Props)
    BY NamesAreNotChars
  <2> QED BY <1>1, <2>1 DEF Rests
<1>3. PICK L : L = EncodeObj(o)
  OBVIOUS
<1>4. PICK k \in Text : k = QuoteStr(o.key)
  BY ObjTexts
<1>5. PICK s \in Text : s = k \o r
  BY Appended
<1>6. PICK t \in Text : t = <<Blank>> \o s /\ t # <<>> /\ t[1] = Blank
  BY Short, Prefixed
<1>7. L = <<ObjName>> \o t
  <2>1. PICK a \in Text : a = <<ObjName>>
    BY Short
  <2>2. PICK b \in Text : b = <<Blank>>
    BY Short
  <2>3. <<ObjName, Blank>> = a \o b
    BY <2>1, <2>2, Short
  <2>4. L = ((a \o b) \o k) \o r
    BY <1>1, <1>2, <1>3, <1>4, <2>3 DEF KeyText
  <2>5. PICK ab \in Text : ab = a \o b
    BY Appended
  <2>6. Associates(ab, k, r)
    BY TextsAssociate, Zenon
  <2>7. Associates(a, b, s)
    BY TextsAssociate, Zenon
  <2> QED BY <1>5, <1>6, <2>1, <2>2, <2>4, <2>5, <2>6, <2>7 DEF Associates
<1>8. EndsWell(L)
  BY <1>3, EndLine
<1>9. L \in Text /\ TrimRight(L) = L /\ L # <<>>
  BY <1>8, TrimRightKeeps DEF EndsWell
<1>10. L[1] # Mark
  <2>1. L[1] = ObjName
    BY <1>7, Short, Prefixed
  <2>2. Mark \in Chars
    BY DEF Chars
  <2> QED BY <2>1, <2>2, NamesAreNotChars
<1>11. CutBare(L) = Cut(<<ObjName>>, t)
  <2>1. PICK a \in Text : a = <<ObjName>> /\ Len(a) = 1 /\ a[1] = ObjName
    BY Short
  <2>2. ObjName \notin Special
    <3>1. Special \subseteq Chars
      BY DEF Special, Chars
    <3> QED BY <3>1, NamesAreNotChars
  <2>3. \A i \in 1 .. Len(a) : a[i] \notin Special
    BY <2>1, <2>2
  <2>4. Blank \in Special
    BY DEF Special
  <2>5. CutBare(a \o t) = Cut(a, t)
    BY <1>6, <2>3, <2>4, CutBareCuts
  <2> QED BY <1>7, <2>1, <2>5
<1>12. DecodeObj(t) = [ok |-> TRUE, obj |-> o]
  <2>1. DecodeObj(<<Blank>> \o (QuoteStr(o.key) \o rest[0])) = [ok |-> TRUE, obj |-> o]
    BY <1>1, DecodeObjIs
  <2> QED BY <1>2, <1>4, <1>5, <1>6, <2>1
<1>13. CutBare(L).tok = <<ObjName>> /\ CutBare(L).rest = t
  BY <1>11 DEF Cut
<1> QED BY <1>3, <1>9, <1>10, <1>12, <1>13 DEF ReadBack

LEMMA MagicIsKept == TrimRight(Magic) = Magic
<1>1. Mark \in Tokens /\ Blank \in Tokens /\ ObjName \in Tokens
  BY Short
<1>2. EndsWell(<<ObjName>>)
  <2>1. ObjName # Blank
    <3>1. Blank \in Chars
      BY DEF Chars
    <3> QED BY <3>1, NamesAreNotChars
  <2> QED BY <1>1, <2>1, Short DEF EndsWell
<1>3. <<Blank, ObjName>> = <<Blank>> \o <<ObjName>> /\ Magic = <<Mark>> \o <<Blank, ObjName>>
  BY <1>1, Short DEF Magic
<1>4. EndsWell(<<Blank>> \o <<ObjName>>)
  BY <1>1, <1>2, Short, EndAppended, Zenon
<1>5. EndsWell(<<Mark>> \o <<Blank, ObjName>>)
  BY <1>1, <1>3, <1>4, Short, EndAppended, Zenon
<1> QED BY <1>3, <1>5, TrimRightKeeps DEF EndsWell

(* A file whose n-th line is that of the object of[n], for each object one. *)
FileOf(lines, N, of, os) ==
  /\ lines # <<>> /\ Len(lines) = N + 1 /\ lines[1] = Magic
  /\ of \in [2 .. N + 1 -> os] /\ \A o \in os : \E n \in 2 .. N + 1 : of[n] = o
  /\ \A n \in 2 .. N + 1 : ReadBack(lines[n], of[n])
  /\ \A m, n \in 2 .. N + 1 : m # n => of[m].key # of[n].key

LEMMA FileIsReadBack ==
  ASSUME NEW os, NEW N \in Nat, NEW lines, NEW of, FileOf(lines, N, of, os)
  PROVE  Unmarshal(lines) = [ok |-> TRUE, objs |-> os]
<1> DEFINE trim == [n \in 1 .. Len(lines) |-> TrimRight(lines[n])]
           body == {n \in 2 .. Len(lines) : trim[n] # <<>> /\ trim[n][1] # Mark}
           dec == [n \in body |-> DecodeObj(CutBare(trim[n]).rest)]
<1>0. /\ lines # <<>> /\ Len(lines) = N + 1 /\ lines[1] = Magic
      /\ of \in [2 .. N + 1 -> os] /\ \A o \in os : \E n \in 2 .. N + 1 : of[n] = o
      /\ \A n \in 2 .. N + 1 : ReadBack(lines[n], of[n])
      /\ \A m, n \in 2 .. N + 1 : m # n => of[m].key # of[n].key
  BY DEF FileOf
<1>1. Unmarshal(lines) =
        IF /\ lines # <<>> /\ trim[1] = Magic
           /\ \A n \in body : CutBare(trim[n]).tok = <<ObjName>> /\ dec[n].ok
           /\ \A m, n \in body : m # n => dec[m].obj.key # dec[n].obj.key
        THEN [ok |-> TRUE, objs |-> {dec[n].obj : n \in body}]
        ELSE [ok |-> FALSE, objs |-> {}]
  BY DEF Unmarshal
<1>2. \A n \in 1 .. N + 1 : trim[n] = TrimRight(lines[n])
  BY <1>0
<1>3. trim[1] = Magic
  <2>1. 1 \in 1 .. N + 1
    OBVIOUS
  <2> HIDE DEF trim
  <2> QED BY <1>0, <1>2, <2>1, MagicIsKept
<1>4. \A n \in 2 .. N + 1 : trim[n] = lines[n]
  <2>1. \A n \in 2 .. N + 1 : n \in 1 .. N + 1
    OBVIOUS
  <2> HIDE DEF trim
  <2> QED BY <1>0, <1>2, <2>1 DEF ReadBack
<1> HIDE DEF trim
<1>5. body = 2 .. N + 1
  <2>1. \A n \in 2 .. N + 1 : trim[n] # <<>> /\ trim[n][1] # Mark
    BY <1>0, <1>4 DEF ReadBack
  <2>2. 2 .. Len(lines) = 2 .. N + 1
    BY <1>0
  <2> QED BY <2>1, <2>2
<1> HIDE DEF body
<1>6. \A n \in 2 .. N + 1 : CutBare(trim[n]).tok = <<ObjName>> /\ dec[n] = [ok |-> TRUE, obj |-> of[n]]
  BY <1>0, <1>4, <1>5 DEF ReadBack
<1> HIDE DEF dec
<1>7. \A n \in 2 .. N + 1 : dec[n].ok = TRUE /\ dec[n].obj = of[n]
  <2> SUFFICES ASSUME NEW n \in 2 .. N + 1 PROVE dec[n].ok = TRUE /\ dec[n].obj = of[n]
    OBVIOUS
  <2>1. dec[n] = [ok |-> TRUE, obj |-> of[n]]
    BY <1>6
  <2> QED BY <2>1
<1>8. {dec[n].obj : n \in body} = os
  BY <1>0, <1>5, <1>7
<1>9. Unmarshal(lines) = [ok |-> TRUE, objs |-> {dec[n].obj : n \in body}]
  <2>1. \A n \in body : CutBare(trim[n]).tok = <<ObjName>> /\ dec[n].ok
    BY <1>5, <1>6, <1>7
  <2>2. \A m, n \in body : m # n => dec[m].obj.key # dec[n].obj.key
    BY <1>0, <1>5, <1>7
  <2> QED BY <1>0, <1>1, <1>3, <2>1, <2>2
<1> QED BY <1>8, <1>9

LEMMA SetToSeqEnumerates ==
  ASSUME NEW S, IsFiniteSet(S)
  PROVE  LET f == SetToSeq(S) IN f \in Bijection(1 .. Cardinality(S), S) /\ f \in Seq(S)
<1>1. PICK n \in Nat : n = Cardinality(S) /\ ExistsBijection(1 .. n, S)
  BY FS_CardinalityType
<1>2. \E f \in [1 .. n -> S] : IsInjective(f)
  BY <1>1 DEF ExistsBijection, Bijection, Injection
<1>3. SetToSeq(S) \in [1 .. n -> S] /\ IsInjective(SetToSeq(S))
  BY <1>1, <1>2 DEF SetToSeq
<1>4. PICK f \in Injection(1 .. n, S) : f = SetToSeq(S)
  BY <1>3 DEF Injection
<1>5. f \in Surjection(1 .. n, S)
  <2>1. IsFiniteSet(1 .. n) /\ Cardinality(1 .. n) = n
    BY FS_Interval
  <2> QED BY <1>1, <1>4, <2>1, FS_Injection
<1>6. f \in Seq(S)
  BY <1>3, <1>4, SeqDef
<1> QED BY <1>1, <1>4, <1>5, <1>6 DEF Bijection

(* Whatever the objects of the map, the file that marshal writes is read     *)
(* back as those objects, for every set of properties.                       *)
THEOREM WrittenIsReadBack ==
  ASSUME IsFiniteSet(objs), objs \subseteq Obj
  PROVE  CacheRoundTrips
<1> SUFFICES ASSUME \A o \in objs :
                      o.key # <<>> /\ (o.comment # <<>> => o.comment[Len(o.comment)] # Blank),
                    \A o, p \in objs : o.key = p.key => o = p
             PROVE  Unmarshal(Marshal(objs)) = [ok |-> TRUE, objs |-> objs]
  BY DEF CacheRoundTrips
<1> DEFINE E == {EncodeObj(o) : o \in objs}
           N == Cardinality(E)
           f == SetToSeq(E)
           lines == <<Magic>> \o f
<1>1. IsFiniteSet(E)
  <2>1. PICK g : g = [o \in objs |-> EncodeObj(o)]
    OBVIOUS
  <2>2. g \in Surjection(objs, E)
    BY <2>1 DEF Surjection
  <2> QED BY <2>2, FS_Surjection
<1>2. N \in Nat /\ f \in Bijection(1 .. N, E) /\ f \in Seq(E)
  BY <1>1, FS_CardinalityType, SetToSeqEnumerates
<1>3. Marshal(objs) = lines
  BY DEF Marshal
<1>4. \A o \in objs : ReadBack(EncodeObj(o), o)
  BY LineIsReadBack
<1>5. \A e \in E : \E o \in objs : e = EncodeObj(o)
  OBVIOUS
<1>6. \A o \in objs : EncodeObj(o) \in E
  OBVIOUS
<1> HIDE DEF E
<1>7. /\ f \in [1 .. N -> E] /\ \A i, j \in 1 .. N : f[i] = f[j] => i = j
      /\ \A e \in E : \E i \in 1 .. N : f[i] = e
  BY <1>2 DEF Bijection, Injection, Surjection, IsInjective
<1> HIDE DEF N, f
<1>8. lines # <<>> /\ Len(lines) = N + 1 /\ lines[1] = Magic /\ \A n \in 2 .. N + 1 : lines[n] = f[n - 1]
  <2>1. Len(f) = N
    BY <1>2, <1>7, LenProperties
  <2>2. <<Magic>> \in Seq(E \cup {Magic}) /\ f \in Seq(E \cup {Magic})
    BY <1>2, SeqMonotonic
  <2>3. Len(<<Magic>>) = 1
    OBVIOUS
  <2>4. Len(lines) = N + 1
    BY <1>2, <2>1, <2>2, <2>3, ConcatProperties
  <2>5. \A i \in 1 .. N + 1 : lines[i] = IF i <= 1 THEN <<Magic>>[i] ELSE f[i - 1]
    BY <1>2, <2>1, <2>2, <2>3, ConcatProperties
  <2> HIDE DEF lines
  <2>6. lines[1] = Magic
    BY <1>2, <2>5
  <2>7. \A n \in 2 .. N + 1 : lines[n] = f[n - 1]
    BY <1>2, <2>5
  <2>8. lines # <<>>
    BY <1>2, <2>4
  <2> QED BY <2>4, <2>6, <2>7, <2>8
<1> HIDE DEF lines
<1> DEFINE of == [n \in 2 .. N + 1 |-> CHOOSE o \in objs : f[n - 1] = EncodeObj(o)]
<1>9. \A n \in 2 .. N + 1 : n - 1 \in 1 .. N
  BY <1>2
<1>10. \A n \in 2 .. N + 1 : of[n] \in objs /\ f[n - 1] = EncodeObj(of[n])
  BY <1>5, <1>7, <1>9
<1>11. of \in [2 .. N + 1 -> objs]
  BY <1>10
<1> HIDE DEF of
<1>12. \A n \in 2 .. N + 1 : ReadBack(lines[n], of[n])
  BY <1>4, <1>8, <1>10
<1>13. ASSUME NEW m \in 2 .. N + 1, NEW n \in 2 .. N + 1, m # n PROVE of[m].key # of[n].key
  <2>1. f[m - 1] # f[n - 1]
    <3>1. m - 1 # n - 1
      BY <1>13
    <3> QED BY <1>7, <1>9, <3>1
  <2>2. of[m] # of[n]
    BY <1>10, <2>1
  <2> QED BY <1>10, <2>2
<1>14. ASSUME NEW o \in objs PROVE \E n \in 2 .. N + 1 : of[n] = o
  <2>1. PICK i \in 1 .. N : f[i] = EncodeObj(o)
    BY <1>6, <1>7
  <2>2. i + 1 \in 2 .. N + 1 /\ (i + 1) - 1 = i
    BY <1>2
  <2>3. PICK n \in 2 .. N + 1 : n - 1 = i
    BY <2>2
  <2>4. EncodeObj(of[n]) = EncodeObj(o) /\ of[n] \in objs
    BY <1>10, <2>1, <2>3
  <2>5. ReadBack(EncodeObj(o), of[n]) /\ ReadBack(EncodeObj(o), o)
    BY <1>4, <2>4
  <2>6. [ok |-> TRUE, obj |-> of[n]] = [ok |-> TRUE, obj |-> o]
    BY <2>5 DEF ReadBack
  <2>7. of[n] = o
    BY <2>6
  <2> QED BY <2>7
<1>15. Unmarshal(lines) = [ok |-> TRUE, objs |-> objs]
  <2>1. FileOf(lines, N, of, objs)
    BY <1>8, <1>11, <1>12, <1>13, <1>14 DEF FileOf
  <2> QED BY <1>2, <2>1, FileIsReadBack
<1> QED BY <1>3, <1>15
=============================================================================
