---------------------------- MODULE KbdbufProofs ----------------------------
(***************************************************************************)
(* Proofs about Kbdbuf, for every size of the ring and of the KERNAL's     *)
(* buffer and for every text: a RETURN that is held back stays at the head *)
(* of the queue, the KERNAL's buffer is not overrun, and what is fed comes *)
(* out once and in order.                                                  *)
(***************************************************************************)
EXTENDS Kbdbuf, SequenceTheorems, WellFoundedInduction, TLAPS

-----------------------------------------------------------------------------
(* Arithmetic of the ring.                                                 *)

NatLess == {p \in Nat \X Nat : p[1] < p[2]}

\* The loop of kbdbuf_flush() stops at a first RETURN.
LEMMA LeastNat ==
  ASSUME NEW S \in SUBSET Nat, S # {}
  PROVE  \E m \in S : \A n \in S : m <= n
<1>1. IsWellFoundedOn(NatLess, Nat)
  BY NatLessThanWellFounded, SMT DEF NatLess, OpToRel
<1>2. PICK m \in S : \A n \in S : <<n, m>> \notin NatLess
  BY <1>1, WFMin
<1>3. \A n \in S : ~ (n < m)
  BY <1>2 DEF NatLess
<1> QED BY <1>3

LEMMA ModBelow ==
  ASSUME NEW a \in Nat, NEW b \in Nat, a < b
  PROVE  a % b = a
OBVIOUS

LEMMA ModType ==
  ASSUME NEW a \in Int, NEW b \in Nat \ {0}
  PROVE  a % b \in 0 .. b - 1
OBVIOUS

LEMMA ModOnce ==
  ASSUME NEW a \in Int, NEW b \in Nat \ {0}, b <= a, a < 2 * b
  PROVE  a % b = a - b
OBVIOUS

LEMMA ModNegative ==
  ASSUME NEW a \in Int, NEW b \in Nat \ {0}, a < 0, 0 <= a + b
  PROVE  a % b = a + b
OBVIOUS

\* Going on from k characters behind h, in two steps or in one.
LEMMA ModAfter ==
  ASSUME NEW Q \in Nat \ {0}, NEW h \in 0 .. Q - 1, NEW k \in 0 .. Q, NEW i \in 0 .. Q,
         k + i <= Q
  PROVE  (((h + k) % Q) + i) % Q = (h + k + i) % Q
<1>1. CASE h + k < Q
  BY <1>1, ModBelow
<1>2. CASE h + k >= Q
  <2> DEFINE a == h + k
             b == h + k + i
  <2>1. a \in Int /\ b \in Int /\ Q <= a /\ a < 2 * Q /\ Q <= b /\ b < 2 * Q
        /\ b = a + i /\ a - Q + i = b - Q /\ b - Q \in Nat /\ b - Q < Q
    BY <1>2
  <2> HIDE DEF a, b
  <2>2. a % Q = a - Q
    BY <2>1, ModOnce
  <2>3. b % Q = b - Q
    BY <2>1, ModOnce
  <2>4. (b - Q) % Q = b - Q
    BY <2>1, ModBelow
  <2>5. ((a % Q) + i) % Q = b % Q
    BY <2>1, <2>2, <2>3, <2>4
  <2> QED BY <2>5 DEF a, b
<1> QED BY <1>1, <1>2

\* How far the place a behind h is from the place m behind h.
LEMMA ModDistance ==
  ASSUME NEW Q \in Nat \ {0}, NEW h \in 0 .. Q - 1, NEW a \in 0 .. Q - 1, NEW m \in 0 .. Q
  PROVE  (((h + a) % Q) - ((h + m) % Q)) % Q = IF a >= m THEN a - m ELSE a - m + Q
<1> DEFINE x == (h + a) % Q
           y == (h + m) % Q
           d == x - y
<1>1. x = IF h + a < Q THEN h + a ELSE h + a - Q
  <2>1. CASE h + a < Q
    BY <2>1, ModBelow
  <2>2. CASE Q <= h + a
    <3> DEFINE s == h + a
    <3>1. s \in Int /\ Q <= s /\ s < 2 * Q
      BY <2>2
    <3> HIDE DEF s
    <3>2. s % Q = s - Q
      BY <3>1, ModOnce
    <3> QED BY <2>2, <3>2 DEF s
  <2> QED BY <2>1, <2>2
<1>2. y = IF h + m < Q THEN h + m ELSE h + m - Q
  <2>1. CASE h + m < Q
    BY <2>1, ModBelow
  <2>2. CASE Q <= h + m
    <3> DEFINE s == h + m
    <3>1. s \in Int /\ Q <= s /\ s < 2 * Q
      BY <2>2
    <3> HIDE DEF s
    <3>2. s % Q = s - Q
      BY <3>1, ModOnce
    <3> QED BY <2>2, <3>2 DEF s
  <2> QED BY <2>1, <2>2
<1> HIDE DEF x, y
<1>3. d \in Int /\ (d = a - m \/ d = a - m + Q \/ d = a - m - Q)
      /\ (d = a - m + Q => a < m) /\ (d = a - m - Q => a >= m)
  BY <1>1, <1>2
<1> HIDE DEF d
<1>4. CASE d >= 0
  <2>1. d < Q /\ d \in Nat
    BY <1>3, <1>4
  <2>2. d % Q = d
    BY <2>1, ModBelow
  <2> QED BY <1>3, <1>4, <2>2 DEF d, x, y
<1>5. CASE d < 0
  <2>1. 0 <= d + Q
    BY <1>3, <1>5
  <2>2. d % Q = d + Q
    BY <1>3, <1>5, <2>1, ModNegative
  <2> QED BY <1>3, <1>5, <2>2 DEF d, x, y
<1> QED BY <1>3, <1>4, <1>5

\* The places of the ring.
Place == 0 .. QueueSize - 1

LEMMA PlaceType ==
  ASSUME NEW a \in Int
  PROVE  a % QueueSize \in Place
BY ModType, KbdbufAssumption DEF Place

LEMMA PlaceOfHead ==
  ASSUME NEW h \in Place
  PROVE  h % QueueSize = h /\ (h + 0) % QueueSize = h
BY ModBelow, KbdbufAssumption DEF Place

LEMMA PlaceAfter ==
  ASSUME NEW h \in Place, NEW k \in 0 .. QueueSize, NEW i \in 0 .. QueueSize,
         k + i <= QueueSize
  PROVE  (((h + k) % QueueSize) + i) % QueueSize = (h + k + i) % QueueSize
BY ModAfter, KbdbufAssumption DEF Place

-----------------------------------------------------------------------------
(* The characters in the ring.                                             *)

Ring(q, h, n) == [i \in 1 .. n |-> q[(h + i - 1) % QueueSize]]

Rings == [Place -> Char]

LEMMA RingType ==
  ASSUME NEW q \in Rings, NEW h \in Place, NEW n \in Nat
  PROVE  /\ Ring(q, h, n) \in Seq(Char)
         /\ Len(Ring(q, h, n)) = n
         /\ \A i \in 1 .. n : Ring(q, h, n)[i] = q[(h + i - 1) % QueueSize]
<1>1. \A i \in 1 .. n : (h + i - 1) % QueueSize \in Place
  BY PlaceType DEF Place
<1>2. Ring(q, h, n) \in [1 .. n -> Char]
  BY <1>1 DEF Ring, Rings
<1>3. Ring(q, h, n) \in Seq(Char)
  BY <1>2, SeqDef
<1>4. DOMAIN Ring(q, h, n) = 1 .. n
  BY DEF Ring
<1>5. Len(Ring(q, h, n)) = n
  BY <1>3, <1>4, LenProperties
<1> QED BY <1>3, <1>5 DEF Ring

LEMMA RingEmpty ==
  ASSUME NEW q, NEW h
  PROVE  Ring(q, h, 0) = <<>>
BY DEF Ring

\* Taking k characters leaves the ring behind them.
LEMMA RingTaken ==
  ASSUME NEW q \in Rings, NEW h \in Place, NEW n \in 0 .. QueueSize, NEW k \in 0 .. n
  PROVE  /\ Ring(q, h, k) = SubSeq(Ring(q, h, n), 1, k)
         /\ Ring(q, (h + k) % QueueSize, n - k) = SubSeq(Ring(q, h, n), k + 1, n)
<1> DEFINE all == Ring(q, h, n)
           g == (h + k) % QueueSize
<1>0. n \in Nat /\ k \in Nat /\ n - k \in Nat /\ k <= n /\ n <= QueueSize
      /\ QueueSize \in Nat /\ h \in Nat
  BY KbdbufAssumption DEF Place
<1>1. all \in Seq(Char) /\ Len(all) = n
      /\ \A i \in 1 .. n : all[i] = q[(h + i - 1) % QueueSize]
  BY <1>0, RingType
<1>2. g \in Place
  BY <1>0, PlaceType
<1>3. \A i \in 1 .. n : all[i] \in Char
  BY <1>1, ElementOfSeq
<1> HIDE DEF all, g
<1>4. Ring(q, h, k) = SubSeq(all, 1, k)
  <2>1. /\ Ring(q, h, k) \in Seq(Char) /\ Len(Ring(q, h, k)) = k
        /\ \A i \in 1 .. k : Ring(q, h, k)[i] = q[(h + i - 1) % QueueSize]
    BY <1>0, RingType
  <2>2. \A i \in 1 .. k : all[i] \in Char
    BY <1>0, <1>3
  <2>3. /\ SubSeq(all, 1, k) \in Seq(Char)
        /\ Len(SubSeq(all, 1, k)) = IF 1 <= k THEN k - 1 + 1 ELSE 0
        /\ \A i \in 1 .. k - 1 + 1 : SubSeq(all, 1, k)[i] = all[1 + i - 1]
    BY <1>0, <2>2, SubSeqProperties
  <2>4. Len(SubSeq(all, 1, k)) = k
    BY <1>0, <2>3
  <2>5. \A i \in 1 .. k : SubSeq(all, 1, k)[i] = all[i]
    <3>1. \A i \in 1 .. k : i \in 1 .. k - 1 + 1 /\ 1 + i - 1 = i
      BY <1>0
    <3> QED BY <2>3, <3>1
  <2>6. \A i \in 1 .. k : Ring(q, h, k)[i] = SubSeq(all, 1, k)[i]
    BY <1>0, <1>1, <2>1, <2>5
  <2> QED BY <2>1, <2>3, <2>4, <2>6, SeqEqual
<1>5. Ring(q, g, n - k) = SubSeq(all, k + 1, n)
  <2>1. /\ Ring(q, g, n - k) \in Seq(Char) /\ Len(Ring(q, g, n - k)) = n - k
        /\ \A i \in 1 .. n - k : Ring(q, g, n - k)[i] = q[(g + i - 1) % QueueSize]
    BY <1>0, <1>2, RingType
  <2>2. \A i \in k + 1 .. n : all[i] \in Char
    BY <1>0, <1>3
  <2>3. /\ SubSeq(all, k + 1, n) \in Seq(Char)
        /\ Len(SubSeq(all, k + 1, n)) = IF k + 1 <= n THEN n - (k + 1) + 1 ELSE 0
        /\ \A i \in 1 .. n - (k + 1) + 1 : SubSeq(all, k + 1, n)[i] = all[k + 1 + i - 1]
    BY <1>0, <2>2, SubSeqProperties
  <2>4. Len(SubSeq(all, k + 1, n)) = n - k
    BY <1>0, <2>3
  <2>5. ASSUME NEW i \in 1 .. n - k
        PROVE  Ring(q, g, n - k)[i] = SubSeq(all, k + 1, n)[i]
    <3>1. i \in 1 .. n - (k + 1) + 1 /\ k + 1 + i - 1 = k + i /\ k + i \in 1 .. n
          /\ i - 1 \in 0 .. QueueSize /\ k + (i - 1) <= QueueSize
          /\ k \in 0 .. QueueSize
      BY <1>0
    <3>2. SubSeq(all, k + 1, n)[i] = q[(h + (k + i) - 1) % QueueSize]
      BY <1>1, <2>3, <3>1
    <3>3. (g + (i - 1)) % QueueSize = (h + k + (i - 1)) % QueueSize
      BY <3>1, PlaceAfter DEF g
    <3>4. g + (i - 1) = g + i - 1 /\ h + k + (i - 1) = h + (k + i) - 1
      BY <1>0, <1>2 DEF Place
    <3> QED BY <2>1, <3>2, <3>3, <3>4
  <2> QED BY <2>1, <2>3, <2>4, <2>5, SeqEqual
<1> QED BY <1>4, <1>5 DEF all, g

-----------------------------------------------------------------------------
(* The invariants.                                                         *)

\* The alarm of a held RETURN is the current one, and the only one.
OneAlarm == ~ orphan /\ (alarm <=> delayed)

\* What keeps the queue right: kept as long as no reset and no new kbdbuf_init()
\* comes while a RETURN is held back.
HeldInv == TypeOK /\ OneAlarm /\ HeldReturn

\* What keeps the KERNAL's buffer right: a held RETURN finds room.
RoomInv == NoOverrun /\ (delayed => Len(buffer) < BufferSize)

\* k of n characters have gone from a ring to the KERNAL's buffer.
Flushed(q, h, n, k) ==
  /\ headIdx' = (h + k) % QueueSize
  /\ numPending' = n - k
  /\ buffer' = buffer \o Ring(q, h, k)
  /\ k > 0 => buffer = <<>> /\ ~ delayed
  /\ k <= BufferSize
  /\ delayed' => n - k > 0 /\ q[(h + k) % QueueSize] = RETURN
  /\ delayed' /\ ~ delayed => buffer = <<>> /\ k < BufferSize

Flags ==
  /\ alarm' \in BOOLEAN /\ delayed' \in BOOLEAN /\ cmdline' \in BOOLEAN
  /\ OneAlarm' /\ orphan' = orphan

\* kbdbuf_flush() moves some characters, and stops at a RETURN that it holds back.
LEMMA FlushMoves ==
  ASSUME HeldInv, NEW q \in Rings, NEW h \in Place, NEW num \in 0 .. QueueSize,
         NEW useAlarm1 \in BOOLEAN,
         delayed => num > 0 /\ q[h] = RETURN,
         FlushFrom(q, h, num, useAlarm1)
  PROVE  Flags /\ \E k \in 0 .. num : Flushed(q, h, num, k)
<1> DEFINE n == IF num > BufferSize THEN BufferSize ELSE num
           at(i) == q[(h + i) % QueueSize]
           held == {i \in 0 .. n - 1 : useAlarm1 /\ at(i) = RETURN}
           k == IF held = {} THEN n ELSE CHOOSE i \in held : \A j \in held : i <= j
           flush == enabled /\ num # 0 /\ buffer = <<>> /\ ready /\ ~ delayed
<1>1. /\ buffer \in Seq(Char) /\ OneAlarm
      /\ delayed \in BOOLEAN /\ alarm \in BOOLEAN /\ cmdline \in BOOLEAN
  BY DEF HeldInv, TypeOK
<1>2. num \in Nat /\ num <= QueueSize /\ n \in Nat /\ n <= num /\ n <= BufferSize
      /\ n < Word /\ Word \in Nat
  BY KbdbufAssumption
<1>3. n % Word = n
  BY <1>2, ModBelow
<1>4. CASE ~ flush
  <2>1. numPending' = num /\ headIdx' = h /\ buffer' = buffer /\ cmdline' = cmdline
        /\ delayed' = delayed /\ alarm' = alarm /\ orphan' = orphan
    BY <1>4 DEF FlushFrom, alarms
  <2>2. (h + 0) % QueueSize = h
    BY PlaceOfHead
  <2>3. buffer' = buffer \o Ring(q, h, 0)
    BY <1>1, <2>1, RingEmpty, ConcatEmptySeq
  <2>4. Flushed(q, h, num, 0)
    BY <1>2, <2>1, <2>2, <2>3, KbdbufAssumption DEF Flushed
  <2>5. Flags
    BY <1>1, <2>1 DEF Flags, OneAlarm
  <2> QED BY <1>2, <2>4, <2>5
<1>5. CASE flush
  <2>1. /\ buffer' = buffer \o [i \in 1 .. k |-> at(i - 1)]
        /\ numPending' = num - k
        /\ headIdx' = (h + k) % QueueSize
        /\ delayed' = (held # {})
        /\ alarm' = (alarm \/ held # {})
        /\ cmdline' = (cmdline /\ held # {})
        /\ orphan' = orphan
    BY <1>3, <1>5 DEF FlushFrom
  <2>2. k \in 0 .. n /\ (held # {} => k \in held)
    <3>1. CASE held = {}
      BY <1>2, <3>1
    <3>2. CASE held # {}
      <4>1. held \in SUBSET Nat
        BY <1>2
      <4>2. \E i \in held : \A j \in held : i <= j
        <5> HIDE DEF held
        <5> QED BY <3>2, <4>1, LeastNat
      <4>3. k \in held
        <5> HIDE DEF held
        <5> QED BY <3>2, <4>2
      <4> QED BY <1>2, <4>3
    <3> QED BY <3>1, <3>2
  <2>3. held # {} => k < n /\ at(k) = RETURN
    <3>1. \A i \in held : i < n /\ at(i) = RETURN
      BY <1>2
    <3> HIDE DEF held, k
    <3> QED BY <2>2, <3>1
  <2>4. [i \in 1 .. k |-> at(i - 1)] = Ring(q, h, k)
    <3> HIDE DEF k
    <3>1. \A i \in 1 .. k : h + (i - 1) = h + i - 1
      BY <1>2, <2>2, KbdbufAssumption DEF Place
    <3> QED BY <3>1 DEF Ring
  <2>5. Flags
    <3> HIDE DEF held
    <3> QED BY <1>1, <1>5, <2>1 DEF Flags, OneAlarm
  <2> HIDE DEF k, held, n
  <2>6. k \in Nat /\ k <= num /\ k <= BufferSize /\ num - k \in Nat
    BY <1>2, <2>2, KbdbufAssumption
  <2>7. delayed' => num - k > 0 /\ q[(h + k) % QueueSize] = RETURN /\ k < BufferSize
    <3>1. delayed' => held # {}
      BY <2>1, Zenon
    <3>2. k < n => num - k > 0 /\ k < BufferSize
      BY <1>2, <2>6, KbdbufAssumption
    <3> QED BY <2>3, <3>1, <3>2
  <2>8. Flushed(q, h, num, k)
    BY <1>5, <2>1, <2>4, <2>6, <2>7 DEF Flushed
  <2> QED BY <2>5, <2>6, <2>8
<1> QED BY <1>4, <1>5

\* The ring with a text behind what it holds.
Stored(text) ==
  LET tail == (headIdx + numPending) % QueueSize
      offset(p) == (p - tail) % QueueSize
  IN  [p \in Place |-> IF offset(p) < Len(text) THEN text[offset(p) + 1] ELSE queue[p]]

\* string_to_queue() overwrites nothing that waits.
LEMMA StoredBehind ==
  ASSUME TypeOK, NEW text \in Seq(Char), numPending + Len(text) <= QueueSize
  PROVE  /\ Stored(text) \in Rings
         /\ Ring(Stored(text), headIdx, numPending + Len(text)) = Pending \o text
<1> DEFINE h == headIdx
           m == numPending
           len == Len(text)
           q == Stored(text)
           offset(p) == (p - ((h + m) % QueueSize)) % QueueSize
<1>1. /\ QueueSize \in Nat \ {0} /\ h \in Place /\ m \in 0 .. QueueSize /\ len \in Nat
      /\ m + len <= QueueSize /\ queue \in Rings /\ h \in Nat /\ m \in Nat
  BY KbdbufAssumption, LenProperties DEF TypeOK, Place, Rings
<1>2. ASSUME NEW p \in Place
      PROVE  offset(p) \in Place /\ q[p] \in Char
             /\ q[p] = IF offset(p) < len THEN text[offset(p) + 1] ELSE queue[p]
  <2>1. \A a \in Place : a \in Int
    BY DEF Place
  <2>2. offset(p) \in Place
    <3>1. h + m \in Int
      BY <1>1
    <3>2. (h + m) % QueueSize \in Place
      BY <3>1, PlaceType
    <3>3. p - ((h + m) % QueueSize) \in Int
      BY <2>1, <3>2
    <3> QED BY <3>3, PlaceType
  <2>3. q[p] = IF offset(p) < len THEN text[offset(p) + 1] ELSE queue[p]
    BY DEF Stored
  <2>4. offset(p) < len => text[offset(p) + 1] \in Char
    <3>1. offset(p) < len => offset(p) + 1 \in 1 .. Len(text)
      BY <1>1, <2>2 DEF Place
    <3> QED BY <3>1, ElementOfSeq
  <2>5. queue[p] \in Char
    BY <1>1 DEF Rings
  <2> QED BY <2>2, <2>3, <2>4, <2>5
<1>3. q \in Rings
  <2>1. q = [p \in Place |-> q[p]]
    BY DEF Stored
  <2> HIDE DEF q
  <2> QED BY <1>2, <2>1 DEF Rings
<1>4. /\ Ring(q, h, m + len) \in Seq(Char) /\ Len(Ring(q, h, m + len)) = m + len
      /\ \A i \in 1 .. m + len : Ring(q, h, m + len)[i] = q[(h + i - 1) % QueueSize]
  <2>1. m + len \in Nat
    BY <1>1
  <2> HIDE DEF q
  <2> QED BY <1>1, <1>3, <2>1, RingType
<1>5. /\ Pending \in Seq(Char) /\ Len(Pending) = m
      /\ \A i \in 1 .. m : Pending[i] = queue[(h + i - 1) % QueueSize]
  BY <1>1, RingType DEF Ring, Pending
<1>6. /\ Pending \o text \in Seq(Char) /\ Len(Pending \o text) = m + len
      /\ \A i \in 1 .. m + len : (Pending \o text)[i]
            = IF i <= m THEN Pending[i] ELSE text[i - m]
  BY <1>1, <1>5, ConcatProperties
<1>7. ASSUME NEW i \in 1 .. m + len
      PROVE  Ring(q, h, m + len)[i] = (Pending \o text)[i]
  <2> DEFINE p == (h + i - 1) % QueueSize
  <2>1. i - 1 \in 0 .. QueueSize - 1 /\ h + (i - 1) = h + i - 1 /\ h + i - 1 \in Int
    BY <1>1
  <2>2. p \in Place
    BY <2>1, PlaceType
  <2>3. offset(p) = IF i - 1 >= m THEN i - 1 - m ELSE i - 1 - m + QueueSize
    BY <1>1, <2>1, ModDistance DEF Place
  <2>4. q[p] = IF offset(p) < len THEN text[offset(p) + 1] ELSE queue[p]
    BY <1>2, <2>2
  <2> HIDE DEF offset, q
  <2>5. CASE i <= m
    <3>1. ~ (offset(p) < len)
      BY <1>1, <2>3, <2>5
    <3> QED BY <1>1, <1>4, <1>5, <1>6, <2>4, <2>5, <3>1
  <2>6. CASE i > m
    <3>1. i - 1 >= m /\ i - 1 - m < len /\ i - 1 - m + 1 = i - m
      BY <1>1, <2>6
    <3>2. offset(p) < len /\ offset(p) + 1 = i - m
      BY <2>3, <3>1
    <3>3. q[p] = text[i - m]
      BY <2>4, <3>2
    <3>4. Ring(q, h, m + len)[i] = q[p]
      BY <1>4
    <3>5. (Pending \o text)[i] = text[i - m]
      BY <1>1, <1>6, <2>6
    <3> QED BY <3>3, <3>4, <3>5
  <2>7. i <= m \/ i > m
    BY <1>1
  <2> QED BY <2>5, <2>6, <2>7
<1>8. Ring(q, h, m + len) = Pending \o text
  <2> HIDE DEF q
  <2> QED BY <1>4, <1>6, <1>7, SeqEqual
<1> QED BY <1>3, <1>8

-----------------------------------------------------------------------------
(* The steps that move characters from the ring to the KERNAL's buffer.    *)

\* The length of a flushed buffer.
LEMMA FlushedLength ==
  ASSUME HeldInv, NEW q \in Rings, NEW n \in 0 .. QueueSize, NEW k \in 0 .. n,
         Flushed(q, headIdx, n, k)
  PROVE  /\ buffer' \in Seq(Char)
         /\ Len(buffer') = IF k = 0 THEN Len(buffer) ELSE k
         /\ Len(buffer) \in Nat
<1>1. headIdx \in Place /\ buffer \in Seq(Char) /\ k \in Nat
  BY KbdbufAssumption DEF HeldInv, TypeOK, Place
<1>2. Ring(q, headIdx, k) \in Seq(Char) /\ Len(Ring(q, headIdx, k)) = k
  BY <1>1, RingType
<1>3. Len(buffer) \in Nat
  BY <1>1, LenProperties
<1>4. buffer' \in Seq(Char) /\ Len(buffer') = Len(buffer) + k
  BY <1>1, <1>2, ConcatProperties DEF Flushed
<1>5. k > 0 => Len(buffer) = 0
  BY EmptySeq DEF Flushed
<1> QED BY <1>1, <1>3, <1>4, <1>5

\* What such a step does to the invariants and to the fifo.
LEMMA FlushedKeeps ==
  ASSUME HeldInv, NEW n \in 0 .. QueueSize, NEW k \in 0 .. n, queue' \in Rings,
         Flushed(queue', headIdx, n, k)
  PROVE  /\ headIdx' \in Place /\ numPending' \in 0 .. QueueSize
         /\ buffer' \in Seq(Char) /\ HeldReturn'
         /\ RoomInv => RoomInv'
         /\ Fifo!Deliver(Ring(queue', headIdx, n), k)
<1>1. headIdx \in Place /\ n \in Nat /\ k \in Nat /\ BufferSize \in Nat \ {0}
      /\ QueueSize \in Nat
  BY KbdbufAssumption DEF HeldInv, TypeOK, Place
<1>2. headIdx' \in Place
  <2>1. headIdx + k \in Int
    BY <1>1, KbdbufAssumption DEF Place
  <2> QED BY <2>1, PlaceType DEF Flushed
<1>3. numPending' \in 0 .. QueueSize
  BY <1>1 DEF Flushed
<1>4. /\ buffer' \in Seq(Char) /\ Len(buffer) \in Nat
      /\ Len(buffer') = IF k = 0 THEN Len(buffer) ELSE k
  BY FlushedLength
<1>5. HeldReturn'
  BY DEF Flushed, HeldReturn
<1>6. ASSUME RoomInv PROVE RoomInv'
  <2>1. Len(buffer) <= BufferSize /\ (delayed => Len(buffer) < BufferSize)
    BY <1>6 DEF RoomInv, NoOverrun
  <2>2. k <= BufferSize
    BY DEF Flushed
  <2>3. Len(buffer') <= BufferSize
    BY <1>1, <1>4, <2>1, <2>2
  <2>4. CASE delayed' /\ delayed
    <3>1. k = 0
      BY <1>1, <2>4 DEF Flushed
    <3> QED BY <1>4, <2>1, <2>3, <2>4, <3>1 DEF RoomInv, NoOverrun
  <2>5. CASE delayed' /\ ~ delayed
    <3>1. k < BufferSize /\ buffer = <<>>
      BY <2>5 DEF Flushed
    <3>2. Len(buffer) = 0
      BY <3>1, EmptySeq
    <3> QED BY <1>1, <1>4, <2>3, <3>1, <3>2 DEF RoomInv, NoOverrun
  <2>6. CASE ~ delayed'
    BY <2>3, <2>6 DEF RoomInv, NoOverrun
  <2> QED BY <2>4, <2>5, <2>6
<1>7. Fifo!Deliver(Ring(queue', headIdx, n), k)
  <2> DEFINE all == Ring(queue', headIdx, n)
  <2>1. /\ Ring(queue', headIdx, k) = SubSeq(all, 1, k)
        /\ Ring(queue', (headIdx + k) % QueueSize, n - k) = SubSeq(all, k + 1, n)
    BY <1>1, RingTaken
  <2>2. Len(all) = n
    BY <1>1, RingType
  <2>3. Pending' = Ring(queue', (headIdx + k) % QueueSize, n - k)
    <3>1. Pending' = Ring(queue', headIdx', numPending')
      BY DEF Pending, Ring
    <3> QED BY <3>1 DEF Flushed
  <2>4. buffer' = buffer \o Ring(queue', headIdx, k) /\ k <= BufferSize
    BY DEF Flushed
  <2>5. k > 0 => Len(buffer') <= BufferSize
    BY <1>4, <2>4
  <2> HIDE DEF all
  <2>6. Pending' = SubSeq(all, k + 1, Len(all)) /\ buffer' = buffer \o SubSeq(all, 1, k)
    BY <2>1, <2>2, <2>3, <2>4
  <2>7. Fifo!Deliver(all, k)
    BY <2>5, <2>6 DEF Fifo!Deliver
  <2> QED BY <2>7 DEF all
<1> QED BY <1>2, <1>3, <1>4, <1>5, <1>6, <1>7

\* What each step does.  With keys typed while a RETURN is held back (the only
\* member of InDelay that HeldInv bears) the KERNAL's buffer may be full.
FifoStep == [Fifo!Next]_<<Pending, buffer>>

Keeps == HeldInv' /\ (InDelay = {} /\ RoomInv => RoomInv' /\ FifoStep)

LEMMA FlushKeeps ==
  ASSUME HeldInv, Flush
  PROVE  Keeps
<1>1. /\ queue \in Rings /\ headIdx \in Place /\ numPending \in 0 .. QueueSize
      /\ useAlarm \in BOOLEAN
  BY DEF HeldInv, TypeOK, Rings, Place
<1>2. delayed => numPending > 0 /\ queue[headIdx] = RETURN
  BY DEF HeldInv, HeldReturn
<1>3. FlushFrom(queue, headIdx, numPending, useAlarm)
      /\ UNCHANGED <<queue, useAlarm, enabled, ready>>
  BY DEF Flush, config
<1>4. Flags /\ \E k \in 0 .. numPending : Flushed(queue, headIdx, numPending, k)
  BY <1>1, <1>2, <1>3, FlushMoves
<1>5. PICK k \in 0 .. numPending : Flushed(queue', headIdx, numPending, k)
  BY <1>3, <1>4
<1>6. queue' \in Rings
  BY <1>1, <1>3
<1>7. /\ headIdx' \in Place /\ numPending' \in 0 .. QueueSize
      /\ buffer' \in Seq(Char) /\ HeldReturn'
      /\ RoomInv => RoomInv'
      /\ Fifo!Deliver(Ring(queue', headIdx, numPending), k)
  BY <1>1, <1>5, <1>6, FlushedKeeps
<1>8. HeldInv'
  <2>1. {enabled, ready, useAlarm}' \subseteq BOOLEAN
    BY <1>3 DEF HeldInv, TypeOK
  <2>2. {cmdline, delayed, alarm, orphan}' \subseteq BOOLEAN /\ OneAlarm'
    BY <1>4 DEF Flags, HeldInv, TypeOK
  <2>3. TypeOK'
    BY <1>6, <1>7, <2>1, <2>2 DEF TypeOK, Rings, Place
  <2> QED BY <1>7, <2>2, <2>3 DEF HeldInv
<1>9. FifoStep
  <2>1. Ring(queue', headIdx, numPending) = Pending
    BY <1>3 DEF Pending, Ring
  <2>2. Len(Pending) = numPending
    BY <1>1, RingType, KbdbufAssumption DEF Pending, Ring
  <2>3. CASE k = 0
    <3>1. headIdx' = headIdx /\ numPending' = numPending
      BY <1>1, <1>5, <2>3, PlaceOfHead DEF Flushed
    <3>2. buffer' = buffer
      BY <1>5, <2>3, RingEmpty, ConcatEmptySeq DEF Flushed, HeldInv, TypeOK
    <3>3. Pending' = Pending
      BY <1>3, <3>1 DEF Pending
    <3> QED BY <3>2, <3>3 DEF FifoStep
  <2>4. CASE k > 0
    <3>1. k \in 1 .. Len(Pending)
      BY <1>1, <2>2, <2>4
    <3>2. Fifo!Flush
      BY <1>7, <2>1, <3>1, Zenon DEF Fifo!Flush
    <3> QED BY <3>2 DEF FifoStep, Fifo!Next
  <2> QED BY <1>1, <2>3, <2>4
<1> QED BY <1>7, <1>8, <1>9 DEF Keeps

\* kbdbuf_feed() and its variants: the text goes behind what waits, or nowhere.
LEMMA StringToQueueKeeps ==
  ASSUME HeldInv, NEW text \in Text \cup {CmdlineText}, NEW runcmd \in BOOLEAN,
         StringToQueue(text, runcmd), useAlarm' = runcmd, UNCHANGED config
  PROVE  Keeps
<1>1. /\ TypeOK /\ headIdx \in Place /\ numPending \in 0 .. QueueSize
      /\ text \in Seq(Char) /\ Len(text) \in Nat
      /\ QueueSize \in Nat /\ numPending \in Nat /\ queue \in Rings
  BY KbdbufAssumption, LenProperties DEF HeldInv, TypeOK, Place, Rings
<1>2. {enabled, ready, useAlarm}' \subseteq BOOLEAN
  BY DEF HeldInv, TypeOK, config
<1>3. CASE numPending + Len(text) > QueueSize \/ ~ enabled
  <2>1. UNCHANGED <<queue, headIdx, numPending, delayed, alarm, orphan, cmdline, buffer>>
    BY <1>3 DEF StringToQueue, ring, alarms
  <2>2. HeldInv'
    BY <1>2, <2>1 DEF HeldInv, TypeOK, OneAlarm, HeldReturn
  <2>3. RoomInv => RoomInv'
    BY <2>1 DEF RoomInv, NoOverrun
  <2>4. FifoStep
    BY <2>1 DEF FifoStep, Pending
  <2> QED BY <2>2, <2>3, <2>4 DEF Keeps
<1>4. CASE ~ (numPending + Len(text) > QueueSize \/ ~ enabled)
  <2> DEFINE n == numPending + Len(text)
             q == Stored(text)
  <2>1. n \in 0 .. QueueSize
    BY <1>1, <1>4
  <2>2. q \in Rings /\ Ring(q, headIdx, n) = Pending \o text
    BY <1>1, <2>1, StoredBehind
  <2>3. queue' = q /\ FlushFrom(q, headIdx, n, runcmd)
    BY <1>4 DEF StringToQueue, Stored, Place
  <2> HIDE DEF q
  <2>4. delayed => n > 0 /\ q[headIdx] = RETURN
    <3> SUFFICES ASSUME delayed PROVE n > 0 /\ q[headIdx] = RETURN
      OBVIOUS
    <3>1. numPending > 0 /\ queue[headIdx] = RETURN
      BY DEF HeldInv, HeldReturn
    <3>2. n > 0 /\ 1 \in 1 .. n /\ 1 \in 1 .. numPending /\ n \in Nat
      BY <1>1, <3>1
    <3>3. (headIdx + 1 - 1) % QueueSize = headIdx
      <4>1. headIdx + 1 - 1 = headIdx
        BY <1>1, KbdbufAssumption DEF Place
      <4> QED BY <1>1, <4>1, PlaceOfHead
    <3>4. Ring(q, headIdx, n)[1] = q[headIdx]
      BY <3>2, <3>3 DEF Ring
    <3>5. Pending \in Seq(Char) /\ Len(Pending) = numPending
      BY <1>1, RingType DEF Pending, Ring
    <3>6. Pending[1] = queue[headIdx]
      BY <3>2, <3>3 DEF Pending
    <3>7. (Pending \o text)[1] = Pending[1]
      <4>1. 1 \in 1 .. Len(Pending) + Len(text) /\ 1 <= Len(Pending)
        BY <1>1, <3>2, <3>5
      <4> QED BY <1>1, <3>5, <4>1, ConcatProperties
    <3> QED BY <2>2, <3>1, <3>2, <3>4, <3>6, <3>7
  <2>5. Flags /\ \E k \in 0 .. n : Flushed(q, headIdx, n, k)
    BY <1>1, <2>1, <2>2, <2>3, <2>4, FlushMoves
  <2>6. PICK k \in 0 .. n : Flushed(queue', headIdx, n, k)
    BY <2>3, <2>5
  <2>7. queue' \in Rings
    BY <2>2, <2>3
  <2> HIDE DEF n
  <2>8. /\ headIdx' \in Place /\ numPending' \in 0 .. QueueSize
        /\ buffer' \in Seq(Char) /\ HeldReturn'
        /\ RoomInv => RoomInv'
        /\ Fifo!Deliver(Ring(queue', headIdx, n), k)
    BY <2>1, <2>6, <2>7, FlushedKeeps
  <2>9. HeldInv'
    <3>1. {cmdline, delayed, alarm, orphan}' \subseteq BOOLEAN /\ OneAlarm'
      BY <2>5 DEF Flags, HeldInv, TypeOK
    <3>2. TypeOK'
      BY <1>2, <2>7, <2>8, <3>1 DEF TypeOK, Rings, Place
    <3> QED BY <2>8, <3>1, <3>2 DEF HeldInv
  <2>10. FifoStep
    <3> DEFINE all == Pending \o text
    <3>1. Ring(queue', headIdx, n) = all
      BY <2>2, <2>3
    <3>2. Len(all) = n
      BY <1>1, <2>1, <2>2, RingType, KbdbufAssumption
    <3>3. k \in 0 .. Len(all) /\ Fifo!Deliver(all, k)
      BY <2>8, <3>1, <3>2, Zenon
    <3>4. Fifo!Feed
      BY <3>3 DEF Fifo!Feed
    <3> QED BY <3>4 DEF FifoStep, Fifo!Next
  <2> QED BY <2>8, <2>9, <2>10 DEF Keeps
<1> QED BY <1>3, <1>4

\* The alarm finds its RETURN at the head of the queue and room for it.
LEMMA AlarmKeeps ==
  ASSUME HeldInv, AlarmTriggered
  PROVE  Keeps
<1>1. /\ TypeOK /\ headIdx \in Place /\ numPending \in 0 .. QueueSize
      /\ QueueSize \in Nat /\ numPending \in Nat /\ queue \in Rings
      /\ buffer \in Seq(Char) /\ OneAlarm /\ HeldReturn
  BY KbdbufAssumption DEF HeldInv, TypeOK, Place, Rings
<1>2. delayed /\ numPending > 0 /\ queue[headIdx] = RETURN
  <2>1. delayed
    BY <1>1, Zenon DEF AlarmTriggered, OneAlarm
  <2> QED BY <1>1, <2>1 DEF HeldReturn
<1>3. /\ alarm' = FALSE /\ delayed' = FALSE /\ buffer' = Append(buffer, RETURN)
      /\ numPending' = numPending - 1 /\ headIdx' = (headIdx + 1) % QueueSize
      /\ UNCHANGED <<queue, orphan, cmdline, useAlarm, enabled, ready>>
  BY DEF AlarmTriggered, Return, config
<1>4. RETURN \in Char
  BY KbdbufAssumption DEF RETURN
<1>5. buffer' \in Seq(Char) /\ Len(buffer') = Len(buffer) + 1 /\ Len(buffer) \in Nat
  BY <1>1, <1>3, <1>4, AppendProperties, LenProperties
<1>6. HeldInv'
  <2>1. headIdx' \in Place
    <3>1. headIdx + 1 \in Int
      BY <1>1, KbdbufAssumption DEF Place
    <3> QED BY <1>3, <3>1, PlaceType
  <2>2. numPending' \in 0 .. QueueSize
    BY <1>1, <1>2, <1>3
  <2>3. {enabled, ready, cmdline, useAlarm, delayed, alarm, orphan}' \subseteq BOOLEAN
    BY <1>1, <1>3 DEF TypeOK
  <2>4. TypeOK'
    BY <1>1, <1>3, <1>5, <2>1, <2>2, <2>3 DEF TypeOK, Place, Rings
  <2>5. OneAlarm' /\ HeldReturn'
    BY <1>1, <1>3 DEF OneAlarm, HeldReturn
  <2> QED BY <2>4, <2>5 DEF HeldInv
<1>7. ASSUME RoomInv PROVE RoomInv' /\ FifoStep
  <2>1. Len(buffer) < BufferSize /\ BufferSize \in Nat
    BY <1>2, <1>7, KbdbufAssumption DEF RoomInv
  <2>2. Len(buffer') <= BufferSize
    BY <1>5, <2>1
  <2>3. RoomInv'
    BY <1>3, <2>2 DEF RoomInv, NoOverrun
  <2>4. /\ Ring(queue, headIdx, 1) = SubSeq(Pending, 1, 1)
        /\ Ring(queue, headIdx', numPending') = SubSeq(Pending, 1 + 1, numPending)
    <3>1. 1 \in 0 .. numPending
      BY <1>1, <1>2
    <3>2. Pending = Ring(queue, headIdx, numPending)
      BY DEF Pending, Ring
    <3> QED BY <1>1, <1>3, <3>1, <3>2, RingTaken
  <2>5. Len(Pending) = numPending
    BY <1>1, RingType DEF Pending, Ring
  <2>6. Pending' = SubSeq(Pending, 1 + 1, Len(Pending))
    <3>1. Pending' = Ring(queue', headIdx', numPending')
      BY DEF Pending, Ring
    <3> QED BY <1>3, <2>4, <2>5, <3>1
  <2>7. SubSeq(Pending, 1, 1) = <<RETURN>>
    <3>1. (headIdx + 1 - 1) % QueueSize = headIdx
      <4>1. headIdx + 1 - 1 = headIdx
        BY <1>1, KbdbufAssumption DEF Place
      <4> QED BY <1>1, <4>1, PlaceOfHead
    <3>2. Ring(queue, headIdx, 1)[1] = RETURN
      BY <1>2, <3>1 DEF Ring
    <3>3. Ring(queue, headIdx, 1) \in Seq(Char) /\ Len(Ring(queue, headIdx, 1)) = 1
      BY <1>1, RingType
    <3>4. <<RETURN>> \in Seq(Char) /\ Len(<<RETURN>>) = 1 /\ <<RETURN>>[1] = RETURN
      BY <1>4
    <3>5. \A i \in 1 .. 1 : Ring(queue, headIdx, 1)[i] = <<RETURN>>[i]
      BY <3>2, <3>4
    <3>6. Ring(queue, headIdx, 1) = <<RETURN>>
      BY <3>3, <3>4, <3>5, SeqEqual
    <3> QED BY <2>4, <3>6
  <2>8. buffer' = buffer \o SubSeq(Pending, 1, 1)
    <3>1. buffer' = buffer \o <<RETURN>>
      BY <1>1, <1>3, <1>4, AppendIsConcat
    <3> QED BY <2>7, <3>1
  <2>9. Fifo!Deliver(Pending, 1)
    BY <2>2, <2>6, <2>8 DEF Fifo!Deliver
  <2>10. 1 \in 1 .. Len(Pending)
    BY <1>1, <1>2, <2>5
  <2>11. Fifo!Flush
    BY <2>9, <2>10 DEF Fifo!Flush
  <2> QED BY <2>3, <2>11 DEF FifoStep, Fifo!Next
<1> QED BY <1>6, <1>7 DEF Keeps

\* The KERNAL's buffer is cleared: by a reset, a relocation or the KERNAL itself.
LEMMA ClearedKeeps ==
  ASSUME UNCHANGED ring, buffer' = <<>>
  PROVE  RoomInv' /\ FifoStep
<1>1. Len(buffer') = 0
  OBVIOUS
<1>2. RoomInv'
  BY <1>1, KbdbufAssumption DEF RoomInv, NoOverrun
<1>3. Pending' = Pending
  BY DEF Pending, ring
<1>4. CASE buffer = <<>>
  BY <1>2, <1>3, <1>4 DEF FifoStep
<1>5. CASE buffer # <<>>
  <2>1. Fifo!Read
    BY <1>3, <1>5 DEF Fifo!Read
  <2> QED BY <1>2, <2>1 DEF FifoStep, Fifo!Next
<1> QED BY <1>4, <1>5

\* Resets and re-initializations, which wait until no RETURN is held back.
LEMMA ResetsKeep ==
  ASSUME HeldInv, InDelay \subseteq {"type"}, Reset \/ Relocate \/ Reinit
  PROVE  Keeps
<1>1. TypeOK /\ OneAlarm /\ HeldReturn
  BY DEF HeldInv
<1>2. CASE Reset
  <2>1. ~ delayed /\ cmdline \in BOOLEAN
    BY <1>1, <1>2 DEF Reset, TypeOK
  <2>2. /\ numPending' = IF cmdline THEN numPending ELSE 0
        /\ ready' = FALSE
        /\ UNCHANGED <<queue, headIdx, enabled, cmdline, useAlarm, delayed, alarm,
                        orphan, buffer>>
    BY <1>2 DEF Reset, alarms
  <2>3. HeldInv'
    <3>1. numPending' \in 0 .. QueueSize
      BY <1>1, <2>2, KbdbufAssumption DEF TypeOK
    <3>2. {enabled, ready, cmdline, useAlarm, delayed, alarm, orphan}' \subseteq BOOLEAN
      BY <1>1, <2>2 DEF TypeOK
    <3>3. TypeOK'
      BY <1>1, <2>2, <3>1, <3>2 DEF TypeOK
    <3> QED BY <1>1, <2>1, <2>2, <3>3 DEF HeldInv, OneAlarm, HeldReturn
  <2>4. RoomInv => RoomInv'
    BY <2>2 DEF RoomInv, NoOverrun
  <2>5. CASE cmdline
    <3>1. Pending' = Pending
      BY <2>2, <2>5 DEF Pending
    <3> QED BY <2>2, <2>3, <2>4, <3>1 DEF Keeps, FifoStep
  <2>6. CASE ~ cmdline
    <3>1. Pending' = <<>>
      BY <2>2, <2>6 DEF Pending
    <3>2. Fifo!Abort
      BY <2>2, <3>1 DEF Fifo!Abort
    <3> QED BY <2>3, <2>4, <3>2 DEF Keeps, FifoStep, Fifo!Next
  <2> QED BY <2>1, <2>5, <2>6
<1>3. CASE Relocate
  <2>1. /\ enabled' \in BOOLEAN /\ ready' \in BOOLEAN /\ buffer' = <<>> /\ UNCHANGED ring
        /\ UNCHANGED <<queue, headIdx, numPending, cmdline, useAlarm, delayed, alarm, orphan>>
    BY <1>3 DEF Relocate, ring, alarms
  <2>2. HeldInv'
    <3>1. {enabled, ready, cmdline, useAlarm, delayed, alarm, orphan}' \subseteq BOOLEAN
      BY <1>1, <2>1 DEF TypeOK
    <3>2. buffer' \in Seq(Char)
      BY <2>1
    <3> QED BY <1>1, <2>1, <3>1, <3>2 DEF HeldInv, TypeOK, OneAlarm, HeldReturn
  <2> QED BY <2>1, <2>2, ClearedKeeps DEF Keeps
<1>4. CASE Reinit
  <2>1. ~ delayed /\ ~ alarm /\ ~ orphan /\ {alarm, orphan} \subseteq BOOLEAN
    BY <1>1, <1>4 DEF Reinit, OneAlarm, TypeOK
  <2>2. /\ enabled' \in BOOLEAN /\ ready' \in BOOLEAN /\ buffer' = <<>> /\ UNCHANGED ring
        /\ alarm' = FALSE /\ orphan' = (orphan \/ alarm)
        /\ UNCHANGED <<queue, headIdx, numPending, cmdline, useAlarm, delayed>>
    BY <1>4 DEF Reinit, ring
  <2>3. orphan' = FALSE
    BY <2>1, <2>2
  <2>4. HeldInv'
    <3>1. {enabled, ready, cmdline, useAlarm, delayed, alarm, orphan}' \subseteq BOOLEAN
      BY <1>1, <2>2, <2>3 DEF TypeOK
    <3>2. buffer' \in Seq(Char)
      BY <2>2
    <3>3. OneAlarm'
      BY <2>1, <2>2, <2>3 DEF OneAlarm
    <3> QED BY <1>1, <2>2, <3>1, <3>2, <3>3 DEF HeldInv, TypeOK, HeldReturn
  <2> QED BY <2>2, <2>4, ClearedKeeps DEF Keeps
<1> QED BY <1>2, <1>3, <1>4

\* The machine: what the KERNAL reads or clears, what is typed.
LEMMA MachineKeeps ==
  ASSUME HeldInv, InDelay \subseteq {"type"}, KernalInit \/ KernalRead \/ Type
  PROVE  Keeps
<1>1. TypeOK /\ OneAlarm /\ HeldReturn /\ buffer \in Seq(Char)
  BY DEF HeldInv, TypeOK
<1>2. Len(buffer) \in Nat
  BY <1>1, LenProperties
<1>3. /\ UNCHANGED <<ring, queue, headIdx, numPending, cmdline, useAlarm>>
      /\ UNCHANGED <<enabled, delayed, alarm, orphan>>
  BY DEF KernalInit, KernalRead, Type, ring, alarms, config
<1>4. ready' \in BOOLEAN
  BY <1>1 DEF KernalInit, KernalRead, Type, config, TypeOK
<1>5. ASSUME buffer' \in Seq(Char)
      PROVE  HeldInv'
  <2>1. {enabled, ready, cmdline, useAlarm, delayed, alarm, orphan}' \subseteq BOOLEAN
    BY <1>1, <1>3, <1>4 DEF TypeOK
  <2> QED BY <1>1, <1>3, <1>5, <2>1 DEF HeldInv, TypeOK, OneAlarm, HeldReturn
<1>6. Pending' = Pending
  BY <1>3 DEF Pending
<1>7. CASE KernalInit
  <2>1. buffer' = <<>>
    BY <1>7 DEF KernalInit
  <2>2. buffer' \in Seq(Char)
    BY <2>1
  <2> QED BY <1>3, <1>5, <2>1, <2>2, ClearedKeeps DEF Keeps
<1>8. CASE KernalRead
  <2>1. buffer # <<>> /\ buffer' = Tail(buffer)
    BY <1>8 DEF KernalRead
  <2>2. buffer' \in Seq(Char) /\ Len(buffer') = Len(buffer) - 1
    BY <1>1, <2>1, HeadTailProperties
  <2>3. RoomInv => RoomInv'
    BY <1>2, <1>3, <2>2, KbdbufAssumption DEF RoomInv, NoOverrun
  <2>4. Fifo!Read
    BY <1>6, <2>1 DEF Fifo!Read
  <2> QED BY <1>5, <2>2, <2>3, <2>4 DEF Keeps, FifoStep, Fifo!Next
<1>9. CASE Type
  <2>1. Len(buffer) < BufferSize /\ buffer' = Append(buffer, "key") /\ "key" \in Char
    BY <1>9, KbdbufAssumption DEF Type
  <2>2. buffer' \in Seq(Char) /\ Len(buffer') = Len(buffer) + 1
    BY <1>1, <2>1, AppendProperties
  <2>3. ASSUME InDelay = {} PROVE ~ delayed
    BY <1>9, <2>3 DEF Type
  <2>4. InDelay = {} => RoomInv'
    BY <1>2, <1>3, <2>1, <2>2, <2>3, KbdbufAssumption DEF RoomInv, NoOverrun
  <2>5. Fifo!Type
    BY <1>6, <2>1 DEF Fifo!Type
  <2> QED BY <1>5, <2>2, <2>4, <2>5 DEF Keeps, FifoStep, Fifo!Next
<1> QED BY <1>7, <1>8, <1>9

LEMMA StepKeeps ==
  ASSUME HeldInv, InDelay \subseteq {"type"}, [Next]_vars
  PROVE  Keeps
<1>1. CASE Feed
  <2>1. PICK text \in Text, runcmd \in BOOLEAN :
          useAlarm' = runcmd /\ StringToQueue(text, runcmd)
    BY <1>1 DEF Feed
  <2>2. UNCHANGED config
    BY <1>1 DEF Feed
  <2> QED BY <2>1, <2>2, StringToQueueKeeps
<1>2. CASE FeedCmdline
  BY <1>2, StringToQueueKeeps, KbdbufAssumption DEF FeedCmdline
<1>3. CASE UNCHANGED vars
  <2>1. /\ UNCHANGED <<queue, headIdx, numPending, cmdline, useAlarm, delayed, alarm>>
        /\ UNCHANGED <<orphan, buffer, enabled, ready>>
    BY <1>3 DEF vars, ring, alarms, config
  <2>2. HeldInv' /\ (RoomInv => RoomInv')
    BY <2>1 DEF HeldInv, TypeOK, OneAlarm, HeldReturn, RoomInv, NoOverrun
  <2>3. FifoStep
    BY <2>1 DEF FifoStep, Pending
  <2> QED BY <2>2, <2>3 DEF Keeps
<1> QED BY <1>1, <1>2, <1>3, FlushKeeps, AlarmKeeps, ResetsKeep, MachineKeeps DEF Next

LEMMA InitHolds ==
  ASSUME Init
  PROVE  HeldInv /\ RoomInv /\ Fifo!Init
<1>1. /\ QueueSize \in Nat \ {0} /\ BufferSize \in Nat \ {0} /\ "zero" \in Char
  BY KbdbufAssumption
<1>2. buffer = <<>> /\ Len(buffer) = 0 /\ buffer \in Seq(Char)
  BY DEF Init
<1>3. queue \in [0 .. QueueSize - 1 -> Char] /\ headIdx \in 0 .. QueueSize - 1
      /\ numPending \in 0 .. QueueSize
  BY <1>1 DEF Init
<1>4. {enabled, ready, cmdline, useAlarm, delayed, alarm, orphan} \subseteq BOOLEAN
  BY DEF Init
<1>5. HeldInv
  BY <1>2, <1>3, <1>4 DEF Init, HeldInv, TypeOK, OneAlarm, HeldReturn
<1>6. RoomInv
  BY <1>1, <1>2 DEF Init, RoomInv, NoOverrun
<1>7. Pending = <<>>
  BY DEF Init, Pending
<1> QED BY <1>2, <1>5, <1>6, <1>7 DEF Fifo!Init

-----------------------------------------------------------------------------
(* The theorems.                                                           *)

\* Whatever is fed, read and typed, a held RETURN has the current alarm and
\* stays at the head of the queue, as long as no reset and no new kbdbuf_init()
\* comes before the alarm.
THEOREM HeldConsistent ==
  ASSUME InDelay \subseteq {"type"}
  PROVE  Spec => []HeldInv
<1>1. Init => HeldInv
  BY InitHolds
<1>2. HeldInv /\ [Next]_vars => HeldInv'
  BY StepKeeps DEF Keeps
<1> QED BY <1>1, <1>2, PTL DEF Spec

\* The ring of kbdbuf.c keeps its bounds: head_idx stays in it and num_pending
\* neither exceeds QUEUE_SIZE nor wraps below zero.
THEOREM TypeCorrect ==
  ASSUME InDelay \subseteq {"type"}
  PROVE  Spec => []TypeOK
<1>1. HeldInv => TypeOK
  BY DEF HeldInv
<1> QED BY <1>1, HeldConsistent, PTL

\* kbdbuf_flush_alarm_triggered() takes the RETURN it stands for, no other
\* character.
THEOREM HeldReturnAlways ==
  ASSUME InDelay \subseteq {"type"}
  PROVE  Spec => []HeldReturn
<1>1. HeldInv => HeldReturn
  BY DEF HeldInv
<1> QED BY <1>1, HeldConsistent, PTL

\* What a run without reset, new kbdbuf_init() or typing during the delay keeps.
LEMMA RoomConsistent ==
  ASSUME InDelay = {}
  PROVE  Spec => [](HeldInv /\ RoomInv)
<1>1. Init => HeldInv /\ RoomInv
  BY InitHolds
<1>2. HeldInv /\ RoomInv /\ [Next]_vars => (HeldInv /\ RoomInv)'
  <2>1. InDelay \subseteq {"type"}
    OBVIOUS
  <2> QED BY <2>1, StepKeeps DEF Keeps
<1> QED BY <1>1, <1>2, PTL DEF Spec

\* When nothing is typed while a RETURN is held back, the KERNAL's buffer never
\* holds more than buffer_size characters: kbdbuf_flush() writes only into an
\* empty buffer, and the alarm finds the room of the RETURN it did not write.
THEOREM NeverOverrun ==
  ASSUME InDelay = {}
  PROVE  Spec => []NoOverrun
<1>1. RoomInv => NoOverrun
  BY DEF RoomInv
<1> QED BY <1>1, RoomConsistent, PTL

\* The ring, the flushes and the alarm together implement KbdbufSpec: every
\* character fed reaches the KERNAL's buffer in order and once.
THEOREM RefinesFifo ==
  ASSUME InDelay = {}
  PROVE  Spec => ImplementsFifo
<1>1. Init => Fifo!Init
  BY InitHolds
<1>2. HeldInv /\ RoomInv /\ [Next]_vars => [Fifo!Next]_<<Pending, buffer>>
  <2>1. InDelay \subseteq {"type"}
    OBVIOUS
  <2> QED BY <2>1, StepKeeps DEF Keeps, FifoStep
<1> QED BY <1>1, <1>2, RoomConsistent, PTL DEF Spec, ImplementsFifo, Fifo!Spec
=============================================================================
