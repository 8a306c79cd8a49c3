----------------------------- MODULE HdlcProofs -----------------------------
(***************************************************************************)
(* Proofs about Hdlc for every capacity, shortest frame, raw window, set   *)
(* of contents and of recovery policies, and any amount of line noise;     *)
(* and about the check sequence and the single-bit repair, for bits of any *)
(* number.                                                                 *)
(***************************************************************************)
EXTENDS Hdlc, SequenceTheorems, FiniteSetTheorems, WellFoundedInduction, TLAPS

USE ContentsAssumption, SizeAssumption

\* A set of naturals that has a member has a least one.
LEMMA LeastOf ==
  ASSUME NEW T, T \subseteq Nat, T # {}
  PROVE  \E x \in T : \A y \in T : x <= y
<1>1. PICK x \in T : \A y \in T : ~ (<<y, x>> \in OpToRel(<, Nat))
  BY NatLessThanWellFounded, WFMin
<1>2. \A y \in T : ~(y < x)
  BY <1>1, Zenon DEF OpToRel
<1>3. \A y \in T : x <= y
  BY <1>2
<1> QED
  BY <1>3

-----------------------------------------------------------------------------
(* The frame check sequence: sixteen bits, whatever the content            *)

LEMMA UpdateType ==
  ASSUME NEW reg \in Register, NEW b \in Bit
  PROVE  update(reg, b) \in Register
<1> DEFINE fed == [reg EXCEPT ![1] = (@ + b) % 2]
           shifted == [i \in 1 .. 16 |-> IF i < 16 THEN fed[i + 1] ELSE 0]
<1>1. \A i \in 1 .. 16 : fed[i] \in {0, 1}
  <2>1. \A i \in 1 .. 16 : reg[i] \in {0, 1}
    BY DEF Register
  <2>2. (reg[1] + b) % 2 \in {0, 1}
    BY <2>1 DEF Bit
  <2> QED
    BY <2>1, <2>2 DEF Register
<1>2. \A i \in 1 .. 16 : shifted[i] \in {0, 1}
  <2> HIDE DEF fed
  <2>1. \A i \in 1 .. 16 : i < 16 => i + 1 \in 1 .. 16
    OBVIOUS
  <2> QED
    BY <1>1, <2>1
<1> HIDE DEF fed
<1>3. \A i \in 1 .. 16 : Xor(shifted, Poly)[i] \in {0, 1}
  <2> HIDE DEF shifted
  <2>1. \A i \in 1 .. 16 : Poly[i] \in {0, 1}
    BY DEF Poly
  <2> QED
    BY <1>2, <2>1 DEF Xor
<1>4. Step(fed) \in Register
  <2>1. shifted \in [1 .. 16 -> {0, 1}]
    BY <1>2
  <2>2. Xor(shifted, Poly) \in [1 .. 16 -> {0, 1}]
    BY <1>3 DEF Xor
  <2>3. Step(fed) = IF fed[1] = 1 THEN Xor(shifted, Poly) ELSE shifted
    BY DEF Step
  <2> QED
    BY <2>1, <2>2, <2>3 DEF Register
<1> QED
  BY <1>4 DEF update, fed

\* g is the register after each prefix of up to k bits.
Folds(g, bits, k) ==
  g = [n \in 0 .. k |-> IF n = 0 THEN AllOnes ELSE update(g[n - 1], bits[n])]

\* The recurrence, by itself.
Recurs(g, bits, k) == g[0] = AllOnes /\ \A n \in 1 .. k : g[n] = update(g[n - 1], bits[n])

LEMMA FoldsStep ==
  ASSUME NEW bits, NEW k \in Nat, NEW g, Folds(g, bits, k)
  PROVE  Recurs(g, bits, k)
<1>1. \A n \in 0 .. k : g[n] = IF n = 0 THEN AllOnes ELSE update(g[n - 1], bits[n])
  BY DEF Folds
<1> QED
  BY <1>1 DEF Recurs

\* There is such a function: no number of bits is the least without one.
LEMMA FoldsExists ==
  ASSUME NEW bits, NEW len \in Nat
  PROVE  \E g : Folds(g, bits, len)
<1> DEFINE T == {k \in Nat : ~ \E g : Folds(g, bits, k)}
<1>1. SUFFICES ASSUME T # {} PROVE FALSE
  OBVIOUS
<1>2. PICK k \in T : \A y \in T : k <= y
  <2>1. T \subseteq Nat
    OBVIOUS
  <2> HIDE DEF T
  <2> QED
    BY <1>1, <2>1, LeastOf
<1>3. k \in Nat /\ ~ \E g : Folds(g, bits, k)
  OBVIOUS
<1>4. k # 0
  <2> DEFINE g == [n \in 0 .. 0 |-> AllOnes]
  <2>1. \A n \in 0 .. 0 : n = 0
    OBVIOUS
  <2>2. g = [n \in 0 .. 0 |-> IF n = 0 THEN AllOnes ELSE update(g[n - 1], bits[n])]
    BY <2>1
  <2>3. Folds(g, bits, 0)
    BY <2>2 DEF Folds
  <2> QED
    BY <1>3, <2>3
<1>5. PICK h : Folds(h, bits, k - 1)
  <2>1. k - 1 \in Nat /\ ~(k <= k - 1)
    BY <1>3, <1>4
  <2>2. k - 1 \notin T
    BY <1>2, <2>1
  <2> QED
    BY <2>1, <2>2
<1> DEFINE g == [n \in 0 .. k |-> IF n = k THEN update(h[k - 1], bits[k]) ELSE h[n]]
<1>6. ASSUME NEW n \in 0 .. k
      PROVE  g[n] = IF n = 0 THEN AllOnes ELSE update(g[n - 1], bits[n])
  <2>1. \A j \in 0 .. k - 1 : g[j] = h[j] /\ h[j] = IF j = 0 THEN AllOnes ELSE update(h[j - 1], bits[j])
    <3>1. k - 1 \in Nat /\ h[0] = AllOnes /\ \A j \in 1 .. k - 1 : h[j] = update(h[j - 1], bits[j])
      <4>1. Recurs(h, bits, k - 1)
        BY <1>3, <1>4, <1>5, FoldsStep
      <4> QED
        BY <1>3, <1>4, <4>1 DEF Recurs
    <3>2. \A j \in 0 .. k - 1 : j \in 0 .. k /\ j # k /\ (j # 0 => j \in 1 .. k - 1)
      BY <1>3
    <3>3. \A j \in 0 .. k - 1 : g[j] = h[j]
      BY <3>2
    <3> HIDE DEF g
    <3> QED
      BY <3>1, <3>2, <3>3
  <2>2. g[k] = update(h[k - 1], bits[k])
    BY <1>3
  <2> HIDE DEF g
  <2>3. CASE n = k
    BY <1>3, <1>4, <2>1, <2>2, <2>3
  <2>4. CASE n # k
    <3>1. n \in 0 .. k - 1 /\ (n # 0 => n - 1 \in 0 .. k - 1)
      BY <1>3, <2>4
    <3> QED
      BY <2>1, <3>1
  <2> QED
    BY <2>3, <2>4
<1>7. Folds(g, bits, k)
  <2>1. g = [n \in 0 .. k |-> g[n]]
    OBVIOUS
  <2> HIDE DEF g
  <2> QED
    BY <1>6, <2>1 DEF Folds
<1> QED
  BY <1>3, <1>7

\* All of its values are registers.
LEMMA FoldsType ==
  ASSUME NEW bits \in Seq(Bit), NEW g, Folds(g, bits, Len(bits))
  PROVE  \A n \in 0 .. Len(bits) : g[n] \in Register
<1> DEFINE T == {n \in 0 .. Len(bits) : g[n] \notin Register}
<1>1. SUFFICES ASSUME T # {} PROVE FALSE
  BY LenProperties
<1>2. PICK n \in T : \A y \in T : n <= y
  <2>1. T \subseteq Nat
    OBVIOUS
  <2> HIDE DEF T
  <2> QED
    BY <1>1, <2>1, LeastOf
<1>3. g[0] = AllOnes /\ \A j \in 1 .. Len(bits) : g[j] = update(g[j - 1], bits[j])
  BY LenProperties, FoldsStep DEF Recurs
<1>4. n # 0
  BY <1>3 DEF AllOnes, Register
<1>5. n \in 1 .. Len(bits) /\ n - 1 \in 0 .. Len(bits) /\ ~(n <= n - 1)
  BY <1>4
<1>6. g[n - 1] \in Register
  BY <1>2, <1>5
<1>7. bits[n] \in Bit
  BY <1>5, ElementOfSeq
<1> QED
  BY <1>3, <1>5, <1>6, <1>7, UpdateType

LEMMA CrcType ==
  ASSUME NEW bits \in Seq(Bit)
  PROVE  crc16_x25(bits) \in Seq(Bit) /\ Len(crc16_x25(bits)) = 16
<1> DEFINE g == CHOOSE g : Folds(g, bits, Len(bits))
           reg == g[Len(bits)]
<1>1. reg \in Register
  <2>1. Folds(g, bits, Len(bits))
    BY FoldsExists, LenProperties
  <2> HIDE DEF g
  <2> QED
    BY <2>1, FoldsType, LenProperties
<1>2. crc16_x25(bits) = Xor(reg, AllOnes)
  BY DEF crc16_x25, Folds
<1>3. \A i \in 1 .. 16 : (reg[i] + AllOnes[i]) % 2 \in Bit
  <2> HIDE DEF reg
  <2>1. \A i \in 1 .. 16 : reg[i] \in {0, 1} /\ AllOnes[i] = 1
    BY <1>1 DEF Register, AllOnes
  <2> QED
    BY <2>1, SMTT(30) DEF Bit
<1> HIDE DEF reg
<1> DEFINE z == [i \in 1 .. 16 |-> (reg[i] + AllOnes[i]) % 2]
<1>4. crc16_x25(bits) = z
  BY <1>2 DEF Xor
<1>5. z \in [1 .. 16 -> Bit]
  BY <1>3
<1> HIDE DEF z
<1>6. z \in Seq(Bit)
  <2>1. [1 .. 16 -> Bit] \in {[1 .. n -> Bit] : n \in Nat}
    OBVIOUS
  <2> QED
    BY <1>5, <2>1, SeqDef
<1>7. Len(z) = 16
  <2>1. DOMAIN z = 1 .. 16
    BY <1>5
  <2>2. Len(z) \in Nat /\ DOMAIN z = 1 .. Len(z)
    BY <1>6, LenProperties
  <2> QED
    BY <2>1, <2>2
<1> QED
  BY <1>4, <1>6, <1>7

\* What is joined comes apart again.
LEMMA TakenApart ==
  ASSUME NEW s \in Seq(Bit), NEW t \in Seq(Bit)
  PROVE  /\ SubSeq(s \o t, 1, Len(s)) = s
         /\ SubSeq(s \o t, Len(s) + 1, Len(s) + Len(t)) = t
<1> DEFINE u == s \o t
<1>1. /\ u \in Seq(Bit) /\ Len(u) = Len(s) + Len(t)
      /\ \A i \in 1 .. Len(s) + Len(t) : u[i] = IF i <= Len(s) THEN s[i] ELSE t[i - Len(s)]
  BY ConcatProperties, Zenon
<1>2. Len(s) \in Nat /\ Len(t) \in Nat
  BY LenProperties
<1> HIDE DEF u
<1>3. \A i \in 1 .. Len(u) : u[i] \in Bit
  BY <1>1, ElementOfSeq
<1> DEFINE a == SubSeq(u, 1, Len(s))
           b == SubSeq(u, Len(s) + 1, Len(s) + Len(t))
<1>4. /\ a \in Seq(Bit) /\ Len(a) = Len(s)
      /\ \A i \in 1 .. Len(s) : a[i] = u[i]
  <2>1. \A i \in 1 .. Len(s) : u[i] \in Bit
    BY <1>1, <1>2, <1>3
  <2>2. /\ a \in Seq(Bit) /\ Len(a) = IF 1 <= Len(s) THEN Len(s) - 1 + 1 ELSE 0
        /\ \A i \in 1 .. Len(s) - 1 + 1 : a[i] = u[1 + i - 1]
    BY <1>2, <2>1, SubSeqProperties
  <2> HIDE DEF a
  <2> QED
    BY <1>2, <2>2
<1>5. /\ b \in Seq(Bit) /\ Len(b) = Len(t)
      /\ \A i \in 1 .. Len(t) : b[i] = u[Len(s) + i]
  <2> DEFINE m == Len(s) + 1
             n == Len(s) + Len(t)
  <2>1. \A i \in m .. n : u[i] \in Bit
    BY <1>1, <1>2, <1>3
  <2>2. m \in Int /\ n \in Int
    BY <1>2
  <2>3. /\ b \in Seq(Bit) /\ Len(b) = IF m <= n THEN n - m + 1 ELSE 0
        /\ \A i \in 1 .. n - m + 1 : b[i] = u[m + i - 1]
    <3> HIDE DEF m, n
    <3>1. SubSeq(u, m, n) \in Seq(Bit) /\ Len(SubSeq(u, m, n)) = (IF m <= n THEN n - m + 1 ELSE 0)
          /\ \A i \in 1 .. n - m + 1 : SubSeq(u, m, n)[i] = u[m + i - 1]
      BY <2>1, <2>2, SubSeqProperties
    <3> QED
      BY <3>1 DEF m, n
  <2> HIDE DEF b
  <2> QED
    BY <1>2, <2>3
<1> HIDE DEF a, b
<1>6. a = s
  BY <1>1, <1>2, <1>4, SeqEqual
<1>7. b = t
  <2>1. ASSUME NEW i \in 1 .. Len(t)
        PROVE  b[i] = t[i]
    <3> DEFINE j == Len(s) + i
    <3>1. j \in 1 .. Len(s) + Len(t) /\ ~(j <= Len(s)) /\ j - Len(s) = i
      BY <1>2
    <3>2. b[i] = u[j]
      BY <1>5
    <3> HIDE DEF j
    <3>3. u[j] = t[j - Len(s)]
      BY <1>1, <3>1
    <3> QED
      BY <3>1, <3>2, <3>3
  <2> QED
    BY <1>5, <2>1, SeqEqual
<1> QED
  BY <1>6, <1>7 DEF a, b, u

\* Content and FCS travel together: whole bytes, first the content and last its
\* check sequence.
LEMMA DataBitsType ==
  ASSUME NEW c \in Contents
  PROVE  /\ c \in Seq(Bit)
         /\ DataBits(c) \in Seq(Bit)
         /\ Len(DataBits(c)) = Len(c) + 16
         /\ Len(c) \in Nat /\ Len(c) % 8 = 0
         /\ SubSeq(DataBits(c), 1, Len(c)) = c
         /\ SubSeq(DataBits(c), Len(c) + 1, Len(c) + 16) = crc16_x25(c)
<1>1. c \in Seq(Bit) /\ Len(c) % 8 = 0
  OBVIOUS
<1>2. crc16_x25(c) \in Seq(Bit) /\ Len(crc16_x25(c)) = 16
  BY <1>1, CrcType
<1> DEFINE crc == crc16_x25(c)
<1> HIDE DEF crc
<1>3. crc \in Seq(Bit) /\ Len(crc) = 16
  BY <1>2 DEF crc
<1>4. c \o crc \in Seq(Bit) /\ Len(c \o crc) = Len(c) + 16
  <2>1. c \o crc \in Seq(Bit) /\ Len(c \o crc) = Len(c) + Len(crc)
    BY <1>1, <1>3, ConcatProperties, Zenon
  <2> QED
    BY <1>3, <2>1
<1>5. SubSeq(c \o crc, 1, Len(c)) = c /\ SubSeq(c \o crc, Len(c) + 1, Len(c) + 16) = crc
  <2>1. SubSeq(c \o crc, 1, Len(c)) = c /\ SubSeq(c \o crc, Len(c) + 1, Len(c) + Len(crc)) = crc
    BY <1>1, <1>3, TakenApart
  <2> QED
    BY <1>3, <2>1
<1> QED
  BY <1>1, <1>4, <1>5, LenProperties DEF DataBits, crc

-----------------------------------------------------------------------------
(* The deframer                                                            *)

Deframer ==
  [bits : Seq(Bit), count : Nat, ones : 0 .. 7, in_frame : BOOLEAN, raw : Seq(Bit), raw_len : Nat,
   window : Seq(Bit)]

LowerOf(a, b) == IF a < b THEN a ELSE b

\* What any deframer stores: as many bits as fit of those it counted, and nothing
\* outside a frame.
Stores(d) ==
  /\ d \in Deframer
  /\ Len(d.bits) = LowerOf(d.count, 8 * N)
  /\ Len(d.raw) = LowerOf(d.raw_len, RawBits)
  /\ d.count <= d.raw_len
  /\ ~d.in_frame => d.raw_len = 0

\* It is in a frame, has counted so many bits, the last so many of them ones, and
\* those it stored are data's, as far as data goes.
Holds(d, data, count, ones) ==
  /\ d.in_frame /\ d.count = count /\ d.ones = ones
  /\ \A i \in 1 .. Len(data) : i <= Len(d.bits) => d.bits[i] = data[i]

Kinds == {"None", "Ok", "Err"}

\* One bit more at the end of bits, unless the buffer is full.
Stored(d, b) == IF d.count < 8 * N THEN Append(d.bits, b) ELSE d.bits

LEMMA AppendedBit ==
  ASSUME NEW s \in Seq(Bit), NEW b \in Bit
  PROVE  /\ Append(s, b) \in Seq(Bit) /\ Len(Append(s, b)) = Len(s) + 1
         /\ \A i \in 1 .. Len(s) : Append(s, b)[i] = s[i]
         /\ Append(s, b)[Len(s) + 1] = b
         /\ Len(s) \in Nat
BY AppendProperties, LenProperties

\* What an abort and what a flag leave behind.
Dropped(d) == [reset_frame(d) EXCEPT !.in_frame = FALSE]
Reopened(d, w) == [reset_frame(d) EXCEPT !.in_frame = TRUE, !.window = w]
Empty(d) == d.in_frame /\ d.count = 0 /\ d.bits = <<>>

LEMMA ResetFrame ==
  ASSUME NEW d \in Deframer
  PROVE  /\ Stores(Dropped(d)) /\ Dropped(d).ones = d.ones
         /\ \A w \in Seq(Bit) : /\ Stores(Reopened(d, w)) /\ Reopened(d, w).ones = d.ones
                                /\ Empty(Reopened(d, w))
<1>1. <<>> \in Seq(Bit) /\ Len(<<>>) = 0
  BY EmptySeq
<1> DEFINE e == reset_frame(d)
<1>2. e \in Deframer /\ e.bits = <<>> /\ e.count = 0 /\ e.raw = <<>> /\ e.raw_len = 0 /\ e.ones = d.ones
  BY <1>1 DEF reset_frame, Deframer
<1> HIDE DEF e
<1>3. Stores([e EXCEPT !.in_frame = FALSE]) /\ [e EXCEPT !.in_frame = FALSE].ones = d.ones
  <2> DEFINE f == [e EXCEPT !.in_frame = FALSE]
  <2>1. f \in Deframer
    BY <1>2 DEF Deframer
  <2>2. /\ f.bits = <<>> /\ f.count = 0 /\ f.raw = <<>> /\ f.raw_len = 0 /\ f.in_frame = FALSE
        /\ f.ones = d.ones
    BY <1>2 DEF Deframer
  <2> HIDE DEF f
  <2>3. Stores(f)
    BY <1>1, <2>1, <2>2 DEF Stores, LowerOf
  <2> QED
    BY <2>2, <2>3 DEF f
<1>4. ASSUME NEW w \in Seq(Bit)
      PROVE  LET f == [e EXCEPT !.in_frame = TRUE, !.window = w]
             IN  Stores(f) /\ f.ones = d.ones /\ Empty(f)
  <2> DEFINE f == [e EXCEPT !.in_frame = TRUE, !.window = w]
  <2>1. f \in Deframer
    BY <1>2 DEF Deframer
  <2>2. /\ f.bits = <<>> /\ f.count = 0 /\ f.raw = <<>> /\ f.raw_len = 0 /\ f.in_frame = TRUE
        /\ f.ones = d.ones
    BY <1>2 DEF Deframer
  <2> HIDE DEF f
  <2>3. Stores(f) /\ Empty(f)
    BY <1>1, <2>1, <2>2 DEF Stores, LowerOf, Empty
  <2> QED
    BY <2>2, <2>3 DEF f
<1> QED
  BY <1>3, <1>4 DEF e, Dropped, Reopened

\* Recording a raw bit leaves the frame as it is.
LEMMA RecordRaw ==
  ASSUME NEW d, Stores(d), NEW b \in Bit
  PROVE  LET e == record_raw(d, b)
         IN  /\ e \in Deframer
             /\ e.bits = d.bits /\ e.count = d.count /\ e.ones = d.ones /\ e.in_frame = d.in_frame
             /\ e.window = d.window
             /\ e.raw_len = d.raw_len + 1 /\ Len(e.raw) = LowerOf(e.raw_len, RawBits)
<1>1. d \in Deframer /\ d.raw \in Seq(Bit) /\ d.raw_len \in Nat
  BY DEF Stores, Deframer
<1>2. Append(d.raw, b) \in Seq(Bit) /\ Len(Append(d.raw, b)) = Len(d.raw) + 1
  BY <1>1, AppendedBit
<1> DEFINE r == IF d.raw_len < RawBits THEN Append(d.raw, b) ELSE d.raw
<1>3. r \in Seq(Bit) /\ Len(r) = LowerOf(d.raw_len + 1, RawBits)
  BY <1>1, <1>2 DEF Stores, LowerOf
<1>4. record_raw(d, b) = [d EXCEPT !.raw = r, !.raw_len = d.raw_len + 1]
  BY DEF record_raw
<1> HIDE DEF r
<1> DEFINE e == [d EXCEPT !.raw = r, !.raw_len = d.raw_len + 1]
<1>5. e \in Deframer
  <2> DEFINE n == d.raw_len + 1
  <2>1. n \in Nat
    BY <1>1
  <2> HIDE DEF n
  <2>2. [d EXCEPT !.raw = r, !.raw_len = n] \in Deframer
    BY <1>1, <1>3, <2>1 DEF Deframer
  <2> QED
    BY <2>2 DEF n
<1>6. /\ e.bits = d.bits /\ e.count = d.count /\ e.ones = d.ones /\ e.in_frame = d.in_frame
      /\ e.window = d.window /\ e.raw = r /\ e.raw_len = d.raw_len + 1
  BY <1>1 DEF Deframer
<1> HIDE DEF e
<1> QED
  BY <1>3, <1>4, <1>5, <1>6 DEF e

\* A destuffed bit is counted, and stored if it fits.
LEMMA PushFrameBit ==
  ASSUME NEW d \in Deframer, Len(d.bits) = LowerOf(d.count, 8 * N), NEW b \in Bit
  PROVE  LET e == push_frame_bit(d, b)
         IN  /\ e \in Deframer
             /\ e.bits = Stored(d, b) /\ e.count = d.count + 1
             /\ Len(e.bits) = LowerOf(e.count, 8 * N)
             /\ e.ones = d.ones /\ e.in_frame = d.in_frame /\ e.window = d.window
             /\ e.raw = d.raw /\ e.raw_len = d.raw_len
<1>1. d.bits \in Seq(Bit) /\ d.count \in Nat
  BY DEF Deframer
<1>2. Append(d.bits, b) \in Seq(Bit) /\ Len(Append(d.bits, b)) = Len(d.bits) + 1
  BY <1>1, AppendedBit
<1> DEFINE r == Stored(d, b)
<1>3. r \in Seq(Bit) /\ Len(r) = LowerOf(d.count + 1, 8 * N)
  BY <1>1, <1>2 DEF LowerOf, Stored
<1>4. push_frame_bit(d, b) = [d EXCEPT !.bits = r, !.count = d.count + 1]
  BY DEF push_frame_bit, Stored
<1> HIDE DEF r
<1> DEFINE e == [d EXCEPT !.bits = r, !.count = d.count + 1]
<1>5. e \in Deframer
  <2> DEFINE n == d.count + 1
  <2>1. n \in Nat
    BY <1>1
  <2> HIDE DEF n
  <2>2. [d EXCEPT !.bits = r, !.count = n] \in Deframer
    BY <1>1, <1>3, <2>1 DEF Deframer
  <2> QED
    BY <2>2 DEF n
<1>6. /\ e.bits = r /\ e.count = d.count + 1 /\ e.ones = d.ones /\ e.in_frame = d.in_frame
      /\ e.window = d.window /\ e.raw = d.raw /\ e.raw_len = d.raw_len
  BY <1>1 DEF Deframer
<1>7. /\ e.bits = Stored(d, b) /\ Len(e.bits) = LowerOf(e.count, 8 * N)
  BY <1>3, <1>6 DEF r
<1> HIDE DEF e
<1> QED
  BY <1>4, <1>5, <1>6, <1>7 DEF e

Recorded(d, b) == IF d.in_frame THEN record_raw(d, b) ELSE d

LEMMA RecordedBit ==
  ASSUME NEW d, Stores(d), NEW b \in Bit
  PROVE  LET r == Recorded(d, b)
         IN  /\ r \in Deframer
             /\ r.bits = d.bits /\ r.count = d.count /\ r.ones = d.ones /\ r.in_frame = d.in_frame
             /\ Len(r.raw) = LowerOf(r.raw_len, RawBits)
             /\ d.in_frame => r.count + 1 <= r.raw_len
             /\ ~d.in_frame => r.raw_len = 0 /\ r.count = 0
<1>1. d \in Deframer /\ d.count \in Nat /\ d.raw_len \in Nat /\ d.count <= d.raw_len
  BY DEF Stores, Deframer
<1>2. CASE d.in_frame
  <2> DEFINE e == record_raw(d, b)
  <2>1. /\ e \in Deframer
        /\ e.bits = d.bits /\ e.count = d.count /\ e.ones = d.ones /\ e.in_frame = d.in_frame
        /\ e.raw_len = d.raw_len + 1 /\ Len(e.raw) = LowerOf(e.raw_len, RawBits)
    BY RecordRaw
  <2> HIDE DEF e
  <2>2. e.count + 1 <= e.raw_len
    BY <1>1, <2>1
  <2> QED
    BY <1>2, <2>1, <2>2 DEF Recorded, e
<1>3. CASE ~d.in_frame
  BY <1>1, <1>3 DEF Recorded, Stores
<1> QED
  BY <1>2, <1>3

\* The same with another run of ones.
Counting(d, b, n) == [Recorded(d, b) EXCEPT !.ones = n]

LEMMA OnesSet ==
  ASSUME NEW d, Stores(d), NEW b \in Bit, NEW n \in 0 .. 7
  PROVE  LET e == Counting(d, b, n)
         IN  /\ e \in Deframer
             /\ e.bits = d.bits /\ e.count = d.count /\ e.ones = n /\ e.in_frame = d.in_frame
             /\ Len(e.bits) = LowerOf(e.count, 8 * N)
             /\ Len(e.raw) = LowerOf(e.raw_len, RawBits)
             /\ d.in_frame => e.count + 1 <= e.raw_len
             /\ ~d.in_frame => e.raw_len = 0 /\ e.count = 0
<1> DEFINE r == Recorded(d, b)
<1>1. /\ r \in Deframer
      /\ r.bits = d.bits /\ r.count = d.count /\ r.ones = d.ones /\ r.in_frame = d.in_frame
      /\ Len(r.raw) = LowerOf(r.raw_len, RawBits)
      /\ d.in_frame => r.count + 1 <= r.raw_len
      /\ ~d.in_frame => r.raw_len = 0 /\ r.count = 0
  BY RecordedBit
<1> HIDE DEF r
<1> DEFINE e == [r EXCEPT !.ones = n]
<1>2. e \in Deframer
  BY <1>1 DEF Deframer
<1>3. /\ e.bits = r.bits /\ e.count = r.count /\ e.ones = n /\ e.in_frame = r.in_frame
      /\ e.raw = r.raw /\ e.raw_len = r.raw_len
  BY <1>1 DEF Deframer
<1>4. Len(d.bits) = LowerOf(d.count, 8 * N)
  BY DEF Stores
<1> HIDE DEF e
<1>5. /\ e \in Deframer
      /\ e.bits = d.bits /\ e.count = d.count /\ e.ones = n /\ e.in_frame = d.in_frame
      /\ Len(e.bits) = LowerOf(e.count, 8 * N)
      /\ Len(e.raw) = LowerOf(e.raw_len, RawBits)
      /\ d.in_frame => e.count + 1 <= e.raw_len
      /\ ~d.in_frame => e.raw_len = 0 /\ e.count = 0
  BY <1>1, <1>2, <1>3, <1>4
<1> QED
  BY <1>5 DEF e, r, Counting

\* A bit of the frame, stored.
LEMMA FramedBit ==
  ASSUME NEW e \in Deframer, e.in_frame, NEW b \in Bit, Len(e.bits) = LowerOf(e.count, 8 * N),
         Len(e.raw) = LowerOf(e.raw_len, RawBits), e.count + 1 <= e.raw_len
  PROVE  LET f == push_frame_bit(e, b)
         IN  /\ Stores(f) /\ f.in_frame /\ f.ones = e.ones
             /\ f.count = e.count + 1 /\ f.bits = Stored(e, b)
<1> DEFINE f == push_frame_bit(e, b)
<1>1. /\ f \in Deframer
      /\ f.bits = Stored(e, b) /\ f.count = e.count + 1
      /\ Len(f.bits) = LowerOf(f.count, 8 * N)
      /\ f.ones = e.ones /\ f.in_frame = e.in_frame
      /\ f.raw = e.raw /\ f.raw_len = e.raw_len
  BY PushFrameBit
<1> HIDE DEF f
<1>2. Stores(f)
  BY <1>1 DEF Stores
<1> QED
  BY <1>1, <1>2 DEF f

LEMMA PushOne ==
  ASSUME NEW d, Stores(d)
  PROVE  LET f == push(d, 1).rx
         IN  /\ push(d, 1).result = None
             /\ Stores(f)
             /\ f.ones = IF d.ones < 7 THEN d.ones + 1 ELSE 7
             /\ d.in_frame /\ d.ones < 6 =>
                  f.in_frame /\ f.count = d.count + 1 /\ f.bits = Stored(d, 1)
<1> DEFINE n == IF d.ones < 7 THEN d.ones + 1 ELSE 7
           r == Recorded(d, 1)
           e == [r EXCEPT !.ones = n]
           f == push(d, 1).rx
<1>1. d \in Deframer /\ d.ones \in 0 .. 7 /\ d.in_frame \in BOOLEAN
  BY DEF Stores, Deframer
<1>2. n \in 0 .. 7 /\ (n >= 7 <=> d.ones >= 6) /\ 1 \in Bit
  BY <1>1 DEF Bit
<1>3. /\ e \in Deframer
      /\ e.bits = d.bits /\ e.count = d.count /\ e.ones = n /\ e.in_frame = d.in_frame
      /\ Len(e.bits) = LowerOf(e.count, 8 * N)
      /\ Len(e.raw) = LowerOf(e.raw_len, RawBits)
      /\ d.in_frame => e.count + 1 <= e.raw_len
      /\ ~d.in_frame => e.raw_len = 0 /\ e.count = 0
  <2> HIDE DEF n
  <2>1. Counting(d, 1, n) = e
    BY DEF Counting
  <2> HIDE DEF e
  <2> QED
    BY <1>2, <2>1, OnesSet
<1>4. r.ones = d.ones
  BY <1>2, RecordedBit
<1>5. push(d, 1) = [rx |-> OnOne(r), result |-> None]
  BY DEF push, Recorded
<1>6. OnOne(r) = IF e.ones >= 7 THEN Dropped(e)
                 ELSE IF e.in_frame THEN push_frame_bit(e, 1) ELSE e
  <2>1. [r EXCEPT !.ones = IF @ < 7 THEN @ + 1 ELSE 7] = e
    BY <1>4
  <2> HIDE DEF r
  <2>2. OnOne(r) = LET x == [r EXCEPT !.ones = IF @ < 7 THEN @ + 1 ELSE 7]
                   IN  IF x.ones >= 7 THEN Dropped(x)
                       ELSE IF x.in_frame THEN push_frame_bit(x, 1) ELSE x
    BY DEF OnOne, Dropped
  <2> HIDE DEF e
  <2> QED
    BY <2>1, <2>2
<1> HIDE DEF e, n, r
<1>7. f = IF e.ones >= 7 THEN Dropped(e)
          ELSE IF e.in_frame THEN push_frame_bit(e, 1) ELSE e
  BY <1>5, <1>6
<1>8. push(d, 1).result = None
  BY <1>5
<1> HIDE DEF f
<1>9. CASE n >= 7
  <2>1. Stores(f) /\ f.ones = n
    BY <1>3, <1>7, <1>9, ResetFrame
  <2> QED
    BY <1>1, <1>2, <1>8, <1>9, <2>1 DEF n, f
<1>10. CASE ~(n >= 7) /\ d.in_frame
  <2>1. f = push_frame_bit(e, 1)
    BY <1>3, <1>7, <1>10
  <2>2. Stores(f) /\ f.in_frame /\ f.ones = n /\ f.count = e.count + 1 /\ f.bits = Stored(e, 1)
    BY <1>2, <1>3, <1>10, <2>1, FramedBit
  <2>3. Stored(e, 1) = Stored(d, 1)
    BY <1>3 DEF Stored
  <2> QED
    BY <1>3, <1>8, <2>2, <2>3 DEF n, f
<1>11. CASE ~(n >= 7) /\ ~d.in_frame
  <2>1. f = e
    BY <1>3, <1>7, <1>11
  <2>2. Stores(e)
    BY <1>3, <1>11 DEF Stores
  <2> QED
    BY <1>3, <1>8, <1>11, <2>1, <2>2 DEF n, f
<1> QED
  BY <1>1, <1>9, <1>10, <1>11

\* Any zero ends the run of ones; after six it is a flag, after five a stuffed zero.
LEMMA PushZero ==
  ASSUME NEW d, Stores(d)
  PROVE  LET f == push(d, 0).rx
             e == Counting(d, 0, 0)
         IN  /\ Stores(f) /\ f.ones = 0
             /\ d.ones = 6 => Empty(f)
             /\ d.ones = 5 => f.in_frame = d.in_frame /\ f.count = d.count /\ f.bits = d.bits
             /\ d.ones \notin {5, 6} /\ d.in_frame =>
                  f.in_frame /\ f.count = d.count + 1 /\ f.bits = Stored(d, 0)
             /\ push(d, 0).result = IF d.ones = 6 /\ d.in_frame THEN close_frame(e) ELSE None
             /\ e.bits = d.bits /\ e.count = d.count
<1> DEFINE r == Recorded(d, 0)
           e == Counting(d, 0, 0)
           f == push(d, 0).rx
<1>1. d \in Deframer /\ d.ones \in 0 .. 7 /\ d.in_frame \in BOOLEAN
  BY DEF Stores, Deframer
<1>2. /\ e \in Deframer
      /\ e.bits = d.bits /\ e.count = d.count /\ e.ones = 0 /\ e.in_frame = d.in_frame
      /\ Len(e.bits) = LowerOf(e.count, 8 * N)
      /\ Len(e.raw) = LowerOf(e.raw_len, RawBits)
      /\ d.in_frame => e.count + 1 <= e.raw_len
      /\ ~d.in_frame => e.raw_len = 0 /\ e.count = 0
  <2>1. 0 \in Bit /\ 0 \in 0 .. 7
    BY DEF Bit
  <2> HIDE DEF e
  <2> QED
    BY <2>1, OnesSet DEF e
<1>3. push(d, 0) = IF d.ones = 5 THEN [rx |-> e, result |-> None]
                   ELSE IF d.ones = 6 THEN OnFlag(e)
                   ELSE [rx |-> IF d.in_frame THEN push_frame_bit(e, 0) ELSE e, result |-> None]
  <2>1. push(d, 0) = LET z == [r EXCEPT !.ones = 0]
                     IN  IF d.ones = 5 THEN [rx |-> z, result |-> None]
                         ELSE IF d.ones = 6 THEN OnFlag(z)
                         ELSE [rx |-> IF d.in_frame THEN push_frame_bit(z, 0) ELSE z,
                               result |-> None]
    BY DEF push, Recorded
  <2>2. [r EXCEPT !.ones = 0] = e
    BY DEF Counting
  <2> HIDE DEF e, r
  <2> QED
    BY <2>1, <2>2
<1> DEFINE w == IF e.in_frame THEN e.raw ELSE e.window
<1>4. OnFlag(e) = [rx |-> Reopened(e, w), result |-> IF e.in_frame THEN close_frame(e) ELSE None]
  <2>1. reset_frame(e).window = e.window
    BY <1>2 DEF reset_frame, Deframer
  <2> HIDE DEF e
  <2> QED
    BY <2>1 DEF OnFlag, Reopened
<1>5. w \in Seq(Bit)
  BY <1>2 DEF Deframer
<1> HIDE DEF e, r, w
<1>6. Stores(Reopened(e, w)) /\ Reopened(e, w).ones = 0 /\ Empty(Reopened(e, w))
  BY <1>2, <1>5, ResetFrame
<1>7. CASE d.ones = 6
  <2>1. f = Reopened(e, w) /\ push(d, 0).result = IF d.in_frame THEN close_frame(e) ELSE None
    BY <1>2, <1>3, <1>4, <1>7
  <2> HIDE DEF f
  <2> QED
    BY <1>2, <1>6, <1>7, <2>1 DEF e, f
<1>8. CASE d.ones = 5
  <2>1. f = e /\ push(d, 0).result = None
    BY <1>3, <1>8
  <2>2. Stores(e)
    BY <1>1, <1>2 DEF Stores, Deframer
  <2> HIDE DEF f
  <2> QED
    BY <1>2, <1>8, <2>1, <2>2 DEF e, f
<1>9. CASE d.ones \notin {5, 6} /\ d.in_frame
  <2>1. f = push_frame_bit(e, 0) /\ push(d, 0).result = None
    BY <1>3, <1>9
  <2> HIDE DEF f
  <2>2. Stores(f) /\ f.in_frame /\ f.ones = 0 /\ f.count = e.count + 1 /\ f.bits = Stored(e, 0)
    <3>1. 0 \in Bit
      BY DEF Bit
    <3> QED
      BY <1>2, <1>9, <2>1, <3>1, FramedBit
  <2>3. Stored(e, 0) = Stored(d, 0)
    BY <1>2 DEF Stored
  <2> QED
    BY <1>2, <1>9, <2>1, <2>2, <2>3 DEF e, f
<1>10. CASE d.ones \notin {5, 6} /\ ~d.in_frame
  <2>1. f = e /\ push(d, 0).result = None
    BY <1>3, <1>10
  <2>2. Stores(e)
    BY <1>1, <1>2, <1>10 DEF Stores, Deframer
  <2> HIDE DEF f
  <2> QED
    BY <1>2, <1>10, <2>1, <2>2 DEF e, f
<1> QED
  BY <1>1, <1>7, <1>8, <1>9, <1>10

-----------------------------------------------------------------------------
(* In step with the transmitter                                            *)

\* The next data bit, or one past their end, keeps the deframer in step.
LEMMA HoldsBit ==
  ASSUME NEW d, Stores(d), NEW data \in Seq(Bit), NEW k \in Nat, NEW ones \in 0 .. 7,
         Holds(d, data, k, ones), NEW b \in Bit, k < Len(data) => b = data[k + 1],
         b = 1 => ones < 6, b = 0 => ones < 5
  PROVE  /\ Holds(push(d, b).rx, data, k + 1, IF b = 1 THEN ones + 1 ELSE 0)
         /\ push(d, b).result = None
<1> DEFINE f == push(d, b).rx
<1>1. /\ f.in_frame /\ f.count = k + 1 /\ f.bits = Stored(d, b)
      /\ f.ones = IF b = 1 THEN ones + 1 ELSE 0
      /\ push(d, b).result = None
  <2>1. d.in_frame /\ d.ones = ones /\ d.count = k
    BY DEF Holds
  <2>2. CASE b = 1
    BY <2>1, <2>2, PushOne
  <2>3. CASE b = 0
    BY <2>1, <2>3, PushZero
  <2> QED
    BY <2>2, <2>3 DEF Bit
<1>2. /\ d.bits \in Seq(Bit) /\ d.count = k /\ Len(d.bits) = LowerOf(k, 8 * N) /\ Len(data) \in Nat
      /\ \A i \in 1 .. Len(data) : i <= Len(d.bits) => d.bits[i] = data[i]
  BY LenProperties DEF Holds, Stores, Deframer
<1> HIDE DEF f
<1>3. ASSUME NEW i \in 1 .. Len(data), i <= Len(f.bits)
      PROVE  f.bits[i] = data[i]
  <2>1. CASE d.count < 8 * N
    <3> DEFINE t == Append(d.bits, b)
    <3>1. /\ Len(t) = k + 1 /\ t[k + 1] = b /\ Len(d.bits) = k
          /\ \A j \in 1 .. k : t[j] = d.bits[j]
      <4>1. Len(d.bits) = k
        BY <1>2, <2>1 DEF LowerOf
      <4>2. /\ Len(t) = Len(d.bits) + 1 /\ t[Len(d.bits) + 1] = b
            /\ \A j \in 1 .. Len(d.bits) : t[j] = d.bits[j]
        BY <1>2, AppendedBit
      <4> HIDE DEF t
      <4> QED
        BY <1>2, <4>1, <4>2
    <3>2. f.bits = t
      BY <1>1, <2>1 DEF Stored
    <3> HIDE DEF t
    <3>3. CASE i = k + 1
      BY <1>2, <3>1, <3>2, <3>3
    <3>4. CASE i # k + 1
      <4>1. i \in 1 .. k
        BY <1>2, <1>3, <3>1, <3>2, <3>4
      <4> QED
        BY <1>2, <3>1, <3>2, <4>1
    <3> QED
      BY <3>3, <3>4
  <2>2. CASE ~(d.count < 8 * N)
    <3>1. f.bits = d.bits
      BY <1>1, <2>2 DEF Stored
    <3> QED
      BY <1>2, <1>3, <3>1
  <2> QED
    BY <2>1, <2>2
<1> QED
  BY <1>1, <1>3 DEF Holds, f

\* So does the zero stuffed after five ones.
LEMMA HoldsStuffed ==
  ASSUME NEW d, Stores(d), NEW data, NEW k, Holds(d, data, k, 5)
  PROVE  Holds(push(d, 0).rx, data, k, 0) /\ push(d, 0).result = None
<1>1. d.in_frame /\ d.ones = 5 /\ d.count = k
  BY DEF Holds
<1>2. /\ push(d, 0).rx.ones = 0 /\ push(d, 0).rx.in_frame /\ push(d, 0).rx.count = k
      /\ push(d, 0).rx.bits = d.bits /\ push(d, 0).result = None
  BY <1>1, PushZero
<1> QED
  BY <1>2 DEF Holds

\* A flag leaves an empty frame, in step with whatever follows.
LEMMA EmptyHolds ==
  ASSUME NEW d, Empty(d), d.ones = 0, NEW data \in Seq(Bit)
  PROVE  Holds(d, data, 0, 0)
<1>1. Len(d.bits) = 0 /\ Len(data) \in Nat
  BY EmptySeq, LenProperties DEF Empty
<1> QED
  BY <1>1 DEF Empty, Holds

\* A closing flag that finds exactly one frame's bits and seven of its own delivers
\* the frame, or says that it is too large, or ignores a runt.
Whole(c) ==
  IF Fits(c) THEN Ok(c) ELSE IF Len(c) \div 8 + 2 > N THEN Err("FrameTooLarge") ELSE None

LEMMA CloseWhole ==
  ASSUME NEW c \in Contents, NEW d, d.bits \in Seq(Bit), d.count = Len(DataBits(c)) + 7,
         Len(d.bits) = LowerOf(d.count, 8 * N),
         \A i \in 1 .. Len(DataBits(c)) : i <= Len(d.bits) => d.bits[i] = DataBits(c)[i]
  PROVE  close_frame(d) = Whole(c)
<1> DEFINE data == DataBits(c)
           crc == crc16_x25(c)
           len == d.count \div 8
           bits == Prefix(d.bits, 8 * len)
<1>1. /\ data \in Seq(Bit) /\ Len(data) = Len(c) + 16 /\ Len(c) \in Nat /\ Len(c) % 8 = 0
      /\ SubSeq(data, 1, Len(c)) = c /\ SubSeq(data, Len(c) + 1, Len(c) + 16) = crc
  BY DataBitsType
<1>2. PICK q \in Nat : Len(c) = 8 * q
  <2>1. ASSUME NEW n \in Nat, n % 8 = 0
        PROVE  n \div 8 \in Nat /\ n = 8 * (n \div 8)
    BY <2>1
  <2> QED
    BY <1>1, <2>1
<1>3. len = q + 2 /\ d.count % 8 = 7 /\ Len(c) \div 8 = q
  <2> HIDE DEF data
  <2>1. d.count = 8 * q + 23
    BY <1>1, <1>2 DEF data
  <2> QED
    BY <1>2, <2>1
<1>4. ASSUME len <= N
      PROVE  bits = data
  <2> HIDE DEF data
  <2>1. Len(data) = 8 * len /\ Len(d.bits) >= 8 * len /\ 8 * len \in Nat
    BY <1>1, <1>2, <1>3, <1>4 DEF LowerOf, data
  <2> DEFINE n == 8 * len
  <2>2. n \in Int /\ 1 \in Int /\ \A i \in 1 .. n : d.bits[i] \in Bit
    <3>1. \A i \in 1 .. n : i \in 1 .. Len(d.bits)
      BY <2>1, LenProperties
    <3> QED
      BY <2>1, <3>1, ElementOfSeq
  <2>3. \A i \in 1 .. n : d.bits[i] = data[i]
    BY <2>1, LenProperties DEF data
  <2>4. Len(data) = n /\ n \in Nat
    BY <2>1
  <2> HIDE DEF n, len
  <2>5. /\ SubSeq(d.bits, 1, n) \in Seq(Bit)
        /\ Len(SubSeq(d.bits, 1, n)) = IF 1 <= n THEN n - 1 + 1 ELSE 0
        /\ \A i \in 1 .. n - 1 + 1 : SubSeq(d.bits, 1, n)[i] = d.bits[1 + i - 1]
    BY <2>2, SubSeqProperties
  <2> DEFINE t == SubSeq(d.bits, 1, n)
  <2>6. t \in Seq(Bit) /\ Len(t) = n /\ \A i \in 1 .. n : t[i] = d.bits[i]
    <3> HIDE DEF t
    <3> QED
      BY <2>4, <2>5 DEF t
  <2> HIDE DEF t
  <2>7. t = data
    BY <1>1, <2>3, <2>4, <2>6, SeqEqual, SMTT(30) DEF data
  <2> QED
    BY <2>7 DEF t, n, Prefix
<1>5. ContentOf(data) = c /\ FcsOf(data) = crc
  <2> HIDE DEF data, crc
  <2>1. Len(data) - 16 = Len(c) /\ Len(data) - 15 = Len(c) + 1 /\ Len(data) = Len(c) + 16
    BY <1>1 DEF data
  <2> QED
    BY <1>1, <2>1 DEF ContentOf, FcsOf, Prefix, data, crc
<1>6. FcsValid(data)
  BY <1>5 DEF FcsValid
<1> HIDE DEF data, bits, len
<1>7. CASE len > N
  <2>1. close_frame(d) = Err("FrameTooLarge")
    BY <1>3, <1>7 DEF close_frame, len
  <2>2. ~Fits(c) /\ Len(c) \div 8 + 2 > N
    BY <1>2, <1>3, <1>7 DEF Fits, InRange
  <2> QED
    BY <2>1, <2>2 DEF Whole
<1>8. CASE len <= N /\ len < MinFrameLen + 2
  <2>1. close_frame(d) = None
    BY <1>3, <1>8 DEF close_frame, len
  <2>2. ~Fits(c) /\ ~(Len(c) \div 8 + 2 > N)
    BY <1>2, <1>3, <1>8 DEF Fits, InRange
  <2> QED
    BY <2>1, <2>2 DEF Whole
<1>9. CASE len <= N /\ ~(len < MinFrameLen + 2)
  <2>1. bits = data
    BY <1>4, <1>9
  <2>2. close_frame(d) = Ok(ContentOf(bits))
    <3>1. FcsValid(bits) /\ d.count % 8 = 7 /\ ~(len > N)
      BY <1>2, <1>3, <1>6, <1>9, <2>1
    <3> QED
      BY <1>9, <3>1 DEF close_frame, bits, len
  <2>3. Fits(c)
    BY <1>2, <1>3, <1>9 DEF Fits, InRange
  <2> QED
    BY <1>5, <2>1, <2>2, <2>3 DEF Whole
<1> QED
  BY <1>2, <1>3, <1>7, <1>8, <1>9

\* What any closing flag returns is of one of the three kinds.
LEMMA CloseKind ==
  ASSUME NEW d
  PROVE  close_frame(d).kind \in Kinds
<1>1. /\ None.kind \in Kinds
      /\ \A why : Err(why).kind \in Kinds
      /\ \A c : Ok(c).kind \in Kinds
  BY DEF None, Err, Ok, Kinds
<1>2. ASSUME NEW bits
      PROVE  try_repair(bits).kind \in Kinds
  BY <1>1 DEF try_repair
<1>3. ASSUME NEW raw, NEW raw_len, NEW had, NEW hadLen
      PROVE  try_predestuff(raw, raw_len, had, hadLen).kind \in Kinds
  BY <1>1 DEF try_predestuff
<1> QED
  BY <1>1, <1>2, <1>3 DEF close_frame

LEMMA VoteKind ==
  ASSUME NEW raw
  PROVE  try_voted_window(raw).kind \in Kinds
<1>1. None.kind \in Kinds /\ \A c : Ok(c).kind \in Kinds
  BY DEF None, Ok, Kinds
<1>2. ASSUME NEW r, NEW raw_len, NEW had, NEW hadLen
      PROVE  try_predestuff(r, raw_len, had, hadLen).kind \in Kinds
  BY <1>1 DEF try_predestuff
<1> QED
  BY <1>1, <1>2 DEF try_voted_window

-----------------------------------------------------------------------------
(* The transmitter                                                         *)

Sender ==
  [data : Seq(Bit), phase : {"Preamble", "Data", "Tail", "Done"}, left : 0 .. 1, pos : Nat,
   ones : 0 .. 5, stuff_pending : BOOLEAN]

\* Where the transmitter can be in its phases: a stuffed zero is owed exactly after
\* five ones in a row, and there is always a bit to send.
Sending(t, c) ==
  /\ t \in Sender /\ t.data = DataBits(c)
  /\ t.phase = "Preamble" =>
       t.left = 1 /\ t.pos < 8 /\ t.ones = 0 /\ ~t.stuff_pending
  /\ t.phase = "Data" => /\ t.pos <= Len(t.data)
                         /\ t.stuff_pending <=> t.ones = 5
                         /\ t.stuff_pending \/ t.pos < Len(t.data)
  /\ t.phase = "Tail" =>
       t.left = 1 /\ t.pos < 8 /\ t.ones < 5 /\ ~t.stuff_pending

Sent(t) == Settle(Settle(Emit(t).then))

\* The fields of a transmitter, one by one, as the provers need them.
LEMMA SenderFields ==
  ASSUME NEW t, NEW c \in Contents, Sending(t, c)
  PROVE  /\ t \in Sender /\ t.data = DataBits(c) /\ t.data \in Seq(Bit) /\ Len(t.data) \in Nat
         /\ Len(t.data) >= 16
         /\ t.phase \in {"Preamble", "Data", "Tail", "Done"} /\ t.left \in 0 .. 1
         /\ t.pos \in Nat /\ t.ones \in 0 .. 5 /\ t.stuff_pending \in BOOLEAN
         /\ t = [data |-> t.data, phase |-> t.phase, left |-> t.left, pos |-> t.pos,
                 ones |-> t.ones, stuff_pending |-> t.stuff_pending]
<1>1. t \in Sender /\ t.data = DataBits(c)
  BY DEF Sending
<1>2. /\ t.phase \in {"Preamble", "Data", "Tail", "Done"} /\ t.left \in 0 .. 1
      /\ t.pos \in Nat /\ t.ones \in 0 .. 5 /\ t.stuff_pending \in BOOLEAN
      /\ t = [data |-> t.data, phase |-> t.phase, left |-> t.left, pos |-> t.pos,
              ones |-> t.ones, stuff_pending |-> t.stuff_pending]
  BY <1>1 DEF Sender
<1>3. t.data \in Seq(Bit) /\ Len(t.data) = Len(c) + 16 /\ Len(c) \in Nat
  BY <1>1, DataBitsType
<1> QED
  BY <1>1, <1>2, <1>3

\* A transmitter in the given place.
At(data, phase, left, pos, ones, owed) ==
  [data |-> data, phase |-> phase, left |-> left, pos |-> pos, ones |-> ones,
   stuff_pending |-> owed]

\* One move between phases, or none.
LEMMA PreambleOver ==
  ASSUME NEW data, NEW pos, NEW ones, NEW owed
  PROVE  Settle(At(data, "Preamble", 0, pos, ones, owed)) = At(data, "Data", 0, 0, ones, owed)
<1> DEFINE t == At(data, "Preamble", 0, pos, ones, owed)
<1>1. t.phase = "Preamble" /\ t.left = 0
  BY DEF At
<1>2. [t EXCEPT !.phase = "Data", !.pos = 0] = At(data, "Data", 0, 0, ones, owed)
  <2>1. [t EXCEPT !.phase = "Data"] = At(data, "Data", 0, pos, ones, owed)
    BY DEF At
  <2>2. [At(data, "Data", 0, pos, ones, owed) EXCEPT !.pos = 0] = At(data, "Data", 0, 0, ones, owed)
    BY DEF At
  <2> HIDE DEF t
  <2> QED
    BY <2>1, <2>2
<1> HIDE DEF t
<1>3. Settle(t) = [t EXCEPT !.phase = "Data", !.pos = 0]
  BY <1>1 DEF Settle
<1> QED
  BY <1>2, <1>3 DEF t

LEMMA PreambleStays ==
  ASSUME NEW data, NEW left, left # 0, NEW pos, NEW ones, NEW owed
  PROVE  LET t == At(data, "Preamble", left, pos, ones, owed) IN Settle(t) = t
<1> DEFINE t == At(data, "Preamble", left, pos, ones, owed)
<1>1. t.phase = "Preamble" /\ t.left # 0
  BY DEF At
<1> HIDE DEF t
<1>2. Settle(t) = t
  BY <1>1 DEF Settle
<1> QED
  BY <1>2 DEF t

LEMMA DataOver ==
  ASSUME NEW data, NEW left, NEW ones, NEW owed, ~owed
  PROVE  Settle(At(data, "Data", left, Len(data), ones, owed)) = At(data, "Tail", 1, 0, ones, owed)
<1> DEFINE pos == Len(data)
           t == At(data, "Data", left, pos, ones, owed)
<1>1. t.phase = "Data" /\ ~t.stuff_pending /\ t.pos = Len(t.data)
  BY DEF At
<1> HIDE DEF pos
<1>2. [t EXCEPT !.phase = "Tail", !.left = 1, !.pos = 0] = At(data, "Tail", 1, 0, ones, owed)
  <2>1. [t EXCEPT !.phase = "Tail"] = At(data, "Tail", left, pos, ones, owed)
    BY DEF At
  <2>2. [At(data, "Tail", left, pos, ones, owed) EXCEPT !.left = 1] = At(data, "Tail", 1, pos, ones, owed)
    BY DEF At
  <2>3. [At(data, "Tail", 1, pos, ones, owed) EXCEPT !.pos = 0] = At(data, "Tail", 1, 0, ones, owed)
    BY DEF At
  <2> HIDE DEF t
  <2> QED
    BY <2>1, <2>2, <2>3
<1> HIDE DEF t
<1>3. Settle(t) = [t EXCEPT !.phase = "Tail", !.left = 1, !.pos = 0]
  BY <1>1 DEF Settle
<1> QED
  BY <1>2, <1>3 DEF t, pos

LEMMA DataStays ==
  ASSUME NEW data, NEW left, NEW pos, NEW ones, NEW owed, owed \/ pos # Len(data)
  PROVE  LET t == At(data, "Data", left, pos, ones, owed) IN Settle(t) = t
<1> DEFINE t == At(data, "Data", left, pos, ones, owed)
<1>1. t.phase = "Data" /\ (t.stuff_pending \/ t.pos # Len(t.data))
  BY DEF At
<1> HIDE DEF t
<1>2. Settle(t) = t
  BY <1>1 DEF Settle
<1> QED
  BY <1>2 DEF t

LEMMA TailOver ==
  ASSUME NEW data, NEW pos, NEW ones, NEW owed
  PROVE  Settle(At(data, "Tail", 0, pos, ones, owed)) = At(data, "Done", 0, pos, ones, owed)
<1> DEFINE t == At(data, "Tail", 0, pos, ones, owed)
<1>1. t.phase = "Tail" /\ t.left = 0
  BY DEF At
<1>2. [t EXCEPT !.phase = "Done"] = At(data, "Done", 0, pos, ones, owed)
  BY DEF At
<1> HIDE DEF t
<1>3. Settle(t) = [t EXCEPT !.phase = "Done"]
  BY <1>1 DEF Settle
<1> QED
  BY <1>2, <1>3 DEF t

LEMMA TailStays ==
  ASSUME NEW data, NEW left, left # 0, NEW pos, NEW ones, NEW owed
  PROVE  LET t == At(data, "Tail", left, pos, ones, owed) IN Settle(t) = t
<1> DEFINE t == At(data, "Tail", left, pos, ones, owed)
<1>1. t.phase = "Tail" /\ t.left # 0
  BY DEF At
<1> HIDE DEF t
<1>2. Settle(t) = t
  BY <1>1 DEF Settle
<1> QED
  BY <1>2 DEF t

LEMMA DoneStays ==
  ASSUME NEW data, NEW left, NEW pos, NEW ones, NEW owed
  PROVE  LET t == At(data, "Done", left, pos, ones, owed) IN Settle(t) = t
<1> DEFINE t == At(data, "Done", left, pos, ones, owed)
<1>1. t.phase = "Done"
  BY DEF At
<1> HIDE DEF t
<1>2. Settle(t) = t
  BY <1>1 DEF Settle
<1> QED
  BY <1>2 DEF t

\* A flag's bit.
LEMMA FlagBits ==
  /\ Flag[1] = 0 /\ Flag[8] = 0
  /\ \A i \in 2 .. 7 : Flag[i] = 1
<1>1. \A i \in 2 .. 7 : i = 2 \/ i = 3 \/ i = 4 \/ i = 5 \/ i = 6 \/ i = 7
  OBVIOUS
<1> QED
  BY <1>1 DEF Flag

LEMMA EmitFlagAt ==
  ASSUME NEW data, NEW phase, NEW pos \in 0 .. 7, NEW ones, NEW owed
  PROVE  LET e == EmitFlag(At(data, phase, 1, pos, ones, owed))
         IN  /\ e.bit = Flag[pos + 1]
             /\ e.then = IF pos = 7 THEN At(data, phase, 0, 0, ones, owed)
                         ELSE At(data, phase, 1, pos + 1, ones, owed)
<1> DEFINE t == At(data, phase, 1, pos, ones, owed)
<1>1. t.pos = pos /\ t.left = 1
  BY DEF At
<1>2. [t EXCEPT !.left = @ - 1, !.pos = 0] = At(data, phase, 0, 0, ones, owed)
  <2>1. [t EXCEPT !.left = @ - 1] = At(data, phase, 0, pos, ones, owed)
    BY DEF At
  <2>2. [At(data, phase, 0, pos, ones, owed) EXCEPT !.pos = 0] = At(data, phase, 0, 0, ones, owed)
    BY DEF At
  <2> HIDE DEF t
  <2> QED
    BY <2>1, <2>2
<1>3. [t EXCEPT !.pos = @ + 1] = At(data, phase, 1, pos + 1, ones, owed)
  BY DEF At
<1> HIDE DEF t
<1>4. EmitFlag(t).bit = Flag[pos + 1]
  BY <1>1 DEF EmitFlag
<1>5. EmitFlag(t).then = IF pos = 7 THEN At(data, phase, 0, 0, ones, owed)
                         ELSE At(data, phase, 1, pos + 1, ones, owed)
  BY <1>1, <1>2, <1>3 DEF EmitFlag
<1> QED
  BY <1>4, <1>5 DEF t

\* The four kinds of bit a transmitter sends, and where each takes it.
LEMMA SendPreamble ==
  ASSUME NEW t, NEW c \in Contents, Sending(t, c), t.phase = "Preamble"
  PROVE  /\ t.pos \in 0 .. 7 /\ Emit(t).bit = Flag[t.pos + 1]
         /\ Sent(t) = IF t.pos = 7 THEN At(t.data, "Data", 0, 0, 0, FALSE)
                      ELSE At(t.data, "Preamble", 1, t.pos + 1, 0, FALSE)
<1> DEFINE data == t.data
           pos == t.pos
<1>1. /\ t = At(data, "Preamble", 1, pos, 0, FALSE) /\ pos \in 0 .. 7 /\ pos \in Nat
      /\ data \in Seq(Bit) /\ Len(data) >= 16 /\ Len(data) \in Nat
  BY SenderFields DEF Sending, At
<1> HIDE DEF data, pos
<1>2. Emit(t) = EmitFlag(t)
  <2>1. t.phase # "Data"
    OBVIOUS
  <2> QED
    BY <2>1 DEF Emit
<1>3. /\ Emit(t).bit = Flag[pos + 1]
      /\ Emit(t).then = IF pos = 7 THEN At(data, "Preamble", 0, 0, 0, FALSE)
                        ELSE At(data, "Preamble", 1, pos + 1, 0, FALSE)
  <2> DEFINE u == At(data, "Preamble", 1, pos, 0, FALSE)
  <2>1. /\ EmitFlag(u).bit = Flag[pos + 1]
        /\ EmitFlag(u).then = IF pos = 7 THEN At(data, "Preamble", 0, 0, 0, FALSE)
                              ELSE At(data, "Preamble", 1, pos + 1, 0, FALSE)
    <3> DEFINE no == FALSE
               ph == "Preamble"
               n == 0
    <3>1. pos \in 0 .. 7 /\ u = At(data, ph, 1, pos, n, no)
      BY <1>1
    <3> HIDE DEF no, ph, n, u
    <3>2. /\ EmitFlag(u).bit = Flag[pos + 1]
          /\ EmitFlag(u).then = IF pos = 7 THEN At(data, ph, 0, 0, n, no)
                                ELSE At(data, ph, 1, pos + 1, n, no)
      BY <3>1, EmitFlagAt
    <3> QED
      BY <3>2 DEF no, ph, n
  <2>2. t = u
    BY <1>1
  <2> HIDE DEF u
  <2> QED
    BY <1>2, <2>1, <2>2
<1>4. CASE pos = 7
  <2>1. Emit(t).then = At(data, "Preamble", 0, 0, 0, FALSE)
    BY <1>3, <1>4
  <2>2. Settle(At(data, "Preamble", 0, 0, 0, FALSE)) = At(data, "Data", 0, 0, 0, FALSE)
    BY PreambleOver, ZenonT(60)
  <2>4. 0 # Len(data)
    BY <1>1
  <2>3. Settle(At(data, "Data", 0, 0, 0, FALSE)) = At(data, "Data", 0, 0, 0, FALSE)
    BY <2>4, DataStays, ZenonT(60)
  <2> QED
    BY <1>1, <1>3, <1>4, <2>1, <2>2, <2>3 DEF Sent, data, pos
<1>5. CASE pos # 7
  <2>1. Emit(t).then = At(data, "Preamble", 1, pos + 1, 0, FALSE)
    BY <1>3, <1>5
  <2>2. Settle(At(data, "Preamble", 1, pos + 1, 0, FALSE)) = At(data, "Preamble", 1, pos + 1, 0, FALSE)
    <3>1. 1 # 0
      OBVIOUS
    <3> QED
      BY <3>1, PreambleStays, Zenon
  <2> QED
    BY <1>1, <1>3, <1>5, <2>1, <2>2 DEF Sent, data, pos
<1> QED
  BY <1>4, <1>5

LEMMA SendTail ==
  ASSUME NEW t, NEW c \in Contents, Sending(t, c), t.phase = "Tail"
  PROVE  /\ t.pos \in 0 .. 7 /\ Emit(t).bit = Flag[t.pos + 1]
         /\ Sent(t) = IF t.pos = 7 THEN At(t.data, "Done", 0, 0, t.ones, FALSE)
                      ELSE At(t.data, "Tail", 1, t.pos + 1, t.ones, FALSE)
<1> DEFINE data == t.data
           pos == t.pos
           ones == t.ones
<1>1. /\ t = At(data, "Tail", 1, pos, ones, FALSE) /\ pos \in 0 .. 7 /\ pos \in Nat
      /\ ones \in 0 .. 5 /\ data \in Seq(Bit) /\ Len(data) >= 16 /\ Len(data) \in Nat
  BY SenderFields DEF Sending, At
<1> HIDE DEF data, pos, ones
<1>2. Emit(t) = EmitFlag(t)
  <2>1. t.phase # "Data"
    OBVIOUS
  <2> QED
    BY <2>1 DEF Emit
<1>3. /\ Emit(t).bit = Flag[pos + 1]
      /\ Emit(t).then = IF pos = 7 THEN At(data, "Tail", 0, 0, ones, FALSE)
                        ELSE At(data, "Tail", 1, pos + 1, ones, FALSE)
  <2> DEFINE u == At(data, "Tail", 1, pos, ones, FALSE)
  <2>1. /\ EmitFlag(u).bit = Flag[pos + 1]
        /\ EmitFlag(u).then = IF pos = 7 THEN At(data, "Tail", 0, 0, ones, FALSE)
                              ELSE At(data, "Tail", 1, pos + 1, ones, FALSE)
    <3> DEFINE no == FALSE
               ph == "Tail"
               n == ones
    <3>1. pos \in 0 .. 7 /\ u = At(data, ph, 1, pos, n, no)
      BY <1>1
    <3> HIDE DEF no, ph, n, u
    <3>2. /\ EmitFlag(u).bit = Flag[pos + 1]
          /\ EmitFlag(u).then = IF pos = 7 THEN At(data, ph, 0, 0, n, no)
                                ELSE At(data, ph, 1, pos + 1, n, no)
      BY <3>1, EmitFlagAt
    <3> QED
      BY <3>2 DEF no, ph, n
  <2>2. t = u
    BY <1>1
  <2> HIDE DEF u
  <2> QED
    BY <1>2, <2>1, <2>2
<1>4. CASE pos = 7
  <2>1. Emit(t).then = At(data, "Tail", 0, 0, ones, FALSE)
    BY <1>3, <1>4
  <2>2. Settle(At(data, "Tail", 0, 0, ones, FALSE)) = At(data, "Done", 0, 0, ones, FALSE)
    BY TailOver, ZenonT(60)
  <2>3. Settle(At(data, "Done", 0, 0, ones, FALSE)) = At(data, "Done", 0, 0, ones, FALSE)
    BY DoneStays, ZenonT(60)
  <2> QED
    BY <1>1, <1>3, <1>4, <2>1, <2>2, <2>3 DEF Sent, data, pos, ones
<1>5. CASE pos # 7
  <2>1. Emit(t).then = At(data, "Tail", 1, pos + 1, ones, FALSE)
    BY <1>3, <1>5
  <2>2. Settle(At(data, "Tail", 1, pos + 1, ones, FALSE)) = At(data, "Tail", 1, pos + 1, ones, FALSE)
    <3>1. 1 # 0
      OBVIOUS
    <3> QED
      BY <3>1, TailStays, Zenon
  <2> QED
    BY <1>1, <1>3, <1>5, <2>1, <2>2 DEF Sent, data, pos, ones
<1> QED
  BY <1>4, <1>5

\* After the data's last bit, and the zero it may owe, comes the tail.
Following(data, left, pos, ones, owed) ==
  IF ~owed /\ pos = Len(data) THEN At(data, "Tail", 1, 0, ones, owed)
  ELSE At(data, "Data", left, pos, ones, owed)

LEMMA SettleData ==
  ASSUME NEW data, NEW pos, NEW ones, NEW owed, NEW left
  PROVE  Settle(Settle(At(data, "Data", left, pos, ones, owed))) =
           Following(data, left, pos, ones, owed)
<1>1. CASE ~owed /\ pos = Len(data)
  <2>1. Settle(At(data, "Data", left, pos, ones, owed)) = At(data, "Tail", 1, 0, ones, owed)
    BY <1>1, DataOver, Zenon
  <2>2. 1 # 0
    OBVIOUS
  <2>3. Settle(At(data, "Tail", 1, 0, ones, owed)) = At(data, "Tail", 1, 0, ones, owed)
    BY <2>2, TailStays, Zenon
  <2> QED
    BY <1>1, <2>1, <2>3 DEF Following
<1>2. CASE ~(~owed /\ pos = Len(data))
  <2>1. owed \/ pos # Len(data)
    BY <1>2
  <2>2. Settle(At(data, "Data", left, pos, ones, owed)) = At(data, "Data", left, pos, ones, owed)
    BY <2>1, DataStays, ZenonT(60)
  <2> QED
    BY <1>2, <2>2 DEF Following
<1> QED
  BY <1>1, <1>2

LEMMA SendStuffed ==
  ASSUME NEW t, NEW c \in Contents, Sending(t, c), t.phase = "Data", t.stuff_pending
  PROVE  Emit(t).bit = 0 /\ Sent(t) = Following(t.data, t.left, t.pos, 0, FALSE)
<1> DEFINE data == t.data
           pos == t.pos
           left == t.left
           ones == t.ones
<1>1. /\ t = At(data, "Data", left, pos, ones, TRUE) /\ pos \in Nat /\ left \in Nat
      /\ data \in Seq(Bit) /\ Len(data) >= 16
  BY SenderFields DEF At
<1> HIDE DEF data, pos, left, ones
<1>2. Emit(t) = [bit |-> 0, then |-> [t EXCEPT !.stuff_pending = FALSE, !.ones = 0]]
  BY DEF Emit, EmitData
<1>3. [t EXCEPT !.stuff_pending = FALSE, !.ones = 0] = At(data, "Data", left, pos, 0, FALSE)
  <2> DEFINE no == FALSE
             yes == TRUE
  <2>1. t = At(data, "Data", left, pos, ones, yes)
    BY <1>1
  <2> HIDE DEF no, yes
  <2>2. [At(data, "Data", left, pos, ones, yes) EXCEPT !.stuff_pending = no]
          = At(data, "Data", left, pos, ones, no)
    BY DEF At
  <2>3. [At(data, "Data", left, pos, ones, no) EXCEPT !.ones = 0]
          = At(data, "Data", left, pos, 0, no)
    BY DEF At
  <2>4. [t EXCEPT !.stuff_pending = no, !.ones = 0] = At(data, "Data", left, pos, 0, no)
    BY <2>1, <2>2, <2>3
  <2> QED
    BY <2>4 DEF no
<1>4. Settle(Settle(At(data, "Data", left, pos, 0, FALSE))) = Following(data, left, pos, 0, FALSE)
  BY SettleData, Zenon
<1>5. Emit(t).bit = 0 /\ Sent(t) = Following(data, left, pos, 0, FALSE)
  <2>1. Emit(t).bit = 0 /\ Emit(t).then = At(data, "Data", left, pos, 0, FALSE)
    BY <1>2, <1>3
  <2> QED
    BY <1>4, <2>1 DEF Sent
<1> QED
  BY <1>5 DEF data, pos, left

LEMMA SendData ==
  ASSUME NEW t, NEW c \in Contents, Sending(t, c), t.phase = "Data", ~t.stuff_pending
  PROVE  LET b == t.data[t.pos + 1]
             n == IF b = 1 THEN t.ones + 1 ELSE 0
         IN  /\ Emit(t).bit = b /\ b \in Bit /\ n \in 0 .. 5 /\ t.ones < 5
             /\ t.pos + 1 <= Len(t.data)
             /\ Sent(t) = Following(t.data, t.left, t.pos + 1, n, n = 5)
<1> DEFINE data == t.data
           pos == t.pos
           left == t.left
           ones == t.ones
           b == data[pos + 1]
           n == IF b = 1 THEN ones + 1 ELSE 0
<1>1. /\ t = At(data, "Data", left, pos, ones, FALSE) /\ pos \in Nat /\ left \in Nat
      /\ data \in Seq(Bit) /\ Len(data) >= 16 /\ Len(data) \in Nat
      /\ ones \in 0 .. 5 /\ ones # 5 /\ pos < Len(data)
  BY SenderFields DEF At, Sending
<1> HIDE DEF data, pos, left, ones
<1>2. pos + 1 \in 1 .. Len(data) /\ pos + 1 \in Nat /\ ones < 5
  BY <1>1
<1>3. b \in Bit
  BY <1>1, <1>2, ElementOfSeq
<1>4. n \in 0 .. 5 /\ ((b = 1 /\ ones + 1 = 5) <=> n = 5)
  BY <1>1, <1>2
<1>5. Emit(t) = [bit |-> b,
                 then |-> [t EXCEPT !.pos = @ + 1, !.ones = IF b = 1 THEN @ + 1 ELSE 0,
                                    !.stuff_pending = b = 1 /\ t.ones + 1 = 5]]
  BY DEF Emit, EmitData, data, pos
<1>6. [t EXCEPT !.pos = @ + 1, !.ones = IF b = 1 THEN @ + 1 ELSE 0,
                !.stuff_pending = b = 1 /\ t.ones + 1 = 5]
        = At(data, "Data", left, pos + 1, n, n = 5)
  <2> DEFINE no == FALSE
             owed == n = 5
             five == b = 1 /\ t.ones + 1 = 5
  <2>1. t = At(data, "Data", left, pos, ones, no) /\ t.pos = pos /\ t.ones = ones
    BY <1>1 DEF pos, ones
  <2>2. five = owed
    BY <1>4, <2>1
  <2> HIDE DEF no, owed, five, b
  <2>3. [At(data, "Data", left, pos, ones, no) EXCEPT !.pos = @ + 1]
          = At(data, "Data", left, pos + 1, ones, no)
    BY DEF At
  <2>4. [At(data, "Data", left, pos + 1, ones, no) EXCEPT !.ones = IF b = 1 THEN @ + 1 ELSE 0]
          = At(data, "Data", left, pos + 1, n, no)
    BY DEF At
  <2> HIDE DEF n
  <2>5. [At(data, "Data", left, pos + 1, n, no) EXCEPT !.stuff_pending = five]
          = At(data, "Data", left, pos + 1, n, owed)
    BY <2>2 DEF At
  <2>6. [t EXCEPT !.pos = @ + 1, !.ones = IF b = 1 THEN @ + 1 ELSE 0, !.stuff_pending = five]
          = At(data, "Data", left, pos + 1, n, owed)
    BY <2>1, <2>3, <2>4, <2>5
  <2> QED
    BY <2>6 DEF five, owed
<1>7. Settle(Settle(At(data, "Data", left, pos + 1, n, n = 5)))
        = Following(data, left, pos + 1, n, n = 5)
  <2> DEFINE owed == n = 5
  <2> HIDE DEF n, owed
  <2>1. Settle(Settle(At(data, "Data", left, pos + 1, n, owed)))
          = Following(data, left, pos + 1, n, owed)
    BY SettleData, Zenon
  <2> QED
    BY <2>1 DEF owed
<1> HIDE DEF b, n
<1>8. Emit(t).bit = b /\ Sent(t) = Following(data, left, pos + 1, n, n = 5)
  BY <1>5, <1>6, <1>7 DEF Sent
<1> QED
  BY <1>2, <1>3, <1>4, <1>8 DEF b, n, data, pos, left, ones

LEMMA AtFields ==
  ASSUME NEW data, NEW phase, NEW left, NEW pos, NEW ones, NEW owed
  PROVE  LET t == At(data, phase, left, pos, ones, owed)
         IN  /\ t.data = data /\ t.phase = phase /\ t.left = left /\ t.pos = pos
             /\ t.ones = ones /\ t.stuff_pending = owed
BY DEF At

LEMMA AtSender ==
  ASSUME NEW data \in Seq(Bit), NEW phase \in {"Preamble", "Data", "Tail", "Done"},
         NEW left \in 0 .. 1, NEW pos \in Nat, NEW ones \in 0 .. 5, NEW owed \in BOOLEAN
  PROVE  At(data, phase, left, pos, ones, owed) \in Sender
BY DEF At, Sender

\* While a frame's own bits arrive the deframer holds what was sent of it: nothing is
\* known of it before the opening flag, and nothing but an open frame after the closing.
InStep(t, d) ==
  /\ t.phase = "Preamble" /\ t.pos > 0 => d.ones = t.pos - 1
  /\ t.phase = "Data" => Holds(d, t.data, t.pos, t.ones)
  /\ t.phase = "Tail" => Holds(d, t.data, Len(t.data) + t.pos,
                               IF t.pos = 0 THEN t.ones ELSE t.pos - 1)
  /\ t.phase = "Done" => Empty(d) /\ d.ones = 0

\* What follows a data bit.
LEMMA FollowingSending ==
  ASSUME NEW c \in Contents, NEW data, data = DataBits(c), NEW left \in 0 .. 1, NEW pos \in Nat,
         pos <= Len(data), NEW ones \in 0 .. 5, NEW owed \in BOOLEAN, owed <=> ones = 5
  PROVE  LET t == Following(data, left, pos, ones, owed)
         IN  /\ Sending(t, c) /\ t.phase \in {"Data", "Tail"}
             /\ \A d : Holds(d, data, pos, ones) => InStep(t, d)
<1> DEFINE t == Following(data, left, pos, ones, owed)
<1>1. data \in Seq(Bit) /\ Len(data) \in Nat
  <2>1. DataBits(c) \in Seq(Bit)
    BY DataBitsType
  <2> QED
    BY <2>1, LenProperties
<1>2. CASE ~owed /\ pos = Len(data)
  <2>1. t = At(data, "Tail", 1, 0, ones, owed)
    BY <1>2 DEF Following
  <2>2. /\ t.data = data /\ t.phase = "Tail" /\ t.left = 1 /\ t.pos = 0
        /\ t.ones = ones /\ t.stuff_pending = owed
    BY <2>1, AtFields
  <2>3. t \in Sender
    BY <1>1, <2>1, AtSender
  <2> HIDE DEF t
  <2>4. Sending(t, c)
    BY <1>2, <2>2, <2>3 DEF Sending
  <2>5. ASSUME NEW d, Holds(d, data, pos, ones)
        PROVE  InStep(t, d)
    BY <1>1, <1>2, <2>2, <2>5 DEF InStep
  <2> QED
    BY <2>2, <2>4, <2>5 DEF t
<1>3. CASE ~(~owed /\ pos = Len(data))
  <2>1. t = At(data, "Data", left, pos, ones, owed)
    BY <1>3 DEF Following
  <2>2. /\ t.data = data /\ t.phase = "Data" /\ t.left = left /\ t.pos = pos
        /\ t.ones = ones /\ t.stuff_pending = owed
    BY <2>1, AtFields
  <2>3. t \in Sender
    BY <1>1, <2>1, AtSender
  <2> HIDE DEF t
  <2>4. Sending(t, c)
    BY <1>1, <1>3, <2>2, <2>3 DEF Sending
  <2>5. ASSUME NEW d, Holds(d, data, pos, ones)
        PROVE  InStep(t, d)
    BY <2>2, <2>5 DEF InStep
  <2> QED
    BY <2>2, <2>4, <2>5 DEF t
<1> QED
  BY <1>2, <1>3

\* A bit sent leaves the transmitter in a place it can be in, and a bit that arrives as
\* it was sent keeps the deframer in step; the last one delivers the frame.
LEMMA Delivery ==
  ASSUME NEW c \in Contents, NEW t, Sending(t, c), t.phase # "Done"
  PROVE  /\ Sending(Sent(t), c) /\ Emit(t).bit \in Bit
         /\ \A d : Stores(d) /\ InStep(t, d) =>
              LET r == push(d, Emit(t).bit)
              IN  InStep(Sent(t), r.rx) /\ (Sent(t).phase = "Done" => r.result = Whole(c))
<1> DEFINE data == t.data
           u == Sent(t)
           b == Emit(t).bit
           Right(d) == LET r == push(d, b)
                       IN  InStep(u, r.rx) /\ (u.phase = "Done" => r.result = Whole(c))
<1>1. /\ t \in Sender /\ data = DataBits(c) /\ data \in Seq(Bit) /\ Len(data) \in Nat
      /\ Len(data) >= 16
      /\ t.phase \in {"Preamble", "Data", "Tail", "Done"} /\ t.left \in 0 .. 1
      /\ t.pos \in Nat /\ t.ones \in 0 .. 5 /\ t.stuff_pending \in BOOLEAN
  BY SenderFields
<1>2. CASE t.phase = "Preamble"
  <2>1. /\ t.pos \in 0 .. 7 /\ b = Flag[t.pos + 1]
        /\ u = IF t.pos = 7 THEN At(data, "Data", 0, 0, 0, FALSE)
               ELSE At(data, "Preamble", 1, t.pos + 1, 0, FALSE)
    BY <1>2, SendPreamble
  <2>2. CASE t.pos = 7
    <3>1. u = At(data, "Data", 0, 0, 0, FALSE)
      BY <2>1, <2>2
    <3>2. b = 0
      BY <2>1, <2>2, FlagBits
    <3>3. u = Following(data, 0, 0, 0, FALSE)
      <4>1. 0 # Len(data)
        BY <1>1
      <4> HIDE DEF u, data
      <4> QED
        BY <3>1, <4>1, Zenon DEF Following
    <3>4. Sending(u, c) /\ u.phase \in {"Data", "Tail"} /\ \A d : Holds(d, data, 0, 0) => InStep(u, d)
      <4> DEFINE z == 0
                 no == FALSE
      <4>1. /\ z \in 0 .. 1 /\ z \in Nat /\ z <= Len(data) /\ z \in 0 .. 5 /\ no \in BOOLEAN
            /\ no <=> z = 5
        BY <1>1
      <4>2. u = Following(data, z, z, z, no)
        BY <3>3
      <4> HIDE DEF z, no, u
      <4>3. Sending(u, c) /\ u.phase \in {"Data", "Tail"} /\ \A d : Holds(d, data, z, z) => InStep(u, d)
        BY <1>1, <4>1, <4>2, FollowingSending, SMTT(30)
      <4> QED
        BY <4>3 DEF z
    <3> HIDE DEF u, b, data
    <3>5. ASSUME NEW d, Stores(d), InStep(t, d)
          PROVE  Right(d)
      <4>1. d.ones = 6
        BY <1>2, <2>2, <3>5 DEF InStep
      <4>2. Empty(push(d, 0).rx) /\ push(d, 0).rx.ones = 0
        BY <3>5, <4>1, PushZero
      <4>3. Holds(push(d, 0).rx, data, 0, 0)
        BY <1>1, <4>2, EmptyHolds
      <4> QED
        BY <3>2, <3>4, <4>3
    <3> QED
      BY <3>2, <3>4, <3>5 DEF Bit, u, b
  <2>3. CASE t.pos # 7
    <3>1. u = At(data, "Preamble", 1, t.pos + 1, 0, FALSE)
      BY <2>1, <2>3
    <3>2. b \in Bit /\ (t.pos = 0 => b = 0) /\ (t.pos > 0 => b = 1)
      <4>1. t.pos > 0 => t.pos + 1 \in 2 .. 7
        BY <2>1, <2>3
      <4> QED
        BY <2>1, <4>1, FlagBits DEF Bit
    <3>3. /\ u.data = data /\ u.phase = "Preamble" /\ u.left = 1 /\ u.pos = t.pos + 1
          /\ u.ones = 0 /\ u.stuff_pending = FALSE
      BY <3>1 DEF At
    <3>4. u \in Sender
      <4>1. t.pos + 1 \in Nat
        BY <1>1
      <4> QED
        BY <1>1, <3>1, <4>1 DEF At, Sender
    <3> HIDE DEF u, b
    <3>5. Sending(u, c)
      <4>1. u.pos < 8
        <5>1. t.pos \in 0 .. 7 /\ u.pos = t.pos + 1
          BY <2>1, <3>3
        <5> QED
          BY <2>3, <5>1
      <4>2. ~u.stuff_pending
        BY <3>3
      <4>3. u.data = DataBits(c)
        BY <1>1, <3>3, Zenon
      <4> QED
        BY <3>3, <3>4, <4>1, <4>2, <4>3 DEF Sending
    <3> HIDE DEF data
    <3>6. ASSUME NEW d, Stores(d), InStep(t, d)
          PROVE  Right(d)
      <4>1. push(d, b).rx.ones = t.pos
        <5>1. CASE t.pos = 0
          BY <3>2, <3>6, <5>1, PushZero
        <5>2. CASE t.pos > 0
          <6>1. d.ones = t.pos - 1
            BY <1>2, <3>6, <5>2 DEF InStep
          <6>2. push(d, b).rx.ones = IF d.ones < 7 THEN d.ones + 1 ELSE 7
            BY <3>2, <3>6, <5>2, PushOne
          <6> QED
            BY <2>1, <2>3, <6>1, <6>2
        <5> QED
          BY <1>1, <5>1, <5>2
      <4> QED
        BY <1>1, <3>3, <4>1 DEF InStep
    <3> QED
      BY <3>2, <3>5, <3>6 DEF u, b
  <2> QED
    BY <2>2, <2>3
<1>3. CASE t.phase = "Data" /\ t.stuff_pending
  <2>1. b = 0 /\ u = Following(data, t.left, t.pos, 0, FALSE)
    BY <1>3, SendStuffed
  <2>2. t.ones = 5 /\ t.pos <= Len(data)
    BY <1>3 DEF Sending
  <2>3. Sending(u, c) /\ u.phase \in {"Data", "Tail"} /\ \A d : Holds(d, data, t.pos, 0) => InStep(u, d)
    <3> DEFINE z == 0
               no == FALSE
    <3>1. z \in 0 .. 5 /\ no \in BOOLEAN /\ (no <=> z = 5)
      OBVIOUS
    <3>2. u = Following(data, t.left, t.pos, z, no)
      BY <2>1
    <3> HIDE DEF z, no, u
    <3>3. Sending(u, c) /\ u.phase \in {"Data", "Tail"} /\ \A d : Holds(d, data, t.pos, z) => InStep(u, d)
      BY <1>1, <2>2, <3>1, <3>2, FollowingSending, SMTT(30)
    <3> QED
      BY <3>3 DEF z
  <2> HIDE DEF u, b, data
  <2>4. ASSUME NEW d, Stores(d), InStep(t, d)
        PROVE  Right(d)
    <3>1. Holds(d, data, t.pos, 5)
      BY <1>3, <2>2, <2>4 DEF InStep, data
    <3>2. Holds(push(d, 0).rx, data, t.pos, 0)
      BY <2>4, <3>1, HoldsStuffed
    <3> QED
      BY <2>1, <2>3, <3>2
  <2> QED
    BY <2>1, <2>3, <2>4 DEF Bit, u, b
<1>4. CASE t.phase = "Data" /\ ~t.stuff_pending
  <2> DEFINE n == IF b = 1 THEN t.ones + 1 ELSE 0
  <2>1. /\ b = data[t.pos + 1] /\ b \in Bit /\ n \in 0 .. 5 /\ t.ones < 5
        /\ t.pos + 1 <= Len(data)
        /\ u = Following(data, t.left, t.pos + 1, n, n = 5)
    BY <1>4, SendData
  <2> HIDE DEF u, b, data, n
  <2>2. /\ Sending(u, c) /\ u.phase \in {"Data", "Tail"}
        /\ \A d : Holds(d, data, t.pos + 1, n) => InStep(u, d)
    <3> DEFINE owed == n = 5
               pos == t.pos + 1
    <3>1. owed \in BOOLEAN /\ (owed <=> n = 5) /\ pos \in Nat /\ pos <= Len(data)
      BY <1>1, <2>1
    <3>2. u = Following(data, t.left, pos, n, owed)
      BY <2>1
    <3> HIDE DEF owed, pos
    <3>3. Sending(u, c) /\ u.phase \in {"Data", "Tail"} /\ \A d : Holds(d, data, pos, n) => InStep(u, d)
      BY <1>1, <2>1, <3>1, <3>2, FollowingSending, SMTT(30)
    <3> QED
      BY <3>3 DEF pos
  <2>3. ASSUME NEW d, Stores(d), InStep(t, d)
        PROVE  Right(d)
    <3>1. Holds(d, data, t.pos, t.ones)
      BY <1>4, <2>3 DEF InStep, data
    <3>2. /\ t.ones \in 0 .. 7 /\ (b = 1 => t.ones < 6) /\ (b = 0 => t.ones < 5)
      BY <1>1, <2>1
    <3>3. Holds(push(d, b).rx, data, t.pos + 1, IF b = 1 THEN t.ones + 1 ELSE 0)
      BY <1>1, <2>1, <2>3, <3>1, <3>2, HoldsBit
    <3> QED
      BY <2>2, <3>3 DEF n
  <2> QED
    BY <2>1, <2>2, <2>3 DEF u, b
<1>5. CASE t.phase = "Tail"
  <2>1. /\ t.pos \in 0 .. 7 /\ b = Flag[t.pos + 1]
        /\ u = IF t.pos = 7 THEN At(data, "Done", 0, 0, t.ones, FALSE)
               ELSE At(data, "Tail", 1, t.pos + 1, t.ones, FALSE)
    BY <1>5, SendTail
  <2>2. t.ones < 5
    BY <1>5 DEF Sending
  <2>3. CASE t.pos = 7
    <3>1. u = At(data, "Done", 0, 0, t.ones, FALSE)
      BY <2>1, <2>3
    <3>2. b = 0
      BY <2>1, <2>3, FlagBits
    <3>3. u.phase = "Done" /\ u.data = data
      BY <3>1 DEF At
    <3>4. u \in Sender
      BY <1>1, <3>1 DEF At, Sender
    <3> HIDE DEF u, b
    <3>5. Sending(u, c)
      BY <1>1, <3>3, <3>4 DEF Sending
    <3>6. ASSUME NEW d, Stores(d), InStep(t, d)
          PROVE  Right(d)
      <4>1. Holds(d, data, Len(data) + 7, 6)
        BY <1>5, <2>3, <3>6 DEF InStep
      <4>2. d.ones = 6 /\ d.in_frame /\ d.count = Len(data) + 7
        BY <4>1 DEF Holds
      <4> DEFINE e == Counting(d, 0, 0)
                 f == push(d, 0).rx
      <4>3. /\ Empty(f) /\ f.ones = 0 /\ push(d, 0).result = close_frame(e)
            /\ e.bits = d.bits /\ e.count = d.count
        BY <3>6, <4>2, PushZero
      <4>4. /\ d.bits \in Seq(Bit) /\ Len(d.bits) = LowerOf(d.count, 8 * N)
            /\ \A i \in 1 .. Len(data) : i <= Len(d.bits) => d.bits[i] = data[i]
        BY <3>6, <4>1 DEF Stores, Deframer, Holds
      <4> HIDE DEF e, f
      <4>5. close_frame(e) = Whole(c)
        <5> HIDE DEF data
        <5>1. /\ e.bits \in Seq(Bit) /\ e.count = Len(DataBits(c)) + 7
              /\ Len(e.bits) = LowerOf(e.count, 8 * N)
              /\ \A i \in 1 .. Len(DataBits(c)) : i <= Len(e.bits) => e.bits[i] = DataBits(c)[i]
          BY <1>1, <4>2, <4>3, <4>4
        <5> QED
          BY <5>1, CloseWhole
      <4>6. InStep(u, f)
        BY <3>3, <4>3 DEF InStep
      <4> QED
        BY <3>2, <4>3, <4>5, <4>6 DEF f
    <3> QED
      BY <3>2, <3>5, <3>6 DEF Bit, u, b
  <2>4. CASE t.pos # 7
    <3>1. u = At(data, "Tail", 1, t.pos + 1, t.ones, FALSE)
      BY <2>1, <2>4
    <3>2. b \in Bit /\ (t.pos = 0 => b = 0) /\ (t.pos > 0 => b = 1)
      <4>1. t.pos > 0 => t.pos + 1 \in 2 .. 7
        BY <2>1, <2>4
      <4> QED
        BY <2>1, <4>1, FlagBits DEF Bit
    <3>3. /\ u.data = data /\ u.phase = "Tail" /\ u.left = 1 /\ u.pos = t.pos + 1
          /\ u.ones = t.ones /\ u.stuff_pending = FALSE
      BY <3>1 DEF At
    <3>4. u \in Sender
      <4>1. t.pos + 1 \in Nat
        BY <1>1
      <4> QED
        BY <1>1, <3>1, <4>1 DEF At, Sender
    <3> HIDE DEF u, b
    <3>5. Sending(u, c)
      <4>1. u.pos < 8
        <5>1. t.pos \in 0 .. 7 /\ u.pos = t.pos + 1
          BY <2>1, <3>3
        <5> QED
          BY <2>4, <5>1
      <4>2. ~u.stuff_pending
        BY <3>3
      <4>3. u.data = DataBits(c)
        BY <1>1, <3>3, Zenon
      <4> QED
        BY <2>2, <3>3, <3>4, <4>1, <4>2, <4>3 DEF Sending
    <3>6. ASSUME NEW d, Stores(d), InStep(t, d)
          PROVE  Right(d)
      <4> DEFINE k == Len(data) + t.pos
                 ones == IF t.pos = 0 THEN t.ones ELSE t.pos - 1
      <4>1. Holds(d, data, k, ones)
        BY <1>5, <3>6 DEF InStep
      <4>2. /\ k \in Nat /\ ones \in 0 .. 7 /\ ~(k < Len(data))
            /\ (b = 1 => ones < 6) /\ (b = 0 => ones < 5)
            /\ (IF b = 1 THEN ones + 1 ELSE 0) = t.pos
            /\ k + 1 = Len(data) + (t.pos + 1)
        BY <1>1, <2>1, <2>2, <2>4, <3>2, SMTT(30)
      <4> HIDE DEF k, ones, data
      <4>3. Holds(push(d, b).rx, data, k + 1, IF b = 1 THEN ones + 1 ELSE 0)
        BY <1>1, <3>2, <3>6, <4>1, <4>2, HoldsBit
      <4>4. Holds(push(d, b).rx, data, Len(data) + (t.pos + 1), t.pos)
        BY <4>2, <4>3
      <4>5. (IF u.pos = 0 THEN u.ones ELSE u.pos - 1) = t.pos /\ u.pos # 0
        BY <1>1, <3>3
      <4> QED
        BY <3>3, <4>4, <4>5 DEF InStep
    <3> QED
      BY <3>2, <3>5, <3>6 DEF u, b
  <2> QED
    BY <2>3, <2>4
<1> QED
  BY <1>1, <1>2, <1>3, <1>4, <1>5

LEMMA PushStores ==
  ASSUME NEW d, Stores(d), NEW b \in Bit
  PROVE  Stores(push(d, b).rx) /\ push(d, b).result.kind \in Kinds
<1>1. None.kind \in Kinds
  BY DEF None, Kinds
<1>2. CASE b = 1
  BY <1>1, <1>2, PushOne
<1>3. CASE b = 0
  <2>1. /\ Stores(push(d, 0).rx)
        /\ push(d, 0).result = IF d.ones = 6 /\ d.in_frame THEN close_frame(Counting(d, 0, 0)) ELSE None
    BY PushZero
  <2> QED
    BY <1>1, <1>3, <2>1, CloseKind
<1> QED
  BY <1>2, <1>3 DEF Bit

-----------------------------------------------------------------------------
(* The invariant, and what follows from it                                 *)

HdlcInv ==
  /\ content \in Contents /\ content \in sent
  /\ Sending(tx, content)
  /\ Stores(rx)
  /\ damage = Intact => InStep(tx, rx)
  /\ result.kind \in Kinds

\* A frame starts with its own flag, or right after the flag before it.
LEMMA Starting ==
  ASSUME NEW c \in Contents, NEW preamble \in {0, 1}
  PROVE  LET t == Settle(frame_bits(c, preamble))
         IN  /\ Sending(t, c) /\ t.phase # "Done"
             /\ preamble = 1 => \A d : InStep(t, d)
             /\ preamble = 0 => \A d : Empty(d) /\ d.ones = 0 => InStep(t, d)
             /\ preamble = 1 => t = frame_bits(c, preamble)
<1> DEFINE data == DataBits(c)
           t == Settle(frame_bits(c, preamble))
<1>1. frame_bits(c, preamble) = At(data, "Preamble", preamble, 0, 0, FALSE)
  BY DEF frame_bits, At
<1>2. data \in Seq(Bit) /\ Len(data) \in Nat /\ Len(data) >= 16
  BY DataBitsType
<1>3. CASE preamble = 1
  <2>1. t = At(data, "Preamble", preamble, 0, 0, FALSE)
    <3>1. preamble # 0
      BY <1>3
    <3> HIDE DEF data
    <3>2. Settle(At(data, "Preamble", preamble, 0, 0, FALSE)) = At(data, "Preamble", preamble, 0, 0, FALSE)
      BY <3>1, PreambleStays, Zenon
    <3> QED
      BY <1>1, <3>2
  <2> HIDE DEF data
  <2>2. /\ t.data = data /\ t.phase = "Preamble" /\ t.left = 1 /\ t.pos = 0
        /\ t.ones = 0 /\ t.stuff_pending = FALSE
    BY <1>3, <2>1 DEF At
  <2>3. t \in Sender
    <3>1. t = [data |-> data, phase |-> "Preamble", left |-> 1, pos |-> 0, ones |-> 0,
               stuff_pending |-> FALSE]
      BY <1>3, <2>1 DEF At
    <3> HIDE DEF t
    <3> QED
      BY <1>2, <3>1 DEF Sender
  <2>4. t = frame_bits(c, preamble)
    BY <1>1, <2>1
  <2> HIDE DEF t
  <2>5. ~t.stuff_pending /\ t.pos < 8
    BY <2>2
  <2>6. Sending(t, c)
    BY <2>2, <2>3, <2>5 DEF Sending, data
  <2>7. ASSUME NEW d
        PROVE  InStep(t, d)
    BY <2>2 DEF InStep
  <2> QED
    BY <1>3, <2>2, <2>4, <2>6, <2>7 DEF t
<1>4. CASE preamble = 0
  <2> DEFINE z == 0
             no == FALSE
  <2>1. t = At(data, "Data", z, z, z, no)
    <3> HIDE DEF data
    <3>1. Settle(At(data, "Preamble", 0, 0, 0, FALSE)) = At(data, "Data", 0, 0, 0, FALSE)
      BY PreambleOver, ZenonT(60)
    <3> QED
      BY <1>1, <1>4, <3>1
  <2>2. /\ z \in 0 .. 1 /\ z \in Nat /\ z <= Len(data) /\ z \in 0 .. 5 /\ no \in BOOLEAN
        /\ ~no /\ z # 5 /\ z # Len(data)
    BY <1>2
  <2> HIDE DEF z, no, t
  <2>3. t = Following(data, z, z, z, no)
    BY <2>1, <2>2 DEF Following
  <2>4. Sending(t, c) /\ t.phase \in {"Data", "Tail"} /\ \A d : Holds(d, data, z, z) => InStep(t, d)
    BY <2>2, <2>3, FollowingSending, SMTT(30)
  <2>5. ASSUME NEW d, Empty(d), d.ones = 0
        PROVE  InStep(t, d)
    BY <1>2, <2>4, <2>5, EmptyHolds DEF z
  <2> QED
    BY <1>4, <2>4, <2>5 DEF t
<1> QED
  BY <1>3, <1>4

LEMMA InvInit ==
  ASSUME Init
  PROVE  HdlcInv
<1>1. /\ content \in Contents /\ sent = {content} /\ tx = frame_bits(content, 1)
      /\ rx = Hunting /\ result = None
  BY DEF Init
<1>2. Sending(tx, content) /\ InStep(tx, rx)
  <2> DEFINE p == 1
  <2>1. p \in {0, 1} /\ p = 1 /\ tx = frame_bits(content, p)
    BY <1>1
  <2> HIDE DEF p
  <2>2. tx = Settle(frame_bits(content, p))
    BY <1>1, <2>1, Starting
  <2> QED
    BY <1>1, <2>1, <2>2, Starting
<1>3. Stores(rx)
  <2>1. <<>> \in Seq(Bit) /\ Len(<<>>) = 0
    BY EmptySeq
  <2>2. Hunting \in Deframer
    BY <2>1 DEF Hunting, Deframer
  <2>3. /\ Hunting.bits = <<>> /\ Hunting.count = 0 /\ Hunting.raw = <<>> /\ Hunting.raw_len = 0
    BY DEF Hunting
  <2> QED
    BY <1>1, <2>1, <2>2, <2>3 DEF Stores, LowerOf
<1>4. result.kind \in Kinds
  BY <1>1 DEF None, Kinds
<1> QED
  BY <1>1, <1>2, <1>3, <1>4 DEF HdlcInv

\* Only an undamaged frame counts as intact.
LEMMA DamageKinds ==
  Worse # Intact /\ \A where : FlipIn(where) # Intact
<1>1. Worse.kind = "worse" /\ Intact.kind = "none" /\ \A where : FlipIn(where).kind = "flip"
  BY DEF Worse, Intact, FlipIn
<1> QED
  BY <1>1

\* A bit that leaves the transmitter, and one that reaches the deframer.
LEMMA Advanced ==
  ASSUME HdlcInv, tx.phase # "Done", Advance, content' = content
  PROVE  Sending(tx', content') /\ tx' = Sent(tx) /\ Emit(tx).bit \in Bit
<1>1. tx' = Sent(tx)
  BY DEF Advance, Sent
<1>2. Sending(Sent(tx), content) /\ Emit(tx).bit \in Bit
  BY Delivery DEF HdlcInv
<1> QED
  BY <1>1, <1>2

LEMMA Received ==
  ASSUME HdlcInv, NEW b \in Bit, Receive(b)
  PROVE  Stores(rx') /\ result'.kind \in Kinds
<1>1. rx' = push(rx, b).rx /\ result' = push(rx, b).result
  BY DEF Receive
<1>2. Stores(push(rx, b).rx) /\ push(rx, b).result.kind \in Kinds
  BY PushStores DEF HdlcInv
<1> QED
  BY <1>1, <1>2

\* A bit that arrives as it was sent.
LEMMA Delivered ==
  ASSUME HdlcInv, Deliver
  PROVE  /\ HdlcInv'
         /\ damage' = Intact /\ tx'.phase = "Done" => result' = Whole(content)
<1>1. /\ tx.phase # "Done" /\ Advance /\ Receive(Emit(tx).bit)
      /\ content' = content /\ damage' = damage /\ sent' = sent
  BY DEF Deliver
<1>2. Sending(tx', content') /\ tx' = Sent(tx) /\ Emit(tx).bit \in Bit
  BY <1>1, Advanced
<1>3. Stores(rx') /\ result'.kind \in Kinds
  BY <1>1, <1>2, Received
<1>4. ASSUME damage' = Intact
      PROVE  InStep(tx', rx') /\ (tx'.phase = "Done" => result' = Whole(content))
  <2>1. InStep(tx, rx) /\ Stores(rx) /\ Sending(tx, content) /\ content \in Contents
    BY <1>1, <1>4 DEF HdlcInv
  <2>2. LET r == push(rx, Emit(tx).bit)
        IN  InStep(Sent(tx), r.rx) /\ (Sent(tx).phase = "Done" => r.result = Whole(content))
    BY <1>1, <2>1, Delivery
  <2>3. rx' = push(rx, Emit(tx).bit).rx /\ result' = push(rx, Emit(tx).bit).result
    BY <1>1 DEF Receive
  <2> QED
    BY <1>2, <2>2, <2>3
<1> QED
  BY <1>1, <1>2, <1>3, <1>4 DEF HdlcInv

LEMMA InvNext ==
  ASSUME HdlcInv, [Next]_vars
  PROVE  HdlcInv'
<1> USE DEF HdlcInv
<1>1. ASSUME NEW preamble \in {0, 1}, Begin(preamble)
      PROVE  HdlcInv'
  <2>1. /\ tx.phase = "Done" /\ content' \in Contents /\ content' \in sent'
        /\ tx' = Settle(frame_bits(content', preamble)) /\ rx' = rx /\ result' = None
        /\ damage' = IF preamble > 0 \/ damage = Intact THEN Intact ELSE Worse
    BY <1>1 DEF Begin
  <2>2. /\ Sending(tx', content')
        /\ preamble = 1 => InStep(tx', rx')
        /\ preamble = 0 => (Empty(rx') /\ rx'.ones = 0 => InStep(tx', rx'))
    <3> DEFINE c == content'
    <3>1. c \in Contents /\ tx' = Settle(frame_bits(c, preamble))
      BY <2>1
    <3> HIDE DEF c
    <3>2. /\ Sending(tx', c)
          /\ preamble = 1 => \A d : InStep(tx', d)
          /\ preamble = 0 => \A d : Empty(d) /\ d.ones = 0 => InStep(tx', d)
      BY <3>1, Starting
    <3> QED
      BY <3>2 DEF c
  <2>3. damage' = Intact => InStep(tx', rx')
    <3>1. CASE preamble = 1
      BY <2>2, <3>1
    <3>2. CASE preamble = 0
      <4>1. damage' = Intact => damage = Intact
        BY <2>1, <3>2, DamageKinds
      <4>2. damage = Intact => Empty(rx) /\ rx.ones = 0
        BY <2>1 DEF InStep
      <4> QED
        BY <2>1, <2>2, <3>2, <4>1, <4>2
    <3> QED
      BY <3>1, <3>2
  <2>4. result'.kind \in Kinds
    BY <2>1 DEF None, Kinds
  <2> QED
    BY <2>1, <2>2, <2>3, <2>4
<1>2. CASE Deliver
  BY <1>2, Delivered
<1>3. CASE Flip
  <2>1. /\ tx.phase # "Done" /\ Advance /\ Receive(1 - Emit(tx).bit)
        /\ damage' = IF damage = Intact THEN FlipIn(Where) ELSE Worse
        /\ content' = content /\ sent' = sent
    BY <1>3 DEF Flip
  <2>2. Sending(tx', content') /\ Emit(tx).bit \in Bit
    BY <2>1, Advanced
  <2>3. 1 - Emit(tx).bit \in Bit
    BY <2>2 DEF Bit
  <2>4. Stores(rx') /\ result'.kind \in Kinds
    BY <2>1, <2>3, Received
  <2>5. damage' # Intact
    BY <2>1, DamageKinds
  <2> QED
    BY <2>1, <2>2, <2>4, <2>5
<1>4. CASE Lose
  <2>1. /\ tx.phase # "Done" /\ Advance /\ rx' = rx /\ result' = None /\ damage' = Worse
        /\ content' = content /\ sent' = sent
    BY <1>4 DEF Lose
  <2>2. Sending(tx', content')
    BY <2>1, Advanced
  <2>3. damage' # Intact /\ result'.kind \in Kinds
    BY <2>1, DamageKinds DEF None, Kinds
  <2> QED
    BY <2>1, <2>2, <2>3
<1>5. CASE Inject
  <2>1. /\ \E b \in Bit : Receive(b)
        /\ damage' = Worse /\ content' = content /\ tx' = tx /\ sent' = sent
    BY <1>5 DEF Inject
  <2>2. Stores(rx') /\ result'.kind \in Kinds
    BY <2>1, Received
  <2>3. damage' # Intact
    BY <2>1, DamageKinds
  <2> QED
    BY <2>1, <2>2, <2>3
<1>6. CASE Vote
  <2>1. /\ content' = content /\ tx' = tx /\ rx' = rx /\ damage' = damage /\ sent' = sent
        /\ \E raw : result' = try_voted_window(raw)
    BY <1>6 DEF Vote
  <2>2. result'.kind \in Kinds
    BY <2>1, VoteKind
  <2> QED
    BY <2>1, <2>2
<1>7. CASE UNCHANGED vars
  BY <1>7 DEF vars
<1> QED
  BY <1>1, <1>2, <1>3, <1>4, <1>5, <1>6, <1>7 DEF Next

\* In every state the transmitter is in one of its places, the deframer stores what it
\* should, and the two are in step while a frame arrives undamaged.
THEOREM HdlcInvariant == Spec => []HdlcInv
<1>1. Init => HdlcInv
  BY InvInit
<1>2. HdlcInv /\ [Next]_vars => HdlcInv'
  BY InvNext
<1> QED
  BY <1>1, <1>2, PTL DEF Spec

\* The state keeps its types: the run of ones saturates at the abort, the raw window and
\* the buffer hold what was recorded up to their sizes, and outside a frame nothing is
\* accumulated (reset_frame, record_raw and push_frame_bit).
THEOREM TypeCorrect == Spec => []TypeOK
<1>1. HdlcInv => TypeOK
  <2> SUFFICES ASSUME HdlcInv PROVE TypeOK
    OBVIOUS
  <2>1. content \in Contents /\ content \in sent /\ result.kind \in {"None", "Ok", "Err"}
    BY DEF HdlcInv, Kinds
  <2>2. tx.ones \in 0 .. 5
    BY DEF HdlcInv, Sending, Sender
  <2>3. /\ rx.bits \in Seq(Bit) /\ rx.ones \in 0 .. 7 /\ rx.count \in Nat
        /\ Len(rx.bits) = LowerOf(rx.count, 8 * N) /\ Len(rx.raw) = LowerOf(rx.raw_len, RawBits)
        /\ rx.count <= rx.raw_len /\ (~rx.in_frame => rx.raw_len = 0)
    BY DEF HdlcInv, Stores, Deframer
  <2>4. Len(rx.bits) <= 8 * N
    BY <2>3 DEF LowerOf
  <2> QED
    BY <2>1, <2>2, <2>3, <2>4 DEF TypeOK, LowerOf
<1> QED
  BY <1>1, HdlcInvariant, PTL

\* A frame all of whose bits arrive as sent is delivered exactly, or reported as too
\* large, or ignored as a runt, at the end of its closing flag, whatever came before:
\* HdlcDeframer::push re-syncs at the opening flag, the one of the frame before included,
\* and then stays in step with FrameBits::next bit for bit.
THEOREM IntactDeliveredCorrect == Spec => IntactDelivered
<1> DEFINE Right == Closing /\ damage' = Intact =>
                      result' = IF Fits(content) THEN Ok(content)
                                ELSE IF Len(content) \div 8 + 2 > N THEN Err("FrameTooLarge")
                                ELSE None
<1>1. HdlcInv /\ [Next]_vars => Right
  <2> SUFFICES ASSUME HdlcInv, [Next]_vars, Closing, damage' = Intact
               PROVE  result' = Whole(content)
    BY DEF Whole
  <2>1. tx.phase # "Done" /\ tx'.phase = "Done"
    BY DEF Closing
  <2>2. ASSUME NEW preamble \in {0, 1}, Begin(preamble)
        PROVE  FALSE
    BY <2>1, <2>2 DEF Begin
  <2>3. CASE Deliver
    BY <2>1, <2>3, Delivered
  <2>4. CASE Flip \/ Lose \/ Inject
    BY <2>4, DamageKinds DEF Flip, Lose, Inject
  <2>5. CASE Vote \/ UNCHANGED vars
    BY <2>1, <2>5 DEF Vote, vars
  <2> QED
    BY <2>2, <2>3, <2>4, <2>5 DEF Next
<1>2. HdlcInv /\ [Next]_vars => [Right]_vars
  BY <1>1
<1> HIDE DEF Right
<1>3. Spec => [][Right]_vars
  BY <1>2, HdlcInvariant, PTL DEF Spec
<1> QED
  BY <1>3 DEF IntactDelivered, Right

-----------------------------------------------------------------------------
(* The syndrome of one flipped bit                                         *)

\* Registers that agree in every bit are the same.
LEMMA SameRegister ==
  ASSUME NEW a \in Register, NEW b \in Register, \A i \in 1 .. 16 : a[i] = b[i]
  PROVE  a = b
BY DEF Register

\* A register, bit by bit.
LEMMA RegisterBit ==
  ASSUME NEW a \in Register, NEW i \in 1 .. 16
  PROVE  a[i] = 0 \/ a[i] = 1
BY DEF Register

\* The difference of two registers.
LEMMA XorAt ==
  ASSUME NEW a \in Register, NEW b \in Register
  PROVE  /\ Xor(a, b) \in Register
         /\ \A i \in 1 .. 16 : Xor(a, b)[i] = IF a[i] = b[i] THEN 0 ELSE 1
<1>1. ASSUME NEW i \in 1 .. 16
      PROVE  (a[i] + b[i]) % 2 = IF a[i] = b[i] THEN 0 ELSE 1
  <2>1. (a[i] = 0 \/ a[i] = 1) /\ (b[i] = 0 \/ b[i] = 1)
    BY RegisterBit
  <2> QED
    BY <2>1
<1>2. \A i \in 1 .. 16 : Xor(a, b)[i] = (a[i] + b[i]) % 2
  BY DEF Xor
<1>3. Xor(a, b) \in [1 .. 16 -> {0, 1}]
  <2>1. \A i \in 1 .. 16 : (a[i] + b[i]) % 2 \in {0, 1}
    BY <1>1
  <2> QED
    BY <2>1 DEF Xor
<1> QED
  BY <1>1, <1>2, <1>3 DEF Register

\* The difference read the other way round, and added again.
LEMMA XorSymmetric ==
  ASSUME NEW a \in Register, NEW b \in Register
  PROVE  Xor(a, b) = Xor(b, a)
<1>1. Xor(a, b) \in Register /\ Xor(b, a) \in Register
  BY XorAt
<1>2. \A i \in 1 .. 16 : Xor(a, b)[i] = Xor(b, a)[i]
  BY XorAt
<1> QED
  BY <1>1, <1>2, SameRegister

LEMMA XorAgain ==
  ASSUME NEW a \in Register, NEW b \in Register
  PROVE  Xor(a, Xor(a, b)) = b
<1> DEFINE x == Xor(a, b)
<1>1. x \in Register /\ \A i \in 1 .. 16 : x[i] = IF a[i] = b[i] THEN 0 ELSE 1
  BY XorAt
<1> HIDE DEF x
<1>2. Xor(a, x) \in Register /\ \A i \in 1 .. 16 : Xor(a, x)[i] = IF a[i] = x[i] THEN 0 ELSE 1
  BY <1>1, XorAt
<1>3. ASSUME NEW i \in 1 .. 16 PROVE Xor(a, x)[i] = b[i]
  <2>1. (a[i] = 0 \/ a[i] = 1) /\ (b[i] = 0 \/ b[i] = 1)
    BY RegisterBit
  <2> QED
    BY <1>1, <1>2, <2>1
<1>4. Xor(a, x) = b
  BY <1>2, <1>3, SameRegister
<1> QED
  BY <1>4 DEF x

\* A shift with feedback, bit by bit.
Feedback == {4, 11, 16}
LEMMA StepAt ==
  ASSUME NEW reg \in Register
  PROVE  /\ Step(reg) \in Register
         /\ \A i \in 1 .. 15 : Step(reg)[i] = IF reg[1] = 1 /\ i \in Feedback
                                              THEN 1 - reg[i + 1] ELSE reg[i + 1]
         /\ Step(reg)[16] = reg[1]
<1> DEFINE shifted == [i \in 1 .. 16 |-> IF i < 16 THEN reg[i + 1] ELSE 0]
<1>1. /\ shifted \in [1 .. 16 -> {0, 1}] /\ shifted[16] = 0
      /\ \A i \in 1 .. 15 : shifted[i] = reg[i + 1]
  <2>1. \A i \in 1 .. 16 : i < 16 => i + 1 \in 1 .. 16
    OBVIOUS
  <2>2. \A i \in 1 .. 16 : i < 16 => reg[i + 1] \in {0, 1}
    BY <2>1, RegisterBit
  <2> QED
    BY <2>2
<1>2. shifted \in Register
  BY <1>1 DEF Register
<1>3. Poly \in Register /\ \A i \in 1 .. 16 : Poly[i] = IF i \in Feedback THEN 1 ELSE 0
  BY DEF Poly, Register, Feedback
<1>4. Step(reg) = IF reg[1] = 1 THEN Xor(shifted, Poly) ELSE shifted
  BY DEF Step
<1> HIDE DEF shifted
<1>5. /\ Xor(shifted, Poly) \in Register
      /\ \A i \in 1 .. 16 : Xor(shifted, Poly)[i] = IF shifted[i] = Poly[i] THEN 0 ELSE 1
  BY <1>2, <1>3, XorAt
<1>6. Step(reg) \in Register
  BY <1>2, <1>4, <1>5
<1>7. ASSUME NEW i \in 1 .. 16
      PROVE  Step(reg)[i] = IF reg[1] = 1 /\ i \in Feedback THEN 1 - shifted[i] ELSE shifted[i]
  <2>1. shifted[i] = 0 \/ shifted[i] = 1
    BY <1>2, RegisterBit
  <2>2. Poly[i] = IF i \in Feedback THEN 1 ELSE 0
    BY <1>3
  <2>3. CASE reg[1] = 1
    <3>1. Step(reg)[i] = IF shifted[i] = Poly[i] THEN 0 ELSE 1
      BY <1>4, <1>5, <2>3
    <3> HIDE DEF Step
    <3> QED
      BY <2>1, <2>2, <2>3, <3>1
  <2>4. CASE reg[1] # 1
    BY <1>4, <2>4
  <2> QED
    BY <2>3, <2>4
<1>8. reg[1] = 0 \/ reg[1] = 1
  BY RegisterBit
<1>9. Step(reg)[16] = reg[1]
  BY <1>1, <1>7, <1>8 DEF Feedback
<1> QED
  BY <1>1, <1>6, <1>7, <1>9

\* Shifting is linear: the difference of two registers shifts like a register.
LEMMA StepLinear ==
  ASSUME NEW a \in Register, NEW b \in Register
  PROVE  Xor(Step(a), Step(b)) = Step(Xor(a, b))
<1> DEFINE x == Xor(a, b)
           sa == Step(a)
           sb == Step(b)
           sx == Step(x)
<1>1. x \in Register /\ \A i \in 1 .. 16 : x[i] = IF a[i] = b[i] THEN 0 ELSE 1
  BY XorAt
<1>2. sa \in Register /\ sb \in Register
  BY StepAt
<1> HIDE DEF x
<1>3. sx \in Register
  BY <1>1, StepAt
<1> HIDE DEF sa, sb, sx
<1>4. Xor(sa, sb) \in Register /\ \A i \in 1 .. 16 : Xor(sa, sb)[i] = IF sa[i] = sb[i] THEN 0 ELSE 1
  BY <1>2, XorAt
<1>5. ASSUME NEW i \in 1 .. 16
      PROVE  Xor(sa, sb)[i] = sx[i]
  <2>1. (a[1] = 0 \/ a[1] = 1) /\ (b[1] = 0 \/ b[1] = 1)
    BY RegisterBit
  <2>2. CASE i = 16
    <3>1. sa[16] = a[1] /\ sb[16] = b[1] /\ sx[16] = x[1]
      BY <1>1, StepAt DEF sa, sb, sx
    <3> QED
      BY <1>1, <1>4, <2>2, <3>1
  <2>3. CASE i # 16
    <3> DEFINE j == i + 1
    <3>1. i \in 1 .. 15 /\ j \in 1 .. 16
      BY <2>3
    <3>2. (a[j] = 0 \/ a[j] = 1) /\ (b[j] = 0 \/ b[j] = 1)
      BY <3>1, RegisterBit
    <3>3. sa[i] = IF a[1] = 1 /\ i \in Feedback THEN 1 - a[j] ELSE a[j]
      BY <3>1, StepAt DEF sa
    <3>4. sb[i] = IF b[1] = 1 /\ i \in Feedback THEN 1 - b[j] ELSE b[j]
      BY <3>1, StepAt DEF sb
    <3>5. sx[i] = IF x[1] = 1 /\ i \in Feedback THEN 1 - x[j] ELSE x[j]
      BY <1>1, <3>1, StepAt DEF sx
    <3> HIDE DEF j
    <3>6. x[1] = (IF a[1] = b[1] THEN 0 ELSE 1) /\ x[j] = IF a[j] = b[j] THEN 0 ELSE 1
      <4>1. 1 \in 1 .. 16
        OBVIOUS
      <4> QED
        BY <1>1, <3>1, <4>1, Zenon
    <3>7. Xor(sa, sb)[i] = IF sa[i] = sb[i] THEN 0 ELSE 1
      BY <1>4
    <3> QED
      BY <2>1, <3>2, <3>3, <3>4, <3>5, <3>6, <3>7
  <2> QED
    BY <2>2, <2>3
<1>6. Xor(sa, sb) = sx
  BY <1>3, <1>4, <1>5, SameRegister
<1> QED
  BY <1>6 DEF sa, sb, sx, x

\* A single bit moves down by one shift.
LEMMA UnitType ==
  ASSUME NEW k \in 1 .. 16
  PROVE  Unit(k) \in Register /\ \A i \in 1 .. 16 : Unit(k)[i] = IF i = k THEN 1 ELSE 0
BY DEF Unit, Register

LEMMA UnitShifts ==
  ASSUME NEW k \in 2 .. 16
  PROVE  Step(Unit(k)) = Unit(k - 1)
<1> DEFINE u == Unit(k)
           v == Unit(k - 1)
           w == Step(u)
<1>0. k \in 1 .. 16 /\ k - 1 \in 1 .. 16 /\ k # 1
  OBVIOUS
<1>1. u \in Register /\ \A i \in 1 .. 16 : u[i] = IF i = k THEN 1 ELSE 0
  BY <1>0, UnitType
<1>2. v \in Register /\ \A i \in 1 .. 16 : v[i] = IF i = k - 1 THEN 1 ELSE 0
  BY <1>0, UnitType
<1> HIDE DEF u, v
<1>3. /\ w \in Register /\ w[16] = u[1]
      /\ \A i \in 1 .. 15 : w[i] = IF u[1] = 1 /\ i \in Feedback THEN 1 - u[i + 1] ELSE u[i + 1]
  BY <1>1, StepAt
<1> HIDE DEF w
<1>4. u[1] = 0
  BY <1>0, <1>1
<1>5. ASSUME NEW i \in 1 .. 16 PROVE w[i] = v[i]
  <2>1. CASE i = 16
    BY <1>0, <1>2, <1>3, <1>4, <2>1
  <2>2. CASE i # 16
    <3>1. i \in 1 .. 15 /\ i + 1 \in 1 .. 16 /\ (i + 1 = k <=> i = k - 1)
      BY <2>2
    <3>2. w[i] = u[i + 1]
      BY <1>3, <1>4, <3>1
    <3> QED
      BY <1>1, <1>2, <3>1, <3>2
  <2> QED
    BY <2>1, <2>2
<1>6. w = v
  BY <1>2, <1>3, <1>5, SameRegister
<1> QED
  BY <1>6 DEF u, v, w

\* No difference is shifted away.
LEMMA StepKeepsDifference ==
  ASSUME NEW reg \in Register, \E i \in 1 .. 16 : reg[i] = 1
  PROVE  \E i \in 1 .. 16 : Step(reg)[i] = 1
<1>1. CASE reg[1] = 1
  BY <1>1, StepAt
<1>2. CASE reg[1] # 1
  <2>1. PICK i \in 1 .. 16 : reg[i] = 1
    OBVIOUS
  <2> DEFINE j == i - 1
  <2>2. j \in 1 .. 15 /\ j \in 1 .. 16 /\ j + 1 = i
    BY <1>2, <2>1
  <2> HIDE DEF j
  <2>3. Step(reg)[j] = reg[j + 1]
    BY <1>2, <2>2, StepAt
  <2> QED
    BY <2>1, <2>2, <2>3
<1> QED
  BY <1>1, <1>2

\* The register as a bit is fed into it.
Fed(reg, b) == [reg EXCEPT ![1] = (@ + b) % 2]
LEMMA FedAt ==
  ASSUME NEW reg \in Register, NEW b \in Bit
  PROVE  /\ Fed(reg, b) \in Register /\ update(reg, b) = Step(Fed(reg, b))
         /\ Fed(reg, b)[1] = IF reg[1] = b THEN 0 ELSE 1
         /\ \A i \in 2 .. 16 : Fed(reg, b)[i] = reg[i]
<1> DEFINE f == Fed(reg, b)
<1>1. (reg[1] = 0 \/ reg[1] = 1) /\ (b = 0 \/ b = 1)
  BY RegisterBit DEF Bit
<1>2. (reg[1] + b) % 2 = (IF reg[1] = b THEN 0 ELSE 1)
  BY <1>1
<1>3. f = [reg EXCEPT ![1] = IF reg[1] = b THEN 0 ELSE 1]
  BY <1>2 DEF Fed
<1>4. /\ f \in Register /\ f[1] = (IF reg[1] = b THEN 0 ELSE 1)
      /\ \A i \in 2 .. 16 : f[i] = reg[i]
  BY <1>3 DEF Register
<1>5. update(reg, b) = Step(f)
  BY DEF update, Fed
<1> QED
  BY <1>4, <1>5

\* The same bit fed into two registers: their difference is shifted.
LEMMA SameBitFed ==
  ASSUME NEW a \in Register, NEW b \in Register, NEW x \in Bit
  PROVE  Xor(update(a, x), update(b, x)) = Step(Xor(a, b))
<1> DEFINE fa == Fed(a, x)
           fb == Fed(b, x)
<1>1. fa \in Register /\ update(a, x) = Step(fa) /\ fa[1] = (IF a[1] = x THEN 0 ELSE 1)
      /\ \A i \in 2 .. 16 : fa[i] = a[i]
  BY FedAt
<1>2. fb \in Register /\ update(b, x) = Step(fb) /\ fb[1] = (IF b[1] = x THEN 0 ELSE 1)
      /\ \A i \in 2 .. 16 : fb[i] = b[i]
  BY FedAt
<1> HIDE DEF fa, fb
<1>3. Xor(fa, fb) \in Register /\ \A i \in 1 .. 16 : Xor(fa, fb)[i] = IF fa[i] = fb[i] THEN 0 ELSE 1
  BY <1>1, <1>2, XorAt
<1>4. Xor(a, b) \in Register /\ \A i \in 1 .. 16 : Xor(a, b)[i] = IF a[i] = b[i] THEN 0 ELSE 1
  BY XorAt
<1>5. ASSUME NEW i \in 1 .. 16 PROVE Xor(fa, fb)[i] = Xor(a, b)[i]
  <2>1. CASE i = 1
    <3>1. (a[1] = 0 \/ a[1] = 1) /\ (b[1] = 0 \/ b[1] = 1) /\ (x = 0 \/ x = 1)
      BY RegisterBit DEF Bit
    <3>2. fa[1] = fb[1] <=> a[1] = b[1]
      BY <1>1, <1>2, <3>1
    <3> QED
      BY <1>3, <1>4, <2>1, <3>2
  <2>2. CASE i # 1
    <3>1. i \in 2 .. 16
      BY <2>2
    <3> QED
      BY <1>1, <1>2, <1>3, <1>4, <3>1
  <2> QED
    BY <2>1, <2>2
<1>6. Xor(fa, fb) = Xor(a, b)
  BY <1>3, <1>4, <1>5, SameRegister
<1> QED
  BY <1>1, <1>2, <1>6, StepLinear

\* A bit and its opposite fed into the same register.
LEMMA OtherBitFed ==
  ASSUME NEW a \in Register, NEW x \in Bit
  PROVE  Xor(update(a, x), update(a, 1 - x)) = Step(Unit(1))
<1> DEFINE y == 1 - x
           fa == Fed(a, x)
           fb == Fed(a, y)
<1>0. y \in Bit /\ (x = 0 \/ x = 1) /\ (a[1] = 0 \/ a[1] = 1)
  BY RegisterBit DEF Bit
<1>1. fa \in Register /\ update(a, x) = Step(fa) /\ fa[1] = (IF a[1] = x THEN 0 ELSE 1)
      /\ \A i \in 2 .. 16 : fa[i] = a[i]
  BY FedAt
<1>2. fb \in Register /\ update(a, y) = Step(fb) /\ fb[1] = (IF a[1] = y THEN 0 ELSE 1)
      /\ \A i \in 2 .. 16 : fb[i] = a[i]
  BY <1>0, FedAt
<1>9. fa[1] # fb[1]
  BY <1>0, <1>1, <1>2
<1> HIDE DEF fa, fb, y
<1>3. Xor(fa, fb) \in Register /\ \A i \in 1 .. 16 : Xor(fa, fb)[i] = IF fa[i] = fb[i] THEN 0 ELSE 1
  BY <1>1, <1>2, XorAt
<1>4. Unit(1) \in Register /\ \A i \in 1 .. 16 : Unit(1)[i] = IF i = 1 THEN 1 ELSE 0
  BY UnitType
<1>5. ASSUME NEW i \in 1 .. 16 PROVE Xor(fa, fb)[i] = Unit(1)[i]
  <2>1. i = 1 \/ i \in 2 .. 16
    OBVIOUS
  <2> QED
    BY <1>1, <1>2, <1>3, <1>4, <1>9, <2>1
<1>6. Xor(fa, fb) = Unit(1)
  BY <1>3, <1>4, <1>5, SameRegister
<1> QED
  BY <1>1, <1>2, <1>6, StepLinear DEF y

\* h is the difference after each number of shifts up to k.
Zeros(h, reg, k) == h = [m \in 0 .. k |-> IF m = 0 THEN reg ELSE Step(h[m - 1])]
Shifted(h, reg, k) == h[0] = reg /\ \A m \in 1 .. k : h[m] = Step(h[m - 1])

LEMMA ZerosStep ==
  ASSUME NEW reg, NEW k \in Nat, NEW h, Zeros(h, reg, k)
  PROVE  Shifted(h, reg, k)
<1>1. \A m \in 0 .. k : h[m] = IF m = 0 THEN reg ELSE Step(h[m - 1])
  BY DEF Zeros
<1> QED
  BY <1>1 DEF Shifted

\* There is such a function: no number of shifts is the least without one.
LEMMA ZerosExist ==
  ASSUME NEW reg, NEW len \in Nat
  PROVE  \E h : Zeros(h, reg, len)
<1> DEFINE T == {k \in Nat : ~ \E h : Zeros(h, reg, k)}
<1>1. SUFFICES ASSUME T # {} PROVE FALSE
  OBVIOUS
<1>2. PICK k \in T : \A y \in T : k <= y
  <2>1. T \subseteq Nat
    OBVIOUS
  <2> HIDE DEF T
  <2> QED
    BY <1>1, <2>1, LeastOf
<1>3. k \in Nat /\ ~ \E h : Zeros(h, reg, k)
  OBVIOUS
<1>4. k # 0
  <2> DEFINE h == [m \in 0 .. 0 |-> reg]
  <2>1. \A m \in 0 .. 0 : m = 0
    OBVIOUS
  <2>2. h = [m \in 0 .. 0 |-> IF m = 0 THEN reg ELSE Step(h[m - 1])]
    BY <2>1
  <2>3. Zeros(h, reg, 0)
    BY <2>2 DEF Zeros
  <2> QED
    BY <1>3, <2>3
<1>5. PICK h : Zeros(h, reg, k - 1)
  <2>1. k - 1 \in Nat /\ ~(k <= k - 1)
    BY <1>3, <1>4
  <2>2. k - 1 \notin T
    BY <1>2, <2>1
  <2> QED
    BY <2>1, <2>2
<1> DEFINE g == [m \in 0 .. k |-> IF m = k THEN Step(h[k - 1]) ELSE h[m]]
<1>6. ASSUME NEW m \in 0 .. k
      PROVE  g[m] = IF m = 0 THEN reg ELSE Step(g[m - 1])
  <2>1. \A j \in 0 .. k - 1 : g[j] = h[j] /\ h[j] = IF j = 0 THEN reg ELSE Step(h[j - 1])
    <3>1. k - 1 \in Nat /\ h[0] = reg /\ \A j \in 1 .. k - 1 : h[j] = Step(h[j - 1])
      <4>1. Shifted(h, reg, k - 1)
        BY <1>3, <1>4, <1>5, ZerosStep
      <4> QED
        BY <1>3, <1>4, <4>1 DEF Shifted
    <3>2. \A j \in 0 .. k - 1 : j \in 0 .. k /\ j # k /\ (j # 0 => j \in 1 .. k - 1)
      BY <1>3
    <3>3. \A j \in 0 .. k - 1 : g[j] = h[j]
      BY <3>2
    <3> HIDE DEF g
    <3> QED
      BY <3>1, <3>2, <3>3
  <2>2. g[k] = Step(h[k - 1])
    BY <1>3
  <2> HIDE DEF g
  <2>3. CASE m = k
    BY <1>3, <1>4, <2>1, <2>2, <2>3
  <2>4. CASE m # k
    <3>1. m \in 0 .. k - 1 /\ (m # 0 => m - 1 \in 0 .. k - 1)
      BY <1>3, <2>4
    <3> QED
      BY <2>1, <3>1
  <2> QED
    BY <2>3, <2>4
<1>7. Zeros(g, reg, k)
  <2>1. g = [m \in 0 .. k |-> g[m]]
    OBVIOUS
  <2> HIDE DEF g
  <2> QED
    BY <1>6, <2>1 DEF Zeros
<1> QED
  BY <1>3, <1>7

\* What shifting n times comes to, step by step.
LEMMA PropagateIs ==
  ASSUME NEW reg, NEW n \in Nat
  PROVE  \E h : Shifted(h, reg, n) /\ propagate_zeros(reg, n) = h[n]
<1> DEFINE h == CHOOSE h : Zeros(h, reg, n)
<1>1. Zeros(h, reg, n)
  BY ZerosExist
<1>2. propagate_zeros(reg, n) = h[n]
  BY DEF propagate_zeros, Zeros
<1> HIDE DEF h
<1> QED
  BY <1>1, <1>2, ZerosStep

\* The register of a check sequence after each bit.
Registers(g, bits) ==
  Recurs(g, bits, Len(bits)) /\ \A n \in 0 .. Len(bits) : g[n] \in Register
LEMMA CrcFolds ==
  ASSUME NEW bits \in Seq(Bit)
  PROVE  \E g : Registers(g, bits) /\ crc16_x25(bits) = Xor(g[Len(bits)], AllOnes)
<1> DEFINE g == CHOOSE g : Folds(g, bits, Len(bits))
<1>1. Folds(g, bits, Len(bits))
  BY FoldsExists, LenProperties
<1>2. crc16_x25(bits) = Xor(g[Len(bits)], AllOnes)
  BY DEF crc16_x25, Folds
<1> HIDE DEF g
<1>3. Registers(g, bits)
  BY <1>1, FoldsStep, FoldsType, LenProperties DEF Registers
<1> QED
  BY <1>2, <1>3

LEMMA CrcRegister ==
  ASSUME NEW bits \in Seq(Bit)
  PROVE  crc16_x25(bits) \in Register
<1>1. PICK g : Registers(g, bits) /\ crc16_x25(bits) = Xor(g[Len(bits)], AllOnes)
  BY CrcFolds
<1>2. g[Len(bits)] \in Register /\ AllOnes \in Register
  BY <1>1, LenProperties DEF AllOnes, Register, Registers
<1> QED
  BY <1>1, <1>2, XorAt

\* A sequence of bits with one of them flipped.
LEMMA FlippedAt ==
  ASSUME NEW c \in Seq(Bit), NEW p \in 1 .. Len(c)
  PROVE  /\ Flipped(c, p) \in Seq(Bit) /\ Len(Flipped(c, p)) = Len(c)
         /\ c[p] \in Bit /\ Flipped(c, p)[p] = 1 - c[p]
         /\ \A i \in 1 .. Len(c) : i # p => Flipped(c, p)[i] = c[i]
<1> DEFINE f == Flipped(c, p)
<1>1. DOMAIN c = 1 .. Len(c) /\ Len(c) \in Nat /\ \A i \in 1 .. Len(c) : c[i] \in Bit
  BY LenProperties, ElementOfSeq
<1>2. 1 - c[p] \in Bit
  BY <1>1 DEF Bit
<1>3. f = [i \in 1 .. Len(c) |-> IF i = p THEN 1 - c[p] ELSE c[i]]
  BY <1>1 DEF Flipped
<1>4. f \in [1 .. Len(c) -> Bit]
  BY <1>1, <1>2, <1>3
<1>5. \A i \in 1 .. Len(c) : f[i] = IF i = p THEN 1 - c[p] ELSE c[i]
  BY <1>3
<1> HIDE DEF f
<1>6. f \in Seq(Bit)
  <2>1. [1 .. Len(c) -> Bit] \in {[1 .. n -> Bit] : n \in Nat}
    BY <1>1
  <2> QED
    BY <1>4, <2>1, SeqDef
<1>7. Len(f) = Len(c)
  <2>1. DOMAIN f = 1 .. Len(c)
    BY <1>4
  <2> QED
    BY <1>1, <1>6, <2>1, LenProperties
<1> QED
  BY <1>1, <1>5, <1>6, <1>7 DEF f

\* The lowest bits of a byte's difference are shifted to the first place.
LEMMA ShiftedToFirst ==
  ASSUME NEW k \in 1 .. 16, NEW z \in Nat, k <= z, NEW h, Shifted(h, Unit(k), z)
  PROVE  h[k] = Step(Unit(1))
<1> DEFINE T == {j \in 0 .. k - 1 : h[j] # Unit(k - j)}
<1>1. T = {}
  <2> SUFFICES ASSUME T # {} PROVE FALSE
    OBVIOUS
  <2>1. PICK j \in T : \A y \in T : j <= y
    <3>1. T \subseteq Nat
      OBVIOUS
    <3> HIDE DEF T
    <3> QED
      BY <3>1, LeastOf
  <2>2. j \in 0 .. k - 1 /\ h[j] # Unit(k - j)
    OBVIOUS
  <2>3. j # 0
    <3>1. k - 0 = k
      OBVIOUS
    <3> QED
      BY <2>2, <3>1 DEF Shifted
  <2> DEFINE i == j - 1
  <2>4. i \in 0 .. k - 1 /\ ~(j <= i) /\ k - i \in 2 .. 16 /\ (k - i) - 1 = k - j /\ j \in 1 .. z
    BY <2>2, <2>3
  <2>5. h[i] = Unit(k - i)
    BY <2>1, <2>4
  <2>6. h[j] = Step(h[i])
    BY <2>4 DEF Shifted
  <2> HIDE DEF i
  <2>7. Step(Unit(k - i)) = Unit((k - i) - 1)
    BY <2>4, UnitShifts
  <2> QED
    BY <2>2, <2>4, <2>5, <2>6, <2>7
<1>2. h[k - 1] = Unit(k - (k - 1))
  <2>1. k - 1 \in 0 .. k - 1
    OBVIOUS
  <2> QED
    BY <1>1, <2>1
<1>3. k - (k - 1) = 1 /\ k \in 1 .. z
  OBVIOUS
<1>4. h[k] = Step(h[k - 1])
  BY <1>3 DEF Shifted
<1> QED
  BY <1>2, <1>3, <1>4

\* The registers behind a flipped bit differ by what its shifts have left of it.
LEMMA RegistersDiffer ==
  ASSUME NEW c \in Seq(Bit), NEW p \in 1 .. Len(c), NEW k \in 1 .. 16, k <= p,
         NEW h, Shifted(h, Unit(k), Len(c) - (p - k)),
         NEW g, Registers(g, c), NEW f, Registers(f, Flipped(c, p))
  PROVE  Xor(g[Len(c)], f[Len(c)]) = h[Len(c) - (p - k)]
<1>0. Len(c) \in Nat /\ \A i \in 1 .. Len(c) : c[i] \in Bit
  BY LenProperties, ElementOfSeq
<1> DEFINE d == Flipped(c, p)
           len == Len(c)
           at == p - k
<1>1. d[p] = 1 - c[p] /\ (\A i \in 1 .. len : i # p => d[i] = c[i]) /\ Len(d) = len
  BY FlippedAt
<1>2. /\ g[0] = AllOnes /\ \A n \in 1 .. len : g[n] = update(g[n - 1], c[n])
      /\ f[0] = AllOnes /\ \A n \in 1 .. len : f[n] = update(f[n - 1], d[n])
  BY <1>1 DEF Recurs, Registers
<1>3. len \in Nat /\ p \in 1 .. len /\ \A i \in 1 .. len : c[i] \in Bit
  BY <1>0
<1>4. \A n \in 0 .. len : g[n] \in Register /\ f[n] \in Register
  BY <1>1 DEF Registers
<1>5. \A m \in 1 .. len - at : h[m] = Step(h[m - 1])
  BY DEF Shifted
<1>6. h[k] = Step(Unit(1))
  <2>1. len - at \in Nat /\ k <= len - at
    BY <1>3
  <2> QED
    BY <2>1, ShiftedToFirst
<1>9. at \in Nat /\ p = at + k
  BY <1>3
<1> HIDE DEF d, len, at
\* Before the flipped bit they are the same ...
<1>7. \A n \in 0 .. p - 1 : g[n] = f[n]
  <2> DEFINE T == {n \in 0 .. p - 1 : g[n] # f[n]}
  <2> SUFFICES ASSUME T # {} PROVE FALSE
    OBVIOUS
  <2>1. PICK n \in T : \A y \in T : n <= y
    <3>1. T \subseteq Nat
      BY <1>3
    <3> HIDE DEF T
    <3> QED
      BY <3>1, LeastOf
  <2>2. n \in 0 .. p - 1 /\ g[n] # f[n] /\ n # 0
    BY <1>2
  <2>3. n \in 1 .. len /\ n - 1 \in 0 .. p - 1 /\ ~(n <= n - 1) /\ n # p
    BY <1>3, <2>2
  <2>4. g[n - 1] = f[n - 1]
    BY <2>1, <2>3
  <2>5. d[n] = c[n]
    BY <1>1, <2>3
  <2> QED
    BY <1>2, <2>2, <2>3, <2>4, <2>5
\* ... and from it on they differ by the shifted bit.
<1>8. \A n \in p .. len : Xor(g[n], f[n]) = h[n - at]
  <2> DEFINE T == {n \in p .. len : Xor(g[n], f[n]) # h[n - at]}
  <2> SUFFICES ASSUME T # {} PROVE FALSE
    OBVIOUS
  <2>1. PICK n \in T : \A y \in T : n <= y
    <3>1. T \subseteq Nat
      BY <1>3
    <3> HIDE DEF T
    <3> QED
      BY <3>1, LeastOf
  <2>2. n \in p .. len /\ Xor(g[n], f[n]) # h[n - at] /\ n \in 1 .. len
    BY <1>3
  <2> DEFINE j == n - 1
  <2>3. /\ j \in 0 .. len /\ c[n] \in Bit
        /\ g[n] = update(g[j], c[n]) /\ f[n] = update(f[j], d[n])
        /\ g[j] \in Register /\ f[j] \in Register
    BY <1>2, <1>3, <1>4, <2>2
  <2>4. n # p
    <3> SUFFICES ASSUME n = p PROVE FALSE
      OBVIOUS
    <3>1. j \in 0 .. p - 1 /\ n - at = k
      BY <1>3, <1>9
    <3>2. f[n] = update(g[j], 1 - c[n])
      BY <1>1, <1>7, <2>3, <3>1
    <3> HIDE DEF j
    <3>3. Xor(g[n], f[n]) = Step(Unit(1))
      BY <2>3, <3>2, OtherBitFed
    <3> QED
      BY <1>6, <2>2, <3>1, <3>3
  <2>5. j \in p .. len /\ ~(n <= j)
    BY <1>3, <2>2, <2>4
  <2>6. Xor(g[j], f[j]) = h[j - at]
    BY <2>1, <2>5
  <2>7. d[n] = c[n]
    BY <1>1, <2>2, <2>4
  <2>8. n - at \in 1 .. len - at /\ (n - at) - 1 = j - at
    BY <1>3, <1>9, <2>2, <2>4
  <2> HIDE DEF j
  <2>9. Xor(g[n], f[n]) = Step(Xor(g[j], f[j]))
    BY <2>3, <2>7, SameBitFed
  <2>10. h[n - at] = Step(h[(n - at) - 1])
    BY <1>5, <2>8
  <2> QED
    BY <2>2, <2>6, <2>8, <2>9, <2>10
<1> QED
  BY <1>3, <1>8 DEF len, at

\* By linearity, as locate_single_bit_error says: flipping one content bit changes
\* the check sequence by a syndrome that depends on the bit's place in its byte and
\* on the distance from the end of the content, and on nothing else.
THEOREM SyndromeOfFlip ==
  ASSUME NEW c \in Seq(Bit), NEW p \in 1 .. Len(c)
  PROVE  Xor(crc16_x25(c), crc16_x25(Flipped(c, p))) = Syndrome(p, Len(c))
<1> DEFINE d == Flipped(c, p)
           len == Len(c)
           at == 8 * ByteOf(p)
           k == PlaceIn(p)
<1>1. len \in Nat /\ p \in Nat /\ 1 <= p /\ p <= len
  BY LenProperties
<1>2. at \in Nat /\ k \in 1 .. 16 /\ p = at + k /\ len - at \in Nat
  BY <1>1 DEF ByteOf, PlaceIn
<1>3. d \in Seq(Bit) /\ Len(d) = len
  BY FlippedAt
<1>4. PICK g : Registers(g, c) /\ crc16_x25(c) = Xor(g[len], AllOnes)
  BY CrcFolds
<1>5. PICK f : Registers(f, d) /\ crc16_x25(d) = Xor(f[len], AllOnes)
  <2> HIDE DEF d
  <2>1. \E f : Registers(f, d) /\ crc16_x25(d) = Xor(f[Len(d)], AllOnes)
    BY <1>3, CrcFolds
  <2> QED
    BY <1>3, <2>1
<1>6. Syndrome(p, len) = propagate_zeros(Unit(k), len - at)
  BY DEF Syndrome
<1> HIDE DEF at, k
<1>7. PICK h : Shifted(h, Unit(k), len - at) /\ propagate_zeros(Unit(k), len - at) = h[len - at]
  BY <1>2, PropagateIs
<1>8. Xor(g[len], f[len]) = h[len - at]
  <2>1. k \in 1 .. 16 /\ k <= p /\ at = p - k
    BY <1>1, <1>2
  <2>2. Shifted(h, Unit(k), Len(c) - (p - k))
    BY <1>7, <2>1
  <2>3. Xor(g[Len(c)], f[Len(c)]) = h[Len(c) - (p - k)]
    BY <1>4, <1>5, <2>1, <2>2, RegistersDiffer
  <2> QED
    BY <2>1, <2>3
\* The complement at the end cancels.
<1>9. ASSUME NEW a \in Register, NEW b \in Register
      PROVE  Xor(Xor(a, AllOnes), Xor(b, AllOnes)) = Xor(a, b)
  <2> DEFINE x == Xor(a, AllOnes)
             y == Xor(b, AllOnes)
  <2>1. AllOnes \in Register /\ \A i \in 1 .. 16 : AllOnes[i] = 1
    BY DEF AllOnes, Register
  <2>2. x \in Register /\ \A i \in 1 .. 16 : x[i] = IF a[i] = AllOnes[i] THEN 0 ELSE 1
    BY <2>1, XorAt
  <2>3. y \in Register /\ \A i \in 1 .. 16 : y[i] = IF b[i] = AllOnes[i] THEN 0 ELSE 1
    BY <2>1, XorAt
  <2> HIDE DEF x, y
  <2>4. Xor(x, y) \in Register /\ \A i \in 1 .. 16 : Xor(x, y)[i] = IF x[i] = y[i] THEN 0 ELSE 1
    BY <2>2, <2>3, XorAt
  <2>5. Xor(a, b) \in Register /\ \A i \in 1 .. 16 : Xor(a, b)[i] = IF a[i] = b[i] THEN 0 ELSE 1
    BY XorAt
  <2>6. ASSUME NEW i \in 1 .. 16 PROVE Xor(x, y)[i] = Xor(a, b)[i]
    <3>1. (a[i] = 0 \/ a[i] = 1) /\ (b[i] = 0 \/ b[i] = 1)
      BY RegisterBit
    <3>2. x[i] = (IF a[i] = 1 THEN 0 ELSE 1) /\ y[i] = IF b[i] = 1 THEN 0 ELSE 1
      BY <2>1, <2>2, <2>3
    <3> QED
      BY <2>4, <2>5, <3>1, <3>2
  <2>7. Xor(x, y) = Xor(a, b)
    BY <2>4, <2>5, <2>6, SameRegister
  <2> QED
    BY <2>7 DEF x, y
<1>10. g[len] \in Register /\ f[len] \in Register
  BY <1>1, <1>3, <1>4, <1>5 DEF Registers
<1> HIDE DEF d, len
<1>11. Xor(crc16_x25(c), crc16_x25(d)) = Xor(g[len], f[len])
  BY <1>4, <1>5, <1>9, <1>10
<1> QED
  BY <1>6, <1>7, <1>8, <1>11 DEF d, len

\* A difference is never shifted away.
LEMMA ShiftedKeeps ==
  ASSUME NEW reg \in Register, \E i \in 1 .. 16 : reg[i] = 1, NEW n \in Nat,
         NEW h, Shifted(h, reg, n)
  PROVE  h[n] \in Register /\ \E i \in 1 .. 16 : h[n][i] = 1
<1> DEFINE Good(r) == r \in Register /\ \E i \in 1 .. 16 : r[i] = 1
           T == {m \in 0 .. n : ~Good(h[m])}
<1>1. \A r : Good(r) => Good(Step(r))
  BY StepAt, StepKeepsDifference
<1>2. Good(h[0])
  BY DEF Shifted
<1> HIDE DEF Good
<1>3. T = {}
  <2> SUFFICES ASSUME T # {} PROVE FALSE
    OBVIOUS
  <2>1. PICK m \in T : \A y \in T : m <= y
    <3>1. T \subseteq Nat
      OBVIOUS
    <3> HIDE DEF T
    <3> QED
      BY <3>1, LeastOf
  <2>2. m \in 0 .. n /\ ~Good(h[m])
    OBVIOUS
  <2>3. m # 0
    BY <1>2, <2>2
  <2>4. m \in 1 .. n /\ m - 1 \in 0 .. n /\ ~(m <= m - 1)
    BY <2>2, <2>3
  <2>5. Good(h[m - 1])
    BY <2>1, <2>4
  <2>6. h[m] = Step(h[m - 1])
    BY <2>4 DEF Shifted
  <2> QED
    BY <1>1, <2>2, <2>5, <2>6
<1>4. Good(h[n])
  BY <1>3
<1> QED
  BY <1>4 DEF Good

\* Every syndrome of a flipped bit is a difference.
LEMMA SyndromeIsSome ==
  ASSUME NEW n \in Nat, NEW p \in 1 .. n
  PROVE  Syndrome(p, n) \in Register /\ \E i \in 1 .. 16 : Syndrome(p, n)[i] = 1
<1> DEFINE k == PlaceIn(p)
           z == n - 8 * ByteOf(p)
<1>1. k \in 1 .. 16 /\ z \in Nat
  BY DEF PlaceIn, ByteOf
<1>2. Syndrome(p, n) = propagate_zeros(Unit(k), z)
  BY DEF Syndrome
<1> HIDE DEF k, z
<1>3. PICK h : Shifted(h, Unit(k), z) /\ propagate_zeros(Unit(k), z) = h[z]
  BY <1>1, PropagateIs
<1>4. Unit(k) \in Register /\ \E i \in 1 .. 16 : Unit(k)[i] = 1
  BY <1>1, UnitType
<1>5. h[z] \in Register /\ \E i \in 1 .. 16 : h[z][i] = 1
  BY <1>1, <1>3, <1>4, ShiftedKeeps
<1> QED
  BY <1>2, <1>3, <1>5

\* No difference at all, and what Xor makes of equal registers.
LEMMA NoDifference ==
  ASSUME NEW a \in Register
  PROVE  Xor(a, a) = Xor(AllOnes, AllOnes) /\ \A i \in 1 .. 16 : Xor(a, a)[i] = 0
<1>1. AllOnes \in Register
  BY DEF AllOnes, Register
<1>2. Xor(a, a) \in Register /\ \A i \in 1 .. 16 : Xor(a, a)[i] = 0
  BY XorAt
<1>3. Xor(AllOnes, AllOnes) \in Register /\ \A i \in 1 .. 16 : Xor(AllOnes, AllOnes)[i] = 0
  BY <1>1, XorAt
<1>4. \A i \in 1 .. 16 : Xor(a, a)[i] = Xor(AllOnes, AllOnes)[i]
  BY <1>2, <1>3
<1> QED
  BY <1>2, <1>3, <1>4, SameRegister

\* The check sequence catches every single flip of a content bit.
THEOREM FlipDetected ==
  ASSUME NEW c \in Seq(Bit), NEW p \in 1 .. Len(c)
  PROVE  crc16_x25(Flipped(c, p)) # crc16_x25(c)
<1>1. SUFFICES ASSUME crc16_x25(Flipped(c, p)) = crc16_x25(c) PROVE FALSE
  OBVIOUS
<1>2. crc16_x25(c) \in Register
  BY CrcRegister
<1>3. Syndrome(p, Len(c)) = Xor(crc16_x25(c), crc16_x25(c))
  BY <1>1, SyndromeOfFlip
<1>4. PICK i \in 1 .. 16 : Syndrome(p, Len(c))[i] = 1
  BY SyndromeIsSome, LenProperties
<1>5. Xor(crc16_x25(c), crc16_x25(c))[i] = 0
  BY <1>2, NoDifference
<1> QED
  BY <1>3, <1>4, <1>5

\* Of the content bits with a given syndrome the scan has a first.
Latest(p, S) == \A q \in S : ByteOf(q) < ByteOf(p) \/ (ByteOf(q) = ByteOf(p) /\ q >= p)
LEMMA ScanStops ==
  ASSUME NEW n \in Nat, NEW S, S \subseteq 1 .. n, S # {}
  PROVE  \E p \in S : Latest(p, S)
<1>1. \A q \in 1 .. n : ByteOf(q) \in Nat /\ n - ByteOf(q) \in Nat
  BY DEF ByteOf
<1> DEFINE T == {n - ByteOf(q) : q \in S}
<1>2. PICK t \in T : \A y \in T : t <= y
  <2>1. T \subseteq Nat /\ T # {}
    BY <1>1
  <2> HIDE DEF T
  <2> QED
    BY <2>1, LeastOf
<1>3. PICK r \in S : t = n - ByteOf(r)
  OBVIOUS
<1>4. \A q \in S : n - ByteOf(r) <= n - ByteOf(q)
  BY <1>2, <1>3
<1>5. \A q \in S : ByteOf(q) <= ByteOf(r)
  BY <1>1, <1>4
<1> DEFINE U == {q \in S : ByteOf(q) = ByteOf(r)}
<1>6. PICK p \in U : \A q \in U : p <= q
  <2>1. r \in U /\ \A q \in U : q \in S
    OBVIOUS
  <2> HIDE DEF U
  <2>2. U \subseteq Nat /\ U # {}
    BY <2>1
  <2> QED
    BY <2>2, LeastOf
<1>7. p \in S /\ ByteOf(p) = ByteOf(r)
  OBVIOUS
<1>8. ASSUME NEW q \in S
      PROVE  ByteOf(q) < ByteOf(p) \/ (ByteOf(q) = ByteOf(p) /\ q >= p)
  <2>1. q \in Nat /\ p \in Nat /\ ByteOf(q) \in Nat /\ ByteOf(r) \in Nat
    BY <1>1, <1>7
  <2>2. ByteOf(q) = ByteOf(r) => p <= q
    BY <1>6
  <2> QED
    <3> DEFINE b == ByteOf(q)
               a == ByteOf(r)
    <3>1. b \in Nat /\ a \in Nat /\ b <= a /\ (b = a => p <= q)
      BY <1>5, <2>1, <2>2
    <3> HIDE DEF a, b
    <3>2. b < a \/ (b = a /\ q >= p)
      BY <2>1, <3>1
    <3> QED
      BY <1>7, <3>2 DEF a, b
<1> QED
  BY <1>7, <1>8 DEF Latest

\* What locate_single_bit_error answers: no error, a flip in the check sequence
\* itself, or a content bit whose flip has the syndrome seen.
LEMMA LocatorAnswers ==
  ASSUME NEW n \in Nat, NEW e, NEW c
  PROVE  LET syndrome == Xor(e, c)
             matches == {p \in 1 .. n : Syndrome(p, n) = syndrome}
             at == locate_single_bit_error(n, e, c)
         IN  \/ at = InFcs
             \/ at = NoError /\ (syndrome = Xor(AllOnes, AllOnes) \/ matches = {})
             \/ at \in matches
<1> DEFINE syndrome == Xor(e, c)
           matches == {p \in 1 .. n : Syndrome(p, n) = syndrome}
           at == locate_single_bit_error(n, e, c)
           One == Cardinality({i \in 1 .. 16 : syndrome[i] = 1}) = 1
           first == CHOOSE p \in matches : Latest(p, matches)
<1>1. at = CASE syndrome = Xor(AllOnes, AllOnes) -> NoError
             [] One -> InFcs
             [] OTHER -> IF matches = {} THEN NoError ELSE first
  BY DEF locate_single_bit_error, Latest
<1>2. matches # {} => first \in matches
  <2>1. matches \subseteq 1 .. n
    OBVIOUS
  <2> HIDE DEF matches
  <2>2. matches # {} => \E p \in matches : Latest(p, matches)
    BY <2>1, ScanStops
  <2> QED
    BY <2>2
<1> HIDE DEF syndrome, matches, at, first
<1>3. CASE syndrome = Xor(AllOnes, AllOnes)
  <2>1. {i \in 1 .. 16 : syndrome[i] = 1} = {}
    <3>1. AllOnes \in Register
      BY DEF AllOnes, Register
    <3>2. \A i \in 1 .. 16 : syndrome[i] = 0
      BY <1>3, <3>1, NoDifference
    <3> QED
      BY <3>2
  <2>2. ~One
    BY <2>1, FS_EmptySet
  <2> HIDE DEF One
  <2>3. at = NoError
    BY <1>1, <1>3, <2>2
  <2> QED
    BY <1>3, <2>3 DEF syndrome, matches, at
<1> HIDE DEF One
<1>4. CASE syndrome # Xor(AllOnes, AllOnes) /\ One
  <2>1. at = InFcs
    BY <1>1, <1>4
  <2> QED
    BY <2>1 DEF at
<1>5. CASE syndrome # Xor(AllOnes, AllOnes) /\ ~One
  <2>1. at = IF matches = {} THEN NoError ELSE first
    BY <1>1, <1>5
  <2>2. (at = NoError /\ matches = {}) \/ at \in matches
    BY <1>2, <2>1
  <2> QED
    BY <2>2 DEF syndrome, matches, at
<1> QED
  BY <1>3, <1>4, <1>5

-----------------------------------------------------------------------------
(* The repair                                                              *)

\* Flipping a content bit with the syndrome seen makes the check sequences agree.
LEMMA FlipExplains ==
  ASSUME NEW c \in Seq(Bit), NEW e \in Register, NEW at \in 1 .. Len(c),
         Syndrome(at, Len(c)) = Xor(e, crc16_x25(c))
  PROVE  crc16_x25(Flipped(c, at)) = e
<1> DEFINE a == crc16_x25(c)
           b == crc16_x25(Flipped(c, at))
<1>1. a \in Register /\ b \in Register
  <2>1. Flipped(c, at) \in Seq(Bit)
    BY FlippedAt
  <2> QED
    BY <2>1, CrcRegister
<1>2. Xor(a, b) = Xor(e, a)
  BY SyndromeOfFlip
<1> HIDE DEF a, b
<1>3. Xor(e, a) = Xor(a, e)
  BY <1>1, XorSymmetric
<1>4. b = Xor(a, Xor(a, b)) /\ e = Xor(a, Xor(a, e))
  BY <1>1, XorAgain
<1>5. b = e
  BY <1>2, <1>3, <1>4
<1> QED
  BY <1>5 DEF b

\* What try_repair accepts differs from what was received in one content bit and
\* has the check sequence that was received with it.
THEOREM RepairMatches ==
  ASSUME NEW bits \in Seq(Bit), Len(bits) >= 16, try_repair(bits).kind = "Ok"
  PROVE  /\ \E p \in 1 .. Len(ContentOf(bits)) :
                try_repair(bits).content = Flipped(ContentOf(bits), p)
         /\ crc16_x25(try_repair(bits).content) = FcsOf(bits)
         /\ Sane(try_repair(bits).content)
<1> DEFINE n == Len(bits)
           c == ContentOf(bits)
           e == FcsOf(bits)
           at == locate_single_bit_error(Len(c), e, crc16_x25(c))
<1>1. n \in Nat /\ n >= 16 /\ \A i \in 1 .. n : bits[i] \in Bit
  BY LenProperties, ElementOfSeq
<1>2. c \in Seq(Bit) /\ Len(c) \in Nat
  <2> DEFINE m == n - 16
  <2>1. m \in Nat /\ 1 \in Int /\ m \in Int /\ \A i \in 1 .. m : bits[i] \in Bit
    BY <1>1
  <2> HIDE DEF m
  <2>2. SubSeq(bits, 1, m) \in Seq(Bit)
    BY <2>1, SubSeqProperties
  <2>3. c \in Seq(Bit)
    BY <2>2 DEF ContentOf, Prefix, m
  <2> HIDE DEF c
  <2> QED
    BY <2>3, LenProperties
<1>3. e \in Register
  <2> DEFINE lo == n - 15
             s == SubSeq(bits, lo, n)
  <2>1. lo \in Int /\ n \in Int /\ lo <= n /\ n - lo + 1 = 16 /\ \A i \in lo .. n : bits[i] \in Bit
    BY <1>1
  <2> HIDE DEF lo, n
  <2>2. s \in Seq(Bit) /\ Len(s) = 16
    BY <2>1, SubSeqProperties
  <2>3. e = s
    BY DEF FcsOf, n, lo
  <2> HIDE DEF e, s
  <2>4. DOMAIN s = 1 .. 16 /\ \A i \in 1 .. 16 : s[i] \in Bit
    BY <2>2, LenProperties, ElementOfSeq
  <2>5. s = [i \in 1 .. 16 |-> s[i]]
    BY <2>2, <2>4, LenProperties
  <2> QED
    BY <2>3, <2>4, <2>5 DEF Register, Bit
<1>4. try_repair(bits) = IF at \in DOMAIN c /\ Sane(Flipped(c, at)) THEN Ok(Flipped(c, at))
                         ELSE Err("FcsMismatch")
  BY DEF try_repair
<1>5. DOMAIN c = 1 .. Len(c)
  BY <1>2, LenProperties
<1> HIDE DEF c, e
<1>6. at \in 1 .. Len(c) /\ Sane(Flipped(c, at)) /\ try_repair(bits) = Ok(Flipped(c, at))
  BY <1>4, <1>5 DEF Ok, Err
<1>7. Syndrome(at, Len(c)) = Xor(e, crc16_x25(c))
  <2>1. InFcs \notin 1 .. Len(c) /\ NoError \notin 1 .. Len(c)
    BY <1>2 DEF InFcs, NoError
  <2> QED
    BY <1>2, <1>6, <2>1, LocatorAnswers
<1> HIDE DEF at
<1>8. crc16_x25(Flipped(c, at)) = e
  BY <1>2, <1>3, <1>6, <1>7, FlipExplains
<1>9. try_repair(bits).content = Flipped(c, at)
  BY <1>6 DEF Ok
<1> QED
  BY <1>6, <1>8, <1>9 DEF c, e

\* One content bit flipped on the way, the check sequence intact: the locator takes
\* it for a flip in the check sequence, or names a bit whose flip makes the two
\* agree again; and that bit is the one if no other has its syndrome.
THEOREM FlipLocated ==
  ASSUME NEW c \in Seq(Bit), NEW p \in 1 .. Len(c)
  PROVE  LET received == Flipped(c, p)
             at == locate_single_bit_error(Len(c), crc16_x25(c), crc16_x25(received))
         IN  \/ at = InFcs
             \/ /\ at \in 1 .. Len(c)
                /\ crc16_x25(Flipped(received, at)) = crc16_x25(c)
                /\ (\A q \in 1 .. Len(c) : Syndrome(q, Len(c)) = Syndrome(p, Len(c)) => q = p)
                     => at = p /\ Flipped(received, at) = c
<1> DEFINE d == Flipped(c, p)
           e == crc16_x25(c)
           len == Len(c)
           at == locate_single_bit_error(len, e, crc16_x25(d))
           Alone == \A q \in 1 .. len : Syndrome(q, len) = Syndrome(p, len) => q = p
<1>1. /\ d \in Seq(Bit) /\ Len(d) = len /\ c[p] \in Bit /\ d[p] = 1 - c[p]
      /\ \A i \in 1 .. len : i # p => d[i] = c[i]
  BY FlippedAt
<1>2. len \in Nat /\ p \in 1 .. len
  BY LenProperties
<1>3. e \in Register /\ crc16_x25(d) \in Register
  <2> HIDE DEF d
  <2> QED
    BY <1>1, CrcRegister
<1>4. Xor(e, crc16_x25(d)) = Syndrome(p, len)
  BY SyndromeOfFlip
<1>5. Syndrome(p, len) # Xor(AllOnes, AllOnes)
  <2>1. AllOnes \in Register
    BY DEF AllOnes, Register
  <2>2. \A i \in 1 .. 16 : Xor(AllOnes, AllOnes)[i] = 0
    BY <2>1, NoDifference
  <2>3. PICK i \in 1 .. 16 : Syndrome(p, len)[i] = 1
    BY <1>2, SyndromeIsSome
  <2>4. Xor(AllOnes, AllOnes)[i] = 0
    BY <2>2
  <2> QED
    BY <2>3, <2>4
<1> HIDE DEF d, e, len
<1>6. \/ at = InFcs
      \/ at \in 1 .. len /\ Syndrome(at, len) = Syndrome(p, len)
  <2> DEFINE matches == {q \in 1 .. len : Syndrome(q, len) = Xor(e, crc16_x25(d))}
  <2>1. \/ at = InFcs
        \/ at = NoError /\ (Xor(e, crc16_x25(d)) = Xor(AllOnes, AllOnes) \/ matches = {})
        \/ at \in matches
    BY <1>2, LocatorAnswers
  <2>2. p \in matches
    BY <1>2, <1>4
  <2> HIDE DEF at
  <2> QED
    BY <1>4, <1>5, <2>1, <2>2
<1> HIDE DEF at
<1>7. CASE at \in 1 .. len /\ Syndrome(at, len) = Syndrome(p, len)
  <2>1. crc16_x25(Flipped(d, at)) = e
    <3>1. at \in 1 .. Len(d) /\ Syndrome(at, Len(d)) = Xor(e, crc16_x25(d))
      BY <1>1, <1>4, <1>7
    <3> QED
      BY <1>1, <1>3, <3>1, FlipExplains
  <2>2. ASSUME Alone PROVE at = p /\ Flipped(d, at) = c
    <3>1. at = p
      BY <1>7, <2>2
    <3> DEFINE f == Flipped(d, p)
    <3>2. f \in Seq(Bit) /\ Len(f) = len /\ f[p] = 1 - d[p] /\ \A i \in 1 .. len : i # p => f[i] = d[i]
      BY <1>1, <1>2, FlippedAt
    <3> HIDE DEF f
    <3>3. f[p] = c[p]
      BY <1>1, <3>2 DEF Bit
    <3>4. \A i \in 1 .. len : f[i] = c[i]
      BY <1>1, <3>2, <3>3
    <3>5. c \in Seq(Bit) /\ Len(c) = len
      BY DEF len
    <3>6. f = c
      BY <3>2, <3>4, <3>5, SeqEqual
    <3> QED
      BY <3>1, <3>6 DEF f
  <2> QED
    BY <1>7, <2>1, <2>2 DEF d, e, len, at
<1>8. CASE at = InFcs
  BY <1>8 DEF d, e, len, at
<1> QED
  BY <1>6, <1>7, <1>8
=============================================================================
