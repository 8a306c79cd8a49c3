----------------------------- MODULE CodecProofs -----------------------------
(***************************************************************************)
(* Proofs about the codecs whose correctness is a matter of state rather   *)
(* than of bytes: the line code, for every length of the shift register    *)
(* and every pair of taps; the bit timing, for every cell length and every *)
(* jitter below 3/16 of a cell; and the FX.25 receiver, for every set of   *)
(* frames and every number of transmissions and spoilt units.              *)
(***************************************************************************)
EXTENDS LineCode, Fx25, FiniteSetTheorems, SequenceTheorems, TLAPS

-----------------------------------------------------------------------------
(* Coding                                                                  *)

\* With k line bits since the latest flip, the descrambler's register agrees with
\* the scrambler's in its first k bits; once it agrees in all of them the next level
\* is the one sent, and the data bit after that one too.
Synchronised ==
  /\ \A i \in 1 .. Stages : i <= last.clean => decoder.reg[i] = coder.reg[i]
  /\ last.clean > Stages => decoder.prev = coder.level
  /\ last.clean > Stages + 1 => last.got = last.sent
CodingTypes ==
  /\ coder \in [reg : [1 .. Stages -> Bits], level : Bits]
  /\ decoder \in [reg : [1 .. Stages -> Bits], prev : Bits]
  /\ last \in [sent : Bits, got : Bits, clean : Nat]
CodingInv == CodingTypes /\ Synchronised

\* A decoder that knows the line's level gets the bit that was encoded.
LEMMA NrziReadsBack ==
  ASSUME NEW level \in Bits, NEW bit \in Bits
  PROVE  /\ nrzi_encode(level, bit) \in Bits
         /\ nrzi_decode(level, nrzi_encode(level, bit)) = bit
BY DEF nrzi_encode, nrzi_decode, Bits

\* Adding the same taps twice, modulo 2, changes nothing.
LEMMA AddTwice ==
  ASSUME NEW bit \in Bits, NEW t \in Bits
  PROVE  (bit + t) % 2 \in Bits /\ (((bit + t) % 2) + t) % 2 = bit
BY DEF Bits

\* Registers hold bits; the taps of two registers that agree are the same.
LEMMA TapsOf ==
  ASSUME NEW reg \in [1 .. Stages -> Bits]
  PROVE  taps(reg) \in Bits
<1>1. reg[TapA] \in Bits /\ reg[TapB] \in Bits
  BY LineCodeAssumption
<1> QED
  BY <1>1 DEF taps, Bits
LEMMA ShiftTypes ==
  ASSUME NEW reg \in [1 .. Stages -> Bits], NEW bit \in Bits
  PROVE  shift_in(reg, bit) \in [1 .. Stages -> Bits]
BY LineCodeAssumption DEF shift_in

\* One line bit, flipped or not, keeps the invariant.
LEMMA TransferCodingInv ==
  ASSUME CodingInv, NEW bit \in Bits, NEW flip \in BOOLEAN, Transfer(bit, flip)
  PROVE  CodingInv'
<1> DEFINE t == taps(coder.reg)
           level == nrzi_encode(coder.level, bit)
           line == (level + t) % 2
           heard == IF flip THEN 1 - line ELSE line
           u == taps(decoder.reg)
           plain == (heard + u) % 2
           data == nrzi_decode(decoder.prev, plain)
<1>1. /\ coder.reg \in [1 .. Stages -> Bits] /\ coder.level \in Bits
      /\ decoder.reg \in [1 .. Stages -> Bits] /\ decoder.prev \in Bits
      /\ last.clean \in Nat
  BY DEF CodingInv, CodingTypes
<1>2. t \in Bits /\ u \in Bits
  BY <1>1, TapsOf
<1>3. level \in Bits /\ nrzi_decode(coder.level, level) = bit
  BY <1>1, NrziReadsBack
<1>4. line \in Bits /\ (line + t) % 2 = level
  BY <1>2, <1>3, AddTwice
<1>5. heard \in Bits /\ plain \in Bits /\ data \in Bits
  <2>1. heard \in Bits
    BY <1>4 DEF Bits
  <2>2. plain \in Bits
    BY <1>2, <2>1, AddTwice
  <2> QED
    BY <2>1, <2>2 DEF Bits, nrzi_decode
<1>6. /\ coder' = [reg |-> shift_in(coder.reg, line), level |-> level]
      /\ decoder' = [reg |-> shift_in(decoder.reg, heard), prev |-> plain]
      /\ last' = [sent |-> bit, got |-> data,
                  clean |-> IF flip THEN 0
                            ELSE IF last.clean > Stages + 1 THEN last.clean ELSE last.clean + 1]
  BY DEF Transfer, transmit, receive, descramble_line
<1>7. ASSUME ~flip, last.clean >= Stages PROVE plain = level
  <2>1. /\ decoder.reg[TapA] = coder.reg[TapA]
        /\ decoder.reg[TapB] = coder.reg[TapB]
    BY <1>1, <1>7, LineCodeAssumption DEF CodingInv, Synchronised
  <2>2. u = t
    BY <2>1 DEF taps
  <2>3. heard = line
    BY <1>7
  <2> QED
    BY <1>4, <2>2, <2>3
<1> HIDE DEF t, level, line, heard, u, plain
<1>8. CodingTypes'
  <2>1. /\ shift_in(coder.reg, line) \in [1 .. Stages -> Bits]
        /\ shift_in(decoder.reg, heard) \in [1 .. Stages -> Bits]
    BY <1>1, <1>4, <1>5, ShiftTypes
  <2> HIDE DEF data
  <2> QED
    BY <1>1, <1>3, <1>5, <1>6, <2>1 DEF CodingTypes
<1>9. Synchronised'
  <2>1. CASE flip
    <3>1. last'.clean = 0
      BY <1>6, <2>1
    <3> QED
      BY <3>1, LineCodeAssumption DEF Synchronised
  <2>2. CASE ~flip
    <3>1. last'.clean = (IF last.clean > Stages + 1 THEN last.clean ELSE last.clean + 1)
      BY <1>6, <2>2
    <3>2. ASSUME NEW i \in 1 .. Stages, i <= last'.clean
          PROVE  decoder'.reg[i] = coder'.reg[i]
      <4>1. decoder'.reg[i] = (IF i = 1 THEN heard ELSE decoder.reg[i - 1])
            /\ coder'.reg[i] = (IF i = 1 THEN line ELSE coder.reg[i - 1])
        BY <1>6 DEF shift_in
      <4>2. i # 1 => i - 1 \in 1 .. Stages /\ i - 1 <= last.clean
        BY <1>1, <3>1, <3>2, LineCodeAssumption
      <4>3. heard = line
        BY <2>2 DEF heard
      <4>4. i # 1 => decoder.reg[i - 1] = coder.reg[i - 1]
        BY <4>2 DEF CodingInv, Synchronised
      <4> QED
        BY <4>1, <4>3, <4>4
    <3>3. ASSUME last'.clean > Stages
          PROVE  decoder'.prev = coder'.level
      <4>1. last.clean >= Stages
        BY <1>1, <3>1, <3>3, LineCodeAssumption
      <4> QED
        BY <1>6, <1>7, <2>2, <4>1
    <3>4. ASSUME last'.clean > Stages + 1
          PROVE  last'.got = last'.sent
      <4>1. last.clean > Stages /\ last.clean >= Stages
        BY <1>1, <3>1, <3>4, LineCodeAssumption
      <4>2. plain = level /\ decoder.prev = coder.level
        BY <1>7, <2>2, <4>1 DEF CodingInv, Synchronised
      <4>3. data = bit
        BY <1>3, <4>2
      <4> QED
        BY <1>6, <4>3
    <3> QED
      BY <3>2, <3>3, <3>4 DEF Synchronised
  <2> QED
    BY <2>1, <2>2
<1> QED
  BY <1>8, <1>9 DEF CodingInv

\* However the registers and levels of both ends begin, and whichever bits the
\* line flips, the data is right again Stages + 2 line bits after the latest flip:
\* the descrambler's register holds only bits of the line (Descrambler::descramble).
THEOREM SelfSynchronisesCorrect == CodingSpec => []SelfSynchronises
<1>1. CodingInit => CodingInv
  BY LineCodeAssumption DEF CodingInit, CodingInv, CodingTypes, Synchronised, Bits
<1>2. CodingInv /\ [CodingNext]_codingVars => CodingInv'
  <2> SUFFICES ASSUME CodingInv, [CodingNext]_codingVars PROVE CodingInv'
    OBVIOUS
  <2>1. CASE CodingNext
    BY <2>1, TransferCodingInv DEF CodingNext
  <2>2. CASE UNCHANGED codingVars
    BY <2>2 DEF codingVars, CodingInv, CodingTypes, Synchronised
  <2> QED
    BY <2>1, <2>2
<1>3. CodingInv => SelfSynchronises
  BY DEF CodingInv, Synchronised, SelfSynchronises
<1> QED
  BY <1>1, <1>2, <1>3, PTL DEF CodingSpec

-----------------------------------------------------------------------------
(* Bit timing: one decision per cell, whatever the cell's length in phase  *)
(* units and in samples, and whatever the jitter within the assumption     *)

Wander == Jitter * PhaseStep
HalfTurn == Period \div 2
\* The clock's error just behind an edge, once one fell in the window.
Bound == (Period \div 8) + Wander + 2
Within(x, b) == -b <= x /\ x <= b

\* The slicer has seen a sample of this cell, or needs none to know its level.
Arrived == slicer.last_positive = (cell.level = 1)
\* How late this cell began.
Began == SamplesPerBit + cell.end - cell.left
\* The phase at the cell's end, no further edge given, against the one at which
\* an edge as late as that end is expected.
Ahead == slicer.phase + cell.decisions * Period + cell.left * PhaseStep
           - (Period + HalfTurn + cell.end * PhaseStep)

Slicers == [phase : 0 .. Period - 1, last_positive : BOOLEAN, primed : BOOLEAN, lock : 0 .. LOCK_MAX]
Cells == [level : Bits, end : -Jitter .. Jitter, left : Nat, run : 1 .. MaxRun, decisions : Nat,
          locked : BOOLEAN]

\* With the lock counter above zero, the clock is never further from the line's
\* than Bound and the drift since the last edge.
OnTrack ==
  /\ ~slicer.primed => Arrived /\ cell.left > 0
  /\ ~Arrived => /\ cell.decisions = 0 /\ cell.run = 1
                 /\ cell.locked => slicer.lock >= LOCK_THRESHOLD
                 /\ Began \in -Jitter .. Jitter
                 /\ slicer.lock >= 1 =>
                      Within(slicer.phase - (HalfTurn + Began * PhaseStep), Bound + Drift)
  /\ Arrived => /\ cell.locked => slicer.lock >= LOCK_THRESHOLD - 4
                /\ slicer.lock >= 1 => Within(Ahead, Bound + cell.run * Magnitude(Skew))

TimingInv == slicer \in Slicers /\ cell \in Cells /\ OnTrack

-----------------------------------------------------------------------------
(* Products                                                                *)

\* What the provers need to hear of a product: they take one of two variables
\* as opaque.
LEMMA Product ==
  /\ \A a, b \in Int : a * b \in Int
  /\ \A a, b, c \in Int : (a + b) * c = a * c + b * c
  /\ \A a, b, c \in Int : (a - b) * c = a * c - b * c
  /\ \A a \in Int : 0 * a = 0 /\ 1 * a = a
OBVIOUS

\* Multiplying keeps the order.
LEMMA Monotone ==
  ASSUME NEW a \in Int, NEW b \in Int, NEW c \in Nat, a <= b
  PROVE  a * c <= b * c
OBVIOUS

\* The remainder of what is less than twice the modulus.
LEMMA Remainder ==
  ASSUME NEW p \in Nat, p > 0, NEW x \in Int
  PROVE  /\ 0 <= x /\ x < p => x % p = x
         /\ p <= x /\ x < 2 * p => x % p = x - p
OBVIOUS

\* The quotient of what is less than k + 1 times the divisor.
LEMMA Quotient ==
  ASSUME NEW a \in Nat, NEW n \in Nat, n > 0, NEW k \in Nat, a < (k + 1) * n
  PROVE  a \div n \in 0 .. k
OBVIOUS

\* What the constants are, and what the assumption says of them.
LEMMA Scales ==
  /\ Period \in Nat /\ PhaseStep \in Nat /\ HalfTurn \in Nat /\ Wander \in Nat /\ Bound \in Nat
  /\ Drift \in Nat /\ Magnitude(Skew) \in Nat /\ Skew \in Int
  /\ Period >= 56 * Drift + 56
  /\ 16 * Wander + 8 * Drift + 32 < 3 * Period
  /\ Period - 1 <= 2 * HalfTurn /\ 2 * HalfTurn <= Period
  /\ Period + 8 * Wander + 8 < 8 * Bound /\ 8 * Bound <= Period + 8 * Wander + 16
  /\ PhaseStep <= Period
  /\ SamplesPerBit * PhaseStep = Period + Skew
  /\ -Magnitude(Skew) <= Skew /\ Skew <= Magnitude(Skew)
  /\ \A run \in 0 .. MaxRun : run * Magnitude(Skew) \in 0 .. Drift
  /\ \A e \in -Jitter .. Jitter : e * PhaseStep \in -Wander .. Wander
<1>1. SamplesPerBit \in Nat \ {0} /\ Jitter \in Nat /\ MaxRun \in Nat \ {0} /\ PhaseBits \in Nat \ {0}
  BY LineCodeAssumption
<1>2. Period \in Int
  BY <1>1 DEF Period
<1> HIDE DEF Period
<1> DEFINE n == SamplesPerBit
           q == Period + n \div 2
<1>3. PhaseStep = q \div n /\ q \in Int
  BY <1>1, <1>2 DEF PhaseStep
<1>4. PhaseStep \in Int
  BY <1>1, <1>3
<1>5. Skew \in Int
  BY <1>1, <1>2, <1>4 DEF Skew
<1>6. Magnitude(Skew) \in Nat /\ -Magnitude(Skew) <= Skew /\ Skew <= Magnitude(Skew)
  BY <1>5 DEF Magnitude
<1>7. Drift \in Nat
  BY <1>1, <1>6 DEF Drift
<1>8. Period >= 56 * Drift + 56 /\ Period \in Nat
  BY <1>2, <1>7, TimingAssumption
<1>9. q \in Nat /\ q < (Period + 1) * n
  <2>1. n \div 2 \in Nat /\ n \div 2 < n
    BY <1>1
  <2>2. Period * n >= Period
    BY <1>1, <1>8
  <2> QED
    BY <1>1, <1>8, <2>1, <2>2
<1>10. PhaseStep \in Nat /\ PhaseStep <= Period
  <2>1. n \in Nat /\ n > 0
    BY <1>1
  <2> HIDE DEF q, n
  <2>2. q \div n \in 0 .. Period
    BY <1>8, <1>9, <2>1, Quotient
  <2> QED
    BY <1>3, <1>8, <2>2
<1>11. Wander \in Nat
  BY <1>1, <1>10 DEF Wander
<1>12. 16 * Wander + 8 * Drift + 32 < 3 * Period
  BY TimingAssumption DEF Wander
<1>13. /\ HalfTurn \in Nat /\ Period - 1 <= 2 * HalfTurn /\ 2 * HalfTurn <= Period
       /\ Bound \in Nat /\ Period + 8 * Wander + 8 < 8 * Bound
       /\ 8 * Bound <= Period + 8 * Wander + 16
  BY <1>8, <1>11 DEF HalfTurn, Bound
<1>14. SamplesPerBit * PhaseStep = Period + Skew
  <2>1. SamplesPerBit * PhaseStep \in Int
    BY <1>1, <1>10
  <2> QED
    BY <1>2, <2>1 DEF Skew
<1>15. ASSUME NEW run \in 0 .. MaxRun
       PROVE  run * Magnitude(Skew) \in 0 .. Drift
  <2> DEFINE m == Magnitude(Skew)
  <2>1. m \in Nat /\ Drift = MaxRun * m
    BY <1>6 DEF Drift
  <2> HIDE DEF m
  <2>2. 0 <= run * m /\ run * m <= MaxRun * m /\ run * m \in Int
    BY <1>1, <2>1, Monotone
  <2> QED
    BY <1>1, <1>7, <2>1, <2>2 DEF m
<1>16. ASSUME NEW e \in -Jitter .. Jitter
       PROVE  e * PhaseStep \in -Wander .. Wander
  <2>1. e * PhaseStep <= Jitter * PhaseStep /\ (-Jitter) * PhaseStep <= e * PhaseStep
    BY <1>1, <1>10, Monotone
  <2>2. (-Jitter) * PhaseStep = -(Jitter * PhaseStep) /\ e * PhaseStep \in Int
    BY <1>1, <1>10
  <2> QED
    BY <1>11, <2>1, <2>2 DEF Wander
<1> QED
  BY <1>5, <1>6, <1>7, <1>8, <1>10, <1>11, <1>12, <1>13, <1>14, <1>15, <1>16

-----------------------------------------------------------------------------
(* The slicer                                                              *)

\* The divisors of the two loop gains.
LEMMA Shifts == 2 ^ SEARCH_SHIFT = 2 /\ 2 ^ LOCK_SHIFT = 8
BY DEF SEARCH_SHIFT, LOCK_SHIFT

\* An edge moves the phase by a half or an eighth of its offset, which never
\* wraps it; the lock counter drops by at most four, and leaves zero only for
\* an edge within the window.
Nudged(p, q) ==
  \E d \in {2, 8} : q = p - (p - HalfTurn) \div d
EdgeOf(s, r) ==
  /\ r \in Slicers /\ r.last_positive = s.last_positive /\ r.primed = s.primed
  /\ Nudged(s.phase, r.phase)
  /\ s.lock < LOCK_THRESHOLD => r.phase = s.phase - (s.phase - HalfTurn) \div 2
  /\ s.lock >= LOCK_THRESHOLD => r.lock >= LOCK_THRESHOLD - 4
  /\ r.lock >= 1 => s.lock >= 1 \/ Within(s.phase - HalfTurn, Period \div 4)
LEMMA EdgeNudges ==
  ASSUME NEW s \in Slicers
  PROVE  EdgeOf(s, at_edge(s))
<1> DEFINE off == s.phase - HalfTurn
           d == 2 ^ (IF s.lock >= LOCK_THRESHOLD THEN LOCK_SHIFT ELSE SEARCH_SHIFT)
           p == (s.phase - (off \div d)) % Period
           l == IF Magnitude(off) < WINDOW THEN (IF s.lock < LOCK_MAX THEN s.lock + 1 ELSE s.lock)
                ELSE IF s.lock > 4 THEN s.lock - 4 ELSE 0
           r == at_edge(s)
<1>1. /\ s.phase \in 0 .. Period - 1 /\ s.lock \in 0 .. 12
      /\ s = [phase |-> s.phase, last_positive |-> s.last_positive, primed |-> s.primed,
              lock |-> s.lock]
      /\ s.last_positive \in BOOLEAN /\ s.primed \in BOOLEAN
  BY DEF Slicers, LOCK_MAX
<1>2. r = [s EXCEPT !.phase = p, !.lock = l]
  BY Zenon DEF at_edge, edge_offset, HalfTurn
<1>3. d \in {2, 8} /\ (s.lock < LOCK_THRESHOLD => d = 2)
  BY <1>1, Shifts DEF LOCK_THRESHOLD
<1>4. Period \in Nat /\ HalfTurn \in Nat /\ Period >= 56 /\ Period - 1 <= 2 * HalfTurn
      /\ 2 * HalfTurn <= Period
  BY Scales
<1>5. s.phase - (off \div d) \in 0 .. Period - 1
  <2> HIDE DEF d
  <2> HIDE DEF HalfTurn, Period
  <2>1. CASE d = 2
    BY <1>1, <1>4, <2>1
  <2>2. CASE d = 8
    BY <1>1, <1>4, <2>2
  <2> QED
    BY <1>3, <2>1, <2>2
<1>6. p = s.phase - (off \div d) /\ p \in 0 .. Period - 1
  <2> DEFINE x == s.phase - (off \div d)
  <2>1. x \in Int /\ 0 <= x /\ x < Period /\ Period > 0
    BY <1>4, <1>5
  <2>2. p = x % Period
    OBVIOUS
  <2> HIDE DEF x, p, Period
  <2>3. x % Period = x
    BY <1>4, <2>1, Remainder
  <2> QED
    BY <1>4, <2>1, <2>2, <2>3 DEF x
<1>7. /\ l \in 0 .. 12
      /\ s.lock >= 7 => l >= 3
      /\ l >= 1 => s.lock >= 1 \/ Magnitude(off) < WINDOW
  BY <1>1 DEF LOCK_MAX
<1>8. Magnitude(off) < WINDOW => Within(off, Period \div 4)
  <2> HIDE DEF HalfTurn, Period
  <2>1. off \in Int
    BY <1>1, <1>4
  <2> HIDE DEF off
  <2> QED
    BY <1>4, <2>1 DEF Magnitude, WINDOW, Within
<1>9. /\ Nudged(s.phase, p)
      /\ s.lock < LOCK_THRESHOLD => p = s.phase - (off \div 2)
  BY <1>3, <1>6 DEF Nudged
<1> HIDE DEF p, l, r, off
<1>10. r = [phase |-> p, last_positive |-> s.last_positive, primed |-> s.primed, lock |-> l]
  BY <1>1, <1>2
<1>11. r.phase = p /\ r.lock = l /\ r.last_positive = s.last_positive /\ r.primed = s.primed
  BY <1>10
<1>12. r \in Slicers
  <2>1. l \in 0 .. LOCK_MAX
    BY <1>7 DEF LOCK_MAX
  <2> HIDE DEF Period
  <2> QED
    BY <1>1, <1>6, <1>10, <2>1, Zenon DEF Slicers
<1>13. r.lock >= 1 => s.lock >= 1 \/ Within(off, Period \div 4)
  BY <1>7, <1>8, <1>11
<1>14. s.lock >= LOCK_THRESHOLD => r.lock >= LOCK_THRESHOLD - 4
  BY <1>1, <1>7, <1>11 DEF LOCK_THRESHOLD
<1>15. EdgeOf(s, r)
  BY <1>9, <1>11, <1>12, <1>13, <1>14, Zenon DEF EdgeOf, off
<1> QED
  BY <1>15 DEF r

\* The nudge brings the clock within Bound of an edge's nominal place, w behind
\* half a turn: from no further than Bound and a run's drift, or from anywhere
\* in the window.
LEMMA NudgeCloses ==
  ASSUME NEW p \in 0 .. Period - 1, NEW q, NEW w \in -Wander .. Wander, Nudged(p, q),
         \/ Within(p - (HalfTurn + w), Bound + Drift)
         \/ Within(p - HalfTurn, Period \div 4) /\ q = p - (p - HalfTurn) \div 2
  PROVE  Within(q - (HalfTurn + w), Bound)
<1> HIDE DEF Period, HalfTurn, Bound, Wander, Drift
<1>1. /\ Period \in Nat /\ HalfTurn \in Nat /\ Wander \in Nat /\ Bound \in Nat /\ Drift \in Nat
      /\ Period >= 56 * Drift + 56 /\ Period + 8 * Wander + 8 < 8 * Bound
  BY Scales
<1>2. CASE q = p - (p - HalfTurn) \div 2
  BY <1>1, <1>2 DEF Within
<1>3. CASE q = p - (p - HalfTurn) \div 8 /\ Within(p - (HalfTurn + w), Bound + Drift)
  BY <1>1, <1>3 DEF Within
<1> QED
  BY <1>2, <1>3 DEF Nudged

Ticked(s, p, q, r) == [s EXCEPT !.phase = p, !.last_positive = q, !.primed = r]
\* The slicer after a sample, field by field.
LEMMA ThreeFields ==
  ASSUME NEW p0, NEW q0, NEW r0, NEW l, NEW p, NEW q, NEW r
  PROVE  Ticked([phase |-> p0, last_positive |-> q0, primed |-> r0, lock |-> l], p, q, r)
           = [phase |-> p, last_positive |-> q, primed |-> r, lock |-> l]
<1> DEFINE s == [phase |-> p0, last_positive |-> q0, primed |-> r0, lock |-> l]
           s1 == [phase |-> p, last_positive |-> q0, primed |-> r0, lock |-> l]
           s2 == [phase |-> p, last_positive |-> q, primed |-> r0, lock |-> l]
<1>1. [s EXCEPT !.phase = p] = s1
  OBVIOUS
<1>2. [s1 EXCEPT !.last_positive = q] = s2
  OBVIOUS
<1>3. [s2 EXCEPT !.primed = r] = [phase |-> p, last_positive |-> q, primed |-> r, lock |-> l]
  OBVIOUS
<1>4. [s EXCEPT !.phase = p, !.last_positive = q, !.primed = r]
        = [[[s EXCEPT !.phase = p] EXCEPT !.last_positive = q] EXCEPT !.primed = r]
  OBVIOUS
<1>5. Ticked(s, p, q, r) = [[[s EXCEPT !.phase = p] EXCEPT !.last_positive = q] EXCEPT !.primed = r]
  BY <1>4 DEF Ticked
<1> HIDE DEF s, s1, s2
<1>6. Ticked(s, p, q, r) = [phase |-> p, last_positive |-> q, primed |-> r, lock |-> l]
  BY <1>1, <1>2, <1>3, <1>5
<1> QED
  BY <1>6 DEF s

\* A sample: the edge first, if it shows one, then one step of the clock, which
\* wraps once for each decision.
Seen(s, positive) == IF s.primed /\ positive # s.last_positive THEN at_edge(s) ELSE s
Ticks(s, positive, r) ==
  /\ r.slicer \in Slicers /\ r.slicer.primed = TRUE /\ r.slicer.last_positive = positive
  /\ r.slicer.lock = Seen(s, positive).lock
  /\ r.decision \in BOOLEAN
  /\ r.slicer.phase + (IF r.decision THEN Period ELSE 0) = Seen(s, positive).phase + PhaseStep
LEMMA PushTicks ==
  ASSUME NEW s \in Slicers, NEW positive \in BOOLEAN
  PROVE  Ticks(s, positive, slicer_push(s, positive))
<1> DEFINE seen == Seen(s, positive)
           next == seen.phase + PhaseStep
           wrapped == next >= Period
           yes == TRUE
           p == next % Period
           r == slicer_push(s, positive)
           t == Ticked(seen, p, positive, yes)
<1>1. seen \in Slicers
  BY EdgeNudges DEF Seen, EdgeOf
<1>2. r = [slicer |-> t, decision |-> wrapped]
  BY Zenon DEF slicer_push, Seen, Ticked
<1>3. /\ seen.phase \in 0 .. Period - 1 /\ seen.lock \in 0 .. LOCK_MAX
      /\ seen = [phase |-> seen.phase, last_positive |-> seen.last_positive,
                 primed |-> seen.primed, lock |-> seen.lock]
  BY <1>1 DEF Slicers
<1>4. Period \in Nat /\ Period > 0 /\ PhaseStep \in Nat /\ PhaseStep <= Period
  BY Scales
<1>5. p \in 0 .. Period - 1 /\ p + (IF wrapped THEN Period ELSE 0) = next
  <2> DEFINE x == next
  <2>1. x \in Int /\ 0 <= x /\ x < 2 * Period
    BY <1>3, <1>4
  <2> HIDE DEF x, Period
  <2>2. x % Period = IF x >= Period THEN x - Period ELSE x
    BY <1>4, <2>1, Remainder
  <2> QED
    BY <1>4, <2>1, <2>2 DEF x
<1>6. wrapped \in BOOLEAN
  OBVIOUS
<1> HIDE DEF seen, p, yes, wrapped, next
<1>7. t = [phase |-> p, last_positive |-> positive, primed |-> yes, lock |-> seen.lock]
  <2> DEFINE p0 == seen.phase
             q0 == seen.last_positive
             r0 == seen.primed
             l == seen.lock
  <2>1. seen = [phase |-> p0, last_positive |-> q0, primed |-> r0, lock |-> l]
    BY <1>3
  <2> HIDE DEF p0, q0, r0, l
  <2>2. t = [phase |-> p, last_positive |-> positive, primed |-> yes, lock |-> l]
    <3>1. Ticked([phase |-> p0, last_positive |-> q0, primed |-> r0, lock |-> l], p, positive, yes)
            = [phase |-> p, last_positive |-> positive, primed |-> yes, lock |-> l]
      BY ThreeFields
    <3> QED
      BY <2>1, <3>1, Zenon
  <2> QED
    BY <2>2 DEF l
<1> HIDE DEF t
<1>8. t.phase = p /\ t.last_positive = positive /\ t.primed = yes /\ t.lock = seen.lock
  BY <1>7
<1>9. t \in Slicers
  <2>1. yes \in BOOLEAN
    BY DEF yes
  <2> QED
    BY <1>3, <1>5, <1>7, <2>1, Zenon DEF Slicers
<1> HIDE DEF r
<1>10. r.slicer = t /\ r.decision = wrapped
  BY <1>2
<1>11. yes = TRUE
  BY DEF yes
<1>12. Ticks(s, positive, r)
  BY <1>5, <1>6, <1>8, <1>9, <1>10, <1>11 DEF Ticks, seen, next
<1> QED
  BY <1>12 DEF r

-----------------------------------------------------------------------------
(* The steps                                                               *)

\* The cell, field by field.
LEMMA CellFields ==
  ASSUME cell \in Cells
  PROVE  /\ cell.level \in Bits /\ cell.end \in -Jitter .. Jitter /\ cell.left \in Nat
         /\ cell.run \in 1 .. MaxRun /\ cell.decisions \in Nat /\ cell.locked \in BOOLEAN
         /\ cell.left * PhaseStep \in Int /\ cell.end * PhaseStep \in -Wander .. Wander
         /\ cell.decisions * Period \in Int
         /\ cell.run * Magnitude(Skew) \in 0 .. Drift
<1>1. /\ cell.level \in Bits /\ cell.end \in -Jitter .. Jitter /\ cell.left \in Nat
      /\ cell.run \in 1 .. MaxRun /\ cell.decisions \in Nat /\ cell.locked \in BOOLEAN
  BY DEF Cells
<1>2. cell.run \in 0 .. MaxRun
  BY <1>1
<1>3. Period \in Int /\ PhaseStep \in Int
  BY Scales
<1> HIDE DEF Period
<1>4. cell.left * PhaseStep \in Int /\ cell.decisions * Period \in Int
  BY <1>1, <1>3
<1> QED
  BY <1>1, <1>2, <1>4, Scales

\* What is left of a cell of which a sample is taken.
LEMMA OneLess ==
  ASSUME NEW n \in Nat, n > 0
  PROVE  n - 1 \in Nat /\ (n - 1) * PhaseStep = n * PhaseStep - PhaseStep
BY Scales

\* One more cell in a run without an edge, one more step of drift.
LEMMA OneMore ==
  ASSUME NEW n \in Nat, NEW c \in Nat
  PROVE  n + 1 \in Nat /\ (n + 1) * c = n * c + c
OBVIOUS

\* Taking a sample.
LEMMA SampleKeeps ==
  ASSUME TimingInv, Sample
  PROVE  TimingInv'
<1> DEFINE up == cell.level = 1
           r == slicer_push(slicer, up)
           seen == Seen(slicer, up)
<1>1. slicer \in Slicers /\ cell \in Cells /\ cell.left > 0 /\ slicer' = r.slicer
      /\ cell' = [cell EXCEPT !.left = @ - 1,
                              !.decisions = @ + (IF r.decision THEN 1 ELSE 0)]
  BY Zenon DEF TimingInv, Sample
<1>2. Ticks(slicer, up, r)
  <2>1. up \in BOOLEAN
    OBVIOUS
  <2> HIDE DEF up
  <2> QED
    BY <1>1, <2>1, PushTicks
<1> DEFINE made == IF r.decision THEN 1 ELSE 0
<1>3. cell' = [cell EXCEPT !.left = @ - 1, !.decisions = @ + made]
  BY <1>1
<1>4. made \in {0, 1}
  OBVIOUS
<1> HIDE DEF r, made
<1>5. /\ cell'.level = cell.level /\ cell'.end = cell.end /\ cell'.left = cell.left - 1
      /\ cell'.run = cell.run /\ cell'.decisions = cell.decisions + made
      /\ cell'.locked = cell.locked
  BY <1>1, <1>3 DEF Cells
<1>6. cell' \in Cells
  <2>1. cell.left - 1 \in Nat /\ cell.decisions + made \in Nat
    BY <1>1, <1>4, CellFields
  <2> QED
    BY <1>1, <1>3, <2>1 DEF Cells
<1>7. /\ slicer' \in Slicers /\ slicer'.primed = TRUE /\ slicer'.last_positive = up
      /\ slicer'.lock = seen.lock
      /\ slicer'.phase + (IF r.decision THEN Period ELSE 0) = seen.phase + PhaseStep
  BY <1>1, <1>2 DEF Ticks
<1>8. Arrived'
  BY <1>5, <1>7 DEF Arrived
<1> DEFINE target == Period + HalfTurn + cell.end * PhaseStep
<1>9. Ahead' = seen.phase + cell.decisions * Period + cell.left * PhaseStep - target
  <2>1. (cell.left - 1) * PhaseStep = cell.left * PhaseStep - PhaseStep
    BY <1>1, OneLess, CellFields
  <2>2. (cell.decisions + made) * Period
          = cell.decisions * Period + (IF r.decision THEN Period ELSE 0)
    <3>1. cell.decisions \in Nat /\ Period \in Nat
      BY <1>1, CellFields, Scales
    <3> HIDE DEF Period
    <3> QED
      BY <3>1, OneMore DEF made
  <2>3. Ahead' = slicer'.phase + (cell.decisions + made) * Period + (cell.left - 1) * PhaseStep - target
    BY <1>5 DEF Ahead
  <2>4. seen.phase \in Int /\ slicer'.phase \in Int
    <3>1. seen \in Slicers
      BY <1>1, EdgeNudges DEF Seen, EdgeOf
    <3> QED
      BY <1>7, <3>1, Scales DEF Slicers
  <2>5. /\ Period \in Int /\ PhaseStep \in Int /\ HalfTurn \in Int /\ cell.left * PhaseStep \in Int
        /\ cell.end * PhaseStep \in Int /\ cell.decisions * Period \in Int
    BY <1>1, CellFields, Scales
  <2> DEFINE a == cell.left * PhaseStep
             b == cell.decisions * Period
             c == cell.end * PhaseStep
             d == IF r.decision THEN Period ELSE 0
  <2>6. /\ Ahead' = slicer'.phase + (b + d) + (a - PhaseStep) - target
        /\ slicer'.phase + d = seen.phase + PhaseStep
        /\ target = Period + HalfTurn + c
    BY <1>7, <2>1, <2>2, <2>3
  <2>7. a \in Int /\ b \in Int /\ c \in Int /\ d \in Int
    BY <2>5
  <2> HIDE DEF a, b, c, d, target, seen, HalfTurn, Period
  <2>8. Ahead' = seen.phase + b + a - target
    BY <2>4, <2>5, <2>6, <2>7
  <2> QED
    BY <2>8 DEF a, b
<1>10. (cell.locked => seen.lock >= LOCK_THRESHOLD - 4)
       /\ (seen.lock >= 1 =>
             Within(seen.phase + cell.decisions * Period + cell.left * PhaseStep - target,
                    Bound + cell.run * Magnitude(Skew)))
  <2>1. CASE Arrived
    <3>1. seen = slicer
      BY <2>1 DEF Seen, Arrived
    <3> QED
      BY <2>1, <3>1 DEF TimingInv, OnTrack, Ahead
  <2>2. CASE ~Arrived
    <3>1. seen = at_edge(slicer)
      <4>1. slicer.primed /\ up # slicer.last_positive
        <5>1. slicer.last_positive \in BOOLEAN
          BY <1>1 DEF Slicers
        <5> QED
          BY <2>2, <5>1 DEF TimingInv, OnTrack, Arrived
      <4> QED
        BY <4>1 DEF Seen
    <3>2. EdgeOf(slicer, seen)
      BY <1>1, <3>1, EdgeNudges
    <3> DEFINE w == Began * PhaseStep
    <3>3. /\ cell.decisions = 0 /\ cell.run = 1 /\ Began \in -Jitter .. Jitter
          /\ cell.locked => slicer.lock >= LOCK_THRESHOLD
          /\ slicer.lock >= 1 => Within(slicer.phase - (HalfTurn + w), Bound + Drift)
      BY <2>2 DEF TimingInv, OnTrack
    <3>4. w \in -Wander .. Wander
      BY <3>3, Scales
    <3>5. slicer.phase \in 0 .. Period - 1 /\ slicer.lock \in Nat
      BY <1>1 DEF Slicers
    <3>6. seen.lock >= 1 => Within(seen.phase - (HalfTurn + w), Bound)
      <4>1. CASE slicer.lock >= 1
        <5> HIDE DEF w
        <5> QED
          BY <3>2, <3>3, <3>4, <3>5, <4>1, NudgeCloses DEF EdgeOf
      <4>2. CASE ~(slicer.lock >= 1)
        <5>1. slicer.lock < LOCK_THRESHOLD
          BY <3>5, <4>2 DEF LOCK_THRESHOLD
        <5> HIDE DEF w
        <5> QED
          BY <3>2, <3>4, <3>5, <4>2, <5>1, NudgeCloses DEF EdgeOf
      <4> QED
        BY <4>1, <4>2
    <3>7. cell.left * PhaseStep = Period + Skew + cell.end * PhaseStep - w
      <4>1. cell.left = SamplesPerBit + cell.end - Began /\ Began \in Int /\ cell.end \in Int
            /\ SamplesPerBit \in Int /\ PhaseStep \in Int
        BY <1>1, CellFields, Scales, LineCodeAssumption DEF Began
      <4> HIDE DEF Began
      <4>2. (SamplesPerBit + cell.end - Began) * PhaseStep
              = SamplesPerBit * PhaseStep + cell.end * PhaseStep - Began * PhaseStep
        BY <4>1, Product
      <4> QED
        BY <4>1, <4>2, Scales
    <3>8. /\ cell.decisions * Period = 0
          /\ cell.run * Magnitude(Skew) = Magnitude(Skew)
      <4>1. Period \in Int /\ Magnitude(Skew) \in Int
        BY Scales
      <4> HIDE DEF Period
      <4> QED
        BY <3>3, <4>1, Product
    <3>9. /\ Period \in Int /\ HalfTurn \in Int /\ Bound \in Int /\ Skew \in Int
          /\ Magnitude(Skew) \in Int /\ -Magnitude(Skew) <= Skew /\ Skew <= Magnitude(Skew)
          /\ cell.end * PhaseStep \in Int /\ seen.phase \in Int /\ w \in Int
      <4>1. seen \in Slicers
        BY <3>2 DEF EdgeOf
      <4>2. w \in Int
        BY <3>4, Scales
      <4>3. seen.phase \in Int
        BY <4>1, Scales DEF Slicers
      <4> HIDE DEF w
      <4> QED
        BY <1>1, <4>2, <4>3, CellFields, Scales
    <3> DEFINE m == Magnitude(Skew)
               c == cell.end * PhaseStep
               x == seen.phase + cell.decisions * Period + cell.left * PhaseStep - target
    <3>10. x = seen.phase + 0 + (Period + Skew + c - w) - (Period + HalfTurn + c)
      BY <3>7, <3>8
    <3> HIDE DEF w, m, c, x, target, HalfTurn, Period, Bound
    <3>11. c \in Int /\ m \in Int /\ -m <= Skew /\ Skew <= m
      BY <3>9 DEF m, c
    <3>12. x = seen.phase - (HalfTurn + w) + Skew
      BY <3>9, <3>10, <3>11
    <3>13. seen.lock >= 1 => Within(x, Bound + m)
      BY <3>6, <3>9, <3>11, <3>12 DEF Within
    <3>14. cell.locked => seen.lock >= LOCK_THRESHOLD - 4
      BY <3>2, <3>3 DEF EdgeOf
    <3> QED
      BY <3>8, <3>13, <3>14 DEF m, x
  <2> QED
    BY <2>1, <2>2
<1>11. OnTrack'
  <2>1. /\ cell'.locked => slicer'.lock >= LOCK_THRESHOLD - 4
        /\ slicer'.lock >= 1 => Within(Ahead', Bound + cell'.run * Magnitude(Skew))
    BY <1>5, <1>7, <1>9, <1>10
  <2> QED
    BY <1>7, <1>8, <2>1 DEF OnTrack
<1> QED
  BY <1>6, <1>7, <1>11 DEF TimingInv

\* At a cell's end the clock stands where its next edge is looked for, and has
\* gone once around on the way.
LEMMA AtEnd ==
  ASSUME TimingInv, cell.left = 0
  PROVE  /\ Arrived /\ slicer.primed
         /\ slicer.lock >= 1 =>
              /\ cell.decisions = 1
              /\ Within(slicer.phase - (HalfTurn + cell.end * PhaseStep),
                        Bound + cell.run * Magnitude(Skew))
<1>1. slicer \in Slicers /\ cell \in Cells
  BY DEF TimingInv
<1>2. Arrived
  <2>1. SUFFICES ASSUME ~Arrived PROVE FALSE
    OBVIOUS
  <2>2. Began \in -Jitter .. Jitter /\ Began = SamplesPerBit + cell.end
    BY <1>1, <2>1, CellFields, LineCodeAssumption DEF TimingInv, OnTrack, Began
  <2> QED
    BY <1>1, <2>2, CellFields, LineCodeAssumption, TimingAssumption
<1>3. slicer.primed
  BY DEF TimingInv, OnTrack
<1>4. ASSUME slicer.lock >= 1
      PROVE  /\ cell.decisions = 1
             /\ Within(slicer.phase - (HalfTurn + cell.end * PhaseStep),
                       Bound + cell.run * Magnitude(Skew))
  <2> DEFINE c == cell.end * PhaseStep
             m == cell.run * Magnitude(Skew)
             k == cell.decisions
  <2>1. Within(Ahead, Bound + m)
    BY <1>2, <1>4 DEF TimingInv, OnTrack
  <2>2. /\ Period \in Nat /\ Period >= 56 * Drift + 56 /\ Drift \in Nat /\ Wander \in Nat
        /\ 16 * Wander + 8 * Drift + 32 < 3 * Period
        /\ HalfTurn \in Nat /\ Period - 1 <= 2 * HalfTurn /\ 2 * HalfTurn <= Period
        /\ Bound \in Nat /\ 8 * Bound <= Period + 8 * Wander + 16
        /\ PhaseStep \in Int
    BY Scales
  <2>3. c \in -Wander .. Wander /\ m \in 0 .. Drift /\ k \in Nat
    BY <1>1, CellFields
  <2>4. slicer.phase \in 0 .. Period - 1
    BY <1>1 DEF Slicers
  <2>5. 0 * PhaseStep = 0
    BY <2>2
  <2> HIDE DEF Period
  <2>6. Ahead = slicer.phase + k * Period + 0 - (Period + HalfTurn + c)
    BY <2>5 DEF Ahead
  <2>7. 0 * Period = 0 /\ 1 * Period = Period /\ k * Period \in Int
    BY <2>2, <2>3
  <2>8. k >= 2 => 2 * Period <= k * Period
    BY <2>2, <2>3, Monotone
  <2> HIDE DEF c, m, k, Bound, HalfTurn, Wander, Drift
  <2>9. k * Period < 2 * Period
    BY <2>1, <2>2, <2>3, <2>4, <2>6, <2>7 DEF Within
  <2>10. k # 0
    BY <2>1, <2>2, <2>3, <2>4, <2>6, <2>7 DEF Within
  <2>11. k = 1
    BY <2>2, <2>3, <2>7, <2>8, <2>9, <2>10
  <2>12. Ahead = slicer.phase - (HalfTurn + c)
    BY <2>2, <2>3, <2>4, <2>6, <2>7, <2>11
  <2> QED
    BY <2>1, <2>11, <2>12 DEF c, m, k
<1> QED
  BY <1>2, <1>3, <1>4

\* The next cell, with or without an edge before it.
LEMMA NextCellKeeps ==
  ASSUME TimingInv, NextCell
  PROVE  TimingInv'
<1>1. slicer \in Slicers /\ cell \in Cells /\ cell.left = 0 /\ slicer' = slicer
  BY DEF TimingInv, NextCell
<1>2. PICK level \in Bits, end \in -Jitter .. Jitter :
        /\ level = cell.level => cell.run < MaxRun
        /\ cell' = [level |-> level, end |-> end, left |-> SamplesPerBit + end - cell.end,
                    run |-> IF level = cell.level THEN cell.run + 1 ELSE 1,
                    decisions |-> 0, locked |-> slicer.lock >= LOCK_THRESHOLD]
  BY DEF NextCell
<1> DEFINE run == IF level = cell.level THEN cell.run + 1 ELSE 1
           left == SamplesPerBit + end - cell.end
           lockd == slicer.lock >= LOCK_THRESHOLD
<1>3. /\ cell'.level = level /\ cell'.end = end /\ cell'.left = left /\ cell'.run = run
      /\ cell'.decisions = 0 /\ cell'.locked = lockd
  BY <1>2
<1>4. left \in Nat /\ left > 0 /\ SamplesPerBit \in Int /\ cell.end \in -Jitter .. Jitter
      /\ Jitter \in Nat
  BY <1>1, CellFields, LineCodeAssumption, TimingAssumption
<1>5. run \in 1 .. MaxRun
  BY <1>1, <1>2, CellFields, LineCodeAssumption
<1>6. lockd \in BOOLEAN
  OBVIOUS
<1> HIDE DEF run, left, lockd
<1>7. cell' \in Cells
  BY <1>2, <1>4, <1>5, <1>6 DEF Cells, run, left, lockd
<1>8. /\ Arrived /\ slicer.primed
      /\ slicer.lock >= 1 =>
           Within(slicer.phase - (HalfTurn + cell.end * PhaseStep),
                  Bound + cell.run * Magnitude(Skew))
  BY <1>1, AtEnd
<1>9. Began' = cell.end
  BY <1>3, <1>4 DEF Began, left
<1>10. cell.run * Magnitude(Skew) \in 0 .. Drift /\ Drift \in Nat /\ Bound \in Nat
  BY <1>1, CellFields, Scales
<1>11. slicer.phase \in Int /\ slicer.lock \in Nat /\ HalfTurn \in Int /\ PhaseStep \in Int
       /\ cell.end * PhaseStep \in Int /\ Period \in Int
  BY <1>1, CellFields, Scales DEF Slicers
<1>12. CASE ~Arrived'
  <2>1. level # cell.level
    BY <1>1, <1>3, <1>8, <1>12 DEF Arrived
  <2>2. run = 1
    BY <2>1 DEF run
  <2>3. slicer.lock >= 1 =>
          Within(slicer.phase - (HalfTurn + cell.end * PhaseStep), Bound + Drift)
    <3> DEFINE x == slicer.phase - (HalfTurn + cell.end * PhaseStep)
               m == cell.run * Magnitude(Skew)
    <3>1. x \in Int /\ (slicer.lock >= 1 => Within(x, Bound + m))
      BY <1>8, <1>11
    <3>2. m \in Int /\ m <= Drift
      BY <1>10
    <3> HIDE DEF x, m, Bound, Drift
    <3>3. slicer.lock >= 1 => Within(x, Bound + Drift)
      BY <1>10, <3>1, <3>2 DEF Within
    <3> QED
      BY <3>3 DEF x
  <2>4. slicer'.primed /\ slicer'.lock = slicer.lock /\ slicer'.phase = slicer.phase
    BY <1>1, <1>8
  <2>5. cell'.locked => slicer'.lock >= LOCK_THRESHOLD
    BY <1>3, <2>4 DEF lockd
  <2>6. Began' \in -Jitter .. Jitter
    BY <1>4, <1>9
  <2>7. slicer'.lock >= 1 =>
          Within(slicer'.phase - (HalfTurn + Began' * PhaseStep), Bound + Drift)
    BY <1>9, <2>3, <2>4
  <2>8. cell'.decisions = 0 /\ cell'.run = 1
    BY <1>3, <2>2
  <2>9. OnTrack'
    BY <1>12, <2>4, <2>5, <2>6, <2>7, <2>8, Zenon DEF OnTrack
  <2> QED
    BY <1>1, <1>7, <2>9 DEF TimingInv
<1>13. CASE Arrived'
  <2>1. level = cell.level
    BY <1>1, <1>2, <1>3, <1>8, <1>13, CellFields DEF Arrived, Bits
  <2>2. run = cell.run + 1 /\ cell.run \in Nat
    BY <1>1, <2>1, CellFields DEF run
  <2>3. run * Magnitude(Skew) = cell.run * Magnitude(Skew) + Magnitude(Skew)
    <3>1. Magnitude(Skew) \in Nat
      BY Scales
    <3> QED
      BY <2>2, <3>1, OneMore
  <2>4. left * PhaseStep = Period + Skew + end * PhaseStep - cell.end * PhaseStep
    <3>1. (SamplesPerBit + end - cell.end) * PhaseStep
            = SamplesPerBit * PhaseStep + end * PhaseStep - cell.end * PhaseStep
      BY <1>4, <1>11, Product
    <3> QED
      BY <3>1, Scales DEF left
  <2> DEFINE a == end * PhaseStep
             b == cell.end * PhaseStep
             m == cell.run * Magnitude(Skew)
             u == Magnitude(Skew)
  <2>5. /\ a \in Int /\ b \in Int /\ m \in Int /\ u \in Int /\ Skew \in Int
        /\ -u <= Skew /\ Skew <= u
    BY <1>10, <1>11, Scales
  <2>6. Ahead' = slicer.phase + 0 + (Period + Skew + a - b) - (Period + HalfTurn + a)
    <3>1. 0 * Period = 0
      BY <1>11, Product
    <3> HIDE DEF Period, HalfTurn
    <3> QED
      BY <1>1, <1>3, <2>4, <3>1 DEF Ahead
  <2>7. slicer.lock >= 1 => Within(slicer.phase - (HalfTurn + b), Bound + m)
    BY <1>8
  <2>8. run * Magnitude(Skew) = m + u
    BY <2>3
  <2> HIDE DEF a, b, m, u, Period, HalfTurn, Bound
  <2>9. Ahead' = slicer.phase - (HalfTurn + b) + Skew
    BY <1>11, <2>5, <2>6
  <2>10. slicer.lock >= 1 => Within(Ahead', Bound + (m + u))
    BY <1>10, <1>11, <2>5, <2>7, <2>9 DEF Within
  <2>11. slicer'.lock >= 1 => Within(Ahead', Bound + cell'.run * Magnitude(Skew))
    BY <1>1, <1>3, <2>8, <2>10
  <2>12. cell'.locked => slicer'.lock >= LOCK_THRESHOLD - 4
    <3>1. slicer'.lock = slicer.lock /\ slicer.lock \in Nat /\ cell'.locked = lockd
      BY <1>1, <1>3, <1>11
    <3>2. lockd => slicer.lock >= LOCK_THRESHOLD
      BY DEF lockd
    <3>3. slicer.lock >= LOCK_THRESHOLD => slicer.lock >= LOCK_THRESHOLD - 4
      BY <3>1 DEF LOCK_THRESHOLD
    <3> QED
      BY <3>1, <3>2, <3>3
  <2>13. slicer'.primed
    BY <1>1, <1>8
  <2>14. OnTrack'
    BY <1>13, <2>11, <2>12, <2>13, Zenon DEF OnTrack
  <2> QED
    BY <1>1, <1>7, <2>14 DEF TimingInv
<1> QED
  BY <1>12, <1>13

\* A slicer as Slicer::new makes it, before its first sample, is on track.
LEMMA TimingStarts == TimingInit => TimingInv
<1> SUFFICES ASSUME TimingInit PROVE TimingInv
  OBVIOUS
<1>1. /\ slicer.phase = 0 /\ slicer.last_positive = TRUE /\ slicer.primed = FALSE
      /\ slicer.lock = 0
      /\ slicer = [phase |-> 0, last_positive |-> TRUE, primed |-> FALSE, lock |-> 0]
  BY DEF TimingInit
<1>2. cell = [level |-> 1, end |-> 0, left |-> SamplesPerBit, run |-> 1, decisions |-> 0,
              locked |-> FALSE]
  BY DEF TimingInit
<1>3. cell.level = 1 /\ cell.left = SamplesPerBit /\ cell.locked = FALSE
  BY <1>2
<1>4. slicer \in Slicers
  <2>1. 0 \in 0 .. Period - 1
    BY Scales
  <2> QED
    BY <1>1, <2>1 DEF Slicers, LOCK_MAX
<1>5. cell \in Cells
  BY <1>2, LineCodeAssumption DEF Cells, Bits
<1>6. Arrived
  BY <1>1, <1>3 DEF Arrived
<1>7. OnTrack
  BY <1>1, <1>3, <1>6, LineCodeAssumption DEF OnTrack
<1> QED
  BY <1>4, <1>5, <1>7 DEF TimingInv

\* The clock stays with the line: from the first edge in its window on, the
\* slicer's phase is within Bound of the line's, for as long as its lock counter
\* is above zero.
THEOREM TimingInvariant == TimingSpec => []TimingInv
<1>1. TimingInv /\ [TimingNext]_timingVars => TimingInv'
  <2> SUFFICES ASSUME TimingInv, [TimingNext]_timingVars PROVE TimingInv'
    OBVIOUS
  <2>1. CASE UNCHANGED timingVars
    <3>1. slicer' = slicer /\ cell' = cell
      BY <2>1 DEF timingVars
    <3>2. OnTrack'
      BY <3>1 DEF TimingInv, OnTrack, Arrived, Began, Ahead
    <3> QED
      BY <3>1, <3>2 DEF TimingInv
  <2> QED
    BY <2>1, SampleKeeps, NextCellKeeps DEF TimingNext
<1> QED
  BY <1>1, TimingStarts, PTL DEF TimingSpec

\* Once locked, Slicer::push takes exactly one decision in every bit cell: for
\* every phase width, every number of samples to a cell and every run bit
\* stuffing allows, as long as edges wander by less than 3/16 of a cell.
THEOREM OneDecisionPerCellCorrect == TimingSpec => []OneDecisionPerCell
<1>1. TimingInv => OneDecisionPerCell
  <2> SUFFICES ASSUME TimingInv, cell.left = 0, cell.locked PROVE cell.decisions = 1
    BY DEF OneDecisionPerCell
  <2>1. Arrived
    BY AtEnd
  <2>2. slicer.lock >= LOCK_THRESHOLD - 4 /\ slicer.lock \in Nat
    BY <2>1 DEF TimingInv, OnTrack, Slicers
  <2>3. slicer.lock >= 1
    BY <2>2 DEF LOCK_THRESHOLD
  <2> QED
    BY <2>3, AtEnd
<1> QED
  BY <1>1, TimingInvariant, PTL

-----------------------------------------------------------------------------
(* FX.25: the state                                                        *)

\* Units on the air carry frames; so does a lock, from the tag it was taken from.
Units == [kind : {"tag", "frame", "fill", "parity"}, send : Nat, frame : Frames,
          tag : Tags \cup {<<>>}]
Locks == {Hunting} \cup [on : {TRUE}, send : Nat, frame : Frames, tag : Tags \cup {<<>>}]
Entries == [frame : {<<>>} \cup {<<f>> : f \in Frames}, age : 0 .. Forever]
Receivers == [lock : Locks, pos : Nat, wrong : Nat, recent : [1 .. RECENT_SLOTS -> Entries],
              recent_next : 1 .. RECENT_SLOTS]
FxTypes ==
  /\ air \in Seq(Units) /\ sends \in Nat
  /\ fx \in Receivers
  /\ since \in [Frames -> 0 .. Forever]
  /\ due \subseteq Frames

\* No entry of a frame is younger than its latest delivery.
NoneYounger == \A f \in Frames, i \in 1 .. RECENT_SLOTS :
                 fx.recent[i].frame = <<f>> => fx.recent[i].age >= since[f]
Fx25Inv == FxTypes /\ NoneYounger /\ DeliveredOnce

\* The lengths in the model: the largest block has eight units.
LEMMA WindowIs == RECENT_WINDOW = 8 /\ Forever = 10 /\ RECENT_SLOTS = 4
<1>1. {block_len(t) : t \in Tags} = {4, 6, 8}
  BY DEF block_len, Tags
<1>2. \A m \in {4, 6, 8} : (\A y \in {4, 6, 8} : m >= y) => m = 8
  OBVIOUS
<1>3. 8 \in {4, 6, 8} /\ \A y \in {4, 6, 8} : 8 >= y
  OBVIOUS
<1>4. Max({4, 6, 8}) = 8
  BY <1>2, <1>3 DEF Max
<1> QED
  BY <1>1, <1>4 DEF RECENT_WINDOW, Forever, RECENT_SLOTS

\* A unit of time: what counts units stops at Forever.
Tick(a) == Min({a + 1, Forever})
LEMMA TickIs ==
  ASSUME NEW a \in 0 .. Forever
  PROVE  Tick(a) = IF a < Forever THEN a + 1 ELSE Forever
<1>1. Forever = 10
  BY WindowIs
<1>2. \A m \in {a + 1, Forever} :
        (\A y \in {a + 1, Forever} : m =< y) <=> m = IF a < Forever THEN a + 1 ELSE Forever
  BY <1>1
<1>3. \E m \in {a + 1, Forever} : \A y \in {a + 1, Forever} : m =< y
  BY <1>1
<1> QED
  BY <1>2, <1>3 DEF Tick, Min

AgedMemory == [i \in 1 .. RECENT_SLOTS |-> [frame |-> fx.recent[i].frame,
                                            age |-> Tick(fx.recent[i].age)]]
AgedSince == [f \in Frames |-> Tick(since[f])]

\* The memory a unit later.
LEMMA AgedExact ==
  ASSUME FxTypes
  PROVE  /\ Aged(fx) \in Receivers
         /\ Aged(fx).recent = AgedMemory /\ Aged(fx).recent_next = fx.recent_next
         /\ Aged(fx).lock = fx.lock
         /\ AgedMemory \in [1 .. RECENT_SLOTS -> Entries]
         /\ AgedSince \in [Frames -> 0 .. Forever]
<1>1. fx \in Receivers /\ fx.recent \in [1 .. RECENT_SLOTS -> Entries]
  BY DEF FxTypes, Receivers
<1>2. ASSUME NEW a \in 0 .. Forever PROVE Tick(a) \in 0 .. Forever
  BY TickIs, WindowIs
<1>3. ASSUME NEW i \in 1 .. RECENT_SLOTS
      PROVE  /\ fx.recent[i] \in Entries /\ Tick(fx.recent[i].age) \in 0 .. Forever
             /\ [fx.recent[i] EXCEPT !.age = Tick(fx.recent[i].age)]
                  = [frame |-> fx.recent[i].frame, age |-> Tick(fx.recent[i].age)]
  <2>1. fx.recent[i] \in Entries
    BY <1>1
  <2> DEFINE e == fx.recent[i]
             t == Tick(e.age)
  <2>2. e \in Entries /\ t \in 0 .. Forever
    BY <1>2, <2>1 DEF Entries
  <2> HIDE DEF e, t
  <2>3. [e EXCEPT !.age = t] = [frame |-> e.frame, age |-> t]
    BY <2>2 DEF Entries
  <2> QED
    BY <2>2, <2>3 DEF e, t
<1>4. AgedMemory = [i \in DOMAIN fx.recent |->
                      [fx.recent[i] EXCEPT !.age = Min({@ + 1, Forever})]]
  <2>1. DOMAIN fx.recent = 1 .. RECENT_SLOTS
    BY <1>1
  <2>2. AgedMemory = [i \in 1 .. RECENT_SLOTS |->
                        [fx.recent[i] EXCEPT !.age = Tick(fx.recent[i].age)]]
    BY <1>3 DEF AgedMemory
  <2> QED
    BY <2>1, <2>2 DEF Tick
<1>5. AgedMemory \in [1 .. RECENT_SLOTS -> Entries]
  BY <1>1, <1>3 DEF AgedMemory, Entries
<1>6. Aged(fx) = [fx EXCEPT !.recent = AgedMemory]
  BY <1>4 DEF Aged, older
<1>7. AgedSince \in [Frames -> 0 .. Forever]
  BY <1>2 DEF FxTypes, AgedSince
<1> HIDE DEF AgedMemory
<1> QED
  BY <1>1, <1>5, <1>6, <1>7 DEF Receivers

-----------------------------------------------------------------------------
(* FX.25: the steps                                                        *)

\* The two outcomes of a unit: no frame was recovered, or f was, and came out if
\* the memory does not know it.
Nothing(next) ==
  /\ next.recent = AgedMemory /\ next.recent_next = fx.recent_next
  /\ out' = <<>> /\ due' = {} /\ since' = AgedSince
Known(next, f) ==
  /\ is_duplicate(AgedMemory, f)
  /\ next.recent = AgedMemory /\ next.recent_next = fx.recent_next
  /\ out' = <<>> /\ due' = {f} /\ since' = AgedSince
Fresh(next, f) ==
  /\ ~is_duplicate(AgedMemory, f)
  /\ next.recent = [AgedMemory EXCEPT ![fx.recent_next] = [frame |-> <<f>>, age |-> 0]]
  /\ next.recent_next = (fx.recent_next % RECENT_SLOTS) + 1
  /\ out' = <<f>> /\ due' = {f} /\ since' = [AgedSince EXCEPT ![f] = 0]
Recovered(next, f) == Known(next, f) \/ Fresh(next, f)

\* Frames in tuples of one.
LEMMA OneTuple == /\ \A f, g : <<f>> = <<g>> <=> f = g
                  /\ \A f : <<f>> # <<>> /\ <<f>>[1] = f
OBVIOUS

\* A receiver with the hunter's own fields replaced.
LEMMA HunterExact ==
  ASSUME NEW st \in Receivers, NEW l \in Locks, NEW p \in Nat, NEW w \in Nat, NEW next,
         next = [lock |-> l, pos |-> p, wrong |-> w, recent |-> st.recent,
                 recent_next |-> st.recent_next]
  PROVE  /\ next \in Receivers
         /\ next.recent = st.recent /\ next.recent_next = st.recent_next
<1>1. st.recent \in [1 .. RECENT_SLOTS -> Entries] /\ st.recent_next \in 1 .. RECENT_SLOTS
  BY DEF Receivers
<1> QED
  BY <1>1 DEF Receivers

\* The tag hunter leaves the memory alone.
LEMMA BlockPathKeeps ==
  ASSUME NEW st \in Receivers, NEW u, u \in Units \/ u.kind = "noise", NEW bad \in BOOLEAN
  PROVE  LET b == BlockPath(st, u, bad)
         IN  /\ b.fx \in Receivers
             /\ b.fx.recent = st.recent /\ b.fx.recent_next = st.recent_next
             /\ b.block \in {"none", "frame", "error"}
             /\ b.block # "none" => st.lock.frame \in Frames
<1> DEFINE b == BlockPath(st, u, bad)
           w == st.wrong + (IF bad \/ u.send # st.lock.send THEN 1 ELSE 0)
<1>1. st.pos \in Nat /\ st.wrong \in Nat /\ w \in Nat /\ st.lock \in Locks
  BY DEF Receivers
<1>2. Hunting \in Locks /\ Hunting.on = FALSE
  BY DEF Locks, Hunting
<1> HIDE DEF w
<1>3. CASE ~st.lock.on
  <2>1. CASE u.kind = "tag" /\ ~bad
    <3> DEFINE l == [on |-> TRUE, send |-> u.send, tag |-> u.tag, frame |-> u.frame]
    <3>1. l \in Locks
      BY <2>1 DEF Locks, Units
    <3>2. b = [fx |-> [st EXCEPT !.lock = l, !.pos = 0, !.wrong = 0], block |-> "none"]
      BY <1>3, <2>1 DEF BlockPath
    <3> HIDE DEF l, b
    <3>3. b.fx = [st EXCEPT !.lock = l, !.pos = 0, !.wrong = 0] /\ b.block = "none"
      BY <3>2
    <3>4. b.fx = [lock |-> l, pos |-> 0, wrong |-> 0, recent |-> st.recent,
                  recent_next |-> st.recent_next]
      BY <3>3 DEF Receivers
    <3>5. /\ b.fx \in Receivers
          /\ b.fx.recent = st.recent /\ b.fx.recent_next = st.recent_next
      BY <3>1, <3>4, HunterExact
    <3> QED
      BY <3>3, <3>5 DEF b
  <2>2. CASE ~(u.kind = "tag" /\ ~bad)
    <3>1. b = [fx |-> st, block |-> "none"]
      BY <1>3, <2>2 DEF BlockPath
    <3> HIDE DEF b
    <3> QED
      BY <3>1 DEF b
  <2> QED
    BY <2>1, <2>2
<1>4. CASE st.lock.on
  <2>1. st.lock.frame \in Frames
    BY <1>1, <1>2, <1>4 DEF Locks
  <2>2. CASE st.pos + 1 < block_len(st.lock.tag)
    <3> DEFINE p == st.pos + 1
               l == st.lock
    <3>1. b = [fx |-> [st EXCEPT !.pos = p, !.wrong = w], block |-> "none"]
      BY <1>4, <2>2 DEF BlockPath, w
    <3>2. p \in Nat /\ l \in Locks
      BY <1>1
    <3> HIDE DEF b, p
    <3>3. b.fx = [st EXCEPT !.pos = p, !.wrong = w] /\ b.block = "none"
      BY <3>1
    <3>4. b.fx = [lock |-> l, pos |-> p, wrong |-> w, recent |-> st.recent,
                  recent_next |-> st.recent_next]
      BY <3>3 DEF Receivers
    <3> HIDE DEF l
    <3>5. /\ b.fx \in Receivers
          /\ b.fx.recent = st.recent /\ b.fx.recent_next = st.recent_next
      BY <1>1, <3>2, <3>4, HunterExact
    <3> QED
      BY <3>3, <3>5 DEF b
  <2>3. CASE ~(st.pos + 1 < block_len(st.lock.tag))
    <3> DEFINE what == IF w <= st.lock.tag.parity \div 2 THEN "frame" ELSE "error"
               hunting == Hunting
    <3>1. b = [fx |-> [st EXCEPT !.lock = hunting, !.pos = 0, !.wrong = 0], block |-> what]
      BY <1>4, <2>3 DEF BlockPath, w
    <3>2. what \in {"none", "frame", "error"} /\ hunting \in Locks
      BY <1>2
    <3> HIDE DEF b, what, hunting
    <3>3. b.fx = [st EXCEPT !.lock = hunting, !.pos = 0, !.wrong = 0] /\ b.block = what
      BY <3>1
    <3>4. b.fx = [lock |-> hunting, pos |-> 0, wrong |-> 0, recent |-> st.recent,
                  recent_next |-> st.recent_next]
      BY <3>3 DEF Receivers
    <3>5. /\ b.fx \in Receivers
          /\ b.fx.recent = st.recent /\ b.fx.recent_next = st.recent_next
      BY <3>2, <3>4, HunterExact
    <3> QED
      BY <2>1, <3>2, <3>3, <3>5 DEF b
  <2> QED
    BY <2>2, <2>3
<1> QED
  BY <1>3, <1>4

\* Delivering: the memory afterwards, and what comes out.
LEMMA DeliverExact ==
  ASSUME NEW st \in Receivers, NEW f \in Frames
  PROVE  LET d == Deliver(st, f)
         IN  /\ d.fx \in Receivers
             /\ \/ /\ is_duplicate(st.recent, f) /\ d.out = <<>>
                   /\ d.fx.recent = st.recent /\ d.fx.recent_next = st.recent_next
                \/ /\ ~is_duplicate(st.recent, f) /\ d.out = <<f>>
                   /\ d.fx.recent = [st.recent EXCEPT ![st.recent_next] = [frame |-> <<f>>, age |-> 0]]
                   /\ d.fx.recent_next = (st.recent_next % RECENT_SLOTS) + 1
<1> DEFINE d == Deliver(st, f)
           entry == [frame |-> <<f>>, age |-> 0]
           slot == st.recent_next
           next == (slot % RECENT_SLOTS) + 1
           memory == [st.recent EXCEPT ![slot] = entry]
<1>1. CASE is_duplicate(st.recent, f)
  <2>1. d = [fx |-> st, out |-> <<>>]
    BY <1>1 DEF Deliver
  <2> HIDE DEF d
  <2>2. d.fx = st /\ d.out = <<>>
    BY <2>1
  <2> QED
    BY <1>1, <2>2 DEF d
<1>2. CASE ~is_duplicate(st.recent, f)
  <2>1. entry \in Entries
    BY WindowIs DEF Entries
  <2>2. slot \in 1 .. RECENT_SLOTS /\ st.recent \in [1 .. RECENT_SLOTS -> Entries]
    BY DEF Receivers
  <2>3. next \in 1 .. RECENT_SLOTS
    BY <2>2, WindowIs
  <2>4. memory \in [1 .. RECENT_SLOTS -> Entries]
    <3> HIDE DEF entry, slot
    <3> QED
      BY <2>1, <2>2
  <2>5. d = [fx |-> [st EXCEPT !.recent = memory, !.recent_next = next], out |-> <<f>>]
    BY <1>2 DEF Deliver
  <2> HIDE DEF d, entry, slot, next, memory
  <2>6. d.fx = [st EXCEPT !.recent = memory, !.recent_next = next] /\ d.out = <<f>>
    BY <2>5
  <2>7. d.fx \in Receivers /\ d.fx.recent = memory /\ d.fx.recent_next = next
    BY <2>3, <2>4, <2>6 DEF Receivers
  <2> QED
    BY <1>2, <2>6, <2>7 DEF d, entry, slot, next, memory
<1> QED
  BY <1>1, <1>2

\* A unit heard has one of the two outcomes.
LEMMA PushExact ==
  ASSUME FxTypes, NEW u, u \in Units \/ u.kind = "noise", NEW bad \in BOOLEAN, push(u, bad)
  PROVE  /\ fx' \in Receivers
         /\ Nothing(fx') \/ \E f \in Frames : Recovered(fx', f)
<1> DEFINE plain == PlainPath(u, bad)
           st == Aged(fx)
           b == BlockPath(st, u, bad)
           held == fx.lock.frame
           d == IF b.block = "frame" THEN Deliver(b.fx, held)
                ELSE IF b.block = "error" \/ plain = <<>> THEN [fx |-> b.fx, out |-> <<>>]
                ELSE Deliver(b.fx, plain[1])
<1>1. /\ st \in Receivers /\ st.recent = AgedMemory /\ st.recent_next = fx.recent_next
      /\ st.lock = fx.lock
  BY AgedExact
<1>2. /\ b.fx \in Receivers
      /\ b.fx.recent = AgedMemory /\ b.fx.recent_next = fx.recent_next
      /\ b.block \in {"none", "frame", "error"}
      /\ b.block # "none" => held \in Frames
  <2> HIDE DEF st
  <2> QED
    BY <1>1, BlockPathKeeps
<1>3. /\ fx' = d.fx /\ out' = d.out
      /\ due' = (IF b.block = "frame" THEN {held} ELSE {})
                  \cup (IF b.block = "none" /\ u.kind = "frame" /\ ~bad THEN {u.frame} ELSE {})
      /\ since' = [f \in Frames |-> IF d.out = <<f>> THEN 0 ELSE Tick(since[f])]
  BY DEF push, Tick
<1>4. \/ plain = <<>> /\ ~(u.kind = "frame" /\ ~bad)
      \/ plain = <<u.frame>> /\ u.kind = "frame" /\ ~bad /\ u.frame \in Frames
  BY DEF PlainPath, Units
<1> HIDE DEF plain, st, b, held
<1>5. ASSUME d = [fx |-> b.fx, out |-> <<>>], due' = {}
      PROVE  fx' \in Receivers /\ Nothing(fx')
  <2>1. d.fx = b.fx /\ d.out = <<>>
    BY <1>5
  <2> HIDE DEF d
  <2>2. \A g \in Frames : d.out # <<g>>
    BY <2>1, OneTuple
  <2>3. since' = AgedSince
    BY <1>3, <2>2 DEF AgedSince
  <2> QED
    BY <1>2, <1>3, <1>5, <2>1, <2>3 DEF Nothing
<1>6. ASSUME NEW f \in Frames, d = Deliver(b.fx, f), due' = {f}
      PROVE  fx' \in Receivers /\ Recovered(fx', f)
  <2> HIDE DEF d
  <2>1. /\ d.fx \in Receivers
        /\ \/ /\ is_duplicate(AgedMemory, f) /\ d.out = <<>>
              /\ d.fx.recent = AgedMemory /\ d.fx.recent_next = fx.recent_next
           \/ /\ ~is_duplicate(AgedMemory, f) /\ d.out = <<f>>
              /\ d.fx.recent = [AgedMemory EXCEPT ![fx.recent_next] = [frame |-> <<f>>, age |-> 0]]
              /\ d.fx.recent_next = (fx.recent_next % RECENT_SLOTS) + 1
    <3> DEFINE t == b.fx
    <3>1. t \in Receivers /\ t.recent = AgedMemory /\ t.recent_next = fx.recent_next
      BY <1>2
    <3>2. d = Deliver(t, f)
      BY <1>6
    <3> HIDE DEF t
    <3>3. LET e == Deliver(t, f)
          IN  /\ e.fx \in Receivers
              /\ \/ /\ is_duplicate(t.recent, f) /\ e.out = <<>>
                    /\ e.fx.recent = t.recent /\ e.fx.recent_next = t.recent_next
                 \/ /\ ~is_duplicate(t.recent, f) /\ e.out = <<f>>
                    /\ e.fx.recent = [t.recent EXCEPT ![t.recent_next] = [frame |-> <<f>>, age |-> 0]]
                    /\ e.fx.recent_next = (t.recent_next % RECENT_SLOTS) + 1
      BY <3>1, DeliverExact
    <3> QED
      BY <3>1, <3>2, <3>3
  <2>2. CASE d.out = <<>>
    <3>1. \A g \in Frames : d.out # <<g>>
      BY <2>2, OneTuple
    <3>2. since' = [g \in Frames |-> Tick(since[g])]
      BY <1>3, <3>1
    <3>3. since' = AgedSince
      BY <3>2 DEF AgedSince
    <3> QED
      BY <1>3, <1>6, <2>1, <2>2, <3>3, OneTuple DEF Recovered, Known
  <2>3. CASE d.out = <<f>>
    <3>1. \A g \in Frames : d.out = <<g>> <=> g = f
      BY <2>3, OneTuple
    <3>2. since' = [g \in Frames |-> IF g = f THEN 0 ELSE Tick(since[g])]
      BY <1>3, <3>1
    <3>3. since' = [AgedSince EXCEPT ![f] = 0]
      BY <3>2 DEF AgedSince
    <3> QED
      BY <1>3, <1>6, <2>1, <2>3, <3>3, OneTuple DEF Recovered, Fresh
  <2> QED
    BY <2>1, <2>2, <2>3
<1>7. CASE b.block = "frame"
  <2>1. held \in Frames /\ d = Deliver(b.fx, held) /\ due' = {held}
    BY <1>2, <1>3, <1>7
  <2> HIDE DEF d
  <2> QED
    BY <1>6, <2>1
<1>8. CASE b.block = "error" \/ (b.block = "none" /\ plain = <<>>)
  <2>1. d = [fx |-> b.fx, out |-> <<>>] /\ due' = {}
    BY <1>3, <1>4, <1>8
  <2> QED
    BY <1>5, <2>1
<1>9. CASE b.block = "none" /\ plain = <<u.frame>> /\ u.kind = "frame" /\ ~bad /\ u.frame \in Frames
  <2>1. plain # <<>> /\ plain[1] = u.frame
    BY <1>9, OneTuple
  <2>2. d = Deliver(b.fx, u.frame) /\ due' = {u.frame}
    BY <1>3, <1>9, <2>1
  <2> HIDE DEF d
  <2> QED
    BY <1>6, <1>9, <2>2
<1> QED
  BY <1>2, <1>4, <1>7, <1>8, <1>9

\* Ages tick together.
LEMMA TickTogether ==
  /\ \A a \in 0 .. Forever : Tick(a) \in 0 .. Forever
  /\ \A a, b \in 0 .. Forever : a >= b => Tick(a) >= Tick(b)
  /\ \A a \in 0 .. Forever : Tick(a) <= RECENT_WINDOW => Tick(a) = a + 1
BY TickIs, WindowIs

\* Either outcome keeps the history right.
LEMMA HeardSound ==
  ASSUME FxTypes, NoneYounger, Nothing(fx') \/ \E f \in Frames : Recovered(fx', f)
  PROVE  /\ since' \in [Frames -> 0 .. Forever] /\ due' \subseteq Frames
         /\ NoneYounger' /\ DeliveredOnce'
<1>1. /\ fx.recent \in [1 .. RECENT_SLOTS -> Entries] /\ fx.recent_next \in 1 .. RECENT_SLOTS
      /\ since \in [Frames -> 0 .. Forever]
      /\ AgedMemory \in [1 .. RECENT_SLOTS -> Entries]
      /\ AgedSince \in [Frames -> 0 .. Forever]
      /\ 0 \in 0 .. Forever
  BY AgedExact, WindowIs DEF FxTypes, Receivers
<1>2. ASSUME NEW f \in Frames, NEW i \in 1 .. RECENT_SLOTS, AgedMemory[i].frame = <<f>>
      PROVE  AgedMemory[i].age >= AgedSince[f]
  <2>1. /\ AgedMemory[i].frame = fx.recent[i].frame
        /\ AgedMemory[i].age = Tick(fx.recent[i].age) /\ AgedSince[f] = Tick(since[f])
    BY DEF AgedMemory, AgedSince
  <2>2. fx.recent[i].age >= since[f]
    BY <1>2, <2>1 DEF NoneYounger
  <2>3. fx.recent[i].age \in 0 .. Forever /\ since[f] \in 0 .. Forever
    BY <1>1 DEF Entries
  <2> QED
    BY <2>1, <2>2, <2>3, TickTogether
<1>3. CASE Nothing(fx')
  <2>1. NoneYounger'
    BY <1>2, <1>3 DEF Nothing, NoneYounger
  <2>2. DeliveredOnce'
    BY <1>3 DEF Nothing, DeliveredOnce
  <2> QED
    BY <1>1, <1>3, <2>1, <2>2 DEF Nothing
<1>4. ASSUME NEW f \in Frames, Known(fx', f)
      PROVE  /\ since' \in [Frames -> 0 .. Forever] /\ due' \subseteq Frames
             /\ NoneYounger' /\ DeliveredOnce'
  <2>1. NoneYounger'
    BY <1>2, <1>4 DEF Known, NoneYounger
  <2>2. PICK i \in 1 .. RECENT_SLOTS :
          AgedMemory[i].frame = <<f>> /\ AgedMemory[i].age <= RECENT_WINDOW
    BY <1>1, <1>4 DEF Known, is_duplicate
  <2>3. AgedSince[f] <= RECENT_WINDOW
    <3>1. AgedMemory[i].age \in Int /\ AgedSince[f] \in Int /\ RECENT_WINDOW \in Int
      BY <1>1, WindowIs DEF Entries
    <3> QED
      BY <1>2, <2>2, <3>1
  <2>4. DeliveredOnce'
    BY <1>4, <2>3 DEF Known, DeliveredOnce
  <2> QED
    BY <1>1, <1>4, <2>1, <2>4 DEF Known
<1>5. ASSUME NEW f \in Frames, Fresh(fx', f)
      PROVE  /\ since' \in [Frames -> 0 .. Forever] /\ due' \subseteq Frames
             /\ NoneYounger' /\ DeliveredOnce'
  <2> DEFINE n == fx.recent_next
             entry == [frame |-> <<f>>, age |-> 0]
  <2>1. fx'.recent = [AgedMemory EXCEPT ![n] = entry] /\ since' = [AgedSince EXCEPT ![f] = 0]
    BY <1>5 DEF Fresh
  <2>2. since' \in [Frames -> 0 .. Forever]
    BY <1>1, <2>1
  <2>3. entry.frame = <<f>> /\ entry.age = 0
    OBVIOUS
  <2> HIDE DEF n, entry
  <2>4. ASSUME NEW g \in Frames, NEW i \in 1 .. RECENT_SLOTS, fx'.recent[i].frame = <<g>>
        PROVE  fx'.recent[i].age >= since'[g]
    <3>1. CASE g = f
      <4>1. since'[g] = 0
        BY <1>1, <2>1, <3>1
      <4>2. fx'.recent[i] = entry \/ fx'.recent[i] = AgedMemory[i]
        BY <1>1, <2>1
      <4>3. fx'.recent[i].age \in Nat
        BY <1>1, <2>3, <4>2 DEF Entries
      <4> QED
        BY <4>1, <4>3
    <3>2. CASE g # f
      <4>1. since'[g] = AgedSince[g]
        BY <1>1, <2>1, <3>2
      <4>2. fx'.recent[i] = entry \/ fx'.recent[i] = AgedMemory[i]
        BY <1>1, <2>1
      <4>3. fx'.recent[i] = AgedMemory[i]
        BY <2>3, <2>4, <3>2, <4>2, OneTuple
      <4> QED
        BY <1>2, <2>4, <4>1, <4>3
    <3> QED
      BY <3>1, <3>2
  <2>5. NoneYounger'
    BY <2>4 DEF NoneYounger
  <2>6. since'[f] <= RECENT_WINDOW
    BY <1>1, <2>1, WindowIs
  <2>7. out' = <<f>> /\ due' = {f}
    BY <1>5 DEF Fresh
  <2>8. DeliveredOnce'
    BY <2>6, <2>7, OneTuple DEF DeliveredOnce
  <2> QED
    BY <2>2, <2>5, <2>7, <2>8
<1> QED
  BY <1>3, <1>4, <1>5 DEF Recovered

\* A transmission is made of units.
LEMMA WrapUnits ==
  ASSUME NEW tag \in Tags, NEW f \in Frames, NEW send \in Nat
  PROVE  /\ wrap_with(tag, f, send) \in Seq(Units)
         /\ <<Unit("frame", send, f, <<>>)>> \in Seq(Units)
         /\ <<Unit("tag", send, f, tag)>> \in Seq(Units)
<1> DEFINE fill == Unit("fill", send, f, tag)
           parity == Unit("parity", send, f, tag)
           start == Unit("tag", send, f, tag)
           body == Unit("frame", send, f, tag)
           lone == Unit("frame", send, f, <<>>)
           m == tag.data - 1
           n == tag.parity
<1>1. /\ fill \in Units /\ parity \in Units /\ start \in Units /\ body \in Units
      /\ lone \in Units
  BY DEF Unit, Units
<1>2. m \in Nat /\ n \in Nat
  BY DEF Tags
<1> DEFINE head == <<start, body>>
           fills == [i \in 1 .. m |-> fill]
           parities == [i \in 1 .. n |-> parity]
<1>3. wrap_with(tag, f, send) = head \o fills \o parities
  BY DEF wrap_with
<1> HIDE DEF fill, parity, start, body, lone, m, n
<1>4. head \in Seq(Units) /\ fills \in Seq(Units) /\ parities \in Seq(Units)
  BY <1>1, <1>2
<1> HIDE DEF head, fills, parities
<1>5. head \o fills \o parities \in Seq(Units)
  BY <1>4, ConcatProperties
<1>6. <<lone>> \in Seq(Units) /\ <<start>> \in Seq(Units)
  BY <1>1
<1> QED
  BY <1>3, <1>5, <1>6 DEF lone, start

\* What an action does to the receiver: nothing, or it hears a unit.
LEMMA Fx25Steps ==
  ASSUME FxTypes, Fx25Next
  PROVE  /\ air' \in Seq(Units) /\ sends' \in Nat
         /\ \/ out' = <<>> /\ due' = {} /\ UNCHANGED <<fx, since>>
            \/ \E bad \in BOOLEAN : \E u : (u \in Units \/ u.kind = "noise") /\ push(u, bad)
<1>1. CASE Transmit
  <2>1. sends' = sends + 1 /\ sends' \in Nat
    BY <1>1 DEF Transmit, FxTypes
  <2>2. air' \in Seq(Units)
    <3> DEFINE send == sends'
    <3>1. send \in Nat
      BY <2>1
    <3>2. \/ \E tag \in Tags, f \in Frames : air' = wrap_with(tag, f, send)
          \/ \E f \in Frames : air' = <<Unit("frame", send, f, <<>>)>>
          \/ \E tag \in Tags, f \in Frames : air' = <<Unit("tag", send, f, tag)>>
      BY <1>1 DEF Transmit
    <3>3. [data |-> 2, parity |-> 2] \in Tags
      BY DEF Tags
    <3> HIDE DEF send
    <3>4. ASSUME NEW tag \in Tags, NEW f \in Frames, air' = wrap_with(tag, f, send)
          PROVE  air' \in Seq(Units)
      BY <3>1, <3>4, WrapUnits
    <3>5. ASSUME NEW f \in Frames, air' = <<Unit("frame", send, f, <<>>)>>
          PROVE  air' \in Seq(Units)
      BY <3>1, <3>3, <3>5, WrapUnits
    <3>6. ASSUME NEW tag \in Tags, NEW f \in Frames, air' = <<Unit("tag", send, f, tag)>>
          PROVE  air' \in Seq(Units)
      BY <3>1, <3>6, WrapUnits
    <3> QED
      BY <3>2, <3>4, <3>5, <3>6
  <2> QED
    BY <1>1, <2>1, <2>2 DEF Transmit
<1>2. CASE CutOff
  BY <1>2, EmptySeq DEF CutOff, FxTypes
<1>3. CASE Hear
  <2>1. /\ air \in Seq(Units) /\ air # <<>> /\ air' = Tail(air) /\ sends' = sends
        /\ \E bad \in BOOLEAN : push(Head(air), bad)
    BY <1>3 DEF Hear, FxTypes
  <2>2. Head(air) \in Units /\ Tail(air) \in Seq(Units)
    BY <2>1, HeadTailProperties
  <2> QED
    BY <2>1, <2>2 DEF FxTypes
<1>4. CASE Silence
  <2>1. push(Unit("noise", 0, <<>>, <<>>), FALSE)
    BY <1>4 DEF Silence
  <2>2. Unit("noise", 0, <<>>, <<>>).kind = "noise"
    BY DEF Unit
  <2>3. \E bad \in BOOLEAN : \E u : (u \in Units \/ u.kind = "noise") /\ push(u, bad)
    <3> DEFINE no == FALSE
               noise == Unit("noise", 0, <<>>, <<>>)
    <3>1. no \in BOOLEAN /\ noise.kind = "noise" /\ push(noise, no)
      BY <2>1, <2>2
    <3> HIDE DEF no, noise
    <3> QED
      BY <3>1
  <2> QED
    BY <1>4, <2>3 DEF Silence, FxTypes
<1> QED
  BY <1>1, <1>2, <1>3, <1>4 DEF Fx25Next

LEMMA Fx25Keeps == Fx25Inv /\ [Fx25Next]_fxVars => Fx25Inv'
<1> SUFFICES ASSUME Fx25Inv, [Fx25Next]_fxVars PROVE Fx25Inv'
  OBVIOUS
<1> USE DEF Fx25Inv
<1>1. CASE UNCHANGED fxVars
  BY <1>1 DEF fxVars, FxTypes, NoneYounger, DeliveredOnce
<1>2. CASE Fx25Next
  <2>1. air' \in Seq(Units) /\ sends' \in Nat
    BY <1>2, Fx25Steps
  <2>2. CASE out' = <<>> /\ due' = {} /\ UNCHANGED <<fx, since>>
    BY <2>1, <2>2 DEF FxTypes, NoneYounger, DeliveredOnce
  <2>3. ASSUME NEW bad \in BOOLEAN, NEW u, u \in Units \/ u.kind = "noise", push(u, bad)
        PROVE  Fx25Inv'
    <3>1. fx' \in Receivers /\ (Nothing(fx') \/ \E f \in Frames : Recovered(fx', f))
      BY <2>3, PushExact
    <3>2. /\ since' \in [Frames -> 0 .. Forever] /\ due' \subseteq Frames
          /\ NoneYounger' /\ DeliveredOnce'
      BY <3>1, HeardSound
    <3> QED
      BY <2>1, <3>1, <3>2 DEF FxTypes
  <2> QED
    BY <1>2, <2>2, <2>3, Fx25Steps
<1> QED
  BY <1>1, <1>2

LEMMA Fx25Starts == Fx25Init => Fx25Inv
<1> SUFFICES ASSUME Fx25Init PROVE Fx25Inv
  OBVIOUS
<1>1. air \in Seq(Units) /\ sends \in Nat /\ due \subseteq Frames
  BY EmptySeq DEF Fx25Init
<1>2. since \in [Frames -> 0 .. Forever]
  BY WindowIs DEF Fx25Init
<1>3. /\ fx.recent = [i \in 1 .. RECENT_SLOTS |-> [frame |-> <<>>, age |-> Forever]]
      /\ fx.recent_next = 1 /\ fx.lock = Hunting /\ fx.pos = 0 /\ fx.wrong = 0
  BY DEF Fx25Init
<1>4. fx.recent \in [1 .. RECENT_SLOTS -> Entries]
  <2>1. [frame |-> <<>>, age |-> Forever] \in Entries
    BY WindowIs DEF Entries
  <2> QED
    BY <1>3, <2>1
<1>5. fx \in Receivers
  <2>1. Hunting \in Locks /\ 1 \in 1 .. RECENT_SLOTS
    BY WindowIs DEF Locks
  <2>2. fx = [lock |-> fx.lock, pos |-> fx.pos, wrong |-> fx.wrong, recent |-> fx.recent,
              recent_next |-> fx.recent_next]
    BY DEF Fx25Init
  <2> QED
    BY <1>3, <1>4, <2>1, <2>2 DEF Receivers
<1>6. NoneYounger
  <2>1. \A i \in 1 .. RECENT_SLOTS : fx.recent[i].frame = <<>>
    BY <1>3
  <2> QED
    BY <2>1, OneTuple DEF NoneYounger
<1>7. DeliveredOnce
  BY DEF Fx25Init, DeliveredOnce
<1> QED
  BY <1>1, <1>2, <1>5, <1>6, <1>7 DEF Fx25Inv, FxTypes

\* However blocks, plain frames, cut-off and spoilt transmissions follow each
\* other, what either path recovers comes out now or came out within the window,
\* and nothing else comes out (Fx25Receiver::push, is_duplicate).
THEOREM DeliveredOnceCorrect == Fx25Spec => []DeliveredOnce
<1>1. Fx25Inv => DeliveredOnce
  BY DEF Fx25Inv
<1> QED
  BY <1>1, Fx25Starts, Fx25Keeps, PTL DEF Fx25Spec

-----------------------------------------------------------------------------
(* FX.25: the size of the memory                                           *)

\* The order in which the slots were filled: the next one to overwrite holds the
\* oldest delivery.
Place(i, n) == (i - n) % RECENT_SLOTS
MemoryOk(m, n) ==
  /\ \A i \in 1 .. RECENT_SLOTS : m[i].age <= RECENT_WINDOW => \E f \in Frames : m[i].frame = <<f>>
  /\ \A i, j \in 1 .. RECENT_SLOTS :
       i # j /\ m[i].age <= RECENT_WINDOW /\ m[j].age <= RECENT_WINDOW => m[i].frame # m[j].frame
  /\ \A i, j \in 1 .. RECENT_SLOTS : Place(i, n) < Place(j, n) => m[i].age >= m[j].age

\* What came out within the window is still in the memory.
Remembered == \A f \in Frames : since[f] <= RECENT_WINDOW =>
                \E i \in 1 .. RECENT_SLOTS :
                  fx.recent[i].frame = <<f>> /\ fx.recent[i].age <= since[f]
MemoryInv == Fx25Inv /\ MemoryOk(fx.recent, fx.recent_next) /\ Remembered

\* The place of every slot, counted.
LEMMA Places ==
  ASSUME NEW n \in 1 .. RECENT_SLOTS
  PROVE  /\ \A i \in 1 .. RECENT_SLOTS : Place(i, n) \in 0 .. 3 /\ (i # n => Place(n, n) < Place(i, n))
         /\ (n % RECENT_SLOTS) + 1 \in 1 .. RECENT_SLOTS
         /\ \A i, j \in 1 .. RECENT_SLOTS :
              Place(i, (n % RECENT_SLOTS) + 1) < Place(j, (n % RECENT_SLOTS) + 1)
                => i # n /\ (j = n \/ Place(i, n) < Place(j, n))
<1>1. RECENT_SLOTS = 4 /\ n \in 1 .. 4
  BY WindowIs
<1>2. \A x \in -3 .. 3 : x % 4 = IF x >= 0 THEN x ELSE x + 4
  OBVIOUS
<1>3. \A i, k \in 1 .. 4 : Place(i, k) = IF i >= k THEN i - k ELSE (i - k) + 4
  <2>1. \A i, k \in 1 .. 4 : i - k \in -3 .. 3 /\ (i - k >= 0 <=> i >= k)
    OBVIOUS
  <2>2. \A i, k \in 1 .. 4 : Place(i, k) = (i - k) % 4
    BY <1>1 DEF Place
  <2> QED
    BY <1>2, <2>1, <2>2
<1>4. n % 4 = IF n = 4 THEN 0 ELSE n
  BY <1>1
<1> DEFINE next == (n % RECENT_SLOTS) + 1
<1>5. next \in 1 .. 4 /\ next = IF n = 4 THEN 1 ELSE n + 1
  BY <1>1, <1>4
<1> HIDE DEF next
<1>6. \A i \in 1 .. 4 : Place(i, n) \in 0 .. 3 /\ (i # n => Place(n, n) < Place(i, n))
  BY <1>1, <1>3
<1>7. \A i, j \in 1 .. 4 : Place(i, next) < Place(j, next)
                            => i # n /\ (j = n \/ Place(i, n) < Place(j, n))
  BY <1>1, <1>3, <1>5
<1> QED
  BY <1>1, <1>5, <1>6, <1>7 DEF next

\* Five distinct things do not fit among four.
LEMMA FiveInFour ==
  ASSUME NEW S, IsFiniteSet(S), Cardinality(S) <= 4,
         NEW a \in S, NEW b \in S, NEW c \in S, NEW d \in S, NEW e \in S
  PROVE  \/ a = b \/ a = c \/ a = d \/ b = c \/ b = d \/ c = d
         \/ e = a \/ e = b \/ e = c \/ e = d
<1> SUFFICES ASSUME a # b, a # c, a # d, b # c, b # d, c # d, e \notin {a, b, c, d}
             PROVE  FALSE
  OBVIOUS
<1>1. IsFiniteSet({a}) /\ Cardinality({a}) = 1
  BY FS_Singleton
<1> DEFINE two == {a} \cup {b}
           three == two \cup {c}
           four == three \cup {d}
           five == four \cup {e}
<1>2. IsFiniteSet(two) /\ Cardinality(two) = 2 /\ c \notin two
  BY <1>1, FS_AddElement
<1>3. IsFiniteSet(three) /\ Cardinality(three) = 3
  <2> HIDE DEF two
  <2> QED
    BY <1>2, FS_AddElement
<1>4. IsFiniteSet(four) /\ Cardinality(four) = 4
  <2>1. d \notin three
    OBVIOUS
  <2> HIDE DEF three
  <2> QED
    BY <1>3, <2>1, FS_AddElement
<1>5. IsFiniteSet(five) /\ Cardinality(five) = 5
  <2>1. e \notin four
    OBVIOUS
  <2> HIDE DEF four
  <2> QED
    BY <1>4, <2>1, FS_AddElement
<1>6. five \in SUBSET S
  OBVIOUS
<1> HIDE DEF five
<1>7. Cardinality(five) <= Cardinality(S)
  BY <1>6, FS_Subset
<1>8. Cardinality(S) \in Nat
  BY FS_CardinalityType
<1> QED
  BY <1>5, <1>7, <1>8

\* A memory whose oldest delivery is within the window knows every frame, when
\* there are no more frames than slots.
LEMMA FullMemory ==
  ASSUME IsFiniteSet(Frames), Cardinality(Frames) <= RECENT_SLOTS,
         NEW m \in [1 .. RECENT_SLOTS -> Entries], NEW n \in 1 .. RECENT_SLOTS, MemoryOk(m, n),
         m[n].age <= RECENT_WINDOW, NEW f \in Frames
  PROVE  is_duplicate(m, f)
<1>1. RECENT_SLOTS = 4 /\ RECENT_WINDOW = 8
  BY WindowIs
<1>2. ASSUME NEW i \in 1 .. RECENT_SLOTS PROVE m[i].age <= RECENT_WINDOW
  <2>1. m[i].age \in Nat /\ m[n].age \in Nat
    BY WindowIs DEF Entries
  <2>2. i # n => m[n].age >= m[i].age
    BY Places DEF MemoryOk
  <2> QED
    BY <1>1, <2>1, <2>2
<1>3. ASSUME NEW i \in 1 .. RECENT_SLOTS PROVE \E g \in Frames : m[i].frame = <<g>>
  BY <1>2 DEF MemoryOk
<1>4. 1 \in 1 .. RECENT_SLOTS /\ 2 \in 1 .. RECENT_SLOTS /\ 3 \in 1 .. RECENT_SLOTS
      /\ 4 \in 1 .. RECENT_SLOTS
  BY <1>1
<1>5. PICK a \in Frames : m[1].frame = <<a>>
  BY <1>3, <1>4
<1>6. PICK b \in Frames : m[2].frame = <<b>>
  BY <1>3, <1>4
<1>7. PICK c \in Frames : m[3].frame = <<c>>
  BY <1>3, <1>4
<1>8. PICK d \in Frames : m[4].frame = <<d>>
  BY <1>3, <1>4
<1>9. \A i, j \in 1 .. RECENT_SLOTS : i # j => m[i].frame # m[j].frame
  BY <1>2 DEF MemoryOk
<1>10. a # b /\ a # c /\ a # d /\ b # c /\ b # d /\ c # d
  BY <1>4, <1>5, <1>6, <1>7, <1>8, <1>9
<1>11. f = a \/ f = b \/ f = c \/ f = d
  BY <1>1, <1>10, FiveInFour
<1>12. \E i \in 1 .. RECENT_SLOTS : m[i].frame = <<f>>
  BY <1>4, <1>5, <1>6, <1>7, <1>8, <1>11
<1>13. DOMAIN m = 1 .. RECENT_SLOTS
  OBVIOUS
<1> QED
  BY <1>2, <1>12, <1>13 DEF is_duplicate

\* The memory stays in order as it ages, and what it holds stays known.
LEMMA AgedOk ==
  ASSUME FxTypes, MemoryOk(fx.recent, fx.recent_next), Remembered
  PROVE  /\ MemoryOk(AgedMemory, fx.recent_next)
         /\ \A f \in Frames : AgedSince[f] <= RECENT_WINDOW =>
              \E i \in 1 .. RECENT_SLOTS :
                AgedMemory[i].frame = <<f>> /\ AgedMemory[i].age <= AgedSince[f]
<1>1. ASSUME NEW i \in 1 .. RECENT_SLOTS
      PROVE  /\ AgedMemory[i].frame = fx.recent[i].frame
             /\ AgedMemory[i].age = Tick(fx.recent[i].age) /\ fx.recent[i].age \in 0 .. Forever
  BY DEF AgedMemory, FxTypes, Receivers, Entries
<1>2. ASSUME NEW a \in 0 .. Forever, Tick(a) <= RECENT_WINDOW PROVE a <= RECENT_WINDOW
  BY <1>2, TickIs, WindowIs
<1>3. MemoryOk(AgedMemory, fx.recent_next)
  <2>1. ASSUME NEW i \in 1 .. RECENT_SLOTS, AgedMemory[i].age <= RECENT_WINDOW
        PROVE  fx.recent[i].age <= RECENT_WINDOW
    BY <1>1, <1>2, <2>1
  <2>2. ASSUME NEW i \in 1 .. RECENT_SLOTS, AgedMemory[i].age <= RECENT_WINDOW
        PROVE  \E f \in Frames : AgedMemory[i].frame = <<f>>
    BY <1>1, <2>1, <2>2 DEF MemoryOk
  <2>3. ASSUME NEW i \in 1 .. RECENT_SLOTS, NEW j \in 1 .. RECENT_SLOTS, i # j,
               AgedMemory[i].age <= RECENT_WINDOW, AgedMemory[j].age <= RECENT_WINDOW
        PROVE  AgedMemory[i].frame # AgedMemory[j].frame
    BY <1>1, <2>1, <2>3 DEF MemoryOk
  <2>4. ASSUME NEW i \in 1 .. RECENT_SLOTS, NEW j \in 1 .. RECENT_SLOTS,
               Place(i, fx.recent_next) < Place(j, fx.recent_next)
        PROVE  AgedMemory[i].age >= AgedMemory[j].age
    BY <1>1, <2>4, TickTogether DEF MemoryOk
  <2> QED
    BY <2>2, <2>3, <2>4 DEF MemoryOk
<1>4. ASSUME NEW f \in Frames, AgedSince[f] <= RECENT_WINDOW
      PROVE  \E i \in 1 .. RECENT_SLOTS :
               AgedMemory[i].frame = <<f>> /\ AgedMemory[i].age <= AgedSince[f]
  <2>1. AgedSince[f] = Tick(since[f]) /\ since[f] \in 0 .. Forever
    BY DEF AgedSince, FxTypes
  <2>2. since[f] <= RECENT_WINDOW
    BY <1>2, <1>4, <2>1
  <2>3. PICK i \in 1 .. RECENT_SLOTS : fx.recent[i].frame = <<f>> /\ fx.recent[i].age <= since[f]
    BY <2>2 DEF Remembered
  <2>4. since[f] >= fx.recent[i].age
    BY <1>1, <2>1, <2>3
  <2>5. Tick(since[f]) >= Tick(fx.recent[i].age)
    BY <1>1, <2>1, <2>4, TickTogether
  <2>6. Tick(since[f]) \in Int /\ Tick(fx.recent[i].age) \in Int
    BY <1>1, <2>1, TickTogether
  <2> QED
    BY <1>1, <2>1, <2>3, <2>5, <2>6
<1> QED
  BY <1>3, <1>4

\* With no more frames than slots, hearing a unit overwrites no entry that is still
\* needed.
LEMMA HeardOk ==
  ASSUME IsFiniteSet(Frames), Cardinality(Frames) <= RECENT_SLOTS,
         FxTypes, MemoryOk(fx.recent, fx.recent_next), Remembered,
         Nothing(fx') \/ \E f \in Frames : Recovered(fx', f)
  PROVE  MemoryOk(fx'.recent, fx'.recent_next) /\ Remembered'
<1>1. /\ AgedMemory \in [1 .. RECENT_SLOTS -> Entries] /\ AgedSince \in [Frames -> 0 .. Forever]
      /\ fx.recent_next \in 1 .. RECENT_SLOTS
  BY AgedExact DEF FxTypes, Receivers
<1>2. MemoryOk(AgedMemory, fx.recent_next)
  BY AgedOk
<1>3. ASSUME NEW f \in Frames, AgedSince[f] <= RECENT_WINDOW
      PROVE  \E i \in 1 .. RECENT_SLOTS :
               AgedMemory[i].frame = <<f>> /\ AgedMemory[i].age <= AgedSince[f]
  BY <1>3, AgedOk
<1>4. ASSUME fx'.recent = AgedMemory, fx'.recent_next = fx.recent_next, since' = AgedSince
      PROVE  MemoryOk(fx'.recent, fx'.recent_next) /\ Remembered'
  BY <1>2, <1>3, <1>4 DEF Remembered
<1>5. ASSUME NEW g \in Frames, Fresh(fx', g)
      PROVE  MemoryOk(fx'.recent, fx'.recent_next) /\ Remembered'
  <2> DEFINE n == fx.recent_next
             next == (n % RECENT_SLOTS) + 1
             entry == [frame |-> <<g>>, age |-> 0]
             m == fx'.recent
  <2>1. /\ m = [AgedMemory EXCEPT ![n] = entry] /\ since' = [AgedSince EXCEPT ![g] = 0]
        /\ fx'.recent_next = next /\ ~is_duplicate(AgedMemory, g)
    BY <1>5 DEF Fresh
  <2>2. /\ entry.frame = <<g>> /\ entry.age = 0
        /\ m[n] = entry /\ \A i \in 1 .. RECENT_SLOTS : i # n => m[i] = AgedMemory[i]
    <3>1. entry.frame = <<g>> /\ entry.age = 0
      OBVIOUS
    <3> HIDE DEF entry, m, n
    <3> QED
      BY <1>1, <2>1, <3>1 DEF n
  <2>3. ASSUME NEW i \in 1 .. RECENT_SLOTS, AgedMemory[i].age <= RECENT_WINDOW
        PROVE  AgedMemory[i].frame # <<g>>
    BY <1>1, <2>1, <2>3 DEF is_duplicate
  <2> HIDE DEF entry, m, next
  <2>4. ASSUME NEW i \in 1 .. RECENT_SLOTS, m[i].age <= RECENT_WINDOW
        PROVE  \E f \in Frames : m[i].frame = <<f>>
    BY <1>2, <2>2, <2>4 DEF MemoryOk
  <2>5. ASSUME NEW i \in 1 .. RECENT_SLOTS, NEW j \in 1 .. RECENT_SLOTS, i # j,
               m[i].age <= RECENT_WINDOW, m[j].age <= RECENT_WINDOW
        PROVE  m[i].frame # m[j].frame
    <3>1. CASE i = n
      BY <2>2, <2>3, <2>5, <3>1
    <3>2. CASE j = n
      BY <2>2, <2>3, <2>5, <3>2
    <3>3. CASE i # n /\ j # n
      BY <1>2, <2>2, <2>5, <3>3 DEF MemoryOk
    <3> QED
      BY <3>1, <3>2, <3>3
  <2>6. ASSUME NEW i \in 1 .. RECENT_SLOTS, NEW j \in 1 .. RECENT_SLOTS,
               Place(i, next) < Place(j, next)
        PROVE  m[i].age >= m[j].age
    <3>1. i # n /\ (j = n \/ Place(i, n) < Place(j, n))
      BY <1>1, <2>6, Places DEF next
    <3>2. m[i] = AgedMemory[i] /\ AgedMemory[i].age \in Nat
      BY <1>1, <2>2, <3>1, WindowIs DEF Entries
    <3>3. CASE j = n
      BY <2>2, <3>2, <3>3
    <3>4. CASE j # n
      BY <1>2, <2>2, <3>1, <3>2, <3>4 DEF MemoryOk
    <3> QED
      BY <3>3, <3>4
  <2>7. MemoryOk(m, next)
    BY <2>4, <2>5, <2>6 DEF MemoryOk
  <2>8. ASSUME NEW f \in Frames, since'[f] <= RECENT_WINDOW
        PROVE  \E i \in 1 .. RECENT_SLOTS : m[i].frame = <<f>> /\ m[i].age <= since'[f]
    <3>1. CASE f = g
      <4>1. since'[f] = 0
        BY <1>1, <2>1, <3>1
      <4> QED
        BY <1>1, <2>2, <3>1, <4>1
    <3>2. CASE f # g
      <4>1. since'[f] = AgedSince[f]
        BY <1>1, <2>1, <3>2
      <4>2. PICK i \in 1 .. RECENT_SLOTS :
              AgedMemory[i].frame = <<f>> /\ AgedMemory[i].age <= AgedSince[f]
        BY <1>3, <2>8, <4>1
      <4>3. i # n
        <5>1. SUFFICES ASSUME i = n PROVE FALSE
          OBVIOUS
        <5>2. AgedMemory[n].age <= RECENT_WINDOW
          <6>1. AgedMemory[n].age \in Nat /\ AgedSince[f] \in Int /\ RECENT_WINDOW \in Int
            BY <1>1, WindowIs DEF Entries
          <6> QED
            BY <2>8, <4>1, <4>2, <5>1, <6>1
        <5>3. is_duplicate(AgedMemory, g)
          BY <1>1, <1>2, <5>2, FullMemory
        <5> QED
          BY <2>1, <5>3
      <4> QED
        BY <2>2, <4>1, <4>2, <4>3
    <3> QED
      BY <3>1, <3>2
  <2>9. Remembered'
    BY <2>8 DEF Remembered, m
  <2> QED
    BY <2>1, <2>7, <2>9 DEF m
<1> QED
  BY <1>4, <1>5 DEF Nothing, Recovered, Known

\* When the frames about are no more than the memory's slots (four), none comes
\* out twice within the window: no delivery that could still be repeated is
\* overwritten (is_duplicate, RECENT_SLOTS).
THEOREM OncePerWindowCorrect ==
  ASSUME IsFiniteSet(Frames), Cardinality(Frames) <= RECENT_SLOTS
  PROVE  Fx25Spec => OncePerWindow
<1> DEFINE Once == out' # <<>> => since[out'[1]] + 1 > RECENT_WINDOW
<1>1. Fx25Init => MemoryInv
  <2> SUFFICES ASSUME Fx25Init PROVE MemoryInv
    OBVIOUS
  <2>1. Fx25Inv
    BY Fx25Starts
  <2>2. /\ \A i \in 1 .. RECENT_SLOTS : fx.recent[i].age = Forever
        /\ \A f \in Frames : since[f] = Forever
        /\ Forever > RECENT_WINDOW /\ ~(Forever <= RECENT_WINDOW) /\ Forever >= Forever
    BY WindowIs DEF Fx25Init
  <2>3. MemoryOk(fx.recent, fx.recent_next) /\ Remembered
    BY <2>2 DEF MemoryOk, Remembered
  <2> QED
    BY <2>1, <2>3 DEF MemoryInv
<1>2. MemoryInv /\ [Fx25Next]_fxVars => MemoryInv' /\ [Once]_fxVars
  <2> SUFFICES ASSUME MemoryInv, [Fx25Next]_fxVars PROVE MemoryInv' /\ [Once]_fxVars
    OBVIOUS
  <2>1. Fx25Inv' /\ FxTypes /\ NoneYounger
    BY Fx25Keeps DEF MemoryInv, Fx25Inv
  <2>2. CASE UNCHANGED fxVars
    BY <2>1, <2>2 DEF fxVars, MemoryInv, MemoryOk, Remembered
  <2>3. CASE Fx25Next
    <3>1. CASE out' = <<>> /\ due' = {} /\ UNCHANGED <<fx, since>>
      BY <2>1, <3>1 DEF MemoryInv, MemoryOk, Remembered
    <3>2. ASSUME NEW bad \in BOOLEAN, NEW u, u \in Units \/ u.kind = "noise", push(u, bad)
          PROVE  MemoryInv' /\ Once
      <4>1. Nothing(fx') \/ \E f \in Frames : Recovered(fx', f)
        BY <2>1, <3>2, PushExact
      <4>2. MemoryOk(fx'.recent, fx'.recent_next) /\ Remembered'
        BY <2>1, <4>1, HeardOk DEF MemoryInv
      <4>3. MemoryInv'
        BY <2>1, <4>2 DEF MemoryInv
      <4>4. Once
        <5>1. ASSUME NEW f \in Frames, Fresh(fx', f), ~(since[f] + 1 > RECENT_WINDOW)
              PROVE  FALSE
          <6>1. since[f] \in 0 .. Forever /\ since[f] + 1 <= RECENT_WINDOW
            BY <2>1, <5>1, WindowIs DEF FxTypes
          <6>2. AgedSince[f] = since[f] + 1
            BY <6>1, TickIs, WindowIs DEF AgedSince
          <6>3. AgedSince[f] <= RECENT_WINDOW
            BY <6>1, <6>2
          <6>4. PICK i \in 1 .. RECENT_SLOTS :
                  AgedMemory[i].frame = <<f>> /\ AgedMemory[i].age <= AgedSince[f]
            BY <2>1, <6>3, AgedOk DEF MemoryInv
          <6>5. AgedMemory \in [1 .. RECENT_SLOTS -> Entries]
            BY <2>1, AgedExact
          <6>6. AgedMemory[i].age <= RECENT_WINDOW
            BY <6>1, <6>2, <6>4, <6>5, WindowIs DEF Entries
          <6>7. is_duplicate(AgedMemory, f)
            BY <6>4, <6>5, <6>6 DEF is_duplicate
          <6> QED
            BY <5>1, <6>7 DEF Fresh
        <5>2. CASE out' = <<>>
          BY <5>2
        <5>3. ASSUME NEW f \in Frames, Fresh(fx', f) PROVE Once
          <6>1. out'[1] = f
            BY <5>3, OneTuple DEF Fresh
          <6> QED
            BY <5>1, <5>3, <6>1
        <5> QED
          BY <4>1, <5>2, <5>3 DEF Nothing, Recovered, Known
      <4> QED
        BY <4>3, <4>4
    <3> QED
      BY <2>1, <2>3, <3>1, <3>2, Fx25Steps
  <2> QED
    BY <2>2, <2>3
<1>3. [][Once]_fxVars => OncePerWindow
  BY DEF OncePerWindow
<1> QED
  BY <1>1, <1>2, <1>3, PTL DEF Fx25Spec

=============================================================================
