------------------------------ MODULE LineCode ------------------------------
(***************************************************************************)
(* Between bits and samples: src/src/scrambler.rs, src/src/nrzi.rs and     *)
(* src/src/slicer.rs.                                                      *)
(*                                                                         *)
(* Coding: data bits go through the NRZI encoder and then the scrambler to *)
(* a line that may flip any bit, and come back through the descrambler and *)
(* then the NRZI decoder; nothing tells the receiving side when a          *)
(* transmission begins.  Timing: a line whose edges wander by Jitter       *)
(* samples drives the slicer, which has to take one decision in every bit  *)
(* cell.                                                                   *)
(***************************************************************************)
EXTENDS Integers, Sequences

CONSTANTS Stages, TapA, TapB,  \* the shift register's length and taps: 17, 12 and 17 in the code
          PhaseBits,           \* width of the bit-cell phase: 32 in the code
          SamplesPerBit, Jitter,
          MaxRun               \* cells without an edge that bit stuffing allows

ASSUME LineCodeAssumption ==
  /\ Stages \in Nat /\ TapA \in 1 .. Stages /\ TapB \in 1 .. Stages
  /\ PhaseBits \in Nat \ {0} /\ SamplesPerBit \in Nat \ {0} /\ Jitter \in Nat /\ MaxRun \in Nat \ {0}

VARIABLES coder,     \* [reg, level]: the scrambler's register, the latest bit first; the NRZI level
          decoder,   \* [reg, prev]: the descrambler's register; the NRZI decoder's level
          last,      \* the data bit sent and the one received, and line bits since the last flip
          slicer,    \* [phase, last_positive, primed, lock]
          cell       \* the bit cell on the line: its level, samples left, how late it ends, run, decisions

codingVars == <<coder, decoder, last>>
timingVars == <<slicer, cell>>

Bits == {0, 1}

-----------------------------------------------------------------------------
(* Coding                                                                  *)

taps(reg) == (reg[TapA] + reg[TapB]) % 2
shift_in(reg, bit) == [i \in 1 .. Stages |-> IF i = 1 THEN bit ELSE reg[i - 1]]

\* Either side may be in any state: the seed and the level are the sender's own
\* (Scrambler::with_state), the receiver's are what noise or an earlier
\* transmission left.
CodingInit ==
  /\ coder \in [reg : [1 .. Stages -> Bits], level : Bits]
  /\ decoder \in [reg : [1 .. Stages -> Bits], prev : Bits]
  /\ last = [sent |-> 0, got |-> 0, clean |-> 0]

\* NrziEncoder::encode: a zero is a change of level.  NrziDecoder::decode.
nrzi_encode(level, bit) == IF bit = 0 THEN 1 - level ELSE level
nrzi_decode(prev, line) == IF line = prev THEN 1 ELSE 0

\* Mutant: the register takes in its own output.
descramble_own(reg, bit) == LET out == (bit + taps(reg)) % 2 IN [out |-> out, reg |-> shift_in(reg, out)]
\* Descrambler::descramble: the register takes in the line's bit.
descramble_line(reg, bit) == [out |-> (bit + taps(reg)) % 2, reg |-> shift_in(reg, bit)]

\* frame_samples_i16: NRZI, then the scrambler, whose register takes in its output.
transmit(c, bit) ==
  LET level == nrzi_encode(c.level, bit)
      line  == (level + taps(c.reg)) % 2
  IN  [line |-> line, coder |-> [reg |-> shift_in(c.reg, line), level |-> level]]

\* push_baseband: the descrambler, then NRZI.
receive(d, line) ==
  LET got == descramble_line(d.reg, line)
  IN  [bit |-> nrzi_decode(d.prev, got.out), decoder |-> [reg |-> got.reg, prev |-> got.out]]

Transfer(bit, flip) ==
  LET out == transmit(coder, bit)
      got == receive(decoder, IF flip THEN 1 - out.line ELSE out.line)
  IN  /\ coder' = out.coder
      /\ decoder' = got.decoder
      /\ last' = [sent |-> bit, got |-> got.bit,
                  clean |-> IF flip THEN 0 ELSE IF last.clean > Stages + 1 THEN last.clean ELSE last.clean + 1]
      /\ UNCHANGED timingVars

CodingNext == \E bit \in Bits, flip \in BOOLEAN : Transfer(bit, flip)

CodingSpec == CodingInit /\ [][CodingNext]_codingVars

\* A flipped or unknown line bit is in the descrambler's register for Stages bits
\* more and may spoil the level of each, and a spoilt level the NRZI bit after its
\* own: from then on the data is right, whatever state both ends began in.
SelfSynchronises == last.clean > Stages + 1 => last.got = last.sent

-----------------------------------------------------------------------------
(* Timing                                                                  *)

Period == 2 ^ PhaseBits
SEARCH_SHIFT == 1
LOCK_SHIFT == 3
LOCK_THRESHOLD == 7
LOCK_MAX == 12
WINDOW == Period \div 4

\* The step of Slicer::new, rounded.
PhaseStep == (Period + SamplesPerBit \div 2) \div SamplesPerBit

TimingInit ==
  /\ slicer \in [phase : {0}, last_positive : {TRUE}, primed : {FALSE}, lock : {0}]
  /\ cell = [level |-> 1, end |-> 0, left |-> SamplesPerBit, run |-> 1, decisions |-> 0, locked |-> FALSE]

\* Mutant: edges are expected where a cell's decision falls.
edge_offset_late(phase) == IF phase >= Period \div 2 THEN phase - Period ELSE phase
\* The signed distance from the phase an edge should fall on, half a period.
edge_offset(phase) == phase - Period \div 2
Magnitude(n) == IF n < 0 THEN -n ELSE n

\* What the rounded step adds to the clock's error over a run without an edge.
Skew == SamplesPerBit * PhaseStep - Period
Drift == MaxRun * Magnitude(Skew)

\* No cell vanishes, the drift is small beside a cell (Slicer::new: half a unit
\* per sample), and edges wander by less than 3/16 of one.
ASSUME TimingAssumption ==
  /\ 2 * Jitter < SamplesPerBit
  /\ 56 * Drift + 56 <= Period
  /\ 16 * (Jitter * PhaseStep) + 8 * Drift + 32 < 3 * Period

\* What Slicer::push makes of an edge.
at_edge(s) ==
  LET offset == edge_offset(s.phase)
      shift  == IF s.lock >= LOCK_THRESHOLD THEN LOCK_SHIFT ELSE SEARCH_SHIFT
  IN  [s EXCEPT !.phase = (@ - (offset \div 2 ^ shift)) % Period,
                !.lock = IF Magnitude(offset) < WINDOW THEN (IF @ < LOCK_MAX THEN @ + 1 ELSE @)
                         ELSE IF @ > 4 THEN @ - 4 ELSE 0]

\* Slicer::push: the slicer, and whether a bit cell ended.
slicer_push(s, positive) ==
  LET seen == IF s.primed /\ positive # s.last_positive THEN at_edge(s) ELSE s
      next == seen.phase + PhaseStep
  IN  [slicer |-> [seen EXCEPT !.phase = next % Period, !.last_positive = positive, !.primed = TRUE],
       decision |-> next >= Period]

\* One sample of the cell on the line; the next cell begins when it has none left.
Sample ==
  LET r == slicer_push(slicer, cell.level = 1)
  IN  /\ cell.left > 0
      /\ slicer' = r.slicer
      /\ cell' = [cell EXCEPT !.left = @ - 1, !.decisions = @ + (IF r.decision THEN 1 ELSE 0)]
      /\ UNCHANGED codingVars

NextCell ==
  /\ cell.left = 0
  /\ \E level \in Bits, end \in -Jitter .. Jitter :
       /\ level = cell.level => cell.run < MaxRun
       /\ cell' = [level |-> level, end |-> end, left |-> SamplesPerBit + end - cell.end,
                   run |-> IF level = cell.level THEN cell.run + 1 ELSE 1,
                   decisions |-> 0, locked |-> slicer.lock >= LOCK_THRESHOLD]
  /\ UNCHANGED <<slicer, codingVars>>

TimingNext == Sample \/ NextCell

TimingSpec == TimingInit /\ [][TimingNext]_timingVars

\* Once locked, the slicer takes exactly one decision per bit cell, whatever
\* the jitter of the edges and the runs without one.
OneDecisionPerCell == cell.left = 0 /\ cell.locked => cell.decisions = 1
=============================================================================
