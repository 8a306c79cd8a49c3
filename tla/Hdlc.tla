-------------------------------- MODULE Hdlc --------------------------------
(***************************************************************************)
(* src/src/ax25/hdlc.rs: HDLC framing on a noisy line.  The transmitter is *)
(* the lazy iterator FrameBits (preamble flags, stuffed content and FCS,   *)
(* tail flags), the receiver the push-one-bit state machine HdlcDeframer   *)
(* with its three recovery policies and the voted-window entry point the   *)
(* receive bank uses.  Every step moves one line bit.                      *)
(*                                                                         *)
(* Bytes are runs of eight bits, least significant first, so contents,     *)
(* FCS, the accumulation buffer and the raw window are bit sequences.      *)
(***************************************************************************)
EXTENDS Integers, Sequences, SequencesExt, Fcs

CONSTANTS N,             \* deframer capacity in bytes, FCS included
          MinFrameLen,   \* MIN_FRAME_LEN, the shortest content in bytes
          RawBits,       \* RAW_BITS, the raw pre-destuff window
          Contents,      \* frame contents that are sent (bit sequences)
          Policies,      \* recovery policies a deframer is built with
          Sane(_),       \* UiFrame::parse accepts this content
          VoteErrors,    \* where a voted window may still have a bit wrong
          MaxFrames,     \* bound: frames sent
          MaxNoise       \* bound: bits flipped, lost or injected

Bit == {0, 1}

\* Contents are whole bytes.
ASSUME ContentsAssumption ==
  Contents \subseteq Seq(Bit) /\ \A c \in Contents : Len(c) % 8 = 0
ASSUME SizeAssumption == N \in Nat /\ MinFrameLen \in Nat /\ RawBits \in Nat
ASSUME PolicyAssumption ==
  Policies \subseteq {"None", "SingleBitFlip", "PreDestuffFlip"}

VARIABLES content,       \* content of the frame being sent
          tx,            \* FrameBits
          rx,            \* HdlcDeframer
          recovery,      \* its policy
          result,        \* what the latest push (or vote) returned
          damage,        \* history: "none", "flip" (and where) or "worse"
          sent, noise    \* bounds; sent is the set of contents sent so far

vars == <<content, tx, rx, recovery, result, damage, sent, noise>>

Prefix(s, n) == SubSeq(s, 1, n)

-----------------------------------------------------------------------------
(* FrameBits                                                               *)

Flag == <<0, 1, 1, 1, 1, 1, 1, 0>>

\* Content followed by its FCS, low byte first.
DataBits(c) == c \o crc16_x25(c)

frame_bits(c, preamble) ==
  [data |-> DataBits(c), phase |-> "Preamble", left |-> preamble, pos |-> 0,
   ones |-> 0, stuff_pending |-> FALSE]

\* The moves `next` makes before it yields a bit: an exhausted preamble leads
\* to the data, exhausted data (with no stuffed zero owed) to the one tail
\* flag, an exhausted tail to Done.
Settle(t) ==
  CASE t.phase = "Preamble" /\ t.left = 0 ->
         [t EXCEPT !.phase = "Data", !.pos = 0]
    [] t.phase = "Data" /\ ~t.stuff_pending /\ t.pos = Len(t.data) ->
         [t EXCEPT !.phase = "Tail", !.left = 1, !.pos = 0]
    [] t.phase = "Tail" /\ t.left = 0 -> [t EXCEPT !.phase = "Done"]
    [] OTHER -> t

EmitFlag(t) ==
  [bit |-> Flag[t.pos + 1],
   then |-> IF t.pos = 7 THEN [t EXCEPT !.left = @ - 1, !.pos = 0]
            ELSE [t EXCEPT !.pos = @ + 1]]

EmitData(t) ==
  IF t.stuff_pending
  THEN [bit |-> 0, then |-> [t EXCEPT !.stuff_pending = FALSE, !.ones = 0]]
  ELSE LET b == t.data[t.pos + 1]
       IN  [bit |-> b,
            then |-> [t EXCEPT !.pos = @ + 1,
                               !.ones = IF b = 1 THEN @ + 1 ELSE 0,
                               !.stuff_pending = b = 1 /\ t.ones + 1 = 5]]

Emit(t) == IF t.phase = "Data" THEN EmitData(t) ELSE EmitFlag(t)

-----------------------------------------------------------------------------
(* HdlcDeframer.  `bits` are the destuffed bits that fit the buffer,       *)
(* `count` all destuffed bits: the code's len is count \div 8, its nbits   *)
(* count % 8.  `raw` is the raw window, `raw_len` the bits recorded.       *)

Hunting == [bits |-> <<>>, count |-> 0, ones |-> 0, in_frame |-> FALSE,
            raw |-> <<>>, raw_len |-> 0, window |-> <<>>]

reset_frame(d) ==
  [d EXCEPT !.bits = <<>>, !.count = 0, !.raw = <<>>, !.raw_len = 0]

record_raw(d, b) ==
  [d EXCEPT !.raw = IF d.raw_len < RawBits THEN Append(@, b) ELSE @,
            !.raw_len = @ + 1]

\* A byte that does not fit is counted, not stored.
push_frame_bit(d, b) ==
  [d EXCEPT !.bits = IF d.count < 8 * N THEN Append(@, b) ELSE @,
            !.count = @ + 1]

None == [kind |-> "None"]
Err(why) == [kind |-> "Err", why |-> why]
Ok(c) == [kind |-> "Ok", content |-> c]

\* Whole bytes of content and FCS in a valid range, the FCS matching.
InRange(n) == n >= MinFrameLen + 2 /\ n <= N
ContentOf(bits) == Prefix(bits, Len(bits) - 16)
FcsOf(bits) == SubSeq(bits, Len(bits) - 15, Len(bits))
FcsValid(bits) == crc16_x25(ContentOf(bits)) = FcsOf(bits)

Flipped(s, i) == [s EXCEPT ![i] = 1 - @]

\* try_repair: accept the one content flip that explains the syndrome if the
\* repaired content is a sane frame; a flip in the FCS field is refused.
try_repair(bits) ==
  LET c == ContentOf(bits)
      at == locate_single_bit_error(Len(c), FcsOf(bits), crc16_x25(c))
  IN  IF at \in DOMAIN c /\ Sane(Flipped(c, at)) THEN Ok(Flipped(c, at))
      ELSE Err("FcsMismatch")

\* destuff_candidate: the destuffed raw bits, or <<>> when implausible (a
\* flag or abort inside, not whole bytes, too long, five ones at the end).
Destuffed(raw) ==
  LET step(s, b) ==
        IF b = 1 THEN [s EXCEPT !.ones = @ + 1, !.out = Append(@, 1),
                                !.ok = @ /\ s.ones + 1 < 7]
        ELSE [s EXCEPT !.ones = 0,
                       !.out = IF s.ones = 5 THEN @ ELSE Append(@, 0),
                       !.ok = @ /\ s.ones # 6]
      end == FoldLeft(step, [ones |-> 0, out |-> <<>>, ok |-> TRUE], raw)
  IN  IF /\ end.ok /\ end.ones < 5
         /\ Len(end.out) % 8 = 0 /\ Len(end.out) <= 8 * N
      THEN end.out ELSE <<>>

\* Mutant: a repaired candidate only has to look sane.
AcceptableUnchecked(bits) == InRange(Len(bits) \div 8) /\ Sane(ContentOf(bits))

\* A destuffed candidate is a valid, sane frame.
Acceptable(bits) ==
  /\ InRange(Len(bits) \div 8)
  /\ Sane(ContentOf(bits))
  /\ FcsValid(bits)

\* try_predestuff: flip each raw bit in turn, destuff again, take the first
\* acceptable candidate whose content is not what the deframer already had
\* (`had`, of `hadLen` bytes with FCS): that flip would only mend the FCS.
try_predestuff(raw, raw_len, had, hadLen) ==
  LET n == raw_len - 8
      candidate(i) == Destuffed(Flipped(Prefix(raw, n), i))
      known(c) == /\ hadLen >= 2 /\ Len(c) = 8 * (hadLen - 2)
                  /\ Prefix(had, Len(c)) = c
      flips == {i \in 1 .. n :
                  LET bits == candidate(i)
                  IN  Acceptable(bits) /\ ~known(ContentOf(bits))}
  IN  IF /\ raw_len \in 8 .. RawBits
         /\ n >= (MinFrameLen + 2) * 8
         /\ flips # {}
      THEN Ok(ContentOf(candidate(Min(flips))))
      ELSE None

\* close_frame: the last seven destuffed bits are the closing flag's.
close_frame(d) ==
  LET len == d.count \div 8
      bits == Prefix(d.bits, 8 * len)
      predestuff == IF recovery = "PreDestuffFlip"
                    THEN try_predestuff(d.raw, d.raw_len, d.bits, len)
                    ELSE None
  IN  IF d.count % 8 # 7 THEN predestuff
      ELSE IF len > N THEN Err("FrameTooLarge")
      ELSE IF len < MinFrameLen + 2 THEN None
      ELSE IF FcsValid(bits) THEN Ok(ContentOf(bits))
      ELSE IF recovery = "None" THEN Err("FcsMismatch")
      ELSE LET repaired == try_repair(bits)
           IN  IF repaired.kind # "Ok" /\ predestuff.kind = "Ok"
               THEN predestuff ELSE repaired

\* Mutant: a flag that closes a frame does not open the next one.
OnFlagOnlyCloses(d) ==
  [rx |-> [reset_frame(d) EXCEPT !.in_frame = ~d.in_frame,
                                 !.window = IF d.in_frame THEN d.raw ELSE @],
   result |-> IF d.in_frame THEN close_frame(d) ELSE None]

\* A flag closes a frame in progress and opens the next one.
OnFlag(d) ==
  [rx |-> [reset_frame(d) EXCEPT !.in_frame = TRUE,
                                 !.window = IF d.in_frame THEN d.raw ELSE @],
   result |-> IF d.in_frame THEN close_frame(d) ELSE None]

OnOne(d) ==
  LET e == [d EXCEPT !.ones = IF @ < 7 THEN @ + 1 ELSE 7]
  IN  IF e.ones >= 7 THEN [reset_frame(e) EXCEPT !.in_frame = FALSE]
      ELSE IF e.in_frame THEN push_frame_bit(e, 1) ELSE e

push(d, b) ==
  LET r == IF d.in_frame THEN record_raw(d, b) ELSE d
      z == [r EXCEPT !.ones = 0]
  IN  IF b = 1 THEN [rx |-> OnOne(r), result |-> None]
      ELSE IF d.ones = 5 THEN [rx |-> z, result |-> None]
      ELSE IF d.ones = 6 THEN OnFlag(z)
      ELSE [rx |-> IF d.in_frame THEN push_frame_bit(z, 0) ELSE z,
            result |-> None]

\* try_voted_window / check_voted: a window voted from several chains is
\* accepted as it is, or after one more flip.
try_voted_window(raw) ==
  LET n == Len(raw) - 8
      plain == Destuffed(Prefix(raw, n))
      ranged == InRange(Len(plain) \div 8)
  IN  IF Len(raw) \notin 8 .. RawBits \/ n < (MinFrameLen + 2) * 8 THEN None
      ELSE IF Acceptable(plain) THEN Ok(ContentOf(plain))
      ELSE try_predestuff(raw, Len(raw), IF ranged THEN plain ELSE <<>>,
                          IF ranged THEN Len(plain) \div 8 ELSE 0)

-----------------------------------------------------------------------------
(* The line                                                                *)

Intact == [kind |-> "none"]
FlipIn(where) == [kind |-> "flip", where |-> where]
Worse == [kind |-> "worse"]

Init ==
  /\ content \in Contents
  /\ tx = frame_bits(content, 1)
  /\ rx = Hunting
  /\ recovery \in Policies
  /\ result = None
  /\ damage = Intact
  /\ sent = {content}
  /\ noise = 0

Receive(b) == LET r == push(rx, b) IN rx' = r.rx /\ result' = r.result

Advance == tx' = Settle(Settle(Emit(tx).then))

\* The next frame starts, after its own flag or sharing the previous one's.
Begin(preamble) ==
  /\ tx.phase = "Done"
  /\ Cardinality(sent) < MaxFrames
  /\ \E c \in Contents \ sent : content' = c /\ sent' = sent \cup {c}
  /\ tx' = Settle(frame_bits(content', preamble))
  /\ damage' = IF preamble > 0 \/ damage = Intact THEN Intact ELSE Worse
  /\ result' = None
  /\ UNCHANGED <<rx, recovery, noise>>

Deliver ==
  /\ tx.phase # "Done"
  /\ Advance
  /\ Receive(Emit(tx).bit)
  /\ UNCHANGED <<content, recovery, damage, sent, noise>>

\* Where a flip hits: a content bit, or a stuffed zero, FCS or flag bit.
Where == IF tx.phase = "Data" /\ ~tx.stuff_pending /\ tx.pos < Len(content)
         THEN "content" ELSE "other"

Flip ==
  /\ tx.phase # "Done"
  /\ noise < MaxNoise
  /\ Advance
  /\ Receive(1 - Emit(tx).bit)
  /\ damage' = IF damage = Intact THEN FlipIn(Where) ELSE Worse
  /\ noise' = noise + 1
  /\ UNCHANGED <<content, recovery, sent>>

\* A bit slip: the demodulator's clock misses a bit ...
Lose ==
  /\ tx.phase # "Done"
  /\ noise < MaxNoise
  /\ Advance
  /\ damage' = Worse
  /\ result' = None
  /\ noise' = noise + 1
  /\ UNCHANGED <<content, rx, recovery, sent>>

\* ... or takes one too many.
Inject ==
  /\ noise < MaxNoise
  /\ \E b \in Bit : Receive(b)
  /\ damage' = Worse
  /\ noise' = noise + 1
  /\ UNCHANGED <<content, tx, recovery, sent>>

\* Content and FCS as they travel between the flags.
Stuffed(c) ==
  FoldLeft(LAMBDA s, b : IF b = 1 /\ s.ones = 4
                         THEN [ones |-> 0, out |-> s.out \o <<1, 0>>]
                         ELSE [ones |-> IF b = 1 THEN s.ones + 1 ELSE 0,
                               out |-> Append(s.out, b)],
           [ones |-> 0, out |-> <<>>], DataBits(c)).out

\* After a failed FCS the receive bank may vote: the other chains' windows
\* agree on the frame, all of its bits or all but one.  The deframer's own
\* per-frame state is empty at this point and is left empty.
Vote ==
  /\ result = Err("FcsMismatch")
  /\ tx.phase = "Done"
  /\ LET clean == Stuffed(content) \o Flag
     IN  \E raw \in {clean} \cup {Flipped(clean, i) : i \in VoteErrors} :
           result' = try_voted_window(raw)
  /\ UNCHANGED <<content, tx, rx, recovery, damage, sent, noise>>

Next == \/ \E preamble \in {0, 1} : Begin(preamble)
        \/ Deliver \/ Flip \/ Lose \/ Inject \/ Vote

Spec == Init /\ [][Next]_vars

-----------------------------------------------------------------------------
(* Properties                                                              *)

\* Types; the run of ones saturates at the abort, the raw window holds what
\* was recorded up to its size, and outside a frame nothing is accumulated.
TypeOK ==
  /\ content \in Contents /\ content \in sent
  /\ tx.ones \in 0 .. 5
  /\ rx.bits \in Seq(Bit) /\ Len(rx.bits) <= 8 * N
  /\ rx.ones \in 0 .. 7
  /\ Len(rx.raw) = IF rx.raw_len < RawBits THEN rx.raw_len ELSE RawBits
  /\ rx.count <= rx.raw_len
  /\ ~rx.in_frame => rx.raw_len = 0
  /\ result.kind \in {"None", "Ok", "Err"}

Closing == tx.phase # "Done" /\ tx'.phase = "Done"
Fits(c) == InRange(Len(c) \div 8 + 2)

\* A frame all of whose bits (opening and closing flag included, the opening
\* one possibly shared) arrive as sent is delivered exactly as its closing
\* flag ends, whatever damaged frame, abort or idle noise came before; one
\* that outgrows the buffer is reported, not truncated; a runt is discarded.
IntactDelivered ==
  [][ Closing /\ damage' = Intact =>
        result' = IF Fits(content) THEN Ok(content)
                  ELSE IF Len(content) \div 8 + 2 > N THEN Err("FrameTooLarge")
                  ELSE None ]_vars

\* With at most MaxNoise = 1 bit flipped, lost or injected, no policy and no
\* vote ever delivers a content nobody sent, even when the error creates a
\* flag, an abort or a stuffing bit.
NeverForges == result.kind = "Ok" => result.content \in sent

\* One flipped content bit is repaired: by SingleBitFlip when the stuffing is
\* untouched, by PreDestuffFlip also when the flip made or broke a stuffing
\* bit and shifted the whole tail, as long as it made no flag or abort.
FlipRepaired ==
  [][ /\ Closing
      /\ damage' = FlipIn("content")
      /\ Fits(content) /\ Sane(content)
      /\ Len(rx'.window) = Len(Stuffed(content)) + 8
      /\ \/ recovery = "PreDestuffFlip"
         \/ /\ recovery = "SingleBitFlip"
            /\ rx.count = Len(tx.data) + 7
            /\ Cardinality({i \in 1 .. rx.count - 7 :
                              rx.bits[i] # tx.data[i]}) = 1
      => result' = Ok(content) ]_vars
=============================================================================
