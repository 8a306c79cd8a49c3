----------------------------- MODULE WeakSignal -----------------------------
(***************************************************************************)
(* src/src/wspr.rs and ft8.rs: a WSPR message packed into 50 bits and coded *)
(* into 162 symbols, an FT8 message into 77 bits and a 14-bit CRC, and both *)
(* brought back after some of it was lost on the way.                       *)
(***************************************************************************)
EXTENDS Text

Letters == Bytes("ABCDEFGHIJKLMNOPQRSTUVWXYZ")
DecimalDigits == Bytes("0123456789")
Blank == Bytes(" ")
Trimmed(s) ==
  LET solid == {i \in DOMAIN s : s[i] # 32}
  IN  IF solid = {} THEN <<>> ELSE SubSeq(s, Min(solid), Max(solid))
Filled(s, n) == s \o [i \in 1 .. n - Len(s) |-> 32]

\* The value of digits, each in its own base, the most significant first.
Mixed(digits, bases) == FoldLeft(LAMBDA n, i : n * bases[i] + digits[i], 0, Counting(1, Len(digits)))
Unmixed(n, bases) ==
  FoldRight(LAMBDA base, st : [n |-> st.n \div base, out |-> <<st.n % base>> \o st.out],
            bases, [n |-> n, out |-> <<>>])

-----------------------------------------------------------------------------
(* WSPR                                                                    *)

\* Six characters, the third a digit.
normalize_callsign(call) ==
  LET buf == Filled([i \in DOMAIN call |-> ToUpper(call[i])], 6)
      shifted == Blank \o SubSeq(buf, 1, 5)
      out == IF IsDigit(buf[3]) THEN buf ELSE shifted
  IN  IF \/ Len(call) \notin 1 .. 6 \/ \E i \in DOMAIN call : ~IsAlpha(call[i]) /\ ~IsDigit(call[i])
         \/ ~IsDigit(buf[3]) /\ (Len(call) = 6 \/ ~IsDigit(buf[2]))
         \/ \E i \in 4 .. 6 : ~IsUpper(out[i]) /\ out[i] # 32
      THEN Err ELSE Ok(out)

char_value(c) == IF IsDigit(c) THEN c - 48 ELSE IF IsUpper(c) THEN c - 55 ELSE 36
CallBases == <<37, 36, 10, 27, 27, 27>>
wspr_pack_callsign(call) == Mixed([i \in 1 .. 6 |-> char_value(call[i]) - (IF i > 3 THEN 10 ELSE 0)], CallBases)

pack_grid(grid) == (179 - 10 * (grid[1] - 65) - (grid[3] - 48)) * 180 + 10 * (grid[2] - 65) + grid[4] - 48

WsprMessage_new(call, grid, power_dbm) ==
  IF ~normalize_callsign(call).ok \/ Len(grid) # 4 \/ power_dbm > 60 \/ power_dbm % 10 \notin {0, 3, 7} THEN Err
  ELSE Ok([callsign |-> normalize_callsign(call).v, grid |-> grid, power_dbm |-> power_dbm])

wspr_pack(msg) == FieldOf(wspr_pack_callsign(msg.callsign), 28) \o FieldOf(pack_grid(msg.grid) * 128 + msg.power_dbm + 64, 22)

wspr_unpack(bits) ==
  LET head == DecimalDigits \o Letters \o Blank
      tail == Letters \o Blank
      call == Unmixed(NumOf(SubSeq(bits, 1, 28)), CallBases)
      m    == NumOf(SubSeq(bits, 29, 50))
      lat  == (m \div 128) % 180
      lon  == 179 - (m \div 128) \div 180
      grid == <<65 + lon \div 10, 65 + lat \div 10, 48 + (lon % 10), 48 + (lat % 10)>>
      text == [i \in 1 .. 6 |-> (IF i > 3 THEN tail ELSE head)[call.out[i] + 1]]
  IN  IF call.n # 0 \/ Trimmed(text) = <<>> \/ m % 128 \notin 64 .. 124 \/ m \div 128 >= 180 * 180 THEN Err
      ELSE WsprMessage_new(Trimmed(text), grid, (m % 128) - 64)

-----------------------------------------------------------------------------
(* WSPR on the air: a rate-1/2 code of constraint length 32, and its       *)
(* sequential decoder.                                                     *)

SYMBOL_COUNT == 162
DATA_BITS == 50
DEPTH == SYMBOL_COUNT \div 2

\* The ages of the bits each polynomial adds up, 0 the newest.
TapsOf(hi, lo) == {d \in 0 .. 31 : (FieldOf(hi, 16) \o FieldOf(lo, 16))[32 - d] = 1}
POLY_A == TapsOf(62160, 21329)         \* 0xF2D05351
POLY_B == TapsOf(58465, 15431)         \* 0xE4613C47

\* The bit each polynomial makes of the first n bits of a path.
Coded(poly, bits, n) == Cardinality({d \in poly : d < n /\ bits[n - d] = 1}) % 2

wspr_convolutional_encode(packed) ==
  LET bits == packed \o [i \in 1 .. DEPTH - DATA_BITS |-> 0]
  IN  [i \in 1 .. SYMBOL_COUNT |-> Coded(IF i % 2 = 1 THEN POLY_A ELSE POLY_B, bits, (i + 1) \div 2)]

reverse_bits == [i \in 0 .. 255 |-> NumOf([b \in 1 .. 8 |-> Bit(i, b - 1)])]
Walk == SelectSeq([i \in 1 .. 256 |-> reverse_bits[i - 1]], LAMBDA j : j < SYMBOL_COUNT)
wspr_interleave(coded) == [j \in 1 .. SYMBOL_COUNT |-> coded[CHOOSE k \in 1 .. SYMBOL_COUNT : Walk[k] = j - 1]]
wspr_deinterleave(channel) == [k \in 1 .. SYMBOL_COUNT |-> channel[Walk[k] + 1]]

SYNC_VECTOR ==
  BitsOf(<<192, 142, 37, 224, 37, 2, 205, 26, 26, 169, 44, 106,
           32, 147, 179, 71, 5, 48, 26, 198>>) \o <<0, 0>>
channel_symbols(packed) ==
  LET data == Eager(wspr_interleave(Eager(wspr_convolutional_encode(packed))))
  IN  [i \in 1 .. SYMBOL_COUNT |-> SYNC_VECTOR[i] + 2 * data[i]]

\* try_candidate and bit_metric: what a heard symbol says for a 0 and for a 1.
\* A clear one reaches the clamp; of a faded one both tones are alike.
Faded == 4
bit_metric(symbol) ==
  CASE symbol = Faded -> <<-8, -8>> [] symbol < 2 -> <<8, -64>> [] OTHER -> <<-64, 8>>

FANO_DELTA == 32
\* One visit.  bits is the path; cum and tried have an entry for every depth on
\* it, the one at its end included.
Visit(metrics, st) ==
  LET k     == Len(st.bits)
      branch(u) == LET path == Append(st.bits, u)
                   IN  metrics[2 * k + 1][Coded(POLY_A, path, k + 1) + 1] + metrics[2 * k + 2][Coded(POLY_B, path, k + 1) + 1]
      m     == <<branch(0), branch(1)>>
      best  == IF k < DATA_BITS /\ m[2] > m[1] THEN 1 ELSE 0
      u     == IF st.tried[k + 1] = 0 THEN best ELSE 1 - best
      new_m == st.cum[k + 1] + m[u + 1]
      forward ==
        [st EXCEPT !.bits = Append(@, u), !.cum = Append(@, new_m), !.tried = Append(@, 0),
                   !.phase = IF k + 1 = DEPTH THEN "done" ELSE "look",
                   !.t = IF st.cum[k + 1] < @ + FANO_DELTA THEN @ + FANO_DELTA * ((new_m - @) \div FANO_DELTA) ELSE @]
      back ==
        [st EXCEPT !.bits = Front(@), !.cum = Front(@),
                   !.tried = IF st.tried[k] = 0 /\ k <= DATA_BITS THEN Append(SubSeq(@, 1, k - 1), 1) ELSE Front(@),
                   !.phase = IF st.tried[k] = 0 /\ k <= DATA_BITS THEN "look" ELSE "back"]
      lower == [st EXCEPT !.t = @ - FANO_DELTA, !.tried[k + 1] = 0, !.phase = "look"]
  IN  CASE st.phase = "done" -> st
        [] st.phase = "look" -> IF new_m >= st.t THEN forward ELSE [st EXCEPT !.phase = "back"]
        [] st.phase = "back" -> IF k > 0 /\ st.cum[k] >= st.t THEN back ELSE lower

fano_decode(metrics, node_cap) ==
  LET start == [bits |-> <<>>, cum |-> <<0>>, tried |-> <<0>>, t |-> 0, phase |-> "look"]
      end   == Iterate(LAMBDA st, n : Visit(metrics, st), start, node_cap)
  IN  IF end.phase = "done" THEN Ok(SubSeq(end.bits, 1, DATA_BITS)) ELSE Err

-----------------------------------------------------------------------------
(* FT8                                                                     *)

NTOKENS == 2063592
MAX22 == 4194304
MAXGRID4 == 32400
FREE_TEXT_ALPHABET == Bytes(" 0123456789ABCDEFGHIJKLMNOPQRSTUVWXYZ+-./?")
C28_SETS == <<Blank \o DecimalDigits \o Letters, DecimalDigits \o Letters, DecimalDigits,
              Blank \o Letters, Blank \o Letters, Blank \o Letters>>
Tokens == <<Bytes("DE"), Bytes("QRZ"), Bytes("CQ")>>

\* Mutant: the second character is looked at first.
align_second_first(up) ==
  IF Len(up) \in 2 .. 5 /\ IsDigit(up[2]) THEN Ok(Filled(Blank \o up, 6))
  ELSE IF Len(up) >= 3 /\ IsDigit(up[3]) THEN Ok(Filled(up, 6))
  ELSE Err

align(up) ==
  IF Len(up) >= 3 /\ IsDigit(up[3]) THEN Ok(Filled(up, 6))
  ELSE IF Len(up) \in 2 .. 5 /\ IsDigit(up[2]) THEN Ok(Filled(Blank \o up, 6))
  ELSE Err

pack_c28(call) ==
  LET up == [i \in DOMAIN call |-> ToUpper(call[i])]
      index == [i \in 1 .. 6 |-> Find(C28_SETS[i], align(up).v[i]) - 1]
  IN  IF \E t \in DOMAIN Tokens : Tokens[t] = up THEN Ok(Find(Tokens, up) - 1)
      ELSE IF Len(call) \notin 1 .. 6 \/ Bytes("/")[1] \in Range(call) \/ 32 \in Range(call) THEN Err
      ELSE IF ~align(up).ok \/ \E i \in 1 .. 6 : index[i] < 0 THEN Err
      ELSE Ok(Mixed(index, CallBases) + NTOKENS + MAX22)

unpack_c28(v) ==
  LET index == Unmixed(v - NTOKENS - MAX22, CallBases).out
  IN  IF v < 3 THEN Ok(Tokens[v + 1])
      ELSE IF v < NTOKENS + MAX22 THEN Err
      ELSE Ok(Trimmed([i \in 1 .. 6 |-> C28_SETS[i][index[i] + 1]]))

\* A tail is a word, a report in dB or a locator.
RR73_AS_GRID == 32373
pack_g15(tail) ==
  CASE tail.kind = "none"   -> Ok(MAXGRID4 + 1)
    [] tail.kind = "RRR"    -> Ok(MAXGRID4 + 2)
    [] tail.kind = "RR73"   -> Ok(RR73_AS_GRID)
    [] tail.kind = "73"     -> Ok(MAXGRID4 + 4)
    [] tail.kind = "report" -> IF tail.db \in -30 .. 49 THEN Ok(MAXGRID4 + 35 + tail.db) ELSE Err
    [] tail.kind = "grid"   -> IF Len(tail.grid) # 4 THEN Err
                               ELSE Ok(Mixed([i \in 1 .. 4 |-> tail.grid[i] - (IF i < 3 THEN 65 ELSE 48)],
                                             <<18, 18, 10, 10>>))

standard(call_a, call_b, r, tail) ==
  LET a == pack_c28(call_a)
      b == pack_c28(call_b)
      g == pack_g15(tail)
  IN  IF ~a.ok \/ ~b.ok \/ ~g.ok \/ b.v < NTOKENS + MAX22 \/ (r /\ tail.kind \notin {"grid", "report"}) THEN Err
      ELSE Ok(FieldOf(a.v, 28) \o <<0>> \o FieldOf(b.v, 28) \o <<0, IF r THEN 1 ELSE 0>> \o FieldOf(g.v, 15)
              \o <<0, 0, 1>>)

\* A 72-bit value as three times 24 bits.
Limb == 2 ^ 24
push42(v, index) ==
  LET low == v[3] * 42 + index
      mid == v[2] * 42 + low \div Limb
  IN  <<v[1] * 42 + mid \div Limb, mid % Limb, low % Limb>>
pop42(v) ==
  LET mid == (v[1] % 42) * Limb + v[2]
      low == (mid % 42) * Limb + v[3]
  IN  [v |-> <<v[1] \div 42, mid \div 42, low \div 42>>, index |-> low % 42]

free_text(text) ==
  LET chars == [i \in 1 .. 13 - Len(text) |-> 32] \o [i \in DOMAIN text |-> ToUpper(text[i])]
      value == FoldLeft(LAMBDA v, c : push42(v, Find(FREE_TEXT_ALPHABET, c) - 1), <<0, 0, 0>>, chars)
  IN  IF Len(text) > 13 \/ ~(Range(chars) \subseteq Range(FREE_TEXT_ALPHABET)) THEN Err
      ELSE Ok(From(FieldOf(value[1], 24) \o FieldOf(value[2], 24) \o FieldOf(value[3], 24), 1)
              \o <<0, 0, 0, 0, 0, 0>>)

unpack_free_text(bits) ==
  LET field == <<0>> \o SubSeq(bits, 1, 71)
      next(st, i) == LET got == pop42(st.v)
                     IN  [v |-> got.v, out |-> <<FREE_TEXT_ALPHABET[got.index + 1]>> \o st.out]
      chars == FoldLeft(next, [v |-> <<NumOf(SubSeq(field, 1, 24)), NumOf(SubSeq(field, 25, 48)),
                                      NumOf(SubSeq(field, 49, 72))>>, out |-> <<>>], Counting(1, 13))
  IN  IF From(bits, 71) # <<0, 0, 0, 0, 0, 0>> \/ chars.v # <<0, 0, 0>> THEN Err ELSE Ok(chars.out)

unpack_standard(bits) ==
  LET a == unpack_c28(NumOf(SubSeq(bits, 1, 28)))
      b == unpack_c28(NumOf(SubSeq(bits, 30, 57)))
      r == bits[59] = 1
      g == NumOf(SubSeq(bits, 60, 74))
      locator == Unmixed(g, <<18, 18, 10, 10>>).out
      report == g - MAXGRID4 - 35
      tail == CASE g < MAXGRID4 -> Ok(Bytes(IF r THEN " R " ELSE " ")
                                      \o [i \in 1 .. 4 |-> locator[i] + (IF i < 3 THEN 65 ELSE 48)])
                [] g = MAXGRID4 + 1 -> Ok(<<>>)
                [] g = MAXGRID4 + 2 -> Ok(Bytes(" RRR"))
                [] g = MAXGRID4 + 3 -> Ok(Bytes(" RR73"))
                [] g = MAXGRID4 + 4 -> Ok(Bytes(" 73"))
                [] report \in -30 .. 49 -> Ok(Bytes(IF r THEN " R" ELSE " ") \o Bytes(IF report < 0 THEN "-" ELSE "+")
                                              \o Digits(IF report < 0 THEN -report ELSE report, 2))
                [] OTHER -> Err
  IN  IF bits[29] # 0 \/ bits[58] # 0 \/ ~a.ok \/ ~b.ok \/ ~tail.ok THEN Err
      ELSE Ok(a.v \o Blank \o b.v \o tail.v)

unpack_message(bits) ==
  CASE From(bits, 74) = <<0, 0, 0>> -> LET chars == unpack_free_text(bits)
                                       IN  IF chars.ok THEN Ok(Trimmed(chars.v)) ELSE Err
    [] From(bits, 74) = <<0, 0, 1>> -> unpack_standard(bits)
    [] OTHER -> Err

CRC_POLY == FieldOf(10071, 14)         \* 0x2757
crc14(payload) ==
  LET shift(reg, bit) == LET out == (reg[1] + bit) % 2
                         IN  Eager([i \in 1 .. 14 |-> ((IF i < 14 THEN reg[i + 1] ELSE 0) + out * CRC_POLY[i]) % 2])
      over(bits) == Iterate(LAMBDA reg, t : shift(reg, bits[t]), [i \in 1 .. 14 |-> 0], 82)
  IN  Given(payload \o <<0, 0, 0, 0, 0>>, over)
add_crc(payload) == payload \o crc14(payload)
verify_crc(message) ==
  LET payload == SubSeq(message, 1, 77)
  IN  IF crc14(payload) = From(message, 77) THEN Ok(payload) ELSE Err

-----------------------------------------------------------------------------
(* One message from its fields to the far end's screen                     *)

CONSTANTS WeakMessages,     \* [mode, ...]: what an operator asks for
          WeakBurst,        \* bits or symbols wrong in one message, at most, in a row
          WeakFade,         \* symbols of which nothing is heard, in a row
          WeakSpots,        \* symbols at which either begins
          WeakVisits        \* fano_cap

VARIABLES weak_sent,        \* the message
          weak_fate,        \* "unsent", "mended" by the channel decoder, or "garbled" behind it
          weak_air,         \* the bits the channel decoder hands on, if it does
          weak_shown        \* what is made of them

weakVars == <<weak_sent, weak_fate, weak_air, weak_shown>>

\* The packed bits, if the message is accepted.
Encoded(msg) ==
  CASE msg.mode = "wspr" -> Then(WsprMessage_new(msg.call, msg.grid, msg.power), LAMBDA made : Ok(wspr_pack(made)))
    [] msg.mode = "standard" -> Then(standard(msg.call_a, msg.call_b, msg.r, msg.tail), LAMBDA made : Ok(add_crc(made)))
    [] msg.mode = "free" -> Then(free_text(msg.text), LAMBDA made : Ok(add_crc(made)))

Shown(msg, bits) ==
  IF msg.mode = "wspr" THEN wspr_unpack(bits)
  ELSE IF verify_crc(bits).ok THEN unpack_message(verify_crc(bits).v) ELSE Err

WeakInit ==
  /\ weak_sent \in WeakMessages
  /\ weak_fate = "unsent" /\ weak_air = Err /\ weak_shown = Err

\* The symbols as heard: a fade, or the other tone of the pair for a few.
Heard(symbols) ==
  {Eager([i \in DOMAIN symbols |-> IF i \in at .. at + WeakFade - 1 THEN Faded ELSE symbols[i]]) : at \in WeakSpots}
    \cup {Eager([i \in DOMAIN symbols |-> IF i \in at .. at + n - 1 THEN (symbols[i] + 2) % 4 ELSE symbols[i]]) :
            at \in WeakSpots, n \in 0 .. WeakBurst}

\* What the channel decoder makes of a transmission heard like that.
HandedOn(msg, bits) ==
  IF msg.mode # "wspr" THEN {Ok(bits)}
  ELSE {fano_decode(Eager(wspr_deinterleave([i \in DOMAIN heard |-> bit_metric(heard[i])])), WeakVisits) :
          heard \in Heard(Eager(channel_symbols(bits)))}

WeakSend ==
  /\ weak_fate = "unsent" /\ Encoded(weak_sent).ok
  /\ \E bits \in {Eager(Encoded(weak_sent).v)} :
        \/ weak_fate' = "mended" /\ weak_air' \in HandedOn(weak_sent, bits)
        \/ \E i \in DOMAIN bits, n \in 1 .. WeakBurst :
              /\ weak_fate' = "garbled"
              /\ weak_air' = Ok(Eager([k \in DOMAIN bits |-> IF k \in i .. i + n - 1 THEN 1 - bits[k] ELSE bits[k]]))
  /\ weak_shown' = Then(weak_air', LAMBDA bits : Shown(weak_sent, bits))
  /\ UNCHANGED weak_sent

WeakSpec == WeakInit /\ [][WeakSend]_weakVars

\* The text of an accepted message, spelled from its fields.
Spelled(msg) ==
  LET upper(s) == [i \in DOMAIN s |-> ToUpper(s[i])]
      sign == Bytes(IF msg.tail.db < 0 THEN "-" ELSE "+")
      size == IF msg.tail.db < 0 THEN -msg.tail.db ELSE msg.tail.db
      tail == CASE msg.tail.kind = "none" -> <<>>
                [] msg.tail.kind = "grid" -> Blank \o (IF msg.r THEN Bytes("R ") ELSE <<>>) \o msg.tail.grid
                [] msg.tail.kind = "report" -> Blank \o (IF msg.r THEN Bytes("R") ELSE <<>>) \o sign \o Digits(size, 2)
                [] OTHER -> Blank \o Bytes(msg.tail.kind)
  IN  IF msg.mode = "free" THEN Trimmed(upper(msg.text))
      ELSE upper(msg.call_a) \o Blank \o upper(msg.call_b) \o tail

\* unpack_message, WsprMessage::unpack and fano_decode (ft8.rs:869-873,
\* wspr.rs:414-418, 712-835): the exact inverse of the constructors.  A WSPR
\* message comes through a fade or a run of wrong symbols whole; bits garbled
\* behind the channel decoder are never shown in FT8, and in WSPR only as a
\* message that packs to just those bits; and the two modes accept the same
\* callsigns.
ShownIsSent ==
  /\ weak_fate # "unsent" /\ weak_sent.mode = "wspr" =>
       IF weak_fate = "garbled" THEN weak_shown.ok => wspr_pack(weak_shown.v) = weak_air.v
       ELSE weak_shown = WsprMessage_new(weak_sent.call, weak_sent.grid, weak_sent.power)
  /\ weak_fate # "unsent" /\ weak_sent.mode # "wspr" =>
       weak_shown = IF weak_fate = "garbled" THEN Err ELSE Ok(Spelled(weak_sent))
  /\ weak_sent.mode = "wspr" =>
       LET c28 == pack_c28(weak_sent.call)
       IN  normalize_callsign(weak_sent.call).ok <=> (c28.ok /\ c28.v >= NTOKENS + MAX22)
=============================================================================
