-------------------------------- MODULE M17 --------------------------------
(***************************************************************************)
(* src/src/m17.rs and m17/fec.rs: M17 packet mode.  A transmission is a    *)
(* link setup frame (LSF), packet frames of 25 bytes, and an end marker,   *)
(* each behind a sync burst of 16 bits; a frame is 368 bits of a punctured *)
(* convolutional code.  An LSF ends in a CRC of its own, a payload in one  *)
(* that runs across its frames.                                            *)
(***************************************************************************)
EXTENDS Text

-----------------------------------------------------------------------------
(* CRC and addresses                                                       *)

CRC16_POLY == FieldOf(22837, 16)       \* 0x5935
CRC16_INIT == [i \in 1 .. 16 |-> 1]
m17_crc16(bytes) ==
  LET shift(reg, bit) ==
        LET carry == (reg[1] + bit) % 2
        IN  Eager([i \in 1 .. 16 |-> ((IF i < 16 THEN reg[i + 1] ELSE 0) + carry * CRC16_POLY[i]) % 2])
      over(bits) == Iterate(LAMBDA reg, t : shift(reg, bits[t]), CRC16_INIT, Len(bits))
  IN  BytesOf(Given(Eager(BitsOf(bytes)), over))

BASE40 == Bytes(" ABCDEFGHIJKLMNOPQRSTUVWXYZ0123456789-/.")

\* A 48-bit value as its upper and lower 24 bits.
Half == 2 ^ 24
Address48(hi, lo) == [hi |-> hi, lo |-> lo]
BROADCAST_ADDRESS == Address48(Half - 1, Half - 1)
Reserved(a) == a = Address48(0, 0) \/ (a.hi >= 15625000 /\ a # BROADCAST_ADDRESS)    \* 40^9 = 15625000 * 2^24

from_callsign(call) ==
  LET index(b) == Find(BASE40, ToUpper(b)) - 1
      push40(b, a) == LET lo == a.lo * 40 + index(b)
                      IN  Address48(a.hi * 40 + lo \div Half, lo % Half)
  IN  IF Len(call) \notin 1 .. 9 \/ \E i \in DOMAIN call : index(call[i]) < 1 THEN Err
      ELSE Ok(FoldRight(push40, call, Address48(0, 0)))

from_raw(a) == IF Reserved(a) THEN Err ELSE Ok(a)

callsign(a) ==
  LET next(st, i) ==
        LET lo == (st.a.hi % 40) * Half + st.a.lo
        IN  IF st.a = Address48(0, 0) THEN st
            ELSE [a |-> Address48(st.a.hi \div 40, lo \div 40), text |-> Append(st.text, BASE40[(lo % 40) + 1])]
  IN  IF a = BROADCAST_ADDRESS THEN Bytes("@ALL")
      ELSE FoldLeft(next, [a |-> a, text |-> <<>>], Counting(1, 9)).text

AddressBits(a) == FieldOf(a.hi, 24) \o FieldOf(a.lo, 24)
AddressOf(bits) == Address48(NumOf(SubSeq(bits, 1, 24)), NumOf(SubSeq(bits, 25, 48)))

-----------------------------------------------------------------------------
(* Link setup frames and packet frames                                     *)

LSF_BYTES == 30

\* The type is packet mode, data, and the channel access number from bit 7.
packet_data(dst, src, can) == [dst |-> dst, src |-> src, type |-> 2 + (can % 16) * 128,
                               meta |-> [i \in 1 .. 14 |-> 0]]

lsf_to_bytes(lsf) ==
  LET covered == BytesOf(AddressBits(lsf.dst) \o AddressBits(lsf.src) \o FieldOf(lsf.type, 16)) \o lsf.meta
  IN  covered \o m17_crc16(covered)

lsf_from_bytes(bytes) ==
  LET covered == SubSeq(bytes, 1, LSF_BYTES - 2)
      bits    == BitsOf(SubSeq(bytes, 1, 14))
      dst     == from_raw(AddressOf(SubSeq(bits, 1, 48)))
      src     == from_raw(AddressOf(SubSeq(bits, 49, 96)))
  IN  IF m17_crc16(covered) # From(bytes, LSF_BYTES - 2) \/ ~dst.ok \/ ~src.ok THEN Err
      ELSE Ok([dst |-> dst.v, src |-> src.v, type |-> NumOf(SubSeq(bits, 97, 112)), meta |-> From(covered, 14)])

PACKET_FRAME_PAYLOAD == 25
MAX_PACKET_PAYLOAD == 33 * PACKET_FRAME_PAYLOAD - 2

\* 25 bytes, the EOF flag and the counter.
to_content(frame) == BitsOf(frame.data) \o <<IF frame.eof THEN 1 ELSE 0>> \o FieldOf(frame.counter, 5)
from_content(bits) == [data |-> Eager(BytesOf(SubSeq(bits, 1, 200))), eof |-> bits[201] = 1,
                       counter |-> NumOf(SubSeq(bits, 202, 206))]

-----------------------------------------------------------------------------
(* Channel coding                                                          *)

CONV_FLUSH_BITS == 4
CONV_G1 == <<1, 0, 0, 1, 1>>      \* taps from the newest bit to the oldest
CONV_G2 == <<1, 1, 1, 0, 1>>
Parity(taps_, window) == (taps_[1] * window[1] + taps_[2] * window[2] + taps_[3] * window[3]
                            + taps_[4] * window[4] + taps_[5] * window[5]) % 2

convolutional_encode(bits) ==
  LET at(i) == IF i \in DOMAIN bits THEN bits[i] ELSE 0
      window(t) == <<at(t), at(t - 1), at(t - 2), at(t - 3), at(t - 4)>>
  IN  [k \in 1 .. 2 * (Len(bits) + CONV_FLUSH_BITS) |->
         Parity(IF k % 2 = 1 THEN CONV_G1 ELSE CONV_G2, window((k + 1) \div 2))]

PUNCTURE_P1 == [i \in 1 .. 61 |-> IF i > 1 /\ i % 4 = 3 THEN 0 ELSE 1]
PUNCTURE_P3 == <<1, 1, 1, 1, 1, 1, 1, 0>>
Keeps(pattern, i) == pattern[((i - 1) % Len(pattern)) + 1] = 1

puncture(bits, pattern) ==
  LET keep(kept, i) == IF Keeps(pattern, i) THEN Append(kept, bits[i]) ELSE kept
  IN  Iterate(keep, <<>>, Len(bits))

\* The erased positions hold 2.
Erased == 2
depuncture(bits, pattern, n) ==
  LET place(st, i) == IF Keeps(pattern, i) /\ st.used < Len(bits)
                      THEN [got |-> Append(st.got, bits[st.used + 1]), used |-> st.used + 1]
                      ELSE [st EXCEPT !.got = Append(@, Erased)]
  IN  Iterate(place, [got |-> <<>>, used |-> 0], n).got

\* The 16 states are the last four bits, the newest the lowest; a state has two
\* predecessors, which differ in their oldest bit h.
Expected == [w \in 0 .. 31 |-> LET window == [i \in 1 .. 5 |-> Bit(w, i - 1)]
                               IN  <<Parity(CONV_G1, window), Parity(CONV_G2, window)>>]
INF == 10000
Mismatch(got, want) == IF got # Erased /\ got # want THEN 1 ELSE 0

viterbi_decode(bits, n) ==
  LET cost(pm, t, ns, h) ==
        LET ps == ns \div 2 + 8 * h
            w  == Expected[(2 * ps) + (ns % 2)]
        IN  IF pm[ps + 1] >= INF THEN INF
            ELSE pm[ps + 1] + Mismatch(bits[2 * t - 1], w[1]) + Mismatch(bits[2 * t], w[2])
      step(st, t) ==
        LET c0 == Eager([i \in 1 .. 16 |-> cost(st.pm, t, i - 1, 0)])
            c1 == Eager([i \in 1 .. 16 |-> cost(st.pm, t, i - 1, 1)])
        IN  [pm   |-> Eager([i \in 1 .. 16 |-> IF c1[i] < c0[i] THEN c1[i] ELSE c0[i]]),
             from |-> Append(st.from, Eager([i \in 1 .. 16 |-> IF c1[i] < c0[i] THEN 1 ELSE 0]))]
      len == n + CONV_FLUSH_BITS
      paths == Iterate(step, [pm |-> [i \in 1 .. 16 |-> IF i = 1 THEN 0 ELSE INF], from |-> <<>>], len).from
      back(st, k) == LET t == len + 1 - k
                     IN  [state |-> st.state \div 2 + 8 * paths[t][st.state + 1],
                          got   |-> <<st.state % 2>> \o st.got]
  IN  SubSeq(Iterate(back, [state |-> 0, got |-> <<>>], len).got, 1, n)

FRAME_BITS == 368
interleave_index == [i \in 0 .. FRAME_BITS - 1 |-> ((45 * i) + (92 * i * i)) % FRAME_BITS]
Source_of == [j \in 0 .. FRAME_BITS - 1 |-> CHOOSE i \in 0 .. FRAME_BITS - 1 : interleave_index[i] = j]
m17_interleave(bits) == [j \in 1 .. FRAME_BITS |-> bits[Source_of[j - 1] + 1]]
m17_deinterleave(bits) == [i \in 1 .. FRAME_BITS |-> bits[interleave_index[i - 1] + 1]]

RAND_SEQ == BitsOf(<< 214, 181, 226, 48, 130, 255, 132, 98, 186, 78, 150, 144, 216, 152, 221, 93,
                      12, 200, 82, 67, 145, 29, 248, 110, 104, 47, 53, 218, 20, 234, 205, 118,
                      25, 141, 213, 128, 209, 51, 135, 19, 87, 24, 45, 41, 120, 195 >>)
randomize(bits) == [i \in 1 .. FRAME_BITS |-> (bits[i] + RAND_SEQ[i]) % 2]

\* packet_frame_encode, lsf_encode, and back.
OnChannel(content, pattern) == randomize(m17_interleave(puncture(convolutional_encode(content), pattern)))
OffChannel(bits, pattern, n) ==
  LET spread(got) == depuncture(got, pattern, 2 * (n + CONV_FLUSH_BITS))
      frame == Given(Eager(randomize(bits)), m17_deinterleave)
  IN  Given(Given(Eager(frame), spread), LAMBDA got : viterbi_decode(got, n))
packet_frame_encode(frame) == OnChannel(to_content(frame), PUNCTURE_P3)
packet_frame_decode(bits) == from_content(OffChannel(bits, PUNCTURE_P3, 206))
lsf_encode(lsf) == OnChannel(BitsOf(lsf_to_bytes(lsf)), PUNCTURE_P1)
lsf_decode(bits) == lsf_from_bytes(BytesOf(OffChannel(bits, PUNCTURE_P1, 240)))

-----------------------------------------------------------------------------
(* The transmitter's frames                                                *)

SYNC_LSF == FieldOf(22007, 16)         \* 0x55F7
SYNC_PACKET == FieldOf(30207, 16)      \* 0x75FF
EOT_MARKER == FieldOf(21853, 16)       \* 0x555D

\* M17PacketTx: what load_next_frame loads, one after the other, and the marker.
PacketFrame(rest, k) ==
  LET take == Min({Len(rest), PACKET_FRAME_PAYLOAD})
      last == Len(rest) <= PACKET_FRAME_PAYLOAD
  IN  [data |-> Eager([i \in 1 .. PACKET_FRAME_PAYLOAD |-> IF i <= take THEN rest[i] ELSE 0]),
       eof |-> last, counter |-> IF last THEN take ELSE (k - 1) % 32]
PacketFrames(payload) ==
  With(payload \o m17_crc16(payload), LAMBDA stream :
    [k \in 1 .. (Len(stream) + PACKET_FRAME_PAYLOAD - 1) \div PACKET_FRAME_PAYLOAD |->
       PacketFrame(From(stream, (k - 1) * PACKET_FRAME_PAYLOAD), k)])

\* M17PacketTx over the air, cut into units of 192 symbols: 16 bits of sync or
\* marker, and 368 more.
Burst(lsf, payload) ==
  LET unit(frame) == [sync |-> SYNC_PACKET, bits |-> Eager(packet_frame_encode(frame))]
  IN  <<[sync |-> SYNC_LSF, bits |-> Eager(lsf_encode(lsf))]>>
        \o With(PacketFrames(payload), LAMBDA packets : [k \in DOMAIN packets |-> unit(packets[k])])
        \o <<[sync |-> EOT_MARKER, bits |-> Eager([i \in 1 .. FRAME_BITS |-> EOT_MARKER[((i - 1) % 16) + 1]])]>>

-----------------------------------------------------------------------------
(* PacketAssembler                                                         *)

NoLsf == "none"
assembler_new == [buf |-> <<>>, frames |-> 0, active |-> FALSE, lsf |-> NoLsf]

\* Mutant: an unfinished superframe stays in the buffer.
start_onto(asm, lsf) == [asm EXCEPT !.frames = 0, !.active = TRUE, !.lsf = lsf]

start(asm, lsf) == [buf |-> <<>>, frames |-> 0, active |-> TRUE, lsf |-> lsf]

\* [asm, got]: got is the payload, if this frame ends one.
feed(asm, frame) ==
  LET take == Max({1, Min({frame.counter, PACKET_FRAME_PAYLOAD})})
      buf  == asm.buf \o SubSeq(frame.data, 1, take)
      payload == SubSeq(buf, 1, Len(buf) - 2)
      stopped == [asm EXCEPT !.active = FALSE]
      room == 33 * PACKET_FRAME_PAYLOAD
  IN  IF ~asm.active THEN [asm |-> asm, got |-> <<>>]
      ELSE IF frame.eof
      THEN [asm |-> stopped,
            got |-> IF Len(buf) \in 2 .. room /\ m17_crc16(payload) = From(buf, Len(buf) - 2)
                    THEN <<payload>> ELSE <<>>]
      ELSE IF frame.counter # asm.frames % 32 \/ Len(asm.buf) + PACKET_FRAME_PAYLOAD >= room
      THEN [asm |-> stopped, got |-> <<>>]
      ELSE [asm |-> [asm EXCEPT !.buf = @ \o frame.data, !.frames = @ + 1], got |-> <<>>]

-----------------------------------------------------------------------------
(* A conversation: transmissions one after the other, with silence between *)
(* them, each unit heard as it was sent or damaged.                        *)

CONSTANTS M17Talks,      \* the conversations: sequences of [lsf, payload]
          M17Damage      \* units damaged in one conversation, at most

\* What a unit goes through: the sync bits flipped and the frame bits flipped.
\* Two scattered frame bits are mended, a run of sixty is not.  Bit 9 of a sync
\* leaves it nearest itself, bit 3 as near to the other one (SYNC_LSF and
\* SYNC_PACKET differ in bits 3 and 13).
Clean == [sync |-> {}, bits |-> {}]
Speck == [sync |-> {}, bits |-> {100, 250}]
Slip == [sync |-> {9}, bits |-> {}]
Harms == {Speck, Slip, [sync |-> {3}, bits |-> {}], [sync |-> {1, 5, 9, 11}, bits |-> {}],
            [sync |-> {}, bits |-> 101 .. 160]}
Flip(bits, at) == Eager([i \in DOMAIN bits |-> IF i \in at THEN 1 - bits[i] ELSE bits[i]])

\* A symbol of no signal slices to -1, the dibit 10.
NoCarrier == [sync |-> [i \in 1 .. 16 |-> i % 2], bits |-> [i \in 1 .. FRAME_BITS |-> i % 2]]

M17Messages == UNION {Range(talk) : talk \in M17Talks}
M17Air == Tabled([m \in M17Messages |-> Burst(m.lsf, m.payload)])
M17Units == UNION {Range(M17Air[m]) : m \in M17Messages} \cup {NoCarrier}
Flips == {d.bits : d \in Harms}
AsLsf == Tabled([u \in M17Units |-> Tabled([f \in Flips |-> lsf_decode(Flip(u.bits, f))])])
AsPacket == Tabled([u \in M17Units |-> Tabled([f \in Flips |-> packet_frame_decode(Flip(u.bits, f))])])

VARIABLES
  m17_talk,     \* the conversation
  m17_at,       \* the next unit: <<transmission, unit>>
  m17_cut,      \* the carrier of this transmission is gone
  m17_spent,    \* units damaged
  m17_rx,       \* "hunt", or "expect_sync" in lockstep behind a frame
  m17_asm,      \* the assembler of `yodel m17 decode`
  m17_out,      \* what it printed: [payload, lsf]
  m17_hurt,     \* transmissions a unit of which was not readable
  m17_opened    \* transmissions whose LSF was decoded

m17Vars == <<m17_talk, m17_at, m17_cut, m17_spent, m17_rx, m17_asm, m17_out, m17_hurt, m17_opened>>

M17Init ==
  /\ m17_talk \in M17Talks
  /\ m17_at = <<1, 1>> /\ m17_cut = FALSE /\ m17_spent = 0
  /\ m17_rx = "hunt" /\ m17_asm = assembler_new
  /\ m17_out = <<>> /\ m17_hurt = {} /\ m17_opened = {}

Distance(a, b) == Cardinality({i \in DOMAIN a : a[i] # b[i]})

\* The frame push_i16 collects behind these sync bits: "lsf", "packet" or "none".
\* Hunting, every symbol must be right; in lockstep three bits may be wrong.
sync_read(rx, sync) ==
  LET d_lsf == Distance(sync, SYNC_LSF)
      d_pkt == Distance(sync, SYNC_PACKET)
      tolerance == IF rx = "hunt" THEN 0 ELSE 3
  IN  IF d_lsf <= tolerance /\ d_lsf <= d_pkt THEN "lsf" ELSE IF d_pkt <= tolerance THEN "packet" ELSE "none"

\* What `yodel m17 decode` makes of an LSF, and of a packet frame.
M17Opens(lsf) ==
  IF lsf.ok
  THEN m17_asm' = start(m17_asm, lsf.v) /\ m17_opened' = m17_opened \cup {m17_at[1]} /\ UNCHANGED m17_out
  ELSE UNCHANGED <<m17_asm, m17_out, m17_opened>>
M17Feeds(fed) ==
  /\ m17_asm' = fed.asm /\ UNCHANGED m17_opened
  /\ m17_out' = m17_out \o [i \in DOMAIN fed.got |-> [payload |-> fed.got[i], lsf |-> m17_asm.lsf]]

\* push_i16 over a unit, and the loop of `yodel m17 decode` on its event.
push_unit(unit, damage) ==
  \E kind \in {sync_read(m17_rx, Flip(unit.sync, damage.sync))} :
    /\ m17_rx' = IF kind = "none" THEN "hunt" ELSE "expect_sync"
    /\ CASE kind = "lsf" -> M17Opens(AsLsf[unit][damage.bits])
         [] kind = "packet" -> M17Feeds(feed(m17_asm, AsPacket[unit][damage.bits]))
         [] OTHER -> UNCHANGED <<m17_asm, m17_out, m17_opened>>

\* The next unit of transmission t.  Behind the end marker come the filter
\* flush and the next preamble, in which no sync is found.
M17Unit(units, t, i) ==
  /\ m17_at' = IF i <= Len(units) THEN <<t, i + 1>> ELSE <<t + 1, 1>>
  /\ \E damage \in Harms \cup {Clean}, cut \in BOOLEAN :
       /\ m17_cut => cut
       /\ cut => damage = Clean
       /\ m17_spent' = m17_spent + (IF damage # Clean \/ (cut /\ ~m17_cut /\ i <= Len(units)) THEN 1 ELSE 0)
       /\ m17_spent' <= M17Damage
       /\ m17_cut' = (cut /\ i <= Len(units))
       /\ push_unit(IF cut \/ i > Len(units) THEN NoCarrier ELSE units[i], damage)
       /\ m17_hurt' = IF i < Len(units) /\ (cut \/ damage \notin {Clean, Speck, Slip} \/ (damage = Slip /\ i = 1))
                      THEN m17_hurt \cup {t} ELSE m17_hurt
  /\ UNCHANGED m17_talk

M17Hear ==
  /\ m17_at[1] \in DOMAIN m17_talk
  /\ M17Unit(M17Air[m17_talk[m17_at[1]]], m17_at[1], m17_at[2])

M17Spec == M17Init /\ [][M17Hear]_m17Vars

\* M17FrameEvent and PacketAssembler (m17.rs:774-784, 1064-1071): frames are
\* passed on unverified and transmissions may be cut short, run into one
\* another's leftovers or lose their end marker; still every payload handed out
\* is one that was sent, at most once, and under its own LSF when that was read,
\* and a transmission whose units could all be read is never lost to what came
\* before it.
PacketsIntact ==
  LET printed(t) == {i \in DOMAIN m17_out : m17_out[i].payload = m17_talk[t].payload}
  IN  /\ \A i \in DOMAIN m17_out : \E t \in DOMAIN m17_talk : i \in printed(t)
      /\ \A t \in DOMAIN m17_talk :
           /\ Cardinality(printed(t)) <= 1
           /\ t \in m17_opened => \A i \in printed(t) : m17_out[i].lsf = m17_talk[t].lsf
           /\ t < m17_at[1] /\ t \notin m17_hurt => printed(t) # {}
=============================================================================
