-------------------------------- MODULE Il2p --------------------------------
(***************************************************************************)
(* src/src/il2p.rs: IL2P frames.  A frame is a sync word, a 13-byte header *)
(* with two parity bytes, and the payload in blocks with parity of their   *)
(* own; header and blocks are scrambled one by one.  Bytes go out most     *)
(* significant bit first, and the receiver hunts for the sync word at      *)
(* every bit.                                                              *)
(***************************************************************************)
EXTENDS Ax25, ReedSolomon

CONSTANTS MAX_BLOCK_DATA,             \* data bytes of a block at the maximum FEC level: 239 in the code
          MAX_BASELINE_BLOCK_DATA     \* and at the baseline level: 247

SYNC_BYTES == <<241, 94, 72>>
SYNC_TOLERANCE == 1
PREAMBLE_BYTE == 85
HEADER_LEN == 13
HEADER_PARITY_LEN == 2
HDR_BLOCK == HEADER_LEN + HEADER_PARITY_LEN
PAYLOAD_MAX == 1023
ENCODED_MAX == Len(SYNC_BYTES) + HDR_BLOCK + PAYLOAD_MAX + 5 * 16
RX_FRAME_MAX == ENCODED_MAX - Len(SYNC_BYTES)

-----------------------------------------------------------------------------
(* The scrambler, x^9 + x^4 + 1: state is the last nine line bits, the      *)
(* latest first                                                             *)

SCRAMBLER_SEED == [i \in 1 .. 9 |-> 1]

\* Il2pScrambler, a byte at a time: each bit is added to the line bits four and
\* nine before it (lfsr_taps).  The line carries what scramble puts out and what
\* descramble takes in.
Lfsr(bytes, descrambling) ==
  LET step(st, byte) ==
        LET taken == FieldOf(byte, 8)
            early == [i \in 1 .. 4 |-> (taken[i] + st.state[5 - i] + st.state[10 - i]) % 2]
            late  == [i \in 1 .. 4 |-> (taken[4 + i] + (IF descrambling THEN taken ELSE early)[i]
                                         + st.state[6 - i]) % 2]
            line  == IF descrambling THEN taken ELSE early \o late
        IN  [st EXCEPT !.state = Reverse(line) \o <<@[1]>>, !.out = Append(@, NumOf(early \o late))]
  IN  FoldLeft(step, [state |-> SCRAMBLER_SEED, out |-> <<>>], bytes).out
scramble(bytes) == Lfsr(bytes, FALSE)
descramble(bytes) == Lfsr(bytes, TRUE)

-----------------------------------------------------------------------------
(* Headers: [translated, len] and, when translated, dest, src, pid, command *)

PID_TABLE == << <<2, 32>>, <<3, 1>>, <<4, 6>>, <<5, 7>>, <<6, 8>>,
                <<11, 204>>, <<12, 205>>, <<13, 206>>, <<14, 207>>, <<15, 240>> >>
pid_to_code(pid) == {e[1] : e \in {e \in Range(PID_TABLE) : e[2] = pid}}
code_to_pid(code) == {e[2] : e \in {e \in Range(PID_TABLE) : e[1] = code}}

CONTROL_UI_OPCODE == 40
CONTROL_UI_COMMAND == 44

pack_callsign(call) == [i \in 1 .. 6 |-> (as_padded(call)[i] - 32) % 64]

\* Il2pHeader::pack.  Bit 7 of the bytes holds the FEC level, the type and the
\* length, bit 6 the UI flag, the pid and the control field, the rest the calls.
pack(h, max_fec) ==
  LET codes == pid_to_code(h.pid)
      bit7  == <<IF max_fec THEN 1 ELSE 0, IF h.translated THEN 1 ELSE 0>> \o FieldOf(h.len, 10)
      bit6  == <<1>> \o FieldOf(CHOOSE c \in codes : TRUE, 4)
                 \o FieldOf(IF h.command THEN CONTROL_UI_COMMAND ELSE CONTROL_UI_OPCODE, 7)
      low   == pack_callsign(h.dest.call) \o pack_callsign(h.src.call)
  IN  IF ~h.translated THEN Ok([i \in 1 .. 12 |-> 128 * bit7[i]] \o <<0>>)
      ELSE IF codes = {} THEN Err
      ELSE Ok([i \in 1 .. 12 |-> 128 * bit7[i] + 64 * bit6[i] + low[i]]
                \o <<16 * h.dest.ssid + h.src.ssid>>)

unpack_callsign(low) == TrimEnd([i \in 1 .. 6 |-> (low[i] % 64) + 32])

\* Il2pHeader::unpack: a UI frame, whatever its poll and command bits.
unpack(b) ==
  LET field(from, w, k) == NumOf([i \in 1 .. w |-> Bit(b[from + i], k)])
      control == field(5, 7, 6)
      pids    == code_to_pid(field(1, 4, 6))
      dest    == Address(unpack_callsign(SubSeq(b, 1, 6)), b[13] \div 16)
      src     == Address(unpack_callsign(SubSeq(b, 7, 12)), b[13] % 16)
  IN  IF b[2] < 128 THEN Ok([translated |-> FALSE, len |-> field(2, 10, 7)])
      ELSE IF \/ Bit(b[1], 6) = 0 \/ (control \div 8) % 8 # CONTROL_UI_OPCODE \div 8
              \/ pids = {} \/ ~dest.ok \/ ~src.ok
      THEN Err
      ELSE Ok([translated |-> TRUE, len |-> field(2, 10, 7), pid |-> CHOOSE p \in pids : TRUE,
               dest |-> dest.v, src |-> src.v, command |-> Bit(control, 2) = 1])

-----------------------------------------------------------------------------
(* The payload's blocks                                                     *)

block_count_for(len, max_fec) ==
  LET most == IF max_fec THEN MAX_BLOCK_DATA ELSE MAX_BASELINE_BLOCK_DATA
  IN  (len + most - 1) \div most

baseline_for_block(size) == IF size <= 61 THEN 2 ELSE IF size <= 123 THEN 4 ELSE IF size <= 185 THEN 6 ELSE 8

payload_parity(len, max_fec) ==
  LET blocks == block_count_for(len, max_fec)
  IN  IF max_fec THEN 16 ELSE IF blocks = 0 THEN 2 ELSE baseline_for_block(len \div blocks)

payload_wire_len(len, max_fec) ==
  len + block_count_for(len, max_fec) * payload_parity(len, max_fec)
encoded_len(len, max_fec) == Len(SYNC_BYTES) + HDR_BLOCK + payload_wire_len(len, max_fec)

\* Data bytes of block i: the first len % blocks blocks hold one more.
block_size(len, blocks, i) == len \div blocks + (IF i <= len % blocks THEN 1 ELSE 0)
block_start(len, blocks, i) == (i - 1) * (len \div blocks) + Min({i - 1, len % blocks})

header_codec == [parity |-> HEADER_PARITY_LEN, fcr |-> 0]
block_codec(parity) == [parity |-> parity, fcr |-> 0]

WithParity(codec, data) == data \o rs_encode(codec, data).v

\* encode: sync word, header, blocks.
il2p_encode(h, payload, max_fec) ==
  LET packed == pack(h, max_fec)
      n      == block_count_for(Len(payload), max_fec)
      codec  == block_codec(payload_parity(Len(payload), max_fec))
      block(i) == scramble(Slice(payload, block_start(Len(payload), n, i), block_size(Len(payload), n, i)))
  IN  IF Len(payload) > PAYLOAD_MAX \/ ~packed.ok THEN Err
      ELSE Ok(SYNC_BYTES \o WithParity(header_codec, scramble(packed.v))
                \o FlattenSeq([i \in 1 .. n |-> WithParity(codec, block(i))]))

\* encode_raw, and encode_ui_frame: a frame without hops needs no AX.25 header.
encode_raw(payload, max_fec) == il2p_encode([translated |-> FALSE, len |-> Len(payload)], payload, max_fec)
encode_ui_frame(f, max_fec) ==
  IF f.hops # <<>> THEN encode_raw(build_frame(f), max_fec)
  ELSE il2p_encode([translated |-> TRUE, len |-> Len(f.info), dest |-> f.dest, src |-> f.src,
                    pid |-> PID_NO_LAYER3, command |-> TRUE], f.info, max_fec)

\* The header of a received frame, its one bad byte corrected.
peek_header(bytes) ==
  LET read(plain) == Then(unpack(plain), LAMBDA h : Ok([header |-> h, max_fec |-> plain[1] >= 128]))
  IN  Then(rs_decode(header_codec, SubSeq(bytes, 1, HDR_BLOCK)),
           LAMBDA fixed : read(descramble(SubSeq(fixed.block, 1, HEADER_LEN))))

\* The payload of len bytes in n blocks of that parity.
il2p_payload(bytes, len, n, parity) ==
  LET block(i) == Slice(bytes, HDR_BLOCK + block_start(len, n, i) + (i - 1) * parity, block_size(len, n, i) + parity)
      join(fixed) ==
        IF \E i \in 1 .. n : ~fixed[i].ok THEN Err
        ELSE Ok(FlattenSeq([i \in 1 .. n |-> descramble(SubSeq(fixed[i].v.block, 1, block_size(len, n, i)))]))
  IN  join([i \in 1 .. n |-> rs_decode(block_codec(parity), block(i))])

\* decode: the level is the header's, whatever the caller was set to.
il2p_decode(bytes) ==
  LET take(len, max_fec) ==
        IF Len(bytes) < HDR_BLOCK + payload_wire_len(len, max_fec) THEN Err
        ELSE il2p_payload(bytes, len, block_count_for(len, max_fec), payload_parity(len, max_fec))
      read(head) == Then(take(head.header.len, head.max_fec),
                         LAMBDA payload : Ok([header |-> head.header, payload |-> payload]))
  IN  IF Len(bytes) < HDR_BLOCK THEN Err ELSE Then(peek_header(bytes), read)

to_ui_frame(d) ==
  IF ~d.header.translated THEN parse_frame(d.payload)
  ELSE Ok([dest |-> d.header.dest, src |-> d.header.src, hops |-> <<>>, info |-> d.payload])

-----------------------------------------------------------------------------
(* On the air                                                               *)

\* tx_bits, eight bits at a time.
tx_bytes(frame, preamble, tail) ==
  LET idle(n) == [i \in 1 .. n |-> PREAMBLE_BYTE] IN idle(preamble) \o frame \o idle(tail)

\* Il2pReceiver: window is the last 24 bits, bytes what has been collected.
il2p_reset == [state |-> "hunt", window |-> <<>>, bits |-> <<>>, bytes |-> <<>>, needed |-> HDR_BLOCK,
               have_header |-> FALSE]

Synced(window) ==
  /\ Len(window) = 24
  /\ Cardinality({i \in 1 .. 24 : window[i] # BitsOf(SYNC_BYTES)[i]}) <= SYNC_TOLERANCE

Event(rx, event) == [rx |-> rx, event |-> event]

\* How many bytes to wait for: the header, once it is there, says so.
il2p_needed(rx, bytes) ==
  IF Len(bytes) = rx.needed /\ ~rx.have_header
  THEN Then(peek_header(bytes), LAMBDA head : Ok(HDR_BLOCK + payload_wire_len(head.header.len, head.max_fec)))
  ELSE Ok(rx.needed)

il2p_collect(rx, bytes, needed) ==
  IF ~needed.ok THEN Event(il2p_reset, <<Err>>)
  ELSE IF Len(bytes) = needed.v THEN Event(il2p_reset, <<il2p_decode(bytes)>>)
  ELSE Event([rx EXCEPT !.bits = <<>>, !.bytes = bytes, !.needed = needed.v,
                        !.have_header = @ \/ Len(bytes) = rx.needed], <<>>)

\* Il2pReceiver::push: the receiver and its event, one of <<>>, <<Err>>, <<Ok(frame)>>.
il2p_push(rx, bit) ==
  IF rx.state = "hunt"
  THEN With(IF Len(rx.window) < 24 THEN Append(rx.window, bit) ELSE Append(Tail(rx.window), bit), LAMBDA window :
         Event(IF Synced(window) THEN [il2p_reset EXCEPT !.state = "collect", !.window = window]
               ELSE [rx EXCEPT !.window = window], <<>>))
  ELSE IF Len(rx.bits) < 7 THEN Event([rx EXCEPT !.bits = Append(@, bit)], <<>>)
  ELSE With(Append(rx.bytes, NumOf(Append(rx.bits, bit))), LAMBDA bytes :
         il2p_collect(rx, bytes, il2p_needed(rx, bytes)))

-----------------------------------------------------------------------------
(* End to end: two UI frames, one after the other, go through              *)
(* encode_ui_frame and tx_bits over a line that damages up to as many      *)
(* bytes of the header and of each block as their parity can mend, and     *)
(* through Il2pReceiver, which starts in the middle of nowhere.            *)

CONSTANTS UiFrames,      \* frames a station may send
          Levels         \* subset of BOOLEAN: whether at the maximum FEC level

VARIABLES il2p_sent,     \* the frames, in order
          il2p_air,      \* runs of bits still to come
          il2p_rx,       \* Il2pReceiver
          il2p_events    \* what push has returned, the Nones left out

il2pVars == <<il2p_sent, il2p_air, il2p_rx, il2p_events>>

\* The damage of a transmission: bits before it, a bit of the sync word (0: none), a
\* byte of the header (0: none), and which end of every block, if any.
Damages == [lead : {<<>>, <<0, 1, 1>>}, sync : {0, 11}, header : {0, 1, HDR_BLOCK}, block : {"none", "head", "tail"}]

Flipped(byte) == Xor(byte, 90)

\* The wire bytes of the blocks, as many of each spoilt as its parity can mend.
SpoiltBlocks(bytes, len, max_fec, where) ==
  LET n      == block_count_for(len, max_fec)
      parity == payload_parity(len, max_fec)
      size(i) == block_size(len, n, i) + parity
      start(i) == HDR_BLOCK + block_start(len, n, i) + (i - 1) * parity
      spoilt(i, k) == \/ where = "head" /\ k <= correctable(block_codec(parity))
                      \/ where = "tail" /\ k > size(i) - correctable(block_codec(parity))
      block(i) == [k \in 1 .. size(i) |-> IF spoilt(i, k) THEN Flipped(bytes[start(i) + k]) ELSE bytes[start(i) + k]]
  IN  SubSeq(bytes, 1, HDR_BLOCK) \o FlattenSeq([i \in 1 .. n |-> block(i)])

\* A frame on the air, as runs of bits.
OnAir(f, max_fec, d) ==
  LET len == IF f.hops = <<>> THEN Len(f.info) ELSE Len(build_frame(f))
      heard(sync) == [i \in DOMAIN sync |-> IF i = d.sync THEN 1 - sync[i] ELSE sync[i]]
      run(body, i) == FieldOf(IF i = d.header THEN Flipped(body[i]) ELSE body[i], 8)
      runs(body) == [i \in DOMAIN body |-> run(body, i)]
      sent(wire) ==
        <<d.lead, FieldOf(PREAMBLE_BYTE, 8), heard(BitsOf(SubSeq(wire, 1, Len(SYNC_BYTES))))>>
          \o runs(SpoiltBlocks(From(wire, Len(SYNC_BYTES)), len, max_fec, d.block)) \o <<FieldOf(PREAMBLE_BYTE, 8)>>
  IN  sent(encode_ui_frame(f, max_fec).v)

\* The first transmission meets the damage, the second one follows it at once.
Il2pInit ==
  /\ il2p_rx = il2p_reset /\ il2p_events = <<>>
  /\ \E f \in UiFrames, g \in UiFrames, max_fec \in Levels, d \in Damages :
       /\ il2p_sent = <<f, g>>
       /\ il2p_air = OnAir(f, max_fec, d)
                       \o OnAir(g, max_fec, [lead |-> <<>>, sync |-> 0, header |-> 0, block |-> "none"])

\* The receiver and what it has returned, after another bit.
il2p_hear(st, bit) ==
  With(il2p_push(st.rx, bit), LAMBDA r : [rx |-> r.rx, events |-> st.events \o r.event])

Il2pTake(st) == il2p_rx' = st.rx /\ il2p_events' = st.events

\* Il2pReceiver::push for the bits of a run.
Il2pHear ==
  /\ il2p_air # <<>> /\ il2p_air' = Tail(il2p_air)
  /\ Il2pTake(FoldLeft(il2p_hear, [rx |-> il2p_rx, events |-> il2p_events], Head(il2p_air)))
  /\ UNCHANGED il2p_sent

\* Damage within the parity's reach costs nothing and nobody: both frames come
\* out, as they were sent and in order, and nothing else does.
MendedAndResynced ==
  LET heard(i) == LET e == il2p_events[i] IN IF e.ok THEN to_ui_frame(e.v) ELSE Err
  IN  /\ \A i \in DOMAIN il2p_events : i <= Len(il2p_sent) /\ heard(i) = Ok(il2p_sent[i])
      /\ il2p_air = <<>> => Len(il2p_events) = Len(il2p_sent)
=============================================================================
