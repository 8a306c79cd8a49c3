-------------------------------- MODULE Kiss --------------------------------
(***************************************************************************)
(* src/src/kiss.rs: KISS framing between a host and a TNC.  One side runs  *)
(* the lazy encoder (KissFrameIter), a byte per step; the bytes cross a    *)
(* serial line that may lose, damage or inject bytes; the other side       *)
(* pushes what arrives into a KissDeframer.                                *)
(***************************************************************************)
EXTENDS Integers, Sequences, FiniteSets

CONSTANTS N,             \* deframer capacity: command byte plus payload
          Ports,         \* the ports frames are sent on, a subset of 0 .. 15
          Payloads,      \* the payloads frames carry: sequences of bytes
          NoiseBytes,    \* the bytes the line may make of another byte
          MaxFrames,     \* bound: frames sent
          MaxNoise       \* bound: bytes lost, damaged or injected

ASSUME NAssumption == N \in Nat
ASSUME PortsAssumption == Ports \subseteq 0 .. 15
ASSUME BytesAssumption == Payloads \subseteq Seq(0 .. 255) /\ NoiseBytes \subseteq 0 .. 255
ASSUME BoundsAssumption == MaxFrames \in Nat \ {0} /\ MaxNoise \in Nat

VARIABLES frame,         \* the frame being encoded
          enc,           \* KissFrameIter's state
          wire,          \* history: bytes emitted for this frame so far
          intact,        \* history: all of them arrived as sent
          rx,            \* the KissDeframer
          result,        \* what the latest push returned
          sent, noise    \* bounds: frames begun, noise events

vars == <<frame, enc, wire, intact, rx, result, sent, noise>>

-----------------------------------------------------------------------------
(* Bytes and commands                                                      *)

FEND == 192
FESC == 219
TFEND == 220
TFESC == 221

Commands == {"Data", "TxDelay", "Persistence", "SlotTime", "TxTail",
             "FullDuplex", "SetHardware", "Return"}

Nibble == [Data |-> 0, TxDelay |-> 1, Persistence |-> 2, SlotTime |-> 3,
           TxTail |-> 4, FullDuplex |-> 5, SetHardware |-> 6]

to_byte(command, port) ==
  IF command = "Return" THEN 255 ELSE port * 16 + Nibble[command]

None == [kind |-> "None"]
Err(why) == [kind |-> "Err", why |-> why]
Frame(command, port, payload) ==
  [kind |-> "Ok", command |-> command, port |-> port, payload |-> payload]

\* The command byte back to (command, port); unknown nibbles are refused and
\* Return carries no port.
from_byte(byte, payload) ==
  IF byte = 255 THEN Frame("Return", 0, payload)
  ELSE IF \E c \in DOMAIN Nibble : Nibble[c] = byte % 16
       THEN Frame(CHOOSE c \in DOMAIN Nibble : Nibble[c] = byte % 16,
                  byte \div 16, payload)
       ELSE Err("UnknownCommand")

-----------------------------------------------------------------------------
(* Encoding a whole frame                                                  *)

\* A frame's content: the command byte is its first byte.
Content(f) == <<to_byte(f.command, f.port)>> \o f.payload

Special == {FEND, FESC}

encoded_len(f) ==
  3 + Len(f.payload)
    + Cardinality({i \in 1 .. Len(f.payload) + 1 : Content(f)[i] \in Special})

Escape(b) == CASE b = FEND -> <<FESC, TFEND>>
               [] b = FESC -> <<FESC, TFESC>>
               [] OTHER -> <<b>>

\* The loop over the content: what its first n bytes become, for each n.
Escaped(f) ==
  LET escaped[n \in 0 .. Len(f.payload) + 1] ==
        IF n = 0 THEN <<>> ELSE escaped[n - 1] \o Escape(Content(f)[n])
  IN  escaped

encode_into(f) == <<FEND>> \o Escaped(f)[Len(f.payload) + 1] \o <<FEND>>

-----------------------------------------------------------------------------
(* KissFrameIter: one byte per step.  `pos` is the 0-based content index.  *)

OpenFend == [state |-> "OpenFend"]
AtContent(pos, pending) ==
  [state |-> "Content", pos |-> pos, pending |-> pending]
Done == [state |-> "Done"]

NoByte == -1

\* Mutant: the command byte bypasses the escaping rule.
NeedsEscapeInPayload(f, pos) == pos > 0 /\ Content(f)[pos + 1] \in Special

NeedsEscape(f, pos) == Content(f)[pos + 1] \in Special

\* KissFrameIter::next: the byte yielded and the state after it.
Emit(f, e) ==
  IF e.state = "OpenFend" THEN [byte |-> FEND, then |-> AtContent(0, NoByte)]
  ELSE IF e.pending # NoByte
  THEN [byte |-> e.pending, then |-> AtContent(e.pos + 1, NoByte)]
  ELSE IF e.pos > Len(f.payload) THEN [byte |-> FEND, then |-> Done]
  ELSE IF NeedsEscape(f, e.pos)
  THEN [byte |-> FESC,
        then |-> AtContent(e.pos, Escape(Content(f)[e.pos + 1])[2])]
  ELSE [byte |-> Content(f)[e.pos + 1], then |-> AtContent(e.pos + 1, NoByte)]

-----------------------------------------------------------------------------
(* KissDeframer.  `buf` holds the live bytes only; `len` counts the bytes  *)
(* seen, also those that no longer fit.                                    *)

Hunting == [buf |-> <<>>, len |-> 0, in_frame |-> FALSE, escaping |-> FALSE,
            overflowed |-> FALSE]

reset_frame(d) ==
  [d EXCEPT !.buf = <<>>, !.len = 0, !.escaping = FALSE, !.overflowed = FALSE]

store(d, byte) ==
  [d EXCEPT !.buf = IF d.len < N THEN Append(@, byte) ELSE @,
            !.overflowed = @ \/ d.len >= N,
            !.len = @ + 1, !.escaping = FALSE]

\* Mutant: an empty frame between two FENDs is reported.
CloseReportsEmpty(d) ==
  IF ~d.in_frame THEN None
  ELSE IF d.len = 0 THEN Err("UnknownCommand")
  ELSE IF d.escaping THEN Err("InvalidEscape")
  ELSE IF d.overflowed THEN Err("FrameTooLarge")
  ELSE from_byte(Head(d.buf), Tail(d.buf))

\* What a FEND closes: `in_frame` stays on, so it opens the next frame too.
Close(d) ==
  IF ~(d.in_frame /\ d.len > 0) THEN None
  ELSE IF d.escaping THEN Err("InvalidEscape")
  ELSE IF d.overflowed THEN Err("FrameTooLarge")
  ELSE from_byte(Head(d.buf), Tail(d.buf))

\* Mutant: a FEND closes a frame without opening the next one.
OnFendOnlyCloses(d) ==
  [rx |-> [reset_frame(d) EXCEPT !.in_frame = ~d.in_frame],
   result |-> Close(d)]

\* One FEND both closes a frame and opens the next.
OnFend(d) ==
  [rx |-> [reset_frame(d) EXCEPT !.in_frame = TRUE], result |-> Close(d)]

\* The byte after a FESC; anything but TFEND and TFESC re-syncs at the next
\* FEND.
OnEscaped(d, byte) ==
  IF byte \in {TFEND, TFESC}
  THEN [rx |-> store(d, IF byte = TFEND THEN FEND ELSE FESC), result |-> None]
  ELSE [rx |-> Hunting, result |-> Err("InvalidEscape")]

push(d, byte) ==
  IF byte = FEND THEN OnFend(d)
  ELSE IF ~d.in_frame THEN [rx |-> d, result |-> None]
  ELSE IF d.escaping THEN OnEscaped(d, byte)
  ELSE IF byte = FESC
  THEN [rx |-> [d EXCEPT !.escaping = TRUE], result |-> None]
  ELSE [rx |-> store(d, byte), result |-> None]

-----------------------------------------------------------------------------
(* The line                                                                *)

Frames == [command : Commands, port : Ports, payload : Payloads]

Init ==
  /\ frame \in Frames
  /\ enc = OpenFend
  /\ wire = <<>>
  /\ intact = TRUE
  /\ rx = Hunting
  /\ result = None
  /\ sent = 1
  /\ noise = 0

Receive(byte) == LET r == push(rx, byte) IN rx' = r.rx /\ result' = r.result

\* frame_iter: the sender starts its next frame.
Begin ==
  /\ enc = Done
  /\ sent < MaxFrames
  /\ frame' \in Frames
  /\ enc' = OpenFend
  /\ wire' = <<>>
  /\ intact' = TRUE
  /\ result' = None
  /\ sent' = sent + 1
  /\ UNCHANGED <<rx, noise>>

\* The encoder yields its next byte.
Advance == LET e == Emit(frame, enc)
           IN  enc' = e.then /\ wire' = Append(wire, e.byte)

Deliver ==
  /\ enc # Done
  /\ Advance
  /\ Receive(Emit(frame, enc).byte)
  /\ UNCHANGED <<frame, intact, sent, noise>>

\* The line loses the byte.
Lose ==
  /\ enc # Done
  /\ noise < MaxNoise
  /\ Advance
  /\ intact' = FALSE
  /\ result' = None
  /\ noise' = noise + 1
  /\ UNCHANGED <<frame, rx, sent>>

\* The line turns the byte into another one.
Damage ==
  /\ enc # Done
  /\ noise < MaxNoise
  /\ Advance
  /\ \E b \in NoiseBytes \ {Emit(frame, enc).byte} : Receive(b)
  /\ intact' = FALSE
  /\ noise' = noise + 1
  /\ UNCHANGED <<frame, sent>>

\* The line adds a byte, inside a frame or between two.
Inject ==
  /\ noise < MaxNoise
  /\ \E b \in NoiseBytes : Receive(b)
  /\ intact' = (intact /\ enc \in {OpenFend, Done})
  /\ noise' = noise + 1
  /\ UNCHANGED <<frame, enc, wire, sent>>

Next == Begin \/ Deliver \/ Lose \/ Damage \/ Inject

Spec == Init /\ [][Next]_vars

-----------------------------------------------------------------------------
(* Properties                                                              *)

\* Types; the deframer stores at most N bytes and `overflowed` says exactly
\* whether it saw more.
TypeOK ==
  /\ frame \in Frames
  /\ wire \in Seq(0 .. 255)
  /\ intact \in BOOLEAN
  /\ rx.buf \in Seq(0 .. 255)
  /\ Len(rx.buf) = IF rx.len < N THEN rx.len ELSE N
  /\ rx.overflowed <=> rx.len > N
  /\ ~rx.in_frame => rx = Hunting
  /\ result.kind \in {"None", "Ok", "Err"}
  /\ sent \in 1 .. MaxFrames /\ noise \in 0 .. MaxNoise

\* A frame whose own bytes all arrived is reported whole and unchanged as
\* its closing FEND arrives (or refused as too large, never truncated),
\* whatever noise came before it: the deframer always re-syncs.
IntactDelivered ==
  [][ enc # Done /\ enc' = Done /\ intact' =>
        result' = IF Len(frame.payload) + 1 > N THEN Err("FrameTooLarge")
                  ELSE Frame(frame.command,
                             IF frame.command = "Return" THEN 0
                             ELSE frame.port,
                             frame.payload) ]_vars

\* On a clean line a push reports something only when a frame closes: the
\* FEND that opens the next frame never yields a phantom frame or error.
NoPhantom == noise = 0 /\ enc # Done => result = None

\* The lazy iterator, encode_into and encoded_len agree byte for byte.
EncodersAgree ==
  /\ wire = SubSeq(encode_into(frame), 1, Len(wire))
  /\ enc = Done => Len(wire) = encoded_len(frame)
=============================================================================
