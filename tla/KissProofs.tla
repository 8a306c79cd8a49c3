----------------------------- MODULE KissProofs -----------------------------
(***************************************************************************)
(* Proofs about Kiss for every deframer capacity, set of ports and set of  *)
(* payloads, and for any number of frames and noise events: the bounds     *)
(* MaxFrames and MaxNoise are arbitrary.                                   *)
(***************************************************************************)
EXTENDS Kiss, FiniteSetTheorems, SequenceTheorems, WellFoundedInduction, TLAPS

Byte == 0 .. 255

-----------------------------------------------------------------------------
(* The invariants                                                          *)

RxStates == [buf : Seq(Byte), len : Nat, in_frame : BOOLEAN, escaping : BOOLEAN,
             overflowed : BOOLEAN]

\* The deframer keeps what fits, and knows when something did not.
Sound(d) == /\ d \in RxStates
            /\ Len(d.buf) = IF d.len < N THEN d.len ELSE N
            /\ d.overflowed <=> d.len > N
            /\ ~d.in_frame => d = Hunting

\* The encoder is before, within or after the content; a byte is pending only
\* behind the FESC of a special one.
Pending(f, pos) == {NoByte} \cup {b \in {TFEND, TFESC} :
                      /\ pos <= Len(f.payload)
                      /\ Content(f)[pos + 1] \in Special
                      /\ b = Escape(Content(f)[pos + 1])[2]}
EncSound == \/ enc = OpenFend
            \/ enc = Done
            \/ \E pos \in 0 .. Len(frame.payload) + 1 : \E pending \in Pending(frame, pos) :
                 enc = AtContent(pos, pending)

\* The deframer that has had the first pos bytes of f's content.
Prefix(f, k) == SubSeq(Content(f), 1, IF k < N THEN k ELSE N)
Receiving(f, pos, escaping) ==
  [buf |-> Prefix(f, pos), len |-> pos, in_frame |-> TRUE, escaping |-> escaping,
   overflowed |-> pos > N]

\* While a frame's own bytes arrive, the deframer holds what was encoded,
\* whatever it held before the frame's first FEND.
InStep == intact /\ enc.state = "Content" =>
            rx = Receiving(frame, enc.pos, enc.pending # NoByte)

\* On a clean line nothing is collected between two frames.
CleanLine == noise = 0 => /\ intact
                          /\ enc.state # "Content" => rx.len = 0
                          /\ enc.state # "Done" => result = None

KissInv == /\ frame \in Frames /\ intact \in BOOLEAN
           /\ sent \in Nat /\ noise \in Nat
           /\ Sound(rx) /\ EncSound /\ InStep /\ CleanLine

-----------------------------------------------------------------------------
(* The command byte                                                        *)

\* The command byte is a byte, and reads back as the command and the port it was
\* made from; only Return loses its port.
LEMMA CommandByte ==
  ASSUME NEW c \in Commands, NEW p \in 0 .. 15, NEW payload
  PROVE  /\ to_byte(c, p) \in Byte
         /\ from_byte(to_byte(c, p), payload)
              = Frame(c, IF c = "Return" THEN 0 ELSE p, payload)
<1>1. CASE c = "Return"
  BY <1>1 DEF to_byte, from_byte, Byte
<1>2. CASE c # "Return"
  <2>1. DOMAIN Nibble = Commands \ {"Return"}
    BY DEF Nibble, Commands
  <2>2. /\ Nibble[c] \in 0 .. 6
        /\ \A d \in DOMAIN Nibble : Nibble[d] = Nibble[c] => d = c
    BY <1>2, <2>1 DEF Nibble, Commands
  <2>3. to_byte(c, p) = p * 16 + Nibble[c]
    BY <1>2 DEF to_byte
  <2>4. /\ to_byte(c, p) \in Byte /\ to_byte(c, p) # 255
        /\ to_byte(c, p) % 16 = Nibble[c] /\ to_byte(c, p) \div 16 = p
    BY <2>2, <2>3 DEF Byte
  <2>5. (CHOOSE d \in DOMAIN Nibble : Nibble[d] = Nibble[c]) = c
    BY <1>2, <2>1, <2>2
  <2>6. \E d \in DOMAIN Nibble : Nibble[d] = to_byte(c, p) % 16
    BY <1>2, <2>1, <2>4
  <2> HIDE DEF Nibble
  <2> QED
    BY <1>2, <2>4, <2>5, <2>6 DEF from_byte
<1> QED
  BY <1>1, <1>2

\* A frame's content is its command byte followed by its payload.
LEMMA ContentOf ==
  ASSUME NEW f \in Frames
  PROVE  /\ f.payload \in Seq(Byte) /\ Len(f.payload) \in Nat
         /\ Content(f) \in Seq(Byte) /\ Len(Content(f)) = Len(f.payload) + 1
         /\ Content(f)[1] = to_byte(f.command, f.port)
         /\ Head(Content(f)) = to_byte(f.command, f.port) /\ Tail(Content(f)) = f.payload
<1>1. f.command \in Commands /\ f.port \in 0 .. 15 /\ f.payload \in Seq(Byte)
  BY PortsAssumption, BytesAssumption DEF Frames, Byte
<1> DEFINE b == to_byte(f.command, f.port)
<1>2. b \in Byte
  BY <1>1, CommandByte
<1>3. Len(f.payload) \in Nat
  BY <1>1, LenProperties
<1> HIDE DEF b
<1>4. <<b>> \in Seq(Byte) /\ Len(<<b>>) = 1
  BY <1>2
<1>5. /\ <<b>> \o f.payload \in Seq(Byte)
      /\ Len(<<b>> \o f.payload) = Len(f.payload) + 1
      /\ (<<b>> \o f.payload)[1] = b
      /\ \A i \in 1 .. Len(f.payload) : (<<b>> \o f.payload)[i + 1] = f.payload[i]
  BY <1>1, <1>3, <1>4, ConcatProperties
<1>6. Content(f) = <<b>> \o f.payload
  BY DEF Content, b
<1>7. Content(f) # << >>
  BY <1>3, <1>5, <1>6
<1>8. Head(Content(f)) = b
  BY <1>5, <1>6, <1>7
<1>9. Tail(Content(f)) = f.payload
  <2>1. /\ Tail(Content(f)) \in Seq(Byte)
        /\ Len(Tail(Content(f))) = Len(f.payload)
        /\ \A i \in 1 .. Len(f.payload) : Tail(Content(f))[i] = Content(f)[i + 1]
    BY <1>3, <1>5, <1>6, <1>7, HeadTailProperties
  <2> QED
    BY <1>1, <1>5, <1>6, <2>1, SeqEqual
<1> QED
  BY <1>1, <1>3, <1>5, <1>6, <1>8, <1>9 DEF b

-----------------------------------------------------------------------------
(* The deframer                                                            *)

\* Storing a byte, spelled out.
LEMMA StoreExact ==
  ASSUME NEW d \in RxStates, NEW byte
  PROVE  \E over \in BOOLEAN :
           /\ over <=> d.overflowed \/ d.len >= N
           /\ store(d, byte) =
                [buf |-> IF d.len < N THEN Append(d.buf, byte) ELSE d.buf, len |-> d.len + 1,
                 in_frame |-> d.in_frame, escaping |-> FALSE, overflowed |-> over]
<1> DEFINE over == d.overflowed \/ d.len >= N
<1>1. over \in BOOLEAN
  OBVIOUS
<1>2. store(d, byte) =
        [d EXCEPT !.buf = IF d.len < N THEN Append(@, byte) ELSE @, !.overflowed = over,
                  !.len = @ + 1, !.escaping = FALSE]
  BY Zenon DEF store
<1>3. over <=> d.overflowed \/ d.len >= N
  OBVIOUS
<1> HIDE DEF over
<1>4. store(d, byte) =
        [buf |-> IF d.len < N THEN Append(d.buf, byte) ELSE d.buf, len |-> d.len + 1,
         in_frame |-> d.in_frame, escaping |-> FALSE, overflowed |-> over]
  BY <1>2 DEF RxStates
<1> QED
  BY <1>1, <1>3, <1>4

\* A FEND, whatever it closes, leaves the deframer ready for the next frame.
Ready == [buf |-> <<>>, len |-> 0, in_frame |-> TRUE, escaping |-> FALSE, overflowed |-> FALSE]
LEMMA FendExact ==
  ASSUME NEW d \in RxStates
  PROVE  push(d, FEND).rx = Ready /\ push(d, FEND).result = Close(d)
BY DEF push, OnFend, reset_frame, RxStates, Ready, FEND

\* Both states without a frame are sound.
LEMMA EmptySound == Sound(Ready) /\ Sound(Hunting)
<1>1. << >> \in Seq(Byte) /\ Len(<< >>) = 0
  BY EmptySeq
<1> QED
  BY <1>1, NAssumption DEF Sound, Ready, Hunting, RxStates

\* Storing keeps a sound deframer that is within a frame sound.
LEMMA StoreSound ==
  ASSUME NEW d, Sound(d), d.in_frame, NEW byte \in Byte
  PROVE  Sound(store(d, byte))
<1>1. /\ d \in RxStates /\ d.buf \in Seq(Byte) /\ d.len \in Nat
      /\ Len(d.buf) = IF d.len < N THEN d.len ELSE N
      /\ d.overflowed \in BOOLEAN /\ (d.overflowed <=> d.len > N)
  BY DEF Sound, RxStates
<1>2. PICK over \in BOOLEAN :
        /\ over <=> d.overflowed \/ d.len >= N
        /\ store(d, byte) =
             [buf |-> IF d.len < N THEN Append(d.buf, byte) ELSE d.buf, len |-> d.len + 1,
              in_frame |-> d.in_frame, escaping |-> FALSE, overflowed |-> over]
  BY <1>1, StoreExact
<1> DEFINE buf == IF d.len < N THEN Append(d.buf, byte) ELSE d.buf
<1>3. Append(d.buf, byte) \in Seq(Byte) /\ Len(Append(d.buf, byte)) = Len(d.buf) + 1
  BY <1>1, AppendProperties
<1>4. buf \in Seq(Byte) /\ Len(buf) = IF d.len + 1 < N THEN d.len + 1 ELSE N
  BY <1>1, <1>3, NAssumption
<1>5. over <=> d.len + 1 > N
  BY <1>1, <1>2, NAssumption
<1>6. store(d, byte) = [buf |-> buf, len |-> d.len + 1, in_frame |-> TRUE, escaping |-> FALSE,
                        overflowed |-> over]
  BY <1>1, <1>2 DEF RxStates
<1> HIDE DEF buf
<1> QED
  BY <1>1, <1>2, <1>4, <1>5, <1>6 DEF Sound, RxStates

\* Every byte leaves the deframer sound.
LEMMA PushSound ==
  ASSUME NEW d, Sound(d), NEW byte \in Byte
  PROVE  Sound(push(d, byte).rx)
<1>1. d \in RxStates
  BY DEF Sound
<1>2. CASE byte = FEND
  BY <1>1, <1>2, FendExact, EmptySound
<1>3. CASE byte # FEND /\ ~d.in_frame
  BY <1>3 DEF push
<1>4. CASE byte # FEND /\ d.in_frame /\ d.escaping
  <2>1. CASE byte \in {TFEND, TFESC}
    <3> DEFINE b == IF byte = TFEND THEN FEND ELSE FESC
    <3>1. b \in Byte
      BY DEF FEND, FESC, Byte
    <3>2. push(d, byte).rx = store(d, b)
      BY <1>4, <2>1 DEF push, OnEscaped
    <3> HIDE DEF b
    <3> QED
      BY <1>4, <3>1, <3>2, StoreSound
  <2>2. CASE byte \notin {TFEND, TFESC}
    BY <1>4, <2>2, EmptySound DEF push, OnEscaped
  <2> QED
    BY <2>1, <2>2
<1>5. CASE byte = FESC /\ byte # FEND /\ d.in_frame /\ ~d.escaping
  <2>1. push(d, byte).rx = [d EXCEPT !.escaping = TRUE]
    BY <1>5 DEF push
  <2>2. Sound([d EXCEPT !.escaping = TRUE])
    BY <1>1, <1>5 DEF Sound, RxStates
  <2> QED
    BY <2>1, <2>2
<1>6. CASE byte # FESC /\ byte # FEND /\ d.in_frame /\ ~d.escaping
  BY <1>6, StoreSound DEF push
<1> QED
  BY <1>2, <1>3, <1>4, <1>5, <1>6

\* What is kept of the content grows by its next byte, until the deframer is full.
LEMMA PrefixGrows ==
  ASSUME NEW f \in Frames, NEW k \in 0 .. Len(f.payload)
  PROVE  Prefix(f, k + 1) = IF k < N THEN Append(Prefix(f, k), Content(f)[k + 1]) ELSE Prefix(f, k)
<1> DEFINE c == Content(f)
<1>1. c \in Seq(Byte) /\ Len(c) = Len(f.payload) + 1 /\ Len(c) \in Nat /\ k \in Nat /\ N \in Nat
  BY ContentOf, NAssumption
<1> HIDE DEF c
<1>2. CASE k >= N
  BY <1>1, <1>2 DEF Prefix
<1>3. CASE k < N
  <2>1. k + 1 \in 1 .. Len(c) /\ c[k + 1] \in Byte
    BY <1>1, ElementOfSeq
  <2>2. SubSeq(c, 1, k + 1) = SubSeq(c, 1, k) \o <<c[k + 1]>>
    <3>1. 1 \in 1 .. Len(c) /\ k + 1 \in 1 .. Len(c) /\ (k + 1) - 1 = k
      BY <1>1
    <3> QED
      BY <1>1, <3>1, SubSeqRecursiveSecond
  <2>3. \A i \in 1 .. k : c[i] \in Byte
    BY <1>1, ElementOfSeq
  <2>4. SubSeq(c, 1, k) \in Seq(Byte)
    BY <1>1, <2>3, SubSeqProperties
  <2>5. Append(SubSeq(c, 1, k), c[k + 1]) = SubSeq(c, 1, k) \o <<c[k + 1]>>
    BY <2>1, <2>4, AppendIsConcat
  <2>6. Prefix(f, k) = SubSeq(c, 1, k) /\ Prefix(f, k + 1) = SubSeq(c, 1, k + 1)
    BY <1>1, <1>3 DEF Prefix, c
  <2> QED
    BY <1>3, <2>2, <2>5, <2>6 DEF c
<1> QED
  BY <1>1, <1>2, <1>3

\* Nothing of the content is kept at first, all of it at the end if it fits.
LEMMA PrefixEnds ==
  ASSUME NEW f \in Frames
  PROVE  /\ Prefix(f, 0) = << >>
         /\ ~(Len(f.payload) + 1 > N) => Prefix(f, Len(f.payload) + 1) = Content(f)
<1>1. Content(f) \in Seq(Byte) /\ Len(Content(f)) = Len(f.payload) + 1 /\ Len(f.payload) \in Nat
  BY ContentOf
<1>2. SubSeq(Content(f), 1, 0) = << >>
  BY SubSeqEmpty
<1>3. SubSeq(Content(f), 1, Len(Content(f))) = Content(f)
  BY <1>1, SubSeqFull
<1>4. Prefix(f, 0) = SubSeq(Content(f), 1, 0)
  BY NAssumption DEF Prefix
<1>5. ASSUME ~(Len(f.payload) + 1 > N)
      PROVE  Prefix(f, Len(f.payload) + 1) = SubSeq(Content(f), 1, Len(Content(f)))
  BY <1>1, <1>5, NAssumption DEF Prefix
<1> QED
  BY <1>2, <1>3, <1>4, <1>5

-----------------------------------------------------------------------------
(* The encoder                                                             *)

\* What the encoder yields within the content: the second byte of an escape, the
\* closing FEND, the first byte of an escape, or a plain byte.
EndOfEscape(f, pos, pending, e) ==
  /\ pending # NoByte /\ pos <= Len(f.payload) /\ Content(f)[pos + 1] \in Special
  /\ pending = Escape(Content(f)[pos + 1])[2]
  /\ e.byte = pending /\ e.then = AtContent(pos + 1, NoByte)
Closing(f, pos, pending, e) ==
  /\ pending = NoByte /\ pos = Len(f.payload) + 1 /\ e.byte = FEND /\ e.then = Done
Escaping(f, pos, pending, e) ==
  /\ pending = NoByte /\ pos <= Len(f.payload) /\ Content(f)[pos + 1] \in Special
  /\ e.byte = FESC /\ e.then = AtContent(pos, Escape(Content(f)[pos + 1])[2])
Plain(f, pos, pending, e) ==
  /\ pending = NoByte /\ pos <= Len(f.payload) /\ Content(f)[pos + 1] \notin Special
  /\ e.byte = Content(f)[pos + 1] /\ e.then = AtContent(pos + 1, NoByte)

LEMMA EmitWithin ==
  ASSUME NEW f \in Frames, NEW pos \in 0 .. Len(f.payload) + 1, NEW pending \in Pending(f, pos)
  PROVE  LET e == Emit(f, AtContent(pos, pending))
         IN  \/ EndOfEscape(f, pos, pending, e) \/ Closing(f, pos, pending, e)
             \/ Escaping(f, pos, pending, e) \/ Plain(f, pos, pending, e)
<1> DEFINE at == AtContent(pos, pending)
           e == Emit(f, at)
<1>1. Len(f.payload) \in Nat
  BY ContentOf
<1>2. at.state # "OpenFend" /\ at.pos = pos /\ at.pending = pending
  BY DEF AtContent
<1> HIDE DEF at
<1>3. CASE pending # NoByte
  <2>1. EndOfEscape(f, pos, pending, e)
    BY <1>2, <1>3 DEF Emit, Pending, EndOfEscape
  <2> QED
    BY <2>1 DEF at
<1>4. CASE pending = NoByte /\ pos > Len(f.payload)
  <2>1. Closing(f, pos, pending, e)
    BY <1>1, <1>2, <1>4 DEF Emit, Closing
  <2> QED
    BY <2>1 DEF at
<1>5. CASE pending = NoByte /\ pos <= Len(f.payload)
  <2>1. ~(pos > Len(f.payload))
    BY <1>1, <1>5
  <2>2. CASE NeedsEscape(f, pos)
    <3>1. Escaping(f, pos, pending, e)
      BY <1>2, <1>5, <2>1, <2>2 DEF Emit, Escaping, NeedsEscape
    <3> QED
      BY <3>1 DEF at
  <2>3. CASE ~NeedsEscape(f, pos)
    <3>1. Plain(f, pos, pending, e)
      BY <1>2, <1>5, <2>1, <2>3 DEF Emit, Plain, NeedsEscape
    <3> QED
      BY <3>1 DEF at
  <2> QED
    BY <2>2, <2>3
<1> QED
  BY <1>1, <1>3, <1>4, <1>5

\* The second byte of an escape says which byte was escaped.
LEMMA EscapeOf ==
  ASSUME NEW b \in Special
  PROVE  /\ Escape(b)[2] \in {TFEND, TFESC}
         /\ b = IF Escape(b)[2] = TFEND THEN FEND ELSE FESC
BY DEF Special, Escape, FEND, FESC, TFEND, TFESC

\* The encoder moves from sound state to sound state, and yields bytes.
LEMMA EmitSound ==
  ASSUME EncSound, enc # Done, frame \in Frames
  PROVE  /\ Emit(frame, enc).byte \in Byte
         /\ \/ Emit(frame, enc).then = Done
            \/ \E pos \in 0 .. Len(frame.payload) + 1 : \E pending \in Pending(frame, pos) :
                 Emit(frame, enc).then = AtContent(pos, pending)
<1>1. /\ Len(frame.payload) \in Nat
      /\ \A i \in 1 .. Len(frame.payload) + 1 : Content(frame)[i] \in Byte
  BY ContentOf, ElementOfSeq
<1>2. \A pos : NoByte \in Pending(frame, pos)
  BY DEF Pending
<1>3. CASE enc = OpenFend
  <2>1. Emit(frame, enc).byte = FEND /\ Emit(frame, enc).then = AtContent(0, NoByte)
    BY <1>3 DEF Emit, OpenFend
  <2> QED
    BY <1>1, <1>2, <2>1 DEF FEND, Byte
<1>4. ASSUME NEW pos \in 0 .. Len(frame.payload) + 1, NEW pending \in Pending(frame, pos),
             enc = AtContent(pos, pending)
      PROVE  /\ Emit(frame, enc).byte \in Byte
             /\ \/ Emit(frame, enc).then = Done
                \/ \E p \in 0 .. Len(frame.payload) + 1 : \E q \in Pending(frame, p) :
                     Emit(frame, enc).then = AtContent(p, q)
  <2> DEFINE e == Emit(frame, AtContent(pos, pending))
  <2>1. CASE EndOfEscape(frame, pos, pending, e)
    <3>1. pos + 1 \in 0 .. Len(frame.payload) + 1
      BY <1>1, <2>1 DEF EndOfEscape
    <3>2. pending \in {TFEND, TFESC}
      BY <2>1, EscapeOf DEF EndOfEscape
    <3>3. e.byte \in Byte /\ e.then = AtContent(pos + 1, NoByte)
      BY <2>1, <3>2 DEF EndOfEscape, TFEND, TFESC, Byte
    <3> HIDE DEF e
    <3>4. \E p \in 0 .. Len(frame.payload) + 1 : \E q \in Pending(frame, p) :
            e.then = AtContent(p, q)
      BY <1>2, <3>1, <3>3
    <3> QED
      BY <1>4, <3>3, <3>4 DEF e
  <2>2. CASE Closing(frame, pos, pending, e)
    BY <1>4, <2>2 DEF Closing, FEND, Byte
  <2>3. CASE Escaping(frame, pos, pending, e)
    <3>1. Escape(Content(frame)[pos + 1])[2] \in Pending(frame, pos)
      BY <2>3, EscapeOf DEF Escaping, Pending
    <3> QED
      BY <1>4, <2>3, <3>1 DEF Escaping, FESC, Byte
  <2>4. CASE Plain(frame, pos, pending, e)
    <3>1. pos + 1 \in 1 .. Len(frame.payload) + 1
      BY <1>1, <2>4 DEF Plain
    <3> QED
      BY <1>1, <1>2, <1>4, <2>4, <3>1 DEF Plain
  <2>5. \/ EndOfEscape(frame, pos, pending, e) \/ Closing(frame, pos, pending, e)
        \/ Escaping(frame, pos, pending, e) \/ Plain(frame, pos, pending, e)
    BY EmitWithin
  <2> HIDE DEF e
  <2> QED
    BY <2>1, <2>2, <2>3, <2>4, <2>5
<1> QED
  BY <1>3, <1>4 DEF EncSound

-----------------------------------------------------------------------------
(* Both together                                                           *)

\* A deframer that has received k bytes of the content is well-formed.
LEMMA ReceivingTypes ==
  ASSUME NEW f \in Frames, NEW k \in 0 .. Len(f.payload) + 1, NEW escaping \in BOOLEAN
  PROVE  Receiving(f, k, escaping) \in RxStates
<1>1. /\ Len(f.payload) \in Nat
      /\ \A i \in 1 .. Len(f.payload) + 1 : Content(f)[i] \in Byte
  BY ContentOf, ElementOfSeq
<1> DEFINE m == IF k < N THEN k ELSE N
<1>2. m \in Nat /\ m <= Len(f.payload) + 1
  BY <1>1, NAssumption
<1> HIDE DEF m
<1>3. \A i \in 1 .. m : Content(f)[i] \in Byte
  BY <1>1, <1>2
<1>4. SubSeq(Content(f), 1, m) \in Seq(Byte)
  BY <1>2, <1>3, SubSeqProperties
<1>5. Prefix(f, k) \in Seq(Byte)
  BY <1>4 DEF Prefix, m
<1>6. k \in Nat /\ (k > N) \in BOOLEAN
  BY <1>1
<1> QED
  BY <1>5, <1>6 DEF Receiving, RxStates

\* Storing the next byte of the content.
LEMMA StoreNext ==
  ASSUME NEW f \in Frames, NEW k \in 0 .. Len(f.payload), NEW escaping \in BOOLEAN
  PROVE  store(Receiving(f, k, escaping), Content(f)[k + 1]) = Receiving(f, k + 1, FALSE)
<1> DEFINE d == Receiving(f, k, escaping)
           b == Content(f)[k + 1]
<1>1. Len(f.payload) \in Nat /\ k \in Nat /\ N \in Nat /\ k \in 0 .. Len(f.payload) + 1
  BY ContentOf, NAssumption
<1>2. d \in RxStates
  BY <1>1, ReceivingTypes
<1>3. /\ d.buf = Prefix(f, k) /\ d.len = k /\ d.in_frame = TRUE
      /\ d.overflowed <=> k > N
  BY DEF Receiving
<1> HIDE DEF d, b
<1>4. PICK over \in BOOLEAN :
        /\ over <=> d.overflowed \/ d.len >= N
        /\ store(d, b) =
             [buf |-> IF d.len < N THEN Append(d.buf, b) ELSE d.buf, len |-> d.len + 1,
              in_frame |-> d.in_frame, escaping |-> FALSE, overflowed |-> over]
  BY <1>2, StoreExact
<1>5. over <=> k + 1 > N
  BY <1>1, <1>3, <1>4
<1>6. Prefix(f, k + 1) = IF k < N THEN Append(Prefix(f, k), b) ELSE Prefix(f, k)
  BY PrefixGrows DEF b
<1>7. store(d, b) = [buf |-> Prefix(f, k + 1), len |-> k + 1, in_frame |-> TRUE,
                     escaping |-> FALSE, overflowed |-> over]
  BY <1>3, <1>4, <1>6
<1>8. over = (k + 1 > N)
  BY <1>1, <1>5
<1> QED
  BY <1>7, <1>8 DEF Receiving, d, b

\* Changing the escape flag of a deframer leaves its other fields alone.
LEMMA EscapeExact ==
  ASSUME NEW b, NEW k, NEW over, NEW old, NEW new,
         NEW d, d = [buf |-> b, len |-> k, in_frame |-> new, escaping |-> old,
                     overflowed |-> over],
         NEW r, r = [buf |-> b, len |-> k, in_frame |-> new, escaping |-> new,
                     overflowed |-> over]
  PROVE  [d EXCEPT !.escaping = new] = r
OBVIOUS

\* What a closing FEND makes of the whole content.
Report(f) ==
  IF Len(f.payload) + 1 > N THEN Err("FrameTooLarge")
  ELSE Frame(f.command, IF f.command = "Return" THEN 0 ELSE f.port, f.payload)
LEMMA CloseWhole ==
  ASSUME NEW f \in Frames
  PROVE  Close(Receiving(f, Len(f.payload) + 1, FALSE)) = Report(f)
<1> DEFINE n == Len(f.payload) + 1
           d == Receiving(f, n, FALSE)
<1>1. n \in Nat /\ n > 0
  BY ContentOf
<1>2. /\ d.in_frame = TRUE /\ d.len = n /\ d.escaping = FALSE /\ d.buf = Prefix(f, n)
      /\ d.overflowed <=> n > N
  BY DEF Receiving
<1>3. f.command \in Commands /\ f.port \in 0 .. 15
  BY PortsAssumption DEF Frames
<1>4. Head(Content(f)) = to_byte(f.command, f.port) /\ Tail(Content(f)) = f.payload
  BY ContentOf
<1>5. ~(n > N) => Prefix(f, n) = Content(f)
  BY PrefixEnds
<1> HIDE DEF d, n
<1>6. CASE n > N
  <2>1. Close(d) = Err("FrameTooLarge")
    BY <1>1, <1>2, <1>6 DEF Close
  <2> QED
    BY <1>6, <2>1 DEF Report, d, n
<1>7. CASE ~(n > N)
  <2>1. Close(d) = from_byte(Head(Content(f)), Tail(Content(f)))
    BY <1>1, <1>2, <1>5, <1>7 DEF Close
  <2>2. Close(d) = Frame(f.command, IF f.command = "Return" THEN 0 ELSE f.port, f.payload)
    BY <1>3, <1>4, <2>1, CommandByte
  <2> QED
    BY <1>7, <2>2 DEF Report, d, n
<1> QED
  BY <1>6, <1>7

\* A byte of the frame's own, delivered to a deframer in step with the encoder:
\* they stay in step, and the last one reports the frame.
StaysInStep(f, e, r) ==
  \/ e.then = Done /\ r.rx = Ready /\ r.result = Report(f)
  \/ /\ r.result = None /\ e.then.state = "Content"
     /\ r.rx = Receiving(f, e.then.pos, e.then.pending # NoByte)
LEMMA InStepDelivery ==
  ASSUME NEW f \in Frames, NEW pos \in 0 .. Len(f.payload) + 1, NEW pending \in Pending(f, pos)
  PROVE  LET e == Emit(f, AtContent(pos, pending))
             r == push(Receiving(f, pos, pending # NoByte), e.byte)
         IN  StaysInStep(f, e, r)
<1> DEFINE e == Emit(f, AtContent(pos, pending))
           d == Receiving(f, pos, pending # NoByte)
           r == push(d, e.byte)
<1>1. Len(f.payload) \in Nat /\ (pending # NoByte) \in BOOLEAN
  BY ContentOf
<1>2. d.in_frame = TRUE /\ d.escaping = (pending # NoByte) /\ d \in RxStates
  BY <1>1, ReceivingTypes DEF Receiving
<1>3. AtContent(pos + 1, NoByte).state = "Content" /\ AtContent(pos + 1, NoByte).pos = pos + 1
      /\ AtContent(pos + 1, NoByte).pending = NoByte
  BY DEF AtContent
<1>4. CASE EndOfEscape(f, pos, pending, e)
  <2>1. pos \in 0 .. Len(f.payload) /\ e.byte \in {TFEND, TFESC} /\ e.byte # FEND
    BY <1>1, <1>4, EscapeOf DEF EndOfEscape, FEND, TFEND, TFESC
  <2>2. Content(f)[pos + 1] = IF e.byte = TFEND THEN FEND ELSE FESC
    BY <1>4, EscapeOf DEF EndOfEscape
  <2>3. r = [rx |-> store(d, Content(f)[pos + 1]), result |-> None]
    <3>1. d.in_frame /\ d.escaping
      BY <1>2, <1>4 DEF EndOfEscape
    <3> HIDE DEF d, e
    <3> QED
      BY <2>1, <2>2, <3>1 DEF push, OnEscaped
  <2>4. store(d, Content(f)[pos + 1]) = Receiving(f, pos + 1, FALSE)
    <3>1. pos \in 0 .. Len(f.payload)
      BY <2>1
    <3> QED
      BY <1>1, <3>1, StoreNext
  <2>5. e.then = AtContent(pos + 1, NoByte)
    BY <1>4 DEF EndOfEscape
  <2> HIDE DEF d, e, r
  <2>6. StaysInStep(f, e, r)
    BY <1>3, <2>3, <2>4, <2>5 DEF StaysInStep
  <2> QED
    BY <2>6 DEF d, e, r
<1>5. CASE Closing(f, pos, pending, e)
  <2>1. d = Receiving(f, Len(f.payload) + 1, FALSE)
    BY <1>5 DEF Closing
  <2>2. r.rx = Ready /\ r.result = Close(d)
    BY <1>2, <1>5, FendExact DEF Closing
  <2>3. e.then = Done /\ r.result = Report(f)
    BY <1>5, <2>1, <2>2, CloseWhole DEF Closing
  <2> HIDE DEF d, e, r
  <2>4. StaysInStep(f, e, r)
    BY <2>2, <2>3 DEF StaysInStep
  <2> QED
    BY <2>4 DEF d, e, r
<1>6. CASE Escaping(f, pos, pending, e)
  <2>1. r = [rx |-> [d EXCEPT !.escaping = TRUE], result |-> None]
    <3>1. d.in_frame /\ ~d.escaping /\ e.byte = FESC
      BY <1>2, <1>6 DEF Escaping
    <3> HIDE DEF d, e
    <3> QED
      BY <3>1 DEF push, FEND, FESC
  <2>2. [d EXCEPT !.escaping = TRUE] = Receiving(f, pos, TRUE)
    <3> DEFINE yes == TRUE
               over == pos > N
               old == pending # NoByte
               b == Prefix(f, pos)
               to == Receiving(f, pos, TRUE)
    <3>1. /\ d = [buf |-> b, len |-> pos, in_frame |-> yes, escaping |-> old,
                  overflowed |-> over]
          /\ to = [buf |-> b, len |-> pos, in_frame |-> yes, escaping |-> yes,
                   overflowed |-> over]
      BY DEF Receiving
    <3> HIDE DEF d, e, r, yes, over, old, b, to
    <3>2. [d EXCEPT !.escaping = yes] = to
      BY <3>1, EscapeExact
    <3> QED
      BY <3>2 DEF yes, to
  <2>3. /\ e.then.state = "Content" /\ e.then.pos = pos
        /\ e.then.pending \in {TFEND, TFESC} /\ e.then.pending # NoByte
    BY <1>6, EscapeOf DEF Escaping, AtContent, TFEND, TFESC, NoByte
  <2>4. (e.then.pending # NoByte) = TRUE
    BY <2>3
  <2> HIDE DEF d, e, r
  <2>5. StaysInStep(f, e, r)
    BY <2>1, <2>2, <2>3, <2>4 DEF StaysInStep
  <2> QED
    BY <2>5 DEF d, e, r
<1>7. CASE Plain(f, pos, pending, e)
  <2>1. pos \in 0 .. Len(f.payload) /\ e.byte # FEND /\ e.byte # FESC
    BY <1>1, <1>7 DEF Plain, Special
  <2>2. r = [rx |-> store(d, Content(f)[pos + 1]), result |-> None]
    <3>1. d.in_frame /\ ~d.escaping /\ e.byte = Content(f)[pos + 1]
      BY <1>2, <1>7 DEF Plain
    <3> HIDE DEF d, e
    <3> QED
      BY <2>1, <3>1 DEF push
  <2>3. store(d, Content(f)[pos + 1]) = Receiving(f, pos + 1, FALSE)
    <3>1. pos \in 0 .. Len(f.payload)
      BY <2>1
    <3> QED
      BY <1>1, <3>1, StoreNext
  <2>4. e.then = AtContent(pos + 1, NoByte)
    BY <1>7 DEF Plain
  <2> HIDE DEF d, e, r
  <2>5. StaysInStep(f, e, r)
    BY <1>3, <2>2, <2>3, <2>4 DEF StaysInStep
  <2> QED
    BY <2>5 DEF d, e, r
<1>8. \/ EndOfEscape(f, pos, pending, e) \/ Closing(f, pos, pending, e)
      \/ Escaping(f, pos, pending, e) \/ Plain(f, pos, pending, e)
  BY EmitWithin
<1> QED
  BY <1>4, <1>5, <1>6, <1>7, <1>8

-----------------------------------------------------------------------------
(* The steps                                                               *)

\* The states of the encoder are told apart.
LEMMA EncStates ==
  /\ OpenFend.state = "OpenFend" /\ Done.state = "Done" /\ OpenFend # Done
  /\ \A pos, pending : AtContent(pos, pending).state = "Content"
  /\ \A pos, pending : AtContent(pos, pending).pos = pos
  /\ \A pos, pending : AtContent(pos, pending).pending = pending
BY DEF OpenFend, Done, AtContent

\* An encoder that is within the content is at one of its bytes.
LEMMA EncWithin ==
  ASSUME EncSound, enc.state = "Content"
  PROVE  \E pos \in 0 .. Len(frame.payload) + 1 : \E pending \in Pending(frame, pos) :
           enc = AtContent(pos, pending)
BY EncStates DEF EncSound

\* What the first FEND makes of the deframer is what no content yet looks like.
LEMMA ReadyReceives ==
  ASSUME NEW f \in Frames
  PROVE  Ready = Receiving(f, 0, FALSE)
<1> DEFINE no == FALSE
           over == 0 > N
           b == Prefix(f, 0)
<1>1. over = no
  BY NAssumption
<1>2. b = << >>
  BY PrefixEnds
<1>3. /\ Receiving(f, 0, FALSE) = [buf |-> b, len |-> 0, in_frame |-> TRUE, escaping |-> no,
                                   overflowed |-> over]
      /\ Ready = [buf |-> << >>, len |-> 0, in_frame |-> TRUE, escaping |-> no,
                  overflowed |-> no]
  BY DEF Receiving, Ready
<1> HIDE DEF no, over, b
<1> QED
  BY <1>1, <1>2, <1>3

\* A new encoder starts before its opening FEND.
LEMMA InitKissInv == Init => KissInv
<1> SUFFICES ASSUME Init PROVE KissInv
  OBVIOUS
<1>1. frame \in Frames /\ intact \in BOOLEAN /\ sent \in Nat /\ noise \in Nat
  BY DEF Init
<1>2. Sound(rx)
  BY EmptySound DEF Init
<1>3. EncSound
  BY DEF Init, EncSound
<1>4. InStep
  BY EncStates DEF Init, InStep
<1>5. CleanLine
  BY EncStates DEF Init, CleanLine, Hunting
<1> QED
  BY <1>1, <1>2, <1>3, <1>4, <1>5 DEF KissInv

\* Delivering the byte a sound encoder yields to a deframer in step with it.
LEMMA DeliverInStep ==
  ASSUME KissInv, Deliver, intact, enc.state = "Content"
  PROVE  \/ enc' = Done /\ rx' = Ready /\ result' = Report(frame)
         \/ /\ enc'.state = "Content" /\ result' = None
            /\ rx' = Receiving(frame, enc'.pos, enc'.pending # NoByte)
<1>0. PICK pos \in 0 .. Len(frame.payload) + 1 :
        \E pending \in Pending(frame, pos) : enc = AtContent(pos, pending)
  BY EncWithin DEF KissInv
<1>1. PICK pending \in Pending(frame, pos) : enc = AtContent(pos, pending)
  BY <1>0
<1>2. frame \in Frames
  BY DEF KissInv
<1> DEFINE e == Emit(frame, enc)
           r == push(rx, e.byte)
<1>3. rx = Receiving(frame, pos, pending # NoByte)
  BY <1>1, EncStates DEF KissInv, InStep
<1>4. StaysInStep(frame, e, r)
  <2>1. LET x == Emit(frame, AtContent(pos, pending))
            y == push(Receiving(frame, pos, pending # NoByte), x.byte)
        IN  StaysInStep(frame, x, y)
    BY <1>2, InStepDelivery
  <2> QED
    BY <1>1, <1>3, <2>1
<1>5. enc' = e.then /\ rx' = r.rx /\ result' = r.result
  BY DEF Deliver, Advance, Receive
<1> HIDE DEF e, r
<1> QED
  BY <1>4, <1>5 DEF StaysInStep

\* Delivering the opening FEND, whatever the deframer held.
LEMMA DeliverOpening ==
  ASSUME KissInv, Deliver, enc = OpenFend
  PROVE  enc' = AtContent(0, NoByte) /\ rx' = Ready /\ result' = Close(rx)
<1>1. Emit(frame, enc).byte = FEND /\ Emit(frame, enc).then = AtContent(0, NoByte)
  BY DEF Emit, OpenFend
<1>2. rx \in RxStates
  BY DEF KissInv, Sound
<1> QED
  BY <1>1, <1>2, FendExact DEF Deliver, Advance, Receive

\* Each action keeps the invariant.
LEMMA NextKissInv == KissInv /\ [Next]_vars => KissInv'
<1> SUFFICES ASSUME KissInv, [Next]_vars PROVE KissInv'
  OBVIOUS
<1> USE DEF KissInv
<1>1. CASE Begin
  <2>1. /\ frame' \in Frames /\ intact' \in BOOLEAN /\ sent' \in Nat /\ noise' \in Nat
    BY <1>1 DEF Begin
  <2>2. Sound(rx)'
    BY <1>1 DEF Begin, Sound
  <2>3. EncSound'
    BY <1>1 DEF Begin, EncSound
  <2>4. InStep'
    BY <1>1, EncStates DEF Begin, InStep
  <2>5. CleanLine'
    BY <1>1, EncStates DEF Begin, CleanLine
  <2> QED
    BY <2>1, <2>2, <2>3, <2>4, <2>5
<1>2. ASSUME enc # Done, Advance, frame' = frame PROVE EncSound'
  <2>1. \/ Emit(frame, enc).then = Done
        \/ \E pos \in 0 .. Len(frame.payload) + 1 : \E pending \in Pending(frame, pos) :
             Emit(frame, enc).then = AtContent(pos, pending)
    BY <1>2, EmitSound
  <2>2. enc' = Emit(frame, enc).then
    BY <1>2 DEF Advance
  <2>3. \/ enc' = Done
        \/ \E pos \in 0 .. Len(frame.payload) + 1 : \E pending \in Pending(frame, pos) :
             enc' = AtContent(pos, pending)
    BY <2>1, <2>2
  <2>4. ASSUME NEW pos PROVE Pending(frame, pos)' = Pending(frame, pos)
    BY <1>2 DEF Pending, Content, Escape
  <2> QED
    BY <1>2, <2>3, <2>4 DEF EncSound
<1>3. ASSUME NEW byte \in Byte, Receive(byte) PROVE Sound(rx)'
  BY <1>3, PushSound DEF Receive
<1>4. \A byte \in NoiseBytes : byte \in Byte
  BY BytesAssumption DEF Byte
<1>5. CASE Deliver
  <2>1. /\ frame' \in Frames /\ frame' = frame /\ intact' \in BOOLEAN /\ intact' = intact
        /\ sent' \in Nat /\ noise' \in Nat /\ noise' = noise
    BY <1>5 DEF Deliver
  <2>2. Sound(rx)'
    <3>1. Emit(frame, enc).byte \in Byte
      BY <1>5, EmitSound DEF Deliver
    <3> QED
      BY <1>3, <1>5, <3>1 DEF Deliver
  <2>3. EncSound'
    BY <1>2, <1>5 DEF Deliver
  <2>4. CASE enc = OpenFend
    <3>1. enc' = AtContent(0, NoByte) /\ rx' = Ready /\ result' = Close(rx)
      BY <1>5, <2>4, DeliverOpening
    <3>2. enc'.state = "Content" /\ enc'.pos = 0 /\ enc'.pending = NoByte
      BY <3>1, EncStates
    <3>3. rx' = Receiving(frame', enc'.pos, enc'.pending # NoByte)
      BY <2>1, <3>1, <3>2, ReadyReceives
    <3>4. InStep'
      BY <3>3 DEF InStep
    <3>5. noise = 0 => Close(rx) = None
      BY <2>4, EncStates DEF CleanLine, Close
    <3>6. CleanLine'
      BY <2>1, <3>1, <3>2, <3>5 DEF CleanLine
    <3> QED
      BY <2>1, <2>2, <2>3, <3>4, <3>6
  <2>5. CASE enc.state = "Content"
    <3>1. intact => \/ enc' = Done /\ rx' = Ready /\ result' = Report(frame)
                    \/ /\ enc'.state = "Content" /\ result' = None
                       /\ rx' = Receiving(frame, enc'.pos, enc'.pending # NoByte)
      BY <1>5, <2>5, DeliverInStep
    <3>2. InStep'
      BY <2>1, <3>1, EncStates DEF InStep
    <3>3. CleanLine'
      BY <2>1, <3>1, EncStates DEF CleanLine, Ready
    <3> QED
      BY <2>1, <2>2, <2>3, <3>2, <3>3
  <2>6. enc = OpenFend \/ enc.state = "Content"
    BY <1>5, EncStates DEF EncSound, Deliver
  <2> QED
    BY <2>4, <2>5, <2>6
<1>6. CASE Lose
  <2>1. /\ frame' \in Frames /\ intact' = FALSE /\ sent' \in Nat
        /\ noise' \in Nat /\ noise' # 0
    BY <1>6 DEF Lose
  <2>2. Sound(rx)'
    BY <1>6 DEF Lose, Sound
  <2>3. EncSound'
    BY <1>2, <1>6 DEF Lose
  <2> QED
    BY <2>1, <2>2, <2>3 DEF InStep, CleanLine
<1>7. CASE Damage
  <2>1. /\ frame' \in Frames /\ intact' = FALSE /\ sent' \in Nat
        /\ noise' \in Nat /\ noise' # 0
    BY <1>7 DEF Damage
  <2>2. Sound(rx)'
    BY <1>3, <1>4, <1>7 DEF Damage
  <2>3. EncSound'
    BY <1>2, <1>7 DEF Damage
  <2> QED
    BY <2>1, <2>2, <2>3 DEF InStep, CleanLine
<1>8. CASE Inject
  <2>1. /\ frame' \in Frames /\ intact' \in BOOLEAN /\ sent' \in Nat
        /\ noise' \in Nat /\ noise' # 0
    BY <1>8 DEF Inject
  <2>2. Sound(rx)'
    BY <1>3, <1>4, <1>8 DEF Inject
  <2>3. EncSound'
    BY <1>8 DEF Inject, EncSound
  <2>4. InStep'
    BY <1>8, EncStates DEF Inject, InStep
  <2> QED
    BY <2>1, <2>2, <2>3, <2>4 DEF CleanLine
<1>9. CASE UNCHANGED vars
  BY <1>9 DEF vars, Sound, EncSound, InStep, CleanLine
<1> QED
  BY <1>1, <1>5, <1>6, <1>7, <1>8, <1>9 DEF Next

-----------------------------------------------------------------------------
(* The theorems                                                            *)

\* In every behaviour the deframer is sound and, while a frame's own bytes
\* arrive, in step with the encoder.
THEOREM KissInvariant == Spec => []KissInv
<1>1. Init => KissInv
  BY InitKissInv
<1>2. KissInv /\ [Next]_vars => KissInv'
  BY NextKissInv
<1> QED
  BY <1>1, <1>2, PTL DEF Spec

\* A frame whose own bytes all arrived is reported whole and unchanged, or
\* refused as too large, at its closing FEND, whatever came before it: the
\* deframer re-syncs at the FEND that opens the frame (KissDeframer::push).
THEOREM IntactDeliveredCorrect == Spec => IntactDelivered
<1> DEFINE Whole == enc # Done /\ enc' = Done /\ intact' => result' = Report(frame)
<1>1. KissInv /\ [Next]_vars => [Whole]_vars
  <2> SUFFICES ASSUME KissInv, Next, enc # Done, enc' = Done, intact'
               PROVE  result' = Report(frame)
    OBVIOUS
  <2>1. Deliver
    <3>1. ~Begin
      BY DEF Begin
    <3>2. ~Lose /\ ~Damage
      BY DEF Lose, Damage
    <3>3. ~Inject
      BY DEF Inject
    <3> QED
      BY <3>1, <3>2, <3>3 DEF Next
  <2>2. intact /\ frame' = frame
    BY <2>1 DEF Deliver
  <2>3. enc.state = "Content"
    <3>1. enc # OpenFend
      BY <2>1, DeliverOpening, EncStates
    <3> QED
      BY <3>1, EncStates DEF KissInv, EncSound
  <2> QED
    BY <2>1, <2>2, <2>3, DeliverInStep, EncStates
<1>2. [][Whole]_vars => IntactDelivered
  BY DEF IntactDelivered, Report
<1> QED
  BY <1>1, <1>2, KissInvariant, PTL DEF Spec

\* On a clean line a push reports something only as a frame closes: the FEND
\* that opens the next one yields no phantom frame and no error.
THEOREM NoPhantomCorrect == Spec => []NoPhantom
<1>1. KissInv => NoPhantom
  BY EncStates DEF KissInv, CleanLine, EncSound, NoPhantom
<1> QED
  BY <1>1, KissInvariant, PTL

\* Whatever the deframer is given, it answers nothing, a frame or an error.
LEMMA PushKinds ==
  ASSUME NEW d, NEW byte
  PROVE  push(d, byte).result.kind \in {"None", "Ok", "Err"}
<1>1. /\ None.kind = "None"
      /\ \A why : Err(why).kind = "Err"
      /\ \A command, port, payload : Frame(command, port, payload).kind = "Ok"
  BY DEF None, Err, Frame
<1>2. \A b, payload : from_byte(b, payload).kind \in {"Ok", "Err"}
  <2> SUFFICES ASSUME NEW b, NEW payload PROVE from_byte(b, payload).kind \in {"Ok", "Err"}
    OBVIOUS
  <2> HIDE DEF Nibble
  <2> QED
    BY <1>1 DEF from_byte
<1>3. Close(d).kind \in {"None", "Ok", "Err"}
  BY <1>1, <1>2 DEF Close
<1>4. push(d, byte).result \in {Close(d), None, Err("InvalidEscape")}
  BY DEF push, OnFend, OnEscaped
<1> QED
  BY <1>1, <1>3, <1>4

\* The types of the state, and what the deframer's length and overflow flag say
\* of its buffer, hold in every behaviour.
THEOREM TypeCorrect == Spec => []TypeOK
<1> DEFINE Typed == /\ wire \in Seq(0 .. 255)
                    /\ result.kind \in {"None", "Ok", "Err"}
                    /\ sent \in 1 .. MaxFrames /\ noise \in 0 .. MaxNoise
<1>1. Init => Typed
  <2>1. << >> \in Seq(0 .. 255)
    BY EmptySeq
  <2> QED
    BY <2>1, BoundsAssumption DEF Init, None
<1>2. KissInv /\ Typed /\ [Next]_vars => Typed'
  <2> SUFFICES ASSUME KissInv, Typed, [Next]_vars PROVE Typed'
    OBVIOUS
  <2>1. ASSUME enc # Done, Advance PROVE wire' \in Seq(0 .. 255)
    <3>1. Emit(frame, enc).byte \in 0 .. 255
      BY <2>1, EmitSound DEF KissInv, Byte
    <3>2. wire' = Append(wire, Emit(frame, enc).byte)
      BY <2>1 DEF Advance
    <3> QED
      BY <3>1, <3>2, AppendProperties
  <2>2. ASSUME NEW byte, Receive(byte) PROVE result'.kind \in {"None", "Ok", "Err"}
    BY <2>2, PushKinds DEF Receive
  <2>3. None.kind = "None" /\ << >> \in Seq(0 .. 255)
    BY EmptySeq DEF None
  <2>4. CASE Begin
    BY <2>3, <2>4, BoundsAssumption DEF Begin
  <2>5. CASE Deliver
    <3>1. wire' \in Seq(0 .. 255) /\ result'.kind \in {"None", "Ok", "Err"}
      BY <2>1, <2>2, <2>5 DEF Deliver
    <3> QED
      BY <2>5, <3>1 DEF Deliver
  <2>6. CASE Lose
    <3>1. wire' \in Seq(0 .. 255) /\ result'.kind \in {"None", "Ok", "Err"}
      BY <2>1, <2>3, <2>6 DEF Lose
    <3> QED
      BY <2>6, <3>1, BoundsAssumption DEF Lose
  <2>7. CASE Damage
    <3>1. wire' \in Seq(0 .. 255) /\ result'.kind \in {"None", "Ok", "Err"}
      BY <2>1, <2>2, <2>7 DEF Damage
    <3> QED
      BY <2>7, <3>1, BoundsAssumption DEF Damage
  <2>8. CASE Inject
    <3>1. result'.kind \in {"None", "Ok", "Err"}
      BY <2>2, <2>8 DEF Inject
    <3> QED
      BY <2>8, <3>1, BoundsAssumption DEF Inject
  <2>9. CASE UNCHANGED vars
    BY <2>9 DEF vars
  <2> QED
    BY <2>4, <2>5, <2>6, <2>7, <2>8, <2>9 DEF Next
<1>3. KissInv /\ Typed => TypeOK
  BY DEF KissInv, Sound, RxStates, Byte, TypeOK
<1> HIDE DEF Typed
<1> QED
  BY <1>1, <1>2, <1>3, KissInvariant, PTL DEF Spec

-----------------------------------------------------------------------------
(* A whole frame, encoded                                                  *)

\* Any set of numbers that is not empty has a least one.
LEMMA LeastOf ==
  ASSUME NEW T, T \subseteq Nat, T # {}
  PROVE  \E x \in T : \A y \in T : x <= y
<1>1. PICK x \in T : \A y \in T : ~ (<<y, x>> \in OpToRel(<, Nat))
  BY NatLessThanWellFounded, WFMin
<1>2. \A y \in T : ~(y < x)
  BY <1>1, Zenon DEF OpToRel
<1>3. \A y \in T : x <= y
  BY <1>2
<1> QED
  BY <1>3

\* g is what the first n bytes of f's content become, for each n up to k.
Loops(g, f, k) ==
  g = [n \in 0 .. k |-> IF n = 0 THEN <<>> ELSE g[n - 1] \o Escape(Content(f)[n])]

\* The recurrence, by itself.
Recurs(g, f, k) ==
  g[0] = <<>> /\ \A n \in 1 .. k : g[n] = g[n - 1] \o Escape(Content(f)[n])

LEMMA LoopsStep ==
  ASSUME NEW f, NEW k \in Nat, NEW g, Loops(g, f, k)
  PROVE  Recurs(g, f, k)
<1>1. \A n \in 0 .. k : g[n] = IF n = 0 THEN <<>> ELSE g[n - 1] \o Escape(Content(f)[n])
  BY DEF Loops
<1>2. 0 \in 0 .. k /\ \A n \in 1 .. k : n \in 0 .. k /\ n # 0
  OBVIOUS
<1>3. g[0] = <<>>
  BY <1>1, <1>2
<1>4. \A n \in 1 .. k : g[n] = g[n - 1] \o Escape(Content(f)[n])
  BY <1>1, <1>2, Zenon
<1> QED
  BY <1>3, <1>4 DEF Recurs

\* There is such a function: no number of bytes is the least without one.
LEMMA LoopsExist ==
  ASSUME NEW f, NEW len \in Nat
  PROVE  \E g : Loops(g, f, len)
<1> DEFINE T == {k \in Nat : ~ \E g : Loops(g, f, k)}
           Next1(h, n) == h[n - 1] \o Escape(Content(f)[n])
<1>1. SUFFICES ASSUME T # {} PROVE FALSE
  OBVIOUS
<1>2. PICK k \in T : \A y \in T : k <= y
  <2>1. T \subseteq Nat
    OBVIOUS
  <2> HIDE DEF T
  <2> QED
    BY <1>1, <2>1, LeastOf
<1>3. k \in Nat /\ ~ \E g : Loops(g, f, k)
  OBVIOUS
<1>4. k # 0
  <2> DEFINE g == [n \in 0 .. 0 |-> <<>>]
  <2>1. \A n \in 0 .. 0 : n = 0
    OBVIOUS
  <2>2. g = [n \in 0 .. 0 |-> IF n = 0 THEN <<>> ELSE Next1(g, n)]
    <3> HIDE DEF Next1
    <3> QED
      BY <2>1
  <2>3. Loops(g, f, 0)
    BY <2>2 DEF Loops
  <2> QED
    BY <1>3, <2>3
<1>5. PICK h : Loops(h, f, k - 1)
  <2>1. k - 1 \in Nat /\ ~(k <= k - 1)
    BY <1>3, <1>4
  <2>2. k - 1 \notin T
    BY <1>2, <2>1
  <2> QED
    BY <2>1, <2>2
<1> DEFINE g == [n \in 0 .. k |-> IF n = k THEN Next1(h, k) ELSE h[n]]
<1>6. ASSUME NEW n \in 0 .. k
      PROVE  g[n] = IF n = 0 THEN <<>> ELSE g[n - 1] \o Escape(Content(f)[n])
  <2>1. k - 1 \in Nat /\ h[0] = <<>> /\ \A j \in 1 .. k - 1 : h[j] = Next1(h, j)
    <3>1. Recurs(h, f, k - 1)
      BY <1>3, <1>4, <1>5, LoopsStep
    <3>2. k - 1 \in Nat
      BY <1>3, <1>4
    <3> QED
      BY <3>1, <3>2, Zenon DEF Recurs
  <2>2. \A j \in 0 .. k - 1 : j \in 0 .. k /\ j # k /\ (j # 0 => j \in 1 .. k - 1)
    BY <1>3
  <2>3. g[k] = Next1(h, k)
    <3> HIDE DEF Next1
    <3> QED
      BY <1>3
  <2>4. \A j \in 0 .. k - 1 : g[j] = h[j]
    <3> HIDE DEF Next1
    <3> QED
      BY <2>2
  <2>5. CASE n = k
    <3>1. k # 0 /\ k - 1 \in 0 .. k - 1
      BY <1>3, <1>4
    <3>2. g[k - 1] = h[k - 1]
      BY <2>4, <3>1
    <3>3. g[k] = h[k - 1] \o Escape(Content(f)[k])
      BY <2>3
    <3> HIDE DEF g, Next1
    <3> QED
      BY <2>5, <3>1, <3>2, <3>3, Zenon
  <2>6. CASE n # k
    <3>1. n \in 0 .. k - 1 /\ (n # 0 => n \in 1 .. k - 1 /\ n - 1 \in 0 .. k - 1)
      BY <1>3, <2>6
    <3>2. g[n] = h[n] /\ (n # 0 => g[n - 1] = h[n - 1])
      BY <2>4, <3>1
    <3>3. n # 0 => h[n] = h[n - 1] \o Escape(Content(f)[n])
      BY <2>1, <3>1
    <3> HIDE DEF g, Next1
    <3> QED
      BY <2>1, <3>2, <3>3, Zenon
  <2> QED
    BY <2>5, <2>6
<1>7. Loops(g, f, k)
  <2>1. g = [n \in 0 .. k |-> g[n]]
    OBVIOUS
  <2> HIDE DEF g
  <2> QED
    BY <1>6, <2>1 DEF Loops
<1> QED
  BY <1>3, <1>7

\* encode_into's loop takes one byte of the content at a time.
LEMMA EscapedStep ==
  ASSUME NEW f \in Frames
  PROVE  Recurs(Escaped(f), f, Len(f.payload) + 1)
<1> DEFINE k == Len(f.payload) + 1
           g == CHOOSE g : Loops(g, f, k)
<1>1. k \in Nat
  BY ContentOf
<1>2. Escaped(f) = g
  BY DEF Escaped, Loops
<1>3. Loops(g, f, k)
  <2> HIDE DEF k
  <2> QED
    BY <1>1, LoopsExist
<1> HIDE DEF g, k
<1>4. Recurs(g, f, k)
  BY <1>1, <1>3, LoopsStep
<1> QED
  BY <1>2, <1>4 DEF k

\* Two bytes are one after the other.
LEMMA PairOf ==
  ASSUME NEW a \in Byte, NEW b \in Byte
  PROVE  <<a, b>> \in Seq(Byte) /\ Len(<<a, b>>) = 2 /\ <<a, b>> = <<a>> \o <<b>>
<1>1. <<a>> \in Seq(Byte) /\ <<a, b>> \in Seq(Byte) /\ Len(<<a, b>>) = 2
  OBVIOUS
<1>2. Append(<<a>>, b) = <<a>> \o <<b>>
  BY <1>1, AppendIsConcat
<1>3. Append(<<a>>, b) = <<a, b>>
  <2> DEFINE x == Append(<<a>>, b)
             y == <<a, b>>
  <2>1. x \in Seq(Byte) /\ Len(x) = 2 /\ x[1] = a /\ x[2] = b
    BY <1>1, AppendProperties
  <2>2. y \in Seq(Byte) /\ Len(y) = 2 /\ y[1] = a /\ y[2] = b
    BY <1>1
  <2> HIDE DEF x, y
  <2>3. \A i \in 1 .. Len(x) : x[i] = y[i]
    BY <2>1, <2>2
  <2>4. x = y
    BY <2>1, <2>2, <2>3, SeqEqual
  <2> QED
    BY <2>4 DEF x, y
<1> QED
  BY <1>1, <1>2, <1>3

\* What a byte becomes: one byte, or two where it is special.
LEMMA EscapeType ==
  ASSUME NEW b \in Byte
  PROVE  /\ Escape(b) \in Seq(Byte)
         /\ b \in Special => /\ Escape(b)[2] \in Byte /\ Len(Escape(b)) = 2
                             /\ Escape(b) = <<FESC>> \o <<Escape(b)[2]>>
         /\ b \notin Special => Escape(b) = <<b>> /\ Len(Escape(b)) = 1
<1>1. FESC \in Byte /\ TFEND \in Byte /\ TFESC \in Byte /\ FEND # FESC
  BY DEF FEND, FESC, TFEND, TFESC, Byte
<1>2. CASE b = FEND
  <2>1. Escape(b) = <<FESC, TFEND>>
    BY <1>1, <1>2 DEF Escape
  <2>2. /\ <<FESC, TFEND>> \in Seq(Byte) /\ Len(<<FESC, TFEND>>) = 2
        /\ <<FESC, TFEND>> = <<FESC>> \o <<TFEND>>
    BY <1>1, PairOf
  <2>3. Escape(b)[2] = TFEND
    BY <2>1
  <2> QED
    BY <1>1, <1>2, <2>1, <2>2, <2>3 DEF Special
<1>3. CASE b = FESC
  <2>1. Escape(b) = <<FESC, TFESC>>
    BY <1>1, <1>3 DEF Escape
  <2>2. /\ <<FESC, TFESC>> \in Seq(Byte) /\ Len(<<FESC, TFESC>>) = 2
        /\ <<FESC, TFESC>> = <<FESC>> \o <<TFESC>>
    BY <1>1, PairOf
  <2>3. Escape(b)[2] = TFESC
    BY <2>1
  <2> QED
    BY <1>1, <1>3, <2>1, <2>2, <2>3 DEF Special
<1>4. CASE b \notin Special
  <2>1. Escape(b) = <<b>>
    BY <1>4 DEF Escape, Special
  <2> QED
    BY <1>4, <2>1
<1> QED
  BY <1>2, <1>3, <1>4 DEF Special

\* The special bytes among the first n of f's content.
Specials(f, n) == {i \in 1 .. n : Content(f)[i] \in Special}

\* What the first n bytes become is a sequence of bytes, and as long as they are
\* and as many again as are special.
EscapedUpTo(f, n) ==
  /\ Escaped(f)[n] \in Seq(Byte)
  /\ IsFiniteSet(Specials(f, n))
  /\ Len(Escaped(f)[n]) = n + Cardinality(Specials(f, n))
LEMMA EscapedType ==
  ASSUME NEW f \in Frames, NEW m \in 0 .. Len(f.payload) + 1
  PROVE  EscapedUpTo(f, m)
<1> DEFINE k == Len(f.payload) + 1
           T == {n \in 0 .. k : ~ EscapedUpTo(f, n)}
<1>0. k \in Nat
  BY ContentOf
<1>1. SUFFICES ASSUME T # {} PROVE FALSE
  OBVIOUS
<1>2. PICK n \in T : \A y \in T : n <= y
  <2>1. T \subseteq Nat
    BY <1>0
  <2> HIDE DEF T
  <2> QED
    BY <1>1, <2>1, LeastOf
<1>3. n \in 0 .. k /\ ~ EscapedUpTo(f, n)
  OBVIOUS
<1>4. Escaped(f)[0] = <<>> /\ \A j \in 1 .. k : Escaped(f)[j] = Escaped(f)[j - 1] \o Escape(Content(f)[j])
  BY EscapedStep DEF Recurs
<1> HIDE DEF k
<1>5. n # 0
  <2>1. Specials(f, 0) = {}
    BY DEF Specials
  <2>2. << >> \in Seq(Byte) /\ Len(<< >>) = 0
    BY EmptySeq
  <2>3. IsFiniteSet({}) /\ Cardinality({}) = 0
    BY FS_EmptySet
  <2>4. EscapedUpTo(f, 0)
    <3>1. Escaped(f)[0] \in Seq(Byte) /\ Len(Escaped(f)[0]) = 0
      BY <1>4, <2>2
    <3>2. IsFiniteSet(Specials(f, 0)) /\ Cardinality(Specials(f, 0)) = 0
      BY <2>1, <2>3
    <3> QED
      BY <3>1, <3>2 DEF EscapedUpTo
  <2> QED
    BY <1>3, <2>4
<1>6. n \in 1 .. k /\ n - 1 \in 0 .. k /\ ~(n <= n - 1)
  BY <1>0, <1>3, <1>5
<1>7. EscapedUpTo(f, n - 1)
  <2>1. n - 1 \notin T
    BY <1>2, <1>6
  <2> QED
    BY <1>6, <2>1
<1> HIDE DEF T
<1> DEFINE b == Content(f)[n]
           e == Escaped(f)[n - 1]
           s == Specials(f, n - 1)
<1>8. b \in Byte
  BY <1>6, ContentOf, ElementOfSeq DEF k
<1>9. /\ e \in Seq(Byte) /\ IsFiniteSet(s) /\ Cardinality(s) \in Nat
      /\ Len(e) = n - 1 + Cardinality(s)
  BY <1>7, FS_CardinalityType DEF EscapedUpTo
<1>10. Escaped(f)[n] = e \o Escape(b)
  BY <1>4, <1>6
<1>11. \A i : i \in 1 .. n <=> i \in 1 .. n - 1 \/ i = n
  BY <1>6
<1>12. n \notin s
  BY <1>6 DEF Specials
<1>13. Escape(b) \in Seq(Byte)
  BY <1>8, EscapeType
<1>14. e \o Escape(b) \in Seq(Byte) /\ Len(e \o Escape(b)) = Len(e) + Len(Escape(b))
  BY <1>9, <1>13, ConcatProperties
<1>15. CASE b \in Special
  <2>1. Specials(f, n) = s \cup {n}
    BY <1>11, <1>15 DEF Specials
  <2>2. IsFiniteSet(s \cup {n}) /\ Cardinality(s \cup {n}) = Cardinality(s) + 1
    BY <1>9, <1>12, FS_AddElement
  <2>3. Len(Escape(b)) = 2
    BY <1>8, <1>15, EscapeType
  <2> HIDE DEF b, e, s
  <2>4. EscapedUpTo(f, n)
    BY <1>6, <1>9, <1>10, <1>14, <2>1, <2>2, <2>3 DEF EscapedUpTo
  <2> QED
    BY <1>3, <2>4
<1>16. CASE b \notin Special
  <2>1. Specials(f, n) = s
    BY <1>11, <1>16 DEF Specials
  <2>2. Len(Escape(b)) = 1
    BY <1>8, <1>16, EscapeType
  <2> HIDE DEF b, e, s
  <2>3. EscapedUpTo(f, n)
    BY <1>6, <1>9, <1>10, <1>14, <2>1, <2>2 DEF EscapedUpTo
  <2> QED
    BY <1>3, <2>3
<1> QED
  BY <1>15, <1>16

LEMMA BytesAssociate ==
  \A r, s, t \in Seq(Byte) : (r \o s) \o t = r \o (s \o t)
BY ConcatAssociative

\* What fewer bytes become begins what more of them become.
LEMMA EscapedBegins ==
  ASSUME NEW f \in Frames, NEW n \in 0 .. Len(f.payload) + 1,
         NEW m \in n .. Len(f.payload) + 1
  PROVE  \E t \in Seq(Byte) : Escaped(f)[m] = Escaped(f)[n] \o t
<1> DEFINE k == Len(f.payload) + 1
           Reaches(j) == \E t \in Seq(Byte) : Escaped(f)[j] = Escaped(f)[n] \o t
           T == {j \in n .. k : ~ Reaches(j)}
<1>0. k \in Nat
  BY ContentOf
<1>1. SUFFICES ASSUME T # {} PROVE FALSE
  OBVIOUS
<1>2. PICK j \in T : \A y \in T : j <= y
  <2>1. T \subseteq Nat
    BY <1>0
  <2> HIDE DEF T
  <2> QED
    BY <1>1, <2>1, LeastOf
<1>3. j \in n .. k /\ ~ Reaches(j)
  OBVIOUS
<1>4. \A i \in 1 .. k : Escaped(f)[i] = Escaped(f)[i - 1] \o Escape(Content(f)[i])
  BY EscapedStep DEF Recurs
<1>5. Escaped(f)[n] \in Seq(Byte)
  BY EscapedType DEF EscapedUpTo
<1>6. j # n
  <2>1. << >> \in Seq(Byte) /\ Escaped(f)[n] = Escaped(f)[n] \o << >>
    BY <1>5, EmptySeq, ConcatEmptySeq
  <2>2. Reaches(n)
    BY <2>1
  <2> HIDE DEF Reaches
  <2> QED
    BY <1>3, <2>2
<1>7. j \in 1 .. k /\ j - 1 \in n .. k /\ ~(j <= j - 1)
  BY <1>0, <1>3, <1>6
<1>8. Reaches(j - 1)
  <2>1. j - 1 \notin T
    BY <1>2, <1>7
  <2> HIDE DEF Reaches
  <2> QED
    BY <1>7, <2>1
<1>9. PICK t \in Seq(Byte) : Escaped(f)[j - 1] = Escaped(f)[n] \o t
  BY <1>8
<1> DEFINE x == Escape(Content(f)[j])
<1>10. x \in Seq(Byte)
  <2>1. Content(f)[j] \in Byte
    BY <1>7, ContentOf, ElementOfSeq
  <2> QED
    BY <2>1, EscapeType
<1>11. Escaped(f)[j] = (Escaped(f)[n] \o t) \o x
  BY <1>4, <1>7, <1>9
<1> HIDE DEF x, T
<1>12. (Escaped(f)[n] \o t) \o x = Escaped(f)[n] \o (t \o x)
  <2> DEFINE e == Escaped(f)[n]
  <2>1. e \in Seq(Byte)
    BY <1>5
  <2> HIDE DEF e
  <2>2. (e \o t) \o x = e \o (t \o x)
    BY <1>10, <2>1, BytesAssociate, Zenon
  <2> QED
    BY <2>2 DEF e
<1>13. t \o x \in Seq(Byte)
  BY <1>10, ConcatProperties
<1> QED
  BY <1>3, <1>11, <1>12, <1>13

\* s begins w.
Begins(s, w) == \E t \in Seq(Byte) : w = s \o t

LEMMA BeginsOn ==
  ASSUME NEW s \in Seq(Byte), NEW u, NEW w, Begins(s, u), Begins(u, w)
  PROVE  Begins(s, w)
<1>1. PICK t1 \in Seq(Byte) : u = s \o t1
  BY DEF Begins
<1>2. PICK t2 \in Seq(Byte) : w = u \o t2
  BY DEF Begins
<1>3. w = s \o (t1 \o t2)
  BY <1>1, <1>2, ConcatAssociative
<1>4. t1 \o t2 \in Seq(Byte)
  BY ConcatProperties
<1> QED
  BY <1>3, <1>4 DEF Begins

LEMMA BeginsSub ==
  ASSUME NEW s \in Seq(Byte), NEW w, Begins(s, w)
  PROVE  s = SubSeq(w, 1, Len(s))
<1>1. PICK t \in Seq(Byte) : w = s \o t
  BY DEF Begins
<1>2. SubSeq(s \o t, 1, Len(s)) = s
  <2>1. CASE Len(s) = 0
    <3>1. s = <<>> /\ SubSeq(s \o t, 1, 0) = <<>>
      BY <2>1, EmptySeq, SubSeqEmpty
    <3> QED
      BY <2>1, <3>1
  <2>2. CASE Len(s) # 0
    <3>1. 1 \in 1 .. Len(s) /\ Len(s) \in 1 .. Len(s)
      BY <2>2, LenProperties
    <3>2. SubSeq(s \o t, 1, Len(s)) = SubSeq(s, 1, Len(s))
      BY <3>1, SubSeqOfConcat1
    <3> QED
      BY <3>2, SubSeqFull
  <2> QED
    BY <2>1, <2>2
<1> QED
  BY <1>1, <1>2

\* The wire once the opening FEND and the first pos bytes are out.
Opened(f, pos) == <<FEND>> \o Escaped(f)[pos]

LEMMA OpenedType ==
  ASSUME NEW f \in Frames, NEW pos \in 0 .. Len(f.payload) + 1
  PROVE  /\ Opened(f, pos) \in Seq(Byte)
         /\ Len(Opened(f, pos)) = 1 + pos + Cardinality(Specials(f, pos))
         /\ Cardinality(Specials(f, pos)) \in Nat
<1> DEFINE o == <<FEND>>
           e == Escaped(f)[pos]
           c == Cardinality(Specials(f, pos))
<1>1. o \in Seq(Byte) /\ Len(o) = 1
  BY DEF FEND, Byte
<1>2. e \in Seq(Byte) /\ Len(e) = pos + c /\ c \in Nat
  BY EscapedType, FS_CardinalityType DEF EscapedUpTo
<1>3. Opened(f, pos) = o \o e
  BY DEF Opened
<1>4. Len(f.payload) \in Nat
  BY ContentOf
<1> HIDE DEF o, e, c
<1>5. o \o e \in Seq(Byte) /\ Len(o \o e) = Len(o) + Len(e)
  BY <1>1, <1>2, ConcatProperties
<1>6. Opened(f, pos) \in Seq(Byte) /\ Len(Opened(f, pos)) = 1 + pos + c /\ c \in Nat
  BY <1>1, <1>2, <1>3, <1>4, <1>5
<1> QED
  BY <1>6 DEF c

\* What is out grows by what the next byte becomes.
LEMMA OpenedGrows ==
  ASSUME NEW f \in Frames, NEW pos \in 0 .. Len(f.payload)
  PROVE  /\ Content(f)[pos + 1] \in Byte
         /\ Opened(f, pos + 1) = Opened(f, pos) \o Escape(Content(f)[pos + 1])
<1> DEFINE o == <<FEND>>
           e == Escaped(f)[pos]
           b == Content(f)[pos + 1]
           x == Escape(b)
<1>1. Len(f.payload) \in Nat /\ pos + 1 \in 1 .. Len(f.payload) + 1
      /\ pos \in 0 .. Len(f.payload) + 1 /\ (pos + 1) - 1 = pos
  BY ContentOf
<1>2. b \in Byte
  BY <1>1, ContentOf, ElementOfSeq
<1>3. x \in Seq(Byte)
  BY <1>2, EscapeType
<1>4. o \in Seq(Byte)
  BY DEF FEND, Byte
<1>5. e \in Seq(Byte)
  BY <1>1, EscapedType DEF EscapedUpTo
<1>6. Escaped(f)[pos + 1] = e \o x
  <2>1. \A n \in 1 .. Len(f.payload) + 1 :
          Escaped(f)[n] = Escaped(f)[n - 1] \o Escape(Content(f)[n])
    BY EscapedStep DEF Recurs
  <2> QED
    BY <1>1, <2>1
<1>7. Opened(f, pos + 1) = o \o Escaped(f)[pos + 1] /\ Opened(f, pos) = o \o e
  BY DEF Opened
<1> HIDE DEF o, e, x
<1>8. (o \o e) \o x = o \o (e \o x)
  BY <1>3, <1>4, <1>5, ConcatAssociative
<1>9. Opened(f, pos + 1) = Opened(f, pos) \o x
  BY <1>6, <1>7, <1>8
<1> QED
  BY <1>2, <1>9 DEF x

\* The wire at each state of the encoder.
SoFar(f, pos, pending) ==
  IF pending = NoByte THEN Opened(f, pos) ELSE Append(Opened(f, pos), FESC)
WireFollows ==
  /\ enc = OpenFend => wire = <<>>
  /\ enc = Done => wire = encode_into(frame)
  /\ enc.state = "Content" => wire = SoFar(frame, enc.pos, enc.pending)

\* Appending an escape's two bytes, or a plain byte, is appending what the
\* byte becomes.
LEMMA AppendEscape ==
  ASSUME NEW s \in Seq(Byte), NEW b \in Byte
  PROVE  /\ b \in Special => Append(Append(s, FESC), Escape(b)[2]) = s \o Escape(b)
         /\ b \notin Special => Append(s, b) = s \o Escape(b)
<1>1. CASE b \in Special
  <2> DEFINE c == FESC
             d == Escape(b)[2]
  <2>1. c \in Byte /\ d \in Byte /\ Escape(b) = <<c>> \o <<d>>
    <3>1. FESC \in Byte
      BY DEF FESC, Byte
    <3> QED
      BY <1>1, <3>1, EscapeType
  <2> HIDE DEF c, d
  <2>2. Append(s, c) \in Seq(Byte) /\ Append(s, c) = s \o <<c>>
    BY <2>1, AppendProperties, AppendIsConcat
  <2>3. Append(Append(s, c), d) = (s \o <<c>>) \o <<d>>
    BY <2>1, <2>2, AppendIsConcat
  <2>4. <<c>> \in Seq(Byte) /\ <<d>> \in Seq(Byte)
    BY <2>1
  <2>5. (s \o <<c>>) \o <<d>> = s \o (<<c>> \o <<d>>)
    BY <2>4, ConcatAssociative
  <2>6. Append(Append(s, c), d) = s \o Escape(b)
    BY <2>1, <2>3, <2>5
  <2> QED
    BY <1>1, <2>6 DEF c, d
<1>2. CASE b \notin Special
  <2>1. Escape(b) = <<b>>
    BY <1>2, EscapeType
  <2>2. Append(s, b) = s \o <<b>>
    BY AppendIsConcat
  <2> QED
    BY <1>2, <2>1, <2>2
<1> QED
  BY <1>1, <1>2

\* The byte the encoder yields is the next one on the wire.
Extends(f, w, e) ==
  \/ e.then = Done /\ Append(w, e.byte) = encode_into(f)
  \/ \E pos, pending : e.then = AtContent(pos, pending)
                       /\ Append(w, e.byte) = SoFar(f, pos, pending)
LEMMA EmitExtends ==
  ASSUME NEW f \in Frames, NEW pos \in 0 .. Len(f.payload) + 1, NEW pending \in Pending(f, pos)
  PROVE  Extends(f, SoFar(f, pos, pending), Emit(f, AtContent(pos, pending)))
<1> DEFINE e == Emit(f, AtContent(pos, pending))
           w == SoFar(f, pos, pending)
           o == Opened(f, pos)
           b == Content(f)[pos + 1]
<1>1. Len(f.payload) \in Nat
  BY ContentOf
<1>2. o \in Seq(Byte)
  BY OpenedType
<1>3. ASSUME pos <= Len(f.payload)
      PROVE  b \in Byte /\ Opened(f, pos + 1) = o \o Escape(b)
  BY <1>1, <1>3, OpenedGrows
<1>4. SoFar(f, pos + 1, NoByte) = Opened(f, pos + 1)
  BY DEF SoFar
<1>5. w = IF pending = NoByte THEN o ELSE Append(o, FESC)
  BY DEF SoFar
<1> HIDE DEF e, w, o
<1>6. CASE EndOfEscape(f, pos, pending, e)
  <2>1. /\ pending # NoByte /\ pos <= Len(f.payload) /\ b \in Special
        /\ e.byte = Escape(b)[2] /\ e.then = AtContent(pos + 1, NoByte)
    BY <1>6 DEF EndOfEscape
  <2> HIDE DEF b
  <2>2. Append(w, e.byte) = SoFar(f, pos + 1, NoByte)
    BY <1>2, <1>3, <1>4, <1>5, <2>1, AppendEscape
  <2> QED
    BY <2>1, <2>2 DEF Extends, e, w
<1>7. CASE Closing(f, pos, pending, e)
  <2>1. pending = NoByte /\ pos = Len(f.payload) + 1 /\ e.byte = FEND /\ e.then = Done
    BY <1>7 DEF Closing
  <2>2. FEND \in Byte
    BY DEF FEND, Byte
  <2>3. Append(o, FEND) = o \o <<FEND>>
    BY <1>2, <2>2, AppendIsConcat
  <2>4. encode_into(f) = o \o <<FEND>>
    BY <2>1 DEF encode_into, Opened, o
  <2>5. Append(w, e.byte) = encode_into(f)
    BY <1>5, <2>1, <2>3, <2>4
  <2> QED
    BY <2>1, <2>5 DEF Extends, e, w
<1>8. CASE Escaping(f, pos, pending, e)
  <2>1. /\ pending = NoByte /\ b \in Special /\ e.byte = FESC
        /\ e.then = AtContent(pos, Escape(b)[2])
    BY <1>8 DEF Escaping
  <2>2. Escape(b)[2] # NoByte
    BY <2>1, EscapeOf DEF NoByte, TFEND, TFESC
  <2> HIDE DEF b
  <2>3. Append(w, e.byte) = SoFar(f, pos, Escape(b)[2])
    BY <1>5, <2>1, <2>2 DEF SoFar, o
  <2> QED
    BY <2>1, <2>3 DEF Extends, e, w
<1>9. CASE Plain(f, pos, pending, e)
  <2>1. /\ pending = NoByte /\ pos <= Len(f.payload) /\ b \notin Special
        /\ e.byte = b /\ e.then = AtContent(pos + 1, NoByte)
    BY <1>9 DEF Plain
  <2> HIDE DEF b
  <2>2. Append(w, e.byte) = SoFar(f, pos + 1, NoByte)
    BY <1>2, <1>3, <1>4, <1>5, <2>1, AppendEscape
  <2> QED
    BY <2>1, <2>2 DEF Extends, e, w
<1>10. \/ EndOfEscape(f, pos, pending, e) \/ Closing(f, pos, pending, e)
       \/ Escaping(f, pos, pending, e) \/ Plain(f, pos, pending, e)
  BY EmitWithin DEF e
<1> QED
  BY <1>6, <1>7, <1>8, <1>9, <1>10 DEF e, w

\* Each byte out keeps the wire what its state says it is.
LEMMA AdvanceFollows ==
  ASSUME KissInv, WireFollows, enc # Done, Advance, frame' = frame
  PROVE  WireFollows'
<1> DEFINE e == Emit(frame, enc)
<1>1. frame \in Frames /\ enc' = e.then /\ wire' = Append(wire, e.byte)
  BY DEF KissInv, Advance
<1>2. Extends(frame, wire, e)
  <2>1. CASE enc = OpenFend
    <3>1. e.byte = FEND /\ e.then = AtContent(0, NoByte) /\ wire = <<>>
      BY <2>1 DEF Emit, OpenFend, WireFollows
    <3>2. FEND \in Byte
      BY DEF FEND, Byte
    <3>3. Append(<<>>, FEND) = <<FEND>>
      OBVIOUS
    <3>4. <<FEND>> \o <<>> = <<FEND>>
      BY <3>2, ConcatEmptySeq
    <3>5. Escaped(frame)[0] = <<>>
      BY <1>1, EscapedStep DEF Recurs
    <3>6. SoFar(frame, 0, NoByte) = <<FEND>>
      BY <3>4, <3>5 DEF SoFar, Opened
    <3> HIDE DEF e
    <3>7. Append(wire, e.byte) = SoFar(frame, 0, NoByte)
      BY <3>1, <3>3, <3>6
    <3> QED
      BY <3>1, <3>7 DEF Extends
  <2>2. CASE enc # OpenFend
    <3>1. enc.state = "Content"
      BY <2>2, EncStates DEF KissInv, EncSound
    <3>2. PICK pos \in 0 .. Len(frame.payload) + 1 :
            \E pending \in Pending(frame, pos) : enc = AtContent(pos, pending)
      BY <3>1, EncWithin DEF KissInv
    <3>3. PICK pending \in Pending(frame, pos) : enc = AtContent(pos, pending)
      BY <3>2
    <3>4. wire = SoFar(frame, pos, pending)
      BY <3>1, <3>3, EncStates DEF WireFollows
    <3>5. Extends(frame, SoFar(frame, pos, pending), Emit(frame, AtContent(pos, pending)))
      BY <1>1, EmitExtends
    <3> QED
      BY <3>3, <3>4, <3>5
  <2> QED
    BY <2>1, <2>2
<1> HIDE DEF e
<1>3. CASE enc' = Done /\ wire' = encode_into(frame)
  BY <1>3, EncStates DEF WireFollows
<1>4. ASSUME NEW pos, NEW pending, enc' = AtContent(pos, pending),
             wire' = SoFar(frame, pos, pending)
      PROVE  WireFollows'
  <2>1. enc' # OpenFend /\ enc' # Done /\ enc'.pos = pos /\ enc'.pending = pending
    BY <1>4, EncStates
  <2>2. wire' = SoFar(frame', enc'.pos, enc'.pending)
    BY <1>4, <2>1
  <2> QED
    BY <2>1, <2>2 DEF WireFollows
<1> QED
  BY <1>1, <1>2, <1>3, <1>4 DEF Extends

LEMMA WireInit == Init => WireFollows
BY EncStates DEF Init, WireFollows

LEMMA WireNext == KissInv /\ WireFollows /\ [Next]_vars => WireFollows'
<1> SUFFICES ASSUME KissInv, WireFollows, [Next]_vars PROVE WireFollows'
  OBVIOUS
<1>1. CASE Begin
  BY <1>1, EncStates DEF Begin, WireFollows
<1>2. CASE Deliver \/ Lose \/ Damage
  <2>1. enc # Done /\ Advance /\ frame' = frame
    BY <1>2 DEF Deliver, Lose, Damage
  <2> QED
    BY <2>1, AdvanceFollows
<1>3. CASE UNCHANGED <<frame, enc, wire>>
  <2>1. frame' = frame /\ enc' = enc /\ wire' = wire
    BY <1>3
  <2> QED
    BY <2>1, Zenon DEF WireFollows
<1>4. Inject => UNCHANGED <<frame, enc, wire>>
  BY DEF Inject
<1>5. UNCHANGED vars => UNCHANGED <<frame, enc, wire>>
  BY DEF vars
<1> QED
  BY <1>1, <1>2, <1>3, <1>4, <1>5 DEF Next

\* What is out while a byte is pending begins what is out after it.
LEMMA SoFarBegins ==
  ASSUME NEW f \in Frames, NEW pos \in 0 .. Len(f.payload) + 1, NEW pending \in Pending(f, pos)
  PROVE  SoFar(f, pos, pending) \in Seq(Byte) /\ Begins(SoFar(f, pos, pending), encode_into(f))
<1> DEFINE k == Len(f.payload) + 1
           last == <<FEND>>
<1>1. k \in Nat /\ FEND \in Byte /\ FESC \in Byte /\ last \in Seq(Byte)
  BY ContentOf DEF FEND, FESC, Byte
<1>2. Begins(Opened(f, k), encode_into(f))
  BY <1>1 DEF Begins, encode_into, Opened
<1>3. ASSUME NEW n \in 0 .. k
      PROVE  Opened(f, n) \in Seq(Byte) /\ Begins(Opened(f, n), encode_into(f))
  <2> DEFINE o == Opened(f, n)
  <2>1. o \in Seq(Byte)
    BY OpenedType
  <2>2. PICK t \in Seq(Byte) : Escaped(f)[k] = Escaped(f)[n] \o t
    <3>1. k \in n .. k
      BY <1>1
    <3> QED
      BY <3>1, EscapedBegins
  <2>3. Escaped(f)[n] \in Seq(Byte)
    BY EscapedType DEF EscapedUpTo
  <2> DEFINE x == Escaped(f)[n]
             y == <<FEND>>
  <2>4. x \in Seq(Byte) /\ y \in Seq(Byte) /\ o = y \o x /\ Opened(f, k) = y \o (x \o t)
    BY <1>1, <2>2, <2>3 DEF Opened
  <2> HIDE DEF x, y, o, last, k
  <2>5. y \o (x \o t) = (y \o x) \o t
    <3>1. t \in Seq(Byte) /\ x \in Seq(Byte) /\ y \in Seq(Byte)
      BY <2>2, <2>4
    <3> QED
      BY <3>1, ConcatAssociative
  <2>6. Opened(f, k) = o \o t
    BY <2>4, <2>5
  <2>7. Begins(o, Opened(f, k))
    BY <2>2, <2>6 DEF Begins
  <2>8. Begins(o, encode_into(f))
    BY <1>2, <2>1, <2>7, BeginsOn
  <2> QED
    BY <2>1, <2>8 DEF o
<1>4. CASE pending = NoByte
  BY <1>3, <1>4 DEF SoFar
<1>5. CASE pending # NoByte
  <2> DEFINE o == Opened(f, pos)
             b == Content(f)[pos + 1]
             s == Append(o, FESC)
             c == Escape(b)[2]
  <2>1. pos \in 0 .. Len(f.payload) /\ b \in Special
    BY <1>1, <1>5 DEF Pending
  <2>2. b \in Byte /\ Opened(f, pos + 1) = o \o Escape(b)
    BY <2>1, OpenedGrows
  <2>3. o \in Seq(Byte) /\ c \in Byte
    BY <1>3, <2>1, <2>2, EscapeType
  <2>4. Append(s, c) = Opened(f, pos + 1)
    BY <2>1, <2>2, <2>3, AppendEscape
  <2>5. pos + 1 \in 0 .. k
    BY <1>1, <2>1
  <2>6. SoFar(f, pos, pending) = s
    BY <1>5 DEF SoFar
  <2> HIDE DEF o, b, c, k
  <2>7. s \in Seq(Byte)
    BY <1>1, <2>3, AppendProperties
  <2> HIDE DEF s
  <2>8. Opened(f, pos + 1) = s \o <<c>>
    BY <2>3, <2>4, <2>7, AppendIsConcat
  <2>9. Begins(s, Opened(f, pos + 1))
    <3>1. <<c>> \in Seq(Byte)
      BY <2>3
    <3> QED
      BY <2>8, <3>1 DEF Begins
  <2>10. Begins(s, encode_into(f))
    BY <1>3, <2>5, <2>7, <2>9, BeginsOn
  <2> QED
    BY <2>6, <2>7, <2>10
<1> QED
  BY <1>4, <1>5

\* encode_into writes exactly encoded_len bytes.
LEMMA EncodedLength ==
  ASSUME NEW f \in Frames
  PROVE  encode_into(f) \in Seq(Byte) /\ Len(encode_into(f)) = encoded_len(f)
<1> DEFINE k == Len(f.payload) + 1
           o == Opened(f, k)
           c == Cardinality(Specials(f, k))
           last == <<FEND>>
<1>1. k \in Nat /\ k \in 0 .. Len(f.payload) + 1 /\ Len(f.payload) \in Nat
  BY ContentOf
<1>2. o \in Seq(Byte) /\ Len(o) = 1 + k + c /\ c \in Nat
  BY <1>1, OpenedType
<1>3. last \in Seq(Byte) /\ Len(last) = 1
  BY DEF FEND, Byte
<1>4. encode_into(f) = o \o last
  BY DEF encode_into, Opened
<1>5. encoded_len(f) = 3 + Len(f.payload) + c
  BY DEF encoded_len, Specials
<1> HIDE DEF o, c, last
<1>6. o \o last \in Seq(Byte) /\ Len(o \o last) = Len(o) + Len(last)
  BY <1>2, <1>3, ConcatProperties
<1> QED
  BY <1>1, <1>2, <1>3, <1>4, <1>5, <1>6

\* The lazy iterator, encode_into and encoded_len agree byte for byte: whatever
\* KissFrameIter has yielded so far is what encode_into's buffer begins with, and
\* at its end it has yielded exactly encoded_len bytes.
THEOREM EncodersAgreeCorrect == Spec => []EncodersAgree
<1>1. KissInv /\ WireFollows => EncodersAgree
  <2> SUFFICES ASSUME KissInv, WireFollows PROVE EncodersAgree
    OBVIOUS
  <2>1. frame \in Frames
    BY DEF KissInv
  <2>2. CASE enc = OpenFend
    <3>1. wire = <<>> /\ Len(wire) = 0 /\ enc # Done
      BY <2>2, EncStates, EmptySeq DEF WireFollows
    <3>2. SubSeq(encode_into(frame), 1, 0) = <<>>
      BY SubSeqEmpty
    <3> QED
      BY <3>1, <3>2 DEF EncodersAgree
  <2>3. CASE enc = Done
    <3>1. /\ wire = encode_into(frame) /\ wire \in Seq(Byte)
          /\ Len(wire) = encoded_len(frame)
      BY <2>1, <2>3, EncodedLength DEF WireFollows
    <3>2. SubSeq(wire, 1, Len(wire)) = wire
      BY <3>1, SubSeqFull
    <3> QED
      BY <3>1, <3>2 DEF EncodersAgree
  <2>4. CASE enc.state = "Content"
    <3>1. PICK pos \in 0 .. Len(frame.payload) + 1 :
            \E pending \in Pending(frame, pos) : enc = AtContent(pos, pending)
      BY <2>4, EncWithin DEF KissInv
    <3>2. PICK pending \in Pending(frame, pos) : enc = AtContent(pos, pending)
      BY <3>1
    <3>3. wire = SoFar(frame, pos, pending) /\ enc # Done
      BY <2>4, <3>2, EncStates DEF WireFollows
    <3>4. wire \in Seq(Byte) /\ Begins(wire, encode_into(frame))
      BY <2>1, <3>3, SoFarBegins
    <3>5. wire = SubSeq(encode_into(frame), 1, Len(wire))
      BY <3>4, BeginsSub
    <3> QED
      BY <3>3, <3>5 DEF EncodersAgree
  <2>5. enc = OpenFend \/ enc = Done \/ enc.state = "Content"
    BY EncStates DEF KissInv, EncSound
  <2> QED
    BY <2>2, <2>3, <2>4, <2>5
<1> QED
  BY <1>1, WireInit, WireNext, KissInvariant, PTL DEF Spec
=============================================================================
