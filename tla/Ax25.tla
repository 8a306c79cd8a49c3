-------------------------------- MODULE Ax25 --------------------------------
(***************************************************************************)
(* src/src/ax25/addr.rs and src/src/ax25/frame.rs: addresses and UI        *)
(* frames; and their text form, the monitor line and third-party traffic   *)
(* of src/src/aprs/monitor.rs and thirdparty.rs.                           *)
(***************************************************************************)
EXTENDS Text

ADDRESS_LEN == 7
CONTROL_UI == 3
PF_BIT == 16
PID_NO_LAYER3 == 240
MAX_DIGIPEATERS == 8
MIN_FRAME_LEN == 2 * ADDRESS_LEN + 2

-----------------------------------------------------------------------------
(* Addresses: [call, ssid].  In the frame every octet is shifted left, the  *)
(* low bit of the seventh closes the address field and its high bit is the  *)
(* command or has-been-repeated bit                                         *)

IsCallByte(b) == IsUpper(b) \/ IsDigit(b)

\* Callsign::new, Ssid::new, Address::new.
Address(call, ssid) ==
  IF Len(call) \in 1 .. 6 /\ AllIn(call, IsCallByte) /\ ssid \in 0 .. 15
  THEN Ok([call |-> call, ssid |-> ssid]) ELSE Err

as_padded(call) == call \o [i \in 1 .. 6 - Len(call) |-> B[" "]]

encode_address(a, high, last) ==
  [i \in 1 .. 6 |-> 2 * as_padded(a.call)[i]]
    \o << (IF high THEN 128 ELSE 0) + 96 + 2 * a.ssid + (IF last THEN 1 ELSE 0) >>

\* PathHop::decode: nothing but blanks may follow a blank.
decode_address(field) ==
  LET chars == [i \in 1 .. 6 |-> field[i] \div 2]
      a     == Address(TrimEnd(chars), (field[7] \div 2) % 16)
  IN  IF a.ok THEN Ok([address |-> a.v, repeated |-> field[7] >= 128, last |-> field[7] % 2 = 1])
      ELSE Err

\* parse_text_address: CALL or CALL-N.
parse_text_address(text) ==
  LET dash == Find(text, B["-"])
      ssid == From(text, dash)
  IN  IF dash = 0 THEN Address(text, 0)
      ELSE IF Len(ssid) \in 1 .. 2 /\ AllDigits(ssid)
      THEN Address(SubSeq(text, 1, dash - 1), Num(ssid)) ELSE Err

-----------------------------------------------------------------------------
(* UI frames: [dest, src, hops, info]; a hop is [address, repeated]         *)

\* with_path, with_hops.
with_hops(dest, src, hops, info) ==
  IF Len(hops) > MAX_DIGIPEATERS THEN Err
  ELSE Ok([dest |-> dest, src |-> src, hops |-> hops, info |-> info])

\* UiFrame::build.
build_frame(f) ==
  encode_address(f.dest, TRUE, FALSE) \o encode_address(f.src, FALSE, f.hops = <<>>)
    \o FlattenSeq([i \in DOMAIN f.hops |->
                     encode_address(f.hops[i].address, f.hops[i].repeated, i = Len(f.hops))])
    \o << CONTROL_UI, PID_NO_LAYER3 >> \o f.info

\* UiFrame::parse: addresses up to the one that closes the field.  The poll
\* bit is ignored.
parse_frame(s) ==
  LET field(k)  == decode_address(Slice(s, (k - 1) * ADDRESS_LEN, ADDRESS_LEN))
      whole     == 1 .. Min({Len(s) \div ADDRESS_LEN, MAX_DIGIPEATERS + 2})
      closing   == {k \in whole : s[k * ADDRESS_LEN] % 2 = 1}
      n         == Min(closing)
      at        == n * ADDRESS_LEN
      control   == s[at + 1]
  IN  IF \/ Len(s) < MIN_FRAME_LEN \/ closing = {} \/ n < 2
         \/ \E k \in 1 .. n : ~field(k).ok
         \/ ~Has(s, at + 2)
         \/ (control \div (2 * PF_BIT)) * (2 * PF_BIT) + (control % PF_BIT) # CONTROL_UI
         \/ s[at + 2] # PID_NO_LAYER3
      THEN Err
      ELSE Ok([dest |-> field(1).v.address, src |-> field(2).v.address,
               hops |-> [i \in 1 .. n - 2 |-> [address  |-> field(i + 2).v.address,
                                               repeated |-> field(i + 2).v.repeated]],
               info |-> From(s, at + 2)])

-----------------------------------------------------------------------------
(* src/src/aprs/monitor.rs and src/src/aprs/thirdparty.rs: TNC2 monitor    *)
(* lines SRC>DEST,PATH:info and third-party traffic, a line after '}'.     *)

CALLSIGN_MAX == 9
EndOfLine == {10, 13}

trim_eol(s) == SubSeq(s, 1, Max({0} \cup {i \in DOMAIN s : s[i] \notin EndOfLine}))

\* MonitorLine::parse.
parse_line(text) ==
  LET s      == trim_eol(text)
      colon  == Find(s, B[":"])
      header == SubSeq(s, 1, colon - 1)
      gt     == Find(header, B[">"])
      source == SubSeq(header, 1, gt - 1)
      after  == From(header, gt)
      comma  == Find(after, B[","])
      dest   == IF comma = 0 THEN after ELSE SubSeq(after, 1, comma - 1)
  IN  IF colon = 0 \/ gt = 0 \/ Len(source) \notin 1 .. CALLSIGN_MAX \/ Len(dest) \notin 1 .. CALLSIGN_MAX
      THEN Err
      ELSE Ok([source |-> source, dest |-> dest,
               path |-> IF comma = 0 THEN <<>> ELSE From(after, comma), info |-> From(s, colon)])

format_line(source, dest, path, info) ==
  source \o <<B[">"]>> \o dest \o (IF path = <<>> THEN <<>> ELSE <<B[","]>> \o path)
    \o <<B[":"]>> \o info

\* Hops: the path's elements, without the asterisk of a used one.  A trailing
\* comma opens no element.
hops(path) ==
  LET elements == IF path = <<>> THEN <<>>
                  ELSE LET e == Split(path, B[","]) IN IF Last(e) = <<>> THEN Front(e) ELSE e
      starred(e) == e # <<>> /\ Last(e) = B["*"]
  IN  [i \in DOMAIN elements |-> [call     |-> IF starred(elements[i]) THEN Front(elements[i]) ELSE elements[i],
                                  repeated |-> starred(elements[i])]]
calls(path) == {hops(path)[i].call : i \in DOMAIN hops(path)}
UpperCase(s) == [i \in DOMAIN s |-> ToUpper(s[i])]

is_q_construct(e) == Len(e) = 3 /\ e[1] = B["q"] /\ e[2] = B["A"]
\* Index of the first q construct, 0 if there is none.
QAt(path) ==
  LET at == {i \in DOMAIN hops(path) : is_q_construct(hops(path)[i].call)} IN IF at = {} THEN 0 ELSE Min(at)
q_construct(path) == IF QAt(path) = 0 THEN <<>> ELSE hops(path)[QAt(path)].call
\* igate: the element after the construct.
igate(path) ==
  IF QAt(path) = 0 \/ QAt(path) = Len(hops(path)) THEN <<>> ELSE hops(path)[QAt(path) + 1].call
is_from_rf(path) == q_construct(path) \in {Bytes("qAR"), Bytes("qAr"), Bytes("qAO"), Bytes("qAo")}
\* MonitorLine::path_contains and is_gate_forbidden ignore case.
line_path_contains(path, needle) == \E c \in calls(path) : UpperCase(c) = UpperCase(needle)
line_gate_forbidden(path) ==
  line_path_contains(path, Bytes("NOGATE")) \/ line_path_contains(path, Bytes("RFONLY"))

-----------------------------------------------------------------------------
(* Third-party traffic                                                     *)

\* ThirdParty::parse.
parse_third_party(s) ==
  Then(parse_line(Tail(s)), LAMBDA line :
    Ok([source |-> line.source, dest |-> line.dest, path |-> line.path, payload |-> line.info]))

\* ThirdParty::path_contains compares case and all.
path_contains(path, needle) == needle \in calls(path)
is_from_internet(path) == path_contains(path, Bytes("TCPIP")) \/ path_contains(path, Bytes("TCPXX"))
is_gate_forbidden(path) == path_contains(path, Bytes("NOGATE")) \/ path_contains(path, Bytes("RFONLY"))
=============================================================================
