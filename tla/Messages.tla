------------------------------ MODULE Messages ------------------------------
(***************************************************************************)
(* src/src/aprs/message.rs, status.rs and capabilities.rs: the reports     *)
(* whose body is text; telemetry.rs, whose definitions are messages; and   *)
(* object.rs, object and item reports.                                     *)
(***************************************************************************)
EXTENDS Position

CR == 13
LF == 10

-----------------------------------------------------------------------------
(* Messages: an addressee, and Text with an optional id, an Ack or a Reject *)

ADDRESSEE_MAX == 9
MESSAGE_ID_MAX == 5
NoId == <<>>

IsAddresseeByte(b) == IsGraphic(b) /\ b # B[":"]
Padded(name) == name \o [i \in 1 .. ADDRESSEE_MAX - Len(name) |-> B[" "]]
check_id(id) == Len(id) \in 1 .. MESSAGE_ID_MAX

\* One trailing CR or LF, then one trailing CR.
StripEnd(s) ==
  LET Drop(t, ends) == IF t # <<>> /\ Last(t) \in ends THEN Front(t) ELSE t
  IN  Drop(Drop(s, {CR, LF}), {CR})

\* parse_body: "ack" and "rej" with a legal id, else text; the last brace opens
\* an id if what follows can be one.
parse_content(raw) ==
  LET s     == StripEnd(raw)
      tail  == From(s, 3)
      reply == check_id(tail) /\ Find(tail, B["{"]) = 0
      brace == Max({0} \cup {i \in DOMAIN s : s[i] = B["{"]})
  IN  IF StartsWith(s, Bytes("ack")) /\ reply THEN [kind |-> "Ack", text |-> <<>>, id |-> tail]
      ELSE IF StartsWith(s, Bytes("rej")) /\ reply THEN [kind |-> "Reject", text |-> <<>>, id |-> tail]
      ELSE IF brace # 0 /\ check_id(From(s, brace))
      THEN [kind |-> "Text", text |-> SubSeq(s, 1, brace - 1), id |-> From(s, brace)]
      ELSE [kind |-> "Text", text |-> s, id |-> NoId]

parse_message(s) ==
  LET name == TrimEnd(Slice(s, 1, ADDRESSEE_MAX))
  IN  IF Has(s, ADDRESSEE_MAX + 2) /\ name # <<>> /\ AllIn(name, IsAddresseeByte)
           /\ s[ADDRESSEE_MAX + 2] = B[":"]
      THEN Ok([addressee |-> name, content |-> parse_content(From(s, ADDRESSEE_MAX + 2))])
      ELSE Err

build_message(m) ==
  LET c    == m.content
      body == CASE c.kind = "Ack" -> Bytes("ack") \o c.id
                [] c.kind = "Reject" -> Bytes("rej") \o c.id
                [] OTHER -> c.text \o (IF c.id = NoId THEN <<>> ELSE <<B["{"]>> \o c.id)
  IN  IF (c.kind # "Text" \/ c.id # NoId) /\ ~check_id(c.id) THEN Err
      ELSE Ok(<<B[":"]>> \o Padded(m.addressee) \o <<B[":"]>> \o body)

\* acked_number: the part of a reply's id before the reply-ack brace, which may
\* be empty; Err is None, for a text acknowledges nothing.
acked_number(c) ==
  IF c.kind = "Text" THEN Err
  ELSE IF Find(c.id, B["}"]) = 0 THEN Ok(c.id)
  ELSE Ok(SubSeq(c.id, 1, Find(c.id, B["}"]) - 1))

-----------------------------------------------------------------------------
(* Status: >text, in which a Zulu time or a locator may lead and a beam     *)
(* heading may close                                                       *)

status_timestamp(text) ==
  IF Has(text, 7) /\ text[7] = B["z"] THEN parse_timestamp(text, 0) ELSE Err

\* grid_of_length.
grid_of_length(text, n) ==
  LET grid == from_bytes(Slice(text, 0, n))
      sym  == Slice(text, n, 2)
  IN  IF Has(text, n + 2) /\ grid.ok /\ IsValidSymbol(sym) /\ (Has(text, n + 3) => text[n + 3] = B[" "])
      THEN Ok([grid |-> grid.v, symbol |-> sym]) ELSE Err

status_grid(text) ==
  IF grid_of_length(text, 6).ok THEN grid_of_length(text, 6) ELSE grid_of_length(text, 4)

beam(text) ==
  LET t    == From(text, Len(text) - 3)
      tens == IF IsDigit(t[2]) THEN t[2] - B["0"] ELSE 10 + t[2] - B["A"]
      code == t[3] - B["0"]
  IN  IF Has(text, 3) /\ t[1] = B["^"] /\ IsOverlay(t[2]) /\ t[3] \in B["1"] .. B["K"] /\ tens <= 36
      THEN Ok([heading |-> (tens * 10) % 360, watts |-> code * code * 10]) ELSE Err

\* Status::message: the text without those parts.
status_message(text) ==
  LET grid == status_grid(text)
      skip == Len(grid.v.grid) + 2
      rest == IF status_timestamp(text).ok THEN From(text, 7)
              ELSE IF ~grid.ok THEN text
              ELSE From(text, IF Has(text, skip + 1) THEN skip + 1 ELSE skip)
  IN  IF beam(text).ok THEN SubSeq(rest, 1, Len(rest) - 3) ELSE rest

parse_status(s) == Ok([text |-> From(s, 1)])
build_status(r) == Ok(<<B[">"]>> \o r.text)

-----------------------------------------------------------------------------
(* Capabilities: <TOKEN,NAME=VALUE,...                                      *)

capability_tokens(body) == SelectSeq(Split(body, B[","]), LAMBDA t : t # <<>>)
has_capability(body, name) == name \in Range(capability_tokens(body))
\* Capabilities::value: of the first NAME=VALUE with that name.
capability_value(body, name) ==
  LET named == SelectSeq(capability_tokens(body), LAMBDA t : StartsWith(t, name \o <<B["="]>>))
  IN  IF named = <<>> THEN Err ELSE Ok(From(named[1], Len(name) + 1))

parse_capabilities(s) == Ok([body |-> From(s, 1)])
build_capabilities(r) == Ok(<<B["<"]>> \o r.body)

-----------------------------------------------------------------------------
(* Telemetry, src/src/aprs/telemetry.rs: the reports and the four          *)
(* definitions (PARM, UNIT, EQNS, BITS) that messages carry.               *)
(*                                                                         *)
(* A value is a decimal number: sign, significant digits and how many of   *)
(* them are decimals; <<>> stands for a channel that was not sent.         *)

ANALOG_CHANNELS == 5
DIGITAL_BITS == 8
SEQ_DIGITS_MAX == 5
SEQ_DIGITS_MIN == 3
ANALOG_DIGITS_MIN == 3
DECIMALS_MAX == 18
DEFINITION_LABELS == ANALOG_CHANNELS + DIGITAL_BITS
EQUATION_COEFFICIENTS == ANALOG_CHANNELS * 3

IsBit(b) == b \in {B["0"], B["1"]}
Zeros(n) == [i \in 1 .. n |-> B["0"]]
PadLeft(s, w) == Zeros(w - Len(s)) \o s

-----------------------------------------------------------------------------
(* Values                                                                  *)

Unsent == <<>>
Significant(s) == From(s, Max({0} \cup {i \in DOMAIN s : \A j \in 1 .. i : s[j] = B["0"]}))
\* The largest i64: one digit or one unit more overflows.
I64Max == Bytes("9223372036854775807")
Overflows(digits) ==
  \/ Len(digits) > Len(I64Max)
  \/ /\ Len(digits) = Len(I64Max)
     /\ \E i \in DOMAIN digits : digits[i] > I64Max[i] /\ \A j \in 1 .. i - 1 : digits[j] = I64Max[j]

\* parse_value: sign, digits, at most one point; empty is "not sent".
parse_value(s) ==
  LET signed == s[1] \in {B["-"], B["+"]}
      num    == IF signed THEN Tail(s) ELSE s
      digits == SelectSeq(num, IsDigit)
      point  == Find(num, B["."])
      value  == [neg |-> s[1] = B["-"] /\ Significant(digits) # <<>>, digits |-> Significant(digits),
                 decimals |-> IF point = 0 THEN 0 ELSE Len(num) - point]
  IN  IF s = <<>> THEN Ok(Unsent)
      ELSE IF \/ digits = <<>> \/ Len(num) - Len(digits) # (IF point = 0 THEN 0 ELSE 1)
              \/ Overflows(Significant(digits)) \/ value.decimals > DECIMALS_MAX
      THEN Err ELSE Ok(<<value>>)

\* TelemetryValue::write: three digits at least for a non-negative integer.
write_value(value) ==
  LET v     == value[1]
      width == IF v.decimals > 0 THEN v.decimals + 1 ELSE IF v.neg THEN 1 ELSE ANALOG_DIGITS_MIN
      s     == PadLeft(v.digits, width)
      head  == Len(s) - v.decimals
  IN  (IF v.neg THEN <<B["-"]>> ELSE <<>>) \o SubSeq(s, 1, head)
        \o (IF v.decimals > 0 THEN <<B["."]>> \o From(s, head) ELSE <<>>)

-----------------------------------------------------------------------------
(* Reports: T#seq,a1,...,a5,bbbbbbbb                                        *)

is_digital_field(f) ==
  Has(f, DIGITAL_BITS) /\ AllIn(Slice(f, 0, DIGITAL_BITS), IsBit)
    /\ (Has(f, DIGITAL_BITS + 1) => ~IsDigit(f[DIGITAL_BITS + 1]))

Join(fields, sep) ==
  FoldLeft(LAMBDA acc, i : acc \o (IF i = 1 THEN <<>> ELSE <<sep>>) \o fields[i], <<>>,
           [i \in DOMAIN fields |-> i])

\* Telemetry::parse: the last field of eight bits anchors the digital block;
\* the fields between the sequence and it are analog, at most five.
Channels(values, seq, digital, rest) ==
  IF Len(values) > ANALOG_CHANNELS \/ \E i \in DOMAIN values : ~values[i].ok THEN Err
  ELSE Ok([seq |-> Num(seq), digital |-> digital, rest |-> rest,
           analog |-> [i \in 1 .. ANALOG_CHANNELS |-> IF i \in DOMAIN values THEN values[i].v ELSE Unsent]])

ChannelsOf(fields, digital) ==
  LET analog == SubSeq(fields, 2, IF digital = 0 THEN Len(fields) ELSE digital - 1)
      seq    == fields[1]
  IN  IF Len(seq) \notin 1 .. SEQ_DIGITS_MAX \/ ~AllDigits(seq) THEN Err
      ELSE Channels([i \in DOMAIN analog |-> parse_value(analog[i])], seq,
                    IF digital = 0 THEN <<>> ELSE Slice(fields[digital], 0, DIGITAL_BITS),
                    IF digital = 0 THEN <<>>
                    ELSE From(Join(SubSeq(fields, digital, Len(fields)), B[","]), DIGITAL_BITS))

parse_telemetry(s) ==
  LET raw == From(s, 2)
  IN  IF SubSeq(s, 1, 2) # Bytes("T#") THEN Err
      ELSE With(Split(IF raw # <<>> /\ Last(raw) \in {CR, LF} THEN Front(raw) ELSE raw, B[","]), LAMBDA fields :
             ChannelsOf(fields, Max({0} \cup {i \in DOMAIN fields : is_digital_field(fields[i])})))

seq_digits(seq) == CHOOSE w \in SEQ_DIGITS_MIN .. 10 :
                     seq < 10 ^ w /\ (w = SEQ_DIGITS_MIN \/ seq >= 10 ^ (w - 1))
channels_written(t) == Max({0} \cup {i \in 1 .. ANALOG_CHANNELS : t.analog[i] # Unsent})

build_telemetry(t) ==
  LET channel(i) == <<B[","]>> \o (IF t.analog[i] = Unsent THEN <<>> ELSE write_value(t.analog[i]))
  IN  IF seq_digits(t.seq) > SEQ_DIGITS_MAX THEN Err
      ELSE Ok(Bytes("T#") \o Digits(t.seq, seq_digits(t.seq))
                \o FlattenSeq([i \in 1 .. channels_written(t) |-> channel(i)])
                \o (IF t.digital = <<>> THEN <<>> ELSE <<B[","]>> \o t.digital) \o t.rest)

-----------------------------------------------------------------------------
(* Definitions, in the text of a message                                   *)

NoDefinition == [kind |-> "none"]

\* labels: five analog and eight digital names at most.
labels(kind, body) ==
  LET fields == Split(body, B[","])
  IN  IF Len(fields) > DEFINITION_LABELS THEN NoDefinition ELSE [kind |-> kind, labels |-> fields]

trim_ascii_spaces(s) ==
  LET ink == {i \in DOMAIN s : s[i] \notin {B[" "], 9}}
  IN  IF ink = {} THEN <<>> ELSE SubSeq(s, Min(ink), Max(ink))

\* equations: one coefficient that is no number spoils them all.
equations(body) ==
  LET fields == Split(body, B[","])
      values == [i \in DOMAIN fields |-> parse_value(trim_ascii_spaces(fields[i]))]
  IN  IF Len(fields) > EQUATION_COEFFICIENTS \/ \E i \in DOMAIN values : ~values[i].ok THEN NoDefinition
      ELSE [kind |-> "Equations", coefficients |-> [i \in DOMAIN values |-> values[i].v]]

\* TelemetryEquations::channel: a channel is scaled by its three coefficients
\* or by none.
equation_channel(coefficients, channel) ==
  LET three == SubSeq(coefficients, 3 * channel - 2, 3 * channel)
  IN  IF Len(three) = 3 /\ Unsent \notin Range(three) THEN Ok(three) ELSE Err

bit_sense(body) ==
  LET bits == Slice(body, 0, DIGITAL_BITS)
      rest == From(body, DIGITAL_BITS)
  IN  IF Has(body, DIGITAL_BITS) /\ AllIn(bits, IsBit) /\ (rest # <<>> => ~IsBit(rest[1]))
      THEN [kind |-> "BitSense", sense |-> bits,
            title |-> IF rest # <<>> /\ rest[1] = B[","] THEN Tail(rest) ELSE rest]
      ELSE [kind |-> "BitSense", sense |-> <<>>, title |-> body]

telemetry_definition(text) ==
  LET tag == SubSeq(text, 1, 5)  body == From(text, 5)
  IN  CASE tag = Bytes("PARM.") -> labels("Parameters", body)
        [] tag = Bytes("UNIT.") -> labels("Units", body)
        [] tag = Bytes("EQNS.") -> equations(body)
        [] tag = Bytes("BITS.") -> bit_sense(body)
        [] OTHER -> NoDefinition

-----------------------------------------------------------------------------
(***************************************************************************)
(* Object and item reports.  Both carry a position body without csT and    *)
(* extension; the bytes after the body, an extension included, are the     *)
(* comment.                                                                *)
(***************************************************************************)

NAME_LEN == 9
NAME_MIN == 3
NAME_MAX == 9
IsNameByte(b) == b \in 32 .. 126

\* Object::POSITION_AT: ';', name, '*' or '_', timestamp.
POSITION_AT == 2 + NAME_LEN + 7

\* as_position: what write_body is given.
as_position(o) ==
  [lat |-> o.lat, lon |-> o.lon, symbol |-> o.symbol, ambiguity |-> o.ambiguity,
   messaging |-> FALSE, compressed |-> o.compressed, extension |-> NoExtension, comment |-> <<>>]

\* What both reports take over from the parsed body of s at offset at.
PlaceOf(s, at, p) ==
  [lat |-> p.lat, lon |-> p.lon, symbol |-> p.symbol, ambiguity |-> p.ambiguity,
   compressed |-> p.compressed, comment |-> From(s, at + body_len(p))]

\* Object::coordinates, Item::coordinates.
object_coordinates(o) == [lat |-> Mask(o.lat, o.ambiguity), lon |-> Mask(o.lon, o.ambiguity)]

-----------------------------------------------------------------------------
(* Objects: ;NNNNNNNNN*DDHHMMz...                                           *)

check_name(raw) ==
  LET name == TrimEnd(raw) IN IF name # <<>> /\ AllIn(name, IsNameByte) THEN Ok(name) ELSE Err

parse_object(s) ==
  LET flag == s[2 + NAME_LEN]
  IN  IF ~Has(s, POSITION_AT + COMPRESSED_BODY) \/ flag \notin {B["*"], B["_"]} THEN Err
      ELSE Then(check_name(Slice(s, 1, NAME_LEN)), LAMBDA name :
             Then(parse_timestamp(s, 2 + NAME_LEN), LAMBDA time :
               Then(parse_body(s, POSITION_AT, FALSE), LAMBDA body :
                 Ok([name |-> name, live |-> flag = B["*"], timestamp |-> time]
                      @@ PlaceOf(s, POSITION_AT, body.position)))))

build_object(o) ==
  IF Len(o.name) \notin 1 .. NAME_LEN \/ ~AllIn(o.name, IsNameByte) THEN Err
  ELSE Then(write_timestamp(o.timestamp), LAMBDA time :
         Then(write_body(as_position(o), NoData, DefaultType), LAMBDA body :
           Ok(<<B[";"]>> \o o.name \o [i \in 1 .. NAME_LEN - Len(o.name) |-> B[" "]]
                \o <<IF o.live THEN B["*"] ELSE B["_"]>> \o time \o body \o o.comment)))

-----------------------------------------------------------------------------
(* Items: )NNN!...                                                          *)

Terminators == {B["!"], B["_"]}

\* Item::parse: the name runs to the first terminator.  It asks for the 19
\* bytes of an uncompressed body whatever the body's spelling.
parse_item(s) ==
  LET ends == {i \in 2 .. Len(s) : s[i] \in Terminators}
      end  == Min(ends)
      name == SubSeq(s, 2, end - 1)
  IN  IF ends = {} \/ ~AllIn(name, IsNameByte) \/ Len(name) \notin NAME_MIN .. NAME_MAX
           \/ ~Has(s, end + LATLON_LEN)
      THEN Err
      ELSE Then(parse_body(s, end, FALSE), LAMBDA body :
             Ok([name |-> name, live |-> s[end] = B["!"]] @@ PlaceOf(s, end, body.position)))

build_item(o) ==
  IF \/ Len(o.name) \notin NAME_MIN .. NAME_MAX
     \/ ~AllIn(o.name, LAMBDA b : IsNameByte(b) /\ b \notin Terminators)
  THEN Err
  ELSE Then(write_body(as_position(o), NoData, DefaultType), LAMBDA body :
         Ok(<<B[")"]>> \o o.name \o <<IF o.live THEN B["!"] ELSE B["_"]>> \o body \o o.comment))
=============================================================================
