-------------------------------- MODULE MicE --------------------------------
(***************************************************************************)
(* src/src/aprs/mic_e.rs: Mic-E reports.  The latitude, the message bits   *)
(* and the signs travel in the six characters of the destination callsign, *)
(* the rest in the information field, so the two have to agree on one      *)
(* longitude.  An option is an empty or a one-element sequence.            *)
(***************************************************************************)
EXTENDS Position

MIC_E_CURRENT == B["grave"]
MIC_E_OLD == B["'"]
ALTITUDE_OFFSET == 10000
MIC_E_HEADER == 9

\* MicEMessage: three bits and whether they are of the custom set; custom 000
\* is Emergency all the same.
from_bits(bits, custom) == [bits |-> bits, custom |-> custom /\ bits # 0]

\* split_dmh: rounded to hundredths of a minute once, then split.
split_dmh(a) ==
  LET h == to_hundredths(a)
  IN  [deg |-> h \div 6000, min |-> (h \div 100) % 60, hund |-> h % 100]

\* check_symbol_table of Mic-E: overlays 0-9 and A-Z, no a-j.
mic_e_table(b) == b \in {Primary, Alternate} \/ IsOverlay(b)

\* MicE::new.
new_mic_e(lat, lon, speed, course, symbol, message) ==
  IF lon.deg > 179 \/ speed > 799 \/ course > 360 \/ ~mic_e_table(symbol[1]) THEN Err
  ELSE Ok([lat |-> lat, lon |-> lon, speed |-> speed, course |-> course, symbol |-> symbol,
           message |-> message, fix |-> MIC_E_CURRENT, altitude |-> <<>>, prefix |-> <<>>,
           ambiguity |-> EXACT, status |-> <<>>])

-----------------------------------------------------------------------------
(* Encoding                                                                *)

\* Mutant: the digit is spelled although it is to be blank.
dest_char_exact(digit, blank, one, custom) ==
  (IF ~one THEN B["0"] ELSE IF custom THEN B["A"] ELSE B["P"]) + digit
\* A character of the destination: a latitude digit or a blank, and a bit.
dest_char(digit, blank, one, custom) ==
  (IF ~one THEN B["0"] ELSE IF custom THEN B["A"] ELSE B["P"])
    + (IF ~blank THEN digit ELSE IF one THEN 10 ELSE B["L"] - B["0"])

\* The whole degrees that say whether the longitude needs its offset: of the
\* stored longitude, not of the rounded one that encode_info spells.
OffsetDegrees(lon) == lon.deg

encode_destination(m) ==
  LET s      == split_dmh(m.lat)
      digits == <<s.deg \div 10, s.deg % 10, s.min \div 10, s.min % 10, s.hund \div 10, s.hund % 10>>
      one    == <<m.message.bits \div 4 = 1, (m.message.bits \div 2) % 2 = 1, m.message.bits % 2 = 1,
                  ~m.lat.neg, OffsetDegrees(m.lon) \notin 10 .. 99, m.lon.neg>>
  IN  IF m.ambiguity > 4 THEN Err
      ELSE Ok([c \in 1 .. 6 |-> dest_char(digits[c], c > 6 - m.ambiguity, one[c],
                                          c <= 3 /\ m.message.custom)])

is_device_prefix(b) == b \in {B[">"], B["]"], B["grave"], B["'"]}

\* The longitude's degrees byte: 28 above the degrees, folded so that every
\* byte is printable.
degrees_byte(deg) ==
  IF deg <= 9 THEN deg + 118 ELSE IF deg <= 99 THEN deg + 28
  ELSE IF deg <= 109 THEN deg + 8 ELSE deg - 72

encode_info(m) ==
  LET s    == split_dmh(m.lon)
      tens == m.speed \div 10
      cs   == m.course + 400
      alt  == IF m.altitude = <<>> THEN 0 ELSE m.altitude[1] + ALTITUDE_OFFSET
  IN  IF \/ s.deg > 179 \/ m.speed > 799 \/ m.course > 360 \/ ~mic_e_table(m.symbol[1])
         \/ ~AllIn(m.prefix, is_device_prefix)
         \/ alt \notin 0 .. 91 * 91 * 91 - 1
      THEN Err
      ELSE Ok(<<m.fix, degrees_byte(s.deg), s.min + (IF s.min <= 9 THEN 88 ELSE 28), s.hund + 28,
                tens + (IF tens < 20 THEN 108 ELSE 28),
                (m.speed % 10) * 10 + cs \div 100 + 28, (cs % 100) + 28,
                m.symbol[2], m.symbol[1]>>
              \o m.prefix
              \o (IF m.altitude = <<>> THEN <<>> ELSE Digits91(alt, 3) \o <<B["}"]>>)
              \o m.status)

-----------------------------------------------------------------------------
(* Decoding                                                                *)

\* dest_col: A-K only in the first three columns.
dest_col(b, column) ==
  IF IsDigit(b) THEN Ok([digit |-> b - B["0"], blank |-> FALSE, one |-> FALSE, set |-> <<>>])
  ELSE IF b = B["L"] THEN Ok([digit |-> 0, blank |-> TRUE, one |-> FALSE, set |-> <<>>])
  ELSE IF b \in B["P"] .. B["Z"]
  THEN Ok([digit |-> (b - B["P"]) % 10, blank |-> b = B["Z"], one |-> TRUE, set |-> <<FALSE>>])
  ELSE IF b \in B["A"] .. B["K"] /\ column <= 3
  THEN Ok([digit |-> (b - B["A"]) % 10, blank |-> b = B["K"], one |-> TRUE, set |-> <<TRUE>>])
  ELSE Err

has_altitude_shape(s) == Has(s, 4) /\ s[4] = B["}"]
IsAltitude91(s) == has_altitude_shape(s) /\ AllIn(Slice(s, 0, 3), IsBase91)
base91_altitude(s) == Num91(Slice(s, 0, 3)) - ALTITUDE_OFFSET

\* split_altitude: a device byte may stand before the altitude, or be its first
\* digit, or stand alone; without one a malformed altitude is an error.
split_altitude(rest) ==
  LET Tail3(prefix, altitude, status) ==
        Ok([prefix |-> prefix, altitude |-> altitude, status |-> status])
      device == rest # <<>> /\ is_device_prefix(rest[1])
      body   == Tail(rest)
  IN  IF ~device
      THEN IF ~has_altitude_shape(rest) THEN Tail3(<<>>, <<>>, rest)
           ELSE IF IsAltitude91(rest) THEN Tail3(<<>>, <<base91_altitude(rest)>>, From(rest, 4))
           ELSE Err
      ELSE IF IsAltitude91(body) THEN Tail3(<<rest[1]>>, <<base91_altitude(body)>>, From(body, 4))
      ELSE IF IsAltitude91(rest) THEN Tail3(<<>>, <<base91_altitude(rest)>>, From(rest, 4))
      ELSE Tail3(<<rest[1]>>, <<>>, body)

\* decode and decode_info.
decode_mic_e(dest, info) ==
  LET col(c)  == dest_col(dest[c], c).v
      sets    == UNION {Range(col(c).set) : c \in 1 .. 3}
      blanks  == {c \in 1 .. 6 : col(c).blank}
      bit(c, w) == IF col(c).one THEN w ELSE 0
      upper(c) == dest[c] >= B["P"]
      num(c)  == col(c).digit * 10 + col(c + 1).digit
      lat     == Angle(~upper(4), num(1), (num(3) * 100 + num(5)) * UNITS_PER_HUNDREDTH_MINUTE)
      raw     == info[2] - 28 + (IF upper(5) THEN 100 ELSE 0)
      deg     == IF raw \in 180 .. 189 THEN raw - 80 ELSE IF raw >= 190 THEN raw - 190 ELSE raw
      min     == (info[3] - 28) % 60
      lon     == Angle(upper(6), deg, (min * 100 + info[4] - 28) * UNITS_PER_HUNDREDTH_MINUTE)
      sp      == (info[5] - 28) * 10 + (info[6] - 28) \div 10
      cse     == ((info[6] - 28) % 10) * 100 + info[7] - 28
      course  == IF cse >= 400 THEN cse - 400 ELSE cse
      tail    == split_altitude(From(info, MIC_E_HEADER))
  IN  IF \/ Len(dest) # 6 \/ \E c \in 1 .. 6 : ~dest_col(dest[c], c).ok
         \/ Cardinality(sets) > 1
         \/ \E c \in blanks : c < 6 /\ c + 1 \notin blanks
         \/ Cardinality(blanks) > 4
         \/ Len(info) < MIC_E_HEADER \/ info[1] \notin {MIC_E_CURRENT, MIC_E_OLD}
         \/ num(3) >= 60 \/ ~Checked(lat, LAT_MAX).ok
         \/ info[2] - 28 \notin 0 .. 99 \/ info[3] - 28 \notin 0 .. 69 \/ info[4] - 28 \notin 0 .. 99
         \/ \E i \in 5 .. 7 : info[i] < 28
         \/ ~tail.ok
      THEN Err
      ELSE Ok([lat |-> lat, lon |-> lon, speed |-> IF sp >= 800 THEN sp - 800 ELSE sp,
               course |-> IF course > 360 THEN 0 ELSE course, symbol |-> <<info[9], info[8]>>,
               message |-> from_bits(bit(1, 4) + bit(2, 2) + bit(3, 1), sets = {TRUE}),
               fix |-> info[1], altitude |-> tail.v.altitude, prefix |-> tail.v.prefix,
               ambiguity |-> Cardinality(blanks), status |-> tail.v.status])

\* MicE::coordinates: as for positions, the longitude masked too, although its
\* digits cannot be blanked on the wire.
mic_e_coordinates(m) == coordinates([lat |-> m.lat, lon |-> m.lon, comment |-> m.status,
                                     ambiguity |-> Min({m.ambiguity, 4})])
=============================================================================
