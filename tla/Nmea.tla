-------------------------------- MODULE Nmea --------------------------------
(***************************************************************************)
(* src/src/aprs/nmea.rs: raw NMEA sentences under the '$' identifier.      *)
(* Every field may be empty and then says nothing: a decoded field is an   *)
(* empty or a one-element sequence, and a malformed one refuses the whole  *)
(* sentence.  A coordinate keeps its seven decimals of a minute exactly:   *)
(* [neg, deg, min7], min7 in 1/10^7 minute.                                *)
(***************************************************************************)
EXTENDS Text
LOCAL INSTANCE Bitwise

FRACTION_DIGITS == 7
MIN7 == 10000000

-----------------------------------------------------------------------------
(* Fields                                                                  *)

hex_digit(b) ==
  IF IsDigit(b) THEN b - B["0"]
  ELSE IF ToUpper(b) \in B["A"] .. B["F"] THEN ToUpper(b) - B["A"] + 10 ELSE -1

\* split_checksum: *hh from the last star, or no checksum at all.
split_checksum(rest) ==
  LET star == Max({0} \cup {i \in DOMAIN rest : rest[i] = B["*"]})
      hex  == From(rest, star)
      body == SubSeq(rest, 1, star - 1)
  IN  IF star > 0 /\ Len(hex) = 2 /\ \A i \in 1 .. 2 : hex_digit(hex[i]) # -1
      THEN [body |-> body,
            checksum |-> IF FoldLeft(LAMBDA acc, b : acc ^^ b, 0, body)
                              = 16 * hex_digit(hex[1]) + hex_digit(hex[2])
                         THEN "Valid" ELSE "Invalid"]
      ELSE [body |-> rest, checksum |-> "Absent"]

\* field, opt: field number i, from 0; empty when there is none.
field(fields, i) == IF i < Len(fields) THEN fields[i + 1] ELSE <<>>
first_byte(fields, i) == Slice(field(fields, i), 0, Min({1, Len(field(fields, i))}))

\* FaaMode::from_byte.
parse_mode(fields, i) ==
  LET b == first_byte(fields, i)
      m == ToUpper(b[1])
  IN  IF b = <<>> THEN <<>> ELSE IF m \in Range(Bytes("ADEFMNPRS")) THEN <<m>> ELSE b

\* Applies parse to a field that is not empty.
Opt(fields, i, parse(_)) ==
  LET f == field(fields, i) IN IF f = <<>> THEN Ok(<<>>) ELSE parse(f)
Some(v) == Ok(<<v>>)

parse_uint(s) == IF s # <<>> /\ AllDigits(s) THEN Ok(Num(s)) ELSE Err

\* scale_fraction: the first scale digits, rounded by the next one.
scale_fraction(s, scale) ==
  LET kept == SubSeq(s \o [i \in 1 .. scale |-> B["0"]], 1, scale)
  IN  Num(kept) + (IF Len(s) > scale /\ s[scale + 1] >= B["5"] THEN 1 ELSE 0)

scaled(whole, frac, scale) ==
  IF whole \o frac = <<>> \/ ~AllDigits(whole \o frac) THEN Err
  ELSE Ok(Num(whole) * 10 ^ scale + scale_fraction(frac, scale))

parse_scaled(s, scale) ==
  LET read(rest, dot) == IF dot = 0 THEN scaled(rest, <<>>, scale)
                         ELSE scaled(SubSeq(rest, 1, dot - 1), From(rest, dot), scale)
      signed(c) == s # <<>> /\ s[1] = B[c]
  IN  IF signed("-") THEN Then(read(Tail(s), Find(Tail(s), B["."])), LAMBDA v : Ok(-v))
      ELSE With(IF signed("+") THEN Tail(s) ELSE s, LAMBDA rest : read(rest, Find(rest, B["."])))

\* parse_unsigned, parse_signed, parse_count.  The inputs keep below the limits
\* of the code's 32-bit fields, where TLC's integers end too.
parse_unsigned(fields, i, scale) ==
  Opt(fields, i, LAMBDA f : Then(parse_scaled(f, scale), LAMBDA v : IF v >= 0 THEN Some(v) ELSE Err))
parse_signed(fields, i, scale) ==
  Opt(fields, i, LAMBDA f : Then(parse_scaled(f, scale), Some))
parse_count(fields, i) ==
  Opt(fields, i, LAMBDA f : Then(parse_uint(f), LAMBDA v : IF v <= 255 THEN Some(v) ELSE Err))

\* parse_coordinate, parse_latitude, parse_longitude: the last two digits
\* before the point are the minutes, whatever the number of degree digits; no
\* value or no hemisphere is no coordinate.
parse_coordinate(fields, i, j, plus, minus, max) ==
  LET s   == field(fields, i)
      hem == field(fields, j)
      dot == Find(s, B["."])
      min == SubSeq(s, dot - 2, dot - 1)
      minutes == Num(min) * MIN7 + scale_fraction(From(s, dot), FRACTION_DIGITS)
      at(d, m) == IF d > max \/ (d = max /\ m # 0) THEN Err
                  ELSE Some([neg |-> ToUpper(hem[1]) = minus /\ (d # 0 \/ m # 0), deg |-> d, min7 |-> m])
  IN  IF s = <<>> \/ hem = <<>> THEN Ok(<<>>)
      ELSE IF \/ Len(hem) # 1 \/ ToUpper(hem[1]) \notin {plus, minus}
              \/ dot < 4 \/ ~AllDigits(min \o From(s, dot)) \/ Num(min) >= 60
      THEN Err
      ELSE Then(parse_uint(SubSeq(s, 1, dot - 3)), LAMBDA deg :
             With(minutes, LAMBDA m : at(deg + m \div (60 * MIN7), m % (60 * MIN7))))
nmea_latitude(fields, i) == parse_coordinate(fields, i, i + 1, B["N"], B["S"], 90)
nmea_longitude(fields, i) == parse_coordinate(fields, i, i + 1, B["E"], B["W"], 180)

\* parse_time: second 60 is a leap second; milliseconds are cut, not rounded.
parse_time(fields, i) ==
  Opt(fields, i, LAMBDA s :
    LET h == Num(Slice(s, 0, 2))  m == Num(Slice(s, 2, 2))  sec == Num(Slice(s, 4, 2))
        ms == From(s, 7)
    IN  IF /\ Has(s, 6) /\ AllDigits(Slice(s, 0, 6)) /\ h <= 23 /\ m <= 59 /\ sec <= 60
           /\ Len(s) > 6 => s[7] = B["."] /\ AllDigits(ms)
        THEN Some([hour |-> h, minute |-> m, second |-> sec,
                   millisecond |-> scale_fraction(SubSeq(ms, 1, Min({3, Len(ms)})), 3)])
        ELSE Err)

parse_date(fields, i) ==
  Opt(fields, i, LAMBDA s :
    LET d == Num(Slice(s, 0, 2))  m == Num(Slice(s, 2, 2))
    IN  IF Len(s) = 6 /\ AllDigits(s) /\ d \in 1 .. 31 /\ m \in 1 .. 12
        THEN Some([day |-> d, month |-> m, year |-> Num(Slice(s, 4, 2))]) ELSE Err)

parse_variation(fields, i) ==
  LET hem == field(fields, i + 1)
  IN  IF field(fields, i) = <<>> \/ hem = <<>> THEN Ok(<<>>)
      ELSE IF Len(hem) # 1 \/ ToUpper(hem[1]) \notin {B["E"], B["W"]} THEN Err
      ELSE Then(parse_signed(fields, i, 2), LAMBDA v : Some(IF ToUpper(hem[1]) = B["W"] THEN -v[1] ELSE v[1]))

-----------------------------------------------------------------------------
(* Fix quality: Valid, Degraded or Invalid                                  *)

IsZero(c) == c.deg = 0 /\ c.min7 = 0
has_position(lat, lon) == lat # <<>> /\ lon # <<>> /\ ~(IsZero(lat[1]) /\ IsZero(lon[1]))

classify_status(status, lat, lon) ==
  IF ~has_position(lat, lon) THEN "Invalid"
  ELSE IF status # <<>> /\ ToUpper(status[1]) = B["A"] THEN "Valid" ELSE "Degraded"

\* GgaQuality: 0 is no fix; 6, 7 and 8 are dead reckoning, manual, simulated.
classify_quality(quality, lat, lon) ==
  IF ~has_position(lat, lon) \/ quality = <<0>> THEN "Invalid"
  ELSE IF quality = <<>> \/ quality[1] \in 6 .. 8 THEN "Degraded" ELSE "Valid"

-----------------------------------------------------------------------------
(* Sentences                                                               *)

\* The sentence with all of its fields, or none.
Whole(parts, rest(_)) ==
  LET p == [name \in DOMAIN parts |-> parts[name].v]
  IN  IF \A name \in DOMAIN parts : parts[name].ok THEN Ok(rest(p) @@ p) ELSE Err

parse_rmc(f) ==
  IF Len(f) < 10 THEN Err
  ELSE Whole([time |-> parse_time(f, 1), lat |-> nmea_latitude(f, 3), lon |-> nmea_longitude(f, 5),
              speed |-> parse_unsigned(f, 7, 3), course |-> parse_unsigned(f, 8, 2), date |-> parse_date(f, 9),
              variation |-> parse_variation(f, 10)],
             LAMBDA p : [formatter |-> "RMC", status |-> first_byte(f, 2), mode |-> parse_mode(f, 12),
                         navigation |-> first_byte(f, 13),
                         fix |-> classify_status(first_byte(f, 2), p.lat, p.lon)])

parse_gga(f) ==
  IF Len(f) < 7 THEN Err
  ELSE Whole([time |-> parse_time(f, 1), lat |-> nmea_latitude(f, 2), lon |-> nmea_longitude(f, 4),
              quality |-> parse_count(f, 6), satellites |-> parse_count(f, 7), hdop |-> parse_unsigned(f, 8, 2),
              altitude |-> parse_signed(f, 9, 2), geoid |-> parse_signed(f, 11, 2)],
             LAMBDA p : [formatter |-> "GGA", fix |-> classify_quality(p.quality, p.lat, p.lon)])

parse_gll(f) ==
  IF Len(f) < 5 THEN Err
  ELSE Whole([time |-> parse_time(f, 5), lat |-> nmea_latitude(f, 1), lon |-> nmea_longitude(f, 3)],
             LAMBDA p : [formatter |-> "GLL", status |-> first_byte(f, 6), mode |-> parse_mode(f, 7),
                         fix |-> classify_status(first_byte(f, 6), p.lat, p.lon)])

\* parse_vtg: the modern form has a T after the true course.
parse_vtg(f) ==
  LET modern == Len(field(f, 2)) = 1 /\ ToUpper(field(f, 2)[1]) = B["T"]
      at     == IF modern THEN <<1, 3, 5, 7>> ELSE <<1, 2, 3, 4>>
  IN  IF Len(f) < (IF modern THEN 9 ELSE 5) THEN Err
      ELSE Whole([course |-> parse_unsigned(f, at[1], 2), magnetic |-> parse_unsigned(f, at[2], 2),
                  speed |-> parse_unsigned(f, at[3], 3), kph |-> parse_unsigned(f, at[4], 3)],
                 LAMBDA p : [formatter |-> "VTG", modern |-> modern,
                             mode |-> IF modern THEN parse_mode(f, 9) ELSE <<>>])

parse_wpl(f) ==
  IF Len(f) < 6 THEN Err
  ELSE Whole([lat |-> nmea_latitude(f, 1), lon |-> nmea_longitude(f, 3)],
             LAMBDA p : [formatter |-> "WPL", name |-> field(f, 5)])

parse_fields(form, f) ==
  CASE form = Bytes("RMC") -> parse_rmc(f) [] form = Bytes("GGA") -> parse_gga(f)
    [] form = Bytes("GLL") -> parse_gll(f) [] form = Bytes("VTG") -> parse_vtg(f)
    [] form = Bytes("WPL") -> parse_wpl(f) [] OTHER -> Err

\* The talker and the formatter, in five letters of either case.
parse_sentence(tag, f, checksum) ==
  IF Len(tag) # 5 THEN Err
  ELSE Then(parse_fields(From(tag, 2), f), LAMBDA data :
         Ok([talker |-> SubSeq(tag, 1, 2), checksum |-> checksum, data |-> data]))

IsTrailer(b) == b \in {13, 10, 32, 9}
\* nmea::parse: the formatter decides, whatever the talker.
parse_nmea(info) ==
  LET s == SubSeq(info, 1, Max({0} \cup {i \in DOMAIN info : ~IsTrailer(info[i])}))
  IN  IF s = <<>> \/ s[1] # B["$"] \/ \E i \in DOMAIN s : s[i] > 126 THEN Err
      ELSE With(split_checksum(Tail(s)), LAMBDA cut :
             With(Split(cut.body, B[","]), LAMBDA f :
               parse_sentence([i \in DOMAIN f[1] |-> ToUpper(f[1][i])], f, cut.checksum)))

-----------------------------------------------------------------------------
(* What a consumer asks of any sentence                                     *)

\* NmeaSentence::position: VTG has none, and a waypoint is not the station.
nmea_position(n) ==
  IF n.data.formatter \in {"RMC", "GGA", "GLL"} /\ n.data.lat # <<>> /\ n.data.lon # <<>>
  THEN << <<n.data.lat[1], n.data.lon[1]>> >> ELSE <<>>
nmea_fix(n) == IF n.data.formatter \in {"RMC", "GGA", "GLL"} THEN <<n.data.fix>> ELSE <<>>
nmea_time(n) == IF n.data.formatter \in {"RMC", "GGA", "GLL"} THEN n.data.time ELSE <<>>

\* Talker::constellation.
constellation(talker) ==
  CASE talker = Bytes("GP") -> "Gps" [] talker = Bytes("GL") -> "Glonass"
    [] talker = Bytes("GA") -> "Galileo" [] talker \in {Bytes("BD"), Bytes("GB")} -> "BeiDou"
    [] talker = Bytes("GQ") -> "Qzss" [] talker = Bytes("GI") -> "NavIc"
    [] talker = Bytes("GN") -> "Combined" [] OTHER -> "Other"

\* course: whole degrees, 360 being 0.  speed: metres per hour, rounded down
\* from the code's millimetres; kilometres per hour stand in for missing knots.
nmea_course(n) ==
  IF n.data.formatter \in {"RMC", "VTG"} /\ n.data.course # <<>>
  THEN <<((n.data.course[1] + 50) \div 100) % 360>> ELSE <<>>
nmea_speed(n) ==
  IF n.data.formatter \in {"RMC", "VTG"} /\ n.data.speed # <<>>
  THEN <<(n.data.speed[1] * 1852) \div 1000>>
  ELSE IF n.data.formatter = "VTG" THEN n.data.kph ELSE <<>>
nmea_altitude(n) == IF n.data.formatter = "GGA" THEN n.data.altitude ELSE <<>>
=============================================================================
