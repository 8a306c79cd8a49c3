------------------------------ MODULE Position ------------------------------
(***************************************************************************)
(* src/src/aprs/position.rs and the timestamp of src/src/aprs/object.rs:   *)
(* position reports, uncompressed (DDMM.hh) and compressed (base 91), with *)
(* or without a timestamp.                                                 *)
(*                                                                         *)
(* The compressed speed, range and altitude are powers of 1.08 and 1.002,  *)
(* computed in floating point by the code and here in fixed point, which   *)
(* rounds to the same integers for every exponent up to the bounds below.  *)
(* AltMaxExp bounds the altitude's exponent (8280 in the code).            *)
(***************************************************************************)
EXTENDS Extension, TLC

CONSTANT AltMaxExp
ASSUME AltitudeAssumption == AltMaxExp \in 1 .. 1000

LATLON_LEN == 19
COMPRESSED_BODY == 13
COMP_LAT_SCALE == 380926
COMP_LON_SCALE == 190463
UNITS_PER_COMPRESSED_LAT == UNITS_PER_DEGREE \div COMP_LAT_SCALE
UNITS_PER_COMPRESSED_LON == UNITS_PER_DEGREE \div COMP_LON_SCALE

-----------------------------------------------------------------------------
(* The uncompressed block: 8 bytes of latitude, table, 9 of longitude, code *)

\* check_symbol_table: a to j stand for digit overlays in compressed reports.
check_symbol_table(b) ==
  b \in {Primary, Alternate} \/ IsOverlay(b) \/ b \in B["a"] .. B["j"]

\* The offsets, after DD, that ambiguity blanks first to last.
MASKABLE == <<6, 5, 3, 2>>

\* ambiguity_of: blanks must be the trailing digits; -1 if they are not.
ambiguity_of(s, at) ==
  LET blank == {r \in 1 .. 4 : s[at + MASKABLE[r] + 1] = B[" "]}
  IN  IF blank = 1 .. Cardinality(blank) THEN Cardinality(blank) ELSE -1

IsDigitOrBlank(b) == IsDigit(b) \/ b = B[" "]
\* parse_digits_blankable: a blank counts as zero.
Num0(s) == Num([i \in DOMAIN s |-> IF s[i] = B[" "] THEN B["0"] ELSE s[i]])

\* One axis: degrees of width w at at, then MM.hh and a hemisphere letter.
parse_axis(s, at, w, plus, minus, max) ==
  LET deg  == Slice(s, at, w)
      min  == Slice(s, at + w, 2)
      hund == Slice(s, at + w + 3, 2)
      hem  == ToUpper(s[at + w + 6])
  IN  IF /\ ambiguity_of(s, at + w - 2) # -1
         /\ AllDigits(deg) /\ AllIn(min \o hund, IsDigitOrBlank)
         /\ s[at + w + 3] = B["."] /\ hem \in {plus, minus} /\ Num0(min) < 60
      THEN Checked(Angle(hem = minus, Num(deg),
                         (Num0(min) * 100 + Num0(hund)) * UNITS_PER_HUNDREDTH_MINUTE), max)
      ELSE Err

\* parse_latlon, of the 19 bytes at offset at.  The declared ambiguity is the
\* coarser of the two axes' (declared_level).
parse_latlon(s, at) ==
  IF ~Has(s, at + LATLON_LEN) \/ ~check_symbol_table(s[at + 9]) THEN Err
  ELSE Then(parse_axis(s, at, 2, B["N"], B["S"], LAT_MAX), LAMBDA lat :
         Then(parse_axis(s, at + 9, 3, B["E"], B["W"], LON_MAX), LAMBDA lon :
           Ok([lat |-> lat, lon |-> lon, symbol |-> <<s[at + 9], s[at + 19]>>,
               ambiguity |-> Max({ambiguity_of(s, at), ambiguity_of(s, at + 10)})])))

\* Mutant: the hundredths are cut off, not rounded.
write_axis_unrounded(a, w, plus, minus, ambiguity) ==
  LET h == a.deg * 6000 + a.frac \div UNITS_PER_HUNDREDTH_MINUTE
      s == Digits(h \div 6000, w) \o Digits((h \div 100) % 60, 2) \o <<B["."]>> \o Digits(h % 100, 2)
             \o <<IF a.neg THEN minus ELSE plus>>
      blank == {w - 2 + MASKABLE[r] + 1 : r \in 1 .. ambiguity}
  IN  [i \in DOMAIN s |-> IF i \in blank THEN B[" "] ELSE s[i]]

\* The half of write_latlon that spells one axis: rounded once, then split,
\* then blanked.
write_axis(a, w, plus, minus, ambiguity) ==
  LET h == to_hundredths(a)
      s == Digits(h \div 6000, w) \o Digits((h \div 100) % 60, 2) \o <<B["."]>> \o Digits(h % 100, 2)
             \o <<IF a.neg THEN minus ELSE plus>>
      blank == {w - 2 + MASKABLE[r] + 1 : r \in 1 .. ambiguity}
  IN  [i \in DOMAIN s |-> IF i \in blank THEN B[" "] ELSE s[i]]

write_latlon(p) ==
  write_axis(p.lat, 2, B["N"], B["S"], p.ambiguity) \o <<p.symbol[1]>>
    \o write_axis(p.lon, 3, B["E"], B["W"], p.ambiguity) \o <<p.symbol[2]>>

-----------------------------------------------------------------------------
(* The csT trailer of a compressed report                                  *)

CS_MAX_EXP == 90

\* pow_f64: 1.08 ^ n in millionths and 1.002 ^ n in ten-millionths.
PowerTable(one, grow(_), max) ==
  LET t == FoldLeft(LAMBDA acc, i : Append(acc, grow(Last(acc))), <<one>>, [i \in 1 .. max |-> i])
  IN  [n \in 0 .. max |-> t[n + 1]]
Pow108 == PowerTable(1000000, LAMBDA x : x + (2 * x) \div 25, CS_MAX_EXP + 1)
Pow1002 == PowerTable(10000000, LAMBDA x : x + x \div 500, AltMaxExp + 1)

decode_speed(exp) == (Pow108[exp] - 1000000 + 500000) \div 1000000
decode_range(exp) == (2 * Pow108[exp] + 500000) \div 1000000
decode_altitude(exp) == Pow1002[exp] \div 10000000

\* nearest_exponent: the power nearest to target, the lower one on a tie; none
\* beyond half a step above the last.  target and powers at the same scale.
nearest_exponent(pow, target, max) ==
  LET above == {e \in 0 .. max : target <= pow[e]}
      e     == Min(above)
  IN  IF above = {}
      THEN IF target - pow[max] <= (pow[max + 1] - pow[max]) \div 2 THEN Ok(max) ELSE Err
      ELSE IF e = 0 \/ pow[e] - target < target - pow[e - 1] THEN Ok(e) ELSE Ok(e - 1)

\* exponent_for: the run of exponents that decode to the value exactly, if
\* there are any, wins over the nearest power.
exponent_for(pow, target, max, run) ==
  Then(nearest_exponent(pow, target, max), LAMBDA nearest :
    Ok(IF run = {} THEN nearest ELSE Min({Max({nearest, Min(run)}), Max(run)})))

\* CompressionType: current fix, NMEA source 0 .. 3 (2 is GGA), origin 0 .. 7.
GGA == 2
DefaultType == [fix |-> FALSE, source |-> 0, origin |-> 0]
to_byte(t) == 33 + (IF t.fix THEN 32 ELSE 0) + t.source * 8 + t.origin
from_byte(b) == LET v == b - 33
                IN  [fix |-> (v \div 32) % 2 = 1, source |-> (v \div 8) % 4, origin |-> v % 8]

NoData == [kind |-> "NoData"]

\* parse_cs.
parse_cs(c, s, t) ==
  LET type == from_byte(t)
      Some(cs) == Ok([cs |-> cs, type |-> type])
  IN  IF c = B[" "] THEN Ok([cs |-> NoData, type |-> DefaultType])
      ELSE IF ~IsBase91(s) \/ ~IsBase91(t) \/ ~IsBase91(c) THEN Err
      ELSE IF type.source = GGA
      THEN Some([kind |-> "Altitude", feet |-> decode_altitude((c - 33) * 91 + (s - 33))])
      ELSE IF c = B["{"] THEN Some([kind |-> "RadioRange", miles |-> decode_range(s - 33)])
      ELSE Some([kind |-> "CourseSpeed", course |-> (c - 33) * 4, speed |-> decode_speed(s - 33)])

\* build_cs: three bytes.
build_cs(cs, t) ==
  CASE cs.kind = "NoData" -> Ok(Bytes(" sT"))
    [] cs.kind = "CourseSpeed" ->
         IF t.source = GGA \/ cs.course >= 360 THEN Err
         ELSE Then(exponent_for(Pow108, (cs.speed + 1) * 1000000, CS_MAX_EXP,
                                {x \in 0 .. CS_MAX_EXP : decode_speed(x) = cs.speed}),
                   LAMBDA e : Ok(<<33 + (((cs.course + 2) \div 4) % 90), 33 + e, to_byte(t)>>))
    [] cs.kind = "RadioRange" ->
         IF t.source = GGA THEN Err
         ELSE Then(exponent_for(Pow108, cs.miles * 500000, CS_MAX_EXP,
                                {x \in 0 .. CS_MAX_EXP : decode_range(x) = cs.miles}),
                   LAMBDA e : Ok(<<B["{"], 33 + e, to_byte(t)>>))
    [] cs.kind = "Altitude" ->
         Then(exponent_for(Pow1002, cs.feet * 10000000, AltMaxExp,
                           {x \in 0 .. AltMaxExp : decode_altitude(x) = cs.feet}),
              LAMBDA e : Ok(<<33 + e \div 91, 33 + (e % 91), to_byte([t EXCEPT !.source = GGA])>>))

-----------------------------------------------------------------------------
(* Bodies: a position, its csT and compression type                        *)

parse_compressed(s, at, messaging) ==
  LET y   == Num91(Slice(s, at + 1, 4))
      x   == Num91(Slice(s, at + 5, 4))
      \* LAT_MAX - y steps and x - LON_MAX steps, as angles
      Steps(k, scale, unit) ==
        LET m == IF k < 0 THEN -k ELSE k IN Angle(k < 0, m \div scale, (m % scale) * unit)
      lat == Checked(Steps(LAT_MAX * COMP_LAT_SCALE - y, COMP_LAT_SCALE,
                           UNITS_PER_COMPRESSED_LAT), LAT_MAX)
      lon == Checked(Steps(x - LON_MAX * COMP_LON_SCALE, COMP_LON_SCALE,
                           UNITS_PER_COMPRESSED_LON), LON_MAX)
      cs  == parse_cs(s[at + 11], s[at + 12], s[at + 13])
  IN  IF /\ Has(s, at + COMPRESSED_BODY) /\ check_symbol_table(s[at + 1])
         /\ AllIn(Slice(s, at + 1, 8), IsBase91)
         /\ lat.ok /\ lon.ok /\ cs.ok
      THEN Ok([position |-> [lat |-> lat.v, lon |-> lon.v, symbol |-> <<s[at + 1], s[at + 10]>>,
                             messaging |-> messaging, compressed |-> TRUE, ambiguity |-> EXACT,
                             extension |-> NoExtension, comment |-> From(s, at + COMPRESSED_BODY)],
               cs |-> cs.v.cs, type |-> cs.v.type])
      ELSE Err

parse_uncompressed(s, at, messaging) ==
  LET tail == From(s, at + LATLON_LEN)
      with(block, ext) ==
        [position |-> [lat |-> block.lat, lon |-> block.lon, symbol |-> block.symbol,
                       messaging |-> messaging, compressed |-> FALSE, ambiguity |-> block.ambiguity,
                       extension |-> ext, comment |-> From(tail, wire_len(ext))],
         cs |-> NoData, type |-> DefaultType]
  IN  Then(parse_latlon(s, at), LAMBDA block : Ok(with(block, parse_extension(tail, block.symbol))))

\* parse_body: a digit opens the uncompressed form.
parse_body(s, at, messaging) ==
  IF ~Has(s, at + 1) THEN Err
  ELSE IF IsDigit(s[at + 1]) THEN parse_uncompressed(s, at, messaging)
  ELSE parse_compressed(s, at, messaging)

body_len(p) == IF p.compressed THEN COMPRESSED_BODY ELSE LATLON_LEN

\* write_compressed: both axes truncated to whole steps, from the north pole
\* down and from the antimeridian east.
write_compressed(p, cs, t) ==
  LET down == Above(Opposite(p.lat), LAT_MAX)
      east == Above(p.lon, LON_MAX)
  IN  Then(build_cs(cs, t), LAMBDA cst :
        Ok(<<p.symbol[1]>>
             \o Digits91(down.deg * COMP_LAT_SCALE + down.frac \div UNITS_PER_COMPRESSED_LAT, 4)
             \o Digits91(east.deg * COMP_LON_SCALE + east.frac \div UNITS_PER_COMPRESSED_LON, 4)
             \o <<p.symbol[2]>> \o cst))

\* write_body, then the extension (never written in a compressed report).
write_body(p, cs, t) == IF p.compressed THEN write_compressed(p, cs, t) ELSE Ok(write_latlon(p))
write_tail(p) == (IF p.compressed THEN <<>> ELSE write_extension(p.extension)) \o p.comment

\* Position::coordinates: masked to the declared precision, or refined by !DAO!
\* away from zero.  The refinement stays a count of its own steps, next to the
\* angle; a refined axis that would pass its maximum is left unrefined.
coordinates(p) ==
  LET refined(a, steps, max, datum) ==
        [angle |-> Mask(a, p.ambiguity),
         steps |-> IF p.ambiguity # EXACT \/ (a.deg = 0 /\ a.frac = 0) \/ a.deg = max
                   THEN 0 ELSE steps,
         fine  |-> IsLower(datum)]
  IN  With(dao(p.comment), LAMBDA d :
        [lat |-> refined(p.lat, d.lat, LAT_MAX, d.datum), lon |-> refined(p.lon, d.lon, LON_MAX, d.datum)])

-----------------------------------------------------------------------------
(* Timestamps: [form, a, b, c], of 7 bytes                                 *)

check_hm(h, m) == h \in 0 .. 23 /\ m \in 0 .. 59
check_dhm(d, h, m) == d \in 1 .. 31 /\ check_hm(h, m)
check_hms(h, m, s) == check_hm(h, m) /\ s \in 0 .. 59

Forms == B["z"] :> "DhmZulu" @@ B["/"] :> "DhmLocal" @@ B["h"] :> "Hms"
CheckTime(t) == IF t.form = "Hms" THEN check_hms(t.a, t.b, t.c) ELSE check_dhm(t.a, t.b, t.c)

parse_timestamp(s, at) ==
  LET t == [form |-> Forms[s[at + 7]], a |-> Num(Slice(s, at, 2)), b |-> Num(Slice(s, at + 2, 2)),
            c |-> Num(Slice(s, at + 4, 2))]
  IN  IF Has(s, at + 7) /\ AllDigits(Slice(s, at, 6)) /\ s[at + 7] \in DOMAIN Forms /\ CheckTime(t)
      THEN Ok(t) ELSE Err

write_timestamp(t) ==
  IF CheckTime(t)
  THEN Ok(Digits(t.a, 2) \o Digits(t.b, 2) \o Digits(t.c, 2)
            \o <<CHOOSE l \in DOMAIN Forms : Forms[l] = t.form>>)
  ELSE Err

-----------------------------------------------------------------------------
(* Whole reports                                                           *)

\* PositionCs::parse and build ('!' and '=').
parse_position(s) == parse_body(s, 1, s[1] = B["="])

build_position(r) ==
  Then(write_body(r.position, r.cs, r.type), LAMBDA body :
    Ok(<<IF r.position.messaging THEN B["="] ELSE B["!"]>> \o body \o write_tail(r.position)))

\* PositionTimestamped::parse and build ('/' and '@').
parse_timestamped(s) ==
  Then(parse_timestamp(s, 1), LAMBDA t :
    Then(parse_body(s, 8, s[1] = B["@"]), LAMBDA r : Ok([timestamp |-> t] @@ r)))

build_timestamped(r) ==
  Then(write_timestamp(r.timestamp), LAMBDA t :
    Then(write_body(r.position, r.cs, r.type), LAMBDA body :
      Ok(<<IF r.position.messaging THEN B["@"] ELSE B["/"]>> \o t \o body \o write_tail(r.position))))
=============================================================================
