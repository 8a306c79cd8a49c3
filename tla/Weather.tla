------------------------------ MODULE Weather ------------------------------
(***************************************************************************)
(* src/src/aprs/weather.rs: positionless and complete weather reports;     *)
(* and the Ultimeter records that become such reports, at the end.         *)
(*                                                                         *)
(* A reading is <<>> (none) or <<quantity>>.  The wind's speed is spelled  *)
(* in miles per hour after the tag s of a positionless report, in knots in *)
(* the course/speed slot of a complete one; a second s is snowfall.        *)
(***************************************************************************)
EXTENDS Position

None == <<>>
MapReading(r, f(_)) == IF r = None THEN None ELSE <<f(r[1])>>

NoWeather ==
  [wind_direction |-> None, wind_speed |-> None, gust |-> None, temperature |-> None,
   rain_1h |-> None, rain_24h |-> None, rain_midnight |-> None, humidity |-> None,
   barometric_pressure |-> None, luminosity |-> None, snowfall |-> None]

\* TAGGED_FIELDS: the tags and the digits that follow each.
Widths == [t \in {B["c"], B["s"], B["g"], B["t"], B["r"], B["p"], B["P"], B["L"], B["l"]} |-> 3]
            @@ (B["h"] :> 2) @@ (B["b"] :> 5)
Positionless == "Positionless"
Complete == "Complete"

\* parse_value: digits, or all dots or all blanks for none.
parse_reading(s, at, width) ==
  LET w == Slice(s, at, width)
  IN  IF ~Has(s, at + width) THEN Err
      ELSE IF w[1] \in {B["."], B[" "]}
      THEN IF AllIn(w, LAMBDA b : b = w[1]) THEN Ok(None) ELSE Err
      ELSE IF AllDigits(w) THEN Ok(<<Num(w)>>) ELSE Err

\* parse_temperature: a sign leaves two digits.
parse_temperature(s, at) ==
  IF Has(s, at + 3) /\ s[at + 1] = B["-"]
  THEN IF AllDigits(Slice(s, at + 1, 2)) THEN Ok(<<-Num(Slice(s, at + 1, 2))>>) ELSE Err
  ELSE parse_reading(s, at, 3)

\* wind_direction: beyond 360 is no direction.
wind_direction(r) == IF r # None /\ r[1] > 360 THEN None ELSE r

\* Mutant: the s of a second field still sets the wind.
read_tagged_wind_again(w, tag, r, spent) ==
  IF tag = B["s"] THEN [w EXCEPT !.wind_speed = MapReading(r, from_mph)] ELSE w

\* read_tagged: the reading r of one tagged field.
read_tagged(w, tag, r, spent) ==
  CASE tag = B["c"] -> [w EXCEPT !.wind_direction = wind_direction(r)]
    [] tag = B["s"] -> IF spent THEN [w EXCEPT !.snowfall = MapReading(r, LAMBDA n : from_hundredths_inch(100 * n))]
                       ELSE [w EXCEPT !.wind_speed = MapReading(r, from_mph)]
    [] tag = B["g"] -> [w EXCEPT !.gust = MapReading(r, from_mph)]
    [] tag = B["t"] -> [w EXCEPT !.temperature = MapReading(r, from_fahrenheit)]
    [] tag = B["r"] -> [w EXCEPT !.rain_1h = MapReading(r, from_hundredths_inch)]
    [] tag = B["p"] -> [w EXCEPT !.rain_24h = MapReading(r, from_hundredths_inch)]
    [] tag = B["P"] -> [w EXCEPT !.rain_midnight = MapReading(r, from_hundredths_inch)]
    [] tag = B["h"] -> [w EXCEPT !.humidity = MapReading(r, from_wire_percent)]
    [] tag = B["b"] -> [w EXCEPT !.barometric_pressure = MapReading(r, from_tenths_hpa)]
    [] tag = B["L"] -> [w EXCEPT !.luminosity = r]
    [] tag = B["l"] -> [w EXCEPT !.luminosity = MapReading(r, LAMBDA n : n + 1000)]

\* parse_tagged: fields from offset at on.  A field that cannot be read ends
\* them, or refuses the report if none was read before it; so does an unknown
\* letter followed by what looks like a value.
RECURSIVE parse_tagged(_, _, _, _, _, _)
parse_tagged(w, s, at, layout, spent, any) ==
  LET tag   == s[at + 1]
      known == tag \in DOMAIN Widths
      valued == Has(s, at + 2) /\ (IsDigit(s[at + 2]) \/ s[at + 2] \in {B["."], B["-"]})
      stop == IF ~any /\ (known \/ (IsAlpha(tag) /\ valued)) THEN Err ELSE Ok([weather |-> w, rest |-> From(s, at)])
      use(r) == IF ~r.ok THEN stop
                ELSE parse_tagged(read_tagged(w, tag, r.v, spent), s, at + 1 + Widths[tag], layout,
                                  spent \/ tag = B["s"], TRUE)
  IN  IF ~Has(s, at + 1) THEN Ok([weather |-> w, rest |-> <<>>])
      ELSE IF ~known \/ (tag = B["c"] /\ layout = Complete) THEN stop
      ELSE use(IF tag = B["t"] THEN parse_temperature(s, at + 1) ELSE parse_reading(s, at + 1, Widths[tag]))

-----------------------------------------------------------------------------
(* Writing                                                                 *)

InRange(r, f(_), lo, hi) == r = None \/ f(r[1]) \in lo .. hi
Same(n) == n

\* snowfall_inches.
snowfall_inches(depth) == div_round(hundredths_inch(depth), 100)

\* WeatherReport::check.
check_weather(w, layout) ==
  /\ InRange(w.wind_direction, Same, 0, 360)
  /\ IF layout = Complete THEN InRange(w.wind_speed, knots, 0, 999) ELSE InRange(w.wind_speed, mph, 0, 999)
  /\ InRange(w.snowfall, snowfall_inches, 0, 999)
  /\ InRange(w.gust, mph, 0, 999)
  /\ InRange(w.temperature, fahrenheit, -99, 999)
  /\ \A r \in {w.rain_1h, w.rain_24h, w.rain_midnight} : InRange(r, hundredths_inch, 0, 999)
  /\ InRange(w.humidity, Same, 1, 100)
  /\ InRange(w.barometric_pressure, tenths_hpa, 0, 99999)
  /\ InRange(w.luminosity, Same, 0, 1999)

\* write_value: dots for none.
write_reading(r, f(_), width) ==
  IF r = None THEN [i \in 1 .. width |-> B["."]] ELSE Digits(f(r[1]), width)
Tagged(tag, r, f(_)) == IF r = None THEN <<>> ELSE <<tag>> \o write_reading(r, f, Widths[tag])

write_temperature(r) ==
  LET f == fahrenheit(r[1])
  IN  IF r = None THEN <<>>
      ELSE <<B["t"]>> \o (IF f < 0 THEN <<B["-"]>> \o Digits(-f, 2) ELSE Digits(f, 3))

\* write_luminosity, luminosity_wire.
write_luminosity(r) ==
  IF r = None THEN <<>>
  ELSE IF r[1] < 1000 THEN Tagged(B["L"], r, Same) ELSE Tagged(B["l"], r, LAMBDA n : n - 1000)

\* The wind of a positionless report: s is written, dotted, before a snowfall,
\* which would be read as the wind otherwise.
WindFields(w) ==
  Tagged(B["c"], w.wind_direction, Same)
    \o (IF w.wind_speed = None /\ w.snowfall = None THEN <<>>
        ELSE <<B["s"]>> \o write_reading(w.wind_speed, mph, 3))

\* write_fields: the standard order; luminosity after the hourly rain, snow last.
write_fields(w, layout) ==
  (IF layout = Complete THEN <<>> ELSE WindFields(w))
    \o Tagged(B["g"], w.gust, mph) \o write_temperature(w.temperature)
    \o Tagged(B["r"], w.rain_1h, hundredths_inch) \o write_luminosity(w.luminosity)
    \o Tagged(B["p"], w.rain_24h, hundredths_inch) \o Tagged(B["P"], w.rain_midnight, hundredths_inch)
    \o Tagged(B["h"], w.humidity, wire_percent) \o Tagged(B["b"], w.barometric_pressure, tenths_hpa)
    \o Tagged(B["s"], w.snowfall, snowfall_inches)

-----------------------------------------------------------------------------
(* Positionless reports: _MMDDHHMM and fields                               *)

check_mdhm(t) == t[1] \in 1 .. 12 /\ t[2] \in 1 .. 31 /\ t[3] \in 0 .. 23 /\ t[4] \in 0 .. 59

parse_positionless(s) ==
  LET t      == [i \in 1 .. 4 |-> Num(Slice(s, 2 * i - 1, 2))]
      fields == parse_tagged(NoWeather, s, 9, Positionless, FALSE, FALSE)
  IN  IF ~Has(s, 9) \/ ~AllDigits(Slice(s, 1, 8)) \/ ~check_mdhm(t) \/ ~fields.ok THEN Err
      ELSE Ok([mdhm |-> t] @@ fields.v)

build_positionless(r) ==
  IF ~check_mdhm(r.mdhm) \/ ~check_weather(r.weather, Positionless) THEN Err
  ELSE Ok(<<B["_"]>> \o FlattenSeq([i \in 1 .. 4 |-> Digits(r.mdhm[i], 2)])
            \o write_fields(r.weather, Positionless) \o r.rest)

-----------------------------------------------------------------------------
(* Complete reports: a position with the weather symbol, DDD/SSS, fields    *)

NoTime == [form |-> "none", a |-> 0, b |-> 0, c |-> 0]

parse_position_weather(s) ==
  LET timed == s[1] \in {B["@"], B["/"]}
      at    == IF timed THEN 8 ELSE 1
      wind  == at + LATLON_LEN
      fields(dir, speed) ==
        parse_tagged([NoWeather EXCEPT !.wind_direction = wind_direction(dir),
                                       !.wind_speed = MapReading(speed, from_knots)],
                     s, wind + 7, Complete, TRUE, TRUE).v
      blown == IF ~Has(s, wind + 4) \/ s[wind + 4] # B["/"] THEN Err
               ELSE Then(parse_reading(s, wind, 3), LAMBDA dir :
                      Then(parse_reading(s, wind + 4, 3), LAMBDA speed : Ok(fields(dir, speed))))
  IN  Then(IF timed THEN parse_timestamp(s, 1) ELSE Ok(NoTime), LAMBDA time :
        Then(parse_latlon(s, at), LAMBDA block :
          IF block.symbol[2] # B["_"] THEN Err
          ELSE Then(blown, LAMBDA report :
                 Ok(block @@ [messaging |-> s[1] \in {B["="], B["@"]}, timestamp |-> time] @@ report))))

build_position_weather(r) ==
  LET timed == r.timestamp # NoTime
  IN  IF ~check_weather(r.weather, Complete) THEN Err
      ELSE Then(IF timed THEN write_timestamp(r.timestamp) ELSE Ok(<<>>), LAMBDA time :
             Ok(<<IF timed THEN (IF r.messaging THEN B["@"] ELSE B["/"])
                  ELSE (IF r.messaging THEN B["="] ELSE B["!"])>>
                  \o time \o write_latlon([r EXCEPT !.symbol[2] = B["_"]])
                  \o write_reading(r.weather.wind_direction, Same, 3) \o <<B["/"]>>
                  \o write_reading(r.weather.wind_speed, knots, 3)
                  \o write_fields(r.weather, Complete) \o r.rest))

-----------------------------------------------------------------------------
(* src/src/aprs/ultimeter.rs: the hexadecimal records of Ultimeter weather *)
(* consoles and what they become as weather reports.  A record is its      *)
(* format and its fields by name; a field is <<>> for an absent sensor or  *)
(* one past the end of a short record.                                     *)

TEMPERATURE_BIAS == 56
UltimeterLengths ==
  [Packet |-> {44, 48, 52}, DataLogger |-> {40, 44, 48}, TwoMph |-> {13}, TwoKph |-> {13}]

HexValue(b) ==
  IF IsDigit(b) THEN b - B["0"]
  ELSE IF ToUpper(b) \in B["A"] .. B["F"] THEN ToUpper(b) - B["A"] + 10 ELSE -1

\* hex_field: all hyphens is an absent sensor, some hyphens an error.
hex_field(block, at, width) ==
  LET f == Slice(block, at, width)
  IN  IF ~Has(block, at + width) \/ AllIn(f, LAMBDA b : b = B["-"]) THEN Ok(None)
      ELSE IF \E i \in DOMAIN f : HexValue(f[i]) = -1 THEN Err
      ELSE Ok(<<FoldLeft(LAMBDA acc, b : acc * 16 + HexValue(b), 0, f)>>)

\* detect: the identifier alone does not decide for '$' and '!'.
detect(info) ==
  CASE StartsWith(info, Bytes("$ULTW")) -> "Packet"
    [] StartsWith(info, Bytes("!!")) -> "DataLogger"
    [] StartsWith(info, Bytes("*")) -> "TwoMph"
    [] StartsWith(info, Bytes("#")) -> "TwoKph"
    [] OTHER -> "none"

Header == [Packet |-> 5, DataLogger |-> 2, TwoMph |-> 1, TwoKph |-> 1]

\* The fields, in order, of parse_packet, parse_data_logger and
\* parse_ultimeter_two: the orders differ from the sixth on.
PacketFields ==
  <<"wind_peak", "wind_direction", "temperature", "rain_total", "barometer", "barometer_delta",
    "correction_lsw", "correction_msw", "humidity", "date", "time", "rain_today", "wind_average">>
DataLoggerFields ==
  <<"wind_speed", "wind_direction", "temperature", "rain_total", "barometer", "indoor_temperature",
    "humidity", "indoor_humidity", "date", "time", "rain_today", "wind_average">>
TwoFields == <<"wind_direction", "wind_speed", "temperature", "rain_upper", "rain_lower">>
TwoAt == <<0, 1, 3, 5, 9>>
TwoWidth == <<1, 2, 2, 4, 4>>

FieldNames(format) == IF format = "Packet" THEN PacketFields
                      ELSE IF format = "DataLogger" THEN DataLoggerFields ELSE TwoFields

\* signed_word, direction, byte_field.
Narrow(format, name, n) ==
  IF format \in {"TwoMph", "TwoKph"} THEN n
  ELSE IF name \in {"temperature", "barometer_delta", "indoor_temperature"}
  THEN IF n >= 32768 THEN n - 65536 ELSE n
  ELSE IF name = "wind_direction" THEN n % 256 ELSE n

\* split_block: the run of digits and hyphens must have a legal length.
RunLength(body) ==
  Min({i - 1 : i \in {i \in DOMAIN body : body[i] # B["-"] /\ HexValue(body[i]) = -1}}
        \cup {Len(body)})

parse_ultimeter(info) ==
  LET format == detect(info)
      body   == From(info, Header[format])
      run    == RunLength(body)
      block  == SubSeq(body, 1, run)
      names  == FieldNames(format)
      two    == format \in {"TwoMph", "TwoKph"}
      read(i) == IF two THEN hex_field(block, TwoAt[i], TwoWidth[i]) ELSE hex_field(block, 4 * (i - 1), 4)
  IN  IF format = "none" THEN Err
      ELSE IF run \notin UltimeterLengths[format] \/ \E i \in DOMAIN names : ~read(i).ok THEN Err
      ELSE Ok([format |-> format, rest |-> From(body, run),
               fields |-> [n \in Range(names) |->
                             LET i == CHOOSE k \in DOMAIN names : names[k] = n
                             IN  MapReading(read(i).v, LAMBDA v : Narrow(format, n, v))]])

-----------------------------------------------------------------------------
(* Conversions                                                             *)

\* direction_degrees divides the circle by 255, point_degrees by 16.
direction_degrees(raw) == (raw * 360 + 127) \div 255
point_degrees(point) == ((point % 16) * 45 + 1) \div 2
tenth_kph_to_speed(n) == n * (MMH_PER_KMH \div 10)
\* tenths_to_humidity: outside 1 .. 100 percent is no reading.
tenths_to_humidity(r) ==
  IF r = None THEN None
  ELSE LET p == (r[1] + 5) \div 10 IN IF p \in 1 .. 100 THEN <<p>> ELSE None

time_of_day(r) == IF r = None \/ r[1] >= 1440 THEN None ELSE << <<r[1] \div 60, r[1] % 60>> >>
day_of_year(r) == MapReading(r, LAMBDA d : Min({d + 1, 65535}))

\* wind_speed_typed: the identifier tells miles from kilometres per hour.
two_speed(format, n) == IF format = "TwoMph" THEN from_mph(n) ELSE tenth_kph_to_speed(10 * n)

\* to_weather_report of the three records.  The Ultimeter II rain gauges have
\* no APRS field.
to_weather_report(u) ==
  LET f == u.fields
      four == [NoWeather EXCEPT
                 !.wind_direction = MapReading(f.wind_direction, direction_degrees),
                 !.temperature = MapReading(f.temperature, from_tenths_fahrenheit),
                 !.rain_midnight = MapReading(f.rain_today, from_hundredths_inch),
                 !.humidity = tenths_to_humidity(f.humidity),
                 !.barometric_pressure = MapReading(f.barometer, from_tenths_hpa)]
  IN  CASE u.format = "Packet" ->
             [four EXCEPT !.wind_speed = MapReading(f.wind_average, tenth_kph_to_speed),
                          !.gust = MapReading(f.wind_peak, tenth_kph_to_speed)]
        [] u.format = "DataLogger" ->
             [four EXCEPT !.wind_speed = MapReading(IF f.wind_average # None THEN f.wind_average
                                                    ELSE f.wind_speed, tenth_kph_to_speed)]
        [] OTHER ->
             [NoWeather EXCEPT
                !.wind_direction = MapReading(f.wind_direction, point_degrees),
                !.wind_speed = MapReading(f.wind_speed, LAMBDA n : two_speed(u.format, n)),
                !.temperature = MapReading(f.temperature, LAMBDA n : from_fahrenheit(n - TEMPERATURE_BIAS))]
=============================================================================
