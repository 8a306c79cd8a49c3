------------------------------- MODULE Bridge -------------------------------
(***************************************************************************)
(* A station that re-originates APRS traffic with this library: it decodes *)
(* an information field, may put the value into another spelling, builds   *)
(* it again and passes it on in an AX.25 frame, as a monitor line or       *)
(* inside third-party traffic, to a station that does the same.  This is   *)
(* the canonicalising path of docs/APRS_CONFORMANCE.md, whose round-trip   *)
(* properties F2 (what is written is accepted) and F3 (the value settles)  *)
(* are stated below over any sequence of these operations; the state       *)
(* machine is any client of the library, its steps are calls of it.        *)
(***************************************************************************)
EXTENDS Aprs

CONSTANTS Received,     \* [dest, info] the first station hears
          MaxSteps      \* bound: operations applied to one packet

VARIABLES dest, info,   \* the destination callsign and the information field
          value,        \* what they decode to, while holding is "value"
          holding,      \* "wire", "value", or "stuck": a carrier did not bring it over
          before,       \* history: the value that the wire form was built from
          origin,       \* history: where the packet first said it was
          coarse,       \* history: how many digits its spelling has to leave blank
          steps

bridgeVars == <<dest, info, value, holding, before, origin, coarse, steps>>

Nowhere == [lat |-> Angle(FALSE, 0, 0), lon |-> Angle(FALSE, 0, 0), step |-> 0]

Positions == {"Position", "PositionCs", "PositionTimestamped"}
Places == {"Object", "Item", "MicE", "PositionWeather"}

\* The latitude, longitude and ambiguity fields of a value.
Field(d) == IF d.kind \in Positions THEN d.v.position ELSE d.v
IsLocated(d) == d.kind \in Positions \cup Places
\* coordinates, of whichever report, and how fine they are.
Place(d) ==
  IF ~IsLocated(d) THEN Nowhere
  ELSE LET f == Field(d)
       IN  [lat |-> Mask(f.lat, f.ambiguity), lon |-> Mask(f.lon, f.ambiguity), step |-> Step(f.ambiguity)]
Blanked(d) == IF IsLocated(d) THEN Field(d).ambiguity ELSE EXACT
IsCompressed(d) == d.kind \in Positions \cup {"Object", "Item"} /\ Field(d).compressed

Undecoded == Kind("undecoded")

BridgeInit ==
  \E r \in Received :
    /\ dest = r.dest /\ info = r.info
    /\ value = Undecoded /\ holding = "wire" /\ before = Undecoded /\ steps = 0
    /\ origin = Nowhere /\ coarse = EXACT

Step_(h) == steps < MaxSteps /\ steps' = steps + 1 /\ holding' = h

\* Decoded::decode.
Decode ==
  /\ holding = "wire" /\ Step_("value")
  /\ value' = classify(dest, info)
  /\ IF before = Undecoded /\ origin = Nowhere
     THEN origin' = Place(value') /\ coarse' = Blanked(value') ELSE UNCHANGED <<origin, coarse>>
  /\ UNCHANGED <<dest, info, before>>

-----------------------------------------------------------------------------
(* Building                                                                *)

IsPacket(d) == d.kind \notin {"MicE", "Nmea", "Ultimeter", "ThirdParty"} /\ is_typed(d)

\* MicE::encode: the destination and the information field of the report.
encode_mic_e(m) ==
  Then(encode_destination(m), LAMBDA d : Then(encode_info(m), LAMBDA i : Ok([dest |-> d, info |-> i])))

\* AprsPacket::to_vec, or MicE::encode.
Written(d) ==
  IF d.kind = "MicE" THEN encode_mic_e(d.v)
  ELSE Then(build_packet(d), LAMBDA w : Ok([dest |-> dest, info |-> w]))

\* A longitude that rounds up to 10, 100 or 180 degrees: encode_destination
\* takes the offset from the degrees before rounding, encode_info the byte
\* from those after it.
OffsetSplit(m) == m.lon.deg \in {9, 99, 179} /\ split_dmh(m.lon).deg # m.lon.deg

\* The values the library writes without being able to read them back.
Deviates(d) ==
  \/ IsCompressed(d) /\ IsDigit(Field(d).symbol[1])     \* read as a latitude's first digit
  \/ d.kind = "Item" /\ Len(Field(d).comment) < LATLON_LEN - COMPRESSED_BODY /\ IsCompressed(d)
  \/ d.kind = "MicE" /\ OffsetSplit(d.v)

Put(w) == w.ok /\ Step_("wire") /\ info' = w.v.info /\ dest' = w.v.dest

Build ==
  /\ holding = "value" /\ (IsPacket(value) \/ value.kind = "MicE")
  /\ Put(Written(value))
  /\ before' = value /\ value' = Undecoded
  /\ origin' = IF Deviates(value) THEN Nowhere ELSE origin
  /\ UNCHANGED coarse

\* built is to_vec's result for d, again that of parsing it.
verdict(d, wire, built, again) ==
  IF ~IsPacket(d) THEN "n/a"
  ELSE IF ~built.ok THEN "failed"
  ELSE IF built.v = wire THEN "exact"
  ELSE IF ~again.ok THEN "rejected"
  ELSE IF again.v = d THEN "differs" ELSE "value_changed"

\* rebuild_verdict of decode --tnc2 --verify-rebuild.
rebuild_verdict(d, wire) ==
  With(build_packet(d), LAMBDA built : verdict(d, wire, built, parse_packet(built.v)))

-----------------------------------------------------------------------------
(* Transport                                                               *)

Source == [call |-> Bytes("N0CALL"), ssid |-> 1]
To == [call |-> dest, ssid |-> 0]
Digi == [call |-> Bytes("WIDE1"), ssid |-> 1]

\* What the other end makes of a carrier: a destination and a field, or nothing.
Arrive(heard) ==
  /\ holding = "wire" /\ dest # <<>>
  /\ IF heard.ok THEN Step_("wire") /\ info' = heard.v.info /\ dest' = heard.v.dest
     ELSE Step_("stuck") /\ UNCHANGED <<info, dest>>
  /\ UNCHANGED <<value, before, origin, coarse>>

\* build_ui_frame, then UiFrame::parse at the other end.
Air ==
  \E frame \in {with_hops(To, Source, <<[address |-> Digi, repeated |-> FALSE]>>, info)} :
    /\ frame.ok
    /\ Arrive(Then(parse_frame(build_frame(frame.v)), LAMBDA heard :
                Ok([dest |-> heard.dest.call, info |-> heard.info])))

IsText(s) == AllIn(s, LAMBDA b : b \notin EndOfLine)

\* format_line, then MonitorLine::parse.
Line ==
  /\ IsText(info)
  /\ Arrive(parse_line(format_line(Bytes("N0CALL-1"), dest, Bytes("WIDE1-1"), info)))

\* '}' and a monitor line, then ThirdParty::parse and its payload.
Wrap ==
  /\ IsText(info)
  /\ Arrive(With(classify(Bytes("APZYDL"), <<B["}"]>> \o format_line(Bytes("N0CALL-1"), dest, Bytes("TCPIP"), info)),
                 LAMBDA heard : IF heard.kind = "ThirdParty"
                                THEN Ok([dest |-> heard.v.dest, info |-> heard.v.payload]) ELSE Err))

\* Third-party traffic heard from outside.
Unwrap ==
  /\ holding = "value" /\ value.kind = "ThirdParty" /\ Step_("wire")
  /\ info' = value.v.payload /\ dest' = value.v.dest /\ value' = Undecoded
  /\ UNCHANGED <<before, origin, coarse>>

-----------------------------------------------------------------------------
(* Another spelling of the same report                                     *)

\* Position::with_compressed, and the compressed field of objects and items.
\* The compressed form has no blanks, no extension and here no csT data.
Respell ==
  /\ holding = "value" /\ value.kind \in Positions \cup {"Object", "Item"} /\ Step_("value")
  /\ value' = IF value.kind \notin Positions THEN [value EXCEPT !.v.compressed = ~@]
              ELSE [value EXCEPT !.kind = IF @ = "PositionCs" THEN "Position" ELSE @,
                                 !.v.position.compressed = ~@, !.v.cs = NoData, !.v.type = DefaultType]
  /\ coarse' = EXACT /\ before' = Undecoded
  /\ UNCHANGED <<dest, info, origin>>

\* MicE::new of a position's coordinates.
ToMicE ==
  /\ holding = "value" /\ value.kind \in Positions /\ Step_("value")
  /\ LET p == value.v.position
         m == new_mic_e(p.lat, p.lon, 0, 0, p.symbol, from_bits(7, FALSE))
     IN  m.ok /\ value' = [kind |-> "MicE", v |-> [m.v EXCEPT !.ambiguity = p.ambiguity]]
  /\ before' = Undecoded
  /\ UNCHANGED <<dest, info, origin, coarse>>

\* Position::new of a Mic-E report's coordinates.
FromMicE ==
  /\ holding = "value" /\ value.kind = "MicE" /\ check_symbol_table(value.v.symbol[1]) /\ Step_("value")
  /\ LET m == value.v
     IN  value' = [kind |-> "Position",
                   v |-> [position |-> [lat |-> m.lat, lon |-> m.lon, symbol |-> m.symbol,
                                        ambiguity |-> m.ambiguity, messaging |-> FALSE,
                                        compressed |-> FALSE, extension |-> NoExtension,
                                        comment |-> <<>>],
                          cs |-> NoData, type |-> DefaultType]]
  /\ before' = Undecoded
  /\ UNCHANGED <<dest, info, origin, coarse>>

\* UltimeterRecord::to_weather_report and PositionlessWeather::new.
ToWeather ==
  /\ holding = "value" /\ value.kind = "Ultimeter" /\ Step_("value")
  /\ value' = [kind |-> "Weather", v |-> [mdhm |-> <<10, 9, 5, 56>>, rest |-> <<>>,
                                          weather |-> to_weather_report(value.v)]]
  /\ before' = Undecoded
  /\ UNCHANGED <<dest, info, origin, coarse>>

BridgeNext == \/ Decode \/ Build \/ Air \/ Line \/ Wrap \/ Unwrap
              \/ Respell \/ ToMicE \/ FromMicE \/ ToWeather

-----------------------------------------------------------------------------
(* What a spelling keeps of a value                                        *)

\* Half up to hundredths of a minute, or down to whole steps of a grid that
\* runs from -off degrees.
Rounded(a) == Angle(a.neg, to_hundredths(a) \div 6000,
                    (to_hundredths(a) % 6000) * UNITS_PER_HUNDREDTH_MINUTE)
Gridded(a, off, unit) == LET up == Above(a, off) IN Below([up EXCEPT !.frac = @ - (@ % unit)], off)

SpeltPlace(f, compressed) ==
  IF compressed
  THEN [lat |-> Opposite(Gridded(Opposite(f.lat), LAT_MAX, UNITS_PER_COMPRESSED_LAT)),
        lon |-> Gridded(f.lon, LON_MAX, UNITS_PER_COMPRESSED_LON), ambiguity |-> EXACT]
  ELSE [lat |-> Mask(Rounded(f.lat), f.ambiguity), lon |-> Mask(Rounded(f.lon), f.ambiguity),
        ambiguity |-> f.ambiguity]

SpeltWeather(w) ==
  [w EXCEPT !.wind_speed = MapReading(@, mph), !.gust = MapReading(@, mph),
            !.temperature = MapReading(@, fahrenheit), !.rain_midnight = MapReading(@, hundredths_inch),
            !.barometric_pressure = MapReading(@, tenths_hpa)]

\* The value as any reader of its wire form can know it.
Spelt(d) ==
  CASE d.kind \in Positions ->
         [d EXCEPT !.v.position = SpeltPlace(@, @.compressed) @@ @,
                   !.v.position.extension = IF d.v.position.compressed THEN NoExtension ELSE @]
    [] d.kind \in {"Object", "Item"} -> [d EXCEPT !.v = SpeltPlace(@, @.compressed) @@ @]
    [] d.kind \in {"MicE", "PositionWeather"} -> [d EXCEPT !.v = SpeltPlace(@, FALSE) @@ @]
    [] d.kind = "Weather" -> [d EXCEPT !.v.weather = SpeltWeather(@)]
    [] OTHER -> d

-----------------------------------------------------------------------------
(* Properties                                                              *)

ReadBack == holding = "value" /\ before # Undecoded /\ ~Deviates(before)

\* F2 and F3: what the library writes, however carried, it decodes to the same
\* value, as far as the spelling can hold it.
ReadsBack == holding # "stuck" /\ (ReadBack => Spelt(value) = Spelt(before))

\* A coordinate south or west of zero that is written as zero keeps its
\* hemisphere letter on the wire and loses it in the value.
SignLost(d) ==
  IsLocated(d) /\ \E a \in {Field(d).lat, Field(d).lon} : a.neg /\ to_hundredths(a) = 0

\* A packet the library wrote is its own canonical form: --verify-rebuild
\* finds it exact.
Canonical == ReadBack /\ IsPacket(value) /\ ~SignLost(before) => rebuild_verdict(value, info) = "exact"

\* a is at most tol units beyond b, both counted up from -off degrees.
AtMost(a, b, off, tol) ==
  LET x == Above(a, off)  y == Above(b, off)
  IN  \/ x.deg < y.deg
      \/ x.deg = y.deg /\ x.frac - y.frac <= tol
      \/ x.deg = y.deg + 1 /\ x.frac <= tol - (UNITS_PER_DEGREE - y.frac)
Near(a, b, off, tol) == AtMost(a, b, off, tol) /\ AtMost(b, a, off, tol)

\* One rounding of the wire, in either spelling.
Tolerance == origin.step + UNITS_PER_HUNDREDTH_MINUTE \div 2 + UNITS_PER_COMPRESSED_LON

\* No sequence of spellings, carriers and formats (write_latlon, write_compressed,
\* encode_info) moves a station further than one rounding of the wire from
\* where it first said it was.
NoDrift == ReadBack /\ origin # Nowhere /\ IsLocated(value) =>
             /\ Near(Place(value).lat, origin.lat, LAT_MAX, Tolerance)
             /\ Near(Place(value).lon, origin.lon, LON_MAX, Tolerance)

\* A station that blanked digits never appears with those digits, whichever
\* uncompressed report its position is moved into.
NeverFiner == holding = "value" /\ IsLocated(value) /\ coarse > EXACT =>
                Blanked(value) >= coarse

\* The doc of MicE::comment: encode is the exact inverse of decode.  It fails
\* for a longitude that rounds up to 10, 100 or 180 degrees (OffsetSplit).
MicEInverse == holding = "value" /\ before.kind = "MicE" => Spelt(value) = Spelt(before)
=============================================================================
