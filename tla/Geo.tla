-------------------------------- MODULE Geo --------------------------------
(***************************************************************************)
(* src/src/geo.rs: latitudes, longitudes, position ambiguity, Maidenhead   *)
(* locators; and src/src/units.rs, at the end.                             *)
(*                                                                         *)
(* The code counts in units of 1/342833400000000 degree, fine enough that  *)
(* every wire grid falls on whole units.  The model's unit is 300000 of    *)
(* those: hundredths of a minute, base-91 steps and locator cells are      *)
(* still whole numbers of it, and a degree is below 2^31.  An angle is a   *)
(* sign, whole degrees and units; zero has no sign.  Conversions from and  *)
(* to floating point, distances and bearings are left out.                 *)
(***************************************************************************)
EXTENDS Text

UNITS_PER_DEGREE == 1142778000
UNITS_PER_MINUTE == UNITS_PER_DEGREE \div 60
UNITS_PER_HUNDREDTH_MINUTE == UNITS_PER_MINUTE \div 100

Angle(neg, deg, frac) == [neg |-> neg /\ (deg # 0 \/ frac # 0), deg |-> deg, frac |-> frac]
Opposite(a) == Angle(~a.neg, a.deg, a.frac)

LAT_MAX == 90
LON_MAX == 180

\* Latitude::new and Longitude::new, for max = LAT_MAX and LON_MAX.
Checked(a, max) == IF a.deg < max \/ (a.deg = max /\ a.frac = 0) THEN Ok(a) ELSE Err

\* from_degrees_minutes: 60 minutes or more carry into the degrees.
from_degrees_minutes(deg, hundredths, neg, max) ==
  Checked(Angle(neg, deg + hundredths \div 6000,
                (hundredths % 6000) * UNITS_PER_HUNDREDTH_MINUTE), max)

from_hundredths_minute(h, max) ==
  from_degrees_minutes(0, IF h < 0 THEN -h ELSE h, h < 0, max)

\* degrees_minutes, to_hundredths: the magnitude, rounded half up.
to_hundredths(a) ==
  a.deg * 6000 +
    (a.frac + UNITS_PER_HUNDREDTH_MINUTE \div 2) \div UNITS_PER_HUNDREDTH_MINUTE

\* The angle counted up from -off degrees: whole degrees and units.
Above(a, off) ==
  IF ~a.neg THEN [deg |-> off + a.deg, frac |-> a.frac]
  ELSE IF a.frac = 0 THEN [deg |-> off - a.deg, frac |-> 0]
  ELSE [deg |-> off - a.deg - 1, frac |-> UNITS_PER_DEGREE - a.frac]

\* The inverse of Above.
Below(up, off) ==
  IF up.deg >= off THEN Angle(FALSE, up.deg - off, up.frac)
  ELSE IF up.frac = 0 THEN Angle(TRUE, off - up.deg, 0)
  ELSE Angle(TRUE, off - up.deg - 1, UNITS_PER_DEGREE - up.frac)

-----------------------------------------------------------------------------
(* Ambiguity: how many trailing digits of DDMM.hh are blanked, 0 .. 4       *)

EXACT == 0

\* Ambiguity::step.
Step(ambiguity) ==
  CASE ambiguity = 1 -> UNITS_PER_HUNDREDTH_MINUTE * 10
    [] ambiguity = 2 -> UNITS_PER_MINUTE
    [] ambiguity = 3 -> UNITS_PER_MINUTE * 10
    [] ambiguity = 4 -> UNITS_PER_DEGREE
    [] OTHER -> 1

\* Ambiguity::mask: towards zero, to a whole number of steps.
Mask(a, ambiguity) == Angle(a.neg, a.deg, a.frac - (a.frac % Step(ambiguity)))

-----------------------------------------------------------------------------
(* Maidenhead locators of 4, 6 or 8 characters                             *)

LAT_SUB == UNITS_PER_DEGREE \div 24
LON_SUB == UNITS_PER_DEGREE \div 12

\* maidenhead_with_precision: longitude 180 is longitude -180, and the north
\* pole belongs to the row below it.
maidenhead(lat, lon, characters) ==
  LET north == Above(lat, LAT_MAX)
      y == IF north.deg >= 2 * LAT_MAX
           THEN [deg |-> 2 * LAT_MAX - 1, frac |-> UNITS_PER_DEGREE - 1] ELSE north
      east == Above(lon, LON_MAX)
      x == IF east.deg >= 2 * LON_MAX THEN [east EXCEPT !.deg = @ - 2 * LON_MAX] ELSE east
  IN  SubSeq(<< B["A"] + x.deg \div 20, B["A"] + y.deg \div 10,
                B["0"] + (x.deg % 20) \div 2, B["0"] + (y.deg % 10),
                B["a"] + (x.deg % 2) * 12 + x.frac \div LON_SUB, B["a"] + y.frac \div LAT_SUB,
                B["0"] + (x.frac % LON_SUB) \div (LON_SUB \div 10),
                B["0"] + (y.frac % LAT_SUB) \div (LAT_SUB \div 10) >>, 1, characters)

\* from_maidenhead: the centre of the cell.
from_maidenhead(grid) ==
  LET sub   == Len(grid) >= 6
      ext   == Len(grid) = 8
      c(i)  == grid[i] - (IF i \in {1, 2} THEN B["A"] ELSE IF i \in {5, 6} THEN B["a"] ELSE B["0"])
      x     == IF sub THEN (c(5) % 12) * LON_SUB + (IF ext THEN c(7) * (LON_SUB \div 10)
                                                           + LON_SUB \div 20 ELSE LON_SUB \div 2)
               ELSE 0
      y     == IF sub THEN c(6) * LAT_SUB + (IF ext THEN c(8) * (LAT_SUB \div 10)
                                                    + LAT_SUB \div 20 ELSE LAT_SUB \div 2)
               ELSE UNITS_PER_DEGREE \div 2
      east  == c(1) * 20 + c(3) * 2 + (IF sub THEN c(5) \div 12 ELSE 1)
      north == c(2) * 10 + c(4)
  IN  [lat |-> Below([deg |-> north, frac |-> y], LAT_MAX),
       lon |-> Below([deg |-> east, frac |-> x], LON_MAX)]

\* MaidenheadGrid::from_bytes, with the letters put in their canonical case.
from_bytes(s) ==
  LET canonical(i) == IF i \in {1, 2} THEN ToUpper(s[i])
                      ELSE IF i \in {5, 6} /\ IsUpper(s[i]) THEN s[i] + 32 ELSE s[i]
      valid(i) == LET b == canonical(i)
                  IN  IF i \in {1, 2} THEN b \in B["A"] .. B["R"]
                      ELSE IF i \in {5, 6} THEN b \in B["a"] .. B["x"] ELSE IsDigit(b)
  IN  IF Len(s) \in {4, 6, 8} /\ \A i \in DOMAIN s : valid(i)
      THEN Ok([i \in DOMAIN s |-> canonical(i)]) ELSE Err

\* MaidenheadGrid::to_precision.
to_precision(grid, characters) == SubSeq(grid, 1, Min({characters, Len(grid)}))

-----------------------------------------------------------------------------
(* src/src/units.rs: a quantity is a whole number of a unit fine         *)
(* enough that every unit of the wire is a whole multiple of it.  Speed    *)
(* counts millimetres per hour, Rainfall micrometres, Temperature 1/45000  *)
(* degree Celsius, Pressure millipascals; Distance counts 100 micrometres  *)
(* (one in the code).  The code's 64-bit saturation lies beyond every wire *)
(* value.                                                                  *)

MMH_PER_KNOT == 1852000
MMH_PER_MPH == 1609344
MMH_PER_KMH == 1000000
UM_PER_HUNDREDTH_INCH == 254
UM_PER_MILLIMETER == 1000
UNITS_PER_CELSIUS == 45000
UNITS_PER_FAHRENHEIT == 25000
FAHRENHEIT_OFFSET == 32
MPA_PER_TENTH_HPA == 10000
MPA_PER_INHG == 3386389
UM100_PER_FOOT == 3048
UM100_PER_METER == 10000

\* div_round: to the nearest, halves away from zero.
div_round(value, divisor) ==
  IF value >= 0 THEN (value + divisor \div 2) \div divisor
  ELSE -((divisor \div 2 - value) \div divisor)

from_knots(n) == n * MMH_PER_KNOT
from_mph(n) == n * MMH_PER_MPH
from_kmh(n) == n * MMH_PER_KMH
knots(speed) == div_round(speed, MMH_PER_KNOT)
mph(speed) == div_round(speed, MMH_PER_MPH)
kmh(speed) == div_round(speed, MMH_PER_KMH)

from_hundredths_inch(n) == n * UM_PER_HUNDREDTH_INCH
hundredths_inch(rain) == div_round(rain, UM_PER_HUNDREDTH_INCH)
rain_millimeters(rain) == div_round(rain, UM_PER_MILLIMETER)

from_celsius(n) == n * UNITS_PER_CELSIUS
from_fahrenheit(n) == (n - FAHRENHEIT_OFFSET) * UNITS_PER_FAHRENHEIT
from_tenths_fahrenheit(n) == (n - 10 * FAHRENHEIT_OFFSET) * (UNITS_PER_FAHRENHEIT \div 10)
celsius(t) == div_round(t, UNITS_PER_CELSIUS)
fahrenheit(t) == div_round(t + FAHRENHEIT_OFFSET * UNITS_PER_FAHRENHEIT, UNITS_PER_FAHRENHEIT)
tenths_fahrenheit(t) ==
  div_round(t + FAHRENHEIT_OFFSET * UNITS_PER_FAHRENHEIT, UNITS_PER_FAHRENHEIT \div 10)

from_tenths_hpa(n) == n * MPA_PER_TENTH_HPA
tenths_hpa(p) == div_round(p, MPA_PER_TENTH_HPA)

from_feet(n) == n * UM100_PER_FOOT
from_meters(n) == n * UM100_PER_METER
feet(d) == div_round(d, UM100_PER_FOOT)
meters(d) == div_round(d, UM100_PER_METER)

\* Bearing::new: 360 is north again.  compass_point: sixteen points.
bearing(degrees) == degrees % 360
compass_point(degrees) == ((degrees * 16 + 180) \div 360) % 16
point_bearing(point) == (point * 45 + 1) \div 2

\* Humidity: 00 on the wire is 100 percent.
from_wire_percent(n) == IF n = 0 THEN 100 ELSE n
wire_percent(h) == IF h = 100 THEN 0 ELSE h
=============================================================================
