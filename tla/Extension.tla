----------------------------- MODULE Extension -----------------------------
(***************************************************************************)
(* src/src/aprs/symbol.rs and src/src/aprs/extension.rs: the map symbol,   *)
(* the data extension that may open a position's comment, and the fields   *)
(* hidden in the comment itself (altitude, telemetry, !DAO!).              *)
(*                                                                         *)
(* A symbol is its wire pair <<table, code>>: the code's Valid and Raw     *)
(* forms both write back the pair they were read from.                     *)
(***************************************************************************)
EXTENDS Geo

-----------------------------------------------------------------------------
(* Symbols                                                                 *)

Primary == B["/"]
Alternate == B["\\"]
IsOverlay(b) == IsDigit(b) \/ IsUpper(b)

\* Symbol::from_wire finds a table and a code it knows.
IsValidSymbol(sym) ==
  (sym[1] \in {Primary, Alternate} \/ IsOverlay(sym[1])) /\ sym[2] \in 33 .. 126

NoSymbol == <<0, 0>>

\* mnemonic: the rows of the xy table: alternate?, first code, first y, length.
Row(x) ==
  CASE x = B["B"] -> <<FALSE, B["!"], B["B"], 15>> [] x = B["O"] -> <<TRUE, B["!"], B["B"], 15>>
    [] x = B["M"] -> <<FALSE, B[":"], B["R"], 7>>  [] x = B["N"] -> <<TRUE, B[":"], B["R"], 7>>
    [] x = B["H"] -> <<FALSE, B["["], B["S"], 6>>  [] x = B["D"] -> <<TRUE, B["["], B["S"], 6>>
    [] x = B["L"] -> <<FALSE, B["a"], B["A"], 26>> [] x = B["S"] -> <<TRUE, B["a"], B["A"], 26>>
    [] x = B["J"] -> <<FALSE, B["{"], B["1"], 4>>  [] x = B["Q"] -> <<TRUE, B["{"], B["1"], 4>>
    [] OTHER -> <<FALSE, 0, 0, 0>>

mnemonic(x, y) ==
  IF x \in {B["P"], B["A"]}
  THEN IF IsOverlay(y) THEN Ok([alternate |-> x = B["A"], code |-> y]) ELSE Err
  ELSE LET r == Row(x)
       IN  IF y >= r[3] /\ y - r[3] < r[4]
           THEN Ok([alternate |-> r[1], code |-> r[2] + (y - r[3])]) ELSE Err

\* from_destination: the symbol a GPSxyz, SPCxyz or SYMxyz destination spells.
from_destination(callsign) ==
  LET call    == TrimEnd(callsign)
      generic == \E g \in {"GPS", "SPC", "SYM"} :
                   StartsWith(call, Bytes(g))
      numeric == Len(call) = 6 /\ call[1] = B["G"] /\ call[4] \in {B["C"], B["E"]}
      nn      == Num(From(call, 4))
      xy      == mnemonic(call[4], call[5])
      z       == IF Len(call) = 6 THEN call[6] ELSE B[" "]
      symbol  == IF ~xy.v.alternate
                 THEN IF z = B[" "] THEN <<Primary, xy.v.code>> ELSE NoSymbol
                 ELSE IF IsOverlay(z) THEN <<z, xy.v.code>>
                 ELSE IF z = B[" "] THEN <<Alternate, xy.v.code>> ELSE NoSymbol
  IN  IF Len(call) \notin 5 .. 6 \/ ~generic THEN NoSymbol
      ELSE IF numeric
      THEN IF AllDigits(From(call, 4)) /\ nn \in 1 .. 94
           THEN <<IF call[4] = B["C"] THEN Primary ELSE Alternate, B["!"] + nn - 1>>
           ELSE NoSymbol
      ELSE IF xy.ok THEN symbol ELSE NoSymbol

\* from_source_ssid.
SsidCodes == Bytes("aUfbYX's><OjRkv")
from_source_ssid(ssid) == IF ssid \in 1 .. 15 THEN <<Primary, SsidCodes[ssid]>> ELSE NoSymbol

\* resolve: information field, then destination, then source SSID.
resolve(information, destination, ssid) ==
  IF information # NoSymbol THEN information
  ELSE IF from_destination(destination) # NoSymbol THEN from_destination(destination)
  ELSE from_source_ssid(ssid)

-----------------------------------------------------------------------------
(* The data extension                                                      *)

NoExtension == [kind |-> "none"]
Unknown == 1000                        \* None, for a bearing or a speed

MAX_HEIGHT_CODE == 28
WEATHER_SYMBOL_CODE == B["_"]

\* field3: three digits, or three dots or blanks for "not known".
Blank3 == {Bytes("..."), Bytes("   ")}
IsField3(s) == s \in Blank3 \/ AllDigits(s)
field3(s) == IF s \in Blank3 THEN Unknown ELSE Num(s)

\* Rate of a PHGR: no rate, unscheduled, or 1 .. 35 per hour.
NoRate == -1
Unscheduled == 0
phgr_rate(b) ==
  IF IsDigit(b) THEN b - B["0"] ELSE IF IsUpper(b) THEN 10 + (b - B["A"]) ELSE NoRate

\* CourseSpeed, or Wind under the weather symbol.  A zero bearing is unknown,
\* and 000/000 is an unknown speed as well.  The wire bytes are kept.
Pair(s, sym) ==
  LET a == SubSeq(s, 1, 3)  b == SubSeq(s, 5, 7)  zero == Digits(0, 3)
  IN  IF ~IsField3(a) \/ ~IsField3(b) \/ field3(a) \in 361 .. 999 THEN NoExtension
      ELSE [kind    |-> IF sym[2] = WEATHER_SYMBOL_CODE THEN "Wind" ELSE "CourseSpeed",
            degrees |-> IF field3(a) = 0 THEN Unknown ELSE field3(a),
            knots   |-> IF a = zero /\ b = zero THEN Unknown ELSE field3(b),
            wire    |-> a \o b]

\* PHG and DFS share the layout: digit, height code, digit, digit.
IsCodes(c) == IsDigit(c[1]) /\ c[2] \in B["0"] .. B["0"] + MAX_HEIGHT_CODE
                /\ IsDigit(c[3]) /\ IsDigit(c[4])
Codes(c) == [i \in 1 .. 4 |-> c[i] - B["0"]]

\* DataExtension::parse, of the bytes after the position.
parse_extension(s, sym) ==
  LET tag == SubSeq(s, 1, 3)  c == SubSeq(s, 4, 7)
  IN  IF ~Has(s, 7) THEN NoExtension
      ELSE IF s[4] = B["/"] THEN Pair(s, sym)
      ELSE IF tag = Bytes("PHG") /\ IsCodes(c)
      THEN [kind |-> "Phg", codes |-> Codes(c),
            rate |-> IF Has(s, 9) /\ s[9] = B["/"] THEN phgr_rate(s[8]) ELSE NoRate]
      ELSE IF tag = Bytes("RNG") /\ AllDigits(c) THEN [kind |-> "Range", miles |-> Num(c)]
      ELSE IF tag = Bytes("DFS") /\ IsCodes(c) THEN [kind |-> "Dfs", codes |-> Codes(c)]
      ELSE NoExtension

\* DataExtension::write.
write_extension(e) ==
  CASE e.kind = "none" -> <<>>
    [] e.kind \in {"CourseSpeed", "Wind"} ->
         SubSeq(e.wire, 1, 3) \o <<B["/"]>> \o SubSeq(e.wire, 4, 6)
    [] e.kind = "Phg" ->
         Bytes("PHG") \o [i \in 1 .. 4 |-> B["0"] + e.codes[i]]
           \o (IF e.rate = NoRate THEN <<>>
               ELSE <<IF e.rate < 10 THEN B["0"] + e.rate ELSE B["A"] + Min({e.rate - 10, 25}),
                      B["/"]>>)
    [] e.kind = "Range" -> Bytes("RNG") \o Digits(e.miles, 4)
    [] e.kind = "Dfs" -> Bytes("DFS") \o [i \in 1 .. 4 |-> B["0"] + e.codes[i]]

wire_len(e) == Len(write_extension(e))

-----------------------------------------------------------------------------
(* Fields in the comment                                                   *)

\* The first offset at which P holds of the n bytes there, or -1.
FirstWindow(s, n, P(_)) ==
  LET at == {i \in 0 .. Len(s) - n : P(i)} IN IF at = {} THEN -1 ELSE Min(at)

\* altitude_feet: /A=dddddd or /A=-ddddd.
NoAltitude == 1000000
IsAltitude(s, at) ==
  LET w == Slice(s, at, 9)
  IN  /\ SubSeq(w, 1, 3) = Bytes("/A=")
      /\ IsDigit(w[4]) \/ w[4] = B["-"]
      /\ AllDigits(SubSeq(w, 5, 9))
altitude_feet(s) ==
  LET at == FirstWindow(s, 9, LAMBDA i : IsAltitude(s, i))
      w  == Slice(s, at, 9)
  IN  IF at = -1 THEN NoAltitude
      ELSE IF w[4] = B["-"] THEN -Num(SubSeq(w, 5, 9)) ELSE Num(SubSeq(w, 4, 9))

\* telemetry_span: offsets of the bars around |ss11..|, or <<-1, -1>>.
telemetry_span(s) ==
  LET open  == Find(s, B["|"])
      len   == Find(From(s, open), B["|"]) - 1
      pay   == Slice(s, open, len)
  IN  IF open > 0 /\ len \in {4, 6, 8, 10, 12, 14} /\ AllIn(pay, IsBase91)
      THEN <<open - 1, open + len>> ELSE <<-1, -1>>

NoTelemetry == [seq |-> -1, analog |-> <<>>, bits |-> <<>>]
\* comment_telemetry: sequence, up to five values, and eight bits when the
\* payload has seven pairs.
comment_telemetry(s) ==
  LET span  == telemetry_span(s)
      pay   == SubSeq(s, span[1] + 2, span[2])
      count == Len(pay) \div 2
      value(i) == Num91(Slice(pay, 2 * i, 2))
  IN  IF span[1] = -1 THEN NoTelemetry
      ELSE [seq    |-> value(0),
            analog |-> [i \in 1 .. Min({count - 1, 5}) |-> value(i)],
            bits   |-> IF count = 7 THEN [i \in 1 .. 8 |-> (value(6) \div 2 ^ (i - 1)) % 2]
                       ELSE <<>>]

\* dao_addend: steps of a thousandth of a minute (digit) or of 1/91 of a
\* hundredth (base 91); a blank adds nothing.
IsAddend(b, base91) == b = B[" "] \/ (IF base91 THEN IsBase91(b) ELSE IsDigit(b))
dao_addend(b, base91) ==
  IF b = B[" "] THEN 0 ELSE IF base91 THEN b - B["!"] ELSE b - B["0"]

NoDao == [datum |-> 0, lat |-> 0, lon |-> 0]
IsDao(s, at) ==
  LET span == telemetry_span(s)  w == Slice(s, at, 5)
  IN  /\ span[1] # -1 => (at + 4 < span[1] \/ at > span[2])
      /\ w[1] = B["!"] /\ w[5] = B["!"] /\ IsAlpha(w[2])
      /\ IsAddend(w[3], IsLower(w[2])) /\ IsAddend(w[4], IsLower(w[2]))

\* dao: !DAO! outside the telemetry; the datum's case tells the encoding.
dao(s) ==
  LET at == FirstWindow(s, 5, LAMBDA i : IsDao(s, i))
      w  == Slice(s, at, 5)
  IN  IF at = -1 THEN NoDao
      ELSE [datum |-> w[2], lat |-> dao_addend(w[3], IsLower(w[2])),
            lon |-> dao_addend(w[4], IsLower(w[2]))]
=============================================================================
