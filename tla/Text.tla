-------------------------------- MODULE Text --------------------------------
(***************************************************************************)
(* Wire text of the APRS codecs: a field is a sequence of byte codes.      *)
(* B["N"] is the byte b'N' and Bytes("PHG") is b"PHG"; only the back      *)
(* quote, which a TLA+ string cannot hold, goes by a name.  A parser       *)
(* returns Ok(value) or Err; which error it is, is kept only where a       *)
(* caller looks at it.                                                     *)
(***************************************************************************)
EXTENDS Integers, Sequences, SequencesExt, FiniteSetsExt

Printable ==
  << " ", "!", "\"", "#", "$", "%", "&", "'", "(", ")", "*", "+", ",", "-", ".", "/",
     "0", "1", "2", "3", "4", "5", "6", "7", "8", "9", ":", ";", "<", "=", ">", "?",
     "@", "A", "B", "C", "D", "E", "F", "G", "H", "I", "J", "K", "L", "M", "N", "O",
     "P", "Q", "R", "S", "T", "U", "V", "W", "X", "Y", "Z", "[", "\\", "]", "^", "_",
     "grave", "a", "b", "c", "d", "e", "f", "g", "h", "i", "j", "k", "l", "m", "n", "o",
     "p", "q", "r", "s", "t", "u", "v", "w", "x", "y", "z", "{", "|", "}", "~" >>

B == [c \in Range(Printable) |-> 31 + (CHOOSE i \in DOMAIN Printable : Printable[i] = c)]
Bytes(s) == [i \in 1 .. Len(s) |-> B[SubSeq(s, i, i)]]

Ok(v) == [ok |-> TRUE, v |-> v]
Err == [ok |-> FALSE]
\* The ? operator: what op makes of a result's value.
Then(result, op(_)) == IF result.ok THEN op(result.v) ELSE Err
\* op of a value: a local definition that is used several times.
With(arg, op(_)) == op(arg)

IsDigit(b) == b \in 48 .. 57
IsUpper(b) == b \in 65 .. 90
IsLower(b) == b \in 97 .. 122
IsAlpha(b) == IsUpper(b) \/ IsLower(b)
IsGraphic(b) == b \in 33 .. 126
ToUpper(b) == IF IsLower(b) THEN b - 32 ELSE b

AllIn(s, P(_)) == \A i \in DOMAIN s : P(s[i])
AllDigits(s) == AllIn(s, IsDigit)

\* The part of s after its first n bytes.
From(s, n) == SubSeq(s, n + 1, Len(s))
\* n bytes of s after its first at bytes (the slice s[at..at + n]).
Slice(s, at, n) == SubSeq(s, at + 1, at + n)
Has(s, n) == Len(s) >= n
StartsWith(s, prefix) == Has(s, Len(prefix)) /\ Slice(s, 0, Len(prefix)) = prefix

\* s without its trailing blanks.
TrimEnd(s) == SubSeq(s, 1, Max({0} \cup {i \in DOMAIN s : s[i] # 32}))

\* parse_digits: the value of a run of ASCII digits.
Num(s) == FoldLeft(LAMBDA acc, b : acc * 10 + (b - 48), 0, s)

\* write_digits: the last w decimal digits of n.
Digits(n, w) == [i \in 1 .. w |-> 48 + ((n \div (10 ^ (w - i))) % 10)]

\* parse_base91, base91_pair, write_base91: big-endian, offset '!'.
IsBase91(b) == b \in 33 .. 123
Num91(s) == FoldLeft(LAMBDA acc, b : acc * 91 + (b - 33), 0, s)
Digits91(n, w) == [i \in 1 .. w |-> 33 + ((n \div (91 ^ (w - i))) % 91)]

\* Index of the first b in s, 0 if there is none.
Find(s, b) == LET at == {i \in DOMAIN s : s[i] = b} IN IF at = {} THEN 0 ELSE Min(at)

\* The parts of s between separators.
Split(s, sep) ==
  FoldLeft(LAMBDA parts, b : IF b = sep THEN Append(parts, <<>>)
                             ELSE [parts EXCEPT ![Len(parts)] = Append(@, b)], << <<>> >>, s)

-----------------------------------------------------------------------------
(* Bits, the most significant first unless said otherwise                  *)

Bit(n, k) == (n \div 2 ^ k) % 2
BitsOf(bytes) == [i \in 1 .. 8 * Len(bytes) |-> Bit(bytes[(i - 1) \div 8 + 1], 7 - ((i - 1) % 8))]
NumOf(bits) == FoldLeft(LAMBDA n, b : 2 * n + b, 0, bits)
\* The low w bits of n, the highest first.
FieldOf(n, w) == [i \in 1 .. w |-> Bit(n, w - i)]
BytesOf(bits) == [i \in 1 .. Len(bits) \div 8 |-> NumOf(Slice(bits, 8 * (i - 1), 8))]

\* The same sequence, as a tuple: TLC then computes each element once.
Eager(s) == <<>> \o s
Counting(a, b) == [i \in 1 .. b - a + 1 |-> a + i - 1]

\* op of a value, and a function, that TLC computes first.
Given(arg, op(_)) == CHOOSE r \in {op(a) : a \in {arg}} : TRUE
Tabled(f) == f @@ <<>>

\* op folded over 1 .. n, in runs of 16.
Iterate(op(_, _), base, n) ==
  LET run(st, k) ==
        LET upto[t \in 0 .. 16] ==
              IF t = 0 THEN st
              ELSE IF 16 * k + t > n THEN upto[t - 1]
              ELSE Given(upto[t - 1], LAMBDA s : op(s, 16 * k + t))
        IN  upto[16]
      runs[k \in 0 .. (n + 15) \div 16] ==
        IF k = 0 THEN base ELSE Given(runs[k - 1], LAMBDA s : run(s, k - 1))
  IN  runs[(n + 15) \div 16]
=============================================================================
