---------------------------- MODULE ReedSolomon ----------------------------
(***************************************************************************)
(* src/src/rs.rs: Reed-Solomon codes over GF(256), shared by FX.25 (first  *)
(* root alpha^1) and IL2P (alpha^0).  A codec is [parity, fcr]; a block is *)
(* the data followed by the parity, and a polynomial the sequence of its   *)
(* coefficients, the constant first.                                       *)
(***************************************************************************)
EXTENDS Text

BLOCK_MAX == 255
FIELD_POLY == 285      \* 0x11D

NibbleXor == [a \in 0 .. 15, b \in 0 .. 15 |->
                LET add(k) == IF Bit(a, k) # Bit(b, k) THEN 2 ^ k ELSE 0 IN add(0) + add(1) + add(2) + add(3)]
Xor(a, b) == 16 * NibbleXor[a \div 16, b \div 16] + NibbleXor[a % 16, b % 16]

\* gf_tables: the powers of alpha = 2, and their logarithms.
Doubled(v) == IF 2 * v >= 256 THEN Xor(2 * v - 256, FIELD_POLY - 256) ELSE 2 * v
Powers == Iterate(LAMBDA s, i : Append(s, Doubled(Last(s))), <<1>>, 254)
EXP == [i \in 0 .. 511 |-> Powers[(i % 255) + 1]]
LOG == [v \in 1 .. 255 |-> (CHOOSE i \in 1 .. 255 : Powers[i] = v) - 1]

gf_mul(a, b) == IF a = 0 \/ b = 0 THEN 0 ELSE EXP[LOG[a] + LOG[b]]
gf_inv(a) == IF a = 0 THEN 0 ELSE EXP[255 - LOG[a]]

\* The polynomial whose coefficients s lists from the highest power, at x.
Horner(s, x) == FoldLeft(LAMBDA acc, c : Xor(gf_mul(acc, x), c), 0, s)
SumXor(s) == FoldLeft(Xor, 0, s)

\* with_fcr: the product of (x - alpha^(fcr + i)) for i below parity.
generator(codec) ==
  FoldLeft(LAMBDA g, i : Eager([j \in 1 .. codec.parity + 1 |->
                                  Xor(IF j = 1 THEN 0 ELSE g[j - 1], gf_mul(EXP[codec.fcr + i], g[j]))]),
           Eager([j \in 1 .. codec.parity + 1 |-> IF j = 1 THEN 1 ELSE 0]), Counting(0, codec.parity - 1))

data_capacity(codec) == BLOCK_MAX - codec.parity
correctable(codec) == codec.parity \div 2

\* RsCodec::encode: the remainder of data * x^parity, by the shift register.
rs_encode(codec, data) ==
  LET p == codec.parity
      shift(st, byte) ==
        LET feedback == Xor(byte, st.reg[1])
        IN  [st EXCEPT !.reg = Eager([i \in 1 .. p |-> Xor(IF i < p THEN @[i + 1] ELSE 0,
                                                          gf_mul(feedback, st.g[p - i + 1]))])]
  IN  IF Len(data) > data_capacity(codec) THEN Err
      ELSE Ok(FoldLeft(shift, [g |-> generator(codec), reg |-> [i \in 1 .. p |-> 0]], data).reg)

-----------------------------------------------------------------------------
(* Decoding                                                                *)

\* The block at alpha^fcr, alpha^(fcr + 1), ...
syndromes(codec, block) == Eager([j \in 1 .. codec.parity |-> Horner(block, EXP[codec.fcr + j - 1])])

\* One step of Berlekamp-Massey; st = [lambda, prev, errors, shift, prev_disc].
massey(syn, p, st, step) ==
  LET disc == Xor(syn[step + 1], SumXor([i \in 1 .. Min({st.errors, step}) |->
                                           gf_mul(st.lambda[i + 1], syn[step - i + 1])]))
      coef == gf_mul(disc, gf_inv(st.prev_disc))
      next == Eager([i \in 1 .. p + 1 |-> IF i <= st.shift THEN st.lambda[i]
                                          ELSE Xor(st.lambda[i], gf_mul(coef, st.prev[i - st.shift]))])
  IN  IF disc = 0 THEN [st EXCEPT !.shift = @ + 1]
      ELSE IF 2 * st.errors <= step
      THEN [lambda |-> next, prev |-> st.lambda, errors |-> step + 1 - st.errors, shift |-> 1,
            prev_disc |-> disc]
      ELSE [st EXCEPT !.lambda = next, !.shift = @ + 1]

\* The error locator and the number of errors it stands for.
locator(syn, p) ==
  LET one == Eager([i \in 1 .. p + 1 |-> IF i = 1 THEN 1 ELSE 0])
  IN  FoldLeft(LAMBDA st, step : massey(syn, p, st, step),
               [lambda |-> one, prev |-> one, errors |-> 0, shift |-> 1, prev_disc |-> 1],
               Counting(0, p - 1))

x_inv(j) == EXP[255 - j]

\* Chien search: the powers j below n whose inverse is a root.
positions(loc, n) ==
  {j \in 0 .. n - 1 : Horner(Reverse(SubSeq(loc.lambda, 1, loc.errors + 1)), x_inv(j)) = 0}

\* Mutant: the factor of the first root is left out.
first_root_one(codec, num, j) == num
\* With alpha^0 as the first root the quotient has one more factor.
first_root(codec, num, j) == IF codec.fcr = 0 THEN gf_mul(num, EXP[j]) ELSE num

\* Forney: the error value at power j; 0 stands for a zero denominator.
magnitude(codec, syn, loc, j) ==
  LET p     == codec.parity
      omega == Eager([i \in 1 .. p |-> SumXor([k \in 1 .. Min({i, loc.errors + 1}) |->
                                                 gf_mul(loc.lambda[k], syn[i - k + 1])])])
      num   == Horner(Reverse(omega), x_inv(j))
      odd   == [k \in 1 .. (loc.errors + 1) \div 2 |-> 2 * k - 1]
      den   == SumXor([k \in DOMAIN odd |-> gf_mul(loc.lambda[odd[k] + 1], EXP[((255 - j) * (odd[k] - 1)) % 255])])
  IN  gf_mul(first_root(codec, num, j), gf_inv(den))

IsCodeword(syn) == \A j \in DOMAIN syn : syn[j] = 0

\* The block with the errors at the powers in at taken out.
Mended(codec, block, syn, loc, at) ==
  LET n == Len(block)
  IN  Eager([i \in 1 .. n |-> IF n - i \in at THEN Xor(block[i], magnitude(codec, syn, loc, n - i))
                              ELSE block[i]])

\* A word that is still no codeword afterwards is uncorrectable.
Verified(codec, fixed, errors) ==
  IF IsCodeword(syndromes(codec, fixed)) THEN Ok([block |-> fixed, corrected |-> errors]) ELSE Err

Located(codec, block, syn, loc, at) ==
  IF Cardinality(at) # loc.errors \/ at = {} THEN Err
  ELSE Verified(codec, Mended(codec, block, syn, loc, at), loc.errors)

Solved(codec, block, syn, loc) ==
  IF loc.errors > correctable(codec) THEN Err
  ELSE Located(codec, block, syn, loc, positions(loc, Len(block)))

Corrected(codec, block, syn) ==
  IF IsCodeword(syn) THEN Ok([block |-> block, corrected |-> 0])
  ELSE Solved(codec, block, syn, locator(syn, codec.parity))

\* RsCodec::decode: the block with its errors taken out and their number.
rs_decode(codec, block) ==
  IF Len(block) <= codec.parity \/ Len(block) > BLOCK_MAX THEN Err
  ELSE Corrected(codec, block, syndromes(codec, block))
=============================================================================
