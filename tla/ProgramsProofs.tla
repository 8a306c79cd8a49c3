--------------------------- MODULE ProgramsProofs ---------------------------
(***************************************************************************)
(* Proofs about Feeds, for every set of feeds, read size and channel       *)
(* capacity; about Capture, for every sink buffer; and about Keying, for   *)
(* every set of command lines, poll interval, file and device buffer.      *)
(***************************************************************************)
EXTENDS Feeds, Capture, Keying, FiniteSetTheorems, SequenceTheorems, WellFoundedInduction, TLAPS

\* A set of naturals that has a member has a least one.
LEMMA LeastOf ==
  ASSUME NEW T, T \subseteq Nat, T # {}
  PROVE  \E x \in T : \A y \in T : x <= y
<1>1. PICK x \in T : \A y \in T : ~ (<<y, x>> \in OpToRel(<, Nat))
  BY NatLessThanWellFounded, WFMin
<1>2. \A y \in T : ~(y < x)
  BY <1>1, Zenon DEF OpToRel
<1>3. \A y \in T : x <= y
  BY <1>2
<1> QED
  BY <1>3

-----------------------------------------------------------------------------
(* Feeds: the items of one feed in the channel                             *)

Entries == Feeds \X Int

\* items, and what the i-th entry of s adds to the items of f.
Adding(items, f, s, i) == IF s[i][1] = f THEN Append(items, s[i][2]) ELSE items

\* g is the items of f in each prefix of s of up to k entries.
Collects(g, f, s, k) ==
  g = [i \in 0 .. k |-> IF i = 0 THEN <<>>
                        ELSE IF s[i][1] = f THEN Append(g[i - 1], s[i][2]) ELSE g[i - 1]]

\* The recurrence, by itself.
Recurs(g, f, s, k) == g[0] = <<>> /\ \A i \in 1 .. k : g[i] = Adding(g[i - 1], f, s, i)

LEMMA CollectsStep ==
  ASSUME NEW f, NEW s, NEW k \in Nat, NEW g, Collects(g, f, s, k)
  PROVE  Recurs(g, f, s, k)
<1>1. \A i \in 0 .. k : g[i] = IF i = 0 THEN <<>> ELSE Adding(g[i - 1], f, s, i)
  BY DEF Collects, Adding
<1> QED
  BY <1>1 DEF Recurs

\* There is such a function: no number of entries is the least without one.
LEMMA CollectsExists ==
  ASSUME NEW f, NEW s \in Seq(Entries)
  PROVE  \E g : Collects(g, f, s, Len(s))
<1> DEFINE T == {k \in Nat : ~ \E g : Collects(g, f, s, k)}
<1>1. SUFFICES ASSUME T # {} PROVE FALSE
  <2>1. Len(s) \in Nat
    OBVIOUS
  <2> QED
    BY <2>1
<1>2. PICK k \in T : \A y \in T : k <= y
  <2>1. T \subseteq Nat
    OBVIOUS
  <2> HIDE DEF T
  <2> QED
    BY <1>1, <2>1, LeastOf
<1>3. k \in Nat /\ ~ \E g : Collects(g, f, s, k)
  OBVIOUS
<1>4. k # 0
  <2> DEFINE g == [i \in 0 .. 0 |-> <<>>]
  <2>1. \A i \in 0 .. 0 : i = 0
    OBVIOUS
  <2>2. g = [i \in 0 .. 0 |-> IF i = 0 THEN <<>> ELSE Adding(g[i - 1], f, s, i)]
    BY <2>1
  <2>3. Collects(g, f, s, 0)
    BY <2>2 DEF Collects, Adding
  <2> QED
    BY <1>3, <2>3
<1>5. PICK h : Collects(h, f, s, k - 1)
  <2>1. k - 1 \in Nat /\ ~(k <= k - 1)
    BY <1>3, <1>4
  <2>2. k - 1 \notin T
    BY <1>2, <2>1
  <2> QED
    BY <2>1, <2>2
<1> DEFINE g == [i \in 0 .. k |-> IF i = k THEN Adding(h[k - 1], f, s, k) ELSE h[i]]
<1>6. ASSUME NEW i \in 0 .. k
      PROVE  g[i] = IF i = 0 THEN <<>> ELSE Adding(g[i - 1], f, s, i)
  <2>1. \A j \in 0 .. k - 1 : g[j] = h[j] /\ h[j] = IF j = 0 THEN <<>> ELSE Adding(h[j - 1], f, s, j)
    <3>1. k - 1 \in Nat /\ h[0] = <<>> /\ \A j \in 1 .. k - 1 : h[j] = Adding(h[j - 1], f, s, j)
      <4>1. Recurs(h, f, s, k - 1)
        BY <1>3, <1>4, <1>5, CollectsStep
      <4> QED
        BY <1>3, <1>4, <4>1 DEF Recurs
    <3>2. \A j \in 0 .. k - 1 : j \in 0 .. k /\ j # k /\ (j # 0 => j \in 1 .. k - 1)
      BY <1>3
    <3>3. \A j \in 0 .. k - 1 : g[j] = h[j]
      BY <3>2
    <3> HIDE DEF g
    <3> QED
      BY <3>1, <3>2, <3>3
  <2>2. g[k] = Adding(h[k - 1], f, s, k)
    BY <1>3
  <2> HIDE DEF g
  <2>3. CASE i = k
    BY <1>3, <1>4, <2>1, <2>2, <2>3
  <2>4. CASE i # k
    <3>1. i \in 0 .. k - 1 /\ (i # 0 => i - 1 \in 0 .. k - 1)
      BY <1>3, <2>4
    <3> QED
      BY <2>1, <3>1
  <2> QED
    BY <2>3, <2>4
<1>7. Collects(g, f, s, k)
  <2>1. g = [i \in 0 .. k |-> g[i]]
    OBVIOUS
  <2> HIDE DEF g
  <2> QED
    BY <1>6, <2>1 DEF Collects, Adding
<1> QED
  BY <1>3, <1>7

\* ItemsOf is the last value of one.
LEMMA ItemsCollected ==
  ASSUME NEW f, NEW s \in Seq(Entries)
  PROVE  \E g : Collects(g, f, s, Len(s)) /\ ItemsOf(f, s) = g[Len(s)]
<1> DEFINE c == CHOOSE g : Collects(g, f, s, Len(s))
<1>1. Collects(c, f, s, Len(s))
  BY CollectsExists
<1>2. ItemsOf(f, s) = c[Len(s)]
  BY DEF ItemsOf, Collects
<1> QED
  BY <1>1, <1>2

\* All of them are sequences of items.
LEMMA CollectsType ==
  ASSUME NEW f, NEW s \in Seq(Entries), NEW g, Collects(g, f, s, Len(s))
  PROVE  \A i \in 0 .. Len(s) : g[i] \in Seq(Int)
<1> DEFINE T == {i \in 0 .. Len(s) : g[i] \notin Seq(Int)}
<1>1. SUFFICES ASSUME T # {} PROVE FALSE
  OBVIOUS
<1>2. PICK i \in T : \A y \in T : i <= y
  <2>1. T \subseteq Nat
    OBVIOUS
  <2> HIDE DEF T
  <2> QED
    BY <1>1, <2>1, LeastOf
<1>3. g[0] = <<>> /\ \A j \in 1 .. Len(s) : g[j] = Adding(g[j - 1], f, s, j)
  <2>1. Len(s) \in Nat
    OBVIOUS
  <2> QED
    BY <2>1, CollectsStep DEF Recurs
<1>4. i # 0
  <2>1. <<>> \in Seq(Int)
    BY EmptySeq
  <2> QED
    BY <1>3, <2>1
<1>5. i \in 1 .. Len(s) /\ i - 1 \in 0 .. Len(s) /\ ~(i <= i - 1)
  BY <1>4
<1>6. g[i - 1] \in Seq(Int)
  BY <1>2, <1>5
<1>7. s[i][2] \in Int
  <2>1. s[i] \in Entries
    BY <1>5, ElementOfSeq
  <2> QED
    BY <2>1 DEF Entries
<1>8. g[i] \in Seq(Int)
  <2>1. Append(g[i - 1], s[i][2]) \in Seq(Int)
    BY <1>6, <1>7, AppendProperties
  <2> QED
    BY <1>3, <1>5, <1>6, <2>1 DEF Adding
<1> QED
  BY <1>8

\* Sequences that agree on their first k entries have the same items there.
LEMMA CollectsAgree ==
  ASSUME NEW f, NEW s, NEW t, NEW k \in Nat, NEW m \in Nat, NEW n \in Nat, k <= m, k <= n,
         \A i \in 1 .. k : s[i] = t[i],
         NEW g, NEW h, Collects(g, f, s, m), Collects(h, f, t, n)
  PROVE  g[k] = h[k]
<1> DEFINE T == {i \in 0 .. k : g[i] # h[i]}
<1>1. SUFFICES ASSUME T # {} PROVE FALSE
  OBVIOUS
<1>2. PICK i \in T : \A y \in T : i <= y
  <2>1. T \subseteq Nat
    OBVIOUS
  <2> HIDE DEF T
  <2> QED
    BY <1>1, <2>1, LeastOf
<1>3. /\ g[0] = <<>> /\ \A j \in 1 .. m : g[j] = Adding(g[j - 1], f, s, j)
      /\ h[0] = <<>> /\ \A j \in 1 .. n : h[j] = Adding(h[j - 1], f, t, j)
  <2>1. g[0] = <<>> /\ \A j \in 1 .. m : g[j] = Adding(g[j - 1], f, s, j)
    BY CollectsStep DEF Recurs
  <2>2. h[0] = <<>> /\ \A j \in 1 .. n : h[j] = Adding(h[j - 1], f, t, j)
    <3>1. Recurs(h, f, t, n)
      BY CollectsStep
    <3> QED
      BY <3>1 DEF Recurs
  <2> QED
    BY <2>1, <2>2
<1>4. i \in 1 .. k /\ i - 1 \in 0 .. k /\ ~(i <= i - 1)
  BY <1>3
<1>5. g[i - 1] = h[i - 1]
  BY <1>2, <1>4
<1>6. g[i] = Adding(g[i - 1], f, s, i) /\ h[i] = Adding(h[i - 1], f, t, i)
  BY <1>3, <1>4
<1>7. Adding(g[i - 1], f, s, i) = Adding(h[i - 1], f, t, i)
  BY <1>4, <1>5 DEF Adding
<1> QED
  BY <1>6, <1>7

\* An entry of f is its last item, an entry of another feed is none.
LEMMA ItemsAppend ==
  ASSUME NEW f, NEW s \in Seq(Entries), NEW e \in Entries
  PROVE  /\ ItemsOf(f, s) \in Seq(Int)
         /\ ItemsOf(f, Append(s, e)) = IF e[1] = f THEN Append(ItemsOf(f, s), e[2]) ELSE ItemsOf(f, s)
<1> DEFINE t == Append(s, e)
<1>1. /\ t \in Seq(Entries) /\ Len(t) = Len(s) + 1 /\ Len(s) \in Nat
      /\ \A i \in 1 .. Len(s) : t[i] = s[i]
      /\ t[Len(s) + 1] = e
  BY AppendProperties
<1> HIDE DEF t
<1>2. PICK g : Collects(g, f, s, Len(s)) /\ ItemsOf(f, s) = g[Len(s)]
  BY ItemsCollected
<1>3. PICK h : Collects(h, f, t, Len(t)) /\ ItemsOf(f, t) = h[Len(t)]
  BY <1>1, ItemsCollected
<1>4. h[Len(s)] = g[Len(s)]
  <2> DEFINE k == Len(s)
             m == Len(t)
  <2>1. k \in Nat /\ m \in Nat /\ k <= m
    BY <1>1
  <2>2. \A i \in 1 .. k : s[i] = t[i]
    BY <1>1
  <2>3. Collects(g, f, s, k) /\ Collects(h, f, t, m)
    BY <1>2, <1>3
  <2> HIDE DEF k, m
  <2>4. g[k] = h[k]
    BY <2>1, <2>2, <2>3, CollectsAgree
  <2> QED
    BY <2>4 DEF k
<1>5. h[Len(t)] = Adding(h[Len(s)], f, t, Len(t))
  <2>1. Len(t) \in Nat /\ Len(t) \in 1 .. Len(t) /\ Len(t) - 1 = Len(s)
    BY <1>1
  <2>2. \A i \in 1 .. Len(t) : h[i] = Adding(h[i - 1], f, t, i)
    <3> DEFINE m == Len(t)
    <3>1. m \in Nat /\ Collects(h, f, t, m)
      BY <1>3, <2>1
    <3> HIDE DEF m
    <3>2. \A i \in 1 .. m : h[i] = Adding(h[i - 1], f, t, i)
      <4>1. Recurs(h, f, t, m)
        BY <3>1, CollectsStep, Zenon
      <4> QED
        BY <4>1 DEF Recurs
    <3> QED
      BY <3>2 DEF m
  <2> QED
    BY <2>1, <2>2
<1>6. g[Len(s)] \in Seq(Int)
  <2>1. Len(s) \in 0 .. Len(s)
    BY <1>1
  <2>2. \A i \in 0 .. Len(s) : g[i] \in Seq(Int)
    BY <1>2, CollectsType
  <2> QED
    BY <2>1, <2>2
<1> QED
  BY <1>1, <1>2, <1>3, <1>4, <1>5, <1>6 DEF Adding, t

LEMMA ItemsEmpty ==
  ASSUME NEW f
  PROVE  ItemsOf(f, <<>>) = <<>>
<1>1. <<>> \in Seq(Entries) /\ Len(<<>>) = 0
  BY EmptySeq
<1>2. PICK g : Collects(g, f, <<>>, 0) /\ ItemsOf(f, <<>>) = g[0]
  BY <1>1, ItemsCollected
<1> QED
  BY <1>2, CollectsStep DEF Recurs

\* The head's item, if it is one of f, and then the tail's.
First(f, e) == IF e[1] = f THEN <<e[2]>> ELSE <<>>

LEMMA ItemsTail ==
  ASSUME NEW f, NEW s \in Seq(Entries), s # <<>>
  PROVE  ItemsOf(f, s) = First(f, Head(s)) \o ItemsOf(f, Tail(s))
<1> DEFINE t == Tail(s)
           first == First(f, Head(s))
           n == Len(t)
<1>1. /\ t \in Seq(Entries) /\ n \in Nat /\ Len(s) = n + 1 /\ Head(s) = s[1] /\ s[1] \in Entries
      /\ \A i \in 1 .. n : t[i] = s[i + 1]
  BY HeadTailProperties, LenProperties
<1>2. first \in Seq(Int)
  BY <1>1 DEF First, Entries
<1> HIDE DEF t, first
<1>3. PICK g : Collects(g, f, s, Len(s)) /\ ItemsOf(f, s) = g[Len(s)]
  BY ItemsCollected
<1>4. PICK h : Collects(h, f, t, Len(t)) /\ ItemsOf(f, t) = h[Len(t)]
  BY <1>1, ItemsCollected
<1>5. /\ g[0] = <<>> /\ \A i \in 1 .. n + 1 : g[i] = Adding(g[i - 1], f, s, i)
      /\ h[0] = <<>> /\ \A i \in 1 .. n : h[i] = Adding(h[i - 1], f, t, i)
  <2>1. Len(s) \in Nat /\ Collects(g, f, s, Len(s)) /\ Len(s) = n + 1
    BY <1>1, <1>3
  <2>2. Len(t) \in Nat /\ Collects(h, f, t, Len(t)) /\ Len(t) = n
    BY <1>1, <1>4
  <2> HIDE DEF n
  <2>3. g[0] = <<>> /\ \A i \in 1 .. Len(s) : g[i] = Adding(g[i - 1], f, s, i)
    <3>1. Recurs(g, f, s, Len(s))
      BY <2>1, CollectsStep, Zenon
    <3> QED
      BY <3>1 DEF Recurs
  <2>4. h[0] = <<>> /\ \A i \in 1 .. Len(t) : h[i] = Adding(h[i - 1], f, t, i)
    <3>1. Recurs(h, f, t, Len(t))
      BY <2>2, CollectsStep, Zenon
    <3> QED
      BY <3>1 DEF Recurs
  <2> QED
    BY <2>1, <2>2, <2>3, <2>4
<1>6. \A i \in 0 .. n : h[i] \in Seq(Int)
  BY <1>1, <1>4, CollectsType
<1> HIDE DEF n
<1> DEFINE T == {i \in 0 .. n : g[i + 1] # first \o h[i]}
<1>7. ASSUME T # {} PROVE FALSE
  <2>1. PICK i \in T : \A y \in T : i <= y
    <3>1. T \subseteq Nat
      OBVIOUS
    <3> HIDE DEF T
    <3> QED
      BY <1>7, <3>1, LeastOf
  <2>2. i \in 0 .. n /\ g[i + 1] # first \o h[i]
    OBVIOUS
  <2>3. CASE i = 0
    <3>1. g[1] = Adding(g[0], f, s, 1)
      BY <1>1, <1>5
    <3>2. Adding(<<>>, f, s, 1) = first
      BY <1>1 DEF Adding, first, First
    <3>3. first \o <<>> = first
      BY <1>2, ConcatEmptySeq
    <3>4. g[0 + 1] = first \o h[0]
      BY <1>5, <3>1, <3>2, <3>3
    <3> QED
      BY <2>2, <2>3, <3>4
  <2>4. CASE i # 0
    <3>1. i \in 1 .. n /\ i - 1 \in 0 .. n /\ ~(i <= i - 1) /\ i + 1 \in 1 .. n + 1 /\ (i + 1) - 1 = i
      BY <1>1, <2>2, <2>4
    <3>2. g[i] = first \o h[i - 1]
      <4>1. i - 1 \notin T
        BY <2>1, <3>1
      <4>2. g[(i - 1) + 1] = first \o h[i - 1]
        BY <3>1, <4>1
      <4>3. (i - 1) + 1 = i
        BY <3>1
      <4> QED
        BY <4>2, <4>3
    <3>3. g[i + 1] = Adding(g[i], f, s, i + 1)
      BY <1>5, <3>1
    <3>4. h[i] = Adding(h[i - 1], f, t, i)
      BY <1>5, <3>1
    <3>5. t[i] = s[i + 1] /\ t[i] \in Entries
      BY <1>1, <3>1, ElementOfSeq DEF n
    <3>6. h[i - 1] \in Seq(Int)
      BY <1>6, <3>1
    <3>7. t[i][2] \in Int
      BY <3>5 DEF Entries
    <3>8. Append(first \o h[i - 1], t[i][2]) = first \o Append(h[i - 1], t[i][2])
      <4> DEFINE x == t[i][2]
                 q == h[i - 1]
      <4>1. x \in Int /\ q \in Seq(Int)
        BY <3>6, <3>7
      <4> HIDE DEF x, q
      <4>2. <<x>> \in Seq(Int) /\ first \o q \in Seq(Int)
        BY <1>2, <4>1, ConcatProperties
      <4>3. Append(first \o q, x) = (first \o q) \o <<x>> /\ Append(q, x) = q \o <<x>>
        BY <4>1, <4>2, AppendIsConcat
      <4>4. (first \o q) \o <<x>> = first \o (q \o <<x>>)
        BY <1>2, <4>1, <4>2, ConcatAssociative, SMTT(40)
      <4> QED
        BY <4>3, <4>4 DEF x, q
    <3> QED
      BY <2>2, <3>2, <3>3, <3>4, <3>5, <3>8 DEF Adding
  <2> QED
    BY <2>3, <2>4
<1>8. n \in 0 .. n
  BY <1>1 DEF n
<1>9. g[n + 1] = first \o h[n]
  BY <1>7, <1>8
<1> QED
  BY <1>1, <1>3, <1>4, <1>9 DEF n, t, first

-----------------------------------------------------------------------------
(* Feeds: the invariant                                                    *)

Sources == [bytes : Nat, end : {"eof", "error"}]
Pumps == [pc : {"read", "send", "join", "join_error", "report", "done"}, at : Nat, buf : Seq(Nat)]
Workers == [pc : {"recv", "push", "send", "last", "done"}, bytes : Seq(Nat), item : Seq(Nat)]

FeedTypes ==
  /\ source \in [Feeds -> Sources]
  /\ pump \in [Feeds -> Pumps]
  /\ chunks \in [Feeds -> Seq(Seq(Nat))]
  /\ worker \in [Feeds -> Workers]
  /\ channel \in Seq(Entries)
  /\ receiver \in {"open", "dropped"}
  /\ taken \in [Feeds -> Seq(Int)]

\* The n bytes of a feed after the first lo, and the frames of its first b.
Run(lo, n) == [i \in 1 .. n |-> lo + i]
Frames(b) == [i \in 1 .. b \div 4 |-> 4 * i]

\* All items of a source s, without and with its read error.
Decoded(s) == Frames(s.bytes) \o (IF s.bytes % 2 = 1 THEN <<Truncated>> ELSE <<>>)
WholeOf(s) == Decoded(s) \o (IF s.end = "error" THEN <<ReadError>> ELSE <<>>)

\* The reading task: what it holds is what it read last.
PumpOk(s, p) ==
  /\ p.at <= s.bytes /\ Len(p.buf) <= p.at
  /\ p.buf = Run(p.at - Len(p.buf), Len(p.buf))
  /\ p.pc # "send" => p.buf = <<>>
  /\ p.pc \notin {"read", "send"} => p.at = s.bytes
  /\ p.pc = "join" => s.end = "eof"
  /\ p.pc \in {"join_error", "report"} => s.end = "error"

\* The worker has done with the first lo bytes of the feed, the bytes it holds
\* come next, and the chunks c are those between the points of cut, up to the
\* first sent bytes.
Pieces(c, bytes, sent, lo, cut) ==
  /\ bytes = Run(lo, Len(bytes))
  /\ cut[0] = lo + Len(bytes) /\ cut[Len(c)] = sent
  /\ \A i \in 0 .. Len(c) : cut[i] <= sent
  /\ \A i \in 1 .. Len(c) : cut[i - 1] <= cut[i] /\ c[i] = Run(cut[i - 1], cut[i] - cut[i - 1])

\* had is what those lo bytes hold.
Worked(s, p, c, w, lo, had) ==
  /\ lo % 2 = 0
  /\ w.pc \in {"recv", "push", "last"} => had = Frames(lo)
  /\ w.pc = "recv" => Len(w.bytes) < 2
  /\ w.pc = "last" => Len(w.bytes) = 1
  /\ w.pc = "send" => w.item = <<lo>> /\ lo % 4 = 0 /\ lo >= 4 /\ had = Frames(lo - 4)
  /\ w.pc \in {"last", "done"} => c = <<>> /\ p.pc \notin {"read", "send"}
  /\ w.pc = "done" => had = IF p.pc = "done" THEN WholeOf(s) ELSE Decoded(s)

\* What the task holds has not been sent yet.
FeedOk(s, p, c, w, had) ==
  /\ PumpOk(s, p)
  /\ p.pc \in {"report", "done"} => w.pc = "done"
  /\ \E lo \in Nat : \E cut \in [0 .. Len(c) -> Nat] :
       Pieces(c, w.bytes, p.at - Len(p.buf), lo, cut) /\ Worked(s, p, c, w, lo, had)

\* What the consumer of f has had or finds in the channel.
Had(f) == taken[f] \o ItemsOf(f, channel)

FeedInv ==
  /\ FeedTypes
  /\ receiver = "open" =>
       \A f \in Feeds : FeedOk(source[f], pump[f], chunks[f], worker[f], Had(f))
  /\ receiver = "dropped" => channel = <<>> /\ \A f \in Feeds : IsPrefix(Had(f), WholeOf(source[f]))

-----------------------------------------------------------------------------
(* Feeds: bytes and frames                                                 *)

LEMMA RunProps ==
  ASSUME NEW lo \in Nat, NEW n \in Nat
  PROVE  /\ Run(lo, n) \in Seq(Nat) /\ Len(Run(lo, n)) = n
         /\ \A i \in 1 .. n : Run(lo, n)[i] = lo + i
  BY DEF Run

LEMMA RunConcat ==
  ASSUME NEW lo \in Nat, NEW m \in Nat, NEW n \in Nat
  PROVE  Run(lo, m) \o Run(lo + m, n) = Run(lo, m + n)
<1> DEFINE a == Run(lo, m)
           b == Run(lo + m, n)
           c == Run(lo, m + n)
<1>1. a \in Seq(Nat) /\ Len(a) = m /\ \A i \in 1 .. m : a[i] = lo + i
  BY RunProps
<1>2. b \in Seq(Nat) /\ Len(b) = n /\ \A i \in 1 .. n : b[i] = (lo + m) + i
  <2>1. lo + m \in Nat
    OBVIOUS
  <2> QED
    BY <2>1, RunProps
<1>3. c \in Seq(Nat) /\ Len(c) = m + n /\ \A i \in 1 .. m + n : c[i] = lo + i
  <2>1. m + n \in Nat
    OBVIOUS
  <2> QED
    BY <2>1, RunProps
<1> HIDE DEF a, b, c
<1>4. /\ a \o b \in Seq(Nat) /\ Len(a \o b) = m + n
      /\ \A i \in 1 .. m + n : (a \o b)[i] = IF i <= m THEN a[i] ELSE b[i - m]
  <2>1. /\ a \o b \in Seq(Nat) /\ Len(a \o b) = Len(a) + Len(b)
        /\ \A i \in 1 .. Len(a) + Len(b) :
              (a \o b)[i] = IF i <= Len(a) THEN a[i] ELSE b[i - Len(a)]
    BY <1>1, <1>2, ConcatProperties, Zenon
  <2> QED
    BY <1>1, <1>2, <2>1
<1>5. ASSUME NEW i \in 1 .. m + n PROVE (a \o b)[i] = c[i]
  <2>1. CASE i <= m
    BY <1>1, <1>3, <1>4, <2>1
  <2>2. CASE ~(i <= m)
    <3>1. i - m \in 1 .. n /\ ~(i <= m)
      BY <2>2
    <3>2. (a \o b)[i] = (lo + m) + (i - m)
      BY <1>2, <1>4, <3>1
    <3> QED
      BY <1>3, <3>2
  <2> QED
    BY <2>1, <2>2
<1>6. a \o b = c
  BY <1>3, <1>4, <1>5, SeqEqual
<1> QED
  BY <1>6 DEF a, b, c

LEMMA RunRest ==
  ASSUME NEW lo \in Nat, NEW n \in Nat, n >= 2
  PROVE  SubSeq(Run(lo, n), 3, n) = Run(lo + 2, n - 2)
<1> DEFINE a == Run(lo, n)
           r == Run(lo + 2, n - 2)
           t == SubSeq(a, 3, n)
<1>1. a \in Seq(Nat) /\ Len(a) = n /\ \A i \in 1 .. n : a[i] = lo + i
  BY RunProps
<1>2. r \in Seq(Nat) /\ Len(r) = n - 2 /\ \A i \in 1 .. n - 2 : r[i] = (lo + 2) + i
  <2>1. lo + 2 \in Nat /\ n - 2 \in Nat
    OBVIOUS
  <2> QED
    BY <2>1, RunProps
<1> HIDE DEF a, r
<1>3. t \in Seq(Nat) /\ Len(t) = n - 2 /\ \A i \in 1 .. n - 2 : t[i] = a[i + 2]
  <2>1. \A i \in 3 .. n : a[i] \in Nat
    BY <1>1
  <2>2. /\ t \in Seq(Nat) /\ Len(t) = IF 3 <= n THEN n - 3 + 1 ELSE 0
        /\ \A i \in 1 .. n - 3 + 1 : t[i] = a[3 + i - 1]
    BY <2>1, SubSeqProperties
  <2> HIDE DEF t
  <2>3. \A i \in 1 .. n - 2 : i \in 1 .. n - 3 + 1 /\ 3 + i - 1 = i + 2
    OBVIOUS
  <2>4. (IF 3 <= n THEN n - 3 + 1 ELSE 0) = n - 2
    OBVIOUS
  <2> QED
    BY <2>2, <2>3, <2>4
<1> HIDE DEF t
<1>4. ASSUME NEW i \in 1 .. n - 2 PROVE t[i] = r[i]
  <2>1. i + 2 \in 1 .. n
    OBVIOUS
  <2>2. t[i] = lo + (i + 2)
    BY <1>1, <1>3, <2>1
  <2> QED
    BY <1>2, <2>2
<1>5. t = r
  BY <1>2, <1>3, <1>4, SeqEqual
<1> QED
  BY <1>5 DEF t, a, r

LEMMA FramesProps ==
  ASSUME NEW b \in Nat
  PROVE  /\ Frames(b) \in Seq(Int) /\ Len(Frames(b)) = b \div 4
         /\ \A i \in 1 .. b \div 4 : Frames(b)[i] = 4 * i
<1>1. b \div 4 \in Nat
  OBVIOUS
<1> QED
  BY <1>1 DEF Frames

\* A whole frame more.
LEMMA FramesNext ==
  ASSUME NEW b \in Nat, b % 4 = 0, b >= 4
  PROVE  Append(Frames(b - 4), b) = Frames(b)
<1> DEFINE a == Frames(b - 4)
           c == Frames(b)
<1>1. b - 4 \in Nat /\ (b - 4) \div 4 = (b \div 4) - 1 /\ b \div 4 \in Nat /\ b \div 4 >= 1 /\ 4 * (b \div 4) = b
  OBVIOUS
<1>2. a \in Seq(Int) /\ Len(a) = (b \div 4) - 1 /\ \A i \in 1 .. (b \div 4) - 1 : a[i] = 4 * i
  BY <1>1, FramesProps
<1>3. c \in Seq(Int) /\ Len(c) = b \div 4 /\ \A i \in 1 .. b \div 4 : c[i] = 4 * i
  BY FramesProps
<1> HIDE DEF a, c
<1> DEFINE t == Append(a, b)
           k == b \div 4
<1>4. t \in Seq(Int) /\ Len(t) = k /\ t[k] = b /\ \A i \in 1 .. k - 1 : t[i] = a[i]
  BY <1>1, <1>2, AppendProperties
<1>5. ASSUME NEW i \in 1 .. k PROVE t[i] = c[i]
  <2> HIDE DEF t
  <2>1. CASE i = k
    BY <1>1, <1>3, <1>4, <2>1
  <2>2. CASE i # k
    <3>1. i \in 1 .. k - 1
      BY <1>1, <2>2
    <3> QED
      BY <1>2, <1>3, <1>4, <3>1
  <2> QED
    BY <2>1, <2>2
<1>6. t = c
  <2> HIDE DEF t
  <2> QED
    BY <1>3, <1>4, <1>5, SeqEqual
<1> QED
  BY <1>6 DEF a, c

-----------------------------------------------------------------------------
(* Feeds: the steps of a feed                                              *)

\* The task moves on without sending.
LEMMA PumpMoves ==
  ASSUME NEW s, NEW p, NEW q, NEW c, NEW w, NEW had, NEW more,
         FeedOk(s, p, c, w, had), PumpOk(s, q),
         q.at - Len(q.buf) = p.at - Len(p.buf),
         q.pc \in {"report", "done"} => w.pc = "done",
         w.pc = "last" => q.pc \notin {"read", "send"},
         w.pc # "done" => more = had,
         w.pc = "done" => /\ q.pc \notin {"read", "send"}
                          /\ more = IF q.pc = "done" THEN WholeOf(s) ELSE Decoded(s)
  PROVE  FeedOk(s, q, c, w, more)
<1>1. PICK lo \in Nat : \E cut \in [0 .. Len(c) -> Nat] :
             Pieces(c, w.bytes, p.at - Len(p.buf), lo, cut) /\ Worked(s, p, c, w, lo, had)
  BY DEF FeedOk
<1>2. PICK cut \in [0 .. Len(c) -> Nat] :
             Pieces(c, w.bytes, p.at - Len(p.buf), lo, cut) /\ Worked(s, p, c, w, lo, had)
  BY <1>1
<1>3. Worked(s, q, c, w, lo, more)
  BY <1>2 DEF Worked
<1>4. Pieces(c, w.bytes, q.at - Len(q.buf), lo, cut)
  BY <1>2
<1> QED
  BY <1>3, <1>4 DEF FeedOk

\* The task sends the chunk it holds.
LEMMA ChunkSent ==
  ASSUME NEW s \in Sources, NEW p \in Pumps, NEW q \in Pumps, NEW c \in Seq(Seq(Nat)), NEW w \in Workers,
         NEW had, FeedOk(s, p, c, w, had), p.pc = "send",
         q.pc = "read", q.at = p.at, q.buf = <<>>
  PROVE  FeedOk(s, q, Append(c, p.buf), w, had)
<1> DEFINE d == Append(c, p.buf)
           k == Len(c)
           sent == p.at - Len(p.buf)
<1>1. /\ p.buf \in Seq(Nat) /\ p.at \in Nat /\ s.bytes \in Nat /\ Len(p.buf) \in Nat
  BY DEF Pumps, Sources
<1>2. /\ k \in Nat /\ d \in Seq(Seq(Nat)) /\ Len(d) = k + 1 /\ d[k + 1] = p.buf
      /\ \A i \in 1 .. k : d[i] = c[i]
  BY <1>1, AppendProperties
<1>3. p.at <= s.bytes /\ Len(p.buf) <= p.at /\ p.buf = Run(sent, Len(p.buf))
  BY DEF FeedOk, PumpOk
<1>4. sent \in Nat /\ p.at - sent = Len(p.buf) /\ sent <= p.at
  BY <1>1, <1>3
<1>5. PICK lo \in Nat : \E cut \in [0 .. k -> Nat] :
             Pieces(c, w.bytes, sent, lo, cut) /\ Worked(s, p, c, w, lo, had)
  BY DEF FeedOk
<1>6. PICK cut \in [0 .. k -> Nat] : Pieces(c, w.bytes, sent, lo, cut) /\ Worked(s, p, c, w, lo, had)
  BY <1>5
<1> DEFINE ext == [i \in 0 .. k + 1 |-> IF i = k + 1 THEN p.at ELSE cut[i]]
<1>7. ext \in [0 .. k + 1 -> Nat]
  BY <1>1, <1>2
<1>8. ext[k + 1] = p.at /\ \A i \in 0 .. k : ext[i] = cut[i]
  BY <1>2
<1>9. /\ w.bytes = Run(lo, Len(w.bytes))
      /\ cut[0] = lo + Len(w.bytes) /\ cut[k] = sent
      /\ \A i \in 0 .. k : cut[i] <= sent /\ cut[i] \in Nat
      /\ \A i \in 1 .. k : cut[i - 1] <= cut[i] /\ c[i] = Run(cut[i - 1], cut[i] - cut[i - 1])
  BY <1>6 DEF Pieces
<1> HIDE DEF ext, sent, d, k
<1>10. Pieces(d, w.bytes, p.at, lo, ext)
  <2>1. 0 \in 0 .. k /\ ext[0] = lo + Len(w.bytes)
    BY <1>2, <1>8, <1>9
  <2>2. ASSUME NEW i \in 0 .. k + 1 PROVE ext[i] <= p.at
    <3>1. CASE i = k + 1
      BY <1>1, <1>8, <3>1
    <3>2. CASE i # k + 1
      <4>1. i \in 0 .. k
        BY <1>2, <3>2
      <4> QED
        BY <1>1, <1>4, <1>8, <1>9, <4>1
    <3> QED
      BY <3>1, <3>2
  <2>3. ASSUME NEW i \in 1 .. k + 1
        PROVE  ext[i - 1] <= ext[i] /\ d[i] = Run(ext[i - 1], ext[i] - ext[i - 1])
    <3>1. CASE i = k + 1
      <4>1. ext[i - 1] = sent /\ ext[i] = p.at
        <5>1. k \in Nat
          BY <1>2
        <5>2. k \in 0 .. k /\ (k + 1) - 1 = k
          BY <5>1
        <5>3. i - 1 = k
          BY <3>1, <5>2
        <5>4. ext[k] = sent
          BY <1>8, <1>9, <5>2
        <5> QED
          BY <1>8, <3>1, <5>3, <5>4
      <4>2. d[i] = p.buf
        BY <1>2, <3>1
      <4> QED
        BY <1>3, <1>4, <4>1, <4>2
    <3>2. CASE i # k + 1
      <4>1. i \in 1 .. k /\ i \in 0 .. k /\ i - 1 \in 0 .. k
        BY <1>2, <3>2
      <4>2. ext[i - 1] = cut[i - 1] /\ ext[i] = cut[i] /\ d[i] = c[i]
        BY <1>2, <1>8, <4>1
      <4> QED
        BY <1>9, <4>1, <4>2
    <3> QED
      BY <3>1, <3>2
  <2> QED
    BY <1>2, <1>8, <1>9, <2>1, <2>2, <2>3 DEF Pieces
<1>11. Worked(s, q, d, w, lo, had)
  BY <1>6 DEF Worked
<1>12. PumpOk(s, q) /\ q.at - Len(q.buf) = p.at /\ q.pc \notin {"report", "done"}
  <2>1. Len(<<>>) = 0 /\ Run(p.at - 0, 0) = <<>>
    BY <1>1, RunProps DEF Run
  <2> QED
    BY <1>1, <1>3, <2>1 DEF PumpOk
<1>13. ext \in [0 .. Len(d) -> Nat]
  BY <1>2, <1>7
<1>14. Pieces(d, w.bytes, q.at - Len(q.buf), lo, ext)
  BY <1>10, <1>12
<1> QED
  BY <1>11, <1>12, <1>13, <1>14 DEF FeedOk, d

\* The worker receives a chunk.
LEMMA ChunkReceived ==
  ASSUME NEW s \in Sources, NEW p \in Pumps, NEW c \in Seq(Seq(Nat)), NEW w \in Workers, NEW v \in Workers,
         NEW had, FeedOk(s, p, c, w, had), w.pc = "recv", c # <<>>,
         v.pc = "push", v.bytes = w.bytes \o Head(c)
  PROVE  FeedOk(s, p, Tail(c), v, had)
<1> DEFINE d == Tail(c)
           k == Len(d)
           n == Len(w.bytes)
           sent == p.at - Len(p.buf)
<1>1. /\ d \in Seq(Seq(Nat)) /\ k \in Nat /\ Len(c) = k + 1 /\ Head(c) = c[1]
      /\ \A i \in 1 .. k : d[i] = c[i + 1]
      /\ w.bytes \in Seq(Nat) /\ n \in Nat
  BY HeadTailProperties, LenProperties DEF Workers
<1> HIDE DEF d, sent
<1>2. PICK lo \in Nat : \E cut \in [0 .. Len(c) -> Nat] :
             Pieces(c, w.bytes, sent, lo, cut) /\ Worked(s, p, c, w, lo, had)
  BY DEF FeedOk, sent
<1>3. PICK cut \in [0 .. Len(c) -> Nat] : Pieces(c, w.bytes, sent, lo, cut) /\ Worked(s, p, c, w, lo, had)
  BY <1>2
<1>4. /\ w.bytes = Run(lo, n) /\ cut[0] = lo + n /\ cut[k + 1] = sent
      /\ \A i \in 0 .. k + 1 : cut[i] <= sent /\ cut[i] \in Nat
      /\ \A i \in 1 .. k + 1 : cut[i - 1] <= cut[i] /\ c[i] = Run(cut[i - 1], cut[i] - cut[i - 1])
  BY <1>1, <1>3 DEF Pieces
<1> HIDE DEF k, n
<1> DEFINE m == cut[1] - cut[0]
           rest == [i \in 0 .. k |-> cut[i + 1]]
<1>5. m \in Nat /\ cut[0] + m = cut[1] /\ c[1] = Run(lo + n, m)
  <2>1. 1 \in 1 .. k + 1 /\ 0 \in 0 .. k + 1 /\ 1 \in 0 .. k + 1 /\ 1 - 1 = 0
    BY <1>1
  <2>2. cut[0] <= cut[1] /\ c[1] = Run(cut[0], m) /\ cut[0] \in Nat /\ cut[1] \in Nat
    BY <1>4, <2>1
  <2> QED
    BY <1>4, <2>2
<1>6. v.bytes = Run(lo, n + m) /\ Len(v.bytes) = n + m
  <2>1. v.bytes = Run(lo, n) \o Run(lo + n, m)
    BY <1>1, <1>4, <1>5
  <2>2. v.bytes = Run(lo, n + m)
    BY <1>1, <1>5, <2>1, RunConcat
  <2>3. n + m \in Nat
    BY <1>1, <1>5
  <2> QED
    BY <2>2, <2>3, RunProps
<1>7. rest \in [0 .. k -> Nat] /\ \A i \in 0 .. k : rest[i] = cut[i + 1]
  BY <1>1, <1>4, SMTT(40)
<1> HIDE DEF m, rest
<1>8. Pieces(d, v.bytes, sent, lo, rest)
  <2>1. rest[0] = lo + (n + m) /\ rest[k] = sent
    BY <1>1, <1>4, <1>5, <1>7
  <2>2. ASSUME NEW i \in 0 .. k PROVE rest[i] <= sent
    <3>1. i + 1 \in 0 .. k + 1
      BY <1>1
    <3> QED
      BY <1>4, <1>7, <3>1
  <2>3. ASSUME NEW i \in 1 .. k
        PROVE  rest[i - 1] <= rest[i] /\ d[i] = Run(rest[i - 1], rest[i] - rest[i - 1])
    <3>1. i - 1 \in 0 .. k /\ i \in 0 .. k /\ i + 1 \in 1 .. k + 1 /\ (i + 1) - 1 = i /\ (i - 1) + 1 = i
      BY <1>1
    <3>2. rest[i - 1] = cut[i] /\ rest[i] = cut[i + 1] /\ d[i] = c[i + 1]
      BY <1>1, <1>7, <3>1
    <3>3. cut[(i + 1) - 1] <= cut[i + 1] /\ c[i + 1] = Run(cut[(i + 1) - 1], cut[i + 1] - cut[(i + 1) - 1])
      BY <1>4, <3>1
    <3> QED
      BY <3>1, <3>2, <3>3
  <2> QED
    BY <1>6, <2>1, <2>2, <2>3 DEF Pieces, k
<1>9. Worked(s, p, d, v, lo, had)
  BY <1>3 DEF Worked
<1>10. PumpOk(s, p) /\ p.pc \notin {"report", "done"}
  BY DEF FeedOk
<1>11. rest \in [0 .. Len(d) -> Nat]
  BY <1>7 DEF k
<1> QED
  BY <1>8, <1>9, <1>10, <1>11 DEF FeedOk, d, sent

\* The worker moves on over the chunks it has: what it holds ends where it did.
LEMMA WorkerMoves ==
  ASSUME NEW s, NEW p, NEW c, NEW w, NEW v, NEW had, NEW more, NEW lo \in Nat, NEW to \in Nat,
         NEW cut \in [0 .. Len(c) -> Nat],
         PumpOk(s, p), p.pc \in {"report", "done"} => v.pc = "done",
         Pieces(c, w.bytes, p.at - Len(p.buf), lo, cut),
         v.bytes = Run(to, Len(v.bytes)), to + Len(v.bytes) = lo + Len(w.bytes),
         Worked(s, p, c, v, to, more)
  PROVE  FeedOk(s, p, c, v, more)
<1>1. Pieces(c, v.bytes, p.at - Len(p.buf), to, cut)
  BY DEF Pieces
<1> QED
  BY <1>1 DEF FeedOk

\* What a live worker's invariant says, with its two witnesses.
LEMMA Held ==
  ASSUME NEW s \in Sources, NEW p \in Pumps, NEW c, NEW w \in Workers,
         NEW had, FeedOk(s, p, c, w, had)
  PROVE  \E lo \in Nat : \E cut \in [0 .. Len(c) -> Nat] :
           /\ Pieces(c, w.bytes, p.at - Len(p.buf), lo, cut) /\ Worked(s, p, c, w, lo, had)
           /\ w.bytes \in Seq(Nat) /\ Len(w.bytes) \in Nat /\ w.bytes = Run(lo, Len(w.bytes))
<1>1. w.bytes \in Seq(Nat) /\ Len(w.bytes) \in Nat
  BY DEF Workers
<1>2. PICK lo \in Nat : \E cut \in [0 .. Len(c) -> Nat] :
             Pieces(c, w.bytes, p.at - Len(p.buf), lo, cut) /\ Worked(s, p, c, w, lo, had)
  BY DEF FeedOk
<1>3. PICK cut \in [0 .. Len(c) -> Nat] :
             Pieces(c, w.bytes, p.at - Len(p.buf), lo, cut) /\ Worked(s, p, c, w, lo, had)
  BY <1>2
<1>4. w.bytes = Run(lo, Len(w.bytes))
  BY <1>3 DEF Pieces
<1> QED
  BY <1>1, <1>3, <1>4

\* Without another chunk the worker holds the feed's last bytes.
LEMMA AtTheEnd ==
  ASSUME NEW s \in Sources, NEW p \in Pumps, NEW bytes, NEW lo, NEW cut, PumpOk(s, p),
         p.pc \notin {"read", "send"}, Pieces(<<>>, bytes, p.at - Len(p.buf), lo, cut)
  PROVE  lo + Len(bytes) = s.bytes
<1>1. p.buf = <<>> /\ p.at = s.bytes
  BY DEF PumpOk
<1>2. Len(<<>>) = 0
  BY EmptySeq
<1>3. p.at \in Nat
  BY DEF Pumps
<1>4. cut[0] = lo + Len(bytes) /\ cut[0] = p.at - Len(p.buf)
  BY <1>2 DEF Pieces
<1> QED
  BY <1>1, <1>2, <1>3, <1>4

LEMMA FramesOdd ==
  ASSUME NEW b \in Nat, b % 2 = 0
  PROVE  Frames(b + 1) = Frames(b)
<1>1. (b + 1) \div 4 = b \div 4
  OBVIOUS
<1> QED
  BY <1>1 DEF Frames

\* The chunks have ended: nothing is left, or an odd byte.
LEMMA ChunksEnd ==
  ASSUME NEW s \in Sources, NEW p \in Pumps, NEW c, c = <<>>, NEW w \in Workers, NEW v \in Workers,
         NEW had, FeedOk(s, p, c, w, had), w.pc = "recv", p.pc \notin {"read", "send"},
         v.pc = IF w.bytes = <<>> THEN "done" ELSE "last", v.bytes = w.bytes
  PROVE  FeedOk(s, p, c, v, had)
<1>0. s \in Sources /\ p \in Pumps /\ w \in Workers /\ FeedOk(s, p, c, w, had)
  OBVIOUS
<1>1. PICK lo \in Nat : \E cut \in [0 .. Len(c) -> Nat] :
             /\ Pieces(c, w.bytes, p.at - Len(p.buf), lo, cut) /\ Worked(s, p, c, w, lo, had)
             /\ w.bytes \in Seq(Nat) /\ Len(w.bytes) \in Nat /\ w.bytes = Run(lo, Len(w.bytes))
  BY ONLY <1>0, Held
<1>2. PICK cut \in [0 .. Len(c) -> Nat] :
             /\ Pieces(c, w.bytes, p.at - Len(p.buf), lo, cut) /\ Worked(s, p, c, w, lo, had)
             /\ w.bytes \in Seq(Nat) /\ Len(w.bytes) \in Nat /\ w.bytes = Run(lo, Len(w.bytes))
  BY <1>1
<1>3. PumpOk(s, p) /\ p.pc \notin {"report", "done"}
  BY DEF FeedOk
<1>4. lo + Len(w.bytes) = s.bytes
  <2>1. Pieces(<<>>, w.bytes, p.at - Len(p.buf), lo, cut)
    BY <1>2
  <2> QED
    BY <1>3, <2>1, AtTheEnd
<1>5. had = Frames(lo) /\ Len(w.bytes) < 2 /\ lo % 2 = 0
  BY <1>2 DEF Worked
<1>6. CASE w.bytes = <<>>
  <2>1. lo = s.bytes
    BY <1>4, <1>6, EmptySeq
  <2>2. Decoded(s) = Frames(lo)
    <3>1. ~(s.bytes % 2 = 1)
      BY <1>5, <2>1
    <3>2. Frames(lo) \in Seq(Int)
      BY FramesProps
    <3>3. Frames(lo) \o <<>> = Frames(lo)
      BY <3>2, ConcatEmptySeq
    <3> QED
      BY <2>1, <3>1, <3>3 DEF Decoded
  <2>3. Worked(s, p, c, v, lo, had)
    BY <1>3, <1>5, <1>6, <2>2 DEF Worked
  <2> QED
    BY <1>2, <1>3, <2>3, WorkerMoves
<1>7. CASE w.bytes # <<>>
  <2>1. Len(w.bytes) = 1
    <3> DEFINE k == Len(w.bytes)
    <3>1. k \in Nat \ {0}
      BY <1>2, <1>7, EmptySeq
    <3>2. k < 2
      BY <1>5
    <3> HIDE DEF k
    <3>3. k = 1
      BY <3>1, <3>2
    <3> QED
      BY <3>3 DEF k
  <2>2. Worked(s, p, c, v, lo, had)
    BY <1>3, <1>5, <1>7, <2>1 DEF Worked
  <2> QED
    BY <1>2, <1>3, <2>2, WorkerMoves
<1> QED
  BY <1>6, <1>7

\* The odd byte is reported.
LEMMA LastSent ==
  ASSUME NEW s \in Sources, NEW p \in Pumps, NEW c, NEW w \in Workers, NEW v \in Workers,
         NEW had, FeedOk(s, p, c, w, had), w.pc = "last", v.pc = "done", v.bytes = w.bytes
  PROVE  FeedOk(s, p, c, v, Append(had, Truncated))
<1>1. PICK lo \in Nat : \E cut \in [0 .. Len(c) -> Nat] :
             /\ Pieces(c, w.bytes, p.at - Len(p.buf), lo, cut) /\ Worked(s, p, c, w, lo, had)
             /\ w.bytes \in Seq(Nat) /\ Len(w.bytes) \in Nat /\ w.bytes = Run(lo, Len(w.bytes))
  BY Held, ZenonT(40)
<1>2. PICK cut \in [0 .. Len(c) -> Nat] :
             /\ Pieces(c, w.bytes, p.at - Len(p.buf), lo, cut) /\ Worked(s, p, c, w, lo, had)
             /\ w.bytes \in Seq(Nat) /\ Len(w.bytes) \in Nat /\ w.bytes = Run(lo, Len(w.bytes))
  BY <1>1
<1>3. PumpOk(s, p) /\ p.pc \notin {"report", "done"}
  BY DEF FeedOk
<1>4. had = Frames(lo) /\ Len(w.bytes) = 1 /\ lo % 2 = 0 /\ c = <<>> /\ p.pc \notin {"read", "send"}
  BY <1>2 DEF Worked
<1>5. lo + 1 = s.bytes
  <2>1. Pieces(<<>>, w.bytes, p.at - Len(p.buf), lo, cut)
    BY <1>2, <1>4
  <2>2. lo + Len(w.bytes) = s.bytes
    BY <1>3, <1>4, <2>1, AtTheEnd
  <2> QED
    BY <1>4, <2>2
<1>6. Decoded(s) = Append(had, Truncated)
  <2>1. s.bytes % 2 = 1
    BY <1>4, <1>5
  <2>2. Frames(s.bytes) = Frames(lo)
    BY <1>4, <1>5, FramesOdd
  <2>3. Frames(lo) \in Seq(Int) /\ Truncated \in Int
    BY FramesProps DEF Truncated
  <2>4. Append(Frames(lo), Truncated) = Frames(lo) \o <<Truncated>>
    BY <2>3, AppendIsConcat
  <2> QED
    BY <1>4, <2>1, <2>2, <2>4 DEF Decoded
<1>7. Worked(s, p, c, v, lo, Append(had, Truncated))
  BY <1>3, <1>4, <1>6 DEF Worked
<1> QED
  BY <1>2, <1>3, <1>7, WorkerMoves

\* The worker pairs two bytes, and may complete a frame.
LEMMA SamplePushed ==
  ASSUME NEW s \in Sources, NEW p \in Pumps, NEW c, NEW w \in Workers, NEW v \in Workers,
         NEW had, FeedOk(s, p, c, w, had), w.pc = "push",
         IF Len(w.bytes) < 2 THEN v.pc = "recv" /\ v.bytes = w.bytes
         ELSE /\ v.pc = IF FrameOf(w.bytes[1], w.bytes[2]) = <<>> THEN "push" ELSE "send"
              /\ v.bytes = SubSeq(w.bytes, 3, Len(w.bytes))
              /\ v.item = FrameOf(w.bytes[1], w.bytes[2])
  PROVE  FeedOk(s, p, c, v, had)
<1>1. PICK lo \in Nat : \E cut \in [0 .. Len(c) -> Nat] :
             /\ Pieces(c, w.bytes, p.at - Len(p.buf), lo, cut) /\ Worked(s, p, c, w, lo, had)
             /\ w.bytes \in Seq(Nat) /\ Len(w.bytes) \in Nat /\ w.bytes = Run(lo, Len(w.bytes))
  BY Held
<1>2. PICK cut \in [0 .. Len(c) -> Nat] :
             /\ Pieces(c, w.bytes, p.at - Len(p.buf), lo, cut) /\ Worked(s, p, c, w, lo, had)
             /\ w.bytes \in Seq(Nat) /\ Len(w.bytes) \in Nat /\ w.bytes = Run(lo, Len(w.bytes))
  BY <1>1
<1>3. PumpOk(s, p) /\ p.pc \notin {"report", "done"}
  BY DEF FeedOk
<1>4. had = Frames(lo) /\ lo % 2 = 0
  BY <1>2 DEF Worked
<1>5. CASE Len(w.bytes) < 2
  <2>1. Worked(s, p, c, v, lo, had)
    BY <1>4, <1>5 DEF Worked
  <2> QED
    BY <1>2, <1>3, <1>5, <2>1, WorkerMoves
<1>6. CASE ~(Len(w.bytes) < 2)
  <2> DEFINE b == w.bytes
             n == Len(b)
             to == lo + 2
  <2>1. n \in Nat /\ n >= 2 /\ to \in Nat /\ n - 2 \in Nat
    BY <1>2, <1>6
  <2>2. \A i \in 1 .. n : b[i] = lo + i
    BY <1>2, <2>1, RunProps
  <2>3. b[1] = lo + 1 /\ b[2] = to
    BY <2>1, <2>2
  <2>4. v.bytes = Run(to, n - 2) /\ Len(v.bytes) = n - 2
    <3>1. v.bytes = SubSeq(b, 3, n)
      BY <1>6
    <3>2. b = Run(lo, n)
      BY <1>2
    <3> HIDE DEF b, n
    <3>3. SubSeq(Run(lo, n), 3, n) = Run(to, n - 2)
      BY <2>1, RunRest
    <3>4. Len(Run(to, n - 2)) = n - 2
      BY <2>1, RunProps
    <3> QED
      BY <3>1, <3>2, <3>3, <3>4
  <2>5. FrameOf(b[1], b[2]) = IF to % 4 = 0 THEN <<to>> ELSE <<>>
    BY <2>3 DEF FrameOf
  <2>6. to % 2 = 0
    BY <1>4
  <2>9. v.bytes = Run(to, Len(v.bytes)) /\ to + Len(v.bytes) = lo + Len(w.bytes)
    <3>1. v.bytes = Run(to, Len(v.bytes))
      BY <2>4
    <3>2. (lo + 2) + (n - 2) = lo + n
      <4> HIDE DEF n
      <4> QED
        BY <2>1
    <3> QED
      BY <2>4, <3>1, <3>2
  <2>7. CASE to % 4 = 0
    <3>1. to >= 4 /\ to - 4 \in Nat /\ (to - 4) \div 4 = lo \div 4
      BY <1>4, <2>7, SMTT(40)
    <3>2. Frames(to - 4) = Frames(lo)
      BY <3>1 DEF Frames
    <3>3. v.pc = "send" /\ v.item = <<to>>
      BY <1>6, <2>5, <2>7
    <3> HIDE DEF to
    <3>4. Worked(s, p, c, v, to, had)
      BY <1>4, <2>6, <2>7, <3>1, <3>2, <3>3 DEF Worked
    <3> QED
      BY <1>2, <1>3, <2>1, <2>9, <3>3, <3>4, WorkerMoves
  <2>8. CASE to % 4 # 0
    <3>1. to \div 4 = lo \div 4
      BY <1>4, <2>8
    <3>2. Frames(to) = Frames(lo)
      BY <3>1 DEF Frames
    <3>3. v.pc = "push"
      BY <1>6, <2>5, <2>8
    <3> HIDE DEF to
    <3>4. Worked(s, p, c, v, to, had)
      BY <1>4, <2>6, <3>2, <3>3 DEF Worked
    <3> QED
      BY <1>2, <1>3, <2>1, <2>9, <3>3, <3>4, WorkerMoves
  <2> QED
    BY <2>7, <2>8
<1> QED
  BY <1>5, <1>6

\* The worker sends its frame.
LEMMA FrameSent ==
  ASSUME NEW s \in Sources, NEW p \in Pumps, NEW c, NEW w \in Workers, NEW v \in Workers,
         NEW had, FeedOk(s, p, c, w, had), w.pc = "send", v.pc = "push", v.bytes = w.bytes
  PROVE  FeedOk(s, p, c, v, Append(had, w.item[1]))
<1>1. PICK lo \in Nat : \E cut \in [0 .. Len(c) -> Nat] :
             /\ Pieces(c, w.bytes, p.at - Len(p.buf), lo, cut) /\ Worked(s, p, c, w, lo, had)
             /\ w.bytes \in Seq(Nat) /\ Len(w.bytes) \in Nat /\ w.bytes = Run(lo, Len(w.bytes))
  BY Held, ZenonT(40)
<1>2. PICK cut \in [0 .. Len(c) -> Nat] :
             /\ Pieces(c, w.bytes, p.at - Len(p.buf), lo, cut) /\ Worked(s, p, c, w, lo, had)
             /\ w.bytes \in Seq(Nat) /\ Len(w.bytes) \in Nat /\ w.bytes = Run(lo, Len(w.bytes))
  BY <1>1
<1>3. PumpOk(s, p) /\ p.pc \notin {"report", "done"}
  BY DEF FeedOk
<1>4. w.item[1] = lo /\ lo % 4 = 0 /\ lo >= 4 /\ lo % 2 = 0 /\ had = Frames(lo - 4)
  BY <1>2 DEF Worked
<1>5. Append(had, w.item[1]) = Frames(lo)
  BY <1>4, FramesNext
<1>6. Worked(s, p, c, v, lo, Append(had, w.item[1]))
  BY <1>4, <1>5 DEF Worked
<1> QED
  BY <1>2, <1>3, <1>6, WorkerMoves

-----------------------------------------------------------------------------
(* Feeds: prefixes of the whole                                            *)

LEMMA PrefixByElements ==
  ASSUME NEW a \in Seq(Int), NEW b \in Seq(Int), Len(a) <= Len(b), \A i \in 1 .. Len(a) : a[i] = b[i]
  PROVE  IsPrefix(a, b)
<1> DEFINE n == Len(a)
           x == SubSeq(a, 1, n)
           y == SubSeq(b, 1, n)
<1>1. n \in Nat /\ Len(b) \in Nat /\ n <= Len(b)
  OBVIOUS
<1>2. x \in Seq(Int) /\ Len(x) = n /\ \A i \in 1 .. n : x[i] = a[i]
  OBVIOUS
<1>3. y \in Seq(Int) /\ Len(y) = n /\ \A i \in 1 .. n : y[i] = b[i]
  BY <1>1
<1> HIDE DEF x, y
<1>4. x = y
  BY <1>2, <1>3, SeqEqual
<1> QED
  BY <1>1, <1>4 DEF IsPrefix, x, y

LEMMA WholeProps ==
  ASSUME NEW s \in Sources
  PROVE  /\ Decoded(s) \in Seq(Int) /\ WholeOf(s) \in Seq(Int)
         /\ s.end = "eof" => WholeOf(s) = Decoded(s)
         /\ s.end = "error" => WholeOf(s) = Append(Decoded(s), ReadError)
<1>1. s.bytes \in Nat /\ s.end \in {"eof", "error"}
  BY DEF Sources
<1>2. /\ Frames(s.bytes) \in Seq(Int)
      /\ (IF s.bytes % 2 = 1 THEN <<Truncated>> ELSE <<>>) \in Seq(Int)
      /\ <<ReadError>> \in Seq(Int) /\ ReadError \in Int
  BY <1>1, FramesProps DEF Truncated, ReadError
<1>3. Decoded(s) \in Seq(Int)
  BY <1>2, ConcatProperties DEF Decoded
<1>4. Decoded(s) \o <<>> = Decoded(s) /\ Decoded(s) \o <<ReadError>> = Append(Decoded(s), ReadError)
  BY <1>2, <1>3, ConcatEmptySeq, AppendIsConcat
<1>5. Append(Decoded(s), ReadError) \in Seq(Int)
  BY <1>2, <1>3, AppendProperties
<1> QED
  BY <1>1, <1>3, <1>4, <1>5 DEF WholeOf

\* The whole begins with all of its frames.
LEMMA WholeFrames ==
  ASSUME NEW s \in Sources
  PROVE  /\ s.bytes \div 4 <= Len(Decoded(s)) /\ Len(Decoded(s)) <= Len(WholeOf(s))
         /\ \A i \in 1 .. Len(Decoded(s)) : Decoded(s)[i] = WholeOf(s)[i]
         /\ \A i \in 1 .. s.bytes \div 4 : WholeOf(s)[i] = 4 * i
<1> DEFINE k == s.bytes \div 4
           a == Frames(s.bytes)
           odd == IF s.bytes % 2 = 1 THEN <<Truncated>> ELSE <<>>
           err == IF s.end = "error" THEN <<ReadError>> ELSE <<>>
           d == Decoded(s)
           t == WholeOf(s)
<1>1. a \in Seq(Int) /\ Len(a) = k /\ k \in Nat /\ \A i \in 1 .. k : a[i] = 4 * i
  <2>1. s.bytes \in Nat
    BY DEF Sources
  <2>2. k \in Nat
    BY <2>1
  <2> QED
    BY <2>1, <2>2, FramesProps
<1>2. odd \in Seq(Int) /\ Len(odd) \in Nat /\ err \in Seq(Int) /\ Len(err) \in Nat
  BY DEF Truncated, ReadError
<1>3. d = a \o odd /\ t = d \o err
  BY DEF Decoded, WholeOf
<1> HIDE DEF k, a, odd, err, d, t
<1>4. d \in Seq(Int) /\ Len(d) = k + Len(odd) /\ \A i \in 1 .. k + Len(odd) : i <= k => d[i] = a[i]
  BY <1>1, <1>2, <1>3, ConcatProperties
<1>5. t \in Seq(Int) /\ Len(t) = Len(d) + Len(err) /\ \A i \in 1 .. Len(d) + Len(err) : i <= Len(d) => t[i] = d[i]
  BY <1>2, <1>3, <1>4, ConcatProperties
<1>6. k <= Len(d) /\ Len(d) <= Len(t) /\ Len(d) \in Nat
  BY <1>1, <1>2, <1>4, <1>5
<1>7. \A i \in 1 .. Len(d) : d[i] = t[i]
  BY <1>2, <1>5, <1>6
<1>8. \A i \in 1 .. k : t[i] = 4 * i
  <2>1. \A i \in 1 .. k : i \in 1 .. Len(d) /\ i \in 1 .. k + Len(odd) /\ i <= k
    BY <1>1, <1>2, <1>6
  <2> QED
    BY <1>1, <1>4, <1>7, <2>1
<1> QED
  BY <1>6, <1>7, <1>8 DEF k, d, t

\* What the consumer of a feed has or finds is a prefix of the whole, and the
\* whole once its task and its worker are done.
LEMMA FeedDelivers ==
  ASSUME NEW s \in Sources, NEW p \in Pumps, NEW c \in Seq(Seq(Nat)), NEW w \in Workers,
         NEW had, FeedOk(s, p, c, w, had)
  PROVE  /\ IsPrefix(had, WholeOf(s))
         /\ p.pc = "done" /\ w.pc = "done" => had = WholeOf(s)
<1>1. PICK lo \in Nat : \E cut \in [0 .. Len(c) -> Nat] :
             /\ Pieces(c, w.bytes, p.at - Len(p.buf), lo, cut) /\ Worked(s, p, c, w, lo, had)
             /\ w.bytes \in Seq(Nat) /\ Len(w.bytes) \in Nat /\ w.bytes = Run(lo, Len(w.bytes))
  BY Held
<1>2. PICK cut \in [0 .. Len(c) -> Nat] :
             /\ Pieces(c, w.bytes, p.at - Len(p.buf), lo, cut) /\ Worked(s, p, c, w, lo, had)
             /\ w.bytes \in Seq(Nat) /\ Len(w.bytes) \in Nat /\ w.bytes = Run(lo, Len(w.bytes))
  BY <1>1
<1>3. WholeOf(s) \in Seq(Int) /\ Decoded(s) \in Seq(Int) /\ s.bytes \in Nat
  BY WholeProps DEF Sources
<1>4. CASE w.pc = "done"
  <2>1. had = IF p.pc = "done" THEN WholeOf(s) ELSE Decoded(s)
    BY <1>2, <1>4 DEF Worked
  <2>2. IsPrefix(WholeOf(s), WholeOf(s))
    BY <1>3, PrefixByElements
  <2>3. IsPrefix(Decoded(s), WholeOf(s))
    BY <1>3, WholeFrames, PrefixByElements
  <2> QED
    BY <2>1, <2>2, <2>3
<1>5. CASE w.pc # "done"
  <2>1. lo <= s.bytes
    <3>1. Len(c) \in Nat /\ 0 \in 0 .. Len(c)
      OBVIOUS
    <3>2. lo + Len(w.bytes) <= p.at - Len(p.buf)
      BY <1>2, <3>1 DEF Pieces
    <3>3. p.at \in Nat /\ Len(p.buf) \in Nat /\ p.at <= s.bytes
      BY DEF Pumps, FeedOk, PumpOk
    <3> QED
      BY <1>2, <1>3, <3>2, <3>3
  <2>2. PICK b \in Nat : b <= s.bytes /\ had = Frames(b)
    <3>1. CASE w.pc = "send"
      <4>1. lo - 4 \in Nat /\ lo - 4 <= s.bytes /\ had = Frames(lo - 4)
        BY <1>2, <1>3, <2>1, <3>1 DEF Worked
      <4> QED
        BY <4>1
    <3>2. CASE w.pc # "send"
      <4>1. had = Frames(lo)
        BY <1>2, <1>5, <3>2 DEF Worked, Workers
      <4> QED
        BY <2>1, <4>1
    <3> QED
      BY <3>1, <3>2
  <2>3. b \div 4 <= s.bytes \div 4 /\ b \div 4 \in Nat /\ s.bytes \div 4 \in Nat
    BY <1>3, <2>2
  <2>4. had \in Seq(Int) /\ Len(had) = b \div 4 /\ \A i \in 1 .. b \div 4 : had[i] = 4 * i
    BY <2>2, FramesProps
  <2>5. s.bytes \div 4 <= Len(WholeOf(s)) /\ \A i \in 1 .. s.bytes \div 4 : WholeOf(s)[i] = 4 * i
    <3>1. Len(Decoded(s)) \in Nat /\ Len(WholeOf(s)) \in Nat
      BY <1>3
    <3> QED
      BY <2>3, <3>1, WholeFrames
  <2>6. Len(had) <= Len(WholeOf(s)) /\ \A i \in 1 .. Len(had) : had[i] = WholeOf(s)[i]
    <3>1. Len(WholeOf(s)) \in Nat
      BY <1>3
    <3>2. \A i \in 1 .. b \div 4 : i \in 1 .. s.bytes \div 4
      BY <2>3
    <3> QED
      BY <2>3, <2>4, <2>5, <3>1, <3>2
  <2> QED
    BY <1>3, <1>5, <2>4, <2>6, PrefixByElements
<1> QED
  BY <1>4, <1>5

-----------------------------------------------------------------------------
(* Feeds: every step keeps the invariant                                   *)

LEMMA FeedsInitial == FeedsInit => FeedInv
<1> SUFFICES ASSUME FeedsInit PROVE FeedInv
  OBVIOUS
<1>1. <<>> \in Seq(Nat) /\ <<>> \in Seq(Seq(Nat)) /\ <<>> \in Seq(Entries) /\ <<>> \in Seq(Int) /\ Len(<<>>) = 0
  BY EmptySeq
<1>2. FeedTypes
  <2>1. source \in [Feeds -> Sources]
    BY FeedsAssumption DEF FeedsInit, Sources
  <2>2. pump \in [Feeds -> Pumps] /\ worker \in [Feeds -> Workers]
    BY <1>1 DEF FeedsInit, Pumps, Workers
  <2> QED
    BY <1>1, <2>1, <2>2 DEF FeedTypes, FeedsInit
<1>3. ASSUME NEW f \in Feeds
      PROVE  FeedOk(source[f], pump[f], chunks[f], worker[f], Had(f))
  <2> DEFINE s == source[f]
             cut == [i \in 0 .. 0 |-> 0]
  <2>1. s.bytes \in Nat
    BY <1>2 DEF FeedTypes, Sources
  <2>2. /\ pump[f].pc = "read" /\ pump[f].at = 0 /\ pump[f].buf = <<>>
        /\ worker[f].pc = "recv" /\ worker[f].bytes = <<>> /\ chunks[f] = <<>>
    BY DEF FeedsInit
  <2>3. Had(f) = <<>> /\ Frames(0) = <<>> /\ Run(0, 0) = <<>>
    <3>1. taken[f] = <<>> /\ ItemsOf(f, channel) = <<>>
      BY ItemsEmpty DEF FeedsInit
    <3>2. <<>> \o <<>> = <<>>
      BY <1>1, ConcatEmptySeq
    <3>3. 0 \div 4 = 0
      OBVIOUS
    <3>4. Len(Frames(0)) = 0 /\ Frames(0) \in Seq(Int) /\ Len(Run(0, 0)) = 0 /\ Run(0, 0) \in Seq(Nat)
      BY <3>3, FramesProps, RunProps
    <3> QED
      BY <3>1, <3>2, <3>4, EmptySeq DEF Had
  <2>4. PumpOk(s, pump[f])
    BY <1>1, <2>1, <2>2, <2>3 DEF PumpOk
  <2>5. cut \in [0 .. Len(<<>>) -> Nat] /\ Pieces(<<>>, <<>>, 0, 0, cut)
    BY <1>1, <2>3 DEF Pieces
  <2>6. Worked(s, pump[f], <<>>, worker[f], 0, <<>>)
    BY <1>1, <2>2, <2>3 DEF Worked
  <2> HIDE DEF s, cut
  <2>7. pump[f].at - Len(pump[f].buf) = 0
    <3>1. Len(pump[f].buf) = 0
      BY <1>1, <2>2, Zenon
    <3>2. pump[f].at = 0
      BY <2>2
    <3> QED
      BY ONLY <3>1, <3>2
  <2> QED
    BY <2>2, <2>3, <2>4, <2>5, <2>6, <2>7 DEF FeedOk, s
<1> QED
  BY <1>2, <1>3 DEF FeedInv, FeedsInit

\* A step of f that leaves the other feeds alone, and their items in the channel.
LEMMA OneFeed ==
  ASSUME FeedInv, FeedTypes', NEW f \in Feeds, UNCHANGED <<source, receiver, taken>>,
         \A g \in Feeds \ {f} : /\ pump'[g] = pump[g] /\ chunks'[g] = chunks[g] /\ worker'[g] = worker[g]
                                /\ ItemsOf(g, channel') = ItemsOf(g, channel),
         receiver = "dropped" => channel' = channel,
         receiver = "open" =>
           FeedOk(source[f], pump'[f], chunks'[f], worker'[f], taken[f] \o ItemsOf(f, channel'))
  PROVE  FeedInv'
<1>1. ASSUME receiver = "open", NEW g \in Feeds
      PROVE  FeedOk(source'[g], pump'[g], chunks'[g], worker'[g], Had(g)')
  <2>1. Had(g)' = taken[g] \o ItemsOf(g, channel')
    BY DEF Had
  <2>2. CASE g = f
    <3>1. FeedOk(source[f], pump'[f], chunks'[f], worker'[f], taken[f] \o ItemsOf(f, channel'))
      BY <1>1, Zenon
    <3>2. source'[f] = source[f] /\ Had(f)' = taken[f] \o ItemsOf(f, channel')
      BY <2>1, <2>2
    <3> QED
      BY <2>2, <3>1, <3>2
  <2>3. CASE g # f
    <3>1. FeedOk(source[g], pump[g], chunks[g], worker[g], Had(g))
      BY <1>1 DEF FeedInv
    <3>2. g \in Feeds \ {f}
      BY <2>3
    <3>3. /\ pump'[g] = pump[g] /\ chunks'[g] = chunks[g] /\ worker'[g] = worker[g]
          /\ Had(g)' = Had(g)
      BY <2>1, <3>2 DEF Had
    <3> QED
      BY <3>1, <3>3
  <2> QED
    BY <2>2, <2>3
<1>2. ASSUME receiver = "dropped"
      PROVE  channel' = <<>> /\ \A g \in Feeds : IsPrefix(Had(g)', WholeOf(source'[g]))
  <2>1. channel = <<>> /\ channel' = channel /\ \A g \in Feeds : IsPrefix(Had(g), WholeOf(source[g]))
    BY <1>2 DEF FeedInv
  <2>2. \A g \in Feeds : Had(g)' = Had(g)
    BY <2>1 DEF Had
  <2> QED
    BY <2>1, <2>2
<1> QED
  BY <1>1, <1>2 DEF FeedInv

\* What an offer adds to the items of each feed.
LEMMA Offered ==
  ASSUME FeedTypes, NEW f \in Feeds, NEW item \in Int, Offer(f, item)
  PROVE  /\ channel' \in Seq(Entries)
         /\ \A g \in Feeds \ {f} : ItemsOf(g, channel') = ItemsOf(g, channel)
         /\ receiver = "dropped" => channel' = channel
         /\ receiver = "open" => taken[f] \o ItemsOf(f, channel') = Append(Had(f), item)
<1> DEFINE e == <<f, item>>
<1>1. e \in Entries /\ e[1] = f /\ e[2] = item /\ channel \in Seq(Entries) /\ taken[f] \in Seq(Int)
  BY DEF Entries, FeedTypes
<1> HIDE DEF e
<1>2. CASE receiver = "dropped" /\ channel' = channel
  BY <1>1, <1>2
<1>3. CASE receiver = "open" /\ channel' = Append(channel, e)
  <2>1. channel' \in Seq(Entries)
    BY <1>1, <1>3, AppendProperties
  <2>2. ASSUME NEW g \in Feeds
        PROVE  /\ ItemsOf(g, channel) \in Seq(Int)
               /\ ItemsOf(g, channel') = IF f = g THEN Append(ItemsOf(g, channel), item) ELSE ItemsOf(g, channel)
    BY <1>1, <1>3, ItemsAppend
  <2>3. taken[f] \o Append(ItemsOf(f, channel), item) = Append(Had(f), item)
    <3> DEFINE a == taken[f]
               b == ItemsOf(f, channel)
    <3>1. a \in Seq(Int) /\ b \in Seq(Int)
      BY <1>1, <2>2
    <3> HIDE DEF a, b
    <3>2. <<item>> \in Seq(Int) /\ a \o b \in Seq(Int)
      BY <3>1, ConcatProperties
    <3>3. Append(b, item) = b \o <<item>> /\ Append(a \o b, item) = (a \o b) \o <<item>>
      BY <3>1, <3>2, AppendIsConcat
    <3>4. (a \o b) \o <<item>> = a \o (b \o <<item>>)
      BY <3>1, <3>2, ConcatAssociative
    <3> QED
      BY <3>3, <3>4 DEF a, b, Had
  <2> QED
    BY <1>3, <2>1, <2>2, <2>3
<1>4. receiver \in {"open", "dropped"}
  BY DEF FeedTypes
<1> QED
  BY <1>2, <1>3, <1>4 DEF Offer, e

\* What FeedInv says of one feed.
LEMMA Known ==
  ASSUME FeedInv, NEW f \in Feeds
  PROVE  /\ source[f] \in Sources /\ source[f].bytes \in Nat
         /\ pump[f] \in Pumps /\ pump[f].at \in Nat /\ pump[f].buf \in Seq(Nat)
         /\ chunks[f] \in Seq(Seq(Nat))
         /\ worker[f] \in Workers /\ worker[f].bytes \in Seq(Nat) /\ worker[f].item \in Seq(Nat)
         /\ Had(f) \in Seq(Int) /\ ItemsOf(f, channel) \in Seq(Int)
         /\ receiver = "open" => FeedOk(source[f], pump[f], chunks[f], worker[f], Had(f))
<1>1. FeedTypes
  BY DEF FeedInv
<1>2. source[f] \in Sources /\ pump[f] \in Pumps /\ chunks[f] \in Seq(Seq(Nat)) /\ worker[f] \in Workers
  BY <1>1 DEF FeedTypes
<1>3. taken[f] \in Seq(Int) /\ channel \in Seq(Entries)
  BY <1>1 DEF FeedTypes
<1>4. ItemsOf(f, channel) \in Seq(Int)
  <2>1. <<f, 0>> \in Entries
    BY DEF Entries
  <2> QED
    BY <1>3, <2>1, ItemsAppend
<1>5. Had(f) \in Seq(Int)
  BY <1>3, <1>4, ConcatProperties DEF Had
<1>6. receiver = "open" => FeedOk(source[f], pump[f], chunks[f], worker[f], Had(f))
  BY DEF FeedInv
<1> QED
  BY <1>2, <1>4, <1>5, <1>6 DEF Sources, Pumps, Workers

LEMMA ReadSomeKeeps ==
  ASSUME FeedInv, NEW f \in Feeds, ReadSome(f)
  PROVE  FeedInv'
<1> DEFINE s == source[f]
           p == pump[f]
           rest == s.bytes - p.at
<1>1. PICK n \in 1 .. Min({ReadMax, rest}) :
        pump' = [pump EXCEPT ![f] = [pc |-> "send", at |-> p.at + n, buf |-> [i \in 1 .. n |-> p.at + i]]]
  BY DEF ReadSome
<1> DEFINE q == [pc |-> "send", at |-> p.at + n, buf |-> [i \in 1 .. n |-> p.at + i]]
<1>2. p.pc = "read" /\ FeedTypes /\ UNCHANGED <<source, chunks, worker, channel, receiver, taken>>
  BY DEF ReadSome, FeedInv
<1>3. s \in Sources /\ s.bytes \in Nat /\ p.at \in Nat /\ n \in Nat \ {0}
  <2>1. s \in Sources /\ s.bytes \in Nat /\ p.at \in Nat
    BY Known
  <2>2. Min({ReadMax, rest}) \in {ReadMax, rest}
    <3>1. ReadMax \in Int /\ rest \in Int
      BY <2>1, FeedsAssumption
    <3> HIDE DEF rest
    <3>2. \E x \in {ReadMax, rest} : \A y \in {ReadMax, rest} : x <= y
      BY <3>1
    <3> QED
      BY <3>2 DEF Min
  <2>3. Min({ReadMax, rest}) \in Int
    BY <2>1, <2>2, FeedsAssumption
  <2> QED
    BY <2>1, <2>3
<1>4. n <= rest
  <2>1. ReadMax \in Int /\ rest \in Int
    BY <1>3, FeedsAssumption
  <2> HIDE DEF rest
  <2>2. Min({ReadMax, rest}) \in {ReadMax, rest} /\ Min({ReadMax, rest}) <= rest
    <3>1. \E x \in {ReadMax, rest} : \A y \in {ReadMax, rest} : x <= y
      BY <2>1
    <3> QED
      BY <3>1 DEF Min
  <2>3. Min({ReadMax, rest}) \in Int
    BY <2>1, <2>2
  <2> QED
    BY <2>1, <2>2, <2>3
<1>5. pump' = [pump EXCEPT ![f] = q] /\ q.pc = "send" /\ q.at = p.at + n /\ q.buf = Run(p.at, n)
  BY <1>1 DEF Run
<1>6. q.buf \in Seq(Nat) /\ Len(q.buf) = n
  <2>1. Run(p.at, n) \in Seq(Nat) /\ Len(Run(p.at, n)) = n
    BY <1>3, RunProps
  <2> HIDE DEF q
  <2> QED
    BY <1>5, <2>1
<1>7. q \in Pumps
  BY <1>3, <1>6 DEF Pumps
<1> HIDE DEF q
<1>8. pump \in [Feeds -> Pumps]
  BY <1>2 DEF FeedTypes
<1>9. FeedTypes'
  <2>1. pump' \in [Feeds -> Pumps]
    BY <1>5, <1>7, <1>8
  <2> QED
    BY <1>2, <2>1 DEF FeedTypes
<1>10. pump'[f] = q /\ \A g \in Feeds \ {f} : pump'[g] = pump[g]
  BY <1>5, <1>8
<1>11. ASSUME receiver = "open"
       PROVE  FeedOk(source[f], pump'[f], chunks'[f], worker'[f], taken[f] \o ItemsOf(f, channel'))
  <2>1. FeedOk(s, p, chunks[f], worker[f], Had(f))
    BY <1>11, Known
  <2>2. PumpOk(s, p) /\ p.buf = <<>> /\ Len(p.buf) = 0
    BY <1>2, <2>1, EmptySeq DEF FeedOk, PumpOk
  <2>3. PumpOk(s, q)
    <3>1. q.at - Len(q.buf) = p.at /\ q.at <= s.bytes /\ Len(q.buf) <= q.at
      BY <1>3, <1>4, <1>5, <1>6
    <3> QED
      BY <1>5, <1>6, <3>1 DEF PumpOk
  <2>4. q.at - Len(q.buf) = p.at - Len(p.buf)
    BY <1>3, <1>5, <1>6, <2>2
  <2>5. worker[f].pc \notin {"last", "done"}
    BY <1>2, <2>1 DEF FeedOk, Worked
  <2> HIDE DEF s, p
  <2>6. FeedOk(s, q, chunks[f], worker[f], Had(f))
    BY <1>5, <2>1, <2>3, <2>4, <2>5, PumpMoves
  <2> QED
    BY <1>2, <1>10, <2>6 DEF Had, s
<1> QED
  BY <1>2, <1>9, <1>10, <1>11, OneFeed

LEMMA ReadEndsKeeps ==
  ASSUME FeedInv, NEW f \in Feeds, ReadEnds(f)
  PROVE  FeedInv'
<1> DEFINE s == source[f]
           p == pump[f]
           then == IF s.end = "eof" THEN "join" ELSE "join_error"
           q == [p EXCEPT !.pc = then]
<1>1. /\ p.pc = "read" /\ p.at = s.bytes /\ FeedTypes
      /\ UNCHANGED <<source, chunks, worker, channel, receiver, taken>>
      /\ pump' = [pump EXCEPT ![f].pc = then]
  BY DEF ReadEnds, FeedInv, AfterError
<1>2. s \in Sources /\ p \in Pumps /\ p.at \in Nat
  BY Known
<1>3. q \in Pumps /\ q.pc = then /\ q.at = p.at /\ q.buf = p.buf
  BY <1>2 DEF Pumps
<1>4. pump \in [Feeds -> Pumps]
  BY <1>1 DEF FeedTypes
<1>5. pump'[f] = q /\ pump' \in [Feeds -> Pumps] /\ \A g \in Feeds \ {f} : pump'[g] = pump[g]
  <2>1. pump' = [pump EXCEPT ![f] = q]
    BY <1>1
  <2> HIDE DEF q
  <2> QED
    BY <1>3, <1>4, <2>1
<1>6. FeedTypes'
  BY <1>1, <1>5 DEF FeedTypes
<1> HIDE DEF q
<1>7. ASSUME receiver = "open"
      PROVE  FeedOk(source[f], pump'[f], chunks'[f], worker'[f], taken[f] \o ItemsOf(f, channel'))
  <2>1. FeedOk(s, p, chunks[f], worker[f], Had(f))
    BY <1>7, Known
  <2>2. PumpOk(s, p)
    BY <2>1 DEF FeedOk
  <2>3. PumpOk(s, q)
    BY <1>1, <1>2, <1>3, <2>2 DEF PumpOk, Sources
  <2>4. worker[f].pc \notin {"last", "done"}
    BY <1>1, <2>1 DEF FeedOk, Worked
  <2>5. q.at - Len(q.buf) = p.at - Len(p.buf) /\ q.pc \notin {"report", "done"}
    BY <1>3
  <2> HIDE DEF s, p
  <2>6. FeedOk(s, q, chunks[f], worker[f], Had(f))
    BY <2>1, <2>3, <2>4, <2>5, PumpMoves
  <2> QED
    BY <1>1, <1>5, <2>6 DEF Had, s
<1> QED
  BY <1>1, <1>5, <1>6, <1>7, OneFeed

LEMMA SendChunkKeeps ==
  ASSUME FeedInv, NEW f \in Feeds, SendChunk(f)
  PROVE  FeedInv'
<1> DEFINE p == pump[f]
           c == chunks[f]
<1>1. /\ p.pc = "send" /\ FeedTypes
      /\ UNCHANGED <<source, worker, channel, receiver, taken>>
  BY DEF SendChunk, FeedInv
<1>2. p \in Pumps /\ p.buf \in Seq(Nat) /\ c \in Seq(Seq(Nat)) /\ source[f] \in Sources /\ worker[f] \in Workers
  BY Known
<1>3. pump \in [Feeds -> Pumps] /\ chunks \in [Feeds -> Seq(Seq(Nat))]
  BY <1>1 DEF FeedTypes
<1>4. CASE worker[f].pc = "done"
  <2> DEFINE q == [p EXCEPT !.pc = "join"]
  <2>1. pump' = [pump EXCEPT ![f] = q] /\ chunks' = chunks
    BY <1>4 DEF SendChunk
  <2>2. q \in Pumps
    BY <1>2 DEF Pumps
  <2> HIDE DEF q
  <2>3. pump' \in [Feeds -> Pumps] /\ \A g \in Feeds \ {f} : pump'[g] = pump[g]
    BY <1>3, <2>1, <2>2
  <2>4. FeedTypes'
    BY <1>1, <2>1, <2>3 DEF FeedTypes
  <2>5. receiver # "open"
    <3>1. SUFFICES ASSUME receiver = "open" PROVE FALSE
      OBVIOUS
    <3>2. FeedOk(source[f], p, c, worker[f], Had(f))
      BY <3>1, Known
    <3> QED
      BY <1>1, <1>4, <3>2 DEF FeedOk, Worked
  <2> QED
    BY <1>1, <2>1, <2>3, <2>4, <2>5, OneFeed
<1>5. CASE worker[f].pc # "done"
  <2> DEFINE q == [p EXCEPT !.pc = "read", !.buf = <<>>]
             d == Append(c, p.buf)
  <2>1. pump' = [pump EXCEPT ![f] = q] /\ chunks' = [chunks EXCEPT ![f] = d]
    BY <1>5 DEF SendChunk
  <2>2. q \in Pumps /\ q.pc = "read" /\ q.at = p.at /\ q.buf = <<>>
    BY <1>2, EmptySeq DEF Pumps
  <2>3. d \in Seq(Seq(Nat))
    BY <1>2, AppendProperties
  <2> HIDE DEF q, d
  <2>4. pump' \in [Feeds -> Pumps] /\ pump'[f] = q /\ \A g \in Feeds \ {f} : pump'[g] = pump[g]
    BY <1>3, <2>1, <2>2
  <2>5. chunks' \in [Feeds -> Seq(Seq(Nat))] /\ chunks'[f] = d /\ \A g \in Feeds \ {f} : chunks'[g] = chunks[g]
    BY <1>3, <2>1, <2>3
  <2>6. FeedTypes'
    BY <1>1, <2>4, <2>5 DEF FeedTypes
  <2>7. ASSUME receiver = "open"
        PROVE  FeedOk(source[f], pump'[f], chunks'[f], worker'[f], taken[f] \o ItemsOf(f, channel'))
    <3>1. FeedOk(source[f], p, c, worker[f], Had(f))
      BY <2>7, Known
    <3> HIDE DEF p, c
    <3>2. FeedOk(source[f], q, Append(c, p.buf), worker[f], Had(f))
      BY <1>1, <1>2, <2>2, <3>1, ChunkSent
    <3> QED
      BY <1>1, <2>4, <2>5, <3>2 DEF Had, d
  <2> QED
    BY <1>1, <2>4, <2>5, <2>6, <2>7, OneFeed
<1> QED
  BY <1>4, <1>5

LEMMA JoinKeeps ==
  ASSUME FeedInv, NEW f \in Feeds, Join(f)
  PROVE  FeedInv'
<1> DEFINE s == source[f]
           p == pump[f]
           w == worker[f]
<1>1. PICK then \in {"done", "report"} :
        /\ pump' = [pump EXCEPT ![f].pc = then]
        /\ then = "done" => p.pc = "join"
        /\ then = "report" => p.pc = "join_error"
  BY DEF Join
<1>2. /\ w.pc = "done" /\ FeedTypes
      /\ UNCHANGED <<source, chunks, worker, channel, receiver, taken>>
  BY DEF Join, FeedInv
<1>3. s \in Sources /\ p \in Pumps
  BY Known
<1> DEFINE q == [p EXCEPT !.pc = then]
<1>4. q \in Pumps /\ q.pc = then /\ q.at = p.at /\ q.buf = p.buf
  BY <1>3 DEF Pumps
<1>5. pump \in [Feeds -> Pumps]
  BY <1>2 DEF FeedTypes
<1>6. pump' = [pump EXCEPT ![f] = q]
  BY <1>1
<1> HIDE DEF q
<1>7. pump' \in [Feeds -> Pumps] /\ pump'[f] = q /\ \A g \in Feeds \ {f} : pump'[g] = pump[g]
  BY <1>4, <1>5, <1>6
<1>8. FeedTypes'
  BY <1>2, <1>7 DEF FeedTypes
<1>9. ASSUME receiver = "open"
      PROVE  FeedOk(source[f], pump'[f], chunks'[f], worker'[f], taken[f] \o ItemsOf(f, channel'))
  <2>1. FeedOk(s, p, chunks[f], w, Had(f))
    BY <1>9, Known
  <2>2. PumpOk(s, p) /\ Had(f) = Decoded(s)
    BY <1>1, <1>2, <2>1 DEF FeedOk, Worked
  <2>3. PumpOk(s, q)
    BY <1>1, <1>4, <2>2 DEF PumpOk
  <2>4. then = "done" => WholeOf(s) = Decoded(s)
    <3>1. then = "done" => s.end = "eof"
      BY <1>1, <2>2 DEF PumpOk
    <3> QED
      BY <1>3, <3>1, WholeProps
  <2>5. q.at - Len(q.buf) = p.at - Len(p.buf) /\ q.pc \notin {"read", "send"}
    BY <1>4
  <2>6. Had(f) = IF q.pc = "done" THEN WholeOf(s) ELSE Decoded(s)
    BY <1>4, <2>2, <2>4
  <2> HIDE DEF s, p, w
  <2>7. FeedOk(s, q, chunks[f], w, Had(f))
    BY <1>2, <2>1, <2>3, <2>5, <2>6, PumpMoves
  <2> QED
    BY <1>2, <1>7, <2>7 DEF Had, s, w
<1> QED
  BY <1>2, <1>7, <1>8, <1>9, OneFeed

LEMMA ReportKeeps ==
  ASSUME FeedInv, NEW f \in Feeds, Report(f)
  PROVE  FeedInv'
<1> DEFINE s == source[f]
           p == pump[f]
           w == worker[f]
           q == [p EXCEPT !.pc = "done"]
<1>1. /\ p.pc = "report" /\ Offer(f, ReadError) /\ FeedTypes /\ ReadError \in Int
      /\ UNCHANGED <<source, chunks, worker, receiver, taken>>
      /\ pump' = [pump EXCEPT ![f] = q]
  BY DEF Report, FeedInv, ReadError
<1>2. s \in Sources /\ p \in Pumps
  BY Known
<1>3. q \in Pumps /\ q.pc = "done" /\ q.at = p.at /\ q.buf = p.buf
  BY <1>2 DEF Pumps
<1>4. pump \in [Feeds -> Pumps]
  BY <1>1 DEF FeedTypes
<1> HIDE DEF q
<1>5. pump' \in [Feeds -> Pumps] /\ pump'[f] = q /\ \A g \in Feeds \ {f} : pump'[g] = pump[g]
  BY <1>1, <1>3, <1>4
<1>6. /\ channel' \in Seq(Entries)
      /\ \A g \in Feeds \ {f} : ItemsOf(g, channel') = ItemsOf(g, channel)
      /\ receiver = "dropped" => channel' = channel
      /\ receiver = "open" => taken[f] \o ItemsOf(f, channel') = Append(Had(f), ReadError)
  BY <1>1, Offered
<1>7. FeedTypes'
  BY <1>1, <1>5, <1>6 DEF FeedTypes
<1>8. ASSUME receiver = "open"
      PROVE  FeedOk(source[f], pump'[f], chunks'[f], worker'[f], taken[f] \o ItemsOf(f, channel'))
  <2>1. FeedOk(s, p, chunks[f], w, Had(f))
    BY <1>8, Known
  <2>2. PumpOk(s, p) /\ w.pc = "done" /\ Had(f) = Decoded(s) /\ s.end = "error"
    BY <1>1, <2>1 DEF FeedOk, Worked, PumpOk
  <2>3. PumpOk(s, q)
    BY <1>1, <1>3, <2>2 DEF PumpOk
  <2>4. Append(Had(f), ReadError) = WholeOf(s)
    BY <1>2, <2>2, WholeProps
  <2>5. q.at - Len(q.buf) = p.at - Len(p.buf)
    BY <1>3
  <2> HIDE DEF s, p, w
  <2>6. FeedOk(s, q, chunks[f], w, Append(Had(f), ReadError))
    BY <1>3, <2>1, <2>2, <2>3, <2>4, <2>5, PumpMoves
  <2> QED
    BY <1>1, <1>5, <1>6, <1>8, <2>6 DEF s, w
<1> QED
  BY <1>1, <1>5, <1>6, <1>7, <1>8, OneFeed

LEMMA RecvKeeps ==
  ASSUME FeedInv, NEW f \in Feeds, Recv(f)
  PROVE  FeedInv'
<1> DEFINE p == pump[f]
           c == chunks[f]
           w == worker[f]
<1>1. /\ w.pc = "recv" /\ FeedTypes
      /\ UNCHANGED <<source, pump, channel, receiver, taken>>
  BY DEF Recv, FeedInv
<1>2. p \in Pumps /\ c \in Seq(Seq(Nat)) /\ source[f] \in Sources /\ w \in Workers /\ w.bytes \in Seq(Nat)
  BY Known
<1>3. worker \in [Feeds -> Workers] /\ chunks \in [Feeds -> Seq(Seq(Nat))]
  BY <1>1 DEF FeedTypes
<1>4. CASE c # <<>>
  <2> DEFINE v == [w EXCEPT !.pc = "push", !.bytes = w.bytes \o Head(c)]
             d == Tail(c)
  <2>1. worker' = [worker EXCEPT ![f] = v] /\ chunks' = [chunks EXCEPT ![f] = d]
    BY <1>4 DEF Recv, Joined
  <2>2. Head(c) \in Seq(Nat) /\ d \in Seq(Seq(Nat))
    BY <1>2, <1>4, HeadTailProperties
  <2>3. v \in Workers /\ v.pc = "push" /\ v.bytes = w.bytes \o Head(c)
    <3>1. w.bytes \o Head(c) \in Seq(Nat)
      BY <1>2, <2>2, ConcatProperties
    <3> QED
      BY <1>2, <3>1 DEF Workers
  <2> HIDE DEF v, d
  <2>4. worker' \in [Feeds -> Workers] /\ worker'[f] = v /\ \A g \in Feeds \ {f} : worker'[g] = worker[g]
    BY <1>3, <2>1, <2>3
  <2>5. chunks' \in [Feeds -> Seq(Seq(Nat))] /\ chunks'[f] = d /\ \A g \in Feeds \ {f} : chunks'[g] = chunks[g]
    BY <1>3, <2>1, <2>2
  <2>6. FeedTypes'
    BY <1>1, <2>4, <2>5 DEF FeedTypes
  <2>7. ASSUME receiver = "open"
        PROVE  FeedOk(source[f], pump'[f], chunks'[f], worker'[f], taken[f] \o ItemsOf(f, channel'))
    <3>1. FeedOk(source[f], p, c, w, Had(f))
      BY <2>7, Known
    <3> HIDE DEF p, c, w
    <3>2. FeedOk(source[f], p, Tail(c), v, Had(f))
      BY <1>1, <1>2, <1>4, <2>3, <3>1, ChunkReceived
    <3> QED
      BY <1>1, <2>4, <2>5, <3>2 DEF Had, d, p
  <2> QED
    BY <1>1, <2>4, <2>5, <2>6, <2>7, OneFeed
<1>5. CASE c = <<>>
  <2> DEFINE v == [w EXCEPT !.pc = IF w.bytes = <<>> THEN "done" ELSE "last"]
  <2>1. worker' = [worker EXCEPT ![f] = v] /\ chunks' = chunks /\ p.pc \notin {"read", "send"}
    BY <1>5 DEF Recv, Closed
  <2>2. v \in Workers /\ v.pc = (IF w.bytes = <<>> THEN "done" ELSE "last") /\ v.bytes = w.bytes
    BY <1>2 DEF Workers
  <2> HIDE DEF v
  <2>3. worker' \in [Feeds -> Workers] /\ worker'[f] = v /\ \A g \in Feeds \ {f} : worker'[g] = worker[g]
    BY <1>3, <2>1, <2>2
  <2>4. FeedTypes'
    BY <1>1, <2>1, <2>3 DEF FeedTypes
  <2>5. ASSUME receiver = "open"
        PROVE  FeedOk(source[f], pump'[f], chunks'[f], worker'[f], taken[f] \o ItemsOf(f, channel'))
    <3>1. FeedOk(source[f], p, c, w, Had(f))
      BY <2>5, Known
    <3> HIDE DEF p, c, w
    <3>2. FeedOk(source[f], p, c, v, Had(f))
      BY <1>1, <1>2, <1>5, <2>1, <2>2, <3>1, ChunksEnd
    <3> QED
      BY <1>1, <2>1, <2>3, <3>2 DEF Had, p, c
  <2> QED
    BY <1>1, <2>1, <2>3, <2>4, <2>5, OneFeed
<1> QED
  BY <1>4, <1>5

LEMMA PushSampleKeeps ==
  ASSUME FeedInv, NEW f \in Feeds, PushSample(f)
  PROVE  FeedInv'
<1> DEFINE p == pump[f]
           w == worker[f]
           b == w.bytes
           frame == FrameOf(b[1], b[2])
           v == IF Len(b) < 2 THEN [w EXCEPT !.pc = "recv"]
                ELSE [pc |-> IF frame = <<>> THEN "push" ELSE "send", bytes |-> SubSeq(b, 3, Len(b)), item |-> frame]
<1>1. /\ w.pc = "push" /\ FeedTypes
      /\ UNCHANGED <<source, pump, chunks, channel, receiver, taken>>
      /\ worker' = [worker EXCEPT ![f] = v]
  BY DEF PushSample, FeedInv
<1>2. p \in Pumps /\ source[f] \in Sources /\ w \in Workers /\ b \in Seq(Nat)
  BY Known
<1>3. worker \in [Feeds -> Workers]
  BY <1>1 DEF FeedTypes
<1>4. v \in Workers
  <2>1. CASE Len(b) < 2
    BY <1>2, <2>1 DEF Workers
  <2>2. CASE ~(Len(b) < 2)
    <3>1. SubSeq(b, 3, Len(b)) \in Seq(Nat)
      BY <1>2, SubSeqProperties
    <3>2. b[2] \in Nat
      BY <1>2, <2>2
    <3>3. frame \in Seq(Nat)
      <4>1. <<b[2]>> \in Seq(Nat) /\ <<>> \in Seq(Nat)
        BY <3>2, EmptySeq
      <4> QED
        BY <4>1 DEF FrameOf
    <3> HIDE DEF b, frame
    <3> QED
      BY <2>2, <3>1, <3>3 DEF Workers
  <2> QED
    BY <2>1, <2>2
<1>5. IF Len(b) < 2 THEN v.pc = "recv" /\ v.bytes = b
      ELSE /\ v.pc = IF frame = <<>> THEN "push" ELSE "send"
           /\ v.bytes = SubSeq(b, 3, Len(b))
           /\ v.item = frame
  BY <1>2 DEF Workers
<1> HIDE DEF v
<1>6. worker' \in [Feeds -> Workers] /\ worker'[f] = v /\ \A g \in Feeds \ {f} : worker'[g] = worker[g]
  BY <1>1, <1>3, <1>4
<1>7. FeedTypes'
  BY <1>1, <1>6 DEF FeedTypes
<1>8. ASSUME receiver = "open"
      PROVE  FeedOk(source[f], pump'[f], chunks'[f], worker'[f], taken[f] \o ItemsOf(f, channel'))
  <2>1. FeedOk(source[f], p, chunks[f], w, Had(f))
    BY <1>8, Known
  <2> HIDE DEF p, w
  <2>2. FeedOk(source[f], p, chunks[f], v, Had(f))
    BY <1>1, <1>2, <1>4, <1>5, <2>1, SamplePushed
  <2> QED
    BY <1>1, <1>6, <2>2 DEF Had, p
<1> QED
  BY <1>1, <1>6, <1>7, <1>8, OneFeed

LEMMA SendFrameKeeps ==
  ASSUME FeedInv, NEW f \in Feeds, SendFrame(f)
  PROVE  FeedInv'
<1> DEFINE p == pump[f]
           w == worker[f]
           v == [w EXCEPT !.pc = IF receiver = "dropped" THEN "done" ELSE "push", !.item = <<>>]
<1>1. /\ w.pc = "send" /\ Offer(f, w.item[1]) /\ FeedTypes
      /\ UNCHANGED <<source, pump, chunks, receiver, taken>>
      /\ worker' = [worker EXCEPT ![f] = v]
  BY DEF SendFrame, FeedInv
<1>2. p \in Pumps /\ source[f] \in Sources /\ w \in Workers
  BY Known
<1>3. worker \in [Feeds -> Workers]
  BY <1>1 DEF FeedTypes
<1>4. v \in Workers /\ v.bytes = w.bytes /\ (receiver = "open" => v.pc = "push")
  BY <1>2, EmptySeq DEF Workers
<1> HIDE DEF v
<1>5. worker' \in [Feeds -> Workers] /\ worker'[f] = v /\ \A g \in Feeds \ {f} : worker'[g] = worker[g]
  BY <1>1, <1>3, <1>4
<1>6. CASE receiver = "dropped"
  <2>1. channel' = channel
    BY <1>1, <1>6 DEF Offer
  <2>2. FeedTypes'
    BY <1>1, <1>5, <2>1 DEF FeedTypes
  <2> QED
    BY <1>1, <1>5, <1>6, <2>1, <2>2, OneFeed
<1>7. CASE receiver = "open"
  <2>1. FeedOk(source[f], p, chunks[f], w, Had(f))
    BY <1>7, Known
  <2>2. w.item[1] \in Int
    <3>1. PICK lo \in Nat : \E cut \in [0 .. Len(chunks[f]) -> Nat] :
                 Worked(source[f], p, chunks[f], w, lo, Had(f))
      BY <2>1 DEF FeedOk
    <3>2. w.item = <<lo>>
      BY <1>1, <3>1 DEF Worked
    <3> QED
      BY <3>2
  <2>3. /\ channel' \in Seq(Entries)
        /\ \A g \in Feeds \ {f} : ItemsOf(g, channel') = ItemsOf(g, channel)
        /\ taken[f] \o ItemsOf(f, channel') = Append(Had(f), w.item[1])
    <3> DEFINE item == w.item[1]
    <3>1. item \in Int /\ Offer(f, item) /\ FeedTypes
      BY <1>1, <2>2
    <3> HIDE DEF item
    <3>2. /\ channel' \in Seq(Entries)
          /\ \A g \in Feeds \ {f} : ItemsOf(g, channel') = ItemsOf(g, channel)
          /\ taken[f] \o ItemsOf(f, channel') = Append(Had(f), item)
      BY <1>7, <3>1, Offered
    <3> QED
      BY <3>2 DEF item
  <2>4. FeedTypes'
    BY <1>1, <1>5, <2>3 DEF FeedTypes
  <2>5. FeedOk(source[f], pump'[f], chunks'[f], worker'[f], taken[f] \o ItemsOf(f, channel'))
    <3> HIDE DEF p, w
    <3>1. FeedOk(source[f], p, chunks[f], v, Append(Had(f), w.item[1]))
      BY <1>1, <1>2, <1>4, <1>7, <2>1, FrameSent
    <3> QED
      BY <1>1, <1>5, <2>3, <3>1 DEF p
  <2> QED
    BY <1>1, <1>5, <1>7, <2>3, <2>4, <2>5, OneFeed
<1> QED
  BY <1>1, <1>6, <1>7 DEF FeedTypes

LEMMA SendLastKeeps ==
  ASSUME FeedInv, NEW f \in Feeds, SendLast(f)
  PROVE  FeedInv'
<1> DEFINE p == pump[f]
           w == worker[f]
           v == [w EXCEPT !.pc = "done"]
<1>1. /\ w.pc = "last" /\ Offer(f, Truncated) /\ FeedTypes /\ Truncated \in Int
      /\ UNCHANGED <<source, pump, chunks, receiver, taken>>
      /\ worker' = [worker EXCEPT ![f] = v]
  BY DEF SendLast, FeedInv, Truncated
<1>2. p \in Pumps /\ source[f] \in Sources /\ w \in Workers
  BY Known
<1>3. worker \in [Feeds -> Workers]
  BY <1>1 DEF FeedTypes
<1>4. v \in Workers /\ v.bytes = w.bytes /\ v.pc = "done"
  BY <1>2 DEF Workers
<1> HIDE DEF v
<1>5. worker' \in [Feeds -> Workers] /\ worker'[f] = v /\ \A g \in Feeds \ {f} : worker'[g] = worker[g]
  BY <1>1, <1>3, <1>4
<1>6. /\ channel' \in Seq(Entries)
      /\ \A g \in Feeds \ {f} : ItemsOf(g, channel') = ItemsOf(g, channel)
      /\ receiver = "dropped" => channel' = channel
      /\ receiver = "open" => taken[f] \o ItemsOf(f, channel') = Append(Had(f), Truncated)
  BY <1>1, Offered
<1>7. FeedTypes'
  BY <1>1, <1>5, <1>6 DEF FeedTypes
<1>8. ASSUME receiver = "open"
      PROVE  FeedOk(source[f], pump'[f], chunks'[f], worker'[f], taken[f] \o ItemsOf(f, channel'))
  <2>1. FeedOk(source[f], p, chunks[f], w, Had(f))
    BY <1>8, Known
  <2> HIDE DEF p, w
  <2>2. FeedOk(source[f], p, chunks[f], v, Append(Had(f), Truncated))
    BY <1>1, <1>2, <1>4, <2>1, LastSent
  <2> QED
    BY <1>1, <1>5, <1>6, <1>8, <2>2 DEF p
<1> QED
  BY <1>1, <1>5, <1>6, <1>7, <1>8, OneFeed

LEMMA TakeKeeps ==
  ASSUME FeedInv, Take
  PROVE  FeedInv'
<1> DEFINE e == Head(channel)
           rest == Tail(channel)
<1>1. /\ receiver = "open" /\ channel # <<>> /\ channel' = rest
      /\ taken' = [taken EXCEPT ![e[1]] = Append(@, e[2])]
      /\ FeedTypes /\ UNCHANGED <<source, pump, chunks, worker, receiver>>
  BY DEF Take, FeedInv
<1>2. channel \in Seq(Entries) /\ taken \in [Feeds -> Seq(Int)]
  BY <1>1 DEF FeedTypes
<1>3. e \in Entries /\ rest \in Seq(Entries)
  BY <1>1, <1>2, HeadTailProperties
<1>4. e[1] \in Feeds /\ e[2] \in Int
  BY <1>3 DEF Entries
<1>5. \A g \in Feeds : ItemsOf(g, channel) = First(g, e) \o ItemsOf(g, rest)
  BY <1>1, <1>2, ItemsTail
<1> HIDE DEF e, rest
<1>6. \A g \in Feeds : taken[g] \in Seq(Int) /\ taken'[g] = IF g = e[1] THEN Append(taken[g], e[2]) ELSE taken[g]
  BY <1>1, <1>2
<1>7. taken' \in [Feeds -> Seq(Int)]
  <2>1. Append(taken[e[1]], e[2]) \in Seq(Int)
    BY <1>4, <1>6, AppendProperties
  <2> QED
    BY <1>1, <1>2, <2>1
<1>8. FeedTypes'
  BY <1>1, <1>3, <1>7 DEF FeedTypes
<1>9. ASSUME NEW g \in Feeds
      PROVE  Had(g)' = Had(g)
  <2> DEFINE a == taken[g]
             b == ItemsOf(g, rest)
             i == e[2]
  <2>1. a \in Seq(Int) /\ b \in Seq(Int) /\ <<i>> \in Seq(Int) /\ <<>> \in Seq(Int)
    BY <1>3, <1>4, <1>6, ItemsAppend, EmptySeq
  <2>2. Had(g) = a \o (First(g, e) \o b) /\ Had(g)' = taken'[g] \o b
    BY <1>1, <1>5 DEF Had
  <2>3. CASE g = e[1]
    <3>1. First(g, e) = <<i>> /\ taken'[g] = Append(a, i)
      BY <1>6, <2>3 DEF First
    <3> HIDE DEF a, b, i
    <3>2. Append(a, i) = a \o <<i>>
      BY <1>4, <2>1, AppendIsConcat DEF i
    <3>3. (a \o <<i>>) \o b = a \o (<<i>> \o b)
      BY <2>1, ConcatAssociative
    <3> QED
      BY <2>2, <3>1, <3>2, <3>3
  <2>4. CASE g # e[1]
    <3>1. First(g, e) = <<>> /\ taken'[g] = a
      BY <1>6, <2>4 DEF First
    <3> HIDE DEF a, b, i
    <3>2. <<>> \o b = b
      BY <2>1, ConcatEmptySeq
    <3> QED
      BY <2>2, <3>1, <3>2
  <2> QED
    BY <2>3, <2>4
<1>10. \A g \in Feeds : FeedOk(source[g], pump[g], chunks[g], worker[g], Had(g))
  BY <1>1 DEF FeedInv
<1>11. \A g \in Feeds : FeedOk(source'[g], pump'[g], chunks'[g], worker'[g], Had(g)')
  BY <1>1, <1>9, <1>10
<1>12. receiver' = "open"
  BY <1>1
<1> QED
  BY <1>8, <1>11, <1>12 DEF FeedInv

LEMMA PrefixElements ==
  ASSUME NEW a \in Seq(Int), NEW b \in Seq(Int), IsPrefix(a, b)
  PROVE  Len(a) <= Len(b) /\ \A i \in 1 .. Len(a) : a[i] = b[i]
<1>1. Len(a) <= Len(b) /\ SubSeq(a, 1, Len(a)) = SubSeq(b, 1, Len(a)) /\ Len(a) \in Nat /\ Len(b) \in Nat
  BY DEF IsPrefix
<1>2. ASSUME NEW i \in 1 .. Len(a)
      PROVE  a[i] = b[i]
  <2>1. SubSeq(a, 1, Len(a))[i] = a[i]
    BY <1>1, SubSeqProperties
  <2>2. SubSeq(b, 1, Len(a))[i] = b[i]
    BY <1>1, SubSeqProperties
  <2> QED
    BY <1>1, <2>1, <2>2
<1> QED
  BY <1>1, <1>2

LEMMA DropStreamKeeps ==
  ASSUME FeedInv, DropStream
  PROVE  FeedInv'
<1>1. /\ receiver = "open" /\ receiver' = "dropped" /\ channel' = <<>> /\ FeedTypes
      /\ UNCHANGED <<source, pump, chunks, worker, taken>>
  BY DEF DropStream, FeedInv
<1>2. FeedTypes'
  <2>1. <<>> \in Seq(Entries)
    BY EmptySeq
  <2> QED
    BY <1>1, <2>1 DEF FeedTypes
<1>3. ASSUME NEW g \in Feeds
      PROVE  IsPrefix(Had(g)', WholeOf(source'[g]))
  <2> DEFINE a == taken[g]
             h == Had(g)
             t == WholeOf(source[g])
  <2>1. IsPrefix(h, t) /\ source[g] \in Sources /\ h \in Seq(Int) /\ t \in Seq(Int)
    BY <1>1, Known, FeedDelivers, WholeProps
  <2>2. a \in Seq(Int) /\ ItemsOf(g, channel) \in Seq(Int)
    BY <1>1, Known DEF FeedTypes
  <2>3. Had(g)' = a
    <3>1. Had(g)' = a \o ItemsOf(g, <<>>)
      BY <1>1 DEF Had
    <3>2. ItemsOf(g, <<>>) = <<>>
      BY ItemsEmpty
    <3> HIDE DEF a
    <3> QED
      BY <2>2, <3>1, <3>2, ConcatEmptySeq
  <2>4. Len(a) \in Nat /\ Len(h) = Len(a) + Len(ItemsOf(g, channel)) /\ Len(ItemsOf(g, channel)) \in Nat
    BY <2>2, ConcatProperties DEF Had
  <2>5. \A i \in 1 .. Len(a) : i \in 1 .. Len(h) /\ h[i] = a[i]
    <3> DEFINE x == ItemsOf(g, channel)
    <3>1. h = a \o x
      BY DEF Had
    <3> HIDE DEF a, x, h
    <3>2. \A i \in 1 .. Len(a) + Len(x) : i <= Len(a) => (a \o x)[i] = a[i]
      BY <2>2, ConcatProperties DEF x
    <3>3. \A i \in 1 .. Len(a) : i \in 1 .. Len(a) + Len(x) /\ i <= Len(a)
      BY <2>4 DEF x
    <3> QED
      BY <2>4, <3>1, <3>2, <3>3 DEF x
  <2>6. source'[g] = source[g]
    BY <1>1
  <2> HIDE DEF a, h, t
  <2>7. Len(h) <= Len(t) /\ \A i \in 1 .. Len(h) : h[i] = t[i]
    BY <2>1, PrefixElements
  <2>8. Len(a) <= Len(t) /\ \A i \in 1 .. Len(a) : a[i] = t[i]
    <3>1. Len(t) \in Nat /\ Len(a) <= Len(h) /\ Len(h) \in Nat
      BY <2>1, <2>4
    <3> QED
      BY <2>4, <2>5, <2>7, <3>1
  <2>9. IsPrefix(a, t)
    BY <2>1, <2>2, <2>8, PrefixByElements
  <2> QED
    BY <2>3, <2>6, <2>9 DEF t
<1> QED
  BY <1>1, <1>2, <1>3 DEF FeedInv

\* Every step, and a step that changes nothing.
LEMMA FeedsStep ==
  ASSUME FeedInv, [FeedsNext]_feedVars
  PROVE  FeedInv'
<1>1. ASSUME NEW f \in Feeds, PumpStep(f)
      PROVE  FeedInv'
  BY <1>1, ReadSomeKeeps, ReadEndsKeeps, SendChunkKeeps, JoinKeeps, ReportKeeps DEF PumpStep, Yields, TaskStep
<1>2. ASSUME NEW f \in Feeds, WorkerStep(f)
      PROVE  FeedInv'
  BY <1>2, RecvKeeps, PushSampleKeeps, SendFrameKeeps, SendLastKeeps DEF WorkerStep
<1>3. CASE UNCHANGED feedVars
  <2>1. /\ source' = source /\ pump' = pump /\ chunks' = chunks /\ worker' = worker
        /\ channel' = channel /\ receiver' = receiver /\ taken' = taken
    BY <1>3 DEF feedVars
  <2>2. \A g \in Feeds : Had(g)' = Had(g)
    BY <2>1 DEF Had
  <2> QED
    BY <2>1, <2>2 DEF FeedInv, FeedTypes
<1> QED
  BY <1>1, <1>2, <1>3, TakeKeeps, DropStreamKeeps DEF FeedsNext, FeedStep

THEOREM FeedsInvariant == FeedsSpec => []FeedInv
<1>1. FeedInv /\ [FeedsNext]_feedVars => FeedInv'
  BY FeedsStep
<1> QED
  BY <1>1, FeedsInitial, PTL DEF FeedsSpec

\* However reads split the samples and feeds crowd the channel, each feed's
\* items reach the consumer in order, none lost and none made up, its error
\* last, and all of them when the stream ends: asynk.rs frames, decode_many.
THEOREM NothingLostCorrect == FeedsSpec => []NothingLost
<1>1. ASSUME FeedInv PROVE NothingLost
  <2>1. receiver \in {"open", "dropped"}
    BY <1>1 DEF FeedInv, FeedTypes
  <2>2. ASSUME NEW f \in Feeds
        PROVE  /\ IsPrefix(Had(f), Whole(f))
               /\ AllDone /\ receiver = "open" => Had(f) = Whole(f)
    <3>1. Whole(f) = WholeOf(source[f])
      BY DEF Whole, WholeOf, Decoded, Frames
    <3>2. CASE receiver = "open"
      <4>1. IsPrefix(Had(f), WholeOf(source[f]))
            /\ (pump[f].pc = "done" /\ worker[f].pc = "done" => Had(f) = WholeOf(source[f]))
        BY <1>1, <3>2, Known, FeedDelivers
      <4> QED
        BY <3>1, <4>1 DEF AllDone, Finished
    <3>3. CASE receiver = "dropped"
      BY <1>1, <3>1, <3>3 DEF FeedInv
    <3> QED
      BY <2>1, <3>2, <3>3
  <2> QED
    BY <2>2 DEF NothingLost, Had
<1> QED
  BY <1>1, FeedsInvariant, PTL

-----------------------------------------------------------------------------
(* Capture: the invariant                                                  *)

SinkPieces == {"good", "bad", "comment", "eol"}
Stages == {"connect", "read", "write", "wait", "flush", "last", "done", "failed"}

CaptureTypes ==
  /\ opts.count \in Nat
  /\ stage \in Stages
  /\ stats \in [lines : Nat, sessions : Nat]
  /\ buffer \in Seq(SinkPieces) /\ output \in Seq(SinkPieces)
  /\ decoder \in [at : Nat, n : Nat, decoded : Nat, skipped : Nat, running : BOOLEAN]

\* All that has been written, and the packet lines among its first i pieces.
Written == output \o buffer
Packets(s, i) == {j \in 1 .. i : Counted(s[j])}
Texts(s, i) == Cardinality(Packets(s, i))

\* Each line is a text and a line end.
Paired(s) == Len(s) % 2 = 0 /\ \A i \in 1 .. Len(s) : i % 2 = 0 <=> s[i] = "eol"

\* What the client counted has been written, unless a write has failed, and
\* the decoder has counted what it has read.
CaptureInv ==
  /\ CaptureTypes
  /\ Texts(Written, Len(Written)) <= stats.lines /\ decoder.at <= Len(output)
  /\ decoder.n <= Texts(Written, decoder.at) /\ decoder.decoded + decoder.skipped = decoder.n
  /\ ~spoilt => /\ Texts(Written, Len(Written)) = stats.lines
                /\ decoder.n = Texts(Written, decoder.at)
                /\ Paired(Written) /\ decoder.at % 2 = 0
  /\ stage \in {"last", "done"} => buffer = <<>>
  /\ stage = "failed" => spoilt
  /\ opts.count > 0 => stats.lines <= opts.count

LEMMA TextsNat ==
  ASSUME NEW s, NEW i \in Nat
  PROVE  IsFiniteSet(Packets(s, i)) /\ Texts(s, i) \in Nat
<1>1. IsFiniteSet(1 .. i) /\ Packets(s, i) \subseteq 1 .. i
  BY FS_Interval DEF Packets
<1>2. IsFiniteSet(Packets(s, i))
  BY <1>1, FS_Subset
<1> QED
  BY <1>2, FS_CardinalityType DEF Texts

LEMMA TextsNext ==
  ASSUME NEW s, NEW i \in Nat
  PROVE  Texts(s, i + 1) = Texts(s, i) + (IF Counted(s[i + 1]) THEN 1 ELSE 0)
<1>1. IsFiniteSet(Packets(s, i)) /\ Texts(s, i) \in Nat /\ i + 1 \notin Packets(s, i)
  BY TextsNat DEF Packets
<1>2. CASE Counted(s[i + 1])
  <2>1. Packets(s, i + 1) = Packets(s, i) \cup {i + 1}
    BY <1>2 DEF Packets
  <2>2. Cardinality(Packets(s, i) \cup {i + 1}) = Cardinality(Packets(s, i)) + 1
    BY <1>1, FS_AddElement
  <2> QED
    BY <1>2, <2>1, <2>2 DEF Texts
<1>3. CASE ~Counted(s[i + 1])
  <2>1. Packets(s, i + 1) = Packets(s, i)
    BY <1>3 DEF Packets
  <2> QED
    BY <1>1, <1>3, <2>1 DEF Texts
<1> QED
  BY <1>2, <1>3

LEMMA TextsGrow ==
  ASSUME NEW s, NEW i \in Nat, NEW k \in Nat, i <= k
  PROVE  Texts(s, i) <= Texts(s, k)
<1>1. Packets(s, i) \subseteq Packets(s, k) /\ IsFiniteSet(Packets(s, k))
  BY TextsNat DEF Packets
<1> QED
  BY <1>1, FS_Subset DEF Texts

LEMMA TextsAgree ==
  ASSUME NEW s, NEW t, NEW i \in Nat, \A j \in 1 .. i : s[j] = t[j]
  PROVE  Texts(s, i) = Texts(t, i)
  BY DEF Texts, Packets

\* One piece more.
LEMMA TextsAppend ==
  ASSUME NEW s \in Seq(SinkPieces), NEW x \in SinkPieces
  PROVE  /\ Append(s, x) \in Seq(SinkPieces) /\ Len(Append(s, x)) = Len(s) + 1
         /\ \A i \in 0 .. Len(s) : Texts(Append(s, x), i) = Texts(s, i)
         /\ Texts(Append(s, x), Len(s) + 1) = Texts(s, Len(s)) + (IF Counted(x) THEN 1 ELSE 0)
<1> DEFINE t == Append(s, x)
           n == Len(s)
<1>1. t \in Seq(SinkPieces) /\ Len(t) = n + 1 /\ n \in Nat /\ t[n + 1] = x /\ \A j \in 1 .. n : t[j] = s[j]
  BY AppendProperties
<1> HIDE DEF t, n
<1>2. ASSUME NEW i \in 0 .. n
      PROVE  Texts(t, i) = Texts(s, i)
  <2>1. \A j \in 1 .. i : t[j] = s[j]
    BY <1>1
  <2> QED
    BY <1>1, <2>1, TextsAgree
<1>3. Texts(t, n + 1) = Texts(t, n) + (IF Counted(x) THEN 1 ELSE 0)
  BY <1>1, TextsNext
<1>4. Texts(t, n) = Texts(s, n)
  BY <1>1, <1>2
<1> QED
  BY <1>1, <1>2, <1>3, <1>4 DEF t, n

LEMMA CaptureInitial == CaptureInit => CaptureInv
<1> SUFFICES ASSUME CaptureInit PROVE CaptureInv
  OBVIOUS
<1>1. opts.count \in Nat
  BY DEF CaptureInit
<1>2. /\ buffer = <<>> /\ output = <<>> /\ stage = "connect" /\ stats.lines = 0 /\ decoder.at = 0
      /\ decoder.n = 0 /\ decoder.decoded = 0 /\ decoder.skipped = 0
  BY DEF CaptureInit
<1>3. stats \in [lines : Nat, sessions : Nat]
      /\ decoder \in [at : Nat, n : Nat, decoded : Nat, skipped : Nat, running : BOOLEAN]
  BY DEF CaptureInit
<1>4. CaptureTypes
  <2>1. <<>> \in Seq(SinkPieces)
    BY EmptySeq
  <2> QED
    BY <1>1, <1>2, <1>3, <2>1 DEF CaptureTypes, Stages
<1>5. Written = <<>> /\ Len(Written) = 0 /\ Len(output) = 0
  <2>1. <<>> \o <<>> = <<>>
    BY EmptySeq, ConcatEmptySeq
  <2> QED
    BY <1>2, <2>1, EmptySeq DEF Written
<1>6. Texts(Written, 0) = 0
  <2>1. Packets(Written, 0) = {}
    BY DEF Packets
  <2> QED
    BY <2>1, FS_EmptySet DEF Texts
<1>7. Paired(Written)
  BY <1>5 DEF Paired
<1> QED
  BY <1>1, <1>2, <1>4, <1>5, <1>6, <1>7 DEF CaptureInv

\* A step that writes nothing, counts nothing and ends nothing.
LEMMA WritesNothing ==
  ASSUME CaptureInv, CaptureTypes', UNCHANGED <<opts, buffer, output, spoilt>>,
         stats'.lines = stats.lines,
         decoder'.at = decoder.at, decoder'.n = decoder.n,
         decoder'.decoded = decoder.decoded, decoder'.skipped = decoder.skipped,
         stage' \in {"last", "done", "failed"} => stage' = stage
  PROVE  CaptureInv'
<1>1. Written' = Written
  BY DEF Written
<1>2. opts' = opts /\ buffer' = buffer /\ output' = output /\ spoilt' = spoilt
  OBVIOUS
<1>3. /\ stage' \in {"last", "done"} => buffer' = <<>>
      /\ stage' = "failed" => spoilt'
  BY <1>2 DEF CaptureInv
<1> QED
  BY <1>1, <1>2, <1>3 DEF CaptureInv

\* A session's end, and what it leaves alone.
LEMMA EndsSession ==
  ASSUME NEW error, NEW gained, SessionEnds(error, gained)
  PROVE  stage' \in {"flush", "wait"}
  BY DEF SessionEnds

LEMMA QuietKeeps ==
  ASSUME CaptureInv, Wait \/ Connect \/ Finish \/ Quiet \/ Disk \/ DecoderFails \/ UNCHANGED captureVars
  PROVE  CaptureInv'
<1>1. CaptureTypes
  BY DEF CaptureInv
<1>2. /\ UNCHANGED <<opts, buffer, output, spoilt>>
      /\ stage' \in {"flush", "wait", "connect", "read"} \/ stage' = stage
  <2>1. CASE Connect
    BY <2>1, EndsSession DEF Connect
  <2>2. CASE Finish
    BY <2>2, EndsSession DEF Finish
  <2>3. CASE Wait \/ Quiet \/ Disk \/ DecoderFails \/ UNCHANGED captureVars
    BY <2>3 DEF Wait, Quiet, Disk, DecoderFails, captureVars
  <2> QED
    BY <2>1, <2>2, <2>3
<1>3. stats' \in [lines : Nat, sessions : Nat] /\ stats'.lines = stats.lines
  <2>1. CASE Connect
    <3>1. stats' = [stats EXCEPT !.sessions = stats.sessions + 1]
      BY <2>1 DEF Connect
    <3> QED
      BY <1>1, <3>1 DEF CaptureTypes
  <2>2. CASE Wait \/ Finish \/ Quiet \/ Disk \/ DecoderFails \/ UNCHANGED captureVars
    <3>1. stats' = stats
      BY <2>2 DEF Wait, Finish, Quiet, Disk, DecoderFails, captureVars
    <3> QED
      BY <1>1, <3>1 DEF CaptureTypes
  <2> QED
    BY <2>1, <2>2
<1>4. /\ decoder' \in [at : Nat, n : Nat, decoded : Nat, skipped : Nat, running : BOOLEAN]
      /\ decoder'.at = decoder.at /\ decoder'.n = decoder.n
      /\ decoder'.decoded = decoder.decoded /\ decoder'.skipped = decoder.skipped
  <2>1. CASE DecoderFails
    <3> DEFINE no == FALSE
    <3>1. decoder' = [decoder EXCEPT !.running = no] /\ no \in BOOLEAN
      BY <2>1 DEF DecoderFails
    <3> HIDE DEF no
    <3> QED
      BY <1>1, <3>1 DEF CaptureTypes
  <2>2. CASE Wait \/ Connect \/ Finish \/ Quiet \/ Disk \/ UNCHANGED captureVars
    <3>1. decoder' = decoder
      BY <2>2 DEF Wait, Connect, Finish, Quiet, Disk, captureVars
    <3> QED
      BY <1>1, <3>1 DEF CaptureTypes
  <2> QED
    BY <2>1, <2>2
<1>5. CaptureTypes'
  BY <1>1, <1>2, <1>3, <1>4 DEF CaptureTypes, Stages
<1>6. stage' \in {"last", "done", "failed"} => stage' = stage
  BY <1>2
<1> QED
  BY <1>2, <1>3, <1>4, <1>5, <1>6, WritesNothing

LEMMA FlushKeeps ==
  ASSUME CaptureInv, Flush
  PROVE  CaptureInv'
<1>1. CaptureTypes /\ UNCHANGED <<opts, stats, decoder>>
  BY DEF CaptureInv, Flush
<1>2. buffer \in Seq(SinkPieces) /\ output \in Seq(SinkPieces)
  BY <1>1 DEF CaptureTypes
<1>3. CASE stage' \in {"last", "done"} /\ output' = output \o buffer /\ buffer' = <<>> /\ UNCHANGED spoilt
  <2>1. output' \in Seq(SinkPieces) /\ Len(output') = Len(output) + Len(buffer)
        /\ Len(output) \in Nat /\ Len(buffer) \in Nat
    BY <1>2, <1>3, ConcatProperties
  <2>2. Written' = Written
    <3>1. output' \o <<>> = output'
      BY <2>1, ConcatEmptySeq
    <3> QED
      BY <1>3, <3>1 DEF Written
  <2>3. CaptureTypes'
    <3>1. <<>> \in Seq(SinkPieces)
      BY EmptySeq
    <3> QED
      BY <1>1, <1>3, <2>1, <3>1 DEF CaptureTypes, Stages
  <2>4. decoder.at \in Nat /\ decoder.at <= Len(output)
    BY <1>1 DEF CaptureInv, CaptureTypes
  <2>5. decoder.at <= Len(output')
    BY <2>1, <2>4
  <2>6. /\ stats' = stats /\ decoder' = decoder /\ opts' = opts /\ spoilt' = spoilt
        /\ stage' \in {"last", "done"} /\ buffer' = <<>>
    BY <1>1, <1>3
  <2> QED
    BY <2>2, <2>3, <2>5, <2>6 DEF CaptureInv
<1>4. CASE stage' = "failed" /\ spoilt' = TRUE /\ UNCHANGED <<output, buffer>>
  <2>1. Written' = Written /\ stats' = stats /\ decoder' = decoder /\ opts' = opts /\ spoilt'
    BY <1>1, <1>4 DEF Written
  <2>2. CaptureTypes'
    BY <1>1, <1>4 DEF CaptureTypes, Stages
  <2>3. output' = output /\ stage' = "failed"
    BY <1>4
  <2> QED
    BY <2>1, <2>2, <2>3 DEF CaptureInv
<1> QED
  BY <1>3, <1>4 DEF Flush

LEMMA WriteReturnsKeeps ==
  ASSUME CaptureInv, WriteReturns
  PROVE  CaptureInv'
<1>1. CaptureTypes /\ UNCHANGED <<opts, stats, decoder, buffer, output>> /\ stage \in {"write", "last"}
  BY DEF CaptureInv, WriteReturns
<1>2. /\ stage' \in {"read", "flush", "wait", "done", "failed"}
      /\ stage' = "done" => stage = "last"
      /\ spoilt' = spoilt \/ spoilt' = TRUE
      /\ stage' = "failed" => spoilt' = TRUE
  <2>1. CASE Taken /\ stage' = (IF stage = "write" THEN "read" ELSE "done") /\ UNCHANGED spoilt
    BY <1>1, <2>1
  <2>2. CASE spoilt' = TRUE /\ \E error, gained : SessionEnds(error, gained)
    BY <2>2, EndsSession
  <2>3. CASE spoilt' = TRUE /\ stage' = "failed"
    BY <2>3
  <2> QED
    BY <2>1, <2>2, <2>3, Zenon DEF WriteReturns
<1>3. CaptureTypes'
  BY <1>1, <1>2 DEF CaptureTypes, Stages
<1>4. Written' = Written /\ output' = output /\ stats' = stats /\ decoder' = decoder /\ opts' = opts
  BY <1>1 DEF Written
<1>5. /\ stage' \in {"last", "done"} => buffer' = <<>>
      /\ stage' = "failed" => spoilt'
      /\ ~spoilt' => ~spoilt
  BY <1>1, <1>2 DEF CaptureInv
<1> QED
  BY <1>3, <1>4, <1>5 DEF CaptureInv

-----------------------------------------------------------------------------
(* Capture: what a session writes                                          *)

Fine(b, o) == [buffer |-> b, output |-> o, ok |-> TRUE]
Broken(b, o) == [buffer |-> b, output |-> o, ok |-> FALSE]

\* r is what is left of a buffer b and an output o when the piece x is added.
Puts(r, b, o, x) ==
  \E c, u \in Seq(SinkPieces) : r = Fine(c, u) /\ Len(o) <= Len(u) /\ u \o c = Append(o \o b, x)

LEMMA PutPiece ==
  ASSUME NEW b \in Seq(SinkPieces), NEW o \in Seq(SinkPieces), NEW x \in SinkPieces
  PROVE  \/ Put(Fine(b, o), x) = Broken(b, o)
         \/ Puts(Put(Fine(b, o), x), b, o, x)
<1> DEFINE st == Fine(b, o)
<1>1. st.buffer = b /\ st.output = o /\ st.ok
  BY DEF Fine
<1>2. CASE Len(b) < SinkBuffer
  <2> DEFINE c == Append(b, x)
  <2>1. Put(st, x) = [st EXCEPT !.buffer = c]
    BY <1>1, <1>2 DEF Put
  <2>2. Put(st, x) = Fine(c, o)
    BY <2>1, Zenon DEF Fine
  <2>3. c \in Seq(SinkPieces)
    BY AppendProperties
  <2>4. o \o c = Append(o \o b, x)
    <3>1. <<x>> \in Seq(SinkPieces) /\ o \o b \in Seq(SinkPieces)
      BY ConcatProperties
    <3>2. c = b \o <<x>> /\ Append(o \o b, x) = (o \o b) \o <<x>>
      BY <3>1, AppendIsConcat
    <3>3. (o \o b) \o <<x>> = o \o (b \o <<x>>)
      BY <3>1, ConcatAssociative
    <3> QED
      BY <3>2, <3>3
  <2>5. Len(o) <= Len(o)
    OBVIOUS
  <2> HIDE DEF c, st
  <2> QED
    BY <2>2, <2>3, <2>4, <2>5 DEF st, Puts
<1>3. CASE ~(Len(b) < SinkBuffer) /\ sink = "open"
  <2> DEFINE u == o \o b
             c == <<x>>
  <2>1. Put(st, x) = [st EXCEPT !.output = u, !.buffer = c]
    BY <1>1, <1>3 DEF Put
  <2>2. Put(st, x) = Fine(c, u)
    BY <2>1, Zenon DEF Fine
  <2>3. c \in Seq(SinkPieces) /\ u \in Seq(SinkPieces) /\ Len(o) <= Len(u)
    BY ConcatProperties
  <2>4. u \o c = Append(u, x)
    BY <2>3, AppendIsConcat
  <2> HIDE DEF c, u, st
  <2>5. u = o \o b
    BY DEF u
  <2> QED
    BY <2>2, <2>3, <2>4, <2>5 DEF st, Puts
<1>4. CASE ~(Len(b) < SinkBuffer) /\ sink # "open"
  <2>1. Put(st, x) = [st EXCEPT !.ok = FALSE]
    BY <1>1, <1>4 DEF Put
  <2>2. Put(st, x) = Broken(b, o)
    BY <2>1, Zenon DEF Fine, Broken
  <2> QED
    BY <2>2
<1> QED
  BY <1>2, <1>3, <1>4

PutsLine(r, b, o, x) ==
  \E c, u \in Seq(SinkPieces) :
    /\ Len(o) <= Len(u)
    /\ \/ r = Fine(c, u) /\ u \o c = Append(Append(o \o b, x), "eol")
       \/ r = Broken(c, u) /\ u \o c = Append(o \o b, x)

\* A text and its line end, or part of them when a write fails.
LEMMA PutLine ==
  ASSUME NEW b \in Seq(SinkPieces), NEW o \in Seq(SinkPieces), NEW x \in SinkPieces, NEW st,
         st = Put(Put(Fine(b, o), x), "eol")
  PROVE  st = Broken(b, o) \/ PutsLine(st, b, o, x)
<1>1. CASE Put(Fine(b, o), x) = Broken(b, o)
  <2>1. st = Put(Broken(b, o), "eol")
    BY <1>1
  <2>2. ~Broken(b, o).ok
    BY DEF Broken
  <2>3. st = Broken(b, o)
    BY <2>1, <2>2, Zenon DEF Put
  <2> QED
    BY <2>3
<1>2. ASSUME NEW c \in Seq(SinkPieces), NEW u \in Seq(SinkPieces),
             Put(Fine(b, o), x) = Fine(c, u),
             Len(o) <= Len(u), u \o c = Append(o \o b, x)
      PROVE  \E d, v \in Seq(SinkPieces) :
               /\ Len(o) <= Len(v)
               /\ \/ st = Fine(d, v) /\ v \o d = Append(Append(o \o b, x), "eol")
                  \/ st = Broken(d, v) /\ v \o d = Append(o \o b, x)
  <2>1. st = Put(Fine(c, u), "eol") /\ "eol" \in SinkPieces
    BY <1>2 DEF SinkPieces
  <2>2. CASE st = Broken(c, u)
    BY <1>2, <2>2
  <2>3. ASSUME NEW d \in Seq(SinkPieces), NEW v \in Seq(SinkPieces),
               st = Fine(d, v), Len(u) <= Len(v), v \o d = Append(u \o c, "eol")
        PROVE  Len(o) <= Len(v) /\ st = Fine(d, v) /\ v \o d = Append(Append(o \o b, x), "eol")
    <3>1. Len(o) <= Len(v)
      <4>1. Len(o) \in Nat /\ Len(u) \in Nat /\ Len(v) \in Nat
        OBVIOUS
      <4>2. Len(o) <= Len(u) /\ Len(u) <= Len(v)
        BY <1>2, <2>3
      <4> QED
        BY ONLY <4>1, <4>2
    <3>2. v \o d = Append(Append(o \o b, x), "eol")
      <4>1. u \o c = Append(o \o b, x)
        BY <1>2
      <4> QED
        BY <2>3, <4>1, Zenon
    <3> QED
      BY <2>3, <3>1, <3>2
  <2>4. st = Broken(c, u) \/ Puts(st, c, u, "eol")
    BY <2>1, PutPiece
  <2> QED
    BY <2>2, <2>3, <2>4, Zenon DEF Puts
<1>3. Put(Fine(b, o), x) = Broken(b, o) \/ Puts(Put(Fine(b, o), x), b, o, x)
  BY PutPiece
<1> QED
  BY <1>1, <1>2, <1>3, Zenon DEF Puts, PutsLine

Grows(s, one, two, add) ==
  /\ Texts(one, Len(one)) = Texts(s, Len(s)) + add /\ Texts(two, Len(two)) = Texts(s, Len(s)) + add
  /\ \A i \in 0 .. Len(s) : Texts(one, i) = Texts(s, i) /\ Texts(two, i) = Texts(s, i)
  /\ Paired(s) => Paired(two)

\* What a text, alone or with its line end, does to what is written.
LEMMA LineAppended ==
  ASSUME NEW s \in Seq(SinkPieces), NEW x \in SinkPieces, x # "eol",
         NEW one, one = Append(s, x), NEW two, two = Append(one, "eol"),
         NEW add, add = IF Counted(x) THEN 1 ELSE 0
  PROVE  Grows(s, one, two, add)
<1> DEFINE n == Len(s)
           eol == "eol"
<1>1. n \in Nat /\ eol \in SinkPieces /\ ~Counted(eol)
  BY DEF SinkPieces, Counted
<1>2. /\ one \in Seq(SinkPieces) /\ Len(one) = n + 1
      /\ \A i \in 0 .. n : Texts(one, i) = Texts(s, i)
      /\ Texts(one, n + 1) = Texts(s, n) + add
  <2> HIDE DEF eol
  <2> QED
    BY TextsAppend
<1>3. two = Append(one, eol)
  OBVIOUS
<1> HIDE DEF eol
<1>4. /\ two \in Seq(SinkPieces) /\ Len(two) = Len(one) + 1
      /\ \A i \in 0 .. Len(one) : Texts(two, i) = Texts(one, i)
      /\ Texts(two, Len(one) + 1) = Texts(one, Len(one)) + 0
  <2>1. (IF Counted(eol) THEN 1 ELSE 0) = 0
    BY <1>1
  <2>2. one \in Seq(SinkPieces) /\ eol \in SinkPieces
    BY <1>1, <1>2
  <2>3. /\ Append(one, eol) \in Seq(SinkPieces) /\ Len(Append(one, eol)) = Len(one) + 1
        /\ \A i \in 0 .. Len(one) : Texts(Append(one, eol), i) = Texts(one, i)
        /\ Texts(Append(one, eol), Len(one) + 1) = Texts(one, Len(one)) + (IF Counted(eol) THEN 1 ELSE 0)
    BY ONLY <2>2, TextsAppend
  <2> QED
    BY <1>3, <2>1, <2>3
<1>5. Texts(one, n + 1) \in Nat /\ Texts(one, Len(one)) \in Nat
  BY <1>1, <1>2, TextsNat
<1>6. \A i \in 0 .. n : i \in 0 .. Len(one)
  BY <1>1, <1>2
<1>7. ASSUME Paired(s)
      PROVE  Paired(two)
  <2>1. n % 2 = 0 /\ \A i \in 1 .. n : i % 2 = 0 <=> s[i] = eol
    BY <1>7 DEF Paired, eol
  <2>2. Len(two) = n + 2 /\ (n + 2) % 2 = 0 /\ (n + 1) % 2 # 0
    BY <1>1, <1>2, <1>4, <2>1
  <2>3. ASSUME NEW i \in 1 .. n + 2
        PROVE  i % 2 = 0 <=> two[i] = eol
    <3>1. CASE i <= n
      <4>1. one[i] = s[i] /\ two[i] = one[i]
        <5>1. i \in 1 .. n /\ i \in 1 .. n + 1
          BY <1>1, <3>1
        <5>2. one[i] = s[i]
          BY <5>1, AppendProperties
        <5>3. two[i] = one[i]
          BY <1>2, <1>3, <5>1, AppendProperties
        <5> QED
          BY <5>2, <5>3
      <4>2. i \in 1 .. n
        BY <1>1, <3>1
      <4> QED
        BY <2>1, <4>1, <4>2
    <3>2. CASE i = n + 1
      <4>1. one[i] = x
        BY <3>2, AppendProperties
      <4>2. two[i] = one[i]
        BY <1>1, <1>2, <1>3, <3>2, AppendProperties
      <4>3. two[i] # eol
        BY <4>1, <4>2 DEF eol
      <4> QED
        BY <2>2, <3>2, <4>3
    <3>3. CASE i = n + 2
      <4>1. i = Len(one) + 1
        BY <1>1, <1>2, <3>3
      <4>2. two[i] = eol
        BY <1>1, <1>2, <1>3, <4>1, AppendProperties
      <4> QED
        BY <2>2, <3>3, <4>2
    <3> QED
      BY <1>1, <3>1, <3>2, <3>3
  <2> QED
    BY <2>2, <2>3 DEF Paired, eol
<1> HIDE DEF n
<1>8. n = Len(s)
  BY DEF n
<1>9. Texts(one, Len(one)) = Texts(s, n) + add
  BY <1>2
<1>10. Texts(two, Len(two)) = Texts(s, n) + add
  BY <1>4, <1>5, <1>9
<1>11. \A i \in 0 .. n : Texts(one, i) = Texts(s, i) /\ Texts(two, i) = Texts(s, i)
  BY <1>2, <1>4, <1>6
<1> QED
  BY <1>7, <1>8, <1>9, <1>10, <1>11 DEF Grows

\* A step of the client that writes, while it runs.
LEMMA Writes ==
  ASSUME CaptureInv, CaptureTypes', UNCHANGED <<opts, decoder>>,
         stage' \notin {"last", "done", "failed"}, Len(output) <= Len(output'),
         opts.count > 0 => stats'.lines <= opts.count,
         Texts(Written', Len(Written')) <= stats'.lines,
         Texts(Written', decoder.at) = Texts(Written, decoder.at),
         ~spoilt' => ~spoilt /\ Texts(Written', Len(Written')) = stats'.lines /\ Paired(Written')
  PROVE  CaptureInv'
<1>1. opts' = opts /\ decoder' = decoder
  OBVIOUS
<1>2. decoder.at <= Len(output')
  <2>1. decoder.at \in Nat /\ decoder.at <= Len(output) /\ Len(output) \in Nat /\ Len(output') \in Nat
    BY DEF CaptureInv, CaptureTypes
  <2>2. Len(output) <= Len(output')
    OBVIOUS
  <2> QED
    BY ONLY <2>1, <2>2
<1>3. decoder.n <= Texts(Written', decoder.at) /\ decoder.decoded + decoder.skipped = decoder.n
  BY DEF CaptureInv
<1>4. ~spoilt' => decoder.n = Texts(Written', decoder.at) /\ decoder.at % 2 = 0
  BY DEF CaptureInv
<1> QED
  BY <1>1, <1>2, <1>3, <1>4 DEF CaptureInv

LEMMA ReadKeeps ==
  ASSUME CaptureInv, NEW got \in {"good", "bad", "comment", "blank", "oversized", "eof", "timeout", "endless"},
         Read(got)
  PROVE  CaptureInv'
<1> DEFINE add == IF Counted(got) THEN 1 ELSE 0
           kept == Counted(got) \/ (got = "comment" /\ opts.keep_comments)
           st == Put(Put(Fine(buffer, output), got), "eol")
           s == Written
<1>1. CaptureTypes /\ add \in Nat /\ add <= 1 /\ stage = "read" /\ ~reached_bound(stats.lines, clock)
  BY DEF CaptureInv, Read
<1>2. UNCHANGED <<opts, decoder>>
  BY DEF Read
<1>3. stats' \in [lines : Nat, sessions : Nat] /\ stats'.lines = stats.lines + add /\ stats.lines \in Nat
  <2>1. stats' = [stats EXCEPT !.lines = stats.lines + add]
    BY DEF Read
  <2> HIDE DEF add
  <2> QED
    BY <1>1, <2>1 DEF CaptureTypes
<1>4. stage' \in {"flush", "wait", "read", "write"}
  <2>1. stage' = "read" \/ stage' = "write" \/ \E error, gained : SessionEnds(error, gained)
    BY Zenon DEF Read
  <2> QED
    BY <1>1, <2>1, EndsSession
<1>5. IF kept THEN buffer' = st.buffer /\ output' = st.output /\ spoilt' = (spoilt \/ ~st.ok)
      ELSE UNCHANGED <<buffer, output, spoilt>>
  BY DEF Read, Fine
<1>6. opts.count > 0 => stats'.lines <= opts.count
  <2>1. opts.count \in Nat /\ (opts.count > 0 => ~(stats.lines >= opts.count))
    BY <1>1 DEF CaptureTypes, reached_bound
  <2> HIDE DEF add
  <2> QED
    BY <1>1, <1>3, <2>1
<1>7. buffer \in Seq(SinkPieces) /\ output \in Seq(SinkPieces) /\ s \in Seq(SinkPieces)
      /\ Len(s) \in Nat /\ decoder.at \in 0 .. Len(s) /\ Len(output) \in Nat
  <2>1. buffer \in Seq(SinkPieces) /\ output \in Seq(SinkPieces) /\ decoder.at \in Nat /\ decoder.at <= Len(output)
    BY <1>1 DEF CaptureTypes, CaptureInv
  <2>2. s \in Seq(SinkPieces) /\ Len(s) = Len(output) + Len(buffer)
    BY <2>1, ConcatProperties DEF Written
  <2>3. Len(output) \in Nat /\ Len(buffer) \in Nat
    BY <2>1
  <2> HIDE DEF s
  <2> QED
    BY <2>1, <2>2, <2>3
<1>8. Texts(s, Len(s)) <= stats.lines /\ Texts(s, Len(s)) \in Nat
      /\ (~spoilt => Texts(s, Len(s)) = stats.lines /\ Paired(s))
  BY <1>7, TextsNat DEF CaptureInv
<1>9. CASE ~kept
  <2>1. UNCHANGED <<buffer, output, spoilt>> /\ add = 0
    BY <1>5, <1>9
  <2>2. stats'.lines = stats.lines /\ stage' \notin {"last", "done", "failed"}
    BY <1>3, <1>4, <2>1
  <2>3. CaptureTypes'
    BY <1>1, <1>2, <1>3, <1>4, <2>1 DEF CaptureTypes, Stages
  <2> QED
    BY <1>2, <2>1, <2>2, <2>3, WritesNothing
<1>10. ASSUME NEW c \in Seq(SinkPieces), NEW u \in Seq(SinkPieces), Len(output) <= Len(u),
              buffer' = c, output' = u,
              NEW t, t = u \o c,
              Texts(t, Len(t)) <= stats'.lines,
              Texts(t, decoder.at) = Texts(s, decoder.at),
              ~spoilt' => ~spoilt /\ Texts(t, Len(t)) = stats'.lines /\ Paired(t)
       PROVE  CaptureInv'
  <2>1. CaptureTypes'
    BY <1>1, <1>2, <1>3, <1>4, <1>10 DEF CaptureTypes, Stages
  <2>2. Written' = t
    BY <1>10 DEF Written
  <2>3. stage' \notin {"last", "done", "failed"} /\ Len(output) <= Len(output')
    BY <1>4, <1>10
  <2>4. /\ Texts(Written', Len(Written')) <= stats'.lines
        /\ Texts(Written', decoder.at) = Texts(Written, decoder.at)
        /\ ~spoilt' => ~spoilt /\ Texts(Written', Len(Written')) = stats'.lines /\ Paired(Written')
    BY <1>10, <2>2
  <2> QED
    BY ONLY CaptureInv, <1>2, <1>6, <2>1, <2>3, <2>4, Writes
<1>11. CASE kept
  <2>1. got \in SinkPieces /\ got # "eol"
    BY <1>11 DEF Counted, SinkPieces
  <2>2. buffer' = st.buffer /\ output' = st.output /\ (~spoilt' => ~spoilt /\ st.ok)
    BY <1>5, <1>11, Zenon
  <2> DEFINE one == Append(s, got)
             two == Append(one, "eol")
  <2> HIDE DEF s, add, st, kept
  <2>3. /\ Texts(one, Len(one)) = Texts(s, Len(s)) + add /\ Texts(two, Len(two)) = Texts(s, Len(s)) + add
        /\ Texts(one, decoder.at) = Texts(s, decoder.at) /\ Texts(two, decoder.at) = Texts(s, decoder.at)
        /\ Paired(s) => Paired(two)
    <3>1. add = IF Counted(got) THEN 1 ELSE 0
      BY DEF add
    <3>2. one = Append(s, got) /\ two = Append(one, "eol") /\ s \in Seq(SinkPieces)
      BY <1>7
    <3> HIDE DEF one, two
    <3>3. Grows(s, one, two, add)
      BY ONLY <2>1, <3>1, <3>2, LineAppended
    <3> QED
      BY <1>7, <3>3 DEF Grows
  <2> HIDE DEF one, two
  <2>4. CASE st = Broken(buffer, output)
    <3>1. buffer' = buffer /\ output' = output /\ spoilt'
      <4>1. ~st.ok /\ st.buffer = buffer /\ st.output = output
        BY <2>4 DEF Broken
      <4> QED
        BY <2>2, <4>1
    <3>2. s = output \o buffer
      BY DEF s, Written
    <3>3. Texts(s, Len(s)) <= stats'.lines
      BY <1>1, <1>3, <1>8
    <3>4. Len(output) <= Len(output)
      BY <1>7
    <3> QED
      BY <1>7, <1>10, <3>1, <3>2, <3>3, <3>4
  <2>5. ASSUME NEW c \in Seq(SinkPieces), NEW u \in Seq(SinkPieces), Len(output) <= Len(u),
               st = Fine(c, u), u \o c = two
        PROVE  CaptureInv'
    <3>1. buffer' = c /\ output' = u
      BY <2>2, <2>5 DEF Fine
    <3>2. Texts(two, Len(two)) <= stats'.lines
      BY <1>1, <1>3, <1>8, <2>3
    <3>3. ~spoilt' => ~spoilt /\ Texts(two, Len(two)) = stats'.lines /\ Paired(two)
      BY <1>1, <1>3, <1>8, <2>2, <2>3
    <3> QED
      BY <1>10, <2>3, <2>5, <3>1, <3>2, <3>3
  <2>6. ASSUME NEW c \in Seq(SinkPieces), NEW u \in Seq(SinkPieces), Len(output) <= Len(u),
               st = Broken(c, u), u \o c = one
        PROVE  CaptureInv'
    <3>1. buffer' = c /\ output' = u /\ spoilt'
      <4>1. ~st.ok /\ st.buffer = c /\ st.output = u
        BY <2>6 DEF Broken
      <4> QED
        BY <2>2, <4>1
    <3>2. Texts(one, Len(one)) <= stats'.lines
      BY <1>1, <1>3, <1>8, <2>3
    <3> QED
      BY <1>10, <2>3, <2>6, <3>1, <3>2
  <2>7. \/ st = Broken(buffer, output)
        \/ \E c, u \in Seq(SinkPieces) :
             /\ Len(output) <= Len(u)
             /\ \/ st = Fine(c, u) /\ u \o c = two
                \/ st = Broken(c, u) /\ u \o c = one
    <3>1. st = Put(Put(Fine(buffer, output), got), "eol")
      BY DEF st
    <3>2. two = Append(Append(output \o buffer, got), "eol") /\ one = Append(output \o buffer, got)
      BY DEF one, two, s, Written
    <3>3. st = Broken(buffer, output) \/ PutsLine(st, buffer, output, got)
      BY <1>7, <2>1, <3>1, PutLine
    <3> QED
      BY <3>2, <3>3, Zenon DEF PutsLine
  <2> QED
    BY <2>4, <2>5, <2>6, <2>7, Zenon
<1> QED
  BY <1>9, <1>11

-----------------------------------------------------------------------------
(* Capture: the decoder                                                    *)

\* What the decoder has before it, and where its next line ends.
LEMMA RestProps ==
  ASSUME CaptureInv
  PROVE  /\ decoder.at \in Nat /\ Len(output) \in Nat /\ Len(Rest) \in Nat /\ Rest \in Seq(SinkPieces)
         /\ Len(Rest) = Len(output) - decoder.at
         /\ Len(output) <= Len(Written) /\ Len(Written) \in Nat
         /\ \A i \in 1 .. Len(Rest) : Rest[i] = Written[decoder.at + i]
         /\ buffer = <<>> => Len(Written) = Len(output)
<1> DEFINE at == decoder.at
           n == Len(output)
           w == Written
           r == Rest
<1>1. /\ output \in Seq(SinkPieces) /\ buffer \in Seq(SinkPieces) /\ at \in Nat /\ n \in Nat /\ at <= n
      /\ Len(buffer) \in Nat
  BY DEF CaptureInv, CaptureTypes
<1>2. /\ w \in Seq(SinkPieces) /\ Len(w) = n + Len(buffer)
      /\ \A i \in 1 .. n + Len(buffer) : i <= n => w[i] = output[i]
  BY <1>1, ConcatProperties DEF Written
<1>3. r \in Seq(SinkPieces)
  BY <1>1, SubSeqProperties DEF Rest
<1>4. Len(r) = n - at /\ \A i \in 1 .. n - at : r[i] = output[at + i]
  <2>1. r = SubSeq(output, at + 1, n)
    BY DEF Rest
  <2>2. \A i \in at + 1 .. n : i \in 1 .. Len(output)
    BY <1>1
  <2>3. Len(r) = IF at + 1 <= n THEN n - (at + 1) + 1 ELSE 0
    BY <1>1, <2>1, <2>2, SubSeqProperties
  <2>4. Len(r) = n - at
    BY <1>1, <2>3
  <2>5. ASSUME NEW i \in 1 .. n - at
        PROVE  r[i] = output[at + i]
    <3>1. i \in 1 .. (n - (at + 1) + 1)
      BY <1>1
    <3>2. r[i] = output[(at + 1) + i - 1]
      BY <1>1, <2>1, <2>2, <3>1, SubSeqProperties
    <3>3. (at + 1) + i - 1 = at + i
      BY <1>1
    <3> QED
      BY <3>2, <3>3
  <2> QED
    BY <2>4, <2>5
<1> HIDE DEF at, n, w, r
<1>5. \A i \in 1 .. Len(r) : r[i] = w[at + i]
  <2>1. ASSUME NEW i \in 1 .. Len(r)
        PROVE  r[i] = w[at + i]
    <3>1. at + i \in 1 .. n + Len(buffer) /\ at + i <= n /\ i \in 1 .. n - at
      BY <1>1, <1>4
    <3> QED
      BY <1>2, <1>4, <3>1
  <2> QED
    BY <2>1
<1>6. buffer = <<>> => Len(buffer) = 0
  BY EmptySeq
<1>7. Len(r) \in Nat /\ n <= Len(w) /\ Len(w) \in Nat /\ (buffer = <<>> => Len(w) = n)
  BY <1>1, <1>2, <1>4, <1>6
<1> QED
  BY <1>1, <1>3, <1>4, <1>5, <1>7 DEF at, n, w, r

LEMMA EolAtProps ==
  ASSUME CaptureInv
  PROVE  /\ EolAt \in Nat /\ 1 <= EolAt /\ EolAt <= Len(Rest) + 1
         /\ EolAt <= Len(Rest) => Rest[EolAt] = "eol"
         /\ \A i \in 1 .. Len(Rest) : Rest[i] = "eol" => EolAt <= i
<1> DEFINE n == Len(Rest)
           T == {n + 1} \cup {i \in DOMAIN Rest : Rest[i] = "eol"}
<1>1. n \in Nat /\ Rest \in Seq(SinkPieces) /\ DOMAIN Rest = 1 .. n
  BY RestProps
<1>2. T \subseteq Nat /\ T # {}
  BY <1>1
<1>3. EolAt \in T /\ \A y \in T : EolAt <= y
  <2>1. EolAt = CHOOSE x \in T : \A y \in T : x <= y
    BY DEF EolAt, Min
  <2> HIDE DEF T
  <2>2. \E x \in T : \A y \in T : x <= y
    BY <1>2, LeastOf
  <2> QED
    BY <2>1, <2>2
<1>4. EolAt \in Nat /\ EolAt <= n + 1
  BY <1>1, <1>2, <1>3
<1>5. 1 <= EolAt
  BY <1>1, <1>3
<1>6. EolAt <= n => Rest[EolAt] = "eol"
  BY <1>1, <1>3, <1>4
<1>7. \A i \in 1 .. n : Rest[i] = "eol" => EolAt <= i
  BY <1>1, <1>3
<1> QED
  BY <1>4, <1>5, <1>6, <1>7

\* Where the decoder is after the line.
LEMMA NextAt ==
  ASSUME CaptureInv, LineReady, NEW next, next = Min({decoder.at + EolAt, Len(output)})
  PROVE  /\ next \in Nat /\ decoder.at + 1 <= next /\ next <= Len(output)
         /\ EolAt <= Len(Rest) => next = decoder.at + EolAt
<1> DEFINE at == decoder.at
           n == Len(output)
           e == EolAt
           r == Len(Rest)
<1>1. at \in Nat /\ n \in Nat /\ r \in Nat /\ r = n - at /\ e \in Nat /\ 1 <= e /\ e <= r + 1
  BY RestProps, EolAtProps
<1>2. e <= r \/ r > 0
  <2>1. Rest # <<>> => r > 0
    BY RestProps
  <2> QED
    BY <2>1 DEF LineReady
<1>3. next = Min({at + e, n})
  OBVIOUS
<1> HIDE DEF at, n, e, r
<1>4. next = IF at + e <= n THEN at + e ELSE n
  <2>1. \A x, y \in Nat : Min({x, y}) = IF x <= y THEN x ELSE y
    <3>1. ASSUME NEW x \in Nat, NEW y \in Nat
          PROVE  Min({x, y}) = IF x <= y THEN x ELSE y
      <4>1. \E z \in {x, y} : \A v \in {x, y} : z <= v
        OBVIOUS
      <4>2. Min({x, y}) \in {x, y} /\ Min({x, y}) <= x /\ Min({x, y}) <= y
        BY <4>1 DEF Min
      <4> QED
        BY <4>2
    <3> QED
      BY <3>1
  <2> QED
    BY <1>1, <1>3, <2>1
<1>5. next \in Nat /\ at + 1 <= next /\ next <= n /\ (e <= r => next = at + e)
  BY <1>1, <1>2, <1>4
<1> QED
  BY <1>5 DEF at, n, e, r

\* While no write has failed, a line is a text and its end.
LEMMA LinePaired ==
  ASSUME CaptureInv, LineReady, ~spoilt
  PROVE  EolAt = 2 /\ EolAt <= Len(Rest) /\ Written[decoder.at + 2] = "eol"
<1> DEFINE at == decoder.at
           n == Len(output)
           e == EolAt
           r == Len(Rest)
           w == Written
           eol == "eol"
<1>1. /\ at \in Nat /\ n \in Nat /\ r \in Nat /\ r = n - at /\ e \in Nat /\ 1 <= e /\ e <= r + 1
      /\ n <= Len(w) /\ Len(w) \in Nat
  BY RestProps, EolAtProps
<1>2. Paired(Written) /\ at % 2 = 0
  BY DEF CaptureInv
<1>3. Len(w) % 2 = 0 /\ \A i \in 1 .. Len(w) : i % 2 = 0 <=> w[i] = eol
  BY <1>2 DEF Paired
<1>4. \A i \in 1 .. r : Rest[i] = w[at + i]
  BY RestProps
<1>5. (e <= r => Rest[e] = eol) /\ \A i \in 1 .. r : Rest[i] = eol => e <= i
  BY EolAtProps
<1>6. e <= r \/ (r > 0 /\ n = Len(w))
  <2>1. Rest # <<>> => r > 0
    BY RestProps
  <2>2. Ended => Len(Written) = Len(output)
    BY RestProps DEF CaptureInv, Ended
  <2> QED
    BY <2>1, <2>2 DEF LineReady
<1> HIDE DEF at, n, e, r, w, eol
<1>7. r >= 1
  BY <1>1, <1>6
<1>8. e # 1
  <2>1. SUFFICES ASSUME e = 1 PROVE FALSE
    OBVIOUS
  <2>2. Rest[1] = eol /\ 1 \in 1 .. r
    BY <1>1, <1>5, <1>7, <2>1
  <2>3. w[at + 1] = eol /\ at + 1 \in 1 .. Len(w)
    BY <1>1, <1>4, <1>7, <2>2
  <2>4. (at + 1) % 2 = 0
    BY <1>3, <2>3
  <2> QED
    BY <1>1, <1>2, <2>4 DEF at
<1>9. r >= 2
  <2>1. CASE e <= r
    BY <1>1, <1>8, <2>1
  <2>2. CASE r > 0 /\ n = Len(w)
    <3>1. n % 2 = 0 /\ at % 2 = 0
      BY <1>2, <1>3, <2>2 DEF at
    <3>2. r # 1
      BY <1>1, <3>1
    <3> QED
      BY <1>1, <2>2, <3>2
  <2> QED
    BY <1>6, <2>1, <2>2
<1>10. w[at + 2] = eol /\ Rest[2] = eol
  <2>1. at + 2 \in 1 .. Len(w) /\ 2 \in 1 .. r
    BY <1>1, <1>9
  <2>2. (at + 2) % 2 = 0
    <3>1. at % 2 = 0
      BY <1>2 DEF at
    <3> QED
      BY <1>1, <3>1
  <2> QED
    BY <1>3, <1>4, <2>1, <2>2
<1>11. e <= 2
  <2>1. 2 \in 1 .. r
    BY <1>1, <1>9
  <2> QED
    BY <1>5, <1>10, <2>1
<1>12. e = 2 /\ e <= r
  BY <1>1, <1>8, <1>9, <1>11
<1> QED
  BY <1>10, <1>12 DEF at, e, r, w, eol

LEMMA DecodeKeeps ==
  ASSUME CaptureInv, Decode
  PROVE  CaptureInv'
<1> DEFINE at == decoder.at
           text == SubSeq(Rest, 1, EolAt - 1)
           to == Min({at + EolAt, Len(output)})
           counts == text # <<>> /\ text[1] # "comment"
           k == IF counts THEN 1 ELSE 0
           w == Written
           Decoders == [at : Nat, n : Nat, decoded : Nat, skipped : Nat, running : BOOLEAN]
<1>1. CaptureTypes /\ LineReady /\ UNCHANGED <<opts, stage, stats, buffer, output, spoilt>>
  BY DEF CaptureInv, Decode
<1>2. decoder \in Decoders
  BY <1>1 DEF CaptureTypes
<1>3. to \in Nat /\ at + 1 <= to /\ to <= Len(output) /\ (EolAt <= Len(Rest) => to = at + EolAt)
  BY <1>1, NextAt
<1>4. /\ decoder' \in Decoders
      /\ decoder'.at = to /\ decoder'.n = decoder.n + k
      /\ decoder'.decoded + decoder'.skipped = decoder.decoded + decoder.skipped + k
  <2> DEFINE next == [decoder EXCEPT !.at = to]
             good == IF text[1] = "good" THEN 1 ELSE 0
             bad == IF text[1] = "good" THEN 0 ELSE 1
  <2>1. decoder' = IF ~counts THEN next
                   ELSE [next EXCEPT !.n = @ + 1, !.decoded = @ + good, !.skipped = @ + bad]
    BY DEF Decode
  <2>2. good \in Nat /\ bad \in Nat /\ good + bad = 1
    <3> HIDE DEF text
    <3>1. CASE text[1] = "good"
      BY <3>1
    <3>2. CASE text[1] # "good"
      BY <3>2
    <3> QED
      BY <3>1, <3>2
  <2> HIDE DEF counts, good, bad, to
  <2>3. next \in Decoders /\ next.at = to /\ next.n = decoder.n
        /\ next.decoded = decoder.decoded /\ next.skipped = decoder.skipped
    BY <1>2, <1>3
  <2> HIDE DEF next
  <2>4. CASE ~counts
    <3>1. decoder' = next /\ k = 0
      BY <2>1, <2>4
    <3> QED
      BY <1>2, <2>3, <3>1
  <2>5. CASE counts
    <3> DEFINE a == next.n + 1
               b == next.decoded + good
               c == next.skipped + bad
    <3>1. decoder' = [next EXCEPT !.n = a, !.decoded = b, !.skipped = c] /\ k = 1
      BY <2>1, <2>5
    <3>2. a \in Nat /\ b \in Nat /\ c \in Nat /\ b + c = next.decoded + next.skipped + 1
      BY <2>2, <2>3
    <3>3. a = decoder.n + 1 /\ b + c = decoder.decoded + decoder.skipped + 1
      BY <2>3, <3>2
    <3> HIDE DEF a, b, c
    <3>4. decoder' \in Decoders /\ decoder'.at = next.at /\ decoder'.n = a
          /\ decoder'.decoded = b /\ decoder'.skipped = c
      BY <2>3, <3>1, <3>2
    <3> QED
      BY <2>3, <3>1, <3>3, <3>4
  <2> QED
    BY <2>4, <2>5
<1>5. /\ at \in Nat /\ Len(output) \in Nat /\ Len(Rest) \in Nat /\ Rest \in Seq(SinkPieces)
      /\ Len(Rest) = Len(output) - at
      /\ \A i \in 1 .. Len(Rest) : Rest[i] = w[at + i]
  BY RestProps
<1>6. Len(Rest) >= 1
  BY <1>3, <1>5
<1>7. EolAt \in Nat /\ 1 <= EolAt /\ EolAt <= Len(Rest) + 1
      /\ \A i \in 1 .. Len(Rest) : Rest[i] = "eol" => EolAt <= i
  BY EolAtProps
<1>8. w[at + 1] \in SinkPieces /\ Rest[1] = w[at + 1]
  <2>1. 1 \in 1 .. Len(Rest)
    BY <1>5, <1>6
  <2>2. Rest[1] \in SinkPieces
    BY <1>5, <2>1
  <2> QED
    BY <1>5, <2>1, <2>2
<1>9. EolAt > 1 => text # <<>> /\ text[1] = w[at + 1] /\ w[at + 1] # "eol"
  <2>1. SUFFICES ASSUME EolAt > 1 PROVE text # <<>> /\ text[1] = w[at + 1] /\ w[at + 1] # "eol"
    OBVIOUS
  <2> DEFINE e == EolAt - 1
  <2>2. e \in Nat /\ 1 <= e /\ e <= Len(Rest)
    BY <1>5, <1>7, <2>1
  <2> HIDE DEF e
  <2>3. Len(SubSeq(Rest, 1, e)) = e /\ SubSeq(Rest, 1, e)[1] = Rest[1]
    BY <1>5, <2>2, SubSeqProperties
  <2>4. text = SubSeq(Rest, 1, e)
    BY DEF e
  <2>5. text # <<>>
    <3>1. Len(text) = e
      BY <2>3, <2>4
    <3>2. Len(<<>>) = 0
      BY EmptySeq
    <3> HIDE DEF text
    <3>3. text = <<>> => e = 0
      BY <3>1, <3>2, Zenon
    <3> QED
      BY <2>2, <3>3
  <2>6. Rest[1] # "eol"
    BY <1>5, <1>6, <1>7, <2>1
  <2> QED
    BY <1>8, <2>3, <2>4, <2>5, <2>6
<1>10. EolAt = 1 => text = <<>>
  <2>1. SUFFICES ASSUME EolAt = 1 PROVE text = <<>>
    OBVIOUS
  <2>2. SubSeq(Rest, 1, 0) = <<>>
    BY <1>5, SubSeqProperties, EmptySeq
  <2>3. EolAt - 1 = 0
    BY <2>1
  <2> QED
    BY <2>2, <2>3
<1>11. counts => Counted(w[at + 1])
  <2>1. counts => EolAt > 1
    BY <1>7, <1>10
  <2> HIDE DEF text, w
  <2> QED
    BY <1>8, <1>9, <2>1 DEF SinkPieces, Counted
<1>12. EolAt > 1 => (counts <=> Counted(w[at + 1]))
  <2> HIDE DEF text, w
  <2> QED
    BY <1>9, <1>11 DEF Counted
<1> HIDE DEF counts, text, to, w, Decoders
<1>13. Texts(w, at + 1) = Texts(w, at) + (IF Counted(w[at + 1]) THEN 1 ELSE 0) /\ Texts(w, at) \in Nat
  BY <1>5, TextsNext, TextsNat
<1>14. Texts(w, at + 1) <= Texts(w, to) /\ Texts(w, to) \in Nat /\ Texts(w, at + 1) \in Nat
  <2>1. at + 1 \in Nat
    BY <1>5
  <2> QED
    BY <1>3, <2>1, TextsGrow, TextsNat
<1>15. decoder.n \in Nat /\ decoder.n <= Texts(w, at) /\ decoder.decoded + decoder.skipped = decoder.n
  BY <1>2 DEF CaptureInv, Decoders, w
<1>16. decoder'.n <= Texts(w, to)
  <2>1. k \in Nat /\ k <= (IF Counted(w[at + 1]) THEN 1 ELSE 0)
    BY <1>11
  <2> QED
    BY <1>4, <1>13, <1>14, <1>15, <2>1
<1>17. decoder'.decoded + decoder'.skipped = decoder'.n
  BY <1>4, <1>15
<1>18. ASSUME ~spoilt
       PROVE  decoder'.n = Texts(w, to) /\ to % 2 = 0
  <2>1. EolAt = 2 /\ to = at + 2 /\ w[at + 2] = "eol" /\ at % 2 = 0 /\ decoder.n = Texts(w, at)
    BY <1>1, <1>3, <1>18, LinePaired DEF CaptureInv, w
  <2>2. k = IF Counted(w[at + 1]) THEN 1 ELSE 0
    BY <1>12, <2>1
  <2>3. Texts(w, at + 2) = Texts(w, at + 1)
    <3> DEFINE j == at + 1
    <3>1. j \in Nat /\ j + 1 = at + 2 /\ ~Counted(w[j + 1])
      BY <1>5, <2>1 DEF Counted
    <3> HIDE DEF j
    <3>2. Texts(w, j + 1) = Texts(w, j) + 0 /\ Texts(w, j) \in Nat
      BY <3>1, TextsNext, TextsNat
    <3>3. Texts(w, j + 1) = Texts(w, j)
      BY <3>2
    <3> QED
      BY <3>1, <3>3 DEF j
  <2>4. (at + 2) % 2 = 0
    BY <1>5, <2>1
  <2>5. Texts(w, to) = Texts(w, at) + k
    BY <1>13, <2>1, <2>2, <2>3
  <2> QED
    BY <1>4, <2>1, <2>4, <2>5
<1>19. Written' = w
  BY <1>1 DEF Written, w
<1>20. CaptureTypes'
  BY <1>1, <1>4 DEF CaptureTypes, Decoders
<1>21. /\ opts' = opts /\ stage' = stage /\ stats' = stats /\ buffer' = buffer /\ output' = output
       /\ spoilt' = spoilt
  BY <1>1
<1>22. decoder'.at = to /\ to <= Len(output)
  BY <1>3, <1>4
<1> HIDE DEF k, at
<1>23. /\ decoder'.at <= Len(output') /\ decoder'.n <= Texts(Written', decoder'.at)
       /\ ~spoilt' => decoder'.n = Texts(Written', decoder'.at) /\ decoder'.at % 2 = 0
  BY <1>16, <1>18, <1>19, <1>21, <1>22
<1>24. /\ Texts(w, Len(w)) <= stats.lines
       /\ ~spoilt => Texts(w, Len(w)) = stats.lines /\ Paired(w)
  BY DEF CaptureInv, w
<1>25. /\ stage \in {"last", "done"} => buffer = <<>>
       /\ stage = "failed" => spoilt
       /\ opts.count > 0 => stats.lines <= opts.count
  BY DEF CaptureInv
<1> QED
  BY <1>17, <1>19, <1>20, <1>21, <1>23, <1>24, <1>25 DEF CaptureInv

LEMMA CaptureStep ==
  ASSUME CaptureInv, [CaptureNext]_captureVars
  PROVE  CaptureInv'
<1>1. CASE ReadLine
  BY <1>1, ReadKeeps DEF ReadLine
<1>2. CASE ReadFails
  BY <1>2, ReadKeeps DEF ReadFails
<1> QED
  BY <1>1, <1>2, QuietKeeps, FlushKeeps, WriteReturnsKeeps, DecodeKeeps DEF CaptureNext, Client

THEOREM CaptureInvariant == CaptureSpec => []CaptureInv
<1>1. CaptureInv /\ [CaptureNext]_captureVars => CaptureInv'
  BY CaptureStep
<1> QED
  BY <1>1, CaptureInitial, PTL DEF CaptureSpec

\* However the server, the sink and the decoder behave, the decoder never
\* counts more packets than the client, the client keeps to --count, and once
\* all has been written and read the two counts agree: run_session of
\* aprsis.rs and decode_tnc2 of decode.rs.
THEOREM LineForLineCorrect == CaptureSpec => []LineForLine
<1>1. ASSUME CaptureInv PROVE LineForLine
  <2> DEFINE at == decoder.at
  <2>1. /\ at \in Nat /\ Len(output) \in Nat /\ Len(Rest) \in Nat /\ Len(Rest) = Len(output) - at
        /\ Len(output) <= Len(Written) /\ Len(Written) \in Nat
        /\ buffer = <<>> => Len(Written) = Len(output)
    BY <1>1, RestProps
  <2>2. decoder.n <= stats.lines
    <3>1. decoder.n \in Nat /\ stats.lines \in Nat /\ decoder.n <= Texts(Written, at)
          /\ Texts(Written, Len(Written)) <= stats.lines
      BY <1>1 DEF CaptureInv, CaptureTypes
    <3>2. at <= Len(Written)
      BY <1>1, <2>1 DEF CaptureInv
    <3> HIDE DEF at
    <3>3. Texts(Written, at) <= Texts(Written, Len(Written))
          /\ Texts(Written, at) \in Nat /\ Texts(Written, Len(Written)) \in Nat
      BY <2>1, <3>2, TextsGrow, TextsNat
    <3> QED
      BY <3>1, <3>3
  <2>3. ASSUME stage = "done", ~spoilt, ~LineReady
        PROVE  decoder.n = stats.lines
    <3>1. buffer = <<>>
      BY <1>1, <2>3 DEF CaptureInv
    <3>2. Rest = <<>>
      <4>1. EolAt <= Len(Rest) => LineReady
        BY Zenon DEF LineReady
      <4>2. Ended
        BY <2>3 DEF Ended
      <4> QED
        BY <2>3, <4>1, <4>2 DEF LineReady
    <3>3. at = Len(Written)
      <4>1. Len(Rest) = 0
        BY <3>2, EmptySeq
      <4> QED
        BY <2>1, <3>1, <4>1
    <3> QED
      BY <1>1, <2>3, <3>3 DEF CaptureInv
  <2>4. /\ decoder.decoded + decoder.skipped = decoder.n
        /\ opts.count > 0 => stats.lines <= opts.count
    BY <1>1 DEF CaptureInv
  <2> QED
    BY <2>2, <2>3, <2>4 DEF LineForLine
<1> QED
  BY <1>1, CaptureInvariant, PTL

-----------------------------------------------------------------------------
(* Capture: the back-off                                                   *)

\* The wait after k waits since a session brought a packet.
WaitAfter(k) == IF k < 6 THEN <<5, 10, 20, 40, 80, 160>>[k + 1] ELSE 300

\* There have been k waits since then, and one session between two of them.
Patient(k) ==
  /\ waited = Schedule(k) /\ backoff = WaitAfter(k)
  /\ barren <= IF stage = "wait" THEN k + 1 ELSE k

BackoffInv == /\ stage \in Stages /\ barren \in Nat
              /\ \E k \in Nat : stage \notin {"flush", "last", "done", "failed"} => Patient(k)

LEMMA ScheduleNext ==
  ASSUME NEW k \in Nat
  PROVE  /\ Schedule(k) \in Nat /\ WaitAfter(k) \in Nat
         /\ Schedule(k + 1) = Schedule(k) + WaitAfter(k)
         /\ WaitAfter(k + 1) = Min({2 * WaitAfter(k), BACKOFF_MAX})
<1>1. \A x, y \in Nat : Min({x, y}) = IF x <= y THEN x ELSE y
  <2>1. ASSUME NEW x \in Nat, NEW y \in Nat
        PROVE  Min({x, y}) = IF x <= y THEN x ELSE y
    <3>1. \E z \in {x, y} : \A v \in {x, y} : z <= v
      OBVIOUS
    <3>2. Min({x, y}) \in {x, y} /\ Min({x, y}) <= x /\ Min({x, y}) <= y
      BY <3>1 DEF Min
    <3> QED
      BY <3>2
  <2> QED
    BY <2>1
<1>2. WaitAfter(k) \in Nat /\ WaitAfter(k + 1) = IF 2 * WaitAfter(k) <= 300 THEN 2 * WaitAfter(k) ELSE 300
  <2>1. k = 0 \/ k = 1 \/ k = 2 \/ k = 3 \/ k = 4 \/ k = 5 \/ k >= 6
    OBVIOUS
  <2> QED
    BY <2>1 DEF WaitAfter
<1>3. Schedule(k) \in Nat /\ Schedule(k + 1) = Schedule(k) + WaitAfter(k)
  <2>1. k = 0 \/ k = 1 \/ k = 2 \/ k = 3 \/ k = 4 \/ k = 5 \/ k >= 6
    OBVIOUS
  <2> QED
    BY <2>1 DEF WaitAfter, Schedule
<1>4. 2 * WaitAfter(k) \in Nat /\ 300 \in Nat
  BY <1>2
<1> QED
  BY <1>1, <1>2, <1>3, <1>4 DEF BACKOFF_MAX

\* More waits take longer.
LEMMA ScheduleGrows ==
  ASSUME NEW j \in Nat, NEW k \in Nat, j <= k
  PROVE  Schedule(j) <= Schedule(k)
<1>1. j = 0 \/ j = 1 \/ j = 2 \/ j = 3 \/ j = 4 \/ j = 5 \/ j >= 6
  OBVIOUS
<1>2. k = 0 \/ k = 1 \/ k = 2 \/ k = 3 \/ k = 4 \/ k = 5 \/ k >= 6
  OBVIOUS
<1> QED
  BY <1>1, <1>2 DEF Schedule

\* The end of a session, with or without a packet.
LEMMA EndsPatient ==
  ASSUME BackoffInv, stage \in {"connect", "read", "write"}, NEW error, NEW gained, SessionEnds(error, gained)
  PROVE  BackoffInv'
<1>1. PICK k \in Nat : Patient(k)
  BY DEF BackoffInv
<1>2. CASE stage' = "flush" /\ UNCHANGED <<backoff, waited, barren>>
  BY <1>2 DEF BackoffInv, Stages
<1>3. CASE stage' = "wait" /\ gained /\ backoff' = BACKOFF_START /\ waited' = 0 /\ barren' = 0
  <2>1. WaitAfter(0) = 5 /\ Schedule(0) = 0
    BY DEF WaitAfter, Schedule
  <2>2. Patient(0)'
    BY <1>3, <2>1 DEF Patient, BACKOFF_START
  <2> QED
    BY <1>3, <2>2 DEF BackoffInv, Stages
<1>4. CASE stage' = "wait" /\ ~gained /\ backoff' = backoff /\ waited' = waited /\ barren' = barren + 1
  <2>1. barren \in Nat /\ barren <= k
    BY <1>1 DEF BackoffInv, Patient
  <2>2. barren' \in Nat /\ barren' <= k + 1
    BY <1>4, <2>1
  <2>3. Patient(k)'
    BY <1>1, <1>4, <2>2 DEF Patient
  <2> QED
    BY <1>4, <2>2, <2>3 DEF BackoffInv, Stages
<1> QED
  BY <1>2, <1>3, <1>4 DEF SessionEnds

LEMMA BackoffStep ==
  ASSUME BackoffInv, [CaptureNext]_captureVars
  PROVE  BackoffInv'
<1>1. CASE Wait
  <2>1. PICK k \in Nat : Patient(k)
    BY <1>1 DEF BackoffInv, Wait
  <2>2. /\ stage = "wait" /\ stage' = "connect" /\ waited' = waited + backoff
        /\ backoff' = Min({2 * backoff, BACKOFF_MAX}) /\ barren' = barren
    BY <1>1 DEF Wait
  <2>3. waited' = Schedule(k + 1) /\ backoff' = WaitAfter(k + 1)
    BY <2>1, <2>2, ScheduleNext DEF Patient
  <2>4. barren' <= k + 1 /\ k + 1 \in Nat
    BY <2>1, <2>2 DEF Patient
  <2> DEFINE m == k + 1
  <2>5. Patient(m)'
    BY <2>2, <2>3, <2>4 DEF Patient
  <2> HIDE DEF m
  <2>6. m \in Nat
    BY <2>4 DEF m
  <2> QED
    BY <2>2, <2>5, <2>6 DEF BackoffInv, Stages
<1>2. CASE Connect
  <2>1. stage = "connect"
    BY <1>2 DEF Connect
  <2>2. CASE stage' = "read" /\ UNCHANGED <<backoff, waited, barren>>
    BY <2>1, <2>2 DEF BackoffInv, Patient, Stages
  <2>3. CASE \E error : SessionEnds(error, FALSE)
    BY <2>1, <2>3, EndsPatient
  <2> QED
    BY <1>2, <2>2, <2>3 DEF Connect
<1>3. ASSUME NEW got, Read(got)
      PROVE  BackoffInv'
  <2>1. stage = "read" /\ \/ stage' \in {"read", "write"} /\ UNCHANGED <<backoff, waited, barren>>
                          \/ \E error, gained : SessionEnds(error, gained)
    BY <1>3, Zenon DEF Read
  <2>2. CASE stage' \in {"read", "write"} /\ UNCHANGED <<backoff, waited, barren>>
    BY <2>1, <2>2 DEF BackoffInv, Patient, Stages
  <2>3. CASE \E error, gained : SessionEnds(error, gained)
    BY <2>1, <2>3, EndsPatient
  <2> QED
    BY <2>1, <2>2, <2>3
<1>4. CASE Finish
  BY <1>4, EndsPatient DEF Finish
<1>5. CASE Flush
  <2>1. stage' \in {"last", "done", "failed"} /\ UNCHANGED <<backoff, waited, barren>>
    BY <1>5 DEF Flush
  <2> QED
    BY <2>1 DEF BackoffInv, Stages
<1>7. CASE WriteReturns
  <2>1. stage \in {"write", "last"}
    BY <1>7 DEF WriteReturns
  <2>2. CASE stage' = (IF stage = "write" THEN "read" ELSE "done") /\ UNCHANGED <<backoff, waited, barren>>
    BY <2>1, <2>2 DEF BackoffInv, Patient, Stages
  <2>3. CASE stage = "write" /\ \E error, gained : SessionEnds(error, gained)
    BY <2>3, EndsPatient
  <2>4. CASE stage' = "failed" /\ UNCHANGED <<backoff, waited, barren>>
    BY <2>4 DEF BackoffInv, Stages
  <2> QED
    BY <1>7, <2>2, <2>3, <2>4, Zenon DEF WriteReturns
<1>6. CASE Quiet \/ Disk \/ Decode \/ DecoderFails \/ UNCHANGED captureVars
  <2>1. UNCHANGED <<stage, backoff, waited, barren>>
    BY <1>6 DEF Quiet, Disk, Decode, DecoderFails, captureVars
  <2> QED
    BY <2>1 DEF BackoffInv, Patient
<1> QED
  BY <1>1, <1>2, <1>3, <1>4, <1>5, <1>6, <1>7 DEF CaptureNext, Client, ReadLine, ReadFails

\* However sessions fail, the client opens the k-th in a row that brings nothing
\* only after the first k waits of the back-off: the loop of aprsis.
THEOREM CourtesyCorrect == CaptureSpec => []Courtesy
<1>1. CaptureInit => BackoffInv
  <2> SUFFICES ASSUME CaptureInit PROVE BackoffInv
    OBVIOUS
  <2>1. WaitAfter(0) = 5 /\ Schedule(0) = 0
    BY DEF WaitAfter, Schedule
  <2>2. Patient(0)
    BY <2>1 DEF CaptureInit, Patient, BACKOFF_START
  <2> QED
    BY <2>2 DEF CaptureInit, BackoffInv, Stages
<1>2. BackoffInv /\ [CaptureNext]_captureVars => BackoffInv'
  BY BackoffStep
<1>3. ASSUME BackoffInv PROVE Courtesy
  <2>1. SUFFICES ASSUME stage = "connect" PROVE waited >= Schedule(barren)
    BY DEF Courtesy
  <2>2. PICK k \in Nat : Patient(k)
    BY <1>3, <2>1 DEF BackoffInv
  <2>3. barren \in Nat /\ barren <= k /\ waited = Schedule(k)
    BY <1>3, <2>1, <2>2 DEF BackoffInv, Patient
  <2>4. Schedule(barren) <= Schedule(k)
    BY <2>3, ScheduleGrows
  <2> QED
    BY <2>3, <2>4
<1> QED
  BY <1>1, <1>2, <1>3, PTL DEF CaptureSpec

-----------------------------------------------------------------------------
USE TimesAssumption, AudioAssumption, CommandsAssumption

-----------------------------------------------------------------------------
(* Keying: the invariants                                                  *)

PlaceNames == {"start", "opened", "assert", "lead", "hold", "wait", "play", "played", "tail",
               "drop", "done"}

\* Every variable has its type, and each place belongs to one command.
TypeOK ==
  /\ args \in CommandLine
  /\ pc \in PlaceNames
  /\ sleep \in Nat /\ elapsed \in Nat
  /\ lines \in [LineNames -> BOOLEAN]
  /\ child \in {"none", "running", "ok", "failed", "killed"}
  /\ stream \in {"none", "playing", "dropped"}
  /\ position \in Nat /\ played \in Nat
  /\ done \in BOOLEAN /\ failed \in BOOLEAN /\ erring \in BOOLEAN
  /\ result \in {"none", "ok", "err"}

\* The latest tick at which each place of the program can end its sleep.
PlayLimit == Greater(args.max, args.lead)
Deadline ==
  CASE pc \in {"start", "opened", "assert"} -> 0
    [] pc = "lead" -> args.lead
    [] pc = "hold" -> PlayLimit
    [] pc \in {"wait", "play", "played"} -> PlayLimit + Poll
    [] pc \in {"tail", "drop", "done"} -> Longest

\* A sleep never lasts past the deadline of its place.
OnTime == elapsed + sleep <= Deadline

\* What the audio callbacks leave behind.  A device never holds more than its
\* buffer, done means every frame was asked for unless an error said so, and
\* a transmit that got past that check has put every sample on the air.
AudioSound ==
  /\ played <= position /\ position <= played + DeviceBuffer
  /\ erring => failed
  /\ done => failed \/ position >= Total
  /\ pc \in {"hold", "wait"} => args.cmd = "ptt"
  /\ pc = "played" => done /\ stream = "dropped"
  /\ pc \notin {"drop", "done"} => result = "none"
  /\ args.cmd = "transmit" /\ args.drain >= DeviceBuffer /\ (pc = "tail" \/ result = "ok")
       => played >= Samples

KeyingInv == TypeOK /\ OnTime /\ AudioSound /\ KeyedOnlyWhenHeld
-----------------------------------------------------------------------------
(* They hold in every state                                                *)

\* The fields of a command line, one by one, as the provers need them.
LEMMA ArgTypes ==
  ASSUME args \in CommandLine
  PROVE  /\ args.cmd \in {"ptt", "transmit"}
         /\ args.lead \in Nat /\ args.tail \in Nat /\ args.max \in Nat
         /\ args.hold \in Nat /\ args.drain \in Nat
         /\ args.signal \in LineNames /\ args.invert \in BOOLEAN /\ args.port \in BOOLEAN
BY DEF CommandLine

\* A command that has not opened its port satisfies the invariant.
LEMMA InitInv == KeyingInit => KeyingInv
<1> SUFFICES ASSUME KeyingInit PROVE KeyingInv
  OBVIOUS
<1>1. args \in CommandLine
  BY DEF KeyingInit
<1>2. TypeOK
  BY <1>1, ArgTypes DEF KeyingInit, TypeOK, PlaceNames
<1>3. OnTime
  BY DEF KeyingInit, OnTime, Deadline
<1>4. AudioSound
  BY DEF KeyingInit, AudioSound
<1>5. KeyedOnlyWhenHeld
  BY <1>1, ArgTypes DEF KeyingInit, KeyedOnlyWhenHeld, KeyedBy
<1> QED
  BY <1>2, <1>3, <1>4, <1>5 DEF KeyingInv

\* Every step of the command, the player, the device and the clock keeps the
\* types.
LEMMA StepTypes == KeyingInv /\ [KeyingNext]_keyingVars => TypeOK'
<1> SUFFICES ASSUME KeyingInv, [KeyingNext]_keyingVars PROVE TypeOK'
  OBVIOUS
<1> USE ArgTypes DEF KeyingInv, TypeOK, PlaceNames, keyingVars, audioVars, Awake, Goes, Leaves,
      Lesser, Greater
<1>1. CASE Reject
  BY <1>1 DEF Reject
<1>2. CASE OpenFails
  BY <1>2 DEF OpenFails
<1>3. CASE Open
  BY <1>3 DEF Open
<1>4. CASE OpenPort
  BY <1>4 DEF OpenPort
<1>5. CASE AssertLine
  BY <1>5 DEF AssertLine
<1>6. CASE PlayUnkeyed
  BY <1>6 DEF PlayUnkeyed
<1>7. CASE Drop
  BY <1>7 DEF Drop
<1>8. CASE Hold
  BY <1>8 DEF Hold
<1>9. CASE HoldEnds
  BY <1>9 DEF HoldEnds
<1>10. CASE Spawn
  BY <1>10 DEF Spawn
<1>11. CASE PlayerGone
  BY <1>11 DEF PlayerGone
<1>12. CASE PlayerRuns
  BY <1>12 DEF PlayerRuns
<1>13. CASE StartPlayback
  BY <1>13 DEF StartPlayback
<1>14. CASE Playing
  BY <1>14 DEF Playing
<1>15. CASE PlaybackDone
  BY <1>15 DEF PlaybackDone
<1>16. CASE AfterPlayback
  BY <1>16 DEF AfterPlayback
<1>17. CASE TailEnds
  BY <1>17 DEF TailEnds
<1>18. CASE PlayerExits
  BY <1>18 DEF PlayerExits
<1>19. CASE DevicePlays
  BY <1>19 DEF DevicePlays
<1>20. CASE ErrorFailed
  BY <1>20 DEF ErrorFailed
<1>21. CASE ErrorDone
  BY <1>21 DEF ErrorDone
<1>22. CASE Tick
  BY <1>22 DEF Tick
<1>23. ASSUME NEW n \in 1 .. Callback, Fill(n) PROVE TypeOK'
  BY <1>23 DEF Fill
<1>24. CASE UNCHANGED keyingVars
  BY <1>24
<1> QED
  BY <1>1, <1>2, <1>3, <1>4, <1>5, <1>6, <1>7, <1>8, <1>9, <1>10, <1>11, <1>12, <1>13, <1>14, <1>15, <1>16, <1>17, <1>18, <1>19, <1>20, <1>21, <1>22, <1>23, <1>24 DEF KeyingNext, Thread, Surroundings, Returned

\* Every step keeps the sleep within the deadline of its place: a step that
\* moves on starts a sleep no longer than what its new place allows.
LEMMA StepOnTime == KeyingInv /\ [KeyingNext]_keyingVars => OnTime'
<1> SUFFICES ASSUME KeyingInv, [KeyingNext]_keyingVars PROVE OnTime'
  OBVIOUS
<1> USE ArgTypes DEF KeyingInv, TypeOK, PlaceNames, keyingVars, audioVars, Awake, Goes, Leaves,
      Lesser, Greater, OnTime, Deadline, PlayLimit, Longest, ElapsedCap
<1>1. CASE Reject
  BY <1>1 DEF Reject
<1>2. CASE OpenFails
  BY <1>2 DEF OpenFails
<1>3. CASE Open
  BY <1>3 DEF Open
<1>4. CASE OpenPort
  BY <1>4 DEF OpenPort
<1>5. CASE AssertLine
  BY <1>5 DEF AssertLine
<1>6. CASE PlayUnkeyed
  BY <1>6 DEF PlayUnkeyed
<1>7. CASE Drop
  BY <1>7 DEF Drop
<1>8. CASE Hold
  BY <1>8 DEF Hold
<1>9. CASE HoldEnds
  BY <1>9 DEF HoldEnds
<1>10. CASE Spawn
  BY <1>10 DEF Spawn
<1>11. CASE PlayerGone
  BY <1>11 DEF PlayerGone
<1>12. CASE PlayerRuns
  BY <1>12 DEF PlayerRuns
<1>13. CASE StartPlayback
  BY <1>13 DEF StartPlayback
<1>14. CASE Playing
  BY <1>14 DEF Playing
<1>15. CASE PlaybackDone
  BY <1>15 DEF PlaybackDone
<1>16. CASE AfterPlayback
  BY <1>16 DEF AfterPlayback
<1>17. CASE TailEnds
  BY <1>17 DEF TailEnds
<1>18. CASE PlayerExits
  BY <1>18 DEF PlayerExits
<1>19. CASE DevicePlays
  BY <1>19 DEF DevicePlays
<1>20. CASE ErrorFailed
  BY <1>20 DEF ErrorFailed
<1>21. CASE ErrorDone
  BY <1>21 DEF ErrorDone
<1>22. CASE Tick
  BY <1>22 DEF Tick
<1>23. ASSUME NEW n \in 1 .. Callback, Fill(n) PROVE OnTime'
  BY <1>23 DEF Fill
<1>24. CASE UNCHANGED keyingVars
  BY <1>24
<1> QED
  BY <1>1, <1>2, <1>3, <1>4, <1>5, <1>6, <1>7, <1>8, <1>9, <1>10, <1>11, <1>12, <1>13, <1>14, <1>15, <1>16, <1>17, <1>18, <1>19, <1>20, <1>21, <1>22, <1>23, <1>24 DEF KeyingNext, Thread, Surroundings, Returned

\* Every step keeps what the audio callbacks promise each other: the flags, the
\* frames asked for and the frames heard.
LEMMA StepAudio == KeyingInv /\ [KeyingNext]_keyingVars => AudioSound'
<1> SUFFICES ASSUME KeyingInv, [KeyingNext]_keyingVars PROVE AudioSound'
  OBVIOUS
<1> USE ArgTypes DEF KeyingInv, TypeOK, PlaceNames, keyingVars, audioVars, Awake, Goes, Leaves,
      AudioSound, Total
<1>1. CASE Reject
  BY <1>1 DEF Reject
<1>2. CASE OpenFails
  BY <1>2 DEF OpenFails
<1>3. CASE Open
  BY <1>3 DEF Open
<1>4. CASE OpenPort
  BY <1>4 DEF OpenPort
<1>5. CASE AssertLine
  BY <1>5 DEF AssertLine
<1>6. CASE PlayUnkeyed
  BY <1>6 DEF PlayUnkeyed
<1>7. CASE Drop
  BY <1>7 DEF Drop
<1>8. CASE Hold
  BY <1>8 DEF Hold
<1>9. CASE HoldEnds
  BY <1>9 DEF HoldEnds
<1>10. CASE Spawn
  BY <1>10 DEF Spawn
<1>11. CASE PlayerGone
  BY <1>11 DEF PlayerGone
<1>12. CASE PlayerRuns
  BY <1>12 DEF PlayerRuns
<1>13. CASE StartPlayback
  BY <1>13 DEF StartPlayback
<1>14. CASE Playing
  BY <1>14 DEF Playing
<1>15. CASE PlaybackDone
  BY <1>15 DEF PlaybackDone
<1>16. CASE AfterPlayback
  BY <1>16 DEF AfterPlayback
<1>17. CASE TailEnds
  BY <1>17 DEF TailEnds
<1>18. CASE PlayerExits
  BY <1>18 DEF PlayerExits
<1>19. CASE DevicePlays
  BY <1>19 DEF DevicePlays
<1>20. CASE ErrorFailed
  BY <1>20 DEF ErrorFailed
<1>21. CASE ErrorDone
  BY <1>21 DEF ErrorDone
<1>22. CASE Tick
  BY <1>22 DEF Tick
<1>23. ASSUME NEW n \in 1 .. Callback, Fill(n) PROVE AudioSound'
  BY <1>23 DEF Fill
<1>24. CASE UNCHANGED keyingVars
  BY <1>24
<1> QED
  BY <1>1, <1>2, <1>3, <1>4, <1>5, <1>6, <1>7, <1>8, <1>9, <1>10, <1>11, <1>12, <1>13, <1>14, <1>15, <1>16, <1>17, <1>18, <1>19, <1>20, <1>21, <1>22, <1>23, <1>24 DEF KeyingNext, Thread, Surroundings, Returned

\* Every step leaves the line keyed inside the guarded section only.
LEMMA StepKeyed == KeyingInv /\ [KeyingNext]_keyingVars => KeyedOnlyWhenHeld'
<1> SUFFICES ASSUME KeyingInv, [KeyingNext]_keyingVars PROVE KeyedOnlyWhenHeld'
  OBVIOUS
<1> USE ArgTypes DEF KeyingInv, TypeOK, PlaceNames, keyingVars, audioVars, Awake, Goes, Leaves,
      KeyedOnlyWhenHeld, KeyedBy, HeldAt
<1>1. CASE Reject
  BY <1>1 DEF Reject
<1>2. CASE OpenFails
  BY <1>2 DEF OpenFails
<1>3. CASE Open
  BY <1>3 DEF Open
<1>4. CASE OpenPort
  BY <1>4 DEF OpenPort
<1>5. CASE AssertLine
  BY <1>5 DEF AssertLine
<1>6. CASE PlayUnkeyed
  BY <1>6 DEF PlayUnkeyed
<1>7. CASE Drop
  BY <1>7 DEF Drop
<1>8. CASE Hold
  BY <1>8 DEF Hold
<1>9. CASE HoldEnds
  BY <1>9 DEF HoldEnds
<1>10. CASE Spawn
  BY <1>10 DEF Spawn
<1>11. CASE PlayerGone
  BY <1>11 DEF PlayerGone
<1>12. CASE PlayerRuns
  BY <1>12 DEF PlayerRuns
<1>13. CASE StartPlayback
  BY <1>13 DEF StartPlayback
<1>14. CASE Playing
  BY <1>14 DEF Playing
<1>15. CASE PlaybackDone
  BY <1>15 DEF PlaybackDone
<1>16. CASE AfterPlayback
  BY <1>16 DEF AfterPlayback
<1>17. CASE TailEnds
  BY <1>17 DEF TailEnds
<1>18. CASE PlayerExits
  BY <1>18 DEF PlayerExits
<1>19. CASE DevicePlays
  BY <1>19 DEF DevicePlays
<1>20. CASE ErrorFailed
  BY <1>20 DEF ErrorFailed
<1>21. CASE ErrorDone
  BY <1>21 DEF ErrorDone
<1>22. CASE Tick
  BY <1>22 DEF Tick
<1>23. ASSUME NEW n \in 1 .. Callback, Fill(n) PROVE KeyedOnlyWhenHeld'
  BY <1>23 DEF Fill
<1>24. CASE UNCHANGED keyingVars
  BY <1>24
<1> QED
  BY <1>1, <1>2, <1>3, <1>4, <1>5, <1>6, <1>7, <1>8, <1>9, <1>10, <1>11, <1>12, <1>13, <1>14, <1>15, <1>16, <1>17, <1>18, <1>19, <1>20, <1>21, <1>22, <1>23, <1>24 DEF KeyingNext, Thread, Surroundings, Returned

-----------------------------------------------------------------------------
(* The theorems                                                            *)

\* The invariant holds of ptt and transmit (ptt.rs, transmit.rs) for any set of
\* command lines, poll interval, file, device buffer and callback size.
THEOREM KeyingInvariant == KeyingSpec => []KeyingInv
<1>1. KeyingInv /\ [KeyingNext]_keyingVars => KeyingInv'
  BY StepTypes, StepOnTime, StepAudio, StepKeyed DEF KeyingInv
<1> QED
  BY InitInv, <1>1, PTL DEF KeyingSpec

\* KeyedOnlyWhenHeld (ptt.rs, transmit.rs: open_port, Keyed): with any command
\* line the radio is keyed only inside the guarded section and on the chosen
\* line, but for the instant in which a driver opened the port.
THEOREM KeyedOnlyWhenHeldCorrect == KeyingSpec => []KeyedOnlyWhenHeld
<1>1. KeyingInv => KeyedOnlyWhenHeld
  BY DEF KeyingInv
<1> QED
  BY KeyingInvariant, <1>1, PTL

\* KeyDownBounded (the loops of ptt and transmit that poll for --max): whatever
\* the player and the sound device do, no command holds the line longer than
\* the longer of --max and --lead, one poll and --tail.
THEOREM KeyDownBoundedCorrect == KeyingSpec => []KeyDownBounded
<1>1. KeyingInv => KeyDownBounded
  <2> SUFFICES ASSUME KeyingInv PROVE elapsed <= Longest
    BY DEF KeyDownBounded
  <2>1. Deadline <= Longest
    BY ArgTypes DEF KeyingInv, TypeOK, PlaceNames, Deadline, PlayLimit, Longest, Greater
  <2>2. Deadline \in Nat /\ Longest \in Nat
    BY ArgTypes DEF KeyingInv, TypeOK, PlaceNames, Deadline, PlayLimit, Longest, Greater
  <2> QED
    BY <2>1, <2>2 DEF KeyingInv, TypeOK, OnTime
<1> QED
  BY KeyingInvariant, <1>1, PTL

\* WholeTransmission (transmit.rs: the callbacks and the check of done and
\* failed): for every file, device buffer and callback size, a --drain that
\* covers the buffer means that success is reported only when every sample of
\* the file became sound.
THEOREM WholeTransmissionCorrect == KeyingSpec => []WholeTransmission
<1>1. KeyingInv => WholeTransmission
  BY DEF KeyingInv, AudioSound, WholeTransmission
<1> QED
  BY KeyingInvariant, <1>1, PTL

=============================================================================
