------------------------- MODULE DigipeatNetProofs -------------------------
(***************************************************************************)
(* Proofs about DigipeatNet for every network: any stations, topology,     *)
(* policies, tiers, ring sizes, window, packets and requested paths.       *)
(***************************************************************************)
EXTENDS DigipeatNet, FiniteSetTheorems, SequenceTheorems, WellFoundedInduction, TLAPS

USE LimitsAssumption, PacketsAssumption, StationsAssumption

-----------------------------------------------------------------------------
(* The invariants                                                          *)

Entries == [fp : Packets \cup {0}, age : 0 .. Window]

\* A ring of n slots holds no fingerprint twice, and it fills from the front:
\* until every slot is occupied, the occupied ones are those below the cursor.
Unique(entries, n) ==
  \A i, j \in 1 .. n : entries[i].fp = entries[j].fp /\ entries[i].fp # 0 => i = j
Full(entries, n) == \A i \in 1 .. n : entries[i].fp # 0
FilledTo(entries, n, cursor) == \A i \in 1 .. n : entries[i].fp # 0 <=> i <= cursor
RingSound(ring, n) ==
  /\ ring.entries \in [1 .. n -> Entries]
  /\ ring.cursor \in 0 .. n /\ (n > 0 => ring.cursor < n)
  /\ Unique(ring.entries, n)
  /\ Full(ring.entries, n) \/ FilledTo(ring.entries, n, ring.cursor)

RingsSound == \A s \in Stations : RingSound(rings[s], RingSlots[s])

\* Queues are sequences of frames of known packets, with paths AX.25 carries.
IsPath(path) == path \in Seq(Range(path))
FrameSound(f) == f.packet \in Packets /\ IsPath(f.path)
FrameFits(f) == FrameSound(f) /\ Len(f.path) <= MaxDigipeaters
QueueSound(q) == q \in Seq(Range(q)) /\ \A f \in Range(q) : FrameFits(f)
QueuesSound ==
  /\ DOMAIN txq = Stations /\ txq = [s \in Stations |-> txq[s]]
  /\ \A s \in Stations : QueueSound(txq[s])

SendsBounded == /\ sends \in [Packets -> Nat]
                /\ \A p \in Packets : sends[p] <= MaxSends[p]
RelayedTypes == accepted \in [Stations -> [Packets -> 0 .. Window]]

\* A ring with a slot for every packet forgets nothing it accepted within the
\* window: its entry is at least as young as the decision.
Remembers ==
  \A s \in Stations : RingSlots[s] >= Cardinality(Packets) =>
    \A p \in Packets : accepted[s][p] < Window =>
      \E i \in 1 .. RingSlots[s] :
        rings[s].entries[i].fp = p /\ rings[s].entries[i].age <= accepted[s][p]

\* The embedded digipeater records only what it decides to relay: an entry is no
\* younger than the latest such decision on its packet.
RecordsAccepted ==
  \A s \in Stations : Tier[s] # "workstation" =>
    \A i \in 1 .. RingSlots[s] : \A p \in Packets :
      rings[s].entries[i].fp = p => accepted[s][p] <= rings[s].entries[i].age

NetInv == /\ RingsSound /\ QueuesSound /\ SendsBounded /\ RelayedTypes /\ Remembers /\ RecordsAccepted
          /\ RelayedOnce /\ EmbeddedServesNamedHop

-----------------------------------------------------------------------------
(* Facts about the ring                                                    *)

\* The entries of a sound ring are its n slots, and the packets are numbers.
LEMMA SlotsOf ==
  ASSUME NEW n \in Nat, NEW r, RingSound(r, n)
  PROVE  /\ Slots(r) = n /\ DOMAIN r.entries = 1 .. n
         /\ \A i \in 1 .. n : /\ r.entries[i].fp \in Packets \cup {0}
                              /\ r.entries[i].age \in 0 .. Window
<1>1. r.entries \in [1 .. n -> Entries]
  BY DEF RingSound
<1>2. DOMAIN r.entries = 1 .. n
  BY <1>1
<1>3. r.entries \in Seq(Entries)
  BY <1>1, SeqDef
<1>4. Len(r.entries) \in Nat /\ DOMAIN r.entries = 1 .. Len(r.entries)
  BY <1>3, LenProperties
<1>5. Len(r.entries) = n
  BY <1>2, <1>4
<1>6. \A i \in 1 .. n : r.entries[i] \in Entries
  BY <1>1
<1> QED
  BY <1>2, <1>5, <1>6 DEF Slots, Entries

\* A packet in the ring is in one slot, the one the code's search finds.
LEMMA HeldOnce ==
  ASSUME NEW n \in Nat, NEW r, RingSound(r, n), NEW p \in Packets, NEW i \in 1 .. n,
         r.entries[i].fp = p
  PROVE  Holding(r, p) = {i} /\ Min(Holding(r, p)) = i
<1>1. Holding(r, p) = {i}
  BY SlotsOf DEF Holding, RingSound, Unique
<1>2. Min({i}) = i
  BY DEF Min
<1> QED
  BY <1>1, <1>2

\* A ring with a slot for every packet has room for one it does not hold: were
\* it full, two of its slots would hold the same packet.
LEMMA RoomLeft ==
  ASSUME NEW n \in Nat, NEW r, RingSound(r, n), NEW p \in Packets, Holding(r, p) = {},
         n >= Cardinality(Packets)
  PROVE  n > 0 /\ r.entries[r.cursor + 1].fp = 0
<1> DEFINE Others == Packets \ {p}
           g == [i \in 1 .. n |-> r.entries[i].fp]
<1>1. /\ IsFiniteSet(Others) /\ Cardinality(Others) = Cardinality(Packets) - 1
      /\ Cardinality(Others) \in Nat /\ Cardinality(Packets) \in Nat
  BY FS_RemoveElement, FS_CardinalityType
<1>2. IsFiniteSet(1 .. n) /\ Cardinality(1 .. n) = n
  BY FS_Interval
<1>3. n > 0
  BY <1>1
<1>4. ~Full(r.entries, n)
  <2> SUFFICES ASSUME Full(r.entries, n) PROVE FALSE
    OBVIOUS
  <2>1. g \in [1 .. n -> Others]
    BY SlotsOf DEF Full, Holding
  <2>2. PICK i, j \in 1 .. n : i # j /\ g[i] = g[j]
    <3>1. Cardinality(Others) < Cardinality(1 .. n)
      BY <1>1, <1>2
    <3> HIDE DEF Others, g
    <3> QED
      BY <1>1, <1>2, <2>1, <3>1, FS_PigeonHole
  <2>3. r.entries[i].fp = r.entries[j].fp /\ r.entries[i].fp # 0
    BY <2>2 DEF Full
  <2> QED
    BY <2>2, <2>3 DEF RingSound, Unique
<1>5. FilledTo(r.entries, n, r.cursor) /\ r.cursor \in 0 .. n /\ r.cursor < n
  BY <1>3, <1>4 DEF RingSound
<1>6. r.cursor + 1 \in 1 .. n /\ ~(r.cursor + 1 <= r.cursor)
  BY <1>5
<1> QED
  BY <1>3, <1>5, <1>6 DEF FilledTo

\* What the check says of a packet and the ring it leaves.
Fresh(r, p) == check_and_insert(r, p).fresh
After(r, p) == check_and_insert(r, p).ring

Rearmed(r, i) == [r EXCEPT !.entries[i].age = 0]
Inserted(r, p, n) ==
  [entries |-> [r.entries EXCEPT ![r.cursor + 1] = [fp |-> p, age |-> 0]],
   cursor  |-> (r.cursor + 1) % n]

\* What the check makes of a packet the ring holds.
LEMMA KnownPacket ==
  ASSUME NEW n \in Nat, NEW r, RingSound(r, n), NEW p \in Packets, NEW i \in 1 .. n,
         r.entries[i].fp = p
  PROVE  /\ r.entries[i].age < Window => ~Fresh(r, p) /\ After(r, p) = r
         /\ ~(r.entries[i].age < Window)
              => Fresh(r, p) /\ After(r, p) = Rearmed(r, i)
<1>1. Holding(r, p) # {} /\ Min(Holding(r, p)) = i
  BY HeldOnce
<1> QED
  BY <1>1 DEF check_and_insert, Fresh, After, Rearmed, Inserted

\* What it makes of one the ring does not hold.
LEMMA NewPacket ==
  ASSUME NEW n \in Nat, NEW r, RingSound(r, n), NEW p \in Packets, Holding(r, p) = {}
  PROVE  /\ Fresh(r, p)
         /\ n = 0 => After(r, p) = r
         /\ n # 0 => After(r, p) = Inserted(r, p, n)
<1>1. Slots(r) = n
  BY SlotsOf
<1> QED
  BY <1>1 DEF check_and_insert, Fresh, After, Rearmed, Inserted

\* The cursor moves on by one slot, or from the last one back to the first.
LEMMA WrapsToZero ==
  ASSUME NEW n \in Nat \ {0}, NEW k \in 0 .. n - 1
  PROVE  (k + 1) % n = IF k + 1 < n THEN k + 1 ELSE 0
OBVIOUS

\* Re-arming an entry where it is leaves the ring sound.
LEMMA RearmSound ==
  ASSUME NEW n \in Nat, NEW r, RingSound(r, n), NEW i \in 1 .. n
  PROVE  /\ RingSound(Rearmed(r, i), n)
         /\ \A j \in 1 .. n : Rearmed(r, i).entries[j] =
              IF j = i THEN [fp |-> r.entries[i].fp, age |-> 0] ELSE r.entries[j]
<1>1. r.entries \in [1 .. n -> Entries]
  BY DEF RingSound
<1>2. Rearmed(r, i).cursor = r.cursor
  BY DEF RingSound, Rearmed
<1>3. Rearmed(r, i).entries = [r.entries EXCEPT ![i].age = 0]
  BY DEF RingSound, Rearmed
<1>4. Rearmed(r, i).entries \in [1 .. n -> Entries]
  <2>1. \A e \in Entries : [e EXCEPT !.age = 0] \in Entries
    BY DEF Entries
  <2>2. r.entries[i] \in Entries
    BY <1>1
  <2> QED
    BY <1>1, <1>3, <2>1, <2>2
<1>5. \A j \in 1 .. n : Rearmed(r, i).entries[j] =
        IF j = i THEN [fp |-> r.entries[i].fp, age |-> 0] ELSE r.entries[j]
  <2>1. \A e \in Entries : [e EXCEPT !.age = 0] = [fp |-> e.fp, age |-> 0]
    BY DEF Entries
  <2>2. r.entries[i] \in Entries
    BY <1>1
  <2> QED
    BY <1>1, <1>3, <2>1, <2>2
<1>6. \A j \in 1 .. n : Rearmed(r, i).entries[j].fp = r.entries[j].fp
  BY <1>5
<1> QED
  BY <1>2, <1>4, <1>5, <1>6 DEF RingSound, Unique, Full, FilledTo

\* Writing a packet the ring does not hold over the cursor's slot leaves the
\* ring sound: the slots stay filled from the front, or all are.
LEMMA InsertSound ==
  ASSUME NEW n \in Nat \ {0}, NEW r, RingSound(r, n), NEW p \in Packets, Holding(r, p) = {}
  PROVE  /\ RingSound(Inserted(r, p, n), n) /\ r.cursor + 1 \in 1 .. n
         /\ \A j \in 1 .. n : Inserted(r, p, n).entries[j] =
              IF j = r.cursor + 1 THEN [fp |-> p, age |-> 0] ELSE r.entries[j]
<1>1. r.entries \in [1 .. n -> Entries] /\ r.cursor \in 0 .. n - 1
  BY DEF RingSound
<1>2. r.cursor + 1 \in 1 .. n
  BY <1>1
<1>3. Inserted(r, p, n).entries \in [1 .. n -> Entries]
  BY <1>1, <1>2 DEF Entries, Inserted
<1>4. \A j \in 1 .. n : Inserted(r, p, n).entries[j] =
        IF j = r.cursor + 1 THEN [fp |-> p, age |-> 0] ELSE r.entries[j]
  BY <1>1 DEF Inserted
<1>5. Inserted(r, p, n).cursor = IF r.cursor + 1 < n THEN r.cursor + 1 ELSE 0
  BY <1>1, WrapsToZero DEF Inserted
<1>6. \A j \in 1 .. n : r.entries[j].fp # p
  BY SlotsOf DEF Holding
<1>7. Unique(Inserted(r, p, n).entries, n)
  <2> DEFINE after == Inserted(r, p, n).entries
  <2>1. \A j \in 1 .. n : after[j].fp = IF j = r.cursor + 1 THEN p ELSE r.entries[j].fp
    BY <1>4
  <2>2. \A i, j \in 1 .. n : r.entries[i].fp = r.entries[j].fp /\ r.entries[i].fp # 0 => i = j
    BY DEF RingSound, Unique
  <2> HIDE DEF after
  <2>3. \A i, j \in 1 .. n : after[i].fp = after[j].fp /\ after[i].fp # 0 => i = j
    BY <1>6, <2>1, <2>2
  <2> QED
    BY <2>3 DEF Unique, after
<1>8. \/ Full(Inserted(r, p, n).entries, n)
      \/ FilledTo(Inserted(r, p, n).entries, n, Inserted(r, p, n).cursor)
  <2>1. CASE Full(r.entries, n)
    BY <1>4, <2>1 DEF Full
  <2>2. CASE FilledTo(r.entries, n, r.cursor)
    <3>1. \A j \in 1 .. n : Inserted(r, p, n).entries[j].fp # 0 <=> j <= r.cursor + 1
      BY <1>1, <1>4, <2>2 DEF FilledTo
    <3>2. CASE r.cursor + 1 < n
      BY <1>5, <3>1, <3>2 DEF FilledTo
    <3>3. CASE r.cursor + 1 >= n
      BY <1>1, <3>1, <3>3 DEF Full
    <3> QED
      BY <1>1, <3>2, <3>3
  <2> QED
    BY <2>1, <2>2 DEF RingSound
<1>9. Inserted(r, p, n).cursor \in 0 .. n /\ Inserted(r, p, n).cursor < n
  BY <1>1, <1>5
<1> QED
  BY <1>2, <1>3, <1>4, <1>7, <1>8, <1>9 DEF RingSound

\* Every packet is either in one slot or in none.
LEMMA HeldOrNot ==
  ASSUME NEW n \in Nat, NEW r, RingSound(r, n), NEW p \in Packets
  PROVE  Holding(r, p) = {} \/ \E i \in 1 .. n : r.entries[i].fp = p
BY SlotsOf DEF Holding

\* What the check and the insertion do to a ring: it stays sound, a fresh packet
\* is one with no entry inside the window, and only its entry changes, unless
\* the ring is too small for the packets on the channel.
LEMMA CheckAndInsert ==
  ASSUME NEW n \in Nat, NEW r, RingSound(r, n), NEW p \in Packets
  PROVE  /\ RingSound(After(r, p), n)
         /\ ~Fresh(r, p) => /\ After(r, p) = r
                        /\ \E i \in 1 .. n : r.entries[i].fp = p /\ r.entries[i].age < Window
         /\ Fresh(r, p) => \A i \in 1 .. n : r.entries[i].fp = p => r.entries[i].age >= Window
         /\ \A j \in 1 .. n : \/ After(r, p).entries[j] = r.entries[j]
                              \/ Fresh(r, p) /\ After(r, p).entries[j] = [fp |-> p, age |-> 0]
         /\ n >= Cardinality(Packets) =>
              /\ Fresh(r, p) => \E i \in 1 .. n : After(r, p).entries[i] = [fp |-> p, age |-> 0]
              /\ \A j \in 1 .. n : r.entries[j].fp \in Packets \ {p}
                                     => After(r, p).entries[j] = r.entries[j]
<1>1. Holding(r, p) = {} \/ \E i \in 1 .. n : r.entries[i].fp = p
  BY SlotsOf DEF Holding
<1>2. CASE \E i \in 1 .. n : r.entries[i].fp = p /\ r.entries[i].age < Window
  <2>1. PICK i \in 1 .. n : r.entries[i].fp = p /\ r.entries[i].age < Window
    BY <1>2
  <2>2. r.entries[i].age < Window => ~Fresh(r, p) /\ After(r, p) = r
    <3>1. r.entries[i].fp = p
      BY <2>1
    <3> QED
      BY <3>1, KnownPacket
  <2> QED
    BY <1>2, <2>1, <2>2
<1>3. \A i \in 1 .. n : r.entries[i].age < Window \/ r.entries[i].age >= Window
  <2>1. \A i \in 1 .. n : r.entries[i].age \in 0 .. Window
    BY SlotsOf
  <2> QED
    BY <2>1
<1>4. CASE \E i \in 1 .. n : r.entries[i].fp = p /\ r.entries[i].age >= Window
  <2>1. PICK i \in 1 .. n : r.entries[i].fp = p /\ r.entries[i].age >= Window
    BY <1>4
  <2>2. ~(r.entries[i].age < Window)
    BY <2>1, SlotsOf
  <2>3. Fresh(r, p) /\ After(r, p) = Rearmed(r, i)
    BY <2>1, <2>2, KnownPacket
  <2>4. /\ RingSound(After(r, p), n)
        /\ \A j \in 1 .. n : After(r, p).entries[j] =
             IF j = i THEN [fp |-> p, age |-> 0] ELSE r.entries[j]
    BY <2>1, <2>3, RearmSound
  <2>5. \A j \in 1 .. n : r.entries[j].fp = p => j = i
    BY <2>1 DEF RingSound, Unique
  <2> QED
    BY <2>1, <2>3, <2>4, <2>5
<1>5. CASE Holding(r, p) = {}
  <2>1. \A j \in 1 .. n : r.entries[j].fp # p
    BY <1>5, SlotsOf DEF Holding
  <2>2. Fresh(r, p)
    BY <1>5, NewPacket
  <2>3. CASE n = 0
    <3>1. After(r, p) = r
      BY <1>5, <2>3, NewPacket
    <3>2. ~(n >= Cardinality(Packets))
      BY <1>5, <2>3, RoomLeft
    <3> QED
      BY <2>1, <2>2, <2>3, <3>1, <3>2
  <2>4. CASE n # 0
    <3>1. After(r, p) = Inserted(r, p, n)
      BY <1>5, <2>4, NewPacket
    <3>2. /\ RingSound(After(r, p), n) /\ r.cursor + 1 \in 1 .. n
          /\ \A j \in 1 .. n : After(r, p).entries[j] =
               IF j = r.cursor + 1 THEN [fp |-> p, age |-> 0] ELSE r.entries[j]
      BY <1>5, <2>4, <3>1, InsertSound
    <3>3. n >= Cardinality(Packets) => r.entries[r.cursor + 1].fp = 0
      BY <1>5, RoomLeft
    <3> QED
      BY <2>1, <2>2, <3>2, <3>3
  <2> QED
    BY <2>3, <2>4
<1> QED
  BY <1>1, <1>2, <1>3, <1>4, <1>5

\* The clock ages every entry and changes nothing else.
LEMMA AgedSound ==
  ASSUME NEW n \in Nat, NEW r, RingSound(r, n)
  PROVE  /\ RingSound(Aged(r), n)
         /\ \A j \in 1 .. n : /\ Aged(r).entries[j].fp = r.entries[j].fp
                              /\ r.entries[j].fp # 0
                                   => Aged(r).entries[j].age = Older(r.entries[j].age)
<1> DEFINE aged(e) == IF e.fp = 0 THEN Free ELSE [e EXCEPT !.age = Older(@)]
<1>1. r.entries \in [1 .. n -> Entries] /\ DOMAIN r.entries = 1 .. n
  BY DEF RingSound
<1>2. Aged(r).cursor = r.cursor /\ Aged(r).entries = [i \in 1 .. n |-> aged(r.entries[i])]
  BY <1>1 DEF Aged, Free, RingSound
<1>3. \A e \in Entries : /\ aged(e) \in Entries /\ aged(e).fp = e.fp
                         /\ e.fp # 0 => aged(e).age = Older(e.age)
  BY DEF Entries, Free, Older
<1> HIDE DEF aged
<1>4. \A j \in 1 .. n : r.entries[j] \in Entries
  BY <1>1
<1>5. Aged(r).entries \in [1 .. n -> Entries]
  BY <1>2, <1>3, <1>4
<1>6. \A j \in 1 .. n : /\ Aged(r).entries[j].fp = r.entries[j].fp
                        /\ r.entries[j].fp # 0
                             => Aged(r).entries[j].age = Older(r.entries[j].age)
  BY <1>2, <1>3, <1>4
<1> QED
  BY <1>2, <1>5, <1>6 DEF RingSound, Unique, Full, FilledTo

-----------------------------------------------------------------------------
(* Facts about what a station makes of a frame                             *)

\* The rules for paths have reasons of their own not to relay: "duplicate" is
\* never one of them.
LEMMA Verdicts ==
  \A path, policy : relay_decision(path, policy).verdict \notin {"duplicate", "render_failed"}
BY DEF relay_decision, RelayWide, Relay, Ignore

\* Inserting an element makes a sequence longer by one: what was at i and behind
\* it moves on by one place.
LEMMA InsertProperties ==
  ASSUME NEW q, IsPath(q), NEW i \in 1 .. Len(q), NEW e
  PROVE  /\ IsPath(InsertAt(q, i, e)) /\ Len(InsertAt(q, i, e)) = Len(q) + 1
         /\ \A k \in 1 .. i - 1 : InsertAt(q, i, e)[k] = q[k]
         /\ InsertAt(q, i, e)[i] = e
         /\ \A k \in i .. Len(q) : InsertAt(q, i, e)[k + 1] = q[k]
<1> DEFINE S == Range(q) \cup {e}
           front == SubSeq(q, 1, i - 1)
           back == SubSeq(q, i, Len(q))
<1>1. q \in Seq(S) /\ e \in S
  BY DEF IsPath
<1> HIDE DEF S
<1>2. Len(q) \in Nat /\ \A j \in 1 .. Len(q) : q[j] \in S
  BY <1>1, LenProperties, ElementOfSeq
<1>3. \A j \in 1 .. i - 1 : q[j] \in S
  BY <1>2
<1>4. \A j \in i .. Len(q) : q[j] \in S
  BY <1>2
<1>5. front \in Seq(S) /\ Len(front) = IF 1 <= i - 1 THEN (i - 1) - 1 + 1 ELSE 0
  BY <1>2, <1>3, SubSeqProperties
<1>6. back \in Seq(S) /\ Len(back) = IF i <= Len(q) THEN Len(q) - i + 1 ELSE 0
  BY <1>2, <1>4, SubSeqProperties
<1>7. /\ Len(front) = i - 1 /\ Len(back) = Len(q) - i + 1
      /\ \A k \in 1 .. i - 1 : front[k] = q[k]
      /\ \A k \in 1 .. Len(q) - i + 1 : back[k] = q[i + k - 1]
  <2>1. Len(front) = i - 1 /\ Len(back) = Len(q) - i + 1
    BY <1>2, <1>5, <1>6
  <2>2. \A k \in 1 .. (i - 1) - 1 + 1 : front[k] = q[1 + k - 1]
    BY <1>2, <1>3, SubSeqProperties
  <2>3. \A k \in 1 .. Len(q) - i + 1 : back[k] = q[i + k - 1]
    BY <1>2, <1>4, SubSeqProperties
  <2>4. (i - 1) - 1 + 1 = i - 1 /\ \A k \in 1 .. i - 1 : 1 + k - 1 = k
    OBVIOUS
  <2> HIDE DEF front, back
  <2> QED
    BY <2>1, <2>2, <2>3, <2>4
<1> HIDE DEF front, back
<1> DEFINE one == <<e>>
           both == front \o one
<1>8. one \in Seq(S) /\ Len(one) = 1 /\ one[1] = e
  BY <1>1
<1> HIDE DEF one
<1>9. /\ both \in Seq(S) /\ Len(both) = Len(front) + 1
      /\ \A k \in 1 .. Len(front) + 1 : both[k] = IF k <= Len(front) THEN front[k]
                                               ELSE one[k - Len(front)]
  <2>1. /\ both \in Seq(S) /\ Len(both) = Len(front) + Len(one)
        /\ \A k \in 1 .. Len(front) + Len(one) : both[k] = IF k <= Len(front) THEN front[k]
                                                        ELSE one[k - Len(front)]
    BY <1>5, <1>8, ConcatProperties, ZenonT(40)
  <2> QED
    BY <1>8, <2>1
<1> HIDE DEF both
<1>10. /\ both \in Seq(S) /\ Len(both) = i
       /\ both[i] = e /\ \A k \in 1 .. i - 1 : both[k] = q[k]
  <2>1. both \in Seq(S) /\ Len(both) = i
    BY <1>7, <1>9
  <2>2. both[i] = one[i - (i - 1)] /\ i - (i - 1) = 1
    BY <1>7, <1>9
  <2>3. ASSUME NEW k \in 1 .. i - 1 PROVE both[k] = q[k]
    BY <1>7, <1>9
  <2> QED
    BY <1>8, <2>1, <2>2, <2>3
<1>11. /\ both \o back \in Seq(S) /\ Len(both \o back) = Len(both) + Len(back)
       /\ \A k \in 1 .. Len(both) + Len(back) :
            (both \o back)[k] = IF k <= Len(both) THEN both[k] ELSE back[k - Len(both)]
  BY <1>6, <1>10, ConcatProperties
<1>12. InsertAt(q, i, e) = both \o back
  BY DEF InsertAt, front, back, one, both
<1>13. i + (Len(q) - i + 1) = Len(q) + 1
  BY <1>2
<1> DEFINE out == both \o back
<1>14. /\ out \in Seq(S) /\ Len(out) = Len(q) + 1
       /\ \A k \in 1 .. Len(q) + 1 : out[k] = IF k <= i THEN both[k] ELSE back[k - i]
  BY <1>7, <1>10, <1>11, <1>13
<1> HIDE DEF out
<1>15. out[i] = e /\ \A k \in 1 .. i - 1 : out[k] = q[k]
  BY <1>2, <1>10, <1>14
<1>16. ASSUME NEW k \in i .. Len(q) PROVE out[k + 1] = q[k]
  <2>1. k + 1 \in 1 .. Len(q) + 1 /\ ~(k + 1 <= i) /\ k + 1 - i \in 1 .. Len(q) - i + 1
    BY <1>2
  <2>2. i + (k + 1 - i) - 1 = k
    OBVIOUS
  <2> QED
    BY <1>7, <1>14, <2>1, <2>2
<1>17. IsPath(out)
  BY <1>14, SeqOfRange DEF IsPath
<1> QED
  BY <1>12, <1>14, <1>15, <1>16, <1>17 DEF out

\* Changing an element of a sequence leaves its length and the other elements.
LEMMA ChangeProperties ==
  ASSUME NEW q, IsPath(q), NEW i \in 1 .. Len(q), NEW e
  PROVE  /\ IsPath([q EXCEPT ![i] = e]) /\ Len([q EXCEPT ![i] = e]) = Len(q)
         /\ \A k \in 1 .. Len(q) : [q EXCEPT ![i] = e][k] = IF k = i THEN e ELSE q[k]
<1> DEFINE S == Range(q) \cup {e}
<1>1. q \in Seq(S) /\ e \in S
  BY DEF IsPath
<1> HIDE DEF S
<1>2. /\ [q EXCEPT ![i] = e] \in Seq(S) /\ Len([q EXCEPT ![i] = e]) = Len(q)
      /\ \A k \in 1 .. Len(q) : [q EXCEPT ![i] = e][k] = IF k = i THEN e ELSE q[k]
  BY <1>1, ExceptSeq
<1> QED
  BY <1>2, SeqOfRange DEF IsPath

\* A set of naturals that has a member has a least one.
LEMMA LeastOf ==
  ASSUME NEW T, T \subseteq Nat, T # {}
  PROVE  \E x \in T : \A y \in T : x <= y
<1>1. PICK x \in T : \A y \in T : ~ (<<y, x>> \in OpToRel(<, Nat))
  BY NatLessThanWellFounded, WFMin
<1>2. \A y \in T : ~(y < x)
  BY <1>1, Zenon DEF OpToRel
<1>3. \A y \in T : x <= y
  BY <1>2
<1> QED
  BY <1>3

\* A path with an unused hop has a first one, at one of its places.
LEMMA FirstInPath ==
  ASSUME NEW path, IsPath(path), Unused(path) # {}
  PROVE  FirstUnused(path) \in 1 .. Len(path) /\ ~path[FirstUnused(path)].used
<1> DEFINE T == Unused(path)
<1>1. DOMAIN path = 1 .. Len(path) /\ Len(path) \in Nat
  BY LenProperties DEF IsPath
<1>2. T \subseteq 1 .. Len(path) /\ T \subseteq Nat /\ T # {}
  BY <1>1 DEF Unused
<1> HIDE DEF T
<1>4. \E x \in T : \A y \in T : x <= y
  BY <1>2, LeastOf
<1>5. Min(T) \in T
  BY <1>4 DEF Min
<1>6. \A k \in T : ~path[k].used
  BY DEF T, Unused
<1> QED
  BY <1>2, <1>5, <1>6 DEF FirstUnused, T

\* The path with N spent at hop i: what is inserted goes in front of it.
Spent(path, i) == [path EXCEPT ![i].addr[2] = @ - 1]

\* The three rules that relay a path with hop at its first unused place i as out.
ByRule(path, policy, i, hop, out) ==
  \/ hop \in policy.exact /\ \E addr : out = [path EXCEPT ![i] = UsedHop(addr)]
  \/ /\ IsWide(hop) /\ Remaining(hop) = 1
     /\ out = [path EXCEPT ![i] = [path[i] EXCEPT !.used = TRUE]]
  \/ /\ IsWide(hop) /\ Remaining(hop) \in 1 .. WideClass[hop[1]] /\ Remaining(hop) # 1
     /\ Len(path) + 1 <= MaxDigipeaters
     /\ \E addr : out = InsertAt(Spent(path, i), i, UsedHop(addr))

LEMMA RelayRules ==
  ASSUME NEW path, IsPath(path), NEW policy, relay_decision(path, policy).verdict = "relay"
  PROVE  /\ Len(path) <= MaxDigipeaters
         /\ FirstUnused(path) \in 1 .. Len(path) /\ ~path[FirstUnused(path)].used
         /\ ByRule(path, policy, FirstUnused(path), path[FirstUnused(path)].addr,
                   relay_decision(path, policy).path)
<1> DEFINE i == FirstUnused(path)
           hop == path[i].addr
           out == relay_decision(path, policy).path
<1>1. Len(path) \in Nat
  BY LenProperties DEF IsPath
<1>2. Len(path) <= MaxDigipeaters /\ Unused(path) # {}
  BY <1>1 DEF relay_decision, Ignore
<1>3. i \in 1 .. Len(path) /\ ~path[i].used
  BY <1>2, FirstInPath
<1> DEFINE exact == UsedHop(IF policy.action = "Substitute" THEN policy.my_call ELSE hop)
<1>4. CASE hop \in policy.exact
  <2>1. out = [path EXCEPT ![i] = exact]
    BY <1>1, <1>2, <1>4 DEF relay_decision, Relay
  <2> QED
    BY <1>2, <1>3, <1>4, <2>1 DEF ByRule
<1>5. CASE hop \notin policy.exact
  <2>1. out = RelayWide(path, i, policy.my_call).path
    BY <1>1, <1>2, <1>5 DEF relay_decision, Ignore
  <2>2. RelayWide(path, i, policy.my_call).verdict = "relay"
    BY <1>1, <1>2, <1>5 DEF relay_decision, Ignore
  <2>3. IsWide(hop) /\ Remaining(hop) \in 1 .. WideClass[hop[1]]
    BY <1>1, <1>2, <1>5 DEF relay_decision, Ignore
  <2>4. CASE Remaining(hop) = 1
    <3>1. out = [path EXCEPT ![i].used = TRUE]
      BY <2>1, <2>4 DEF RelayWide, Relay
    <3>2. [path EXCEPT ![i].used = TRUE] = [path EXCEPT ![i] = [path[i] EXCEPT !.used = TRUE]]
      OBVIOUS
    <3> QED
      BY <1>2, <1>3, <2>3, <2>4, <3>1, <3>2 DEF ByRule
  <2>5. CASE Remaining(hop) # 1
    <3>1. ~(Len(path) + 1 > MaxDigipeaters)
      BY <2>2, <2>5 DEF RelayWide, Ignore
    <3>2. out = InsertAt(Spent(path, i), i, UsedHop(policy.my_call))
      BY <2>1, <2>5, <3>1 DEF RelayWide, Relay, Spent
    <3>3. Len(path) + 1 <= MaxDigipeaters
      BY <1>1, <3>1
    <3> QED
      BY <1>2, <1>3, <2>3, <2>5, <3>2, <3>3 DEF ByRule
  <2> QED
    BY <2>4, <2>5
<1> QED
  BY <1>4, <1>5

\* Spending N changes that hop alone.
LEMMA SpentProperties ==
  ASSUME NEW path, IsPath(path), NEW i \in 1 .. Len(path)
  PROVE  /\ IsPath(Spent(path, i)) /\ Len(Spent(path, i)) = Len(path)
         /\ \A k \in 1 .. Len(path) :
              Spent(path, i)[k] = IF k = i THEN [path[i] EXCEPT !.addr[2] = @ - 1] ELSE path[k]
<1> DEFINE e == [path[i] EXCEPT !.addr[2] = @ - 1]
<1>1. Spent(path, i) = [path EXCEPT ![i] = e]
  BY DEF Spent
<1> HIDE DEF e
<1> DEFINE out == [path EXCEPT ![i] = e]
<1>2. /\ IsPath(out) /\ Len(out) = Len(path)
      /\ \A k \in 1 .. Len(path) : out[k] = IF k = i THEN e ELSE path[k]
  <2>1. IsPath(out) /\ Len(out) = Len(path)
    BY ChangeProperties
  <2>2. DOMAIN path = 1 .. Len(path)
    BY LenProperties DEF IsPath
  <2> QED
    BY <2>1, <2>2
<1> HIDE DEF out
<1>3. Spent(path, i) = out
  BY <1>1 DEF out
<1> QED
  BY <1>2, <1>3 DEF e

\* Whatever rule relays a path, what it sends on is a path AX.25 can carry.
LEMMA RelayedPathFits ==
  ASSUME NEW path, IsPath(path), NEW policy, relay_decision(path, policy).verdict = "relay"
  PROVE  /\ IsPath(relay_decision(path, policy).path)
         /\ Len(relay_decision(path, policy).path) <= MaxDigipeaters
<1> DEFINE i == FirstUnused(path)
           out == relay_decision(path, policy).path
           spent == Spent(path, i)
<1>1. Len(path) \in Nat
  BY LenProperties DEF IsPath
<1>2. Len(path) <= MaxDigipeaters /\ i \in 1 .. Len(path)
  BY RelayRules
<1>3. i \in 1 .. Len(path)
  BY <1>2
<1>4. \/ \E e : out = [path EXCEPT ![i] = e]
      \/ Len(path) + 1 <= MaxDigipeaters /\ \E e : out = InsertAt(spent, i, e)
  BY RelayRules DEF ByRule
<1>5. IsPath(spent) /\ Len(spent) = Len(path)
  BY <1>3, SpentProperties
<1> HIDE DEF i, out, spent
<1>6. ASSUME \E e : out = [path EXCEPT ![i] = e]
      PROVE  IsPath(out) /\ Len(out) <= MaxDigipeaters
  <2>1. PICK e : out = [path EXCEPT ![i] = e]
    BY <1>6
  <2>2. IsPath([path EXCEPT ![i] = e]) /\ Len([path EXCEPT ![i] = e]) = Len(path)
    BY <1>3, ChangeProperties
  <2> QED
    BY <1>2, <2>1, <2>2
<1>7. ASSUME Len(path) + 1 <= MaxDigipeaters, \E e : out = InsertAt(spent, i, e)
      PROVE  IsPath(out) /\ Len(out) <= MaxDigipeaters
  <2>1. PICK e : out = InsertAt(spent, i, e)
    BY <1>7
  <2>2. IsPath(InsertAt(spent, i, e)) /\ Len(InsertAt(spent, i, e)) = Len(spent) + 1
    BY <1>3, <1>5, InsertProperties
  <2> QED
    BY <1>5, <1>7, <2>1, <2>2
<1>8. IsPath(out) /\ Len(out) <= MaxDigipeaters
  BY <1>4, <1>6, <1>7
<1> QED
  BY <1>8 DEF out

\* So is what a station queues.
LEMMA QueuedFits ==
  ASSUME NEW s \in Stations, NEW f, FrameSound(f), Outcome(s, f).verdict = "relay"
  PROVE  FrameFits(Relayed(f, Outcome(s, f).path))
<1> DEFINE d == relay_decision(f.path, Policy[s])
<1>1. d.verdict = "relay" /\ Outcome(s, f).path = d.path
  BY DEF Outcome, push, consider, relay_one, Ignore
<1>2. IsPath(d.path) /\ Len(d.path) <= MaxDigipeaters
  BY <1>1, RelayedPathFits DEF FrameSound
<1> QED
  BY <1>1, <1>2 DEF FrameFits, FrameSound, Relayed, Frame

\* The station decides to relay a frame it found fresh, whether or not it can.
Accepted(s, f) == Outcome(s, f).verdict \in {"relay", "render_failed"}

\* What a station decides and the ring it is left with: it accepts only what its
\* ring found fresh, and the embedded one leaves its ring alone otherwise.
LEMMA Outcomes ==
  ASSUME NEW s \in Stations, NEW f, f.packet \in Packets, RingsSound
  PROVE  /\ Outcome(s, f).ring \in {rings[s], After(rings[s], f.packet)}
         /\ Accepted(s, f)
              => Fresh(rings[s], f.packet) /\ Outcome(s, f).ring = After(rings[s], f.packet)
         /\ Tier[s] # "workstation" /\ ~Accepted(s, f)
              => Outcome(s, f).ring = rings[s]
         /\ Tier[s] # "workstation" /\ Outcome(s, f).verdict = "duplicate"
              => ~Fresh(rings[s], f.packet)
<1> DEFINE d == relay_decision(f.path, Policy[s])
<1>1. d.verdict # "duplicate" /\ d.verdict # "render_failed"
  BY Verdicts
<1>2. ~Fresh(rings[s], f.packet) => After(rings[s], f.packet) = rings[s]
  BY CheckAndInsert DEF RingsSound
<1>3. CASE Tier[s] = "workstation"
  BY <1>3 DEF Accepted, Outcome, push, consider, Ignore, Fresh, After
<1>4. CASE Tier[s] # "workstation"
  <2>1. CASE d.verdict # "relay"
    BY <1>1, <1>4, <2>1 DEF Accepted, Outcome, relay_one
  <2>2. CASE d.verdict = "relay" /\ Fresh(rings[s], f.packet)
    BY <1>4, <2>2 DEF Accepted, Outcome, relay_one, Fresh, After
  <2>3. CASE d.verdict = "relay" /\ ~Fresh(rings[s], f.packet)
    BY <1>2, <1>4, <2>3 DEF Accepted, Outcome, relay_one, Fresh, After
  <2> QED
    BY <2>1, <2>2, <2>3
<1> QED
  BY <1>3, <1>4

\* The station hears the frame and relays it; it hears and accepts it.
Relays(s, f, hearers) == s \in hearers /\ Outcome(s, f).verdict = "relay"
Accepts(s, f, hearers) == s \in hearers /\ Accepted(s, f)

\* What the stations that heard it decide.
LEMMA HeardDecisions ==
  ASSUME NEW f, NEW hearers \in SUBSET Stations, NEW queues, Heard(f, hearers, queues),
         NEW d \in decisions'
  PROVE  \E s \in hearers :
           d = [station |-> s, packet |-> f.packet, path |-> f.path,
                verdict |-> Outcome(s, f).verdict, again |-> accepted[s][f.packet] < Window]
BY DEF Heard

\* A ring changes only by the check of the frame's packet, and the embedded
\* digipeater's only if it accepts the frame; whoever accepts found it fresh.
LEMMA HeardRing ==
  ASSUME RingsSound, NEW f, f.packet \in Packets, NEW hearers \in SUBSET Stations,
         NEW queues, Heard(f, hearers, queues), NEW s \in Stations
  PROVE  /\ rings'[s] = rings[s] \/ rings'[s] = After(rings[s], f.packet)
         /\ Accepts(s, f, hearers)
              => Fresh(rings[s], f.packet) /\ rings'[s] = After(rings[s], f.packet)
         /\ Tier[s] # "workstation" /\ ~Accepts(s, f, hearers) => rings'[s] = rings[s]
<1>1. /\ s \in hearers => rings'[s] = Outcome(s, f).ring
      /\ s \notin hearers => rings'[s] = rings[s]
  BY DEF Heard
<1>2. /\ Outcome(s, f).ring \in {rings[s], After(rings[s], f.packet)}
      /\ Accepted(s, f)
           => Fresh(rings[s], f.packet) /\ Outcome(s, f).ring = After(rings[s], f.packet)
      /\ Tier[s] # "workstation" /\ ~Accepted(s, f)
           => Outcome(s, f).ring = rings[s]
  BY Outcomes
<1> QED
  BY <1>1, <1>2 DEF Accepts

\* The age of a packet just accepted starts again from zero.
LEMMA HeardAges ==
  ASSUME RelayedTypes, NEW f, f.packet \in Packets, NEW hearers \in SUBSET Stations,
         NEW queues, Heard(f, hearers, queues), NEW s \in Stations, NEW p \in Packets
  PROVE  /\ accepted[s][p] \in Nat /\ accepted'[s][p] \in Nat
         /\ Accepts(s, f, hearers) /\ p = f.packet => accepted'[s][p] = 0
         /\ ~(Accepts(s, f, hearers) /\ p = f.packet) => accepted'[s][p] = accepted[s][p]
<1>1. /\ Accepts(s, f, hearers) => accepted'[s] = [accepted[s] EXCEPT ![f.packet] = 0]
      /\ ~Accepts(s, f, hearers) => accepted'[s] = accepted[s]
  BY DEF Heard, Accepts, Accepted
<1>2. accepted[s] \in [Packets -> 0 .. Window] /\ 0 \in 0 .. Window
  BY DEF RelayedTypes
<1> QED
  BY <1>1, <1>2

-----------------------------------------------------------------------------
(* A transmission keeps the invariant                                      *)

\* The rings stay sound.
LEMMA HeardRings ==
  ASSUME RingsSound, NEW f, f.packet \in Packets, NEW hearers \in SUBSET Stations, NEW queues,
         Heard(f, hearers, queues)
  PROVE  RingsSound'
<1> SUFFICES ASSUME NEW s \in Stations PROVE RingSound(rings'[s], RingSlots[s])
  BY DEF RingsSound
<1>1. RingSlots[s] \in Nat /\ RingSound(rings[s], RingSlots[s])
  BY DEF RingsSound
<1>2. RingSound(After(rings[s], f.packet), RingSlots[s])
  BY <1>1, CheckAndInsert
<1>3. rings'[s] = rings[s] \/ rings'[s] = After(rings[s], f.packet)
  BY HeardRing
<1> QED
  BY <1>1, <1>2, <1>3

\* A frame that fits, queued behind others that do, leaves a sound queue.
LEMMA QueueAppend ==
  ASSUME NEW q, QueueSound(q), NEW f, FrameFits(f)
  PROVE  QueueSound(Append(q, f))
<1>1. q \in Seq(Range(q)) /\ \A g \in Range(q) : FrameFits(g)
  BY DEF QueueSound
<1> DEFINE S == Range(q) \cup {f}
<1>2. q \in Seq(S)
  BY <1>1
<1> HIDE DEF S
<1>3. Append(q, f) \in Seq(S)
  BY <1>2, AppendProperties DEF S
<1>4. Append(q, f) \in Seq(Range(Append(q, f))) /\ Range(Append(q, f)) \subseteq S
  BY <1>3, RangeOfSeq, SeqOfRange
<1>5. \A g \in S : FrameFits(g)
  BY <1>1 DEF S
<1> QED
  BY <1>4, <1>5 DEF QueueSound

\* The queues keep holding frames of known packets with paths that fit.
LEMMA HeardQueues ==
  ASSUME NEW f, FrameSound(f), NEW hearers \in SUBSET Stations, NEW queues,
         \A s \in Stations : QueueSound(queues[s]), Heard(f, hearers, queues)
  PROVE  QueuesSound'
<1>1. /\ DOMAIN txq' = Stations /\ txq' = [s \in Stations |-> txq'[s]]
  BY DEF Heard
<1>2. ASSUME NEW s \in Stations PROVE QueueSound(txq'[s])
  <2>1. /\ Relays(s, f, hearers)
             => txq'[s] = Append(queues[s], Relayed(f, Outcome(s, f).path))
        /\ ~Relays(s, f, hearers) => txq'[s] = queues[s]
    BY DEF Heard, Relays
  <2>2. QueueSound(queues[s])
    OBVIOUS
  <2>3. Relays(s, f, hearers) => FrameFits(Relayed(f, Outcome(s, f).path))
    BY QueuedFits DEF Relays
  <2>4. Relays(s, f, hearers) => QueueSound(Append(queues[s], Relayed(f, Outcome(s, f).path)))
    BY <2>2, <2>3, QueueAppend
  <2> QED
    BY <2>1, <2>2, <2>4
<1> QED
  BY <1>1, <1>2 DEF QueuesSound

\* A ring with a slot for every packet still remembers every decision inside
\* the window: what it records evicts no other packet.
LEMMA HeardRemembers ==
  ASSUME RingsSound, RelayedTypes, Remembers, NEW f, f.packet \in Packets,
         NEW hearers \in SUBSET Stations, NEW queues, Heard(f, hearers, queues)
  PROVE  Remembers'
<1> SUFFICES ASSUME NEW s \in Stations, RingSlots[s] >= Cardinality(Packets),
                    NEW p \in Packets, accepted'[s][p] < Window
             PROVE  \E i \in 1 .. RingSlots[s] : /\ rings'[s].entries[i].fp = p
                                                 /\ rings'[s].entries[i].age <= accepted'[s][p]
  BY DEF Remembers
<1> DEFINE r == rings[s]
           n == RingSlots[s]
<1>1. n \in Nat /\ RingSound(r, n) /\ n >= Cardinality(Packets)
  BY DEF RingsSound
<1>2. /\ Fresh(r, f.packet) =>
           \E i \in 1 .. n : After(r, f.packet).entries[i] = [fp |-> f.packet, age |-> 0]
      /\ \A j \in 1 .. n : r.entries[j].fp \in Packets \ {f.packet}
                             => After(r, f.packet).entries[j] = r.entries[j]
      /\ \A j \in 1 .. n : \/ After(r, f.packet).entries[j] = r.entries[j]
                           \/ After(r, f.packet).entries[j] = [fp |-> f.packet, age |-> 0]
  <2> DEFINE q == f.packet
  <2>1. q \in Packets
    OBVIOUS
  <2> HIDE DEF q, r, n
  <2>2. /\ Fresh(r, q) => \E i \in 1 .. n : After(r, q).entries[i] = [fp |-> q, age |-> 0]
        /\ \A j \in 1 .. n : r.entries[j].fp \in Packets \ {q}
                               => After(r, q).entries[j] = r.entries[j]
    BY <1>1, <2>1, CheckAndInsert
  <2>3. \A j \in 1 .. n : \/ After(r, q).entries[j] = r.entries[j]
                          \/ After(r, q).entries[j] = [fp |-> q, age |-> 0]
    BY <1>1, <2>1, CheckAndInsert
  <2> QED
    BY <2>2, <2>3 DEF q
<1>3. /\ rings'[s] = r \/ rings'[s] = After(r, f.packet)
      /\ Accepts(s, f, hearers) => Fresh(r, f.packet) /\ rings'[s] = After(r, f.packet)
  BY HeardRing
<1>4. /\ Accepts(s, f, hearers) /\ p = f.packet => accepted'[s][p] = 0
      /\ ~(Accepts(s, f, hearers) /\ p = f.packet) => accepted'[s][p] = accepted[s][p]
  BY HeardAges
<1>5. accepted'[s][p] \in Nat
  BY HeardAges
<1>6. CASE Accepts(s, f, hearers) /\ p = f.packet
  BY <1>2, <1>3, <1>4, <1>6
<1>7. CASE ~(Accepts(s, f, hearers) /\ p = f.packet)
  <2>1. PICK i \in 1 .. n : r.entries[i].fp = p /\ r.entries[i].age <= accepted[s][p]
    BY <1>4, <1>7 DEF Remembers
  <2>2. CASE rings'[s].entries[i] = r.entries[i]
    BY <1>4, <1>7, <2>1, <2>2
  <2>3. CASE rings'[s].entries[i] # r.entries[i]
    <3>1. p = f.packet /\ rings'[s].entries[i] = [fp |-> f.packet, age |-> 0]
      BY <1>1, <1>2, <1>3, <2>1, <2>3
    <3> QED
      BY <1>5, <3>1
  <2> QED
    BY <2>2, <2>3
<1> QED
  BY <1>6, <1>7

\* What the embedded digipeater records it has accepted.
LEMMA HeardRecords ==
  ASSUME RingsSound, RelayedTypes, RecordsAccepted, NEW f, f.packet \in Packets,
         NEW hearers \in SUBSET Stations, NEW queues, Heard(f, hearers, queues)
  PROVE  RecordsAccepted'
<1> SUFFICES ASSUME NEW s \in Stations, Tier[s] # "workstation",
                    NEW i \in 1 .. RingSlots[s], NEW p \in Packets, rings'[s].entries[i].fp = p
             PROVE  accepted'[s][p] <= rings'[s].entries[i].age
  BY DEF RecordsAccepted
<1> DEFINE r == rings[s]
           n == RingSlots[s]
<1>1. n \in Nat /\ RingSound(r, n)
  BY DEF RingsSound
<1>2. r.entries[i].age \in Nat
  BY <1>1, SlotsOf
<1>3. /\ Accepts(s, f, hearers) /\ p = f.packet => accepted'[s][p] = 0
      /\ ~(Accepts(s, f, hearers) /\ p = f.packet) => accepted'[s][p] = accepted[s][p]
  BY HeardAges
<1>4. /\ rings'[s] = r \/ rings'[s] = After(r, f.packet)
      /\ ~Accepts(s, f, hearers) => rings'[s] = r
  BY HeardRing
<1>5. CASE rings'[s].entries[i] = r.entries[i]
  <2>1. accepted[s][p] <= r.entries[i].age
    BY <1>5 DEF RecordsAccepted
  <2> QED
    BY <1>2, <1>3, <1>5, <2>1
<1>6. CASE rings'[s].entries[i] # r.entries[i]
  <2>1. Accepts(s, f, hearers) /\ rings'[s] = After(r, f.packet)
    BY <1>4, <1>6
  <2>2. \/ After(r, f.packet).entries[i] = r.entries[i]
        \/ After(r, f.packet).entries[i] = [fp |-> f.packet, age |-> 0]
    <3> DEFINE q == f.packet
    <3>1. q \in Packets /\ i \in 1 .. n
      OBVIOUS
    <3> HIDE DEF q, r, n
    <3>2. \A j \in 1 .. n : \/ After(r, q).entries[j] = r.entries[j]
                            \/ After(r, q).entries[j] = [fp |-> q, age |-> 0]
      BY <1>1, <3>1, CheckAndInsert
    <3> QED
      BY <3>1, <3>2 DEF q
  <2>3. p = f.packet /\ rings'[s].entries[i].age = 0
    BY <1>6, <2>1, <2>2
  <2> QED
    BY <1>3, <2>1, <2>3
<1> QED
  BY <1>5, <1>6

\* The ages of the latest decisions stay within the window.
LEMMA HeardTypes ==
  ASSUME RelayedTypes, NEW f, f.packet \in Packets, NEW hearers \in SUBSET Stations,
         NEW queues, Heard(f, hearers, queues)
  PROVE  RelayedTypes'
<1>1. accepted' = [s \in Stations |-> IF Accepts(s, f, hearers)
                                     THEN [accepted[s] EXCEPT ![f.packet] = 0] ELSE accepted[s]]
  BY DEF Heard, Accepts, Accepted
<1>2. ASSUME NEW s \in Stations
      PROVE  [accepted[s] EXCEPT ![f.packet] = 0] \in [Packets -> 0 .. Window]
  BY DEF RelayedTypes
<1> QED
  BY <1>1, <1>2 DEF RelayedTypes

\* A station whose ring remembers finds no packet fresh that it accepted within
\* the window: the entry that made it relay is still there, and no older.
LEMMA FreshNotAgain ==
  ASSUME RingsSound, RelayedTypes, Remembers, NEW s \in Stations,
         RingSlots[s] >= Cardinality(Packets), NEW p \in Packets, Fresh(rings[s], p)
  PROVE  ~(accepted[s][p] < Window)
<1> SUFFICES ASSUME accepted[s][p] < Window PROVE FALSE
  OBVIOUS
<1> DEFINE r == rings[s]
           n == RingSlots[s]
<1>1. n \in Nat /\ RingSound(r, n)
  BY DEF RingsSound
<1>2. PICK i \in 1 .. n : r.entries[i].fp = p /\ r.entries[i].age <= accepted[s][p]
  BY DEF Remembers
<1>3. accepted[s][p] \in Nat
  BY DEF RelayedTypes
<1>4. Fresh(r, p)
  OBVIOUS
<1> HIDE DEF r, n
<1>5. r.entries[i].age \in Nat
  BY <1>1, SlotsOf
<1>6. r.entries[i].age >= Window
  BY <1>1, <1>2, <1>4, CheckAndInsert
<1> QED
  BY <1>2, <1>3, <1>5, <1>6

\* A packet that is not fresh to an embedded digipeater is one it has accepted
\* within the window, for it records nothing else.
LEMMA StaleAgain ==
  ASSUME RingsSound, RelayedTypes, RecordsAccepted, NEW s \in Stations,
         Tier[s] # "workstation", NEW p \in Packets, ~Fresh(rings[s], p)
  PROVE  accepted[s][p] < Window
<1> DEFINE r == rings[s]
           n == RingSlots[s]
<1>1. n \in Nat /\ RingSound(r, n) /\ ~Fresh(r, p)
  BY DEF RingsSound
<1>2. \A i \in 1 .. n : r.entries[i].fp = p => accepted[s][p] <= r.entries[i].age
  BY DEF RecordsAccepted
<1>3. accepted[s][p] \in Nat
  BY DEF RelayedTypes
<1> HIDE DEF r, n
<1>4. PICK i \in 1 .. n : r.entries[i].fp = p /\ r.entries[i].age < Window
  BY <1>1, CheckAndInsert
<1>5. r.entries[i].age \in Nat
  BY <1>1, SlotsOf
<1> QED
  BY <1>2, <1>3, <1>4, <1>5

\* No decision relays a packet again within the window on a ring that can hold
\* them all.
LEMMA HeardRelayedOnce ==
  ASSUME RingsSound, RelayedTypes, Remembers, NEW f, f.packet \in Packets,
         NEW hearers \in SUBSET Stations, NEW queues, Heard(f, hearers, queues)
  PROVE  RelayedOnce'
<1> SUFFICES ASSUME NEW d \in decisions', d.verdict = "relay",
                    RingSlots[d.station] >= Cardinality(Packets)
             PROVE  ~d.again
  BY DEF RelayedOnce
<1>1. PICK s \in hearers :
        d = [station |-> s, packet |-> f.packet, path |-> f.path,
             verdict |-> Outcome(s, f).verdict, again |-> accepted[s][f.packet] < Window]
  BY HeardDecisions
<1>2. s \in Stations /\ RingSlots[s] >= Cardinality(Packets) /\ Outcome(s, f).verdict = "relay"
  BY <1>1
<1>3. Fresh(rings[s], f.packet)
  BY <1>2, HeardRing DEF Accepts, Accepted
<1>4. ~(accepted[s][f.packet] < Window)
  BY <1>2, <1>3, FreshNotAgain
<1> QED
  BY <1>1, <1>4

\* No embedded digipeater suppresses what it has not accepted within the window.
LEMMA HeardServed ==
  ASSUME RingsSound, RelayedTypes, RecordsAccepted, NEW f, f.packet \in Packets,
         NEW hearers \in SUBSET Stations, NEW queues, Heard(f, hearers, queues)
  PROVE  EmbeddedServesNamedHop'
<1> SUFFICES ASSUME NEW d \in decisions', Tier[d.station] = "embedded", d.verdict = "duplicate"
             PROVE  d.again
  BY DEF EmbeddedServesNamedHop, ServesNamedHop
<1>1. PICK s \in hearers :
        d = [station |-> s, packet |-> f.packet, path |-> f.path,
             verdict |-> Outcome(s, f).verdict, again |-> accepted[s][f.packet] < Window]
  BY HeardDecisions, ZenonT(40)
<1>2. s \in Stations /\ Tier[s] # "workstation" /\ Outcome(s, f).verdict = "duplicate"
  BY <1>1
<1>3. ~Fresh(rings[s], f.packet)
  BY <1>2, Outcomes
<1>4. accepted[s][f.packet] < Window
  BY <1>2, <1>3, StaleAgain
<1> QED
  BY <1>1, <1>4

\* Together: a transmission of a known packet keeps the invariant.
LEMMA HeardInv ==
  ASSUME NetInv, NEW f, FrameSound(f), NEW hearers \in SUBSET Stations, NEW queues,
         \A s \in Stations : QueueSound(queues[s]), Heard(f, hearers, queues), SendsBounded'
  PROVE  NetInv'
<1>1. /\ RingsSound /\ RelayedTypes /\ Remembers /\ RecordsAccepted
      /\ f.packet \in Packets
  BY DEF NetInv, FrameSound
<1>2. RingsSound' /\ QueuesSound' /\ RelayedTypes'
  BY <1>1, HeardRings, HeardQueues, HeardTypes
<1>3. Remembers' /\ RecordsAccepted'
  BY <1>1, HeardRemembers, HeardRecords
<1>4. RelayedOnce' /\ EmbeddedServesNamedHop'
  BY <1>1, HeardRelayedOnce, HeardServed
<1> QED
  BY <1>2, <1>3, <1>4 DEF NetInv

-----------------------------------------------------------------------------
(* The steps                                                               *)

\* Empty rings are sound, and no relay has been made yet.
LEMMA InitInv == Init => NetInv
<1> SUFFICES ASSUME Init PROVE NetInv
  OBVIOUS
<1>1. RingsSound
  <2> SUFFICES ASSUME NEW s \in Stations PROVE RingSound(EmptyRing(RingSlots[s]), RingSlots[s])
    BY DEF Init, RingsSound
  <2> DEFINE n == RingSlots[s]
  <2>1. n \in Nat
    OBVIOUS
  <2> HIDE DEF n
  <2>2. RingSound(EmptyRing(n), n)
    BY <2>1 DEF EmptyRing, Free, RingSound, Entries, Unique, Full, FilledTo
  <2> QED
    BY <2>2 DEF n
<1>2. QueuesSound
  <2>1. << >> \in Seq(Range(<< >>)) /\ Range(<< >>) = {}
    BY DEF Range
  <2>2. QueueSound(<< >>)
    BY <2>1 DEF QueueSound
  <2> QED
    BY <2>2 DEF Init, QueuesSound
<1>3. RelayedTypes /\ \A s \in Stations, p \in Packets : accepted[s][p] = Window
  BY DEF Init, RelayedTypes
<1>4. Remembers
  BY <1>3 DEF Remembers
<1>5. RecordsAccepted
  BY DEF Init, RecordsAccepted, EmptyRing, Free
<1>6. SendsBounded /\ RelayedOnce /\ EmbeddedServesNamedHop
  BY DEF Init, SendsBounded, RelayedOnce, EmbeddedServesNamedHop
<1> QED
  BY <1>1, <1>2, <1>3, <1>4, <1>5, <1>6 DEF NetInv

\* The source sends a packet of its own.
LEMMA SendInv ==
  ASSUME NetInv, NEW p \in Packets, NEW request \in Requests[p], Send(p, request)
  PROVE  NetInv'
<1> DEFINE f == Frame(p, request, 0, HopBudget(request))
<1>1. PICK hearers \in SUBSET InRange[Source] : Heard(f, hearers, txq)
  BY DEF Send
<1>2. hearers \in SUBSET Stations
  BY <1>1
<1>3. FrameSound(f)
  <2>1. IsPath(request)
    BY RequestsAssumption, SeqOfRange DEF IsPath
  <2> QED
    BY <2>1 DEF Frame, FrameSound
<1>4. \A s \in Stations : QueueSound(txq[s])
  BY DEF NetInv, QueuesSound
<1>5. SendsBounded'
  <2>1. sends \in [Packets -> Nat] /\ \A t \in Packets : sends[t] <= MaxSends[t]
    BY DEF NetInv, SendsBounded
  <2>2. sends[p] < MaxSends[p] /\ sends' = [sends EXCEPT ![p] = @ + 1]
    BY DEF Send
  <2>3. \A t \in Packets : sends[t] \in Nat /\ MaxSends[t] \in Nat
    BY <2>1
  <2>4. sends' \in [Packets -> Nat]
    BY <2>1, <2>2
  <2>5. ASSUME NEW t \in Packets PROVE sends'[t] <= MaxSends[t]
    <3>1. sends'[t] = IF t = p THEN sends[p] + 1 ELSE sends[t]
      BY <2>1, <2>2
    <3> QED
      BY <2>1, <2>2, <2>3, <3>1
  <2> QED
    BY <2>4, <2>5 DEF SendsBounded
<1> HIDE DEF f
<1> QED
  BY <1>1, <1>2, <1>3, <1>4, <1>5, HeardInv

\* What is left of a sound queue is sound, and its head is a sound frame.
LEMMA QueueRest ==
  ASSUME NEW q, QueueSound(q), q # << >>
  PROVE  QueueSound(Tail(q)) /\ FrameSound(Head(q))
<1> DEFINE S == Range(q)
<1>1. q \in Seq(S) /\ \A g \in S : FrameFits(g)
  BY DEF QueueSound
<1> HIDE DEF S
<1>2. Head(q) \in S /\ Tail(q) \in Seq(S)
  BY <1>1, HeadTailProperties
<1>3. Tail(q) \in Seq(Range(Tail(q))) /\ Range(Tail(q)) \subseteq S
  BY <1>2, RangeOfSeq, SeqOfRange
<1> QED
  BY <1>1, <1>2, <1>3 DEF QueueSound, FrameFits

\* A station sends on what it queued.
LEMMA TransmitInv ==
  ASSUME NetInv, NEW s \in Stations, Transmit(s)
  PROVE  NetInv'
<1> DEFINE f == Head(txq[s])
           queues == [txq EXCEPT ![s] = Tail(@)]
<1>1. PICK hearers \in SUBSET InRange[s] : Heard(f, hearers, queues)
  BY DEF Transmit
<1>2. hearers \in SUBSET Stations
  BY <1>1
<1>3. FrameSound(f) /\ QueueSound(Tail(txq[s]))
  BY QueueRest DEF Transmit, NetInv, QueuesSound
<1>4. \A t \in Stations : queues[t] = IF t = s THEN Tail(txq[s]) ELSE txq[t]
  BY DEF NetInv, QueuesSound
<1>5. \A t \in Stations : QueueSound(queues[t])
  BY <1>3, <1>4 DEF NetInv, QueuesSound
<1>6. SendsBounded'
  BY DEF NetInv, SendsBounded, Transmit
<1> HIDE DEF f, queues
<1> QED
  BY <1>1, <1>2, <1>3, <1>5, <1>6, HeardInv

\* Rings and relays age together.
LEMMA TickInv == NetInv /\ Tick => NetInv'
<1> SUFFICES ASSUME NetInv, Tick PROVE NetInv'
  OBVIOUS
<1>1. ASSUME NEW s \in Stations
      PROVE  /\ RingSlots[s] \in Nat /\ RingSound(rings[s], RingSlots[s])
             /\ rings'[s] = Aged(rings[s])
  BY DEF NetInv, RingsSound, Tick
<1>2. ASSUME NEW s \in Stations
      PROVE  /\ RingSound(rings'[s], RingSlots[s])
             /\ \A i \in 1 .. RingSlots[s] :
                  /\ rings'[s].entries[i].fp = rings[s].entries[i].fp
                  /\ rings[s].entries[i].fp # 0 =>
                       rings'[s].entries[i].age = Older(rings[s].entries[i].age)
                  /\ rings[s].entries[i].age \in 0 .. Window
  <2> DEFINE r == rings[s]
             n == RingSlots[s]
  <2>1. n \in Nat /\ RingSound(r, n) /\ rings'[s] = Aged(r)
    BY <1>1
  <2> HIDE DEF r, n
  <2>2. /\ RingSound(Aged(r), n)
        /\ \A i \in 1 .. n : /\ Aged(r).entries[i].fp = r.entries[i].fp
                             /\ r.entries[i].fp # 0
                                  => Aged(r).entries[i].age = Older(r.entries[i].age)
    BY <2>1, AgedSound
  <2>3. \A i \in 1 .. n : r.entries[i].age \in 0 .. Window
    BY <2>1, SlotsOf
  <2> QED
    BY <2>1, <2>2, <2>3 DEF r, n
<1>3. \A a \in 0 .. Window : Older(a) \in 0 .. Window /\ a <= Older(a)
  BY DEF Older
<1>4. \A a, b \in 0 .. Window : a <= b => Older(a) <= Older(b)
  BY DEF Older
<1>5. RelayedTypes' /\ \A s \in Stations, p \in Packets :
        accepted[s][p] \in 0 .. Window /\ accepted'[s][p] = Older(accepted[s][p])
  BY <1>3 DEF NetInv, RelayedTypes, Tick
<1>6. RingsSound' /\ QueuesSound' /\ SendsBounded'
  BY <1>2 DEF NetInv, QueuesSound, RingsSound, SendsBounded, Tick
<1>7. Remembers'
  <2> SUFFICES ASSUME NEW s \in Stations, RingSlots[s] >= Cardinality(Packets),
                      NEW p \in Packets, accepted'[s][p] < Window
               PROVE  \E i \in 1 .. RingSlots[s] : /\ rings'[s].entries[i].fp = p
                                                   /\ rings'[s].entries[i].age <= accepted'[s][p]
    BY DEF Remembers
  <2>1. accepted[s][p] < Window
    BY <1>3, <1>5
  <2>2. PICK i \in 1 .. RingSlots[s] :
          rings[s].entries[i].fp = p /\ rings[s].entries[i].age <= accepted[s][p]
    BY <2>1 DEF NetInv, Remembers
  <2>3. /\ rings'[s].entries[i].fp = p
        /\ rings'[s].entries[i].age = Older(rings[s].entries[i].age)
        /\ rings[s].entries[i].age \in 0 .. Window
    BY <1>2, <2>2
  <2> QED
    BY <1>4, <1>5, <2>2, <2>3
<1>8. RecordsAccepted'
  <2> SUFFICES ASSUME NEW s \in Stations, Tier[s] # "workstation", NEW i \in 1 .. RingSlots[s],
                      NEW p \in Packets, rings'[s].entries[i].fp = p
               PROVE  accepted'[s][p] <= rings'[s].entries[i].age
    BY DEF RecordsAccepted
  <2>1. rings[s].entries[i].fp = p
    BY <1>2
  <2>2. /\ rings'[s].entries[i].age = Older(rings[s].entries[i].age)
        /\ rings[s].entries[i].age \in 0 .. Window
    BY <1>2, <2>1
  <2>3. accepted[s][p] <= rings[s].entries[i].age
    BY <2>1 DEF NetInv, RecordsAccepted
  <2> QED
    BY <1>4, <1>5, <2>2, <2>3
<1>9. RelayedOnce' /\ EmbeddedServesNamedHop'
  BY DEF Tick, RelayedOnce, EmbeddedServesNamedHop
<1> QED
  BY <1>5, <1>6, <1>7, <1>8, <1>9 DEF NetInv

-----------------------------------------------------------------------------
(* What a path still asks for                                              *)

\* g is what each prefix of up to n hops of a path asks for.
Sums(g, path, n) ==
  g = [k \in 0 .. n |-> IF k = 0 THEN 0 ELSE g[k - 1] + Asked(path[k])]

\* The recurrence, by itself.
Adds(g, path, n) == g[0] = 0 /\ \A k \in 1 .. n : g[k] = g[k - 1] + Asked(path[k])

LEMMA SumsStep ==
  ASSUME NEW path, NEW n \in Nat, NEW g, Sums(g, path, n)
  PROVE  Adds(g, path, n)
<1>1. \A k \in 0 .. n : g[k] = IF k = 0 THEN 0 ELSE g[k - 1] + Asked(path[k])
  BY DEF Sums
<1> QED
  BY <1>1 DEF Adds

\* There is such a function: no length is the least without one.
LEMMA SumsExists ==
  ASSUME NEW path, NEW n \in Nat
  PROVE  \E g : Sums(g, path, n)
<1> DEFINE T == {k \in Nat : ~ \E g : Sums(g, path, k)}
<1>1. SUFFICES ASSUME T # {} PROVE FALSE
  OBVIOUS
<1>2. PICK m \in T : \A y \in T : m <= y
  <2>1. T \subseteq Nat
    OBVIOUS
  <2> HIDE DEF T
  <2> QED
    BY <1>1, <2>1, LeastOf
<1>3. m \in Nat /\ ~ \E g : Sums(g, path, m)
  OBVIOUS
<1>4. m # 0
  <2> DEFINE g == [i \in 0 .. 0 |-> 0]
  <2>1. \A i \in 0 .. 0 : i = 0
    OBVIOUS
  <2>2. g = [i \in 0 .. 0 |-> IF i = 0 THEN 0 ELSE g[i - 1] + Asked(path[i])]
    BY <2>1
  <2>3. Sums(g, path, 0)
    BY <2>2 DEF Sums
  <2> QED
    BY <1>3, <2>3
<1>5. PICK h : Sums(h, path, m - 1)
  <2>1. m - 1 \in Nat /\ ~(m <= m - 1)
    BY <1>3, <1>4
  <2>2. m - 1 \notin T
    BY <1>2, <2>1
  <2> QED
    BY <2>1, <2>2
<1> DEFINE g == [i \in 0 .. m |-> IF i = m THEN h[m - 1] + Asked(path[m]) ELSE h[i]]
<1>6. ASSUME NEW i \in 0 .. m
      PROVE  g[i] = IF i = 0 THEN 0 ELSE g[i - 1] + Asked(path[i])
  <2>1. Adds(h, path, m - 1)
    BY <1>3, <1>4, <1>5, SumsStep
  <2>2. \A j \in 0 .. m - 1 : j \in 0 .. m /\ j # m /\ g[j] = h[j]
    BY <1>3
  <2>3. g[m] = h[m - 1] + Asked(path[m])
    BY <1>3
  <2> HIDE DEF g
  <2>4. CASE i = m
    <3>1. m - 1 \in 0 .. m - 1
      BY <1>3, <1>4
    <3> QED
      BY <1>4, <2>2, <2>3, <2>4, <3>1
  <2>5. CASE i # m
    <3>1. i \in 0 .. m - 1 /\ (i # 0 => i - 1 \in 0 .. m - 1 /\ i \in 1 .. m - 1)
      BY <1>3, <2>5
    <3>2. i # 0 => h[i] = h[i - 1] + Asked(path[i])
      BY <2>1, <3>1 DEF Adds
    <3> QED
      BY <2>1, <2>2, <3>1, <3>2 DEF Adds
  <2> QED
    BY <2>4, <2>5
<1>7. Sums(g, path, m)
  <2>1. g = [i \in 0 .. m |-> g[i]]
    OBVIOUS
  <2> HIDE DEF g
  <2> QED
    BY <1>6, <2>1 DEF Sums
<1> QED
  BY <1>3, <1>7

\* HopBudget is the last value of one.
LEMMA BudgetSums ==
  ASSUME NEW path, Len(path) \in Nat
  PROVE  \E g : /\ Sums(g, path, Len(path)) /\ Adds(g, path, Len(path))
                /\ HopBudget(path) = g[Len(path)]
<1> DEFINE c == CHOOSE g : Sums(g, path, Len(path))
<1>1. Sums(c, path, Len(path))
  BY SumsExists
<1>2. HopBudget(path) = c[Len(path)]
  BY DEF HopBudget, Sums
<1>3. Adds(c, path, Len(path))
  BY <1>1, SumsStep
<1> QED
  BY <1>1, <1>2, <1>3

\* A hop that could ask for relays is an address with a number; no hop asks for
\* a negative number of them.
HopSound(hop) == hop.used \/ hop \in [addr : STRING \X Nat, used : BOOLEAN]
PathSound(path) == IsPath(path) /\ \A k \in 1 .. Len(path) : HopSound(path[k])

LEMMA AskedType ==
  ASSUME NEW hop, HopSound(hop)
  PROVE  Asked(hop) \in Nat
BY DEF Asked, HopSound, Remaining

NeverNegative(g, n) == \A k \in 0 .. n : g[k] \in Nat

\* Neither does any prefix of a path.
LEMMA SumsType ==
  ASSUME NEW path, NEW n \in Nat, \A k \in 1 .. n : Asked(path[k]) \in Nat,
         NEW g, Adds(g, path, n)
  PROVE  NeverNegative(g, n)
<1> DEFINE T == {k \in 0 .. n : g[k] \notin Nat}
<1>1. SUFFICES ASSUME T # {} PROVE FALSE
  BY DEF NeverNegative
<1>2. PICK k \in T : \A y \in T : k <= y
  <2>1. T \subseteq Nat
    OBVIOUS
  <2> HIDE DEF T
  <2> QED
    BY <1>1, <2>1, LeastOf
<1>3. k # 0
  BY DEF Adds
<1>4. k \in 1 .. n /\ k - 1 \in 0 .. n /\ ~(k <= k - 1)
  BY <1>3
<1>5. g[k - 1] \in Nat
  BY <1>2, <1>4
<1> QED
  BY <1>4, <1>5 DEF Adds

\* The hops of q at a + 1 + d to b + d ask for what those of p at a + 1 to b do.
AskAlike(p, q, a, b, d) ==
  \A k \in a + 1 .. b : Asked(q[k + d]) = Asked(p[k]) /\ Asked(p[k]) \in Nat

\* g sums the m hops of p, h the n hops of q; from a to b the hops of q ask for
\* the same, d places on, and what they ask for up to a differs by c.
Shifted(g, p, m, h, q, n, a, b, d, c) ==
  /\ m \in Nat /\ Adds(g, p, m) /\ NeverNegative(g, m)
  /\ n \in Nat /\ Adds(h, q, n)
  /\ a \in Nat /\ b \in Nat /\ a <= b /\ b <= m
  /\ d \in Nat /\ c \in Int /\ b + d <= n
  /\ AskAlike(p, q, a, b, d) /\ h[a + d] = g[a] + c

\* Then it differs by c up to b, too.
LEMMA SumsShift ==
  ASSUME NEW g, NEW p, NEW m, NEW h, NEW q, NEW n, NEW a, NEW b, NEW d, NEW c,
         Shifted(g, p, m, h, q, n, a, b, d, c)
  PROVE  h[b + d] = g[b] + c
<1> USE DEF Shifted
<1> DEFINE T == {k \in a .. b : h[k + d] # g[k] + c}
<1>1. SUFFICES ASSUME T # {} PROVE FALSE
  <2>1. b \in a .. b
    OBVIOUS
  <2> QED
    BY <2>1
<1>2. PICK k \in T : \A y \in T : k <= y
  <2>1. T \subseteq Nat
    OBVIOUS
  <2> HIDE DEF T
  <2> QED
    BY <1>1, <2>1, LeastOf
<1>3. k \in a .. b /\ h[k + d] # g[k] + c
  OBVIOUS
<1>4. k # a
  BY <1>3
<1>5. /\ k \in a + 1 .. b /\ k - 1 \in a .. b /\ ~(k <= k - 1) /\ k \in 1 .. m
      /\ k + d \in 1 .. n /\ k - 1 \in 0 .. m /\ (k + d) - 1 = (k - 1) + d
  BY <1>3, <1>4
<1>6. h[(k - 1) + d] = g[k - 1] + c
  BY <1>2, <1>5
<1>7. h[k + d] = h[(k - 1) + d] + Asked(q[k + d])
  BY <1>5 DEF Adds
<1>8. g[k] = g[k - 1] + Asked(p[k]) /\ g[k - 1] \in Nat /\ Asked(p[k]) \in Nat
  BY <1>5 DEF Adds, AskAlike, NeverNegative
<1>9. Asked(q[k + d]) = Asked(p[k])
  BY <1>5 DEF AskAlike
<1> QED
  BY <1>3, <1>6, <1>7, <1>8, <1>9

\* Changing one hop changes the sum by what it asks for.
LEMMA ChangedBudget ==
  ASSUME NEW p, PathSound(p), NEW q, PathSound(q), Len(q) = Len(p), NEW i \in 1 .. Len(p),
         \A k \in 1 .. Len(p) : k # i => q[k] = p[k]
  PROVE  HopBudget(q) = HopBudget(p) - Asked(p[i]) + Asked(q[i]) /\ HopBudget(p) \in Nat
<1> DEFINE n == Len(p)
<1>1. n \in Nat /\ i \in 1 .. n /\ Len(q) = n
  BY LenProperties DEF PathSound, IsPath
<1>2. \A k \in 1 .. n : Asked(p[k]) \in Nat /\ Asked(q[k]) \in Nat
  BY AskedType DEF PathSound
<1>3. PICK g : Adds(g, p, n) /\ HopBudget(p) = g[n]
  BY <1>1, BudgetSums
<1>4. PICK h : Adds(h, q, n) /\ HopBudget(q) = h[n]
  BY <1>1, BudgetSums
<1>5. \A k \in 1 .. n : k # i => Asked(q[k]) = Asked(p[k])
  OBVIOUS
<1> HIDE DEF n
<1>6. NeverNegative(g, n) /\ NeverNegative(h, n)
  BY <1>1, <1>2, <1>3, <1>4, SumsType
<1>7. h[i - 1] = g[i - 1]
  <2> DEFINE b == i - 1
             z == 0
  <2>1. b \in Nat /\ z <= b /\ b <= n /\ b + z <= n /\ z \in Nat /\ z \in Int
    BY <1>1
  <2>2. AskAlike(p, q, z, b, z)
    BY <1>1, <1>2, <1>5 DEF AskAlike
  <2>3. h[z + z] = g[z] + z
    BY <1>3, <1>4 DEF Adds
  <2> HIDE DEF z, b
  <2>5. Shifted(g, p, n, h, q, n, z, b, z, z)
    BY <1>1, <1>3, <1>4, <1>6, <2>1, <2>2, <2>3 DEF Shifted
  <2>4. h[b + z] = g[b] + z
    BY <2>5, SumsShift
  <2> QED
    BY <1>1, <1>6, <2>1, <2>4 DEF NeverNegative, z, b
<1> DEFINE c == Asked(q[i]) - Asked(p[i])
<1>8. h[i] = g[i] + c /\ c \in Int
  <2>1. h[i] = h[i - 1] + Asked(q[i]) /\ g[i] = g[i - 1] + Asked(p[i])
    BY <1>1, <1>3, <1>4 DEF Adds
  <2>2. g[i - 1] \in Nat
    BY <1>1, <1>6 DEF NeverNegative
  <2>3. Asked(q[i]) \in Nat /\ Asked(p[i]) \in Nat
    BY <1>1, <1>2
  <2> DEFINE a == g[i - 1]
             x == Asked(q[i])
             y == Asked(p[i])
  <2>4. h[i] = a + x /\ g[i] = a + y /\ a \in Nat /\ x \in Nat /\ y \in Nat
    BY <1>7, <2>1, <2>2, <2>3
  <2> HIDE DEF a, x, y
  <2>5. h[i] = g[i] + (x - y) /\ x - y \in Int
    BY <2>4
  <2> QED
    BY <2>5 DEF x, y
<1>9. h[n] = g[n] + c
  <2> DEFINE z == 0
             b == n
  <2>1. z \in Nat /\ i \in Nat /\ b \in Nat /\ i <= b /\ b <= n /\ b + z <= n
    BY <1>1
  <2>2. AskAlike(p, q, i, b, z)
    BY <1>1, <1>2, <1>5 DEF AskAlike
  <2>3. h[i + z] = g[i] + c
    BY <1>1, <1>8
  <2> HIDE DEF z, b, c
  <2>5. Shifted(g, p, n, h, q, n, i, b, z, c)
    BY <1>1, <1>3, <1>4, <1>6, <1>8, <2>1, <2>2, <2>3 DEF Shifted
  <2>4. h[b + z] = g[b] + c
    BY <2>5, SumsShift
  <2> QED
    BY <1>1, <2>4 DEF z, b
<1>10. g[n] \in Nat
  BY <1>1, <1>6 DEF NeverNegative
<1> QED
  BY <1>1, <1>2, <1>3, <1>4, <1>9, <1>10

\* Inserting a used hop leaves it.
LEMMA InsertedBudget ==
  ASSUME NEW p, PathSound(p), NEW q, PathSound(q), Len(q) = Len(p) + 1, NEW i \in 1 .. Len(p),
         \A k \in 1 .. i - 1 : q[k] = p[k],
         q[i].used,
         \A k \in i .. Len(p) : q[k + 1] = p[k]
  PROVE  HopBudget(q) = HopBudget(p)
<1> DEFINE n == Len(p)
<1>1. n \in Nat /\ i \in 1 .. n /\ Len(q) = n + 1 /\ n + 1 \in Nat
  BY LenProperties DEF PathSound, IsPath
<1>2. \A k \in 1 .. n : Asked(p[k]) \in Nat
  BY AskedType DEF PathSound
<1>3. PICK g : Adds(g, p, n) /\ HopBudget(p) = g[n]
  BY <1>1, BudgetSums
<1>4. PICK h : Adds(h, q, n + 1) /\ HopBudget(q) = h[n + 1]
  <2>1. \E h : Adds(h, q, Len(q)) /\ HopBudget(q) = h[Len(q)]
    BY <1>1, BudgetSums
  <2> QED
    BY <1>1, <2>1
<1>5. /\ \A k \in 1 .. i - 1 : Asked(q[k]) = Asked(p[k])
      /\ \A k \in i .. n : Asked(q[k + 1]) = Asked(p[k])
      /\ Asked(q[i]) = 0
  BY DEF Asked
<1> HIDE DEF n
<1>6. NeverNegative(g, n)
  BY <1>1, <1>2, <1>3, SumsType
<1>7. h[i - 1] = g[i - 1]
  <2> DEFINE b == i - 1
             z == 0
             m == n + 1
  <2>1. b \in Nat /\ z <= b /\ b <= n /\ b + z <= m /\ z \in Nat /\ z \in Int /\ m \in Nat
    BY <1>1
  <2>2. AskAlike(p, q, z, b, z)
    BY <1>1, <1>2, <1>5 DEF AskAlike
  <2>3. h[z + z] = g[z] + z
    BY <1>3, <1>4 DEF Adds
  <2>4. Adds(h, q, m)
    BY <1>4
  <2> HIDE DEF z, b, m
  <2>6. Shifted(g, p, n, h, q, m, z, b, z, z)
    BY <1>1, <1>3, <1>6, <2>1, <2>2, <2>3, <2>4 DEF Shifted
  <2>5. h[b + z] = g[b] + z
    BY <2>6, SumsShift
  <2> QED
    BY <1>1, <1>6, <2>1, <2>5 DEF NeverNegative, z, b
<1>8. h[i] = g[i - 1]
  <2>1. h[i] = h[i - 1] + Asked(q[i])
    BY <1>1, <1>4 DEF Adds
  <2>2. g[i - 1] \in Nat
    BY <1>1, <1>6 DEF NeverNegative
  <2> QED
    BY <1>5, <1>7, <2>1, <2>2
<1>9. h[n + 1] = g[n]
  <2> DEFINE a == i - 1
             b == n
             d == 1
             z == 0
             m == n + 1
  <2>1. /\ d \in Nat /\ z \in Int /\ m \in Nat /\ a \in Nat /\ b \in Nat
        /\ a <= b /\ b <= n /\ b + d <= m
    BY <1>1
  <2>2. AskAlike(p, q, a, b, d)
    BY <1>1, <1>2, <1>5 DEF AskAlike
  <2>3. h[a + d] = g[a] + z
    <3>1. g[i - 1] \in Nat /\ (i - 1) + 1 = i
      BY <1>1, <1>6 DEF NeverNegative
    <3>2. g[i - 1] + 0 = g[i - 1] /\ h[(i - 1) + 1] = g[i - 1]
      BY <1>8, <3>1
    <3> QED
      BY <3>2
  <2>4. Adds(h, q, m)
    BY <1>4
  <2> HIDE DEF z, a, b, d, m
  <2>7. Shifted(g, p, n, h, q, m, a, b, d, z)
    BY <1>1, <1>3, <1>6, <2>1, <2>2, <2>3, <2>4 DEF Shifted
  <2>5. h[b + d] = g[b] + z
    BY <2>7, SumsShift
  <2>6. g[n] \in Nat
    BY <1>1, <1>6 DEF NeverNegative
  <2> QED
    BY <1>1, <2>5, <2>6 DEF z, b, d
<1> QED
  BY <1>1, <1>3, <1>4, <1>9

\* A used hop asks for nothing.
LEMMA UsedHopSound == \A addr : HopSound(UsedHop(addr)) /\ Asked(UsedHop(addr)) = 0
BY DEF HopSound, UsedHop, Asked

\* A hop that has yet to be served, and the two forms it is accepted in.
LEMMA HopForms ==
  ASSUME NEW hop, HopSound(hop), ~hop.used
  PROVE  /\ Remaining(hop.addr) = 1 \/ ~IsWide(hop.addr) => Asked(hop) = 1
         /\ LET served == [hop EXCEPT !.used = TRUE]
            IN  HopSound(served) /\ Asked(served) = 0
         /\ IsWide(hop.addr) /\ Remaining(hop.addr) > 1 =>
              LET spent == [hop EXCEPT !.addr[2] = @ - 1]
              IN  HopSound(spent) /\ Asked(spent) = Asked(hop) - 1
<1>1. hop \in [addr : STRING \X Nat, used : BOOLEAN]
  BY DEF HopSound
<1>2. PICK c \in STRING, n \in Nat : hop.addr = <<c, n>>
  <2>1. hop.addr \in STRING \X Nat
    BY <1>1
  <2>2. \A a \in STRING \X Nat : a = <<a[1], a[2]>> /\ a[1] \in STRING /\ a[2] \in Nat
    OBVIOUS
  <2> QED
    BY <2>1, <2>2, Zenon
<1>3. hop = [addr |-> <<c, n>>, used |-> FALSE]
  BY <1>1, <1>2
<1>4. Remaining(hop.addr) = 1 \/ ~IsWide(hop.addr) => Asked(hop) = 1
  BY DEF Asked
<1>5. HopSound([hop EXCEPT !.used = TRUE]) /\ Asked([hop EXCEPT !.used = TRUE]) = 0
  BY <1>1 DEF HopSound, Asked
<1>6. ASSUME IsWide(hop.addr), Remaining(hop.addr) > 1
      PROVE  /\ HopSound([hop EXCEPT !.addr[2] = @ - 1])
             /\ Asked([hop EXCEPT !.addr[2] = @ - 1]) = Asked(hop) - 1
  <2> DEFINE addr == <<c, n - 1>>
             spent == [addr |-> addr, used |-> FALSE]
  <2>1. [hop EXCEPT !.addr[2] = @ - 1] = spent
    <3>1. [hop EXCEPT !.addr[2] = @ - 1] = [hop EXCEPT !.addr = [hop.addr EXCEPT ![2] = @ - 1]]
      BY <1>3
    <3>2. [hop.addr EXCEPT ![2] = @ - 1] = addr
      BY <1>2
    <3> DEFINE less == [hop.addr EXCEPT ![2] = @ - 1]
    <3>3. [hop EXCEPT !.addr = addr] = spent
      <4> HIDE DEF addr, less
      <4>1. \A r \in [addr : STRING \X Nat, used : BOOLEAN] : \A a :
              [r EXCEPT !.addr = a] = [addr |-> a, used |-> r.used]
        OBVIOUS
      <4>2. hop.used = FALSE
        BY <1>3
      <4> QED
        BY <1>1, <4>1, <4>2
    <3>4. [hop EXCEPT !.addr[2] = @ - 1] = [hop EXCEPT !.addr = less]
      BY <3>1
    <3>5. less = addr
      BY <3>2
    <3> HIDE DEF addr, spent, less
    <3> QED
      BY <3>3, <3>4, <3>5
  <2>2. n > 1 /\ n - 1 \in Nat
    BY <1>2, <1>6 DEF Remaining
  <2>3. HopSound(spent)
    BY <2>2 DEF HopSound
  <2>4. IsWide(addr) /\ Remaining(addr) = n - 1
    BY <1>2, <1>6 DEF IsWide, Remaining
  <2>5. Asked(spent) = n - 1
    BY <2>4 DEF Asked
  <2>6. Asked(hop) = n
    BY <1>2, <1>6 DEF Asked, Remaining
  <2> QED
    BY <2>1, <2>3, <2>5, <2>6
<1> QED
  BY <1>4, <1>5, <1>6

\* out is path with another hop at i.
ChangedAt(out, path, i, e) == out = [path EXCEPT ![i] = e]

\* Changing a hop to a sound one leaves a path sound.
LEMMA ChangedSound ==
  ASSUME NEW path, PathSound(path), NEW i \in 1 .. Len(path), NEW e, HopSound(e),
         NEW out, ChangedAt(out, path, i, e)
  PROVE  PathSound(out) /\ HopBudget(out) = HopBudget(path) - Asked(path[i]) + Asked(e)
<1>1. IsPath(path) /\ \A k \in 1 .. Len(path) : HopSound(path[k])
  BY DEF PathSound
<1>2. IsPath(out) /\ Len(out) = Len(path)
  BY <1>1, ChangeProperties DEF ChangedAt
<1>3. DOMAIN path = 1 .. Len(path)
  BY <1>1, LenProperties DEF IsPath
<1>4. \A k \in 1 .. Len(path) : out[k] = IF k = i THEN e ELSE path[k]
  BY <1>3 DEF ChangedAt
<1>5. PathSound(out)
  BY <1>1, <1>2, <1>4 DEF PathSound
<1>6. out[i] = e /\ \A k \in 1 .. Len(path) : k # i => out[k] = path[k]
  BY <1>4
<1>7. HopBudget(out) = HopBudget(path) - Asked(path[i]) + Asked(out[i])
  BY <1>2, <1>5, <1>6, ChangedBudget
<1> QED
  BY <1>5, <1>6, <1>7

\* Whatever rule relays a path, it asks for one relay less.
LEMMA RelayedBudget ==
  ASSUME NEW s \in Stations, NEW path, PathSound(path),
         relay_decision(path, Policy[s]).verdict = "relay"
  PROVE  /\ PathSound(relay_decision(path, Policy[s]).path) /\ HopBudget(path) \in Nat
         /\ HopBudget(relay_decision(path, Policy[s]).path) = HopBudget(path) - 1
<1> DEFINE i == FirstUnused(path)
           hop == path[i]
           out == relay_decision(path, Policy[s]).path
<1>1. IsPath(path) /\ \A k \in 1 .. Len(path) : HopSound(path[k])
  BY DEF PathSound
<1>2. /\ i \in 1 .. Len(path) /\ ~hop.used /\ ByRule(path, Policy[s], i, hop.addr, out)
      /\ HopSound(hop)
  BY <1>1, RelayRules
<1>3. HopBudget(path) \in Nat
  BY <1>2, ChangedBudget
<1> HIDE DEF i, out
<1>7. i \in 1 .. Len(path)
  BY <1>2
<1> SUFFICES PathSound(out) /\ HopBudget(out) = HopBudget(path) - 1
  BY <1>3 DEF out
<1>4. CASE hop.addr \in Policy[s].exact /\ \E addr : out = [path EXCEPT ![i] = UsedHop(addr)]
  <2>1. PICK addr : out = [path EXCEPT ![i] = UsedHop(addr)]
    BY <1>4
  <2>2. Asked(hop) = 1
    BY <1>2, <1>4, AliasesAssumption, HopForms
  <2> DEFINE e == UsedHop(addr)
  <2>3. HopSound(e) /\ Asked(e) = 0 /\ ChangedAt(out, path, i, e)
    BY <2>1, UsedHopSound DEF ChangedAt
  <2> HIDE DEF e
  <2>4. PathSound(out) /\ HopBudget(out) = HopBudget(path) - Asked(hop) + Asked(e)
    BY <1>7, <2>3, ChangedSound
  <2> QED
    BY <1>3, <2>2, <2>3, <2>4
<1>5. CASE /\ IsWide(hop.addr) /\ Remaining(hop.addr) = 1
           /\ out = [path EXCEPT ![i] = [hop EXCEPT !.used = TRUE]]
  <2> DEFINE e == [hop EXCEPT !.used = TRUE]
  <2>1. Asked(hop) = 1 /\ HopSound(e) /\ Asked(e) = 0 /\ ChangedAt(out, path, i, e)
    BY <1>2, <1>5, HopForms DEF ChangedAt
  <2> HIDE DEF e
  <2>2. PathSound(out) /\ HopBudget(out) = HopBudget(path) - Asked(hop) + Asked(e)
    BY <1>7, <2>1, ChangedSound
  <2> QED
    BY <1>3, <2>1, <2>2
<1>6. CASE /\ IsWide(hop.addr) /\ Remaining(hop.addr) \in 1 .. WideClass[hop.addr[1]]
           /\ Remaining(hop.addr) # 1
           /\ \E addr : out = InsertAt(Spent(path, i), i, UsedHop(addr))
  <2> DEFINE e == [hop EXCEPT !.addr[2] = @ - 1]
             spent == Spent(path, i)
  <2>1. HopSound(e) /\ Asked(e) = Asked(hop) - 1
    <3>1. Remaining(hop.addr) \in Nat /\ Remaining(hop.addr) > 1
      BY <1>6
    <3> QED
      BY <1>2, <1>6, <3>1, HopForms
  <2>2. ChangedAt(spent, path, i, e)
    BY DEF Spent, ChangedAt
  <2>3. Asked(hop) \in Nat
    BY <1>2, AskedType
  <2> HIDE DEF e, spent
  <2>4. PathSound(spent) /\ HopBudget(spent) = HopBudget(path) - Asked(hop) + Asked(e)
    BY <1>2, <2>1, <2>2, ChangedSound
  <2>5. IsPath(spent) /\ Len(spent) = Len(path)
    BY <1>1, <1>2, SpentProperties DEF spent
  <2>6. PICK addr : out = InsertAt(spent, i, UsedHop(addr))
    BY <1>6 DEF spent
  <2> DEFINE u == UsedHop(addr)
  <2>7. HopSound(u) /\ u.used /\ out = InsertAt(spent, i, u)
    BY <2>6, UsedHopSound DEF UsedHop
  <2> HIDE DEF u
  <2>8. /\ IsPath(out) /\ Len(out) = Len(spent) + 1
        /\ \A k \in 1 .. i - 1 : out[k] = spent[k]
        /\ out[i] = u
        /\ \A k \in i .. Len(spent) : out[k + 1] = spent[k]
    BY <1>2, <2>5, <2>7, InsertProperties
  <2>9. ASSUME NEW k \in 1 .. Len(out) PROVE HopSound(out[k])
    <3>1. Len(spent) \in Nat
      BY <2>5, LenProperties DEF IsPath
    <3>2. \A j \in 1 .. Len(spent) : HopSound(spent[j])
      BY <2>4 DEF PathSound
    <3>3. CASE k < i
      BY <1>2, <2>5, <2>8, <3>1, <3>2, <3>3
    <3>4. CASE k = i
      BY <2>7, <2>8, <3>4
    <3>5. CASE k > i
      <4>1. k - 1 \in i .. Len(spent) /\ k - 1 \in 1 .. Len(spent) /\ (k - 1) + 1 = k
        BY <1>2, <2>5, <2>8, <3>1, <3>5
      <4>2. out[(k - 1) + 1] = spent[k - 1]
        BY <2>8, <4>1
      <4> QED
        BY <3>2, <4>1, <4>2
    <3> QED
      BY <1>2, <3>3, <3>4, <3>5
  <2>10. PathSound(out)
    BY <2>8, <2>9 DEF PathSound
  <2>12. i \in 1 .. Len(spent)
    BY <1>7, <2>5
  <2>11. HopBudget(out) = HopBudget(spent)
    BY <2>12, <2>4, <2>7, <2>8, <2>10, InsertedBudget
  <2> QED
    BY <1>3, <2>1, <2>3, <2>4, <2>10, <2>11
<1> QED
  BY <1>2, <1>4, <1>5, <1>6 DEF ByRule

-----------------------------------------------------------------------------
(* The flood law                                                           *)

\* Relays made plus relays still asked for is what the source requested.
FrameLaw(f) == /\ PathSound(f.path) /\ f.depth \in Nat /\ f.asked \in Nat
               /\ f.depth + HopBudget(f.path) = f.asked
QueueLaw(q) == \A f \in Range(q) : FrameLaw(f)
FloodLaw == \A s \in Stations : QueueLaw(txq[s])

LEMMA LawAppend ==
  ASSUME NEW q, QueueSound(q), QueueLaw(q), NEW f, FrameLaw(f)
  PROVE  QueueLaw(Append(q, f))
<1> DEFINE S == Range(q) \cup {f}
<1>1. q \in Seq(S)
  BY DEF QueueSound
<1> HIDE DEF S
<1>2. Append(q, f) \in Seq(S)
  BY <1>1, AppendProperties DEF S
<1>3. Range(Append(q, f)) \subseteq S
  BY <1>2, RangeOfSeq
<1>4. \A g \in S : FrameLaw(g)
  BY DEF QueueLaw, S
<1> QED
  BY <1>3, <1>4 DEF QueueLaw

LEMMA LawRest ==
  ASSUME NEW q, QueueSound(q), QueueLaw(q), q # << >>
  PROVE  QueueLaw(Tail(q)) /\ FrameLaw(Head(q))
<1> DEFINE S == Range(q)
<1>1. q \in Seq(S) /\ \A g \in S : FrameLaw(g)
  BY DEF QueueSound, QueueLaw
<1> HIDE DEF S
<1>2. Head(q) \in S /\ Tail(q) \in Seq(S)
  BY <1>1, HeadTailProperties
<1>3. Range(Tail(q)) \subseteq S
  BY <1>2, RangeOfSeq
<1> QED
  BY <1>1, <1>2, <1>3 DEF QueueLaw

\* A relay adds one to the relays made and takes one from those asked for.
LEMMA QueuedLaw ==
  ASSUME NEW s \in Stations, NEW f, FrameLaw(f), Outcome(s, f).verdict = "relay"
  PROVE  FrameLaw(Relayed(f, Outcome(s, f).path))
<1> DEFINE d == relay_decision(f.path, Policy[s])
           p == Outcome(s, f).path
<1>1. d.verdict = "relay" /\ p = d.path
  BY DEF Outcome, push, consider, relay_one, Ignore
<1>2. /\ PathSound(f.path) /\ f.depth \in Nat /\ f.asked \in Nat
      /\ f.depth + HopBudget(f.path) = f.asked
  BY DEF FrameLaw
<1>3. PathSound(d.path) /\ HopBudget(f.path) \in Nat /\ HopBudget(d.path) = HopBudget(f.path) - 1
  BY <1>1, <1>2, RelayedBudget
<1> HIDE DEF d, p
<1>4. f.depth <= f.asked
  BY <1>2, <1>3
<1>5. Relayed(f, p) = Frame(f.packet, p, f.depth + 1, f.asked)
  BY <1>4 DEF Relayed
<1>6. f.depth + 1 + HopBudget(p) = f.asked
  BY <1>1, <1>2, <1>3
<1>7. FrameLaw(Frame(f.packet, p, f.depth + 1, f.asked))
  BY <1>1, <1>2, <1>3, <1>6 DEF FrameLaw, Frame
<1> QED
  BY <1>5, <1>7 DEF p

\* A transmission that obeys the law, heard by stations whose queues do, leaves
\* queues that do.
LEMMA HeardLaw ==
  ASSUME NEW f, FrameLaw(f), NEW hearers \in SUBSET Stations, NEW queues,
         \A s \in Stations : QueueSound(queues[s]) /\ QueueLaw(queues[s]),
         Heard(f, hearers, queues)
  PROVE  FloodLaw'
<1> SUFFICES ASSUME NEW s \in Stations PROVE QueueLaw(txq'[s])
  BY DEF FloodLaw, QueueLaw, FrameLaw
<1>1. /\ Relays(s, f, hearers)
           => txq'[s] = Append(queues[s], Relayed(f, Outcome(s, f).path))
      /\ ~Relays(s, f, hearers) => txq'[s] = queues[s]
  BY DEF Heard, Relays
<1>2. Relays(s, f, hearers) => FrameLaw(Relayed(f, Outcome(s, f).path))
  BY QueuedLaw DEF Relays
<1>3. Relays(s, f, hearers) => QueueLaw(Append(queues[s], Relayed(f, Outcome(s, f).path)))
  BY <1>2, LawAppend
<1> QED
  BY <1>1, <1>3

\* The law holds of the frames a source sends, by definition of what it asks for.
LEMMA SendLaw ==
  ASSUME NetInv, FloodLaw, NEW p \in Packets, NEW request \in Requests[p], Send(p, request)
  PROVE  FloodLaw'
<1> DEFINE f == Frame(p, request, 0, HopBudget(request))
<1>1. PICK hearers \in SUBSET InRange[Source] : Heard(f, hearers, txq)
  BY DEF Send
<1>2. hearers \in SUBSET Stations
  BY <1>1
<1>3. FrameLaw(f)
  <2> DEFINE Hops == [addr : STRING \X Nat, used : BOOLEAN]
  <2>1. request \in Seq(Hops)
    BY RequestsAssumption
  <2>2. \A k \in 1 .. Len(request) : request[k] \in Hops
    <3> HIDE DEF Hops
    <3> QED
      BY <2>1, ElementOfSeq
  <2>3. IsPath(request)
    BY <2>1, SeqOfRange DEF IsPath
  <2>4. PathSound(request)
    BY <2>2, <2>3 DEF PathSound, HopSound
  <2>5. Len(request) \in Nat
    BY <2>1, LenProperties
  <2>6. HopBudget(request) \in Nat
    <3>1. PICK g : Adds(g, request, Len(request)) /\ HopBudget(request) = g[Len(request)]
      BY <2>5, BudgetSums
    <3>2. \A k \in 1 .. Len(request) : Asked(request[k]) \in Nat
      BY <2>4, AskedType DEF PathSound
    <3>3. NeverNegative(g, Len(request))
      BY <2>5, <3>1, <3>2, SumsType
    <3> QED
      BY <2>5, <3>1, <3>3 DEF NeverNegative
  <2> QED
    BY <2>4, <2>6 DEF FrameLaw, Frame
<1>4. \A s \in Stations : QueueSound(txq[s]) /\ QueueLaw(txq[s])
  BY DEF NetInv, QueuesSound, FloodLaw
<1> HIDE DEF f
<1> QED
  BY <1>1, <1>2, <1>3, <1>4, HeardLaw

\* A station sends on what it queued.
LEMMA TransmitLaw ==
  ASSUME NetInv, FloodLaw, NEW s \in Stations, Transmit(s)
  PROVE  FloodLaw'
<1> DEFINE f == Head(txq[s])
           queues == [txq EXCEPT ![s] = Tail(@)]
<1>1. PICK hearers \in SUBSET InRange[s] : Heard(f, hearers, queues)
  BY DEF Transmit
<1>2. hearers \in SUBSET Stations
  BY <1>1
<1>3. \A t \in Stations : QueueSound(txq[t]) /\ QueueLaw(txq[t])
  BY DEF NetInv, QueuesSound, FloodLaw
<1>4. FrameLaw(f) /\ QueueLaw(Tail(txq[s])) /\ QueueSound(Tail(txq[s]))
  BY <1>3, QueueRest, LawRest DEF Transmit
<1>5. \A t \in Stations : queues[t] = IF t = s THEN Tail(txq[s]) ELSE txq[t]
  BY DEF NetInv, QueuesSound
<1>6. \A t \in Stations : QueueSound(queues[t]) /\ QueueLaw(queues[t])
  BY <1>3, <1>4, <1>5
<1> HIDE DEF f, queues
<1> QED
  BY <1>1, <1>2, <1>4, <1>6, HeardLaw

-----------------------------------------------------------------------------
(* The theorems                                                            *)

\* NetInv is an invariant of every network of digipeaters.
THEOREM NetInvariant == Spec => []NetInv
<1>1. NetInv /\ [Next]_vars => NetInv'
  <2> SUFFICES ASSUME NetInv, [Next]_vars PROVE NetInv'
    OBVIOUS
  <2>1. CASE \E p \in Packets : \E request \in Requests[p] : Send(p, request)
    BY <2>1, SendInv
  <2>2. CASE \E s \in Stations : Transmit(s)
    BY <2>2, TransmitInv
  <2>3. CASE Tick
    BY <2>3, TickInv
  <2>4. CASE UNCHANGED vars
    BY <2>4 DEF vars, NetInv, RingsSound, QueuesSound, SendsBounded, RelayedTypes,
                Remembers, RecordsAccepted,
                RelayedOnce, EmbeddedServesNamedHop, ServesNamedHop, Named
  <2> QED
    BY <2>1, <2>2, <2>3, <2>4 DEF Next
<1> QED
  BY <1>1, InitInv, PTL DEF Spec

\* In every network, cursors, ages and counters keep their ranges, no ring holds a
\* fingerprint twice, and no station queues a path AX.25 cannot carry.
THEOREM TypeCorrect == Spec => []TypeOK
<1>1. NetInv => TypeOK
  <2> SUFFICES ASSUME NetInv PROVE TypeOK
    OBVIOUS
  <2>1. ASSUME NEW s \in Stations
        PROVE  /\ rings[s].cursor \in 0 .. RingSlots[s]
               /\ \A i \in DOMAIN rings[s].entries : rings[s].entries[i].age \in 0 .. Window
               /\ \A p \in Packets : Cardinality(Holding(rings[s], p)) <= 1
    <3> DEFINE r == rings[s]
               n == RingSlots[s]
    <3>1. n \in Nat /\ RingSound(r, n)
      BY DEF NetInv, RingsSound
    <3> HIDE DEF r, n
    <3>2. r.cursor \in 0 .. n /\ \A i \in DOMAIN r.entries : r.entries[i].age \in 0 .. Window
      BY <3>1, SlotsOf DEF RingSound
    <3>3. ASSUME NEW p \in Packets PROVE Cardinality(Holding(r, p)) <= 1
      <4>1. Holding(r, p) = {} \/ \E i \in 1 .. n : Holding(r, p) = {i}
        BY <3>1, HeldOrNot, HeldOnce
      <4>2. CASE Holding(r, p) = {}
        BY <4>2, FS_EmptySet
      <4>3. CASE \E i \in 1 .. n : Holding(r, p) = {i}
        <5>1. PICK i \in 1 .. n : Holding(r, p) = {i}
          BY <4>3
        <5>2. Cardinality({i}) = 1
          BY FS_Singleton
        <5> QED
          BY <5>1, <5>2
      <4> QED
        BY <4>1, <4>2, <4>3
    <3> QED
      BY <3>2, <3>3 DEF r, n
  <2>2. \A f \in Waiting : f.packet \in Packets /\ Len(f.path) <= MaxDigipeaters
    BY DEF NetInv, QueuesSound, QueueSound, FrameFits, FrameSound, Waiting
  <2>3. \A p \in Packets : sends[p] \in 0 .. MaxSends[p]
    BY DEF NetInv, SendsBounded
  <2> QED
    BY <2>1, <2>2, <2>3 DEF NetInv, RelayedTypes, TypeOK
<1> QED
  BY <1>1, NetInvariant, PTL

\* In every network, a station whose ring has a slot for every packet on the
\* channel relays none of them twice within the suppression window, by whichever
\* routes and with whichever paths the copies of it come back.
THEOREM RelayedOnceCorrect == Spec => []RelayedOnce
<1>1. NetInv => RelayedOnce
  BY DEF NetInv
<1> QED
  BY <1>1, NetInvariant, PTL

\* In every network, an embedded digipeater suppresses a frame whose first unused
\* hop names it only if it has itself accepted that packet within the window,
\* however small its ring and whatever it has heard of the packet since.
THEOREM EmbeddedServesNamedHopCorrect == Spec => []EmbeddedServesNamedHop
<1>1. NetInv => EmbeddedServesNamedHop
  BY DEF NetInv
<1> QED
  BY <1>1, NetInvariant, PTL

\* In every network, along every chain of stations of either tier and by whichever
\* rules, the relays a frame has been through plus those its path still asks for
\* is what its source requested, and no path outgrows AX.25.
THEOREM BudgetConservedCorrect == Spec => []BudgetConserved
<1>1. Init => FloodLaw
  <2>1. Range(<< >>) = {}
    BY DEF Range
  <2> QED
    BY <2>1 DEF Init, FloodLaw, QueueLaw
<1>2. NetInv /\ FloodLaw /\ [Next]_vars => FloodLaw'
  <2> SUFFICES ASSUME NetInv, FloodLaw, [Next]_vars PROVE FloodLaw'
    OBVIOUS
  <2>1. CASE \E p \in Packets : \E request \in Requests[p] : Send(p, request)
    BY <2>1, SendLaw
  <2>2. CASE \E s \in Stations : Transmit(s)
    BY <2>2, TransmitLaw
  <2>3. CASE Tick
    BY <2>3 DEF Tick, FloodLaw, QueueLaw, FrameLaw
  <2>4. CASE UNCHANGED vars
    BY <2>4 DEF vars, FloodLaw, QueueLaw, FrameLaw
  <2> QED
    BY <2>1, <2>2, <2>3, <2>4 DEF Next
<1>3. NetInv /\ FloodLaw => BudgetConserved
  BY DEF NetInv, QueuesSound, QueueSound, FrameFits, FloodLaw, QueueLaw, FrameLaw,
         BudgetConserved, Waiting
<1> QED
  BY <1>1, <1>2, <1>3, NetInvariant, PTL DEF Spec
=============================================================================
