------------------------- MODULE TncReceiverProofs -------------------------
(***************************************************************************)
(* Proofs about TncReceiver for every number of chains, every window, any  *)
(* set of frames (their keys may collide) and any number of transmissions. *)
(***************************************************************************)
EXTENDS TncReceiver, FiniteSetTheorems, WellFoundedInduction, TLAPS

USE ChainsAssumption, TimingAssumption, StatMaxAssumption, ContentsAssumption

-----------------------------------------------------------------------------
(* The state                                                               *)

Keys == {Nothing} \cup {Key[c] : c \in Contents}
Entries == [key : Keys, age : 0 .. Window + 1, valid : BOOLEAN]
Rings == [1 .. Slots -> Entries]
Stats == [frames_ok : 0 .. StatMax, fcs_errors : 0 .. StatMax, oversize : 0 .. StatMax,
          malformed : 0 .. StatMax]
Histories == [sent : Nat, decoded : BOOLEAN, claimed : BOOLEAN, preempted : BOOLEAN,
              emitted : Nat, failures : Nat]
Types ==
  /\ scheme \in {"tones", "baseband"} /\ voting \in BOOLEAN
  /\ seen \in Rings /\ seen_next \in 0 .. Slots - 1
  /\ out \in UiContents \cup {Nothing}
  /\ stats \in Stats
  /\ air \in [content : Contents \cup {Nothing}, age : 0 .. Gap, pending : SUBSET Chains]
  /\ history \in Histories

\* A key registered now has slot Behind = 0; the slot written next has Slots - 1.
Behind(next, i) == IF i <= next THEN next - i ELSE (next - i) + Slots

\* An entry that is still live a sample later.
Young(entry) == entry.valid /\ entry.age < Window

\* No two live entries of a ring have the same key.
Distinct(ring) == \A i, j \in 1 .. Slots :
                    Live(ring[i]) /\ Live(ring[j]) /\ ring[i].key = ring[j].key => i = j

\* The young entries are among the latest r, and the chains that have not yet
\* reported can register no more than the other slots hold: no live entry is
\* ever overwritten.
Room == \E r \in 0 .. Active :
          /\ r + Cardinality(air.pending) <= Active
          /\ \A i \in 1 .. Slots : Young(seen[i]) => Behind(seen_next, i) < r

\* Keys are registered within Skew samples of the transmission's end.
Expiring == \A i \in 1 .. Slots : Live(seen[i]) => air.age <= (seen[i].age + Skew) + 1

\* The key of a transmission that was decoded, or claimed by a colliding frame,
\* is remembered for as long as chains may report.
Remembered ==
  (history.decoded \/ history.claimed) /\ air.age <= Skew =>
    \E i \in 1 .. Slots : /\ seen[i].valid /\ seen[i].age < air.age
                          /\ seen[i].key = Key[air.content]

\* Until then it is not remembered: nothing is left of an earlier transmission.
Unclaimed ==
  air.age <= Skew /\ ~history.decoded /\ ~history.claimed =>
    \A i \in 1 .. Slots : Young(seen[i]) => seen[i].key # Key[air.content]
ToneBank == Distinct(seen) /\ Room /\ Expiring /\ Remembered /\ Unclaimed

\* The single G3RUH chain needs no memory: it reports once.
OneChain == /\ \A i \in 1 .. Slots : ~seen[i].valid
            /\ air.pending \subseteq {Primary}
            /\ history.decoded \/ history.claimed => air.pending = {}

Emission == /\ history.emitted = IF history.decoded /\ ~history.preempted THEN 1 ELSE 0
            /\ history.preempted => history.decoded
            /\ history.decoded => air.content # Nothing
            /\ air.content = Nothing => air.pending = {} /\ air.age = Gap
ReceiverInv ==
  /\ Types /\ SingleReceiverStats /\ Emission
  /\ scheme = "tones" => ToneBank
  /\ scheme = "baseband" => OneChain

-----------------------------------------------------------------------------
(* Numbers and counters                                                    *)

\* A set of naturals that has a member has a least one.
LEMMA LeastOf ==
  ASSUME NEW T, T \subseteq Nat, T # {}
  PROVE  \E x \in T : \A y \in T : x <= y
<1>1. PICK x \in T : \A y \in T : ~ (<<y, x>> \in OpToRel(<, Nat))
  BY NatLessThanWellFounded, WFMin
<1>2. \A y \in T : ~(y < x)
  BY <1>1, Zenon DEF OpToRel
<1>3. \A y \in T : x <= y
  BY <1>2
<1> QED
  BY <1>3

\* The cursor wraps to 0.
LEMMA NextSlot ==
  ASSUME NEW next \in 0 .. Slots - 1
  PROVE  /\ (next + 1) % Slots \in 0 .. Slots - 1
         /\ (next + 1) % Slots = IF next + 1 = Slots THEN 0 ELSE next + 1
  OBVIOUS

\* Overwriting a slot moves every other one back by one.
LEMMA BehindNext ==
  ASSUME NEW next \in 0 .. Slots - 1, NEW i \in 1 .. Slots
  PROVE  /\ Behind(next, i) \in 0 .. Slots - 1
         /\ i = next + 1 <=> Behind(next, i) = Slots - 1
         /\ i = next + 1 => Behind((next + 1) % Slots, i) = 0
         /\ i # next + 1 => Behind((next + 1) % Slots, i) = Behind(next, i) + 1
<1>1. (next + 1) % Slots = IF next + 1 = Slots THEN 0 ELSE next + 1
  BY NextSlot
<1> DEFINE n == (next + 1) % Slots
<1>2. n = IF next + 1 = Slots THEN 0 ELSE next + 1
  BY <1>1
<1> HIDE DEF n
<1>3. /\ Behind(next, i) \in 0 .. Slots - 1
      /\ i = next + 1 <=> Behind(next, i) = Slots - 1
      /\ i = next + 1 => Behind(n, i) = 0
      /\ i # next + 1 => Behind(n, i) = Behind(next, i) + 1
  BY <1>2 DEF Behind
<1> QED
  BY <1>3 DEF n

\* A counter stays at or below its width.
LEMMA CounterType ==
  ASSUME NEW n \in 0 .. StatMax
  PROVE  SaturatingInc(n) \in 0 .. StatMax
  BY DEF SaturatingInc

-----------------------------------------------------------------------------
(* register                                                                *)

Mergings == [seen : Rings, next : 0 .. Slots - 1, fresh : BOOLEAN,
             out : Contents \cup {Nothing}, failed : SUBSET Chains, stats : Stats]
Merged(s, n, b, o, f, t) ==
  [seen |-> s, next |-> n, fresh |-> b, out |-> o, failed |-> f, stats |-> t]

\* The merge's state has its type.
LEMMA MergedType ==
  ASSUME NEW s \in Rings, NEW n \in 0 .. Slots - 1, NEW b \in BOOLEAN,
         NEW o \in Contents \cup {Nothing}, NEW f \in SUBSET Chains, NEW t \in Stats
  PROVE  Merged(s, n, b, o, f, t) \in Mergings
  BY DEF Merged, Mergings

Entry(key) == [key |-> key, age |-> 0, valid |-> TRUE]

\* A known key: its entry is refreshed.
Refreshed(s, i) == [j \in 1 .. Slots |->
                      IF j = i THEN [key |-> s[i].key, age |-> 0, valid |-> s[i].valid]
                      ELSE s[j]]
\* A fresh key: it takes a slot.
Written(s, i, key) == [j \in 1 .. Slots |-> IF j = i THEN Entry(key) ELSE s[j]]

\* The records the steps of the merge build, written out.
LEMMA MergedFields ==
  ASSUME NEW m \in Mergings, NEW s, NEW n, NEW b
  PROVE  /\ [m EXCEPT !.seen = s, !.next = n, !.fresh = b]
              = Merged(s, n, b, m.out, m.failed, m.stats)
         /\ [m EXCEPT !.seen = s, !.fresh = b]
              = Merged(s, m.next, b, m.out, m.failed, m.stats)
<1> DEFINE m1 == [m EXCEPT !.seen = s]
           m2 == [m1 EXCEPT !.next = n]
           m3 == [m2 EXCEPT !.fresh = b]
           m4 == [m1 EXCEPT !.fresh = b]
<1>1. m1 = Merged(s, m.next, m.fresh, m.out, m.failed, m.stats)
  BY DEF Mergings, Merged
<1>2. /\ [m EXCEPT !.seen = s, !.fresh = b] = m4
      /\ [m EXCEPT !.seen = s, !.next = n, !.fresh = b] = m3
  BY DEF Mergings
<1>3. m2 = Merged(s, n, m.fresh, m.out, m.failed, m.stats)
  <2> HIDE DEF m1
  <2> QED
    BY <1>1 DEF Merged
<1>4. m4 = Merged(s, m.next, b, m.out, m.failed, m.stats)
  <2> HIDE DEF m1
  <2> QED
    BY <1>1 DEF Merged
<1>5. m3 = Merged(s, n, b, m.out, m.failed, m.stats)
  <2> HIDE DEF m2
  <2> QED
    BY <1>3 DEF Merged
<1> HIDE DEF m3, m4
<1> QED
  BY <1>2, <1>4, <1>5

LEMMA OutReplaced ==
  ASSUME NEW m \in Mergings, NEW content
  PROVE  [m EXCEPT !.out = content]
           = Merged(m.seen, m.next, m.fresh, content, m.failed, m.stats)
  BY DEF Mergings, Merged

\* register, by its two outcomes.
LEMMA RegisterKnown ==
  ASSUME NEW m \in Mergings, NEW key \in Keys, NEW k \in 1 .. Slots,
         Live(m.seen[k]), m.seen[k].key = key
  PROVE  \E i \in 1 .. Slots :
           /\ Live(m.seen[i]) /\ m.seen[i].key = key
           /\ register(m, key)
                = Merged(Refreshed(m.seen, i), m.next, FALSE, m.out, m.failed, m.stats)
<1> DEFINE known == {i \in 1 .. Slots : Live(m.seen[i]) /\ m.seen[i].key = key}
<1>1. known # {} /\ known \subseteq Nat
  OBVIOUS
<1>2. \E x \in known : \A y \in known : x <= y
  <2> HIDE DEF known
  <2> QED
    BY <1>1, LeastOf
<1>3. Min(known) \in known
  <2> HIDE DEF known
  <2> QED
    BY <1>2 DEF Min
<1> DEFINE i == Min(known)
           f == FALSE
<1>4. i \in 1 .. Slots /\ Live(m.seen[i]) /\ m.seen[i].key = key
  BY <1>3
<1>5. register(m, key) = [m EXCEPT !.seen[i].age = 0, !.fresh = f]
  BY <1>1 DEF register
<1> HIDE DEF i, known, f
<1> DEFINE s == [m.seen EXCEPT ![i].age = 0]
<1>6. [m EXCEPT !.seen[i].age = 0, !.fresh = f]
        = Merged(s, m.next, f, m.out, m.failed, m.stats)
  <2>1. [m EXCEPT !.seen[i].age = 0, !.fresh = f] = [m EXCEPT !.seen = s, !.fresh = f]
    BY DEF Mergings
  <2> HIDE DEF s
  <2> QED
    BY <2>1, MergedFields
<1>7. s = Refreshed(m.seen, i)
  <2>1. m.seen \in [1 .. Slots -> Entries] /\ m.seen[i] \in Entries
    BY <1>4 DEF Mergings, Rings
  <2> DEFINE e == m.seen[i]
             g == [key |-> e.key, age |-> 0, valid |-> e.valid]
  <2>2. [e EXCEPT !.age = 0] = g
    <3> HIDE DEF e
    <3> QED
      BY <2>1, SMTT(40) DEF e, Entries
  <2>3. s = [m.seen EXCEPT ![i] = g]
    BY <2>1, <2>2
  <2> HIDE DEF g
  <2>4. s = [j \in 1 .. Slots |-> IF j = i THEN g ELSE m.seen[j]]
    BY <2>1, <2>3
  <2> QED
    BY <2>4 DEF Refreshed, g
<1> QED
  BY <1>4, <1>5, <1>6, <1>7 DEF f

LEMMA RegisterFresh ==
  ASSUME NEW m \in Mergings, NEW key \in Keys,
         ~ \E i \in 1 .. Slots : Live(m.seen[i]) /\ m.seen[i].key = key
  PROVE  register(m, key)
           = Merged(Written(m.seen, m.next + 1, key), (m.next + 1) % Slots, TRUE, m.out,
                    m.failed, m.stats)
<1> DEFINE known == {i \in 1 .. Slots : Live(m.seen[i]) /\ m.seen[i].key = key}
           i == m.next + 1
           n == (m.next + 1) % Slots
           t == TRUE
           e == Entry(key)
<1>1. known = {}
  OBVIOUS
<1>2. register(m, key) = [m EXCEPT !.seen[i] = e, !.next = n, !.fresh = t]
  BY <1>1 DEF register, Entry
<1>3. i \in 1 .. Slots
  BY DEF Mergings
<1> HIDE DEF i, n, t, e
<1> DEFINE s == [m.seen EXCEPT ![i] = e]
<1>4. [m EXCEPT !.seen[i] = e, !.next = n, !.fresh = t]
        = Merged(s, n, t, m.out, m.failed, m.stats)
  <2>1. [m EXCEPT !.seen[i] = e, !.next = n, !.fresh = t]
          = [m EXCEPT !.seen = s, !.next = n, !.fresh = t]
    BY DEF Mergings
  <2> HIDE DEF s
  <2> QED
    BY <2>1, MergedFields
<1>5. s = Written(m.seen, i, key)
  BY <1>3 DEF Written, Mergings, Rings, e
<1> QED
  BY <1>2, <1>4, <1>5 DEF i, n, t

\* The live entries are among the latest r slots, and room more keys can come.
Slack(m, room) ==
  \E r \in 0 .. Active : /\ r + room <= Active
                         /\ \A i \in 1 .. Slots : Live(m.seen[i]) => Behind(m.next, i) < r
\* A live entry has the key, and was last seen at most age samples ago.
Holds(s, key, age) == \E i \in 1 .. Slots : Live(s[i]) /\ s[i].key = key /\ s[i].age <= age
Knows(s, key) == \E i \in 1 .. Slots : Live(s[i]) /\ s[i].key = key

\* What registering a key does to a ring that holds no key twice and has room:
\* every live entry stays, at most refreshed, and the key is held from now on.
Registered(m, r, key, room) ==
  /\ r \in Mergings /\ r.failed = m.failed /\ r.stats = m.stats
  /\ Distinct(r.seen) /\ Slack(r, room)
  /\ \A i \in 1 .. Slots : Live(m.seen[i]) =>
       /\ Live(r.seen[i])
       /\ r.seen[i].key = m.seen[i].key /\ r.seen[i].age <= m.seen[i].age
  /\ \A i \in 1 .. Slots : Live(r.seen[i]) => r.seen[i].age = 0 \/ r.seen[i] = m.seen[i]
  /\ \A other : Knows(r.seen, other) => other = key \/ Knows(m.seen, other)
  /\ Holds(r.seen, key, 0)

\* register does that, and reports a key as fresh exactly when it was not held.
LEMMA RegisterSound ==
  ASSUME NEW m \in Mergings, NEW key \in Keys, NEW room \in Nat,
         Distinct(m.seen), Slack(m, room + 1)
  PROVE  /\ Registered(m, register(m, key), key, room)
         /\ register(m, key).out = m.out
         /\ register(m, key).fresh <=> ~Knows(m.seen, key)
<1> DEFINE r == register(m, key)
<1>1. /\ m.seen \in Rings /\ m.next \in 0 .. Slots - 1 /\ m.out \in Contents \cup {Nothing}
      /\ m.failed \in SUBSET Chains /\ m.stats \in Stats
  BY DEF Mergings
<1>2. ASSUME NEW i \in 1 .. Slots
      PROVE  /\ m.seen[i] \in Entries /\ m.seen[i].key \in Keys
             /\ m.seen[i].age \in 0 .. Window + 1 /\ m.seen[i].valid \in BOOLEAN
  <2>1. m.seen[i] \in Entries
    BY <1>1 DEF Rings
  <2> QED
    BY <2>1 DEF Entries
<1>3. PICK p \in 0 .. Active : /\ p + (room + 1) <= Active
                              /\ \A i \in 1 .. Slots : Live(m.seen[i]) => Behind(m.next, i) < p
  BY DEF Slack
<1>4. CASE Knows(m.seen, key)
  <2>1. PICK i \in 1 .. Slots :
          /\ Live(m.seen[i]) /\ m.seen[i].key = key
          /\ r = Merged(Refreshed(m.seen, i), m.next, FALSE, m.out, m.failed, m.stats)
    BY <1>4, RegisterKnown DEF Knows
  <2> DEFINE s == Refreshed(m.seen, i)
             f == FALSE
             e == [key |-> m.seen[i].key, age |-> 0, valid |-> m.seen[i].valid]
  <2>2. /\ e \in Entries /\ e.key = m.seen[i].key /\ e.age = 0 /\ e.valid = m.seen[i].valid
    BY <1>2 DEF Entries
  <2> HIDE DEF e
  <2>3. /\ s \in Rings /\ s[i] = e
        /\ \A j \in 1 .. Slots : j # i => s[j] = m.seen[j]
    BY <1>1, <2>2 DEF Refreshed, Rings, e
  <2> HIDE DEF s, f, r
  <2>4. /\ r \in Mergings
        /\ r.seen = s /\ r.next = m.next /\ r.fresh = f /\ r.out = m.out
        /\ r.failed = m.failed /\ r.stats = m.stats
    <3>1. r = Merged(s, m.next, f, m.out, m.failed, m.stats) /\ f \in BOOLEAN
      BY <2>1 DEF s, f
    <3>2. r \in Mergings
      BY <1>1, <2>3, <3>1, MergedType
    <3> QED
      BY <3>1, <3>2 DEF Merged
  <2>5. Live(e) /\ \A j \in 1 .. Slots : Live(s[j]) <=> Live(m.seen[j])
    <3>1. m.seen[i].valid
      BY <2>1 DEF Live
    <3>2. e.valid
      BY <2>2, <3>1
    <3>3. Live(e)
      BY <2>2, <3>2 DEF Live
    <3>4. Live(s[i]) <=> Live(m.seen[i])
      BY <2>1, <2>3, <3>3
    <3> QED
      BY <2>3, <3>3, <3>4
  <2>6. \A j \in 1 .. Slots : s[j].key = m.seen[j].key
    BY <2>2, <2>3
  <2>7. Distinct(r.seen)
    BY <2>4, <2>5, <2>6 DEF Distinct
  <2>8. Slack(r, room)
    BY <1>3, <2>4, <2>5 DEF Slack
  <2>9. Holds(r.seen, key, 0)
    <3>1. Live(s[i]) /\ s[i].key = key /\ s[i].age <= 0
      BY <2>1, <2>2, <2>3, <2>5
    <3> QED
      BY <2>4, <3>1 DEF Holds
  <2>10. \A j \in 1 .. Slots : s[j].age <= m.seen[j].age
    BY <1>2, <2>2, <2>3
  <2>11. \A other : Knows(r.seen, other) => Knows(m.seen, other)
    BY <2>4, <2>5, <2>6 DEF Knows
  <2>12. Registered(m, r, key, room)
    BY <2>2, <2>3, <2>4, <2>5, <2>6, <2>7, <2>8, <2>9, <2>10, <2>11 DEF Registered
  <2> QED
    BY <1>4, <2>4, <2>12 DEF r, f
<1>5. CASE ~Knows(m.seen, key)
  <2> DEFINE i == m.next + 1
             n == (m.next + 1) % Slots
             t == TRUE
             e == Entry(key)
             s == Written(m.seen, i, key)
  <2>1. i \in 1 .. Slots /\ n \in 0 .. Slots - 1
    BY <1>1, NextSlot
  <2>2. e \in Entries /\ e.key = key /\ e.age = 0 /\ Live(e)
    BY DEF Entries, Entry, Live
  <2>3. /\ s \in Rings /\ s[i] = e
        /\ \A j \in 1 .. Slots : j # i => s[j] = m.seen[j]
    <3> HIDE DEF e, i
    <3> QED
      BY <1>1, <2>1, <2>2 DEF Written, Rings, e
  <2>4. r = Merged(s, n, t, m.out, m.failed, m.stats)
    BY <1>5, RegisterFresh DEF Knows
  <2>5. /\ \A j \in 1 .. Slots : j # i => Behind(n, j) = Behind(m.next, j) + 1
        /\ Behind(n, i) = 0 /\ Behind(m.next, i) = Slots - 1
        /\ \A j \in 1 .. Slots : Behind(m.next, j) \in 0 .. Slots - 1
    BY <1>1, <2>1, BehindNext
  <2> HIDE DEF s, t, r, n, e, i
  <2>6. /\ r \in Mergings
        /\ r.seen = s /\ r.next = n /\ r.fresh = t /\ r.out = m.out
        /\ r.failed = m.failed /\ r.stats = m.stats
    <3>1. t \in BOOLEAN
      BY DEF t
    <3>2. r \in Mergings
      BY <1>1, <2>1, <2>3, <2>4, <3>1, MergedType
    <3> QED
      BY <2>4, <3>2 DEF Merged
  <2>7. ~Live(m.seen[i])
    BY <1>3, <2>1, <2>5
  <2>8. Distinct(s)
    <3> SUFFICES ASSUME NEW j \in 1 .. Slots, NEW k \in 1 .. Slots, Live(s[j]), Live(s[k]),
                        s[j].key = s[k].key
                 PROVE  j = k
      BY DEF Distinct
    <3>1. ASSUME NEW q \in 1 .. Slots, Live(m.seen[q]) PROVE m.seen[q].key # key
      BY <1>5, <3>1 DEF Knows
    <3> QED
      BY <2>2, <2>3, <3>1 DEF Distinct
  <2>9. Slack(r, room)
    <3>1. p + 1 \in 0 .. Active /\ (p + 1) + room <= Active
      BY <1>3
    <3>2. \A j \in 1 .. Slots : Live(s[j]) => Behind(n, j) < p + 1
      BY <1>3, <2>1, <2>3, <2>5
    <3> QED
      BY <2>6, <3>1, <3>2 DEF Slack
  <2>10. Holds(s, key, 0)
    BY <2>1, <2>2, <2>3 DEF Holds
  <2>11. \A j \in 1 .. Slots : Live(m.seen[j]) => s[j] = m.seen[j] /\ s[j].age <= m.seen[j].age
    BY <1>2, <2>3, <2>7
  <2>12. \A j \in 1 .. Slots : s[j].age = 0 \/ s[j] = m.seen[j]
    BY <2>2, <2>3
  <2>13. ASSUME NEW other, Knows(s, other) PROVE other = key \/ Knows(m.seen, other)
    BY <2>1, <2>2, <2>3, <2>13 DEF Knows
  <2>14. Registered(m, r, key, room)
    BY <2>6, <2>8, <2>9, <2>10, <2>11, <2>12, <2>13 DEF Registered
  <2> QED
    BY <1>5, <2>6, <2>14 DEF r, t
<1> QED
  BY <1>4, <1>5

\* A completed frame: emitted only when its key was not held.
LEMMA AcceptSound ==
  ASSUME NEW m \in Mergings, NEW content \in Contents, NEW room \in Nat,
         Distinct(m.seen), Slack(m, room + 1)
  PROVE  /\ Registered(m, Accept(m, content), Key[content], room)
         /\ Accept(m, content).out = IF m.out = Nothing /\ ~Knows(m.seen, Key[content])
                                     THEN content ELSE m.out
<1> DEFINE key == Key[content]
           r == register(m, key)
           a == Accept(m, content)
<1>1. key \in Keys
  BY DEF Keys
<1> HIDE DEF key, r, a
<1>2. Registered(m, r, key, room) /\ r.out = m.out /\ (r.fresh <=> ~Knows(m.seen, key))
  BY <1>1, RegisterSound DEF r
<1>3. a = IF r.fresh /\ m.out = Nothing THEN [r EXCEPT !.out = content] ELSE r
  BY DEF Accept, a, r, key
<1>4. CASE r.fresh /\ m.out = Nothing
  <2>1. a = [r EXCEPT !.out = content] /\ r \in Mergings
    BY <1>2, <1>3, <1>4 DEF Registered
  <2>2. a = Merged(r.seen, r.next, r.fresh, content, r.failed, r.stats)
    BY <2>1 DEF Mergings, Merged
  <2>3. /\ r.seen \in Rings /\ r.next \in 0 .. Slots - 1 /\ r.fresh \in BOOLEAN
        /\ r.failed \in SUBSET Chains /\ r.stats \in Stats
    BY <2>1 DEF Mergings
  <2>4. a \in Mergings
    BY <2>2, <2>3, MergedType
  <2>5. /\ a.seen = r.seen /\ a.next = r.next /\ a.failed = r.failed /\ a.stats = r.stats
        /\ a.out = content
    BY <2>2 DEF Merged
  <2>6. Registered(m, a, key, room)
    BY <1>2, <2>4, <2>5 DEF Registered, Slack
  <2> QED
    BY <1>2, <1>4, <2>5, <2>6 DEF a, key
<1>5. CASE ~(r.fresh /\ m.out = Nothing)
  <2>1. a = r
    BY <1>3, <1>5
  <2> QED
    BY <1>2, <1>5, <2>1 DEF a, key
<1> QED
  BY <1>4, <1>5

\* A key that is held stays held, and the registered one is.
LEMMA HoldsStays ==
  ASSUME NEW m \in Mergings, NEW r, NEW key, NEW room, Registered(m, r, key, room),
         NEW age \in Nat, NEW other
  PROVE  /\ Holds(m.seen, other, age) => Holds(r.seen, other, age)
         /\ Holds(r.seen, key, age)
<1>1. ASSUME NEW i \in 1 .. Slots PROVE m.seen[i].age \in Int /\ r.seen[i].age \in Int
  <2>1. m.seen \in Rings /\ r.seen \in Rings
    BY DEF Mergings, Registered
  <2>2. m.seen[i] \in Entries /\ r.seen[i] \in Entries
    BY <2>1 DEF Rings
  <2> QED
    BY <2>2 DEF Entries
<1>2. ASSUME NEW i \in 1 .. Slots, Live(m.seen[i]), m.seen[i].key = other, m.seen[i].age <= age
      PROVE  Live(r.seen[i]) /\ r.seen[i].key = other /\ r.seen[i].age <= age
  BY <1>1, <1>2 DEF Registered
<1>3. PICK i \in 1 .. Slots : Live(r.seen[i]) /\ r.seen[i].key = key /\ r.seen[i].age <= 0
  BY DEF Registered, Holds
<1>4. r.seen[i].age <= age
  BY <1>1, <1>3
<1> QED
  BY <1>2, <1>3, <1>4 DEF Holds

\* Asking for less room.
LEMMA SlackLess ==
  ASSUME NEW m, NEW a \in Nat, NEW b \in Nat, b <= a, Slack(m, a)
  PROVE  Slack(m, b)
<1>1. PICK r \in 0 .. Active : /\ r + a <= Active
                             /\ \A i \in 1 .. Slots : Live(m.seen[i]) => Behind(m.next, i) < r
  BY DEF Slack
<1>2. r + b <= Active
  BY <1>1
<1> QED
  BY <1>1, <1>2 DEF Slack

-----------------------------------------------------------------------------
(* One chain's event                                                       *)

\* The chains that may still report once the first n have been asked.
After(events, n) == {c \in air.pending : c >= n \/ events[c] = Quiet}
\* A failed chain's own share of the ring is left for the vote on its frame.
Failing(m) == IF m.failed = {} THEN 0 ELSE 1

\* The frame on the air: once its key is held it is not emitted again; it is
\* emitted only because a chain completed it; and its key comes to be known
\* only because a chain completed a frame that has it, which if no frame was
\* emitted on this sample before is then emitted.
Reported(events, n) == \E c \in Chains : c < n /\ events[c] = Ok(air.content)
Keyed(events, n) == \E c \in Chains : /\ c < n /\ events[c].content # Nothing
                                      /\ Key[events[c].content] = Key[air.content]
Following(m, n, events) ==
  /\ Holds(Fresh.seen, Key[air.content], air.age) =>
       m.out # air.content /\ Holds(m.seen, Key[air.content], air.age)
  /\ Keyed(events, n) => Holds(m.seen, Key[air.content], air.age)
  /\ m.out = air.content => Reported(events, n)
  /\ m.out # Nothing /\ Key[m.out] = Key[air.content] => Keyed(events, n)
  /\ Knows(m.seen, Key[air.content]) =>
       Knows(Fresh.seen, Key[air.content]) \/ Keyed(events, n)
  /\ m.out = Nothing /\ Knows(m.seen, Key[air.content]) =>
       Knows(Fresh.seen, Key[air.content])
Counted(m, n, events) ==
  m.stats.fcs_errors = IF Primary < n /\ events[Primary] = Failure("Fcs")
                       THEN SaturatingInc(stats.fcs_errors) ELSE stats.fcs_errors

\* The merge after the first n chains.
MergeOk(m, n, events) ==
  /\ m \in Mergings
  /\ Distinct(m.seen)
  /\ Slack(m, Cardinality(After(events, n)) + Failing(m))
  /\ \A i \in 1 .. Slots : Live(m.seen[i]) => air.age <= m.seen[i].age + Skew
  /\ m.failed # {} => air.age <= Skew
  /\ air.content \in Contents => Following(m, n, events)
  /\ Counted(m, n, events)

\* An error changes the counters and the set of failed chains, nothing else.
LEMMA AbsorbError ==
  ASSUME NEW m \in Mergings, NEW c \in Chains, NEW kind \in {"Fcs", "TooLarge"}
  PROVE  LET r == Absorb(m, c, Failure(kind))
         IN  /\ r \in Mergings
             /\ r.seen = m.seen /\ r.next = m.next /\ r.out = m.out
             /\ r.failed = IF kind = "Fcs" THEN m.failed \cup {c} ELSE m.failed
             /\ r.stats.fcs_errors = IF kind = "Fcs" /\ c = Primary
                                     THEN SaturatingInc(m.stats.fcs_errors)
                                     ELSE m.stats.fcs_errors
<1> DEFINE r == Absorb(m, c, Failure(kind))
           fcs == IF c = Primary THEN SaturatingInc(m.stats.fcs_errors) ELSE m.stats.fcs_errors
           long == IF c = Primary THEN SaturatingInc(m.stats.oversize) ELSE m.stats.oversize
           failed == m.failed \cup {c}
<1>1. /\ m.seen \in Rings /\ m.next \in 0 .. Slots - 1 /\ m.fresh \in BOOLEAN
      /\ m.out \in Contents \cup {Nothing} /\ m.failed \in SUBSET Chains /\ m.stats \in Stats
  BY DEF Mergings
<1>2. fcs \in 0 .. StatMax /\ long \in 0 .. StatMax /\ failed \in SUBSET Chains
  BY <1>1, CounterType DEF Stats
<1>3. Failure(kind).kind = kind
  BY DEF Failure
<1>4. CASE kind = "Fcs"
  <2> DEFINE t == [m.stats EXCEPT !.fcs_errors = fcs]
             m1 == [m EXCEPT !.failed = failed]
             m2 == [m1 EXCEPT !.stats = t]
  <2>1. r = [m EXCEPT !.failed = failed, !.stats.fcs_errors = fcs]
    BY <1>3, <1>4 DEF Absorb
  <2>2. t \in Stats /\ t.fcs_errors = fcs
    <3> HIDE DEF fcs
    <3> QED
      BY <1>1, <1>2 DEF Stats
  <2>3. [m EXCEPT !.failed = failed, !.stats.fcs_errors = fcs] = m2
    <3> HIDE DEF fcs, failed
    <3> QED
      BY DEF Mergings
  <2> HIDE DEF t, fcs, failed, r
  <2>4. m1 = Merged(m.seen, m.next, m.fresh, m.out, failed, m.stats)
    BY DEF Mergings, Merged
  <2>5. m2 = Merged(m.seen, m.next, m.fresh, m.out, failed, t)
    <3> HIDE DEF m1
    <3> QED
      BY <2>4 DEF Merged
  <2>6. r = Merged(m.seen, m.next, m.fresh, m.out, failed, t)
    BY <2>1, <2>3, <2>5
  <2>7. r \in Mergings
    BY <1>1, <1>2, <2>2, <2>6, MergedType
  <2>8. /\ r.seen = m.seen /\ r.next = m.next /\ r.out = m.out /\ r.failed = failed
        /\ r.stats = t
    BY <2>6 DEF Merged
  <2> QED
    BY <1>4, <2>2, <2>7, <2>8 DEF r, failed, fcs
<1>5. CASE kind = "TooLarge"
  <2> DEFINE t == [m.stats EXCEPT !.oversize = long]
  <2>1. r = [m EXCEPT !.stats.oversize = long]
    BY <1>3, <1>5 DEF Absorb
  <2>2. t \in Stats /\ t.fcs_errors = m.stats.fcs_errors
    <3> HIDE DEF long
    <3> QED
      BY <1>1, <1>2 DEF Stats
  <2>3. [m EXCEPT !.stats.oversize = long] = [m EXCEPT !.stats = t]
    BY DEF Mergings
  <2> HIDE DEF t, long, r
  <2>4. r = Merged(m.seen, m.next, m.fresh, m.out, m.failed, t)
    BY <2>1, <2>3 DEF Mergings, Merged
  <2>5. r \in Mergings
    BY <1>1, <2>2, <2>4, MergedType
  <2>6. /\ r.seen = m.seen /\ r.next = m.next /\ r.out = m.out /\ r.failed = m.failed
        /\ r.stats = t
    BY <2>4 DEF Merged
  <2> QED
    BY <1>5, <2>2, <2>5, <2>6 DEF r
<1> QED
  BY <1>4, <1>5

\* A chain reports nothing, or it is due and completes a frame or an error.
LEMMA EventOf ==
  ASSUME Types, NEW events \in EventsNow, NEW c \in Chains
  PROVE  /\ events[c] = Quiet \/ (c \in air.pending /\ air.age <= Skew)
         /\ \/ events[c] = Quiet
            \/ \E kind \in {"Fcs", "TooLarge"} : events[c] = Failure(kind)
            \/ \E content \in Contents : events[c] = Ok(content)
<1>1. PICK e \in [Due -> Events] : events = [k \in Chains |-> IF k \in Due THEN e[k] ELSE Quiet]
  BY DEF EventsNow
<1>2. CASE c \notin Due
  BY <1>1, <1>2
<1>3. CASE c \in Due
  <2>1. events[c] \in Events
    BY <1>1, <1>3
  <2>2. c \in air.pending /\ air.age <= Skew
    BY <1>3 DEF Due
  <2> QED
    BY <2>1, <2>2 DEF Events
<1> QED
  BY <1>2, <1>3

\* The kinds of event exclude each other.
LEMMA Kinds ==
  /\ \A kind \in {"Fcs", "TooLarge"} : Failure(kind) # Quiet /\ \A c : Failure(kind) # Ok(c)
  /\ \A c : Ok(c) # Quiet
  /\ \A c, d : Ok(c) = Ok(d) <=> c = d
  /\ Failure("Fcs") # Failure("TooLarge")
<1>1. /\ \A kind : Failure(kind).kind = kind
      /\ \A c : Ok(c).kind = "Ok" /\ Ok(c).content = c
      /\ Quiet.kind = "None"
  BY DEF Failure, Ok, Quiet
<1> QED
  BY <1>1

\* A chain that reports has no more to register.
LEMMA AfterNext ==
  ASSUME Types, NEW events \in EventsNow, NEW n \in Chains
  PROVE  /\ Cardinality(After(events, n)) \in Nat /\ Cardinality(After(events, n + 1)) \in Nat
         /\ events[n] = Quiet => After(events, n + 1) = After(events, n)
         /\ events[n] # Quiet =>
              Cardinality(After(events, n)) = Cardinality(After(events, n + 1)) + 1
<1>1. IsFiniteSet(Chains)
  BY FS_Interval DEF Chains
<1>2. air.pending \in SUBSET Chains
  BY DEF Types
<1> DEFINE A == After(events, n)
           B == After(events, n + 1)
<1>3. A \in SUBSET Chains /\ B \in SUBSET Chains
  BY <1>2 DEF After
<1>4. events[n] = Quiet => B = A
  BY <1>2 DEF After, Chains
<1>5. events[n] # Quiet => n \in A /\ B = A \ {n}
  BY <1>2, EventOf DEF After, Chains
<1> HIDE DEF A, B
<1>6. IsFiniteSet(A) /\ IsFiniteSet(B)
  BY <1>1, <1>3, FS_Subset
<1>7. Cardinality(A) \in Nat /\ Cardinality(B) \in Nat
  BY <1>6, FS_CardinalityType
<1>8. events[n] # Quiet => Cardinality(B) = Cardinality(A) - 1
  BY <1>5, <1>6, FS_RemoveElement
<1>9. events[n] # Quiet => Cardinality(A) = Cardinality(B) + 1
  BY <1>7, <1>8
<1> QED
  BY <1>4, <1>7, <1>9 DEF A, B

\* Absorbing a chain's event keeps the merge sound.
LEMMA AbsorbOk ==
  ASSUME Types, NEW events \in EventsNow, NEW n \in Chains, NEW m, MergeOk(m, n, events)
  PROVE  MergeOk(Absorb(m, n, events[n]), n + 1, events)
<1> DEFINE r == Absorb(m, n, events[n])
           a == Cardinality(After(events, n))
           b == Cardinality(After(events, n + 1))
           K == Key[air.content]
<1>1. /\ m \in Mergings /\ Distinct(m.seen) /\ Slack(m, a + Failing(m))
      /\ \A i \in 1 .. Slots : Live(m.seen[i]) => air.age <= m.seen[i].age + Skew
      /\ m.failed # {} => air.age <= Skew
      /\ air.content \in Contents => Following(m, n, events)
      /\ Counted(m, n, events)
  BY DEF MergeOk
<1>2. a \in Nat /\ b \in Nat /\ Failing(m) \in {0, 1} /\ n \in Nat /\ n < n + 1
      /\ air.age \in Nat /\ Primary \in Nat
  BY AfterNext DEF Failing, Chains, Types
<1>3. \A c \in Chains : c < n + 1 <=> c < n \/ c = n
  BY DEF Chains
<1>4. /\ Reported(events, n + 1) <=> Reported(events, n) \/ events[n] = Ok(air.content)
      /\ Keyed(events, n + 1) <=> \/ Keyed(events, n)
                                  \/ events[n].content # Nothing /\ Key[events[n].content] = K
  BY <1>2, <1>3 DEF Reported, Keyed
<1>5. CASE events[n] = Quiet
  <2>1. r = m
    BY <1>5 DEF Absorb, Quiet
  <2>2. a = b
    BY <1>5, AfterNext
  <2>3. /\ Reported(events, n + 1) <=> Reported(events, n)
        /\ Keyed(events, n + 1) <=> Keyed(events, n)
    BY <1>4, <1>5, Kinds DEF Quiet
  <2>4. Counted(m, n + 1, events)
    <3>1. Primary < n + 1 /\ events[Primary] = Failure("Fcs")
            <=> Primary < n /\ events[Primary] = Failure("Fcs")
      BY <1>3, <1>5, Kinds
    <3> QED
      BY <1>1, <3>1 DEF Counted
  <2>5. air.content \in Contents => Following(m, n + 1, events)
    BY <1>1, <2>3 DEF Following
  <2> HIDE DEF a, b, r
  <2>6. Slack(m, b + Failing(m))
    BY <1>1, <2>2
  <2> QED
    BY <1>1, <2>1, <2>4, <2>5, <2>6 DEF MergeOk, b, r
<1>6. ASSUME NEW kind \in {"Fcs", "TooLarge"}, events[n] = Failure(kind)
      PROVE  MergeOk(r, n + 1, events)
  <2>1. /\ r \in Mergings
        /\ r.seen = m.seen /\ r.next = m.next /\ r.out = m.out
        /\ r.failed = IF kind = "Fcs" THEN m.failed \cup {n} ELSE m.failed
        /\ r.stats.fcs_errors = IF kind = "Fcs" /\ n = Primary
                                THEN SaturatingInc(m.stats.fcs_errors)
                                ELSE m.stats.fcs_errors
    <3>1. r = Absorb(m, n, Failure(kind))
      BY <1>6
    <3> HIDE DEF r
    <3> QED
      BY <1>1, <3>1, AbsorbError, ZenonT(40)
  <2>2. a = b + 1 /\ air.age <= Skew
    BY <1>6, AfterNext, EventOf, Kinds
  <2>3. /\ Reported(events, n + 1) <=> Reported(events, n)
        /\ Keyed(events, n + 1) <=> Keyed(events, n)
    BY <1>4, <1>6, Kinds DEF Failure
  <2>4. Counted(r, n + 1, events)
    <3>1. CASE n = Primary
      <4>1. m.stats.fcs_errors = stats.fcs_errors
        BY <1>1, <1>2, <3>1 DEF Counted
      <4>2. kind = "Fcs" <=> events[Primary] = Failure("Fcs")
        BY <1>6, <3>1, Kinds
      <4> QED
        BY <1>2, <2>1, <3>1, <4>1, <4>2 DEF Counted
    <3>2. CASE n # Primary
      <4>1. Primary < n + 1 <=> Primary < n
        BY <1>2, <3>2
      <4> QED
        BY <1>1, <2>1, <3>2, <4>1 DEF Counted
    <3> QED
      BY <3>1, <3>2
  <2>5. air.content \in Contents => Following(r, n + 1, events)
    BY <1>1, <2>1, <2>3 DEF Following
  <2> HIDE DEF a, b, r
  <2>6. Slack(m, b + Failing(r))
    <3>1. Failing(r) \in {0, 1} /\ b + Failing(r) <= a + Failing(m)
      BY <1>2, <2>2 DEF Failing
    <3>2. b + Failing(r) \in Nat /\ a + Failing(m) \in Nat
      BY <1>2, <3>1
    <3> QED
      BY <1>1, <3>1, <3>2, SlackLess
  <2>7. Slack(r, b + Failing(r))
    BY <2>1, <2>6 DEF Slack
  <2> QED
    BY <1>1, <2>1, <2>2, <2>4, <2>5, <2>7 DEF MergeOk, b
<1>7. ASSUME NEW content \in Contents, events[n] = Ok(content)
      PROVE  MergeOk(r, n + 1, events)
  <2>1. r = Accept(m, content)
    BY <1>7 DEF Absorb, Ok
  <2>2. a = b + 1 /\ air.age <= Skew
    BY <1>7, AfterNext, EventOf, Kinds
  <2> DEFINE room == b + Failing(m)
             key == Key[content]
  <2>3. room \in Nat /\ Slack(m, room + 1)
    <3>1. room \in Nat /\ room + 1 = a + Failing(m)
      BY <1>2, <2>2
    <3> HIDE DEF room, a
    <3> QED
      BY <1>1, <3>1
  <2> HIDE DEF room, r, a, b
  <2>4. /\ Registered(m, r, key, room)
        /\ r.out = IF m.out = Nothing /\ ~Knows(m.seen, key) THEN content ELSE m.out
    BY <1>1, <2>1, <2>3, AcceptSound
  <2> HIDE DEF key
  <2>5. /\ r \in Mergings /\ r.failed = m.failed /\ r.stats = m.stats
        /\ Distinct(r.seen) /\ Slack(r, room)
        /\ \A i \in 1 .. Slots : Live(r.seen[i]) => r.seen[i].age = 0 \/ r.seen[i] = m.seen[i]
    BY <2>4 DEF Registered
  <2>6. Slack(r, b + Failing(r))
    <3>1. Failing(r) = Failing(m)
      BY <2>5 DEF Failing
    <3> QED
      BY <2>5, <3>1 DEF room
  <2>7. ASSUME NEW i \in 1 .. Slots, Live(r.seen[i])
        PROVE  air.age <= r.seen[i].age + Skew
    <3>1. CASE r.seen[i].age = 0
      BY <1>2, <2>2, <3>1
    <3>2. CASE r.seen[i] = m.seen[i]
      BY <1>1, <2>7, <3>2
    <3> QED
      BY <2>5, <2>7, <3>1, <3>2
  <2>8. Counted(r, n + 1, events)
    <3>1. Primary < n + 1 /\ events[Primary] = Failure("Fcs")
            <=> Primary < n /\ events[Primary] = Failure("Fcs")
      BY <1>3, <1>7, Kinds
    <3> QED
      BY <1>1, <2>5, <3>1 DEF Counted
  <2>9. ASSUME air.content \in Contents
        PROVE  Following(r, n + 1, events)
    <3>1. Following(m, n, events)
      BY <1>1, <2>9
    <3>2. Holds(m.seen, K, air.age) => Knows(m.seen, K)
      BY DEF Holds, Knows
    <3>3. /\ Holds(m.seen, K, air.age) => Holds(r.seen, K, air.age)
          /\ Holds(r.seen, key, air.age)
      BY <1>1, <1>2, <2>4, HoldsStays
    <3>4. Ok(content) = Ok(air.content) <=> content = air.content
      BY Kinds
    <3>5. content = air.content => key = K
      BY DEF key
    <3>6. air.content # Nothing /\ content # Nothing
      BY <2>9
    <3>7. Keyed(events, n + 1) <=> Keyed(events, n) \/ key = K
      BY <1>4, <1>7, <3>6 DEF key, Ok
    <3>8. Knows(r.seen, K) => key = K \/ Knows(m.seen, K)
      BY <2>4 DEF Registered
    <3> HIDE DEF K
    <3>9. Holds(m.seen, K, air.age) /\ m.out # air.content => r.out # air.content
      BY <2>4, <3>2, <3>5
    <3>10. r.out = air.content => m.out = air.content \/ content = air.content
      BY <2>4
    <3>11. /\ r.out = Nothing => m.out = Nothing /\ (key = K => Knows(m.seen, K))
           /\ r.out # Nothing /\ Key[r.out] = K =>
                key = K \/ (m.out # Nothing /\ Key[m.out] = K)
      BY <2>4, <3>6 DEF key
    <3>12. /\ Holds(Fresh.seen, K, air.age) =>
                m.out # air.content /\ Holds(m.seen, K, air.age)
           /\ Keyed(events, n) => Holds(m.seen, K, air.age)
           /\ m.out = air.content => Reported(events, n)
           /\ m.out # Nothing /\ Key[m.out] = K => Keyed(events, n)
           /\ Knows(m.seen, K) => Knows(Fresh.seen, K) \/ Keyed(events, n)
           /\ m.out = Nothing /\ Knows(m.seen, K) => Knows(Fresh.seen, K)
      BY <3>1 DEF Following, K
    <3>13. Reported(events, n + 1) <=> Reported(events, n) \/ content = air.content
      BY <1>4, <1>7, <3>4
    <3>14. /\ Holds(Fresh.seen, K, air.age) =>
                r.out # air.content /\ Holds(r.seen, K, air.age)
           /\ Keyed(events, n + 1) => Holds(r.seen, K, air.age)
           /\ r.out = air.content => Reported(events, n + 1)
           /\ r.out # Nothing /\ Key[r.out] = K => Keyed(events, n + 1)
           /\ Knows(r.seen, K) => Knows(Fresh.seen, K) \/ Keyed(events, n + 1)
           /\ r.out = Nothing /\ Knows(r.seen, K) => Knows(Fresh.seen, K)
      BY <3>3, <3>7, <3>8, <3>9, <3>10, <3>11, <3>12, <3>13
    <3> QED
      BY <3>14 DEF Following, K
  <2> QED
    BY <1>1, <2>2, <2>5, <2>6, <2>7, <2>8, <2>9 DEF MergeOk, b
<1> QED
  BY <1>5, <1>6, <1>7, EventOf

-----------------------------------------------------------------------------
(* The merge of all chains' events                                         *)

\* f is the merge after each of the first k chains.
Chained(f, k, events) ==
  f = [n \in 0 .. k |-> IF n = 0 THEN Fresh ELSE Absorb(f[n - 1], n - 1, events[n - 1])]

\* There is such a function for every number of chains: no number is the least
\* for which there is none.
LEMMA ChainedExists ==
  ASSUME NEW events
  PROVE  \E f : Chained(f, Active, events)
<1> DEFINE T == {k \in Nat : ~ \E f : Chained(f, k, events)}
<1>1. SUFFICES ASSUME T # {} PROVE FALSE
  <2>1. Active \in Nat
    OBVIOUS
  <2> QED
    BY <2>1
<1>2. PICK k \in T : \A y \in T : k <= y
  <2>1. T \subseteq Nat
    OBVIOUS
  <2> HIDE DEF T
  <2> QED
    BY <1>1, <2>1, LeastOf
<1>3. k \in Nat /\ ~ \E f : Chained(f, k, events)
  OBVIOUS
<1>4. k # 0
  <2> DEFINE f == [n \in 0 .. 0 |-> Fresh]
  <2>1. f = [n \in 0 .. 0 |-> IF n = 0 THEN Fresh ELSE Absorb(f[n - 1], n - 1, events[n - 1])]
    <3>1. \A n \in 0 .. 0 : n = 0
      OBVIOUS
    <3> QED
      BY <3>1
  <2>2. Chained(f, 0, events)
    BY <2>1 DEF Chained
  <2> QED
    BY <1>3, <2>2
<1>5. PICK g : Chained(g, k - 1, events)
  <2>1. k - 1 \in Nat /\ ~(k <= k - 1)
    BY <1>3, <1>4
  <2>2. k - 1 \notin T
    BY <1>2, <2>1
  <2> QED
    BY <2>1, <2>2
<1> DEFINE f == [n \in 0 .. k |-> IF n = k THEN Absorb(g[k - 1], k - 1, events[k - 1]) ELSE g[n]]
<1>6. ASSUME NEW n \in 0 .. k
      PROVE  f[n] = IF n = 0 THEN Fresh ELSE Absorb(f[n - 1], n - 1, events[n - 1])
  <2>1. \A i \in 0 .. k - 1 :
          f[i] = g[i] /\ g[i] = IF i = 0 THEN Fresh ELSE Absorb(g[i - 1], i - 1, events[i - 1])
    BY <1>3, <1>5 DEF Chained
  <2>2. f[k] = Absorb(g[k - 1], k - 1, events[k - 1])
    BY <1>3
  <2> HIDE DEF f
  <2>3. CASE n = k
    BY <1>3, <1>4, <2>1, <2>2, <2>3
  <2>4. CASE n # k
    <3>1. n \in 0 .. k - 1 /\ (n # 0 => n - 1 \in 0 .. k - 1)
      BY <1>3, <2>4
    <3> QED
      BY <2>1, <3>1
  <2> QED
    BY <2>3, <2>4
<1>7. Chained(f, k, events)
  <2>1. f = [n \in 0 .. k |-> f[n]]
    OBVIOUS
  <2> HIDE DEF f
  <2> QED
    BY <1>6, <2>1 DEF Chained
<1> QED
  BY <1>3, <1>7

\* A sample later, an entry is live if it was young.
LEMMA AgedEntry ==
  ASSUME NEW e \in Entries
  PROVE  /\ Aged(e) \in Entries /\ Aged(e).key = e.key
         /\ Live(Aged(e)) <=> Young(e)
         /\ Live(Aged(e)) => Live(e) /\ Aged(e).age = e.age + 1
<1> DEFINE age == IF e.valid /\ e.age <= Window THEN e.age + 1 ELSE e.age
<1>1. e.key \in Keys /\ e.age \in 0 .. Window + 1 /\ e.valid \in BOOLEAN
  BY DEF Entries
<1>2. age \in 0 .. Window + 1
  BY <1>1
<1>3. Aged(e) = [e EXCEPT !.age = age]
  BY DEF Aged
<1>4. Aged(e) = [key |-> e.key, age |-> age, valid |-> e.valid]
  <2> HIDE DEF age
  <2> QED
    BY <1>3 DEF Entries
<1>5. Aged(e) \in Entries
  <2> HIDE DEF age
  <2> QED
    BY <1>1, <1>2, <1>4 DEF Entries
<1>6. Aged(e).key = e.key /\ Aged(e).age = age /\ Aged(e).valid = e.valid
  BY <1>4
<1>7. Live(Aged(e)) <=> e.valid /\ age <= Window
  <2> HIDE DEF age
  <2> QED
    BY <1>6 DEF Live
<1>8. Live(e) <=> e.valid /\ e.age <= Window
  BY DEF Live
<1> QED
  BY <1>1, <1>5, <1>6, <1>7, <1>8 DEF Young

\* The ring a sample later.
LEMMA FreshType ==
  ASSUME Types
  PROVE  /\ Fresh \in Mergings
         /\ Fresh.next = seen_next /\ Fresh.out = Nothing
         /\ Fresh.failed = {} /\ Fresh.stats = stats
         /\ \A i \in 1 .. Slots :
              /\ seen[i].age \in Nat /\ Fresh.seen[i].key = seen[i].key
              /\ Live(Fresh.seen[i]) <=> Young(seen[i])
              /\ Live(Fresh.seen[i]) =>
                   Live(seen[i]) /\ Fresh.seen[i].age = seen[i].age + 1
<1> DEFINE s == [i \in 1 .. Slots |-> Aged(seen[i])]
           f == FALSE
           none == {}
<1>1. ASSUME NEW i \in 1 .. Slots
      PROVE  /\ seen[i] \in Entries /\ seen[i].age \in Nat
             /\ s[i] \in Entries /\ s[i].key = seen[i].key
             /\ Live(s[i]) <=> Young(seen[i])
             /\ Live(s[i]) => Live(seen[i]) /\ s[i].age = seen[i].age + 1
  <2>1. seen[i] \in Entries
    BY DEF Types, Rings
  <2>2. seen[i].age \in Nat
    BY <2>1 DEF Entries
  <2> QED
    BY <2>1, <2>2, AgedEntry
<1>2. s \in Rings
  BY <1>1 DEF Rings
<1> HIDE DEF s
<1>3. Fresh = Merged(s, seen_next, f, Nothing, none, stats)
  BY DEF Fresh, Merged, s
<1>4. Fresh \in Mergings
  <2>1. f \in BOOLEAN /\ none \in SUBSET Chains
    OBVIOUS
  <2> HIDE DEF f, none
  <2> QED
    BY <1>2, <1>3, <2>1, MergedType DEF Types
<1>5. /\ Fresh.seen = s /\ Fresh.next = seen_next /\ Fresh.out = Nothing
      /\ Fresh.failed = none /\ Fresh.stats = stats
  BY <1>3 DEF Merged
<1> QED
  BY <1>1, <1>4, <1>5

\* The merge starts from the ring a sample later.
LEMMA FreshOk ==
  ASSUME Types, ToneBank, NEW events \in EventsNow
  PROVE  MergeOk(Fresh, 0, events)
<1> DEFINE s == Fresh.seen
<1>1. \A i \in 1 .. Slots :
        /\ seen[i].age \in Nat /\ s[i].key = seen[i].key
        /\ Live(s[i]) <=> Young(seen[i])
        /\ Live(s[i]) => Live(seen[i]) /\ s[i].age = seen[i].age + 1
  BY FreshType
<1>2. Fresh \in Mergings
  BY FreshType
<1>3. /\ Fresh.next = seen_next /\ Fresh.out = Nothing
      /\ Fresh.failed = {} /\ Fresh.stats = stats
  BY FreshType
<1> HIDE DEF s
<1>4. Distinct(s)
  BY <1>1 DEF Distinct, ToneBank
<1>5. Slack(Fresh, Cardinality(After(events, 0)) + Failing(Fresh))
  <2>1. After(events, 0) = air.pending /\ Failing(Fresh) = 0
    BY <1>3 DEF After, Failing, Types, Chains
  <2>2. Cardinality(air.pending) \in Nat
    <3>1. IsFiniteSet(Chains)
      BY FS_Interval DEF Chains
    <3>2. air.pending \in SUBSET Chains
      BY DEF Types
    <3> QED
      BY <3>1, <3>2, FS_Subset, FS_CardinalityType
  <2>3. PICK r \in 0 .. Active :
          /\ r + Cardinality(air.pending) <= Active
          /\ \A i \in 1 .. Slots : Young(seen[i]) => Behind(seen_next, i) < r
    BY DEF ToneBank, Room
  <2>4. Slack(Fresh, Cardinality(air.pending))
    BY <1>1, <1>3, <2>3 DEF Slack, s
  <2>5. Cardinality(After(events, 0)) + Failing(Fresh) = Cardinality(air.pending)
    BY <2>1, <2>2
  <2> QED
    BY <2>4, <2>5
<1>6. ASSUME NEW i \in 1 .. Slots, Live(s[i]) PROVE air.age <= s[i].age + Skew
  <2>1. air.age <= (seen[i].age + Skew) + 1
    BY <1>1, <1>6 DEF ToneBank, Expiring
  <2>2. air.age \in Int
    BY DEF Types
  <2> QED
    BY <1>1, <1>6, <2>1, <2>2
<1>7. ~Reported(events, 0) /\ ~Keyed(events, 0) /\ Counted(Fresh, 0, events)
  BY <1>3 DEF Reported, Keyed, Counted, Chains
<1>8. air.content \in Contents => Following(Fresh, 0, events)
  BY <1>3, <1>7 DEF Following
<1> QED
  BY <1>2, <1>3, <1>4, <1>5, <1>6, <1>7, <1>8 DEF MergeOk, s

\* However many chains there are, the merge of their events is sound.
LEMMA MergeSound ==
  ASSUME Types, ToneBank, NEW events \in EventsNow
  PROVE  MergeOk(Merge(events), Active, events)
<1> DEFINE merged == CHOOSE f : Chained(f, Active, events)
<1>1. Chained(merged, Active, events)
  BY ChainedExists
<1>2. Merge(events) = merged[Active]
  BY DEF Merge, Chained
<1> HIDE DEF merged
<1> DEFINE T == {n \in 0 .. Active : ~MergeOk(merged[n], n, events)}
<1>3. SUFFICES ASSUME T # {} PROVE FALSE
  <2>1. Active \in 0 .. Active
    OBVIOUS
  <2> QED
    BY <1>2, <2>1
<1>4. PICK n \in T : \A y \in T : n <= y
  <2>1. T \subseteq Nat
    OBVIOUS
  <2> HIDE DEF T
  <2> QED
    BY <1>3, <2>1, LeastOf
<1>5. n \in 0 .. Active /\ ~MergeOk(merged[n], n, events)
  OBVIOUS
<1>6. merged[n] = IF n = 0 THEN Fresh ELSE Absorb(merged[n - 1], n - 1, events[n - 1])
  BY <1>1, <1>5 DEF Chained
<1>7. CASE n = 0
  BY <1>5, <1>6, <1>7, FreshOk
<1>8. CASE n # 0
  <2> DEFINE k == n - 1
  <2>1. k \in Chains /\ k \in 0 .. Active /\ ~(n <= k) /\ k + 1 = n
    BY <1>5, <1>8 DEF Chains
  <2>2. MergeOk(merged[k], k, events)
    BY <1>4, <2>1
  <2>3. merged[n] = Absorb(merged[k], k, events[k])
    BY <1>6, <1>8
  <2> HIDE DEF k, T
  <2>4. MergeOk(Absorb(merged[k], k, events[k]), k + 1, events)
    BY <2>1, <2>2, AbsorbOk
  <2> QED
    BY <1>5, <2>1, <2>3, <2>4
<1> QED
  BY <1>7, <1>8

\* The vote on a failed chain's frame has room in the ring as well.
LEMMA VoteSound ==
  ASSUME Types, NEW events \in EventsNow, NEW m, MergeOk(m, Active, events),
         NEW voted \in Contents \cup {Nothing}
  PROVE  LET r == TryVote(m, voted)
         IN  /\ r \in Mergings /\ Distinct(r.seen)
             /\ Slack(r, Cardinality(After(events, Active)))
             /\ \A i \in 1 .. Slots : Live(r.seen[i]) => air.age <= r.seen[i].age + Skew
             /\ r.stats = m.stats /\ r.failed = m.failed
             /\ air.content \in Contents =>
                  LET K == Key[air.content]
                  IN  /\ Holds(m.seen, K, air.age) => Holds(r.seen, K, air.age)
                      /\ r.out # Nothing /\ Key[r.out] = K => Holds(r.seen, K, air.age)
                      /\ Holds(m.seen, K, air.age) /\ m.out # air.content =>
                           r.out # air.content
                      /\ r.out = air.content =>
                           m.out = air.content \/ (Restores(m, voted) /\ voted = air.content)
                      /\ Restores(m, voted) /\ voted = air.content =>
                           /\ Holds(r.seen, K, air.age) /\ m.out = Nothing
                           /\ ~Knows(m.seen, K) => r.out = air.content
                      /\ ~Restores(m, voted) => r = m
                      /\ Knows(r.seen, K) =>
                           Knows(m.seen, K) \/ (r.out # Nothing /\ Key[r.out] = K)
<1> DEFINE r == TryVote(m, voted)
           K == Key[air.content]
           room == Cardinality(After(events, Active))
<1>1. /\ m \in Mergings /\ Distinct(m.seen) /\ Slack(m, room + Failing(m))
      /\ \A i \in 1 .. Slots : Live(m.seen[i]) => air.age <= m.seen[i].age + Skew
      /\ m.failed # {} => air.age <= Skew
      /\ air.content \in Contents => Following(m, Active, events)
  BY DEF MergeOk
<1>2. room \in Nat /\ air.age \in Nat /\ Failing(m) \in {0, 1}
  <2>1. Active - 1 \in Chains /\ (Active - 1) + 1 = Active
    BY DEF Chains
  <2> QED
    BY <2>1, AfterNext DEF Failing, Types
<1>3. ASSUME air.content \in Contents, m.out # Nothing, Key[m.out] = K
      PROVE  Holds(m.seen, K, air.age)
  BY <1>1, <1>3 DEF Following
<1> HIDE DEF K, room
<1>4. CASE Restores(m, voted)
  <2> DEFINE key == Key[voted]
  <2>1. r = Accept(m, voted) /\ voted \in Contents
    BY <1>4 DEF TryVote, Restores
  <2>2. Slack(m, room + 1)
    BY <1>1, <1>4 DEF Failing, Restores
  <2> HIDE DEF r
  <2>3. /\ Registered(m, r, key, room)
        /\ r.out = IF m.out = Nothing /\ ~Knows(m.seen, key) THEN voted ELSE m.out
    BY <1>1, <1>2, <2>1, <2>2, AcceptSound
  <2> HIDE DEF key
  <2>4. /\ r \in Mergings /\ r.failed = m.failed /\ r.stats = m.stats
        /\ Distinct(r.seen) /\ Slack(r, room)
        /\ \A i \in 1 .. Slots : Live(r.seen[i]) => r.seen[i].age = 0 \/ r.seen[i] = m.seen[i]
    BY <2>3 DEF Registered
  <2>5. ASSUME NEW i \in 1 .. Slots, Live(r.seen[i])
        PROVE  air.age <= r.seen[i].age + Skew
    <3>1. CASE r.seen[i].age = 0
      BY <1>1, <1>2, <1>4, <3>1 DEF Restores
    <3>2. CASE r.seen[i] = m.seen[i]
      BY <1>1, <2>5, <3>2
    <3> QED
      BY <2>4, <2>5, <3>1, <3>2
  <2>6. /\ Holds(m.seen, K, air.age) => Holds(r.seen, K, air.age) /\ Knows(m.seen, K)
        /\ Holds(r.seen, key, air.age)
    BY <1>1, <1>2, <2>3, HoldsStays, SMTT(40) DEF Holds, Knows
  <2>7. voted = air.content => key = K
    BY DEF key, K
  <2>8. m.out = Nothing /\ m.failed # {} /\ voting /\ voted # Nothing
    BY <1>4 DEF Restores
  <2>9. r.out = IF ~Knows(m.seen, key) THEN voted ELSE Nothing
    BY <2>3, <2>8
  <2>10. \A other : Knows(r.seen, other) => other = key \/ Knows(m.seen, other)
    BY <2>3 DEF Registered
  <2>11. r.out # Nothing => r.out = voted
    BY <2>9
  <2>12. r.out # Nothing /\ Key[r.out] = K => key = K
    BY <2>11 DEF key
  <2>13. r.out = voted => Key[r.out] = key
    BY DEF key
  <2>14. ASSUME air.content \in Contents
         PROVE  /\ Holds(m.seen, K, air.age) => Holds(r.seen, K, air.age)
                /\ r.out # Nothing /\ Key[r.out] = K => Holds(r.seen, K, air.age)
                /\ Holds(m.seen, K, air.age) /\ m.out # air.content => r.out # air.content
                /\ r.out = air.content =>
                     m.out = air.content \/ (Restores(m, voted) /\ voted = air.content)
                /\ Restores(m, voted) /\ voted = air.content =>
                     /\ Holds(r.seen, K, air.age) /\ m.out = Nothing
                     /\ ~Knows(m.seen, K) => r.out = air.content
                /\ ~Restores(m, voted) => r = m
                /\ Knows(r.seen, K) =>
                     Knows(m.seen, K) \/ (r.out # Nothing /\ Key[r.out] = K)
    <3>1. air.content # Nothing
      BY <2>14
    <3>2. r.out = air.content => voted = air.content /\ ~Knows(m.seen, K)
      BY <2>7, <2>9, <3>1
    <3>3. Knows(r.seen, K) /\ ~Knows(m.seen, K) => r.out = voted /\ key = K
      BY <2>9, <2>10
    <3> QED
      BY <1>4, <2>6, <2>7, <2>8, <2>9, <2>12, <2>13, <3>2, <3>3
  <2> QED
    BY <2>4, <2>5, <2>8, <2>14 DEF r, K, room
<1>5. CASE ~Restores(m, voted)
  <2>1. r = m
    BY <1>5 DEF TryVote
  <2>2. Slack(m, room)
    <3>1. room + Failing(m) \in Nat /\ room <= room + Failing(m)
      BY <1>2
    <3> QED
      BY <1>1, <1>2, <3>1, SlackLess
  <2> QED
    BY <1>1, <1>3, <1>5, <2>1, <2>2 DEF r, K, room
<1> QED
  BY <1>4, <1>5

-----------------------------------------------------------------------------
(* The steps                                                               *)

\* Time passes on the channel.
LEMMA AdvanceExact ==
  ASSUME Types, NEW events, Elapse(events)
  PROVE  /\ air' \in [content : Contents \cup {Nothing}, age : 0 .. Gap, pending : SUBSET Chains]
         /\ air'.content = air.content
         /\ air'.age = IF air.age < Gap THEN air.age + 1 ELSE air.age
         /\ air'.pending = {c \in air.pending : events[c] = Quiet}
<1> DEFINE age == IF air.age < Gap THEN air.age + 1 ELSE air.age
           pending == {c \in air.pending : events[c] = Quiet}
           aged == [air EXCEPT !.age = age]
<1>1. /\ air.content \in Contents \cup {Nothing} /\ air.age \in 0 .. Gap
      /\ air.pending \in SUBSET Chains
  BY DEF Types
<1>2. age \in 0 .. Gap /\ pending \in SUBSET Chains
  BY <1>1
<1>3. air' = [aged EXCEPT !.pending = pending]
  BY DEF Elapse, Types
<1> HIDE DEF age, pending
<1>4. aged = [content |-> air.content, age |-> age, pending |-> air.pending]
  BY DEF Types
<1> HIDE DEF aged
<1>5. air' = [content |-> air.content, age |-> age, pending |-> pending]
  BY <1>3, <1>4
<1> QED
  BY <1>1, <1>2, <1>5 DEF age, pending

\* The bookkeeping of a step, field by field.
Collided(events) == \E c \in Chains : Collides(events[c].content)
Recording(h, events, restored, m) ==
  /\ h \in Histories
  /\ h.decoded <=> history.decoded \/ restored \/ Reported(events, Active)
  /\ h.claimed <=> history.claimed \/ Collides(m.out) \/ Collided(events)
  /\ h.preempted <=> \/ history.preempted
                     \/ /\ restored \/ Reported(events, Active)
                        /\ ~history.decoded
                        /\ m.out \notin {Nothing, air.content} \/ history.claimed
  /\ h.emitted = IF m.out # Nothing /\ m.out = air.content
                 THEN history.emitted + 1 ELSE history.emitted
  /\ h.failures = IF events[Primary] = Failure("Fcs") THEN history.failures + 1
                  ELSE history.failures
LEMMA RecordedExact ==
  ASSUME Types, NEW events, NEW restored \in BOOLEAN, NEW m
  PROVE  Recording(Recorded(events, restored, m), events, restored, m)
<1> DEFINE decodedNow == restored \/ \E c \in Chains : events[c] = Ok(air.content)
           decoded == history.decoded \/ decodedNow
           claimed == \/ history.claimed \/ Collides(m.out)
                      \/ \E c \in Chains : Collides(events[c].content)
           preempted == \/ history.preempted
                        \/ /\ decodedNow /\ ~history.decoded
                           /\ m.out \notin {Nothing, air.content} \/ history.claimed
           emitted == IF m.out # Nothing /\ m.out = air.content
                      THEN history.emitted + 1 ELSE history.emitted
           failures == IF events[Primary] = Failure("Fcs") THEN history.failures + 1
                       ELSE history.failures
           h == Recorded(events, restored, m)
<1>1. /\ history.sent \in Nat /\ history.decoded \in BOOLEAN /\ history.claimed \in BOOLEAN
      /\ history.preempted \in BOOLEAN /\ history.emitted \in Nat /\ history.failures \in Nat
      /\ history = [sent |-> history.sent, decoded |-> history.decoded,
                    claimed |-> history.claimed, preempted |-> history.preempted,
                    emitted |-> history.emitted, failures |-> history.failures]
  BY DEF Types, Histories
<1>2. decodedNow \in BOOLEAN /\ decoded \in BOOLEAN /\ claimed \in BOOLEAN
      /\ preempted \in BOOLEAN /\ emitted \in Nat /\ failures \in Nat
  BY <1>1
<1>3. decodedNow <=> restored \/ Reported(events, Active)
  BY DEF Reported, Chains
<1> DEFINE h1 == [history EXCEPT !.decoded = decoded]
           h2 == [h1 EXCEPT !.claimed = claimed]
           h3 == [h2 EXCEPT !.preempted = preempted]
           h4 == [h3 EXCEPT !.emitted = emitted]
           h5 == [h4 EXCEPT !.failures = failures]
<1>4. h = h5
  <2>1. h = [history EXCEPT !.decoded = decoded, !.claimed = claimed,
                            !.preempted = preempted, !.emitted = emitted,
                            !.failures = failures]
    <3> HIDE DEF decodedNow
    <3> QED
      BY <1>1 DEF Recorded, decodedNow
  <2> HIDE DEF decoded, claimed, preempted, emitted, failures
  <2> QED
    BY <1>1, <2>1
<1>5. claimed <=> history.claimed \/ Collides(m.out) \/ Collided(events)
  BY DEF Collided
<1>6. preempted <=> \/ history.preempted
                    \/ /\ restored \/ Reported(events, Active)
                       /\ ~history.decoded
                       /\ m.out \notin {Nothing, air.content} \/ history.claimed
  BY <1>3
<1>7. decoded <=> history.decoded \/ restored \/ Reported(events, Active)
  BY <1>3
<1> HIDE DEF decodedNow, decoded, claimed, preempted, h
<1>8. h1 = [sent |-> history.sent, decoded |-> decoded, claimed |-> history.claimed,
            preempted |-> history.preempted, emitted |-> history.emitted,
            failures |-> history.failures]
  BY <1>1
<1> HIDE DEF h1
<1>9. h2 = [sent |-> history.sent, decoded |-> decoded, claimed |-> claimed,
            preempted |-> history.preempted, emitted |-> history.emitted,
            failures |-> history.failures]
  BY <1>8
<1> HIDE DEF h2
<1>10. h3 = [sent |-> history.sent, decoded |-> decoded, claimed |-> claimed,
             preempted |-> preempted, emitted |-> history.emitted,
             failures |-> history.failures]
  BY <1>9
<1> HIDE DEF h3, emitted
<1>11. h4 = [sent |-> history.sent, decoded |-> decoded, claimed |-> claimed,
             preempted |-> preempted, emitted |-> emitted, failures |-> history.failures]
  BY <1>10
<1> HIDE DEF h4, failures
<1>12. h5 = [sent |-> history.sent, decoded |-> decoded, claimed |-> claimed,
             preempted |-> preempted, emitted |-> emitted, failures |-> failures]
  BY <1>11
<1> HIDE DEF h5
<1>13. /\ h \in Histories
       /\ h.decoded = decoded /\ h.claimed = claimed /\ h.preempted = preempted
       /\ h.emitted = emitted /\ h.failures = failures
  BY <1>1, <1>2, <1>4, <1>12 DEF Histories
<1> QED
  BY <1>5, <1>6, <1>7, <1>13 DEF Recording, h, emitted, failures

\* The frames completed with the key of the one on the air: itself, or others.
LEMMA KeyedExact ==
  ASSUME Types, NEW events \in EventsNow, air.content # Nothing
  PROVE  Keyed(events, Active) <=> Reported(events, Active) \/ Collided(events)
<1>1. ASSUME NEW c \in Chains
      PROVE  events[c] = Ok(air.content) <=> events[c].content = air.content
  <2>1. /\ Quiet.content = Nothing /\ \A kind : Failure(kind).content = Nothing
        /\ \A x : Ok(x).content = x
    BY DEF Quiet, Failure, Ok
  <2>2. \/ events[c] = Quiet
        \/ \E kind \in {"Fcs", "TooLarge"} : events[c] = Failure(kind)
        \/ \E x \in Contents : events[c] = Ok(x)
    BY EventOf
  <2> QED
    BY <2>1, <2>2
<1>2. \A c \in Chains : c < Active
  BY DEF Chains
<1> QED
  BY <1>1, <1>2 DEF Keyed, Reported, Collided, Collides

\* Parsing changes the counters of parsed and of malformed frames.
LEMMA ParseSound ==
  ASSUME NEW s \in Stats, NEW content
  PROVE  Parse(s, content) \in Stats /\ Parse(s, content).fcs_errors = s.fcs_errors
<1> DEFINE ok == SaturatingInc(s.frames_ok)
           bad == SaturatingInc(s.malformed)
<1>1. ok \in 0 .. StatMax /\ bad \in 0 .. StatMax
  BY CounterType DEF Stats
<1>2. \/ Parse(s, content) = s
      \/ Parse(s, content) = [s EXCEPT !.frames_ok = ok]
      \/ Parse(s, content) = [s EXCEPT !.malformed = bad]
  BY DEF Parse
<1> HIDE DEF ok, bad
<1> QED
  BY <1>1, <1>2 DEF Stats

\* The failures counted are the primary chain's.
LEMMA CountedStep ==
  ASSUME Types, SingleReceiverStats, NEW events, NEW fcs,
         fcs = IF events[Primary] = Failure("Fcs") THEN SaturatingInc(stats.fcs_errors)
               ELSE stats.fcs_errors,
         stats'.fcs_errors = fcs,
         history'.failures = IF events[Primary] = Failure("Fcs") THEN history.failures + 1
                             ELSE history.failures
  PROVE  SingleReceiverStats'
<1>1. history.failures \in Nat
  BY DEF Types, Histories
<1> QED
  BY <1>1 DEF SingleReceiverStats, SaturatingInc

\* One sample through the chain bank.
LEMMA PushInv ==
  ASSUME ReceiverInv, NEW events \in EventsNow, NEW voted \in Votes(events),
         Push(events, voted)
  PROVE  ReceiverInv'
<1> DEFINE bank == Merge(events)
           m == TryVote(bank, voted)
           restored == Restores(bank, voted) /\ voted = air.content
           K == Key[air.content]
           ofAir == Reported(events, Active)
<1>1. /\ Types /\ SingleReceiverStats /\ Emission /\ ToneBank /\ scheme = "tones"
      /\ scheme' = scheme /\ voting' = voting
      /\ seen' = m.seen /\ seen_next' = m.next /\ out' = Emitted(m.out)
      /\ stats' = Parse(m.stats, m.out) /\ Elapse(events)
      /\ history' = Recorded(events, restored, m)
  BY DEF ReceiverInv, Push
<1>2. MergeOk(bank, Active, events)
  BY <1>1, MergeSound
<1>3. voted \in Contents \cup {Nothing}
  BY DEF Votes
<1> HIDE DEF bank
<1>4. /\ m \in Mergings /\ Distinct(m.seen)
      /\ Slack(m, Cardinality(After(events, Active)))
      /\ \A i \in 1 .. Slots : Live(m.seen[i]) => air.age <= m.seen[i].age + Skew
      /\ m.stats = bank.stats /\ m.failed = bank.failed
      /\ air.content \in Contents =>
           /\ Holds(bank.seen, K, air.age) => Holds(m.seen, K, air.age)
           /\ m.out # Nothing /\ Key[m.out] = K => Holds(m.seen, K, air.age)
           /\ Holds(bank.seen, K, air.age) /\ bank.out # air.content =>
                m.out # air.content
           /\ m.out = air.content => bank.out = air.content \/ restored
           /\ restored => /\ Holds(m.seen, K, air.age) /\ bank.out = Nothing
                          /\ ~Knows(bank.seen, K) => m.out = air.content
           /\ ~Restores(bank, voted) => m = bank
           /\ Knows(m.seen, K) => \/ Knows(bank.seen, K)
                                  \/ m.out # Nothing /\ Key[m.out] = K
  BY <1>1, <1>2, <1>3, VoteSound
<1> HIDE DEF m
<1>5. /\ air' \in [content : Contents \cup {Nothing}, age : 0 .. Gap, pending : SUBSET Chains]
      /\ air'.content = air.content
      /\ air'.age = IF air.age < Gap THEN air.age + 1 ELSE air.age
      /\ air'.pending = {c \in air.pending : events[c] = Quiet}
  BY <1>1, AdvanceExact
<1>6. Recording(history', events, restored, m)
  BY <1>1, RecordedExact
<1>7. restored => bank.failed # {} /\ voted = air.content /\ voted # Nothing
  BY DEF Restores
<1> HIDE DEF restored
<1>8. /\ bank.failed # {} => air.age <= Skew
      /\ air.content \in Contents => Following(bank, Active, events)
      /\ Counted(bank, Active, events)
  BY <1>2 DEF MergeOk
<1>9. air.age \in 0 .. Gap /\ air.content \in Contents \cup {Nothing}
      /\ air.pending \in SUBSET Chains
  BY <1>1 DEF Types
<1>10. ofAir => air.age <= Skew /\ air.pending # {}
  BY <1>1, EventOf, Kinds DEF Reported
<1> HIDE DEF ofAir
<1>11. Types'
  <2>1. /\ m.seen \in Rings /\ m.next \in 0 .. Slots - 1 /\ m.out \in Contents \cup {Nothing}
        /\ m.stats \in Stats
    BY <1>4 DEF Mergings
  <2>2. Emitted(m.out) \in UiContents \cup {Nothing}
    BY DEF Emitted
  <2>3. stats' \in Stats
    BY <1>1, <2>1, ParseSound
  <2>4. scheme' \in {"tones", "baseband"} /\ voting' \in BOOLEAN
    BY <1>1 DEF Types
  <2> QED
    BY <1>1, <1>5, <1>6, <2>1, <2>2, <2>3, <2>4 DEF Types, Recording
<1>12. SingleReceiverStats'
  <2>1. m.stats \in Stats
    BY <1>4 DEF Mergings
  <2>2. stats'.fcs_errors = bank.stats.fcs_errors
    BY <1>1, <1>4, <2>1, ParseSound
  <2>3. Primary < Active
    BY DEF Chains
  <2>4. bank.stats.fcs_errors = IF events[Primary] = Failure("Fcs")
                                THEN SaturatingInc(stats.fcs_errors) ELSE stats.fcs_errors
    BY <1>8, <2>3 DEF Counted
  <2>5. history'.failures = IF events[Primary] = Failure("Fcs") THEN history.failures + 1
                            ELSE history.failures
    BY <1>6 DEF Recording
  <2> QED
    BY <1>1, <2>2, <2>4, <2>5, CountedStep
<1>13. ASSUME history.decoded \/ history.claimed, air.age <= Skew, air.content \in Contents
       PROVE  Holds(Fresh.seen, K, air.age)
  <2>1. PICK i \in 1 .. Slots : seen[i].valid /\ seen[i].age < air.age /\ seen[i].key = K
    BY <1>1, <1>13 DEF ToneBank, Remembered
  <2>2. /\ seen[i].age \in Nat /\ Fresh.seen[i].key = seen[i].key
        /\ Live(Fresh.seen[i]) <=> Young(seen[i])
        /\ Live(Fresh.seen[i]) => Fresh.seen[i].age = seen[i].age + 1
    BY <1>1, FreshType
  <2>3. seen[i].age < Window /\ seen[i].age + 1 <= air.age
    BY <1>9, <1>13, <2>1, <2>2
  <2>4. Live(Fresh.seen[i]) /\ Fresh.seen[i].age <= air.age
    BY <2>1, <2>2, <2>3 DEF Young
  <2> QED
    BY <2>1, <2>2, <2>4 DEF Holds
<1>14. ASSUME history.decoded \/ history.claimed, air.content \in Contents
       PROVE  m.out # air.content
  <2>1. CASE air.age <= Skew
    BY <1>4, <1>8, <1>13, <1>14, <2>1 DEF Following
  <2>2. CASE ~(air.age <= Skew)
    BY <1>4, <1>8, <1>10, <1>14, <1>7, <2>2 DEF Following, ofAir
  <2> QED
    BY <2>1, <2>2
<1>15. ASSUME air.content \in Contents, m.out = air.content
       PROVE  ofAir \/ restored
  BY <1>4, <1>8, <1>15 DEF Following, ofAir
<1>16. ASSUME air.age <= Skew, ~history.decoded, ~history.claimed
       PROVE  ~Knows(Fresh.seen, K)
  <2> SUFFICES ASSUME NEW i \in 1 .. Slots, Live(Fresh.seen[i]), Fresh.seen[i].key = K
               PROVE  FALSE
    BY DEF Knows
  <2>1. Young(seen[i]) /\ seen[i].key = K
    BY <1>1, FreshType
  <2> QED
    BY <1>1, <1>16, <2>1 DEF ToneBank, Unclaimed
<1>17. air.content \in Contents =>
         /\ Keyed(events, Active) => Holds(bank.seen, K, air.age)
         /\ bank.out # Nothing /\ Key[bank.out] = K => Keyed(events, Active)
         /\ Knows(bank.seen, K) => Knows(Fresh.seen, K) \/ Keyed(events, Active)
         /\ bank.out = Nothing /\ Knows(bank.seen, K) => Knows(Fresh.seen, K)
  BY <1>8 DEF Following
<1>18. air.content # Nothing => (Keyed(events, Active) <=> ofAir \/ Collided(events))
  BY <1>1, KeyedExact DEF ofAir
\* The first decode of a frame whose key is not known is emitted, unless
\* another frame took the sample.
<1>19. ASSUME air.content \in Contents, ofAir \/ restored, ~history.decoded,
              ~history.claimed
       PROVE  m.out # Nothing
  <2>1. air.age <= Skew
    BY <1>8, <1>10, <1>7, <1>19
  <2>2. ~Knows(Fresh.seen, K)
    BY <1>16, <1>19, <2>1
  <2>3. Holds(bank.seen, K, air.age) => Knows(bank.seen, K)
    BY DEF Holds, Knows
  <2>4. CASE restored
    <3>1. bank.out = Nothing /\ ~Knows(bank.seen, K)
      BY <1>4, <1>17, <1>19, <2>2, <2>4
    <3>2. m.out = air.content
      BY <1>4, <1>19, <2>4, <3>1
    <3> QED
      BY <1>19, <3>2
  <2>5. CASE ofAir /\ ~restored
    <3>1. Knows(bank.seen, K)
      BY <1>17, <1>18, <1>19, <2>3, <2>5
    <3>2. bank.out # Nothing
      BY <1>17, <1>19, <2>2, <3>1
    <3>3. ~Restores(bank, voted)
      BY <3>2 DEF Restores
    <3>4. m = bank
      BY <1>4, <1>19, <3>3
    <3> QED
      BY <3>2, <3>4
  <2> QED
    BY <1>19, <2>4, <2>5
<1>20. Emission'
  <2>1. /\ history.emitted = IF history.decoded /\ ~history.preempted THEN 1 ELSE 0
        /\ history.preempted => history.decoded
        /\ history.decoded => air.content # Nothing
        /\ air.content = Nothing => air.pending = {} /\ air.age = Gap
    BY <1>1 DEF Emission
  <2>2. /\ history'.decoded <=> history.decoded \/ restored \/ ofAir
        /\ history'.preempted <=>
             \/ history.preempted
             \/ /\ restored \/ ofAir
                /\ ~history.decoded
                /\ m.out \notin {Nothing, air.content} \/ history.claimed
        /\ history'.emitted = IF m.out # Nothing /\ m.out = air.content
                              THEN history.emitted + 1 ELSE history.emitted
    BY <1>6 DEF Recording, ofAir
  <2>3. CASE air.content = Nothing
    <3>1. ~ofAir /\ ~restored /\ ~history.decoded /\ ~history.preempted
      BY <1>10, <1>7, <2>1, <2>3
    <3>2. ~history'.decoded /\ ~history'.preempted /\ history'.emitted = 0
      BY <2>1, <2>3, <2>2, <3>1
    <3>3. air'.pending = {} /\ air'.age = Gap
      BY <1>5, <2>1, <2>3
    <3> QED
      BY <3>2, <3>3 DEF Emission
  <2>4. CASE air.content # Nothing /\ history.decoded
    <3>1. m.out # air.content
      BY <1>9, <1>14, <2>4
    <3>2. /\ history'.decoded /\ (history'.preempted <=> history.preempted)
          /\ history'.emitted = history.emitted
      BY <2>4, <2>2, <3>1
    <3> QED
      BY <1>5, <2>1, <2>4, <3>2 DEF Emission
  <2>5. CASE air.content # Nothing /\ ~history.decoded
    <3>1. /\ history.emitted = 0 /\ ~history.preempted
          /\ m.out = air.content => (ofAir \/ restored) /\ ~history.claimed
      BY <1>9, <1>14, <1>15, <2>1, <2>5
    <3>2. CASE m.out = air.content
      <4>1. history'.decoded /\ ~history'.preempted /\ history'.emitted = 1
        BY <2>5, <2>2, <3>1, <3>2
      <4> QED
        BY <1>5, <2>5, <4>1 DEF Emission
    <3>3. CASE m.out # air.content
      <4>1. ofAir \/ restored => m.out # Nothing \/ history.claimed
        BY <1>9, <1>19, <2>5
      <4>2. /\ history'.decoded <=> ofAir \/ restored
            /\ history'.preempted <=> ofAir \/ restored
            /\ history'.emitted = 0
        BY <2>5, <2>2, <3>1, <3>3, <4>1
      <4> QED
        BY <1>5, <2>5, <4>2 DEF Emission
    <3> QED
      BY <3>2, <3>3
  <2> QED
    BY <2>3, <2>4, <2>5
<1>21. ASSUME NEW i \in 1 .. Slots
       PROVE  /\ m.seen[i].age \in 0 .. Window + 1
              /\ Young(m.seen[i]) => Live(m.seen[i])
  <2>1. m.seen \in Rings
    BY <1>4 DEF Mergings
  <2>2. m.seen[i] \in Entries
    BY <2>1 DEF Rings
  <2>3. m.seen[i].age \in 0 .. Window + 1
    BY <2>2 DEF Entries
  <2> QED
    BY <2>3 DEF Young, Live
<1>22. Room'
  <2>1. After(events, Active) = air'.pending
    BY <1>5, <1>9 DEF After, Chains
  <2>2. PICK r \in 0 .. Active :
          /\ r + Cardinality(air'.pending) <= Active
          /\ \A i \in 1 .. Slots : Live(m.seen[i]) => Behind(m.next, i) < r
    BY <1>4, <2>1 DEF Slack
  <2> QED
    BY <1>1, <1>21, <2>2 DEF Room
<1>23. Expiring'
  <2> SUFFICES ASSUME NEW i \in 1 .. Slots, Live(m.seen[i])
               PROVE  air'.age <= (m.seen[i].age + Skew) + 1
    BY <1>1 DEF Expiring
  <2>1. air.age <= m.seen[i].age + Skew
    BY <1>4
  <2> QED
    BY <1>5, <1>9, <1>21, <2>1
<1>24. air'.age <= Skew =>
         air.age <= Skew /\ air'.age = air.age + 1 /\ air.content \in Contents
  BY <1>1, <1>5, <1>9 DEF Emission
<1>25. /\ history'.decoded <=> history.decoded \/ restored \/ ofAir
       /\ history'.claimed <=> history.claimed \/ Collides(m.out) \/ Collided(events)
  BY <1>6 DEF Recording, ofAir
<1>26. Remembered'
  <2> SUFFICES ASSUME history'.decoded \/ history'.claimed, air'.age <= Skew
               PROVE  \E i \in 1 .. Slots : /\ m.seen[i].valid /\ m.seen[i].age < air'.age
                                            /\ m.seen[i].key = Key[air'.content]
    BY <1>1 DEF Remembered
  <2>1. air.age <= Skew /\ air'.age = air.age + 1
    BY <1>24
  <2>2. air.content \in Contents
    BY <1>24
  <2>3. Holds(m.seen, K, air.age)
    <3>1. CASE history.decoded \/ history.claimed
      BY <1>4, <1>8, <1>13, <2>1, <2>2, <3>1 DEF Following
    <3>2. CASE ofAir \/ Collided(events)
      BY <1>4, <1>17, <1>18, <2>2, <3>2
    <3>3. CASE restored
      BY <1>4, <2>2, <3>3
    <3>4. CASE Collides(m.out)
      BY <1>4, <2>2, <3>4 DEF Collides
    <3> QED
      BY <1>25, <3>1, <3>2, <3>3, <3>4
  <2>4. PICK i \in 1 .. Slots : Live(m.seen[i]) /\ m.seen[i].key = K /\ m.seen[i].age <= air.age
    BY <2>3 DEF Holds
  <2>5. m.seen[i].valid /\ m.seen[i].age < air'.age
    BY <1>9, <1>21, <2>1, <2>4 DEF Live
  <2> QED
    BY <1>5, <2>4, <2>5
<1>27. Unclaimed'
  <2> SUFFICES ASSUME air'.age <= Skew, ~history'.decoded, ~history'.claimed
               PROVE  ~Knows(m.seen, K)
    BY <1>1, <1>5, <1>21 DEF Unclaimed, Knows
  <2>1. /\ ~history.decoded /\ ~restored /\ ~ofAir
        /\ ~history.claimed /\ ~Collides(m.out) /\ ~Collided(events)
    BY <1>25
  <2>2. air.age <= Skew /\ air.content \in Contents
    BY <1>24
  <2>3. ~Knows(bank.seen, K)
    BY <1>16, <1>17, <1>18, <2>1, <2>2
  <2>4. ~(m.out # Nothing /\ Key[m.out] = K)
    <3>1. m.out # air.content
      BY <1>15, <2>1, <2>2
    <3> QED
      BY <2>1, <3>1 DEF Collides
  <2> QED
    BY <1>4, <2>2, <2>3, <2>4
<1>28. Distinct(seen')
  BY <1>1, <1>4
<1> QED
  BY <1>1, <1>11, <1>12, <1>20, <1>22, <1>23, <1>26, <1>28, <1>27
  DEF ReceiverInv, ToneBank, Distinct

\* What the single chain's event does to the counters.
LEMMA BasebandCounts ==
  ASSUME Types, NEW events \in EventsNow, NEW m \in Mergings, m.stats = stats
  PROVE  LET counted == Absorb(m, Primary, [events[Primary] EXCEPT !.kind =
                                              IF @ = "Ok" THEN "None" ELSE @])
         IN  /\ counted.stats \in Stats
             /\ counted.stats.fcs_errors = IF events[Primary] = Failure("Fcs")
                                           THEN SaturatingInc(stats.fcs_errors)
                                           ELSE stats.fcs_errors
<1> DEFINE e == [events[Primary] EXCEPT !.kind = IF @ = "Ok" THEN "None" ELSE @]
           counted == Absorb(m, Primary, e)
<1>1. stats \in Stats /\ Primary \in Chains
  BY DEF Types
<1>2. ASSUME NEW kind \in {"Fcs", "TooLarge"}, events[Primary] = Failure(kind)
      PROVE  /\ counted.stats \in Stats
             /\ counted.stats.fcs_errors = IF events[Primary] = Failure("Fcs")
                                           THEN SaturatingInc(stats.fcs_errors)
                                           ELSE stats.fcs_errors
  <2>1. e = Failure(kind)
    BY <1>2 DEF Failure
  <2> HIDE DEF e
  <2> DEFINE r == Absorb(m, Primary, Failure(kind))
  <2>2. /\ r \in Mergings
        /\ r.stats.fcs_errors = IF kind = "Fcs" /\ Primary = Primary
                                THEN SaturatingInc(m.stats.fcs_errors)
                                ELSE m.stats.fcs_errors
    BY <1>1, AbsorbError
  <2>3. kind = "Fcs" <=> events[Primary] = Failure("Fcs")
    BY <1>2, Kinds
  <2>4. counted = r
    BY <2>1
  <2> HIDE DEF r, counted
  <2>5. r.stats \in Stats
    BY <2>2 DEF Mergings
  <2> QED
    BY <2>2, <2>3, <2>4, <2>5
<1>3. ASSUME events[Primary] = Quiet \/ \E c \in Contents : events[Primary] = Ok(c)
      PROVE  /\ counted.stats = stats /\ events[Primary] # Failure("Fcs")
  <2>1. events[Primary] # Failure("Fcs")
    BY <1>3, Kinds
  <2>2. e.kind = "None"
    <3>1. CASE events[Primary] = Quiet
      BY <3>1 DEF Quiet
    <3>2. ASSUME NEW c \in Contents, events[Primary] = Ok(c) PROVE e.kind = "None"
      BY <3>2 DEF Ok
    <3> QED
      BY <1>3, <3>1, <3>2
  <2> HIDE DEF e
  <2>3. counted = m
    BY <2>2 DEF Absorb
  <2> QED
    BY <2>1, <2>3
<1>4. \/ \E kind \in {"Fcs", "TooLarge"} : events[Primary] = Failure(kind)
      \/ events[Primary] = Quiet \/ \E c \in Contents : events[Primary] = Ok(c)
  BY <1>1, EventOf
<1> HIDE DEF counted
<1>5. /\ counted.stats \in Stats
      /\ counted.stats.fcs_errors = IF events[Primary] = Failure("Fcs")
                                    THEN SaturatingInc(stats.fcs_errors)
                                    ELSE stats.fcs_errors
  BY <1>1, <1>2, <1>3, <1>4
<1> QED
  BY <1>5 DEF counted, e

\* One sample through the G3RUH chain.
LEMMA BasebandInv ==
  ASSUME ReceiverInv, NEW events \in EventsNow, PushBaseband(events)
  PROVE  ReceiverInv'
<1> DEFINE content == events[Primary].content
           m == [Fresh EXCEPT !.out = content]
           counted == Absorb(m, Primary, [events[Primary] EXCEPT !.kind =
                                            IF @ = "Ok" THEN "None" ELSE @])
           ofAir == Reported(events, Active)
           no == FALSE
<1>1. /\ Types /\ SingleReceiverStats /\ Emission /\ OneChain /\ scheme = "baseband"
      /\ scheme' = scheme /\ voting' = voting /\ seen' = seen /\ seen_next' = seen_next
      /\ out' = Emitted(m.out) /\ stats' = Parse(counted.stats, m.out) /\ Elapse(events)
      /\ history' = Recorded(events, no, m)
  BY DEF ReceiverInv, PushBaseband
<1>2. Primary \in Chains
  OBVIOUS
<1>3. content \in Contents \cup {Nothing}
      /\ (content # Nothing => events[Primary] = Ok(content))
  <2>1. /\ Quiet.content = Nothing /\ \A kind : Failure(kind).content = Nothing
        /\ \A c : Ok(c).content = c
    BY DEF Quiet, Failure, Ok
  <2>2. \/ events[Primary] = Quiet
        \/ \E kind \in {"Fcs", "TooLarge"} : events[Primary] = Failure(kind)
        \/ \E c \in Contents : events[Primary] = Ok(c)
    BY <1>1, <1>2, EventOf
  <2> QED
    BY <2>1, <2>2
<1>5. \A c : events[Primary] = Ok(c) => content = c
  BY DEF Ok
<1> HIDE DEF content
<1>6. m \in Mergings /\ m.out = content /\ m.failed = {} /\ m.stats = stats
  <2>1. Fresh \in Mergings /\ Fresh.failed = {} /\ Fresh.stats = stats
    BY <1>1, FreshType
  <2>2. m = Merged(Fresh.seen, Fresh.next, Fresh.fresh, content, Fresh.failed, Fresh.stats)
    BY <2>1, OutReplaced
  <2>3. /\ Fresh.seen \in Rings /\ Fresh.next \in 0 .. Slots - 1 /\ Fresh.fresh \in BOOLEAN
        /\ Fresh.failed \in SUBSET Chains /\ Fresh.stats \in Stats
    BY <2>1 DEF Mergings
  <2> HIDE DEF m
  <2>4. m \in Mergings
    BY <1>3, <2>2, <2>3, MergedType
  <2> QED
    BY <2>1, <2>2, <2>4 DEF Merged
<1> HIDE DEF m
<1>7. /\ counted.stats \in Stats
      /\ counted.stats.fcs_errors = IF events[Primary] = Failure("Fcs")
                                    THEN SaturatingInc(stats.fcs_errors)
                                    ELSE stats.fcs_errors
  BY <1>1, <1>6, BasebandCounts
<1> HIDE DEF counted
<1>8. /\ air' \in [content : Contents \cup {Nothing}, age : 0 .. Gap, pending : SUBSET Chains]
      /\ air'.content = air.content
      /\ air'.age = IF air.age < Gap THEN air.age + 1 ELSE air.age
      /\ air'.pending = {c \in air.pending : events[c] = Quiet}
  BY <1>1, AdvanceExact
<1>9. /\ history' \in Histories
      /\ history'.decoded <=> history.decoded \/ ofAir
      /\ history'.claimed <=> history.claimed \/ Collides(content) \/ Collided(events)
      /\ history'.preempted <=>
           \/ history.preempted
           \/ /\ ofAir /\ ~history.decoded
              /\ content \notin {Nothing, air.content} \/ history.claimed
      /\ history'.emitted = IF content # Nothing /\ content = air.content
                            THEN history.emitted + 1 ELSE history.emitted
      /\ history'.failures = IF events[Primary] = Failure("Fcs") THEN history.failures + 1
                             ELSE history.failures
  <2>1. no \in BOOLEAN /\ ~no
    OBVIOUS
  <2> HIDE DEF no, ofAir
  <2>2. Recording(history', events, no, m)
    BY <1>1, <2>1, RecordedExact
  <2> QED
    BY <1>6, <2>1, <2>2 DEF Recording, ofAir
<1>10. air.age \in 0 .. Gap /\ air.content \in Contents \cup {Nothing}
       /\ air.pending \in SUBSET {Primary}
  BY <1>1 DEF Types, OneChain
<1>11. ofAir <=> events[Primary] = Ok(air.content)
  <2>1. \A c \in Chains : events[c] = Ok(air.content) => c = Primary
    BY <1>1, <1>10, EventOf, Kinds
  <2> QED
    BY <2>1 DEF Reported, Chains
<1>12. events[Primary] # Quiet => Primary \in air.pending /\ air'.pending = {}
  BY <1>1, <1>2, <1>8, <1>10, EventOf
<1>13. ofAir => content = air.content /\ Primary \in air.pending /\ air'.pending = {}
  BY <1>5, <1>11, <1>12, Kinds
<1>14. content # Nothing /\ content = air.content => ofAir
  BY <1>3, <1>11
<1>15. content # Nothing => air.pending # {}
  BY <1>3, <1>12, Kinds
<1> HIDE DEF ofAir
<1>16. Types'
  <2>1. Emitted(m.out) \in UiContents \cup {Nothing}
    BY DEF Emitted
  <2>2. stats' \in Stats
    BY <1>1, <1>7, ParseSound
  <2>3. /\ scheme' \in {"tones", "baseband"} /\ voting' \in BOOLEAN
        /\ seen' \in Rings /\ seen_next' \in 0 .. Slots - 1
    BY <1>1 DEF Types
  <2> QED
    BY <1>1, <1>8, <1>9, <2>1, <2>2, <2>3 DEF Types
<1>17. SingleReceiverStats'
  <2>1. stats'.fcs_errors = counted.stats.fcs_errors
    BY <1>1, <1>7, ParseSound
  <2> QED
    BY <1>1, <1>7, <1>9, <2>1, CountedStep
<1>18. OneChain'
  <2>1. \A i \in 1 .. Slots : ~seen'[i].valid
    BY <1>1 DEF OneChain
  <2>2. air'.pending \in SUBSET {Primary}
    BY <1>8, <1>10
  <2>3. Collides(content) \/ Collided(events) => air'.pending = {}
    <3>1. \A c \in Chains : events[c] # Quiet => c = Primary
      BY <1>1, <1>10, EventOf
    <3>2. Collided(events) => \E c \in Chains : events[c] # Quiet
      BY DEF Collided, Collides, Quiet
    <3>3. Collides(content) => events[Primary] # Quiet
      BY <1>3, Kinds DEF Collides
    <3> QED
      BY <1>12, <3>1, <3>2, <3>3
  <2>4. history'.decoded \/ history'.claimed => air'.pending = {}
    BY <1>1, <1>8, <1>9, <1>13, <2>3 DEF OneChain
  <2> QED
    BY <2>1, <2>2, <2>4 DEF OneChain
<1>19. Emission'
  <2>1. /\ history.emitted = IF history.decoded /\ ~history.preempted THEN 1 ELSE 0
        /\ history.preempted => history.decoded
        /\ history.decoded => air.content # Nothing
        /\ air.content = Nothing => air.pending = {} /\ air.age = Gap
        /\ history.decoded \/ history.claimed => air.pending = {}
    BY <1>1 DEF Emission, OneChain
  <2>2. air'.content = Nothing => air'.pending = {} /\ air'.age = Gap
    BY <1>8, <2>1
  <2>3. CASE history.decoded
    <3>1. content = Nothing /\ ~ofAir
      BY <1>13, <1>15, <2>1, <2>3
    <3>2. /\ history'.decoded /\ (history'.preempted <=> history.preempted)
          /\ history'.emitted = history.emitted
      BY <1>9, <2>3, <3>1
    <3> QED
      BY <1>8, <2>1, <2>2, <2>3, <3>2 DEF Emission
  <2>4. CASE ~history.decoded /\ ofAir
    <3>1. content = air.content /\ content # Nothing /\ ~history.claimed
      BY <1>10, <1>13, <2>1, <2>4
    <3>2. history'.decoded /\ ~history'.preempted /\ history'.emitted = 1
      BY <1>9, <2>1, <2>4, <3>1
    <3> QED
      BY <1>8, <2>2, <3>1, <3>2 DEF Emission
  <2>5. CASE ~history.decoded /\ ~ofAir
    <3>1. ~history'.decoded /\ ~history'.preempted /\ history'.emitted = 0
      BY <1>9, <1>14, <2>1, <2>5
    <3> QED
      BY <2>2, <3>1 DEF Emission
  <2> QED
    BY <2>3, <2>4, <2>5
<1> QED
  BY <1>1, <1>16, <1>17, <1>18, <1>19 DEF ReceiverInv

\* The chains, and the single one, can be counted.
LEMMA ChainCount ==
  /\ Cardinality(Chains) = Active /\ Cardinality({Primary}) = 1 /\ Cardinality({}) = 0
<1>1. Cardinality(0 .. Active - 1) = Active
  BY FS_Interval
<1> QED
  BY <1>1, FS_Singleton, FS_EmptySet DEF Chains

\* A new transmission finds no young entry: the last one was seen too long ago.
LEMMA TransmitInv ==
  ASSUME ReceiverInv, NEW content \in Contents, Transmit(content)
  PROVE  ReceiverInv'
<1> DEFINE pending == IF scheme = "tones" THEN Chains ELSE {Primary}
           no == FALSE
<1>1. /\ Types /\ SingleReceiverStats
      /\ scheme = "tones" => ToneBank
      /\ scheme = "baseband" => OneChain
      /\ air.age = Gap
      /\ air' = [content |-> content, age |-> 0, pending |-> pending]
      /\ out' = Nothing
      /\ UNCHANGED <<scheme, voting, seen, seen_next, stats>>
  BY DEF ReceiverInv, Transmit
<1>2. pending \in SUBSET Chains
  OBVIOUS
<1>3. /\ air' \in [content : Contents \cup {Nothing}, age : 0 .. Gap, pending : SUBSET Chains]
      /\ air'.content = content /\ air'.age = 0 /\ air'.pending = pending
  <2> HIDE DEF pending
  <2> QED
    BY <1>1, <1>2
<1>4. /\ history' \in Histories
      /\ ~history'.decoded /\ ~history'.claimed /\ ~history'.preempted
      /\ history'.emitted = 0 /\ history'.failures = history.failures
  <2> DEFINE sent == history.sent + 1
             h1 == [history EXCEPT !.sent = sent]
             h2 == [h1 EXCEPT !.decoded = no]
             h3 == [h2 EXCEPT !.claimed = no]
             h4 == [h3 EXCEPT !.preempted = no]
             h5 == [h4 EXCEPT !.emitted = 0]
  <2>1. /\ history.sent \in Nat /\ history.failures \in Nat
        /\ history = [sent |-> history.sent, decoded |-> history.decoded,
                      claimed |-> history.claimed, preempted |-> history.preempted,
                      emitted |-> history.emitted, failures |-> history.failures]
    BY <1>1 DEF Types, Histories
  <2>2. sent \in Nat /\ no \in BOOLEAN /\ ~no
    BY <2>1
  <2>3. history' = h5
    <3>1. history' = [history EXCEPT !.sent = sent, !.decoded = no, !.claimed = no,
                                     !.preempted = no, !.emitted = 0]
      BY DEF Transmit
    <3> HIDE DEF sent, no
    <3> QED
      BY <2>1, <3>1
  <2> HIDE DEF sent, no
  <2>4. h1 = [sent |-> sent, decoded |-> history.decoded, claimed |-> history.claimed,
              preempted |-> history.preempted, emitted |-> history.emitted,
              failures |-> history.failures]
    BY <2>1
  <2> HIDE DEF h1
  <2>5. h2 = [sent |-> sent, decoded |-> no, claimed |-> history.claimed,
              preempted |-> history.preempted, emitted |-> history.emitted,
              failures |-> history.failures]
    BY <2>4
  <2> HIDE DEF h2
  <2>6. h3 = [sent |-> sent, decoded |-> no, claimed |-> no,
              preempted |-> history.preempted, emitted |-> history.emitted,
              failures |-> history.failures]
    BY <2>5
  <2> HIDE DEF h3
  <2>7. h4 = [sent |-> sent, decoded |-> no, claimed |-> no, preempted |-> no,
              emitted |-> history.emitted, failures |-> history.failures]
    BY <2>6
  <2> HIDE DEF h4
  <2>8. h5 = [sent |-> sent, decoded |-> no, claimed |-> no, preempted |-> no,
              emitted |-> 0, failures |-> history.failures]
    BY <2>7
  <2> HIDE DEF h5
  <2> QED
    BY <2>1, <2>2, <2>3, <2>8 DEF Histories
<1>5. Types'
  BY <1>1, <1>3, <1>4 DEF Types
<1>6. SingleReceiverStats'
  BY <1>1, <1>4 DEF SingleReceiverStats
<1>7. Emission'
  BY <1>3, <1>4 DEF Emission
<1>8. ASSUME scheme = "tones" PROVE ToneBank'
  <2>1. \A i \in 1 .. Slots : ~Young(seen[i])
    <3> SUFFICES ASSUME NEW i \in 1 .. Slots, Young(seen[i]) PROVE FALSE
      OBVIOUS
    <3>1. seen[i] \in Entries
      BY <1>1 DEF Types, Rings
    <3>2. seen[i].age \in Nat
      BY <3>1 DEF Entries
    <3>3. Live(seen[i]) /\ seen[i].age < Window
      BY <3>2 DEF Young, Live
    <3>4. Gap <= (seen[i].age + Skew) + 1
      BY <1>1, <1>8, <3>3 DEF ToneBank, Expiring
    <3> QED
      BY <3>2, <3>3, <3>4
  <2>2. 0 \in 0 .. Active /\ 0 + Cardinality(air'.pending) <= Active
    BY <1>3, <1>8, ChainCount
  <2>3. Room'
    BY <1>1, <2>1, <2>2 DEF Room
  <2>4. Expiring'
    <3> SUFFICES ASSUME NEW i \in 1 .. Slots PROVE 0 <= (seen[i].age + Skew) + 1
      BY <1>1, <1>3 DEF Expiring
    <3>1. seen[i] \in Entries
      BY <1>1 DEF Types, Rings
    <3>2. seen[i].age \in Nat
      BY <3>1 DEF Entries
    <3> QED
      BY <3>2
  <2>5. Remembered'
    BY <1>4 DEF Remembered
  <2>6. Unclaimed'
    BY <1>1, <2>1 DEF Unclaimed
  <2> QED
    BY <1>1, <1>8, <2>3, <2>4, <2>5, <2>6 DEF ToneBank, Distinct
<1>9. ASSUME scheme = "baseband" PROVE OneChain'
  BY <1>1, <1>3, <1>4, <1>9 DEF OneChain
<1> QED
  BY <1>1, <1>5, <1>6, <1>7, <1>8, <1>9 DEF ReceiverInv

\* The invariant holds of a receiver just made.
LEMMA InitInv == BankInit => ReceiverInv
<1> SUFFICES ASSUME BankInit PROVE ReceiverInv
  OBVIOUS
<1> DEFINE no == FALSE
           none == {}
<1>1. /\ scheme \in {"tones", "baseband"} /\ voting \in BOOLEAN
      /\ seen = [i \in 1 .. Slots |-> Unused] /\ seen_next = 0 /\ out = Nothing
  BY DEF BankInit, Voting
<1>2. stats = [frames_ok |-> 0, fcs_errors |-> 0, oversize |-> 0, malformed |-> 0]
  BY DEF BankInit
<1>3. air = [content |-> Nothing, age |-> Gap, pending |-> none]
  BY DEF BankInit, Silence
<1>4. history = [sent |-> 0, decoded |-> no, claimed |-> no, preempted |-> no,
                 emitted |-> 0, failures |-> 0]
  BY DEF BankInit
<1>5. Unused \in Entries /\ ~Unused.valid
  BY DEF Unused, Entries, Keys
<1>6. no \in BOOLEAN /\ ~no /\ none \in SUBSET Chains /\ none = {}
  OBVIOUS
<1> HIDE DEF no, none
<1>7. /\ air \in [content : Contents \cup {Nothing}, age : 0 .. Gap, pending : SUBSET Chains]
      /\ air.content = Nothing /\ air.age = Gap /\ air.pending = {}
  BY <1>3, <1>6
<1>8. /\ history \in Histories
      /\ ~history.decoded /\ ~history.claimed /\ ~history.preempted /\ history.emitted = 0
      /\ history.failures = 0
  BY <1>4, <1>6 DEF Histories
<1>9. seen \in Rings /\ \A i \in 1 .. Slots : ~seen[i].valid
  BY <1>1, <1>5 DEF Rings
<1>10. stats \in Stats /\ stats.fcs_errors = 0
  BY <1>2 DEF Stats
<1>11. Types
  BY <1>1, <1>7, <1>8, <1>9, <1>10 DEF Types
<1>12. SingleReceiverStats
  BY <1>8, <1>10 DEF SingleReceiverStats
<1>13. Emission
  BY <1>7, <1>8 DEF Emission
<1>14. ToneBank
  <2>1. 0 \in 0 .. Active /\ 0 + Cardinality(air.pending) <= Active
    BY <1>7, ChainCount
  <2> QED
    BY <1>8, <1>9, <2>1 DEF ToneBank, Distinct, Room, Expiring, Remembered, Unclaimed, Live,
                          Young
<1>15. OneChain
  BY <1>7, <1>8, <1>9 DEF OneChain
<1> QED
  BY <1>11, <1>12, <1>13, <1>14, <1>15 DEF ReceiverInv

-----------------------------------------------------------------------------
(* The theorems                                                            *)

\* The inductive invariant holds throughout.
THEOREM ReceiverInvariant == BankSpec => []ReceiverInv
<1>1. ReceiverInv /\ [BankNext]_bankVars => ReceiverInv'
  <2> SUFFICES ASSUME ReceiverInv, [BankNext]_bankVars PROVE ReceiverInv'
    OBVIOUS
  <2>1. ASSUME NEW c \in Contents, Transmit(c) PROVE ReceiverInv'
    BY <2>1, TransmitInv
  <2>2. ASSUME NEW events \in EventsNow, NEW voted \in Votes(events), Push(events, voted)
        PROVE  ReceiverInv'
    BY <2>2, PushInv
  <2>3. ASSUME NEW events \in EventsNow, PushBaseband(events) PROVE ReceiverInv'
    BY <2>3, BasebandInv
  <2>4. CASE UNCHANGED bankVars
    BY <2>4 DEF bankVars, ReceiverInv, Types, SingleReceiverStats, Emission, ToneBank, OneChain,
                Distinct, Room, Expiring, Remembered, Unclaimed
  <2> QED
    BY <2>1, <2>2, <2>3, <2>4 DEF BankNext
<1> QED
  BY <1>1, InitInv, PTL DEF BankSpec

\* However many chains complete a transmission, in whatever order and with
\* whatever repairs and votes, and however keys collide, push returns it once:
\* not again from a later chain, and never withheld because of an earlier
\* transmission.  It is withheld only when a frame made up from this same
\* transmission took the sample it was first decoded on, or has its key and was
\* completed on an earlier sample (register, push_envelopes).
THEOREM EmittedOnceCorrect == BankSpec => []EmittedOnce
<1>1. ReceiverInv => EmittedOnce
  BY DEF ReceiverInv, Emission, EmittedOnce
<1> QED
  BY <1>1, ReceiverInvariant, PTL

\* The bank's FCS counter is that of its primary chain alone, saturating
\* (push_envelopes, TncStats).
THEOREM SingleReceiverStatsCorrect == BankSpec => []SingleReceiverStats
<1>1. ReceiverInv => SingleReceiverStats
  BY DEF ReceiverInv
<1> QED
  BY <1>1, ReceiverInvariant, PTL

\* The cursor stays inside the ring, no key is live twice and no counter passes
\* its width (register, SeenFrame).
THEOREM TypeCorrect == BankSpec => []BankTypeOK
<1>1. ReceiverInv => BankTypeOK
  <2> SUFFICES ASSUME ReceiverInv PROVE BankTypeOK
    OBVIOUS
  <2>1. Types /\ (scheme = "tones" => ToneBank) /\ (scheme = "baseband" => OneChain)
    BY DEF ReceiverInv
  <2>2. Distinct(seen)
    BY <2>1 DEF Types, ToneBank, OneChain, Distinct, Live
  <2>3. ASSUME NEW i \in 1 .. Slots PROVE seen[i].age \in 0 .. Window + 1
    <3>1. seen[i] \in Entries
      BY <2>1 DEF Types, Rings
    <3> QED
      BY <3>1 DEF Entries
  <2>4. \A f \in DOMAIN stats : stats[f] \in 0 .. StatMax
    BY <2>1 DEF Types, Stats
  <2> QED
    BY <2>1, <2>2, <2>3, <2>4 DEF BankTypeOK, Types, Distinct
<1> QED
  BY <1>1, ReceiverInvariant, PTL

=============================================================================
