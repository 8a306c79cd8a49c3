-------------------------- MODULE SampleRingProofs --------------------------
(***************************************************************************)
(* Proofs about SampleRing for every capacity (0 included), every counter  *)
(* width and every slice length.                                           *)
(***************************************************************************)
EXTENDS SampleRing, SequenceTheorems, TLAPS

USE NAssumption, OverrunMaxAssumption, BoundsAssumption

-----------------------------------------------------------------------------
(* Index arithmetic                                                        *)

\* An index at most one lap ahead is itself, or itself minus N.  Everything
\* below cites this fact instead of reasoning about %.
LEMMA ModOneLap ==
  ASSUME NEW n \in Nat \ {0}, NEW x \in 0 .. 2 * n - 1
  PROVE  x % n = IF x < n THEN x ELSE x - n
  OBVIOUS

\* The distance from index b on to index a, wrapping once at most.
LEMMA ModDistance ==
  ASSUME NEW n \in Nat \ {0}, NEW a \in 0 .. n - 1, NEW b \in 0 .. n - 1
  PROVE  (a - b + n) % n = IF a < b THEN a - b + n ELSE a - b
<1> DEFINE x == a - b + n
<1>1. x \in 0 .. 2 * n - 1
  OBVIOUS
<1>2. x % n = IF x < n THEN x ELSE x - n
  <2> HIDE DEF x
  <2> QED
    BY <1>1, ModOneLap
<1> QED
  BY <1>2

\* Slot(k) is an index of the buffer, and distinct k have distinct slots.
LEMMA SlotIndex ==
  ASSUME TypeOK, NEW k \in 0 .. N - 1
  PROVE  /\ Slot(k) \in 0 .. N - 1
         /\ Slot(k) = IF head + k < N THEN head + k ELSE head + k - N
<1>1. N > 0 /\ head \in 0 .. N - 1
  BY DEF TypeOK
<1>2. head + k \in 0 .. 2 * N - 1
  BY <1>1
<1> QED
  BY <1>1, <1>2, ModOneLap DEF Slot

\* Moving head w samples on (a pop or pop_slice) renumbers the live samples:
\* the j-th after the move is the (w + j)-th before it.
LEMMA SlotShift ==
  ASSUME TypeOK, NEW w \in 0 .. N, NEW j \in 0 .. N - 1, w + j \in 0 .. N - 1
  PROVE  /\ (head + w) % N \in 0 .. N - 1
         /\ (((head + w) % N) + j) % N = Slot(w + j)
<1>1. N > 0 /\ head \in 0 .. N - 1
  BY DEF TypeOK
<1>2. (head + w) % N = IF head + w < N THEN head + w ELSE head + w - N
  BY <1>1, ModOneLap, head + w \in 0 .. 2 * N - 1
<1>3. Slot(w + j) = IF head + (w + j) < N THEN head + (w + j)
                    ELSE head + (w + j) - N
  BY SlotIndex
<1>4. (((head + w) % N) + j) \in 0 .. 2 * N - 1
  BY <1>1, <1>2
<1>5. (((head + w) % N) + j) % N = IF ((head + w) % N) + j < N
                                 THEN ((head + w) % N) + j
                                 ELSE ((head + w) % N) + j - N
  BY <1>1, <1>4, ModOneLap
<1> QED
  BY <1>1, <1>2, <1>3, <1>5

\* What push_slice leaves in the j-th live slot: an old sample stays, a new
\* one carries the next stamp in order.
LEMMA StoreSliceAt ==
  ASSUME TypeOK, NEW stored \in 0 .. N - len, NEW j \in 0 .. len + stored - 1
  PROVE  StoreSlice(stored)[Slot(j)] =
           IF j < len THEN buf[Slot(j)] ELSE produced + 1 + (j - len)
<1>1. N > 0 /\ head \in 0 .. N - 1 /\ len \in 0 .. N /\ j \in 0 .. N - 1
  BY DEF TypeOK
<1>2. /\ Slot(j) \in 0 .. N - 1
      /\ Slot(j) = IF head + j < N THEN head + j ELSE head + j - N
  BY <1>1, SlotIndex
<1>3. Slot(len) = IF head + len < N THEN head + len ELSE head + len - N
  BY <1>1, ModOneLap, head + len \in 0 .. 2 * N - 1 DEF Slot
<1>4. Slot(len) \in 0 .. N - 1
  BY <1>1, <1>3
<1>5. FromTail(Slot(j)) = IF Slot(j) < Slot(len) THEN Slot(j) - Slot(len) + N
                          ELSE Slot(j) - Slot(len)
  <2> DEFINE a == Slot(j)
             b == Slot(len)
  <2>1. a \in 0 .. N - 1 /\ b \in 0 .. N - 1 /\ N \in Nat \ {0}
    BY <1>1, <1>2, <1>4
  <2>2. (a - b + N) % N = IF a < b THEN a - b + N ELSE a - b
    <3> HIDE DEF a, b
    <3> QED
      BY <2>1, ModDistance
  <2> QED
    BY <2>2 DEF FromTail
<1>6. FromTail(Slot(j)) = IF j < len THEN j - len + N ELSE j - len
  BY <1>1, <1>2, <1>3, <1>5
<1>7. FromTail(Slot(j)) < stored <=> ~(j < len)
  BY <1>1, <1>6
<1> QED
  BY <1>1, <1>2, <1>6, <1>7 DEF StoreSlice

\* What push leaves in the j-th live slot.
LEMMA PushStoredAt ==
  ASSUME TypeOK, PushStored, NEW j \in 0 .. len + 1 - 1
  PROVE  buf'[Slot(j)] = IF j < len THEN buf[Slot(j)] ELSE produced + 1 + (j - len)
<1>1. len \in 0 .. N - 1 /\ j \in 0 .. len
  BY DEF PushStored, TypeOK
<1>2. /\ Slot(j) \in 0 .. N - 1 /\ Slot(len) \in 0 .. N - 1
      /\ Slot(j) = Slot(len) <=> j = len
  <2>1. /\ Slot(j) \in 0 .. N - 1
        /\ Slot(j) = IF head + j < N THEN head + j ELSE head + j - N
    BY <1>1, SlotIndex
  <2>2. /\ Slot(len) \in 0 .. N - 1
        /\ Slot(len) = IF head + len < N THEN head + len ELSE head + len - N
    BY <1>1, SlotIndex
  <2> QED
    BY <1>1, <2>1, <2>2 DEF TypeOK
<1>3. buf' = [buf EXCEPT ![Slot(len)] = produced + 1]
  BY DEF PushStored
<1>4. CASE j = len
  BY <1>1, <1>2, <1>3, <1>4 DEF TypeOK
<1>5. CASE j < len
  BY <1>1, <1>2, <1>3, <1>5 DEF TypeOK
<1> QED
  BY <1>1, <1>4, <1>5

-----------------------------------------------------------------------------
(* Type correctness                                                        *)

\* A saturating addition stays at or below the ceiling.
LEMMA SaturatingAddType ==
  ASSUME NEW a \in 0 .. OverrunMax, NEW b \in Nat
  PROVE  SaturatingAdd(a, b) \in 0 .. OverrunMax
  BY DEF SaturatingAdd, SmallerOf

\* The types are inductive: head and len stay in range through every wrap.
LEMMA TypeStep == TypeOK /\ [Next]_vars => TypeOK'
<1> SUFFICES ASSUME TypeOK, [Next]_vars PROVE TypeOK'
  OBVIOUS
<1>1. CASE PushRefused
  BY <1>1 DEF PushRefused, TypeOK, SaturatingAdd, SmallerOf
<1>2. CASE PushStored
  <2>1. len \in 0 .. N - 1
    BY <1>2 DEF PushStored, TypeOK
  <2>2. Slot(len) \in 0 .. N - 1
    BY <2>1, SlotIndex
  <2>3. buf' \in [0 .. N - 1 -> 0 .. MaxProduced]
    BY <1>2, <2>2 DEF PushStored, TypeOK
  <2> QED
    BY <1>2, <2>1, <2>3 DEF PushStored, TypeOK
<1>3. ASSUME NEW n \in 1 .. MaxBatch, PushSlice(n) PROVE TypeOK'
  <2> DEFINE stored == SmallerOf(n, Free)
  <2>1. stored \in 0 .. N - len /\ stored <= n
    BY DEF TypeOK, SmallerOf, Free
  <2>2. \A i \in 0 .. N - 1 : FromTail(i) \in Nat
    <3> SUFFICES ASSUME NEW i \in 0 .. N - 1 PROVE FromTail(i) \in Nat
      OBVIOUS
    <3>1. N > 0 /\ head + len \in 0 .. 2 * N - 1
      BY DEF TypeOK
    <3>2. Slot(len) \in 0 .. N - 1
      BY <3>1, ModOneLap DEF Slot, TypeOK
    <3> QED
      BY <3>1, <3>2, ModDistance DEF FromTail
  <2>3. StoreSlice(stored) \in [0 .. N - 1 -> 0 .. MaxProduced]
    <3>1. produced + n <= MaxProduced
      BY <1>3 DEF PushSlice
    <3> HIDE DEF stored
    <3>2. ASSUME NEW i \in 0 .. N - 1, FromTail(i) < stored
          PROVE  produced + 1 + FromTail(i) \in 0 .. MaxProduced
      BY <3>1, <3>2, <2>1, <2>2 DEF TypeOK
    <3> QED
      BY <3>2 DEF StoreSlice, TypeOK
  <2>4. overruns' \in 0 .. OverrunMax
    <3>1. overruns' = IF stored < n
                      THEN SaturatingAdd(SaturatingAdd(overruns, 1), n - stored - 1)
                      ELSE overruns
      BY <1>3 DEF PushSlice
    <3>2. overruns \in 0 .. OverrunMax
      BY DEF TypeOK
    <3> HIDE DEF stored
    <3>3. SaturatingAdd(overruns, 1) \in 0 .. OverrunMax
      BY <3>2, SaturatingAddType
    <3>4. CASE stored < n
      <4>1. n - stored - 1 \in Nat
        BY <2>1, <3>4
      <4> QED
        BY <3>1, <3>3, <3>4, <4>1, SaturatingAddType
    <3>5. CASE ~(stored < n)
      BY <3>1, <3>2, <3>5
    <3> QED
      BY <3>4, <3>5
  <2> QED
    BY <1>3, <2>1, <2>3, <2>4, SMTT(40) DEF PushSlice, TypeOK
<1>4. CASE Pop
  <2>1. N > 0 /\ head \in 0 .. N - 1 /\ buf[head] \in 0 .. MaxProduced
    BY <1>4 DEF Pop, TypeOK
  <2>2. (head + 1) % N \in 0 .. N - 1
    BY <2>1
  <2> QED
    BY <1>4, <2>1, <2>2 DEF Pop, TypeOK
<1>5. ASSUME NEW n \in 1 .. MaxBatch, PopSlice(n) PROVE TypeOK'
  <2> DEFINE written == SmallerOf(n, len)
  <2>1. written \in 1 .. len /\ N > 0 /\ head \in 0 .. N - 1
    BY <1>5 DEF PopSlice, TypeOK, SmallerOf
  <2>2. Slot(written) \in 0 .. N - 1
    BY <2>1 DEF Slot, TypeOK
  <2>3. \A k \in 1 .. written : buf[Slot(k - 1)] \in 0 .. MaxProduced
    <3> SUFFICES ASSUME NEW k \in 1 .. written
                 PROVE  buf[Slot(k - 1)] \in 0 .. MaxProduced
      OBVIOUS
    <3>1. k - 1 \in 0 .. N - 1
      BY <2>1 DEF TypeOK
    <3> QED
      BY <3>1, SlotIndex DEF TypeOK
  <2>4. out' \in Seq(0 .. MaxProduced)
    BY <1>5, <2>1, <2>3 DEF PopSlice
  <2> QED
    BY <1>5, <2>1, <2>2, <2>4, SMTT(40) DEF PopSlice, TypeOK
<1>6. CASE Clear
  BY <1>6 DEF Clear, TypeOK
<1>7. CASE TakeOverruns
  BY <1>7 DEF TakeOverruns, TypeOK
<1>8. CASE UNCHANGED vars
  BY <1>8 DEF vars, TypeOK
<1> QED
  BY <1>1, <1>2, <1>3, <1>4, <1>5, <1>6, <1>7, <1>8 DEF Next

\* Every reachable state is well typed: head indexes the buffer and len
\* never exceeds the capacity.
THEOREM TypeCorrect == Spec => []TypeOK
<1>1. Init => TypeOK
  BY DEF Init, TypeOK
<1> QED
  BY <1>1, TypeStep, PTL DEF Spec

-----------------------------------------------------------------------------
(* The overrun counter                                                     *)

\* Drops are counted one by one by push and in bulk by push_slice; two
\* saturating additions in a row are one.
LEMMA OverrunsStep == TypeOK /\ OverrunsExact /\ [Next]_vars => OverrunsExact'
<1> SUFFICES ASSUME TypeOK, OverrunsExact, [Next]_vars PROVE OverrunsExact'
  OBVIOUS
<1> USE DEF TypeOK, OverrunsExact, SmallerOf
<1>1. CASE PushRefused
  BY <1>1 DEF PushRefused, SaturatingAdd
<1>2. CASE PushStored
  BY <1>2 DEF PushStored
<1>3. ASSUME NEW n \in 1 .. MaxBatch, PushSlice(n) PROVE OverrunsExact'
  <2> DEFINE stored == SmallerOf(n, Free)
  <2>1. stored \in 0 .. n
    BY DEF Free
  <2>2. /\ lost' = lost + (n - stored)
        /\ overruns' = IF stored < n
                       THEN SaturatingAdd(SaturatingAdd(overruns, 1),
                                          n - stored - 1)
                       ELSE overruns
    BY <1>3 DEF PushSlice
  <2> HIDE DEF stored
  <2> QED
    BY <2>1, <2>2 DEF SaturatingAdd
<1>4. CASE Pop
  BY <1>4 DEF Pop
<1>5. ASSUME NEW n \in 1 .. MaxBatch, PopSlice(n) PROVE OverrunsExact'
  BY <1>5 DEF PopSlice
<1>6. CASE Clear
  BY <1>6 DEF Clear
<1>7. CASE TakeOverruns
  BY <1>7 DEF TakeOverruns
<1>8. CASE UNCHANGED vars
  BY <1>8 DEF vars
<1> QED
  BY <1>1, <1>2, <1>3, <1>4, <1>5, <1>6, <1>7, <1>8 DEF Next

\* overruns() always equals the drops since take_overruns, up to u32::MAX.
THEOREM OverrunsCorrect == Spec => []OverrunsExact
<1>1. Init => TypeOK /\ OverrunsExact
  BY DEF Init, TypeOK, OverrunsExact, SmallerOf
<1> QED
  BY <1>1, TypeStep, OverrunsStep, PTL DEF Spec

-----------------------------------------------------------------------------
(* Order                                                                   *)

\* A producer step that appends stamps produced+1 .. produced+stored to the
\* live samples and leaves head and out alone keeps everything in order.
LEMMA AppendInOrder ==
  ASSUME TypeOK, InOrder, NEW stored \in 0 .. N - len, NEW n \in Nat,
         stored <= n,
         head' = head, out' = out, len' = len + stored,
         produced' = produced + n,
         \A j \in 0 .. len + stored - 1 :
           buf'[Slot(j)] = IF j < len THEN buf[Slot(j)]
                           ELSE produced + 1 + (j - len)
  PROVE  InOrder'
<1>1. \A j : Slot(j)' = Slot(j)
  BY DEF Slot
<1>2. /\ len \in Nat /\ produced \in Nat /\ len' \in Nat /\ produced' \in Nat
      /\ \A i \in 1 .. Len(out) : out[i] \in Nat
      /\ Len(out) \in Nat
      /\ \A j \in 0 .. len - 1 : buf[Slot(j)] \in Nat
  BY DEF TypeOK, InOrder
<1>3. \A j \in 0 .. len' - 1 : buf'[Slot(j)] = IF j < len THEN buf[Slot(j)]
                                        ELSE produced + 1 + (j - len)
  BY <1>2
<1>4. \A j \in 0 .. len' - 1 : buf'[Slot(j)] \in 1 .. produced'
  <2> SUFFICES ASSUME NEW j \in 0 .. len' - 1
               PROVE  buf'[Slot(j)] \in 1 .. produced'
    OBVIOUS
  <2>1. CASE j < len
    <3>1. j \in 0 .. len - 1
      BY <1>2, <2>1
    <3> QED
      BY <1>2, <1>3, <2>1, <3>1 DEF InOrder
  <2>2. CASE ~(j < len)
    BY <1>2, <1>3, <2>2
  <2> QED
    BY <2>1, <2>2
<1>5. \A i, j \in 0 .. len' - 1 : i < j => buf'[Slot(i)] < buf'[Slot(j)]
  BY <1>2, <1>3 DEF InOrder
<1>6. \A i \in 1 .. Len(out), j \in 0 .. len' - 1 : out[i] < buf'[Slot(j)]
  BY <1>2, <1>3 DEF InOrder
<1>7. \A i \in 1 .. Len(out) : out[i] <= produced'
  BY <1>2 DEF InOrder
<1> QED
  BY <1>1, <1>4, <1>5, <1>6, <1>7 DEF InOrder

\* A consumer step that hands out the w oldest samples keeps everything in
\* order: what is handed out is older than what stays.
LEMMA RemoveInOrder ==
  ASSUME TypeOK, InOrder, NEW w \in 1 .. len,
         out' = [k \in 1 .. w |-> buf[Slot(k - 1)]],
         head' = (head + w) % N, len' = len - w,
         buf' = buf, produced' = produced
  PROVE  InOrder'
<1>1. /\ len \in 0 .. N /\ N > 0 /\ produced \in Nat
      /\ \A j \in 0 .. len - 1 : buf[Slot(j)] \in Nat
  BY DEF TypeOK, InOrder
<1>2. \A j \in 0 .. len' - 1 : Slot(j)' = Slot(w + j)
  <2> SUFFICES ASSUME NEW j \in 0 .. len' - 1 PROVE Slot(j)' = Slot(w + j)
    OBVIOUS
  <2>1. w \in 0 .. N /\ j \in 0 .. N - 1 /\ w + j \in 0 .. N - 1
    BY <1>1
  <2>2. (((head + w) % N) + j) % N = Slot(w + j)
    BY <2>1, SlotShift
  <2> QED
    BY <2>2 DEF Slot
<1>3. \A j \in 0 .. len' - 1 : w + j \in 0 .. len - 1
  BY <1>1
<1>4. Len(out') = w /\ \A k \in 1 .. w : out'[k] = buf[Slot(k - 1)]
  <2>1. out' \in Seq(Nat)
    BY <1>1
  <2> QED
    BY <2>1, <1>1
<1>5. \A k \in 1 .. w : k - 1 \in 0 .. len - 1
  BY <1>1
<1>6. \A i, j \in 1 .. Len(out') : i < j => out'[i] < out'[j]
  BY <1>4, <1>5 DEF InOrder
<1>7. \A i \in 1 .. Len(out') : out'[i] <= produced'
  BY <1>1, <1>4, <1>5 DEF InOrder
<1>8. \A i \in 1 .. Len(out'), j \in 0 .. len' - 1 : out'[i] < buf'[Slot(j)']
  BY <1>1, <1>2, <1>3, <1>4, <1>5 DEF InOrder
<1>9. \A i, j \in 0 .. len' - 1 : i < j => buf'[Slot(i)'] < buf'[Slot(j)']
  BY <1>1, <1>2, <1>3 DEF InOrder
<1>10. \A i \in 0 .. len' - 1 : buf'[Slot(i)'] \in 1 .. produced'
  BY <1>1, <1>2, <1>3 DEF InOrder
<1> QED
  BY <1>6, <1>7, <1>8, <1>9, <1>10 DEF InOrder

\* Every method keeps the order of what is handed out and what is live.
LEMMA InOrderStep == TypeOK /\ InOrder /\ [Next]_vars => InOrder'
<1> SUFFICES ASSUME TypeOK, InOrder, [Next]_vars PROVE InOrder'
  OBVIOUS
<1>1. CASE PushRefused
  <2>1. 0 \in 0 .. N - len /\ len' = len + 0 /\ produced' = produced + 1
    BY <1>1 DEF PushRefused, TypeOK
  <2>2. \A j \in 0 .. len + 0 - 1 : j < len
    BY DEF TypeOK
  <2>3. \A j \in 0 .. len + 0 - 1 :
          buf'[Slot(j)] = IF j < len THEN buf[Slot(j)]
                          ELSE produced + 1 + (j - len)
    BY <1>1, <2>2 DEF PushRefused
  <2> QED
    BY <1>1, <2>1, <2>2, <2>3, AppendInOrder DEF PushRefused
<1>2. CASE PushStored
  <2>1. len \in 0 .. N - 1 /\ 1 \in 0 .. N - len
    BY <1>2 DEF PushStored, TypeOK
  <2>2. \A j \in 0 .. len + 1 - 1 :
          buf'[Slot(j)] = IF j < len THEN buf[Slot(j)]
                          ELSE produced + 1 + (j - len)
    BY <1>2, PushStoredAt
  <2> QED
    BY <1>2, <2>1, <2>2, AppendInOrder DEF PushStored
<1>3. ASSUME NEW n \in 1 .. MaxBatch, PushSlice(n) PROVE InOrder'
  <2> DEFINE stored == SmallerOf(n, Free)
  <2>1. stored \in 0 .. N - len /\ stored <= n
    BY DEF TypeOK, SmallerOf, Free
  <2>2. /\ buf' = StoreSlice(stored)
        /\ head' = head /\ out' = out
        /\ len' = len + stored /\ produced' = produced + n
    BY <1>3 DEF PushSlice
  <2> HIDE DEF stored
  <2>3. \A j \in 0 .. len + stored - 1 :
          buf'[Slot(j)] = IF j < len THEN buf[Slot(j)]
                          ELSE produced + 1 + (j - len)
    BY <2>1, <2>2, StoreSliceAt
  <2> QED
    BY <2>1, <2>2, <2>3, AppendInOrder
<1>4. CASE Pop
  <2>1. 1 \in 1 .. len /\ head \in 0 .. N - 1 /\ 0 \in 0 .. N - 1
    BY <1>4 DEF Pop, TypeOK
  <2>2. Slot(0) = head
    BY <2>1, SlotIndex
  <2>3. out' = [k \in 1 .. 1 |-> buf[Slot(k - 1)]]
    BY <1>4, <2>2 DEF Pop
  <2> QED
    BY <1>4, <2>1, <2>3, RemoveInOrder DEF Pop
<1>5. ASSUME NEW n \in 1 .. MaxBatch, PopSlice(n) PROVE InOrder'
  <2> DEFINE written == SmallerOf(n, len)
  <2>1. written \in 1 .. len
    BY <1>5 DEF PopSlice, TypeOK, SmallerOf
  <2>2. /\ out' = [k \in 1 .. written |-> buf[Slot(k - 1)]]
        /\ head' = (head + written) % N /\ len' = len - written
        /\ buf' = buf /\ produced' = produced
    BY <1>5 DEF PopSlice, Slot
  <2> HIDE DEF written
  <2> QED
    BY <2>1, <2>2, RemoveInOrder
<1>6. CASE Clear
  BY <1>6 DEF Clear, InOrder, TypeOK
<1>7. CASE TakeOverruns
  BY <1>7 DEF TakeOverruns, InOrder, Slot
<1>8. CASE UNCHANGED vars
  BY <1>8 DEF vars, InOrder, Slot
<1> QED
  BY <1>1, <1>2, <1>3, <1>4, <1>5, <1>6, <1>7, <1>8 DEF Next

\* The consumer sees samples in production order with none repeated or
\* spliced over, for every capacity and every interleaving of the methods.
THEOREM OrderCorrect == Spec => []InOrder
<1>1. Init => TypeOK /\ InOrder
  BY DEF Init, TypeOK, InOrder
<1> QED
  BY <1>1, TypeStep, InOrderStep, PTL DEF Spec

-----------------------------------------------------------------------------
(* The ring implements the queue                                           *)

\* The live samples read in order are a sequence of len stamps, whichever lap
\* of the buffer each of them lies in.
LEMMA LiveType == TypeOK => Live \in Seq(0 .. MaxProduced) /\ Len(Live) = len
<1> SUFFICES ASSUME TypeOK PROVE Live \in Seq(0 .. MaxProduced) /\ Len(Live) = len
  OBVIOUS
<1>1. len \in 0 .. N
  BY DEF TypeOK
<1>2. \A k \in 1 .. len : buf[Slot(k - 1)] \in 0 .. MaxProduced
  <2> SUFFICES ASSUME NEW k \in 1 .. len PROVE buf[Slot(k - 1)] \in 0 .. MaxProduced
    OBVIOUS
  <2>1. k - 1 \in 0 .. N - 1
    BY <1>1
  <2> QED
    BY <2>1, SlotIndex DEF TypeOK
<1> QED
  BY <1>1, <1>2 DEF Live

\* The batch a push or push_slice of n samples offers.
Offered(n) == [i \in 1 .. n |-> produced + i]

\* A producer step that appends the stamps that fit offers the queue a batch.
LEMMA AppendOffers ==
  ASSUME TypeOK, NEW n \in 1 .. MaxBatch, NEW stored \in 0 .. N - len,
         stored = SmallerOf(n, Free), produced + n <= MaxProduced,
         head' = head, out' = out, len' = len + stored,
         overruns' = SaturatingAdd(overruns, n - stored),
         \A j \in 0 .. len + stored - 1 :
           buf'[Slot(j)] = IF j < len THEN buf[Slot(j)]
                           ELSE produced + 1 + (j - len)
  PROVE  \E batch \in Slices : Fifo!Offer(batch)
<1> DEFINE batch == Offered(n)
           kept == IF Len(batch) < Fifo!Room THEN Len(batch) ELSE Fifo!Room
<1>1. len \in 0 .. N /\ produced \in 0 .. MaxProduced /\ overruns \in 0 .. OverrunMax
  BY DEF TypeOK
<1>2. batch \in Slices
  BY <1>1 DEF Slices, Offered
<1>3. batch \in Seq(Nat) /\ Len(batch) = n
  BY <1>1 DEF Offered
<1>4. kept = stored
  BY <1>1, <1>3, LiveType DEF Fifo!Room, SmallerOf, Free
<1>5. \A j : Slot(j)' = Slot(j)
  BY DEF Slot
<1>6. Live' = Live \o SubSeq(batch, 1, stored)
  <2>1. Live' = [k \in 1 .. len + stored |-> IF k <= len THEN buf[Slot(k - 1)] ELSE produced + (k - len)]
    <3>1. \A k \in 1 .. len + stored :
            buf'[Slot(k - 1)] = IF k <= len THEN buf[Slot(k - 1)] ELSE produced + (k - len)
      <4> SUFFICES ASSUME NEW k \in 1 .. len + stored
                   PROVE  buf'[Slot(k - 1)] = IF k <= len THEN buf[Slot(k - 1)] ELSE produced + (k - len)
        OBVIOUS
      <4>1. k - 1 \in 0 .. len + stored - 1 /\ (k - 1 < len <=> k <= len)
        BY <1>1
      <4> QED
        BY <1>1, <4>1
    <3> QED
      BY <1>5, <3>1 DEF Live
  <2>2. Len(SubSeq(batch, 1, stored)) = stored
        /\ \A k \in 1 .. stored : SubSeq(batch, 1, stored)[k] = produced + k
    BY <1>1, <1>3, <1>4 DEF Offered, SmallerOf, Free
  <2>3. SubSeq(batch, 1, stored) \in Seq(Nat)
    BY <1>1, <1>3, <1>4 DEF SmallerOf, Free
  <2>4. /\ Live \in Seq(Nat) /\ Len(Live) = len
        /\ \A k \in 1 .. len : Live[k] = buf[Slot(k - 1)] /\ buf[Slot(k - 1)] \in Nat
    BY <1>1, LiveType DEF Live
  <2> DEFINE tail == SubSeq(batch, 1, stored)
  <2>5. Live' \in Seq(Nat) /\ Len(Live') = len + stored
    <3>1. \A k \in 1 .. len + stored :
            (IF k <= len THEN buf[Slot(k - 1)] ELSE produced + (k - len)) \in Nat
      BY <1>1, <2>4
    <3>2. len + stored \in Nat
      BY <1>1
    <3> QED
      BY <2>1, <3>1, <3>2
  <2> HIDE DEF tail, batch
  <2>6. /\ Live \o tail \in Seq(Nat) /\ Len(Live \o tail) = len + stored
        /\ \A k \in 1 .. len + stored : (Live \o tail)[k] = IF k <= len THEN Live[k] ELSE tail[k - len]
    <3>1. tail \in Seq(Nat) /\ Len(tail) = stored /\ Live \in Seq(Nat) /\ Len(Live) = len
      BY <2>2, <2>3, <2>4 DEF tail
    <3>2. /\ Live \o tail \in Seq(Nat) /\ Len(Live \o tail) = Len(Live) + Len(tail)
          /\ \A k \in 1 .. Len(Live) + Len(tail) :
               (Live \o tail)[k] = IF k <= Len(Live) THEN Live[k] ELSE tail[k - Len(Live)]
      BY <3>1, ConcatProperties
    <3> QED
      BY <3>1, <3>2
  <2>7. \A k \in 1 .. len + stored : Live'[k] = (Live \o tail)[k]
    <3> SUFFICES ASSUME NEW k \in 1 .. len + stored PROVE Live'[k] = (Live \o tail)[k]
      OBVIOUS
    <3>1. CASE k <= len
      BY <1>1, <2>1, <2>4, <2>6, <3>1, SMTT(40)
    <3>2. CASE ~(k <= len)
      <4>1. k - len \in 1 .. stored
        BY <1>1, <3>2
      <4> QED
        BY <1>1, <2>1, <2>2, <2>6, <3>2, <4>1 DEF tail
    <3> QED
      BY <3>1, <3>2
  <2> QED
    BY <2>5, <2>6, <2>7, SeqEqual DEF tail
<1>7. overruns' = Fifo!Saturate(overruns + (Len(batch) - kept))
  <2>1. n - stored \in Nat
    BY DEF SmallerOf
  <2> HIDE DEF batch, kept
  <2> QED
    BY <1>1, <1>3, <1>4, <2>1 DEF Fifo!Saturate, SaturatingAdd, SmallerOf, Free
<1>8. Fifo!Offer(batch)
  BY <1>4, <1>6, <1>7 DEF Fifo!Offer
<1> QED
  BY <1>2, <1>8


\* A consumer step that hands out the w oldest samples takes them from the queue.
LEMMA RemoveTakes ==
  ASSUME TypeOK, NEW w \in 1 .. len,
         out' = [k \in 1 .. w |-> buf[Slot(k - 1)]],
         head' = (head + w) % N, len' = len - w,
         buf' = buf, overruns' = overruns
  PROVE  \E k \in 1 .. Len(Live) : Fifo!Take(k)
<1>1. len \in 0 .. N /\ N > 0
  BY DEF TypeOK
<1>2. /\ Live \in Seq(Nat) /\ Len(Live) = len
      /\ \A k \in 1 .. len : Live[k] = buf[Slot(k - 1)] /\ buf[Slot(k - 1)] \in Nat
  BY <1>1, LiveType DEF Live
<1>3. out' = SubSeq(Live, 1, w)
  <2> DEFINE q == Live
  <2>1. /\ q \in Seq(Nat) /\ Len(q) = len
        /\ \A k \in 1 .. len : q[k] = buf[Slot(k - 1)] /\ buf[Slot(k - 1)] \in Nat
    BY <1>2
  <2> HIDE DEF q
  <2>2. SubSeq(q, 1, w) \in Seq(Nat) /\ Len(SubSeq(q, 1, w)) = w
        /\ \A k \in 1 .. w : SubSeq(q, 1, w)[k] = q[k]
    BY <1>1, <2>1
  <2>3. out' \in Seq(Nat) /\ Len(out') = w /\ \A k \in 1 .. w : out'[k] = buf[Slot(k - 1)]
    <3>1. ASSUME NEW k \in 1 .. w PROVE buf[Slot(k - 1)] \in Nat
      <4>1. k \in 1 .. len
        BY <1>1
      <4> QED
        BY <2>1, <4>1
    <3> QED
      BY <1>1, <3>1
  <2> QED
    BY <1>1, <2>1, <2>2, <2>3, SeqEqual DEF q
<1>4. \A k \in 1 .. len - w : Slot(k - 1)' = Slot(w + k - 1)
  <2> SUFFICES ASSUME NEW k \in 1 .. len - w PROVE Slot(k - 1)' = Slot(w + k - 1)
    OBVIOUS
  <2>1. w \in 0 .. N /\ k - 1 \in 0 .. N - 1 /\ w + (k - 1) \in 0 .. N - 1
    BY <1>1
  <2>2. (((head + w) % N) + (k - 1)) % N = Slot(w + (k - 1))
    BY <2>1, SlotShift
  <2>3. w + (k - 1) = w + k - 1
    BY <1>1
  <2> QED
    BY <2>2, <2>3 DEF Slot
<1>5. Live' = SubSeq(Live, w + 1, Len(Live))
  <2> DEFINE q == Live
             rest == SubSeq(q, w + 1, Len(q))
  <2>1. /\ q \in Seq(Nat) /\ Len(q) = len
        /\ \A k \in 1 .. len : q[k] = buf[Slot(k - 1)] /\ buf[Slot(k - 1)] \in Nat
    BY <1>2
  <2>2. Live' = [k \in 1 .. len - w |-> buf[Slot(w + k - 1)]]
    BY <1>4 DEF Live
  <2> HIDE DEF q
  <2>3. rest \in Seq(Nat) /\ Len(rest) = len - w /\ \A k \in 1 .. len - w : rest[k] = q[w + k]
    BY <1>1, <2>1
  <2> HIDE DEF rest
  <2>4. \A k \in 1 .. len - w : rest[k] = buf[Slot(w + k - 1)] /\ rest[k] \in Nat
    <3> SUFFICES ASSUME NEW k \in 1 .. len - w PROVE rest[k] = buf[Slot(w + k - 1)] /\ rest[k] \in Nat
      OBVIOUS
    <3>1. w + k \in 1 .. len /\ (w + k) - 1 = w + k - 1
      BY <1>1
    <3> QED
      BY <2>1, <2>3, <3>1
  <2>5. Live' \in Seq(Nat) /\ Len(Live') = len - w /\ \A k \in 1 .. len - w : Live'[k] = rest[k]
    <3>1. Live' = [k \in 1 .. len - w |-> rest[k]]
      BY <2>2, <2>4
    <3> QED
      BY <1>1, <2>4, <3>1
  <2> QED
    BY <2>3, <2>5, SeqEqual DEF rest, q
<1>6. Fifo!Take(w)
  BY <1>3, <1>5 DEF Fifo!Take
<1> QED
  BY <1>2, <1>6

\* Slot, the indices and the wrap-around stay hidden: each method is one step
\* of the queue, or none.
LEMMA FifoStep == TypeOK /\ [Next]_vars => [Fifo!Next]_(Fifo!vars)
<1> SUFFICES ASSUME TypeOK, [Next]_vars PROVE Fifo!Next \/ UNCHANGED Fifo!vars
  OBVIOUS
<1>1. CASE PushRefused
  <2>1. /\ 1 \in 1 .. MaxBatch /\ 0 \in 0 .. N - len /\ 0 = SmallerOf(1, Free) /\ produced + 1 <= MaxProduced
        /\ len' = len + 0 /\ overruns' = SaturatingAdd(overruns, 1 - 0)
        /\ head' = head /\ out' = out
    BY <1>1 DEF PushRefused, TypeOK, SmallerOf, Free
  <2>2. \A j \in 0 .. len + 0 - 1 :
          buf'[Slot(j)] = IF j < len THEN buf[Slot(j)] ELSE produced + 1 + (j - len)
    BY <1>1 DEF PushRefused, TypeOK
  <2> QED
    BY <2>1, <2>2, AppendOffers DEF Fifo!Next
<1>2. CASE PushStored
  <2>1. /\ 1 \in 1 .. MaxBatch /\ 1 \in 0 .. N - len /\ 1 = SmallerOf(1, Free) /\ produced + 1 <= MaxProduced
        /\ len' = len + 1 /\ head' = head /\ out' = out
    BY <1>2 DEF PushStored, TypeOK, SmallerOf, Free
  <2>2. overruns' = SaturatingAdd(overruns, 1 - 1)
    BY <1>2 DEF PushStored, TypeOK, SaturatingAdd, SmallerOf
  <2>3. \A j \in 0 .. len + 1 - 1 :
          buf'[Slot(j)] = IF j < len THEN buf[Slot(j)] ELSE produced + 1 + (j - len)
    BY <1>2, PushStoredAt
  <2> QED
    BY <2>1, <2>2, <2>3, AppendOffers DEF Fifo!Next
<1>3. ASSUME NEW n \in 1 .. MaxBatch, PushSlice(n) PROVE Fifo!Next
  <2> DEFINE stored == SmallerOf(n, Free)
  <2>1. stored \in 0 .. N - len /\ stored <= n
    BY DEF TypeOK, SmallerOf, Free
  <2>2. /\ buf' = StoreSlice(stored)
        /\ head' = head /\ out' = out /\ len' = len + stored /\ produced + n <= MaxProduced
        /\ overruns' = IF stored < n
                       THEN SaturatingAdd(SaturatingAdd(overruns, 1), n - stored - 1)
                       ELSE overruns
    BY <1>3 DEF PushSlice
  <2>3. stored = SmallerOf(n, Free)
    OBVIOUS
  <2> HIDE DEF stored
  <2>4. overruns' = SaturatingAdd(overruns, n - stored)
    BY <2>1, <2>2 DEF SaturatingAdd, SmallerOf, TypeOK
  <2>5. \A j \in 0 .. len + stored - 1 :
          buf'[Slot(j)] = IF j < len THEN buf[Slot(j)] ELSE produced + 1 + (j - len)
    BY <2>1, <2>2, StoreSliceAt
  <2> QED
    BY <2>1, <2>2, <2>3, <2>4, <2>5, AppendOffers DEF Fifo!Next
<1>4. CASE Pop
  <2>1. 1 \in 1 .. len /\ head \in 0 .. N - 1 /\ 0 \in 0 .. N - 1
    BY <1>4 DEF Pop, TypeOK
  <2>2. Slot(0) = head
    BY <2>1, SlotIndex
  <2>3. out' = [k \in 1 .. 1 |-> buf[Slot(k - 1)]]
    BY <1>4, <2>2 DEF Pop
  <2> QED
    BY <1>4, <2>1, <2>3, RemoveTakes DEF Pop, Fifo!Next
<1>5. ASSUME NEW n \in 1 .. MaxBatch, PopSlice(n) PROVE Fifo!Next
  <2> DEFINE written == SmallerOf(n, len)
  <2>1. written \in 1 .. len
    BY <1>5 DEF PopSlice, TypeOK, SmallerOf
  <2>2. /\ out' = [k \in 1 .. written |-> buf[Slot(k - 1)]]
        /\ head' = (head + written) % N /\ len' = len - written
        /\ buf' = buf /\ overruns' = overruns
    BY <1>5 DEF PopSlice, Slot
  <2> HIDE DEF written
  <2> QED
    BY <2>1, <2>2, RemoveTakes DEF Fifo!Next
<1>6. CASE Clear
  BY <1>6 DEF Clear, Live, Fifo!Next, Fifo!Discard
<1>7. CASE TakeOverruns
  BY <1>7 DEF TakeOverruns, Live, Slot, Fifo!Next, Fifo!ReadDrops
<1>8. CASE UNCHANGED vars
  BY <1>8 DEF vars, Live, Slot, Fifo!vars
<1> QED
  BY <1>1, <1>2, <1>3, <1>4, <1>5, <1>6, <1>7, <1>8 DEF Next

\* ImplementsFifo (ring.rs: push, push_slice, pop, pop_slice, clear,
\* take_overruns): for every capacity and every slice length the ring is the
\* bounded drop-newest queue of SampleFifo.
THEOREM RingImplementsFifo == Spec => ImplementsFifo
<1>1. Init => Fifo!Init
  BY DEF Init, Fifo!Init, Live
<1>2. TypeOK /\ [Next]_vars => [Fifo!Next]_(Fifo!vars)
  BY FifoStep
<1> QED
  BY <1>1, <1>2, TypeCorrect, PTL DEF Spec, ImplementsFifo, Fifo!Spec

=============================================================================
