----------------------------- MODULE SampleRing -----------------------------
(***************************************************************************)
(* src/src/ring.rs: the fixed-capacity sample ring between an audio        *)
(* interrupt (push, push_slice) and a main loop (pop, pop_slice, clear,    *)
(* take_overruns).  The crate takes no lock itself: callers wrap each      *)
(* method in a critical section, so a method is one atomic step and the    *)
(* two sides interleave between methods.                                   *)
(*                                                                         *)
(* A sample is modelled by its stamp, the position at which it was         *)
(* produced; the ring never looks at the value, so the stamp is all that   *)
(* order, loss and duplication depend on.                                  *)
(***************************************************************************)
EXTENDS Integers, Sequences

CONSTANTS N,             \* capacity in samples (const generic)
          OverrunMax,    \* u32::MAX, the ceiling of the overrun counter
          MaxBatch,      \* longest slice passed to push_slice / pop_slice
          MaxProduced    \* bound: samples the producer ever offers

ASSUME NAssumption == N \in Nat
ASSUME OverrunMaxAssumption == OverrunMax \in Nat
ASSUME BoundsAssumption == MaxBatch \in Nat \ {0} /\ MaxProduced \in Nat

VARIABLES buf,           \* sample storage
          head,          \* index of the oldest sample
          len,           \* live samples
          overruns,      \* drops counted since take_overruns (saturating)
          out,           \* what the latest pop / pop_slice returned
          produced,      \* history: samples offered so far
          lost           \* history: drops since take_overruns, not saturating

vars == <<buf, head, len, overruns, out, produced, lost>>

-----------------------------------------------------------------------------
SmallerOf(a, b) == IF a < b THEN a ELSE b

\* u32::saturating_add
SaturatingAdd(a, b) == SmallerOf(a + b, OverrunMax)

\* Buffer index of the k-th live sample (k = 0 is the oldest).
Slot(k) == (head + k) % N

Free == N - len

Init ==
  /\ buf = [i \in 0 .. N - 1 |-> 0]
  /\ head = 0
  /\ len = 0
  /\ overruns = 0
  /\ out = <<>>
  /\ produced = 0
  /\ lost = 0

-----------------------------------------------------------------------------
\* Mutant: a full ring overwrites its oldest sample instead of refusing.
PushOverwrites ==
  /\ produced < MaxProduced
  /\ len >= N
  /\ buf' = [buf EXCEPT ![head] = produced + 1]
  /\ overruns' = SaturatingAdd(overruns, 1)
  /\ produced' = produced + 1
  /\ lost' = lost + 1
  /\ UNCHANGED <<head, len, out>>

\* push on a full ring: the sample is refused and counted.
PushRefused ==
  /\ produced < MaxProduced
  /\ len >= N
  /\ overruns' = SaturatingAdd(overruns, 1)
  /\ produced' = produced + 1
  /\ lost' = lost + 1
  /\ UNCHANGED <<buf, head, len, out>>

\* push with room: the sample goes to the tail.
PushStored ==
  /\ produced < MaxProduced
  /\ len < N
  /\ buf' = [buf EXCEPT ![Slot(len)] = produced + 1]
  /\ len' = len + 1
  /\ produced' = produced + 1
  /\ UNCHANGED <<head, overruns, out, lost>>

\* Index i counted from the tail, and push_slice's effect on the buffer:
\* the samples that fit are stored one after the other from the tail on.
FromTail(i) == (i - Slot(len) + N) % N
StoreSlice(stored) ==
  [i \in 0 .. N - 1 |-> IF FromTail(i) < stored
                        THEN produced + 1 + FromTail(i)
                        ELSE buf[i]]

\* Mutant: push_slice counts one overrun for the whole refused rest.
PushSliceCountsOnce(n) ==
  LET stored == SmallerOf(n, Free)
  IN  /\ produced + n <= MaxProduced
      /\ buf' = StoreSlice(stored)
      /\ len' = len + stored
      /\ overruns' = IF stored < n THEN SaturatingAdd(overruns, 1)
                     ELSE overruns
      /\ produced' = produced + n
      /\ lost' = lost + (n - stored)
      /\ UNCHANGED <<head, out>>

\* push_slice: the first refusal counts itself (inside push) and then the
\* rest of the slice.
PushSlice(n) ==
  LET stored == SmallerOf(n, Free)
  IN  /\ produced + n <= MaxProduced
      /\ buf' = StoreSlice(stored)
      /\ len' = len + stored
      /\ overruns' = IF stored < n
                     THEN SaturatingAdd(SaturatingAdd(overruns, 1),
                                        n - stored - 1)
                     ELSE overruns
      /\ produced' = produced + n
      /\ lost' = lost + (n - stored)
      /\ UNCHANGED <<head, out>>

\* Mutant: pop advances head without wrapping it.
PopNoWrap ==
  /\ len > 0
  /\ out' = <<buf[head]>>
  /\ head' = head + 1
  /\ len' = len - 1
  /\ UNCHANGED <<buf, overruns, produced, lost>>

\* pop: the oldest sample.  On an empty ring it returns None and changes
\* nothing, a stuttering step.
Pop ==
  /\ len > 0
  /\ out' = <<buf[head]>>
  /\ head' = (head + 1) % N
  /\ len' = len - 1
  /\ UNCHANGED <<buf, overruns, produced, lost>>

\* pop_slice: up to n of the oldest samples, in order.
PopSlice(n) ==
  LET written == SmallerOf(n, len)
  IN  /\ len > 0
      /\ out' = [k \in 1 .. written |-> buf[Slot(k - 1)]]
      /\ head' = Slot(written)
      /\ len' = len - written
      /\ UNCHANGED <<buf, overruns, produced, lost>>

\* Mutant: clear also forgets the drops.
ClearForgetsDrops ==
  /\ head' = 0
  /\ len' = 0
  /\ overruns' = 0
  /\ UNCHANGED <<buf, out, produced, lost>>

\* clear leaves the overrun counter alone.
Clear ==
  /\ head' = 0
  /\ len' = 0
  /\ UNCHANGED <<buf, overruns, out, produced, lost>>

TakeOverruns ==
  /\ overruns' = 0
  /\ lost' = 0
  /\ UNCHANGED <<buf, head, len, out, produced>>

Next ==
  \/ PushRefused
  \/ PushStored
  \/ \E n \in 1 .. MaxBatch : PushSlice(n)
  \/ Pop
  \/ \E n \in 1 .. MaxBatch : PopSlice(n)
  \/ Clear
  \/ TakeOverruns

Spec == Init /\ [][Next]_vars

-----------------------------------------------------------------------------
(* Properties                                                              *)

\* Types: head is a valid index of a non-empty buffer, len never exceeds
\* the capacity (so `free`, N - len, cannot underflow).
TypeOK ==
  /\ buf \in [0 .. N - 1 -> 0 .. MaxProduced]
  /\ head \in 0 .. N /\ (N > 0 => head < N)
  /\ len \in 0 .. N
  /\ overruns \in 0 .. OverrunMax
  /\ out \in Seq(0 .. MaxProduced)
  /\ produced \in 0 .. MaxProduced
  /\ lost \in Nat

\* overruns() is exactly the samples dropped since take_overruns, up to
\* saturation, whichever of push and push_slice dropped them and whatever
\* the consumer cleared meanwhile.
OverrunsExact == overruns = SmallerOf(lost, OverrunMax)

\* What the consumer last got, followed by what is live from head on, has
\* strictly increasing stamps, across the wrap: no sample is spliced over,
\* repeated, stale or out of order, whatever was dropped or cleared.
InOrder ==
  /\ \A i, j \in 1 .. Len(out) : i < j => out[i] < out[j]
  /\ \A i \in 1 .. Len(out) : out[i] <= produced
  /\ \A i \in 1 .. Len(out), j \in 0 .. len - 1 : out[i] < buf[Slot(j)]
  /\ \A i, j \in 0 .. len - 1 : i < j => buf[Slot(i)] < buf[Slot(j)]
  /\ \A i \in 0 .. len - 1 : buf[Slot(i)] \in 1 .. produced

\* The live samples, oldest first: the refinement mapping.
Live == [k \in 1 .. len |-> buf[Slot(k - 1)]]

\* A slice offered when f samples were produced before it.
Slices == {[i \in 1 .. n |-> f + i] : n \in 1 .. MaxBatch,
                                      f \in 0 .. MaxProduced}

Fifo == INSTANCE SampleFifo WITH Capacity <- N, Batches <- Slices,
                                 queue <- Live, dropped <- overruns

\* The ring implements the bounded drop-newest queue of SampleFifo: every
\* method is one step of the queue, wrap-around and slots are invisible.
ImplementsFifo == Fifo!Spec
=============================================================================
