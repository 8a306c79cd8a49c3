----------------------------- MODULE SampleFifo -----------------------------
(***************************************************************************)
(* What src/src/ring.rs promises: a bounded first-in first-out queue of    *)
(* audio samples that drops the NEWEST samples when it is full and counts  *)
(* every drop in a saturating counter the consumer can read and reset.     *)
(* Indices, wrap-around and slots do not appear here.                      *)
(***************************************************************************)
EXTENDS Integers, Sequences

CONSTANTS Capacity,      \* samples the queue holds (the const parameter N)
          OverrunMax,    \* ceiling of the saturating counter (u32::MAX)
          Batches        \* the slices a producer may offer

VARIABLES queue,         \* live samples, oldest first
          dropped,       \* drops since the counter was last taken
          out            \* samples handed out by the latest consumer call

vars == <<queue, dropped, out>>

Init == queue = <<>> /\ dropped = 0 /\ out = <<>>

Room == Capacity - Len(queue)

Saturate(n) == IF n > OverrunMax THEN OverrunMax ELSE n

\* The producer offers a batch: its first samples are kept, as many as fit.
Offer(batch) ==
  LET kept == IF Len(batch) < Room THEN Len(batch) ELSE Room
  IN  /\ queue' = queue \o SubSeq(batch, 1, kept)
      /\ dropped' = Saturate(dropped + (Len(batch) - kept))
      /\ UNCHANGED out

\* The consumer takes the oldest k samples, in order.
Take(k) ==
  /\ out' = SubSeq(queue, 1, k)
  /\ queue' = SubSeq(queue, k + 1, Len(queue))
  /\ UNCHANGED dropped

\* The consumer discards everything live; drops stay counted.
Discard == queue' = <<>> /\ UNCHANGED <<dropped, out>>

\* The consumer reads and resets the drop counter.
ReadDrops == dropped' = 0 /\ UNCHANGED <<queue, out>>

Next ==
  \/ \E batch \in Batches : Offer(batch)
  \/ \E k \in 1 .. Len(queue) : Take(k)
  \/ Discard
  \/ ReadDrops

Spec == Init /\ [][Next]_vars
=============================================================================
