------------------------------- MODULE Feeds -------------------------------
(***************************************************************************)
(* src/src/asynk.rs: frames, decode_many and pump_feed.  Each feed has a   *)
(* task that reads bytes and a blocking thread that pairs them to samples  *)
(* and decodes; a channel of ChunkCap chunks joins the two, and a channel  *)
(* of ChannelCap items, shared by all feeds, leads to the consumer, which  *)
(* may drop it at any time.                                                *)
(*                                                                         *)
(* Byte k of a feed is the number k.  The receiver completes a frame with  *)
(* every second sample, provided its samples are (1,2), (3,4), ...; the    *)
(* frame is named by its last byte.                                        *)
(***************************************************************************)
EXTENDS Integers, Sequences, SequencesExt, FiniteSetsExt

CONSTANTS Feeds,
          Lengths,       \* bytes a feed may hold
          ReadMax,       \* CHUNK_BYTES: the most bytes one read returns
          ChunkCap,      \* 4 in the code
          ChannelCap     \* CHANNEL_CAPACITY, 64 in the code

ASSUME FeedsAssumption == Lengths \subseteq Nat /\ ReadMax \in Nat

VARIABLES source,    \* [f -> [bytes, end]]: the reader, which ends with "eof" or "error"
          pump,      \* [f -> [pc, at, buf]]: "read", "send", "join", "join_error", "report", "done"
          chunks,    \* [f -> sequence of chunks]
          worker,    \* [f -> [pc, bytes, item]]: "recv", "push", "send", "last", "done"
          channel,   \* the frame channel: a sequence of <<feed, item>>
          receiver,  \* ReceiverStream: "open", or "dropped" by the consumer
          taken      \* history: what the consumer has had, [f -> sequence of items]

feedVars == <<source, pump, chunks, worker, channel, receiver, taken>>

\* Items: the frame that ends with byte k is k; the errors.
Truncated == -1
ReadError == -2

FeedsInit ==
  /\ source \in [Feeds -> [bytes : Lengths, end : {"eof", "error"}]]
  /\ pump = [f \in Feeds |-> [pc |-> "read", at |-> 0, buf |-> <<>>]]
  /\ chunks = [f \in Feeds |-> <<>>]
  /\ worker = [f \in Feeds |-> [pc |-> "recv", bytes |-> <<>>, item |-> <<>>]]
  /\ channel = <<>> /\ receiver = "open" /\ taken = [f \in Feeds |-> <<>>]

-----------------------------------------------------------------------------
(* The reading task                                                        *)

\* Mutant: a read error is reported at once.
AfterError_unjoined == "report"
AfterError == "join_error"

ReadSome(f) ==
  /\ pump[f].pc = "read"
  /\ \E n \in 1 .. Min({ReadMax, source[f].bytes - pump[f].at}) :
       pump' = [pump EXCEPT ![f] = [pc |-> "send", at |-> @.at + n, buf |-> [i \in 1 .. n |-> @.at + i]]]
  /\ UNCHANGED <<source, chunks, worker, channel, receiver, taken>>

ReadEnds(f) ==
  /\ pump[f].pc = "read" /\ pump[f].at = source[f].bytes
  /\ pump' = [pump EXCEPT ![f].pc = IF source[f].end = "eof" THEN "join" ELSE AfterError]
  /\ UNCHANGED <<source, chunks, worker, channel, receiver, taken>>

\* chunk_tx.send: waits for room, and fails once the worker has gone.
SendChunk(f) ==
  /\ pump[f].pc = "send"
  /\ IF worker[f].pc = "done"
     THEN pump' = [pump EXCEPT ![f].pc = "join"] /\ UNCHANGED chunks
     ELSE /\ Len(chunks[f]) < ChunkCap
          /\ chunks' = [chunks EXCEPT ![f] = Append(@, pump[f].buf)]
          /\ pump' = [pump EXCEPT ![f].pc = "read", ![f].buf = <<>>]
  /\ UNCHANGED <<source, worker, channel, receiver, taken>>

\* worker.await
Join(f) ==
  /\ worker[f].pc = "done"
  /\ \/ pump[f].pc = "join" /\ pump' = [pump EXCEPT ![f].pc = "done"]
     \/ pump[f].pc = "join_error" /\ pump' = [pump EXCEPT ![f].pc = "report"]
  /\ UNCHANGED <<source, chunks, worker, channel, receiver, taken>>

\* A send to the frame channel, from a task or a thread: waits for room, and
\* fails at once when the stream has been dropped.
Offer(f, item) ==
  \/ receiver = "dropped" /\ UNCHANGED channel
  \/ receiver = "open" /\ Len(channel) < ChannelCap /\ channel' = Append(channel, <<f, item>>)

Report(f) ==
  /\ pump[f].pc = "report" /\ Offer(f, ReadError)
  /\ pump' = [pump EXCEPT ![f].pc = "done"]
  /\ UNCHANGED <<source, chunks, worker, receiver, taken>>

-----------------------------------------------------------------------------
(* The decoding thread                                                     *)

\* Mutant: the channel stays open while the task waits for the worker.
Closed_late(f) == pump[f].pc = "done"
\* chunk_tx is dropped before the task waits for the worker.
Closed(f) == pump[f].pc \notin {"read", "send"}

\* Mutant: the odd byte of a chunk is forgotten.
Joined_dropped(carry, chunk) == chunk
Joined(carry, chunk) == carry \o chunk

\* blocking_recv; at the end an odd byte is an error.
Recv(f) ==
  /\ worker[f].pc = "recv"
  /\ IF chunks[f] # <<>>
     THEN /\ worker' = [worker EXCEPT ![f].pc = "push", ![f].bytes = Joined(@, Head(chunks[f]))]
          /\ chunks' = [chunks EXCEPT ![f] = Tail(@)]
     ELSE /\ Closed(f)
          /\ worker' = [worker EXCEPT ![f].pc = IF worker[f].bytes = <<>> THEN "done" ELSE "last"]
          /\ UNCHANGED chunks
  /\ UNCHANGED <<source, pump, channel, receiver, taken>>

FrameOf(lo, hi) == IF hi = lo + 1 /\ hi % 4 = 0 THEN <<hi>> ELSE <<>>

\* push_sample, up to the send.
PushSample(f) ==
  LET b     == worker[f].bytes
      frame == FrameOf(b[1], b[2])
  IN  /\ worker[f].pc = "push"
      /\ worker' = IF Len(b) < 2 THEN [worker EXCEPT ![f].pc = "recv"]
                   ELSE [worker EXCEPT ![f] = [pc |-> IF frame = <<>> THEN "push" ELSE "send",
                                               bytes |-> SubSeq(b, 3, Len(b)), item |-> frame]]
      /\ UNCHANGED <<source, pump, chunks, channel, receiver, taken>>

SendFrame(f) ==
  /\ worker[f].pc = "send" /\ Offer(f, worker[f].item[1])
  /\ worker' = [worker EXCEPT ![f].pc = IF receiver = "dropped" THEN "done" ELSE "push", ![f].item = <<>>]
  /\ UNCHANGED <<source, pump, chunks, receiver, taken>>

SendLast(f) ==
  /\ worker[f].pc = "last" /\ Offer(f, Truncated)
  /\ worker' = [worker EXCEPT ![f].pc = "done"]
  /\ UNCHANGED <<source, pump, chunks, receiver, taken>>

-----------------------------------------------------------------------------
(* The consumer                                                            *)

Take ==
  /\ receiver = "open" /\ channel # <<>>
  /\ channel' = Tail(channel)
  /\ taken' = [taken EXCEPT ![Head(channel)[1]] = Append(@, Head(channel)[2])]
  /\ UNCHANGED <<source, pump, chunks, worker, receiver>>

DropStream ==
  /\ receiver = "open" /\ receiver' = "dropped" /\ channel' = <<>>
  /\ UNCHANGED <<source, pump, chunks, worker, taken>>

\* The reader yields; then the task's own steps.
Yields(f) == ReadSome(f) \/ ReadEnds(f)
TaskStep(f) == SendChunk(f) \/ Join(f) \/ Report(f)
PumpStep(f) == Yields(f) \/ TaskStep(f)
WorkerStep(f) == Recv(f) \/ PushSample(f) \/ SendFrame(f) \/ SendLast(f)
FeedStep == \E f \in Feeds : PumpStep(f) \/ WorkerStep(f)

FeedsNext == FeedStep \/ Take \/ DropStream

\* What a consumer does with an item: it takes it, or drops the stream.
Consume == channel # <<>> /\ (Take \/ DropStream)

\* The executor polls a task that is ready, a blocking thread runs, and the
\* consumer polls the stream or drops it.  Nothing is assumed of the readers:
\* a live one may be silent for ever, and its read() then never returns.
FeedsFairness ==
  /\ \A f \in Feeds : WF_feedVars(TaskStep(f)) /\ WF_feedVars(WorkerStep(f))
  /\ WF_feedVars(Consume)

FeedsSpec == FeedsInit /\ [][FeedsNext]_feedVars /\ FeedsFairness

-----------------------------------------------------------------------------
(* Properties                                                              *)

Finished(f) == pump[f].pc = "done" /\ worker[f].pc = "done"
AllDone == \A f \in Feeds : Finished(f)

\* Every frame of the feed in order, then its odd byte, then its read error.
Whole(f) ==
  [i \in 1 .. source[f].bytes \div 4 |-> 4 * i]
    \o (IF source[f].bytes % 2 = 1 THEN <<Truncated>> ELSE <<>>)
    \o (IF source[f].end = "error" THEN <<ReadError>> ELSE <<>>)

\* The items of f in a sequence of <<feed, item>>.
ItemsOf(f, s) ==
  LET upto[i \in 0 .. Len(s)] ==
        IF i = 0 THEN <<>> ELSE IF s[i][1] = f THEN Append(upto[i - 1], s[i][2]) ELSE upto[i - 1]
  IN  upto[Len(s)]

\* "order within one feed is preserved", "a feed's read error is its final
\* item" and "losing nothing": however reads split samples and the feeds crowd
\* the channel, each feed's items are a prefix of the whole, and the whole when
\* the stream ends.
NothingLost ==
  \A f \in Feeds :
    LET had == taken[f] \o ItemsOf(f, channel)
    IN  /\ IsPrefix(had, Whole(f))
        /\ AllDone /\ receiver = "open" => had = Whole(f)

\* The task waits for its reader, and all it has read is decoded and delivered.
Waiting(f) ==
  /\ pump[f].pc = "read" /\ ItemsOf(f, channel) = <<>>
  /\ \/ worker[f].pc = "recv" /\ chunks[f] = <<>>
     \/ worker[f].pc = "done"      \* the stream was dropped

\* Whether the consumer reads on or walks away, at any time, and however full
\* the channels are, the task and the thread of a feed end, or its reader
\* yields nothing more and they wait for it alone, with nothing held back:
\* no send, join or close of pump_feed waits for another.
\* A dropped stream is noticed only where a frame is sent, so Waiting may follow.
NoneLeft == \A f \in Feeds : <>Finished(f) \/ <>[]Waiting(f)
=============================================================================
