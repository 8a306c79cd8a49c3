------------------------------ MODULE Capture ------------------------------
(***************************************************************************)
(* src/src/bin/yodel/aprsis.rs and decode_tnc2 of                          *)
(* src/src/bin/yodel/decode.rs, composed as their documentation does:      *)
(*                                                                         *)
(*     yodel aprsis ... | yodel decode --tnc2 -        (out = "pipe")      *)
(*     yodel aprsis ... --out capture.txt                                  *)
(*     yodel decode --tnc2 capture.txt                 (out = "file")      *)
(*                                                                         *)
(* The client opens one session after another, copies each packet line of  *)
(* the server to a buffered sink and waits ever longer between sessions    *)
(* that bring nothing.  A line is written in two pieces, the text and the  *)
(* CRLF; the BufWriter holds SinkBuffer pieces and writes them all when    *)
(* one more does not fit.  A pipe holds PipeRoom pieces its reader has not *)
(* read: a longer write waits for the reader, without a timeout.           *)
(*                                                                         *)
(* Text is "good" (a monitor line), "bad" (not one) or "comment" (a line   *)
(* that begins with '#').  The address the name server rotates to, the     *)
(* login text and the counts only the report on stderr shows are left out.  *)
(***************************************************************************)
EXTENDS Integers, Sequences, FiniteSetsExt

CONSTANTS SinkBuffer,     \* pieces the BufWriter holds
          PipeRoom,       \* pieces the pipe and the decoder's own buffer hold
          MaxLines,       \* bound: lines the server sends
          MaxSessions     \* bound: sessions opened

VARIABLES opts,       \* the command line: [seconds, count (0: no bound), keep_comments, no_reconnect, out]
          stage,      \* "connect", "read", "write", "wait", "flush", "last", "done" or "failed"
          stats,      \* [lines, sessions]
          backoff,    \* the next wait
          before,     \* lines counted when the session began
          clock,      \* seconds since the start, counted up to opts.seconds
          arrived,    \* lines the server has sent
          buffer,     \* pieces in the BufWriter
          output,     \* pieces handed to the pipe or file, the write in progress included
          sink,       \* "open", "closed" (no reader left) or "full" (a write fails)
          decoder,    \* decode_tnc2: [at, n, decoded, skipped, running]
          waited,     \* history: seconds waited since a session brought a packet
          barren,     \* history: sessions since then that brought none
          spoilt      \* history: a write to the sink has failed

captureVars == <<opts, stage, stats, backoff, before, clock, arrived, buffer, output, sink, decoder,
                 waited, barren, spoilt>>

READ_TIMEOUT == 90
BACKOFF_START == 5
BACKOFF_MAX == 300

Ended == stage \in {"done", "failed"}

CaptureInit ==
  /\ opts \in [seconds : {0, 60}, count : {0, 2}, keep_comments : BOOLEAN, no_reconnect : BOOLEAN,
               out : {"pipe", "file"}]
  /\ stage = "connect" /\ backoff = BACKOFF_START /\ before = 0 /\ clock = 0 /\ arrived = 0
  /\ stats = [lines |-> 0, sessions |-> 0]
  /\ buffer = <<>> /\ output = <<>> /\ sink = "open"
  /\ decoder = [at |-> 0, n |-> 0, decoded |-> 0, skipped |-> 0, running |-> TRUE]
  /\ waited = 0 /\ barren = 0 /\ spoilt = FALSE

After(seconds) == Min({clock + seconds, opts.seconds})

reached_bound(lines, time) ==
  \/ opts.seconds > 0 /\ time >= opts.seconds
  \/ opts.count > 0 /\ lines >= opts.count

-----------------------------------------------------------------------------
(* The end of a session: how the loop of aprsis goes on                     *)

\* Mutant: the bound is looked at only inside a session.
NoMore_unbounded(error) == error \in {"finished", "BrokenPipe"} \/ opts.no_reconnect
\* error: "finished", "BrokenPipe" or any other.
NoMore(error) ==
  error \in {"finished", "BrokenPipe"} \/ opts.no_reconnect \/ reached_bound(stats'.lines, clock')

\* Mutant: any session resets the wait.
SessionEnds_reset(error, gained) ==
  IF NoMore(error) THEN stage' = "flush" /\ UNCHANGED <<backoff, waited, barren>>
  ELSE /\ stage' = "wait" /\ backoff' = BACKOFF_START
       /\ waited' = IF gained THEN 0 ELSE waited
       /\ barren' = IF gained THEN 0 ELSE barren + 1

\* gained: the session has counted a packet line.
SessionEnds(error, gained) ==
  IF NoMore(error) THEN stage' = "flush" /\ UNCHANGED <<backoff, waited, barren>>
  ELSE /\ stage' = "wait" /\ backoff' = IF gained THEN BACKOFF_START ELSE backoff
       /\ waited' = IF gained THEN 0 ELSE waited
       /\ barren' = IF gained THEN 0 ELSE barren + 1

\* sleep, then twice the wait.
Wait ==
  /\ stage = "wait" /\ stats.sessions < MaxSessions
  /\ stage' = "connect" /\ clock' = After(backoff) /\ waited' = waited + backoff
  /\ backoff' = Min({2 * backoff, BACKOFF_MAX})
  /\ UNCHANGED <<opts, stats, before, arrived, buffer, output, sink, decoder, barren, spoilt>>

\* The start of run_session: connect and log in.  A socket the server has
\* already shut answers the login with a broken pipe.
Connect ==
  /\ stage = "connect"
  /\ stats' = [stats EXCEPT !.sessions = @ + 1] /\ before' = stats.lines
  /\ \/ stage' = "read" /\ UNCHANGED <<clock, backoff, waited, barren>>
     \/ \E error \in {"BrokenPipe", "other"}, time \in {clock, After(15)} :
          clock' = time /\ SessionEnds(error, FALSE)
  /\ UNCHANGED <<opts, arrived, buffer, output, sink, decoder, spoilt>>

-----------------------------------------------------------------------------
(* Reading and writing                                                      *)

\* BufWriter::write_all of one piece; st = [buffer, output, ok].
Put(st, piece) ==
  IF ~st.ok THEN st
  ELSE IF Len(st.buffer) < SinkBuffer THEN [st EXCEPT !.buffer = Append(@, piece)]
  ELSE IF sink = "open" THEN [st EXCEPT !.output = @ \o st.buffer, !.buffer = <<piece>>]
  ELSE [st EXCEPT !.ok = FALSE]

\* Mutant: a comment is counted as a packet.
Counted_comments(line) == line \in {"good", "bad", "comment"}
Counted(line) == line \in {"good", "bad"}

\* One round of run_session's loop.  read_bounded_line returns a line,
\* "oversized" for one beyond LINE_MAX, or ends the session: at the end of the
\* stream (a partial line is dropped), after READ_TIMEOUT, or when more than
\* DRAIN_CHUNKS chunks bring no line end.
Read(got) ==
  LET time  == After(IF got = "timeout" THEN READ_TIMEOUT ELSE 0)
      lines == stats.lines + (IF Counted(got) THEN 1 ELSE 0)
      kept  == Counted(got) \/ (got = "comment" /\ opts.keep_comments)
      st    == Put(Put([buffer |-> buffer, output |-> output, ok |-> TRUE], got), "eol")
  IN  /\ stage = "read" /\ ~reached_bound(stats.lines, clock)
      /\ clock' = time
      /\ stats' = [stats EXCEPT !.lines = lines]
      /\ IF kept THEN buffer' = st.buffer /\ output' = st.output /\ spoilt' = (spoilt \/ ~st.ok)
         ELSE UNCHANGED <<buffer, output, spoilt>>
      /\ IF got \in {"eof", "timeout", "endless"} THEN SessionEnds("other", lines > before)
         ELSE IF kept /\ ~st.ok
         THEN SessionEnds(IF sink = "closed" THEN "BrokenPipe" ELSE "other", lines > before)
         ELSE /\ stage' = IF output' = output THEN "read" ELSE "write"
              /\ UNCHANGED <<backoff, waited, barren>>
      /\ UNCHANGED <<opts, before, sink, decoder>>

ReadLine == \E got \in {"good", "bad", "comment", "blank", "oversized"} :
              arrived < MaxLines /\ Read(got) /\ arrived' = arrived + 1
ReadFails == \E got \in {"eof", "timeout", "endless"} : Read(got) /\ UNCHANGED arrived

\* The bound is reached: Done::Finished.
Finish ==
  /\ stage = "read" /\ reached_bound(stats.lines, clock)
  /\ UNCHANGED <<stats, clock>> /\ SessionEnds("finished", FALSE)
  /\ UNCHANGED <<opts, before, arrived, buffer, output, sink, decoder, spoilt>>

\* The last flush, whose failure is the command's failure.
Flush ==
  /\ stage = "flush"
  /\ IF sink = "open" \/ buffer = <<>>
     THEN /\ stage' = IF buffer = <<>> THEN "done" ELSE "last"
          /\ output' = output \o buffer /\ buffer' = <<>> /\ UNCHANGED spoilt
     ELSE stage' = "failed" /\ spoilt' = TRUE /\ UNCHANGED <<output, buffer>>
  /\ UNCHANGED <<opts, stats, backoff, before, clock, arrived, sink, decoder, waited, barren>>

\* All that was written is in the file, or in the pipe.
Taken == opts.out = "pipe" => Len(output) - decoder.at <= PipeRoom

\* A write in progress, of a line or of the last flush, returns, or fails
\* because the reader has closed the pipe.
WriteReturns ==
  /\ stage \in {"write", "last"} /\ UNCHANGED <<stats, clock>>
  /\ \/ Taken /\ stage' = (IF stage = "write" THEN "read" ELSE "done")
        /\ UNCHANGED <<backoff, waited, barren, spoilt>>
     \/ sink = "closed" /\ stage = "write" /\ spoilt' = TRUE
        /\ SessionEnds("BrokenPipe", stats.lines > before)
     \/ sink = "closed" /\ stage = "last" /\ spoilt' = TRUE
        /\ stage' = "failed" /\ UNCHANGED <<backoff, waited, barren>>
  /\ UNCHANGED <<opts, before, arrived, buffer, output, sink, decoder>>

\* Time passes while the server is silent or the pipe is full.
Quiet ==
  /\ stage \in {"read", "write"} /\ clock < opts.seconds /\ clock' = opts.seconds
  /\ UNCHANGED <<opts, stage, stats, backoff, before, arrived, buffer, output, sink, decoder, waited,
                 barren, spoilt>>

-----------------------------------------------------------------------------
(* The disk, and the decoder                                                *)

Disk ==
  /\ opts.out = "file" /\ ~Ended
  /\ sink' = IF sink = "open" THEN "full" ELSE "open"
  /\ UNCHANGED <<opts, stage, stats, backoff, before, clock, arrived, buffer, output, decoder, waited,
                 barren, spoilt>>

\* The next line of decode_tnc2: the pieces up to a line end, or all that is
\* left when the writer has ended.
Rest == SubSeq(output, decoder.at + 1, Len(output))
EolAt == Min({Len(Rest) + 1} \cup {i \in DOMAIN Rest : Rest[i] = "eol"})
LineReady == IF EolAt <= Len(Rest) THEN TRUE ELSE Ended /\ Rest # <<>>

Decode ==
  /\ decoder.running /\ LineReady /\ (opts.out = "file" => Ended)
  /\ LET text == SubSeq(Rest, 1, EolAt - 1)
         next == [decoder EXCEPT !.at = Min({decoder.at + EolAt, Len(output)})]
     IN  decoder' = IF text = <<>> THEN next
                    ELSE IF text[1] = "comment" THEN next
                    ELSE [next EXCEPT !.n = @ + 1,
                                      !.decoded = @ + (IF text[1] = "good" THEN 1 ELSE 0),
                                      !.skipped = @ + (IF text[1] = "good" THEN 0 ELSE 1)]
  /\ UNCHANGED <<opts, stage, stats, backoff, before, clock, arrived, buffer, output, sink, waited,
                 barren, spoilt>>

\* The decoder's own output fails and it returns: nobody reads the pipe.
DecoderFails ==
  /\ decoder.running /\ opts.out = "pipe"
  /\ decoder' = [decoder EXCEPT !.running = FALSE] /\ sink' = "closed"
  /\ UNCHANGED <<opts, stage, stats, backoff, before, clock, arrived, buffer, output, waited, barren,
                 spoilt>>

Client == Wait \/ Connect \/ ReadLine \/ ReadFails \/ Finish \/ WriteReturns \/ Flush
CaptureNext == Client \/ Quiet \/ Disk \/ Decode \/ DecoderFails

\* Each read returns within READ_TIMEOUT and each connection within 15 s.  A
\* write to a pipe has no timeout, and nothing is assumed of its reader.
CaptureFairness == WF_captureVars(Client)

CaptureSpec == CaptureInit /\ [][CaptureNext]_captureVars /\ CaptureFairness

-----------------------------------------------------------------------------
(* Properties                                                               *)

\* The first k waits together: 5 + 10 + 20 + 40 + 80 + 160 + 300 + 300 + ... seconds.
Schedule(k) == IF k < 6 THEN <<0, 5, 15, 35, 75, 155>>[k + 1] ELSE 315 + 300 * (k - 6)

\* However sessions fail (refused, shut, silent, babbling), the k-th session in
\* a row that brings no packet is opened only after the first k waits of the
\* back-off since the last that did: the loop never hammers a server.
Courtesy == stage = "connect" => waited >= Schedule(barren)

\* What the decoder reports is what the client counted: every packet line, no
\* comment, no line twice or half, unless a write to the sink has failed.
LineForLine ==
  /\ decoder.n <= stats.lines /\ decoder.decoded + decoder.skipped = decoder.n
  /\ opts.count > 0 => stats.lines <= opts.count
  /\ stage = "done" /\ ~spoilt /\ decoder.running /\ ~LineReady => decoder.n = stats.lines

\* A write that waits for the pipe's reader, who has not closed it.
Stalled == stage \in {"write", "last"} /\ sink # "closed" /\ ~Taken

\* --seconds ends the command whatever the server, the disk and the pipe's
\* reader do, unless that reader keeps the pipe open and reads no more: the
\* loop of aprsis, whose only wait without a limit is a write to the sink.
EndsInTime == opts.seconds > 0 => <>Ended \/ <>[]Stalled
=============================================================================
