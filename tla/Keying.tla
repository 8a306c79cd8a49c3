------------------------------- MODULE Keying -------------------------------
(***************************************************************************)
(* The two commands that key a transmitter over a serial control line:     *)
(*   "ptt"       src/src/bin/yodel/ptt.rs: holds the line while an         *)
(*               external player runs, or for a fixed time (--hold);       *)
(*   "transmit"  src/src/bin/yodel/transmit.rs: plays the samples itself   *)
(*               through the sound device's callback, then --drain frames  *)
(*               of silence.                                               *)
(* The command's thread sleeps and polls; the player, the sound device's   *)
(* callbacks and the clock run beside it.  Time is in ticks and a sleep    *)
(* takes no longer than asked: overshoot by the scheduler is not modelled. *)
(* What the OS does with the lines when the port is closed, after the      *)
(* guard has released them, is left out; so are logs and device selection. *)
(***************************************************************************)
EXTENDS Integers

CONSTANTS Commands,      \* the command lines considered
          Poll,          \* ticks between two polls of the player or playback
          Samples,       \* samples in the WAV file
          DeviceBuffer,  \* frames the sound device holds before playing them
          Callback       \* frames one callback may ask for: 1 .. Callback

ASSUME TimesAssumption == Poll \in Nat \ {0} /\ DeviceBuffer \in Nat
ASSUME AudioAssumption == Samples \in Nat \ {0} /\ Callback \in Nat \ {0}

NoHold == 0
LineNames == {"Rts", "Dtr"}

\* A command line: times in ticks, frames of --drain, the line and its sense.
CommandLine == [cmd : {"ptt", "transmit"}, lead : Nat, tail : Nat, max : Nat, hold : Nat,
                drain : Nat, signal : LineNames, invert : BOOLEAN, port : BOOLEAN]
ASSUME CommandsAssumption == Commands \subseteq CommandLine

VARIABLES args,          \* the command line: [cmd, lead, tail, max, hold, drain,
                         \*                    signal, invert, port]
          pc,            \* the command's thread
          sleep,         \* ticks it still sleeps
          elapsed,       \* ticks since started (stops at ElapsedCap)
          lines,         \* level of the two control lines (at rest before Open)
          child,         \* the player: "none" | "running" | "ok" | "failed" | "killed"
          stream,        \* the output stream: "none" | "playing" | "dropped"
          position,      \* frames handed to the device
          played,        \* frames it has turned into sound
          done, failed,  \* flags the audio callbacks set
          erring,        \* the error callback is between its two stores
          result         \* "none" | "ok" | "err"

keyingVars == <<args, pc, sleep, elapsed, lines, child, stream, position, played, done, failed,
          erring, result>>
audioVars == <<stream, position, played, done, failed, erring>>

Lesser(a, b) == IF a < b THEN a ELSE b
Greater(a, b) == IF a < b THEN b ELSE a

\* The longest a command can hold the line, and one tick more.
Longest == Greater(args.max, args.lead) + Poll + args.tail
ElapsedCap == Longest + 1

Total == Samples + args.drain

KeyingInit ==
  /\ args \in Commands
  /\ pc = "start"
  /\ sleep = 0 /\ elapsed = 0
  /\ lines = [l \in LineNames |-> args.invert]
  /\ child = "none"
  /\ stream = "none"
  /\ position = 0 /\ played = 0
  /\ done = FALSE /\ failed = FALSE /\ erring = FALSE
  /\ result = "none"

Goes(next, ticks) == pc' = next /\ sleep' = ticks
Awake(at) == pc = at /\ sleep = 0

\* Leaving the keyed section with a result: the guard is dropped next.
Leaves(r) == pc' = "drop" /\ sleep' = 0 /\ result' = r

-----------------------------------------------------------------------------
(* Opening and keying                                                      *)

\* ptt rejects times that leave no room for the player.
Reject ==
  /\ Awake("start") /\ args.cmd = "ptt" /\ args.lead + args.tail >= args.max
  /\ pc' = "done" /\ result' = "err"
  /\ UNCHANGED <<args, sleep, elapsed, lines, child, audioVars>>

OpenFails ==
  /\ Awake("start") /\ args.port
  /\ args.cmd = "ptt" => args.lead + args.tail < args.max
  /\ pc' = "done" /\ result' = "err"
  /\ UNCHANGED <<args, sleep, elapsed, lines, child, audioVars>>

\* The driver may assert either line the moment the port is opened.
Open ==
  /\ Awake("start") /\ args.port
  /\ args.cmd = "ptt" => args.lead + args.tail < args.max
  /\ lines' \in [LineNames -> BOOLEAN]
  /\ Goes("opened", 0)
  /\ UNCHANGED <<args, elapsed, child, audioVars, result>>

\* Mutant: the lines are put low, whatever --invert says.
OpenPortDropsLow ==
  /\ Awake("opened")
  /\ lines' = [l \in LineNames |-> FALSE]
  /\ Goes("assert", 0)
  /\ UNCHANGED <<args, elapsed, child, audioVars, result>>

\* open_port puts both lines to rest before anything else.
OpenPort ==
  /\ Awake("opened")
  /\ lines' = [l \in LineNames |-> args.invert]
  /\ Goes("assert", 0)
  /\ UNCHANGED <<args, elapsed, child, audioVars, result>>

\* Keyed::assert, and the lead-in.
AssertLine ==
  /\ Awake("assert")
  /\ lines' = [lines EXCEPT ![args.signal] = ~args.invert]
  /\ Goes("lead", args.lead)
  /\ UNCHANGED <<args, elapsed, child, audioVars, result>>

\* transmit without --port plays without keying anything.
PlayUnkeyed ==
  /\ Awake("start") /\ args.cmd = "transmit" /\ ~args.port
  /\ Goes("lead", args.lead)
  /\ UNCHANGED <<args, elapsed, lines, child, audioVars, result>>

\* Drop of Keyed, on every path out of the keyed section.
Drop ==
  /\ Awake("drop")
  /\ lines' = IF args.port THEN [lines EXCEPT ![args.signal] = args.invert] ELSE lines
  /\ Goes("done", 0)
  /\ UNCHANGED <<args, elapsed, child, audioVars, result>>

-----------------------------------------------------------------------------
(* ptt                                                                     *)

Hold ==
  /\ Awake("lead") /\ args.cmd = "ptt" /\ args.hold # NoHold
  /\ Goes("hold", Lesser(args.hold, Greater(args.max - args.lead, 0)))
  /\ UNCHANGED <<args, elapsed, lines, child, audioVars, result>>

HoldEnds ==
  /\ Awake("hold")
  /\ Leaves("ok")
  /\ UNCHANGED <<args, elapsed, lines, child, audioVars>>

Spawn ==
  /\ Awake("lead") /\ args.cmd = "ptt" /\ args.hold = NoHold
  /\ \/ child' = "running" /\ Goes("wait", 0) /\ UNCHANGED result
     \/ Leaves("err") /\ UNCHANGED child
  /\ UNCHANGED <<args, elapsed, lines, audioVars>>

\* try_wait finds the player gone (or fails).
PlayerGone ==
  /\ Awake("wait")
  /\ \/ child \in {"ok", "failed"} /\ Goes("tail", args.tail) /\ UNCHANGED result
     \/ Leaves("err")
  /\ UNCHANGED <<args, elapsed, lines, child, audioVars>>

\* Mutant: the poll waits for the player without a limit.
PlayerForever ==
  /\ Awake("wait") /\ child = "running"
  /\ Goes("wait", Poll)
  /\ UNCHANGED <<args, elapsed, lines, child, audioVars, result>>

\* The player still runs: killed at --max, polled again otherwise.
PlayerRuns ==
  /\ Awake("wait") /\ child = "running"
  /\ IF elapsed >= args.max
     THEN Leaves("err") /\ child' = "killed"
     ELSE Goes("wait", Poll) /\ UNCHANGED <<child, result>>
  /\ UNCHANGED <<args, elapsed, lines, audioVars>>

\* The player exits; it may never do so.
PlayerExits ==
  /\ child = "running"
  /\ child' \in {"ok", "failed"}
  /\ UNCHANGED <<args, pc, sleep, elapsed, lines, audioVars, result>>

-----------------------------------------------------------------------------
(* transmit                                                                *)

StartPlayback ==
  /\ Awake("lead") /\ args.cmd = "transmit"
  /\ \/ stream' = "playing" /\ Goes("play", 0) /\ UNCHANGED result
     \/ Leaves("err") /\ UNCHANGED stream
  /\ UNCHANGED <<args, elapsed, lines, child, position, played, done, failed, erring>>

\* done is not set: given up after --max, polled again otherwise.
Playing ==
  /\ Awake("play") /\ ~done
  /\ IF elapsed > args.max
     THEN Leaves("err") /\ stream' = "dropped"
     ELSE Goes("play", Poll) /\ UNCHANGED <<stream, result>>
  /\ UNCHANGED <<args, elapsed, lines, child, position, played, done, failed, erring>>

\* done is set: the stream is dropped, then failed is read.
PlaybackDone ==
  /\ Awake("play") /\ done
  /\ stream' = "dropped"
  /\ Goes("played", 0)
  /\ UNCHANGED <<args, elapsed, lines, child, position, played, done, failed, erring,
                 result>>

AfterPlayback ==
  /\ Awake("played")
  /\ IF failed THEN Leaves("err") ELSE Goes("tail", args.tail) /\ UNCHANGED result
  /\ UNCHANGED <<args, elapsed, lines, child, audioVars>>

TailEnds ==
  /\ Awake("tail")
  /\ Leaves(IF child = "failed" THEN "err" ELSE "ok")
  /\ UNCHANGED <<args, elapsed, lines, child, audioVars>>

\* Mutant: done as soon as the last sample has been handed over.
FillStopsAtSamples(frames) ==
  /\ stream = "playing"
  /\ position + frames - played <= DeviceBuffer
  /\ position < Total + DeviceBuffer
  /\ position' = position + frames
  /\ done' = (done \/ position + frames >= Samples)
  /\ UNCHANGED <<args, pc, sleep, elapsed, lines, child, stream, played, failed, erring,
                 result>>

\* The device's callback takes some frames, samples first and then silence;
\* after the last of them, until the stream is dropped, it goes on asking
\* (the model stops at a full buffer of extra silence).
Fill(frames) ==
  /\ stream = "playing"
  /\ position + frames - played <= DeviceBuffer
  /\ position < Total + DeviceBuffer
  /\ position' = position + frames
  /\ done' = (done \/ position + frames >= Total)
  /\ UNCHANGED <<args, pc, sleep, elapsed, lines, child, stream, played, failed, erring,
                 result>>

\* The device plays a frame it holds; dropping the stream discards the rest.
DevicePlays ==
  /\ stream = "playing" /\ played < position
  /\ played' = played + 1
  /\ UNCHANGED <<args, pc, sleep, elapsed, lines, child, stream, position, done, failed,
                 erring, result>>

\* on_error: failed first, then done.
ErrorFailed ==
  /\ stream = "playing" /\ ~erring /\ ~failed
  /\ failed' = TRUE /\ erring' = TRUE
  /\ UNCHANGED <<args, pc, sleep, elapsed, lines, child, stream, position, played, done,
                 result>>

ErrorDone ==
  /\ erring
  /\ done' = TRUE /\ erring' = FALSE
  /\ UNCHANGED <<args, pc, sleep, elapsed, lines, child, stream, position, played, failed,
                 result>>

-----------------------------------------------------------------------------
\* The clock moves on while the command's thread sleeps.
Tick ==
  /\ sleep > 0
  /\ sleep' = sleep - 1
  /\ elapsed' = IF elapsed < ElapsedCap THEN elapsed + 1 ELSE elapsed
  /\ UNCHANGED <<args, pc, lines, child, audioVars, result>>

Thread == \/ Reject \/ OpenFails \/ Open \/ OpenPort \/ AssertLine \/ PlayUnkeyed \/ Drop
          \/ Hold \/ HoldEnds \/ Spawn \/ PlayerGone \/ PlayerRuns \/ StartPlayback
          \/ Playing \/ PlaybackDone \/ AfterPlayback \/ TailEnds

Surroundings == \/ PlayerExits \/ (\E n \in 1 .. Callback : Fill(n)) \/ DevicePlays
                \/ ErrorFailed \/ ErrorDone

Returned == pc = "done" /\ UNCHANGED keyingVars

KeyingNext == Thread \/ Tick \/ Surroundings \/ Returned

\* The thread is scheduled and time passes.  Nothing obliges the player to
\* exit or the sound device to call back.
KeyingSpec == KeyingInit /\ [][KeyingNext]_keyingVars /\ WF_keyingVars(Thread) /\ WF_keyingVars(Tick)

-----------------------------------------------------------------------------
(* Properties                                                              *)

KeyedBy(l) == args.port /\ lines[l] # args.invert
HeldAt == {"lead", "hold", "wait", "play", "played", "tail", "drop"}

\* The radio is keyed only inside the guarded section, on the chosen line, and
\* in the instant in which a driver opened the port: never between open_port
\* and the assertion, and not after any way out, inverted lines included.
KeyedOnlyWhenHeld ==
  \A l \in LineNames :
    KeyedBy(l) => pc = "opened" \/ (pc \in HeldAt /\ l = args.signal)

\* No command line, player or device holds the line longer than --max (or
\* --lead, if that is longer), one poll and --tail.
KeyDownBounded == elapsed <= Longest

\* transmit reports success only if every sample of the file became sound
\* before the stream was dropped, when --drain covers the device's buffer;
\* an error of the device in between, or just before the end, is not missed.
WholeTransmission ==
  result = "ok" /\ args.cmd = "transmit" /\ args.drain >= DeviceBuffer
    => played >= Samples

\* A keyed line is released in the end, with the player hung or the audio
\* callbacks stalled.
EventuallyReleased == (pc \in HeldAt) ~> (pc = "done" /\ ~KeyedBy(args.signal))

\* The documentation of --max: a hard limit on total key-down time, and
\* exceeding it (by more than the poll that notices it) exits non-zero.
HardLimit ==
  pc = "done" /\ args.port /\ elapsed > args.max + Poll => result = "err"
=============================================================================
