----------------------------- MODULE MCPrograms -----------------------------
(***************************************************************************)
(* TLC instances of the programs that run side by side with devices and    *)
(* servers: the sample ring, the two keying commands, the APRS-IS capture, *)
(* the decoding tasks of the Tokio tier, and its KISS server.  A behaviour *)
(* runs one of them; the others stay in an initial state.                  *)
(***************************************************************************)
EXTENDS SampleRing, MCKeying, Capture, ServeKiss

CONSTANTS Programs       \* the ones to run

VARIABLES program

AnyCommand == CHOOSE a \in Commands : TRUE
NoBound == [seconds |-> 0, count |-> 0, keep_comments |-> FALSE, no_reconnect |-> FALSE, out |-> "pipe"]

\* Two feeds for decode_many, one of them with an odd byte and one of them
\* failing; one feed with two frames for the server.
Feed(bytes, end) == [bytes |-> bytes, end |-> end]
TwoFeeds == {<<Feed(5, "eof"), Feed(4, "error")>>, <<Feed(5, "error"), Feed(4, "eof")>>}
OneFeed == {<<Feed(8, "eof"), Feed(0, "eof")>>}

MCInit ==
  /\ program \in Programs
  /\ Init
  /\ program = "keying" \/ (program # "keying" /\ args = AnyCommand)
  /\ KeyingInit
  /\ program = "capture" \/ (program # "capture" /\ opts = NoBound)
  /\ CaptureInit
  /\ IF program = "decode_many" THEN source \in TwoFeeds ELSE source \in OneFeed
  /\ ServeInit

RingRuns == program = "ring" /\ Next /\ UNCHANGED <<keyingVars, captureVars, serveVars>>
KeyingRuns == program = "keying" /\ KeyingNext /\ UNCHANGED <<vars, captureVars, serveVars>>
CaptureRuns == program = "capture" /\ CaptureNext /\ UNCHANGED <<vars, keyingVars, serveVars>>
DecodeManyRuns ==
  program = "decode_many" /\ FeedsNext /\ UNCHANGED <<vars, keyingVars, captureVars, taskVars>>
ServeRuns == program = "serve_kiss" /\ ServeNext /\ UNCHANGED <<vars, keyingVars, captureVars>>

MCNext ==
  /\ RingRuns \/ KeyingRuns \/ CaptureRuns \/ DecodeManyRuns \/ ServeRuns
  /\ UNCHANGED program

mcVars == <<program, vars, keyingVars, captureVars, serveVars>>

\* Each program's fairness, while it runs.
MCFairness ==
  /\ WF_keyingVars(program = "keying" /\ Thread) /\ WF_keyingVars(program = "keying" /\ Tick)
  /\ WF_captureVars(program = "capture" /\ Client)
  /\ \A f \in Feeds :
       /\ WF_feedVars(program = "decode_many" /\ TaskStep(f))
       /\ WF_feedVars(program = "decode_many" /\ WorkerStep(f))
       /\ WF_serveVars(program = "serve_kiss" /\ (TaskStep(f) \/ WorkerStep(f)) /\ UNCHANGED taskVars)
  /\ WF_feedVars(program = "decode_many" /\ Consume)
  /\ WF_serveVars(program = "serve_kiss" /\ Serve)
  /\ \A c \in Clients : WF_serveVars(program = "serve_kiss" /\ ClientReads(c))

MCSpec == MCInit /\ [][MCNext]_mcVars /\ MCFairness
=============================================================================
