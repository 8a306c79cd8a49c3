------------------------------- MODULE MCTnc -------------------------------
(***************************************************************************)
(* TLC instances of the TNC's two sides: KISS framing on a serial line,    *)
(* the KISS TCP bridge with its threads, and the receiver bank.  A         *)
(* behaviour runs one of them; the others stay in an initial state.        *)
(***************************************************************************)
EXTENDS Kiss, KissBridge, TncReceiver

CONSTANTS Parts          \* the ones to run

VARIABLES part

\* Payloads that hold every special byte; port 12 makes the Data command byte
\* FEND itself, and a deframer of two bytes is too small for the longest.
MCPayloads == {<<>>, <<1>>, <<FEND>>, <<FESC>>, <<TFEND>>, <<FESC, TFESC>>}
MCNoiseBytes == {FEND, FESC, TFEND, 7}

\* Three chains, the middle one primary; frames f and g parse, x does not and
\* has the key of g.
MCKey == [f |-> <<"crc1", "len">>, g |-> <<"crc2", "len">>, x |-> <<"crc2", "len">>]

AnyFrame == [command |-> "Data", port |-> 0, payload |-> <<>>]

MCInit ==
  /\ part \in Parts
  /\ part = "kiss" \/ (part # "kiss" /\ frame = AnyFrame)
  /\ Init
  /\ TcpInit
  /\ part = "bank" \/ (part # "bank" /\ scheme = "baseband" /\ voting = FALSE)
  /\ BankInit

KissRuns == part = "kiss" /\ Next /\ UNCHANGED <<tcpVars, bankVars>>
TcpRuns == part = "tcp" /\ TcpNext /\ UNCHANGED <<vars, bankVars>>
BankRuns == part = "bank" /\ BankNext /\ UNCHANGED <<vars, tcpVars>>

\* All frames are sent and the line is quiet.
KissStops == /\ part = "kiss" /\ enc = Done /\ sent = MaxFrames /\ noise = MaxNoise
             /\ UNCHANGED <<vars, tcpVars, bankVars>>

MCNext == (KissRuns \/ TcpRuns \/ BankRuns \/ KissStops) /\ UNCHANGED part

mcVars == <<part, vars, tcpVars, bankVars>>

\* SpecAudioYields, while the bridge runs.
MCFairness ==
  /\ WF_tcpVars(part = "tcp" /\ Decode) /\ WF_tcpVars(part = "tcp" /\ Caster)
  /\ WF_tcpVars(part = "tcp" /\ Acceptor) /\ WF_tcpVars(part = "tcp" /\ Main)
  /\ WF_tcpVars(part = "tcp" /\ Sink) /\ WF_tcpVars(part = "tcp" /\ DecodeStop)
  /\ \A c \in Conns : /\ WF_tcpVars(part = "tcp" /\ Reader(c))
                      /\ WF_tcpVars(part = "tcp" /\ HangUp(c))

MCSpec == MCInit /\ [][MCNext]_mcVars /\ MCFairness
=============================================================================
