------------------------------ MODULE MCCodecs ------------------------------
(***************************************************************************)
(* TLC instances of the codecs: APRS reports through the bridge of         *)
(* MCBridge, the line code, bit timing, FX.25, IL2P, M17 packets and the   *)
(* weak-signal messages.  A behaviour runs one of them; the others stay in *)
(* an initial state.                                                       *)
(***************************************************************************)
EXTENDS MCBridge, LineCode, Fx25, Il2p, M17, WeakSignal

CONSTANTS Codecs        \* the ones to run

VARIABLES running

\* A frame of one block, one of several, and one with a hop, which travels whole.
Station(call, ssid) == [call |-> Bytes(call), ssid |-> ssid]
ShortFrame == [dest |-> Station("APRS", 0), src |-> Station("N0CALL", 9), hops |-> <<>>, info |-> Bytes("!")]
LongFrame == [ShortFrame EXCEPT !.info = Bytes(">two blocks")]
HoppedFrame == [ShortFrame EXCEPT !.hops = <<[address |-> Station("WIDE1", 1), repeated |-> FALSE]>>]
MCUiFrames == {ShortFrame, LongFrame, HoppedFrame}

\* Payloads of one frame, two and three; the end of the second's CRC falls on a
\* frame of its own.
M17Station(call) == from_callsign(Bytes(call)).v
M17Message(call, size, first) ==
  [lsf     |-> packet_data(M17Station("N0CALL"), M17Station(call), 0),
   payload |-> Eager([i \in 1 .. size |-> (i * 7 + first) % 256])]
MCM17Talks ==
  LET one == M17Message("AB1CD", 2, 1)
      two == M17Message("W9XYZ", 24, 2)
      three == M17Message("AB1CD", 50, 3)
  IN  {<<one, two>>, <<two, one>>, <<two, three>>, <<three, two>>}

\* Callsigns of every alignment and some of none; the ends of every range.
WsprOf(call, grid, power) == [mode |-> "wspr", call |-> Bytes(call), grid |-> Bytes(grid), power |-> power]
StandardOf(call_a, call_b, r, tail) ==
  [mode |-> "standard", call_a |-> Bytes(call_a), call_b |-> Bytes(call_b), r |-> r, tail |-> tail]
WeakTails ==
  {[kind |-> word] : word \in {"none", "RRR", "RR73", "73"}}
    \cup {[kind |-> "grid", grid |-> Bytes(grid)] : grid \in {"FN42", "RR99", "FN42ab"}}
    \cup {[kind |-> "report", db |-> db] : db \in {-31, -30, -8, 0, 49, 50}}
MCWeakMessages ==
  {WsprOf(call, "FN42", 37) : call \in {"K1ABC", "KA1ABC", "ZZ9ZZZ", "k1", "K12", "K11AB", "3D2A", "57A", "0A0",
                                        "ABCDEF", "K1A1", "A1/P", "CQ", "123456", "A", "K1ABCD", "1A"}}
    \cup {WsprOf("K1ABC", grid, power) : grid \in {"AA00", "RR99"}, power \in {0, 1, 60, 63}}
    \cup {StandardOf("CQ", "K1ABC", FALSE, tail) : tail \in WeakTails}
    \cup {StandardOf("ZZ9ZZZ", "g4jnt", TRUE, tail) : tail \in WeakTails}
    \cup {StandardOf("QRZ", "DE", FALSE, [kind |-> "73"])}
    \cup {[mode |-> "free", text |-> Bytes(text)] :
           text \in {"", "CQ DX 73", "?????????????", " 73 TU  ", "hello WORLD", "14 characters.", "A*B"}}

Runs(name) == running = name
Idle(name) == running # name

CodecsInit ==
  /\ running \in Codecs
  /\ Runs("bridge") \/ (Idle("bridge") /\ dest = Bytes("APRS") /\ info = Bytes("hello"))
  /\ BridgeInit
  /\ \/ Runs("coding")
     \/ Idle("coding") /\ coder = [reg |-> [i \in 1 .. Stages |-> 0], level |-> 0]
                       /\ decoder = [reg |-> [i \in 1 .. Stages |-> 0], prev |-> 0]
  /\ CodingInit
  /\ TimingInit
  /\ Fx25Init
  /\ IF Runs("il2p") THEN Il2pInit
     ELSE il2p_sent = <<>> /\ il2p_air = <<>> /\ il2p_rx = il2p_reset /\ il2p_events = <<>>
  /\ Runs("m17") \/ (Idle("m17") /\ m17_talk = CHOOSE talk \in M17Talks : TRUE)
  /\ M17Init
  /\ Runs("weak") \/ (Idle("weak") /\ weak_sent = [mode |-> "free", text |-> <<>>])
  /\ WeakInit

BridgeRuns == Runs("bridge") /\ BridgeNext /\ UNCHANGED <<codingVars, timingVars, fxVars, il2pVars, m17Vars, weakVars>>
CodingRuns == Runs("coding") /\ CodingNext /\ UNCHANGED <<bridgeVars, fxVars, il2pVars, m17Vars, weakVars>>
TimingRuns == Runs("timing") /\ TimingNext /\ UNCHANGED <<bridgeVars, fxVars, il2pVars, m17Vars, weakVars>>
Fx25Runs == Runs("fx25") /\ Fx25Next /\ UNCHANGED <<bridgeVars, codingVars, timingVars, il2pVars, m17Vars, weakVars>>
Il2pRuns == Runs("il2p") /\ Il2pHear /\ UNCHANGED <<bridgeVars, codingVars, timingVars, fxVars, m17Vars, weakVars>>
M17Runs == Runs("m17") /\ M17Hear /\ UNCHANGED <<bridgeVars, codingVars, timingVars, fxVars, il2pVars, weakVars>>
WeakRuns == Runs("weak") /\ WeakSend /\ UNCHANGED <<bridgeVars, codingVars, timingVars, fxVars, il2pVars, m17Vars>>

CodecsNext ==
  /\ BridgeRuns \/ CodingRuns \/ TimingRuns \/ Fx25Runs \/ Il2pRuns \/ M17Runs \/ WeakRuns
  /\ UNCHANGED running

codecsVars == <<running, bridgeVars, codingVars, timingVars, fxVars, il2pVars, m17Vars, weakVars>>

CodecsSpec == CodecsInit /\ [][CodecsNext]_codecsVars
=============================================================================
