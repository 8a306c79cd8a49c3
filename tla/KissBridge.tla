----------------------------- MODULE KissBridge -----------------------------
(***************************************************************************)
(* src/src/bin/yodel/serve.rs: run_tcp, the multi-client KISS bridge.      *)
(*                                                                         *)
(*   audio in -> decode -> bc channel -> broadcaster -> every client       *)
(*   client   -> its reader -> audio channel -> main (TX loop) -> sink     *)
(*                                                                         *)
(* Decode, broadcaster, acceptor, one reader per admitted client and the   *)
(* caller's thread (main) run concurrently; they share the shutdown flag,  *)
(* the client list (a mutex, held for one action at a time), the sockets   *)
(* and two bounded channels.  Peers connect, send, take frames slowly or   *)
(* not at all and hang up as they like.  Counts stand for KISS frames and  *)
(* audio bursts; the frames received from the radio are numbered.  A       *)
(* poisoned mutex and a panicking thread are left out.                     *)
(***************************************************************************)
EXTENDS Integers, Sequences, FiniteSets

CONSTANTS Conns,           \* connections peers may open (their ids)
          MAX_CLIENTS,
          CHANNEL_DEPTH,
          MaxRx,           \* bound: frames the radio receives
          MaxTx            \* bound: frames the peers send that the modem accepts

ASSUME ConnsAssumption == IsFiniteSet(Conns)
ASSUME LimitsAssumption == /\ MAX_CLIENTS \in Nat /\ CHANNEL_DEPTH \in Nat \ {0}
                           /\ MaxRx \in Nat /\ MaxTx \in Nat

VARIABLES shutdown,        \* AtomicBool
          clients,         \* ids in the broadcast list
          bc,              \* broadcast channel: frame numbers
          audio,           \* audio channel: how many bursts are queued
          decode,          \* program counters ...
          caster,          \* ... of the broadcaster: [pc, frame, targets, failed]
          acceptor,        \* ... [pc, conn]
          reader,          \* ... id -> pc
          main,            \* ... [pc, ok]
          sock,            \* id -> "none" | "backlog" | "open" | "shut" | "refused"
          gone,            \* id -> its peer has hung up
          received,        \* id -> number of the latest frame the peer got
          rx_frames, tx_frames,
          written          \* bursts the sink took

tcpVars == <<shutdown, clients, bc, audio, decode, caster, acceptor, reader, main, sock,
             gone, received, rx_frames, tx_frames, written>>

decodeVars == <<bc, decode, rx_frames>>
sinkVars == <<main, written>>
netVars == <<sock, gone>>

TcpInit ==
  /\ shutdown = FALSE
  /\ clients = {}
  /\ bc = <<>>
  /\ audio = 0
  /\ decode = "run"
  /\ caster = [pc |-> "recv", frame |-> 0, targets |-> {}, failed |-> {}]
  /\ acceptor = [pc |-> "poll", conn |-> 0]
  /\ reader = [c \in Conns |-> "none"]
  /\ main = [pc |-> "tx", ok |-> TRUE]
  /\ sock = [c \in Conns |-> "none"]
  /\ gone = [c \in Conns |-> FALSE]
  /\ received = [c \in Conns |-> 0]
  /\ rx_frames = 0
  /\ tx_frames = 0
  /\ written = 0

-----------------------------------------------------------------------------
(* Decode thread                                                           *)

\* A sample completes a frame.
DecodeFrame ==
  /\ decode = "run" /\ ~shutdown /\ rx_frames < MaxRx
  /\ rx_frames' = rx_frames + 1
  /\ decode' = "send"
  /\ UNCHANGED <<shutdown, clients, bc, audio, caster, acceptor, reader, sinkVars,
                 netVars, received, tx_frames>>

\* bc_tx.send blocks while the channel is full.
DecodeSend ==
  /\ decode = "send" /\ Len(bc) < CHANNEL_DEPTH
  /\ bc' = Append(bc, rx_frames)
  /\ decode' = "run"
  /\ UNCHANGED <<shutdown, clients, audio, caster, acceptor, reader, sinkVars,
                 netVars, received, rx_frames, tx_frames>>

\* The audio input ends, or fails.
DecodeEof ==
  /\ decode = "run"
  /\ decode' = "store"
  /\ UNCHANGED <<shutdown, clients, bc, audio, caster, acceptor, reader, sinkVars,
                 netVars, received, rx_frames, tx_frames>>

\* Mutant: the flag is not polled between samples.
DecodeNeverStops ==
  /\ decode = "run" /\ shutdown /\ rx_frames > MaxRx
  /\ decode' = "store"
  /\ UNCHANGED <<shutdown, clients, bc, audio, caster, acceptor, reader, sinkVars,
                 netVars, received, rx_frames, tx_frames>>

\* The next sample finds the flag raised by the TX loop; it is read only once
\* rx_audio.next() has returned.
DecodeStop ==
  /\ decode = "run" /\ shutdown
  /\ decode' = "store"
  /\ UNCHANGED <<shutdown, clients, bc, audio, caster, acceptor, reader, sinkVars,
                 netVars, received, rx_frames, tx_frames>>

DecodeStore ==
  /\ decode = "store"
  /\ shutdown' = TRUE
  /\ decode' = "sweep"
  /\ UNCHANGED <<clients, bc, audio, caster, acceptor, reader, sinkVars, netVars,
                 received, rx_frames, tx_frames>>

\* Every socket in the list is shut down; ending the thread drops bc_tx.
DecodeSweep ==
  /\ decode = "sweep"
  /\ sock' = [c \in Conns |-> IF c \in clients THEN "shut" ELSE sock[c]]
  /\ decode' = "done"
  /\ UNCHANGED <<shutdown, clients, bc, audio, caster, acceptor, reader, sinkVars,
                 gone, received, rx_frames, tx_frames>>

-----------------------------------------------------------------------------
(* Broadcast thread                                                        *)

\* Takes the next frame and a snapshot of the list, under the lock.
CasterRecv ==
  /\ caster.pc = "recv" /\ bc # <<>>
  /\ caster' = [pc |-> "write", frame |-> Head(bc), targets |-> clients, failed |-> {}]
  /\ bc' = Tail(bc)
  /\ UNCHANGED <<shutdown, clients, audio, decode, acceptor, reader, sinkVars, netVars,
                 received, rx_frames, tx_frames>>

\* write_all to one client of the snapshot, outside the lock.  A peer that
\* reads slowly may or may not take the frame before the write times out.
CasterWrite(c) ==
  /\ caster.pc = "write" /\ c \in caster.targets
  /\ \/ /\ sock[c] = "open" /\ ~gone[c]
        /\ received' = [received EXCEPT ![c] = caster.frame]
        /\ caster' = [caster EXCEPT !.targets = @ \ {c}]
     \/ /\ caster' = [caster EXCEPT !.targets = @ \ {c}, !.failed = @ \cup {c}]
        /\ UNCHANGED received
  /\ UNCHANGED <<shutdown, clients, bc, audio, decode, acceptor, reader, sinkVars,
                 netVars, rx_frames, tx_frames>>

\* Mutant: a client whose write failed stays in the list.
CasterKeepsFailed ==
  /\ caster.pc = "write" /\ caster.targets = {}
  /\ caster' = [caster EXCEPT !.pc = "recv", !.failed = {}]
  /\ UNCHANGED <<shutdown, clients, bc, audio, decode, acceptor, reader, sinkVars, netVars,
                 received, rx_frames, tx_frames>>

\* The failed clients leave the list; their sockets stay as they are.
CasterRetain ==
  /\ caster.pc = "write" /\ caster.targets = {}
  /\ clients' = clients \ caster.failed
  /\ caster' = [caster EXCEPT !.pc = "recv", !.failed = {}]
  /\ UNCHANGED <<shutdown, bc, audio, decode, acceptor, reader, sinkVars, netVars,
                 received, rx_frames, tx_frames>>

\* The channel is empty and closed.
CasterEnd ==
  /\ caster.pc = "recv" /\ bc = <<>> /\ decode = "done"
  /\ caster' = [caster EXCEPT !.pc = "done"]
  /\ UNCHANGED <<shutdown, clients, bc, audio, decode, acceptor, reader, sinkVars,
                 netVars, received, rx_frames, tx_frames>>

-----------------------------------------------------------------------------
(* Accept thread                                                           *)

AcceptorGoes(pc, c) ==
  /\ acceptor' = [pc |-> pc, conn |-> c]
  /\ UNCHANGED <<shutdown, bc, audio, decode, caster, sinkVars, gone, received,
                 rx_frames, tx_frames>>

\* The flag is read, then, in a separate step, the listener (which does not
\* block: an empty backlog sleeps and polls again; an error ends the loop).
AcceptorPoll ==
  /\ acceptor.pc = "poll"
  /\ AcceptorGoes(IF shutdown THEN "join" ELSE "accept", 0)
  /\ UNCHANGED <<clients, reader, sock>>

AcceptorAccept ==
  /\ acceptor.pc = "accept"
  /\ \/ \E c \in Conns : sock[c] = "backlog" /\ AcceptorGoes("admit", c)
     \/ (\A c \in Conns : sock[c] # "backlog") /\ AcceptorGoes("poll", 0)
  /\ UNCHANGED <<clients, reader, sock>>

AcceptorFails ==
  /\ acceptor.pc = "accept"
  /\ AcceptorGoes("join", 0)
  /\ UNCHANGED <<clients, reader, sock>>

\* Under the lock: admitted if the list has room.  Its reader thread is then
\* spawned; nothing tells a reader not yet spawned from one not yet scheduled.
AcceptorAdmit ==
  /\ acceptor.pc = "admit" /\ Cardinality(clients) < MAX_CLIENTS
  /\ clients' = clients \cup {acceptor.conn}
  /\ sock' = [sock EXCEPT ![acceptor.conn] = "open"]
  /\ reader' = [reader EXCEPT ![acceptor.conn] = "read"]
  /\ AcceptorGoes("poll", 0)

\* Over the cap, or the socket cannot be cloned: the connection is closed.
AcceptorRefuse ==
  /\ acceptor.pc = "admit"
  /\ sock' = [sock EXCEPT ![acceptor.conn] = "refused"]
  /\ AcceptorGoes("poll", 0)
  /\ UNCHANGED <<clients, reader>>

ReadersDone == \A c \in Conns : reader[c] \in {"none", "done"}

\* Ending the thread drops its sender of the audio channel.
AcceptorJoin ==
  /\ acceptor.pc = "join" /\ ReadersDone
  /\ AcceptorGoes("done", 0)
  /\ UNCHANGED <<clients, reader, sock>>

-----------------------------------------------------------------------------
(* Reader threads                                                          *)

\* Mutant: a frame is counted even if the modem then rejects it.
ReaderCountsRejected(c) ==
  /\ reader[c] = "read" /\ tx_frames < MaxTx
  /\ tx_frames' = tx_frames + 1
  /\ reader' = [reader EXCEPT ![c] = "send"] \/ UNCHANGED reader
  /\ UNCHANGED <<shutdown, clients, decodeVars, audio, caster, acceptor, sinkVars,
                 netVars, received>>

\* A frame its peer sent is read and counted; one the modem rejects is dropped
\* and changes nothing.  Bytes received before a shutdown can still be read.
ReaderRead(c) ==
  /\ reader[c] = "read" /\ tx_frames < MaxTx
  /\ tx_frames' = tx_frames + 1
  /\ reader' = [reader EXCEPT ![c] = "send"]
  /\ UNCHANGED <<shutdown, clients, decodeVars, audio, caster, acceptor, sinkVars,
                 netVars, received>>

\* audio_tx.send blocks while the channel is full.
ReaderSend(c) ==
  /\ reader[c] = "send" /\ audio < CHANNEL_DEPTH
  /\ audio' = audio + 1
  /\ reader' = [reader EXCEPT ![c] = "read"]
  /\ UNCHANGED <<shutdown, clients, decodeVars, caster, acceptor, sinkVars, netVars,
                 received, tx_frames>>

\* EOF, an error, or the socket was shut down (unread bytes may be lost).
ReaderEof(c) ==
  /\ reader[c] = "read"
  /\ sock[c] = "shut" \/ gone[c]
  /\ reader' = [reader EXCEPT ![c] = "retire"]
  /\ UNCHANGED <<shutdown, clients, decodeVars, audio, caster, acceptor, sinkVars,
                 netVars, received, tx_frames>>

\* The reader takes its own id off the list and ends.
ReaderRetire(c) ==
  /\ reader[c] = "retire"
  /\ clients' = clients \ {c}
  /\ reader' = [reader EXCEPT ![c] = "done"]
  /\ UNCHANGED <<shutdown, decodeVars, audio, caster, acceptor, sinkVars, netVars,
                 received, tx_frames>>

-----------------------------------------------------------------------------
(* The caller's thread                                                     *)

MainKeeps == UNCHANGED <<clients, decodeVars, caster, acceptor, reader, netVars, received,
                         tx_frames>>
SendersGone == acceptor.pc = "done" /\ ReadersDone

\* The TX loop writes a burst; a sink error raises the flag and ends the loop.
MainWrite ==
  /\ main.pc = "tx" /\ audio > 0
  /\ audio' = audio - 1
  /\ \/ written' = written + 1 /\ UNCHANGED <<main, shutdown>>
     \/ main' = [pc |-> "joinDecode", ok |-> FALSE] /\ shutdown' = TRUE /\ UNCHANGED written
  /\ MainKeeps

MainTxEnd ==
  /\ main.pc = "tx" /\ audio = 0 /\ SendersGone
  /\ main' = [main EXCEPT !.pc = "joinDecode"]
  /\ UNCHANGED <<shutdown, audio, written>> /\ MainKeeps

MainJoinDecode ==
  /\ main.pc = "joinDecode" /\ decode = "done"
  /\ main' = [main EXCEPT !.pc = "drain"]
  /\ UNCHANGED <<shutdown, audio, written>> /\ MainKeeps

\* Bursts that raced the shutdown: written, or discarded after an error.
MainDrain ==
  /\ main.pc = "drain" /\ audio > 0
  /\ audio' = audio - 1
  /\ \/ main.ok /\ written' = written + 1 /\ UNCHANGED main
     \/ main' = [main EXCEPT !.ok = FALSE] /\ UNCHANGED written
  /\ UNCHANGED shutdown /\ MainKeeps

MainDrainEnd ==
  /\ main.pc = "drain" /\ audio = 0 /\ SendersGone
  /\ main' = [main EXCEPT !.pc = "join"]
  /\ UNCHANGED <<shutdown, audio, written>> /\ MainKeeps

\* Acceptor and broadcaster are joined; the sink is finished, or fails to.
MainReturn ==
  /\ main.pc = "join" /\ acceptor.pc = "done" /\ caster.pc = "done"
  /\ \E ok \in BOOLEAN : main' = [pc |-> "done", ok |-> main.ok /\ ok]
  /\ UNCHANGED <<shutdown, audio, written>> /\ MainKeeps

-----------------------------------------------------------------------------
(* Peers                                                                   *)

PeersKeep == UNCHANGED <<shutdown, clients, decodeVars, audio, caster, acceptor, reader,
                         sinkVars, received, tx_frames>>

Connect(c) ==
  /\ sock[c] = "none" /\ main.pc # "done"
  /\ sock' = [sock EXCEPT ![c] = "backlog"]
  /\ UNCHANGED gone /\ PeersKeep

HangUp(c) ==
  /\ sock[c] \in {"backlog", "open", "shut"} /\ ~gone[c]
  /\ gone' = [gone EXCEPT ![c] = TRUE]
  /\ UNCHANGED sock /\ PeersKeep

-----------------------------------------------------------------------------
Decode == DecodeSend \/ DecodeStore \/ DecodeSweep
Caster == CasterRecv \/ (\E c \in Conns : CasterWrite(c)) \/ CasterRetain \/ CasterEnd
Acceptor == \/ AcceptorPoll \/ AcceptorAccept \/ AcceptorFails \/ AcceptorAdmit
            \/ AcceptorRefuse \/ AcceptorJoin
Reader(c) == ReaderSend(c) \/ ReaderEof(c) \/ ReaderRetire(c)
Main == MainTxEnd \/ MainJoinDecode \/ MainDrainEnd
Sink == MainWrite \/ MainDrain \/ MainReturn
AudioInput == DecodeFrame \/ DecodeEof \/ DecodeStop
Peer(c) == ReaderRead(c) \/ Connect(c) \/ HangUp(c)

Terminated == main.pc = "done" /\ UNCHANGED tcpVars

TcpNext == \/ AudioInput \/ Decode \/ Caster \/ Acceptor \/ Main \/ Sink
           \/ \E c \in Conns : Reader(c) \/ Peer(c)
           \/ Terminated

\* The operating system runs every thread that can run; a socket write ends by
\* WRITE_TIMEOUT.  Nothing makes the audio input deliver another sample or end,
\* the audio output take a burst, or a peer act.
Fairness == /\ WF_tcpVars(Decode) /\ WF_tcpVars(Caster) /\ WF_tcpVars(Acceptor) /\ WF_tcpVars(Main)
            /\ \A c \in Conns : WF_tcpVars(Reader(c))

TcpSpec == TcpInit /\ [][TcpNext]_tcpVars /\ Fairness

\* What the surroundings may do: the audio output takes or refuses every burst;
\* every peer hangs up sooner or later; the audio input never falls silent for
\* good while it is open.
SinkTakes == WF_tcpVars(Sink)
PeersLeave == \A c \in Conns : WF_tcpVars(HangUp(c))
AudioYields == WF_tcpVars(DecodeStop)

SpecSinkTakes == TcpSpec /\ SinkTakes
SpecPeersLeave == SpecSinkTakes /\ PeersLeave
SpecAudioYields == SpecPeersLeave /\ AudioYields

-----------------------------------------------------------------------------
(* Properties                                                              *)

\* Types; the list respects its cap and names open connections only, and the
\* channels their depth.
TcpTypeOK ==
  /\ Cardinality(clients) <= MAX_CLIENTS
  /\ \A c \in clients : sock[c] \in {"open", "shut"}
  /\ Len(bc) <= CHANNEL_DEPTH /\ audio \in 0 .. CHANNEL_DEPTH
  /\ written <= tx_frames

\* Every burst counted for a client has reached the sink when run_tcp returns
\* without an error, whatever raced the shutdown.
BurstsAccounted == main.pc = "done" /\ main.ok => written = tx_frames

\* What a peer receives is an unbroken run of the frames broadcast: one that
\* stalls and recovers never finds a frame missing in the middle.
NoGap ==
  [][ \A c \in Conns : received[c] # 0 /\ received'[c] # received[c]
                         => received'[c] = received[c] + 1 ]_tcpVars

Returned == main.pc = "done"

\* After the audio ends or the sink fails, run_tcp returns: no thread waits for
\* ever on a channel, a lock, a socket or another thread, with the channels full
\* and clients being admitted.  Under SpecAudioYields: it needs the audio input
\* to go on or end, the audio output to take bursts and every peer to hang up.
EventuallyReturns == shutdown ~> Returned

\* The documentation's graceful shutdown: audio EOF closes every client
\* socket, joins the threads and returns, without help from the peers.
GracefulShutdown == (decode = "store" /\ ~shutdown) ~> Returned

\* The poll's comment: once the TX loop has failed, run_tcp ends although the
\* audio input, a sound card or a pipe, never does.
SinkFailureReturns == (main.pc = "joinDecode" /\ ~main.ok) ~> Returned
=============================================================================
