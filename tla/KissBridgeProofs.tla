-------------------------- MODULE KissBridgeProofs --------------------------
(***************************************************************************)
(* Proofs about KissBridge for every set of connections, client cap,       *)
(* channel depth and traffic.                                              *)
(***************************************************************************)
EXTENDS KissBridge, FiniteSetTheorems, SequenceTheorems, TLAPS

USE LimitsAssumption, ConnsAssumption

-----------------------------------------------------------------------------
(* The invariants                                                          *)

CasterStates == [pc : {"recv", "write", "done"}, frame : Nat, targets : SUBSET Conns,
                 failed : SUBSET Conns]
MainStates == [pc : {"tx", "joinDecode", "drain", "join", "done"}, ok : BOOLEAN]

Types ==
  /\ shutdown \in BOOLEAN
  /\ clients \in SUBSET Conns
  /\ bc \in Seq(Nat) /\ Len(bc) <= CHANNEL_DEPTH
  /\ audio \in 0 .. CHANNEL_DEPTH
  /\ decode \in {"run", "send", "store", "sweep", "done"}
  /\ caster \in CasterStates
  /\ acceptor \in [pc : {"poll", "accept", "admit", "join", "done"}, conn : Conns \cup {0}]
  /\ reader \in [Conns -> {"none", "read", "send", "retire", "done"}]
  /\ main \in MainStates
  /\ sock \in [Conns -> {"none", "backlog", "open", "shut", "refused"}]
  /\ gone \in [Conns -> BOOLEAN]
  /\ received \in [Conns -> Nat]
  /\ rx_frames \in Nat /\ tx_frames \in Nat /\ written \in Nat

\* A connection not yet admitted has no reader and is in no list, and the one
\* being admitted is such a connection; the list respects its cap.
Admission ==
  /\ acceptor.pc = "admit" => acceptor.conn \in Conns /\ sock[acceptor.conn] = "backlog"
  /\ \A c \in Conns : sock[c] \in {"none", "backlog", "refused"} =>
       /\ reader[c] = "none" /\ c \notin clients /\ c \notin caster.targets
       /\ received[c] = 0
  /\ Cardinality(clients) <= MAX_CLIENTS

\* Readers that hold a counted burst the channel had no room for yet.
Senders == {c \in Conns : reader[c] = "send"}
InFlight == written + audio + Cardinality(Senders)

\* No write to the sink has failed.
SinkFine == main.ok

\* A burst counted is written, queued or held by its reader until the sink
\* fails, and past the drain nothing is queued and nobody is left to queue.
Accounts ==
  /\ InFlight <= tx_frames
  /\ SinkFine => tx_frames = InFlight
  /\ main.pc = "tx" => SinkFine
  /\ main.pc \in {"join", "done"} => audio = 0 /\ SendersGone

\* The channel holds the frames after the one being broadcast, in order.  A
\* client on the list is a frame behind until it is written to, and level
\* after that; one whose write failed is behind for good, but leaves the list.
Level(c, frame) == received[c] \in {0, frame}
Order ==
  /\ \A i \in 1 .. Len(bc) : bc[i] = caster.frame + i
  /\ rx_frames = caster.frame + Len(bc) + (IF decode = "send" THEN 1 ELSE 0)
  /\ caster.pc = "recv" => \A c \in clients : Level(c, caster.frame)
  /\ caster.pc = "write" =>
       /\ \A c \in caster.targets : Level(c, caster.frame - 1)
       /\ \A c \in clients \ (caster.targets \cup caster.failed) : Level(c, caster.frame)

BridgeInv == Types /\ Admission /\ Accounts /\ Order
-----------------------------------------------------------------------------
(* Facts about the state                                                   *)

\* Lists of clients and sets of readers are finite, so they can be counted.
LEMMA FiniteParts ==
  ASSUME NEW S \in SUBSET Conns
  PROVE  IsFiniteSet(S) /\ Cardinality(S) \in Nat
BY FS_Subset, FS_CardinalityType

\* A list that only loses clients stays within the cap.
LEMMA CountSmaller ==
  ASSUME NEW S \in SUBSET Conns, NEW T \in SUBSET S, Cardinality(S) <= MAX_CLIENTS
  PROVE  Cardinality(T) <= MAX_CLIENTS
<1>1. Cardinality(T) <= Cardinality(S)
  BY FiniteParts, FS_Subset
<1>2. Cardinality(S) \in Nat /\ Cardinality(T) \in Nat
  BY FiniteParts
<1> QED
  BY <1>1, <1>2

\* The fields of the broadcaster.
LEMMA CasterFields ==
  ASSUME NEW b \in CasterStates
  PROVE  /\ b.pc \in {"recv", "write", "done"} /\ b.frame \in Nat
         /\ b.targets \in SUBSET Conns /\ b.failed \in SUBSET Conns
BY DEF CasterStates

\* The fields of the caller's thread.
LEMMA MainFields ==
  ASSUME NEW m \in MainStates
  PROVE  m.pc \in {"tx", "joinDecode", "drain", "join", "done"} /\ m.ok \in BOOLEAN
BY DEF MainStates

\* The readers that hold a burst can be counted.
LEMMA CountSenders == IsFiniteSet(Senders) /\ Cardinality(Senders) \in Nat
BY FiniteParts DEF Senders

\* Taking the first of a run of frames leaves the run that follows it.
LEMMA NextFrames ==
  ASSUME NEW q \in Seq(Nat), NEW f \in Nat, q # <<>>, \A i \in 1 .. Len(q) : q[i] = f + i
  PROVE  /\ Head(q) = f + 1 /\ Len(Tail(q)) = Len(q) - 1
         /\ \A i \in 1 .. Len(Tail(q)) : Tail(q)[i] = Head(q) + i
<1>1. Head(q) = f + 1 /\ Len(Tail(q)) = Len(q) - 1
  OBVIOUS
<1>2. ASSUME NEW i \in 1 .. Len(Tail(q)) PROVE Tail(q)[i] = Head(q) + i
  <2>1. Tail(q)[i] = q[i + 1] /\ i + 1 \in 1 .. Len(q)
    BY <1>1
  <2> QED
    BY <1>1, <2>1
<1> QED
  BY <1>1, <1>2

\* What broadcasting to one client changes: it is a frame further, or failed.
LEMMA WriteEffects ==
  ASSUME NEW c \in Conns, caster \in CasterStates, CasterWrite(c)
  PROVE  /\ caster.pc = "write" /\ c \in caster.targets /\ caster.frame \in Nat
         /\ caster' \in CasterStates
         /\ caster'.pc = "write" /\ caster'.frame = caster.frame
         /\ caster'.targets = caster.targets \ {c}
         /\ \/ /\ sock[c] = "open"
               /\ received' = [received EXCEPT ![c] = caster.frame]
               /\ caster'.failed = caster.failed
            \/ /\ caster'.failed = caster.failed \cup {c} /\ received' = received
         /\ UNCHANGED <<shutdown, clients, bc, audio, decode, acceptor, reader, main, written,
                        sock, gone, rx_frames, tx_frames>>
<1>1. caster.pc = "write" /\ c \in caster.targets
  BY DEF CasterWrite
<1>2. UNCHANGED <<shutdown, clients, bc, audio, decode, acceptor, reader, main, written,
                  sock, gone, rx_frames, tx_frames>>
  BY DEF CasterWrite, sinkVars, netVars
<1>3. /\ caster.frame \in Nat /\ caster.targets \in SUBSET Conns /\ caster.failed \in SUBSET Conns
      /\ caster = [pc |-> caster.pc, frame |-> caster.frame, targets |-> caster.targets,
                   failed |-> caster.failed]
  BY DEF CasterStates
<1>4. CASE /\ sock[c] = "open" /\ received' = [received EXCEPT ![c] = caster.frame]
           /\ caster' = [caster EXCEPT !.targets = @ \ {c}]
  <2>1. caster' = [pc |-> caster.pc, frame |-> caster.frame, targets |-> caster.targets \ {c},
                   failed |-> caster.failed]
    BY <1>3, <1>4
  <2>2. caster' \in CasterStates
    BY <1>1, <1>3, <2>1 DEF CasterStates
  <2> QED
    BY <1>1, <1>2, <1>3, <1>4, <2>1, <2>2
<1>5. CASE /\ caster' = [caster EXCEPT !.targets = @ \ {c}, !.failed = @ \cup {c}]
           /\ received' = received
  <2>1. caster' = [pc |-> caster.pc, frame |-> caster.frame, targets |-> caster.targets \ {c},
                   failed |-> caster.failed \cup {c}]
    BY <1>3, <1>5
  <2>2. caster' \in CasterStates
    BY <1>1, <1>3, <2>1 DEF CasterStates
  <2> QED
    BY <1>1, <1>2, <1>3, <1>5, <2>1, <2>2
<1> QED
  BY <1>4, <1>5 DEF CasterWrite

\* What draining one burst changes: it is written if the sink is fine.
LEMMA DrainEffects ==
  ASSUME main \in MainStates, audio \in Nat, MainDrain
  PROVE  /\ main.pc = "drain" /\ audio > 0 /\ audio' = audio - 1
         /\ main' \in MainStates /\ main'.pc = "drain"
         /\ SinkFine' => SinkFine /\ written' = written + 1
         /\ written' \in {written, written + 1}
         /\ UNCHANGED <<shutdown, clients, bc, decode, rx_frames, caster, acceptor, reader,
                        sock, gone, received, tx_frames>>
BY DEF MainStates, MainDrain, MainKeeps, decodeVars, netVars, SinkFine

\* What the TX loop's turn changes: one burst less, and written or the loop ends.
LEMMA BurstEffects ==
  ASSUME main \in MainStates, audio \in Nat, shutdown \in BOOLEAN, MainWrite
  PROVE  /\ main.pc = "tx" /\ audio > 0 /\ audio' = audio - 1
         /\ main' \in MainStates /\ main'.pc \in {"tx", "joinDecode"}
         /\ main'.pc = "tx" /\ SinkFine => SinkFine'
         /\ SinkFine' => SinkFine /\ written' = written + 1
         /\ written' \in {written, written + 1}
         /\ shutdown' \in BOOLEAN
         /\ UNCHANGED <<clients, bc, decode, rx_frames, caster, acceptor, reader,
                        sock, gone, received, tx_frames>>
<1>1. CASE written' = written + 1 /\ UNCHANGED <<main, shutdown>>
  BY <1>1 DEF MainStates, MainWrite, MainKeeps, decodeVars, netVars, SinkFine
<1>2. CASE /\ main' = [pc |-> "joinDecode", ok |-> FALSE]
           /\ shutdown' = TRUE /\ UNCHANGED written
  BY <1>2 DEF MainStates, MainWrite, MainKeeps, decodeVars, netVars, SinkFine
<1> QED
  BY <1>1, <1>2 DEF MainWrite

\* The bridge starts with no client, empty channels and every counter at zero.
LEMMA InitInv == TcpInit => BridgeInv
<1> SUFFICES ASSUME TcpInit PROVE BridgeInv
  OBVIOUS
<1>1. Types
  <2>1. caster \in CasterStates
    BY DEF TcpInit, CasterStates
  <2>2. main \in MainStates
    BY DEF TcpInit, MainStates
  <2>3. bc \in Seq(Nat) /\ Len(bc) = 0
    BY DEF TcpInit
  <2>4. acceptor \in [pc : {"poll", "accept", "admit", "join", "done"}, conn : Conns \cup {0}]
    BY DEF TcpInit
  <2>5. gone \in [Conns -> BOOLEAN] /\ received \in [Conns -> Nat]
    BY DEF TcpInit
  <2>6. /\ reader \in [Conns -> {"none", "read", "send", "retire", "done"}]
        /\ sock \in [Conns -> {"none", "backlog", "open", "shut", "refused"}]
    BY DEF TcpInit
  <2>7. /\ shutdown \in BOOLEAN /\ clients \in SUBSET Conns
        /\ decode \in {"run", "send", "store", "sweep", "done"}
    BY DEF TcpInit
  <2>8. /\ audio \in 0 .. CHANNEL_DEPTH /\ Len(bc) <= CHANNEL_DEPTH
        /\ rx_frames \in Nat /\ tx_frames \in Nat /\ written \in Nat
    BY <2>3 DEF TcpInit
  <2> QED
    BY <2>1, <2>2, <2>3, <2>4, <2>5, <2>6, <2>7, <2>8 DEF Types
<1>2. Admission
  BY FS_EmptySet DEF TcpInit, Admission
<1>3. Senders = {}
  BY DEF TcpInit, Senders
<1>4. Accounts
  BY <1>3, FS_EmptySet DEF TcpInit, Accounts, InFlight, SinkFine
<1>5. Order
  BY DEF TcpInit, Order, Level
<1> QED
  BY <1>1, <1>2, <1>4, <1>5 DEF BridgeInv

-----------------------------------------------------------------------------
(* They hold in every state                                                *)

\* Every step of every thread and peer keeps the types.
LEMMA TypesStep == BridgeInv /\ [TcpNext]_tcpVars => Types'
<1> SUFFICES ASSUME BridgeInv, [TcpNext]_tcpVars PROVE Types'
  OBVIOUS
<1> USE DEF BridgeInv, Types, decodeVars, sinkVars, netVars
<1>1. CASE DecodeFrame
  BY <1>1 DEF DecodeFrame
<1>2. CASE DecodeSend
  BY <1>2 DEF DecodeSend
<1>3. CASE DecodeEof
  BY <1>3 DEF DecodeEof
<1>4. CASE DecodeStop
  BY <1>4 DEF DecodeStop
<1>5. CASE DecodeStore
  BY <1>5 DEF DecodeStore
<1>6. CASE DecodeSweep
  BY <1>6 DEF DecodeSweep
<1>7. CASE CasterRecv
  BY <1>7 DEF CasterRecv, CasterStates
<1>8. ASSUME NEW c \in Conns, CasterWrite(c) PROVE Types'
  BY <1>8, WriteEffects
<1>9. CASE CasterRetain
  BY <1>9 DEF CasterRetain, CasterStates
<1>10. CASE CasterEnd
  BY <1>10 DEF CasterEnd, CasterStates
<1>11. CASE AcceptorPoll
  BY <1>11 DEF AcceptorPoll, AcceptorGoes
<1>12. CASE AcceptorAccept
  BY <1>12 DEF AcceptorAccept, AcceptorGoes
<1>13. CASE AcceptorFails
  BY <1>13 DEF AcceptorFails, AcceptorGoes
<1>14. CASE AcceptorAdmit
  BY <1>14 DEF AcceptorAdmit, AcceptorGoes, Admission
<1>15. CASE AcceptorRefuse
  BY <1>15 DEF AcceptorRefuse, AcceptorGoes
<1>16. CASE AcceptorJoin
  BY <1>16 DEF AcceptorJoin, AcceptorGoes
<1>17. ASSUME NEW c \in Conns, ReaderRead(c) PROVE Types'
  BY <1>17 DEF ReaderRead
<1>18. ASSUME NEW c \in Conns, ReaderSend(c) PROVE Types'
  BY <1>18 DEF ReaderSend
<1>19. ASSUME NEW c \in Conns, ReaderEof(c) PROVE Types'
  BY <1>19 DEF ReaderEof
<1>20. ASSUME NEW c \in Conns, ReaderRetire(c) PROVE Types'
  BY <1>20 DEF ReaderRetire
<1>21. CASE MainWrite
  <2>1. audio \in Nat
    OBVIOUS
  <2>2. /\ shutdown' \in BOOLEAN /\ main' \in MainStates
        /\ UNCHANGED <<clients, bc, decode, rx_frames, caster, acceptor, reader, sock, gone,
                       received, tx_frames>>
    BY <1>21, <2>1, BurstEffects
  <2>3. written' \in Nat /\ audio' \in 0 .. CHANNEL_DEPTH
    BY <1>21, <2>1, BurstEffects
  <2> QED
    BY <2>2, <2>3
<1>22. CASE MainTxEnd
  BY <1>22 DEF MainTxEnd, MainKeeps, MainStates
<1>23. CASE MainJoinDecode
  BY <1>23 DEF MainJoinDecode, MainKeeps, MainStates
<1>24. CASE MainDrain
  <2>1. audio \in Nat
    OBVIOUS
  <2>2. /\ shutdown' \in BOOLEAN /\ main' \in MainStates
        /\ UNCHANGED <<clients, bc, decode, rx_frames, caster, acceptor, reader, sock, gone,
                       received, tx_frames>>
    BY <1>24, <2>1, DrainEffects
  <2>3. written' \in Nat /\ audio' \in 0 .. CHANNEL_DEPTH
    BY <1>24, <2>1, DrainEffects
  <2> QED
    BY <2>2, <2>3
<1>25. CASE MainDrainEnd
  BY <1>25 DEF MainDrainEnd, MainKeeps, MainStates
<1>26. CASE MainReturn
  BY <1>26 DEF MainReturn, MainKeeps, MainStates
<1>27. ASSUME NEW c \in Conns, Connect(c) PROVE Types'
  BY <1>27 DEF Connect, PeersKeep
<1>28. ASSUME NEW c \in Conns, HangUp(c) PROVE Types'
  BY <1>28 DEF HangUp, PeersKeep
<1>29. CASE UNCHANGED tcpVars
  BY <1>29 DEF tcpVars
<1> QED
  BY <1>1, <1>2, <1>3, <1>4, <1>5, <1>6, <1>7, <1>8, <1>9, <1>10, <1>11, <1>12, <1>13, <1>14, <1>15, <1>16,
     <1>17, <1>18, <1>19, <1>20, <1>21, <1>22, <1>23, <1>24, <1>25, <1>26, <1>27, <1>28, <1>29
     DEF TcpNext, AudioInput, Decode, Caster, Acceptor, Reader, Main, Sink, Peer,
         Terminated

\* Every step keeps the list to open connections and to its cap: only the
\* acceptor adds to it, and only a connection that was in the backlog.
LEMMA AdmissionStep == BridgeInv /\ [TcpNext]_tcpVars => Admission'
<1> SUFFICES ASSUME BridgeInv, [TcpNext]_tcpVars PROVE Admission'
  OBVIOUS
<1> USE DEF BridgeInv, Types, Admission, decodeVars, sinkVars, netVars
<1>1. CASE DecodeFrame
  BY <1>1 DEF DecodeFrame
<1>2. CASE DecodeSend
  BY <1>2 DEF DecodeSend
<1>3. CASE DecodeEof
  BY <1>3 DEF DecodeEof
<1>4. CASE DecodeStop
  BY <1>4 DEF DecodeStop
<1>5. CASE DecodeStore
  BY <1>5 DEF DecodeStore
<1>6. CASE DecodeSweep
  BY <1>6 DEF DecodeSweep
<1>7. CASE CasterRecv
  BY <1>7 DEF CasterRecv, CasterStates
<1>8. ASSUME NEW c \in Conns, CasterWrite(c) PROVE Admission'
  BY <1>8, WriteEffects
<1>9. CASE CasterRetain
  <2>1. Cardinality(clients') <= MAX_CLIENTS
    <3>1. clients' \in SUBSET clients
      BY <1>9 DEF CasterRetain, CasterStates
    <3> QED
      BY <3>1, CountSmaller
  <2> QED
    BY <1>9, <2>1 DEF CasterRetain, CasterStates
<1>10. CASE CasterEnd
  BY <1>10 DEF CasterEnd, CasterStates
<1>11. CASE AcceptorPoll
  BY <1>11 DEF AcceptorPoll, AcceptorGoes
<1>12. CASE AcceptorAccept
  BY <1>12 DEF AcceptorAccept, AcceptorGoes
<1>13. CASE AcceptorFails
  BY <1>13 DEF AcceptorFails, AcceptorGoes
<1>14. CASE AcceptorAdmit
  <2>1. Cardinality(clients') <= MAX_CLIENTS
    <3>1. /\ clients' = clients \cup {acceptor.conn} /\ acceptor.conn \notin clients
          /\ Cardinality(clients) < MAX_CLIENTS
      BY <1>14 DEF AcceptorAdmit, AcceptorGoes
    <3>2. IsFiniteSet(clients) /\ Cardinality(clients) \in Nat
      BY FiniteParts
    <3>3. Cardinality(clients') = Cardinality(clients) + 1
      BY <3>1, <3>2, FS_AddElement
    <3> QED
      BY <3>1, <3>2, <3>3
  <2> QED
    BY <1>14, <2>1 DEF AcceptorAdmit, AcceptorGoes
<1>15. CASE AcceptorRefuse
  BY <1>15 DEF AcceptorRefuse, AcceptorGoes
<1>16. CASE AcceptorJoin
  BY <1>16 DEF AcceptorJoin, AcceptorGoes
<1>17. ASSUME NEW c \in Conns, ReaderRead(c) PROVE Admission'
  BY <1>17 DEF ReaderRead
<1>18. ASSUME NEW c \in Conns, ReaderSend(c) PROVE Admission'
  BY <1>18 DEF ReaderSend
<1>19. ASSUME NEW c \in Conns, ReaderEof(c) PROVE Admission'
  BY <1>19 DEF ReaderEof
<1>20. ASSUME NEW c \in Conns, ReaderRetire(c) PROVE Admission'
  <2>1. Cardinality(clients') <= MAX_CLIENTS
    <3>1. clients' \in SUBSET clients
      BY <1>20 DEF ReaderRetire
    <3> QED
      BY <3>1, CountSmaller
  <2> QED
    BY <1>20, <2>1 DEF ReaderRetire
<1>21. CASE MainWrite
  <2>1. audio \in Nat
    OBVIOUS
  <2>2. UNCHANGED <<acceptor, sock, reader, clients, caster, received>>
    BY <1>21, <2>1, BurstEffects
  <2> QED
    BY <2>2
<1>22. CASE MainTxEnd
  BY <1>22 DEF MainTxEnd, MainKeeps, MainStates
<1>23. CASE MainJoinDecode
  BY <1>23 DEF MainJoinDecode, MainKeeps, MainStates
<1>24. CASE MainDrain
  <2>1. audio \in Nat
    OBVIOUS
  <2>2. UNCHANGED <<acceptor, sock, reader, clients, caster, received>>
    BY <1>24, <2>1, DrainEffects
  <2> QED
    BY <2>2
<1>25. CASE MainDrainEnd
  BY <1>25 DEF MainDrainEnd, MainKeeps, MainStates
<1>26. CASE MainReturn
  BY <1>26 DEF MainReturn, MainKeeps, MainStates
<1>27. ASSUME NEW c \in Conns, Connect(c) PROVE Admission'
  BY <1>27 DEF Connect, PeersKeep
<1>28. ASSUME NEW c \in Conns, HangUp(c) PROVE Admission'
  BY <1>28 DEF HangUp, PeersKeep
<1>29. CASE UNCHANGED tcpVars
  BY <1>29 DEF tcpVars
<1> QED
  BY <1>1, <1>2, <1>3, <1>4, <1>5, <1>6, <1>7, <1>8, <1>9, <1>10, <1>11, <1>12, <1>13, <1>14, <1>15, <1>16,
     <1>17, <1>18, <1>19, <1>20, <1>21, <1>22, <1>23, <1>24, <1>25, <1>26, <1>27, <1>28, <1>29
     DEF TcpNext, AudioInput, Decode, Caster, Acceptor, Reader, Main, Sink, Peer,
         Terminated

\* Every step of a reader or of the caller's thread accounts for the bursts.
LEMMA AccountsStep == BridgeInv /\ [TcpNext]_tcpVars => Accounts'
<1> SUFFICES ASSUME BridgeInv, [TcpNext]_tcpVars PROVE Accounts'
  OBVIOUS
<1> USE DEF BridgeInv, Types, Accounts, SendersGone, ReadersDone, decodeVars, sinkVars, netVars
<1>0. /\ InFlight \in Nat /\ Cardinality(Senders) \in Nat
      /\ audio \in Nat /\ written \in Nat /\ tx_frames \in Nat
  BY CountSenders DEF InFlight
<1>1. CASE DecodeFrame
  <2>1. Senders' = Senders
    BY <1>1 DEF DecodeFrame, Senders
  <2> QED
    BY <1>1, <2>1, <1>0, MainFields DEF DecodeFrame, InFlight, SinkFine
<1>2. CASE DecodeSend
  <2>1. Senders' = Senders
    BY <1>2 DEF DecodeSend, Senders
  <2> QED
    BY <1>2, <2>1, <1>0, MainFields DEF DecodeSend, InFlight, SinkFine
<1>3. CASE DecodeEof
  <2>1. Senders' = Senders
    BY <1>3 DEF DecodeEof, Senders
  <2> QED
    BY <1>3, <2>1, <1>0, MainFields DEF DecodeEof, InFlight, SinkFine
<1>4. CASE DecodeStop
  <2>1. Senders' = Senders
    BY <1>4 DEF DecodeStop, Senders
  <2> QED
    BY <1>4, <2>1, <1>0, MainFields DEF DecodeStop, InFlight, SinkFine
<1>5. CASE DecodeStore
  <2>1. Senders' = Senders
    BY <1>5 DEF DecodeStore, Senders
  <2> QED
    BY <1>5, <2>1, <1>0, MainFields DEF DecodeStore, InFlight, SinkFine
<1>6. CASE DecodeSweep
  <2>1. Senders' = Senders
    BY <1>6 DEF DecodeSweep, Senders
  <2> QED
    BY <1>6, <2>1, <1>0, MainFields DEF DecodeSweep, InFlight, SinkFine
<1>7. CASE CasterRecv
  <2>1. Senders' = Senders
    BY <1>7 DEF CasterRecv, CasterStates, Senders
  <2> QED
    BY <1>7, <2>1, <1>0, MainFields DEF CasterRecv, CasterStates, InFlight, SinkFine
<1>8. ASSUME NEW c \in Conns, CasterWrite(c) PROVE Accounts'
  <2>1. Senders' = Senders
    BY <1>8, WriteEffects DEF Senders
  <2> QED
    BY <1>8, <2>1, WriteEffects, <1>0, MainFields DEF InFlight, SinkFine
<1>9. CASE CasterRetain
  <2>1. Senders' = Senders
    BY <1>9 DEF CasterRetain, CasterStates, Senders
  <2> QED
    BY <1>9, <2>1, <1>0, MainFields DEF CasterRetain, CasterStates, InFlight, SinkFine
<1>10. CASE CasterEnd
  <2>1. Senders' = Senders
    BY <1>10 DEF CasterEnd, CasterStates, Senders
  <2> QED
    BY <1>10, <2>1, <1>0, MainFields DEF CasterEnd, CasterStates, InFlight, SinkFine
<1>11. CASE AcceptorPoll
  <2>1. Senders' = Senders
    BY <1>11 DEF AcceptorPoll, AcceptorGoes, Senders
  <2> QED
    BY <1>11, <2>1, <1>0, MainFields DEF AcceptorPoll, AcceptorGoes, InFlight, SinkFine
<1>12. CASE AcceptorAccept
  <2>1. Senders' = Senders
    BY <1>12 DEF AcceptorAccept, AcceptorGoes, Senders
  <2> QED
    BY <1>12, <2>1, <1>0, MainFields DEF AcceptorAccept, AcceptorGoes, InFlight, SinkFine
<1>13. CASE AcceptorFails
  <2>1. Senders' = Senders
    BY <1>13 DEF AcceptorFails, AcceptorGoes, Senders
  <2> QED
    BY <1>13, <2>1, <1>0, MainFields DEF AcceptorFails, AcceptorGoes, InFlight, SinkFine
<1>14. CASE AcceptorAdmit
  <2>1. Senders' = Senders
    BY <1>14 DEF AcceptorAdmit, AcceptorGoes, Senders, Admission
  <2> QED
    BY <1>14, <2>1, <1>0, MainFields DEF AcceptorAdmit, AcceptorGoes, InFlight, SinkFine
<1>15. CASE AcceptorRefuse
  <2>1. Senders' = Senders
    BY <1>15 DEF AcceptorRefuse, AcceptorGoes, Senders
  <2> QED
    BY <1>15, <2>1, <1>0, MainFields DEF AcceptorRefuse, AcceptorGoes, InFlight, SinkFine
<1>16. CASE AcceptorJoin
  <2>1. Senders' = Senders
    BY <1>16 DEF AcceptorJoin, AcceptorGoes, Senders
  <2> QED
    BY <1>16, <2>1, <1>0, MainFields DEF AcceptorJoin, AcceptorGoes, InFlight, SinkFine
<1>17. ASSUME NEW c \in Conns, ReaderRead(c) PROVE Accounts'
  <2>1. Senders' = Senders \cup {c} /\ c \notin Senders
    BY <1>17 DEF ReaderRead, Senders
  <2>2. Cardinality(Senders') = Cardinality(Senders) + 1
    BY <2>1, CountSenders, FS_AddElement
  <2>3. ~SendersGone
    BY <1>17 DEF ReaderRead, SendersGone, ReadersDone
  <2>4. InFlight' = InFlight + 1
    BY <1>17, <2>2, CountSenders DEF ReaderRead, InFlight
  <2> QED
    BY <1>17, <2>3, <2>4, <1>0, MainFields DEF ReaderRead, SinkFine
<1>18. ASSUME NEW c \in Conns, ReaderSend(c) PROVE Accounts'
  <2>1. Senders' = Senders \ {c} /\ c \in Senders
    BY <1>18 DEF ReaderSend, Senders
  <2>2. Cardinality(Senders') = Cardinality(Senders) - 1
    BY <2>1, CountSenders, FS_RemoveElement
  <2>3. ~SendersGone
    BY <1>18 DEF ReaderSend, SendersGone, ReadersDone
  <2>4. InFlight' = InFlight
    BY <1>18, <2>2, CountSenders DEF ReaderSend, InFlight
  <2> QED
    BY <1>18, <2>3, <2>4, <1>0, MainFields DEF ReaderSend, SinkFine
<1>19. ASSUME NEW c \in Conns, ReaderEof(c) PROVE Accounts'
  <2>1. Senders' = Senders
    BY <1>19 DEF ReaderEof, Senders
  <2> QED
    BY <1>19, <2>1, <1>0, MainFields DEF ReaderEof, InFlight, SinkFine
<1>20. ASSUME NEW c \in Conns, ReaderRetire(c) PROVE Accounts'
  <2>1. Senders' = Senders
    BY <1>20 DEF ReaderRetire, Senders
  <2> QED
    BY <1>20, <2>1, <1>0, MainFields DEF ReaderRetire, InFlight, SinkFine
<1>21. CASE MainWrite
  <2>1. Senders' = Senders /\ tx_frames' = tx_frames
    BY <1>21, BurstEffects DEF Senders
  <2>2. InFlight' \in Int /\ InFlight' <= InFlight /\ (written' = written + 1 => InFlight' = InFlight)
    BY <1>21, <1>0, <2>1, BurstEffects DEF InFlight
  <2> QED
    BY <1>21, <1>0, <2>1, <2>2, BurstEffects
<1>22. CASE MainTxEnd
  <2>1. Senders' = Senders
    BY <1>22 DEF MainTxEnd, MainKeeps, MainStates, Senders
  <2> QED
    BY <1>22, <2>1, <1>0, MainFields DEF MainTxEnd, MainKeeps, MainStates, InFlight, SinkFine
<1>23. CASE MainJoinDecode
  <2>1. Senders' = Senders
    BY <1>23 DEF MainJoinDecode, MainKeeps, MainStates, Senders
  <2> QED
    BY <1>23, <2>1, <1>0, MainFields DEF MainJoinDecode, MainKeeps, MainStates, InFlight, SinkFine
<1>24. CASE MainDrain
  <2>1. Senders' = Senders /\ tx_frames' = tx_frames
    BY <1>24, DrainEffects DEF Senders
  <2>2. InFlight' \in Int /\ InFlight' <= InFlight /\ (written' = written + 1 => InFlight' = InFlight)
    BY <1>24, <1>0, <2>1, DrainEffects DEF InFlight
  <2> QED
    BY <1>24, <1>0, <2>1, <2>2, DrainEffects
<1>25. CASE MainDrainEnd
  <2>1. Senders' = Senders
    BY <1>25 DEF MainDrainEnd, MainKeeps, MainStates, Senders
  <2> QED
    BY <1>25, <2>1, <1>0, MainFields DEF MainDrainEnd, MainKeeps, MainStates, InFlight, SinkFine
<1>26. CASE MainReturn
  <2>1. Senders' = Senders
    BY <1>26 DEF MainReturn, MainKeeps, MainStates, Senders
  <2> QED
    BY <1>26, <2>1, <1>0, MainFields DEF MainReturn, MainKeeps, MainStates, InFlight, SinkFine
<1>27. ASSUME NEW c \in Conns, Connect(c) PROVE Accounts'
  <2>1. Senders' = Senders
    BY <1>27 DEF Connect, PeersKeep, Senders
  <2> QED
    BY <1>27, <2>1, <1>0, MainFields DEF Connect, PeersKeep, InFlight, SinkFine
<1>28. ASSUME NEW c \in Conns, HangUp(c) PROVE Accounts'
  <2>1. Senders' = Senders
    BY <1>28 DEF HangUp, PeersKeep, Senders
  <2> QED
    BY <1>28, <2>1, <1>0, MainFields DEF HangUp, PeersKeep, InFlight, SinkFine
<1>29. CASE UNCHANGED tcpVars
  BY <1>29 DEF tcpVars, Senders, InFlight, SinkFine
<1> QED
  BY <1>1, <1>2, <1>3, <1>4, <1>5, <1>6, <1>7, <1>8, <1>9, <1>10, <1>11, <1>12, <1>13, <1>14, <1>15, <1>16,
     <1>17, <1>18, <1>19, <1>20, <1>21, <1>22, <1>23, <1>24, <1>25, <1>26, <1>27, <1>28, <1>29
     DEF TcpNext, AudioInput, Decode, Caster, Acceptor, Reader, Main, Sink, Peer,
         Terminated

\* Every step keeps the frames in order and every client level with the broadcast.
LEMMA OrderStep == BridgeInv /\ [TcpNext]_tcpVars => Order'
<1> SUFFICES ASSUME BridgeInv, [TcpNext]_tcpVars PROVE Order'
  OBVIOUS
<1> USE DEF BridgeInv, Types, Admission, Order, Level, decodeVars, sinkVars, netVars
<1>1. CASE DecodeFrame
  BY <1>1 DEF DecodeFrame, CasterStates
<1>2. CASE DecodeSend
  BY <1>2 DEF DecodeSend, CasterStates
<1>3. CASE DecodeEof
  BY <1>3 DEF DecodeEof
<1>4. CASE DecodeStop
  BY <1>4 DEF DecodeStop
<1>5. CASE DecodeStore
  BY <1>5 DEF DecodeStore
<1>6. CASE DecodeSweep
  BY <1>6 DEF DecodeSweep
<1>7. CASE CasterRecv
  <2>1. /\ caster'.frame = Head(bc) /\ caster'.targets = clients /\ caster'.pc = "write"
        /\ caster'.failed = {} /\ bc' = Tail(bc)
    BY <1>7 DEF CasterRecv
  <2>2. caster.frame \in Nat /\ bc \in Seq(Nat) /\ bc # <<>>
        /\ \A i \in 1 .. Len(bc) : bc[i] = caster.frame + i
    BY <1>7, CasterFields DEF CasterRecv
  <2>3. /\ Head(bc) = caster.frame + 1 /\ Len(Tail(bc)) = Len(bc) - 1
        /\ \A i \in 1 .. Len(Tail(bc)) : Tail(bc)[i] = Head(bc) + i
    <3> HIDE DEF BridgeInv, Types, Admission, Order, Level
    <3> QED
      BY <2>2, NextFrames
  <2>4. \A i \in 1 .. Len(bc') : bc'[i] = caster'.frame + i
    BY <2>1, <2>3
  <2>5. rx_frames' = caster'.frame + Len(bc') + (IF decode' = "send" THEN 1 ELSE 0)
    BY <1>7, <2>1, <2>2, <2>3 DEF CasterRecv
  <2>6. \A d \in clients : received'[d] \in {0, caster'.frame - 1}
    BY <1>7, <2>1, <2>2, <2>3 DEF CasterRecv
  <2>7. clients' = clients
    BY <1>7 DEF CasterRecv
  <2> QED
    BY <2>1, <2>4, <2>5, <2>6, <2>7
<1>8. ASSUME NEW c \in Conns, CasterWrite(c) PROVE Order'
  <2>1. /\ caster.pc = "write" /\ caster'.pc = "write" /\ caster'.frame = caster.frame
        /\ caster'.targets = caster.targets \ {c} /\ caster.failed \subseteq caster'.failed
        /\ UNCHANGED <<bc, decode, clients, rx_frames>>
    BY <1>8, WriteEffects
  <2>2. \A d \in Conns \ {c} : received'[d] = received[d]
    BY <1>8, WriteEffects
  <2>3. received'[c] = caster.frame \/ c \in caster'.failed
    BY <1>8, WriteEffects
  <2>4. \A d \in caster'.targets : received'[d] \in {0, caster'.frame - 1}
    BY <2>1, <2>2 DEF CasterStates
  <2>5. \A d \in clients' \ (caster'.targets \cup caster'.failed) :
           received'[d] \in {0, caster'.frame}
    BY <2>1, <2>2, <2>3
  <2> QED
    BY <2>1, <2>4, <2>5
<1>9. CASE CasterRetain
  BY <1>9 DEF CasterRetain, CasterStates
<1>10. CASE CasterEnd
  BY <1>10 DEF CasterEnd, CasterStates
<1>11. CASE AcceptorPoll
  BY <1>11 DEF AcceptorPoll, AcceptorGoes
<1>12. CASE AcceptorAccept
  BY <1>12 DEF AcceptorAccept, AcceptorGoes
<1>13. CASE AcceptorFails
  BY <1>13 DEF AcceptorFails, AcceptorGoes
<1>14. CASE AcceptorAdmit
  BY <1>14 DEF AcceptorAdmit, AcceptorGoes
<1>15. CASE AcceptorRefuse
  BY <1>15 DEF AcceptorRefuse, AcceptorGoes
<1>16. CASE AcceptorJoin
  BY <1>16 DEF AcceptorJoin, AcceptorGoes
<1>17. ASSUME NEW c \in Conns, ReaderRead(c) PROVE Order'
  BY <1>17 DEF ReaderRead
<1>18. ASSUME NEW c \in Conns, ReaderSend(c) PROVE Order'
  BY <1>18 DEF ReaderSend
<1>19. ASSUME NEW c \in Conns, ReaderEof(c) PROVE Order'
  BY <1>19 DEF ReaderEof
<1>20. ASSUME NEW c \in Conns, ReaderRetire(c) PROVE Order'
  BY <1>20 DEF ReaderRetire
<1>21. CASE MainWrite
  <2>1. audio \in Nat
    OBVIOUS
  <2>2. UNCHANGED <<bc, caster, rx_frames, decode, clients, received>>
    BY <1>21, <2>1, BurstEffects
  <2> QED
    BY <2>2
<1>22. CASE MainTxEnd
  BY <1>22 DEF MainTxEnd, MainKeeps, MainStates
<1>23. CASE MainJoinDecode
  BY <1>23 DEF MainJoinDecode, MainKeeps, MainStates
<1>24. CASE MainDrain
  <2>1. audio \in Nat
    OBVIOUS
  <2>2. UNCHANGED <<bc, caster, rx_frames, decode, clients, received>>
    BY <1>24, <2>1, DrainEffects
  <2> QED
    BY <2>2
<1>25. CASE MainDrainEnd
  BY <1>25 DEF MainDrainEnd, MainKeeps, MainStates
<1>26. CASE MainReturn
  BY <1>26 DEF MainReturn, MainKeeps, MainStates
<1>27. ASSUME NEW c \in Conns, Connect(c) PROVE Order'
  BY <1>27 DEF Connect, PeersKeep
<1>28. ASSUME NEW c \in Conns, HangUp(c) PROVE Order'
  BY <1>28 DEF HangUp, PeersKeep
<1>29. CASE UNCHANGED tcpVars
  BY <1>29 DEF tcpVars
<1> QED
  BY <1>1, <1>2, <1>3, <1>4, <1>5, <1>6, <1>7, <1>8, <1>9, <1>10, <1>11, <1>12, <1>13, <1>14, <1>15, <1>16,
     <1>17, <1>18, <1>19, <1>20, <1>21, <1>22, <1>23, <1>24, <1>25, <1>26, <1>27, <1>28, <1>29
     DEF TcpNext, AudioInput, Decode, Caster, Acceptor, Reader, Main, Sink, Peer,
         Terminated

-----------------------------------------------------------------------------
(* The theorems                                                            *)

\* The invariant holds of run_tcp (serve.rs) for any set of connections,
\* client cap, channel depth and traffic.
THEOREM BridgeInvariant == TcpSpec => []BridgeInv
<1>1. BridgeInv /\ [TcpNext]_tcpVars => BridgeInv'
  BY TypesStep, AdmissionStep, AccountsStep, OrderStep DEF BridgeInv
<1> QED
  BY InitInv, <1>1, PTL DEF TcpSpec

\* TcpTypeOK (serve.rs: the accept loop's cap, the retain and the readers' own
\* removal, the channels' depth): the list never outgrows its cap and names
\* only connections that were admitted, and neither channel overflows.
THEOREM TypeCorrect == TcpSpec => []TcpTypeOK
<1>1. BridgeInv => TcpTypeOK
  <2> SUFFICES ASSUME BridgeInv PROVE TcpTypeOK
    OBVIOUS
  <2>1. \A c \in clients : sock[c] \in {"open", "shut"}
    BY DEF BridgeInv, Types, Admission
  <2>2. written <= tx_frames
    <3>1. Cardinality(Senders) \in Nat /\ written \in Nat /\ audio \in Nat /\ tx_frames \in Nat
      BY CountSenders DEF BridgeInv, Types
    <3> QED
      BY <3>1 DEF BridgeInv, Accounts, InFlight
  <2> QED
    BY <2>1, <2>2 DEF BridgeInv, Types, Admission, TcpTypeOK
<1> QED
  BY BridgeInvariant, <1>1, PTL

\* BurstsAccounted (serve.rs: client_loop, the TX loop and its drain, the order
\* of the joins): when run_tcp returns without an error every burst counted
\* for a client has reached the sink, for any number of clients, a channel of
\* any depth and any interleaving of a shutdown with their readers.
THEOREM BurstsAccountedCorrect == TcpSpec => []BurstsAccounted
<1>1. BridgeInv => BurstsAccounted
  <2> SUFFICES ASSUME BridgeInv, main.pc = "done", SinkFine PROVE written = tx_frames
    BY DEF BurstsAccounted, SinkFine
  <2>1. Senders = {} /\ audio = 0 /\ tx_frames = InFlight
    BY DEF BridgeInv, Accounts, Senders, SendersGone, ReadersDone
  <2>2. Cardinality(Senders) = 0 /\ written \in Nat
    BY <2>1, FS_EmptySet DEF BridgeInv, Types
  <2> QED
    BY <2>1, <2>2 DEF InFlight
<1> QED
  BY BridgeInvariant, <1>1, PTL

\* A step moves a client that has had frames to the very next one, if it moves
\* it at all: only the broadcast does, and the client was one frame behind.
LEMMA NoGapStep ==
  ASSUME BridgeInv, [TcpNext]_tcpVars, NEW c \in Conns, received[c] # 0, received'[c] # received[c]
  PROVE  received'[c] = received[c] + 1
<1>1. ASSUME NEW d \in Conns, CasterWrite(d) PROVE received'[c] = received[c] + 1
  <2>1. /\ caster.pc = "write" /\ d \in caster.targets /\ caster.frame \in Nat
        /\ received' = [received EXCEPT ![d] = caster.frame] \/ received' = received
    BY <1>1, WriteEffects DEF BridgeInv, Types
  <2>2. c = d /\ received'[c] = caster.frame
    BY <2>1 DEF BridgeInv, Types
  <2>3. received[c] = caster.frame - 1
    BY <2>1, <2>2 DEF BridgeInv, Order, Level
  <2> QED
    BY <2>1, <2>2, <2>3
<1>2. CASE \A d \in Conns : ~CasterWrite(d)
  <2>1. received' = received
    BY <1>2 DEF TcpNext, AudioInput, Sink, Decode, DecodeFrame, DecodeSend, DecodeEof, DecodeStop, DecodeStore,
         DecodeSweep, Caster, CasterRecv, CasterRetain, CasterEnd, Acceptor, AcceptorGoes,
         AcceptorPoll, AcceptorAccept, AcceptorFails, AcceptorAdmit, AcceptorRefuse,
         AcceptorJoin, Reader, ReaderSend, ReaderEof, ReaderRetire, Peer, ReaderRead,
         Connect, HangUp, PeersKeep, Main, MainKeeps, MainWrite, MainTxEnd, MainJoinDecode,
         MainDrain, MainDrainEnd, MainReturn, Terminated, tcpVars
  <2> QED
    BY <2>1
<1> QED
  BY <1>1, <1>2

\* NoGap (serve.rs: the broadcaster's write_all and retain): what a peer
\* receives is an unbroken run of the broadcast, for any number of peers, any
\* cap and depth, and however often peers stall, hang up or are replaced.
THEOREM NoGapCorrect == TcpSpec => NoGap
<1>1. BridgeInv /\ [TcpNext]_tcpVars =>
        [\A c \in Conns : received[c] # 0 /\ received'[c] # received[c]
                            => received'[c] = received[c] + 1]_tcpVars
  BY NoGapStep
<1> QED
  BY BridgeInvariant, <1>1, PTL DEF TcpSpec, NoGap

=============================================================================
