----------------------------- MODULE ServeKiss -----------------------------
(***************************************************************************)
(* serve_kiss of src/src/asynk.rs over the stream of Feeds: one task that  *)
(* accepts a connection or takes a frame, whichever is ready, and writes   *)
(* each frame to every client before it looks at anything else.  The       *)
(* stream's errors are filtered out on the way, as the documented example  *)
(* does.  A client's socket holds SocketRoom frames it has not read.       *)
(***************************************************************************)
EXTENDS Feeds

CONSTANTS Clients,
          SocketRoom,
          MayStall       \* whether a client may stop reading and stay connected

VARIABLES serving,   \* [pc, frame, todo, keep]: "select", "write", "returned" or "failed"
          clients,   \* the Vec of connections
          peers,     \* [c -> [state, mood, unread, had, from]]: the other end of a connection
          cast       \* history: the frames broadcast

serveVars == <<feedVars, serving, clients, peers, cast>>
taskVars == <<serving, clients, peers, cast>>

ServeInit ==
  /\ FeedsInit
  /\ serving = [pc |-> "select", frame |-> <<>>, todo |-> <<>>, keep |-> <<>>]
  /\ clients = <<>> /\ cast = <<>>
  /\ peers = [c \in Clients |-> [state |-> "new", mood |-> "reads", unread |-> <<>>, had |-> <<>>, from |-> 1]]

-----------------------------------------------------------------------------
(* The task                                                                *)

Accept(c) ==
  /\ serving.pc = "select" /\ peers[c].state = "backlog"
  /\ clients' = Append(clients, c)
  /\ peers' = [peers EXCEPT ![c].state = "accepted", ![c].from = Len(cast) + 1]
  /\ UNCHANGED <<feedVars, serving, cast>>

\* accepted? returns the error; the stream goes with it.
AcceptFails ==
  /\ serving.pc = "select" /\ serving' = [serving EXCEPT !.pc = "failed"]
  /\ clients' = <<>> /\ DropStream
  /\ UNCHANGED <<peers, cast>>

NextFrame ==
  /\ serving.pc = "select" /\ Take
  /\ LET item == Head(channel)[2]
     IN  IF item \in {Truncated, ReadError} THEN UNCHANGED <<serving, clients, cast>>
         ELSE /\ serving' = [pc |-> "write", frame |-> Head(channel), todo |-> clients, keep |-> <<>>]
              /\ clients' = <<>> /\ cast' = Append(cast, Head(channel))
  /\ UNCHANGED peers

\* The end of the stream: the list of clients is dropped with the task.
StreamEnds ==
  /\ serving.pc = "select" /\ channel = <<>> /\ AllDone
  /\ serving' = [serving EXCEPT !.pc = "returned"] /\ clients' = <<>>
  /\ UNCHANGED <<feedVars, peers, cast>>

\* Mutant: the first client that fails ends the round.
AfterFailure_break(todo, keep) == [todo |-> <<>>, keep |-> keep]
AfterFailure(todo, keep) == [todo |-> todo, keep |-> keep]

\* client.write_all(&bytes).await: waits for room without a limit; a closed
\* connection is an error and the client is not kept.
WriteAll ==
  /\ serving.pc = "write" /\ serving.todo # <<>>
  /\ LET c == Head(serving.todo)
         after == AfterFailure(Tail(serving.todo), serving.keep)
     IN  IF peers[c].mood = "closed"
         THEN /\ serving' = [serving EXCEPT !.todo = after.todo, !.keep = after.keep]
              /\ UNCHANGED peers
         ELSE /\ Len(peers[c].unread) < SocketRoom
              /\ peers' = [peers EXCEPT ![c].unread = Append(@, serving.frame)]
              /\ serving' = [serving EXCEPT !.todo = Tail(@), !.keep = Append(@, c)]
  /\ UNCHANGED <<feedVars, clients, cast>>

RoundEnds ==
  /\ serving.pc = "write" /\ serving.todo = <<>>
  /\ clients' = serving.keep
  /\ serving' = [pc |-> "select", frame |-> <<>>, todo |-> <<>>, keep |-> <<>>]
  /\ UNCHANGED <<feedVars, peers, cast>>

-----------------------------------------------------------------------------
(* The clients                                                             *)

ClientReads(c) ==
  /\ peers[c].mood = "reads" /\ peers[c].unread # <<>>
  /\ peers' = [peers EXCEPT ![c].unread = Tail(@), ![c].had = Append(@, Head(peers[c].unread))]
  /\ UNCHANGED <<feedVars, serving, clients, cast>>

\* A client connects, stops reading, or closes the connection (what it had is
\* of no more interest).
ClientMoves(c) ==
  /\ serving.pc \in {"select", "write"}
  /\ \/ peers[c].state = "new" /\ peers' = [peers EXCEPT ![c].state = "backlog"]
     \/ MayStall /\ peers[c].state = "accepted" /\ peers[c].mood = "reads"
        /\ peers' = [peers EXCEPT ![c].mood = "stalled"]
     \/ peers[c].state # "new" /\ peers[c].mood # "closed"
        /\ peers' = [peers EXCEPT ![c].mood = "closed", ![c].unread = <<>>, ![c].had = <<>>]
  /\ UNCHANGED <<feedVars, serving, clients, cast>>

Serve == NextFrame \/ StreamEnds \/ WriteAll \/ RoundEnds
ServeNext ==
  \/ Serve \/ AcceptFails
  \/ \E c \in Clients : Accept(c) \/ ClientReads(c) \/ ClientMoves(c)
  \/ FeedStep /\ UNCHANGED taskVars

\* The task is polled when what it waits for is ready, and select takes either
\* branch; a client that reads goes on reading.  The feeds may be silent.
ServeFairness ==
  /\ WF_serveVars(Serve)
  /\ \A c \in Clients : WF_serveVars(ClientReads(c))
  /\ \A f \in Feeds : WF_serveVars((TaskStep(f) \/ WorkerStep(f)) /\ UNCHANGED taskVars)

ServeSpec == ServeInit /\ [][ServeNext]_serveVars /\ ServeFairness

-----------------------------------------------------------------------------
(* Properties                                                              *)

\* c has what was broadcast since its acceptance, in order and without a gap.
UpToDate(c) == peers[c].had = SubSeq(cast, peers[c].from, Len(cast))

\* "A client that stops reading or disconnects is dropped; everyone else keeps
\* receiving.  Returns once `frames` ends": whoever else comes and goes, a
\* client that stays and reads is again and again up to date, and the server
\* has returned if the feeds have ended.
EveryoneElseServed ==
  \A c \in Clients :
    []<>(\/ peers[c].state # "accepted" \/ peers[c].mood # "reads" \/ serving.pc = "failed"
         \/ UpToDate(c) /\ (AllDone => serving.pc = "returned"))
=============================================================================
