---------------------------- MODULE DigipeatNet ----------------------------
(***************************************************************************)
(* A radio network of digipeaters.  Every station runs one of the two      *)
(* digipeaters of the repository around the shared core of Digipeat:       *)
(*   "workstation"  src/examples/digipeater_station.rs (consider):         *)
(*                  the duplicate check comes first and records every      *)
(*                  frame heard, relayed or not;                           *)
(*   "embedded"     src/examples/esp32-riscv/src/digipeater.rs (relay_one):*)
(*                  the relay decision comes first, and only frames that   *)
(*                  would be relayed reach the duplicate ring.             *)
(*                                                                         *)
(* A transmission is heard at once by the stations in range, except those  *)
(* that miss it (a collision, a fade).  A relay is rendered when its frame *)
(* is heard, or dropped there and then when it does not fit its buffers,   *)
(* and goes out later, in order, when the channel is clear.  The           *)
(* workstation station is one run with --transmit.  Session counters, logs *)
(* and the samples themselves are left out.                                *)
(***************************************************************************)
EXTENDS Digipeat, TLC

CONSTANTS Packets,       \* transmissions, identified by their fingerprint
          Requests,      \* packet -> paths its source may ask for
          Stations,
          Tier,          \* station -> "workstation" | "embedded"
          Policy,        \* station -> [my_call, exact, limit, action]
          RingSlots,     \* station -> DUPE_SLOTS
          InfoBytes,     \* packet -> length of its information field
          TxBuffer,      \* embedded station -> samples its tx_buf holds
          InRange,       \* transmitter -> stations that can hear it
          Source,        \* the transmitter of the original frames
          MaxSends       \* bound: packet -> times its source sends it

ASSUME PacketsAssumption == /\ Packets \subseteq Nat \ {0} /\ IsFiniteSet(Packets)
                            /\ MaxSends \in [Packets -> Nat]
ASSUME RequestsAssumption ==
  \A p \in Packets : Requests[p] \subseteq Seq([addr : STRING \X Nat, used : BOOLEAN])
\* Both digipeaters serve one exact alias, their own callsign; an alias served
\* whole counts as one relay, so none may spell WIDEn-N with another N.
ASSUME AliasesAssumption ==
  \A s \in Stations : \A a \in Policy[s].exact : IsWide(a) => Remaining(a) = 1
ASSUME StationsAssumption ==
  /\ RingSlots \in [Stations -> Nat]
  /\ \A t \in Stations \cup {Source} : InRange[t] \subseteq Stations

VARIABLES rings,         \* station -> DupeRing
          txq,           \* station -> relays rendered and not yet sent
          sends,         \* packet -> times its source has sent it
          decisions,     \* what the stations that heard the latest frame decided
          accepted       \* history: station, packet -> age of its latest decision to
                         \* relay a fresh copy, rendered or not

vars == <<rings, txq, sends, decisions, accepted>>

\* asked is the budget the source of a copy requested, depth the relays the
\* copy went through (bound: it stops counting one past asked).
Frame(p, path, depth, asked) ==
  [packet |-> p, path |-> path, depth |-> depth, asked |-> asked]

Init ==
  /\ rings = [s \in Stations |-> EmptyRing(RingSlots[s])]
  /\ txq = [s \in Stations |-> <<>>]
  /\ sends = [p \in Packets |-> 0]
  /\ decisions = {}
  /\ accepted = [s \in Stations |-> [p \in Packets |-> Window]]

-----------------------------------------------------------------------------
(* Rendering a relay                                                       *)

MAX_FRAME_BYTES == 330
PreambleFlags == 32
TailFlags == 2
SamplesPerBit == 40

\* Source, destination and hops, control and PID, information field.
encoded_len(p, path) == 7 * (2 + Len(path)) + 2 + InfoBytes[p]

\* The flags, the frame and its FCS, one octet after another.  The stuffed zero
\* bits, at most a fifth more, are left out: they only lower the longest frame.
frame_samples(p, path) ==
  SamplesPerBit * 8 * (PreambleFlags + encoded_len(p, path) + 2 + TailFlags)

\* Does the mutated frame fit frame_buf, and on an embedded station its samples
\* tx_buf?
Renders(s, p, path) ==
  /\ encoded_len(p, path) <= MAX_FRAME_BYTES
  /\ Tier[s] = "embedded" => frame_samples(p, path) <= TxBuffer[s]

-----------------------------------------------------------------------------
(* What a station makes of a frame: [verdict, path, ring]                  *)

\* consider: duplicate check, then the decision.
consider(s, f) ==
  LET checked == check_and_insert(rings[s], f.packet)
      d       == IF checked.fresh THEN relay_decision(f.path, Policy[s])
                 ELSE Ignore("duplicate")
  IN  [verdict |-> d.verdict, path |-> d.path, ring |-> checked.ring]

\* push: what consider relays is rendered; nothing goes out if that fails.
push(s, f) ==
  LET o == consider(s, f)
  IN  IF o.verdict = "relay" /\ ~Renders(s, f.packet, o.path)
      THEN [o EXCEPT !.verdict = "render_failed"] ELSE o

\* Mutant: the embedded tier checks for duplicates first, as the other does.
RelayOneChecksFirst(s, f) == push(s, f)

\* relay_one: the decision, the duplicate check of what it would relay, which
\* records it, and only then the rendering, which may fail.
relay_one(s, f) ==
  LET d       == relay_decision(f.path, Policy[s])
      checked == check_and_insert(rings[s], f.packet)
  IN  IF d.verdict # "relay"
      THEN [verdict |-> d.verdict, path |-> <<>>, ring |-> rings[s]]
      ELSE [verdict |-> IF ~checked.fresh THEN "duplicate"
                        ELSE IF Renders(s, f.packet, d.path) THEN "relay" ELSE "render_failed",
            path |-> d.path, ring |-> checked.ring]

Outcome(s, f) == IF Tier[s] = "workstation" THEN push(s, f) ELSE relay_one(s, f)

-----------------------------------------------------------------------------
\* The copy of f a station sends on with its path mutated.
Relayed(f, path) ==
  Frame(f.packet, path, IF f.depth <= f.asked THEN f.depth + 1 ELSE f.depth, f.asked)

\* The stations in hearers receive f intact; queues are txq without what has
\* just been sent.
Heard(f, hearers, queues) ==
  LET o == [s \in hearers |-> Outcome(s, f)]
      Relays(s) == s \in hearers /\ o[s].verdict = "relay"
      Accepts(s) == s \in hearers /\ o[s].verdict \in {"relay", "render_failed"}
  IN  /\ rings' = [s \in Stations |-> IF s \in hearers THEN o[s].ring ELSE rings[s]]
      /\ txq' = [s \in Stations |-> IF Relays(s) THEN Append(queues[s], Relayed(f, o[s].path))
                                    ELSE queues[s]]
      /\ accepted' = [s \in Stations |-> IF Accepts(s) THEN [accepted[s] EXCEPT ![f.packet] = 0]
                                         ELSE accepted[s]]
      /\ decisions' = {[station |-> s, packet |-> f.packet, path |-> f.path,
                        verdict |-> o[s].verdict,
                        again |-> accepted[s][f.packet] < Window] : s \in hearers}

\* A source sends a packet, or repeats it, asking for some path.
Send(p, request) ==
  /\ sends[p] < MaxSends[p]
  /\ sends' = [sends EXCEPT ![p] = @ + 1]
  /\ \E hearers \in SUBSET InRange[Source] :
       Heard(Frame(p, request, 0, HopBudget(request)), hearers, txq)

\* A station sends the relay at the head of its queue.
Transmit(s) ==
  /\ txq[s] # <<>>
  /\ \E hearers \in SUBSET InRange[s] :
       Heard(Head(txq[s]), hearers, [txq EXCEPT ![s] = Tail(@)])
  /\ UNCHANGED sends

\* The clocks move on.
Tick ==
  /\ rings' = [s \in Stations |-> Aged(rings[s])]
  /\ accepted' = [s \in Stations |-> [p \in Packets |-> Older(accepted[s][p])]]
  /\ decisions' = {}
  /\ UNCHANGED <<txq, sends>>

Next == \/ \E p \in Packets : \E request \in Requests[p] : Send(p, request)
        \/ \E s \in Stations : Transmit(s)
        \/ Tick

\* A channel that is clear often enough lets every queued relay out.
Spec == Init /\ [][Next]_vars /\ \A s \in Stations : WF_vars(Transmit(s))

-----------------------------------------------------------------------------
(* Properties                                                              *)

\* The frames waiting for the channel.
Waiting == UNION {Range(txq[s]) : s \in Stations}

\* Types; no path waiting is longer than AX.25 can carry, and no ring holds a
\* fingerprint twice (the re-arm must find it).
TypeOK ==
  /\ \A s \in Stations :
       /\ rings[s].cursor \in 0 .. RingSlots[s]
       /\ \A i \in DOMAIN rings[s].entries : rings[s].entries[i].age \in 0 .. Window
       /\ \A p \in Packets : Cardinality(Holding(rings[s], p)) <= 1
  /\ \A f \in Waiting : f.packet \in Packets /\ Len(f.path) <= MaxDigipeaters
  /\ \A p \in Packets : sends[p] \in 0 .. MaxSends[p]
  /\ accepted \in [Stations -> [Packets -> 0 .. Window]]

\* The flood law: along every chain of stations, whichever rules each applied,
\* relays made plus relays still asked for is what the source requested, and no
\* relay spells it out in a path longer than AX.25 can carry.
BudgetConserved ==
  \A f \in Waiting : f.depth + HopBudget(f.path) = f.asked /\ Len(f.path) <= MaxDigipeaters

\* A station whose ring can hold every packet on the channel never relays one
\* twice within the window, nor one whose rendering failed in it, though copies
\* of it keep arriving by other routes with different paths, and repeats re-arm
\* expired entries.
RelayedOnce ==
  \A d \in decisions : d.verdict = "relay" /\ RingSlots[d.station] >= Cardinality(Packets)
                          => ~d.again

\* Is the first unused hop of a path the station's own callsign?
Named(s, path) ==
  Unused(path) # {} /\ path[FirstUnused(path)].addr = Policy[s].my_call

\* Addressed by the first unused hop, a station suppresses only what it has
\* itself decided to relay within the window.
ServesNamedHop(d) ==
  Named(d.station, d.path) /\ d.verdict = "duplicate" => d.again

\* The embedded digipeater suppresses a frame whose first unused hop is addressed
\* to it only when it has itself decided to relay that packet within the window:
\* copies it overheard with other hops first do not count, a relay of its own
\* that did not fit the transmit buffer does.
EmbeddedServesNamedHop ==
  \A d \in decisions : Tier[d.station] = "embedded" => ServesNamedHop(d)

\* What the module documentation of both says of any digipeater of the
\* repository: addressed by the first unused hop, it retransmits the frame.
NamedHopServed == \A d \in decisions : ServesNamedHop(d)

\* What the comment on the embedded digipeater's error counter says: with the
\* documented buffer sizes no rendering fails.
RelaysFit == \A d \in decisions : d.verdict # "render_failed"

\* Every flood dies out, with the duplicate window expiring as often as it
\* likes: the budget alone ends it.
FloodsEnd == <>[](Waiting = {})
=============================================================================
