---------------------------- MODULE TncReceiver ----------------------------
(***************************************************************************)
(* src/src/tnc.rs: how TncReceiver merges its bank of parallel decision    *)
(* chains.  Every chain demodulates the same audio, so one transmission    *)
(* completes in several chains a few samples apart: intact, damaged, or    *)
(* wrongly repaired into a frame nobody sent.  The receiver must emit it   *)
(* once.                                                                   *)
(*                                                                         *)
(* One step is one push of a sample: it hands every chain's deframer event *)
(* (Hdlc gives their meaning) to the merge in chain order.  The            *)
(* discriminators and slicers only decide when a chain reports what; that  *)
(* is chosen here, within Skew samples of the transmission's end.  A frame *)
(* is remembered by Key, its (CRC, length), with the sample it was last    *)
(* seen at; as only now - seen_at is used, an entry carries its age.       *)
(***************************************************************************)
EXTENDS Integers, FiniteSetsExt

CONSTANTS Active,        \* active chains
          Slots,         \* MAX_CHAINS, the slots of the seen ring
          Primary,       \* index of the chain nearest unity gain
          Window,        \* samples a key is remembered for
          Skew,          \* samples within which the chains complete a frame
          Gap,           \* samples between the ends of two transmissions
          Contents,      \* frame contents
          Key,           \* content -> (crc, len)
          UiContents,    \* the contents UiFrame::parse accepts
          StatMax,       \* u32::MAX
          MaxSent        \* bound: transmissions

Chains == 0 .. Active - 1

ASSUME ChainsAssumption == /\ Active \in Nat \ {0} /\ Slots \in Nat /\ Active <= Slots
                           /\ Primary \in Chains
\* Chains complete a frame within a couple of bit periods of each other, well
\* inside the window of 32; the shortest frame lasts longer than both.
ASSUME TimingAssumption == /\ Window \in Nat /\ Skew \in 0 .. Window
                           /\ Gap \in Nat /\ Gap > Skew + Window

ASSUME StatMaxAssumption == StatMax \in Nat

VARIABLES scheme,        \* "tones": the chain bank; "baseband": one G3RUH chain
          voting,        \* ChainVoting in force
          seen,          \* SeenFrame ring: [key, age, valid]
          seen_next,     \* next slot to overwrite
          out,           \* content the latest push returned, or Nothing
          stats,         \* TncStats
          air,           \* the transmission being received
          history        \* what should have been counted and emitted

bankVars == <<scheme, voting, seen, seen_next, out, stats, air, history>>

Nothing == "nothing"
ASSUME ContentsAssumption == UiContents \subseteq Contents /\ Nothing \notin Contents
Quiet == [kind |-> "None", content |-> Nothing]
Ok(c) == [kind |-> "Ok", content |-> c]
Failure(e) == [kind |-> e, content |-> Nothing]

SaturatingInc(n) == IF n < StatMax THEN n + 1 ELSE n

Unused == [key |-> Nothing, age |-> 0, valid |-> FALSE]
Silence == [content |-> Nothing, age |-> Gap, pending |-> {}]

\* new: voting is a repair, so RecoveryPolicy::None turns it off.
Voting(recovery, wanted) == recovery # "None" /\ wanted

BankInit ==
  /\ scheme \in {"tones", "baseband"}
  /\ \E recovery \in {"None", "SingleBitFlip"}, wanted \in BOOLEAN :
       voting = Voting(recovery, wanted)
  /\ seen = [i \in 1 .. Slots |-> Unused]
  /\ seen_next = 0
  /\ out = Nothing
  /\ stats = [frames_ok |-> 0, fcs_errors |-> 0, oversize |-> 0, malformed |-> 0]
  /\ air = Silence
  /\ history = [sent |-> 0, decoded |-> FALSE, claimed |-> FALSE, preempted |-> FALSE,
                emitted |-> 0, failures |-> 0]

-----------------------------------------------------------------------------
(* register: remembers a key; fresh when no live entry has it              *)

Live(entry) == entry.valid /\ entry.age <= Window

\* Mutant: a key seen exactly Window samples ago is taken for fresh.
RegisterShortWindow(m, key) ==
  LET known == {i \in 1 .. Slots : m.seen[i].valid /\ m.seen[i].age < Window
                                   /\ m.seen[i].key = key}
  IN  IF known # {}
      THEN [m EXCEPT !.seen[Min(known)].age = 0, !.fresh = FALSE]
      ELSE [m EXCEPT !.seen[m.next + 1] = [key |-> key, age |-> 0, valid |-> TRUE],
                     !.next = (@ + 1) % Slots, !.fresh = TRUE]

\* Mutant: a slot once written is taken for live for good.
RegisterNeverExpires(m, key) ==
  LET known == {i \in 1 .. Slots : m.seen[i].valid /\ m.seen[i].key = key}
  IN  IF known # {}
      THEN [m EXCEPT !.seen[Min(known)].age = 0, !.fresh = FALSE]
      ELSE [m EXCEPT !.seen[m.next + 1] = [key |-> key, age |-> 0, valid |-> TRUE],
                     !.next = (@ + 1) % Slots, !.fresh = TRUE]

\* A live key is refreshed and is a duplicate; any other takes the next slot.
register(m, key) ==
  LET known == {i \in 1 .. Slots : Live(m.seen[i]) /\ m.seen[i].key = key}
  IN  IF known # {}
      THEN [m EXCEPT !.seen[Min(known)].age = 0, !.fresh = FALSE]
      ELSE [m EXCEPT !.seen[m.next + 1] = [key |-> key, age |-> 0, valid |-> TRUE],
                     !.next = (@ + 1) % Slots, !.fresh = TRUE]

-----------------------------------------------------------------------------
(* push_envelopes: the merge of one sample's events                        *)

\* A frame one chain completed: registered always, emitted if it is fresh and
\* nothing was emitted yet for this sample.
Accept(m, content) ==
  LET r == register(m, Key[content])
  IN  IF r.fresh /\ m.out = Nothing THEN [r EXCEPT !.out = content] ELSE r

\* Mutant: every chain's failures are counted.
AbsorbCountsAll(m, c, event) ==
  CASE event.kind = "Ok"       -> Accept(m, event.content)
    [] event.kind = "Fcs"      -> [m EXCEPT !.failed = @ \cup {c},
                                            !.stats.fcs_errors = SaturatingInc(@)]
    [] event.kind = "TooLarge" -> [m EXCEPT !.stats.oversize = SaturatingInc(@)]
    [] event.kind = "None"     -> m

\* Errors are counted for the primary chain only.
Absorb(m, c, event) ==
  CASE event.kind = "Ok"       -> Accept(m, event.content)
    [] event.kind = "Fcs"      -> [m EXCEPT !.failed = @ \cup {c},
                                            !.stats.fcs_errors =
                                              IF c = Primary THEN SaturatingInc(@) ELSE @]
    [] event.kind = "TooLarge" -> [m EXCEPT !.stats.oversize =
                                              IF c = Primary THEN SaturatingInc(@) ELSE @]
    [] event.kind = "None"     -> m

\* The state before the first chain; every remembered key is a sample older.
Aged(entry) ==
  [entry EXCEPT !.age = IF entry.valid /\ @ <= Window THEN @ + 1 ELSE @]
Fresh == [seen |-> [i \in 1 .. Slots |-> Aged(seen[i])], next |-> seen_next,
          fresh |-> FALSE, out |-> Nothing, failed |-> {}, stats |-> stats]

\* The chains' events in chain order.
Merge(events) ==
  LET merged[n \in 0 .. Active] ==
        IF n = 0 THEN Fresh ELSE Absorb(merged[n - 1], n - 1, events[n - 1])
  IN  merged[Active]

\* try_vote needs a second chain whose history agrees with the failed window;
\* the voted window must pass the FCS check.  voted is what it yields.
Restores(m, voted) == m.out = Nothing /\ voting /\ m.failed # {} /\ voted # Nothing
TryVote(m, voted) == IF Restores(m, voted) THEN Accept(m, voted) ELSE m

\* The frame of this sample is parsed; what is not a UI frame is counted.
Parse(s, content) ==
  CASE content = Nothing      -> s
    [] content \in UiContents -> [s EXCEPT !.frames_ok = SaturatingInc(@)]
    [] OTHER                  -> [s EXCEPT !.malformed = SaturatingInc(@)]
Emitted(content) == IF content \in UiContents THEN content ELSE Nothing

-----------------------------------------------------------------------------
(* The channel                                                             *)

\* The events due chains may report now: nothing yet, the frame, an FCS
\* failure, an overlong frame, or a frame nobody sent that a repair made up.
Events == {Quiet, Failure("Fcs"), Failure("TooLarge")} \cup {Ok(c) : c \in Contents}
Due == IF air.age <= Skew THEN air.pending ELSE {}
EventsNow == {[c \in Chains |-> IF c \in Due THEN e[c] ELSE Quiet] : e \in [Due -> Events]}

\* What a vote may yield: it takes a failed chain and another one.
Votes(events) ==
  IF voting /\ Active > 1 /\ \E c \in Chains : events[c] = Failure("Fcs")
  THEN Contents \cup {Nothing} ELSE {Nothing}

Elapse(events) ==
  air' = [air EXCEPT !.age = IF @ < Gap THEN @ + 1 ELSE @,
                     !.pending = {c \in @ : events[c] = Quiet}]

\* Another frame, which register cannot tell from the one on the air.
Collides(content) ==
  content \notin {Nothing, air.content} /\ Key[content] = Key[air.content]

\* What the step should have counted, for the properties: whether the frame on
\* the air is decoded (by a chain, or by a vote), whether a colliding one was
\* completed, whether the decoding sample or an earlier collision went to another frame.
Recorded(events, restored, m) ==
  LET decodedNow == restored \/ \E c \in Chains : events[c] = Ok(air.content)
  IN  [history EXCEPT
         !.decoded   = @ \/ decodedNow,
         !.claimed   = @ \/ Collides(m.out) \/ \E c \in Chains : Collides(events[c].content),
         !.preempted = @ \/ /\ decodedNow /\ ~history.decoded
                            /\ m.out \notin {Nothing, air.content} \/ history.claimed,
         !.emitted   = IF m.out # Nothing /\ m.out = air.content THEN @ + 1 ELSE @,
         !.failures  = IF events[Primary] = Failure("Fcs") THEN @ + 1 ELSE @]

\* A transmission ends on the air: every chain may now complete it.
Transmit(content) ==
  /\ history.sent < MaxSent
  /\ air.age = Gap
  /\ air' = [content |-> content, age |-> 0,
             pending |-> IF scheme = "tones" THEN Chains ELSE {Primary}]
  /\ out' = Nothing
  /\ history' = [history EXCEPT !.sent = @ + 1, !.decoded = FALSE, !.claimed = FALSE,
                                !.preempted = FALSE, !.emitted = 0]
  /\ UNCHANGED <<scheme, voting, seen, seen_next, stats>>

\* push_i16 / push_f32 on a tone profile.
Push(events, voted) ==
  LET bank == Merge(events)
      m    == TryVote(bank, voted)
  IN  /\ scheme = "tones"
      /\ seen' = m.seen
      /\ seen_next' = m.next
      /\ out' = Emitted(m.out)
      /\ stats' = Parse(m.stats, m.out)
      /\ Elapse(events)
      /\ history' = Recorded(events, Restores(bank, voted) /\ voted = air.content, m)
      /\ UNCHANGED <<scheme, voting>>

\* push_baseband: one chain, no merge and no memory.
PushBaseband(events) ==
  LET m == [Fresh EXCEPT !.out = events[Primary].content]
      counted == Absorb(m, Primary, [events[Primary] EXCEPT !.kind =
                                       IF @ = "Ok" THEN "None" ELSE @])
  IN  /\ scheme = "baseband"
      /\ out' = Emitted(m.out)
      /\ stats' = Parse(counted.stats, m.out)
      /\ Elapse(events)
      /\ history' = Recorded(events, FALSE, m)
      /\ UNCHANGED <<scheme, voting, seen, seen_next>>

BankNext == \/ \E c \in Contents : Transmit(c)
            \/ \E events \in EventsNow :
                 \/ \E voted \in Votes(events) : Push(events, voted)
                 \/ PushBaseband(events)

BankSpec == BankInit /\ [][BankNext]_bankVars

-----------------------------------------------------------------------------
(* Properties                                                              *)

\* Types; the ring's cursor stays inside it and no two live entries carry the
\* same key.
BankTypeOK ==
  /\ seen_next \in 0 .. Slots - 1
  /\ \A i, j \in 1 .. Slots :
       Live(seen[i]) /\ Live(seen[j]) /\ seen[i].key = seen[j].key => i = j
  /\ \A i \in 1 .. Slots : seen[i].age \in 0 .. Window + 1
  /\ out \in UiContents \cup {Nothing}
  /\ \A f \in DOMAIN stats : stats[f] \in 0 .. StatMax

\* All chains are done with the transmission.
Settled == air.content # Nothing /\ air.age > Skew

\* A transmission that any chain, or a vote, decodes is emitted once: not
\* again when further chains complete it or a later vote restores it, and
\* never withheld because of an earlier transmission, be it the very same
\* frame.  It is withheld in two cases only, both of them the doing of a frame
\* some chain or vote made up of this same transmission: that frame has the
\* sample on which this one was first decoded (out_len is taken), or has the
\* same (crc, len) and was completed on an earlier sample.
EmittedOnce ==
  Settled /\ history.decoded => history.emitted = IF history.preempted THEN 0 ELSE 1

\* The bank counts the FCS failures one receiver would: those of its primary
\* chain, each once.
SingleReceiverStats ==
  stats.fcs_errors = IF history.failures < StatMax THEN history.failures ELSE StatMax
=============================================================================
