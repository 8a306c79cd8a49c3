-------------------------------- MODULE Fx25 --------------------------------
(***************************************************************************)
(* src/src/fx25.rs: frames wrapped in Reed-Solomon blocks behind a tag.    *)
(* The receiver listens on two paths at once: a plain deframer that every  *)
(* bit reaches, and a hunter that locks to a tag, collects the block it    *)
(* announces and corrects it.  A frame both paths recover comes out twice, *)
(* the second time when the block's last parity byte arrives; a memory of  *)
(* recent deliveries is to let it out once.                                *)
(*                                                                         *)
(* Time runs in units: a tag, a whole stuffed frame, fill between frame    *)
(* and parity, a share of the parity, or noise.  Noise may spoil any unit. *)
(* A block whose spoilt units the code can correct (t = parity / 2) comes  *)
(* back whole; that RsCodec::decode does this is checked on bytes in Il2p. *)
(***************************************************************************)
EXTENDS Integers, Sequences, SequencesExt, FiniteSetsExt

CONSTANTS Frames,       \* frame contents; two of them never share FCS and length
          MaxSends,     \* bound: transmissions
          MaxSpoilt     \* bound: units that noise spoils

VARIABLES air,          \* units of the running transmission still to come
          sends, spoilt,
          fx,           \* Fx25Receiver: [lock, pos, wrong, recent, recent_next]
          out,          \* what the last push returned: <<>> or <<frame>>
          due,          \* history: the intact frames and corrected blocks that ended with it
          since         \* history: units since a frame was last returned, up to Forever

fxVars == <<air, sends, spoilt, fx, out, due, since>>

\* CorrelationTag: data and parity units of a block.
Tags == {[data |-> 2, parity |-> 2], [data |-> 2, parity |-> 4], [data |-> 4, parity |-> 4]}
block_len(tag) == tag.data + tag.parity
RECENT_SLOTS == 4
\* One maximum block.
RECENT_WINDOW == Max({block_len(t) : t \in Tags})
Forever == RECENT_WINDOW + 2

Unit(kind, send, frame, tag) == [kind |-> kind, send |-> send, frame |-> frame, tag |-> tag]

\* stuff_frame and wrap_with: the tag, the frame, flags up to the data length,
\* the parity.
wrap_with(tag, frame, send) ==
  <<Unit("tag", send, frame, tag), Unit("frame", send, frame, tag)>>
    \o [i \in 1 .. tag.data - 1 |-> Unit("fill", send, frame, tag)]
    \o [i \in 1 .. tag.parity |-> Unit("parity", send, frame, tag)]

Hunting == [on |-> FALSE]

Fx25Init ==
  /\ air = <<>> /\ sends = 0 /\ spoilt = 0
  /\ fx = [lock |-> Hunting, pos |-> 0, wrong |-> 0,
           recent |-> [i \in 1 .. RECENT_SLOTS |-> [frame |-> <<>>, age |-> Forever]], recent_next |-> 1]
  /\ out = <<>> /\ due = {} /\ since = [f \in Frames |-> Forever]

-----------------------------------------------------------------------------
(* The channel                                                             *)

\* A station sends a block, or a plain frame; or noise resembles a tag.
Transmit ==
  /\ air = <<>> /\ sends < MaxSends /\ sends' = sends + 1
  /\ \/ \E tag \in Tags, f \in Frames : air' = wrap_with(tag, f, sends')
     \/ \E f \in Frames : air' = <<Unit("frame", sends', f, <<>>)>>
     \/ \E tag \in Tags, f \in Frames : air' = <<Unit("tag", sends', f, tag)>>
  /\ out' = <<>> /\ due' = {}
  /\ UNCHANGED <<spoilt, fx, since>>

\* The transmitter stops, or another one covers it.
CutOff ==
  /\ air # <<>> /\ air' = <<>>
  /\ out' = <<>> /\ due' = {}
  /\ UNCHANGED <<sends, spoilt, fx, since>>

-----------------------------------------------------------------------------
(* The receiver                                                            *)

\* Mutant: the newest delivery only.
is_duplicate_last(recent, f) ==
  \E i \in DOMAIN recent : /\ recent[i].frame = <<f>>
                           /\ \A j \in DOMAIN recent : recent[i].age <= recent[j].age
\* is_duplicate: the memory holds an entry of this frame within the window;
\* otherwise the frame takes the next slot.  A duplicate refreshes nothing.
is_duplicate(recent, f) == \E i \in DOMAIN recent : recent[i].frame = <<f>> /\ recent[i].age <= RECENT_WINDOW

Deliver(st, f) ==
  IF is_duplicate(st.recent, f) THEN [fx |-> st, out |-> <<>>]
  ELSE [fx |-> [st EXCEPT !.recent[st.recent_next] = [frame |-> <<f>>, age |-> 0],
                          !.recent_next = (@ % RECENT_SLOTS) + 1],
        out |-> <<f>>]

\* The clock, by the ages of the entries.
older(recent) == [i \in DOMAIN recent |-> [recent[i] EXCEPT !.age = Min({@ + 1, Forever})]]
Aged(st) == [st EXCEPT !.recent = older(st.recent)]

\* Mutant: a locked receiver hears no plain frames.
PlainPath_blanked(u, bad) == IF u.kind = "frame" /\ ~bad /\ ~fx.lock.on THEN <<u.frame>> ELSE <<>>
\* The plain deframer: every unit reaches it.
PlainPath(u, bad) == IF u.kind = "frame" /\ ~bad THEN <<u.frame>> ELSE <<>>

\* The tag hunter: the receiver after the unit, and what a block that ends with
\* it holds: nothing yet, its first frame, or an error.
BlockPath(st, u, bad) ==
  LET wrong == st.wrong + (IF bad \/ u.send # st.lock.send THEN 1 ELSE 0)
      tag   == st.lock.tag
  IN  IF ~st.lock.on
      THEN [fx |-> IF u.kind = "tag" /\ ~bad
                   THEN [st EXCEPT !.lock = [on |-> TRUE, send |-> u.send, tag |-> u.tag, frame |-> u.frame],
                                   !.pos = 0, !.wrong = 0]
                   ELSE st,
            block |-> "none"]
      ELSE IF st.pos + 1 < block_len(tag)
      THEN [fx |-> [st EXCEPT !.pos = @ + 1, !.wrong = wrong], block |-> "none"]
      ELSE [fx |-> [st EXCEPT !.lock = Hunting, !.pos = 0, !.wrong = 0],
            block |-> IF wrong <= tag.parity \div 2 THEN "frame" ELSE "error"]

\* push, for all the bits of a unit.  The block's outcome goes first: on the
\* same bit a plain frame is not looked at.
push(u, bad) ==
  LET plain == PlainPath(u, bad)
      b     == BlockPath(Aged(fx), u, bad)
      d     == IF b.block = "frame" THEN Deliver(b.fx, fx.lock.frame)
               ELSE IF b.block = "error" \/ plain = <<>> THEN [fx |-> b.fx, out |-> <<>>]
               ELSE Deliver(b.fx, plain[1])
  IN  /\ fx' = d.fx /\ out' = d.out
      /\ due' = (IF b.block = "frame" THEN {fx.lock.frame} ELSE {})
                  \cup (IF b.block = "none" /\ u.kind = "frame" /\ ~bad THEN {u.frame} ELSE {})
      /\ since' = [f \in Frames |-> IF d.out = <<f>> THEN 0 ELSE Min({since[f] + 1, Forever})]

Hear ==
  /\ air # <<>> /\ air' = Tail(air)
  /\ \E bad \in BOOLEAN :
       /\ bad => spoilt < MaxSpoilt
       /\ spoilt' = spoilt + (IF bad THEN 1 ELSE 0)
       /\ push(Head(air), bad)
  /\ UNCHANGED sends

\* Nobody sends for a while.
Silence ==
  /\ air = <<>> /\ \E f \in Frames : since[f] < Forever
  /\ push(Unit("noise", 0, <<>>, <<>>), FALSE)
  /\ UNCHANGED <<air, sends, spoilt>>

Fx25Next == Transmit \/ CutOff \/ Hear \/ Silence

Fx25Spec == Fx25Init /\ [][Fx25Next]_fxVars

-----------------------------------------------------------------------------
(* Properties                                                              *)

\* However blocks, plain frames, cut-off and spoilt transmissions follow each
\* other, what a path recovers comes out now or came out within the window (a
\* lock never costs a plain frame, except one that ends on the very bit on
\* which a block ends), and nothing comes out that no path recovered.
DeliveredOnce ==
  /\ \A f \in due : since[f] <= RECENT_WINDOW
  /\ out # <<>> => out[1] \in due

\* No frame comes out twice within the window of is_duplicate, in whichever order
\* its block, its plain copy and its repeats end.
OncePerWindow == [][out' # <<>> => since[out'[1]] + 1 > RECENT_WINDOW]_fxVars
=============================================================================
