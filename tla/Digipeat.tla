------------------------------ MODULE Digipeat ------------------------------
(***************************************************************************)
(* src/src/digipeat.rs: the pure core every digipeater of the repository   *)
(* shares.  relay_decision maps a heard path to a mutated path or to a     *)
(* reason not to relay; check_and_insert is the duplicate ring.            *)
(*                                                                         *)
(* An address is <<callsign, ssid>>, a hop [addr, used] with used the H    *)
(* bit.  A transmission's fingerprint (FNV-1a over source, destination and *)
(* information field, never over the path) is its packet: two packets are  *)
(* assumed not to collide in 64 bits.  The ring stores last-heard times;   *)
(* only now - time is ever used, so an entry carries its age, which stops  *)
(* growing at Window, where it has expired for good.                       *)
(***************************************************************************)
EXTENDS Integers, Sequences, SequencesExt, FiniteSetsExt

CONSTANTS MaxDigipeaters,   \* longest path an AX.25 frame carries
          Window            \* suppression window, in clock ticks

ASSUME LimitsAssumption == MaxDigipeaters \in Nat \ {0} /\ Window \in Nat \ {0}

WIDE_N_MAX == 7

\* The callsigns parse_wide accepts, with their class n.
WideClass == [c \in {"WIDE1", "WIDE2", "WIDE3", "WIDE4", "WIDE5", "WIDE6", "WIDE7"} |->
                CASE c = "WIDE1" -> 1 [] c = "WIDE2" -> 2 [] c = "WIDE3" -> 3
                  [] c = "WIDE4" -> 4 [] c = "WIDE5" -> 5 [] c = "WIDE6" -> 6
                  [] c = "WIDE7" -> WIDE_N_MAX]

IsWide(addr) == addr[1] \in DOMAIN WideClass
Remaining(addr) == addr[2]

Hop(addr) == [addr |-> addr, used |-> FALSE]
UsedHop(addr) == [addr |-> addr, used |-> TRUE]

Relay(path) == [verdict |-> "relay", path |-> path]
Ignore(reason) == [verdict |-> reason, path |-> <<>>]

Unused(path) == {i \in DOMAIN path : ~path[i].used}
FirstUnused(path) == Min(Unused(path))

-----------------------------------------------------------------------------
(* The WIDEn-N rules, for the unused hop at i                              *)

\* Mutant: the last requested hop is relayed without spending it.
RelayWideUnspent(path, i, my_call) ==
  IF Remaining(path[i].addr) = 1 THEN Relay(path)
  ELSE IF Len(path) + 1 > MaxDigipeaters THEN Ignore("PathFull")
  ELSE Relay(InsertAt([path EXCEPT ![i].addr[2] = @ - 1], i, UsedHop(my_call)))

\* N = 1 consumes the WIDE hop in place; N > 1 decrements it and inserts
\* my_call, used, in front of it, when the path has room for one more hop.
RelayWide(path, i, my_call) ==
  IF Remaining(path[i].addr) = 1
  THEN Relay([path EXCEPT ![i].used = TRUE])
  ELSE IF Len(path) + 1 > MaxDigipeaters THEN Ignore("PathFull")
  ELSE Relay(InsertAt([path EXCEPT ![i].addr[2] = @ - 1], i, UsedHop(my_call)))

\* A policy serves exact addresses and WIDEn-N up to class limit (0: none).
\* Exact aliases take precedence over the WIDE pattern.
relay_decision(path, policy) ==
  IF Len(path) > MaxDigipeaters THEN Ignore("PathFull")
  ELSE IF Unused(path) = {} THEN Ignore("AllHopsUsed")
  ELSE LET i   == FirstUnused(path)
           hop == path[i].addr
       IN  IF hop \in policy.exact
           THEN Relay([path EXCEPT ![i] =
                  UsedHop(IF policy.action = "Substitute" THEN policy.my_call ELSE hop)])
           ELSE IF ~IsWide(hop) \/ policy.limit = 0 THEN Ignore("NotForUs")
           ELSE IF WideClass[hop[1]] > policy.limit THEN Ignore("WideAboveLimit")
           ELSE IF Remaining(hop) \notin 1 .. WideClass[hop[1]] THEN Ignore("WideInvalid")
           ELSE RelayWide(path, i, policy.my_call)

\* Relays a hop still asks for: N if it is an unused WIDEn-N, one if it is any
\* other unused hop.
Asked(hop) == IF hop.used THEN 0 ELSE IF IsWide(hop.addr) THEN Remaining(hop.addr) ELSE 1

\* Relays a path still asks for: the sum over its hops.
HopBudget(path) ==
  LET upto[k \in 0 .. Len(path)] == IF k = 0 THEN 0 ELSE upto[k - 1] + Asked(path[k])
  IN  upto[Len(path)]

-----------------------------------------------------------------------------
(* DupeRing                                                                *)

Free == [fp |-> 0, age |-> 0]      \* None: never used (packets are not 0)
EmptyRing(n) == [entries |-> [i \in 1 .. n |-> Free], cursor |-> 0]

Slots(ring) == Len(ring.entries)
Holding(ring, fp) == {i \in DOMAIN ring.entries : ring.entries[i].fp = fp}

\* Mutant: an expired fingerprint is reported fresh but not re-armed.
CheckWithoutRearm(ring, fp) ==
  IF Holding(ring, fp) # {}
  THEN [fresh |-> ring.entries[Min(Holding(ring, fp))].age >= Window, ring |-> ring]
  ELSE [fresh |-> TRUE,
        ring  |-> IF Slots(ring) = 0 THEN ring
                  ELSE [entries |-> [ring.entries EXCEPT ![ring.cursor + 1] =
                                       [fp |-> fp, age |-> 0]],
                        cursor  |-> (ring.cursor + 1) % Slots(ring)]]

\* A fingerprint inside its window is a duplicate and keeps its time; an
\* expired one is re-armed where it is; a new one takes the cursor's slot.
check_and_insert(ring, fp) ==
  IF Holding(ring, fp) # {}
  THEN LET i == Min(Holding(ring, fp))
       IN  IF ring.entries[i].age < Window
           THEN [fresh |-> FALSE, ring |-> ring]
           ELSE [fresh |-> TRUE, ring |-> [ring EXCEPT !.entries[i].age = 0]]
  ELSE [fresh |-> TRUE,
        ring  |-> IF Slots(ring) = 0 THEN ring
                  ELSE [entries |-> [ring.entries EXCEPT ![ring.cursor + 1] =
                                       [fp |-> fp, age |-> 0]],
                        cursor  |-> (ring.cursor + 1) % Slots(ring)]]

Older(age) == IF age < Window THEN age + 1 ELSE age

\* The caller's clock moves on by one tick.
Aged(ring) ==
  [ring EXCEPT !.entries = [i \in DOMAIN ring.entries |->
     IF ring.entries[i].fp = Free.fp THEN Free
     ELSE [ring.entries[i] EXCEPT !.age = Older(@)]]]
=============================================================================
