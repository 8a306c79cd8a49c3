--------------------------- MODULE MCDigipeatNet ---------------------------
(* TLC instance: A and B hear the source, B is between A and C.  A and C   *)
(* run the workstation digipeater, B the embedded one with the documented  *)
(* transmit buffer: packet 2 fits it with one hop, not with two.           *)
EXTENDS DigipeatNet

MCStations == {"A", "B", "C"}
MCTier == [s \in MCStations |-> IF s = "B" THEN "embedded" ELSE "workstation"]
Call(s) == <<s, 1>>
MCPolicy ==
  [s \in MCStations |->
    [my_call |-> Call(s),
     exact   |-> IF s = "C" THEN {Call(s), <<"GATE", 0>>} ELSE {Call(s)},
     limit   |-> IF s = "C" THEN 1 ELSE 2,
     action  |-> IF s = "C" THEN "Substitute" ELSE "Keep"]]
MCRingSlots == [s \in MCStations |-> IF s = "C" THEN 1 ELSE 2]
MCInRange == [t \in MCStations \cup {"S"} |->
                CASE t = "S" -> {"A", "B"} [] t = "A" -> {"B"}
                  [] t = "B" -> {"A", "C"} [] t = "C" -> {"B"}]

MCInfoBytes == [p \in {1, 2} |-> IF p = 1 THEN 10 ELSE 40]
MCTxBuffer == [s \in {"B"} |-> 32768]

MCRequests ==
  [p \in {1, 2} |->
     IF p = 1 THEN {<<Hop(<<"WIDE2", 2>>), Hop(<<"GATE", 0>>)>>,
                    <<Hop(Call("B")), Hop(Call("A"))>>, <<Hop(Call("A")), Hop(Call("B"))>>,
                    <<Hop(<<"WIDE1", 1>>), Hop(<<"WIDE2", 2>>), Hop(<<"GATE", 0>>)>>}
     ELSE {<<Hop(<<"WIDE2", 2>>)>>, <<Hop(Call("B"))>>}]

MCMaxSends == [p \in {1, 2} |-> p]
=============================================================================
