------------------------------ MODULE MCKeying ------------------------------
(* TLC instance: both commands, both lines, both polarities, a --hold      *)
(* longer and shorter than --max, a --lead beyond --max (which only ptt    *)
(* rejects) and a --drain that does or does not cover the device's buffer. *)
EXTENDS Keying

MCCommands ==
  {a \in [cmd : {"ptt", "transmit"}, lead : {1, 5}, tail : {2}, max : {4},
          hold : {NoHold, 1, 9}, drain : {1, 2}, signal : LineNames,
          invert : BOOLEAN, port : BOOLEAN] :
     /\ a.cmd = "ptt" => a.drain = 1 /\ a.port
     /\ a.cmd = "transmit" => a.hold = NoHold}

\* ptt around a player, with times it accepts.
MCPlayerCommands == {a \in MCCommands : a.cmd = "ptt" /\ a.hold = NoHold /\ a.lead = 1}
=============================================================================
