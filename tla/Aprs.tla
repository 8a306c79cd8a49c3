-------------------------------- MODULE Aprs --------------------------------
(***************************************************************************)
(* src/src/aprs.rs: which parser an information field is given to, and how *)
(* a packet is written again.  A packet is [kind, v]: the variants of      *)
(* AprsPacket and of DecodedKind.                                          *)
(***************************************************************************)
EXTENDS Messages, Weather, MicE, Nmea, Ax25

Packet(kind, parsed) == IF parsed.ok THEN Ok([kind |-> kind, v |-> parsed.v]) ELSE Err

\* The identifiers AprsPacket::parse knows; any other is InvalidDataType.
PacketTypes == Range(Bytes("!=/@_T;)>:<"))

\* AprsPacket::parse.  A weather symbol asks for the weather reading of a
\* position first, and falls back to the plain one.
parse_packet(info) ==
  LET choose(plain, weather) ==
        IF ~plain.position.compressed /\ plain.position.symbol[2] = B["_"] /\ weather.ok
        THEN Packet("PositionWeather", weather)
        ELSE Packet(IF info[1] \in {B["/"], B["@"]} THEN "PositionTimestamped"
                    ELSE IF plain.cs = NoData THEN "Position" ELSE "PositionCs", Ok(plain))
  IN  IF info = <<>> THEN Err
      ELSE CASE info[1] \in {B["!"], B["="], B["/"], B["@"]} ->
                  Then(IF info[1] \in {B["!"], B["="]} THEN parse_position(info) ELSE parse_timestamped(info),
                       LAMBDA plain : choose(plain, parse_position_weather(info)))
             [] info[1] = B["_"] -> Packet("Weather", parse_positionless(info))
             [] info[1] = B["T"] -> Packet("Telemetry", parse_telemetry(info))
             [] info[1] = B[";"] -> Packet("Object", parse_object(info))
             [] info[1] = B[")"] -> Packet("Item", parse_item(info))
             [] info[1] = B[">"] -> Packet("Status", parse_status(info))
             [] info[1] = B[":"] -> Packet("Message", parse_message(info))
             [] info[1] = B["<"] -> Packet("Capabilities", parse_capabilities(info))
             [] OTHER -> Err

\* build_inner, build, to_vec.
build_packet(p) ==
  CASE p.kind \in {"Position", "PositionCs"} -> build_position(p.v)
    [] p.kind = "PositionTimestamped" -> build_timestamped(p.v)
    [] p.kind = "PositionWeather" -> build_position_weather(p.v)
    [] p.kind = "Weather" -> build_positionless(p.v)
    [] p.kind = "Telemetry" -> build_telemetry(p.v)
    [] p.kind = "Object" -> build_object(p.v)
    [] p.kind = "Item" -> build_item(p.v)
    [] p.kind = "Status" -> build_status(p.v)
    [] p.kind = "Message" -> build_message(p.v)
    [] p.kind = "Capabilities" -> build_capabilities(p.v)

\* is_data_type_identifier: letters but T, digits, '|' and '~' are text.
is_data_type_identifier(b) ==
  /\ b \in {28, 29} \cup 33 .. 126
  /\ b # B["T"] => ~IsAlpha(b) /\ ~IsDigit(b) /\ b \notin {B["|"], B["~"]}

Kind(k) == [kind |-> k, v |-> <<>>]

\* DecodedKind::classify; dest is the destination's callsign, <<>> if unknown.
classify(dest, info) ==
  LET Else(kind, parsed, other) == IF parsed.ok THEN [kind |-> kind, v |-> parsed.v] ELSE Kind(other)
      fallback ==
        IF info[1] \in PacketTypes THEN Kind("Malformed")
        ELSE IF ~is_data_type_identifier(info[1]) /\ \E i \in DOMAIN info : IsGraphic(info[i])
        THEN Kind("Text") ELSE Kind("Unsupported")
      typed(packet) == IF packet.ok THEN packet.v ELSE fallback
  IN  IF info = <<>> THEN Kind("Unsupported")
      ELSE IF info[1] \in {MIC_E_CURRENT, MIC_E_OLD}
      THEN IF dest = <<>> THEN Kind("NeedsDestination")
           ELSE Else("MicE", decode_mic_e(as_padded(dest), info), "Malformed")
      ELSE IF detect(info) # "none" THEN Else("Ultimeter", parse_ultimeter(info), "Unsupported")
      ELSE IF info[1] = B["$"] THEN Else("Nmea", parse_nmea(info), "Unsupported")
      ELSE IF info[1] = B["}"] THEN Else("ThirdParty", parse_third_party(info), "Malformed")
      ELSE typed(parse_packet(info))

\* Decoded::is_typed and is_aprs.
is_typed(d) == d.kind \notin {"Text", "NeedsDestination", "Unsupported", "Malformed"}
is_aprs(d) == d.kind # "Text"

-----------------------------------------------------------------------------
(* Frames                                                                  *)

\* build_ui_frame, build_ui_frame_to_vec.
build_ui_frame(p, dest, src, path) ==
  Then(build_packet(p), LAMBDA info :
    Then(with_hops(dest, src, [i \in DOMAIN path |-> [address |-> path[i], repeated |-> FALSE]], info),
         LAMBDA frame : Ok(build_frame(frame))))

\* decoded_from_ui.
decoded_from_ui(frame) == classify(frame.dest.call, frame.info)
=============================================================================
