------------------------------ MODULE MCBridge ------------------------------
(***************************************************************************)
(* Traffic for Bridge: at least one report of every kind the library       *)
(* builds, and positions at the edges of the grids.                        *)
(***************************************************************************)
EXTENDS Bridge

Plain(s) == [dest |-> Bytes("APRS"), info |-> Bytes(s)]

Texts ==
  { "!4903.50N/07201.75W-Test", "=4903.50N/07201.75W>088/036/A=001234", "!4903.5 N/07201.75W-",
    "!49  .  S\\072  .  E-", "!4903.50N/07201.75W#PHG5132", "=4903.50N/07201.75W#PHG51323/x",
    "!4903.50N/07201.75W-RNG0050", "!4903.50N/07201.75W-DFS2360", "!9000.00N/18000.00E-",
    "!8959.99S/17959.99W-", "!4903.50n307201.75w#", "!0000.00N/00000.00E>.../...",
    "!4903.50N/07201.75W-!W01!|ss11|", "=/5L!!<*e7>7P[cs", "=/5L!!<*e7O!ESgga", "=/5L!!<*e7>{?!",
    "!a5L!!<*e7# sT", "/092345z4903.50N/07201.75W>", "@092345/4903.  N/07201.  W>088/036",
    "/234517h/5L!!<*e7>7P[",
    "@092345z4903.50N/07201.75W_090/005g010t077r001p002P003h50b09900",
    "!4903.5 N/07201.7 W_.../...t-05h00L345s003x", "_10090556c220s004g005t077r000p000P000h50b09900",
    "_10090556c220s...s012l123", "T#005,199,000,255,073,123,01101001", "T#12,1.5,-2,3,,5,00000000text",
    ";LEADER   *092345z4903.50N/07201.75W>088/036", ";LEADER   _092345z/5L!!<*e7> sT",
    ")AID #2!4903.50N/07201.75WA", ")AID #2_4903.5 N/07201.7 WAcomment", ")AID #2!/5L!!<*e7> sTcomment",
    ">092345zNet Control", ">IO91SX/G", "<IGATE,MSG_CNT=30,LOC_CNT=61", ":WU2Z     :Testing{003",
    ":WU2Z     :ack003", ":WU2Z     :rej12", ":N0QBF-11 :PARM.Battery,Temp", "hello", "!bad",
    "}W1AW>APRS,TCPIP,N0CALL*:!4903.50N/07201.75W-", "}W1AW>S32U6T:'(_fn!Oj/",
    "$ULTW0031003702CE0069----000086A00001----011901CC00000005",
    "$GPRMC,063909,A,3349.4302,N,11700.3721,W,43.022,89.3,291099,13.6,E*52" }

\* Compressed reports a hair below and above whole degrees and grid points.
Edge(latDeg, lonDeg, frac, neg) ==
  [dest |-> Bytes("APRS"),
   info |-> build_packet([kind |-> "Position",
     v |-> [position |-> [lat |-> Angle(neg, latDeg, frac), lon |-> Angle(neg, lonDeg, frac),
                          symbol |-> Bytes("/>"), messaging |-> FALSE, compressed |-> TRUE,
                          ambiguity |-> EXACT, extension |-> NoExtension, comment |-> <<>>],
            cs |-> NoData, type |-> DefaultType]]).v]
Edges == {Edge(l[1], l[2], f, n) : l \in {<<0, 9>>, <<49, 72>>, <<89, 99>>, <<89, 179>>}, n \in BOOLEAN,
            f \in {0, 95232, UNITS_PER_DEGREE \div 2 + 95231, UNITS_PER_DEGREE - 40000}}

MicEReports == { [dest |-> Bytes("S32U6T"), info |-> <<MIC_E_CURRENT>> \o Bytes("(_fn!Oj/]!4T}x")],
                 [dest |-> Bytes("TT5ULL"), info |-> <<MIC_E_OLD>> \o Bytes("vXfn!Oj/")] }

Traffic == {Plain(s) : s \in Texts} \cup Edges \cup MicEReports

BridgeSpec == BridgeInit /\ [][BridgeNext]_bridgeVars
=============================================================================
