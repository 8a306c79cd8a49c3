------------------------------- MODULE MCHdlc -------------------------------
(* TLC instance of Hdlc: no content (a runt) and contents of one to three *)
(* bytes chosen for their runs of ones (0xFE, 0xF8 0x1F, an FCS ending in  *)
(* ones), a buffer of 4 bytes (so two of content), a raw window of 48      *)
(* bits, and every single line error at every position under every policy. *)
EXTENDS Hdlc

ByteBits(b) == [i \in 1 .. 8 |-> (b \div 2 ^ (i - 1)) % 2]
Bytes(bs) == FlattenSeq([i \in 1 .. Len(bs) |-> ByteBits(bs[i])])

MCContents == {<<>>, Bytes(<<254>>), Bytes(<<248, 31>>),
               Bytes(<<0, 124>>), Bytes(<<62, 62, 62>>)}

\* The first octet of an AX.25 frame is an address octet, whose extension
\* bit (bit 0) must be clear for the frame to parse.
MCSane(c) == c[1] = 0
=============================================================================
