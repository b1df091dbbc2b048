--------------------------- MODULE MCPacketDedup ---------------------------
(* The deduplication table on a small instance.                              *)
EXTENDS PacketDedup

Packet(type, pathLen, payload, direct) ==
    [payload_type |-> type, path_len |-> pathLen, payload |-> payload, direct |-> direct]

\* A group text heard by two routes, two others, and one TRACE on two paths.
MCPackets ==
    {Packet("GrpTxt", 0, "a", FALSE), Packet("GrpTxt", 2, "a", TRUE),
     Packet("GrpTxt", 0, "b", FALSE), Packet("Advert", 0, "a", FALSE),
     Packet("Trace", 1, "a", FALSE), Packet("Trace", 2, "a", TRUE)}
=============================================================================
