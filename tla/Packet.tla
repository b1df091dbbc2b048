------------------------------- MODULE Packet -------------------------------
(* The packet and its wire format (crates/meshcore-core/src/packet.rs):      *)
(* header, transport codes if the route has them, path length, path, payload.*)
(* A frame is a sequence of bytes.  `snr`, which the codec never touches, is *)
(* left out.                                                                 *)
EXTENDS Header, Sequences

CONSTANTS MAX_PATH_SIZE, MAX_PACKET_PAYLOAD, MAX_TRANS_UNIT

ASSUME PacketAssumption ==
    /\ MAX_PATH_SIZE \in Nat /\ MAX_PACKET_PAYLOAD \in Nat
    /\ MAX_TRANS_UNIT \in Nat
    /\ 1 + 4 + 1 + MAX_PATH_SIZE + MAX_PACKET_PAYLOAD <= MAX_TRANS_UNIT

Bytes == 0..255
U16_MAX == 65535
U16 == 0..U16_MAX

Packets ==
    [header : Bytes, path_len : Bytes, transport_codes : U16 \X U16,
     path : {s \in Seq(Bytes) : Len(s) <= MAX_PATH_SIZE},
     payload : {s \in Seq(Bytes) : Len(s) <= MAX_PACKET_PAYLOAD}]

\* Packet::new().
NewPacket ==
    [header |-> 0, path_len |-> 0, transport_codes |-> <<0, 0>>,
     path |-> <<>>, payload |-> <<>>]

HasTransportCodes(p) == CarriesTransportCodes(p.header % 4)

-----------------------------------------------------------------------------
\* path_len: the number of hashes in bits 0-5, their size less one in bits 6-7.
PathHashSize(p) == p.path_len \div 64 + 1
PathHashCount(p) == p.path_len % 64
PathByteLen(p) == PathHashCount(p) * PathHashSize(p)
IsValidPathLen(p) == p.path_len \div 64 # 3

\* Mutant: the count is not masked.
SetPathHashCount_Unmasked(p, count) ==
    [p EXCEPT !.path_len = (((@ \div 64) * 64) + count) % 256]

SetPathHashCount(p, count) ==
    [p EXCEPT !.path_len = (@ \div 64) * 64 + (count % 64)]

\* saturating_sub: size 0 is encoded as size 1.
SetPathHashSizeAndCount(p, size, count) ==
    LET sizeEnc == IF size = 0 THEN 0 ELSE (size - 1) % 4
    IN  [p EXCEPT !.path_len = sizeEnc * 64 + (count % 64)]

\* mark_do_not_retransmit().
Marked(p) == [p EXCEPT !.header = DO_NOT_RETRANSMIT]

-----------------------------------------------------------------------------
ToLeBytes(u) == <<u % 256, u \div 256>>
FromLeBytes(low, high) == low + 256 * high

\* Mutant: the transport codes are not counted.
WireLen_NoCodes(p) == 1 + 1 + PathByteLen(p) + Len(p.payload)

WireLen(p) ==
    1 + (IF HasTransportCodes(p) THEN 4 ELSE 0) + 1 + PathByteLen(p) + Len(p.payload)

\* write_to() slices the path up to path_byte_len() and fills a buffer of
\* MAX_TRANS_UNIT bytes: beyond either it panics.
WriteToPanics(p) ==
    \/ Len(p.path) < PathByteLen(p)
    \/ WireLen(p) > MAX_TRANS_UNIT

\* Mutant: the codes are written high byte first.
WriteTo_BigEndian(p) ==
    <<p.header>>
    \o (IF HasTransportCodes(p)
        THEN <<p.transport_codes[1] \div 256, p.transport_codes[1] % 256>>
             \o ToLeBytes(p.transport_codes[2])
        ELSE <<>>)
    \o <<p.path_len>>
    \o SubSeq(p.path, 1, PathByteLen(p))
    \o p.payload

\* write_to(): the bytes written.
WriteTo(p) ==
    <<p.header>>
    \o (IF HasTransportCodes(p)
        THEN ToLeBytes(p.transport_codes[1]) \o ToLeBytes(p.transport_codes[2])
        ELSE <<>>)
    \o <<p.path_len>>
    \o SubSeq(p.path, 1, PathByteLen(p))
    \o p.payload

-----------------------------------------------------------------------------
\* read_from() into the packet p: field after field, and the checks between them.
Accepted(p) == [ok |-> TRUE, packet |-> p]
Rejected(p) == [ok |-> FALSE, packet |-> p]

WithCodes(p, src) ==
    [p EXCEPT !.transport_codes =
        IF HasTransportCodes(p)
        THEN <<FromLeBytes(src[2], src[3]), FromLeBytes(src[4], src[5])>>
        ELSE <<0, 0>>]

\* Mutant: the payload is not bounded.
ReadPayload_NoLimit(p, src, i) ==
    Accepted([p EXCEPT !.payload = SubSeq(src, i + 1, Len(src))])

ReadPayload(p, src, i) ==
    IF Len(src) - i > MAX_PACKET_PAYLOAD THEN Rejected(p)
    ELSE Accepted([p EXCEPT !.payload = SubSeq(src, i + 1, Len(src))])

\* Mutant: an empty path is not stored, so the path of an earlier frame stays.
ReadPath_KeepsOld(p, src, i) ==
    LET bl == PathByteLen(p)
    IN  IF ~IsValidPathLen(p) \/ i + bl > Len(src) THEN Rejected(p)
        ELSE IF bl > MAX_PATH_SIZE THEN Rejected([p EXCEPT !.path = <<>>])
        ELSE ReadPayload([p EXCEPT !.path = IF bl = 0 THEN @ ELSE SubSeq(src, i + 1, i + bl)],
                         src, i + bl)

\* The path, of whole hashes, is replaced before the payload is checked.
ReadPath(p, src, i) ==
    LET bl == PathByteLen(p)
    IN  IF ~IsValidPathLen(p) \/ i + bl > Len(src) THEN Rejected(p)
        ELSE IF bl > MAX_PATH_SIZE THEN Rejected([p EXCEPT !.path = <<>>])
        ELSE ReadPayload([p EXCEPT !.path = SubSeq(src, i + 1, i + bl)], src, i + bl)

ReadFrom(old, src) ==
    IF Len(src) < 2 THEN Rejected(old)
    ELSE LET p == [old EXCEPT !.header = src[1]]
             i == IF HasTransportCodes(p) THEN 5 ELSE 1
         IN  IF Len(src) < i THEN Rejected(p)
             ELSE IF Len(src) = i THEN Rejected(WithCodes(p, src))
             ELSE ReadPath([WithCodes(p, src) EXCEPT !.path_len = src[i + 1]], src, i + 1)
=============================================================================
