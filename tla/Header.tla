------------------------------- MODULE Header -------------------------------
(* The header byte of a packet (crates/meshcore-core/src/header.rs): route   *)
(* in bits 0-1, payload type in bits 2-5, version in bits 6-7.  A variant of *)
(* an enumeration is its discriminant.                                       *)
EXTENDS Integers

TransportFlood == 0
Flood == 1
Direct == 2
TransportDirect == 3
RouteTypes == {TransportFlood, Flood, Direct, TransportDirect}

GrpTxt == 5
RawCustom == 15
\* Request .. Control, and RawCustom: 12, 13 and 14 are no payload types.
PayloadTypes == 0..11 \cup {RawCustom}

PayloadVersions == 0..3

PacketHeader ==
    [route_type : RouteTypes, payload_type : PayloadTypes, version : PayloadVersions]

DO_NOT_RETRANSMIT == 255

CarriesTransportCodes(route) == route \in {TransportFlood, TransportDirect}

\* PacketHeader::try_from(byte): an error unless the result is in PacketHeader.
ParsedHeader(byte) ==
    [route_type |-> byte % 4,
     payload_type |-> (byte \div 4) % 16,
     version |-> (byte \div 64) % 4]

\* Mutant: the version is shifted by the width of the payload type only.
HeaderByte_VersionLow(h) == h.route_type + 4 * h.payload_type + 32 * h.version

\* u8::from(header): the fields share no bits, so | is +.
HeaderByte(h) == h.route_type + 4 * h.payload_type + 64 * h.version
=============================================================================
