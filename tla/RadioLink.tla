----------------------------- MODULE RadioLink -----------------------------
(* A packet on its way: the board configures the radio, a caller composes a  *)
(* packet, the dispatcher estimates its airtime, serialises and sends it,    *)
(* the air may damage the frame, and a receiver reads it into a packet that  *)
(* may have been used for other frames before: read_from() takes any packet, *)
(* a new one, which handle_rx() gives it, among them.                        *)
(*                                                                           *)
(* Bound of the model: the radio is configured, and frames of other nodes    *)
(* are heard, before the packet is composed.                                 *)
EXTENDS Packet, Sx1262

CONSTANTS
    Headers,        \* the headers a caller may set
    Sizes, Counts,  \* arguments of set_path_hash_size_and_count() and ..._count()
    Codes,          \* transport codes
    PathBytes, PayloadBytes,  \* what a packet is filled with, from the start
    Lengths,        \* ... and how much of it
    Noise,          \* bytes that a damaged header or path length may become
    Foreign         \* frames of other nodes

ASSUME RadioLinkAssumption ==
    /\ \A c \in Configs : c.bandwidth \in Bandwidths
    /\ Headers \subseteq PacketHeader
    /\ Sizes \subseteq 1..3 /\ Counts \subseteq Bytes
    /\ Codes \subseteq U16 \X U16
    /\ PathBytes \in Seq(Bytes) /\ PayloadBytes \in Seq(Bytes)
    /\ Lengths \subseteq DOMAIN PathBytes \cap DOMAIN PayloadBytes
    /\ Noise \subseteq Bytes /\ Foreign \subseteq Seq(Bytes)

VARIABLES
    pc,             \* idle, composed, air, done, or panicked
    packet,         \* the packet being composed and sent
    asked,          \* history: header, hash size and count that were set last
    frame,          \* the frame on the air
    intact,         \* history: it is as it was sent
    onAir,          \* history: the estimate for the frame, and its airtime
    received,       \* the packet frames are read into
    heard,          \* history: the frame that was read last
    accepted        \* what read_from() returned for it

linkVars == <<pc, packet, asked, frame, intact, onAir, received, heard, accepted>>
vars == <<driverVars, driverHistory, linkVars>>

Nothing == [estimate |-> 0, airtime |-> 0]

Init ==
    /\ DriverInit
    /\ pc = "idle"
    /\ packet = NewPacket
    /\ asked = [header |-> ParsedHeader(0), size |-> 1, count |-> 0]
    /\ frame = <<>> /\ intact = FALSE
    /\ onAir = Nothing
    /\ received = NewPacket /\ heard = <<>> /\ accepted = FALSE

-----------------------------------------------------------------------------
\* The board, and the calls of the dispatcher that bring no frame.
SetUp(c) ==
    /\ pc = "idle"
    /\ Configure(c)
    /\ UNCHANGED linkVars

Call ==
    /\ pc = "idle"
    /\ returned' \in ChannelActiveReturns \cup (RecvReturns \ {"Ok"})
    /\ UNCHANGED <<driverVars, configured, linkVars>>

Read(f) ==
    /\ heard' = f
    /\ received' = ReadFrom(received, f).packet
    /\ accepted' = ReadFrom(received, f).ok

Hear(f) ==
    /\ pc = "idle"
    /\ "Ok" \in RecvReturns /\ returned' = "Ok"
    /\ Read(f)
    /\ UNCHANGED <<driverVars, configured, pc, packet, asked, frame, intact, onAir>>

-----------------------------------------------------------------------------
\* The caller composes: every field may be set at any time, in any order.
Set(p, request) ==
    /\ pc \in {"idle", "composed"}
    /\ pc' = "composed"
    /\ packet' = p /\ asked' = request
    /\ UNCHANGED <<driverVars, driverHistory, frame, intact, onAir, received, heard, accepted>>

SetHeader(h) == Set([packet EXCEPT !.header = HeaderByte(h)], [asked EXCEPT !.header = h])
SetCodes(codes) == Set([packet EXCEPT !.transport_codes = codes], asked)
SetCount(count) == Set(SetPathHashCount(packet, count), [asked EXCEPT !.count = count % 64])
SetSizeAndCount(size, count) ==
    Set(SetPathHashSizeAndCount(packet, size, count),
        [asked EXCEPT !.size = size, !.count = count % 64])
Mark == Set(Marked(packet), [asked EXCEPT !.header = ParsedHeader(DO_NOT_RETRANSMIT)])

\* path.extend_from_slice() and payload.extend_from_slice(): what does not fit is refused.
FillPath(n) ==
    /\ packet.path = <<>> /\ n <= MAX_PATH_SIZE
    /\ Set([packet EXCEPT !.path = SubSeq(PathBytes, 1, n)], asked)

FillPayload(n) ==
    /\ packet.payload = <<>> /\ n <= MAX_PACKET_PAYLOAD
    /\ Set([packet EXCEPT !.payload = SubSeq(PayloadBytes, 1, n)], asked)

Compose ==
    \/ \E h \in Headers : SetHeader(h)
    \/ \E codes \in Codes : SetCodes(codes)
    \/ \E count \in Counts : SetCount(count)
    \/ \E size \in Sizes, count \in Counts : SetSizeAndCount(size, count)
    \/ \E n \in Lengths : FillPath(n) \/ FillPayload(n)
    \/ Mark

-----------------------------------------------------------------------------
\* maybe_transmit(): the packet is estimated by its wire_len(), then written and sent.
Transmit ==
    /\ pc = "composed"
    /\ \/ /\ WriteToPanics(packet)
          /\ pc' = "panicked"
          /\ UNCHANGED <<returned, frame, intact, onAir>>
       \/ /\ ~WriteToPanics(packet)
          /\ returned' \in SendReturns \ {"Ok"}
          /\ pc' = "done"
          /\ UNCHANGED <<frame, intact, onAir>>
       \/ /\ ~WriteToPanics(packet)
          /\ "Ok" \in SendReturns /\ returned' = "Ok"
          /\ pc' = "air"
          /\ frame' = WriteTo(packet) /\ intact' = TRUE
          /\ onAir' = [estimate |-> EstimateAirtimeMs(WireLen(packet)),
                       airtime |-> AirtimeMs(tx_pkt_params.preamble, modulation.sf,
                                             modulation.bw, modulation.cr,
                                             Len(WriteTo(packet)))]
    /\ UNCHANGED <<driverVars, configured, packet, asked, received, heard, accepted>>

\* The air (external) loses the end of the frame, or changes a byte of its structure.
Damage ==
    /\ pc = "air" /\ intact
    /\ intact' = FALSE
    /\ \/ \E n \in 0..(Len(frame) - 1) : frame' = SubSeq(frame, 1, n)
       \/ \E i \in DOMAIN frame \cap 1..6, b \in Noise : frame' = [frame EXCEPT ![i] = b]
    /\ UNCHANGED <<driverVars, driverHistory, pc, packet, asked, onAir, received, heard, accepted>>

Arrive ==
    /\ pc = "air"
    /\ pc' = "done"
    /\ Read(frame)
    /\ UNCHANGED <<driverVars, driverHistory, packet, asked, frame, intact, onAir>>

Next ==
    \/ \E c \in Configs : SetUp(c)
    \/ Call
    \/ \E f \in Foreign : Hear(f)
    \/ Compose
    \/ Transmit
    \/ Damage
    \/ Arrive

Spec == Init /\ [][Next]_vars
-----------------------------------------------------------------------------
TypeOK ==
    /\ pc \in {"idle", "composed", "air", "done", "panicked"}
    /\ packet \in Packets /\ received \in Packets
    /\ asked \in [header : [route_type : 0..3, payload_type : 0..15, version : 0..3],
                  size : 1..3, count : 0..63]
    /\ frame \in Seq(Bytes) /\ heard \in Seq(Bytes) /\ Len(frame) <= MAX_TRANS_UNIT
    /\ intact \in BOOLEAN /\ accepted \in BOOLEAN

\* The fields of a packet do not disturb each other: its header parses to what was
\* set, and its hash size and count are the last ones asked for, however they were
\* set one after the other (a count beyond 63 does not reach into the size).
FieldsAsAsked ==
    /\ ParsedHeader(packet.header) = asked.header
    /\ PathHashSize(packet) = asked.size /\ PathHashCount(packet) = asked.count

\* A packet whose path is as long as it says, and without codes that its route does
\* not carry, arrives as it was composed, in every field.
Regular(p) ==
    /\ Len(p.path) = PathByteLen(p)
    /\ ~HasTransportCodes(p) => p.transport_codes = <<0, 0>>

RoundTrip ==
    pc = "done" /\ intact /\ Regular(packet) => accepted /\ received = packet

\* A frame that is accepted leaves nothing of the frames read before, accepted or
\* rejected half-way, in the packet (packet.rs 185).
NothingCarriedOver == accepted => received = ReadFrom(NewPacket, heard).packet

\* What is accepted can be used and sent again: its path is whole (the responder cuts
\* it into hashes, main.rs 399-405), write_to() does not panic and gives the frame
\* back byte for byte, and wire_len(), by which it is admitted, is the frame's length.
AcceptedIsWhole ==
    accepted => /\ IsValidPathLen(received)
                /\ Len(received.path) = PathByteLen(received)
                /\ ~WriteToPanics(received)
                /\ WriteTo(received) = heard
                /\ WireLen(received) = Len(heard)

\* The three parameters are made from one configuration, wherever a reconfiguration
\* fails, and from the last one if that was configured without an error.
OneConfiguration ==
    /\ (modulation = Unset) = (tx_pkt_params = Unset)
    /\ (modulation = Unset) = (rx_pkt_params = Unset)
    /\ modulation # Unset =>
         tx_pkt_params = rx_pkt_params /\ tx_pkt_params.modulation = modulation
    /\ configured.last => modulation = ModulationParams(config)

\* A driver that was configured once never answers at once that it is not (the
\* dispatcher, which ignores the error, would spin: dispatcher.rs 149), whatever
\* reconfigurations fail afterwards.
StaysUsable == configured.ever => returned # "InvalidState"

\* The estimate by which a packet is admitted is of the frame that is sent, in length and
\* in modulation, and short by the preamble symbols beyond eight, up to the rounding of
\* both to ms, unless the last reconfiguration failed (sx1262.rs 103, 190).
ShortByThePreamble ==
    configured.last /\ onAir # Nothing =>
        LET missing == (config.preamble_symbols - EstimatedPreamble)
                         * SymbolUs(config.spreading_factor, config.bandwidth)
        IN  1000 * (onAir.airtime - onAir.estimate) \in (missing - 999)..(missing + 999)
=============================================================================
