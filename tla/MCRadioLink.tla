---------------------------- MODULE MCRadioLink ----------------------------
(* Packets of all shapes, some of them broken, and frames of all shapes.     *)
EXTENDS RadioLink

Config(freq, bw, sf, cr, power, preamble) ==
    [frequency |-> freq, bandwidth |-> bw, spreading_factor |-> sf, coding_rate |-> cr,
     tx_power |-> power, preamble_symbols |-> preamble]

\* RadioConfig::default(), the firmware's, and the slowest with the widest band and the
\* preamble of the estimate.
MCDefaultConfig == Config(869618, 625, 8, 5, 22, 16)
MCConfigs == {Config(910525, 625, 7, 5, 20, 16), Config(869618, 5000, 12, 8, 14, 8)}

MCHeaders ==
    {[route_type |-> Flood, payload_type |-> GrpTxt, version |-> 0],
     [route_type |-> TransportDirect, payload_type |-> 9, version |-> 2]}
MCCodes == {<<258, 772>>}
MCPathBytes == <<11, 12, 13>>
MCPayloadBytes == <<21, 22, 23>>

\* A flood with a path of two hashes; then, each rejected later than the one before:
\* too short, codes cut off, length cut off, four bytes per hash, path cut off, path
\* beyond its capacity, payload beyond its capacity.
MCForeign ==
    {<<1, 2, 90, 91, 92>>,
     <<2>>, <<0, 93, 94>>, <<3, 93, 94, 95, 96>>, <<2, 193>>, <<2, 131, 97>>,
     <<2, 66, 97, 97, 97, 97>>, <<2, 1, 98, 99, 99, 99>>}
=============================================================================
