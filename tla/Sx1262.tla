------------------------------- MODULE Sx1262 -------------------------------
(* The radio driver (crates/meshcore-radio/src/sx1262.rs) as the state it    *)
(* keeps: the configuration, and the parameters lora-phy (external) makes    *)
(* from it.  Bandwidths are in tenths of a kHz.  The states of the chip,     *)
(* which every prepare_for_*() of lora-phy leaves for the one it needs, and  *)
(* sleep() and standby(), which touch nothing else, are left out.            *)
EXTENDS Integers

CONSTANTS
    Configs,        \* the configurations configure() may be called with
    DefaultConfig,  \* RadioConfig::default()
    Unset           \* None

VARIABLES
    config, modulation, tx_pkt_params, rx_pkt_params,
    returned,       \* history: what the last call of the driver returned
    configured      \* history: what configure() returned the last time, and ever

driverVars == <<config, modulation, tx_pkt_params, rx_pkt_params>>
driverHistory == <<returned, configured>>

-----------------------------------------------------------------------------
\* The bandwidths of lora-phy (external).
Bandwidths == {78, 104, 156, 208, 313, 417, 625, 1250, 2500, 5000}

\* Mutant: the default bandwidth falls into the next class.
ToBandwidth_Narrow(bw) ==
    CASE bw < 625 -> 417
      [] bw \in 625..1251 -> 1250
      [] bw \in 1252..2501 -> 2500
      [] bw > 2501 -> 5000

\* to_bandwidth(): the first class that holds the bandwidth asked for.
ToBandwidth(bw) ==
    CASE bw <= 79 -> 78
      [] bw \in 80..105 -> 104
      [] bw \in 106..157 -> 156
      [] bw \in 158..209 -> 208
      [] bw \in 210..313 -> 313
      [] bw \in 314..417 -> 417
      [] bw \in 418..626 -> 625
      [] bw \in 627..1251 -> 1250
      [] bw \in 1252..2501 -> 2500
      [] bw > 2501 -> 5000

\* What no spreading factor or coding rate stands for is taken for the default.
ToSpreadingFactor(sf) == IF sf \in {5, 6, 7, 9, 10, 11, 12} THEN sf ELSE 8
ToCodingRate(cr) == IF cr \in {6, 7, 8} THEN cr ELSE 5

\* lora.create_modulation_params() and create_{tx,rx}_packet_params(): what tells one
\* configuration's parameters from another's (the flags and the length limit do not).
ModulationParams(c) ==
    [frequency |-> c.frequency, sf |-> ToSpreadingFactor(c.spreading_factor),
     bw |-> ToBandwidth(c.bandwidth), cr |-> ToCodingRate(c.coding_rate)]
PacketParams(c) == [preamble |-> c.preamble_symbols, modulation |-> ModulationParams(c)]

ASSUME Sx1262Assumption ==
    /\ Configs \cup {DefaultConfig} \subseteq
         [frequency : Nat, bandwidth : Nat, spreading_factor : Nat, coding_rate : Nat,
          tx_power : Int, preamble_symbols : Nat]
    /\ \A c \in Configs :
         /\ c.spreading_factor \in 5..12 /\ c.coding_rate \in 5..8
         /\ ModulationParams(c) # Unset /\ PacketParams(c) # Unset

-----------------------------------------------------------------------------
DriverInit ==
    /\ config = DefaultConfig
    /\ modulation = Unset /\ tx_pkt_params = Unset /\ rx_pkt_params = Unset
    /\ returned = "nothing" /\ configured = [last |-> FALSE, ever |-> FALSE]

\* Mutant: each of the parameters is stored as soon as it is made.
Configure_StoredAtOnce(c) ==
    \E made \in 0..3 :
        /\ config' = c
        /\ modulation' = IF made >= 1 THEN ModulationParams(c) ELSE modulation
        /\ tx_pkt_params' = IF made >= 2 THEN PacketParams(c) ELSE tx_pkt_params
        /\ rx_pkt_params' = IF made = 3 THEN PacketParams(c) ELSE rx_pkt_params
        /\ returned' = IF made = 3 THEN "Ok" ELSE "ConfigError"
        /\ configured' = [last |-> made = 3, ever |-> configured.ever \/ made = 3]

\* Mutant: the old parameters are dropped before the new ones are made.
Configure_DropsOld(c) ==
    \E made \in 0..3 :
        /\ config' = c
        /\ modulation' = IF made = 3 THEN ModulationParams(c) ELSE Unset
        /\ tx_pkt_params' = IF made = 3 THEN PacketParams(c) ELSE Unset
        /\ rx_pkt_params' = IF made = 3 THEN PacketParams(c) ELSE Unset
        /\ returned' = IF made = 3 THEN "Ok" ELSE "ConfigError"
        /\ configured' = [last |-> made = 3, ever |-> configured.ever \/ made = 3]

\* configure(): the configuration is stored first; lora-phy may fail to make any of
\* the three parameters, and only all of them are stored.
Configure(c) ==
    /\ config' = c
    /\ \/ /\ modulation' = ModulationParams(c)
          /\ tx_pkt_params' = PacketParams(c)
          /\ rx_pkt_params' = PacketParams(c)
          /\ returned' = "Ok"
          /\ configured' = [last |-> TRUE, ever |-> TRUE]
       \/ /\ UNCHANGED <<modulation, tx_pkt_params, rx_pkt_params>>
          /\ returned' = "ConfigError"
          /\ configured' = [configured EXCEPT !.last = FALSE]

\* send(), recv() and channel_active(): without parameters they return at once,
\* with them after lora-phy has worked, or failed.
SendReturns ==
    IF modulation = Unset \/ tx_pkt_params = Unset THEN {"InvalidState"}
    ELSE {"Ok", "SendFailed"}

RecvReturns ==
    IF modulation = Unset \/ rx_pkt_params = Unset THEN {"InvalidState"}
    ELSE {"Ok", "RecvFailed"}

ChannelActiveReturns ==
    IF modulation = Unset THEN {"InvalidState"} ELSE {"Ok", "RecvFailed"}

-----------------------------------------------------------------------------
\* The duration of a symbol: (1 << sf) * 1_000_000 / bw_hz, in u32, is (2^sf * 10000) / bw
\* with bw in tenths of a kHz, and no overflow up to sf = 12.
SymbolUs(sf, bw) == (2^sf * 10000) \div bw

PayloadSymbols(sf, cr, len) ==
    LET bits == (IF len * 8 > sf * 4 THEN len * 8 - sf * 4 ELSE 0) + 28 + 16
    IN  8 + ((bits + sf * 4 - 1) \div (sf * 4)) * cr

\* The airtime in ms of `len` bytes after a preamble and four symbols of synchronisation.
AirtimeMs(preamble, sf, bw, cr, len) ==
    ((preamble + 4 + PayloadSymbols(sf, cr, len)) * SymbolUs(sf, bw) + 500) \div 1000

\* estimate_airtime_ms(): from the configuration, not from the parameters, and with a
\* preamble of eight symbols whatever is configured.
EstimatedPreamble == 8

EstimateAirtimeMs(len) ==
    IF config.bandwidth = 0 THEN 0
    ELSE AirtimeMs(EstimatedPreamble, config.spreading_factor, config.bandwidth,
                   config.coding_rate, len)
=============================================================================
