\* A run ends when the frame was read, lost, or could not be written.
CHECK_DEADLOCK FALSE
CONSTANTS
    Configs <- MCConfigs
    DefaultConfig <- MCDefaultConfig
    Unset = Unset
    Headers <- MCHeaders
    Sizes = {1, 3}
    Counts = {2, 65}
    Codes <- MCCodes
    PathBytes <- MCPathBytes
    PayloadBytes <- MCPayloadBytes
    Lengths = {1, 2, 3}
    Noise = {0, 195}
    Foreign <- MCForeign
    MAX_PATH_SIZE = 3
    MAX_PACKET_PAYLOAD = 2
    MAX_TRANS_UNIT = 11
SPECIFICATION Spec
INVARIANTS
    TypeOK
    FieldsAsAsked
    RoundTrip
    NothingCarriedOver
    AcceptedIsWhole
    OneConfiguration
    StaysUsable
    ShortByThePreamble
