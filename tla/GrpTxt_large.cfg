\* A run ends when the message is decoded, or could not be encoded.
CHECK_DEADLOCK FALSE
CONSTANTS
    Keys = {"own", "colliding", "other"}
    Hashes = {1, 2}
    ChannelHash <- MCChannelHash
    Messages <- MCMessages
    CIPHER_BLOCK_SIZE = 16
    CIPHER_MAC_SIZE = 2
    PLAINTEXT_HEADER = 5
    MAX_PACKET_PAYLOAD = 184
SPECIFICATION Spec
INVARIANT TooLargeIsNone
