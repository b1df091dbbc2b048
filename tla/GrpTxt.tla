------------------------------ MODULE GrpTxt ------------------------------
(* The group-text codec (crates/meshcore-core/src/grp_txt.rs and the parts   *)
(* of crypto.rs under it) by the lengths it computes: a message is encoded   *)
(* by one node, may be damaged in the air, and is decoded by another.  A     *)
(* payload is [channel hash][MAC][ciphertext], and the MAC is of the         *)
(* ciphertext: what happens to the channel hash does not break it.           *)
(*                                                                           *)
(* A message is a record: its length, how many of its last bytes are NUL,    *)
(* and whether it is UTF-8.  The 2-byte MAC is taken to be unforgeable.      *)
EXTENDS Integers

CONSTANTS
    Keys,                   \* channel secrets
    Hashes, ChannelHash,    \* channel-hash bytes, and that of each secret
    Messages,               \* what may be encoded
    CIPHER_BLOCK_SIZE, CIPHER_MAC_SIZE, PLAINTEXT_HEADER, MAX_PACKET_PAYLOAD

ASSUME GrpTxtAssumption ==
    /\ Messages \subseteq [len : Nat, nuls : Nat, utf8 : BOOLEAN]
    /\ ChannelHash \in [Keys -> Hashes]
    /\ \A m \in Messages : m.nuls <= m.len
    /\ CIPHER_BLOCK_SIZE \in Nat \ {0} /\ CIPHER_MAC_SIZE \in Nat
    /\ PLAINTEXT_HEADER \in Nat \ {0} /\ MAX_PACKET_PAYLOAD \in Nat

VARIABLES
    message, key,   \* what the sender encodes, and with which secret
    packet,         \* what encode_grp_txt() returned: the payload's length
    hash,           \* the channel-hash byte of the payload
    intact,         \* its MAC and ciphertext are those that were encoded
    decoder,        \* the secret the receiver decodes with
    decoded         \* what decode_grp_txt() returned

vars == <<message, key, packet, hash, intact, decoder, decoded>>

\* Results that are not a length.
None == -1
Panic == -2
Pending == -3
Skipped == -4

\* Mutant: always one block more than the whole ones.
Padded_OneMore(len) == (len \div CIPHER_BLOCK_SIZE + 1) * CIPHER_BLOCK_SIZE

\* aes_encrypt(): whole blocks, the last one zero-padded.
Padded(len) == ((len + CIPHER_BLOCK_SIZE - 1) \div CIPHER_BLOCK_SIZE) * CIPHER_BLOCK_SIZE

\* encrypt_then_mac() into `room` bytes: aes_encrypt() asserts that its part suffices.
EncryptThenMac(room, len) ==
    IF room - CIPHER_MAC_SIZE < Padded(len) THEN Panic
    ELSE CIPHER_MAC_SIZE + Padded(len)

\* encode_grp_txt(): the length of the payload of the packet, None or Panic.
EncodeGrpTxt(m) ==
    IF PLAINTEXT_HEADER + m.len > MAX_PACKET_PAYLOAD THEN None
    ELSE LET encLen == EncryptThenMac(MAX_PACKET_PAYLOAD, PLAINTEXT_HEADER + m.len)
         IN  IF encLen = Panic THEN Panic
             ELSE IF 1 + encLen > MAX_PACKET_PAYLOAD THEN None
             ELSE 1 + encLen

\* mac_then_decrypt() of what follows the channel hash: whole blocks only.
MacThenDecrypt(macOk, len) ==
    IF len < CIPHER_MAC_SIZE \/ ~macOk THEN None
    ELSE ((len - CIPHER_MAC_SIZE) \div CIPHER_BLOCK_SIZE) * CIPHER_BLOCK_SIZE

\* Mutant: the last byte that is not NUL is cut off as well.
Stripped_OneLess(m) == IF m.len > m.nuls THEN m.len - m.nuls - 1 ELSE 0

\* The text ends with the last byte that is not NUL.
Stripped(m) == m.len - m.nuls

\* decode_grp_txt() on `len` bytes: the length of the text, or None.
DecodeGrpTxt(m, macOk, len) ==
    LET decryptedLen == MacThenDecrypt(macOk, len - 1)
    IN  IF len < 1 + CIPHER_MAC_SIZE + CIPHER_BLOCK_SIZE THEN None
        ELSE IF decryptedLen = None THEN None
        ELSE IF decryptedLen < PLAINTEXT_HEADER \/ ~m.utf8 THEN None
        ELSE Stripped(m)

\* matches_channel(): the first byte of the payload, if there is one.
MatchesChannel(len, channelHash) == len > 0 /\ hash = channelHash

-----------------------------------------------------------------------------
Init ==
    /\ message \in Messages /\ key \in Keys /\ decoder \in Keys
    /\ packet = Pending /\ hash = Pending /\ intact = TRUE /\ decoded = Pending

Encode ==
    /\ packet = Pending
    /\ packet' = EncodeGrpTxt(message)
    /\ hash' = ChannelHash[key]
    /\ UNCHANGED <<message, key, intact, decoder, decoded>>

Encoded == packet >= 0

\* The air (external) changes the channel hash, ...
DamageHash ==
    /\ Encoded /\ decoded = Pending
    /\ hash' \in Hashes \ {hash}
    /\ UNCHANGED <<message, key, packet, intact, decoder, decoded>>

\* ... or the MAC or the ciphertext, or it loses the end of the payload.
Damage ==
    /\ Encoded /\ intact /\ decoded = Pending
    /\ intact' = FALSE
    /\ packet' \in {packet, packet - 1, packet - CIPHER_BLOCK_SIZE, 0}
    /\ UNCHANGED <<message, key, hash, decoder, decoded>>

\* The board does not decode what is of another channel.
Skip ==
    /\ Encoded /\ decoded = Pending
    /\ ~MatchesChannel(packet, ChannelHash[decoder])
    /\ decoded' = Skipped
    /\ UNCHANGED <<message, key, packet, hash, intact, decoder>>

\* decode_grp_txt() on any payload: it passes over the channel hash.
Decode ==
    /\ Encoded /\ decoded = Pending
    /\ decoded' = DecodeGrpTxt(message, intact /\ decoder = key, packet)
    /\ UNCHANGED <<message, key, packet, hash, intact, decoder>>

Next == Encode \/ DamageHash \/ Damage \/ Skip \/ Decode

Spec == Init /\ [][Next]_vars
-----------------------------------------------------------------------------
\* What is encoded is what is decoded with the same secret, up to NUL bytes at its
\* end, whatever became of the channel hash; with another secret, also one with the
\* same channel hash, or after any other damage nothing is.  What the board does not
\* decode is of another channel, or damaged in the channel hash or cut off to nothing.
RoundTrip ==
    /\ decoded \notin {Pending, Skipped} =>
           decoded = IF intact /\ decoder = key /\ message.utf8
                     THEN message.len - message.nuls
                     ELSE None
    /\ decoded = Skipped =>
           decoder # key \/ hash # ChannelHash[key] \/ ~intact

\* Every message whose padded ciphertext, MAC and channel hash fit in a packet
\* becomes one that holds all of it, and no other message does.
FittingIsEncoded ==
    packet # Pending /\ intact =>
        LET fits == \E blocks \in 0..MAX_PACKET_PAYLOAD :
                        /\ PLAINTEXT_HEADER + message.len <= blocks * CIPHER_BLOCK_SIZE
                        /\ 1 + CIPHER_MAC_SIZE + blocks * CIPHER_BLOCK_SIZE
                             <= MAX_PACKET_PAYLOAD
        IN  /\ Encoded <=> fits
            /\ Encoded => PLAINTEXT_HEADER + message.len
                            <= packet - 1 - CIPHER_MAC_SIZE

\* "Returns `None` if the message is too large to fit in a packet" (grp_txt.rs 96).
TooLargeIsNone == packet # Panic
=============================================================================
