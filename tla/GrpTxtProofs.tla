---------------------------- MODULE GrpTxtProofs ----------------------------
(* The group-text codec for messages, blocks, MACs, headers and packets of   *)
(* any size.                                                                 *)
EXTENDS GrpTxt, TLAPS

\* A factor does not change the order.
LEMMA TimesMonotonic ==
    ASSUME NEW a \in Nat, NEW b \in Nat, NEW c \in Nat \ {0}
    PROVE  /\ a <= b => a * c <= b * c
           /\ a * c < (b + 1) * c => a <= b
           /\ a <= a * c
  <1>1. ASSUME NEW x \in Nat, NEW y \in Nat, x <= y PROVE x * c <= y * c
    BY <1>1
  <1>2. a * c < (b + 1) * c => a <= b
    <2> SUFFICES ASSUME a >= b + 1 PROVE ~(a * c < (b + 1) * c)
      OBVIOUS
    <2>1. (b + 1) * c <= a * c
      BY <1>1
    <2>2. (b + 1) * c \in Nat /\ a * c \in Nat
      OBVIOUS
    <2> QED
      BY <2>1, <2>2
  <1>3. a <= a * c
    OBVIOUS
  <1> QED
    BY <1>1, <1>2, <1>3

\* aes_encrypt() pads to whole blocks, to the fewest that hold the plaintext.
LEMMA PaddedIsLeast ==
    ASSUME NEW n \in Nat \ {0}
    PROVE  \E q \in Nat \ {0} :
              /\ Padded(n) = q * CIPHER_BLOCK_SIZE
              /\ Padded(n) \div CIPHER_BLOCK_SIZE = q
              /\ n <= q * CIPHER_BLOCK_SIZE
              /\ CIPHER_BLOCK_SIZE <= q * CIPHER_BLOCK_SIZE
              /\ \A b \in Nat : n <= b * CIPHER_BLOCK_SIZE =>
                    q * CIPHER_BLOCK_SIZE <= b * CIPHER_BLOCK_SIZE
  <1> DEFINE B == CIPHER_BLOCK_SIZE
             q == (n + B - 1) \div B
  <1>1. B \in Nat \ {0}
    BY GrpTxtAssumption
  <1> HIDE DEF B
  <1>2. n + B - 1 \in Nat /\ q \in Nat
    BY <1>1
  <1>3. q * B <= n + B - 1
    BY <1>1
  <1>4. n + B - 1 < (q + 1) * B
    BY <1>1
  <1> HIDE DEF q
  <1>5. (q + 1) * B = q * B + B /\ q * B \in Nat
    BY <1>1, <1>2
  <1>6. n <= q * B
    BY <1>1, <1>2, <1>4, <1>5
  <1>7. q # 0
    BY <1>1, <1>2, <1>6
  <1>8. B <= q * B
    BY <1>1, <1>2, <1>7
  <1>9. ASSUME NEW b \in Nat, n <= b * B
        PROVE  q * B <= b * B
    <2>1. b * B \in Nat /\ (b + 1) * B = b * B + B
      BY <1>1
    <2>2. q * B < (b + 1) * B
      BY <1>1, <1>2, <1>3, <1>5, <1>9, <2>1
    <2> QED
      BY <1>1, <1>2, <2>2, TimesMonotonic
  <1>10. (q * B) \div B = q
    BY <1>1, <1>2
  <1> QED
    BY <1>2, <1>6, <1>7, <1>8, <1>9, <1>10 DEF Padded, q, B

\* What encode_grp_txt() returns: a packet that holds all of the message if one can, and
\* no length otherwise.
LEMMA EncodedLength ==
    ASSUME NEW m \in Messages
    PROVE  LET n == PLAINTEXT_HEADER + m.len
               e == 1 + CIPHER_MAC_SIZE + Padded(n)
           IN  /\ n \in Nat \ {0} /\ Padded(n) \in Nat
               /\ CIPHER_BLOCK_SIZE <= Padded(n) /\ n <= Padded(n)
               /\ EncodeGrpTxt(m) = IF e <= MAX_PACKET_PAYLOAD THEN e
                                    ELSE IF n > MAX_PACKET_PAYLOAD
                                            \/ MAX_PACKET_PAYLOAD - CIPHER_MAC_SIZE >= Padded(n)
                                    THEN None ELSE Panic
  <1> DEFINE n == PLAINTEXT_HEADER + m.len
  <1>1. n \in Nat \ {0} /\ CIPHER_MAC_SIZE \in Nat /\ MAX_PACKET_PAYLOAD \in Nat
        /\ CIPHER_BLOCK_SIZE \in Nat \ {0}
    BY GrpTxtAssumption
  <1> HIDE DEF n
  <1>2. Padded(n) \in Nat /\ CIPHER_BLOCK_SIZE <= Padded(n) /\ n <= Padded(n)
    <2>1. PICK q \in Nat \ {0} : /\ Padded(n) = q * CIPHER_BLOCK_SIZE
                                 /\ n <= q * CIPHER_BLOCK_SIZE
                                 /\ CIPHER_BLOCK_SIZE <= q * CIPHER_BLOCK_SIZE
      BY <1>1, PaddedIsLeast
    <2> QED
      BY <1>1, <2>1
  <1> QED
    BY <1>1, <1>2 DEF EncodeGrpTxt, EncryptThenMac, None, Panic, n

-----------------------------------------------------------------------------
\* What the receiver may find: nothing yet, the payload that was encoded, or what is left
\* of a damaged one.
AirOK ==
    /\ message \in Messages /\ packet \in Int
    /\ packet = Pending => intact /\ decoded = Pending
    /\ intact => packet = Pending \/ packet = EncodeGrpTxt(message)
    /\ ~intact => packet >= 0

\* The codec keeps AirOK in every behaviour.
LEMMA AirIsOK == Spec => []AirOK
  <1>1. Init => AirOK
    BY DEF Init, AirOK, Pending
  <1>2. AirOK /\ [Next]_vars => AirOK'
    <2> SUFFICES ASSUME AirOK, [Next]_vars PROVE AirOK'
      OBVIOUS
    <2> DEFINE padded == Padded(PLAINTEXT_HEADER + message.len)
    <2>0. /\ padded \in Nat /\ CIPHER_BLOCK_SIZE <= padded
          /\ CIPHER_MAC_SIZE \in Nat /\ CIPHER_BLOCK_SIZE \in Nat \ {0}
      BY EncodedLength, GrpTxtAssumption DEF AirOK
    <2>1. EncodeGrpTxt(message) \in {None, Panic, 1 + CIPHER_MAC_SIZE + padded}
      BY EncodedLength DEF AirOK
    <2> HIDE DEF padded
    <2>2. CASE Encode
      <3>1. packet' \in Int /\ packet' # Pending
        BY <2>0, <2>1, <2>2 DEF Encode, None, Panic, Pending
      <3> QED
        BY <2>2, <3>1 DEF Encode, AirOK
    <2>3. CASE Damage
      <3>1. packet = 1 + CIPHER_MAC_SIZE + padded
        BY <2>1, <2>3 DEF Damage, AirOK, Encoded, None, Panic, Pending
      <3>2. packet' \in Int /\ packet' >= 0
        BY <2>0, <2>3, <3>1 DEF Damage
      <3> QED
        BY <2>3, <3>2 DEF Damage, AirOK, Pending
    <2>4. CASE DamageHash \/ Skip \/ Decode
      BY <2>4 DEF DamageHash, Skip, Decode, Encoded, AirOK, Pending
    <2>5. CASE UNCHANGED vars
      BY <2>5 DEF vars, AirOK
    <2> QED
      BY <2>2, <2>3, <2>4, <2>5 DEF Next
  <1> QED
    BY <1>1, <1>2, PTL DEF Spec

\* The code behaviour: decode_grp_txt() returns what encode_grp_txt() was given, for a
\* message of any length and whatever became of the channel hash, and nothing of a payload
\* with a damaged MAC or ciphertext or with another secret; and the board passes over no
\* undamaged payload of its channel (main.rs 329-338).
THEOREM DecodedAsEncoded == Spec => []RoundTrip
  <1>1. Init => RoundTrip
    BY DEF Init, RoundTrip, Pending, Skipped
  <1>2. AirOK /\ RoundTrip /\ [Next]_vars => RoundTrip'
    <2> SUFFICES ASSUME AirOK, RoundTrip, [Next]_vars PROVE RoundTrip'
      OBVIOUS
    <2>1. CASE Encode \/ DamageHash \/ Damage
      BY <2>1 DEF Encode, DamageHash, Damage, RoundTrip, AirOK, Pending, Skipped
    <2>4. CASE Skip
      <3>1. /\ decoded' = Skipped /\ UNCHANGED <<message, key, packet, hash, intact, decoder>>
            /\ packet >= 0 /\ ~(packet > 0 /\ hash = ChannelHash[decoder])
        BY <2>4 DEF Skip, MatchesChannel, Encoded
      <3>2. intact => packet > 0
        BY <3>1, EncodedLength, GrpTxtAssumption DEF AirOK, None, Panic, Pending
      <3> QED
        BY <3>1, <3>2 DEF RoundTrip
    <2>2. CASE Decode
      <3> DEFINE padded == Padded(PLAINTEXT_HEADER + message.len)
                 macOk == intact /\ decoder = key
      <3>0. /\ padded \in Nat /\ CIPHER_BLOCK_SIZE <= padded
            /\ PLAINTEXT_HEADER <= padded /\ PLAINTEXT_HEADER \in Nat
            /\ CIPHER_MAC_SIZE \in Nat /\ CIPHER_BLOCK_SIZE \in Nat
            /\ message.utf8 \in BOOLEAN
        BY EncodedLength, GrpTxtAssumption DEF AirOK
      <3>1. /\ packet >= 0 /\ UNCHANGED <<message, key, packet, hash, intact, decoder>>
            /\ decoded' = DecodeGrpTxt(message, macOk, packet)
        BY <2>2 DEF Decode, Encoded
      <3>2. CASE ~macOk
        <4>1. decoded' = None
          BY <3>1, <3>2 DEF DecodeGrpTxt, MacThenDecrypt
        <4> QED
          BY <3>1, <3>2, <4>1 DEF RoundTrip
      <3>3. CASE macOk
        <4>1. packet = 1 + CIPHER_MAC_SIZE + padded
          BY <3>1, <3>3, EncodedLength DEF AirOK, None, Panic, Pending
        <4>2. (padded \div CIPHER_BLOCK_SIZE) * CIPHER_BLOCK_SIZE = padded
          <5>1. PICK q \in Nat \ {0} : /\ padded = q * CIPHER_BLOCK_SIZE
                                       /\ padded \div CIPHER_BLOCK_SIZE = q
            BY PaddedIsLeast, EncodedLength DEF AirOK
          <5> QED
            BY <5>1
        <4>3. DecodeGrpTxt(message, macOk, packet)
                = IF message.utf8 THEN Stripped(message) ELSE None
          <5> HIDE DEF padded, macOk
          <5>1. packet - 1 - CIPHER_MAC_SIZE = padded /\ ~(packet - 1 < CIPHER_MAC_SIZE)
            BY <3>0, <4>1
          <5>2. MacThenDecrypt(macOk, packet - 1) = padded
            BY <3>3, <4>2, <5>1 DEF MacThenDecrypt
          <5>3. /\ ~(packet < 1 + CIPHER_MAC_SIZE + CIPHER_BLOCK_SIZE)
                /\ padded # None /\ ~(padded < PLAINTEXT_HEADER)
            BY <3>0, <4>1 DEF None
          <5> QED
            BY <5>2, <5>3 DEF DecodeGrpTxt
        <4>4. message.len - message.nuls >= 0 /\ message.len - message.nuls \in Int
          BY GrpTxtAssumption DEF AirOK
        <4>5. decoded' # Skipped
          BY <3>1, <4>3, <4>4 DEF Stripped, None, Skipped
        <4> QED
          BY <3>1, <3>3, <4>3, <4>5 DEF RoundTrip, Stripped
      <3> QED
        BY <3>2, <3>3
    <2>3. CASE UNCHANGED vars
      BY <2>3 DEF vars, RoundTrip
    <2> QED
      BY <2>1, <2>2, <2>3, <2>4 DEF Next
  <1> QED
    BY <1>1, <1>2, AirIsOK, PTL DEF Spec

\* The code behaviour: encode_grp_txt() makes a packet of every message for which some
\* number of whole blocks holds it and fits, and of no other.
THEOREM EncodedIfItFits == Spec => []FittingIsEncoded
  <1>1. AirOK => FittingIsEncoded
    <2> DEFINE n == PLAINTEXT_HEADER + message.len
               Holds(blocks) == /\ n <= blocks * CIPHER_BLOCK_SIZE
                                /\ 1 + CIPHER_MAC_SIZE + blocks * CIPHER_BLOCK_SIZE
                                     <= MAX_PACKET_PAYLOAD
               fits == \E blocks \in 0..MAX_PACKET_PAYLOAD : Holds(blocks)
    <2> SUFFICES ASSUME AirOK, packet # Pending, intact
                 PROVE  /\ Encoded <=> fits
                        /\ Encoded => n <= packet - 1 - CIPHER_MAC_SIZE
      BY DEF FittingIsEncoded
    <2>0. /\ n \in Nat \ {0} /\ Padded(n) \in Nat /\ n <= Padded(n)
          /\ CIPHER_MAC_SIZE \in Nat /\ CIPHER_BLOCK_SIZE \in Nat \ {0}
          /\ MAX_PACKET_PAYLOAD \in Nat
      BY EncodedLength, GrpTxtAssumption DEF AirOK
    <2>1. packet = IF 1 + CIPHER_MAC_SIZE + Padded(n) <= MAX_PACKET_PAYLOAD
                   THEN 1 + CIPHER_MAC_SIZE + Padded(n)
                   ELSE IF n > MAX_PACKET_PAYLOAD
                           \/ MAX_PACKET_PAYLOAD - CIPHER_MAC_SIZE >= Padded(n)
                   THEN None ELSE Panic
      BY EncodedLength DEF AirOK
    <2> HIDE DEF n
    <2>2. Encoded <=> 1 + CIPHER_MAC_SIZE + Padded(n) <= MAX_PACKET_PAYLOAD
      BY <2>0, <2>1 DEF Encoded, None, Panic
    <2>3. PICK q \in Nat \ {0} :
              /\ Padded(n) = q * CIPHER_BLOCK_SIZE /\ n <= q * CIPHER_BLOCK_SIZE
              /\ \A b \in Nat : n <= b * CIPHER_BLOCK_SIZE =>
                    q * CIPHER_BLOCK_SIZE <= b * CIPHER_BLOCK_SIZE
      BY <2>0, PaddedIsLeast
    <2>4. ASSUME Encoded PROVE fits
      <3>1. q <= q * CIPHER_BLOCK_SIZE
        BY <2>0, TimesMonotonic
      <3>2. q \in 0..MAX_PACKET_PAYLOAD
        BY <2>0, <2>2, <2>3, <2>4, <3>1
      <3> QED
        BY <2>2, <2>3, <2>4, <3>2
    <2>5. ASSUME fits PROVE Encoded
      <3>1. PICK b \in 0..MAX_PACKET_PAYLOAD : Holds(b)
        BY <2>5
      <3>2. Padded(n) <= b * CIPHER_BLOCK_SIZE /\ b * CIPHER_BLOCK_SIZE \in Nat
        BY <2>0, <2>3, <3>1
      <3> QED
        BY <2>0, <2>2, <3>1, <3>2
    <2>6. Encoded => n <= packet - 1 - CIPHER_MAC_SIZE
      BY <2>0, <2>1, <2>2
    <2> QED
      BY <2>4, <2>5, <2>6
  <1> QED
    BY <1>1, AirIsOK, PTL
=============================================================================
