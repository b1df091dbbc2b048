-------------------------- MODULE RadioLinkProofs --------------------------
(* The radio link, for packets, frames and configurations of any size and    *)
(* number: first what the codec of the packet computes, then the theorems of *)
(* the link.                                                                 *)
EXTENDS RadioLink, SequenceTheorems, TLAPS

\* The header byte loses nothing of the header, and the header nothing of the byte
\* (header.rs 218-239).
THEOREM HeaderRoundTrip ==
    /\ \A h \in PacketHeader : HeaderByte(h) \in Bytes /\ ParsedHeader(HeaderByte(h)) = h
    /\ \A b \in Bytes : ParsedHeader(b) \in PacketHeader => HeaderByte(ParsedHeader(b)) = b
  <1>1. ASSUME NEW h \in PacketHeader
        PROVE  HeaderByte(h) \in Bytes /\ ParsedHeader(HeaderByte(h)) = h
    <2>1. /\ h.route_type \in 0..3 /\ h.payload_type \in 0..15 /\ h.version \in 0..3
          /\ h = [route_type |-> h.route_type, payload_type |-> h.payload_type,
                  version |-> h.version]
      BY DEF PacketHeader, RouteTypes, TransportFlood, Flood, Direct, TransportDirect,
             PayloadTypes, RawCustom, PayloadVersions
    <2>2. /\ HeaderByte(h) \in Bytes
          /\ HeaderByte(h) % 4 = h.route_type
          /\ (HeaderByte(h) \div 4) % 16 = h.payload_type
          /\ (HeaderByte(h) \div 64) % 4 = h.version
      BY <2>1 DEF HeaderByte, Bytes
    <2> QED
      BY <2>1, <2>2 DEF ParsedHeader
  <1>2. ASSUME NEW b \in Bytes
        PROVE  HeaderByte(ParsedHeader(b)) = b
    BY DEF HeaderByte, ParsedHeader, Bytes
  <1> QED
    BY <1>1, <1>2

-----------------------------------------------------------------------------
\* A byte splits into six and two bits.
LEMMA SplitPathLen ==
    ASSUME NEW b \in 0..255
    PROVE  b % 64 \in 0..63 /\ b \div 64 \in 0..3
  <1>1. b % 64 \in 0..63
    OBVIOUS
  <1>2. b \div 64 >= 0
    OBVIOUS
  <1>3. b \div 64 <= 3
    OBVIOUS
  <1> QED
    BY <1>1, <1>2, <1>3

\* The fields of a packet, and how its path length splits.
LEMMA PacketFields ==
    ASSUME NEW p \in Packets
    PROVE  /\ p.header \in Bytes /\ p.path_len \in Bytes
           /\ p.transport_codes \in U16 \X U16
           /\ p.path \in Seq(Bytes) /\ Len(p.path) \in 0..MAX_PATH_SIZE
           /\ p.payload \in Seq(Bytes) /\ Len(p.payload) \in 0..MAX_PACKET_PAYLOAD
           /\ PathHashCount(p) \in 0..63 /\ PathHashSize(p) \in 1..4
           /\ PathByteLen(p) \in Nat
  <1>1. /\ p.header \in Bytes /\ p.path_len \in Bytes
        /\ p.transport_codes \in U16 \X U16
        /\ p.path \in Seq(Bytes) /\ Len(p.path) <= MAX_PATH_SIZE
        /\ p.payload \in Seq(Bytes) /\ Len(p.payload) <= MAX_PACKET_PAYLOAD
    BY DEF Packets
  <1>2. Len(p.path) \in Nat /\ Len(p.payload) \in Nat
    BY <1>1, LenProperties
  <1>3. PathHashCount(p) \in 0..63 /\ PathHashSize(p) \in 1..4
    <2>1. p.path_len % 64 \in 0..63 /\ p.path_len \div 64 \in 0..3
      BY <1>1, SplitPathLen DEF Bytes
    <2>2. \A n \in 0..3 : n + 1 \in 1..4
      OBVIOUS
    <2> QED
      BY <2>1, <2>2 DEF PathHashCount, PathHashSize
  <1>4. PathByteLen(p) \in Nat
    BY <1>3 DEF PathByteLen
  <1> QED
    BY <1>1, <1>2, <1>3, <1>4, PacketAssumption

\* Two bytes of a code, low byte first, and back.
LEMMA LittleEndian ==
    /\ \A u \in U16 : ToLeBytes(u) \in Seq(Bytes) /\ Len(ToLeBytes(u)) = 2
    /\ \A a, b \in Bytes : FromLeBytes(a, b) \in U16 /\ ToLeBytes(FromLeBytes(a, b)) = <<a, b>>
  <1>1. ASSUME NEW u \in U16
        PROVE  ToLeBytes(u) \in Seq(Bytes) /\ Len(ToLeBytes(u)) = 2
    <2>1. u \in Nat /\ u <= 65535
      <3>1. U16_MAX \in Nat /\ U16_MAX = 65535
        BY DEF U16_MAX
      <3>2. U16_MAX \in Nat
        BY <3>1
      <3>3. u \in Nat /\ u <= U16_MAX
        BY <3>2 DEF U16
      <3> QED
        BY <3>1, <3>3
    <2>2. u % 256 \in Bytes
      BY <2>1 DEF Bytes
    <2>3. u \div 256 \in Nat /\ u \div 256 <= 255
      BY <2>1
    <2>4. u \div 256 \in Bytes
      BY <2>3 DEF Bytes
    <2> QED
      BY <2>2, <2>4 DEF ToLeBytes
  <1>2. ASSUME NEW a \in Bytes, NEW b \in Bytes
        PROVE  FromLeBytes(a, b) \in U16 /\ ToLeBytes(FromLeBytes(a, b)) = <<a, b>>
    <2>1. a \in Nat /\ b \in Nat /\ a < 256 /\ b < 256
      BY DEF Bytes
    <2>2. FromLeBytes(a, b) = a + 256 * b /\ FromLeBytes(a, b) \in U16
      <3>1. U16_MAX \in Nat /\ a + 256 * b \in Nat /\ a + 256 * b <= U16_MAX
        BY <2>1 DEF U16_MAX
      <3> QED
        BY <3>1 DEF FromLeBytes, U16
    <2>3. (a + 256 * b) \div 256 = b
      BY <2>1
    <2>4. (a + 256 * b) % 256 = a
      BY <2>1
    <2> QED
      BY <2>2, <2>3, <2>4 DEF ToLeBytes
  <1> QED
    BY <1>1, <1>2

\* What stands between the header and the path length.
CodeBytes(p) ==
    IF HasTransportCodes(p)
    THEN ToLeBytes(p.transport_codes[1]) \o ToLeBytes(p.transport_codes[2])
    ELSE <<>>

LEMMA CodeBytesType ==
    ASSUME NEW p \in Packets
    PROVE  /\ CodeBytes(p) \in Seq(Bytes)
           /\ Len(CodeBytes(p)) = IF HasTransportCodes(p) THEN 4 ELSE 0
  <1>1. p.transport_codes[1] \in U16 /\ p.transport_codes[2] \in U16
    BY PacketFields
  <1> DEFINE c1 == ToLeBytes(p.transport_codes[1])
             c2 == ToLeBytes(p.transport_codes[2])
  <1>2. CASE HasTransportCodes(p)
    <2>1. /\ c1 \in Seq(Bytes) /\ Len(c1) = 2
          /\ c2 \in Seq(Bytes) /\ Len(c2) = 2
      BY <1>1, LittleEndian
    <2>2. CodeBytes(p) = c1 \o c2
      BY <1>2 DEF CodeBytes
    <2> HIDE DEF c1, c2
    <2>3. c1 \o c2 \in Seq(Bytes) /\ Len(c1 \o c2) = Len(c1) + Len(c2)
      BY <2>1, ConcatProperties
    <2> QED
      BY <1>2, <2>1, <2>2, <2>3
  <1>3. CASE ~HasTransportCodes(p)
    BY <1>3, EmptySeq DEF CodeBytes
  <1> QED
    BY <1>2, <1>3

\* write_to() writes as many bytes as wire_len() says (packet.rs 131-180): what the
\* dispatcher admits is what it sends.
THEOREM WrittenIsWireLen ==
    ASSUME NEW p \in Packets, ~WriteToPanics(p)
    PROVE  /\ WriteTo(p) \in Seq(Bytes)
           /\ Len(WriteTo(p)) = WireLen(p)
           /\ Len(WriteTo(p)) <= MAX_TRANS_UNIT
  <1> DEFINE bl == PathByteLen(p)
             path == SubSeq(p.path, 1, bl)
  <1>1. /\ p.header \in Bytes /\ p.path_len \in Bytes
        /\ p.path \in Seq(Bytes) /\ p.payload \in Seq(Bytes)
        /\ Len(p.path) \in Nat /\ Len(p.payload) \in Nat /\ bl \in Nat
    BY PacketFields
  <1>2. /\ <<p.header>> \in Seq(Bytes) /\ Len(<<p.header>>) = 1
        /\ <<p.path_len>> \in Seq(Bytes) /\ Len(<<p.path_len>>) = 1
    BY <1>1
  <1>3. bl <= Len(p.path)
    BY <1>1 DEF WriteToPanics
  <1>4. path \in Seq(Bytes) /\ Len(path) = bl
    <2>1. \A i \in 1..bl : p.path[i] \in Bytes
      BY <1>1, <1>3, ElementOfSeq
    <2> QED
      BY <1>1, <2>1, SubSeqProperties
  <1> DEFINE w1 == <<p.header>> \o CodeBytes(p)
             w2 == w1 \o <<p.path_len>>
             w3 == w2 \o path
  <1> HIDE DEF bl, path
  <1>5. w1 \in Seq(Bytes) /\ Len(w1) = 1 + Len(CodeBytes(p))
    BY <1>2, CodeBytesType, ConcatProperties
  <1> HIDE DEF w1
  <1>6. w2 \in Seq(Bytes) /\ Len(w2) = Len(w1) + 1
    BY <1>2, <1>5, ConcatProperties
  <1> HIDE DEF w2
  <1>7. w3 \in Seq(Bytes) /\ Len(w3) = Len(w2) + bl
    BY <1>4, <1>6, ConcatProperties
  <1> HIDE DEF w3
  <1>8. w3 \o p.payload \in Seq(Bytes) /\ Len(w3 \o p.payload) = Len(w3) + Len(p.payload)
    BY <1>1, <1>7, ConcatProperties
  <1>9. WriteTo(p) = w3 \o p.payload
    BY DEF WriteTo, w3, w2, w1, path, bl, CodeBytes
  <1>10. WireLen(p) = Len(w3 \o p.payload)
    BY <1>1, <1>5, <1>6, <1>7, <1>8, CodeBytesType DEF WireLen, bl
  <1>11. WireLen(p) <= MAX_TRANS_UNIT
    BY <1>1, <1>8, <1>10, LenProperties, PacketAssumption DEF WriteToPanics
  <1> QED
    BY <1>8, <1>9, <1>10, <1>11

-----------------------------------------------------------------------------
\* Where the path length stands in a frame, less one; the packet a frame describes,
\* and whether it is one.
Start(src) == IF CarriesTransportCodes(src[1] % 4) THEN 5 ELSE 1
PathEnd(src) ==
    Start(src) + 1 + (src[Start(src) + 1] % 64) * (src[Start(src) + 1] \div 64 + 1)

Described(src) ==
    [header |-> src[1],
     path_len |-> src[Start(src) + 1],
     transport_codes |->
        IF Start(src) = 5
        THEN <<FromLeBytes(src[2], src[3]), FromLeBytes(src[4], src[5])>> ELSE <<0, 0>>,
     path |-> SubSeq(src, Start(src) + 2, PathEnd(src)),
     payload |-> SubSeq(src, PathEnd(src) + 1, Len(src))]

LEMMA DescribedFields ==
    ASSUME NEW src
    PROVE  /\ Described(src).header = src[1]
           /\ Described(src).path_len = src[Start(src) + 1]
           /\ Described(src).path = SubSeq(src, Start(src) + 2, PathEnd(src))
           /\ Described(src).payload = SubSeq(src, PathEnd(src) + 1, Len(src))
  BY DEF Described

WellFormed(src) ==
    /\ Start(src) < Len(src)
    /\ src[Start(src) + 1] \div 64 # 3
    /\ PathEnd(src) <= Len(src)
    /\ PathEnd(src) - (Start(src) + 1) <= MAX_PATH_SIZE
    /\ Len(src) - PathEnd(src) <= MAX_PACKET_PAYLOAD

\* Replacing one field of a packet.
LEMMA PacketExcept ==
    ASSUME NEW p \in Packets
    PROVE  /\ \A h \in Bytes : [p EXCEPT !.header = h] \in Packets
           /\ \A n \in Bytes : [p EXCEPT !.path_len = n] \in Packets
           /\ \A c \in U16 \X U16 : [p EXCEPT !.transport_codes = c] \in Packets
           /\ \A s \in Seq(Bytes) :
                /\ Len(s) <= MAX_PATH_SIZE => [p EXCEPT !.path = s] \in Packets
                /\ Len(s) <= MAX_PACKET_PAYLOAD => [p EXCEPT !.payload = s] \in Packets
  BY DEF Packets

LEMMA PacketRecord ==
    ASSUME NEW p \in Packets
    PROVE  p = [header |-> p.header, path_len |-> p.path_len,
                transport_codes |-> p.transport_codes, path |-> p.path,
                payload |-> p.payload]
  BY DEF Packets

LEMMA NewPacketType == NewPacket \in Packets
  <1>1. <<>> \in Seq(Bytes) /\ Len(<<>>) <= MAX_PATH_SIZE /\ Len(<<>>) <= MAX_PACKET_PAYLOAD
    BY EmptySeq, PacketAssumption
  <1>2. 0 \in Bytes /\ 0 \in U16
    <2>1. U16_MAX \in Nat
      BY DEF U16_MAX
    <2> QED
      BY <2>1 DEF Bytes, U16
  <1>3. <<0, 0>> \in U16 \X U16
    BY <1>2
  <1> QED
    BY <1>1, <1>2, <1>3 DEF NewPacket, Packets

\* A part of a frame.
LEMMA FramePart ==
    ASSUME NEW src \in Seq(Bytes), NEW m \in Nat \ {0}, NEW n \in Nat, n <= Len(src), m <= n + 1
    PROVE  /\ SubSeq(src, m, n) \in Seq(Bytes) /\ Len(SubSeq(src, m, n)) = n - m + 1
           /\ \A k \in 1..(n - m + 1) : SubSeq(src, m, n)[k] = src[m + k - 1]
  <1>1. Len(src) \in Nat
    BY LenProperties
  <1>2. \A i \in m..n : src[i] \in Bytes
    BY <1>1, ElementOfSeq
  <1>3. /\ SubSeq(src, m, n) \in Seq(Bytes)
        /\ Len(SubSeq(src, m, n)) = IF m <= n THEN n - m + 1 ELSE 0
        /\ \A k \in 1..(n - m + 1) : SubSeq(src, m, n)[k] = src[m + k - 1]
    BY <1>2, SubSeqProperties
  <1> QED
    BY <1>3

\* Where the path of a frame ends.
LEMMA FramePlaces ==
    ASSUME NEW src \in Seq(Bytes)
    PROVE  /\ Len(src) \in Nat
           /\ Start(src) \in {1, 5}
           /\ \A i \in 1..Len(src) : src[i] \in Bytes
           /\ Start(src) < Len(src) => PathEnd(src) \in Nat /\ PathEnd(src) >= Start(src) + 1
  <1>1. Len(src) \in Nat /\ \A i \in 1..Len(src) : src[i] \in Bytes
    BY LenProperties, ElementOfSeq
  <1>2. Start(src) \in {1, 5}
    BY DEF Start
  <1>3. ASSUME Start(src) < Len(src)
        PROVE  PathEnd(src) \in Nat /\ PathEnd(src) >= Start(src) + 1
    <2> DEFINE b == src[Start(src) + 1]
               bl == (b % 64) * (b \div 64 + 1)
    <2>1. b \in 0..255
      <3>1. Start(src) + 1 \in 1..Len(src)
        BY <1>1, <1>2, <1>3
      <3> QED
        BY <1>1, <3>1 DEF Bytes
    <2>2. b % 64 \in Nat /\ b \div 64 + 1 \in Nat
      <3> HIDE DEF b
      <3> QED
        BY <2>1, SplitPathLen
    <2>3. bl \in Nat
      BY <2>2
    <2>4. PathEnd(src) = Start(src) + 1 + bl
      BY DEF PathEnd
    <2> HIDE DEF bl
    <2> QED
      BY <1>2, <2>3, <2>4
  <1> QED
    BY <1>1, <1>2, <1>3

\* What read_from() does, whatever the packet held before (packet.rs 182-249).
LEMMA ReadFromIs ==
    ASSUME NEW old \in Packets, NEW src \in Seq(Bytes)
    PROVE  /\ ReadFrom(old, src).packet \in Packets
           /\ ReadFrom(old, src).ok \in BOOLEAN
           /\ ReadFrom(old, src).ok <=> WellFormed(src)
           /\ ReadFrom(old, src).ok => ReadFrom(old, src).packet = Described(src)
  <1> DEFINE P(r) == /\ r.packet \in Packets
                     /\ r.ok \in BOOLEAN
                     /\ r.ok <=> WellFormed(src)
                     /\ r.ok => r.packet = Described(src)
  <1>1. ASSUME NEW p \in Packets, ~WellFormed(src)
        PROVE  P(Rejected(p))
    BY <1>1 DEF Rejected
  <1>2. /\ Len(src) \in Nat /\ Start(src) \in {1, 5}
        /\ \A i \in 1..Len(src) : src[i] \in Bytes
        /\ Start(src) < Len(src) => PathEnd(src) \in Nat /\ PathEnd(src) >= Start(src) + 1
    BY FramePlaces
  <1>3. CASE Len(src) < 2
    <2>1. ~WellFormed(src)
      BY <1>2, <1>3 DEF WellFormed
    <2>2. ReadFrom(old, src) = Rejected(old)
      BY <1>3 DEF ReadFrom
    <2> QED
      BY <1>1, <2>1, <2>2
  <1>4. CASE Len(src) >= 2
    <2> DEFINE p == [old EXCEPT !.header = src[1]]
               i == Start(src)
    <2>1. /\ p \in Packets /\ p.header = src[1] /\ src[1] \in Bytes
          /\ HasTransportCodes(p) <=> i = 5
      <3>1. src[1] \in Bytes
        BY <1>2, <1>4
      <3>2. p \in Packets /\ p.header = src[1]
        BY <3>1, PacketExcept DEF Packets
      <3> QED
        BY <3>1, <3>2 DEF HasTransportCodes, Start
    <2> DEFINE w == WithCodes(p, src)
               c == IF i = 5
                    THEN <<FromLeBytes(src[2], src[3]), FromLeBytes(src[4], src[5])>>
                    ELSE <<0, 0>>
               q == [w EXCEPT !.path_len = src[i + 1]]
    <2>2. ReadFrom(old, src) =
            IF Len(src) < i THEN Rejected(p)
            ELSE IF Len(src) = i THEN Rejected(w)
            ELSE ReadPath(q, src, i + 1)
      <3>1. i = IF HasTransportCodes(p) THEN 5 ELSE 1
        BY <1>2, <2>1
      <3> QED
        BY <1>2, <1>4, <3>1 DEF ReadFrom
    <2>3. ASSUME i <= Len(src)
          PROVE  /\ w \in Packets /\ w.header = src[1] /\ w.transport_codes = c
      <3>1. c \in U16 \X U16
        <4>1. CASE i = 5
          <5>1. src[2] \in Bytes /\ src[3] \in Bytes /\ src[4] \in Bytes /\ src[5] \in Bytes
            BY <1>2, <2>3, <4>1
          <5>2. FromLeBytes(src[2], src[3]) \in U16 /\ FromLeBytes(src[4], src[5]) \in U16
            BY <5>1, LittleEndian
          <5>3. c = <<FromLeBytes(src[2], src[3]), FromLeBytes(src[4], src[5])>>
            BY <4>1
          <5> HIDE DEF c
          <5> QED
            BY <5>2, <5>3
        <4>2. CASE i # 5
          <5>1. c = <<0, 0>> /\ 0 \in U16
            <6>1. U16_MAX \in Nat
              BY DEF U16_MAX
            <6> QED
              BY <4>2, <6>1 DEF U16
          <5> HIDE DEF c
          <5> QED
            BY <5>1
        <4> QED
          BY <4>1, <4>2
      <3>2. w = [p EXCEPT !.transport_codes = c]
        BY <2>1 DEF WithCodes
      <3> HIDE DEF p, w, c
      <3> QED
        BY <2>1, <3>1, <3>2, PacketExcept DEF Packets
    <2>4. CASE Len(src) <= i
      <3>1. ~WellFormed(src)
        BY <1>2, <2>4 DEF WellFormed
      <3>2. \/ ReadFrom(old, src) = Rejected(p)
            \/ ReadFrom(old, src) = Rejected(w) /\ w \in Packets
        <4> HIDE DEF p, w, q, i
        <4>1. Len(src) < i \/ Len(src) = i
          BY <1>2, <2>4 DEF i
        <4> QED
          BY <2>2, <2>3, <4>1
      <3> HIDE DEF p, w
      <3> QED
        BY <1>1, <2>1, <3>1, <3>2
    <2>5. CASE i < Len(src)
      <3> DEFINE n == PathEnd(src)
                 path == SubSeq(src, i + 2, n)
                 r == [q EXCEPT !.path = path]
                 payload == SubSeq(src, n + 1, Len(src))
      <3>1. i + 1 \in 1..Len(src)
        BY <1>2, <2>5
      <3>2. /\ q \in Packets /\ q.header = src[1] /\ q.transport_codes = c
            /\ q.path_len = src[i + 1]
        <4> HIDE DEF w, c, i
        <4>1. w \in Packets /\ w.header = src[1] /\ w.transport_codes = c /\ src[i + 1] \in Bytes
          BY <1>2, <2>3, <2>5, <3>1 DEF i
        <4> QED
          BY <4>1, PacketExcept DEF Packets
      <3>3. /\ i + 1 + PathByteLen(q) = n
            /\ IsValidPathLen(q) <=> src[i + 1] \div 64 # 3
        BY <3>2 DEF PathByteLen, PathHashCount, PathHashSize, IsValidPathLen, PathEnd
      <3>4. ReadFrom(old, src) = ReadPath(q, src, i + 1)
        <4> HIDE DEF p, w, q, i
        <4>1. ~(Len(src) < i) /\ Len(src) # i
          BY <1>2, <2>5 DEF i
        <4> QED
          BY <2>2, <4>1
      <3>5. /\ n \in Nat /\ n >= i + 1 /\ PathByteLen(q) \in Nat /\ n - (i + 1) = PathByteLen(q)
        <4> HIDE DEF q, n
        <4> QED
          BY <1>2, <2>5, <3>2, <3>3, PacketFields DEF n
      <3>6. CASE ~IsValidPathLen(q) \/ n > Len(src)
        <4>1. ReadFrom(old, src) = Rejected(q)
          <5> HIDE DEF q, i, n
          <5> QED
            BY <3>3, <3>4, <3>6 DEF ReadPath
        <4>2. ~WellFormed(src)
          BY <1>2, <3>3, <3>5, <3>6 DEF WellFormed
        <4> HIDE DEF q
        <4> QED
          BY <1>1, <3>2, <4>1, <4>2
      <3>7. CASE IsValidPathLen(q) /\ n <= Len(src) /\ PathByteLen(q) > MAX_PATH_SIZE
        <4>1. ReadFrom(old, src) = Rejected([q EXCEPT !.path = <<>>])
          <5> HIDE DEF q, i, n
          <5> QED
            BY <1>2, <3>3, <3>4, <3>5, <3>7 DEF ReadPath
        <4>2. ~WellFormed(src)
          BY <1>2, <3>5, <3>7, PacketAssumption DEF WellFormed
        <4>3. [q EXCEPT !.path = <<>>] \in Packets
          <5> HIDE DEF q
          <5>1. <<>> \in Seq(Bytes) /\ Len(<<>>) <= MAX_PATH_SIZE
            BY EmptySeq, PacketAssumption
          <5> QED
            BY <3>2, <5>1, PacketExcept
        <4> HIDE DEF q
        <4> QED
          BY <1>1, <4>1, <4>2, <4>3
      <3>8. CASE IsValidPathLen(q) /\ n <= Len(src) /\ PathByteLen(q) <= MAX_PATH_SIZE
        <4>1. ReadFrom(old, src) = ReadPayload(r, src, n)
          <5>1. i + 1 + 1 = i + 2
            BY <1>2
          <5> HIDE DEF q, i, n
          <5>2. ~(i + 1 + PathByteLen(q) > Len(src)) /\ ~(PathByteLen(q) > MAX_PATH_SIZE)
            BY <1>2, <3>3, <3>5, <3>8, PacketAssumption
          <5> QED
            BY <3>3, <3>4, <3>8, <5>1, <5>2 DEF ReadPath
        <4>2. path \in Seq(Bytes) /\ Len(path) = PathByteLen(q)
          <5> HIDE DEF q, n, i
          <5>1. i + 2 \in Nat \ {0} /\ i + 2 <= n + 1
            BY <1>2, <3>5 DEF i
          <5>2. path \in Seq(Bytes) /\ Len(path) = n - (i + 2) + 1
            BY <1>2, <3>5, <3>8, <5>1, FramePart
          <5>3. n - (i + 2) + 1 = n - (i + 1)
            BY <1>2, <3>5 DEF i
          <5> QED
            BY <3>5, <5>2, <5>3
        <4>3. /\ r \in Packets /\ r.header = src[1] /\ r.transport_codes = c
              /\ r.path_len = src[i + 1] /\ r.path = path
          <5> HIDE DEF q, c, i, path
          <5> QED
            BY <3>2, <3>8, <4>2, PacketExcept DEF Packets
        <4>4. CASE Len(src) - n > MAX_PACKET_PAYLOAD
          <5>1. ReadFrom(old, src) = Rejected(r)
            <6> HIDE DEF r, n
            <6> QED
              BY <4>1, <4>4 DEF ReadPayload
          <5>2. ~WellFormed(src)
            BY <1>2, <3>5, <4>4, PacketAssumption DEF WellFormed
          <5> HIDE DEF r
          <5> QED
            BY <1>1, <4>3, <5>1, <5>2
        <4>5. CASE Len(src) - n <= MAX_PACKET_PAYLOAD
          <5> DEFINE a == [r EXCEPT !.payload = payload]
          <5>1. ReadFrom(old, src) = Accepted(a)
            <6> HIDE DEF r, n
            <6> QED
              BY <1>2, <3>5, <4>1, <4>5, PacketAssumption DEF ReadPayload, n
          <5>2. WellFormed(src)
            BY <1>2, <2>5, <3>3, <3>5, <3>8, <4>5 DEF WellFormed
          <5>3. payload \in Seq(Bytes) /\ Len(payload) = Len(src) - n
            <6> HIDE DEF n
            <6>1. n + 1 \in Nat \ {0} /\ n + 1 <= Len(src) + 1
              BY <1>2, <3>5, <3>8
            <6>2. payload \in Seq(Bytes) /\ Len(payload) = Len(src) - (n + 1) + 1
              BY <1>2, <6>1, FramePart
            <6> QED
              BY <1>2, <3>5, <6>2
          <5>4. /\ a \in Packets /\ a.header = src[1] /\ a.transport_codes = c
                /\ a.path_len = src[i + 1] /\ a.path = path /\ a.payload = payload
            <6> HIDE DEF r, c, i, path, payload
            <6> QED
              BY <4>3, <4>5, <5>3, PacketExcept DEF Packets
          <5>5. a = Described(src)
            <6> HIDE DEF a
            <6> QED
              BY <5>4, PacketRecord DEF Described
          <5> HIDE DEF a
          <5> QED
            BY <5>1, <5>2, <5>4, <5>5 DEF Accepted
        <4> QED
          BY <1>2, <3>5, <4>4, <4>5, PacketAssumption
      <3> QED
        <4> HIDE DEF q, n
        <4> QED
          BY <1>2, <3>5, <3>6, <3>7, <3>8, PacketAssumption
    <2> QED
      BY <1>2, <2>4, <2>5
  <1> QED
    BY <1>2, <1>3, <1>4

\* Frames that are accepted give the same packet whatever was read before, and a
\* packet that write_to() turns into the same frame again (packet.rs 143-249).
THEOREM ReadThenWritten ==
    ASSUME NEW old \in Packets, NEW src \in Seq(Bytes), ReadFrom(old, src).ok,
           NEW p, p = ReadFrom(old, src).packet
    PROVE  /\ p \in Packets
           /\ p = ReadFrom(NewPacket, src).packet
           /\ IsValidPathLen(p) /\ Len(p.path) = PathByteLen(p)
           /\ ~WriteToPanics(p)
           /\ WriteTo(p) = src /\ WireLen(p) = Len(src)
  <1> DEFINE i == Start(src)
             n == PathEnd(src)
  <1>1. /\ p \in Packets /\ p = Described(src) /\ WellFormed(src)
    BY ReadFromIs
  <1>2. p = ReadFrom(NewPacket, src).packet
    BY <1>1, NewPacketType, ReadFromIs
  <1>3. /\ Len(src) \in Nat /\ i \in {1, 5} /\ n \in Nat
        /\ \A k \in 1..Len(src) : src[k] \in Bytes
        /\ i + 1 <= n /\ n <= Len(src)
        /\ n - (i + 1) <= MAX_PATH_SIZE /\ Len(src) - n <= MAX_PACKET_PAYLOAD
        /\ src[i + 1] \div 64 # 3
    BY <1>1, FramePlaces DEF WellFormed
  <1>4. /\ p.header = src[1] /\ p.path_len = src[i + 1]
        /\ p.path = SubSeq(src, i + 2, n) /\ p.payload = SubSeq(src, n + 1, Len(src))
        /\ i = 5 => p.transport_codes = <<FromLeBytes(src[2], src[3]), FromLeBytes(src[4], src[5])>>
        /\ HasTransportCodes(p) <=> i = 5
    <2>1. /\ p.header = src[1] /\ p.path_len = src[i + 1]
          /\ p.path = SubSeq(src, i + 2, n) /\ p.payload = SubSeq(src, n + 1, Len(src))
      BY <1>1, DescribedFields
    <2>2. i = 5 => p.transport_codes =
                     <<FromLeBytes(src[2], src[3]), FromLeBytes(src[4], src[5])>>
      <3> HIDE DEF n
      <3> QED
        BY <1>1 DEF Described
    <2>3. HasTransportCodes(p) <=> i = 5
      BY <2>1 DEF HasTransportCodes, Start
    <2> QED
      BY <2>1, <2>2, <2>3
  <1>5. PathByteLen(p) \in Nat /\ PathByteLen(p) = n - (i + 1) /\ IsValidPathLen(p)
    <2>1. PathByteLen(p) \in Nat
      BY <1>1, PacketFields
    <2>2. n = i + 1 + PathByteLen(p)
      BY <1>4 DEF PathEnd, PathByteLen, PathHashCount, PathHashSize
    <2> HIDE DEF n, i
    <2> QED
      BY <1>3, <1>4, <2>1, <2>2 DEF IsValidPathLen
  <1> HIDE DEF i, n
  <1>6. /\ Len(p.path) = PathByteLen(p)
        /\ Len(p.payload) = Len(src) - n
    <2>1. i + 2 \in Nat \ {0} /\ i + 2 <= n + 1 /\ n + 1 \in Nat \ {0}
      BY <1>3
    <2>2. Len(p.path) = n - (i + 2) + 1
      BY <1>3, <1>4, <2>1, FramePart
    <2>3. Len(p.payload) = Len(src) - (n + 1) + 1
      BY <1>3, <1>4, <2>1, FramePart
    <2> QED
      BY <1>3, <1>5, <2>2, <2>3
  <1>7. WireLen(p) = Len(src)
    <2>1. i = 1 + (IF HasTransportCodes(p) THEN 4 ELSE 0)
      BY <1>3, <1>4
    <2>2. WireLen(p) = i + 1 + PathByteLen(p) + Len(p.payload)
      BY <2>1 DEF WireLen
    <2> QED
      BY <1>3, <1>5, <1>6, <2>2
  <1>8. ~WriteToPanics(p)
    <2>1. Len(src) <= MAX_TRANS_UNIT
      BY <1>3, PacketAssumption
    <2> QED
      BY <1>3, <1>5, <1>6, <1>7, <2>1, PacketAssumption DEF WriteToPanics
  <1>9. <<p.header>> \o CodeBytes(p) = SubSeq(src, 1, i)
    <2>1. 1 \in 1..Len(src) /\ <<src[1]>> = SubSeq(src, 1, 1)
      <3>1. 1 \in 1..Len(src) /\ 1 \in 1..1
        BY <1>3
      <3> QED
        BY <3>1
    <2>2. CASE i = 1
      <3>1. CodeBytes(p) = <<>>
        BY <1>4, <2>2 DEF CodeBytes
      <3>2. <<src[1]>> \in Seq(Bytes)
        BY <1>3, <2>1
      <3> QED
        BY <1>4, <2>1, <2>2, <3>1, <3>2, ConcatEmptySeq
    <2>3. CASE i = 5
      <3>1. 5 <= Len(src)
        BY <1>3, <2>3
      <3>2. src[2] \in Bytes /\ src[3] \in Bytes /\ src[4] \in Bytes /\ src[5] \in Bytes
        BY <1>3, <3>1
      <3>3. /\ p.transport_codes[1] = FromLeBytes(src[2], src[3])
            /\ p.transport_codes[2] = FromLeBytes(src[4], src[5])
        BY <1>4, <2>3
      <3>4. CodeBytes(p) = <<src[2], src[3]>> \o <<src[4], src[5]>>
        <4>1. /\ ToLeBytes(p.transport_codes[1]) = <<src[2], src[3]>>
              /\ ToLeBytes(p.transport_codes[2]) = <<src[4], src[5]>>
          BY <3>2, <3>3, LittleEndian
        <4> QED
          BY <1>4, <2>3, <4>1 DEF CodeBytes
      <3>5. <<src[1]>> \o (<<src[2], src[3]>> \o <<src[4], src[5]>>) = SubSeq(src, 1, 5)
        BY <1>3, <3>1, <3>2
      <3> QED
        BY <1>4, <2>3, <3>4, <3>5
    <2> QED
      BY <1>3, <2>2, <2>3
  <1>10. SubSeq(src, 1, i) \o <<p.path_len>> = SubSeq(src, 1, i + 1)
    <2>1. i + 1 \in 1..Len(src) /\ 1 \in 1..Len(src) /\ (i + 1) - 1 = i
      BY <1>3
    <2>2. \A k \in 1..Len(src) : SubSeq(src, 1, k) = SubSeq(src, 1, k - 1) \o <<src[k]>>
      BY <2>1, SubSeqRecursiveSecond
    <2>3. SubSeq(src, 1, i + 1) = SubSeq(src, 1, (i + 1) - 1) \o <<src[i + 1]>>
      BY <2>1, <2>2
    <2>4. p.path_len = src[i + 1]
      BY <1>4
    <2> QED
      BY <2>1, <2>3, <2>4
  <1>11. SubSeq(src, 1, i + 1) \o SubSeq(p.path, 1, PathByteLen(p)) = SubSeq(src, 1, n)
    <2>1. SubSeq(p.path, 1, PathByteLen(p)) = p.path
      BY <1>1, <1>6, PacketFields, SubSeqFull
    <2>2. 1 \in 1..Len(src) + 1 /\ i + 1 \in (1 - 1)..Len(src) /\ n \in (i + 1)..Len(src)
          /\ i + 1 + 1 = i + 2
      BY <1>3
    <2>3. SubSeq(src, 1, i + 1) \o SubSeq(src, i + 1 + 1, n) = SubSeq(src, 1, n)
      BY <2>2, ConcatAdjacentSubSeq
    <2> QED
      BY <1>4, <2>1, <2>2, <2>3
  <1>12. SubSeq(src, 1, n) \o p.payload = src
    <2>1. 1 \in 1..Len(src) + 1 /\ n \in (1 - 1)..Len(src) /\ Len(src) \in n..Len(src)
      BY <1>3
    <2>2. SubSeq(src, 1, n) \o SubSeq(src, n + 1, Len(src)) = SubSeq(src, 1, Len(src))
      BY <2>1, ConcatAdjacentSubSeq
    <2>3. SubSeq(src, 1, Len(src)) = src
      BY SubSeqFull
    <2> QED
      BY <1>4, <2>2, <2>3
  <1>13. WriteTo(p) = src
    BY <1>9, <1>10, <1>11, <1>12 DEF WriteTo, CodeBytes
  <1> QED
    BY <1>1, <1>2, <1>5, <1>6, <1>7, <1>8, <1>13

\* The elements of s \o t: those of s, then those of t.
LEMMA ConcatParts ==
    ASSUME NEW s \in Seq(Bytes), NEW t \in Seq(Bytes)
    PROVE  /\ s \o t \in Seq(Bytes) /\ Len(s \o t) = Len(s) + Len(t)
           /\ \A k \in 1..Len(s) : (s \o t)[k] = s[k]
           /\ \A k \in 1..Len(t) : (s \o t)[Len(s) + k] = t[k]
           /\ SubSeq(s \o t, Len(s) + 1, Len(s) + Len(t)) = t
  <1> DEFINE m == Len(s)
             l == Len(t)
  <1>1. /\ s \o t \in Seq(Bytes) /\ m \in Nat /\ l \in Nat /\ Len(s \o t) = m + l
        /\ \A k \in 1..(m + l) : (s \o t)[k] = IF k <= m THEN s[k] ELSE t[k - m]
    BY ConcatProperties, LenProperties
  <1> HIDE DEF m, l
  <1>2. \A k \in 1..m : (s \o t)[k] = s[k]
    BY <1>1
  <1>3. ASSUME NEW k \in 1..l
        PROVE  (s \o t)[m + k] = t[k]
    <2>1. m + k \in 1..(m + l) /\ ~(m + k <= m) /\ (m + k) - m = k
      BY <1>1
    <2> QED
      BY <1>1, <2>1
  <1>4. SubSeq(s \o t, m + 1, m + l) = t
    <2> DEFINE part == SubSeq(s \o t, m + 1, m + l)
    <2>1. part \in Seq(Bytes) /\ Len(part) = l
      <3>1. m + 1 \in Nat \ {0} /\ m + l \in Nat /\ m + l <= m + l /\ m + 1 <= (m + l) + 1
            /\ ((m + l) - (m + 1)) + 1 = l
        BY <1>1
      <3>2. /\ part \in Seq(Bytes) /\ Len(part) = ((m + l) - (m + 1)) + 1
        BY <1>1, <3>1, FramePart
      <3> QED
        BY <3>1, <3>2
    <2>2. ASSUME NEW k \in 1..l
          PROVE  part[k] = t[k]
      <3>1. /\ m + 1 \in Nat \ {0} /\ m + l \in Nat /\ m + l <= m + l /\ m + 1 <= (m + l) + 1
            /\ k \in 1..(((m + l) - (m + 1)) + 1)
            /\ (m + 1) + (k - 1) = m + k
        BY <1>1
      <3>2. \A j \in 1..(((m + l) - (m + 1)) + 1) : part[j] = (s \o t)[(m + 1) + (j - 1)]
        BY <1>1, <3>1, FramePart
      <3>3. part[k] = (s \o t)[(m + 1) + (k - 1)]
        BY <3>1, <3>2
      <3> QED
        BY <1>3, <3>1, <3>3
    <2> HIDE DEF part
    <2>3. part = t
      BY <2>1, <2>2, SeqEqual DEF l
    <2> QED
      BY <2>3 DEF part
  <1> QED
    BY <1>1, <1>2, <1>3, <1>4 DEF m, l

\* The bytes of the codes, one by one.
LEMMA CodeBytesValues ==
    ASSUME NEW p \in Packets, HasTransportCodes(p), NEW c, c = CodeBytes(p)
    PROVE  p.transport_codes = <<FromLeBytes(c[1], c[2]), FromLeBytes(c[3], c[4])>>
  <1> DEFINE u == p.transport_codes[1]
             v == p.transport_codes[2]
             ub == ToLeBytes(u)
             vb == ToLeBytes(v)
  <1>1. u \in U16 /\ v \in U16 /\ p.transport_codes = <<u, v>>
    BY PacketFields
  <1> HIDE DEF u, v
  <1>2. /\ ub \in Seq(Bytes) /\ 2 = Len(ub) /\ vb \in Seq(Bytes) /\ 2 = Len(vb)
    BY <1>1, LittleEndian
  <1>3. c = ub \o vb
    BY DEF CodeBytes, u, v
  <1> HIDE DEF ub, vb
  <1>4. (\A k \in 1..2 : c[k] = ub[k]) /\ (\A k \in 1..2 : c[2 + k] = vb[k])
    <2>1. /\ \A k \in 1..Len(ub) : (ub \o vb)[k] = ub[k]
          /\ \A k \in 1..Len(vb) : (ub \o vb)[Len(ub) + k] = vb[k]
      BY <1>2, ConcatParts
    <2> QED
      BY <1>2, <1>3, <2>1
  <1>5. c[1] = ub[1] /\ c[2] = ub[2] /\ c[3] = vb[1] /\ c[4] = vb[2]
    BY <1>4
  <1>6. \A x \in U16 : FromLeBytes(x % 256, x \div 256) = x
    <2>1. \A x \in Nat : (x % 256) + 256 * (x \div 256) = x
      OBVIOUS
    <2>2. U16 \subseteq Nat
      BY DEF U16
    <2> QED
      BY <2>1, <2>2 DEF FromLeBytes
  <1>7. /\ c[1] = u % 256 /\ c[2] = u \div 256
        /\ c[3] = v % 256 /\ c[4] = v \div 256
    BY <1>5 DEF ToLeBytes, ub, vb
  <1> QED
    BY <1>1, <1>6, <1>7

\* A packet whose path is as long as it says, and without codes that its route does
\* not carry, is read as it was written, into whatever packet (packet.rs 143-249).
THEOREM WrittenThenRead ==
    ASSUME NEW p \in Packets, NEW old \in Packets,
           IsValidPathLen(p), Len(p.path) = PathByteLen(p), ~WriteToPanics(p),
           ~HasTransportCodes(p) => p.transport_codes = <<0, 0>>
    PROVE  ReadFrom(old, WriteTo(p)).ok /\ ReadFrom(old, WriteTo(p)).packet = p
  <1> DEFINE src == WriteTo(p)
             c == CodeBytes(p)
             w1 == <<p.header>> \o c
             w2 == w1 \o <<p.path_len>>
             w3 == w2 \o p.path
             i == 1 + Len(c)
             n == i + 1 + Len(p.path)
             l == Len(p.payload)
  <1>1. /\ p.header \in Bytes /\ p.path_len \in Bytes
        /\ p.path \in Seq(Bytes) /\ p.payload \in Seq(Bytes)
        /\ Len(p.path) \in 0..MAX_PATH_SIZE /\ Len(p.payload) \in 0..MAX_PACKET_PAYLOAD
        /\ Len(p.path) \in Nat /\ Len(p.payload) \in Nat
    BY PacketFields, LenProperties
  <1>2. /\ c \in Seq(Bytes) /\ Len(c) = IF HasTransportCodes(p) THEN 4 ELSE 0
        /\ HasTransportCodes(p) => p.transport_codes = <<FromLeBytes(c[1], c[2]), FromLeBytes(c[3], c[4])>>
    BY CodeBytesType, CodeBytesValues
  <1>3. src \in Seq(Bytes) /\ src = w3 \o p.payload
    <2>1. SubSeq(p.path, 1, PathByteLen(p)) = p.path
      BY <1>1, SubSeqFull
    <2> QED
      BY <2>1, WrittenIsWireLen DEF WriteTo, CodeBytes
  <1>4. /\ <<p.header>> \in Seq(Bytes) /\ 1 = Len(<<p.header>>) /\ <<p.header>>[1] = p.header
        /\ <<p.path_len>> \in Seq(Bytes) /\ 1 = Len(<<p.path_len>>)
        /\ <<p.path_len>>[1] = p.path_len
    BY <1>1
  <1> HIDE DEF src, c
  <1>5. i \in {1, 5} /\ i \in Nat /\ (HasTransportCodes(p) <=> i = 5)
    BY <1>2
  <1>6. /\ w1 \in Seq(Bytes) /\ i = Len(w1) /\ w1[1] = p.header
        /\ \A k \in 1..Len(c) : w1[1 + k] = c[k]
    <2> DEFINE h == <<p.header>>
    <2>1. h \in Seq(Bytes) /\ 1 = Len(h) /\ h[1] = p.header /\ w1 = h \o c
      BY <1>4
    <2> HIDE DEF h, w1
    <2>2. /\ h \o c \in Seq(Bytes) /\ Len(h \o c) = Len(h) + Len(c)
          /\ \A k \in 1..Len(h) : (h \o c)[k] = h[k]
          /\ \A k \in 1..Len(c) : (h \o c)[Len(h) + k] = c[k]
      BY <1>2, <2>1, ConcatParts
    <2>3. 1 \in 1..Len(h) /\ Len(h) + Len(c) = i
      <3>1. Len(h) = 1
        BY <2>1
      <3> QED
        BY <3>1
    <2> HIDE DEF i
    <2>4. w1[1] = p.header /\ w1 \in Seq(Bytes) /\ i = Len(w1)
      BY <2>1, <2>2, <2>3
    <2>5. \A k \in 1..Len(c) : w1[1 + k] = c[k]
      BY <2>1, <2>2
    <2> QED
      BY <2>4, <2>5
  <1> HIDE DEF w1, i
  <1>7. /\ w2 \in Seq(Bytes) /\ i + 1 = Len(w2)
        /\ \A k \in 1..i : w2[k] = w1[k]
        /\ w2[i + 1] = p.path_len
    <2> DEFINE b == <<p.path_len>>
    <2>1. b \in Seq(Bytes) /\ 1 = Len(b) /\ b[1] = p.path_len /\ w2 = w1 \o b
      BY <1>4
    <2> HIDE DEF b, w2
    <2>2. /\ w1 \o b \in Seq(Bytes) /\ Len(w1 \o b) = Len(w1) + Len(b)
          /\ \A k \in 1..Len(w1) : (w1 \o b)[k] = w1[k]
          /\ \A k \in 1..Len(b) : (w1 \o b)[Len(w1) + k] = b[k]
      BY <1>6, <2>1, ConcatParts
    <2>3. w2[i + 1] = p.path_len
      <3>1. 1 \in 1..Len(b)
        <4>1. Len(b) = 1
          BY <2>1
        <4> QED
          BY <4>1
      <3>2. (w1 \o b)[Len(w1) + 1] = b[1]
        BY <2>2, <3>1
      <3> QED
        BY <1>6, <2>1, <3>2
    <2> QED
      BY <1>6, <2>1, <2>2, <2>3
  <1> HIDE DEF w2
  <1>8. /\ w3 \in Seq(Bytes) /\ n = Len(w3)
        /\ \A k \in 1..i + 1 : w3[k] = w2[k]
        /\ SubSeq(w3, (i + 1) + 1, n) = p.path
    <2> DEFINE s == p.path
    <2>1. /\ w2 \o s \in Seq(Bytes) /\ Len(w2 \o s) = Len(w2) + Len(s)
          /\ \A k \in 1..Len(w2) : (w2 \o s)[k] = w2[k]
          /\ SubSeq(w2 \o s, Len(w2) + 1, Len(w2) + Len(s)) = s
      BY <1>1, <1>7, ConcatParts
    <2> QED
      BY <1>7, <2>1
  <1>9. n \in Nat /\ n >= i + 1 /\ n - (i + 1) = Len(p.path)
    BY <1>1, <1>5
  <1> HIDE DEF w3
  <1>10. n = i + 1 + PathByteLen(p)
    OBVIOUS
  <1> HIDE DEF n
  <1>11. /\ n + l = Len(src)
         /\ \A k \in 1..n : src[k] = w3[k]
         /\ SubSeq(src, n + 1, n + l) = p.payload
    <2> DEFINE s == p.payload
    <2>1. /\ Len(w3 \o s) = Len(w3) + Len(s)
          /\ \A k \in 1..Len(w3) : (w3 \o s)[k] = w3[k]
          /\ SubSeq(w3 \o s, Len(w3) + 1, Len(w3) + Len(s)) = s
      BY <1>1, <1>8, ConcatParts
    <2> QED
      BY <1>3, <1>8, <2>1
  <1>12. src[1] = p.header /\ src[i + 1] = p.path_len /\ \A k \in 1..Len(c) : src[1 + k] = c[k]
    <2>1. \A k \in 1..i : k \in 1..n /\ k \in 1..(i + 1)
      BY <1>5, <1>9
    <2>2. 1 \in 1..i /\ i + 1 \in 1..n /\ i + 1 \in 1..(i + 1) /\ \A k \in 1..Len(c) : 1 + k \in 1..i
      <3>1. \A k \in 1..Len(c) : 1 + k \in 1..i
        BY <1>2 DEF i
      <3> QED
        BY <1>5, <1>9, <3>1
    <2> QED
      BY <1>6, <1>7, <1>8, <1>11, <2>1, <2>2
  <1>13. SubSeq(src, (i + 1) + 1, n) = p.path
    <2> DEFINE m == (i + 1) + 1
               x == SubSeq(src, m, n)
               y == SubSeq(w3, m, n)
    <2>1. m \in Nat \ {0} /\ m <= n + 1 /\ n <= Len(w3) /\ n <= Len(src)
      BY <1>1, <1>5, <1>8, <1>9, <1>11
    <2>2. \A k \in 1..(n - m + 1) : m + k - 1 \in 1..n
      BY <1>5, <1>9
    <2> HIDE DEF m
    <2>3. /\ x \in Seq(Bytes) /\ Len(x) = n - m + 1
          /\ \A k \in 1..(n - m + 1) : x[k] = src[m + k - 1]
      BY <1>3, <1>9, <2>1, FramePart
    <2>4. /\ y \in Seq(Bytes) /\ Len(y) = n - m + 1
          /\ \A k \in 1..(n - m + 1) : y[k] = w3[m + k - 1]
      BY <1>8, <1>9, <2>1, FramePart
    <2> HIDE DEF x, y
    <2>5. \A k \in 1..Len(x) : x[k] = y[k]
      BY <1>11, <2>2, <2>3, <2>4
    <2>6. x = y
      BY <2>3, <2>4, <2>5, SeqEqual
    <2> QED
      BY <1>8, <2>6 DEF x, y, m
  <1>14. Start(src) = i
    BY <1>5, <1>12 DEF Start, HasTransportCodes
  <1>15. PathEnd(src) = n
    BY <1>10, <1>12, <1>14 DEF PathEnd, PathByteLen, PathHashCount, PathHashSize
  <1>16. WellFormed(src)
    <2>1. i < Len(src) /\ n <= Len(src) /\ Len(src) - n <= MAX_PACKET_PAYLOAD
      BY <1>1, <1>5, <1>9, <1>11, PacketAssumption
    <2>2. n - (i + 1) <= MAX_PATH_SIZE
      BY <1>1, <1>9, PacketAssumption
    <2>3. src[i + 1] \div 64 # 3
      BY <1>12 DEF IsValidPathLen
    <2> QED
      BY <1>14, <1>15, <2>1, <2>2, <2>3 DEF WellFormed
  <1>17. p.transport_codes =
           IF i = 5 THEN <<FromLeBytes(src[2], src[3]), FromLeBytes(src[4], src[5])>> ELSE <<0, 0>>
    <2>1. CASE i = 5
      <3>1. 1 \in 1..Len(c) /\ 2 \in 1..Len(c) /\ 3 \in 1..Len(c) /\ 4 \in 1..Len(c)
        BY <1>2, <1>5, <2>1
      <3>2. src[1 + 1] = c[1] /\ src[1 + 2] = c[2] /\ src[1 + 3] = c[3] /\ src[1 + 4] = c[4]
        BY <1>12, <3>1
      <3>3. src[2] = c[1] /\ src[3] = c[2] /\ src[4] = c[3] /\ src[5] = c[4]
        BY <3>2
      <3> QED
        BY <1>2, <1>5, <2>1, <3>3
    <2>2. CASE i # 5
      BY <1>5, <2>2
    <2> QED
      BY <2>1, <2>2
  <1>18. Described(src) = p
    <2>1. i + 2 = (i + 1) + 1
      BY <1>5
    <2>2. Described(src) =
            [header |-> p.header, path_len |-> p.path_len,
             transport_codes |-> p.transport_codes, path |-> p.path, payload |-> p.payload]
      BY <1>11, <1>12, <1>13, <1>14, <1>15, <1>17, <2>1 DEF Described
    <2> QED
      BY <2>2, PacketRecord
  <1> QED
    BY <1>3, <1>16, <1>18, ReadFromIs DEF src

-----------------------------------------------------------------------------
\* What the proof needs besides the properties: a driver that was configured has
\* parameters, nothing was estimated before the packet is sent, and the frame of an
\* intact transmission is the packet's.
Strength ==
    /\ configured \in [last : BOOLEAN, ever : BOOLEAN]
    /\ configured.ever => modulation # Unset /\ tx_pkt_params # Unset /\ rx_pkt_params # Unset
    /\ configured.last => config \in Configs /\ tx_pkt_params = PacketParams(config)
    /\ pc \in {"idle", "composed"} => onAir = Nothing
    /\ intact => pc \in {"air", "done"} /\ frame = WriteTo(packet) /\ ~WriteToPanics(packet)

Driver == OneConfiguration /\ StaysUsable /\ ShortByThePreamble /\ Strength
Reader == NothingCarriedOver /\ AcceptedIsWhole
LinkInv == TypeOK /\ FieldsAsAsked /\ Driver /\ Reader /\ RoundTrip

Requests ==
    [header : [route_type : 0..3, payload_type : 0..15, version : 0..3],
     size : 1..3, count : 0..63]

-----------------------------------------------------------------------------
\* The packet, its header and its path length, one at a time.
LEMMA ParsedHeaderType ==
    \A b \in Bytes : ParsedHeader(b) \in [route_type : 0..3, payload_type : 0..15, version : 0..3]
  <1> SUFFICES ASSUME NEW b \in 0..255
               PROVE  ParsedHeader(b) \in [route_type : 0..3, payload_type : 0..15, version : 0..3]
    BY DEF Bytes
  <1>1. b % 4 \in 0..3
    OBVIOUS
  <1>2. (b \div 4) % 16 \in 0..15
    OBVIOUS
  <1>3. (b \div 64) % 4 \in 0..3
    OBVIOUS
  <1> QED
    BY <1>1, <1>2, <1>3 DEF ParsedHeader

\* The two parts of path_len do not disturb each other.
LEMMA JoinPathLen ==
    ASSUME NEW a \in 0..3, NEW b \in 0..63, NEW n, n = a * 64 + b
    PROVE  n \in 0..255 /\ n \div 64 = a /\ n % 64 = b
  OBVIOUS

LEMMA SetPathLen ==
    ASSUME NEW p \in Packets, NEW n \in 0..255, NEW q, q = [p EXCEPT !.path_len = n]
    PROVE  q \in Packets /\ q.header = p.header /\ q.path_len = n
  <1>1. n \in Bytes
    BY DEF Bytes
  <1>2. q \in Packets
    BY <1>1, PacketExcept
  <1>3. q.header = p.header /\ q.path_len = n
    BY DEF Packets
  <1> QED
    BY <1>2, <1>3

LEMMA SetCountFields ==
    ASSUME NEW p \in Packets, NEW count \in Bytes, NEW q, q = SetPathHashCount(p, count)
    PROVE  /\ q \in Packets /\ q.header = p.header
           /\ PathHashSize(q) = PathHashSize(p) /\ PathHashCount(q) = count % 64
           /\ count % 64 \in 0..63
  <1> DEFINE a == p.path_len \div 64
             b == count % 64
             n == a * 64 + b
  <1>1. p.path_len \in 0..255 /\ count \in 0..255
    BY PacketFields DEF Bytes
  <1>2. a \in 0..3 /\ b \in 0..63
    BY <1>1, SplitPathLen
  <1>3. q = [p EXCEPT !.path_len = n]
    BY DEF SetPathHashCount
  <1> HIDE DEF a, b
  <1>4. n \in 0..255 /\ n \div 64 = a /\ n % 64 = b
    BY <1>2, JoinPathLen
  <1> HIDE DEF n
  <1>5. q \in Packets /\ q.header = p.header /\ q.path_len = n
    BY <1>3, <1>4, SetPathLen
  <1> QED
    BY <1>2, <1>4, <1>5 DEF PathHashSize, PathHashCount, a, b

LEMMA SetSizeAndCountFields ==
    ASSUME NEW p \in Packets, NEW size \in 1..3, NEW count \in Bytes,
           NEW q, q = SetPathHashSizeAndCount(p, size, count)
    PROVE  /\ q \in Packets /\ q.header = p.header
           /\ PathHashSize(q) = size /\ PathHashCount(q) = count % 64
           /\ count % 64 \in 0..63
  <1> DEFINE a == size - 1
             b == count % 64
             n == a * 64 + b
  <1>1. count \in 0..255
    BY DEF Bytes
  <1>2. a \in 0..3 /\ b \in 0..63 /\ a + 1 = size
    BY <1>1, SplitPathLen
  <1>3. q = [p EXCEPT !.path_len = n]
    <2>1. size # 0 /\ (size - 1) % 4 = size - 1
      OBVIOUS
    <2> QED
      BY <2>1 DEF SetPathHashSizeAndCount
  <1> HIDE DEF a, b
  <1>4. n \in 0..255 /\ n \div 64 = a /\ n % 64 = b
    BY <1>2, JoinPathLen
  <1> HIDE DEF n
  <1>5. q \in Packets /\ q.header = p.header /\ q.path_len = n
    BY <1>3, <1>4, SetPathLen
  <1> QED
    BY <1>2, <1>4, <1>5 DEF PathHashSize, PathHashCount, b

-----------------------------------------------------------------------------
\* What every call of the composing caller leaves.
LEMMA ComposeStep ==
    ASSUME TypeOK, FieldsAsAsked, Compose
    PROVE  /\ pc \in {"idle", "composed"} /\ pc' = "composed"
           /\ packet' \in Packets /\ asked' \in Requests /\ FieldsAsAsked'
           /\ UNCHANGED <<driverVars, driverHistory, frame, intact, onAir, received, heard, accepted>>
  <1> USE RadioLinkAssumption
  <1> DEFINE Goal ==
        /\ pc \in {"idle", "composed"} /\ pc' = "composed"
        /\ packet' \in Packets /\ asked' \in Requests /\ FieldsAsAsked'
        /\ UNCHANGED <<driverVars, driverHistory, frame, intact, onAir, received, heard, accepted>>
  <1>1. /\ packet \in Packets /\ packet.header \in Bytes /\ asked \in Requests
        /\ ParsedHeader(packet.header) = asked.header
        /\ PathHashSize(packet) = asked.size /\ PathHashCount(packet) = asked.count
    BY PacketFields DEF TypeOK, FieldsAsAsked, Requests
  <1>2. ASSUME NEW p \in Packets, NEW request \in Requests, Set(p, request),
               ParsedHeader(p.header) = request.header,
               PathHashSize(p) = request.size, PathHashCount(p) = request.count
        PROVE  Goal
    BY <1>2 DEF Set, FieldsAsAsked
  <1> HIDE DEF Goal
  <1>3. ASSUME NEW h \in Headers, SetHeader(h)
        PROVE  Goal
    <2> DEFINE p == [packet EXCEPT !.header = HeaderByte(h)]
               request == [asked EXCEPT !.header = h]
    <2>1. HeaderByte(h) \in Bytes /\ ParsedHeader(HeaderByte(h)) = h
      BY HeaderRoundTrip
    <2>2. p \in Packets /\ p.header = HeaderByte(h) /\ p.path_len = packet.path_len
      BY <1>1, <2>1, PacketExcept DEF Packets
    <2>3. h \in [route_type : 0..3, payload_type : 0..15, version : 0..3]
      BY <2>1, ParsedHeaderType
    <2>4. /\ request \in Requests /\ request.header = h
          /\ request.size = asked.size /\ request.count = asked.count
      BY <1>1, <2>3 DEF Requests
    <2>5. Set(p, request)
      BY <1>3 DEF SetHeader
    <2> HIDE DEF p, request
    <2> QED
      BY <1>1, <1>2, <2>1, <2>2, <2>4, <2>5 DEF PathHashSize, PathHashCount
  <1>4. ASSUME NEW codes \in Codes, SetCodes(codes)
        PROVE  Goal
    <2> DEFINE p == [packet EXCEPT !.transport_codes = codes]
    <2>1. p \in Packets /\ p.header = packet.header /\ p.path_len = packet.path_len
      BY <1>1, PacketExcept DEF Packets
    <2>2. Set(p, asked)
      BY <1>4 DEF SetCodes
    <2> HIDE DEF p
    <2> QED
      BY <1>1, <1>2, <2>1, <2>2 DEF PathHashSize, PathHashCount
  <1>5. ASSUME NEW count \in Counts, SetCount(count)
        PROVE  Goal
    <2> DEFINE p == SetPathHashCount(packet, count)
               request == [asked EXCEPT !.count = count % 64]
    <2>1. /\ p \in Packets /\ p.header = packet.header
          /\ PathHashSize(p) = PathHashSize(packet) /\ PathHashCount(p) = count % 64
          /\ count % 64 \in 0..63
      BY <1>1, SetCountFields
    <2>2. /\ request \in Requests /\ request.header = asked.header
          /\ request.size = asked.size /\ request.count = count % 64
      BY <1>1, <2>1 DEF Requests
    <2>3. Set(p, request)
      BY <1>5 DEF SetCount
    <2> HIDE DEF p, request
    <2> QED
      BY <1>1, <1>2, <2>1, <2>2, <2>3
  <1>6. ASSUME NEW size \in Sizes, NEW count \in Counts, SetSizeAndCount(size, count)
        PROVE  Goal
    <2> DEFINE p == SetPathHashSizeAndCount(packet, size, count)
               request == [asked EXCEPT !.size = size, !.count = count % 64]
    <2>1. /\ p \in Packets /\ p.header = packet.header
          /\ PathHashSize(p) = size /\ PathHashCount(p) = count % 64
          /\ count % 64 \in 0..63
      BY <1>1, SetSizeAndCountFields
    <2>2. /\ request \in Requests /\ request.header = asked.header
          /\ request.size = size /\ request.count = count % 64
      BY <1>1, <2>1 DEF Requests
    <2>3. Set(p, request)
      BY <1>6 DEF SetSizeAndCount
    <2> HIDE DEF p, request
    <2> QED
      BY <1>1, <1>2, <2>1, <2>2, <2>3
  <1>7. ASSUME NEW n \in Lengths, FillPath(n)
        PROVE  Goal
    <2> DEFINE s == SubSeq(PathBytes, 1, n)
               p == [packet EXCEPT !.path = s]
    <2>1. n \in 1..Len(PathBytes) /\ n <= MAX_PATH_SIZE
      BY <1>7, LenProperties DEF FillPath
    <2>2. s \in Seq(Bytes) /\ Len(s) = n
      <3>1. Len(PathBytes) \in Nat
        BY LenProperties
      <3>2. 1 \in Nat \ {0} /\ n \in Nat /\ n <= Len(PathBytes) /\ 1 <= n + 1 /\ n - 1 + 1 = n
        BY <2>1, <3>1
      <3>3. s \in Seq(Bytes) /\ Len(s) = n - 1 + 1
        BY <3>2, FramePart
      <3> QED
        BY <3>2, <3>3
    <2>3. Set(p, asked)
      BY <1>7 DEF FillPath
    <2> HIDE DEF s
    <2>4. p \in Packets /\ p.header = packet.header /\ p.path_len = packet.path_len
      BY <1>1, <2>1, <2>2, PacketExcept DEF Packets
    <2> HIDE DEF p
    <2> QED
      BY <1>1, <1>2, <2>3, <2>4 DEF PathHashSize, PathHashCount
  <1>8. ASSUME NEW n \in Lengths, FillPayload(n)
        PROVE  Goal
    <2> DEFINE s == SubSeq(PayloadBytes, 1, n)
               p == [packet EXCEPT !.payload = s]
    <2>1. n \in 1..Len(PayloadBytes) /\ n <= MAX_PACKET_PAYLOAD
      BY <1>8, LenProperties DEF FillPayload
    <2>2. s \in Seq(Bytes) /\ Len(s) = n
      <3>1. Len(PayloadBytes) \in Nat
        BY LenProperties
      <3>2. 1 \in Nat \ {0} /\ n \in Nat /\ n <= Len(PayloadBytes) /\ 1 <= n + 1 /\ n - 1 + 1 = n
        BY <2>1, <3>1
      <3>3. s \in Seq(Bytes) /\ Len(s) = n - 1 + 1
        BY <3>2, FramePart
      <3> QED
        BY <3>2, <3>3
    <2>3. Set(p, asked)
      BY <1>8 DEF FillPayload
    <2> HIDE DEF s
    <2>4. p \in Packets /\ p.header = packet.header /\ p.path_len = packet.path_len
      BY <1>1, <2>1, <2>2, PacketExcept DEF Packets
    <2> HIDE DEF p
    <2> QED
      BY <1>1, <1>2, <2>3, <2>4 DEF PathHashSize, PathHashCount
  <1>9. ASSUME Mark
        PROVE  Goal
    <2> DEFINE p == Marked(packet)
               h == ParsedHeader(DO_NOT_RETRANSMIT)
               request == [asked EXCEPT !.header = h]
    <2>1. DO_NOT_RETRANSMIT \in Bytes
      BY DEF DO_NOT_RETRANSMIT, Bytes
    <2>2. p \in Packets /\ p.header = DO_NOT_RETRANSMIT /\ p.path_len = packet.path_len
      BY <1>1, <2>1, PacketExcept DEF Packets, Marked
    <2>3. h \in [route_type : 0..3, payload_type : 0..15, version : 0..3]
      BY <2>1, ParsedHeaderType
    <2> HIDE DEF h
    <2>4. /\ request \in Requests /\ request.header = h
          /\ request.size = asked.size /\ request.count = asked.count
      BY <1>1, <2>3 DEF Requests
    <2>5. Set(p, request)
      BY <1>9 DEF Mark, h
    <2> HIDE DEF p, request
    <2> QED
      BY <1>1, <1>2, <2>2, <2>4, <2>5 DEF PathHashSize, PathHashCount, h
  <1>10. Goal
    BY <1>3, <1>4, <1>5, <1>6, <1>7, <1>8, <1>9 DEF Compose
  <1> QED
    BY <1>10 DEF Goal

-----------------------------------------------------------------------------
\* What reading a frame leaves.
LEMMA ReadStep ==
    ASSUME TypeOK, NEW f \in Seq(Bytes), Read(f)
    PROVE  /\ received' \in Packets /\ accepted' \in BOOLEAN /\ heard' \in Seq(Bytes)
           /\ Reader'
  <1>1. /\ received \in Packets /\ heard' = f
        /\ received' = ReadFrom(received, f).packet /\ accepted' = ReadFrom(received, f).ok
    BY DEF TypeOK, Read
  <1>2. received' \in Packets /\ accepted' \in BOOLEAN
    BY <1>1, ReadFromIs
  <1>3. ASSUME accepted'
        PROVE  /\ received' = ReadFrom(NewPacket, f).packet
               /\ IsValidPathLen(received') /\ Len(received'.path) = PathByteLen(received')
               /\ ~WriteToPanics(received')
               /\ WriteTo(received') = f /\ WireLen(received') = Len(f)
    <2>1. ReadFrom(received, f).ok
      BY <1>1, <1>3
    <2> DEFINE q == ReadFrom(received, f).packet
    <2>2. /\ q = ReadFrom(NewPacket, f).packet
          /\ IsValidPathLen(q) /\ Len(q.path) = PathByteLen(q)
          /\ ~WriteToPanics(q)
          /\ WriteTo(q) = f /\ WireLen(q) = Len(f)
      BY <1>1, <2>1, ReadThenWritten
    <2>3. received' = q
      BY <1>1
    <2> HIDE DEF q
    <2> QED
      BY <2>2, <2>3
  <1>4. NothingCarriedOver'
    BY <1>1, <1>3 DEF NothingCarriedOver
  <1>5. AcceptedIsWhole'
    BY <1>1, <1>3 DEF AcceptedIsWhole
  <1> QED
    BY <1>1, <1>2, <1>4, <1>5 DEF Reader

\* A bandwidth of lora-phy falls into its own class.
LEMMA BandwidthKept == \A w \in Bandwidths : ToBandwidth(w) = w /\ w # 0
  <1>1. ToBandwidth(78) = 78
    BY DEF ToBandwidth
  <1>2. ToBandwidth(104) = 104
    BY DEF ToBandwidth
  <1>3. ToBandwidth(156) = 156
    BY DEF ToBandwidth
  <1>4. ToBandwidth(208) = 208
    BY DEF ToBandwidth
  <1>5. ToBandwidth(313) = 313
    BY DEF ToBandwidth
  <1>6. ToBandwidth(417) = 417
    BY DEF ToBandwidth
  <1>7. ToBandwidth(625) = 625
    BY DEF ToBandwidth
  <1>8. ToBandwidth(1250) = 1250
    BY DEF ToBandwidth
  <1>9. ToBandwidth(2500) = 2500
    BY DEF ToBandwidth
  <1>10. ToBandwidth(5000) = 5000
    BY DEF ToBandwidth
  <1> QED
    BY <1>1, <1>2, <1>3, <1>4, <1>5, <1>6, <1>7, <1>8, <1>9, <1>10 DEF Bandwidths

\* The time a is longer than e by `missing` us, when both are rounded to ms.
LongerBy(missing, a, e) == 1000 * (a - e) \in (missing - 999)..(missing + 999)

\* Two airtimes of the same bytes differ by the symbols of their preambles, and by the
\* rounding of each.
LEMMA PreamblesDiffer ==
    ASSUME NEW p \in Nat, NEW q \in Nat, NEW sf \in 5..12, NEW bw \in Nat \ {0},
           NEW cr \in Nat, NEW len \in Nat
    PROVE  LongerBy((p - q) * SymbolUs(sf, bw),
                    AirtimeMs(p, sf, bw, cr, len), AirtimeMs(q, sf, bw, cr, len))
  <1> DEFINE u == SymbolUs(sf, bw)
             n == PayloadSymbols(sf, cr, len)
             x == (q + 4 + n) * u
             y == (p + 4 + n) * u
             m == (p - q) * u
  <1>1. u \in Int
    <2>1. 2^sf \in Int
      OBVIOUS
    <2> QED
      BY <2>1 DEF SymbolUs
  <1>2. n \in Int
    <2> DEFINE bits == (IF len * 8 > sf * 4 THEN len * 8 - sf * 4 ELSE 0) + 28 + 16
               blocks == (bits + sf * 4 - 1) \div (sf * 4)
    <2>1. bits + sf * 4 - 1 \in Int /\ sf * 4 \in Nat \ {0}
      OBVIOUS
    <2> HIDE DEF bits
    <2>2. blocks \in Int
      BY <2>1
    <2> HIDE DEF blocks
    <2>3. 8 + blocks * cr \in Int
      BY <2>2
    <2> QED
      BY <2>3 DEF PayloadSymbols, blocks, bits
  <1> HIDE DEF u, n
  <1>3. x \in Int /\ m \in Int /\ y = x + m
    BY <1>1, <1>2
  <1> HIDE DEF x, y, m
  <1>4. /\ AirtimeMs(q, sf, bw, cr, len) = (x + 500) \div 1000
        /\ AirtimeMs(p, sf, bw, cr, len) = (x + m + 500) \div 1000
    <2>1. AirtimeMs(p, sf, bw, cr, len) = (y + 500) \div 1000
      BY DEF AirtimeMs, y, n, u
    <2>2. AirtimeMs(q, sf, bw, cr, len) = (x + 500) \div 1000
      BY DEF AirtimeMs, x, n, u
    <2> QED
      BY <1>3, <2>1, <2>2
  <1>5. 1000 * ((x + m + 500) \div 1000 - (x + 500) \div 1000) \in (m - 999)..(m + 999)
    BY <1>3
  <1>6. LongerBy(m, AirtimeMs(p, sf, bw, cr, len), AirtimeMs(q, sf, bw, cr, len))
    BY <1>4, <1>5 DEF LongerBy
  <1> QED
    BY <1>6 DEF m, u

\* What sending a packet leaves.
LEMMA TransmitStep ==
    ASSUME LinkInv, Transmit
    PROVE  /\ pc = "composed" /\ pc' \in {"air", "done", "panicked"}
           /\ pc' = "done" => ~intact'
           /\ UNCHANGED <<driverVars, configured, packet, asked, received, heard, accepted>>
           /\ frame' \in Seq(Bytes) /\ Len(frame') <= MAX_TRANS_UNIT /\ intact' \in BOOLEAN
           /\ intact' => pc' = "air" /\ frame' = WriteTo(packet) /\ ~WriteToPanics(packet)
           /\ StaysUsable' /\ ShortByThePreamble'
  <1>1. /\ pc = "composed" /\ ~intact /\ onAir = Nothing /\ intact \in BOOLEAN
        /\ packet \in Packets /\ frame \in Seq(Bytes) /\ Len(frame) <= MAX_TRANS_UNIT
        /\ UNCHANGED <<driverVars, configured, packet, asked, received, heard, accepted>>
    BY DEF LinkInv, Driver, Strength, TypeOK, Transmit
  <1>2. configured.ever => "InvalidState" \notin SendReturns
    BY DEF LinkInv, Driver, Strength, SendReturns
  <1>3. CASE /\ WriteToPanics(packet)
             /\ pc' = "panicked"
             /\ UNCHANGED <<returned, frame, intact, onAir>>
    BY <1>1, <1>3 DEF LinkInv, Driver, StaysUsable, ShortByThePreamble, Nothing
  <1>4. CASE /\ ~WriteToPanics(packet)
             /\ returned' \in SendReturns \ {"Ok"}
             /\ pc' = "done"
             /\ UNCHANGED <<frame, intact, onAir>>
    BY <1>1, <1>2, <1>4 DEF StaysUsable, ShortByThePreamble, Nothing
  <1>5. CASE /\ ~WriteToPanics(packet)
             /\ "Ok" \in SendReturns /\ returned' = "Ok"
             /\ pc' = "air"
             /\ frame' = WriteTo(packet) /\ intact' = TRUE
             /\ onAir' = [estimate |-> EstimateAirtimeMs(WireLen(packet)),
                          airtime |-> AirtimeMs(tx_pkt_params.preamble, modulation.sf,
                                                modulation.bw, modulation.cr,
                                                Len(WriteTo(packet)))]
    <2>1. /\ WriteTo(packet) \in Seq(Bytes) /\ Len(WriteTo(packet)) = WireLen(packet)
          /\ Len(WriteTo(packet)) <= MAX_TRANS_UNIT /\ WireLen(packet) \in Nat
      <3>1. /\ WriteTo(packet) \in Seq(Bytes) /\ Len(WriteTo(packet)) = WireLen(packet)
            /\ Len(WriteTo(packet)) <= MAX_TRANS_UNIT
        BY <1>1, <1>5, WrittenIsWireLen
      <3> QED
        BY <3>1, LenProperties
    <2>2. ASSUME configured.last
          PROVE  LET c == config
                     sf == c.spreading_factor
                     bw == c.bandwidth
                 IN  /\ sf \in 5..12 /\ bw \in Nat \ {0} /\ c.coding_rate \in Nat
                     /\ c.preamble_symbols \in Nat
                     /\ onAir'.estimate
                          = AirtimeMs(EstimatedPreamble, sf, bw, c.coding_rate, WireLen(packet))
                     /\ onAir'.airtime
                          = AirtimeMs(c.preamble_symbols, sf, bw, c.coding_rate, WireLen(packet))
      <3>1. /\ config \in Configs /\ modulation = ModulationParams(config)
            /\ tx_pkt_params = PacketParams(config)
        BY <2>2 DEF LinkInv, Driver, Strength, OneConfiguration
      <3>2. /\ config.bandwidth \in Bandwidths /\ config.bandwidth \in Nat
            /\ config.spreading_factor \in 5..12 /\ config.coding_rate \in 5..8
            /\ config.preamble_symbols \in Nat
        BY <3>1, RadioLinkAssumption, Sx1262Assumption
      <3>3. modulation.bw = config.bandwidth /\ config.bandwidth # 0
        BY <3>1, <3>2, BandwidthKept DEF ModulationParams
      <3>4. modulation.sf = config.spreading_factor /\ modulation.cr = config.coding_rate
        BY <3>1, <3>2 DEF ModulationParams, ToSpreadingFactor, ToCodingRate
      <3>5. tx_pkt_params.preamble = config.preamble_symbols
        BY <3>1 DEF PacketParams
      <3> QED
        BY <1>5, <2>1, <3>2, <3>3, <3>4, <3>5 DEF EstimateAirtimeMs
    <2>3. ShortByThePreamble'
      <3> SUFFICES ASSUME configured.last
                   PROVE  LET missing == (config.preamble_symbols - EstimatedPreamble)
                                           * SymbolUs(config.spreading_factor, config.bandwidth)
                          IN  1000 * (onAir'.airtime - onAir'.estimate)
                                \in (missing - 999)..(missing + 999)
        BY <1>1 DEF ShortByThePreamble, driverVars
      <3>1. EstimatedPreamble \in Nat
        BY DEF EstimatedPreamble
      <3> DEFINE p == config.preamble_symbols
                 q == EstimatedPreamble
                 sf == config.spreading_factor
                 bw == config.bandwidth
                 cr == config.coding_rate
                 len == WireLen(packet)
      <3>2. /\ p \in Nat /\ q \in Nat /\ sf \in 5..12 /\ bw \in Nat \ {0}
            /\ cr \in Nat /\ len \in Nat
            /\ onAir'.estimate = AirtimeMs(q, sf, bw, cr, len)
            /\ onAir'.airtime = AirtimeMs(p, sf, bw, cr, len)
        BY <2>1, <2>2, <3>1
      <3> HIDE DEF p, q, sf, bw, cr, len
      <3>3. LongerBy((p - q) * SymbolUs(sf, bw), AirtimeMs(p, sf, bw, cr, len),
                     AirtimeMs(q, sf, bw, cr, len))
        BY <3>2, PreamblesDiffer
      <3>4. LongerBy((p - q) * SymbolUs(sf, bw), onAir'.airtime, onAir'.estimate)
        BY <3>2, <3>3
      <3> QED
        BY <3>4 DEF LongerBy, p, q, sf, bw
    <2> QED
      BY <1>1, <1>5, <2>1, <2>3 DEF StaysUsable
  <1> QED
    BY <1>3, <1>4, <1>5 DEF Transmit

\* The frame that the air damaged is a frame.
LEMMA DamageStep ==
    ASSUME TypeOK, Damage
    PROVE  /\ frame' \in Seq(Bytes) /\ Len(frame') <= MAX_TRANS_UNIT /\ ~intact' /\ intact' \in BOOLEAN
           /\ pc = "air"
           /\ UNCHANGED <<driverVars, driverHistory, pc, packet, asked, onAir, received, heard, accepted>>
  <1>1. frame \in Seq(Bytes) /\ Len(frame) \in Nat /\ Len(frame) <= MAX_TRANS_UNIT
    BY LenProperties DEF TypeOK
  <1>2. ASSUME NEW n \in 0..(Len(frame) - 1), frame' = SubSeq(frame, 1, n)
        PROVE  frame' \in Seq(Bytes) /\ Len(frame') <= MAX_TRANS_UNIT
    <2>1. 1 \in Nat \ {0} /\ n \in Nat /\ n <= Len(frame) /\ 1 <= n + 1 /\ n - 1 + 1 = n
      BY <1>1
    <2>2. SubSeq(frame, 1, n) \in Seq(Bytes) /\ Len(SubSeq(frame, 1, n)) = n - 1 + 1
      BY <1>1, <2>1, FramePart
    <2> QED
      BY <1>1, <1>2, <2>1, <2>2, PacketAssumption
  <1>3. ASSUME NEW i \in DOMAIN frame \cap 1..6, NEW b \in Noise, frame' = [frame EXCEPT ![i] = b]
        PROVE  frame' \in Seq(Bytes) /\ Len(frame') <= MAX_TRANS_UNIT
    <2>1. i \in 1..Len(frame) /\ b \in Bytes
      BY <1>1, LenProperties, RadioLinkAssumption
    <2>2. [frame EXCEPT ![i] = b] \in Seq(Bytes) /\ Len([frame EXCEPT ![i] = b]) = Len(frame)
      BY <1>1, <2>1, ExceptSeq
    <2> QED
      BY <1>1, <1>3, <2>2
  <1> QED
    BY <1>2, <1>3 DEF Damage

\* configure() keeps what the driver promises, whether it fails or not.
LEMMA SetUpStep ==
    ASSUME LinkInv, NEW c \in Configs, SetUp(c)
    PROVE  Driver' /\ UNCHANGED linkVars
  <1>1. pc = "idle" /\ onAir = Nothing /\ UNCHANGED linkVars /\ Configure(c)
    BY DEF LinkInv, Driver, Strength, SetUp
  <1>2. ShortByThePreamble' /\ (pc' \in {"idle", "composed"} => onAir' = Nothing)
    BY <1>1 DEF linkVars, ShortByThePreamble, Nothing
  <1>3. intact' => pc' \in {"air", "done"} /\ frame' = WriteTo(packet)' /\ ~WriteToPanics(packet)'
    BY <1>1 DEF LinkInv, Driver, Strength, linkVars
  <1>4. ModulationParams(c) # Unset /\ PacketParams(c) # Unset
    BY Sx1262Assumption
  <1>5. CASE /\ modulation' = ModulationParams(c)
             /\ tx_pkt_params' = PacketParams(c)
             /\ rx_pkt_params' = PacketParams(c)
             /\ returned' = "Ok"
             /\ configured' = [last |-> TRUE, ever |-> TRUE]
    <2>1. config' = c
      BY <1>1 DEF Configure
    <2>2. OneConfiguration' /\ StaysUsable'
      BY <1>4, <1>5, <2>1 DEF OneConfiguration, StaysUsable, PacketParams
    <2>3. /\ configured' \in [last : BOOLEAN, ever : BOOLEAN]
          /\ configured'.ever => modulation' # Unset /\ tx_pkt_params' # Unset /\ rx_pkt_params' # Unset
          /\ configured'.last => config' \in Configs /\ tx_pkt_params' = PacketParams(config')
      BY <1>4, <1>5, <2>1
    <2>4. Strength'
      BY <1>2, <1>3, <2>3 DEF Strength
    <2> QED
      BY <1>1, <1>2, <2>2, <2>4 DEF Driver
  <1>6. CASE /\ UNCHANGED <<modulation, tx_pkt_params, rx_pkt_params>>
             /\ returned' = "ConfigError"
             /\ configured' = [configured EXCEPT !.last = FALSE]
    <2>1. /\ configured' \in [last : BOOLEAN, ever : BOOLEAN] /\ ~configured'.last
          /\ configured'.ever = configured.ever
      BY <1>6 DEF LinkInv, Driver, Strength
    <2>2. OneConfiguration' /\ StaysUsable'
      BY <1>6, <2>1 DEF LinkInv, Driver, OneConfiguration, StaysUsable
    <2>3. configured'.ever => modulation' # Unset /\ tx_pkt_params' # Unset /\ rx_pkt_params' # Unset
      BY <1>6, <2>1 DEF LinkInv, Driver, Strength
    <2>4. Strength'
      BY <1>2, <1>3, <2>1, <2>3 DEF Strength
    <2> QED
      BY <1>1, <1>2, <2>2, <2>4 DEF Driver
  <1> QED
    BY <1>1, <1>5, <1>6 DEF Configure

\* A call that brings no frame.
LEMMA CallStep ==
    ASSUME LinkInv, Call
    PROVE  Driver' /\ UNCHANGED linkVars
  <1>1. UNCHANGED <<driverVars, configured, linkVars>>
    BY DEF Call
  <1>2. configured.ever => returned' # "InvalidState"
    BY DEF LinkInv, Driver, Strength, Call, ChannelActiveReturns, RecvReturns
  <1> QED
    BY <1>1, <1>2 DEF LinkInv, Driver, OneConfiguration, StaysUsable, ShortByThePreamble,
                      Strength, driverVars, linkVars

\* The properties, and what they rest on, hold at first and are kept by every step.
LEMMA LinkInvInit == Init => LinkInv
  <1> SUFFICES ASSUME Init
               PROVE  LinkInv
    OBVIOUS
  <1>1. /\ packet = NewPacket /\ received = NewPacket /\ NewPacket \in Packets
        /\ frame = <<>> /\ heard = <<>> /\ <<>> \in Seq(Bytes) /\ Len(<<>>) <= MAX_TRANS_UNIT
        /\ pc = "idle" /\ intact = FALSE /\ accepted = FALSE /\ onAir = Nothing
        /\ asked = [header |-> ParsedHeader(0), size |-> 1, count |-> 0]
    BY NewPacketType, EmptySeq, PacketAssumption DEF Init
  <1>2. /\ modulation = Unset /\ tx_pkt_params = Unset /\ rx_pkt_params = Unset
        /\ returned = "nothing" /\ configured = [last |-> FALSE, ever |-> FALSE]
    BY DEF Init, DriverInit
  <1>3. TypeOK
    <2>1. 0 \in Bytes
      BY DEF Bytes
    <2>2. asked \in Requests
      BY <1>1, <2>1, ParsedHeaderType DEF Requests
    <2> QED
      BY <1>1, <2>2 DEF TypeOK, Requests
  <1>4. FieldsAsAsked
    <2>1. 0 \div 64 + 1 = 1 /\ 0 % 64 = 0
      OBVIOUS
    <2> QED
      BY <1>1, <2>1 DEF FieldsAsAsked, NewPacket, PathHashSize, PathHashCount
  <1>5. Driver
    BY <1>1, <1>2 DEF Driver, OneConfiguration, StaysUsable, ShortByThePreamble, Strength, Nothing
  <1>6. Reader /\ RoundTrip
    BY <1>1 DEF Reader, NothingCarriedOver, AcceptedIsWhole, RoundTrip
  <1> QED
    BY <1>3, <1>4, <1>5, <1>6 DEF LinkInv

LEMMA LinkInvStep == LinkInv /\ [Next]_vars => LinkInv'
  <1> SUFFICES ASSUME LinkInv, [Next]_vars
               PROVE  LinkInv'
    OBVIOUS
  <1>0. TypeOK /\ FieldsAsAsked /\ Driver /\ Reader /\ RoundTrip
    BY DEF LinkInv
  <1>1. ASSUME UNCHANGED linkVars, Driver'
        PROVE  LinkInv'
    <2>1. TypeOK' /\ FieldsAsAsked'
      BY <1>0, <1>1 DEF linkVars, TypeOK, FieldsAsAsked, PathHashSize, PathHashCount
    <2>2. Reader'
      BY <1>0, <1>1 DEF linkVars, Reader, NothingCarriedOver, AcceptedIsWhole
    <2>3. RoundTrip'
      BY <1>0, <1>1 DEF linkVars, RoundTrip
    <2> QED
      BY <1>1, <2>1, <2>2, <2>3 DEF LinkInv
  <1>2. ASSUME NEW c \in Configs, SetUp(c)
        PROVE  LinkInv'
    BY <1>1, <1>2, SetUpStep
  <1>3. ASSUME Call
        PROVE  LinkInv'
    BY <1>1, <1>3, CallStep
  <1>4. ASSUME NEW f \in Foreign, Hear(f)
        PROVE  LinkInv'
    <2>1. /\ pc = "idle" /\ returned' = "Ok" /\ Read(f)
          /\ UNCHANGED <<driverVars, configured, pc, packet, asked, frame, intact, onAir>>
      BY <1>4 DEF Hear
    <2>2. f \in Seq(Bytes)
      BY RadioLinkAssumption
    <2>3. /\ received' \in Packets /\ accepted' \in BOOLEAN /\ heard' \in Seq(Bytes)
          /\ Reader'
      BY <1>0, <2>1, <2>2, ReadStep
    <2>4. TypeOK' /\ FieldsAsAsked'
      BY <1>0, <2>1, <2>3 DEF TypeOK, FieldsAsAsked, PathHashSize, PathHashCount
    <2>5. Driver'
      BY <1>0, <2>1 DEF Driver, OneConfiguration, StaysUsable, ShortByThePreamble, Strength, driverVars
    <2>6. RoundTrip'
      BY <2>1 DEF RoundTrip
    <2> QED
      BY <2>3, <2>4, <2>5, <2>6 DEF LinkInv
  <1>5. ASSUME Compose
        PROVE  LinkInv'
    <2>1. /\ pc \in {"idle", "composed"} /\ pc' = "composed"
          /\ packet' \in Packets /\ asked' \in Requests /\ FieldsAsAsked'
          /\ UNCHANGED <<driverVars, driverHistory, frame, intact, onAir, received, heard, accepted>>
      BY <1>0, <1>5, ComposeStep
    <2>2. TypeOK'
      BY <1>0, <2>1 DEF TypeOK, Requests
    <2>3. ~intact'
      BY <1>0, <2>1 DEF Driver, Strength
    <2>4. Driver'
      BY <1>0, <2>1, <2>3 DEF Driver, OneConfiguration, StaysUsable, ShortByThePreamble, Strength,
                              driverVars, driverHistory
    <2>5. Reader'
      BY <1>0, <2>1 DEF Reader, NothingCarriedOver, AcceptedIsWhole
    <2>6. RoundTrip'
      BY <2>1 DEF RoundTrip
    <2> QED
      BY <2>1, <2>2, <2>4, <2>5, <2>6 DEF LinkInv
  <1>6. ASSUME Transmit
        PROVE  LinkInv'
    <2>1. /\ pc = "composed" /\ pc' \in {"air", "done", "panicked"}
          /\ pc' = "done" => ~intact'
          /\ UNCHANGED <<driverVars, configured, packet, asked, received, heard, accepted>>
          /\ frame' \in Seq(Bytes) /\ Len(frame') <= MAX_TRANS_UNIT /\ intact' \in BOOLEAN
          /\ intact' => pc' = "air" /\ frame' = WriteTo(packet) /\ ~WriteToPanics(packet)
          /\ StaysUsable' /\ ShortByThePreamble'
      BY <1>6, TransmitStep
    <2>2. TypeOK' /\ FieldsAsAsked'
      BY <1>0, <2>1 DEF TypeOK, FieldsAsAsked, PathHashSize, PathHashCount
    <2>3. Strength'
      BY <1>0, <2>1 DEF Driver, Strength, driverVars
    <2>4. Driver'
      BY <1>0, <2>1, <2>3 DEF Driver, OneConfiguration, driverVars
    <2>5. Reader'
      BY <1>0, <2>1 DEF Reader, NothingCarriedOver, AcceptedIsWhole
    <2>6. RoundTrip'
      BY <2>1 DEF RoundTrip
    <2> QED
      BY <2>2, <2>4, <2>5, <2>6 DEF LinkInv
  <1>7. ASSUME Damage
        PROVE  LinkInv'
    <2>1. /\ frame' \in Seq(Bytes) /\ Len(frame') <= MAX_TRANS_UNIT /\ ~intact' /\ intact' \in BOOLEAN
          /\ pc = "air"
          /\ UNCHANGED <<driverVars, driverHistory, pc, packet, asked, onAir, received, heard, accepted>>
      BY <1>0, <1>7, DamageStep
    <2>2. TypeOK' /\ FieldsAsAsked'
      BY <1>0, <2>1 DEF TypeOK, FieldsAsAsked, PathHashSize, PathHashCount
    <2>3. Driver'
      BY <1>0, <2>1 DEF Driver, OneConfiguration, StaysUsable, ShortByThePreamble, Strength,
                        driverVars, driverHistory
    <2>4. Reader'
      BY <1>0, <2>1 DEF Reader, NothingCarriedOver, AcceptedIsWhole
    <2>5. RoundTrip'
      BY <2>1 DEF RoundTrip
    <2> QED
      BY <2>2, <2>3, <2>4, <2>5 DEF LinkInv
  <1>8. ASSUME Arrive
        PROVE  LinkInv'
    <2>1. /\ pc = "air" /\ pc' = "done" /\ Read(frame)
          /\ UNCHANGED <<driverVars, driverHistory, packet, asked, frame, intact, onAir>>
      BY <1>8 DEF Arrive
    <2>2. frame \in Seq(Bytes)
      BY <1>0 DEF TypeOK
    <2>3. /\ received' \in Packets /\ accepted' \in BOOLEAN /\ heard' \in Seq(Bytes)
          /\ Reader'
      BY <1>0, <2>1, <2>2, ReadStep
    <2>4. TypeOK' /\ FieldsAsAsked'
      BY <1>0, <2>1, <2>3 DEF TypeOK, FieldsAsAsked, PathHashSize, PathHashCount
    <2>5. Driver'
      BY <1>0, <2>1 DEF Driver, OneConfiguration, StaysUsable, ShortByThePreamble, Strength,
                        driverVars, driverHistory
    <2>6. RoundTrip'
      <3> SUFFICES ASSUME intact, Regular(packet)
                   PROVE  accepted' /\ received' = packet
        BY <2>1 DEF RoundTrip, Regular, HasTransportCodes, PathByteLen, PathHashSize, PathHashCount
      <3>1. frame = WriteTo(packet) /\ ~WriteToPanics(packet)
        BY <1>0 DEF Driver, Strength
      <3>2. IsValidPathLen(packet)
        <4>1. PathHashSize(packet) \in 1..3
          BY <1>0 DEF TypeOK, FieldsAsAsked
        <4> QED
          BY <4>1 DEF PathHashSize, IsValidPathLen
      <3>3. /\ packet \in Packets /\ received \in Packets
            /\ received' = ReadFrom(received, frame).packet
            /\ accepted' = ReadFrom(received, frame).ok
        BY <1>0, <2>1 DEF TypeOK, Read
      <3> QED
        BY <3>1, <3>2, <3>3, WrittenThenRead DEF Regular
    <2> QED
      BY <2>3, <2>4, <2>5, <2>6 DEF LinkInv
  <1>9. CASE UNCHANGED vars
    <2>1. UNCHANGED linkVars /\ UNCHANGED <<driverVars, driverHistory>>
      BY <1>9 DEF vars
    <2>2. Driver'
      BY <1>0, <2>1 DEF Driver, OneConfiguration, StaysUsable, ShortByThePreamble, Strength,
                        driverVars, driverHistory, linkVars
    <2> QED
      BY <1>1, <2>1, <2>2
  <1> QED
    BY <1>2, <1>3, <1>4, <1>5, <1>6, <1>7, <1>8, <1>9 DEF Next

LEMMA LinkCorrect == Spec => []LinkInv
  <1> QED
    BY LinkInvInit, LinkInvStep, PTL DEF Spec

\* The radio link is type correct: no packet outgrows its capacity, and no frame the
\* buffer it is written to (packet.rs 34-44, dispatcher.rs 193-220).
THEOREM LinkTypeCorrect == Spec => []TypeOK
  <1>1. LinkInv => TypeOK
    BY DEF LinkInv
  <1> QED
    BY <1>1, LinkCorrect, PTL

\* Header, hash size and hash count are what was set last, in whatever order they are
\* set and whatever the count (packet.rs 86-127).
THEOREM FieldsKept == Spec => []FieldsAsAsked
  <1>1. LinkInv => FieldsAsAsked
    BY DEF LinkInv
  <1> QED
    BY <1>1, LinkCorrect, PTL

\* A regular packet that the air leaves alone is received as it was composed, into
\* whatever packet was read before (packet.rs 143-249).
THEOREM ArrivesAsComposed == Spec => []RoundTrip
  <1>1. LinkInv => RoundTrip
    BY DEF LinkInv
  <1> QED
    BY <1>1, LinkCorrect, PTL

\* A packet that is accepted shows nothing of the frames read before it, though a
\* rejected frame leaves the packet half changed (packet.rs 185).
THEOREM EveryFrameAlone == Spec => []NothingCarriedOver
  <1>1. LinkInv => NothingCarriedOver
    BY DEF LinkInv, Reader
  <1> QED
    BY <1>1, LinkCorrect, PTL

\* A packet that is accepted has its whole path and can be sent again as it came, with
\* the length it is admitted by (packet.rs 131-249, dispatcher.rs 206, 219).
THEOREM AcceptedCanBeSent == Spec => []AcceptedIsWhole
  <1>1. LinkInv => AcceptedIsWhole
    BY DEF LinkInv, Reader
  <1> QED
    BY <1>1, LinkCorrect, PTL

\* The parameters of the radio are never a mixture of two configurations, wherever
\* configure() fails (sx1262.rs 102-131).
THEOREM NeverMixed == Spec => []OneConfiguration
  <1>1. LinkInv => OneConfiguration
    BY DEF LinkInv, Driver
  <1> QED
    BY <1>1, LinkCorrect, PTL

\* Once configured, the driver never again answers InvalidState (sx1262.rs 133-180).
THEOREM NeverInvalid == Spec => []StaysUsable
  <1>1. LinkInv => StaysUsable
    BY DEF LinkInv, Driver
  <1> QED
    BY <1>1, LinkCorrect, PTL

\* The estimate by which the dispatcher admits a packet differs from the airtime of the
\* frame it then sends, at the length, modulation and preamble the frame is sent with, by
\* the preamble symbols beyond eight and by nothing else but rounding (dispatcher.rs
\* 206-220, sx1262.rs 102-125, 182-205).
THEOREM ShortByPreambleOnly == Spec => []ShortByThePreamble
  <1>1. LinkInv => ShortByThePreamble
    BY DEF LinkInv, Driver
  <1> QED
    BY <1>1, LinkCorrect, PTL
=============================================================================
