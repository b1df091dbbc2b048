--------------------------- MODULE ResponderProofs ---------------------------
(* The responder for every capacity of its table and its channels, whatever   *)
(* other nodes send and however long it runs.                                 *)
EXTENDS Responder, SequenceTheorems, TLAPS

OwnTexts ==
    [payload_type : {"GrpTxt"}, path_len : {0}, direct : {FALSE}, payload : OwnPayloads]

Hash(p) == Dedup!PacketHash(p)
AllHashes == {Hash(p) : p \in Frames}
Ages == Dedup!Indices

Known(h) == \E k \in 1..Len(inserted) : inserted[k] = h

\* The task: it holds a packet and a reply where it handles them and nowhere else.
TaskOK ==
    /\ pc \in {"boot", "announce", "send", "listen", "receive", "report", "log", "message"}
    /\ clock \in Nat /\ boot_time \in 0..clock \cup {Unset}
    /\ pkt \in Frames \cup {NoPacket} /\ reply \in OwnTexts \cup {NoPacket}
    /\ pc \in {"log", "message"} => pkt # NoPacket
    /\ pkt # NoPacket => pc \in {"log", "message", "announce", "send"}
    /\ pc \in {"announce", "send"} <=> reply # NoPacket

\* The channels: every frame counted was received, those still on their way included.
ChannelsOK ==
    /\ TX_CHANNEL \in Seq(OwnTexts) /\ Len(TX_CHANNEL) <= TX_Q
    /\ RX_CHANNEL \in Seq(Frames) /\ Len(RX_CHANNEL) <= RX_Q
    /\ offered \in Frames \cup {NoPacket} /\ air \subseteq Frames
    /\ pkt_count \in Nat /\ heard \in Nat
    /\ pkt_count + Len(RX_CHANNEL) + (IF offered = NoPacket THEN 0 ELSE 1) <= heard

\* The table: it holds the last N hashes inserted, and no other.
TableOK ==
    /\ hashes \in [Ages -> AllHashes \cup {ZERO_HASH}] /\ next_idx \in Ages
    /\ inserted \in Seq(AllHashes)
    /\ \A age \in Ages : age < Len(inserted) =>
          hashes[Dedup!Slot(age)] = inserted[Len(inserted) - age]
    /\ \A i \in Ages : hashes[i] = ZERO_HASH \/ Known(hashes[i])

\* What is sent was registered before.
RegisteredOK ==
    /\ \A h \in own : Known(h)
    /\ pc = "send" => Known(Hash(reply))

\* The answers: each to a packet inserted when it came, at most one insertion (of the reply)
\* before it was sent, and the packet at hand was answered long ago or never.
AnswersOK ==
    /\ answers \in Seq([to : AllHashes, age : Nat])
    /\ \A i \in 1..Len(answers) :
          /\ answers[i].age <= Len(inserted)
          /\ \E k \in 1..Len(inserted) : inserted[k] = answers[i].to /\ answers[i].age <= k + 1
    /\ pkt # NoPacket =>
          /\ \E k \in 1..Len(inserted) :
                /\ inserted[k] = Hash(pkt)
                /\ Len(inserted) <= IF pc = "send" THEN k + 1 ELSE k
          /\ \A i \in 1..Len(answers) :
                answers[i].to = Hash(pkt) => answers[i].age + N <= Len(inserted)

\* A command known to the table is the node's own, or answered, or at hand.
CommandsOK ==
    \A c \in Others :
        IsCommand(c) /\ Known(Hash(c)) =>
            \/ Hash(c) \in own
            \/ \E i \in 1..Len(answers) : answers[i].to = Hash(c)
            \/ pkt # NoPacket /\ Hash(pkt) = Hash(c)
            \/ pc = "send" /\ Hash(reply) = Hash(c)

-----------------------------------------------------------------------------
\* An insertion into the table: the newest hash is where next_idx was, the others are one
\* insertion older, and the oldest is overwritten.
LEMMA SlotAfterInsertion ==
    ASSUME next_idx \in Ages, next_idx' = (next_idx + 1) % N
    PROVE  /\ next_idx' \in Ages
           /\ Dedup!Slot(0)' = next_idx
           /\ \A age \in Ages : Dedup!Slot(age) \in Ages
           /\ \A age \in Ages \ {0} :
                 /\ age - 1 \in Ages
                 /\ Dedup!Slot(age)' = Dedup!Slot(age - 1)
                 /\ Dedup!Slot(age - 1) # next_idx
  <1>1. N \in Nat \ {0} /\ Ages = 0..(N - 1) /\ next_idx \in 0..(N - 1)
    BY ResponderAssumption DEF Ages, Dedup!Indices
  <1>2. next_idx' = IF next_idx + 1 = N THEN 0 ELSE next_idx + 1
    <2>1. CASE next_idx + 1 = N
      <3>1. N % N = 0
        BY <1>1
      <3> QED
        BY <2>1, <3>1
    <2>2. CASE next_idx + 1 # N
      <3>1. next_idx + 1 \in 0..(N - 1)
        BY <1>1, <2>2
      <3>2. \A x \in 0..(N - 1) : x % N = x
        BY <1>1
      <3> QED
        BY <2>2, <3>1, <3>2
    <2> QED
      BY <2>1, <2>2
  <1>3. next_idx' \in Ages /\ Dedup!Slot(0)' = next_idx
    BY <1>1, <1>2 DEF Dedup!Slot
  <1>4. \A age \in Ages : Dedup!Slot(age) \in Ages
    BY <1>1 DEF Dedup!Slot
  <1>5. ASSUME NEW age \in Ages \ {0}
        PROVE  /\ age - 1 \in Ages
               /\ Dedup!Slot(age)' = Dedup!Slot(age - 1)
               /\ Dedup!Slot(age - 1) # next_idx
    <2>1. age \in 1..(N - 1)
      BY <1>1
    <2>2. CASE next_idx + 1 = N
      BY <1>1, <1>2, <2>1, <2>2 DEF Dedup!Slot
    <2>3. CASE next_idx + 1 # N
      BY <1>1, <1>2, <2>1, <2>3 DEF Dedup!Slot
    <2> QED
      BY <2>2, <2>3
  <1> QED
    BY <1>3, <1>4, <1>5

\* has_seen() does not find what was inserted unless it is one of the last N insertions.
LEMMA ForgottenAfterN ==
    ASSUME TableOK, NEW p, ~Dedup!Stored(p), NEW k \in 1..Len(inserted), inserted[k] = Hash(p)
    PROVE  k + N <= Len(inserted)
  <1>1. N \in Nat \ {0} /\ Ages = 0..(N - 1) /\ next_idx \in 0..(N - 1) /\ Len(inserted) \in Nat
    BY ResponderAssumption, LenProperties DEF Ages, Dedup!Indices, TableOK
  <1> SUFFICES ASSUME ~(k + N <= Len(inserted)) PROVE FALSE
    OBVIOUS
  <1> DEFINE age == Len(inserted) - k
  <1>2. age \in Ages /\ age < Len(inserted) /\ Len(inserted) - age = k
    BY <1>1
  <1>3. hashes[Dedup!Slot(age)] = Hash(p)
    BY <1>2 DEF TableOK
  <1>4. Dedup!Slot(age) \in Ages
    BY <1>1, <1>2 DEF Dedup!Slot
  <1> QED
    BY <1>3, <1>4 DEF Dedup!Stored, Hash, Ages

\* has_seen() keeps the table the window of the last N insertions.
LEMMA HasSeenKeepsTable ==
    ASSUME TableOK, NEW p \in Frames, HasSeen(p)
    PROVE  /\ TableOK'
           /\ \/ Dedup!Stored(p) /\ answer' = TRUE /\ UNCHANGED inserted
              \/ ~Dedup!Stored(p) /\ answer' = FALSE /\ inserted' = Append(inserted, Hash(p))
  <1>1. Hash(p) \in AllHashes
    BY DEF AllHashes
  <1>2. CASE Dedup!Duplicate(p) /\ UNCHANGED inserted
    <2>1. UNCHANGED <<hashes, next_idx, inserted>>
      BY <1>2 DEF Dedup!Duplicate
    <2>2. TableOK'
      BY <2>1 DEF TableOK, Known, Dedup!Slot
    <2> QED
      BY <1>2, <2>2 DEF Dedup!Duplicate
  <1>3. CASE Dedup!Insert(p) /\ inserted' = Append(inserted, Hash(p))
    <2>1. /\ hashes' = [hashes EXCEPT ![next_idx] = Hash(p)]
          /\ next_idx' = (next_idx + 1) % N
          /\ ~Dedup!Stored(p) /\ answer' = FALSE
      BY <1>3 DEF Dedup!Insert, Hash
    <2>2. /\ hashes \in [Ages -> AllHashes \cup {ZERO_HASH}] /\ next_idx \in Ages
          /\ inserted \in Seq(AllHashes)
      BY DEF TableOK
    <2>3. /\ inserted' \in Seq(AllHashes) /\ Len(inserted) \in Nat
          /\ Len(inserted') = Len(inserted) + 1
          /\ \A k \in 1..Len(inserted) : inserted'[k] = inserted[k]
          /\ inserted'[Len(inserted) + 1] = Hash(p)
      BY <1>1, <1>3, <2>2, AppendProperties, LenProperties
    <2>4. hashes' \in [Ages -> AllHashes \cup {ZERO_HASH}] /\ next_idx' \in Ages
      BY <1>1, <2>1, <2>2, SlotAfterInsertion
    <2>5. ASSUME NEW age \in Ages, age < Len(inserted')
          PROVE  hashes'[Dedup!Slot(age)'] = inserted'[Len(inserted') - age]
      <3>1. CASE age = 0
        <4>1. Dedup!Slot(0)' = next_idx
          BY <2>1, <2>2, SlotAfterInsertion
        <4> QED
          BY <2>1, <2>2, <2>3, <3>1, <4>1
      <3>2. CASE age # 0
        <4>1. /\ Dedup!Slot(age)' = Dedup!Slot(age - 1) /\ Dedup!Slot(age - 1) # next_idx
              /\ Dedup!Slot(age - 1) \in Ages /\ age - 1 \in Ages
          BY <2>1, <2>2, <3>2, SlotAfterInsertion
        <4>2. hashes'[Dedup!Slot(age)'] = hashes[Dedup!Slot(age - 1)]
          BY <2>1, <2>2, <4>1
        <4>3. /\ age \in Nat /\ age - 1 < Len(inserted)
              /\ Len(inserted) - (age - 1) = Len(inserted') - age
              /\ Len(inserted') - age \in 1..Len(inserted)
          BY <2>3, <2>5, <3>2, ResponderAssumption DEF Ages, Dedup!Indices
        <4>4. hashes[Dedup!Slot(age - 1)] = inserted[Len(inserted') - age]
          BY <4>1, <4>3 DEF TableOK
        <4> QED
          BY <2>3, <4>2, <4>3, <4>4
      <3> QED
        BY <3>1, <3>2
    <2>6. ASSUME NEW i \in Ages
          PROVE  \/ hashes'[i] = ZERO_HASH
                 \/ \E k \in 1..Len(inserted') : inserted'[k] = hashes'[i]
      <3>1. CASE i = next_idx
        BY <2>1, <2>2, <2>3, <3>1 DEF Known
      <3>2. CASE i # next_idx
        <4>1. hashes'[i] = hashes[i]
          BY <2>1, <2>2, <3>2
        <4>2. hashes[i] = ZERO_HASH \/ Known(hashes[i])
          BY DEF TableOK
        <4> QED
          BY <2>3, <4>1, <4>2 DEF Known
      <3> QED
        BY <3>1, <3>2
    <2>7. TableOK'
      BY <2>3, <2>4, <2>5, <2>6 DEF TableOK, Known
    <2> QED
      BY <1>3, <2>1, <2>7
  <1> QED
    BY <1>2, <1>3 DEF HasSeen, Hash

-----------------------------------------------------------------------------
\* What the node sends is a frame, and its hash is not that of an unused entry.
LEMMA OwnTextsAreFrames ==
    /\ OwnTexts \subseteq Frames
    /\ \A p \in OwnTexts : Hash(p) # ZERO_HASH
    /\ NoPacket \notin OwnTexts
  <1>1. ASSUME NEW p \in OwnTexts PROVE p \in Frames
    <2> DEFINE Types == {"GrpTxt"} \cup {q.payload_type : q \in Others}
               Payloads == OwnPayloads \cup {q.payload : q \in Others}
    <2>1. "GrpTxt" \in Types /\ OwnPayloads \subseteq Payloads
      OBVIOUS
    <2>2. Frames = [payload_type : Types, path_len : Nat, direct : BOOLEAN, payload : Payloads]
      BY DEF Frames
    <2> HIDE DEF Types, Payloads
    <2>3. /\ p = [payload_type |-> "GrpTxt", path_len |-> 0, direct |-> FALSE,
                  payload |-> p.payload]
          /\ p.payload \in OwnPayloads
      BY DEF OwnTexts
    <2>4. FALSE \in BOOLEAN /\ 0 \in Nat /\ p.payload \in Payloads
      BY <2>1, <2>3
    <2>5. [payload_type |-> "GrpTxt", path_len |-> 0, direct |-> FALSE, payload |-> p.payload]
             \in [payload_type : Types, path_len : Nat, direct : BOOLEAN, payload : Payloads]
      BY <2>1, <2>4, Zenon
    <2> QED
      BY <2>2, <2>3, <2>5, Zenon
  <1>2. ASSUME NEW p \in OwnTexts PROVE Hash(p) # ZERO_HASH
    <2>1. p.payload_type = "GrpTxt" /\ p.payload \in OwnPayloads
      BY DEF OwnTexts
    <2>2. Hash(p) = <<"GrpTxt", p.payload>>
      BY <2>1, ResponderAssumption DEF Hash, Dedup!PacketHash
    <2> QED
      BY <2>1, <2>2, ResponderAssumption
  <1> QED
    BY <1>1, <1>2, ResponderAssumption

\* The hash of a command is the hash of commands only.
LEMMA CommandByHash ==
    ASSUME NEW p \in Frames, NEW c \in Frames, Hash(p) = Hash(c), IsCommand(c)
    PROVE  IsCommand(p)
  <1>1. c.payload_type = "GrpTxt"
    BY DEF IsCommand, Decodes, IsForChannel
  <1>2. Hash(c) = <<"GrpTxt", c.payload>>
    BY <1>1, ResponderAssumption DEF Hash, Dedup!PacketHash
  <1>3. p.payload_type # Trace
    <2> SUFFICES ASSUME p.payload_type = Trace PROVE FALSE
      OBVIOUS
    <2>1. Hash(p) = <<Trace, p.payload, p.path_len>>
      BY DEF Hash, Dedup!PacketHash
    <2>2. Hash(p)[1] = Trace /\ Hash(c)[1] = "GrpTxt"
      BY <1>2, <2>1
    <2> QED
      BY <2>2, ResponderAssumption
  <1>4. Hash(p) = <<p.payload_type, p.payload>>
    BY <1>3 DEF Hash, Dedup!PacketHash
  <1>5. p.payload_type = "GrpTxt" /\ p.payload = c.payload
    BY <1>2, <1>4
  <1> QED
    BY <1>1, <1>5 DEF IsCommand, Decodes, IsForChannel

\* The greeting and every response are texts of the node.
LEMMA RepliesAreOwn ==
    ASSUME TaskOK, ChannelsOK
    PROVE  /\ GroupText(NodeName, "online", <<>>, clock) \in OwnTexts
           /\ \A p \in Frames : IsCommand(p) => Response(p) \in OwnTexts
  <1>1. clock \in Nat /\ clock - boot_time \in Int /\ pkt_count \in Int
    BY DEF TaskOK, ChannelsOK, Unset
  <1>2. ASSUME NEW body \in {"online", "!help", "pong", "up", "path"}, NEW detail \in Seq(Int)
        PROVE  GroupText(NodeName, body, detail, clock) \in OwnTexts
    BY <1>1 DEF GroupText, OwnTexts, OwnPayloads
  <1>3. <<>> \in Seq(Int)
    OBVIOUS
  <1>4. ASSUME NEW p \in Frames, IsCommand(p) PROVE Response(p) \in OwnTexts
    <2>1. p.payload.body \in Commands /\ p.path_len \in Int
      BY <1>4 DEF IsCommand, Frames
    <2>2. <<clock - boot_time, pkt_count>> \in Seq(Int) /\ <<p.path_len>> \in Seq(Int)
      BY <1>1, <2>1
    <2>3. CASE p.payload.body = "!help"
      BY <1>2, <1>3, <2>3 DEF Response
    <2>4. CASE p.payload.body = "!ping"
      BY <1>2, <1>3, <2>4 DEF Response
    <2>5. CASE p.payload.body = "!status"
      BY <1>2, <2>2, <2>5 DEF Response
    <2>6. CASE p.payload.body = "!path"
      BY <1>2, <2>2, <2>6 DEF Response
    <2> QED
      BY <2>1, <2>3, <2>4, <2>5, <2>6 DEF Commands
  <1> QED
    BY <1>2, <1>3, <1>4

-----------------------------------------------------------------------------
ResponderInv ==
    TaskOK /\ ChannelsOK /\ TableOK /\ RegisteredOK /\ AnswersOK /\ CommandsOK

\* What the air, the dispatcher and the clock do to the task: nothing.
Outside == UNCHANGED <<pc, locals, dedupVars, history>>

\* Init, and a reboot, put the task, its table and its channels in the state of a start.
LEMMA StartIsOK ==
    ASSUME Init
    PROVE  ResponderInv
  <1>1. Len(<<>>) = 0
    OBVIOUS
  <1>2. TaskOK
    BY ResponderAssumption, OwnTextsAreFrames DEF Init, TaskOK, Unset
  <1>3. ChannelsOK
    BY <1>1, ResponderAssumption DEF Init, ChannelsOK
  <1>4. hashes = [i \in Ages |-> ZERO_HASH] /\ next_idx = 0 /\ inserted = <<>>
    BY DEF Init, Dedup!Init, Ages
  <1>5. TableOK
    <2>1. 0 \in Ages /\ \A age \in Ages : ~(age < 0)
      BY ResponderAssumption DEF Ages, Dedup!Indices
    <2> QED
      BY <1>1, <1>4, <2>1 DEF TableOK
  <1>6. ~\E k \in 1..Len(inserted) : TRUE
    BY <1>1, <1>4
  <1>7. RegisteredOK /\ CommandsOK
    BY <1>6 DEF Init, RegisteredOK, CommandsOK, Known
  <1>8. AnswersOK
    BY <1>1 DEF Init, AnswersOK
  <1> QED
    BY <1>2, <1>3, <1>5, <1>7, <1>8 DEF ResponderInv

\* As StartIsOK, after a power failure in any state.
LEMMA RebootIsOK ==
    ASSUME ResponderInv, Reboot
    PROVE  ResponderInv'
  <1>1. Len(<<>>) = 0
    OBVIOUS
  <1>2. TaskOK'
    BY ResponderAssumption, OwnTextsAreFrames DEF Reboot, TaskOK, Unset
  <1>3. ChannelsOK'
    BY <1>1, ResponderAssumption DEF Reboot, ChannelsOK, ResponderInv
  <1>4. hashes' = [i \in Ages |-> ZERO_HASH] /\ next_idx' = 0 /\ inserted' = <<>>
    BY DEF Reboot, Ages
  <1>5. TableOK'
    <2>1. 0 \in Ages /\ \A age \in Ages : ~(age < 0)
      BY ResponderAssumption DEF Ages, Dedup!Indices
    <2> QED
      BY <1>1, <1>4, <2>1 DEF TableOK
  <1>6. ~\E k \in 1..Len(inserted') : TRUE
    BY <1>1, <1>4
  <1>7. RegisteredOK' /\ CommandsOK'
    BY <1>6 DEF Reboot, RegisteredOK, CommandsOK, Known
  <1>8. AnswersOK'
    BY <1>1 DEF Reboot, AnswersOK
  <1> QED
    BY <1>2, <1>3, <1>5, <1>7, <1>8 DEF ResponderInv

\* A step outside the task disturbs the channels and the clock only.
LEMMA OutsideKeeps ==
    ASSUME ResponderInv, Outside, TaskOK', ChannelsOK'
    PROVE  ResponderInv'
  <1>1. UNCHANGED <<pc, pkt, reply, hashes, next_idx, own, inserted, answers>>
    BY DEF Outside, locals, dedupVars, history
  <1>2. TableOK'
    BY <1>1 DEF ResponderInv, TableOK, Known, Dedup!Slot
  <1>3. RegisteredOK' /\ CommandsOK'
    BY <1>1 DEF ResponderInv, RegisteredOK, CommandsOK, Known
  <1>4. AnswersOK'
    BY <1>1 DEF ResponderInv, AnswersOK
  <1> QED
    BY <1>2, <1>3, <1>4 DEF ResponderInv

\* The steps of the radio, of the air and of the clock.
LEMMA WorldKeeps ==
    ASSUME ResponderInv,
           Radio \/ (\E p \in air, hops \in Hops : Hear(p, hops)) \/ Tick \/ UNCHANGED vars
    PROVE  ResponderInv'
  <1>1. TaskOK /\ ChannelsOK
    BY DEF ResponderInv
  <1>2. CASE Transmit \/ Lose
    <2>1. /\ TX_CHANNEL # <<>> /\ TX_CHANNEL' = Tail(TX_CHANNEL)
          /\ air' = air \/ air' = air \cup {Head(TX_CHANNEL)}
          /\ UNCHANGED <<clock, RX_CHANNEL, offered, heard>> /\ Outside
      BY <1>2 DEF Transmit, Lose, Outside
    <2>2. /\ Tail(TX_CHANNEL) \in Seq(OwnTexts) /\ Len(Tail(TX_CHANNEL)) = Len(TX_CHANNEL) - 1
          /\ Head(TX_CHANNEL) \in OwnTexts /\ Len(TX_CHANNEL) \in Nat
      BY <1>1, <2>1, HeadTailProperties, LenProperties DEF ChannelsOK
    <2>3. ChannelsOK'
      BY <1>1, <2>1, <2>2, ResponderAssumption, OwnTextsAreFrames
      DEF ChannelsOK, Outside, locals
    <2>4. TaskOK'
      BY <1>1, <2>1 DEF TaskOK, Outside, locals
    <2> QED
      BY <2>1, <2>3, <2>4, OutsideKeeps
  <1>3. CASE Deliver
    <2>1. /\ offered # NoPacket /\ offered' = NoPacket
          /\ RX_CHANNEL' = IF Len(RX_CHANNEL) < RX_Q THEN Append(RX_CHANNEL, offered)
                           ELSE RX_CHANNEL
          /\ UNCHANGED <<clock, TX_CHANNEL, air, heard>> /\ Outside
      BY <1>3 DEF Deliver, Outside
    <2>2. offered \in Frames /\ RX_CHANNEL \in Seq(Frames) /\ Len(RX_CHANNEL) \in Nat
      BY <1>1, <2>1, LenProperties DEF ChannelsOK
    <2>3. /\ Append(RX_CHANNEL, offered) \in Seq(Frames)
          /\ Len(Append(RX_CHANNEL, offered)) = Len(RX_CHANNEL) + 1
      BY <2>2, AppendProperties
    <2>4. /\ RX_CHANNEL' \in Seq(Frames) /\ Len(RX_CHANNEL') <= RX_Q
          /\ Len(RX_CHANNEL') \in Nat /\ Len(RX_CHANNEL') <= Len(RX_CHANNEL) + 1
      BY <1>1, <2>1, <2>2, <2>3, ResponderAssumption DEF ChannelsOK
    <2>5. ChannelsOK'
      BY <1>1, <2>1, <2>2, <2>4 DEF ChannelsOK, Outside, locals
    <2>6. TaskOK'
      BY <1>1, <2>1 DEF TaskOK, Outside, locals
    <2> QED
      BY <2>1, <2>5, <2>6, OutsideKeeps
  <1>4. ASSUME NEW p \in air, NEW hops \in Hops, Hear(p, hops)
        PROVE  ResponderInv'
    <2>1. /\ offered = NoPacket /\ offered' = [p EXCEPT !.path_len = hops]
          /\ heard' = heard + 1
          /\ UNCHANGED <<clock, TX_CHANNEL, RX_CHANNEL, air>> /\ Outside
      BY <1>4 DEF Hear, Outside
    <2>2. p \in Frames /\ hops \in Nat
      BY <1>1, ResponderAssumption DEF ChannelsOK
    <2>3. offered' \in Frames
      BY <2>1, <2>2 DEF Frames
    <2>4. Len(RX_CHANNEL) \in Nat
      BY <1>1, LenProperties DEF ChannelsOK
    <2>5. ChannelsOK'
      BY <1>1, <2>1, <2>3, <2>4, ResponderAssumption DEF ChannelsOK, Outside, locals
    <2>6. TaskOK'
      BY <1>1, <2>1 DEF TaskOK, Outside, locals
    <2> QED
      BY <2>1, <2>5, <2>6, OutsideKeeps
  <1>5. CASE Tick
    <2>1. clock' = clock + 1 /\ UNCHANGED <<channels, air, heard>> /\ Outside
      BY <1>5 DEF Tick, Outside
    <2>2. ChannelsOK' /\ TaskOK'
      BY <1>1, <2>1 DEF ChannelsOK, TaskOK, Outside, locals, channels, Unset
    <2> QED
      BY <2>1, <2>2, OutsideKeeps
  <1>6. CASE UNCHANGED vars
    <2>1. UNCHANGED <<clock, channels, air, heard>> /\ Outside
      BY <1>6 DEF vars, Outside
    <2>2. ChannelsOK' /\ TaskOK'
      BY <1>1, <2>1 DEF ChannelsOK, TaskOK, Outside, locals, channels
    <2> QED
      BY <2>1, <2>2, OutsideKeeps
  <1> QED
    BY <1>2, <1>3, <1>4, <1>5, <1>6 DEF Radio

\* An insertion keeps what is known and adds one hash; a duplicate changes nothing.
LEMMA KnownAfterHasSeen ==
    ASSUME TableOK, NEW p \in Frames, p \in OwnTexts \/ ~Dedup!Stored(p), HasSeen(p)
    PROVE  /\ inserted' \in Seq(AllHashes) /\ Len(inserted) \in Nat
           /\ Len(inserted') \in Nat
           /\ Len(inserted) <= Len(inserted') /\ Len(inserted') <= Len(inserted) + 1
           /\ \A k \in 1..Len(inserted) : inserted'[k] = inserted[k]
           /\ \E k \in 1..Len(inserted') : inserted'[k] = Hash(p)
           /\ \A h : (\E k \in 1..Len(inserted') : inserted'[k] = h) => Known(h) \/ h = Hash(p)
  <1>1. inserted \in Seq(AllHashes) /\ Len(inserted) \in Nat
    BY LenProperties DEF TableOK
  <1>2. Hash(p) \in AllHashes
    BY DEF AllHashes
  <1>3. CASE Dedup!Stored(p) /\ UNCHANGED inserted
    <2>1. Hash(p) # ZERO_HASH
      BY <1>3, OwnTextsAreFrames
    <2>2. \E i \in Ages : hashes[i] = Hash(p)
      BY <1>3 DEF Dedup!Stored, Hash, Ages
    <2>3. Known(Hash(p))
      BY <2>1, <2>2 DEF TableOK
    <2> QED
      BY <1>1, <1>3, <2>3 DEF Known
  <1>4. CASE inserted' = Append(inserted, Hash(p))
    <2>1. /\ inserted' \in Seq(AllHashes) /\ Len(inserted') = Len(inserted) + 1
          /\ \A k \in 1..Len(inserted) : inserted'[k] = inserted[k]
          /\ inserted'[Len(inserted) + 1] = Hash(p)
      BY <1>1, <1>2, <1>4, AppendProperties
    <2>2. ASSUME NEW h, NEW k \in 1..Len(inserted'), inserted'[k] = h
          PROVE  Known(h) \/ h = Hash(p)
      BY <1>1, <2>1, <2>2 DEF Known
    <2> QED
      BY <1>1, <2>1, <2>2
  <1> QED
    BY <1>3, <1>4, HasSeenKeepsTable

\* The steps that only move the task on, from one await to the next.
LEMMA MovesKeep ==
    ASSUME ResponderInv, Greet \/ Listen \/ Reported
    PROVE  ResponderInv'
  <1>1. /\ TaskOK /\ ChannelsOK /\ TableOK /\ RegisteredOK /\ AnswersOK /\ CommandsOK
        /\ UNCHANGED <<clock, pkt, pkt_count, channels, air, heard, dedupVars, history>>
        /\ pc # "send" /\ pc' # "send"
    BY DEF ResponderInv, Greet, Listen, Reported, locals
  <1>2. TaskOK'
    <2>1. CASE Greet
      BY <1>1, <2>1, RepliesAreOwn, OwnTextsAreFrames DEF Greet, TaskOK
    <2>2. CASE Listen
      BY <1>1, <2>2 DEF Listen, TaskOK
    <2>3. CASE Reported
      BY <1>1, <2>3 DEF Reported, TaskOK, locals
    <2> QED
      BY <2>1, <2>2, <2>3
  <1>3. ChannelsOK' /\ TableOK' /\ RegisteredOK' /\ AnswersOK' /\ CommandsOK'
    BY <1>1 DEF ChannelsOK, TableOK, RegisteredOK, AnswersOK, CommandsOK, Known, Dedup!Slot,
                channels, dedupVars, history
  <1> QED
    BY <1>2, <1>3 DEF ResponderInv

\* The steps that handle a packet: it is dropped only if it is no command.
LEMMA HandlingKeeps ==
    ASSUME ResponderInv, Decode \/ Answer
    PROVE  ResponderInv'
  <1>1. /\ TaskOK /\ ChannelsOK /\ TableOK /\ RegisteredOK /\ AnswersOK /\ CommandsOK
        /\ UNCHANGED <<clock, boot_time, pkt_count, channels, air, heard, dedupVars, history>>
        /\ pc \in {"log", "message"} /\ pc' # "send"
        /\ pkt' = pkt \/ pkt' = NoPacket
    BY DEF ResponderInv, Decode, Answer
  <1>2. pkt \in Frames /\ pkt # NoPacket
    BY <1>1 DEF TaskOK
  <1>3. TaskOK'
    <2>1. CASE Decode
      BY <1>1, <1>2, <2>1 DEF Decode, TaskOK
    <2>2. CASE Answer /\ IsCommand(pkt)
      BY <1>1, <1>2, <2>2, RepliesAreOwn, OwnTextsAreFrames DEF Answer, TaskOK
    <2>3. CASE Answer /\ ~IsCommand(pkt)
      BY <1>1, <1>2, <2>3 DEF Answer, TaskOK
    <2> QED
      BY <2>1, <2>2, <2>3
  <1>4. ChannelsOK' /\ TableOK' /\ RegisteredOK'
    BY <1>1 DEF ChannelsOK, TableOK, RegisteredOK, Known, Dedup!Slot, channels, dedupVars,
                history
  <1>5. AnswersOK'
    BY <1>1 DEF AnswersOK, history
  <1>6. pkt' = NoPacket => ~IsCommand(pkt)
    BY <1>2 DEF Decode, Answer, IsCommand
  <1>7. CommandsOK'
    <2> SUFFICES ASSUME NEW c \in Others, IsCommand(c), Known(Hash(c))'
                 PROVE  \/ Hash(c) \in own
                        \/ \E i \in 1..Len(answers) : answers[i].to = Hash(c)
                        \/ pkt' # NoPacket /\ Hash(pkt') = Hash(c)
      BY <1>1 DEF CommandsOK, Known, history
    <2>1. Known(Hash(c))
      BY <1>1 DEF Known, history
    <2>2. c \in Frames
      BY ResponderAssumption
    <2>3. CASE Hash(pkt) = Hash(c)
      BY <1>1, <1>2, <1>6, <2>2, <2>3, CommandByHash
    <2> QED
      BY <1>1, <2>1, <2>3 DEF CommandsOK
  <1> QED
    BY <1>3, <1>4, <1>5, <1>7 DEF ResponderInv

\* The ages of the answers are numbers.
LEMMA AgesOfAnswers ==
    ASSUME AnswersOK
    PROVE  Len(answers) \in Nat /\ \A i \in 1..Len(answers) : answers[i].age \in Nat
  <1> DEFINE Entries == [to : AllHashes, age : Nat]
  <1>1. answers \in Seq(Entries)
    BY DEF AnswersOK
  <1>2. \A e \in Entries : e.age \in Nat
    OBVIOUS
  <1> HIDE DEF Entries
  <1>3. Len(answers) \in Nat
    BY <1>1, LenProperties
  <1>4. ASSUME NEW i \in 1..Len(answers) PROVE answers[i] \in Entries
    BY <1>1, ElementOfSeq
  <1> QED
    BY <1>2, <1>3, <1>4

\* The reply is registered before it is sent, also if the table knows it already.
LEMMA RegisterKeeps ==
    ASSUME ResponderInv, Register
    PROVE  ResponderInv'
  <1>1. /\ TaskOK /\ ChannelsOK /\ TableOK /\ RegisteredOK /\ AnswersOK /\ CommandsOK
        /\ pc = "announce" /\ pc' = "send" /\ HasSeen(reply)
        /\ UNCHANGED <<clock, locals, channels, air, own, answers, heard>>
        /\ UNCHANGED <<pkt, reply>>
    BY DEF ResponderInv, Register, locals
  <1>2. reply \in OwnTexts /\ reply \in Frames
    BY <1>1, OwnTextsAreFrames DEF TaskOK
  <1>3. TableOK'
    BY <1>1, <1>2, HasSeenKeepsTable
  <1>4. /\ Len(inserted) \in Nat /\ Len(inserted') \in Nat
        /\ Len(inserted) <= Len(inserted') /\ Len(inserted') <= Len(inserted) + 1
        /\ \A k \in 1..Len(inserted) : inserted'[k] = inserted[k]
        /\ \E k \in 1..Len(inserted') : inserted'[k] = Hash(reply)
        /\ \A h : (\E k \in 1..Len(inserted') : inserted'[k] = h) => Known(h) \/ h = Hash(reply)
    BY <1>1, <1>2, KnownAfterHasSeen
  <1>5. TaskOK'
    BY <1>1 DEF TaskOK, locals
  <1>6. ChannelsOK'
    BY <1>1 DEF ChannelsOK, channels, locals
  <1>7. \A h : Known(h) => \E k \in 1..Len(inserted') : inserted'[k] = h
    BY <1>4 DEF Known
  <1>8. RegisteredOK'
    BY <1>1, <1>4, <1>7 DEF RegisteredOK, Known
  <1>9. AnswersOK'
    <2>1. answers \in Seq([to : AllHashes, age : Nat]) /\ Len(answers) \in Nat
      BY <1>1, LenProperties DEF AnswersOK
    <2>2. \A i \in 1..Len(answers) : answers[i].age \in Nat
      BY <1>1, AgesOfAnswers
    <2>3. ASSUME NEW i \in 1..Len(answers)
          PROVE  /\ answers[i].age <= Len(inserted')
                 /\ \E k \in 1..Len(inserted') :
                       inserted'[k] = answers[i].to /\ answers[i].age <= k + 1
      <3>1. /\ answers[i].age <= Len(inserted)
            /\ \E k \in 1..Len(inserted) :
                  inserted[k] = answers[i].to /\ answers[i].age <= k + 1
        BY <1>1 DEF AnswersOK
      <3> QED
        BY <1>4, <2>2, <3>1
    <2>4. ASSUME pkt # NoPacket
          PROVE  /\ \E k \in 1..Len(inserted') :
                       inserted'[k] = Hash(pkt) /\ Len(inserted') <= k + 1
                 /\ \A i \in 1..Len(answers) :
                       answers[i].to = Hash(pkt) => answers[i].age + N <= Len(inserted')
      <3>1. /\ \E k \in 1..Len(inserted) : inserted[k] = Hash(pkt) /\ Len(inserted) <= k
            /\ \A i \in 1..Len(answers) :
                  answers[i].to = Hash(pkt) => answers[i].age + N <= Len(inserted)
        BY <1>1, <2>4 DEF AnswersOK
      <3>2. \E k \in 1..Len(inserted') : inserted'[k] = Hash(pkt) /\ Len(inserted') <= k + 1
        <4>1. PICK k \in 1..Len(inserted) : inserted[k] = Hash(pkt) /\ Len(inserted) <= k
          BY <3>1
        <4>2. /\ k \in 1..Len(inserted') /\ inserted'[k] = Hash(pkt)
              /\ Len(inserted') <= k + 1
          BY <1>4, <4>1
        <4> QED
          BY <4>2
      <3>3. ASSUME NEW i \in 1..Len(answers), answers[i].to = Hash(pkt)
            PROVE  answers[i].age + N <= Len(inserted')
        <4>1. answers[i].age + N <= Len(inserted)
          BY <3>1, <3>3
        <4>2. answers[i].age \in Nat /\ N \in Nat
          BY <2>2, ResponderAssumption
        <4> QED
          BY <1>4, <4>1, <4>2
      <3> QED
        BY <3>2, <3>3
    <2> QED
      BY <1>1, <2>1, <2>3, <2>4 DEF AnswersOK
  <1>10. CommandsOK'
    BY <1>1, <1>4 DEF CommandsOK, Known
  <1> QED
    BY <1>3, <1>5, <1>6, <1>8, <1>9, <1>10 DEF ResponderInv

\* The reply goes to the dispatcher; the packet at hand, if there is one, is answered.
LEMMA SendKeeps ==
    ASSUME ResponderInv, Send
    PROVE  /\ ResponderInv'
           /\ AnsweredOnce => AnsweredOnce'
  <1>1. /\ TaskOK /\ ChannelsOK /\ TableOK /\ RegisteredOK /\ AnswersOK /\ CommandsOK
        /\ pc = "send" /\ pc' \in {"listen", "receive"} /\ pkt' = NoPacket /\ reply' = NoPacket
        /\ Len(TX_CHANNEL) < TX_Q /\ TX_CHANNEL' = Append(TX_CHANNEL, reply)
        /\ own' = own \cup {Hash(reply)}
        /\ answers' = IF pkt = NoPacket THEN answers
                      ELSE Append(answers, [to |-> Hash(pkt), age |-> Len(inserted)])
        /\ UNCHANGED <<clock, boot_time, pkt_count, RX_CHANNEL, offered, air, heard, hashes,
                       next_idx, inserted>>
    BY DEF ResponderInv, Send, Hash, dedupVars
  <1>2. reply \in OwnTexts /\ Len(inserted) \in Nat
    BY <1>1, LenProperties DEF TaskOK, TableOK
  <1>3. TaskOK'
    BY <1>1, OwnTextsAreFrames DEF TaskOK
  <1>4. ChannelsOK'
    <2>1. /\ TX_CHANNEL' \in Seq(OwnTexts) /\ Len(TX_CHANNEL') = Len(TX_CHANNEL) + 1
          /\ Len(TX_CHANNEL) \in Nat
      BY <1>1, <1>2, AppendProperties, LenProperties DEF ChannelsOK
    <2>2. Len(TX_CHANNEL') <= TX_Q
      BY <1>1, <2>1, ResponderAssumption
    <2> QED
      BY <1>1, <2>1, <2>2 DEF ChannelsOK
  <1>5. TableOK'
    BY <1>1 DEF TableOK, Known, Dedup!Slot
  <1>6. RegisteredOK'
    BY <1>1 DEF RegisteredOK, Known
  <1>7. answers \in Seq([to : AllHashes, age : Nat]) /\ Len(answers) \in Nat
    BY <1>1, LenProperties DEF AnswersOK
  <1>8. CASE pkt = NoPacket
    <2>1. answers' = answers
      BY <1>1, <1>8
    <2>2. AnswersOK' /\ CommandsOK' /\ (AnsweredOnce => AnsweredOnce')
      BY <1>1, <1>8, <2>1 DEF AnswersOK, CommandsOK, Known, AnsweredOnce
    <2> QED
      BY <1>3, <1>4, <1>5, <1>6, <2>2 DEF ResponderInv
  <1>9. CASE pkt # NoPacket
    <2> DEFINE new == [to |-> Hash(pkt), age |-> Len(inserted)]
    <2>1. pkt \in Frames /\ Hash(pkt) \in AllHashes
      BY <1>1, <1>9 DEF TaskOK, AllHashes
    <2>2. new \in [to : AllHashes, age : Nat] /\ new.to = Hash(pkt) /\ new.age = Len(inserted)
      BY <1>2, <2>1
    <2> HIDE DEF new
    <2>3. /\ answers' \in Seq([to : AllHashes, age : Nat]) /\ Len(answers') = Len(answers) + 1
          /\ \A i \in 1..Len(answers) : answers'[i] = answers[i]
          /\ answers'[Len(answers) + 1] = new
      BY <1>1, <1>7, <1>9, <2>2, AppendProperties DEF new
    <2>4. /\ \E k \in 1..Len(inserted) : inserted[k] = Hash(pkt) /\ Len(inserted) <= k + 1
          /\ \A i \in 1..Len(answers) :
                answers[i].to = Hash(pkt) => answers[i].age + N <= Len(inserted)
      BY <1>1, <1>9 DEF AnswersOK
    <2>5. ASSUME NEW i \in 1..Len(answers')
          PROVE  /\ answers'[i].age <= Len(inserted)
                 /\ \E k \in 1..Len(inserted) :
                       inserted[k] = answers'[i].to /\ answers'[i].age <= k + 1
      <3>1. CASE i \in 1..Len(answers)
        BY <1>1, <2>3, <3>1 DEF AnswersOK
      <3>2. CASE i = Len(answers) + 1
        BY <1>2, <2>2, <2>3, <2>4, <3>2
      <3> QED
        BY <1>7, <2>3, <3>1, <3>2
    <2>6. AnswersOK'
      BY <1>1, <2>3, <2>5 DEF AnswersOK
    <2>7. \A h : (\E i \in 1..Len(answers) : answers[i].to = h) \/ h = Hash(pkt) =>
                    \E i \in 1..Len(answers') : answers'[i].to = h
      BY <1>7, <2>2, <2>3
    <2>8. CommandsOK'
      BY <1>1, <2>7 DEF CommandsOK, Known
    <2>9. ASSUME AnsweredOnce, NEW i \in 1..Len(answers'), NEW j \in 1..Len(answers'),
                 i < j, answers'[i].to = answers'[j].to
          PROVE  answers'[j].age - answers'[i].age >= N
      <3>1. CASE j \in 1..Len(answers)
        <4>1. i \in 1..Len(answers)
          BY <1>7, <2>9, <3>1
        <4> QED
          BY <2>3, <2>9, <3>1, <4>1 DEF AnsweredOnce
      <3>2. CASE j = Len(answers) + 1
        <4>1. i \in 1..Len(answers)
          BY <1>7, <2>3, <2>9, <3>2
        <4>2. answers[i].age \in Nat /\ N \in Nat
          BY <1>1, <4>1, AgesOfAnswers, ResponderAssumption
        <4>3. answers[i].age + N <= Len(inserted)
          BY <2>2, <2>3, <2>4, <2>9, <3>2, <4>1
        <4> QED
          BY <1>2, <2>2, <2>3, <3>2, <4>1, <4>2, <4>3
      <3> QED
        BY <1>7, <2>3, <3>1, <3>2
    <2> QED
      BY <1>3, <1>4, <1>5, <1>6, <2>6, <2>8, <2>9 DEF ResponderInv, AnsweredOnce
  <1> QED
    BY <1>8, <1>9

\* A packet is taken for a new one only if the table has forgotten it: then N others were
\* inserted since it was registered, or since it was answered.
LEMMA ReceiveKeeps ==
    ASSUME ResponderInv, Receive
    PROVE  ResponderInv' /\ EchoIgnored'
  <1> DEFINE p == Head(RX_CHANNEL)
  <1>1. /\ TaskOK /\ ChannelsOK /\ TableOK /\ RegisteredOK /\ AnswersOK /\ CommandsOK
        /\ pc = "receive" /\ RX_CHANNEL # <<>> /\ RX_CHANNEL' = Tail(RX_CHANNEL)
        /\ pkt_count' = pkt_count + 1
        /\ HasSeen(p)
        /\ IF answer' THEN pc' = "report" /\ UNCHANGED pkt ELSE pc' = "log" /\ pkt' = p
        /\ UNCHANGED <<clock, boot_time, reply, TX_CHANNEL, offered, air, own, answers, heard>>
    BY DEF ResponderInv, Receive
  <1>2. /\ p \in Frames /\ Tail(RX_CHANNEL) \in Seq(Frames)
        /\ Len(RX_CHANNEL) \in Nat /\ Len(Tail(RX_CHANNEL)) = Len(RX_CHANNEL) - 1
    BY <1>1, HeadTailProperties, LenProperties DEF ChannelsOK
  <1> HIDE DEF p
  <1>3. pkt = NoPacket /\ p # NoPacket
    BY <1>1, <1>2, ResponderAssumption DEF TaskOK
  <1>4. ChannelsOK'
    <2>1. /\ pkt_count \in Nat
          /\ pkt_count + Len(RX_CHANNEL) + (IF offered = NoPacket THEN 0 ELSE 1) <= heard
          /\ Len(RX_CHANNEL) <= RX_Q /\ heard \in Nat
      BY <1>1 DEF ChannelsOK
    <2>2. /\ pkt_count' \in Nat /\ Len(RX_CHANNEL') = Len(RX_CHANNEL) - 1
          /\ pkt_count' + Len(RX_CHANNEL') = pkt_count + Len(RX_CHANNEL)
      BY <1>1, <1>2, <2>1
    <2>3. pkt_count' + Len(RX_CHANNEL') + (IF offered' = NoPacket THEN 0 ELSE 1) <= heard'
      BY <1>1, <2>1, <2>2
    <2>4. Len(RX_CHANNEL') <= RX_Q
      BY <1>2, <2>1, <2>2, ResponderAssumption
    <2> QED
      BY <1>1, <1>2, <2>2, <2>3, <2>4 DEF ChannelsOK
  <1>5. TaskOK'
    BY <1>1, <1>2, <1>3 DEF TaskOK
  <1>6. TableOK'
    BY <1>1, <1>2, HasSeenKeepsTable
  <1>7. CASE Dedup!Stored(p)
    <2>1. UNCHANGED inserted /\ pc' = "report" /\ pkt' = NoPacket
      BY <1>1, <1>2, <1>3, <1>7, HasSeenKeepsTable
    <2>2. RegisteredOK' /\ CommandsOK'
      BY <1>1, <1>3, <2>1 DEF RegisteredOK, CommandsOK, Known
    <2>3. AnswersOK'
      BY <1>1, <2>1 DEF AnswersOK
    <2>4. EchoIgnored'
      BY <2>1 DEF EchoIgnored
    <2> QED
      BY <1>4, <1>5, <1>6, <2>2, <2>3, <2>4 DEF ResponderInv
  <1>8. CASE ~Dedup!Stored(p)
    <2>1. inserted' = Append(inserted, Hash(p)) /\ pc' = "log" /\ pkt' = p
      BY <1>1, <1>2, <1>8, HasSeenKeepsTable
    <2>2. /\ Hash(p) \in AllHashes /\ inserted \in Seq(AllHashes)
      BY <1>1, <1>2 DEF AllHashes, TableOK
    <2>3. /\ Len(inserted) \in Nat /\ Len(inserted') = Len(inserted) + 1
          /\ \A k \in 1..Len(inserted) : inserted'[k] = inserted[k]
          /\ inserted'[Len(inserted) + 1] = Hash(p)
      BY <2>1, <2>2, AppendProperties, LenProperties
    <2>4. \A h : Known(h) => \E k \in 1..Len(inserted') : inserted'[k] = h
      BY <2>3 DEF Known
    <2>5. \A h : (\E k \in 1..Len(inserted') : inserted'[k] = h) => Known(h) \/ h = Hash(p)
      BY <2>3 DEF Known
    <2>6. N \in Nat
      BY ResponderAssumption
    <2>7. \A k \in 1..Len(inserted) : inserted[k] = Hash(p) => k + N <= Len(inserted)
      BY <1>1, <1>8, ForgottenAfterN
    <2>8. RegisteredOK'
      BY <1>1, <2>1, <2>4 DEF RegisteredOK, Known
    <2>9. CommandsOK'
      BY <1>1, <1>3, <2>1, <2>5 DEF CommandsOK, Known
    <2>10. AnswersOK'
      <3>1. Len(answers) \in Nat /\ \A i \in 1..Len(answers) : answers[i].age \in Nat
        BY <1>1, AgesOfAnswers
      <3>2. ASSUME NEW i \in 1..Len(answers)
            PROVE  /\ answers[i].age <= Len(inserted')
                   /\ \E k \in 1..Len(inserted') :
                         inserted'[k] = answers[i].to /\ answers[i].age <= k + 1
                   /\ answers[i].to = Hash(p) => answers[i].age + N <= Len(inserted')
        <4>1. answers[i].age <= Len(inserted)
          BY <1>1 DEF AnswersOK
        <4>2. PICK k \in 1..Len(inserted) :
                      inserted[k] = answers[i].to /\ answers[i].age <= k + 1
          BY <1>1 DEF AnswersOK
        <4>3. k \in 1..Len(inserted') /\ inserted'[k] = answers[i].to
          BY <2>3, <4>2
        <4>4. answers[i].to = Hash(p) => k + N <= Len(inserted)
          BY <2>7, <4>2
        <4>5. answers[i].age \in Nat
          BY <3>1
        <4> QED
          BY <2>3, <2>6, <4>1, <4>2, <4>3, <4>4, <4>5
      <3>3. \E k \in 1..Len(inserted') : inserted'[k] = Hash(p) /\ Len(inserted') <= k
        BY <2>3
      <3> QED
        BY <1>1, <2>1, <3>2, <3>3 DEF AnswersOK
    <2>11. EchoIgnored'
      <3> SUFFICES ASSUME Hash(p) \in own
                   PROVE  \E i \in 1..(Len(inserted') - N) : inserted'[i] = Hash(p)
        BY <1>1, <2>1 DEF EchoIgnored, Hash
      <3>1. PICK k \in 1..Len(inserted) : inserted[k] = Hash(p)
        BY <1>1 DEF RegisteredOK, Known
      <3>2. k \in 1..(Len(inserted') - N) /\ inserted'[k] = Hash(p)
        BY <2>3, <2>6, <2>7, <3>1
      <3> QED
        BY <3>2
    <2> QED
      BY <1>4, <1>5, <1>6, <2>8, <2>9, <2>10, <2>11 DEF ResponderInv
  <1> QED
    BY <1>7, <1>8

\* Every step keeps the invariant.
LEMMA InvariantIsKept ==
    ASSUME ResponderInv, [Next]_vars
    PROVE  ResponderInv'
  BY MovesKeep, HandlingKeeps, RegisterKeeps, SendKeeps, ReceiveKeeps, WorldKeeps, RebootIsOK
  DEF Next, UserTask

\* The invariant holds in every behaviour.
LEMMA ResponderIsOK == Spec => []ResponderInv
  <1>1. Init => ResponderInv
    BY StartIsOK
  <1>2. ResponderInv /\ [Next]_vars => ResponderInv'
    BY InvariantIsKept
  <1> QED
    BY <1>1, <1>2, PTL DEF Spec

\* The channels keep their capacities, the start was not in the future, every packet counted
\* was received (main.rs 300), and a reply exists exactly while it is announced and sent.
THEOREM TypeCorrect == Spec => []TypeOK
  <1>1. ResponderInv => TypeOK
    <2> SUFFICES ASSUME TaskOK, ChannelsOK PROVE TypeOK
      BY DEF ResponderInv
    <2>1. Len(RX_CHANNEL) \in Nat
      BY LenProperties DEF ChannelsOK
    <2>2. pkt_count <= heard
      BY <2>1 DEF ChannelsOK
    <2>3. (pc \in {"announce", "send"}) = (reply # NoPacket)
      BY DEF TaskOK
    <2> QED
      BY <2>2, <2>3 DEF TypeOK, TaskOK, ChannelsOK
  <1> QED
    BY <1>1, ResponderIsOK, PTL

\* The node never takes an echo of its own packet for a new packet before N others were
\* inserted after it (main.rs 279, 430), for every N, whatever other nodes send.
THEOREM EchoesAreIgnored == Spec => []EchoIgnored
  <1>1. Init => EchoIgnored
    BY DEF Init, EchoIgnored
  <1>2. ResponderInv /\ EchoIgnored /\ [Next]_vars => EchoIgnored'
    <2> SUFFICES ASSUME ResponderInv, EchoIgnored, [Next]_vars PROVE EchoIgnored'
      OBVIOUS
    <2>1. CASE Receive
      BY <2>1, ReceiveKeeps
    <2>2. CASE Decode \/ Answer
      <3>1. pkt' = pkt \/ pc' \notin {"log", "message"}
        BY <2>2 DEF Decode, Answer
      <3>2. pc \in {"log", "message"} /\ UNCHANGED <<own, inserted>>
        BY <2>2 DEF Decode, Answer, history
      <3> QED
        BY <3>1, <3>2 DEF EchoIgnored
    <2>3. CASE Greet \/ Register \/ Send \/ Listen \/ Reported \/ Reboot
      <3>1. pc' \notin {"log", "message"}
        BY <2>3 DEF Greet, Register, Send, Listen, Reported, Reboot
      <3> QED
        BY <3>1 DEF EchoIgnored
    <2>4. CASE Radio \/ (\E p \in air, hops \in Hops : Hear(p, hops)) \/ Tick \/ UNCHANGED vars
      <3>1. UNCHANGED <<pc, pkt, own, inserted>>
        BY <2>4 DEF Radio, Transmit, Lose, Deliver, Hear, Tick, vars, locals, history
      <3> QED
        BY <3>1 DEF EchoIgnored
    <2> QED
      BY <2>1, <2>2, <2>3, <2>4 DEF Next, UserTask
  <1> QED
    BY <1>1, <1>2, ResponderIsOK, PTL DEF Spec

\* Two answers to the same packet are N insertions apart (main.rs 302): a command heard again
\* is answered again only when the table has forgotten it.
THEOREM NoneAnsweredTwice == Spec => []AnsweredOnce
  <1>1. Init => AnsweredOnce
    <2>1. Len(<<>>) = 0
      OBVIOUS
    <2> QED
      BY <2>1 DEF Init, AnsweredOnce
  <1>2. ResponderInv /\ AnsweredOnce /\ [Next]_vars => AnsweredOnce'
    <2> SUFFICES ASSUME ResponderInv, AnsweredOnce, [Next]_vars PROVE AnsweredOnce'
      OBVIOUS
    <2>1. CASE Send
      BY <2>1, SendKeeps
    <2>2. CASE Reboot
      <3>1. Len(<<>>) = 0
        OBVIOUS
      <3> QED
        BY <2>2, <3>1 DEF Reboot, AnsweredOnce
    <2>3. CASE Greet \/ Register \/ Listen \/ Reported \/ Receive \/ Decode \/ Answer \/ Tick
      <3>1. UNCHANGED answers
        BY <2>3 DEF Greet, Register, Listen, Reported, Receive, Decode, Answer, Tick, history
      <3> QED
        BY <3>1 DEF AnsweredOnce
    <2>4. CASE Radio \/ (\E p \in air, hops \in Hops : Hear(p, hops)) \/ UNCHANGED vars
      <3>1. UNCHANGED answers
        BY <2>4 DEF Radio, Transmit, Lose, Deliver, Hear, vars, history
      <3> QED
        BY <3>1 DEF AnsweredOnce
    <2> QED
      BY <2>1, <2>2, <2>3, <2>4 DEF Next, UserTask
  <1> QED
    BY <1>1, <1>2, ResponderIsOK, PTL DEF Spec

\* Whenever the responder listens, it has answered every command it took (main.rs 385-433), also
\* if its answer equals a packet sent before.
THEOREM CommandsAreAnswered == Spec => []CommandsAnswered
  <1>1. ResponderInv => CommandsAnswered
    <2> SUFFICES ASSUME ResponderInv, pc = "receive", NEW c \in Others,
                        IsCommand(c), Hash(c) \notin own,
                        \E i \in 1..Len(inserted) : inserted[i] = Hash(c)
                 PROVE  \E i \in 1..Len(answers) : answers[i].to = Hash(c)
      BY DEF CommandsAnswered, Hash
    <2>1. Known(Hash(c)) /\ pkt = NoPacket
      BY DEF Known, ResponderInv, TaskOK
    <2> QED
      BY <2>1 DEF ResponderInv, CommandsOK
  <1> QED
    BY <1>1, ResponderIsOK, PTL
==============================================================================
