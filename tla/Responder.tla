----------------------------- MODULE Responder -----------------------------
(* The mesh layer of the firmware: user_task (boards/rak4631/src/main.rs),   *)
(* which greets the channel and then answers the commands it hears there.    *)
(* It talks to the dispatcher through two bounded channels and recognises    *)
(* its own packets, which repeaters send back, by registering each of them   *)
(* in its PacketDedup before it is sent.                                     *)
(*                                                                           *)
(* The dispatcher is reduced to its channel ends (Dispatcher.tla is the      *)
(* whole of it); the air delivers what was ever sent on it in any order, any *)
(* number of times, or never.  A task runs alone between two awaits: writing *)
(* to the USB host, receiving and sending.                                   *)
EXTENDS Integers, Sequences, FiniteSets

CONSTANTS
    Others,         \* what other nodes send, in any order
    Hops,           \* the path lengths with which a packet may be heard
    NodeName,       \* NODE_NAME
    NoPacket,
    Trace, ZERO_HASH,
    N,              \* capacity of the dedup table
    TX_Q, RX_Q,     \* capacities of TX_CHANNEL and RX_CHANNEL
    MaxHeard,       \* bound of the model: frames received
    MaxClock,       \* bound of the model: seconds since a start
    MaxStarts       \* bound of the model: starts of the firmware

\* The payloads of the texts the node sends itself, and all that may be in a frame.
OwnPayloads ==
    [channel : {"ours"}, timestamp : Nat, from : {NodeName},
     body : {"online", "!help", "pong", "up", "path"}, detail : Seq(Int)]

Frames ==
    [payload_type : {"GrpTxt"} \cup {p.payload_type : p \in Others},
     path_len : Nat, direct : BOOLEAN,
     payload : OwnPayloads \cup {p.payload : p \in Others}]

ASSUME ResponderAssumption ==
    /\ N \in Nat \ {0} /\ TX_Q \in Nat \ {0} /\ RX_Q \in Nat \ {0}
    /\ Hops \subseteq Nat
    /\ MaxHeard \in Nat /\ MaxClock \in Nat /\ MaxStarts \in Nat \ {0}
    /\ Others \subseteq Frames /\ NoPacket \notin Frames
    /\ Trace # "GrpTxt" /\ ZERO_HASH \notin {"GrpTxt"} \X OwnPayloads

VARIABLES
    pc,             \* where user_task is suspended
    clock,          \* the wall clock, in seconds since BUILD_EPOCH
    boot_time, pkt_count, \* its locals
    pkt,            \* the packet being handled
    reply,          \* the packet to be sent, while it is announced and sent
    TX_CHANNEL, RX_CHANNEL,
    offered,        \* the frame the dispatcher is delivering
    air,            \* every packet that was ever on the air
    hashes, next_idx, direct_dups, flood_dups, answer,  \* dedup, see PacketDedup
    own,            \* history: the hashes of the packets sent since the start
    inserted,       \* history: the hashes inserted into dedup, in order
    answers,        \* history: what was answered, with Len(inserted) at the time
    heard, starts   \* history: frames received and starts of the firmware

locals == <<boot_time, pkt_count, pkt, reply>>
channels == <<TX_CHANNEL, RX_CHANNEL, offered>>
dedupVars == <<hashes, next_idx, direct_dups, flood_dups, answer>>
history == <<own, inserted, answers>>
vars == <<pc, clock, locals, channels, air, dedupVars, history, heard, starts>>

Dedup == INSTANCE PacketDedup WITH
    Packets <- Others, MaxDups <- 2 * MaxHeard + 1

Unset == -1

-----------------------------------------------------------------------------
\* A group text on the channel: what encode_grp_txt() makes of "<from>: <body>".
\* A body stands for the command it starts with, or else for its text.
GroupText(from, body, detail, timestamp) ==
    [payload_type |-> "GrpTxt", path_len |-> 0, direct |-> FALSE,
     payload |-> [channel |-> "ours", timestamp |-> timestamp,
                  from |-> from, body |-> body, detail |-> detail]]

Commands == {"!help", "!ping", "!status", "!path"}

\* What is passed on for decryption: group texts with the channel's one-byte hash.
IsForChannel(p) == p.payload_type = "GrpTxt" /\ p.payload.channel \in {"ours", "collides"}

\* decode_grp_txt() accepts the MAC of the channel's secret only.
Decodes(p) == IsForChannel(p) /\ p.payload.channel = "ours"

IsCommand(p) == Decodes(p) /\ p.payload.body \in Commands

\* The response to a command; the one to !help is a text that begins with "!help".
Response(p) ==
    CASE p.payload.body = "!help" -> GroupText(NodeName, "!help", <<>>, clock)
      [] p.payload.body = "!ping" -> GroupText(NodeName, "pong", <<>>, clock)
      [] p.payload.body = "!status" ->
            GroupText(NodeName, "up", <<clock - boot_time, pkt_count>>, clock)
      [] p.payload.body = "!path" -> GroupText(NodeName, "path", <<p.path_len>>, clock)

\* dedup.has_seen(p): `answer` holds the result.
HasSeen(p) ==
    \/ Dedup!Duplicate(p) /\ UNCHANGED inserted
    \/ Dedup!Insert(p) /\ inserted' = Append(inserted, Dedup!PacketHash(p))

-----------------------------------------------------------------------------
Init ==
    /\ pc = "boot" /\ clock = 0
    /\ boot_time = Unset /\ pkt_count = 0
    /\ pkt = NoPacket /\ reply = NoPacket
    /\ TX_CHANNEL = <<>> /\ RX_CHANNEL = <<>> /\ offered = NoPacket
    /\ Dedup!Init
    /\ own = {} /\ inserted = <<>> /\ answers = <<>>
    /\ air = Others
    /\ heard = 0 /\ starts = 1

\* The banner is written; the greeting is made and announced.
Greet ==
    /\ pc = "boot"
    /\ reply' = GroupText(NodeName, "online", <<>>, clock)
    /\ pc' = "announce"
    /\ UNCHANGED <<clock, boot_time, pkt_count, pkt, channels, air, dedupVars, history,
                   heard, starts>>

\* Mutant: a packet is not registered before it is sent.
Register_Not ==
    /\ pc = "announce"
    /\ pc' = "send"
    /\ UNCHANGED <<clock, locals, channels, air, dedupVars, history, heard, starts>>

\* Mutant: what is known already is not sent.
Register_UnlessSeen ==
    /\ pc = "announce"
    /\ HasSeen(reply)
    /\ pc' = IF answer' THEN "receive" ELSE "send"
    /\ UNCHANGED <<clock, locals, channels, air, own, answers, heard, starts>>

\* The announcement is written; the packet is registered whether or not an equal
\* one (the same text in the same second) was sent before.
Register ==
    /\ pc = "announce"
    /\ HasSeen(reply)
    /\ pc' = "send"
    /\ UNCHANGED <<clock, locals, channels, air, own, answers, heard, starts>>

\* Mutant: the channel takes what does not fit.
Send_Unbounded ==
    /\ pc = "send"
    /\ TX_CHANNEL' = Append(TX_CHANNEL, reply)
    /\ own' = own \cup {Dedup!PacketHash(reply)}
    /\ reply' = NoPacket /\ pkt' = NoPacket
    /\ pc' = IF boot_time = Unset THEN "listen" ELSE "receive"
    /\ UNCHANGED <<clock, boot_time, pkt_count, RX_CHANNEL, offered, air, dedupVars,
                   inserted, answers, heard, starts>>

\* TX_CHANNEL.send(): waits while the channel is full.
Send ==
    /\ pc = "send" /\ Len(TX_CHANNEL) < TX_Q
    /\ TX_CHANNEL' = Append(TX_CHANNEL, reply)
    /\ own' = own \cup {Dedup!PacketHash(reply)}
    /\ answers' = IF pkt = NoPacket THEN answers
                  ELSE Append(answers, [to |-> Dedup!PacketHash(pkt), age |-> Len(inserted)])
    /\ reply' = NoPacket /\ pkt' = NoPacket
    /\ pc' = IF boot_time = Unset THEN "listen" ELSE "receive"
    /\ UNCHANGED <<clock, boot_time, pkt_count, RX_CHANNEL, offered, air, dedupVars,
                   inserted, heard, starts>>

\* "Listening for commands" is written.
Listen ==
    /\ pc = "listen"
    /\ boot_time' = clock
    /\ pc' = "receive"
    /\ UNCHANGED <<clock, pkt_count, pkt, reply, channels, air, dedupVars, history, heard,
                   starts>>

\* Mutant: a duplicate is reported, and handled.
Receive_Duplicates ==
    /\ pc = "receive" /\ RX_CHANNEL # <<>>
    /\ RX_CHANNEL' = Tail(RX_CHANNEL)
    /\ pkt_count' = pkt_count + 1
    /\ HasSeen(Head(RX_CHANNEL))
    /\ pkt' = Head(RX_CHANNEL) /\ pc' = "log"
    /\ UNCHANGED <<clock, boot_time, reply, TX_CHANNEL, offered, air, own, answers, heard,
                   starts>>

\* RX_CHANNEL.receive(): every packet is counted, a duplicate is reported and skipped.
Receive ==
    /\ pc = "receive" /\ RX_CHANNEL # <<>>
    /\ RX_CHANNEL' = Tail(RX_CHANNEL)
    /\ pkt_count' = pkt_count + 1
    /\ HasSeen(Head(RX_CHANNEL))
    /\ IF answer' THEN pc' = "report" /\ UNCHANGED pkt
       ELSE pc' = "log" /\ pkt' = Head(RX_CHANNEL)
    /\ UNCHANGED <<clock, boot_time, reply, TX_CHANNEL, offered, air, own, answers, heard,
                   starts>>

\* A report (of a duplicate, or that decryption failed) is written.
Reported ==
    /\ pc = "report"
    /\ pc' = "receive"
    /\ UNCHANGED <<clock, locals, channels, air, dedupVars, history, heard, starts>>

\* The packet is logged; what is not a text on our channel ends here.
Decode ==
    /\ pc = "log"
    /\ pc' = IF Decodes(pkt) THEN "message"
             ELSE IF IsForChannel(pkt) THEN "report" ELSE "receive"
    /\ pkt' = IF Decodes(pkt) THEN pkt ELSE NoPacket
    /\ UNCHANGED <<clock, boot_time, pkt_count, reply, channels, air, dedupVars, history,
                   heard, starts>>

\* The message is logged; a command is answered with the time of now.
Answer ==
    /\ pc = "message"
    /\ IF IsCommand(pkt)
       THEN reply' = Response(pkt) /\ pc' = "announce" /\ UNCHANGED pkt
       ELSE pkt' = NoPacket /\ pc' = "receive" /\ UNCHANGED reply
    /\ UNCHANGED <<clock, boot_time, pkt_count, channels, air, dedupVars, history, heard,
                   starts>>

UserTask ==
    \/ Greet \/ Register \/ Send \/ Listen
    \/ Receive \/ Reported \/ Decode \/ Answer

-----------------------------------------------------------------------------
\* The dispatcher takes a request, except while it delivers a frame, and sends it.
Transmit ==
    /\ offered = NoPacket /\ TX_CHANNEL # <<>>
    /\ TX_CHANNEL' = Tail(TX_CHANNEL)
    /\ air' = air \cup {Head(TX_CHANNEL)}
    /\ UNCHANGED <<pc, clock, locals, RX_CHANNEL, offered, dedupVars, history, heard, starts>>

\* The queue is full or the radio fails: the request is lost.
Lose ==
    /\ offered = NoPacket /\ TX_CHANNEL # <<>>
    /\ TX_CHANNEL' = Tail(TX_CHANNEL)
    /\ UNCHANGED <<pc, clock, locals, RX_CHANNEL, offered, air, dedupVars, history, heard,
                   starts>>

\* A packet is heard, perhaps again, perhaps through a repeater.
Hear(p, hops) ==
    /\ offered = NoPacket /\ heard < MaxHeard
    /\ offered' = [p EXCEPT !.path_len = hops]
    /\ heard' = heard + 1
    /\ UNCHANGED <<pc, clock, locals, TX_CHANNEL, RX_CHANNEL, air, dedupVars, history,
                   starts>>

\* Mutant: the dispatcher waits for a place in the channel.
Deliver_Waits ==
    /\ offered # NoPacket /\ Len(RX_CHANNEL) < RX_Q
    /\ RX_CHANNEL' = Append(RX_CHANNEL, offered)
    /\ offered' = NoPacket
    /\ UNCHANGED <<pc, clock, locals, TX_CHANNEL, air, dedupVars, history, heard, starts>>

\* try_send(): a full channel drops the frame.
Deliver ==
    /\ offered # NoPacket
    /\ RX_CHANNEL' = IF Len(RX_CHANNEL) < RX_Q THEN Append(RX_CHANNEL, offered)
                     ELSE RX_CHANNEL
    /\ offered' = NoPacket
    /\ UNCHANGED <<pc, clock, locals, TX_CHANNEL, air, dedupVars, history, heard, starts>>

Tick ==
    /\ clock < MaxClock
    /\ clock' = clock + 1
    /\ UNCHANGED <<pc, locals, channels, air, dedupVars, history, heard, starts>>

\* The power fails: nothing is stored, and the clock starts at BUILD_EPOCH again.
Reboot ==
    /\ starts < MaxStarts
    /\ starts' = starts + 1
    /\ pc' = "boot" /\ clock' = 0
    /\ boot_time' = Unset /\ pkt_count' = 0
    /\ pkt' = NoPacket /\ reply' = NoPacket
    /\ TX_CHANNEL' = <<>> /\ RX_CHANNEL' = <<>> /\ offered' = NoPacket
    /\ hashes' = [i \in Dedup!Indices |-> ZERO_HASH] /\ next_idx' = 0
    /\ direct_dups' = 0 /\ flood_dups' = 0 /\ answer' = FALSE
    /\ own' = {} /\ inserted' = <<>> /\ answers' = <<>>
    /\ UNCHANGED <<air, heard>>

Radio == Transmit \/ Lose \/ Deliver

Next ==
    \/ UserTask
    \/ Radio
    \/ \E p \in air, hops \in Hops : Hear(p, hops)
    \/ Tick
    \/ Reboot

Spec == Init /\ [][Next]_vars

\* The executor polls both tasks, and the USB host takes what is written.
FairSpec == Spec /\ WF_vars(UserTask) /\ WF_vars(Radio)
-----------------------------------------------------------------------------
TypeOK ==
    /\ pc \in {"boot", "announce", "send", "listen", "receive", "report", "log", "message"}
    /\ Len(TX_CHANNEL) <= TX_Q /\ Len(RX_CHANNEL) <= RX_Q
    /\ boot_time \in 0..clock \cup {Unset}
    /\ pkt_count <= heard
    /\ pc \in {"log", "message"} => pkt # NoPacket
    /\ (pc \in {"announce", "send"}) = (reply # NoPacket)

\* The node never takes a packet of its own for a new one, and never answers it
\* (the answer to !help would be answered for ever), unless N other packets made
\* the table forget it since it was registered (main.rs 279, 430).
EchoIgnored ==
    pc \in {"log", "message"} /\ Dedup!PacketHash(pkt) \in own =>
        \E i \in 1..(Len(inserted) - N) : inserted[i] = Dedup!PacketHash(pkt)

\* A command heard again, over whatever path and after however many of the node's
\* own packets, is answered again only after N packets that were new.
AnsweredOnce ==
    \A i, j \in 1..Len(answers) :
        i < j /\ answers[i].to = answers[j].to => answers[j].age - answers[i].age >= N

\* Whenever the responder listens, every command it took from the channel has been
\* answered, also one whose answer equals a packet known already (the same text in
\* the same second).  A packet it sent itself is no such command.
CommandsAnswered ==
    pc = "receive" =>
        \A c \in Others :
            LET h == Dedup!PacketHash(c)
            IN  IsCommand(c) /\ h \notin own /\ (\E i \in 1..Len(inserted) : inserted[i] = h)
                    => \E i \in 1..Len(answers) : answers[i].to = h

\* Neither task waits for the other for ever: the responder waits in send() while
\* the dispatcher delivers to it, with try_send() (dispatcher.rs 97).
AlwaysListensAgain == []<>(pc = "receive")
=============================================================================
