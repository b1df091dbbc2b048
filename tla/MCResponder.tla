---------------------------- MODULE MCResponder ----------------------------
(* The responder among a user, another board and a channel whose hash        *)
(* collides with ours.                                                       *)
EXTENDS Responder

Text(from, body) == GroupText(from, body, <<>>, 0)

\* Every board has the same name, so this answer of another one, a command itself,
\* may equal an answer of our own.
AnotherBoard == Text(NodeName, "!help")

Collision == [Text("eve", "!ping") EXCEPT !.payload.channel = "collides"]

MCOthers == {Text("ann", "!status"), AnotherBoard, Collision}
=============================================================================
