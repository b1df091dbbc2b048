----------------------------- MODULE MCGrpTxt -----------------------------
(* The codec with the constants of the code and every length up to beyond    *)
(* the largest payload.                                                      *)
EXTENDS GrpTxt

MCMessages ==
    {m \in [len : 0..190, nuls : 0..2, utf8 : BOOLEAN] : m.nuls <= m.len}

\* Two channels with the same channel hash, and a third.
MCChannelHash == [k \in Keys |-> IF k = "other" THEN 2 ELSE 1]
=============================================================================
