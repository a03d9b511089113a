----------------------------- MODULE MCSessionRecv -----------------------------
(* Values for SessionRecv: the peer of session 1 sends one packet that is  *)
(* longer than a text, or a bare length prefix and a short packet; the     *)
(* peer of session 2 a bare length prefix.                                 *)
EXTENDS SessionRecv

TwoStreams == [s \in 1 .. 2 |-> IF s = 1 THEN {{5}, {3, 5}} ELSE {{3}}]
OneStream  == [s \in {1} |-> {{4, 6}}]

\* Fresh memory happens to hold -1, the number that stands for no buffer.
NoGarbage == {NoBuf}

\* Fresh memory holds -1 or zero.
SomeGarbage == {NoBuf, 0}
===============================================================================
