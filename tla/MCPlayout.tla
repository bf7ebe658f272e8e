------------------------------ MODULE MCPlayout -----------------------------
(* Constants of the runs of Playout. *)
EXTENDS Playout

MCSessions == {1, 2}
MCOneSession == {1}
=============================================================================
