----------------------------- MODULE MCStations -----------------------------
(* Constants of the runs of Stations. *)
EXTENDS Stations

MCSenders == 1..2
MCName == <<2, 1>>
=============================================================================
