------------------------- MODULE MCTelemetrySession -------------------------
(***************************************************************************)
(* A small instance of TelemetrySession: two sessions, because every       *)
(* property relates at most two, of one instrument (sessions of two share  *)
(* nothing but the rows a promotion deletes), and two packets, enough for  *)
(* one to be chained to the other.                                         *)
(***************************************************************************)
EXTENDS TelemetrySession, TLC

CONSTANTS s1, s2, d1, w1, w2

MCSessions == {s1, s2}
MCDevices == {d1}
TwoWorkers == {w1, w2}

InOrder == {}

ModelSymmetry == Permutations(MCSessions) \cup Permutations(TwoWorkers)
=============================================================================
