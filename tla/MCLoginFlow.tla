----------------------------- MODULE MCLoginFlow ----------------------------
(* A session with two streams, one POST /cancel and the sweep. *)
EXTENDS LoginFlow
CONSTANTS s1, s2, request, sweep

MCStream == {s1, s2}
MCCanceller == {request, sweep}
MCSweeper == {sweep}
=============================================================================
