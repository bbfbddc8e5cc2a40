------------------------------ MODULE MCSlowRF ------------------------------
(* Instances of SlowRF for TLC. *)
EXTENDS SlowRF

CONSTANTS a, b

Telegrams == {a, b}
Band868   == {"HMS", "ESA"}
OneOfEach == {"ESA", "SYNC_PACKAGE", "MC"}   (* Each has its own handling. *)
NoExtra   == {}
=============================================================================
