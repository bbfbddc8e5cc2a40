------------------------------ MODULE MCFht80b ------------------------------
(* Instance of Fht80b for TLC: two thermostats that are ours and one that  *)
(* talks to a foreign FHZ; messages with one and with two values.          *)
EXTENDS Fht80b

A == <<1, 1>>
B == <<2, 2>>

Thermostats == {A, B}
Paired      == [d \in Thermostats |-> IF d = A THEN 7 ELSE 8]
Commands    == {A \o <<65, 1>>, A \o <<62, 1, 65, 2>>, B \o <<65, 1>>}
Reports     == {<<FHT_ACK2, TRUE>>, <<66, FALSE>>}

ASSUME CommandsAssumption == NoTableCommand

(* Two states differ only if what can still be read differs: not in the    *)
(* bytes behind the end of the buffer, and in the last packet only while   *)
(* it may be repeated.                                                     *)
Used == LET end == fht_freebuf IN [i \in Offset |-> IF i < end THEN fht80b_buf[i] ELSE 0]
Readable ==
  <<fht_hc, timer, conv, fht80b_repeatcnt, pc, Used, received, outside, fht80b_out.hc,
    IF pc = "frei" /\ fht80b_repeatcnt = 0 THEN << >> ELSE <<fht80b_out, gesendet>>>>
=============================================================================
