---------------------------- MODULE MCRingBuffer ----------------------------
(* The instance of RingBuffer for the receive ring of a UART build; that   *)
(* of a transmit ring is in MCBoard.                                       *)
EXTENDS RingBuffer

RxIsr == {"put"}
=============================================================================
