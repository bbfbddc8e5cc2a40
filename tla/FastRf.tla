------------------------------- MODULE FastRf -------------------------------
(***************************************************************************)
(* clib/fastrf.c on a board without USE_RF_MODE: packets of 250 kBaud, one *)
(* interrupt per packet, FastRF_Task in the main loop.  fastrf_on is 0     *)
(* when the mode is off, 1 when it is on, and 2 after an interrupt.        *)
(*                                                                         *)
(* The task displays a packet to the USB, so that CDC_Task may run a       *)
(* command of the host in the middle of it (see Console).  fs only leaves  *)
(* the receiver off while it sends.  Packets are shorter than buf.         *)
(***************************************************************************)
EXTENDS Naturals

CONSTANT FfRoom    (* Packets that fit into the receive FIFO of the chip.  *)

ASSUME FfAssumption == FfRoom \in Nat \ {0}

VARIABLES
  fastrf_on,
  ffRadio,         (* What the chip is configured for: "fast" or "slow".   *)
  ffFifo,          (* Packets in its FIFO,                                 *)
  ffOverflow,      (* MARCSTATE_RXFIFO_OVERFLOW.                           *)
  ffPc,            (* "task" between two tasks, "show" inside FastRF_Task. *)
  ffWanted         (* History: the last command was fr and not fx.         *)

ffVars == <<fastrf_on, ffRadio, ffFifo, ffOverflow, ffPc, ffWanted>>

FfInit ==
  /\ fastrf_on = 0 /\ ffRadio = "slow" /\ ffFifo = 0 /\ ffOverflow = FALSE
  /\ ffPc = "task" /\ ffWanted = FALSE

(* rf_receive_interrupt_handler: the router and SlowRF come after it. *)
FfInterrupt == fastrf_on' = IF fastrf_on # 0 THEN 2 ELSE 0

(* A packet of the air; the FIFO that is full overflows, and receives      *)
(* nothing more until it is flushed.                                       *)
FfPacket ==
  /\ ffRadio = "fast" /\ ~ffOverflow
  /\ IF ffFifo < FfRoom
       THEN /\ ffFifo' = ffFifo + 1
            /\ FfInterrupt
            /\ UNCHANGED ffOverflow
       ELSE /\ ffOverflow' = TRUE
            /\ UNCHANGED <<fastrf_on, ffFifo>>
  /\ UNCHANGED <<ffRadio, ffPc, ffWanted>>

(* CRC_AUTOFLUSH: a damaged packet takes those in the FIFO with it; their  *)
(* line falls, and every edge interrupts.                                  *)
FfDamaged ==
  /\ ffRadio = "fast" /\ ~ffOverflow
  /\ ffFifo' = 0
  /\ fastrf_on' = IF ffFifo > 0 /\ fastrf_on # 0 THEN 2 ELSE fastrf_on
  /\ UNCHANGED <<ffRadio, ffOverflow, ffPc, ffWanted>>

(* An edge of a SlowRF telegram. *)
FfEdge ==
  /\ ffRadio = "slow"
  /\ FfInterrupt
  /\ UNCHANGED <<ffRadio, ffFifo, ffOverflow, ffPc, ffWanted>>

FfFlushed == ffFifo' = 0 /\ ffOverflow' = FALSE

(* fastrf_func, from the main loop or inside a display. *)
FfCmdInit ==
  /\ ffRadio' = "fast" /\ FfFlushed
  /\ fastrf_on' = 1 /\ ffWanted' = TRUE
  /\ UNCHANGED ffPc

FfCmdOff ==
  /\ fastrf_on' = 0 /\ ffWanted' = FALSE
  /\ UNCHANGED <<ffRadio, ffFifo, ffOverflow, ffPc>>

(* The command X21: ccInitChip with the SlowRF registers. *)
FfCmdSlow ==
  /\ ffRadio' = "slow" /\ FfFlushed
  /\ UNCHANGED <<fastrf_on, ffPc, ffWanted>>

FfHost == FfCmdInit \/ FfCmdOff \/ FfCmdSlow

(* Mutant: an overflow is noticed only after an interrupt. *)
FfChecksPacket == fastrf_on = 2 /\ ffOverflow

(* FastRF_Task in a new tick: MARCSTATE. *)
FfChecks == fastrf_on = 1 /\ ffOverflow

FfRescue ==
  /\ ffPc = "task" /\ FfChecks
  /\ FfFlushed
  /\ UNCHANGED <<fastrf_on, ffRadio, ffPc, ffWanted>>

(* The length and the packet; an empty FIFO is read as well. *)
FfTakes == ffFifo' = IF ffFifo > 0 THEN ffFifo - 1 ELSE 0

FfRead ==
  /\ ffPc = "task" /\ fastrf_on = 2
  /\ FfTakes
  /\ ffPc' = "show"
  /\ UNCHANGED <<fastrf_on, ffRadio, ffOverflow, ffWanted>>

FfShown ==
  /\ ffPc = "show"
  /\ fastrf_on' = 1
  /\ ffPc' = "task"
  /\ UNCHANGED <<ffRadio, ffFifo, ffOverflow, ffWanted>>

FastRF_Task == FfRescue \/ FfRead \/ FfShown

FfNext == FfPacket \/ FfDamaged \/ FfEdge \/ FfHost \/ FastRF_Task

FfSpec == FfInit /\ [][FfNext]_ffVars /\ WF_ffVars(FastRF_Task)
-----------------------------------------------------------------------------
FfTypeOK ==
  /\ fastrf_on \in 0 .. 2 /\ ffRadio \in {"fast", "slow"}
  /\ ffFifo \in 0 .. FfRoom /\ ffOverflow \in BOOLEAN /\ ffPc \in {"task", "show"}
  /\ ffWanted \in BOOLEAN

(* A receiver whose FIFO has overflowed comes back: with RX->RX the chip   *)
(* itself would stay deaf.                                                 *)
FfComesBack == []<>(~ffWanted \/ ~ffOverflow)

(* docs/commandref.html:468 'Reset to "SlowRF": fx, followed by X21': back *)
(* in the main loop after fx, no interrupt is taken for a packet's.        *)
FfSlowAgain == ffPc = "task" /\ ~ffWanted => fastrf_on = 0
=============================================================================
