----------------------------- MODULE RingBuffer -----------------------------
(***************************************************************************)
(* clib/ringbuffer.c: the ring behind TTY_Rx_Buffer, TTY_Tx_Buffer,        *)
(* RFR_Buffer and NET_Tx_Buffer.                                           *)
(*                                                                         *)
(* rb_put and rb_get run with interrupts off, so each of them is one step. *)
(* rb_reset does not: its three stores are three steps, and an interrupt   *)
(* handler that uses the same ring may run between them.  IsrOps says      *)
(* which operations an interrupt handler performs on this ring: none of    *)
(* them when the ring is served by the main loop (USB), rb_put for the     *)
(* receive ring of a UART build, rb_get for its transmit ring.             *)
(*                                                                         *)
(* The offsets are uint8_t below 256 bytes of buffer and uint16_t above,   *)
(* so that Size itself always fits and no store wraps.                     *)
(***************************************************************************)
EXTENDS Naturals, Sequences

CONSTANTS
  Size,     (* TTY_BUFSIZE.                                        *)
  Byte,     (* The bytes that can be stored.                       *)
  Nul,      (* The byte 0.                                         *)
  IsrOps    (* Operations performed by an interrupt handler.       *)

ASSUME SizeAssumption == Size \in Nat \ {0}
ASSUME ByteAssumption == Nul \in Byte
ASSUME IsrAssumption  == IsrOps \subseteq {"put", "get"}

VARIABLES
  putoff, getoff, nbytes, buf,   (* The fields of rb_t.                   *)
  ret,                           (* What the last rb_get returned.        *)
  pc                             (* Where the main loop is in rb_reset.   *)

vars == <<putoff, getoff, nbytes, buf, ret, pc>>

Index == 0 .. Size - 1

Wrap(off) == IF off = Size THEN 0 ELSE off

(* The main loop is not inside rb_reset, or the caller interrupts it. *)
Runs(op) == pc = "idle" \/ op \in IsrOps

Init ==
  /\ putoff = 0 /\ getoff = 0 /\ nbytes = 0
  /\ buf = [i \in Index |-> Nul]
  /\ ret = Nul
  /\ pc = "idle"

(* Mutants: what rb_get and rb_reset must not do. *)
rb_get_second ==
  /\ Runs("get")
  /\ nbytes # 0
  /\ nbytes' = nbytes - 1
  /\ getoff' = Wrap(getoff + 1)
  /\ ret' = buf[getoff']
  /\ UNCHANGED <<putoff, buf, pc>>

ResetForgetsPut ==
  /\ pc = "putoff"
  /\ pc' = "getoff"
  /\ UNCHANGED <<putoff, getoff, nbytes, buf, ret>>

rb_put_full(d) ==
  /\ Runs("put")
  /\ nbytes >= Size
  /\ UNCHANGED vars

rb_put(d) ==
  /\ Runs("put")
  /\ nbytes < Size
  /\ nbytes' = nbytes + 1
  /\ buf' = [buf EXCEPT ![putoff] = d]
  /\ putoff' = Wrap(putoff + 1)
  /\ UNCHANGED <<getoff, ret, pc>>

rb_get_empty ==
  /\ Runs("get")
  /\ nbytes = 0
  /\ ret' = Nul
  /\ UNCHANGED <<putoff, getoff, nbytes, buf, pc>>

rb_get ==
  /\ Runs("get")
  /\ nbytes # 0
  /\ nbytes' = nbytes - 1
  /\ ret' = buf[getoff]
  /\ getoff' = Wrap(getoff + 1)
  /\ UNCHANGED <<putoff, buf, pc>>

(* rb->getoff = rb->putoff = rb->nbytes = 0 stores right to left. *)
ResetBytes ==
  /\ pc = "idle"
  /\ nbytes' = 0
  /\ pc' = "putoff"
  /\ UNCHANGED <<putoff, getoff, buf, ret>>

ResetPut ==
  /\ pc = "putoff"
  /\ putoff' = 0
  /\ pc' = "getoff"
  /\ UNCHANGED <<getoff, nbytes, buf, ret>>

ResetGet ==
  /\ pc = "getoff"
  /\ getoff' = 0
  /\ pc' = "idle"
  /\ UNCHANGED <<putoff, nbytes, buf, ret>>

rb_reset == ResetBytes \/ ResetPut \/ ResetGet

Next ==
  \/ \E d \in Byte : rb_put(d) \/ rb_put_full(d)
  \/ rb_get
  \/ rb_get_empty
  \/ rb_reset

Spec == Init /\ [][Next]_vars
-----------------------------------------------------------------------------
(* Every field keeps its type; the offsets always index buf. *)
TypeOK ==
  /\ putoff \in Index /\ getoff \in Index
  /\ nbytes \in 0 .. Size
  /\ buf \in [Index -> Byte]
  /\ ret \in Byte
  /\ pc \in {"idle", "putoff", "getoff"}

(* The offset n slots after getoff, for n of at most Size. *)
Offset(n) == IF getoff + n < Size THEN getoff + n ELSE getoff + n - Size

(* nbytes counts the bytes that lie between the two offsets, as its        *)
(* declaration in ringbuffer.h says ("Number of data bytes"): whenever no  *)
(* reset is under way, putoff is nbytes slots ahead of getoff.             *)
CountMatchesOffsets == pc = "idle" => putoff = Offset(nbytes)

(* The bytes rb_get will return, in order. *)
Contents == [i \in 1 .. nbytes |-> buf[Offset(i - 1)]]

(* The ring is the bounded queue its callers take it for: no byte is lost, *)
(* duplicated or reordered across the wrap of either offset.               *)
Queue == INSTANCE Fifo WITH Cap <- Size, queue <- Contents

IsAFifo == Queue!Spec
=============================================================================
