-------------------------------- MODULE Fifo --------------------------------
(***************************************************************************)
(* What clib/ringbuffer.c promises its callers: a queue of at most Cap     *)
(* bytes.  A byte put into a full queue is dropped, a byte taken from an   *)
(* empty one reads as Nul, and a reset forgets everything.                 *)
(***************************************************************************)
EXTENDS Naturals, Sequences

CONSTANTS
  Cap,    (* How many bytes the queue holds.       *)
  Byte,   (* The bytes that can be stored.         *)
  Nul     (* What an empty queue returns, the byte 0. *)

VARIABLES
  queue,  (* The bytes waiting, oldest first.      *)
  ret     (* The byte the last get returned.       *)

Init ==
  /\ queue = << >>
  /\ ret = Nul

Put(d) ==
  /\ queue' = IF Len(queue) < Cap THEN Append(queue, d) ELSE queue
  /\ UNCHANGED ret

GetOldest ==
  /\ queue # << >>
  /\ ret' = Head(queue)
  /\ queue' = Tail(queue)

GetNothing ==
  /\ queue = << >>
  /\ ret' = Nul
  /\ UNCHANGED queue

Clear ==
  /\ queue' = << >>
  /\ UNCHANGED ret

Next ==
  \/ \E d \in Byte : Put(d)
  \/ GetOldest
  \/ GetNothing
  \/ Clear

Spec == Init /\ [][Next]_<<queue, ret>>
=============================================================================
