------------------------------- MODULE Hm485 --------------------------------
(***************************************************************************)
(* clib/hm485.c: the HomeMatic Wired bus.  USART1_RX_vect collects the     *)
(* bytes of a message in rbuf and copies a whole one to rmsg, which        *)
(* hm485_task checks and displays; rstate tells them where the other is.   *)
(* The interrupt handler is one step; "rstate&=~RSTATE_COMPLETE" in the    *)
(* main loop is a load and a store.  sendmsg waits until no message is     *)
(* being received, and may run inside the display of one (see Console).    *)
(*                                                                         *)
(* A message is abstracted to its length byte (the addresses before it     *)
(* are left out), its payload and its CRC, which tells any two apart.      *)
(***************************************************************************)
EXTENDS Naturals, Sequences

CONSTANTS
  HmRoom,        (* HM485_BUFFERLEN.                                       *)
  HmHigh,        (* 0x80, the bit an escaped byte lacks on the bus.        *)
  HmSom, HmEsc,  (* HM485_MSG_SOM and HM485_MSG_ESC.                       *)
  HmMessages,    (* Messages as sequences of values; the first is the      *)
                 (* number of those that follow it.                        *)
  HmCount        (* Bound: messages on the bus.                            *)

ASSUME HmAssumption ==
  /\ HmRoom \in Nat \ {0} /\ HmHigh \in Nat /\ HmCount \in Nat
  /\ HmSom \in Nat /\ HmEsc \in Nat /\ HmSom # HmEsc
  /\ 1 < HmHigh /\ {HmSom, HmEsc} \subseteq HmHigh .. 2 * HmHigh - 1
  /\ HmMessages \subseteq Seq(Nat) /\ \A m \in HmMessages : m # << >> /\ m[1] = Len(m) - 1

VARIABLES
  rbuf, rmsg,    (* The first rindex bytes of rbuf; rmsg.                  *)
  rstate,        (* The bits RSTATE_ESC, _MSG and _COMPLETE.               *)
  hmPc, hmReg,   (* hm485_task: "idle", "show", "load", "store"; its copy  *)
                 (* of rstate.                                             *)
  hmSend,        (* sendmsg: "no", "wait" or "on".                         *)
  hmBus,         (* What is still to come of the message on the bus (raw:  *)
                 (* not to be escaped),                                    *)
  hmNumber,      (* and its number.                                        *)
  hmChecked,     (* History: rmsg when its CRC was checked,                *)
  hmDone,        (* the number of the message displayed last,              *)
  hmShown        (* and what was displayed.                                *)

hmVars == <<rbuf, rmsg, rstate, hmPc, hmReg, hmSend, hmBus, hmNumber,
            hmChecked, hmDone, hmShown>>

HmIdle == [esc |-> FALSE, msg |-> FALSE, complete |-> FALSE]

HmContent(m, n) == [i \in 1 .. Len(m) |-> [n |-> n, val |-> m[i]]]

(* Message m as its sender puts it on the bus: SOM as it is, the rest escaped. *)
HmWire(m) ==
  <<[val |-> HmSom, raw |-> TRUE]>> \o [i \in 1 .. Len(m) |-> [val |-> m[i], raw |-> FALSE]]

(* usart_sendescaped: HmEsc goes before a special byte, which loses HmHigh. *)
HmEscapes == ~hmBus[1].raw /\ hmBus[1].val \in {HmSom, HmEsc}

HmSent == [n |-> hmNumber, val |-> IF HmEscapes THEN HmEsc ELSE hmBus[1].val]

HmUnsent ==
  IF HmEscapes THEN <<[val |-> hmBus[1].val - HmHigh, raw |-> TRUE]>> \o Tail(hmBus)
  ELSE Tail(hmBus)

HmInit ==
  /\ rbuf = << >> /\ rmsg = << >> /\ rstate = HmIdle
  /\ hmPc = "idle" /\ hmReg = HmIdle /\ hmSend = "no"
  /\ hmBus = << >> /\ hmNumber = 0
  /\ hmChecked = << >> /\ hmDone = 0 /\ hmShown = << >>

(* Mutant: the old message is not looked at. *)
HmOverwrites(state) == TRUE

HmAccepts(state) == ~state.complete

(* The default case of the handler, with RSTATE_MSG set and room left. *)
HmCollects(b) ==
  LET c == IF rstate.esc /\ b.val < HmHigh THEN [b EXCEPT !.val = @ + HmHigh] ELSE b
      all == Append(rbuf, c)
      open == [rstate EXCEPT !.esc = FALSE]
  IN /\ rbuf' = all
     /\ IF all[1].val + 1 # Len(all)
          THEN rstate' = open /\ UNCHANGED rmsg
          ELSE IF HmAccepts(rstate)
          THEN /\ rmsg' = all
               /\ rstate' = [open EXCEPT !.complete = TRUE, !.msg = FALSE]
          ELSE rstate' = [open EXCEPT !.msg = FALSE] /\ UNCHANGED rmsg

(* USART1_RX_vect *)
HmReceives(b) ==
  \/ /\ b.val = HmSom
     /\ rbuf' = << >> /\ rstate' = [rstate EXCEPT !.msg = TRUE]
     /\ UNCHANGED rmsg
  \/ /\ b.val = HmEsc
     /\ rstate' = [rstate EXCEPT !.esc = @ \/ rstate.msg]
     /\ UNCHANGED <<rbuf, rmsg>>
  \/ /\ b.val \notin {HmSom, HmEsc}
     /\ IF ~rstate.msg THEN UNCHANGED <<rbuf, rmsg, rstate>>
        ELSE IF Len(rbuf) = HmRoom
        THEN rstate' = [rstate EXCEPT !.msg = FALSE] /\ UNCHANGED <<rbuf, rmsg>>
        ELSE HmCollects(b)

(* The receiver is off while the stick sends. *)
HmHears(b) == IF hmSend = "on" THEN UNCHANGED <<rbuf, rmsg, rstate>> ELSE HmReceives(b)

HmMain == <<hmPc, hmReg, hmSend, hmChecked, hmDone, hmShown>>

(* A message begins; one on the bus may be broken off by a collision. *)
HmBegins ==
  /\ hmNumber < HmCount
  /\ hmNumber' = hmNumber + 1
  /\ \E m \in HmMessages : hmBus' = HmWire(m)
  /\ UNCHANGED <<rbuf, rmsg, rstate, HmMain>>

HmByte ==
  /\ hmBus # << >>
  /\ HmHears(HmSent)
  /\ hmBus' = HmUnsent
  /\ UNCHANGED <<hmNumber, HmMain>>

(* A byte with a parity, frame or overrun error; and noise. *)
HmError ==
  /\ hmBus # << >> /\ hmSend # "on"
  /\ rstate' = [rstate EXCEPT !.msg = FALSE]
  /\ hmBus' = HmUnsent
  /\ UNCHANGED <<rbuf, rmsg, hmNumber, HmMain>>

HmNoise ==
  /\ HmHears([n |-> 0, val |-> 1])
  /\ UNCHANGED <<hmBus, hmNumber, HmMain>>

(* hm485_task: a message with a wrong CRC is only removed. *)
HmChecks ==
  /\ hmPc = "idle" /\ hmSend = "no" /\ rstate.complete
  /\ hmChecked' = rmsg
  /\ hmPc' = IF \E m \in HmMessages, n \in 1 .. HmCount : rmsg = HmContent(m, n)
             THEN "show" ELSE "load"
  /\ UNCHANGED <<rbuf, rmsg, rstate, hmReg, hmSend, hmBus, hmNumber, hmDone, hmShown>>

HmShows ==
  /\ hmPc = "show" /\ hmSend = "no"
  /\ hmShown' = rmsg
  /\ hmPc' = "load"
  /\ UNCHANGED <<rbuf, rmsg, rstate, hmReg, hmSend, hmBus, hmNumber, hmChecked, hmDone>>

(* rstate&=~RSTATE_COMPLETE *)
HmLoads ==
  /\ hmPc = "load"
  /\ hmReg' = rstate
  /\ hmPc' = "store"
  /\ UNCHANGED <<rbuf, rmsg, rstate, hmSend, hmBus, hmNumber, hmChecked, hmDone, hmShown>>

(* Mutant: the bit is left set. *)
HmForgets == hmReg

HmCleared == [hmReg EXCEPT !.complete = FALSE]

HmStores ==
  /\ hmPc = "store"
  /\ rstate' = HmCleared
  /\ hmDone' = IF hmShown = << >> THEN hmDone ELSE hmShown[1].n
  /\ hmShown' = << >>
  /\ hmPc' = "idle"
  /\ UNCHANGED <<rbuf, rmsg, hmReg, hmSend, hmBus, hmNumber, hmChecked>>

(* sendmsg, called from the main loop or inside a display. *)
HmSends ==
  /\ \/ hmSend = "no" /\ hmPc \in {"idle", "show"} /\ hmSend' = "wait"
     \/ hmSend = "wait" /\ ~rstate.msg /\ hmSend' = "on"
     \/ hmSend = "on" /\ hmSend' = "no"
  /\ UNCHANGED <<rbuf, rmsg, rstate, hmPc, hmReg, hmBus, hmNumber, hmChecked,
                 hmDone, hmShown>>

(* usart_beginsend: "If the receiver got somehow stuck, this will          *)
(* eventually trigger a WDT reset".                                        *)
HmReset ==
  /\ hmSend = "wait" /\ rstate.msg
  /\ rbuf' = << >> /\ rmsg' = << >> /\ rstate' = HmIdle
  /\ hmPc' = "idle" /\ hmReg' = HmIdle /\ hmSend' = "no"
  /\ hmChecked' = << >> /\ hmShown' = << >>
  /\ UNCHANGED <<hmBus, hmNumber, hmDone>>

hm485_task == HmChecks \/ HmShows \/ HmLoads \/ HmStores

HmNext ==
  HmBegins \/ HmByte \/ HmError \/ HmNoise \/ hm485_task \/ HmSends \/ HmReset

HmSpec == HmInit /\ [][HmNext]_hmVars
-----------------------------------------------------------------------------
HmTypeOK ==
  LET Token == [n : 0 .. HmCount, val : Nat] IN
  /\ rbuf \in Seq(Token) /\ Len(rbuf) <= HmRoom
  /\ rmsg \in Seq(Token) /\ hmChecked \in Seq(Token) /\ hmShown \in Seq(Token)
  /\ rstate \in [esc : BOOLEAN, msg : BOOLEAN, complete : BOOLEAN]
  /\ hmReg \in [esc : BOOLEAN, msg : BOOLEAN, complete : BOOLEAN]
  /\ hmPc \in {"idle", "show", "load", "store"} /\ hmSend \in {"no", "wait", "on"}
  /\ hmNumber \in 0 .. HmCount /\ hmDone \in 0 .. HmCount

(* What is displayed is the message whose CRC was checked, although the    *)
(* bus goes on while it is displayed and other commands run, and it is     *)
(* newer than the one displayed before, so none is displayed twice,        *)
(* whatever the lost updates of rstate do to the next message.             *)
HmInOrder ==
  /\ hmPc \in {"show", "load"} => rmsg = hmChecked
  /\ hmShown # << >> => hmShown[1].n > hmDone
=============================================================================
