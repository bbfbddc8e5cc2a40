------------------------------ MODULE Stacking ------------------------------
(***************************************************************************)
(* clib/stacking.c: the lines of the board below arrive at UART1, byte by  *)
(* byte in an interrupt, and stacking_task forwards each of them behind a  *)
(* '*'.  One buffer serves both: from the end of a line until it has been  *)
(* forwarded the interrupt drops what it receives.                         *)
(*                                                                         *)
(* A character is the number of its line and how many follow it; 0 is the  *)
(* line feed.  A carriage return is ignored and not modelled.  mypos and   *)
(* mycmd are not volatile; their stores come in the order of the source.   *)
(***************************************************************************)
EXTENDS Naturals, Sequences

CONSTANTS
  StSize,        (* 256, bytes of mycmd; mypos is a byte, and wraps.       *)
  StLengths      (* Lengths of lines.                                      *)

ASSUME StAssumption == StSize \in Nat \ {0} /\ StLengths \subseteq Nat \ {0}

VARIABLES
  mycmd, mypos, myEOL,
  stLine, stLeft,  (* The line being sent from below, and what is left of  *)
                   (* it with its line feed.                               *)
  stPc,            (* stacking_task: "idle", "show", "pos" or "eol".       *)
  stForwarded,     (* History: the text forwarded last,                    *)
  stBroken         (* and whether the UART lost a byte of what is in       *)
                   (* mycmd.                                               *)

stVars == <<mycmd, mypos, myEOL, stLine, stLeft, stPc, stForwarded, stBroken>>

StNul == [line |-> 0, left |-> 0]

StInit ==
  /\ mycmd = [i \in 0 .. StSize - 1 |-> StNul] /\ mypos = 0 /\ myEOL = FALSE
  /\ stLine = 1 /\ stLeft \in {n + 1 : n \in StLengths}
  /\ stPc = "idle" /\ stForwarded = << >> /\ stBroken = FALSE

(* Two numbers tell a line from the next one. *)
StNextLine ==
  IF stLeft > 1 THEN stLeft' = stLeft - 1 /\ UNCHANGED stLine
  ELSE stLine' = 3 - stLine /\ stLeft' \in {n + 1 : n \in StLengths}

(* USART1_RX_vect with a frame or overrun error. *)
StLost ==
  /\ StNextLine
  /\ stBroken' = (stBroken \/ ~myEOL)
  /\ UNCHANGED <<mycmd, mypos, myEOL, stPc, stForwarded>>

(* Mutant: the interrupt fills the buffer that is being forwarded. *)
StAccepts == TRUE

(* "unprocessed message?" *)
StTakes == ~myEOL

(* USART1_RX_vect *)
StByte ==
  /\ StNextLine
  /\ IF StTakes
       THEN /\ mycmd' = [mycmd EXCEPT ![mypos] =
                           IF stLeft = 1 THEN StNul ELSE [line |-> stLine, left |-> stLeft]]
            /\ IF stLeft = 1 THEN myEOL' = TRUE /\ UNCHANGED mypos
                             ELSE mypos' = (mypos + 1) % StSize /\ UNCHANGED myEOL
       ELSE UNCHANGED <<mycmd, mypos, myEOL>>
  /\ UNCHANGED <<stPc, stForwarded, stBroken>>

(* The characters up to the terminating 0. *)
StText ==
  LET end == CHOOSE n \in 0 .. StSize :
               /\ n < StSize => mycmd[n] = StNul
               /\ \A i \in 0 .. n - 1 : mycmd[i] # StNul
  IN [i \in 1 .. end |-> mycmd[i - 1]]

StBegins ==
  /\ stPc = "idle" /\ myEOL
  /\ stPc' = "show"
  /\ UNCHANGED <<mycmd, mypos, myEOL, stLine, stLeft, stForwarded, stBroken>>

(* The line is forwarded; displaying takes its time. *)
StShows ==
  /\ stPc = "show"
  /\ stForwarded' = IF stBroken THEN << >> ELSE StText
  /\ stPc' = "pos"
  /\ UNCHANGED <<mycmd, mypos, myEOL, stLine, stLeft, stBroken>>

(* mypos = 0; mycmd[mypos] = 0; *)
StPos ==
  /\ stPc = "pos"
  /\ mypos' = 0 /\ mycmd' = [mycmd EXCEPT ![0] = StNul]
  /\ stPc' = "eol"
  /\ UNCHANGED <<myEOL, stLine, stLeft, stForwarded, stBroken>>

StEol ==
  /\ stPc = "eol"
  /\ myEOL' = FALSE /\ stBroken' = FALSE
  /\ stPc' = "idle"
  /\ UNCHANGED <<mycmd, mypos, stLine, stLeft, stForwarded>>

stacking_task == StBegins \/ StShows \/ StPos \/ StEol

StNext == StByte \/ StLost \/ stacking_task

StSpec == StInit /\ [][StNext]_stVars
-----------------------------------------------------------------------------
StTypeOK ==
  /\ mycmd \in [0 .. StSize - 1 -> [line : 0 .. 2, left : Nat]]
  /\ mypos \in 0 .. StSize - 1 /\ myEOL \in BOOLEAN
  /\ stLine \in 1 .. 2 /\ stLeft \in Nat \ {0}
  /\ stPc \in {"idle", "show", "pos", "eol"} /\ stBroken \in BOOLEAN

(* What is forwarded is the end of a single line, without a gap: the whole *)
(* line, if its beginning was not dropped and it did not fill the buffer.  *)
(* Two lines are never joined unless the UART loses the line feed between. *)
StOneLine ==
  \A i \in DOMAIN stForwarded :
    stForwarded[i] = [line |-> stForwarded[1].line,
                      left |-> Len(stForwarded) + 2 - i]
=============================================================================
