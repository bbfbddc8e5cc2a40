------------------------------ MODULE RfRouter ------------------------------
(***************************************************************************)
(* The RF router (clib/rf_router.c) of a stick without a host: the lines   *)
(* it displays are gathered in RFR_Buffer by display_char and sent to the  *)
(* base by Minute_Task, after two checks that nothing is being received;   *)
(* a ping of another router switches the chip to the fast mode until its   *)
(* packet has come or a time is over.                                      *)
(*                                                                         *)
(* What is made of a packet received is the business of Console, how edges *)
(* become a ping or a telegram that of SlowRF.  X21 is set.                *)
(***************************************************************************)
EXTENDS Naturals, Sequences

CONSTANTS
  RfrCode,       (* House codes of thermostats.                            *)
  RfrCommand,    (* Their commands with the values.                        *)
  RfrWindow,     (* What window sensors' addresses begin with: two bytes,  *)
                 (* where a thermostat has its house code.                 *)
  RfrOther,      (* What the lines of all others tell.                     *)
  RfrFhtLength,  (* 14, characters of "Thhhhccoovvrr;".                    *)
  RfrMoreLength, (* 4, what FHT_compress leaves of a second one.           *)
  RfrTfLength,   (* 12, "Taaaaaassrr;" of a window sensor.                 *)
  RfrElseLength, (* 12, a line of another protocol.                        *)
  RfrRoom,       (* TTY_BUFSIZE.                                           *)
  RfrDelay,      (* 3, ticks to a check.                                   *)
  RfrWait,       (* 7, ticks to wait for the packet after a ping.          *)
  RfrTicks       (* 256, rf_router_hsec is a byte.                         *)

ASSUME RfrAssumption ==
  /\ RfrFhtLength \in Nat \ {0} /\ RfrMoreLength \in Nat \ {0}
  /\ RfrTfLength \in Nat \ {0} /\ RfrElseLength \in Nat \ {0} /\ RfrRoom \in Nat
  /\ RfrMoreLength <= RfrFhtLength /\ RfrTfLength < RfrFhtLength
  /\ RfrDelay \in Nat \ {0} /\ RfrWait \in Nat /\ RfrTicks \in Nat
  /\ RfrTicks > RfrWait + 1

VARIABLES
  RFR_Buffer,          (* The messages in it: kind and code of the line,   *)
                       (* the command, and whether the line begins with it.*)
  rfrBytes,            (* RFR_Buffer.nbytes.                               *)
  rfrFull,             (* Has rb_put dropped a part of the last line?      *)
  rf_router_sendtime, rf_nr_send_checks,
  rfrStatus,           (* rf_router_status.                                *)
  rfrAge,              (* ticks - rf_router_hsec, modulo a byte.           *)
  rfrTicked,           (* ticks # last_tick of Minute_Task.                *)
  rfrRadio,            (* The chip receives "slow" or "fast".              *)
  rfrClosing,          (* rf_router_task has set the chip to SlowRF but    *)
                       (* not yet the status to "inactive".                *)
  rfrReceiving,        (* rf_isreceiving()                                 *)
  rfrShown             (* History: the messages displayed since the last   *)
                       (* packet.                                          *)

rfrOut   == <<RFR_Buffer, rfrBytes, rfrFull, rfrShown>>
rfrTimer == <<rf_router_sendtime, rf_nr_send_checks>>
rfrVars  == <<rfrOut, rfrTimer, rfrStatus, rfrAge, rfrTicked, rfrRadio, rfrClosing,
              rfrReceiving>>

RfrInit ==
  /\ RFR_Buffer = << >> /\ rfrBytes = 0 /\ rfrFull = FALSE /\ rfrShown = << >>
  /\ rf_router_sendtime = 0 /\ rf_nr_send_checks = 0
  /\ rfrStatus = "inactive" /\ rfrAge = 0 /\ rfrTicked = FALSE
  /\ rfrRadio = "slow" /\ rfrClosing = FALSE /\ rfrReceiving = FALSE

-----------------------------------------------------------------------------
(* Output.  A line that is no message any more is "broken".               *)
RfrMessage ==
  [kind : {"fht", "tf", "else", "broken"}, code : RfrCode \cup RfrWindow \cup {RfrOther},
   command : RfrCommand \cup {RfrOther}, begins : BOOLEAN]

RfrLength(kind) ==
  CASE kind = "fht" -> RfrFhtLength [] kind = "tf" -> RfrTfLength [] OTHER -> RfrElseLength

(* The line whose end FHT_compress finds begins with message RfrFound: it  *)
(* looks from the offset where an FHT message ends, beyond the end of a    *)
(* shorter one of a window sensor.                                         *)
RfrFound(messages) == IF messages[1].kind = "tf" THEN 2 ELSE 1

(* That line is followed by just one, an FHT message by length and prefix. *)
RfrTwoLines(messages) ==
  LET n == Len(messages) IN
  /\ messages[1].kind \in {"fht", "tf"}
  /\ n > RfrFound(messages) /\ \A i \in RfrFound(messages) + 1 .. n - 1 : ~messages[i].begins
  /\ messages[n].begins /\ messages[n].kind = "fht"

(* Mutant: the house codes are not compared. *)
RfrMergesAny(messages) == RfrTwoLines(messages)

(* FHT_compress compares the house code with that of the first line.       *)
RfrMerges(messages) ==
  RfrTwoLines(messages) /\ messages[Len(messages)].code = messages[1].code

(* The last line loses its prefix and its house code, and the line found   *)
(* its last two characters: what that makes of a line of another kind is   *)
(* no message.                                                             *)
FHT_compress(messages) ==
  LET n == Len(messages)
      head == messages[RfrFound(messages)]
      kind == IF head.kind = "fht" THEN "fht" ELSE "broken"
  IN  [i \in 1 .. n |->
         CASE i = RfrFound(messages) -> [head EXCEPT !.kind = kind]
           [] i = n -> [kind |-> kind, code |-> head.code, command |-> messages[n].command,
                        begins |-> FALSE]
           [] OTHER -> messages[i]]

(* The characters of a line with message m, through display_char: rb_put   *)
(* drops what does not fit, and then every line that follows.  The line    *)
(* that fills the buffer is not merged, as putoff is 0 then.               *)
RfrDisplay(m) ==
  LET more   == Append(RFR_Buffer, m)
      bytes  == rfrBytes + RfrLength(m.kind)
      fits   == ~rfrFull /\ bytes <= RfrRoom
      merges == bytes < RfrRoom /\ RfrMerges(more)
  IN
  /\ ~rfrClosing
  /\ rfrFull' = ~fits
  /\ RFR_Buffer' = IF fits THEN (IF merges THEN FHT_compress(more) ELSE more) ELSE RFR_Buffer
  /\ rfrBytes' = IF ~fits THEN RfrRoom
                 ELSE IF merges THEN bytes - (RfrFhtLength - RfrMoreLength) ELSE bytes
  /\ rfrShown' = IF fits THEN Append(rfrShown, m) ELSE rfrShown
  /\ rf_router_sendtime' = RfrDelay
  /\ rf_nr_send_checks' = 2
  /\ UNCHANGED <<rfrStatus, rfrAge, rfrTicked, rfrRadio, rfrClosing, rfrReceiving>>

RfrLine(kind, code, command) ==
  [kind |-> kind, code |-> code, command |-> command, begins |-> TRUE]

RfrDisplays ==
  \/ \E c \in RfrCode, v \in RfrCommand : RfrDisplay(RfrLine("fht", c, v))
  \/ \E c \in RfrWindow : RfrDisplay(RfrLine("tf", c, RfrOther))
  \/ RfrDisplay(RfrLine("else", RfrOther, RfrOther))

(* rf_router_send to the end: the buffer is empty (what is beyond the 57   *)
(* characters of a packet is lost), and set_txrestore sets the chip to     *)
(* SlowRF, whatever it was waiting for.                                    *)
RfrSend ==
  /\ RFR_Buffer' = << >> /\ rfrBytes' = 0 /\ rfrFull' = FALSE /\ rfrShown' = << >>
  /\ rfrRadio' = "slow"

(* The command u with data, which takes the place of what was gathered.    *)
RfrUser ==
  /\ ~rfrClosing
  /\ RfrSend
  /\ UNCHANGED <<rfrTimer, rfrStatus, rfrAge, rfrTicked, rfrClosing, rfrReceiving>>

-----------------------------------------------------------------------------
(* TIMER0 *)
RfrTick ==
  /\ rfrAge' = (rfrAge + 1) % RfrTicks
  /\ rfrTicked' = TRUE
  /\ UNCHANGED <<rfrOut, rfrTimer, rfrStatus, rfrRadio, rfrClosing, rfrReceiving>>

(* --rf_nr_send_checks in rf_router_flush. *)
RfrChecks == (IF rfrReceiving THEN 3 ELSE rf_nr_send_checks) - 1

rf_router_flush ==
  IF RfrChecks # 0
    THEN /\ rf_nr_send_checks' = RfrChecks /\ rf_router_sendtime' = RfrDelay
         /\ UNCHANGED <<rfrOut, rfrRadio>>
    ELSE /\ rf_nr_send_checks' = 0 /\ rf_router_sendtime' = 0
         /\ RfrSend

(* Minute_Task in a new tick. *)
RfrMinute ==
  /\ ~rfrClosing /\ rfrTicked
  /\ rfrTicked' = FALSE
  /\ CASE rf_router_sendtime = 0 -> UNCHANGED <<rfrOut, rfrTimer, rfrRadio>>
       [] rf_router_sendtime = 1 -> rf_router_flush
       [] OTHER -> /\ rf_router_sendtime' = rf_router_sendtime - 1
                   /\ UNCHANGED <<rf_nr_send_checks, rfrOut, rfrRadio>>
  /\ UNCHANGED <<rfrStatus, rfrAge, rfrClosing, rfrReceiving>>

-----------------------------------------------------------------------------
(* Interrupts. *)
RfrMain == <<rfrOut, rfrTimer, rfrAge, rfrTicked, rfrRadio, rfrClosing>>

(* The first edges of a telegram, or its silence. *)
RfrTelegram ==
  /\ rfrStatus # "wait" \/ rfrReceiving
  /\ rfrReceiving' = ~rfrReceiving
  /\ UNCHANGED <<rfrStatus, RfrMain>>

(* Another router pings. *)
RfrPing ==
  /\ rfrRadio = "slow" /\ rfrStatus # "wait"
  /\ rfrStatus' = "sync" /\ rfrReceiving' = FALSE
  /\ UNCHANGED RfrMain

(* Any edge while a packet is waited for, be it a packet's or not. *)
RfrEdge ==
  /\ rfrStatus = "wait"
  /\ rfrStatus' = "data"
  /\ UNCHANGED <<rfrReceiving, RfrMain>>

RfrInterrupt == RfrTelegram \/ RfrPing \/ RfrEdge

-----------------------------------------------------------------------------
(* rf_router_task *)
RfrRest == <<rfrOut, rfrTimer, rfrTicked, rfrReceiving>>

(* RF_ROUTER_SYNC_RCVD *)
RfrListens ==
  /\ ~rfrClosing /\ rfrStatus = "sync"
  /\ rfrRadio' = "fast"
  /\ rfrStatus' = "wait"
  /\ rfrAge' = 0
  /\ UNCHANGED <<rfrClosing, RfrRest>>

(* Mutant: the packet is waited for until it comes. *)
RfrDoneOnly == rfrStatus = "data"

RfrDone == rfrStatus = "data" \/ (rfrStatus = "wait" /\ rfrAge > RfrWait)

(* RF_ROUTER_GOT_DATA, or no packet in time: set_txrestore ...             *)
RfrRestores ==
  /\ ~rfrClosing /\ RfrDone
  /\ rfrRadio' = "slow"
  /\ rfrClosing' = TRUE
  /\ UNCHANGED <<rfrStatus, rfrAge, RfrRest>>

(* ... and the status, whatever an interrupt has made of it.               *)
RfrCloses ==
  /\ rfrClosing
  /\ rfrStatus' = "inactive"
  /\ rfrClosing' = FALSE
  /\ UNCHANGED <<rfrAge, rfrRadio, RfrRest>>

RfrTask == RfrListens \/ RfrRestores \/ RfrCloses

RfrNext == RfrDisplays \/ RfrUser \/ RfrTick \/ RfrMinute \/ RfrInterrupt \/ RfrTask

(* The main loop calls the task in every round: some poll finds the wait   *)
(* over although the byte wraps and Minute_Task may send in between.       *)
RfrSpec ==
  /\ RfrInit /\ [][RfrNext]_rfrVars
  /\ WF_rfrVars(RfrTick) /\ SF_rfrVars(RfrTask)
-----------------------------------------------------------------------------
RfrTypeOK ==
  /\ RFR_Buffer \in Seq(RfrMessage) /\ rfrShown \in Seq(RfrMessage) /\ rfrBytes \in 0 .. RfrRoom
  /\ rfrFull \in BOOLEAN /\ rfrReceiving \in BOOLEAN /\ rfrTicked \in BOOLEAN
  /\ rf_router_sendtime \in 0 .. RfrDelay /\ rf_nr_send_checks \in 0 .. 2
  /\ (rf_router_sendtime = 0) <=> (rf_nr_send_checks = 0)
  /\ rfrStatus \in {"inactive", "sync", "wait", "data"}
  /\ rfrAge \in 0 .. RfrTicks - 1 /\ rfrRadio \in {"slow", "fast"}
  /\ rfrClosing \in BOOLEAN

(* A thermostat's message that the first line, of a window sensor whose   *)
(* address begins with the house code, puts behind any other: only two     *)
(* lines after it, and with all that follow of that thermostat.            *)
RfrStray(i) ==
  /\ i \in 3 .. Len(rfrShown) /\ rfrShown[i].kind = "fht"
  /\ rfrShown[1].kind = "tf" /\ rfrShown[1].code = rfrShown[i].code

RfrUntold(i) == RfrStray(i) \/ (rfrShown[i].kind # "fht" /\ RfrStray(i + 1))

(* What is gathered has the command of every message displayed since the   *)
(* last packet, in order, unless it did not fit, and under its own prefix  *)
(* and house code although FHT_compress has rewritten it, but for strays   *)
(* and the lines they break (docs/commandref.html:853 "all received        *)
(* messages (FS20/FHT/etc) are relayed", display.c:58 "compress only       *)
(* messages from the same FHT"); and as long as something is gathered      *)
(* another check is due, whatever is received and sent meanwhile.          *)
RfrTellsAll ==
  /\ ~rfrFull =>
       /\ Len(RFR_Buffer) = Len(rfrShown)
       /\ \A i \in 1 .. Len(rfrShown) :
            /\ RFR_Buffer[i].command = rfrShown[i].command
            /\ \/ RfrUntold(i)
               \/ /\ RFR_Buffer[i].kind = rfrShown[i].kind
                  /\ RFR_Buffer[i].code = rfrShown[i].code
  /\ RFR_Buffer # << >> => rf_router_sendtime # 0

(* The stick always receives SlowRF again, whatever interrupts and sends   *)
(* come between the steps of the task, and whether the packet comes or not.*)
RfrGoesOn == []<>(rfrRadio = "slow" /\ rfrStatus # "wait")
=============================================================================
