------------------------------ MODULE Console -------------------------------
(***************************************************************************)
(* The console of a USB stick: CDC_Task (clib/cdc.c) moves what the host   *)
(* sends into TTY_Rx_Buffer and calls analyze_ttydata (clib/ttydata.c),    *)
(* which collects lines and runs them as commands.  Everything that        *)
(* displays something - a command, or the report of a telegram - calls     *)
(* CDC_Task in turn (display_char), when TTY_Tx_Buffer is full and after   *)
(* each line.  The RF router (rf_router_task of clib/rf_router.c) uses     *)
(* TTY_Rx_Buffer and analyze_ttydata for the packets it receives.          *)
(*                                                                         *)
(* The calls are a stack of frames.  A character is the number of the      *)
(* line of the host it belongs to, or ConRf for the router's, and whether  *)
(* it ends the line.  TTY_Rx_Buffer is the bounded queue RingBuffer shows  *)
(* it is; what finds it full is lost, and so are the characters of a line  *)
(* that cmdbuf has no room for.                                            *)
(***************************************************************************)
EXTENDS Naturals, Sequences

CONSTANTS
  ConLetters,    (* Characters of a line before its end.                   *)
  ConLines,      (* Bound: lines the host sends.                           *)
  ConBank,       (* USB_BUFSIZE, characters in one packet of the endpoint. *)
  ConRoom,       (* TTY_BUFSIZE, the room of both rings and of cmdbuf.     *)
  ConHeader,     (* 4, characters a packet for the router begins with.     *)
  ConOutput,     (* Lengths of what a command displays.                    *)
  ConReport,     (* Length of the report of a telegram.                    *)
  ConPackets     (* Bound: packets for the router.                         *)

ASSUME ConAssumption ==
  /\ ConLetters \in Nat \ {0} /\ ConLines \in Nat /\ ConBank \in Nat \ {0}
  /\ ConRoom \in Nat /\ ConHeader \in Nat \ {0} /\ ConHeader < ConRoom
  /\ ConOutput \subseteq Nat /\ ConReport \in Nat
  /\ ConPackets \in Nat

VARIABLES
  conHost,       (* Characters the host has sent so far.                   *)
  conEndpoint,   (* The packet waiting in the endpoint, or empty.          *)
  conRx, conTx,  (* TTY_Rx_Buffer; how full TTY_Tx_Buffer is.              *)
  cmdbuf,        (* The first cmdlen characters of cmdbuf.                 *)
  inCDC_TASK,
  conStack,      (* Frames, the innermost first.                           *)
  conRf,         (* Packets the router has received.                       *)
  conRan,        (* History: the last line that was run; what cmdbuf held  *)
  conLine,       (* then, unless it was spoilt;                            *)
  conSpoilt      (* "ring" if a packet of the router met characters of the *)
                 (* host or found some lost in a full ring, "line" when    *)
                 (* those in the ring are used up, "no" behind the next    *)
                 (* end of a line.                                         *)

conVars == <<conHost, conEndpoint, conRx, conTx, cmdbuf, inCDC_TASK, conStack,
             conRf, conRan, conLine, conSpoilt>>

ConRf == 0
ConChar(i) == [line |-> 1 + (i - 1) \div (ConLetters + 1),
               end  |-> i % (ConLetters + 1) = 0]

(* What there is room for of n characters; what a ring holds after rb_put  *)
(* of some; what cmdbuf holds of a line, and of a packet that was run.     *)
ConCut(n) == IF n < ConRoom THEN n ELSE ConRoom
ConPuts(ring, chars) == SubSeq(ring \o chars, 1, ConCut(Len(ring) + Len(chars)))

ConText(line) == [i \in 1 .. ConCut(ConLetters) |-> line]
ConRfLetters == ConCut(ConHeader + ConLetters) - ConHeader
ConRfText == [i \in 1 .. ConRfLetters |-> ConRf]

(* A frame displays out characters, the last one a newline, or one         *)
(* character of a packet; full says that CDC_Task was already called for   *)
(* the next one.                                                           *)
ConFrame(kind, out) == [kind |-> kind, out |-> out, full |-> FALSE]

ConInit ==
  /\ conHost = 0 /\ conEndpoint = << >>
  /\ conRx = << >> /\ conTx = 0
  /\ cmdbuf = << >>
  /\ inCDC_TASK = FALSE
  /\ conStack = << >>
  /\ conRf = 0 /\ conRan = 0 /\ conLine = << >> /\ conSpoilt = "no"

(* The host fills the endpoint with the next characters of its lines. *)
ConHostSends ==
  /\ conEndpoint = << >>
  /\ \E n \in 1 .. ConBank :
       /\ conHost + n <= ConLines * (ConLetters + 1)
       /\ conHost' = conHost + n
       /\ conEndpoint' = [i \in 1 .. n |-> ConChar(conHost + i)]
  /\ UNCHANGED <<conRx, conTx, cmdbuf, inCDC_TASK, conStack, conRf, conRan,
                 conLine, conSpoilt>>

(* Is a packet of the router being displayed or run? *)
ConRoutes(stack) == \E i \in DOMAIN stack : stack[i].kind \in {"show", "router"}
ConRouting == ConRoutes(conStack)

(* History: the ring is empty, and below are the calls that go on. *)
ConSettles(below) ==
  conSpoilt' = IF conSpoilt = "ring" /\ ~ConRoutes(below) THEN "line" ELSE conSpoilt

(* Mutant: without inCDC_TASK. *)
ConReadsAlways == conEndpoint # << >>

(* CDC_Task reads only when it is not called from within itself. *)
ConReads == ~inCDC_TASK /\ conEndpoint # << >>

ConLoses == Len(conRx) + Len(conEndpoint) > ConRoom

(* CDC_Task, called with the stack in the state stack.  The endpoint for   *)
(* the data out may still be full.                                         *)
CDC_Task(stack, tx) ==
  \/ /\ ConReads
     /\ conRx' = ConPuts(conRx, conEndpoint)
     /\ conEndpoint' = << >>
     /\ inCDC_TASK' = TRUE
     /\ conStack' = <<ConFrame("usb", 0)>> \o stack
     /\ conTx' = tx
     /\ conSpoilt' = IF ConRouting \/ ConLoses THEN "ring" ELSE conSpoilt
  \/ /\ ~ConReads
     /\ conStack' = stack
     /\ conTx' \in {tx, 0}
     /\ UNCHANGED <<conRx, conEndpoint, inCDC_TASK, conSpoilt>>

ConMainLoop ==
  /\ conStack = << >>
  /\ CDC_Task(<< >>, conTx)
  /\ UNCHANGED <<conHost, cmdbuf, conRf, conRan, conLine>>

(* RfAnalyze_Task has a telegram to report. *)
ConTelegram ==
  /\ conStack = << >>
  /\ conStack' = <<ConFrame("report", ConReport)>>
  /\ UNCHANGED <<conHost, conEndpoint, conRx, conTx, cmdbuf, inCDC_TASK, conRf,
                 conRan, conLine, conSpoilt>>

(* rf_router_task with RF_ROUTER_GOT_DATA: rb_reset, then a packet to      *)
(* display ('U'), or a command to run, without the header and with a       *)
(* newline.                                                                *)
ConPacket == [i \in 1 .. ConHeader + ConLetters |-> [line |-> ConRf, end |-> FALSE]]

rf_router_task ==
  LET held == ConPuts(<< >>, ConPacket) IN
  /\ conStack = << >>
  /\ conRf < ConPackets
  /\ conRf' = conRf + 1
  /\ \E kind \in {"show", "router"} :
       /\ conStack' = <<ConFrame(kind, 0)>>
       /\ conRx' = IF kind = "show" THEN held
                   ELSE ConPuts(SubSeq(held, ConHeader + 1, Len(held)),
                                <<[line |-> ConRf, end |-> TRUE]>>)
       /\ conSpoilt' = IF conSpoilt # "no" \/ (kind = "router" /\ cmdbuf # << >>)
                       THEN "ring" ELSE "no"
  /\ UNCHANGED <<conHost, conEndpoint, conTx, cmdbuf, inCDC_TASK, conRan, conLine>>

(* analyze_ttydata: one character. *)
ConTop == conStack[1]
ConBelow == Tail(conStack)

(* History: a line ends that was collected, or not if it was spoilt. *)
ConHasRun(line) ==
  IF conSpoilt = "no"
    THEN /\ conLine' = cmdbuf
         /\ conRan' = conRan + (IF line = ConRf THEN 0 ELSE 1)
         /\ UNCHANGED conSpoilt
    ELSE /\ conLine' = << >>
         /\ conRan' = IF line = ConRf THEN conRan ELSE line
         /\ conSpoilt' = IF conSpoilt = "line" THEN "no" ELSE "ring"

(* The end of a line.  An empty one is nothing to run. *)
ConEnds(line) ==
  /\ \/ /\ cmdbuf # << >>
        /\ \E n \in ConOutput : conStack' = <<ConFrame("command", n)>> \o conStack
        /\ ConHasRun(line)
     \/ /\ cmdbuf = << >>
        /\ IF conSpoilt = "no" THEN UNCHANGED <<conRan, conLine, conSpoilt>>
                               ELSE ConHasRun(line)
        /\ UNCHANGED conStack
  /\ UNCHANGED cmdbuf

ConCollects(line) ==
  cmdbuf' = IF Len(cmdbuf) < ConRoom THEN Append(cmdbuf, line) ELSE cmdbuf

ConGets ==
  /\ conRx' = Tail(conRx)
  /\ \/ Head(conRx).end /\ ConEnds(Head(conRx).line)
     \/ /\ ~Head(conRx).end
        /\ ConCollects(Head(conRx).line)
        /\ UNCHANGED <<conStack, conRan, conLine, conSpoilt>>

(* Mutant: inCDC_TASK is not reset. *)
ConStaysInCDC == UNCHANGED inCDC_TASK

ConLeavesCDC == inCDC_TASK' = (ConTop.kind # "usb" /\ inCDC_TASK)

(* The loop of analyze_ttydata; from the USB it returns into CDC_Task,     *)
(* which goes on with the data out.                                        *)
analyze_ttydata ==
  /\ conStack # << >> /\ ConTop.kind \in {"usb", "router"}
  /\ IF conRx # << >>
       THEN ConGets /\ UNCHANGED <<inCDC_TASK, conTx>>
       ELSE /\ conStack' = ConBelow
            /\ ConLeavesCDC
            /\ ConSettles(ConBelow)
            /\ conTx' \in {conTx} \union (IF ConTop.kind = "usb" THEN {0} ELSE {})
            /\ UNCHANGED <<conRx, cmdbuf, conRan, conLine>>
  /\ UNCHANGED <<conHost, conEndpoint, conRf>>

(* Back in analyze_ttydata: cmdlen = 0. *)
ConReturn ==
  /\ conStack # << >> /\ ConTop.kind \in {"command", "report"} /\ ConTop.out = 0
  /\ conStack' = ConBelow
  /\ cmdbuf' = IF ConTop.kind = "command" THEN << >> ELSE cmdbuf
  /\ UNCHANGED <<conHost, conEndpoint, conRx, conTx, inCDC_TASK, conRf, conRan,
                 conLine, conSpoilt>>

(* display_char with more room to make, and then with the character. *)
ConFull == conTx = ConRoom /\ ~ConTop.full

ConPut == IF conTx < ConRoom THEN conTx + 1 ELSE conTx

display_char ==
  /\ conStack # << >> /\ ConTop.out > 0
  /\ IF ConFull
       THEN CDC_Task(<<[ConTop EXCEPT !.full = TRUE]>> \o ConBelow, conTx)
       ELSE LET rest == <<ConFrame(ConTop.kind, ConTop.out - 1)>> \o ConBelow
            IN IF ConTop.out = 1 /\ ConTop.kind # "show"
               THEN CDC_Task(rest, ConPut)
               ELSE /\ conTx' = ConPut
                    /\ conStack' = rest
                    /\ UNCHANGED <<conRx, conEndpoint, inCDC_TASK, conSpoilt>>
  /\ UNCHANGED <<conHost, cmdbuf, conRf, conRan, conLine>>

(* The loop of rf_router_task that displays a packet: rb_get and DC until  *)
(* the ring is empty, then DNL.                                            *)
ConShow ==
  /\ conStack # << >> /\ ConTop.kind = "show" /\ ConTop.out = 0
  /\ IF conRx # << >>
       THEN /\ conRx' = Tail(conRx)
            /\ conStack' = <<ConFrame("show", 1)>> \o ConBelow
            /\ UNCHANGED conSpoilt
       ELSE /\ conStack' = <<ConFrame("report", 1)>> \o ConBelow
            /\ ConSettles(ConBelow)
            /\ UNCHANGED conRx
  /\ UNCHANGED <<conHost, conEndpoint, conTx, cmdbuf, inCDC_TASK, conRf, conRan,
                 conLine>>

ConProcess == analyze_ttydata \/ ConReturn \/ display_char \/ ConShow

ConNext ==
  ConHostSends \/ ConMainLoop \/ ConTelegram \/ rf_router_task \/ ConProcess

(* The main loop comes back to CDC_Task, and every call returns. *)
ConFairness == WF_conVars(ConMainLoop) /\ WF_conVars(ConProcess)

ConSpec == ConInit /\ [][ConNext]_conVars /\ ConFairness
-----------------------------------------------------------------------------
(* Type invariant; nothing outgrows its buffer, and the deepest stack is a *)
(* command of the host inside a command of the router.                     *)
ConTypeOK ==
  LET Char == [line : 0 .. ConLines + 1, end : BOOLEAN] IN
  /\ conHost \in 0 .. ConLines * (ConLetters + 1)
  /\ conEndpoint \in Seq(Char) /\ conRx \in Seq(Char) /\ cmdbuf \in Seq(Nat)
  /\ Len(conRx) <= ConRoom /\ Len(cmdbuf) <= ConRoom
  /\ conTx \in 0 .. ConRoom /\ inCDC_TASK \in BOOLEAN
  /\ \A i \in DOMAIN conStack :
       conStack[i] \in [kind : {"usb", "router", "show", "command", "report"},
                        out : Nat, full : BOOLEAN]
  /\ Len(conStack) <= 4
  /\ conRf \in 0 .. ConPackets /\ conRan \in Nat /\ conSpoilt \in {"no", "line", "ring"}

(* What is run is a line of the host, up to the characters that cmdbuf has *)
(* room for, each one once and in order, or a packet of the router,        *)
(* although any display in between calls CDC_Task again and cmdbuf and its *)
(* length are shared by all callers.  A packet of the router that meets    *)
(* characters of the host, in cmdbuf or in TTY_Rx_Buffer, and a ring too   *)
(* small for what is read into it (cdc.c:105 "Discard data on buffer       *)
(* full") spoil the lines up to the first end of a line behind them, and   *)
(* none after that.                                                        *)
ConRunsEachLine == conLine \in {<< >>, ConText(conRan), ConRfText}

(* Every line the host sends is run in the end, whatever is displayed: the *)
(* console comes back to having run the last one, for ever, unless it was  *)
(* spoilt.                                                                 *)
ConEveryLineRuns ==
  []<>(conRan = conHost \div (ConLetters + 1) \/ conSpoilt # "no")
=============================================================================
