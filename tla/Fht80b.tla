------------------------------- MODULE Fht80b -------------------------------
(***************************************************************************)
(* The FHT 80b part of clib/fht.c: messages of the host (T) wait in a byte *)
(* buffer until the thermostat they are for makes contact; fht_hook then   *)
(* leads the conversation, one answer per received frame, and a timer the  *)
(* clock interrupt counts down repeats an unanswered packet once and gives *)
(* the conversation up.                                                    *)
(*                                                                         *)
(* The main loop handles frames and the due timer.  While it prints what   *)
(* it sent it polls the USB, so that a T command may run in the middle of  *)
(* fht_hook or fht80b_timer.  Thermostats, radio and the queue of received *)
(* telegrams are external.  FHT_MINUTE's value, filled in when it is sent, *)
(* is left out.                                                            *)
(***************************************************************************)
EXTENDS Integers, Sequences, SequencesExt, FiniteSetsExt

CONSTANTS
  FHTBUF_SIZE,
  Fht,        (* The thermostats, by their house code, a pair of bytes.    *)
  Zentrale,   (* The house code each is paired with, 100 if with none.     *)
  HouseCode,  (* What T01 may set; 0 switches the FHT processing off.      *)
  Message,    (* What T may queue: house code and commands with values.    *)
  Report,     (* What a thermostat reports by itself: a command, and       *)
              (* whether it asks for an answer.                            *)
  Waiting     (* Received telegrams that may wait for the main loop.       *)

FHT_ACTUATOR   == 0
FHT_ACK        == 75
FHT_CAN_XMIT   == 83
FHT_CAN_RCV    == 84
FHT_ACK2       == 105
FHT_START_XMIT == 125
FHT_END_XMIT   == 126
FHT_DATA       == 255
FHT_FOREIGN    == 255
Keine          == 100  (* The house code of a thermostat paired with none.  *)

ASSUME SizeAssumption    == FHTBUF_SIZE \in Nat /\ FHTBUF_SIZE > 2
ASSUME FhtAssumption     == Fht \subseteq Nat \X Nat /\ Zentrale \in [Fht -> Nat \ {0}]
ASSUME MessageAssumption ==
  \A m \in Message : Len(m) >= 4 /\ Len(m) % 2 = 0 /\ SubSeq(m, 1, 2) \in Fht
                     /\ m \in Seq(Nat) /\ m[3] # 0
ASSUME HouseAssumption   == HouseCode \subseteq Nat /\ HouseCode # {}
ASSUME WaitingAssumption == Waiting \in Nat \ {0}

VARIABLES
  fht_hc,            (* Our house code, 0 if switched off.                 *)
  fht80b_timeout,    (* "aus" (FHT_TIMER_DISABLED), "laeuft", or "faellig" (0). *)
  fht80b_state, fht80b_ldata, fht80b_bufoff,
  fht80b_out,        (* The last packet: house code, command, kind, value. *)
  fht80b_repeatcnt,
  fht80b_buf,
  pc,                (* "frei", or what continues after fht80b_sendpacket: *)
                     (* "hook" (fht80b_send_repeated) or "timer".          *)
  verpasst,          (* History: the timer was lost since it was last set. *)
  gesendet,          (* History: the packet last sent for a frame.         *)
  received,          (* External: telegrams that wait for the main loop.   *)
  phase, got         (* External: each thermostat's part, and the commands *)
                     (* it took since START_XMIT.                          *)

conv    == <<fht80b_state, fht80b_ldata, fht80b_bufoff>>
timer   == <<fht80b_timeout, verpasst>>
outside == <<phase, got>>
vars == <<fht_hc, timer, conv, fht80b_out, fht80b_repeatcnt, fht80b_buf, pc, gesendet,
          received, outside>>

Offset == 0 .. FHTBUF_SIZE - 1

Init ==
  /\ fht_hc \in HouseCode
  /\ fht80b_timeout = "aus" /\ verpasst = FALSE
  /\ fht80b_state = 0 /\ fht80b_ldata = 0 /\ fht80b_bufoff = 3
  /\ fht80b_out = [hc |-> <<0, 0>>, cmd |-> 0, kind |-> "fht", arg |-> 0]
  /\ gesendet = fht80b_out
  /\ fht80b_repeatcnt = 0
  /\ fht80b_buf = [i \in Offset |-> 0]
  /\ pc = "frei"
  /\ received = << >>
  /\ phase = [d \in Fht |-> "ruhe"] /\ got = [d \in Fht |-> {}]
-----------------------------------------------------------------------------
(* The buffer: length, house code, commands and values; a 0 ends it.       *)

Beyond(p) == IF p > FHTBUF_SIZE THEN FHTBUF_SIZE ELSE p

fht_freebuf ==
  LET look[p \in 0 .. FHTBUF_SIZE] ==
        IF p < FHTBUF_SIZE /\ fht80b_buf[p] # 0 THEN look[Beyond(p + fht80b_buf[p])] ELSE p
  IN look[0]

fht_lookbuf(hc) ==
  LET look[p \in 0 .. FHTBUF_SIZE] ==
        IF p = FHTBUF_SIZE \/ fht80b_buf[p] = 0 THEN FHTBUF_SIZE
        ELSE IF <<fht80b_buf[p + 1], fht80b_buf[p + 2]>> = hc THEN p
        ELSE look[Beyond(p + fht80b_buf[p])]
  IN look[0]

(* The command at bufoff of the first message for hc: none, or one. *)
fht_getbuf(hc, bufoff) ==
  LET p == fht_lookbuf(hc)
  IN IF p = FHTBUF_SIZE \/ fht80b_buf[p] <= bufoff THEN {}
     ELSE {[hc |-> hc, cmd |-> fht80b_buf[p + bufoff], kind |-> "data",
            arg |-> fht80b_buf[p + bufoff + 1]]}

fht_addbuf_full(m) ==                                             (* mutant *)
  LET p == fht_freebuf
      l == Len(m) + 1
  IN IF p + l > FHTBUF_SIZE THEN fht80b_buf
     ELSE [i \in Offset |-> IF i = p THEN l
                            ELSE IF i \in p + 1 .. p + l - 1 THEN m[i - p]
                            ELSE IF i = p + l THEN 0 ELSE fht80b_buf[i]]

fht_addbuf(m) ==
  LET p == fht_freebuf
      l == Len(m) + 1
  IN IF p + l >= FHTBUF_SIZE THEN fht80b_buf
     ELSE [i \in Offset |-> IF i = p THEN l
                            ELSE IF i \in p + 1 .. p + l - 1 THEN m[i - p]
                            ELSE IF i = p + l THEN 0 ELSE fht80b_buf[i]]

fht_delbuf(hc) ==
  LET p   == fht_lookbuf(hc)
      sz  == fht80b_buf[p]
      lim == FHTBUF_SIZE - sz
  IN IF p = FHTBUF_SIZE THEN fht80b_buf
     ELSE [i \in Offset |-> IF i \in p .. lim - 1 THEN fht80b_buf[i + sz]
                            ELSE IF i = (IF p < lim THEN lim ELSE p) THEN 0 ELSE fht80b_buf[i]]
-----------------------------------------------------------------------------
(* Timer and conversation state. *)

Stellen  == fht80b_timeout' = "laeuft" /\ verpasst' = FALSE
Abstellen == fht80b_timeout' = "aus" /\ verpasst' = FALSE

Talking(st, ld, off) ==
  fht80b_state' = st /\ fht80b_ldata' = ld /\ fht80b_bufoff' = off

ResetKeepsOffset ==                                               (* mutant *)
  fht80b_state' = 0 /\ fht80b_ldata' = 0 /\ UNCHANGED fht80b_bufoff /\ Abstellen

fht80b_reset_state == Talking(0, 0, 3) /\ Abstellen

(* External: a frame that is received joins those that wait. *)
Frame(d, cmd, ask) == [hc |-> d, cmd |-> cmd, ask |-> ask, arg |-> Zentrale[d]]
Joins(waiting, f)  == Len(waiting) < Waiting /\ received' = Append(waiting, f)

(* External: the thermostat that hears the packet answers it; the answer,  *)
(* too, may be lost.                                                       *)
Antwort(p, waiting) ==
  LET d == p.hc
      hears(ph, g) == /\ phase' = [phase EXCEPT ![d] = ph] /\ got' = [got EXCEPT ![d] = g]
                      /\ Joins(waiting, Frame(d, p.cmd, TRUE)) \/ received' = waiting
  IN
  /\ Zentrale[d] \in {fht_hc, Keine}
  /\ \/ p.cmd = FHT_CAN_XMIT /\ p.kind = "prot" /\ phase[d] = "ruhe" /\ hears("bereit", got[d])
     \/ /\ p.cmd = FHT_START_XMIT /\ p.kind = "prot" /\ phase[d] \in {"bereit", "empfang"}
        /\ hears("empfang", {})
     \/ p.kind = "data" /\ phase[d] = "empfang" /\ hears("empfang", got[d] \cup {<<p.cmd, p.arg>>})
     \/ /\ p.cmd \in {FHT_ACK, FHT_END_XMIT} /\ p.kind = "prot" /\ phase[d] = "empfang"
        /\ hears("empfang", got[d])

(* The packet is heard and answered, or it is lost or not sent for want of *)
(* air time.  The radio hears nothing meanwhile.                           *)
fht80b_sendpacket(p, waiting) ==
  \/ p.hc \in Fht /\ Antwort(p, waiting)
  \/ received' = waiting /\ UNCHANGED outside

send_repeated_plain ==                                            (* mutant *)
  /\ pc = "hook"
  /\ fht80b_repeatcnt' = 1
  /\ pc' = "frei"
  /\ UNCHANGED <<fht_hc, timer, conv, fht80b_out, fht80b_buf, gesendet, received, outside>>

(* fht80b_send_repeated after the packet is out. *)
fht80b_send_repeated ==
  /\ pc = "hook"
  /\ IF fht80b_out.cmd = FHT_ACK2 THEN UNCHANGED <<timer, fht80b_repeatcnt>>
     ELSE fht80b_repeatcnt' = 1 /\ Stellen
  /\ pc' = "frei"
  /\ UNCHANGED <<fht_hc, conv, fht80b_out, fht80b_buf, gesendet, received, outside>>

(* Minute_Task sees the timer at 0: fht80b_timer, and its end after the    *)
(* packet is out.                                                          *)
fht80b_timer ==
  /\ pc = "frei" /\ fht80b_timeout = "faellig"
  /\ IF fht80b_repeatcnt # 0
     THEN fht80b_sendpacket(fht80b_out, received) /\ pc' = "timer" /\ UNCHANGED <<timer, conv>>
     ELSE fht80b_reset_state /\ UNCHANGED <<pc, received, outside>>
  /\ UNCHANGED <<fht_hc, fht80b_out, fht80b_repeatcnt, fht80b_buf, gesendet>>

TimerForEver ==                                                   (* mutant *)
  /\ pc = "timer"
  /\ Stellen
  /\ pc' = "frei"
  /\ UNCHANGED <<fht_hc, conv, fht80b_out, fht80b_repeatcnt, fht80b_buf, gesendet, received, outside>>

TimerEnds ==
  /\ pc = "timer"
  /\ Stellen
  /\ fht80b_repeatcnt' = fht80b_repeatcnt - 1
  /\ pc' = "frei"
  /\ UNCHANGED <<fht_hc, conv, fht80b_out, fht80b_buf, gesendet, received, outside>>

(* The clock interrupt: the timer reaches 0, and when the main loop has    *)
(* not come round by the next tick it is decremented to 255, disabled.     *)
Tick ==
  /\ \/ fht80b_timeout = "laeuft" /\ fht80b_timeout' = "faellig" /\ UNCHANGED verpasst
     \/ fht80b_timeout = "faellig" /\ fht80b_timeout' = "aus" /\ verpasst' = TRUE
  /\ UNCHANGED <<fht_hc, conv, fht80b_out, fht80b_repeatcnt, fht80b_buf, pc, gesendet, received, outside>>
-----------------------------------------------------------------------------
(* A received frame. *)

(* fht80b_state_tbl: what the thermostat has to send in a state, and what  *)
(* the CUL answers.                                                        *)
Row(st) == st \div 2 + 1
Expected(st) == <<FHT_ACTUATOR, FHT_CAN_XMIT, FHT_CAN_RCV, FHT_START_XMIT,
                  FHT_DATA, FHT_ACK, FHT_END_XMIT>>[Row(st)]
Answer(st)   == <<FHT_CAN_XMIT, 0, FHT_START_XMIT, FHT_DATA, FHT_ACK, FHT_END_XMIT, 0>>[Row(st)]
TableSize == 14

(* The conversation a frame belongs to: that of another thermostat is over. *)
Conversation(f) ==
  IF fht80b_out.hc = f.hc THEN [st |-> fht80b_state, ld |-> fht80b_ldata, off |-> fht80b_bufoff]
  ELSE [st |-> 0, ld |-> 0, off |-> 3]

Keep(c)     == Talking(c.st, c.ld, c.off)
TimerFor(f) == IF fht80b_out.hc = f.hc THEN Stellen ELSE Abstellen
Copy(f)     == [hc |-> f.hc, cmd |-> f.cmd, kind |-> IF f.ask THEN "ask" ELSE "fht", arg |-> f.arg]
NoAnswer    == received' = Tail(received) /\ UNCHANGED <<gesendet, pc, outside>>
Answering(p) == fht80b_sendpacket(p, Tail(received)) /\ gesendet' = p /\ pc' = "hook"

SwitchedOff(f) ==
  /\ fht_hc = 0
  /\ Stellen /\ UNCHANGED <<conv, fht80b_out, fht80b_buf>> /\ NoAnswer

ForeignTalks(f) ==
  LET c == Conversation(f)
  IN /\ fht_hc # 0 /\ c.st = FHT_FOREIGN
     /\ Keep(c) /\ TimerFor(f) /\ UNCHANGED <<fht80b_out, fht80b_buf>> /\ NoAnswer

Foreign(f) ==
  f.arg \notin {fht_hc, Keine} /\ f.cmd \in {FHT_CAN_XMIT, FHT_CAN_RCV, FHT_START_XMIT}

(* FHT->CUL part: ack everything. *)
AckEverything(f) ==
  LET c    == Conversation(f)
      echo == [Copy(f) EXCEPT !.kind = "echo"]
  IN /\ fht_hc # 0 /\ c.st = 0 /\ f.cmd # 0
     /\ TimerFor(f) /\ UNCHANGED fht80b_buf
     /\ \/ /\ Foreign(f)
           /\ Talking(FHT_FOREIGN, c.ld, c.off) /\ fht80b_out' = Copy(f) /\ NoAnswer
        \/ /\ ~Foreign(f) /\ (f.cmd = FHT_CAN_RCV \/ ~f.ask)
           /\ Keep(c) /\ fht80b_out' = Copy(f) /\ NoAnswer
        \/ /\ ~Foreign(f) /\ f.cmd # FHT_CAN_RCV /\ f.ask
           /\ Keep(c) /\ fht80b_out' = echo /\ Answering(echo)

(* "Ack-Check: correct ack from the FHT?" *)
AckCheck(f, expected) == expected = f.cmd

ProceedKeepsData(f, st, off) ==                                   (* mutant *)
  LET p == [hc |-> f.hc, cmd |-> Answer(st), kind |-> "prot", arg |-> fht_hc]
  IN /\ fht80b_out' = p
     /\ IF st + 2 = TableSize
        THEN fht80b_reset_state /\ fht80b_buf' = fht_delbuf(f.hc)
        ELSE Talking(st + 2, fht80b_ldata, off) /\ TimerFor(f) /\ UNCHANGED fht80b_buf
     /\ IF Answer(st) = 0 THEN NoAnswer ELSE Answering(p)

(* Follow the protocol table from row st; at its end the message is done.  *)
Proceed(f, st, off) ==
  LET p == [hc |-> f.hc, cmd |-> Answer(st), kind |-> "prot", arg |-> fht_hc]
  IN /\ fht80b_out' = p
     /\ IF st + 2 = TableSize
        THEN fht80b_reset_state /\ fht80b_buf' = fht_delbuf(f.hc)
        ELSE Talking(st + 2, 0, off) /\ TimerFor(f) /\ UNCHANGED fht80b_buf
     /\ IF Answer(st) = 0 THEN NoAnswer ELSE Answering(p)

SendData(f, st, off, p) ==
  /\ fht80b_out' = p /\ Talking(st, p.cmd, off) /\ TimerFor(f)
  /\ UNCHANGED fht80b_buf /\ Answering(p)

(* CUL->FHT part. *)
Converse(f) ==
  LET c       == Conversation(f)
      first   == fht_getbuf(f.hc, c.off)
      waited  == IF c.ld # 0 THEN c.ld ELSE Expected(c.st)
      skipped == waited = FHT_CAN_XMIT /\ f.cmd = FHT_CAN_RCV
      asked   == IF skipped THEN FHT_CAN_RCV ELSE waited
      st      == IF skipped THEN c.st + 2 ELSE c.st
      off     == IF c.ld # 0 THEN c.off + 2 ELSE c.off
      next    == fht_getbuf(f.hc, off)
      OrCopy(packet) == IF packet = {} THEN {Copy(f)} ELSE packet
      Some    == first # {} \/ c.st # 0
  IN /\ fht_hc # 0 /\ c.st # FHT_FOREIGN /\ (f.cmd = 0 \/ c.st # 0)
     /\ \/ /\ ~Some
           /\ Keep(c) /\ TimerFor(f) /\ fht80b_out' = Copy(f) /\ UNCHANGED fht80b_buf /\ NoAnswer
        \/ /\ Some /\ ~AckCheck(f, asked)
           /\ fht80b_reset_state /\ fht80b_out' \in OrCopy(first)
           /\ UNCHANGED fht80b_buf /\ NoAnswer
        \/ /\ Some /\ AckCheck(f, asked)
           /\ \/ c.ld # 0 /\ next = {} /\ Proceed(f, st + 2, off)
              \/ /\ IF c.ld # 0 THEN next # {} ELSE Answer(st) = FHT_DATA
                 /\ \E p \in OrCopy(next) : SendData(f, st, off, p)
              \/ c.ld = 0 /\ Answer(st) # FHT_DATA /\ Proceed(f, st, off)

HookRepeats ==                                                    (* mutant *)
  UNCHANGED fht80b_repeatcnt

NoRepeat == fht80b_repeatcnt' = 0

fht_hook ==
  /\ pc = "frei" /\ received # << >>
  /\ NoRepeat
  /\ LET f == Head(received)
     IN SwitchedOff(f) \/ ForeignTalks(f) \/ AckEverything(f) \/ Converse(f)
  /\ UNCHANGED fht_hc
-----------------------------------------------------------------------------
(* The host: T with a message, or with a house code. *)

fhtsend(m) ==
  /\ fht80b_buf' = fht_addbuf(m)
  /\ UNCHANGED <<fht_hc, timer, conv, fht80b_out, fht80b_repeatcnt, pc, gesendet, received, outside>>

T01(hc) ==
  /\ fht_hc' = hc
  /\ fht80b_reset_state
  /\ fht80b_buf' = [fht80b_buf EXCEPT ![0] = 0]
  /\ UNCHANGED <<fht80b_out, fht80b_repeatcnt, pc, gesendet, received, outside>>
-----------------------------------------------------------------------------
(* External: the thermostats. *)

Inside == <<fht_hc, timer, conv, fht80b_out, fht80b_repeatcnt, fht80b_buf, pc, gesendet>>

(* A thermostat makes contact, wants its messages, reports a value, or     *)
(* talks to a house code that is not ours.                                 *)
Thermostat(d) ==
  /\ \/ phase[d] = "ruhe" /\ Joins(received, Frame(d, FHT_ACTUATOR, FALSE))
     \/ phase[d] = "bereit" /\ Joins(received, Frame(d, FHT_CAN_RCV, TRUE))
     \/ phase[d] = "ruhe" /\ \E r \in Report : Joins(received, Frame(d, r[1], r[2]))
     \/ /\ Zentrale[d] \notin {fht_hc, Keine}
        /\ \E cmd \in {FHT_CAN_XMIT, FHT_CAN_RCV, FHT_START_XMIT} : Joins(received, Frame(d, cmd, TRUE))
  /\ UNCHANGED <<Inside, outside>>

GivesUp(d) ==
  /\ phase[d] # "ruhe" /\ phase' = [phase EXCEPT ![d] = "ruhe"]
  /\ UNCHANGED <<Inside, received, got>>
-----------------------------------------------------------------------------
MainLoop == fht_hook \/ fht80b_send_repeated \/ fht80b_timer \/ TimerEnds
Host     == (\E m \in Message : fhtsend(m)) \/ (\E hc \in HouseCode : T01(hc))
Next == \/ MainLoop \/ Tick \/ Host
        \/ \E d \in Fht : Thermostat(d) \/ GivesUp(d)
Spec == Init /\ [][Next]_vars /\ WF_vars(MainLoop) /\ WF_vars(Tick)
-----------------------------------------------------------------------------
(* Properties. *)

Messages ==
  LET parse[p \in 0 .. FHTBUF_SIZE] ==
        IF p = FHTBUF_SIZE \/ fht80b_buf[p] = 0 THEN << >>
        ELSE <<[i \in 1 .. fht80b_buf[p] - 1 |-> fht80b_buf[p + i]]>> \o parse[Beyond(p + fht80b_buf[p])]
  IN parse[0]

Code(m)   == SubSeq(m, 1, 2)
Values(m) == {<<m[2 * i + 1], m[2 * i + 2]>> : i \in 1 .. Len(m) \div 2 - 1}
InConversation == fht80b_state \in 2 .. TableSize - 2

(* No command of a message is the number of the table's row FHT_CAN_XMIT;  *)
(* after one fht_hook would take a FHT_CAN_RCV for the next row and leave  *)
(* the table's rows.                                                       *)
NoTableCommand ==
  \A m \in Message : \A i \in 3 .. Len(m) : i % 2 = 1 => m[i] # FHT_CAN_XMIT

(* The state keeps its types; above all the state is a row of the table or *)
(* FHT_FOREIGN, and a data byte is awaited only where the table sends data. *)
TypeOK ==
  /\ fht_hc \in HouseCode
  /\ fht80b_timeout \in {"aus", "laeuft", "faellig"} /\ verpasst \in BOOLEAN
  /\ fht80b_state \in {0, 2, 4, 6, 10, 12, FHT_FOREIGN}
  /\ fht80b_ldata # 0 => fht80b_state = 6
  /\ fht80b_bufoff \in 3 .. FHTBUF_SIZE
  /\ fht80b_repeatcnt \in {0, 1}
  /\ fht80b_buf \in [Offset -> Nat]
  /\ pc \in {"frei", "hook", "timer"}
  /\ Len(received) <= Waiting

(* The buffer is a queue of the host's messages, with room as long as a    *)
(* terminating 0 fits behind them; a conversation removes the first message *)
(* for its house code, only T01 removes more.                              *)
Bytes(queue) ==
  LET sum[i \in 0 .. Len(queue)] == IF i = 0 THEN 0 ELSE sum[i - 1] + Len(queue[i]) + 1
  IN sum[Len(queue)]
Abstract == INSTANCE MessageQueue
              WITH queue <- Messages, code <- fht_hc,
                   Room <- LAMBDA queue, m : Bytes(queue) + Len(m) + 1 < FHTBUF_SIZE
BufferIsQueue == Abstract!Spec

(* "A command is removed from the buffer after CUL has received the        *)
(* acknowledgement from FHT80b": the conversation that removes a message   *)
(* has handed over every one of its values.                                *)
DeletedIsDelivered ==
  [][fht80b_buf' # fht80b_buf /\ received' # received =>
       LET hc == fht80b_out.hc
           i  == Min({j \in DOMAIN Messages : Code(Messages[j]) = hc})
       IN Values(Messages[i]) \subseteq got[hc]]_vars

(* The timer repeats what was sent last and is unanswered, although        *)
(* fht80b_out also holds every received frame.                             *)
RepeatsLastSent == fht80b_repeatcnt # 0 /\ pc # "hook" => fht80b_out = gesendet

(* A conversation in progress has its timer set, unless the main loop      *)
(* missed the tick at which it was due.                                    *)
ConversationIsTimed == InConversation /\ pc = "frei" => fht80b_timeout # "aus" \/ verpasst

(* A conversation comes to its end, also one the thermostat abandons.      *)
With(d) == InConversation /\ fht80b_out.hc = d
ConversationEnds == \A d \in Fht : With(d) ~> ~With(d) \/ verpasst
=============================================================================
