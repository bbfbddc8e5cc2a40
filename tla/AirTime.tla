------------------------------ MODULE AirTime ------------------------------
(***************************************************************************)
(* The 1 % rule of the 868 MHz band: credit_10ms, the air time the stick   *)
(* may still use, in units of 10 ms.  TIMER0 counts clock_hsec (clock.c),  *)
(* Minute_Task turns 125 of them into one unit of credit, sendraw of       *)
(* rf_send.c (and its siblings in rf_moritz.c, rf_maico.c, dudette_hal.c)  *)
(* refuses a message the account does not cover and charges the others.    *)
(*                                                                         *)
(* The main loop may be kept from Minute_Task for any time.  clock_hsec    *)
(* and the low byte of ticks are uint8_t, the charge is an int8_t, and     *)
(* credit_10ms a uint16_t: their widths are constants, so that an instance *)
(* reaches the wrap of each.                                               *)
(***************************************************************************)
EXTENDS Integers

CONSTANTS
  Hz,            (* 125, interrupts in a second.                           *)
  TickMod,       (* 256, clock_hsec and (uint8_t)ticks are bytes.          *)
  SumMod,        (* 256, sum of sendraw is an int8_t.                      *)
  CreditMod,     (* 65536.                                                 *)
  MAX_CREDIT,    (* 900; 3600 on ARM.                                      *)
  AirMessage,    (* Messages as [air, add]: (nbyte+2)*repeat, which the    *)
                 (* comment of sendraw takes for their length in 10 ms,    *)
                 (* and addH+addL, 0 but for Hoermann.                     *)
  Wide,          (* An int has more bits than a uint16_t (ARM).            *)
  AirWindow      (* Ticks an account period of the history lasts.          *)

ASSUME HzAssumption == Hz \in Nat \ {0} /\ TickMod \in Nat /\ TickMod > Hz
ASSUME WidthAssumption ==
  /\ SumMod \in Nat \ {0} /\ SumMod % 2 = 0
  /\ MAX_CREDIT \in Nat /\ CreditMod \in Nat
  /\ MAX_CREDIT < CreditMod /\ SumMod \div 2 < CreditMod
ASSUME MessageAssumption ==
  AirMessage \subseteq [air : Nat, add : Nat] /\ Wide \in BOOLEAN
ASSUME WindowAssumption == AirWindow \in Nat \ {0}

VARIABLES
  clock_hsec,
  airUnseen,       (* ticks - last_tick of Minute_Task, modulo a byte.     *)
  credit_10ms,
  airStart, airTime, airSent, airEarned
                   (* History of an account period: the credit it began    *)
                   (* with, its ticks, the units sent and those earned.    *)

airClock   == <<clock_hsec, airUnseen>>
airHistory == <<airStart, airTime, airSent, airEarned>>
airVars    == <<clock_hsec, airUnseen, credit_10ms, airStart, airTime, airSent,
                airEarned>>

(* tx_init gives half of the account. *)
AirInit ==
  /\ clock_hsec = 0
  /\ airUnseen = 0
  /\ credit_10ms = MAX_CREDIT \div 2
  /\ airStart = credit_10ms /\ airTime = 0 /\ airSent = 0
  /\ airEarned = 0

(* TIMER0_COMPA_vect *)
AirTimer ==
  /\ clock_hsec' = (clock_hsec + 1) % TickMod
  /\ airUnseen' = (airUnseen + 1) % TickMod

(* The history begins a new period after AirWindow. *)
AirTick ==
  /\ AirTimer
  /\ UNCHANGED credit_10ms
  /\ IF airTime < AirWindow
       THEN airTime' = airTime + 1 /\ UNCHANGED <<airStart, airSent, airEarned>>
       ELSE /\ airStart' = credit_10ms /\ airTime' = 1
            /\ airSent' = 0 /\ airEarned' = 0

(* Minute_Task from its test of clock_hsec on: a second is over. *)
AirSecond == clock_hsec' = IF clock_hsec < Hz THEN clock_hsec ELSE 0

(* What Minute_Task makes of the account. *)
AirEarns(have) ==
  IF clock_hsec >= Hz /\ have < MAX_CREDIT THEN have + 1 ELSE have

(* Minute_Task does nothing twice in the same tick. *)
AirPoll == airUnseen # 0 /\ airUnseen' = 0

AirMinute ==
  /\ AirPoll
  /\ AirSecond
  /\ credit_10ms' = AirEarns(credit_10ms)
  /\ airEarned' = airEarned + (AirEarns(credit_10ms) - credit_10ms)
  /\ UNCHANGED <<airStart, airTime, airSent>>

(* int8_t sum *)
AirSum(m) ==
  LET low == (m.air + m.add) % SumMod
  IN  IF low < SumMod \div 2 THEN low ELSE low - SumMod

(* Mutant: without the refusal. *)
AirNeverRefused(have, m) == FALSE

(* credit_10ms < sum, both converted to unsigned where int has 16 bits. *)
AirRefused(have, m) ==
  have < (IF Wide \/ AirSum(m) >= 0 THEN AirSum(m) ELSE AirSum(m) + CreditMod)

(* LOVF, or the charge and the message. *)
AirLeft(have, m) ==
  IF AirRefused(have, m) THEN have ELSE (have - AirSum(m)) % CreditMod

AirUsed(have, m) == IF AirRefused(have, m) THEN 0 ELSE m.air

sendraw(m) ==
  /\ credit_10ms' = AirLeft(credit_10ms, m)
  /\ airSent' = airSent + AirUsed(credit_10ms, m)
  /\ UNCHANGED <<clock_hsec, airUnseen, airStart, airTime, airEarned>>

AirSend == \E m \in AirMessage : sendraw(m)

AirNext == AirTick \/ AirMinute \/ AirSend

AirSpec == AirInit /\ [][AirNext]_airVars
-----------------------------------------------------------------------------
AirTypeOK ==
  /\ clock_hsec \in 0 .. TickMod - 1
  /\ airUnseen \in 0 .. TickMod - 1
  /\ credit_10ms \in 0 .. CreditMod - 1
  /\ airStart \in 0 .. CreditMod - 1
  /\ airTime \in 0 .. AirWindow
  /\ airSent \in Nat /\ airEarned \in Nat

(* The 1 % rule: in a period of any length the stick sends no more than    *)
(* the account held at its beginning and a unit of 10 ms for every second  *)
(* of it (clock.c:220 "10ms/1s == 1% -> allowed talk-time without CD"),    *)
(* and never a burst longer than the full account (rf_send.h:22 "max 9     *)
(* seconds burst").  The gifts of Fht8v come on top.                       *)
AirWithinBudget ==
  /\ airSent <= airStart + 1 + airTime \div Hz
  /\ airSent <= MAX_CREDIT + 1 + airTime \div Hz
=============================================================================
