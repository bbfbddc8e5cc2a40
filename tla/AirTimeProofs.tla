---------------------------- MODULE AirTimeProofs ----------------------------
(***************************************************************************)
(* The 1 % rule holds for every clock, account and message, as long as a   *)
(* charge that does not come out negative covers its message, and a        *)
(* negative one is compared as a large unsigned number.  The valves, which *)
(* share the account, are not told too early, and a sync of one of them is *)
(* paid by what it gives to the account.  The window sensors, the last     *)
(* part, hold for every table, set of sensors and order of host commands,  *)
(* ticks and timer calls.                                                  *)
(***************************************************************************)
EXTENDS Fht8v, FhtTf, TLAPS

(* What sendraw relies on: int has 16 bits, the account is far from the    *)
(* range of credit_10ms, and a message whose length wraps int8_t comes out *)
(* negative, or with a charge that is still enough.                        *)
ChargeCovers ==
  /\ ~Wide
  /\ MAX_CREDIT < CreditMod - SumMod \div 2
  /\ \A m \in AirMessage : AirSum(m) < 0 \/ AirSum(m) >= m.air

LEMMA ModInRange ==
  ASSUME NEW n \in Int, NEW d \in Nat \ {0}
  PROVE  n % d \in 0 .. d - 1
  BY SMT

(* The quotient is the largest factor that fits. *)
LEMMA DivLargest ==
  ASSUME NEW n \in Nat, NEW d \in Nat \ {0}, NEW k \in Nat, d * k <= n
  PROVE  k <= n \div d
<1> DEFINE q == n \div d
           r == n % d
<1>1. q \in Int /\ r \in 0 .. d - 1 /\ n = d * q + r
  BY SMT
<1>2. SUFFICES ASSUME q + 1 <= k PROVE FALSE
  BY <1>1, SMT
<1> HIDE DEF q, r
<1>3. d * (q + 1) <= d * k
  BY <1>1, <1>2, SMT
<1>4. d * (q + 1) = d * q + d
  BY <1>1, SMT
<1> QED BY <1>1, <1>3, <1>4, SMT

LEMMA SumIsInt ==
  ASSUME NEW m \in AirMessage
  PROVE  AirSum(m) \in Int /\ AirSum(m) >= -(SumMod \div 2)
<1> DEFINE low == (m.air + m.add) % SumMod
           half == SumMod \div 2
<1>1. m.air + m.add \in Int /\ SumMod \in Nat \ {0}
  BY MessageAssumption, WidthAssumption
<1>2. low \in 0 .. SumMod - 1
  BY <1>1, ModInRange
<1>3. half \in Nat /\ SumMod = 2 * half
  BY WidthAssumption, SMT
<1>4. AirSum(m) = IF low < half THEN low ELSE low - SumMod
  BY DEF AirSum
<1> HIDE DEF low, half
<1>5. AirSum(m) \in Int /\ AirSum(m) >= -half
  BY <1>2, <1>3, <1>4
<1> QED BY <1>5 DEF half

-----------------------------------------------------------------------------
(* The type invariant, which needs nothing but the constants' assumptions. *)
THEOREM AirTypeCorrect == AirSpec => []AirTypeOK
<1> USE HzAssumption, WidthAssumption, WindowAssumption
<1>1. AirInit => AirTypeOK
  <2> SUFFICES ASSUME AirInit PROVE AirTypeOK
    OBVIOUS
  <2>1. credit_10ms \in 0 .. CreditMod - 1
    BY SMT DEF AirInit
  <2> QED BY <2>1, SMT DEF AirInit, AirTypeOK
<1>2. AirTypeOK /\ [AirNext]_airVars => AirTypeOK'
  <2> SUFFICES ASSUME AirTypeOK, [AirNext]_airVars PROVE AirTypeOK'
    OBVIOUS
  <2> USE DEF AirTypeOK
  <2>1. CASE AirTick
    <3>1. clock_hsec' \in 0 .. TickMod - 1 /\ airUnseen' \in 0 .. TickMod - 1
      BY <2>1, ModInRange DEF AirTick, AirTimer
    <3> QED BY <2>1, <3>1 DEF AirTick
  <2>2. CASE AirMinute
    <3>1. /\ AirEarns(credit_10ms) \in 0 .. CreditMod - 1
          /\ AirEarns(credit_10ms) - credit_10ms \in Nat
      BY DEF AirEarns
    <3> QED BY <2>2, <3>1 DEF AirMinute, AirPoll, AirSecond
  <2>3. CASE AirSend
    <3>1. PICK m \in AirMessage : sendraw(m)
      BY <2>3 DEF AirSend
    <3>2. AirUsed(credit_10ms, m) \in Nat
      BY MessageAssumption DEF AirUsed
    <3>3. AirLeft(credit_10ms, m) \in 0 .. CreditMod - 1
      <4>1. credit_10ms - AirSum(m) \in Int
        BY SumIsInt
      <4>2. CreditMod \in Nat \ {0}
        OBVIOUS
      <4>3. (credit_10ms - AirSum(m)) % CreditMod \in 0 .. CreditMod - 1
        BY <4>1, <4>2, ModInRange
      <4> QED BY <4>3 DEF AirLeft
    <3> QED BY <3>1, <3>2, <3>3 DEF sendraw
  <2>4. CASE UNCHANGED airVars
    BY <2>4 DEF airVars
  <2> QED BY <2>1, <2>2, <2>3, <2>4 DEF AirNext
<1> QED BY <1>1, <1>2, PTL DEF AirSpec

-----------------------------------------------------------------------------
(* What a period has earned took its seconds, up to the one under way.     *)
EarningsTakeTime ==
  \/ airEarned = 0
  \/ Hz * (airEarned - 1) + clock_hsec <= airTime

(* The account is the credit of the beginning and what was earned, less at *)
(* least what was sent.                                                    *)
AccountIsKept ==
  /\ credit_10ms <= MAX_CREDIT /\ airStart <= MAX_CREDIT
  /\ credit_10ms + airSent <= airStart + airEarned

AirInv == AirTypeOK /\ EarningsTakeTime /\ AccountIsKept

LEMMA OneMore ==
  ASSUME NEW e \in Int, NEW c \in Int, NEW d \in Int, NEW t \in Int,
         e + c <= t, d <= c + 1
  PROVE  e + d <= t + 1
  OBVIOUS

LEMMA TickKeepsEarnings ==
  ASSUME AirInv, AirTick
  PROVE  EarningsTakeTime'
<1> USE HzAssumption, WindowAssumption DEF AirInv, AirTypeOK
<1>1. CASE airTime < AirWindow
  <2>1. clock_hsec' <= clock_hsec + 1
    <3>1. CASE clock_hsec + 1 < TickMod
      BY <3>1, SMT DEF AirTick, AirTimer
    <3>2. CASE clock_hsec + 1 = TickMod
      BY <3>2, ModInRange DEF AirTick, AirTimer
    <3> QED BY <3>1, <3>2
  <2>2. clock_hsec' \in Int
    BY ModInRange DEF AirTick, AirTimer
  <2>3. airTime' = airTime + 1 /\ airEarned' = airEarned
    BY <1>1 DEF AirTick
  <2>4. Hz * (airEarned - 1) \in Int
    BY SMT
  <2> HIDE DEF AirTypeOK
  <2>5. CASE airEarned = 0
    BY <2>3, <2>5 DEF EarningsTakeTime
  <2>6. CASE Hz * (airEarned - 1) + clock_hsec <= airTime
    <3>1. clock_hsec \in Int /\ airTime \in Int
      BY DEF AirTypeOK
    <3> DEFINE e == Hz * (airEarned - 1)
    <3>2. e \in Int /\ e + clock_hsec <= airTime
      BY <2>4, <2>6
    <3> HIDE DEF e
    <3>3. e + clock_hsec' <= airTime'
      BY <2>1, <2>2, <2>3, <3>1, <3>2, OneMore
    <3> QED BY <2>3, <3>3 DEF e, EarningsTakeTime
  <2> QED BY <2>5, <2>6 DEF EarningsTakeTime
<1>2. CASE ~(airTime < AirWindow)
  BY <1>2 DEF AirTick, EarningsTakeTime
<1> QED BY <1>1, <1>2

(* A second that is over makes room for one more unit. *)
LEMMA OneSecond ==
  ASSUME NEW h \in Nat, NEW n \in Int
  PROVE  /\ h * (n - 1) \in Int
         /\ h * n = h * (n - 1) + h
         /\ h * (1 - 1) = 0
  BY SMT

LEMMA MinuteKeepsEarnings ==
  ASSUME AirInv, AirMinute
  PROVE  EarningsTakeTime'
<1>1. Hz \in Nat /\ clock_hsec \in Int /\ airTime \in Nat /\ airEarned \in Nat
  BY HzAssumption, WindowAssumption DEF AirInv, AirTypeOK
<1>2. CASE clock_hsec >= Hz
  <2>1. clock_hsec' = 0 /\ airTime' = airTime
    BY <1>1, <1>2 DEF AirMinute, AirSecond
  <2>2. airEarned' = airEarned \/ airEarned' = airEarned + 1
    BY <1>1, HzAssumption, WidthAssumption DEF AirMinute, AirEarns, AirInv, AirTypeOK
  <2> DEFINE e == Hz * (airEarned - 1)
             f == Hz * airEarned
  <2>3. e \in Int /\ f = e + Hz
    <3>1. airEarned \in Int
      BY <1>1
    <3> QED BY <1>1, <3>1, OneSecond, Zenon
  <2>4. airEarned = 0 \/ e + clock_hsec <= airTime
    BY DEF AirInv, EarningsTakeTime
  <2>5. airEarned = 0 => f = 0
    BY <1>1
  <2> HIDE DEF e, f
  <2>6. f <= airTime /\ (airEarned = 0 \/ e <= airTime)
    BY <1>1, <1>2, <2>3, <2>4, <2>5
  <2>7. CASE airEarned' = airEarned
    <3>1. airEarned' = 0 \/ e + clock_hsec' <= airTime'
      BY <2>1, <2>3, <2>6, <2>7
    <3>2. e = Hz * (airEarned' - 1)
      BY <2>7, Zenon DEF e
    <3> QED BY <3>1, <3>2, Zenon DEF EarningsTakeTime
  <2>8. CASE airEarned' = airEarned + 1
    <3>1. f + clock_hsec' <= airTime'
      BY <1>1, <2>1, <2>3, <2>6, <2>8
    <3>2. airEarned' - 1 = airEarned
      BY <1>1, <2>8
    <3>3. f = Hz * (airEarned' - 1)
      BY <3>2, Zenon DEF f
    <3> QED BY <3>1, <3>3, Zenon DEF EarningsTakeTime
  <2> QED BY <2>2, <2>7, <2>8
<1>3. CASE ~(clock_hsec >= Hz)
  <2>1. clock_hsec' = clock_hsec /\ airTime' = airTime /\ airEarned' = airEarned
    BY <1>1, <1>3, WidthAssumption DEF AirMinute, AirSecond, AirEarns, AirInv, AirTypeOK
  <2> QED BY <2>1, Zenon DEF AirInv, EarningsTakeTime
<1> QED BY <1>2, <1>3

(* A message that goes out is covered by its charge, and the charge by the *)
(* account.                                                                *)
LEMMA SendIsCovered ==
  ASSUME ChargeCovers, AirTypeOK, credit_10ms <= MAX_CREDIT, NEW m \in AirMessage
  PROVE  AirLeft(credit_10ms, m) + AirUsed(credit_10ms, m) <= credit_10ms
<1> USE WidthAssumption, MessageAssumption DEF AirTypeOK, ChargeCovers
<1>1. AirSum(m) \in Int /\ AirSum(m) >= -(SumMod \div 2)
  BY SumIsInt
<1>2. CASE AirRefused(credit_10ms, m)
  BY <1>2 DEF AirLeft, AirUsed
<1>3. CASE ~AirRefused(credit_10ms, m)
  <2>1. SumMod \div 2 \in Nat
    BY SMT
  <2>2. AirSum(m) >= 0
    BY <1>1, <1>3, <2>1 DEF AirRefused
  <2>3. AirSum(m) <= credit_10ms /\ AirSum(m) >= m.air
    BY <1>1, <1>3, <2>2 DEF AirRefused
  <2>4. (credit_10ms - AirSum(m)) % CreditMod = credit_10ms - AirSum(m)
    BY <1>1, <2>2, <2>3, SMT
  <2>5. m.air \in Nat
    OBVIOUS
  <2> QED BY <1>1, <1>3, <2>3, <2>4, <2>5 DEF AirLeft, AirUsed
<1> QED BY <1>2, <1>3

(* The 1 % rule (Minute_Task, sendraw). *)
THEOREM AirBudget ==
  ASSUME ChargeCovers
  PROVE  AirSpec => []AirWithinBudget
<1> USE HzAssumption, WidthAssumption, WindowAssumption
<1>1. AirInit => EarningsTakeTime /\ AccountIsKept
  BY SMT DEF AirInit, EarningsTakeTime, AccountIsKept
<1>2. AirInv /\ AirTypeOK' /\ [AirNext]_airVars => AirInv'
  <2> SUFFICES ASSUME AirInv, AirTypeOK', [AirNext]_airVars
               PROVE  EarningsTakeTime' /\ AccountIsKept'
    BY DEF AirInv
  <2>1. CASE AirTick
    <3>1. EarningsTakeTime'
      BY <2>1, TickKeepsEarnings
    <3>2. credit_10ms' = credit_10ms
      BY <2>1 DEF AirTick
    <3>3. CASE airTime < AirWindow
      <4>1. airStart' = airStart /\ airSent' = airSent /\ airEarned' = airEarned
        BY <2>1, <3>3 DEF AirTick
      <4> QED BY <3>1, <3>2, <4>1, Zenon DEF AirInv, AccountIsKept
    <3>4. CASE ~(airTime < AirWindow)
      <4>1. airStart' = credit_10ms /\ airSent' = 0 /\ airEarned' = 0
        BY <2>1, <3>4 DEF AirTick
      <4>2. AccountIsKept'
        BY <3>2, <4>1 DEF AirInv, AirTypeOK, AccountIsKept
      <4> QED BY <3>1, <4>2
    <3> QED BY <3>1, <3>3, <3>4
  <2>2. CASE AirMinute
    BY <2>2, MinuteKeepsEarnings DEF AirInv, AirTypeOK, AirMinute, AirEarns, AccountIsKept
  <2>3. CASE AirSend
    <3>1. PICK m \in AirMessage : sendraw(m)
      BY <2>3 DEF AirSend
    <3>2. AirLeft(credit_10ms, m) + AirUsed(credit_10ms, m) <= credit_10ms
      BY SendIsCovered DEF AirInv, AccountIsKept
    <3>3. AirUsed(credit_10ms, m) \in Nat
      BY MessageAssumption DEF AirUsed
    <3>4. AccountIsKept'
      BY <3>1, <3>2, <3>3 DEF sendraw, AirInv, AirTypeOK, AccountIsKept
    <3> QED BY <3>1, <3>4 DEF sendraw, AirInv, EarningsTakeTime
  <2>4. CASE UNCHANGED airVars
    BY <2>4 DEF airVars, AirInv, EarningsTakeTime, AccountIsKept
  <2> QED BY <2>1, <2>2, <2>3, <2>4 DEF AirNext
<1>3. AirInv => AirWithinBudget
  <2> SUFFICES ASSUME AirInv PROVE AirWithinBudget
    OBVIOUS
  <2> USE DEF AirInv, AirTypeOK
  <2>1. airTime \div Hz \in Nat
    BY SMT
  <2>2. airEarned <= 1 + airTime \div Hz
    <3>1. CASE airEarned = 0
      BY <2>1, <3>1
    <3>2. CASE airEarned # 0
      <4>1. Hz * (airEarned - 1) \in Int
        BY SMT
      <4>2. Hz * (airEarned - 1) <= airTime
        BY <3>2, <4>1 DEF EarningsTakeTime
      <4>3. airEarned - 1 <= airTime \div Hz
        BY <3>2, <4>2, DivLargest
      <4> QED BY <2>1, <4>3
    <3> QED BY <3>1, <3>2
  <2> QED BY <2>1, <2>2 DEF AirWithinBudget, AccountIsKept
<1>4. AirTypeOK /\ EarningsTakeTime /\ AccountIsKept <=> AirInv
  BY DEF AirInv
<1> QED BY <1>1, <1>2, <1>3, <1>4, AirTypeCorrect, PTL DEF AirSpec

-----------------------------------------------------------------------------
(* Fht8v: the valves the stick drives itself.                              *)

LEMMA SmallMod ==
  ASSUME NEW n \in Nat, NEW d \in Nat \ {0}, n < d
  PROVE  n % d = n
  BY SMT

LEMMA ProductIsNat ==
  ASSUME NEW a \in Nat, NEW b \in Nat
  PROVE  a * b \in Nat
  BY SMT

(* The account keeps its type: with the charge of any message, ... *)
LEMMA LeftIsCredit ==
  ASSUME NEW c \in 0 .. CreditMod - 1, NEW m \in AirMessage
  PROVE  AirLeft(c, m) \in 0 .. CreditMod - 1
<1>1. c - AirSum(m) \in Int /\ CreditMod \in Nat \ {0}
  BY SumIsInt, WidthAssumption
<1>2. (c - AirSum(m)) % CreditMod \in 0 .. CreditMod - 1
  BY <1>1, ModInRange
<1> QED BY <1>2 DEF AirLeft

(* ... and with the unit of a second. *)
LEMMA EarnsIsCredit ==
  ASSUME NEW c \in 0 .. CreditMod - 1
  PROVE  AirEarns(c) \in 0 .. CreditMod - 1 /\ AirEarns(c) >= c
  BY WidthAssumption DEF AirEarns

(* A packet to a valve is charged by its length, or refused. *)
LEMMA PacketIsCharged ==
  ASSUME NEW c \in 0 .. CreditMod - 1
  PROVE  /\ AirRefused(c, V8Message) <=> c < V8Message.air
         /\ AirLeft(c, V8Message) = IF c < V8Message.air THEN c ELSE c - V8Message.air
         /\ AirLeft(c, V8Message) \in 0 .. CreditMod - 1
<1>1. V8Message.air \in Nat /\ AirSum(V8Message) = V8Message.air
  BY V8Assumption
<1> DEFINE a == V8Message.air
<1> HIDE DEF a
<1>2. AirRefused(c, V8Message) <=> c < a
  BY <1>1 DEF AirRefused, a
<1>3. CASE c < a
  BY <1>2, <1>3 DEF AirLeft, a
<1>4. CASE ~(c < a)
  <2>1. a \in Nat /\ CreditMod \in Nat
    BY <1>1, WidthAssumption DEF a
  <2>2. c - a \in Nat /\ c - a < CreditMod /\ CreditMod \in Nat \ {0}
    BY <1>4, <2>1
  <2>3. AirLeft(c, V8Message) = (c - a) % CreditMod
    BY <1>1, <1>2, <1>4 DEF AirLeft, a
  <2>4. (c - a) % CreditMod = c - a
    BY <2>2, SmallMod
  <2> QED BY <1>2, <1>4, <2>2, <2>3, <2>4 DEF a
<1> QED BY <1>3, <1>4

LEMMA TimeoutIsNat ==
  /\ V8Timeout \in {Hz, 3 * Hz, V8Period} /\ V8Timeout \in Nat
  /\ V8Timeout % V8Byte \in 0 .. V8Byte - 1
  /\ V8Timeout - (V8Timeout % V8Byte) \in Nat
<1>1. V8Timeout \in {Hz, 3 * Hz, V8Period} /\ V8Timeout \in Nat
  BY HzAssumption, V8Assumption DEF V8Timeout
<1> DEFINE t == V8Timeout
<1>2. t \in Nat /\ V8Byte \in Nat \ {0}
  BY <1>1, V8Assumption
<1> HIDE DEF t
<1>3. t % V8Byte \in 0 .. V8Byte - 1 /\ t - (t % V8Byte) \in Nat
  BY <1>2, SMT
<1> QED BY <1>1, <1>3 DEF t

(* The type invariant of the valves' driver: its types, and those of the   *)
(* account it shares.                                                      *)
THEOREM V8TypeCorrect == V8Spec => []V8TypeOK
<1> USE HzAssumption, WidthAssumption, WindowAssumption, V8Assumption
<1>1. V8Init => V8TypeOK
  <2> SUFFICES ASSUME V8Init PROVE V8TypeOK
    OBVIOUS
  <2>1. credit_10ms \in 0 .. CreditMod - 1
    BY SMT DEF V8Init, AirInit
  <2>2. AirTypeOK
    BY <2>1, SMT DEF V8Init, AirInit, AirTypeOK
  <2> QED BY <2>2, SMT DEF V8Init, V8TypeOK
<1>2. V8TypeOK /\ [V8Next]_v8Vars => V8TypeOK'
  <2> SUFFICES ASSUME V8TypeOK, [V8Next]_v8Vars PROVE V8TypeOK'
    OBVIOUS
  <2>0. /\ clock_hsec \in 0 .. TickMod - 1 /\ airUnseen \in 0 .. TickMod - 1
        /\ credit_10ms \in 0 .. CreditMod - 1
        /\ fht8v_timeout \in Nat /\ fht8v_ctsync \in 0 .. V8Count - 1
        /\ v8On \subseteq V8Valve /\ v8Reload \in {0, Hz, 3 * Hz, V8Period}
        /\ v8I \in -1 .. V8Num /\ (v8Reload # 0 => v8I = -1)
    BY DEF V8TypeOK, AirTypeOK
  <2>1. ASSUME clock_hsec' \in 0 .. TickMod - 1, airUnseen' \in 0 .. TickMod - 1,
               credit_10ms' \in 0 .. CreditMod - 1, UNCHANGED airHistory
        PROVE  AirTypeOK'
    BY <2>1 DEF airHistory, V8TypeOK, AirTypeOK
  <2>2. CASE V8Host
    <3>1. ASSUME NEW n \in V8Syncs, V8CmdSync(n) PROVE V8TypeOK'
      <4>1. V8Given(n) \in Nat
        BY ProductIsNat DEF V8Given
      <4>2. credit_10ms' \in 0 .. CreditMod - 1
        <5>1. credit_10ms + V8Given(n) \in Int /\ CreditMod \in Nat \ {0}
          BY <2>0, <4>1
        <5> QED BY <3>1, <5>1, ModInRange DEF V8CmdSync
      <4>3. n \in 0 .. V8Count - 1
        OBVIOUS
      <4>4. AirTypeOK'
        BY <2>0, <2>1, <3>1, <4>2 DEF V8CmdSync, airClock
      <4> QED BY <2>0, <3>1, <4>3, <4>4 DEF V8CmdSync, V8TypeOK
    <3>2. ASSUME NEW i \in V8Valve, V8CmdValve(i) PROVE V8TypeOK'
      BY <2>0, <2>1, <3>2 DEF V8CmdValve, airVars, airHistory, V8TypeOK
    <3>3. CASE V8CmdInit
      BY <2>0, <2>1, <3>3 DEF V8CmdInit, airVars, airHistory, V8TypeOK
    <3> QED BY <2>2, <3>1, <3>2, <3>3 DEF V8Host
  <2>3. CASE V8Send
    <3>1. credit_10ms' \in 0 .. CreditMod - 1
      BY <2>0, <2>3, LeftIsCredit DEF V8Send
    <3> QED BY <2>0, <2>1, <2>3, <3>1 DEF V8Send, airClock, v8State, V8TypeOK
  <2>4. CASE V8Tick
    <3>1. clock_hsec' \in 0 .. TickMod - 1 /\ airUnseen' \in 0 .. TickMod - 1
      <4>1. clock_hsec + 1 \in Int /\ airUnseen + 1 \in Int /\ TickMod \in Nat \ {0}
        BY <2>0
      <4>2. /\ (clock_hsec + 1) % TickMod \in 0 .. TickMod - 1
            /\ (airUnseen + 1) % TickMod \in 0 .. TickMod - 1
        BY <4>1, ModInRange
      <4> QED BY <2>4, <4>2, Zenon DEF V8Tick, AirTimer
    <3> QED BY <2>0, <2>1, <2>4, <3>1 DEF V8Tick, V8TypeOK
  <2>5. CASE V8Idle
    <3>1. credit_10ms' \in 0 .. CreditMod - 1
      BY <2>0, <2>5, EarnsIsCredit DEF V8Idle
    <3> QED BY <2>0, <2>1, <2>5, <3>1 DEF V8Idle, AirPoll, AirSecond, v8State, V8TypeOK
  <2>6. CASE V8Fire
    BY <2>0, <2>1, <2>6, TimeoutIsNat DEF V8Fire, V8AtMinute, AirPoll, V8TypeOK
  <2>7. CASE V8Low
    <3>1. fht8v_timeout' \in Nat
      <4>1. /\ fht8v_timeout - (fht8v_timeout % V8Byte) \in Nat
            /\ v8Reload % V8Byte \in Nat
        BY <2>0, SMT
      <4> QED BY <2>7, <4>1 DEF V8Low
    <3>2. 0 \in -1 .. V8Num
      OBVIOUS
    <3> QED BY <2>0, <2>1, <2>7, <3>1, <3>2 DEF V8Low, airVars, airHistory, V8TypeOK
  <2>8. ASSUME NEW i \in V8Valve, V8Packet(i) PROVE V8TypeOK'
    <3>1. credit_10ms' \in 0 .. CreditMod - 1
      BY <2>0, <2>8, PacketIsCharged DEF V8Packet
    <3>2. i + 1 \in -1 .. V8Num
      BY DEF V8Valve
    <3>3. v8Reload' = 0
      BY <2>0, <2>8 DEF V8Packet
    <3> QED BY <2>0, <2>1, <2>8, <3>1, <3>2, <3>3 DEF V8Packet, airClock, V8TypeOK
  <2>9. CASE V8CountDown
    <3>1. credit_10ms' \in 0 .. CreditMod - 1
      BY <2>0, <2>9, EarnsIsCredit DEF V8CountDown
    <3>2. V8CountNext \in 0 .. V8Count - 1
      <4>1. fht8v_ctsync - 2 \in Int
        BY <2>0
      <4>2. V8Count \in Nat \ {0}
        OBVIOUS
      <4>3. (fht8v_ctsync - 2) % V8Count \in 0 .. V8Count - 1
        BY <4>1, <4>2, ModInRange
      <4>4. 0 \in 0 .. V8Count - 1
        BY <4>2
      <4> QED BY <4>3, <4>4, Zenon DEF V8CountNext
    <3>3. AirTypeOK'
      BY <2>0, <2>1, <2>9, <3>1 DEF V8CountDown, AirSecond
    <3>4. -1 \in -1 .. V8Num
      OBVIOUS
    <3> QED BY <2>0, <2>9, <3>2, <3>3, <3>4 DEF V8CountDown, V8TypeOK
  <2>10. CASE UNCHANGED v8Vars
    BY <2>0, <2>1, <2>10 DEF v8Vars, airVars, airHistory, v8State, V8TypeOK
  <2> QED BY <2>2, <2>3, <2>4, <2>5, <2>6, <2>7, <2>8, <2>9, <2>10 DEF V8Next, V8Main
<1> QED BY <1>1, <1>2, PTL DEF V8Spec

-----------------------------------------------------------------------------
(* When the valves are told. *)

(* The constants of the code: a second is less than the high byte of       *)
(* fht8v_timeout counts, and the regular period is the longest.            *)
PeriodsAreLong == Hz < V8Byte /\ 3 * Hz <= V8Period

(* The new value of fht8v_timeout after a call of each kind, and the ticks *)
(* that must pass before the next call.                                    *)
V8Full(kind) ==
  CASE kind = "sync" -> Hz
    [] kind = "last" -> 3 * Hz
    [] kind = "cycle" -> V8Period
    [] OTHER -> 0

V8Due(kind) ==
  CASE kind = "sync" -> Hz
    [] kind = "last" -> 3 * Hz - V8Byte
    [] kind = "cycle" -> V8Period - V8Byte
    [] OTHER -> 0

(* What the timeout is short of has passed.  Between its two stores it     *)
(* holds no more than the high byte.                                       *)
V8Owed == IF v8Reload # 0 THEN v8Reload - (v8Reload % V8Byte) ELSE V8Due(v8Last)

V8GapInv ==
  /\ v8Reload # 0 => v8Last \in {"sync", "last", "cycle"} /\ v8Reload = V8Full(v8Last)
  /\ v8Gap \in 0 .. V8Period
  /\ v8Gap = V8Period \/ v8Gap + fht8v_timeout >= V8Owed

LEMMA DueBounded ==
  ASSUME PeriodsAreLong, NEW k
  PROVE  V8Due(k) \in Int /\ V8Due(k) <= V8Period
<1>1. Hz \in Nat /\ V8Byte \in Nat /\ V8Period \in Nat
  BY HzAssumption, V8Assumption
<1> QED BY <1>1 DEF V8Due, PeriodsAreLong

(* Taking the low byte off the timeout that is left and putting the new    *)
(* one in loses less than a byte's worth, and nothing if that is all.      *)
LEMMA ReloadLoses ==
  ASSUME NEW t \in Nat, NEW full \in Nat, NEW b \in Nat \ {0}
  PROVE  /\ (t - (t % b)) + (full % b) \in Nat
         /\ (t - (t % b)) + (full % b) >= t + (full % b) - b
         /\ full < b => (t - (t % b)) + (full % b) >= full
<1>1. t % b \in 0 .. b - 1 /\ t - (t % b) \in Nat /\ full % b \in Nat
  BY SMT
<1>2. full < b => full % b = full
  BY SMT
<1> QED BY <1>1, <1>2

LEMMA V8GapStep ==
  ASSUME PeriodsAreLong, V8TypeOK, V8GapInv, [V8Next]_v8Vars
  PROVE  V8GapInv'
<1>0. /\ Hz \in Nat \ {0} /\ V8Byte \in Nat \ {0} /\ V8Period \in Nat \ {0}
      /\ fht8v_timeout \in Nat /\ v8Reload \in Nat
      /\ v8Gap \in Nat /\ v8Gap <= V8Period
  BY HzAssumption, V8Assumption DEF V8TypeOK, V8GapInv
<1>1. ASSUME UNCHANGED <<fht8v_timeout, v8Reload, v8Gap, v8Last>>
      PROVE  V8GapInv'
  BY <1>1 DEF V8GapInv, V8Owed
<1>2. CASE V8Host
  <2>1. CASE \E n \in V8Syncs : V8CmdSync(n)
    <3>1. /\ fht8v_timeout' = 1 /\ v8Last' = "none" /\ v8Reload' = 0 /\ v8Reload = 0
          /\ UNCHANGED v8Gap
      BY <1>2, <2>1 DEF V8Host, V8AtMinute, V8InDisplay, V8CmdSync, V8TypeOK
    <3>2. V8Owed' = 0
      BY <3>1 DEF V8Owed, V8Due
    <3> QED BY <1>0, <3>1, <3>2 DEF V8GapInv
  <2>2. CASE (\E i \in V8Valve : V8CmdValve(i)) \/ V8CmdInit
    BY <1>1, <2>2 DEF V8CmdValve, V8CmdInit, v8History
  <2> QED BY <1>2, <2>1, <2>2 DEF V8Host
<1>3. CASE V8Send
  BY <1>1, <1>3 DEF V8Send, v8State
<1>4. CASE V8Tick
  <2>1. /\ fht8v_timeout' = IF fht8v_timeout = 0 THEN 0 ELSE fht8v_timeout - 1
        /\ v8Gap' = IF v8Gap < V8Period THEN v8Gap + 1 ELSE v8Gap
        /\ UNCHANGED <<v8Reload, v8Last>>
    BY <1>4 DEF V8Tick
  <2>2. v8Gap' \in 0 .. V8Period
    BY <1>0, <2>1
  <2>3. v8Gap' = V8Period \/ v8Gap' + fht8v_timeout' >= v8Gap + fht8v_timeout
    BY <1>0, <2>1
  <2>4. V8Owed' = V8Owed /\ V8Owed \in Int
    <3>1. v8Reload - (v8Reload % V8Byte) \in Int
      BY <1>0, SMT
    <3> QED BY <2>1, <3>1, DueBounded DEF V8Owed
  <2>5. v8Gap' = V8Period \/ v8Gap' + fht8v_timeout' >= V8Owed
    <3>1. fht8v_timeout' \in Nat
      BY <1>0, <2>1
    <3> QED BY <1>0, <2>1, <2>2, <2>3, <2>4, <3>1 DEF V8GapInv
  <2> QED BY <2>1, <2>2, <2>4, <2>5 DEF V8GapInv
<1>5. CASE V8Idle
  BY <1>1, <1>5 DEF V8Idle, v8State, v8History
<1>6. CASE V8Fire
  <2>1. /\ fht8v_timeout' = V8Timeout - (V8Timeout % V8Byte) /\ v8Reload' = V8Timeout
        /\ v8Gap' = 0 /\ v8Last' = V8Kind
    BY <1>6 DEF V8Fire
  <2>2. V8Timeout # 0
    BY <1>0 DEF V8Timeout
  <2>3. V8Owed' = fht8v_timeout' /\ fht8v_timeout' \in Nat
    BY <2>1, <2>2, TimeoutIsNat DEF V8Owed
  <2>4. V8Kind \in {"sync", "last", "cycle"} /\ V8Timeout = V8Full(V8Kind)
    BY <1>0 DEF V8Kind, V8Full, V8Timeout
  <2>5. 0 \in 0 .. V8Period /\ \A n \in Nat : 0 + n >= n
    BY <1>0
  <2> QED BY <2>1, <2>3, <2>4, <2>5 DEF V8GapInv
<1>7. CASE V8Low
  <2> DEFINE low == v8Reload % V8Byte
  <2>1. /\ v8Reload # 0 /\ v8Reload' = 0
        /\ fht8v_timeout' = (fht8v_timeout - (fht8v_timeout % V8Byte)) + low
        /\ UNCHANGED <<v8Gap, v8Last>>
    BY <1>7 DEF V8Low, v8History
  <2>2. /\ fht8v_timeout' \in Nat
        /\ fht8v_timeout' >= fht8v_timeout + low - V8Byte
        /\ v8Reload < V8Byte => fht8v_timeout' >= v8Reload
    BY <1>0, <2>1, ReloadLoses
  <2>3. low \in 0 .. V8Byte - 1
    BY <1>0, SMT
  <2>4. v8Gap = V8Period \/ v8Gap + fht8v_timeout >= v8Reload - low
    BY <2>1 DEF V8GapInv, V8Owed
  <2>5. /\ v8Last \in {"sync", "last", "cycle"} /\ v8Reload = V8Full(v8Last)
        /\ V8Owed' = V8Due(v8Last)
    BY <2>1 DEF V8GapInv, V8Owed
  <2>6. \/ V8Due(v8Last) = v8Reload /\ v8Reload < V8Byte
        \/ V8Due(v8Last) = v8Reload - V8Byte
    BY <2>5 DEF V8Due, V8Full, PeriodsAreLong
  <2> HIDE DEF low
  <2>7. v8Gap = V8Period \/ v8Gap + fht8v_timeout' >= V8Due(v8Last)
    BY <1>0, <2>2, <2>3, <2>4, <2>6
  <2> QED BY <2>1, <2>5, <2>7 DEF V8GapInv
<1>8. CASE (\E i \in V8Valve : V8Packet(i)) \/ V8CountDown
  BY <1>1, <1>8 DEF V8Packet, V8CountDown
<1>9. CASE UNCHANGED v8Vars
  BY <1>1, <1>9 DEF v8Vars, v8State, v8History
<1> QED BY <1>2, <1>3, <1>4, <1>5, <1>6, <1>7, <1>8, <1>9 DEF V8Next, V8Main

(* No order of ticks, commands and main loop turns tells a valve too early *)
(* by more than the byte the torn store of fht8v_timeout may lose.         *)
THEOREM V8Punctual ==
  ASSUME PeriodsAreLong
  PROVE  V8Spec => V8NotTooEarly
<1>1. V8Init => V8GapInv
  BY V8Assumption DEF V8Init, V8GapInv, V8Owed, V8Due
<1>2. V8TypeOK /\ V8GapInv /\ [V8Next]_v8Vars => V8GapInv'
  BY V8GapStep
<1>3. V8TypeOK /\ V8GapInv /\ V8Fire =>
        v8Gap >= CASE v8Last = "sync" -> Hz
                   [] v8Last = "last" -> 3 * Hz - V8Byte
                   [] v8Last = "cycle" -> V8Period - V8Byte
                   [] OTHER -> 0
  <2> SUFFICES ASSUME V8TypeOK, V8GapInv, V8Fire PROVE v8Gap >= V8Due(v8Last)
    BY DEF V8Due
  <2>1. v8Reload = 0 /\ fht8v_timeout = 0
    BY DEF V8Fire, V8AtMinute
  <2>2. V8Due(v8Last) \in Int /\ V8Due(v8Last) <= V8Period
    BY DueBounded
  <2>3. V8Period \in Nat /\ v8Gap \in Nat
    BY V8Assumption DEF V8GapInv
  <2> QED BY <2>1, <2>2, <2>3 DEF V8GapInv, V8Owed
<1> QED BY <1>1, <1>2, <1>3, V8TypeCorrect, PTL DEF V8Spec, V8NotTooEarly

-----------------------------------------------------------------------------
(* The gift of a sync.                                                     *)

(* Two counts pay for a packet, and the account that a sync is given       *)
(* something to does not wrap.                                             *)
GiftPays ==
  /\ V8Message.air <= 2 * V8Gift
  /\ V8Rich + V8Gift * V8Count < CreditMod

(* The counts a sync still serves: of an odd number the last 3 are one.    *)
V8Counts == IF fht8v_ctsync % 2 = 0 THEN fht8v_ctsync ELSE fht8v_ctsync - 1

(* Twice what the loop has sent for a count it has not taken off yet. *)
V8Ahead == IF v8I >= 0 /\ V8ToTell = {} THEN 2 * V8Message.air ELSE 0

(* What a sync that has the account for itself still sends is paid.        *)
V8PaidInv ==
  v8Start \notin {0, 1} =>
    /\ ~v8Refused
    /\ \E i \in V8Valve : v8On \subseteq {i}
    /\ fht8v_ctsync \notin {0, 1}
    /\ V8Message.air * V8Counts <= 2 * credit_10ms + V8Ahead

LEMMA TimesMonotone ==
  ASSUME NEW a \in Nat, NEW b \in Nat, NEW n \in Nat, NEW m \in Nat, a <= b, n <= m
  PROVE  a * n <= b * m
<1>1. PICK c \in Nat : b = a + c
  <2>1. b = a + (b - a) /\ b - a \in Nat
    OBVIOUS
  <2> QED BY <2>1
<1>2. PICK d \in Nat : m = n + d
  <2>1. m = n + (m - n) /\ m - n \in Nat
    OBVIOUS
  <2> QED BY <2>1
<1>3. (a + c) * (n + d) = a * n + a * d + c * n + c * d
  BY SMT
<1>4. a * n \in Nat /\ a * d \in Nat /\ c * n \in Nat /\ c * d \in Nat
  BY ProductIsNat
<1> QED BY <1>1, <1>2, <1>3, <1>4

LEMMA SyncGives ==
  ASSUME GiftPays, V8TypeOK, NEW n \in V8Syncs, V8CmdSync(n)
  PROVE  V8Message.air * n <= 2 * credit_10ms'
<1> DEFINE a == V8Message.air
           g == V8Gift
           c == V8Count
<1>1. /\ n \in Nat /\ n <= c /\ a \in Nat /\ g \in Nat /\ c \in Nat /\ V8Rich \in Nat
      /\ credit_10ms \in Nat /\ credit_10ms <= V8Rich
      /\ CreditMod \in Nat \ {0}
  BY V8Assumption, WidthAssumption DEF V8TypeOK, AirTypeOK, V8CmdSync
<1>2. a <= 2 * g /\ V8Rich + g * c < CreditMod
  BY DEF GiftPays
<1>3. credit_10ms' = (credit_10ms + g * n) % CreditMod
  BY DEF V8CmdSync, V8Given
<1> HIDE DEF a, g, c
<1>4. g * n \in Nat /\ g * c \in Nat /\ g * n <= g * c
  BY <1>1, ProductIsNat, TimesMonotone
<1>5. credit_10ms + g * n \in Nat /\ credit_10ms + g * n < CreditMod
  BY <1>1, <1>2, <1>4
<1>6. credit_10ms' = credit_10ms + g * n
  BY <1>1, <1>3, <1>5, SmallMod
<1>7. a * n <= (2 * g) * n
  <2>1. 2 * g \in Nat
    BY <1>1
  <2> QED BY <1>1, <1>2, <2>1, TimesMonotone
<1>8. (2 * g) * n = 2 * (g * n)
  BY <1>1, SMT
<1>9. a * n \in Nat
  BY <1>1, ProductIsNat
<1> QED BY <1>1, <1>4, <1>6, <1>7, <1>8, <1>9 DEF a

LEMMA TwoMoreTimes ==
  ASSUME NEW a \in Nat, NEW c \in Nat, c - 2 \in Nat
  PROVE  a * c = a * (c - 2) + 2 * a
<1>1. \A b \in Nat : a * (b + 2) = a * b + 2 * a
  BY SMT
<1>2. (c - 2) + 2 = c
  OBVIOUS
<1> QED BY <1>1, <1>2

LEMMA StillPaid ==
  ASSUME NEW cost \in Nat, NEW have \in Nat, NEW have2 \in Nat,
         NEW sent \in Nat, NEW sent2 \in Nat,
         cost <= 2 * have + sent, have2 >= have, sent2 >= sent
  PROVE  cost <= 2 * have2 + sent2
  OBVIOUS

LEMMA V8CountsFacts ==
  ASSUME NEW n \in Nat
  PROVE  /\ n % 2 \in {0, 1}
         /\ n \notin {0, 1, 3} => n - 2 \in Nat /\ (n - 2) % 2 = n % 2
         /\ n \notin {0, 1} /\ n % 2 = 1 => n >= 3
         /\ n \notin {0, 1} /\ n % 2 = 0 => n >= 2
  BY SMT

(* A count of a sync is a packet to the valve, two counts' worth of gift. *)
LEMMA V8CostFacts ==
  ASSUME V8TypeOK, fht8v_ctsync \notin {0, 1}
  PROVE  /\ V8Counts \in Nat /\ V8Counts >= 2
         /\ V8Message.air * V8Counts
              = V8Message.air * (V8Counts - 2) + 2 * V8Message.air
         /\ V8Message.air * (V8Counts - 2) \in Nat
<1>1. fht8v_ctsync \in Nat /\ V8Message.air \in Nat
  BY V8Assumption DEF V8TypeOK
<1>2. V8Counts \in Nat /\ V8Counts >= 2 /\ V8Counts - 2 \in Nat
  BY <1>1, V8CountsFacts DEF V8Counts
<1> QED BY <1>1, <1>2, TwoMoreTimes, ProductIsNat

LEMMA AheadIsNat == V8Ahead \in Nat
<1>1. V8Message.air \in Nat
  BY V8Assumption
<1> QED BY <1>1 DEF V8Ahead

LEMMA PacketIsPaid ==
  ASSUME V8TypeOK, V8PaidInv, NEW i \in V8Valve, V8Packet(i)
  PROVE  V8PaidInv'
<1> SUFFICES ASSUME v8Start \notin {0, 1}
             PROVE  /\ ~v8Refused'
                    /\ \E j \in V8Valve : v8On' \subseteq {j}
                    /\ fht8v_ctsync' \notin {0, 1}
                    /\ V8Message.air * V8Counts' <= 2 * credit_10ms' + V8Ahead'
  BY DEF V8PaidInv, V8Packet
<1>1. /\ v8I >= 0 /\ i \in V8ToTell /\ v8I' = i + 1
      /\ credit_10ms' = AirLeft(credit_10ms, V8Message)
      /\ v8Refused' = (v8Refused \/ (v8Start # 0 /\ AirRefused(credit_10ms, V8Message)))
      /\ UNCHANGED <<fht8v_ctsync, v8On>>
  BY DEF V8Packet
<1>2. /\ ~v8Refused /\ fht8v_ctsync \notin {0, 1}
      /\ V8Message.air * V8Counts <= 2 * credit_10ms + V8Ahead
  BY DEF V8PaidInv
<1>3. PICK j \in V8Valve : v8On \subseteq {j}
  BY DEF V8PaidInv
<1>4. V8Ahead = 0
  BY <1>1 DEF V8Ahead
<1>5. V8Ahead' = 2 * V8Message.air
  <2>1. i \in v8On /\ i = j /\ i \in Nat
    BY <1>1, <1>3, V8Assumption DEF V8ToTell, V8Valve
  <2>2. \A k \in v8On' : k = i /\ ~(k >= v8I')
    BY <1>1, <1>3, <2>1
  <2>3. V8ToTell' = {}
    BY <2>2, Zenon DEF V8ToTell
  <2>4. v8I' >= 0
    BY <1>1, <2>1
  <2> QED BY <2>3, <2>4 DEF V8Ahead
<1>6. V8Counts' = V8Counts
  BY <1>1 DEF V8Counts
<1> DEFINE a == V8Message.air
           cost == a * V8Counts
           rest == a * (V8Counts - 2)
<1>7. a \in Nat /\ credit_10ms \in 0 .. CreditMod - 1 /\ CreditMod \in Nat
  BY V8Assumption, WidthAssumption DEF V8TypeOK, AirTypeOK
<1>8. cost = rest + 2 * a /\ rest \in Nat
  BY <1>2, V8CostFacts
<1>9. cost <= 2 * credit_10ms
  <2> HIDE DEF cost
  <2>1. cost <= 2 * credit_10ms + V8Ahead
    BY <1>2 DEF cost
  <2> QED BY <1>4, <1>7, <2>1
<1> HIDE DEF cost, rest, a
<1>10. a <= credit_10ms
  BY <1>7, <1>8, <1>9
<1>11. ~AirRefused(credit_10ms, V8Message) /\ credit_10ms' = credit_10ms - a
  <2>1. ~(credit_10ms < a)
    BY <1>7, <1>10
  <2> QED BY <1>1, <1>7, <2>1, PacketIsCharged DEF a
<1>12. cost <= 2 * credit_10ms' + 2 * a
  BY <1>7, <1>8, <1>9, <1>10, <1>11
<1>13. a * V8Counts' <= 2 * credit_10ms' + V8Ahead'
  <2>1. a * V8Counts' = cost
    BY <1>6, Zenon DEF cost
  <2> QED BY <1>5, <1>12, <2>1 DEF a
<1>14. ~v8Refused'
  BY <1>1, <1>2, <1>11, Zenon
<1> QED BY <1>1, <1>2, <1>3, <1>13, <1>14 DEF a

LEMMA CountDownStaysPaid ==
  ASSUME V8TypeOK, V8PaidInv, V8CountDown
  PROVE  V8PaidInv'
<1> SUFFICES ASSUME v8Start' \notin {0, 1}
             PROVE  /\ ~v8Refused'
                    /\ \E i \in V8Valve : v8On' \subseteq {i}
                    /\ fht8v_ctsync' \notin {0, 1}
                    /\ V8Message.air * V8Counts' <= 2 * credit_10ms' + V8Ahead'
  BY DEF V8PaidInv
<1> DEFINE a == V8Message.air
<1>1. /\ v8Start \notin {0, 1} /\ V8CountNext # 0
      /\ fht8v_ctsync' = V8CountNext
      /\ credit_10ms' = AirEarns(credit_10ms)
      /\ v8I' = -1
      /\ UNCHANGED <<v8On, v8Refused>>
  BY DEF V8CountDown
<1>2. /\ ~v8Refused /\ fht8v_ctsync \notin {0, 1}
      /\ \E i \in V8Valve : v8On \subseteq {i}
      /\ a * V8Counts <= 2 * credit_10ms + V8Ahead
  BY <1>1 DEF V8PaidInv
<1>3. /\ a \in Nat /\ credit_10ms \in 0 .. CreditMod - 1 /\ CreditMod \in Nat
      /\ fht8v_ctsync \in 0 .. V8Count - 1 /\ V8Count \in Nat \ {0}
  BY V8Assumption, WidthAssumption DEF V8TypeOK, AirTypeOK
<1>4. V8Ahead \in {0, 2 * a} /\ V8Ahead' = 0
  BY <1>1 DEF V8Ahead
<1> DEFINE n == fht8v_ctsync
           c == V8Counts
<1>5. n \in Nat /\ n \notin {0, 1} /\ n < V8Count
  BY <1>2, <1>3
<1>6. c = IF n % 2 = 0 THEN n ELSE n - 1
  BY DEF V8Counts
<1>7. V8Counts' = IF V8CountNext % 2 = 0 THEN V8CountNext ELSE V8CountNext - 1
  BY <1>1 DEF V8Counts
<1>8. V8CountNext = IF n = 3 THEN 0 ELSE (n - 2) % V8Count
  BY <1>2 DEF V8CountNext
<1> DEFINE cost == a * c
           rest == a * (c - 2)
<1>9. cost = rest + 2 * a /\ rest \in Nat
  BY <1>2, V8CostFacts
<1>10. cost <= 2 * credit_10ms + V8Ahead
  BY <1>2
<1> HIDE DEF n, c, cost, rest
<1>11. V8CountNext # 1 /\ V8Counts' = c - 2
  <2>1. n # 3
    BY <1>1, <1>8
  <2>2. n - 2 \in Nat /\ n - 2 < V8Count /\ (n - 2) % 2 = n % 2
    BY <1>3, <1>5, <2>1, V8CountsFacts
  <2>3. (n - 2) % V8Count = n - 2
    BY <1>3, <2>2, SmallMod
  <2> QED BY <1>5, <1>6, <1>7, <1>8, <2>1, <2>2, <2>3
<1>12. credit_10ms' \in Nat /\ credit_10ms' >= credit_10ms
  BY <1>1, <1>3, EarnsIsCredit
<1>13. rest <= 2 * credit_10ms'
  <2> HIDE DEF a
  <2>1. a \in Nat /\ credit_10ms \in Nat
    BY <1>3
  <2>2. rest + 2 * a <= 2 * credit_10ms + 2 * a
    BY <1>4, <1>9, <1>10, <2>1
  <2>3. rest <= 2 * credit_10ms
    BY <1>9, <2>1, <2>2
  <2>4. 2 * credit_10ms <= 2 * credit_10ms' /\ 2 * credit_10ms' \in Nat
    <3>1. \A h \in Nat, k \in Nat : k >= h => 2 * h <= 2 * k /\ 2 * k \in Nat
      OBVIOUS
    <3> QED BY <1>12, <2>1, <3>1
  <2>5. rest \in Nat /\ 2 * credit_10ms \in Nat
    BY <1>9, <2>1
  <2> HIDE DEF rest
  <2> QED BY <2>3, <2>4, <2>5
<1>14. a * V8Counts' <= 2 * credit_10ms' + V8Ahead'
  <2>1. a * V8Counts' = rest
    BY <1>11, Zenon DEF rest
  <2> QED BY <1>4, <1>12, <1>13, <2>1
<1> QED BY <1>1, <1>2, <1>11, <1>14 DEF a

LEMMA V8PaidStep ==
  ASSUME GiftPays, V8TypeOK, V8PaidInv, [V8Next]_v8Vars
  PROVE  V8PaidInv'
<1>0. /\ credit_10ms \in 0 .. CreditMod - 1 /\ fht8v_ctsync \in Nat
      /\ V8Message.air \in Nat /\ CreditMod \in Nat
      /\ V8Ahead \in Nat /\ V8Ahead' \in Nat
  <2>1. V8Ahead' \in Nat
    BY V8Assumption DEF V8Ahead
  <2> QED BY <2>1, V8Assumption, WidthAssumption, AheadIsNat DEF V8TypeOK, AirTypeOK
<1>1. ASSUME UNCHANGED <<fht8v_ctsync, v8Start, v8Refused>>, v8On' \in {v8On, {}},
             credit_10ms' \in Nat, credit_10ms' >= credit_10ms, V8Ahead' >= V8Ahead
      PROVE  V8PaidInv'
  <2> SUFFICES ASSUME v8Start \notin {0, 1}
               PROVE  /\ ~v8Refused'
                      /\ \E i \in V8Valve : v8On' \subseteq {i}
                      /\ fht8v_ctsync' \notin {0, 1}
                      /\ V8Message.air * V8Counts' <= 2 * credit_10ms' + V8Ahead'
    BY <1>1 DEF V8PaidInv
  <2>1. /\ ~v8Refused' /\ fht8v_ctsync' \notin {0, 1}
        /\ \E i \in V8Valve : v8On' \subseteq {i}
        /\ V8Message.air * V8Counts <= 2 * credit_10ms + V8Ahead
    BY <1>1 DEF V8PaidInv
  <2>2. V8Counts' = V8Counts /\ V8Counts \in Nat
    BY <1>0, <1>1, SMT DEF V8Counts
  <2>3. V8Message.air * V8Counts \in Nat
    BY <1>0, <2>2, ProductIsNat
  <2>4. V8Message.air * V8Counts' = V8Message.air * V8Counts
    BY <2>2, Zenon
  <2>5. credit_10ms \in Nat
    BY <1>0
  <2>6. V8Message.air * V8Counts <= 2 * credit_10ms' + V8Ahead'
    BY <1>0, <1>1, <2>1, <2>3, <2>5, StillPaid
  <2> QED BY <2>1, <2>4, <2>6
<1>2. ASSUME v8I' = v8I, v8On' \subseteq v8On
      PROVE  V8Ahead' >= V8Ahead
  <2>1. V8ToTell' \subseteq V8ToTell
    BY <1>2 DEF V8ToTell
  <2> QED BY <1>0, <1>2, <2>1 DEF V8Ahead
<1>3. v8I = -1 => V8Ahead' >= V8Ahead
  BY <1>0 DEF V8Ahead
<1>4. CASE V8Host
  <2>1. ASSUME NEW n \in V8Syncs, V8CmdSync(n)
        PROVE  V8PaidInv'
    <3> DEFINE a == V8Message.air
    <3>1. a * n <= 2 * credit_10ms'
      BY <2>1, SyncGives
    <3>2. /\ fht8v_ctsync' = n /\ ~v8Refused' /\ v8On' = v8On
          /\ v8Start' = IF \E i \in V8Valve : v8On \subseteq {i} THEN n ELSE 0
      BY <2>1 DEF V8CmdSync
    <3>3. credit_10ms' \in Nat
      <4>1. V8Given(n) \in Nat
        BY V8Assumption, ProductIsNat DEF V8Given
      <4>2. credit_10ms + V8Given(n) \in Int /\ CreditMod \in Nat \ {0}
        BY <1>0, <4>1, WidthAssumption
      <4>3. (credit_10ms + V8Given(n)) % CreditMod \in 0 .. CreditMod - 1
        BY <4>2, ModInRange
      <4> QED BY <1>0, <2>1, <4>3 DEF V8CmdSync
    <3>4. n \in Nat
      BY V8Assumption
    <3> SUFFICES ASSUME v8Start' \notin {0, 1}
                 PROVE  V8PaidInv'
      BY DEF V8PaidInv
    <3>5. n \notin {0, 1} /\ \E i \in V8Valve : v8On \subseteq {i}
      BY <3>2
    <3>6. V8Counts' \in Nat /\ V8Counts' <= n
      BY <3>2, <3>4, <3>5, V8CountsFacts DEF V8Counts
    <3>7. a * V8Counts' <= a * n /\ a * V8Counts' \in Nat /\ a * n \in Nat
      BY <1>0, <3>4, <3>6, TimesMonotone, ProductIsNat
    <3> HIDE DEF a
    <3>8. a * V8Counts' <= 2 * credit_10ms' + V8Ahead'
      BY <1>0, <3>1, <3>3, <3>7
    <3> QED BY <3>2, <3>5, <3>8 DEF V8PaidInv, a
  <2>2. ASSUME NEW i \in V8Valve, V8CmdValve(i)
        PROVE  V8PaidInv'
    <3>1. CASE v8On' = v8On
      <4>1. /\ UNCHANGED <<fht8v_ctsync, v8Refused, credit_10ms, v8I>>
            /\ v8Start' = v8Start
        BY <2>2, <3>1 DEF V8CmdValve, airVars
      <4>2. V8Ahead' >= V8Ahead
        BY <1>2, <3>1, <4>1
      <4> QED BY <1>0, <1>1, <3>1, <4>1, <4>2
    <3>2. CASE v8On' # v8On
      BY <2>2, <3>2 DEF V8CmdValve, V8PaidInv
    <3> QED BY <3>1, <3>2
  <2>3. CASE V8CmdInit
    BY <1>0, <1>1, <1>2, <2>3 DEF V8CmdInit, airVars, v8History
  <2> QED BY <1>4, <2>1, <2>2, <2>3 DEF V8Host
<1>5. CASE V8Send
  BY <1>5 DEF V8Send, V8PaidInv
<1>6. CASE V8Tick
  BY <1>0, <1>1, <1>2, <1>6 DEF V8Tick
<1>7. CASE V8Idle
  <2>1. AirEarns(credit_10ms) \in Nat /\ AirEarns(credit_10ms) >= credit_10ms
    BY <1>0, EarnsIsCredit
  <2> QED BY <1>1, <1>2, <1>7, <2>1 DEF V8Idle, v8State, v8History
<1>8. CASE V8Fire
  BY <1>0, <1>1, <1>2, <1>8 DEF V8Fire
<1>9. CASE V8Low
  <2>1. v8I = -1
    BY <1>9 DEF V8Low, V8TypeOK
  <2> QED BY <1>0, <1>1, <1>3, <1>9, <2>1 DEF V8Low, airVars, v8History
<1>10. CASE (\E i \in V8Valve : V8Packet(i)) \/ V8CountDown
  BY <1>10, PacketIsPaid, CountDownStaysPaid
<1>11. CASE UNCHANGED v8Vars
  BY <1>0, <1>1, <1>2, <1>11 DEF v8Vars, airVars, v8State, v8History
<1> QED BY <1>4, <1>5, <1>6, <1>7, <1>8, <1>9, <1>10, <1>11 DEF V8Next, V8Main

(* While a sync serves a single valve and nothing else is sent, none of    *)
(* its packets is refused: for every count it is started with but 1.       *)
THEOREM V8SyncPaid ==
  ASSUME GiftPays
  PROVE  V8Spec => []V8SyncIsPaid
<1>1. V8Init => V8PaidInv
  BY DEF V8Init, V8PaidInv
<1>2. V8TypeOK /\ V8PaidInv /\ [V8Next]_v8Vars => V8PaidInv'
  BY V8PaidStep
<1>3. V8PaidInv => V8SyncIsPaid
  BY DEF V8PaidInv, V8SyncIsPaid
<1> QED BY <1>1, <1>2, <1>3, V8TypeCorrect, PTL DEF V8Spec

(* TfTypeOK in two parts: what the table holds, and what a slot counts. *)
TfTable ==
  /\ tfAddr \in [TfSlot -> TfSensor \cup {TfNobody}]
  /\ \A i, j \in TfSlot : tfAddr[i] = tfAddr[j] => i = j \/ tfAddr[i] = TfNobody
  /\ \A i, j \in TfSlot : i < j /\ tfAddr[i] = TfNobody => tfAddr[j] = TfNobody

TfTimers ==
  /\ tfTimeout \in [TfSlot -> Int]
  /\ \A i \in TfSlot : tfTimeout[i] = -1 <=> tfAddr[i] = TfNobody

TfCounters ==
  /\ tfState \in [TfSlot -> TfWindow \cup {TfSync}]
  /\ tfChanged \in [TfSlot -> 0 .. 2]
  /\ tfCount \in [TfSlot -> 0 .. TfLong]
  /\ tfQuiet \in [TfSlot -> 0 .. TfLong]

(* How a slot that was not cut gets from one send to the next: a settled   *)
(* one counts up to 3, and it has not been quiet for longer.               *)
TfCounted(i) ==
  tfCut[i] \/ (/\ tfQuiet[i] <= 3
               /\ tfChanged[i] = 0 => tfCount[i] <= 3 /\ tfQuiet[i] <= tfCount[i])

TfInv ==
  /\ TfTable /\ TfTimers /\ TfCounters
  /\ tfCut \in [TfSlot -> BOOLEAN]
  /\ \A i \in TfSlot : TfCounted(i)

LEMMA TfPartsOfType == TfTable /\ TfTimers /\ TfCounters <=> TfTypeOK
  BY DEF TfTable, TfTimers, TfCounters, TfTypeOK

LEMMA TfSlotsAreNat == TfSlot \subseteq Nat
  BY TfNumAssumption DEF TfSlot

LEMMA TfUpBounded ==
  ASSUME NEW n \in 0 .. TfLong
  PROVE  TfUp(n) \in 0 .. TfLong /\ (n < 3 => TfUp(n) = n + 1)
  BY DEF TfUp, TfLong

(* A timer call sends, or it is one of the three between two sends. *)
LEMMA TfStepCounts ==
  ASSUME NEW c \in 0 .. 2, NEW n \in 0 .. TfLong
  PROVE  /\ TfStep(c, n).changed \in 0 .. 2
         /\ TfStep(c, n).count \in 0 .. TfLong
         /\ TfStep(c, n).sends \in BOOLEAN
         /\ TfStep(c, n).sends => TfStep(c, n).changed = 2 \/ TfStep(c, n).count = 0
         /\ ~TfStep(c, n).sends => /\ c = 0 /\ n # 3
                                   /\ TfStep(c, n).changed = 0
                                   /\ TfStep(c, n).count = TfUp(n)
         /\ TfStep(c, n).count = 0 => TfStep(c, n).sends
<1>1. TfUp(n) \in 0 .. TfLong /\ TfUp(n) # 0
  BY DEF TfUp, TfLong
<1>2. CASE c = 0 /\ n + 1 = 4
  <2>1. TfStep(c, n) = [changed |-> 0, count |-> 0, sends |-> TRUE]
    BY <1>2 DEF TfStep
  <2> QED BY <2>1 DEF TfLong
<1>3. CASE c = 1
  <2>1. TfStep(c, n) = [changed |-> 2, count |-> TfUp(n), sends |-> TRUE]
    BY <1>3 DEF TfStep
  <2> QED BY <1>1, <2>1
<1>4. CASE c = 2
  <2>1. TfStep(c, n) = [changed |-> 0, count |-> 0, sends |-> TRUE]
    BY <1>4 DEF TfStep
  <2> QED BY <2>1 DEF TfLong
<1>5. CASE c = 0 /\ n + 1 # 4
  <2>1. TfStep(c, n) = [changed |-> 0, count |-> TfUp(n), sends |-> FALSE]
    BY <1>5 DEF TfStep
  <2>2. n # 3
    BY <1>5 DEF TfLong
  <2>3. /\ TfStep(c, n).changed = 0 /\ TfStep(c, n).count = TfUp(n)
        /\ TfStep(c, n).sends = FALSE
    BY <2>1
  <2> QED BY <1>1, <1>5, <2>2, <2>3
<1> QED BY <1>2, <1>3, <1>4, <1>5

-----------------------------------------------------------------------------
LEMMA TfInitInv == TfInit => TfInv
<1> USE TfNumAssumption, TfNobodyAssumption
<1> SUFFICES ASSUME TfInit PROVE TfInv
  OBVIOUS
<1>1. TfTable /\ TfTimers
  BY DEF TfInit, TfTable, TfTimers
<1>2. TfCounters
  BY DEF TfInit, TfCounters, TfLong
<1>3. tfCut \in [TfSlot -> BOOLEAN]
  BY Zenon DEF TfInit
<1>4. \A i \in TfSlot : TfCounted(i)
  BY DEF TfInit, TfCounted
<1> QED BY <1>1, <1>2, <1>3, <1>4 DEF TfInv

(* A sensor takes the first slot that is empty or its own. *)
LEMMA TfPlaceKeepsTable ==
  ASSUME TfTable, NEW a \in TfSensor, NEW i \in TfSlot, TfPlace(a, i),
         tfAddr' = [tfAddr EXCEPT ![i] = a]
  PROVE  TfTable'
<1> USE TfNobodyAssumption, TfSlotsAreNat DEF TfTable
<1>1. tfAddr' \in [TfSlot -> TfSensor \cup {TfNobody}]
  OBVIOUS
<1>2. \A j \in TfSlot : tfAddr'[j] = IF j = i THEN a ELSE tfAddr[j]
  OBVIOUS
<1>3. \A j \in TfSlot : tfAddr[j] = a => j = i
  BY DEF TfPlace
<1>4. \A j \in TfSlot : tfAddr[j] = TfNobody => i <= j
  BY DEF TfPlace
<1>5. \A j, k \in TfSlot : tfAddr'[j] = tfAddr'[k] => j = k \/ tfAddr'[j] = TfNobody
  BY <1>2, <1>3
<1>6. \A j, k \in TfSlot : j < k /\ tfAddr'[j] = TfNobody => tfAddr'[k] = TfNobody
  BY <1>2, <1>4
<1> QED BY <1>1, <1>5, <1>6

LEMMA TfSyncKeepsInv ==
  ASSUME TfInv, NEW a \in TfSensor, TfCmdSync(a)
  PROVE  TfInv'
<1> USE TfNobodyAssumption, TfSlotsAreNat
<1>1. PICK i \in TfSlot :
        /\ TfPlace(a, i)
        /\ tfAddr' = [tfAddr EXCEPT ![i] = a]
        /\ tfState' = [tfState EXCEPT ![i] = TfSync]
        /\ tfTimeout' = [tfTimeout EXCEPT ![i] = 0]
        /\ tfChanged' = [tfChanged EXCEPT ![i] = 0]
        /\ tfQuiet' = [tfQuiet EXCEPT ![i] = 0]
        /\ tfCut' = [tfCut EXCEPT ![i] = @ \/ tfCount[i] > 3]
        /\ tfCount' = tfCount
  BY DEF TfCmdSync
<1>2. TfTable'
  BY <1>1, TfPlaceKeepsTable DEF TfInv
<1>3. TfTimers'
  BY <1>1 DEF TfInv, TfTable, TfTimers
<1>4. TfCounters'
  BY <1>1 DEF TfInv, TfCounters, TfLong
<1>5. tfCut' \in [TfSlot -> BOOLEAN]
  BY <1>1, Zenon DEF TfInv
<1>6. \A j \in TfSlot : TfCounted(j)'
  <2> TAKE j \in TfSlot
  <2>1. CASE j = i
    <3>1. tfQuiet'[j] = 0 /\ tfCount'[j] = tfCount[j] /\ tfCount[j] \in 0 .. TfLong
      BY <1>1, <2>1 DEF TfInv, TfCounters
    <3>2. tfCut'[j] = (tfCut[j] \/ tfCount[j] > 3)
      BY <1>1, <2>1, Zenon DEF TfInv
    <3>3. tfCount[j] > 3 => tfCut'[j]
      BY <3>2, Zenon
    <3> QED BY <3>1, <3>3 DEF TfCounted, TfLong
  <2>2. CASE j # i
    <3>1. tfQuiet'[j] = tfQuiet[j] /\ tfCount'[j] = tfCount[j] /\ tfChanged'[j] = tfChanged[j]
      BY <1>1, <2>2 DEF TfInv, TfCounters
    <3>2. tfCut'[j] = tfCut[j]
      BY <1>1, <2>2, Zenon DEF TfInv
    <3> QED BY <3>1, <3>2 DEF TfInv, TfCounted
  <2> QED BY <2>1, <2>2
<1> QED BY <1>2, <1>3, <1>4, <1>5, <1>6 DEF TfInv

LEMMA TfStateKeepsInv ==
  ASSUME TfInv, NEW a \in TfSensor, NEW s \in TfWindow, TfCmdState(a, s)
  PROVE  TfInv'
<1>1. PICK i \in TfSlot :
        /\ tfState' = [tfState EXCEPT ![i] = s]
        /\ tfChanged' = [tfChanged EXCEPT ![i] = 1]
        /\ UNCHANGED <<tfAddr, tfTimeout, tfCount, tfQuiet, tfCut>>
  BY DEF TfCmdState
<1>2. TfTable' /\ TfTimers'
  BY <1>1 DEF TfInv, TfTable, TfTimers
<1>3. TfCounters'
  BY <1>1 DEF TfInv, TfCounters
<1>4. \A j \in TfSlot : TfCounted(j)'
  <2> TAKE j \in TfSlot
  <2>1. tfChanged'[j] = 0 => tfChanged[j] = 0
    BY <1>1 DEF TfInv, TfCounters
  <2> QED BY <1>1, <2>1 DEF TfInv, TfCounted
<1> QED BY <1>1, <1>2, <1>3, <1>4 DEF TfInv

LEMMA TfTickKeepsInv ==
  ASSUME TfInv, TfTick
  PROVE  TfInv'
<1>1. TfTable' /\ TfCounters'
  BY DEF TfTick, TfInv, TfTable, TfCounters
<1>2. TfTimers'
  BY DEF TfTick, TfInv, TfTimers
<1>3. \A j \in TfSlot : TfCounted(j)'
  BY DEF TfTick, TfInv, TfCounted
<1> QED BY <1>1, <1>2, <1>3 DEF TfTick, TfInv

LEMMA TfTimerKeepsInv ==
  ASSUME TfInv, NEW i \in TfSlot, fht_tf_timer(i)
  PROVE  TfInv'
<1> DEFINE step == TfStep(tfChanged[i], tfCount[i])
<1>1. /\ tfTimeout[i] = 0
      /\ tfTimeout' = [tfTimeout EXCEPT ![i] = TfPeriod[tfAddr[i]]]
      /\ tfChanged' = [tfChanged EXCEPT ![i] = step.changed]
      /\ tfCount' = [tfCount EXCEPT ![i] = step.count]
      /\ tfQuiet' = [tfQuiet EXCEPT ![i] = IF step.sends THEN 0 ELSE TfUp(@)]
      /\ tfCut' = [tfCut EXCEPT ![i] = @ /\ step.count # 0]
      /\ UNCHANGED <<tfAddr, tfState>>
  BY DEF fht_tf_timer
<1>2. tfChanged[i] \in 0 .. 2 /\ tfCount[i] \in 0 .. TfLong /\ tfQuiet[i] \in 0 .. TfLong
  BY DEF TfInv, TfCounters
<1>3. /\ step.changed \in 0 .. 2 /\ step.count \in 0 .. TfLong /\ step.sends \in BOOLEAN
      /\ step.sends => step.changed = 2 \/ step.count = 0
      /\ ~step.sends => /\ tfChanged[i] = 0 /\ tfCount[i] # 3
                        /\ step.changed = 0 /\ step.count = TfUp(tfCount[i])
      /\ step.count = 0 => step.sends
  BY <1>2, TfStepCounts
<1> HIDE DEF step
<1>4. TfTable'
  BY <1>1 DEF TfInv, TfTable
<1>5. TfTimers'
  <2>1. tfAddr[i] \in TfSensor
    BY <1>1 DEF TfInv, TfTable, TfTimers
  <2>2. TfPeriod[tfAddr[i]] \in Nat \ {0}
    BY <2>1, TfPeriodAssumption
  <2> QED BY <1>1, <2>2, TfNobodyAssumption DEF TfInv, TfTimers
<1>6. TfUp(tfQuiet[i]) \in 0 .. TfLong /\ TfUp(tfCount[i]) \in 0 .. TfLong
  BY <1>2, TfUpBounded
<1>7. TfCounters'
  <2>1. (IF step.sends THEN 0 ELSE TfUp(tfQuiet[i])) \in 0 .. TfLong
    BY <1>6 DEF TfLong
  <2> QED BY <1>1, <1>3, <2>1 DEF TfInv, TfCounters
<1>8. tfCut' \in [TfSlot -> BOOLEAN]
  BY <1>1, Zenon DEF TfInv
<1>9. \A j \in TfSlot : TfCounted(j)'
  <2> TAKE j \in TfSlot
  <2>1. CASE j = i
    <3>1. /\ tfQuiet'[j] = IF step.sends THEN 0 ELSE TfUp(tfQuiet[i])
          /\ tfCount'[j] = step.count /\ tfChanged'[j] = step.changed
      BY <1>1, <2>1 DEF TfInv, TfCounters
    <3>2. tfCut'[j] = (tfCut[i] /\ step.count # 0)
      BY <1>1, <2>1, Zenon DEF TfInv
    <3>3. CASE step.sends
      BY <1>3, <3>1, <3>3 DEF TfCounted
    <3>4. CASE ~step.sends
      <4>1. CASE tfCut[i]
        BY <1>3, <3>2, <3>4, <4>1 DEF TfCounted
      <4>2. CASE ~tfCut[i]
        <5>1. tfCount[i] < 3 /\ tfQuiet[i] <= tfCount[i]
          BY <1>2, <1>3, <3>4, <4>2 DEF TfInv, TfCounted
        <5>2. TfUp(tfCount[i]) = tfCount[i] + 1 /\ TfUp(tfQuiet[i]) = tfQuiet[i] + 1
          BY <1>2, <5>1, TfUpBounded
        <5> QED BY <1>2, <1>3, <3>1, <3>4, <5>1, <5>2 DEF TfCounted
      <4> QED BY <4>1, <4>2
    <3> QED BY <3>3, <3>4
  <2>2. CASE j # i
    <3>1. tfQuiet'[j] = tfQuiet[j] /\ tfCount'[j] = tfCount[j] /\ tfChanged'[j] = tfChanged[j]
      BY <1>1, <2>2 DEF TfInv, TfCounters
    <3>2. tfCut'[j] = tfCut[j]
      BY <1>1, <2>2, Zenon DEF TfInv
    <3> QED BY <3>1, <3>2 DEF TfInv, TfCounted
  <2> QED BY <2>1, <2>2
<1> QED BY <1>4, <1>5, <1>7, <1>8, <1>9 DEF TfInv

LEMMA TfInvHolds == TfSpec => []TfInv
<1>1. TfInv /\ [TfNext]_tfVars => TfInv'
  <2> SUFFICES ASSUME TfInv, [TfNext]_tfVars PROVE TfInv'
    OBVIOUS
  <2>1. ASSUME NEW a \in TfSensor, TfCmdSync(a) PROVE TfInv'
    BY <2>1, TfSyncKeepsInv
  <2>2. ASSUME NEW a \in TfSensor, NEW s \in TfWindow, TfCmdState(a, s) PROVE TfInv'
    BY <2>2, TfStateKeepsInv
  <2>3. CASE TfCmdInit
    <3> USE <2>3, TfNumAssumption, TfNobodyAssumption DEF TfCmdInit
    <3>1. TfTable' /\ TfTimers'
      BY DEF TfTable, TfTimers
    <3>2. TfCounters'
      <4>1. tfState \in [TfSlot -> TfWindow \cup {TfSync}]
        BY DEF TfInv, TfCounters
      <4> QED BY <4>1 DEF TfCounters, TfLong
    <3>3. tfCut' \in [TfSlot -> BOOLEAN]
      BY Zenon
    <3>4. \A j \in TfSlot : TfCounted(j)'
      BY DEF TfCounted
    <3> QED BY <3>1, <3>2, <3>3, <3>4 DEF TfInv
  <2>4. CASE TfTick
    BY <2>4, TfTickKeepsInv
  <2>5. ASSUME NEW i \in TfSlot, fht_tf_timer(i) PROVE TfInv'
    BY <2>5, TfTimerKeepsInv
  <2>6. CASE UNCHANGED tfVars
    BY <2>6 DEF tfVars, TfInv, TfTable, TfTimers, TfCounters, TfCounted
  <2> QED BY <2>1, <2>2, <2>3, <2>4, <2>5, <2>6 DEF TfNext, TfHost, TfMinute
<1> QED BY <1>1, TfInitInv, PTL DEF TfSpec

(* The type invariant: one slot for a sensor, no gaps, timers for the slots *)
(* in use and no others.                                                   *)
THEOREM TfTypeCorrect == TfSpec => []TfTypeOK
<1>1. TfInv => TfTypeOK
  BY TfPartsOfType DEF TfInv
<1> QED BY <1>1, TfInvHolds, PTL

(* Only a sync that comes when the count has passed 3 silences a sensor    *)
(* (fht_tf_timer, fhtsend).                                                *)
THEOREM TfSilence == TfSpec => []TfSilenceNeedsSync
<1>1. TfInv => TfSilenceNeedsSync
  <2> SUFFICES ASSUME TfInv, NEW i \in TfSlot, tfQuiet[i] > 4 PROVE tfCut[i]
    BY DEF TfSilenceNeedsSync
  <2>1. tfQuiet[i] \in 0 .. TfLong /\ TfCounted(i)
    BY DEF TfInv, TfCounters
  <2> QED BY <2>1 DEF TfCounted, TfLong
<1> QED BY <1>1, TfInvHolds, PTL

-----------------------------------------------------------------------------
(* A change and its repetition.                                            *)

(* tfChanged counts the sends of a change that are still to come. *)
TfFreshInv ==
  /\ tfFresh \in [TfSlot -> 0 .. 2]
  /\ \A i \in TfSlot : tfFresh[i] < 2 => tfChanged[i] = tfFresh[i] + 1

(* A timer call sends a change that is to be sent, and counts it. *)
LEMMA TfTimerSends ==
  ASSUME TfInv, TfFreshInv, NEW i \in TfSlot, fht_tf_timer(i)
  PROVE  /\ TfFreshInv'
         /\ \A j \in TfSlot : j # i => tfTimeout'[j] = tfTimeout[j]
         /\ tfFresh[i] < 2 => tfFresh'[i] = tfFresh[i] + 1
<1> DEFINE step == TfStep(tfChanged[i], tfCount[i])
<1>1. /\ tfTimeout' = [tfTimeout EXCEPT ![i] = TfPeriod[tfAddr[i]]]
      /\ tfChanged' = [tfChanged EXCEPT ![i] = step.changed]
      /\ tfFresh' = [tfFresh EXCEPT ![i] = IF step.sends /\ tfFresh[i] < 2
                                             THEN tfFresh[i] + 1 ELSE tfFresh[i]]
  BY DEF fht_tf_timer
<1>2. /\ tfChanged \in [TfSlot -> 0 .. 2] /\ tfCount[i] \in 0 .. TfLong
      /\ tfTimeout \in [TfSlot -> Int] /\ tfFresh \in [TfSlot -> 0 .. 2]
  BY DEF TfInv, TfCounters, TfTimers, TfFreshInv
<1>3. /\ tfChanged[i] = 1 => step.changed = 2 /\ step.sends = TRUE
      /\ tfChanged[i] = 2 => step.sends = TRUE
  <2>1. CASE tfChanged[i] = 1
    <3>1. step = [changed |-> 2, count |-> TfUp(tfCount[i]), sends |-> TRUE]
      BY <2>1 DEF TfStep
    <3> QED BY <2>1, <3>1
  <2>2. CASE tfChanged[i] = 2
    <3>1. step = [changed |-> 0, count |-> 0, sends |-> TRUE]
      BY <2>2 DEF TfStep
    <3> QED BY <2>2, <3>1
  <2> QED BY <2>1, <2>2
<1> HIDE DEF step
<1>4. tfFresh[i] \in 0 .. 2 /\ (tfFresh[i] < 2 => tfChanged[i] = tfFresh[i] + 1)
  BY DEF TfFreshInv
<1> DEFINE sent == IF step.sends /\ tfFresh[i] < 2 THEN tfFresh[i] + 1 ELSE tfFresh[i]
<1>5. /\ tfFresh[i] < 2 => sent = tfFresh[i] + 1
      /\ sent \in 0 .. 2
      /\ sent < 2 => step.changed = sent + 1
  <2>1. CASE tfFresh[i] = 0
    BY <1>3, <1>4, <2>1
  <2>2. CASE tfFresh[i] = 1
    BY <1>3, <1>4, <2>2
  <2>3. CASE tfFresh[i] = 2
    BY <2>3
  <2> QED BY <1>4, <2>1, <2>2, <2>3
<1>6. tfFresh' = [tfFresh EXCEPT ![i] = sent]
  BY <1>1
<1> HIDE DEF sent
<1>7. TfFreshInv'
  BY <1>1, <1>2, <1>5, <1>6 DEF TfFreshInv
<1>8. tfFresh'[i] = sent
  BY <1>2, <1>6
<1>9. \A j \in TfSlot : j # i => tfTimeout'[j] = tfTimeout[j]
  BY <1>1, <1>2
<1> QED BY <1>5, <1>7, <1>8, <1>9

(* A window state the host reported is sent by the next two timer calls    *)
(* of its slot, whatever happens to the others (fhtsend, fht_tf_timer).    *)
THEOREM TfRepeats == TfSpec => TfChangeIsRepeated
<1>1. TfInit => TfFreshInv
  BY DEF TfInit, TfFreshInv
<1>2. TfInv /\ TfFreshInv /\ [TfNext]_tfVars => TfFreshInv'
  <2> SUFFICES ASSUME TfInv, TfFreshInv, [TfNext]_tfVars PROVE TfFreshInv'
    OBVIOUS
  <2>0. tfChanged \in [TfSlot -> 0 .. 2] /\ tfFresh \in [TfSlot -> 0 .. 2]
    BY DEF TfInv, TfCounters, TfFreshInv
  <2>1. ASSUME NEW a \in TfSensor, TfCmdSync(a) PROVE TfFreshInv'
    BY <2>0, <2>1 DEF TfCmdSync, TfFreshInv
  <2>2. ASSUME NEW a \in TfSensor, NEW s \in TfWindow, TfCmdState(a, s) PROVE TfFreshInv'
    BY <2>0, <2>2 DEF TfCmdState, TfFreshInv
  <2>3. CASE TfCmdInit
    BY <2>3 DEF TfCmdInit, TfFreshInv
  <2>4. CASE TfTick \/ UNCHANGED tfVars
    BY <2>4 DEF TfTick, tfVars, TfFreshInv
  <2>5. ASSUME NEW i \in TfSlot, fht_tf_timer(i) PROVE TfFreshInv'
    BY <2>5, TfTimerSends
  <2> QED BY <2>1, <2>2, <2>3, <2>4, <2>5 DEF TfNext, TfHost, TfMinute
<1>3. TfInv /\ TfFreshInv /\ [TfNext]_tfVars =>
        \A i \in TfSlot : tfTimeout[i] = 0 /\ tfTimeout'[i] > 0 /\ tfFresh[i] < 2
                          => tfFresh'[i] = tfFresh[i] + 1
  <2> SUFFICES ASSUME TfInv, TfFreshInv, [TfNext]_tfVars, NEW i \in TfSlot,
                      tfTimeout[i] = 0, tfTimeout'[i] > 0, tfFresh[i] < 2
               PROVE  tfFresh'[i] = tfFresh[i] + 1
    OBVIOUS
  <2>0. tfTimeout \in [TfSlot -> Int]
    BY DEF TfInv, TfTimers
  <2>1. ASSUME NEW a \in TfSensor, TfCmdSync(a) PROVE FALSE
    BY <2>0, <2>1 DEF TfCmdSync
  <2>2. ASSUME NEW a \in TfSensor, NEW s \in TfWindow, TfCmdState(a, s) PROVE FALSE
    BY <2>2 DEF TfCmdState
  <2>3. ~TfCmdInit
    BY DEF TfCmdInit
  <2>4. ~TfTick
    BY DEF TfTick
  <2>5. ~UNCHANGED tfVars
    BY DEF tfVars
  <2>6. PICK j \in TfSlot : fht_tf_timer(j)
    BY <2>1, <2>2, <2>3, <2>4, <2>5 DEF TfNext, TfHost, TfMinute
  <2>7. j = i
    BY <2>6, TfTimerSends
  <2> QED BY <2>6, <2>7, TfTimerSends
<1> QED BY <1>1, <1>2, <1>3, TfInvHolds, PTL DEF TfSpec, TfChangeIsRepeated
=============================================================================
