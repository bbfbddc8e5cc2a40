------------------------------- MODULE Fht8v -------------------------------
(***************************************************************************)
(* clib/fht.c, HAS_FHT_8v: the stick drives radiator valves itself.  Every *)
(* two minutes or so Minute_Task tells each valve its position; the host   *)
(* may start a sync, which counts fht8v_ctsync down in steps of a second   *)
(* with a packet per valve and step, and gives the air time account what   *)
(* that costs.  The packets are sent by sendraw: this module extends the   *)
(* account of AirTime (but keeps no history of it).                        *)
(*                                                                         *)
(* fht8v_timeout has 16 bits and is stored by the main loop in two steps,  *)
(* high byte first, while TIMER0 decrements it.  Each packet is displayed, *)
(* which may run CDC_Task and with it any command of the host: a T command *)
(* comes between two packets of a round as well as between two rounds.     *)
(***************************************************************************)
EXTENDS AirTime

CONSTANTS
  V8Num,         (* FHT_8V_NUM.                                            *)
  V8Count,       (* 256, fht8v_ctsync is a byte.                           *)
  V8Syncs,       (* Counts the host starts a sync with.                    *)
  V8Byte,        (* 256, the weight of the high byte of fht8v_timeout.     *)
  V8Period,      (* (125*(230+(fht_hc1&7)))>>1.                            *)
  V8Message,     (* A packet to a valve, (6+2)*1 units.                    *)
  V8Gift,        (* Units given per count: 4, half a packet.               *)
  V8Rich         (* Bound: above this account the host does not sync; the  *)
                 (* code would let credit_10ms wrap at the 64th sync.      *)

ASSUME V8Assumption ==
  /\ V8Num \in Nat \ {0} /\ V8Count \in Nat \ {0} /\ V8Syncs \subseteq 0 .. V8Count - 1
  /\ V8Byte \in Nat \ {0} /\ V8Period \in Nat \ {0}
  /\ V8Message \in [air : Nat, add : {0}] /\ AirSum(V8Message) = V8Message.air
  /\ V8Message.air > 0 /\ V8Gift \in Nat /\ V8Rich \in Nat

VARIABLES
  fht8v_timeout,
  fht8v_ctsync,
  v8On,          (* Which entries of fht8v_buf are not FHT_8V_DISABLED.    *)
  v8Reload,      (* The value being stored to fht8v_timeout, or 0.         *)
  v8I,           (* i of the loop over the valves, -1 outside of it.       *)
  v8Gap,         (* History: ticks since the last call of fht8v_timer,     *)
  v8Last,        (* what kind of call that was,                            *)
  v8Start,       (* what the sync that counts was started with, as long as *)
                 (* only its packets to one valve used the account, or 0,  *)
  v8Refused      (* and whether a packet of such a sync was refused.       *)

v8State == <<fht8v_timeout, fht8v_ctsync, v8On, v8Reload, v8I>>
v8History == <<v8Gap, v8Last, v8Start, v8Refused>>
v8Vars == <<airVars, v8State, v8History>>

V8Valve == 0 .. V8Num - 1

V8Init ==
  /\ AirInit
  /\ fht8v_timeout = 0
  /\ fht8v_ctsync = 0
  /\ v8On = {}
  /\ v8Reload = 0
  /\ v8I = -1
  /\ v8Gap = 0 /\ v8Last = "none" /\ v8Start = 0 /\ v8Refused = FALSE

(* TIMER0_COMPA_vect.  v8Gap need not count further than the period. *)
V8Tick ==
  /\ AirTimer
  /\ fht8v_timeout' = IF fht8v_timeout = 0 THEN 0 ELSE fht8v_timeout - 1
  /\ v8Gap' = IF v8Gap < V8Period THEN v8Gap + 1 ELSE v8Gap
  /\ UNCHANGED <<credit_10ms, airHistory, fht8v_ctsync, v8On, v8Reload, v8I,
                 v8Last, v8Start, v8Refused>>

(* Minute_Task is not in fht8v_timer, or it displays a packet. *)
V8AtMinute == v8Reload = 0 /\ v8I = -1
V8InDisplay == v8I > 0

(* Mutant: one gift, whatever the count. *)
V8GivenOnce(n) == V8Gift

(* What a sync of n counts adds to the account. *)
V8Given(n) == V8Gift * n

(* fhtsend with FHT8V_CMD_SYNC. *)
V8CmdSync(n) ==
  /\ credit_10ms <= V8Rich
  /\ fht8v_ctsync' = n
  /\ fht8v_timeout' = 1
  /\ credit_10ms' = (credit_10ms + V8Given(n)) % CreditMod
  /\ v8Last' = "none"
  /\ v8Start' = IF \E i \in V8Valve : v8On \subseteq {i} THEN n ELSE 0
  /\ v8Refused' = FALSE
  /\ UNCHANGED <<airClock, airHistory, v8On, v8Reload, v8I, v8Gap>>

(* fhtsend with a position, or 0xff to disable the valve. *)
V8CmdValve(i) ==
  /\ v8On' \in {v8On \cup {i}, v8On \ {i}}
  /\ v8Start' = IF v8On' = v8On THEN v8Start ELSE 0
  /\ UNCHANGED <<airVars, fht8v_timeout, fht8v_ctsync, v8Reload, v8I, v8Gap, v8Last,
                 v8Refused>>

(* T01: fht_init disables all valves; a sync goes on. *)
V8CmdInit ==
  /\ v8On' = {}
  /\ UNCHANGED <<airVars, fht8v_timeout, fht8v_ctsync, v8Reload, v8I, v8History>>

V8Host ==
  /\ V8AtMinute \/ V8InDisplay
  /\ \/ \E n \in V8Syncs : V8CmdSync(n)
     \/ \E i \in V8Valve : V8CmdValve(i)
     \/ V8CmdInit

(* FHT8V_CMD_PAIR and every other message of the stick. *)
V8Send ==
  /\ V8AtMinute \/ V8InDisplay
  /\ \E m \in AirMessage : credit_10ms' = AirLeft(credit_10ms, m)
  /\ v8Start' = 0
  /\ UNCHANGED <<airClock, airHistory, v8State, v8Gap, v8Last, v8Refused>>

(* Minute_Task while no valve is due. *)
V8Idle ==
  /\ V8AtMinute /\ fht8v_timeout # 0
  /\ AirPoll
  /\ AirSecond
  /\ credit_10ms' = AirEarns(credit_10ms)
  /\ UNCHANGED <<airHistory, v8State, v8History>>

(* Mutants: no pause before the first position; 3 not special. *)
V8NoPause == IF fht8v_ctsync # 0 THEN Hz ELSE V8Period

V8CountPast == IF fht8v_ctsync = 0 THEN 0 ELSE (fht8v_ctsync - 2) % V8Count

V8CountNext ==
  IF fht8v_ctsync \in {0, 3} THEN 0 ELSE (fht8v_ctsync - 2) % V8Count

V8Timeout ==
  IF fht8v_ctsync = 3 THEN 3 * Hz ELSE IF fht8v_ctsync # 0 THEN Hz ELSE V8Period

V8Kind ==
  IF fht8v_ctsync = 3 THEN "last" ELSE IF fht8v_ctsync # 0 THEN "sync" ELSE "cycle"

(* Minute_Task finds the timeout over: the high byte of the new one. *)
V8Fire ==
  /\ V8AtMinute /\ fht8v_timeout = 0
  /\ AirPoll
  /\ fht8v_timeout' = V8Timeout - (V8Timeout % V8Byte)
  /\ v8Reload' = V8Timeout
  /\ v8Gap' = 0 /\ v8Last' = V8Kind
  /\ UNCHANGED <<clock_hsec, credit_10ms, airHistory, fht8v_ctsync, v8On, v8I,
                 v8Start, v8Refused>>

(* The low byte; the loop over the valves begins. *)
V8Low ==
  /\ v8Reload # 0
  /\ fht8v_timeout' = (fht8v_timeout - (fht8v_timeout % V8Byte)) + (v8Reload % V8Byte)
  /\ v8Reload' = 0
  /\ v8I' = 0
  /\ UNCHANGED <<airVars, fht8v_ctsync, v8On, v8History>>

(* The valves the loop has still to send to. *)
V8ToTell == {i \in v8On : i >= v8I}

(* A packet of the loop, the next valve's. *)
V8Packet(i) ==
  /\ v8I >= 0
  /\ i \in V8ToTell /\ \A j \in V8ToTell : i <= j
  /\ v8I' = i + 1
  /\ credit_10ms' = AirLeft(credit_10ms, V8Message)
  /\ v8Refused' = (v8Refused \/ (v8Start # 0 /\ AirRefused(credit_10ms, V8Message)))
  /\ UNCHANGED <<airClock, airHistory, fht8v_timeout, fht8v_ctsync, v8On, v8Reload,
                 v8Gap, v8Last, v8Start>>

(* The end of the loop: the count, and the rest of Minute_Task. *)
V8CountDown ==
  /\ v8I >= 0 /\ V8ToTell = {}
  /\ v8I' = -1
  /\ fht8v_ctsync' = V8CountNext
  /\ v8Start' = IF V8CountNext = 0 THEN 0 ELSE v8Start
  /\ AirSecond
  /\ credit_10ms' = AirEarns(credit_10ms)
  /\ UNCHANGED <<airUnseen, airHistory, fht8v_timeout, v8On, v8Reload, v8Gap, v8Last,
                 v8Refused>>

V8Main ==
  V8Idle \/ V8Fire \/ V8Low \/ (\E i \in V8Valve : V8Packet(i)) \/ V8CountDown

V8Next == V8Host \/ V8Send \/ V8Tick \/ V8Main

V8Fairness == WF_v8Vars(V8Tick) /\ SF_v8Vars(V8Main)

V8Spec == V8Init /\ [][V8Next]_v8Vars /\ V8Fairness
-----------------------------------------------------------------------------
V8TypeOK ==
  /\ AirTypeOK
  /\ fht8v_timeout \in Nat /\ fht8v_ctsync \in 0 .. V8Count - 1
  /\ v8On \subseteq V8Valve
  /\ v8Reload \in {0, Hz, 3 * Hz, V8Period}
  /\ v8I \in -1 .. V8Num /\ (v8Reload # 0 => v8I = -1)

(* The gift of a sync pays for it: while a sync serves a single valve and  *)
(* nothing else is sent, none of its packets is refused (fht.c:319         *)
(* "Cheating on the 1%": 4 units per count for 8 units per 2 counts),      *)
(* whatever it was started with but 1.  A sync of 1 goes around the byte:  *)
(* it sends some 128 packets, is given half of one, and runs dry.          *)
V8SyncIsPaid == v8Start \notin {0, 1} => ~v8Refused

(* Every sync comes to its end or is replaced by a new one, whatever it is *)
(* started with and whatever else the host does: an even count ends at 0,  *)
(* an odd one at 3, and 1 goes once around the byte.                       *)
V8SyncEnds == []<>(fht8v_ctsync = 0 \/ v8Last = "none")

(* Valves are told on time or later, never sooner than a byte's worth of   *)
(* ticks: the tick between the two stores of fht8v_timeout takes one off   *)
(* the high byte, and no order of steps takes more.                        *)
V8NotTooEarly ==
  [][V8Fire => v8Gap >= CASE v8Last = "sync" -> Hz
                          [] v8Last = "last" -> 3 * Hz - V8Byte
                          [] v8Last = "cycle" -> V8Period - V8Byte
                          [] OTHER -> 0]_v8Vars
=============================================================================
