------------------------------- MODULE FhtTf -------------------------------
(***************************************************************************)
(* clib/fht.c, HAS_FHT_TF: the stick plays FHT 80 TF window sensors.  The  *)
(* host names a sensor by a sync command and reports its window by further *)
(* commands; TIMER0 counts a timeout down for every slot of the table, and *)
(* Minute_Task sends what is due: a change at once and once again, a state *)
(* that stays every fourth time ("round about 4 minutes").                 *)
(*                                                                         *)
(* Names carry the prefix Tf, because several of these small modules are   *)
(* composed in MCBoard.  Whether the air time account lets a packet out is *)
(* the business of AirTime; here fht_tf_send counts as sent.               *)
(***************************************************************************)
EXTENDS Integers

CONSTANTS
  TfNum,         (* FHT_TF_NUM, the slots of the table.                    *)
  TfSensor,      (* House code and address of a sensor.                    *)
  TfNobody,      (* FHT_TF_DISABLED.                                       *)
  TfWindow,      (* Reported states other than the sync command.           *)
  TfSync,        (* The command 0x0C.                                      *)
  TfPeriod       (* Ticks between two timer calls, from the address byte.  *)

ASSUME TfNumAssumption == TfNum \in Nat \ {0}
ASSUME TfNobodyAssumption == TfNobody \notin TfSensor
ASSUME TfSyncAssumption == TfSync \notin TfWindow
ASSUME TfPeriodAssumption == TfPeriod \in [TfSensor -> Nat \ {0}]

VARIABLES
  tfAddr, tfState,   (* fht_tf_buf, the address bytes and the state.       *)
  tfTimeout,         (* fht_tf_timeout_Array[3*i], -1 is unused.           *)
  tfChanged,         (* [3*i+1]: 1 changed, 2 to be repeated, 0 settled.   *)
  tfCount,           (* [3*i+2], timer calls since the last settled send.  *)
  tfDeactivated,     (* fht_tf_deactivated.                                *)
  tfQuiet,           (* History: timer calls since the slot was sent.      *)
  tfFresh,           (* History: sends of a change, while it is the last   *)
                     (* command for the slot; 2 when there is none.        *)
  tfCut              (* History: a sync came when the count had passed 3.  *)

tfVars == <<tfAddr, tfState, tfTimeout, tfChanged, tfCount, tfDeactivated,
            tfQuiet, tfFresh, tfCut>>

TfSlot == 0 .. TfNum - 1

(* Calls after which a silent slot is silent for good: a bound of tfCount  *)
(* and tfQuiet, which the code lets count on (int16_t, 45 days).           *)
TfLong == 5

TfUp(n) == IF n < TfLong THEN n + 1 ELSE TfLong

(* fht_init *)
TfInit ==
  /\ tfAddr = [i \in TfSlot |-> TfNobody]
  /\ tfState = [i \in TfSlot |-> TfSync]
  /\ tfTimeout = [i \in TfSlot |-> -1]
  /\ tfChanged = [i \in TfSlot |-> 0]
  /\ tfCount = [i \in TfSlot |-> 0]
  /\ tfDeactivated = TRUE
  /\ tfQuiet = [i \in TfSlot |-> 0]
  /\ tfFresh = [i \in TfSlot |-> 2]
  /\ tfCut = [i \in TfSlot |-> FALSE]

(* The first slot that is empty or holds the sensor. *)
TfPlace(a, i) ==
  /\ tfAddr[i] \in {a, TfNobody}
  /\ \A j \in TfSlot : j < i => tfAddr[j] \notin {a, TfNobody}

(* fhtsend with the command 0x0C: the sensor is entered, its timer is      *)
(* due, and its change is settled; the counter is left as it is.           *)
TfCmdSync(a) ==
  \E i \in TfSlot :
    /\ TfPlace(a, i)
    /\ tfAddr' = [tfAddr EXCEPT ![i] = a]
    /\ tfState' = [tfState EXCEPT ![i] = TfSync]
    /\ tfTimeout' = [tfTimeout EXCEPT ![i] = 0]
    /\ tfChanged' = [tfChanged EXCEPT ![i] = 0]
    /\ tfDeactivated' = FALSE
    /\ tfQuiet' = [tfQuiet EXCEPT ![i] = 0]
    /\ tfFresh' = [tfFresh EXCEPT ![i] = 2]
    /\ tfCut' = [tfCut EXCEPT ![i] = @ \/ tfCount[i] > 3]
    /\ UNCHANGED tfCount

(* fhtsend with another state: only a sensor of the table is changed. *)
TfCmdState(a, s) ==
  \E i \in TfSlot :
    /\ tfAddr[i] = a
    /\ tfState' = [tfState EXCEPT ![i] = s]
    /\ tfChanged' = [tfChanged EXCEPT ![i] = 1]
    /\ tfFresh' = [tfFresh EXCEPT ![i] = 0]
    /\ UNCHANGED <<tfAddr, tfTimeout, tfCount, tfDeactivated, tfQuiet, tfCut>>

(* T01 with a house code: fht_init again. *)
TfCmdInit ==
  /\ tfAddr' = [i \in TfSlot |-> TfNobody]
  /\ tfTimeout' = [i \in TfSlot |-> -1]
  /\ tfChanged' = [i \in TfSlot |-> 0]
  /\ tfCount' = [i \in TfSlot |-> 0]
  /\ tfDeactivated' = TRUE
  /\ tfQuiet' = [i \in TfSlot |-> 0]
  /\ tfFresh' = [i \in TfSlot |-> 2]
  /\ tfCut' = [i \in TfSlot |-> FALSE]
  /\ UNCHANGED tfState

TfHost ==
  \/ \E a \in TfSensor : TfCmdSync(a) \/ \E s \in TfWindow : TfCmdState(a, s)
  \/ TfCmdInit

(* TIMER0_COMPA_vect *)
TfTick ==
  /\ tfTimeout' = [i \in TfSlot |-> IF tfTimeout[i] > 0 THEN tfTimeout[i] - 1
                                                        ELSE tfTimeout[i]]
  /\ UNCHANGED <<tfAddr, tfState, tfChanged, tfCount, tfDeactivated, tfQuiet,
                 tfFresh, tfCut>>

(* Mutants: the change is sent once; the settled send counts on. *)
TfStepOnce(changed, count) ==
  CASE changed = 0 /\ count + 1 = 4 -> [changed |-> 0, count |-> 0, sends |-> TRUE]
    [] changed \in {1, 2} -> [changed |-> 0, count |-> 0, sends |-> TRUE]
    [] OTHER -> [changed |-> changed, count |-> TfUp(count), sends |-> FALSE]

TfStepCountsOn(changed, count) ==
  CASE changed = 0 /\ count + 1 = 4 -> [changed |-> 0, count |-> 0, sends |-> TRUE]
    [] changed \in {1, 2} -> [changed |-> 2 * (2 - changed), count |-> TfUp(count), sends |-> TRUE]
    [] OTHER -> [changed |-> changed, count |-> TfUp(count), sends |-> FALSE]

(* fht_tf_timer: what it does to (changed, count), and whether it sends. *)
TfStep(changed, count) ==
  CASE changed = 0 /\ count + 1 = 4 -> [changed |-> 0, count |-> 0, sends |-> TRUE]
    [] changed = 1 -> [changed |-> 2, count |-> TfUp(count), sends |-> TRUE]
    [] changed = 2 -> [changed |-> 0, count |-> 0, sends |-> TRUE]
    [] OTHER -> [changed |-> changed, count |-> TfUp(count), sends |-> FALSE]

fht_tf_timer(i) ==
  LET step == TfStep(tfChanged[i], tfCount[i]) IN
  /\ tfTimeout[i] = 0
  /\ ~tfDeactivated
  /\ tfTimeout' = [tfTimeout EXCEPT ![i] = TfPeriod[tfAddr[i]]]
  /\ tfChanged' = [tfChanged EXCEPT ![i] = step.changed]
  /\ tfCount' = [tfCount EXCEPT ![i] = step.count]
  /\ tfQuiet' = [tfQuiet EXCEPT ![i] = IF step.sends THEN 0 ELSE TfUp(@)]
  /\ tfFresh' = [tfFresh EXCEPT ![i] = IF step.sends /\ @ < 2 THEN @ + 1 ELSE @]
  /\ tfCut' = [tfCut EXCEPT ![i] = @ /\ step.count # 0]
  /\ UNCHANGED <<tfAddr, tfState, tfDeactivated>>

TfMinute == \E i \in TfSlot : fht_tf_timer(i)

TfNext == TfHost \/ TfTick \/ TfMinute

TfSpec == TfInit /\ [][TfNext]_tfVars
-----------------------------------------------------------------------------
(* The slots are typed; each sensor has one slot at most, the slots are    *)
(* filled from the first one on, and exactly the filled ones are timed.    *)
TfTypeOK ==
  /\ \A i, j \in TfSlot : tfAddr[i] = tfAddr[j] => i = j \/ tfAddr[i] = TfNobody
  /\ \A i, j \in TfSlot : i < j /\ tfAddr[i] = TfNobody => tfAddr[j] = TfNobody
  /\ \A i \in TfSlot : tfTimeout[i] = -1 <=> tfAddr[i] = TfNobody
  /\ tfState \in [TfSlot -> TfWindow \cup {TfSync}]
  /\ tfAddr \in [TfSlot -> TfSensor \cup {TfNobody}]
  /\ tfChanged \in [TfSlot -> 0 .. 2]
  /\ tfCount \in [TfSlot -> 0 .. TfLong]
  /\ tfQuiet \in [TfSlot -> 0 .. TfLong]
  /\ tfTimeout \in [TfSlot -> Int]

(* A window state the host reported is sent by the next two timer calls,   *)
(* wherever the count stands, and whatever the host does to other sensors  *)
(* (fht.c:42-46 "the data will be send out within the ~one minute interval *)
(* and repeated one more time").                                           *)
TfChangeIsRepeated ==
  [][\A i \in TfSlot :
       tfTimeout[i] = 0 /\ tfTimeout'[i] > 0 /\ tfFresh[i] < 2
       => tfFresh'[i] = tfFresh[i] + 1]_tfVars

(* A sensor that is silent for more than four timer calls was synced while *)
(* a change had pushed its count past 3: no other order of commands and    *)
(* timer calls silences a sensor.                                          *)
TfSilenceNeedsSync == \A i \in TfSlot : tfQuiet[i] > 4 => tfCut[i]
=============================================================================
