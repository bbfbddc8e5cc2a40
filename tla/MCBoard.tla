------------------------------ MODULE MCBoard -------------------------------
(***************************************************************************)
(* Small instances of the components that share no state, side by side in  *)
(* one run.  build names the one that runs; the others keep their initial  *)
(* states, so that the states of a run are the sum of those of the         *)
(* components and not their product.  SlowRF is the instance with more     *)
(* than two buckets, where bucket_nrused may fall behind.                  *)
(***************************************************************************)
EXTENDS
  RingBuffer, FhtTf, Fht8v, RepeatFilter, Qfs, Console, OneWire, FastRf,
  Stacking, Hm485, RfRouter, TLC

CONSTANTS
  sensorA, sensorB,                    (* FhtTf                            *)
  fs20, switchOn, switchOff, fhtAck,   (* RepeatFilter                     *)
  older, syslog,                       (* Qfs                              *)
  ks300,                               (* SlowRF                           *)
  fhtA, fhtB, other,                   (* RfRouter                         *)
  Builds                               (* The components that take part.   *)

VARIABLES
  bucket_array, bucket_in, bucket_out, bucket_nrused, sync, timsk, hightime,
  rf_router_status, slowPc, nrused, drift, delivered,
  build

Four ==
  INSTANCE SlowRF WITH
    RCV_BUCKETS <- 3, MaxBits <- 1, MinBits <- 1,
    SyncMin <- 1, SyncESA <- 1, SyncHMS <- 1, SyncMod <- 3,
    Protocols <- {}, Router <- FALSE, Telegram <- {ks300}, NoTelegram <- "none",
    pc <- slowPc

slowVars == <<bucket_array, bucket_in, bucket_out, bucket_nrused, sync, timsk,
              hightime, rf_router_status, slowPc, nrused, drift, delivered>>
wireVars == <<ffVars, stVars, hmVars>>
farVars  == <<slowVars, rfrVars>>
fileVars == <<qfsVars, conVars, owVars>>
boardVars == <<vars, tfVars, v8Vars, repVars, fileVars, wireVars, farVars, build>>

BoardInit ==
  /\ build \in Builds
  /\ Init /\ TfInit /\ V8Init /\ RepInit /\ QfsInit /\ ConInit /\ OwInit
  /\ FfInit /\ StInit /\ HmInit /\ RfrInit /\ Four!Init
  /\ build = "repeat" \/ (txReport = {} /\ repDatum = fs20)
  /\ build = "stacking" \/ stLeft = 2

(* Everything but the component that runs. *)
Beside_ring     == <<tfVars, v8Vars, repVars, fileVars, wireVars, farVars>>
Beside_tf       == <<vars, v8Vars, repVars, fileVars, wireVars, farVars>>
Beside_air      == <<vars, tfVars, v8State, v8History, repVars, fileVars, wireVars, farVars>>
Beside_8v       == <<vars, tfVars, repVars, fileVars, wireVars, farVars>>
Beside_repeat   == <<vars, tfVars, v8Vars, fileVars, wireVars, farVars>>
Beside_qfs      == <<vars, tfVars, v8Vars, repVars, conVars, owVars, wireVars, farVars>>
Beside_console  == <<vars, tfVars, v8Vars, repVars, qfsVars, owVars, wireVars, farVars>>
Beside_onewire  == <<vars, tfVars, v8Vars, repVars, qfsVars, conVars, wireVars, farVars>>
Beside_fastrf   == <<vars, tfVars, v8Vars, repVars, fileVars, stVars, hmVars, farVars>>
Beside_stacking == <<vars, tfVars, v8Vars, repVars, fileVars, ffVars, hmVars, farVars>>
Beside_hm485    == <<vars, tfVars, v8Vars, repVars, fileVars, ffVars, stVars, farVars>>
Beside_slowrf   == <<vars, tfVars, v8Vars, repVars, fileVars, wireVars, rfrVars>>
Beside_router   == <<vars, tfVars, v8Vars, repVars, fileVars, wireVars, slowVars>>

BoardNext ==
  /\ UNCHANGED build
  /\ \/ build = "ring" /\ Next /\ UNCHANGED Beside_ring
     \/ build = "tf" /\ TfNext /\ UNCHANGED Beside_tf
     \/ build = "air" /\ AirNext /\ UNCHANGED Beside_air
     \/ build = "8v" /\ V8Next /\ UNCHANGED Beside_8v
     \/ build = "repeat" /\ RepNext /\ UNCHANGED Beside_repeat
     \/ build = "qfs" /\ QfsNext /\ UNCHANGED Beside_qfs
     \/ build = "console" /\ ConNext /\ UNCHANGED Beside_console
     \/ build = "onewire" /\ OwNext /\ UNCHANGED Beside_onewire
     \/ build = "fastrf" /\ FfNext /\ UNCHANGED Beside_fastrf
     \/ build = "stacking" /\ StNext /\ UNCHANGED Beside_stacking
     \/ build = "hm485" /\ HmNext /\ UNCHANGED Beside_hm485
     \/ build = "slowrf" /\ Four!Next /\ UNCHANGED Beside_slowrf
     \/ build = "router" /\ RfrNext /\ UNCHANGED Beside_router

(* The fairness of each component, as its own module states it. *)
Fair(name, action) == build = name /\ action /\ UNCHANGED build

BoardSpec ==
  /\ BoardInit /\ [][BoardNext]_boardVars
  /\ WF_v8Vars(Fair("8v", V8Tick))
  /\ SF_v8Vars(Fair("8v", V8Main))
  /\ WF_conVars(Fair("console", ConMainLoop))
  /\ WF_conVars(Fair("console", ConProcess))
  /\ WF_owVars(Fair("onewire", OwSearch))
  /\ WF_ffVars(Fair("fastrf", FastRF_Task))
  /\ WF_rfrVars(Fair("router", RfrTick))
  /\ SF_rfrVars(Fair("router", RfrTask))
-----------------------------------------------------------------------------
(* Instances. *)
BoardTxIsr == {"get"}
BoardPeriod == [s \in TfSensor |-> 1]
BoardAirMessages ==
  {[air |-> 3, add |-> 0], [air |-> 9, add |-> 0], [air |-> 4, add |-> 17]}
BoardValveMessage == [air |-> 2, add |-> 0]
BoardTypes ==
  (fs20 :> "plain") @@ (switchOn :> "twice") @@ (switchOff :> "twice") @@ (fhtAck :> "fhtproto")
BoardLengths == [d \in RepData |-> IF d = fs20 THEN 2 ELSE 1]
BoardReports == {{}, {"repeated"}, {"fhtproto"}}
BoardLogs == <<syslog, older>>
BoardWired == {<<1, 13>>, <<2, 1, 1>>}
BoardCodes == {c \in OwCode : ~OwNothing(c)}

(* The type invariants of the components. *)
BoardTypeOK ==
  /\ TypeOK /\ TfTypeOK /\ V8TypeOK /\ RepTypeOK /\ QfsTypeOK /\ ConTypeOK /\ OwTypeOK
  /\ FfTypeOK /\ StTypeOK /\ HmTypeOK /\ RfrTypeOK /\ Four!TypeOK
  /\ build \in Builds
=============================================================================
