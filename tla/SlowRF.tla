------------------------------- MODULE SlowRF -------------------------------
(***************************************************************************)
(* The SlowRF receiver of clib/rf_receive.c for one transceiver.  Three    *)
(* actors share a ring of RCV_BUCKETS buckets: the edge interrupt fills    *)
(* bucket_in, the silence timer interrupt closes it, and RfAnalyze_Task in *)
(* the main loop takes buckets from bucket_out.  Interrupts are never      *)
(* masked, so an interrupt handler is one step and the main loop one step  *)
(* per access to a shared variable.                                        *)
(*                                                                         *)
(* Pulse lengths are abstracted to the choices the handler makes on them;  *)
(* the bits of a telegram to their number and to the telegram they spell.  *)
(***************************************************************************)
EXTENDS Naturals, Sequences

CONSTANTS
  RCV_BUCKETS,   (* Buckets in the ring, 2 or 4.                           *)
  MaxBits,       (* 8 * MAXMSG, the bits a bucket can hold.                *)
  MinBits,       (* Fewer bits than this (two bytes) are a false alarm.    *)
  SyncMin, SyncESA, SyncHMS,   (* Sync pulses needed: 4, 10 and 12.        *)
  SyncMod,       (* sync is a uint8_t: it counts modulo 256.               *)
  Protocols,     (* The HAS_ options of the board that add bucket states.  *)
  Router,        (* Is rf_router_myid set?                                 *)
  Telegram,      (* What a burst of pulses may spell.                      *)
  NoTelegram

ASSUME BucketsAssumption == RCV_BUCKETS \in Nat \ {0, 1}
ASSUME BitsAssumption    == MaxBits \in 1 .. 2047 /\ MinBits \in Nat
ASSUME SyncAssumption    == SyncMod \in Nat \ {0, 1, 2}
ASSUME RouterAssumption  == Router \in BOOLEAN
ASSUME ProtocolAssumption ==
  Protocols \subseteq {"HMS", "ESA", "SYNC_PACKAGE", "REVOLT", "MC"}

VARIABLES
  bucket_array,      (* The buckets: state, number of bits, their telegram. *)
  bucket_in, bucket_out, bucket_nrused,
  sync,              (* sync of the one bucket that can be in STATE_SYNC.   *)
  timsk,             (* Is the silence timer interrupt enabled (TIMSK1)?    *)
  hightime,          (* The bucket whose pulse hightime was measured on.    *)
  rf_router_status,
  pc, nrused,        (* The main loop's place, and its register copy of     *)
                     (* bucket_nrused during bucket_nrused--.               *)
  drift,             (* History: increments that copy overwrote, modulo     *)
                     (* RCV_BUCKETS.                                        *)
  delivered          (* History: the telegram taken off the ring last.      *)

ring == <<bucket_array, bucket_in, bucket_out, bucket_nrused>>
main == <<bucket_out, pc, nrused, drift, delivered>>
vars == <<bucket_array, bucket_in, bucket_out, bucket_nrused, sync, timsk,
          hightime, rf_router_status, pc, nrused, drift, delivered>>

Bucket     == 0 .. RCV_BUCKETS - 1
Collecting == {"COLLECT"} \cup Protocols      (* state >= STATE_COLLECT     *)
Wrap(i)    == IF i >= RCV_BUCKETS THEN i - RCV_BUCKETS ELSE i
Filling    == bucket_array[bucket_in]

(* tx_init, and the zeroed static variables. *)
Init ==
  /\ bucket_array = [i \in Bucket |->
                       [state |-> "RESET", bits |-> 0, tele |-> NoTelegram]]
  /\ bucket_in = 0 /\ bucket_out = 0 /\ bucket_nrused = 0
  /\ sync = 0
  /\ timsk = FALSE
  /\ hightime = RCV_BUCKETS
  /\ rf_router_status = "INACTIVE"
  /\ pc = "analyze" /\ nrused = 0
  /\ drift = 0
  /\ delivered = NoTelegram
-----------------------------------------------------------------------------
(* Interrupt side: updates of the bucket being filled.  The operators      *)
(* marked "mutant" are plausible bugs for the mutation runs.               *)

BeginAnalysed(state, n, t) ==                                     (* mutant *)
  bucket_array' = [bucket_array EXCEPT ![bucket_out] =
                     [state |-> state, bits |-> n, tele |-> t]]

Begin(state, n, t) ==
  bucket_array' = [bucket_array EXCEPT ![bucket_in] =
                     [state |-> state, bits |-> n, tele |-> t]]

ResetTimerOnly == timsk' = FALSE /\ UNCHANGED bucket_array        (* mutant *)

reset_input ==
  /\ timsk' = FALSE
  /\ bucket_array' = [bucket_array EXCEPT ![bucket_in].state = "RESET"]

addbit ==
  \/ /\ Filling.bits < MaxBits
     /\ bucket_array' = [bucket_array EXCEPT ![bucket_in].bits = @ + 1]
     /\ UNCHANGED timsk
  \/ /\ Filling.bits >= MaxBits
     /\ reset_input

(* The first pulse of a burst, compared with nothing yet: too long, the    *)
(* start of a protocol recognised by one pulse, or the first sync pulse.   *)
(* A Manchester guess that its own low time or clock refutes is left in    *)
(* STATE_SYNC with one or two bits and the timer running.                  *)
retry_sync(t) ==
  \/ /\ Begin("RESET", 0, t)
     /\ UNCHANGED <<sync, timsk>>
  \/ /\ Begin("SYNC", 0, t)
     /\ sync' = 1
     /\ UNCHANGED timsk
  \/ \E p \in Protocols \cap {"REVOLT", "SYNC_PACKAGE"} :
       Begin(p, 0, t) /\ sync' = 1 /\ timsk' = TRUE
  \/ /\ "MC" \in Protocols
     /\ timsk' = TRUE
     /\ \/ \E p \in {"MC", "SYNC"}, n \in {1, 2} : Begin(p, n, t) /\ sync' = 1
        \/ Begin("SYNC", 1, t) /\ sync' = 2

(* STATE_SYNC, also reached by a Manchester bucket that just gave up.      *)
SyncPulse ==
  /\ Filling.state \in {"SYNC", "MC"}
  /\ \/ /\ sync' = (sync + 1) % SyncMod               (* another zero      *)
        /\ bucket_array' = [bucket_array EXCEPT ![bucket_in].state = "SYNC"]
        /\ UNCHANGED <<timsk, rf_router_status>>
     \/ /\ sync >= SyncMin                            (* the closing one   *)
        /\ \E t \in Telegram, p \in {"COLLECT"}
                \cup (IF sync >= SyncESA THEN {"ESA"} \cap Protocols ELSE {})
                \cup (IF sync >= SyncHMS THEN {"HMS"} \cap Protocols ELSE {}) :
             Begin(p, 0, t)
        /\ timsk' = TRUE
        /\ UNCHANGED <<sync, rf_router_status>>
     \/ /\ sync >= SyncMin /\ Router                  (* a router's ping   *)
        /\ rf_router_status' = "SYNC_RCVD"
        /\ reset_input
        /\ UNCHANGED sync
     \/ /\ sync < SyncMin                             (* too few zeroes    *)
        /\ \E t \in Telegram : retry_sync(t)
        /\ UNCHANGED rf_router_status

CollectPulse ==
  /\ Filling.state \in Collecting
  /\ \/ addbit
     \/ Filling.state \in {"COLLECT", "HMS", "ESA"} /\ reset_input
  /\ UNCHANGED <<sync, rf_router_status>>

FirstPulse ==
  /\ \/ Filling.state = "RESET"
     \/ /\ Filling.state = "SYNC_PACKAGE"    (* an Oregon preamble after all *)
        /\ "MC" \in Protocols
        /\ Filling.bits % 256 = 0
  /\ \E t \in Telegram : retry_sync(t)
  /\ UNCHANGED rf_router_status

RisingEdge ==
  /\ rf_router_status # "DATA_WAIT"
  /\ FirstPulse \/ SyncPulse \/ CollectPulse
  /\ UNCHANGED <<bucket_in, bucket_nrused, hightime, main>>

(* Only bi-phase telegrams (HMS, ESA, Manchester) take a bit here.  An HMS *)
(* or ESA pulse too short is ignored; one too long has CollectPulse's      *)
(* effect.  Two edges closer than the latency of the handler look like one *)
(* to it, so rising and falling edges need not alternate.                  *)
FallingEdge ==
  /\ rf_router_status # "DATA_WAIT"
  /\ hightime' = bucket_in
  /\ \/ Filling.state \notin {"HMS", "ESA"} /\ UNCHANGED <<bucket_array, timsk>>
     \/ Filling.state \in {"HMS", "ESA", "MC"} /\ addbit
     \/ /\ Filling.state = "MC"
        /\ bucket_array' = [bucket_array EXCEPT ![bucket_in].state = "SYNC"]
        /\ UNCHANGED timsk
  /\ UNCHANGED <<bucket_in, bucket_nrused, sync, rf_router_status, main>>

(* Any edge tells the router that its frame has arrived. *)
RouterEdge ==
  /\ rf_router_status = "DATA_WAIT"
  /\ rf_router_status' = "GOT_DATA"
  /\ UNCHANGED <<ring, sync, timsk, hightime, pc, nrused, drift, delivered>>

(* TIMER1_COMPA: silence.  The burst is too short, or no bucket would be   *)
(* left to fill, or the bucket is queued and the next one filled.          *)
ShortIsFine == Filling.state \notin Collecting                    (* mutant *)

Worthless == Filling.state \notin Collecting \/ Filling.bits < MinBits

Discard ==
  /\ timsk
  /\ Worthless \/ bucket_nrused + 1 = RCV_BUCKETS
  /\ reset_input
  /\ UNCHANGED <<bucket_in, bucket_nrused, sync, hightime, rf_router_status, main>>

EnqueueInPlace ==                                                 (* mutant *)
  /\ timsk
  /\ ~Worthless
  /\ bucket_nrused + 1 # RCV_BUCKETS
  /\ timsk' = FALSE
  /\ bucket_nrused' = bucket_nrused + 1
  /\ UNCHANGED <<bucket_array, bucket_in, sync, hightime, rf_router_status, main>>

EnqueueAlways ==                                                  (* mutant *)
  /\ timsk
  /\ ~Worthless
  /\ timsk' = FALSE
  /\ bucket_nrused' = bucket_nrused + 1
  /\ bucket_in' = Wrap(bucket_in + 1)
  /\ UNCHANGED <<bucket_array, sync, hightime, rf_router_status, main>>

Enqueue ==
  /\ timsk
  /\ ~Worthless
  /\ bucket_nrused + 1 # RCV_BUCKETS
  /\ timsk' = FALSE
  /\ bucket_nrused' = bucket_nrused + 1
  /\ bucket_in' = Wrap(bucket_in + 1)
  /\ UNCHANGED <<bucket_array, sync, hightime, rf_router_status, main>>

Interrupt == RisingEdge \/ FallingEdge \/ RouterEdge \/ Discard \/ Enqueue
-----------------------------------------------------------------------------
(* Main loop side: RfAnalyze_Task. *)

Analysed == bucket_array[bucket_out]
isr      == <<bucket_in, sync, hightime, rf_router_status>>

At(here, there) == pc = here /\ pc' = there

OneIsNothing ==                                                   (* mutant *)
  /\ At("analyze", "router")
  /\ bucket_nrused <= 1
  /\ UNCHANGED <<ring, sync, timsk, hightime, rf_router_status, nrused,
                 drift, delivered>>

NothingToDo ==
  /\ At("analyze", "router")
  /\ bucket_nrused = 0
  /\ UNCHANGED <<ring, sync, timsk, hightime, rf_router_status, nrused,
                 drift, delivered>>

RecogniseUnchecked ==                                             (* mutant *)
  /\ At("analyze", "release")
  /\ UNCHANGED <<ring, sync, timsk, hightime, rf_router_status, nrused,
                 drift, delivered>>

(* One of the analyzers knows the telegram, or its state rules out KS300. *)
Recognise ==
  /\ At("analyze", "release")
  /\ bucket_nrused # 0
  /\ UNCHANGED <<ring, sync, timsk, hightime, rf_router_status, nrused,
                 drift, delivered>>

(* The KS300 attempt: the bit that had no closing rise is added by hand    *)
(* from hightime.                                                          *)
AddLastBit ==
  /\ At("analyze", "ks300")
  /\ bucket_nrused # 0
  /\ Analysed.state = "COLLECT"
  /\ Analysed.bits < MaxBits
  /\ bucket_array' = [bucket_array EXCEPT ![bucket_out].bits = @ + 1]
  /\ UNCHANGED <<bucket_out, bucket_nrused, isr, timsk, nrused, drift, delivered>>

(* In a full bucket addbit calls reset_input, here in the main loop.  It   *)
(* stores TIMSK1 first and the state of the bucket being filled second.    *)
AddToFull ==
  /\ At("analyze", "reset_input")
  /\ bucket_nrused # 0
  /\ Analysed.state = "COLLECT"
  /\ Analysed.bits >= MaxBits
  /\ timsk' = FALSE
  /\ UNCHANGED <<ring, isr, nrused, drift, delivered>>

StopOnly ==                                                       (* mutant *)
  /\ At("reset_input", "ks300")
  /\ UNCHANGED <<ring, isr, timsk, nrused, drift, delivered>>

ResetFromMain ==
  /\ At("reset_input", "ks300")
  /\ bucket_array' = [bucket_array EXCEPT ![bucket_in].state = "RESET"]
  /\ UNCHANGED <<bucket_out, bucket_nrused, isr, timsk, nrused, drift, delivered>>

(* A KS300 keeps the bit, anything else has its last bit deleted; byteidx  *)
(* and bitidx are uint8_t, so that deleting from an empty bucket wraps.    *)
KS300 ==
  /\ At("ks300", "release")
  /\ \/ UNCHANGED bucket_array
     \/ bucket_array' = [bucket_array EXCEPT ![bucket_out].bits = (@ + 2047) % 2048]
  /\ UNCHANGED <<bucket_out, bucket_nrused, isr, timsk, nrused, drift, delivered>>

Release ==
  /\ At("release", "load")
  /\ bucket_array' = [bucket_array EXCEPT ![bucket_out].state = "RESET"]
  /\ UNCHANGED <<bucket_out, bucket_nrused, isr, timsk, nrused, drift, delivered>>

(* bucket_nrused-- is a load and a store; an interrupt may come between. *)
LoadCount ==
  /\ At("load", "store")
  /\ nrused' = bucket_nrused
  /\ UNCHANGED <<ring, isr, timsk, drift, delivered>>

StoreCount ==
  /\ At("store", "advance")
  /\ bucket_nrused' = nrused - 1
  /\ drift' = Wrap(drift + bucket_nrused - nrused)
  /\ delivered' = Analysed.tele
  /\ UNCHANGED <<bucket_array, bucket_out, isr, timsk, nrused>>

Advance ==
  /\ At("advance", "router")
  /\ bucket_out' = Wrap(bucket_out + 1)
  /\ UNCHANGED <<bucket_array, bucket_nrused, isr, timsk, nrused, drift, delivered>>

RfAnalyze_Task ==
  \/ NothingToDo \/ Recognise \/ AddLastBit \/ AddToFull \/ ResetFromMain
  \/ KS300 \/ Release \/ LoadCount \/ StoreCount \/ Advance

(* rf_router_task: a ping arms the receiver for the frame, which is read   *)
(* when it has come and given up when it is late.                          *)
RouterTurn ==
  /\ pc = "router"
  /\ \/ /\ pc' = "analyze"
        /\ \/ rf_router_status = "INACTIVE" /\ UNCHANGED rf_router_status
           \/ rf_router_status = "DATA_WAIT" /\ UNCHANGED rf_router_status
           \/ rf_router_status = "SYNC_RCVD" /\ rf_router_status' = "DATA_WAIT"
           \/ rf_router_status = "GOT_DATA" /\ rf_router_status' = "INACTIVE"
     \/ /\ pc' = "giveup"
        /\ rf_router_status = "DATA_WAIT" /\ UNCHANGED rf_router_status
  /\ UNCHANGED <<ring, sync, timsk, hightime, nrused, drift, delivered>>

RouterGiveUp ==
  /\ At("giveup", "analyze")
  /\ rf_router_status' = "INACTIVE"
  /\ UNCHANGED <<ring, sync, timsk, hightime, nrused, drift, delivered>>

rf_router_task == RouterTurn \/ RouterGiveUp

MainLoop == RfAnalyze_Task \/ rf_router_task

Next == Interrupt \/ MainLoop

(* The main loop never blocks (the watchdog sees to that); nothing is      *)
(* assumed of the air, so none of the interrupts has to happen.            *)
Spec == Init /\ [][Next]_vars /\ WF_vars(MainLoop)
-----------------------------------------------------------------------------
State    == {"RESET", "SYNC"} \cup Collecting
Bits     == 0 .. 2047     (* 8 * byteidx + 7 - bitidx *)
bucket_t == [state : State,
             bits  : Bits,
             tele  : Telegram \cup {NoTelegram}]

(* Every variable keeps its type: bucket_nrused leaves a bucket to fill    *)
(* and never underflows, and both offsets index the ring.                  *)
TypeOK ==
  /\ bucket_array \in [Bucket -> bucket_t]
  /\ bucket_in \in Bucket /\ bucket_out \in Bucket
  /\ bucket_nrused \in 0 .. RCV_BUCKETS - 1
  /\ sync \in 0 .. SyncMod - 1
  /\ timsk \in BOOLEAN
  /\ hightime \in Bucket \cup {RCV_BUCKETS}
  /\ rf_router_status \in {"INACTIVE", "SYNC_RCVD", "DATA_WAIT", "GOT_DATA"}
  /\ pc \in {"analyze", "reset_input", "ks300", "release", "load", "store",
             "advance", "router", "giveup"}
  /\ nrused \in 0 .. RCV_BUCKETS - 1
  /\ drift \in Bucket
  /\ delivered \in Telegram \cup {NoTelegram}

(* The bucket the main loop takes next. *)
First == IF pc = "advance" THEN Wrap(bucket_out + 1) ELSE bucket_out

(* How far bucket_in is ahead of it. *)
Distance == IF bucket_in >= First THEN bucket_in - First
            ELSE bucket_in + RCV_BUCKETS - First

(* bucket_nrused is the "Number of unprocessed buckets" its declaration    *)
(* says it is: the distance from the analyzer to the interrupt handler.    *)
CountIsUnprocessed == bucket_nrused = Distance

(* Whatever is lost is lost by bucket_nrused-- alone: the count falls      *)
(* behind the distance by the increments that decrement overwrote.         *)
DriftIsLostIncrements == Distance = Wrap(bucket_nrused + drift)

Queued(i) == i \in {Wrap(First + k) : k \in 0 .. bucket_nrused - 1}

(* Every queued bucket is a finished telegram of at least two bytes, and   *)
(* none of them is being filled: no reset_input, of either side, and no    *)
(* edge gets at a bucket between its Enqueue and its analysis.  (While its *)
(* count is being taken down the released bucket no longer is one.)        *)
QueuedIsComplete ==
  \A i \in Bucket : Queued(i) /\ ~(i = bucket_out /\ pc \in {"load", "store"}) =>
    /\ i # bucket_in
    /\ bucket_array[i].state \in Collecting
    /\ bucket_array[i].bits >= MinBits

(* A telegram being collected always has its silence timer running, or     *)
(* the main loop has just stopped it and is about to drop the telegram:    *)
(* otherwise it would wait for its end until the next burst.               *)
SilenceIsWatched ==
  Filling.state \in Collecting => timsk \/ pc = "reset_input"

(* The ring is the bounded queue of telegrams its two sides take it for:   *)
(* a telegram that finds it full is dropped whole, every other one reaches *)
(* the analyzer unchanged, once, in the order of arrival.                  *)
Unprocessed == [k \in 1 .. bucket_nrused |-> bucket_array[Wrap(First + k - 1)].tele]

Queue == INSTANCE Fifo WITH Cap <- RCV_BUCKETS - 1, Byte <- Telegram,
                            Nul <- NoTelegram, queue <- Unprocessed,
                            ret <- delivered
IsAFifo == Queue!Spec

(* A queued telegram is eventually taken, however busy the air. *)
QueuedIsTaken ==
  \A i \in Bucket : (Queued(i) /\ First = i) ~> (First # i)
=============================================================================
