---------------------------- MODULE SlowRFProofs ----------------------------
(***************************************************************************)
(* What the SlowRF ring guarantees for every number of buckets, and what   *)
(* it guarantees beyond that when there are only two.                      *)
(***************************************************************************)
EXTENDS SlowRF, SequenceTheorems, TLAPS

(* RfAnalyze_Task has found a bucket to process and has not counted it down. *)
Serving == {"reset_input", "ks300", "release", "load"}

(* Interrupts only ever raise the count, so that the copy the main loop    *)
(* decrements is positive and at most the count it will overwrite.         *)
CopyInv ==
  /\ pc \in Serving => bucket_nrused >= 1
  /\ pc = "store" => nrused >= 1 /\ nrused <= bucket_nrused

IInv == TypeOK /\ CopyInv /\ DriftIsLostIncrements

NoDrift == drift = 0

-----------------------------------------------------------------------------
(* The steps of the interrupt handlers on the bucket being filled. *)

(* A bucket, and the ring, keep their type when one field is stored to. *)
LEMMA BucketState ==
  ASSUME NEW r \in bucket_t, NEW s \in State
  PROVE  [r EXCEPT !.state = s] \in bucket_t
  BY DEF bucket_t

LEMMA BucketBits ==
  ASSUME NEW r \in bucket_t, NEW n \in Bits
  PROVE  [r EXCEPT !.bits = n] \in bucket_t
  BY DEF bucket_t

LEMMA StoreState ==
  ASSUME NEW f \in [Bucket -> bucket_t], NEW i \in Bucket, NEW s \in State
  PROVE  [f EXCEPT ![i].state = s] \in [Bucket -> bucket_t]
<1>1. [f[i] EXCEPT !.state = s] \in bucket_t
  BY BucketState
<1>2. [f EXCEPT ![i].state = s] = [f EXCEPT ![i] = [f[i] EXCEPT !.state = s]]
  OBVIOUS
<1> QED BY <1>1, <1>2

LEMMA StoreBits ==
  ASSUME NEW f \in [Bucket -> bucket_t], NEW i \in Bucket, NEW n \in Bits
  PROVE  [f EXCEPT ![i].bits = n] \in [Bucket -> bucket_t]
<1>1. [f[i] EXCEPT !.bits = n] \in bucket_t
  BY BucketBits
<1>2. [f EXCEPT ![i].bits = n] = [f EXCEPT ![i] = [f[i] EXCEPT !.bits = n]]
  OBVIOUS
<1> QED BY <1>1, <1>2

LEMMA BeginType ==
  ASSUME TypeOK, NEW s \in State, NEW n \in Bits,
         NEW t \in Telegram, Begin(s, n, t)
  PROVE  bucket_array' \in [Bucket -> bucket_t]
<1>1. [state |-> s, bits |-> n, tele |-> t] \in bucket_t
  BY DEF bucket_t
<1>2. bucket_array \in [Bucket -> bucket_t] /\ bucket_in \in Bucket
  BY DEF TypeOK
<1> QED BY <1>1, <1>2 DEF Begin

LEMMA ResetType ==
  ASSUME TypeOK, reset_input
  PROVE  bucket_array' \in [Bucket -> bucket_t] /\ timsk' \in BOOLEAN
<1>1. bucket_array \in [Bucket -> bucket_t] /\ bucket_in \in Bucket
  BY DEF TypeOK
<1>2. bucket_array' \in [Bucket -> bucket_t]
  <2>1. "RESET" \in State
    BY DEF State
  <2> QED BY <1>1, <2>1, StoreState DEF reset_input
<1> QED BY <1>2 DEF reset_input

LEMMA AddType ==
  ASSUME TypeOK, addbit
  PROVE  bucket_array' \in [Bucket -> bucket_t] /\ timsk' \in BOOLEAN
<1>1. bucket_array \in [Bucket -> bucket_t] /\ bucket_in \in Bucket /\ timsk \in BOOLEAN
  BY DEF TypeOK
<1>2. ASSUME Filling.bits < MaxBits, UNCHANGED timsk,
             bucket_array' = [bucket_array EXCEPT ![bucket_in].bits = @ + 1]
      PROVE  bucket_array' \in [Bucket -> bucket_t] /\ timsk' \in BOOLEAN
  <2>1. Filling \in bucket_t
    BY <1>1 DEF Filling
  <2>2. Filling.bits \in Bits
    BY <2>1 DEF bucket_t
  <2>3. Filling.bits + 1 \in Bits
    <3>1. \A n \in Bits : n < MaxBits => n + 1 \in Bits
      BY BitsAssumption DEF Bits
    <3> QED BY <1>2, <2>2, <3>1
  <2>4. bucket_array' = [bucket_array EXCEPT ![bucket_in].bits = Filling.bits + 1]
    BY <1>2 DEF Filling
  <2>5. bucket_array' \in [Bucket -> bucket_t]
    BY <1>1, <2>3, <2>4, StoreBits
  <2>6. timsk' \in BOOLEAN
    BY <1>1, <1>2, Zenon
  <2> QED BY <2>5, <2>6
<1> QED BY <1>2, ResetType DEF addbit

LEMMA RetryType ==
  ASSUME TypeOK, NEW t \in Telegram, retry_sync(t)
  PROVE  /\ bucket_array' \in [Bucket -> bucket_t]
         /\ sync' \in 0 .. SyncMod - 1
         /\ timsk' \in BOOLEAN
<1>1. sync \in 0 .. SyncMod - 1 /\ timsk \in BOOLEAN
      /\ 1 \in 0 .. SyncMod - 1 /\ 2 \in 0 .. SyncMod - 1
  BY SyncAssumption DEF TypeOK
<1>2. 0 \in Bits /\ 1 \in Bits /\ 2 \in Bits
  BY DEF Bits
<1>3. bucket_array' \in [Bucket -> bucket_t]
  <2>1. PICK s \in {"RESET", "SYNC"} \cup Protocols, n \in {0, 1, 2} : Begin(s, n, t)
    BY DEF retry_sync
  <2>2. s \in State /\ n \in Bits
    BY <1>2, <2>1 DEF State, Collecting
  <2> QED BY <2>1, <2>2, BeginType
<1>4. sync' \in 0 .. SyncMod - 1
  BY <1>1 DEF retry_sync
<1>5. timsk' \in BOOLEAN
  BY <1>1, Zenon DEF retry_sync
<1> QED BY <1>3, <1>4, <1>5

-----------------------------------------------------------------------------
(* Every kind of step keeps the types. *)

LEMMA InterruptType ==
  ASSUME TypeOK, Interrupt
  PROVE  TypeOK'
<1>0. /\ bucket_array \in [Bucket -> bucket_t]
      /\ bucket_in \in Bucket
      /\ bucket_nrused \in 0 .. RCV_BUCKETS - 1
      /\ sync \in 0 .. SyncMod - 1
      /\ timsk \in BOOLEAN
      /\ rf_router_status \in {"INACTIVE", "SYNC_RCVD", "DATA_WAIT", "GOT_DATA"}
  BY DEF TypeOK
<1>1. CASE RisingEdge
  <2>1. CASE FirstPulse
    <3>1. PICK t \in Telegram : retry_sync(t)
      BY <2>1 DEF FirstPulse
    <3> QED BY <1>1, <2>1, <3>1, RetryType DEF RisingEdge, FirstPulse, main, TypeOK
  <2>2. CASE SyncPulse
    <3>1. /\ bucket_array' \in [Bucket -> bucket_t]
          /\ sync' \in 0 .. SyncMod - 1
          /\ timsk' \in BOOLEAN
          /\ rf_router_status' \in {"INACTIVE", "SYNC_RCVD", "DATA_WAIT", "GOT_DATA"}
      <4>1. ASSUME sync' = (sync + 1) % SyncMod,
                   bucket_array' = [bucket_array EXCEPT ![bucket_in].state = "SYNC"],
                   UNCHANGED <<timsk, rf_router_status>>
            PROVE  <3>1!1 /\ <3>1!2 /\ <3>1!3 /\ <3>1!4
        <5>1. sync' \in 0 .. SyncMod - 1
          BY <1>0, <4>1, SyncAssumption
        <5>2. bucket_array' \in [Bucket -> bucket_t]
          <6>1. "SYNC" \in State
            BY DEF State
          <6> QED BY <1>0, <4>1, <6>1, StoreState
        <5> QED BY <1>0, <4>1, <5>1, <5>2, Zenon
      <4>2. ASSUME NEW t \in Telegram, NEW p \in {"COLLECT"} \cup Protocols,
                   Begin(p, 0, t), timsk' = TRUE, UNCHANGED <<sync, rf_router_status>>
            PROVE  <3>1!1 /\ <3>1!2 /\ <3>1!3 /\ <3>1!4
        <5>1. bucket_array' \in [Bucket -> bucket_t]
          <6>1. p \in State /\ 0 \in Bits
            BY DEF State, Collecting, Bits
          <6> QED BY <4>2, <6>1, BeginType
        <5> QED BY <1>0, <4>2, <5>1
      <4>3. ASSUME rf_router_status' = "SYNC_RCVD", reset_input, UNCHANGED sync
            PROVE  <3>1!1 /\ <3>1!2 /\ <3>1!3 /\ <3>1!4
        BY <1>0, <4>3, ResetType
      <4>4. ASSUME NEW t \in Telegram, retry_sync(t), UNCHANGED rf_router_status
            PROVE  <3>1!1 /\ <3>1!2 /\ <3>1!3 /\ <3>1!4
        BY <1>0, <4>4, RetryType
      <4>5. ASSUME NEW t \in Telegram, NEW p \in {"COLLECT"}
                \cup (IF sync >= SyncESA THEN {"ESA"} \cap Protocols ELSE {})
                \cup (IF sync >= SyncHMS THEN {"HMS"} \cap Protocols ELSE {})
            PROVE  p \in {"COLLECT"} \cup Protocols
        BY <4>5
      <4> QED BY <2>2, <4>1, <4>2, <4>3, <4>4, <4>5 DEF SyncPulse
    <3> QED BY <1>1, <3>1 DEF RisingEdge, main, TypeOK
  <2>3. CASE CollectPulse
    <3>1. bucket_array' \in [Bucket -> bucket_t] /\ timsk' \in BOOLEAN
      BY <2>3, AddType, ResetType DEF CollectPulse
    <3> QED BY <1>1, <2>3, <3>1 DEF RisingEdge, CollectPulse, main, TypeOK
  <2> QED BY <1>1, <2>1, <2>2, <2>3 DEF RisingEdge
<1>2. CASE FallingEdge
  <2>1. bucket_array' \in [Bucket -> bucket_t]
    <3>1. "SYNC" \in State
      BY DEF State
    <3>2. [bucket_array EXCEPT ![bucket_in].state = "SYNC"] \in [Bucket -> bucket_t]
      BY <1>0, <3>1, StoreState
    <3> QED BY <1>0, <1>2, <3>2, AddType DEF FallingEdge
  <2>2. timsk' \in BOOLEAN
    <3>1. addbit => timsk' \in BOOLEAN
      BY AddType
    <3> QED BY <1>0, <1>2, <3>1, Zenon DEF FallingEdge
  <2> QED BY <1>2, <2>1, <2>2 DEF FallingEdge, main, TypeOK
<1>3. CASE RouterEdge
  BY <1>3 DEF RouterEdge, ring, TypeOK
<1>4. CASE Discard
  BY <1>4, ResetType DEF Discard, main, TypeOK
<1>5. CASE Enqueue
  <2>1. bucket_in' \in Bucket /\ bucket_nrused' \in 0 .. RCV_BUCKETS - 1
    BY <1>0, <1>5, BucketsAssumption DEF Enqueue, Bucket, Wrap
  <2>2. timsk' \in BOOLEAN
    BY <1>5 DEF Enqueue
  <2> QED BY <1>5, <2>1, <2>2 DEF Enqueue, main, TypeOK
<1> QED BY <1>1, <1>2, <1>3, <1>4, <1>5 DEF Interrupt

LEMMA MainType ==
  ASSUME TypeOK, CopyInv, MainLoop
  PROVE  TypeOK'
<1>0. /\ bucket_array \in [Bucket -> bucket_t]
      /\ bucket_in \in Bucket /\ bucket_out \in Bucket
      /\ bucket_nrused \in 0 .. RCV_BUCKETS - 1
      /\ nrused \in 0 .. RCV_BUCKETS - 1
      /\ drift \in Bucket
  BY DEF TypeOK
<1>1. \A f \in [Bucket -> bucket_t] : \A i \in Bucket :
        f[i] \in bucket_t /\ f[i].bits \in Bits /\ f[i].tele \in Telegram \cup {NoTelegram}
  BY DEF bucket_t
<1>2. "RESET" \in State
  BY DEF State
<1>3. CASE NothingToDo
  BY <1>3 DEF NothingToDo, At, ring, TypeOK
<1>4. CASE Recognise
  BY <1>4 DEF Recognise, At, ring, TypeOK
<1>5. CASE AddLastBit
  <2>1. \A n \in Bits : n < MaxBits => n + 1 \in Bits
    BY BitsAssumption DEF Bits
  <2>2. Analysed.bits + 1 \in Bits
    BY <1>0, <1>1, <1>5, <2>1 DEF AddLastBit, Analysed
  <2>3. bucket_array' = [bucket_array EXCEPT ![bucket_out].bits = Analysed.bits + 1]
    BY <1>5 DEF AddLastBit, Analysed
  <2>4. bucket_array' \in [Bucket -> bucket_t]
    BY <1>0, <2>2, <2>3, StoreBits
  <2> QED BY <1>5, <2>4 DEF AddLastBit, At, isr, TypeOK
<1>6. CASE AddToFull
  BY <1>6 DEF AddToFull, At, ring, isr, TypeOK
<1>7. CASE ResetFromMain
  <2>1. bucket_array' \in [Bucket -> bucket_t]
    BY <1>0, <1>2, <1>7, StoreState DEF ResetFromMain
  <2> QED BY <1>7, <2>1 DEF ResetFromMain, At, isr, TypeOK
<1>8. CASE KS300
  <2>1. \A n \in Bits : (n + 2047) % 2048 \in Bits
    BY DEF Bits
  <2>2. (Analysed.bits + 2047) % 2048 \in Bits
    BY <1>0, <1>1, <2>1 DEF Analysed
  <2>3. \/ UNCHANGED bucket_array
        \/ bucket_array' = [bucket_array EXCEPT
                              ![bucket_out].bits = (Analysed.bits + 2047) % 2048]
    BY <1>8 DEF KS300, Analysed
  <2>4. bucket_array' \in [Bucket -> bucket_t]
    BY <1>0, <2>2, <2>3, StoreBits
  <2> QED BY <1>8, <2>4 DEF KS300, At, isr, TypeOK
<1>9. CASE Release
  <2>1. bucket_array' \in [Bucket -> bucket_t]
    BY <1>0, <1>2, <1>9, StoreState DEF Release
  <2> QED BY <1>9, <2>1 DEF Release, At, isr, TypeOK
<1>10. CASE LoadCount
  BY <1>10 DEF LoadCount, At, ring, isr, TypeOK
<1>11. CASE StoreCount
  <2>1. nrused >= 1 /\ nrused <= bucket_nrused
    BY <1>11 DEF StoreCount, At, CopyInv
  <2>2. bucket_nrused' \in 0 .. RCV_BUCKETS - 1
    <3>1. nrused - 1 \in 0 .. RCV_BUCKETS - 1
      BY <1>0, <2>1, BucketsAssumption
    <3> QED BY <1>11, <3>1 DEF StoreCount
  <2>3. drift' \in Bucket
    BY <1>0, <1>11, <2>1, BucketsAssumption DEF StoreCount, Bucket, Wrap
  <2>4. delivered' \in Telegram \cup {NoTelegram}
    BY <1>0, <1>1, <1>11 DEF StoreCount, Analysed
  <2> QED BY <1>11, <2>2, <2>3, <2>4 DEF StoreCount, At, isr, TypeOK
<1>12. CASE Advance
  <2>1. bucket_out' \in Bucket
    BY <1>0, <1>12, BucketsAssumption DEF Advance, Bucket, Wrap
  <2> QED BY <1>12, <2>1 DEF Advance, At, isr, TypeOK
<1>13. CASE RouterTurn
  BY <1>13 DEF RouterTurn, ring, TypeOK
<1>14. CASE RouterGiveUp
  BY <1>14 DEF RouterGiveUp, At, ring, TypeOK
<1> QED BY <1>3, <1>4, <1>5, <1>6, <1>7, <1>8, <1>9, <1>10, <1>11, <1>12, <1>13, <1>14
        DEF MainLoop, RfAnalyze_Task, rf_router_task

LEMMA TypeStep ==
  ASSUME TypeOK, CopyInv, [Next]_vars
  PROVE  TypeOK'
<1>1. CASE UNCHANGED vars
  BY <1>1 DEF vars, TypeOK
<1> QED BY <1>1, InterruptType, MainType DEF Next

-----------------------------------------------------------------------------
(* The count and its copy. *)

(* What the counting can see of an interrupt: nothing, or an Enqueue. *)
LEMMA InterruptCounts ==
  ASSUME Interrupt
  PROVE  /\ UNCHANGED <<bucket_out, pc, nrused, drift>>
         /\ \/ UNCHANGED <<bucket_in, bucket_nrused>>
            \/ Enqueue
  BY DEF Interrupt, RisingEdge, FallingEdge, RouterEdge, Discard, Enqueue, main, ring

LEMMA CopyStep ==
  ASSUME TypeOK, CopyInv, [Next]_vars
  PROVE  CopyInv'
<1>0. bucket_nrused \in 0 .. RCV_BUCKETS - 1 /\ nrused \in 0 .. RCV_BUCKETS - 1
  BY DEF TypeOK
<1>1. CASE Interrupt
  <2>1. UNCHANGED <<pc, nrused>>
    BY <1>1, InterruptCounts
  <2>2. bucket_nrused' = bucket_nrused \/ bucket_nrused' = bucket_nrused + 1
    BY <1>1, InterruptCounts DEF Enqueue
  <2> QED BY <1>0, <2>1, <2>2 DEF CopyInv, Serving
<1>2. CASE RfAnalyze_Task
  <2>1. CASE Recognise \/ AddLastBit \/ AddToFull \/ ResetFromMain \/ KS300 \/ Release
    BY <1>0, <2>1 DEF CopyInv, Serving, Recognise, AddLastBit, AddToFull,
                      ResetFromMain, KS300, Release, At, ring
  <2>2. CASE LoadCount
    BY <1>0, <2>2 DEF CopyInv, Serving, LoadCount, At, ring
  <2>3. CASE NothingToDo \/ StoreCount \/ Advance
    BY <2>3 DEF CopyInv, Serving, NothingToDo, StoreCount, Advance, At
  <2> QED BY <1>2, <2>1, <2>2, <2>3 DEF RfAnalyze_Task
<1>3. CASE rf_router_task
  BY <1>3 DEF CopyInv, Serving, rf_router_task, RouterTurn, RouterGiveUp, At
<1>4. CASE UNCHANGED vars
  BY <1>4 DEF vars, CopyInv, Serving
<1> QED BY <1>1, <1>2, <1>3, <1>4 DEF Next, MainLoop

LEMMA DriftStep ==
  ASSUME TypeOK, CopyInv, DriftIsLostIncrements, [Next]_vars
  PROVE  DriftIsLostIncrements'
<1>0. /\ bucket_in \in 0 .. RCV_BUCKETS - 1 /\ bucket_out \in 0 .. RCV_BUCKETS - 1
      /\ drift \in 0 .. RCV_BUCKETS - 1
      /\ bucket_nrused \in 0 .. RCV_BUCKETS - 1 /\ nrused \in 0 .. RCV_BUCKETS - 1
      /\ RCV_BUCKETS \in Nat /\ RCV_BUCKETS > 1
  BY BucketsAssumption DEF TypeOK, Bucket
<1> USE DEF DriftIsLostIncrements, Distance, First, Wrap
<1>1. ASSUME UNCHANGED <<bucket_in, bucket_out, bucket_nrused, drift>>,
             pc # "advance", pc' # "advance"
      PROVE  DriftIsLostIncrements'
  BY <1>1
<1>2. CASE Interrupt
  <2>1. CASE UNCHANGED <<bucket_in, bucket_nrused>>
    BY <1>2, <2>1, InterruptCounts
  <2>2. CASE Enqueue
    <3>1. /\ bucket_nrused' = bucket_nrused + 1 /\ bucket_nrused + 1 < RCV_BUCKETS
          /\ bucket_in' = Wrap(bucket_in + 1)
          /\ bucket_out' = bucket_out /\ drift' = drift /\ pc' = pc
      BY <1>0, <1>2, <2>2, InterruptCounts DEF Enqueue
    <3> QED BY <1>0, <3>1
  <2> QED BY <1>2, <2>1, <2>2, InterruptCounts
<1>3. CASE RfAnalyze_Task
  <2>1. CASE NothingToDo \/ Recognise \/ AddLastBit \/ AddToFull \/ ResetFromMain
             \/ KS300 \/ Release \/ LoadCount
    BY <1>1, <2>1 DEF NothingToDo, Recognise, AddLastBit, AddToFull, ResetFromMain,
                      KS300, Release, LoadCount, At, ring, isr
  <2>2. CASE StoreCount
    <3>1. /\ bucket_nrused' = nrused - 1
          /\ drift' = Wrap(drift + bucket_nrused - nrused)
          /\ bucket_in' = bucket_in /\ bucket_out' = bucket_out
          /\ pc = "store" /\ pc' = "advance"
          /\ nrused >= 1 /\ nrused <= bucket_nrused
      BY <2>2 DEF StoreCount, At, isr, CopyInv
    <3> QED BY <1>0, <3>1
  <2>3. CASE Advance
    BY <2>3 DEF Advance, At, isr
  <2> QED BY <1>3, <2>1, <2>2, <2>3 DEF RfAnalyze_Task
<1>4. CASE rf_router_task
  BY <1>1, <1>4 DEF rf_router_task, RouterTurn, RouterGiveUp, At, ring
<1>5. CASE UNCHANGED vars
  BY <1>5 DEF vars
<1> QED BY <1>2, <1>3, <1>4, <1>5 DEF Next, MainLoop

LEMMA Invariance == Spec => []IInv
<1>1. Init => IInv
  <2>1. Init => TypeOK
    <3> SUFFICES ASSUME Init PROVE TypeOK
      OBVIOUS
    <3>1. bucket_array \in [Bucket -> bucket_t]
      <4>1. [state |-> "RESET", bits |-> 0, tele |-> NoTelegram] \in bucket_t
        BY DEF bucket_t, State, Bits
      <4> QED BY <4>1 DEF Init
    <3>2. 0 \in Bucket
      BY BucketsAssumption DEF Bucket
    <3>3. timsk \in BOOLEAN
      BY DEF Init
    <3>4. 0 \in 0 .. RCV_BUCKETS - 1 /\ 0 \in 0 .. SyncMod - 1
      BY BucketsAssumption, SyncAssumption
    <3> QED BY <3>1, <3>2, <3>3, <3>4 DEF Init, TypeOK
  <2>2. Init => CopyInv
    BY DEF Init, CopyInv, Serving
  <2>3. Init => DriftIsLostIncrements
    BY BucketsAssumption DEF Init, DriftIsLostIncrements, Distance, First, Wrap
  <2> QED BY <2>1, <2>2, <2>3 DEF IInv
<1>2. IInv /\ [Next]_vars => IInv'
  BY TypeStep, CopyStep, DriftStep DEF IInv
<1> QED BY <1>1, <1>2, PTL DEF Spec

(* The types hold in every state: in particular the ring always keeps a    *)
(* bucket to fill, bucket_nrused never underflows in the main loop's       *)
(* decrement, and no bit count leaves its two bytes.                       *)
THEOREM TypeCorrect == Spec => []TypeOK
<1>1. IInv => TypeOK
  BY DEF IInv
<1> QED BY <1>1, Invariance, PTL

(* For every number of buckets: what separates the interrupt handler from  *)
(* the analyzer is bucket_nrused plus the increments bucket_nrused--       *)
(* overwrote, and nothing else.                                            *)
THEOREM DriftCorrect == Spec => []DriftIsLostIncrements
<1>1. IInv => DriftIsLostIncrements
  BY DEF IInv
<1> QED BY <1>1, Invariance, PTL

-----------------------------------------------------------------------------
(* What the buckets hold, for every number of buckets and as long as no    *)
(* increment has been lost.                                                *)

(* How far bucket i is ahead of the one the main loop takes next. *)
Ahead(i) == IF i >= First THEN i - First ELSE i + RCV_BUCKETS - First

Complete(i) == bucket_array[i].state \in Collecting /\ bucket_array[i].bits >= MinBits

(* The queued buckets are complete, but for the one being released. *)
QueueInv ==
  \A i \in Bucket : Ahead(i) < bucket_nrused =>
    Complete(i) \/ (i = bucket_out /\ pc \in {"load", "store"})

(* Beyond the bucket being filled there are only released ones: Enqueue    *)
(* does not have to clear the next.                                        *)
FreeInv ==
  \A i \in Bucket : Ahead(i) > bucket_nrused => bucket_array[i].state \notin Collecting

(* The KS300 attempt has a bit to delete, and what is released is reset. *)
ServedInv ==
  /\ pc \in {"reset_input", "ks300"} => bucket_array[bucket_out].bits > MinBits
  /\ pc \in {"load", "store"} => bucket_array[bucket_out].state = "RESET"

(* Only a bucket that is not in use spells nothing. *)
TeleInv ==
  \A i \in Bucket : bucket_array[i].state # "RESET" => bucket_array[i].tele \in Telegram

RingInv == QueueInv /\ FreeInv /\ ServedInv /\ TeleInv /\ SilenceIsWatched

(* What a store to one field of one bucket leaves alone. *)
LEMMA StoreBitsOnly ==
  ASSUME NEW f \in [Bucket -> bucket_t], NEW i \in Bucket, NEW n
  PROVE  LET g == [f EXCEPT ![i].bits = n] IN
         /\ \A j \in Bucket : j # i => g[j] = f[j]
         /\ \A j \in Bucket : g[j].state = f[j].state /\ g[j].tele = f[j].tele
         /\ g[i].bits = n
  BY DEF bucket_t

LEMMA StoreStateOnly ==
  ASSUME NEW f \in [Bucket -> bucket_t], NEW i \in Bucket, NEW s
  PROVE  LET g == [f EXCEPT ![i].state = s] IN
         /\ \A j \in Bucket : j # i => g[j] = f[j]
         /\ \A j \in Bucket : g[j].bits = f[j].bits /\ g[j].tele = f[j].tele
         /\ g[i].state = s
  BY DEF bucket_t

LEMMA StatesApart ==
  /\ "RESET" \notin Collecting /\ "SYNC" \notin Collecting /\ "COLLECT" \in Collecting
  /\ Protocols \subseteq Collecting
  BY ProtocolAssumption DEF Collecting

(* The ring seen from First. *)
LEMMA AheadFacts ==
  ASSUME TypeOK
  PROVE  /\ First \in Bucket
         /\ \A i \in Bucket : Ahead(i) \in Bucket
         /\ \A i, j \in Bucket : Ahead(i) = Ahead(j) => i = j
         /\ Distance = Ahead(bucket_in)
         /\ pc # "advance" => Ahead(bucket_out) = 0
         /\ \A i \in Bucket : Queued(i) <=> Ahead(i) < bucket_nrused
<1>1. /\ bucket_in \in 0 .. RCV_BUCKETS - 1 /\ bucket_out \in 0 .. RCV_BUCKETS - 1
      /\ bucket_nrused \in 0 .. RCV_BUCKETS - 1
      /\ RCV_BUCKETS \in Nat /\ RCV_BUCKETS > 1
  BY BucketsAssumption DEF TypeOK, Bucket
<1>2. First \in 0 .. RCV_BUCKETS - 1
  BY <1>1 DEF First, Wrap
<1>3. \A i \in Bucket : Ahead(i) \in Bucket
  BY <1>1, <1>2 DEF Ahead, Bucket
<1>4. \A i, j \in Bucket : Ahead(i) = Ahead(j) => i = j
  BY <1>1, <1>2 DEF Ahead, Bucket
<1>5. Distance = Ahead(bucket_in)
  BY DEF Distance, Ahead
<1>6. pc # "advance" => Ahead(bucket_out) = 0
  BY <1>1 DEF Ahead, First
<1>7. ASSUME NEW i \in Bucket
      PROVE  Queued(i) <=> Ahead(i) < bucket_nrused
  <2>1. Ahead(i) \in 0 .. RCV_BUCKETS - 1
    BY <1>3 DEF Bucket
  <2>2. i = Wrap(First + Ahead(i))
    BY <1>1, <1>2 DEF Ahead, Wrap, Bucket
  <2>3. ASSUME NEW k \in 0 .. bucket_nrused - 1, i = Wrap(First + k)
        PROVE  Ahead(i) = k
    BY <1>1, <1>2, <2>3 DEF Ahead, Wrap
  <2>4. Queued(i) => Ahead(i) < bucket_nrused
    BY <1>1, <2>3 DEF Queued
  <2>5. Ahead(i) < bucket_nrused => Queued(i)
    BY <1>1, <2>1, <2>2 DEF Queued
  <2> QED BY <2>4, <2>5
<1> QED BY <1>2, <1>3, <1>4, <1>5, <1>6, <1>7 DEF Bucket

(* Without drift bucket_in is right behind the queued buckets, and the     *)
(* bucket the main loop is busy with is not the one being filled.          *)
LEMMA FillingIsNext ==
  ASSUME IInv, NoDrift
  PROVE  /\ Ahead(bucket_in) = bucket_nrused
         /\ pc \in Serving \cup {"store"} => bucket_nrused >= 1 /\ bucket_out # bucket_in
<1>1. /\ bucket_nrused \in 0 .. RCV_BUCKETS - 1 /\ nrused \in 0 .. RCV_BUCKETS - 1
      /\ RCV_BUCKETS \in Nat
  BY BucketsAssumption DEF IInv, TypeOK
<1>2. Ahead(bucket_in) = bucket_nrused
  BY <1>1, AheadFacts DEF IInv, NoDrift, DriftIsLostIncrements, Wrap
<1>3. pc \in Serving \cup {"store"} => bucket_nrused >= 1
  BY <1>1 DEF IInv, CopyInv
<1>4. pc \in Serving \cup {"store"} => Ahead(bucket_out) = 0
  BY AheadFacts DEF IInv, Serving
<1> QED BY <1>1, <1>2, <1>3, <1>4

(* What an edge or the silence timer does to the bucket being filled,      *)
(* unless it queues it: nothing, a reset, the beginning of a burst, a bit, *)
(* or back to counting zeroes.                                             *)
FillNothing == UNCHANGED <<bucket_array, timsk>>

FillBegin ==
  \E s \in State, n \in Bits, t \in Telegram :
    Begin(s, n, t) /\ (s \in Collecting => timsk' = TRUE)

FillBit ==
  /\ bucket_array' = [bucket_array EXCEPT ![bucket_in].bits = @ + 1]
  /\ UNCHANGED timsk

FillSync ==
  /\ Filling.state # "RESET"
  /\ bucket_array' = [bucket_array EXCEPT ![bucket_in].state = "SYNC"]
  /\ UNCHANGED timsk

FillStep == FillNothing \/ reset_input \/ FillBegin \/ FillBit \/ FillSync

LEMMA InterruptFills ==
  ASSUME Interrupt, ~Enqueue
  PROVE  FillStep /\ UNCHANGED <<bucket_in, bucket_out, bucket_nrused, pc, drift, delivered>>
<1>1. UNCHANGED <<bucket_in, bucket_out, bucket_nrused, pc, drift, delivered>>
  BY DEF Interrupt, RisingEdge, FallingEdge, RouterEdge, Discard, main, ring
<1> SUFFICES FillStep
  BY <1>1
<1>2. /\ "RESET" \in State /\ "SYNC" \in State /\ {"COLLECT"} \cup Protocols \subseteq State
      /\ 0 \in Bits /\ 1 \in Bits /\ 2 \in Bits
  BY DEF State, Collecting, Bits
<1>3. ASSUME NEW t \in Telegram, retry_sync(t)
      PROVE  FillBegin
  <2>1. CASE Begin("RESET", 0, t) \/ Begin("SYNC", 0, t)
    BY <1>2, <2>1, StatesApart DEF FillBegin
  <2>2. ASSUME NEW p \in State, NEW n \in {0, 1, 2}, Begin(p, n, t), timsk' = TRUE
        PROVE  FillBegin
    BY <1>2, <2>2 DEF FillBegin
  <2>3. "MC" \in Protocols => "MC" \in State
    BY <1>2
  <2> QED BY <1>2, <1>3, <2>1, <2>2, <2>3 DEF retry_sync
<1>4. addbit => FillBit \/ reset_input
  BY DEF addbit, FillBit
<1>5. CASE RisingEdge
  <2>1. CASE SyncPulse
    <3>1. Filling.state # "RESET"
      BY <2>1 DEF SyncPulse
    <3>2. ASSUME NEW t \in Telegram, NEW p \in {"COLLECT"} \cup Protocols,
                 Begin(p, 0, t), timsk' = TRUE
          PROVE  FillBegin
      BY <1>2, <3>2 DEF FillBegin
    <3>3. ASSUME NEW p \in {"COLLECT"}
                  \cup (IF sync >= SyncESA THEN {"ESA"} \cap Protocols ELSE {})
                  \cup (IF sync >= SyncHMS THEN {"HMS"} \cap Protocols ELSE {})
          PROVE  p \in {"COLLECT"} \cup Protocols
      BY <3>3
    <3>4. /\ bucket_array' = [bucket_array EXCEPT ![bucket_in].state = "SYNC"]
          /\ UNCHANGED timsk
          => FillSync
      BY <3>1 DEF FillSync
    <3>5. FillSync \/ FillBegin \/ reset_input
      BY <1>3, <2>1, <3>2, <3>3, <3>4 DEF SyncPulse
    <3> QED BY <3>5 DEF FillStep
  <2> QED BY <1>3, <1>4, <1>5, <2>1 DEF RisingEdge, FirstPulse, CollectPulse, FillStep
<1>6. CASE FallingEdge
  <2>1. CASE UNCHANGED <<bucket_array, timsk>>
    BY <2>1 DEF FillStep, FillNothing
  <2>2. CASE /\ Filling.state = "MC"
             /\ bucket_array' = [bucket_array EXCEPT ![bucket_in].state = "SYNC"]
             /\ UNCHANGED timsk
    <3>1. FillSync
      BY <2>2 DEF FillSync
    <3> QED BY <3>1 DEF FillStep
  <2>3. CASE addbit
    BY <1>4, <2>3 DEF FillStep
  <2> QED BY <1>6, <2>1, <2>2, <2>3 DEF FallingEdge
<1>7. CASE RouterEdge
  BY <1>7 DEF RouterEdge, ring, FillStep, FillNothing
<1>8. CASE Discard
  BY <1>8 DEF Discard, FillStep
<1> QED BY <1>5, <1>6, <1>7, <1>8 DEF Interrupt

(* So the other buckets are left alone, a telegram that is being collected *)
(* is watched if it was watched, and what is not reset spells something.   *)
FillLocal ==
  /\ \A i \in Bucket : i # bucket_in => bucket_array'[i] = bucket_array[i]
  /\ Filling'.state \in Collecting =>
       timsk' = TRUE \/ (Filling.state \in Collecting /\ timsk' = timsk)
  /\ Filling'.state # "RESET" =>
       Filling'.tele \in Telegram
       \/ (Filling.state # "RESET" /\ Filling'.tele = Filling.tele)

LEMMA FillStepLocal ==
  ASSUME TypeOK, FillStep, UNCHANGED bucket_in
  PROVE  FillLocal
<1> USE DEF FillLocal
<1>1. bucket_array \in [Bucket -> bucket_t] /\ bucket_in \in Bucket
  BY DEF TypeOK
<1>2. CASE FillNothing
  BY <1>2 DEF Filling, FillNothing
<1>3. CASE reset_input
  <2>1. bucket_array' = [bucket_array EXCEPT ![bucket_in].state = "RESET"]
    BY <1>3 DEF reset_input
  <2> QED BY <1>1, <2>1, StoreStateOnly, StatesApart DEF Filling
<1>4. CASE FillBegin
  <2>1. PICK s \in State, n \in Bits, t \in Telegram :
           Begin(s, n, t) /\ (s \in Collecting => timsk' = TRUE)
    BY <1>4 DEF FillBegin
  <2>2. Filling' = [state |-> s, bits |-> n, tele |-> t]
    BY <1>1, <2>1 DEF Begin, Filling
  <2> QED BY <1>1, <2>1, <2>2 DEF Begin
<1>5. CASE FillBit
  <2>1. bucket_array' = [bucket_array EXCEPT ![bucket_in].bits = Filling.bits + 1]
    BY <1>5 DEF Filling, FillBit
  <2>2. Filling'.state = Filling.state /\ Filling'.tele = Filling.tele
    BY <1>1, <2>1, StoreBitsOnly DEF Filling
  <2>3. \A i \in Bucket : i # bucket_in => bucket_array'[i] = bucket_array[i]
    BY <1>1, <2>1, StoreBitsOnly
  <2> QED BY <1>5, <2>2, <2>3 DEF FillBit
<1>6. CASE FillSync
  <2>1. bucket_array' = [bucket_array EXCEPT ![bucket_in].state = "SYNC"]
    BY <1>6 DEF FillSync
  <2>2. Filling'.state = "SYNC" /\ Filling'.tele = Filling.tele
    BY <1>1, <2>1, StoreStateOnly DEF Filling
  <2>3. \A i \in Bucket : i # bucket_in => bucket_array'[i] = bucket_array[i]
    BY <1>1, <2>1, StoreStateOnly
  <2> QED BY <1>6, <2>2, <2>3, StatesApart DEF FillSync
<1> QED BY <1>2, <1>3, <1>4, <1>5, <1>6 DEF FillStep

-----------------------------------------------------------------------------
(* Every kind of step keeps RingInv. *)

(* A step of an interrupt handler in the bucket being filled. *)
LEMMA FillKeepsRing ==
  ASSUME IInv, NoDrift, RingInv, Interrupt, ~Enqueue
  PROVE  RingInv'
<1>1. TypeOK
  BY DEF IInv
<1>2. FillStep /\ UNCHANGED <<bucket_in, bucket_out, bucket_nrused, pc>>
  BY InterruptFills
<1>3. FillLocal
  BY <1>1, <1>2, FillStepLocal
<1>4. \A i \in Bucket : Ahead(i)' = Ahead(i)
  BY <1>2 DEF Ahead, First
<1>5. bucket_in \in Bucket /\ bucket_out \in Bucket /\ bucket_nrused \in Nat
  BY <1>1 DEF TypeOK
<1>6. Ahead(bucket_in) = bucket_nrused
  BY FillingIsNext
<1>7. \A i \in Bucket : Ahead(i) < bucket_nrused \/ Ahead(i) > bucket_nrused =>
                          i # bucket_in /\ bucket_array'[i] = bucket_array[i]
  BY <1>3, <1>5, <1>6 DEF FillLocal
<1>8. QueueInv'
  BY <1>2, <1>4, <1>7 DEF RingInv, QueueInv, Complete
<1>9. FreeInv'
  BY <1>2, <1>4, <1>7 DEF RingInv, FreeInv
<1>10. ServedInv'
  <2>1. CASE pc \in Serving
    <3>1. bucket_array'[bucket_out] = bucket_array[bucket_out]
      BY <1>3, <1>5, <2>1, FillingIsNext DEF FillLocal
    <3> QED BY <1>2, <3>1 DEF RingInv, ServedInv
  <2>2. CASE pc = "store"
    <3>1. bucket_array'[bucket_out] = bucket_array[bucket_out]
      BY <1>3, <1>5, <2>2, FillingIsNext DEF FillLocal
    <3> QED BY <1>2, <3>1 DEF RingInv, ServedInv
  <2> QED BY <1>2, <2>1, <2>2 DEF ServedInv, Serving
<1>11. TeleInv'
  <2>1. bucket_array'[bucket_in].state # "RESET" => bucket_array'[bucket_in].tele \in Telegram
    BY <1>2, <1>3, <1>5 DEF RingInv, TeleInv, FillLocal, Filling
  <2> QED BY <1>2, <1>3, <2>1 DEF RingInv, TeleInv, FillLocal
<1>12. SilenceIsWatched'
  BY <1>2, <1>3 DEF RingInv, SilenceIsWatched, FillLocal
<1> QED BY <1>8, <1>9, <1>10, <1>11, <1>12 DEF RingInv

(* The bucket that was filled is the last of the queue, and the next one,  *)
(* which is free, is filled.                                               *)
LEMMA EnqueueKeepsRing ==
  ASSUME IInv, NoDrift, RingInv, Enqueue
  PROVE  RingInv'
<1>1. TypeOK
  BY DEF IInv
<1>2. /\ ~Worthless /\ bucket_nrused + 1 # RCV_BUCKETS
      /\ bucket_nrused' = bucket_nrused + 1
      /\ bucket_in' = Wrap(bucket_in + 1)
      /\ UNCHANGED <<bucket_array, bucket_out, pc>>
  BY DEF Enqueue, main
<1>3. /\ bucket_in \in 0 .. RCV_BUCKETS - 1 /\ bucket_out \in 0 .. RCV_BUCKETS - 1
      /\ bucket_nrused \in 0 .. RCV_BUCKETS - 1
      /\ First \in 0 .. RCV_BUCKETS - 1
      /\ RCV_BUCKETS \in Nat /\ RCV_BUCKETS > 1
  BY <1>1, BucketsAssumption, AheadFacts DEF TypeOK, Bucket
<1>4. \A i \in Bucket : Ahead(i)' = Ahead(i) /\ Ahead(i) \in 0 .. RCV_BUCKETS - 1
  BY <1>1, <1>2, AheadFacts DEF Ahead, First, Bucket
<1>5. Ahead(bucket_in) = bucket_nrused
  BY FillingIsNext
<1>6. bucket_in' \in Bucket /\ Ahead(bucket_in') = bucket_nrused + 1
  BY <1>2, <1>3, <1>5 DEF Ahead, Wrap, Bucket
<1>7. QueueInv'
  <2> SUFFICES ASSUME NEW i \in Bucket, Ahead(i) < bucket_nrused + 1
               PROVE  Complete(i) \/ (i = bucket_out /\ pc \in {"load", "store"})
    BY <1>2, <1>4 DEF QueueInv, Complete
  <2>1. CASE Ahead(i) < bucket_nrused
    BY <2>1 DEF RingInv, QueueInv
  <2>2. CASE Ahead(i) = bucket_nrused
    <3>1. i = bucket_in
      BY <1>1, <1>3, <1>5, <2>2, AheadFacts DEF Bucket
    <3>2. bucket_array[bucket_in].bits \in Bits
      BY <1>1 DEF TypeOK, bucket_t
    <3>3. bucket_array[bucket_in].bits \in Nat /\ MinBits \in Nat
      <4>1. \A n \in Bits : n \in Nat
        BY DEF Bits
      <4> QED BY <3>2, <4>1, BitsAssumption
    <3>4. bucket_array[i].state \in Collecting /\ ~(bucket_array[i].bits < MinBits)
      <4>1. ~Worthless
        BY <1>2
      <4> QED BY <3>1, <4>1, Zenon DEF Worthless, Filling
    <3>5. bucket_array[i].bits >= MinBits
      BY <3>1, <3>3, <3>4
    <3> QED BY <3>4, <3>5 DEF Complete
  <2> QED BY <1>3, <1>4, <2>1, <2>2
<1>8. FreeInv'
  BY <1>2, <1>3, <1>4 DEF RingInv, FreeInv
<1>9. ServedInv' /\ TeleInv'
  BY <1>2 DEF RingInv, ServedInv, TeleInv
<1>10. SilenceIsWatched'
  <2>1. bucket_array[bucket_in'].state \notin Collecting
    BY <1>3, <1>6 DEF RingInv, FreeInv
  <2> QED BY <1>2, <2>1 DEF SilenceIsWatched, Filling
<1> QED BY <1>7, <1>8, <1>9, <1>10 DEF RingInv

(* A step of the main loop that neither stores to a bucket nor counts. *)
LEMMA LookKeepsRing ==
  ASSUME RingInv, UNCHANGED <<bucket_array, bucket_in, bucket_out, bucket_nrused, timsk>>,
         pc \notin {"reset_input", "advance"}, pc' \notin {"reset_input", "ks300", "advance"},
         pc \in {"load", "store"} <=> pc' \in {"load", "store"}
  PROVE  RingInv'
<1>1. \A i \in Bucket : Ahead(i)' = Ahead(i)
  BY DEF Ahead, First
<1>2. QueueInv'
  BY <1>1 DEF RingInv, QueueInv, Complete
<1>3. FreeInv' /\ ServedInv' /\ TeleInv'
  BY <1>1 DEF RingInv, FreeInv, ServedInv, TeleInv
<1>4. SilenceIsWatched'
  BY DEF RingInv, SilenceIsWatched, Filling
<1> QED BY <1>2, <1>3, <1>4 DEF RingInv

(* AddLastBit and KS300 store to the bits of the bucket that is served,    *)
(* and leave it enough of them.                                            *)
LEMMA BitsKeepRing ==
  ASSUME IInv, NoDrift, RingInv, NEW n \in Bits,
         pc \in {"analyze", "ks300"}, pc' \in {"ks300", "release"},
         bucket_nrused # 0, n >= MinBits, pc' = "ks300" => n > MinBits,
         bucket_array' = [bucket_array EXCEPT ![bucket_out].bits = n],
         UNCHANGED <<bucket_in, bucket_out, bucket_nrused, timsk>>
  PROVE  RingInv'
<1>1. TypeOK /\ bucket_array \in [Bucket -> bucket_t]
      /\ bucket_in \in Bucket /\ bucket_out \in Bucket
  BY DEF IInv, TypeOK
<1>2. \A i \in Bucket : Ahead(i)' = Ahead(i)
  BY DEF Ahead, First
<1>3. /\ \A j \in Bucket : j # bucket_out => bucket_array'[j] = bucket_array[j]
      /\ \A j \in Bucket : /\ bucket_array'[j].state = bucket_array[j].state
                           /\ bucket_array'[j].tele = bucket_array[j].tele
      /\ bucket_array'[bucket_out].bits = n
  BY <1>1, StoreBitsOnly
<1>4. QueueInv'
  <2> SUFFICES ASSUME NEW i \in Bucket, Ahead(i) < bucket_nrused
               PROVE  Complete(i)'
    BY <1>2 DEF QueueInv
  <2>1. Complete(i)
    BY DEF RingInv, QueueInv
  <2> QED BY <1>3, <2>1 DEF Complete
<1>5. FreeInv' /\ TeleInv'
  BY <1>2, <1>3 DEF RingInv, FreeInv, TeleInv
<1>6. ServedInv'
  BY <1>3 DEF ServedInv
<1>7. SilenceIsWatched'
  BY <1>1, <1>3 DEF RingInv, SilenceIsWatched, Filling
<1> QED BY <1>4, <1>5, <1>6, <1>7 DEF RingInv

(* The steps of the KS300 attempt. *)
LEMMA KS300KeepsRing ==
  ASSUME IInv, NoDrift, RingInv, MinBits < MaxBits,
         AddLastBit \/ AddToFull \/ ResetFromMain \/ KS300
  PROVE  RingInv'
<1>1. TypeOK /\ bucket_array \in [Bucket -> bucket_t]
      /\ bucket_in \in Bucket /\ bucket_out \in Bucket /\ bucket_nrused \in Nat
  BY DEF IInv, TypeOK
<1>2. Analysed.bits \in Bits /\ Bits \subseteq Nat
  BY <1>1 DEF Analysed, bucket_t, Bits
<1>3. MinBits \in Nat /\ MaxBits \in 1 .. 2047
  BY BitsAssumption
<1>4. pc = "analyze" /\ bucket_nrused # 0 => Analysed.bits >= MinBits
  <2> SUFFICES ASSUME pc = "analyze", bucket_nrused # 0
               PROVE  Analysed.bits >= MinBits
    OBVIOUS
  <2>1. Ahead(bucket_out) = 0
    BY <1>1, AheadFacts
  <2>2. Complete(bucket_out)
    BY <1>1, <2>1 DEF RingInv, QueueInv
  <2> QED BY <2>2 DEF Complete, Analysed
<1>5. CASE AddLastBit
  <2>1. /\ pc = "analyze" /\ pc' = "ks300" /\ bucket_nrused # 0 /\ Analysed.bits < MaxBits
        /\ UNCHANGED <<bucket_in, bucket_out, bucket_nrused, timsk>>
    BY <1>5 DEF AddLastBit, At, isr
  <2>2. bucket_array' = [bucket_array EXCEPT ![bucket_out].bits = Analysed.bits + 1]
    BY <1>5 DEF AddLastBit, Analysed
  <2>3. \A b \in Bits : b < MaxBits /\ b >= MinBits =>
                           b + 1 \in Bits /\ b + 1 >= MinBits /\ b + 1 > MinBits
    BY <1>3 DEF Bits
  <2>4. /\ Analysed.bits + 1 \in Bits
        /\ Analysed.bits + 1 >= MinBits /\ Analysed.bits + 1 > MinBits
    BY <1>2, <1>4, <2>1, <2>3
  <2> QED BY <2>1, <2>2, <2>4, BitsKeepRing
<1>6. CASE AddToFull
  <2>1. /\ pc = "analyze" /\ pc' = "reset_input" /\ bucket_nrused # 0
        /\ Analysed.bits >= MaxBits
        /\ UNCHANGED <<bucket_array, bucket_in, bucket_out, bucket_nrused>>
    BY <1>6 DEF AddToFull, At, ring, isr
  <2>2. \A i \in Bucket : Ahead(i)' = Ahead(i)
    BY <2>1 DEF Ahead, First
  <2>3. QueueInv' /\ FreeInv' /\ TeleInv'
    BY <2>1, <2>2 DEF RingInv, QueueInv, FreeInv, TeleInv, Complete
  <2>4. Analysed.bits > MinBits
    <3>1. \A b \in Nat : b >= MaxBits => b > MinBits
      BY <1>3
    <3> QED BY <1>2, <2>1, <3>1
  <2>5. ServedInv' /\ SilenceIsWatched'
    BY <2>1, <2>4 DEF ServedInv, SilenceIsWatched, Analysed
  <2> QED BY <2>3, <2>5 DEF RingInv
<1>7. CASE ResetFromMain
  <2>1. /\ pc = "reset_input" /\ pc' = "ks300"
        /\ bucket_array' = [bucket_array EXCEPT ![bucket_in].state = "RESET"]
        /\ UNCHANGED <<bucket_in, bucket_out, bucket_nrused>>
    BY <1>7 DEF ResetFromMain, At, isr
  <2>2. /\ \A j \in Bucket : j # bucket_in => bucket_array'[j] = bucket_array[j]
        /\ bucket_array'[bucket_in].state = "RESET"
    BY <1>1, <2>1, StoreStateOnly
  <2>3. \A i \in Bucket : Ahead(i)' = Ahead(i)
    BY <2>1 DEF Ahead, First
  <2>4. Ahead(bucket_in) = bucket_nrused /\ bucket_out # bucket_in
    BY <2>1, FillingIsNext DEF Serving
  <2>5. QueueInv'
    BY <1>1, <2>1, <2>2, <2>3, <2>4 DEF RingInv, QueueInv, Complete
  <2>6. FreeInv' /\ TeleInv'
    BY <1>1, <2>1, <2>2, <2>3, StatesApart DEF RingInv, FreeInv, TeleInv
  <2>7. ServedInv'
    BY <1>1, <2>1, <2>2, <2>4 DEF RingInv, ServedInv
  <2>8. SilenceIsWatched'
    BY <2>1, <2>2, StatesApart DEF SilenceIsWatched, Filling
  <2> QED BY <2>5, <2>6, <2>7, <2>8 DEF RingInv
<1>8. CASE KS300
  <2>1. /\ pc = "ks300" /\ pc' = "release"
        /\ UNCHANGED <<bucket_in, bucket_out, bucket_nrused, timsk>>
    BY <1>8 DEF KS300, At, isr
  <2>2. Analysed.bits > MinBits /\ bucket_nrused # 0
    BY <2>1, <1>1, FillingIsNext DEF RingInv, ServedInv, Analysed, Serving
  <2>3. CASE UNCHANGED bucket_array
    BY <2>1, <2>3, LookKeepsRing
  <2>4. CASE bucket_array' = [bucket_array EXCEPT ![bucket_out].bits = (@ + 2047) % 2048]
    <3> DEFINE b == Analysed.bits
               n == (b + 2047) % 2048
    <3>1. bucket_array' = [bucket_array EXCEPT ![bucket_out].bits = n]
      BY <2>4 DEF Analysed
    <3>2. b \in 0 .. 2047 /\ b > MinBits
      BY <1>2, <2>2 DEF Bits
    <3> HIDE DEF b
    <3>3. n = b - 1
      BY <1>3, <3>2
    <3>4. n \in Bits /\ n >= MinBits
      BY <1>3, <3>2, <3>3 DEF Bits
    <3> HIDE DEF n
    <3> QED BY <2>1, <2>2, <3>1, <3>4, BitsKeepRing
  <2> QED BY <1>8, <2>3, <2>4 DEF KS300
<1> QED BY <1>5, <1>6, <1>7, <1>8

(* Releasing the bucket, taking the count down, and going on to the next.  *)
LEMMA ReleaseKeepsRing ==
  ASSUME IInv, NoDrift, RingInv, Release
  PROVE  RingInv'
<1>1. TypeOK /\ bucket_array \in [Bucket -> bucket_t]
      /\ bucket_in \in Bucket /\ bucket_out \in Bucket
  BY DEF IInv, TypeOK
<1>2. /\ pc = "release" /\ pc' = "load"
      /\ bucket_array' = [bucket_array EXCEPT ![bucket_out].state = "RESET"]
      /\ UNCHANGED <<bucket_in, bucket_out, bucket_nrused, timsk>>
  BY DEF Release, At, isr
<1>3. /\ \A j \in Bucket : j # bucket_out => bucket_array'[j] = bucket_array[j]
      /\ bucket_array'[bucket_out].state = "RESET"
  BY <1>1, <1>2, StoreStateOnly
<1>4. \A i \in Bucket : Ahead(i)' = Ahead(i)
  BY <1>2 DEF Ahead, First
<1>5. QueueInv'
  BY <1>2, <1>3, <1>4 DEF RingInv, QueueInv, Complete
<1>6. FreeInv' /\ TeleInv'
  BY <1>2, <1>3, <1>4, StatesApart DEF RingInv, FreeInv, TeleInv
<1>7. ServedInv' /\ SilenceIsWatched'
  <2>1. bucket_out # bucket_in
    BY <1>2, FillingIsNext DEF Serving
  <2> QED BY <1>1, <1>2, <1>3, <2>1 DEF RingInv, ServedInv, SilenceIsWatched, Filling
<1> QED BY <1>5, <1>6, <1>7 DEF RingInv

(* The store of the count moves every bucket one place towards First, and  *)
(* the released one to the end of the free ones.                           *)
LEMMA StoreMoves ==
  ASSUME IInv, NoDrift, NoDrift', StoreCount
  PROVE  /\ bucket_nrused' = bucket_nrused - 1 /\ bucket_nrused >= 1
         /\ \A i \in Bucket : Ahead(i)' = IF i = bucket_out THEN RCV_BUCKETS - 1
                                                            ELSE Ahead(i) - 1
<1>1. /\ bucket_in \in 0 .. RCV_BUCKETS - 1 /\ bucket_out \in 0 .. RCV_BUCKETS - 1
      /\ bucket_nrused \in 0 .. RCV_BUCKETS - 1 /\ nrused \in 0 .. RCV_BUCKETS - 1
      /\ RCV_BUCKETS \in Nat /\ RCV_BUCKETS > 1
  BY BucketsAssumption DEF IInv, TypeOK, Bucket
<1>2. /\ bucket_nrused' = nrused - 1
      /\ drift' = Wrap(drift + bucket_nrused - nrused)
      /\ pc = "store" /\ pc' = "advance"
      /\ UNCHANGED bucket_out
      /\ nrused >= 1 /\ nrused <= bucket_nrused
  BY DEF StoreCount, At, IInv, CopyInv
<1>3. nrused = bucket_nrused
  BY <1>1, <1>2 DEF NoDrift, Wrap
<1>4. First = bucket_out /\ First' = Wrap(bucket_out + 1)
  BY <1>2 DEF First
<1>5. ASSUME NEW i \in Bucket
      PROVE  Ahead(i)' = IF i = bucket_out THEN RCV_BUCKETS - 1 ELSE Ahead(i) - 1
  <2>1. i \in 0 .. RCV_BUCKETS - 1
    BY DEF Bucket
  <2>2. Ahead(i)' = IF i >= First' THEN i - First' ELSE i + RCV_BUCKETS - First'
    BY DEF Ahead
  <2> QED BY <1>1, <1>4, <2>1, <2>2 DEF Ahead, Wrap
<1> QED BY <1>1, <1>2, <1>3, <1>5

LEMMA CountKeepsRing ==
  ASSUME IInv, NoDrift, NoDrift', RingInv, StoreCount \/ Advance
  PROVE  RingInv'
<1>1. /\ bucket_in \in Bucket /\ bucket_out \in Bucket
      /\ bucket_nrused \in 0 .. RCV_BUCKETS - 1
      /\ RCV_BUCKETS \in Nat /\ RCV_BUCKETS > 1
      /\ \A i \in Bucket : Ahead(i) \in 0 .. RCV_BUCKETS - 1
  BY BucketsAssumption, AheadFacts DEF IInv, TypeOK, Bucket
<1>2. CASE StoreCount
  <2>1. /\ pc = "store" /\ pc' = "advance"
        /\ UNCHANGED <<bucket_array, bucket_in, bucket_out, timsk>>
    BY <1>2 DEF StoreCount, At, isr
  <2>2. Ahead(bucket_out) = 0
    BY <2>1, AheadFacts DEF IInv
  <2>3. bucket_array[bucket_out].state = "RESET"
    BY <2>1 DEF RingInv, ServedInv
  <2>4. QueueInv'
    <3> SUFFICES ASSUME NEW i \in Bucket, Ahead(i)' < bucket_nrused'
                 PROVE  Complete(i)'
      BY DEF QueueInv
    <3>1. i # bucket_out /\ Ahead(i) < bucket_nrused
      BY <1>1, <1>2, StoreMoves
    <3> QED BY <2>1, <3>1 DEF RingInv, QueueInv, Complete
  <2>5. FreeInv'
    <3> SUFFICES ASSUME NEW i \in Bucket, Ahead(i)' > bucket_nrused'
                 PROVE  bucket_array[i].state \notin Collecting
      BY <2>1 DEF FreeInv
    <3>1. i = bucket_out \/ Ahead(i) > bucket_nrused
      BY <1>1, <1>2, StoreMoves
    <3> QED BY <2>3, <3>1, StatesApart DEF RingInv, FreeInv
  <2>6. ServedInv' /\ TeleInv' /\ SilenceIsWatched'
    BY <2>1 DEF RingInv, ServedInv, TeleInv, SilenceIsWatched, Filling
  <2> QED BY <2>4, <2>5, <2>6 DEF RingInv
<1>3. CASE Advance
  <2>1. /\ pc = "advance" /\ pc' = "router" /\ bucket_out' = Wrap(bucket_out + 1)
        /\ UNCHANGED <<bucket_array, bucket_in, bucket_nrused, timsk>>
    BY <1>3 DEF Advance, At, isr
  <2>2. \A i \in Bucket : Ahead(i)' = Ahead(i)
    BY <2>1 DEF Ahead, First
  <2>3. QueueInv' /\ FreeInv' /\ TeleInv'
    BY <2>1, <2>2 DEF RingInv, QueueInv, FreeInv, TeleInv, Complete
  <2>4. ServedInv' /\ SilenceIsWatched'
    BY <2>1 DEF RingInv, ServedInv, SilenceIsWatched, Filling
  <2> QED BY <2>3, <2>4 DEF RingInv
<1> QED BY <1>2, <1>3

LEMMA RingStep ==
  ASSUME MinBits < MaxBits, IInv, NoDrift, NoDrift', RingInv, [Next]_vars
  PROVE  RingInv'
<1>1. CASE Interrupt
  BY <1>1, FillKeepsRing, EnqueueKeepsRing
<1>2. CASE NothingToDo \/ Recognise \/ LoadCount \/ rf_router_task
  <2>1. /\ UNCHANGED <<bucket_array, bucket_in, bucket_out, bucket_nrused, timsk>>
        /\ pc \in {"analyze", "load", "router", "giveup"}
        /\ pc' \in {"router", "release", "store", "analyze", "giveup"}
        /\ pc \in {"load", "store"} <=> pc' \in {"load", "store"}
    BY <1>2 DEF NothingToDo, Recognise, LoadCount, rf_router_task, RouterTurn,
                RouterGiveUp, At, ring, isr
  <2> QED BY <2>1, LookKeepsRing
<1>3. CASE AddLastBit \/ AddToFull \/ ResetFromMain \/ KS300
  BY <1>3, KS300KeepsRing
<1>4. CASE Release
  BY <1>4, ReleaseKeepsRing
<1>5. CASE StoreCount \/ Advance
  BY <1>5, CountKeepsRing
<1>6. CASE UNCHANGED vars
  <2>1. \A i \in Bucket : Ahead(i)' = Ahead(i)
    BY <1>6 DEF vars, Ahead, First
  <2> QED BY <1>6, <2>1 DEF vars, RingInv, QueueInv, FreeInv, ServedInv, TeleInv,
                            SilenceIsWatched, Complete, Filling
<1> QED BY <1>1, <1>2, <1>3, <1>4, <1>5, <1>6 DEF Next, MainLoop, RfAnalyze_Task

LEMMA RingHolds ==
  ASSUME MinBits < MaxBits
  PROVE  Spec /\ []NoDrift => []RingInv
<1>1. Init => RingInv
  <2> SUFFICES ASSUME Init PROVE RingInv
    OBVIOUS
  <2>1. bucket_nrused = 0 /\ pc = "analyze" /\ bucket_in = 0 /\ bucket_out = 0
    BY DEF Init
  <2>2. \A i \in Bucket : bucket_array[i].state = "RESET"
    BY DEF Init
  <2>3. \A i \in Bucket : ~(Ahead(i) < 0)
    BY <2>1, BucketsAssumption DEF Bucket, Ahead, First
  <2>4. 0 \in Bucket
    BY BucketsAssumption DEF Bucket
  <2> QED BY <2>1, <2>2, <2>3, <2>4, StatesApart
          DEF RingInv, QueueInv, FreeInv, ServedInv, TeleInv, SilenceIsWatched, Filling
<1>2. IInv /\ NoDrift /\ NoDrift' /\ RingInv /\ [Next]_vars => RingInv'
  BY RingStep
<1> QED BY <1>1, <1>2, Invariance, PTL DEF Spec

(* As long as no increment has been lost, every queued bucket is a         *)
(* finished telegram that nothing gets at, and every telegram being        *)
(* collected is watched: for every number of buckets.                      *)
THEOREM QueueCorrect ==
  ASSUME MinBits < MaxBits
  PROVE  Spec /\ []NoDrift => []QueuedIsComplete /\ []SilenceIsWatched
<1>1. IInv /\ NoDrift /\ RingInv => QueuedIsComplete
  <2> SUFFICES ASSUME IInv, NoDrift, RingInv, NEW i \in Bucket, Queued(i),
                      ~(i = bucket_out /\ pc \in {"load", "store"})
               PROVE  i # bucket_in /\ Complete(i)
    BY DEF QueuedIsComplete, Complete
  <2>1. Ahead(i) < bucket_nrused
    BY AheadFacts DEF IInv
  <2>2. bucket_nrused \in Nat
    BY DEF IInv, TypeOK
  <2> QED BY <2>1, <2>2, FillingIsNext DEF RingInv, QueueInv
<1>2. RingInv => SilenceIsWatched
  BY DEF RingInv
<1> QED BY <1>1, <1>2, Invariance, RingHolds, PTL

-----------------------------------------------------------------------------
(* The queue of telegrams. *)

Slot(k) == Wrap(First + k - 1)

LEMMA SlotFacts ==
  ASSUME TypeOK, NEW k \in 1 .. RCV_BUCKETS
  PROVE  Slot(k) \in Bucket /\ Ahead(Slot(k)) = k - 1
<1>1. First \in 0 .. RCV_BUCKETS - 1 /\ RCV_BUCKETS \in Nat /\ RCV_BUCKETS > 1
  BY BucketsAssumption, AheadFacts DEF Bucket
<1> QED BY <1>1 DEF Slot, Wrap, Ahead, Bucket

LEMMA UnprocessedFacts ==
  ASSUME TypeOK
  PROVE  /\ Unprocessed = [k \in 1 .. bucket_nrused |-> bucket_array[Slot(k)].tele]
         /\ Unprocessed \in Seq(Telegram \cup {NoTelegram})
         /\ Len(Unprocessed) = bucket_nrused
<1>1. Unprocessed = [k \in 1 .. bucket_nrused |-> bucket_array[Slot(k)].tele]
  BY DEF Unprocessed, Slot
<1>2. bucket_nrused \in 0 .. RCV_BUCKETS - 1 /\ RCV_BUCKETS \in Nat
      /\ bucket_array \in [Bucket -> bucket_t]
  BY BucketsAssumption DEF TypeOK
<1>3. \A i \in Bucket : bucket_array[i].tele \in Telegram \cup {NoTelegram}
  BY <1>2 DEF bucket_t
<1>4. \A k \in 1 .. bucket_nrused : Slot(k) \in Bucket
  BY <1>2, SlotFacts
<1> QED BY <1>1, <1>2, <1>3, <1>4

(* A step that neither moves nor counts leaves the queue alone, if the     *)
(* queued buckets keep their telegrams.                                    *)
LEMMA QueueStutters ==
  ASSUME TypeOK, First' = First, UNCHANGED bucket_nrused,
         \A i \in Bucket : Ahead(i) < bucket_nrused =>
           bucket_array'[i].tele = bucket_array[i].tele
  PROVE  Unprocessed' = Unprocessed
<1>1. bucket_nrused \in 0 .. RCV_BUCKETS - 1 /\ RCV_BUCKETS \in Nat
  BY BucketsAssumption DEF TypeOK
<1>2. \A k \in 1 .. bucket_nrused : bucket_array'[Slot(k)].tele = bucket_array[Slot(k)].tele
  BY <1>1, SlotFacts
<1>3. \A k : Slot(k)' = Slot(k)
  BY DEF Slot, Wrap
<1>4. Unprocessed' = [k \in 1 .. bucket_nrused |-> bucket_array'[Slot(k)].tele]
  BY <1>3 DEF Unprocessed, Slot
<1> QED BY <1>2, <1>4, UnprocessedFacts

LEMMA SeqIsFunction ==
  ASSUME NEW S, NEW s \in Seq(S)
  PROVE  s = [k \in 1 .. Len(s) |-> s[k]]
  OBVIOUS

(* Enqueue puts the telegram of the bucket that was filled at the end. *)
LEMMA EnqueuePuts ==
  ASSUME IInv, NoDrift, RingInv, Enqueue
  PROVE  \E d \in Telegram : Queue!Put(d)
<1>1. TypeOK
  BY DEF IInv
<1>2. /\ bucket_nrused \in 0 .. RCV_BUCKETS - 1 /\ RCV_BUCKETS \in Nat
      /\ bucket_in \in Bucket /\ bucket_nrused + 1 # RCV_BUCKETS
  BY <1>1, BucketsAssumption DEF TypeOK, Enqueue
<1>3. /\ bucket_nrused' = bucket_nrused + 1
      /\ UNCHANGED <<bucket_array, bucket_out, pc, delivered>>
  BY DEF Enqueue, main
<1> DEFINE d == Filling.tele
<1>4. d \in Telegram
  <2>1. Filling.state # "RESET"
    BY StatesApart DEF Enqueue, Worthless
  <2> QED BY <1>2, <2>1 DEF RingInv, TeleInv, Filling
<1>5. Slot(bucket_nrused + 1) = bucket_in
  <2> DEFINE k == bucket_nrused + 1
  <2>1. k \in 1 .. RCV_BUCKETS /\ k - 1 = bucket_nrused
    BY <1>2
  <2> HIDE DEF k
  <2>2. Slot(k) \in Bucket /\ Ahead(Slot(k)) = bucket_nrused
    BY <1>1, <2>1, SlotFacts
  <2>3. Slot(k) = bucket_in
    BY <1>1, <1>2, <2>2, AheadFacts, FillingIsNext
  <2> QED BY <2>3 DEF k
<1>6. \A k : Slot(k)' = Slot(k)
  BY <1>3 DEF Slot, Wrap, First
<1>7. Unprocessed' = [k \in 1 .. bucket_nrused + 1 |-> bucket_array[Slot(k)].tele]
  BY <1>3, <1>6 DEF Unprocessed, Slot
<1>8. Append(Unprocessed, d) = [k \in 1 .. bucket_nrused + 1 |->
                                  IF k = bucket_nrused + 1 THEN d ELSE Unprocessed[k]]
  BY <1>1, <1>2, UnprocessedFacts
<1>9. \A k \in 1 .. bucket_nrused : Unprocessed[k] = bucket_array[Slot(k)].tele
  BY <1>1, UnprocessedFacts
<1>10. Unprocessed' = Append(Unprocessed, d)
  BY <1>2, <1>5, <1>7, <1>8, <1>9 DEF Filling
<1>11. Len(Unprocessed) < RCV_BUCKETS - 1
  BY <1>1, <1>2, UnprocessedFacts
<1>12. Queue!Put(d)
  BY <1>3, <1>10, <1>11 DEF Queue!Put
<1> QED BY <1>4, <1>12

(* The store of the count delivers the oldest telegram. *)
LEMMA StoreDelivers ==
  ASSUME IInv, NoDrift, NoDrift', StoreCount
  PROVE  Queue!GetOldest
<1>1. TypeOK
  BY DEF IInv
<1>2. /\ bucket_nrused \in 0 .. RCV_BUCKETS - 1 /\ bucket_nrused >= 1
      /\ bucket_nrused' = bucket_nrused - 1
      /\ bucket_out \in 0 .. RCV_BUCKETS - 1
      /\ RCV_BUCKETS \in Nat /\ RCV_BUCKETS > 1
  BY <1>1, BucketsAssumption, StoreMoves DEF TypeOK, Bucket
<1>3. /\ pc = "store" /\ pc' = "advance" /\ delivered' = bucket_array[bucket_out].tele
      /\ UNCHANGED <<bucket_array, bucket_out>>
  BY DEF StoreCount, At, Analysed
<1>4. First = bucket_out /\ First' = Wrap(bucket_out + 1)
  BY <1>3 DEF First
<1>5. Slot(1) = bucket_out
  BY <1>2, <1>4 DEF Slot, Wrap
<1>6. ASSUME NEW k \in 1 .. bucket_nrused - 1
      PROVE  Slot(k)' = Slot(k + 1)
  <2>1. Slot(k)' = Wrap(First' + k - 1)
    BY DEF Slot, Wrap
  <2> QED BY <1>2, <1>4, <2>1 DEF Slot, Wrap
<1>7. Unprocessed' = [k \in 1 .. bucket_nrused - 1 |-> bucket_array[Slot(k + 1)].tele]
  <2>1. Unprocessed' = [k \in 1 .. bucket_nrused - 1 |-> bucket_array[Slot(k)'].tele]
    BY <1>2, <1>3 DEF Unprocessed, Slot, Wrap
  <2> QED BY <1>6, <2>1
<1>8. Unprocessed # << >> /\ Head(Unprocessed) = bucket_array[bucket_out].tele
  BY <1>1, <1>2, <1>5, UnprocessedFacts
<1>9. Tail(Unprocessed) = [k \in 1 .. bucket_nrused - 1 |-> bucket_array[Slot(k + 1)].tele]
  <2> DEFINE T == Telegram \cup {NoTelegram}
  <2>1. /\ Unprocessed \in Seq(T) /\ Len(Unprocessed) = bucket_nrused
        /\ \A k \in 1 .. bucket_nrused : Unprocessed[k] = bucket_array[Slot(k)].tele
    BY <1>1, UnprocessedFacts
  <2> HIDE DEF T
  <2>2. /\ Tail(Unprocessed) \in Seq(T)
        /\ Len(Tail(Unprocessed)) = bucket_nrused - 1
        /\ \A k \in 1 .. bucket_nrused - 1 : Tail(Unprocessed)[k] = Unprocessed[k + 1]
    BY <1>2, <1>8, <2>1, HeadTailProperties
  <2>3. Tail(Unprocessed) = [k \in 1 .. Len(Tail(Unprocessed)) |-> Tail(Unprocessed)[k]]
    BY <2>2, SeqIsFunction, Zenon
  <2>4. \A k \in 1 .. bucket_nrused - 1 :
          Tail(Unprocessed)[k] = bucket_array[Slot(k + 1)].tele
    BY <1>2, <2>1, <2>2
  <2> QED BY <2>2, <2>3, <2>4
<1> QED BY <1>3, <1>7, <1>8, <1>9 DEF Queue!GetOldest

(* Every other step leaves the queue and what was delivered alone. *)
LEMMA RestStutters ==
  ASSUME IInv, NoDrift, [Next]_vars, ~Enqueue, ~StoreCount
  PROVE  UNCHANGED <<Unprocessed, delivered>>
<1>1. TypeOK /\ bucket_array \in [Bucket -> bucket_t] /\ bucket_nrused \in Nat
      /\ bucket_in \in Bucket /\ bucket_out \in Bucket
  BY DEF IInv, TypeOK
<1>2. CASE Interrupt
  <2>1. FillStep /\ UNCHANGED <<bucket_in, bucket_out, bucket_nrused, pc, delivered>>
    BY <1>2, InterruptFills
  <2>2. FillLocal
    BY <1>1, <2>1, FillStepLocal
  <2>3. \A i \in Bucket : Ahead(i) < bucket_nrused =>
          bucket_array'[i].tele = bucket_array[i].tele
    BY <1>1, <2>2, FillingIsNext DEF FillLocal
  <2>4. First' = First
    BY <2>1 DEF First
  <2> QED BY <1>1, <2>1, <2>3, <2>4, QueueStutters
<1>3. CASE NothingToDo \/ Recognise \/ AddToFull \/ LoadCount \/ rf_router_task \/ UNCHANGED vars
  <2>1. UNCHANGED <<bucket_array, bucket_nrused, delivered>> /\ First' = First
    BY <1>3 DEF NothingToDo, Recognise, AddToFull, LoadCount, rf_router_task, RouterTurn,
                RouterGiveUp, At, ring, isr, vars, First
  <2> QED BY <1>1, <2>1, QueueStutters
<1>4. CASE AddLastBit \/ KS300
  <2>1. UNCHANGED <<bucket_nrused, delivered>> /\ First' = First
    BY <1>4 DEF AddLastBit, KS300, At, First
  <2>2. ASSUME NEW n, bucket_array' = [bucket_array EXCEPT ![bucket_out].bits = n]
        PROVE  \A i \in Bucket : bucket_array'[i].tele = bucket_array[i].tele
    BY <1>1, <2>2, StoreBitsOnly
  <2>3. \A i \in Bucket : bucket_array'[i].tele = bucket_array[i].tele
    <3>1. CASE AddLastBit
      <4>1. bucket_array' = [bucket_array EXCEPT ![bucket_out].bits = Analysed.bits + 1]
        BY <3>1 DEF AddLastBit, Analysed
      <4> QED BY <2>2, <4>1
    <3>2. CASE KS300
      <4>1. \/ UNCHANGED bucket_array
            \/ bucket_array' = [bucket_array EXCEPT
                                  ![bucket_out].bits = (Analysed.bits + 2047) % 2048]
        BY <3>2 DEF KS300, Analysed
      <4> QED BY <2>2, <4>1
    <3> QED BY <1>4, <3>1, <3>2
  <2> QED BY <1>1, <2>1, <2>3, QueueStutters
<1>5. CASE ResetFromMain \/ Release
  <2>1. UNCHANGED <<bucket_nrused, delivered>> /\ First' = First
    BY <1>5 DEF ResetFromMain, Release, At, First
  <2>2. ASSUME NEW j \in Bucket,
               bucket_array' = [bucket_array EXCEPT ![j].state = "RESET"]
        PROVE  \A i \in Bucket : bucket_array'[i].tele = bucket_array[i].tele
    BY <1>1, <2>2, StoreStateOnly
  <2>3. \A i \in Bucket : bucket_array'[i].tele = bucket_array[i].tele
    BY <1>1, <1>5, <2>2 DEF ResetFromMain, Release
  <2> QED BY <1>1, <2>1, <2>3, QueueStutters
<1>6. CASE Advance
  <2>1. UNCHANGED <<bucket_array, bucket_nrused, delivered>> /\ First' = First
    BY <1>6 DEF Advance, At, First
  <2> QED BY <1>1, <2>1, QueueStutters
<1> QED BY <1>2, <1>3, <1>4, <1>5, <1>6 DEF Next, MainLoop, RfAnalyze_Task

(* As long as no increment has been lost the ring is a queue of telegrams, *)
(* for every number of buckets: each is delivered once, unchanged and in   *)
(* the order of arrival, or dropped whole because the queue is full.       *)
THEOREM QueueRefines ==
  ASSUME MinBits < MaxBits
  PROVE  Spec /\ []NoDrift => IsAFifo
<1>1. Init => Queue!Init
  <2> SUFFICES ASSUME Init PROVE Unprocessed = << >> /\ delivered = NoTelegram
    BY DEF Queue!Init
  <2>1. bucket_nrused = 0 /\ delivered = NoTelegram
    BY DEF Init
  <2> QED BY <2>1 DEF Unprocessed
<1>2. IInv /\ NoDrift /\ NoDrift' /\ RingInv /\ [Next]_vars
      => [Queue!Next]_<<Unprocessed, delivered>>
  <2> SUFFICES ASSUME IInv, NoDrift, NoDrift', RingInv, [Next]_vars
               PROVE  [Queue!Next]_<<Unprocessed, delivered>>
    OBVIOUS
  <2>1. CASE Enqueue
    BY <2>1, EnqueuePuts DEF Queue!Next
  <2>2. CASE StoreCount
    BY <2>2, StoreDelivers DEF Queue!Next
  <2>3. CASE ~Enqueue /\ ~StoreCount
    BY <2>3, RestStutters
  <2> QED BY <2>1, <2>2, <2>3
<1> QED BY <1>1, <1>2, Invariance, RingHolds, PTL DEF Spec, IsAFifo, Queue!Spec

-----------------------------------------------------------------------------
(* With two buckets the unprotected decrement is harmless: it runs only    *)
(* while the one queueable bucket is taken, when the silence timer has     *)
(* nothing to increment.                                                   *)
LEMMA TwoBucketsNoDrift ==
  ASSUME RCV_BUCKETS = 2
  PROVE  Spec => []NoDrift
<1>1. Init => NoDrift
  BY DEF Init, NoDrift
<1>2. IInv /\ NoDrift /\ [Next]_vars => NoDrift'
  <2> SUFFICES ASSUME IInv, drift = 0, [Next]_vars PROVE drift' = 0
    BY DEF NoDrift
  <2>1. CASE Interrupt
    BY <2>1, InterruptCounts
  <2>2. CASE StoreCount
    <3>1. nrused \in 0 .. 1 /\ bucket_nrused \in 0 .. 1
      BY DEF IInv, TypeOK
    <3>2. nrused >= 1 /\ nrused <= bucket_nrused
      BY <2>2 DEF IInv, CopyInv, StoreCount, At
    <3>3. nrused = 1 /\ bucket_nrused = 1
      BY <3>1, <3>2
    <3> QED BY <2>2, <3>3 DEF StoreCount, Wrap
  <2>3. CASE RfAnalyze_Task /\ ~StoreCount
    BY <2>3 DEF RfAnalyze_Task, NothingToDo, Recognise, AddLastBit, AddToFull,
                ResetFromMain, KS300, Release, LoadCount, Advance
  <2>4. CASE rf_router_task
    BY <2>4 DEF rf_router_task, RouterTurn, RouterGiveUp
  <2>5. CASE UNCHANGED vars
    BY <2>5 DEF vars
  <2> QED BY <2>1, <2>2, <2>3, <2>4, <2>5 DEF Next, MainLoop
<1> QED BY <1>1, <1>2, Invariance, PTL DEF Spec

(* So with two buckets the count is always the number of unprocessed       *)
(* buckets.  (The run slowrf_count shows that four buckets lose this.)     *)
THEOREM TwoBucketsCountRight ==
  ASSUME RCV_BUCKETS = 2
  PROVE  Spec => []CountIsUnprocessed
<1>1. IInv /\ NoDrift => CountIsUnprocessed
  BY DEF NoDrift, IInv, TypeOK, DriftIsLostIncrements, CountIsUnprocessed, Wrap
<1> QED BY <1>1, Invariance, TwoBucketsNoDrift, PTL

(* With two buckets every queued bucket is a finished telegram, of either  *)
(* side's reset_input and of the KS300 attempt out of reach.               *)
THEOREM TwoBucketsComplete ==
  ASSUME RCV_BUCKETS = 2, MinBits < MaxBits
  PROVE  Spec => []QueuedIsComplete
  BY TwoBucketsNoDrift, QueueCorrect, PTL

(* With two buckets no telegram waits for its end without a silence timer. *)
THEOREM TwoBucketsWatched ==
  ASSUME RCV_BUCKETS = 2, MinBits < MaxBits
  PROVE  Spec => []SilenceIsWatched
  BY TwoBucketsNoDrift, QueueCorrect, PTL

(* With two buckets the ring is the queue both sides take it for.          *)
THEOREM TwoBucketsRefine ==
  ASSUME RCV_BUCKETS = 2, MinBits < MaxBits
  PROVE  Spec => IsAFifo
  BY TwoBucketsNoDrift, QueueRefines, PTL
=============================================================================
