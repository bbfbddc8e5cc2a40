---------------------------- MODULE Fht80bProofs ----------------------------
(***************************************************************************)
(* Fht80b for every buffer size, every set of thermostats and house codes  *)
(* and every message: the timer repeats only the packet that was sent      *)
(* last, a conversation is timed, the buffer implements MessageQueue, and  *)
(* the variables keep their types.                                         *)
(*                                                                         *)
(* fht_freebuf, fht_lookbuf, Messages and Bytes are recursive functions:   *)
(* tlapm sees each as CHOOSE of a function that satisfies its equation, so *)
(* the proofs first show that there is one (WalkExists, CollectionExists,  *)
(* Ascent), by induction over a set of numbers (Descent).                  *)
(***************************************************************************)
EXTENDS Fht80b, FiniteSetTheorems, SequenceTheorems, WellFoundedInduction, TLAPS

(* The last packet stays in fht80b_out while it is being sent and while it *)
(* may be repeated.                                                        *)
PacketInv == fht80b_repeatcnt # 0 \/ pc # "frei" => fht80b_out = gesendet

(* Only the end of fht80b_send_repeated may leave the timer off, and it    *)
(* sets it for every packet but FHT_ACK2.                                  *)
TimedInv == InConversation /\ (pc = "frei" \/ fht80b_out.cmd = FHT_ACK2)
              => fht80b_timeout # "aus" \/ verpasst

(* What the handling of a frame leaves behind. *)
Handled == pc' = "frei" \/ fht80b_out' = gesendet'
Timed   == \/ fht80b_timeout' = "laeuft"
           \/ fht80b_state' \in {0, FHT_FOREIGN}
           \/ pc' = "hook" /\ fht80b_out'.cmd = FHT_CAN_XMIT
-----------------------------------------------------------------------------
(* A frame of another thermostat starts a conversation at the first row,   *)
(* and any other frame sets the timer.                                     *)
LEMMA FreshFrame ==
  ASSUME NEW f, fht80b_out.hc # f.hc
  PROVE  Conversation(f).st = 0 /\ Conversation(f).ld = 0
BY Zenon DEF Conversation

LEMMA KnownFrame ==
  ASSUME NEW f, fht80b_out.hc = f.hc, TimerFor(f)
  PROVE  fht80b_timeout' = "laeuft"
BY Zenon DEF TimerFor, Stellen

(* The first row of the table is answered with FHT_CAN_XMIT. *)
LEMMA FirstRow == Answer(0) = FHT_CAN_XMIT /\ Expected(0) = FHT_ACTUATOR
<1>1. Row(0) = 1
  BY DEF Row
<1> QED
  BY <1>1 DEF Answer, Expected, FHT_CAN_XMIT, FHT_ACTUATOR

(* A packet of the protocol is announced as the one sent last. *)
LEMMA ProceedHandles ==
  ASSUME NEW f, NEW st, NEW off, pc = "frei", Proceed(f, st, off)
  PROVE  Handled
BY Zenon DEF Proceed, NoAnswer, Answering, Handled

LEMMA ProceedTimes ==
  ASSUME NEW f, NEW st, NEW off, Proceed(f, st, off),
         fht80b_out.hc = f.hc \/ st = 0
  PROVE  Timed
<1>1. CASE st + 2 = TableSize
  BY <1>1, Zenon DEF Proceed, fht80b_reset_state, Talking, Timed
<1>2. CASE st + 2 # TableSize /\ fht80b_out.hc = f.hc
  BY <1>2, KnownFrame, Zenon DEF Proceed, Timed
<1>3. CASE st = 0
  <2>1. Answer(st) = FHT_CAN_XMIT /\ FHT_CAN_XMIT # 0
    BY <1>3, FirstRow DEF FHT_CAN_XMIT
  <2>2. pc' = "hook"
    BY <2>1, Zenon DEF Proceed, Answering
  <2>3. fht80b_out'.cmd = FHT_CAN_XMIT
    BY <2>1 DEF Proceed
  <2> QED
    BY <2>2, <2>3 DEF Timed
<1> QED
  BY <1>1, <1>2, <1>3

LEMMA SendHandles ==
  ASSUME NEW f, NEW st, NEW off, NEW p, SendData(f, st, off, p)
  PROVE  Handled
BY Zenon DEF SendData, Answering, Handled

LEMMA AckHandles ==
  ASSUME NEW f, pc = "frei", AckEverything(f)
  PROVE  Handled /\ Timed
<1> DEFINE c == Conversation(f)
           echo == [Copy(f) EXCEPT !.kind = "echo"]
<1>1. \/ Talking(FHT_FOREIGN, c.ld, c.off) /\ NoAnswer
      \/ c.st = 0 /\ Keep(c) /\ NoAnswer
      \/ c.st = 0 /\ Keep(c) /\ fht80b_out' = echo /\ Answering(echo)
  BY Zenon DEF AckEverything
<1>2. fht80b_state' \in {0, FHT_FOREIGN}
  BY <1>1, Zenon DEF Keep, Talking
<1>3. Handled
  BY <1>1, Zenon DEF NoAnswer, Answering, Handled
<1> QED
  BY <1>2, <1>3 DEF Timed

LEMMA ConverseHandles ==
  ASSUME NEW f, pc = "frei", Converse(f)
  PROVE  Handled /\ Timed
<1> DEFINE c       == Conversation(f)
           waited  == IF c.ld # 0 THEN c.ld ELSE Expected(c.st)
           skipped == waited = FHT_CAN_XMIT /\ f.cmd = FHT_CAN_RCV
           st      == IF skipped THEN c.st + 2 ELSE c.st
<1>1. \/ c.st = 0 /\ Keep(c) /\ NoAnswer
      \/ fht80b_reset_state /\ NoAnswer
      \/ c.ld # 0 /\ \E off : Proceed(f, st + 2, off)
      \/ (c.ld # 0 \/ Answer(st) = FHT_DATA) /\ \E off, p : SendData(f, st, off, p)
      \/ c.ld = 0 /\ \E off : Proceed(f, st, off)
  BY Zenon DEF Converse
<1>2. ASSUME fht80b_out.hc # f.hc
      PROVE  c.ld = 0 /\ c.st = 0 /\ st = 0 /\ Answer(st) # FHT_DATA
  <2>1. c.ld = 0 /\ c.st = 0
    BY <1>2, FreshFrame, Zenon
  <2>2. ~skipped
    BY <2>1, FirstRow DEF FHT_CAN_XMIT, FHT_ACTUATOR
  <2> QED
    BY <2>1, <2>2, FirstRow DEF FHT_CAN_XMIT, FHT_DATA
<1> HIDE DEF c, waited, skipped, st
<1>3. CASE c.st = 0 /\ Keep(c) /\ NoAnswer
  <2>1. fht80b_state' = 0
    BY <1>3, Zenon DEF Keep, Talking
  <2> QED
    BY <1>3, <2>1 DEF NoAnswer, Handled, Timed
<1>4. CASE fht80b_reset_state /\ NoAnswer
  BY <1>4 DEF fht80b_reset_state, Talking, NoAnswer, Handled, Timed
<1>5. CASE c.ld # 0 /\ \E off : Proceed(f, st + 2, off)
  <2>1. fht80b_out.hc = f.hc
    BY <1>2, <1>5
  <2> QED
    BY <1>5, <2>1, ProceedHandles, ProceedTimes, Zenon
<1>6. CASE (c.ld # 0 \/ Answer(st) = FHT_DATA) /\ \E off, p : SendData(f, st, off, p)
  <2>1. fht80b_out.hc = f.hc
    BY <1>2, <1>6
  <2>2. TimerFor(f)
    BY <1>6, Zenon DEF SendData
  <2> QED
    BY <1>6, <2>1, <2>2, KnownFrame, SendHandles, Zenon DEF Timed
<1>7. CASE c.ld = 0 /\ \E off : Proceed(f, st, off)
  <2>1. fht80b_out.hc = f.hc \/ st = 0
    BY <1>2
  <2> QED
    BY <1>7, <2>1, ProceedHandles, ProceedTimes, Zenon
<1> QED
  BY <1>1, <1>3, <1>4, <1>5, <1>6, <1>7

LEMMA HookHandles ==
  ASSUME fht_hook
  PROVE  Handled /\ Timed /\ fht80b_repeatcnt' = 0
<1>1. pc = "frei" /\ fht80b_repeatcnt' = 0
  BY DEF fht_hook, NoRepeat
<1>2. PICK f : SwitchedOff(f) \/ ForeignTalks(f) \/ AckEverything(f) \/ Converse(f)
  BY Zenon DEF fht_hook
<1>3. CASE SwitchedOff(f)
  BY <1>1, <1>3 DEF SwitchedOff, Stellen, NoAnswer, Handled, Timed
<1>4. CASE ForeignTalks(f)
  <2>1. fht80b_state' = FHT_FOREIGN
    BY <1>4, Zenon DEF ForeignTalks, Keep, Talking
  <2>2. pc' = "frei"
    BY <1>1, <1>4, Zenon DEF ForeignTalks, NoAnswer
  <2> QED
    BY <1>1, <2>1, <2>2 DEF Handled, Timed
<1> QED
  BY <1>1, <1>2, <1>3, <1>4, AckHandles, ConverseHandles, Zenon
-----------------------------------------------------------------------------
LEMMA PacketStep == PacketInv /\ [Next]_vars => PacketInv'
<1> SUFFICES ASSUME PacketInv, [Next]_vars PROVE PacketInv'
  OBVIOUS
<1>1. CASE fht_hook
  BY <1>1, HookHandles, Zenon DEF Handled, PacketInv
<1>2. CASE fht80b_send_repeated \/ fht80b_timer \/ TimerEnds
  BY <1>2, Zenon DEF fht80b_send_repeated, fht80b_timer, TimerEnds, PacketInv
<1>3. CASE Tick \/ Host
  BY <1>3, Zenon DEF Tick, Host, fhtsend, T01, PacketInv
<1>4. CASE \E d \in Fht : Thermostat(d) \/ GivesUp(d)
  BY <1>4, Zenon DEF Thermostat, GivesUp, Inside, PacketInv
<1>5. CASE UNCHANGED vars
  BY <1>5, Zenon DEF vars, PacketInv
<1> QED
  BY <1>1, <1>2, <1>3, <1>4, <1>5, Zenon DEF Next, MainLoop

(* fht80b_timer repeats the packet sent last, though fht80b_out also takes *)
(* a copy of every frame (fht_hook, fht80b_timer).                         *)
THEOREM RepeatsCorrect == Spec => []RepeatsLastSent
<1>1. Init => PacketInv
  BY Zenon DEF Init, PacketInv
<1>2. PacketInv => RepeatsLastSent
  BY DEF PacketInv, RepeatsLastSent
<1> QED
  BY <1>1, <1>2, PacketStep, PTL DEF Spec
-----------------------------------------------------------------------------
LEMMA StateNumbers == 0 \notin 2 .. TableSize - 2 /\ FHT_FOREIGN \notin 2 .. TableSize - 2
BY DEF FHT_FOREIGN, TableSize

LEMMA NothingChanges ==
  ASSUME TimedInv, fht80b_state' = fht80b_state, fht80b_timeout' = fht80b_timeout,
         verpasst' = verpasst, pc' = pc, fht80b_out' = fht80b_out
  PROVE  TimedInv'
BY DEF TimedInv, InConversation

LEMMA TimedStep == TimedInv /\ [Next]_vars => TimedInv'
<1> SUFFICES ASSUME TimedInv, [Next]_vars PROVE TimedInv'
  OBVIOUS
<1>1. CASE fht_hook
  <2>1. Timed
    BY <1>1, HookHandles
  <2>2. CASE fht80b_timeout' = "laeuft"
    BY <2>2 DEF TimedInv
  <2>3. CASE fht80b_state' \in {0, FHT_FOREIGN}
    BY <2>3, StateNumbers, Zenon DEF TimedInv, InConversation
  <2>4. CASE pc' = "hook" /\ fht80b_out'.cmd = FHT_CAN_XMIT
    BY <2>4 DEF TimedInv, FHT_CAN_XMIT, FHT_ACK2
  <2> QED
    BY <2>1, <2>2, <2>3, <2>4 DEF Timed
<1>2. CASE fht80b_send_repeated
  <2>1. CASE fht80b_out.cmd = FHT_ACK2
    <3>1. /\ fht80b_state' = fht80b_state /\ fht80b_timeout' = fht80b_timeout
          /\ verpasst' = verpasst /\ fht80b_out' = fht80b_out
      BY <1>2, <2>1 DEF fht80b_send_repeated, timer, conv
    <3> QED
      BY <2>1, <3>1 DEF TimedInv, InConversation
  <2>2. CASE fht80b_out.cmd # FHT_ACK2
    BY <1>2, <2>2 DEF fht80b_send_repeated, Stellen, TimedInv
  <2> QED
    BY <2>1, <2>2
<1>3. CASE fht80b_timer
  <2>1. pc = "frei" /\ fht80b_timeout = "faellig"
    BY <1>3 DEF fht80b_timer
  <2>2. CASE fht80b_repeatcnt # 0
    <3>1. fht80b_timeout' = "faellig"
      BY <1>3, <2>1, <2>2, Zenon DEF fht80b_timer, timer
    <3> QED
      BY <3>1 DEF TimedInv
  <2>3. CASE fht80b_repeatcnt = 0
    <3>1. fht80b_state' = 0
      BY <1>3, <2>3, Zenon DEF fht80b_timer, fht80b_reset_state, Talking
    <3> QED
      BY <3>1, StateNumbers, Zenon DEF TimedInv, InConversation
  <2> QED
    BY <2>2, <2>3
<1>4. CASE TimerEnds
  BY <1>4 DEF TimerEnds, Stellen, TimedInv
<1>5. CASE Tick
  BY <1>5 DEF Tick, TimedInv
<1>6. CASE Host
  <2>1. CASE \E m \in Message : fhtsend(m)
    <3>1. /\ fht80b_state' = fht80b_state /\ fht80b_timeout' = fht80b_timeout
          /\ verpasst' = verpasst /\ pc' = pc /\ fht80b_out' = fht80b_out
      BY <2>1 DEF fhtsend, timer, conv
    <3> QED
      BY <3>1, NothingChanges
  <2>2. CASE \E hc \in HouseCode : T01(hc)
    <3>1. fht80b_state' = 0
      BY <2>2, Zenon DEF T01, fht80b_reset_state, Talking
    <3> QED
      BY <3>1, StateNumbers, Zenon DEF TimedInv, InConversation
  <2> QED
    BY <1>6, <2>1, <2>2 DEF Host
<1>7. CASE \E d \in Fht : Thermostat(d) \/ GivesUp(d)
  <2>1. UNCHANGED Inside
    BY <1>7, Zenon DEF Thermostat, GivesUp
  <2> QED
    BY <2>1, NothingChanges DEF Inside, timer, conv
<1>8. CASE UNCHANGED vars
  BY <1>8, NothingChanges DEF vars, timer, conv
<1> QED
  BY <1>1, <1>2, <1>3, <1>4, <1>5, <1>6, <1>7, <1>8, Zenon DEF Next, MainLoop

(* A conversation in progress has its timer set (fht_hook,                 *)
(* fht80b_send_repeated, fht80b_timer), unless the main loop missed it.    *)
THEOREM TimedCorrect == Spec => []ConversationIsTimed
<1>1. Init => TimedInv
  <2> SUFFICES ASSUME Init PROVE TimedInv
    OBVIOUS
  <2>1. fht80b_state = 0
    BY Zenon DEF Init
  <2> QED
    BY <2>1, StateNumbers, Zenon DEF TimedInv, InConversation
<1>2. TimedInv => ConversationIsTimed
  BY DEF TimedInv, ConversationIsTimed
<1> QED
  BY <1>1, <1>2, TimedStep, PTL DEF Spec

-----------------------------------------------------------------------------
(* Induction down from N, over a set instead of a predicate. *)
LEMMA Descent ==
  ASSUME NEW N \in Nat, NEW T, N \in T,
         \A k \in 0 .. N - 1 : k + 1 \in T => k \in T
  PROVE  \A k \in 0 .. N : k \in T
<1> DEFINE R   == OpToRel(<, Nat)
           Bad == {j \in 0 .. N : N - j \notin T}
<1>1. IsWellFoundedOn(R, Nat)
  BY NatLessThanWellFounded
<1>2. \A x, y \in Nat : x < y => <<x, y>> \in R
  BY DEF OpToRel
<1>3. Bad \subseteq Nat
  OBVIOUS
<1>4. Bad = {}
  <2> SUFFICES ASSUME Bad # {} PROVE FALSE
    OBVIOUS
  <2> HIDE DEF R
  <2>1. PICK j \in Bad : \A y \in Bad : <<y, j>> \notin R
    <3> HIDE DEF Bad
    <3> QED BY <1>1, <1>3, WFMin
  <2>2. j \in 0 .. N /\ N - j \notin T
    OBVIOUS
  <2>3. j # 0
    BY <2>2
  <2>4. j - 1 \in 0 .. N /\ N - (j - 1) = (N - j) + 1 /\ N - j \in 0 .. N - 1
    BY <2>2, <2>3
  <2>5. j - 1 \in Bad
    BY <2>2, <2>4
  <2>6. <<j - 1, j>> \in R
    BY <1>2, <2>2, <2>4
  <2> QED BY <2>1, <2>5, <2>6
<1> SUFFICES ASSUME NEW k \in 0 .. N PROVE k \in T
  OBVIOUS
<1>5. N - k \in 0 .. N /\ N - (N - k) = k
  OBVIOUS
<1>6. N - k \notin Bad
  BY <1>4
<1>7. N - (N - k) \in T
  BY <1>5, <1>6
<1> QED BY <1>5, <1>7

(* A function that refers to its own value further up exists. *)
Walk(N, stop, leaf, nxt, g) ==
  g = [p \in 0 .. N |-> IF stop[p] THEN leaf[p] ELSE g[nxt[p]]]

LEMMA WalkExists ==
  ASSUME NEW N \in Nat, NEW stop, NEW leaf, NEW nxt, stop[N],
         \A p \in 0 .. N - 1 : ~stop[p] => nxt[p] \in p + 1 .. N
  PROVE  \E g : Walk(N, stop, leaf, nxt, g)
<1> DEFINE From(k, g) == g = [p \in k .. N |-> IF stop[p] THEN leaf[p] ELSE g[nxt[p]]]
           T == {k \in 0 .. N : \E g : From(k, g)}
<1>1. N \in T
  <2>1. \A p \in N .. N : stop[p]
    <3>1. \A p \in N .. N : p = N
      OBVIOUS
    <3> QED BY <3>1
  <2> DEFINE g0 == [p \in N .. N |-> leaf[p]]
  <2>2. g0 = [p \in N .. N |-> leaf[p]]
    OBVIOUS
  <2> HIDE DEF g0
  <2>3. [p \in N .. N |-> leaf[p]] = [p \in N .. N |-> IF stop[p] THEN leaf[p] ELSE g0[nxt[p]]]
    BY <2>1
  <2> QED BY <2>2, <2>3
<1>2. ASSUME NEW k \in 0 .. N - 1, k + 1 \in T PROVE k \in T
  <2>1. PICK g : From(k + 1, g)
    BY <1>2
  <2> DEFINE v == IF stop[k] THEN leaf[k] ELSE g[nxt[k]]
             h == [p \in k .. N |-> IF p = k THEN v ELSE g[p]]
  <2>2. k \in Nat /\ k \in k .. N /\ k \in 0 .. N
    OBVIOUS
  <2>3. \A p \in k + 1 .. N : p \in k .. N /\ p # k /\ p \in 0 .. N
    OBVIOUS
  <2>4. \A p \in k .. N : p = k \/ p \in k + 1 .. N
    OBVIOUS
  <2>5. \A q \in k + 1 .. N : h[q] = g[q]
    BY <2>3
  <2>6. \A p \in k .. N : ~stop[p] => nxt[p] \in k + 1 .. N
    <3> SUFFICES ASSUME NEW p \in k .. N, ~stop[p] PROVE nxt[p] \in k + 1 .. N
      OBVIOUS
    <3>1. p # N
      OBVIOUS
    <3>2. p \in 0 .. N - 1
      BY <3>1
    <3>3. nxt[p] \in p + 1 .. N
      BY <3>2
    <3> HIDE DEF T, From
    <3> DEFINE np == nxt[p]
    <3>4. np \in p + 1 .. N
      BY <3>3
    <3> HIDE DEF np
    <3>5. np \in k + 1 .. N
      BY <3>4
    <3> QED BY <3>5 DEF np
  <2> DEFINE Val(f, p) == IF stop[p] THEN leaf[p] ELSE f[nxt[p]]
  <2>7. \A p \in k .. N : h[p] = Val(h, p)
    <3> SUFFICES ASSUME NEW p \in k .. N PROVE h[p] = Val(h, p)
      OBVIOUS
    <3>1. Val(h, p) = Val(g, p)
      <4> HIDE DEF h
      <4> QED BY <2>5, <2>6
    <3>2. CASE p = k
      <4>1. h[p] = v
        BY <3>2, <2>2
      <4> HIDE DEF h
      <4> QED BY <3>1, <3>2, <4>1
    <3>3. CASE p \in k + 1 .. N
      <4>1. h[p] = g[p]
        BY <3>3, <2>5
      <4>2. g[p] = Val(g, p)
        BY <2>1, <3>3
      <4> HIDE DEF h, Val
      <4> QED BY <3>1, <4>1, <4>2
    <3> QED BY <2>4, <3>2, <3>3
  <2>8. From(k, h)
    <3>1. h = [p \in k .. N |-> h[p]]
      OBVIOUS
    <3>2. [p \in k .. N |-> h[p]] = [p \in k .. N |-> Val(h, p)]
      <4> HIDE DEF h, Val
      <4> QED BY <2>7
    <3> HIDE DEF h
    <3> QED BY <3>1, <3>2
  <2> HIDE DEF h, From
  <2> QED BY <2>2, <2>8
<1> HIDE DEF T
<1>3. 0 \in T
  BY <1>1, <1>2, Descent
<1> QED BY <1>3 DEF T, Walk
Collection(N, stop, head, nxt, g) ==
  g = [p \in 0 .. N |-> IF stop[p] THEN << >> ELSE <<head[p]>> \o g[nxt[p]]]

(* So does one that collects what it meets on its way up. *)
LEMMA CollectionExists ==
  ASSUME NEW N \in Nat, NEW stop, NEW head, NEW nxt, stop[N],
         \A p \in 0 .. N - 1 : ~stop[p] => nxt[p] \in p + 1 .. N
  PROVE  \E g : Collection(N, stop, head, nxt, g)
<1> DEFINE From(k, g) == g = [p \in k .. N |-> IF stop[p] THEN << >> ELSE <<head[p]>> \o g[nxt[p]]]
           T == {k \in 0 .. N : \E g : From(k, g)}
<1>1. N \in T
  <2>1. \A p \in N .. N : stop[p]
    <3>1. \A p \in N .. N : p = N
      OBVIOUS
    <3> QED BY <3>1
  <2> DEFINE g0 == [p \in N .. N |-> << >>]
  <2>2. g0 = [p \in N .. N |-> << >>]
    OBVIOUS
  <2> HIDE DEF g0
  <2>3. [p \in N .. N |-> << >>] = [p \in N .. N |-> IF stop[p] THEN << >> ELSE <<head[p]>> \o g0[nxt[p]]]
    BY <2>1
  <2> QED BY <2>2, <2>3
<1>2. ASSUME NEW k \in 0 .. N - 1, k + 1 \in T PROVE k \in T
  <2>1. PICK g : From(k + 1, g)
    BY <1>2
  <2> DEFINE v == IF stop[k] THEN << >> ELSE <<head[k]>> \o g[nxt[k]]
             h == [p \in k .. N |-> IF p = k THEN v ELSE g[p]]
  <2>2. k \in Nat /\ k \in k .. N /\ k \in 0 .. N
    OBVIOUS
  <2>3. \A p \in k + 1 .. N : p \in k .. N /\ p # k /\ p \in 0 .. N
    OBVIOUS
  <2>4. \A p \in k .. N : p = k \/ p \in k + 1 .. N
    OBVIOUS
  <2>5. \A q \in k + 1 .. N : h[q] = g[q]
    BY <2>3
  <2>6. \A p \in k .. N : ~stop[p] => nxt[p] \in k + 1 .. N
    <3> SUFFICES ASSUME NEW p \in k .. N, ~stop[p] PROVE nxt[p] \in k + 1 .. N
      OBVIOUS
    <3>1. p # N
      OBVIOUS
    <3>2. p \in 0 .. N - 1
      BY <3>1
    <3>3. nxt[p] \in p + 1 .. N
      BY <3>2
    <3> HIDE DEF T, From
    <3> DEFINE np == nxt[p]
    <3>4. np \in p + 1 .. N
      BY <3>3
    <3> HIDE DEF np
    <3>5. np \in k + 1 .. N
      BY <3>4
    <3> QED BY <3>5 DEF np
  <2> DEFINE Val(f, p) == IF stop[p] THEN << >> ELSE <<head[p]>> \o f[nxt[p]]
  <2>7. \A p \in k .. N : h[p] = Val(h, p)
    <3> SUFFICES ASSUME NEW p \in k .. N PROVE h[p] = Val(h, p)
      OBVIOUS
    <3>1. Val(h, p) = Val(g, p)
      <4> HIDE DEF h
      <4> QED BY <2>5, <2>6
    <3>2. CASE p = k
      <4>1. h[p] = v
        BY <3>2, <2>2
      <4> HIDE DEF h
      <4> QED BY <3>1, <3>2, <4>1
    <3>3. CASE p \in k + 1 .. N
      <4>1. h[p] = g[p]
        BY <3>3, <2>5
      <4>2. g[p] = Val(g, p)
        BY <2>1, <3>3
      <4> HIDE DEF h, Val
      <4> QED BY <3>1, <4>1, <4>2
    <3> QED BY <2>4, <3>2, <3>3
  <2>8. From(k, h)
    <3>1. h = [p \in k .. N |-> h[p]]
      OBVIOUS
    <3>2. [p \in k .. N |-> h[p]] = [p \in k .. N |-> Val(h, p)]
      <4> HIDE DEF h, Val
      <4> QED BY <2>7
    <3> HIDE DEF h
    <3> QED BY <3>1, <3>2
  <2> HIDE DEF h, From
  <2> QED BY <2>2, <2>8
<1> HIDE DEF T
<1>3. 0 \in T
  BY <1>1, <1>2, Descent
<1> QED BY <1>3 DEF T, Collection

-----------------------------------------------------------------------------
(* The bytes behind the length at p. *)
Entry(buf, p) == [i \in 1 .. buf[p] - 1 |-> buf[p + i]]

(* The messages q lie one behind the other, q[i] at s[i], and a 0 ends     *)
(* them.                                                                   *)
Laid(buf, q, s) ==
  /\ buf \in [Offset -> Nat]
  /\ q \in Seq(Message)
  /\ s \in [1 .. Len(q) + 1 -> Nat]
  /\ s[1] = 0 /\ s[Len(q) + 1] < FHTBUF_SIZE /\ buf[s[Len(q) + 1]] = 0
  /\ \A i \in 1 .. Len(q) : s[i + 1] = s[i] + Len(q[i]) + 1 /\ buf[s[i]] = Len(q[i]) + 1
  /\ \A i \in 1 .. Len(q) : \A j \in 1 .. Len(q[i]) : buf[s[i] + j] = q[i][j]

LEMMA MessageBytes ==
  ASSUME NEW m \in Message
  PROVE  /\ m \in Seq(Nat) /\ Len(m) \in Nat /\ Len(m) >= 4 /\ Len(m) % 2 = 0
         /\ m[1] \in Nat /\ m[2] \in Nat /\ m[3] # 0
         /\ Code(m) = <<m[1], m[2]>> /\ Code(m) \in Fht
<1>1. m \in Seq(Nat) /\ Len(m) >= 4 /\ Len(m) % 2 = 0 /\ m[3] # 0 /\ Code(m) \in Fht
  BY MessageAssumption DEF Code
<1>2. Len(m) \in Nat /\ m[1] \in Nat /\ m[2] \in Nat
  BY <1>1
<1>3. Code(m) = <<m[1], m[2]>>
  <2> DEFINE c == SubSeq(m, 1, 2)
             d == <<m[1], m[2]>>
  <2>0. 1 \in Int /\ 2 \in Int /\ \A i \in 1 .. 2 : m[i] \in Nat
    BY <1>1, <1>2
  <2>1. /\ c \in Seq(Nat) /\ Len(c) = IF 1 <= 2 THEN 2 - 1 + 1 ELSE 0
        /\ \A i \in 1 .. 2 - 1 + 1 : c[i] = m[1 + i - 1]
    <3> HIDE DEF c
    <3> QED BY <2>0, SubSeqProperties DEF c
  <2>2. d \in Seq(Nat) /\ Len(d) = 2 /\ d[1] = m[1] /\ d[2] = m[2]
    BY <1>2
  <2> HIDE DEF c, d
  <2>3. Len(c) = 2 /\ c[1] = m[1] /\ c[2] = m[2]
    BY <2>1
  <2>4. \A i \in 1 .. Len(c) : c[i] = d[i]
    BY <2>2, <2>3
  <2>5. c = d
    BY <2>1, <2>2, <2>3, <2>4, SeqEqual
  <2> QED BY <2>5 DEF Code, c, d
<1> QED BY <1>1, <1>2, <1>3

LEMMA LaidOrdered ==
  ASSUME NEW buf, NEW q, NEW s, Laid(buf, q, s),
         NEW j \in 1 .. Len(q) + 1, NEW i \in 1 .. j
  PROVE  s[i] <= s[j] /\ s[i] \in Nat /\ s[j] \in Nat
<1>1. /\ Len(q) \in Nat /\ s \in [1 .. Len(q) + 1 -> Nat]
      /\ \A k \in 1 .. Len(q) : s[k + 1] = s[k] + Len(q[k]) + 1 /\ Len(q[k]) \in Nat
  <2>1. q \in Seq(Message)
    BY DEF Laid
  <2>2. \A k \in 1 .. Len(q) : q[k] \in Message
    BY <2>1
  <2> QED BY <2>1, <2>2, MessageBytes DEF Laid
<1> DEFINE T == {k \in 0 .. j - 1 : s[k + 1] <= s[j]}
<1>2. j - 1 \in Nat
  BY <1>1
<1>3. j - 1 \in T
  BY <1>1
<1>4. ASSUME NEW k \in 0 .. j - 1 - 1, k + 1 \in T PROVE k \in T
  <2>1. s[k + 2] <= s[j]
    BY <1>4
  <2>2. k + 1 \in 1 .. Len(q) /\ k + 2 \in 1 .. Len(q) + 1 /\ k \in 0 .. j - 1
    BY <1>1
  <2> DEFINE n == k + 1
  <2>a. n \in 1 .. Len(q) /\ n \in 1 .. Len(q) + 1 /\ n + 1 = k + 2
    BY <2>2
  <2> HIDE DEF n
  <2>b. s[n + 1] = s[n] + Len(q[n]) + 1 /\ s[n] \in Nat /\ Len(q[n]) \in Nat
    BY <1>1, <2>a
  <2>3. s[k + 2] = s[k + 1] + Len(q[k + 1]) + 1 /\ s[k + 1] \in Nat /\ Len(q[k + 1]) \in Nat
    BY <2>a, <2>b DEF n
  <2>4. s[j] \in Nat
    BY <1>1
  <2>5. s[k + 1] <= s[j]
    BY <2>1, <2>3, <2>4
  <2> QED BY <2>2, <2>5
<1> HIDE DEF T
<1>5. i - 1 \in T
  <2>1. i - 1 \in 0 .. j - 1
    BY <1>1
  <2> QED BY <1>2, <1>3, <1>4, <2>1, Descent
<1>6. s[i - 1 + 1] <= s[j]
  BY <1>5 DEF T
<1> QED BY <1>1, <1>6

LEMMA LaidEntry ==
  ASSUME NEW buf, NEW q, NEW s, Laid(buf, q, s), NEW i \in 1 .. Len(q)
  PROVE  /\ q[i] \in Message /\ Len(q) \in Nat
         /\ s[i] \in Nat /\ s[i + 1] = s[i] + Len(q[i]) + 1 /\ s[i + 1] < FHTBUF_SIZE
         /\ s[i] \in 0 .. FHTBUF_SIZE /\ s[i] # FHTBUF_SIZE /\ s[i] < FHTBUF_SIZE
         /\ buf[s[i]] = Len(q[i]) + 1 /\ buf[s[i]] # 0
         /\ Beyond(s[i] + buf[s[i]]) = s[i + 1]
<1>0. q \in Seq(Message) /\ FHTBUF_SIZE \in Nat
  BY SizeAssumption DEF Laid
<1>1. q[i] \in Message /\ Len(q) \in Nat /\ i + 1 \in 1 .. Len(q) + 1 /\ Len(q) + 1 \in 1 .. Len(q) + 1
      /\ i \in 1 .. Len(q) + 1
  BY <1>0
<1>2. q[i] \in Seq(Nat) /\ Len(q[i]) \in Nat /\ Len(q[i]) >= 4
  BY <1>1, MessageBytes
<1>3. s[i + 1] <= s[Len(q) + 1] /\ s[i + 1] \in Nat /\ s[Len(q) + 1] \in Nat /\ s[i] \in Nat
  BY <1>1, LaidOrdered
<1>4. /\ s[i + 1] = s[i] + Len(q[i]) + 1 /\ s[Len(q) + 1] < FHTBUF_SIZE
      /\ buf[s[i]] = Len(q[i]) + 1
  BY DEF Laid
<1>5. /\ s[i + 1] < FHTBUF_SIZE /\ s[i] < FHTBUF_SIZE /\ buf[s[i]] # 0
      /\ s[i] \in 0 .. FHTBUF_SIZE /\ s[i] # FHTBUF_SIZE
      /\ Beyond(s[i] + buf[s[i]]) = s[i + 1]
  <2> DEFINE a == s[i]  b == s[i + 1]  e == s[Len(q) + 1]  l == Len(q[i])  v == buf[s[i]]
  <2>1. /\ a \in Nat /\ b \in Nat /\ e \in Nat /\ l \in Nat
        /\ b = a + l + 1 /\ b <= e /\ e < FHTBUF_SIZE /\ v = l + 1
    BY <1>2, <1>3, <1>4
  <2> HIDE DEF a, b, e, l, v
  <2>2. /\ b < FHTBUF_SIZE /\ a < FHTBUF_SIZE /\ v # 0 /\ Beyond(a + v) = b
        /\ a \in 0 .. FHTBUF_SIZE /\ a # FHTBUF_SIZE
    BY <1>0, <2>1 DEF Beyond
  <2> QED BY <2>2 DEF a, b, v
<1> QED BY <1>1, <1>3, <1>4, <1>5

LEMMA LaidContent ==
  ASSUME NEW buf, NEW q, NEW s, Laid(buf, q, s), NEW i \in 1 .. Len(q)
  PROVE  <<buf[s[i] + 1], buf[s[i] + 2]>> = Code(q[i])
<1>1. q[i] \in Message /\ buf[s[i]] = Len(q[i]) + 1
  BY LaidEntry
<1>2. q[i] \in Seq(Nat) /\ Len(q[i]) \in Nat /\ Len(q[i]) >= 4
  BY <1>1, MessageBytes
<1>6. \A j \in 1 .. Len(q[i]) : buf[s[i] + j] = q[i][j]
  BY DEF Laid
<1>7. <<buf[s[i] + 1], buf[s[i] + 2]>> = Code(q[i])
  <2>1. buf[s[i] + 1] = q[i][1] /\ buf[s[i] + 2] = q[i][2]
    BY <1>2, <1>6
  <2> QED BY <1>1, <2>1, MessageBytes
<1> QED BY <1>7

LEMMA LaidMessage ==
  ASSUME NEW buf, NEW q, NEW s, Laid(buf, q, s), NEW i \in 1 .. Len(q)
  PROVE  Entry(buf, s[i]) = q[i]
<1>1. q[i] \in Message /\ buf[s[i]] = Len(q[i]) + 1
  BY LaidEntry
<1>2. q[i] \in Seq(Nat) /\ Len(q[i]) \in Nat
  BY <1>1, MessageBytes
<1>6. \A j \in 1 .. Len(q[i]) : buf[s[i] + j] = q[i][j]
  BY DEF Laid
<1>8. [j \in 1 .. buf[s[i]] - 1 |-> buf[s[i] + j]] = q[i]
  <2>1. q[i] = [j \in 1 .. Len(q[i]) |-> q[i][j]]
    BY <1>2
  <2>2. [j \in 1 .. Len(q[i]) |-> q[i][j]] = [j \in 1 .. Len(q[i]) |-> buf[s[i] + j]]
    BY <1>6
  <2>3. buf[s[i]] - 1 = Len(q[i])
    BY <1>1, <1>2
  <2> QED BY <2>1, <2>2, <2>3
<1> QED BY <1>8 DEF Entry

-----------------------------------------------------------------------------
(* What fht_freebuf, fht_lookbuf and Messages are, of any buffer.          *)
FreeWalk(buf, g) ==
  g = [p \in 0 .. FHTBUF_SIZE |->
         IF p < FHTBUF_SIZE /\ buf[p] # 0 THEN g[Beyond(p + buf[p])] ELSE p]
LookWalk(buf, hc, g) ==
  g = [p \in 0 .. FHTBUF_SIZE |->
         IF p = FHTBUF_SIZE \/ buf[p] = 0 THEN FHTBUF_SIZE
         ELSE IF <<buf[p + 1], buf[p + 2]>> = hc THEN p
         ELSE g[Beyond(p + buf[p])]]
ParseWalk(buf, g) ==
  g = [p \in 0 .. FHTBUF_SIZE |->
         IF p = FHTBUF_SIZE \/ buf[p] = 0 THEN << >>
         ELSE <<Entry(buf, p)>> \o g[Beyond(p + buf[p])]]

Free(buf)     == (CHOOSE g : FreeWalk(buf, g))[0]
Look(buf, hc) == (CHOOSE g : LookWalk(buf, hc, g))[0]
Parse(buf)    == (CHOOSE g : ParseWalk(buf, g))[0]

LEMMA WalksUp ==
  ASSUME NEW buf \in [Offset -> Nat], NEW p \in 0 .. FHTBUF_SIZE - 1, buf[p] # 0
  PROVE  Beyond(p + buf[p]) \in p + 1 .. FHTBUF_SIZE
<1>1. buf[p] \in Nat /\ FHTBUF_SIZE \in Nat
  BY SizeAssumption DEF Offset
<1> DEFINE v == buf[p]
<1>2. v \in Nat /\ v # 0
  BY <1>1
<1> HIDE DEF v
<1>3. Beyond(p + v) \in p + 1 .. FHTBUF_SIZE
  BY <1>1, <1>2 DEF Beyond
<1> QED BY <1>3 DEF v

LEMMA FreeExists ==
  ASSUME NEW buf \in [Offset -> Nat]
  PROVE  \E g : FreeWalk(buf, g)
<1> DEFINE stop == [p \in 0 .. FHTBUF_SIZE |-> ~(p < FHTBUF_SIZE /\ buf[p] # 0)]
           leaf == [p \in 0 .. FHTBUF_SIZE |-> p]
           nxt  == [p \in 0 .. FHTBUF_SIZE |-> Beyond(p + buf[p])]
<1>0. FHTBUF_SIZE \in Nat /\ FHTBUF_SIZE \in 0 .. FHTBUF_SIZE /\ ~(FHTBUF_SIZE < FHTBUF_SIZE)
  BY SizeAssumption
<1>1. stop[FHTBUF_SIZE]
  BY <1>0, Zenon
<1>2. ASSUME NEW p \in 0 .. FHTBUF_SIZE - 1, ~stop[p] PROVE nxt[p] \in p + 1 .. FHTBUF_SIZE
  <2>1. p \in 0 .. FHTBUF_SIZE /\ p < FHTBUF_SIZE
    BY <1>0
  <2>2. buf[p] # 0
    BY <1>2, <2>1, Zenon
  <2>3. nxt[p] = Beyond(p + buf[p])
    BY <2>1, Zenon
  <2> HIDE DEF stop, nxt
  <2> QED BY <2>2, <2>3, WalksUp
<1>3. \A p \in 0 .. FHTBUF_SIZE : /\ stop[p] = ~(p < FHTBUF_SIZE /\ buf[p] # 0)
                                  /\ leaf[p] = p /\ nxt[p] = Beyond(p + buf[p])
  OBVIOUS
<1> HIDE DEF stop, leaf, nxt
<1>4. PICK g : Walk(FHTBUF_SIZE, stop, leaf, nxt, g)
  BY <1>0, <1>1, <1>2, WalkExists
<1>5. [p \in 0 .. FHTBUF_SIZE |-> IF stop[p] THEN leaf[p] ELSE g[nxt[p]]]
      = [p \in 0 .. FHTBUF_SIZE |->
           IF p < FHTBUF_SIZE /\ buf[p] # 0 THEN g[Beyond(p + buf[p])] ELSE p]
  BY <1>3, Zenon
<1> QED BY <1>4, <1>5 DEF FreeWalk, Walk

LEMMA LookExists ==
  ASSUME NEW buf \in [Offset -> Nat], NEW hc
  PROVE  \E g : LookWalk(buf, hc, g)
<1> DEFINE Ends(p) == p = FHTBUF_SIZE \/ buf[p] = 0
           stop == [p \in 0 .. FHTBUF_SIZE |-> Ends(p) \/ <<buf[p + 1], buf[p + 2]>> = hc]
           leaf == [p \in 0 .. FHTBUF_SIZE |-> IF Ends(p) THEN FHTBUF_SIZE ELSE p]
           nxt  == [p \in 0 .. FHTBUF_SIZE |-> Beyond(p + buf[p])]
<1>0. FHTBUF_SIZE \in Nat /\ FHTBUF_SIZE \in 0 .. FHTBUF_SIZE /\ ~(FHTBUF_SIZE < FHTBUF_SIZE)
  BY SizeAssumption
<1>1. stop[FHTBUF_SIZE]
  BY <1>0, Zenon
<1>2. ASSUME NEW p \in 0 .. FHTBUF_SIZE - 1, ~stop[p] PROVE nxt[p] \in p + 1 .. FHTBUF_SIZE
  <2>1. p \in 0 .. FHTBUF_SIZE /\ p < FHTBUF_SIZE
    BY <1>0
  <2>2. buf[p] # 0
    BY <1>2, <2>1, Zenon
  <2>3. nxt[p] = Beyond(p + buf[p])
    BY <2>1, Zenon
  <2> HIDE DEF stop, nxt
  <2> QED BY <2>2, <2>3, WalksUp
<1>3. \A p \in 0 .. FHTBUF_SIZE : /\ stop[p] = (Ends(p) \/ <<buf[p + 1], buf[p + 2]>> = hc)
                                  /\ leaf[p] = (IF Ends(p) THEN FHTBUF_SIZE ELSE p)
                                  /\ nxt[p] = Beyond(p + buf[p])
  OBVIOUS
<1> HIDE DEF stop, leaf, nxt
<1>4. PICK g : Walk(FHTBUF_SIZE, stop, leaf, nxt, g)
  BY <1>0, <1>1, <1>2, WalkExists
<1>5. [p \in 0 .. FHTBUF_SIZE |-> IF stop[p] THEN leaf[p] ELSE g[nxt[p]]]
      = [p \in 0 .. FHTBUF_SIZE |->
           IF p = FHTBUF_SIZE \/ buf[p] = 0 THEN FHTBUF_SIZE
           ELSE IF <<buf[p + 1], buf[p + 2]>> = hc THEN p
           ELSE g[Beyond(p + buf[p])]]
  <2> SUFFICES ASSUME NEW p \in 0 .. FHTBUF_SIZE
               PROVE  (IF stop[p] THEN leaf[p] ELSE g[nxt[p]])
                      = IF p = FHTBUF_SIZE \/ buf[p] = 0 THEN FHTBUF_SIZE
                        ELSE IF <<buf[p + 1], buf[p + 2]>> = hc THEN p
                        ELSE g[Beyond(p + buf[p])]
    BY Zenon
  <2> QED BY <1>3, Zenon
<1> QED BY <1>4, <1>5 DEF LookWalk, Walk

LEMMA ParseExists ==
  ASSUME NEW buf \in [Offset -> Nat]
  PROVE  \E g : ParseWalk(buf, g)
<1> DEFINE stop == [p \in 0 .. FHTBUF_SIZE |-> p = FHTBUF_SIZE \/ buf[p] = 0]
           head == [p \in 0 .. FHTBUF_SIZE |-> Entry(buf, p)]
           nxt  == [p \in 0 .. FHTBUF_SIZE |-> Beyond(p + buf[p])]
<1>0. FHTBUF_SIZE \in Nat /\ FHTBUF_SIZE \in 0 .. FHTBUF_SIZE /\ ~(FHTBUF_SIZE < FHTBUF_SIZE)
  BY SizeAssumption
<1>1. stop[FHTBUF_SIZE]
  BY <1>0, Zenon
<1>2. ASSUME NEW p \in 0 .. FHTBUF_SIZE - 1, ~stop[p] PROVE nxt[p] \in p + 1 .. FHTBUF_SIZE
  <2>1. p \in 0 .. FHTBUF_SIZE /\ p < FHTBUF_SIZE
    BY <1>0
  <2>2. buf[p] # 0
    BY <1>2, <2>1, Zenon
  <2>3. nxt[p] = Beyond(p + buf[p])
    BY <2>1, Zenon
  <2> HIDE DEF stop, nxt
  <2> QED BY <2>2, <2>3, WalksUp
<1>3. \A p \in 0 .. FHTBUF_SIZE : /\ stop[p] = (p = FHTBUF_SIZE \/ buf[p] = 0)
                                  /\ head[p] = Entry(buf, p)
                                  /\ nxt[p] = Beyond(p + buf[p])
  BY Zenon
<1> HIDE DEF stop, head, nxt
<1>4. PICK g : Collection(FHTBUF_SIZE, stop, head, nxt, g)
  BY <1>0, <1>1, <1>2, CollectionExists
<1>5. [p \in 0 .. FHTBUF_SIZE |-> IF stop[p] THEN << >> ELSE <<head[p]>> \o g[nxt[p]]]
      = [p \in 0 .. FHTBUF_SIZE |->
           IF p = FHTBUF_SIZE \/ buf[p] = 0 THEN << >>
           ELSE <<Entry(buf, p)>> \o g[Beyond(p + buf[p])]]
  BY <1>3, Zenon
<1> QED BY <1>4, <1>5 DEF ParseWalk, Collection

LEMMA FreeIsIt == fht_freebuf = Free(fht80b_buf)
BY DEF fht_freebuf, Free, FreeWalk
LEMMA LookIsIt == \A hc : fht_lookbuf(hc) = Look(fht80b_buf, hc)
BY DEF fht_lookbuf, Look, LookWalk
LEMMA ParseIsIt == Messages = Parse(fht80b_buf) /\ Messages' = Parse(fht80b_buf')
BY DEF Messages, Parse, ParseWalk, Entry

LEMMA LaidEnd ==
  ASSUME NEW buf, NEW q, NEW s, Laid(buf, q, s)
  PROVE  /\ buf \in [Offset -> Nat] /\ q \in Seq(Message) /\ Len(q) \in Nat
         /\ s[1] = 0 /\ FHTBUF_SIZE \in Nat
         /\ s[Len(q) + 1] \in 0 .. FHTBUF_SIZE /\ s[Len(q) + 1] < FHTBUF_SIZE
         /\ buf[s[Len(q) + 1]] = 0
<1>1. buf \in [Offset -> Nat] /\ q \in Seq(Message) /\ s[1] = 0
  BY Zenon DEF Laid
<1>2. Len(q) \in Nat /\ FHTBUF_SIZE \in Nat
  BY <1>1, SizeAssumption
<1>3. s \in [1 .. Len(q) + 1 -> Nat] /\ s[Len(q) + 1] < FHTBUF_SIZE /\ buf[s[Len(q) + 1]] = 0
  BY Zenon DEF Laid
<1>4. s[Len(q) + 1] \in Nat
  BY <1>2, <1>3
<1> QED BY <1>1, <1>2, <1>3, <1>4

(* The search for the end goes from message to message up to the 0. *)
LEMMA FreeIsEnd ==
  ASSUME NEW buf, NEW q, NEW s, Laid(buf, q, s)
  PROVE  Free(buf) = s[Len(q) + 1]
<1> DEFINE g == CHOOSE f : FreeWalk(buf, f)
           T == {i \in 0 .. Len(q) : g[s[i + 1]] = s[Len(q) + 1]}
<1>1. FreeWalk(buf, g)
  <2>1. \E f : FreeWalk(buf, f)
    BY LaidEnd, FreeExists
  <2> QED BY <2>1
<1>2. g[0] = Free(buf)
  BY DEF Free
<1> HIDE DEF g
<1>3. \A p \in 0 .. FHTBUF_SIZE :
        g[p] = IF p < FHTBUF_SIZE /\ buf[p] # 0 THEN g[Beyond(p + buf[p])] ELSE p
  BY <1>1, Zenon DEF FreeWalk
<1>4. Len(q) \in T
  BY <1>3, LaidEnd
<1>5. ASSUME NEW i \in 0 .. Len(q) - 1, i + 1 \in T PROVE i \in T
  <2> DEFINE k == i + 1
  <2>1. k \in 1 .. Len(q) /\ i \in 0 .. Len(q) /\ g[s[k + 1]] = s[Len(q) + 1]
    BY <1>5, LaidEnd
  <2> HIDE DEF k
  <2>2. /\ s[k] \in 0 .. FHTBUF_SIZE /\ s[k] < FHTBUF_SIZE /\ buf[s[k]] # 0
        /\ Beyond(s[k] + buf[s[k]]) = s[k + 1]
    BY <2>1, LaidEntry, LaidContent
  <2>3. g[s[k]] = s[Len(q) + 1]
    BY <1>3, <2>1, <2>2
  <2> QED BY <2>1, <2>3 DEF k
<1> HIDE DEF T
<1>6. 0 \in T
  BY <1>4, <1>5, LaidEnd, Descent
<1> QED BY <1>2, <1>6, LaidEnd DEF T

(* The search for a house code stops at its first message, *)
LEMMA LookFinds ==
  ASSUME NEW buf, NEW q, NEW s, Laid(buf, q, s), NEW hc,
         NEW n \in 1 .. Len(q), Code(q[n]) = hc, \A i \in 1 .. n - 1 : Code(q[i]) # hc
  PROVE  Look(buf, hc) = s[n]
<1> DEFINE g == CHOOSE f : LookWalk(buf, hc, f)
           T == {i \in 0 .. n - 1 : g[s[i + 1]] = s[n]}
<1>1. LookWalk(buf, hc, g)
  <2>1. \E f : LookWalk(buf, hc, f)
    BY LaidEnd, LookExists
  <2> QED BY <2>1
<1>2. g[0] = Look(buf, hc)
  BY DEF Look
<1> HIDE DEF g
<1>3. \A p \in 0 .. FHTBUF_SIZE :
        g[p] = IF p = FHTBUF_SIZE \/ buf[p] = 0 THEN FHTBUF_SIZE
               ELSE IF <<buf[p + 1], buf[p + 2]>> = hc THEN p
               ELSE g[Beyond(p + buf[p])]
  BY <1>1, Zenon DEF LookWalk
<1>4. ASSUME NEW k \in 1 .. Len(q)
      PROVE  g[s[k]] = IF Code(q[k]) = hc THEN s[k] ELSE g[s[k + 1]]
  <2>1. /\ s[k] \in 0 .. FHTBUF_SIZE /\ s[k] # FHTBUF_SIZE /\ buf[s[k]] # 0
        /\ Beyond(s[k] + buf[s[k]]) = s[k + 1]
    BY LaidEntry
  <2>2. <<buf[s[k] + 1], buf[s[k] + 2]>> = Code(q[k])
    BY LaidContent
  <2> QED BY <1>3, <2>1, <2>2, Zenon
<1>5. n - 1 \in Nat /\ n - 1 \in 0 .. n - 1 /\ n - 1 + 1 = n
  BY LaidEnd
<1>6. n - 1 \in T
  BY <1>4, <1>5
<1>7. ASSUME NEW i \in 0 .. n - 1 - 1, i + 1 \in T PROVE i \in T
  <2> DEFINE k == i + 1
  <2>1. k \in 1 .. Len(q) /\ k \in 1 .. n - 1 /\ i \in 0 .. n - 1 /\ g[s[k + 1]] = s[n]
    BY <1>7, LaidEnd
  <2> HIDE DEF k
  <2>2. g[s[k]] = s[n]
    BY <1>4, <2>1
  <2> QED BY <2>1, <2>2 DEF k
<1> HIDE DEF T
<1>8. 0 \in T
  <2>1. 0 \in 0 .. n - 1
    BY <1>5
  <2> QED BY <1>5, <1>6, <1>7, <2>1, Descent
<1> QED BY <1>2, <1>8, LaidEnd DEF T

(* or finds none. *)
LEMMA LookFindsNone ==
  ASSUME NEW buf, NEW q, NEW s, Laid(buf, q, s), NEW hc,
         \A i \in 1 .. Len(q) : Code(q[i]) # hc
  PROVE  Look(buf, hc) = FHTBUF_SIZE
<1> DEFINE g == CHOOSE f : LookWalk(buf, hc, f)
           T == {i \in 0 .. Len(q) : g[s[i + 1]] = FHTBUF_SIZE}
<1>1. LookWalk(buf, hc, g)
  <2>1. \E f : LookWalk(buf, hc, f)
    BY LaidEnd, LookExists
  <2> QED BY <2>1
<1>2. g[0] = Look(buf, hc)
  BY DEF Look
<1> HIDE DEF g
<1>3. \A p \in 0 .. FHTBUF_SIZE :
        g[p] = IF p = FHTBUF_SIZE \/ buf[p] = 0 THEN FHTBUF_SIZE
               ELSE IF <<buf[p + 1], buf[p + 2]>> = hc THEN p
               ELSE g[Beyond(p + buf[p])]
  BY <1>1, Zenon DEF LookWalk
<1>4. Len(q) \in T
  <2>1. g[s[Len(q) + 1]] = FHTBUF_SIZE
    BY <1>3, LaidEnd
  <2> QED BY <2>1, LaidEnd
<1>5. ASSUME NEW i \in 0 .. Len(q) - 1, i + 1 \in T PROVE i \in T
  <2> DEFINE k == i + 1
  <2>1. k \in 1 .. Len(q) /\ i \in 0 .. Len(q) /\ g[s[k + 1]] = FHTBUF_SIZE
    BY <1>5, LaidEnd
  <2> HIDE DEF k
  <2>2. /\ s[k] \in 0 .. FHTBUF_SIZE /\ s[k] # FHTBUF_SIZE /\ buf[s[k]] # 0
        /\ Beyond(s[k] + buf[s[k]]) = s[k + 1]
    BY <2>1, LaidEntry
  <2>3. <<buf[s[k] + 1], buf[s[k] + 2]>> = Code(q[k]) /\ Code(q[k]) # hc
    BY <2>1, LaidContent
  <2>4. g[s[k]] = FHTBUF_SIZE
    BY <1>3, <2>1, <2>2, <2>3, Zenon
  <2> QED BY <2>1, <2>4 DEF k
<1> HIDE DEF T
<1>6. 0 \in T
  BY <1>4, <1>5, LaidEnd, Descent
<1> QED BY <1>2, <1>6, LaidEnd DEF T

LEMMA Suffix ==
  ASSUME NEW S, NEW q \in Seq(S), NEW k \in 1 .. Len(q)
  PROVE  <<q[k]>> \o SubSeq(q, k + 1, Len(q)) = SubSeq(q, k, Len(q))
<1> DEFINE L == Len(q)
           a == <<q[k]>>
           b == SubSeq(q, k + 1, L)
           c == SubSeq(q, k, L)
           d == a \o b
<1>1. L \in Nat /\ k \in Nat /\ k >= 1 /\ k <= L /\ \A i \in 1 .. L : q[i] \in S
  OBVIOUS
<1>2. a \in Seq(S) /\ Len(a) = 1 /\ a[1] = q[k]
  BY <1>1
<1> HIDE DEF L, a, b, c, d
<1>3. /\ b \in Seq(S) /\ Len(b) = IF k + 1 <= L THEN L - (k + 1) + 1 ELSE 0
      /\ \A i \in 1 .. L - (k + 1) + 1 : b[i] = q[k + 1 + i - 1]
  <2>1. k + 1 \in Int /\ L \in Int /\ \A i \in k + 1 .. L : q[i] \in S
    BY <1>1
  <2> QED BY <2>1, SubSeqProperties DEF b
<1>4. /\ c \in Seq(S) /\ Len(c) = IF k <= L THEN L - k + 1 ELSE 0
      /\ \A i \in 1 .. L - k + 1 : c[i] = q[k + i - 1]
  <2>1. k \in Int /\ L \in Int /\ \A i \in k .. L : q[i] \in S
    BY <1>1
  <2> QED BY <2>1, SubSeqProperties DEF c
<1>5. /\ d \in Seq(S) /\ Len(d) = Len(a) + Len(b)
      /\ \A i \in 1 .. Len(a) + Len(b) : d[i] = IF i <= Len(a) THEN a[i] ELSE b[i - Len(a)]
  BY <1>2, <1>3, ConcatProperties DEF d
<1>6. Len(b) = L - k /\ Len(c) = L - k + 1 /\ Len(d) = L - k + 1
  BY <1>1, <1>2, <1>3, <1>4, <1>5
<1>7. ASSUME NEW i \in 1 .. Len(d) PROVE d[i] = c[i]
  <2>1. c[i] = q[k + i - 1] /\ i \in Nat /\ i >= 1 /\ i <= L - k + 1
    BY <1>1, <1>4, <1>6
  <2>2. CASE i = 1
    <3>1. d[1] = a[1] /\ k + 1 - 1 = k
      BY <1>1, <1>2, <1>5, <1>6, <2>1, <2>2
    <3> QED BY <1>2, <2>1, <2>2, <3>1
  <2>3. CASE i # 1
    <3>1. d[i] = b[i - 1] /\ i - 1 \in 1 .. L - (k + 1) + 1
      BY <1>1, <1>2, <1>5, <1>6, <2>1, <2>3
    <3>2. b[i - 1] = q[k + 1 + (i - 1) - 1] /\ k + 1 + (i - 1) - 1 = k + i - 1
      BY <1>1, <1>3, <2>1, <3>1
    <3> QED BY <2>1, <3>1, <3>2
  <2> QED BY <2>2, <2>3
<1>8. d = c
  BY <1>4, <1>5, <1>6, <1>7, SeqEqual
<1> QED BY <1>8 DEF a, b, c, d, L

LEMMA ParseIsQueue ==
  ASSUME NEW buf, NEW q, NEW s, Laid(buf, q, s)
  PROVE  Parse(buf) = q
<1> DEFINE g == CHOOSE f : ParseWalk(buf, f)
           T == {i \in 0 .. Len(q) : g[s[i + 1]] = SubSeq(q, i + 1, Len(q))}
<1>1. ParseWalk(buf, g)
  <2>1. \E f : ParseWalk(buf, f)
    BY LaidEnd, ParseExists
  <2> QED BY <2>1
<1>2. g[0] = Parse(buf)
  BY DEF Parse
<1> HIDE DEF g
<1>3. \A p \in 0 .. FHTBUF_SIZE :
        g[p] = IF p = FHTBUF_SIZE \/ buf[p] = 0 THEN << >>
               ELSE <<Entry(buf, p)>> \o g[Beyond(p + buf[p])]
  BY <1>1, Zenon DEF ParseWalk
<1>4. Len(q) \in T
  <2>0. s[Len(q) + 1] \in 0 .. FHTBUF_SIZE /\ buf[s[Len(q) + 1]] = 0 /\ Len(q) \in 0 .. Len(q)
    BY LaidEnd
  <2>1. g[s[Len(q) + 1]] = << >>
    BY <1>3, <2>0, Zenon
  <2>2. SubSeq(q, Len(q) + 1, Len(q)) = << >>
    BY LaidEnd
  <2> QED BY <2>0, <2>1, <2>2
<1>5. ASSUME NEW i \in 0 .. Len(q) - 1, i + 1 \in T PROVE i \in T
  <2> DEFINE k == i + 1
  <2>1. k \in 1 .. Len(q) /\ i \in 0 .. Len(q) /\ g[s[k + 1]] = SubSeq(q, k + 1, Len(q))
    BY <1>5, LaidEnd
  <2> HIDE DEF k
  <2>2. /\ s[k] \in 0 .. FHTBUF_SIZE /\ s[k] # FHTBUF_SIZE /\ buf[s[k]] # 0
        /\ Beyond(s[k] + buf[s[k]]) = s[k + 1]
    BY <2>1, LaidEntry
  <2>3. Entry(buf, s[k]) = q[k]
    BY <2>1, LaidMessage
  <2>4. g[s[k]] = <<q[k]>> \o SubSeq(q, k + 1, Len(q))
    BY <1>3, <2>1, <2>2, <2>3, Zenon
  <2>5. q \in Seq(Message)
    BY LaidEnd
  <2>6. g[s[k]] = SubSeq(q, k, Len(q))
    BY <2>1, <2>4, <2>5, Suffix
  <2> QED BY <2>1, <2>6 DEF k
<1> HIDE DEF T
<1>6. 0 \in T
  BY <1>4, <1>5, LaidEnd, Descent
<1>7. SubSeq(q, 1, Len(q)) = q
  BY LaidEnd
<1> QED BY <1>2, <1>6, <1>7, LaidEnd DEF T

LEMMA Ascent ==
  ASSUME NEW N \in Nat, NEW T, 0 \in T,
         \A k \in 0 .. N - 1 : k \in T => k + 1 \in T
  PROVE  \A k \in 0 .. N : k \in T
<1> DEFINE U == {k \in 0 .. N : N - k \in T}
<1>1. N \in U
  OBVIOUS
<1>2. ASSUME NEW k \in 0 .. N - 1, k + 1 \in U PROVE k \in U
  <2>1. N - (k + 1) \in T /\ N - (k + 1) \in 0 .. N - 1 /\ N - (k + 1) + 1 = N - k /\ k \in 0 .. N
    BY <1>2
  <2>2. N - (k + 1) + 1 \in T
    BY <2>1
  <2> QED BY <2>1, <2>2
<1> HIDE DEF U
<1>3. \A k \in 0 .. N : k \in U
  BY <1>1, <1>2, Descent
<1> SUFFICES ASSUME NEW k \in 0 .. N PROVE k \in T
  OBVIOUS
<1>4. N - k \in 0 .. N /\ N - (N - k) = k
  OBVIOUS
<1>5. N - (N - k) \in T
  BY <1>3, <1>4 DEF U
<1> QED BY <1>4, <1>5

(* The bytes the messages take end where the last one ends. *)
SumWalk(q, f) ==
  f = [i \in 0 .. Len(q) |-> IF i = 0 THEN 0 ELSE f[i - 1] + Len(q[i]) + 1]

LEMMA BytesEnd ==
  ASSUME NEW buf, NEW q, NEW s, Laid(buf, q, s)
  PROVE  Bytes(q) = s[Len(q) + 1]
<1> DEFINE g == CHOOSE f : SumWalk(q, f)
           h == [i \in 0 .. Len(q) |-> s[i + 1]]
           T == {i \in 0 .. Len(q) : g[i] = s[i + 1]}
<1>0. Len(q) \in Nat
  BY LaidEnd
<1>1. \A i \in 1 .. Len(q) : s[i + 1] = s[i] + Len(q[i]) + 1
  BY Zenon DEF Laid
<1>2. SumWalk(q, h)
  <2>1. ASSUME NEW i \in 0 .. Len(q)
        PROVE  h[i] = IF i = 0 THEN 0 ELSE h[i - 1] + Len(q[i]) + 1
    <3>1. CASE i = 0
      BY <3>1, LaidEnd
    <3>2. CASE i # 0
      <4>1. i - 1 \in 0 .. Len(q) /\ i - 1 + 1 = i /\ i \in 1 .. Len(q)
        BY <1>0, <3>2
      <4>2. h[i - 1] = s[i] /\ h[i] = s[i + 1]
        BY <4>1
      <4> HIDE DEF h
      <4> QED BY <1>1, <3>2, <4>1, <4>2
    <3> QED BY <3>1, <3>2
  <2>2. h = [i \in 0 .. Len(q) |-> h[i]]
    OBVIOUS
  <2> HIDE DEF h
  <2>3. [i \in 0 .. Len(q) |-> h[i]]
        = [i \in 0 .. Len(q) |-> IF i = 0 THEN 0 ELSE h[i - 1] + Len(q[i]) + 1]
    BY <2>1
  <2> QED BY <2>2, <2>3, Zenon DEF SumWalk
<1>3. SumWalk(q, g)
  BY <1>2
<1>4. Bytes(q) = g[Len(q)]
  BY DEF Bytes, SumWalk
<1> HIDE DEF g, h
<1>5. \A i \in 0 .. Len(q) : g[i] = IF i = 0 THEN 0 ELSE g[i - 1] + Len(q[i]) + 1
  BY <1>3, Zenon DEF SumWalk
<1>6. 0 \in T
  BY <1>0, <1>5, LaidEnd
<1>7. ASSUME NEW i \in 0 .. Len(q) - 1, i \in T PROVE i + 1 \in T
  <2> DEFINE k == i + 1
  <2>1. k \in 1 .. Len(q) /\ k \in 0 .. Len(q) /\ k # 0 /\ k - 1 = i /\ g[i] = s[k]
    BY <1>0, <1>7
  <2> HIDE DEF k
  <2>2. g[k] = s[k] + Len(q[k]) + 1
    BY <1>5, <2>1, Zenon
  <2>3. g[k] = s[k + 1]
    BY <1>1, <2>1, <2>2
  <2> QED BY <2>1, <2>3 DEF k
<1> HIDE DEF T
<1>8. Len(q) \in T
  <2>1. Len(q) \in 0 .. Len(q)
    BY <1>0
  <2> QED BY <1>0, <1>6, <1>7, <2>1, Ascent
<1> QED BY <1>4, <1>8 DEF T

-----------------------------------------------------------------------------
(* What the operations on the buffer do to the messages in it.             *)
LEMMA LaidEmpty ==
  ASSUME NEW buf \in [Offset -> Nat], buf[0] = 0
  PROVE  Laid(buf, << >>, [i \in 1 .. 1 |-> 0])
<1> DEFINE s == [i \in 1 .. 1 |-> 0]
           q == << >>
<1>1. Len(q) = 0 /\ q \in Seq(Message) /\ 1 .. Len(q) = {} /\ Len(q) + 1 = 1
  OBVIOUS
<1>2. s \in [1 .. 1 -> Nat] /\ s[1] = 0
  OBVIOUS
<1>3. 0 < FHTBUF_SIZE
  BY SizeAssumption
<1> HIDE DEF s, q
<1> QED BY <1>1, <1>2, <1>3 DEF Laid, s, q

(* fht_addbuf writes behind the last message. *)
Appended(buf, e, m) ==
  LET l == Len(m) + 1
  IN [i \in Offset |-> IF i = e THEN l
                       ELSE IF i \in e + 1 .. e + l - 1 THEN m[i - e]
                       ELSE IF i = e + l THEN 0 ELSE buf[i]]

LEMMA LaidAppended ==
  ASSUME NEW buf, NEW q, NEW s, Laid(buf, q, s), NEW m \in Message,
         s[Len(q) + 1] + Len(m) + 1 < FHTBUF_SIZE
  PROVE  \E t : Laid(Appended(buf, s[Len(q) + 1], m), Append(q, m), t)
<1> DEFINE n == Len(q)
           e == s[n + 1]
           l == Len(m) + 1
           b == Appended(buf, e, m)
           p == Append(q, m)
           t == [i \in 1 .. n + 2 |-> IF i = n + 2 THEN e + l ELSE s[i]]
<1>1. /\ n \in Nat /\ e \in Nat /\ l \in Nat /\ l >= 5 /\ e + l < FHTBUF_SIZE /\ FHTBUF_SIZE \in Nat
      /\ q \in Seq(Message) /\ m \in Seq(Nat) /\ Len(m) = l - 1 /\ s[1] = 0
      /\ buf \in [Offset -> Nat] /\ n = Len(q) /\ e = s[n + 1] /\ l = Len(m) + 1
  <2>1. m \in Seq(Nat) /\ Len(m) \in Nat /\ Len(m) >= 4
    BY MessageBytes
  <2>2. /\ n \in Nat /\ e \in Nat /\ e + Len(m) + 1 < FHTBUF_SIZE /\ FHTBUF_SIZE \in Nat
        /\ q \in Seq(Message) /\ s[1] = 0 /\ buf \in [Offset -> Nat]
    BY LaidEnd
  <2> HIDE DEF n, e
  <2>3. /\ l \in Nat /\ l >= 5 /\ e + l < FHTBUF_SIZE /\ Len(m) = l - 1
    BY <2>1, <2>2
  <2> QED BY <2>1, <2>2, <2>3 DEF n, e
<1> HIDE DEF n, e, l
<1>a. n \in Nat /\ e \in Nat /\ l \in Nat /\ l >= 5 /\ e + l < FHTBUF_SIZE /\ FHTBUF_SIZE \in Nat
  BY <1>1
<1>2. /\ p \in Seq(Message) /\ Len(p) = n + 1 /\ p[n + 1] = m
      /\ \A i \in 1 .. n : p[i] = q[i]
  BY <1>1, AppendProperties
<1>3. \A j \in 1 .. l - 1 : m[j] \in Nat
  BY <1>1
<1>4. \A i \in 1 .. n + 1 : s[i] \in Nat
  <2>1. s \in [1 .. Len(q) + 1 -> Nat]
    BY Zenon DEF Laid
  <2> QED BY <1>1, <2>1
<1>5. t[n + 2] = e + l /\ \A i \in 1 .. n + 1 : t[i] = s[i]
  BY <1>1
<1>6. t \in [1 .. n + 2 -> Nat]
  <2>1. \A i \in 1 .. n + 2 : i = n + 2 \/ i \in 1 .. n + 1
    BY <1>a
  <2>2. \A i \in 1 .. n + 2 : (IF i = n + 2 THEN e + l ELSE s[i]) \in Nat
    BY <1>a, <1>4, <2>1
  <2> QED BY <2>2
<1>7. \A i \in Offset : b[i] = IF i = e THEN l
                               ELSE IF i \in e + 1 .. e + l - 1 THEN m[i - e]
                               ELSE IF i = e + l THEN 0 ELSE buf[i]
  BY <1>1, Zenon DEF Appended
<1>8. b \in [Offset -> Nat]
  <2>1. ASSUME NEW i \in Offset PROVE b[i] \in Nat
    <3>1. i \in Nat /\ buf[i] \in Nat
      <4>1. buf \in [Offset -> Nat]
        BY <1>1
      <4> QED BY <1>a, <4>1 DEF Offset
    <3>2. i \in e + 1 .. e + l - 1 => i - e \in 1 .. l - 1
      BY <1>a, <3>1
    <3> HIDE DEF b
    <3> QED BY <1>a, <1>3, <1>7, <3>1, <3>2
  <2>2. b = [i \in Offset |-> b[i]]
    BY Zenon DEF Appended
  <2> HIDE DEF b
  <2> QED BY <2>1, <2>2
<1> HIDE DEF b, p, t
<1>9. \A i \in 0 .. e - 1 : b[i] = buf[i]
  <2>1. \A i \in 0 .. e - 1 : /\ i \in Offset /\ i # e /\ i \notin e + 1 .. e + l - 1
                              /\ i # e + l
    BY <1>a DEF Offset
  <2> QED BY <1>7, <2>1
<1>10. b[e] = l /\ b[e + l] = 0
  <2>1. /\ e \in Offset /\ e + l \in Offset /\ e + l # e /\ e + l \notin e + 1 .. e + l - 1
    BY <1>a DEF Offset
  <2> QED BY <1>7, <2>1
<1>11. ASSUME NEW j \in 1 .. l - 1 PROVE b[e + j] = m[j]
  <2> DEFINE k == e + j
  <2>1. k \in Offset /\ k # e /\ k \in e + 1 .. e + l - 1 /\ k - e = j
    BY <1>a DEF Offset
  <2> HIDE DEF k
  <2>2. b[k] = m[k - e]
    BY <1>7, <2>1, Zenon
  <2> QED BY <2>1, <2>2 DEF k
<1>12. ASSUME NEW i \in 1 .. n + 1
       PROVE  /\ t[i + 1] = t[i] + Len(p[i]) + 1 /\ b[t[i]] = Len(p[i]) + 1
              /\ \A j \in 1 .. Len(p[i]) : b[t[i] + j] = p[i][j]
  <2>1. CASE i = n + 1
    <3>1. t[i] = e /\ t[i + 1] = e + l /\ p[i] = m
      BY <1>1, <1>2, <1>5, <2>1
    <3>2. Len(p[i]) + 1 = l /\ Len(p[i]) = l - 1
      <4>1. Len(p[i]) = l - 1
        BY <1>1, <3>1
      <4> QED BY <1>a, <4>1
    <3>3. t[i + 1] = t[i] + Len(p[i]) + 1
      <4> DEFINE k == Len(p[i])
      <4>1. k = l - 1
        BY <3>2
      <4> HIDE DEF k
      <4>2. e + l = e + k + 1
        BY <1>a, <4>1
      <4> QED BY <3>1, <4>2 DEF k
    <3> QED BY <1>10, <1>11, <3>1, <3>2, <3>3
  <2>2. CASE i # n + 1
    <3>1. i \in 1 .. n /\ i \in 1 .. n + 1 /\ i + 1 \in 1 .. n + 1
      BY <1>1, <2>2
    <3>2. t[i] = s[i] /\ t[i + 1] = s[i + 1] /\ p[i] = q[i]
      BY <1>2, <1>5, <3>1
    <3>3. /\ s[i + 1] = s[i] + Len(q[i]) + 1 /\ buf[s[i]] = Len(q[i]) + 1
          /\ \A j \in 1 .. Len(q[i]) : buf[s[i] + j] = q[i][j]
      BY <1>1, <3>1, Zenon DEF Laid
    <3>4. s[i + 1] <= e /\ s[i] \in Nat /\ s[i + 1] \in Nat
      <4>1. n + 1 \in 1 .. Len(q) + 1 /\ i + 1 \in 1 .. n + 1 /\ i \in 1 .. n + 1
        BY <1>1, <3>1
      <4> QED BY <1>1, <4>1, LaidOrdered
    <3>5. q[i] \in Message /\ Len(q[i]) \in Nat
      BY <1>1, <3>1, MessageBytes
    <3>6. s[i] \in 0 .. e - 1 /\ \A j \in 1 .. Len(q[i]) : s[i] + j \in 0 .. e - 1
      <4> DEFINE a == s[i]  c == s[i + 1]  k == Len(q[i])
      <4>1. a \in Nat /\ c \in Nat /\ k \in Nat /\ c = a + k + 1 /\ c <= e
        BY <3>3, <3>4, <3>5
      <4> HIDE DEF a, c, k
      <4>2. a \in 0 .. e - 1 /\ \A j \in 1 .. k : a + j \in 0 .. e - 1
        BY <1>a, <4>1
      <4> QED BY <4>2 DEF a, k
    <3>7. b[s[i]] = buf[s[i]] /\ \A j \in 1 .. Len(q[i]) : b[s[i] + j] = buf[s[i] + j]
      BY <1>9, <3>6
    <3> QED BY <3>2, <3>3, <3>7
  <2> QED BY <2>1, <2>2
<1>13. t[1] = 0 /\ t[n + 2] < FHTBUF_SIZE /\ b[t[n + 2]] = 0
  <2>1. 1 \in 1 .. n + 1
    BY <1>1
  <2> QED BY <1>1, <1>5, <1>10, <2>1
<1>14. Len(p) = n + 1 /\ Len(p) + 1 = n + 2
  BY <1>1, <1>2
<1>15. Laid(b, p, t)
  BY <1>2, <1>6, <1>8, <1>12, <1>13, <1>14 DEF Laid
<1> QED BY <1>15 DEF b, p, e, n
LEMMA Removed ==
  ASSUME NEW S, NEW s \in Seq(S), NEW p \in 1 .. Len(s) + 1
  PROVE  /\ RemoveAt(s, p) \in Seq(S)
         /\ Len(RemoveAt(s, p)) = IF p <= Len(s) THEN Len(s) - 1 ELSE Len(s)
         /\ \A i \in 1 .. Len(RemoveAt(s, p)) :
              RemoveAt(s, p)[i] = IF i < p THEN s[i] ELSE s[i + 1]
<1> DEFINE a == SubSeq(s, 1, p - 1)
           b == SubSeq(s, p + 1, Len(s))
<1>0. Len(s) \in Nat /\ p \in Nat \ {0} /\ \A i \in 1 .. Len(s) : s[i] \in S
  OBVIOUS
<1>1. /\ a \in Seq(S) /\ Len(a) = p - 1
      /\ \A i \in 1 .. p - 1 : a[i] = s[i]
  <2>1. \A i \in 1 .. p - 1 : s[i] \in S
    BY <1>0
  <2>2. /\ a \in Seq(S)
        /\ Len(a) = IF 1 <= p - 1 THEN p - 1 - 1 + 1 ELSE 0
        /\ \A i \in 1 .. p - 1 - 1 + 1 : a[i] = s[1 + i - 1]
    <3>1. 1 \in Int /\ p - 1 \in Int
      BY <1>0
    <3> HIDE DEF a
    <3> QED BY <2>1, <3>1, SubSeqProperties DEF a
  <2> HIDE DEF a
  <2> QED BY <1>0, <2>2
<1>2. /\ b \in Seq(S) /\ Len(b) = IF p <= Len(s) THEN Len(s) - p ELSE 0
      /\ \A i \in 1 .. Len(s) - p : b[i] = s[p + i]
  <2>1. \A i \in p + 1 .. Len(s) : s[i] \in S
    BY <1>0
  <2>2. /\ b \in Seq(S)
        /\ Len(b) = IF p + 1 <= Len(s) THEN Len(s) - (p + 1) + 1 ELSE 0
        /\ \A i \in 1 .. Len(s) - (p + 1) + 1 : b[i] = s[p + 1 + i - 1]
    <3>1. p + 1 \in Int /\ Len(s) \in Int
      BY <1>0
    <3> HIDE DEF b
    <3> QED BY <2>1, <3>1, SubSeqProperties DEF b
  <2> HIDE DEF b
  <2> QED BY <1>0, <2>2
<1>3. RemoveAt(s, p) = a \o b
  BY Zenon DEF RemoveAt
<1> HIDE DEF a, b
<1>4. /\ a \o b \in Seq(S) /\ Len(a \o b) = Len(a) + Len(b)
      /\ \A i \in 1 .. Len(a) + Len(b) : (a \o b)[i] = IF i <= Len(a) THEN a[i] ELSE b[i - Len(a)]
  BY <1>1, <1>2, ConcatProperties, Zenon
<1> DEFINE c == a \o b
<1>5. /\ c \in Seq(S) /\ Len(c) = Len(a) + Len(b)
      /\ \A i \in 1 .. Len(a) + Len(b) : c[i] = IF i <= Len(a) THEN a[i] ELSE b[i - Len(a)]
  BY <1>4
<1> HIDE DEF c
<1>6. Len(c) = IF p <= Len(s) THEN Len(s) - 1 ELSE Len(s)
  BY <1>0, <1>1, <1>2, <1>5
<1>7. ASSUME NEW i \in 1 .. Len(c) PROVE c[i] = IF i < p THEN s[i] ELSE s[i + 1]
  <2>1. CASE i < p
    BY <1>0, <1>1, <1>2, <1>5, <2>1
  <2>2. CASE ~(i < p)
    <3>1. i - Len(a) \in 1 .. Len(s) - p /\ p + (i - Len(a)) = i + 1
      BY <1>0, <1>1, <1>6, <2>2
    <3>2. c[i] = b[i - Len(a)]
      BY <1>0, <1>1, <1>2, <1>5, <2>2
    <3> QED BY <1>2, <2>2, <3>1, <3>2
  <2> QED BY <2>1, <2>2
<1> QED BY <1>3, <1>5, <1>6, <1>7 DEF c

(* fht_delbuf moves what follows the message at p, z bytes long, over it.  *)
Closed(buf, p, z) ==
  LET lim == FHTBUF_SIZE - z
  IN [i \in Offset |-> IF i \in p .. lim - 1 THEN buf[i + z]
                       ELSE IF i = (IF p < lim THEN lim ELSE p) THEN 0 ELSE buf[i]]

LEMMA LaidClosed ==
  ASSUME NEW buf, NEW q, NEW s, Laid(buf, q, s), NEW n \in 1 .. Len(q)
  PROVE  \E t : Laid(Closed(buf, s[n], buf[s[n]]), RemoveAt(q, n), t)
<1> DEFINE L   == Len(q)
           p   == s[n]
           z   == buf[s[n]]
           e   == s[L + 1]
           lim == FHTBUF_SIZE - z
           b   == Closed(buf, p, z)
           r   == RemoveAt(q, n)
           t   == [i \in 1 .. L |-> IF i <= n THEN s[i] ELSE s[i + 1] - z]
<1>1. /\ L \in Nat /\ p \in Nat /\ z \in Nat /\ e \in Nat /\ FHTBUF_SIZE \in Nat /\ n \in Nat
      /\ L = Len(q) /\ p = s[n] /\ e = s[L + 1] /\ e < FHTBUF_SIZE /\ z = Len(q[n]) + 1
      /\ s[n + 1] = p + z /\ s[n + 1] <= e /\ s[1] = 0 /\ n >= 1 /\ n <= L
      /\ lim = FHTBUF_SIZE - z
  <2>1. L \in Nat /\ FHTBUF_SIZE \in Nat /\ s[1] = 0 /\ n >= 1 /\ n <= L /\ n \in Nat
    BY LaidEnd
  <2>2. n + 1 \in 1 .. Len(q) + 1 /\ L + 1 \in 1 .. Len(q) + 1 /\ n \in 1 .. L + 1 /\ n + 1 \in 1 .. L + 1
    BY <2>1
  <2>3. s[n + 1] <= s[L + 1] /\ s[n + 1] \in Nat /\ s[L + 1] \in Nat
    BY <2>2, LaidOrdered
  <2>4. s[L + 1] < FHTBUF_SIZE
    BY LaidEnd
  <2>5. /\ q[n] \in Message /\ s[n] \in Nat /\ s[n + 1] = s[n] + Len(q[n]) + 1
        /\ buf[s[n]] = Len(q[n]) + 1
    BY LaidEntry
  <2>6. Len(q[n]) \in Nat
    BY <2>5, MessageBytes
  <2> HIDE DEF L
  <2>7. p \in Nat /\ z \in Nat /\ z = Len(q[n]) + 1 /\ s[n + 1] = p + z
    BY <2>5, <2>6
  <2> QED BY <2>1, <2>3, <2>4, <2>7 DEF L
<1> HIDE DEF L, p, z, e, lim
<1>2. /\ p + z <= e /\ e < FHTBUF_SIZE /\ z >= 1 /\ lim = FHTBUF_SIZE - z /\ p < lim
      /\ lim \in Nat /\ e - z \in p .. lim - 1 /\ e - z \in Offset
      /\ p \in Nat /\ z \in Nat /\ e \in Nat /\ FHTBUF_SIZE \in Nat
  <2>1. z >= 1
    <3>1. Len(q[n]) \in Nat
      BY LaidEntry, MessageBytes
    <3> DEFINE k == Len(q[n])
    <3>2. k \in Nat /\ z = k + 1
      BY <1>1, <3>1
    <3> HIDE DEF k
    <3> QED BY <3>2
  <2>2. /\ p + z <= e /\ e < FHTBUF_SIZE /\ p \in Nat /\ z \in Nat /\ e \in Nat
        /\ FHTBUF_SIZE \in Nat /\ lim = FHTBUF_SIZE - z
    BY <1>1
  <2> QED BY <2>1, <2>2 DEF Offset
<1>3. L \in Nat /\ n \in Nat /\ n >= 1 /\ n <= L
  BY <1>1
<1>4. /\ buf \in [Offset -> Nat] /\ q \in Seq(Message) /\ buf[e] = 0
  BY <1>1, LaidEnd
<1>5. /\ r \in Seq(Message) /\ Len(r) = L - 1
      /\ \A i \in 1 .. L - 1 : r[i] = IF i < n THEN q[i] ELSE q[i + 1]
  <2>1. n \in 1 .. Len(q) + 1
    BY <1>1
  <2>2. /\ r \in Seq(Message) /\ Len(r) = IF n <= Len(q) THEN Len(q) - 1 ELSE Len(q)
        /\ \A i \in 1 .. Len(r) : r[i] = IF i < n THEN q[i] ELSE q[i + 1]
    BY <1>4, <2>1, Removed
  <2> HIDE DEF r
  <2> QED BY <1>1, <2>2
<1>6. \A i \in 1 .. L + 1 : s[i] \in Nat
  <2>1. s \in [1 .. Len(q) + 1 -> Nat]
    BY Zenon DEF Laid
  <2> QED BY <1>1, <2>1
<1>7. /\ \A i \in 1 .. n : t[i] = s[i]
      /\ \A i \in n .. L : t[i] = s[i + 1] - z
  <2>1. \A i \in 1 .. n : t[i] = s[i]
    BY <1>3
  <2>2. ASSUME NEW i \in n .. L, i # n PROVE t[i] = s[i + 1] - z
    BY <1>3, <2>2
  <2>3. t[n] = s[n + 1] - z
    <3>1. n \in 1 .. n
      BY <1>3
    <3>2. t[n] = p
      BY <1>1, <2>1, <3>1
    <3>3. s[n + 1] = p + z
      BY <1>1
    <3> QED BY <1>2, <3>2, <3>3
  <2> QED BY <2>1, <2>2, <2>3
<1>8. \A i \in Offset : b[i] = IF i \in p .. lim - 1 THEN buf[i + z]
                               ELSE IF i = lim THEN 0 ELSE buf[i]
  <2>1. p < FHTBUF_SIZE - z /\ lim = FHTBUF_SIZE - z
    BY <1>2
  <2> QED BY <2>1, Zenon DEF Closed
<1>9. b \in [Offset -> Nat]
  <2>1. ASSUME NEW i \in Offset PROVE b[i] \in Nat
    <3>1. i \in p .. lim - 1 => i + z \in Offset
      BY <1>2 DEF Offset
    <3> HIDE DEF b
    <3> QED BY <1>4, <1>8, <3>1
  <2>2. b = [i \in Offset |-> b[i]]
    BY Zenon DEF Closed
  <2> HIDE DEF b
  <2> QED BY <2>1, <2>2
<1> HIDE DEF b, r
<1>10. t \in [1 .. L -> Nat]
  <2>1. ASSUME NEW i \in 1 .. L PROVE t[i] \in Nat
    <3>1. CASE i \in 1 .. n
      <4>1. i \in 1 .. L + 1
        BY <1>3
      <4> QED BY <1>6, <1>7, <3>1, <4>1
    <3>2. CASE i \in n .. L
      <4> DEFINE k == i + 1
      <4>1. k \in 1 .. L + 1 /\ n + 1 \in 1 .. k /\ k \in 1 .. Len(q) + 1
        BY <1>1, <1>3, <3>2
      <4> HIDE DEF k
      <4>2. s[n + 1] <= s[k] /\ s[k] \in Nat
        BY <4>1, LaidOrdered
      <4>3. p + z <= s[k]
        BY <1>1, <4>2
      <4>4. s[k] - z \in Nat
        BY <1>2, <4>2, <4>3
      <4> HIDE DEF t
      <4> QED BY <1>7, <3>2, <4>4 DEF k
    <3> QED BY <1>3, <3>1, <3>2
  <2>2. t = [i \in 1 .. L |-> t[i]]
    OBVIOUS
  <2> HIDE DEF t
  <2> QED BY <2>1, <2>2
<1> HIDE DEF t
<1>11. \A i \in 0 .. p - 1 : b[i] = buf[i]
  <2>1. \A i \in 0 .. p - 1 : i \in Offset /\ i \notin p .. lim - 1 /\ i # lim
    BY <1>2 DEF Offset
  <2> QED BY <1>8, <2>1
<1>12. \A i \in p + z .. e : b[i - z] = buf[i]
  <2> SUFFICES ASSUME NEW i \in p + z .. e PROVE b[i - z] = buf[i]
    OBVIOUS
  <2> DEFINE k == i - z
  <2>1. k \in Offset /\ k \in p .. lim - 1 /\ k + z = i
    BY <1>2 DEF Offset
  <2> HIDE DEF k
  <2>2. b[k] = buf[k + z]
    BY <1>8, <2>1, Zenon
  <2> QED BY <2>1, <2>2 DEF k
<1>13. ASSUME NEW i \in 1 .. L - 1
       PROVE  /\ t[i + 1] = t[i] + Len(r[i]) + 1 /\ b[t[i]] = Len(r[i]) + 1
              /\ \A j \in 1 .. Len(r[i]) : b[t[i] + j] = r[i][j]
  <2> DEFINE k == IF i < n THEN i ELSE i + 1
             a == s[k]
             c == s[k + 1]
             l == Len(q[k])
  <2>1. k \in 1 .. L /\ k \in 1 .. L + 1 /\ k + 1 \in 1 .. L + 1 /\ k \in 1 .. k + 1 /\ k \in 1 .. Len(q)
    BY <1>1, <1>3
  <2>2. r[i] = q[k]
    BY <1>5
  <2>k. k = IF i < n THEN i ELSE i + 1
    OBVIOUS
  <2> HIDE DEF k
  <2>3. /\ c = a + l + 1 /\ buf[a] = l + 1 /\ a \in Nat /\ l \in Nat
        /\ \A j \in 1 .. l : buf[a + j] = q[k][j]
    <3>1. q[k] \in Message /\ s[k] \in Nat
      BY <2>1, LaidEntry
    <3>2. Len(q[k]) \in Nat
      BY <3>1, MessageBytes
    <3> QED BY <2>1, <3>1, <3>2, Zenon DEF Laid
  <2>4. CASE i < n
    <3>1. k = i /\ k + 1 \in 1 .. n /\ k \in 1 .. n /\ n \in 1 .. Len(q) + 1
      BY <1>1, <1>3, <2>4, <2>k
    <3>2. t[i] = a /\ t[i + 1] = c
      BY <1>7, <3>1
    <3>3. s[k + 1] <= s[n]
      BY <3>1, LaidOrdered
    <3>4. c <= p
      BY <1>1, <3>3
    <3> HIDE DEF a, c, l
    <3>5. a \in 0 .. p - 1 /\ \A j \in 1 .. l : a + j \in 0 .. p - 1
      BY <1>2, <2>3, <3>4
    <3>6. b[a] = buf[a] /\ \A j \in 1 .. l : b[a + j] = buf[a + j]
      BY <1>11, <3>5
    <3>7. Len(r[i]) = l
      BY <2>2 DEF l
    <3> QED BY <2>2, <2>3, <3>2, <3>6, <3>7
  <2>5. CASE ~(i < n)
    <3>1. /\ k = i + 1 /\ i \in n .. L /\ i + 1 \in n .. L /\ k \in 1 .. Len(q) + 1
          /\ n + 1 \in 1 .. k /\ k + 1 \in 1 .. L + 1 /\ L + 1 \in 1 .. Len(q) + 1
      BY <1>1, <1>3, <2>5, <2>k
    <3>2. t[i] = a - z /\ t[i + 1] = c - z
      BY <1>7, <3>1
    <3>3. s[n + 1] <= s[k] /\ s[k + 1] <= s[L + 1]
      BY <3>1, LaidOrdered
    <3>4. p + z <= a /\ c <= e
      BY <1>1, <3>3
    <3>7. Len(r[i]) = l
      BY <2>2
    <3> HIDE DEF a, c, l
    <3>5. a \in p + z .. e /\ \A j \in 1 .. l : a + j \in p + z .. e
      BY <1>2, <2>3, <3>4
    <3>6. b[a - z] = buf[a] /\ \A j \in 1 .. l : b[a - z + j] = buf[a + j]
      <4>1. b[a - z] = buf[a]
        BY <1>12, <3>5
      <4>2. ASSUME NEW j \in 1 .. l PROVE b[a - z + j] = buf[a + j]
        <5> DEFINE x == a + j  y == a - z + j
        <5>1. x \in p + z .. e /\ x - z = y
          BY <1>2, <2>3, <3>4
        <5> HIDE DEF x, y
        <5>2. b[x - z] = buf[x]
          BY <1>12, <5>1
        <5> QED BY <5>1, <5>2 DEF x, y
      <4> QED BY <4>1, <4>2
    <3>8. c - z = a - z + l + 1
      <4>1. c = a + l + 1 /\ a \in Nat /\ l \in Nat /\ z \in Nat
        BY <1>2, <2>3
      <4> QED BY <4>1
    <3> QED BY <2>2, <2>3, <3>2, <3>6, <3>7, <3>8
  <2> QED BY <2>4, <2>5
<1>14. t[1] = 0 /\ t[L] < FHTBUF_SIZE /\ b[t[L]] = 0
  <2>1. 1 \in 1 .. n /\ L \in n .. L
    BY <1>3
  <2>2. t[1] = 0
    BY <1>1, <1>7, <2>1
  <2>3. t[L] = e - z
    BY <1>1, <1>7, <2>1
  <2>4. e - z < FHTBUF_SIZE /\ e \in p + z .. e
    BY <1>2
  <2>5. b[e - z] = 0
    BY <1>4, <1>12, <2>4
  <2> QED BY <2>2, <2>3, <2>4, <2>5
<1>15. Len(r) = L - 1 /\ Len(r) + 1 = L
  BY <1>3, <1>5
<1>16. Laid(b, r, t)
  BY <1>5, <1>9, <1>10, <1>13, <1>14, <1>15 DEF Laid
<1> QED BY <1>16 DEF b, r, p, z

-----------------------------------------------------------------------------
(* The buffer holds messages of the host and nothing else: Messages, one   *)
(* behind the other from offset 0, and a 0 behind the last.                *)
QueueInv == \E s : Laid(fht80b_buf, Messages, s)

(* The first message for a house code. *)
IsFirst(q, hc, n) ==
  n \in 1 .. Len(q) /\ Code(q[n]) = hc /\ \A i \in 1 .. n - 1 : Code(q[i]) # hc

LEMMA SameBytes ==
  ASSUME fht80b_buf' = fht80b_buf
  PROVE  Messages' = Messages
BY ParseIsIt

LEMMA NewQueue ==
  ASSUME NEW q, NEW s, Laid(fht80b_buf', q, s)
  PROVE  Messages' = q /\ QueueInv'
<1>1. Messages' = q
  BY ParseIsIt, ParseIsQueue
<1> QED BY <1>1 DEF QueueInv

LEMMA HasFirst ==
  ASSUME NEW q \in Seq(Message), NEW hc, NEW i \in 1 .. Len(q), Code(q[i]) = hc
  PROVE  \E n : IsFirst(q, hc, n)
<1> DEFINE T == {k \in 0 .. Len(q) : \A j \in 1 .. k : Code(q[j]) # hc}
<1> SUFFICES ASSUME ~\E n : IsFirst(q, hc, n) PROVE FALSE
  OBVIOUS
<1>1. Len(q) \in Nat
  OBVIOUS
<1>2. 0 \in T
  BY <1>1
<1>3. ASSUME NEW k \in 0 .. Len(q) - 1, k \in T PROVE k + 1 \in T
  <2> DEFINE n == k + 1
  <2>1. n \in 1 .. Len(q) /\ n \in 0 .. Len(q) /\ n - 1 = k /\ n \in Nat
    BY <1>1
  <2>2. \A j \in 1 .. n - 1 : Code(q[j]) # hc
    BY <1>3, <2>1
  <2> HIDE DEF n
  <2>3. Code(q[n]) # hc
    BY <2>1, <2>2, Zenon DEF IsFirst
  <2>4. \A j \in 1 .. n : j = n \/ j \in 1 .. n - 1
    BY <2>1
  <2>5. n \in T
    BY <2>1, <2>2, <2>3, <2>4
  <2> QED BY <2>5 DEF n
<1> HIDE DEF T
<1>4. Len(q) \in T
  <2>1. Len(q) \in 0 .. Len(q)
    BY <1>1
  <2> QED BY <1>1, <1>2, <1>3, <2>1, Ascent
<1> QED BY <1>4 DEF T

(* T stores a message behind the others, if there is room for its 0. *)
LEMMA AddStep ==
  ASSUME QueueInv, NEW m \in Message, fht80b_buf' = fht_addbuf(m)
  PROVE  /\ QueueInv'
         /\ \/ fht80b_buf' = fht80b_buf
            \/ /\ Bytes(Messages) + Len(m) + 1 < FHTBUF_SIZE
               /\ Messages' = Append(Messages, m)
<1>1. PICK s : Laid(fht80b_buf, Messages, s)
  BY DEF QueueInv
<1> DEFINE e == s[Len(Messages) + 1]
<1>2. fht_freebuf = e /\ Bytes(Messages) = e
  BY <1>1, FreeIsIt, FreeIsEnd, BytesEnd
<1>3. e \in Nat /\ FHTBUF_SIZE \in Nat /\ Len(m) \in Nat
  BY <1>1, LaidEnd, MessageBytes
<1> HIDE DEF e
<1>4. CASE e + Len(m) + 1 < FHTBUF_SIZE
  <2>1. ~(e + (Len(m) + 1) >= FHTBUF_SIZE)
    BY <1>3, <1>4
  <2>2. fht80b_buf' = Appended(fht80b_buf, e, m)
    BY <1>2, <2>1, Zenon DEF fht_addbuf, Appended
  <2>3. PICK t : Laid(fht80b_buf', Append(Messages, m), t)
    BY <1>1, <1>4, <2>2, LaidAppended DEF e
  <2> QED BY <1>2, <1>4, <2>3, NewQueue
<1>5. CASE ~(e + Len(m) + 1 < FHTBUF_SIZE)
  <2>1. e + (Len(m) + 1) >= FHTBUF_SIZE
    BY <1>3, <1>5
  <2>2. fht80b_buf' = fht80b_buf
    BY <1>2, <2>1, Zenon DEF fht_addbuf
  <2> QED BY <1>1, <2>2, NewQueue
<1> QED BY <1>4, <1>5

(* The end of a conversation removes the first message for its thermostat. *)
LEMMA DelStep ==
  ASSUME QueueInv, NEW hc, fht80b_buf' = fht_delbuf(hc)
  PROVE  /\ QueueInv'
         /\ \/ fht80b_buf' = fht80b_buf
            \/ \E n : IsFirst(Messages, hc, n) /\ Messages' = RemoveAt(Messages, n)
<1>1. PICK s : Laid(fht80b_buf, Messages, s)
  BY DEF QueueInv
<1>2. fht_lookbuf(hc) = Look(fht80b_buf, hc)
  BY LookIsIt
<1>3. CASE \A i \in 1 .. Len(Messages) : Code(Messages[i]) # hc
  <2>1. fht_lookbuf(hc) = FHTBUF_SIZE
    BY <1>1, <1>2, <1>3, LookFindsNone
  <2>2. fht80b_buf' = fht80b_buf
    BY <2>1, Zenon DEF fht_delbuf
  <2> QED BY <1>1, <2>2, NewQueue
<1>4. CASE ~\A i \in 1 .. Len(Messages) : Code(Messages[i]) # hc
  <2>1. PICK n : IsFirst(Messages, hc, n)
    BY <1>1, <1>4, LaidEnd, HasFirst
  <2>2. n \in 1 .. Len(Messages)
    BY <2>1 DEF IsFirst
  <2>3. fht_lookbuf(hc) = s[n]
    BY <1>1, <1>2, <2>1, LookFinds DEF IsFirst
  <2>4. s[n] # FHTBUF_SIZE
    BY <1>1, <2>2, LaidEntry
  <2>5. fht80b_buf' = Closed(fht80b_buf, s[n], fht80b_buf[s[n]])
    BY <2>3, <2>4, Zenon DEF fht_delbuf, Closed
  <2>6. PICK t : Laid(fht80b_buf', RemoveAt(Messages, n), t)
    BY <1>1, <2>2, <2>5, LaidClosed
  <2> QED BY <2>1, <2>6, NewQueue
<1> QED BY <1>3, <1>4

(* T01 empties the buffer with the 0 at its start. *)
LEMMA ClearStep ==
  ASSUME QueueInv, fht80b_buf' = [fht80b_buf EXCEPT ![0] = 0]
  PROVE  QueueInv' /\ Messages' = << >>
<1>1. fht80b_buf \in [Offset -> Nat]
  BY LaidEnd DEF QueueInv
<1>2. 0 \in Offset
  BY SizeAssumption DEF Offset
<1>3. fht80b_buf' \in [Offset -> Nat] /\ fht80b_buf'[0] = 0
  BY <1>1, <1>2
<1>4. Laid(fht80b_buf', << >>, [i \in 1 .. 1 |-> 0])
  BY <1>3, LaidEmpty
<1> QED BY <1>4, NewQueue

LEMMA KeepStep ==
  ASSUME QueueInv, fht80b_buf' = fht80b_buf
  PROVE  QueueInv' /\ Messages' = Messages
<1>1. PICK s : Laid(fht80b_buf, Messages, s)
  BY DEF QueueInv
<1> QED BY <1>1, NewQueue

LEMMA QueueStarts ==
  ASSUME Init
  PROVE  QueueInv /\ Messages = << >>
<1>1. fht80b_buf \in [Offset -> Nat] /\ fht80b_buf[0] = 0
  <2>1. fht80b_buf = [i \in Offset |-> 0]
    BY Zenon DEF Init
  <2> QED BY <2>1, SizeAssumption DEF Offset
<1>2. Laid(fht80b_buf, << >>, [i \in 1 .. 1 |-> 0])
  BY <1>1, LaidEmpty
<1>3. Messages = << >>
  BY <1>2, ParseIsIt, ParseIsQueue
<1> QED BY <1>2, <1>3 DEF QueueInv

(* Of fht_hook only the end of the protocol table touches the buffer. *)
LEMMA HookBuffer ==
  ASSUME fht_hook
  PROVE  /\ fht_hc' = fht_hc
         /\ fht80b_buf' = fht80b_buf \/ \E hc : fht80b_buf' = fht_delbuf(hc)
<1>1. PICK f : SwitchedOff(f) \/ ForeignTalks(f) \/ AckEverything(f) \/ Converse(f)
  BY Zenon DEF fht_hook
<1>2. CASE SwitchedOff(f) \/ ForeignTalks(f) \/ AckEverything(f)
  BY <1>2, Zenon DEF SwitchedOff, ForeignTalks, AckEverything, fht_hook
<1>3. CASE Converse(f)
  <2>1. fht80b_buf' = fht80b_buf \/ \E st, off : Proceed(f, st, off) \/ \E p : SendData(f, st, off, p)
    BY <1>3, Zenon DEF Converse
  <2>2. \A st, off, p : SendData(f, st, off, p) => fht80b_buf' = fht80b_buf
    BY Zenon DEF SendData
  <2>3. \A st, off : Proceed(f, st, off) => fht80b_buf' = fht80b_buf \/ fht80b_buf' = fht_delbuf(f.hc)
    BY Zenon DEF Proceed
  <2>4. fht_hc' = fht_hc
    BY Zenon DEF fht_hook
  <2> QED BY <2>1, <2>2, <2>3, <2>4, Zenon
<1> QED BY <1>1, <1>2, <1>3

QueueSteps ==
  \/ UNCHANGED <<Messages, fht_hc>>
  \/ \E m \in Message : /\ Bytes(Messages) + Len(m) + 1 < FHTBUF_SIZE
                        /\ Messages' = Append(Messages, m) /\ fht_hc' = fht_hc
  \/ \E hc, n : /\ IsFirst(Messages, hc, n)
                /\ Messages' = RemoveAt(Messages, n) /\ fht_hc' = fht_hc
  \/ fht_hc' \in HouseCode /\ Messages' = << >>

LEMMA QueueStep ==
  ASSUME QueueInv, [Next]_vars
  PROVE  QueueInv' /\ QueueSteps
<1>1. CASE fht_hook
  <2>1. CASE fht80b_buf' = fht80b_buf
    BY <1>1, <2>1, HookBuffer, KeepStep DEF QueueSteps
  <2>2. CASE \E hc : fht80b_buf' = fht_delbuf(hc)
    BY <1>1, <2>2, HookBuffer, DelStep, KeepStep, Zenon DEF QueueSteps
  <2> QED BY <1>1, <2>1, <2>2, HookBuffer
<1>2. CASE \E m \in Message : fhtsend(m)
  <2>1. PICK m \in Message : fhtsend(m)
    BY <1>2
  <2>2. fht80b_buf' = fht_addbuf(m) /\ fht_hc' = fht_hc
    BY <2>1, Zenon DEF fhtsend
  <2> QED BY <2>2, AddStep, KeepStep, Zenon DEF QueueSteps
<1>3. CASE \E hc \in HouseCode : T01(hc)
  <2>1. fht80b_buf' = [fht80b_buf EXCEPT ![0] = 0] /\ fht_hc' \in HouseCode
    BY <1>3, Zenon DEF T01
  <2> QED BY <2>1, ClearStep DEF QueueSteps
<1>4. CASE UNCHANGED <<fht80b_buf, fht_hc>>
  BY <1>4, KeepStep DEF QueueSteps
<1>5. fht80b_send_repeated \/ fht80b_timer \/ TimerEnds \/ Tick => UNCHANGED <<fht80b_buf, fht_hc>>
  BY Zenon DEF fht80b_send_repeated, fht80b_timer, TimerEnds, Tick
<1>6. (\E d \in Fht : Thermostat(d) \/ GivesUp(d)) \/ UNCHANGED vars => UNCHANGED <<fht80b_buf, fht_hc>>
  BY Zenon DEF Thermostat, GivesUp, Inside, vars
<1> QED BY <1>1, <1>2, <1>3, <1>4, <1>5, <1>6, Zenon DEF Next, MainLoop, Host

(* Each of these steps is one of the abstract queue, or none of it. *)
LEMMA AbstractStep ==
  ASSUME QueueInv, QueueSteps
  PROVE  [Abstract!Next]_<<Messages, fht_hc>>
<1>1. Messages \in Seq(Message)
  BY LaidEnd DEF QueueInv
<1>2. SUFFICES ASSUME <<Messages, fht_hc>>' # <<Messages, fht_hc>>
               PROVE  Abstract!Next
  BY Zenon
<1>3. CASE \E m \in Message : /\ Bytes(Messages) + Len(m) + 1 < FHTBUF_SIZE
                              /\ Messages' = Append(Messages, m) /\ fht_hc' = fht_hc
  BY <1>2, <1>3, Zenon DEF Abstract!Next, Abstract!Store
<1>4. CASE \E hc, n : /\ IsFirst(Messages, hc, n)
                      /\ Messages' = RemoveAt(Messages, n) /\ fht_hc' = fht_hc
  <2>1. PICK hc, n : /\ IsFirst(Messages, hc, n)
                     /\ Messages' = RemoveAt(Messages, n) /\ fht_hc' = fht_hc
    BY <1>4
  <2>2. n \in 1 .. Len(Messages) /\ Code(Messages[n]) = hc /\ \A i \in 1 .. n - 1 : Code(Messages[i]) # hc
    BY <2>1, Zenon DEF IsFirst
  <2>3. Messages[n] \in Message /\ n \in DOMAIN Messages
    BY <1>1, <2>2
  <2>4. \A m : Code(m) = SubSeq(m, 1, 2) /\ Abstract!For(m) = SubSeq(m, 1, 2)
    BY Zenon DEF Code, Abstract!For
  <2>5. Abstract!RemoveFor(hc)
    <3>1. /\ Abstract!For(Messages[n]) = hc
          /\ \A j \in 1 .. n - 1 : Abstract!For(Messages[j]) # hc
      BY <2>2, <2>4, Zenon
    <3>2. UNCHANGED fht_hc /\ Messages' = RemoveAt(Messages, n)
      BY <2>1
    <3> QED BY <2>3, <3>1, <3>2, Zenon DEF Abstract!RemoveFor, Abstract!RemoveAt, RemoveAt
  <2>6. hc = Abstract!For(Messages[n])
    BY <2>2, <2>4
  <2> QED BY <1>2, <2>3, <2>5, <2>6, Zenon DEF Abstract!Next
<1>5. CASE fht_hc' \in HouseCode /\ Messages' = << >>
  BY <1>2, <1>5, Zenon DEF Abstract!Next, Abstract!T01
<1> QED BY <1>2, <1>3, <1>4, <1>5, Zenon DEF QueueSteps

(* The buffer of fht_addbuf, fht_delbuf and T01 is a queue of the host's   *)
(* messages, whatever the order of frames and commands: a message is added *)
(* whole at the end or not at all, leaves once (fht_delbuf: the first one  *)
(* for its thermostat), and nothing else moves or alters one.              *)
THEOREM QueueCorrect == Spec => BufferIsQueue
<1>1. Init => QueueInv
  BY QueueStarts
<1>2. Init => Abstract!Init
  BY QueueStarts, Zenon DEF Init, Abstract!Init
<1>3. QueueInv /\ [Next]_vars => QueueInv'
  BY QueueStep
<1>4. QueueInv /\ [Next]_vars => [Abstract!Next]_<<Messages, fht_hc>>
  BY QueueStep, AbstractStep
<1> QED BY <1>1, <1>2, <1>3, <1>4, PTL DEF Spec, BufferIsQueue, Abstract!Spec

-----------------------------------------------------------------------------
(* The types. *)

LEMMA Table ==
  /\ Expected(0) = FHT_ACTUATOR /\ Answer(0) = FHT_CAN_XMIT
  /\ Expected(2) = FHT_CAN_XMIT /\ Answer(2) = 0
  /\ Expected(4) = FHT_CAN_RCV /\ Answer(4) = FHT_START_XMIT
  /\ Expected(6) = FHT_START_XMIT /\ Answer(6) = FHT_DATA
  /\ Expected(10) = FHT_ACK /\ Answer(10) = FHT_END_XMIT
  /\ Expected(12) = FHT_END_XMIT /\ Answer(12) = 0
<1>1. Row(0) = 1 /\ Row(2) = 2 /\ Row(4) = 3 /\ Row(6) = 4 /\ Row(10) = 6 /\ Row(12) = 7
  BY DEF Row
<1> QED BY <1>1 DEF Expected, Answer

(* What fht_getbuf finds belongs to the first message for the house code, *)
LEMMA GetFinds ==
  ASSUME QueueInv, NEW hc, NEW off \in Nat, off >= 1, NEW p \in fht_getbuf(hc, off)
  PROVE  /\ p.hc = hc
         /\ \E n : /\ IsFirst(Messages, hc, n) /\ off < Len(Messages[n]) + 1
                   /\ p.cmd = Messages[n][off]
<1>1. PICK s : Laid(fht80b_buf, Messages, s)
  BY DEF QueueInv
<1> DEFINE a == fht_lookbuf(hc)
<1>2. /\ a # FHTBUF_SIZE /\ ~(fht80b_buf[a] <= off)
      /\ p = [hc |-> hc, cmd |-> fht80b_buf[a + off], kind |-> "data",
              arg |-> fht80b_buf[a + off + 1]]
  BY Zenon DEF fht_getbuf
<1>3. a = Look(fht80b_buf, hc)
  BY LookIsIt
<1>4. p.hc = hc /\ p.cmd = fht80b_buf[a + off]
  BY <1>2
<1> HIDE DEF a
<1>5. PICK n : IsFirst(Messages, hc, n)
  <2>1. ~\A i \in 1 .. Len(Messages) : Code(Messages[i]) # hc
    BY <1>1, <1>2, <1>3, LookFindsNone
  <2> QED BY <1>1, <2>1, LaidEnd, HasFirst
<1>6. n \in 1 .. Len(Messages)
  BY <1>5 DEF IsFirst
<1>7. a = s[n]
  BY <1>1, <1>3, <1>5, LookFinds DEF IsFirst
<1>8. Messages[n] \in Message /\ fht80b_buf[a] = Len(Messages[n]) + 1
  BY <1>1, <1>6, <1>7, LaidEntry
<1>9. Len(Messages[n]) \in Nat
  BY <1>8, MessageBytes
<1>10. ~(Len(Messages[n]) + 1 <= off)
  BY <1>2, <1>8
<1>11. off < Len(Messages[n]) + 1 /\ off \in 1 .. Len(Messages[n])
  BY <1>9, <1>10
<1>12. fht80b_buf[a + off] = Messages[n][off]
  BY <1>1, <1>6, <1>7, <1>11, Zenon DEF Laid
<1> QED BY <1>4, <1>5, <1>11, <1>12

(* and it finds a command as long as one is left. *)
LEMMA GetMore ==
  ASSUME QueueInv, NEW hc, NEW off \in Nat, NEW n, IsFirst(Messages, hc, n),
         off < Len(Messages[n]) + 1
  PROVE  fht_getbuf(hc, off) # {}
<1>1. PICK s : Laid(fht80b_buf, Messages, s)
  BY DEF QueueInv
<1>2. n \in 1 .. Len(Messages)
  BY DEF IsFirst
<1>3. fht_lookbuf(hc) = s[n]
  BY <1>1, LookFinds, LookIsIt DEF IsFirst
<1>4. /\ Messages[n] \in Message /\ fht80b_buf[s[n]] = Len(Messages[n]) + 1
      /\ s[n] # FHTBUF_SIZE
  BY <1>1, <1>2, LaidEntry
<1>5. Len(Messages[n]) \in Nat
  BY <1>4, MessageBytes
<1>6. ~(Len(Messages[n]) + 1 <= off)
  BY <1>5
<1> QED BY <1>3, <1>4, <1>6, Zenon DEF fht_getbuf

-----------------------------------------------------------------------------
(* Beyond the first row the conversation is about the first message for    *)
(* its thermostat, and bufoff is at one of its commands: at the awaited    *)
(* one, or behind the last once all are acknowledged.                      *)
AtCommand(hc, st, ld, off) ==
  \E n : /\ IsFirst(Messages, hc, n)
         /\ off \in 3 .. Len(Messages[n]) + 1 /\ off % 2 = 1
         /\ st \in {2, 4, 6} => off \in 3 .. Len(Messages[n])
         /\ ld # 0 => st = 6 /\ ld = Messages[n][off]
TalkOf(hc, st, ld, off) ==
  \/ st \in {0, FHT_FOREIGN} /\ ld = 0 /\ off = 3
  \/ st \in {2, 4, 6, 10, 12} /\ AtCommand(hc, st, ld, off)
TalkInv == TalkOf(fht80b_out.hc, fht80b_state, fht80b_ldata, fht80b_bufoff)

LEMMA TalkOfFrame ==
  ASSUME TalkInv, NEW f
  PROVE  TalkOf(f.hc, Conversation(f).st, Conversation(f).ld, Conversation(f).off)
<1>1. CASE fht80b_out.hc = f.hc
  BY <1>1 DEF Conversation, TalkInv
<1>2. CASE fht80b_out.hc # f.hc
  BY <1>2 DEF Conversation, TalkOf
<1> QED BY <1>1, <1>2

(* The commands of a message end where its length says. *)
LEMMA NextCommand ==
  ASSUME QueueInv, NEW hc, NEW n, IsFirst(Messages, hc, n),
         NEW off \in 3 .. Len(Messages[n]), off % 2 = 1
  PROVE  /\ off + 2 \in 3 .. Len(Messages[n]) + 1 /\ (off + 2) % 2 = 1
         /\ Messages[n] \in Message
<1>1. Messages \in Seq(Message)
  BY LaidEnd DEF QueueInv
<1>2. Messages[n] \in Message
  BY <1>1 DEF IsFirst
<1>3. Len(Messages[n]) \in Nat /\ Len(Messages[n]) % 2 = 0
  BY <1>2, MessageBytes
<1> DEFINE l == Len(Messages[n])
<1>4. l \in Nat /\ l % 2 = 0 /\ off \in 3 .. l
  BY <1>3
<1> HIDE DEF l
<1>5. off + 2 \in 3 .. l + 1 /\ (off + 2) % 2 = 1
  BY <1>4
<1> QED BY <1>2, <1>5 DEF l

(* A frame leaves a conversation over, with a foreign FHZ, or at a command *)
(* of the messages as they are.                                            *)
Talked ==
  \/ /\ fht80b_state' \in {0, FHT_FOREIGN} /\ fht80b_ldata' = 0 /\ fht80b_bufoff' = 3
  \/ /\ fht80b_state' \in {2, 4, 6, 10, 12} /\ fht80b_buf' = fht80b_buf
     /\ AtCommand(fht80b_out'.hc, fht80b_state', fht80b_ldata', fht80b_bufoff')

LEMMA ResetTalks ==
  ASSUME fht80b_reset_state
  PROVE  Talked
BY Zenon DEF fht80b_reset_state, Talking, Talked

LEMMA ProceedTalks ==
  ASSUME NEW f, NEW st, NEW off, Proceed(f, st, off),
         st = 12 \/ (st \in {0, 2, 4, 8, 10} /\ AtCommand(f.hc, st + 2, 0, off))
  PROVE  Talked
<1>1. CASE st = 12
  <2>1. st + 2 = TableSize
    BY <1>1 DEF TableSize
  <2> QED BY <2>1, ResetTalks, Zenon DEF Proceed
<1>2. CASE st \in {0, 2, 4, 8, 10} /\ AtCommand(f.hc, st + 2, 0, off)
  <2>1. st + 2 # TableSize /\ st + 2 \in {2, 4, 6, 10, 12}
    BY <1>2 DEF TableSize
  <2>2. /\ fht80b_state' = st + 2 /\ fht80b_ldata' = 0 /\ fht80b_bufoff' = off
        /\ fht80b_buf' = fht80b_buf
    BY <2>1, Zenon DEF Proceed, Talking
  <2>3. fht80b_out'.hc = f.hc
    BY DEF Proceed
  <2> QED BY <1>2, <2>1, <2>2, <2>3, Zenon DEF Talked
<1> QED BY <1>1, <1>2

LEMMA SendTalks ==
  ASSUME NEW f, NEW off, NEW p, SendData(f, 6, off, p), p.hc = f.hc,
         AtCommand(f.hc, 6, p.cmd, off)
  PROVE  Talked
BY Zenon DEF SendData, Talking, Talked

(* Every row the conversation may be in, with what its frame does. *)
LEMMA ConverseTalks ==
  ASSUME NoTableCommand, QueueInv, TalkInv, NEW f, Converse(f)
  PROVE  Talked
<1> DEFINE c       == Conversation(f)
           first   == fht_getbuf(f.hc, c.off)
           waited  == IF c.ld # 0 THEN c.ld ELSE Expected(c.st)
           skipped == waited = FHT_CAN_XMIT /\ f.cmd = FHT_CAN_RCV
           st      == IF skipped THEN c.st + 2 ELSE c.st
           off     == IF c.ld # 0 THEN c.off + 2 ELSE c.off
           next    == fht_getbuf(f.hc, off)
           OrCopy(packet) == IF packet = {} THEN {Copy(f)} ELSE packet
           Some    == first # {} \/ c.st # 0
<1>1. c.st # FHT_FOREIGN
  BY Zenon DEF Converse
<1>2. \/ ~Some /\ Keep(c)
      \/ fht80b_reset_state
      \/ Some /\ c.ld # 0 /\ next = {} /\ Proceed(f, st + 2, off)
      \/ /\ Some /\ (IF c.ld # 0 THEN next # {} ELSE Answer(st) = FHT_DATA)
         /\ \E p \in OrCopy(next) : SendData(f, st, off, p)
      \/ Some /\ c.ld = 0 /\ Answer(st) # FHT_DATA /\ Proceed(f, st, off)
  BY Zenon DEF Converse
<1>3. TalkOf(f.hc, c.st, c.ld, c.off)
  BY TalkOfFrame
<1>4. first = fht_getbuf(f.hc, c.off) /\ next = fht_getbuf(f.hc, off)
  OBVIOUS
<1>a. Some => first # {} \/ c.st # 0
  OBVIOUS
<1>b. ~Some => c.st = 0
  OBVIOUS
<1>c. off = IF c.ld # 0 THEN c.off + 2 ELSE c.off
  OBVIOUS
<1>d. st = IF skipped THEN c.st + 2 ELSE c.st
  OBVIOUS
<1>e. next # {} => OrCopy(next) = next
  OBVIOUS
<1>5. c.st # 2 => ~skipped
  <2>1. c.ld # FHT_CAN_XMIT
    <3>1. CASE c.ld = 0
      BY <3>1 DEF FHT_CAN_XMIT
    <3>2. CASE c.ld # 0
      <4>1. AtCommand(f.hc, c.st, c.ld, c.off)
        BY <1>3, <3>2 DEF TalkOf
      <4>2. PICK n : /\ IsFirst(Messages, f.hc, n) /\ c.off % 2 = 1
                     /\ c.off \in 3 .. Len(Messages[n]) /\ c.ld = Messages[n][c.off]
        BY <3>2, <4>1, Zenon DEF AtCommand
      <4>3. Messages[n] \in Message
        BY <4>2, NextCommand
      <4> QED BY <4>2, <4>3, Zenon DEF NoTableCommand
    <3> QED BY <3>1, <3>2
  <2>2. c.ld = 0 /\ c.st # 2 => Expected(c.st) # FHT_CAN_XMIT
    BY <1>1, <1>3, Table DEF TalkOf, FHT_ACTUATOR, FHT_CAN_XMIT, FHT_CAN_RCV, FHT_START_XMIT, FHT_ACK,
                             FHT_END_XMIT
  <2> QED BY <2>1, <2>2
<1> HIDE DEF c, first, next, skipped, st, off, Some, OrCopy
<1>6. CASE ~Some /\ Keep(c)
  <2>1. c.st = 0 /\ c.ld = 0 /\ c.off = 3
    <3>1. c.st = 0
      BY <1>b, <1>6
    <3> QED BY <1>3, <3>1 DEF TalkOf
  <2> QED BY <1>6, <2>1, Zenon DEF Keep, Talking, Talked
<1>7. CASE fht80b_reset_state
  BY <1>7, ResetTalks
<1>8. CASE Some /\ c.ld # 0 /\ next = {} /\ Proceed(f, st + 2, off)
  <2>1. AtCommand(f.hc, c.st, c.ld, c.off)
    BY <1>3, <1>8 DEF TalkOf
  <2>2. PICK n : /\ IsFirst(Messages, f.hc, n) /\ c.off % 2 = 1
                 /\ c.off \in 3 .. Len(Messages[n]) /\ c.st = 6
    BY <1>8, <2>1, Zenon DEF AtCommand
  <2>3. c.off + 2 \in 3 .. Len(Messages[n]) + 1 /\ (c.off + 2) % 2 = 1
    BY <2>2, NextCommand
  <2>4. off = c.off + 2 /\ st + 2 = 8 /\ 8 + 2 = 10
    <3>1. c.st = 6 /\ c.ld # 0
      BY <1>8, <2>2
    <3>2. off = c.off + 2
      BY <1>c, <3>1
    <3>3. st = 6
      BY <1>d, <1>5, <3>1
    <3> QED BY <3>2, <3>3
  <2>5. AtCommand(f.hc, 10, 0, off)
    <3>1. 10 \notin {2, 4, 6}
      OBVIOUS
    <3> QED BY <2>2, <2>3, <2>4, <3>1, Zenon DEF AtCommand
  <2> QED BY <1>8, <2>4, <2>5, ProceedTalks
<1>9. CASE /\ Some /\ (IF c.ld # 0 THEN next # {} ELSE Answer(st) = FHT_DATA)
           /\ \E p \in OrCopy(next) : SendData(f, st, off, p)
  <2>1. c.st = 6 /\ st = 6
    <3>1. CASE c.ld # 0
      <4>1. c.st = 6
        BY <1>3, <3>1, Zenon DEF TalkOf, AtCommand
      <4> QED BY <1>d, <1>5, <4>1
    <3>2. CASE c.ld = 0
      <4>1. c.st \in {0, 2, 4, 6, 10, 12}
        BY <1>1, <1>3 DEF TalkOf
      <4>2. Answer(st) = FHT_DATA
        BY <1>9, <3>2
      <4>3. CASE c.st = 2
        <5>1. st = 2 \/ st = 4
          BY <1>d, <4>3
        <5> QED BY <4>2, <5>1, Table DEF FHT_DATA, FHT_START_XMIT
      <4>4. CASE c.st # 2
        <5>1. st = c.st
          BY <1>d, <1>5, <4>4
        <5> QED BY <4>1, <4>2, <5>1, Table DEF FHT_DATA, FHT_START_XMIT, FHT_CAN_XMIT, FHT_END_XMIT
      <4> QED BY <4>3, <4>4
    <3> QED BY <3>1, <3>2
  <2>2. PICK n : /\ IsFirst(Messages, f.hc, n) /\ c.off % 2 = 1
                 /\ c.off \in 3 .. Len(Messages[n])
    <3>1. AtCommand(f.hc, c.st, c.ld, c.off)
      BY <1>3, <2>1 DEF TalkOf, FHT_FOREIGN
    <3>2. c.st \in {2, 4, 6}
      BY <2>1
    <3> QED BY <3>1, <3>2, Zenon DEF AtCommand
  <2>3. off \in Nat /\ off >= 3 /\ off % 2 = 1
    <3>1. c.off + 2 \in 3 .. Len(Messages[n]) + 1 /\ (c.off + 2) % 2 = 1
      BY <2>2, NextCommand
    <3> QED BY <1>c, <2>2, <3>1
  <2>4. next # {}
    <3>1. CASE c.ld # 0
      BY <1>9, <3>1
    <3>2. CASE c.ld = 0
      <4>1. off = c.off
        BY <1>c, <3>2
      <4>2. off < Len(Messages[n]) + 1
        BY <2>2, <2>3, <4>1
      <4> QED BY <1>4, <2>2, <2>3, <4>2, GetMore
    <3> QED BY <3>1, <3>2
  <2>5. PICK p \in next : SendData(f, 6, off, p)
    BY <1>e, <1>9, <2>1, <2>4
  <2>6. PICK k : /\ IsFirst(Messages, f.hc, k) /\ off < Len(Messages[k]) + 1
                 /\ p.cmd = Messages[k][off] /\ p.hc = f.hc
    BY <1>4, <2>3, GetFinds
  <2>7. off \in 3 .. Len(Messages[k]) /\ off \in 3 .. Len(Messages[k]) + 1
    <3>1. Len(Messages[k]) \in Nat
      <4>1. Messages \in Seq(Message)
        BY LaidEnd DEF QueueInv
      <4>2. Messages[k] \in Message
        BY <2>6, <4>1 DEF IsFirst
      <4> QED BY <4>2, MessageBytes
    <3> QED BY <2>3, <2>6, <3>1
  <2>8. AtCommand(f.hc, 6, p.cmd, off)
    BY <2>3, <2>6, <2>7, Zenon DEF AtCommand
  <2> QED BY <2>5, <2>6, <2>8, SendTalks
<1>10. CASE Some /\ c.ld = 0 /\ Answer(st) # FHT_DATA /\ Proceed(f, st, off)
  <2>1. off = c.off /\ c.st # 6
    <3>1. off = c.off
      BY <1>c, <1>10
    <3>2. c.st = 6 => st = 6
      BY <1>d, <1>5
    <3> QED BY <1>10, <3>1, <3>2, Table
  <2>2. CASE c.st = 0
    <3>1. st = 0 /\ c.off = 3 /\ first # {}
      <4>1. st = 0
        BY <1>d, <1>5, <2>2
      <4>2. first # {}
        BY <1>a, <1>10, <2>2
      <4>3. c.off = 3
        BY <1>3, <2>2 DEF TalkOf
      <4> QED BY <4>1, <4>2, <4>3
    <3>2. PICK p \in fht_getbuf(f.hc, 3) : TRUE
      BY <1>4, <3>1
    <3>3. PICK n : IsFirst(Messages, f.hc, n) /\ 3 < Len(Messages[n]) + 1
      BY <3>2, GetFinds
    <3>4. 3 \in 3 .. Len(Messages[n]) /\ 3 \in 3 .. Len(Messages[n]) + 1 /\ 3 % 2 = 1
      <4>1. Messages \in Seq(Message)
        BY LaidEnd DEF QueueInv
      <4>2. Messages[n] \in Message
        BY <3>3, <4>1 DEF IsFirst
      <4>3. Len(Messages[n]) \in Nat
        BY <4>2, MessageBytes
      <4> QED BY <3>3, <4>3
    <3>5. AtCommand(f.hc, 0 + 2, 0, 3)
      BY <3>3, <3>4, Zenon DEF AtCommand
    <3> QED BY <1>10, <2>1, <3>1, <3>5, ProceedTalks
  <2>3. CASE c.st \in {2, 4, 10, 12}
    <3>1. PICK n : /\ IsFirst(Messages, f.hc, n)
                   /\ c.off \in 3 .. Len(Messages[n]) + 1 /\ c.off % 2 = 1
                   /\ c.st \in {2, 4, 6} => c.off \in 3 .. Len(Messages[n])
      BY <1>3, <2>3 DEF TalkOf, AtCommand, FHT_FOREIGN
    <3>2. \A r : (r \in {2, 4, 6} => c.st \in {2, 4, 6}) => AtCommand(f.hc, r, 0, off)
      BY <2>1, <3>1, Zenon DEF AtCommand
    <3>3. CASE c.st = 2
      <4>1. st = 2 \/ st = 4
        BY <1>d, <3>3
      <4>2. AtCommand(f.hc, st + 2, 0, off)
        BY <3>2, <3>3
      <4> QED BY <1>10, <4>1, <4>2, ProceedTalks
    <3>4. CASE c.st # 2
      <4>1. st = c.st
        BY <1>d, <1>5, <3>4
      <4>2. st = 12 \/ (st \in {4, 10} /\ AtCommand(f.hc, st + 2, 0, off))
        BY <2>3, <3>2, <3>4, <4>1
      <4> QED BY <1>10, <4>2, ProceedTalks
    <3> QED BY <3>3, <3>4
  <2> QED BY <1>1, <1>3, <2>1, <2>2, <2>3 DEF TalkOf
<1> QED BY <1>2, <1>6, <1>7, <1>8, <1>9, <1>10

LEMMA HookTalks ==
  ASSUME NoTableCommand, QueueInv, TalkInv, fht_hook
  PROVE  Talked \/ UNCHANGED <<conv, fht80b_out, fht80b_buf>>
<1>1. PICK f : SwitchedOff(f) \/ ForeignTalks(f) \/ AckEverything(f) \/ Converse(f)
  BY Zenon DEF fht_hook
<1>2. TalkOf(f.hc, Conversation(f).st, Conversation(f).ld, Conversation(f).off)
  BY TalkOfFrame
<1> DEFINE c == Conversation(f)
<1>3. CASE SwitchedOff(f)
  BY <1>3, Zenon DEF SwitchedOff
<1>4. CASE ForeignTalks(f)
  <2>1. c.st = FHT_FOREIGN /\ Talking(c.st, c.ld, c.off)
    BY <1>4, Zenon DEF ForeignTalks, Keep
  <2>2. c.ld = 0 /\ c.off = 3
    BY <1>2, <2>1 DEF TalkOf, FHT_FOREIGN
  <2> QED BY <2>1, <2>2, Zenon DEF Talking, Talked
<1>5. CASE AckEverything(f)
  <2>1. c.st = 0 /\ (Talking(FHT_FOREIGN, c.ld, c.off) \/ Talking(c.st, c.ld, c.off))
    BY <1>5, Zenon DEF AckEverything, Keep
  <2>2. c.ld = 0 /\ c.off = 3
    BY <1>2, <2>1 DEF TalkOf, FHT_FOREIGN
  <2> QED BY <2>1, <2>2, Zenon DEF Talking, Talked
<1> QED BY <1>1, <1>3, <1>4, <1>5, ConverseTalks

LEMMA TalkKept ==
  ASSUME TalkInv, UNCHANGED <<conv, fht80b_out>>,
         \A hc, n : IsFirst(Messages, hc, n)
                      => IsFirst(Messages', hc, n) /\ Messages'[n] = Messages[n]
  PROVE  TalkInv'
<1>1. /\ fht80b_state' = fht80b_state /\ fht80b_ldata' = fht80b_ldata
      /\ fht80b_bufoff' = fht80b_bufoff /\ fht80b_out' = fht80b_out
  BY DEF conv
<1>2. CASE fht80b_state \in {0, FHT_FOREIGN} /\ fht80b_ldata = 0 /\ fht80b_bufoff = 3
  BY <1>1, <1>2 DEF TalkInv, TalkOf
<1>3. CASE /\ fht80b_state \in {2, 4, 6, 10, 12}
           /\ AtCommand(fht80b_out.hc, fht80b_state, fht80b_ldata, fht80b_bufoff)
  <2>1. AtCommand(fht80b_out.hc, fht80b_state, fht80b_ldata, fht80b_bufoff)'
    BY <1>1, <1>3, Zenon DEF AtCommand
  <2> QED BY <1>1, <1>3, <2>1 DEF TalkInv, TalkOf
<1> QED BY <1>2, <1>3 DEF TalkInv, TalkOf

LEMMA TalkedKeeps ==
  ASSUME QueueInv, Talked
  PROVE  TalkInv'
<1>1. CASE /\ fht80b_state' \in {0, FHT_FOREIGN} /\ fht80b_ldata' = 0 /\ fht80b_bufoff' = 3
  BY <1>1 DEF TalkInv, TalkOf
<1>2. CASE /\ fht80b_state' \in {2, 4, 6, 10, 12} /\ fht80b_buf' = fht80b_buf
           /\ AtCommand(fht80b_out'.hc, fht80b_state', fht80b_ldata', fht80b_bufoff')
  <2>1. Messages' = Messages
    BY <1>2, KeepStep
  <2>2. AtCommand(fht80b_out.hc, fht80b_state, fht80b_ldata, fht80b_bufoff)'
    BY <1>2, <2>1, Zenon DEF AtCommand
  <2> QED BY <1>2, <2>2 DEF TalkInv, TalkOf
<1> QED BY <1>1, <1>2 DEF Talked

LEMMA TalkStep ==
  ASSUME NoTableCommand, QueueInv, TalkInv, [Next]_vars
  PROVE  TalkInv'
<1>1. UNCHANGED <<conv, fht80b_out, fht80b_buf>> => TalkInv'
  <2> SUFFICES ASSUME UNCHANGED <<conv, fht80b_out, fht80b_buf>> PROVE TalkInv'
    OBVIOUS
  <2>1. Messages' = Messages
    BY KeepStep
  <2>2. \A hc, n : IsFirst(Messages, hc, n)
                     => IsFirst(Messages', hc, n) /\ Messages'[n] = Messages[n]
    BY <2>1
  <2> QED BY <2>2, TalkKept
<1>2. CASE fht_hook
  BY <1>1, <1>2, HookTalks, TalkedKeeps
<1>3. CASE \E m \in Message : fhtsend(m)
  <2>1. PICK m \in Message : fhtsend(m)
    BY <1>3
  <2>2. fht80b_buf' = fht_addbuf(m) /\ UNCHANGED <<conv, fht80b_out>>
    BY <2>1, Zenon DEF fhtsend
  <2>3. CASE fht80b_buf' = fht80b_buf
    BY <1>1, <2>2, <2>3
  <2>4. CASE Messages' = Append(Messages, m)
    <3>1. Messages \in Seq(Message)
      BY LaidEnd DEF QueueInv
    <3> DEFINE q == Messages
               r == Append(q, m)
    <3>2. /\ Len(q) \in Nat /\ Len(r) = Len(q) + 1 /\ \A i \in 1 .. Len(q) : r[i] = q[i]
      BY <3>1, AppendProperties
    <3> HIDE DEF q, r
    <3>3. ASSUME NEW hc, NEW n, IsFirst(q, hc, n)
          PROVE  IsFirst(r, hc, n) /\ r[n] = q[n]
      <4>1. n \in 1 .. Len(q) /\ Code(q[n]) = hc /\ \A i \in 1 .. n - 1 : Code(q[i]) # hc
        BY <3>3, Zenon DEF IsFirst
      <4>2. n \in 1 .. Len(r) /\ r[n] = q[n] /\ \A i \in 1 .. n - 1 : i \in 1 .. Len(q)
        BY <3>2, <4>1
      <4>3. \A i \in 1 .. n - 1 : r[i] = q[i]
        BY <3>2, <4>2
      <4> QED BY <4>1, <4>2, <4>3, Zenon DEF IsFirst
    <3>4. \A hc, n : IsFirst(Messages, hc, n)
                       => IsFirst(Messages', hc, n) /\ Messages'[n] = Messages[n]
      BY <2>4, <3>3 DEF q, r
    <3> QED BY <2>2, <3>4, TalkKept
  <2> QED BY <2>2, <2>3, <2>4, AddStep
<1>4. CASE \E hc \in HouseCode : T01(hc)
  BY <1>4, ResetTalks, TalkedKeeps, Zenon DEF T01
<1>5. CASE fht80b_timer
  <2>1. fht80b_reset_state \/ UNCHANGED <<conv, fht80b_out, fht80b_buf>>
    BY <1>5, Zenon DEF fht80b_timer
  <2> QED BY <1>1, <2>1, ResetTalks, TalkedKeeps
<1>6. fht80b_send_repeated \/ TimerEnds \/ Tick => UNCHANGED <<conv, fht80b_out, fht80b_buf>>
  BY Zenon DEF fht80b_send_repeated, TimerEnds, Tick
<1>7. (\E d \in Fht : Thermostat(d) \/ GivesUp(d)) \/ UNCHANGED vars
        => UNCHANGED <<conv, fht80b_out, fht80b_buf>>
  BY Zenon DEF Thermostat, GivesUp, Inside, vars
<1> QED BY <1>1, <1>2, <1>3, <1>4, <1>5, <1>6, <1>7, Zenon DEF Next, MainLoop, Host

(* The sizes: the repeat counter, and the telegrams that wait. *)
SizeInv ==
  /\ fht80b_repeatcnt \in {0, 1} /\ (pc = "timer" => fht80b_repeatcnt = 1)
  /\ \E F : received \in Seq(F) /\ Len(received) <= Waiting
PlainInv ==
  /\ fht_hc \in HouseCode
  /\ fht80b_timeout \in {"aus", "laeuft", "faellig"} /\ verpasst \in BOOLEAN
  /\ pc \in {"frei", "hook", "timer"}

LEMMA PlainStep == PlainInv /\ [Next]_vars => PlainInv'
<1> SUFFICES ASSUME PlainInv, [Next]_vars PROVE PlainInv'
  OBVIOUS
<1>1. CASE fht_hook
  <2>1. pc' \in {"frei", "hook"} /\ (Stellen \/ Abstellen)
    <3>1. PICK f : SwitchedOff(f) \/ ForeignTalks(f) \/ AckEverything(f) \/ Converse(f)
      BY <1>1, Zenon DEF fht_hook
    <3>2. pc = "frei"
      BY <1>1, Zenon DEF fht_hook
    <3>3. NoAnswer \/ (\E p : Answering(p)) => pc' \in {"frei", "hook"}
      BY <3>2, Zenon DEF NoAnswer, Answering
    <3>4. TimerFor(f) \/ fht80b_reset_state \/ Stellen => Stellen \/ Abstellen
      BY Zenon DEF TimerFor, fht80b_reset_state
    <3>5. \A st, off : Proceed(f, st, off) => /\ TimerFor(f) \/ fht80b_reset_state
                                              /\ NoAnswer \/ \E p : Answering(p)
      BY Zenon DEF Proceed
    <3>6. \A st, off, p : SendData(f, st, off, p) => TimerFor(f) /\ Answering(p)
      BY Zenon DEF SendData
    <3>7. CASE SwitchedOff(f) \/ ForeignTalks(f) \/ AckEverything(f)
      BY <3>3, <3>4, <3>7, Zenon DEF SwitchedOff, ForeignTalks, AckEverything
    <3>8. CASE Converse(f)
      <4>1. \/ (TimerFor(f) \/ fht80b_reset_state) /\ NoAnswer
            \/ \E st, off : Proceed(f, st, off)
            \/ \E st, off, p : SendData(f, st, off, p)
        BY <3>8, Zenon DEF Converse
      <4> QED BY <3>3, <3>4, <3>5, <3>6, <4>1, Zenon
    <3> QED BY <3>1, <3>7, <3>8
  <2>2. fht_hc' = fht_hc
    BY <1>1, Zenon DEF fht_hook
  <2> QED BY <2>1, <2>2, Zenon DEF PlainInv, Stellen, Abstellen
<1>2. CASE fht80b_send_repeated
  BY <1>2, Zenon DEF fht80b_send_repeated, Stellen, timer, PlainInv
<1>3. CASE fht80b_timer
  BY <1>3, Zenon DEF fht80b_timer, fht80b_reset_state, Abstellen, timer, PlainInv
<1>4. CASE TimerEnds
  BY <1>4, Zenon DEF TimerEnds, Stellen, PlainInv
<1>5. CASE Tick
  BY <1>5, Zenon DEF Tick, PlainInv
<1>6. CASE Host
  BY <1>6, Zenon DEF Host, fhtsend, T01, fht80b_reset_state, Abstellen, timer, PlainInv
<1>7. CASE (\E d \in Fht : Thermostat(d) \/ GivesUp(d)) \/ UNCHANGED vars
  BY <1>7, Zenon DEF Thermostat, GivesUp, Inside, vars, timer, PlainInv
<1> QED BY <1>1, <1>2, <1>3, <1>4, <1>5, <1>6, <1>7, Zenon DEF Next, MainLoop

(* What waits after a packet was sent: as much as before, or one more. *)
Fits(w) == \E F : w \in Seq(F) /\ Len(w) <= Waiting

LEMMA JoinFits ==
  ASSUME NEW w, Fits(w), NEW f, Joins(w, f)
  PROVE  Fits(received')
<1>1. PICK F : w \in Seq(F) /\ Len(w) <= Waiting
  BY DEF Fits
<1> DEFINE G == F \cup {f}
<1>2. w \in Seq(G) /\ f \in G /\ Len(w) \in Nat
  BY <1>1
<1>3. received' = Append(w, f) /\ Len(w) < Waiting
  BY DEF Joins
<1>4. Append(w, f) \in Seq(G) /\ Len(Append(w, f)) = Len(w) + 1
  BY <1>2, AppendProperties
<1>5. Len(received') <= Waiting
  BY <1>2, <1>3, <1>4, WaitingAssumption
<1> QED BY <1>3, <1>4, <1>5 DEF Fits

LEMMA SendFits ==
  ASSUME NEW w, Fits(w), NEW p, fht80b_sendpacket(p, w)
  PROVE  Fits(received')
<1>1. received' = w \/ \E f : Joins(w, f)
  BY Zenon DEF fht80b_sendpacket, Antwort
<1> QED BY <1>1, JoinFits

LEMMA TailFits ==
  ASSUME Fits(received), received # << >>
  PROVE  Fits(Tail(received))
<1>1. PICK F : received \in Seq(F) /\ Len(received) <= Waiting
  BY DEF Fits
<1>2. Tail(received) \in Seq(F) /\ Len(Tail(received)) = Len(received) - 1 /\ Len(received) \in Nat
  BY <1>1
<1>3. Len(Tail(received)) <= Waiting
  BY <1>1, <1>2, WaitingAssumption
<1> QED BY <1>2, <1>3 DEF Fits

LEMMA SizeStep == SizeInv /\ [Next]_vars => SizeInv'
<1> SUFFICES ASSUME SizeInv, [Next]_vars PROVE SizeInv'
  OBVIOUS
<1>0. Fits(received) /\ fht80b_repeatcnt \in {0, 1}
  BY Zenon DEF SizeInv, Fits
<1>1. CASE fht_hook
  <2>1. pc = "frei" /\ fht80b_repeatcnt' = 0 /\ received # << >>
    BY <1>1, Zenon DEF fht_hook, NoRepeat
  <2>2. Fits(Tail(received))
    BY <1>0, <2>1, TailFits
  <2>3. NoAnswer \/ \E p : Answering(p)
    <3>1. PICK f : SwitchedOff(f) \/ ForeignTalks(f) \/ AckEverything(f) \/ Converse(f)
      BY <1>1, Zenon DEF fht_hook
    <3>2. \A st, off : Proceed(f, st, off) => NoAnswer \/ \E p : Answering(p)
      BY Zenon DEF Proceed
    <3>3. \A st, off, p : SendData(f, st, off, p) => Answering(p)
      BY Zenon DEF SendData
    <3>4. Converse(f) => \/ NoAnswer
                         \/ \E st, off : Proceed(f, st, off)
                         \/ \E st, off, p : SendData(f, st, off, p)
      BY Zenon DEF Converse
    <3>5. SwitchedOff(f) \/ ForeignTalks(f) \/ AckEverything(f) => NoAnswer \/ \E p : Answering(p)
      BY Zenon DEF SwitchedOff, ForeignTalks, AckEverything
    <3> QED BY <3>1, <3>2, <3>3, <3>4, <3>5, Zenon
  <2>4. CASE NoAnswer
    <3>1. received' = Tail(received) /\ pc' = "frei"
      BY <2>1, <2>4, Zenon DEF NoAnswer
    <3> QED BY <2>1, <2>2, <3>1, Zenon DEF SizeInv, Fits
  <2>5. CASE \E p : Answering(p)
    <3>1. Fits(received') /\ pc' = "hook"
      BY <2>2, <2>5, SendFits, Zenon DEF Answering
    <3> QED BY <2>1, <3>1, Zenon DEF SizeInv, Fits
  <2> QED BY <2>3, <2>4, <2>5
<1>2. CASE fht80b_timer
  <2>1. pc = "frei" /\ fht80b_repeatcnt' = fht80b_repeatcnt
    BY <1>2, Zenon DEF fht80b_timer
  <2>2. CASE fht80b_repeatcnt # 0
    <3>1. Fits(received')
      BY <1>0, <1>2, <2>2, SendFits, Zenon DEF fht80b_timer
    <3>2. fht80b_repeatcnt = 1
      BY <1>0, <2>2
    <3> QED BY <2>1, <3>1, <3>2, Zenon DEF SizeInv, Fits
  <2>3. CASE fht80b_repeatcnt = 0
    <3>1. received' = received /\ pc' = pc
      BY <1>2, <2>3, Zenon DEF fht80b_timer
    <3> QED BY <1>0, <2>1, <3>1, Zenon DEF SizeInv, Fits
  <2> QED BY <2>2, <2>3
<1>3. CASE TimerEnds
  <2>1. /\ pc = "timer" /\ pc' = "frei" /\ received' = received
        /\ fht80b_repeatcnt' = fht80b_repeatcnt - 1
    BY <1>3, Zenon DEF TimerEnds
  <2>2. fht80b_repeatcnt = 1
    BY <2>1, Zenon DEF SizeInv
  <2>3. fht80b_repeatcnt' = 0
    BY <2>1, <2>2
  <2> QED BY <1>0, <2>1, <2>3, Zenon DEF SizeInv, Fits
<1>4. CASE fht80b_send_repeated
  <2>1. pc' = "frei" /\ received' = received /\ fht80b_repeatcnt' \in {fht80b_repeatcnt, 1}
    BY <1>4, Zenon DEF fht80b_send_repeated
  <2> QED BY <1>0, <2>1, Zenon DEF SizeInv, Fits
<1>5. CASE \E d \in Fht : Thermostat(d)
  <2>1. (\E f : Joins(received, f)) /\ UNCHANGED Inside
    BY <1>5, Zenon DEF Thermostat
  <2>2. Fits(received')
    BY <1>0, <2>1, JoinFits
  <2>3. pc' = pc /\ fht80b_repeatcnt' = fht80b_repeatcnt
    BY <2>1, Zenon DEF Inside
  <2> QED BY <2>2, <2>3, Zenon DEF SizeInv, Fits
<1>6. UNCHANGED <<pc, fht80b_repeatcnt, received>> => SizeInv'
  BY Zenon DEF SizeInv
<1>7. Tick \/ Host \/ (\E d \in Fht : GivesUp(d)) \/ UNCHANGED vars
        => UNCHANGED <<pc, fht80b_repeatcnt, received>>
  BY Zenon DEF Tick, Host, fhtsend, T01, GivesUp, Inside, vars
<1> QED BY <1>1, <1>2, <1>3, <1>4, <1>5, <1>6, <1>7, Zenon DEF Next, MainLoop

LEMMA TypeFollows ==
  ASSUME QueueInv, TalkInv, SizeInv, PlainInv
  PROVE  TypeOK
<1>1. PICK s : Laid(fht80b_buf, Messages, s)
  BY DEF QueueInv
<1>2. fht80b_buf \in [Offset -> Nat]
  BY <1>1, LaidEnd
<1>3. /\ fht80b_state \in {0, 2, 4, 6, 10, 12, FHT_FOREIGN}
      /\ fht80b_ldata # 0 => fht80b_state = 6
  BY Zenon DEF TalkInv, TalkOf, AtCommand
<1>4. fht80b_bufoff \in 3 .. FHTBUF_SIZE
  <2>1. CASE fht80b_bufoff = 3
    BY <2>1, SizeAssumption
  <2>2. CASE AtCommand(fht80b_out.hc, fht80b_state, fht80b_ldata, fht80b_bufoff)
    <3>1. PICK n : n \in 1 .. Len(Messages) /\ fht80b_bufoff \in 3 .. Len(Messages[n]) + 1
      BY <2>2, Zenon DEF AtCommand, IsFirst
    <3> DEFINE l == Len(Messages[n])
               a == s[n]
    <3>2. Messages[n] \in Message /\ a \in Nat /\ s[n + 1] = a + l + 1 /\ s[n + 1] < FHTBUF_SIZE
      BY <1>1, <3>1, LaidEntry
    <3>3. l \in Nat
      BY <3>2, MessageBytes
    <3>4. fht80b_bufoff \in 3 .. l + 1 /\ a + l + 1 < FHTBUF_SIZE /\ a \in Nat
      BY <3>1, <3>2
    <3> HIDE DEF l, a
    <3> QED BY <3>3, <3>4, SizeAssumption
  <2> QED BY <2>1, <2>2 DEF TalkInv, TalkOf
<1>5. Len(received) <= Waiting /\ fht80b_repeatcnt \in {0, 1}
  BY Zenon DEF SizeInv
<1> QED BY <1>2, <1>3, <1>4, <1>5, Zenon DEF TypeOK, PlainInv

(* The offset in the buffer, the row of the table and the command awaited  *)
(* keep their ranges (fht_hook, fht_send), the packet is repeated at most  *)
(* once more and no more telegrams wait than the bound allows, unless the  *)
(* host sends a command that has the number of a row.                      *)
THEOREM TypeCorrect == ASSUME NoTableCommand PROVE Spec => []TypeOK
<1> DEFINE Inv == QueueInv /\ TalkInv /\ SizeInv /\ PlainInv
<1>1. Init => Inv
  <2> SUFFICES ASSUME Init PROVE Inv
    OBVIOUS
  <2>1. QueueInv
    BY QueueStarts
  <2>2. TalkInv
    BY Zenon DEF Init, TalkInv, TalkOf
  <2>3. SizeInv
    <3>1. received = << >> /\ fht80b_repeatcnt = 0 /\ pc = "frei"
      BY Zenon DEF Init
    <3>2. << >> \in Seq({}) /\ Len(<< >>) <= Waiting
      BY WaitingAssumption
    <3> QED BY <3>1, <3>2 DEF SizeInv
  <2>4. PlainInv
    BY Zenon DEF Init, PlainInv
  <2> QED BY <2>1, <2>2, <2>3, <2>4
<1>2. Inv /\ [Next]_vars => Inv'
  BY QueueStep, TalkStep, SizeStep, PlainStep
<1>3. Inv => TypeOK
  BY TypeFollows
<1> QED BY <1>1, <1>2, <1>3, PTL DEF Spec
=============================================================================
