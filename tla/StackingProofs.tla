--------------------------- MODULE StackingProofs ---------------------------
(***************************************************************************)
(* The wired neighbours: the lines from the board below, for every size of *)
(* the buffer and every length of the lines; the HomeMatic Wired bus, for  *)
(* every size of its buffer and all messages; and the search on the 1-Wire *)
(* bus, for codes of every width and all devices that fit into its table.  *)
(***************************************************************************)
EXTENDS Stacking, Hm485, OneWire, FiniteSetTheorems, SequenceTheorems, TLAPS

(* The buffer holds the characters of line l before the one that has       *)
(* "left" to come, as far as they were received.                           *)
StHolds(l, left) ==
  \A i \in 0 .. mypos - 1 : mycmd[i] = [line |-> l, left |-> left + mypos - i]

StCollects == ~myEOL /\ ~stBroken => StHolds(stLine, stLeft)

StComplete ==
  myEOL /\ ~stBroken /\ stPc \in {"idle", "show"} =>
    mycmd[mypos] = StNul /\ \E l \in 1 .. 2 : StHolds(l, 1)

StInv ==
  /\ StTypeOK
  /\ stPc # "idle" => myEOL
  /\ stPc = "eol" => mypos = 0
  /\ StCollects /\ StComplete

LEMMA NextLineType ==
  ASSUME StTypeOK, StNextLine
  PROVE  stLine' \in 1 .. 2 /\ stLeft' \in Nat \ {0}
  BY StAssumption, SMT DEF StTypeOK, StNextLine

LEMMA ByteKeepsType ==
  ASSUME StTypeOK, StByte
  PROVE  StTypeOK'
<1> USE StAssumption
<1>1. stLine' \in 1 .. 2 /\ stLeft' \in Nat \ {0}
  BY NextLineType DEF StByte
<1>2. (mypos + 1) % StSize \in 0 .. StSize - 1
  BY SMT DEF StTypeOK
<1>3. CASE StTakes
  <2> DEFINE c == IF stLeft = 1 THEN StNul ELSE [line |-> stLine, left |-> stLeft]
  <2>1. c \in [line : 0 .. 2, left : Nat]
    BY DEF StTypeOK, StNul
  <2>2. mycmd' = [mycmd EXCEPT ![mypos] = c]
    BY <1>3 DEF StByte
  <2> HIDE DEF c
  <2>3. mycmd' \in [0 .. StSize - 1 -> [line : 0 .. 2, left : Nat]]
    BY <2>1, <2>2 DEF StTypeOK
  <2>4. mypos' \in 0 .. StSize - 1 /\ myEOL' \in BOOLEAN
    BY <1>2, <1>3 DEF StByte, StTypeOK
  <2> QED BY <1>1, <2>3, <2>4 DEF StByte, StTypeOK
<1>4. CASE ~StTakes
  BY <1>1, <1>4 DEF StByte, StTypeOK
<1> QED BY <1>3, <1>4

LEMMA StInitType == StInit => StTypeOK
<1> USE StAssumption
<1> SUFFICES ASSUME StInit PROVE StTypeOK
  OBVIOUS
<1>1. stLeft \in Nat \ {0}
  BY DEF StInit
<1>2. mycmd \in [0 .. StSize - 1 -> [line : 0 .. 2, left : Nat]]
  BY DEF StInit, StNul
<1>3. mypos = 0 /\ myEOL = FALSE /\ stLine = 1 /\ stPc = "idle" /\ stBroken = FALSE
  BY DEF StInit
<1>4. mypos \in 0 .. StSize - 1 /\ stLine \in 1 .. 2
  BY <1>3
<1>5. /\ myEOL \in BOOLEAN /\ stBroken \in BOOLEAN
      /\ stPc \in {"idle", "show", "pos", "eol"}
  BY <1>3, Zenon
<1> QED BY <1>1, <1>2, <1>4, <1>5, Zenon DEF StTypeOK

(* The type invariant. *)
THEOREM StTypeCorrect == StSpec => []StTypeOK
<1> USE StAssumption
<1>2. StTypeOK /\ [StNext]_stVars => StTypeOK'
  <2> SUFFICES ASSUME StTypeOK, [StNext]_stVars PROVE StTypeOK'
    OBVIOUS
  <2>1. CASE StByte
    BY <2>1, ByteKeepsType
  <2>2. CASE StLost
    <3>1. stBroken' \in BOOLEAN
      BY <2>2, Zenon DEF StLost, StTypeOK
    <3> QED BY <2>2, <3>1, NextLineType DEF StLost, StTypeOK
  <2>3. CASE StBegins
    BY <2>3 DEF StBegins, StTypeOK
  <2>4. CASE StShows
    BY <2>4 DEF StShows, StTypeOK
  <2>5. CASE StPos
    BY <2>5 DEF StPos, StTypeOK, StNul
  <2>6. CASE StEol
    BY <2>6 DEF StEol, StTypeOK
  <2>7. CASE UNCHANGED stVars
    BY <2>7 DEF stVars, StTypeOK
  <2> QED BY <2>1, <2>2, <2>3, <2>4, <2>5, <2>6, <2>7 DEF StNext, stacking_task
<1> QED BY <1>2, StInitType, PTL DEF StSpec

-----------------------------------------------------------------------------
LEMMA ByteKeepsInv ==
  ASSUME StInv, StTypeOK', StByte
  PROVE  StInv'
<1> USE StAssumption DEF StInv
<1>1. stPc' = stPc /\ stBroken' = stBroken
  BY DEF StByte
<1>2. CASE myEOL
  <2>1. UNCHANGED <<mycmd, mypos, myEOL>>
    BY <1>2 DEF StByte, StTakes
  <2>2. StComplete'
    BY <1>1, <2>1 DEF StComplete, StHolds
  <2>3. StCollects' /\ (stPc' = "eol" => mypos' = 0) /\ myEOL'
    BY <1>1, <1>2, <2>1 DEF StCollects
  <2> QED BY <2>2, <2>3
<1>3. CASE ~myEOL /\ stLeft = 1
  <2>1. mycmd' = [mycmd EXCEPT ![mypos] = StNul] /\ myEOL' = TRUE /\ mypos' = mypos
    BY <1>3 DEF StByte, StTakes
  <2>2. stPc = "idle" /\ stPc' = "idle"
    BY <1>1, <1>3
  <2>3. ~stBroken => \A i \in 0 .. mypos - 1 :
                       mycmd'[i] = [line |-> stLine, left |-> 1 + mypos - i]
    <3> SUFFICES ASSUME ~stBroken, NEW i \in 0 .. mypos - 1
                 PROVE  mycmd'[i] = [line |-> stLine, left |-> 1 + mypos - i]
      BY <2>1
    <3>1. mycmd[i] = [line |-> stLine, left |-> stLeft + mypos - i]
      BY <1>3 DEF StCollects, StHolds
    <3> QED BY <1>3, <2>1, <3>1 DEF StTypeOK
  <2>4. mycmd'[mypos'] = StNul /\ stLine \in 1 .. 2
    BY <2>1 DEF StTypeOK
  <2>5. StComplete'
    <3>1. PICK l \in 1 .. 2 : l = stLine
      BY <2>4
    <3>2. ~stBroken => StHolds(l, 1)'
      BY <2>1, <2>3, <3>1 DEF StHolds
    <3> QED BY <1>1, <2>4, <3>2 DEF StComplete
  <2>6. StCollects'
    BY <2>1 DEF StCollects
  <2> QED BY <2>1, <2>2, <2>5, <2>6
<1>4. CASE ~myEOL /\ stLeft # 1
  <2>1. /\ mycmd' = [mycmd EXCEPT ![mypos] = [line |-> stLine, left |-> stLeft]]
        /\ mypos' = (mypos + 1) % StSize
        /\ myEOL' = myEOL
    BY <1>4 DEF StByte, StTakes
  <2>2. stPc = "idle" /\ stPc' = "idle"
    BY <1>1, <1>4
  <2>3. stLine' = stLine /\ stLeft' = stLeft - 1
    <3>1. StNextLine
      BY DEF StByte
    <3>2. stLeft > 1
      BY <1>4 DEF StTypeOK
    <3> QED BY <3>1, <3>2 DEF StNextLine
  <2>4. mypos' = mypos + 1 \/ mypos' = 0
    <3>1. mypos \in 0 .. StSize - 1
      BY DEF StTypeOK
    <3>2. CASE mypos + 1 < StSize
      <4>1. (mypos + 1) % StSize = mypos + 1
        BY <3>1, <3>2, SMT
      <4> QED BY <2>1, <4>1
    <3>3. CASE mypos + 1 = StSize
      <4>1. StSize % StSize = 0
        BY SMT
      <4> QED BY <2>1, <3>3, <4>1
    <3> QED BY <3>1, <3>2, <3>3
  <2>5. StCollects'
    <3> SUFFICES ASSUME ~stBroken, NEW i \in 0 .. mypos' - 1
                 PROVE  mycmd'[i] = [line |-> stLine', left |-> stLeft' + mypos' - i]
      BY <1>1 DEF StCollects, StHolds
    <3>1. mypos' = mypos + 1
      BY <2>4
    <3>2. CASE i = mypos
      <4>1. mycmd'[i] = [line |-> stLine, left |-> stLeft]
        BY <2>1, <3>2 DEF StTypeOK
      <4>2. stLeft' + mypos' - i = stLeft
        BY <2>3, <3>1, <3>2 DEF StTypeOK
      <4> QED BY <2>3, <4>1, <4>2
    <3>3. CASE i # mypos
      <4>1. i \in 0 .. mypos - 1
        BY <3>1, <3>3 DEF StTypeOK
      <4>2. mycmd[i] = [line |-> stLine, left |-> stLeft + mypos - i]
        BY <1>4, <4>1 DEF StCollects, StHolds
      <4>3. mycmd'[i] = mycmd[i]
        BY <2>1, <3>3, <4>1 DEF StTypeOK
      <4>4. stLeft' + mypos' - i = stLeft + mypos - i
        BY <2>3, <3>1 DEF StTypeOK
      <4> QED BY <2>3, <4>2, <4>3, <4>4
    <3> QED BY <3>2, <3>3
  <2>6. StComplete'
    BY <1>4, <2>1 DEF StComplete
  <2> QED BY <2>2, <2>5, <2>6
<1> QED BY <1>2, <1>3, <1>4

LEMMA StInvHolds == StSpec => []StInv
<1>1. StInit => StInv
  <2> SUFFICES ASSUME StInit PROVE StInv
    OBVIOUS
  <2>1. StTypeOK
    BY StInitType
  <2>2. StHolds(stLine, stLeft)
    BY DEF StInit, StHolds
  <2> QED BY <2>1, <2>2 DEF StInit, StInv, StCollects, StComplete
<1>2. StInv /\ StTypeOK' /\ [StNext]_stVars => StInv'
  <2> SUFFICES ASSUME StInv, StTypeOK', [StNext]_stVars PROVE StInv'
    OBVIOUS
  <2> USE DEF StInv
  <2>1. CASE StByte
    BY <2>1, ByteKeepsInv
  <2>2. CASE StLost
    <3>1. UNCHANGED <<mycmd, mypos, myEOL, stPc>> /\ (~stBroken' => ~stBroken /\ myEOL)
      BY <2>2 DEF StLost
    <3> QED BY <3>1 DEF StCollects, StComplete, StHolds
  <2>3. CASE StBegins
    BY <2>3 DEF StBegins, StCollects, StComplete, StHolds
  <2>4. CASE StShows
    BY <2>4 DEF StShows, StCollects, StComplete, StHolds
  <2>5. CASE StPos
    BY <2>5 DEF StPos, StCollects, StComplete
  <2>6. CASE StEol
    BY <2>6 DEF StEol, StCollects, StComplete, StHolds
  <2>7. CASE UNCHANGED stVars
    BY <2>7 DEF stVars, StCollects, StComplete, StHolds
  <2> QED BY <2>1, <2>2, <2>3, <2>4, <2>5, <2>6, <2>7 DEF StNext, stacking_task
<1> QED BY <1>1, <1>2, StTypeCorrect, PTL DEF StSpec

(* The text ends before the first 0. *)
LEMMA TextIsPrefix ==
  ASSUME StTypeOK, mycmd[mypos] = StNul,
         \A i \in 0 .. mypos - 1 : mycmd[i] # StNul
  PROVE  StText = [i \in 1 .. mypos |-> mycmd[i - 1]]
<1> DEFINE Ends(n) == /\ n < StSize => mycmd[n] = StNul
                      /\ \A i \in 0 .. n - 1 : mycmd[i] # StNul
           end == CHOOSE n \in 0 .. StSize : Ends(n)
<1> USE StAssumption DEF StTypeOK
<1>1. mypos \in 0 .. StSize /\ Ends(mypos)
  OBVIOUS
<1>2. end \in 0 .. StSize /\ Ends(end)
  <2> HIDE DEF Ends
  <2> QED BY <1>1
<1>3. end = mypos
  <2> HIDE DEF end
  <2>1. CASE end < mypos
    BY <1>2, <2>1
  <2>2. CASE mypos < end
    BY <1>2, <2>2
  <2> QED BY <1>2, <2>1, <2>2
<1>4. StText = [i \in 1 .. end |-> mycmd[i - 1]]
  BY Zenon DEF StText
<1> HIDE DEF end
<1> QED BY <1>3, <1>4

(* The end of one line is forwarded, without a gap (USART1_RX_vect,        *)
(* stacking_task).                                                         *)
THEOREM StForwardsOneLine == StSpec => []StOneLine
<1>1. StInit => StOneLine
  BY DEF StInit, StOneLine
<1>2. StInv /\ StOneLine /\ [StNext]_stVars => StOneLine'
  <2> SUFFICES ASSUME StInv, StOneLine, [StNext]_stVars PROVE StOneLine'
    OBVIOUS
  <2>1. CASE StShows /\ ~stBroken
    <3>1. PICK l \in 1 .. 2 : StHolds(l, 1)
      BY <2>1 DEF StShows, StInv, StComplete
    <3>2. mycmd[mypos] = StNul
      BY <2>1 DEF StShows, StInv, StComplete
    <3>3. \A i \in 0 .. mypos - 1 : mycmd[i] # StNul
      <4> TAKE i \in 0 .. mypos - 1
      <4>1. mycmd[i].line = l
        <5>1. mycmd[i] = [line |-> l, left |-> 1 + mypos - i]
          BY <3>1 DEF StHolds
        <5> QED BY <5>1
      <4> QED BY <4>1 DEF StNul
    <3>4. stForwarded' = [i \in 1 .. mypos |-> mycmd[i - 1]]
      BY <2>1, <3>2, <3>3, TextIsPrefix DEF StShows, StInv
    <3>5. mypos \in Nat
      BY StAssumption DEF StInv, StTypeOK
    <3>6. DOMAIN stForwarded' = 1 .. mypos /\ Len(stForwarded') = mypos
      BY <3>4, <3>5
    <3>7. \A i \in 1 .. mypos : stForwarded'[i] = [line |-> l, left |-> mypos + 2 - i]
      <4> TAKE i \in 1 .. mypos
      <4>1. mycmd[i - 1] = [line |-> l, left |-> 1 + mypos - (i - 1)]
        BY <3>1, <3>5 DEF StHolds
      <4>2. 1 + mypos - (i - 1) = mypos + 2 - i
        BY <3>5
      <4> QED BY <3>4, <4>1, <4>2
    <3>8. mypos > 0 => stForwarded'[1].line = l
      <4> SUFFICES ASSUME mypos > 0 PROVE stForwarded'[1].line = l
        OBVIOUS
      <4>1. stForwarded'[1] = [line |-> l, left |-> mypos + 2 - 1]
        BY <3>5, <3>7
      <4> QED BY <4>1
    <3> QED BY <3>5, <3>6, <3>7, <3>8 DEF StOneLine
  <2>2. CASE StShows /\ stBroken
    BY <2>2 DEF StShows, StOneLine
  <2>3. CASE ~StShows
    <3>1. stForwarded' = stForwarded
      BY <2>3 DEF StNext, stacking_task, StByte, StLost, StBegins, StPos, StEol, stVars
    <3> QED BY <3>1 DEF StOneLine
  <2> QED BY <2>1, <2>2, <2>3
<1> QED BY <1>1, <1>2, StInvHolds, PTL DEF StSpec

-----------------------------------------------------------------------------
(* The HomeMatic Wired bus. *)

(* The number of the message a sequence of tokens begins with. *)
HmFirst(s) == IF s = << >> THEN 0 ELSE s[1].n

(* What has been displayed, waits for the display or is on it. *)
HmUsed == {hmDone, HmFirst(rmsg), HmFirst(hmShown)}

HmSomAhead == hmBus # << >> /\ hmBus[1].raw /\ hmBus[1].val = HmSom

HmBusInv ==
  /\ hmBus \in Seq([val : Nat, raw : BOOLEAN])
  /\ \A i \in 2 .. Len(hmBus) : ~hmBus[i].raw

(* The task has a complete message, which stays as it is.                  *)
HmTaskInv ==
  /\ hmPc # "idle" => rstate.complete
  /\ hmPc = "show" => HmFirst(rmsg) # 0
  /\ hmPc \in {"show", "load"} => rmsg = hmChecked

(* The messages come in the order of their numbers.                        *)
HmPast == \A p \in HmUsed \cup {HmFirst(rbuf)} : p <= hmNumber

HmFuture == HmSomAhead => \A p \in HmUsed \cup {HmFirst(rbuf)} : p < hmNumber

(* rbuf may still be filled by a message that begins, ...                  *)
HmEmpty ==
  rbuf = << >> /\ (rstate.msg \/ (hmPc = "store" /\ hmReg.msg))
    => \A p \in HmUsed : p < hmNumber

(* ... or become a whole message.                                          *)
HmOpen ==
  rbuf # << >> /\ Len(rbuf) <= rbuf[1].val /\ rbuf[1].n # 0
    => \A p \in HmUsed : p < rbuf[1].n

HmNewer ==
  /\ rstate.complete /\ HmFirst(rmsg) # 0 => hmDone < HmFirst(rmsg)
  /\ hmShown # << >> => hmDone < HmFirst(hmShown)

HmInv ==
  HmTypeOK /\ HmBusInv /\ HmTaskInv /\ HmPast /\ HmFuture /\ HmEmpty /\ HmOpen /\ HmNewer

HmToken == [n : 0 .. HmCount, val : Nat]
HmBits  == [esc : BOOLEAN, msg : BOOLEAN, complete : BOOLEAN]

(* What the handler does with a byte of message n: nothing but to a bit,   *)
(* to begin a message, to add to one and to complete one.                  *)
HmIgnored ==
  /\ UNCHANGED <<rbuf, rmsg>>
  /\ rstate'.complete = rstate.complete /\ (rstate'.msg => rstate.msg)

HmOpened ==
  /\ rbuf' = << >> /\ rmsg' = rmsg
  /\ rstate'.complete = rstate.complete

HmAdded(c) ==
  /\ rstate.msg /\ Len(rbuf) # HmRoom
  /\ rbuf' = Append(rbuf, c) /\ rmsg' = rmsg
  /\ rstate'.complete = rstate.complete

HmFinished(c) ==
  /\ rstate.msg /\ ~rstate.complete /\ Len(rbuf) # HmRoom
  /\ rbuf' = Append(rbuf, c) /\ rmsg' = rbuf'
  /\ rbuf'[1].val + 1 = Len(rbuf')
  /\ rstate'.complete /\ ~rstate'.msg

LEMMA HmBitsKept ==
  ASSUME NEW r \in HmBits, NEW x \in BOOLEAN
  PROVE  /\ [r EXCEPT !.esc = x] \in HmBits
         /\ [r EXCEPT !.esc = x].msg = r.msg /\ [r EXCEPT !.esc = x].complete = r.complete
         /\ [r EXCEPT !.msg = x] \in HmBits
         /\ [r EXCEPT !.msg = x].msg = x /\ [r EXCEPT !.msg = x].complete = r.complete
         /\ [r EXCEPT !.complete = x] \in HmBits
         /\ [r EXCEPT !.complete = x].msg = r.msg /\ [r EXCEPT !.complete = x].complete = x
  BY SMT DEF HmBits

LEMMA HmCollected ==
  ASSUME NEW b \in HmToken, HmTypeOK, rstate.msg, Len(rbuf) # HmRoom, HmCollects(b)
  PROVE  /\ rstate' \in HmBits
         /\ \E c \in HmToken : c.n = b.n /\ (HmAdded(c) \/ HmFinished(c))
<1> DEFINE c == IF rstate.esc /\ b.val < HmHigh THEN [b EXCEPT !.val = @ + HmHigh] ELSE b
           all == Append(rbuf, c)
<1>1. c \in HmToken /\ c.n = b.n
  BY HmAssumption, SMT DEF HmToken
<1>2. rstate \in HmBits
  BY DEF HmTypeOK, HmBits
<1>3. rbuf' = all
  BY Zenon DEF HmCollects
<1>4. \/ rstate' = [rstate EXCEPT !.esc = FALSE] /\ rmsg' = rmsg
      \/ rstate' = [[rstate EXCEPT !.esc = FALSE] EXCEPT !.msg = FALSE] /\ rmsg' = rmsg
      \/ /\ rmsg' = all /\ ~rstate.complete /\ all[1].val + 1 = Len(all)
         /\ rstate' = [[rstate EXCEPT !.esc = FALSE] EXCEPT !.complete = TRUE, !.msg = FALSE]
  BY Zenon DEF HmCollects, HmAccepts
<1> HIDE DEF c, all
<1>5. CASE rstate' = [rstate EXCEPT !.esc = FALSE] /\ rmsg' = rmsg
  <2>1. rstate' \in HmBits /\ rstate'.complete = rstate.complete
    BY <1>2, <1>5, HmBitsKept, Zenon
  <2>2. HmAdded(c)
    BY <1>3, <1>5, <2>1 DEF HmAdded, all
  <2> QED BY <1>1, <2>1, <2>2
<1>6. CASE rstate' = [[rstate EXCEPT !.esc = FALSE] EXCEPT !.msg = FALSE] /\ rmsg' = rmsg
  <2>1. rstate' \in HmBits /\ rstate'.complete = rstate.complete
    <3> DEFINE open == [rstate EXCEPT !.esc = FALSE]
    <3>1. open \in HmBits /\ open.complete = rstate.complete
      BY <1>2, HmBitsKept, Zenon
    <3> QED BY <3>1, <1>6, HmBitsKept, Zenon
  <2>2. HmAdded(c)
    BY <1>3, <1>6, <2>1 DEF HmAdded, all
  <2> QED BY <1>1, <2>1, <2>2
<1>7. CASE /\ rmsg' = all /\ ~rstate.complete /\ all[1].val + 1 = Len(all)
           /\ rstate' = [[rstate EXCEPT !.esc = FALSE] EXCEPT !.complete = TRUE, !.msg = FALSE]
  <2>1. rstate' \in HmBits /\ rstate'.complete = TRUE /\ rstate'.msg = FALSE
    <3> DEFINE open == [rstate EXCEPT !.esc = FALSE]
               done == [open EXCEPT !.complete = TRUE]
    <3>1. open \in HmBits
      BY <1>2, HmBitsKept, Zenon
    <3>2. done \in HmBits /\ done.complete = TRUE
      BY <3>1, HmBitsKept, Zenon
    <3> QED BY <3>2, <1>7, HmBitsKept, Zenon
  <2>2. HmFinished(c)
    BY <1>3, <1>7, <2>1 DEF HmFinished, all
  <2> QED BY <1>1, <2>1, <2>2
<1> QED BY <1>4, <1>5, <1>6, <1>7

LEMMA HmHeard ==
  ASSUME NEW b \in HmToken, HmTypeOK, HmHears(b)
  PROVE  /\ rstate' \in HmBits
         /\ \/ HmIgnored
            \/ HmOpened /\ b.val = HmSom
            \/ \E c \in HmToken : c.n = b.n /\ (HmAdded(c) \/ HmFinished(c))
<1>1. rstate \in HmBits
  BY DEF HmTypeOK, HmBits
<1>2. CASE UNCHANGED <<rbuf, rmsg, rstate>>
  BY <1>1, <1>2 DEF HmIgnored
<1>3. CASE HmReceives(b)
  <2>1. CASE /\ b.val = HmSom /\ rbuf' = << >> /\ UNCHANGED rmsg
             /\ rstate' = [rstate EXCEPT !.msg = TRUE]
    BY <1>1, <2>1, HmBitsKept, Zenon DEF HmOpened
  <2>2. CASE /\ rstate' = [rstate EXCEPT !.esc = @ \/ rstate.msg]
             /\ UNCHANGED <<rbuf, rmsg>>
    <3>1. rstate' \in HmBits /\ rstate'.complete = rstate.complete
          /\ rstate'.msg = rstate.msg
      BY <1>1, <2>2, SMT DEF HmBits
    <3> QED BY <2>2, <3>1 DEF HmIgnored
  <2>3. CASE rstate' = [rstate EXCEPT !.msg = FALSE] /\ UNCHANGED <<rbuf, rmsg>>
    BY <1>1, <2>3, HmBitsKept, Zenon DEF HmIgnored
  <2>4. CASE rstate.msg /\ Len(rbuf) # HmRoom /\ HmCollects(b)
    BY <2>4, HmCollected
  <2> QED BY <1>2, <1>3, <2>1, <2>2, <2>3, <2>4, Zenon DEF HmReceives
<1> QED BY <1>2, <1>3, Zenon DEF HmHears

LEMMA HmFirstNat ==
  ASSUME NEW s \in Seq(HmToken)
  PROVE  HmFirst(s) \in 0 .. HmCount
<1>1. CASE s = << >>
  BY <1>1, HmAssumption DEF HmFirst
<1>2. CASE s # << >>
  <2>1. s[1] \in HmToken
    BY <1>2
  <2> QED BY <1>2, <2>1 DEF HmFirst, HmToken
<1> QED BY <1>1, <1>2

LEMMA HmHead ==
  ASSUME NEW s \in Seq(HmToken), s # << >>
  PROVE  s[1] \in HmToken /\ s[1].val \in Nat /\ s[1].n = HmFirst(s)
<1>1. s[1] \in HmToken
  OBVIOUS
<1> QED BY <1>1 DEF HmToken, HmFirst

LEMMA HmFirstAppend ==
  ASSUME NEW s \in Seq(HmToken), NEW c \in HmToken
  PROVE  /\ Append(s, c) \in Seq(HmToken) /\ Len(Append(s, c)) = Len(s) + 1
         /\ Append(s, c) # << >>
         /\ s = << >> => Append(s, c)[1] = c /\ HmFirst(Append(s, c)) = c.n
         /\ s # << >> => Append(s, c)[1] = s[1] /\ HmFirst(Append(s, c)) = HmFirst(s)
<1>1. /\ Append(s, c) \in Seq(HmToken) /\ Len(Append(s, c)) = Len(s) + 1
      /\ Append(s, c) # << >>
  OBVIOUS
<1>2. s = << >> => Append(s, c)[1] = c
  OBVIOUS
<1>3. s # << >> => Append(s, c)[1] = s[1]
  OBVIOUS
<1> QED BY <1>1, <1>2, <1>3 DEF HmFirst

(* What HmInv says of the types, with HmToken.                             *)
LEMMA HmTypes ==
  ASSUME HmTypeOK
  PROVE  /\ rbuf \in Seq(HmToken) /\ rmsg \in Seq(HmToken) /\ hmShown \in Seq(HmToken)
         /\ hmNumber \in 0 .. HmCount /\ hmDone \in 0 .. HmCount
         /\ Len(rbuf) <= HmRoom /\ rstate \in HmBits
         /\ HmFirst(rbuf) \in 0 .. HmCount /\ HmFirst(rmsg) \in 0 .. HmCount
         /\ HmFirst(hmShown) \in 0 .. HmCount
<1>1. /\ rbuf \in Seq(HmToken) /\ rmsg \in Seq(HmToken) /\ hmShown \in Seq(HmToken)
      /\ hmNumber \in 0 .. HmCount /\ hmDone \in 0 .. HmCount
      /\ Len(rbuf) <= HmRoom /\ rstate \in HmBits
  BY DEF HmTypeOK, HmToken, HmBits
<1> QED BY <1>1, HmFirstNat

(* The interrupt handler leaves the main loop alone.                       *)
LEMMA HmTypeKept ==
  ASSUME HmTypeOK, UNCHANGED <<hmNumber, HmMain>>,
         rbuf' \in Seq(HmToken), Len(rbuf') <= HmRoom, rmsg' \in Seq(HmToken),
         rstate' \in HmBits
  PROVE  HmTypeOK'
  BY DEF HmTypeOK, HmToken, HmBits, HmMain

LEMMA HmIgnoredKeeps ==
  ASSUME HmInv, HmIgnored, rstate' \in HmBits, UNCHANGED <<hmNumber, HmMain>>,
         HmBusInv', HmSomAhead' => HmSomAhead
  PROVE  HmInv'
<1> USE DEF HmInv, HmIgnored, HmMain
<1>1. HmTypeOK'
  BY HmTypes, HmTypeKept
<1>2. HmUsed' = HmUsed /\ HmFirst(rbuf)' = HmFirst(rbuf) /\ HmFirst(rmsg)' = HmFirst(rmsg)
      /\ HmFirst(hmShown)' = HmFirst(hmShown)
  BY DEF HmUsed, HmFirst
<1>3. HmTaskInv'
  BY <1>2 DEF HmTaskInv
<1>4. HmPast' /\ HmFuture'
  BY <1>2 DEF HmPast, HmFuture
<1>5. HmEmpty'
  BY <1>2, Zenon DEF HmEmpty
<1>6. HmOpen' /\ HmNewer'
  BY <1>2 DEF HmOpen, HmNewer
<1> QED BY <1>1, <1>3, <1>4, <1>5, <1>6

LEMMA HmOpenedKeeps ==
  ASSUME HmInv, HmOpened, HmSomAhead, rstate' \in HmBits, UNCHANGED <<hmNumber, HmMain>>,
         HmBusInv'
  PROVE  HmInv'
<1> USE DEF HmInv, HmOpened, HmMain
<1>1. HmTypeOK'
  BY HmTypes, HmTypeKept, HmAssumption
<1>2. HmUsed' = HmUsed /\ HmFirst(rbuf)' = 0 /\ HmFirst(rmsg)' = HmFirst(rmsg)
      /\ HmFirst(hmShown)' = HmFirst(hmShown)
  BY DEF HmUsed, HmFirst
<1>3. HmTaskInv'
  BY <1>2 DEF HmTaskInv
<1>4. \A p \in HmUsed : p < hmNumber
  BY DEF HmFuture
<1>5. 0 < hmNumber
  BY <1>4, HmTypes DEF HmUsed
<1>6. HmPast' /\ HmFuture'
  BY <1>2, <1>4, <1>5, HmTypes DEF HmPast, HmFuture, HmUsed
<1>7. HmEmpty'
  BY <1>2, <1>4 DEF HmEmpty
<1>8. HmOpen' /\ HmNewer'
  BY <1>2 DEF HmOpen, HmNewer
<1> QED BY <1>1, <1>3, <1>6, <1>7, <1>8

(* A byte of message number n, or noise, that is added to rbuf.            *)
LEMMA HmAddedKeeps ==
  ASSUME HmInv, NEW c \in HmToken, c.n \in {0, hmNumber}, HmAdded(c), rstate' \in HmBits,
         UNCHANGED <<hmNumber, HmMain>>, HmBusInv', HmSomAhead' => HmSomAhead /\ c.n = 0
  PROVE  HmInv'
<1> USE DEF HmInv, HmAdded, HmMain
<1>1. HmTypeOK'
  BY HmTypes, HmTypeKept, HmFirstAppend, HmAssumption
<1>2. HmUsed' = HmUsed /\ HmFirst(rmsg)' = HmFirst(rmsg) /\ HmFirst(hmShown)' = HmFirst(hmShown)
  BY DEF HmUsed, HmFirst
<1>3. HmTaskInv'
  BY <1>2 DEF HmTaskInv
<1>4. HmFirst(rbuf)' = HmFirst(rbuf) \/ HmFirst(rbuf)' = c.n
  BY HmTypes, HmFirstAppend DEF HmFirst
<1>5. HmPast'
  BY <1>2, <1>4, HmTypes DEF HmPast
<1>6. HmFuture'
  BY <1>2, <1>4, HmTypes DEF HmFuture, HmUsed
<1>7. rbuf' # << >>
  BY HmTypes, HmFirstAppend
<1>8. HmEmpty'
  BY <1>7 DEF HmEmpty
<1>9. HmOpen'
  <2>1. CASE rbuf = << >>
    <3>1. rbuf'[1].n = c.n
      BY <2>1, HmTypes, HmFirstAppend
    <3> QED BY <1>2, <2>1, <3>1 DEF HmEmpty, HmOpen
  <2>2. CASE rbuf # << >>
    <3>1. rbuf'[1] = rbuf[1] /\ Len(rbuf') = Len(rbuf) + 1 /\ rbuf[1].val \in Nat
      BY <2>2, HmTypes, HmFirstAppend, HmHead
    <3>2. Len(rbuf) \in Nat
      BY HmTypes
    <3> QED BY <1>2, <2>2, <3>1, <3>2 DEF HmOpen
  <2> QED BY <2>1, <2>2
<1>10. HmNewer'
  BY <1>2 DEF HmNewer
<1> QED BY <1>1, <1>3, <1>5, <1>6, <1>8, <1>9, <1>10

LEMMA HmFinishedKeeps ==
  ASSUME HmInv, NEW c \in HmToken, c.n \in {0, hmNumber}, HmFinished(c), rstate' \in HmBits,
         UNCHANGED <<hmNumber, HmMain>>, HmBusInv', HmSomAhead' => HmSomAhead /\ c.n = 0
  PROVE  HmInv'
<1> USE DEF HmInv, HmFinished, HmMain
<1>1. HmTypeOK'
  BY HmTypes, HmTypeKept, HmFirstAppend, HmAssumption
<1>2. HmFirst(rmsg)' = HmFirst(rbuf)' /\ HmFirst(hmShown)' = HmFirst(hmShown)
  BY DEF HmFirst
<1>3. HmTaskInv'
  BY DEF HmTaskInv
<1>4. HmFirst(rbuf)' = HmFirst(rbuf) \/ HmFirst(rbuf)' = c.n
  BY HmTypes, HmFirstAppend DEF HmFirst
<1>5. HmUsed' = {hmDone, HmFirst(rbuf)', HmFirst(hmShown)}
  BY <1>2 DEF HmUsed
<1>6. HmPast'
  BY <1>4, <1>5, HmTypes DEF HmPast, HmUsed
<1>7. HmFuture'
  BY <1>4, <1>5, HmTypes DEF HmFuture, HmUsed
<1>8. rbuf' # << >> /\ Len(rbuf') \in Nat /\ rbuf'[1].val \in Nat
  <2>1. rbuf' \in Seq(HmToken) /\ rbuf' # << >>
    BY HmTypes, HmFirstAppend
  <2> QED BY <2>1, HmHead
<1>9. HmEmpty' /\ HmOpen'
  BY <1>8 DEF HmEmpty, HmOpen
<1>10. HmFirst(rbuf)' # 0 => hmDone < HmFirst(rbuf)'
  <2>1. CASE rbuf = << >>
    <3>1. HmFirst(rbuf)' = c.n
      BY <2>1, HmTypes, HmFirstAppend DEF HmFirst
    <3> QED BY <2>1, <3>1 DEF HmEmpty, HmUsed
  <2>2. CASE rbuf # << >>
    <3>1. rbuf'[1] = rbuf[1] /\ Len(rbuf') = Len(rbuf) + 1 /\ rbuf[1].val \in Nat
      BY <2>2, HmTypes, HmFirstAppend, HmHead
    <3>2. Len(rbuf) <= rbuf[1].val
      BY <3>1, HmTypes
    <3>3. HmFirst(rbuf)' = rbuf[1].n
      BY <1>8, <3>1 DEF HmFirst
    <3> QED BY <2>2, <3>2, <3>3 DEF HmOpen, HmUsed
  <2> QED BY <2>1, <2>2
<1>11. HmNewer'
  BY <1>2, <1>10 DEF HmNewer
<1> QED BY <1>1, <1>3, <1>6, <1>7, <1>9, <1>11

LEMMA HmHearing ==
  ASSUME HmInv, NEW b \in HmToken, b.n \in {0, hmNumber}, HmHears(b),
         UNCHANGED <<hmNumber, HmMain>>, HmBusInv', b.val = HmSom => HmSomAhead,
         HmSomAhead' => HmSomAhead /\ b.n = 0
  PROVE  HmInv'
<1>1. HmTypeOK
  BY DEF HmInv
<1> QED
  BY <1>1, HmHeard, HmIgnoredKeeps, HmOpenedKeeps, HmAddedKeeps, HmFinishedKeeps

-----------------------------------------------------------------------------
(* The bus. *)
HmByteOnBus == [val : Nat, raw : BOOLEAN]

LEMMA HmWireBus ==
  ASSUME NEW m \in HmMessages
  PROVE  /\ HmWire(m) \in Seq(HmByteOnBus)
         /\ \A i \in 2 .. Len(HmWire(m)) : ~HmWire(m)[i].raw
<1> DEFINE som == [val |-> HmSom, raw |-> TRUE]
           byte(i) == [val |-> m[i], raw |-> FALSE]
           rest == [i \in 1 .. Len(m) |-> byte(i)]
<1>1. som \in HmByteOnBus
  BY HmAssumption DEF HmByteOnBus
<1>2. m \in Seq(Nat)
  BY HmAssumption
<1>3. \A i \in 1 .. Len(m) : byte(i) \in HmByteOnBus /\ byte(i).raw = FALSE
  BY <1>2, SMT DEF HmByteOnBus
<1>4. Len(m) \in Nat
  BY <1>2
<1>5. HmWire(m) = <<som>> \o rest
  BY DEF HmWire
<1> HIDE DEF som, byte
<1>6. rest \in Seq(HmByteOnBus) /\ Len(rest) = Len(m)
  BY <1>3, <1>4
<1> HIDE DEF rest
<1>7. \A i \in 1 .. Len(rest) : rest[i] = byte(i)
  BY <1>6 DEF rest
<1>8. HmWire(m) \in Seq(HmByteOnBus)
  BY <1>1, <1>5, <1>6
<1>9. ASSUME NEW i \in 2 .. Len(HmWire(m))
      PROVE  ~HmWire(m)[i].raw
  <2>1. Len(HmWire(m)) = Len(rest) + 1
    <3>1. <<som>> \in Seq(HmByteOnBus) /\ Len(<<som>>) = 1
      BY <1>1
    <3>2. rest \in Seq(HmByteOnBus)
      BY <1>6
    <3>3. Len(<<som>> \o rest) = Len(<<som>>) + Len(rest)
      BY <3>1, <3>2, ConcatProperties
    <3> QED BY <3>1, <3>3, <1>5, <1>6, <1>4
  <2>2. i - 1 \in 1 .. Len(rest)
    BY <2>1, <1>6, <1>4
  <2>3. HmWire(m)[i] = rest[i - 1]
    BY <1>1, <1>5, <1>6, <2>2
  <2> QED BY <1>3, <1>6, <1>7, <2>2, <2>3
<1> QED BY <1>8, <1>9

LEMMA HmUnsentBus ==
  ASSUME HmBusInv, hmBus # << >>, hmBus' = HmUnsent
  PROVE  HmBusInv' /\ ~HmSomAhead'
<1>1. hmBus \in Seq(HmByteOnBus)
  BY DEF HmBusInv, HmByteOnBus
<1>2. hmBus[1] \in HmByteOnBus
  BY <1>1
<1>3. /\ Tail(hmBus) \in Seq(HmByteOnBus)
      /\ Len(Tail(hmBus)) = Len(hmBus) - 1
      /\ \A i \in 1 .. Len(Tail(hmBus)) : Tail(hmBus)[i] = hmBus[i + 1]
  BY <1>1
<1>4. \A i \in 1 .. Len(Tail(hmBus)) : ~Tail(hmBus)[i].raw
  BY <1>1, <1>3 DEF HmBusInv
<1>5. CASE ~HmEscapes
  <2>1. hmBus' = Tail(hmBus)
    BY <1>5 DEF HmUnsent
  <2>2. HmBusInv'
    BY <1>3, <1>4, <2>1 DEF HmBusInv, HmByteOnBus
  <2>3. hmBus' # << >> => ~hmBus'[1].raw
    <3>1. hmBus' # << >> => 1 \in 1 .. Len(hmBus')
      BY <1>3, <2>1
    <3> QED BY <3>1, <1>4, <2>1
  <2> QED BY <2>2, <2>3 DEF HmSomAhead
<1>6. CASE HmEscapes
  <2> DEFINE byte == [val |-> hmBus[1].val - HmHigh, raw |-> TRUE]
  <2>1. hmBus' = <<byte>> \o Tail(hmBus)
    BY <1>6 DEF HmUnsent
  <2>2. hmBus[1].val \in HmHigh .. 2 * HmHigh - 1
    BY <1>6, HmAssumption DEF HmEscapes
  <2>3. byte \in HmByteOnBus /\ byte.val < HmHigh
    BY <2>2, HmAssumption, SMT DEF HmByteOnBus
  <2> HIDE DEF byte
  <2>4. /\ hmBus' \in Seq(HmByteOnBus) /\ Len(hmBus') = Len(hmBus)
        /\ hmBus'[1] = byte
        /\ \A i \in 2 .. Len(hmBus') : hmBus'[i] = Tail(hmBus)[i - 1]
    BY <1>1, <1>3, <2>1, <2>3
  <2>5. \A i \in 2 .. Len(hmBus') : ~hmBus'[i].raw
    BY <1>1, <1>3, <1>4, <2>4, SMTT(40)
  <2>6. HmBusInv'
    BY <2>4, <2>5 DEF HmBusInv, HmByteOnBus
  <2>7. byte.val # HmSom
    BY <2>3, HmAssumption DEF HmByteOnBus
  <2> QED BY <2>4, <2>6, <2>7 DEF HmSomAhead
<1> QED BY <1>5, <1>6

-----------------------------------------------------------------------------
LEMMA HmByteKeeps ==
  ASSUME HmInv, HmByte
  PROVE  HmInv'
<1>1. hmBus # << >> /\ hmBus' = HmUnsent /\ HmBusInv
  BY DEF HmByte, HmInv
<1>2. HmBusInv' /\ ~HmSomAhead'
  BY <1>1, HmUnsentBus
<1>3. hmBus[1] \in HmByteOnBus
  <2>1. hmBus \in Seq(HmByteOnBus)
    BY <1>1 DEF HmBusInv, HmByteOnBus
  <2> QED BY <1>1, <2>1
<1>4. hmBus[1].val \in Nat
  BY <1>3 DEF HmByteOnBus
<1>5. hmNumber \in 0 .. HmCount
  BY DEF HmInv, HmTypeOK
<1>6. HmSent \in HmToken /\ HmSent.n = hmNumber
  BY <1>4, <1>5, HmAssumption, SMT DEF HmSent, HmToken
<1>7. HmSent.val = HmSom => HmSomAhead
  <2>1. HmSent.val = IF HmEscapes THEN HmEsc ELSE hmBus[1].val
    BY DEF HmSent
  <2>2. hmBus[1].raw \in BOOLEAN
    BY <1>3 DEF HmByteOnBus
  <2> QED BY <1>1, <2>1, <2>2, HmAssumption DEF HmSomAhead, HmEscapes
<1> HIDE DEF HmSent
<1> QED BY <1>2, <1>6, <1>7, HmHearing DEF HmByte

LEMMA HmNoiseKeeps ==
  ASSUME HmInv, HmNoise
  PROVE  HmInv'
<1> DEFINE b == [n |-> 0, val |-> 1]
<1>1. b \in HmToken /\ b.n = 0 /\ b.val # HmSom
  BY HmAssumption, SMT DEF HmToken
<1>2. HmBusInv' /\ (HmSomAhead' => HmSomAhead)
  BY DEF HmNoise, HmInv, HmBusInv, HmSomAhead
<1>3. HmHears(b) /\ UNCHANGED <<hmNumber, HmMain>>
  BY DEF HmNoise
<1> HIDE DEF b
<1> QED BY <1>1, <1>2, <1>3, HmHearing

LEMMA HmErrorKeeps ==
  ASSUME HmInv, HmError
  PROVE  HmInv'
<1>1. HmBusInv' /\ ~HmSomAhead'
  BY HmUnsentBus DEF HmError, HmInv
<1>2. rstate \in HmBits
  BY HmTypes DEF HmInv
<1>3. rstate' \in HmBits /\ rstate'.complete = rstate.complete /\ rstate'.msg = FALSE
  BY <1>2, HmBitsKept, Zenon DEF HmError
<1> QED BY <1>1, <1>3, HmIgnoredKeeps DEF HmError, HmIgnored

LEMMA HmBeginsKeeps ==
  ASSUME HmInv, HmBegins
  PROVE  HmInv'
<1> USE DEF HmInv
<1>1. HmBusInv'
  BY HmWireBus DEF HmBegins, HmBusInv, HmByteOnBus
<1>2. hmNumber' = hmNumber + 1 /\ hmNumber' \in 0 .. HmCount
  BY HmTypes, HmAssumption DEF HmBegins
<1>3. UNCHANGED <<rbuf, rmsg, rstate, hmPc, hmReg, hmSend, hmChecked, hmDone, hmShown>>
  BY DEF HmBegins, HmMain
<1>4. HmTypeOK'
  BY <1>2, <1>3 DEF HmTypeOK
<1>5. HmUsed' = HmUsed /\ HmFirst(rbuf)' = HmFirst(rbuf) /\ HmFirst(rmsg)' = HmFirst(rmsg)
      /\ HmFirst(hmShown)' = HmFirst(hmShown)
  BY <1>3 DEF HmUsed, HmFirst
<1>6. \A p \in HmUsed \cup {HmFirst(rbuf)} : p < hmNumber'
  BY <1>2, HmTypes DEF HmPast, HmUsed
<1>7. HmPast' /\ HmFuture'
  BY <1>2, <1>5, <1>6, HmTypes DEF HmPast, HmFuture, HmUsed
<1>8. HmEmpty'
  BY <1>3, <1>5, <1>6 DEF HmEmpty
<1>9. HmOpen' /\ HmNewer' /\ HmTaskInv'
  BY <1>3, <1>5 DEF HmOpen, HmNewer, HmTaskInv
<1> QED BY <1>1, <1>4, <1>7, <1>8, <1>9

(* Steps of the main loop: the bus and the handler's buffer stay.          *)
LEMMA HmMainKeeps ==
  ASSUME HmInv, UNCHANGED <<rbuf, rmsg, hmBus, hmNumber>>, HmUsed' \subseteq HmUsed,
         HmTypeOK', HmTaskInv', HmNewer',
         (rstate.msg \/ (hmPc = "store" /\ hmReg.msg))'
           => rstate.msg \/ (hmPc = "store" /\ hmReg.msg)
  PROVE  HmInv'
<1> USE DEF HmInv
<1>1. HmFirst(rbuf)' = HmFirst(rbuf)
  BY DEF HmFirst
<1>2. HmBusInv' /\ HmSomAhead' = HmSomAhead
  BY DEF HmBusInv, HmSomAhead
<1>3. HmPast'
  BY <1>1 DEF HmPast
<1>4. HmFuture'
  BY <1>1, <1>2 DEF HmFuture
<1>5. HmEmpty'
  BY Zenon DEF HmEmpty
<1>6. HmOpen'
  BY DEF HmOpen
<1> QED BY <1>2, <1>3, <1>4, <1>5, <1>6

LEMMA HmChecksKeeps ==
  ASSUME HmInv, HmChecks
  PROVE  HmInv'
<1> USE DEF HmInv
<1>1. UNCHANGED <<rbuf, rmsg, rstate, hmReg, hmSend, hmBus, hmNumber, hmDone, hmShown>>
      /\ rstate.complete /\ hmChecked' = rmsg /\ hmPc' \in {"show", "load"}
  BY DEF HmChecks
<1>2. hmPc' = "show" => HmFirst(rmsg) # 0
  <2> SUFFICES ASSUME hmPc' = "show" PROVE HmFirst(rmsg) # 0
    OBVIOUS
  <2>1. PICK m \in HmMessages, n \in 1 .. HmCount : rmsg = HmContent(m, n)
    BY DEF HmChecks
  <2>2. m \in Seq(Nat) /\ m # << >>
    BY HmAssumption
  <2>3. 1 \in 1 .. Len(m) /\ Len(m) \in Nat
    BY <2>2
  <2> DEFINE token(i) == [n |-> n, val |-> m[i]]
  <2>4. rmsg = [i \in 1 .. Len(m) |-> token(i)]
    BY <2>1 DEF HmContent
  <2>5. token(1).n = n
    BY SMT
  <2> HIDE DEF token
  <2>6. rmsg[1] = token(1)
    BY <2>3, <2>4
  <2>7. rmsg # << >>
    <3>1. 1 \in DOMAIN rmsg
      BY <2>3, <2>4
    <3> QED BY <3>1
  <2> QED BY <2>5, <2>6, <2>7, HmAssumption DEF HmFirst
<1>3. HmTypeOK'
  BY <1>1 DEF HmTypeOK
<1>4. HmUsed' = HmUsed /\ HmFirst(rmsg)' = HmFirst(rmsg) /\ HmFirst(hmShown)' = HmFirst(hmShown)
  BY <1>1 DEF HmUsed, HmFirst
<1>5. HmTaskInv' /\ HmNewer'
  BY <1>1, <1>2, <1>4 DEF HmTaskInv, HmNewer
<1>6. hmPc' # "store"
  BY <1>1
<1> QED BY <1>1, <1>3, <1>4, <1>5, <1>6, HmMainKeeps

LEMMA HmShowsKeeps ==
  ASSUME HmInv, HmShows
  PROVE  HmInv'
<1> USE DEF HmInv
<1>1. UNCHANGED <<rbuf, rmsg, rstate, hmReg, hmSend, hmBus, hmNumber, hmChecked, hmDone>>
      /\ hmShown' = rmsg /\ hmPc = "show" /\ hmPc' = "load"
  BY DEF HmShows
<1>2. HmFirst(rmsg)' = HmFirst(rmsg) /\ HmFirst(hmShown)' = HmFirst(rmsg)
  BY <1>1 DEF HmFirst
<1>3. HmUsed' \subseteq HmUsed
  BY <1>1, <1>2 DEF HmUsed
<1>4. HmTypeOK'
  BY <1>1 DEF HmTypeOK
<1>5. HmTaskInv' /\ HmNewer'
  BY <1>1, <1>2 DEF HmTaskInv, HmNewer
<1> QED BY <1>1, <1>3, <1>4, <1>5, HmMainKeeps

LEMMA HmLoadsKeeps ==
  ASSUME HmInv, HmLoads
  PROVE  HmInv'
<1> USE DEF HmInv
<1>1. UNCHANGED <<rbuf, rmsg, rstate, hmSend, hmBus, hmNumber, hmChecked, hmDone, hmShown>>
      /\ hmReg' = rstate /\ hmPc = "load" /\ hmPc' = "store"
  BY DEF HmLoads
<1>2. HmUsed' = HmUsed /\ HmFirst(rmsg)' = HmFirst(rmsg) /\ HmFirst(hmShown)' = HmFirst(hmShown)
  BY <1>1 DEF HmUsed, HmFirst
<1>3. HmTypeOK'
  BY <1>1 DEF HmTypeOK
<1>4. HmTaskInv' /\ HmNewer'
  BY <1>1, <1>2 DEF HmTaskInv, HmNewer
<1> QED BY <1>1, <1>2, <1>3, <1>4, HmMainKeeps

LEMMA HmStoresKeeps ==
  ASSUME HmInv, HmStores
  PROVE  HmInv'
<1> USE DEF HmInv
<1>1. UNCHANGED <<rbuf, rmsg, hmReg, hmSend, hmBus, hmNumber, hmChecked>>
      /\ rstate' = HmCleared /\ hmShown' = << >> /\ hmPc = "store" /\ hmPc' = "idle"
      /\ hmDone' = IF hmShown = << >> THEN hmDone ELSE hmShown[1].n
  BY DEF HmStores
<1>2. hmReg \in HmBits
  BY DEF HmTypeOK, HmBits
<1>3. HmCleared \in HmBits /\ HmCleared.msg = hmReg.msg /\ HmCleared.complete = FALSE
  BY <1>2, HmBitsKept, Zenon DEF HmCleared
<1> HIDE DEF HmCleared
<1>4. HmFirst(rmsg)' = HmFirst(rmsg) /\ HmFirst(hmShown)' = 0
      /\ (hmDone' = hmDone \/ hmDone' = HmFirst(hmShown))
      /\ (hmShown = << >> => HmFirst(hmShown) = 0)
  BY <1>1 DEF HmFirst
<1>5. hmDone' \in 0 .. HmCount
  BY <1>4, HmTypes
<1>6. HmTypeOK'
  BY <1>1, <1>2, <1>3, <1>5 DEF HmTypeOK, HmBits
<1>7. HmTaskInv' /\ HmNewer'
  BY <1>1, <1>3 DEF HmTaskInv, HmNewer
<1>8. UNCHANGED <<rbuf, hmNumber, hmBus>> /\ hmPc' # "store" /\ rstate'.msg = hmReg.msg
  BY <1>1, <1>3
<1>9. \A p \in HmUsed' : \E q \in HmUsed : p <= q
  BY <1>4, <1>5, HmTypes DEF HmUsed
<1>10. HmBusInv' /\ HmSomAhead' = HmSomAhead
  BY <1>1 DEF HmBusInv, HmSomAhead
<1>11. HmFirst(rbuf)' = HmFirst(rbuf)
  BY <1>1 DEF HmFirst
<1>12. HmUsed \subseteq Nat /\ HmUsed' \subseteq Nat /\ hmNumber \in Nat /\ HmFirst(rbuf) \in Nat
  BY <1>4, <1>5, HmTypes DEF HmUsed
<1>13. HmPast'
  <2> SUFFICES ASSUME NEW p \in HmUsed' PROVE p <= hmNumber
    BY <1>8, <1>11, <1>12 DEF HmPast
  <2>1. \A q \in HmUsed : q <= hmNumber
    BY DEF HmPast
  <2> QED BY <2>1, <1>9, <1>12
<1>14. HmFuture'
  <2> SUFFICES ASSUME HmSomAhead, NEW p \in HmUsed' PROVE p < hmNumber
    BY <1>8, <1>10, <1>11, <1>12 DEF HmFuture
  <2>1. \A q \in HmUsed : q < hmNumber
    BY DEF HmFuture
  <2> QED BY <2>1, <1>9, <1>12
<1>15. HmEmpty'
  <2> SUFFICES ASSUME rbuf = << >>, hmReg.msg, NEW p \in HmUsed' PROVE p < hmNumber
    BY <1>1, <1>8 DEF HmEmpty
  <2>1. \A q \in HmUsed : q < hmNumber
    BY <1>1 DEF HmEmpty
  <2> QED BY <2>1, <1>9, <1>12
<1>16. HmOpen'
  <2> SUFFICES ASSUME rbuf # << >>, Len(rbuf) <= rbuf[1].val, rbuf[1].n # 0, NEW p \in HmUsed'
               PROVE  p < rbuf[1].n
    BY <1>8 DEF HmOpen
  <2>1. \A q \in HmUsed : q < rbuf[1].n
    BY DEF HmOpen
  <2>2. rbuf[1].n \in Nat
    BY <1>12 DEF HmFirst
  <2> QED BY <2>1, <2>2, <1>9, <1>12
<1> QED BY <1>6, <1>7, <1>10, <1>13, <1>14, <1>15, <1>16

LEMMA HmSendsKeeps ==
  ASSUME HmInv, HmSends
  PROVE  HmInv'
<1> USE DEF HmInv
<1>1. UNCHANGED <<rbuf, rmsg, rstate, hmPc, hmReg, hmBus, hmNumber, hmChecked, hmDone, hmShown>>
      /\ hmSend' \in {"no", "wait", "on"}
  BY DEF HmSends
<1>2. HmUsed' = HmUsed /\ HmFirst(rmsg)' = HmFirst(rmsg) /\ HmFirst(hmShown)' = HmFirst(hmShown)
  BY <1>1 DEF HmUsed, HmFirst
<1>3. HmTypeOK'
  BY <1>1 DEF HmTypeOK
<1>4. HmTaskInv' /\ HmNewer'
  BY <1>1, <1>2 DEF HmTaskInv, HmNewer
<1> QED BY <1>1, <1>2, <1>3, <1>4, HmMainKeeps

LEMMA HmResetKeeps ==
  ASSUME HmInv, HmReset
  PROVE  HmInv'
<1> USE DEF HmInv
<1>1. /\ rbuf' = << >> /\ rmsg' = << >> /\ rstate' = HmIdle
      /\ hmPc' = "idle" /\ hmReg' = HmIdle /\ hmSend' = "no"
      /\ hmChecked' = << >> /\ hmShown' = << >>
      /\ UNCHANGED <<hmBus, hmNumber, hmDone>>
  BY DEF HmReset
<1>2. HmIdle \in HmBits /\ HmIdle.msg = FALSE /\ HmIdle.complete = FALSE
  BY SMT DEF HmIdle, HmBits
<1> HIDE DEF HmIdle
<1>3. HmTypeOK'
  BY <1>1, <1>2, HmAssumption DEF HmTypeOK, HmBits
<1>4. HmUsed' = {hmDone, 0} /\ HmFirst(rbuf)' = 0
  BY <1>1 DEF HmUsed, HmFirst
<1>5. HmBusInv' /\ HmSomAhead' = HmSomAhead
  BY <1>1 DEF HmBusInv, HmSomAhead
<1>6. hmDone <= hmNumber /\ (HmSomAhead => hmDone < hmNumber)
  BY DEF HmPast, HmFuture, HmUsed
<1>7. HmPast' /\ HmFuture'
  BY <1>1, <1>4, <1>5, <1>6, HmTypes DEF HmPast, HmFuture
<1>8. HmEmpty' /\ HmOpen' /\ HmNewer' /\ HmTaskInv'
  BY <1>1, <1>2 DEF HmEmpty, HmOpen, HmNewer, HmTaskInv
<1> QED BY <1>3, <1>5, <1>7, <1>8

LEMMA HmInitInv == HmInit => HmInv
<1> SUFFICES ASSUME HmInit PROVE HmInv
  OBVIOUS
<1>1. HmIdle \in HmBits /\ HmIdle.msg = FALSE /\ HmIdle.complete = FALSE
  BY SMT DEF HmIdle, HmBits
<1>2. HmUsed = {0} /\ HmFirst(rbuf) = 0 /\ HmFirst(rmsg) = 0
  BY DEF HmInit, HmUsed, HmFirst
<1> HIDE DEF HmIdle
<1>3. HmTypeOK
  BY <1>1, HmAssumption DEF HmInit, HmTypeOK, HmBits
<1>4. HmBusInv /\ ~HmSomAhead
  BY DEF HmInit, HmBusInv, HmSomAhead
<1>5. HmTaskInv /\ HmPast /\ HmFuture /\ HmEmpty /\ HmOpen /\ HmNewer
  BY <1>1, <1>2, <1>4 DEF HmInit, HmTaskInv, HmPast, HmFuture, HmEmpty, HmOpen, HmNewer
<1> QED BY <1>3, <1>4, <1>5 DEF HmInv

LEMMA HmStutter ==
  ASSUME HmInv, UNCHANGED hmVars
  PROVE  HmInv'
BY DEF hmVars, HmInv, HmTypeOK, HmBusInv, HmTaskInv, HmPast, HmFuture, HmEmpty, HmOpen, HmNewer,
       HmUsed, HmFirst, HmSomAhead

LEMMA HmHolds == HmSpec => []HmInv
<1>1. HmInv /\ [HmNext]_hmVars => HmInv'
  BY HmBeginsKeeps, HmByteKeeps, HmErrorKeeps, HmNoiseKeeps, HmChecksKeeps, HmShowsKeeps,
     HmLoadsKeeps, HmStoresKeeps, HmSendsKeeps, HmResetKeeps, HmStutter, Zenon
     DEF HmNext, hm485_task
<1> QED BY <1>1, HmInitInv, PTL DEF HmSpec

(* The type invariant of the HomeMatic Wired bus, for every size of rbuf   *)
(* and every set of messages: no byte is stored beyond the buffer.         *)
THEOREM HmTypeCorrect == HmSpec => []HmTypeOK
<1>1. HmInv => HmTypeOK
  BY DEF HmInv
<1> QED BY <1>1, HmHolds, PTL

(* What hm485_task displays is the message whose CRC it checked, and newer *)
(* than what it displayed before, for every size of rbuf, all messages and *)
(* every number of them, whatever the handler does between its steps.      *)
THEOREM HmDisplaysInOrder == HmSpec => []HmInOrder
<1>1. HmInv => HmInOrder
  BY DEF HmInv, HmTaskInv, HmNewer, HmInOrder, HmFirst
<1> QED BY <1>1, HmHolds, PTL

-----------------------------------------------------------------------------
(* Codes that agree in their first n bits, and the order of codes in which *)
(* the search goes through the devices: 0 before 1 where they differ first.*)
OwAgree(c, d, n) == \A b \in 1 .. n : c[b] = d[b]

OwBelow(c, d) == \E b \in OwBits : OwAgree(c, d, b - 1) /\ c[b] = 0 /\ d[b] = 1

(* A device of P agrees with q before bit b, and has v there. *)
OwSends(P, q, b, v) == \E d \in P : OwAgree(d, q, b - 1) /\ d[b] = v

(* z is the last of the first n places where q has the 0 and could have    *)
(* had the 1, or 0 if there is none.                                       *)
OwLastZero(P, q, z, n) ==
  /\ z # 0 => z \in 1 .. n /\ q[z] = 0 /\ OwSends(P, q, z, 1)
  /\ \A b \in 1 .. n : b > z /\ q[b] = 0 => ~OwSends(P, q, b, 1)

(* Behind bit L, q has the 1 only where no device has the 0. *)
OwLeast(P, q, L, n) ==
  \A b \in 1 .. n : b > L /\ q[b] = 1 => ~OwSends(P, q, b, 0)

(* q goes with last up to bit L, where it takes the 1. *)
OwBranchesOff(q, last, L, n) ==
  /\ \A b \in 1 .. n : b < L => q[b] = last[b]
  /\ L <= n => q[L] = 1

(* The devices found, F, are those up to last, and L is where the search   *)
(* goes on.                                                                *)
OwFrontier(P, F, last, L) ==
  /\ last \in P
  /\ \A d \in P : d \in F <=> d = last \/ OwBelow(d, last)
  /\ OwLastZero(P, last, L, OwWidth)

LEMMA OwSmallest ==
  ASSUME NEW T \in SUBSET Nat, T # {}
  PROVE  \E x \in T : \A y \in T : x <= y
<1> DEFINE R == OpToRel(<, Nat)
<1>1. IsWellFoundedOn(R, Nat)
  BY NatLessThanWellFounded
<1>2. \A x, y \in Nat : x < y => <<x, y>> \in R
  BY DEF OpToRel
<1> HIDE DEF R
<1>3. PICK x \in T : \A y \in T : <<y, x>> \notin R
  BY <1>1, WFMin
<1>4. \A y \in T : ~(y < x)
  BY <1>2, <1>3
<1> QED BY <1>4

LEMMA OwCodeBits ==
  ASSUME NEW c \in OwCode, NEW b \in OwBits
  PROVE  c[b] \in {0, 1} /\ b \in Nat \ {0} /\ b <= OwWidth /\ OwWidth \in Nat
<1>1. OwWidth \in Nat
  BY OwAssumption DEF OwAssumption
<1> QED BY <1>1, SMT DEF OwCode, OwBits

(* Different codes have a first bit where they differ. *)
LEMMA OwFirstDifference ==
  ASSUME NEW c \in OwCode, NEW d \in OwCode, c # d
  PROVE  \E b \in OwBits : OwAgree(c, d, b - 1) /\ c[b] # d[b]
<1> DEFINE T == {b \in OwBits : c[b] # d[b]}
<1>1. T \in SUBSET Nat
  BY DEF OwBits
<1>2. T # {}
  BY DEF OwCode
<1> HIDE DEF T
<1>3. PICK b \in T : \A y \in T : b <= y
  BY <1>1, <1>2, OwSmallest
<1>4. b \in OwBits /\ c[b] # d[b]
  BY DEF T
<1>5. ASSUME NEW i \in 1 .. b - 1 PROVE c[i] = d[i]
  <2>1. b \in Nat \ {0} /\ b <= OwWidth /\ OwWidth \in Nat
    BY <1>4, OwCodeBits
  <2>2. i \in OwBits /\ ~(b <= i)
    BY <2>1, SMT DEF OwBits
  <2> QED BY <1>3, <2>2 DEF T
<1> QED BY <1>4, <1>5 DEF OwAgree

(* All others are found when there is nowhere to go on. *)
LEMMA OwAllFound ==
  ASSUME NEW P \in SUBSET OwCode, NEW F, NEW last, OwFrontier(P, F, last, 0)
  PROVE  P \subseteq F
<1> SUFFICES ASSUME NEW d \in P, d # last PROVE OwBelow(d, last)
  BY DEF OwFrontier
<1>1. last \in OwCode /\ d \in OwCode
  BY DEF OwFrontier
<1>2. PICK b \in OwBits : OwAgree(d, last, b - 1) /\ d[b] # last[b]
  BY <1>1, OwFirstDifference
<1>3. d[b] \in {0, 1} /\ last[b] \in {0, 1} /\ b > 0
  BY <1>1, OwCodeBits
<1>4. ~(d[b] = 1 /\ last[b] = 0)
  BY <1>2, <1>3 DEF OwFrontier, OwLastZero, OwSends, OwBits
<1>5. d[b] = 0 /\ last[b] = 1
  BY <1>2, <1>3, <1>4
<1> QED BY <1>2, <1>5 DEF OwBelow

(* A code that goes beyond last at L was not found. *)
LEMMA OwNotFound ==
  ASSUME NEW P \in SUBSET OwCode, NEW F, NEW last, NEW L \in OwBits,
         OwFrontier(P, F, last, L), NEW q \in P,
         OwAgree(q, last, L - 1), q[L] = 1
  PROVE  q \notin F
<1>1. last[L] = 0 /\ L \in Nat \ {0} /\ L <= OwWidth
  BY OwCodeBits DEF OwFrontier, OwLastZero
<1>2. q # last
  BY <1>1
<1>3. ASSUME NEW b \in OwBits, OwAgree(q, last, b - 1), q[b] = 0, last[b] = 1
      PROVE  FALSE
  <2>1. b \in Nat \ {0}
    BY OwCodeBits
  <2>2. CASE b < L
    <3>1. b \in 1 .. L - 1
      BY <1>1, <2>1, <2>2, SMT
    <3> QED BY <1>3, <3>1 DEF OwAgree
  <2>3. CASE b = L
    BY <1>3, <2>3
  <2>4. CASE b > L
    <3>1. L \in 1 .. b - 1
      BY <1>1, <2>1, <2>4, SMT
    <3>2. q[L] = last[L]
      BY <1>3, <3>1 DEF OwAgree
    <3> QED BY <1>1, <3>2
  <2> QED BY <1>1, <2>1, <2>2, <2>3, <2>4, SMT
<1>4. ~OwBelow(q, last)
  BY <1>3 DEF OwBelow
<1> QED BY <1>2, <1>4 DEF OwFrontier

(* There is a device still to be found as long as the search goes on.      *)
LEMMA OwMoreToFind ==
  ASSUME NEW P \in SUBSET OwCode, NEW F, NEW last, NEW L \in OwBits,
         OwFrontier(P, F, last, L)
  PROVE  \E d \in P : d \notin F
<1>1. L # 0
  BY OwCodeBits, SMT DEF OwBits
<1>2. PICK d \in P : OwAgree(d, last, L - 1) /\ d[L] = 1
  BY <1>1 DEF OwFrontier, OwLastZero, OwSends
<1> QED BY <1>2, OwNotFound

(* The first device found. *)
LEMMA OwFirstFrontier ==
  ASSUME NEW P \in SUBSET OwCode, NEW q \in P, NEW z,
         OwLeast(P, q, 0, OwWidth), OwLastZero(P, q, z, OwWidth)
  PROVE  OwFrontier(P, {q}, q, z)
<1>1. ASSUME NEW d \in P, OwBelow(d, q) PROVE FALSE
  <2>1. PICK b \in OwBits : OwAgree(d, q, b - 1) /\ d[b] = 0 /\ q[b] = 1
    BY <1>1 DEF OwBelow
  <2>2. b > 0 /\ b \in 1 .. OwWidth
    BY OwAssumption, SMT DEF OwBits, OwAssumption
  <2> QED BY <2>1, <2>2 DEF OwLeast, OwSends
<1> QED BY <1>1 DEF OwFrontier

(* The next device found: of those that are left, the first in the order.  *)
LEMMA OwNextFrontier ==
  ASSUME NEW P \in SUBSET OwCode, NEW F, NEW last, NEW L \in OwBits,
         OwFrontier(P, F, last, L), NEW q \in P, NEW z,
         OwBranchesOff(q, last, L, OwWidth), OwLeast(P, q, L, OwWidth),
         OwLastZero(P, q, z, OwWidth)
  PROVE  q \notin F /\ OwFrontier(P, F \cup {q}, q, z)
<1>1. last[L] = 0 /\ L \in Nat \ {0} /\ L <= OwWidth /\ OwWidth \in Nat /\ q[L] = 1
  BY OwCodeBits, SMT DEF OwFrontier, OwLastZero, OwBranchesOff
<1>2. \A b \in 1 .. L - 1 : q[b] = last[b]
  <2>1. \A b \in 1 .. L - 1 : b \in 1 .. OwWidth /\ b < L
    BY <1>1, SMT
  <2> QED BY <2>1 DEF OwBranchesOff
<1>3. q \notin F
  BY <1>1, <1>2, OwNotFound DEF OwAgree
<1>4. \A b \in OwBits : b \in Nat \ {0} /\ (b < L \/ b = L \/ b > L)
  BY <1>1, OwCodeBits, SMT DEF OwBits
<1>5. \A b \in OwBits : b < L => b \in 1 .. L - 1
  BY <1>1, SMT DEF OwBits
<1>6. \A b \in OwBits : b > L => L \in 1 .. b - 1
  BY <1>1, SMT DEF OwBits
<1>7. \A b \in OwBits : \A i \in 1 .. b - 1 : b < L => i \in 1 .. L - 1
  BY <1>1, SMT DEF OwBits
<1>8. ASSUME NEW d \in P, d = last \/ OwBelow(d, last) PROVE OwBelow(d, q)
  <2>1. CASE d = last
    BY <1>1, <1>2, <2>1 DEF OwBelow, OwAgree
  <2>2. ASSUME NEW b \in OwBits, OwAgree(d, last, b - 1), d[b] = 0, last[b] = 1
        PROVE  OwBelow(d, q)
    <3>1. CASE b < L
      <4>1. q[b] = 1
        BY <1>2, <1>5, <2>2, <3>1
      <4>2. OwAgree(d, q, b - 1)
        BY <1>2, <1>7, <2>2, <3>1 DEF OwAgree
      <4> QED BY <2>2, <4>1, <4>2 DEF OwBelow
    <3>2. CASE b = L
      BY <1>1, <2>2, <3>2
    <3>3. CASE b > L
      <4>1. d[L] = 0
        BY <1>1, <1>6, <2>2, <3>3 DEF OwAgree
      <4>2. \A i \in 1 .. L - 1 : i \in 1 .. b - 1
        BY <1>1, <1>4, <3>3, SMT
      <4>3. OwAgree(d, q, L - 1)
        BY <1>2, <2>2, <4>2 DEF OwAgree
      <4> QED BY <1>1, <4>1, <4>3 DEF OwBelow
    <3> QED BY <1>4, <3>1, <3>2, <3>3
  <2> QED BY <1>8, <2>1, <2>2 DEF OwBelow
<1>9. ASSUME NEW d \in P, OwBelow(d, q) PROVE d = last \/ OwBelow(d, last)
  <2>1. PICK b \in OwBits : OwAgree(d, q, b - 1) /\ d[b] = 0 /\ q[b] = 1
    BY <1>9 DEF OwBelow
  <2>2. CASE b < L
    <3>1. last[b] = 1
      BY <1>2, <1>5, <2>1, <2>2
    <3>2. OwAgree(d, last, b - 1)
      BY <1>2, <1>7, <2>1, <2>2 DEF OwAgree
    <3> QED BY <2>1, <3>1, <3>2 DEF OwBelow
  <2>3. CASE b = L
    <3>1. OwAgree(d, last, L - 1) /\ d[L] = last[L]
      BY <1>1, <1>2, <2>1, <2>3 DEF OwAgree
    <3> SUFFICES ASSUME d # last PROVE OwBelow(d, last)
      OBVIOUS
    <3>2. d \in OwCode /\ last \in OwCode
      BY DEF OwFrontier
    <3>3. PICK e \in OwBits : OwAgree(d, last, e - 1) /\ d[e] # last[e]
      BY <3>2, OwFirstDifference
    <3>4. d[e] \in {0, 1} /\ last[e] \in {0, 1}
      BY <3>2, OwCodeBits
    <3>5. e > L
      <4>1. ~(e < L)
        BY <1>5, <3>1, <3>3 DEF OwAgree
      <4>2. e # L
        BY <3>1, <3>3
      <4> QED BY <1>4, <4>1, <4>2
    <3>6. ~(d[e] = 1 /\ last[e] = 0)
      BY <3>3, <3>5 DEF OwFrontier, OwLastZero, OwSends, OwBits
    <3> QED BY <3>3, <3>4, <3>6 DEF OwBelow
  <2>4. CASE b > L
    BY <2>1, <2>4 DEF OwLeast, OwSends, OwBits
  <2> QED BY <1>4, <2>2, <2>3, <2>4
<1> QED BY <1>3, <1>8, <1>9 DEF OwFrontier

(* What is known of the first bits of q depends on them only. *)
LEMMA OwSamePrefix ==
  ASSUME NEW P, NEW q, NEW r, NEW n \in Nat, \A b \in 1 .. n : r[b] = q[b]
  PROVE  /\ \A d : OwAgree(d, q, n) <=> OwAgree(d, r, n)
         /\ \A b \in 1 .. n + 1 : \A v : (OwSends(P, q, b, v) <=> OwSends(P, r, b, v))
<1>1. \A b \in 1 .. n + 1 : \A i \in 1 .. b - 1 : i \in 1 .. n
  BY SMT
<1>2. \A b \in 1 .. n + 1 : \A d : (OwAgree(d, q, b - 1) <=> OwAgree(d, r, b - 1))
  BY <1>1 DEF OwAgree
<1>3. \A d : OwAgree(d, q, n) <=> OwAgree(d, r, n)
  BY DEF OwAgree
<1>4. \A b \in 1 .. n + 1 : \A v : (OwSends(P, q, b, v) <=> OwSends(P, r, b, v))
  BY <1>2, Zenon DEF OwSends
<1> QED BY <1>3, <1>4

(* One more bit of a pass: r is q with v at bit n + 1.                     *)
LEMMA OwLastZeroNext ==
  ASSUME NEW P, NEW q, NEW r, NEW n \in Nat, NEW v \in {0, 1}, NEW z, NEW y,
         \A b \in 1 .. n : r[b] = q[b], r[n + 1] = v,
         OwLastZero(P, q, z, n),
         y = IF v = 0 /\ OwSends(P, q, n + 1, 1) THEN n + 1 ELSE z
  PROVE  OwLastZero(P, r, y, n + 1)
<1>1. \A b \in 1 .. n + 1 : b \in 1 .. n \/ b = n + 1
  BY SMT
<1>2. /\ 1 .. n \subseteq 1 .. n + 1 /\ n + 1 \in 1 .. n + 1
      /\ \A b \in 1 .. n + 1 : ~(b > n + 1)
  BY SMT
<1>3. \A b \in 1 .. n + 1 : \A w : (OwSends(P, q, b, w) <=> OwSends(P, r, b, w))
  BY OwSamePrefix
<1>4. CASE v = 0 /\ OwSends(P, q, n + 1, 1)
  BY <1>2, <1>3, <1>4 DEF OwLastZero
<1>5. CASE ~(v = 0 /\ OwSends(P, q, n + 1, 1))
  <2>1. y = z
    BY <1>5
  <2>2. y # 0 => y \in 1 .. n + 1 /\ r[y] = 0 /\ OwSends(P, r, y, 1)
    BY <1>2, <1>3, <2>1 DEF OwLastZero
  <2>3. ASSUME NEW b \in 1 .. n + 1, b > y, r[b] = 0 PROVE ~OwSends(P, r, b, 1)
    BY <1>1, <1>3, <1>5, <2>1, <2>3 DEF OwLastZero
  <2> QED BY <2>2, <2>3 DEF OwLastZero
<1> QED BY <1>4, <1>5

LEMMA OwLeastNext ==
  ASSUME NEW P, NEW q, NEW r, NEW n \in Nat, NEW v, NEW L,
         \A b \in 1 .. n : r[b] = q[b], r[n + 1] = v,
         OwLeast(P, q, L, n),
         n + 1 > L /\ v = 1 => ~OwSends(P, q, n + 1, 0)
  PROVE  OwLeast(P, r, L, n + 1)
<1>1. \A b \in 1 .. n + 1 : b \in 1 .. n \/ b = n + 1
  BY SMT
<1>2. n + 1 \in 1 .. n + 1
  BY SMT
<1>3. \A b \in 1 .. n + 1 : \A w : (OwSends(P, q, b, w) <=> OwSends(P, r, b, w))
  BY OwSamePrefix
<1> QED BY <1>1, <1>2, <1>3 DEF OwLeast

LEMMA OwBranchesNext ==
  ASSUME NEW q, NEW r, NEW n \in Nat, NEW v, NEW last, NEW L \in Nat \ {0},
         \A b \in 1 .. n : r[b] = q[b], r[n + 1] = v,
         OwBranchesOff(q, last, L, n),
         n + 1 < L => v = last[n + 1], n + 1 = L => v = 1
  PROVE  OwBranchesOff(r, last, L, n + 1)
<1>1. \A b \in 1 .. n + 1 : b \in 1 .. n \/ b = n + 1
  BY SMT
<1>2. L <= n + 1 => (L <= n /\ L \in 1 .. n) \/ L = n + 1
  BY SMT
<1> QED BY <1>1, <1>2 DEF OwBranchesOff

-----------------------------------------------------------------------------
OwFound    == {ROM_CODES[i] : i \in 0 .. DeviceCounter - 1}
OwPrevious == ROM_CODES[DeviceCounter - 1]
OwReading  == ROM_CODES[DeviceCounter]

(* The devices on the bus are those the search began with. *)
OwBus ==
  /\ owPresent = owSearched /\ owPresent \subseteq OwDevice
  /\ IsFiniteSet(owPresent) /\ Cardinality(owPresent) <= OwMax

OwComplete ==
  /\ onewire_connecteddevices = Cardinality(owSearched)
  /\ {ROM_CODES[i] : i \in 0 .. onewire_connecteddevices - 1} = owSearched

(* The table holds the first devices in the order, once each, and          *)
(* LastDiscrepancy is where the next one branches off from the last.       *)
OwTable ==
  /\ ROM_CODES \in [0 .. OwMax -> OwCode] /\ DeviceCounter \in 0 .. OwMax
  /\ LastDiscrepancy \in 0 .. OwWidth
  /\ OwFound \subseteq owPresent /\ Cardinality(OwFound) = DeviceCounter
  /\ DeviceCounter > 0 => OwFrontier(owPresent, OwFound, OwPrevious, LastDiscrepancy)
  /\ DeviceCounter = 0 => LastDiscrepancy = 0
  /\ LastDeviceFlag <=> DeviceCounter > 0 /\ LastDiscrepancy = 0

(* In a pass: the active devices are those that agree with the bits read,  *)
(* which go with the previous code as far as LastDiscrepancy, and are the  *)
(* least there are behind it.                                              *)
OwPassing ==
  /\ DeviceCounter < OwMax /\ ~LastDeviceFlag
  /\ owBit \in 1 .. OwWidth + 1
  /\ owActive = {d \in owPresent : OwAgree(d, OwReading, owBit - 1)} /\ owActive # {}
  /\ OwLastZero(owPresent, OwReading, owZero, owBit - 1)
  /\ OwLeast(owPresent, OwReading, LastDiscrepancy, owBit - 1)
  /\ DeviceCounter > 0 =>
       OwBranchesOff(OwReading, OwPrevious, LastDiscrepancy, owBit - 1)

OwGood ==
  /\ OwBus
  /\ owPc = "idle" => OwComplete
  /\ owPc = "search" => OwTable
  /\ owPc = "pass" => OwTable /\ OwPassing

OwInv == owUnplugged \in BOOLEAN /\ (~owUnplugged => OwGood)

LEMMA OwPresentCodes ==
  ASSUME OwBus
  PROVE  owPresent \in SUBSET OwCode /\ \A d \in owPresent : ~OwNothing(d)
  BY OwAssumption DEF OwAssumption, OwBus

LEMMA OwStarts == OwInit => OwInv
<1> SUFFICES ASSUME OwInit PROVE OwInv
  OBVIOUS
<1>1. /\ owPresent = {} /\ owSearched = {} /\ owUnplugged = FALSE
      /\ onewire_connecteddevices = 0 /\ owPc = "idle"
  BY DEF OwInit
<1>2. IsFiniteSet({}) /\ Cardinality({}) = 0
  BY FS_EmptySet
<1>3. OwMax \in Nat
  BY OwAssumption DEF OwAssumption
<1>4. OwBus
  BY <1>1, <1>2, <1>3, SMT DEF OwBus
<1>5. 0 .. 0 - 1 = {}
  BY SMT
<1>6. OwComplete
  BY <1>1, <1>2, <1>5 DEF OwComplete
<1> QED BY <1>1, <1>4, <1>6 DEF OwInv, OwGood

LEMMA OwResetGood ==
  ASSUME onewire_SearchReset
  PROVE  OwGood'
<1>1. /\ owPresent' \subseteq OwDevice /\ Cardinality(owPresent') <= OwMax
      /\ ROM_CODES' = OwBlank /\ DeviceCounter' = 0
      /\ LastDiscrepancy' = 0 /\ LastDeviceFlag' = FALSE
      /\ owSearched' = owPresent' /\ owPc' = "search"
  BY DEF onewire_SearchReset
<1>2. IsFiniteSet(owPresent')
  BY <1>1, OwAssumption, FS_Subset DEF OwAssumption
<1>3. OwBus'
  BY <1>1, <1>2 DEF OwBus
<1>4. OwFound' = {}
  <2>1. 0 .. 0 - 1 = {}
    BY SMT
  <2> QED BY <1>1, <2>1 DEF OwFound
<1>5. Cardinality(OwFound') = 0
  BY <1>4, FS_EmptySet
<1>6. ROM_CODES' \in [0 .. OwMax -> OwCode]
  BY <1>1 DEF OwBlank, OwCode
<1>7. OwMax \in Nat /\ OwWidth \in Nat
  BY OwAssumption DEF OwAssumption
<1>8. 0 \in 0 .. OwMax /\ 0 \in 0 .. OwWidth /\ ~(0 > 0)
  BY <1>7, SMT
<1>9. OwTable'
  BY <1>1, <1>4, <1>5, <1>6, <1>8 DEF OwTable
<1> QED BY <1>1, <1>3, <1>9 DEF OwGood

(* The table is full of all devices when the search ends. *)
LEMMA OwNoMoreGood ==
  ASSUME OwGood, OwNoMore
  PROVE  OwGood'
<1>1. /\ owPc = "search" /\ OwBus /\ OwTable /\ owPc' = "idle"
      /\ onewire_connecteddevices' = DeviceCounter
      /\ UNCHANGED <<owPresent, ROM_CODES, owSearched>>
  BY DEF OwNoMore, OwEnd, OwGood, owHistory
<1>2. owPresent \subseteq OwFound
  <2>1. CASE LastDeviceFlag
    <3>1. OwFrontier(owPresent, OwFound, OwPrevious, 0)
      BY <1>1, <2>1 DEF OwTable
    <3> QED BY <1>1, <3>1, OwPresentCodes, OwAllFound
  <2>2. CASE owPresent = {}
    BY <2>2
  <2> QED BY <2>1, <2>2 DEF OwNoMore
<1>3. OwFound = owPresent /\ Cardinality(OwFound) = DeviceCounter
  BY <1>1, <1>2 DEF OwTable
<1>4. OwComplete'
  BY <1>1, <1>3 DEF OwComplete, OwFound, OwBus
<1>5. OwBus'
  BY <1>1 DEF OwBus
<1> QED BY <1>1, <1>4, <1>5 DEF OwGood

LEMMA OwPassBeginsGood ==
  ASSUME OwGood, OwPassBegins
  PROVE  OwGood'
<1>1. /\ OwBus /\ OwTable /\ ~LastDeviceFlag /\ owPresent # {} /\ owPc' = "pass"
      /\ owBit' = 1 /\ owZero' = 0 /\ owActive' = owPresent
      /\ UNCHANGED <<owPresent, ROM_CODES, DeviceCounter, LastDiscrepancy, LastDeviceFlag,
                     owSearched>>
  BY DEF OwPassBegins, OwGood, owHistory, owLast
<1>2. OwBus' /\ OwTable'
  BY <1>1 DEF OwBus, OwTable, OwFound, OwPrevious
<1>3. \E d \in owPresent : d \notin OwFound
  <2>1. CASE DeviceCounter > 0
    <3>1. OwFrontier(owPresent, OwFound, OwPrevious, LastDiscrepancy)
      BY <1>1, <2>1 DEF OwTable
    <3>2. LastDiscrepancy \in OwBits
      <4>1. LastDiscrepancy \in 0 .. OwWidth /\ LastDiscrepancy # 0 /\ OwWidth \in Nat
        BY <1>1, <2>1, OwAssumption DEF OwTable, OwAssumption
      <4> QED BY <4>1, SMT DEF OwBits
    <3> QED BY <1>1, <3>1, <3>2, OwPresentCodes, OwMoreToFind
  <2>2. CASE ~(DeviceCounter > 0)
    <3>1. DeviceCounter = 0
      BY <1>1, <2>2, OwAssumption, SMT DEF OwTable, OwAssumption
    <3>2. 0 .. 0 - 1 = {}
      BY SMT
    <3>3. OwFound = {}
      BY <3>1, <3>2 DEF OwFound
    <3> QED BY <1>1, <3>3
  <2> QED BY <2>1, <2>2
<1>4. DeviceCounter < OwMax
  <2>1. PICK d \in owPresent : d \notin OwFound
    BY <1>3
  <2>2. OwFound \subseteq owPresent /\ IsFiniteSet(owPresent)
    BY <1>1 DEF OwTable, OwBus
  <2>3. IsFiniteSet(OwFound) /\ OwFound \cup {d} \subseteq owPresent
    BY <2>2, FS_Subset
  <2>4. Cardinality(OwFound \cup {d}) = Cardinality(OwFound) + 1
    BY <2>1, <2>3, FS_AddElement
  <2>5. Cardinality(OwFound \cup {d}) <= Cardinality(owPresent)
    BY <2>2, <2>3, FS_Subset
  <2>6. Cardinality(owPresent) \in Nat
    BY <2>2, FS_CardinalityType
  <2>7. Cardinality(OwFound) = DeviceCounter /\ DeviceCounter \in Nat /\ OwMax \in Nat
        /\ Cardinality(owPresent) <= OwMax
    BY <1>1, OwAssumption DEF OwTable, OwBus, OwAssumption
  <2> QED BY <2>4, <2>5, <2>6, <2>7, SMT
<1>5. \A q : /\ \A d : OwAgree(d, q, 0)
             /\ OwLastZero(owPresent, q, 0, 0)
             /\ OwLeast(owPresent, q, LastDiscrepancy, 0)
  <2>1. 1 .. 0 = {}
    BY SMT
  <2> QED BY <2>1 DEF OwAgree, OwLastZero, OwLeast
<1>6. DeviceCounter > 0 => \A q, p : OwBranchesOff(q, p, LastDiscrepancy, 0)
  <2>1. 1 .. 0 = {}
    BY SMT
  <2>2. LastDiscrepancy \in 0 .. OwWidth /\ OwWidth \in Nat /\ (DeviceCounter > 0 => LastDiscrepancy # 0)
    BY <1>1, OwAssumption DEF OwTable, OwAssumption
  <2>3. DeviceCounter > 0 => ~(LastDiscrepancy <= 0)
    BY <2>2, SMT
  <2> QED BY <2>1, <2>3 DEF OwBranchesOff
<1>7. OwPassing'
  <2>1. 1 - 1 = 0 /\ 1 \in 1 .. OwWidth + 1
    BY OwAssumption, SMT DEF OwAssumption
  <2>2. OwReading' = OwReading /\ OwPrevious' = OwPrevious
    BY <1>1 DEF OwReading, OwPrevious
  <2> QED BY <1>1, <1>4, <1>5, <1>6, <2>1, <2>2 DEF OwPassing
<1> QED BY <1>1, <1>2, <1>7 DEF OwGood

(* One value is sent, or both. *)
LEMMA OwOneOrBoth ==
  ASSUME NEW S \in SUBSET {0, 1}, S # {}
  PROVE  \/ 0 \in S /\ 1 \in S /\ Cardinality(S) = 2
         \/ \E v \in {0, 1} : S = {v} /\ Cardinality(S) # 2
<1>1. \A x : IsFiniteSet({x}) /\ Cardinality({x}) = 1
  BY FS_Singleton
<1>2. Cardinality({0, 1}) = 2
  <2>1. Cardinality(0 .. 1) = 2
    <3>1. 0 \in Int /\ 1 \in Int
      OBVIOUS
    <3>2. Cardinality(0 .. 1) = IF 0 > 1 THEN 0 ELSE 1 - 0 + 1
      BY <3>1, FS_Interval, Zenon
    <3> QED BY <3>2
  <2>2. 0 .. 1 = {0, 1}
    OBVIOUS
  <2> QED BY <2>1, <2>2
<1>3. S = {0, 1} \/ S = {0} \/ S = {1}
  OBVIOUS
<1> QED BY <1>1, <1>2, <1>3

(* What the search takes for a bit: one of the values sent; at a place     *)
(* where the codes differ, what the previous code has before               *)
(* LastDiscrepancy, then the 1, and then the 0.                            *)
LEMMA OwTakes ==
  ASSUME OwGood, owPc = "pass", owBit <= OwWidth
  PROVE  /\ OwDirection \in {0, 1} /\ OwDirection \in OwSent
         /\ \A w \in {0, 1} : w \in OwSent <=> OwSends(owPresent, OwReading, owBit, w)
         /\ owBit < LastDiscrepancy => OwDirection = OwPrevious[owBit]
         /\ owBit = LastDiscrepancy => OwDirection = 1
         /\ owBit > LastDiscrepancy /\ OwDirection = 1 => 0 \notin OwSent
         /\ Cardinality(OwSent) = 2 /\ OwBranch = 0 <=> OwDirection = 0 /\ 1 \in OwSent
<1>1. OwBus /\ OwTable /\ OwPassing
  BY DEF OwGood
<1>2. owPresent \in SUBSET OwCode
  BY <1>1, OwPresentCodes
<1>3. /\ OwWidth \in Nat /\ owBit \in OwBits /\ owBit \in Nat \ {0}
      /\ LastDiscrepancy \in Nat /\ DeviceCounter \in Nat /\ LastDiscrepancy <= OwWidth
  <2>1. OwWidth \in Nat /\ OwMax \in Nat
    BY OwAssumption DEF OwAssumption
  <2>2. owBit \in 1 .. OwWidth + 1 /\ LastDiscrepancy \in 0 .. OwWidth /\ DeviceCounter \in 0 .. OwMax
    BY <1>1 DEF OwPassing, OwTable
  <2> QED BY <2>1, <2>2, SMT DEF OwBits
<1>4. \A w : w \in OwSent <=> OwSends(owPresent, OwReading, owBit, w)
  <2>1. OwSent = {d[owBit] : d \in {e \in owPresent : OwAgree(e, OwReading, owBit - 1)}}
    BY <1>1 DEF OwSent, OwPassing
  <2> QED BY <2>1 DEF OwSends
<1>5. OwSent \in SUBSET {0, 1} /\ OwSent # {}
  <2>1. \A d \in owPresent : d[owBit] \in {0, 1}
    BY <1>2, <1>3, OwCodeBits
  <2>2. OwSent \in SUBSET {0, 1}
    BY <1>4, <2>1 DEF OwSends
  <2>3. PICK d \in owActive : d \in owPresent
    BY <1>1 DEF OwPassing
  <2> QED BY <2>2, <2>3 DEF OwSent
<1>6. DeviceCounter > 0 <=> LastDiscrepancy > 0
  <2>1. /\ DeviceCounter = 0 => LastDiscrepancy = 0
        /\ ~(DeviceCounter > 0 /\ LastDiscrepancy = 0)
    BY <1>1 DEF OwTable, OwPassing
  <2> QED BY <1>3, <2>1, SMT
<1>7. LastDiscrepancy > 0 =>
        /\ OwPrevious \in owPresent /\ OwLastZero(owPresent, OwPrevious, LastDiscrepancy, OwWidth)
        /\ OwBranchesOff(OwReading, OwPrevious, LastDiscrepancy, owBit - 1)
  BY <1>1, <1>6 DEF OwTable, OwPassing, OwFrontier
<1>8. owBit < LastDiscrepancy => OwPrevious[owBit] \in OwSent
  <2> SUFFICES ASSUME owBit < LastDiscrepancy PROVE OwPrevious[owBit] \in OwSent
    OBVIOUS
  <2>1. LastDiscrepancy > 0 /\ \A b \in 1 .. owBit - 1 : b < LastDiscrepancy
    BY <1>3, SMT
  <2>2. OwAgree(OwPrevious, OwReading, owBit - 1)
    BY <1>7, <2>1 DEF OwAgree, OwBranchesOff
  <2> QED BY <1>4, <1>7, <2>1, <2>2 DEF OwSends
<1>9. owBit = LastDiscrepancy => 1 \in OwSent
  <2> SUFFICES ASSUME owBit = LastDiscrepancy PROVE 1 \in OwSent
    OBVIOUS
  <2>1. LastDiscrepancy > 0 /\ LastDiscrepancy # 0 /\ \A b \in 1 .. owBit - 1 : b < LastDiscrepancy
    BY <1>3, SMT
  <2>2. PICK d \in owPresent : OwAgree(d, OwPrevious, owBit - 1) /\ d[owBit] = 1
    BY <1>7, <2>1 DEF OwLastZero, OwSends
  <2>3. OwAgree(d, OwReading, owBit - 1)
    BY <1>7, <2>1, <2>2 DEF OwAgree, OwBranchesOff
  <2> QED BY <1>4, <2>2, <2>3 DEF OwSends
<1>10. OwBranch = IF owBit < LastDiscrepancy THEN OwPrevious[owBit]
                  ELSE IF owBit = LastDiscrepancy THEN 1 ELSE 0
  <2>1. owBit < LastDiscrepancy => OwBefore = OwPrevious[owBit]
    <3>1. owBit < LastDiscrepancy => DeviceCounter > 0
      BY <1>3, <1>6, SMT
    <3> QED BY <3>1 DEF OwBefore, OwPrevious
  <2> QED BY <2>1 DEF OwBranch
<1>11. /\ ~(owBit < LastDiscrepancy /\ owBit = LastDiscrepancy)
       /\ owBit > LastDiscrepancy <=> ~(owBit < LastDiscrepancy) /\ owBit # LastDiscrepancy
  BY <1>3, SMT
<1>12. CASE 0 \in OwSent /\ 1 \in OwSent /\ Cardinality(OwSent) = 2
  <2>1. OwDirection = OwBranch
    BY <1>12 DEF OwDirection
  <2>2. OwBranch \in {0, 1}
    BY <1>5, <1>8, <1>10
  <2> QED BY <1>4, <1>10, <1>11, <1>12, <2>1, <2>2
<1>13. CASE \E v \in {0, 1} : OwSent = {v} /\ Cardinality(OwSent) # 2
  <2>1. PICK v \in {0, 1} : OwSent = {v} /\ Cardinality(OwSent) # 2
    BY <1>13
  <2>2. OwDirection = v
    BY <2>1 DEF OwDirection
  <2> QED BY <1>4, <1>8, <1>9, <1>11, <2>1, <2>2
<1> QED BY <1>5, <1>12, <1>13, OwOneOrBoth

LEMMA OwReadsBitGood ==
  ASSUME OwGood, OwReadsBit
  PROVE  OwGood'
<1> DEFINE n == owBit - 1
           q == OwReading
           r == OwReading'
           v == OwDirection
<1>1. /\ owPc = "pass" /\ owBit <= OwWidth /\ OwBus /\ OwTable /\ OwPassing
      /\ ROM_CODES' = [ROM_CODES EXCEPT ![DeviceCounter][owBit] = OwDirection]
      /\ owZero' = IF Cardinality(OwSent) = 2 /\ OwBranch = 0 THEN owBit ELSE owZero
      /\ owActive' = {d \in owActive \intersect owPresent : d[owBit] = OwDirection}
      /\ owBit' = owBit + 1
      /\ UNCHANGED <<owPresent, DeviceCounter, LastDiscrepancy, LastDeviceFlag, owPc, owSearched>>
  BY DEF OwReadsBit, OwGood, owLast, owHistory
<1>2. /\ n \in Nat /\ n + 1 = owBit /\ owBit' - 1 = n + 1 /\ owBit \in OwBits
      /\ owBit' \in 1 .. OwWidth + 1 /\ LastDiscrepancy \in Nat
      /\ DeviceCounter \in 0 .. OwMax /\ ~(DeviceCounter \in 0 .. DeviceCounter - 1)
      /\ DeviceCounter \in Nat
      /\ \A i \in 0 .. DeviceCounter - 1 : i # DeviceCounter /\ i \in 0 .. OwMax
      /\ DeviceCounter > 0 => DeviceCounter - 1 \in 0 .. DeviceCounter - 1
      /\ \A b \in 1 .. n : b # owBit /\ b \in OwBits
  <2>1. OwWidth \in Nat /\ OwMax \in Nat
    BY OwAssumption DEF OwAssumption
  <2>2. owBit \in 1 .. OwWidth + 1 /\ LastDiscrepancy \in 0 .. OwWidth /\ DeviceCounter \in 0 .. OwMax
    BY <1>1 DEF OwPassing, OwTable
  <2> QED BY <1>1, <2>1, <2>2, SMT DEF OwBits
<1>3. /\ v \in {0, 1} /\ v \in OwSent
      /\ \A w \in {0, 1} : w \in OwSent <=> OwSends(owPresent, q, n + 1, w)
      /\ n + 1 < LastDiscrepancy => v = OwPrevious[n + 1]
      /\ n + 1 = LastDiscrepancy => v = 1
      /\ n + 1 > LastDiscrepancy /\ v = 1 => 0 \notin OwSent
      /\ owZero' = IF v = 0 /\ 1 \in OwSent THEN n + 1 ELSE owZero
  <2>1. n + 1 = owBit
    BY <1>2
  <2> HIDE DEF n
  <2> QED BY <1>1, <2>1, OwTakes
<1>4. ROM_CODES \in [0 .. OwMax -> OwCode] /\ q \in OwCode
  BY <1>1, <1>2 DEF OwTable, OwReading
<1>5. /\ r = [q EXCEPT ![owBit] = v]
      /\ \A i \in 0 .. DeviceCounter - 1 : ROM_CODES'[i] = ROM_CODES[i]
  BY <1>1, <1>2, <1>4 DEF OwReading
<1>6. r \in OwCode /\ r[n + 1] = v /\ \A b \in 1 .. n : r[b] = q[b]
  <2>1. q \in [OwBits -> 0 .. 1] /\ v \in 0 .. 1 /\ owBit \in OwBits /\ n + 1 = owBit
    BY <1>2, <1>3, <1>4, SMT DEF OwCode
  <2>2. r = [q EXCEPT ![owBit] = v] /\ \A b \in 1 .. n : b # owBit /\ b \in OwBits
    BY <1>2, <1>5
  <2> HIDE DEF q, r, v, n
  <2> QED BY <2>1, <2>2 DEF OwCode
<1>7. ROM_CODES' \in [0 .. OwMax -> OwCode]
  <2>1. ROM_CODES' = [ROM_CODES EXCEPT ![DeviceCounter] = r]
    BY <1>1, <1>5 DEF OwReading
  <2> HIDE DEF r
  <2> QED BY <1>2, <1>4, <1>6, <2>1
<1>8. OwFound' = OwFound
  BY <1>1, <1>5 DEF OwFound
<1>9. DeviceCounter > 0 => OwPrevious' = OwPrevious
  BY <1>1, <1>2, <1>5 DEF OwPrevious
<1>10. OwTable' /\ OwBus'
  BY <1>1, <1>7, <1>8, <1>9 DEF OwTable, OwBus
<1>11. owActive' = {d \in owPresent' : OwAgree(d, r, n + 1)} /\ owActive' # {}
  <2>1. owActive = {d \in owPresent : OwAgree(d, q, n)} /\ owActive \intersect owPresent = owActive
    BY <1>1 DEF OwPassing
  <2>2. owActive' = {d \in {e \in owPresent : OwAgree(e, q, n)} : d[n + 1] = v}
    BY <1>1, <1>2, <2>1
  <2>3. owActive' = {d \in owPresent : OwAgree(d, r, n + 1)}
    <3>1. \A d : OwAgree(d, r, n + 1) <=> OwAgree(d, q, n) /\ d[n + 1] = v
      <4>1. n \in Nat /\ r[n + 1] = v /\ \A b \in 1 .. n : r[b] = q[b]
        BY <1>2, <1>6
      <4> HIDE DEF n, q, r, v
      <4>2. \A b \in 1 .. n + 1 : b \in 1 .. n \/ b = n + 1
        BY <4>1, SMT
      <4>3. 1 .. n \subseteq 1 .. n + 1 /\ n + 1 \in 1 .. n + 1
        BY <4>1, SMT
      <4> QED BY <4>1, <4>2, <4>3, Zenon DEF OwAgree
    <3> QED BY <2>2, <3>1
  <2>4. owActive' # {}
    BY <1>1, <1>3 DEF OwSent
  <2> QED BY <1>1, <2>3, <2>4
<1>12. OwLastZero(owPresent, r, owZero', n + 1)
  <2>1. /\ n \in Nat /\ v \in {0, 1} /\ r[n + 1] = v /\ \A b \in 1 .. n : r[b] = q[b]
        /\ OwLastZero(owPresent, q, owZero, n)
        /\ owZero' = IF v = 0 /\ OwSends(owPresent, q, n + 1, 1) THEN n + 1 ELSE owZero
    BY <1>1, <1>2, <1>3, <1>6 DEF OwPassing
  <2> HIDE DEF n, q, r, v
  <2> QED BY <2>1, OwLastZeroNext
<1>13. OwLeast(owPresent, r, LastDiscrepancy, n + 1)
  <2>1. /\ n \in Nat /\ r[n + 1] = v /\ \A b \in 1 .. n : r[b] = q[b]
        /\ OwLeast(owPresent, q, LastDiscrepancy, n)
        /\ n + 1 > LastDiscrepancy /\ v = 1 => ~OwSends(owPresent, q, n + 1, 0)
    BY <1>1, <1>2, <1>3, <1>6 DEF OwPassing
  <2> HIDE DEF n, q, r, v
  <2> QED BY <2>1, OwLeastNext
<1>14. DeviceCounter > 0 => OwBranchesOff(r, OwPrevious, LastDiscrepancy, n + 1)
  <2> SUFFICES ASSUME DeviceCounter > 0
               PROVE  OwBranchesOff(r, OwPrevious, LastDiscrepancy, n + 1)
    OBVIOUS
  <2>1. /\ n \in Nat /\ r[n + 1] = v /\ \A b \in 1 .. n : r[b] = q[b]
        /\ OwBranchesOff(q, OwPrevious, LastDiscrepancy, n)
        /\ n + 1 < LastDiscrepancy => v = OwPrevious[n + 1]
        /\ n + 1 = LastDiscrepancy => v = 1
    BY <1>1, <1>2, <1>3, <1>6 DEF OwPassing
  <2>2. LastDiscrepancy \in Nat \ {0}
    BY <1>1, <1>2 DEF OwTable, OwPassing
  <2> HIDE DEF n, q, r, v
  <2> QED BY <2>1, <2>2, OwBranchesNext
<1>15. OwPassing'
  <2>1. DeviceCounter' = DeviceCounter /\ DeviceCounter < OwMax /\ ~LastDeviceFlag'
    BY <1>1 DEF OwPassing
  <2>2. owBit' - 1 = n + 1 /\ owBit' \in 1 .. OwWidth + 1
    BY <1>2
  <2> HIDE DEF n, q, v
  <2> QED BY <1>1, <1>9, <1>11, <1>12, <1>13, <1>14, <2>1, <2>2 DEF OwPassing
<1> QED BY <1>1, <1>10, <1>15 DEF OwGood

(* At the end of a pass the code that was read is that of a device, the    *)
(* next one in the order.                                                  *)
LEMMA OwReadsDevice ==
  ASSUME OwGood, owPc = "pass", owBit > OwWidth
  PROVE  /\ OwReading \in owPresent /\ OwReading \notin OwFound
         /\ OwFrontier(owPresent, OwFound \cup {OwReading}, OwReading, owZero)
         /\ owZero \in 0 .. OwWidth
<1>1. OwBus /\ OwTable /\ OwPassing
  BY DEF OwGood
<1>2. owPresent \in SUBSET OwCode
  BY <1>1, OwPresentCodes
<1>3. owBit - 1 = OwWidth /\ OwWidth \in Nat \ {0} /\ OwMax \in Nat
  <2>1. OwWidth \in Nat \ {0} /\ OwMax \in Nat /\ owBit \in 1 .. OwWidth + 1
    BY <1>1, OwAssumption DEF OwAssumption, OwPassing
  <2> QED BY <2>1, SMT
<1>4. OwReading \in OwCode
  BY <1>1, <1>3 DEF OwTable, OwReading
<1>5. OwReading \in owPresent
  <2>1. PICK d \in owPresent : OwAgree(d, OwReading, OwWidth)
    BY <1>1, <1>3 DEF OwPassing
  <2>2. d \in OwCode
    BY <1>2
  <2>3. d = OwReading
    <3>1. \A b \in OwBits : d[b] = OwReading[b]
      BY <2>1 DEF OwAgree, OwBits
    <3>2. d \in [OwBits -> 0 .. 1] /\ OwReading \in [OwBits -> 0 .. 1]
      BY <1>4, <2>2 DEF OwCode
    <3> QED BY <3>1, <3>2
  <2> QED BY <2>3
<1>6. /\ OwLastZero(owPresent, OwReading, owZero, OwWidth)
      /\ OwLeast(owPresent, OwReading, LastDiscrepancy, OwWidth)
      /\ DeviceCounter > 0 => OwBranchesOff(OwReading, OwPrevious, LastDiscrepancy, OwWidth)
  BY <1>1, <1>3 DEF OwPassing
<1>7. owZero \in 0 .. OwWidth
  <2>1. owZero = 0 \/ owZero \in 1 .. OwWidth
    BY <1>6 DEF OwLastZero
  <2> QED BY <1>3, <2>1, SMT
<1>8. CASE DeviceCounter > 0
  <2>1. OwFrontier(owPresent, OwFound, OwPrevious, LastDiscrepancy)
    BY <1>1, <1>8 DEF OwTable
  <2>2. LastDiscrepancy \in OwBits
    <3>1. LastDiscrepancy \in 0 .. OwWidth /\ LastDiscrepancy # 0
      BY <1>1, <1>8 DEF OwTable, OwPassing
    <3> QED BY <1>3, <3>1, SMT DEF OwBits
  <2> QED BY <1>2, <1>5, <1>6, <1>7, <1>8, <2>1, <2>2, OwNextFrontier
<1>9. CASE ~(DeviceCounter > 0)
  <2>1. DeviceCounter = 0
    BY <1>1, <1>3, <1>9, SMT DEF OwTable
  <2>2. 0 .. 0 - 1 = {}
    BY SMT
  <2>3. OwFound = {} /\ OwFound \cup {OwReading} = {OwReading}
    BY <2>1, <2>2 DEF OwFound
  <2>4. LastDiscrepancy = 0
    BY <1>1, <2>1 DEF OwTable
  <2>5. OwFrontier(owPresent, {OwReading}, OwReading, owZero)
    BY <1>2, <1>5, <1>6, <2>4, OwFirstFrontier
  <2> QED BY <1>5, <1>7, <2>3, <2>5
<1> QED BY <1>8, <1>9

LEMMA OwPassEndsGood ==
  ASSUME OwGood, OwPassEnds
  PROVE  OwGood'
<1>1. /\ owPc = "pass" /\ owBit > OwWidth /\ OwBus /\ OwTable /\ OwPassing
      /\ UNCHANGED <<owPresent, ROM_CODES, owSearched>>
  BY DEF OwPassEnds, OwGood, owHistory
<1>2. /\ OwReading \in owPresent /\ OwReading \notin OwFound
      /\ OwFrontier(owPresent, OwFound \cup {OwReading}, OwReading, owZero)
      /\ owZero \in 0 .. OwWidth
  BY <1>1, OwReadsDevice
<1>3. ~OwNothing(ROM_CODES[DeviceCounter])
  BY <1>1, <1>2, OwPresentCodes DEF OwReading
<1>4. DeviceCounter \in Nat /\ OwMax \in Nat /\ DeviceCounter < OwMax
      /\ ~(DeviceCounter >= OwMax) /\ DeviceCounter + 1 \in 0 .. OwMax
      /\ DeviceCounter + 1 > 0 /\ DeviceCounter + 1 # 0
      /\ (DeviceCounter + 1) - 1 = DeviceCounter
      /\ 0 .. DeviceCounter = (0 .. DeviceCounter - 1) \cup {DeviceCounter}
  <2>1. DeviceCounter \in 0 .. OwMax /\ OwMax \in Nat /\ DeviceCounter < OwMax
    BY <1>1, OwAssumption DEF OwTable, OwPassing, OwAssumption
  <2> QED BY <2>1, SMT
<1>5. /\ LastDiscrepancy' = owZero /\ LastDeviceFlag' = (owZero = 0)
      /\ DeviceCounter' = DeviceCounter + 1 /\ owPc' = "search"
  BY <1>3, <1>4 DEF OwPassEnds, OwLastPlace, OwIsLast, OwReturns, OwNextDevice
<1>6. OwPrevious' = OwReading
  BY <1>1, <1>4, <1>5 DEF OwPrevious, OwReading
<1>7. OwFound' = OwFound \cup {OwReading}
  BY <1>1, <1>4, <1>5 DEF OwFound, OwReading
<1>8. IsFiniteSet(OwFound) /\ Cardinality(OwFound) = DeviceCounter /\ OwFound \subseteq owPresent
  BY <1>1, FS_Subset DEF OwTable, OwBus
<1>9. Cardinality(OwFound') = DeviceCounter + 1
  BY <1>2, <1>7, <1>8, FS_AddElement
<1>10. OwTable'
  <2>1. ROM_CODES' \in [0 .. OwMax -> OwCode] /\ OwFound' \subseteq owPresent'
    BY <1>1, <1>2, <1>7, <1>8 DEF OwTable
  <2>2. OwFrontier(owPresent', OwFound', OwPrevious', LastDiscrepancy')
    BY <1>1, <1>2, <1>5, <1>6, <1>7
  <2>3. DeviceCounter' \in 0 .. OwMax /\ DeviceCounter' > 0 /\ DeviceCounter' # 0
        /\ Cardinality(OwFound') = DeviceCounter' /\ LastDiscrepancy' \in 0 .. OwWidth
    BY <1>2, <1>4, <1>5, <1>9
  <2>4. LastDeviceFlag' <=> DeviceCounter' > 0 /\ LastDiscrepancy' = 0
    BY <1>5, <2>3
  <2> QED BY <2>1, <2>2, <2>3, <2>4 DEF OwTable
<1>11. OwBus'
  BY <1>1 DEF OwBus
<1> QED BY <1>5, <1>10, <1>11 DEF OwGood

(* A pass does not break off while all its devices are on the bus. *)
LEMMA OwNoBreak ==
  ASSUME OwGood, OwPassBreaks
  PROVE  FALSE
<1>1. OwPassing /\ OwSent = {}
  BY DEF OwPassBreaks, OwGood
<1>2. PICK d \in owActive : d \in owPresent
  BY <1>1 DEF OwPassing
<1> QED BY <1>1, <1>2 DEF OwSent

LEMMA OwStays == OwInv /\ [OwNext]_owVars => OwInv'
<1> SUFFICES ASSUME OwInv, [OwNext]_owVars PROVE OwInv'
  OBVIOUS
<1>1. CASE OwUnplug
  BY <1>1 DEF OwUnplug, OwInv
<1>2. CASE onewire_SearchReset
  <2>1. owUnplugged' = FALSE
    BY <1>2 DEF onewire_SearchReset
  <2> QED BY <1>2, <2>1, OwResetGood DEF OwInv
<1>3. CASE OwSearch
  <2>1. owUnplugged' = owUnplugged
    BY <1>3
       DEF OwSearch, OwNoMore, OwPassBegins, OwReadsBit, OwPassEnds, OwPassBreaks, owHistory
  <2>2. ASSUME OwGood PROVE OwGood'
    BY <1>3, <2>2, OwNoMoreGood, OwPassBeginsGood, OwReadsBitGood, OwPassEndsGood, OwNoBreak
       DEF OwSearch
  <2> QED BY <2>1, <2>2 DEF OwInv
<1>4. CASE UNCHANGED owVars
  <2>1. /\ UNCHANGED <<owPresent, ROM_CODES, DeviceCounter, onewire_connecteddevices,
                       LastDiscrepancy, LastDeviceFlag, owPc, owBit>>
        /\ UNCHANGED <<owZero, owActive, owSearched, owUnplugged>>
    BY <1>4 DEF owVars, owLast, owPass, owHistory
  <2>2. OwGood' <=> OwGood
    BY <2>1
       DEF OwGood, OwBus, OwComplete, OwTable, OwPassing, OwFound, OwPrevious, OwReading
  <2> QED BY <2>1, <2>2 DEF OwInv
<1> QED BY <1>1, <1>2, <1>3, <1>4 DEF OwNext

(* The search finds every device on the bus, once each, and no pass writes *)
(* behind the table, for every set of codes of any width that fits into    *)
(* it, as long as no device is unplugged during the search.                *)
THEOREM SearchFindsAll == OwSpec => []OwFindsAll
<1>1. OwInv => OwFindsAll
  BY DEF OwInv, OwGood, OwComplete, OwPassing, OwFindsAll
<1> QED BY <1>1, OwStarts, OwStays, PTL DEF OwSpec

(* Types of the search: the flags, and the codes, counts and places. *)
OwFlags == owUnplugged \in BOOLEAN /\ LastDeviceFlag \in BOOLEAN
OwPlaces ==
  /\ owPresent \subseteq OwDevice /\ owSearched \subseteq OwDevice
  /\ owActive \subseteq OwDevice
  /\ ROM_CODES \in [0 .. OwMax -> OwCode]
  /\ DeviceCounter \in 0 .. OwMax /\ onewire_connecteddevices \in 0 .. OwMax
  /\ LastDiscrepancy \in 0 .. OwWidth
  /\ owPc \in {"idle", "search", "pass"}
  /\ owBit \in 1 .. OwWidth + 1 /\ owZero \in 0 .. OwWidth

LEMMA OwFlagsKept == OwFlags /\ [OwNext]_owVars => OwFlags'
<1>1. OwIsLast \in BOOLEAN
  BY DEF OwIsLast
<1> QED
  BY <1>1, Zenon
     DEF OwFlags, OwNext, OwUnplug, onewire_SearchReset, OwSearch, OwNoMore, OwForget,
         OwPassBegins, OwReadsBit, OwPassEnds, OwPassBreaks, owVars, owLast, owHistory

LEMMA OwReturnsPlaces ==
  ASSUME OwPlaces, OwReturns
  PROVE  /\ DeviceCounter' \in 0 .. OwMax /\ onewire_connecteddevices' \in 0 .. OwMax
         /\ owPc' \in {"idle", "search", "pass"}
<1>1. DeviceCounter \in 0 .. OwMax /\ onewire_connecteddevices \in 0 .. OwMax
  BY DEF OwPlaces
<1>2. CASE OwEnd /\ UNCHANGED DeviceCounter
  BY <1>1, <1>2 DEF OwEnd
<1>3. CASE OwNextDevice /\ ~(DeviceCounter >= OwMax)
  <2>1. OwMax \in Nat
    BY OwAssumption DEF OwAssumption
  <2> QED BY <1>1, <1>3, <2>1 DEF OwNextDevice
<1> QED BY <1>2, <1>3, Zenon DEF OwReturns

LEMMA OwPlacesKept == OwPlaces /\ [OwNext]_owVars => OwPlaces'
<1> SUFFICES ASSUME OwPlaces, [OwNext]_owVars PROVE OwPlaces'
  OBVIOUS
<1>1. /\ OwWidth \in Nat \ {0} /\ OwMax \in Nat \ {0} /\ OwDevice \subseteq OwCode
  BY OwAssumption DEF OwAssumption
<1>2. CASE OwUnplug
  BY <1>2 DEF OwPlaces, OwUnplug, owLast, owPass
<1>3. CASE onewire_SearchReset
  <2>1. OwBlank \in [0 .. OwMax -> OwCode]
    BY DEF OwBlank, OwCode
  <2> QED BY <1>1, <1>3, <2>1 DEF OwPlaces, onewire_SearchReset, owPass
<1>4. CASE OwNoMore
  BY <1>1, <1>4 DEF OwPlaces, OwNoMore, OwForget, OwEnd, owPass, owHistory
<1>5. CASE OwPassBegins
  BY <1>1, <1>5 DEF OwPlaces, OwPassBegins, owLast, owHistory
<1>6. CASE OwReadsBit
  <2>1. owBit \in OwBits
    BY <1>1, <1>6 DEF OwPlaces, OwReadsBit, OwBits
  <2>2. ROM_CODES[DeviceCounter] \in OwCode
    BY DEF OwPlaces
  <2>3. OwBranch \in 0 .. 1
    <3>1. OwBefore \in 0 .. 1
      <4>1. CASE DeviceCounter > 0
        <5>1. DeviceCounter - 1 \in 0 .. OwMax
          BY <1>1, <4>1 DEF OwPlaces
        <5>2. ROM_CODES[DeviceCounter - 1] \in OwCode
          BY <5>1 DEF OwPlaces
        <5> QED BY <2>1, <4>1, <5>2 DEF OwBefore, OwCode
      <4> QED BY <4>1 DEF OwBefore
    <3> QED BY <3>1 DEF OwBranch
  <2>4. OwSent \subseteq 0 .. 1 /\ OwSent # {}
    BY <1>1, <1>6, <2>1 DEF OwPlaces, OwSent, OwCode, OwReadsBit
  <2>5. OwDirection \in 0 .. 1
    BY <2>3, <2>4 DEF OwDirection
  <2>6. ROM_CODES' \in [0 .. OwMax -> OwCode]
    <3>1. ROM_CODES' = [ROM_CODES EXCEPT ![DeviceCounter] = [@ EXCEPT ![owBit] = OwDirection]]
      BY <1>6 DEF OwReadsBit
    <3>2. [ROM_CODES[DeviceCounter] EXCEPT ![owBit] = OwDirection] \in OwCode
      BY <2>1, <2>2, <2>5 DEF OwCode
    <3> HIDE DEF OwDirection
    <3> QED BY <3>1, <3>2 DEF OwPlaces
  <2>7. owBit' \in 1 .. OwWidth + 1 /\ owZero' \in 0 .. OwWidth
    BY <1>1, <1>6, <2>1 DEF OwPlaces, OwReadsBit, OwBits
  <2>8. owActive' \subseteq OwDevice
    BY <1>6 DEF OwPlaces, OwReadsBit
  <2> QED BY <1>6, <2>6, <2>7, <2>8 DEF OwPlaces, OwReadsBit, owLast, owHistory
<1>7. CASE OwPassEnds
  BY <1>1, <1>7, OwReturnsPlaces
     DEF OwPlaces, OwPassEnds, OwForget, OwLastPlace, OwIsLast, owPass, owHistory
<1>8. CASE OwPassBreaks
  BY <1>1, <1>8, OwReturnsPlaces DEF OwPlaces, OwPassBreaks, OwForget, owLast, owPass, owHistory
<1>9. CASE UNCHANGED owVars
  BY <1>9 DEF OwPlaces, owVars, owLast, owPass, owHistory
<1> QED BY <1>2, <1>3, <1>4, <1>5, <1>6, <1>7, <1>8, <1>9, Zenon DEF OwNext, OwSearch

(* The counts, the discrepancy and the bit under way stay in the table and *)
(* in the width of a code, whatever devices are unplugged meanwhile.       *)
THEOREM OwTypeCorrect == OwSpec => []OwTypeOK
<1>1. OwInit => OwFlags
  BY Zenon DEF OwInit, OwFlags
<1>2. OwInit => OwPlaces
  <2>1. OwBlank \in [0 .. OwMax -> OwCode]
    BY DEF OwBlank, OwCode
  <2>2. OwMax \in Nat \ {0} /\ OwWidth \in Nat \ {0}
    BY OwAssumption DEF OwAssumption
  <2> QED BY <2>1, <2>2 DEF OwInit, OwPlaces
<1>3. OwFlags /\ OwPlaces => OwTypeOK
  BY Zenon DEF OwFlags, OwPlaces, OwTypeOK
<1> QED BY <1>1, <1>2, <1>3, OwFlagsKept, OwPlacesKept, PTL DEF OwSpec
=============================================================================
