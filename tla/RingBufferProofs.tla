-------------------------- MODULE RingBufferProofs --------------------------
(***************************************************************************)
(* The ring buffer is a bounded queue for every size and alphabet, as long *)
(* as no interrupt handler puts into a ring that the main loop resets; and *)
(* the console that reads such a ring runs each line of the host whole,    *)
(* once and in order, for every length of lines, packets and displays.     *)
(***************************************************************************)
EXTENDS RingBuffer, Console, SequenceTheorems, TLAPS

(* Either no reset is under way and putoff is nbytes ahead of getoff, or   *)
(* the ring has been emptied and stays so until all three stores are done. *)
ResetInv ==
  /\ pc = "idle" => putoff = Offset(nbytes)
  /\ pc # "idle" => nbytes = 0
  /\ pc = "getoff" => putoff = 0

IInv == TypeOK /\ ResetInv

(* Handlers that do not put leave rb_put to the main loop, outside a reset. *)
LEMMA PutOnlyIdle ==
  ASSUME IsrOps \subseteq {"get"}, Runs("put")
  PROVE  pc = "idle"
  BY DEF Runs

(* The type invariant: from Init on, the offsets index buf and nbytes is   *)
(* at most Size, whatever the handlers do (rb_put, rb_get, rb_reset).      *)
THEOREM TypeCorrect == Spec => []TypeOK
<1> USE SizeAssumption, ByteAssumption
<1>1. Init => TypeOK
  BY DEF Init, TypeOK, Index
<1>2. TypeOK /\ [Next]_vars => TypeOK'
  <2> SUFFICES ASSUME TypeOK, [Next]_vars PROVE TypeOK'
    OBVIOUS
  <2> USE DEF TypeOK, Index, Wrap
  <2>1. ASSUME NEW d \in Byte, rb_put(d) PROVE TypeOK'
    BY <2>1 DEF rb_put
  <2>2. ASSUME NEW d \in Byte, rb_put_full(d) PROVE TypeOK'
    BY <2>2 DEF rb_put_full, vars
  <2>3. CASE rb_get
    BY <2>3 DEF rb_get
  <2>4. CASE rb_get_empty
    BY <2>4 DEF rb_get_empty
  <2>5. CASE rb_reset
    BY <2>5 DEF rb_reset, ResetBytes, ResetPut, ResetGet
  <2>6. CASE UNCHANGED vars
    BY <2>6 DEF vars
  <2> QED BY <2>1, <2>2, <2>3, <2>4, <2>5, <2>6 DEF Next
<1> QED BY <1>1, <1>2, PTL DEF Spec

(* ResetInv is inductive relative to the type invariant. *)
LEMMA ResetStep ==
  ASSUME IsrOps \subseteq {"get"}, TypeOK, ResetInv, [Next]_vars
  PROVE  ResetInv'
<1> USE SizeAssumption, ByteAssumption DEF TypeOK, ResetInv, Index, Wrap, Offset
<1>1. ASSUME NEW d \in Byte, rb_put(d) PROVE ResetInv'
  <2>1. pc = "idle"
    BY <1>1, PutOnlyIdle DEF rb_put
  <2> QED BY <1>1, <2>1 DEF rb_put
<1>2. ASSUME NEW d \in Byte, rb_put_full(d) PROVE ResetInv'
  BY <1>2 DEF rb_put_full, vars
<1>3. CASE rb_get
  BY <1>3 DEF rb_get
<1>4. CASE rb_get_empty
  BY <1>4 DEF rb_get_empty
<1>5. CASE ResetBytes
  BY <1>5 DEF ResetBytes
<1>6. CASE ResetPut
  BY <1>6 DEF ResetPut
<1>7. CASE ResetGet
  BY <1>7 DEF ResetGet
<1>8. CASE UNCHANGED vars
  BY <1>8 DEF vars
<1> QED BY <1>1, <1>2, <1>3, <1>4, <1>5, <1>6, <1>7, <1>8 DEF Next, rb_reset

(* Both invariants hold in every state. *)
LEMMA Invariance ==
  ASSUME IsrOps \subseteq {"get"}
  PROVE  Spec => []IInv
<1>1. Init => ResetInv
  BY SizeAssumption DEF Init, ResetInv, Offset
<1>2. TypeOK /\ ResetInv /\ [Next]_vars => ResetInv'
  BY ResetStep
<1> QED BY <1>1, <1>2, TypeCorrect, PTL DEF Spec, IInv

(* Whenever no rb_reset is under way, nbytes is the distance between the   *)
(* offsets: the counter and the offsets never drift apart.                 *)
THEOREM CountCorrect ==
  ASSUME IsrOps \subseteq {"get"}
  PROVE  Spec => []CountMatchesOffsets
<1>1. IInv => CountMatchesOffsets
  BY DEF IInv, ResetInv, CountMatchesOffsets
<1> QED BY <1>1, Invariance, PTL

(* The bytes waiting form a sequence of nbytes bytes. *)
LEMMA ContentsType ==
  ASSUME TypeOK
  PROVE  Contents \in Seq(Byte) /\ Len(Contents) = nbytes
  BY SizeAssumption DEF TypeOK, Contents, Offset, Index

(* One rb_put appends its byte: the slots counted so far keep theirs. *)
LEMMA PutAppends ==
  ASSUME TypeOK, ResetInv, IsrOps \subseteq {"get"}, NEW d \in Byte, rb_put(d)
  PROVE  Contents' = Append(Contents, d)
<1> USE SizeAssumption DEF TypeOK, ResetInv, Index, Offset
<1>1. nbytes < Size /\ nbytes' = nbytes + 1 /\ getoff' = getoff
      /\ buf' = [buf EXCEPT ![putoff] = d] /\ putoff = Offset(nbytes)
  BY PutOnlyIdle DEF rb_put
<1>2. ASSUME NEW i \in 1 .. nbytes + 1
      PROVE  buf'[Offset(i - 1)] = IF i = nbytes + 1 THEN d ELSE buf[Offset(i - 1)]
  BY <1>1
<1>3. Contents' = [i \in 1 .. nbytes + 1 |-> buf'[Offset(i - 1)]]
  BY <1>1 DEF Contents
<1>4. Contents' = [i \in 1 .. nbytes + 1 |->
                     IF i = nbytes + 1 THEN d ELSE buf[Offset(i - 1)]]
  BY <1>2, <1>3
<1>5. Len(Contents) = nbytes /\ Contents \in Seq(Byte)
  BY ContentsType
<1>6. Append(Contents, d) = [i \in 1 .. nbytes + 1 |->
                               IF i = nbytes + 1 THEN d ELSE Contents[i]]
  BY <1>5
<1>7. \A i \in 1 .. nbytes : Contents[i] = buf[Offset(i - 1)]
  BY DEF Contents
<1> QED BY <1>4, <1>6, <1>7

(* One rb_get returns the oldest byte and leaves the others in place. *)
LEMMA GetTakesHead ==
  ASSUME TypeOK, rb_get
  PROVE  /\ Contents # << >>
         /\ ret' = Head(Contents)
         /\ Contents' = Tail(Contents)
<1> USE SizeAssumption DEF TypeOK, Index, Offset
<1>1. nbytes > 0 /\ nbytes' = nbytes - 1 /\ buf' = buf
      /\ getoff' = (IF getoff + 1 = Size THEN 0 ELSE getoff + 1)
      /\ ret' = buf[getoff]
  BY DEF rb_get, Wrap
<1>2. Len(Contents) = nbytes /\ Contents \in Seq(Byte)
  BY ContentsType
<1>3. \A i \in 1 .. nbytes : Contents[i] = buf[Offset(i - 1)]
  BY DEF Contents
<1>4. Head(Contents) = buf[getoff]
  BY <1>1, <1>2, <1>3
<1>5. Tail(Contents) = [i \in 1 .. nbytes - 1 |-> Contents[i + 1]]
  <2>1. Contents # << >>
    BY <1>1, <1>2
  <2>2. /\ Tail(Contents) \in Seq(Byte)
        /\ Len(Tail(Contents)) = nbytes - 1
        /\ \A i \in 1 .. nbytes - 1 : Tail(Contents)[i] = Contents[i + 1]
    BY <1>1, <1>2, <2>1, HeadTailProperties
  <2>3. Tail(Contents) = [i \in 1 .. Len(Tail(Contents)) |-> Tail(Contents)[i]]
    BY <2>2
  <2> QED BY <2>2, <2>3
<1>6. ASSUME NEW i \in 1 .. nbytes - 1
      PROVE  Offset(i - 1)' = Offset(i)
  BY <1>1
<1>7. Contents' = [i \in 1 .. nbytes - 1 |-> buf[Offset(i)]]
  BY <1>1, <1>6 DEF Contents
<1>8. \A i \in 1 .. nbytes - 1 : Contents[i + 1] = buf[Offset(i)]
  BY <1>3
<1> QED BY <1>1, <1>2, <1>4, <1>5, <1>7, <1>8

(* An empty ring holds the empty sequence. *)
LEMMA EmptyContents ==
  ASSUME nbytes = 0
  PROVE  Contents = << >>
  BY DEF Contents

(* Every step of the ring is a step of the queue or leaves it alone; the   *)
(* first store of rb_reset is the Clear, its other two stutter.            *)
LEMMA StepRefines ==
  ASSUME IsrOps \subseteq {"get"}, IInv, [Next]_vars
  PROVE  [Queue!Next]_<<Contents, ret>>
<1> USE DEF IInv
<1>1. TypeOK /\ ResetInv
  OBVIOUS
<1>2. ASSUME NEW d \in Byte, rb_put(d) PROVE Queue!Put(d)
  <2>1. Len(Contents) < Size
    BY <1>1, <1>2, ContentsType DEF rb_put
  <2> QED BY <1>1, <1>2, <2>1, PutAppends DEF rb_put, Queue!Put
<1>3. ASSUME NEW d \in Byte, rb_put_full(d) PROVE Contents' = Contents /\ ret' = ret
  BY <1>3 DEF rb_put_full, vars, Contents, Offset
<1>4. CASE rb_get
  BY <1>1, <1>4, GetTakesHead DEF Queue!Next, Queue!GetOldest
<1>5. CASE rb_get_empty
  <2>1. Contents = << >> /\ Contents' = Contents
    BY <1>5, EmptyContents DEF rb_get_empty, Contents, Offset
  <2> QED BY <1>5, <2>1 DEF rb_get_empty, Queue!Next, Queue!GetNothing
<1>6. CASE ResetBytes
  <2>1. Contents' = << >>
    BY <1>6 DEF ResetBytes, Contents
  <2> QED BY <1>6, <2>1 DEF ResetBytes, Queue!Next, Queue!Clear
<1>7. CASE ResetPut \/ ResetGet
  <2>1. nbytes = 0 /\ nbytes' = 0 /\ ret' = ret
    BY <1>1, <1>7 DEF ResetPut, ResetGet, ResetInv
  <2>2. Contents = << >> /\ Contents' = << >>
    BY <2>1 DEF Contents
  <2> QED BY <2>1, <2>2
<1>8. CASE UNCHANGED vars
  BY <1>8 DEF vars, Contents, Offset
<1> QED BY <1>2, <1>3, <1>4, <1>5, <1>6, <1>7, <1>8
        DEF Next, rb_reset, Queue!Next

(* The ring implements the bounded queue: no byte is lost, duplicated or   *)
(* reordered by rb_put and rb_get, even when an interrupt handler empties  *)
(* the ring while the main loop is in the middle of rb_reset.              *)
THEOREM Refinement ==
  ASSUME IsrOps \subseteq {"get"}
  PROVE  Spec => IsAFifo
<1>1. Init => Queue!Init
  BY EmptyContents DEF Init, Queue!Init
<1>2. IInv /\ [Next]_vars => [Queue!Next]_<<Contents, ret>>
  BY StepRefines
<1> QED BY <1>1, <1>2, Invariance, PTL DEF Spec, IsAFifo, Queue!Spec

-----------------------------------------------------------------------------
(* The characters there are, of the host's lines and the router's. *)
ConCharacter == [line : Nat, end : BOOLEAN]

ConFrames == [kind : {"usb", "router", "show", "command", "report"}, out : Nat, full : BOOLEAN]

(* The calls that may be under way as long as no packet of the router      *)
(* meets characters of the host: nothing or a report, in which CDC_Task    *)
(* may run, in which a command may run; a packet that is displayed; or a   *)
(* packet that is run, with its command.                                   *)
ConOnTop(s, kind) == s # << >> /\ s[1].kind = kind

ConBase(s)      == s = << >> \/ (ConOnTop(s, "report") /\ Tail(s) = << >>)
ConUsb(s)       == ConOnTop(s, "usb") /\ ConBase(Tail(s))
ConCommand(s)   == ConOnTop(s, "command") /\ ConUsb(Tail(s))
ConShowing(s)   == ConOnTop(s, "show") /\ Tail(s) = << >>
ConRouter(s)    == ConOnTop(s, "router") /\ Tail(s) = << >>
ConRfCommand(s) == ConOnTop(s, "command") /\ ConRouter(Tail(s))

(* The characters CDC_Task has read; those of the lines that were run.     *)
ConTaken == conHost - Len(conEndpoint)
ConStart == conRan * (ConLetters + 1)

(* The characters after those lines, the last n of those read not counted. *)
ConOffset(n) == ConTaken - ConStart - n

(* cmdbuf is what came after those lines, as far as it has room, and the n *)
(* characters after it are still in the ring; the lines are at the end of  *)
(* one; or they are spoilt up to the next end of a line.                   *)
ConCollected(n) ==
  /\ conSpoilt = "no"
  /\ ConOffset(n) \in 0 .. ConLetters
  /\ Len(cmdbuf) = ConCut(ConOffset(n))
  /\ \A i \in 1 .. Len(cmdbuf) : cmdbuf[i] = conRan + 1

ConBetween(n) == conSpoilt = "no" /\ ConTaken = ConStart + n

ConHeld(n) == (conSpoilt = "line" /\ n <= ConTaken) \/ ConCollected(n)

(* The characters in the endpoint and in the ring are the host's next.     *)
ConEndpointHost ==
  \A i \in 1 .. Len(conEndpoint) : conEndpoint[i] = ConChar(ConTaken + i)

ConRxHost ==
  \A i \in 1 .. Len(conRx) : conRx[i] = ConChar((ConTaken - Len(conRx)) + i)

(* The command of the router, in cmdbuf and still in the ring.             *)
ConRxRouter ==
  /\ \A i \in 1 .. Len(cmdbuf) : cmdbuf[i] = ConRf
  /\ \A i \in 1 .. Len(conRx) : conRx[i] = [line |-> ConRf, end |-> i = Len(conRx)]
  /\ conRx # << >> => Len(cmdbuf) + Len(conRx) = ConRfLetters + 1
  /\ conRx = << >> => cmdbuf = << >>

(* What is known of the buffers in each of these places. *)
ConWaits      == ~inCDC_TASK /\ conRx = << >> /\ ConHeld(0)
ConAnalyzes   == inCDC_TASK /\ ConRxHost /\ ConHeld(Len(conRx))
ConRuns       == inCDC_TASK /\ ConRxHost /\ ConBetween(Len(conRx))
ConDisplays   == ~inCDC_TASK /\ ConCollected(0)
ConAnalyzesRf == ~inCDC_TASK /\ ConRxRouter /\ ConBetween(0)
ConRunsRf     == ~inCDC_TASK /\ conRx = << >> /\ ConBetween(0)

ConAtBase      == ConBase(conStack) /\ ConWaits
ConInUsb       == ConUsb(conStack) /\ ConAnalyzes
ConInCommand   == ConCommand(conStack) /\ ConRuns
ConInShow      == ConShowing(conStack) /\ ConDisplays
ConInRouter    == ConRouter(conStack) /\ ConAnalyzesRf
ConInRfCommand == ConRfCommand(conStack) /\ ConRunsRf

ConPlace ==
  ConAtBase \/ ConInUsb \/ ConInCommand \/ ConInShow \/ ConInRouter \/ ConInRfCommand

ConNumbers ==
  /\ conHost \in Nat /\ conRan \in Nat
  /\ conEndpoint \in Seq(ConCharacter) /\ Len(conEndpoint) <= conHost
  /\ conRx \in Seq(ConCharacter) /\ cmdbuf \in Seq(Nat)

ConTypes == ConNumbers /\ conStack \in Seq(ConFrames)

ConGood == ConTypes /\ ConEndpointHost /\ ConPlace /\ ConRunsEachLine

LEMMA ConPushes ==
  ASSUME NEW f \in ConFrames, NEW s \in Seq(ConFrames)
  PROVE  /\ <<f>> \o s \in Seq(ConFrames) /\ <<f>> \o s # << >>
         /\ (<<f>> \o s)[1] = f /\ Tail(<<f>> \o s) = s
         /\ Len(<<f>> \o s) = Len(s) + 1
<1>1. <<f>> \in Seq(ConFrames) /\ Len(<<f>>) = 1 /\ <<f>>[1] = f
  OBVIOUS
<1>2. /\ <<f>> \o s \in Seq(ConFrames)
      /\ Len(<<f>> \o s) = Len(s) + 1
      /\ \A i \in 1 .. Len(s) + 1 : (<<f>> \o s)[i] = IF i = 1 THEN f ELSE s[i - 1]
  BY <1>1, ConcatProperties, SMT
<1>3. Tail(<<f>> \o s) = s
  BY <1>1, <1>2, SMT
<1> QED BY <1>2, <1>3, SMT

LEMMA ConMonotone ==
  ASSUME NEW d \in Nat, NEW a \in Int, NEW b \in Int, a + 1 <= b
  PROVE  d * a + d <= d * b
  BY SMT

LEMMA ConDivision ==
  ASSUME NEW d \in Nat \ {0}, NEW n \in Nat
  PROVE  n \div d \in Nat /\ n = d * (n \div d) + (n % d) /\ n % d \in 0 .. d - 1
  BY SMT

LEMMA ConDivisionUnique ==
  ASSUME NEW d \in Nat \ {0}, NEW r \in Nat, NEW o \in 0 .. d - 1,
         NEW q \in Nat, NEW p \in 0 .. d - 1, d * r + o = d * q + p
  PROVE  q = r /\ p = o
<1>1. ~(q + 1 <= r)
  BY ConMonotone, SMT
<1>2. ~(r + 1 <= q)
  BY ConMonotone, SMT
<1> QED BY <1>1, <1>2, SMT

(* The character that comes after r lines and o characters. *)
LEMMA ConNextChar ==
  ASSUME ConAssumption, NEW r \in Nat, NEW o \in 0 .. ConLetters
  PROVE  /\ ConChar(r * (ConLetters + 1) + o + 1).line = r + 1
         /\ ConChar(r * (ConLetters + 1) + o + 1).end <=> o = ConLetters
<1> DEFINE d == ConLetters + 1
           n == r * d + o
<1>1. d \in Nat \ {0} /\ n \in Nat /\ n + 1 \in Nat /\ o \in 0 .. d - 1 /\ n = d * r + o
  BY SMT DEF ConAssumption
<1>2. n \div d = r
  <2> HIDE DEF d, n
  <2>1. n \div d \in Nat /\ n = d * (n \div d) + (n % d) /\ n % d \in 0 .. d - 1
    BY <1>1, ConDivision
  <2> QED BY <1>1, <2>1, ConDivisionUnique
<1>3. (n + 1) % d = 0 <=> o = ConLetters
  <2> HIDE DEF n
  <2> DEFINE q == (n + 1) \div d
             p == (n + 1) % d
  <2>1. d \in Nat \ {0} /\ q \in Nat /\ n + 1 = d * q + p /\ p \in 0 .. d - 1
    <3> HIDE DEF d
    <3> QED BY <1>1, ConDivision
  <2>2. CASE o = ConLetters
    <3>1. n + 1 = d * (r + 1) + 0 /\ 0 \in 0 .. d - 1 /\ r + 1 \in Nat
      BY <1>1, <2>2, SMT
    <3> HIDE DEF d, q, p
    <3>2. d * (r + 1) + 0 = d * q + p
      BY <2>1, <3>1
    <3>3. d \in Nat \ {0} /\ q \in Nat /\ p \in 0 .. d - 1
      BY <2>1
    <3>4. r + 1 \in Nat /\ 0 \in 0 .. d - 1
      BY <3>1
    <3>5. q = r + 1 /\ p = 0
      BY <3>2, <3>3, <3>4, ConDivisionUnique, Zenon
    <3> QED BY <2>2, <3>5 DEF p
  <2>3. CASE o # ConLetters
    <3>1. n + 1 = d * r + (o + 1) /\ o + 1 \in 0 .. d - 1 /\ o + 1 # 0
      BY <1>1, <2>3, SMT
    <3> HIDE DEF d, q, p
    <3>2. d * r + (o + 1) = d * q + p
      BY <2>1, <3>1
    <3>3. d \in Nat \ {0} /\ q \in Nat /\ p \in 0 .. d - 1
      BY <2>1
    <3>4. r \in Nat /\ o + 1 \in 0 .. d - 1
      BY <3>1
    <3>5. q = r /\ p = o + 1
      <4> DEFINE k == o + 1
      <4>1. d * r + k = d * q + p /\ k \in 0 .. d - 1
        BY <3>2, <3>4
      <4> HIDE DEF k
      <4>2. q = r /\ p = k
        BY <3>3, <3>4, <4>1, ConDivisionUnique, Zenon
      <4> QED BY <4>2 DEF k
    <3> QED BY <2>3, <3>1, <3>5 DEF p
  <2> QED BY <2>2, <2>3
<1>4. (n + 1) - 1 = n /\ 1 + r = r + 1
  BY <1>1, SMT
<1>5. ConChar(n + 1).line = 1 + ((n + 1) - 1) \div d /\ (ConChar(n + 1).end <=> (n + 1) % d = 0)
  BY DEF ConChar
<1> QED
  <2> HIDE DEF d
  <2>1. ConChar(n + 1).line = r + 1 /\ (ConChar(n + 1).end <=> o = ConLetters)
    <3> HIDE DEF n
    <3> QED BY <1>2, <1>3, <1>4, <1>5
  <2> QED BY <2>1 DEF d

LEMMA ConCharIsOne ==
  ASSUME ConAssumption, NEW i \in Nat \ {0}
  PROVE  ConChar(i) \in ConCharacter
<1>1. i - 1 \in Nat /\ ConLetters + 1 \in Nat \ {0}
  BY SMT DEF ConAssumption
<1>2. (i - 1) \div (ConLetters + 1) \in Nat
  BY <1>1, ConDivision
<1>3. 1 + (i - 1) \div (ConLetters + 1) \in Nat
  BY <1>2, SMT
<1> QED BY <1>3, Zenon DEF ConChar, ConCharacter

LEMMA ConStartNat ==
  ASSUME ConGood
  PROVE  ConStart \in Nat
<1>1. conRan \in Nat /\ ConLetters \in Nat
  BY ConAssumption DEF ConGood, ConTypes, ConNumbers, ConAssumption
<1> QED BY <1>1, SMT DEF ConStart

(* The end of a line is the last of its characters. *)
LEMMA ConLastChar ==
  ASSUME ConAssumption, NEW i \in Nat \ {0}, ConChar(i).end
  PROVE  ConChar(i).line \in Nat /\ ConChar(i).line * (ConLetters + 1) = i
<1> DEFINE d == ConLetters + 1
           q == (i - 1) \div d
           r == (i - 1) % d
           p == i \div d
<1>1. d \in Nat \ {0} /\ i - 1 \in Nat
  BY SMT DEF ConAssumption
<1>2. q \in Nat /\ i - 1 = d * q + r /\ r \in 0 .. d - 1
  <2> HIDE DEF d
  <2> QED BY <1>1, ConDivision
<1>3. i % d = 0 /\ ConChar(i).line = 1 + q
  BY DEF ConChar
<1>4. p \in Nat /\ i = d * p + 0
  <2>1. i \div d \in Nat /\ i = d * (i \div d) + (i % d)
    <3> HIDE DEF d
    <3> QED BY <1>1, ConDivision
  <2> QED BY <1>3, <2>1, SMT
<1> HIDE DEF q, r, p, d
(* d * p = d * q + (r + 1), and r + 1 is at most d. *)
<1>5. CASE r = d - 1
  <2>1. i = d * q + d
    BY <1>1, <1>2, <1>5, SMT
  <2>2. (1 + q) * d = d * q + d
    BY <1>1, <1>2, SMT
  <2> QED BY <1>2, <1>3, <2>1, <2>2 DEF d
<1>6. CASE r # d - 1
  <2> DEFINE k == r + 1
             z == 0
  <2>1. k \in 0 .. d - 1 /\ k # 0 /\ d * q + k = i
    BY <1>1, <1>2, <1>6, SMT
  <2>2. d * q + k = d * p + z /\ z \in 0 .. d - 1
    <3>1. z \in 0 .. d - 1
      BY <1>1, SMT
    <3> QED BY <1>4, <2>1, <3>1
  <2>3. k # z
    BY <2>1
  <2> HIDE DEF k, z
  <2>4. z = k
    <3>1. d \in Nat \ {0} /\ q \in Nat /\ p \in Nat /\ k \in 0 .. d - 1
      BY <1>1, <1>2, <1>4, <2>1
    <3>2. p = q /\ z = k
      BY ONLY <3>1, <2>2, ConDivisionUnique, Zenon
    <3> QED BY <3>2
  <2> QED BY <2>3, <2>4
<1> QED BY <1>5, <1>6

(* What there is room for. *)
LEMMA ConCutNat ==
  ASSUME ConAssumption, NEW n \in Nat
  PROVE  ConCut(n) \in Nat /\ ConCut(n) <= ConRoom /\ ConCut(n) <= n
         /\ (n <= ConRoom => ConCut(n) = n)
         /\ ConCut(n + 1) = IF ConCut(n) < ConRoom THEN ConCut(n) + 1 ELSE ConCut(n)
  BY SMT DEF ConAssumption, ConCut

LEMMA ConRfLettersNat ==
  ASSUME ConAssumption
  PROVE  ConRfLetters \in Nat \ {0} /\ ConHeader + ConRfLetters + 1 <= ConRoom + 1
  BY SMT DEF ConAssumption, ConCut, ConRfLetters

(* What is put into a ring is a prefix that fits. *)
LEMMA ConPutsFits ==
  ASSUME ConAssumption, NEW S, NEW a \in Seq(S), NEW b \in Seq(S)
  PROVE  /\ ConPuts(a, b) \in Seq(S)
         /\ Len(ConPuts(a, b)) = ConCut(Len(a) + Len(b))
         /\ Len(ConPuts(a, b)) <= ConRoom
         /\ \A i \in 1 .. Len(ConPuts(a, b)) : ConPuts(a, b)[i] = (a \o b)[i]
         /\ (Len(a) + Len(b) <= ConRoom => ConPuts(a, b) = a \o b)
<1> DEFINE ab == a \o b
           n == Len(a) + Len(b)
<1>1. ab \in Seq(S) /\ Len(ab) = n /\ n \in Nat
  BY ConcatProperties
<1>2. ConCut(n) \in Nat /\ ConCut(n) <= n /\ ConCut(n) <= ConRoom
      /\ (n <= ConRoom => ConCut(n) = n)
  BY <1>1, ConCutNat
<1>3. ConPuts(a, b) = SubSeq(ab, 1, ConCut(n))
  BY DEF ConPuts
<1> HIDE DEF ab, n
<1>4. \A k \in Nat : k <= n =>
        /\ SubSeq(ab, 1, k) \in Seq(S) /\ Len(SubSeq(ab, 1, k)) = k
        /\ \A i \in 1 .. k : SubSeq(ab, 1, k)[i] = ab[i]
        /\ (k = n => SubSeq(ab, 1, k) = ab)
  BY <1>1, SMT
<1>5. /\ ConPuts(a, b) \in Seq(S) /\ Len(ConPuts(a, b)) = ConCut(n)
      /\ \A i \in 1 .. ConCut(n) : ConPuts(a, b)[i] = ab[i]
      /\ (ConCut(n) = n => ConPuts(a, b) = ab)
  BY <1>2, <1>3, <1>4
<1> QED BY <1>2, <1>5 DEF ab, n

(* The stack in every state: CDC_Task with at most one command in it, in   *)
(* what the main loop was about, which may be a command of the router.     *)
ConOuter(s) ==
  \/ s = << >>
  \/ s # << >> /\ s[1].kind \in {"report", "show", "router"} /\ Tail(s) = << >>
  \/ ConRfCommand(s)
ConReading(s) == ConOnTop(s, "usb") /\ ConOuter(Tail(s))
ConWithin(s)  == ConReading(s) \/ (ConOnTop(s, "command") /\ ConReading(Tail(s)))

ConDepth ==
  /\ conStack \in Seq(ConFrames)
  /\ inCDC_TASK \in BOOLEAN
  /\ inCDC_TASK => ConWithin(conStack)
  /\ ~inCDC_TASK => ConOuter(conStack)

LEMMA ConSameDepth ==
  ASSUME NEW s, NEW t, s # << >>, t # << >>, t[1].kind = s[1].kind, Tail(t) = Tail(s)
  PROVE  /\ ConOuter(s) => ConOuter(t)
         /\ ConWithin(s) => ConWithin(t)
  BY Zenon DEF ConOuter, ConReading, ConWithin, ConOnTop, ConRfCommand, ConRouter

(* CDC_Task is entered only once. *)
LEMMA ConCallsOnce ==
  ASSUME NEW st \in Seq(ConFrames), NEW tx, CDC_Task(st, tx), inCDC_TASK \in BOOLEAN,
         inCDC_TASK => ConWithin(st), ~inCDC_TASK => ConOuter(st)
  PROVE  ConDepth'
<1>1. CASE ConReads
  <2>1. /\ ~inCDC_TASK /\ inCDC_TASK' = TRUE
        /\ conStack' = <<ConFrame("usb", 0)>> \o st
    BY <1>1, Zenon DEF CDC_Task, ConReads
  <2>2. ConFrame("usb", 0) \in ConFrames /\ ConFrame("usb", 0).kind = "usb"
    BY DEF ConFrame, ConFrames
  <2>3. /\ conStack' \in Seq(ConFrames) /\ conStack' # << >>
        /\ conStack'[1].kind = "usb" /\ Tail(conStack') = st
    BY <2>1, <2>2, ConPushes
  <2>4. ConWithin(conStack')
    BY <2>1, <2>3, Zenon DEF ConWithin, ConReading, ConOnTop
  <2> QED BY <2>1, <2>3, <2>4, Zenon DEF ConDepth
<1>2. CASE ~ConReads
  <2>1. conStack' = st /\ inCDC_TASK' = inCDC_TASK
    BY <1>2, Zenon DEF CDC_Task
  <2> QED BY <2>1, Zenon DEF ConDepth
<1> QED BY <1>1, <1>2

LEMMA ConDepthTop ==
  ASSUME ConDepth, conStack # << >>
  PROVE  /\ Tail(conStack) \in Seq(ConFrames) /\ conStack[1] \in ConFrames
         /\ conStack = <<conStack[1]>> \o Tail(conStack)
<1>1. conStack \in Seq(ConFrames)
  BY DEF ConDepth
<1> QED BY <1>1, SMT

LEMMA ConDepthDisplay ==
  ASSUME ConDepth, display_char
  PROVE  ConDepth'
<1>1. conStack # << >> /\ ConTop = conStack[1] /\ ConTop.out > 0
  BY Zenon DEF display_char, ConTop
<1>2. ConTop \in ConFrames /\ ConBelow \in Seq(ConFrames)
  BY <1>1, ConDepthTop DEF ConTop, ConBelow
<1>3. ASSUME NEW f \in ConFrames, f.kind = ConTop.kind, NEW st, st = <<f>> \o ConBelow
      PROVE  /\ st \in Seq(ConFrames)
             /\ inCDC_TASK => ConWithin(st)
             /\ ~inCDC_TASK => ConOuter(st)
  <2>1. st \in Seq(ConFrames) /\ st # << >> /\ st[1] = f /\ Tail(st) = ConBelow
    BY <1>2, <1>3, ConPushes
  <2>2. ConOuter(conStack) => ConOuter(st)
    BY <1>1, <1>3, <2>1, ConSameDepth DEF ConBelow
  <2>3. ConWithin(conStack) => ConWithin(st)
    BY <1>1, <1>3, <2>1, ConSameDepth DEF ConBelow
  <2> QED BY <2>1, <2>2, <2>3, Zenon DEF ConDepth
<1>4. inCDC_TASK \in BOOLEAN
  BY DEF ConDepth
<1>5. CASE ConFull
  <2> DEFINE f  == [ConTop EXCEPT !.full = TRUE]
             st == <<f>> \o ConBelow
  <2>1. CDC_Task(st, conTx)
    BY <1>5, Zenon DEF display_char
  <2>2. f \in ConFrames /\ f.kind = ConTop.kind
    BY <1>2 DEF ConFrames
  <2> HIDE DEF f
  <2>3. /\ st \in Seq(ConFrames)
        /\ inCDC_TASK => ConWithin(st)
        /\ ~inCDC_TASK => ConOuter(st)
    BY <1>3, <2>2
  <2> HIDE DEF st
  <2> QED BY <1>4, <2>1, <2>3, ConCallsOnce
<1>6. CASE ~ConFull
  <2> DEFINE f  == ConFrame(ConTop.kind, ConTop.out - 1)
             st == <<f>> \o ConBelow
  <2>1. \/ CDC_Task(st, ConPut)
        \/ conStack' = st /\ UNCHANGED inCDC_TASK
    BY <1>6, Zenon DEF display_char
  <2>2. f \in ConFrames /\ f.kind = ConTop.kind
    BY <1>1, <1>2 DEF ConFrames, ConFrame
  <2> HIDE DEF f
  <2>3. /\ st \in Seq(ConFrames)
        /\ inCDC_TASK => ConWithin(st)
        /\ ~inCDC_TASK => ConOuter(st)
    BY <1>3, <2>2
  <2> HIDE DEF st
  <2>4. CASE CDC_Task(st, ConPut)
    BY <1>4, <2>3, <2>4, ConCallsOnce
  <2>5. CASE conStack' = st /\ UNCHANGED inCDC_TASK
    BY <1>4, <2>3, <2>5, Zenon DEF ConDepth
  <2> QED BY <2>1, <2>4, <2>5
<1> QED BY <1>5, <1>6

LEMMA ConDepthPush ==
  ASSUME ConDepth, conStack # << >>, conStack[1].kind \in {"usb", "router"},
         NEW f \in ConFrames, f.kind = "command", conStack' = <<f>> \o conStack,
         UNCHANGED inCDC_TASK
  PROVE  ConDepth'
<1>1. /\ conStack' \in Seq(ConFrames) /\ conStack' # << >>
      /\ conStack'[1] = f /\ Tail(conStack') = conStack
  BY ConPushes DEF ConDepth
<1>2. CASE inCDC_TASK
  <2>1. ConReading(conStack)
    BY <1>2, Zenon DEF ConDepth, ConWithin, ConOnTop
  <2> QED BY <1>1, <1>2, <2>1, Zenon DEF ConDepth, ConWithin, ConOnTop
<1>3. CASE ~inCDC_TASK
  <2>1. ConRouter(conStack)
    BY <1>3, Zenon DEF ConDepth, ConOuter, ConRouter, ConRfCommand, ConOnTop
  <2> QED BY <1>1, <1>3, <2>1, Zenon DEF ConDepth, ConOuter, ConRfCommand, ConOnTop
<1> QED BY <1>2, <1>3

LEMMA ConDepthPop ==
  ASSUME ConDepth, conStack # << >>, conStack' = Tail(conStack),
         inCDC_TASK' = (conStack[1].kind # "usb" /\ inCDC_TASK)
  PROVE  ConDepth'
<1>1. conStack' \in Seq(ConFrames)
  BY ConDepthTop
<1>2. CASE inCDC_TASK /\ conStack[1].kind = "usb"
  <2>1. ConOuter(conStack') /\ ~inCDC_TASK'
    BY <1>2, Zenon DEF ConDepth, ConWithin, ConReading, ConOnTop
  <2>2. inCDC_TASK' = FALSE
    BY <1>2, Zenon
  <2> QED BY <1>1, <2>1, <2>2, Zenon DEF ConDepth
<1>3. CASE inCDC_TASK /\ conStack[1].kind # "usb"
  <2>1. ConReading(conStack') /\ inCDC_TASK' = TRUE
    BY <1>3, Zenon DEF ConDepth, ConWithin, ConReading, ConOnTop
  <2> QED BY <1>1, <2>1, Zenon DEF ConDepth, ConWithin
<1>4. CASE ~inCDC_TASK
  <2>1. inCDC_TASK' = FALSE
    BY <1>4, Zenon DEF ConDepth
  <2>2. ConOuter(conStack')
    <3>1. ConOuter(conStack)
      BY <1>4, Zenon DEF ConDepth
    <3>2. CASE Tail(conStack) = << >>
      BY <3>2, Zenon DEF ConOuter
    <3>3. CASE ConRfCommand(conStack)
      BY <3>3, Zenon DEF ConRfCommand, ConRouter, ConOnTop, ConOuter
    <3> QED BY <3>1, <3>2, <3>3, Zenon DEF ConOuter
  <2> QED BY <1>1, <2>1, <2>2, Zenon DEF ConDepth
<1> QED BY <1>2, <1>3, <1>4, Zenon DEF ConDepth

LEMMA ConDepthOne ==
  ASSUME ConDepth, UNCHANGED inCDC_TASK, NEW f \in ConFrames,
         f.kind \in {"report", "show", "router"}, NEW t \in Seq(ConFrames), t = << >>,
         conStack' = <<f>> \o t, ~inCDC_TASK
  PROVE  ConDepth'
<1>1. /\ conStack' \in Seq(ConFrames) /\ conStack' # << >>
      /\ conStack'[1] = f /\ Tail(conStack') = << >>
  BY ConPushes
<1> QED BY <1>1, Zenon DEF ConDepth, ConOuter

LEMMA ConDepthKept == ConDepth /\ [ConNext]_conVars => ConDepth'
<1> SUFFICES ASSUME ConDepth, [ConNext]_conVars PROVE ConDepth'
  OBVIOUS
<1>1. CASE ConHostSends \/ UNCHANGED conVars
  <2>1. UNCHANGED <<conStack, inCDC_TASK>>
    BY <1>1, Zenon DEF ConHostSends, conVars
  <2> QED BY <2>1, Zenon DEF ConDepth
<1>2. CASE ConMainLoop
  <2>1. conStack = << >> /\ CDC_Task(<< >>, conTx)
    BY <1>2 DEF ConMainLoop
  <2>2. << >> \in Seq(ConFrames)
    OBVIOUS
  <2> QED BY <2>1, <2>2, ConCallsOnce, Zenon DEF ConDepth
<1>3. CASE ConTelegram \/ rf_router_task
  <2>1. conStack = << >> /\ UNCHANGED inCDC_TASK
    BY <1>3, Zenon DEF ConTelegram, rf_router_task
  <2>2. PICK kind \in {"report", "show", "router"}, n \in Nat :
          conStack' = <<ConFrame(kind, n)>>
    <3>1. ConReport \in Nat /\ 0 \in Nat
      BY ConAssumption DEF ConAssumption
    <3> QED BY <1>3, <3>1, Zenon DEF ConTelegram, rf_router_task
  <2>3. ConFrame(kind, n) \in ConFrames /\ ConFrame(kind, n).kind = kind
    BY DEF ConFrame, ConFrames
  <2>4. ~inCDC_TASK
    BY <2>1, Zenon DEF ConDepth, ConWithin, ConReading, ConOnTop
  <2>5. << >> \in Seq(ConFrames) /\ conStack' = <<ConFrame(kind, n)>> \o << >>
    <3> DEFINE f == ConFrame(kind, n)
    <3>1. <<f>> = <<f>> \o << >>
      <4> HIDE DEF f
      <4> QED BY SMT
    <3> QED BY <2>2, <3>1
  <2> QED BY <2>1, <2>3, <2>4, <2>5, ConDepthOne
<1>4. CASE analyze_ttydata
  <2>1. conStack # << >> /\ conStack[1].kind \in {"usb", "router"}
    BY <1>4 DEF analyze_ttydata, ConTop
  <2>2. CASE conRx # << >>
    <3>1. UNCHANGED inCDC_TASK
      BY <1>4, <2>2, Zenon DEF analyze_ttydata
    <3>2. \/ UNCHANGED conStack
          \/ \E n \in ConOutput : conStack' = <<ConFrame("command", n)>> \o conStack
      BY <1>4, <2>2, Zenon DEF analyze_ttydata, ConGets, ConEnds
    <3>3. ASSUME NEW n \in ConOutput, conStack' = <<ConFrame("command", n)>> \o conStack
          PROVE  ConDepth'
      <4>1. ConFrame("command", n) \in ConFrames /\ ConFrame("command", n).kind = "command"
        BY ConAssumption DEF ConAssumption, ConFrame, ConFrames
      <4> QED BY <2>1, <3>1, <3>3, <4>1, ConDepthPush
    <3>4. CASE UNCHANGED conStack
      BY <3>1, <3>4, Zenon DEF ConDepth
    <3> QED BY <3>2, <3>3, <3>4
  <2>3. CASE conRx = << >>
    <3>1. conStack' = Tail(conStack) /\ inCDC_TASK' = (conStack[1].kind # "usb" /\ inCDC_TASK)
      BY <1>4, <2>3, Zenon DEF analyze_ttydata, ConBelow, ConLeavesCDC, ConTop
    <3> QED BY <2>1, <3>1, ConDepthPop
  <2> QED BY <2>2, <2>3
<1>5. CASE ConReturn
  <2>1. /\ conStack # << >> /\ conStack[1].kind \in {"command", "report"}
        /\ conStack' = Tail(conStack) /\ UNCHANGED inCDC_TASK
    BY <1>5 DEF ConReturn, ConTop, ConBelow
  <2>2. inCDC_TASK' = (conStack[1].kind # "usb" /\ inCDC_TASK)
    <3>1. conStack[1].kind # "usb"
      BY <2>1
    <3> QED BY <2>1, <3>1, Zenon DEF ConDepth
  <2> QED BY <2>1, <2>2, ConDepthPop
<1>6. CASE display_char
  BY <1>6, ConDepthDisplay
<1>7. CASE ConShow
  <2>1. /\ conStack # << >> /\ conStack[1].kind = "show" /\ UNCHANGED inCDC_TASK
        /\ conStack' \in {<<ConFrame("show", 1)>> \o Tail(conStack),
                          <<ConFrame("report", 1)>> \o Tail(conStack)}
    BY <1>7, Zenon DEF ConShow, ConTop, ConBelow
  <2>2. ~inCDC_TASK
    BY <2>1, Zenon DEF ConDepth, ConWithin, ConReading, ConOnTop
  <2>3. Tail(conStack) = << >>
    BY <2>1, <2>2, Zenon DEF ConDepth, ConOuter, ConRfCommand, ConOnTop
  <2>4. /\ ConFrame("show", 1) \in ConFrames /\ ConFrame("show", 1).kind = "show"
        /\ ConFrame("report", 1) \in ConFrames /\ ConFrame("report", 1).kind = "report"
    BY DEF ConFrame, ConFrames
  <2>5. Tail(conStack) \in Seq(ConFrames)
    BY <2>1, ConDepthTop
  <2> QED BY <2>1, <2>2, <2>3, <2>4, <2>5, ConDepthOne, Zenon
<1> QED BY <1>1, <1>2, <1>3, <1>4, <1>5, <1>6, <1>7, Zenon DEF ConNext, ConProcess

LEMMA ConDepthBounded ==
  ASSUME ConDepth
  PROVE  Len(conStack) <= 4
<1>1. conStack \in Seq(ConFrames)
  BY DEF ConDepth
<1>2. ASSUME NEW s \in Seq(ConFrames), s # << >>
      PROVE  Tail(s) \in Seq(ConFrames) /\ Len(s) = Len(Tail(s)) + 1 /\ Len(Tail(s)) \in Nat
  BY <1>2, SMT
<1>3. ASSUME NEW s \in Seq(ConFrames), ConOuter(s)
      PROVE  Len(s) <= 2
  <2>1. CASE s = << >>
    BY <2>1
  <2>2. CASE s # << >> /\ Tail(s) = << >>
    <3>1. Len(s) = Len(Tail(s)) + 1 /\ Len(Tail(s)) = 0
      BY <1>2, <2>2
    <3> QED BY <3>1
  <2>3. CASE s # << >> /\ Tail(s) # << >> /\ Tail(Tail(s)) = << >>
    <3> DEFINE t == Tail(s)
    <3>1. t \in Seq(ConFrames) /\ t # << >> /\ Len(s) = Len(t) + 1
      BY <1>2, <2>3
    <3>2. Tail(t) = << >>
      BY <2>3
    <3> HIDE DEF t
    <3>3. Len(t) = Len(Tail(t)) + 1 /\ Len(Tail(t)) = 0
      BY <1>2, <3>1, <3>2
    <3>4. Len(t) = 1
      BY <3>3
    <3> QED BY <3>1, <3>4
  <2>4. \/ s = << >>
        \/ s # << >> /\ Tail(s) = << >>
        \/ s # << >> /\ Tail(s) # << >> /\ Tail(Tail(s)) = << >>
    BY <1>3, Zenon DEF ConOuter, ConRfCommand, ConRouter, ConOnTop
  <2> QED BY <2>1, <2>2, <2>3, <2>4
<1>4. ASSUME NEW s \in Seq(ConFrames), ConReading(s)
      PROVE  Len(s) <= 3
  <2>1. s # << >> /\ ConOuter(Tail(s))
    BY <1>4, Zenon DEF ConReading, ConOnTop
  <2> DEFINE t == Tail(s)
  <2>2. t \in Seq(ConFrames) /\ Len(s) = Len(t) + 1 /\ Len(t) \in Nat /\ ConOuter(t)
    BY <1>2, <2>1
  <2> HIDE DEF t
  <2>3. Len(t) <= 2
    BY <1>3, <2>2
  <2> QED BY <2>2, <2>3
<1>5. CASE ConOuter(conStack) \/ ConReading(conStack)
  <2>1. Len(conStack) \in Nat
    BY <1>1
  <2> QED BY <1>1, <1>3, <1>4, <1>5, <2>1
<1>6. CASE ConOnTop(conStack, "command") /\ ConReading(Tail(conStack))
  <2>1. conStack # << >>
    BY <1>6 DEF ConOnTop
  <2> DEFINE t == Tail(conStack)
  <2>2. /\ t \in Seq(ConFrames) /\ Len(conStack) = Len(t) + 1 /\ Len(t) \in Nat
        /\ ConReading(t)
    BY <1>1, <1>2, <1>6, <2>1
  <2> HIDE DEF t
  <2>3. Len(t) <= 3
    BY <1>4, <2>2
  <2> QED BY <2>2, <2>3
<1> QED BY <1>5, <1>6, Zenon DEF ConDepth, ConWithin

(* The characters and the counts. *)
ConLetter == [line : 0 .. ConLines + 1, end : BOOLEAN]
ConCounts ==
  /\ conHost \in 0 .. ConLines * (ConLetters + 1)
  /\ conEndpoint \in Seq(ConLetter) /\ conRx \in Seq(ConLetter) /\ cmdbuf \in Seq(Nat)
  /\ Len(conEndpoint) <= conHost
  /\ Len(conRx) <= ConRoom /\ Len(cmdbuf) <= ConRoom
  /\ conTx \in 0 .. ConRoom /\ conRf \in 0 .. ConPackets /\ conRan \in Nat

LEMMA ConCharBounded ==
  ASSUME NEW i \in 1 .. ConLines * (ConLetters + 1)
  PROVE  ConChar(i) \in ConLetter
<1> DEFINE d == ConLetters + 1
           q == (i - 1) \div d
<1>1. ConLines \in Nat /\ ConLetters \in Nat
  BY ConAssumption DEF ConAssumption
<1>2. d \in Nat \ {0} /\ i - 1 \in Nat /\ i - 1 < ConLines * d
  <2>1. d \in Nat \ {0} /\ ConLines * d \in Nat
    BY <1>1, SMT
  <2> HIDE DEF d
  <2>2. i \in 1 .. ConLines * d
    BY DEF d
  <2> QED BY <2>1, <2>2, SMT
<1>3. q \in Nat /\ i - 1 = d * q + ((i - 1) % d) /\ (i - 1) % d \in 0 .. d - 1
  <2> HIDE DEF d
  <2> QED BY <1>2, ConDivision
<1>4. q < ConLines
  <2> SUFFICES ASSUME ~(q < ConLines) PROVE FALSE
    OBVIOUS
  <2> HIDE DEF d, q
  <2>1. (ConLines - 1) + 1 <= q /\ ConLines - 1 \in Int /\ d \in Nat /\ q \in Int
    BY <1>1, <1>2, <1>3, SMT
  <2> DEFINE r == (i - 1) % d
             l == ConLines - 1
  <2>2. d * l + d <= d * q
    <3> HIDE DEF l
    <3>1. l + 1 <= q /\ l \in Int
      BY <2>1 DEF l
    <3> QED BY <2>1, <3>1, ConMonotone
  <2>3. d * l + d = ConLines * d
    BY <1>1, <1>2, SMT
  <2>4. i - 1 = d * q + r /\ r \in 0 .. d - 1
    BY <1>3
  <2>5. d * q \in Int /\ d * l + d \in Int
    BY <1>1, <2>1, SMT
  <2> DEFINE a == d * q
             b == d * l + d
  <2> HIDE DEF r, l, a, b
  <2>6. b <= a /\ i - 1 = a + r
    BY <2>2, <2>4, Zenon DEF a, b
  <2>7. i - 1 < b
    BY <1>2, <2>3 DEF b
  <2>8. a \in Int /\ b \in Int /\ r \in Nat
    <3>1. r \in 0 .. d - 1 /\ d \in Nat
      BY <1>2, <2>4
    <3> QED BY <2>5, <3>1 DEF a, b
  <2>9. i - 1 \in Int
    BY <1>2
  <2> DEFINE j == i - 1
  <2>10. j \in Int /\ j < b /\ j = a + r
    BY <2>6, <2>7, <2>9
  <2> HIDE DEF j
  <2> QED BY <2>6, <2>8, <2>10
<1>5. 1 + q \in 0 .. ConLines + 1
  <2> HIDE DEF q
  <2> QED BY <1>1, <1>3, <1>4, SMT
<1>6. ConChar(i) = [line |-> 1 + q, end |-> i % d = 0]
  BY Zenon DEF ConChar
<1>7. (i % d = 0) \in BOOLEAN
  BY Zenon
<1> HIDE DEF d, q
<1> QED BY <1>5, <1>6, <1>7 DEF ConLetter

LEMMA ConPutBounded ==
  ASSUME conTx \in 0 .. ConRoom
  PROVE  ConPut \in 0 .. ConRoom
<1>1. ConRoom \in Nat
  BY ConAssumption DEF ConAssumption
<1> QED BY <1>1 DEF ConPut

(* What CDC_Task may change of them. *)
LEMMA ConCallCounts ==
  ASSUME ConCounts, NEW st, NEW tx \in 0 .. ConRoom, CDC_Task(st, tx),
         UNCHANGED <<conHost, cmdbuf, conRf, conRan>>
  PROVE  ConCounts'
<1>1. conTx' \in {tx, 0}
  BY Zenon DEF CDC_Task
<1>2. conTx' \in 0 .. ConRoom
  BY <1>1, ConAssumption DEF ConAssumption
<1>3. /\ conRx' \in {conRx, ConPuts(conRx, conEndpoint)}
      /\ conEndpoint' \in {conEndpoint, << >>}
  BY Zenon DEF CDC_Task
<1>4. conRx' \in Seq(ConLetter) /\ Len(conRx') <= ConRoom
  <2>1. /\ conRx \in Seq(ConLetter) /\ Len(conRx) <= ConRoom
        /\ conEndpoint \in Seq(ConLetter)
    BY DEF ConCounts
  <2>2. /\ ConPuts(conRx, conEndpoint) \in Seq(ConLetter)
        /\ Len(ConPuts(conRx, conEndpoint)) <= ConRoom
    BY <2>1, ConAssumption, ConPutsFits
  <2> QED BY <1>3, <2>1, <2>2
<1>5. conEndpoint' \in Seq(ConLetter) /\ Len(conEndpoint') <= conHost'
  <2>1. << >> \in Seq(ConLetter) /\ Len(<< >>) = 0
    OBVIOUS
  <2>2. conHost >= 0 /\ conHost' = conHost
    BY ConAssumption, SMT DEF ConCounts
  <2> QED BY <1>3, <2>1, <2>2 DEF ConCounts
<1> QED BY <1>2, <1>4, <1>5, Zenon DEF ConCounts

LEMMA ConCountsKept == ConCounts /\ [ConNext]_conVars => ConCounts'
<1> SUFFICES ASSUME ConCounts, [ConNext]_conVars PROVE ConCounts'
  OBVIOUS
<1>1. conTx \in 0 .. ConRoom /\ 0 \in 0 .. ConRoom /\ ConRoom \in Nat
  BY ConAssumption DEF ConAssumption, ConCounts
<1>2. CASE ConHostSends
  <2>1. PICK n \in 1 .. ConBank :
          /\ conHost + n <= ConLines * (ConLetters + 1)
          /\ conHost' = conHost + n
          /\ conEndpoint' = [i \in 1 .. n |-> ConChar(conHost + i)]
    BY <1>2 DEF ConHostSends
  <2>2. UNCHANGED <<conRx, conTx, cmdbuf, conRf, conRan>>
    BY <1>2, Zenon DEF ConHostSends
  <2> DEFINE all == ConLines * (ConLetters + 1)
  <2>3. all \in Nat
    <3>1. ConLines \in Nat /\ ConLetters + 1 \in Nat
      BY ConAssumption DEF ConAssumption
    <3> QED BY <3>1, SMT
  <2>4. conHost \in 0 .. all /\ conHost + n <= all
    BY <2>1 DEF ConCounts
  <2>5. n \in Nat
    BY ConAssumption DEF ConAssumption
  <2>6. ASSUME NEW i \in 1 .. n PROVE ConChar(conHost + i) \in ConLetter
    <3>1. conHost + i \in 1 .. all
      <4> HIDE DEF all
      <4> QED BY <2>3, <2>4, <2>5, SMT
    <3> QED BY <3>1, ConCharBounded
  <2>7. conEndpoint' \in Seq(ConLetter) /\ Len(conEndpoint') <= conHost'
    <3> DEFINE c(i) == ConChar(conHost + i)
    <3>1. \A i \in 1 .. n : c(i) \in ConLetter
      BY <2>6
    <3>2. conEndpoint' = [i \in 1 .. n |-> c(i)]
      BY <2>1
    <3> HIDE DEF c
    <3>3. conEndpoint' \in Seq(ConLetter) /\ Len(conEndpoint') = n
      BY <2>5, <3>1, <3>2, SMT
    <3> QED BY <2>1, <2>4, <2>5, <3>3, SMT
  <2>8. conHost' \in 0 .. all
    <3> HIDE DEF all
    <3> QED BY <2>1, <2>3, <2>4, <2>5, SMT
  <2> QED BY <2>2, <2>7, <2>8, Zenon DEF ConCounts
<1>3. CASE ConMainLoop
  BY <1>1, <1>3, ConCallCounts DEF ConMainLoop
<1>4. CASE ConTelegram \/ ConReturn \/ UNCHANGED conVars
  <2>1. /\ UNCHANGED <<conHost, conEndpoint, conRx, conTx, conRf, conRan>>
        /\ cmdbuf' \in {cmdbuf, << >>}
    BY <1>4, Zenon DEF ConTelegram, ConReturn, conVars
  <2>2. << >> \in Seq(Nat) /\ Len(<< >>) = 0 /\ 0 <= ConRoom
    BY <1>1
  <2>3. cmdbuf' \in Seq(Nat) /\ Len(cmdbuf') <= ConRoom
    BY <2>1, <2>2 DEF ConCounts
  <2> QED BY <2>1, <2>3, Zenon DEF ConCounts
<1>5. CASE rf_router_task
  <2>1. /\ UNCHANGED <<conHost, conEndpoint, conTx, cmdbuf, conRan>>
        /\ conRf < ConPackets /\ conRf' = conRf + 1
    BY <1>5, Zenon DEF rf_router_task
  <2>2. conRf' \in 0 .. ConPackets
    BY <2>1, ConAssumption DEF ConAssumption, ConCounts
  <2>3. conRx' \in Seq(ConLetter) /\ Len(conRx') <= ConRoom
    <3> DEFINE c    == [line |-> ConRf, end |-> FALSE]
               last == [line |-> ConRf, end |-> TRUE]
               held == ConPuts(<< >>, ConPacket)
               rest == SubSeq(held, ConHeader + 1, Len(held))
    <3>1. conRx' \in {held, ConPuts(rest, <<last>>)}
      BY <1>5, Zenon DEF rf_router_task
    <3>2. c \in ConLetter /\ last \in ConLetter
      BY ConAssumption DEF ConAssumption, ConLetter, ConRf
    <3>3. ConHeader + ConLetters \in Nat /\ ConHeader \in Nat
      BY ConAssumption DEF ConAssumption
    <3>4. ConPacket \in Seq(ConLetter)
      <4>1. ConPacket = [i \in 1 .. ConHeader + ConLetters |-> c]
        BY DEF ConPacket
      <4> HIDE DEF c
      <4> QED BY <3>2, <3>3, <4>1, SMT
    <3>5. << >> \in Seq(ConLetter)
      OBVIOUS
    <3>6. held \in Seq(ConLetter) /\ Len(held) <= ConRoom
      BY <3>4, <3>5, ConAssumption, ConPutsFits
    <3> HIDE DEF c, last, held
    <3>7. rest \in Seq(ConLetter) /\ <<last>> \in Seq(ConLetter)
      BY <3>2, <3>3, <3>6, SMT
    <3> HIDE DEF rest
    <3>8. /\ ConPuts(rest, <<last>>) \in Seq(ConLetter)
          /\ Len(ConPuts(rest, <<last>>)) <= ConRoom
      BY <3>7, ConAssumption, ConPutsFits
    <3> QED BY <3>1, <3>6, <3>8
  <2> QED BY <2>1, <2>2, <2>3, Zenon DEF ConCounts
<1>6. CASE analyze_ttydata
  <2>1. UNCHANGED <<conHost, conEndpoint, conRf>>
    BY <1>6, Zenon DEF analyze_ttydata
  <2>2. CASE conRx = << >>
    <3>1. UNCHANGED <<conRx, cmdbuf, conRan>> /\ conTx' \in {conTx} \union {0}
      BY <1>6, <2>2, Zenon DEF analyze_ttydata
    <3> QED BY <1>1, <2>1, <3>1, Zenon DEF ConCounts
  <2>3. CASE conRx # << >>
    <3>1. ConGets /\ UNCHANGED conTx
      BY <1>6, <2>3, Zenon DEF analyze_ttydata
    <3>2. /\ conRx' = Tail(conRx) /\ Tail(conRx) \in Seq(ConLetter)
          /\ Head(conRx) \in ConLetter /\ Len(conRx') <= ConRoom
      <4>1. conRx' = Tail(conRx) /\ conRx \in Seq(ConLetter) /\ Len(conRx) <= ConRoom
        BY <3>1, Zenon DEF ConGets, ConCounts
      <4>2. /\ Tail(conRx) \in Seq(ConLetter) /\ Head(conRx) \in ConLetter
            /\ Len(Tail(conRx)) = Len(conRx) - 1 /\ Len(conRx) \in Nat
        BY <2>3, <4>1, SMT
      <4> QED BY <1>1, <4>1, <4>2, SMT
    <3>3. conRan' \in Nat
      <4>1. conRan' \in {conRan, conRan + 1, conRan + 0, Head(conRx).line}
        BY <3>1, Zenon DEF ConGets, ConEnds, ConHasRun
      <4>2. Head(conRx).line \in Nat
        BY <3>2, ConAssumption DEF ConAssumption, ConLetter
      <4> QED BY <4>1, <4>2 DEF ConCounts
    <3>4. cmdbuf' \in Seq(Nat) /\ Len(cmdbuf') <= ConRoom
      <4>1. \/ cmdbuf' = cmdbuf
            \/ Len(cmdbuf) < ConRoom /\ cmdbuf' = Append(cmdbuf, Head(conRx).line)
        BY <3>1, Zenon DEF ConGets, ConEnds, ConCollects
      <4>2. Head(conRx).line \in Nat
        BY <3>2, ConAssumption DEF ConAssumption, ConLetter
      <4> DEFINE l == Head(conRx).line
      <4>3. cmdbuf \in Seq(Nat) /\ l \in Nat /\ Len(cmdbuf) <= ConRoom /\ ConRoom \in Nat
        BY <1>1, <4>2, ConAssumption DEF ConCounts, ConAssumption
      <4> HIDE DEF l
      <4>4. /\ Append(cmdbuf, l) \in Seq(Nat)
            /\ Len(cmdbuf) < ConRoom => Len(Append(cmdbuf, l)) <= ConRoom
        BY <4>3, SMT
      <4> QED BY <4>1, <4>3, <4>4 DEF l
    <3>5. conRx' \in Seq(ConLetter)
      BY <3>2
    <3> QED BY <2>1, <3>1, <3>2, <3>3, <3>4, <3>5, Zenon DEF ConCounts
  <2> QED BY <2>2, <2>3
<1>7. CASE display_char
  <2>1. UNCHANGED <<conHost, cmdbuf, conRf, conRan>>
    BY <1>7, Zenon DEF display_char
  <2>2. \/ \E st : CDC_Task(st, conTx) \/ CDC_Task(st, ConPut)
        \/ conTx' = ConPut /\ UNCHANGED <<conRx, conEndpoint>>
    BY <1>7, Zenon DEF display_char
  <2>3. ConPut \in 0 .. ConRoom
    BY <1>1, ConPutBounded
  <2>4. CASE \E st : CDC_Task(st, conTx) \/ CDC_Task(st, ConPut)
    BY <1>1, <2>1, <2>3, <2>4, ConCallCounts
  <2>5. CASE conTx' = ConPut /\ UNCHANGED <<conRx, conEndpoint>>
    BY <2>1, <2>3, <2>5, Zenon DEF ConCounts
  <2> QED BY <2>2, <2>4, <2>5
<1>8. CASE ConShow
  <2>1. UNCHANGED <<conHost, conEndpoint, conTx, cmdbuf, conRf, conRan>>
    BY <1>8, Zenon DEF ConShow
  <2>2. conRx' = conRx \/ (conRx # << >> /\ conRx' = Tail(conRx))
    BY <1>8, Zenon DEF ConShow
  <2>3. conRx' \in Seq(ConLetter) /\ Len(conRx') <= ConRoom
    <3>1. conRx \in Seq(ConLetter) /\ Len(conRx) <= ConRoom
      BY DEF ConCounts
    <3>2. conRx # << >> => /\ Tail(conRx) \in Seq(ConLetter)
                           /\ Len(Tail(conRx)) = Len(conRx) - 1 /\ Len(conRx) \in Nat
      BY <3>1, SMT
    <3>3. conRx # << >> => Len(Tail(conRx)) <= ConRoom
      BY <1>1, <3>1, <3>2, SMT
    <3> QED BY <2>2, <3>1, <3>2, <3>3
  <2> QED BY <2>1, <2>3, Zenon DEF ConCounts
<1> QED
  BY <1>2, <1>3, <1>4, <1>5, <1>6, <1>7, <1>8, Zenon DEF ConNext, ConProcess

(* A place depends on the kinds of the frames only. *)
LEMMA ConSamePlaces ==
  ASSUME NEW s, NEW t, s # << >>, t # << >>, t[1].kind = s[1].kind, Tail(t) = Tail(s)
  PROVE  /\ ConBase(s) <=> ConBase(t)
         /\ ConUsb(s) <=> ConUsb(t)
         /\ ConCommand(s) <=> ConCommand(t)
         /\ ConShowing(s) <=> ConShowing(t)
         /\ ConRouter(s) <=> ConRouter(t)
         /\ ConRfCommand(s) <=> ConRfCommand(t)
  BY Zenon DEF ConOnTop, ConBase, ConUsb, ConCommand, ConShowing, ConRouter, ConRfCommand

ConKept ==
  UNCHANGED <<conHost, conEndpoint, conRx, cmdbuf, inCDC_TASK, conRan, conLine,
              conSpoilt>>

LEMMA ConKeeps ==
  ASSUME ConKept
  PROVE  /\ ConWaits' <=> ConWaits
         /\ ConAnalyzes' <=> ConAnalyzes
         /\ ConRuns' <=> ConRuns
         /\ ConDisplays' <=> ConDisplays
         /\ ConAnalyzesRf' <=> ConAnalyzesRf
         /\ ConRunsRf' <=> ConRunsRf
         /\ ConNumbers' <=> ConNumbers
         /\ ConEndpointHost' <=> ConEndpointHost
         /\ ConRunsEachLine' <=> ConRunsEachLine
<1>1. ConTaken' = ConTaken /\ ConStart' = ConStart /\ conRx' = conRx /\ cmdbuf' = cmdbuf
      /\ conRan' = conRan /\ conHost' = conHost /\ conEndpoint' = conEndpoint
      /\ inCDC_TASK' = inCDC_TASK /\ conLine' = conLine /\ conSpoilt' = conSpoilt
  BY Zenon DEF ConKept, ConTaken, ConStart
<1>2. /\ ConCollected(0)' <=> ConCollected(0)
      /\ ConHeld(0)' <=> ConHeld(0)
      /\ ConHeld(Len(conRx))' <=> ConHeld(Len(conRx))
      /\ ConBetween(0)' <=> ConBetween(0)
      /\ ConBetween(Len(conRx))' <=> ConBetween(Len(conRx))
      /\ ConRxHost' <=> ConRxHost
      /\ ConRxRouter' <=> ConRxRouter
  BY <1>1 DEF ConHeld, ConCollected, ConOffset, ConBetween, ConRxHost, ConRxRouter
<1>3. /\ ConNumbers' <=> ConNumbers
      /\ ConEndpointHost' <=> ConEndpointHost
      /\ ConRunsEachLine' <=> ConRunsEachLine
  BY <1>1 DEF ConNumbers, ConEndpointHost, ConRunsEachLine
<1> QED
  BY <1>1, <1>2, <1>3, Zenon
     DEF ConWaits, ConAnalyzes, ConRuns, ConDisplays, ConAnalyzesRf, ConRunsRf

(* The frame on top is replaced by one of the same kind (display_char). *)
LEMMA ConTopReplaced ==
  ASSUME ConGood, ConKept, conStack # << >>, NEW f \in ConFrames,
         f.kind = conStack[1].kind, conStack' = <<f>> \o Tail(conStack)
  PROVE  ConGood'
<1>1. Tail(conStack) \in Seq(ConFrames)
  BY SMT DEF ConGood, ConTypes
<1>2. /\ conStack' \in Seq(ConFrames) /\ conStack' # << >>
      /\ conStack'[1] = f /\ Tail(conStack') = Tail(conStack)
  BY <1>1, ConPushes
<1>3. /\ ConBase(conStack) <=> ConBase(conStack')
      /\ ConUsb(conStack) <=> ConUsb(conStack')
      /\ ConCommand(conStack) <=> ConCommand(conStack')
      /\ ConShowing(conStack) <=> ConShowing(conStack')
      /\ ConRouter(conStack) <=> ConRouter(conStack')
      /\ ConRfCommand(conStack) <=> ConRfCommand(conStack')
  <2>1. conStack'[1].kind = conStack[1].kind
    BY <1>2
  <2> QED BY <1>2, <2>1, ConSamePlaces
<1>4. ConPlace'
  BY <1>3, ConKeeps, Zenon
     DEF ConGood, ConPlace, ConAtBase, ConInUsb, ConInCommand, ConInShow, ConInRouter,
         ConInRfCommand
<1> QED BY <1>2, <1>4, ConKeeps, Zenon DEF ConGood, ConTypes

(* A frame that displays something, or a display that ends: the place of   *)
(* the host's characters is the same, whatever is on the stack.            *)
LEMMA ConMoves ==
  ASSUME ConGood, ConKept, conStack' \in Seq(ConFrames), ConPlace'
  PROVE  ConGood'
  BY ConKeeps, Zenon DEF ConGood, ConTypes

(* Outside CDC_Task, and with no packet of the router on the stack. *)
LEMMA ConReadsAtBase ==
  ASSUME ConGood, ~ConRouting, ~inCDC_TASK
  PROVE  ConAtBase
<1>1. conStack \in Seq(ConFrames)
  BY DEF ConGood, ConTypes
<1>2. ~ConShowing(conStack) /\ ~ConRouter(conStack)
  <2>1. conStack # << >> => 1 \in DOMAIN conStack
    BY <1>1, SMT
  <2> QED BY <2>1, Zenon DEF ConShowing, ConRouter, ConOnTop, ConRouting, ConRoutes
<1>3. ~ConRfCommand(conStack)
  <2> SUFFICES ASSUME ConRfCommand(conStack) PROVE FALSE
    OBVIOUS
  <2>1. conStack # << >> /\ Tail(conStack) # << >> /\ Tail(conStack)[1].kind = "router"
    BY Zenon DEF ConRfCommand, ConRouter, ConOnTop
  <2>2. 2 \in DOMAIN conStack /\ conStack[2] = Tail(conStack)[1]
    BY <1>1, <2>1, SMT
  <2> QED BY <2>1, <2>2, Zenon DEF ConRouting, ConRoutes
<1> QED
  BY <1>2, <1>3, Zenon
     DEF ConGood, ConPlace, ConAtBase, ConInUsb, ConInCommand, ConInShow, ConInRouter,
         ConInRfCommand, ConAnalyzes, ConRuns

(* CDC_Task reads the endpoint into the empty ring. *)
LEMMA ConReadsHost ==
  ASSUME ConGood, ConAtBase, NEW st \in Seq(ConFrames), ConBase(st),
         conEndpoint' = << >>, conRx' = ConPuts(conRx, conEndpoint), ~ConLoses,
         inCDC_TASK' = TRUE, conStack' = <<ConFrame("usb", 0)>> \o st,
         UNCHANGED <<conHost, cmdbuf, conRan, conLine, conSpoilt>>
  PROVE  ConGood'
<1> DEFINE usb == ConFrame("usb", 0)
<1>1. usb \in ConFrames /\ usb.kind = "usb"
  BY DEF ConFrame, ConFrames
<1>2. /\ conStack' \in Seq(ConFrames) /\ conStack' # << >>
      /\ conStack'[1] = usb /\ Tail(conStack') = st
  <2> HIDE DEF usb
  <2>1. conStack' = <<usb>> \o st
    BY DEF usb
  <2> QED BY <1>1, <2>1, ConPushes
<1>3. ConUsb(conStack')
  BY <1>1, <1>2 DEF ConUsb, ConOnTop
<1>4. conRx' = conEndpoint /\ conRx' \in Seq(ConCharacter)
  <2>1. /\ conRx = << >> /\ conRx \in Seq(ConCharacter)
        /\ conEndpoint \in Seq(ConCharacter)
    BY Zenon DEF ConGood, ConTypes, ConNumbers, ConAtBase, ConWaits
  <2>2. Len(conRx) + Len(conEndpoint) <= ConRoom
    BY <2>1, ConAssumption, SMT DEF ConLoses, ConAssumption
  <2>3. ConPuts(conRx, conEndpoint) = conRx \o conEndpoint
    BY <2>1, <2>2, ConAssumption, ConPutsFits
  <2> QED BY <2>1, <2>3, SMT
<1>5. /\ ConTaken \in Nat /\ conHost \in Nat /\ Len(conEndpoint) \in Nat
      /\ ConTaken' = ConTaken + Len(conEndpoint)
  BY SMT DEF ConGood, ConTypes, ConNumbers, ConTaken
<1>6. ConTaken' - Len(conRx') = ConTaken
  BY <1>4, <1>5, SMT
<1>7. ConRxHost'
  BY <1>4, <1>6 DEF ConRxHost, ConGood, ConEndpointHost
<1>8. ConHeld(Len(conRx))'
  <2>1. ConStart' = ConStart /\ cmdbuf' = cmdbuf /\ conRan' = conRan
        /\ conSpoilt' = conSpoilt
    BY DEF ConStart
  <2>2. ConHeld(0)
    BY DEF ConAtBase, ConWaits
  <2>3. ConOffset(Len(conRx))' = ConOffset(0)
    <3>1. ConStart \in Int
      BY ConStartNat
    <3>2. ConOffset(Len(conRx))' = ConTaken' - ConStart' - Len(conRx')
      BY DEF ConOffset
    <3>3. ConTaken - ConStart - 0 = ConTaken' - ConStart - Len(conRx')
      BY <1>5, <1>4, <3>1, SMT
    <3> QED BY <2>1, <3>2, <3>3 DEF ConOffset
  <2>4. Len(conRx') <= ConTaken'
    BY <1>4, <1>5, SMT
  <2> QED BY <2>1, <2>2, <2>3, <2>4, Zenon DEF ConHeld, ConCollected
<1>9. ConPlace'
  BY <1>3, <1>7, <1>8, Zenon DEF ConPlace, ConInUsb, ConAnalyzes
<1>10. ConNumbers'
  BY <1>4, SMT DEF ConNumbers, ConGood, ConTypes
<1>11. ConEndpointHost'
  BY SMT DEF ConEndpointHost
<1>12. ConRunsEachLine'
  BY DEF ConRunsEachLine, ConGood
<1> QED BY <1>2, <1>9, <1>10, <1>11, <1>12 DEF ConGood, ConTypes

(* CDC_Task, called with a stack that has the frame on top unchanged or    *)
(* one of its kind.                                                        *)
LEMMA ConCalls ==
  ASSUME ConGood, conSpoilt' # "ring", NEW tx, NEW f \in ConFrames,
         conStack # << >>, f.kind = conStack[1].kind,
         CDC_Task(<<f>> \o Tail(conStack), tx),
         UNCHANGED <<conHost, cmdbuf, conRan, conLine>>
  PROVE  ConGood'
<1> DEFINE st == <<f>> \o Tail(conStack)
<1>1. Tail(conStack) \in Seq(ConFrames)
  BY SMT DEF ConGood, ConTypes
<1>2. st \in Seq(ConFrames) /\ st # << >> /\ st[1] = f /\ Tail(st) = Tail(conStack)
  BY <1>1, ConPushes
<1> HIDE DEF st
<1>3. CDC_Task(st, tx)
  BY DEF st
<1>4. CASE ConReads
  <2>1. /\ conRx' = ConPuts(conRx, conEndpoint) /\ conEndpoint' = << >>
        /\ inCDC_TASK' = TRUE /\ conStack' = <<ConFrame("usb", 0)>> \o st
        /\ ~ConRouting /\ ~inCDC_TASK /\ ~ConLoses /\ conSpoilt' = conSpoilt
    BY <1>3, <1>4, Zenon DEF CDC_Task, ConReads
  <2>2. ConAtBase
    BY <2>1, ConReadsAtBase
  <2>3. ConBase(st)
    <3>1. st[1].kind = conStack[1].kind
      BY <1>2
    <3> QED BY <1>2, <2>2, <3>1, ConSamePlaces DEF ConAtBase
  <2> QED BY <1>2, <2>1, <2>2, <2>3, ConReadsHost
<1>5. CASE ~ConReads
  <2>1. conStack' = st /\ ConKept
    BY <1>3, <1>5, Zenon DEF CDC_Task, ConKept
  <2>2. conStack' = <<f>> \o Tail(conStack)
    BY <2>1 DEF st
  <2> QED BY <2>1, <2>2, ConTopReplaced
<1> QED BY <1>4, <1>5

LEMMA ConMainLoopGood ==
  ASSUME ConGood, conSpoilt' # "ring", ConMainLoop
  PROVE  ConGood'
<1>1. conStack = << >> /\ CDC_Task(<< >>, conTx)
  BY DEF ConMainLoop
<1>2. UNCHANGED <<conHost, cmdbuf, conRan, conLine>>
  BY DEF ConMainLoop
<1>3. CASE ConReads
  <2>1. /\ conRx' = ConPuts(conRx, conEndpoint) /\ conEndpoint' = << >>
        /\ inCDC_TASK' = TRUE /\ conStack' = <<ConFrame("usb", 0)>> \o << >>
        /\ ~ConRouting /\ ~inCDC_TASK /\ ~ConLoses /\ conSpoilt' = conSpoilt
    BY <1>1, <1>3, Zenon DEF CDC_Task, ConReads
  <2>2. ConAtBase /\ ConBase(<< >>)
    BY <2>1, ConReadsAtBase DEF ConBase
  <2>3. << >> \in Seq(ConFrames)
    OBVIOUS
  <2> QED BY <1>2, <2>1, <2>2, <2>3, ConReadsHost
<1>4. CASE ~ConReads
  <2>1. conStack' = conStack /\ ConKept
    BY <1>1, <1>2, <1>4, Zenon DEF CDC_Task, ConKept
  <2>2. ConPlace' /\ conStack' \in Seq(ConFrames)
    BY <2>1, ConKeeps, Zenon
       DEF ConGood, ConTypes, ConPlace, ConAtBase, ConInUsb, ConInCommand, ConInShow,
           ConInRouter, ConInRfCommand
  <2> QED BY <2>1, <2>2, ConMoves
<1> QED BY <1>3, <1>4

LEMMA ConDisplayGood ==
  ASSUME ConGood, conSpoilt' # "ring", display_char
  PROVE  ConGood'
<1>1. conStack # << >> /\ ConTop.out > 0 /\ UNCHANGED <<conHost, cmdbuf, conRan, conLine>>
  BY DEF display_char
<1>2. ConTop \in ConFrames /\ ConTop.out \in Nat
  <2>1. conStack[1] \in ConFrames
    BY <1>1, SMT DEF ConGood, ConTypes
  <2> QED BY <2>1 DEF ConTop, ConFrames
<1>3. CASE ConFull
  <2> DEFINE f == [ConTop EXCEPT !.full = TRUE]
  <2>1. f \in ConFrames /\ f.kind = conStack[1].kind
    BY <1>2 DEF ConFrames, ConTop
  <2>2. CDC_Task(<<f>> \o Tail(conStack), conTx)
    BY <1>3 DEF display_char, ConBelow
  <2> HIDE DEF f
  <2> QED BY <1>1, <2>1, <2>2, ConCalls
<1>4. CASE ~ConFull
  <2> DEFINE f == ConFrame(ConTop.kind, ConTop.out - 1)
  <2>1. ConTop.out - 1 \in Nat
    BY <1>1, <1>2, SMT
  <2>2. f \in ConFrames /\ f.kind = conStack[1].kind
    BY <1>2, <2>1 DEF ConFrames, ConTop, ConFrame
  <2>3. \/ CDC_Task(<<f>> \o Tail(conStack), ConPut)
        \/ /\ conStack' = <<f>> \o Tail(conStack)
           /\ UNCHANGED <<conRx, conEndpoint, inCDC_TASK, conSpoilt>>
    BY <1>4, Zenon DEF display_char, ConBelow
  <2> HIDE DEF f
  <2>4. CASE CDC_Task(<<f>> \o Tail(conStack), ConPut)
    BY <1>1, <2>2, <2>4, ConCalls
  <2>5. CASE /\ conStack' = <<f>> \o Tail(conStack)
             /\ UNCHANGED <<conRx, conEndpoint, inCDC_TASK, conSpoilt>>
    <3>1. ConKept
      BY <1>1, <2>5, Zenon DEF ConKept
    <3> QED BY <1>1, <2>2, <2>5, <3>1, ConTopReplaced
  <2> QED BY <2>3, <2>4, <2>5
<1> QED BY <1>3, <1>4

(* The host's next characters come into the empty endpoint. *)
LEMMA ConHostGood ==
  ASSUME ConGood, ConHostSends
  PROVE  ConGood'
<1>1. PICK n \in 1 .. ConBank :
        conHost' = conHost + n /\ conEndpoint' = [i \in 1 .. n |-> ConChar(conHost + i)]
  BY DEF ConHostSends
<1>2. conEndpoint = << >> /\ UNCHANGED <<conRx, cmdbuf, inCDC_TASK, conStack, conRan, conLine>>
      /\ conSpoilt' = conSpoilt
  BY DEF ConHostSends
<1>3. n \in Nat /\ conHost \in Nat /\ conHost' \in Nat
  BY <1>1, ConAssumption, SMT DEF ConAssumption, ConGood, ConTypes, ConNumbers
<1>4. conEndpoint' \in Seq(ConCharacter) /\ Len(conEndpoint') = n
  <2>1. ASSUME NEW i \in 1 .. n PROVE ConChar(conHost + i) \in ConCharacter
    <3>1. conHost + i \in Nat \ {0}
      BY <1>3, SMT
    <3> QED BY <3>1, ConAssumption, ConCharIsOne
  <2>2. [i \in 1 .. n |-> ConChar(conHost + i)] \in [1 .. n -> ConCharacter]
    BY <2>1
  <2>3. conEndpoint' \in [1 .. n -> ConCharacter]
    BY <1>1, <2>2
  <2> QED BY <1>3, <2>3, SMT
<1>5. ConTaken' = conHost /\ ConTaken = conHost /\ Len(conEndpoint') <= conHost'
  BY <1>1, <1>2, <1>3, <1>4, SMT DEF ConTaken
<1>6. ConEndpointHost'
  BY <1>1, <1>4, <1>5, SMT DEF ConEndpointHost
<1>7. ConStart' = ConStart /\ ConTaken' = ConTaken
  BY <1>2, <1>5 DEF ConStart
<1>8. ConPlace'
  <2>1. /\ ConCollected(0)' <=> ConCollected(0)
        /\ ConHeld(0)' <=> ConHeld(0)
        /\ ConHeld(Len(conRx))' <=> ConHeld(Len(conRx))
        /\ ConBetween(0)' <=> ConBetween(0)
        /\ ConBetween(Len(conRx))' <=> ConBetween(Len(conRx))
        /\ ConRxHost' <=> ConRxHost
        /\ ConRxRouter' <=> ConRxRouter
    BY <1>2, <1>7 DEF ConHeld, ConCollected, ConOffset, ConBetween, ConRxHost, ConRxRouter
  <2>2. conStack' = conStack /\ inCDC_TASK' = inCDC_TASK /\ conRx' = conRx
    BY <1>2
  <2> QED
    BY <2>1, <2>2, Zenon
       DEF ConGood, ConPlace, ConAtBase, ConInUsb, ConInCommand, ConInShow, ConInRouter,
           ConInRfCommand, ConWaits, ConAnalyzes, ConRuns, ConDisplays, ConAnalyzesRf,
           ConRunsRf
<1>9. ConTypes'
  BY <1>2, <1>3, <1>4, <1>5, Zenon DEF ConGood, ConTypes, ConNumbers
<1>10. ConRunsEachLine'
  BY <1>2 DEF ConGood, ConRunsEachLine
<1> QED BY <1>6, <1>8, <1>9, <1>10 DEF ConGood

LEMMA ConOneFrame ==
  ASSUME NEW f \in ConFrames
  PROVE  /\ <<f>> \in Seq(ConFrames) /\ <<f>> # << >>
         /\ <<f>>[1] = f /\ Tail(<<f>>) = << >>
  BY SMT

(* With nothing on the stack, the console waits. *)
LEMMA ConEmptyStack ==
  ASSUME ConGood, conStack = << >>
  PROVE  ConAtBase
  BY Zenon
     DEF ConGood, ConPlace, ConAtBase, ConInUsb, ConInCommand, ConInShow, ConInRouter,
         ConInRfCommand, ConUsb, ConCommand, ConShowing, ConRouter, ConRfCommand, ConOnTop

LEMMA ConTelegramGood ==
  ASSUME ConGood, ConTelegram
  PROVE  ConGood'
<1> DEFINE f == ConFrame("report", ConReport)
<1>1. f \in ConFrames /\ f.kind = "report"
  BY ConAssumption DEF ConAssumption, ConFrame, ConFrames
<1>2. conStack' = <<f>> /\ ConAtBase /\ ConKept
  BY ConEmptyStack DEF ConTelegram, ConKept
<1> HIDE DEF f
<1>3. conStack' \in Seq(ConFrames) /\ ConBase(conStack')
  BY <1>1, <1>2, ConOneFrame DEF ConBase, ConOnTop
<1>4. ConPlace'
  BY <1>2, <1>3, ConKeeps, Zenon DEF ConPlace, ConAtBase
<1> QED BY <1>2, <1>3, <1>4, ConMoves

(* A packet as the ring holds it, and the command in it. *)
LEMMA ConPacketHeld ==
  ASSUME NEW held, held = ConPuts(<< >>, ConPacket),
         NEW rest, rest = SubSeq(held, ConHeader + 1, Len(held))
  PROVE  /\ held \in Seq(ConCharacter) /\ rest \in Seq(ConCharacter)
         /\ Len(rest) = ConRfLetters
         /\ \A i \in 1 .. Len(rest) : rest[i] = [line |-> ConRf, end |-> FALSE]
<1> DEFINE c == [line |-> ConRf, end |-> FALSE]
           n == ConHeader + ConLetters
<1>1. c \in ConCharacter
  BY DEF ConCharacter, ConRf
<1>2. n \in Nat /\ ConHeader \in Nat
  BY ConAssumption DEF ConAssumption
<1>3. /\ ConPacket \in Seq(ConCharacter) /\ Len(ConPacket) = n
      /\ \A i \in 1 .. n : ConPacket[i] = c
  <2>1. ConPacket = [i \in 1 .. n |-> c]
    BY DEF ConPacket
  <2> HIDE DEF c, n
  <2> QED BY <1>1, <1>2, <2>1, SMT
<1>4. << >> \in Seq(ConCharacter) /\ << >> \o ConPacket = ConPacket /\ Len(<< >>) + n = n
  <2>1. << >> \in Seq(ConCharacter) /\ Len(<< >>) = 0
    OBVIOUS
  <2> HIDE DEF n
  <2> QED BY <1>2, <1>3, <2>1, SMT
<1> HIDE DEF c
<1>5. /\ held \in Seq(ConCharacter) /\ Len(held) = ConCut(n)
      /\ \A i \in 1 .. Len(held) : held[i] = ConPacket[i]
  <2> DEFINE e == << >>
  <2>1. e \in Seq(ConCharacter) /\ e \o ConPacket = ConPacket /\ Len(e) + n = n
        /\ held = ConPuts(e, ConPacket)
    BY <1>4
  <2> HIDE DEF e, n
  <2> QED BY <1>3, <2>1, ConAssumption, ConPutsFits
<1>6. ConCut(n) = ConHeader + ConRfLetters /\ ConCut(n) <= n /\ ConRfLetters \in Nat
  <2>1. ConRfLetters = ConCut(n) - ConHeader
    BY DEF ConRfLetters
  <2> HIDE DEF n
  <2>2. ConCut(n) \in Nat /\ ConCut(n) <= n
    BY <1>2, ConAssumption, ConCutNat
  <2> QED BY <1>2, <2>1, <2>2, ConAssumption, ConRfLettersNat, SMT
<1>7. \A i \in 1 .. Len(held) : held[i] = c
  <2>1. \A i \in 1 .. Len(held) : i \in 1 .. n
    <3> HIDE DEF n
    <3> QED BY <1>2, <1>5, <1>6, SMT
  <2> QED BY <1>3, <1>5, <2>1
<1>8. /\ rest \in Seq(ConCharacter) /\ Len(rest) = ConRfLetters
      /\ \A i \in 1 .. Len(rest) : rest[i] = held[ConHeader + i] /\ ConHeader + i \in 1 .. Len(held)
  <2>1. Len(held) = ConHeader + ConRfLetters
    BY <1>5, <1>6
  <2> HIDE DEF n
  <2> QED BY <1>2, <1>5, <1>6, <2>1, SMT
<1> QED BY <1>5, <1>7, <1>8 DEF c

LEMMA ConRouterGood ==
  ASSUME ConGood, conSpoilt' # "ring", rf_router_task
  PROVE  ConGood'
<1> DEFINE held    == ConPuts(<< >>, ConPacket)
           rest    == SubSeq(held, ConHeader + 1, Len(held))
           newline == [line |-> ConRf, end |-> TRUE]
<1>1. PICK kind \in {"show", "router"} :
        /\ conStack' = <<ConFrame(kind, 0)>>
        /\ conRx' = IF kind = "show" THEN held ELSE ConPuts(rest, <<newline>>)
        /\ conSpoilt' = IF conSpoilt # "no" \/ (kind = "router" /\ cmdbuf # << >>)
                        THEN "ring" ELSE "no"
  BY Zenon DEF rf_router_task
<1>2. conStack = << >> /\ UNCHANGED <<conHost, conEndpoint, cmdbuf, inCDC_TASK, conRan, conLine>>
  BY DEF rf_router_task
<1>3. ConAtBase
  BY <1>2, ConEmptyStack
<1>4. ConFrame(kind, 0) \in ConFrames /\ ConFrame(kind, 0).kind = kind
  BY DEF ConFrame, ConFrames
<1>5. /\ conStack' \in Seq(ConFrames) /\ conStack' # << >>
      /\ conStack'[1].kind = kind /\ Tail(conStack') = << >>
  <2> DEFINE f == ConFrame(kind, 0)
  <2>1. f \in ConFrames /\ f.kind = kind /\ conStack' = <<f>>
    BY <1>1, <1>4
  <2> HIDE DEF f
  <2> QED BY <2>1, ConOneFrame
<1>6. /\ held \in Seq(ConCharacter) /\ rest \in Seq(ConCharacter)
      /\ Len(rest) = ConRfLetters
      /\ \A i \in 1 .. Len(rest) : rest[i] = [line |-> ConRf, end |-> FALSE]
  BY ConPacketHeld
<1>7. newline \in ConCharacter
  BY DEF ConCharacter, ConRf
<1> HIDE DEF held, rest, newline
<1>8. <<newline>> \in Seq(ConCharacter) /\ Len(<<newline>>) = 1 /\ <<newline>>[1] = newline
  BY <1>7, SMT
<1>9. ConRfLetters \in Nat \ {0} /\ ConRfLetters + 1 <= ConRoom
  BY ConAssumption, ConRfLettersNat, SMT DEF ConAssumption
<1>10. /\ ConPuts(rest, <<newline>>) = rest \o <<newline>>
       /\ ConPuts(rest, <<newline>>) \in Seq(ConCharacter)
  BY <1>6, <1>8, <1>9, ConAssumption, ConPutsFits
<1>11. ConTypes' /\ ConEndpointHost' /\ ConRunsEachLine'
  <2>1. ConTypes'
    <3>1. conRx' \in Seq(ConCharacter)
      BY <1>1, <1>6, <1>10
    <3> QED BY <1>2, <1>5, <3>1, Zenon DEF ConGood, ConTypes, ConNumbers
  <2>2. ConTaken' = ConTaken
    BY <1>2 DEF ConTaken
  <2>3. ConEndpointHost' /\ ConRunsEachLine'
    BY <1>2, <2>2 DEF ConGood, ConEndpointHost, ConRunsEachLine
  <2> QED BY <2>1, <2>3
<1>12. /\ conSpoilt = "no" /\ conSpoilt' = "no"
       /\ kind = "router" => cmdbuf = << >>
  BY <1>1, Zenon
<1>13. ConCollected(0) /\ ConCollected(0)' /\ ~inCDC_TASK'
  <2>1. ConCollected(0)
    BY <1>3, <1>12, Zenon DEF ConAtBase, ConWaits, ConHeld
  <2>2. ConTaken' = ConTaken /\ ConStart' = ConStart
    BY <1>2 DEF ConTaken, ConStart
  <2> QED BY <1>2, <1>3, <1>12, <2>1, <2>2 DEF ConAtBase, ConWaits, ConCollected, ConOffset
<1>14. CASE kind = "show"
  <2>1. ConInShow'
    BY <1>5, <1>13, <1>14 DEF ConInShow, ConShowing, ConOnTop, ConDisplays
  <2> QED BY <1>11, <2>1 DEF ConGood, ConPlace
<1>15. CASE kind = "router"
  <2>1. cmdbuf' = << >> /\ cmdbuf = << >> /\ Len(cmdbuf) = 0 /\ Len(cmdbuf') = 0
    BY <1>2, <1>12, <1>15
  <2>2. conRx' = rest \o <<newline>>
    BY <1>1, <1>10, <1>15
  <2>3. Len(conRx') = ConRfLetters + 1
    BY <1>6, <1>8, <2>2, ConcatProperties
  <2>4. ASSUME NEW i \in 1 .. Len(conRx')
        PROVE  conRx'[i] = [line |-> ConRf, end |-> i = Len(conRx')]
    <3>1. CASE i = Len(conRx')
      <4>1. conRx'[i] = newline
        BY <1>6, <1>8, <1>9, <2>2, <2>3, <3>1, ConcatProperties, SMT
      <4> QED BY <3>1, <4>1 DEF newline
    <3>2. CASE i # Len(conRx')
      <4>1. i \in 1 .. Len(rest)
        BY <1>6, <1>9, <2>3, <3>2, SMT
      <4>2. conRx'[i] = rest[i]
        BY <1>6, <1>8, <2>2, <4>1, ConcatProperties, SMT
      <4> QED BY <1>6, <3>2, <4>1, <4>2
    <3> QED BY <3>1, <3>2
  <2>5. ConRxRouter'
    <3>1. Len(cmdbuf') + Len(conRx') = ConRfLetters + 1
      BY <1>9, <2>1, <2>3, SMT
    <3>2. \A i \in 1 .. Len(cmdbuf') : cmdbuf'[i] = ConRf
      BY <2>1, SMT
    <3> QED BY <2>1, <2>4, <3>1, <3>2 DEF ConRxRouter
  <2>6. ConBetween(0)'
    <3>1. ConCut(ConOffset(0)) = 0 /\ ConOffset(0) \in 0 .. ConLetters
      BY <1>13, <2>1 DEF ConCollected
    <3>2. ConOffset(0) = 0
      <4> DEFINE o == ConOffset(0)
      <4>1. o \in Nat /\ ConCut(o) = 0 /\ ConRoom \in Nat \ {0}
        BY <3>1, ConAssumption, SMT DEF ConAssumption
      <4> HIDE DEF o
      <4> QED BY <4>1, SMT DEF o, ConCut
    <3>3. ConTaken \in Int /\ ConStart \in Int
      BY ConStartNat, SMT DEF ConGood, ConTypes, ConNumbers, ConTaken
    <3>4. ConTaken = ConStart + 0
      BY <3>2, <3>3, SMT DEF ConOffset
    <3>5. ConTaken' = ConTaken /\ ConStart' = ConStart
      BY <1>2 DEF ConTaken, ConStart
    <3> QED BY <1>12, <3>4, <3>5 DEF ConBetween
  <2>7. ConInRouter'
    BY <1>5, <1>13, <1>15, <2>5, <2>6 DEF ConInRouter, ConRouter, ConOnTop, ConAnalyzesRf
  <2> QED BY <1>11, <2>7 DEF ConGood, ConPlace
<1> QED BY <1>14, <1>15

(* A packet is displayed: the ring is the router's, the line the host's. *)
LEMMA ConShowGood ==
  ASSUME ConGood, ConShow
  PROVE  ConGood'
<1>1. conStack # << >> /\ conStack[1].kind = "show"
      /\ UNCHANGED <<conHost, conEndpoint, cmdbuf, inCDC_TASK, conRan, conLine>>
  BY DEF ConShow, ConTop
<1>2. ConInShow
  BY <1>1, Zenon
     DEF ConGood, ConPlace, ConAtBase, ConInUsb, ConInCommand, ConInShow, ConInRouter,
         ConInRfCommand, ConBase, ConUsb, ConCommand, ConRouter, ConRfCommand, ConOnTop
<1>3. Tail(conStack) = << >>
  BY <1>2 DEF ConInShow, ConShowing
<1>4. << >> \in Seq(ConFrames)
  OBVIOUS
<1>5. ConCollected(0)' /\ ~inCDC_TASK' /\ ConEndpointHost' /\ ConRunsEachLine'
  <2>1. ConTaken' = ConTaken /\ ConStart' = ConStart /\ conSpoilt' = conSpoilt
    <3>1. conSpoilt = "no"
      BY <1>2, Zenon DEF ConInShow, ConDisplays, ConCollected
    <3>2. conSpoilt' = conSpoilt
      BY <3>1, Zenon DEF ConShow, ConSettles
    <3> QED BY <1>1, <3>2 DEF ConTaken, ConStart
  <2> QED
    BY <1>1, <1>2, <2>1
       DEF ConInShow, ConDisplays, ConCollected, ConOffset, ConGood, ConEndpointHost,
           ConRunsEachLine
<1>6. CASE conRx # << >>
  <2> DEFINE f == ConFrame("show", 1)
  <2>1. f \in ConFrames /\ f.kind = "show"
    BY DEF ConFrame, ConFrames
  <2>2. conStack' = <<f>> \o << >> /\ conRx' = Tail(conRx)
    BY <1>3, <1>6, Zenon DEF ConShow, ConBelow
  <2> HIDE DEF f
  <2>3. /\ conStack' \in Seq(ConFrames) /\ conStack' # << >>
        /\ conStack'[1] = f /\ Tail(conStack') = << >>
    BY <1>4, <2>1, <2>2, ConPushes
  <2>4. conRx' \in Seq(ConCharacter)
    BY <1>6, <2>2, SMT DEF ConGood, ConTypes, ConNumbers
  <2>5. ConTypes'
    BY <1>1, <2>3, <2>4, Zenon DEF ConGood, ConTypes, ConNumbers
  <2>6. ConInShow'
    BY <1>5, <2>1, <2>3 DEF ConInShow, ConShowing, ConOnTop, ConDisplays
  <2> QED BY <1>5, <2>5, <2>6 DEF ConGood, ConPlace
<1>7. CASE conRx = << >>
  <2> DEFINE f == ConFrame("report", 1)
  <2>1. f \in ConFrames /\ f.kind = "report"
    BY DEF ConFrame, ConFrames
  <2>2. conStack' = <<f>> \o << >> /\ conRx' = conRx
    BY <1>3, <1>7, Zenon DEF ConShow, ConBelow
  <2> HIDE DEF f
  <2>3. /\ conStack' \in Seq(ConFrames) /\ conStack' # << >>
        /\ conStack'[1] = f /\ Tail(conStack') = << >>
    BY <1>4, <2>1, <2>2, ConPushes
  <2>4. ConTypes'
    BY <1>1, <2>2, <2>3, Zenon DEF ConGood, ConTypes, ConNumbers
  <2>5. ConAtBase'
    BY <1>5, <1>7, <2>1, <2>2, <2>3 DEF ConAtBase, ConBase, ConOnTop, ConWaits, ConHeld
  <2> QED BY <1>5, <2>4, <2>5 DEF ConGood, ConPlace
<1> QED BY <1>6, <1>7

(* A frame is taken from the stack. *)
LEMMA ConTailTyped ==
  ASSUME ConGood, conStack # << >>
  PROVE  Tail(conStack) \in Seq(ConFrames)
  BY SMT DEF ConGood, ConTypes

(* An empty command buffer behind the end of a line. *)
LEMMA ConEmptyCollected ==
  ASSUME NEW n \in Nat, cmdbuf' = << >>, conSpoilt' = "no", ConStart' \in Nat,
         n = Len(conRx'), ConTaken' = ConStart' + n
  PROVE  ConCollected(Len(conRx))'
<1>1. Len(cmdbuf') = 0 /\ ConLetters \in Nat /\ ConRoom \in Nat
  BY ConAssumption DEF ConAssumption
<1>2. ConOffset(Len(conRx))' = 0
  BY SMT DEF ConOffset
<1>3. ConCut(0) = 0
  BY <1>1, SMT DEF ConCut
<1>4. \A i \in 1 .. Len(cmdbuf') : cmdbuf'[i] = conRan' + 1
  BY <1>1, SMT
<1>5. 0 \in 0 .. ConLetters
  BY <1>1
<1> QED BY <1>1, <1>2, <1>3, <1>4, <1>5 DEF ConCollected

LEMMA ConReturnGood ==
  ASSUME ConGood, ConReturn
  PROVE  ConGood'
<1>1. /\ conStack # << >> /\ conStack[1].kind \in {"command", "report"}
      /\ conStack' = Tail(conStack)
      /\ cmdbuf' = IF conStack[1].kind = "command" THEN << >> ELSE cmdbuf
      /\ UNCHANGED <<conHost, conEndpoint, conRx, inCDC_TASK, conRan, conLine, conSpoilt>>
  BY DEF ConReturn, ConTop, ConBelow
<1>2. conStack' \in Seq(ConFrames)
  BY <1>1, ConTailTyped
<1>3. CASE conStack[1].kind = "report"
  <2>1. ConAtBase
    BY <1>1, <1>3, Zenon
       DEF ConGood, ConPlace, ConAtBase, ConInUsb, ConInCommand, ConInShow, ConInRouter,
           ConInRfCommand, ConBase, ConUsb, ConCommand, ConShowing, ConRouter,
           ConRfCommand, ConOnTop
  <2>2. ConKept
    BY <1>1, <1>3, Zenon DEF ConKept
  <2>3. ConBase(conStack')
    BY <1>1, <2>1, Zenon DEF ConAtBase, ConBase
  <2>4. ConPlace'
    BY <2>1, <2>2, <2>3, ConKeeps, Zenon DEF ConPlace, ConAtBase
  <2> QED BY <1>2, <2>2, <2>4, ConMoves
<1>4. CASE conStack[1].kind = "command"
  <2>1. cmdbuf' = << >> /\ ConTaken' = ConTaken /\ ConStart' = ConStart
    BY <1>1, <1>4 DEF ConTaken, ConStart
  <2>2. << >> \in Seq(Nat) /\ Len(cmdbuf') = 0
    BY <2>1
  <2>3. ConTypes'
    BY <1>1, <1>2, <2>1, <2>2, Zenon DEF ConGood, ConTypes, ConNumbers
  <2>4. ConEndpointHost' /\ ConRunsEachLine'
    BY <1>1, <2>1 DEF ConGood, ConEndpointHost, ConRunsEachLine
  <2>5. ConInCommand \/ ConInRfCommand
    BY <1>1, <1>4, Zenon
       DEF ConGood, ConPlace, ConAtBase, ConInUsb, ConInCommand, ConInShow, ConInRouter,
           ConInRfCommand, ConBase, ConUsb, ConCommand, ConShowing, ConRouter,
           ConRfCommand, ConOnTop
  <2>6. CASE ConInCommand
    <3>1. ConUsb(conStack') /\ inCDC_TASK' = inCDC_TASK /\ inCDC_TASK
      BY <1>1, <2>6, Zenon DEF ConInCommand, ConCommand, ConRuns
    <3>2. ConRxHost'
      BY <1>1, <2>1, <2>6 DEF ConInCommand, ConRuns, ConRxHost
    <3>3. ConCollected(Len(conRx))'
      <4>1. ConTaken = ConStart + Len(conRx) /\ conSpoilt' = "no"
        BY <1>1, <2>6 DEF ConInCommand, ConRuns, ConBetween
      <4>2. ConStart \in Nat /\ Len(conRx) \in Nat
        BY ConStartNat DEF ConGood, ConTypes, ConNumbers
      <4>3. ConStart' \in Nat /\ Len(conRx') \in Nat /\ ConTaken' = ConStart' + Len(conRx')
        BY <1>1, <2>1, <4>1, <4>2
      <4> QED BY <2>1, <4>1, <4>3, ConEmptyCollected
    <3>5. ConHeld(Len(conRx))'
      BY <3>3 DEF ConHeld
    <3>4. ConPlace'
      BY <3>1, <3>2, <3>5, Zenon DEF ConPlace, ConInUsb, ConAnalyzes
    <3> QED BY <2>3, <2>4, <3>4 DEF ConGood
  <2>7. CASE ConInRfCommand
    <3>1. ConRouter(conStack') /\ ~inCDC_TASK' /\ conRx' = << >>
      BY <1>1, <2>7, Zenon DEF ConInRfCommand, ConRfCommand, ConRunsRf
    <3>2. ConRxRouter'
      <4>1. /\ \A i \in 1 .. Len(cmdbuf') : cmdbuf'[i] = ConRf
            /\ \A i \in 1 .. Len(conRx') : conRx'[i] = [line |-> ConRf, end |-> i = Len(conRx')]
        <5>1. Len(conRx') = 0
          BY <3>1
        <5> QED BY <2>2, <5>1, SMT
      <4> QED BY <2>1, <3>1, <4>1 DEF ConRxRouter
    <3>3. ConBetween(0)'
      BY <1>1, <2>1, <2>7 DEF ConInRfCommand, ConRunsRf, ConBetween
    <3>4. ConPlace'
      BY <3>1, <3>2, <3>3, Zenon DEF ConPlace, ConInRouter, ConAnalyzesRf
    <3> QED BY <2>3, <2>4, <3>4 DEF ConGood
  <2> QED BY <2>5, <2>6, <2>7
<1> QED BY <1>1, <1>3, <1>4

(* analyze_ttydata returns when the ring is empty. *)
LEMMA ConAnalyzed ==
  ASSUME ConGood, analyze_ttydata, conRx = << >>
  PROVE  ConGood'
<1>1. /\ conStack # << >> /\ conStack[1].kind \in {"usb", "router"}
      /\ conStack' = Tail(conStack) /\ inCDC_TASK' = (conStack[1].kind # "usb" /\ inCDC_TASK)
      /\ UNCHANGED <<conHost, conEndpoint, conRx, cmdbuf, conRan, conLine>>
  BY DEF analyze_ttydata, ConTop, ConBelow, ConLeavesCDC
<1>2. conStack' \in Seq(ConFrames)
  BY <1>1, ConTailTyped
<1>3. ConTaken' = ConTaken /\ ConStart' = ConStart
  BY <1>1 DEF ConTaken, ConStart
<1>9. conSpoilt # "ring" => conSpoilt' = conSpoilt
  BY Zenon DEF analyze_ttydata, ConSettles
<1>4. ConTypes'
  BY <1>1, <1>2, Zenon DEF ConGood, ConTypes, ConNumbers
<1>5. ConEndpointHost' /\ ConRunsEachLine'
  BY <1>1, <1>3 DEF ConGood, ConEndpointHost, ConRunsEachLine
<1>6. ConInUsb \/ ConInRouter
  BY <1>1, Zenon
     DEF ConGood, ConPlace, ConAtBase, ConInUsb, ConInCommand, ConInShow, ConInRouter,
         ConInRfCommand, ConBase, ConUsb, ConCommand, ConShowing, ConRouter,
         ConRfCommand, ConOnTop
<1>7. CASE ConInUsb
  <2>1. ConBase(conStack') /\ conStack[1].kind = "usb"
    BY <1>1, <1>7, Zenon DEF ConInUsb, ConUsb, ConOnTop
  <2>2. ConHeld(Len(conRx)) /\ Len(conRx) = 0
    BY <1>7 DEF ConInUsb, ConAnalyzes
  <2>3. ConHeld(0)
    BY <2>2
  <2>7. conSpoilt # "ring"
    BY <2>3, Zenon DEF ConHeld, ConCollected
  <2>8. conSpoilt' = conSpoilt
    BY <1>9, <2>7
  <2>4. ConHeld(0)'
    BY <1>1, <1>3, <2>3, <2>8 DEF ConHeld, ConCollected, ConOffset
  <2>5. ~inCDC_TASK' /\ conRx' = << >>
    BY <1>1, <2>1
  <2>6. ConPlace'
    BY <2>1, <2>4, <2>5, Zenon DEF ConPlace, ConAtBase, ConWaits
  <2> QED BY <1>4, <1>5, <2>6 DEF ConGood
<1>8. CASE ConInRouter
  <2>1. conStack' = << >> /\ ~inCDC_TASK' /\ conRx' = << >>
    BY <1>1, <1>8, Zenon DEF ConInRouter, ConRouter, ConAnalyzesRf
  <2>2. cmdbuf' = << >>
    BY <1>1, <1>8 DEF ConInRouter, ConAnalyzesRf, ConRxRouter
  <2>3. ConTaken = ConStart + 0 /\ conSpoilt = "no"
    BY <1>8 DEF ConInRouter, ConAnalyzesRf, ConBetween
  <2>4. conSpoilt' = "no"
    BY <1>9, <2>3
  <2>5. ConStart' \in Nat /\ Len(conRx') = 0 /\ ConTaken' = ConStart' + 0
    <3>1. ConStart \in Nat
      BY ConStartNat
    <3> QED BY <1>3, <2>1, <2>3, <3>1
  <2>6. ConCollected(Len(conRx))'
    <3> DEFINE z == 0
    <3>1. z \in Nat /\ z = Len(conRx') /\ ConTaken' = ConStart' + z
      BY <2>5
    <3> HIDE DEF z
    <3> QED BY <2>2, <2>4, <2>5, <3>1, ConEmptyCollected
  <2>9. ConHeld(0)'
    BY <2>5, <2>6 DEF ConHeld
  <2>10. ConPlace'
    BY <2>1, <2>9, Zenon DEF ConPlace, ConAtBase, ConWaits, ConBase
  <2> QED BY <1>4, <1>5, <2>10 DEF ConGood
<1> QED BY <1>6, <1>7, <1>8

(* The frame of a command on top of the one that runs it. *)
LEMMA ConCommandPushed ==
  ASSUME ConGood, NEW n \in ConOutput, conStack' = <<ConFrame("command", n)>> \o conStack
  PROVE  /\ conStack' \in Seq(ConFrames)
         /\ ConUsb(conStack) => ConCommand(conStack')
         /\ ConRouter(conStack) => ConRfCommand(conStack')
<1> DEFINE f == ConFrame("command", n)
<1>1. f \in ConFrames /\ f.kind = "command"
  BY ConAssumption DEF ConAssumption, ConFrame, ConFrames
<1>2. conStack' = <<f>> \o conStack /\ conStack \in Seq(ConFrames)
  BY DEF ConGood, ConTypes
<1> HIDE DEF f
<1>3. /\ conStack' \in Seq(ConFrames) /\ conStack' # << >>
      /\ conStack'[1] = f /\ Tail(conStack') = conStack
  BY <1>1, <1>2, ConPushes
<1> QED BY <1>1, <1>3 DEF ConCommand, ConRfCommand, ConOnTop

(* A line that is collected is one of its own length and number. *)
LEMMA ConWholeLine ==
  ASSUME NEW s \in Seq(Nat), NEW line, NEW n \in Nat, Len(s) = n,
         \A i \in 1 .. Len(s) : s[i] = line
  PROVE  s = [i \in 1 .. n |-> line]
<1>1. s = [i \in 1 .. n |-> s[i]]
  BY SMT
<1> QED BY <1>1

(* What is left in the ring. *)
LEMMA ConRxTail ==
  ASSUME ConGood, conRx # << >>
  PROVE  /\ Head(conRx) = conRx[1] /\ conRx[1] \in ConCharacter
         /\ Tail(conRx) \in Seq(ConCharacter) /\ Len(Tail(conRx)) = Len(conRx) - 1
         /\ \A i \in 1 .. Len(conRx) - 1 : Tail(conRx)[i] = conRx[i + 1]
         /\ Len(conRx) \in Nat \ {0}
<1>1. conRx \in Seq(ConCharacter)
  BY DEF ConGood, ConTypes, ConNumbers
<1>2. \A i \in 1 .. Len(conRx) : conRx[i] \in ConCharacter
  BY <1>1, ElementOfSeq
<1>3. Len(conRx) \in Nat \ {0}
  BY <1>1, SMT
<1>4. 1 \in 1 .. Len(conRx)
  BY <1>3, SMT
<1>5. conRx[1] \in ConCharacter
  BY <1>2, <1>4
<1>6. /\ Tail(conRx) \in Seq(ConCharacter) /\ Len(Tail(conRx)) = Len(conRx) - 1
      /\ \A i \in 1 .. Len(conRx) - 1 : Tail(conRx)[i] = conRx[i + 1]
  BY <1>1, SMT
<1>7. Head(conRx) = conRx[1]
  BY <1>1, SMT
<1> QED BY <1>3, <1>5, <1>6, <1>7

(* The rest of the ring is still the host's. *)
LEMMA ConRxHostTail ==
  ASSUME ConGood, ConRxHost, conRx # << >>, conRx' = Tail(conRx), ConTaken' = ConTaken
  PROVE  ConRxHost'
<1>1. ConTaken \in Int
  BY SMT DEF ConGood, ConTypes, ConNumbers, ConTaken
<1>2. ASSUME NEW i \in 1 .. Len(conRx')
      PROVE  conRx'[i] = ConChar((ConTaken' - Len(conRx')) + i)
  <2>1. Len(conRx) \in Nat \ {0} /\ Len(conRx') = Len(conRx) - 1
    BY ConRxTail
  <2>2. i \in 1 .. Len(conRx) - 1 /\ i + 1 \in 1 .. Len(conRx)
    BY <2>1, SMT
  <2>3. conRx'[i] = conRx[i + 1]
    BY <2>2, ConRxTail
  <2>4. conRx[i + 1] = ConChar((ConTaken - Len(conRx)) + (i + 1))
    BY <2>2 DEF ConRxHost
  <2>5. (ConTaken - Len(conRx)) + (i + 1) = (ConTaken' - Len(conRx')) + i
    BY <1>1, <2>1, <2>2, SMT
  <2> QED BY <2>3, <2>4, <2>5
<1> QED BY <1>2 DEF ConRxHost

(* A character of the host of which nothing is spoilt: the next of its     *)
(* line, or the end of the line, which is run.                             *)
LEMMA ConGetsHost ==
  ASSUME ConGood, ConInUsb, conRx # << >>, ConGets, conSpoilt = "no",
         UNCHANGED <<conHost, conEndpoint, inCDC_TASK>>
  PROVE  ConGood'
<1> DEFINE c == Head(conRx)
           o == ConOffset(Len(conRx))
<1>1. /\ conRan \in Nat /\ cmdbuf \in Seq(Nat) /\ ConLetters \in Nat \ {0}
      /\ Len(conRx) \in Nat \ {0} /\ ConStart \in Nat /\ ConTaken \in Int
      /\ ConRoom \in Nat \ {0}
  <2>1. ConTaken \in Int
    BY SMT DEF ConGood, ConTypes, ConNumbers, ConTaken
  <2>2. ConRoom \in Nat \ {0}
    BY ConAssumption, SMT DEF ConAssumption
  <2> QED
    BY <2>1, <2>2, ConAssumption, ConRxTail, ConStartNat
       DEF ConGood, ConTypes, ConNumbers, ConAssumption
<1>2. /\ o \in 0 .. ConLetters /\ Len(cmdbuf) = ConCut(o)
      /\ \A i \in 1 .. Len(cmdbuf) : cmdbuf[i] = conRan + 1
  <2>1. ConCollected(Len(conRx))
    BY Zenon DEF ConInUsb, ConAnalyzes, ConHeld
  <2> QED BY <2>1 DEF ConCollected
<1>3. c.line = conRan + 1 /\ (c.end <=> o = ConLetters)
  <2>1. 1 \in 1 .. Len(conRx)
    BY <1>1, SMT
  <2>2. c = ConChar((ConTaken - Len(conRx)) + 1)
    BY <2>1, ConRxTail DEF ConInUsb, ConAnalyzes, ConRxHost
  <2>3. (ConTaken - Len(conRx)) + 1 = ConStart + o + 1
    BY <1>1, SMT DEF ConOffset
  <2>4. /\ ConChar(ConStart + o + 1).line = conRan + 1
        /\ ConChar(ConStart + o + 1).end <=> o = ConLetters
    <3> HIDE DEF o
    <3> QED BY <1>1, <1>2, ConAssumption, ConNextChar DEF ConStart
  <2> QED BY <2>2, <2>3, <2>4
<1>4. conRx' = Tail(conRx) /\ conRx' \in Seq(ConCharacter) /\ Len(conRx') = Len(conRx) - 1
  BY ConRxTail DEF ConGets
<1>5. ConTaken' = ConTaken
  BY DEF ConTaken
<1>6. ConRxHost'
  BY <1>4, <1>5, ConRxHostTail DEF ConInUsb, ConAnalyzes
<1>7. ConEndpointHost' /\ inCDC_TASK' = inCDC_TASK /\ inCDC_TASK
  BY <1>5 DEF ConGood, ConEndpointHost, ConInUsb, ConAnalyzes
<1>8. ConTaken = ConStart + o + Len(conRx)
  BY <1>1, SMT DEF ConOffset
<1> HIDE DEF o
<1>9. CASE o = ConLetters
  <2>1. c.end /\ cmdbuf # << >> /\ c.line # ConRf
    <3>1. Len(cmdbuf) # 0
      BY <1>1, <1>2, <1>9, SMT DEF ConCut
    <3>2. cmdbuf # << >>
      BY <3>1
    <3> QED BY <1>1, <1>3, <1>9, <3>2, SMT DEF ConRf
  <2>2. ConEnds(c.line)
    BY <2>1, Zenon DEF ConGets
  <2>3. PICK n \in ConOutput : conStack' = <<ConFrame("command", n)>> \o conStack
    BY <2>1, <2>2 DEF ConEnds
  <2>4. /\ conRan' = conRan + 1 /\ conSpoilt' = "no"
        /\ conLine' = cmdbuf /\ cmdbuf' = cmdbuf
    BY <2>1, <2>2, Zenon DEF ConEnds, ConHasRun
  <2>5. conLine' = ConText(conRan')
    <3>1. Len(cmdbuf) = ConCut(ConLetters) /\ ConCut(ConLetters) \in Nat
      BY <1>1, <1>2, <1>9, ConAssumption, ConCutNat
    <3>2. \A i \in 1 .. Len(cmdbuf) : cmdbuf[i] = conRan'
      BY <1>2, <2>4
    <3>3. cmdbuf = [i \in 1 .. ConCut(ConLetters) |-> conRan']
      BY <1>1, <3>1, <3>2, ConWholeLine
    <3> QED BY <2>4, <3>3 DEF ConText
  <2>6. ConBetween(Len(conRx))'
    <3>1. ConStart' = ConStart + (ConLetters + 1)
      BY <1>1, <2>4, SMT DEF ConStart
    <3>2. ConTaken' = ConStart' + Len(conRx')
      BY <1>1, <1>4, <1>5, <1>8, <1>9, <3>1, SMT
    <3> QED BY <2>4, <3>2 DEF ConBetween
  <2>7. ConTypes'
    <3>1. conStack' \in Seq(ConFrames) /\ conRan' \in Nat
      BY <1>1, <2>3, <2>4, ConCommandPushed
    <3> QED BY <1>4, <2>4, <3>1, Zenon DEF ConGood, ConTypes, ConNumbers
  <2>8. ConPlace'
    <3>1. ConCommand(conStack')
      BY <2>3, ConCommandPushed DEF ConInUsb
    <3> QED BY <1>6, <1>7, <2>6, <3>1 DEF ConPlace, ConInCommand, ConRuns
  <2> QED BY <1>7, <2>5, <2>7, <2>8 DEF ConGood, ConRunsEachLine
<1>10. CASE o # ConLetters
  <2>1. /\ cmdbuf' = IF Len(cmdbuf) < ConRoom THEN Append(cmdbuf, conRan + 1) ELSE cmdbuf
        /\ UNCHANGED <<conStack, conRan, conLine, conSpoilt>>
    BY <1>3, <1>10, Zenon DEF ConGets, ConCollects
  <2>2. o \in Nat /\ o + 1 \in 0 .. ConLetters
    BY <1>1, <1>2, <1>10, SMT
  <2>3. /\ cmdbuf' \in Seq(Nat) /\ Len(cmdbuf') = ConCut(o + 1)
        /\ \A i \in 1 .. Len(cmdbuf') : cmdbuf'[i] = conRan + 1
    <3>1. ConCut(o + 1) = IF ConCut(o) < ConRoom THEN ConCut(o) + 1 ELSE ConCut(o)
      BY <2>2, ConAssumption, ConCutNat
    <3>2. CASE Len(cmdbuf) < ConRoom
      <4> DEFINE l == conRan + 1
                 k == Len(cmdbuf)
      <4>1. cmdbuf' = Append(cmdbuf, l) /\ l \in Nat /\ k \in Nat
        BY <1>1, <2>1, <3>2
      <4>2. /\ cmdbuf' \in Seq(Nat) /\ Len(cmdbuf') = k + 1
            /\ \A i \in 1 .. k + 1 : cmdbuf'[i] = IF i = k + 1 THEN l ELSE cmdbuf[i]
        <5> HIDE DEF l
        <5> QED BY <1>1, <4>1, AppendProperties, SMT
      <4>3. \A i \in 1 .. k + 1 : i = k + 1 \/ i \in 1 .. k
        <5> HIDE DEF k
        <5> QED BY <4>1, SMT
      <4> QED BY <1>2, <3>1, <3>2, <4>2, <4>3
    <3>3. CASE ~(Len(cmdbuf) < ConRoom)
      BY <1>1, <1>2, <2>1, <3>1, <3>3
    <3> QED BY <3>2, <3>3
  <2>4. ConTypes'
    BY <1>4, <2>1, <2>3, Zenon DEF ConGood, ConTypes, ConNumbers
  <2>5. ConCollected(Len(conRx))'
    <3>1. ConStart' = ConStart
      BY <2>1 DEF ConStart
    <3>2. ConOffset(Len(conRx))' = o + 1
      BY <1>1, <1>4, <1>5, <1>8, <2>2, <3>1, SMT DEF ConOffset
    <3> QED BY <2>1, <2>2, <2>3, <3>2 DEF ConCollected
  <2>6. ConPlace'
    <3>1. ConUsb(conStack')
      BY <2>1 DEF ConInUsb
    <3> QED BY <1>6, <1>7, <2>5, <3>1 DEF ConPlace, ConInUsb, ConAnalyzes, ConHeld
  <2>7. ConRunsEachLine'
    BY <2>1 DEF ConGood, ConRunsEachLine
  <2> QED BY <1>7, <2>4, <2>6, <2>7 DEF ConGood
<1> QED BY <1>9, <1>10

(* A character of the host in a line that is spoilt: at the end of the     *)
(* line the host's characters are the next line again.                     *)
LEMMA ConGetsSpoilt ==
  ASSUME ConGood, ConInUsb, conRx # << >>, ConGets, conSpoilt = "line",
         UNCHANGED <<conHost, conEndpoint, inCDC_TASK>>
  PROVE  ConGood'
<1> DEFINE c == Head(conRx)
           p == (ConTaken - Len(conRx)) + 1
<1>1. /\ conRan \in Nat /\ cmdbuf \in Seq(Nat) /\ ConLetters \in Nat \ {0}
      /\ Len(conRx) \in Nat \ {0} /\ ConTaken \in Int
  <2>1. ConTaken \in Int
    BY SMT DEF ConGood, ConTypes, ConNumbers, ConTaken
  <2> QED
    BY <2>1, ConAssumption, ConRxTail DEF ConGood, ConTypes, ConNumbers, ConAssumption
<1>2. c = ConChar(p) /\ c.line \in Nat
  <2>1. 1 \in 1 .. Len(conRx)
    BY <1>1, SMT
  <2>2. c = ConChar(p)
    BY <2>1, ConRxTail DEF ConInUsb, ConAnalyzes, ConRxHost
  <2>3. c \in ConCharacter
    BY ConRxTail
  <2> QED BY <2>2, <2>3 DEF ConCharacter
<1>3. conRx' = Tail(conRx) /\ conRx' \in Seq(ConCharacter) /\ Len(conRx') = Len(conRx) - 1
  BY ConRxTail DEF ConGets
<1>4. ConTaken' = ConTaken
  BY DEF ConTaken
<1>5. ConRxHost'
  BY <1>3, <1>4, ConRxHostTail DEF ConInUsb, ConAnalyzes
<1>6. ConEndpointHost' /\ inCDC_TASK' = inCDC_TASK /\ inCDC_TASK
  BY <1>4 DEF ConGood, ConEndpointHost, ConInUsb, ConAnalyzes
<1>9. Len(conRx) <= ConTaken
  BY Zenon DEF ConInUsb, ConAnalyzes, ConHeld, ConCollected
<1>10. conSpoilt # "no" /\ conSpoilt = "line"
  OBVIOUS
<1> HIDE DEF c
<1>7. CASE c.end
  <2>1. p \in Nat \ {0}
    BY <1>1, <1>9, SMT
  <2>2. c.line * (ConLetters + 1) = p /\ c.line # ConRf
    <3>1. c.line * (ConLetters + 1) = p
      <4> HIDE DEF p
      <4> QED BY <1>2, <1>7, <2>1, ConAssumption, ConLastChar
    <3> QED BY <1>1, <2>1, <3>1, SMT DEF ConRf
  <2>3. ConEnds(c.line)
    BY <1>7, Zenon DEF ConGets, c
  <2>4. /\ conRan' = c.line /\ conSpoilt' = "no" /\ conLine' = << >> /\ cmdbuf' = cmdbuf
    <3>1. ConHasRun(c.line) /\ cmdbuf' = cmdbuf
      BY <1>10, <2>3, Zenon DEF ConEnds
    <3>2. /\ conLine' = << >>
          /\ conRan' = IF c.line = ConRf THEN conRan ELSE c.line
          /\ conSpoilt' = IF conSpoilt = "line" THEN "no" ELSE "ring"
      BY <1>10, <3>1, Zenon DEF ConHasRun
    <3> QED BY <1>10, <2>2, <3>1, <3>2
  <2>5. ConStart' = p /\ ConStart' \in Nat /\ ConTaken' = ConStart' + Len(conRx')
        /\ Len(conRx') \in Nat
    <3>1. ConStart' = p
      BY <2>2, <2>4 DEF ConStart
    <3>2. ConTaken = p + (Len(conRx) - 1) /\ Len(conRx) - 1 \in Nat
      BY <1>1, SMT
    <3>3. Len(conRx') = Len(conRx) - 1 /\ ConTaken' = ConTaken
      BY <1>3, <1>4
    <3> HIDE DEF p
    <3> QED BY <2>1, <3>1, <3>2, <3>3
  <2>6. ConRunsEachLine'
    BY <2>4 DEF ConRunsEachLine
  <2>7. CASE cmdbuf # << >>
    <3>1. PICK n \in ConOutput : conStack' = <<ConFrame("command", n)>> \o conStack
      BY <2>3, <2>7 DEF ConEnds
    <3>2. ConTypes'
      <4>1. conStack' \in Seq(ConFrames) /\ conRan' \in Nat
        BY <1>2, <2>4, <3>1, ConCommandPushed
      <4> QED BY <1>3, <2>4, <4>1, Zenon DEF ConGood, ConTypes, ConNumbers
    <3>3. ConPlace'
      <4>1. ConCommand(conStack')
        BY <3>1, ConCommandPushed DEF ConInUsb
      <4> QED BY <1>5, <1>6, <2>4, <2>5, <4>1 DEF ConPlace, ConInCommand, ConRuns, ConBetween
    <3> QED BY <1>6, <2>6, <3>2, <3>3 DEF ConGood
  <2>8. CASE cmdbuf = << >>
    <3>1. conStack' = conStack
      BY <2>3, <2>8, Zenon DEF ConEnds
    <3>2. ConTypes'
      BY <1>2, <1>3, <2>4, <3>1, Zenon DEF ConGood, ConTypes, ConNumbers
    <3>3. ConCollected(Len(conRx))'
      BY <2>4, <2>5, <2>8, ConEmptyCollected
    <3>4. ConPlace'
      BY <1>5, <1>6, <3>1, <3>3 DEF ConPlace, ConInUsb, ConAnalyzes, ConHeld
    <3> QED BY <1>6, <2>6, <3>2, <3>4 DEF ConGood
  <2> QED BY <2>7, <2>8
<1>8. CASE ~c.end
  <2>1. /\ cmdbuf' = IF Len(cmdbuf) < ConRoom THEN Append(cmdbuf, c.line) ELSE cmdbuf
        /\ UNCHANGED <<conStack, conRan, conLine, conSpoilt>>
    BY <1>8, Zenon DEF ConGets, ConCollects, c
  <2>2. cmdbuf' \in Seq(Nat)
    BY <1>1, <1>2, <2>1, AppendProperties
  <2>3. ConTypes'
    BY <1>3, <2>1, <2>2, Zenon DEF ConGood, ConTypes, ConNumbers
  <2>4. ConPlace'
    <3>1. Len(conRx') <= ConTaken'
      BY <1>1, <1>3, <1>4, <1>9, SMT
    <3> QED BY <1>5, <1>6, <2>1, <3>1 DEF ConPlace, ConInUsb, ConAnalyzes, ConHeld
  <2>5. ConRunsEachLine'
    BY <2>1 DEF ConGood, ConRunsEachLine
  <2> QED BY <1>6, <2>3, <2>4, <2>5 DEF ConGood
<1> QED BY <1>7, <1>8

(* A character of the router's command, with nothing of the host in it.    *)
LEMMA ConGetsRouter ==
  ASSUME ConGood, ConInRouter, conRx # << >>, ConGets,
         UNCHANGED <<conHost, conEndpoint, inCDC_TASK>>
  PROVE  ConGood'
<1> DEFINE c == Head(conRx)
           o == Len(cmdbuf)
           k == Len(conRx)
<1>1. /\ conRan \in Nat /\ cmdbuf \in Seq(Nat) /\ o \in Nat /\ k \in Nat \ {0}
      /\ ConRfLetters \in Nat \ {0} /\ ConRfLetters + 1 <= ConRoom /\ ConRoom \in Nat
  <2>1. ConRfLetters \in Nat \ {0} /\ ConRfLetters + 1 <= ConRoom /\ ConRoom \in Nat
    BY ConAssumption, ConRfLettersNat, SMT DEF ConAssumption
  <2> QED BY <2>1, ConRxTail DEF ConGood, ConTypes, ConNumbers
<1>2. /\ o + k = ConRfLetters + 1
      /\ \A i \in 1 .. o : cmdbuf[i] = ConRf
      /\ \A i \in 1 .. k : conRx[i] = [line |-> ConRf, end |-> i = k]
  BY DEF ConInRouter, ConAnalyzesRf, ConRxRouter
<1>3. c.line = ConRf /\ (c.end <=> k = 1)
  <2>1. 1 \in 1 .. k
    <3> HIDE DEF k
    <3> QED BY <1>1, SMT
  <2>2. c = [line |-> ConRf, end |-> 1 = k]
    BY <1>2, <2>1, ConRxTail
  <2>3. (1 = k) \in BOOLEAN /\ ((1 = k) <=> k = 1)
    OBVIOUS
  <2> HIDE DEF c, k
  <2> QED BY <2>2, <2>3, Zenon
<1>4. conRx' = Tail(conRx) /\ conRx' \in Seq(ConCharacter) /\ Len(conRx') = k - 1
  BY ConRxTail DEF ConGets
<1>5. ConTaken' = ConTaken /\ conSpoilt = "no" /\ ConTaken = ConStart + 0
  BY DEF ConTaken, ConInRouter, ConAnalyzesRf, ConBetween
<1>6. ConEndpointHost' /\ ~inCDC_TASK'
  BY <1>5 DEF ConGood, ConEndpointHost, ConInRouter, ConAnalyzesRf
<1>7. CASE k = 1
  <2>1. o = ConRfLetters /\ c.end /\ cmdbuf # << >>
    <3>1. o = ConRfLetters /\ o # 0
      <4> HIDE DEF o, k
      <4> QED BY <1>1, <1>2, <1>7, SMT
    <3>2. cmdbuf # << >>
      BY <3>1
    <3> QED BY <1>3, <1>7, <3>1, <3>2
  <2>2. ConEnds(c.line)
    BY <2>1, Zenon DEF ConGets
  <2>3. PICK n \in ConOutput : conStack' = <<ConFrame("command", n)>> \o conStack
    BY <2>1, <2>2 DEF ConEnds
  <2>4. /\ conRan' = conRan + (IF c.line = ConRf THEN 0 ELSE 1)
        /\ conLine' = cmdbuf /\ cmdbuf' = cmdbuf /\ conSpoilt' = "no"
    BY <1>5, <2>1, <2>2, Zenon DEF ConEnds, ConHasRun
  <2>5. conRan' = conRan
    BY <1>1, <1>3, <2>4
  <2>6. conLine' = ConRfText
    <3>1. cmdbuf = [i \in 1 .. ConRfLetters |-> ConRf]
      BY <1>1, <1>2, <2>1, ConWholeLine
    <3> QED BY <2>4, <3>1 DEF ConRfText
  <2>7. ConBetween(0)'
    BY <1>5, <2>4, <2>5 DEF ConBetween, ConStart
  <2>8. conRx' = << >>
    <3>1. Len(conRx') = 0
      BY <1>4, <1>7
    <3> QED BY <1>4, <3>1, SMT
  <2>9. ConTypes'
    <3>1. conStack' \in Seq(ConFrames) /\ conRan' \in Nat
      BY <1>1, <2>3, <2>5, ConCommandPushed
    <3> QED BY <1>4, <2>4, <3>1, Zenon DEF ConGood, ConTypes, ConNumbers
  <2>10. ConPlace'
    <3>1. ConRfCommand(conStack')
      BY <2>3, ConCommandPushed DEF ConInRouter
    <3> QED BY <1>6, <2>7, <2>8, <3>1 DEF ConPlace, ConInRfCommand, ConRunsRf
  <2> QED BY <1>6, <2>6, <2>9, <2>10 DEF ConGood, ConRunsEachLine
<1>8. CASE k # 1
  <2>1. /\ cmdbuf' = Append(cmdbuf, ConRf)
        /\ UNCHANGED <<conStack, conRan, conLine, conSpoilt>>
    <3>1. o < ConRoom
      <4> HIDE DEF o, k
      <4> QED BY <1>1, <1>2, SMT
    <3> QED BY <1>3, <1>8, <3>1, Zenon DEF ConGets, ConCollects
  <2>2. /\ cmdbuf' \in Seq(Nat) /\ Len(cmdbuf') = o + 1
        /\ \A i \in 1 .. o + 1 : cmdbuf'[i] = IF i = o + 1 THEN ConRf ELSE cmdbuf[i]
    <3>1. ConRf \in Nat
      BY DEF ConRf
    <3> QED BY <1>1, <2>1, <3>1, AppendProperties, SMT
  <2>3. ConTypes'
    BY <1>4, <2>1, <2>2, Zenon DEF ConGood, ConTypes, ConNumbers
  <2>4. ConRxRouter'
    <3>1. \A i \in 1 .. Len(cmdbuf') : cmdbuf'[i] = ConRf
      <4>1. \A i \in 1 .. o + 1 : i = o + 1 \/ i \in 1 .. o
        <5> HIDE DEF o
        <5> QED BY <1>1, SMT
      <4> QED BY <1>2, <2>2, <4>1
    <3>2. ASSUME NEW i \in 1 .. Len(conRx')
          PROVE  conRx'[i] = [line |-> ConRf, end |-> i = Len(conRx')]
      <4>1. i \in 1 .. k - 1 /\ i + 1 \in 1 .. k /\ (i + 1 = k <=> i = k - 1)
        <5> HIDE DEF k
        <5> QED BY <1>1, <1>4, SMT
      <4>2. conRx'[i] = conRx[i + 1]
        BY <1>4, <4>1, ConRxTail
      <4>3. conRx[i + 1] = [line |-> ConRf, end |-> i + 1 = k]
        BY <1>2, <4>1
      <4> QED BY <1>4, <4>1, <4>2, <4>3
    <3>3. Len(cmdbuf') + Len(conRx') = ConRfLetters + 1 /\ Len(conRx') # 0
      <4>1. /\ o \in Nat /\ k \in Nat \ {0} /\ ConRfLetters \in Nat /\ k # 1
            /\ o + k = ConRfLetters + 1 /\ Len(conRx') = k - 1 /\ Len(cmdbuf') = o + 1
        BY <1>1, <1>2, <1>4, <1>8, <2>2
      <4> HIDE DEF c, o, k
      <4> QED BY <4>1, SMT
    <3>4. conRx' # << >>
      BY <3>3
    <3> QED BY <3>1, <3>2, <3>3, <3>4 DEF ConRxRouter
  <2>5. ConBetween(0)'
    BY <1>5, <2>1 DEF ConBetween, ConStart
  <2>6. ConPlace'
    <3>1. ConRouter(conStack')
      BY <2>1 DEF ConInRouter
    <3> QED BY <1>6, <2>4, <2>5, <3>1 DEF ConPlace, ConInRouter, ConAnalyzesRf
  <2>7. ConRunsEachLine'
    BY <2>1 DEF ConGood, ConRunsEachLine
  <2> QED BY <1>6, <2>3, <2>6, <2>7 DEF ConGood
<1> QED BY <1>7, <1>8

LEMMA ConAnalyzeGood ==
  ASSUME ConGood, analyze_ttydata
  PROVE  ConGood'
<1>1. CASE conRx = << >>
  BY <1>1, ConAnalyzed
<1>2. CASE conRx # << >>
  <2>1. ConGets /\ UNCHANGED <<conHost, conEndpoint, inCDC_TASK>>
    BY <1>2, Zenon DEF analyze_ttydata
  <2>2. ConInUsb \/ ConInRouter
    <3>1. conStack # << >> /\ conStack[1].kind \in {"usb", "router"}
      BY DEF analyze_ttydata, ConTop
    <3> QED
      BY <3>1, Zenon
         DEF ConGood, ConPlace, ConAtBase, ConInUsb, ConInCommand, ConInShow, ConInRouter,
             ConInRfCommand, ConBase, ConUsb, ConCommand, ConShowing, ConRouter,
             ConRfCommand, ConOnTop
  <2>3. ConInUsb => conSpoilt = "no" \/ conSpoilt = "line"
    BY Zenon DEF ConInUsb, ConAnalyzes, ConHeld, ConCollected
  <2> QED BY <1>2, <2>1, <2>2, <2>3, ConGetsHost, ConGetsSpoilt, ConGetsRouter
<1> QED BY <1>1, <1>2

(* How the history of what is spoilt goes on, and what is run meanwhile.   *)
ConSpoiling == conSpoilt \in {"no", "line", "ring"}

ConSpoils ==
  \/ UNCHANGED <<conSpoilt, conRan, conLine>>
  \/ conSpoilt' = "ring" /\ UNCHANGED <<conRan, conLine>>
  \/ conSpoilt # "ring" /\ conSpoilt' = "no"
  \/ conSpoilt' = "ring" /\ conSpoilt = "ring" /\ conLine' = << >>

ConSettling ==
  /\ conSpoilt = "ring" /\ conSpoilt' = "line"
  /\ UNCHANGED <<conRan, conLine, conHost, conEndpoint, conRx>>
  /\ conStack # << >> /\ conRx = << >> /\ ~ConRoutes(ConBelow)
  /\ \/ ConTop.kind \in {"usb", "router"} /\ conStack' = ConBelow /\ ConLeavesCDC
     \/ /\ ConTop.kind = "show" /\ conStack' = <<ConFrame("report", 1)>> \o ConBelow
        /\ UNCHANGED inCDC_TASK

LEMMA ConSpoilsOrSettles ==
  ASSUME ConNext, ConSpoiling
  PROVE  ConSpoils \/ ConSettling
<1>1. ASSUME NEW st, NEW tx, CDC_Task(st, tx), UNCHANGED <<conRan, conLine>>
      PROVE  ConSpoils
  BY <1>1, Zenon DEF CDC_Task, ConSpoils
<1>2. CASE ConHostSends \/ ConTelegram \/ ConReturn
  BY <1>2, Zenon DEF ConHostSends, ConTelegram, ConReturn, ConSpoils
<1>3. CASE ConMainLoop
  BY <1>1, <1>3, Zenon DEF ConMainLoop
<1>4. CASE rf_router_task
  <2>1. UNCHANGED <<conRan, conLine>>
    BY <1>4, Zenon DEF rf_router_task
  <2>2. PICK kind \in {"show", "router"} :
          conSpoilt' = IF conSpoilt # "no" \/ (kind = "router" /\ cmdbuf # << >>)
                       THEN "ring" ELSE "no"
    BY <1>4, Zenon DEF rf_router_task
  <2> QED BY <2>1, <2>2, Zenon DEF ConSpoils
<1>5. CASE analyze_ttydata
  <2>1. CASE conRx # << >>
    <3>1. ConGets
      BY <1>5, <2>1, Zenon DEF analyze_ttydata
    <3>2. \/ UNCHANGED <<conSpoilt, conRan, conLine>>
          \/ \E line : ConHasRun(line)
      BY <3>1, Zenon DEF ConGets, ConEnds
    <3>3. ASSUME NEW line, ConHasRun(line) PROVE ConSpoils
      <4>1. CASE conSpoilt = "no"
        <5>1. conSpoilt # "ring" /\ conSpoilt' = "no"
          <6>1. conSpoilt' = conSpoilt
            BY <3>3, <4>1, Zenon DEF ConHasRun
          <6> QED BY <4>1, <6>1
        <5> QED BY <5>1, Zenon DEF ConSpoils
      <4>2. CASE conSpoilt # "no"
        <5>1. /\ conLine' = << >>
              /\ conSpoilt' = IF conSpoilt = "line" THEN "no" ELSE "ring"
          BY <3>3, <4>2, Zenon DEF ConHasRun
        <5>2. \/ conSpoilt # "ring" /\ conSpoilt' = "no"
              \/ conSpoilt = "ring" /\ conSpoilt' = "ring"
          BY <4>2, <5>1 DEF ConSpoiling
        <5> QED BY <5>1, <5>2, Zenon DEF ConSpoils
      <4> QED BY <4>1, <4>2
    <3>4. UNCHANGED <<conSpoilt, conRan, conLine>> => ConSpoils
      BY Zenon DEF ConSpoils
    <3> QED BY <3>2, <3>3, <3>4
  <2>2. CASE conRx = << >>
    <3>1. /\ conStack # << >> /\ ConTop.kind \in {"usb", "router"}
          /\ conStack' = ConBelow /\ ConLeavesCDC /\ ConSettles(ConBelow)
          /\ UNCHANGED <<conRan, conLine, conHost, conEndpoint, conRx>>
      BY <1>5, <2>2, Zenon DEF analyze_ttydata
    <3>2. CASE conSpoilt' = conSpoilt
      BY <3>1, <3>2, Zenon DEF ConSpoils
    <3>3. CASE conSpoilt' # conSpoilt
      <4>1. conSpoilt = "ring" /\ ~ConRoutes(ConBelow) /\ conSpoilt' = "line"
        BY <3>1, <3>3, Zenon DEF ConSettles
      <4> QED BY <2>2, <3>1, <4>1, Zenon DEF ConSettling
    <3> QED BY <3>2, <3>3
  <2> QED BY <2>1, <2>2
<1>6. CASE display_char
  <2>1. UNCHANGED <<conRan, conLine>>
    BY <1>6, Zenon DEF display_char
  <2>2. (\E st, tx : CDC_Task(st, tx)) \/ UNCHANGED conSpoilt
    BY <1>6, Zenon DEF display_char
  <2> QED BY <1>1, <2>1, <2>2, Zenon DEF ConSpoils
<1>7. CASE ConShow
  <2>1. /\ conStack # << >> /\ ConTop.kind = "show"
        /\ UNCHANGED <<conRan, conLine, conHost, conEndpoint, inCDC_TASK>>
    BY <1>7, Zenon DEF ConShow
  <2>2. CASE conSpoilt' = conSpoilt
    BY <2>1, <2>2, Zenon DEF ConSpoils
  <2>3. CASE conSpoilt' # conSpoilt
    <3>1. /\ conRx = << >> /\ UNCHANGED conRx /\ ConSettles(ConBelow)
          /\ conStack' = <<ConFrame("report", 1)>> \o ConBelow
      BY <1>7, <2>3, Zenon DEF ConShow
    <3>2. conSpoilt = "ring" /\ ~ConRoutes(ConBelow) /\ conSpoilt' = "line"
      BY <2>3, <3>1, Zenon DEF ConSettles
    <3> QED BY <2>1, <3>1, <3>2, Zenon DEF ConSettling
  <2> QED BY <2>2, <2>3
<1> QED BY <1>2, <1>3, <1>4, <1>5, <1>6, <1>7, Zenon DEF ConNext, ConProcess

(* Once the ring is empty and the router has returned, only the line that  *)
(* has begun is spoilt.                                                    *)
LEMMA ConSettledPlace ==
  ASSUME ConDepth, ConDepth', ConTypes, ConSettling
  PROVE  ConPlace'
<1>1. ~inCDC_TASK'
  <2>1. CASE ConTop.kind = "usb" /\ ConLeavesCDC
    <3>1. inCDC_TASK' = FALSE
      BY <2>1, Zenon DEF ConLeavesCDC
    <3> QED BY <3>1
  <2>2. CASE ConTop.kind \in {"router", "show"} /\ inCDC_TASK' \in {inCDC_TASK, ConTop.kind # "usb" /\ inCDC_TASK}
    <3>1. ~inCDC_TASK
      BY <2>2, Zenon DEF ConDepth, ConWithin, ConReading, ConOnTop, ConTop
    <3> QED BY <2>2, <3>1, Zenon
  <2> QED BY <2>1, <2>2, Zenon DEF ConSettling, ConLeavesCDC
<1>2. conStack \in Seq(ConFrames) /\ conStack' \in Seq(ConFrames)
  BY DEF ConDepth
<1>3. ConBase(conStack')
  <2>1. CASE conStack' = ConBelow
    <3>1. ConOuter(conStack') /\ ~ConRoutes(conStack')
      BY <1>1, <2>1, Zenon DEF ConDepth, ConSettling
    <3>2. conStack' # << >> => 1 \in DOMAIN conStack'
      BY <1>2, SMT
    <3>3. conStack' # << >> => conStack'[1].kind \notin {"show", "router"}
      BY <3>1, <3>2, Zenon DEF ConRoutes
    <3>4. ~ConRfCommand(conStack')
      <4> SUFFICES ASSUME ConRfCommand(conStack') PROVE FALSE
        OBVIOUS
      <4>1. /\ conStack' # << >> /\ Tail(conStack') # << >>
            /\ Tail(conStack')[1].kind = "router"
        BY Zenon DEF ConRfCommand, ConRouter, ConOnTop
      <4>2. 2 \in DOMAIN conStack' /\ conStack'[2] = Tail(conStack')[1]
        BY <1>2, <4>1, SMT
      <4> QED BY <3>1, <4>1, <4>2, Zenon DEF ConRoutes
    <3> QED BY <3>1, <3>3, <3>4, Zenon DEF ConOuter, ConBase, ConOnTop
  <2>2. CASE ConTop.kind = "show" /\ conStack' = <<ConFrame("report", 1)>> \o ConBelow
    <3> DEFINE f == ConFrame("report", 1)
    <3>1. f \in ConFrames /\ f.kind = "report"
      BY DEF ConFrame, ConFrames
    <3>2. conStack # << >> /\ conStack[1].kind = "show"
      BY <2>2, Zenon DEF ConSettling, ConTop
    <3>3. Tail(conStack) = << >>
      <4>1. ~inCDC_TASK
        BY <3>2, Zenon DEF ConDepth, ConWithin, ConReading, ConOnTop
      <4> QED BY <3>2, <4>1, Zenon DEF ConDepth, ConOuter, ConRfCommand, ConOnTop
    <3>4. conStack' = <<f>> \o Tail(conStack) /\ Tail(conStack) \in Seq(ConFrames)
      BY <2>2, <3>2, ConDepthTop DEF ConBelow
    <3> HIDE DEF f
    <3>5. conStack' # << >> /\ conStack'[1] = f /\ Tail(conStack') = Tail(conStack)
      BY <3>1, <3>4, ConPushes
    <3> QED BY <3>1, <3>3, <3>5, Zenon DEF ConBase, ConOnTop
  <2> QED BY <2>1, <2>2, Zenon DEF ConSettling
<1>4. conRx' = << >> /\ conSpoilt' = "line" /\ ConTaken' = ConTaken
  BY Zenon DEF ConSettling, ConTaken
<1>5. 0 <= ConTaken
  BY SMT DEF ConTypes, ConNumbers, ConTaken
<1>6. 0 <= ConTaken'
  BY <1>4, <1>5
<1> QED BY <1>1, <1>3, <1>4, <1>6 DEF ConPlace, ConAtBase, ConWaits, ConHeld

(* What is left in the endpoint is the host's, whatever else happens. *)
LEMMA ConEndpointKept ==
  ASSUME ConTypes, ConEndpointHost, ConNext
  PROVE  ConEndpointHost'
<1>1. CASE ConHostSends
  <2>1. PICK n \in 1 .. ConBank :
          /\ conHost' = conHost + n
          /\ conEndpoint' = [i \in 1 .. n |-> ConChar(conHost + i)]
    BY <1>1 DEF ConHostSends
  <2>2. n \in Nat /\ conHost \in Nat
    BY ConAssumption, SMT DEF ConAssumption, ConTypes, ConNumbers
  <2>3. /\ Len(conEndpoint') = n
        /\ \A i \in 1 .. n : conEndpoint'[i] = ConChar(conHost + i)
    <3> DEFINE c(i) == ConChar(conHost + i)
    <3>1. conEndpoint' = [i \in 1 .. n |-> c(i)]
      BY <2>1
    <3> HIDE DEF c
    <3>2. Len(conEndpoint') = n /\ \A i \in 1 .. n : conEndpoint'[i] = c(i)
      BY <2>2, <3>1, SMT
    <3> QED BY <3>2 DEF c
  <2>4. ConTaken' = conHost
    BY <2>1, <2>2, <2>3, SMT DEF ConTaken
  <2> QED BY <2>3, <2>4 DEF ConEndpointHost
<1>2. CASE ~ConHostSends
  <2>1. \/ UNCHANGED <<conHost, conEndpoint>>
        \/ conEndpoint' = << >>
    BY <1>2, Zenon
       DEF ConNext, ConProcess, ConMainLoop, CDC_Task, ConTelegram, rf_router_task,
           analyze_ttydata, ConReturn, display_char, ConShow
  <2>2. CASE UNCHANGED <<conHost, conEndpoint>>
    BY <2>2 DEF ConEndpointHost, ConTaken
  <2>3. CASE conEndpoint' = << >>
    BY <2>3, SMT DEF ConEndpointHost
  <2> QED BY <2>1, <2>2, <2>3
<1> QED BY <1>1, <1>2

(* A line is known to be whole where nothing is spoilt; what is known of   *)
(* the stack and of the endpoint holds in every state.                     *)
ConInv ==
  /\ ConDepth /\ ConCounts /\ ConSpoiling /\ ConEndpointHost
  /\ conSpoilt # "ring" => ConPlace
  /\ ConRunsEachLine

LEMMA ConTyped ==
  ASSUME ConDepth, ConCounts
  PROVE  ConTypes
<1>1. conHost \in Nat
  <2>1. ConLines \in Nat /\ ConLetters \in Nat
    BY ConAssumption DEF ConAssumption
  <2> QED BY <2>1, SMT DEF ConCounts
<1>2. \A s \in Seq(ConLetter) : s \in Seq(ConCharacter)
  <2>1. ConLines \in Nat
    BY ConAssumption DEF ConAssumption
  <2>2. \A n \in 0 .. ConLines + 1 : n \in Nat
    BY <2>1, SMT
  <2>3. \A c \in ConLetter : c \in ConCharacter
    BY <2>2, Zenon DEF ConLetter, ConCharacter
  <2> QED BY <2>3, SMT
<1> QED BY <1>1, <1>2, Zenon DEF ConTypes, ConNumbers, ConDepth, ConCounts

LEMMA ConStarts == ConInit => ConInv
<1> SUFFICES ASSUME ConInit PROVE ConInv
  OBVIOUS
<1>1. /\ conHost = 0 /\ conEndpoint = << >> /\ conRx = << >> /\ cmdbuf = << >>
      /\ inCDC_TASK = FALSE /\ conStack = << >> /\ conRan = 0 /\ conLine = << >>
      /\ conSpoilt = "no" /\ conTx = 0 /\ conRf = 0
  BY DEF ConInit
<1>2. /\ Len(conEndpoint) = 0 /\ Len(conRx) = 0 /\ Len(cmdbuf) = 0
      /\ ConLetters \in Nat /\ ConRoom \in Nat /\ ConLines \in Nat /\ ConPackets \in Nat
  BY <1>1, ConAssumption DEF ConAssumption
<1>3. << >> \in Seq(ConLetter) /\ << >> \in Seq(Nat) /\ << >> \in Seq(ConFrames)
  OBVIOUS
<1>4. ConCounts
  <2>1. ConLines * (ConLetters + 1) \in Nat
    BY <1>2, SMT
  <2> QED BY <1>1, <1>2, <1>3, <2>1 DEF ConCounts
<1>5. ConDepth
  BY <1>1, <1>3 DEF ConDepth, ConOuter
<1>6. ConCollected(0)
  <2>1. ConTaken = 0 - 0 /\ ConStart = 0 * (ConLetters + 1)
    BY <1>1, <1>2, Zenon DEF ConTaken, ConStart
  <2>2. ConOffset(0) = 0
    BY <1>2, <2>1, SMT DEF ConOffset
  <2>3. ConCut(0) = 0 /\ 0 \in 0 .. ConLetters
    BY <1>2, SMT DEF ConCut
  <2> QED BY <1>1, <1>2, <2>2, <2>3, SMT DEF ConCollected
<1>7. ConPlace
  BY <1>1, <1>6 DEF ConPlace, ConAtBase, ConBase, ConWaits, ConHeld
<1>8. ConEndpointHost
  BY <1>2, SMT DEF ConEndpointHost
<1>9. ConRunsEachLine
  BY <1>1 DEF ConRunsEachLine
<1> QED BY <1>1, <1>4, <1>5, <1>7, <1>8, <1>9 DEF ConInv, ConSpoiling

LEMMA ConStays == ConInv /\ [ConNext]_conVars => ConInv'
<1> SUFFICES ASSUME ConInv, [ConNext]_conVars PROVE ConInv'
  OBVIOUS
<1>1. ConDepth' /\ ConCounts'
  BY ConDepthKept, ConCountsKept DEF ConInv
<1>2. CASE ConNext
  <2>1. ConTypes
    BY ConTyped DEF ConInv
  <2>2. ConEndpointHost'
    BY <1>2, <2>1, ConEndpointKept DEF ConInv
  <2>3. CASE conSpoilt # "ring" /\ conSpoilt' # "ring"
    <3>1. ConGood
      BY <2>1, <2>3, Zenon DEF ConInv, ConGood
    <3>2. ConGood'
      <4>1. CASE ConHostSends
        BY <3>1, <4>1, ConHostGood
      <4>2. CASE ConMainLoop
        BY <2>3, <3>1, <4>2, ConMainLoopGood
      <4>3. CASE ConTelegram
        BY <3>1, <4>3, ConTelegramGood
      <4>4. CASE rf_router_task
        BY <2>3, <3>1, <4>4, ConRouterGood
      <4>5. CASE analyze_ttydata
        BY <3>1, <4>5, ConAnalyzeGood
      <4>6. CASE ConReturn
        BY <3>1, <4>6, ConReturnGood
      <4>7. CASE display_char
        BY <2>3, <3>1, <4>7, ConDisplayGood
      <4>8. CASE ConShow
        BY <3>1, <4>8, ConShowGood
      <4> QED
        BY <1>2, <4>1, <4>2, <4>3, <4>4, <4>5, <4>6, <4>7, <4>8, Zenon
           DEF ConNext, ConProcess
    <3>3. ConSpoiling'
      <4>1. ConSpoils \/ ConSettling
        BY <1>2, ConSpoilsOrSettles DEF ConInv
      <4> QED BY <4>1, Zenon DEF ConInv, ConSpoils, ConSettling, ConSpoiling
    <3> QED BY <1>1, <3>2, <3>3, Zenon DEF ConInv, ConGood
  <2>4. CASE conSpoilt = "ring" \/ conSpoilt' = "ring"
    <3>1. ConSpoils \/ ConSettling
      BY <1>2, ConSpoilsOrSettles DEF ConInv
    <3>2. CASE ConSettling
      <4>1. ConPlace'
        BY <1>1, <2>1, <3>2, ConSettledPlace DEF ConInv
      <4>2. conSpoilt' = "line" /\ UNCHANGED <<conRan, conLine>>
        BY <3>2, Zenon DEF ConSettling
      <4>3. ConRunsEachLine'
        BY <4>2 DEF ConInv, ConRunsEachLine
      <4> QED BY <1>1, <2>2, <4>1, <4>2, <4>3, Zenon DEF ConInv, ConSpoiling
    <3>3. CASE ConSpoils
      <4>1. /\ conSpoilt' = "ring"
            /\ conLine' = << >> \/ UNCHANGED <<conRan, conLine>>
        BY <2>4, <3>3 DEF ConSpoils
      <4>2. ConRunsEachLine'
        BY <4>1 DEF ConInv, ConRunsEachLine
      <4> QED BY <1>1, <2>2, <4>1, <4>2, Zenon DEF ConInv, ConSpoiling
    <3> QED BY <3>1, <3>2, <3>3
  <2> QED BY <2>3, <2>4
<1>3. CASE UNCHANGED conVars
  <2>1. ConKept /\ conStack' = conStack /\ conSpoilt' = conSpoilt
    BY <1>3, Zenon DEF conVars, ConKept
  <2>2. (ConPlace' <=> ConPlace) /\ (ConSpoiling' <=> ConSpoiling)
    BY <2>1, ConKeeps, Zenon
       DEF ConPlace, ConAtBase, ConInUsb, ConInCommand, ConInShow, ConInRouter,
           ConInRfCommand, ConSpoiling
  <2>3. ConEndpointHost' /\ ConRunsEachLine'
    BY <2>1, ConKeeps, Zenon DEF ConInv
  <2> QED BY <1>1, <2>1, <2>2, <2>3, Zenon DEF ConInv
<1> QED BY <1>2, <1>3

(* What analyze_ttydata runs is a line of the host, each one once and in   *)
(* order and as far as cmdbuf has room, or a command of the router, for    *)
(* every length of the lines, of the packets of the endpoint and of the    *)
(* buffers, however the displays of commands and telegrams call CDC_Task   *)
(* again; and what a full ring or the router spoils ends with its line.    *)
THEOREM LinesRunWhole == ConSpec => []ConRunsEachLine
<1>1. ConInv => ConRunsEachLine
  BY DEF ConInv
<1> QED BY <1>1, ConStarts, ConStays, PTL DEF ConSpec

(* CDC_Task is entered at most once at a time and at most four calls are   *)
(* nested (a command of the host inside CDC_Task inside a command of the   *)
(* router), whoever displays what: inCDC_TASK of cdc.c does not let the    *)
(* stack grow.  Neither ring outgrows TTY_BUFSIZE, nor does cmdbuf.        *)
THEOREM ConTypeCorrect == ConSpec => []ConTypeOK
<1>1. ConInv => ConTypeOK
  <2> SUFFICES ASSUME ConInv PROVE ConTypeOK
    OBVIOUS
  <2>1. Len(conStack) <= 4
    BY ConDepthBounded DEF ConInv
  <2>2. \A i \in DOMAIN conStack : conStack[i] \in ConFrames
    <3>1. conStack \in Seq(ConFrames)
      BY DEF ConInv, ConDepth
    <3> QED BY <3>1
  <2> QED
    BY <2>1, <2>2, Zenon
       DEF ConInv, ConDepth, ConCounts, ConLetter, ConFrames, ConSpoiling, ConTypeOK
<1> QED BY <1>1, ConStarts, ConStays, PTL DEF ConSpec
=============================================================================
