------------------------- MODULE RepeatFilterProofs -------------------------
(***************************************************************************)
(* What is reported, and what the RF router makes of it: the repeat filter *)
(* for every set of telegrams, every time out and every order of reports,  *)
(* X commands and interrupts, the lines gathered for the base for all      *)
(* house codes, every room and every delay, and the values FastRF counts   *)
(* with for every size of the FIFO of the radio chip.                      *)
(***************************************************************************)
EXTENDS RepeatFilter, RfRouter, FastRf, SequenceTheorems, TLAPS

RepFilters == "repeated" \notin txReport

(* A value of RepUp that is above 1 was counted from one above 0. *)
LEMMA UpCounts ==
  ASSUME NEW n \in 0 .. 3
  PROVE  RepUp(n) \in 1 .. 3 /\ (n >= 1 => RepUp(n) > 1) /\ (n = 0 => RepUp(n) = 1)
  BY SMT DEF RepUp

LEMMA TwiceBits ==
  ASSUME checkForRepeatedPackage, RepType[repDatum] = "twice"
  PROVE  packageOK' = (isrep /\ ~isnotrep) /\ isnotrep' = isrep
  BY Zenon DEF checkForRepeatedPackage, RepTwice

LEMMA PlainBits ==
  ASSUME checkForRepeatedPackage, RepType[repDatum] # "twice"
  PROVE  packageOK' = (~isrep) /\ isnotrep' = isnotrep
  BY Zenon DEF checkForRepeatedPackage, RepPlain

-----------------------------------------------------------------------------
(* The type invariant. *)
THEOREM RepTypeCorrect == RepSpec => []RepTypeOK
<1> USE RepAssumption
<1>1. RepInit => RepTypeOK
  <2> SUFFICES ASSUME RepInit PROVE RepTypeOK
    OBVIOUS
  <2>1. isrep \in BOOLEAN /\ isnotrep \in BOOLEAN /\ packageOK \in BOOLEAN
        /\ repNoise \in BOOLEAN
    BY Zenon DEF RepInit
  <2> QED BY <2>1 DEF RepInit, RepTypeOK
<1>2. RepTypeOK /\ [RepNext]_repVars => RepTypeOK'
  <2> SUFFICES ASSUME RepTypeOK, [RepNext]_repVars PROVE RepTypeOK'
    OBVIOUS
  <2> USE DEF RepTypeOK
  <2>1. CASE RepSetReport
    BY <2>1 DEF RepSetReport, repBits, repHistory
  <2>2. CASE RepTick
    BY <2>2 DEF RepTick, repBits, repHistory
  <2>3. CASE RepResetInput
    BY <2>3 DEF RepResetInput
  <2>4. ASSUME NEW d \in RepData, RepCompare(d) PROVE RepTypeOK'
    <3>1. isrep' \in BOOLEAN /\ isnotrep' \in BOOLEAN /\ packageOK' \in BOOLEAN
      BY <2>4, Zenon DEF RepCompare
    <3>2. RepUp(repRun) \in 0 .. 3
      BY UpCounts
    <3>3. repNoise' \in BOOLEAN
      BY <2>4, Zenon DEF RepCompare
    <3>4. repAge' \in 0 .. REPTIME /\ robuf' \in RepData \cup {RepNone}
      BY <2>4 DEF RepCompare
    <3>5. repRun' \in 0 .. 3 /\ repShown' \in 0 .. 3
      BY <2>4, <3>2 DEF RepCompare
    <3> QED BY <2>4, <3>1, <3>3, <3>4, <3>5 DEF RepCompare
  <2>5. CASE RepCheck
    <3>1. packageOK' \in BOOLEAN /\ isnotrep' \in BOOLEAN
      BY <2>5, TwiceBits, PlainBits, Zenon DEF RepCheck
    <3> QED BY <2>5, <3>1 DEF RepCheck, repHistory
  <2>6. CASE RepReport
    <3>1. packageOK' \in BOOLEAN
      BY <2>6, Zenon DEF RepReport
    <3>2. RepUp(repShown) \in 0 .. 3
      BY UpCounts
    <3> QED BY <2>6, <3>1, <3>2 DEF RepReport
  <2>7. CASE UNCHANGED repVars
    BY <2>7 DEF repVars, repBits, repHistory
  <2> QED BY <2>1, <2>2, <2>3, <2>4, <2>5, <2>6, <2>7 DEF RepNext, RepAnalyze
<1> QED BY <1>1, <1>2, PTL DEF RepSpec

-----------------------------------------------------------------------------
(* The telegram being filtered is the last telegram, and one of the kind   *)
(* that must come twice passes only behind another one of its run.         *)
RepInRun ==
  /\ robuf # RepNone => repRun >= 1
  /\ repPc # "idle" /\ RepFilters => robuf = repDatum
  /\ repPc = "check" /\ RepFilters /\ RepType[repDatum] = "twice" => (isrep => repRun > 1)
  /\ repPc = "report" /\ RepFilters /\ RepType[repDatum] = "twice" => (packageOK => repRun > 1)

(* What keeps a telegram that was reported from being reported again:      *)
(* isrep for most, and isnotrep for those that must come twice.            *)
RepSilent ==
  /\ repShown <= 1
  /\ repShown = 1 /\ RepType[robuf] = "twice" => isnotrep
  /\ repPc = "check" /\ repShown = 1 => isrep
  /\ repPc = "report" /\ repShown = 1 => ~packageOK
  /\ repPc = "report" /\ packageOK /\ RepType[robuf] = "twice" => isnotrep

(* Without the filter every telegram begins a run, as a repetition. *)
RepAlone ==
  repPc = "check" /\ ~RepFilters => isrep /\ repShown = 0

RepInv == RepTypeOK /\ RepInRun /\ RepAlone /\ (repNoise \/ RepSilent)

LEMMA CompareKeepsInv ==
  ASSUME RepInv, RepTypeOK', NEW d \in RepData, RepCompare(d)
  PROVE  RepInv'
<1> USE RepAssumption
<1>1. /\ isrep' = (~RepFilters \/ RepSame(d) \/ (RepType[d] = "fhtproto" /\ "fhtproto" \notin txReport))
      /\ isnotrep' = (isnotrep /\ RepFilters /\ ~RepOther(d))
      /\ packageOK' = FALSE /\ repPc' = "check" /\ repDatum' = d
      /\ repNoise' = (repNoise /\ RepFilters /\ RepSame(d))
      /\ repShown' = IF RepFilters /\ RepSame(d) THEN repShown ELSE 0
      /\ repRun' = IF RepFilters /\ RepSame(d) THEN RepUp(repRun) ELSE 1
      /\ robuf' = IF RepFilters THEN d ELSE robuf
      /\ RepFilters' = RepFilters /\ txReport' = txReport
  BY DEF RepCompare, RepFilters
<1> HIDE DEF RepFilters
<1>2. CASE RepFilters /\ RepSame(d)
  <2>1. robuf = d /\ robuf # RepNone /\ ~RepOther(d)
    BY <1>2, Zenon DEF RepSame, RepOther
  <2>2. repRun' > 1 /\ repRun' >= 1 /\ repShown' = repShown /\ robuf' = robuf
    BY <1>1, <1>2, <2>1, UpCounts DEF RepInv, RepInRun, RepTypeOK
  <2>3. isrep' /\ isnotrep' = isnotrep /\ repNoise' = repNoise
    BY <1>1, <1>2, <2>1, Zenon DEF RepInv, RepTypeOK
  <2>4. RepInRun' /\ RepAlone'
    BY <1>1, <1>2, <2>1, <2>2, <2>3 DEF RepInRun, RepAlone
  <2>5. RepSilent => RepSilent'
    BY <1>1, <2>2, <2>3 DEF RepSilent
  <2> QED BY <2>3, <2>4, <2>5 DEF RepInv
<1>3. CASE ~(RepFilters /\ RepSame(d))
  <2>1. repRun' = 1 /\ repShown' = 0
    BY <1>1, <1>3
  <2>2. RepFilters /\ RepType[d] = "twice" => ~isrep'
    BY <1>1, <1>3
  <2>3. ~RepFilters => isrep'
    BY <1>1
  <2> QED BY <1>1, <2>1, <2>2, <2>3 DEF RepInv, RepInRun, RepAlone, RepSilent
<1> QED BY <1>2, <1>3

LEMMA CheckKeepsInv ==
  ASSUME RepInv, RepTypeOK', RepCheck
  PROVE  RepInv'
<1>1. /\ repPc = "check" /\ repPc' = "report"
      /\ UNCHANGED <<robuf, isrep, repDatum, repRun, repShown, repNoise, txReport>>
      /\ RepFilters' = RepFilters
  BY DEF RepCheck, repHistory, RepFilters
<1> HIDE DEF RepFilters
<1>2. CASE RepType[repDatum] = "twice"
  <2>1. packageOK' = (isrep /\ ~isnotrep) /\ isnotrep' = isrep
    BY <1>2, TwiceBits DEF RepCheck
  <2>2. repNoise \/ (repShown = 1 => ~packageOK')
    <3>1. CASE RepFilters
      BY <1>1, <1>2, <2>1, <3>1 DEF RepInv, RepInRun, RepSilent
    <3>2. CASE ~RepFilters
      BY <1>1, <3>2 DEF RepInv, RepAlone
    <3> QED BY <3>1, <3>2
  <2>3. repNoise \/ (repShown = 1 => isnotrep')
    BY <1>1, <2>1 DEF RepInv, RepSilent
  <2> QED BY <1>1, <1>2, <2>1, <2>2, <2>3 DEF RepInv, RepInRun, RepAlone, RepSilent
<1>3. CASE RepType[repDatum] # "twice"
  <2>1. packageOK' = (~isrep) /\ isnotrep' = isnotrep
    BY <1>3, PlainBits DEF RepCheck
  <2>2. packageOK' => RepFilters /\ robuf = repDatum
    BY <1>1, <2>1 DEF RepInv, RepInRun, RepAlone
  <2> QED BY <1>1, <1>3, <2>1, <2>2 DEF RepInv, RepInRun, RepAlone, RepSilent
<1> QED BY <1>2, <1>3

LEMMA ReportKeepsInv ==
  ASSUME RepInv, RepTypeOK', RepReport
  PROVE  RepInv'
<1>1. /\ repPc = "report" /\ repPc' = "idle" /\ (packageOK' => packageOK)
      /\ UNCHANGED <<robuf, isnotrep, repDatum, repRun, repNoise>>
  BY DEF RepReport
<1>2. CASE packageOK'
  <2>1. repShown' = RepUp(repShown)
    BY <1>2 DEF RepReport
  <2>2. repNoise \/ (repShown = 0 /\ repShown' = 1)
    BY <1>1, <1>2, <2>1, UpCounts DEF RepInv, RepSilent, RepTypeOK
  <2> QED BY <1>1, <1>2, <2>2 DEF RepInv, RepInRun, RepAlone, RepSilent
<1>3. CASE ~packageOK'
  <2>1. repShown' = repShown
    BY <1>3 DEF RepReport
  <2> QED BY <1>1, <1>3, <2>1 DEF RepInv, RepInRun, RepAlone, RepSilent
<1> QED BY <1>2, <1>3

LEMMA RepInvHolds == RepSpec => []RepInv
<1>1. RepInit => RepInRun /\ RepAlone /\ RepSilent
  BY RepAssumption DEF RepInit, RepInRun, RepAlone, RepSilent
<1>2. RepInv /\ RepTypeOK' /\ [RepNext]_repVars => RepInv'
  <2> SUFFICES ASSUME RepInv, RepTypeOK', [RepNext]_repVars PROVE RepInv'
    OBVIOUS
  <2> USE DEF RepInv, RepInRun, RepAlone, RepSilent, RepFilters
  <2>1. CASE RepSetReport
    BY <2>1 DEF RepSetReport, repBits, repHistory
  <2>2. CASE RepTick
    BY <2>2 DEF RepTick, repBits, repHistory
  <2>3. CASE RepResetInput
    BY <2>3 DEF RepResetInput
  <2>4. ASSUME NEW d \in RepData, RepCompare(d) PROVE RepInv'
    BY <2>4, CompareKeepsInv
  <2>5. CASE RepCheck
    BY <2>5, CheckKeepsInv
  <2>6. CASE RepReport
    BY <2>6, ReportKeepsInv
  <2>7. CASE UNCHANGED repVars
    BY <2>7 DEF repVars, repBits, repHistory
  <2> QED BY <2>1, <2>2, <2>3, <2>4, <2>5, <2>6, <2>7 DEF RepNext, RepAnalyze
<1>3. RepTypeOK /\ RepInRun /\ RepAlone /\ RepSilent => RepInv
  BY DEF RepInv
<1> QED BY <1>1, <1>2, <1>3, RepTypeCorrect, PTL DEF RepSpec

(* A message is reported once (RfAnalyze_Task, checkForRepeatedPackage),   *)
(* unless an interrupt clears isnotrep in the middle of it.                *)
THEOREM RepOnce == RepSpec => []RepReportedOnce
<1>1. RepInv => RepReportedOnce
  BY DEF RepInv, RepSilent, RepReportedOnce
<1> QED BY <1>1, RepInvHolds, PTL

(* An intertechno telegram waits for its repetition. *)
THEOREM RepWaits == RepSpec => RepFirstWaits
<1>1. RepInv /\ [RepNext]_repVars
      => [RepReport /\ RepType[repDatum] = "twice" /\ "repeated" \notin txReport
          => (packageOK' => repRun > 1)]_repVars
  BY DEF RepInv, RepInRun, RepReport, RepFilters
<1> QED BY <1>1, RepInvHolds, PTL DEF RepSpec, RepFirstWaits

-----------------------------------------------------------------------------
(* What the RF router gathers for the base. *)

(* As long as something is gathered, a check is due.                       *)
RfrWillSend == RFR_Buffer # << >> => rf_router_sendtime # 0

(* RfrTellsAll, and what FHT_compress has put behind the second line when  *)
(* the first is short is a stray.                                          *)
RfrStrayIn(shown, i) ==
  /\ i \in 3 .. Len(shown) /\ shown[i].kind = "fht"
  /\ shown[1].kind = "tf" /\ shown[1].code = shown[i].code

RfrUntoldIn(shown, i) ==
  RfrStrayIn(shown, i) \/ (shown[i].kind # "fht" /\ RfrStrayIn(shown, i + 1))

RfrOwn(told, shown, i) == told[i].kind = shown[i].kind /\ told[i].code = shown[i].code

RfrTells(told, shown) ==
  /\ Len(told) = Len(shown)
  /\ \A i \in 1 .. Len(shown) :
       /\ told[i].command = shown[i].command
       /\ RfrUntoldIn(shown, i) \/ RfrOwn(told, shown, i)

RfrFollows(told, shown) ==
  \A i \in 3 .. Len(shown) :
    ~told[i].begins /\ shown[1].kind = "tf" => RfrStrayIn(shown, i)

RfrTellsGathered ==
  ~rfrFull => RfrTells(RFR_Buffer, rfrShown) /\ RfrFollows(RFR_Buffer, rfrShown)

RfrInv == RfrTypeOK /\ RfrTellsGathered /\ RfrWillSend

(* RfrTypeOK, by the provers that can use it.                              *)
RfrBits ==
  /\ rfrFull \in BOOLEAN /\ rfrReceiving \in BOOLEAN /\ rfrTicked \in BOOLEAN
  /\ rfrClosing \in BOOLEAN
  /\ rfrStatus \in {"inactive", "sync", "wait", "data"} /\ rfrRadio \in {"slow", "fast"}

RfrCounts ==
  /\ RFR_Buffer \in Seq(RfrMessage) /\ rfrShown \in Seq(RfrMessage)
  /\ rfrBytes \in 0 .. RfrRoom
  /\ rf_router_sendtime \in 0 .. RfrDelay /\ rf_nr_send_checks \in 0 .. 2
  /\ (rf_router_sendtime = 0) <=> (rf_nr_send_checks = 0)
  /\ rfrAge \in 0 .. RfrTicks - 1

LEMMA RfrTypeParts == RfrTypeOK <=> RfrBits /\ RfrCounts
  BY Zenon DEF RfrTypeOK, RfrBits, RfrCounts

LEMMA RfrTypePartsNext == RfrTypeOK' <=> RfrBits' /\ RfrCounts'
  BY Zenon DEF RfrTypeOK, RfrBits, RfrCounts

LEMMA RfrLineType ==
  /\ \A c \in RfrCode, v \in RfrCommand :
       RfrLine("fht", c, v) \in RfrMessage /\ RfrLine("fht", c, v).begins
  /\ \A c \in RfrWindow :
       RfrLine("tf", c, RfrOther) \in RfrMessage /\ RfrLine("tf", c, RfrOther).begins
  /\ RfrLine("else", RfrOther, RfrOther) \in RfrMessage
  /\ RfrLine("else", RfrOther, RfrOther).begins
<1>1. ASSUME NEW k \in {"fht", "tf", "else"}, NEW c \in RfrCode \cup RfrWindow \cup {RfrOther},
             NEW v \in RfrCommand \cup {RfrOther}
      PROVE  RfrLine(k, c, v) \in RfrMessage /\ RfrLine(k, c, v).begins
  <2>1. TRUE \in BOOLEAN
    OBVIOUS
  <2>2. RfrLine(k, c, v).begins = TRUE
    BY DEF RfrLine
  <2>3. RfrLine(k, c, v) \in RfrMessage
    BY <2>1 DEF RfrLine, RfrMessage
  <2> QED BY <2>2, <2>3, Zenon
<1> QED BY <1>1

(* One line more tells one message more.                                   *)
LEMMA RfrAppendTells ==
  ASSUME NEW b \in Seq(RfrMessage), NEW s \in Seq(RfrMessage), NEW m \in RfrMessage, m.begins,
         RfrTells(b, s), RfrFollows(b, s)
  PROVE  /\ Append(b, m) \in Seq(RfrMessage) /\ Append(b, m) # << >>
         /\ RfrTells(Append(b, m), Append(s, m)) /\ RfrFollows(Append(b, m), Append(s, m))
<1> DEFINE n == Len(s)
           b2 == Append(b, m)
           s2 == Append(s, m)
<1>1. /\ n \in Nat /\ Len(b) = n
      /\ \A i \in 1 .. n : /\ b[i].command = s[i].command
                           /\ RfrUntoldIn(s, i) \/ RfrOwn(b, s, i)
      /\ \A i \in 3 .. n : ~b[i].begins /\ s[1].kind = "tf" => RfrStrayIn(s, i)
  BY DEF RfrTells, RfrFollows
<1>2. /\ b2 \in Seq(RfrMessage) /\ s2 \in Seq(RfrMessage) /\ b2 # << >>
      /\ Len(b2) = n + 1 /\ Len(s2) = n + 1 /\ b2[n + 1] = m /\ s2[n + 1] = m
      /\ \A i \in 1 .. n : b2[i] = b[i] /\ s2[i] = s[i]
  BY <1>1
<1> HIDE DEF b2, s2
<1>3. ASSUME NEW i \in Int, RfrStrayIn(s, i) PROVE RfrStrayIn(s2, i)
  <2>1. i \in 3 .. n /\ 1 \in 1 .. n /\ i \in 1 .. n
    BY <1>1, <1>3 DEF RfrStrayIn
  <2> QED BY <1>1, <1>2, <1>3, <2>1 DEF RfrStrayIn
<1>4. ASSUME NEW i \in 1 .. n
      PROVE  /\ b2[i].command = s2[i].command
             /\ RfrUntoldIn(s2, i) \/ RfrOwn(b2, s2, i)
  <2>1. b2[i] = b[i] /\ s2[i] = s[i] /\ i \in Int /\ i + 1 \in Int
    BY <1>2
  <2>2. CASE RfrUntoldIn(s, i)
    BY <1>1, <1>3, <2>1, <2>2 DEF RfrUntoldIn
  <2>3. CASE RfrOwn(b, s, i)
    BY <1>1, <2>1, <2>3 DEF RfrOwn
  <2> QED BY <1>1, <2>2, <2>3
<1>5. RfrOwn(b2, s2, n + 1) /\ b2[n + 1].command = s2[n + 1].command
  BY <1>2 DEF RfrOwn
<1>6. RfrTells(b2, s2)
  <2>1. \A i \in 1 .. n + 1 : i \in 1 .. n \/ i = n + 1
    BY <1>1
  <2> QED BY <1>2, <1>4, <1>5, <2>1, Zenon DEF RfrTells
<1>7. RfrFollows(b2, s2)
  <2> SUFFICES ASSUME NEW i \in 3 .. n + 1, ~b2[i].begins, s2[1].kind = "tf"
               PROVE  RfrStrayIn(s2, i)
    BY <1>2, Zenon DEF RfrFollows
  <2>1. i # n + 1
    BY <1>2, Zenon
  <2>2. i \in 3 .. n /\ i \in 1 .. n /\ 1 \in 1 .. n /\ i \in Int
    BY <1>1, <2>1
  <2>3. b2[i] = b[i] /\ s2[1] = s[1]
    BY <1>2, <2>2
  <2>4. ~b[i].begins
    BY <2>3, Zenon
  <2>5. s[1].kind = "tf"
    BY <2>3
  <2> QED BY <1>1, <1>3, <2>2, <2>4, <2>5, Zenon
<1> QED BY <1>2, <1>6, <1>7 DEF b2, s2

(* The messages a merge leaves.                                            *)
LEMMA RfrCompressed ==
  ASSUME NEW b \in Seq(RfrMessage), RfrTwoLines(b)
  PROVE  LET n == Len(b)
             f == RfrFound(b)
             c == FHT_compress(b)
         IN  /\ n \in Nat /\ f \in {1, 2} /\ n > f
             /\ c \in Seq(RfrMessage) /\ Len(c) = n
             /\ \A i \in 1 .. n : c[i].command = b[i].command
             /\ \A i \in 1 .. n : i \notin {f, n} => c[i] = b[i]
             /\ c[f].kind = (IF b[f].kind = "fht" THEN "fht" ELSE "broken")
             /\ c[f].code = b[f].code
             /\ c[n].kind = c[f].kind /\ c[n].code = b[f].code
<1> DEFINE n == Len(b)
           f == RfrFound(b)
           c == FHT_compress(b)
           kind == IF b[f].kind = "fht" THEN "fht" ELSE "broken"
           first == [b[f] EXCEPT !.kind = kind]
           last == [kind |-> kind, code |-> b[f].code, command |-> b[n].command,
                    begins |-> FALSE]
<1>1. n \in Nat /\ f \in {1, 2} /\ n > f
  BY DEF RfrTwoLines, RfrFound
<1>2. b[f] \in RfrMessage /\ b[n] \in RfrMessage /\ f \in 1 .. n /\ n \in 1 .. n /\ f # n
  BY <1>1
<1>3. c = [i \in 1 .. n |-> CASE i = f -> first [] i = n -> last [] OTHER -> b[i]]
  BY DEF FHT_compress
<1> HIDE DEF n, f, c
<1>4. kind \in {"fht", "broken"}
  OBVIOUS
<1>5. first \in RfrMessage /\ first.kind = kind /\ first.code = b[f].code
      /\ first.command = b[f].command
  <2> HIDE DEF kind
  <2> QED BY <1>2, <1>4, SMT DEF RfrMessage
<1>6. last \in RfrMessage /\ last.kind = kind /\ last.code = b[f].code
      /\ last.command = b[n].command
  <2> HIDE DEF kind
  <2>1. FALSE \in BOOLEAN
    OBVIOUS
  <2>2. b[f].code \in RfrCode \cup RfrWindow \cup {RfrOther}
        /\ b[n].command \in RfrCommand \cup {RfrOther}
    BY <1>2 DEF RfrMessage
  <2> QED BY <1>4, <2>1, <2>2, SMT DEF RfrMessage
<1> HIDE DEF first, last, kind
<1>7. /\ c[f] = first /\ c[n] = last
      /\ \A i \in 1 .. n : i \notin {f, n} => c[i] = b[i]
  BY <1>2, <1>3
<1>8. c \in Seq(RfrMessage) /\ Len(c) = n
  <2>1. \A i \in 1 .. n : b[i] \in RfrMessage
    BY DEF n
  <2>2. \A i \in 1 .. n : c[i] \in RfrMessage
    BY <1>5, <1>6, <1>7, <2>1
  <2>3. c \in [1 .. n -> RfrMessage]
    BY <1>3, <2>2
  <2> QED BY <1>1, <2>3
<1>9. \A i \in 1 .. n : c[i].command = b[i].command
  BY <1>5, <1>6, <1>7
<1> QED BY <1>1, <1>5, <1>6, <1>7, <1>8, <1>9 DEF kind, n, f, c

(* Merging changes where lines begin, and what they tell of strays only.   *)
LEMMA RfrCompressTells ==
  ASSUME NEW b \in Seq(RfrMessage), NEW s \in Seq(RfrMessage), RfrMerges(b),
         RfrTells(b, s), RfrFollows(b, s), s[Len(s)] = b[Len(b)]
  PROVE  /\ FHT_compress(b) \in Seq(RfrMessage) /\ FHT_compress(b) # << >>
         /\ RfrTells(FHT_compress(b), s) /\ RfrFollows(FHT_compress(b), s)
<1> DEFINE n == Len(b)
           f == RfrFound(b)
           c == FHT_compress(b)
<1>1. /\ b[1].kind \in {"fht", "tf"} /\ b[n].kind = "fht" /\ b[n].code = b[1].code
      /\ \A i \in f + 1 .. n - 1 : ~b[i].begins
  BY DEF RfrMerges, RfrTwoLines
<1>2. f = IF b[1].kind = "tf" THEN 2 ELSE 1
  BY DEF RfrFound
<1>3. RfrTwoLines(b)
  BY DEF RfrMerges
<1>4. /\ Len(s) = n
      /\ \A i \in 1 .. n : /\ b[i].command = s[i].command
                           /\ RfrUntoldIn(s, i) \/ RfrOwn(b, s, i)
      /\ \A i \in 3 .. n : ~b[i].begins /\ s[1].kind = "tf" => RfrStrayIn(s, i)
      /\ s[n] = b[n]
  BY DEF RfrTells, RfrFollows
<1> HIDE DEF n, f, c
<1>5. /\ n \in Nat /\ f \in {1, 2} /\ n > f
      /\ c \in Seq(RfrMessage) /\ Len(c) = n
      /\ \A i \in 1 .. n : c[i].command = b[i].command
      /\ \A i \in 1 .. n : i \notin {f, n} => c[i] = b[i]
      /\ c[f].kind = (IF b[f].kind = "fht" THEN "fht" ELSE "broken")
      /\ c[f].code = b[f].code
      /\ c[n].kind = c[f].kind /\ c[n].code = b[f].code
  BY <1>3, RfrCompressed DEF n, f, c
<1>6. RfrOwn(b, s, 1)
  <2>1. ~RfrUntoldIn(s, 1)
    BY DEF RfrUntoldIn, RfrStrayIn
  <2> QED BY <1>4, <1>5, <2>1
<1>7. \A i \in 1 .. n : i \notin {f, n} => RfrUntoldIn(s, i) \/ RfrOwn(c, s, i)
  BY <1>4, <1>5 DEF RfrOwn
<1>8. CASE f = 1
  <2>1. b[1].kind = "fht" /\ s[1].kind = "fht"
    BY <1>1, <1>2, <1>6, <1>8 DEF RfrOwn
  <2>2. RfrOwn(c, s, 1) /\ RfrOwn(c, s, n)
    BY <1>1, <1>4, <1>5, <1>6, <1>8, <2>1 DEF RfrOwn
  <2>3. RfrTells(c, s)
    BY <1>4, <1>5, <1>7, <1>8, <2>2 DEF RfrTells
  <2>4. RfrFollows(c, s)
    BY <2>1 DEF RfrFollows
  <2> QED BY <1>5, <2>3, <2>4 DEF c
<1>9. CASE f = 2
  <2>1. s[1].kind = "tf" /\ s[1].code = s[n].code /\ s[n].kind = "fht" /\ n >= 3
    BY <1>1, <1>2, <1>4, <1>5, <1>6, <1>9 DEF RfrOwn
  <2>2. RfrStrayIn(s, n)
    BY <1>4, <1>5, <2>1 DEF RfrStrayIn
  <2>3. RfrUntoldIn(s, n)
    BY <2>2 DEF RfrUntoldIn
  <2>4. RfrUntoldIn(s, 2) \/ RfrOwn(c, s, 2)
    <3>1. CASE b[2].kind = "fht"
      BY <1>4, <1>5, <1>9, <3>1 DEF RfrOwn
    <3>2. CASE b[2].kind # "fht" /\ s[2].kind = "fht"
      BY <1>4, <1>5, <1>9, <3>2 DEF RfrOwn, RfrUntoldIn, RfrStrayIn
    <3>3. CASE s[2].kind # "fht"
      <4>1. CASE n = 3
        BY <2>2, <3>3, <4>1 DEF RfrUntoldIn
      <4>2. CASE n # 3
        <5>1. 3 \in f + 1 .. n - 1 /\ 3 \in 3 .. n
          BY <1>5, <1>9, <2>1, <4>2
        <5>2. ~b[3].begins
          BY <1>1, <5>1, Zenon
        <5>3. RfrStrayIn(s, 3)
          BY <1>4, <2>1, <5>1, <5>2, Zenon
        <5> QED BY <3>3, <5>3 DEF RfrUntoldIn
      <4> QED BY <4>1, <4>2
    <3> QED BY <3>1, <3>2, <3>3
  <2>5. RfrTells(c, s)
    BY <1>4, <1>5, <1>7, <1>9, <2>3, <2>4 DEF RfrTells
  <2>6. RfrFollows(c, s)
    <3> SUFFICES ASSUME NEW i \in 3 .. n, ~c[i].begins PROVE RfrStrayIn(s, i)
      BY <1>4, Zenon DEF RfrFollows
    <3>1. CASE i = n
      BY <2>2, <3>1
    <3>2. CASE i # n
      <4>1. i \in 1 .. n /\ i \notin {f, n}
        BY <1>5, <1>9, <3>2
      <4>2. c[i] = b[i]
        BY <1>5, <4>1
      <4>3. ~b[i].begins
        BY <4>2, Zenon
      <4> QED BY <1>4, <2>1, <4>3, Zenon
    <3> QED BY <3>1, <3>2
  <2> QED BY <1>5, <2>5, <2>6 DEF c
<1> QED BY <1>5, <1>8, <1>9

LEMMA RfrDisplayKeeps ==
  ASSUME RfrInv, NEW m \in RfrMessage, m.begins, RfrDisplay(m)
  PROVE  RfrInv'
<1> DEFINE more   == Append(RFR_Buffer, m)
           shown  == Append(rfrShown, m)
           bytes  == rfrBytes + RfrLength(m.kind)
           fits   == ~rfrFull /\ bytes <= RfrRoom
           merges == bytes < RfrRoom /\ RfrMerges(more)
<1>1. /\ rfrFull' = ~fits
      /\ RFR_Buffer' = IF fits THEN (IF merges THEN FHT_compress(more) ELSE more) ELSE RFR_Buffer
      /\ rfrBytes' = IF ~fits THEN RfrRoom
                     ELSE IF merges THEN bytes - (RfrFhtLength - RfrMoreLength) ELSE bytes
      /\ rfrShown' = IF fits THEN shown ELSE rfrShown
      /\ rf_router_sendtime' = RfrDelay /\ rf_nr_send_checks' = 2
      /\ UNCHANGED <<rfrStatus, rfrAge, rfrTicked, rfrRadio, rfrClosing, rfrReceiving>>
  BY DEF RfrDisplay
<1>2. /\ RFR_Buffer \in Seq(RfrMessage) /\ rfrShown \in Seq(RfrMessage)
      /\ rfrBytes \in 0 .. RfrRoom
  BY DEF RfrInv, RfrTypeOK
<1>3. ASSUME fits
      PROVE  /\ more \in Seq(RfrMessage) /\ more # << >>
             /\ RfrTells(more, shown) /\ RfrFollows(more, shown)
  <2>1. RfrTells(RFR_Buffer, rfrShown) /\ RfrFollows(RFR_Buffer, rfrShown)
    BY <1>3, Zenon DEF RfrInv, RfrTellsGathered
  <2> QED BY <1>2, <2>1, RfrAppendTells
<1>4. ASSUME fits, merges
      PROVE  /\ FHT_compress(more) \in Seq(RfrMessage) /\ FHT_compress(more) # << >>
             /\ RfrTells(FHT_compress(more), shown) /\ RfrFollows(FHT_compress(more), shown)
  <2>1. more[Len(more)] = m /\ shown[Len(shown)] = m /\ shown \in Seq(RfrMessage)
    BY <1>2
  <2>2. RfrMerges(more)
    BY <1>4, Zenon
  <2>3. more \in Seq(RfrMessage) /\ RfrTells(more, shown) /\ RfrFollows(more, shown)
    BY <1>3, <1>4, Zenon
  <2> HIDE DEF more, shown
  <2> QED BY <2>1, <2>2, <2>3, RfrCompressTells
<1>5. merges => bytes >= RfrFhtLength
  <2> SUFFICES ASSUME merges PROVE bytes >= RfrFhtLength
    OBVIOUS
  <2>1. more[Len(more)] = m
    BY <1>2
  <2>2. m.kind = "fht"
    BY <2>1 DEF RfrMerges, RfrTwoLines
  <2> QED BY <1>2, <2>2, RfrAssumption DEF RfrLength
<1>6. RfrLength(m.kind) \in Nat
  BY RfrAssumption DEF RfrLength
<1>7. rfrBytes' \in 0 .. RfrRoom
  BY <1>1, <1>2, <1>5, <1>6, RfrAssumption
<1>8. shown \in Seq(RfrMessage)
  BY <1>2
<1> HIDE DEF more, bytes, merges, shown
<1>9. RFR_Buffer' \in Seq(RfrMessage) /\ rfrShown' \in Seq(RfrMessage)
  BY <1>1, <1>2, <1>3, <1>4, <1>8, Zenon
<1>10. RfrTellsGathered'
  <2> SUFFICES ASSUME fits PROVE RfrTells(RFR_Buffer', rfrShown') /\ RfrFollows(RFR_Buffer', rfrShown')
    BY <1>1, Zenon DEF RfrTellsGathered, RfrTells, RfrFollows, RfrOwn
  <2> QED BY <1>1, <1>3, <1>4, Zenon
<1>11. rfrFull' \in BOOLEAN
  BY <1>1, Zenon
<1> HIDE DEF fits
<1>12. RfrTypeOK'
  BY <1>1, <1>7, <1>9, <1>11, RfrAssumption DEF RfrInv, RfrTypeOK
<1>13. RfrWillSend'
  BY <1>1, RfrAssumption DEF RfrWillSend
<1> QED BY <1>10, <1>12, <1>13 DEF RfrInv

LEMMA RfrTellsNothing == RfrTells(<< >>, << >>) /\ RfrFollows(<< >>, << >>)
  BY DEF RfrTells, RfrFollows

LEMMA RfrSendKeeps ==
  ASSUME RfrInv, RfrSend, UNCHANGED <<rfrStatus, rfrAge, rfrClosing, rfrReceiving>>,
         rfrTicked' \in BOOLEAN, rf_router_sendtime' \in 0 .. RfrDelay,
         rf_nr_send_checks' \in 0 .. 2,
         (rf_router_sendtime' = 0) <=> (rf_nr_send_checks' = 0)
  PROVE  RfrInv'
<1>1. RFR_Buffer' = << >> /\ rfrBytes' = 0 /\ rfrFull' = FALSE /\ rfrShown' = << >>
      /\ rfrRadio' = "slow"
  BY DEF RfrSend
<1>2. RfrTypeOK'
  <2>1. RfrBits'
    BY <1>1, RfrTypeParts, Zenon DEF RfrInv, RfrBits
  <2>2. RfrCounts'
    BY <1>1, RfrTypeParts, RfrAssumption DEF RfrInv, RfrCounts
  <2> QED BY <2>1, <2>2, RfrTypePartsNext
<1>3. RfrTellsGathered'
  <2>1. RfrTells(RFR_Buffer', rfrShown') /\ RfrFollows(RFR_Buffer', rfrShown')
    BY <1>1, RfrTellsNothing
  <2> QED BY <2>1 DEF RfrTellsGathered, RfrTells, RfrFollows
<1> QED BY <1>1, <1>2, <1>3 DEF RfrInv, RfrWillSend

(* Steps that gather and send nothing.                                     *)
LEMMA RfrElseKeeps ==
  ASSUME RfrInv, UNCHANGED rfrOut, RfrTypeOK',
         rf_router_sendtime # 0 => rf_router_sendtime' # 0
  PROVE  RfrInv'
  BY DEF RfrInv, rfrOut, RfrTellsGathered, RfrWillSend, RfrTells, RfrFollows

LEMMA RfrMinuteKeeps ==
  ASSUME RfrInv, RfrMinute
  PROVE  RfrInv'
<1>1. rfrTicked' = FALSE /\ UNCHANGED <<rfrStatus, rfrAge, rfrClosing, rfrReceiving>>
  BY DEF RfrMinute
<1>2. /\ RfrTypeOK /\ rf_router_sendtime \in 0 .. RfrDelay /\ rf_nr_send_checks \in 0 .. 2
      /\ (rf_router_sendtime = 0 <=> rf_nr_send_checks = 0) /\ RfrDelay \in Nat \ {0}
  BY RfrAssumption DEF RfrInv, RfrTypeOK
<1>3. CASE rf_router_sendtime = 0
  <2>1. UNCHANGED <<rfrOut, rfrTimer, rfrRadio>>
    BY <1>3 DEF RfrMinute
  <2>2. RfrTypeOK'
    BY <1>1, <1>2, <2>1 DEF RfrTypeOK, rfrOut, rfrTimer
  <2> QED BY <1>3, <2>1, <2>2, RfrElseKeeps
<1>4. CASE rf_router_sendtime # 0 /\ rf_router_sendtime # 1
  <2>1. rf_router_sendtime' = rf_router_sendtime - 1
        /\ UNCHANGED <<rf_nr_send_checks, rfrOut, rfrRadio>>
    BY <1>4, Zenon DEF RfrMinute
  <2>2. rf_router_sendtime' \in 1 .. RfrDelay /\ rf_nr_send_checks # 0
    BY <1>2, <1>4, <2>1
  <2>3. RfrTypeOK'
    <3>1. RFR_Buffer' = RFR_Buffer /\ rfrBytes' = rfrBytes /\ rfrFull' = rfrFull
          /\ rfrRadio' = rfrRadio /\ rfrShown' = rfrShown
      BY <2>1 DEF rfrOut
    <3>2. RfrBits'
      BY <1>1, <1>2, <3>1, RfrTypeParts, Zenon DEF RfrBits
    <3>3. RfrCounts'
      BY <1>1, <1>2, <2>1, <2>2, <3>1, RfrTypeParts DEF RfrCounts
    <3> QED BY <3>2, <3>3, RfrTypePartsNext
  <2> QED BY <2>1, <2>2, <2>3, RfrElseKeeps
<1>5. CASE rf_router_sendtime = 1
  <2>1. rf_router_flush
    <3>1. rf_router_sendtime # 0
      BY <1>5
    <3> QED BY <1>5, <3>1, Zenon DEF RfrMinute
  <2>2. RfrChecks \in 0 .. 2
    BY <1>2, <1>5 DEF RfrChecks
  <2>3. CASE RfrChecks # 0
    <3>1. rf_nr_send_checks' = RfrChecks /\ rf_router_sendtime' = RfrDelay
          /\ UNCHANGED <<rfrOut, rfrRadio>>
      BY <2>1, <2>3, Zenon DEF rf_router_flush
    <3> HIDE DEF RfrChecks
    <3>2. RfrTypeOK'
      <4>1. RFR_Buffer' = RFR_Buffer /\ rfrBytes' = rfrBytes /\ rfrFull' = rfrFull
            /\ rfrRadio' = rfrRadio /\ rfrShown' = rfrShown
        BY <3>1 DEF rfrOut
      <4>2. RfrBits'
        BY <1>1, <1>2, <4>1, RfrTypeParts, Zenon DEF RfrBits
      <4>3. RfrCounts'
        BY <1>1, <1>2, <2>2, <2>3, <3>1, <4>1, RfrTypeParts DEF RfrCounts
      <4> QED BY <4>2, <4>3, RfrTypePartsNext
    <3> QED BY <1>2, <3>1, <3>2, RfrElseKeeps
  <2>4. CASE RfrChecks = 0
    <3>1. rf_nr_send_checks' = 0 /\ rf_router_sendtime' = 0 /\ RfrSend
      BY <2>1, <2>4, Zenon DEF rf_router_flush
    <3>2. rfrTicked' \in BOOLEAN
      BY <1>1, Zenon
    <3>3. rf_router_sendtime' \in 0 .. RfrDelay /\ rf_nr_send_checks' \in 0 .. 2
      BY <1>2, <3>1
    <3> QED BY <1>1, <3>1, <3>2, <3>3, RfrSendKeeps, Zenon
  <2> QED BY <2>3, <2>4
<1> QED BY <1>3, <1>4, <1>5

LEMMA RfrHolds == RfrSpec => []RfrInv
<1>1. RfrInit => RfrInv
  <2> SUFFICES ASSUME RfrInit PROVE RfrInv
    OBVIOUS
  <2>1. RfrTypeOK
    <3>1. RfrBits
      BY Zenon DEF RfrInit, RfrBits
    <3>2. RfrCounts
      BY RfrAssumption DEF RfrInit, RfrCounts
    <3> QED BY <3>1, <3>2, RfrTypeParts
  <2> QED BY <2>1, RfrTellsNothing DEF RfrInit, RfrInv, RfrTellsGathered, RfrWillSend
<1>2. RfrInv /\ [RfrNext]_rfrVars => RfrInv'
  <2> SUFFICES ASSUME RfrInv, [RfrNext]_rfrVars PROVE RfrInv'
    OBVIOUS
  <2>1. CASE RfrDisplays
    BY <2>1, RfrLineType, RfrDisplayKeeps, Zenon DEF RfrDisplays
  <2>2. CASE RfrUser
    <3>1. UNCHANGED <<rfrTimer, rfrStatus, rfrAge, rfrTicked, rfrClosing, rfrReceiving>>
          /\ RfrSend
      BY <2>2 DEF RfrUser
    <3> QED BY <3>1, RfrSendKeeps DEF RfrInv, RfrTypeOK, rfrTimer
  <2>3. CASE RfrTick
    <3>1. (rfrAge + 1) % RfrTicks \in 0 .. RfrTicks - 1
      BY RfrAssumption, SMT DEF RfrInv, RfrTypeOK
    <3>2. RfrTypeOK'
      BY <2>3, <3>1 DEF RfrTick, RfrInv, RfrTypeOK, rfrOut, rfrTimer
    <3> QED BY <2>3, <3>2, RfrElseKeeps DEF RfrTick, rfrTimer
  <2>4. CASE RfrMinute
    BY <2>4, RfrMinuteKeeps
  <2>5. CASE RfrInterrupt
    <3>1. UNCHANGED <<rfrOut, rfrTimer>>
      BY <2>5 DEF RfrInterrupt, RfrTelegram, RfrPing, RfrEdge, RfrMain
    <3>2. RfrTypeOK'
      BY <2>5 DEF RfrInterrupt, RfrTelegram, RfrPing, RfrEdge, RfrMain, RfrInv, RfrTypeOK,
                  rfrOut, rfrTimer
    <3> QED BY <3>1, <3>2, RfrElseKeeps DEF rfrTimer
  <2>6. CASE RfrTask
    <3>1. UNCHANGED <<rfrOut, rfrTimer>>
      BY <2>6 DEF RfrTask, RfrListens, RfrRestores, RfrCloses, RfrRest
    <3>2. RfrTypeOK'
      <4>1. RfrBits'
        <5>1. rfrFull' = rfrFull /\ rfrReceiving' = rfrReceiving /\ rfrTicked' = rfrTicked
          BY <2>6 DEF RfrTask, RfrListens, RfrRestores, RfrCloses, RfrRest, rfrOut
        <5> QED BY <2>6, <5>1, RfrTypeParts, Zenon
                   DEF RfrTask, RfrListens, RfrRestores, RfrCloses, RfrInv, RfrBits
      <4>2. RfrCounts'
        BY <2>6, RfrTypeParts, RfrAssumption
           DEF RfrTask, RfrListens, RfrRestores, RfrCloses, RfrRest, RfrInv, RfrCounts, rfrOut,
               rfrTimer
      <4> QED BY <4>1, <4>2, RfrTypePartsNext
    <3> QED BY <3>1, <3>2, RfrElseKeeps DEF rfrTimer
  <2>7. CASE UNCHANGED rfrVars
    <3>1. UNCHANGED rfrOut /\ UNCHANGED rfrTimer /\ RfrTypeOK'
      BY <2>7 DEF rfrVars, rfrOut, rfrTimer, RfrInv, RfrTypeOK
    <3> QED BY <3>1, RfrElseKeeps DEF rfrTimer
  <2> QED BY <2>1, <2>2, <2>3, <2>4, <2>5, <2>6, <2>7, Zenon DEF RfrNext
<1> QED BY <1>1, <1>2, PTL DEF RfrSpec

(* The type invariant of the RF router, for every room, all lengths of     *)
(* lines and every delay: the count of the bytes stays inside the buffer,  *)
(* and the number of checks never underflows.                              *)
THEOREM RfrTypeCorrect == RfrSpec => []RfrTypeOK
<1>1. RfrInv => RfrTypeOK
  BY DEF RfrInv
<1> QED BY <1>1, RfrHolds, PTL

(* What display_char has gathered has the command of every message         *)
(* displayed since the last packet, in order, unless it did not fit, and   *)
(* all but strays under the prefix and the house code it was displayed     *)
(* with; and rf_router_sendtime runs as long as there is something to      *)
(* send: for all house codes and commands, every room and every delay.     *)
THEOREM RfrTellsEverything == RfrSpec => []RfrTellsAll
<1>1. RfrInv => RfrTellsAll
  BY Zenon DEF RfrInv, RfrTellsGathered, RfrWillSend, RfrTellsAll, RfrTells, RfrOwn, RfrUntoldIn,
            RfrStrayIn, RfrUntold, RfrStray
<1> QED BY <1>1, RfrHolds, PTL

(* Types of FastRF: its two switches, and the counts and places. *)
FfSwitches == ffOverflow \in BOOLEAN /\ ffWanted \in BOOLEAN
FfNumbers ==
  /\ fastrf_on \in 0 .. 2 /\ ffRadio \in {"fast", "slow"}
  /\ ffFifo \in 0 .. FfRoom /\ ffPc \in {"task", "show"}

LEMMA FfSwitchesKept == FfSwitches /\ [FfNext]_ffVars => FfSwitches'
BY Zenon
   DEF FfSwitches, FfNext, FfPacket, FfDamaged, FfEdge, FfHost, FfCmdInit, FfCmdOff, FfCmdSlow,
       FfFlushed, FastRF_Task, FfRescue, FfRead, FfShown, ffVars

LEMMA FfNumbersKept == FfNumbers /\ [FfNext]_ffVars => FfNumbers'
<1> SUFFICES ASSUME FfNumbers, [FfNext]_ffVars PROVE FfNumbers'
  OBVIOUS
<1>1. FfRoom \in Nat \ {0}
  BY FfAssumption DEF FfAssumption
<1>2. CASE FfPacket
  <2>1. UNCHANGED <<ffRadio, ffPc>>
    BY <1>2 DEF FfPacket
  <2>2. \/ ffFifo < FfRoom /\ ffFifo' = ffFifo + 1 /\ FfInterrupt
        \/ UNCHANGED <<fastrf_on, ffFifo>>
    BY <1>2, Zenon DEF FfPacket
  <2> QED BY <1>1, <2>1, <2>2 DEF FfNumbers, FfInterrupt
<1>3. CASE FfDamaged
  BY <1>1, <1>3 DEF FfDamaged, FfNumbers
<1>4. CASE FfEdge
  BY <1>4 DEF FfEdge, FfInterrupt, FfNumbers
<1>5. CASE FfHost
  <2>1. UNCHANGED ffPc /\ ffRadio' \in {"fast", "slow"} /\ fastrf_on' \in {fastrf_on, 0, 1}
    BY <1>5, Zenon DEF FfHost, FfCmdInit, FfCmdOff, FfCmdSlow, FfNumbers
  <2>2. ffFifo' \in {ffFifo, 0}
    BY <1>5, Zenon DEF FfHost, FfCmdInit, FfCmdOff, FfCmdSlow, FfFlushed
  <2> QED BY <1>1, <2>1, <2>2 DEF FfNumbers
<1>6. CASE FastRF_Task
  <2>1. UNCHANGED ffRadio /\ ffPc' \in {"task", "show"} /\ fastrf_on' \in {fastrf_on, 1}
    BY <1>6, Zenon DEF FastRF_Task, FfRescue, FfRead, FfShown, FfNumbers
  <2>2. ffFifo' \in {ffFifo, 0} \/ FfTakes
    BY <1>6, Zenon DEF FastRF_Task, FfRescue, FfRead, FfShown, FfFlushed
  <2> QED BY <1>1, <2>1, <2>2 DEF FfNumbers, FfTakes
<1>7. CASE UNCHANGED ffVars
  BY <1>7 DEF ffVars, FfNumbers
<1> QED BY <1>2, <1>3, <1>4, <1>5, <1>6, <1>7, Zenon DEF FfNext

(* The counts of the FIFO of the chip never pass its size, and the switch  *)
(* has its three values, whatever interrupts and commands come in between. *)
THEOREM FfTypeCorrect == FfSpec => []FfTypeOK
<1>1. FfInit => FfSwitches /\ FfNumbers
  <2>1. 0 \in 0 .. FfRoom /\ 0 \in 0 .. 2
    BY FfAssumption DEF FfAssumption
  <2> QED BY <2>1, Zenon DEF FfInit, FfSwitches, FfNumbers
<1>2. FfSwitches /\ FfNumbers => FfTypeOK
  BY Zenon DEF FfSwitches, FfNumbers, FfTypeOK
<1> QED BY <1>1, <1>2, FfSwitchesKept, FfNumbersKept, PTL DEF FfSpec
=============================================================================
