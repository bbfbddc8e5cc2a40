---------------------------- MODULE RepeatFilter ----------------------------
(***************************************************************************)
(* The repeat filter at the end of RfAnalyze_Task (clib/rf_receive.c).     *)
(* Senders repeat their telegrams; the host wants each message once.  A    *)
(* telegram like the last one, within 0.3 seconds, is a repetition and not *)
(* reported; intertechno and TCM97001, which have no checksum, are         *)
(* reported with their second telegram only.                               *)
(*                                                                         *)
(* isrep, isnotrep and packageOK are bits of one byte, which the main loop *)
(* changes by load and store, while reset_input clears isnotrep in an      *)
(* interrupt.  Such a clearing is lost when it falls between a load and    *)
(* its store, that is, it is as if it had not come.                        *)
(***************************************************************************)
EXTENDS Naturals

CONSTANTS
  RepData,       (* Contents of telegrams; those of two types differ.      *)
  RepType,       (* Their types: "plain", "twice" (IT, TCM97001), "fht"    *)
                 (* and "fhtproto", an FHT acknowledgement and such.       *)
  RepLength,     (* Their lengths, oby.                                    *)
  REPTIME,       (* 38 ticks.                                              *)
  RepNone,
  RepReports,    (* Values of tx_report: sets of "repeated", "fhtproto".   *)
  RepRouted      (* Forum #50756: the router is on, and no house code set. *)

ASSUME RepAssumption ==
  /\ RepType \in [RepData -> {"plain", "twice", "fht", "fhtproto"}]
  /\ RepLength \in [RepData -> Nat]
  /\ REPTIME \in Nat \ {0} /\ RepNone \notin RepData
  /\ RepReports \subseteq SUBSET {"repeated", "fhtproto"}
  /\ RepRouted \in BOOLEAN

VARIABLES
  txReport,                    (* tx_report, with its bit REP_KNOWN set.   *)
  robuf, repAge,               (* Last telegram, ticks since reptime.      *)
  isrep, isnotrep, packageOK,
  repPc, repDatum,             (* The telegram being filtered.             *)
  repRun,                      (* History: telegrams of the same contents  *)
                               (* in a row, each in time after the last,   *)
  repShown,                    (* how many of them were reported,          *)
  repNoise                     (* and whether an interrupt cleared         *)
                               (* isnotrep since the first of them.        *)

repBits == <<isrep, isnotrep, packageOK>>
repHistory == <<repRun, repShown, repNoise>>
repVars == <<txReport, robuf, repAge, repBits, repPc, repDatum, repHistory>>

RepInit ==
  /\ txReport \in RepReports
  /\ robuf = RepNone /\ repAge = 0
  /\ isrep = FALSE /\ isnotrep = FALSE /\ packageOK = FALSE
  /\ repPc = "idle" /\ repDatum \in RepData
  /\ repRun = 0 /\ repShown = 0 /\ repNoise = FALSE

(* The X command. *)
RepSetReport ==
  /\ repPc = "idle"
  /\ txReport' \in RepReports
  /\ UNCHANGED <<robuf, repAge, repBits, repPc, repDatum, repHistory>>

RepTick ==
  /\ repAge < REPTIME
  /\ repAge' = repAge + 1
  /\ UNCHANGED <<txReport, robuf, repBits, repPc, repDatum, repHistory>>

(* reset_input in an interrupt. *)
RepResetInput ==
  /\ isnotrep' = FALSE
  /\ repNoise' = TRUE
  /\ UNCHANGED <<txReport, robuf, repAge, isrep, packageOK, repPc, repDatum,
                 repRun, repShown>>

RepSame(d) == d = robuf /\ repAge < REPTIME

(* As long as the last one, but another one: isnotrep is cleared at the    *)
(* first byte that differs.                                                *)
RepOther(d) ==
  robuf # RepNone /\ d # robuf /\ RepLength[d] = RepLength[robuf]

(* Counting of the history stops where the filter has seen everything. *)
RepUp(n) == IF n < 3 THEN n + 1 ELSE n

(* "Filter repeated messages": compare with the last telegram, save it.    *)
(* The FHT protocol test below it belongs to the same stretch of code.     *)
RepCompare(d) ==
  LET filtered == "repeated" \notin txReport
      proto == RepType[d] = "fhtproto" /\ "fhtproto" \notin txReport
  IN  /\ repPc = "idle"
      /\ packageOK' = FALSE
      /\ isrep' = (~filtered \/ RepSame(d) \/ proto)
      /\ isnotrep' = (isnotrep /\ filtered /\ ~RepOther(d))
      /\ IF filtered THEN robuf' = d /\ repAge' = 0
                     ELSE UNCHANGED <<robuf, repAge>>
      /\ repDatum' = d
      /\ repPc' = "check"
      /\ repRun' = IF filtered /\ RepSame(d) THEN RepUp(repRun) ELSE 1
      /\ repShown' = IF filtered /\ RepSame(d) THEN repShown ELSE 0
      /\ repNoise' = (repNoise /\ filtered /\ RepSame(d))
      /\ UNCHANGED txReport

(* Mutants: the twice rule without isnotrep; with the wrong branch. *)
RepTwiceAgain ==
  /\ packageOK' = isrep
  /\ isnotrep' = isrep

RepTwiceFirst ==
  /\ packageOK' = ~isnotrep
  /\ isnotrep' = TRUE

RepTwice ==
  /\ packageOK' = (isrep /\ ~isnotrep)
  /\ isnotrep' = isrep

RepPlain ==
  /\ packageOK' = ~isrep
  /\ UNCHANGED isnotrep

checkForRepeatedPackage == IF RepType[repDatum] = "twice" THEN RepTwice ELSE RepPlain

(* The filter's verdict, and the report. *)
RepCheck ==
  /\ repPc = "check"
  /\ checkForRepeatedPackage
  /\ repPc' = "report"
  /\ UNCHANGED <<txReport, robuf, repAge, isrep, repDatum, repHistory>>

RepBarred == RepRouted /\ RepType[repDatum] \in {"fht", "fhtproto"}

RepReport ==
  /\ repPc = "report"
  /\ packageOK' = (packageOK /\ ~RepBarred)
  /\ repShown' = IF packageOK' THEN RepUp(repShown) ELSE repShown
  /\ repPc' = "idle"
  /\ UNCHANGED <<txReport, robuf, repAge, isrep, isnotrep, repDatum, repRun, repNoise>>

RepAnalyze ==
  \/ \E d \in RepData : RepCompare(d)
  \/ RepCheck
  \/ RepReport

RepNext == RepSetReport \/ RepTick \/ RepResetInput \/ RepAnalyze

RepSpec == RepInit /\ [][RepNext]_repVars
-----------------------------------------------------------------------------
RepTypeOK ==
  /\ txReport \in RepReports
  /\ robuf \in RepData \cup {RepNone} /\ repAge \in 0 .. REPTIME
  /\ isrep \in BOOLEAN /\ isnotrep \in BOOLEAN /\ packageOK \in BOOLEAN
  /\ repDatum \in RepData /\ repPc \in {"idle", "check", "report"}
  /\ repRun \in 0 .. 3 /\ repShown \in 0 .. 3 /\ repNoise \in BOOLEAN

(* While the host filters, a run of equal telegrams is reported once; only *)
(* an interrupt that clears isnotrep in the middle of it, which lets an    *)
(* intertechno message be reported again, is an excuse.                    *)
RepReportedOnce ==
  "repeated" \notin txReport /\ ~repNoise => repShown <= 1

(* rf_receive.c:307 "there must be received two packages with the same     *)
(* message": whatever interrupts do to isnotrep, and whatever was received *)
(* before, an intertechno telegram is not reported as the first of a run.  *)
RepFirstWaits ==
  [][RepReport /\ RepType[repDatum] = "twice" /\ "repeated" \notin txReport
       => (packageOK' => repRun > 1)]_repVars

(* docs/commandref.html, X: "Bit 1: Report each of the (repeated) packets  *)
(* of a message".                                                          *)
RepEachReported ==
  [][RepReport /\ "repeated" \in txReport /\ RepType[repDatum] # "fhtproto" /\ ~RepBarred
       => packageOK']_repVars
=============================================================================
