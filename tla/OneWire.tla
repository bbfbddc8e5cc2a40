------------------------------ MODULE OneWire -------------------------------
(***************************************************************************)
(* The search of clib/onewire.c for the devices on the 1-Wire bus.  In     *)
(* each pass all devices send their ROM code bit by bit, first the bit and *)
(* then its complement; where both are 0, the codes differ: the search     *)
(* takes one direction, devices that differ fall silent, and the last      *)
(* place where it took the 0 is where the next pass takes the 1.  A device *)
(* may be unplugged at any time, which the code has not been written for.  *)
(*                                                                         *)
(* Codes are functions from bit numbers; a code read in full is that of a  *)
(* device, so that its CRC is right.                                       *)
(***************************************************************************)
EXTENDS Naturals, FiniteSets

CONSTANTS
  OwWidth,       (* 64, bits of a ROM code.                                *)
  OwFamily,      (* 8, bits of its first byte, which is never 0.           *)
  OwMax,         (* HAS_ONEWIRE, devices in ROM_CODES.                     *)
  OwDevice       (* The codes of all devices there are.                    *)

OwBits == 1 .. OwWidth
OwCode == [OwBits -> 0 .. 1]
OwNothing(code) == \A b \in 1 .. OwFamily : code[b] = 0

ASSUME OwAssumption ==
  /\ OwWidth \in Nat \ {0} /\ OwFamily \in 1 .. OwWidth /\ OwMax \in Nat \ {0}
  /\ OwDevice \subseteq {c \in OwCode : ~OwNothing(c)} /\ IsFiniteSet(OwDevice)

VARIABLES
  owPresent,     (* The devices on the bus.                                *)
  ROM_CODES,     (* The table, with the eight bytes behind it.             *)
  DeviceCounter, onewire_connecteddevices, LastDiscrepancy, LastDeviceFlag,
  owPc,          (* Between two calls of onewire_Search, or in it.         *)
  owBit, owZero, (* id_bit_number and last_zero of a pass.                 *)
  owActive,      (* The devices that still take part in it.                *)
  owSearched,    (* History: the devices present when the search began,    *)
  owUnplugged    (* and whether one of them has been unplugged since.      *)

owPass == <<owBit, owZero, owActive>>
owLast == <<LastDiscrepancy, LastDeviceFlag>>
owHistory == <<owSearched, owUnplugged>>
owVars == <<owPresent, ROM_CODES, DeviceCounter, onewire_connecteddevices,
            owLast, owPc, owPass, owHistory>>

OwBlank == [i \in 0 .. OwMax |-> [b \in OwBits |-> 0]]

OwInit ==
  /\ owPresent = {} /\ owSearched = {} /\ owUnplugged = FALSE
  /\ ROM_CODES = OwBlank
  /\ DeviceCounter = 0 /\ onewire_connecteddevices = 0
  /\ LastDiscrepancy = 0 /\ LastDeviceFlag = FALSE
  /\ owPc = "idle" /\ owBit = 1 /\ owZero = 0 /\ owActive = {}

OwUnplug ==
  /\ owPc # "idle"
  /\ \E d \in owPresent : owPresent' = owPresent \ {d}
  /\ owUnplugged' = TRUE
  /\ UNCHANGED <<ROM_CODES, DeviceCounter, onewire_connecteddevices, owLast,
                 owPc, owPass, owSearched>>

(* onewire_FullSearch begins with onewire_SearchReset.  Since the last     *)
(* search any devices may have been plugged in, as many as fit.            *)
onewire_SearchReset ==
  /\ owPc = "idle"
  /\ owPresent' \in {s \in SUBSET OwDevice : Cardinality(s) <= OwMax}
  /\ ROM_CODES' = OwBlank
  /\ DeviceCounter' = 0 /\ onewire_connecteddevices' = 0
  /\ LastDiscrepancy' = 0 /\ LastDeviceFlag' = FALSE
  /\ owSearched' = owPresent' /\ owUnplugged' = FALSE
  /\ owPc' = "search"
  /\ UNCHANGED owPass

OwForget == LastDiscrepancy' = 0 /\ LastDeviceFlag' = FALSE

(* onewire_FullSearch after onewire_Search has returned false. *)
OwEnd == owPc' = "idle" /\ onewire_connecteddevices' = DeviceCounter

(* The call of onewire_Search after the last device, or on an empty bus.   *)
OwNoMore ==
  /\ owPc = "search"
  /\ LastDeviceFlag \/ owPresent = {}
  /\ OwForget
  /\ OwEnd
  /\ UNCHANGED <<owPresent, ROM_CODES, DeviceCounter, owPass, owHistory>>

OwPassBegins ==
  /\ owPc = "search" /\ ~LastDeviceFlag /\ owPresent # {}
  /\ owPc' = "pass"
  /\ owBit' = 1 /\ owZero' = 0 /\ owActive' = owPresent
  /\ UNCHANGED <<owPresent, ROM_CODES, DeviceCounter, onewire_connecteddevices,
                 owLast, owHistory>>

OwSent == {d[owBit] : d \in owActive \intersect owPresent}

OwBefore == IF DeviceCounter > 0 THEN ROM_CODES[DeviceCounter - 1][owBit] ELSE 0

(* Mutant: off by one. *)
OwBranchLate ==
  IF owBit <= LastDiscrepancy THEN OwBefore ELSE 0

(* The direction where the codes differ. *)
OwBranch ==
  IF owBit < LastDiscrepancy THEN OwBefore
  ELSE IF owBit = LastDiscrepancy THEN 1 ELSE 0

OwDirection == IF Cardinality(OwSent) = 2 THEN OwBranch ELSE CHOOSE b \in OwSent : TRUE

OwReadsBit ==
  /\ owPc = "pass" /\ owBit <= OwWidth /\ OwSent # {}
  /\ ROM_CODES' = [ROM_CODES EXCEPT ![DeviceCounter][owBit] = OwDirection]
  /\ owZero' = IF Cardinality(OwSent) = 2 /\ OwBranch = 0 THEN owBit ELSE owZero
  /\ owActive' = {d \in owActive \intersect owPresent : d[owBit] = OwDirection}
  /\ owBit' = owBit + 1
  /\ UNCHANGED <<owPresent, DeviceCounter, onewire_connecteddevices, owLast,
                 owPc, owHistory>>

(* Mutant: the device is not counted. *)
OwSameDevice ==
  owPc' = "search" /\ UNCHANGED <<DeviceCounter, onewire_connecteddevices>>

(* A code that is not 0: it is displayed, and the loop of                  *)
(* onewire_FullSearch tests DeviceCounter only after the next pass.        *)
OwNextDevice ==
  /\ DeviceCounter' = DeviceCounter + 1
  /\ owPc' = "search"
  /\ UNCHANGED onewire_connecteddevices

OwReturns ==
  IF OwNothing(ROM_CODES[DeviceCounter]) \/ DeviceCounter >= OwMax
    THEN OwEnd /\ UNCHANGED DeviceCounter
    ELSE OwNextDevice

OwLastPlace == LastDiscrepancy' = owZero

OwIsLast == owZero = 0

(* The end of a pass that has read the whole code. *)
OwPassEnds ==
  /\ owPc = "pass" /\ owBit > OwWidth
  /\ IF OwNothing(ROM_CODES[DeviceCounter]) THEN OwForget
     ELSE OwLastPlace /\ LastDeviceFlag' = OwIsLast
  /\ OwReturns
  /\ UNCHANGED <<owPresent, ROM_CODES, owPass, owHistory>>

(* Nobody answers: search_result is TRUE from the start and stays TRUE,    *)
(* unless the first byte of the code is 0.                                 *)
OwPassBreaks ==
  /\ owPc = "pass" /\ owBit <= OwWidth /\ OwSent = {}
  /\ IF OwNothing(ROM_CODES[DeviceCounter]) THEN OwForget ELSE UNCHANGED owLast
  /\ OwReturns
  /\ UNCHANGED <<owPresent, ROM_CODES, owPass, owHistory>>

OwSearch == OwNoMore \/ OwPassBegins \/ OwReadsBit \/ OwPassEnds \/ OwPassBreaks

OwNext == OwUnplug \/ onewire_SearchReset \/ OwSearch

OwSpec == OwInit /\ [][OwNext]_owVars /\ WF_owVars(OwSearch)
-----------------------------------------------------------------------------
OwTypeOK ==
  /\ owPresent \subseteq OwDevice /\ owSearched \subseteq OwDevice
  /\ owActive \subseteq OwDevice /\ owUnplugged \in BOOLEAN
  /\ ROM_CODES \in [0 .. OwMax -> OwCode]
  /\ DeviceCounter \in 0 .. OwMax /\ onewire_connecteddevices \in 0 .. OwMax
  /\ LastDiscrepancy \in 0 .. OwWidth /\ LastDeviceFlag \in BOOLEAN
  /\ owPc \in {"idle", "search", "pass"}
  /\ owBit \in 1 .. OwWidth + 1 /\ owZero \in 0 .. OwWidth

(* onewire.c:344 "until all devices have been found or MAX_DEVICES is      *)
(* reached": after a search that nobody disturbed the table holds every    *)
(* device on the bus, once each; and no pass writes behind the table as    *)
(* long as the devices fit and none is unplugged in a pass.                *)
OwFindsAll ==
  /\ owPc = "idle" /\ ~owUnplugged =>
       /\ onewire_connecteddevices = Cardinality(owSearched)
       /\ {ROM_CODES[i] : i \in 0 .. onewire_connecteddevices - 1} = owSearched
  /\ owPc = "pass" /\ ~owUnplugged => DeviceCounter < OwMax

(* Every search comes to its end, also when the devices disappear.         *)
OwSearchEnds == []<>(owPc = "idle")
=============================================================================
