------------------------------ MODULE Dudette ------------------------------
(***************************************************************************)
(* The stick side of the Dudette radio bootloader, clib/dudette_stick.c:   *)
(* the session a host leads with a device by D commands.  One thread runs  *)
(* everything, but empfangen() is called from dud_task() as well as inside *)
(* every blocking command, and a HELLO it fetches may start the SELECT the *)
(* host armed earlier.  The radio loses frames and delivers answers late.  *)
(*                                                                         *)
(* Deadlines are choices: one may run out whenever the stick waits.  What  *)
(* the commands print is left out.  The devices are external.              *)
(***************************************************************************)
EXTENDS Integers, Sequences, FiniteSets, FiniteSetsExt, SequencesExt

CONSTANTS
  Geraet,            (* The devices, by their radio address.               *)
  NoDevice,          (* Address 0, the target before the first command.    *)
  Board, Pg,         (* Board code and page size of each device.           *)
  Doppelt,           (* The addresses that two chips share.                *)
  NoBoard,           (* "No board demanded" in Dw and Ds.                  *)
  FRAG, SEITE_MAX,   (* Payload of a DATA frame, size of the page buffer.  *)
  LISTE_MAX,         (* Devices the list holds.                            *)
  MaxSeq,            (* Sequence numbers are 1 .. MaxSeq, 127 in the code. *)
  SELECT_ANLAEUFE,   (* Tries of a blind SELECT, 40 in the code.           *)
  RUNDEN,            (* Rounds of a page, 4 in the code.                   *)
  Bild,              (* What the host may put into a page.                 *)
  Klienten           (* The hosts: the commands each uses, the boards it   *)
                     (* demands, its pages, and the devices in its reach.  *)

ASSUME DevicesAssumption == NoDevice \notin Geraet
ASSUME PagesAssumption   == /\ FRAG \in Nat \ {0} /\ SEITE_MAX \in Nat \ {0}
                            /\ Pg \in [Geraet -> 1 .. SEITE_MAX]
ASSUME ListAssumption    == LISTE_MAX \in Nat \ {0}
ASSUME KlientAssumption  ==
  \A k \in Klienten : k.nah \subseteq Geraet /\ k.bilder \subseteq Bild
ASSUME SeqAssumption     == MaxSeq \in Nat \ {0}
ASSUME TriesAssumption   == SELECT_ANLAEUFE \in Nat \ {0} /\ RUNDEN \in Nat \ {0}

VARIABLES
  klient,            (* The host at the other end, one of Klienten.        *)
  liste,             (* The devices heard, the latest first.               *)
  funk, empfang, dbg_an,
  still,             (* Has the fallback time passed since the last command? *)
  w_zustand, w_addr, w_board, w_seq,       (* The armed SELECT (Dw).       *)
  ziel, ziel_pg,     (* The session target and its page size.              *)
  puf_nr, puf_bild, puf_len,  (* Page buffer: is a page open, what is in   *)
                     (* it, and the bytes each fragment got.               *)
  puf_map,           (* The fragments that have come.                      *)
  seq,
  warte,             (* The answer a request waits for: typ, seq, addr.    *)
  antwort,           (* The answers accepted for it: none or one frame.    *)
  pc, lauf,          (* The running command and where it is.               *)
  luft,              (* External: answers on the air.                      *)
  geraet             (* External: the devices.                             *)

radio   == <<funk, empfang, dbg_an>>
armed   == <<w_zustand, w_addr, w_board, w_seq>>
target  == <<ziel, ziel_pg>>
puffer  == <<puf_nr, puf_bild, puf_len, puf_map>>
request == <<warte, antwort>>
air     == <<luft, geraet>>
vars == <<klient, liste, radio, still, armed, target, puffer, seq, request, pc, lauf, air>>

Fragment    == 0 .. (SEITE_MAX - 1) \div FRAG
Frags(pg)   == 0 .. (pg - 1) \div FRAG
Laenge(pg, f) == IF pg - f * FRAG < FRAG THEN pg - f * FRAG ELSE FRAG
NaechsteOhneEnde(n) == n + 1                                      (* mutant *)
Naechste(n) == IF n >= MaxSeq THEN 1 ELSE n + 1
Seite(pg)   == [f \in Frags(pg) |-> <<puf_bild, puf_len[f]>>]
Leer        == [f \in {} |-> 0]
Ruhe        == [cmd |-> "-", versuch |-> 0, s |-> 0, pg |-> 1, rest |-> {}]
Niemand     == [typ |-> "-", seq |-> 0, addr |-> NoDevice]

Anfrage ==     (* The requests: frame, answer, tries (RUNDEN for a page).   *)
  [Ds |-> [typ |-> "SELECT", antwort |-> "STATUS",     versuche |-> SELECT_ANLAEUFE],
   De |-> [typ |-> "ERASE",  antwort |-> "STATUS",     versuche |-> 2],
   Dm |-> [typ |-> "COMMIT", antwort |-> "COMMIT_ACK", versuche |-> RUNDEN],
   Dv |-> [typ |-> "VERIFY", antwort |-> "VERIFY_ACK", versuche |-> 2],
   Dg |-> [typ |-> "GO",     antwort |-> "STATUS",     versuche |-> 3]]

(* dud_init, called before the main loop. *)
Init ==
  /\ klient \in Klienten
  /\ liste = <<>>
  /\ funk = "HMIP" /\ empfang = FALSE /\ dbg_an = FALSE
  /\ still = FALSE
  /\ w_zustand = "IDLE" /\ w_addr = NoDevice /\ w_board = NoBoard /\ w_seq = 0
  /\ ziel = NoDevice /\ ziel_pg = SEITE_MAX
  /\ puf_nr = FALSE /\ puf_map = {}
  /\ puf_bild \in klient.bilder /\ puf_len = [f \in Fragment |-> 0]
  /\ seq = 0
  /\ warte = Niemand /\ antwort = {}
  /\ pc = "bereit" /\ lauf = Ruhe
  /\ luft = {}
  /\ geraet = [d \in klient.nah |-> [ort |-> "hello", puf |-> Leer, flash |-> Leer]]
-----------------------------------------------------------------------------
(* External: what a device does with a frame.  It sends HELLOs, opens a    *)
(* session on SELECT, collects fragments, programs the page a COMMIT       *)
(* describes if it holds exactly that page, and is silent outside a        *)
(* session.                                                                *)

Verarbeitet(d, typ, last) ==
  CASE typ = "SELECT" -> [geraet EXCEPT ![d].ort = "sitzung", ![d].puf = Leer]
    [] typ = "DATA"   -> [geraet EXCEPT ![d].puf =
                            [f \in DOMAIN last \cup DOMAIN @ |->
                               IF f \in DOMAIN last THEN last[f] ELSE @[f]]]
    [] typ = "COMMIT" /\ geraet[d].puf = last ->
                         [geraet EXCEPT ![d].puf = Leer, ![d].flash = last]
    [] typ = "GO"     -> [geraet EXCEPT ![d].ort = "app", ![d].puf = Leer]
    [] OTHER          -> geraet

Antworten(d, typ, s, last, zu) ==
  LET frame(t) == [typ |-> t, addr |-> d, seq |-> s, zu |-> zu,
                   st  |-> IF typ = "COMMIT" /\ geraet[d].puf # last THEN 1 ELSE 0,
                   map |-> IF typ = "COMMIT" THEN DOMAIN geraet[d].puf ELSE {}]
  IN CASE typ \in {"SELECT", "ERASE", "GO"} -> {frame("STATUS")}
       [] typ = "COMMIT"                    -> {frame("COMMIT_ACK")}
       [] typ = "VERIFY"                    -> {frame("VERIFY_ACK")}
       [] OTHER                             -> {}

(* The frame is heard by d or lost; alt are the answers still on the air.  *)
Gesendet(d, typ, s, last, zu, alt) ==
  \/ /\ luft' = alt
     /\ UNCHANGED geraet
  \/ /\ d \in klient.nah /\ funk = "BOOT"
     /\ geraet[d].ort \in {"sitzung"} \cup (IF typ = "SELECT" THEN {"hello"} ELSE {})
     /\ geraet' = Verarbeitet(d, typ, last)
     /\ luft' = alt \cup Antworten(d, typ, s, last, zu)

(* neue_seq() draws n: an answer does not stay on the air until its number *)
(* comes round again.  zu = "anfrage" and "scharf" mark the answers to the *)
(* newest request and the newest armed SELECT.                             *)
Verbleibend(n) == {r \in luft : r.seq # n}
Veraltet(zu, R) == {IF r.zu = zu THEN [r EXCEPT !.zu = "alt"] ELSE r : r \in R}

(* Assumption: one try draws fewer than MaxSeq numbers. *)
KeineRunde == pc \in {"leeren", "warten"} => Naechste(seq) # lauf.s
-----------------------------------------------------------------------------
(* Reception. *)

funk_stellen(e, d) ==
  /\ empfang' = e /\ dbg_an' = d
  /\ funk' = IF ~e THEN "HMIP" ELSE IF d THEN "DEBUG" ELSE "BOOT"

Koll(d) == \E i \in DOMAIN liste : liste[i].addr = d /\ liste[i].koll
Bekannt(d) == \E i \in DOMAIN liste : liste[i].addr = d

(* Where the entry of a HELLO goes: the device's own, a free one, or that  *)
(* of the device not heard for longest.                                    *)
Platz(d) ==
  IF Bekannt(d) THEN CHOOSE i \in DOMAIN liste : liste[i].addr = d
  ELSE IF Len(liste) < LISTE_MAX THEN Len(liste) + 1 ELSE LISTE_MAX

Gehoert(d, k) == <<[addr |-> d, koll |-> k]>> \o RemoveAt(liste, Platz(d))

ScharfGescheitert ==
  /\ w_zustand' = "FAIL"
  /\ UNCHANGED <<target, seq, w_seq, air>>

ScharfSenden(d) ==
  /\ KeineRunde
  /\ ziel' = d /\ ziel_pg' = Pg[d]
  /\ seq' = Naechste(seq) /\ w_seq' = seq'
  /\ LET alt == Veraltet("scharf", Verbleibend(seq'))
     IN \/ /\ w_zustand' = "SENT"
           /\ Gesendet(d, "SELECT", seq', Leer, "scharf", alt)
        \/ /\ w_zustand' = "ARMED"                   (* no air time, no TX *)
           /\ luft' = alt
           /\ UNCHANGED geraet

select_scharf(d, k) ==
  \/ /\ k \/ (w_board # NoBoard /\ Board[d] # w_board)
     /\ ScharfGescheitert
  \/ /\ ~k /\ w_board \in {NoBoard, Board[d]}
     /\ ScharfSenden(d)

(* A HELLO of d calls for the armed SELECT, or after SELECT_FRIST_MS        *)
(* (frist) for one more.                                                   *)
SelectEinmal(d, frist) == d = w_addr /\ w_zustand = "ARMED"        (* mutant *)

SelectFaellig(d, frist) ==
  d = w_addr /\ (w_zustand = "ARMED" \/ (w_zustand = "SENT" /\ frist))

(* k: two chips have been heard under this address. *)
hello(d, k, frist) ==
  /\ geraet[d].ort = "hello"
  /\ k => d \in Doppelt /\ Bekannt(d)
  /\ Koll(d) => k
  /\ liste' = Gehoert(d, k)
  /\ \/ SelectFaellig(d, frist) /\ select_scharf(d, k)
     \/ ~SelectFaellig(d, frist) /\ UNCHANGED <<w_zustand, w_seq, target, seq, air>>
  /\ UNCHANGED <<w_addr, w_board, request>>

SelectBeantwortet(r) ==
  w_zustand = "SENT" /\ r.typ = "STATUS" /\ r.addr = w_addr /\ r.seq = w_seq

ErwartetTyp(r) == r.typ = warte.typ /\ antwort = {}               (* mutant *)

Erwartet(r) ==
  r.typ = warte.typ /\ r.addr = warte.addr /\ r.seq = warte.seq /\ antwort = {}

Rahmen(r) ==
  /\ r \in luft
  /\ luft' = luft \ {r}
  /\ \/ /\ SelectBeantwortet(r)
        /\ w_zustand' = IF r.st = 0 THEN "OK" ELSE "FAIL"
        /\ UNCHANGED antwort
     \/ /\ ~SelectBeantwortet(r)
        /\ antwort' = IF Erwartet(r) THEN {r} ELSE antwort
        /\ UNCHANGED w_zustand
  /\ UNCHANGED <<liste, w_addr, w_board, w_seq, target, seq, warte, geraet>>

(* Wherever the code polls: dud_task, the drain before a request, the wait *)
(* for its answer, the gap after a DATA frame.                             *)
empfangen ==
  /\ funk = "BOOT"
  /\ pc \in {"bereit", "leeren", "abstand"} \/ (pc = "warten" /\ antwort = {})
  /\ \/ \E r \in luft : Rahmen(r)
     \/ \E d \in klient.nah, k, frist \in BOOLEAN : hello(d, k, frist)
  /\ UNCHANGED <<klient, radio, still, puffer, pc, lauf>>
-----------------------------------------------------------------------------
(* Blocking commands.  pc: "frage" a request is due, "leeren" its number   *)
(* is drawn and old frames are drained, "warten" it is sent, "daten" the   *)
(* next DATA frame of a page is due, "abstand" the gap after one.          *)

Fertig ==
  /\ pc' = "bereit" /\ lauf' = Ruhe
  /\ warte' = Niemand /\ antwort' = {}

OhneEnde ==                                                       (* mutant *)
  /\ warte' = Niemand /\ antwort' = {}
  /\ pc' = (IF lauf.cmd = "Dm" THEN "daten" ELSE "frage")
  /\ lauf' = [lauf EXCEPT !.rest = Frags(lauf.pg)]

(* No answer: the next try, for a page a whole new round, or the end.      *)
Fehlschlag ==
  \/ /\ lauf.versuch = Anfrage[lauf.cmd].versuche
     /\ Fertig
  \/ /\ lauf.versuch < Anfrage[lauf.cmd].versuche
     /\ warte' = Niemand /\ antwort' = {}
     /\ IF lauf.cmd = "Dm"
        THEN /\ pc' = "daten"
             /\ lauf' = [lauf EXCEPT !.versuch = @ + 1, !.s = 0, !.rest = Frags(lauf.pg)]
        ELSE /\ pc' = "frage"
             /\ lauf' = [lauf EXCEPT !.versuch = @ + 1, !.s = 0]

AnfrageTrotzDebug ==                                              (* mutant *)
  /\ pc = "frage"
  /\ seq' = Naechste(seq)
  /\ luft' = Veraltet("anfrage", Verbleibend(seq'))
  /\ pc' = "leeren"
  /\ lauf' = [lauf EXCEPT !.s = seq']
  /\ UNCHANGED <<klient, liste, radio, still, armed, target, puffer, request, geraet>>

(* anfrage_ex up to the drain. *)
AnfrageBeginnt ==
  /\ pc = "frage"
  /\ seq' = Naechste(seq)
  /\ luft' = Veraltet("anfrage", Verbleibend(seq'))
  /\ \/ /\ dbg_an                          (* answers cannot be heard      *)
        /\ Fehlschlag
     \/ /\ ~dbg_an
        /\ pc' = "leeren"
        /\ lauf' = [lauf EXCEPT !.s = seq']
        /\ UNCHANGED request
  /\ UNCHANGED <<klient, liste, radio, still, armed, target, puffer, geraet>>

Nutzlast == IF lauf.cmd = "Dm" THEN Seite(lauf.pg) ELSE Leer

(* The drain is over, the request goes out: on the air, not sent because   *)
(* the radio failed, or given up for want of air time or of reception.     *)
AnfrageSenden ==
  /\ pc = "leeren"
  /\ \/ /\ empfang
        /\ Gesendet(ziel, Anfrage[lauf.cmd].typ, lauf.s, Nutzlast, "anfrage", luft)
        /\ warte' = [typ |-> Anfrage[lauf.cmd].antwort, seq |-> lauf.s, addr |-> ziel]
        /\ antwort' = {}
        /\ pc' = "warten"
        /\ UNCHANGED lauf
     \/ empfang /\ Fehlschlag /\ UNCHANGED air
     \/ Fertig /\ UNCHANGED air
  /\ UNCHANGED <<klient, liste, radio, still, armed, target, puffer, seq>>

Frist ==
  /\ pc = "warten" /\ antwort = {}
  /\ Fehlschlag
  /\ UNCHANGED <<klient, liste, radio, still, armed, target, puffer, seq, air>>

(* cmd_seite: done when the device programmed the page, otherwise another  *)
(* round with the fragments it lacks, or all if it lacks none.             *)
SeiteBeantwortet(r) ==
  \/ (r.st = 0 \/ lauf.versuch = RUNDEN) /\ Fertig
  \/ /\ r.st # 0 /\ lauf.versuch < RUNDEN
     /\ pc' = "daten"
     /\ lauf' = [lauf EXCEPT !.versuch = @ + 1, !.s = 0,
                   !.rest = IF Frags(lauf.pg) \subseteq r.map THEN Frags(lauf.pg)
                            ELSE Frags(lauf.pg) \ r.map]
     /\ warte' = Niemand /\ antwort' = {}

AnfrageBeantwortet ==
  /\ pc = "warten"
  /\ \E r \in antwort : IF lauf.cmd = "Dm" THEN SeiteBeantwortet(r) ELSE Fertig
  /\ UNCHANGED <<klient, liste, radio, still, armed, target, puffer, seq, air>>

(* One DATA frame; a frame the radio failed to send ends the round early.  *)
DatenSenden ==
  /\ pc = "daten" /\ lauf.rest # {}
  /\ seq' = Naechste(seq)
  /\ LET f == Min(lauf.rest)
         hier == [g \in {f} |-> Seite(lauf.pg)[f]]
     IN \/ /\ Gesendet(ziel, "DATA", seq', hier, "alt", Verbleibend(seq'))
           /\ pc' = "abstand"
           /\ lauf' = [lauf EXCEPT !.rest = @ \ {f}]
           /\ UNCHANGED request
        \/ /\ luft' = Verbleibend(seq')                            (* ERR_TX *)
           /\ pc' = "frage"
           /\ UNCHANGED <<lauf, request, geraet>>
        \/ /\ luft' = Verbleibend(seq')                          (* ERR_LOVF *)
           /\ Fertig
           /\ UNCHANGED geraet
  /\ UNCHANGED <<klient, liste, radio, still, armed, target, puffer>>

DatenFertig ==
  /\ pc = "abstand"
  /\ pc' = IF lauf.rest = {} THEN "frage" ELSE "daten"
  /\ UNCHANGED <<klient, liste, radio, still, armed, target, puffer, seq, request, lauf, air>>
-----------------------------------------------------------------------------
(* Commands, dud_befehl.  They come one at a time: the console does not    *)
(* read on while one runs.                                                 *)

Befehl(c) ==
  /\ pc = "bereit" /\ c \in klient.befehle
  /\ still' = FALSE
  /\ UNCHANGED klient

NurPuffer == UNCHANGED <<liste, radio, armed, target, seq, request, pc, lauf, air>>
NurRadio  == UNCHANGED <<liste, armed, target, puffer, seq, request, pc, lauf, air>>

(* D and Dx; Dr; Db and Db-. *)
Aus       == Befehl("Dx") /\ funk_stellen(FALSE, FALSE) /\ NurRadio
Empfang   == Befehl("Dr") /\ funk_stellen(TRUE, FALSE) /\ NurRadio
cmd_debug == Befehl("Db") /\ (\E an \in BOOLEAN : funk_stellen(TRUE, an)) /\ NurRadio

Dc ==
  /\ Befehl("Dc")
  /\ liste' = <<>>
  /\ UNCHANGED <<radio, armed, target, puffer, seq, request, pc, lauf, air>>

cmd_scharf(d, b) ==                                                 (* Dw *)
  /\ Befehl("Dw")
  /\ w_addr' = d /\ w_board' = b /\ w_zustand' = "ARMED"
  /\ IF empfang THEN UNCHANGED radio ELSE funk_stellen(TRUE, dbg_an)
  /\ UNCHANGED <<liste, w_seq, target, puffer, seq, request, pc, lauf, air>>

Dwx ==
  /\ Befehl("Dwx")
  /\ w_zustand' = "IDLE" /\ w_addr' = NoDevice /\ w_board' = NoBoard
  /\ UNCHANGED <<liste, radio, w_seq, target, puffer, seq, request, pc, lauf, air>>

Starten(c, rest) ==
  /\ pc' = IF rest = {} THEN "frage" ELSE "daten"
  /\ lauf' = [cmd |-> c, versuch |-> 1, s |-> 0, pg |-> ziel_pg, rest |-> rest]

(* Ds: refused for a collision or another board, answered at once when the *)
(* armed SELECT succeeded, otherwise a blind SELECT.                       *)
cmd_sitzung(d, b) ==
  /\ Befehl("Ds")
  /\ \/ /\ Koll(d) \/ (b # NoBoard /\ (~Bekannt(d) \/ Board[d] # b))
        /\ UNCHANGED <<target, w_zustand, pc, lauf>>
     \/ /\ ~Koll(d) /\ (b = NoBoard \/ (Bekannt(d) /\ Board[d] = b))
        /\ ziel' = d
        /\ ziel_pg' = IF Bekannt(d) THEN Pg[d] ELSE ziel_pg
        /\ IF w_zustand = "OK" /\ w_addr = d
           THEN w_zustand' = "IDLE" /\ UNCHANGED <<pc, lauf>>
           ELSE Starten("Ds", {}) /\ UNCHANGED w_zustand
  /\ UNCHANGED <<liste, radio, w_addr, w_board, w_seq, puffer, seq, request, air>>

(* De, Dv and DV, Dg. *)
cmd_einfach(c) ==
  /\ Befehl(c)
  /\ Starten(c, {})
  /\ UNCHANGED <<liste, radio, armed, target, puffer, seq, request, air>>

cmd_puffer(bild) ==                                                 (* Dp *)
  /\ Befehl("Dp")
  /\ puf_nr' = TRUE /\ puf_bild' = bild
  /\ puf_map' = {} /\ puf_len' = [f \in Fragment |-> 0]
  /\ NurPuffer

cmd_fragment(f) ==                                                  (* Dd *)
  /\ Befehl("Dd")
  /\ puf_nr /\ f * FRAG < ziel_pg
  /\ puf_map' = puf_map \cup {f}
  /\ puf_len' = [puf_len EXCEPT ![f] = Max({@, Laenge(ziel_pg, f)})]
  /\ UNCHANGED <<puf_nr, puf_bild>>
  /\ NurPuffer

cmd_seite ==                                                        (* Dm *)
  /\ Befehl("Dm")
  /\ puf_nr /\ puf_map = Frags(ziel_pg)
  /\ puf_nr' = FALSE /\ puf_map' = {}
  /\ IF empfang THEN Starten("Dm", Frags(ziel_pg)) ELSE UNCHANGED <<pc, lauf>>
  /\ UNCHANGED <<liste, radio, armed, target, puf_bild, puf_len, seq, request, air>>

cmd_kommando ==                                                     (* Dk *)
  /\ Befehl("Dk") /\ dbg_an
  /\ seq' = Naechste(seq)
  /\ luft' = Verbleibend(seq')
  /\ UNCHANGED <<liste, radio, armed, target, puffer, request, pc, lauf, geraet>>

(* Dl, Dw for its state, and every command the stick refuses. *)
Wirkungslos ==
  /\ Befehl("Dl")
  /\ UNCHANGED <<liste, radio, armed, target, puffer, seq, request, pc, lauf, air>>

Host ==
  \/ Wirkungslos \/ Aus \/ Empfang \/ cmd_debug \/ Dc \/ Dwx
  \/ \E d \in klient.nah, b \in klient.boards :
       cmd_scharf(d, b) \/ cmd_sitzung(d, b)
  \/ \E c \in {"De", "Dv", "Dg"} : cmd_einfach(c)
  \/ \E bild \in klient.bilder : cmd_puffer(bild)
  \/ \E f \in Fragment : cmd_fragment(f)
  \/ cmd_seite \/ cmd_kommando
-----------------------------------------------------------------------------
RueckfallNur ==                                                   (* mutant *)
  /\ pc = "bereit" /\ funk # "HMIP" /\ still
  /\ w_zustand \notin {"ARMED", "SENT", "OK"}
  /\ funk_stellen(FALSE, FALSE)
  /\ UNCHANGED <<klient, liste, still, armed, target, puffer, seq, request, pc, lauf, air>>

(* dud_task: back to HmIP when the host has been quiet for long. *)
Rueckfall ==
  /\ pc = "bereit" /\ funk # "HMIP" /\ still
  /\ w_zustand \notin {"ARMED", "SENT"}
  /\ funk_stellen(FALSE, FALSE)
  /\ UNCHANGED <<klient, liste, still, armed, target, puffer, seq, request, pc, lauf, air>>

(* The time since the last command only matters between commands. *)
Zeit ==
  /\ pc = "bereit" /\ ~still /\ still' = TRUE
  /\ UNCHANGED <<klient, liste, radio, armed, target, puffer, seq, request, pc, lauf, air>>

(* External: a device gives up a session it hears nothing of, for its      *)
(* HELLOs or for its application, and is reset into the bootloader.        *)
GeraetWechselt(d, von, nach) ==
  /\ geraet[d].ort = von
  /\ geraet' = [geraet EXCEPT ![d].ort = nach, ![d].puf = Leer]
  /\ UNCHANGED <<klient, liste, radio, still, armed, target, puffer, seq, request, pc, lauf, luft>>

Stick == \/ AnfrageBeginnt \/ AnfrageSenden \/ Frist \/ AnfrageBeantwortet
         \/ DatenSenden \/ DatenFertig \/ Rueckfall

SitzungVorbei(d) ==
  GeraetWechselt(d, "sitzung", "hello") \/ GeraetWechselt(d, "sitzung", "app")
Neustart(d) == GeraetWechselt(d, "app", "hello")

Next ==
  \/ Host \/ Stick \/ empfangen \/ Zeit
  \/ \E d \in klient.nah : SitzungVorbei(d) \/ Neustart(d)

Spec == Init /\ [][Next]_vars

(* The stick's own steps and the passing of time are never held up.        *)
Fair == WF_vars(Stick) /\ WF_vars(Zeit)

(* The radio: a device in reach is not lost to it for ever, so that sooner *)
(* or later a HELLO starts a SELECT that is heard, and its answer comes;   *)
(* a device does not keep a dead session open (10 s, says its SELECT).     *)
SelectKommtAn(d) ==
  d \in klient.nah /\ empfangen /\ w_zustand' = "SENT" /\ geraet'[d] # geraet[d]
AntwortKommtAn ==
  empfangen /\ w_zustand = "SENT" /\ w_zustand' \in {"OK", "FAIL"}

Radio == SF_vars(AntwortKommtAn)
         /\ \A d \in Geraet : SF_vars(SelectKommtAn(d))
                             /\ WF_vars(d \in klient.nah /\ SitzungVorbei(d))

FairSpec == Spec /\ Fair
-----------------------------------------------------------------------------
(* Properties. *)

Frame == [typ : {"STATUS", "COMMIT_ACK", "VERIFY_ACK"}, addr : Geraet,
          seq : 1 .. MaxSeq, zu : {"anfrage", "scharf", "alt"}, st : {0, 1},
          map : SUBSET Fragment]

Eintrag == [addr : Geraet, koll : BOOLEAN]

Lauf == [cmd : {"-"} \cup DOMAIN Anfrage, versuch : Nat, s : 0 .. MaxSeq,
         pg : 1 .. SEITE_MAX, rest : SUBSET Fragment]

(* The state of the stick keeps its types; above all the list holds no     *)
(* device twice, a request has at most one accepted answer, and the        *)
(* target's page fits the buffer.                                          *)
TypeOK ==
  /\ liste \in Seq(Eintrag) /\ Len(liste) <= LISTE_MAX
  /\ \A i, j \in DOMAIN liste : liste[i].addr = liste[j].addr => i = j
  /\ funk \in {"HMIP", "BOOT", "DEBUG"}
  /\ empfang \in BOOLEAN /\ dbg_an \in BOOLEAN /\ still \in BOOLEAN
  /\ w_zustand \in {"IDLE", "ARMED", "SENT", "OK", "FAIL"}
  /\ w_addr \in Geraet \cup {NoDevice} /\ w_seq \in 0 .. MaxSeq
  /\ ziel \in Geraet \cup {NoDevice} /\ ziel_pg \in 1 .. SEITE_MAX
  /\ puf_nr \in BOOLEAN /\ puf_bild \in Bild
  /\ puf_len \in [Fragment -> 0 .. FRAG] /\ puf_map \subseteq Fragment
  /\ seq \in 0 .. MaxSeq
  /\ lauf \in Lauf
  /\ antwort \subseteq Frame /\ Cardinality(antwort) <= 1
  /\ pc \in {"bereit", "frage", "leeren", "warten", "daten", "abstand"}
  /\ luft \subseteq Frame

(* An answer that a blocking command accepts answers the frame it sent     *)
(* last, never an earlier try or another command.                          *)
AnswerIsForThisTry == \A r \in antwort : r.zu = "anfrage"

(* Dm ends with st=0 only when the device it asked holds the page the host *)
(* put into the buffer, whatever frames were lost on the way.              *)
OkMeansProgrammed ==
  \A r \in antwort : lauf.cmd = "Dm" /\ r.st = 0
                      => geraet[warte.addr].flash = Seite(lauf.pg)

(* A request waits for its answer only while the radio can hear it.        *)
WaitsOnBootChannel == pc = "warten" => funk = "BOOT"

(* Every command comes to its end. *)
CommandsEnd == pc # "bereit" ~> pc = "bereit"

(* When the host stays quiet and no SELECT is pending, the radio goes back *)
(* to HmIP.                                                                *)
FallsBack ==
  <>[](still /\ w_zustand \notin {"ARMED", "SENT"}) => <>[](funk = "HMIP")

(* An armed SELECT is repeated until it is answered, as long as the host   *)
(* leaves the stick listening and the device stays in its bootloader.      *)
ArmedIsAnswered ==
  Radio /\ <>[](still /\ funk = "BOOT" /\ \A d \in Geraet : d \in klient.nah => geraet[d].ort # "app")
    => <>[](w_zustand \notin {"ARMED", "SENT"})
-----------------------------------------------------------------------------
(* What the comments say and the code does not do. *)

(* "The armed SELECT (Dw) and the debug channel run in dud_task()": while  *)
(* a command blocks, its target stays.                                     *)
TargetStays == [][pc # "bereit" => ziel' = ziel]_vars

(* "without a D command back to HmIP, unless a SELECT is armed". *)
OnlyArmedStays ==
  Radio /\ <>[](still /\ w_zustand # "ARMED") => <>[](funk = "HMIP")
=============================================================================
