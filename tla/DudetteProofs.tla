--------------------------- MODULE DudetteProofs ---------------------------
(***************************************************************************)
(* Proofs about Dudette for any number of devices, hosts, pages, tries and *)
(* sequence numbers: answers match their try, requests wait on the boot    *)
(* channel, "programmed" is true, and the stick keeps its types.           *)
(***************************************************************************)
EXTENDS Dudette, FiniteSetTheorems, SequenceTheorems, TLAPS

(* A frame, whatever its fields hold. *)
IsFrame(r) ==
  /\ r = [typ |-> r.typ, addr |-> r.addr, seq |-> r.seq, zu |-> r.zu,
          st |-> r.st, map |-> r.map]
  /\ r.typ \in {"STATUS", "COMMIT_ACK", "VERIFY_ACK"}

Frames == \A r \in luft : IsFrame(r)

(* Outside a wait nothing is awaited; in a wait the number is the try's.   *)
Awaited ==
  /\ pc = "warten" => warte.seq = lauf.s
  /\ pc # "warten" => warte = Niemand /\ antwort = {}

(* Before a request goes out no frame on the air has its number; afterwards *)
(* only its own answer has.                                                *)
NumberIsFresh ==
  /\ pc = "leeren" => \A r \in luft : r.seq # lauf.s
  /\ pc = "warten" => \A r \in luft : r.seq = lauf.s => r.zu = "anfrage"

(* A running command has a place for its number. *)
Numbered == "s" \in DOMAIN lauf

MatchInv == Frames /\ Awaited /\ NumberIsFresh /\ AnswerIsForThisTry

LEMMA NumberedKept ==
  ASSUME Numbered, [Next]_vars PROVE Numbered'
<1>1. CASE Stick
  <2>1. UNCHANGED lauf \/ Fehlschlag \/ Fertig \/ (\E r : SeiteBeantwortet(r))
          \/ lauf' = [lauf EXCEPT !.s = seq'] \/ (\E f : lauf' = [lauf EXCEPT !.rest = @ \ {f}])
    BY <1>1 DEF Stick, AnfrageBeginnt, AnfrageSenden, Frist, AnfrageBeantwortet, DatenSenden,
                DatenFertig, Rueckfall
  <2>2. CASE Fehlschlag \/ Fertig
    <3>1. CASE Fertig
      BY <3>1 DEF Numbered, Fertig, Ruhe
    <3>2. CASE \E R : lauf' = [lauf EXCEPT !.versuch = @ + 1, !.s = 0, !.rest = R]
      BY <3>2 DEF Numbered
    <3>3. CASE lauf' = [lauf EXCEPT !.versuch = @ + 1, !.s = 0]
      BY <3>3 DEF Numbered
    <3>4. QED
      BY <2>2, <3>1, <3>2, <3>3 DEF Fehlschlag
  <2>3. CASE \E r : SeiteBeantwortet(r)
    <3>1. CASE Fertig
      BY <3>1 DEF Numbered, Fertig, Ruhe
    <3>2. CASE \E R : lauf' = [lauf EXCEPT !.versuch = @ + 1, !.s = 0, !.rest = R]
      BY <3>2 DEF Numbered
    <3>3. QED
      BY <2>3, <3>1, <3>2 DEF SeiteBeantwortet
  <2>4. CASE UNCHANGED lauf
    BY <2>4 DEF Numbered
  <2>5. CASE lauf' = [lauf EXCEPT !.s = seq']
    BY <2>5 DEF Numbered
  <2>6. CASE \E f : lauf' = [lauf EXCEPT !.rest = @ \ {f}]
    BY <2>6 DEF Numbered
  <2>7. QED
    BY <2>1, <2>2, <2>3, <2>4, <2>5, <2>6
<1>2. CASE Host
  <2>1. UNCHANGED lauf \/ (\E c, rest : Starten(c, rest))
    BY <1>2 DEF Host, Wirkungslos, Aus, Empfang, cmd_debug, Dc, Dwx, cmd_scharf, cmd_sitzung,
                cmd_einfach, cmd_puffer, cmd_fragment, cmd_seite, cmd_kommando, NurPuffer, NurRadio
  <2>2. QED
    BY <2>1 DEF Numbered, Starten
<1>3. CASE ~Stick /\ ~Host
  <2>1. UNCHANGED lauf
    BY <1>3 DEF Next, empfangen, Zeit, SitzungVorbei, Neustart, GeraetWechselt, vars
  <2>2. QED
    BY <2>1 DEF Numbered
<1>4. QED
  BY <1>1, <1>2, <1>3

LEMMA VeraltetFrames ==
  ASSUME NEW R, \A r \in R : IsFrame(r), NEW zu, NEW q \in Veraltet(zu, R)
  PROVE  /\ IsFrame(q)
         /\ \E r \in R : q.seq = r.seq /\ (r.zu # zu => q.zu = r.zu)
<1>1. PICK r \in R : q = IF r.zu = zu THEN [r EXCEPT !.zu = "alt"] ELSE r
  BY DEF Veraltet
<1>2. IsFrame(r)
  OBVIOUS
<1>3. CASE r.zu = zu
  <2>1. q = [typ |-> r.typ, addr |-> r.addr, seq |-> r.seq, zu |-> "alt",
             st |-> r.st, map |-> r.map]
    BY <1>1, <1>2, <1>3 DEF IsFrame
  <2>2. QED
    BY <1>2, <1>3, <2>1 DEF IsFrame
<1>4. CASE r.zu # zu
  BY <1>1, <1>2, <1>4
<1>5. QED
  BY <1>3, <1>4

(* The devices answer with frames that carry the number they were asked.   *)
LEMMA AntwortenFrames ==
  ASSUME NEW d, NEW typ, NEW s, NEW last, NEW zu,
         NEW q \in Antworten(d, typ, s, last, zu)
  PROVE  IsFrame(q) /\ q.seq = s /\ q.zu = zu
<1> DEFINE st  == IF typ = "COMMIT" /\ geraet[d].puf # last THEN 1 ELSE 0
           map == IF typ = "COMMIT" THEN DOMAIN geraet[d].puf ELSE {}
           frame(t) == [typ |-> t, addr |-> d, seq |-> s, zu |-> zu, st |-> st, map |-> map]
<1>1. q \in {frame("STATUS"), frame("COMMIT_ACK"), frame("VERIFY_ACK")}
  BY DEF Antworten
<1> HIDE DEF st, map
<1>2. ASSUME NEW t \in {"STATUS", "COMMIT_ACK", "VERIFY_ACK"}, q = frame(t)
      PROVE  IsFrame(q) /\ q.seq = s /\ q.zu = zu
  BY <1>2 DEF IsFrame
<1>3. QED
  BY <1>1, <1>2

LEMMA GesendetFrames ==
  ASSUME NEW d, NEW typ, NEW s, NEW last, NEW zu, NEW alt,
         Gesendet(d, typ, s, last, zu, alt), NEW q \in luft'
  PROVE  q \in alt \/ (IsFrame(q) /\ q.seq = s /\ q.zu = zu)
<1>1. q \in alt \/ q \in Antworten(d, typ, s, last, zu)
  BY DEF Gesendet
<1>2. QED
  BY <1>1, AntwortenFrames

(* Steps that neither draw a number nor receive nor send. *)
LEMMA Kept ==
  ASSUME MatchInv, UNCHANGED <<luft, warte, antwort>>,
         UNCHANGED <<pc, lauf>> \/ (pc # "warten" /\ pc' \notin {"leeren", "warten"})
  PROVE  MatchInv'
BY DEF MatchInv, Frames, Awaited, NumberIsFresh, AnswerIsForThisTry, IsFrame, Niemand

(* Steps that end a try. *)
LEMMA Ended ==
  ASSUME pc' \notin {"leeren", "warten"}, warte' = Niemand, antwort' = {},
         \A r \in luft' : IsFrame(r)
  PROVE  MatchInv'
BY DEF MatchInv, Frames, Awaited, NumberIsFresh, AnswerIsForThisTry, Niemand, IsFrame

LEMMA MatchHost ==
  ASSUME MatchInv, Host PROVE MatchInv'
<1>1. pc = "bereit"
  BY DEF Host, Befehl, Wirkungslos, Aus, Empfang, cmd_debug, Dc, Dwx, cmd_scharf,
         cmd_sitzung, cmd_einfach, cmd_puffer, cmd_fragment, cmd_seite, cmd_kommando
<1>2. CASE cmd_kommando
  <2>1. pc' = "bereit" /\ UNCHANGED request
    BY <1>1, <1>2 DEF cmd_kommando
  <2>2. luft' \subseteq luft
    BY <1>2 DEF cmd_kommando, Verbleibend
  <2>3. QED
    BY <1>1, <2>1, <2>2, Ended DEF MatchInv, Awaited, Frames, request
<1>3. CASE Host /\ ~cmd_kommando
  <2>1. UNCHANGED <<luft, warte, antwort>>
    BY <1>3 DEF Host, Wirkungslos, Aus, Empfang, cmd_debug, Dc, Dwx, cmd_scharf, cmd_sitzung,
                cmd_einfach, cmd_puffer, cmd_fragment, cmd_seite, NurPuffer, NurRadio, request, air
  <2>2. UNCHANGED <<pc, lauf>> \/ pc' \in {"frage", "daten"}
    BY <1>3 DEF Host, Wirkungslos, Aus, Empfang, cmd_debug, Dc, Dwx, cmd_scharf, cmd_sitzung,
                cmd_einfach, cmd_puffer, cmd_fragment, cmd_seite, NurPuffer, NurRadio, Starten
  <2>3. QED
    BY <1>1, <2>1, <2>2, Kept
<1>4. QED
  BY <1>2, <1>3

LEMMA MatchStick ==
  ASSUME MatchInv, Numbered, Stick PROVE MatchInv'
<1>1. CASE AnfrageBeginnt
  <2>1. PICK n : n = Naechste(seq) /\ luft' = Veraltet("anfrage", {r \in luft : r.seq # n})
                 /\ seq' = n
    BY <1>1 DEF AnfrageBeginnt, Verbleibend
  <2>2. \A q \in luft' : IsFrame(q) /\ q.seq # n
    BY <2>1, VeraltetFrames DEF MatchInv, Frames
  <2>3. pc # "warten" /\ warte = Niemand /\ antwort = {}
    BY <1>1 DEF AnfrageBeginnt, MatchInv, Awaited
  <2>4. CASE dbg_an /\ Fehlschlag
    BY <2>2, <2>4, Ended DEF Fehlschlag, Fertig
  <2>5. CASE ~dbg_an /\ pc' = "leeren" /\ lauf' = [lauf EXCEPT !.s = seq'] /\ UNCHANGED request
    <3>1. lauf'.s = n
      BY <2>1, <2>5 DEF Numbered
    <3>2. QED
      BY <2>2, <2>3, <2>5, <3>1
         DEF MatchInv, Frames, Awaited, NumberIsFresh, AnswerIsForThisTry, request, Niemand
  <2>6. QED
    BY <1>1, <2>4, <2>5 DEF AnfrageBeginnt
<1>2. CASE AnfrageSenden
  <2>1. pc = "leeren" /\ warte = Niemand /\ antwort = {}
    BY <1>2 DEF AnfrageSenden, MatchInv, Awaited
  <2>2. CASE (Fehlschlag \/ Fertig) /\ UNCHANGED air
    BY <2>2, Ended DEF Fehlschlag, Fertig, air, MatchInv, Frames
  <2>3. CASE /\ Gesendet(ziel, Anfrage[lauf.cmd].typ, lauf.s, Nutzlast, "anfrage", luft)
             /\ warte' = [typ |-> Anfrage[lauf.cmd].antwort, seq |-> lauf.s, addr |-> ziel]
             /\ antwort' = {} /\ pc' = "warten" /\ UNCHANGED lauf
    <3>1. \A q \in luft' : q \in luft \/ (IsFrame(q) /\ q.seq = lauf.s /\ q.zu = "anfrage")
      BY <2>3, GesendetFrames
    <3>2. QED
      BY <2>1, <2>3, <3>1 DEF MatchInv, Frames, Awaited, NumberIsFresh, AnswerIsForThisTry, IsFrame
  <2>4. QED
    BY <1>2, <2>2, <2>3 DEF AnfrageSenden
<1>3. CASE Frist
  BY <1>3, Ended DEF Frist, Fehlschlag, Fertig, air, MatchInv, Frames
<1>4. CASE AnfrageBeantwortet
  BY <1>4, Ended DEF AnfrageBeantwortet, SeiteBeantwortet, Fertig, air, MatchInv, Frames
<1>5. CASE DatenSenden
  <2>1. pc = "daten" /\ warte = Niemand /\ antwort = {}
    BY <1>5 DEF DatenSenden, MatchInv, Awaited
  <2>2. \A q \in luft' : IsFrame(q)
    <3>1. PICK hier : \/ Gesendet(ziel, "DATA", seq', hier, "alt", Verbleibend(seq'))
                      \/ luft' = Verbleibend(seq')
      BY <1>5 DEF DatenSenden
    <3>2. \A q \in Verbleibend(seq') : IsFrame(q)
      BY DEF Verbleibend, MatchInv, Frames
    <3>3. QED
      BY <3>1, <3>2, GesendetFrames
  <2>3. pc' \in {"abstand", "frage", "bereit"} /\ warte' = Niemand /\ antwort' = {}
    BY <1>5, <2>1 DEF DatenSenden, Fertig, request
  <2>4. QED
    BY <2>2, <2>3, Ended
<1>6. CASE DatenFertig
  BY <1>6, Kept DEF DatenFertig, request, air
<1>7. CASE Rueckfall
  BY <1>7, Kept DEF Rueckfall, request, air
<1>8. QED
  BY <1>1, <1>2, <1>3, <1>4, <1>5, <1>6, <1>7 DEF Stick

LEMMA MatchReceive ==
  ASSUME MatchInv, empfangen PROVE MatchInv'
<1>0. UNCHANGED <<pc, lauf>>
  BY DEF empfangen
<1>1. ASSUME NEW r \in luft, Rahmen(r) PROVE MatchInv'
  <2>1. luft' \subseteq luft /\ UNCHANGED warte
    BY <1>1 DEF Rahmen
  <2>2. antwort' = antwort \/ (antwort' = {r} /\ Erwartet(r))
    BY <1>1 DEF Rahmen
  <2>3. CASE antwort' = antwort
    BY <1>0, <2>1, <2>3 DEF MatchInv, Frames, Awaited, NumberIsFresh, AnswerIsForThisTry, IsFrame
  <2>4. CASE antwort' = {r} /\ Erwartet(r)
    <3>1. pc = "warten"
      BY <1>1, <2>4 DEF Erwartet, MatchInv, Frames, Awaited, Niemand, IsFrame
    <3>2. r.zu = "anfrage"
      BY <3>1, <2>4 DEF Erwartet, MatchInv, Awaited, NumberIsFresh
    <3>3. QED
      BY <1>0, <2>1, <2>4, <3>1, <3>2
         DEF MatchInv, Frames, Awaited, NumberIsFresh, AnswerIsForThisTry, IsFrame
  <2>5. QED
    BY <2>2, <2>3, <2>4
<1>2. ASSUME NEW d, NEW k, NEW frist, hello(d, k, frist) PROVE MatchInv'
  <2>1. UNCHANGED request
    BY <1>2 DEF hello
  <2>2. CASE UNCHANGED luft
    BY <1>0, <2>1, <2>2, Kept DEF request
  <2>3. CASE ScharfSenden(d)
    <3>1. PICK n : n = Naechste(seq) /\ seq' = n
      BY <2>3 DEF ScharfSenden
    <3>2. \A q \in Veraltet("scharf", {r \in luft : r.seq # n}) :
             /\ IsFrame(q) /\ q.seq # n
             /\ \E r \in luft : q.seq = r.seq /\ (r.zu # "scharf" => q.zu = r.zu)
      BY VeraltetFrames DEF MatchInv, Frames
    <3>3. \A q \in luft' : \/ q \in Veraltet("scharf", {r \in luft : r.seq # n})
                           \/ IsFrame(q) /\ q.seq = n /\ q.zu = "scharf"
      BY <2>3, <3>1, GesendetFrames DEF ScharfSenden, Verbleibend
    <3>4. pc \in {"leeren", "warten"} => n # lauf.s
      BY <2>3, <3>1 DEF ScharfSenden, KeineRunde
    <3>5. \A q \in luft' : /\ IsFrame(q)
                           /\ pc = "leeren" => q.seq # lauf.s
                           /\ pc = "warten" => (q.seq = lauf.s => q.zu = "anfrage")
      <4>1. ASSUME NEW q \in luft' PROVE IsFrame(q)
        BY <3>2, <3>3
      <4>2. ASSUME NEW q \in luft', pc = "leeren" PROVE q.seq # lauf.s
        BY <3>2, <3>3, <3>4, <4>2 DEF MatchInv, NumberIsFresh
      <4>3. ASSUME NEW q \in luft', pc = "warten", q.seq = lauf.s PROVE q.zu = "anfrage"
        BY <3>2, <3>3, <3>4, <4>3 DEF MatchInv, NumberIsFresh
      <4>4. QED
        BY <4>1, <4>2, <4>3
    <3>6. QED
      BY <1>0, <2>1, <3>5
         DEF MatchInv, Frames, Awaited, NumberIsFresh, AnswerIsForThisTry, request, IsFrame
  <2>4. QED
    BY <1>2, <2>2, <2>3 DEF hello, select_scharf, ScharfGescheitert, air
<1>3. QED
  BY <1>1, <1>2 DEF empfangen

LEMMA MatchStep ==
  ASSUME MatchInv, Numbered, [Next]_vars PROVE MatchInv'
<1>1. CASE Zeit \/ \E d \in klient.nah : SitzungVorbei(d) \/ Neustart(d)
  BY <1>1, Kept DEF Zeit, SitzungVorbei, Neustart, GeraetWechselt, request, air
<1>2. CASE UNCHANGED vars
  BY <1>2, Kept DEF vars, request, air
<1>3. QED
  BY <1>1, <1>2, MatchHost, MatchStick, MatchReceive DEF Next

(* An answer a blocking command accepts is the one to the frame it sent    *)
(* last: for any number of sequence numbers, tries, devices and hosts, if  *)
(* a try draws fewer numbers than there are.                               *)
THEOREM AnswersMatch == Spec => []AnswerIsForThisTry
<1>1. Init => MatchInv /\ Numbered
  BY DEF Init, Numbered, Ruhe, Niemand, MatchInv, Frames, Awaited, NumberIsFresh, AnswerIsForThisTry
<1>2. MatchInv /\ Numbered /\ [Next]_vars => (MatchInv /\ Numbered)'
  BY MatchStep, NumberedKept
<1>3. MatchInv => AnswerIsForThisTry
  BY DEF MatchInv
<1>4. QED
  BY <1>1, <1>2, <1>3, PTL DEF Spec

-----------------------------------------------------------------------------
(* The registers follow the flags, the debug channel is off from the check *)
(* of a request to its end, and the radio listens while it waits.          *)
ChannelInv ==
  /\ funk = IF ~empfang THEN "HMIP" ELSE IF dbg_an THEN "DEBUG" ELSE "BOOT"
  /\ pc \in {"leeren", "warten"} => ~dbg_an
  /\ pc = "warten" => empfang

LEMMA ChannelStick ==
  ASSUME ChannelInv, Stick PROVE ChannelInv'
<1>0. Fehlschlag \/ Fertig => pc' \in {"bereit", "daten", "frage"}
  BY DEF Fehlschlag, Fertig
<1>1. CASE AnfrageBeginnt
  BY <1>0, <1>1 DEF AnfrageBeginnt, ChannelInv, radio
<1>2. CASE AnfrageSenden
  BY <1>0, <1>2 DEF AnfrageSenden, ChannelInv, radio
<1>3. CASE Frist \/ AnfrageBeantwortet
  <2>1. pc' \in {"bereit", "daten", "frage"} /\ UNCHANGED radio
    BY <1>0, <1>3 DEF Frist, AnfrageBeantwortet, SeiteBeantwortet
  <2>2. QED
    BY <2>1 DEF ChannelInv, radio
<1>4. CASE DatenSenden \/ DatenFertig
  BY <1>4 DEF DatenSenden, DatenFertig, Fertig, ChannelInv, radio
<1>5. CASE Rueckfall
  BY <1>5 DEF Rueckfall, funk_stellen, ChannelInv
<1>6. QED
  BY <1>1, <1>2, <1>3, <1>4, <1>5 DEF Stick

LEMMA ChannelHost ==
  ASSUME ChannelInv, Host PROVE ChannelInv'
<1>1. UNCHANGED radio \/ (\E e, d : funk_stellen(e, d))
  BY DEF Host, Wirkungslos, Aus, Empfang, cmd_debug, Dc, Dwx, cmd_scharf, cmd_sitzung,
         cmd_einfach, cmd_puffer, cmd_fragment, cmd_seite, cmd_kommando, NurPuffer
<1>2. pc' \notin {"leeren", "warten"}
  BY DEF Host, Befehl, Wirkungslos, Aus, Empfang, cmd_debug, Dc, Dwx, cmd_scharf, cmd_sitzung,
         cmd_einfach, cmd_puffer, cmd_fragment, cmd_seite, cmd_kommando, NurPuffer, NurRadio, Starten
<1>3. QED
  BY <1>1, <1>2 DEF ChannelInv, radio, funk_stellen

(* A request waits for its answer only on the boot channel: neither the    *)
(* fallback nor the debug channel can take the radio away from a command.  *)
THEOREM ChannelKept == Spec => []WaitsOnBootChannel
<1>1. Init => ChannelInv
  BY DEF Init, ChannelInv
<1>2. ChannelInv /\ [Next]_vars => ChannelInv'
  <2> SUFFICES ASSUME ChannelInv, [Next]_vars PROVE ChannelInv'
    OBVIOUS
  <2>1. CASE empfangen \/ Zeit \/ (\E d \in klient.nah : SitzungVorbei(d) \/ Neustart(d)) \/ UNCHANGED vars
    <3>1. UNCHANGED <<radio, pc>>
      BY <2>1 DEF empfangen, Zeit, SitzungVorbei, Neustart, GeraetWechselt, vars
    <3>2. QED
      BY <3>1 DEF ChannelInv, radio
  <2>2. QED
    BY <2>1, ChannelStick, ChannelHost DEF Next
<1>3. ChannelInv => WaitsOnBootChannel
  BY DEF ChannelInv, WaitsOnBootChannel
<1>4. QED
  BY <1>1, <1>2, <1>3, PTL DEF Spec

-----------------------------------------------------------------------------
(* What is in a device's flash, as the state of all devices changes. *)
HasFlash(G, N) == DOMAIN G = N /\ \A e \in N : "flash" \in DOMAIN G[e]

SameFlash ==
  HasFlash(geraet', klient.nah) /\ \A e \in klient.nah : geraet'[e].flash = geraet[e].flash

LEMMA FlashKept ==
  ASSUME HasFlash(geraet, klient.nah), NEW d \in klient.nah, NEW b,
         geraet' = [geraet EXCEPT ![d].puf = b]
  PROVE  SameFlash
<1>1. DOMAIN geraet' = klient.nah
  BY DEF HasFlash
<1>2. ASSUME NEW e \in klient.nah PROVE "flash" \in DOMAIN geraet'[e] /\ geraet'[e].flash = geraet[e].flash
  <2> DEFINE g == geraet[e]
             h == geraet'[e]
  <2>1. "flash" \in DOMAIN g /\ (h = g \/ h = [g EXCEPT !.puf = b])
    BY DEF HasFlash
  <2> HIDE DEF g, h
  <2>2. "flash" \in DOMAIN h /\ h.flash = g.flash
    BY <2>1
  <2>3. QED
    BY <2>2 DEF g, h
<1>3. QED
  BY <1>1, <1>2 DEF HasFlash, SameFlash

LEMMA FlashKeptMoving ==
  ASSUME HasFlash(geraet, klient.nah), NEW d \in klient.nah, NEW a, NEW b,
         geraet' = [geraet EXCEPT ![d].ort = a, ![d].puf = b]
  PROVE  SameFlash
<1>1. DOMAIN geraet' = klient.nah
  BY DEF HasFlash
<1>2. ASSUME NEW e \in klient.nah PROVE "flash" \in DOMAIN geraet'[e] /\ geraet'[e].flash = geraet[e].flash
  <2> DEFINE g == geraet[e]
             h == geraet'[e]
  <2>1. "flash" \in DOMAIN g /\ (h = g \/ h = [g EXCEPT !.ort = a, !.puf = b])
    BY DEF HasFlash
  <2> HIDE DEF g, h
  <2>2. "flash" \in DOMAIN h /\ h.flash = g.flash
    BY <2>1
  <2>3. QED
    BY <2>2 DEF g, h
<1>3. QED
  BY <1>1, <1>2 DEF HasFlash, SameFlash

LEMMA FlashWritten ==
  ASSUME HasFlash(geraet, klient.nah), NEW d \in klient.nah, NEW a, NEW b,
         geraet' = [geraet EXCEPT ![d].puf = a, ![d].flash = b]
  PROVE  HasFlash(geraet', klient.nah) /\ geraet'[d].flash = b
<1>1. DOMAIN geraet' = klient.nah
  BY DEF HasFlash
<1>2. ASSUME NEW e \in klient.nah PROVE "flash" \in DOMAIN geraet'[e] /\ (e = d => geraet'[e].flash = b)
  <2> DEFINE g == geraet[e]
             h == geraet'[e]
  <2>1. "flash" \in DOMAIN g /\ (IF e = d THEN h = [g EXCEPT !.puf = a, !.flash = b] ELSE h = g)
    BY DEF HasFlash
  <2> HIDE DEF g, h
  <2>2. CASE e = d
    <3>1. DOMAIN h = DOMAIN g /\ h.flash = b
      BY <2>1, <2>2
    <3>2. QED
      BY <2>1, <3>1 DEF g, h
  <2>3. CASE e # d
    BY <2>1, <2>3 DEF g, h
  <2>4. QED
    BY <2>2, <2>3
<1>3. QED
  BY <1>1, <1>2 DEF HasFlash

-----------------------------------------------------------------------------
(* Frames that answer the request being waited for tell the truth about    *)
(* the page; before the request none of its kind is on the air.            *)
Truthful(R) ==
  \A r \in R : r.zu = "anfrage" /\ r.st = 0
    => r.addr \in klient.nah /\ geraet[r.addr].flash = Seite(lauf.pg)

Programmed ==
  /\ HasFlash(geraet, klient.nah)
  /\ pc = "leeren" => \A r \in luft : r.zu # "anfrage"
  /\ pc = "warten" /\ lauf.cmd = "Dm" => Truthful(luft \cup antwort)
  /\ \A r \in antwort : r.addr = warte.addr

LEMMA VeraltetAlt ==
  ASSUME NEW R, \A r \in R : IsFrame(r), NEW zu, NEW q \in Veraltet(zu, R)
  PROVE  q.zu = "alt" \/ (q \in R /\ q.zu # zu)
<1>1. PICK r \in R : q = IF r.zu = zu THEN [r EXCEPT !.zu = "alt"] ELSE r
  BY DEF Veraltet
<1>2. CASE r.zu = zu
  <2>1. q = [typ |-> r.typ, addr |-> r.addr, seq |-> r.seq, zu |-> "alt",
             st |-> r.st, map |-> r.map]
    BY <1>1, <1>2 DEF IsFrame
  <2>2. QED
    BY <2>1
<1>3. QED
  BY <1>1, <1>2

(* The answer to a COMMIT. *)
LEMMA AckFrame ==
  ASSUME NEW d, NEW s, NEW last, NEW zu, NEW q \in Antworten(d, "COMMIT", s, last, zu)
  PROVE  q.addr = d /\ (geraet[d].puf # last => q.st = 1)
<1> DEFINE st == IF geraet[d].puf # last THEN 1 ELSE 0
           map == DOMAIN geraet[d].puf
<1>1. q = [typ |-> "COMMIT_ACK", addr |-> d, seq |-> s, zu |-> zu, st |-> st, map |-> map]
  BY DEF Antworten
<1> HIDE DEF map
<1>2. QED
  BY <1>1

(* Only a COMMIT writes flash, and an answer without error says it did.    *)
LEMMA SentFlash ==
  ASSUME HasFlash(geraet, klient.nah), NEW d, NEW typ, NEW s, NEW last, NEW zu, NEW alt,
         Gesendet(d, typ, s, last, zu, alt)
  PROVE  /\ HasFlash(geraet', klient.nah)
         /\ typ # "COMMIT" => SameFlash
         /\ typ = "COMMIT" => \A q \in luft' :
              q \in alt \/ (q.st = 0 => q.addr \in klient.nah /\ geraet'[q.addr].flash = last)
<1>1. CASE luft' = alt /\ UNCHANGED geraet
  BY <1>1 DEF SameFlash
<1>2. CASE /\ d \in klient.nah
           /\ geraet' = Verarbeitet(d, typ, last)
           /\ luft' = alt \cup Antworten(d, typ, s, last, zu)
  <2>1. CASE typ = "COMMIT" /\ geraet[d].puf = last
    <3>1. geraet' = [geraet EXCEPT ![d].puf = Leer, ![d].flash = last]
      BY <1>2, <2>1 DEF Verarbeitet
    <3>2. HasFlash(geraet', klient.nah) /\ geraet'[d].flash = last
      BY <1>2, <3>1, FlashWritten, Zenon
    <3>3. \A q \in Antworten(d, typ, s, last, zu) : q.addr = d
      BY <2>1, AckFrame
    <3>4. QED
      BY <1>2, <2>1, <3>2, <3>3
  <2>2. CASE typ = "COMMIT" /\ geraet[d].puf # last
    <3>1. UNCHANGED geraet
      BY <1>2, <2>2 DEF Verarbeitet
    <3>2. \A q \in Antworten(d, typ, s, last, zu) : q.st = 1
      BY <2>2, AckFrame
    <3>3. QED
      BY <1>2, <2>2, <3>1, <3>2
  <2>3. CASE typ # "COMMIT"
    <3> DEFINE neu == [f \in DOMAIN last \cup DOMAIN geraet[d].puf |->
                         IF f \in DOMAIN last THEN last[f] ELSE geraet[d].puf[f]]
    <3>1. CASE typ = "DATA"
      <4>1. geraet' = [geraet EXCEPT ![d].puf = neu]
        BY <1>2, <3>1 DEF Verarbeitet
      <4> HIDE DEF neu
      <4>2. QED
        <5>1. SameFlash
          BY <1>2, <4>1, FlashKept, Zenon
        <5>2. QED
          BY <2>3, <5>1 DEF SameFlash
    <3>2. CASE typ # "DATA"
      <4>1. CASE UNCHANGED geraet
        BY <2>3, <4>1 DEF SameFlash
      <4>2. ASSUME NEW a, geraet' = [geraet EXCEPT ![d].ort = a, ![d].puf = Leer]
            PROVE  SameFlash
        BY <1>2, <4>2, FlashKeptMoving, Zenon
      <4>3. QED
        BY <1>2, <2>3, <3>2, <4>1, <4>2 DEF Verarbeitet, SameFlash
    <3>3. QED
      BY <3>1, <3>2
  <2>4. QED
    BY <2>1, <2>2, <2>3
<1>3. QED
  BY <1>1, <1>2 DEF Gesendet

(* Outside a request only the devices matter. *)
LEMMA ProgrammedOutside ==
  ASSUME HasFlash(geraet', klient'.nah), pc' \notin {"leeren", "warten"}, antwort' = {}
  PROVE  Programmed'
BY DEF Programmed

LEMMA ProgrammedHost ==
  ASSUME MatchInv', Programmed, Host PROVE Programmed'
<1>1. pc' \notin {"leeren", "warten"}
  BY DEF Host, Befehl, Wirkungslos, Aus, Empfang, cmd_debug, Dc, Dwx, cmd_scharf, cmd_sitzung,
         cmd_einfach, cmd_puffer, cmd_fragment, cmd_seite, cmd_kommando, NurPuffer, NurRadio, Starten
<1>2. UNCHANGED <<geraet, klient>>
  BY DEF Host, Befehl, Wirkungslos, Aus, Empfang, cmd_debug, Dc, Dwx, cmd_scharf, cmd_sitzung,
         cmd_einfach, cmd_puffer, cmd_fragment, cmd_seite, cmd_kommando, NurPuffer, NurRadio, air
<1>3. HasFlash(geraet', klient'.nah)
  BY <1>2 DEF Programmed
<1>4. QED
  BY <1>1, <1>3, ProgrammedOutside DEF MatchInv, Awaited

LEMMA ProgrammedStick ==
  ASSUME MatchInv, MatchInv', Numbered, Programmed, Stick PROVE Programmed'
<1>0. UNCHANGED <<klient, puffer>>
  BY DEF Stick, AnfrageBeginnt, AnfrageSenden, Frist, AnfrageBeantwortet, DatenSenden,
         DatenFertig, Rueckfall
<1>1. CASE AnfrageBeginnt
  <2>1. HasFlash(geraet', klient'.nah)
    BY <1>0, <1>1 DEF AnfrageBeginnt, Programmed
  <2>2. \A q \in luft' : q.zu # "anfrage"
    <3>1. PICK n : luft' = Veraltet("anfrage", {r \in luft : r.seq # n})
      BY <1>1 DEF AnfrageBeginnt, Verbleibend
    <3>2. QED
      BY <3>1, VeraltetAlt DEF MatchInv, Frames
  <2>3. pc' # "warten"
    BY <1>1 DEF AnfrageBeginnt, Fehlschlag, Fertig
  <2>4. QED
    BY <2>1, <2>2, <2>3 DEF Programmed, MatchInv, Awaited
<1>2. CASE AnfrageSenden
  <2>1. CASE (Fehlschlag \/ Fertig) /\ UNCHANGED air
    <3>1. HasFlash(geraet', klient'.nah) /\ pc' \notin {"leeren", "warten"} /\ antwort' = {}
      BY <1>0, <2>1 DEF Fehlschlag, Fertig, air, Programmed
    <3>2. QED
      BY <3>1, ProgrammedOutside
  <2>2. CASE /\ Gesendet(ziel, Anfrage[lauf.cmd].typ, lauf.s, Nutzlast, "anfrage", luft)
             /\ antwort' = {} /\ pc' = "warten" /\ UNCHANGED lauf
    <3>1. pc = "leeren" /\ HasFlash(geraet, klient.nah) /\ \A r \in luft : r.zu # "anfrage"
      BY <1>2 DEF AnfrageSenden, Programmed
    <3>2. HasFlash(geraet', klient'.nah)
      BY <1>0, <2>2, <3>1, SentFlash
    <3>3. ASSUME lauf.cmd = "Dm" PROVE Truthful(luft \cup antwort)'
      <4>1. Anfrage[lauf.cmd].typ = "COMMIT" /\ Nutzlast = Seite(lauf.pg)
        BY <3>3 DEF Anfrage, Nutzlast
      <4>2. UNCHANGED <<Seite(lauf.pg), klient>>
        BY <1>0, <2>2 DEF Seite, puffer
      <4>3. \A q \in luft' : \/ q \in luft
                             \/ q.st = 0 => q.addr \in klient.nah /\ geraet'[q.addr].flash = Seite(lauf.pg)
        BY <2>2, <3>1, <4>1, SentFlash
      <4>4. QED
        BY <2>2, <3>1, <4>2, <4>3 DEF Truthful
    <3>4. QED
      BY <2>2, <3>2, <3>3 DEF Programmed
  <2>3. QED
    BY <1>2, <2>1, <2>2 DEF AnfrageSenden
<1>3. CASE Frist \/ AnfrageBeantwortet
  <2>1. HasFlash(geraet', klient'.nah) /\ pc' \notin {"leeren", "warten"} /\ antwort' = {}
    BY <1>0, <1>3 DEF Frist, AnfrageBeantwortet, SeiteBeantwortet, Fehlschlag, Fertig, air, Programmed
  <2>2. QED
    BY <2>1, ProgrammedOutside
<1>4. CASE DatenSenden
  <2>1. HasFlash(geraet', klient'.nah)
    <3>1. UNCHANGED geraet \/ (\E hier : Gesendet(ziel, "DATA", seq', hier, "alt", Verbleibend(seq')))
      BY <1>4 DEF DatenSenden
    <3>2. HasFlash(geraet, klient.nah)
      BY DEF Programmed
    <3>3. QED
      BY <1>0, <3>1, <3>2, SentFlash
  <2>2. pc' \notin {"leeren", "warten"}
    BY <1>4 DEF DatenSenden, Fertig
  <2>3. QED
    BY <2>1, <2>2, ProgrammedOutside DEF MatchInv, Awaited
<1>5. CASE DatenFertig \/ Rueckfall
  <2>1. HasFlash(geraet', klient'.nah) /\ pc' \notin {"leeren", "warten"}
    BY <1>0, <1>5 DEF DatenFertig, Rueckfall, air, Programmed
  <2>2. QED
    BY <2>1, ProgrammedOutside DEF MatchInv, Awaited
<1>6. QED
  BY <1>1, <1>2, <1>3, <1>4, <1>5 DEF Stick

LEMMA ProgrammedReceive ==
  ASSUME MatchInv, Programmed, empfangen PROVE Programmed'
<1>0. UNCHANGED <<pc, lauf, klient, puffer>>
  BY DEF empfangen
<1>1. UNCHANGED Seite(lauf.pg)
  BY <1>0 DEF Seite, puffer
<1>2. ASSUME NEW r \in luft, Rahmen(r) PROVE Programmed'
  <2>1. luft' \subseteq luft /\ UNCHANGED <<warte, geraet>>
    BY <1>2 DEF Rahmen
  <2>2. antwort' = antwort \/ (antwort' = {r} /\ r.addr = warte.addr)
    BY <1>2 DEF Rahmen, Erwartet
  <2>3. QED
    BY <1>0, <1>1, <2>1, <2>2 DEF Programmed, Truthful
<1>3. ASSUME NEW d, NEW k, NEW frist, hello(d, k, frist) PROVE Programmed'
  <2>1. UNCHANGED request
    BY <1>3 DEF hello
  <2>2. CASE UNCHANGED air
    BY <1>0, <1>1, <2>1, <2>2 DEF Programmed, Truthful, air, request
  <2>3. CASE ScharfSenden(d)
    <3>1. SameFlash
      <4>1. UNCHANGED geraet
              \/ (\E alt : Gesendet(d, "SELECT", seq', Leer, "scharf", alt))
        BY <2>3 DEF ScharfSenden
      <4>2. HasFlash(geraet, klient.nah)
        BY DEF Programmed
      <4>3. QED
        BY <4>1, <4>2, SentFlash DEF SameFlash
    <3>2. \A q \in luft' : q.zu = "anfrage" => q \in luft
      <4>1. PICK n : n = seq'
        OBVIOUS
      <4>2. \A q \in luft' : \/ q \in Veraltet("scharf", {r \in luft : r.seq # n})
                             \/ q.zu = "scharf"
        BY <2>3, <4>1, GesendetFrames DEF ScharfSenden, Verbleibend
      <4>3. \A q \in Veraltet("scharf", {r \in luft : r.seq # n}) : q.zu = "alt" \/ q \in luft
        BY VeraltetAlt DEF MatchInv, Frames
      <4>4. QED
        BY <4>2, <4>3
    <3>3. HasFlash(geraet', klient'.nah)
      BY <1>0, <3>1 DEF SameFlash
    <3>4. ASSUME Truthful(luft \cup antwort) PROVE Truthful(luft \cup antwort)'
      BY <1>0, <1>1, <2>1, <3>1, <3>2, <3>4 DEF Truthful, SameFlash, request
    <3>5. QED
      BY <1>0, <2>1, <3>2, <3>3, <3>4 DEF Programmed, request
  <2>4. QED
    BY <1>3, <2>2, <2>3 DEF hello, select_scharf, ScharfGescheitert
<1>4. QED
  BY <1>2, <1>3 DEF empfangen

LEMMA ProgrammedKept ==
  ASSUME Programmed, UNCHANGED <<klient, pc, lauf, puffer, request, air>> PROVE Programmed'
<1>1. UNCHANGED Seite(lauf.pg)
  BY DEF Seite, puffer
<1>2. QED
  BY <1>1 DEF Programmed, Truthful, request, air

LEMMA ProgrammedDevice ==
  ASSUME Programmed, NEW d \in klient.nah, SitzungVorbei(d) \/ Neustart(d) PROVE Programmed'
<1>1. PICK nach : geraet' = [geraet EXCEPT ![d].ort = nach, ![d].puf = Leer]
  BY DEF SitzungVorbei, Neustart, GeraetWechselt
<1>2. UNCHANGED <<pc, lauf, klient, puffer, request, luft>>
  BY DEF SitzungVorbei, Neustart, GeraetWechselt
<1>3. HasFlash(geraet, klient.nah)
  BY DEF Programmed
<1>4. SameFlash
  BY <1>1, <1>3, FlashKeptMoving, Zenon
<1>5. UNCHANGED Seite(lauf.pg)
  BY <1>2 DEF Seite, puffer
<1>6. QED
  BY <1>2, <1>4, <1>5 DEF Programmed, Truthful, SameFlash, request

(* When Dm takes an answer without error, the device it asked holds the    *)
(* page the host buffered: for any page and fragment size, any loss and    *)
(* any interleaving with armed SELECTs.                                    *)
THEOREM PagesAreProgrammed == Spec => []OkMeansProgrammed
<1> DEFINE IInv == MatchInv /\ Numbered /\ Programmed
<1>1. Init => IInv
  BY DEF Init, MatchInv, Frames, Awaited, NumberIsFresh, AnswerIsForThisTry, Numbered, Ruhe,
         Niemand, Programmed, HasFlash
<1>2. IInv /\ [Next]_vars => IInv'
  <2> SUFFICES ASSUME MatchInv, Numbered, Programmed, [Next]_vars
               PROVE  MatchInv' /\ Numbered' /\ Programmed'
    OBVIOUS
  <2>0. MatchInv' /\ Numbered'
    BY MatchStep, NumberedKept
  <2>1. CASE Zeit
    <3>1. UNCHANGED <<klient, pc, lauf, puffer, request, air>>
      BY <2>1 DEF Zeit
    <3>2. QED
      BY <2>0, <3>1, ProgrammedKept
  <2>2. CASE UNCHANGED vars
    <3>1. UNCHANGED <<klient, pc, lauf, puffer, request, air>>
      BY <2>2 DEF vars
    <3>2. QED
      BY <2>0, <3>1, ProgrammedKept
  <2>3. QED
    BY <2>0, <2>1, <2>2, ProgrammedHost, ProgrammedStick, ProgrammedReceive, ProgrammedDevice DEF Next
<1>3. IInv => OkMeansProgrammed
  BY DEF MatchInv, Awaited, AnswerIsForThisTry, Programmed, Truthful, OkMeansProgrammed
<1>4. QED
  BY <1>1, <1>2, <1>3, PTL DEF Spec

-----------------------------------------------------------------------------
(* The parts of the type invariant, each about a few variables, and what   *)
(* it needs of the devices and of a request whose number is drawn.         *)
ListeOK ==
  /\ liste \in Seq(Eintrag) /\ Len(liste) <= LISTE_MAX
  /\ \A i, j \in DOMAIN liste : liste[i].addr = liste[j].addr => i = j

FunkOK ==
  /\ funk \in {"HMIP", "BOOT", "DEBUG"}
  /\ empfang \in BOOLEAN /\ dbg_an \in BOOLEAN /\ still \in BOOLEAN

ArmedOK ==
  /\ w_zustand \in {"IDLE", "ARMED", "SENT", "OK", "FAIL"}
  /\ w_addr \in Geraet \cup {NoDevice} /\ w_seq \in 0 .. MaxSeq

TargetOK == ziel \in Geraet \cup {NoDevice} /\ ziel_pg \in 1 .. SEITE_MAX

PufferOK ==
  /\ puf_nr \in BOOLEAN /\ puf_bild \in Bild
  /\ puf_len \in [Fragment -> 0 .. FRAG] /\ puf_map \subseteq Fragment

LaufOK ==
  /\ lauf \in Lauf
  /\ pc \in {"bereit", "frage", "leeren", "warten", "daten", "abstand"}
  /\ pc = "leeren" => lauf.s # 0

AntwortOK == antwort \subseteq Frame /\ Cardinality(antwort) <= 1

GeraeteOK ==
  /\ klient \in Klienten /\ klient.nah \subseteq DOMAIN geraet
  /\ \A d \in klient.nah :
       "puf" \in DOMAIN geraet[d] /\ DOMAIN geraet[d].puf \subseteq Fragment

DudInv ==
  /\ ListeOK /\ FunkOK /\ ArmedOK /\ TargetOK /\ PufferOK /\ seq \in 0 .. MaxSeq
  /\ LaufOK /\ AntwortOK /\ luft \subseteq Frame /\ GeraeteOK

LEMMA FragsFit ==
  ASSUME NEW pg \in 1 .. SEITE_MAX
  PROVE  Frags(pg) \subseteq Fragment
<1>1. \A a, b, c \in Nat : c # 0 /\ a <= b => a \div c <= b \div c
  BY SMTT(30)
<1>2. (pg - 1) \div FRAG <= (SEITE_MAX - 1) \div FRAG
  BY <1>1, PagesAssumption
<1> DEFINE n == (pg - 1) \div FRAG
           m == (SEITE_MAX - 1) \div FRAG
<1>3. n \in Int /\ m \in Int /\ n <= m
  BY <1>2, PagesAssumption, SMT
<1> HIDE DEF n, m
<1>4. 0 .. n \subseteq 0 .. m
  BY <1>3
<1> QED BY <1>4 DEF Frags, Fragment, n, m

LEMMA LeastOfNat ==
  ASSUME NEW T \in SUBSET Nat, T # {}
  PROVE  \E x \in T : \A y \in T : x <= y
<1> DEFINE R == OpToRel(<, Nat)
<1>1. IsWellFoundedOn(R, Nat)
  BY NatLessThanWellFounded
<1>2. \A x, y \in Nat : x < y => <<x, y>> \in R
  BY DEF OpToRel
<1> HIDE DEF R
<1>3. PICK x \in T : \A y \in T : <<y, x>> \notin R
  BY <1>1, WFMin
<1>4. \A y \in T : ~(y < x)
  BY <1>2, <1>3
<1> QED BY <1>4

LEMMA NextFragment ==
  ASSUME NEW T \in SUBSET Fragment, T # {}
  PROVE  Min(T) \in T
<1>1. T \in SUBSET Nat
  BY PagesAssumption DEF Fragment
<1> QED BY <1>1, LeastOfNat DEF Min

(* What is left of the list without its entry p: the entries before and    *)
(* behind it, in their order.                                              *)
LEMMA Removed ==
  ASSUME NEW S, NEW s \in Seq(S), NEW p \in 1 .. Len(s) + 1
  PROVE  /\ RemoveAt(s, p) \in Seq(S)
         /\ Len(RemoveAt(s, p)) = IF p <= Len(s) THEN Len(s) - 1 ELSE Len(s)
         /\ \A i \in 1 .. Len(RemoveAt(s, p)) :
              RemoveAt(s, p)[i] = IF i < p THEN s[i] ELSE s[i + 1]
<1> DEFINE a == SubSeq(s, 1, p - 1)
           b == SubSeq(s, p + 1, Len(s))
<1>0. Len(s) \in Nat /\ p \in Nat \ {0} /\ \A i \in 1 .. Len(s) : s[i] \in S
  OBVIOUS
<1>1. /\ a \in Seq(S) /\ Len(a) = p - 1
      /\ \A i \in 1 .. p - 1 : a[i] = s[i]
  <2>1. \A i \in 1 .. p - 1 : s[i] \in S
    BY <1>0
  <2>2. /\ a \in Seq(S)
        /\ Len(a) = IF 1 <= p - 1 THEN p - 1 - 1 + 1 ELSE 0
        /\ \A i \in 1 .. p - 1 - 1 + 1 : a[i] = s[1 + i - 1]
    <3>1. 1 \in Int /\ p - 1 \in Int
      BY <1>0
    <3> HIDE DEF a
    <3> QED BY <2>1, <3>1, SubSeqProperties DEF a
  <2> HIDE DEF a
  <2> QED BY <1>0, <2>2
<1>2. /\ b \in Seq(S) /\ Len(b) = IF p <= Len(s) THEN Len(s) - p ELSE 0
      /\ \A i \in 1 .. Len(s) - p : b[i] = s[p + i]
  <2>1. \A i \in p + 1 .. Len(s) : s[i] \in S
    BY <1>0
  <2>2. /\ b \in Seq(S)
        /\ Len(b) = IF p + 1 <= Len(s) THEN Len(s) - (p + 1) + 1 ELSE 0
        /\ \A i \in 1 .. Len(s) - (p + 1) + 1 : b[i] = s[p + 1 + i - 1]
    <3>1. p + 1 \in Int /\ Len(s) \in Int
      BY <1>0
    <3> HIDE DEF b
    <3> QED BY <2>1, <3>1, SubSeqProperties DEF b
  <2> HIDE DEF b
  <2> QED BY <1>0, <2>2
<1>3. RemoveAt(s, p) = a \o b
  BY Zenon DEF RemoveAt
<1> HIDE DEF a, b
<1>4. /\ a \o b \in Seq(S) /\ Len(a \o b) = Len(a) + Len(b)
      /\ \A i \in 1 .. Len(a) + Len(b) : (a \o b)[i] = IF i <= Len(a) THEN a[i] ELSE b[i - Len(a)]
  BY <1>1, <1>2, ConcatProperties, Zenon
<1> DEFINE c == a \o b
<1>5. /\ c \in Seq(S) /\ Len(c) = Len(a) + Len(b)
      /\ \A i \in 1 .. Len(a) + Len(b) : c[i] = IF i <= Len(a) THEN a[i] ELSE b[i - Len(a)]
  BY <1>4
<1> HIDE DEF c
<1>6. Len(c) = IF p <= Len(s) THEN Len(s) - 1 ELSE Len(s)
  BY <1>0, <1>1, <1>2, <1>5
<1>7. ASSUME NEW i \in 1 .. Len(c) PROVE c[i] = IF i < p THEN s[i] ELSE s[i + 1]
  <2>1. CASE i < p
    BY <1>0, <1>1, <1>2, <1>5, <2>1
  <2>2. CASE ~(i < p)
    <3>1. i - Len(a) \in 1 .. Len(s) - p /\ p + (i - Len(a)) = i + 1
      BY <1>0, <1>1, <1>6, <2>2
    <3>2. c[i] = b[i - Len(a)]
      BY <1>0, <1>1, <1>2, <1>5, <2>2
    <3> QED BY <1>2, <2>2, <3>1, <3>2
  <2> QED BY <2>1, <2>2
<1> QED BY <1>3, <1>5, <1>6, <1>7 DEF c

LEMMA FreshEntry ==
  ASSUME NEW d \in Geraet, NEW k \in BOOLEAN
  PROVE  [addr |-> d, koll |-> k] \in Eintrag /\ [addr |-> d, koll |-> k].addr = d
  BY Zenon DEF Eintrag

(* The place of a HELLO: its own, or behind or at the end of the list.     *)
LEMMA PlatzInList ==
  ASSUME ListeOK, NEW d \in Geraet
  PROVE  /\ Platz(d) \in 1 .. Len(liste) + 1 /\ Platz(d) <= LISTE_MAX
         /\ Bekannt(d) => Platz(d) \in DOMAIN liste /\ liste[Platz(d)].addr = d
<1> DEFINE n == Len(liste)
           p == Platz(d)
<1>1. n \in Nat /\ DOMAIN liste = 1 .. n /\ n <= LISTE_MAX /\ LISTE_MAX \in Nat \ {0}
  BY ListAssumption DEF ListeOK
<1>2. ASSUME Bekannt(d) PROVE p \in DOMAIN liste /\ liste[p].addr = d
  BY <1>2, Zenon DEF Bekannt, Platz
<1>3. ~Bekannt(d) => p = IF n < LISTE_MAX THEN n + 1 ELSE LISTE_MAX
  BY Zenon DEF Platz
<1> HIDE DEF n, p
<1>4. p \in 1 .. n + 1 /\ p <= LISTE_MAX
  <2>1. CASE Bekannt(d)
    BY <1>1, <1>2, <2>1
  <2>2. CASE ~Bekannt(d)
    BY <1>1, <1>3, <2>2
  <2> QED BY <2>1, <2>2
<1> QED BY <1>2, <1>4 DEF n, p

LEMMA ListeHeard ==
  ASSUME ListeOK, NEW d \in Geraet, NEW k \in BOOLEAN, liste' = Gehoert(d, k)
  PROVE  ListeOK'
<1> DEFINE n == Len(liste)
           p == Platz(d)
           e == [addr |-> d, koll |-> k]
           r == RemoveAt(liste, p)
<1>1. /\ n \in Nat /\ n <= LISTE_MAX /\ liste \in Seq(Eintrag) /\ DOMAIN liste = 1 .. n
      /\ \A i, j \in 1 .. n : liste[i].addr = liste[j].addr => i = j
  BY DEF ListeOK
<1>2. /\ p \in 1 .. n + 1 /\ p <= LISTE_MAX
      /\ Bekannt(d) => p \in 1 .. n /\ liste[p].addr = d
  BY <1>1, PlatzInList
<1>3. /\ r \in Seq(Eintrag) /\ Len(r) = IF p <= n THEN n - 1 ELSE n
      /\ \A i \in 1 .. Len(r) : r[i] = IF i < p THEN liste[i] ELSE liste[i + 1]
  BY <1>1, <1>2, Removed
<1>4. e \in Eintrag /\ e.addr = d
  BY FreshEntry
<1>5. liste' = <<e>> \o r
  BY Zenon DEF Gehoert
<1>6. \A i \in 1 .. n : liste[i].addr = d => Bekannt(d)
  BY <1>1 DEF Bekannt
<1> DEFINE s == <<e>>
<1> HIDE DEF n, p, e, r
<1>7. s \in Seq(Eintrag) /\ Len(s) = 1 /\ s[1] = e
  BY <1>4
<1>8. /\ liste' \in Seq(Eintrag) /\ Len(liste') = 1 + Len(r)
      /\ liste'[1] = e /\ \A i \in 1 .. Len(r) : liste'[i + 1] = r[i]
  <2>0. liste' = s \o r /\ r \in Seq(Eintrag)
    BY <1>3, <1>5
  <2> HIDE DEF s
  <2>1. /\ s \o r \in Seq(Eintrag) /\ Len(s \o r) = Len(s) + Len(r)
        /\ \A i \in 1 .. Len(s) + Len(r) : (s \o r)[i] = IF i <= Len(s) THEN s[i] ELSE r[i - Len(s)]
    BY <1>7, <2>0, ConcatProperties
  <2>2. /\ liste' \in Seq(Eintrag) /\ Len(liste') = Len(s) + Len(r)
        /\ \A i \in 1 .. Len(s) + Len(r) : liste'[i] = IF i <= Len(s) THEN s[i] ELSE r[i - Len(s)]
    BY <2>0, <2>1
  <2>3. Len(r) \in Nat
    BY <2>0
  <2> QED BY <1>7, <2>2, <2>3
<1>9. \A i \in 1 .. Len(r) : r[i].addr # d
  <2>1. ASSUME NEW i \in 1 .. n, i # p PROVE liste[i].addr # d
    BY <1>1, <1>2, <1>6, <2>1
  <2> QED BY <1>1, <1>2, <1>3, <2>1
<1>10. \A i, j \in 1 .. Len(r) : r[i].addr = r[j].addr => i = j
  <2> SUFFICES ASSUME NEW i \in 1 .. Len(r), NEW j \in 1 .. Len(r), r[i].addr = r[j].addr
               PROVE  i = j
    OBVIOUS
  <2> DEFINE a == IF i < p THEN i ELSE i + 1
             b == IF j < p THEN j ELSE j + 1
  <2>1. a \in 1 .. n /\ b \in 1 .. n /\ (a = b => i = j)
    BY <1>1, <1>2, <1>3
  <2>2. r[i] = liste[a] /\ r[j] = liste[b]
    BY <1>3
  <2> QED BY <1>1, <2>1, <2>2
<1>11. \A i \in DOMAIN liste' : i = 1 \/ (i - 1 \in 1 .. Len(r) /\ liste'[i] = r[i - 1])
  <2>1. DOMAIN liste' = 1 .. 1 + Len(r) /\ Len(r) \in Nat
    BY <1>1, <1>2, <1>3, <1>8
  <2>2. \A i \in 1 .. 1 + Len(r) : i = 1 \/ (i - 1 \in 1 .. Len(r) /\ (i - 1) + 1 = i)
    BY <2>1
  <2> QED BY <1>8, <2>1, <2>2
<1>12. \A i, j \in DOMAIN liste' : liste'[i].addr = liste'[j].addr => i = j
  <2>1. DOMAIN liste' \subseteq Nat
    BY <1>8
  <2> SUFFICES ASSUME NEW i \in DOMAIN liste', NEW j \in DOMAIN liste',
                      liste'[i].addr = liste'[j].addr
               PROVE  i = j
    OBVIOUS
  <2>2. (i = 1) = (j = 1)
    BY <1>4, <1>8, <1>9, <1>11
  <2>3. CASE i # 1
    <3>1. /\ i - 1 \in 1 .. Len(r) /\ liste'[i] = r[i - 1]
          /\ j - 1 \in 1 .. Len(r) /\ liste'[j] = r[j - 1]
      BY <1>11, <2>2, <2>3
    <3>2. i - 1 = j - 1
      BY <1>10, <3>1
    <3> QED BY <2>1, <3>2
  <2> QED BY <2>2, <2>3
<1>13. Len(liste') <= LISTE_MAX
  BY <1>1, <1>2, <1>3, <1>8, ListAssumption
<1> QED BY <1>8, <1>12, <1>13 DEF ListeOK
-----------------------------------------------------------------------------
LEMMA AddressesKnown ==
  ASSUME GeraeteOK PROVE klient.nah \subseteq Geraet /\ klient.bilder \subseteq Bild
  BY KlientAssumption DEF GeraeteOK

LEMMA StaleFrames ==
  ASSUME NEW R \in SUBSET Frame, NEW zu PROVE Veraltet(zu, R) \subseteq Frame
<1> SUFFICES ASSUME NEW q \in Veraltet(zu, R) PROVE q \in Frame
  OBVIOUS
<1>1. PICK r \in R : q = IF r.zu = zu THEN [r EXCEPT !.zu = "alt"] ELSE r
  BY DEF Veraltet
<1>2. r \in Frame
  OBVIOUS
<1> QED BY <1>1, <1>2 DEF Frame

LEMMA AnswersAreFrames ==
  ASSUME GeraeteOK, NEW d \in klient.nah, NEW typ, NEW s \in 1 .. MaxSeq, NEW last,
         NEW zu \in {"anfrage", "scharf", "alt"}, NEW q \in Antworten(d, typ, s, last, zu)
  PROVE  q \in Frame
<1> DEFINE st  == IF typ = "COMMIT" /\ geraet[d].puf # last THEN 1 ELSE 0
           map == IF typ = "COMMIT" THEN DOMAIN geraet[d].puf ELSE {}
           frame(t) == [typ |-> t, addr |-> d, seq |-> s, zu |-> zu, st |-> st, map |-> map]
<1>1. q \in {frame("STATUS"), frame("COMMIT_ACK"), frame("VERIFY_ACK")}
  BY DEF Antworten
<1>2. st \in {0, 1} /\ map \in SUBSET Fragment /\ d \in Geraet
  BY AddressesKnown DEF GeraeteOK
<1> HIDE DEF st, map
<1>3. \A t \in {"STATUS", "COMMIT_ACK", "VERIFY_ACK"} : frame(t) \in Frame
  BY <1>2 DEF Frame
<1> QED BY <1>1, <1>3

(* One device changes; its buffer keeps fragments of a page.               *)
LEMMA BufferReplaced ==
  ASSUME GeraeteOK, klient' = klient, NEW d \in klient.nah, NEW b, DOMAIN b \subseteq Fragment,
         NEW a, \/ geraet' = [geraet EXCEPT ![d].puf = b]
                \/ geraet' = [geraet EXCEPT ![d].ort = a, ![d].puf = b]
                \/ geraet' = [geraet EXCEPT ![d].puf = b, ![d].flash = a]
  PROVE  GeraeteOK'
<1>1. DOMAIN geraet' = DOMAIN geraet
  OBVIOUS
<1>2. ASSUME NEW e \in klient.nah
      PROVE  "puf" \in DOMAIN geraet'[e] /\ DOMAIN geraet'[e].puf \subseteq Fragment
  <2> DEFINE g == geraet[e]
             h == geraet'[e]
  <2>1. "puf" \in DOMAIN g /\ DOMAIN g.puf \subseteq Fragment
    BY DEF GeraeteOK
  <2>2. \/ h = g \/ h = [g EXCEPT !.puf = b] \/ h = [g EXCEPT !.ort = a, !.puf = b]
        \/ h = [g EXCEPT !.puf = b, !.flash = a]
    BY DEF GeraeteOK
  <2> HIDE DEF g, h
  <2>3. "puf" \in DOMAIN h /\ (h.puf = g.puf \/ h.puf = b)
    BY <2>1, <2>2
  <2> QED BY <2>1, <2>3 DEF h
<1> QED BY <1>1, <1>2 DEF GeraeteOK

LEMMA SentOK ==
  ASSUME GeraeteOK, klient' = klient, NEW d, NEW typ, NEW s \in 1 .. MaxSeq, NEW last,
         DOMAIN last \subseteq Fragment, NEW zu \in {"anfrage", "scharf", "alt"},
         NEW alt \in SUBSET Frame, Gesendet(d, typ, s, last, zu, alt)
  PROVE  luft' \subseteq Frame /\ GeraeteOK'
<1>1. CASE luft' = alt /\ UNCHANGED geraet
  BY <1>1 DEF GeraeteOK
<1>2. CASE /\ d \in klient.nah
           /\ geraet' = Verarbeitet(d, typ, last)
           /\ luft' = alt \cup Antworten(d, typ, s, last, zu)
  <2>1. luft' \subseteq Frame
    BY <1>2, AnswersAreFrames
  <2> DEFINE both == [f \in DOMAIN last \cup DOMAIN geraet[d].puf |->
                        IF f \in DOMAIN last THEN last[f] ELSE geraet[d].puf[f]]
  <2>2. DOMAIN both \subseteq Fragment /\ DOMAIN Leer \subseteq Fragment
    BY <1>2 DEF Leer, GeraeteOK
  <2>3. GeraeteOK'
    <3>1. CASE geraet' = geraet
      BY <3>1 DEF GeraeteOK
    <3>2. CASE typ = "SELECT" \/ typ = "GO"
      <4>1. \E a : geraet' = [geraet EXCEPT ![d].ort = a, ![d].puf = Leer]
        BY <1>2, <3>2 DEF Verarbeitet
      <4> QED BY <1>2, <2>2, <4>1, BufferReplaced
    <3>3. CASE typ = "DATA"
      <4>1. geraet' = [geraet EXCEPT ![d].puf = both]
        BY <1>2, <3>3 DEF Verarbeitet, GeraeteOK
      <4> HIDE DEF both
      <4> QED BY <1>2, <2>2, <4>1, BufferReplaced
    <3>4. CASE typ = "COMMIT" /\ geraet[d].puf = last
      <4>1. geraet' = [geraet EXCEPT ![d].puf = Leer, ![d].flash = last]
        BY <1>2, <3>4 DEF Verarbeitet
      <4> QED BY <1>2, <2>2, <4>1, BufferReplaced
    <3> QED BY <1>2, <3>1, <3>2, <3>3, <3>4 DEF Verarbeitet
  <2> QED BY <2>1, <2>3
<1> QED BY <1>1, <1>2 DEF Gesendet
-----------------------------------------------------------------------------
(* What the steps do to the parts.                                         *)
LEMMA NumberDrawn ==
  ASSUME seq \in 0 .. MaxSeq PROVE Naechste(seq) \in 1 .. MaxSeq
  BY SeqAssumption DEF Naechste

LEMMA PageOfTarget ==
  ASSUME NEW d \in Geraet PROVE Pg[d] \in 1 .. SEITE_MAX
  BY PagesAssumption

LEMMA LaufParts ==
  ASSUME lauf \in Lauf
  PROVE  /\ lauf.cmd \in {"-"} \cup DOMAIN Anfrage /\ lauf.versuch \in Nat
         /\ lauf.s \in 0 .. MaxSeq /\ lauf.pg \in 1 .. SEITE_MAX
         /\ lauf.rest \in SUBSET Fragment
  BY DEF Lauf

LEMMA Ends == ASSUME Fertig PROVE LaufOK' /\ AntwortOK'
<1>1. Ruhe \in Lauf
  BY PagesAssumption, SeqAssumption DEF Ruhe, Lauf
<1> QED BY <1>1, FS_EmptySet DEF Fertig, LaufOK, AntwortOK

(* A further try, with the fragments R to be sent.                         *)
LEMMA TriesAgain ==
  ASSUME lauf \in Lauf, NEW R \in SUBSET Fragment, pc' \in {"daten", "frage"},
         \/ lauf' = [lauf EXCEPT !.versuch = @ + 1, !.s = 0, !.rest = R]
         \/ lauf' = [lauf EXCEPT !.versuch = @ + 1, !.s = 0]
  PROVE  LaufOK'
<1>1. lauf.versuch + 1 \in Nat /\ 0 \in 0 .. MaxSeq
  BY LaufParts, SeqAssumption
<1> DEFINE n == lauf.versuch + 1
<1>2. \/ lauf' = [lauf EXCEPT !.versuch = n, !.s = 0, !.rest = R]
      \/ lauf' = [lauf EXCEPT !.versuch = n, !.s = 0]
  OBVIOUS
<1> HIDE DEF n
<1>3. lauf' \in Lauf
  <2>1. n \in Nat
    BY <1>1 DEF n
  <2> QED BY <1>1, <1>2, <2>1 DEF Lauf
<1> QED BY <1>3 DEF LaufOK

LEMMA Fails == ASSUME lauf \in Lauf, Fehlschlag PROVE LaufOK' /\ AntwortOK'
<1>1. CASE Fertig
  BY <1>1, Ends
<1>2. CASE ~Fertig
  <2>1. AntwortOK'
    BY <1>2, FS_EmptySet DEF Fehlschlag, AntwortOK
  <2>2. Frags(lauf.pg) \in SUBSET Fragment
    BY LaufParts, FragsFit
  <2>3. /\ pc' \in {"daten", "frage"}
        /\ \/ lauf' = [lauf EXCEPT !.versuch = @ + 1, !.s = 0, !.rest = Frags(lauf.pg)]
           \/ lauf' = [lauf EXCEPT !.versuch = @ + 1, !.s = 0]
    BY <1>2 DEF Fehlschlag
  <2> HIDE DEF Frags
  <2> QED BY <2>1, <2>2, <2>3, TriesAgain
<1> QED BY <1>1, <1>2

LEMMA PageAnswered ==
  ASSUME lauf \in Lauf, NEW r, SeiteBeantwortet(r) PROVE LaufOK' /\ AntwortOK'
<1>1. CASE Fertig
  BY <1>1, Ends
<1>2. CASE ~Fertig
  <2> DEFINE R == IF Frags(lauf.pg) \subseteq r.map THEN Frags(lauf.pg)
                  ELSE Frags(lauf.pg) \ r.map
  <2>1. AntwortOK'
    BY <1>2, FS_EmptySet DEF SeiteBeantwortet, AntwortOK
  <2>2. R \in SUBSET Fragment
    BY LaufParts, FragsFit
  <2>3. pc' = "daten" /\ lauf' = [lauf EXCEPT !.versuch = @ + 1, !.s = 0, !.rest = R]
    BY <1>2 DEF SeiteBeantwortet
  <2> HIDE DEF R
  <2> QED BY <2>1, <2>2, <2>3, TriesAgain
<1> QED BY <1>1, <1>2

LEMMA Starts ==
  ASSUME TargetOK, NEW c \in DOMAIN Anfrage, NEW R \in SUBSET Fragment, Starten(c, R)
  PROVE  LaufOK'
<1>1. lauf' \in Lauf
  BY SeqAssumption DEF Starten, Lauf, TargetOK
<1> QED BY <1>1 DEF Starten, LaufOK

LEMMA TypeStick == ASSUME DudInv, Stick PROVE DudInv'
<1>0. lauf \in Lauf /\ seq \in 0 .. MaxSeq /\ luft \in SUBSET Frame /\ GeraeteOK
  BY DEF DudInv, LaufOK
<1>1. ListeOK' /\ ArmedOK' /\ TargetOK' /\ PufferOK' /\ klient' = klient
  <2>1. UNCHANGED <<klient, liste, armed, target, puffer>>
    BY DEF Stick, AnfrageBeginnt, AnfrageSenden, Frist, AnfrageBeantwortet, DatenSenden,
           DatenFertig, Rueckfall
  <2> QED BY <2>1 DEF DudInv, ListeOK, ArmedOK, TargetOK, PufferOK, armed, target, puffer
<1>2. FunkOK'
  <2>1. UNCHANGED still /\ (UNCHANGED radio \/ funk_stellen(FALSE, FALSE))
    BY DEF Stick, AnfrageBeginnt, AnfrageSenden, Frist, AnfrageBeantwortet, DatenSenden,
           DatenFertig, Rueckfall
  <2> QED BY <2>1, Zenon DEF DudInv, FunkOK, radio, funk_stellen
<1>3. seq' \in 0 .. MaxSeq
  <2>1. seq' = seq \/ seq' = Naechste(seq)
    BY DEF Stick, AnfrageBeginnt, AnfrageSenden, Frist, AnfrageBeantwortet, DatenSenden,
           DatenFertig, Rueckfall
  <2> QED BY <1>0, <2>1, NumberDrawn
<1>4. ASSUME AnfrageBeginnt PROVE LaufOK' /\ AntwortOK' /\ luft' \subseteq Frame /\ GeraeteOK'
  <2>1. seq' = Naechste(seq) /\ luft' = Veraltet("anfrage", {r \in luft : r.seq # seq'})
        /\ UNCHANGED <<klient, geraet>>
    BY <1>4 DEF AnfrageBeginnt, Verbleibend
  <2>2. luft' \subseteq Frame
    <3>1. {r \in luft : r.seq # seq'} \in SUBSET Frame
      BY <1>0
    <3> QED BY <2>1, <3>1, StaleFrames
  <2>3. CASE Fehlschlag
    BY <1>0, <2>1, <2>2, <2>3, Fails DEF GeraeteOK
  <2>4. CASE pc' = "leeren" /\ lauf' = [lauf EXCEPT !.s = seq'] /\ UNCHANGED request
    <3>1. seq' \in 1 .. MaxSeq
      BY <1>0, <2>1, NumberDrawn
    <3>2. lauf' \in Lauf /\ lauf'.s = seq'
      BY <1>0, <2>4, <3>1 DEF Lauf
    <3> QED BY <1>0, <2>1, <2>2, <2>4, <3>1, <3>2 DEF LaufOK, AntwortOK, DudInv, request, GeraeteOK
  <2> QED BY <1>4, <2>3, <2>4 DEF AnfrageBeginnt
<1>5. ASSUME AnfrageSenden PROVE LaufOK' /\ AntwortOK' /\ luft' \subseteq Frame /\ GeraeteOK'
  <2>1. CASE (Fehlschlag \/ Fertig) /\ UNCHANGED air
    BY <1>0, <1>1, <2>1, Fails, Ends DEF air, GeraeteOK
  <2>2. CASE /\ Gesendet(ziel, Anfrage[lauf.cmd].typ, lauf.s, Nutzlast, "anfrage", luft)
             /\ antwort' = {} /\ pc' = "warten" /\ UNCHANGED lauf
    <3>1. lauf.s \in 1 .. MaxSeq
      BY <1>0, <1>5, LaufParts DEF AnfrageSenden, DudInv, LaufOK
    <3>2. DOMAIN Nutzlast \subseteq Fragment
      BY <1>0, LaufParts, FragsFit DEF Nutzlast, Seite, Leer
    <3>3. luft' \subseteq Frame /\ GeraeteOK'
      BY <1>0, <1>1, <2>2, <3>1, <3>2, SentOK
    <3>4. AntwortOK'
      BY <2>2, FS_EmptySet DEF AntwortOK
    <3> QED BY <1>0, <2>2, <3>3, <3>4 DEF LaufOK
  <2> QED BY <1>5, <2>1, <2>2 DEF AnfrageSenden
<1>6. ASSUME Frist \/ AnfrageBeantwortet
      PROVE  LaufOK' /\ AntwortOK' /\ luft' \subseteq Frame /\ GeraeteOK'
  <2>1. Fehlschlag \/ Fertig \/ \E r : SeiteBeantwortet(r)
    BY <1>6 DEF Frist, AnfrageBeantwortet
  <2>2. UNCHANGED <<klient, luft, geraet>>
    BY <1>6 DEF Frist, AnfrageBeantwortet, air
  <2> QED BY <1>0, <2>1, <2>2, Fails, Ends, PageAnswered DEF GeraeteOK
<1>7. ASSUME DatenSenden PROVE LaufOK' /\ AntwortOK' /\ luft' \subseteq Frame /\ GeraeteOK'
  <2> DEFINE f == Min(lauf.rest)
             hier == [g \in {f} |-> Seite(lauf.pg)[f]]
             alt == Verbleibend(seq')
  <2>1. seq' \in 1 .. MaxSeq /\ alt \in SUBSET Frame
    BY <1>0, <1>7, NumberDrawn DEF DatenSenden, Verbleibend
  <2>2. DOMAIN hier \subseteq Fragment
    BY <1>0, <1>7, LaufParts, NextFragment DEF DatenSenden
  <2>3. lauf' = [lauf EXCEPT !.rest = @ \ {f}] => lauf' \in Lauf
    BY <1>0 DEF Lauf
  <2>4. \/ /\ Gesendet(ziel, "DATA", seq', hier, "alt", alt) /\ pc' = "abstand"
           /\ lauf' = [lauf EXCEPT !.rest = @ \ {f}] /\ UNCHANGED request
        \/ /\ luft' = alt /\ UNCHANGED geraet
           /\ \/ pc' = "frage" /\ UNCHANGED <<lauf, request>>
              \/ Fertig
    BY <1>7 DEF DatenSenden
  <2> HIDE DEF f, hier, alt
  <2>5. luft' \subseteq Frame /\ GeraeteOK'
    <3>1. CASE Gesendet(ziel, "DATA", seq', hier, "alt", alt)
      BY <1>0, <1>1, <2>1, <2>2, <3>1, SentOK
    <3>2. CASE luft' = alt /\ UNCHANGED geraet
      BY <1>0, <1>1, <2>1, <3>2 DEF GeraeteOK
    <3> QED BY <2>4, <3>1, <3>2
  <2>6. LaufOK' /\ AntwortOK'
    <3>1. CASE Fertig
      BY <3>1, Ends
    <3>2. CASE ~Fertig
      BY <1>0, <2>3, <2>4, <3>2 DEF LaufOK, AntwortOK, DudInv, request
    <3> QED BY <3>1, <3>2
  <2> QED BY <2>5, <2>6
<1>8. ASSUME DatenFertig \/ Rueckfall
      PROVE  LaufOK' /\ AntwortOK' /\ luft' \subseteq Frame /\ GeraeteOK'
  BY <1>0, <1>8 DEF DatenFertig, Rueckfall, LaufOK, AntwortOK, DudInv, request, air, GeraeteOK
<1> QED BY <1>1, <1>2, <1>3, <1>4, <1>5, <1>6, <1>7, <1>8 DEF Stick, DudInv

LEMMA TypeHost == ASSUME DudInv, Host PROVE DudInv'
<1>0. lauf \in Lauf /\ seq \in 0 .. MaxSeq /\ luft \in SUBSET Frame /\ GeraeteOK
      /\ klient.nah \subseteq Geraet /\ klient.bilder \subseteq Bild
  BY AddressesKnown DEF DudInv, LaufOK
<1>1. PICK c : Befehl(c)
  BY DEF Host, Wirkungslos, Aus, Empfang, cmd_debug, Dc, Dwx, cmd_scharf, cmd_sitzung,
         cmd_einfach, cmd_puffer, cmd_fragment, cmd_seite, cmd_kommando
<1>2. pc = "bereit" /\ still' = FALSE /\ klient' = klient
  BY <1>1 DEF Befehl
<1>3. UNCHANGED <<geraet, request>> /\ (luft' = luft \/ cmd_kommando)
  BY DEF Host, Wirkungslos, Aus, Empfang, cmd_debug, Dc, Dwx, cmd_scharf, cmd_sitzung,
         cmd_einfach, cmd_puffer, cmd_fragment, cmd_seite, cmd_kommando, NurPuffer, NurRadio, air
<1>4. luft' \subseteq Frame /\ GeraeteOK' /\ AntwortOK'
  BY <1>0, <1>2, <1>3
     DEF cmd_kommando, Verbleibend, GeraeteOK, AntwortOK, DudInv, request
<1>5. seq' \in 0 .. MaxSeq
  <2>1. seq' = seq \/ seq' = Naechste(seq)
    BY DEF Host, Wirkungslos, Aus, Empfang, cmd_debug, Dc, Dwx, cmd_scharf, cmd_sitzung,
           cmd_einfach, cmd_puffer, cmd_fragment, cmd_seite, cmd_kommando, NurPuffer, NurRadio
  <2> QED BY <1>0, <2>1, NumberDrawn
<1>6. ListeOK'
  <2>1. liste' = liste \/ liste' = <<>>
    BY DEF Host, Wirkungslos, Aus, Empfang, cmd_debug, Dc, Dwx, cmd_scharf, cmd_sitzung,
           cmd_einfach, cmd_puffer, cmd_fragment, cmd_seite, cmd_kommando, NurPuffer, NurRadio
  <2>2. CASE liste' = liste
    BY <2>2 DEF DudInv, ListeOK
  <2>3. CASE liste' = <<>>
    BY <2>3, ListAssumption DEF ListeOK
  <2> QED BY <2>1, <2>2, <2>3
<1>7. FunkOK'
  <2>1. UNCHANGED radio \/ (\E e \in BOOLEAN, d \in BOOLEAN \cup {dbg_an} : funk_stellen(e, d))
    BY Zenon
       DEF Host, Wirkungslos, Aus, Empfang, cmd_debug, Dc, Dwx, cmd_scharf, cmd_sitzung,
           cmd_einfach, cmd_puffer, cmd_fragment, cmd_seite, cmd_kommando, NurPuffer
  <2>2. UNCHANGED <<funk, empfang, dbg_an>> => FunkOK'
    BY <1>2, Zenon DEF DudInv, FunkOK
  <2>3. ASSUME NEW e \in BOOLEAN, NEW d \in BOOLEAN \cup {dbg_an}, funk_stellen(e, d)
        PROVE  FunkOK'
    BY <1>2, <2>3, Zenon DEF DudInv, FunkOK, funk_stellen
  <2> QED BY <2>1, <2>2, <2>3 DEF radio
<1>8. ArmedOK'
  <2>1. UNCHANGED <<w_zustand, w_addr, w_seq>> \/ (\E d \in klient.nah : \E b : cmd_scharf(d, b)) \/ Dwx
        \/ (\E d, b : cmd_sitzung(d, b))
    BY DEF Host, Wirkungslos, Aus, Empfang, cmd_debug, Dc, cmd_einfach, cmd_puffer, cmd_fragment,
           cmd_seite, cmd_kommando, NurPuffer, NurRadio, armed
  <2> QED BY <1>0, <2>1 DEF DudInv, ArmedOK, cmd_scharf, Dwx, cmd_sitzung
<1>9. TargetOK'
  <2>1. UNCHANGED <<ziel, ziel_pg>> \/ (\E d \in klient.nah : \E b : cmd_sitzung(d, b))
    BY DEF Host, Wirkungslos, Aus, Empfang, cmd_debug, Dc, Dwx, cmd_scharf, cmd_einfach,
           cmd_puffer, cmd_fragment, cmd_seite, cmd_kommando, NurPuffer, NurRadio, target
  <2> QED BY <1>0, <2>1, PageOfTarget DEF DudInv, TargetOK, cmd_sitzung, target
<1>10. PufferOK'
  <2>1. CASE UNCHANGED puffer
    BY <2>1 DEF DudInv, PufferOK, puffer
  <2>2. CASE \E bild \in klient.bilder : cmd_puffer(bild)
    <3>1. [f \in Fragment |-> 0] \in [Fragment -> 0 .. FRAG]
      BY PagesAssumption
    <3> QED BY <1>0, <2>2, <3>1 DEF cmd_puffer, PufferOK
  <2>3. ASSUME NEW f \in Fragment, cmd_fragment(f) PROVE PufferOK'
    <3>1. /\ UNCHANGED <<puf_nr, puf_bild>> /\ puf_map' = puf_map \cup {f}
          /\ puf_len' = [puf_len EXCEPT ![f] = Max({@, Laenge(ziel_pg, f)})]
          /\ f * FRAG < ziel_pg
      BY <2>3 DEF cmd_fragment
    <3>2. puf_len \in [Fragment -> 0 .. FRAG] /\ puf_len[f] \in 0 .. FRAG
      BY DEF DudInv, PufferOK
    <3>3. Laenge(ziel_pg, f) \in 0 .. FRAG
      <4> DEFINE x == f * FRAG
      <4>1. x \in Nat /\ FRAG \in Nat /\ ziel_pg \in Nat /\ x < ziel_pg
        BY <3>1, PagesAssumption DEF Fragment, DudInv, TargetOK
      <4>2. Laenge(ziel_pg, f) = IF ziel_pg - x < FRAG THEN ziel_pg - x ELSE FRAG
        BY DEF Laenge
      <4> HIDE DEF x
      <4> QED BY <4>1, <4>2
    <3> DEFINE l == Laenge(ziel_pg, f)
               m == Max({puf_len[f], l})
    <3>4. m \in 0 .. FRAG
      <4> HIDE DEF l
      <4>1. l \in 0 .. FRAG
        BY <3>3 DEF l
      <4>2. \E y \in {puf_len[f], l} : \A z \in {puf_len[f], l} : y >= z
        BY <3>2, <4>1, PagesAssumption
      <4>3. m \in {puf_len[f], l}
        BY <4>2 DEF Max
      <4> HIDE DEF m
      <4> QED BY <3>2, <4>1, <4>3
    <3>5. puf_len' = [puf_len EXCEPT ![f] = m]
      BY <3>1
    <3> HIDE DEF l, m
    <3> QED BY <3>1, <3>2, <3>4, <3>5 DEF DudInv, PufferOK
  <2>4. CASE cmd_seite
    BY <2>4 DEF cmd_seite, DudInv, PufferOK
  <2>5. UNCHANGED puffer \/ (\E bild \in klient.bilder : cmd_puffer(bild))
        \/ (\E f \in Fragment : cmd_fragment(f)) \/ cmd_seite
    BY DEF Host, Wirkungslos, Aus, Empfang, cmd_debug, Dc, Dwx, cmd_scharf, cmd_sitzung,
           cmd_einfach, cmd_kommando, NurRadio
  <2> QED BY <2>1, <2>2, <2>3, <2>4, <2>5
<1>11. LaufOK'
  <2>1. UNCHANGED <<pc, lauf>> \/ (\E a \in {"Ds", "De", "Dv", "Dg"} : Starten(a, {}))
        \/ Starten("Dm", Frags(ziel_pg))
    BY DEF Host, Wirkungslos, Aus, Empfang, cmd_debug, Dc, Dwx, cmd_scharf, cmd_sitzung,
           cmd_einfach, cmd_puffer, cmd_fragment, cmd_seite, cmd_kommando, NurPuffer, NurRadio
  <2>2. TargetOK /\ {"Ds", "De", "Dv", "Dg", "Dm"} \subseteq DOMAIN Anfrage
    BY DEF DudInv, Anfrage
  <2>3. Frags(ziel_pg) \in SUBSET Fragment
    BY <2>2, FragsFit DEF TargetOK
  <2>4. CASE UNCHANGED <<pc, lauf>>
    BY <2>4 DEF DudInv, LaufOK
  <2> HIDE DEF Frags
  <2>5. CASE ~UNCHANGED <<pc, lauf>>
    BY <2>1, <2>2, <2>3, <2>5, Starts
  <2> QED BY <2>4, <2>5
<1> QED BY <1>4, <1>5, <1>6, <1>7, <1>8, <1>9, <1>10, <1>11 DEF DudInv

LEMMA TypeReceive == ASSUME DudInv, empfangen PROVE DudInv'
<1>0. lauf \in Lauf /\ seq \in 0 .. MaxSeq /\ luft \in SUBSET Frame /\ GeraeteOK
      /\ klient.nah \subseteq Geraet
  BY AddressesKnown DEF DudInv, LaufOK
<1>1. FunkOK' /\ PufferOK' /\ LaufOK' /\ klient' = klient
  BY DEF empfangen, DudInv, FunkOK, PufferOK, LaufOK, radio, puffer
<1>2. ASSUME NEW r \in luft, Rahmen(r) PROVE DudInv'
  <2>1. ListeOK' /\ TargetOK' /\ seq' \in 0 .. MaxSeq /\ luft' \subseteq Frame /\ GeraeteOK'
    BY <1>0, <1>1, <1>2 DEF Rahmen, DudInv, ListeOK, TargetOK, target, GeraeteOK
  <2>2. ArmedOK'
    BY <1>2 DEF Rahmen, DudInv, ArmedOK
  <2>3. antwort' = antwort \/ antwort' = {r}
    BY <1>2 DEF Rahmen
  <2>4. AntwortOK'
    BY <1>0, <1>2, <2>3, FS_Singleton DEF DudInv, AntwortOK
  <2> QED BY <1>1, <2>1, <2>2, <2>4 DEF DudInv
<1>3. ASSUME NEW d \in klient.nah, NEW k \in BOOLEAN, NEW frist \in BOOLEAN, hello(d, k, frist)
      PROVE  DudInv'
  <2>1. liste' = Gehoert(d, k) /\ UNCHANGED <<w_addr, w_board, request>>
    BY <1>3 DEF hello
  <2>2. ListeOK'
    BY <1>0, <2>1, ListeHeard DEF DudInv
  <2>3. AntwortOK'
    BY <2>1 DEF DudInv, AntwortOK, request
  <2>4. CASE ScharfSenden(d)
    <3> DEFINE alt == Veraltet("scharf", Verbleibend(seq'))
    <3>1. /\ seq' = Naechste(seq) /\ w_seq' = seq' /\ ziel' = d /\ ziel_pg' = Pg[d]
          /\ \/ w_zustand' = "SENT" /\ Gesendet(d, "SELECT", seq', Leer, "scharf", alt)
             \/ w_zustand' = "ARMED" /\ luft' = alt /\ UNCHANGED geraet
      BY <2>4 DEF ScharfSenden
    <3>2. seq' \in 1 .. MaxSeq /\ alt \in SUBSET Frame /\ DOMAIN Leer \subseteq Fragment
      <4>1. Verbleibend(seq') \in SUBSET Frame
        BY <1>0 DEF Verbleibend
      <4> QED BY <1>0, <3>1, <4>1, NumberDrawn, StaleFrames DEF Leer
    <3> HIDE DEF alt
    <3>3. luft' \subseteq Frame /\ GeraeteOK'
      <4>1. CASE Gesendet(d, "SELECT", seq', Leer, "scharf", alt)
        BY <1>0, <1>1, <3>2, <4>1, SentOK
      <4>2. CASE luft' = alt /\ UNCHANGED geraet
        BY <1>0, <1>1, <3>2, <4>2 DEF GeraeteOK
      <4> QED BY <3>1, <4>1, <4>2
    <3>4. TargetOK' /\ ArmedOK' /\ seq' \in 0 .. MaxSeq
      BY <1>0, <2>1, <3>1, <3>2, PageOfTarget DEF TargetOK, ArmedOK, DudInv
    <3> QED BY <1>1, <2>2, <2>3, <3>3, <3>4 DEF DudInv
  <2>5. CASE ~ScharfSenden(d)
    <3>1. /\ UNCHANGED <<target, seq, w_seq, air>>
          /\ w_zustand' = w_zustand \/ w_zustand' = "FAIL"
      BY <1>3, <2>5 DEF hello, select_scharf, ScharfGescheitert
    <3> QED BY <1>0, <1>1, <2>1, <2>2, <2>3, <3>1
            DEF DudInv, TargetOK, ArmedOK, target, air, GeraeteOK
  <2> QED BY <2>4, <2>5
<1> QED BY <1>2, <1>3 DEF empfangen

(* The state of the stick keeps its types for any number of devices, hosts *)
(* and sequence numbers and every size of page, fragment and list: the     *)
(* list never holds a device twice, nor more than there is room for, and   *)
(* fragments stay within the page buffer.                                  *)
THEOREM DudTypeCorrect == Spec => []TypeOK
<1>1. Init => DudInv
  <2> SUFFICES ASSUME Init PROVE DudInv
    OBVIOUS
  <2>1. klient \in Klienten /\ klient.bilder \subseteq Bild
    BY KlientAssumption DEF Init
  <2>2. ListeOK
    BY ListAssumption DEF Init, ListeOK
  <2>3. FunkOK
    BY Zenon DEF Init, FunkOK
  <2>4. ArmedOK /\ TargetOK /\ seq \in 0 .. MaxSeq
    BY PagesAssumption, SeqAssumption DEF Init, ArmedOK, TargetOK
  <2>5. PufferOK
    <3>1. [f \in Fragment |-> 0] \in [Fragment -> 0 .. FRAG]
      BY PagesAssumption
    <3> QED BY <2>1, <3>1 DEF Init, PufferOK
  <2>6. Ruhe \in Lauf
    BY PagesAssumption, SeqAssumption DEF Ruhe, Lauf
  <2>7. LaufOK /\ AntwortOK /\ luft \subseteq Frame
    BY <2>6, FS_EmptySet DEF Init, LaufOK, AntwortOK
  <2>8. GeraeteOK
    BY <2>1 DEF Init, GeraeteOK, Leer
  <2> QED BY <2>2, <2>3, <2>4, <2>5, <2>7, <2>8 DEF DudInv
<1>2. DudInv /\ [Next]_vars => DudInv'
  <2> SUFFICES ASSUME DudInv, [Next]_vars PROVE DudInv'
    OBVIOUS
  <2>1. CASE Zeit
    BY <2>1 DEF Zeit, DudInv, ListeOK, FunkOK, ArmedOK, TargetOK, PufferOK, LaufOK, AntwortOK,
                GeraeteOK, radio, armed, target, puffer, request, air
  <2>2. ASSUME NEW d \in klient.nah, SitzungVorbei(d) \/ Neustart(d) PROVE DudInv'
    <3>1. PICK von, nach : GeraetWechselt(d, von, nach)
      BY <2>2 DEF SitzungVorbei, Neustart
    <3>2. /\ geraet' = [geraet EXCEPT ![d].ort = nach, ![d].puf = Leer]
          /\ UNCHANGED <<klient, liste, radio, still, armed, target, puffer, seq, request, pc, lauf, luft>>
      BY <3>1 DEF GeraetWechselt
    <3>3. DOMAIN Leer \subseteq Fragment
      BY DEF Leer
    <3>4. GeraeteOK'
      BY <3>2, <3>3, BufferReplaced DEF DudInv
    <3> QED BY <3>2, <3>4
            DEF DudInv, ListeOK, FunkOK, ArmedOK, TargetOK, PufferOK, LaufOK, AntwortOK,
                radio, armed, target, puffer, request
  <2>3. CASE UNCHANGED vars
    BY <2>3 DEF vars, DudInv, ListeOK, FunkOK, ArmedOK, TargetOK, PufferOK, LaufOK, AntwortOK,
                GeraeteOK, radio, armed, target, puffer, request, air
  <2> QED BY <2>1, <2>2, <2>3, TypeHost, TypeStick, TypeReceive DEF Next
<1>3. DudInv => TypeOK
  BY Zenon DEF DudInv, TypeOK, ListeOK, FunkOK, ArmedOK, TargetOK, PufferOK, LaufOK, AntwortOK
<1> QED BY <1>1, <1>2, <1>3, PTL DEF Spec
=============================================================================
