---------------------------- MODULE MessageQueue ----------------------------
(***************************************************************************)
(* What the FHT buffer of clib/fht.c promises: the messages of the host in *)
(* the order they came, of which a finished conversation removes the first *)
(* one for its house code.  T01 sets our own house code and removes all.   *)
(***************************************************************************)
EXTENDS Naturals, Sequences, SequencesExt

CONSTANTS
  Message,    (* The messages: house code (two bytes), command, value, ... *)
  HouseCode,
  Room(_, _)  (* Is there room for one more message behind these?          *)

VARIABLES queue, code

For(m) == SubSeq(m, 1, 2)

Store(m) == Room(queue, m) /\ queue' = Append(queue, m) /\ UNCHANGED code

RemoveFor(hc) ==
  \E i \in DOMAIN queue :
    /\ For(queue[i]) = hc
    /\ \A j \in 1 .. i - 1 : For(queue[j]) # hc
    /\ queue' = RemoveAt(queue, i)
    /\ UNCHANGED code

T01(hc) == code' = hc /\ queue' = << >>

Init == queue = << >> /\ code \in HouseCode
Next == /\ <<queue, code>>' # <<queue, code>>
        /\ \/ \E m \in Message : Store(m) \/ RemoveFor(For(m))
           \/ \E hc \in HouseCode : T01(hc)
Spec == Init /\ [][Next]_<<queue, code>>
=============================================================================
