----------------------------- MODULE MCDudette -----------------------------
(* Instances of Dudette for TLC: the hosts and the devices in their reach. *)
EXTENDS Dudette

CONSTANTS A, B, C, b1, b2, x, y

Devices == {A, B, C}
Alike   == Permutations({B, C})
BoardOf == [d \in Geraet |-> b1]
Pages   == [d \in Geraet |-> IF d = A THEN 4 ELSE 2]
Grown   == [d \in Geraet |-> IF d = B THEN 8 ELSE 4]
Images  == {x, y}

Host1(befehle, nah) ==
  [befehle |-> befehle, boards |-> {NoBoard}, bilder |-> {x}, nah |-> nah]

(* Two pages after each other; pages for armed targets; every command that *)
(* has nothing to do with pages.                                           *)
Pager  == [Host1({"Dr", "Ds", "Dp", "Dd", "Dm"}, {A}) EXCEPT !.bilder = {x, y}]
Armer  == Host1({"Dw", "Dp", "Dd", "Dm"}, {B, C})
Caller == [Host1({"Dr", "Dx", "Dw", "Dwx", "Ds", "De", "Dv", "Dg", "Db", "Dc", "Dk", "Dl"}, {A})
             EXCEPT !.boards = {NoBoard, b2}]
Hosts  == {Pager, Armer, Caller}

(* For liveness, and for the violations. *)
Leaver   == Host1({"Dx", "Dw", "Dp", "Dd", "Dm"}, {A})
Listener == Host1({"Dx", "Dw", "Dwx", "Ds", "Db"}, {A})
Quiet    == {Leaver, Listener}
Flasher  == {Host1({"Dw", "Ds", "Dg"}, {A})}
Retarget == {Host1({"Dr", "Dw", "Ds", "Dp", "Dd", "Dm"}, {A, B})}
=============================================================================
