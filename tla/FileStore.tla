----------------------------- MODULE FileStore ------------------------------
(***************************************************************************)
(* What the flash file system promises those who use it through            *)
(* clib/fswrapper.c and clib/log.c: each name has a file or none, only the *)
(* named file changes, and a file that did not change since the last       *)
(* fs_sync survives a power failure.                                       *)
(***************************************************************************)
EXTENDS Naturals, Sequences

CONSTANTS
  Name, NoFile, Cell,
  Logs       (* The names of the log and of its older parts, in order. *)

VARIABLES
  files,     (* The contents of each name's file.                     *)
  safe       (* The names that did not change since the last fs_sync. *)

Init ==
  /\ files = [n \in Name |-> IF n = Logs[1] THEN << >> ELSE NoFile]
  /\ safe = Name

(* An upload replaces the file by an empty one, or removes it. *)
Replace(n) ==
  /\ files' \in {[files EXCEPT ![n] = c] : c \in {NoFile, << >>}}
  /\ safe' = safe \ {n}

Extend(n) ==
  /\ files[n] # NoFile
  /\ \E c \in Cell, k \in 1 .. 2 :
       files' = [files EXCEPT ![n] = @ \o [i \in 1 .. k |-> c]]
  /\ safe' \in {safe \ {n}, Name}

RemoveSafely(n) == files' = [files EXCEPT ![n] = NoFile] /\ safe' = Name

(* Each part of the log becomes the next older one, and a new one begins. *)
Rotate ==
  /\ \E c \in Cell :
       files' = [n \in Name |->
         IF n = Logs[1] THEN << c >>
         ELSE IF \E i \in 2 .. Len(Logs) : n = Logs[i]
              THEN files[Logs[(CHOOSE i \in 2 .. Len(Logs) : n = Logs[i]) - 1]]
              ELSE files[n]]
  /\ safe' = Name \ {Logs[1]}

Forget == files' = [n \in Name |-> NoFile] /\ safe' = Name

Sync == safe' = Name /\ UNCHANGED files

(* What was not safe may be lost, old or mixed.  The log is reopened. *)
PowerFailure ==
  /\ \A n \in safe :
       files'[n] = IF n = Logs[1] /\ files[n] = NoFile THEN << >> ELSE files[n]
  /\ safe' = Name

Next ==
  \/ \E n \in Name : Replace(n) \/ Extend(n) \/ RemoveSafely(n)
  \/ Rotate \/ Forget \/ Sync \/ PowerFailure

Spec == Init /\ [][Next]_<<files, safe>>
=============================================================================
