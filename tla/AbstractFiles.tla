--------------------------- MODULE AbstractFiles ---------------------------
(***************************************************************************)
(* What the commands on the Nachos file system promise (threads/main.cc:    *)
(* 30-35): -cp makes a file with the contents of a UNIX file if there is    *)
(* none of that name, -r removes a file, -p shows what is in it, and no     *)
(* command touches another file.  There are no sectors, headers, bitmap or *)
(* directory here.                                                         *)
(***************************************************************************)
CONSTANTS Keys, Texts, NoFile

VARIABLES
    files,    \* the contents of each file, or NoFile
    shown     \* what the last -p command has printed

avars == << files, shown >>

AInit ==
    /\ files = [k \in Keys |-> NoFile]
    /\ shown = NoFile

CopyIn(k, text) ==
    /\ files[k] = NoFile
    /\ files' = [files EXCEPT ![k] = text]
    /\ UNCHANGED shown

Delete(k) ==
    /\ files[k] # NoFile
    /\ files' = [files EXCEPT ![k] = NoFile]
    /\ UNCHANGED shown

Show(k) ==
    /\ files[k] # NoFile
    /\ shown' = files[k]
    /\ UNCHANGED files

ANext ==
    \E k \in Keys : \/ \E text \in Texts : CopyIn(k, text)
                    \/ Delete(k)
                    \/ Show(k)

ASpec == AInit /\ [][ANext]_avars
=============================================================================
