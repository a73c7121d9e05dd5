------------------------------- MODULE Files -------------------------------
(***************************************************************************)
(* What the web processes do with files: the document endpoints and the    *)
(* uploads to a cloud drive run in the same workers, so a process that     *)
(* waits for a provider serves no document, and one kill ends either kind  *)
(* of request.                                                             *)
(***************************************************************************)
EXTENDS Documents, CloudDrive

fileVars == <<workers, docVars, driveVars>>

FilesInit == WorkersInit /\ DocumentsInit /\ DriveInit

KillFileWorker(p) == Kill(p) /\ DocumentsWiped(p) /\ DriveWiped(p)

FilesNext ==
    \/ DocumentsNext /\ UNCHANGED driveVars
    \/ DriveNext /\ UNCHANGED docVars
    \/ \E p \in Process : KillFileWorker(p)

FilesSpec == FilesInit /\ [][FilesNext]_fileVars

FilesTypeOK == WorkersTypeOK /\ DocumentsTypeOK /\ DriveTypeOK
=============================================================================
