----------------------------- MODULE CloudDrive ----------------------------
(***************************************************************************)
(* Uploads to a cloud drive: upload_file of the three backends in          *)
(* cors/storage/backends/, which make sure that the folder path exists     *)
(* (google_drive.py, onedrive.py) and send the content whole or in parts   *)
(* (onedrive.py _upload_large_file, dropbox.py _upload_chunked).           *)
(*                                                                         *)
(* Every call of a provider's API is one step, and may fail before or      *)
(* after it had its effect. The providers are external: OneDrive and       *)
(* Dropbox know items by path, Google by id with names that may repeat; an *)
(* upload session takes the parts in their order only, so a content is the *)
(* number of units that arrived. Each backend has one drive, and uploads   *)
(* have different file names.                                              *)
(***************************************************************************)
EXTENDS Workers, Sequences

CONSTANTS
    Path,          \* the folder path that uploads are sent to, a sequence of names
    Size,          \* bound: sizes of uploaded files
    MaxUploads,    \* bound: uploads are among the first MaxUploads requests
    SmallOneDrive, \* OneDrive: smaller files are sent in one request
    ChunkOneDrive, \* ... larger ones in ranges of this size
    ChunkDropbox   \* Dropbox: CHUNK_SIZE

ASSUME DriveAssumption ==
    /\ Path \in Seq(STRING) /\ Path # <<>>
    /\ Size \subseteq Nat /\ MaxUploads \in Nat
    /\ SmallOneDrive \in Nat \ {0} /\ ChunkOneDrive \in Nat \ {0} /\ ChunkDropbox \in Nat \ {0}

VARIABLES
    folders,    \* the folders of the drives; a folder's id is its place
    uploads,    \* uploads[p]: the upload that process p is at
    stored,     \* files on the drives
    answers,    \* history: uploads that upload_file returned a result for
    unexplained, \* history: uploads that raised although every request was answered
    overlapped, \* history: drives on which two folder paths were looked for at once
    faulted     \* history: drives on which a request failed

Drive     == {"google", "onedrive", "dropbox"}
driveVars == <<folders, uploads, stored, answers, unexplained, overlapped, faulted>>

Depth   == 0 .. Len(Path)
Names   == {"mine"} \cup {Path[k] : k \in DOMAIN Path}
Folder  == [drive : Drive, name : Names, parent : Nat, copy : BOOLEAN]

\* at: the folder reached (Google); depth: parts of the path done; sent: what the
\* upload session holds; fault: a request of this upload failed.
NoUpload == [drive |-> "none", pc |-> "none"]
Upload   == [drive : Drive, id : 1 .. MaxServed, size : Size, pc : {"look", "create", "recreate", "send", "session"},
             at : Nat, depth : Depth, sent : Nat, fault : BOOLEAN]

DriveTypeOK ==
    /\ folders \in Seq(Folder)
    /\ uploads \in [Process -> Upload \cup {NoUpload}]
    /\ \A p \in Process : uploads[p] # NoUpload => uploads[p].at <= Len(folders)
    /\ stored \subseteq [drive : Drive, id : 1 .. MaxServed, folder : 0 .. Len(folders)]
    /\ answers \subseteq [drive : Drive, id : 1 .. MaxServed, folder : 0 .. Len(folders)]
    /\ unexplained \subseteq Drive /\ overlapped \subseteq Drive /\ faulted \subseteq Drive

\* The user may have folders of the same names elsewhere, here one in the other and
\* the last part first, which only Google's search by name could find.
Elsewhere == <<[drive |-> "google", name |-> "mine", parent |-> 0, copy |-> FALSE]>>
             \o [i \in 1 .. Len(Path) |->
                    [drive |-> "google", name |-> Path[Len(Path) + 1 - i], parent |-> i, copy |-> FALSE]]

DriveInit ==
    /\ folders \in {<<>>, Elsewhere}
    /\ uploads = [p \in Process |-> NoUpload]
    /\ stored = {} /\ answers = {} /\ unexplained = {}
    /\ overlapped = {} /\ faulted = {}

--------------------------------------------------------------------------
(* upload_file.                                                            *)

Up(p)      == uploads[p]
Is(p, d, pc) == Up(p).drive = d /\ Up(p).pc = pc

Ensuring(d) == {p \in Process : Up(p).drive = d /\ Up(p).pc \in {"look", "create", "recreate"}}

StartCloudUpload(p, d, size) ==
    /\ served < MaxUploads
    /\ Accept(p)
    /\ uploads' = [uploads EXCEPT ![p] =
           [drive |-> d, id |-> served + 1, size |-> size, pc |-> IF d = "dropbox" THEN "send" ELSE "look",
            at |-> 0, depth |-> 0, sent |-> 0, fault |-> FALSE]]
    /\ overlapped' = IF d # "dropbox" /\ Ensuring(d) # {} THEN overlapped \cup {d} ELSE overlapped
    /\ UNCHANGED <<folders, stored, answers, unexplained, faulted>>

Becomes(p, new) == Continue(p) /\ uploads' = [uploads EXCEPT ![p] = new]

\* upload_file raises.
Raise(p, fault) ==
    /\ Release(p)
    /\ uploads' = [uploads EXCEPT ![p] = NoUpload]
    /\ IF fault \/ Up(p).fault
       THEN faulted' = faulted \cup {Up(p).drive} /\ UNCHANGED unexplained
       ELSE unexplained' = unexplained \cup {Up(p).drive} /\ UNCHANGED faulted

File(p, folder) == [drive |-> Up(p).drive, id |-> Up(p).id, folder |-> folder]

\* upload_file returns what the provider answered to the last request.
Return(p, folder) ==
    /\ Release(p)
    /\ uploads' = [uploads EXCEPT ![p] = NoUpload]
    /\ answers' = answers \cup {File(p, folder)}

\* The provider makes the file once it has the whole content.
Store(p, folder) == stored' = stored \cup {File(p, folder)}

Name(p)      == Path[Up(p).depth + 1]
NextPart(p, u) ==
    [u EXCEPT !.depth = @ + 1, !.pc = IF u.depth + 1 = Len(Path) THEN "send" ELSE "look"]

NewId == Len(folders) + 1
AddFolder(d, name, parent, copy) ==
    folders' = Append(folders, [drive |-> d, name |-> name, parent |-> parent, copy |-> copy])

--------------------------------------------------------------------------
(* Google Drive: _ensure_folder_path by ids.                               *)

\* Mutant: the search is never limited to the parent.
MatchesAnywhere(name, parent) ==
    {i \in DOMAIN folders : folders[i].drive = "google" /\ folders[i].name = name}

\* The query: by name, and under the parent once there is one; the first part is
\* looked for everywhere.
Matches(name, parent) ==
    {i \in DOMAIN folders : /\ folders[i].drive = "google" /\ folders[i].name = name
                            /\ parent # 0 => folders[i].parent = parent}

GoogleLook(p) ==
    /\ Is(p, "google", "look")
    /\ IF Matches(Name(p), Up(p).at) = {}
       THEN Becomes(p, [Up(p) EXCEPT !.pc = "create"])
       ELSE \E i \in Matches(Name(p), Up(p).at) : Becomes(p, NextPart(p, [Up(p) EXCEPT !.at = i]))
    /\ UNCHANGED <<folders, stored, answers, unexplained, overlapped, faulted>>

\* Mutant: folders are created in the root.
ParentForgotten(p) == 0

ParentOf(p) == Up(p).at

GoogleCreate(p) ==
    /\ Is(p, "google", "create")
    /\ AddFolder("google", Name(p), ParentOf(p), FALSE)
    /\ Becomes(p, NextPart(p, [Up(p) EXCEPT !.at = NewId]))
    /\ UNCHANGED <<stored, answers, unexplained, overlapped, faulted>>

\* The SDK's resumable upload, in one step.
GoogleSend(p) ==
    /\ Is(p, "google", "send")
    /\ Store(p, Up(p).at)
    /\ Return(p, Up(p).at)
    /\ UNCHANGED <<folders, unexplained, overlapped, faulted>>

--------------------------------------------------------------------------
(* OneDrive: _ensure_folder_path by paths.                                 *)

Nowhere == Len(folders) + 1

\* What paths go through: a renamed copy is not the folder that was asked for.
OnPaths == {i \in DOMAIN folders : folders[i].drive = "onedrive" /\ ~folders[i].copy}

IsChild(i, parent, name) == folders[i].parent = parent /\ folders[i].name = name

Child(parent, name) ==
    LET hits == {i \in OnPaths : IsChild(i, parent, name)}
    IN IF hits = {} THEN Nowhere ELSE CHOOSE i \in hits : TRUE

\* The ways along the first n parts of the path, from the root, which is 0.
Ways(n) == {w \in [1 .. n -> OnPaths] :
               \A k \in 1 .. n : IsChild(w[k], IF k = 1 THEN 0 ELSE w[k - 1], Path[k])}

\* Where the first n parts lead to.
Resolve(n) == IF n = 0 THEN 0
              ELSE IF Ways(n) = {} THEN Nowhere ELSE (CHOOSE w \in Ways(n) : TRUE)[n]

\* 404 is the only status looked at: after any other answer the part is taken to
\* exist.
OneDriveLook(p) ==
    /\ Is(p, "onedrive", "look")
    /\ IF Resolve(Up(p).depth + 1) = Nowhere
       THEN Becomes(p, [Up(p) EXCEPT !.pc = "create"])
       ELSE Becomes(p, NextPart(p, Up(p)))
    /\ UNCHANGED <<folders, stored, answers, unexplained, overlapped, faulted>>

OneDriveLookStatus(p) ==
    /\ Is(p, "onedrive", "look")
    /\ Becomes(p, NextPart(p, [Up(p) EXCEPT !.fault = TRUE]))
    /\ faulted' = faulted \cup {"onedrive"}
    /\ UNCHANGED <<folders, stored, answers, unexplained, overlapped>>

\* conflictBehavior "rename": a folder whose name is taken becomes a copy.
CreateByPath(p) ==
    LET parent == Resolve(Up(p).depth)
    IN /\ parent # Nowhere
       /\ AddFolder("onedrive", Name(p), parent, Child(parent, Name(p)) # Nowhere)

\* An exception, in the request or in the creation, whose answer may be what was
\* lost: create (again).
OneDriveRetries(p) ==
    /\ \/ Is(p, "onedrive", "look") /\ UNCHANGED folders
       \/ Is(p, "onedrive", "create") /\ (CreateByPath(p) \/ UNCHANGED folders)
    /\ Becomes(p, [Up(p) EXCEPT !.pc = "recreate", !.fault = TRUE])
    /\ faulted' = faulted \cup {"onedrive"}
    /\ UNCHANGED <<stored, answers, unexplained, overlapped>>

OneDriveCreate(p) ==
    /\ Up(p).drive = "onedrive" /\ Up(p).pc \in {"create", "recreate"}
    /\ CreateByPath(p)
    /\ Becomes(p, NextPart(p, Up(p)))
    /\ UNCHANGED <<stored, answers, unexplained, overlapped, faulted>>

\* The parent is missing: refused, and refused again.
OneDriveCreateRefused(p) ==
    /\ Up(p).drive = "onedrive" /\ Up(p).pc \in {"create", "recreate"}
    /\ Resolve(Up(p).depth) = Nowhere
    /\ IF Up(p).pc = "create"
       THEN Becomes(p, [Up(p) EXCEPT !.pc = "recreate"]) /\ UNCHANGED <<unexplained, faulted>>
       ELSE Raise(p, FALSE)
    /\ UNCHANGED <<folders, stored, answers, overlapped>>

\* A part that was wrongly taken to exist: the provider refuses the upload to the
\* path, or makes the missing folders itself.
OneDriveMissing(p) ==
    /\ Is(p, "onedrive", "send") /\ Resolve(Len(Path)) = Nowhere
    /\ \/ Raise(p, FALSE) /\ UNCHANGED folders
       \/ /\ \E k \in 0 .. Len(Path) - 1 :
                /\ Resolve(k) # Nowhere /\ Resolve(k + 1) = Nowhere
                /\ AddFolder("onedrive", Path[k + 1], Resolve(k), FALSE)
          /\ Continue(p)
          /\ UNCHANGED <<uploads, unexplained, faulted>>
    /\ UNCHANGED <<stored, answers, overlapped>>

\* The content goes to the path, in one request or through a session.
OneDriveSend(p) ==
    /\ Is(p, "onedrive", "send") /\ Resolve(Len(Path)) # Nowhere
    /\ IF Up(p).size < SmallOneDrive
       THEN Store(p, Resolve(Len(Path))) /\ Return(p, Resolve(Len(Path)))
       ELSE Becomes(p, [Up(p) EXCEPT !.pc = "session"]) /\ UNCHANGED <<stored, answers>>
    /\ UNCHANGED <<folders, unexplained, overlapped, faulted>>

\* Mutant: only whole ranges are sent.
MoreWhole(start, size) == start + ChunkOneDrive <= size

\* The loop over range(0, size, chunk).
More(start, size) == start < size

Least(a, b) == IF a < b THEN a ELSE b

\* _upload_large_file: the item is there with the last byte; what the last
\* request answered is returned.
OneDriveRange(p) ==
    LET u   == Up(p)
        end == Least(u.sent + ChunkOneDrive, u.size)
    IN /\ Is(p, "onedrive", "session")
       /\ IF end = u.size THEN Store(p, Resolve(Len(Path))) ELSE UNCHANGED stored
       /\ IF More(end, u.size)
          THEN Becomes(p, [u EXCEPT !.sent = end]) /\ UNCHANGED answers
          ELSE Return(p, Resolve(Len(Path)))
       /\ UNCHANGED <<folders, unexplained, overlapped, faulted>>

--------------------------------------------------------------------------
(* Dropbox: the path is part of the last request, which makes the folders. *)

\* Mutant: a file of exactly one chunk goes through a session.
FitsStrictly(size) == size < ChunkDropbox

Fits(size) == size <= ChunkDropbox

\* One request, or the first chunk opens a session.
DropboxSend(p) ==
    /\ Is(p, "dropbox", "send")
    /\ IF Fits(Up(p).size)
       THEN Store(p, 0) /\ Return(p, 0)
       ELSE /\ Becomes(p, [Up(p) EXCEPT !.pc = "session", !.sent = ChunkDropbox])
            /\ UNCHANGED <<stored, answers>>
    /\ UNCHANGED <<folders, unexplained, overlapped, faulted>>

\* _upload_chunked: append, or finish with the last chunk. Without a chunk left
\* the loop ends and the function returns None, on which upload_file fails.
DropboxChunk(p) ==
    LET u     == Up(p)
        chunk == Least(ChunkDropbox, u.size - u.sent)
    IN /\ Is(p, "dropbox", "session")
       /\ IF u.sent < u.size
          THEN /\ IF u.sent + chunk < u.size
                  THEN /\ Becomes(p, [u EXCEPT !.sent = @ + chunk])
                       /\ UNCHANGED <<stored, answers>>
                  ELSE Store(p, 0) /\ Return(p, 0)
               /\ UNCHANGED <<unexplained, faulted>>
          ELSE Raise(p, FALSE) /\ UNCHANGED <<stored, answers>>
       /\ UNCHANGED <<folders, overlapped>>

--------------------------------------------------------------------------
(* A request fails: the exception ends the upload, except in the OneDrive  *)
(* look-up (above). What it asked for may have been done.                  *)

Last(u) == CASE u.drive = "google"   -> TRUE
             [] u.drive = "onedrive" -> IF u.pc = "send" THEN u.size < SmallOneDrive
                                        ELSE u.sent + ChunkOneDrive >= u.size
             [] u.drive = "dropbox"  -> u.sent + ChunkDropbox >= u.size

Destination(p) == CASE Up(p).drive = "google"   -> Up(p).at
                    [] Up(p).drive = "onedrive" -> Resolve(Len(Path))
                    [] Up(p).drive = "dropbox"  -> 0

RequestFails(p) ==
    /\ \/ Is(p, "google", "look") /\ UNCHANGED <<folders, stored>>
       \/ Is(p, "google", "create") /\ UNCHANGED stored
          /\ (AddFolder("google", Name(p), ParentOf(p), FALSE) \/ UNCHANGED folders)
       \/ Is(p, "onedrive", "recreate") /\ UNCHANGED stored /\ (CreateByPath(p) \/ UNCHANGED folders)
       \/ Up(p).pc \in {"send", "session"} /\ UNCHANGED <<folders, stored>>
       \/ Up(p).pc \in {"send", "session"} /\ Last(Up(p)) /\ Destination(p) # Nowhere
          /\ Store(p, Destination(p)) /\ UNCHANGED folders
    /\ Raise(p, TRUE)
    /\ UNCHANGED <<answers, overlapped>>

\* A killed process leaves what its requests did.
DriveWiped(p) ==
    /\ uploads' = [uploads EXCEPT ![p] = NoUpload]
    /\ UNCHANGED <<folders, stored, answers, unexplained, overlapped, faulted>>

DriveStep(p) ==
    \/ \E d \in Drive, size \in Size : StartCloudUpload(p, d, size)
    \/ GoogleLook(p) \/ GoogleCreate(p) \/ GoogleSend(p)
    \/ OneDriveLook(p) \/ OneDriveLookStatus(p) \/ OneDriveRetries(p)
    \/ OneDriveCreate(p) \/ OneDriveCreateRefused(p)
    \/ OneDriveMissing(p) \/ OneDriveSend(p) \/ OneDriveRange(p)
    \/ DropboxSend(p) \/ DropboxChunk(p)
    \/ RequestFails(p)

DriveNext == \E p \in Process : DriveStep(p)

DriveSpec ==
    /\ WorkersInit /\ DriveInit
    /\ [][DriveNext \/ \E p \in Process : Kill(p) /\ DriveWiped(p)]_<<workers, driveVars>>

--------------------------------------------------------------------------
(* Properties.                                                             *)

\* When upload_file returns, the drive has the file, whole: a size at the edge of
\* a chunk or of the limit for one request loses nothing.
AnsweredIsWhole == answers \subseteq stored

\* upload_file raises only when a request failed: no size and no interleaving of
\* the look-ups makes it fail by itself.
FailsOnlyOnFault == unexplained = {}

\* A file that was answered for lies in folders with the names of the path, none
\* of them a renamed copy.
LandsInPath == \A a \in answers : a.drive # "dropbox" =>
    \E w \in [DOMAIN Path -> DOMAIN folders] :
        /\ w[Len(Path)] = a.folder
        /\ \A k \in DOMAIN Path :
              /\ folders[w[k]].drive = a.drive /\ folders[w[k]].name = Path[k]
              /\ ~folders[w[k]].copy
              /\ k > 1 => folders[w[k]].parent = w[k - 1]

\* A folder of the path exists twice only after two uploads looked for it at once
\* or after a request failed.
NoStrayFolder == \A i, j \in DOMAIN folders :
    /\ i # j
    /\ folders[i].drive = folders[j].drive
    /\ folders[i].name = folders[j].name /\ folders[i].parent = folders[j].parent
    => folders[i].drive \in overlapped \cup faulted
=============================================================================
