----------------------------- MODULE Documents -----------------------------
(***************************************************************************)
(* Documents, their files and the trail they leave                         *)
(* (cors/pages/document/views.py and serializers.py, the administrator's   *)
(* AdminDocumentViewSet, and the signal handlers of cors/signals.py that   *)
(* write an AuditLog row after every save and delete). The administrator's *)
(* viewset serves GET, PATCH and DELETE; its archive, restore and          *)
(* bulk_actions are POST actions, which http_method_names refuses.         *)
(*                                                                         *)
(* A statement commits at once (there are no request transactions) except  *)
(* inside the upload's transaction.atomic and inside Django's delete,      *)
(* which cascades and sends its signals in one transaction. Contents are   *)
(* blobs outside the database; nothing deletes one. A document's own       *)
(* deprecated file is its file 0. Titles, categories, tags and dates are   *)
(* left out.                                                               *)
(***************************************************************************)
EXTENDS Workers, Integers

CONSTANTS
    Doc,       \* document ids, used once
    MaxFiles   \* bound: files in an upload

ASSUME DocumentsAssumption == MaxFiles \in Nat \ {0}

VARIABLES
    doc,         \* doc[d]: the row
    files,       \* files[d]: its file rows; file 1 is the primary one
    blobs,       \* contents stored, by document and file
    asked,       \* asked[d]: files that the upload of d brought, -1 before d is used
    docJob,      \* docJob[p]: the request that p serves
    saved,       \* history: saved[d], committed saves of the row
    traced,      \* history: traced[d], created_document and updated_document rows
    deleted,     \* history: deleted[d], times the row was deleted
    buried,      \* history: buried[d], deleted_document rows
    audited,     \* history: audited[k][d], rows of downloads of kind k
    delivered,   \* history: delivered[k][d], downloads answered with the content
    dropped      \* history: dropped[what][d], steps that a kill prevented

Kind == {"zip", "file"}

docHistory   == <<saved, traced, deleted, buried, audited, delivered, dropped>>
downloadVars == <<audited, delivered>>
trailVars    == <<saved, traced, deleted, buried>>
docTable     == <<doc, files, blobs, asked>>
docVars      == <<doc, files, blobs, asked, docJob, saved, traced, deleted, buried,
                  audited, delivered, dropped>>

FileNo == 1 .. MaxFiles
State  == {"absent", "live", "archived"}

NoDocJob == [op |-> "none"]
DocJobs  == {NoDocJob}
            \cup [op : {"upload"}, doc : Doc, size : FileNo, stored : 0 .. MaxFiles]
            \cup [op : {"patch"}, doc : Doc, new : State]
            \cup [op : {"delete", "trace"}, doc : Doc]
            \cup [op : {"zip", "file"}, doc : Doc, pc : {"read", "audit", "send"}]

PerDoc == [Doc -> Nat]

DocumentsTypeOK ==
    /\ doc \in [Doc -> State] /\ files \in [Doc -> SUBSET FileNo]
    /\ blobs \subseteq Doc \X (0 .. MaxFiles)
    /\ asked \in [Doc -> -1 .. MaxFiles]
    /\ docJob \in [Process -> DocJobs]
    /\ saved \in PerDoc /\ traced \in PerDoc /\ deleted \in PerDoc /\ buried \in PerDoc
    /\ audited \in [Kind -> PerDoc] /\ delivered \in [Kind -> PerDoc]
    /\ dropped \in [{"trace", "send"} -> PerDoc]

None == [d \in Doc |-> 0]

DocumentsInit ==
    /\ doc = [d \in Doc |-> "absent"] /\ files = [d \in Doc |-> {}]
    /\ blobs = {} /\ asked = [d \in Doc |-> -1]
    /\ docJob = [p \in Process |-> NoDocJob]
    /\ saved = None /\ traced = None /\ deleted = None /\ buried = None
    /\ audited = [k \in Kind |-> None] /\ delivered = [k \in Kind |-> None]
    /\ dropped = [w \in {"trace", "send"} |-> None]

Present(d)        == doc[d] # "absent"
DocBegin(p, new)  == Accept(p) /\ docJob' = [docJob EXCEPT ![p] = new]
DocGo(p, new)     == Continue(p) /\ docJob' = [docJob EXCEPT ![p] = new]
DocEnd(p)         == Release(p) /\ docJob' = [docJob EXCEPT ![p] = NoDocJob]
Doing(p, op)      == docJob[p].op = op
OneMore(count, d) == [count EXCEPT ![d] = @ + 1]

--------------------------------------------------------------------------
(* Creation.                                                               *)

\* upload_local: the serializer's create opens a transaction.
StartUpload(p, d, n) ==
    /\ asked[d] = -1
    /\ DocBegin(p, [op |-> "upload", doc |-> d, size |-> n, stored |-> 0])
    /\ asked' = [asked EXCEPT ![d] = n]
    /\ UNCHANGED <<doc, files, blobs, docHistory>>

\* Inserting a file row stores its blob first; the row waits for the commit.
StoreFile(p) ==
    LET j == docJob[p]
    IN /\ Doing(p, "upload") /\ j.stored < j.size
       /\ DocGo(p, [j EXCEPT !.stored = @ + 1])
       /\ blobs' = blobs \cup {<<j.doc, j.stored + 1>>}
       /\ UNCHANGED <<doc, files, asked, docHistory>>

\* Mutant: the rows are committed one file too early.
AllStoredButOne(j) == j.stored >= j.size - 1

AllStored(j) == j.stored = j.size

\* The commit: document, files and the signal's audit row appear together.
CommitUpload(p) ==
    LET j == docJob[p]
    IN /\ Doing(p, "upload") /\ AllStored(j)
       /\ doc' = [doc EXCEPT ![j.doc] = "live"]
       /\ files' = [files EXCEPT ![j.doc] = 1 .. j.size]
       /\ saved' = OneMore(saved, j.doc) /\ traced' = OneMore(traced, j.doc)
       /\ DocEnd(p)
       /\ UNCHANGED <<blobs, asked, deleted, buried, downloadVars, dropped>>

\* A store or an insert fails: the rows roll back, the blobs stay.
UploadFails(p) ==
    /\ Doing(p, "upload")
    /\ DocEnd(p)
    /\ UNCHANGED <<docTable, docHistory>>

\* POST of a document, with its one deprecated file or without.
PostDocument(p, d, withFile) ==
    /\ asked[d] = -1
    /\ DocBegin(p, [op |-> "trace", doc |-> d])
    /\ doc' = [doc EXCEPT ![d] = "live"]
    /\ blobs' = IF withFile THEN blobs \cup {<<d, 0>>} ELSE blobs
    /\ asked' = [asked EXCEPT ![d] = 0]
    /\ saved' = OneMore(saved, d)
    /\ UNCHANGED <<files, traced, deleted, buried, downloadVars, dropped>>

\* audit_post_save, after the row is committed.
Trace(p) ==
    /\ Doing(p, "trace")
    /\ traced' = OneMore(traced, docJob[p].doc)
    /\ DocEnd(p)
    /\ UNCHANGED <<docTable, saved, deleted, buried, downloadVars, dropped>>

--------------------------------------------------------------------------
(* Changes.                                                                *)

\* Mutant: restoring stores no value.
ArchivedOrNone(yes) == IF yes THEN "archived" ELSE "none"

\* The row with the flag `archived` as given.
Archived(yes) == IF yes THEN "archived" ELSE "live"

\* PATCH, by the owner or the administrator: get_object, then a save of the
\* whole row, `archived` posted or as it was read.
LoadForPatchDoc(p, d) ==
    /\ Present(d)
    /\ \E yes \in BOOLEAN : DocBegin(p, [op |-> "patch", doc |-> d, new |-> Archived(yes)])
    /\ UNCHANGED <<docTable, docHistory>>

\* save() inserts the row again when it is gone; the files are not in it.
SavePatchDoc(p) ==
    LET j == docJob[p]
    IN /\ Doing(p, "patch")
       /\ doc' = [doc EXCEPT ![j.doc] = j.new]
       /\ saved' = OneMore(saved, j.doc)
       /\ DocGo(p, [op |-> "trace", doc |-> j.doc])
       /\ UNCHANGED <<files, blobs, asked, traced, deleted, buried, downloadVars, dropped>>

--------------------------------------------------------------------------
(* Deletion.                                                               *)

LoadForDelete(p, d) ==
    /\ Present(d)
    /\ DocBegin(p, [op |-> "delete", doc |-> d])
    /\ UNCHANGED <<docTable, docHistory>>

\* The row of d and those of its files go; a row that goes is counted.
Remove(d) ==
    /\ doc' = [doc EXCEPT ![d] = "absent"]
    /\ files' = [files EXCEPT ![d] = {}]
    /\ deleted' = IF Present(d) THEN OneMore(deleted, d) ELSE deleted

\* Mutant: the row is deleted without its signals.
BuryRaw(d) == buried' = buried

\* post_delete is sent for the instance, also when another request has deleted
\* its row already.
Bury(d) == buried' = OneMore(buried, d)

\* DELETE, by the owner or the administrator.
DeleteDocument(p) ==
    LET d == docJob[p].doc
    IN /\ Doing(p, "delete")
       /\ Remove(d) /\ Bury(d)
       /\ DocEnd(p)
       /\ UNCHANGED <<blobs, asked, saved, traced, downloadVars, dropped>>

--------------------------------------------------------------------------
(* Downloads.                                                              *)

\* Mutant: an archive is audited when it is asked for, like a file.
AuditsFirstAlways(op) == TRUE

\* A file is audited before its content is read, an archive once it is built.
AuditsFirst(op) == op = "file"
FirstStep(op)   == IF AuditsFirst(op) THEN "audit" ELSE "read"
AfterRead(op)   == IF AuditsFirst(op) THEN "send" ELSE "audit"
AfterAudit(op)  == IF AuditsFirst(op) THEN "read" ELSE "send"

\* download: all files, or the deprecated one, into an archive.
StartZip(p, d) ==
    /\ Present(d) /\ (files[d] # {} \/ <<d, 0>> \in blobs)
    /\ DocBegin(p, [op |-> "zip", doc |-> d, pc |-> FirstStep("zip")])
    /\ UNCHANGED <<docTable, docHistory>>

\* download_file: one file.
StartFile(p, d) ==
    /\ Present(d) /\ files[d] # {}
    /\ DocBegin(p, [op |-> "file", doc |-> d, pc |-> FirstStep("file")])
    /\ UNCHANGED <<docTable, docHistory>>

\* _read_document_file_content: the local blob, or a backend's download_file.
ReadContent(p) ==
    LET j == docJob[p]
    IN /\ j.op \in Kind /\ j.pc = "read"
       /\ DocGo(p, [j EXCEPT !.pc = AfterRead(j.op)])
       /\ UNCHANGED <<docTable, docHistory>>

\* The storage or the cloud does not give it: 401, 400 or 500.
ReadFails(p) ==
    /\ docJob[p].op \in Kind /\ docJob[p].pc = "read"
    /\ DocEnd(p)
    /\ UNCHANGED <<docTable, docHistory>>

AuditDownload(p) ==
    LET j == docJob[p]
    IN /\ j.op \in Kind /\ j.pc = "audit"
       /\ audited' = [audited EXCEPT ![j.op] = OneMore(@, j.doc)]
       /\ DocGo(p, [j EXCEPT !.pc = AfterAudit(j.op)])
       /\ UNCHANGED <<docTable, trailVars, delivered, dropped>>

Deliver(p) ==
    LET j == docJob[p]
    IN /\ j.op \in Kind /\ j.pc = "send"
       /\ delivered' = [delivered EXCEPT ![j.op] = OneMore(@, j.doc)]
       /\ DocEnd(p)
       /\ UNCHANGED <<docTable, trailVars, audited, dropped>>

--------------------------------------------------------------------------
(* A kill in the middle of a request: an open transaction is rolled back.  *)

Sending(p, d)  == docJob[p].op = "zip" /\ docJob[p].doc = d /\ docJob[p].pc = "send"
Tracing(p, d)  == Doing(p, "trace") /\ docJob[p].doc = d

DocumentsWiped(p) ==
    /\ docJob' = [docJob EXCEPT ![p] = NoDocJob]
    /\ dropped' =
          [trace |-> [d \in Doc |-> dropped["trace"][d] + IF Tracing(p, d) THEN 1 ELSE 0],
           send  |-> [d \in Doc |-> dropped["send"][d] + IF Sending(p, d) THEN 1 ELSE 0]]
    /\ UNCHANGED <<docTable, trailVars, downloadVars>>

DocumentsStep(p) ==
    \/ \E d \in Doc : \/ \E n \in FileNo : StartUpload(p, d, n)
                      \/ \E withFile \in BOOLEAN : PostDocument(p, d, withFile)
                      \/ LoadForPatchDoc(p, d) \/ LoadForDelete(p, d)
                      \/ StartZip(p, d) \/ StartFile(p, d)
    \/ StoreFile(p) \/ CommitUpload(p) \/ UploadFails(p) \/ Trace(p)
    \/ SavePatchDoc(p) \/ DeleteDocument(p)
    \/ ReadContent(p) \/ ReadFails(p) \/ AuditDownload(p) \/ Deliver(p)

DocumentsNext == \E p \in Process : DocumentsStep(p)

DocumentsSpec ==
    /\ WorkersInit /\ DocumentsInit
    /\ [][DocumentsNext \/ \E p \in Process : Kill(p) /\ DocumentsWiped(p)]_<<workers, docVars>>

--------------------------------------------------------------------------
(* Properties.                                                             *)

\* Whatever fails or is killed, an uploaded document is there with all the files
\* it was sent with, their contents and so its primary file, or has none; it has
\* none when a PATCH has brought it back after a deletion.
UploadIsWhole == \A d \in Doc :
    /\ \A n \in files[d] : <<d, n>> \in blobs
    /\ Present(d) /\ deleted[d] = 0 => files[d] = 1 .. asked[d]
    /\ deleted[d] > 0 => files[d] = {}

\* Every committed save of a document is in the audit trail, or is about to be,
\* or its process was killed between the two; no row tells of a save that was
\* rolled back. And no document disappears without a deleted_document row,
\* however often it is brought back and deleted again.
TrailComplete == \A d \in Doc :
    /\ saved[d] = traced[d] + dropped["trace"][d] + Cardinality({p \in Process : Tracing(p, d)})
    /\ deleted[d] <= buried[d]

\* Nothing is delivered that the trail does not show, and of an archive the trail
\* shows no more than was delivered, or was on its way.
DownloadsAudited == \A d \in Doc :
    /\ delivered["file"][d] <= audited["file"][d]
    /\ audited["zip"][d] = delivered["zip"][d] + dropped["send"][d]
                           + Cardinality({p \in Process : Sending(p, d)})
=============================================================================
