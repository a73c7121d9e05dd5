----------------------------- MODULE FilesProofs -----------------------------
(***************************************************************************)
(* Theorems about the processes that serve documents and uploads, for      *)
(* every number of processes, documents and files, every path, every size  *)
(* and all bounds: the documents first, then the drives.                   *)
(***************************************************************************)
EXTENDS Files, FiniteSetTheorems, SequenceTheorems, TLAPS

--------------------------------------------------------------------------
(* What a process is doing.                                                *)

LEMMA JobShape ==
    ASSUME NEW j \in DocJobs
    PROVE  /\ j.op \in {"none", "upload", "patch", "delete", "trace", "zip", "file"}
           /\ j.op = "none" => j = NoDocJob
           /\ j.op # "none" => j.doc \in Doc
           /\ j.op = "upload" => j \in [op : {"upload"}, doc : Doc, size : FileNo, stored : 0 .. MaxFiles]
           /\ j.op = "patch" => j.new \in State
           /\ j.op \in Kind => j \in [op : {"zip", "file"}, doc : Doc, pc : {"read", "audit", "send"}]
BY DEF DocJobs, NoDocJob, Kind

LEMMA JobsTyped ==
    ASSUME NEW d \in Doc
    PROVE  /\ NoDocJob \in DocJobs
           /\ \A n \in FileNo, s \in 0 .. MaxFiles :
                 [op |-> "upload", doc |-> d, size |-> n, stored |-> s] \in DocJobs
           /\ \A new \in State : [op |-> "patch", doc |-> d, new |-> new] \in DocJobs
           /\ [op |-> "delete", doc |-> d] \in DocJobs
           /\ [op |-> "trace", doc |-> d] \in DocJobs
           /\ \A op \in Kind, pc \in {"read", "audit", "send"} :
                 [op |-> op, doc |-> d, pc |-> pc] \in DocJobs
BY DEF DocJobs, NoDocJob, Kind

--------------------------------------------------------------------------
(* The inductive invariant of the documents.                               *)

\* A process serves one request: a document's or an upload to a drive.
Own == \A p \in Process :
    /\ docJob[p].op # "none" => p \in busy /\ uploads[p].drive = "none"
    /\ uploads[p].drive # "none" => p \in busy

\* The document was there once.
Known(d) == Present(d) \/ deleted[d] > 0

\* An id is used once, and a document has the files it was uploaded with until
\* it is deleted.
Whole == \A d \in Doc :
    /\ asked[d] = -1 => ~Known(d)
    /\ ~Present(d) => files[d] = {}
    /\ \A n \in files[d] : <<d, n>> \in blobs
    /\ Present(d) /\ deleted[d] = 0 => files[d] = 1 .. asked[d]
    /\ deleted[d] > 0 => files[d] = {}

\* An upload works on a document that nobody has seen; every other request on
\* one that it has seen.
Fitting(j) ==
    /\ j.op = "upload" => /\ ~Known(j.doc) /\ asked[j.doc] = j.size /\ j.stored <= j.size
                          /\ \A n \in 1 .. j.stored : <<j.doc, n>> \in blobs
    /\ j.op \notin {"none", "upload"} => Known(j.doc)
    /\ j.op = "patch" => j.new # "absent"
Fit == /\ \A p \in Process : Fitting(docJob[p])
       /\ \A p, q \in Process : docJob[p].op = "upload" /\ docJob[q].op = "upload"
                                   /\ docJob[p].doc = docJob[q].doc => p = q

\* The requests that a counter of the trail is ahead of.
IsTracer(j, d) == j.op = "trace" /\ j.doc = d
IsSender(j, d) == j.op = "zip" /\ j.doc = d /\ j.pc = "send"
IsOpener(j, d) == j.op = "file" /\ j.doc = d /\ j.pc \in {"read", "send"}

Tracers(d) == {p \in Process : IsTracer(docJob[p], d)}
Senders(d) == {p \in Process : IsSender(docJob[p], d)}
Openers(d) == {p \in Process : IsOpener(docJob[p], d)}

CountedAt(d) ==
    /\ saved[d] = traced[d] + dropped["trace"][d] + Cardinality(Tracers(d))
    /\ deleted[d] <= buried[d]
    /\ delivered["file"][d] + Cardinality(Openers(d)) <= audited["file"][d]
    /\ audited["zip"][d] = delivered["zip"][d] + dropped["send"][d] + Cardinality(Senders(d))
Counted == \A d \in Doc : CountedAt(d)

DocInv == WorkersTypeOK /\ DocumentsTypeOK /\ Own /\ Whole /\ Fit /\ Counted

--------------------------------------------------------------------------
(* Counting the processes at a step.                                       *)

One(b) == IF b THEN 1 ELSE 0

\* One process changes, and so does the count.
LEMMA OneChanges ==
    ASSUME NEW S \in SUBSET Process, NEW T \in SUBSET Process, NEW p \in Process,
           \A q \in Process : q # p => (q \in T <=> q \in S)
    PROVE  /\ Cardinality(S) \in Nat /\ Cardinality(T) \in Nat
           /\ Cardinality(T) + One(p \in S) = Cardinality(S) + One(p \in T)
<1>1. IsFiniteSet(S) /\ IsFiniteSet(T) /\ IsFiniteSet(S \ {p})
  BY ProcessesFinite, FS_Subset
<1>2. Cardinality(S) \in Nat /\ Cardinality(T) \in Nat /\ Cardinality(S \ {p}) \in Nat
  BY <1>1, FS_CardinalityType
<1>3. /\ Cardinality(S \ {p}) = IF p \in S THEN Cardinality(S) - 1 ELSE Cardinality(S)
      /\ Cardinality(T \ {p}) = IF p \in T THEN Cardinality(T) - 1 ELSE Cardinality(T)
  BY <1>1, FS_RemoveElement, ZenonT(40)
<1>4. Cardinality(S \ {p}) = Cardinality(T \ {p})
  <2>1. S \ {p} = T \ {p}
    OBVIOUS
  <2>2. QED
    BY <2>1
<1>5. /\ Cardinality(S) = Cardinality(S \ {p}) + One(p \in S)
      /\ Cardinality(T) = Cardinality(S \ {p}) + One(p \in T)
  BY <1>2, <1>3, <1>4 DEF One
<1>6. One(p \in S) \in Nat /\ One(p \in T) \in Nat
  BY DEF One
<1>7. QED
  BY <1>2, <1>5, <1>6

\* A process takes up another job.
LEMMA Recount ==
    ASSUME docJob \in [Process -> DocJobs], NEW p \in Process, NEW k, NEW d,
           docJob' = [docJob EXCEPT ![p] = k]
    PROVE  /\ Cardinality(Tracers(d)) \in Nat /\ Cardinality(Tracers(d)') \in Nat
           /\ Cardinality(Senders(d)) \in Nat /\ Cardinality(Senders(d)') \in Nat
           /\ Cardinality(Openers(d)) \in Nat /\ Cardinality(Openers(d)') \in Nat
           /\ Cardinality(Tracers(d)') + One(IsTracer(docJob[p], d))
                 = Cardinality(Tracers(d)) + One(IsTracer(k, d))
           /\ Cardinality(Senders(d)') + One(IsSender(docJob[p], d))
                 = Cardinality(Senders(d)) + One(IsSender(k, d))
           /\ Cardinality(Openers(d)') + One(IsOpener(docJob[p], d))
                 = Cardinality(Openers(d)) + One(IsOpener(k, d))
<1>1. docJob'[p] = k /\ \A q \in Process : q # p => docJob'[q] = docJob[q]
  OBVIOUS
<1>2. /\ Tracers(d) \in SUBSET Process /\ Tracers(d)' \in SUBSET Process
      /\ \A q \in Process : q # p => (q \in Tracers(d)' <=> q \in Tracers(d))
      /\ p \in Tracers(d) <=> IsTracer(docJob[p], d)
      /\ p \in Tracers(d)' <=> IsTracer(k, d)
  BY <1>1 DEF Tracers
<1>3. /\ Senders(d) \in SUBSET Process /\ Senders(d)' \in SUBSET Process
      /\ \A q \in Process : q # p => (q \in Senders(d)' <=> q \in Senders(d))
      /\ p \in Senders(d) <=> IsSender(docJob[p], d)
      /\ p \in Senders(d)' <=> IsSender(k, d)
  BY <1>1 DEF Senders
<1>4. /\ Openers(d) \in SUBSET Process /\ Openers(d)' \in SUBSET Process
      /\ \A q \in Process : q # p => (q \in Openers(d)' <=> q \in Openers(d))
      /\ p \in Openers(d) <=> IsOpener(docJob[p], d)
      /\ p \in Openers(d)' <=> IsOpener(k, d)
  BY <1>1 DEF Openers
<1>5. /\ Cardinality(Tracers(d)) \in Nat /\ Cardinality(Tracers(d)') \in Nat
      /\ Cardinality(Tracers(d)') + One(p \in Tracers(d)) = Cardinality(Tracers(d)) + One(p \in Tracers(d)')
  BY <1>2, OneChanges
<1>6. /\ Cardinality(Senders(d)) \in Nat /\ Cardinality(Senders(d)') \in Nat
      /\ Cardinality(Senders(d)') + One(p \in Senders(d)) = Cardinality(Senders(d)) + One(p \in Senders(d)')
  BY <1>3, OneChanges
<1>7. /\ Cardinality(Openers(d)) \in Nat /\ Cardinality(Openers(d)') \in Nat
      /\ Cardinality(Openers(d)') + One(p \in Openers(d)) = Cardinality(Openers(d)) + One(p \in Openers(d)')
  BY <1>4, OneChanges
<1>8. QED
  BY <1>2, <1>3, <1>4, <1>5, <1>6, <1>7 DEF One

--------------------------------------------------------------------------
(* The frame of a step.                                                    *)

\* Process p takes up k; the workers stay in order.
Takes(p, k) == /\ docJob' = [docJob EXCEPT ![p] = k] /\ k \in DocJobs
               /\ docJob' \in [Process -> DocJobs]
               /\ WorkersTypeOK' /\ Own'

LEMMA Begins ==
    ASSUME DocInv, UNCHANGED driveVars, NEW p \in Process, NEW k \in DocJobs, DocBegin(p, k)
    PROVE  Takes(p, k) /\ docJob[p] = NoDocJob
<1>1. docJob \in [Process -> DocJobs] /\ uploads' = uploads
  BY DEF DocInv, DocumentsTypeOK, driveVars
<1>2. /\ docJob' = [docJob EXCEPT ![p] = k] /\ p \notin busy
      /\ busy' = busy \cup {p} /\ served' = served + 1 /\ served < MaxServed /\ kills' = kills
  BY DEF DocBegin, Accept, Free
<1>3. docJob[p].op = "none" /\ uploads[p].drive = "none"
  BY <1>2 DEF DocInv, Own
<1>4. docJob[p] = NoDocJob
  BY <1>1, <1>3, JobShape
<1>5. WorkersTypeOK'
  BY <1>2, WorkersAssumption DEF DocInv, WorkersTypeOK
<1>6. Own'
  BY <1>1, <1>2, <1>3 DEF DocInv, Own
<1>7. QED
  BY <1>1, <1>2, <1>4, <1>5, <1>6 DEF Takes

LEMMA Goes ==
    ASSUME DocInv, UNCHANGED driveVars, NEW p \in Process, NEW k \in DocJobs,
           docJob[p].op # "none", DocGo(p, k)
    PROVE  Takes(p, k)
<1>1. docJob \in [Process -> DocJobs] /\ uploads' = uploads
  BY DEF DocInv, DocumentsTypeOK, driveVars
<1>2. docJob' = [docJob EXCEPT ![p] = k] /\ p \in busy /\ UNCHANGED <<busy, served, kills>>
  BY DEF DocGo, Continue, workers
<1>3. WorkersTypeOK' /\ Own'
  BY <1>1, <1>2 DEF DocInv, WorkersTypeOK, Own
<1>4. QED
  BY <1>1, <1>2, <1>3 DEF Takes

LEMMA Ends ==
    ASSUME DocInv, UNCHANGED driveVars, NEW p \in Process, docJob[p].op # "none", DocEnd(p)
    PROVE  Takes(p, NoDocJob)
<1>1. docJob \in [Process -> DocJobs] /\ uploads' = uploads /\ NoDocJob \in DocJobs
  BY DEF DocInv, DocumentsTypeOK, driveVars, DocJobs
<1>2. /\ docJob' = [docJob EXCEPT ![p] = NoDocJob] /\ busy' = busy \ {p}
      /\ served' = served /\ kills' = kills
  BY DEF DocEnd, Release
<1>3. WorkersTypeOK' /\ Own'
  BY <1>1, <1>2 DEF DocInv, WorkersTypeOK, Own, NoDocJob
<1>4. QED
  BY <1>1, <1>2, <1>3 DEF Takes

LEMMA OneMoreFacts ==
    ASSUME NEW count \in PerDoc, NEW d \in Doc
    PROVE  /\ OneMore(count, d) \in PerDoc
           /\ OneMore(count, d)[d] = count[d] + 1
           /\ \A e \in Doc : e # d => OneMore(count, d)[e] = count[e]
BY DEF OneMore, PerDoc

Uploading(q, d) == docJob[q].op = "upload" /\ docJob[q].doc = d

\* What another process uploads, nobody has seen.
LEMMA AtUpload ==
    ASSUME DocInv, NEW q \in Process, docJob[q].op = "upload"
    PROVE  /\ docJob[q].doc \in Doc /\ docJob[q].size \in FileNo /\ docJob[q].stored \in 0 .. MaxFiles
           /\ ~Known(docJob[q].doc) /\ asked[docJob[q].doc] = docJob[q].size
           /\ docJob[q].stored <= docJob[q].size
           /\ \A n \in 1 .. docJob[q].stored : <<docJob[q].doc, n>> \in blobs
<1>1. docJob[q] \in DocJobs /\ Fitting(docJob[q])
  BY DEF DocInv, DocumentsTypeOK, Fit
<1>2. docJob[q] \in [op : {"upload"}, doc : Doc, size : FileNo, stored : 0 .. MaxFiles]
  BY <1>1, JobShape
<1>3. docJob[q].doc \in Doc /\ docJob[q].size \in FileNo /\ docJob[q].stored \in 0 .. MaxFiles
  BY <1>2
<1>4. QED
  BY <1>1, <1>3 DEF Fitting

\* The job of another process still fits.
LEMMA OthersFit ==
    ASSUME DocInv, NEW p \in Process, NEW k, Takes(p, k),
           \A d \in Doc : Known(d) => Known(d)',
           \A d \in Doc : asked[d] # -1 => asked'[d] = asked[d],
           \A b \in blobs : b \in blobs',
           \A d \in Doc, q \in Process : Uploading(q, d) /\ q # p => (Known(d)' => Known(d))
    PROVE  \A q \in Process : q # p => Fitting(docJob[q])'
<1> SUFFICES ASSUME NEW q \in Process, q # p PROVE Fitting(docJob[q])'
  OBVIOUS
<1>1. PICK j \in DocJobs : j = docJob[q] /\ j = docJob'[q]
  BY DEF Takes, DocInv, DocumentsTypeOK
<1>2. Fitting(j)
  BY <1>1 DEF DocInv, Fit
<1>3. j.op # "none" => j.doc \in Doc
  BY JobShape
<1>4. CASE j.op = "upload"
  <2>1. /\ j.size \in FileNo /\ ~Known(j.doc) /\ asked[j.doc] = j.size /\ j.stored <= j.size
        /\ \A n \in 1 .. j.stored : <<j.doc, n>> \in blobs
    BY <1>2, <1>4, JobShape DEF Fitting
  <2>2. asked'[j.doc] = j.size
    BY <1>3, <1>4, <2>1 DEF FileNo
  <2>3. \A n \in 1 .. j.stored : <<j.doc, n>> \in blobs'
    BY <2>1
  <2>4. ~Known(j.doc)'
    BY <1>1, <1>3, <1>4, <2>1 DEF Uploading
  <2>5. Fitting(j)'
    BY <1>4, <2>1, <2>2, <2>3, <2>4 DEF Fitting
  <2>6. QED
    BY <1>1, <2>5 DEF Fitting
<1>5. CASE j.op # "upload"
  <2>1. j.op # "none" => Known(j.doc)'
    BY <1>2, <1>3, <1>5 DEF Fitting
  <2>2. Fitting(j)'
    BY <1>2, <1>5, <2>1 DEF Fitting
  <2>3. QED
    BY <1>1, <2>2 DEF Fitting
<1>6. QED
  BY <1>4, <1>5

\* The counts of a document after a step of p.
LEMMA CountAgain ==
    ASSUME DocInv, DocumentsTypeOK', NEW p \in Process, NEW k, Takes(p, k), NEW d \in Doc,
           saved'[d] + traced[d] + dropped["trace"][d] + One(IsTracer(docJob[p], d))
              = saved[d] + traced'[d] + dropped'["trace"][d] + One(IsTracer(k, d)),
           deleted'[d] <= buried'[d],
           delivered'["file"][d] + audited["file"][d] + One(IsOpener(k, d))
              <= delivered["file"][d] + audited'["file"][d] + One(IsOpener(docJob[p], d)),
           audited'["zip"][d] + delivered["zip"][d] + dropped["send"][d] + One(IsSender(docJob[p], d))
              = audited["zip"][d] + delivered'["zip"][d] + dropped'["send"][d] + One(IsSender(k, d))
    PROVE  CountedAt(d)'
<1>1. /\ saved[d] \in Nat /\ traced[d] \in Nat /\ dropped["trace"][d] \in Nat
      /\ delivered["file"][d] \in Nat /\ audited["file"][d] \in Nat
      /\ delivered["zip"][d] \in Nat /\ audited["zip"][d] \in Nat /\ dropped["send"][d] \in Nat
  BY DEF DocInv, DocumentsTypeOK, PerDoc, Kind
<1>2. /\ saved'[d] \in Nat /\ traced'[d] \in Nat /\ dropped'["trace"][d] \in Nat
      /\ delivered'["file"][d] \in Nat /\ audited'["file"][d] \in Nat
      /\ delivered'["zip"][d] \in Nat /\ audited'["zip"][d] \in Nat /\ dropped'["send"][d] \in Nat
  BY DEF DocumentsTypeOK, PerDoc, Kind
<1>3. docJob \in [Process -> DocJobs] /\ docJob' = [docJob EXCEPT ![p] = k]
  BY DEF DocInv, DocumentsTypeOK, Takes
<1>4. /\ Cardinality(Tracers(d)) \in Nat /\ Cardinality(Tracers(d)') \in Nat
      /\ Cardinality(Senders(d)) \in Nat /\ Cardinality(Senders(d)') \in Nat
      /\ Cardinality(Openers(d)) \in Nat /\ Cardinality(Openers(d)') \in Nat
      /\ Cardinality(Tracers(d)') + One(IsTracer(docJob[p], d))
            = Cardinality(Tracers(d)) + One(IsTracer(k, d))
      /\ Cardinality(Senders(d)') + One(IsSender(docJob[p], d))
            = Cardinality(Senders(d)) + One(IsSender(k, d))
      /\ Cardinality(Openers(d)') + One(IsOpener(docJob[p], d))
            = Cardinality(Openers(d)) + One(IsOpener(k, d))
  BY <1>3, Recount, ZenonT(40)
<1>5. /\ One(IsTracer(docJob[p], d)) \in Nat /\ One(IsTracer(k, d)) \in Nat
     /\ One(IsSender(docJob[p], d)) \in Nat /\ One(IsSender(k, d)) \in Nat
     /\ One(IsOpener(docJob[p], d)) \in Nat /\ One(IsOpener(k, d)) \in Nat
  BY DEF One
<1>6. CountedAt(d)
  BY DEF DocInv, Counted
<1>7. saved'[d] = traced'[d] + dropped'["trace"][d] + Cardinality(Tracers(d)')
  <2>1. Cardinality(Tracers(d)) \in Nat /\ Cardinality(Tracers(d)') \in Nat
    BY <1>4
  <2>2. saved'[d] <= traced'[d] + dropped'["trace"][d] + Cardinality(Tracers(d)')
    BY <1>1, <1>2, <1>4, <1>5, <1>6 DEF CountedAt
  <2>3. saved'[d] >= traced'[d] + dropped'["trace"][d] + Cardinality(Tracers(d)')
    BY <1>1, <1>2, <1>4, <1>5, <1>6 DEF CountedAt
  <2>4. QED
    BY <1>2, <2>1, <2>2, <2>3
<1>8. delivered'["file"][d] + Cardinality(Openers(d)') <= audited'["file"][d]
  BY <1>1, <1>2, <1>4, <1>5, <1>6 DEF CountedAt
<1>9. audited'["zip"][d] = delivered'["zip"][d] + dropped'["send"][d] + Cardinality(Senders(d)')
  <2>1. Cardinality(Senders(d)) \in Nat /\ Cardinality(Senders(d)') \in Nat
    BY <1>4
  <2>2. audited'["zip"][d] <= delivered'["zip"][d] + dropped'["send"][d] + Cardinality(Senders(d)')
    BY <1>1, <1>2, <1>4, <1>5, <1>6 DEF CountedAt
  <2>3. audited'["zip"][d] >= delivered'["zip"][d] + dropped'["send"][d] + Cardinality(Senders(d)')
    BY <1>1, <1>2, <1>4, <1>5, <1>6 DEF CountedAt
  <2>4. QED
    BY <1>2, <2>1, <2>2, <2>3
<1>10. QED
  BY <1>7, <1>8, <1>9 DEF CountedAt

\* No count changes, and p's job is counted as before.
LEMMA CountSame ==
    ASSUME DocInv, DocumentsTypeOK', NEW p \in Process, NEW k, Takes(p, k), NEW d \in Doc,
           UNCHANGED docHistory,
           IsTracer(k, d) <=> IsTracer(docJob[p], d), IsSender(k, d) <=> IsSender(docJob[p], d),
           IsOpener(k, d) => IsOpener(docJob[p], d)
    PROVE  CountedAt(d)'
<1>1. /\ saved[d] \in Nat /\ traced[d] \in Nat /\ dropped["trace"][d] \in Nat
      /\ delivered["file"][d] \in Nat /\ audited["file"][d] \in Nat
      /\ delivered["zip"][d] \in Nat /\ audited["zip"][d] \in Nat /\ dropped["send"][d] \in Nat
  BY DEF DocInv, DocumentsTypeOK, PerDoc, Kind
<1>2. /\ One(IsTracer(k, d)) = One(IsTracer(docJob[p], d))
      /\ One(IsSender(k, d)) = One(IsSender(docJob[p], d))
      /\ One(IsOpener(k, d)) <= One(IsOpener(docJob[p], d))
  BY DEF One
<1>3. /\ One(IsTracer(docJob[p], d)) \in Nat /\ One(IsTracer(k, d)) \in Nat
      /\ One(IsSender(docJob[p], d)) \in Nat /\ One(IsSender(k, d)) \in Nat
      /\ One(IsOpener(docJob[p], d)) \in Nat /\ One(IsOpener(k, d)) \in Nat
  BY DEF One
<1>4. deleted[d] <= buried[d]
  BY DEF DocInv, Counted, CountedAt
<1>5. /\ saved'[d] + traced[d] + dropped["trace"][d] + One(IsTracer(docJob[p], d))
            = saved[d] + traced'[d] + dropped'["trace"][d] + One(IsTracer(k, d))
      /\ deleted'[d] <= buried'[d]
      /\ delivered'["file"][d] + audited["file"][d] + One(IsOpener(k, d))
            <= delivered["file"][d] + audited'["file"][d] + One(IsOpener(docJob[p], d))
      /\ audited'["zip"][d] + delivered["zip"][d] + dropped["send"][d] + One(IsSender(docJob[p], d))
            = audited["zip"][d] + delivered'["zip"][d] + dropped'["send"][d] + One(IsSender(k, d))
  BY <1>1, <1>2, <1>3, <1>4 DEF docHistory
<1>6. QED
  BY <1>5, CountAgain

\* Together: the rows, the jobs and the counts give the invariant again.
LEMMA Keeps ==
    ASSUME DocInv, NEW p \in Process, NEW k, Takes(p, k), DocumentsTypeOK', Whole', Fitting(k)',
           \A d \in Doc : Known(d) => Known(d)',
           \A d \in Doc : asked[d] # -1 => asked'[d] = asked[d],
           \A b \in blobs : b \in blobs',
           \A d \in Doc, q \in Process : Uploading(q, d) /\ q # p => (Known(d)' => Known(d)),
           k.op = "upload" => \A q \in Process : q # p /\ docJob[q].op = "upload" => docJob[q].doc # k.doc,
           \A d \in Doc : CountedAt(d)'
    PROVE  DocInv'
<1>1. \A q \in Process : q # p => Fitting(docJob[q])'
  BY OthersFit
<1>2. docJob'[p] = k /\ \A q \in Process : q # p => docJob'[q] = docJob[q]
  BY DEF Takes, DocInv, DocumentsTypeOK
<1>3. \A q \in Process : Fitting(docJob[q])'
  <2>1. Fitting(docJob[p])'
    BY <1>2 DEF Fitting
  <2>2. QED
    BY <1>1, <2>1
<1>4. Fit'
  BY <1>2, <1>3 DEF Fit, DocInv
<1>5. QED
  BY <1>4 DEF DocInv, Takes, Counted

--------------------------------------------------------------------------
(* Steps that change neither the rows nor the trail.                       *)

LEMMA QuietKeeps ==
    ASSUME DocInv, NEW p \in Process, NEW k, Takes(p, k), UNCHANGED <<docTable, docHistory>>,
           k.op # "upload", Fitting(k),
           \A d \in Doc : /\ IsTracer(k, d) <=> IsTracer(docJob[p], d)
                          /\ IsSender(k, d) <=> IsSender(docJob[p], d)
                          /\ IsOpener(k, d) => IsOpener(docJob[p], d)
    PROVE  DocInv'
<1>1. /\ UNCHANGED <<doc, files, blobs, asked, saved, traced, deleted, buried, audited, delivered, dropped>>
      /\ docJob' = [docJob EXCEPT ![p] = k]
  BY DEF Takes, docTable, docHistory
<1>2. DocumentsTypeOK'
  BY <1>1 DEF Takes, DocInv, DocumentsTypeOK
<1>3. \A d \in Doc : Known(d)' <=> Known(d)
  BY <1>1 DEF Known, Present
<1>4. Whole'
  BY <1>1, <1>3 DEF DocInv, Whole, Present
<1>5. Fitting(k)'
  BY <1>1 DEF Fitting, Known, Present
<1>7. \A d \in Doc : CountedAt(d)'
  BY <1>1, <1>2, CountSame
<1>8. QED
  BY <1>1, <1>2, <1>3, <1>4, <1>5, <1>7, Keeps

LEMMA QuietBegins ==
    ASSUME DocInv, UNCHANGED driveVars, NEW p \in Process, NEW k \in DocJobs, DocBegin(p, k),
           UNCHANGED <<docTable, docHistory>>,
           k.op \notin {"upload", "trace"}, Fitting(k),
           k.op = "zip" => k.pc # "send", k.op = "file" => k.pc = "audit"
    PROVE  DocInv'
<1>1. Takes(p, k) /\ docJob[p] = NoDocJob
  BY Begins
<1>2. \A d \in Doc : /\ ~IsTracer(k, d) /\ ~IsTracer(docJob[p], d)
                     /\ ~IsSender(k, d) /\ ~IsSender(docJob[p], d)
                     /\ ~IsOpener(k, d)
  BY <1>1 DEF IsTracer, IsSender, IsOpener, NoDocJob
<1>3. QED
  BY <1>1, <1>2, QuietKeeps

LEMMA QuietEnds ==
    ASSUME DocInv, UNCHANGED driveVars, NEW p \in Process, DocEnd(p),
           UNCHANGED <<docTable, docHistory>>,
           docJob[p].op \notin {"none", "trace"}, docJob[p].op = "zip" => docJob[p].pc # "send"
    PROVE  DocInv'
<1>1. Takes(p, NoDocJob)
  BY Ends
<1>2. \A d \in Doc : /\ ~IsTracer(NoDocJob, d) /\ ~IsTracer(docJob[p], d)
                     /\ ~IsSender(NoDocJob, d) /\ ~IsSender(docJob[p], d)
                     /\ ~IsOpener(NoDocJob, d)
  BY DEF IsTracer, IsSender, IsOpener, NoDocJob
<1>3. Fitting(NoDocJob) /\ NoDocJob.op # "upload"
  BY DEF Fitting, NoDocJob
<1>4. QED
  BY <1>1, <1>2, <1>3, QuietKeeps

LEMMA LoadForPatchDocKeeps ==
    ASSUME DocInv, UNCHANGED driveVars, NEW p \in Process, NEW d \in Doc, LoadForPatchDoc(p, d)
    PROVE  DocInv'
<1>1. PICK yes \in BOOLEAN : DocBegin(p, [op |-> "patch", doc |-> d, new |-> Archived(yes)])
  BY DEF LoadForPatchDoc
<1>2. PICK k : k = [op |-> "patch", doc |-> d, new |-> Archived(yes)]
  OBVIOUS
<1>3. Archived(yes) \in State /\ Archived(yes) # "absent"
  BY DEF Archived, State
<1>4. k \in DocJobs
  BY <1>2, <1>3, JobsTyped
<1>5. k.op = "patch" /\ Fitting(k)
  BY <1>2, <1>3 DEF Fitting, Known, LoadForPatchDoc
<1>6. QED
  BY <1>1, <1>2, <1>4, <1>5, QuietBegins DEF LoadForPatchDoc

LEMMA LoadForDeleteKeeps ==
    ASSUME DocInv, UNCHANGED driveVars, NEW p \in Process, NEW d \in Doc, LoadForDelete(p, d)
    PROVE  DocInv'
<1>1. PICK k : k = [op |-> "delete", doc |-> d]
  OBVIOUS
<1>2. k \in DocJobs
  BY <1>1, JobsTyped
<1>3. k.op = "delete" /\ Fitting(k)
  BY <1>1 DEF Fitting, Known, LoadForDelete
<1>4. QED
  BY <1>1, <1>2, <1>3, QuietBegins DEF LoadForDelete

LEMMA StartZipKeeps ==
    ASSUME DocInv, UNCHANGED driveVars, NEW p \in Process, NEW d \in Doc, StartZip(p, d)
    PROVE  DocInv'
<1>1. PICK k : k = [op |-> "zip", doc |-> d, pc |-> FirstStep("zip")]
  OBVIOUS
<1>2. FirstStep("zip") = "read"
  BY DEF FirstStep, AuditsFirst
<1>3. k \in DocJobs
  BY <1>1, <1>2, JobsTyped DEF Kind
<1>4. k.op = "zip" /\ k.pc = "read" /\ Fitting(k)
  BY <1>1, <1>2 DEF Fitting, Known, StartZip
<1>5. QED
  BY <1>1, <1>3, <1>4, QuietBegins DEF StartZip

LEMMA StartFileKeeps ==
    ASSUME DocInv, UNCHANGED driveVars, NEW p \in Process, NEW d \in Doc, StartFile(p, d)
    PROVE  DocInv'
<1>1. PICK k : k = [op |-> "file", doc |-> d, pc |-> FirstStep("file")]
  OBVIOUS
<1>2. FirstStep("file") = "audit"
  BY DEF FirstStep, AuditsFirst
<1>3. k \in DocJobs
  BY <1>1, <1>2, JobsTyped DEF Kind
<1>4. k.op = "file" /\ k.pc = "audit" /\ Fitting(k)
  BY <1>1, <1>2 DEF Fitting, Known, StartFile
<1>5. QED
  BY <1>1, <1>3, <1>4, QuietBegins DEF StartFile

LEMMA UploadFailsKeeps ==
    ASSUME DocInv, UNCHANGED driveVars, NEW p \in Process, UploadFails(p)
    PROVE  DocInv'
BY QuietEnds DEF UploadFails, Doing

LEMMA ReadFailsKeeps ==
    ASSUME DocInv, UNCHANGED driveVars, NEW p \in Process, ReadFails(p)
    PROVE  DocInv'
BY QuietEnds DEF ReadFails, Kind

\* Where a download goes on.
LEMMA DownloadAt ==
    ASSUME DocInv, NEW p \in Process, docJob[p].op \in Kind,
           NEW pc \in {"read", "audit", "send"}
    PROVE  \E k \in DocJobs : /\ k = [docJob[p] EXCEPT !.pc = pc]
                              /\ k.op = docJob[p].op /\ k.doc = docJob[p].doc /\ k.pc = pc
                              /\ k.doc \in Doc /\ Fitting(k)
<1>1. /\ docJob[p] \in [op : {"zip", "file"}, doc : Doc, pc : {"read", "audit", "send"}]
      /\ Fitting(docJob[p])
  BY JobShape DEF DocInv, DocumentsTypeOK, Fit
<1>2. PICK k : k = [docJob[p] EXCEPT !.pc = pc]
  OBVIOUS
<1>3. /\ k \in [op : {"zip", "file"}, doc : Doc, pc : {"read", "audit", "send"}]
      /\ k.op = docJob[p].op /\ k.doc = docJob[p].doc /\ k.pc = pc
  BY <1>1, <1>2
<1>4. k \in DocJobs
  BY <1>3 DEF DocJobs
<1>5. Fitting(k)
  BY <1>1, <1>3 DEF Fitting, Kind
<1>6. QED
  BY <1>2, <1>3, <1>4, <1>5

LEMMA ReadContentKeeps ==
    ASSUME DocInv, UNCHANGED driveVars, NEW p \in Process, ReadContent(p)
    PROVE  DocInv'
<1>1. /\ docJob[p].op \in Kind /\ docJob[p].pc = "read" /\ docJob[p].op # "none"
      /\ DocGo(p, [docJob[p] EXCEPT !.pc = AfterRead(docJob[p].op)])
      /\ UNCHANGED <<docTable, docHistory>>
  BY DEF ReadContent, Kind
<1>2. /\ AfterRead(docJob[p].op) \in {"read", "audit", "send"}
      /\ docJob[p].op = "zip" => AfterRead(docJob[p].op) = "audit"
  BY DEF AfterRead, AuditsFirst
<1>3. PICK k \in DocJobs : /\ k = [docJob[p] EXCEPT !.pc = AfterRead(docJob[p].op)]
                           /\ k.op = docJob[p].op /\ k.doc = docJob[p].doc
                           /\ k.pc = AfterRead(docJob[p].op) /\ Fitting(k)
  BY <1>1, <1>2, DownloadAt, Zenon
<1>4. Takes(p, k)
  BY <1>1, <1>3, Goes
<1>5. \A d \in Doc : /\ IsTracer(k, d) <=> IsTracer(docJob[p], d)
                     /\ IsSender(k, d) <=> IsSender(docJob[p], d)
                     /\ IsOpener(k, d) => IsOpener(docJob[p], d)
  BY <1>1, <1>2, <1>3 DEF IsTracer, IsSender, IsOpener, Kind
<1>6. k.op # "upload"
  BY <1>1, <1>3 DEF Kind
<1>7. QED
  BY <1>1, <1>3, <1>4, <1>5, <1>6, QuietKeeps

--------------------------------------------------------------------------
(* Uploads and new rows.                                                   *)

\* A step that leaves the rows and the history of deletions alone.
LEMMA KnownSame ==
    ASSUME UNCHANGED <<doc, deleted>>
    PROVE  \A d \in Doc : Known(d)' <=> Known(d)
BY DEF Known, Present

LEMMA StartUploadKeeps ==
    ASSUME DocInv, UNCHANGED driveVars, NEW p \in Process, NEW d \in Doc, NEW n \in FileNo,
           StartUpload(p, d, n)
    PROVE  DocInv'
<1>1. PICK k : k = [op |-> "upload", doc |-> d, size |-> n, stored |-> 0]
  OBVIOUS
<1>2. /\ asked[d] = -1 /\ DocBegin(p, k) /\ asked' = [asked EXCEPT ![d] = n]
      /\ UNCHANGED <<doc, files, blobs, docHistory>>
  BY <1>1 DEF StartUpload
<1>3. MaxFiles \in Nat /\ n \in Nat /\ n >= 1 /\ n <= MaxFiles
  BY DocumentsAssumption DEF FileNo
<1>4. k \in DocJobs
  <2>1. 0 \in 0 .. MaxFiles
    BY <1>3
  <2>2. k \in [op : {"upload"}, doc : Doc, size : FileNo, stored : 0 .. MaxFiles]
    BY <1>1, <2>1
  <2>3. QED
    BY <2>2 DEF DocJobs
<1>5. Takes(p, k) /\ docJob[p] = NoDocJob
  BY <1>2, <1>4, Begins
<1>6. /\ asked \in [Doc -> -1 .. MaxFiles]
      /\ \A e \in Doc : e # d => asked'[e] = asked[e]
      /\ asked'[d] = n
  BY <1>2 DEF DocInv, DocumentsTypeOK
<1>7. DocumentsTypeOK'
  <2>1. asked' \in [Doc -> -1 .. MaxFiles]
    BY <1>2, <1>3, <1>6
  <2>2. QED
    BY <1>2, <1>5, <2>1 DEF DocInv, DocumentsTypeOK, Takes, docHistory
<1>8. \A e \in Doc : Known(e)' <=> Known(e)
  BY <1>2, KnownSame DEF docHistory
<1>9. ~Known(d)
  BY <1>2 DEF DocInv, Whole
<1>10. Whole'
  <2> SUFFICES ASSUME NEW e \in Doc
      PROVE /\ asked'[e] = -1 => ~Known(e)'
            /\ ~Present(e)' => files'[e] = {}
            /\ \A m \in files'[e] : <<e, m>> \in blobs'
            /\ Present(e)' /\ deleted'[e] = 0 => files'[e] = 1 .. asked'[e]
            /\ deleted'[e] > 0 => files'[e] = {}
    BY DEF Whole
  <2>1. /\ asked[e] = -1 => ~Known(e)
        /\ ~Present(e) => files[e] = {}
        /\ \A m \in files[e] : <<e, m>> \in blobs
        /\ Present(e) /\ deleted[e] = 0 => files[e] = 1 .. asked[e]
        /\ deleted[e] > 0 => files[e] = {}
    BY DEF DocInv, Whole
  <2>2. Present(e)' <=> Present(e)
    BY <1>2 DEF Present
  <2>3. CASE e = d
    BY <1>2, <1>3, <1>6, <1>8, <1>9, <2>1, <2>2, <2>3 DEF Known, docHistory
  <2>4. CASE e # d
    BY <1>2, <1>6, <1>8, <2>1, <2>2, <2>4 DEF docHistory
  <2>5. QED
    BY <2>3, <2>4
<1>11. Fitting(k)'
  BY <1>1, <1>3, <1>6, <1>8, <1>9 DEF Fitting
<1>12. \A q \in Process : q # p /\ docJob[q].op = "upload" => docJob[q].doc # d
  BY <1>2, AtUpload DEF FileNo
<1>13. ASSUME NEW e \in Doc PROVE CountedAt(e)'
  <2>1. /\ ~IsTracer(k, e) /\ ~IsSender(k, e) /\ ~IsOpener(k, e)
        /\ ~IsTracer(docJob[p], e) /\ ~IsSender(docJob[p], e)
    BY <1>1, <1>5 DEF IsTracer, IsSender, IsOpener, NoDocJob
  <2>2. QED
    BY <1>2, <1>5, <1>7, <2>1, CountSame
<1>14. k.doc = d /\ \A e \in Doc : asked[e] # -1 => asked'[e] = asked[e]
  BY <1>1, <1>2, <1>6
<1>15. QED
  BY <1>2, <1>5, <1>7, <1>8, <1>10, <1>11, <1>12, <1>13, <1>14, Keeps

LEMMA StoreFileKeeps ==
    ASSUME DocInv, UNCHANGED driveVars, NEW p \in Process, StoreFile(p)
    PROVE  DocInv'
<1>1. PICK j : j = docJob[p]
  OBVIOUS
<1>2. PICK k : k = [j EXCEPT !.stored = @ + 1]
  OBVIOUS
<1>3. /\ j.op = "upload" /\ j.stored < j.size /\ DocGo(p, k)
      /\ blobs' = blobs \cup {<<j.doc, j.stored + 1>>}
      /\ UNCHANGED <<doc, files, asked, docHistory>>
  BY <1>1, <1>2 DEF StoreFile, Doing
<1>4. /\ j.doc \in Doc /\ j.size \in FileNo /\ j.stored \in 0 .. MaxFiles
      /\ ~Known(j.doc) /\ asked[j.doc] = j.size
      /\ \A n \in 1 .. j.stored : <<j.doc, n>> \in blobs
  BY <1>1, <1>3, AtUpload
<1>5. j \in [op : {"upload"}, doc : Doc, size : FileNo, stored : 0 .. MaxFiles]
  BY <1>1, <1>3, JobShape DEF DocInv, DocumentsTypeOK
<1>6. MaxFiles \in Nat /\ j.stored + 1 \in 0 .. MaxFiles /\ j.size \in Nat
  BY <1>3, <1>4, DocumentsAssumption DEF FileNo
<1>7. /\ k \in [op : {"upload"}, doc : Doc, size : FileNo, stored : 0 .. MaxFiles]
      /\ k.op = "upload" /\ k.doc = j.doc /\ k.size = j.size /\ k.stored = j.stored + 1
  BY <1>2, <1>5, <1>6
<1>8. k \in DocJobs
  BY <1>7 DEF DocJobs
<1>9. Takes(p, k)
  BY <1>1, <1>3, <1>8, Goes
<1>10. \A b \in blobs : b \in blobs'
  BY <1>3
<1>11. DocumentsTypeOK'
  <2>1. <<j.doc, j.stored + 1>> \in Doc \X (0 .. MaxFiles)
    BY <1>4, <1>6
  <2>2. blobs' \subseteq Doc \X (0 .. MaxFiles)
    BY <1>3, <2>1, Zenon DEF DocInv, DocumentsTypeOK
  <2>3. QED
    BY <1>3, <1>9, <2>2 DEF DocInv, DocumentsTypeOK, Takes, docHistory
<1>12. \A e \in Doc : Known(e)' <=> Known(e)
  BY <1>3, KnownSame DEF docHistory
<1>13. Whole'
  BY <1>3, <1>10, <1>12 DEF DocInv, Whole, Present, docHistory
<1>14. Fitting(k)'
  <2>1. ASSUME NEW n \in 1 .. k.stored PROVE <<k.doc, n>> \in blobs'
    <3>1. CASE n = j.stored + 1
      BY <1>3, <1>7, <3>1
    <3>2. CASE n # j.stored + 1
      <4>1. n \in 1 .. j.stored
        BY <1>4, <1>6, <1>7, <3>2
      <4>2. QED
        BY <1>4, <1>7, <1>10, <4>1
    <3>3. QED
      BY <3>1, <3>2
  <2>2. k.stored <= k.size
    BY <1>3, <1>4, <1>6, <1>7
  <2>3. QED
    BY <1>3, <1>4, <1>7, <1>12, <2>1, <2>2 DEF Fitting
<1>15. \A q \in Process : q # p /\ docJob[q].op = "upload" => docJob[q].doc # k.doc
  BY <1>1, <1>3, <1>7 DEF DocInv, Fit
<1>16. ASSUME NEW e \in Doc PROVE CountedAt(e)'
  <2>1. /\ ~IsTracer(k, e) /\ ~IsSender(k, e) /\ ~IsOpener(k, e)
        /\ ~IsTracer(docJob[p], e) /\ ~IsSender(docJob[p], e)
    BY <1>1, <1>3, <1>7 DEF IsTracer, IsSender, IsOpener
  <2>2. QED
    BY <1>3, <1>9, <1>11, <2>1, CountSame
<1>17. \A e \in Doc : asked[e] # -1 => asked'[e] = asked[e]
  BY <1>3
<1>18. QED
  BY <1>9, <1>10, <1>11, <1>12, <1>13, <1>14, <1>15, <1>16, <1>17, Keeps

LEMMA CommitUploadKeeps ==
    ASSUME DocInv, UNCHANGED driveVars, NEW p \in Process, CommitUpload(p)
    PROVE  DocInv'
<1>1. PICK j : j = docJob[p]
  OBVIOUS
<1>2. PICK d : d = j.doc
  OBVIOUS
<1>3. /\ j.op = "upload" /\ j.stored = j.size /\ DocEnd(p)
      /\ doc' = [doc EXCEPT ![d] = "live"] /\ files' = [files EXCEPT ![d] = 1 .. j.size]
      /\ saved' = OneMore(saved, d) /\ traced' = OneMore(traced, d)
      /\ UNCHANGED <<blobs, asked, deleted, buried, audited, delivered, dropped>>
  BY <1>1, <1>2 DEF CommitUpload, Doing, AllStored, downloadVars
<1>4. /\ d \in Doc /\ j.size \in FileNo /\ ~Known(d) /\ asked[d] = j.size
      /\ \A n \in 1 .. j.size : <<d, n>> \in blobs
  BY <1>1, <1>2, <1>3, AtUpload
<1>5. Takes(p, NoDocJob)
  BY <1>1, <1>3, Ends
<1>6. /\ doc \in [Doc -> State] /\ files \in [Doc -> SUBSET FileNo] /\ saved \in PerDoc /\ traced \in PerDoc
      /\ MaxFiles \in Nat /\ deleted \in [Doc -> Nat]
  BY DocumentsAssumption DEF DocInv, DocumentsTypeOK, PerDoc
<1>7. /\ saved' \in PerDoc /\ saved'[d] = saved[d] + 1 /\ \A e \in Doc : e # d => saved'[e] = saved[e]
      /\ traced' \in PerDoc /\ traced'[d] = traced[d] + 1 /\ \A e \in Doc : e # d => traced'[e] = traced[e]
  BY <1>3, <1>4, <1>6, OneMoreFacts
<1>8. DocumentsTypeOK'
  <2>1. doc' \in [Doc -> State]
    BY <1>3, <1>6 DEF State
  <2>2. 1 .. j.size \in SUBSET FileNo
    BY <1>4, <1>6 DEF FileNo
  <2>3. files' \in [Doc -> SUBSET FileNo]
    BY <1>3, <1>6, <2>2
  <2>4. QED
    BY <1>3, <1>5, <1>7, <2>1, <2>3 DEF DocInv, DocumentsTypeOK, Takes
<1>9. /\ Present(d)' /\ Known(d)' /\ \A e \in Doc : e # d => (Present(e)' <=> Present(e))
      /\ \A e \in Doc : e # d => (Known(e)' <=> Known(e))
  BY <1>3, <1>4, <1>6 DEF Present, Known
<1>10. deleted[d] = 0
  BY <1>4, <1>6 DEF Known
<1>11. Whole'
  <2> SUFFICES ASSUME NEW e \in Doc
      PROVE /\ asked'[e] = -1 => ~Known(e)'
            /\ ~Present(e)' => files'[e] = {}
            /\ \A m \in files'[e] : <<e, m>> \in blobs'
            /\ Present(e)' /\ deleted'[e] = 0 => files'[e] = 1 .. asked'[e]
            /\ deleted'[e] > 0 => files'[e] = {}
    BY DEF Whole
  <2>1. CASE e = d
    <3>1. files'[d] = 1 .. j.size /\ asked'[d] # -1
      BY <1>3, <1>4, <1>6 DEF FileNo
    <3>2. \A m \in files'[d] : <<d, m>> \in blobs'
      BY <1>3, <1>4, <3>1
    <3>3. /\ ~(asked'[d] = -1) /\ Present(d)' /\ files'[d] = 1 .. asked'[d]
          /\ ~(deleted'[d] > 0)
      BY <1>3, <1>4, <1>9, <1>10, <3>1
    <3>4. /\ asked'[d] = -1 => ~Known(d)'
          /\ ~Present(d)' => files'[d] = {}
          /\ \A m \in files'[d] : <<d, m>> \in blobs'
          /\ Present(d)' /\ deleted'[d] = 0 => files'[d] = 1 .. asked'[d]
          /\ deleted'[d] > 0 => files'[d] = {}
      BY <3>2, <3>3
    <3>5. QED
      BY <2>1, <3>4, Zenon
  <2>2. CASE e # d
    <3>1. files'[e] = files[e]
      BY <1>3, <1>6, <2>2
    <3>2. QED
      BY <1>3, <1>9, <2>2, <3>1 DEF DocInv, Whole
  <2>3. QED
    BY <2>1, <2>2
<1>12. ASSUME NEW e \in Doc, NEW q \in Process, Uploading(q, e), q # p
       PROVE  Known(e)' => Known(e)
  <2>1. e # d
    BY <1>1, <1>2, <1>3, <1>12 DEF DocInv, Fit, Uploading
  <2>2. QED
    BY <1>9, <2>1
<1>13. ASSUME NEW e \in Doc PROVE CountedAt(e)'
  <2>1. /\ ~IsTracer(docJob[p], e) /\ ~IsSender(docJob[p], e) /\ ~IsOpener(docJob[p], e)
        /\ ~IsTracer(NoDocJob, e) /\ ~IsSender(NoDocJob, e) /\ ~IsOpener(NoDocJob, e)
    BY <1>1, <1>3 DEF IsTracer, IsSender, IsOpener, NoDocJob
  <2>2. /\ saved[e] \in Nat /\ traced[e] \in Nat /\ dropped["trace"][e] \in Nat
        /\ delivered["file"][e] \in Nat /\ audited["file"][e] \in Nat
        /\ delivered["zip"][e] \in Nat /\ audited["zip"][e] \in Nat /\ dropped["send"][e] \in Nat
    BY DEF DocInv, DocumentsTypeOK, PerDoc, Kind
  <2>3. /\ One(IsTracer(docJob[p], e)) = 0 /\ One(IsSender(docJob[p], e)) = 0
        /\ One(IsOpener(docJob[p], e)) = 0 /\ One(IsTracer(NoDocJob, e)) = 0
        /\ One(IsSender(NoDocJob, e)) = 0 /\ One(IsOpener(NoDocJob, e)) = 0
    BY <2>1 DEF One
  <2>4. deleted'[e] <= buried'[e]
    BY <1>3 DEF DocInv, Counted, CountedAt
  <2>5. saved'[e] + traced[e] = saved[e] + traced'[e]
    BY <1>7, <2>2
  <2>6. saved'[e] \in Nat /\ traced'[e] \in Nat
    BY <1>7 DEF PerDoc
  <2>7. /\ saved'[e] + traced[e] + dropped["trace"][e] + One(IsTracer(docJob[p], e))
              = saved[e] + traced'[e] + dropped'["trace"][e] + One(IsTracer(NoDocJob, e))
        /\ delivered'["file"][e] + audited["file"][e] + One(IsOpener(NoDocJob, e))
              <= delivered["file"][e] + audited'["file"][e] + One(IsOpener(docJob[p], e))
        /\ audited'["zip"][e] + delivered["zip"][e] + dropped["send"][e] + One(IsSender(docJob[p], e))
              = audited["zip"][e] + delivered'["zip"][e] + dropped'["send"][e] + One(IsSender(NoDocJob, e))
    BY <1>3, <2>2, <2>3, <2>5, <2>6
  <2>8. QED
    BY <1>5, <1>8, <2>4, <2>7, CountAgain
<1>14. /\ \A e \in Doc : Known(e) => Known(e)'
       /\ \A e \in Doc : asked[e] # -1 => asked'[e] = asked[e]
       /\ \A b \in blobs : b \in blobs'
  BY <1>3, <1>9
<1>15. Fitting(NoDocJob)' /\ NoDocJob.op # "upload"
  BY DEF Fitting, NoDocJob
<1>16. QED
  BY <1>5, <1>8, <1>11, <1>12, <1>13, <1>14, <1>15, Keeps

LEMMA PostDocumentKeeps ==
    ASSUME DocInv, UNCHANGED driveVars, NEW p \in Process, NEW d \in Doc, NEW withFile \in BOOLEAN,
           PostDocument(p, d, withFile)
    PROVE  DocInv'
<1>1. PICK k : k = [op |-> "trace", doc |-> d]
  OBVIOUS
<1>2. /\ asked[d] = -1 /\ DocBegin(p, k)
      /\ doc' = [doc EXCEPT ![d] = "live"] /\ asked' = [asked EXCEPT ![d] = 0]
      /\ saved' = OneMore(saved, d)
      /\ UNCHANGED <<files, traced, deleted, buried, audited, delivered, dropped>>
  BY <1>1 DEF PostDocument, downloadVars
<1>3. k \in DocJobs /\ k.op = "trace" /\ k.doc = d
  BY <1>1, JobsTyped
<1>4. Takes(p, k) /\ docJob[p] = NoDocJob
  BY <1>2, <1>3, Begins
<1>5. /\ doc \in [Doc -> State] /\ saved \in PerDoc /\ asked \in [Doc -> -1 .. MaxFiles]
      /\ MaxFiles \in Nat /\ MaxFiles >= 1 /\ deleted \in [Doc -> Nat]
  BY DocumentsAssumption DEF DocInv, DocumentsTypeOK, PerDoc
<1>6. saved' \in PerDoc /\ saved'[d] = saved[d] + 1 /\ \A e \in Doc : e # d => saved'[e] = saved[e]
  BY <1>2, <1>5, OneMoreFacts
<1>7. \A b \in blobs : b \in blobs'
  BY DEF PostDocument
<1>8. DocumentsTypeOK'
  <2>1. doc' \in [Doc -> State]
    BY <1>2, <1>5 DEF State
  <2>2. asked' \in [Doc -> -1 .. MaxFiles]
    BY <1>2, <1>5
  <2>3. <<d, 0>> \in Doc \X (0 .. MaxFiles)
    BY <1>5
  <2>4. blobs' \subseteq Doc \X (0 .. MaxFiles)
    BY <2>3, Zenon DEF DocInv, DocumentsTypeOK, PostDocument
  <2>5. QED
    BY <1>2, <1>4, <1>6, <2>1, <2>2, <2>4 DEF DocInv, DocumentsTypeOK, Takes
<1>9. ~Known(d) /\ files[d] = {}
  BY <1>2 DEF DocInv, Whole, Known
<1>10. /\ Present(d)' /\ Known(d)' /\ \A e \in Doc : e # d => (Present(e)' <=> Present(e))
       /\ \A e \in Doc : e # d => (Known(e)' <=> Known(e))
  BY <1>2, <1>5 DEF Present, Known
<1>11. deleted[d] = 0
  BY <1>5, <1>9 DEF Known
<1>12. Whole'
  <2> SUFFICES ASSUME NEW e \in Doc
      PROVE /\ asked'[e] = -1 => ~Known(e)'
            /\ ~Present(e)' => files'[e] = {}
            /\ \A m \in files'[e] : <<e, m>> \in blobs'
            /\ Present(e)' /\ deleted'[e] = 0 => files'[e] = 1 .. asked'[e]
            /\ deleted'[e] > 0 => files'[e] = {}
    BY DEF Whole
  <2>1. CASE e = d
    <3>1. files'[d] = {} /\ asked'[d] = 0 /\ files'[d] = 1 .. asked'[d]
      BY <1>2, <1>5, <1>9
    <3>2. QED
      BY <1>10, <2>1, <3>1
  <2>2. CASE e # d
    <3>1. files'[e] = files[e] /\ asked'[e] = asked[e]
      BY <1>2, <1>5, <2>2
    <3>2. QED
      BY <1>2, <1>7, <1>10, <2>2, <3>1 DEF DocInv, Whole
  <2>3. QED
    BY <2>1, <2>2
<1>13. ASSUME NEW e \in Doc, NEW q \in Process, Uploading(q, e), q # p
       PROVE  Known(e)' => Known(e)
  <2>1. e # d
    BY <1>2, <1>13, AtUpload DEF FileNo, Uploading
  <2>2. QED
    BY <1>10, <2>1
<1>14. ASSUME NEW e \in Doc PROVE CountedAt(e)'
  <2>1. /\ ~IsTracer(docJob[p], e) /\ ~IsSender(docJob[p], e) /\ ~IsOpener(docJob[p], e)
        /\ ~IsSender(k, e) /\ ~IsOpener(k, e)
    BY <1>3, <1>4 DEF IsTracer, IsSender, IsOpener, NoDocJob
  <2>2. /\ saved[e] \in Nat /\ traced[e] \in Nat /\ dropped["trace"][e] \in Nat
        /\ delivered["file"][e] \in Nat /\ audited["file"][e] \in Nat
        /\ delivered["zip"][e] \in Nat /\ audited["zip"][e] \in Nat /\ dropped["send"][e] \in Nat
    BY DEF DocInv, DocumentsTypeOK, PerDoc, Kind
  <2>3. /\ One(IsTracer(docJob[p], e)) = 0 /\ One(IsSender(docJob[p], e)) = 0
        /\ One(IsOpener(docJob[p], e)) = 0 /\ One(IsSender(k, e)) = 0 /\ One(IsOpener(k, e)) = 0
    BY <2>1 DEF One
  <2>4. deleted'[e] <= buried'[e]
    BY <1>2 DEF DocInv, Counted, CountedAt
  <2>5. saved'[e] = saved[e] + One(IsTracer(k, e))
    BY <1>3, <1>6, <2>2 DEF IsTracer, One
  <2>6. One(IsTracer(k, e)) \in Nat
    BY DEF One
  <2>7. /\ saved'[e] + traced[e] + dropped["trace"][e] + One(IsTracer(docJob[p], e))
              = saved[e] + traced'[e] + dropped'["trace"][e] + One(IsTracer(k, e))
        /\ delivered'["file"][e] + audited["file"][e] + One(IsOpener(k, e))
              <= delivered["file"][e] + audited'["file"][e] + One(IsOpener(docJob[p], e))
        /\ audited'["zip"][e] + delivered["zip"][e] + dropped["send"][e] + One(IsSender(docJob[p], e))
              = audited["zip"][e] + delivered'["zip"][e] + dropped'["send"][e] + One(IsSender(k, e))
    BY <1>2, <2>2, <2>3, <2>5, <2>6
  <2>8. QED
    BY <1>4, <1>8, <2>4, <2>7, CountAgain
<1>15. /\ \A e \in Doc : Known(e) => Known(e)'
       /\ \A e \in Doc : asked[e] # -1 => asked'[e] = asked[e]
  BY <1>2, <1>5, <1>10
<1>16. Fitting(k)'
  BY <1>3, <1>10 DEF Fitting
<1>17. QED
  BY <1>3, <1>4, <1>7, <1>8, <1>12, <1>13, <1>14, <1>15, <1>16, Keeps

--------------------------------------------------------------------------
(* The trail, and changes of a row.                                        *)

LEMMA TraceKeeps ==
    ASSUME DocInv, UNCHANGED driveVars, NEW p \in Process, Trace(p)
    PROVE  DocInv'
<1>1. PICK j : j = docJob[p]
  OBVIOUS
<1>2. PICK d : d = j.doc
  OBVIOUS
<1>3. /\ j.op = "trace" /\ DocEnd(p) /\ traced' = OneMore(traced, d)
      /\ UNCHANGED <<docTable, saved, deleted, buried, audited, delivered, dropped>>
  BY <1>1, <1>2 DEF Trace, Doing, downloadVars
<1>4. d \in Doc
  BY <1>1, <1>2, <1>3, JobShape DEF DocInv, DocumentsTypeOK
<1>5. Takes(p, NoDocJob)
  BY <1>1, <1>3, Ends
<1>6. traced' \in PerDoc /\ traced'[d] = traced[d] + 1 /\ \A e \in Doc : e # d => traced'[e] = traced[e]
  BY <1>3, <1>4, OneMoreFacts DEF DocInv, DocumentsTypeOK
<1>7. DocumentsTypeOK'
  BY <1>3, <1>5, <1>6 DEF DocInv, DocumentsTypeOK, Takes, docTable
<1>8. \A e \in Doc : Known(e)' <=> Known(e)
  BY <1>3, KnownSame DEF docTable
<1>9. Whole'
  BY <1>3, <1>8 DEF DocInv, Whole, Present, docTable
<1>10. ASSUME NEW e \in Doc PROVE CountedAt(e)'
  <2>1. /\ ~IsSender(docJob[p], e) /\ ~IsOpener(docJob[p], e)
        /\ ~IsTracer(NoDocJob, e) /\ ~IsSender(NoDocJob, e) /\ ~IsOpener(NoDocJob, e)
    BY <1>1, <1>3 DEF IsTracer, IsSender, IsOpener, NoDocJob
  <2>2. /\ saved[e] \in Nat /\ traced[e] \in Nat /\ dropped["trace"][e] \in Nat
        /\ delivered["file"][e] \in Nat /\ audited["file"][e] \in Nat
        /\ delivered["zip"][e] \in Nat /\ audited["zip"][e] \in Nat /\ dropped["send"][e] \in Nat
    BY DEF DocInv, DocumentsTypeOK, PerDoc, Kind
  <2>3. /\ One(IsSender(docJob[p], e)) = 0 /\ One(IsOpener(docJob[p], e)) = 0
        /\ One(IsTracer(NoDocJob, e)) = 0 /\ One(IsSender(NoDocJob, e)) = 0
        /\ One(IsOpener(NoDocJob, e)) = 0
    BY <2>1 DEF One
  <2>4. deleted'[e] <= buried'[e]
    BY <1>3 DEF DocInv, Counted, CountedAt
  <2>5. traced'[e] = traced[e] + One(IsTracer(docJob[p], e))
    BY <1>1, <1>2, <1>3, <1>6, <2>2 DEF IsTracer, One
  <2>6. One(IsTracer(docJob[p], e)) \in Nat
    BY DEF One
  <2>7. /\ saved'[e] + traced[e] + dropped["trace"][e] + One(IsTracer(docJob[p], e))
              = saved[e] + traced'[e] + dropped'["trace"][e] + One(IsTracer(NoDocJob, e))
        /\ delivered'["file"][e] + audited["file"][e] + One(IsOpener(NoDocJob, e))
              <= delivered["file"][e] + audited'["file"][e] + One(IsOpener(docJob[p], e))
        /\ audited'["zip"][e] + delivered["zip"][e] + dropped["send"][e] + One(IsSender(docJob[p], e))
              = audited["zip"][e] + delivered'["zip"][e] + dropped'["send"][e] + One(IsSender(NoDocJob, e))
    BY <1>3, <2>2, <2>3, <2>5, <2>6
  <2>8. QED
    BY <1>5, <1>7, <2>4, <2>7, CountAgain
<1>11. Fitting(NoDocJob)' /\ NoDocJob.op # "upload"
  BY DEF Fitting, NoDocJob
<1>12. asked' = asked /\ blobs' = blobs
  BY <1>3 DEF docTable
<1>13. QED
  BY <1>5, <1>7, <1>8, <1>9, <1>10, <1>11, <1>12, Keeps

LEMMA SavePatchDocKeeps ==
    ASSUME DocInv, UNCHANGED driveVars, NEW p \in Process, SavePatchDoc(p)
    PROVE  DocInv'
<1>1. PICK j : j = docJob[p]
  OBVIOUS
<1>2. /\ j.op = "patch" /\ DocGo(p, [op |-> "trace", doc |-> j.doc])
      /\ doc' = [doc EXCEPT ![j.doc] = j.new] /\ saved' = OneMore(saved, j.doc)
      /\ UNCHANGED <<files, blobs, asked, traced, deleted, buried, audited, delivered, dropped>>
  BY <1>1 DEF SavePatchDoc, Doing, downloadVars
<1>3. PICK d : d = j.doc
  OBVIOUS
<1>4. PICK k : k = [op |-> "trace", doc |-> d]
  OBVIOUS
<1>5. j \in DocJobs /\ j.op # "none" /\ d \in Doc /\ j.new \in State
  BY <1>1, <1>2, <1>3, JobShape DEF DocInv, DocumentsTypeOK
<1>6. Known(d) /\ j.new # "absent"
  BY <1>1, <1>2, <1>3, Zenon DEF DocInv, Fit, Fitting
<1>7. k \in DocJobs /\ k.op = "trace" /\ k.doc = d
  BY <1>4, <1>5, JobsTyped
<1>8. Takes(p, k)
  BY <1>1, <1>2, <1>3, <1>4, <1>5, <1>7, Goes
<1>9. /\ doc \in [Doc -> State] /\ saved \in PerDoc /\ asked \in [Doc -> -1 .. MaxFiles]
      /\ deleted \in [Doc -> Nat]
  BY DEF DocInv, DocumentsTypeOK, PerDoc
<1>10. saved' \in PerDoc /\ saved'[d] = saved[d] + 1 /\ \A e \in Doc : e # d => saved'[e] = saved[e]
  BY <1>2, <1>3, <1>5, <1>9, OneMoreFacts
<1>11. DocumentsTypeOK'
  <2>1. doc' \in [Doc -> State]
    BY <1>2, <1>3, <1>5, <1>9
  <2>2. QED
    BY <1>2, <1>8, <1>10, <2>1 DEF DocInv, DocumentsTypeOK, Takes
<1>12. /\ Present(d)' /\ \A e \in Doc : e # d => (Present(e)' <=> Present(e))
       /\ \A e \in Doc : Known(e)' <=> Known(e)
  BY <1>2, <1>3, <1>5, <1>6, <1>9 DEF Present, Known
<1>13. deleted[d] = 0 => Present(d)
  BY <1>6, <1>9 DEF Known
<1>14. Whole'
  <2> SUFFICES ASSUME NEW e \in Doc
      PROVE /\ asked'[e] = -1 => ~Known(e)'
            /\ ~Present(e)' => files'[e] = {}
            /\ \A m \in files'[e] : <<e, m>> \in blobs'
            /\ Present(e)' /\ deleted'[e] = 0 => files'[e] = 1 .. asked'[e]
            /\ deleted'[e] > 0 => files'[e] = {}
    BY DEF Whole
  <2>1. /\ asked[e] = -1 => ~Known(e)
        /\ ~Present(e) => files[e] = {}
        /\ \A m \in files[e] : <<e, m>> \in blobs
        /\ Present(e) /\ deleted[e] = 0 => files[e] = 1 .. asked[e]
        /\ deleted[e] > 0 => files[e] = {}
    BY DEF DocInv, Whole
  <2>2. (Present(e) => Present(e)') /\ (Present(e)' /\ deleted[e] = 0 => Present(e))
    BY <1>12, <1>13
  <2>3. QED
    BY <1>2, <1>12, <2>1, <2>2
<1>15. ASSUME NEW e \in Doc PROVE CountedAt(e)'
  <2>1. /\ ~IsTracer(docJob[p], e) /\ ~IsSender(docJob[p], e) /\ ~IsOpener(docJob[p], e)
        /\ ~IsSender(k, e) /\ ~IsOpener(k, e)
    BY <1>1, <1>2, <1>7 DEF IsTracer, IsSender, IsOpener
  <2>2. /\ saved[e] \in Nat /\ traced[e] \in Nat /\ dropped["trace"][e] \in Nat
        /\ delivered["file"][e] \in Nat /\ audited["file"][e] \in Nat
        /\ delivered["zip"][e] \in Nat /\ audited["zip"][e] \in Nat /\ dropped["send"][e] \in Nat
    BY DEF DocInv, DocumentsTypeOK, PerDoc, Kind
  <2>3. /\ One(IsTracer(docJob[p], e)) = 0 /\ One(IsSender(docJob[p], e)) = 0
        /\ One(IsOpener(docJob[p], e)) = 0 /\ One(IsSender(k, e)) = 0 /\ One(IsOpener(k, e)) = 0
    BY <2>1 DEF One
  <2>4. deleted'[e] <= buried'[e]
    BY <1>2 DEF DocInv, Counted, CountedAt
  <2>5. saved'[e] = saved[e] + One(IsTracer(k, e))
    BY <1>7, <1>10, <2>2 DEF IsTracer, One
  <2>6. One(IsTracer(k, e)) \in Nat
    BY DEF One
  <2>7. /\ saved'[e] + traced[e] + dropped["trace"][e] + One(IsTracer(docJob[p], e))
              = saved[e] + traced'[e] + dropped'["trace"][e] + One(IsTracer(k, e))
        /\ delivered'["file"][e] + audited["file"][e] + One(IsOpener(k, e))
              <= delivered["file"][e] + audited'["file"][e] + One(IsOpener(docJob[p], e))
        /\ audited'["zip"][e] + delivered["zip"][e] + dropped["send"][e] + One(IsSender(docJob[p], e))
              = audited["zip"][e] + delivered'["zip"][e] + dropped'["send"][e] + One(IsSender(k, e))
    BY <1>2, <2>2, <2>3, <2>5, <2>6
  <2>8. QED
    BY <1>8, <1>11, <2>4, <2>7, CountAgain
<1>16. Fitting(k)'
  BY <1>5, <1>6, <1>7, <1>12 DEF Fitting
<1>17. QED
  BY <1>2, <1>7, <1>8, <1>11, <1>12, <1>14, <1>15, <1>16, Keeps

--------------------------------------------------------------------------
(* Deletion.                                                               *)

LEMMA DeleteDocumentKeeps ==
    ASSUME DocInv, UNCHANGED driveVars, NEW p \in Process, DeleteDocument(p)
    PROVE  DocInv'
<1>1. PICK d : d = docJob[p].doc
  OBVIOUS
<1>2. docJob[p].op = "delete" /\ DocEnd(p) /\ Remove(d) /\ Bury(d)
  BY <1>1 DEF DeleteDocument, Doing
<1>3. UNCHANGED <<blobs, asked, saved, traced, audited, delivered, dropped>>
  BY DEF DeleteDocument, downloadVars
<1>4. /\ d \in Doc /\ Takes(p, NoDocJob)
      /\ doc \in [Doc -> State] /\ files \in [Doc -> SUBSET FileNo]
      /\ deleted \in PerDoc /\ buried \in PerDoc
  BY <1>1, <1>2, JobShape, Ends DEF DocInv, DocumentsTypeOK
<1>5. /\ doc' = [doc EXCEPT ![d] = "absent"] /\ files' = [files EXCEPT ![d] = {}]
      /\ deleted' \in PerDoc
      /\ deleted'[d] = IF Present(d) THEN deleted[d] + 1 ELSE deleted[d]
      /\ \A e \in Doc : e # d => deleted'[e] = deleted[e]
  BY <1>2, <1>4, OneMoreFacts DEF Remove
<1>6. /\ buried' \in PerDoc /\ buried'[d] = buried[d] + 1
      /\ \A e \in Doc : e # d => buried'[e] = buried[e]
  BY <1>2, <1>4, OneMoreFacts DEF Bury
<1>7. DocumentsTypeOK'
  <2>1. doc' \in [Doc -> State]
    BY <1>4, <1>5 DEF State
  <2>2. files' \in [Doc -> SUBSET FileNo]
    BY <1>4, <1>5
  <2>3. QED
    BY <1>3, <1>4, <1>5, <1>6, <2>1, <2>2 DEF DocInv, DocumentsTypeOK, Takes
<1>8. ASSUME NEW e \in Doc
      PROVE  /\ Present(e)' <=> (Present(e) /\ e # d)
             /\ Known(e)' <=> Known(e)
             /\ e = d => files'[e] = {}
             /\ e # d => files'[e] = files[e] /\ deleted'[e] = deleted[e]
             /\ deleted'[e] <= buried'[e]
  <2>1. deleted[e] \in Nat /\ buried[e] \in Nat /\ deleted[e] <= buried[e]
    BY <1>4 DEF DocInv, Counted, CountedAt, PerDoc
  <2>2. CASE e = d
    <3>1. deleted'[d] <= buried'[d]
      BY <1>5, <1>6, <2>1, <2>2
    <3>2. Known(d) /\ ~Present(d)' /\ Known(d)'
      BY <1>1, <1>2, <1>4, <1>5, <2>1, <2>2 DEF DocInv, Fit, Fitting, Present, Known
    <3>3. QED
      BY <1>4, <1>5, <2>2, <3>1, <3>2
  <2>3. CASE e # d
    BY <1>4, <1>5, <1>6, <2>1, <2>3 DEF Present, Known
  <2>4. QED
    BY <2>2, <2>3
<1>9. Whole'
  <2> SUFFICES ASSUME NEW e \in Doc
      PROVE /\ asked'[e] = -1 => ~Known(e)'
            /\ ~Present(e)' => files'[e] = {}
            /\ \A m \in files'[e] : <<e, m>> \in blobs'
            /\ Present(e)' /\ deleted'[e] = 0 => files'[e] = 1 .. asked'[e]
            /\ deleted'[e] > 0 => files'[e] = {}
    BY DEF Whole
  <2>1. /\ asked[e] = -1 => ~Known(e)
        /\ ~Present(e) => files[e] = {}
        /\ \A m \in files[e] : <<e, m>> \in blobs
        /\ Present(e) /\ deleted[e] = 0 => files[e] = 1 .. asked[e]
        /\ deleted[e] > 0 => files[e] = {}
    BY DEF DocInv, Whole
  <2>2. CASE e = d
    BY <1>3, <1>8, <2>1, <2>2
  <2>3. CASE e # d
    BY <1>3, <1>8, <2>1, <2>3
  <2>4. QED
    BY <2>2, <2>3
<1>10. ASSUME NEW e \in Doc PROVE CountedAt(e)'
  <2>1. /\ ~IsTracer(docJob[p], e) /\ ~IsSender(docJob[p], e) /\ ~IsOpener(docJob[p], e)
        /\ ~IsTracer(NoDocJob, e) /\ ~IsSender(NoDocJob, e) /\ ~IsOpener(NoDocJob, e)
    BY <1>2 DEF IsTracer, IsSender, IsOpener, NoDocJob
  <2>2. /\ saved[e] \in Nat /\ traced[e] \in Nat /\ dropped["trace"][e] \in Nat
        /\ delivered["file"][e] \in Nat /\ audited["file"][e] \in Nat
        /\ delivered["zip"][e] \in Nat /\ audited["zip"][e] \in Nat /\ dropped["send"][e] \in Nat
    BY DEF DocInv, DocumentsTypeOK, PerDoc, Kind
  <2>3. /\ One(IsTracer(docJob[p], e)) = 0 /\ One(IsSender(docJob[p], e)) = 0
        /\ One(IsOpener(docJob[p], e)) = 0 /\ One(IsTracer(NoDocJob, e)) = 0
        /\ One(IsSender(NoDocJob, e)) = 0 /\ One(IsOpener(NoDocJob, e)) = 0
    BY <2>1 DEF One
  <2>4. deleted'[e] <= buried'[e]
    BY <1>8
  <2>5. /\ saved'[e] + traced[e] + dropped["trace"][e] + One(IsTracer(docJob[p], e))
              = saved[e] + traced'[e] + dropped'["trace"][e] + One(IsTracer(NoDocJob, e))
        /\ delivered'["file"][e] + audited["file"][e] + One(IsOpener(NoDocJob, e))
              <= delivered["file"][e] + audited'["file"][e] + One(IsOpener(docJob[p], e))
        /\ audited'["zip"][e] + delivered["zip"][e] + dropped["send"][e] + One(IsSender(docJob[p], e))
              = audited["zip"][e] + delivered'["zip"][e] + dropped'["send"][e] + One(IsSender(NoDocJob, e))
    BY <1>3, <2>2, <2>3
  <2>6. QED
    BY <1>4, <1>7, <2>4, <2>5, CountAgain
<1>11. Fitting(NoDocJob)' /\ NoDocJob.op # "upload"
  BY DEF Fitting, NoDocJob
<1>12. \A e \in Doc : Known(e)' <=> Known(e)
  BY <1>8
<1>13. asked' = asked /\ blobs' = blobs
  BY <1>3
<1>14. QED
  BY <1>4, <1>7, <1>9, <1>10, <1>11, <1>12, <1>13, Keeps

--------------------------------------------------------------------------
(* Downloads.                                                              *)

LEMMA AuditDownloadKeeps ==
    ASSUME DocInv, UNCHANGED driveVars, NEW p \in Process, AuditDownload(p)
    PROVE  DocInv'
<1>1. PICK j : j = docJob[p]
  OBVIOUS
<1>2. PICK d : d = j.doc
  OBVIOUS
<1>3. /\ j.op \in Kind /\ j.pc = "audit" /\ j.op # "none"
      /\ audited' = [audited EXCEPT ![j.op] = OneMore(@, d)]
      /\ DocGo(p, [docJob[p] EXCEPT !.pc = AfterAudit(docJob[p].op)])
      /\ UNCHANGED <<docTable, saved, traced, deleted, buried, delivered, dropped>>
  BY <1>1, <1>2 DEF AuditDownload, Kind, trailVars
<1>4. /\ AfterAudit(j.op) \in {"read", "audit", "send"}
      /\ j.op = "zip" => AfterAudit(j.op) = "send"
      /\ j.op = "file" => AfterAudit(j.op) = "read"
  BY DEF AfterAudit, AuditsFirst
<1>5. PICK k \in DocJobs : /\ k = [docJob[p] EXCEPT !.pc = AfterAudit(docJob[p].op)]
                           /\ k.op = docJob[p].op /\ k.doc = docJob[p].doc
                           /\ k.pc = AfterAudit(docJob[p].op)
                           /\ k.doc \in Doc /\ Fitting(k)
  BY <1>1, <1>3, <1>4, DownloadAt, Zenon
<1>6. Takes(p, k)
  BY <1>1, <1>3, <1>5, Goes
<1>7. /\ k.op = j.op /\ k.doc = d /\ d \in Doc
      /\ j.op = "zip" => k.pc = "send"
      /\ j.op = "file" => k.pc = "read"
  BY <1>1, <1>2, <1>4, <1>5
<1>8. audited \in [Kind -> PerDoc]
  BY DEF DocInv, DocumentsTypeOK
<1>9. PICK count \in PerDoc : count = OneMore(audited[j.op], d)
  BY <1>3, <1>7, <1>8, OneMoreFacts
<1>10. /\ count[d] = audited[j.op][d] + 1
       /\ \A e \in Doc : e # d => count[e] = audited[j.op][e]
  BY <1>3, <1>7, <1>8, <1>9, OneMoreFacts
<1>11. audited' = [audited EXCEPT ![j.op] = count]
  BY <1>3, <1>9, Zenon
<1>12. audited' \in [Kind -> PerDoc] /\ audited'[j.op] = count
       /\ \A o \in Kind : o # j.op => audited'[o] = audited[o]
  BY <1>3, <1>8, <1>11
<1>13. DocumentsTypeOK'
  BY <1>3, <1>6, <1>12 DEF DocInv, DocumentsTypeOK, Takes, docTable
<1>14. \A e \in Doc : Known(e)' <=> Known(e)
  BY <1>3, KnownSame DEF docTable
<1>15. Whole'
  BY <1>3, <1>14 DEF DocInv, Whole, Present, docTable
<1>16. ASSUME NEW e \in Doc PROVE CountedAt(e)'
  <2>1. /\ ~IsTracer(docJob[p], e) /\ ~IsSender(docJob[p], e) /\ ~IsOpener(docJob[p], e)
        /\ ~IsTracer(k, e)
    BY <1>1, <1>3, <1>7 DEF IsTracer, IsSender, IsOpener, Kind
  <2>2. /\ saved[e] \in Nat /\ traced[e] \in Nat /\ dropped["trace"][e] \in Nat
        /\ delivered["file"][e] \in Nat /\ audited["file"][e] \in Nat
        /\ delivered["zip"][e] \in Nat /\ audited["zip"][e] \in Nat /\ dropped["send"][e] \in Nat
    BY DEF DocInv, DocumentsTypeOK, PerDoc, Kind
  <2>3. /\ One(IsTracer(docJob[p], e)) = 0 /\ One(IsSender(docJob[p], e)) = 0
        /\ One(IsOpener(docJob[p], e)) = 0 /\ One(IsTracer(k, e)) = 0
    BY <2>1 DEF One
  <2>4. deleted'[e] <= buried'[e]
    BY <1>3 DEF DocInv, Counted, CountedAt
  <2>5. audited'["file"][e] = audited["file"][e] + One(IsOpener(k, e))
    <3>1. CASE j.op = "file"
      BY <1>7, <1>10, <1>12, <2>2, <3>1 DEF IsOpener, One
    <3>2. CASE j.op = "zip"
      BY <1>7, <1>12, <2>2, <3>2 DEF IsOpener, One, Kind
    <3>3. QED
      BY <1>3, <3>1, <3>2 DEF Kind
  <2>6. audited'["zip"][e] = audited["zip"][e] + One(IsSender(k, e))
    <3>1. CASE j.op = "file"
      BY <1>7, <1>12, <2>2, <3>1 DEF IsSender, One, Kind
    <3>2. CASE j.op = "zip"
      BY <1>7, <1>10, <1>12, <2>2, <3>2 DEF IsSender, One
    <3>3. QED
      BY <1>3, <3>1, <3>2 DEF Kind
  <2>7. One(IsOpener(k, e)) \in Nat /\ One(IsSender(k, e)) \in Nat
    BY DEF One
  <2>8. /\ saved'[e] + traced[e] + dropped["trace"][e] + One(IsTracer(docJob[p], e))
              = saved[e] + traced'[e] + dropped'["trace"][e] + One(IsTracer(k, e))
        /\ delivered'["file"][e] + audited["file"][e] + One(IsOpener(k, e))
              <= delivered["file"][e] + audited'["file"][e] + One(IsOpener(docJob[p], e))
        /\ audited'["zip"][e] + delivered["zip"][e] + dropped["send"][e] + One(IsSender(docJob[p], e))
              = audited["zip"][e] + delivered'["zip"][e] + dropped'["send"][e] + One(IsSender(k, e))
    BY <1>3, <2>2, <2>3, <2>5, <2>6, <2>7
  <2>9. QED
    BY <1>6, <1>13, <2>4, <2>8, CountAgain
<1>17. k.op # "upload"
  BY <1>3, <1>7 DEF Kind
<1>18. Fitting(k)'
  BY <1>3, <1>5, <1>14 DEF Fitting, docTable
<1>19. asked' = asked /\ blobs' = blobs
  BY <1>3 DEF docTable
<1>20. QED
  BY <1>6, <1>13, <1>14, <1>15, <1>16, <1>17, <1>18, <1>19, Keeps

LEMMA DeliverKeeps ==
    ASSUME DocInv, UNCHANGED driveVars, NEW p \in Process, Deliver(p)
    PROVE  DocInv'
<1>1. PICK j : j = docJob[p]
  OBVIOUS
<1>2. PICK d : d = j.doc
  OBVIOUS
<1>3. /\ j.op \in Kind /\ j.pc = "send" /\ j.op # "none"
      /\ delivered' = [delivered EXCEPT ![j.op] = OneMore(@, d)]
      /\ DocEnd(p)
      /\ UNCHANGED <<docTable, saved, traced, deleted, buried, audited, dropped>>
  BY <1>1, <1>2 DEF Deliver, Kind, trailVars
<1>4. d \in Doc
  BY <1>1, <1>2, <1>3, JobShape DEF DocInv, DocumentsTypeOK
<1>5. Takes(p, NoDocJob)
  BY <1>1, <1>3, Ends
<1>6. delivered \in [Kind -> PerDoc]
  BY DEF DocInv, DocumentsTypeOK
<1>7. PICK count \in PerDoc : count = OneMore(delivered[j.op], d)
  BY <1>3, <1>4, <1>6, OneMoreFacts
<1>8. /\ count[d] = delivered[j.op][d] + 1
      /\ \A e \in Doc : e # d => count[e] = delivered[j.op][e]
  BY <1>3, <1>4, <1>6, <1>7, OneMoreFacts
<1>9. delivered' = [delivered EXCEPT ![j.op] = count]
  BY <1>3, <1>7, Zenon
<1>10. /\ delivered' \in [Kind -> PerDoc] /\ delivered'[j.op] = count
       /\ \A o \in Kind : o # j.op => delivered'[o] = delivered[o]
  BY <1>3, <1>6, <1>9
<1>11. DocumentsTypeOK'
  BY <1>3, <1>5, <1>10 DEF DocInv, DocumentsTypeOK, Takes, docTable
<1>12. \A e \in Doc : Known(e)' <=> Known(e)
  BY <1>3, KnownSame DEF docTable
<1>13. Whole'
  BY <1>3, <1>12 DEF DocInv, Whole, Present, docTable
<1>14. ASSUME NEW e \in Doc PROVE CountedAt(e)'
  <2>1. /\ ~IsTracer(docJob[p], e) /\ ~IsTracer(NoDocJob, e)
        /\ ~IsSender(NoDocJob, e) /\ ~IsOpener(NoDocJob, e)
    BY <1>1, <1>3 DEF IsTracer, IsSender, IsOpener, Kind, NoDocJob
  <2>2. /\ saved[e] \in Nat /\ traced[e] \in Nat /\ dropped["trace"][e] \in Nat
        /\ delivered["file"][e] \in Nat /\ audited["file"][e] \in Nat
        /\ delivered["zip"][e] \in Nat /\ audited["zip"][e] \in Nat /\ dropped["send"][e] \in Nat
    BY DEF DocInv, DocumentsTypeOK, PerDoc, Kind
  <2>3. /\ One(IsTracer(docJob[p], e)) = 0 /\ One(IsTracer(NoDocJob, e)) = 0
        /\ One(IsSender(NoDocJob, e)) = 0 /\ One(IsOpener(NoDocJob, e)) = 0
    BY <2>1 DEF One
  <2>4. deleted'[e] <= buried'[e]
    BY <1>3 DEF DocInv, Counted, CountedAt
  <2>5. delivered'["file"][e] = delivered["file"][e] + One(IsOpener(docJob[p], e))
    <3>1. CASE j.op = "file"
      BY <1>1, <1>2, <1>3, <1>8, <1>10, <2>2, <3>1 DEF IsOpener, One
    <3>2. CASE j.op = "zip"
      BY <1>1, <1>10, <2>2, <3>2 DEF IsOpener, One, Kind
    <3>3. QED
      BY <1>3, <3>1, <3>2 DEF Kind
  <2>6. delivered'["zip"][e] = delivered["zip"][e] + One(IsSender(docJob[p], e))
    <3>1. CASE j.op = "file"
      BY <1>1, <1>10, <2>2, <3>1 DEF IsSender, One, Kind
    <3>2. CASE j.op = "zip"
      BY <1>1, <1>2, <1>3, <1>8, <1>10, <2>2, <3>2 DEF IsSender, One
    <3>3. QED
      BY <1>3, <3>1, <3>2 DEF Kind
  <2>7. One(IsOpener(docJob[p], e)) \in Nat /\ One(IsSender(docJob[p], e)) \in Nat
    BY DEF One
  <2>8. /\ saved'[e] + traced[e] + dropped["trace"][e] + One(IsTracer(docJob[p], e))
              = saved[e] + traced'[e] + dropped'["trace"][e] + One(IsTracer(NoDocJob, e))
        /\ delivered'["file"][e] + audited["file"][e] + One(IsOpener(NoDocJob, e))
              <= delivered["file"][e] + audited'["file"][e] + One(IsOpener(docJob[p], e))
        /\ audited'["zip"][e] + delivered["zip"][e] + dropped["send"][e] + One(IsSender(docJob[p], e))
              = audited["zip"][e] + delivered'["zip"][e] + dropped'["send"][e] + One(IsSender(NoDocJob, e))
    BY <1>3, <2>2, <2>3, <2>5, <2>6, <2>7
  <2>9. QED
    BY <1>5, <1>11, <2>4, <2>8, CountAgain
<1>15. Fitting(NoDocJob)' /\ NoDocJob.op # "upload"
  BY DEF Fitting, NoDocJob
<1>16. asked' = asked /\ blobs' = blobs
  BY <1>3 DEF docTable
<1>17. QED
  BY <1>5, <1>11, <1>12, <1>13, <1>14, <1>15, <1>16, Keeps

--------------------------------------------------------------------------
(* The inductive invariant of the drives.                                  *)

Looking == {"look", "create", "recreate"}

\* Which steps an upload takes, and how far along the path it is at each.
Placed(u) ==
    /\ u.pc \in Looking => u.drive # "dropbox" /\ u.depth < Len(Path)
    /\ u.pc \in {"send", "session"} /\ u.drive # "dropbox" => u.depth = Len(Path)
    /\ u.pc = "session" => u.drive # "google"
    /\ u.pc = "recreate" => u.drive = "onedrive" /\ u.fault
    /\ u.drive = "dropbox" /\ u.pc = "session" => u.sent < u.size

\* Folders with the names of the first n parts of the path, each in the one before.
Trail(d, n, w) ==
    /\ w \in [1 .. n -> DOMAIN folders]
    /\ \A k \in 1 .. n : /\ folders[w[k]].drive = d /\ folders[w[k]].name = Path[k] /\ ~folders[w[k]].copy
                         /\ k > 1 => folders[w[k]].parent = w[k - 1]

Reaches(d, n, i) == \E w : Trail(d, n, w) /\ (n > 0 => w[n] = i)

\* The part of the path that an upload has done is there, unless a request failed.
Followed(u) ==
    /\ u.drive = "google" => (u.depth = 0 => u.at = 0) /\ Reaches("google", u.depth, u.at)
    /\ u.drive = "onedrive" /\ ~u.fault => Ways(u.depth) # {}
    /\ u.drive = "onedrive" /\ u.pc = "session" => Ways(Len(Path)) # {}

PathInv ==
    /\ \A p \in Process : uploads[p] # NoUpload => Placed(uploads[p]) /\ Followed(uploads[p])
    /\ \A i \in DOMAIN folders : folders[i].drive # "dropbox" /\ (folders[i].drive = "google" => ~folders[i].copy)
    /\ \A a \in answers : a.drive # "dropbox" => Reaches(a.drive, Len(Path), a.folder)

\* Nothing happened on the drive that could make a folder twice.
Clean(d) == d \notin overlapped /\ d \notin faulted

\* An upload that is about to create a part on a clean drive found no such folder.
Alone(u) ==
    /\ u.drive \in Drive /\ u.fault => u.drive \in faulted
    /\ u.drive = "google" /\ u.pc = "create" /\ Clean("google") => Matches(Path[u.depth + 1], u.at) = {}
    /\ u.drive = "onedrive" /\ u.pc = "create" /\ Clean("onedrive") => Ways(u.depth + 1) = {}

CleanInv ==
    /\ \A p \in Process : uploads[p] # NoUpload => Alone(uploads[p])
    /\ \A d \in Drive : d \notin overlapped => \A p, q \in Ensuring(d) : p = q
    /\ Clean("onedrive") => \A i \in DOMAIN folders : folders[i].drive = "onedrive" => ~folders[i].copy
    /\ NoStrayFolder

DriveInv == WorkersTypeOK /\ DriveTypeOK /\ AnsweredIsWhole /\ FailsOnlyOnFault /\ PathInv /\ CleanInv

\* The upload of process p goes on as u, or ends.
Turns(p, u) ==
    /\ uploads' = [uploads EXCEPT ![p] = u]
    /\ \/ Accept(p) /\ uploads[p] = NoUpload
       \/ Continue(p) /\ uploads[p].drive # "none"
       \/ Release(p) /\ uploads[p].drive # "none" /\ u = NoUpload

--------------------------------------------------------------------------
(* The drives and the documents leave each other alone.                    *)

LEMMA WorkersStay ==
    ASSUME WorkersTypeOK, NEW p \in Process
    PROVE  /\ Accept(p) => WorkersTypeOK'
           /\ Continue(p) => WorkersTypeOK'
           /\ Release(p) => WorkersTypeOK'
           /\ Kill(p) => WorkersTypeOK'
<1>1. Accept(p) => WorkersTypeOK'
  BY WorkersAssumption DEF WorkersTypeOK, Accept, Free
<1>2. Continue(p) => WorkersTypeOK'
  BY DEF WorkersTypeOK, Continue, workers
<1>3. Release(p) => WorkersTypeOK'
  BY DEF WorkersTypeOK, Release
<1>4. Kill(p) => WorkersTypeOK'
  BY WorkersAssumption DEF WorkersTypeOK, Kill
<1>5. QED
  BY <1>1, <1>2, <1>3, <1>4

LEMMA DocumentsRest ==
    ASSUME DocInv, DriveTypeOK, NEW p \in Process, NEW u, Turns(p, u), UNCHANGED docVars
    PROVE  DocInv'
<1>1. /\ UNCHANGED <<doc, files, blobs, asked, docJob, saved, traced, deleted, buried, audited,
                     delivered, dropped>>
      /\ uploads' = [uploads EXCEPT ![p] = u] /\ uploads \in [Process -> Upload \cup {NoUpload}]
  BY DEF docVars, Turns, DriveTypeOK
<1>2. WorkersTypeOK'
  BY WorkersStay DEF DocInv, Turns
<1>3. DocumentsTypeOK' /\ Whole' /\ Fit' /\ Counted'
  <2>1. DocumentsTypeOK'
    BY <1>1 DEF DocInv, DocumentsTypeOK
  <2>2. Whole' /\ Fit'
    BY <1>1 DEF DocInv, Whole, Known, Present, Fit, Fitting
  <2>3. ASSUME NEW d \in Doc PROVE CountedAt(d)'
    <3>1. Tracers(d)' = Tracers(d) /\ Senders(d)' = Senders(d) /\ Openers(d)' = Openers(d)
      BY <1>1 DEF Tracers, Senders, Openers
    <3>2. CountedAt(d)
      BY DEF DocInv, Counted
    <3>3. QED
      BY <1>1, <3>1, <3>2 DEF CountedAt
  <2>4. QED
    BY <2>1, <2>2, <2>3 DEF Counted
<1>4. Own'
  <2>1. /\ \A q \in Process : q # p => uploads'[q] = uploads[q] /\ (q \in busy => q \in busy')
        /\ uploads'[p] = u
    BY <1>1 DEF Turns, Accept, Continue, Release, workers
  <2>2. docJob[p].op = "none"
    BY DEF DocInv, Own, Turns, Accept, Free
  <2>3. u.drive # "none" => p \in busy'
    BY DEF Turns, Accept, Continue, Release, workers, NoUpload
  <2>4. QED
    BY <1>1, <2>1, <2>2, <2>3 DEF DocInv, Own
<1>5. QED
  BY <1>2, <1>3, <1>4 DEF DocInv

\* A kill ends a document's request.
LEMMA KillKeepsDocuments ==
    ASSUME DocInv, DriveTypeOK, NEW p \in Process, KillFileWorker(p)
    PROVE  DocInv'
<1>1. /\ docJob' = [docJob EXCEPT ![p] = NoDocJob] /\ uploads' = [uploads EXCEPT ![p] = NoUpload]
      /\ busy' = busy \ {p} /\ uploads \in [Process -> Upload \cup {NoUpload}]
      /\ docJob \in [Process -> DocJobs] /\ NoDocJob \in DocJobs
      /\ UNCHANGED <<docTable, saved, traced, deleted, buried, audited, delivered>>
  BY DEF KillFileWorker, Kill, DocumentsWiped, DriveWiped, trailVars, downloadVars,
         DriveTypeOK, DocInv, DocumentsTypeOK, DocJobs
<1>2. WorkersTypeOK'
  BY WorkersStay DEF DocInv, KillFileWorker
<1>3. Own'
  BY <1>1 DEF DocInv, Own, NoDocJob, NoUpload
<1>4. Takes(p, NoDocJob)
  BY <1>1, <1>2, <1>3 DEF Takes
<1>5. /\ dropped \in [{"trace", "send"} -> PerDoc]
      /\ dropped' = [trace |-> [d \in Doc |-> dropped["trace"][d] + IF Tracing(p, d) THEN 1 ELSE 0],
                     send  |-> [d \in Doc |-> dropped["send"][d] + IF Sending(p, d) THEN 1 ELSE 0]]
  BY DEF KillFileWorker, DocumentsWiped, DocInv, DocumentsTypeOK
<1>6. /\ dropped'["trace"] = [d \in Doc |-> dropped["trace"][d] + IF Tracing(p, d) THEN 1 ELSE 0]
      /\ dropped'["send"] = [d \in Doc |-> dropped["send"][d] + IF Sending(p, d) THEN 1 ELSE 0]
      /\ dropped' \in [{"trace", "send"} -> PerDoc]
  <2>1. /\ [d \in Doc |-> dropped["trace"][d] + IF Tracing(p, d) THEN 1 ELSE 0] \in PerDoc
        /\ [d \in Doc |-> dropped["send"][d] + IF Sending(p, d) THEN 1 ELSE 0] \in PerDoc
    BY <1>5 DEF PerDoc
  <2>2. PICK a \in PerDoc, b \in PerDoc :
            /\ a = [d \in Doc |-> dropped["trace"][d] + IF Tracing(p, d) THEN 1 ELSE 0]
            /\ b = [d \in Doc |-> dropped["send"][d] + IF Sending(p, d) THEN 1 ELSE 0]
    BY <2>1, Zenon
  <2>3. dropped' = [trace |-> a, send |-> b]
    BY <1>5, <2>2, Zenon
  <2>4. dropped'["trace"] = a /\ dropped'["send"] = b /\ DOMAIN dropped' = {"trace", "send"}
    BY <2>3
  <2>5. dropped' \in [{"trace", "send"} -> PerDoc]
    BY <2>2, <2>3, <2>4
  <2>6. QED
    BY <2>2, <2>4, <2>5, Zenon
<1>7. DocumentsTypeOK'
  BY <1>1, <1>4, <1>6 DEF DocInv, DocumentsTypeOK, Takes, docTable
<1>8. \A e \in Doc : Known(e)' <=> Known(e)
  BY <1>1, KnownSame DEF docTable
<1>9. Whole'
  BY <1>1, <1>8 DEF DocInv, Whole, Present, docTable
<1>10. ASSUME NEW e \in Doc PROVE CountedAt(e)'
  <2>1. /\ ~IsTracer(NoDocJob, e) /\ ~IsSender(NoDocJob, e) /\ ~IsOpener(NoDocJob, e)
    BY DEF IsTracer, IsSender, IsOpener, NoDocJob
  <2>2. /\ saved[e] \in Nat /\ traced[e] \in Nat /\ dropped["trace"][e] \in Nat
        /\ delivered["file"][e] \in Nat /\ audited["file"][e] \in Nat
        /\ delivered["zip"][e] \in Nat /\ audited["zip"][e] \in Nat /\ dropped["send"][e] \in Nat
    BY DEF DocInv, DocumentsTypeOK, PerDoc, Kind
  <2>3. /\ One(IsTracer(NoDocJob, e)) = 0 /\ One(IsSender(NoDocJob, e)) = 0
        /\ One(IsOpener(NoDocJob, e)) = 0
    BY <2>1 DEF One
  <2>4. deleted'[e] <= buried'[e]
    BY <1>1 DEF DocInv, Counted, CountedAt
  <2>5. dropped'["trace"][e] = dropped["trace"][e] + One(IsTracer(docJob[p], e))
    <3>1. Tracing(p, e) <=> IsTracer(docJob[p], e)
      BY DEF Tracing, IsTracer, Doing
    <3>2. QED
      BY <1>6, <3>1 DEF One
  <2>6. dropped'["send"][e] = dropped["send"][e] + One(IsSender(docJob[p], e))
    <3>1. Sending(p, e) <=> IsSender(docJob[p], e)
      BY DEF Sending, IsSender
    <3>2. QED
      BY <1>6, <3>1 DEF One
  <2>7. /\ One(IsOpener(docJob[p], e)) \in Nat /\ One(IsSender(docJob[p], e)) \in Nat
        /\ One(IsTracer(docJob[p], e)) \in Nat
    BY DEF One
  <2>8. /\ saved'[e] + traced[e] + dropped["trace"][e] + One(IsTracer(docJob[p], e))
              = saved[e] + traced'[e] + dropped'["trace"][e] + One(IsTracer(NoDocJob, e))
        /\ delivered'["file"][e] + audited["file"][e] + One(IsOpener(NoDocJob, e))
              <= delivered["file"][e] + audited'["file"][e] + One(IsOpener(docJob[p], e))
        /\ audited'["zip"][e] + delivered["zip"][e] + dropped["send"][e] + One(IsSender(docJob[p], e))
              = audited["zip"][e] + delivered'["zip"][e] + dropped'["send"][e] + One(IsSender(NoDocJob, e))
    BY <1>1, <2>2, <2>3, <2>5, <2>6, <2>7
  <2>9. QED
    BY <1>4, <1>7, <2>4, <2>8, CountAgain
<1>11. Fitting(NoDocJob)' /\ NoDocJob.op # "upload"
  BY DEF Fitting, NoDocJob
<1>12. asked' = asked /\ blobs' = blobs
  BY <1>1 DEF docTable
<1>13. QED
  BY <1>4, <1>7, <1>8, <1>9, <1>10, <1>11, <1>12, Keeps

\* Every step of the documents.
LEMMA DocumentsKeep ==
    ASSUME DocInv, UNCHANGED driveVars, DocumentsNext
    PROVE  DocInv'
<1>1. PICK p \in Process : DocumentsStep(p)
  BY DEF DocumentsNext
<1>2. ASSUME NEW d \in Doc, NEW n \in FileNo, StartUpload(p, d, n) PROVE DocInv'
  BY <1>2, StartUploadKeeps
<1>3. ASSUME NEW d \in Doc, NEW withFile \in BOOLEAN, PostDocument(p, d, withFile) PROVE DocInv'
  BY <1>3, PostDocumentKeeps
<1>4. ASSUME NEW d \in Doc, LoadForPatchDoc(p, d) PROVE DocInv'
  BY <1>4, LoadForPatchDocKeeps
<1>5. ASSUME NEW d \in Doc, LoadForDelete(p, d) PROVE DocInv'
  BY <1>5, LoadForDeleteKeeps
<1>6. ASSUME NEW d \in Doc, StartZip(p, d) PROVE DocInv'
  BY <1>6, StartZipKeeps
<1>7. ASSUME NEW d \in Doc, StartFile(p, d) PROVE DocInv'
  BY <1>7, StartFileKeeps
<1>8. CASE StoreFile(p)
  BY <1>8, StoreFileKeeps
<1>9. CASE CommitUpload(p)
  BY <1>9, CommitUploadKeeps
<1>10. CASE UploadFails(p)
  BY <1>10, UploadFailsKeeps
<1>11. CASE Trace(p)
  BY <1>11, TraceKeeps
<1>12. CASE SavePatchDoc(p)
  BY <1>12, SavePatchDocKeeps
<1>13. CASE DeleteDocument(p)
  BY <1>13, DeleteDocumentKeeps
<1>14. CASE ReadContent(p)
  BY <1>14, ReadContentKeeps
<1>15. CASE ReadFails(p)
  BY <1>15, ReadFailsKeeps
<1>16. CASE AuditDownload(p)
  BY <1>16, AuditDownloadKeeps
<1>17. CASE Deliver(p)
  BY <1>17, DeliverKeeps
<1>18. QED
  BY <1>1, <1>2, <1>3, <1>4, <1>5, <1>6, <1>7, <1>8, <1>9, <1>10, <1>11, <1>12, <1>13,
     <1>14, <1>15, <1>16, <1>17, Zenon DEF DocumentsStep

LEMMA DocumentsStart ==
    ASSUME FilesInit
    PROVE  DocInv
<1>1. WorkersTypeOK
  BY WorkersAssumption DEF FilesInit, WorkersInit, WorkersTypeOK
<1>2. None \in PerDoc /\ \A d \in Doc : None[d] = 0
  BY DEF None, PerDoc
<1>3. /\ doc = [d \in Doc |-> "absent"] /\ files = [d \in Doc |-> {}] /\ blobs = {}
      /\ asked = [d \in Doc |-> -1] /\ docJob = [p \in Process |-> NoDocJob]
      /\ saved = None /\ traced = None /\ deleted = None /\ buried = None
      /\ audited = [k \in Kind |-> None] /\ delivered = [k \in Kind |-> None]
      /\ dropped = [w \in {"trace", "send"} |-> None]
      /\ uploads = [p \in Process |-> NoUpload]
  BY DEF FilesInit, DocumentsInit, DriveInit
<1>4. DocumentsTypeOK
  <2>1. asked \in [Doc -> -1 .. MaxFiles] /\ docJob \in [Process -> DocJobs]
    BY <1>3, DocumentsAssumption DEF DocJobs
  <2>2. doc \in [Doc -> State] /\ files \in [Doc -> SUBSET FileNo] /\ blobs \subseteq Doc \X (0 .. MaxFiles)
    BY <1>3 DEF State
  <2>3. QED
    BY <1>2, <1>3, <2>1, <2>2 DEF DocumentsTypeOK
<1>5. Own /\ Fit
  BY <1>3 DEF Own, Fit, Fitting, NoDocJob, NoUpload
<1>6. Whole
  BY <1>2, <1>3 DEF Whole, Known, Present
<1>7. ASSUME NEW d \in Doc PROVE CountedAt(d)
  <2>1. Tracers(d) = {} /\ Senders(d) = {} /\ Openers(d) = {}
    BY <1>3 DEF Tracers, Senders, Openers, IsTracer, IsSender, IsOpener, NoDocJob
  <2>2. Cardinality({}) = 0
    BY FS_EmptySet
  <2>3. QED
    BY <1>2, <1>3, <2>1, <2>2 DEF CountedAt, Kind
<1>8. QED
  BY <1>1, <1>4, <1>5, <1>6, <1>7 DEF DocInv, Counted

--------------------------------------------------------------------------
(* Paths, as folders are added.                                            *)

\* The folders are a sequence that only grows.
Extends == /\ folders' \in Seq(Folder) /\ Len(folders) <= Len(folders')
           /\ \A i \in 1 .. Len(folders) : folders'[i] = folders[i]

LEMMA FolderFacts ==
    ASSUME folders \in Seq(Folder)
    PROVE  /\ Len(folders) \in Nat /\ DOMAIN folders = 1 .. Len(folders)
           /\ \A i \in DOMAIN folders : folders[i] \in Folder
OBVIOUS

LEMMA PathFacts ==
    /\ Len(Path) \in Nat /\ Len(Path) >= 1 /\ DOMAIN Path = 1 .. Len(Path)
    /\ \A i \in 1 .. Len(Path) : Path[i] \in Names
BY DriveAssumption DEF Names

LEMMA SameExtends ==
    ASSUME folders \in Seq(Folder), folders' = folders
    PROVE  Extends
BY FolderFacts DEF Extends

LEMMA AddExtends ==
    ASSUME folders \in Seq(Folder), NEW f \in Folder, folders' = Append(folders, f)
    PROVE  /\ Extends /\ Len(folders') = Len(folders) + 1 /\ folders'[Len(folders) + 1] = f
           /\ DOMAIN folders' = 1 .. Len(folders) + 1
<1>1. /\ folders' \in Seq(Folder) /\ Len(folders') = Len(folders) + 1
      /\ \A i \in 1 .. Len(folders) : folders'[i] = folders[i]
      /\ folders'[Len(folders) + 1] = f
  BY AppendProperties
<1>2. Len(folders) \in Nat
  BY FolderFacts
<1>3. DOMAIN folders' = 1 .. Len(folders) + 1
  BY <1>1
<1>4. QED
  BY <1>1, <1>2, <1>3 DEF Extends

LEMMA ExtendFacts ==
    ASSUME folders \in Seq(Folder), Extends
    PROVE  \A i \in DOMAIN folders : i \in DOMAIN folders' /\ folders'[i] = folders[i]
<1>1. DOMAIN folders = 1 .. Len(folders) /\ DOMAIN folders' = 1 .. Len(folders')
  BY DEF Extends
<1>2. Len(folders) \in Nat /\ Len(folders') \in Nat
  BY DEF Extends
<1>3. QED
  BY <1>1, <1>2 DEF Extends

\* A trail stays one.
LEMMA TrailStays ==
    ASSUME folders \in Seq(Folder), Extends, NEW d, NEW n \in Nat, NEW w, Trail(d, n, w)
    PROVE  Trail(d, n, w)'
<1>1. w \in [1 .. n -> DOMAIN folders]
  BY DEF Trail
<1>2. \A i \in DOMAIN folders : i \in DOMAIN folders' /\ folders'[i] = folders[i]
  BY ExtendFacts
<1>3. w \in [1 .. n -> DOMAIN folders']
  BY <1>1, <1>2
<1>4. \A k \in 1 .. n : w[k] \in DOMAIN folders /\ folders'[w[k]] = folders[w[k]]
  BY <1>1, <1>2
<1>5. QED
  BY <1>3, <1>4 DEF Trail

LEMMA ReachesStays ==
    ASSUME folders \in Seq(Folder), Extends, NEW d, NEW n \in Nat, NEW i, Reaches(d, n, i)
    PROVE  Reaches(d, n, i)'
<1>1. PICK w : Trail(d, n, w) /\ (n > 0 => w[n] = i)
  BY DEF Reaches
<1>2. Trail(d, n, w)'
  BY <1>1, TrailStays
<1>3. QED
  BY <1>1, <1>2, Zenon DEF Reaches

LEMMA WaysStay ==
    ASSUME folders \in Seq(Folder), Extends, NEW n \in Nat, Ways(n) # {}
    PROVE  Ways(n)' # {}
<1>1. PICK w : w \in Ways(n)
  OBVIOUS
<1>2. /\ w \in [1 .. n -> OnPaths]
      /\ \A k \in 1 .. n : IsChild(w[k], IF k = 1 THEN 0 ELSE w[k - 1], Path[k])
  BY <1>1 DEF Ways
<1>3. \A i \in DOMAIN folders : i \in DOMAIN folders' /\ folders'[i] = folders[i]
  BY ExtendFacts
<1>4. \A i \in OnPaths : i \in OnPaths' /\ i \in DOMAIN folders
  BY <1>3 DEF OnPaths
<1>5. w \in [1 .. n -> OnPaths']
  BY <1>2, <1>4
<1>6. \A k \in 1 .. n : IsChild(w[k], IF k = 1 THEN 0 ELSE w[k - 1], Path[k])'
  BY <1>2, <1>3, <1>4 DEF IsChild
<1>7. w \in Ways(n)'
  BY <1>5, <1>6 DEF Ways
<1>8. QED
  BY <1>7

LEMMA WaysStart == Ways(0) # {}
<1>1. PICK w : w = [k \in 1 .. 0 |-> 1]
  OBVIOUS
<1>2. w \in [1 .. 0 -> OnPaths]
  BY <1>1
<1>3. w \in Ways(0)
  BY <1>2 DEF Ways
<1>4. QED
  BY <1>3

\* Where the first n parts of the path lead to, if anywhere.
LEMMA ResolveFacts ==
    ASSUME folders \in Seq(Folder), NEW n \in Nat
    PROVE  /\ Ways(n) = {} => Resolve(n) = Nowhere
           /\ Ways(n) # {} => /\ Resolve(n) \in 0 .. Len(folders) /\ Resolve(n) # Nowhere
                              /\ n = 0 => Resolve(n) = 0
                              /\ \E w \in Ways(n) : n > 0 => Resolve(n) = w[n]
<1>1. Len(folders) \in Nat /\ DOMAIN folders = 1 .. Len(folders)
  BY FolderFacts
<1>2. CASE n = 0
  <2>1. Ways(n) # {} /\ Resolve(n) = 0
    BY <1>2, WaysStart DEF Resolve
  <2>2. \E w \in Ways(n) : n > 0 => Resolve(n) = w[n]
    BY <1>2, <2>1
  <2>3. QED
    BY <1>1, <1>2, <2>1, <2>2 DEF Nowhere
<1>3. CASE n # 0 /\ Ways(n) = {}
  BY <1>3 DEF Resolve
<1>4. CASE n # 0 /\ Ways(n) # {}
  <2>1. PICK w : w = (CHOOSE v \in Ways(n) : TRUE)
    OBVIOUS
  <2>2. w \in Ways(n)
    BY <1>4, <2>1
  <2>3. Resolve(n) = w[n]
    BY <1>4, <2>1 DEF Resolve
  <2>4. w[n] \in DOMAIN folders
    BY <1>4, <2>2 DEF Ways, OnPaths
  <2>5. QED
    BY <1>1, <1>4, <2>2, <2>3, <2>4 DEF Nowhere
<1>5. QED
  BY <1>2, <1>3, <1>4

\* One part further, in a folder that is there now.
LEMMA WaysFurther ==
    ASSUME folders \in Seq(Folder), Extends, NEW n \in Nat, NEW v \in Ways(n), NEW i \in DOMAIN folders',
           folders'[i].drive = "onedrive", ~folders'[i].copy, folders'[i].name = Path[n + 1],
           folders'[i].parent = IF n = 0 THEN 0 ELSE v[n]
    PROVE  Ways(n + 1)' # {}
<1>1. /\ v \in [1 .. n -> OnPaths]
      /\ \A k \in 1 .. n : IsChild(v[k], IF k = 1 THEN 0 ELSE v[k - 1], Path[k])
  BY DEF Ways
<1>2. \A j \in DOMAIN folders : j \in DOMAIN folders' /\ folders'[j] = folders[j]
  BY ExtendFacts
<1>3. \A j \in OnPaths : j \in OnPaths' /\ j \in DOMAIN folders
  BY <1>2 DEF OnPaths
<1>4. i \in OnPaths'
  BY DEF OnPaths
<1>5. PICK w : w = [k \in 1 .. n + 1 |-> IF k = n + 1 THEN i ELSE v[k]]
  OBVIOUS
<1>6. \A k \in 1 .. n : k \in 1 .. n + 1 /\ w[k] = v[k] /\ v[k] \in OnPaths
  BY <1>1, <1>5
<1>7. w[n + 1] = i
  BY <1>5
<1>8. w \in [1 .. n + 1 -> OnPaths']
  BY <1>1, <1>3, <1>4, <1>5
<1>9. ASSUME NEW k \in 1 .. n + 1
      PROVE  IsChild(w[k], IF k = 1 THEN 0 ELSE w[k - 1], Path[k])'
  <2>1. CASE k = n + 1
    <3>1. w[k] = i /\ (IF k = 1 THEN 0 ELSE w[k - 1]) = IF n = 0 THEN 0 ELSE v[n]
      BY <1>6, <1>7, <2>1
    <3>2. QED
      BY <2>1, <3>1 DEF IsChild
  <2>2. CASE k # n + 1
    <3>1. k \in 1 .. n /\ w[k] = v[k] /\ v[k] \in DOMAIN folders
      BY <1>3, <1>6, <2>2
    <3>2. k # 1 => w[k - 1] = v[k - 1]
      BY <1>6, <3>1
    <3>3. IsChild(v[k], IF k = 1 THEN 0 ELSE v[k - 1], Path[k])
      BY <1>1, <3>1
    <3>4. QED
      BY <1>2, <3>1, <3>2, <3>3 DEF IsChild
  <2>3. QED
    BY <2>1, <2>2
<1>10. w \in Ways(n + 1)'
  BY <1>8, <1>9 DEF Ways
<1>11. QED
  BY <1>10

\* ... and the same for the trail of a search.
LEMMA TrailFurther ==
    ASSUME folders \in Seq(Folder), Extends, NEW d, NEW n \in Nat, NEW at, Reaches(d, n, at),
           NEW i \in DOMAIN folders',
           folders'[i].drive = d, ~folders'[i].copy, folders'[i].name = Path[n + 1],
           n > 0 => folders'[i].parent = at
    PROVE  Reaches(d, n + 1, i)'
<1>1. PICK v : Trail(d, n, v) /\ (n > 0 => v[n] = at)
  BY DEF Reaches
<1>2. /\ v \in [1 .. n -> DOMAIN folders]
      /\ \A k \in 1 .. n : /\ folders[v[k]].drive = d /\ folders[v[k]].name = Path[k] /\ ~folders[v[k]].copy
                           /\ k > 1 => folders[v[k]].parent = v[k - 1]
  BY <1>1 DEF Trail
<1>3. \A j \in DOMAIN folders : j \in DOMAIN folders' /\ folders'[j] = folders[j]
  BY ExtendFacts
<1>4. PICK w : w = [k \in 1 .. n + 1 |-> IF k = n + 1 THEN i ELSE v[k]]
  OBVIOUS
<1>5. \A k \in 1 .. n : k \in 1 .. n + 1 /\ w[k] = v[k] /\ v[k] \in DOMAIN folders
  BY <1>2, <1>4
<1>6. w[n + 1] = i
  BY <1>4
<1>7. w \in [1 .. n + 1 -> DOMAIN folders']
  BY <1>2, <1>3, <1>4
<1>8. ASSUME NEW k \in 1 .. n + 1
      PROVE  /\ folders'[w[k]].drive = d /\ folders'[w[k]].name = Path[k] /\ ~folders'[w[k]].copy
             /\ k > 1 => folders'[w[k]].parent = w[k - 1]
  <2>1. CASE k = n + 1
    <3>1. w[k] = i /\ (k > 1 => n > 0 /\ w[k - 1] = at)
      BY <1>1, <1>5, <1>6, <2>1
    <3>2. QED
      BY <2>1, <3>1
  <2>2. CASE k # n + 1
    <3>1. k \in 1 .. n /\ w[k] = v[k] /\ folders'[w[k]] = folders[v[k]]
      BY <1>3, <1>5, <2>2
    <3>2. k > 1 => w[k - 1] = v[k - 1]
      BY <1>5, <3>1
    <3>3. QED
      BY <1>2, <3>1, <3>2
  <2>3. QED
    BY <2>1, <2>2
<1>9. Trail(d, n + 1, w)'
  BY <1>7, <1>8 DEF Trail
<1>10. n + 1 > 0 => w[n + 1] = i
  BY <1>6
<1>11. QED
  BY <1>9, <1>10, Zenon DEF Reaches

\* What OneDrive resolves the path to is reached by folders of its parts.
LEMMA WaysReach ==
    ASSUME folders \in Seq(Folder), NEW n \in Nat, n > 0, Ways(n) # {}
    PROVE  Reaches("onedrive", n, Resolve(n))
<1>1. PICK w \in Ways(n) : Resolve(n) = w[n]
  BY ResolveFacts
<1>2. /\ w \in [1 .. n -> OnPaths]
      /\ \A k \in 1 .. n : IsChild(w[k], IF k = 1 THEN 0 ELSE w[k - 1], Path[k])
  BY <1>1 DEF Ways
<1>3. \A i \in OnPaths : i \in DOMAIN folders /\ folders[i].drive = "onedrive" /\ ~folders[i].copy
  BY DEF OnPaths
<1>4. w \in [1 .. n -> DOMAIN folders] /\ \A k \in 1 .. n : w[k] \in OnPaths
  BY <1>2, <1>3
<1>5. \A k \in 1 .. n : /\ folders[w[k]].name = Path[k]
                        /\ k > 1 => folders[w[k]].parent = w[k - 1]
  BY <1>2 DEF IsChild
<1>6. Trail("onedrive", n, w)
  BY <1>3, <1>4, <1>5 DEF Trail
<1>7. QED
  BY <1>1, <1>6, Zenon DEF Reaches

--------------------------------------------------------------------------
(* What a step of an upload leaves.                                        *)

LEMMA UploadShape ==
    ASSUME NEW u \in Upload \cup {NoUpload}
    PROVE  /\ u = NoUpload <=> u.drive = "none"
           /\ u = NoUpload => u.pc = "none"
           /\ u # NoUpload => /\ u \in Upload
                              /\ u.drive \in Drive /\ u.id \in 1 .. MaxServed /\ u.size \in Size
                              /\ u.pc \in {"look", "create", "recreate", "send", "session"}
                              /\ u.at \in Nat /\ u.depth \in 0 .. Len(Path) /\ u.sent \in Nat
                              /\ u.fault \in BOOLEAN
BY DEF Upload, NoUpload, Drive, Depth

\* What is on the drives, and what was answered.
FileOn(d) == [drive : Drive, id : 1 .. MaxServed, folder : d]

Delivered ==
    /\ stored' \subseteq FileOn(0 .. Len(folders')) /\ answers' \subseteq stored'
    /\ \A a \in answers' : a.drive # "dropbox" => Reaches(a.drive, Len(Path), a.folder)'

LEMMA NothingSent ==
    ASSUME DriveInv, Extends, UNCHANGED <<stored, answers>>
    PROVE  Delivered
<1>1. folders \in Seq(Folder) /\ Len(folders) \in Nat /\ Len(folders') \in Nat /\ Len(folders) <= Len(folders')
  BY FolderFacts DEF DriveInv, DriveTypeOK, Extends
<1>2. stored' \subseteq FileOn(0 .. Len(folders'))
  BY <1>1 DEF DriveInv, DriveTypeOK, FileOn
<1>3. ASSUME NEW a \in answers', a.drive # "dropbox"
      PROVE  Reaches(a.drive, Len(Path), a.folder)'
  <2>1. PICK d, i : d = a.drive /\ i = a.folder
    OBVIOUS
  <2>2. Reaches(d, Len(Path), i)
    BY <1>3, <2>1 DEF DriveInv, PathInv
  <2>3. Reaches(d, Len(Path), i)'
    BY <1>1, <2>2, PathFacts, ReachesStays
  <2>4. QED
    BY <2>1, <2>3
<1>4. answers' \subseteq stored'
  BY DEF DriveInv, AnsweredIsWhole
<1>5. QED
  BY <1>2, <1>3, <1>4 DEF Delivered

LEMMA Sends ==
    ASSUME DriveInv, folders' = folders, NEW p \in Process, uploads[p] # NoUpload,
           NEW folder \in 0 .. Len(folders), Store(p, folder),
           \/ UNCHANGED answers
           \/ /\ answers' = answers \cup {File(p, folder)}
              /\ uploads[p].drive # "dropbox" => Reaches(uploads[p].drive, Len(Path), folder)
    PROVE  Delivered
<1>1. folders \in Seq(Folder) /\ uploads[p] \in Upload \cup {NoUpload}
  BY DEF DriveInv, DriveTypeOK
<1>2. Extends
  BY <1>1, SameExtends
<1>3. PICK f : f = File(p, folder)
  OBVIOUS
<1>4. f \in FileOn(0 .. Len(folders)) /\ f.drive = uploads[p].drive /\ f.folder = folder
  BY <1>1, <1>3, UploadShape DEF File, FileOn, Up
<1>5. stored' = stored \cup {f} /\ (UNCHANGED answers \/ answers' = answers \cup {f})
  BY <1>3 DEF Store
<1>6. stored' \subseteq FileOn(0 .. Len(folders'))
  BY <1>4, <1>5 DEF DriveInv, DriveTypeOK, FileOn
<1>7. answers' \subseteq stored'
  BY <1>5 DEF DriveInv, AnsweredIsWhole
<1>8. ASSUME NEW a \in answers', a.drive # "dropbox"
      PROVE  Reaches(a.drive, Len(Path), a.folder)'
  <2>1. PICK d, i : d = a.drive /\ i = a.folder
    OBVIOUS
  <2>2. Reaches(d, Len(Path), i)
    <3>1. CASE a \in answers
      BY <1>8, <2>1, <3>1 DEF DriveInv, PathInv
    <3>2. CASE a \notin answers
      <4>1. a = f
        BY <1>5, <3>2
      <4>2. answers' # answers
        BY <3>2
      <4>3. QED
        BY <1>4, <1>8, <2>1, <4>1, <4>2
    <3>3. QED
      BY <3>1, <3>2
  <2>3. Reaches(d, Len(Path), i)'
    BY <1>1, <1>2, <2>2, PathFacts, ReachesStays
  <2>4. QED
    BY <2>1, <2>3
<1>9. QED
  BY <1>6, <1>7, <1>8 DEF Delivered

\* What the history shows: nothing is forgotten, and nothing failed by itself.
Tallied == /\ unexplained' = {}
           /\ overlapped \subseteq overlapped' /\ overlapped' \subseteq Drive
           /\ faulted \subseteq faulted' /\ faulted' \subseteq Drive

LEMMA TalliedSame ==
    ASSUME DriveInv, UNCHANGED <<unexplained, overlapped, faulted>>
    PROVE  Tallied
BY DEF DriveInv, DriveTypeOK, FailsOnlyOnFault, Tallied

LEMMA TalliedFault ==
    ASSUME DriveInv, UNCHANGED <<unexplained, overlapped>>, NEW d \in Drive, faulted' = faulted \cup {d}
    PROVE  Tallied /\ d \in faulted'
BY DEF DriveInv, DriveTypeOK, FailsOnlyOnFault, Tallied

\* An upload raises only after a fault.
LEMMA Raises ==
    ASSUME DriveInv, UNCHANGED overlapped, NEW p \in Process, uploads[p] # NoUpload,
           NEW fault \in BOOLEAN, Raise(p, fault), fault \/ uploads[p].fault
    PROVE  Tallied /\ Turns(p, NoUpload) /\ uploads[p].drive \in faulted'
<1>1. uploads[p] \in Upload \cup {NoUpload}
  BY DEF DriveInv, DriveTypeOK
<1>2. uploads[p].drive \in Drive /\ uploads[p].drive # "none"
  BY <1>1, UploadShape DEF Drive
<1>3. /\ faulted' = faulted \cup {uploads[p].drive} /\ UNCHANGED unexplained
      /\ Release(p) /\ uploads' = [uploads EXCEPT ![p] = NoUpload]
  BY DEF Raise, Up
<1>4. Tallied /\ uploads[p].drive \in faulted'
  BY <1>2, <1>3, TalliedFault
<1>5. Turns(p, NoUpload)
  BY <1>2, <1>3 DEF Turns
<1>6. QED
  BY <1>4, <1>5

\* An upload of another process is where it was.
LEMMA FollowedStays ==
    ASSUME DriveInv, Extends, NEW u \in Upload, Followed(u)
    PROVE  Followed(u)'
<1>1. folders \in Seq(Folder) /\ u.depth \in Nat /\ Len(Path) \in Nat
  BY UploadShape, PathFacts DEF DriveInv, DriveTypeOK, Upload, NoUpload, Depth
<1>2. Reaches("google", u.depth, u.at) => Reaches("google", u.depth, u.at)'
  BY <1>1, ReachesStays
<1>3. (Ways(u.depth) # {} => Ways(u.depth)' # {}) /\ (Ways(Len(Path)) # {} => Ways(Len(Path))' # {})
  BY <1>1, WaysStay
<1>4. QED
  BY <1>2, <1>3 DEF Followed

\* The invariant again, from what the step says of p's upload, the folders and the
\* other uploads.
LEMMA DriveKeeps ==
    ASSUME DriveInv, NEW p \in Process, NEW u \in Upload \cup {NoUpload}, WorkersTypeOK',
           uploads' = [uploads EXCEPT ![p] = u],
           Extends, Delivered, Tallied,
           u # NoUpload => u.at <= Len(folders') /\ Placed(u) /\ Followed(u)' /\ Alone(u)',
           \A v \in Upload, q \in Process : q # p /\ uploads[q] = v /\ Alone(v) => Alone(v)',
           \A d \in Drive : d \notin overlapped' => \A x, y \in Ensuring(d)' : x = y,
           Clean("onedrive")' =>
              \A i \in DOMAIN folders' : folders'[i].drive = "onedrive" => ~folders'[i].copy,
           \A i \in DOMAIN folders' : folders'[i].drive # "dropbox"
                                      /\ (folders'[i].drive = "google" => ~folders'[i].copy),
           NoStrayFolder'
    PROVE  DriveInv'
<1>1. /\ uploads \in [Process -> Upload \cup {NoUpload}] /\ folders \in Seq(Folder)
      /\ uploads'[p] = u /\ \A q \in Process : q # p => uploads'[q] = uploads[q]
  BY DEF DriveInv, DriveTypeOK
<1>2. Len(folders) \in Nat /\ Len(folders') \in Nat /\ Len(folders) <= Len(folders')
  BY <1>1, FolderFacts DEF Extends
<1>3. DriveTypeOK'
  <2>1. uploads' \in [Process -> Upload \cup {NoUpload}]
    BY <1>1
  <2>2. ASSUME NEW q \in Process, uploads'[q] # NoUpload PROVE uploads'[q].at <= Len(folders')
    <3>1. CASE q = p
      BY <1>1, <2>2, <3>1
    <3>2. CASE q # p
      <4>1. uploads[q].at <= Len(folders) /\ uploads[q].at \in Nat /\ uploads'[q] = uploads[q]
        BY <1>1, <2>2, <3>2, UploadShape DEF DriveInv, DriveTypeOK
      <4>2. QED
        BY <1>2, <4>1
    <3>3. QED
      BY <3>1, <3>2
  <2>3. QED
    BY <2>1, <2>2 DEF DriveTypeOK, Delivered, Tallied, Extends, FileOn
<1>4. AnsweredIsWhole' /\ FailsOnlyOnFault'
  BY DEF Delivered, Tallied, AnsweredIsWhole, FailsOnlyOnFault
<1>5. ASSUME NEW q \in Process, uploads'[q] # NoUpload
      PROVE  Placed(uploads'[q]) /\ Followed(uploads[q])' /\ Alone(uploads[q])'
  <2>1. CASE q = p
    <3>1. u # NoUpload
      BY <1>1, <1>5, <2>1
    <3>2. Placed(u) /\ Followed(u)' /\ Alone(u)'
      BY <3>1
    <3>3. QED
      BY <1>1, <2>1, <3>2 DEF Followed, Alone
  <2>2. CASE q # p
    <3>1. PICK v \in Upload : v = uploads[q] /\ v = uploads'[q]
      BY <1>1, <1>5, <2>2
    <3>2. Placed(v) /\ Followed(v) /\ Alone(v)
      BY <1>1, <1>5, <2>2, <3>1 DEF DriveInv, PathInv, CleanInv
    <3>3. Followed(v)'
      BY <3>2, FollowedStays
    <3>4. Alone(v)'
      BY <2>2, <3>1, <3>2
    <3>5. QED
      BY <3>1, <3>2, <3>3, <3>4 DEF Followed, Alone
  <2>3. QED
    BY <2>1, <2>2
<1>6. PathInv'
  BY <1>5 DEF PathInv, Delivered
<1>7. CleanInv'
  BY <1>5 DEF CleanInv
<1>8. QED
  BY <1>3, <1>4, <1>6, <1>7 DEF DriveInv

\* A step that adds no folder.
LEMMA StillKeeps ==
    ASSUME DriveInv, NEW p \in Process, NEW u \in Upload \cup {NoUpload}, WorkersTypeOK',
           uploads' = [uploads EXCEPT ![p] = u],
           folders' = folders, Delivered, Tallied,
           u # NoUpload => u.at <= Len(folders) /\ Placed(u) /\ Followed(u) /\ Alone(u)',
           u.pc \in Looking => uploads[p].drive = u.drive /\ uploads[p].pc \in Looking
    PROVE  DriveInv'
<1>1. uploads \in [Process -> Upload \cup {NoUpload}] /\ folders \in Seq(Folder)
  BY DEF DriveInv, DriveTypeOK
<1>2. Extends
  BY <1>1, SameExtends
<1>3. \A d : Clean(d)' => Clean(d)
  BY DEF Clean, Tallied
<1>4. ASSUME NEW v \in Upload, Alone(v) PROVE Alone(v)'
  <2>1. \A name, parent : Matches(name, parent)' = Matches(name, parent)
    BY DEF Matches
  <2>2. \A n : Ways(n)' = Ways(n)
    BY DEF Ways, OnPaths, IsChild
  <2>3. QED
    BY <1>3, <1>4, <2>1, <2>2 DEF Alone, Tallied
<1>5. ASSUME NEW d \in Drive, d \notin overlapped' PROVE \A x, y \in Ensuring(d)' : x = y
  <2>1. Ensuring(d)' \subseteq Ensuring(d)
    BY <1>1 DEF Ensuring, Up, Looking
  <2>2. d \notin overlapped
    BY <1>5 DEF Tallied
  <2>3. QED
    BY <2>1, <2>2 DEF DriveInv, CleanInv
<1>6. /\ Clean("onedrive")' => \A i \in DOMAIN folders' : folders'[i].drive = "onedrive" => ~folders'[i].copy
      /\ \A i \in DOMAIN folders' : folders'[i].drive # "dropbox"
                                    /\ (folders'[i].drive = "google" => ~folders'[i].copy)
  BY <1>3 DEF DriveInv, CleanInv, PathInv
<1>7. NoStrayFolder'
  BY DEF DriveInv, CleanInv, NoStrayFolder, Tallied
<1>8. u # NoUpload => u.at <= Len(folders') /\ Placed(u) /\ Followed(u)' /\ Alone(u)'
  <2>1. u # NoUpload => Followed(u)'
    BY <1>2, FollowedStays
  <2>2. QED
    BY <2>1
<1>9. QED
  BY <1>2, <1>4, <1>5, <1>6, <1>7, <1>8, DriveKeeps

\* A step that adds one.
LEMMA AddKeeps ==
    ASSUME DriveInv, NEW p \in Process, NEW u \in Upload \cup {NoUpload}, WorkersTypeOK',
           uploads' = [uploads EXCEPT ![p] = u],
           NEW f \in Folder, folders' = Append(folders, f), f.drive # "dropbox",
           f.drive = "google" => ~f.copy,
           UNCHANGED <<stored, answers>>, Tallied,
           u # NoUpload => u.at <= Len(folders') /\ Placed(u) /\ Followed(u)' /\ Alone(u)',
           u.pc \in Looking => uploads[p].drive = u.drive /\ uploads[p].pc \in Looking,
           Clean(f.drive)' =>
              /\ uploads[p].drive = f.drive /\ uploads[p].pc \in Looking
              /\ ~f.copy
              /\ \A i \in DOMAIN folders :
                    ~ (folders[i].drive = f.drive /\ folders[i].name = f.name /\ folders[i].parent = f.parent)
    PROVE  DriveInv'
<1>1. uploads \in [Process -> Upload \cup {NoUpload}] /\ folders \in Seq(Folder)
  BY DEF DriveInv, DriveTypeOK
<1>2. /\ Extends /\ Len(folders') = Len(folders) + 1 /\ folders'[Len(folders) + 1] = f
      /\ DOMAIN folders' = 1 .. Len(folders) + 1 /\ Len(folders) \in Nat /\ DOMAIN folders = 1 .. Len(folders)
  BY <1>1, AddExtends, FolderFacts
<1>3. \A i \in DOMAIN folders : i \in DOMAIN folders' /\ folders'[i] = folders[i]
  BY <1>1, <1>2, ExtendFacts
<1>4. \A i \in DOMAIN folders' : i \notin DOMAIN folders => i = Len(folders) + 1 /\ folders'[i] = f
  BY <1>2
<1>5. \A d : Clean(d)' => Clean(d)
  BY DEF Clean, Tallied
<1>6. Delivered
  BY <1>2, NothingSent
<1>7. ASSUME NEW v \in Upload, NEW q \in Process, q # p, uploads[q] = v, Alone(v)
      PROVE  Alone(v)'
  <2>1. v.drive \in Drive /\ v.fault => v.drive \in faulted'
    BY <1>7 DEF Alone, Tallied
  <2>2. ASSUME v.pc = "create", Clean(v.drive)', v.drive \in Drive PROVE f.drive # v.drive
    <3>1. SUFFICES ASSUME f.drive = v.drive PROVE FALSE
      OBVIOUS
    <3>2. p \in Ensuring(v.drive) /\ q \in Ensuring(v.drive)
      BY <1>7, <2>2, <3>1 DEF Ensuring, Up, Looking
    <3>3. v.drive \notin overlapped
      BY <1>5, <2>2 DEF Clean
    <3>4. QED
      BY <1>7, <2>2, <3>2, <3>3 DEF DriveInv, CleanInv
  <2>3. ASSUME v.drive = "google", v.pc = "create", Clean("google")'
        PROVE  Matches(Path[v.depth + 1], v.at)' = {}
    <3>1. f.drive # "google" /\ Matches(Path[v.depth + 1], v.at) = {}
      BY <1>5, <1>7, <2>2, <2>3 DEF Alone, Drive
    <3>2. QED
      BY <1>3, <1>4, <3>1 DEF Matches
  <2>4. ASSUME v.drive = "onedrive", v.pc = "create", Clean("onedrive")'
        PROVE  Ways(v.depth + 1)' = {}
    <3>1. f.drive # "onedrive" /\ Ways(v.depth + 1) = {}
      BY <1>5, <1>7, <2>2, <2>4 DEF Alone, Drive
    <3>2. OnPaths' = OnPaths /\ OnPaths \subseteq DOMAIN folders
      BY <1>3, <1>4, <3>1 DEF OnPaths
    <3>3. \A i \in OnPaths : folders'[i] = folders[i]
      BY <1>3, <3>2
    <3>4. ASSUME NEW w \in Ways(v.depth + 1)' PROVE FALSE
      <4>1. /\ w \in [1 .. v.depth + 1 -> OnPaths]
            /\ \A k \in 1 .. v.depth + 1 : IsChild(w[k], IF k = 1 THEN 0 ELSE w[k - 1], Path[k])'
        BY <3>2 DEF Ways
      <4>2. \A k \in 1 .. v.depth + 1 : w[k] \in OnPaths
        BY <4>1
      <4>3. \A k \in 1 .. v.depth + 1 : IsChild(w[k], IF k = 1 THEN 0 ELSE w[k - 1], Path[k])
        BY <3>3, <4>1, <4>2, ZenonT(40) DEF IsChild
      <4>4. w \in Ways(v.depth + 1)
        BY <4>1, <4>3 DEF Ways
      <4>5. QED
        BY <3>1, <4>4
    <3>5. QED
      BY <3>4
  <2>5. QED
    BY <2>1, <2>3, <2>4 DEF Alone
<1>8. ASSUME NEW d \in Drive, d \notin overlapped' PROVE \A x, y \in Ensuring(d)' : x = y
  <2>1. Ensuring(d)' \subseteq Ensuring(d)
    BY <1>1 DEF Ensuring, Up, Looking
  <2>2. d \notin overlapped
    BY <1>8 DEF Tallied
  <2>3. QED
    BY <2>1, <2>2 DEF DriveInv, CleanInv
<1>9. ASSUME Clean("onedrive")', NEW i \in DOMAIN folders', folders'[i].drive = "onedrive"
      PROVE  ~folders'[i].copy
  BY <1>3, <1>4, <1>5, <1>9 DEF DriveInv, CleanInv
<1>10. \A i \in DOMAIN folders' : folders'[i].drive # "dropbox"
                                  /\ (folders'[i].drive = "google" => ~folders'[i].copy)
  BY <1>3, <1>4 DEF DriveInv, PathInv
<1>11. NoStrayFolder'
  <2> SUFFICES ASSUME NEW i \in DOMAIN folders', NEW j \in DOMAIN folders', i # j,
                      folders'[i].drive = folders'[j].drive, folders'[i].name = folders'[j].name,
                      folders'[i].parent = folders'[j].parent,
                      folders'[i].drive \notin overlapped' \cup faulted'
               PROVE  FALSE
    BY DEF NoStrayFolder
  <2>1. folders'[i].drive \notin overlapped \cup faulted
    BY DEF Tallied
  <2>2. CASE i \in DOMAIN folders /\ j \in DOMAIN folders
    BY <1>3, <2>1, <2>2 DEF DriveInv, CleanInv, NoStrayFolder
  <2>3. CASE i \notin DOMAIN folders
    <3>1. folders'[i] = f /\ j \in DOMAIN folders /\ folders'[j] = folders[j]
      BY <1>3, <1>4, <2>3
    <3>2. Clean(f.drive)'
      BY <3>1 DEF Clean
    <3>3. QED
      BY <3>1, <3>2
  <2>4. CASE j \notin DOMAIN folders
    <3>1. folders'[j] = f /\ i \in DOMAIN folders /\ folders'[i] = folders[i]
      BY <1>3, <1>4, <2>4
    <3>2. Clean(f.drive)'
      BY <3>1 DEF Clean
    <3>3. QED
      BY <3>1, <3>2
  <2>5. QED
    BY <2>2, <2>3, <2>4
<1>12. QED
  BY <1>2, <1>6, <1>7, <1>8, <1>9, <1>10, <1>11, DriveKeeps

--------------------------------------------------------------------------
(* The steps of an upload.                                                 *)

\* What is known of process p's upload.
LEMMA AtUp ==
    ASSUME DriveInv, NEW p \in Process, uploads[p].drive # "none"
    PROVE  /\ uploads[p] # NoUpload /\ uploads[p] \in Upload /\ uploads[p].drive \in Drive
           /\ uploads[p].at \in Nat /\ uploads[p].at <= Len(folders)
           /\ uploads[p].depth \in 0 .. Len(Path) /\ uploads[p].depth \in Nat
           /\ uploads[p].fault \in BOOLEAN
           /\ Placed(uploads[p]) /\ Followed(uploads[p]) /\ Alone(uploads[p])
           /\ folders \in Seq(Folder) /\ WorkersTypeOK
<1>1. uploads[p] \in Upload \cup {NoUpload} /\ folders \in Seq(Folder) /\ WorkersTypeOK
  BY DEF DriveInv, DriveTypeOK
<1>2. uploads[p] # NoUpload
  BY DEF NoUpload
<1>3. uploads[p].at <= Len(folders) /\ Placed(uploads[p]) /\ Followed(uploads[p]) /\ Alone(uploads[p])
  BY <1>2 DEF DriveInv, DriveTypeOK, PathInv, CleanInv
<1>4. QED
  BY <1>1, <1>2, <1>3, UploadShape, PathFacts

\* p's upload goes on as u.
LEMMA BecomesTurns ==
    ASSUME DriveInv, NEW p \in Process, uploads[p].drive # "none", NEW u, Becomes(p, u)
    PROVE  Turns(p, u) /\ WorkersTypeOK' /\ uploads' = [uploads EXCEPT ![p] = u]
BY WorkersStay DEF DriveInv, Becomes, Turns

LEMMA ReturnTurns ==
    ASSUME DriveInv, NEW p \in Process, uploads[p].drive # "none", NEW folder, Return(p, folder)
    PROVE  /\ Turns(p, NoUpload) /\ WorkersTypeOK' /\ uploads' = [uploads EXCEPT ![p] = NoUpload]
           /\ answers' = answers \cup {File(p, folder)}
BY WorkersStay DEF DriveInv, Return, Turns

\* The next part of the path, or the content after the last one.
LEMMA NextPartFacts ==
    ASSUME NEW v \in Upload, v.depth < Len(Path), NEW p
    PROVE  \E u \in Upload :
               /\ u = NextPart(p, v)
               /\ u.drive = v.drive /\ u.at = v.at /\ u.fault = v.fault /\ u.size = v.size
               /\ u.depth = v.depth + 1
               /\ u.pc = IF v.depth + 1 = Len(Path) THEN "send" ELSE "look"
<1>1. PICK u : u = NextPart(p, v)
  OBVIOUS
<1>2. u = [v EXCEPT !.depth = @ + 1, !.pc = IF v.depth + 1 = Len(Path) THEN "send" ELSE "look"]
  BY <1>1 DEF NextPart
<1>3. v.depth + 1 \in Depth
  BY PathFacts DEF Upload, Depth
<1>4. /\ u \in Upload /\ u.drive = v.drive /\ u.at = v.at /\ u.fault = v.fault /\ u.size = v.size
      /\ u.depth = v.depth + 1
      /\ u.pc = IF v.depth + 1 = Len(Path) THEN "send" ELSE "look"
  BY <1>2, <1>3 DEF Upload
<1>5. QED
  BY <1>1, <1>4

LEMMA StartCloudUploadKeeps ==
    ASSUME DriveInv, NEW p \in Process, NEW d \in Drive, NEW size \in Size, StartCloudUpload(p, d, size),
           uploads[p] = NoUpload
    PROVE  DriveInv' /\ \E u : Turns(p, u)
<1>1. PICK u : u = [drive |-> d, id |-> served + 1, size |-> size,
                    pc |-> IF d = "dropbox" THEN "send" ELSE "look",
                    at |-> 0, depth |-> 0, sent |-> 0, fault |-> FALSE]
  OBVIOUS
<1>2. /\ Accept(p) /\ uploads' = [uploads EXCEPT ![p] = u]
      /\ overlapped' = IF d # "dropbox" /\ Ensuring(d) # {} THEN overlapped \cup {d} ELSE overlapped
      /\ UNCHANGED <<folders, stored, answers, unexplained, faulted>>
  BY <1>1 DEF StartCloudUpload
<1>3. Turns(p, u)
  BY <1>2 DEF Turns
<1>4. WorkersTypeOK' /\ served + 1 \in 1 .. MaxServed
  BY <1>2, WorkersStay, WorkersAssumption DEF DriveInv, WorkersTypeOK, Accept, Free
<1>5. /\ u \in Upload /\ u.drive = d /\ u.depth = 0 /\ u.at = 0 /\ u.fault = FALSE
      /\ u.pc = IF d = "dropbox" THEN "send" ELSE "look"
  BY <1>1, <1>4, PathFacts DEF Upload, Depth
<1>6. /\ folders \in Seq(Folder) /\ Len(folders) \in Nat
      /\ uploads \in [Process -> Upload \cup {NoUpload}]
  BY FolderFacts DEF DriveInv, DriveTypeOK
<1>7. Extends /\ Delivered
  BY <1>2, <1>6, SameExtends, NothingSent
<1>8. Tallied
  BY <1>2 DEF DriveInv, DriveTypeOK, FailsOnlyOnFault, Tallied
<1>9. Placed(u)
  BY <1>5, PathFacts DEF Placed, Looking, Drive
<1>10. Followed(u)
  <2>1. Ways(0) # {}
    BY WaysStart
  <2>2. Reaches("google", 0, 0)
    <3>1. PICK w : w = [k \in 1 .. 0 |-> 1]
      OBVIOUS
    <3>2. Trail("google", 0, w)
      BY <3>1 DEF Trail
    <3>3. 0 > 0 => w[0] = 0
      OBVIOUS
    <3>4. QED
      BY <3>2, <3>3, Zenon DEF Reaches
  <2>3. u.drive = "onedrive" => u.pc # "session"
    BY <1>5
  <2>4. QED
    BY <1>5, <2>1, <2>2, <2>3 DEF Followed
<1>11. Followed(u)'
  BY <1>5, <1>7, <1>10, FollowedStays
<1>12. Alone(u)'
  BY <1>5 DEF Alone
<1>13. \A e : Clean(e)' => Clean(e)
  BY <1>8 DEF Clean, Tallied
<1>14. ASSUME NEW v \in Upload, Alone(v) PROVE Alone(v)'
  <2>1. \A name, parent : Matches(name, parent)' = Matches(name, parent)
    BY <1>2 DEF Matches
  <2>2. \A n : Ways(n)' = Ways(n)
    BY <1>2 DEF Ways, OnPaths, IsChild
  <2>3. QED
    BY <1>8, <1>13, <1>14, <2>1, <2>2 DEF Alone, Tallied
<1>15. ASSUME NEW e \in Drive, e \notin overlapped' PROVE \A x, y \in Ensuring(e)' : x = y
  <2>1. e \notin overlapped
    BY <1>2, <1>15
  <2>2. \A x, y \in Ensuring(e) : x = y
    BY <2>1 DEF DriveInv, CleanInv
  <2>3. CASE e # d \/ d = "dropbox"
    <3>1. Ensuring(e)' \subseteq Ensuring(e)
      BY <1>2, <1>5, <1>6, <2>3 DEF Ensuring, Up
    <3>2. QED
      BY <2>2, <3>1
  <2>4. CASE e = d /\ d # "dropbox"
    <3>1. Ensuring(d) = {}
      BY <1>2, <1>15, <2>4
    <3>2. Ensuring(e)' \subseteq {p}
      BY <1>2, <1>6, <2>4, <3>1 DEF Ensuring, Up
    <3>3. QED
      BY <3>2
  <2>5. QED
    BY <2>3, <2>4
<1>16. /\ Clean("onedrive")' => \A i \in DOMAIN folders' : folders'[i].drive = "onedrive" => ~folders'[i].copy
       /\ \A i \in DOMAIN folders' : folders'[i].drive # "dropbox"
                                     /\ (folders'[i].drive = "google" => ~folders'[i].copy)
  BY <1>2, <1>13 DEF DriveInv, CleanInv, PathInv
<1>17. NoStrayFolder'
  BY <1>2, <1>8 DEF DriveInv, CleanInv, NoStrayFolder, Tallied
<1>18. u.at <= Len(folders')
  BY <1>2, <1>5, <1>6
<1>19. DriveInv'
  BY <1>2, <1>4, <1>5, <1>7, <1>8, <1>9, <1>11, <1>12, <1>14, <1>15, <1>16, <1>17, <1>18, DriveKeeps
<1>20. QED
  BY <1>3, <1>19

LEMMA GoogleLookKeeps ==
    ASSUME DriveInv, NEW p \in Process, GoogleLook(p)
    PROVE  DriveInv' /\ \E u : Turns(p, u)
<1>1. PICK v : v = uploads[p]
  OBVIOUS
<1>2. /\ v.drive = "google" /\ v.pc = "look"
      /\ UNCHANGED <<folders, stored, answers, unexplained, overlapped, faulted>>
  BY <1>1 DEF GoogleLook, Is, Up
<1>3. /\ v \in Upload /\ v.at \in Nat /\ v.at <= Len(folders) /\ v.depth \in Nat /\ v.depth < Len(Path)
      /\ v.depth \in 0 .. Len(Path)
      /\ Placed(v) /\ Followed(v) /\ Alone(v) /\ folders \in Seq(Folder) /\ uploads[p].drive # "none"
  BY <1>1, <1>2, AtUp DEF Placed, Looking, Followed, Alone
<1>4. Extends /\ Delivered /\ Tallied /\ Len(folders) \in Nat /\ DOMAIN folders = 1 .. Len(folders)
  BY <1>2, <1>3, SameExtends, NothingSent, TalliedSame, FolderFacts
<1>5. CASE Matches(Path[v.depth + 1], v.at) = {}
  <2>1. PICK u : u = [v EXCEPT !.pc = "create"]
    OBVIOUS
  <2>2. Becomes(p, u)
    BY <1>1, <1>5, <2>1 DEF GoogleLook, Up, Name
  <2>3. /\ u \in Upload /\ u.drive = "google" /\ u.pc = "create" /\ u.at = v.at /\ u.depth = v.depth
        /\ u.fault = v.fault
    BY <1>2, <1>3, <2>1 DEF Upload
  <2>4. Placed(u) /\ Followed(u)
    BY <1>2, <1>3, <2>3 DEF Placed, Looking, Followed
  <2>5. Matches(Path[v.depth + 1], v.at)' = {}
    BY <1>2, <1>5 DEF Matches
  <2>6. Alone(u)'
    BY <1>2, <1>3, <2>3, <2>5 DEF Alone
  <2>7. Turns(p, u) /\ WorkersTypeOK' /\ uploads' = [uploads EXCEPT ![p] = u]
    BY <1>3, <2>2, BecomesTurns
  <2>8. u.pc \in Looking => uploads[p].drive = u.drive /\ uploads[p].pc \in Looking
    BY <1>1, <1>2, <2>3 DEF Looking
  <2>9. DriveInv'
    BY <1>2, <1>3, <1>4, <2>3, <2>4, <2>6, <2>7, <2>8, StillKeeps
  <2>10. QED
    BY <2>7, <2>9
<1>6. CASE Matches(Path[v.depth + 1], v.at) # {}
  <2>1. PICK i \in Matches(Path[v.depth + 1], v.at) : Becomes(p, NextPart(p, [v EXCEPT !.at = i]))
    BY <1>1, <1>6 DEF GoogleLook, Up, Name
  <2>2. /\ i \in DOMAIN folders /\ folders[i].drive = "google" /\ folders[i].name = Path[v.depth + 1]
        /\ v.at # 0 => folders[i].parent = v.at
    BY <2>1 DEF Matches
  <2>3. PICK x : x = [v EXCEPT !.at = i]
    OBVIOUS
  <2>4. i \in Nat /\ i <= Len(folders) /\ i >= 1
    BY <1>4, <2>2
  <2>5. x \in Upload /\ x.drive = "google" /\ x.at = i /\ x.depth = v.depth /\ x.fault = v.fault
    BY <1>2, <1>3, <2>3, <2>4 DEF Upload
  <2>6. x.depth < Len(Path)
    BY <1>3, <2>5
  <2>7. PICK u \in Upload :
               /\ u = NextPart(p, x)
               /\ u.drive = x.drive /\ u.at = x.at /\ u.fault = x.fault /\ u.size = x.size
               /\ u.depth = x.depth + 1
               /\ u.pc = IF x.depth + 1 = Len(Path) THEN "send" ELSE "look"
    BY <2>5, <2>6, NextPartFacts, Zenon
  <2>8. Becomes(p, u)
    BY <2>1, <2>3, <2>7
  <2>9. Placed(u)
    BY <1>3, <2>5, <2>7, PathFacts DEF Placed, Looking
  <2>10. Reaches("google", v.depth, v.at)
    BY <1>2, <1>3 DEF Followed
  <2>11. /\ folders'[i].drive = "google" /\ ~folders'[i].copy /\ folders'[i].name = Path[v.depth + 1]
         /\ i \in DOMAIN folders' /\ (v.depth > 0 => folders'[i].parent = v.at)
    <3>1. v.depth > 0 => v.at # 0
      BY <1>2, <1>3, <1>4 DEF Followed, Reaches, Trail
    <3>2. QED
      BY <1>2, <2>2, <3>1 DEF DriveInv, PathInv
  <2>12. Reaches("google", v.depth + 1, i)'
    BY <1>3, <1>4, <2>10, <2>11, TrailFurther
  <2>13. Reaches("google", v.depth + 1, i)
    BY <1>2, <2>12 DEF Reaches, Trail
  <2>14. Followed(u)
    BY <1>3, <2>5, <2>7, <2>13 DEF Followed
  <2>15. Alone(u)'
    BY <1>2, <1>3, <2>5, <2>7 DEF Alone
  <2>16. Turns(p, u) /\ WorkersTypeOK' /\ uploads' = [uploads EXCEPT ![p] = u]
    BY <1>3, <2>8, BecomesTurns
  <2>17. u.pc \in Looking => uploads[p].drive = u.drive /\ uploads[p].pc \in Looking
    BY <1>1, <1>2, <2>5, <2>7 DEF Looking
  <2>18. u.at <= Len(folders)
    BY <2>4, <2>5, <2>7
  <2>19. DriveInv'
    BY <1>2, <1>3, <1>4, <2>7, <2>9, <2>14, <2>15, <2>16, <2>17, <2>18, StillKeeps
  <2>20. QED
    BY <2>16, <2>19
<1>7. QED
  BY <1>5, <1>6

LEMMA GoogleCreateKeeps ==
    ASSUME DriveInv, NEW p \in Process, GoogleCreate(p)
    PROVE  DriveInv' /\ \E u : Turns(p, u)
<1>1. PICK v : v = uploads[p]
  OBVIOUS
<1>2. PICK f : f = [drive |-> "google", name |-> Path[v.depth + 1], parent |-> v.at, copy |-> FALSE]
  OBVIOUS
<1>3. PICK x : x = [v EXCEPT !.at = NewId]
  OBVIOUS
<1>4. /\ v.drive = "google" /\ v.pc = "create"
      /\ folders' = Append(folders, f) /\ Becomes(p, NextPart(p, x))
      /\ UNCHANGED <<stored, answers, unexplained, overlapped, faulted>>
  BY <1>1, <1>2, <1>3 DEF GoogleCreate, Is, Up, Name, ParentOf, AddFolder
<1>5. /\ v \in Upload /\ v.at \in Nat /\ v.at <= Len(folders) /\ v.depth \in Nat /\ v.depth < Len(Path)
      /\ v.depth \in 0 .. Len(Path)
      /\ Placed(v) /\ Followed(v) /\ Alone(v) /\ folders \in Seq(Folder) /\ uploads[p].drive # "none"
  BY <1>1, <1>4, AtUp DEF Placed, Looking, Followed, Alone
<1>6. /\ f \in Folder /\ f.drive = "google" /\ f.name = Path[v.depth + 1] /\ f.parent = v.at /\ ~f.copy
  <2>1. Path[v.depth + 1] \in Names
    BY <1>5, PathFacts
  <2>2. QED
    BY <1>2, <1>5, <2>1 DEF Folder, Drive
<1>7. /\ Extends /\ Len(folders') = Len(folders) + 1 /\ folders'[Len(folders) + 1] = f
      /\ DOMAIN folders' = 1 .. Len(folders) + 1 /\ Len(folders) \in Nat /\ Tallied
  BY <1>4, <1>5, <1>6, AddExtends, FolderFacts, TalliedSame
<1>8. NewId = Len(folders) + 1 /\ NewId \in Nat /\ NewId \in DOMAIN folders'
  BY <1>7 DEF NewId
<1>9. x \in Upload /\ x.drive = "google" /\ x.at = Len(folders) + 1 /\ x.depth = v.depth /\ x.fault = v.fault
  BY <1>3, <1>4, <1>5, <1>8 DEF Upload
<1>10. x.depth < Len(Path)
  BY <1>5, <1>9
<1>11. PICK u \in Upload :
             /\ u = NextPart(p, x)
             /\ u.drive = x.drive /\ u.at = x.at /\ u.fault = x.fault /\ u.size = x.size
             /\ u.depth = x.depth + 1
             /\ u.pc = IF x.depth + 1 = Len(Path) THEN "send" ELSE "look"
  BY <1>9, <1>10, NextPartFacts, Zenon
<1>12. Becomes(p, u)
  BY <1>4, <1>11
<1>13. Placed(u)
  BY <1>5, <1>9, <1>11, PathFacts DEF Placed, Looking
<1>14. Reaches("google", v.depth, v.at)
  BY <1>4, <1>5 DEF Followed
<1>15. Reaches("google", u.depth, u.at)'
  <2>1. PICK i : i = Len(folders) + 1
    OBVIOUS
  <2>2. /\ i \in DOMAIN folders' /\ folders'[i].drive = "google" /\ ~folders'[i].copy
        /\ folders'[i].name = Path[v.depth + 1] /\ folders'[i].parent = v.at
    BY <1>6, <1>7, <1>8, <2>1
  <2>3. Reaches("google", v.depth + 1, i)'
    BY <1>5, <1>7, <1>14, <2>2, TrailFurther
  <2>4. u.at = i /\ u.depth = v.depth + 1
    BY <1>9, <1>11, <2>1
  <2>5. QED
    BY <2>3, <2>4
<1>16. Followed(u)'
  <2>1. u.drive = "google" /\ u.depth # 0
    BY <1>5, <1>9, <1>11
  <2>2. QED
    BY <1>15, <2>1 DEF Followed
<1>17. Alone(u)'
  BY <1>4, <1>5, <1>9, <1>11 DEF Alone
<1>18. Turns(p, u) /\ WorkersTypeOK' /\ uploads' = [uploads EXCEPT ![p] = u]
  BY <1>5, <1>12, BecomesTurns
<1>19. u.pc \in Looking => uploads[p].drive = u.drive /\ uploads[p].pc \in Looking
  BY <1>1, <1>4, <1>9, <1>11 DEF Looking
<1>20. ASSUME Clean(f.drive)'
       PROVE  /\ uploads[p].drive = f.drive /\ uploads[p].pc \in Looking /\ ~f.copy
              /\ \A i \in DOMAIN folders :
                    ~ (folders[i].drive = f.drive /\ folders[i].name = f.name /\ folders[i].parent = f.parent)
  <2>1. Clean("google")
    BY <1>6, <1>20, <1>4 DEF Clean
  <2>2. Matches(Path[v.depth + 1], v.at) = {}
    BY <1>4, <1>5, <2>1 DEF Alone
  <2>3. QED
    BY <1>1, <1>4, <1>6, <2>2 DEF Matches, Looking
<1>21. u.at <= Len(folders')
  BY <1>7, <1>9, <1>11
<1>22. DriveInv'
  BY <1>4, <1>6, <1>7, <1>11, <1>13, <1>16, <1>17, <1>18, <1>19, <1>20, <1>21, AddKeeps
<1>23. QED
  BY <1>18, <1>22

LEMMA GoogleSendKeeps ==
    ASSUME DriveInv, NEW p \in Process, GoogleSend(p)
    PROVE  DriveInv' /\ \E u : Turns(p, u)
<1>1. PICK v : v = uploads[p]
  OBVIOUS
<1>2. /\ v.drive = "google" /\ v.pc = "send" /\ Store(p, v.at) /\ Return(p, v.at)
      /\ UNCHANGED <<folders, unexplained, overlapped, faulted>>
  BY <1>1 DEF GoogleSend, Is, Up
<1>3. /\ v # NoUpload /\ v.at \in Nat /\ v.at <= Len(folders) /\ Placed(v) /\ Followed(v)
      /\ folders \in Seq(Folder) /\ uploads[p].drive # "none"
  BY <1>1, <1>2, AtUp DEF Followed
<1>4. v.at \in 0 .. Len(folders)
  BY <1>3, FolderFacts
<1>5. v.depth = Len(Path)
  BY <1>2, <1>3 DEF Placed
<1>6. Reaches("google", Len(Path), v.at)
  BY <1>2, <1>3, <1>5 DEF Followed
<1>7. /\ Turns(p, NoUpload) /\ WorkersTypeOK' /\ uploads' = [uploads EXCEPT ![p] = NoUpload]
      /\ answers' = answers \cup {File(p, v.at)}
  BY <1>2, <1>3, ReturnTurns
<1>8. Delivered
  BY <1>1, <1>2, <1>3, <1>4, <1>6, <1>7, Sends
<1>9. Tallied
  BY <1>2, TalliedSame
<1>10. NoUpload.pc \notin Looking
  BY DEF NoUpload, Looking
<1>11. DriveInv'
  BY <1>2, <1>7, <1>8, <1>9, <1>10, StillKeeps
<1>12. QED
  BY <1>7, <1>11

--------------------------------------------------------------------------
(* OneDrive.                                                               *)

LEMMA OneDriveLookKeeps ==
    ASSUME DriveInv, NEW p \in Process, OneDriveLook(p)
    PROVE  DriveInv' /\ \E u : Turns(p, u)
<1>1. PICK v : v = uploads[p]
  OBVIOUS
<1>2. /\ v.drive = "onedrive" /\ v.pc = "look"
      /\ UNCHANGED <<folders, stored, answers, unexplained, overlapped, faulted>>
  BY <1>1 DEF OneDriveLook, Is, Up
<1>3. /\ v \in Upload /\ v.at \in Nat /\ v.at <= Len(folders) /\ v.depth \in Nat /\ v.depth < Len(Path)
      /\ v.depth \in 0 .. Len(Path)
      /\ Placed(v) /\ Followed(v) /\ Alone(v) /\ folders \in Seq(Folder) /\ uploads[p].drive # "none"
  BY <1>1, <1>2, AtUp DEF Placed, Looking, Followed, Alone
<1>4. Extends /\ Delivered /\ Tallied
  BY <1>2, <1>3, SameExtends, NothingSent, TalliedSame
<1>5. /\ Ways(v.depth + 1) = {} => Resolve(v.depth + 1) = Nowhere
      /\ Ways(v.depth + 1) # {} => Resolve(v.depth + 1) # Nowhere
  <2>1. v.depth + 1 \in Nat
    BY <1>3
  <2>2. QED
    BY <1>3, <2>1, ResolveFacts
<1>6. CASE Resolve(v.depth + 1) = Nowhere
  <2>1. PICK u : u = [v EXCEPT !.pc = "create"]
    OBVIOUS
  <2>2. Becomes(p, u)
    BY <1>1, <1>6, <2>1 DEF OneDriveLook, Up
  <2>3. /\ u \in Upload /\ u.drive = "onedrive" /\ u.pc = "create" /\ u.at = v.at /\ u.depth = v.depth
        /\ u.fault = v.fault
    BY <1>2, <1>3, <2>1 DEF Upload
  <2>4. Placed(u) /\ Followed(u)
    BY <1>2, <1>3, <2>3 DEF Placed, Looking, Followed
  <2>5. Ways(v.depth + 1)' = {}
    BY <1>2, <1>5, <1>6 DEF Ways, OnPaths, IsChild
  <2>6. Alone(u)'
    BY <1>2, <1>3, <2>3, <2>5 DEF Alone
  <2>7. Turns(p, u) /\ WorkersTypeOK' /\ uploads' = [uploads EXCEPT ![p] = u]
    BY <1>3, <2>2, BecomesTurns
  <2>8. u.pc \in Looking => uploads[p].drive = u.drive /\ uploads[p].pc \in Looking
    BY <1>1, <1>2, <2>3 DEF Looking
  <2>9. DriveInv'
    BY <1>2, <1>3, <1>4, <2>3, <2>4, <2>6, <2>7, <2>8, StillKeeps
  <2>10. QED
    BY <2>7, <2>9
<1>7. CASE Resolve(v.depth + 1) # Nowhere
  <2>1. Becomes(p, NextPart(p, v))
    BY <1>1, <1>7 DEF OneDriveLook, Up
  <2>2. PICK u \in Upload :
               /\ u = NextPart(p, v)
               /\ u.drive = v.drive /\ u.at = v.at /\ u.fault = v.fault /\ u.size = v.size
               /\ u.depth = v.depth + 1
               /\ u.pc = IF v.depth + 1 = Len(Path) THEN "send" ELSE "look"
    BY <1>3, NextPartFacts, Zenon
  <2>3. Becomes(p, u)
    BY <2>1, <2>2
  <2>4. Placed(u)
    BY <1>2, <1>3, <2>2, PathFacts DEF Placed, Looking
  <2>5. Followed(u)
    BY <1>2, <1>5, <1>7, <2>2 DEF Followed
  <2>6. Alone(u)'
    BY <1>2, <1>3, <2>2 DEF Alone
  <2>7. Turns(p, u) /\ WorkersTypeOK' /\ uploads' = [uploads EXCEPT ![p] = u]
    BY <1>3, <2>3, BecomesTurns
  <2>8. u.pc \in Looking => uploads[p].drive = u.drive /\ uploads[p].pc \in Looking
    BY <1>1, <1>2, <2>2 DEF Looking
  <2>9. u.at <= Len(folders)
    BY <1>3, <2>2
  <2>10. DriveInv'
    BY <1>2, <1>3, <1>4, <2>2, <2>4, <2>5, <2>6, <2>7, <2>8, <2>9, StillKeeps
  <2>11. QED
    BY <2>7, <2>10
<1>8. QED
  BY <1>6, <1>7

LEMMA OneDriveLookStatusKeeps ==
    ASSUME DriveInv, NEW p \in Process, OneDriveLookStatus(p)
    PROVE  DriveInv' /\ \E u : Turns(p, u)
<1>1. PICK v : v = uploads[p]
  OBVIOUS
<1>2. PICK x : x = [v EXCEPT !.fault = TRUE]
  OBVIOUS
<1>3. /\ v.drive = "onedrive" /\ v.pc = "look" /\ Becomes(p, NextPart(p, x))
      /\ faulted' = faulted \cup {"onedrive"}
      /\ UNCHANGED <<folders, stored, answers, unexplained, overlapped>>
  BY <1>1, <1>2 DEF OneDriveLookStatus, Is, Up
<1>4. /\ v \in Upload /\ v.at \in Nat /\ v.at <= Len(folders) /\ v.depth \in Nat /\ v.depth < Len(Path)
      /\ folders \in Seq(Folder) /\ uploads[p].drive # "none"
  BY <1>1, <1>3, AtUp DEF Placed, Looking
<1>5. Extends /\ Delivered /\ Tallied /\ "onedrive" \in faulted'
  BY <1>3, <1>4, SameExtends, NothingSent, TalliedFault DEF Drive
<1>6. /\ x \in Upload /\ x.drive = "onedrive" /\ x.at = v.at /\ x.depth = v.depth /\ x.fault
      /\ x.depth < Len(Path)
  BY <1>2, <1>3, <1>4 DEF Upload
<1>7. PICK u \in Upload :
             /\ u = NextPart(p, x)
             /\ u.drive = x.drive /\ u.at = x.at /\ u.fault = x.fault /\ u.size = x.size
             /\ u.depth = x.depth + 1
             /\ u.pc = IF x.depth + 1 = Len(Path) THEN "send" ELSE "look"
  BY <1>6, NextPartFacts, Zenon
<1>8. Becomes(p, u)
  BY <1>3, <1>7
<1>9. Placed(u)
  BY <1>4, <1>6, <1>7, PathFacts DEF Placed, Looking
<1>10. Followed(u)
  BY <1>6, <1>7 DEF Followed
<1>11. Alone(u)'
  BY <1>5, <1>6, <1>7 DEF Alone
<1>12. Turns(p, u) /\ WorkersTypeOK' /\ uploads' = [uploads EXCEPT ![p] = u]
  BY <1>4, <1>8, BecomesTurns
<1>13. u.pc \in Looking => uploads[p].drive = u.drive /\ uploads[p].pc \in Looking
  BY <1>1, <1>3, <1>6, <1>7 DEF Looking
<1>14. u.at <= Len(folders)
  BY <1>4, <1>6, <1>7
<1>15. DriveInv'
  BY <1>3, <1>5, <1>7, <1>9, <1>10, <1>11, <1>12, <1>13, <1>14, StillKeeps
<1>16. QED
  BY <1>12, <1>15

\* A folder that OnPaths has can be gone into.
LEMMA WaysFurtherHere ==
    ASSUME folders \in Seq(Folder), NEW n \in Nat, NEW v \in Ways(n), NEW i \in OnPaths,
           IsChild(i, IF n = 0 THEN 0 ELSE v[n], Path[n + 1])
    PROVE  Ways(n + 1) # {}
<1>1. /\ v \in [1 .. n -> OnPaths]
      /\ \A k \in 1 .. n : IsChild(v[k], IF k = 1 THEN 0 ELSE v[k - 1], Path[k])
  BY DEF Ways
<1>2. PICK w : w = [k \in 1 .. n + 1 |-> IF k = n + 1 THEN i ELSE v[k]]
  OBVIOUS
<1>3. /\ \A k \in 1 .. n : k \in 1 .. n + 1 /\ w[k] = v[k]
      /\ w[n + 1] = i /\ w \in [1 .. n + 1 -> OnPaths]
  BY <1>1, <1>2
<1>4. ASSUME NEW k \in 1 .. n + 1
      PROVE  IsChild(w[k], IF k = 1 THEN 0 ELSE w[k - 1], Path[k])
  <2>1. CASE k = n + 1
    <3>1. w[k] = i /\ (IF k = 1 THEN 0 ELSE w[k - 1]) = IF n = 0 THEN 0 ELSE v[n]
      BY <1>3, <2>1
    <3>2. QED
      BY <2>1, <3>1
  <2>2. CASE k # n + 1
    <3>1. k \in 1 .. n /\ w[k] = v[k] /\ (k # 1 => w[k - 1] = v[k - 1])
      BY <1>3, <2>2
    <3>2. (IF k = 1 THEN 0 ELSE w[k - 1]) = IF k = 1 THEN 0 ELSE v[k - 1]
      BY <3>1
    <3>3. QED
      BY <1>1, <3>1, <3>2
  <2>3. QED
    BY <2>1, <2>2
<1>5. w \in Ways(n + 1)
  BY <1>3, <1>4 DEF Ways
<1>6. QED
  BY <1>5

LEMMA ChildFacts ==
    ASSUME folders \in Seq(Folder), NEW parent, NEW name
    PROVE  Child(parent, name) # Nowhere <=> \E i \in OnPaths : IsChild(i, parent, name)
<1>1. Len(folders) \in Nat /\ DOMAIN folders = 1 .. Len(folders)
  BY FolderFacts
<1>2. PICK hits : hits = {i \in OnPaths : IsChild(i, parent, name)}
  OBVIOUS
<1>3. Child(parent, name) = IF hits = {} THEN Nowhere ELSE CHOOSE i \in hits : TRUE
  BY <1>2 DEF Child
<1>4. \A i \in hits : i \in 1 .. Len(folders)
  BY <1>1, <1>2 DEF OnPaths
<1>5. CASE hits = {}
  BY <1>2, <1>3, <1>5
<1>6. CASE hits # {}
  <2>1. PICK i : i = CHOOSE j \in hits : TRUE
    OBVIOUS
  <2>2. i \in hits
    BY <1>6, <2>1
  <2>3. Child(parent, name) = i /\ i # Nowhere
    BY <1>1, <1>3, <1>4, <1>6, <2>1, <2>2 DEF Nowhere
  <2>4. QED
    BY <1>2, <2>2, <2>3
<1>7. QED
  BY <1>5, <1>6

\* What the creation of a part makes.
LEMMA CreatesByPath ==
    ASSUME DriveInv, NEW p \in Process, NEW v \in Upload, v = uploads[p],
           v.drive = "onedrive", v.pc \in Looking, CreateByPath(p)
    PROVE  \E f \in Folder :
               /\ folders' = Append(folders, f) /\ f.drive = "onedrive"
               /\ Ways(v.depth + 1)' # {}
               /\ Clean("onedrive") /\ v.pc = "create" =>
                     /\ ~f.copy
                     /\ \A i \in DOMAIN folders :
                           ~ (folders[i].drive = f.drive /\ folders[i].name = f.name
                              /\ folders[i].parent = f.parent)
<1>1. PICK parent : parent = Resolve(v.depth)
  OBVIOUS
<1>2. PICK name : name = Path[v.depth + 1]
  OBVIOUS
<1>3. PICK copy : copy = (Child(parent, name) # Nowhere)
  OBVIOUS
<1>4. PICK f : f = [drive |-> "onedrive", name |-> name, parent |-> parent, copy |-> copy]
  OBVIOUS
<1>5. parent # Nowhere /\ folders' = Append(folders, f)
  BY <1>1, <1>2, <1>3, <1>4 DEF CreateByPath, AddFolder, Up, Name
<1>6. /\ v.depth \in Nat /\ v.depth < Len(Path) /\ folders \in Seq(Folder) /\ Alone(v)
  BY AtUp DEF Placed, Looking, Alone
<1>7. Len(folders) \in Nat /\ DOMAIN folders = 1 .. Len(folders)
  BY <1>6, FolderFacts
<1>8. Ways(v.depth) # {}
  BY <1>1, <1>5, <1>6, ResolveFacts
<1>9. PICK w \in Ways(v.depth) : v.depth > 0 => parent = w[v.depth]
  BY <1>1, <1>6, <1>8, ResolveFacts
<1>10. parent \in 0 .. Len(folders) /\ (v.depth = 0 => parent = 0)
  BY <1>1, <1>6, <1>8, ResolveFacts
<1>11. parent = IF v.depth = 0 THEN 0 ELSE w[v.depth]
  BY <1>6, <1>9, <1>10
<1>12. f \in Folder /\ f.drive = "onedrive" /\ f.name = name /\ f.parent = parent /\ f.copy = copy
  <2>1. name \in Names
    BY <1>2, <1>6, PathFacts
  <2>2. copy \in BOOLEAN
    BY <1>3
  <2>3. parent \in Nat
    BY <1>10
  <2>4. QED
    BY <1>4, <2>1, <2>2, <2>3 DEF Folder, Drive
<1>13. /\ Extends /\ Len(folders') = Len(folders) + 1 /\ folders'[Len(folders) + 1] = f
       /\ DOMAIN folders' = 1 .. Len(folders) + 1
  BY <1>5, <1>6, <1>12, AddExtends
<1>14. (\E i \in OnPaths : IsChild(i, parent, name)) <=> copy
  <2>1. Child(parent, name) # Nowhere <=> \E i \in OnPaths : IsChild(i, parent, name)
    BY <1>6, ChildFacts
  <2>2. QED
    BY <1>3, <2>1
<1>15. (\E i \in OnPaths : IsChild(i, parent, name)) => Ways(v.depth + 1) # {}
  BY <1>2, <1>6, <1>11, WaysFurtherHere
<1>16. Ways(v.depth + 1)' # {}
  <2>1. v.depth + 1 \in Nat
    BY <1>6
  <2>2. CASE copy
    BY <1>6, <1>13, <1>14, <1>15, <2>1, <2>2, WaysStay
  <2>3. CASE ~copy
    <3>1. PICK i : i = Len(folders) + 1
      OBVIOUS
    <3>2. i \in DOMAIN folders' /\ folders'[i] = f
      BY <1>7, <1>13, <3>1
    <3>3. /\ folders'[i].drive = "onedrive" /\ ~folders'[i].copy /\ folders'[i].name = Path[v.depth + 1]
          /\ folders'[i].parent = IF v.depth = 0 THEN 0 ELSE w[v.depth]
      BY <1>2, <1>11, <1>12, <2>3, <3>2
    <3>4. QED
      BY <1>6, <1>13, <3>2, <3>3, WaysFurther
  <2>4. QED
    BY <1>3, <2>2, <2>3
<1>17. ASSUME Clean("onedrive"), v.pc = "create"
       PROVE  /\ ~f.copy
              /\ \A i \in DOMAIN folders :
                    ~ (folders[i].drive = f.drive /\ folders[i].name = f.name /\ folders[i].parent = f.parent)
  <2>1. Ways(v.depth + 1) = {}
    BY <1>6, <1>17 DEF Alone
  <2>2. ~ \E i \in OnPaths : IsChild(i, parent, name)
    BY <1>15, <2>1
  <2>3. \A i \in DOMAIN folders : folders[i].drive = "onedrive" => i \in OnPaths
    BY <1>17 DEF DriveInv, CleanInv, OnPaths
  <2>4. QED
    BY <1>12, <1>14, <2>2, <2>3 DEF IsChild
<1>18. QED
  BY <1>5, <1>12, <1>16, <1>17

\* What is known of an upload to OneDrive that looks for a part or creates it.
LEMMA AtOneDrive ==
    ASSUME DriveInv, NEW p \in Process, NEW v, v = uploads[p], v.drive = "onedrive"
    PROVE  /\ v \in Upload /\ v # NoUpload /\ uploads[p].drive # "none"
           /\ v.at \in Nat /\ v.at <= Len(folders) /\ v.depth \in Nat /\ v.depth \in 0 .. Len(Path)
           /\ v.pc \in Looking => v.depth < Len(Path)
           /\ Placed(v) /\ Followed(v) /\ Alone(v) /\ folders \in Seq(Folder)
BY AtUp DEF Placed, Looking, Followed, Alone

LEMMA OneDriveRetriesKeeps ==
    ASSUME DriveInv, NEW p \in Process, OneDriveRetries(p)
    PROVE  DriveInv' /\ \E u : Turns(p, u)
<1>1. PICK v : v = uploads[p]
  OBVIOUS
<1>2. PICK u : u = [v EXCEPT !.pc = "recreate", !.fault = TRUE]
  OBVIOUS
<1>3. /\ v.drive = "onedrive" /\ v.pc \in Looking /\ Becomes(p, u)
      /\ CreateByPath(p) \/ UNCHANGED folders
      /\ faulted' = faulted \cup {"onedrive"}
      /\ UNCHANGED <<stored, answers, unexplained, overlapped>>
  BY <1>1, <1>2 DEF OneDriveRetries, Is, Up, Looking
<1>4. /\ v \in Upload /\ v.at \in Nat /\ v.at <= Len(folders) /\ v.depth \in Nat /\ v.depth < Len(Path)
      /\ folders \in Seq(Folder) /\ uploads[p].drive # "none"
  BY <1>1, <1>3, AtOneDrive
<1>5. Tallied /\ "onedrive" \in faulted'
  BY <1>3, TalliedFault DEF Drive
<1>6. /\ u \in Upload /\ u.drive = "onedrive" /\ u.at = v.at /\ u.depth = v.depth /\ u.fault
      /\ u.pc = "recreate"
  BY <1>2, <1>3, <1>4 DEF Upload
<1>7. Placed(u) /\ Alone(u)'
  BY <1>4, <1>5, <1>6 DEF Placed, Looking, Alone
<1>8. Followed(u) /\ Followed(u)'
  BY <1>6 DEF Followed
<1>9. Turns(p, u) /\ WorkersTypeOK' /\ uploads' = [uploads EXCEPT ![p] = u]
  BY <1>3, <1>4, BecomesTurns
<1>10. u.pc \in Looking => uploads[p].drive = u.drive /\ uploads[p].pc \in Looking
  BY <1>1, <1>3, <1>6
<1>11. CASE UNCHANGED folders
  <2>1. Delivered /\ u.at <= Len(folders)
    BY <1>3, <1>4, <1>6, <1>11, SameExtends, NothingSent
  <2>2. DriveInv'
    BY <1>5, <1>6, <1>7, <1>8, <1>9, <1>10, <1>11, <2>1, StillKeeps
  <2>3. QED
    BY <1>9, <2>2
<1>12. CASE CreateByPath(p)
  <2>1. PICK f \in Folder : folders' = Append(folders, f) /\ f.drive = "onedrive"
    BY <1>1, <1>3, <1>4, <1>12, CreatesByPath
  <2>2. ~Clean(f.drive)'
    BY <1>5, <2>1 DEF Clean
  <2>3. u.at <= Len(folders')
    <3>1. Extends /\ Len(folders) \in Nat /\ Len(folders') = Len(folders) + 1
      BY <1>4, <2>1, AddExtends, FolderFacts
    <3>2. QED
      BY <1>4, <1>6, <3>1
  <2>4. DriveInv'
    BY <1>3, <1>5, <1>6, <1>7, <1>8, <1>9, <1>10, <2>1, <2>2, <2>3, AddKeeps
  <2>5. QED
    BY <1>9, <2>4
<1>13. QED
  BY <1>3, <1>11, <1>12

LEMMA OneDriveCreateKeeps ==
    ASSUME DriveInv, NEW p \in Process, OneDriveCreate(p)
    PROVE  DriveInv' /\ \E u : Turns(p, u)
<1>1. PICK v : v = uploads[p]
  OBVIOUS
<1>2. /\ v.drive = "onedrive" /\ v.pc \in {"create", "recreate"} /\ v.pc \in Looking
      /\ CreateByPath(p) /\ Becomes(p, NextPart(p, v))
      /\ UNCHANGED <<stored, answers, unexplained, overlapped, faulted>>
  BY <1>1 DEF OneDriveCreate, Up, Looking
<1>3. /\ v \in Upload /\ v.at \in Nat /\ v.at <= Len(folders) /\ v.depth \in Nat /\ v.depth < Len(Path)
      /\ Placed(v) /\ Alone(v) /\ folders \in Seq(Folder) /\ uploads[p].drive # "none"
  BY <1>1, <1>2, AtOneDrive
<1>4. PICK f \in Folder :
             /\ folders' = Append(folders, f) /\ f.drive = "onedrive"
             /\ Ways(v.depth + 1)' # {}
             /\ Clean("onedrive") /\ v.pc = "create" =>
                   /\ ~f.copy
                   /\ \A i \in DOMAIN folders :
                         ~ (folders[i].drive = f.drive /\ folders[i].name = f.name
                            /\ folders[i].parent = f.parent)
  BY <1>1, <1>2, <1>3, CreatesByPath
<1>5. PICK u \in Upload :
             /\ u = NextPart(p, v)
             /\ u.drive = v.drive /\ u.at = v.at /\ u.fault = v.fault /\ u.size = v.size
             /\ u.depth = v.depth + 1
             /\ u.pc = IF v.depth + 1 = Len(Path) THEN "send" ELSE "look"
  BY <1>3, NextPartFacts, Zenon
<1>6. Becomes(p, u)
  BY <1>2, <1>5
<1>7. Placed(u)
  BY <1>2, <1>3, <1>5, PathFacts DEF Placed, Looking
<1>8. Followed(u)'
  <2>1. u.drive = "onedrive" /\ u.pc # "session" /\ u.depth = v.depth + 1
    BY <1>2, <1>5
  <2>2. Ways(u.depth)' # {}
    BY <1>4, <2>1
  <2>3. QED
    BY <2>1, <2>2 DEF Followed
<1>9. Alone(u)'
  BY <1>2, <1>3, <1>5 DEF Alone
<1>10. Turns(p, u) /\ WorkersTypeOK' /\ uploads' = [uploads EXCEPT ![p] = u]
  BY <1>3, <1>6, BecomesTurns
<1>11. u.pc \in Looking => uploads[p].drive = u.drive /\ uploads[p].pc \in Looking
  BY <1>1, <1>2, <1>5
<1>12. Tallied
  BY <1>2, TalliedSame
<1>13. ASSUME Clean(f.drive)'
       PROVE  /\ uploads[p].drive = f.drive /\ uploads[p].pc \in Looking /\ ~f.copy
              /\ \A i \in DOMAIN folders :
                    ~ (folders[i].drive = f.drive /\ folders[i].name = f.name /\ folders[i].parent = f.parent)
  <2>1. Clean("onedrive")
    BY <1>2, <1>4, <1>13 DEF Clean
  <2>2. v.pc = "create"
    BY <1>2, <1>3, <2>1 DEF Placed, Alone, Clean, Drive
  <2>3. QED
    BY <1>1, <1>2, <1>4, <2>1, <2>2
<1>14. u.at <= Len(folders')
  <2>1. Len(folders) \in Nat /\ Len(folders') = Len(folders) + 1
    BY <1>3, <1>4, AddExtends, FolderFacts
  <2>2. QED
    BY <1>3, <1>5, <2>1
<1>15. DriveInv'
  BY <1>2, <1>4, <1>5, <1>7, <1>8, <1>9, <1>10, <1>11, <1>12, <1>13, <1>14, AddKeeps
<1>16. QED
  BY <1>10, <1>15

\* An upload that raises leaves the folders.
LEMMA RaiseKeeps ==
    ASSUME DriveInv, NEW p \in Process, uploads[p] # NoUpload, NEW fault \in BOOLEAN, Raise(p, fault),
           fault \/ uploads[p].fault,
           UNCHANGED <<folders, overlapped>>, Delivered
    PROVE  DriveInv' /\ \E u : Turns(p, u)
<1>1. Tallied /\ Turns(p, NoUpload)
  BY Raises
<1>2. WorkersTypeOK' /\ uploads' = [uploads EXCEPT ![p] = NoUpload]
  BY WorkersStay DEF DriveInv, Raise
<1>3. NoUpload.pc \notin Looking
  BY DEF NoUpload, Looking
<1>4. DriveInv'
  BY <1>1, <1>2, <1>3, StillKeeps
<1>5. QED
  BY <1>1, <1>4

LEMMA OneDriveCreateRefusedKeeps ==
    ASSUME DriveInv, NEW p \in Process, OneDriveCreateRefused(p)
    PROVE  DriveInv' /\ \E u : Turns(p, u)
<1>1. PICK v : v = uploads[p]
  OBVIOUS
<1>2. /\ v.drive = "onedrive" /\ v.pc \in {"create", "recreate"} /\ v.pc \in Looking
      /\ Resolve(v.depth) = Nowhere
      /\ UNCHANGED <<folders, stored, answers, overlapped>>
  BY <1>1 DEF OneDriveCreateRefused, Up, Looking
<1>3. /\ v \in Upload /\ v # NoUpload /\ v.at \in Nat /\ v.at <= Len(folders) /\ v.depth \in Nat
      /\ v.depth < Len(Path) /\ v.depth \in 0 .. Len(Path)
      /\ Placed(v) /\ Followed(v) /\ Alone(v) /\ folders \in Seq(Folder) /\ uploads[p].drive # "none"
  BY <1>1, <1>2, AtOneDrive
<1>4. Delivered
  BY <1>2, <1>3, SameExtends, NothingSent
<1>5. v.fault
  <2>1. Ways(v.depth) = {}
    BY <1>2, <1>3, ResolveFacts
  <2>2. QED
    BY <1>2, <1>3, <2>1 DEF Followed
<1>6. CASE v.pc = "create"
  <2>1. PICK u : u = [v EXCEPT !.pc = "recreate"]
    OBVIOUS
  <2>2. Becomes(p, u) /\ UNCHANGED <<unexplained, faulted>>
    BY <1>1, <1>6, <2>1 DEF OneDriveCreateRefused, Up
  <2>3. /\ u \in Upload /\ u.drive = "onedrive" /\ u.pc = "recreate" /\ u.at = v.at /\ u.depth = v.depth
        /\ u.fault = v.fault
    BY <1>2, <1>3, <2>1 DEF Upload
  <2>4. Tallied
    BY <1>2, <2>2, TalliedSame
  <2>5. Placed(u) /\ Followed(u)
    BY <1>3, <1>5, <2>3 DEF Placed, Looking, Followed
  <2>6. Alone(u)'
    BY <1>2, <1>3, <2>2, <2>3 DEF Alone
  <2>7. Turns(p, u) /\ WorkersTypeOK' /\ uploads' = [uploads EXCEPT ![p] = u]
    BY <1>3, <2>2, BecomesTurns
  <2>8. u.pc \in Looking => uploads[p].drive = u.drive /\ uploads[p].pc \in Looking
    BY <1>1, <1>2, <2>3
  <2>9. DriveInv'
    BY <1>2, <1>3, <1>4, <2>3, <2>4, <2>5, <2>6, <2>7, <2>8, StillKeeps
  <2>10. QED
    BY <2>7, <2>9
<1>7. CASE v.pc # "create"
  <2>1. Raise(p, FALSE)
    BY <1>1, <1>7 DEF OneDriveCreateRefused, Up
  <2>2. QED
    BY <1>1, <1>2, <1>3, <1>4, <1>5, <2>1, RaiseKeeps
<1>8. QED
  BY <1>6, <1>7

LEMMA OneDriveMissingKeeps ==
    ASSUME DriveInv, NEW p \in Process, OneDriveMissing(p)
    PROVE  DriveInv' /\ \E u : Turns(p, u)
<1>1. PICK v : v = uploads[p]
  OBVIOUS
<1>2. /\ v.drive = "onedrive" /\ v.pc = "send" /\ Resolve(Len(Path)) = Nowhere
      /\ UNCHANGED <<stored, answers, overlapped>>
  BY <1>1 DEF OneDriveMissing, Is, Up
<1>3. /\ v \in Upload /\ v # NoUpload /\ v.at \in Nat /\ v.at <= Len(folders)
      /\ Placed(v) /\ Followed(v) /\ Alone(v) /\ folders \in Seq(Folder) /\ uploads[p].drive # "none"
  BY <1>1, <1>2, AtOneDrive
<1>4. v.fault
  <2>1. v.depth = Len(Path)
    BY <1>2, <1>3 DEF Placed
  <2>2. Ways(Len(Path)) = {}
    BY <1>2, <1>3, ResolveFacts, PathFacts
  <2>3. QED
    BY <1>2, <1>3, <2>1, <2>2 DEF Followed
<1>5. CASE Raise(p, FALSE) /\ UNCHANGED folders
  <2>1. Delivered
    BY <1>2, <1>3, <1>5, SameExtends, NothingSent
  <2>2. QED
    BY <1>1, <1>2, <1>3, <1>4, <1>5, <2>1, RaiseKeeps
<1>6. CASE /\ \E k \in 0 .. Len(Path) - 1 :
                /\ Resolve(k) # Nowhere /\ Resolve(k + 1) = Nowhere
                /\ AddFolder("onedrive", Path[k + 1], Resolve(k), FALSE)
           /\ Continue(p)
           /\ UNCHANGED <<uploads, unexplained, faulted>>
  <2>1. PICK k \in 0 .. Len(Path) - 1 :
                /\ Resolve(k) # Nowhere
                /\ AddFolder("onedrive", Path[k + 1], Resolve(k), FALSE)
    BY <1>6
  <2>2. PICK f : f = [drive |-> "onedrive", name |-> Path[k + 1], parent |-> Resolve(k), copy |-> FALSE]
    OBVIOUS
  <2>3. folders' = Append(folders, f)
    BY <2>1, <2>2 DEF AddFolder
  <2>4. k \in Nat /\ Len(folders) \in Nat /\ Path[k + 1] \in Names
    BY <1>3, PathFacts, FolderFacts
  <2>5. Resolve(k) \in Nat
    BY <1>3, <2>1, <2>4, ResolveFacts
  <2>6. f \in Folder /\ f.drive = "onedrive"
    BY <2>2, <2>4, <2>5 DEF Folder, Drive
  <2>7. Tallied
    BY <1>2, <1>6, TalliedSame
  <2>8. ~Clean(f.drive)'
    BY <1>2, <1>3, <1>4, <1>6, <2>6 DEF Alone, Clean, Drive
  <2>9. /\ uploads' = [uploads EXCEPT ![p] = v] /\ Turns(p, v) /\ WorkersTypeOK'
    <3>1. uploads' = [uploads EXCEPT ![p] = v]
      BY <1>1, <1>6 DEF DriveInv, DriveTypeOK
    <3>2. QED
      BY <1>3, <1>6, <3>1, WorkersStay DEF DriveInv, Turns
  <2>10. Extends /\ Len(folders') = Len(folders) + 1
    BY <1>3, <2>3, <2>6, AddExtends
  <2>11. v.at <= Len(folders')
    BY <1>3, <2>4, <2>10
  <2>12. Followed(v)'
    BY <1>3, <2>10, FollowedStays
  <2>13. Alone(v)'
    BY <1>2, <1>3, <1>6 DEF Alone
  <2>14. v.pc \notin Looking
    BY <1>2 DEF Looking
  <2>15. DriveInv'
    BY <1>2, <1>3, <2>3, <2>6, <2>7, <2>8, <2>9, <2>11, <2>12, <2>13, <2>14, AddKeeps
  <2>16. QED
    BY <2>9, <2>15
<1>7. QED
  BY <1>5, <1>6 DEF OneDriveMissing

\* The path leads somewhere.
LEMMA PathLeads ==
    ASSUME folders \in Seq(Folder), Resolve(Len(Path)) # Nowhere \/ Ways(Len(Path)) # {}
    PROVE  /\ Resolve(Len(Path)) \in 0 .. Len(folders) /\ Ways(Len(Path)) # {}
           /\ Reaches("onedrive", Len(Path), Resolve(Len(Path)))
<1>1. Len(Path) \in Nat /\ Len(Path) > 0
  BY PathFacts
<1>2. Ways(Len(Path)) # {}
  BY <1>1, ResolveFacts
<1>3. Resolve(Len(Path)) \in 0 .. Len(folders)
  BY <1>1, <1>2, ResolveFacts
<1>4. Reaches("onedrive", Len(Path), Resolve(Len(Path)))
  BY <1>1, <1>2, WaysReach
<1>5. QED
  BY <1>2, <1>3, <1>4

\* An upload that returns what the provider has stored.
LEMMA ReturnKeeps ==
    ASSUME DriveInv, NEW p \in Process, uploads[p].drive # "none",
           NEW folder \in 0 .. Len(folders), Store(p, folder), Return(p, folder),
           uploads[p].drive # "dropbox" => Reaches(uploads[p].drive, Len(Path), folder),
           UNCHANGED <<folders, unexplained, overlapped, faulted>>
    PROVE  DriveInv' /\ \E u : Turns(p, u)
<1>1. uploads[p] # NoUpload
  BY AtUp
<1>2. /\ Turns(p, NoUpload) /\ WorkersTypeOK' /\ uploads' = [uploads EXCEPT ![p] = NoUpload]
      /\ answers' = answers \cup {File(p, folder)}
  BY ReturnTurns
<1>3. Delivered
  BY <1>1, <1>2, Sends
<1>4. Tallied
  BY TalliedSame
<1>5. NoUpload.pc \notin Looking
  BY DEF NoUpload, Looking
<1>6. DriveInv'
  BY <1>2, <1>3, <1>4, <1>5, StillKeeps
<1>7. QED
  BY <1>2, <1>6

\* An upload that has sent more of its content.
LEMMA SessionKeeps ==
    ASSUME DriveInv, NEW p \in Process, uploads[p].drive # "none",
           NEW u \in Upload, Becomes(p, u), u.pc = "session",
           u.drive = uploads[p].drive, u.at = uploads[p].at, u.depth = uploads[p].depth,
           u.fault = uploads[p].fault,
           Placed(u), u.drive = "onedrive" => Ways(Len(Path)) # {},
           UNCHANGED <<folders, stored, answers, unexplained, overlapped, faulted>>
    PROVE  DriveInv' /\ \E x : Turns(p, x)
<1>1. /\ uploads[p].at <= Len(folders) /\ Placed(uploads[p]) /\ Followed(uploads[p]) /\ Alone(uploads[p])
      /\ folders \in Seq(Folder)
  BY AtUp
<1>2. Extends /\ Delivered /\ Tallied
  BY <1>1, SameExtends, NothingSent, TalliedSame
<1>3. Followed(u)
  BY <1>1 DEF Followed
<1>4. Alone(u)'
  BY <1>1 DEF Alone
<1>5. Turns(p, u) /\ WorkersTypeOK' /\ uploads' = [uploads EXCEPT ![p] = u]
  BY BecomesTurns
<1>6. u.pc \notin Looking
  BY DEF Looking
<1>7. u.at <= Len(folders)
  BY <1>1
<1>8. DriveInv'
  BY <1>2, <1>3, <1>4, <1>5, <1>6, <1>7, StillKeeps
<1>9. QED
  BY <1>5, <1>8

\* Sizes are numbers.
LEMMA SizeFacts ==
    ASSUME NEW v \in Upload
    PROVE  /\ v.sent \in Nat /\ v.size \in Nat
           /\ v.sent + ChunkOneDrive \in Nat /\ ChunkDropbox \in Nat
<1>1. v.sent \in Nat /\ v.size \in Size
  BY DEF Upload
<1>2. Size \subseteq Nat
  BY DriveAssumption
<1>3. ChunkOneDrive \in Nat /\ ChunkDropbox \in Nat
  BY DriveAssumption
<1>4. v.size \in Nat
  BY <1>1, <1>2
<1>5. \A a, b \in Nat : a + b \in Nat
  OBVIOUS
<1>6. v.sent + ChunkOneDrive \in Nat
  BY <1>1, <1>3, <1>5, Zenon
<1>7. QED
  BY <1>1, <1>3, <1>4, <1>6

LEMMA OneDriveSendKeeps ==
    ASSUME DriveInv, NEW p \in Process, OneDriveSend(p)
    PROVE  DriveInv' /\ \E u : Turns(p, u)
<1>1. PICK v : v = uploads[p]
  OBVIOUS
<1>2. PICK end : end = Resolve(Len(Path))
  OBVIOUS
<1>3. /\ v.drive = "onedrive" /\ v.pc = "send" /\ end # Nowhere
      /\ UNCHANGED <<folders, unexplained, overlapped, faulted>>
  BY <1>1, <1>2 DEF OneDriveSend, Is, Up
<1>4. v \in Upload /\ uploads[p].drive # "none" /\ Placed(v) /\ folders \in Seq(Folder)
  BY <1>1, <1>3, AtOneDrive
<1>5. end \in 0 .. Len(folders) /\ Ways(Len(Path)) # {} /\ Reaches("onedrive", Len(Path), end)
  BY <1>2, <1>3, <1>4, PathLeads
<1>6. CASE v.size < SmallOneDrive
  <2>1. Store(p, end) /\ Return(p, end)
    BY <1>1, <1>2, <1>6 DEF OneDriveSend, Up
  <2>2. QED
    BY <1>1, <1>3, <1>4, <1>5, <2>1, ReturnKeeps
<1>7. CASE ~(v.size < SmallOneDrive)
  <2>1. PICK u : u = [v EXCEPT !.pc = "session"]
    OBVIOUS
  <2>2. Becomes(p, u) /\ UNCHANGED <<stored, answers>>
    BY <1>1, <1>7, <2>1 DEF OneDriveSend, Up
  <2>3. /\ u \in Upload /\ u.pc = "session" /\ u.drive = "onedrive" /\ u.at = v.at /\ u.depth = v.depth
        /\ u.fault = v.fault
    BY <1>3, <1>4, <2>1 DEF Upload
  <2>4. Placed(u)
    BY <1>3, <1>4, <2>3 DEF Placed, Looking
  <2>5. QED
    BY <1>1, <1>3, <1>4, <1>5, <2>2, <2>3, <2>4, SessionKeeps
<1>8. QED
  BY <1>6, <1>7

LEMMA LeastFacts ==
    ASSUME NEW a \in Nat, NEW b \in Nat
    PROVE  Least(a, b) \in Nat /\ Least(a, b) <= b /\ (Least(a, b) < b => Least(a, b) = a)
BY DEF Least

LEMMA OneDriveRangeKeeps ==
    ASSUME DriveInv, NEW p \in Process, OneDriveRange(p)
    PROVE  DriveInv' /\ \E u : Turns(p, u)
<1>1. PICK v : v = uploads[p]
  OBVIOUS
<1>2. PICK end : end = Least(v.sent + ChunkOneDrive, v.size)
  OBVIOUS
<1>3. PICK place : place = Resolve(Len(Path))
  OBVIOUS
<1>4. /\ v.drive = "onedrive" /\ v.pc = "session"
      /\ IF end = v.size THEN Store(p, place) ELSE UNCHANGED stored
      /\ IF end < v.size THEN Becomes(p, [v EXCEPT !.sent = end]) /\ UNCHANGED answers
         ELSE Return(p, place)
      /\ UNCHANGED <<folders, unexplained, overlapped, faulted>>
  BY <1>1, <1>2, <1>3 DEF OneDriveRange, Is, Up, More
<1>5. /\ v \in Upload /\ v # NoUpload /\ uploads[p].drive # "none" /\ Placed(v) /\ Followed(v)
      /\ folders \in Seq(Folder)
  BY <1>1, <1>4, AtOneDrive
<1>6. v.sent \in Nat /\ v.size \in Nat /\ v.sent + ChunkOneDrive \in Nat
  BY <1>5, SizeFacts
<1>7. end \in Nat /\ end <= v.size
  BY <1>2, <1>6, LeastFacts
<1>8. Ways(Len(Path)) # {}
  BY <1>4, <1>5 DEF Followed
<1>9. place \in 0 .. Len(folders) /\ Reaches("onedrive", Len(Path), place)
  BY <1>3, <1>5, <1>8, PathLeads
<1>10. CASE end < v.size
  <2>1. PICK u : u = [v EXCEPT !.sent = end]
    OBVIOUS
  <2>2. Becomes(p, u) /\ UNCHANGED <<stored, answers>>
    BY <1>4, <1>7, <1>6, <1>10, <2>1
  <2>3. /\ u \in Upload /\ u.pc = "session" /\ u.drive = "onedrive" /\ u.at = v.at /\ u.depth = v.depth
        /\ u.fault = v.fault
    BY <1>4, <1>5, <1>7, <2>1 DEF Upload
  <2>4. Placed(u)
    BY <1>4, <1>5, <2>3 DEF Placed, Looking
  <2>5. QED
    BY <1>1, <1>4, <1>5, <1>8, <2>2, <2>3, <2>4, SessionKeeps
<1>11. CASE ~(end < v.size)
  <2>1. end = v.size
    BY <1>6, <1>7, <1>11
  <2>2. Store(p, place) /\ Return(p, place)
    BY <1>4, <1>11, <2>1
  <2>3. QED
    BY <1>1, <1>4, <1>5, <1>9, <2>2, ReturnKeeps
<1>12. QED
  BY <1>10, <1>11

--------------------------------------------------------------------------
(* Dropbox.                                                                *)

LEMMA DropboxSendKeeps ==
    ASSUME DriveInv, NEW p \in Process, DropboxSend(p)
    PROVE  DriveInv' /\ \E u : Turns(p, u)
<1>1. PICK v : v = uploads[p]
  OBVIOUS
<1>2. /\ v.drive = "dropbox" /\ v.pc = "send"
      /\ UNCHANGED <<folders, unexplained, overlapped, faulted>>
  BY <1>1 DEF DropboxSend, Is, Up
<1>3. /\ v \in Upload /\ uploads[p].drive # "none" /\ Placed(v) /\ folders \in Seq(Folder)
  BY <1>1, <1>2, AtUp
<1>4. v.size \in Nat /\ ChunkDropbox \in Nat /\ 0 \in 0 .. Len(folders)
  BY <1>3, SizeFacts, FolderFacts
<1>5. CASE Fits(v.size)
  <2>1. Store(p, 0) /\ Return(p, 0)
    BY <1>1, <1>5 DEF DropboxSend, Up
  <2>2. QED
    BY <1>1, <1>2, <1>3, <1>4, <2>1, ReturnKeeps
<1>6. CASE ~Fits(v.size)
  <2>1. PICK u : u = [v EXCEPT !.pc = "session", !.sent = ChunkDropbox]
    OBVIOUS
  <2>2. Becomes(p, u) /\ UNCHANGED <<stored, answers>>
    BY <1>1, <1>6, <2>1 DEF DropboxSend, Up
  <2>3. /\ u \in Upload /\ u.pc = "session" /\ u.drive = "dropbox" /\ u.at = v.at /\ u.depth = v.depth
        /\ u.fault = v.fault /\ u.sent = ChunkDropbox /\ u.size = v.size
    BY <1>2, <1>3, <1>4, <2>1 DEF Upload
  <2>4. u.sent < u.size
    BY <1>4, <1>6, <2>3 DEF Fits
  <2>5. Placed(u)
    BY <2>3, <2>4 DEF Placed, Looking
  <2>6. QED
    BY <1>1, <1>2, <1>3, <2>2, <2>3, <2>5, SessionKeeps
<1>7. QED
  BY <1>5, <1>6

\* A session is finished with the last chunk, so that the loop never ends without.
LEMMA DropboxChunkKeeps ==
    ASSUME DriveInv, NEW p \in Process, DropboxChunk(p)
    PROVE  DriveInv' /\ \E u : Turns(p, u)
<1>1. PICK v : v = uploads[p]
  OBVIOUS
<1>2. PICK chunk : chunk = Least(ChunkDropbox, v.size - v.sent)
  OBVIOUS
<1>3. /\ v.drive = "dropbox" /\ v.pc = "session" /\ UNCHANGED <<folders, overlapped>>
      /\ IF v.sent < v.size
         THEN /\ IF v.sent + chunk < v.size
                 THEN /\ Becomes(p, [v EXCEPT !.sent = @ + chunk])
                      /\ UNCHANGED <<stored, answers>>
                 ELSE Store(p, 0) /\ Return(p, 0)
              /\ UNCHANGED <<unexplained, faulted>>
         ELSE Raise(p, FALSE) /\ UNCHANGED <<stored, answers>>
  BY <1>1, <1>2 DEF DropboxChunk, Is, Up
<1>4. v \in Upload /\ uploads[p].drive # "none" /\ Placed(v) /\ folders \in Seq(Folder)
  BY <1>1, <1>3, AtUp
<1>5. v.sent < v.size
  BY <1>3, <1>4 DEF Placed
<1>6. v.sent \in Nat /\ v.size \in Nat /\ ChunkDropbox \in Nat /\ 0 \in 0 .. Len(folders)
  BY <1>4, SizeFacts, FolderFacts
<1>7. chunk \in Nat
  <2>1. v.size - v.sent \in Nat
    BY <1>5, <1>6
  <2>2. QED
    BY <1>2, <1>6, <2>1, LeastFacts
<1>8. CASE v.sent + chunk < v.size
  <2>1. PICK u : u = [v EXCEPT !.sent = @ + chunk]
    OBVIOUS
  <2>2. Becomes(p, u) /\ UNCHANGED <<stored, answers, unexplained, faulted>>
    BY <1>3, <1>5, <1>8, <2>1
  <2>3. /\ u \in Upload /\ u.pc = "session" /\ u.drive = "dropbox" /\ u.at = v.at /\ u.depth = v.depth
        /\ u.fault = v.fault /\ u.sent = v.sent + chunk /\ u.size = v.size
    BY <1>3, <1>4, <1>6, <1>7, <2>1 DEF Upload
  <2>4. Placed(u)
    BY <1>8, <2>3 DEF Placed, Looking
  <2>5. QED
    BY <1>1, <1>3, <1>4, <2>2, <2>3, <2>4, SessionKeeps
<1>9. CASE ~(v.sent + chunk < v.size)
  <2>1. Store(p, 0) /\ Return(p, 0) /\ UNCHANGED <<unexplained, faulted>>
    BY <1>3, <1>5, <1>9
  <2>2. QED
    BY <1>1, <1>3, <1>4, <1>6, <2>1, ReturnKeeps
<1>10. QED
  BY <1>8, <1>9

--------------------------------------------------------------------------
(* Requests that fail, and kills.                                          *)

\* A folder that a failed request has made all the same.
LEMMA RaiseAdds ==
    ASSUME DriveInv, NEW p \in Process, uploads[p] # NoUpload, Raise(p, TRUE),
           NEW f \in Folder, folders' = Append(folders, f), f.drive = uploads[p].drive,
           f.drive # "dropbox", f.drive = "google" => ~f.copy,
           UNCHANGED <<stored, answers, overlapped>>
    PROVE  DriveInv' /\ \E u : Turns(p, u)
<1>1. Tallied /\ Turns(p, NoUpload) /\ uploads[p].drive \in faulted'
  BY Raises
<1>2. WorkersTypeOK' /\ uploads' = [uploads EXCEPT ![p] = NoUpload]
  BY WorkersStay DEF DriveInv, Raise
<1>3. NoUpload.pc \notin Looking
  BY DEF NoUpload, Looking
<1>4. ~Clean(f.drive)'
  BY <1>1 DEF Clean
<1>5. DriveInv'
  BY <1>1, <1>2, <1>3, <1>4, AddKeeps
<1>6. QED
  BY <1>1, <1>5

LEMMA RequestFailsKeeps ==
    ASSUME DriveInv, NEW p \in Process, RequestFails(p)
    PROVE  DriveInv' /\ \E u : Turns(p, u)
<1>1. PICK v : v = uploads[p]
  OBVIOUS
<1>2. Raise(p, TRUE) /\ UNCHANGED <<answers, overlapped>>
  BY DEF RequestFails
<1>3. v.drive # "none"
  <2>1. v.pc # "none"
    BY <1>1 DEF RequestFails, Is, Up
  <2>2. v \in Upload \cup {NoUpload}
    BY <1>1 DEF DriveInv, DriveTypeOK
  <2>3. QED
    BY <2>1, <2>2, UploadShape
<1>4. /\ v # NoUpload /\ v \in Upload /\ v.drive \in Drive /\ v.at \in Nat /\ v.at <= Len(folders)
      /\ v.depth \in Nat /\ v.depth \in 0 .. Len(Path) /\ Placed(v) /\ folders \in Seq(Folder)
  BY <1>1, <1>3, AtUp
<1>5. CASE UNCHANGED <<folders, stored>>
  <2>1. Delivered
    BY <1>2, <1>4, <1>5, SameExtends, NothingSent
  <2>2. QED
    BY <1>1, <1>2, <1>4, <1>5, <2>1, RaiseKeeps
<1>6. CASE Is(p, "google", "create") /\ UNCHANGED stored /\ AddFolder("google", Name(p), ParentOf(p), FALSE)
  <2>1. PICK f : f = [drive |-> "google", name |-> Path[v.depth + 1], parent |-> v.at, copy |-> FALSE]
    OBVIOUS
  <2>2. v.drive = "google" /\ v.pc = "create" /\ folders' = Append(folders, f)
    BY <1>1, <1>6, <2>1 DEF Is, Up, Name, ParentOf, AddFolder
  <2>3. Path[v.depth + 1] \in Names
    BY <1>4, <2>2, PathFacts DEF Placed, Looking
  <2>4. f \in Folder /\ f.drive = "google" /\ ~f.copy
    BY <1>4, <2>1, <2>3 DEF Folder, Drive
  <2>5. QED
    BY <1>1, <1>2, <1>4, <1>6, <2>2, <2>4, RaiseAdds
<1>7. CASE Is(p, "onedrive", "recreate") /\ UNCHANGED stored /\ CreateByPath(p)
  <2>1. v.drive = "onedrive" /\ v.pc \in Looking
    BY <1>1, <1>7 DEF Is, Up, Looking
  <2>2. PICK f \in Folder : folders' = Append(folders, f) /\ f.drive = "onedrive"
    BY <1>1, <1>4, <1>7, <2>1, CreatesByPath
  <2>3. QED
    BY <1>1, <1>2, <1>4, <1>7, <2>1, <2>2, RaiseAdds
<1>8. CASE /\ v.pc \in {"send", "session"} /\ Destination(p) # Nowhere
           /\ Store(p, Destination(p)) /\ UNCHANGED folders
  <2>1. PICK end : end = Destination(p)
    OBVIOUS
  <2>2. end \in 0 .. Len(folders)
    <3>1. Len(folders) \in Nat
      BY <1>4, FolderFacts
    <3>2. CASE v.drive = "google"
      BY <1>1, <1>4, <2>1, <3>1, <3>2 DEF Destination, Up
    <3>3. CASE v.drive = "onedrive"
      <4>1. end = Resolve(Len(Path)) /\ end # Nowhere
        BY <1>1, <1>8, <2>1, <3>3 DEF Destination, Up
      <4>2. QED
        BY <1>4, <4>1, PathLeads
    <3>4. CASE v.drive = "dropbox"
      BY <1>1, <2>1, <3>1, <3>4 DEF Destination, Up
    <3>5. QED
      BY <1>4, <3>2, <3>3, <3>4 DEF Drive
  <2>3. Store(p, end) /\ UNCHANGED answers
    BY <1>2, <1>8, <2>1
  <2>4. Delivered
    BY <1>1, <1>4, <1>8, <2>2, <2>3, Sends
  <2>5. QED
    BY <1>1, <1>2, <1>4, <1>8, <2>4, RaiseKeeps
<1>9. QED
  BY <1>1, <1>5, <1>6, <1>7, <1>8 DEF RequestFails, Up

\* A kill leaves what the requests did.
LEMMA KillKeepsDrives ==
    ASSUME DriveInv, NEW p \in Process, KillFileWorker(p)
    PROVE  DriveInv'
<1>1. /\ uploads' = [uploads EXCEPT ![p] = NoUpload]
      /\ UNCHANGED <<folders, stored, answers, unexplained, overlapped, faulted>>
  BY DEF KillFileWorker, DriveWiped
<1>2. WorkersTypeOK'
  BY WorkersStay DEF DriveInv, KillFileWorker
<1>3. Delivered /\ Tallied
  BY <1>1, SameExtends, NothingSent, TalliedSame DEF DriveInv, DriveTypeOK
<1>4. NoUpload.pc \notin Looking
  BY DEF NoUpload, Looking
<1>5. QED
  BY <1>1, <1>2, <1>3, <1>4, StillKeeps

\* The documents' steps leave the drives.
LEMMA DrivesRest ==
    ASSUME DriveInv, UNCHANGED driveVars, WorkersTypeOK'
    PROVE  DriveInv'
<1>1. UNCHANGED <<folders, uploads, stored, answers, unexplained, overlapped, faulted>>
  BY DEF driveVars
<1>2. DriveTypeOK' /\ AnsweredIsWhole' /\ FailsOnlyOnFault'
  BY <1>1 DEF DriveInv, DriveTypeOK, AnsweredIsWhole, FailsOnlyOnFault
<1>3. folders \in Seq(Folder) /\ Extends /\ Delivered
  BY <1>1, SameExtends, NothingSent DEF DriveInv, DriveTypeOK
<1>4. ASSUME NEW q \in Process, uploads[q] # NoUpload
      PROVE  Placed(uploads'[q]) /\ Followed(uploads[q])' /\ Alone(uploads[q])'
  <2>1. PICK v : v = uploads[q] /\ v = uploads'[q]
    BY <1>1
  <2>2. v \in Upload /\ Placed(v) /\ Followed(v) /\ Alone(v)
    BY <1>4, <2>1, UploadShape DEF DriveInv, DriveTypeOK, PathInv, CleanInv
  <2>3. Followed(v)'
    BY <1>3, <2>2, FollowedStays
  <2>4. Alone(v)'
    <3>1. \A name, parent : Matches(name, parent)' = Matches(name, parent)
      BY <1>1 DEF Matches
    <3>2. \A n : Ways(n)' = Ways(n)
      BY <1>1 DEF Ways, OnPaths, IsChild
    <3>3. QED
      BY <1>1, <2>2, <3>1, <3>2 DEF Alone, Clean
  <2>5. QED
    BY <2>1, <2>2, <2>3, <2>4 DEF Followed, Alone
<1>5. PathInv'
  BY <1>1, <1>3, <1>4 DEF DriveInv, PathInv, Delivered
<1>6. CleanInv'
  <2>1. \A d : Ensuring(d)' = Ensuring(d)
    BY <1>1 DEF Ensuring, Up
  <2>2. QED
    BY <1>1, <1>4, <2>1 DEF DriveInv, CleanInv, Clean, NoStrayFolder
<1>7. QED
  BY <1>2, <1>5, <1>6 DEF DriveInv

\* The user's own folders of the same names: in the drive of Google, each in another.
LEMMA ElsewhereFacts ==
    /\ Elsewhere \in Seq(Folder) /\ DOMAIN Elsewhere = 1 .. Len(Path) + 1
    /\ \A i \in DOMAIN Elsewhere :
          Elsewhere[i].drive = "google" /\ Elsewhere[i].parent = i - 1 /\ ~Elsewhere[i].copy
<1>1. PICK a : a = [drive |-> "google", name |-> "mine", parent |-> 0, copy |-> FALSE]
  OBVIOUS
<1>2. PICK s : s = [i \in 1 .. Len(Path) |->
                       [drive |-> "google", name |-> Path[Len(Path) + 1 - i], parent |-> i, copy |-> FALSE]]
  OBVIOUS
<1>3. Elsewhere = <<a>> \o s
  BY <1>1, <1>2 DEF Elsewhere
<1>4. a \in Folder /\ a.drive = "google" /\ a.parent = 0 /\ ~a.copy
  <2>1. "mine" \in Names
    BY DEF Names
  <2>2. a.drive = "google" /\ a.name = "mine" /\ a.parent = 0 /\ ~a.copy
    BY <1>1
  <2>3. QED
    BY <1>1, <2>1, <2>2 DEF Folder, Drive
<1>5. Len(Path) \in Nat
  BY PathFacts
<1>6. ASSUME NEW i \in 1 .. Len(Path)
      PROVE  s[i] \in Folder /\ s[i].drive = "google" /\ s[i].parent = i /\ ~s[i].copy
  <2>1. Len(Path) + 1 - i \in 1 .. Len(Path)
    BY <1>5
  <2>2. Path[Len(Path) + 1 - i] \in Names
    BY <2>1, PathFacts
  <2>3. s[i] = [drive |-> "google", name |-> Path[Len(Path) + 1 - i], parent |-> i, copy |-> FALSE]
    BY <1>2
  <2>4. i \in Nat
    BY <1>5
  <2>5. QED
    BY <2>2, <2>3, <2>4 DEF Folder, Drive
<1>7. s \in Seq(Folder) /\ Len(s) = Len(Path)
  <2>1. s \in [1 .. Len(Path) -> Folder]
    BY <1>2, <1>6
  <2>2. QED
    BY <1>5, <2>1
<1>8. <<a>> \in Seq(Folder) /\ Len(<<a>>) = 1 /\ <<a>>[1] = a
  BY <1>4
<1>9. /\ Elsewhere \in Seq(Folder) /\ Len(Elsewhere) = 1 + Len(Path)
      /\ \A i \in 1 .. 1 + Len(Path) : Elsewhere[i] = IF i <= 1 THEN <<a>>[i] ELSE s[i - 1]
  <2>1. PICK t : t = <<a>>
    OBVIOUS
  <2>2. t \in Seq(Folder) /\ s \in Seq(Folder) /\ Len(t) = 1 /\ Len(s) = Len(Path) /\ Elsewhere = t \o s
    BY <1>3, <1>7, <1>8, <2>1
  <2>3. /\ t \o s \in Seq(Folder) /\ Len(t \o s) = Len(t) + Len(s)
        /\ \A i \in 1 .. Len(t) + Len(s) : (t \o s)[i] = IF i <= Len(t) THEN t[i] ELSE s[i - Len(t)]
    BY <2>2, ConcatProperties, ZenonT(40)
  <2>4. QED
    BY <2>1, <2>2, <2>3
<1>10. DOMAIN Elsewhere = 1 .. Len(Path) + 1
  BY <1>5, <1>9
<1>11. ASSUME NEW i \in 1 .. Len(Path) + 1
       PROVE  Elsewhere[i].drive = "google" /\ Elsewhere[i].parent = i - 1 /\ ~Elsewhere[i].copy
  <2>1. CASE i = 1
    BY <1>4, <1>5, <1>8, <1>9, <2>1
  <2>2. CASE i # 1
    <3>1. i - 1 \in 1 .. Len(Path) /\ Elsewhere[i] = s[i - 1]
      BY <1>5, <1>9, <2>2
    <3>2. QED
      BY <1>6, <3>1
  <2>3. QED
    BY <2>1, <2>2
<1>12. QED
  BY <1>9, <1>10, <1>11

LEMMA DrivesStart ==
    ASSUME FilesInit
    PROVE  DriveInv
<1>1. WorkersTypeOK
  BY WorkersAssumption DEF FilesInit, WorkersInit, WorkersTypeOK
<1>2. /\ folders \in {<<>>, Elsewhere} /\ uploads = [p \in Process |-> NoUpload]
      /\ stored = {} /\ answers = {} /\ unexplained = {} /\ overlapped = {} /\ faulted = {}
  BY DEF FilesInit, DriveInit
<1>3. /\ folders \in Seq(Folder)
      /\ \A i \in DOMAIN folders : /\ i \in Nat /\ folders[i].drive = "google"
                                   /\ folders[i].parent = i - 1 /\ ~folders[i].copy
  <2>1. CASE folders = <<>>
    BY <2>1
  <2>2. CASE folders = Elsewhere
    BY <2>2, ElsewhereFacts, PathFacts
  <2>3. QED
    BY <1>2, <2>1, <2>2
<1>4. DriveTypeOK
  BY <1>2, <1>3 DEF DriveTypeOK
<1>5. AnsweredIsWhole /\ FailsOnlyOnFault
  BY <1>2 DEF AnsweredIsWhole, FailsOnlyOnFault
<1>6. PathInv
  BY <1>2, <1>3 DEF PathInv
<1>7. CleanInv
  <2>1. \A d \in Drive : Ensuring(d) = {}
    BY <1>2 DEF Ensuring, Up, NoUpload
  <2>2. NoStrayFolder
    BY <1>3 DEF NoStrayFolder
  <2>3. QED
    BY <1>2, <1>3, <2>1, <2>2 DEF CleanInv
<1>8. QED
  BY <1>1, <1>4, <1>5, <1>6, <1>7 DEF DriveInv

\* Every step of an upload.
LEMMA DrivesKeep ==
    ASSUME DocInv, DriveInv, DriveNext, UNCHANGED docVars
    PROVE  DocInv' /\ DriveInv'
<1>1. PICK p \in Process : DriveStep(p)
  BY DEF DriveNext
<1>2. ASSUME NEW d \in Drive, NEW size \in Size, StartCloudUpload(p, d, size)
      PROVE  DriveInv' /\ \E u : Turns(p, u)
  <2>1. p \notin busy
    BY <1>2 DEF StartCloudUpload, Accept, Free
  <2>2. uploads[p].drive = "none"
    BY <2>1 DEF DocInv, Own
  <2>3. uploads[p] = NoUpload
    BY <2>2, UploadShape DEF DriveInv, DriveTypeOK
  <2>4. QED
    BY <1>2, <2>3, StartCloudUploadKeeps
<1>3. ASSUME GoogleLook(p) PROVE DriveInv' /\ \E u : Turns(p, u)
  BY <1>3, GoogleLookKeeps
<1>4. ASSUME GoogleCreate(p) PROVE DriveInv' /\ \E u : Turns(p, u)
  BY <1>4, GoogleCreateKeeps
<1>5. ASSUME GoogleSend(p) PROVE DriveInv' /\ \E u : Turns(p, u)
  BY <1>5, GoogleSendKeeps
<1>6. ASSUME OneDriveLook(p) PROVE DriveInv' /\ \E u : Turns(p, u)
  BY <1>6, OneDriveLookKeeps
<1>7. ASSUME OneDriveLookStatus(p) PROVE DriveInv' /\ \E u : Turns(p, u)
  BY <1>7, OneDriveLookStatusKeeps
<1>8. ASSUME OneDriveRetries(p) PROVE DriveInv' /\ \E u : Turns(p, u)
  BY <1>8, OneDriveRetriesKeeps
<1>9. ASSUME OneDriveCreate(p) PROVE DriveInv' /\ \E u : Turns(p, u)
  BY <1>9, OneDriveCreateKeeps
<1>10. ASSUME OneDriveCreateRefused(p) PROVE DriveInv' /\ \E u : Turns(p, u)
  BY <1>10, OneDriveCreateRefusedKeeps
<1>11. ASSUME OneDriveMissing(p) PROVE DriveInv' /\ \E u : Turns(p, u)
  BY <1>11, OneDriveMissingKeeps
<1>12. ASSUME OneDriveSend(p) PROVE DriveInv' /\ \E u : Turns(p, u)
  BY <1>12, OneDriveSendKeeps
<1>13. ASSUME OneDriveRange(p) PROVE DriveInv' /\ \E u : Turns(p, u)
  BY <1>13, OneDriveRangeKeeps
<1>14. ASSUME DropboxSend(p) PROVE DriveInv' /\ \E u : Turns(p, u)
  BY <1>14, DropboxSendKeeps
<1>15. ASSUME DropboxChunk(p) PROVE DriveInv' /\ \E u : Turns(p, u)
  BY <1>15, DropboxChunkKeeps
<1>16. ASSUME RequestFails(p) PROVE DriveInv' /\ \E u : Turns(p, u)
  BY <1>16, RequestFailsKeeps
<1>17. DriveInv' /\ \E u : Turns(p, u)
  BY <1>1, <1>2, <1>3, <1>4, <1>5, <1>6, <1>7, <1>8, <1>9, <1>10, <1>11, <1>12, <1>13, <1>14, <1>15,
     <1>16, Zenon DEF DriveStep
<1>18. PICK u : Turns(p, u)
  BY <1>17
<1>19. DriveTypeOK
  BY DEF DriveInv
<1>20. DocInv'
  BY <1>18, <1>19, DocumentsRest
<1>21. QED
  BY <1>17, <1>20

--------------------------------------------------------------------------
(* The theorems.                                                           *)

FilesInv == DocInv /\ DriveInv

LEMMA FilesStart ==
    ASSUME FilesInit
    PROVE  FilesInv
BY DocumentsStart, DrivesStart DEF FilesInv

LEMMA FilesKeep ==
    ASSUME FilesInv, [FilesNext]_fileVars
    PROVE  FilesInv'
<1>1. DocInv /\ DriveInv /\ DriveTypeOK
  BY DEF FilesInv, DriveInv
<1>2. CASE DocumentsNext /\ UNCHANGED driveVars
  <2>1. DocInv'
    BY <1>1, <1>2, DocumentsKeep
  <2>2. WorkersTypeOK'
    BY <2>1 DEF DocInv
  <2>3. QED
    BY <1>1, <1>2, <2>1, <2>2, DrivesRest DEF FilesInv
<1>3. CASE DriveNext /\ UNCHANGED docVars
  BY <1>1, <1>3, DrivesKeep DEF FilesInv
<1>4. ASSUME NEW p \in Process, KillFileWorker(p) PROVE FilesInv'
  BY <1>1, <1>4, KillKeepsDocuments, KillKeepsDrives DEF FilesInv
<1>5. CASE UNCHANGED fileVars
  <2>1. UNCHANGED driveVars /\ UNCHANGED docVars /\ UNCHANGED workers
    BY <1>5 DEF fileVars
  <2>2. WorkersTypeOK'
    BY <1>1, <2>1 DEF DocInv, WorkersTypeOK, workers
  <2>3. DriveInv'
    BY <1>1, <2>1, <2>2, DrivesRest
  <2>4. DocInv'
    <3>1. /\ UNCHANGED <<doc, files, blobs, asked, docJob, saved, traced, deleted, buried, audited,
                         delivered, dropped>>
          /\ UNCHANGED <<uploads, busy>>
      BY <2>1 DEF docVars, driveVars, workers
    <3>2. DocumentsTypeOK' /\ Own' /\ Whole' /\ Fit'
      BY <1>1, <3>1 DEF DocInv, DocumentsTypeOK, Own, Whole, Known, Present, Fit, Fitting
    <3>3. ASSUME NEW d \in Doc PROVE CountedAt(d)'
      <4>1. Tracers(d)' = Tracers(d) /\ Senders(d)' = Senders(d) /\ Openers(d)' = Openers(d)
        BY <3>1 DEF Tracers, Senders, Openers
      <4>2. CountedAt(d)
        BY <1>1 DEF DocInv, Counted
      <4>3. QED
        BY <3>1, <4>1, <4>2 DEF CountedAt
    <3>4. QED
      BY <2>2, <3>2, <3>3 DEF DocInv, Counted
  <2>5. QED
    BY <2>3, <2>4 DEF FilesInv
<1>6. QED
  BY <1>2, <1>3, <1>4, <1>5 DEF FilesNext

LEMMA FilesAlways == FilesSpec => []FilesInv
<1>1. FilesInit => FilesInv
  BY FilesStart
<1>2. FilesInv /\ [FilesNext]_fileVars => FilesInv'
  BY FilesKeep
<1>3. QED
  BY <1>1, <1>2, PTL DEF FilesSpec

\* Every variable keeps its type.
THEOREM TypesOK == FilesSpec => []FilesTypeOK
<1>1. FilesInv => FilesTypeOK
  BY DEF FilesInv, DocInv, DriveInv, FilesTypeOK
<1>2. QED
  BY <1>1, FilesAlways, PTL

\* A document has all the files that it was uploaded with, and their contents, or
\* none: the request's transaction and the deletion never leave a part.
THEOREM UploadsAreWhole == FilesSpec => []UploadIsWhole
<1>1. FilesInv => UploadIsWhole
  BY DEF FilesInv, DocInv, Whole, UploadIsWhole
<1>2. QED
  BY <1>1, FilesAlways, PTL

\* The audit trail tells of every committed save of a document, but for those whose
\* process is about to write it or was killed before, and of every deletion.
THEOREM TrailIsComplete == FilesSpec => []TrailComplete
<1>1. ASSUME FilesInv PROVE TrailComplete
  <2>1. ASSUME NEW d \in Doc PROVE {p \in Process : Tracing(p, d)} = Tracers(d)
    BY DEF Tracers, IsTracer, Tracing, Doing
  <2>2. \A d \in Doc : CountedAt(d)
    BY <1>1 DEF FilesInv, DocInv, Counted
  <2>3. QED
    BY <2>1, <2>2 DEF TrailComplete, CountedAt
<1>2. FilesInv => TrailComplete
  BY <1>1
<1>3. QED
  BY <1>2, FilesAlways, PTL

\* A file is audited before it is delivered, and an archive is audited exactly when
\* it is delivered, on its way or lost with its process.
THEOREM DownloadsAreAudited == FilesSpec => []DownloadsAudited
<1>1. ASSUME FilesInv PROVE DownloadsAudited
  <2>1. ASSUME NEW d \in Doc PROVE {p \in Process : Sending(p, d)} = Senders(d)
    BY DEF Senders, IsSender, Sending
  <2>2. ASSUME NEW d \in Doc PROVE delivered["file"][d] <= audited["file"][d]
    <3>1. delivered["file"][d] + Cardinality(Openers(d)) <= audited["file"][d]
      BY <1>1 DEF FilesInv, DocInv, Counted, CountedAt
    <3>2. delivered["file"][d] \in Nat /\ audited["file"][d] \in Nat
      BY <1>1 DEF FilesInv, DocInv, DocumentsTypeOK, PerDoc, Kind
    <3>3. Cardinality(Openers(d)) \in Nat
      <4>1. IsFiniteSet(Openers(d))
        BY ProcessesFinite, FS_Subset DEF Openers
      <4>2. QED
        BY <4>1, FS_CardinalityType
    <3>4. QED
      BY <3>1, <3>2, <3>3
  <2>3. \A d \in Doc : CountedAt(d)
    BY <1>1 DEF FilesInv, DocInv, Counted
  <2>4. QED
    BY <2>1, <2>2, <2>3 DEF DownloadsAudited, CountedAt
<1>2. FilesInv => DownloadsAudited
  BY <1>1
<1>3. QED
  BY <1>2, FilesAlways, PTL

\* What upload_file returned a result for is on the drive, whole, for every size
\* and every limit of the providers.
THEOREM AnswersAreWhole == FilesSpec => []AnsweredIsWhole
<1>1. FilesInv => AnsweredIsWhole
  BY DEF FilesInv, DriveInv
<1>2. QED
  BY <1>1, FilesAlways, PTL

\* upload_file raises only when a request failed.
THEOREM FailureHasACause == FilesSpec => []FailsOnlyOnFault
<1>1. FilesInv => FailsOnlyOnFault
  BY DEF FilesInv, DriveInv
<1>2. QED
  BY <1>1, FilesAlways, PTL

\* A file that was answered for lies in the folders of the path, for every path:
\* the loop over its parts reaches, or creates, each one in the one before.
THEOREM UploadLandsInPath == FilesSpec => []LandsInPath
<1>1. ASSUME FilesInv PROVE LandsInPath
  <2> SUFFICES ASSUME NEW a \in answers, a.drive # "dropbox"
               PROVE  \E w \in [DOMAIN Path -> DOMAIN folders] :
                         /\ w[Len(Path)] = a.folder
                         /\ \A k \in DOMAIN Path :
                               /\ folders[w[k]].drive = a.drive /\ folders[w[k]].name = Path[k]
                               /\ ~folders[w[k]].copy
                               /\ k > 1 => folders[w[k]].parent = w[k - 1]
    BY DEF LandsInPath
  <2>1. Reaches(a.drive, Len(Path), a.folder)
    BY <1>1 DEF FilesInv, DriveInv, PathInv
  <2>2. PICK w : Trail(a.drive, Len(Path), w) /\ (Len(Path) > 0 => w[Len(Path)] = a.folder)
    BY <2>1 DEF Reaches
  <2>3. DOMAIN Path = 1 .. Len(Path) /\ Len(Path) > 0
    BY PathFacts
  <2>4. /\ w \in [DOMAIN Path -> DOMAIN folders] /\ w[Len(Path)] = a.folder
        /\ \A k \in DOMAIN Path :
              /\ folders[w[k]].drive = a.drive /\ folders[w[k]].name = Path[k] /\ ~folders[w[k]].copy
              /\ k > 1 => folders[w[k]].parent = w[k - 1]
    BY <2>2, <2>3 DEF Trail
  <2>5. QED
    BY <2>4, Zenon
<1>2. FilesInv => LandsInPath
  BY <1>1
<1>3. QED
  BY <1>2, FilesAlways, PTL

\* Uploads that do not overlap, and whose requests succeed, make no folder twice,
\* on Google by its name and parent, on OneDrive by its path.
THEOREM NoFolderTwice == FilesSpec => []NoStrayFolder
<1>1. FilesInv => NoStrayFolder
  BY DEF FilesInv, DriveInv, CleanInv
<1>2. QED
  BY <1>1, FilesAlways, PTL
=============================================================================
