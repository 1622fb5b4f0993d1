------------------------------ MODULE Documents ------------------------------
(***************************************************************************)
(* The document service (app/services/document): a file uploaded alone, or *)
(* the entries of a ZIP one after another, routed to Madad's extraction    *)
(* service with retries; after each verdict on an entry the checklist of   *)
(* the batch is judged anew and announced.  The names and contents of the  *)
(* files, and the audit trail, are left out.                               *)
(***************************************************************************)
EXTENDS Naturals, FiniteSets

CONSTANTS
    Files,         \* the files a sender may send
    Codes,         \* the document types Madad tells apart
    Lists,         \* the sets of required codes the checklist provider may answer
    MaxAttempts    \* DocumentConfig.max_attempts

ASSUME DocumentsConstants == /\ IsFiniteSet(Files) /\ IsFiniteSet(Codes)
                             /\ Lists \subseteq SUBSET Codes
                             /\ MaxAttempts \in Nat \ {0}

VARIABLES
    doc,      \* the stored record of each file
    route,    \* what the request that ingests the file does
    batch,    \* the stored batch, and the entries its request has still to ingest
    told      \* the last CHECKLIST_UPDATED of the batch

docVars == <<doc, route, batch, told>>

Untyped  == "untyped"
Terminal == {"completed", "rejected", "failed"}
NoDocument == [status |-> "absent", type |-> Untyped, attempts |-> 0, batched |-> FALSE]
NoBatch    == [status |-> "absent", listed |-> FALSE, entries |-> {}, queue |-> {}, count |-> 0]
NothingTold == [needs |-> {}, missing |-> {}, said |-> FALSE]

DocumentsTypeOK ==
    /\ \A f \in Files : /\ doc[f].status \in {"absent", "received"} \cup Terminal
                        /\ doc[f].type \in Codes \cup {Untyped}
                        /\ doc[f].attempts \in 0..MaxAttempts
    /\ route \in [Files -> {"idle", "calling", "judging"}]
    /\ batch.status \in {"absent", "stored", "unpacked", "over"}
    /\ batch.queue \subseteq batch.entries
    /\ batch.count \in 0..Cardinality(Files)

DocumentsInit ==
    /\ doc = [f \in Files |-> NoDocument]
    /\ route = [f \in Files |-> "idle"]
    /\ batch = NoBatch
    /\ told = NothingTold

Proceeds(f, step) == route' = [route EXCEPT ![f] = step]

-----------------------------------------------------------------------------
(* Ingestion *)

\* ingest_document: the record, before Madad is asked.
Ingest(f, inBatch) ==
    /\ doc[f].status = "absent"
    /\ doc' = [doc EXCEPT ![f] = [NoDocument EXCEPT !.status = "received", !.batched = inBatch]]
    /\ Proceeds(f, "calling")

Upload(f) == f \notin batch.entries /\ Ingest(f, FALSE) /\ UNCHANGED <<batch, told>>

\* ingest_zip: the batch is stored before its archive is opened.  It may name
\* the checklist its entries are for.
ReceiveZip ==
    /\ batch.status = "absent"
    /\ \E listed \in BOOLEAN : batch' = [batch EXCEPT !.status = "stored", !.listed = listed]
    /\ UNCHANGED <<doc, route, told>>

\* The request of the ZIP ends; entries it had not come to are never ingested.
Aborts == batch' = [batch EXCEPT !.status = "over", !.queue = {}]

\* An archive that is none
ZipExtractionError ==
    /\ batch.status = "stored"
    /\ Aborts
    /\ UNCHANGED <<doc, route, told>>

\* extract_zip: the entries, none perhaps.
ExtractZip ==
    /\ batch.status = "stored"
    /\ \E S \in SUBSET {f \in Files : doc[f].status = "absent"} :
           batch' = [batch EXCEPT !.status = "unpacked", !.entries = S, !.queue = S]
    /\ UNCHANGED <<doc, route, told>>

\* The entries of a ZIP that are being ingested
Underway == {f \in batch.entries : route[f] # "idle"}

NextEntry(f) ==
    /\ f \in batch.queue /\ Underway = {}
    /\ Ingest(f, TRUE)
    /\ batch' = [batch EXCEPT !.queue = @ \ {f}]
    /\ UNCHANGED told

\* The count is saved when every entry was ingested.
SaveCount ==
    /\ batch.status = "unpacked" /\ batch.queue = {} /\ Underway = {}
    /\ batch' = [batch EXCEPT !.status = "over", !.count = Cardinality(batch.entries)]
    /\ UNCHANGED <<doc, route, told>>

-----------------------------------------------------------------------------
(* Routing to Madad *)

Attempted(f) == [doc[f] EXCEPT !.attempts = @ + 1]

\* A failed call is saved and tried again, until the attempts are used up.
ProcessFails(f) ==
    LET tried == Attempted(f)
    IN  /\ route[f] = "calling"
        /\ IF tried.attempts < MaxAttempts
           THEN doc' = [doc EXCEPT ![f] = tried] /\ UNCHANGED route
           ELSE doc' = [doc EXCEPT ![f] = [tried EXCEPT !.status = "failed"]] /\ Proceeds(f, "idle")
        /\ UNCHANGED <<batch, told>>

\* Madad's verdict is saved; then the checklist of the batch, if there is one.
Processed(f, valid, type) ==
    /\ route[f] = "calling"
    /\ doc' = [doc EXCEPT ![f] = [Attempted(f) EXCEPT
                                    !.type = type, !.status = IF valid THEN "completed" ELSE "rejected"]]
    /\ Proceeds(f, IF doc[f].batched /\ batch.listed THEN "judging" ELSE "idle")
    /\ UNCHANGED <<batch, told>>

\* Only a failed call is retried: an answer that does not validate, or a store
\* that fails, ends the request, and the record stays as it was.
Raises(f) ==
    /\ route[f] # "idle"
    /\ Proceeds(f, "idle")
    /\ IF doc[f].batched THEN Aborts ELSE UNCHANGED batch
    /\ UNCHANGED <<doc, told>>

\* The process dies, with every request under way.
DocumentsDies ==
    /\ route' = [f \in Files |-> "idle"]
    /\ IF batch.status \in {"stored", "unpacked"} THEN Aborts ELSE UNCHANGED batch
    /\ UNCHANGED <<doc, told>>

-----------------------------------------------------------------------------
(* The checklist *)

Validated(D) == {d.type : d \in {doc[f] : f \in {g \in D : doc[g].status = "completed"}}}

\* Faulty: a rejected upload counts.
FaultyUploaded(D) == {f \in D : doc[f].status # "failed"}

\* What counts as uploaded, whether or not Madad could classify it
Uploaded(D) == {f \in D : doc[f].status \notin {"rejected", "failed"}}

\* The required codes without a valid document; none when as many documents
\* were uploaded as are required.
Missing(needs, D) ==
    IF Cardinality(Uploaded(D)) >= Cardinality(needs) THEN {} ELSE needs \ Validated(D)

InBatch == {f \in Files : doc[f].batched}

\* _refresh_checklist, with the required codes the provider answers: operators
\* change them, and the CMS caches them.
Judges(f) ==
    /\ route[f] = "judging"
    /\ \E needs \in Lists :
           told' = [needs |-> needs, missing |-> Missing(needs, InBatch), said |-> TRUE]
    /\ Proceeds(f, "idle")
    /\ UNCHANGED <<doc, batch>>

-----------------------------------------------------------------------------
(* Specification *)

DocumentsNext ==
    \/ ReceiveZip \/ ExtractZip \/ ZipExtractionError \/ SaveCount
    \/ \E f \in Files :
           \/ Upload(f) \/ NextEntry(f) \/ ProcessFails(f) \/ Judges(f) \/ Raises(f)
           \/ \E valid \in BOOLEAN, type \in Codes \cup {Untyped} : Processed(f, valid, type)
    \/ DocumentsDies

DocumentsSpec == DocumentsInit /\ [][DocumentsNext]_docVars

-----------------------------------------------------------------------------
(* Properties *)

\* What the batch announces holds of what it counts: complete is said only of
\* all required codes validated, or of as many valid documents as are required;
\* a document without a verdict never counts (checklist_status), because the
\* entries are ingested one after another.
CompleteIsBacked ==
    told.said /\ told.missing = {} =>
        \/ told.needs \subseteq Validated(InBatch)
        \/ Cardinality({f \in InBatch : doc[f].status = "completed"}) >= Cardinality(told.needs)

\* A batch whose count is saved is whole: every entry has a verdict, and the
\* last announcement is still what its checklist status is.
CountedIsWhole ==
    batch.count > 0 =>
        /\ InBatch = batch.entries /\ batch.count = Cardinality(InBatch)
        /\ \A f \in InBatch : doc[f].status \in Terminal
        /\ told.said => told.missing = Missing(told.needs, InBatch)

\* Announcements and counts of a ZIP are true of its documents, whatever failed,
\* raised or died on the way (ingest_zip, _refresh_checklist).
ChecklistInv == DocumentsTypeOK /\ CompleteIsBacked /\ CountedIsWhole

=============================================================================
