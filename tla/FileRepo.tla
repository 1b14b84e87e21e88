------------------------------ MODULE FileRepo ------------------------------
(***************************************************************************)
(* The state store: one record per Drive file with the name and checksum    *)
(* that were last registered and a sync_status. internal/repository has two *)
(* implementations, Firestore and PostgreSQL; each operation is atomic (one *)
(* transaction, one statement) and is given here as an operator on the      *)
(* record of one file. updated_at, which is never read, and mime_type, which  *)
(* neither backend compares, are left out.                                  *)
(***************************************************************************)
CONSTANTS Paths,       \* file names
          Checksums,   \* the MD5 checksums Drive returns
          NoChecksum,  \* "", what Drive returns for Workspace files
          NoDoc        \* the store has no record of the file

\* What discovery passes to Upsert.
Listing == [path : Paths, checksum : Checksums \cup {NoChecksum}]

\* A record of the store. SyncStatusProcessing exists in internal/domain, but no
\* code ever writes it.
Doc == [path : Paths, checksum : Checksums \cup {NoChecksum},
        status : {"pending", "done", "failed"}]

ASSUME RepoAssumption == NoChecksum \notin Checksums /\ NoDoc \notin Doc

\* Faulty: the record is written without its sync_status.
PendingDocFaulty(file) ==
    [path |-> file.path, checksum |-> file.checksum, status |-> ""]

\* The record that both backends write for a file to be processed.
PendingDoc(file) ==
    [path |-> file.path, checksum |-> file.checksum, status |-> "pending"]

\* Faulty: a failed file with an unchanged checksum is left alone.
FirestoreUpsertNoRetry(doc, file) ==
    IF /\ doc # NoDoc
       /\ file.checksum # NoChecksum
       /\ doc.checksum = file.checksum
       /\ doc.path = file.path
    THEN doc
    ELSE PendingDoc(file)

\* Faulty: two empty checksums count as equal.
FirestoreUpsertEmptyEqual(doc, file) ==
    IF /\ doc # NoDoc
       /\ doc.checksum = file.checksum
       /\ doc.status # "failed"
       /\ doc.path = file.path
    THEN doc
    ELSE PendingDoc(file)

\* Firestore: read the document in a transaction, leave an unchanged one alone.
FirestoreUpsert(doc, file) ==
    IF /\ doc # NoDoc
       /\ file.checksum # NoChecksum
       /\ doc.checksum = file.checksum
       /\ doc.status # "failed"
       /\ doc.path = file.path
    THEN doc
    ELSE PendingDoc(file)

\* Faulty: the condition on sync_status is missing from the WHERE clause.
PostgresUpsertFaulty(doc, file) ==
    IF \/ doc = NoDoc
       \/ doc.checksum = NoChecksum
       \/ file.checksum = NoChecksum
       \/ doc.checksum # file.checksum
       \/ doc.path # file.path
    THEN PendingDoc(file)
    ELSE doc

\* PostgreSQL: INSERT, or on conflict UPDATE ... WHERE.
PostgresUpsert(doc, file) ==
    IF \/ doc = NoDoc
       \/ doc.checksum = NoChecksum
       \/ file.checksum = NoChecksum
       \/ doc.checksum # file.checksum
       \/ doc.status = "failed"
       \/ doc.path # file.path
    THEN PendingDoc(file)
    ELSE doc

\* UpdateStatus of a file with a record; every caller registered it before.
WithStatus(doc, status) == [doc EXCEPT !.status = status]

\* ListPending selects these.
IsPending(doc) == doc # NoDoc /\ doc.status = "pending"

=============================================================================
