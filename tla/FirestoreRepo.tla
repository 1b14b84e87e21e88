---------------------------- MODULE FirestoreRepo ---------------------------
(***************************************************************************)
(* FirestoreFileRepository under concurrent clients. Upsert is a function   *)
(* that RunTransaction may run several times: it gets the document, decides *)
(* and buffers at most one write, which is committed only if the document   *)
(* did not change since it was read. UpdateStatus is one write.             *)
(***************************************************************************)
EXTENDS Naturals, FileRepo

CONSTANTS Clients,    \* the goroutines and processes that use the repository
          Files,      \* drive_file_id
          NoCall,     \* the client has no call in progress
          Attempts    \* how often RunTransaction runs its function

VARIABLES
    docs,      \* docs[f]: the document of f in the collection files
    tx,        \* tx[c]: the call of c in progress
    answer     \* answer[c]: how the last call of c ended

vars == <<docs, tx, answer>>

Contract == INSTANCE StateStore WITH
    store <- docs,
    call <- [c \in Clients |->
                IF tx[c] = NoCall THEN NoCall
                ELSE [request |-> tx[c].request, applied |-> tx[c].pc = "answer"]]

\* existing is the document the transaction has read, stale says that it was
\* written since.
Transaction ==
    [request : Contract!Request, pc : {"get", "commit", "write", "answer"},
     attempt : 1..Attempts, existing : Doc \cup {NoDoc}, stale : BOOLEAN]

ASSUME FirestoreAssumption ==
    /\ Attempts \in Nat \ {0}
    /\ NoDoc \notin Doc
    /\ NoCall \notin Transaction \cup Contract!Call

TypeOK ==
    /\ docs \in [Files -> Doc \cup {NoDoc}]
    /\ tx \in [Clients -> Transaction \cup {NoCall}]
    /\ answer \in [Clients -> {"none", "ok", "error"}]

Init ==
    /\ docs = [f \in Files |-> NoDoc]
    /\ tx = [c \in Clients |-> NoCall]
    /\ answer = [c \in Clients |-> "none"]

At(c, pc) == tx[c] # NoCall /\ tx[c].pc = pc
FileOf(c) == tx[c].request.file

-----------------------------------------------------------------------------
(* The calls *)

Begin(c) ==
    /\ tx[c] = NoCall
    /\ \E q \in Contract!Request :
          /\ q.op = "update_status" => docs[q.file] # NoDoc
          /\ tx' = [tx EXCEPT ![c] =
                [request |-> q, pc |-> IF q.op = "upsert" THEN "get" ELSE "write",
                 attempt |-> 1, existing |-> NoDoc, stale |-> FALSE]]
    /\ answer' = [answer EXCEPT ![c] = "none"]
    /\ UNCHANGED docs

\* tx.Get; a missing document is not an error.
Get(c) ==
    /\ At(c, "get")
    /\ tx' = [tx EXCEPT ![c].existing = docs[FileOf(c)], ![c].stale = FALSE,
                        ![c].pc = "commit"]
    /\ UNCHANGED <<docs, answer>>

\* A write of c: it makes what the other transactions have read stale.
Put(c, doc) ==
    /\ docs' = [docs EXCEPT ![FileOf(c)] = doc]
    /\ tx' = [d \in Clients |->
          IF d = c THEN [tx[c] EXCEPT !.pc = "answer"]
          ELSE IF At(d, "commit") /\ FileOf(d) = FileOf(c)
               THEN [tx[d] EXCEPT !.stale = TRUE]
          ELSE tx[d]]
    /\ UNCHANGED answer

\* Faulty: the write does not depend on what was read.
CommitFaulty(c) ==
    /\ At(c, "commit")
    /\ Put(c, FirestoreUpsert(tx[c].existing, tx[c].request.arg))

\* The buffered write, if there is one, is committed.
Commit(c) ==
    /\ At(c, "commit") /\ ~tx[c].stale
    /\ LET doc == FirestoreUpsert(tx[c].existing, tx[c].request.arg) IN
       IF doc = tx[c].existing
       THEN /\ tx' = [tx EXCEPT ![c].pc = "answer"]
            /\ UNCHANGED <<docs, answer>>
       ELSE Put(c, doc)

\* Faulty: existing is declared outside of the function, so that another attempt
\* commits the first decision.
RetryFaulty(c) ==
    /\ tx[c] # NoCall /\ tx[c].pc \in {"get", "commit"}
    /\ tx[c].attempt < Attempts
    /\ tx' = [tx EXCEPT ![c].stale = FALSE, ![c].attempt = tx[c].attempt + 1]
    /\ UNCHANGED <<docs, answer>>

\* The get or the commit is aborted, because of a conflict or of contention:
\* the function is run again.
Retry(c) ==
    /\ tx[c] # NoCall /\ tx[c].pc \in {"get", "commit"}
    /\ tx[c].attempt < Attempts
    /\ tx' = [tx EXCEPT ![c].pc = "get", ![c].attempt = tx[c].attempt + 1]
    /\ UNCHANGED <<docs, answer>>

\* Faulty: a Set of the fields without MergeAll, which replaces the document.
WriteFaulty(c) ==
    /\ At(c, "write")
    /\ Put(c, [status |-> tx[c].request.arg])

\* UpdateStatus: one write of two fields, whatever else the document says.
Write(c) ==
    /\ At(c, "write")
    /\ Put(c, WithStatus(docs[FileOf(c)], tx[c].request.arg))

\* Faulty: an error of the transaction is not passed on.
AnswerFaulty(c) ==
    /\ tx[c] # NoCall
    /\ answer' = [answer EXCEPT ![c] = "ok"]
    /\ tx' = [tx EXCEPT ![c] = NoCall]
    /\ UNCHANGED docs

\* The call returns: nil if it took effect; or an error, of any call to the
\* service, of the last attempt, or because a response was lost.
Answer(c) ==
    /\ tx[c] # NoCall
    /\ \E a \in {"ok", "error"} :
          /\ a = "ok" => tx[c].pc = "answer"
          /\ answer' = [answer EXCEPT ![c] = a]
    /\ tx' = [tx EXCEPT ![c] = NoCall]
    /\ UNCHANGED docs

Step(c) == Get(c) \/ Commit(c) \/ Retry(c) \/ Write(c) \/ Answer(c)

Next == \E c \in Clients : Begin(c) \/ Step(c)

\* Calls to the service return.
Spec == Init /\ [][Next]_vars /\ \A c \in Clients : WF_vars(Step(c))

-----------------------------------------------------------------------------
(* Properties *)

\* What a transaction is about to commit was decided on the current document.
FreshUnlessStale ==
    \A c \in Clients : At(c, "commit") /\ ~tx[c].stale => tx[c].existing = docs[FileOf(c)]

\* Only an Upsert gets and commits; an UpdateStatus writes to a document that exists.
CallsInOrder ==
    \A c \in Clients :
        /\ At(c, "get") \/ At(c, "commit") => tx[c].request.op = "upsert"
        /\ At(c, "write") =>
               tx[c].request.op = "update_status" /\ docs[FileOf(c)] # NoDoc

\* The inductive invariant.
IInv == TypeOK /\ CallsInOrder /\ FreshUnlessStale

\* A record that is done goes back to pending only for a listing that differs
\* from it or has no checksum, or by an explicit UpdateStatus: an Upsert never
\* acts on a status that another client has replaced meanwhile.
DoneRequeuedForCause ==
    [][\A f \in Files :
        docs[f] # NoDoc /\ docs[f].status = "done" /\ IsPending(docs'[f]) =>
            \E c \in Clients :
                /\ ~At(c, "answer") /\ At(c, "answer")' /\ FileOf(c) = f
                /\ LET q == tx[c].request IN
                   \/ q.op = "update_status" /\ q.arg = "pending"
                   \/ /\ q.op = "upsert"
                      /\ \/ q.arg.checksum \in {NoChecksum} \cup (Checksums \ {docs[f].checksum})
                         \/ q.arg.path # docs[f].path]_vars

\* The repository is the atomic store that the worker relies on, and every call
\* returns, because the attempts are limited.
ImplementsStateStore == Contract!StoreSpec

=============================================================================
