----------------------------- MODULE StateStore -----------------------------
(***************************************************************************)
(* What the worker relies on when it calls Upsert or UpdateStatus: a call   *)
(* takes effect at one moment between its start and its return, at most     *)
(* once; nil means that it did, an error says nothing. Pipeline is written  *)
(* against this contract; FirestoreRepo implements it.                      *)
(***************************************************************************)
EXTENDS FileRepo

CONSTANTS Clients,   \* the goroutines and processes that call the store
          Files,     \* drive_file_id
          NoCall     \* the client has no call in progress

VARIABLES
    store,    \* store[f]: the record of f
    call,     \* call[c]: the call of c in progress, and whether it took effect
    answer    \* answer[c]: how the last call of c ended

storeVars == <<store, call, answer>>

Statuses == {"pending", "done", "failed"}

\* A call carries the listing to register or the status to set.
Request ==
    [op : {"upsert"}, file : Files, arg : Listing]
        \cup [op : {"update_status"}, file : Files, arg : Statuses]
Call == [request : Request, applied : BOOLEAN]

StoreInit ==
    /\ store = [f \in Files |-> NoDoc]
    /\ call = [c \in Clients |-> NoCall]
    /\ answer = [c \in Clients |-> "none"]

\* The record that a request leaves behind.
Outcome(doc, q) ==
    IF q.op = "upsert" THEN FirestoreUpsert(doc, q.arg) ELSE WithStatus(doc, q.arg)

\* UpdateStatus is called for files that were registered or listed before.
Invoke(c) ==
    /\ call[c] = NoCall
    /\ \E q \in Request :
          /\ q.op = "update_status" => store[q.file] # NoDoc
          /\ call' = [call EXCEPT ![c] = [request |-> q, applied |-> FALSE]]
    /\ answer' = [answer EXCEPT ![c] = "none"]
    /\ UNCHANGED store

Apply(c) ==
    /\ call[c] # NoCall /\ ~call[c].applied
    /\ LET q == call[c].request IN
          /\ store' = [store EXCEPT ![q.file] = Outcome(store[q.file], q)]
          /\ call' = [call EXCEPT ![c] = [request |-> q, applied |-> TRUE]]
    /\ UNCHANGED answer

Return(c) ==
    /\ call[c] # NoCall
    /\ \E a \in {"ok", "error"} :
          /\ a = "ok" => call[c].applied
          /\ answer' = [answer EXCEPT ![c] = a]
    /\ call' = [call EXCEPT ![c] = NoCall]
    /\ UNCHANGED store

StoreNext == \E c \in Clients : Invoke(c) \/ Apply(c) \/ Return(c)

StoreSafety == StoreInit /\ [][StoreNext]_storeVars

\* Every call returns.
StoreSpec == StoreSafety /\ \A c \in Clients : WF_storeVars(Return(c))

=============================================================================
