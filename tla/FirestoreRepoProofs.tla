------------------------- MODULE FirestoreRepoProofs ------------------------
(***************************************************************************)
(* The Firestore repository is an atomic store for any number of clients,   *)
(* files and attempts. IInv is inductive: that a transaction which is not   *)
(* stale has read the current document is what makes its decision at commit *)
(* the decision of the contract at that moment. That every call returns is  *)
(* liveness, and model-checked only.                                        *)
(***************************************************************************)
EXTENDS FirestoreRepo, TLAPS

\* An Upsert leaves a well-formed document behind.
LEMMA UpsertType ==
    ASSUME NEW doc \in Doc \cup {NoDoc}, NEW file \in Listing
    PROVE  FirestoreUpsert(doc, file) \in Doc
BY DEF FirestoreUpsert, PendingDoc, Doc, Listing

\* So does an UpdateStatus of a document that exists.
LEMMA StatusType ==
    ASSUME NEW doc \in Doc, NEW status \in Contract!Statuses
    PROVE  WithStatus(doc, status) \in Doc
BY DEF WithStatus, Doc, Contract!Statuses

\* What the type of the state says about the call of one client.
LEMMA CallType ==
    ASSUME TypeOK, NEW c \in Clients, tx[c] # NoCall
    PROVE  /\ tx[c] \in Transaction
           /\ FileOf(c) \in Files /\ docs[FileOf(c)] \in Doc \cup {NoDoc}
           /\ tx[c].request.op = "upsert" => tx[c].request.arg \in Listing
           /\ tx[c].request.op = "update_status" => tx[c].request.arg \in Contract!Statuses
<1>1. tx[c] \in Transaction
  BY DEF TypeOK
<1>2. tx[c].request \in Contract!Request
  BY <1>1 DEF Transaction
<1>3. FileOf(c) \in Files
  BY <1>2 DEF FileOf, Contract!Request
<1>4. /\ tx[c].request.op = "upsert" => tx[c].request.arg \in Listing
      /\ tx[c].request.op = "update_status" => tx[c].request.arg \in Contract!Statuses
  BY <1>2 DEF Contract!Request, Contract!Listing, Listing
<1> QED BY <1>1, <1>3, <1>4 DEF TypeOK

\* Before the first call nothing is registered.
LEMMA InitIInv == Init => IInv
BY DEF Init, IInv, TypeOK, CallsInOrder, FreshUnlessStale, At

\* A new call starts with its first attempt; UpdateStatus finds a document.
LEMMA BeginIInv ==
    ASSUME IInv, NEW c \in Clients, Begin(c)
    PROVE  IInv'
<1> PICK q \in Contract!Request :
        /\ q.op = "update_status" => docs[q.file] # NoDoc
        /\ tx' = [tx EXCEPT ![c] =
              [request |-> q, pc |-> IF q.op = "upsert" THEN "get" ELSE "write",
               attempt |-> 1, existing |-> NoDoc, stale |-> FALSE]]
  BY DEF Begin
<1>1. q.op \in {"upsert", "update_status"}
  BY DEF Contract!Request
<1>2. TypeOK'
  <2>1. tx'[c] \in Transaction
    BY FirestoreAssumption DEF IInv, TypeOK, Transaction
  <2> QED BY <2>1 DEF IInv, TypeOK, Begin
<1>3. CallsInOrder'
  BY <1>1 DEF IInv, TypeOK, CallsInOrder, At, FileOf, Begin
<1>4. FreshUnlessStale'
  BY <1>1 DEF IInv, TypeOK, FreshUnlessStale, At, FileOf, Begin
<1> QED BY <1>2, <1>3, <1>4 DEF IInv

\* A get reads the current document.
LEMMA GetIInv ==
    ASSUME IInv, NEW c \in Clients, Get(c)
    PROVE  IInv'
<1>1. tx[c] # NoCall
  BY DEF Get, At
<1>2. tx' = [tx EXCEPT ![c] = [tx[c] EXCEPT !.existing = docs[FileOf(c)],
                                            !.stale = FALSE, !.pc = "commit"]]
  BY <1>1, CallType DEF Get, IInv, TypeOK, Transaction
<1>3. TypeOK'
  <2>1. tx'[c] \in Transaction
    BY <1>1, <1>2, CallType DEF IInv, TypeOK, Transaction
  <2> QED BY <1>2, <2>1 DEF Get, IInv, TypeOK
<1>4. /\ tx'[c].request = tx[c].request /\ tx'[c].pc = "commit"
      /\ tx'[c].existing = docs[FileOf(c)]
      /\ \A d \in Clients \ {c} : tx'[d] = tx[d]
      /\ docs' = docs
  BY <1>1, <1>2, CallType DEF Get, IInv, TypeOK, Transaction
<1>5. tx[c].request.op = "upsert"
  BY DEF Get, IInv, CallsInOrder
<1>6. CallsInOrder'
  BY <1>1, <1>4, <1>5 DEF IInv, CallsInOrder, At, FileOf
<1>7. FreshUnlessStale'
  BY <1>1, <1>4 DEF IInv, FreshUnlessStale, At, FileOf
<1> QED BY <1>3, <1>6, <1>7 DEF IInv

\* A write makes the other transactions on its document stale, and only those.
LEMMA PutIInv ==
    ASSUME IInv, NEW c \in Clients, tx[c] # NoCall, NEW doc \in Doc, Put(c, doc)
    PROVE  IInv'
<1>1. \A d \in Clients \ {c} :
          \/ tx'[d] = tx[d] /\ (At(d, "commit") => FileOf(d) # FileOf(c))
          \/ At(d, "commit") /\ tx'[d] = [tx[d] EXCEPT !.stale = TRUE]
  BY DEF Put
<1>2. tx'[c] = [tx[c] EXCEPT !.pc = "answer"]
  BY DEF Put
<1>3. TypeOK'
  <2>1. \A d \in Clients : tx'[d] \in Transaction \cup {NoCall}
    <3>1. ASSUME NEW d \in Clients, At(d, "commit") \/ d = c
          PROVE  /\ [tx[d] EXCEPT !.stale = TRUE] \in Transaction
                 /\ [tx[d] EXCEPT !.pc = "answer"] \in Transaction
      <4>1. tx[d] \in Transaction
        BY <3>1 DEF IInv, TypeOK, At
      <4> QED BY <4>1 DEF Transaction
    <3>2. \A d \in Clients : tx[d] \in Transaction \cup {NoCall}
      BY DEF IInv, TypeOK
    <3>3. tx'[c] \in Transaction
      BY <1>2, <3>1
    <3>4. \A d \in Clients \ {c} : tx'[d] \in Transaction \cup {NoCall}
      BY <1>1, <3>1, <3>2
    <3> QED BY <3>3, <3>4
  <2> QED BY <2>1, CallType DEF Put, IInv, TypeOK
<1>4. docs'[FileOf(c)] = doc /\ \A f \in Files \ {FileOf(c)} : docs'[f] = docs[f]
  BY CallType DEF Put, IInv, TypeOK
<1>5. tx'[c].pc = "answer"
  BY <1>2, CallType DEF IInv, Transaction
<1>6. CallsInOrder'
  <2> SUFFICES ASSUME NEW d \in Clients, tx'[d] # NoCall, d # c
               PROVE  /\ tx'[d].pc \in {"get", "commit"} => tx'[d].request.op = "upsert"
                      /\ tx'[d].pc = "write" =>
                            /\ tx'[d].request.op = "update_status"
                            /\ docs'[tx'[d].request.file] # NoDoc
    BY <1>5 DEF CallsInOrder, At, FileOf
  <2>1. tx[d] # NoCall /\ tx'[d].request = tx[d].request /\ tx'[d].pc = tx[d].pc
    <3>1. CASE tx'[d] = tx[d]
      BY <3>1
    <3>2. CASE At(d, "commit") /\ tx'[d] = [tx[d] EXCEPT !.stale = TRUE]
      <4>1. tx[d] \in Transaction
        BY <3>2, CallType DEF IInv, At
      <4> QED BY <3>2, <4>1 DEF Transaction, At
    <3> QED BY <1>1, <3>1, <3>2
  <2>2. FileOf(d) \in Files
    BY <2>1, CallType DEF IInv
  <2> QED BY <1>4, <2>1, <2>2, FirestoreAssumption DEF IInv, CallsInOrder, At, FileOf
<1>7. FreshUnlessStale'
  <2> SUFFICES ASSUME NEW d \in Clients, tx'[d] # NoCall, d # c, tx'[d].pc = "commit",
                      ~tx'[d].stale
               PROVE  tx'[d].existing = docs'[tx'[d].request.file]
    BY <1>5 DEF FreshUnlessStale, At, FileOf
  <2>1. tx'[d] = tx[d] /\ tx[d] # NoCall /\ FileOf(d) # FileOf(c)
    <3>1. ~(At(d, "commit") /\ tx'[d] = [tx[d] EXCEPT !.stale = TRUE])
      <4>1. At(d, "commit") => tx[d] \in Transaction
        BY CallType DEF IInv, At
      <4> QED BY <4>1 DEF Transaction
    <3>2. tx'[d] = tx[d] /\ (At(d, "commit") => FileOf(d) # FileOf(c))
      BY <1>1, <3>1
    <3> QED BY <3>2 DEF At
  <2>2. FileOf(d) \in Files
    BY <2>1, CallType DEF IInv
  <2> QED BY <1>4, <2>1, <2>2 DEF IInv, FreshUnlessStale, At, FileOf
<1> QED BY <1>3, <1>6, <1>7 DEF IInv

\* A step that only moves one client to a statement without obligations.
LEMMA MoveIInv ==
    ASSUME IInv, NEW c \in Clients, tx[c] # NoCall, NEW t \in Transaction,
           tx' = [tx EXCEPT ![c] = t], UNCHANGED <<docs, answer>>,
           t.pc = "answer" \/ (t.pc = "get" /\ t.request.op = "upsert")
    PROVE  IInv'
<1>1. TypeOK'
  BY DEF IInv, TypeOK
<1>2. CallsInOrder' /\ FreshUnlessStale'
  BY FirestoreAssumption DEF IInv, TypeOK, CallsInOrder, FreshUnlessStale, At, FileOf
<1> QED BY <1>1, <1>2 DEF IInv

\* A commit writes, or finds that there is nothing to write.
LEMMA CommitIInv ==
    ASSUME IInv, NEW c \in Clients, Commit(c)
    PROVE  IInv'
<1> DEFINE doc == FirestoreUpsert(tx[c].existing, tx[c].request.arg)
<1>1. tx[c] # NoCall /\ tx[c] \in Transaction /\ doc \in Doc
  <2>1. tx[c] # NoCall /\ tx[c].request.op = "upsert"
    BY DEF Commit, At, IInv, CallsInOrder
  <2> QED BY <2>1, CallType, UpsertType DEF IInv, Transaction
<1>2. CASE doc = tx[c].existing
  BY <1>1, <1>2, MoveIInv DEF Commit, Transaction
<1>3. CASE doc # tx[c].existing
  BY <1>1, <1>3, PutIInv DEF Commit
<1> QED BY <1>2, <1>3

\* Another attempt starts with a get.
LEMMA RetryIInv ==
    ASSUME IInv, NEW c \in Clients, Retry(c)
    PROVE  IInv'
<1> DEFINE t == [tx[c] EXCEPT !.pc = "get", !.attempt = tx[c].attempt + 1]
<1>1. tx[c] # NoCall /\ tx[c] \in Transaction /\ tx[c].request.op = "upsert"
  BY CallType DEF Retry, IInv, CallsInOrder, At
<1>2. t \in Transaction /\ t.pc = "get" /\ t.request.op = "upsert"
  <2>1. tx[c].attempt + 1 \in 1..Attempts
    BY <1>1, FirestoreAssumption DEF Retry, Transaction
  <2> QED BY <1>1, <2>1 DEF Transaction
<1>3. tx' = [tx EXCEPT ![c] = t]
  BY <1>1 DEF Retry, IInv, TypeOK, Transaction
<1> QED BY <1>1, <1>2, <1>3, MoveIInv DEF Retry

\* A status is written to a document that exists.
LEMMA WriteIInv ==
    ASSUME IInv, NEW c \in Clients, Write(c)
    PROVE  IInv'
<1>1. tx[c] # NoCall
  BY DEF Write, At
<1>2. WithStatus(docs[FileOf(c)], tx[c].request.arg) \in Doc
  BY <1>1, CallType, StatusType DEF Write, IInv, CallsInOrder
<1> QED BY <1>1, <1>2, PutIInv DEF Write

\* A client that has returned owes nothing.
LEMMA AnswerIInv ==
    ASSUME IInv, NEW c \in Clients, Answer(c)
    PROVE  IInv'
BY DEF Answer, IInv, TypeOK, CallsInOrder, FreshUnlessStale, At, FileOf

\* Every step preserves the invariant.
LEMMA StepIInv == IInv /\ [Next]_vars => IInv'
<1>1. ASSUME IInv, NEW c \in Clients, Begin(c) \/ Step(c) PROVE IInv'
  BY <1>1, BeginIInv, GetIInv, CommitIInv, RetryIInv, WriteIInv, AnswerIInv DEF Step
<1>2. ASSUME IInv, UNCHANGED vars PROVE IInv'
  BY <1>2 DEF vars, IInv, TypeOK, CallsInOrder, FreshUnlessStale, At, FileOf
<1> QED BY <1>1, <1>2 DEF Next

\* The state keeps its type, calls keep to the order of the code, and a transaction that
\* was not overtaken has read the current document.
THEOREM FirestoreInductive == Spec => []IInv
BY InitIInv, StepIInv, PTL DEF Spec

\* Whatever the other clients do, a transaction that may commit decided on the document
\* it replaces.
THEOREM NoStaleDecision == Spec => []FreshUnlessStale
BY FirestoreInductive, PTL DEF IInv

\* A write replaces the document of its call, and the call has taken effect then.
LEMMA PutEffect ==
    ASSUME IInv, NEW c \in Clients, tx[c] # NoCall, tx[c].pc # "answer", NEW doc,
           Put(c, doc)
    PROVE  /\ FileOf(c) \in Files
           /\ \A f \in Files : docs'[f] = IF f = FileOf(c) THEN doc ELSE docs[f]
           /\ ~At(c, "answer") /\ At(c, "answer")'
<1>1. tx[c] \in Transaction /\ FileOf(c) \in Files
  BY CallType DEF IInv
<1>2. tx'[c] = [tx[c] EXCEPT !.pc = "answer"]
  BY DEF Put
<1>3. [tx[c] EXCEPT !.pc = "answer"] \in Transaction
  BY <1>1 DEF Transaction
<1>4. tx'[c] # NoCall /\ tx'[c].pc = "answer"
  BY <1>1, <1>2, <1>3, FirestoreAssumption DEF Transaction
<1> QED BY <1>1, <1>4 DEF Put, IInv, TypeOK, At

\* Whoever makes a done document pending was asked to, or saw a listing that differs
\* from that very document or cannot be compared with it: not from an older reading.
THEOREM RequeuedForCause == Spec => DoneRequeuedForCause
<1> DEFINE Cause(f, c) ==
        /\ ~At(c, "answer") /\ At(c, "answer")' /\ FileOf(c) = f
        /\ LET q == tx[c].request IN
           \/ q.op = "update_status" /\ q.arg = "pending"
           \/ /\ q.op = "upsert"
              /\ \/ q.arg.checksum \in {NoChecksum} \cup (Checksums \ {docs[f].checksum})
                 \/ q.arg.path # docs[f].path
<1>1. ASSUME IInv, [Next]_vars, NEW f \in Files,
             docs[f] # NoDoc, docs[f].status = "done", IsPending(docs'[f])
      PROVE  \E c \in Clients : Cause(f, c)
  <2>1. docs'[f] # docs[f] /\ docs[f] \in Doc
    BY <1>1 DEF IsPending, IInv, TypeOK
  <2>2. PICK c \in Clients : Commit(c) \/ Write(c)
    BY <1>1, <2>1 DEF Next, Step, Begin, Get, Retry, Answer, vars
  <2>3. tx[c] # NoCall /\ tx[c].pc # "answer"
    BY <2>2 DEF Commit, Write, At
  <2>4. CASE Commit(c)
    <3> DEFINE doc == FirestoreUpsert(tx[c].existing, tx[c].request.arg)
    <3>1. Put(c, doc)
      BY <2>1, <2>4 DEF Commit
    <3>2. /\ tx[c].request.op = "upsert" /\ tx[c].existing = docs[FileOf(c)]
          /\ tx[c].request.arg \in Listing
      BY <1>1, <2>3, <2>4, CallType
      DEF Commit, IInv, CallsInOrder, FreshUnlessStale
    <3> HIDE DEF doc
    <3>3. /\ ~At(c, "answer") /\ At(c, "answer")' /\ FileOf(c) = f /\ docs'[f] = doc
      BY <1>1, <2>1, <2>3, <3>1, PutEffect
    <3>4. doc = FirestoreUpsert(docs[f], tx[c].request.arg)
      BY <3>2, <3>3 DEF doc
    <3>5. \/ tx[c].request.arg.checksum = NoChecksum
          \/ docs[f].checksum # tx[c].request.arg.checksum
          \/ docs[f].path # tx[c].request.arg.path
      BY <1>1, <2>1, <3>3, <3>4 DEF FirestoreUpsert
    <3>6. tx[c].request.arg.checksum \in Checksums \cup {NoChecksum}
      BY <3>2 DEF Listing
    <3> QED BY <3>2, <3>3, <3>5, <3>6
  <2>5. CASE Write(c)
    <3>1. tx[c].request.op = "update_status" /\ Put(c, WithStatus(docs[FileOf(c)],
                                                                  tx[c].request.arg))
      BY <1>1, <2>5 DEF Write, IInv, CallsInOrder
    <3>2. /\ ~At(c, "answer") /\ At(c, "answer")' /\ FileOf(c) = f
          /\ docs'[f] = WithStatus(docs[f], tx[c].request.arg)
      BY <1>1, <2>1, <2>3, <3>1, PutEffect
    <3>3. tx[c].request.arg = "pending"
      BY <1>1, <2>1, <3>2 DEF WithStatus, IsPending, Doc
    <3> QED BY <3>1, <3>2, <3>3
  <2> QED BY <2>2, <2>4, <2>5
<1>2. IInv /\ [Next]_vars =>
        [\A f \in Files :
            docs[f] # NoDoc /\ docs[f].status = "done" /\ IsPending(docs'[f]) =>
                \E c \in Clients : Cause(f, c)]_vars
  BY <1>1
<1> QED BY <1>2, FirestoreInductive, PTL DEF Spec, DoneRequeuedForCause

-----------------------------------------------------------------------------
(* The contract *)

\* The call of c that the contract sees.
Seen(c) == IF tx[c] = NoCall THEN NoCall
           ELSE [request |-> tx[c].request, applied |-> tx[c].pc = "answer"]

\* A call that is in progress for the repository is in progress for the contract.
LEMMA SeenCall ==
    ASSUME TypeOK, NEW c \in Clients, tx[c] # NoCall
    PROVE  Seen(c) # NoCall
<1>1. Seen(c) \in Contract!Call
  BY CallType DEF Seen, Contract!Call, Transaction
<1> QED BY <1>1, FirestoreAssumption

Calls == [c \in Clients |-> Seen(c)]

\* A step of c changes what is seen of c only.
LEMMA CallsStep ==
    ASSUME NEW c \in Clients, \A d \in Clients \ {c} : Seen(d)' = Seen(d)
    PROVE  Calls' = [Calls EXCEPT ![c] = Seen(c)']
BY DEF Calls

\* The moment at which a call takes effect.
LEMMA TakesEffect ==
    ASSUME IInv, NEW c \in Clients, tx[c] # NoCall, tx[c].pc # "answer",
           docs' = [docs EXCEPT ![FileOf(c)] =
                       Contract!Outcome(docs[FileOf(c)], tx[c].request)],
           answer' = answer,
           Seen(c)' = [request |-> tx[c].request, applied |-> TRUE],
           \A d \in Clients \ {c} : Seen(d)' = Seen(d)
    PROVE  Contract!Apply(c)
<1>1. Calls[c] = [request |-> tx[c].request, applied |-> FALSE]
  BY DEF Calls, Seen
<1>2. Calls[c] # NoCall /\ ~Calls[c].applied
  BY <1>1, SeenCall DEF IInv, Calls
<1>3. Calls' = [Calls EXCEPT ![c] = [request |-> Calls[c].request, applied |-> TRUE]]
  BY <1>1, CallsStep
<1>4. docs' = [docs EXCEPT ![Calls[c].request.file] =
                  Contract!Outcome(docs[Calls[c].request.file], Calls[c].request)]
  BY <1>1 DEF FileOf
<1> QED BY <1>2, <1>3, <1>4 DEF Contract!Apply, Calls, Seen

\* A write is that moment; the calls of the others do not notice.
LEMMA PutApplies ==
    ASSUME IInv, NEW c \in Clients, tx[c] # NoCall, tx[c].pc # "answer",
           Put(c, Contract!Outcome(docs[FileOf(c)], tx[c].request))
    PROVE  Contract!Apply(c)
<1>1. Seen(c)' = [request |-> tx[c].request, applied |-> TRUE]
  <2>1. tx'[c] = [tx[c] EXCEPT !.pc = "answer"] /\ tx[c] \in Transaction
    BY CallType DEF Put, IInv
  <2>2. tx'[c] \in Transaction /\ tx'[c].pc = "answer" /\ tx'[c].request = tx[c].request
    BY <2>1 DEF Transaction
  <2> QED BY <2>2, FirestoreAssumption DEF Seen
<1>2. \A d \in Clients \ {c} : Seen(d)' = Seen(d)
  <2> SUFFICES ASSUME NEW d \in Clients \ {c}, At(d, "commit"),
                      tx'[d] = [tx[d] EXCEPT !.stale = TRUE]
               PROVE  Seen(d)' = Seen(d)
    BY DEF Put, Seen
  <2>1. tx[d] # NoCall /\ tx[d] \in Transaction
    BY CallType DEF IInv, At
  <2>2. /\ tx'[d] \in Transaction
        /\ tx'[d].pc = tx[d].pc /\ tx'[d].request = tx[d].request
    BY <2>1 DEF Transaction
  <2> QED BY <2>1, <2>2, FirestoreAssumption DEF Seen
<1> QED BY <1>1, <1>2, TakesEffect DEF Put

\* A step of c alone that leaves its request alone and does not take effect is not seen.
LEMMA Unseen ==
    ASSUME IInv, NEW c \in Clients, tx[c] # NoCall, tx[c].pc # "answer",
           NEW t \in Transaction, t.request = tx[c].request, t.pc # "answer",
           tx' = [tx EXCEPT ![c] = t], UNCHANGED <<docs, answer>>
    PROVE  UNCHANGED Contract!storeVars
<1>1. tx'[c] = t /\ \A d \in Clients \ {c} : tx'[d] = tx[d]
  BY DEF IInv, TypeOK
<1>2. \A d \in Clients : Seen(d)' = Seen(d)
  BY <1>1, FirestoreAssumption DEF Seen
<1>3. Calls' = Calls
  BY <1>2 DEF Calls
<1> QED BY <1>3 DEF Contract!storeVars, Calls, Seen

\* A call begins for the contract when it begins.
LEMMA BeginContract ==
    ASSUME IInv, NEW c \in Clients, Begin(c)
    PROVE  Contract!Invoke(c)
<1> PICK q \in Contract!Request :
        /\ q.op = "update_status" => docs[q.file] # NoDoc
        /\ tx' = [tx EXCEPT ![c] =
              [request |-> q, pc |-> IF q.op = "upsert" THEN "get" ELSE "write",
               attempt |-> 1, existing |-> NoDoc, stale |-> FALSE]]
  BY DEF Begin
<1>1. tx'[c] \in Transaction /\ tx'[c].request = q /\ tx'[c].pc # "answer"
  BY FirestoreAssumption DEF IInv, TypeOK, Transaction
<1>2. Seen(c)' = [request |-> q, applied |-> FALSE]
  BY <1>1, FirestoreAssumption DEF Seen
<1>3. \A d \in Clients \ {c} : Seen(d)' = Seen(d)
  BY DEF IInv, TypeOK, Seen
<1>4. Calls' = [Calls EXCEPT ![c] = [request |-> q, applied |-> FALSE]]
  BY <1>2, <1>3, CallsStep
<1>5. Calls[c] = NoCall
  BY DEF Begin, Calls, Seen
<1> QED BY <1>4, <1>5 DEF Begin, Contract!Invoke, Calls, Seen

\* A call returns for the contract when it returns, with nil only if it took effect.
LEMMA AnswerContract ==
    ASSUME IInv, NEW c \in Clients, Answer(c)
    PROVE  Contract!Return(c)
<1>1. Seen(c)' = NoCall /\ \A d \in Clients \ {c} : Seen(d)' = Seen(d)
  BY DEF Answer, IInv, TypeOK, Seen
<1>2. Calls' = [Calls EXCEPT ![c] = NoCall]
  BY <1>1, CallsStep
<1>3. Calls[c] # NoCall /\ (tx[c].pc = "answer" => Calls[c].applied)
  BY SeenCall DEF Answer, IInv, Calls, Seen
<1> QED BY <1>2, <1>3 DEF Answer, Contract!Return, Calls, Seen

\* A commit decides on the current document, so it has the contract's effect, whether
\* it writes or finds that nothing has to be written.
LEMMA CommitContract ==
    ASSUME IInv, NEW c \in Clients, Commit(c)
    PROVE  Contract!Apply(c)
<1> DEFINE doc == FirestoreUpsert(tx[c].existing, tx[c].request.arg)
<1>1. tx[c] # NoCall /\ tx[c].pc # "answer" /\ tx[c].request.op = "upsert"
  BY DEF Commit, At, IInv, CallsInOrder
<1>2. tx[c].existing = docs[FileOf(c)]
  BY DEF Commit, IInv, FreshUnlessStale
<1>3. Contract!Outcome(docs[FileOf(c)], tx[c].request) = doc
  BY <1>1, <1>2 DEF Contract!Outcome, Contract!FirestoreUpsert, FirestoreUpsert,
                    Contract!PendingDoc, PendingDoc
<1>4. CASE doc # tx[c].existing
  BY <1>1, <1>3, <1>4, PutApplies DEF Commit
<1>5. CASE doc = tx[c].existing
  <2>1. tx' = [tx EXCEPT ![c].pc = "answer"] /\ UNCHANGED <<docs, answer>>
    BY <1>5 DEF Commit
  <2>2. docs' = [docs EXCEPT ![FileOf(c)] = doc]
    BY <1>1, <1>2, <1>5, <2>1, CallType DEF IInv, TypeOK
  <2>3. Seen(c)' = [request |-> tx[c].request, applied |-> TRUE]
    <3>1. tx[c] \in Transaction
      BY <1>1, CallType DEF IInv
    <3>2. /\ tx'[c] \in Transaction /\ tx'[c].pc = "answer"
          /\ tx'[c].request = tx[c].request
      BY <2>1, <3>1 DEF IInv, TypeOK, Transaction
    <3> QED BY <3>2, FirestoreAssumption DEF Seen
  <2>4. \A d \in Clients \ {c} : Seen(d)' = Seen(d)
    BY <2>1 DEF IInv, TypeOK, Seen
  <2> QED BY <1>1, <1>3, <2>1, <2>2, <2>3, <2>4, TakesEffect
<1> QED BY <1>4, <1>5

\* An UpdateStatus takes effect with its write.
LEMMA WriteContract ==
    ASSUME IInv, NEW c \in Clients, Write(c)
    PROVE  Contract!Apply(c)
<1>1. tx[c] # NoCall /\ tx[c].pc # "answer" /\ tx[c].request.op = "update_status"
  BY DEF Write, At, IInv, CallsInOrder
<1>2. Contract!Outcome(docs[FileOf(c)], tx[c].request)
        = WithStatus(docs[FileOf(c)], tx[c].request.arg)
  BY <1>1 DEF Contract!Outcome, Contract!WithStatus, WithStatus
<1> QED BY <1>1, <1>2, PutApplies DEF Write

\* Getting the document, and trying again, are not seen.
LEMMA GetRetryUnseen ==
    ASSUME IInv, NEW c \in Clients, Get(c) \/ Retry(c)
    PROVE  UNCHANGED Contract!storeVars
<1>1. tx[c] # NoCall /\ tx[c].pc # "answer"
  BY DEF Get, Retry, At
<1>2. tx[c] \in Transaction /\ docs[FileOf(c)] \in Doc \cup {NoDoc}
  BY <1>1, CallType DEF IInv
<1>3. CASE Get(c)
  <2> DEFINE t == [tx[c] EXCEPT !.existing = docs[FileOf(c)], !.stale = FALSE,
                                !.pc = "commit"]
  <2>1. t \in Transaction /\ t.request = tx[c].request /\ t.pc # "answer"
    BY <1>2 DEF Transaction
  <2>2. tx' = [tx EXCEPT ![c] = t]
    BY <1>2, <1>3 DEF Get, IInv, TypeOK, Transaction
  <2> QED BY <1>1, <1>3, <2>1, <2>2, Unseen DEF Get
<1>4. CASE Retry(c)
  <2> DEFINE t == [tx[c] EXCEPT !.pc = "get", !.attempt = tx[c].attempt + 1]
  <2>1. tx[c].attempt + 1 \in 1..Attempts
    BY <1>2, <1>4, FirestoreAssumption DEF Retry, Transaction
  <2>2. t \in Transaction /\ t.request = tx[c].request /\ t.pc # "answer"
    BY <1>2, <2>1 DEF Transaction
  <2>3. tx' = [tx EXCEPT ![c] = t]
    BY <1>2, <1>4 DEF Retry, IInv, TypeOK, Transaction
  <2> QED BY <1>1, <1>4, <2>2, <2>3, Unseen DEF Retry
<1> QED BY <1>3, <1>4

\* The repository is, seen from its clients, a store whose calls take effect at one
\* moment each, at most once, and did if they return nil.
THEOREM StoreImplemented == Spec => Contract!StoreSafety
<1>1. Init => Contract!StoreInit
  BY DEF Init, Contract!StoreInit
<1>2. IInv /\ [Next]_vars => [Contract!StoreNext]_(Contract!storeVars)
  <2>1. ASSUME IInv, NEW c \in Clients, Begin(c) \/ Step(c)
        PROVE  [Contract!StoreNext]_(Contract!storeVars)
    BY <2>1, BeginContract, GetRetryUnseen, CommitContract, WriteContract, AnswerContract
    DEF Step, Contract!StoreNext
  <2>2. ASSUME UNCHANGED vars PROVE UNCHANGED Contract!storeVars
    BY <2>2 DEF vars, Contract!storeVars
  <2> QED BY <2>1, <2>2 DEF Next
<1> QED BY <1>1, <1>2, FirestoreInductive, PTL DEF Spec, Contract!StoreSafety

=============================================================================
